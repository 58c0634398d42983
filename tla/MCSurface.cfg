SPECIFICATION MCSpec
CONSTANTS
    Servers = {a}
    Conns = {c1, c2}
    None = None
    MaxSpecs = 2
    MaxRestarts = 1
    MaxResolves = 2
    r1 = r1
    r2 = r2
    Sessions = {s1, s2}
    MaxScans = 2
    MaxPending = 1
    p1 = p1
    p2 = p2
    NoPlugin = NoPlugin
    NoId = NoId
    Workers = {w1, w2}
    Slots = {a1}
    MaxGen = 1
INVARIANTS ServersAreServed ToolsAreOffered HarnessIsSelected
CHECK_DEADLOCK FALSE
