SPECIFICATION MCSpec
CONSTANTS
    Calls = {c1, c2}
    Files = {f, g}
    a = a
    b = b
    Texts = {a, b}
    Scripts <- MCScripts
    None = None
    r1 = r1
    r2 = r2
    p1 = p1
    p2 = p2
    p3 = p3
    Sessions = {s1, s2}
    Roots = {r1, r2}
    Paths = {p1, p2, p3}
    open = open
    secret = secret
    Excluded = {p3, secret}
    Tasks = {t1, t2}
    Runs = {t1, t2}
    Background = {}
    Closers = {}
SYMMETRY Symmetry
INVARIANTS FilesAreSafe RepliesAreTrue
CHECK_DEADLOCK FALSE
