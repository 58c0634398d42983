SPECIFICATION MCSpec
CONSTANTS
    Senders = {s1, s2}
    None = None
    MaxSockets = 2
    MaxSends = 2
    MaxFrames = 1
    MaxPushes = 1
    Starter = h
    MaxDials = 2
    MaxBeats = 1
INVARIANTS ReportsItsOwnAck TokensOutliveRequests
PROPERTIES ConnectorsGoOn
CHECK_DEADLOCK FALSE
