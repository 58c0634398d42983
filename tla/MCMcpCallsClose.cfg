SPECIFICATION MCSpec
CONSTANTS
    Callers = {k1, k2}
    None = None
    MaxCalls = 2
    MaxPushes = 1
    InboundCap = 1
    MaxSseCalls = 3
    MaxStreams = 2

PROPERTIES CloseWakes
CHECK_DEADLOCK FALSE
