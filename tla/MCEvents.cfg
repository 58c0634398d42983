SPECIFICATION MCSpec
CONSTANTS
    None = None
    BusCap = 2
    MaxTexts = 2
    MaxTurns = 1
    Sessions = {s}
    Clients = {a, b}
    Tick = Tick
    Cap = 2
    MaxEvents = 2
    MaxMoves = 3
    Wires = {"anthropic", "openai", "gemini"}
    Calls = {1, 2}
    StreamCap = 2
    MaxRetries = 2
    MaxChunk = 2
INVARIANTS NothingIsLostUnseen AnswersAreWhole
PROPERTIES EventsFlow
CHECK_DEADLOCK FALSE
