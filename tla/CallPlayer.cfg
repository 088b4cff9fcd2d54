CONSTANTS
    Callers = {"known", "unknown"}
    MaxFaults = 1
    MaxChunks = 4
    Coincidences = {}
SPECIFICATION AllSpec
INVARIANTS
    HandledFollowsActual
    DialedThenEnded
PROPERTIES
    NobodyWritesAfterEnded
    WaitEndsWithTheCall
    
