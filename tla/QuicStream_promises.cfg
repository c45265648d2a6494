CONSTANTS
    ToSend = 4
    Initial = 2
    MaxBuffer = 4
    MaxPacket = 2
    Window = 0
    Parallel = {TRUE}
    MaxBlocked = 0
    MaxFailures = 0
SPECIFICATION FairSpec
INVARIANT NoMoveInFlight
PROPERTY AllSentInParallel
CHECK_DEADLOCK FALSE
