CONSTANTS
    ToSend = 5
    Initial = 2
    MaxBuffer = 4
    MaxPacket = 2
    Window = 3
    Parallel = {TRUE, FALSE}
    MaxBlocked = 1
    MaxFailures = 1
SPECIFICATION FairSpec
INVARIANTS StreamIntact AckAssertions
PROPERTY AllSent
CHECK_DEADLOCK FALSE
