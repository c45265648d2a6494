CONSTANTS
    InitMayFail = TRUE
    MaxSendFailures = 1
    MaxCloseFailures = 1
SPECIFICATION FairLifeSpec
INVARIANT ClosesExistingConn
PROPERTIES FailedCloseEnds FullSendEnds
CHECK_DEADLOCK FALSE
