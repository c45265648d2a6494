CONSTANTS
    InitMayFail = TRUE
    MaxSendFailures = 2
    MaxCloseFailures = 2
SPECIFICATION FairLifeSpec
INVARIANT OneGoodbye
PROPERTIES DeadWorkerNoticed CloseEnds
CHECK_DEADLOCK FALSE
