CONSTANTS
    Hosts = {h1}
    QueueSize = 1
    MaxPings = 2
    MaxSocketErrors = 0
    MaxExpired = 0
    MaxPongs = 0
SPECIFICATION FairSpec
PROPERTY OnlyUnresolvedNotCalled
CHECK_DEADLOCK FALSE
