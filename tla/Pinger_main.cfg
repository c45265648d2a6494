CONSTANTS
    Hosts = {h1}
    QueueSize = 1
    MaxPings = 3
    MaxSocketErrors = 1
    MaxExpired = 1
    MaxPongs = 1
SPECIFICATION FairSpec
INVARIANTS CalledOnce EmptyOnlyAfterLapse
PROPERTY CalledBack
CHECK_DEADLOCK FALSE
