CONSTANTS
    Lengths = {0, 1, 3, 5}
    MaxMessages = 3
    Header = 2
    Initial = 1
    Reserve = 3
    Full = 8
    StartsOver = FALSE
    SizeLimit = 4
    MaxCancels = 1
SPECIFICATION FairFramingSpec
INVARIANT MessagesIntact
PROPERTY AllReturned
CHECK_DEADLOCK FALSE
