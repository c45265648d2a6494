CONSTANTS
    Lengths = {3}
    MaxMessages = 3
    Header = 2
    Initial = 1
    Reserve = 3
    Full = 6
    StartsOver = TRUE
    SizeLimit = 0
    MaxCancels = 0
SPECIFICATION FramingSpec
INVARIANT NoSpuriousError
CHECK_DEADLOCK FALSE
