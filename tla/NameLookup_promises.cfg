CONSTANTS
    Urls <- MCUrls
    Published <- MCPublished
    Families <- MCEither
    MaxConnects = 1
    PreferIpv6 = TRUE
    PreferredType = "Udp"
    Close = 2
    Times = {1, 4}
    ChannelSize = 8
    Announced <- MCUnknown
SPECIFICATION Spec
INVARIANTS SomethingToTry OnlyEnabledFamilies PathKept NotFoundMeansNone
CHECK_DEADLOCK FALSE
