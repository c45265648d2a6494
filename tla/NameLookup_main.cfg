CONSTANTS
    Urls <- MCUrls
    Published <- MCPublished
    Families <- MCEither
    MaxConnects = 2
    PreferIpv6 = TRUE
    PreferredType = "Udp"
    Close = 2
    Times = {1, 4}
    ChannelSize = 1
    Announced <- MCKnown
SPECIFICATION FairSpec
INVARIANTS AddressesRight OneFamilySuffices FastestFirst
PROPERTY ConnectEnds
CHECK_DEADLOCK FALSE
