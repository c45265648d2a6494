CONSTANTS
    Databases = {d1, d2, dPlain, dRefused, dGarbled}
    Undecodable = {dGarbled}
    Refused = {dRefused}
    Plain = {dPlain}
    Offers = {d1, d2, dPlain, dRefused, dGarbled}
    Payloads <- MCPayloads
    NoDatabase = NoDatabase
    Broken = Broken
    Gone = Gone
    NoDict = NoDict
    Uninitialised = Uninitialised
    Nothing = Nothing
    ReconnectLimit = 4
    MaxSessions = 3
    MaxRestarts = 2
SPECIFICATION FairSpec
INVARIANTS MessagesReadable ResetTold DatabaseErrorsHonest
PROPERTY ReconnectEnds
CHECK_DEADLOCK FALSE
