CONSTANTS
    Databases = {d1, d2, dPlain, dRefused, dGarbled}
    Undecodable = {dGarbled}
    Refused = {dRefused}
    Plain = {dPlain}
    Offers = {d1, NoDatabase}
    Payloads <- MCPayloads
    NoDatabase = NoDatabase
    Broken = Broken
    Gone = Gone
    NoDict = NoDict
    Uninitialised = Uninitialised
    Nothing = Nothing
    ReconnectLimit = 3
    MaxSessions = 2
    MaxRestarts = 1
SPECIFICATION Spec
INVARIANTS DictionariesAgree NeverCrashes
CHECK_DEADLOCK FALSE
