CONSTANTS
  Users = {w, u}
  Waiter = w
  Urls <- ValidUrls
  ConnectCap = 2
  MsgCap = 2
  ReconnectLimit = 3
  MaxCandidates = 2
  MaxConnect = 2
  MaxSend = 1
  MaxDisconnect = 1
  MaxDrop = 0
  MaxDestroy = 0

SPECIFICATION FairSpec

INVARIANTS
  WaitsForOutcome
  SentInOwnSession

PROPERTIES
  NoDropWhileConnected
  DisconnectEnds

CHECK_DEADLOCK FALSE
