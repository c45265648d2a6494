CONSTANTS
  Users = {w, u}
  Waiter = w
  Urls <- MixedUrls
  ConnectCap = 2
  MsgCap = 2
  ReconnectLimit = 3
  MaxCandidates = 2
  MaxConnect = 2
  MaxSend = 2
  MaxDisconnect = 1
  MaxDrop = 0
  MaxDestroy = 1

SPECIFICATION FairSpec

INVARIANTS
  WorkerHasSocket
  NoSpuriousClose
  StaleNeverSent

PROPERTIES
  LifecycleRefinement
  DisconnectHonoured
  ConnectWaitReturns

CHECK_DEADLOCK FALSE
