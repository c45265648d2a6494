CONSTANTS
  Users = {w, u}
  Waiter = w
  Urls <- ValidUrls
  ConnectCap = 2
  MsgCap = 2
  ReconnectLimit = 3
  MaxCandidates = 2
  MaxConnect = 1
  MaxSend = 0
  MaxDisconnect = 1
  MaxDrop = 1
  MaxDestroy = 0

SPECIFICATION DropSpec

INVARIANT
  ReconnectHasAddress

CHECK_DEADLOCK FALSE
