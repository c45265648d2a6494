CONSTANTS
  Client = Client
  Server = Server
  IdModulus = 16
  DupWindow = 4
  AckBatch = 2
  OooCap = 2
  UnackedCap = 3
  RetransmitCap = 0
  MaxBatch = 2
  MaxReliable = 2
  MaxSends <- Download3
  Undecodable <- AllDecodable
  Duplicates = FALSE

SPECIFICATION Spec

INVARIANTS
  InOrder

CHECK_DEADLOCK FALSE
