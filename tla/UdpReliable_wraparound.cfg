CONSTANTS
  Client = Client
  Server = Server
  IdModulus = 5
  DupWindow = 4
  AckBatch = 2
  OooCap = 1
  UnackedCap = 2
  RetransmitCap = 1
  MaxBatch = 1
  MaxReliable = 1
  MaxSends <- Download4
  Undecodable <- AllDecodable
  Duplicates = FALSE

SPECIFICATION Spec

INVARIANT
  LostAckRepeated

CHECK_DEADLOCK FALSE
