CONSTANTS
  Client = Client
  Server = Server
  IdModulus = 16
  DupWindow = 4
  AckBatch = 1
  OooCap = 1
  UnackedCap = 2
  RetransmitCap = 1
  MaxBatch = 2
  MaxReliable = 1
  MaxSends <- Download3
  Undecodable <- FirstUndecodable
  Duplicates = FALSE

SPECIFICATION FairSpec

INVARIANTS
  InOrder
  NoSilentLoss
  ForgottenOnlyIfAccepted

PROPERTIES
  ChannelRefinement
  EventuallyDelivered

CHECK_DEADLOCK FALSE
