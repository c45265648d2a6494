CONSTANTS
  RetryAfter = 1
  Early <- ShortStart
  IdleAfter = 2
  Actives = {0, 1}
  Limit = 1
  Transports = {"udp", "stream"}
  Bases = {1, 3}
  LongestBase = 3
  MaxMultiple = 2
  MaxRetransmits = 1
  Rounds <- TwoWaits
  LocalCap = 2
  AckDelay = 1
  AcksPerMessage = 1
  MaxToAck = 2
  MaxOutstanding = 1
  MaxManual = 1
  Horizon = 7

SPECIFICATION TimerSpec

INVARIANTS
  DeadPeerNoticed
  NoEarlyTimeout

CHECK_DEADLOCK FALSE
