CONSTANTS
  RetryAfter = 1
  Early <- ShortStart
  IdleAfter = 3
  Actives = {2}
  Limit = 1
  Transports = {"stream"}
  Bases = {1}
  LongestBase = 1
  MaxMultiple = 2
  MaxRetransmits = 1
  Rounds <- TwoWaits
  LocalCap = 2
  AckDelay = 1
  AcksPerMessage = 1
  MaxToAck = 2
  MaxOutstanding = 1
  MaxManual = 0
  Horizon = 7

SPECIFICATION TimerSpec

INVARIANT
  ActiveOnTime

CHECK_DEADLOCK FALSE
