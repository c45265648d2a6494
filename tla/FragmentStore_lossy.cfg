CONSTANTS
  IdModulus = 5
  IndexModulus = 8
  Mtu = 5
  CommonHeader = 1
  FragHeader = 1
  big = big
  bigger = bigger
  Message <- Messages
  Size <- Sizes
  Header <- Headers
  MaxTransmissions = 4

SPECIFICATION Spec

INVARIANTS
  Integrity
  NoCompleteLeft

PROPERTY
  FreshKept
