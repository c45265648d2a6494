CONSTANTS
  Chunks = 2
  MaxData = 1
  MaxIds = 2
  Batching = {TRUE, FALSE}
  Partials = TRUE
  Refusals = TRUE

SPECIFICATION FairSpec

INVARIANTS
  WholeAnswer
  UnexpectedKept

PROPERTY
  HandshakeEnds

CHECK_DEADLOCK FALSE
