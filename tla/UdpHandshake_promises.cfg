CONSTANTS
  Chunks = 2
  MaxData = 1
  MaxIds = 1
  Batching = {TRUE}
  Partials = TRUE
  Refusals = FALSE

SPECIFICATION Spec

INVARIANTS
  BatchedKept
  ResendsWhenSilent

CHECK_DEADLOCK FALSE
