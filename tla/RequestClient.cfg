\* Two requests, answered in up to two extents.
CONSTANTS
  N = 2
  MaxExtents = 2
SPECIFICATION Spec
INVARIANTS
  ClientTypeOK
  SafeWithoutOverlap
PROPERTIES
  ResolvesLikeAFuture
  SentIsResolved
CHECK_DEADLOCK FALSE
