\* Three blocks, read one or two at a time.
CONSTANTS
  MaxWrites = 3
  Window = 2
SPECIFICATION Spec
INVARIANTS
  CefTypeOK
  HeadersReadWhenDone
  CompleteIsWhole
PROPERTIES
  ResponseEnds
  SleeperGetsBlocks
CHECK_DEADLOCK FALSE
