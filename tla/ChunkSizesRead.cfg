\* ChunkSizesRead does not hold of the code.
CONSTANTS
  Symbols <- SymbolSet
  CR = "CR"
  LF = "LF"
  LengthName = "L"
  CodingName = "T"
  Chunked = "chunked"
  SizeOf <- Number
  Wires <- ChunkedWires
  Complete <- NoWires
SPECIFICATION Spec
INVARIANT
  ChunkSizesRead
