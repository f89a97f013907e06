\* Any wire, cut anywhere.
CONSTANTS
  Symbols <- SymbolSet
  CR = "CR"
  LF = "LF"
  LengthName = "L"
  CodingName = "T"
  Chunked = "chunked"
  SizeOf <- Number
  Wires <- AnyWires
  Complete <- KnownSizeWires
SPECIFICATION Spec
INVARIANTS
  TypeOK
  BufferIsTail
  KnownSizeCount
  FragmentationInvisible
PROPERTIES
  MessageCompletes
