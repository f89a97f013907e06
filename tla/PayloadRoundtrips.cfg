\* PayloadRoundtrips does not hold of the code.
CONSTANTS
  Symbols <- SymbolSet
  CR = "CR"
  LF = "LF"
  LengthName = "L"
  CodingName = "T"
  Chunked = "chunked"
  SizeOf <- Number
  Wires <- KnownSizeWires
  Complete <- KnownSizeWires
SPECIFICATION Spec
INVARIANT
  PayloadRoundtrips
