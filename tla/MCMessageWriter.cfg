\* The writer in every framing.
CONSTANTS
  Statuses = {ok, bad}
  OK = ok
  Headers = {h1, te}
  CodingHeaders = {te}
  Bytes = {"a", "b"}
  Payloads <- Blocks
  Framings <- AllFramings
  MaxCalls = 4
SPECIFICATION MCSpec
INVARIANTS
  WriterTypeOK
  HeadPrecedesBody
  ContentLengthIsPayload
  RecipientReadsPayload
