\* A chain of two routes and a static handler, with tasks.
CONSTANTS
  Statuses = {ok, bad, error}
  OK = ok
  InternalError = error
  NoStatus = none
  Headers = {h1}
  Bytes = {"a"}
  Payloads <- Blocks
  Framings <- WithSizedFraming
  MaxCalls = 4
  Handlers <- Chain
SPECIFICATION DispatchSpec
INVARIANTS
  DispatchTypeOK
  AnsweredExactlyOnce
  NoneAfterHandled
PROPERTIES
  WriterProtocol
  RequestEnds
