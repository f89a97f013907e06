\* FalseMeansNotHandled does not hold of the code.
CONSTANTS
  Statuses = {ok, bad, error}
  OK = ok
  InternalError = error
  NoStatus = none
  Headers = {h1}
  Bytes = {"a"}
  Payloads <- Blocks
  Framings <- DefaultFraming
  MaxCalls = 4
  Handlers <- Chain
SPECIFICATION DispatchSpec
INVARIANT
  FalseMeansNotHandled
