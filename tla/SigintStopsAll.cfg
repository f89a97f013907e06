\* A SIGINT between the test of quit and the wait is lost.
CONSTANTS
  Servers = {s1, s2}
  MaxSignals = 1
  MaxStarts = 1
  CallsStop = FALSE
SPECIFICATION Spec
PROPERTY
  SigintStopsAll
