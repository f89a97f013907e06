\* Two servers, each in Run, started twice and stopped by Stop too.
CONSTANTS
  Servers = {s1, s2}
  MaxSignals = 2
  MaxStarts = 2
  CallsStop = TRUE
SPECIFICATION Spec
INVARIANTS
  TypeOK
  ReturnedMeansExited
PROPERTIES
  QuitEndsPolling
  SigintWakesSleepers
