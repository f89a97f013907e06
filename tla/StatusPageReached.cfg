\* The requests of TestsModule::StartTests.
CONSTANTS
  N = 2
  MaxExtents = 1
SPECIFICATION Spec
PROPERTY StatusPageReached
CHECK_DEADLOCK FALSE
