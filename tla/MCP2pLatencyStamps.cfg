CONSTANTS
  NumIter = 3
  NumSizes = 2
  PrelaunchModes = {FALSE, TRUE}
SPECIFICATION Spec
INVARIANTS EveryPhaseStamped
CHECK_DEADLOCK FALSE
