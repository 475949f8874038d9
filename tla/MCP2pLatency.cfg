CONSTANTS
  NumIter = 3
  NumSizes = 2
  PrelaunchModes = {FALSE, TRUE}
SPECIFICATION Spec
INVARIANTS TypeOK ValidationPasses CopyAwaitsRelease StampsBeforeSync FreedIsQuiescent
PROPERTIES Terminates
CHECK_DEADLOCK FALSE
