CONSTANTS
  NumNodes = 2
  NumIter = 1
  NumSizes = 1
  Plans <- MCPlans
  SyncTypes = {2}
  TriggerModes <- NoTrigger
  EngineIds = {0, 2, 4}
  FillEngine = 2
  SignalSlots = 13
  Half = 4
  Collectives = {"ag_bcst"}
  NumTotalNodes = 3
  SharedEngine = {}
  Dma <- OneDma
  Ways = 1
SPECIFICATION Spec
INVARIANTS ResultCorrect
CHECK_DEADLOCK FALSE
