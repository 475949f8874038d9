CONSTANTS
  NumNodes = 4
  NumIter = 1
  NumSizes = 1
  Plans <- MCPlans
  SyncTypes = {2}
  TriggerModes <- NoTrigger
  EngineIds = {0, 2, 4, 6}
  FillEngine = 2
  SignalSlots = 17
  Half = 4
  Collectives = {"ag_bcst"}
  NumTotalNodes = 4
  SharedEngine = {}
  Dma <- OneDma
  Ways = 3
SPECIFICATION Spec
INVARIANTS ResultCorrect
CHECK_DEADLOCK FALSE
