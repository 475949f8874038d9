CONSTANTS
  NumNodes = 2
  NumIter = 1
  NumSizes = 1
  Plans <- MCPlans
  SyncTypes = {2}
  TriggerModes <- NoTrigger
  EngineIds = {0, 2, 4}
  FillEngine = 2
  SignalSlots = 8
  Half = 4
  Collectives = {"ag_pcpy"}
  NumTotalNodes = 2
  SharedEngine = {}
  Dma <- OneDma
  Ways = 1
SPECIFICATION Spec
INVARIANTS AllBuffersFreed
CHECK_DEADLOCK FALSE
