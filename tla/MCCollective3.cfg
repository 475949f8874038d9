CONSTANTS
  NumNodes = 3
  NumIter = 1
  NumSizes = 1
  Plans <- MCPlans
  SyncTypes = {2}
  TriggerModes <- NoOrOwnTriggers
  EngineIds = {0, 2, 4}
  FillEngine = 2
  SignalSlots = 13
  Half = 4
  Collectives = {"ag_pcpy", "aa_pcpy", "aa_swap", "ag_b2b", "aa_b2b"}
  NumTotalNodes = 3
  SharedEngine = {"ag_pcpy", "aa_swap"}
  Dma <- OneDma
  Ways = 2
SPECIFICATION Spec
INVARIANTS ResultCorrect RaceFree
PROPERTIES Terminates
CHECK_DEADLOCK FALSE
