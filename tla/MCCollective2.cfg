CONSTANTS
  NumNodes = 2
  NumIter = 2
  NumSizes = 2
  Plans <- MCPlans
  SyncTypes = {0, 1, 2}
  TriggerModes <- AllTriggers
  EngineIds = {0, 2, 4}
  FillEngine = 2
  SignalSlots = 8
  Half = 4
  Collectives = {"ag_pcpy", "aa_pcpy", "aa_swap", "ag_bcst", "ag_b2b", "aa_b2b"}
  NumTotalNodes = 2
  SharedEngine = {}
  Dma <- OneDma
  Ways = 1
SPECIFICATION Spec
INVARIANTS TypeOK ResultCorrect SeenIsMoved RaceFree FreedIsQuiescent SignalsNeverWrap ValidationPasses
PROPERTIES PrelaunchGated LogComplete Terminates ImplementsCollective
CHECK_DEADLOCK FALSE
