CONSTANTS
  MaxGpus = 8
  SignalSlots = 512
  Inputs <- ShortDmaInputs
SPECIFICATION Spec
INVARIANTS EnoughEngineIds
CHECK_DEADLOCK FALSE
