CONSTANTS
  MaxGpus = 8
  SignalSlots = 512
  Inputs <- PrelaunchInputs
SPECIFICATION Spec
INVARIANTS TimesSuffice
CHECK_DEADLOCK FALSE
