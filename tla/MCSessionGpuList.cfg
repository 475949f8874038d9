CONSTANTS
  MaxGpus = 8
  SignalSlots = 512
  Inputs <- GpuListInputs
  Gig = 32
  Word = 128
  Lengths <- SurfaceSizes
  Page = 8
  CpuQueue = 1024
  SmallQueue = 1024
  BigQueue = 524288
  MaxSamples = 70
  MaxDoublings = 7
SPECIFICATION SessionSpec
INVARIANTS MappedWhereUsed
CHECK_DEADLOCK FALSE
