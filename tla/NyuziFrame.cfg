SPECIFICATION Spec
CONSTANTS
  ScalarSize = 1
  StackAlign = 2
  NyuziCSR <- MCCSR
  Vectors = {"V"}
  ImmBits = 4
  HiBits = 4
  Functions <- MCFunctions
  Data <- MCData
  StackBase = 62
  MaxNesting = 3
  MaxAllocas = 2
CHECK_DEADLOCK FALSE
INVARIANTS TypeOK CalleeSavedRestored FrameIntact BlocksAligned NothingBelowSP
