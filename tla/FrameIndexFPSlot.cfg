SPECIFICATION IndexSpec
CONSTANTS
  ScalarSize = 4
  StackAlign = 64
  NyuziCSR <- MCCSR
  Vectors = {"V26", "V27", "V28", "V29", "V30", "V31"}
  ImmBits = 14
  HiBits = 17
  Functions <- LargeWithFP
  FrameBases <- Bases
CHECK_DEADLOCK FALSE
INVARIANTS ScavengingCompletes
