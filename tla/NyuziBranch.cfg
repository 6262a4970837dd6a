SPECIFICATION FairSpec
CONSTANTS
  Targets = {b1, b2}
  Regs = {r1, r2}
  MaxLen = 4
  Null = Null
CHECK_DEADLOCK FALSE
INVARIANTS AnalysisIsExact SuccessorsPreserved FBBShouldBeNull
PROPERTIES Terminates
