SPECIFICATION FairFSpec
CONSTANTS
  Lanes = {l1, l2, l3}
  Top = 3
  Values <- MCValues
  Exprs <- MCExprs
  Inputs <- MCInputs
  Conds <- MCConds
  Functions <- MCFunctions
  MaxDepth = 2
  ReturnInLoops = FALSE
  NoValue = NoValue
CHECK_DEADLOCK FALSE
INVARIANTS TypeOK UnreturnedLanesMatch ResultsMatchScalar ReturnedLanesInactive
PROPERTIES Terminates
