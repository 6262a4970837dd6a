SPECIFICATION FSpec
CONSTANTS
  Lanes = {l1, l2}
  Top = 3
  Values <- MCValues
  Exprs <- MCExprs
  Inputs <- MCInputs
  Conds <- MCConds
  Functions <- LoopReturnFunctions
  MaxDepth = 2
  ReturnInLoops = TRUE
  NoValue = NoValue
CHECK_DEADLOCK FALSE
INVARIANTS ResultsMatchScalar
