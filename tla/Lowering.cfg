SPECIFICATION LowerSpec
CONSTANTS
  Lanes = {l1, l2}
  Numbers = {0, 1, 2}
  NaN = NaN
  BothMayBeNaN = FALSE
  NumLanes = 3
  WordBits = 4
  Undef = Undef
  Elements <- MCElements
  VectorInputs <- MCVectorInputs
  MaskInputs <- MCMaskInputs
  Scalars <- MCScalars
CHECK_DEADLOCK FALSE
INVARIANTS ComparisonCorrect SelectCorrect ShuffleCorrect MaskShuffleCorrect MaskLanesMatch ResultsMatch
