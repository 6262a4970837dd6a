SPECIFICATION Spec
CONSTANTS
  Lanes = {l1, l2}
  Numbers = {0, 1, 2}
  NaN = NaN
  BothMayBeNaN = TRUE
CHECK_DEADLOCK FALSE
INVARIANTS ComparisonCorrect
