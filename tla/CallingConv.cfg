SPECIFICATION Spec
CONSTANTS
  ArgSRegs = 2
  ArgVRegs = 1
  RetSRegs = 2
  RetVRegs = 1
  StackBase = 1024
  MaxArgs = 4
  MaxRets = 3
  Calls <- MCCalls
CHECK_DEADLOCK FALSE
INVARIANTS TypeOK ArgumentsArrive VarArgsArrive OutgoingArea ResultsArrive
