SPECIFICATION Spec
CONSTANTS
  WordBits = 2
  Threads = {t1, t2}
  Addrs = {a1}
  Kinds <- AllKinds
  Operands <- OperandsTwo
  Interference = TRUE
  NoAddr = NoAddr
SYMMETRY ThreadSymmetry
INVARIANTS TypeOK ReservedStoreIsCurrent
PROPERTIES NoLostUpdate ImplementsAtomicMemory
