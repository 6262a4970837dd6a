SPECIFICATION FairSpec
CONSTANTS
  WordBits = 2
  Threads = {t1, t2}
  Addrs = {a1}
  Kinds = {"ADD", "CMP_SWAP"}
  Operands <- OperandsTwo
  Interference = FALSE
  NoAddr = NoAddr
PROPERTIES LockFree
