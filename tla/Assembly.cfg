SPECIFICATION AssemblySpec
CONSTANTS
  Offsets <- MCOffsets
  Sections <- MCSections
  Addresses <- MCAddresses
  GotOffsets <- MCGotOffsets
  OtherBits <- MCOtherBits
  Literals <- MCLiterals
  RegNums <- MCRegNums
CHECK_DEADLOCK FALSE
INVARIANTS SymbolReached OtherBitsKept NoFalseError LiteralReached RefusedOutOfRange RoundTrip
