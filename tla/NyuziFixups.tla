---------------------------- MODULE NyuziFixups ----------------------------
(***************************************************************************)
(* The way of a symbol into an instruction.  The code emitter leaves the   *)
(* field 0 and records a fixup; the assembler fills the field in when it   *)
(* knows the value (NyuziAsmBackend.cpp) and otherwise turns the fixup     *)
(* into a relocation (NyuziELFObjectWriter.cpp), which the linker applies  *)
(* once it has placed the sections (lld/ELF/Arch/Nyuzi.cpp).  Assembler    *)
(* and linker have each their own copy of the field layout.                *)
(*                                                                         *)
(* An instruction word is the set of its one bits.  Numbers are those of   *)
(* C++, negative ones standing for addresses in the upper half.            *)
(***************************************************************************)
EXTENDS NyuziBits

CONSTANTS
  Offsets,     \* offsets of instructions and labels in the section
  Sections,    \* addresses that the linker gives the section
  Addresses,   \* addresses of symbols of other files, and constants
  GotOffsets,  \* offsets of a symbol's entry in the GOT
  OtherBits    \* sets of bits of the other operands

ASSUME OffsetsAssumption == Offsets \subseteq Nat
ASSUME SectionsAssumption == Sections \subseteq {a \in Nat : a % 4 = 0}
ASSUME AddressesAssumption == Addresses \subseteq Int
ASSUME GotOffsetsAssumption == GotOffsets \subseteq Nat
ASSUME OtherBitsAssumption == OtherBits \subseteq SUBSET (0 .. 31)

Branches == {"Branch20", "Branch25"}
Kinds == Branches \cup {"HI19", "IMM_LO13", "GOT", "Data_4"}

VARIABLES
  kind,     \* of the fixup
  off,      \* the offset of the instruction
  symbol,   \* where it is defined ("here", "elsewhere" or "absolute"), and
            \* its offset in the section or its address
  word,     \* the instruction
  other,    \* history: its bits outside the field
  rela,     \* the relocation: "none" or "pending", and its addend
  section,  \* the address of the section
  got,      \* the offset of the symbol's GOT entry
  error,    \* an error was reported
  stage     \* "idle", "assemble", "link" or "done"

vars == <<kind, off, symbol, word, other, rela, section, got, error, stage>>

-----------------------------------------------------------------------------
(* Numbers. *)
isIntN(bits, v) == -(2^(bits - 1)) <= v /\ v < 2^(bits - 1)
Quotient4(v) == IF v >= 0 THEN v \div 4 ELSE -((-v) \div 4)

(* The value of n bits of a word from position lo: unsigned and signed. *)
Field(w, lo, n) ==
  LET value[k \in 0 .. n] == IF k = 0 THEN 0
                             ELSE value[k - 1] + IF lo + k - 1 \in w THEN 2^(k - 1) ELSE 0
  IN  value[n]
SignedField(w, lo, n) == Field(w, lo, n) - (IF lo + n - 1 \in w THEN 2^n ELSE 0)

-----------------------------------------------------------------------------
(* getFixupKindInfo *)
TargetOffset(k) ==
  CASE k = "Branch20" -> 5
    [] k = "IMM_LO13" -> 10
    [] k = "GOT"      -> 10
    [] OTHER          -> 0
TargetSize(k) ==
  CASE k = "Branch20" -> 20
    [] k = "Branch25" -> 25
    [] k = "IMM_LO13" -> 13
    [] k = "GOT"      -> 15
    [] OTHER          -> 32

(* The bits of the instruction that a fixup's value goes to. *)
FieldBits(k) ==
  IF k = "HI19" THEN (0 .. 4) \cup (10 .. 23)
  ELSE TargetOffset(k) .. (TargetOffset(k) + TargetSize(k) - 1)

(* The bits of the operand, which the emitter leaves 0: the low part of an *)
(* address goes to an immediate of 14 bits, whose top bit is not written.  *)
OperandBits(k) == FieldBits(k) \cup (IF k = "IMM_LO13" THEN {23} ELSE {})

(* adjustFixupValue, with its 32 bit result. *)
adjustFixupValue(k, v) ==
  CASE k \in Branches -> Word32(Bits(Quotient4(v)))
    [] k = "HI19" -> Low(Shr(Bits(v), 13), 5) \cup Shl(Low(Shr(Bits(v), 18), 14), 10)
    [] OTHER -> Word32(Bits(v))

(* Mutant: the range is tested before the division. *)
outOfRangeUndivided(k, v) == k \in Branches /\ ~isIntN(TargetSize(k), v)

(* "fixup out of range", for which 0 is filled in. *)
outOfRange(k, v) == k \in Branches /\ ~isIntN(TargetSize(k), Quotient4(v))

(* Mutant: the value is not masked. *)
applyFixupUnmasked(k, v) ==
  LET Value == IF outOfRange(k, v) THEN {} ELSE adjustFixupValue(k, v)
  IN  Word32(word \cup Shl(Value, TargetOffset(k)))

(* applyFixup: or the value into the word. *)
applyFixup(k, v) ==
  LET Value == IF outOfRange(k, v) THEN {} ELSE adjustFixupValue(k, v)
  IN  Word32(word \cup Shl(Low(Value, TargetSize(k)), TargetOffset(k)))

Init ==
  /\ kind \in Kinds
  /\ off \in Offsets
  /\ symbol \in (({"here"} \X Offsets) \cup ({"elsewhere", "absolute"} \X Addresses))
  /\ kind \in Branches => symbol[1] # "absolute" /\ symbol[2] % 4 = 0 /\ off % 4 = 0
  /\ kind = "GOT" => symbol[1] # "absolute"
  /\ \E bits \in OtherBits : other = bits \ OperandBits(kind)
  /\ word = other                  \* encodeInstruction, with 0 in the field
  /\ rela = <<"none", 0>>
  /\ section \in Sections
  /\ IF kind = "GOT" THEN got \in GotOffsets ELSE got = 0
  /\ error = FALSE
  /\ stage = "assemble"

(* There is no fixup: the operand is a number. *)
FixupIdle ==
  /\ kind = "Data_4" /\ off = 0 /\ symbol = <<"absolute", 0>> /\ word = {}
  /\ other = {} /\ rela = <<"none", 0>> /\ section = 0 /\ got = 0
  /\ error = FALSE /\ stage = "idle"

-----------------------------------------------------------------------------
(* The assembler knows the distance to a label of the section, and the     *)
(* value of a constant.                                                    *)
Resolve ==
  /\ stage = "assemble"
  /\ \/ kind \in Branches /\ symbol[1] = "here"
     \/ kind \notin Branches /\ symbol[1] = "absolute"
  /\ LET Value == IF kind \in Branches THEN symbol[2] - off ELSE symbol[2] IN
       /\ word' = applyFixup(kind, Value)
       /\ error' = outOfRange(kind, Value)
  /\ stage' = "link"
  /\ UNCHANGED <<kind, off, symbol, other, rela, section, got>>

(* "Cannot use addend in the GOT" *)
needsRelocateWithSymbol(k) == k = "GOT"

(* getRelocType: otherwise there is a relocation, against the section of a *)
(* symbol that is defined here unless it needs the symbol itself, and the  *)
(* fixup is applied with the value 0.                                      *)
Relocate ==
  /\ stage = "assemble"
  /\ \/ kind \in Branches /\ symbol[1] = "elsewhere"
     \/ kind \notin Branches /\ symbol[1] # "absolute"
  /\ rela' = <<"pending", IF symbol[1] = "here" /\ ~needsRelocateWithSymbol(kind)
                           THEN symbol[2] ELSE 0>>
  /\ word' = applyFixup(kind, 0)
  /\ stage' = "link"
  /\ UNCHANGED <<kind, off, symbol, other, section, got, error>>

(* applyNyuziReloc<size, base> *)
applyNyuziReloc(w, size, base, bits) ==
  (w \ (base .. (base + size - 1))) \cup Shl(Low(bits, size), base)

(* Mutant: the parts of the movehi field are swapped. *)
relocateWordSwapped(k, w, Val) ==
  IF k = "HI19" THEN applyNyuziReloc(applyNyuziReloc(w, 5, 0, Shr(Bits(Val), 27)),
                                     14, 10, Shr(Bits(Val), 13))
  ELSE applyNyuziReloc(w, TargetSize(k), TargetOffset(k),
                       Bits(IF k \in Branches THEN Quotient4(Val) ELSE Val))

(* relocateOne, the word ... *)
relocateWord(k, w, Val) ==
  CASE k = "Data_4"   -> Word32(Bits(Val))
    [] k = "Branch20" -> applyNyuziReloc(w, 20, 5, Bits(Quotient4(Val)))
    [] k = "Branch25" -> applyNyuziReloc(w, 25, 0, Bits(Quotient4(Val)))
    [] k = "HI19"     -> applyNyuziReloc(applyNyuziReloc(w, 5, 0, Shr(Bits(Val), 13)),
                                         14, 10, Shr(Bits(Val), 18))
    [] k = "IMM_LO13" -> applyNyuziReloc(w, 13, 10, Bits(Val))
    [] k = "GOT"      -> applyNyuziReloc(w, 15, 10, Bits(Val))

(* ... and its checkInt. *)
checkInt(k, Val) ==
  CASE k = "Branch20" -> isIntN(20, Quotient4(Val))
    [] k = "Branch25" -> isIntN(25, Quotient4(Val))
    [] k = "GOT"      -> isIntN(15, Val)
    [] OTHER          -> TRUE

(* getRelExpr: what the linker computes for a relocation. *)
SymbolValue == IF symbol[1] = "here" THEN section ELSE symbol[2]
RelocValue ==
  CASE kind \in Branches -> SymbolValue + rela[2] - (section + off)
    [] kind = "GOT"      -> got + rela[2]
    [] OTHER             -> SymbolValue + rela[2]

Link ==
  /\ stage = "link"
  /\ IF rela[1] = "none" THEN UNCHANGED <<word, error>>
     ELSE /\ word' = relocateWord(kind, word, RelocValue)
          /\ error' = (error \/ ~checkInt(kind, RelocValue))
  /\ stage' = "done"
  /\ UNCHANGED <<kind, off, symbol, other, rela, section, got>>

Next == Resolve \/ Relocate \/ Link

-----------------------------------------------------------------------------
(* The symbol's address in the finished program. *)
FinalAddress == IF symbol[1] = "here" THEN section + symbol[2] ELSE symbol[2]

(* What the finished instruction makes of its field: decodeBranchTarget-   *)
(* OpValue20/25 and the hardware for the branches, a sign-extended offset  *)
(* for a load from the GOT, and an immediate of 14 bits whose top bit must *)
(* have stayed 0 for the low part of an address.                           *)
DecodedRight ==
  CASE kind = "Branch20" -> section + off + 4 * SignedField(word, 5, 20) = FinalAddress
    [] kind = "Branch25" -> section + off + 4 * SignedField(word, 0, 25) = FinalAddress
    [] kind = "HI19"     -> Field(word, 0, 5) + 2^5 * Field(word, 10, 14)
                              = (FinalAddress \div 2^13) % 2^19
    [] kind = "IMM_LO13" -> SignedField(word, 10, 14) = FinalAddress % 2^13
    [] kind = "GOT"      -> SignedField(word, 10, 15) = got
    [] kind = "Data_4"   -> word = Word32(Bits(FinalAddress))

(* An instruction that refers to a symbol reaches it in the finished       *)
(* program, whether the assembler or the linker filled the field in, and   *)
(* whatever address the section got; if it cannot, an error was reported.  *)
SymbolReached == stage = "done" => error \/ DecodedRight

(* Neither touches the opcode or the other operands. *)
OtherBitsKept == kind # "Data_4" => word \ FieldBits(kind) = other

(* Nothing that fits is refused: a branch is rejected only if its distance *)
(* in words does not fit its field.                                        *)
NoFalseError ==
  stage = "done" /\ error =>
    \/ kind \in Branches /\ ~isIntN(TargetSize(kind) + 2, FinalAddress - section - off)
    \/ kind = "GOT" /\ ~isIntN(15, got)
=============================================================================
