----------------------------- MODULE NyuziMask -----------------------------
(***************************************************************************)
(* Vectors of i1.  "v16i1 are stored as tightly packed bit masks" in a     *)
(* scalar register, so that every operation on them is lowered to bit      *)
(* manipulation of the register or to moves under the mask.  The register  *)
(* has bits above the lanes, which MASK_FROM_INT (a plain copy) leaves as  *)
(* they are.  One mask register and one result register run through any    *)
(* sequence of operations; beside them runs the reference, lane by lane    *)
(* (maskLanes and accLanes).                                               *)
(***************************************************************************)
EXTENDS NyuziVectorUnit, NyuziWord

CONSTANT Scalars  \* the i32 values that operands take, a set of words

ASSUME RegisterAssumption == WordBits > NumLanes
ASSUME ScalarsAssumption == Scalars \subseteq Word

(* The v16f32 elements: the values that an i1 can be converted to.  For a  *)
(* fraction the comparison of LowerFP_TO_XINT does not round (README).     *)
FPs == {-1, 0, 1}
ASSUME UndefAssumption == Undef \notin FPs

VARIABLES
  unit,     \* "on" while the node at hand is one of these
  mask,     \* the register of a v16i1
  acc,      \* the register of a result, by lane
  accType,  \* "i32" (in every lane), "v16i32" or "v16f32"
  maskLanes, accLanes \* reference: what the IR says

maskVars == <<unit, mask, acc, accType, maskLanes, accLanes>>

SHL(w, n) == {b + n : b \in w} \cap Bits
SRL(w, n) == {b - n : b \in {c \in w : c >= n}}
LowBit(w) == IF 0 \in w THEN 1 ELSE 0

(* A mask that comes from an integer register (MASK_FROM_INT), and vectors *)
(* of any elements.                                                        *)
MaskInit ==
  /\ unit = "on"
  /\ mask \in Word
  /\ maskLanes = [l \in VLanes |-> IF l \in mask THEN 1 ELSE 0]
  /\ \/ accType = "v16i32" /\ acc \in [VLanes -> Scalars]
     \/ accType = "v16f32" /\ acc \in [VLanes -> FPs]
  /\ accLanes = acc

MaskIdle ==
  /\ unit = "off"
  /\ mask = {} /\ maskLanes = SPLAT(0)
  /\ accType = "i32" /\ acc = SPLAT({}) /\ accLanes = SPLAT({})

-----------------------------------------------------------------------------
NewMask(register, lanes) ==
  /\ unit = "on"
  /\ mask' = register
  /\ maskLanes' = lanes
  /\ UNCHANGED <<unit, acc, accType, accLanes>>

NewResult(type, register, lanes) ==
  /\ unit = "on"
  /\ accType' = type
  /\ acc' = register
  /\ accLanes' = lanes
  /\ UNCHANGED <<unit, mask, maskLanes>>

(* LowerBUILD_VECTOR of constants: "Lane is undef, treat as 0". *)
ConstantBits(operands) ==
  LET Or[LaneIndex \in 0..NumLanes] ==
        IF LaneIndex = 0 THEN {}
        ELSE LET Operand == operands[LaneIndex - 1]
             IN  IF Operand = Undef THEN Or[LaneIndex - 1]
                 ELSE ORS(Or[LaneIndex - 1], SHL(ANDS(Operand, One), LaneIndex - 1))
  IN  Or[NumLanes]

BuildConstant(operands) ==
  NewMask(ConstantBits(operands),
          [l \in VLanes |->
             IF operands[l] = Undef THEN Undef ELSE LowBit(operands[l])])

(* Of variables: "do insertions manually", from the last lane down. *)
InsertedBits(operands) ==
  LET Bitmask[i \in 0..NumLanes] ==
        IF i = NumLanes THEN {}
        ELSE ORS(SHL(Bitmask[i + 1], 1), ANDS(operands[i], One))
  IN  Bitmask[0]

BuildVariable(operands) ==
  NewMask(InsertedBits(operands), [l \in VLanes |-> LowBit(operands[l])])

(* Mutant: the element is shifted in with its high bits. *)
WithElementUncut(elem, LaneIndex) ==
  LET LaneMask == SHL(One, LaneIndex)
  IN  ORS(SHL(elem, LaneIndex), ANDS(mask, Bits \ LaneMask))

(* LowerINSERT_VECTOR_ELT: (VECTOR & !LaneMask) | (VAL << IDX) *)
WithElement(elem, LaneIndex) ==
  LET LaneMask == SHL(One, LaneIndex)
  IN  ORS(SHL(ANDS(elem, One), LaneIndex), ANDS(mask, Bits \ LaneMask))

InsertElement(elem, LaneIndex) ==
  NewMask(WithElement(elem, LaneIndex),
          [maskLanes EXCEPT ![LaneIndex] = LowBit(elem)])

(* ... of an element that was extracted before. *)
InsertExtracted(LaneIndex) ==
  /\ accType = "i32"
  /\ NewMask(WithElement(acc[0], LaneIndex),
             [maskLanes EXCEPT ![LaneIndex] =
                IF accLanes[0] = Undef THEN Undef ELSE LowBit(accLanes[0])])

(* Mutant: the bits of the higher lanes stay. *)
ElementUncut(LaneIndex) == SRL(mask, LaneIndex)

(* LowerEXTRACT_VECTOR_ELT: the result is an i32, 0 or 1. *)
Element(LaneIndex) == ANDS(SRL(mask, LaneIndex), One)

ExtractElement(LaneIndex) ==
  NewResult("i32", SPLAT(Element(LaneIndex)),
            SPLAT(CASE maskLanes[LaneIndex] = Undef -> Undef
                    [] maskLanes[LaneIndex] = 0 -> Zero
                    [] maskLanes[LaneIndex] = 1 -> One))

(* LowerSCALAR_TO_VECTOR: "the other bits don't matter because the         *)
(* corresponding lanes are undef".                                         *)
ScalarToVector(scalar) ==
  NewMask(scalar, [l \in VLanes |-> IF l = 0 THEN LowBit(scalar) ELSE Undef])

(* The same nodes of v16i32: a splat, and a move under the mask of a lane. *)
ScalarToVector32(scalar) ==
  NewResult("v16i32", SPLAT(scalar),
            [l \in VLanes |-> IF l = 0 THEN scalar ELSE Undef])

InsertElement32(elem, LaneIndex) ==
  /\ accType = "v16i32"
  /\ NewResult("v16i32", VSELECT(SHL(One, LaneIndex), SPLAT(elem), acc),
               [accLanes EXCEPT ![LaneIndex] = elem])

(* and, or, xor of v16i1: the scalar instructions, on the whole register. *)
BitOperation(opcode, other) ==
  NewMask(ALU(opcode, mask, other),
          [l \in VLanes |->
             IF maskLanes[l] = Undef THEN Undef
             ELSE LowBit(ALU(opcode, IF maskLanes[l] = 1 THEN One ELSE Zero,
                                     IF l \in other THEN One ELSE Zero))])

(* A store and a load of v16i1: SS stores 16 bits, LSU extends with zeros. *)
StoreAndLoad == NewMask(ANDS(mask, VLanes), maskLanes)

(* LowerSIGN_EXTEND, LowerZERO_EXTEND, LowerUINT_TO_FP, LowerSINT_TO_FP: a *)
(* move under the mask.                                                    *)
Widen(type, TrueVal, FalseVal) ==
  NewResult(type, VSELECT(mask, SPLAT(TrueVal), SPLAT(FalseVal)),
            [l \in VLanes |-> CASE maskLanes[l] = Undef -> Undef
                                [] maskLanes[l] = 0 -> FalseVal
                                [] maskLanes[l] = 1 -> TrueVal])

SignExtend == Widen("v16i32", MinusOne, Zero)
ZeroExtend == Widen("v16i32", One, Zero)
UIntToFP == Widen("v16f32", 1, 0)
SIntToFP == Widen("v16f32", -1, 0)

(* LowerTRUNCATE: and with 1, compare with 1. *)
Truncated == SETEQ([l \in VLanes |-> ANDS(acc[l], One)], SPLAT(One))

TruncateVector ==
  /\ accType = "v16i32"
  /\ NewMask(Truncated,
             [l \in VLanes |->
                IF accLanes[l] = Undef THEN Undef ELSE LowBit(accLanes[l])])

(* LowerFP_TO_XINT: compare with 0.0; one lowering for both signs. *)
FPToXInt ==
  /\ accType = "v16f32"
  /\ NewMask(SETNE(acc, SPLAT(0)),
             [l \in VLanes |-> CASE accLanes[l] = Undef -> Undef
                                 [] accLanes[l] = 0 -> 0
                                 [] accLanes[l] \in {-1, 1} -> 1])

MaskNext ==
  \/ \E operands \in [VLanes -> Scalars \cup {Undef}] : BuildConstant(operands)
  \/ \E operands \in [VLanes -> Scalars] : BuildVariable(operands)
  \/ \E elem \in Scalars, LaneIndex \in VLanes : InsertElement(elem, LaneIndex)
  \/ \E LaneIndex \in VLanes : InsertExtracted(LaneIndex)
  \/ \E LaneIndex \in VLanes : ExtractElement(LaneIndex)
  \/ \E scalar \in Scalars : ScalarToVector(scalar)
  \/ \E opcode \in {"AND", "OR", "XOR"}, other \in Word : BitOperation(opcode, other)
  \/ \E scalar \in Scalars : ScalarToVector32(scalar)
  \/ \E elem \in Scalars, LaneIndex \in VLanes : InsertElement32(elem, LaneIndex)
  \/ StoreAndLoad
  \/ SignExtend \/ ZeroExtend \/ UIntToFP \/ SIntToFP
  \/ TruncateVector \/ FPToXInt

-----------------------------------------------------------------------------
(* After any sequence of operations each bit of the register is its lane,  *)
(* whatever the bits above the lanes and the undefined lanes hold.         *)
MaskLanesMatch ==
  \A l \in VLanes : maskLanes[l] = Undef \/ (maskLanes[l] = 1 <=> l \in mask)

(* Likewise each result computed from a mask: an extracted element is 0 or *)
(* 1 in all its 32 bits, an extended lane 0, 1 or -1.                      *)
ResultsMatch == \A l \in VLanes : accLanes[l] = Undef \/ acc[l] = accLanes[l]
=============================================================================
