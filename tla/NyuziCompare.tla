---------------------------- MODULE NyuziCompare ----------------------------
(***************************************************************************)
(* Floating point comparison and select: LowerSETCC turns the ordered,     *)
(* the unordered and the don't-care conditions into the six ordered        *)
(* comparisons of the hardware and an inversion, and EmitSelectCC turns a  *)
(* select on the result into a branch.  The emitted instructions run here  *)
(* on every lane of a vector, or on one scalar, whose comparison the       *)
(* hardware replicates to all bits of the mask.                            *)
(***************************************************************************)
EXTENDS Integers

CONSTANTS
  Lanes,       \* 16 in the hardware
  Numbers,     \* the floats that are numbers, as integers
  NaN,
  BothMayBeNaN \* whether SETO and SETUO compare two arbitrary values

ASSUME NumbersAssumption == Numbers \subseteq Int /\ 0 \in Numbers
ASSUME NaNAssumption == NaN \notin Numbers
ASSUME BothMayBeNaNAssumption == BothMayBeNaN \in BOOLEAN

Floats == Numbers \cup {NaN}
DontCare == {"SETGT", "SETGE", "SETLT", "SETLE", "SETEQ", "SETNE"}
Ordered == {"SETOGT", "SETOGE", "SETOLT", "SETOLE", "SETOEQ", "SETONE"}
Unordered == {"SETUGT", "SETUGE", "SETULT", "SETULE", "SETUEQ", "SETUNE"}
CondCodes == DontCare \cup Ordered \cup Unordered \cup {"SETO", "SETUO"}

VARIABLES
  CC,          \* the condition
  Op0, Op1,    \* the operands, by lane
  isVector,
  pc,          \* "cmp", "xor", "bnz", "copy0", "sink" or "done"
  Pred,        \* the mask register: the lanes whose bit is 1
  Result       \* what the select's phi takes, "?" before it

vars == <<CC, Op0, Op1, isVector, pc, Pred, Result>>

(* The hardware's comparisons: false when an operand is NaN. *)
FCmp(opcode, x, y) ==
  /\ x # NaN /\ y # NaN
  /\ CASE opcode = "FGT" -> x > y
       [] opcode = "FGE" -> x >= y
       [] opcode = "FLT" -> x < y
       [] opcode = "FLE" -> x <= y
       [] opcode = "FEQ" -> x = y
       [] opcode = "FNE" -> x # y

(* The node of an ordered or don't-care condition. *)
Compare(cc) ==
  CASE cc \in {"SETGT", "SETOGT"} -> "FGT"
    [] cc \in {"SETGE", "SETOGE"} -> "FGE"
    [] cc \in {"SETLT", "SETOLT"} -> "FLT"
    [] cc \in {"SETLE", "SETOLE"} -> "FLE"
    [] cc \in {"SETEQ", "SETOEQ"} -> "FEQ"
    [] cc \in {"SETNE", "SETONE"} -> "FNE"

(* Mutant: the operands are swapped instead of the condition negated. *)
ComplementSwapped(cc) ==
  CASE cc = "SETUEQ" -> "FNE"
    [] cc = "SETUGT" -> "FLT"
    [] cc = "SETUGE" -> "FLE"
    [] cc = "SETULT" -> "FGT"
    [] cc = "SETULE" -> "FGE"
    [] cc = "SETUNE" -> "FEQ"

ComplementCompare(cc) ==
  CASE cc = "SETUEQ" -> "FNE"
    [] cc = "SETUGT" -> "FLE"
    [] cc = "SETUGE" -> "FLT"
    [] cc = "SETULT" -> "FGE"
    [] cc = "SETULE" -> "FGT"
    [] cc = "SETUNE" -> "FEQ"

(* Two values are ordered if neither is NaN. *)
IsOrdered(x, y) == x # NaN /\ y # NaN

Init ==
  /\ CC \in CondCodes
  /\ Op0 \in [Lanes -> Floats]
  /\ Op1 \in [Lanes -> Floats]
  /\ isVector \in BOOLEAN
  /\ ~isVector => \A l, m \in Lanes : Op0[l] = Op0[m] /\ Op1[l] = Op1[m]
  /\ CC \in {"SETO", "SETUO"} /\ ~BothMayBeNaN =>
       \A l \in Lanes : Op1[l] \in {Op0[l], 0}    \* isnan(x)
  /\ pc = "cmp"
  /\ Pred = {}
  /\ Result = "?"

-----------------------------------------------------------------------------
(* LowerSETCC: the comparison (morphSETCCNode). *)
CompareOrdered ==
  /\ pc = "cmp"
  /\ CC \in DontCare \cup Ordered
  /\ Pred' = {l \in Lanes : FCmp(Compare(CC), Op0[l], Op1[l])}
  /\ pc' = "bnz"
  /\ UNCHANGED <<CC, Op0, Op1, isVector, Result>>

(* SETO and SETUO compare the first operand with itself. *)
CompareSelf ==
  /\ pc = "cmp"
  /\ CC \in {"SETO", "SETUO"}
  /\ Pred' = {l \in Lanes : FCmp("FEQ", Op0[l], Op0[l])}
  /\ pc' = IF CC = "SETO" THEN "bnz" ELSE "xor"
  /\ UNCHANGED <<CC, Op0, Op1, isVector, Result>>

CompareComplement ==
  /\ pc = "cmp"
  /\ CC \in Unordered
  /\ Pred' = {l \in Lanes : FCmp(ComplementCompare(CC), Op0[l], Op1[l])}
  /\ pc' = "xor"
  /\ UNCHANGED <<CC, Op0, Op1, isVector, Result>>

(* Mutant: only the bit of lane 0 of a scalar comparison is inverted. *)
NegateOneBit ==
  /\ pc = "xor"
  /\ LET bits == IF isVector THEN Lanes ELSE {CHOOSE l \in Lanes : TRUE}
     IN  Pred' = (Pred \ bits) \cup (bits \ Pred)
  /\ pc' = "bnz"
  /\ UNCHANGED <<CC, Op0, Op1, isVector, Result>>

(* XOR with 0xffff: "The hardware sets all 16 bits even for scalar         *)
(* comparisons, so negate them all."                                       *)
Negate ==
  /\ pc = "xor"
  /\ Pred' = Lanes \ Pred
  /\ pc' = "bnz"
  /\ UNCHANGED <<CC, Op0, Op1, isVector, Result>>

-----------------------------------------------------------------------------
(* EmitSelectCC: BNZ over Copy0MBB to the phi in SinkMBB.  A vector's mask *)
(* goes to a vector select instead.                                        *)
BranchNotZero ==
  /\ pc = "bnz"
  /\ ~isVector
  /\ pc' = IF Pred # {} THEN "sink" ELSE "copy0"
  /\ UNCHANGED <<CC, Op0, Op1, isVector, Pred, Result>>

VectorMask ==
  /\ pc = "bnz"
  /\ isVector
  /\ pc' = "done"
  /\ UNCHANGED <<CC, Op0, Op1, isVector, Pred, Result>>

(* The phi: operand 2 from ThisMBB, operand 3 from Copy0MBB. *)
Phi ==
  /\ pc \in {"copy0", "sink"}
  /\ Result' = IF pc = "sink" THEN "TrueValue" ELSE "FalseValue"
  /\ pc' = "done"
  /\ UNCHANGED <<CC, Op0, Op1, isVector, Pred>>

Next ==
  \/ CompareOrdered \/ CompareSelf \/ CompareComplement \/ Negate
  \/ BranchNotZero \/ VectorMask \/ Phi

Spec == Init /\ [][Next]_vars

-----------------------------------------------------------------------------
(* What a condition means (LLVM language reference, fcmp). *)
Relation(cc, x, y) ==
  CASE cc \in {"SETGT", "SETOGT", "SETUGT"} -> x > y
    [] cc \in {"SETGE", "SETOGE", "SETUGE"} -> x >= y
    [] cc \in {"SETLT", "SETOLT", "SETULT"} -> x < y
    [] cc \in {"SETLE", "SETOLE", "SETULE"} -> x <= y
    [] cc \in {"SETEQ", "SETOEQ", "SETUEQ"} -> x = y
    [] cc \in {"SETNE", "SETONE", "SETUNE"} -> x # y
    [] cc = "SETO" -> TRUE
    [] cc = "SETUO" -> FALSE

Means(cc, x, y) ==
  IF IsOrdered(x, y) THEN Relation(cc, x, y)
  ELSE cc \in Unordered \cup {"SETUO"}

(* Lanes whose result a don't-care condition leaves open. *)
Unspecified(l) == CC \in DontCare /\ ~IsOrdered(Op0[l], Op1[l])

(* The emitted comparison holds on exactly the lanes where its condition   *)
(* does, with NaN in either operand or in both: "An ordered comparison     *)
(* *operation* is always false if either operand is NaN. Unordered is      *)
(* always true if either operand is NaN."                                  *)
ComparisonCorrect ==
  pc = "done" =>
    \A l \in Lanes :
      Unspecified(l) \/ (l \in Pred <=> Means(CC, Op0[l], Op1[l]))

(* A scalar select takes the value of the side that its condition picks. *)
SelectCorrect ==
  pc = "done" /\ ~isVector =>
    \A l \in Lanes : Unspecified(l) \/
      Result = IF Means(CC, Op0[l], Op1[l]) THEN "TrueValue" ELSE "FalseValue"
=============================================================================
