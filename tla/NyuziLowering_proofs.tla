------------------------ MODULE NyuziLowering_proofs ------------------------
(***************************************************************************)
(* What LowerOperation's cases emit is right for every number of lanes,    *)
(* every width of the scalar registers, every operand and every vector of  *)
(* indices.  Comparison, shuffle and mask operations each have their       *)
(* invariant; a node leaves the state of the other two alone.              *)
(***************************************************************************)
EXTENDS NyuziLowering, TLAPS, WellFoundedInduction

-----------------------------------------------------------------------------
(* Comparison and select.  The invariant says what the mask register holds *)
(* at each point: between comparison and xor the negation of the           *)
(* condition, from the branch on the condition itself, and for a scalar    *)
(* all bits alike.                                                         *)
CompareTypes ==
  /\ CC \in CondCodes
  /\ Op0 \in [Lanes -> Floats]
  /\ Op1 \in [Lanes -> Floats]
  /\ isVector \in BOOLEAN
  /\ pc \in {"cmp", "xor", "bnz", "copy0", "sink", "done"}
  /\ Pred \subseteq Lanes
  /\ ~isVector => \A l, m \in Lanes : Op0[l] = Op0[m] /\ Op1[l] = Op1[m]
  /\ CC \in {"SETO", "SETUO"} => \A l \in Lanes : Op1[l] \in {Op0[l], 0}

(* The mask of a scalar has all bits alike. *)
AllBitsAlike == ~isVector => \A l, m \in Lanes : l \in Pred <=> m \in Pred

MaskMeans ==
  /\ pc = "xor" => /\ CC \in Unordered \cup {"SETUO"}
                   /\ \A l \in Lanes : l \in Pred <=> ~Means(CC, Op0[l], Op1[l])
  /\ pc \in {"bnz", "copy0", "sink", "done"} =>
       \A l \in Lanes : Unspecified(l) \/ (l \in Pred <=> Means(CC, Op0[l], Op1[l]))

Branched ==
  /\ pc = "copy0" => Pred = {}
  /\ pc = "sink" => Pred # {}
  /\ pc = "done" /\ ~isVector =>
       Result = IF Pred # {} THEN "TrueValue" ELSE "FalseValue"

CompareInv == CompareTypes /\ AllBitsAlike /\ MaskMeans /\ Branched

-----------------------------------------------------------------------------
(* The hardware's comparison for an ordered or don't-care condition is the *)
(* condition, unless a don't-care one meets NaN.                           *)
LEMMA OrderedLemma ==
  ASSUME NEW cc \in DontCare \cup Ordered, NEW x \in Floats, NEW y \in Floats,
         cc \in Ordered \/ IsOrdered(x, y)
  PROVE  FCmp(Compare(cc), x, y) <=> Means(cc, x, y)
<1>1. cc \notin Unordered \cup {"SETUO"}
  BY DEF DontCare, Ordered, Unordered
<1>2. CASE ~IsOrdered(x, y)
  BY <1>1, <1>2 DEF IsOrdered, FCmp, Means
<1>3. CASE IsOrdered(x, y)
  <2> x \in Int /\ y \in Int
    BY <1>3, NumbersAssumption DEF IsOrdered, Floats
  <2>1. CASE cc \in {"SETGT", "SETOGT"}
    BY <1>3, <2>1 DEF IsOrdered, FCmp, Compare, Means, Relation
  <2>2. CASE cc \in {"SETGE", "SETOGE"}
    BY <1>3, <2>2 DEF IsOrdered, FCmp, Compare, Means, Relation
  <2>3. CASE cc \in {"SETLT", "SETOLT"}
    BY <1>3, <2>3 DEF IsOrdered, FCmp, Compare, Means, Relation
  <2>4. CASE cc \in {"SETLE", "SETOLE"}
    BY <1>3, <2>4 DEF IsOrdered, FCmp, Compare, Means, Relation
  <2>5. CASE cc \in {"SETEQ", "SETOEQ"}
    BY <1>3, <2>5 DEF IsOrdered, FCmp, Compare, Means, Relation
  <2>6. CASE cc \in {"SETNE", "SETONE"}
    BY <1>3, <2>6 DEF IsOrdered, FCmp, Compare, Means, Relation
  <2> QED
    BY <2>1, <2>2, <2>3, <2>4, <2>5, <2>6 DEF DontCare, Ordered
<1> QED
  BY <1>2, <1>3

(* An unordered condition is the negation of its complement's comparison,  *)
(* with NaN too.                                                           *)
LEMMA ComplementLemma ==
  ASSUME NEW cc \in Unordered, NEW x \in Floats, NEW y \in Floats
  PROVE  FCmp(ComplementCompare(cc), x, y) <=> ~Means(cc, x, y)
<1>1. CASE ~IsOrdered(x, y)
  BY <1>1 DEF IsOrdered, FCmp, Means
<1>2. CASE IsOrdered(x, y)
  <2> x \in Int /\ y \in Int
    BY <1>2, NumbersAssumption DEF IsOrdered, Floats
  <2>1. CASE cc = "SETUGT"
    BY <1>2, <2>1 DEF IsOrdered, FCmp, ComplementCompare, Means, Relation
  <2>2. CASE cc = "SETUGE"
    BY <1>2, <2>2 DEF IsOrdered, FCmp, ComplementCompare, Means, Relation
  <2>3. CASE cc = "SETULT"
    BY <1>2, <2>3 DEF IsOrdered, FCmp, ComplementCompare, Means, Relation
  <2>4. CASE cc = "SETULE"
    BY <1>2, <2>4 DEF IsOrdered, FCmp, ComplementCompare, Means, Relation
  <2>5. CASE cc = "SETUEQ"
    BY <1>2, <2>5 DEF IsOrdered, FCmp, ComplementCompare, Means, Relation
  <2>6. CASE cc = "SETUNE"
    BY <1>2, <2>6 DEF IsOrdered, FCmp, ComplementCompare, Means, Relation
  <2> QED
    BY <2>1, <2>2, <2>3, <2>4, <2>5, <2>6 DEF Unordered
<1> QED
  BY <1>1, <1>2

(* Comparing a value with itself tells whether it is ordered with itself   *)
(* or with a number.                                                       *)
LEMMA SelfLemma ==
  ASSUME NEW x \in Floats, NEW y \in {x, 0}
  PROVE  /\ FCmp("FEQ", x, x) <=> Means("SETO", x, y)
         /\ FCmp("FEQ", x, x) <=> ~Means("SETUO", x, y)
<1>1. 0 # NaN
  BY NumbersAssumption, NaNAssumption
<1>2. IsOrdered(x, y) <=> x # NaN
  BY <1>1 DEF IsOrdered
<1>3. FCmp("FEQ", x, x) <=> x # NaN
  BY DEF FCmp
<1>4. Means("SETO", x, y) <=> x # NaN
  BY <1>2 DEF Means, Relation, Unordered
<1>5. Means("SETUO", x, y) <=> x = NaN
  BY <1>2 DEF Means, Relation, Unordered
<1> QED
  BY <1>3, <1>4, <1>5

-----------------------------------------------------------------------------
LEMMA CompareInitInv == ~BothMayBeNaN /\ Init => CompareInv
BY DEF Init, CompareInv, CompareTypes, AllBitsAlike, MaskMeans, Branched

LEMMA CompareStepInv == CompareInv /\ [Next]_vars => CompareInv'
<1> SUFFICES ASSUME CompareInv, [Next]_vars PROVE CompareInv'
  OBVIOUS
<1> USE DEF CompareInv
<1>1. CASE CompareOrdered
  <2>1. CompareTypes'
    BY <1>1 DEF CompareOrdered, CompareTypes
  <2>2. AllBitsAlike'
    BY <1>1 DEF CompareOrdered, CompareTypes, AllBitsAlike
  <2>3. ASSUME NEW l \in Lanes, ~Unspecified(l)'
        PROVE  (l \in Pred <=> Means(CC, Op0[l], Op1[l]))'
    <3>1. CC \in Ordered \/ IsOrdered(Op0[l], Op1[l])
      BY <1>1, <2>3 DEF CompareOrdered, Unspecified
    <3>2. FCmp(Compare(CC), Op0[l], Op1[l]) <=> Means(CC, Op0[l], Op1[l])
      BY <1>1, <3>1, OrderedLemma DEF CompareOrdered, CompareTypes
    <3> QED
      BY <1>1, <3>2 DEF CompareOrdered
  <2>4. MaskMeans'
    BY <1>1, <2>3 DEF CompareOrdered, MaskMeans
  <2>5. Branched'
    BY <1>1 DEF CompareOrdered, Branched
  <2> QED
    BY <2>1, <2>2, <2>4, <2>5
<1>2. CASE CompareSelf
  <2>1. CompareTypes'
    BY <1>2 DEF CompareSelf, CompareTypes
  <2>2. AllBitsAlike'
    BY <1>2 DEF CompareSelf, CompareTypes, AllBitsAlike
  <2>3. ASSUME NEW l \in Lanes
        PROVE  /\ CC = "SETO" => (l \in Pred <=> Means(CC, Op0[l], Op1[l]))'
               /\ CC = "SETUO" => (l \in Pred <=> ~Means(CC, Op0[l], Op1[l]))'
    <3>1. Op0[l] \in Floats /\ Op1[l] \in {Op0[l], 0}
      BY <1>2 DEF CompareSelf, CompareTypes
    <3>2. /\ FCmp("FEQ", Op0[l], Op0[l]) <=> Means("SETO", Op0[l], Op1[l])
          /\ FCmp("FEQ", Op0[l], Op0[l]) <=> ~Means("SETUO", Op0[l], Op1[l])
      BY <3>1, SelfLemma
    <3> QED
      BY <1>2, <3>2 DEF CompareSelf
  <2>4. MaskMeans'
    BY <1>2, <2>3 DEF CompareSelf, MaskMeans, CompareTypes
  <2>5. Branched'
    BY <1>2 DEF CompareSelf, Branched
  <2> QED
    BY <2>1, <2>2, <2>4, <2>5
<1>3. CASE CompareComplement
  <2>1. CompareTypes'
    BY <1>3 DEF CompareComplement, CompareTypes
  <2>2. AllBitsAlike'
    BY <1>3 DEF CompareComplement, CompareTypes, AllBitsAlike
  <2>3. ASSUME NEW l \in Lanes
        PROVE  (l \in Pred <=> ~Means(CC, Op0[l], Op1[l]))'
    <3>1. FCmp(ComplementCompare(CC), Op0[l], Op1[l])
            <=> ~Means(CC, Op0[l], Op1[l])
      BY <1>3, ComplementLemma DEF CompareComplement, CompareTypes
    <3> QED
      BY <1>3, <3>1 DEF CompareComplement
  <2>4. MaskMeans'
    BY <1>3, <2>3 DEF CompareComplement, MaskMeans
  <2>5. Branched'
    BY <1>3 DEF CompareComplement, Branched
  <2> QED
    BY <2>1, <2>2, <2>4, <2>5
<1>4. CASE Negate
  <2>1. CompareTypes' /\ AllBitsAlike' /\ Branched'
    BY <1>4 DEF Negate, CompareTypes, AllBitsAlike, Branched
  <2>2. ASSUME NEW l \in Lanes
        PROVE  (l \in Pred <=> Means(CC, Op0[l], Op1[l]))'
    BY <1>4 DEF Negate, MaskMeans
  <2>3. MaskMeans'
    BY <1>4, <2>2 DEF Negate, MaskMeans
  <2> QED
    BY <2>1, <2>3
<1>5. CASE BranchNotZero
  BY <1>5 DEF BranchNotZero, CompareTypes, AllBitsAlike, MaskMeans, Branched, Unspecified
<1>6. CASE VectorMask
  BY <1>6 DEF VectorMask, CompareTypes, AllBitsAlike, MaskMeans, Branched, Unspecified
<1>7. CASE Phi
  BY <1>7 DEF Phi, CompareTypes, AllBitsAlike, MaskMeans, Branched, Unspecified
<1>8. CASE UNCHANGED vars
  BY <1>8 DEF vars, CompareTypes, AllBitsAlike, MaskMeans, Branched, Unspecified
<1> QED
  BY <1>1, <1>2, <1>3, <1>4, <1>5, <1>6, <1>7, <1>8 DEF Next

-----------------------------------------------------------------------------
(* Shuffles. *)

(* DestLaneIndex of any lane. *)
Dest(l) == IF MaskElt[l] < 0 THEN 0 ELSE MaskElt[l]

ShuffleTypes ==
  /\ stage \in {"extend", "analyze", "emit", "truncate", "done"}
  /\ isMask \in BOOLEAN
  /\ MaskElt \in [VLanes -> -1..2 * NumLanes - 1]
  /\ SourceLane \in 0..NumLanes
  /\ IsIdentityShuffle \in BOOLEAN /\ IsSplat \in BOOLEAN
  /\ ShuffleIndexValues \in [VLanes -> VLanes]
  /\ stage = "extend" => SourceLane = 0 /\ isMask
  /\ stage = "truncate" => isMask
  /\ stage \in {"emit", "truncate", "done"} => SourceLane = NumLanes

(* What the opcode of operand 0 says of its elements. *)
OperandInv ==
  /\ Operands[1].node = Operands[2].node => Operands[1].elts = Operands[2].elts
  /\ Operands[1].opcode = "SCALAR_TO_VECTOR" =>
       \A l \in VLanes :
         Operands[1].elts[l] = IF l = 0 THEN Operands[1].scalar ELSE Undef
  /\ Operands[1].opcode = "INSERT_VECTOR_ELT" =>
       /\ Operands[1].index \in VLanes
       /\ Operands[1].elts[Operands[1].index] = Operands[1].scalar

(* The operands of a mask shuffle are its masks, extended. *)
ExtendInv ==
  /\ isMask => Registers \in MaskPairs
  /\ isMask /\ stage # "extend" =>
       \A j \in {1, 2} : \A l \in VLanes :
         Operands[j].elts[l] = IF l \in Registers[j].bits THEN 1 ELSE 0

(* The lanes analyzed so far; their bits are at the top of the mask. *)
LanesDone == {l \in VLanes : l < SourceLane}
FlagInv ==
  /\ IsIdentityShuffle <=> \A l \in LanesDone : Dest(l) % NumLanes = l
  /\ IsSplat <=> \A l \in LanesDone : Dest(l) = SplatIndex
  /\ SourceLane > 0 => SplatIndex = Dest(0)
  /\ \A l \in LanesDone : ShuffleIndexValues[l] = Dest(l) % NumLanes
MixInv ==
  /\ stage \in {"extend", "analyze"} =>
       \A b \in Int : b \in MixMask <=>
         /\ b \in VLanes
         /\ b + SourceLane >= NumLanes
         /\ Dest(b + SourceLane - NumLanes) >= NumLanes
  /\ stage \notin {"extend", "analyze"} =>
       MixMask = IF Operands[1].node = Operands[2].node THEN {}
                 ELSE {l \in VLanes : Dest(l) >= NumLanes}
  /\ MixMask \subseteq VLanes

ShuffleInv ==
  /\ ShuffleTypes /\ OperandInv /\ ExtendInv /\ FlagInv /\ MixInv
  /\ ShuffleCorrect /\ MaskShuffleCorrect

-----------------------------------------------------------------------------
(* An index into both operands modulo the number of lanes is the lane. *)
LEMMA LowIndex ==
  ASSUME NEW x \in 0..2 * NumLanes - 1
  PROVE  /\ x % NumLanes \in VLanes
         /\ x < NumLanes => x % NumLanes = x
         /\ x >= NumLanes => x % NumLanes = x - NumLanes
<1>1. NumLanes \in Nat /\ NumLanes > 0 BY NumLanesAssumption
<1>2. CASE x < NumLanes BY <1>1, <1>2 DEF VLanes
<1>3. CASE x >= NumLanes BY <1>1, <1>3 DEF VLanes
<1> QED BY <1>1, <1>2, <1>3

LEMMA DestFacts ==
  ASSUME ShuffleTypes, NEW l \in VLanes
  PROVE  /\ Dest(l) \in 0..2 * NumLanes - 1
         /\ Dest(l) % NumLanes \in VLanes
         /\ Dest(l) < NumLanes => Dest(l) % NumLanes = Dest(l)
         /\ Dest(l) >= NumLanes => Dest(l) % NumLanes = Dest(l) - NumLanes
<1>1. Dest(l) \in 0..2 * NumLanes - 1
  BY NumLanesAssumption DEF ShuffleTypes, Dest
<1> QED BY <1>1, LowIndex

LEMMA ZeroLane == 0 \in VLanes /\ NumLanes \in Nat /\ NumLanes > 0
BY NumLanesAssumption DEF VLanes

LEMMA ShuffleInitInv == ShuffleInit => ShuffleInv
<1> SUFFICES ASSUME ShuffleInit PROVE ShuffleInv OBVIOUS
<1> USE ZeroLane
<1>1. ShuffleTypes
  <2>1. isMask \in BOOLEAN /\ IsIdentityShuffle \in BOOLEAN /\ IsSplat \in BOOLEAN
    BY Zenon DEF ShuffleInit, ShuffleStart
  <2>2. ShuffleIndexValues \in [VLanes -> VLanes] BY DEF ShuffleInit, ShuffleStart
  <2>3. /\ stage \in {"extend", "analyze"} /\ SourceLane = 0
        /\ stage = "extend" => isMask
        /\ MaskElt \in [VLanes -> -1..2 * NumLanes - 1]
    BY DEF ShuffleInit, ShuffleStart
  <2> QED BY <2>1, <2>2, <2>3 DEF ShuffleTypes
<1>2. LanesDone = {} BY DEF ShuffleInit, ShuffleStart, LanesDone, VLanes
<1>3. FlagInv BY <1>2 DEF ShuffleInit, ShuffleStart, FlagInv
<1>4. MixInv BY DEF ShuffleInit, ShuffleStart, MixInv, VLanes
<1>5. OperandInv
  <2>1. CASE Operands \in VectorInputs
    BY <2>1, VectorInputsAssumption DEF OperandPairs, OperandInv
  <2>2. CASE Operands = NoOperands
    BY <2>2 DEF NoOperands, NoOperand, OperandInv
  <2> QED BY <2>1, <2>2 DEF ShuffleInit
<1>6. ExtendInv BY MaskInputsAssumption DEF ShuffleInit, ExtendInv
<1>7. ShuffleCorrect /\ MaskShuffleCorrect
  BY DEF ShuffleInit, ShuffleCorrect, MaskShuffleCorrect
<1> QED BY <1>1, <1>3, <1>4, <1>5, <1>6, <1>7 DEF ShuffleInv

-----------------------------------------------------------------------------
(* One lane of the loop. *)
LEMMA AnalyzeStep == ShuffleInv /\ AnalyzeLane => ShuffleInv'
<1> SUFFICES ASSUME ShuffleInv, AnalyzeLane PROVE ShuffleInv' OBVIOUS
<1> USE ZeroLane
<1>t. ShuffleTypes /\ FlagInv /\ MixInv /\ OperandInv /\ ExtendInv BY DEF ShuffleInv
<1>1. /\ stage = "analyze" /\ SourceLane \in VLanes /\ SourceLane' = SourceLane + 1
      /\ UNCHANGED <<stage, isMask, Registers, MaskElt, Operands, Vector>>
  BY <1>t DEF AnalyzeLane, ShuffleTypes, VLanes, shuffleInputs
<1>2. DestLaneIndex = Dest(SourceLane) BY DEF DestLaneIndex, Dest
<1>3. \A l : Dest(l)' = Dest(l) BY <1>1 DEF Dest
<1>4. /\ Dest(SourceLane) \in 0..2 * NumLanes - 1
      /\ Dest(SourceLane) % NumLanes \in VLanes
  BY <1>1, <1>t, DestFacts
<1>5. /\ LanesDone' = LanesDone \cup {SourceLane}
      /\ SourceLane \notin LanesDone /\ LanesDone \subseteq VLanes
  BY <1>1 DEF LanesDone, VLanes
<1>6. ShuffleTypes'
  <2>1. IsIdentityShuffle' \in BOOLEAN /\ IsSplat' \in BOOLEAN BY DEF AnalyzeLane
  <2>2. ShuffleIndexValues' \in [VLanes -> VLanes]
    BY <1>1, <1>2, <1>4, <1>t DEF AnalyzeLane, ShuffleTypes
  <2>3. SourceLane' \in 0..NumLanes BY <1>1 DEF VLanes
  <2> QED BY <1>1, <1>t, <2>1, <2>2, <2>3 DEF ShuffleTypes
<1>7. FlagInv'
  <2>1. /\ IsIdentityShuffle' <=>
             IsIdentityShuffle /\ Dest(SourceLane) % NumLanes = SourceLane
        /\ SplatIndex' = IF SourceLane = 0 THEN Dest(SourceLane) ELSE SplatIndex
        /\ IsSplat' <=> IsSplat /\ (SourceLane # 0 => SplatIndex = Dest(SourceLane))
    BY <1>2 DEF AnalyzeLane
  <2>2. /\ ShuffleIndexValues'[SourceLane] = Dest(SourceLane) % NumLanes
        /\ \A l \in LanesDone : ShuffleIndexValues'[l] = ShuffleIndexValues[l]
    BY <1>1, <1>2, <1>5, <1>t DEF AnalyzeLane, ShuffleTypes
  <2>3. SplatIndex' = Dest(0)
    BY <1>1, <1>t, <2>1 DEF FlagInv, ShuffleTypes, VLanes
  <2>4. IsSplat' <=> \A l \in LanesDone' : Dest(l) = SplatIndex'
    <3>1. CASE SourceLane = 0
      <4>1. LanesDone = {} BY <3>1 DEF LanesDone, VLanes
      <4> QED BY <3>1, <4>1, <1>5, <1>t, <2>1 DEF FlagInv
    <3>2. CASE SourceLane # 0 BY <3>2, <1>5, <1>t, <2>1 DEF FlagInv
    <3> QED BY <3>1, <3>2
  <2>5. IsIdentityShuffle' <=> \A l \in LanesDone' : Dest(l) % NumLanes = l
    BY <1>5, <1>t, <2>1 DEF FlagInv
  <2>6. \A l \in LanesDone' : ShuffleIndexValues'[l] = Dest(l) % NumLanes
    BY <1>5, <1>t, <2>2 DEF FlagInv
  <2> QED BY <1>3, <2>3, <2>4, <2>5, <2>6 DEF FlagInv
<1>8. MixInv'
  <2>1. \A b \in Int : b \in MixMask' <=>
          \/ b >= 0 /\ b + 1 \in MixMask
          \/ b = NumLanes - 1 /\ Dest(SourceLane) >= NumLanes
    <3>1. MixMask' = {b - 1 : b \in MixMask \ {0}}
            \cup (IF Dest(SourceLane) >= NumLanes THEN {NumLanes - 1} ELSE {})
      BY <1>2 DEF AnalyzeLane, NextMixMask
    <3>2. MixMask \subseteq VLanes BY <1>t DEF MixInv
    <3>3. \A b \in Int : b \in {c - 1 : c \in MixMask \ {0}} <=>
            b >= 0 /\ b + 1 \in MixMask
      <4> TAKE b \in Int
      <4>1. ASSUME b >= 0, b + 1 \in MixMask PROVE b \in {c - 1 : c \in MixMask \ {0}}
        <5>1. b + 1 \in MixMask \ {0} /\ b = (b + 1) - 1 BY <4>1
        <5> QED BY <5>1
      <4>2. ASSUME b \in {c - 1 : c \in MixMask \ {0}} PROVE b >= 0 /\ b + 1 \in MixMask
        <5>1. PICK c \in MixMask \ {0} : b = c - 1 BY <4>2
        <5>2. c \in Int /\ c >= 0 /\ c # 0 BY <3>2, <5>1 DEF VLanes
        <5>3. c = b + 1 BY <5>1, <5>2
        <5> QED BY <5>1, <5>2, <5>3
      <4> QED BY <4>1, <4>2
    <3> QED BY <3>1, <3>3
  <2>2. MixMask' \subseteq VLanes
    <3> SUFFICES ASSUME NEW b \in MixMask' PROVE b \in VLanes OBVIOUS
    <3>1. b \in Int
      BY <1>t DEF AnalyzeLane, NextMixMask, MixInv, VLanes
    <3>2. CASE b >= 0 /\ b + 1 \in MixMask BY <3>1, <3>2, <1>t DEF MixInv, VLanes
    <3>3. CASE b = NumLanes - 1 BY <3>3 DEF VLanes
    <3> QED BY <3>1, <3>2, <3>3, <2>1
  <2>3. ASSUME NEW b \in Int
        PROVE  b \in MixMask' <=> /\ b \in VLanes
                                  /\ b + SourceLane' >= NumLanes
                                  /\ Dest(b + SourceLane' - NumLanes) >= NumLanes
    <3>1. CASE b = NumLanes - 1
      <4>1. b \in VLanes /\ b + SourceLane' - NumLanes = SourceLane
            /\ b + SourceLane' >= NumLanes /\ b + 1 \notin VLanes
        BY <1>1, <3>1 DEF VLanes
      <4>2. b + 1 \notin MixMask BY <4>1, <1>t DEF MixInv
      <4> QED BY <3>1, <4>1, <4>2, <2>1
    <3>2. CASE b >= 0 /\ b # NumLanes - 1
      <4>1. b + 1 \in MixMask <=>
              /\ b + 1 \in VLanes
              /\ (b + 1) + SourceLane >= NumLanes
              /\ Dest((b + 1) + SourceLane - NumLanes) >= NumLanes
        BY <1>1, <1>t DEF MixInv
      <4>2. /\ b + 1 \in VLanes <=> b \in VLanes
            /\ (b + 1) + SourceLane = b + SourceLane'
        BY <1>1, <3>2 DEF VLanes
      <4>3. (b + 1) + SourceLane - NumLanes = b + SourceLane' - NumLanes
        BY <1>1, <3>2 DEF VLanes
      <4> QED BY <3>2, <4>1, <4>2, <4>3, <2>1
    <3>3. CASE b < 0 BY <3>3, <2>1 DEF VLanes
    <3> QED BY <3>1, <3>2, <3>3
  <2> QED BY <1>1, <1>3, <2>2, <2>3 DEF MixInv
<1>9. OperandInv' /\ ExtendInv' BY <1>1, <1>t DEF OperandInv, ExtendInv
<1>10. ShuffleCorrect' /\ MaskShuffleCorrect'
  BY <1>1 DEF ShuffleCorrect, MaskShuffleCorrect
<1> QED BY <1>6, <1>7, <1>8, <1>9, <1>10 DEF ShuffleInv

(* The end of the loop: the bits have reached their lanes. *)
LEMMA FinishStep == ShuffleInv /\ FinishAnalysis => ShuffleInv'
<1> SUFFICES ASSUME ShuffleInv, FinishAnalysis PROVE ShuffleInv' OBVIOUS
<1> USE ZeroLane
<1>t. ShuffleTypes /\ FlagInv /\ MixInv /\ OperandInv /\ ExtendInv BY DEF ShuffleInv
<1>1. /\ stage = "analyze" /\ stage' = "emit" /\ SourceLane = NumLanes
      /\ UNCHANGED <<isMask, Registers, MaskElt, Operands, SourceLane,
                     IsIdentityShuffle, IsSplat, SplatIndex, ShuffleIndexValues,
                     Vector>>
  BY DEF FinishAnalysis, shuffleInputs
<1>2. \A l : Dest(l)' = Dest(l) BY <1>1 DEF Dest
<1>3. MixMask = {l \in VLanes : Dest(l) >= NumLanes}
  <2>1. \A b \in VLanes : b \in MixMask <=> Dest(b) >= NumLanes
    <3> TAKE b \in VLanes
    <3>1. b \in Int /\ b + SourceLane >= NumLanes /\ b + SourceLane - NumLanes = b
      BY <1>1 DEF VLanes
    <3> QED BY <3>1, <1>1, <1>t DEF MixInv
  <2> QED BY <2>1, <1>t DEF MixInv
<1>4. MixInv'
  <2>1. MixMask' = IF Operands[1].node = Operands[2].node THEN {} ELSE MixMask
    BY DEF FinishAnalysis
  <2> QED BY <1>1, <1>2, <1>3, <2>1 DEF MixInv
<1>5. ShuffleTypes' BY <1>1, <1>t DEF ShuffleTypes
<1>6. FlagInv' BY <1>1, <1>2, <1>t DEF FlagInv, LanesDone
<1>7. OperandInv' /\ ExtendInv' BY <1>1, <1>t DEF OperandInv, ExtendInv
<1>8. ShuffleCorrect' /\ MaskShuffleCorrect'
  BY <1>1 DEF ShuffleCorrect, MaskShuffleCorrect
<1> QED BY <1>4, <1>5, <1>6, <1>7, <1>8 DEF ShuffleInv

-----------------------------------------------------------------------------
(* Where the analysis says the element of lane l comes from. *)
LEMMA Source ==
  ASSUME ShuffleInv, stage = "emit", NEW l \in VLanes, Selected(l) # Undef
  PROVE  /\ Dest(l) \in 0..2 * NumLanes - 1
         /\ Selected(l) = IF Dest(l) < NumLanes
                          THEN Operands[1].elts[Dest(l) % NumLanes]
                          ELSE Operands[2].elts[Dest(l) % NumLanes]
         /\ Selected(l) = IF l \in MixMask
                          THEN Operands[2].elts[Dest(l) % NumLanes]
                          ELSE Operands[1].elts[Dest(l) % NumLanes]
         /\ ShuffleIndexValues[l] = Dest(l) % NumLanes
         /\ Dest(l) % NumLanes \in VLanes
         /\ IsSplat => Dest(l) = SplatIndex
         /\ IsIdentityShuffle => Dest(l) % NumLanes = l
<1> USE ZeroLane
<1>t. ShuffleTypes /\ FlagInv /\ MixInv /\ OperandInv BY DEF ShuffleInv
<1>1. Dest(l) = MaskElt[l] /\ MaskElt[l] \in Int /\ MaskElt[l] >= 0
  BY <1>t DEF Selected, Dest, ShuffleTypes
<1>2. /\ Dest(l) \in 0..2 * NumLanes - 1
      /\ Dest(l) % NumLanes \in VLanes
      /\ Dest(l) < NumLanes => Dest(l) % NumLanes = Dest(l)
      /\ Dest(l) >= NumLanes => Dest(l) % NumLanes = Dest(l) - NumLanes
  BY <1>t, DestFacts
<1>3. l \in LanesDone BY <1>t DEF ShuffleTypes, LanesDone, VLanes
<1>4. Selected(l) = IF Dest(l) < NumLanes
                    THEN Operands[1].elts[Dest(l) % NumLanes]
                    ELSE Operands[2].elts[Dest(l) % NumLanes]
  BY <1>1, <1>2 DEF Selected
<1>5. CASE Operands[1].node = Operands[2].node
  BY <1>2, <1>3, <1>4, <1>5, <1>t DEF OperandInv, FlagInv
<1>6. CASE Operands[1].node # Operands[2].node
  <2>1. l \in MixMask <=> Dest(l) >= NumLanes BY <1>6, <1>t DEF MixInv
  <2> QED BY <1>2, <1>3, <1>4, <2>1, <1>t DEF FlagInv
<1> QED BY <1>5, <1>6

(* Emitting a vector with the selected elements keeps the invariant. *)
LEMMA EmitStep ==
  ASSUME ShuffleInv, NEW result, Emit(result),
         \A l \in VLanes : Selected(l) = Undef \/ result[l] = Selected(l)
  PROVE  ShuffleInv'
<1>t. ShuffleTypes /\ FlagInv /\ MixInv /\ OperandInv /\ ExtendInv BY DEF ShuffleInv
<1>1. /\ stage = "emit" /\ stage' = IF isMask THEN "truncate" ELSE "done"
      /\ Vector' = result
      /\ UNCHANGED <<isMask, Registers, MaskElt, Operands, SourceLane, MixMask,
                     IsIdentityShuffle, IsSplat, SplatIndex, ShuffleIndexValues>>
  BY DEF Emit, shuffleInputs, analysis
<1>2. \A l : Dest(l)' = Dest(l) /\ Selected(l)' = Selected(l)
  BY <1>1 DEF Dest, Selected
<1>3. ShuffleTypes' BY <1>1, <1>t DEF ShuffleTypes
<1>4. FlagInv' BY <1>1, <1>2, <1>t DEF FlagInv, LanesDone
<1>5. MixInv' BY <1>1, <1>2, <1>t DEF MixInv
<1>6. OperandInv' /\ ExtendInv' BY <1>1, <1>t DEF OperandInv, ExtendInv
<1>7. ShuffleCorrect' BY <1>1, <1>2 DEF ShuffleCorrect
<1>8. MaskShuffleCorrect' BY <1>1 DEF MaskShuffleCorrect
<1> QED BY <1>3, <1>4, <1>5, <1>6, <1>7, <1>8 DEF ShuffleInv

(* Each of the seven sequences puts the selected element in every lane. *)
LEMMA SequencesCorrect ==
  ASSUME ShuffleInv, stage = "emit", NEW l \in VLanes, Selected(l) # Undef
  PROVE  /\ IsScalar => SPLAT(Operands[1].scalar)[l] = Selected(l)
         /\ IsSplat /\ IsInsertSplat => SPLAT(Operands[1].scalar)[l] = Selected(l)
         /\ IsSplat =>
              SPLAT((IF SplatIndex < NumLanes THEN Operands[1] ELSE Operands[2])
                      .elts[SplatIndex % NumLanes])[l] = Selected(l)
         /\ OneSource /\ IsIdentityShuffle => ShuffleSource.elts[l] = Selected(l)
         /\ OneSource =>
              SHUFFLE(ShuffleSource.elts, ShuffleIndexValues)[l] = Selected(l)
         /\ IsIdentityShuffle =>
              VSELECT(MixMask, Operands[2].elts, Operands[1].elts)[l] = Selected(l)
         /\ Mixed[l] = Selected(l)
<1> USE ZeroLane
<1>t. OperandInv BY DEF ShuffleInv
<1>1. /\ Dest(l) \in 0..2 * NumLanes - 1
      /\ Selected(l) = IF Dest(l) < NumLanes
                       THEN Operands[1].elts[Dest(l) % NumLanes]
                       ELSE Operands[2].elts[Dest(l) % NumLanes]
      /\ Selected(l) = IF l \in MixMask
                       THEN Operands[2].elts[Dest(l) % NumLanes]
                       ELSE Operands[1].elts[Dest(l) % NumLanes]
      /\ ShuffleIndexValues[l] = Dest(l) % NumLanes
      /\ Dest(l) % NumLanes \in VLanes
      /\ IsSplat => Dest(l) = SplatIndex
      /\ IsIdentityShuffle => Dest(l) % NumLanes = l
  BY Source
<1>2. ASSUME IsScalar PROVE SPLAT(Operands[1].scalar)[l] = Selected(l)
  BY <1>1, <1>2, <1>t DEF IsScalar, OperandInv, SPLAT
<1>3. ASSUME IsSplat, IsInsertSplat PROVE SPLAT(Operands[1].scalar)[l] = Selected(l)
  <2>1. Dest(l) = Operands[1].index /\ Dest(l) \in VLanes
    BY <1>1, <1>3, <1>t DEF IsInsertSplat, OperandInv
  <2>2. Dest(l) < NumLanes /\ Dest(l) % NumLanes = Dest(l)
    BY <2>1, <1>1, LowIndex DEF VLanes
  <2> QED BY <1>1, <1>3, <2>1, <2>2, <1>t DEF IsInsertSplat, OperandInv, SPLAT
<1>4. ASSUME IsSplat
      PROVE  SPLAT((IF SplatIndex < NumLanes THEN Operands[1] ELSE Operands[2])
                     .elts[SplatIndex % NumLanes])[l] = Selected(l)
  BY <1>1, <1>4 DEF SPLAT
<1>5. ASSUME OneSource
      PROVE  Selected(l) = ShuffleSource.elts[Dest(l) % NumLanes]
  BY <1>1, <1>5 DEF OneSource, ShuffleSource
<1>6. ASSUME OneSource
      PROVE  SHUFFLE(ShuffleSource.elts, ShuffleIndexValues)[l] = Selected(l)
  BY <1>1, <1>5, <1>6 DEF SHUFFLE
<1>7. ASSUME IsIdentityShuffle
      PROVE  VSELECT(MixMask, Operands[2].elts, Operands[1].elts)[l] = Selected(l)
  BY <1>1, <1>7 DEF VSELECT
<1>8. Mixed[l] = Selected(l) BY <1>1 DEF Mixed, VSELECT, SHUFFLE
<1> QED BY <1>1, <1>2, <1>3, <1>4, <1>5, <1>6, <1>7, <1>8

LEMMA ExtendStep == ShuffleInv /\ Extend => ShuffleInv'
<1> SUFFICES ASSUME ShuffleInv, Extend PROVE ShuffleInv' OBVIOUS
<1>t. ShuffleTypes /\ FlagInv /\ MixInv /\ ExtendInv BY DEF ShuffleInv
<1>1. /\ stage = "extend" /\ stage' = "analyze"
      /\ UNCHANGED <<isMask, Registers, MaskElt, SourceLane, MixMask,
                     IsIdentityShuffle, IsSplat, SplatIndex, ShuffleIndexValues,
                     Vector>>
  BY DEF Extend, shuffleInputs, analysis
<1> DEFINE ZExt(m) == [NoOperand EXCEPT !.node = m.node,
                         !.elts = VSELECT(m.bits, SPLAT(1), SPLAT(0))]
<1>2. Operands' = <<ZExt(Registers[1]), ZExt(Registers[2])>> BY DEF Extend
<1>3. \A m : /\ ZExt(m).node = m.node /\ ZExt(m).opcode = "other"
             /\ ZExt(m).elts = VSELECT(m.bits, SPLAT(1), SPLAT(0))
  BY DEF NoOperand
<1> HIDE DEF ZExt
<1>4. Operands'[1] = ZExt(Registers[1]) /\ Operands'[2] = ZExt(Registers[2])
  BY <1>2
<1>5. isMask /\ Registers \in MaskPairs BY <1>1, <1>t DEF ShuffleTypes, ExtendInv
<1>6. OperandInv'
  <2>1. Registers[1].node = Registers[2].node => Registers[1] = Registers[2]
    BY <1>5 DEF MaskPairs
  <2>2. /\ Operands'[1].node = Registers[1].node
        /\ Operands'[2].node = Registers[2].node
        /\ Operands'[1].opcode = "other"
        /\ Operands'[1].elts = VSELECT(Registers[1].bits, SPLAT(1), SPLAT(0))
        /\ Operands'[2].elts = VSELECT(Registers[2].bits, SPLAT(1), SPLAT(0))
    BY <1>3, <1>4
  <2>3. Operands'[1].node = Operands'[2].node => Operands'[1].elts = Operands'[2].elts
    <3> SUFFICES ASSUME Registers[1].node = Registers[2].node
                 PROVE  Operands'[1].elts = Operands'[2].elts
      BY <2>2
    <3>1. Registers[1].bits = Registers[2].bits BY <2>1
    <3> QED BY <2>2, <3>1, Zenon
  <2>4. Operands'[1].opcode = "other" BY <2>2
  <2> QED BY <2>3, <2>4 DEF OperandInv
<1>7. ExtendInv'
  <2>1. \A j \in {1, 2} : \A l \in VLanes :
          Operands'[j].elts[l] = IF l \in Registers[j].bits THEN 1 ELSE 0
    <3> TAKE j \in {1, 2}
    <3> TAKE l \in VLanes
    <3>1. Operands'[j].elts = VSELECT(Registers[j].bits, SPLAT(1), SPLAT(0))
      BY <1>3, <1>4
    <3>2. VSELECT(Registers[j].bits, SPLAT(1), SPLAT(0))[l]
            = IF l \in Registers[j].bits THEN 1 ELSE 0
      BY DEF VSELECT, SPLAT
    <3> QED BY <3>1, <3>2
  <2> QED BY <1>1, <1>5, <2>1 DEF ExtendInv
<1>8. \A l : Dest(l)' = Dest(l) BY <1>1 DEF Dest
<1>9. ShuffleTypes' BY <1>1, <1>t DEF ShuffleTypes
<1>10. FlagInv' BY <1>1, <1>8, <1>t DEF FlagInv, LanesDone
<1>11. MixInv' BY <1>1, <1>8, <1>t DEF MixInv
<1>12. ShuffleCorrect' /\ MaskShuffleCorrect'
  BY <1>1 DEF ShuffleCorrect, MaskShuffleCorrect
<1> QED BY <1>6, <1>7, <1>9, <1>10, <1>11, <1>12 DEF ShuffleInv

LEMMA TruncateStep == ShuffleInv /\ Truncate => ShuffleInv'
<1> SUFFICES ASSUME ShuffleInv, Truncate PROVE ShuffleInv' OBVIOUS
<1> USE ZeroLane
<1>t. /\ ShuffleTypes /\ FlagInv /\ MixInv /\ OperandInv /\ ExtendInv
      /\ ShuffleCorrect
  BY DEF ShuffleInv
<1>1. /\ stage = "truncate" /\ stage' = "done"
      /\ UNCHANGED <<isMask, Registers, MaskElt, Operands, SourceLane, MixMask,
                     IsIdentityShuffle, IsSplat, SplatIndex, ShuffleIndexValues>>
  BY DEF Truncate, shuffleInputs, analysis
<1>2. Vector' = {l \in VLanes : Vector[l] % 2 = 1} BY DEF Truncate, SETEQ, SPLAT
<1>3. \A l : Dest(l)' = Dest(l) BY <1>1 DEF Dest
<1>4. isMask => MaskShuffleCorrect'
  <2> SUFFICES ASSUME isMask, NEW l \in VLanes, MaskElt[l] >= 0
               PROVE  l \in Vector' <=>
                        IF MaskElt[l] < NumLanes THEN MaskElt[l] \in Registers[1].bits
                        ELSE MaskElt[l] - NumLanes \in Registers[2].bits
    BY <1>1, <1>2 DEF MaskShuffleCorrect
  <2>1. MaskElt[l] \in 0..2 * NumLanes - 1 BY <1>t DEF ShuffleTypes
  <2>2. \A j \in {1, 2} : \A k \in VLanes :
          Operands[j].elts[k] = IF k \in Registers[j].bits THEN 1 ELSE 0
    BY <1>1, <1>t DEF ExtendInv
  <2>3. Selected(l) = IF (IF MaskElt[l] < NumLanes THEN MaskElt[l] \in Registers[1].bits
                          ELSE MaskElt[l] - NumLanes \in Registers[2].bits)
                      THEN 1 ELSE 0
    BY <2>1, <2>2 DEF Selected, VLanes
  <2>4. Selected(l) # Undef BY <2>3, ElementsAssumption
  <2>5. Vector[l] = Selected(l) BY <2>4, <1>1, <1>t DEF ShuffleCorrect
  <2> QED BY <1>2, <2>3, <2>5
<1>5. isMask BY <1>1, <1>t DEF ShuffleTypes
<1>6. ShuffleTypes' BY <1>1, <1>t DEF ShuffleTypes
<1>7. FlagInv' BY <1>1, <1>3, <1>t DEF FlagInv, LanesDone
<1>8. MixInv' BY <1>1, <1>3, <1>t DEF MixInv
<1>9. OperandInv' /\ ExtendInv' BY <1>1, <1>t DEF OperandInv, ExtendInv
<1>10. ShuffleCorrect' BY <1>1, <1>5 DEF ShuffleCorrect
<1> QED BY <1>4, <1>5, <1>6, <1>7, <1>8, <1>9, <1>10 DEF ShuffleInv

-----------------------------------------------------------------------------
LEMMA ShuffleStepInv == ShuffleInv /\ [ShuffleNext]_shuffleVars => ShuffleInv'
<1> SUFFICES ASSUME ShuffleInv, [ShuffleNext]_shuffleVars PROVE ShuffleInv' OBVIOUS
<1>1. CASE Extend BY <1>1, ExtendStep
<1>2. CASE AnalyzeLane BY <1>2, AnalyzeStep
<1>3. CASE FinishAnalysis BY <1>3, FinishStep
<1>4. CASE EmitScalarSplat
  <2>1. stage = "emit" /\ IsScalar BY <1>4 DEF EmitScalarSplat, Emit
  <2>2. Emit(SPLAT(Operands[1].scalar)) BY <1>4 DEF EmitScalarSplat
  <2> QED BY <2>1, <2>2, SequencesCorrect, EmitStep
<1>5. CASE EmitInsertSplat
  <2>1. stage = "emit" /\ IsSplat /\ IsInsertSplat BY <1>5 DEF EmitInsertSplat, Emit
  <2>2. Emit(SPLAT(Operands[1].scalar)) BY <1>5 DEF EmitInsertSplat
  <2> QED BY <2>1, <2>2, SequencesCorrect, EmitStep
<1>6. CASE EmitExtractSplat
  <2> DEFINE Source0 == IF SplatIndex < NumLanes THEN Operands[1] ELSE Operands[2]
  <2>1. Emit(SPLAT(Source0.elts[SplatIndex % NumLanes])) /\ IsSplat
    BY <1>6 DEF EmitExtractSplat
  <2>2. stage = "emit" BY <2>1 DEF Emit
  <2> QED BY <2>1, <2>2, SequencesCorrect, EmitStep
<1>7. CASE EmitCopy
  <2>1. /\ stage = "emit" /\ OneSource /\ IsIdentityShuffle
        /\ Emit(ShuffleSource.elts)
    BY <1>7 DEF EmitCopy, Emit
  <2> QED BY <2>1, SequencesCorrect, EmitStep
<1>8. CASE EmitShuffle
  <2>1. Emit(SHUFFLE(ShuffleSource.elts, ShuffleIndexValues)) /\ OneSource
    BY <1>8 DEF EmitShuffle
  <2>2. stage = "emit" BY <2>1 DEF Emit
  <2> QED BY <2>1, <2>2, SequencesCorrect, EmitStep
<1>9. CASE EmitMix
  <2>1. /\ IsIdentityShuffle
        /\ Emit(VSELECT(MixMask, Operands[2].elts, Operands[1].elts))
    BY <1>9 DEF EmitMix
  <2>2. stage = "emit" BY <2>1 DEF Emit
  <2> QED BY <2>1, <2>2, SequencesCorrect, EmitStep
<1>10. CASE EmitShuffleBoth
  <2>1. Emit(Mixed) BY <1>10 DEF EmitShuffleBoth
  <2>2. stage = "emit" BY <2>1 DEF Emit
  <2> QED BY <2>1, <2>2, SequencesCorrect, EmitStep
<1>11. CASE Truncate BY <1>11, TruncateStep
<1>12. CASE UNCHANGED shuffleVars
  <2>1. UNCHANGED <<stage, isMask, Registers, MaskElt, Operands, SourceLane, MixMask,
                    IsIdentityShuffle, IsSplat, SplatIndex, ShuffleIndexValues, Vector>>
    BY <1>12 DEF shuffleVars, shuffleInputs, analysis
  <2>2. \A l : Dest(l)' = Dest(l) /\ Selected(l)' = Selected(l)
    BY <2>1 DEF Dest, Selected
  <2>3. ShuffleTypes' BY <2>1 DEF ShuffleInv, ShuffleTypes
  <2>4. FlagInv' BY <2>1, <2>2 DEF ShuffleInv, FlagInv, LanesDone
  <2>5. MixInv' BY <2>1, <2>2 DEF ShuffleInv, MixInv
  <2>6. OperandInv' /\ ExtendInv' BY <2>1 DEF ShuffleInv, OperandInv, ExtendInv
  <2>7. ShuffleCorrect' BY <2>1, <2>2 DEF ShuffleInv, ShuffleCorrect
  <2>8. MaskShuffleCorrect' BY <2>1 DEF ShuffleInv, MaskShuffleCorrect
  <2> QED BY <2>3, <2>4, <2>5, <2>6, <2>7, <2>8 DEF ShuffleInv
<1> QED
  BY <1>1, <1>2, <1>3, <1>4, <1>5, <1>6, <1>7, <1>8, <1>9, <1>10, <1>11, <1>12
  DEF ShuffleNext

-----------------------------------------------------------------------------
(* Operations on masks. *)
ElementsOf(type) == IF type = "v16f32" THEN FPs ELSE Word
MaskTypes ==
  /\ mask \in Word
  /\ maskLanes \in [VLanes -> {0, 1, Undef}]
  /\ accType \in {"i32", "v16i32", "v16f32"}
  /\ acc \in [VLanes -> ElementsOf(accType)]
  /\ accLanes \in [VLanes -> ElementsOf(accType) \cup {Undef}]
MaskInv == MaskTypes /\ MaskLanesMatch /\ ResultsMatch

(* The lanes have bits of their own in a register. *)
LEMMA LaneBits ==
  /\ NumLanes \in Nat /\ NumLanes > 0 /\ WordBits \in Nat /\ NumLanes < WordBits
  /\ VLanes \subseteq Bits /\ 0 \in VLanes /\ 0 \in Bits
  /\ Zero \in Word /\ One \in Word /\ MinusOne \in Word
BY NumLanesAssumption, WordBitsAssumption, RegisterAssumption
   DEF VLanes, Bits, Word, Zero, One, MinusOne

LEMMA LowBitFacts ==
  ASSUME NEW w
  PROVE  LowBit(w) \in {0, 1} /\ (LowBit(w) = 1 <=> 0 \in w)
BY DEF LowBit

(* Bit n of a register, put there and taken from there. *)
LEMMA ShiftIn ==
  ASSUME NEW e \in Word, NEW n \in VLanes
  PROVE  /\ SHL(ANDS(e, One), n) \in Word
         /\ \A b : b \in SHL(ANDS(e, One), n) <=> b = n /\ 0 \in e
<1>1. n \in Bits /\ n \in Int /\ 0 + n = n
  BY LaneBits DEF VLanes
<1>2. SHL(ANDS(e, One), n) = {b + n : b \in e \cap {0}} \cap Bits
  BY DEF SHL, ANDS, One
<1> QED BY <1>1, <1>2 DEF Word

LEMMA LaneOf ==
  ASSUME NEW n \in VLanes
  PROVE  /\ SHL(One, n) \in Word
         /\ \A b : b \in SHL(One, n) <=> b = n
<1>1. ANDS(One, One) = One /\ 0 \in One
  BY DEF ANDS, One
<1>2. One \in Word
  BY LaneBits
<1> QED BY <1>1, <1>2, ShiftIn

LEMMA ShiftOut ==
  ASSUME NEW w \in Word, NEW n \in VLanes
  PROVE  ANDS(SRL(w, n), One) = IF n \in w THEN One ELSE Zero
<1>1. 0 \in SRL(w, n) <=> n \in w
  <2>1. n \in Int /\ \A b \in w : b \in Int
    BY LaneBits DEF VLanes, Word, Bits
  <2>2. ASSUME n \in w PROVE 0 \in SRL(w, n)
    <3>1. n \in {c \in w : c >= n} /\ n - n = 0
      BY <2>1, <2>2
    <3> QED BY <3>1 DEF SRL
  <2>3. ASSUME 0 \in SRL(w, n) PROVE n \in w
    <3>1. PICK b \in {c \in w : c >= n} : b - n = 0
      BY <2>3 DEF SRL
    <3>2. b = n
      BY <2>1, <3>1
    <3> QED BY <3>1, <3>2
  <2> QED BY <2>2, <2>3
<1> QED BY <1>1 DEF ANDS, One, Zero

-----------------------------------------------------------------------------
(* An operation with a mask as its result, and one with a value. *)
LEMMA NewMaskStep ==
  ASSUME MaskInv, NEW register \in Word, NEW lanes \in [VLanes -> {0, 1, Undef}],
         \A l \in VLanes : lanes[l] = Undef \/ (lanes[l] = 1 <=> l \in register),
         NewMask(register, lanes)
  PROVE  MaskInv'
<1>1. /\ mask' = register /\ maskLanes' = lanes
      /\ accType' = accType /\ acc' = acc /\ accLanes' = accLanes
  BY DEF NewMask
<1>2. MaskTypes'
  BY <1>1 DEF MaskInv, MaskTypes
<1>3. MaskLanesMatch'
  BY <1>1 DEF MaskLanesMatch
<1>4. ResultsMatch'
  BY <1>1 DEF MaskInv, ResultsMatch
<1> QED BY <1>2, <1>3, <1>4 DEF MaskInv

LEMMA NewResultStep ==
  ASSUME MaskInv, NEW type \in {"i32", "v16i32", "v16f32"},
         NEW register \in [VLanes -> ElementsOf(type)],
         NEW lanes \in [VLanes -> ElementsOf(type) \cup {Undef}],
         \A l \in VLanes : lanes[l] = Undef \/ register[l] = lanes[l],
         NewResult(type, register, lanes)
  PROVE  MaskInv'
<1>1. /\ accType' = type /\ acc' = register /\ accLanes' = lanes
      /\ mask' = mask /\ maskLanes' = maskLanes
  BY DEF NewResult
<1>2. MaskTypes'
  BY <1>1 DEF MaskInv, MaskTypes
<1>3. MaskLanesMatch'
  BY <1>1 DEF MaskInv, MaskLanesMatch
<1>4. ResultsMatch'
  BY <1>1 DEF ResultsMatch
<1> QED BY <1>2, <1>3, <1>4 DEF MaskInv

(* LowerINSERT_VECTOR_ELT: the other bits of the register stay. *)
LEMMA WithElementFacts ==
  ASSUME MaskInv, NEW e \in Word, NEW n \in VLanes
  PROVE  /\ WithElement(e, n) \in Word
         /\ \A l \in VLanes : l \in WithElement(e, n) <=> IF l = n THEN 0 \in e ELSE l \in mask
<1>1. mask \in Word
  BY DEF MaskInv, MaskTypes
<1>2. WithElement(e, n) = SHL(ANDS(e, One), n) \cup (mask \cap (Bits \ SHL(One, n)))
  BY DEF WithElement, ORS, ANDS
<1>3. /\ SHL(ANDS(e, One), n) \in Word
      /\ \A b : b \in SHL(ANDS(e, One), n) <=> b = n /\ 0 \in e
  BY ShiftIn
<1>4. \A b : b \in SHL(One, n) <=> b = n
  BY LaneOf
<1>5. WithElement(e, n) \in Word
  BY <1>1, <1>2, <1>3 DEF Word
<1>6. \A l \in VLanes : l \in WithElement(e, n) <=> IF l = n THEN 0 \in e ELSE l \in mask
  BY <1>1, <1>2, <1>3, <1>4, LaneBits
<1> QED BY <1>5, <1>6

LEMMA InsertStep ==
  ASSUME MaskInv, NEW e \in Word, NEW n \in VLanes, NEW bit \in {0, 1, Undef},
         bit = Undef \/ (bit = 1 <=> 0 \in e),
         NewMask(WithElement(e, n), [maskLanes EXCEPT ![n] = bit])
  PROVE  MaskInv'
<1> DEFINE lanes == [maskLanes EXCEPT ![n] = bit]
<1>1. /\ WithElement(e, n) \in Word
      /\ \A l \in VLanes : l \in WithElement(e, n) <=> IF l = n THEN 0 \in e ELSE l \in mask
  BY WithElementFacts
<1>2. maskLanes \in [VLanes -> {0, 1, Undef}] /\ MaskLanesMatch
  BY DEF MaskInv, MaskTypes
<1>3. /\ lanes \in [VLanes -> {0, 1, Undef}]
      /\ \A l \in VLanes : lanes[l] = IF l = n THEN bit ELSE maskLanes[l]
  BY <1>2
<1>4. NewMask(WithElement(e, n), lanes)
  OBVIOUS
<1> HIDE DEF lanes
<1>5. \A l \in VLanes : lanes[l] = Undef \/ (lanes[l] = 1 <=> l \in WithElement(e, n))
  BY <1>1, <1>2, <1>3 DEF MaskLanesMatch
<1> QED BY <1>1, <1>3, <1>4, <1>5, NewMaskStep

-----------------------------------------------------------------------------
(* The loops of LowerBUILD_VECTOR: the least number of rounds after which  *)
(* the bits would differ from the operands.                                *)
LEMMA NatMin ==
  ASSUME NEW T, T \subseteq Nat, T # {}
  PROVE  \E x \in T : \A y \in T : x <= y
<1> DEFINE R == {ss \in Nat \X Nat : ss[1] < ss[2]}
<1>1. IsWellFoundedOn(R, Nat)
  BY NatLessThanWellFounded, Zenon DEF OpToRel
<1>2. \E x \in T : \A y \in T : <<y, x>> \notin R
  <2> HIDE DEF R
  <2> QED BY <1>1, WFMin
<1>3. PICK x \in T : \A y \in T : <<y, x>> \notin R
  BY <1>2
<1>4. ASSUME NEW y \in T PROVE x <= y
  <2>1. y \in Nat /\ x \in Nat /\ <<y, x>> \in Nat \X Nat
    BY <1>3
  <2>2. <<y, x>>[1] = y /\ <<y, x>>[2] = x
    OBVIOUS
  <2>3. ~(y < x)
    BY <1>3, <2>1, <2>2
  <2> QED BY <2>1, <2>3
<1> QED BY <1>3, <1>4

(* After k rounds over constant operands the bits of the first k lanes. *)
LEMMA ConstantLanes ==
  ASSUME NEW operands \in [VLanes -> Word \cup {Undef}]
  PROVE  ConstantBits(operands) = {l \in VLanes : operands[l] # Undef /\ 0 \in operands[l]}
<1> DEFINE F(f, k) == IF k = 0 THEN {}
                      ELSE LET Operand == operands[k - 1]
                           IN  IF Operand = Undef THEN f[k - 1]
                               ELSE ORS(f[k - 1], SHL(ANDS(Operand, One), k - 1))
           Or == CHOOSE f : f = [k \in 0..NumLanes |-> F(f, k)]
           B(k) == {l \in VLanes : l < k /\ operands[l] # Undef /\ 0 \in operands[l]}
           g == [k \in 0..NumLanes |-> B(k)]
<1>1. NumLanes \in Nat /\ VLanes = 0..NumLanes - 1
  BY LaneBits DEF VLanes
<1>2. B(0) = {}
  BY <1>1
<1>3. ASSUME NEW k \in 1..NumLanes, NEW f, f[k - 1] = B(k - 1) PROVE F(f, k) = B(k)
  <2> DEFINE Operand == operands[k - 1]
  <2>1. /\ k # 0 /\ k - 1 \in VLanes
        /\ \A l \in VLanes : l < k <=> l < k - 1 \/ l = k - 1
        /\ ~(k - 1 < k - 1) /\ k - 1 < k
    BY <1>1
  <2>2. CASE Operand = Undef
    <3>1. F(f, k) = B(k - 1)
      BY <1>3, <2>1, <2>2
    <3> QED BY <2>1, <2>2, <3>1
  <2>3. CASE Operand # Undef
    <3>1. F(f, k) = B(k - 1) \cup SHL(ANDS(Operand, One), k - 1)
      BY <1>3, <2>1, <2>3 DEF ORS
    <3>2. \A b : b \in SHL(ANDS(Operand, One), k - 1) <=> b = k - 1 /\ 0 \in Operand
      <4>1. Operand \in Word
        BY <2>1, <2>3
      <4> HIDE DEF Operand
      <4> QED BY <2>1, <4>1, ShiftIn
    <3> HIDE DEF F
    <3> QED BY <2>1, <2>3, <3>1, <3>2
  <2> QED BY <2>2, <2>3
<1>4. \A f : F(f, 0) = {}
  OBVIOUS
<1>5. ConstantBits(operands) = Or[NumLanes]
  BY DEF ConstantBits
<1> HIDE DEF F, B
<1>6. Or = [k \in 0..NumLanes |-> F(Or, k)]
  <2>1. ASSUME NEW k \in 0..NumLanes PROVE g[k] = F(g, k)
    <3>1. CASE k = 0
      BY <1>2, <1>4, <3>1
    <3>2. CASE k # 0
      <4>1. k \in 1..NumLanes /\ k - 1 \in 0..NumLanes
        BY <1>1, <3>2
      <4> QED BY <1>3, <4>1
    <3> QED BY <3>1, <3>2
  <2>2. g = [k \in 0..NumLanes |-> F(g, k)]
    BY <2>1
  <2> HIDE DEF g
  <2> QED BY <2>2
<1> HIDE DEF Or
<1> DEFINE T == {k \in 0..NumLanes : Or[k] # B(k)}
<1>7. T = {}
  <2> SUFFICES ASSUME T # {} PROVE FALSE
    OBVIOUS
  <2>1. T \subseteq Nat
    OBVIOUS
  <2>2. PICK k \in T : \A j \in T : k <= j
    <3> HIDE DEF T
    <3> QED BY <2>1, NatMin
  <2>3. k # 0
    BY <1>2, <1>4, <1>6, <2>2
  <2>4. k \in 1..NumLanes /\ k - 1 \in 0..NumLanes /\ k - 1 \notin T
    BY <1>1, <2>2, <2>3
  <2>5. Or[k] = B(k)
    BY <1>3, <1>6, <2>4
  <2> QED BY <2>2, <2>5
<1>8. Or[NumLanes] = B(NumLanes)
  BY <1>1, <1>7
<1>9. \A l \in VLanes : l < NumLanes
  BY <1>1
<1> QED BY <1>5, <1>8, <1>9 DEF B

(* k rounds over variables, from the last lane down: the bits of the last  *)
(* k lanes, at the bottom of the register.                                 *)
LEMMA InsertedLanes ==
  ASSUME NEW operands \in [VLanes -> Word]
  PROVE  InsertedBits(operands) = {l \in VLanes : 0 \in operands[l]}
<1> DEFINE F(f, i) == IF i = NumLanes THEN {}
                      ELSE ORS(SHL(f[i + 1], 1), ANDS(operands[i], One))
           Bitmask == CHOOSE f : f = [i \in 0..NumLanes |-> F(f, i)]
           B(i) == {l \in VLanes : l + i < NumLanes /\ 0 \in operands[l + i]}
           g == [i \in 0..NumLanes |-> B(i)]
<1>1. NumLanes \in Nat /\ VLanes = 0..NumLanes - 1 /\ VLanes \subseteq Bits
  BY LaneBits DEF VLanes
<1>2. B(NumLanes) = {}
  BY <1>1
<1>3. ASSUME NEW i \in VLanes, NEW f, f[i + 1] = B(i + 1) PROVE F(f, i) = B(i)
  <2>1. F(f, i) = SHL(B(i + 1), 1) \cup (operands[i] \cap {0})
    BY <1>1, <1>3 DEF ORS, ANDS, One
  <2>2. SHL(B(i + 1), 1) = {b + 1 : b \in B(i + 1)} \cap Bits
    BY DEF SHL
  <2>3. ASSUME NEW b \in B(i) PROVE b \in F(f, i)
    <3>1. CASE b = 0
      <4>1. b + i = i
        BY <1>1, <3>1
      <4> QED BY <2>1, <2>3, <3>1, <4>1
    <3>2. CASE b # 0
      <4>1. /\ b - 1 \in VLanes /\ (b - 1) + (i + 1) = b + i /\ b = (b - 1) + 1
            /\ b \in Bits
        BY <1>1, <2>3, <3>2
      <4>2. b - 1 \in B(i + 1)
        BY <2>3, <4>1
      <4>3. b \in SHL(B(i + 1), 1)
        <5> HIDE DEF B
        <5> QED BY <2>2, <4>1, <4>2
      <4> QED BY <2>1, <4>3
    <3> QED BY <3>1, <3>2
  <2>4. ASSUME NEW b \in F(f, i) PROVE b \in B(i)
    <3>1. CASE b \in operands[i] \cap {0}
      <4>1. 0 \in VLanes /\ 0 + i = i /\ i < NumLanes
        BY <1>1
      <4> QED BY <3>1, <4>1
    <3>2. CASE b \in SHL(B(i + 1), 1)
      <4>1. PICK c \in B(i + 1) : b = c + 1
        <5> HIDE DEF B
        <5> QED BY <2>2, <3>2
      <4>2. c \in VLanes /\ c + (i + 1) < NumLanes /\ 0 \in operands[c + (i + 1)]
        OBVIOUS
      <4>3. b \in VLanes /\ b + i = c + (i + 1)
        BY <1>1, <4>1, <4>2
      <4> QED BY <4>2, <4>3
    <3> QED BY <2>1, <2>4, <3>1, <3>2
  <2> HIDE DEF F, B
  <2> QED BY <2>3, <2>4
<1>4. \A f : F(f, NumLanes) = {}
  OBVIOUS
<1>5. InsertedBits(operands) = Bitmask[0]
  BY DEF InsertedBits
<1> HIDE DEF F, B
<1>6. Bitmask = [i \in 0..NumLanes |-> F(Bitmask, i)]
  <2>1. ASSUME NEW i \in 0..NumLanes PROVE g[i] = F(g, i)
    <3>1. CASE i = NumLanes
      BY <1>2, <1>4, <3>1
    <3>2. CASE i # NumLanes
      <4>1. i \in VLanes /\ i + 1 \in 0..NumLanes
        BY <1>1, <3>2
      <4> QED BY <1>3, <4>1
    <3> QED BY <3>1, <3>2
  <2>2. g = [i \in 0..NumLanes |-> F(g, i)]
    BY <2>1
  <2> HIDE DEF g
  <2> QED BY <2>2
<1> HIDE DEF Bitmask
<1> DEFINE T == {k \in 0..NumLanes : Bitmask[NumLanes - k] # B(NumLanes - k)}
<1>7. T = {}
  <2> SUFFICES ASSUME T # {} PROVE FALSE
    OBVIOUS
  <2>1. T \subseteq Nat
    OBVIOUS
  <2>2. PICK k \in T : \A j \in T : k <= j
    <3> HIDE DEF T
    <3> QED BY <2>1, NatMin
  <2>3. k # 0
    <3>1. NumLanes - 0 = NumLanes /\ NumLanes \in 0..NumLanes
      BY <1>1
    <3> QED BY <1>2, <1>4, <1>6, <2>2, <3>1
  <2> DEFINE i == NumLanes - k
  <2>4. /\ i \in VLanes /\ i \in 0..NumLanes /\ i + 1 = NumLanes - (k - 1)
        /\ k - 1 \in 0..NumLanes /\ k - 1 \notin T
    BY <1>1, <2>2, <2>3
  <2>5. Bitmask[i + 1] = B(i + 1)
    BY <2>4
  <2>6. Bitmask[i] = B(i)
    <3> HIDE DEF i
    <3> QED BY <1>3, <1>6, <2>4, <2>5
  <2> QED BY <2>2, <2>6
<1>8. Bitmask[0] = B(0)
  <2>1. NumLanes \in 0..NumLanes /\ NumLanes - NumLanes = 0
    BY <1>1
  <2> QED BY <1>7, <2>1
<1>9. \A l \in VLanes : l + 0 = l /\ l < NumLanes
  BY <1>1
<1> QED BY <1>5, <1>8, <1>9 DEF B

-----------------------------------------------------------------------------
(* LowerBUILD_VECTOR. *)
LEMMA BuildStep ==
  ASSUME MaskInv
  PROVE  /\ \A operands \in [VLanes -> Scalars \cup {Undef}] :
              BuildConstant(operands) => MaskInv'
         /\ \A operands \in [VLanes -> Scalars] : BuildVariable(operands) => MaskInv'
<1>1. ASSUME NEW operands \in [VLanes -> Scalars \cup {Undef}], BuildConstant(operands)
      PROVE  MaskInv'
  <2> DEFINE register == ConstantBits(operands)
             lanes == [l \in VLanes |->
                         IF operands[l] = Undef THEN Undef ELSE LowBit(operands[l])]
  <2>1. operands \in [VLanes -> Word \cup {Undef}]
    BY ScalarsAssumption
  <2>2. register = {l \in VLanes : operands[l] # Undef /\ 0 \in operands[l]}
    BY <2>1, ConstantLanes
  <2>3. register \in Word
    <3> HIDE DEF register
    <3> QED BY <2>2, LaneBits DEF Word
  <2>4. lanes \in [VLanes -> {0, 1, Undef}]
    BY LowBitFacts
  <2>5. \A l \in VLanes : lanes[l] = Undef \/ (lanes[l] = 1 <=> l \in register)
    <3> HIDE DEF register
    <3> QED BY <2>2, LowBitFacts
  <2>6. NewMask(register, lanes)
    BY <1>1 DEF BuildConstant
  <2> HIDE DEF register, lanes
  <2> QED BY <2>3, <2>4, <2>5, <2>6, NewMaskStep
<1>2. ASSUME NEW operands \in [VLanes -> Scalars], BuildVariable(operands)
      PROVE  MaskInv'
  <2> DEFINE register == InsertedBits(operands)
             lanes == [l \in VLanes |-> LowBit(operands[l])]
  <2>1. operands \in [VLanes -> Word]
    BY ScalarsAssumption
  <2>2. register = {l \in VLanes : 0 \in operands[l]}
    BY <2>1, InsertedLanes
  <2>3. register \in Word
    <3> HIDE DEF register
    <3> QED BY <2>2, LaneBits DEF Word
  <2>4. lanes \in [VLanes -> {0, 1, Undef}]
    BY LowBitFacts
  <2>5. \A l \in VLanes : lanes[l] = Undef \/ (lanes[l] = 1 <=> l \in register)
    <3> HIDE DEF register
    <3> QED BY <2>2, LowBitFacts
  <2>6. NewMask(register, lanes)
    BY <1>2 DEF BuildVariable
  <2> HIDE DEF register, lanes
  <2> QED BY <2>3, <2>4, <2>5, <2>6, NewMaskStep
<1> QED BY <1>1, <1>2

(* LowerINSERT_VECTOR_ELT, LowerEXTRACT_VECTOR_ELT. *)
LEMMA ElementStep ==
  ASSUME MaskInv, NEW LaneIndex \in VLanes
  PROVE  /\ \A elem \in Scalars : InsertElement(elem, LaneIndex) => MaskInv'
         /\ InsertExtracted(LaneIndex) => MaskInv'
         /\ ExtractElement(LaneIndex) => MaskInv'
<1>1. ASSUME NEW elem \in Scalars, InsertElement(elem, LaneIndex) PROVE MaskInv'
  <2>1. /\ elem \in Word /\ LowBit(elem) \in {0, 1, Undef} /\ (LowBit(elem) = 1 <=> 0 \in elem)
        /\ NewMask(WithElement(elem, LaneIndex), [maskLanes EXCEPT ![LaneIndex] = LowBit(elem)])
    BY <1>1, ScalarsAssumption, LowBitFacts DEF InsertElement
  <2> QED BY <2>1, InsertStep
<1>2. ASSUME InsertExtracted(LaneIndex) PROVE MaskInv'
  <2> DEFINE bit == IF accLanes[0] = Undef THEN Undef ELSE LowBit(accLanes[0])
  <2>1. NewMask(WithElement(acc[0], LaneIndex), [maskLanes EXCEPT ![LaneIndex] = bit])
    BY <1>2 DEF InsertExtracted
  <2>2. acc[0] \in Word /\ (accLanes[0] = Undef \/ acc[0] = accLanes[0])
    BY <1>2, LaneBits DEF InsertExtracted, MaskInv, MaskTypes, ElementsOf, ResultsMatch
  <2>3. bit \in {0, 1, Undef} /\ (bit = Undef \/ (bit = 1 <=> 0 \in acc[0]))
    BY <2>2, LowBitFacts
  <2> HIDE DEF bit
  <2> QED BY <2>1, <2>2, <2>3, InsertStep
<1>3. ASSUME ExtractElement(LaneIndex) PROVE MaskInv'
  <2> DEFINE lane == CASE maskLanes[LaneIndex] = Undef -> Undef
                       [] maskLanes[LaneIndex] = 0 -> Zero
                       [] maskLanes[LaneIndex] = 1 -> One
             e == Element(LaneIndex)
  <2>1. e = IF LaneIndex \in mask THEN One ELSE Zero
    BY ShiftOut DEF MaskInv, MaskTypes, Element
  <2>2. /\ maskLanes[LaneIndex] \in {0, 1, Undef}
        /\ maskLanes[LaneIndex] = Undef \/ (maskLanes[LaneIndex] = 1 <=> LaneIndex \in mask)
    BY DEF MaskInv, MaskTypes, MaskLanesMatch
  <2>3. Undef # 0 /\ Undef # 1
    BY UndefAssumption DEF FPs
  <2>4. e \in Word /\ lane \in Word \cup {Undef} /\ (lane = Undef \/ e = lane)
    <3> HIDE DEF e
    <3> QED BY <2>1, <2>2, <2>3, LaneBits
  <2>5. NewResult("i32", SPLAT(e), SPLAT(lane))
    BY <1>3 DEF ExtractElement
  <2> HIDE DEF e, lane
  <2>6. /\ SPLAT(e) \in [VLanes -> ElementsOf("i32")]
        /\ SPLAT(lane) \in [VLanes -> ElementsOf("i32") \cup {Undef}]
        /\ \A l \in VLanes : SPLAT(lane)[l] = Undef \/ SPLAT(e)[l] = SPLAT(lane)[l]
    BY <2>4 DEF SPLAT, ElementsOf
  <2> QED BY <2>5, <2>6, NewResultStep
<1> QED BY <1>1, <1>2, <1>3

(* LowerSCALAR_TO_VECTOR, and the nodes of v16i32. *)
LEMMA ScalarStep ==
  ASSUME MaskInv, NEW scalar \in Scalars
  PROVE  /\ ScalarToVector(scalar) => MaskInv'
         /\ ScalarToVector32(scalar) => MaskInv'
         /\ \A LaneIndex \in VLanes : InsertElement32(scalar, LaneIndex) => MaskInv'
<1>1. scalar \in Word
  BY ScalarsAssumption
<1>2. ASSUME ScalarToVector(scalar) PROVE MaskInv'
  <2> DEFINE lanes == [l \in VLanes |-> IF l = 0 THEN LowBit(scalar) ELSE Undef]
  <2>1. /\ lanes \in [VLanes -> {0, 1, Undef}]
        /\ \A l \in VLanes : lanes[l] = Undef \/ (lanes[l] = 1 <=> l \in scalar)
    BY LowBitFacts
  <2>2. NewMask(scalar, lanes)
    BY <1>2 DEF ScalarToVector
  <2> HIDE DEF lanes
  <2> QED BY <1>1, <2>1, <2>2, NewMaskStep
<1>3. ASSUME ScalarToVector32(scalar) PROVE MaskInv'
  <2> DEFINE lanes == [l \in VLanes |-> IF l = 0 THEN scalar ELSE Undef]
  <2>1. /\ SPLAT(scalar) \in [VLanes -> ElementsOf("v16i32")]
        /\ lanes \in [VLanes -> ElementsOf("v16i32") \cup {Undef}]
        /\ \A l \in VLanes : lanes[l] = Undef \/ SPLAT(scalar)[l] = lanes[l]
    BY <1>1 DEF SPLAT, ElementsOf
  <2>2. NewResult("v16i32", SPLAT(scalar), lanes)
    BY <1>3 DEF ScalarToVector32
  <2> HIDE DEF lanes
  <2> QED BY <2>1, <2>2, NewResultStep
<1>4. ASSUME NEW n \in VLanes, InsertElement32(scalar, n) PROVE MaskInv'
  <2> DEFINE register == VSELECT(SHL(One, n), SPLAT(scalar), acc)
             lanes == [accLanes EXCEPT ![n] = scalar]
  <2>1. /\ acc \in [VLanes -> Word] /\ accLanes \in [VLanes -> Word \cup {Undef}]
        /\ ResultsMatch
    BY <1>4 DEF InsertElement32, MaskInv, MaskTypes, ElementsOf
  <2>2. \A l \in VLanes : register[l] = IF l = n THEN scalar ELSE acc[l]
    BY LaneOf DEF VSELECT, SPLAT
  <2>3. \A l \in VLanes : lanes[l] = IF l = n THEN scalar ELSE accLanes[l]
    BY <2>1
  <2>4. register = [l \in VLanes |-> register[l]] /\ lanes \in [VLanes -> Word \cup {Undef}]
    BY <1>1, <2>1 DEF VSELECT
  <2>5. NewResult("v16i32", register, lanes)
    BY <1>4 DEF InsertElement32
  <2> HIDE DEF register, lanes
  <2>6. register \in [VLanes -> Word]
    BY <1>1, <2>1, <2>2, <2>4
  <2>7. \A l \in VLanes : lanes[l] = Undef \/ register[l] = lanes[l]
    BY <2>1, <2>2, <2>3 DEF ResultsMatch
  <2>8. ElementsOf("v16i32") = Word
    BY DEF ElementsOf
  <2> QED BY <2>4, <2>5, <2>6, <2>7, <2>8, NewResultStep
<1> QED BY <1>2, <1>3, <1>4

(* and, or, xor of two masks: on each lane what they are on the register. *)
LEMMA BitStep ==
  ASSUME MaskInv, NEW opcode \in {"AND", "OR", "XOR"}, NEW other \in Word,
         BitOperation(opcode, other)
  PROVE  MaskInv'
<1> DEFINE register == ALU(opcode, mask, other)
           bit(l) == ALU(opcode, IF maskLanes[l] = 1 THEN One ELSE Zero,
                                 IF l \in other THEN One ELSE Zero)
           lanes == [l \in VLanes |-> IF maskLanes[l] = Undef THEN Undef ELSE LowBit(bit(l))]
<1>1. /\ mask \in Word /\ maskLanes \in [VLanes -> {0, 1, Undef}]
      /\ \A l \in VLanes : maskLanes[l] = Undef \/ (maskLanes[l] = 1 <=> l \in mask)
  BY DEF MaskInv, MaskTypes, MaskLanesMatch
<1>2. NewMask(register, lanes)
  BY DEF BitOperation
<1>3. /\ lanes \in [VLanes -> {0, 1, Undef}]
      /\ \A l \in VLanes : maskLanes[l] # Undef => (lanes[l] = 1 <=> 0 \in bit(l))
      /\ \A l \in VLanes : maskLanes[l] = Undef => lanes[l] = Undef
  <2> HIDE DEF bit
  <2> QED BY LowBitFacts
<1> HIDE DEF lanes
<1>4. register \in Word /\ \A l \in VLanes :
        maskLanes[l] # Undef => (0 \in bit(l) <=> l \in register)
  <2>1. CASE opcode = "AND"
    BY <1>1, <2>1 DEF ALU, ANDS, Word, One, Zero
  <2>2. CASE opcode = "OR"
    BY <1>1, <2>2 DEF ALU, ORS, Word, One, Zero
  <2>3. CASE opcode = "XOR"
    BY <1>1, <2>3 DEF ALU, XORS, Word, One, Zero
  <2> QED BY <2>1, <2>2, <2>3
<1> HIDE DEF register, bit
<1>5. \A l \in VLanes : lanes[l] = Undef \/ (lanes[l] = 1 <=> l \in register)
  BY <1>3, <1>4
<1> QED BY <1>2, <1>3, <1>4, <1>5, NewMaskStep

(* A mask in memory has the bits of the lanes only. *)
LEMMA StoreStep ==
  ASSUME MaskInv, StoreAndLoad
  PROVE  MaskInv'
<1>1. /\ mask \in Word /\ maskLanes \in [VLanes -> {0, 1, Undef}]
      /\ \A l \in VLanes : maskLanes[l] = Undef \/ (maskLanes[l] = 1 <=> l \in mask)
  BY DEF MaskInv, MaskTypes, MaskLanesMatch
<1>2. /\ ANDS(mask, VLanes) \in Word
      /\ \A l \in VLanes : l \in ANDS(mask, VLanes) <=> l \in mask
  BY <1>1 DEF ANDS, Word
<1>3. NewMask(ANDS(mask, VLanes), maskLanes)
  BY DEF StoreAndLoad
<1> QED BY <1>1, <1>2, <1>3, NewMaskStep

(* A mask widened: each lane takes one of two values. *)
LEMMA WidenStep ==
  ASSUME MaskInv, NEW type \in {"i32", "v16i32", "v16f32"},
         NEW TrueVal \in ElementsOf(type), NEW FalseVal \in ElementsOf(type),
         Widen(type, TrueVal, FalseVal)
  PROVE  MaskInv'
<1> DEFINE register == VSELECT(mask, SPLAT(TrueVal), SPLAT(FalseVal))
           lane(l) == CASE maskLanes[l] = Undef -> Undef
                        [] maskLanes[l] = 0 -> FalseVal
                        [] maskLanes[l] = 1 -> TrueVal
           lanes == [l \in VLanes |-> lane(l)]
<1>1. /\ maskLanes \in [VLanes -> {0, 1, Undef}]
      /\ \A l \in VLanes : maskLanes[l] = Undef \/ (maskLanes[l] = 1 <=> l \in mask)
  BY DEF MaskInv, MaskTypes, MaskLanesMatch
<1>2. register = [l \in VLanes |-> IF l \in mask THEN TrueVal ELSE FalseVal]
  BY DEF VSELECT, SPLAT
<1>3. NewResult(type, register, lanes)
  BY DEF Widen
<1>4. Undef # 0 /\ Undef # 1
  BY UndefAssumption DEF FPs
<1>5. ASSUME NEW l \in VLanes
      PROVE  /\ lane(l) \in ElementsOf(type) \cup {Undef}
             /\ lane(l) = Undef \/ lane(l) = IF l \in mask THEN TrueVal ELSE FalseVal
  BY <1>1, <1>4
<1> HIDE DEF register, lane
<1>6. /\ register \in [VLanes -> ElementsOf(type)]
      /\ lanes \in [VLanes -> ElementsOf(type) \cup {Undef}]
      /\ \A l \in VLanes : lanes[l] = Undef \/ register[l] = lanes[l]
  BY <1>2, <1>5
<1> HIDE DEF lanes
<1> QED BY <1>3, <1>6, NewResultStep

LEMMA ConvertStep ==
  ASSUME MaskInv, SignExtend \/ ZeroExtend \/ UIntToFP \/ SIntToFP
  PROVE  MaskInv'
<1>1. /\ {MinusOne, Zero, One} \subseteq ElementsOf("v16i32")
      /\ {-1, 0, 1} \subseteq ElementsOf("v16f32")
  BY LaneBits DEF ElementsOf, FPs
<1> QED BY <1>1, WidenStep DEF SignExtend, ZeroExtend, UIntToFP, SIntToFP

(* LowerTRUNCATE: the low bit of each lane. *)
LEMMA TruncateVectorStep ==
  ASSUME MaskInv, TruncateVector
  PROVE  MaskInv'
<1> DEFINE lanes == [l \in VLanes |->
                       IF accLanes[l] = Undef THEN Undef ELSE LowBit(accLanes[l])]
<1>1. /\ acc \in [VLanes -> Word]
      /\ \A l \in VLanes : accLanes[l] = Undef \/ acc[l] = accLanes[l]
  BY DEF TruncateVector, MaskInv, MaskTypes, ElementsOf, ResultsMatch
<1>2. Truncated = {l \in VLanes : acc[l] \cap {0} = {0}}
  BY DEF Truncated, SETEQ, SPLAT, ANDS, One
<1>3. Truncated \in Word /\ \A l \in VLanes : l \in Truncated <=> 0 \in acc[l]
  BY <1>2, LaneBits DEF Word
<1>4. /\ lanes \in [VLanes -> {0, 1, Undef}]
      /\ \A l \in VLanes : lanes[l] = Undef \/ (lanes[l] = 1 <=> 0 \in acc[l])
  BY <1>1, LowBitFacts
<1>5. NewMask(Truncated, lanes)
  BY DEF TruncateVector
<1> HIDE DEF lanes
<1> QED BY <1>3, <1>4, <1>5, NewMaskStep

(* LowerFP_TO_XINT. *)
LEMMA FPToXIntStep ==
  ASSUME MaskInv, FPToXInt
  PROVE  MaskInv'
<1> DEFINE register == SETNE(acc, SPLAT(0))
           lane(l) == CASE accLanes[l] = Undef -> Undef
                        [] accLanes[l] = 0 -> 0
                        [] accLanes[l] \in {-1, 1} -> 1
           lanes == [l \in VLanes |-> lane(l)]
<1>1. /\ acc \in [VLanes -> {-1, 0, 1}] /\ accLanes \in [VLanes -> {-1, 0, 1} \cup {Undef}]
      /\ \A l \in VLanes : accLanes[l] = Undef \/ acc[l] = accLanes[l]
  BY DEF FPToXInt, MaskInv, MaskTypes, ElementsOf, ResultsMatch, FPs
<1>2. register = {l \in VLanes : acc[l] # 0}
  BY DEF SETNE, SPLAT
<1>3. NewMask(register, lanes)
  BY DEF FPToXInt
<1>4. Undef \notin {-1, 0, 1}
  BY UndefAssumption DEF FPs
<1>5. ASSUME NEW l \in VLanes
      PROVE  lane(l) \in {0, 1, Undef} /\ (lane(l) = Undef \/ (lane(l) = 1 <=> acc[l] # 0))
  <2>1. CASE accLanes[l] = Undef
    BY <1>4, <2>1
  <2>2. CASE accLanes[l] = 0
    BY <1>1, <1>4, <2>2
  <2>3. CASE accLanes[l] \in {-1, 1}
    BY <1>1, <1>4, <2>3
  <2> QED BY <1>1, <2>1, <2>2, <2>3
<1> HIDE DEF register, lane
<1>6. /\ register \in Word /\ lanes \in [VLanes -> {0, 1, Undef}]
      /\ \A l \in VLanes : lanes[l] = Undef \/ (lanes[l] = 1 <=> l \in register)
  BY <1>2, <1>5, LaneBits DEF Word
<1> HIDE DEF lanes
<1> QED BY <1>3, <1>6, NewMaskStep

LEMMA MaskStepInv == MaskInv /\ [MaskNext]_maskVars => MaskInv'
<1> SUFFICES ASSUME MaskInv, [MaskNext]_maskVars PROVE MaskInv'
  OBVIOUS
<1>1. CASE UNCHANGED maskVars
  BY <1>1 DEF maskVars, MaskInv, MaskTypes, MaskLanesMatch, ResultsMatch
<1>2. CASE MaskNext
  BY <1>2, BuildStep, ElementStep, ScalarStep, BitStep, StoreStep, ConvertStep,
     TruncateVectorStep, FPToXIntStep DEF MaskNext
<1> QED BY <1>1, <1>2

LEMMA MaskInitInv == MaskInit \/ MaskIdle => MaskInv
<1>1. ASSUME MaskInit PROVE MaskInv
  <2>1. /\ mask \in Word /\ maskLanes = [l \in VLanes |-> IF l \in mask THEN 1 ELSE 0]
        /\ accLanes = acc
    BY <1>1 DEF MaskInit
  <2>2. accType \in {"i32", "v16i32", "v16f32"} /\ acc \in [VLanes -> ElementsOf(accType)]
    BY <1>1, ScalarsAssumption DEF MaskInit, ElementsOf
  <2>3. MaskTypes
    BY <2>1, <2>2 DEF MaskTypes
  <2> QED BY <2>1, <2>3 DEF MaskInv, MaskLanesMatch, ResultsMatch
<1>2. ASSUME MaskIdle PROVE MaskInv
  BY <1>2, LaneBits DEF MaskIdle, MaskInv, MaskTypes, MaskLanesMatch, ResultsMatch,
     ElementsOf, SPLAT, Zero
<1> QED BY <1>1, <1>2

-----------------------------------------------------------------------------
(* One node at a time. *)
LowerVars == <<vars, shuffleVars, maskVars>>

LEMMA CompareLowered ==
  ASSUME ~BothMayBeNaN
  PROVE  LowerSpec => [](pc = "idle" \/ CompareInv)
<1>1. LowerInit => pc = "idle" \/ CompareInv
  BY CompareInitInv DEF LowerInit, CompareIdle
<1>2. (pc = "idle" \/ CompareInv) /\ [LowerOperation]_LowerVars
        => (pc = "idle" \/ CompareInv)'
  <2>1. ASSUME [LowerOperation]_LowerVars PROVE [Next]_vars
    BY <2>1 DEF LowerOperation, LowerVars
  <2>2. ASSUME pc = "idle", [Next]_vars PROVE pc' = "idle"
    BY <2>2 DEF Next, vars, CompareOrdered, CompareSelf, CompareComplement, Negate,
       BranchNotZero, VectorMask, Phi
  <2> QED BY <2>1, <2>2, CompareStepInv
<1> QED BY <1>1, <1>2, PTL DEF LowerSpec, LowerVars

LEMMA ShuffleLowered == LowerSpec => [](stage = "idle" \/ ShuffleInv)
<1>1. LowerInit => stage = "idle" \/ ShuffleInv
  BY ShuffleInitInv DEF LowerInit, ShuffleIdle
<1>2. (stage = "idle" \/ ShuffleInv) /\ [LowerOperation]_LowerVars
        => (stage = "idle" \/ ShuffleInv)'
  <2>1. ASSUME [LowerOperation]_LowerVars PROVE [ShuffleNext]_shuffleVars
    BY <2>1 DEF LowerOperation, LowerVars
  <2>2. ASSUME stage = "idle", [ShuffleNext]_shuffleVars PROVE stage' = "idle"
    BY <2>2 DEF ShuffleNext, shuffleVars, Extend, AnalyzeLane, FinishAnalysis,
       EmitScalarSplat, EmitInsertSplat, EmitExtractSplat, EmitCopy, EmitShuffle,
       EmitMix, EmitShuffleBoth, Emit, Truncate
  <2> QED BY <2>1, <2>2, ShuffleStepInv
<1> QED BY <1>1, <1>2, PTL DEF LowerSpec, LowerVars

LEMMA MaskLowered == LowerSpec => []MaskInv
<1>1. LowerInit => MaskInv
  BY MaskInitInv DEF LowerInit
<1>2. MaskInv /\ [LowerOperation]_LowerVars => MaskInv'
  <2>1. ASSUME [LowerOperation]_LowerVars PROVE [MaskNext]_maskVars
    BY <2>1 DEF LowerOperation, LowerVars
  <2> QED BY <2>1, MaskStepInv
<1> QED BY <1>1, <1>2, PTL DEF LowerSpec, LowerVars

(* The emitted comparison holds on exactly the lanes where its condition   *)
(* does (LowerSETCC), as long as SETO and SETUO test one value against     *)
(* itself or a number.                                                     *)
THEOREM ComparisonTheorem ==
  ASSUME ~BothMayBeNaN
  PROVE  LowerSpec => []ComparisonCorrect
<1>1. pc = "idle" \/ CompareInv => ComparisonCorrect
  BY DEF CompareInv, MaskMeans, ComparisonCorrect
<1> QED BY <1>1, CompareLowered, PTL

(* A scalar select takes the side that its condition picks (EmitSelectCC). *)
THEOREM SelectTheorem ==
  ASSUME ~BothMayBeNaN
  PROVE  LowerSpec => []SelectCorrect
<1>1. pc = "idle" \/ CompareInv => SelectCorrect
  <2> SUFFICES ASSUME CompareInv, pc = "done", ~isVector, NEW l \in Lanes, ~Unspecified(l)
               PROVE  Result = IF Means(CC, Op0[l], Op1[l])
                               THEN "TrueValue" ELSE "FalseValue"
    BY DEF SelectCorrect
  <2>1. l \in Pred <=> Means(CC, Op0[l], Op1[l])
    BY DEF CompareInv, MaskMeans
  <2>2. l \in Pred <=> Pred # {}
    BY DEF CompareInv, CompareTypes, AllBitsAlike
  <2> QED BY <2>1, <2>2 DEF CompareInv, Branched
<1> QED BY <1>1, CompareLowered, PTL

(* Whichever of the seven sequences LowerVECTOR_SHUFFLE picks, every lane  *)
(* that the IR defines holds the element its index selects.                *)
THEOREM ShuffleTheorem == LowerSpec => []ShuffleCorrect
<1>1. stage = "idle" \/ ShuffleInv => ShuffleCorrect
  BY DEF ShuffleInv, ShuffleCorrect
<1> QED BY <1>1, ShuffleLowered, PTL

(* A shuffle of v16i1 masks, widened, shuffled and truncated again, moves  *)
(* the bits of the lanes and no others.                                    *)
THEOREM MaskShuffleTheorem == LowerSpec => []MaskShuffleCorrect
<1>1. stage = "idle" \/ ShuffleInv => MaskShuffleCorrect
  BY DEF ShuffleInv, MaskShuffleCorrect
<1> QED BY <1>1, ShuffleLowered, PTL

(* After any sequence of operations on a v16i1 each bit of its register is *)
(* its lane, for every width of the register beyond the lanes: the bits    *)
(* above them, which MASK_FROM_INT leaves, never come into a lane.         *)
THEOREM MaskLanesTheorem == LowerSpec => []MaskLanesMatch
<1>1. MaskInv => MaskLanesMatch
  BY DEF MaskInv
<1> QED BY <1>1, MaskLowered, PTL

(* Every value computed from a mask, an element, an extension or a         *)
(* conversion, is what the IR says of the lanes that it defines.           *)
THEOREM ResultsTheorem == LowerSpec => []ResultsMatch
<1>1. MaskInv => ResultsMatch
  BY DEF MaskInv
<1> QED BY <1>1, MaskLowered, PTL
=============================================================================
