---------------------------- MODULE NyuziShuffle ----------------------------
(***************************************************************************)
(* LowerVECTOR_SHUFFLE: one pass over the shuffle indices works out which  *)
(* of the two operands each lane takes, and whether the shuffle is a copy  *)
(* or a splat; then one of seven instruction sequences is emitted.  The    *)
(* sequence runs here on the operands' elements.  A shuffle of v16i1 masks *)
(* goes by way of v16i32.                                                  *)
(***************************************************************************)
EXTENDS NyuziVectorUnit

CONSTANTS
  Elements,     \* the values of a vector's elements, 0 and 1 among them
  VectorInputs, \* pairs of operands, see OperandPairs
  MaskInputs    \* pairs of v16i1 values: a node and its register's one bits

OperandPairs ==
  LET Operand == [node : Nat,           \* its identity in the DAG
                  opcode : {"SCALAR_TO_VECTOR", "INSERT_VECTOR_ELT", "other"},
                  elts : [VLanes -> Elements \cup {Undef}],
                  scalar : Elements,    \* the scalar of the first two
                  index : VLanes] \* the lane it is inserted in
  IN  {p \in Operand \X Operand :
         /\ p[1].node = p[2].node => p[1] = p[2]
         /\ p[1].opcode = "SCALAR_TO_VECTOR" =>
              \A l \in VLanes :
                p[1].elts[l] = IF l = 0 THEN p[1].scalar ELSE Undef
         /\ p[1].opcode = "INSERT_VECTOR_ELT" =>
              p[1].elts[p[1].index] = p[1].scalar}

MaskPairs ==
  LET MaskOperand == [node : Nat, bits : SUBSET Nat]
  IN  {p \in MaskOperand \X MaskOperand : p[1].node = p[2].node => p[1] = p[2]}

ASSUME ElementsAssumption == {0, 1} \subseteq Elements /\ Undef \notin Elements
ASSUME VectorInputsAssumption == VectorInputs \subseteq OperandPairs
ASSUME MaskInputsAssumption == MaskInputs \subseteq MaskPairs

VARIABLES
  stage,             \* "idle", "extend", "analyze", "emit", "truncate", "done"
  isMask,            \* the node is a v16i1
  Registers,         \* the operands of a v16i1 shuffle
  Operands,          \* the operands of the v16i32 (or v16f32) shuffle
  MaskElt,           \* the shuffle's indices, -1 for undef
  SourceLane,
  MixMask,           \* Mask: the set of its one bits
  IsIdentityShuffle, IsSplat,
  SplatIndex,
  ShuffleIndexValues,
  Vector             \* the result: a vector, or the set of bits of a mask

shuffleInputs == <<isMask, Registers, MaskElt>>
analysis == <<SourceLane, MixMask, IsIdentityShuffle, IsSplat, SplatIndex,
              ShuffleIndexValues>>
shuffleVars == <<stage, shuffleInputs, Operands, analysis, Vector>>

NoOperand ==
  [node |-> 0, opcode |-> "other", elts |-> [l \in VLanes |-> Undef], scalar |-> 0,
   index |-> 0]
NoOperands == <<NoOperand, NoOperand>>
NoRegister == [node |-> 0, bits |-> {}]
NoRegisters == <<NoRegister, NoRegister>>

ShuffleStart ==
  /\ SourceLane = 0
  /\ MixMask = {}
  /\ IsIdentityShuffle = TRUE /\ IsSplat = TRUE
  /\ SplatIndex = 0
  /\ ShuffleIndexValues = [l \in VLanes |-> 0]
  /\ Vector = [l \in VLanes |-> Undef]

ShuffleInit ==
  /\ ShuffleStart
  /\ MaskElt \in [VLanes -> -1..2 * NumLanes - 1]
  /\ \/ /\ stage = "analyze" /\ isMask = FALSE
        /\ Operands \in VectorInputs
        /\ Registers = NoRegisters
     \/ /\ stage = "extend" /\ isMask = TRUE
        /\ Registers \in MaskInputs
        /\ Operands = NoOperands

ShuffleIdle ==
  /\ ShuffleStart
  /\ stage = "idle" /\ isMask = FALSE
  /\ MaskElt = [l \in VLanes |-> -1]
  /\ Registers = NoRegisters /\ Operands = NoOperands

-----------------------------------------------------------------------------
(* LowerZERO_EXTEND of both operands: a select between 1 and 0. *)
Extend ==
  /\ stage = "extend"
  /\ LET ZERO_EXTEND(m) ==
           [NoOperand EXCEPT !.node = m.node,
                             !.elts = VSELECT(m.bits, SPLAT(1), SPLAT(0))]
     IN  Operands' = <<ZERO_EXTEND(Registers[1]), ZERO_EXTEND(Registers[2])>>
  /\ stage' = "analyze"
  /\ UNCHANGED <<shuffleInputs, analysis, Vector>>

-----------------------------------------------------------------------------
(* "If this is undef (-1), set to zero." *)
DestLaneIndex == IF MaskElt[SourceLane] < 0 THEN 0 ELSE MaskElt[SourceLane]

(* Mutant: the bit of operand 1 goes in at the bottom. *)
NextMixMaskLow ==
  {b + 1 : b \in MixMask} \cup (IF DestLaneIndex >= NumLanes THEN {0} ELSE {})

(* Mask >>= 1, and the top bit if the lane comes from operand 1. *)
NextMixMask ==
  {b - 1 : b \in MixMask \ {0}}
    \cup (IF DestLaneIndex >= NumLanes THEN {NumLanes - 1} ELSE {})

AnalyzeLane ==
  /\ stage = "analyze"
  /\ SourceLane < NumLanes
  /\ MixMask' = NextMixMask
  /\ IsIdentityShuffle' =
       (IsIdentityShuffle /\ DestLaneIndex % NumLanes = SourceLane)
  /\ SplatIndex' = IF SourceLane = 0 THEN DestLaneIndex ELSE SplatIndex
  /\ IsSplat' = (IsSplat /\ (SourceLane # 0 => SplatIndex = DestLaneIndex))
  /\ ShuffleIndexValues' =
       [ShuffleIndexValues EXCEPT ![SourceLane] = DestLaneIndex % NumLanes]
  /\ SourceLane' = SourceLane + 1
  /\ UNCHANGED <<stage, shuffleInputs, Operands, Vector>>

(* "Check if the operands are equal" *)
FinishAnalysis ==
  /\ stage = "analyze"
  /\ SourceLane = NumLanes
  /\ MixMask' = IF Operands[1].node = Operands[2].node THEN {} ELSE MixMask
  /\ stage' = "emit"
  /\ UNCHANGED <<shuffleInputs, Operands, SourceLane, IsIdentityShuffle, IsSplat,
                 SplatIndex, ShuffleIndexValues, Vector>>

-----------------------------------------------------------------------------
(* The instruction sequences, in the order in which they are tried. *)
IsScalar == Operands[1].opcode = "SCALAR_TO_VECTOR" /\ MixMask = {}
IsInsertSplat ==
  Operands[1].opcode = "INSERT_VECTOR_ELT" /\ SplatIndex = Operands[1].index
OneSource == MixMask \in {{}, VLanes}
ShuffleSource == IF MixMask = {} THEN Operands[1] ELSE Operands[2]

(* Mutant: the operands of the select are the other way round. *)
MixedSwapped ==
  VSELECT(MixMask, SHUFFLE(Operands[1].elts, ShuffleIndexValues),
                   SHUFFLE(Operands[2].elts, ShuffleIndexValues))

(* "Need to shuffle both vectors and mix" *)
Mixed ==
  VSELECT(MixMask, SHUFFLE(Operands[2].elts, ShuffleIndexValues),
                   SHUFFLE(Operands[1].elts, ShuffleIndexValues))

Emit(result) ==
  /\ stage = "emit"
  /\ Vector' = result
  /\ stage' = IF isMask THEN "truncate" ELSE "done"
  /\ UNCHANGED <<shuffleInputs, Operands, analysis>>

EmitScalarSplat == IsScalar /\ Emit(SPLAT(Operands[1].scalar))
EmitInsertSplat ==
  ~IsScalar /\ IsSplat /\ IsInsertSplat /\ Emit(SPLAT(Operands[1].scalar))
(* Extract the element, then broadcast it. *)
EmitExtractSplat ==
  /\ ~IsScalar /\ IsSplat /\ ~IsInsertSplat
  /\ LET SourceVector == IF SplatIndex < NumLanes THEN Operands[1] ELSE Operands[2]
     IN  Emit(SPLAT(SourceVector.elts[SplatIndex % NumLanes]))
EmitCopy ==
  /\ ~IsScalar /\ ~IsSplat /\ OneSource /\ IsIdentityShuffle
  /\ Emit(ShuffleSource.elts)
EmitShuffle ==
  /\ ~IsScalar /\ ~IsSplat /\ OneSource /\ ~IsIdentityShuffle
  /\ Emit(SHUFFLE(ShuffleSource.elts, ShuffleIndexValues))
EmitMix ==
  /\ ~IsScalar /\ ~IsSplat /\ ~OneSource /\ IsIdentityShuffle
  /\ Emit(VSELECT(MixMask, Operands[2].elts, Operands[1].elts))
EmitShuffleBoth ==
  ~IsScalar /\ ~IsSplat /\ ~OneSource /\ ~IsIdentityShuffle /\ Emit(Mixed)

(* LowerTRUNCATE: "compares the low bit of each lane to 1". *)
Truncate ==
  /\ stage = "truncate"
  /\ Vector' = SETEQ([l \in VLanes |-> Vector[l] % 2], SPLAT(1))
  /\ stage' = "done"
  /\ UNCHANGED <<shuffleInputs, Operands, analysis>>

ShuffleNext ==
  \/ Extend \/ AnalyzeLane \/ FinishAnalysis
  \/ EmitScalarSplat \/ EmitInsertSplat \/ EmitExtractSplat
  \/ EmitCopy \/ EmitShuffle \/ EmitMix \/ EmitShuffleBoth \/ Truncate

-----------------------------------------------------------------------------
(* What shufflevector means: lane l of the result is the element that its  *)
(* index names in the two operands side by side.                           *)
Selected(l) ==
  LET i == MaskElt[l]
  IN  IF i < 0 THEN Undef
      ELSE IF i < NumLanes THEN Operands[1].elts[i]
      ELSE Operands[2].elts[i - NumLanes]

(* Every sequence that the analysis picks puts the selected element in     *)
(* each lane that the IR defines, for any mixture of both operands, of     *)
(* undefined indices and of operands built by insertelement or             *)
(* scalar_to_vector.                                                       *)
ShuffleCorrect ==
  stage \in {"truncate", "done"} /\ (isMask => stage = "truncate") =>
    \A l \in VLanes : Selected(l) = Undef \/ Vector[l] = Selected(l)

(* A shuffle of masks moves the bits of the mask registers, whatever their *)
(* bits above the lanes hold.                                              *)
MaskShuffleCorrect ==
  stage = "done" /\ isMask =>
    /\ Vector \subseteq VLanes
    /\ \A l \in VLanes :
         LET i == MaskElt[l]
         IN  i >= 0 =>
               (l \in Vector <=>
                  IF i < NumLanes THEN i \in Registers[1].bits
                  ELSE i - NumLanes \in Registers[2].bits)
=============================================================================
