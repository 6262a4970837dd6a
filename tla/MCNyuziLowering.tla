-------------------------- MODULE MCNyuziLowering --------------------------
(* Instances of NyuziLowering for TLC. *)
EXTENDS NyuziLowering

(* Elements that tell the operands and the lanes apart: 10, 11, ... in     *)
(* operand 0 and 20, 21, ... in operand 1.                                 *)
MCElements == 0..30
Other(n) ==
  [node |-> n, opcode |-> "other", elts |-> [l \in VLanes |-> 10 * (n + 1) + l],
   scalar |-> 0, index |-> 0]
Scalar ==
  [Other(0) EXCEPT !.opcode = "SCALAR_TO_VECTOR", !.scalar = 10,
                   !.elts = [l \in VLanes |-> IF l = 0 THEN 10 ELSE Undef]]
Insert(i) ==
  [Other(0) EXCEPT !.opcode = "INSERT_VECTOR_ELT", !.scalar = 10 + i, !.index = i]

FirstOperands == {Other(0), Scalar} \cup {Insert(i) : i \in VLanes}
MCVectorInputs ==
  {<<x, Other(1)>> : x \in FirstOperands} \cup {<<x, x>> : x \in FirstOperands}

(* Two masks that differ in some lanes and agree in others, and one mask   *)
(* twice, with bits above the lanes.                                       *)
Register(n, bits) == [node |-> n, bits |-> bits]
MCMaskInputs ==
  {<<Register(0, {0, 2, NumLanes}), Register(1, {1, 2})>>,
   <<Register(0, {1, NumLanes}), Register(0, {1, NumLanes})>>}

(* 0, 1, 2 and -1 *)
MCScalars == {Zero, One, {1}, MinusOne}
=============================================================================
