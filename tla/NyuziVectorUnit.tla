-------------------------- MODULE NyuziVectorUnit --------------------------
(***************************************************************************)
(* The vector instructions that LowerOperation's vector cases select.  A   *)
(* mask is the set of the one bits of a scalar register, bit l for lane l; *)
(* the register has more bits than there are lanes.                        *)
(***************************************************************************)
EXTENDS Integers

CONSTANTS
  NumLanes, \* 16
  Undef     \* an element or an index that the IR leaves open

ASSUME NumLanesAssumption == NumLanes \in Nat \ {0}

VLanes == 0..NumLanes - 1

SPLAT(x) == [l \in VLanes |-> x]
(* Move under a mask: the lanes whose bit is set take x, the others y. *)
VSELECT(mask, x, y) == [l \in VLanes |-> IF l \in mask THEN x[l] ELSE y[l]]
SHUFFLE(x, indices) == [l \in VLanes |-> x[indices[l]]]
(* A vector comparison writes the bits of the lanes and clears the others. *)
SETEQ(x, y) == {l \in VLanes : x[l] = y[l]}
SETNE(x, y) == {l \in VLanes : x[l] # y[l]}
=============================================================================
