------------------------- MODULE MCNyuziFrameIndex -------------------------
(* Functions whose frames are around the reach of an immediate, 8191. *)
EXTENDS NyuziFrameIndex

MCCSR == <<"S24", "S25", "S26", "S27", "GP", "FP", "RA",
           "V26", "V27", "V28", "V29", "V30", "V31">>

(* Arrays and spill slots, just below and just above the point where       *)
(* getWorstCaseStackSize passes 8191.                                      *)
ArraySizes == {4, 64, 4480, 4540, 4544, 4608, 8000, 8128, 8188, 8192, 20000}
Locals ==
  {<<>>} \cup {<<[size |-> n, align |-> 4]>> : n \in ArraySizes}
         \cup {<<[size |-> n, align |-> 4], [size |-> 64, align |-> 64]>> : n \in ArraySizes}

Callers ==
  [modified : {{"S24", "RA"}, {"S24", "GP", "RA", "V26", "V31"}},
   disableFPElim : {FALSE}, varSized : BOOLEAN, frameAddressTaken : {FALSE},
   locals : Locals, adjustsStack : {TRUE}, maxCall : {0, 64, 4096}, params : {0, 256}]

(* Functions without a frame pointer, and those with one whose frame is    *)
(* within the reach of an immediate, although not the arguments above it.  *)
InReach == {f \in Callers : ~f.varSized \/ \A k \in DOMAIN f.locals : f.locals[k].size <= 8000}
LargeWithFP == {f \in Callers : f.varSized /\ f.maxCall = 0}

(* What the theorems about the slot assume. *)
ASSUME InReachAssumption ==
  \A f \in InReach : WorstCaseCounts(f) /\ (hasScavengingSlot(f) => SlotInReach(f))

Bases == {0, 8191, 8192, 65536, 1000000}
=============================================================================
