--------------------------- MODULE NyuziLowering ---------------------------
(***************************************************************************)
(* LowerOperation: a node of the DAG goes to the lowering of its opcode, a *)
(* comparison with the select that it feeds (NyuziCompare), a shuffle      *)
(* (NyuziShuffle), or an operation on a v16i1 mask (NyuziMask).  What a    *)
(* lowering emits depends on its own node alone, so that one node at a     *)
(* time is lowered here and the emitted code run.                          *)
(***************************************************************************)
EXTENDS NyuziCompare, NyuziShuffle, NyuziMask

CompareIdle ==
  /\ pc = "idle"
  /\ CC = "SETEQ" /\ isVector = FALSE
  /\ Op0 = [l \in Lanes |-> 0] /\ Op1 = [l \in Lanes |-> 0]
  /\ Pred = {} /\ Result = "?"

LowerInit ==
  \/ Init /\ ShuffleIdle /\ MaskIdle
  \/ CompareIdle /\ ShuffleInit /\ MaskIdle
  \/ CompareIdle /\ ShuffleIdle /\ MaskInit

LowerOperation ==
  \/ Next /\ UNCHANGED <<shuffleVars, maskVars>>
  \/ ShuffleNext /\ UNCHANGED <<vars, maskVars>>
  \/ MaskNext /\ UNCHANGED <<vars, shuffleVars>>

LowerSpec == LowerInit /\ [][LowerOperation]_<<vars, shuffleVars, maskVars>>
=============================================================================
