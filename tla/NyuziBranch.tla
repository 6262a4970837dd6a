---------------------------- MODULE NyuziBranch ----------------------------
(***************************************************************************)
(* The branch analysis of NyuziInstrInfo.cpp, as the passes that move and  *)
(* merge blocks use it: analyzeBranch walks up the terminators of a block  *)
(* and describes them as (TBB, FBB, Cond); removeBranch then strips the    *)
(* block and insertBranch rebuilds its terminators from the description.   *)
(***************************************************************************)
EXTENDS Integers, Sequences, SequencesExt

CONSTANTS
  Targets,   \* the basic blocks that are branched to
  Regs,      \* the condition registers
  MaxLen,    \* bound: instructions in the block
  Null       \* nullptr

ASSUME MaxLenAssumption == MaxLen \in Nat
ASSUME NullAssumption == Null \notin Targets

Plain(op) == [op |-> op, reg |-> Null, mbb |-> Null]
Uncond == {[op |-> "B", reg |-> Null, mbb |-> t] : t \in Targets}
CondBr == [op : {"BNZ", "BZ"}, reg : Regs, mbb : Targets]
(* "add" is any instruction that is no terminator, "BALL" any terminator   *)
(* that cannot be analyzed (BALL, BNALL, an indirect branch).              *)
Instrs == {Plain("add"), Plain("DBG_VALUE"), Plain("RET"), Plain("BALL")}
            \cup Uncond \cup CondBr

isUncondBranchOpcode(i) == i.op = "B"
isCondBranchOpcode(i) == i.op \in {"BNZ", "BZ"}
isDebugValue(i) == i.op = "DBG_VALUE"
isTerminator(i) == i.op \notin {"add", "DBG_VALUE"}

(* The blocks of a machine function: nothing but terminators and debug     *)
(* values follows a terminator.                                            *)
WellFormed(b) ==
  \A i, j \in DOMAIN b : i < j /\ isTerminator(b[i]) => b[j].op # "add"
Blocks == {b \in SeqOf(Instrs, MaxLen) : WellFormed(b)}

VARIABLES
  MBB,          \* the instructions of the block
  orig,         \* history: the block before the analysis
  AllowModify,
  I,            \* the iterator of the loop that runs
  TBB, FBB, Cond,
  at            \* "walk", "analyzed", "gaveUp", "remove", "insert" or "done"

vars == <<MBB, orig, AllowModify, I, TBB, FBB, Cond, at>>

Init ==
  /\ MBB \in Blocks
  /\ orig = MBB
  /\ AllowModify \in BOOLEAN
  /\ I = Len(MBB)
  /\ TBB = Null
  /\ FBB = Null
  /\ Cond = <<>>
  /\ at = IF MBB = <<>> THEN "analyzed" ELSE "walk"

-----------------------------------------------------------------------------
(* analyzeBranch: one turn of a loop each. *)
Here == MBB[I]

(* --I, or the early return at the begin of the block. *)
StepUp(next) == IF I = 1 THEN at' = "analyzed" /\ UNCHANGED I
                         ELSE at' = next /\ I' = I - 1

SkipDebugValue ==
  /\ at = "walk"
  /\ isDebugValue(Here)
  /\ StepUp("walk")
  /\ UNCHANGED <<MBB, orig, AllowModify, TBB, FBB, Cond>>

StopAtNonTerminator ==
  /\ at = "walk"
  /\ ~isDebugValue(Here) /\ ~isTerminator(Here)
  /\ at' = "analyzed"
  /\ UNCHANGED <<MBB, orig, AllowModify, I, TBB, FBB, Cond>>

(* Mutants: what was noted of the dead code below is kept. *)
UnconditionalKeepsCond ==
  /\ at = "walk"
  /\ isUncondBranchOpcode(Here)
  /\ TBB' = Here.mbb
  /\ MBB' = IF AllowModify THEN SubSeq(MBB, 1, I) ELSE MBB
  /\ StepUp("walk")
  /\ UNCHANGED <<orig, AllowModify, FBB, Cond>>

UnconditionalKeepsFBB ==
  /\ at = "walk"
  /\ isUncondBranchOpcode(Here)
  /\ TBB' = Here.mbb
  /\ Cond' = <<>>
  /\ MBB' = IF AllowModify THEN SubSeq(MBB, 1, I) ELSE MBB
  /\ StepUp("walk")
  /\ UNCHANGED <<orig, AllowModify, FBB>>

(* What follows an unconditional branch is dead: forget it, and erase it   *)
(* if that is allowed.                                                     *)
Unconditional ==
  /\ at = "walk"
  /\ isUncondBranchOpcode(Here)
  /\ TBB' = Here.mbb
  /\ Cond' = <<>>
  /\ FBB' = Null
  /\ MBB' = IF AllowModify THEN SubSeq(MBB, 1, I) ELSE MBB
  /\ StepUp("walk")
  /\ UNCHANGED <<orig, AllowModify>>

(* The branch below is the false fall through. *)
Conditional ==
  /\ at = "walk"
  /\ isCondBranchOpcode(Here)
  /\ IF Cond # <<>>
     THEN /\ at' = "gaveUp"
          /\ UNCHANGED <<I, TBB, FBB, Cond>>
     ELSE /\ FBB' = TBB
          /\ TBB' = Here.mbb
          /\ Cond' = <<Here.op, Here.reg>>
          /\ StepUp("walk")
  /\ UNCHANGED <<MBB, orig, AllowModify>>

(* A return, or a terminator that cannot be analyzed. *)
BailOut ==
  /\ at = "walk"
  /\ isTerminator(Here) /\ ~isUncondBranchOpcode(Here) /\ ~isCondBranchOpcode(Here)
  /\ at' = "gaveUp"
  /\ UNCHANGED <<MBB, orig, AllowModify, I, TBB, FBB, Cond>>

-----------------------------------------------------------------------------
(* The pass calls removeBranch on a block with an analyzed branch. *)
CallRemoveBranch ==
  /\ at = "analyzed"
  /\ TBB # Null
  /\ at' = "remove"
  /\ I' = Len(MBB)
  /\ UNCHANGED <<MBB, orig, AllowModify, TBB, FBB, Cond>>

(* Mutant: the restart at the end of the block without the erasure. *)
removeBranchNoErase ==
  /\ at = "remove"
  /\ IF I = 0 THEN at' = "insert" /\ UNCHANGED I
     ELSE /\ UNCHANGED at
          /\ I' = IF isDebugValue(MBB[I]) THEN I - 1 ELSE Len(MBB)
  /\ UNCHANGED <<MBB, orig, AllowModify, TBB, FBB, Cond>>

(* removeBranch: one turn of its loop, from the bottom up; it starts again *)
(* at the end of the block after each erasure.                             *)
removeBranch ==
  /\ at = "remove"
  /\ \/ /\ I = 0                                   \* I = MBB.begin()
        /\ at' = "insert"
        /\ UNCHANGED <<MBB, I>>
     \/ /\ I > 0 /\ isDebugValue(MBB[I])
        /\ I' = I - 1
        /\ UNCHANGED <<MBB, at>>
     \/ /\ I > 0 /\ ~isDebugValue(MBB[I])
        /\ ~isUncondBranchOpcode(MBB[I]) /\ ~isCondBranchOpcode(MBB[I])
        /\ at' = "insert"
        /\ UNCHANGED <<MBB, I>>
     \/ /\ I > 0 /\ (isUncondBranchOpcode(MBB[I]) \/ isCondBranchOpcode(MBB[I]))
        /\ MBB' = RemoveAt(MBB, I)
        /\ I' = Len(MBB) - 1
        /\ UNCHANGED at
  /\ UNCHANGED <<orig, AllowModify, TBB, FBB, Cond>>

(* Mutant: the branch to the false block is missing. *)
insertBranchNoFalse ==
  /\ at = "insert"
  /\ MBB' = IF Cond = <<>>
            THEN Append(MBB, [op |-> "B", reg |-> Null, mbb |-> TBB])
            ELSE Append(MBB, [op |-> Cond[1], reg |-> Cond[2], mbb |-> TBB])
  /\ at' = "done"
  /\ UNCHANGED <<orig, AllowModify, I, TBB, FBB, Cond>>

(* insertBranch *)
insertBranch ==
  /\ at = "insert"
  /\ LET B(t) == [op |-> "B", reg |-> Null, mbb |-> t]
         BCond == [op |-> Cond[1], reg |-> Cond[2], mbb |-> TBB]
     IN  MBB' = MBB \o IF FBB # Null THEN <<BCond, B(FBB)>>
                       ELSE IF Cond = <<>> THEN <<B(TBB)>>
                       ELSE <<BCond>>
  /\ at' = "done"
  /\ UNCHANGED <<orig, AllowModify, I, TBB, FBB, Cond>>

Next ==
  \/ SkipDebugValue \/ StopAtNonTerminator \/ Unconditional \/ Conditional
  \/ BailOut \/ CallRemoveBranch \/ removeBranch \/ insertBranch

Spec == Init /\ [][Next]_vars

(* The three functions run to completion. *)
FairSpec == Spec /\ WF_vars(Next)

-----------------------------------------------------------------------------
(* Where a block goes when exactly the registers in nz are not zero: the   *)
(* first terminator that is taken decides.                                 *)
Taken(i, nz) ==
  \/ i.op = "BNZ" /\ i.reg \in nz
  \/ i.op = "BZ" /\ i.reg \notin nz
  \/ isTerminator(i) /\ ~isCondBranchOpcode(i)

Successor(b, nz) ==
  LET takenAt == {i \in DOMAIN b : Taken(b[i], nz)} IN
  IF takenAt = {} THEN Null
  ELSE LET first == b[CHOOSE i \in takenAt : \A j \in takenAt : i <= j]
       IN  IF first.op \in {"RET", "BALL"} THEN first.op ELSE first.mbb

(* Where a description (TBB, FBB, Cond) says that a block goes. *)
Described(nz) ==
  IF Cond = <<>> \/ Taken([op |-> Cond[1], reg |-> Cond[2], mbb |-> TBB], nz)
  THEN TBB ELSE FBB

(* An analyzed branch is described as it is, dead branches, debug values   *)
(* and two-way branches included: a pass that moves the block by the       *)
(* description alone does not redirect an edge.                            *)
AnalysisIsExact ==
  at = "analyzed" => \A nz \in SUBSET Regs : Described(nz) = Successor(orig, nz)

(* The cleanup on the way up, and the round trip through removeBranch and  *)
(* insertBranch, leave control flow as it was.                             *)
SuccessorsPreserved ==
  at \notin {"remove", "insert"} =>
    \A nz \in SUBSET Regs : Successor(MBB, nz) = Successor(orig, nz)

(* The assertion of analyzeBranch: "FBB should have been null." *)
FBBShouldBeNull ==
  at = "walk" /\ isCondBranchOpcode(Here) /\ Cond = <<>> => FBB = Null

(* Both loops end: the restart of removeBranch makes progress. *)
Terminates == <>(at \in {"done", "gaveUp"} \/ (at = "analyzed" /\ TBB = Null))
=============================================================================
