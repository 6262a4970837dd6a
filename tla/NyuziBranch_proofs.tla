------------------------- MODULE NyuziBranch_proofs -------------------------
(***************************************************************************)
(* The branch analysis is exact, and the round trip through removeBranch   *)
(* and insertBranch keeps control flow, for blocks of any length and any   *)
(* set of targets and registers.                                           *)
(*                                                                         *)
(* The inductive invariant follows the walk upwards: the description       *)
(* (TBB, FBB, Cond) is always that of the instructions below I, and below  *)
(* I there are only branches and debug values.                             *)
(***************************************************************************)
EXTENDS NyuziBranch, TLAPS, WellFoundedInduction

isBranch(i) == isUncondBranchOpcode(i) \/ isCondBranchOpcode(i)

(* Where a taken terminator goes. *)
Goal(i) == IF i.op \in {"RET", "BALL"} THEN i.op ELSE i.mbb

(* The instructions of b from `from` on go to s. *)
Goes(b, from, nz, s) ==
  \/ s = Null /\ \A j \in from .. Len(b) : ~Taken(b[j], nz)
  \/ \E i \in from .. Len(b) :
       /\ Taken(b[i], nz)
       /\ \A j \in from .. (i - 1) : ~Taken(b[j], nz)
       /\ s = Goal(b[i])

(* The description is that of orig from an index on. *)
DescribedFrom(from) == \A nz \in SUBSET Regs : Goes(orig, from, nz, Described(nz))

Types ==
  /\ orig \in Seq(Instrs) /\ WellFormed(orig)
  /\ MBB \in Seq(Instrs)
  /\ I \in Nat
  /\ TBB \in Targets \cup {Null}
  /\ FBB \in Targets \cup {Null}
  /\ Cond = <<>> \/ Cond \in {"BNZ", "BZ"} \X Regs
  /\ at \in {"walk", "analyzed", "gaveUp", "remove", "insert", "done"}

(* Only a description with a condition has a false block. *)
DescriptionShape ==
  /\ FBB # Null => Cond # <<>>
  /\ Cond # <<>> => TBB # Null

(* What is left of the block while it is analyzed: a prefix, cut behind an *)
(* unconditional branch.                                                   *)
Kept ==
  /\ Len(MBB) <= Len(orig)
  /\ \A j \in 1 .. Len(MBB) : MBB[j] = orig[j]
  /\ \/ Len(MBB) = Len(orig)
     \/ Len(MBB) > 0 /\ isUncondBranchOpcode(orig[Len(MBB)])

(* Above s there is no terminator, from there on only branches and debug   *)
(* values.                                                                 *)
SplitAt(s) ==
  /\ \A j \in 1 .. s : ~isTerminator(MBB[j])
  /\ \A j \in s + 1 .. Len(MBB) : isBranch(MBB[j]) \/ isDebugValue(MBB[j])

WalkInv ==
  at = "walk" =>
    /\ Kept
    /\ I \in 1 .. Len(MBB)
    /\ DescribedFrom(I + 1)
    /\ \A j \in I + 1 .. Len(MBB) : isBranch(MBB[j]) \/ isDebugValue(MBB[j])

AnalyzedInv ==
  /\ at = "gaveUp" => Kept
  /\ at = "analyzed" => Kept
  /\ at \in {"analyzed", "remove"} => \E s \in 0 .. Len(MBB) : SplitAt(s)
  /\ at \in {"analyzed", "remove", "insert", "done"} => DescribedFrom(1)

RebuildInv ==
  /\ at \in {"remove", "insert"} => TBB # Null
  /\ at = "remove" => /\ I \in 0 .. Len(MBB)
                      /\ \A j \in I + 1 .. Len(MBB) : isDebugValue(MBB[j])
  /\ at = "insert" => \A j \in 1 .. Len(MBB) : ~isTerminator(MBB[j])
  /\ at = "done" => \A nz \in SUBSET Regs : Goes(MBB, 1, nz, Described(nz))

IInv == Types /\ DescriptionShape /\ WalkInv /\ AnalyzedInv /\ RebuildInv

-----------------------------------------------------------------------------
LEMMA NatMin ==
  ASSUME NEW T, T \subseteq Nat, T # {}
  PROVE  \E x \in T : \A y \in T : x <= y
<1> DEFINE R == {ss \in Nat \X Nat : ss[1] < ss[2]}
<1>1. IsWellFoundedOn(R, Nat)
  BY NatLessThanWellFounded, Zenon DEF OpToRel
<1>2. \E x \in T : \A y \in T : <<y, x>> \notin R
  <2> HIDE DEF R
  <2> QED BY <1>1, WFMin
<1>3. PICK x \in T : \A y \in T : <<y, x>> \notin R
  BY <1>2
<1>4. ASSUME NEW y \in T PROVE x <= y
  <2>1. y \in Nat /\ x \in Nat /\ <<y, x>> \in Nat \X Nat
    BY <1>3
  <2>2. <<y, x>>[1] = y /\ <<y, x>>[2] = x
    OBVIOUS
  <2>3. ~(y < x)
    BY <1>3, <2>1, <2>2
  <2> QED BY <2>1, <2>3
<1> QED BY <1>3, <1>4

(* The instructions of a block, by what the walk makes of them. *)
LEMMA InstrFacts ==
  ASSUME NEW i \in Instrs
  PROVE  /\ i.op \in {"add", "DBG_VALUE", "RET", "BALL", "B", "BNZ", "BZ"}
         /\ isBranch(i) => i.mbb \in Targets
         /\ isCondBranchOpcode(i) => i.reg \in Regs
         /\ i = [op |-> i.op, reg |-> i.reg, mbb |-> i.mbb]
BY DEF Instrs, Plain, Uncond, CondBr, isBranch, isUncondBranchOpcode, isCondBranchOpcode

LEMMA TakenFacts ==
  ASSUME NEW i \in Instrs, NEW nz
  PROVE  /\ ~isTerminator(i) => ~Taken(i, nz)
         /\ isDebugValue(i) => ~isTerminator(i)
         /\ isUncondBranchOpcode(i) => Taken(i, nz)
         /\ isBranch(i) => isTerminator(i) /\ Goal(i) = i.mbb /\ ~isDebugValue(i)
         /\ isTerminator(i) => ~isDebugValue(i)
         /\ Taken(i, nz) \in BOOLEAN
BY InstrFacts DEF Taken, Goal, isBranch, isTerminator, isDebugValue,
     isUncondBranchOpcode, isCondBranchOpcode

(* Goes determines the successor. *)
LEMMA SuccessorIs ==
  ASSUME NEW b \in Seq(Instrs), NEW nz, NEW s, Goes(b, 1, nz, s)
  PROVE  Successor(b, nz) = s
<1> DEFINE takenAt == {i \in DOMAIN b : Taken(b[i], nz)}
<1>0. DOMAIN b = 1 .. Len(b) /\ Len(b) \in Nat
  OBVIOUS
<1>1. CASE s = Null /\ \A j \in 1 .. Len(b) : ~Taken(b[j], nz)
  BY <1>0, <1>1 DEF Successor
<1>2. CASE \E i \in 1 .. Len(b) :
             Taken(b[i], nz) /\ (\A j \in 1 .. (i - 1) : ~Taken(b[j], nz)) /\ s = Goal(b[i])
  <2>1. PICK i \in 1 .. Len(b) :
          Taken(b[i], nz) /\ (\A j \in 1 .. (i - 1) : ~Taken(b[j], nz)) /\ s = Goal(b[i])
    BY <1>2
  <2>2. i \in takenAt /\ \A j \in takenAt : i <= j
    BY <1>0, <2>1
  <2>3. ASSUME NEW k \in takenAt, \A j \in takenAt : k <= j PROVE k = i
    BY <1>0, <2>2, <2>3
  <2>4. (CHOOSE k \in takenAt : \A j \in takenAt : k <= j) = i
    <3> HIDE DEF takenAt
    <3> QED BY <2>2, <2>3
  <2>5. Successor(b, nz) = Goal(b[i])
    BY <2>2, <2>4 DEF Successor, Goal
  <2> QED BY <2>1, <2>5
<1> QED BY <1>1, <1>2 DEF Goes

(* Every block goes somewhere. *)
LEMMA GoesSomewhere ==
  ASSUME NEW b \in Seq(Instrs), NEW nz
  PROVE  Goes(b, 1, nz, Successor(b, nz))
<1> DEFINE takenAt == {i \in 1 .. Len(b) : Taken(b[i], nz)}
<1>1. CASE takenAt = {}
  <2>1. Goes(b, 1, nz, Null)
    BY <1>1 DEF Goes
  <2> QED BY <2>1, SuccessorIs
<1>2. CASE takenAt # {}
  <2>0. takenAt \subseteq Nat /\ Len(b) \in Nat
    OBVIOUS
  <2>1. PICK i \in takenAt : \A j \in takenAt : i <= j
    <3> HIDE DEF takenAt
    <3> QED BY <1>2, <2>0, NatMin
  <2>2. \A j \in 1 .. (i - 1) : ~Taken(b[j], nz)
    BY <2>0, <2>1
  <2>3. Goes(b, 1, nz, Goal(b[i]))
    BY <2>1, <2>2 DEF Goes
  <2> QED BY <2>3, SuccessorIs
<1> QED BY <1>1, <1>2

(* Cutting a block behind an unconditional branch keeps its successors. *)
LEMMA CutKeeps ==
  ASSUME Types, Kept, NEW nz
  PROVE  Successor(MBB, nz) = Successor(orig, nz)
<1> DEFINE s == Successor(MBB, nz)
           n == Len(MBB)
<1>0. /\ MBB \in Seq(Instrs) /\ orig \in Seq(Instrs)
      /\ n \in Nat /\ Len(orig) \in Nat /\ n <= Len(orig)
      /\ \A j \in 1 .. n : MBB[j] = orig[j]
  BY DEF Types, Kept
<1>1. Goes(MBB, 1, nz, s)
  BY <1>0, GoesSomewhere
<1>2. CASE s = Null /\ \A j \in 1 .. n : ~Taken(MBB[j], nz)
  <2>1. n = Len(orig)
    <3>1. SUFFICES ASSUME n > 0, isUncondBranchOpcode(orig[n]) PROVE FALSE
      BY DEF Kept
    <3>2. n \in 1 .. n /\ MBB[n] = orig[n] /\ orig[n] \in Instrs
      BY <1>0, <3>1
    <3> QED BY <1>2, <3>1, <3>2, TakenFacts
  <2>2. Goes(orig, 1, nz, s)
    BY <1>0, <1>2, <2>1 DEF Goes
  <2> QED BY <1>0, <2>2, SuccessorIs
<1>3. CASE \E i \in 1 .. n :
             Taken(MBB[i], nz) /\ (\A j \in 1 .. (i - 1) : ~Taken(MBB[j], nz)) /\ s = Goal(MBB[i])
  <2>1. PICK i \in 1 .. n :
          Taken(MBB[i], nz) /\ (\A j \in 1 .. (i - 1) : ~Taken(MBB[j], nz)) /\ s = Goal(MBB[i])
    BY <1>3
  <2>2. /\ i \in 1 .. Len(orig) /\ MBB[i] = orig[i]
        /\ \A j \in 1 .. (i - 1) : MBB[j] = orig[j]
    BY <1>0
  <2>3. Goes(orig, 1, nz, s)
    BY <2>1, <2>2 DEF Goes
  <2> QED BY <1>0, <2>3, SuccessorIs
<1> QED BY <1>1, <1>2, <1>3 DEF Goes

(* What a condition says is what its branch does. *)
LEMMA DescribedTaken ==
  ASSUME NEW i \in Instrs, isCondBranchOpcode(i), NEW nz, NEW t
  PROVE  Taken([op |-> i.op, reg |-> i.reg, mbb |-> t], nz) = Taken(i, nz)
BY InstrFacts DEF Taken, isTerminator, isCondBranchOpcode

-----------------------------------------------------------------------------
LEMMA InitIInv == Init => IInv
<1> SUFFICES ASSUME Init PROVE IInv
  OBVIOUS
<1>1. MBB \in Seq(Instrs) /\ WellFormed(MBB) /\ orig = MBB
  BY MaxLenAssumption DEF Init, Blocks, SeqOf
<1>2. Types
  BY <1>1 DEF Types, Init
<1>3. DescriptionShape
  BY DEF DescriptionShape, Init
<1>4. Kept
  BY <1>1 DEF Kept
<1>5. ASSUME NEW nz PROVE Goes(orig, Len(orig) + 1, nz, Described(nz))
  <2>1. Described(nz) = Null
    BY DEF Init, Described
  <2>2. \A j \in Len(orig) + 1 .. Len(orig) : ~Taken(orig[j], nz)
    BY <1>1
  <2> QED BY <2>1, <2>2 DEF Goes
<1>6. CASE MBB = <<>>
  <2>1. Len(MBB) = 0 /\ at = "analyzed"
    BY <1>6 DEF Init
  <2>2. SplitAt(0)
    BY <2>1 DEF SplitAt
  <2>3. DescribedFrom(1)
    BY <1>1, <1>5, <2>1 DEF DescribedFrom
  <2>4. WalkInv /\ RebuildInv
    BY <2>1 DEF WalkInv, RebuildInv
  <2>5. AnalyzedInv
    BY <1>4, <2>1, <2>2, <2>3 DEF AnalyzedInv
  <2> QED BY <1>2, <1>3, <2>4, <2>5 DEF IInv
<1>7. CASE MBB # <<>>
  <2>1. at = "walk" /\ I = Len(MBB) /\ I \in 1 .. Len(MBB) /\ Len(MBB) \in Nat
    BY <1>1, <1>7 DEF Init
  <2>2. DescribedFrom(I + 1)
    BY <1>1, <1>5, <2>1 DEF DescribedFrom
  <2>3. \A j \in I + 1 .. Len(MBB) : isBranch(MBB[j]) \/ isDebugValue(MBB[j])
    BY <2>1
  <2>4. WalkInv /\ RebuildInv /\ AnalyzedInv
    BY <1>4, <2>1, <2>2, <2>3 DEF WalkInv, RebuildInv, AnalyzedInv
  <2> QED BY <1>2, <1>3, <2>4 DEF IInv
<1> QED BY <1>6, <1>7

(* A turn of the walk that keeps what it has seen so far. *)
LEMMA StepUpLemma ==
  ASSUME IInv, at = "walk", StepUp("walk"), orig' = orig,
         Types', DescriptionShape', Kept', Len(MBB') >= I,
         \A nz \in SUBSET Regs : Goes(orig, I, nz, Described(nz)'),
         \A j \in I .. Len(MBB') : isBranch(MBB'[j]) \/ isDebugValue(MBB'[j])
  PROVE  IInv'
<1>1. I \in Nat \ {0} /\ Len(MBB') \in Nat
  BY DEF IInv, WalkInv, Types
<1>2. CASE I = 1
  <2>1. at' = "analyzed"
    BY <1>2 DEF StepUp
  <2>2. SplitAt(0)'
    BY <1>1, <1>2 DEF SplitAt
  <2>3. DescribedFrom(1)'
    BY <1>2 DEF DescribedFrom
  <2>4. AnalyzedInv'
    BY <1>1, <2>1, <2>2, <2>3 DEF AnalyzedInv
  <2> QED BY <2>1, <2>4 DEF IInv, WalkInv, RebuildInv
<1>3. CASE I # 1
  <2>1. at' = "walk" /\ I' = I - 1
    BY <1>3 DEF StepUp
  <2>2. I' + 1 = I /\ I' \in 1 .. Len(MBB')
    BY <1>1, <1>3, <2>1
  <2>3. DescribedFrom(I + 1)'
    BY <2>2 DEF DescribedFrom
  <2>4. WalkInv'
    BY <2>1, <2>2, <2>3 DEF WalkInv
  <2> QED BY <2>1, <2>4 DEF IInv, AnalyzedInv, RebuildInv
<1> QED BY <1>2, <1>3

(* The instruction at I put before those that are described. *)
LEMMA GoesStep ==
  ASSUME NEW b \in Seq(Instrs), NEW k \in 1 .. Len(b), NEW nz, NEW s,
         ~Taken(b[k], nz), Goes(b, k + 1, nz, s)
  PROVE  Goes(b, k, nz, s)
<1>1. \A j \in k .. Len(b) : j = k \/ j \in k + 1 .. Len(b)
  OBVIOUS
<1>2. CASE s = Null /\ \A j \in k + 1 .. Len(b) : ~Taken(b[j], nz)
  BY <1>1, <1>2 DEF Goes
<1>3. CASE \E i \in k + 1 .. Len(b) :
         Taken(b[i], nz) /\ (\A j \in k + 1 .. (i - 1) : ~Taken(b[j], nz)) /\ s = Goal(b[i])
  <2>1. PICK i \in k + 1 .. Len(b) :
         Taken(b[i], nz) /\ (\A j \in k + 1 .. (i - 1) : ~Taken(b[j], nz)) /\ s = Goal(b[i])
    BY <1>3
  <2>2. i \in k .. Len(b) /\ \A j \in k .. (i - 1) : ~Taken(b[j], nz)
    BY <2>1
  <2> QED BY <2>1, <2>2 DEF Goes
<1> QED BY <1>2, <1>3 DEF Goes

LEMMA GoesTaken ==
  ASSUME NEW b \in Seq(Instrs), NEW k \in 1 .. Len(b), NEW nz, Taken(b[k], nz)
  PROVE  Goes(b, k, nz, Goal(b[k]))
<1>1. k \in k .. Len(b) /\ \A j \in k .. (k - 1) : ~Taken(b[j], nz)
  OBVIOUS
<1> QED BY <1>1 DEF Goes

-----------------------------------------------------------------------------
(* What holds at every turn of the walk. *)
LEMMA WalkFacts ==
  ASSUME IInv, at = "walk"
  PROVE  /\ MBB \in Seq(Instrs) /\ orig \in Seq(Instrs)
         /\ I \in 1 .. Len(MBB) /\ I \in 1 .. Len(orig)
         /\ Here \in Instrs /\ Here = orig[I]
         /\ Kept /\ DescribedFrom(I + 1)
BY DEF IInv, Types, WalkInv, Kept, Here

LEMMA SkipDebugValueIInv == IInv /\ SkipDebugValue => IInv'
<1> SUFFICES ASSUME IInv, SkipDebugValue PROVE IInv'
  OBVIOUS
<1>1. at = "walk" /\ StepUp("walk") /\ isDebugValue(Here)
  BY DEF SkipDebugValue
<1>2. UNCHANGED <<MBB, orig, TBB, FBB, Cond>>
  BY DEF SkipDebugValue
<1>3. Types' /\ DescriptionShape' /\ Kept' /\ Len(MBB') >= I
  BY <1>1, <1>2, WalkFacts DEF IInv, Types, DescriptionShape, Kept, StepUp, WalkInv
<1>4. ASSUME NEW nz \in SUBSET Regs PROVE Goes(orig, I, nz, Described(nz)')
  <2>1. Described(nz)' = Described(nz) /\ Goes(orig, I + 1, nz, Described(nz))
    BY <1>1, <1>2, WalkFacts DEF Described, DescribedFrom
  <2>2. ~Taken(orig[I], nz)
    BY <1>1, WalkFacts, TakenFacts
  <2> QED BY <1>1, <2>1, <2>2, WalkFacts, GoesStep
<1>5. \A j \in I .. Len(MBB') : isBranch(MBB'[j]) \/ isDebugValue(MBB'[j])
  BY <1>1, <1>2 DEF IInv, WalkInv, Here
<1> QED BY <1>1, <1>2, <1>3, <1>4, <1>5, StepUpLemma

LEMMA UnconditionalIInv == IInv /\ Unconditional => IInv'
<1> SUFFICES ASSUME IInv, Unconditional PROVE IInv'
  OBVIOUS
<1>1. at = "walk" /\ StepUp("walk") /\ isUncondBranchOpcode(Here)
  BY DEF Unconditional
<1>2. /\ orig' = orig /\ TBB' = Here.mbb /\ Cond' = <<>> /\ FBB' = Null
      /\ MBB' = IF AllowModify THEN SubSeq(MBB, 1, I) ELSE MBB
  BY DEF Unconditional
<1>w. /\ MBB \in Seq(Instrs) /\ orig \in Seq(Instrs)
      /\ I \in 1 .. Len(MBB) /\ I \in 1 .. Len(orig)
      /\ Here \in Instrs /\ Here = orig[I]
      /\ Kept
  BY <1>1, WalkFacts
<1>3. /\ MBB' \in Seq(Instrs)
      /\ \A j \in 1 .. Len(MBB') : MBB'[j] = MBB[j]
      /\ Len(MBB') = I \/ Len(MBB') = Len(MBB)
      /\ Len(MBB') >= I /\ Len(MBB') <= Len(MBB)
  <2>1. CASE AllowModify
    BY <1>2, <1>w, <2>1
  <2>2. CASE ~AllowModify
    BY <1>2, <1>w, <2>2
  <2> QED BY <2>1, <2>2
<1>4. Here.mbb \in Targets
  BY <1>1, <1>w, InstrFacts DEF isBranch
<1>5. Types'
  BY <1>1, <1>2, <1>3, <1>4, <1>w DEF IInv, Types, StepUp
<1>6. DescriptionShape'
  BY <1>2, <1>4, NullAssumption DEF DescriptionShape
<1>7. Kept'
  BY <1>1, <1>2, <1>3, <1>w DEF Kept
<1>8. ASSUME NEW nz \in SUBSET Regs PROVE Goes(orig, I, nz, Described(nz)')
  <2>1. Described(nz)' = Goal(orig[I]) /\ Taken(orig[I], nz)
    BY <1>1, <1>2, <1>w, TakenFacts DEF Described, isBranch
  <2> QED BY <1>w, <2>1, GoesTaken
<1>9. \A j \in I .. Len(MBB') : isBranch(MBB'[j]) \/ isDebugValue(MBB'[j])
  BY <1>1, <1>3, <1>w DEF IInv, WalkInv, Here, isBranch
<1> QED BY <1>1, <1>2, <1>3, <1>5, <1>6, <1>7, <1>8, <1>9, StepUpLemma

LEMMA ConditionalIInv == IInv /\ Conditional => IInv'
<1> SUFFICES ASSUME IInv, Conditional PROVE IInv'
  OBVIOUS
<1>1. at = "walk" /\ isCondBranchOpcode(Here) /\ UNCHANGED <<MBB, orig>>
  BY DEF Conditional
<1>w. /\ MBB \in Seq(Instrs) /\ orig \in Seq(Instrs)
      /\ I \in 1 .. Len(MBB) /\ I \in 1 .. Len(orig)
      /\ Here \in Instrs /\ Here = orig[I]
      /\ Kept /\ DescribedFrom(I + 1)
  BY <1>1, WalkFacts
<1>k. Kept'
  BY <1>1, <1>w DEF Kept
<1>2. CASE Cond # <<>>
  <2>1. at' = "gaveUp" /\ UNCHANGED <<I, TBB, FBB, Cond>>
    BY <1>2 DEF Conditional
  <2> QED
    BY <1>1, <1>k, <2>1 DEF IInv, Types, DescriptionShape, WalkInv, AnalyzedInv, RebuildInv
<1>3. CASE Cond = <<>>
  <2>1. /\ FBB' = TBB /\ TBB' = Here.mbb /\ Cond' = <<Here.op, Here.reg>>
        /\ StepUp("walk")
    BY <1>3 DEF Conditional
  <2>2. Here.mbb \in Targets /\ Here.reg \in Regs /\ Here.op \in {"BNZ", "BZ"}
    BY <1>1, <1>w, InstrFacts DEF isBranch, isCondBranchOpcode
  <2>3. Types' /\ DescriptionShape'
    <3>1. Cond' \in {"BNZ", "BZ"} \X Regs /\ Cond' # <<>>
      BY <2>1, <2>2
    <3>2. TBB' # Null /\ TBB' \in Targets /\ FBB' \in Targets \cup {Null}
      BY <2>1, <2>2, NullAssumption DEF IInv, Types
    <3>3. I' \in Nat /\ at' \in {"walk", "analyzed"}
      BY <1>w, <2>1 DEF StepUp
    <3> QED BY <1>1, <3>1, <3>2, <3>3 DEF IInv, Types, DescriptionShape
  <2>4. ASSUME NEW nz \in SUBSET Regs PROVE Goes(orig, I, nz, Described(nz)')
    <3>1. Goes(orig, I + 1, nz, TBB)
      BY <1>3, <1>w DEF DescribedFrom, Described
    <3>2. Cond' # <<>> /\ Cond'[1] = Here.op /\ Cond'[2] = Here.reg
      BY <2>1
    <3>3. Described(nz)' = IF Taken(Here, nz) THEN Here.mbb ELSE TBB
      BY <1>1, <1>w, <2>1, <3>2, DescribedTaken DEF Described
    <3>4. Goal(orig[I]) = Here.mbb
      BY <1>1, <1>w, TakenFacts DEF isBranch
    <3>5. CASE Taken(Here, nz)
      BY <1>w, <3>3, <3>4, <3>5, GoesTaken
    <3>6. CASE ~Taken(Here, nz)
      BY <1>w, <3>1, <3>3, <3>6, GoesStep
    <3> QED BY <3>5, <3>6
  <2>5. \A j \in I .. Len(MBB') : isBranch(MBB'[j]) \/ isDebugValue(MBB'[j])
    BY <1>1, <1>w DEF IInv, WalkInv, Here, isBranch
  <2> QED BY <1>1, <1>w, <1>k, <2>1, <2>3, <2>4, <2>5, StepUpLemma
<1> QED BY <1>2, <1>3

LEMMA StopIInv == IInv /\ StopAtNonTerminator => IInv'
<1> SUFFICES ASSUME IInv, StopAtNonTerminator PROVE IInv'
  OBVIOUS
<1>1. /\ at = "walk" /\ at' = "analyzed" /\ UNCHANGED <<MBB, orig, I, TBB, FBB, Cond>>
      /\ ~isDebugValue(Here) /\ ~isTerminator(Here)
  BY DEF StopAtNonTerminator
<1>w. /\ MBB \in Seq(Instrs) /\ orig \in Seq(Instrs)
      /\ I \in 1 .. Len(MBB) /\ I \in 1 .. Len(orig)
      /\ Here \in Instrs /\ Here = orig[I]
      /\ Kept /\ DescribedFrom(I + 1)
  BY <1>1, WalkFacts
<1>2. Types' /\ DescriptionShape' /\ Kept'
  BY <1>1, <1>w DEF IInv, Types, DescriptionShape, Kept
<1>3. Here.op = "add"
  BY <1>1 DEF isDebugValue, isTerminator
<1>4. \A j \in 1 .. I : ~isTerminator(orig[j])
  BY <1>1, <1>3, <1>w DEF IInv, Types, WellFormed
<1>5. SplitAt(I)'
  BY <1>1, <1>4, <1>w DEF IInv, SplitAt, Kept, WalkInv
<1>6. ASSUME NEW nz \in SUBSET Regs PROVE Goes(orig, 1, nz, Described(nz)')
  <2>1. Described(nz)' = Described(nz) /\ Goes(orig, I + 1, nz, Described(nz))
    BY <1>1, <1>w DEF Described, DescribedFrom
  <2>2. \A j \in 1 .. I : ~Taken(orig[j], nz)
    BY <1>4, <1>w, TakenFacts
  <2>3. CASE Described(nz) = Null /\ \A j \in I + 1 .. Len(orig) : ~Taken(orig[j], nz)
    BY <1>w, <2>1, <2>2, <2>3 DEF Goes
  <2>4. CASE \E i \in I + 1 .. Len(orig) :
               /\ Taken(orig[i], nz)
               /\ \A j \in I + 1 .. (i - 1) : ~Taken(orig[j], nz)
               /\ Described(nz) = Goal(orig[i])
    <3>1. PICK i \in I + 1 .. Len(orig) :
               /\ Taken(orig[i], nz)
               /\ \A j \in I + 1 .. (i - 1) : ~Taken(orig[j], nz)
               /\ Described(nz) = Goal(orig[i])
      BY <2>4
    <3>2. i \in 1 .. Len(orig) /\ \A j \in 1 .. (i - 1) : ~Taken(orig[j], nz)
      BY <1>w, <2>2, <3>1
    <3> QED BY <2>1, <3>1, <3>2 DEF Goes
  <2> QED BY <2>1, <2>3, <2>4 DEF Goes
<1>7. DescribedFrom(1)'
  BY <1>1, <1>6 DEF DescribedFrom
<1>8. AnalyzedInv'
  <2>1. I' \in 0 .. Len(MBB')
    BY <1>1, <1>w
  <2> QED BY <1>1, <1>2, <1>5, <1>7, <2>1 DEF AnalyzedInv
<1> QED BY <1>1, <1>2, <1>8 DEF IInv, WalkInv, RebuildInv

LEMMA BailOutIInv == IInv /\ BailOut => IInv'
<1> SUFFICES ASSUME IInv, BailOut PROVE IInv'
  OBVIOUS
<1>1. at = "walk" /\ at' = "gaveUp" /\ UNCHANGED <<MBB, orig, I, TBB, FBB, Cond>>
  BY DEF BailOut
<1>2. Types' /\ DescriptionShape' /\ Kept'
  BY <1>1 DEF IInv, Types, DescriptionShape, Kept, WalkInv
<1> QED BY <1>1, <1>2 DEF IInv, WalkInv, AnalyzedInv, RebuildInv

LEMMA CallRemoveBranchIInv == IInv /\ CallRemoveBranch => IInv'
<1> SUFFICES ASSUME IInv, CallRemoveBranch PROVE IInv'
  OBVIOUS
<1>1. /\ at = "analyzed" /\ at' = "remove" /\ TBB # Null /\ I' = Len(MBB)
      /\ UNCHANGED <<MBB, orig, TBB, FBB, Cond>>
  BY DEF CallRemoveBranch
<1>2. Types' /\ DescriptionShape'
  BY <1>1 DEF IInv, Types, DescriptionShape
<1>3. (\E s \in 0 .. Len(MBB) : SplitAt(s))'
  BY <1>1 DEF IInv, AnalyzedInv, SplitAt
<1>4. DescribedFrom(1)'
  BY <1>1 DEF IInv, AnalyzedInv, DescribedFrom, Described
<1>5. I' \in 0 .. Len(MBB') /\ \A j \in I' + 1 .. Len(MBB') : isDebugValue(MBB'[j])
  BY <1>1 DEF IInv, Types
<1> QED BY <1>1, <1>2, <1>3, <1>4, <1>5 DEF IInv, WalkInv, AnalyzedInv, RebuildInv

(* What RemoveAt leaves. *)
LEMMA RemoveAtFacts ==
  ASSUME NEW b \in Seq(Instrs), NEW k \in 1 .. Len(b)
  PROVE  /\ RemoveAt(b, k) \in Seq(Instrs)
         /\ Len(RemoveAt(b, k)) = Len(b) - 1
         /\ \A j \in 1 .. Len(b) - 1 :
              RemoveAt(b, k)[j] = IF j < k THEN b[j] ELSE b[j + 1]
<1> DEFINE l == SubSeq(b, 1, k - 1)
           r == SubSeq(b, k + 1, Len(b))
<1>1. l \in Seq(Instrs) /\ Len(l) = k - 1 /\ \A j \in 1 .. (k - 1) : l[j] = b[j]
  OBVIOUS
<1>2. /\ r \in Seq(Instrs) /\ Len(r) = Len(b) - k
      /\ \A j \in 1 .. (Len(b) - k) : r[j] = b[k + j]
  OBVIOUS
<1>3. RemoveAt(b, k) = l \o r
  BY DEF RemoveAt
<1> HIDE DEF l, r
<1>4. l \o r \in Seq(Instrs) /\ Len(l \o r) = Len(b) - 1
  BY <1>1, <1>2
<1>5. ASSUME NEW j \in 1 .. Len(b) - 1
      PROVE  (l \o r)[j] = IF j < k THEN b[j] ELSE b[j + 1]
  <2>1. CASE j < k
    BY <1>1, <1>2, <2>1
  <2>2. CASE ~(j < k)
    <3>1. (l \o r)[j] = r[j - (k - 1)]
      BY <1>1, <1>2, <2>2
    <3>2. j - (k - 1) \in 1 .. (Len(b) - k) /\ k + (j - (k - 1)) = j + 1
      BY <2>2
    <3> QED BY <1>2, <2>2, <3>1, <3>2
  <2> QED BY <2>1, <2>2
<1> QED BY <1>3, <1>4, <1>5

LEMMA removeBranchIInv == IInv /\ removeBranch => IInv'
<1> SUFFICES ASSUME IInv, removeBranch PROVE IInv'
  OBVIOUS
<1>1. at = "remove" /\ UNCHANGED <<orig, TBB, FBB, Cond>>
  BY DEF removeBranch
<1>2. /\ MBB \in Seq(Instrs) /\ Len(MBB) \in Nat /\ I \in 0 .. Len(MBB)
      /\ \A j \in 1 .. Len(MBB) : MBB[j] \in Instrs
      /\ \A j \in I + 1 .. Len(MBB) : isDebugValue(MBB[j])
      /\ TBB # Null
  BY <1>1 DEF IInv, Types, RebuildInv
<1>3. PICK s \in 0 .. Len(MBB) : SplitAt(s)
  BY <1>1 DEF IInv, AnalyzedInv
<1>4. DescriptionShape' /\ DescribedFrom(1)'
  BY <1>1 DEF IInv, AnalyzedInv, DescribedFrom, Described, DescriptionShape
<1>5. ASSUME at' = "insert", MBB' = MBB, I' = I,
             \A j \in 1 .. Len(MBB) : ~isTerminator(MBB[j])
      PROVE  IInv'
  <2>1. Types'
    BY <1>1, <1>5 DEF IInv, Types
  <2> QED BY <1>1, <1>2, <1>4, <1>5, <2>1 DEF IInv, WalkInv, AnalyzedInv, RebuildInv
<1>6. ASSUME at' = "remove", MBB' \in Seq(Instrs), I' \in 0 .. Len(MBB'),
             \A j \in I' + 1 .. Len(MBB') : isDebugValue(MBB'[j]),
             s \in 0 .. Len(MBB'), SplitAt(s)'
      PROVE  IInv'
  <2>1. Types'
    BY <1>1, <1>6 DEF IInv, Types
  <2>2. AnalyzedInv'
    BY <1>4, <1>6 DEF AnalyzedInv
  <2> QED BY <1>1, <1>2, <1>4, <1>6, <2>1, <2>2 DEF IInv, WalkInv, RebuildInv
<1>7. CASE I = 0 /\ at' = "insert" /\ UNCHANGED <<MBB, I>>
  <2>1. \A j \in 1 .. Len(MBB) : ~isTerminator(MBB[j])
    BY <1>2, <1>7, TakenFacts
  <2> QED BY <1>5, <1>7, <2>1
<1>8. CASE I > 0 /\ isDebugValue(MBB[I]) /\ I' = I - 1 /\ UNCHANGED <<MBB, at>>
  <2>1. I' \in 0 .. Len(MBB') /\ \A j \in I' + 1 .. Len(MBB') : isDebugValue(MBB'[j])
    BY <1>2, <1>8
  <2>2. SplitAt(s)'
    BY <1>3, <1>8 DEF SplitAt
  <2> QED BY <1>1, <1>2, <1>3, <1>6, <1>8, <2>1, <2>2
<1>9. CASE /\ I > 0 /\ ~isDebugValue(MBB[I])
           /\ ~isUncondBranchOpcode(MBB[I]) /\ ~isCondBranchOpcode(MBB[I])
           /\ at' = "insert" /\ UNCHANGED <<MBB, I>>
  <2>1. I <= s
    BY <1>2, <1>3, <1>9 DEF SplitAt, isBranch
  <2>2. \A j \in 1 .. Len(MBB) : ~isTerminator(MBB[j])
    BY <1>2, <1>3, <2>1, TakenFacts DEF SplitAt
  <2> QED BY <1>5, <1>9, <2>2
<1>10. CASE /\ I > 0 /\ (isUncondBranchOpcode(MBB[I]) \/ isCondBranchOpcode(MBB[I]))
            /\ MBB' = RemoveAt(MBB, I) /\ I' = Len(MBB) - 1 /\ UNCHANGED at
  <2>1. I \in 1 .. Len(MBB) /\ I > s
    BY <1>2, <1>3, <1>10, TakenFacts DEF SplitAt, isBranch
  <2>2. /\ MBB' \in Seq(Instrs) /\ Len(MBB') = Len(MBB) - 1
        /\ \A j \in 1 .. Len(MBB) - 1 : MBB'[j] = IF j < I THEN MBB[j] ELSE MBB[j + 1]
    BY <1>2, <1>10, <2>1, RemoveAtFacts
  <2>3. \A j \in 1 .. s : ~isTerminator(MBB'[j])
    BY <1>2, <1>3, <2>1, <2>2 DEF SplitAt
  <2>4. ASSUME NEW j \in s + 1 .. Len(MBB') PROVE isBranch(MBB'[j]) \/ isDebugValue(MBB'[j])
    BY <1>2, <1>3, <2>1, <2>2 DEF SplitAt
  <2>5. SplitAt(s)' /\ s \in 0 .. Len(MBB')
    BY <1>2, <2>1, <2>2, <2>3, <2>4 DEF SplitAt
  <2>6. I' \in 0 .. Len(MBB') /\ \A j \in I' + 1 .. Len(MBB') : isDebugValue(MBB'[j])
    BY <1>2, <1>10, <2>1, <2>2
  <2> QED BY <1>1, <1>6, <1>10, <2>2, <2>5, <2>6
<1> QED BY <1>7, <1>8, <1>9, <1>10 DEF removeBranch

(* Behind instructions that are no terminators, only what is added counts. *)
LEMMA GoesBehind ==
  ASSUME NEW b \in Seq(Instrs), \A j \in 1 .. Len(b) : ~isTerminator(b[j]),
         NEW c \in Seq(Instrs), NEW nz, NEW s, Goes(c, 1, nz, s)
  PROVE  b \o c \in Seq(Instrs) /\ Goes(b \o c, 1, nz, s)
<1> DEFINE n == Len(b)
           d == b \o c
<1>1. /\ d \in Seq(Instrs) /\ n \in Nat /\ Len(c) \in Nat /\ Len(d) = n + Len(c)
      /\ \A j \in 1 .. n : d[j] = b[j]
      /\ \A j \in n + 1 .. Len(d) : d[j] = c[j - n]
  OBVIOUS
<1>2. \A j \in 1 .. n : ~Taken(d[j], nz)
  BY <1>1, TakenFacts
<1> HIDE DEF d
<1>3. CASE s = Null /\ \A j \in 1 .. Len(c) : ~Taken(c[j], nz)
  <2>1. ASSUME NEW j \in n + 1 .. Len(d) PROVE ~Taken(d[j], nz)
    <3>1. j - n \in 1 .. Len(c)
      BY <1>1
    <3> QED BY <1>1, <1>3, <3>1
  <2>2. \A j \in 1 .. Len(d) : ~Taken(d[j], nz)
    BY <1>1, <1>2, <2>1
  <2> QED BY <1>1, <1>3, <2>2 DEF Goes, d
<1>4. CASE \E i \in 1 .. Len(c) :
             Taken(c[i], nz) /\ (\A j \in 1 .. (i - 1) : ~Taken(c[j], nz)) /\ s = Goal(c[i])
  <2>1. PICK i \in 1 .. Len(c) :
             Taken(c[i], nz) /\ (\A j \in 1 .. (i - 1) : ~Taken(c[j], nz)) /\ s = Goal(c[i])
    BY <1>4
  <2>2. n + i \in n + 1 .. Len(d) /\ (n + i) - n = i /\ n + i \in 1 .. Len(d)
    BY <1>1
  <2>3. d[n + i] = c[i]
    BY <1>1, <2>2
  <2>4. ASSUME NEW j \in 1 .. (n + i - 1), j > n PROVE ~Taken(d[j], nz)
    <3>1. j \in n + 1 .. Len(d) /\ j - n \in 1 .. (i - 1)
      BY <1>1, <2>4
    <3> QED BY <1>1, <2>1, <3>1
  <2>5. \A j \in 1 .. (n + i - 1) : ~Taken(d[j], nz)
    BY <1>1, <1>2, <2>4
  <2>6. Goes(d, 1, nz, s)
    BY <2>1, <2>2, <2>3, <2>5 DEF Goes
  <2> QED BY <1>1, <2>6 DEF d
<1> QED BY <1>3, <1>4 DEF Goes

LEMMA insertBranchIInv == IInv /\ insertBranch => IInv'
<1> SUFFICES ASSUME IInv, insertBranch PROVE IInv'
  OBVIOUS
<1> DEFINE B(t) == [op |-> "B", reg |-> Null, mbb |-> t]
           BCond == [op |-> Cond[1], reg |-> Cond[2], mbb |-> TBB]
           new == IF FBB # Null THEN <<BCond, B(FBB)>>
                  ELSE IF Cond = <<>> THEN <<B(TBB)>> ELSE <<BCond>>
<1>1. /\ at = "insert" /\ at' = "done" /\ UNCHANGED <<orig, I, TBB, FBB, Cond>>
      /\ MBB' = MBB \o new
  BY DEF insertBranch
<1>2. MBB \in Seq(Instrs) /\ \A j \in 1 .. Len(MBB) : ~isTerminator(MBB[j])
  BY <1>1 DEF IInv, Types, RebuildInv
<1>3. TBB \in Targets /\ (FBB # Null => FBB \in Targets /\ Cond # <<>>)
  BY <1>1 DEF IInv, Types, RebuildInv, DescriptionShape
<1>4. ASSUME NEW t \in Targets
      PROVE  B(t) \in Instrs /\ Goal(B(t)) = t /\ \A nz : Taken(B(t), nz)
  BY DEF Instrs, Uncond, Goal, Taken, isTerminator, isCondBranchOpcode
<1>5. ASSUME Cond # <<>>
      PROVE  BCond \in Instrs /\ Goal(BCond) = TBB
  <2>1. Cond[1] \in {"BNZ", "BZ"} /\ Cond[2] \in Regs
    BY <1>5 DEF IInv, Types
  <2> QED BY <1>3, <2>1 DEF Instrs, CondBr, Goal
<1>6. ASSUME NEW nz \in SUBSET Regs
      PROVE  new \in Seq(Instrs) /\ Goes(new, 1, nz, Described(nz))
  <2>1. CASE FBB # Null
    <3>1. new = <<BCond, B(FBB)>> /\ Cond # <<>>
      BY <1>3, <2>1
    <3>2. BCond \in Instrs /\ B(FBB) \in Instrs
      BY <1>3, <1>4, <1>5, <2>1, <3>1
    <3>3. /\ new \in Seq(Instrs) /\ Len(new) = 2
          /\ new[1] = BCond /\ new[2] = B(FBB)
      <4> HIDE DEF BCond, B, new
      <4> QED BY <3>1, <3>2
    <3>4. Described(nz) = IF Taken(BCond, nz) THEN TBB ELSE FBB
      BY <3>1 DEF Described
    <3> HIDE DEF BCond, B, new
    <3>5. Goal(new[1]) = TBB /\ Goal(new[2]) = FBB /\ Taken(new[2], nz)
      BY <1>3, <1>4, <1>5, <2>1, <3>1, <3>3
    <3>6. CASE Taken(BCond, nz)
      <4>1. 1 \in 1 .. Len(new) /\ Taken(new[1], nz)
        BY <3>3, <3>6
      <4>2. Goes(new, 1, nz, Goal(new[1]))
        BY <3>3, <4>1, GoesTaken
      <4> QED BY <3>3, <3>4, <3>5, <3>6, <4>2
    <3>7. CASE ~Taken(BCond, nz)
      <4>1. Goes(new, 2, nz, FBB)
        BY <3>3, <3>5, GoesTaken
      <4>2. Goes(new, 1, nz, FBB)
        BY <3>3, <3>7, <4>1, GoesStep
      <4> QED BY <3>3, <3>4, <3>7, <4>2
    <3> QED BY <3>6, <3>7
  <2>2. CASE FBB = Null /\ Cond = <<>>
    <3>1. new = <<B(TBB)>> /\ Described(nz) = TBB
      BY <2>2 DEF Described
    <3>2. B(TBB) \in Instrs /\ Goal(B(TBB)) = TBB /\ Taken(B(TBB), nz)
      BY <1>3, <1>4
    <3> HIDE DEF B, new
    <3>3. new \in Seq(Instrs) /\ Len(new) = 1 /\ new[1] = B(TBB)
      BY <3>1, <3>2
    <3>4. Goes(new, 1, nz, Goal(new[1]))
      BY <3>2, <3>3, GoesTaken
    <3> QED BY <3>1, <3>2, <3>3, <3>4
  <2>3. CASE FBB = Null /\ Cond # <<>>
    <3>1. new = <<BCond>> /\ Described(nz) = IF Taken(BCond, nz) THEN TBB ELSE Null
      BY <2>3 DEF Described
    <3>2. BCond \in Instrs /\ Goal(BCond) = TBB
      BY <1>5, <2>3
    <3> HIDE DEF BCond, new
    <3>3. new \in Seq(Instrs) /\ Len(new) = 1 /\ new[1] = BCond
      BY <3>1, <3>2
    <3>4. CASE Taken(BCond, nz)
      <4>1. Goes(new, 1, nz, Goal(new[1]))
        BY <3>3, <3>4, GoesTaken
      <4> QED BY <3>1, <3>2, <3>3, <3>4, <4>1
    <3>5. CASE ~Taken(BCond, nz)
      <4>1. Goes(new, 1, nz, Null)
        BY <3>3, <3>5 DEF Goes
      <4> QED BY <3>1, <3>3, <3>5, <4>1
    <3> QED BY <3>4, <3>5
  <2> QED BY <2>1, <2>2, <2>3
<1> HIDE DEF new
<1>7. ASSUME NEW nz \in SUBSET Regs
      PROVE  MBB' \in Seq(Instrs) /\ Goes(MBB', 1, nz, Described(nz)')
  <2>1. Described(nz)' = Described(nz)
    BY <1>1 DEF Described
  <2> QED BY <1>1, <1>2, <1>6, <2>1, GoesBehind
<1>8. MBB' \in Seq(Instrs)
  BY <1>7
<1>9. Types' /\ DescriptionShape' /\ DescribedFrom(1)'
  BY <1>1, <1>8 DEF IInv, Types, DescriptionShape, AnalyzedInv, DescribedFrom, Described
<1> QED BY <1>1, <1>7, <1>9 DEF IInv, WalkInv, AnalyzedInv, RebuildInv

-----------------------------------------------------------------------------
(* The invariant holds throughout, for blocks of any length. *)
THEOREM WalkInvariant == Spec => []IInv
<1>1. IInv /\ [Next]_vars => IInv'
  <2> SUFFICES ASSUME IInv, [Next]_vars PROVE IInv'
    OBVIOUS
  <2>1. CASE UNCHANGED vars
    BY <2>1 DEF vars, IInv, Types, DescriptionShape, WalkInv, AnalyzedInv, RebuildInv,
         Kept, SplitAt, DescribedFrom, Described
  <2> QED
    BY <2>1, SkipDebugValueIInv, StopIInv, UnconditionalIInv, ConditionalIInv, BailOutIInv,
       CallRemoveBranchIInv, removeBranchIInv, insertBranchIInv DEF Next
<1> QED BY <1>1, InitIInv, PTL DEF Spec

(* analyzeBranch describes every block that it analyzes as it is: whatever *)
(* the registers hold, the description goes where the block goes.          *)
THEOREM AnalysisTheorem == Spec => []AnalysisIsExact
<1>1. IInv => AnalysisIsExact
  BY SuccessorIs DEF IInv, Types, AnalyzedInv, DescribedFrom, AnalysisIsExact
<1> QED BY <1>1, WalkInvariant, PTL

(* Neither the cleanup of analyzeBranch nor removeBranch followed by       *)
(* insertBranch changes where a block goes.                                *)
THEOREM SuccessorsTheorem == Spec => []SuccessorsPreserved
<1>1. IInv => SuccessorsPreserved
  <2> SUFFICES ASSUME IInv, at \notin {"remove", "insert"}, NEW nz \in SUBSET Regs
               PROVE  Successor(MBB, nz) = Successor(orig, nz)
    BY DEF SuccessorsPreserved
  <2>1. CASE at \in {"walk", "analyzed", "gaveUp"}
    <3>1. Kept /\ Types
      BY <2>1 DEF IInv, WalkInv, AnalyzedInv
    <3> QED BY <3>1, CutKeeps
  <2>2. CASE at = "done"
    <3>1. Goes(MBB, 1, nz, Described(nz)) /\ Goes(orig, 1, nz, Described(nz))
      BY <2>2 DEF IInv, RebuildInv, AnalyzedInv, DescribedFrom
    <3> QED BY <3>1, SuccessorIs DEF IInv, Types
  <2> QED BY <2>1, <2>2 DEF IInv, Types
<1> QED BY <1>1, WalkInvariant, PTL

(* The assertion "FBB should have been null." of analyzeBranch never       *)
(* fails.                                                                  *)
THEOREM AssertionTheorem == Spec => []FBBShouldBeNull
<1>1. IInv => FBBShouldBeNull
  BY DEF IInv, DescriptionShape, FBBShouldBeNull
<1> QED BY <1>1, WalkInvariant, PTL
=============================================================================
