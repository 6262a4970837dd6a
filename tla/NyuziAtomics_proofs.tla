------------------------ MODULE NyuziAtomics_proofs ------------------------
(***************************************************************************)
(* Proofs about NyuziAtomics, for any number of threads and addresses, any *)
(* word width and any set of operands.                                     *)
(***************************************************************************)
EXTENDS NyuziAtomics, TLAPS

(* Which expansion a thread is in, and what its registers hold on the way  *)
(* to the store_sync.                                                      *)
ExpansionShape ==
  \A t \in Threads :
    /\ pc[t] = "alu" => op[t].kind # "CMP_SWAP"
    /\ pc[t] = "cmp" => op[t].kind = "CMP_SWAP"
    /\ pc[t] # "idle" /\ op[t].kind = "CMP_SWAP" => newv[t] = op[t].amt
    /\ pc[t] = "store" /\ op[t].kind = "CMP_SWAP" => dest[t] = op[t].cmp

(* The inductive invariant. *)
IInv == TypeOK /\ ExpansionShape /\ ReservedStoreIsCurrent

(* The ALU instructions map words to words. *)
LEMMA ALUType ==
  ASSUME NEW a \in Word, NEW b \in Word
  PROVE  /\ ADDI(a, b) \in Word
         /\ SUBI(a, b) \in Word
         /\ ANDS(a, b) \in Word
         /\ ORS(a, b) \in Word
         /\ XORS(a, b) \in Word
  BY DEF Word, ADDI, SUBI, ANDS, ORS, XORS, FromNat

(* The emitted instructions compute the effect of a binary operation; the  *)
(* xor with -1 makes a NAND of the AND.                                    *)
LEMMA NewValueIsEffect ==
  ASSUME NEW o \in Operations, o.kind # "CMP_SWAP", NEW v \in Word
  PROVE  NewValue(o.kind, v, o.amt) = Effect(o, v)
<1>1. o.kind \in AllKinds /\ o.amt \in Word
  BY KindsAssumption, OperandsAssumption DEF Operations
<1>2. XORS(v \cap o.amt, Bits) = Bits \ (v \cap o.amt)
  BY <1>1 DEF XORS, Word
<1> HIDE DEF XORS
<1>3. QED
  BY <1>1, <1>2
  DEF AllKinds, NewValue, Effect, Opcode, InvertResult, ALU, MinusOne, ANDS, ORS

(* An operation leaves a word in memory. *)
LEMMA EffectType ==
  ASSUME NEW o \in Operations, NEW v \in Word
  PROVE  Effect(o, v) \in Word
<1>1. o.kind \in AllKinds /\ o.amt \in Word
  BY KindsAssumption, OperandsAssumption DEF Operations
<1>2. /\ ADDI(v, o.amt) \in Word
      /\ SUBI(v, o.amt) \in Word
      /\ v \cap o.amt \in Word
      /\ v \cup o.amt \in Word
      /\ XORS(v, o.amt) \in Word
  BY <1>1, ALUType DEF ANDS, ORS
<1>3. Bits \ (v \cap o.amt) \in Word
  BY DEF Word
<1>4. QED
  BY <1>1, <1>2, <1>3 DEF AllKinds, Effect

(* What the other lemmas need of the constants. *)
LEMMA Distinct ==
  /\ NoOp \notin Operations
  /\ NoResult \notin Word
  /\ Zero # One
  /\ Zero \in Word /\ One \in Word
<1>1. NoOp \notin Operations
  <2>1. "NONE" \notin Kinds
    BY KindsAssumption DEF AllKinds
  <2>2. QED
    BY <2>1 DEF NoOp, Operations
<1>2. NoResult \notin Word
  BY WordBitsAssumption DEF NoResult, Word, Bits
<1>3. Zero # One /\ Zero \in Word /\ One \in Word
  BY WordBitsAssumption DEF Zero, One, Word, Bits
<1>4. QED
  BY <1>1, <1>2, <1>3

(* The invariant holds before any operation. *)
LEMMA InitInv == Init => IInv
<1> SUFFICES ASSUME Init PROVE IInv
  OBVIOUS
<1>1. TypeOK
  BY OperandsAssumption, Distinct DEF Init, TypeOK, Labels
<1>2. QED
  BY <1>1 DEF Init, IInv, ExpansionShape, ReservedStoreIsCurrent

(* Every step of the specification preserves the inductive invariant. *)
LEMMA StepInv == IInv /\ [Next]_vars => IInv'
<1> SUFFICES ASSUME IInv, [Next]_vars PROVE IInv'
  OBVIOUS
<1> USE Distinct
<1>a. TypeOK /\ ExpansionShape /\ ReservedStoreIsCurrent
  BY DEF IInv
<1>b. \A t \in Threads : pc[t] # "idle" =>
         op[t] \in Operations /\ op[t].ptr \in Addrs
         /\ op[t].amt \in Word /\ op[t].cmp \in Word
  BY <1>a, OperandsAssumption DEF TypeOK, Operations
<1>c. ASSUME UNCHANGED vars PROVE IInv'
  BY <1>a, <1>c DEF vars, IInv, TypeOK, ExpansionShape, ReservedStoreIsCurrent
<1>d. ASSUME NEW t \in Threads, NEW o \in Operations, Begin(t, o) PROVE IInv'
  <2>1. o.amt \in Word
    BY OperandsAssumption DEF Operations
  <2>2. TypeOK'
    BY <1>a, <1>d, <2>1 DEF TypeOK, Begin, Labels
  <2>3. ExpansionShape'
    BY <1>a, <1>d DEF TypeOK, Begin, ExpansionShape
  <2>4. ReservedStoreIsCurrent'
    BY <1>a, <1>d DEF TypeOK, Begin, ReservedStoreIsCurrent
  <2>5. QED
    BY <2>2, <2>3, <2>4 DEF IInv
<1>e. ASSUME NEW t \in Threads, LoadSync(t) PROVE IInv'
  <2>1. TypeOK'
    BY <1>a, <1>b, <1>e DEF TypeOK, LoadSync, Labels
  <2>2. ExpansionShape'
    BY <1>a, <1>e DEF TypeOK, LoadSync, ExpansionShape
  <2>3. ReservedStoreIsCurrent'
    BY <1>a, <1>e DEF TypeOK, LoadSync, ReservedStoreIsCurrent
  <2>4. QED
    BY <2>1, <2>2, <2>3 DEF IInv
<1>f. ASSUME NEW t \in Threads, Compute(t) PROVE IInv'
  <2>1. op[t].kind # "CMP_SWAP" /\ op[t] \in Operations /\ dest[t] \in Word
    BY <1>a, <1>b, <1>f DEF Compute, ExpansionShape, TypeOK
  <2>2. NewValue(op[t].kind, dest[t], op[t].amt) = Effect(op[t], dest[t])
    BY <2>1, NewValueIsEffect
  <2>3. Effect(op[t], dest[t]) \in Word
    BY <2>1, EffectType
  <2>4. TypeOK'
    BY <1>a, <1>f, <2>2, <2>3 DEF TypeOK, Compute, Labels
  <2>5. ExpansionShape'
    BY <1>a, <1>f, <2>1 DEF TypeOK, Compute, ExpansionShape
  <2>6. ReservedStoreIsCurrent'
    BY <1>a, <1>f, <2>2 DEF TypeOK, Compute, ReservedStoreIsCurrent
  <2>7. QED
    BY <2>4, <2>5, <2>6 DEF IInv
<1>g. ASSUME NEW t \in Threads, CompareOld(t) PROVE IInv'
  <2>1. /\ op[t].kind = "CMP_SWAP" /\ newv[t] = op[t].amt
        /\ op[t].cmp = dest[t] => Effect(op[t], dest[t]) = newv[t]
    BY <1>a, <1>g DEF CompareOld, ExpansionShape, Effect
  <2>2. TypeOK'
    BY <1>a, <1>g DEF TypeOK, CompareOld, Labels
  <2>3. ExpansionShape'
    BY <1>a, <1>g DEF TypeOK, CompareOld, ExpansionShape
  <2>4. ReservedStoreIsCurrent'
    BY <1>a, <1>g, <2>1 DEF TypeOK, CompareOld, ReservedStoreIsCurrent
  <2>5. QED
    BY <2>2, <2>3, <2>4 DEF IInv
<1>h. ASSUME NEW t \in Threads, StoreSync(t) PROVE IInv'
  <2>1. TypeOK'
    BY <1>a, <1>b, <1>h DEF TypeOK, StoreSync, Labels, Invalidate
  <2>2. ExpansionShape'
    BY <1>a, <1>h DEF TypeOK, StoreSync, ExpansionShape
  <2>3. ReservedStoreIsCurrent'
    <3>1. ASSUME NEW u \in Threads, pc'[u] \in {"alu", "cmp", "store"},
                 resv'[u] = op'[u].ptr
          PROVE  dest'[u] = mem'[op'[u].ptr]
      <4>1. u # t /\ pc[u] = pc'[u] /\ op'[u] = op[u] /\ dest'[u] = dest[u]
        BY <1>a, <1>h, <3>1 DEF TypeOK, StoreSync
      <4>2. op[u].ptr \in Addrs /\ op[t].ptr \in Addrs
        BY <1>b, <1>h, <3>1, <4>1 DEF StoreSync
      <4>3. CASE resv[t] = op[t].ptr
        <5>1. resv'[u] = IF resv[u] = op[t].ptr THEN NoAddr ELSE resv[u]
          BY <1>h, <4>3 DEF StoreSync, Invalidate
        <5>2. resv[u] = op[u].ptr /\ op[u].ptr # op[t].ptr
          BY <5>1, <3>1, <4>1, <4>2, NoAddrAssumption
        <5>3. mem'[op[u].ptr] = mem[op[u].ptr]
          BY <1>a, <1>h, <4>2, <4>3, <5>2 DEF StoreSync, TypeOK
        <5>4. QED
          BY <1>a, <3>1, <4>1, <5>2, <5>3 DEF ReservedStoreIsCurrent
      <4>4. CASE resv[t] # op[t].ptr
        BY <1>a, <1>h, <3>1, <4>1, <4>4 DEF StoreSync, ReservedStoreIsCurrent
      <4>5. QED
        BY <4>3, <4>4
    <3>2. ASSUME NEW u \in Threads, pc'[u] = "store"
          PROVE  newv'[u] = Effect(op'[u], dest'[u])
      BY <1>a, <1>h, <3>2 DEF TypeOK, StoreSync, ReservedStoreIsCurrent
    <3>3. QED
      BY <3>1, <3>2 DEF ReservedStoreIsCurrent
  <2>4. QED
    BY <2>1, <2>2, <2>3 DEF IInv
<1>i. ASSUME NEW t \in Threads, BranchZero(t) PROVE IInv'
  <2>1. TypeOK'
    BY <1>a, <1>i DEF TypeOK, BranchZero, Labels
  <2>2. ExpansionShape' /\ ReservedStoreIsCurrent'
    BY <1>a, <1>i DEF TypeOK, BranchZero, ExpansionShape, ReservedStoreIsCurrent
  <2>3. QED
    BY <2>1, <2>2 DEF IInv
<1>j. ASSUME NEW t \in Threads, Exit(t) PROVE IInv'
  <2>1. TypeOK'
    BY <1>a, <1>j DEF TypeOK, Exit, Labels
  <2>2. ExpansionShape' /\ ReservedStoreIsCurrent'
    BY <1>a, <1>j DEF TypeOK, Exit, ExpansionShape, ReservedStoreIsCurrent
  <2>3. QED
    BY <2>1, <2>2 DEF IInv
<1>k. ASSUME NEW a \in Addrs, NEW v \in Operands, PlainStore(a, v) PROVE IInv'
  <2>1. TypeOK'
    BY <1>a, <1>k, OperandsAssumption DEF TypeOK, PlainStore, Invalidate
  <2>2. ExpansionShape'
    BY <1>a, <1>k DEF PlainStore, ExpansionShape
  <2>3. ASSUME NEW u \in Threads, pc'[u] \in {"alu", "cmp", "store"},
               resv'[u] = op'[u].ptr
        PROVE  dest'[u] = mem'[op'[u].ptr]
    <3>1. pc'[u] = pc[u] /\ op'[u] = op[u] /\ dest'[u] = dest[u]
      BY <1>k DEF PlainStore
    <3>2. op[u].ptr \in Addrs
      BY <1>b, <2>3, <3>1
    <3>3. resv'[u] = IF resv[u] = a THEN NoAddr ELSE resv[u]
      BY <1>k DEF PlainStore, Invalidate
    <3>4. resv[u] = op[u].ptr /\ op[u].ptr # a
      BY <2>3, <3>1, <3>2, <3>3, NoAddrAssumption
    <3>5. mem'[op[u].ptr] = mem[op[u].ptr]
      BY <1>a, <1>k, <3>2, <3>4 DEF PlainStore, TypeOK
    <3>6. QED
      BY <1>a, <2>3, <3>1, <3>4, <3>5 DEF ReservedStoreIsCurrent
  <2>4. ASSUME NEW u \in Threads, pc'[u] = "store"
        PROVE  newv'[u] = Effect(op'[u], dest'[u])
    BY <1>a, <1>k, <2>4 DEF PlainStore, ReservedStoreIsCurrent
  <2>5. QED
    BY <2>1, <2>2, <2>3, <2>4 DEF IInv, ReservedStoreIsCurrent
<1>l. ASSUME NEW t \in Threads, Evict(t) PROVE IInv'
  <2>1. TypeOK'
    BY <1>a, <1>l DEF TypeOK, Evict
  <2>2. ExpansionShape'
    BY <1>a, <1>l DEF Evict, ExpansionShape
  <2>3. \A u \in Threads : resv'[u] = resv[u] \/ resv'[u] = NoAddr
    BY <1>a, <1>l DEF Evict, TypeOK
  <2>4. ReservedStoreIsCurrent'
    BY <1>a, <1>b, <1>l, <2>3, NoAddrAssumption DEF Evict, ReservedStoreIsCurrent
  <2>5. QED
    BY <2>1, <2>2, <2>4 DEF IInv
<1>m. QED
  BY <1>c, <1>d, <1>e, <1>f, <1>g, <1>h, <1>i, <1>j, <1>k, <1>l DEF Next, Step

(* Every reachable state satisfies the inductive invariant. *)
THEOREM Invariant == Spec => []IInv
  BY InitInv, StepInv, PTL DEF Spec

(* The type invariant: registers, memory and reservations keep their       *)
(* types, and a thread has an operation exactly while it is not idle.      *)
THEOREM TypeCorrect == Spec => []TypeOK
<1>1. IInv => TypeOK
  BY DEF IInv
<1>2. QED
  BY <1>1, Invariant, PTL

(* A thread that holds its reservation at its store_sync writes the        *)
(* operation's effect on what the memory holds, in every reachable state.  *)
THEOREM ReservationTheorem == Spec => []ReservedStoreIsCurrent
<1>1. IInv => ReservedStoreIsCurrent
  BY DEF IInv
<1>2. QED
  BY <1>1, Invariant, PTL

(* A store_sync that writes, writes the operation's effect on the current  *)
(* value of the word.                                                      *)
LEMMA StoreWritesEffect ==
  ASSUME IInv, NEW t \in Threads, StoreSync(t), resv[t] = op[t].ptr
  PROVE  /\ mem' = [mem EXCEPT ![op[t].ptr] = Effect(op[t], mem[op[t].ptr])]
         /\ dest[t] = mem[op[t].ptr]
  BY DEF IInv, ReservedStoreIsCurrent, StoreSync

(* No update of one thread is lost under an operation of another one.      *)
THEOREM NoLostUpdateTheorem == Spec => NoLostUpdate
<1>1. ASSUME IInv, [Next]_vars
      PROVE  [\A t \in Threads :
                Step(t) /\ mem' # mem =>
                  mem' = [mem EXCEPT ![op[t].ptr] =
                            Effect(op[t], mem[op[t].ptr])]]_vars
  <2> SUFFICES ASSUME NEW t \in Threads, Step(t), mem' # mem
               PROVE  mem' = [mem EXCEPT ![op[t].ptr] =
                                Effect(op[t], mem[op[t].ptr])]
    OBVIOUS
  <2>1. StoreSync(t) /\ resv[t] = op[t].ptr
    BY DEF Step, LoadSync, Compute, CompareOld, StoreSync, BranchZero, Exit
  <2>2. QED
    BY <1>1, <2>1, StoreWritesEffect
<1>2. QED
  BY <1>1, Invariant, PTL DEF Spec, NoLostUpdate

-----------------------------------------------------------------------------
(* The refinement: a step of one thread changes only that thread's result. *)
Result == [t \in Threads |-> IF TookEffect(t) THEN dest[t] ELSE NoResult]

(* The results of the threads whose registers a step leaves alone. *)
LEMMA ResultFrame ==
  ASSUME NEW t \in Threads, TypeOK,
         \A u \in Threads \ {t} : /\ pc'[u] = pc[u] /\ op'[u] = op[u]
                                  /\ dest'[u] = dest[u] /\ success'[u] = success[u]
  PROVE  Result' = [Result EXCEPT ![t] =
                      IF TookEffect(t)' THEN dest'[t] ELSE NoResult]
<1>1. \A u \in Threads \ {t} : TookEffect(u)' = TookEffect(u) /\ dest'[u] = dest[u]
  BY DEF TookEffect
<1> HIDE DEF TookEffect
<1> QED BY <1>1 DEF Result

(* A step that leaves one thread's result as it was leaves them all.       *)
LEMMA ResultSame ==
  ASSUME NEW t \in Threads,
         Result' = [Result EXCEPT ![t] = Result[t]]
  PROVE  Result' = Result
  BY DEF Result

(* Initially no operation is under way. *)
LEMMA RefinementInit == Init => Abstract!Init
  BY OperandsAssumption DEF Init, Abstract!Init, TookEffect

(* Every step of the expansions is a step of the abstract memory or leaves *)
(* it unchanged.                                                           *)
LEMMA RefinementStep == IInv /\ [Next]_vars => [Abstract!Next]_Abstract!vars
<1> SUFFICES ASSUME IInv, [Next]_vars PROVE [Abstract!Next]_Abstract!vars
  OBVIOUS
<1> USE Distinct
<1>a. TypeOK /\ ExpansionShape /\ ReservedStoreIsCurrent
  BY DEF IInv
<1>b. \A t \in Threads : pc[t] # "idle" =>
         op[t] \in Operations /\ op[t] # NoOp /\ op[t].ptr \in Addrs
  BY <1>a DEF TypeOK, Operations
<1>c. ASSUME UNCHANGED <<mem, op>>, Result' = Result
      PROVE  UNCHANGED Abstract!vars
  BY <1>c DEF Abstract!vars, Result
<1>d. ASSUME UNCHANGED vars PROVE UNCHANGED Abstract!vars
  BY <1>d, <1>c DEF vars, Result, TookEffect
<1>e. ASSUME NEW t \in Threads, NEW o \in Operations, Begin(t, o)
      PROVE  Abstract!Next
  <2>1. Result' = Result
    BY <1>a, <1>e DEF Begin, Result, TookEffect, TypeOK
  <2>2. op[t] = NoOp
    BY <1>a, <1>e DEF Begin, TypeOK
  <2>3. Abstract!Invoke(t, o)
    BY <1>e, <2>1, <2>2 DEF Abstract!Invoke, Begin, Result
  <2>4. QED
    BY <2>3 DEF Abstract!Next
<1>f. ASSUME NEW t \in Threads, LoadSync(t)
      PROVE  Abstract!Next \/ UNCHANGED Abstract!vars
  <2>1. Result' = [Result EXCEPT ![t] =
                     IF TookEffect(t)' THEN dest'[t] ELSE NoResult]
    BY <1>a, <1>f, ResultFrame DEF LoadSync, TypeOK
  <2>2. Result[t] = NoResult /\ dest'[t] = mem[op[t].ptr] /\ op' = op /\ mem' = mem
    BY <1>a, <1>f DEF LoadSync, Result, TookEffect, TypeOK
  <2>3. CASE op[t].kind = "CMP_SWAP" /\ mem[op[t].ptr] # op[t].cmp
    <3>1. TookEffect(t)'
      BY <1>a, <1>f, <2>2, <2>3 DEF LoadSync, TookEffect, TypeOK
    <3>2. Effect(op[t], mem[op[t].ptr]) = mem[op[t].ptr]
      BY <2>3 DEF Effect
    <3>3. mem' = [mem EXCEPT ![op[t].ptr] = Effect(op[t], mem[op[t].ptr])]
      BY <1>a, <2>2, <3>2 DEF TypeOK
    <3>4. op[t] # NoOp
      BY <1>b, <1>f DEF LoadSync
    <3>5. Abstract!Perform(t)
      BY <2>1, <2>2, <3>1, <3>3, <3>4 DEF Abstract!Perform, Result
    <3>6. QED
      BY <3>5 DEF Abstract!Next
  <2>4. CASE ~(op[t].kind = "CMP_SWAP" /\ mem[op[t].ptr] # op[t].cmp)
    <3>1. ~TookEffect(t)'
      BY <1>a, <1>f, <2>2, <2>4 DEF LoadSync, TookEffect, TypeOK
    <3>2. Result' = Result
      BY <2>1, <2>2, <3>1, ResultSame
    <3>3. QED
      BY <1>c, <2>2, <3>2
  <2>5. QED
    BY <2>3, <2>4
<1>g. ASSUME NEW t \in Threads, Compute(t) PROVE UNCHANGED Abstract!vars
  BY <1>a, <1>c, <1>g DEF Compute, Result, TookEffect, TypeOK
<1>h. ASSUME NEW t \in Threads, CompareOld(t) PROVE UNCHANGED Abstract!vars
  BY <1>a, <1>c, <1>h DEF CompareOld, Result, TookEffect, TypeOK
<1>i. ASSUME NEW t \in Threads, StoreSync(t)
      PROVE  Abstract!Next \/ UNCHANGED Abstract!vars
  <2>1. Result' = [Result EXCEPT ![t] =
                     IF TookEffect(t)' THEN dest'[t] ELSE NoResult]
    BY <1>a, <1>i, ResultFrame DEF StoreSync, TypeOK
  <2>2. Result[t] = NoResult /\ dest' = dest /\ op' = op
    BY <1>a, <1>i DEF StoreSync, Result, TookEffect, TypeOK
  <2>3. CASE resv[t] = op[t].ptr
    <3>1. TookEffect(t)'
      BY <1>a, <1>i, <2>3 DEF StoreSync, TookEffect, TypeOK
    <3>2. /\ mem' = [mem EXCEPT ![op[t].ptr] = Effect(op[t], mem[op[t].ptr])]
          /\ dest[t] = mem[op[t].ptr]
      BY <1>i, <2>3, StoreWritesEffect
    <3>3. op[t] # NoOp
      BY <1>b, <1>i DEF StoreSync
    <3>4. Abstract!Perform(t)
      BY <2>1, <2>2, <3>1, <3>2, <3>3 DEF Abstract!Perform, Result
    <3>5. QED
      BY <3>4 DEF Abstract!Next
  <2>4. CASE resv[t] # op[t].ptr
    <3>1. ~TookEffect(t)'
      BY <1>a, <1>i, <2>4 DEF StoreSync, TookEffect, TypeOK
    <3>2. Result' = Result
      BY <2>1, <2>2, <3>1, ResultSame
    <3>3. mem' = mem
      BY <1>i, <2>4 DEF StoreSync
    <3>4. QED
      BY <1>c, <2>2, <3>2, <3>3
  <2>5. QED
    BY <2>3, <2>4
<1>j. ASSUME NEW t \in Threads, BranchZero(t) PROVE UNCHANGED Abstract!vars
  BY <1>a, <1>c, <1>j DEF BranchZero, Result, TookEffect, TypeOK
<1>k. ASSUME NEW t \in Threads, Exit(t) PROVE Abstract!Next
  <2>1. Result' = [Result EXCEPT ![t] =
                     IF TookEffect(t)' THEN dest'[t] ELSE NoResult]
    BY <1>a, <1>k, ResultFrame DEF Exit, TypeOK
  <2>2. ~TookEffect(t)' /\ Result[t] = dest[t]
    BY <1>a, <1>k DEF Exit, TookEffect, TypeOK, Result
  <2>3. Result[t] # NoResult
    BY <1>a, <2>2 DEF TypeOK
  <2>4. Abstract!Respond(t)
    BY <1>k, <2>1, <2>2, <2>3 DEF Abstract!Respond, Exit, Result
  <2>5. QED
    BY <2>4 DEF Abstract!Next
<1>l. ASSUME NEW a \in Addrs, NEW v \in Operands, PlainStore(a, v)
      PROVE  Abstract!Next
  <2>1. Result' = Result
    BY <1>l DEF PlainStore, Result, TookEffect
  <2>2. Abstract!Write(a, v) /\ v \in Word
    BY <1>l, <2>1, OperandsAssumption DEF Abstract!Write, PlainStore, Result
  <2>3. QED
    BY <2>2 DEF Abstract!Next
<1>m. ASSUME NEW t \in Threads, Evict(t) PROVE UNCHANGED Abstract!vars
  BY <1>c, <1>m DEF Evict, Result, TookEffect
<1>n. QED
  BY <1>d, <1>e, <1>f, <1>g, <1>h, <1>i, <1>j, <1>k, <1>l, <1>m DEF Next, Step

(* The emitted code implements atomic operations, for any number of        *)
(* threads.                                                                *)
THEOREM Refinement == Spec => ImplementsAtomicMemory
  BY Invariant, RefinementInit, RefinementStep, PTL
  DEF Spec, ImplementsAtomicMemory, Abstract!Spec
=============================================================================
