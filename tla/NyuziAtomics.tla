---------------------------- MODULE NyuziAtomics ----------------------------
(***************************************************************************)
(* The machine code that NyuziISelLowering.cpp emits for atomic operations,*)
(* run by several hardware threads over one memory.                        *)
(*                                                                         *)
(* EmitAtomicBinary turns a pseudo instruction into one loop block:        *)
(*     LoopMBB:  load_sync Old; move Dest, Old; op New, Old, Amt;          *)
(*               [xor New, New, -1]; store_sync New; bz Success, LoopMBB   *)
(* and EmitAtomicCmpSwap into two:                                         *)
(*     Loop1MBB: load_sync Dest; setne Cmp, Dest, OldVal; bnz Cmp, ExitMBB *)
(*     Loop2MBB: store_sync Success (a copy of NewVal); bz Success,Loop1MBB*)
(*                                                                         *)
(* The pair load_sync / store_sync is the hardware's: a load_sync reserves *)
(* the word for its thread, any write to the word removes the reservations *)
(* on it, a cache eviction may remove one at any time, and a store_sync    *)
(* writes only when its thread holds the reservation.  Its source register *)
(* receives 1 if it wrote and 0 if it did not.                             *)
(***************************************************************************)
EXTENDS NyuziWord

CONSTANTS
  Threads,      \* hardware threads
  Addrs,        \* addresses of shared words
  Kinds,        \* the operations the program uses, of AllKinds
  Operands,     \* the words it uses as operands
  Interference, \* whether plain stores and evictions happen
  NoAddr        \* no reservation

AllKinds == {"ADD", "SUB", "AND", "OR", "XOR", "NAND", "SWAP", "CMP_SWAP"}

(* The pseudo instructions: amt is operand 2 of a binary one (register or  *)
(* immediate) and the new value of CMP_SWAP, cmp its expected old value.   *)
Operations == [kind : Kinds, ptr : Addrs, amt : Operands, cmp : Operands]

NoOp == [kind |-> "NONE"]      \* not an operation
NoResult == {WordBits}         \* not a word

ASSUME KindsAssumption == Kinds \subseteq AllKinds
ASSUME OperandsAssumption == Operands \subseteq Word
ASSUME InterferenceAssumption == Interference \in BOOLEAN
ASSUME NoAddrAssumption == NoAddr \notin Addrs

VARIABLES
  mem,       \* the shared memory
  resv,      \* the address each thread holds a reservation on, or NoAddr
  pc,        \* the instruction each thread executes next
  op,        \* the pseudo instruction it executes the expansion of, or NoOp
  dest,      \* its register Dest
  newv,      \* its register NewValue (NewVal for CMP_SWAP)
  success    \* its register Success

vars == <<mem, resv, pc, op, dest, newv, success>>

Labels == {"idle", "load", "alu", "cmp", "store", "bz", "exit"}

(* Memory and registers hold words, the flag of a store_sync is 0 or 1,    *)
(* and a thread is inside an expansion exactly if it has an operation.     *)
TypeOK ==
  /\ mem \in [Addrs -> Word]
  /\ resv \in [Threads -> Addrs \cup {NoAddr}]
  /\ pc \in [Threads -> Labels]
  /\ op \in [Threads -> Operations \cup {NoOp}]
  /\ \A t \in Threads : (op[t] = NoOp) = (pc[t] = "idle")
  /\ dest \in [Threads -> Word]
  /\ newv \in [Threads -> Word]
  /\ success \in [Threads -> {Zero, One}]

-----------------------------------------------------------------------------
(* The tables of EmitInstrWithCustomInserter: the ALU opcode ("0" for a    *)
(* swap) and whether the result is inverted.                               *)
Opcode(kind) ==
  CASE kind = "ADD"  -> "ADDI"
    [] kind = "SUB"  -> "SUBI"
    [] kind = "AND"  -> "AND"
    [] kind = "NAND" -> "AND"
    [] kind = "OR"   -> "OR"
    [] kind = "XOR"  -> "XOR"
    [] kind = "SWAP" -> "0"

InvertResult(kind) == kind = "NAND"

(* What the instructions between load_sync and store_sync leave in         *)
(* NewValue when the loaded word is old.                                   *)
NewValue(kind, old, amt) ==
  IF Opcode(kind) = "0" THEN amt
  ELSE LET r == ALU(Opcode(kind), old, amt)
       IN  IF InvertResult(kind) THEN XORS(r, MinusOne) ELSE r

(* The hardware: what a write to address a does to the reservations.       *)
Invalidate(a) == [t \in Threads |-> IF resv[t] = a THEN NoAddr ELSE resv[t]]

-----------------------------------------------------------------------------
Init ==
  /\ mem \in [Addrs -> Operands]
  /\ resv = [t \in Threads |-> NoAddr]
  /\ pc = [t \in Threads |-> "idle"]
  /\ op = [t \in Threads |-> NoOp]
  /\ dest = [t \in Threads |-> Zero]
  /\ newv = [t \in Threads |-> Zero]
  /\ success = [t \in Threads |-> Zero]

(* ThisMBB falls through to the loop block. *)
Begin(t, o) ==
  /\ pc[t] = "idle"
  /\ o.kind # "CMP_SWAP" => o.cmp = o.amt     \* a binary operation has no cmp
  /\ op' = [op EXCEPT ![t] = o]
  /\ pc' = [pc EXCEPT ![t] = "load"]
  /\ newv' = [newv EXCEPT ![t] = IF o.kind = "CMP_SWAP" THEN o.amt ELSE @]
  /\ UNCHANGED <<mem, resv, dest, success>>

(* LOAD_SYNC, and the MOVESS to Dest of a binary operation. *)
LoadSync(t) ==
  /\ pc[t] = "load"
  /\ dest' = [dest EXCEPT ![t] = mem[op[t].ptr]]
  /\ resv' = [resv EXCEPT ![t] = op[t].ptr]
  /\ pc' = [pc EXCEPT ![t] = IF op[t].kind = "CMP_SWAP" THEN "cmp" ELSE "alu"]
  /\ UNCHANGED <<mem, op, newv, success>>

(* Opcode and XORSSI, or the MOVESS of a swap. *)
Compute(t) ==
  /\ pc[t] = "alu"
  /\ newv' = [newv EXCEPT ![t] = NewValue(op[t].kind, dest[t], op[t].amt)]
  /\ pc' = [pc EXCEPT ![t] = "store"]
  /\ UNCHANGED <<mem, resv, op, dest, success>>

(* SNESISS and BNZ: leave when the word is not the expected one. *)
CompareOld(t) ==
  /\ pc[t] = "cmp"
  /\ pc' = [pc EXCEPT ![t] = IF dest[t] # op[t].cmp THEN "exit" ELSE "store"]
  /\ UNCHANGED <<mem, resv, op, dest, newv, success>>

(* Mutant: the two-address copy of NewVal is missing, so that a failed     *)
(* store_sync leaves its 0 in the register the retry stores.               *)
StoreSyncClobbersNewVal(t) ==
  /\ pc[t] = "store"
  /\ LET holds == resv[t] = op[t].ptr
         flag == IF holds THEN One ELSE Zero
     IN  /\ success' = [success EXCEPT ![t] = flag]
         /\ newv' = [newv EXCEPT ![t] = flag]
         /\ IF holds
            THEN /\ mem' = [mem EXCEPT ![op[t].ptr] = newv[t]]
                 /\ resv' = Invalidate(op[t].ptr)
            ELSE UNCHANGED <<mem, resv>>
  /\ pc' = [pc EXCEPT ![t] = "bz"]
  /\ UNCHANGED <<op, dest>>

(* Mutant: the flag is not written back, so that Success, in the register  *)
(* of the source, is the value to be stored.                               *)
StoreSyncStaleSuccess(t) ==
  /\ pc[t] = "store"
  /\ success' = [success EXCEPT ![t] = newv[t]]
  /\ IF resv[t] = op[t].ptr
     THEN /\ mem' = [mem EXCEPT ![op[t].ptr] = newv[t]]
          /\ resv' = Invalidate(op[t].ptr)
     ELSE UNCHANGED <<mem, resv>>
  /\ pc' = [pc EXCEPT ![t] = "bz"]
  /\ UNCHANGED <<op, dest, newv>>

(* STORE_SYNC.  The constraint $result = $srcDest ties Success to the      *)
(* source register: NewValue of a binary operation is dead afterwards and  *)
(* shares the register, NewVal of CMP_SWAP is live and has been copied.    *)
StoreSync(t) ==
  /\ pc[t] = "store"
  /\ LET holds == resv[t] = op[t].ptr
         flag == IF holds THEN One ELSE Zero
     IN  /\ success' = [success EXCEPT ![t] = flag]
         /\ newv' = [newv EXCEPT ![t] =
                       IF op[t].kind = "CMP_SWAP" THEN @ ELSE flag]
         /\ IF holds
            THEN /\ mem' = [mem EXCEPT ![op[t].ptr] = newv[t]]
                 /\ resv' = Invalidate(op[t].ptr)
            ELSE UNCHANGED <<mem, resv>>
  /\ pc' = [pc EXCEPT ![t] = "bz"]
  /\ UNCHANGED <<op, dest>>

(* Mutants: the retry branches behind the load_sync; no retry at all. *)
BranchZeroPastLoad(t) ==
  /\ pc[t] = "bz"
  /\ pc' = [pc EXCEPT ![t] =
              IF success[t] # Zero THEN "exit"
              ELSE IF op[t].kind = "CMP_SWAP" THEN "cmp" ELSE "alu"]
  /\ UNCHANGED <<mem, resv, op, dest, newv, success>>

BranchZeroNoRetry(t) ==
  /\ pc[t] = "bz"
  /\ pc' = [pc EXCEPT ![t] = "exit"]
  /\ UNCHANGED <<mem, resv, op, dest, newv, success>>

(* BZ Success: back to the load_sync when the store_sync did not write. *)
BranchZero(t) ==
  /\ pc[t] = "bz"
  /\ pc' = [pc EXCEPT ![t] = IF success[t] = Zero THEN "load" ELSE "exit"]
  /\ UNCHANGED <<mem, resv, op, dest, newv, success>>

(* ExitMBB: the program uses Dest.  The dead registers are not tracked. *)
Exit(t) ==
  /\ pc[t] = "exit"
  /\ pc' = [pc EXCEPT ![t] = "idle"]
  /\ op' = [op EXCEPT ![t] = NoOp]
  /\ dest' = [dest EXCEPT ![t] = Zero]
  /\ newv' = [newv EXCEPT ![t] = Zero]
  /\ success' = [success EXCEPT ![t] = Zero]
  /\ UNCHANGED <<mem, resv>>

(* Interference from outside the expansions: a plain store (SW), and the   *)
(* eviction of a reserved cache line.                                      *)
PlainStore(a, v) ==
  /\ Interference
  /\ mem' = [mem EXCEPT ![a] = v]
  /\ resv' = Invalidate(a)
  /\ UNCHANGED <<pc, op, dest, newv, success>>

Evict(t) ==
  /\ Interference
  /\ resv[t] # NoAddr
  /\ resv' = [resv EXCEPT ![t] = NoAddr]
  /\ UNCHANGED <<mem, pc, op, dest, newv, success>>

Step(t) ==
  \/ LoadSync(t) \/ Compute(t) \/ CompareOld(t)
  \/ StoreSync(t) \/ BranchZero(t) \/ Exit(t)

Next ==
  \/ \E t \in Threads :
       \/ \E o \in Operations : Begin(t, o)
       \/ Step(t)
       \/ Evict(t)
  \/ \E a \in Addrs, v \in Operands : PlainStore(a, v)

Spec == Init /\ [][Next]_vars

(* Every hardware thread keeps executing the instructions of an expansion  *)
(* it has begun; it need not begin another one.                            *)
FairSpec == Spec /\ \A t \in Threads : WF_vars(Step(t))

-----------------------------------------------------------------------------
(* What the LLVM language reference says an operation leaves in memory.    *)
Effect(o, v) ==
  CASE o.kind = "ADD"  -> ADDI(v, o.amt)
    [] o.kind = "SUB"  -> SUBI(v, o.amt)
    [] o.kind = "AND"  -> v \cap o.amt
    [] o.kind = "OR"   -> v \cup o.amt
    [] o.kind = "XOR"  -> XORS(v, o.amt)
    [] o.kind = "NAND" -> Bits \ (v \cap o.amt)
    [] o.kind = "SWAP" -> o.amt
    [] o.kind = "CMP_SWAP" -> IF v = o.cmp THEN o.amt ELSE v

(* A thread that still holds its reservation has an up-to-date view of the *)
(* word: Dest is what the memory holds, and what its store_sync is about   *)
(* to write is the operation's effect on what the memory holds.            *)
ReservedStoreIsCurrent ==
  \A t \in Threads :
    /\ pc[t] \in {"alu", "cmp", "store"} /\ resv[t] = op[t].ptr
         => dest[t] = mem[op[t].ptr]
    /\ pc[t] = "store" => newv[t] = Effect(op[t], dest[t])

(* No update is lost: a step of an expansion changes memory only at the    *)
(* operation's word, and to the operation's effect on the value that the   *)
(* word holds at that moment, whatever other threads did since the         *)
(* load_sync.                                                              *)
NoLostUpdate ==
  [][\A t \in Threads :
       Step(t) /\ mem' # mem =>
         mem' = [mem EXCEPT ![op[t].ptr] = Effect(op[t], mem[op[t].ptr])]]_vars

(* The operation of thread t has taken effect: its store_sync wrote, or    *)
(* its compare-and-swap loaded a word other than the expected one.         *)
TookEffect(t) ==
  \/ pc[t] = "exit"
  \/ pc[t] = "bz" /\ success[t] # Zero
  \/ pc[t] = "cmp" /\ dest[t] # op[t].cmp

Abstract == INSTANCE AtomicMemory WITH
  request <- op,
  result <- [t \in Threads |-> IF TookEffect(t) THEN dest[t] ELSE NoResult]

(* The expansions are linearizable: with several threads in their retry    *)
(* loops at once, every operation still takes effect exactly once, in one  *)
(* step, and Dest is the value it replaced (or failed to match).           *)
ImplementsAtomicMemory == Abstract!Spec

(* The retry loops cannot livelock one another: while a thread is inside   *)
(* an expansion, some thread completes one.  A single thread may starve.   *)
LockFree == (\E t \in Threads : pc[t] # "idle") ~> (\E t \in Threads : pc[t] = "exit")
=============================================================================
