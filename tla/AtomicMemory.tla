---------------------------- MODULE AtomicMemory ----------------------------
(***************************************************************************)
(* What atomic operations promise the program: an `atomicrmw` or `cmpxchg` *)
(* of a thread takes effect in ONE step, on the value that the memory      *)
(* holds in that step, and returns that value.  NyuziAtomics implements    *)
(* this specification.                                                     *)
(***************************************************************************)
CONSTANTS
  Threads,       \* the hardware threads
  Addrs,         \* the addresses of shared words
  Word,          \* the values of a word
  Operations,    \* the operations, records with a field ptr
  Effect(_, _),  \* Effect(o, v): what operation o leaves in a word that held v
  NoOp, NoResult

VARIABLES
  mem,       \* the memory
  request,   \* the operation each thread executes, or NoOp
  result     \* the value it returns, NoResult until it has taken effect

vars == <<mem, request, result>>

Init ==
  /\ mem \in [Addrs -> Word]
  /\ request = [t \in Threads |-> NoOp]
  /\ result = [t \in Threads |-> NoResult]

Invoke(t, o) ==
  /\ request[t] = NoOp
  /\ request' = [request EXCEPT ![t] = o]
  /\ UNCHANGED <<mem, result>>

Perform(t) ==
  /\ request[t] # NoOp
  /\ result[t] = NoResult
  /\ LET o == request[t] IN
       /\ result' = [result EXCEPT ![t] = mem[o.ptr]]
       /\ mem' = [mem EXCEPT ![o.ptr] = Effect(o, mem[o.ptr])]
  /\ UNCHANGED request

Respond(t) ==
  /\ result[t] # NoResult
  /\ request' = [request EXCEPT ![t] = NoOp]
  /\ result' = [result EXCEPT ![t] = NoResult]
  /\ UNCHANGED mem

Write(a, v) ==
  /\ mem' = [mem EXCEPT ![a] = v]
  /\ UNCHANGED <<request, result>>

Next ==
  \/ \E t \in Threads :
       \/ \E o \in Operations : Invoke(t, o)
       \/ Perform(t)
       \/ Respond(t)
  \/ \E a \in Addrs, v \in Word : Write(a, v)

Spec == Init /\ [][Next]_vars
=============================================================================
