------------------------- MODULE NyuziFrame_proofs -------------------------
(***************************************************************************)
(* Proofs about NyuziFrame, for every set of functions, every depth of     *)
(* calls, every number of dynamic allocations and every width of the       *)
(* immediates: the properties that its run checks follow from an           *)
(* invariant of every active function, relative to the registers that it   *)
(* sees, or will see again when the function it called returns.            *)
(***************************************************************************)
EXTENDS NyuziFrame, NyuziFrameIndex_proofs

-----------------------------------------------------------------------------
(* The invariant. *)
Activations ==
  [fn : Functions, pc : Labels, i : Nat, amount : Nat, entry : [Registers -> Words],
   args : Seq(Words), locals : Seq(Words \cup {-1}), allocas : Seq(Words \X Words)]

Calling == {"args", "callup"}
InBody == {"body"} \cup Calling

(* SP after the prologue of a. *)
Base(a) == a.entry.SP - StackSize(a.fn)
Saves(a) == CalleeSavedInfo(a.fn)

(* By how much ADJCALLSTACKDOWN has moved SP. *)
Pushed(a) == IF hasReservedCallFrame(a.fn) THEN 0 ELSE a.amount

(* Position and history of an active function. *)
PositionOK(a) ==
  /\ a.entry.SP % StackAlign = 0 /\ a.entry.SP >= Room
  /\ a.fn.params = Len(a.args) * ScalarSize /\ a.entry.SP + a.fn.params <= StackBase
  /\ Len(a.locals) = Len(a.fn.locals)
  /\ a.pc = "save" => a.i \in 1 .. (Len(Saves(a)) + 1)
  /\ a.pc = "restore" => a.i \in 0 .. Len(Saves(a))
  /\ a.pc \in {"entry", "save"} =>
       a.allocas = <<>> /\ \A k \in 1 .. Len(a.locals) : a.locals[k] = -1
  /\ a.fn.varSized \/ a.allocas = <<>>
  /\ Len(a.allocas) <= MaxAllocas
  /\ a.pc \in Calling =>
       a.fn.adjustsStack /\ a.amount % StackAlign = 0 /\ a.amount <= a.fn.maxCall
  /\ a.pc \notin Calling => a.amount = 0
  /\ a.pc = "args" => a.i <= a.amount

(* Its registers R, against those that it was called with. *)
RegistersOK(a, R) ==
  /\ a.pc \in {"entry", "ret"} => R = a.entry
  /\ a.pc = "save" => R = [a.entry EXCEPT !.SP = Base(a)]
  /\ a.pc \in InBody =>
       /\ R.SP = Base(a) - Len(a.allocas) * StackAlign - Pushed(a)
       /\ hasFP(a.fn) => R.FP = Base(a)
  /\ a.pc \in InBody \cup {"restore"} =>
       \A r \in ToSet(NyuziCSR) \ SavedRegs(a.fn) : R[r] = a.entry[r]
  /\ a.pc = "restore" =>
       /\ R.SP = Base(a)
       /\ \A j \in (a.i + 1) .. Len(Saves(a)) : R[Saves(a)[j]] = a.entry[Saves(a)[j]]

(* Its memory m. *)
Filled(m, addr, size, v) == \A x \in addr .. (addr + size - 1) : m[x] = v

ArgumentsOK(a, m) ==
  \A j \in 1 .. Len(a.args) :
    Filled(m, a.entry.SP + (j - 1) * ScalarSize, ScalarSize, a.args[j])

Stored(a) ==
  {j \in 1 .. Len(Saves(a)) :
     a.pc \in InBody \cup {"restore"} \/ (a.pc = "save" /\ j < a.i)}
SavesOK(a, m) ==
  \A j \in Stored(a) :
    Filled(m, Base(a) + Place(a.fn, j), SpillSize(Saves(a)[j]), a.entry[Saves(a)[j]])

LocalsOK(a, m) ==
  a.pc \in InBody => \A k \in 1 .. Len(a.locals) : a.locals[k] # -1 =>
    Filled(m, Base(a) + Place(a.fn, LocalIndex(a.fn, k)), a.fn.locals[k].size, a.locals[k])

AllocasOK(a, m) ==
  a.pc \in InBody => \A n \in 1 .. Len(a.allocas) :
    /\ a.allocas[n][1] = Base(a) - n * StackAlign
    /\ Filled(m, Base(a) - n * StackAlign, StackAlign, a.allocas[n][2])

MemoryOK(a, m) ==
  ArgumentsOK(a, m) /\ SavesOK(a, m) /\ LocalsOK(a, m) /\ AllocasOK(a, m)

(* The registers when the function it called returns. *)
Seen(n) == IF n = Len(acts) THEN regs ELSE acts[n + 1].entry

TypeInv ==
  /\ regs \in [Registers -> Words]
  /\ mem \in [Words -> Words]
  /\ acts \in Seq(Activations)
  /\ Len(acts) \in 1 .. MaxNesting

FrameInv ==
  \A n \in 1 .. Len(acts) :
    PositionOK(acts[n]) /\ RegistersOK(acts[n], Seen(n)) /\ MemoryOK(acts[n], mem)

(* Frames lie below each other, within the stack. *)
StackInv ==
  /\ \A n \in 1 .. Len(acts) : acts[n].entry.SP >= (MaxNesting + 1 - n) * Room
  /\ \A n \in 1 .. (Len(acts) - 1) : acts[n].pc = "callup"
  /\ acts[Len(acts)].pc = "args" => Len(acts) < MaxNesting
  /\ \A m, n \in 1 .. Len(acts) : m <= n => acts[n].entry.SP <= acts[m].entry.SP

IInv == TypeInv /\ FrameInv /\ StackInv /\ NothingBelowSP

-----------------------------------------------------------------------------
(* Memory. *)
LEMMA WordsFacts ==
  /\ WordSize \in Nat \ {0} /\ Words = 0 .. (WordSize - 1)
  /\ StackBase \in Nat /\ StackBase < WordSize /\ StackBase \in Words
  /\ 0 \in Words
BY WordFacts, StackBaseAssumption DEF Words, WordSize

LEMMA MulMono ==
  ASSUME NEW a \in Int, NEW b \in Int, NEW d \in Nat, a <= b
  PROVE  a * d <= b * d
<1>1. (b - a) * d >= 0
  OBVIOUS
<1>2. (b - a) * d = b * d - a * d
  OBVIOUS
<1> QED BY <1>1, <1>2

LEMMA BlockIs ==
  ASSUME NEW addr \in Nat, NEW size \in Nat, addr + size <= WordSize
  PROVE  Block(addr, size) = addr .. (addr + size - 1)
<1>1. \A k \in 0 .. (size - 1) : Wrap(addr + k) = addr + k
  <2> TAKE k \in 0 .. (size - 1)
  <2>1. addr + k \in 0 .. (WordSize - 1) /\ addr + k \in Int
    BY WordFacts
  <2> QED BY <2>1, WrapFacts
<1>2. \A x \in addr .. (addr + size - 1) : x - addr \in 0 .. (size - 1) /\ addr + (x - addr) = x
  OBVIOUS
<1>3. \A k \in 0 .. (size - 1) : addr + k \in addr .. (addr + size - 1)
  OBVIOUS
<1> QED BY <1>1, <1>2, <1>3 DEF Block

LEMMA StoreIs ==
  ASSUME TypeInv, NEW addr \in Nat, NEW size \in Nat, addr + size <= WordSize, NEW v \in Words
  PROVE  /\ Store(addr, size, v) \in [Words -> Words]
         /\ Filled(Store(addr, size, v), addr, size, v)
         /\ \A x \in Words : x < addr \/ addr + size <= x => Store(addr, size, v)[x] = mem[x]
<1>1. Block(addr, size) = addr .. (addr + size - 1)
  BY BlockIs
<1>2. Store(addr, size, v) =
        [x \in Words |-> IF x \in addr .. (addr + size - 1) THEN v ELSE mem[x]]
  BY <1>1 DEF Store
<1>3. \A x \in addr .. (addr + size - 1) : x \in Words
  BY WordsFacts
<1>4. \A x \in Words : x \in Int /\ (x < addr \/ addr + size <= x => x \notin addr .. (addr + size - 1))
  BY WordsFacts
<1>5. mem \in [Words -> Words]
  BY DEF TypeInv
<1> QED BY <1>2, <1>3, <1>4, <1>5 DEF Filled

LEMMA FilledAgree ==
  ASSUME NEW m, NEW m2, NEW addr \in Nat, NEW size \in Nat, NEW v, NEW lo \in Int,
         addr + size <= WordSize, lo <= addr,
         \A x \in Words : lo <= x => m2[x] = m[x],
         Filled(m, addr, size, v)
  PROVE  Filled(m2, addr, size, v)
<1>1. \A x \in addr .. (addr + size - 1) : x \in Words /\ lo <= x
  BY WordsFacts
<1> QED BY <1>1 DEF Filled

(* A write to one block leaves another. *)
LEMMA FilledApart ==
  ASSUME TypeInv, NEW a \in Nat, NEW n \in Nat, NEW v \in Words, a + n <= WordSize,
         NEW b \in Nat, NEW k \in Nat, NEW w, b + k <= WordSize,
         a + n <= b \/ b + k <= a,
         Filled(mem, b, k, w)
  PROVE  Filled(Store(a, n, v), b, k, w)
<1>1. \A x \in b .. (b + k - 1) : x \in Words /\ (x < a \/ a + n <= x)
  BY WordsFacts
<1>2. \A x \in Words : x < a \/ a + n <= x => Store(a, n, v)[x] = mem[x]
  BY StoreIs
<1> QED BY <1>1, <1>2 DEF Filled

-----------------------------------------------------------------------------
(* Where the frame of an activation lies. *)
LEMMA RoomFacts ==
  /\ Room \in Nat /\ MaxNesting \in Nat \ {0} /\ MaxNesting * Room <= StackBase
  /\ MaxAllocas \in Nat /\ StackAlign \in Nat \ {0} /\ MaxAllocas * StackAlign \in Nat
<1>1. MaxNesting \in Nat \ {0} /\ MaxAllocas \in Nat /\ StackAlign \in Nat \ {0} /\ StackBase \in Nat
  BY BoundsAssumption, SizesAssumption, WordsFacts
<1>2. /\ Room \in Int /\ StackBase % MaxNesting \in 0 .. (MaxNesting - 1)
      /\ StackBase = MaxNesting * Room + (StackBase % MaxNesting)
  BY <1>1, DivMod DEF Room
<1>3. MaxNesting * Room <= StackBase
  BY <1>1, <1>2
<1>4. Room >= 0
  <2> SUFFICES ASSUME Room <= -1 PROVE FALSE
    BY <1>2
  <2>1. MaxNesting * Room <= -MaxNesting
    BY <1>1, <1>2
  <2> QED BY <1>1, <1>2, <2>1
<1>5. MaxAllocas * StackAlign \in Nat
  BY <1>1
<1> QED BY <1>1, <1>2, <1>3, <1>4, <1>5

LEMMA Bounds ==
  ASSUME NEW a \in Activations, PositionOK(a)
  PROVE  /\ a.fn \in Functions
         /\ a.entry.SP \in Nat /\ a.entry.SP < WordSize /\ a.entry.SP + a.fn.params <= StackBase
         /\ Base(a) \in Nat /\ Base(a) + StackSize(a.fn) = a.entry.SP
         /\ Base(a) % StackAlign = 0
         /\ Len(a.allocas) \in Nat /\ Len(a.allocas) * StackAlign \in Nat
         /\ a.amount \in Nat /\ Pushed(a) \in Nat /\ Pushed(a) <= a.amount
         /\ a.amount <= a.fn.maxCall
         /\ a.entry.SP - Room <= Base(a) - Len(a.allocas) * StackAlign - Pushed(a)
         /\ 0 <= Base(a) - Len(a.allocas) * StackAlign - Pushed(a)
<1>1. /\ a.fn \in Functions /\ a.entry \in [Registers -> Words] /\ a.amount \in Nat
      /\ a.allocas \in Seq(Words \X Words) /\ a.args \in Seq(Words)
  BY DEF Activations
<1>2. a.entry.SP \in Words
  BY <1>1 DEF Registers
<1>3. a.entry.SP \in Nat /\ a.entry.SP < WordSize
  BY <1>2, WordsFacts
<1>4. StackSize(a.fn) \in Nat /\ a.fn.maxCall \in Nat /\ Multiple(StackSize(a.fn), StackAlign)
  BY <1>1, FrameFacts, FunctionTypes
<1>5. StackSize(a.fn) + MaxAllocas * StackAlign + a.fn.maxCall <= Room
  BY <1>1, RoomAssumption
<1>6. Len(a.allocas) \in Nat /\ Len(a.allocas) <= MaxAllocas
  BY <1>1 DEF PositionOK
<1>7. Len(a.allocas) * StackAlign <= MaxAllocas * StackAlign /\ Len(a.allocas) * StackAlign \in Nat
  BY <1>6, RoomFacts, MulMono
<1>8. a.amount <= a.fn.maxCall
  BY <1>4 DEF PositionOK
<1>9. Pushed(a) \in Nat /\ Pushed(a) <= a.amount
  BY <1>1 DEF Pushed
<1>10. Base(a) = a.entry.SP - StackSize(a.fn)
  BY DEF Base
<1>11. a.entry.SP >= Room /\ a.entry.SP + a.fn.params <= StackBase /\ a.entry.SP % StackAlign = 0
  BY DEF PositionOK
<1> DEFINE q == Len(a.allocas) * StackAlign
           M == MaxAllocas * StackAlign
<1>12. q \in Nat /\ q <= M /\ M \in Nat /\ StackSize(a.fn) + M + a.fn.maxCall <= Room /\ Room \in Nat
  BY <1>5, <1>7, RoomFacts
<1> HIDE DEF q, M
<1>13. /\ Base(a) \in Nat /\ Base(a) + StackSize(a.fn) = a.entry.SP
       /\ a.entry.SP - Room <= Base(a) - q - Pushed(a)
       /\ 0 <= Base(a) - q - Pushed(a)
  <2> DEFINE E == a.entry.SP
             SS == StackSize(a.fn)
             c == a.fn.maxCall
             p == Pushed(a)
             n == a.amount
  <2>1. /\ E \in Nat /\ SS \in Nat /\ c \in Nat /\ p \in Nat /\ n \in Nat /\ p <= n /\ n <= c
        /\ Base(a) = E - SS /\ E >= Room /\ SS + M + c <= Room
    BY <1>1, <1>3, <1>4, <1>8, <1>9, <1>10, <1>11, <1>12
  <2> HIDE DEF E, SS, c, p, n
  <2>2. Base(a) \in Nat /\ Base(a) + SS = E /\ E - Room <= Base(a) - q - p /\ 0 <= Base(a) - q - p
    BY <2>1, <1>12
  <2> QED BY <2>2 DEF E, SS, p
<1>14. Base(a) % StackAlign = 0
  <2>1. Multiple(a.entry.SP, StackAlign)
    BY <1>3, <1>11, MultipleMod, SizesAssumption
  <2>2. Multiple(a.entry.SP - StackSize(a.fn), StackAlign)
    <3> DEFINE E == a.entry.SP
               SS == StackSize(a.fn)
    <3>1. E \in Int /\ SS \in Int /\ Multiple(E, StackAlign) /\ Multiple(SS, StackAlign)
      BY <1>3, <1>4, <2>1
    <3> HIDE DEF E, SS
    <3>2. Multiple(E - SS, StackAlign)
      BY <3>1, MultipleSum, RoomFacts
    <3> QED BY <3>2 DEF E, SS
  <2> QED BY <1>10, <1>13, <2>2, MultipleMod, SizesAssumption
<1> QED BY <1>1, <1>3, <1>6, <1>8, <1>9, <1>11, <1>12, <1>13, <1>14 DEF q

LEMMA ArgumentRegion ==
  ASSUME NEW a \in Activations, PositionOK(a), NEW j \in 1 .. Len(a.args)
  PROVE  /\ ScalarSize \in Nat \ {0} /\ (j - 1) * ScalarSize \in Nat
         /\ a.entry.SP + (j - 1) * ScalarSize \in Nat
         /\ a.entry.SP <= a.entry.SP + (j - 1) * ScalarSize
         /\ a.entry.SP + (j - 1) * ScalarSize + ScalarSize <= a.entry.SP + a.fn.params
         /\ a.entry.SP + (j - 1) * ScalarSize + ScalarSize <= WordSize
<1>1. Len(a.args) \in Nat /\ ScalarSize \in Nat \ {0}
  BY SizesAssumption DEF Activations
<1> DEFINE q == (j - 1) * ScalarSize
           p == Len(a.args) * ScalarSize
<1>2. q \in Nat /\ q + ScalarSize <= p
  <2>1. j * ScalarSize <= Len(a.args) * ScalarSize
    BY <1>1, MulMono
  <2>2. (j - 1) * ScalarSize + ScalarSize = j * ScalarSize /\ (j - 1) * ScalarSize \in Nat
    BY <1>1
  <2> QED BY <1>1, <2>1, <2>2
<1>3. p = a.fn.params /\ a.entry.SP \in Nat /\ a.entry.SP + a.fn.params <= StackBase
  BY Bounds DEF PositionOK
<1>4. StackBase < WordSize /\ StackBase \in Nat /\ WordSize \in Nat /\ p \in Nat
  BY <1>1, WordsFacts
<1> HIDE DEF q, p
<1>5. /\ a.entry.SP + q \in Nat /\ a.entry.SP <= a.entry.SP + q
      /\ a.entry.SP + q + ScalarSize <= a.entry.SP + p
      /\ a.entry.SP + q + ScalarSize <= WordSize
  <2> DEFINE E == a.entry.SP
  <2>1. E \in Nat /\ E + p <= StackBase
    BY <1>3
  <2> HIDE DEF E
  <2>2. E + q \in Nat /\ E <= E + q /\ E + q + ScalarSize <= E + p
    BY <1>1, <1>2, <1>4, <2>1
  <2>3. E + q + ScalarSize <= WordSize
    BY <1>1, <1>2, <1>4, <2>1, <2>2
  <2> QED BY <2>2, <2>3 DEF E
<1> QED BY <1>1, <1>2, <1>3, <1>5 DEF q

LEMMA ObjectRegion ==
  ASSUME NEW a \in Activations, PositionOK(a), NEW i \in 1 .. Len(Objects(a.fn))
  PROVE  /\ Objects(a.fn)[i].size \in Nat /\ Base(a) + Place(a.fn, i) \in Nat
         /\ Base(a) + CallFrame(a.fn) <= Base(a) + Place(a.fn, i)
         /\ Base(a) <= Base(a) + CallFrame(a.fn)
         /\ Base(a) + Place(a.fn, i) + Objects(a.fn)[i].size <= a.entry.SP
         /\ Base(a) + Place(a.fn, i) + Objects(a.fn)[i].size <= WordSize
<1>1. /\ a.fn \in Functions /\ Base(a) \in Nat /\ a.entry.SP \in Nat /\ a.entry.SP < WordSize
      /\ Base(a) + StackSize(a.fn) = a.entry.SP
  BY Bounds
<1>2. Objects(a.fn)[i].size \in Nat
  BY <1>1, ObjectsFacts, ObjectTypes
<1>3. /\ StackSize(a.fn) \in Nat /\ Place(a.fn, i) \in Nat /\ CallFrame(a.fn) <= Place(a.fn, i)
      /\ Place(a.fn, i) + Objects(a.fn)[i].size <= StackSize(a.fn)
      /\ CallFrame(a.fn) \in Nat
  BY <1>1, FrameFacts, FunctionTypes
<1>4. WordSize \in Nat
  BY WordsFacts
<1> DEFINE B == Base(a)
           P == Place(a.fn, i)
           E == a.entry.SP
           z == Objects(a.fn)[i].size
           SS == StackSize(a.fn)
           C == CallFrame(a.fn)
<1>5. /\ B \in Nat /\ P \in Nat /\ E \in Nat /\ z \in Nat /\ SS \in Nat /\ C \in Nat
      /\ E < WordSize /\ B + SS = E /\ C <= P /\ P + z <= SS
  BY <1>1, <1>2, <1>3
<1> HIDE DEF B, P, E, z, SS, C
<1>6. B + P \in Nat /\ B + C <= B + P /\ B <= B + C /\ B + P + z <= E /\ B + P + z <= WordSize
  BY <1>4, <1>5
<1> QED BY <1>2, <1>6 DEF B, P, E, z, C

LEMMA AllocaRegion ==
  ASSUME NEW a \in Activations, PositionOK(a), NEW n \in 1 .. Len(a.allocas)
  PROVE  /\ Base(a) - n * StackAlign \in Nat
         /\ Base(a) - Len(a.allocas) * StackAlign <= Base(a) - n * StackAlign
         /\ Base(a) - n * StackAlign + StackAlign <= Base(a)
         /\ Base(a) - n * StackAlign + StackAlign <= WordSize
<1>1. /\ Base(a) \in Nat /\ a.entry.SP \in Nat /\ a.entry.SP < WordSize
      /\ Base(a) + StackSize(a.fn) = a.entry.SP /\ Pushed(a) \in Nat
      /\ Len(a.allocas) \in Nat /\ Len(a.allocas) * StackAlign \in Nat
      /\ 0 <= Base(a) - Len(a.allocas) * StackAlign - Pushed(a) /\ a.fn \in Functions
  BY Bounds
<1>2. StackSize(a.fn) \in Nat /\ StackAlign \in Nat \ {0} /\ WordSize \in Nat
  BY <1>1, FrameFacts, RoomFacts, WordsFacts
<1> DEFINE q == n * StackAlign
           p == Len(a.allocas) * StackAlign
<1>3. q \in Nat /\ p \in Nat /\ StackAlign <= q /\ q <= p
  <2>1. 1 * StackAlign <= n * StackAlign /\ n * StackAlign <= Len(a.allocas) * StackAlign
    BY <1>1, <1>2, MulMono
  <2>2. n * StackAlign \in Nat /\ 1 * StackAlign = StackAlign
    BY <1>1, <1>2
  <2> QED BY <1>1, <2>1, <2>2
<1>4. 0 <= Base(a) - p - Pushed(a)
  BY <1>1
<1> HIDE DEF q, p
<1>5. Base(a) - q \in Nat /\ Base(a) - p <= Base(a) - q /\ Base(a) - q + StackAlign <= Base(a)
  <2> DEFINE B == Base(a)
             u == Pushed(a)
  <2>1. B \in Nat /\ u \in Nat /\ 0 <= B - p - u
    BY <1>1, <1>4
  <2> HIDE DEF B, u
  <2>2. B - q \in Nat /\ B - p <= B - q /\ B - q + StackAlign <= B
    BY <1>2, <1>3, <2>1
  <2> QED BY <2>2 DEF B
<1>6. Base(a) - q + StackAlign <= WordSize
  BY <1>1, <1>2, <1>3, <1>5
<1> QED BY <1>5, <1>6 DEF q, p

(* Where a save and a local lie among the objects. *)
LEMMA SaveRegion ==
  ASSUME NEW a \in Activations, NEW j \in 1 .. Len(Saves(a))
  PROVE  /\ j \in 1 .. Len(Objects(a.fn)) /\ Objects(a.fn)[j].size = SpillSize(Saves(a)[j])
         /\ SpillSize(Saves(a)[j]) \in Nat
         /\ Saves(a)[j] \in ToSet(NyuziCSR) /\ Saves(a)[j] \in Registers
         /\ Saves(a)[j] \in SavedRegs(a.fn) /\ Saves(a)[j] # "SP"
<1>1. a.fn \in Functions
  BY DEF Activations
<1>2. Saves(a) = CalleeSavedInfo(a.fn)
  BY DEF Saves
<1>3. Saves(a)[j] \in SavedRegs(a.fn) /\ Saves(a)[j] \in CSRegisters
  <2>1. /\ CalleeSavedInfo(a.fn) \in Seq(CSRegisters)
        /\ \A r : r \in SavedRegs(a.fn) <=>
              \E i \in 1 .. Len(CalleeSavedInfo(a.fn)) : CalleeSavedInfo(a.fn)[i] = r
    BY <1>1, CalleeSavedFacts
  <2> QED BY <1>2, <2>1
<1> QED BY <1>1, <1>2, <1>3, ObjectsFacts, SpillSizeType, CSRFacts DEF Registers, CSRegisters

LEMMA LocalRegion ==
  ASSUME NEW a \in Activations, PositionOK(a), NEW k \in 1 .. Len(a.locals)
  PROVE  /\ k \in 1 .. Len(a.fn.locals) /\ k \in DOMAIN a.fn.locals
         /\ LocalIndex(a.fn, k) \in 1 .. Len(Objects(a.fn))
         /\ LocalIndex(a.fn, k) \notin 1 .. Len(Saves(a))
         /\ \A j \in 1 .. Len(Saves(a)) : j < LocalIndex(a.fn, k)
         /\ Objects(a.fn)[LocalIndex(a.fn, k)].size = a.fn.locals[k].size
         /\ Objects(a.fn)[LocalIndex(a.fn, k)].align = a.fn.locals[k].align
<1>1. a.fn \in Functions /\ Len(a.locals) = Len(a.fn.locals)
  BY DEF Activations, PositionOK
<1>2. /\ Len(Saves(a)) \in Nat /\ k \in 1 .. Len(a.fn.locals) /\ k \in DOMAIN a.fn.locals
      /\ LocalIndex(a.fn, k) \in (Len(Saves(a)) + 1) .. Len(Objects(a.fn))
      /\ Objects(a.fn)[LocalIndex(a.fn, k)] = a.fn.locals[k]
      /\ Len(Objects(a.fn)) \in Nat
  BY <1>1, ObjectsFacts, ObjectTypes DEF Saves
<1> QED BY <1>2

(* Of the memory, only what is above lo matters to a. *)
LEMMA MemoryAbove ==
  ASSUME NEW a \in Activations, PositionOK(a), NEW m, NEW m2, NEW lo \in Int,
         MemoryOK(a, m),
         lo <= a.entry.SP,
         a.pc \in InBody \cup {"save", "restore"} => lo <= Base(a) + CallFrame(a.fn),
         a.pc \in InBody /\ a.allocas # <<>> => lo <= Base(a) - Len(a.allocas) * StackAlign,
         \A x \in Words : lo <= x => m2[x] = m[x]
  PROVE  MemoryOK(a, m2)
<1>1. /\ Base(a) \in Nat /\ a.entry.SP \in Nat /\ Len(a.allocas) \in Nat
      /\ Len(a.allocas) * StackAlign \in Nat /\ a.fn \in Functions
  BY Bounds
<1>2. ASSUME NEW addr \in Nat, NEW size \in Nat, NEW v, addr + size <= WordSize, lo <= addr,
             Filled(m, addr, size, v)
      PROVE  Filled(m2, addr, size, v)
  BY <1>2, FilledAgree
<1>3. ArgumentsOK(a, m2)
  <2> SUFFICES ASSUME NEW j \in 1 .. Len(a.args)
               PROVE  Filled(m2, a.entry.SP + (j - 1) * ScalarSize, ScalarSize, a.args[j])
    BY DEF ArgumentsOK
  <2> DEFINE addr == a.entry.SP + (j - 1) * ScalarSize
  <2>1. ScalarSize \in Nat /\ addr \in Nat /\ a.entry.SP <= addr /\ addr + ScalarSize <= WordSize
    BY ArgumentRegion
  <2>2. Filled(m, addr, ScalarSize, a.args[j])
    BY DEF MemoryOK, ArgumentsOK
  <2> HIDE DEF addr
  <2>3. lo <= addr
    BY <1>1, <2>1
  <2>4. Filled(m2, addr, ScalarSize, a.args[j])
    BY <1>2, <2>1, <2>2, <2>3
  <2> QED BY <2>4 DEF addr
<1>4. SavesOK(a, m2)
  <2> SUFFICES ASSUME NEW j \in Stored(a)
               PROVE  Filled(m2, Base(a) + Place(a.fn, j), SpillSize(Saves(a)[j]), a.entry[Saves(a)[j]])
    BY DEF SavesOK
  <2> DEFINE addr == Base(a) + Place(a.fn, j)
             size == SpillSize(Saves(a)[j])
  <2>1. j \in 1 .. Len(Saves(a)) /\ a.pc \in InBody \cup {"save", "restore"}
    BY DEF Stored
  <2>2. j \in 1 .. Len(Objects(a.fn)) /\ Objects(a.fn)[j].size = size
    BY <2>1, SaveRegion
  <2>3. size \in Nat /\ addr \in Nat /\ Base(a) + CallFrame(a.fn) <= addr /\ addr + size <= WordSize
    BY <2>2, ObjectRegion
  <2>4. Filled(m, addr, size, a.entry[Saves(a)[j]])
    BY DEF MemoryOK, SavesOK
  <2> HIDE DEF addr, size
  <2>5. lo <= addr
    <3>1. CallFrame(a.fn) \in Nat /\ lo <= Base(a) + CallFrame(a.fn)
      BY <1>1, <2>1, FunctionTypes
    <3> QED BY <1>1, <2>3, <3>1
  <2>6. Filled(m2, addr, size, a.entry[Saves(a)[j]])
    BY <1>2, <2>3, <2>4, <2>5
  <2> QED BY <2>6 DEF addr, size
<1>5. LocalsOK(a, m2)
  <2> SUFFICES ASSUME a.pc \in InBody, NEW k \in 1 .. Len(a.locals), a.locals[k] # -1
               PROVE  Filled(m2, Base(a) + Place(a.fn, LocalIndex(a.fn, k)), a.fn.locals[k].size,
                             a.locals[k])
    BY DEF LocalsOK
  <2> DEFINE i == LocalIndex(a.fn, k)
             addr == Base(a) + Place(a.fn, i)
             size == a.fn.locals[k].size
  <2>2. i \in 1 .. Len(Objects(a.fn)) /\ Objects(a.fn)[i].size = size
    BY LocalRegion
  <2>3. size \in Nat /\ addr \in Nat /\ Base(a) + CallFrame(a.fn) <= addr /\ addr + size <= WordSize
    <3> HIDE DEF i
    <3> QED BY <2>2, ObjectRegion
  <2>4. Filled(m, addr, size, a.locals[k])
    BY DEF MemoryOK, LocalsOK
  <2> HIDE DEF i, addr, size
  <2>5. lo <= addr
    <3>1. CallFrame(a.fn) \in Nat /\ lo <= Base(a) + CallFrame(a.fn)
      BY <1>1, FunctionTypes
    <3> QED BY <1>1, <2>3, <3>1
  <2>6. Filled(m2, addr, size, a.locals[k])
    BY <1>2, <2>3, <2>4, <2>5
  <2> QED BY <2>6 DEF addr, size, i
<1>6. AllocasOK(a, m2)
  <2> SUFFICES ASSUME a.pc \in InBody, NEW n \in 1 .. Len(a.allocas)
               PROVE  /\ a.allocas[n][1] = Base(a) - n * StackAlign
                      /\ Filled(m2, Base(a) - n * StackAlign, StackAlign, a.allocas[n][2])
    BY DEF AllocasOK
  <2> DEFINE addr == Base(a) - n * StackAlign
  <2>1. /\ addr \in Nat /\ Base(a) - Len(a.allocas) * StackAlign <= addr
        /\ addr + StackAlign <= WordSize /\ StackAlign \in Nat
    BY AllocaRegion, RoomFacts
  <2>2. a.allocas[n][1] = addr /\ Filled(m, addr, StackAlign, a.allocas[n][2])
    BY DEF MemoryOK, AllocasOK
  <2>3. lo <= Base(a) - Len(a.allocas) * StackAlign
    <3>1. a.allocas # <<>>
      BY <1>1
    <3> QED BY <3>1
  <2> HIDE DEF addr
  <2>4. lo <= addr
    BY <1>1, <2>1, <2>3
  <2>5. Filled(m2, addr, StackAlign, a.allocas[n][2])
    BY <1>2, <2>1, <2>2, <2>4
  <2> QED BY <2>2, <2>5 DEF addr
<1> QED BY <1>3, <1>4, <1>5, <1>6 DEF MemoryOK

(* SP of an activation in its body is below all that it keeps. *)
LEMMA BodySP ==
  ASSUME NEW a \in Activations, PositionOK(a), NEW R, RegistersOK(a, R), a.pc \in InBody
  PROVE  /\ R.SP \in Nat /\ a.entry.SP - Room <= R.SP
         /\ R.SP <= Base(a) + CallFrame(a.fn)
         /\ R.SP <= Base(a) - Len(a.allocas) * StackAlign
         /\ R.SP + a.amount <= a.entry.SP
         /\ R.SP + a.amount <= Base(a) + CallFrame(a.fn)
         /\ a.allocas # <<>> => R.SP + a.amount <= Base(a) - Len(a.allocas) * StackAlign
<1> DEFINE B == Base(a)
           q == Len(a.allocas) * StackAlign
           u == Pushed(a)
           n == a.amount
           E == a.entry.SP
           SS == StackSize(a.fn)
           C == CallFrame(a.fn)
<1>1. /\ a.fn \in Functions /\ B \in Nat /\ q \in Nat /\ u \in Nat /\ n \in Nat /\ u <= n /\ E \in Nat
      /\ B + SS = E /\ n <= a.fn.maxCall /\ E - Room <= B - q - u /\ 0 <= B - q - u
  BY Bounds
<1>2. /\ SS \in Nat /\ C \in Nat /\ Room \in Nat
  BY <1>1, FrameFacts, FunctionTypes, RoomFacts
<1>3. R.SP = B - q - u
  BY DEF RegistersOK
<1>4. C <= SS
  <2> DEFINE A == MaxOf(StackAlign, MaxAlign(a.fn))
             S == ObjectsSize(a.fn) + C
  <2>1. A \in Nat \ {0} /\ StackAlign \in Nat \ {0}
    BY <1>1, MaxAlignFacts, RoomFacts DEF MaxOf
  <2>2. ObjectsSize(a.fn) \in Nat
    <3>1. Objects(a.fn) \in Seq(StackObject)
      BY <1>1, ObjectsFacts
    <3>2. /\ StackOffsets(0, Objects(a.fn)) \in [0 .. Len(Objects(a.fn)) -> Nat]
          /\ Len(Objects(a.fn)) \in Nat
      BY <3>1, StackOffsetsDef, ObjectTypes
    <3>3. Len(Objects(a.fn)) \in 0 .. Len(Objects(a.fn))
      BY <3>2
    <3> QED BY <3>2, <3>3 DEF ObjectsSize
  <2>3. S \in Nat /\ C <= S
    BY <1>2, <2>2
  <2>4. SS = alignTo(alignTo(S, A), StackAlign)
    BY DEF StackSize, getStackSize
  <2> HIDE DEF A, S
  <2>5. alignTo(S, A) \in Nat /\ S <= alignTo(S, A)
    BY <2>1, <2>3, AlignTo
  <2> DEFINE T == alignTo(S, A)
  <2>6. T \in Nat /\ S <= T /\ SS = alignTo(T, StackAlign)
    BY <2>4, <2>5
  <2> HIDE DEF T, SS
  <2>7. T <= SS
    BY <2>1, <2>6, AlignTo
  <2> QED BY <1>2, <2>3, <2>6, <2>7
<1>5. u = n \/ (u = 0 /\ n <= C /\ a.allocas = <<>>)
  <2>1. CASE a.pc \in Calling /\ hasReservedCallFrame(a.fn)
    <3>1. C = a.fn.maxCall /\ ~a.fn.varSized
      BY <2>1 DEF PositionOK, CallFrame, hasReservedCallFrame
    <3> QED BY <1>1, <2>1, <3>1 DEF PositionOK, Pushed
  <2>2. CASE a.pc \notin Calling
    BY <2>2 DEF PositionOK, Pushed
  <2>3. CASE ~hasReservedCallFrame(a.fn)
    BY <2>3 DEF Pushed
  <2> QED BY <2>1, <2>2, <2>3
<1> HIDE DEF B, q, u, n, E, SS, C
<1>6. a.allocas = <<>> => q = 0
  BY RoomFacts DEF q
<1>7. R.SP \in Nat /\ E - Room <= R.SP /\ R.SP <= B + C /\ R.SP <= B - q
  BY <1>1, <1>2, <1>3
<1>8. R.SP + n <= E /\ R.SP + n <= B + C /\ (a.allocas # <<>> => R.SP + n <= B - q)
  BY <1>1, <1>2, <1>3, <1>4, <1>5, <1>6
<1> QED BY <1>7, <1>8 DEF B, q, n, E, C

-----------------------------------------------------------------------------
(* Steps. *)
LEMMA TopFacts ==
  ASSUME IInv
  PROVE  /\ Len(acts) \in Nat \ {0} /\ Len(acts) \in 1 .. Len(acts) /\ Len(acts) <= MaxNesting
         /\ Top = acts[Len(acts)] /\ Top \in Activations /\ fn = Top.fn /\ fn \in Functions
         /\ CSI = Saves(Top)
         /\ PositionOK(Top) /\ RegistersOK(Top, regs) /\ MemoryOK(Top, mem)
         /\ Top.entry.SP >= (MaxNesting + 1 - Len(acts)) * Room
         /\ regs \in [Registers -> Words] /\ mem \in [Words -> Words]
         /\ Top.entry \in [Registers -> Words]
<1>1. /\ acts \in Seq(Activations) /\ Len(acts) \in 1 .. MaxNesting /\ MaxNesting \in Nat
      /\ regs \in [Registers -> Words] /\ mem \in [Words -> Words]
  BY RoomFacts DEF IInv, TypeInv
<1>2. Len(acts) \in Nat \ {0} /\ Len(acts) \in 1 .. Len(acts) /\ Len(acts) <= MaxNesting
  BY <1>1
<1>3. Top = acts[Len(acts)] /\ Top \in Activations
  BY <1>1, <1>2 DEF Top, Last
<1>4. Top.fn \in Functions /\ Top.entry \in [Registers -> Words]
  BY <1>3 DEF Activations
<1>5. PositionOK(Top) /\ RegistersOK(Top, regs) /\ MemoryOK(Top, mem)
  BY <1>2, <1>3 DEF IInv, FrameInv, Seen
<1>6. Top.entry.SP >= (MaxNesting + 1 - Len(acts)) * Room
  BY <1>2, <1>3 DEF IInv, StackInv
<1> QED BY <1>1, <1>2, <1>3, <1>4, <1>5, <1>6 DEF fn, CSI, Saves

(* b takes the place of the innermost activation. *)
TopReplaced(b) ==
  /\ b \in Activations
  /\ acts' \in Seq(Activations) /\ Len(acts') = Len(acts)
  /\ acts'[Len(acts)] = b
  /\ \A n \in 1 .. (Len(acts) - 1) : acts'[n] = acts[n]

(* The activations that wait keep what they have, as long as the memory    *)
(* above SP on the innermost one's entry does.                             *)
LEMMA Suspended ==
  ASSUME IInv, NEW n \in 1 .. (Len(acts) - 1), NEW m2,
         \A x \in Words : Top.entry.SP <= x => m2[x] = mem[x]
  PROVE  MemoryOK(acts[n], m2)
<1>1. /\ Len(acts) \in Nat \ {0} /\ Top = acts[Len(acts)] /\ Top \in Activations /\ PositionOK(Top)
      /\ acts \in Seq(Activations)
  BY TopFacts DEF IInv, TypeInv
<1>2. n \in 1 .. Len(acts) /\ n + 1 \in 1 .. Len(acts) /\ n # Len(acts) /\ n + 1 <= Len(acts)
  BY <1>1
<1> DEFINE a == acts[n]
           R == acts[n + 1].entry
           lo == Top.entry.SP
<1>3. /\ a \in Activations /\ PositionOK(a) /\ RegistersOK(a, R) /\ MemoryOK(a, mem) /\ a.pc = "callup"
      /\ R.SP >= lo /\ a.pc \in InBody
  <2>1. acts[Len(acts)].entry.SP <= acts[n + 1].entry.SP
    BY <1>1, <1>2 DEF IInv, StackInv
  <2>2. acts[n + 1].entry.SP \in Nat /\ acts[Len(acts)].entry.SP \in Nat
    <3>1. acts[n + 1] \in Activations /\ PositionOK(acts[n + 1])
      BY <1>1, <1>2 DEF IInv, FrameInv
    <3> QED BY <1>1, <3>1, Bounds
  <2>3. a \in Activations /\ a.pc = "callup"
    BY <1>1, <1>2 DEF IInv, StackInv
  <2>4. PositionOK(a) /\ RegistersOK(a, R) /\ MemoryOK(a, mem)
    BY <1>2 DEF IInv, FrameInv, Seen
  <2> QED BY <1>1, <2>1, <2>2, <2>3, <2>4 DEF InBody, Calling
<1>4. lo \in Nat
  BY <1>1, Bounds
<1> HIDE DEF a, R, lo
<1>5. /\ R.SP \in Nat /\ R.SP <= Base(a) + CallFrame(a.fn) /\ a.amount \in Nat
      /\ R.SP <= Base(a) - Len(a.allocas) * StackAlign /\ R.SP + a.amount <= a.entry.SP
  BY <1>3, BodySP, Bounds
<1>6. /\ Base(a) \in Nat /\ Len(a.allocas) * StackAlign \in Nat /\ a.entry.SP \in Nat
      /\ CallFrame(a.fn) \in Nat
  BY <1>3, Bounds, FunctionTypes
<1>7. /\ lo <= a.entry.SP /\ lo <= Base(a) + CallFrame(a.fn)
      /\ lo <= Base(a) - Len(a.allocas) * StackAlign
  <2> DEFINE p == R.SP
             n0 == a.amount
             E == a.entry.SP
             H == Base(a) + CallFrame(a.fn)
             L == Base(a) - Len(a.allocas) * StackAlign
  <2>1. /\ p \in Nat /\ n0 \in Nat /\ E \in Nat /\ H \in Int /\ L \in Int
        /\ lo \in Nat /\ p >= lo /\ p <= H /\ p <= L /\ p + n0 <= E
    BY <1>3, <1>4, <1>5, <1>6
  <2> HIDE DEF p, n0, E, H, L
  <2>2. lo <= E /\ lo <= H /\ lo <= L
    BY <2>1
  <2> QED BY <2>2 DEF E, H, L
<1>8. \A x \in Words : lo <= x => m2[x] = mem[x]
  BY DEF lo
<1>9. MemoryOK(a, m2)
  BY <1>3, <1>4, <1>7, <1>8, MemoryAbove
<1> QED BY <1>9 DEF a

LEMMA TopStep ==
  ASSUME IInv, NEW b, TopReplaced(b), b.entry = Top.entry,
         regs' \in [Registers -> Words], mem' \in [Words -> Words],
         PositionOK(b), RegistersOK(b, regs'), MemoryOK(b, mem'),
         b.pc = "args" => Len(acts) < MaxNesting,
         \A x \in Words : Top.entry.SP <= x => mem'[x] = mem[x],
         \A x \in Words : x < regs'.SP => mem'[x] = 0
  PROVE  IInv'
<1>1. /\ Len(acts) \in Nat \ {0} /\ Top = acts[Len(acts)]
      /\ Len(acts) \in 1 .. MaxNesting /\ MaxNesting \in Nat
  BY TopFacts, RoomFacts DEF IInv, TypeInv
<1>2. /\ acts' \in Seq(Activations) /\ Len(acts') = Len(acts) /\ acts'[Len(acts)] = b
      /\ \A n \in 1 .. (Len(acts) - 1) : acts'[n] = acts[n]
  BY DEF TopReplaced
<1>3. \A n \in 1 .. Len(acts) : n = Len(acts) \/ n \in 1 .. (Len(acts) - 1)
  BY <1>1
<1>4. TypeInv'
  BY <1>1, <1>2 DEF TypeInv
<1>5. \A n \in 1 .. Len(acts) : acts'[n].entry = acts[n].entry
  BY <1>1, <1>2, <1>3
<1>6. StackInv'
  <2>1. StackInv
    BY DEF IInv
  <2> QED BY <1>2, <1>5, <2>1 DEF StackInv
<1>7. ASSUME NEW n \in 1 .. Len(acts')
      PROVE  PositionOK(acts'[n]) /\ RegistersOK(acts'[n], Seen(n)') /\ MemoryOK(acts'[n], mem')
  <2>1. CASE n = Len(acts)
    <3>1. Seen(n)' = regs'
      BY <1>2, <2>1 DEF Seen
    <3> QED BY <1>2, <2>1, <3>1
  <2>2. CASE n \in 1 .. (Len(acts) - 1)
    <3>1. Seen(n)' = Seen(n)
      <4>1. n # Len(acts) /\ n + 1 \in 1 .. Len(acts)
        BY <1>1, <2>2
      <4> QED BY <1>2, <1>5, <4>1 DEF Seen
    <3>2. PositionOK(acts[n]) /\ RegistersOK(acts[n], Seen(n))
      BY <1>1, <2>2 DEF IInv, FrameInv
    <3>3. MemoryOK(acts[n], mem')
      BY <2>2, Suspended
    <3> QED BY <1>2, <2>2, <3>1, <3>2, <3>3
  <2> QED BY <1>2, <1>3, <2>1, <2>2
<1>8. FrameInv'
  BY <1>7 DEF FrameInv
<1>9. NothingBelowSP'
  BY DEF NothingBelowSP
<1> QED BY <1>4, <1>6, <1>8, <1>9 DEF IInv

(* The addresses that the instructions compute. *)
LEMMA AddressExact ==
  ASSUME NEW a \in Activations, PositionOK(a), NEW i \in 1 .. Len(Objects(a.fn))
  PROVE  FrameAddress(Base(a), FrameOffset(a.fn, ObjectOffsets(a.fn)[i])) = Base(a) + Place(a.fn, i)
<1>1. Base(a) \in Nat /\ a.fn \in Functions
  BY Bounds
<1>2. FrameOffset(a.fn, ObjectOffsets(a.fn)[i]) = Place(a.fn, i) /\ Place(a.fn, i) \in Nat
  BY <1>1, FrameFacts
<1>3. FrameAddress(Base(a), Place(a.fn, i)) = Wrap(Base(a) + Place(a.fn, i))
  BY <1>1, <1>2, FrameAddressExact
<1>4. /\ Objects(a.fn)[i].size \in Nat \ {0} /\ Base(a) + Place(a.fn, i) \in Nat
      /\ Base(a) + Place(a.fn, i) + Objects(a.fn)[i].size <= WordSize
  BY <1>1, ObjectRegion, ObjectsFacts, ObjectTypes
<1> DEFINE x == Base(a) + Place(a.fn, i)
<1>5. x \in 0 .. (WordSize - 1) /\ x \in Int
  BY <1>4, WordsFacts
<1>6. Wrap(x) = x
  <2> HIDE DEF x
  <2> QED BY <1>5, WrapFacts
<1> QED BY <1>2, <1>3, <1>6

LEMMA SaveAddress ==
  ASSUME IInv, regs.SP = Base(Top), NEW i \in 1 .. Len(Saves(Top))
  PROVE  ObjectAddress(i) = Base(Top) + Place(fn, i)
<1>1. Top \in Activations /\ PositionOK(Top) /\ fn = Top.fn /\ fn \in Functions
  BY TopFacts
<1>2. FrameReg(fn, i) = "SP"
  BY <1>1, ObjectsFacts DEF FrameReg, Saves
<1>3. i \in 1 .. Len(Objects(fn))
  BY <1>1, SaveRegion
<1> QED BY <1>1, <1>2, <1>3, AddressExact DEF ObjectAddress

LEMMA FramePointer ==
  ASSUME IInv, Top.pc = "body"
  PROVE  /\ regs[IF hasFP(fn) THEN "FP" ELSE "SP"] = Base(Top)
         /\ regs.SP = Base(Top) - Len(Top.allocas) * StackAlign
         /\ regs.SP \in Nat
<1>1. /\ Top \in Activations /\ PositionOK(Top) /\ RegistersOK(Top, regs) /\ fn = Top.fn
      /\ fn \in Functions
  BY TopFacts
<1>2. /\ Base(Top) \in Nat /\ Len(Top.allocas) * StackAlign \in Nat /\ StackAlign \in Nat
      /\ 0 <= Base(Top) - Len(Top.allocas) * StackAlign - Pushed(Top)
  BY <1>1, Bounds, RoomFacts
<1>3. Pushed(Top) = 0
  BY <1>1 DEF PositionOK, Pushed, Calling
<1>4. /\ regs.SP = Base(Top) - Len(Top.allocas) * StackAlign - Pushed(Top)
      /\ hasFP(Top.fn) => regs.FP = Base(Top)
  BY <1>1 DEF RegistersOK, InBody
<1>5. regs.SP = Base(Top) - Len(Top.allocas) * StackAlign /\ regs.SP \in Nat
  BY <1>2, <1>3, <1>4
<1>6. ASSUME ~hasFP(fn) PROVE regs.SP = Base(Top)
  <2>1. Top.allocas = <<>>
    BY <1>1, <1>6 DEF PositionOK, hasFP
  <2>2. Len(Top.allocas) * StackAlign = 0
    BY <1>2, <2>1
  <2> QED BY <1>2, <1>5, <2>2
<1> QED BY <1>1, <1>4, <1>5, <1>6

LEMMA LocalAddress ==
  ASSUME IInv, Top.pc = "body", NEW k \in 1 .. Len(Top.locals)
  PROVE  ObjectAddress(LocalIndex(fn, k)) = Base(Top) + Place(fn, LocalIndex(fn, k))
<1>1. Top \in Activations /\ PositionOK(Top) /\ fn = Top.fn /\ fn \in Functions
  BY TopFacts
<1> DEFINE i == LocalIndex(fn, k)
<1>2. i \in 1 .. Len(Objects(fn)) /\ i \notin 1 .. Len(Saves(Top))
  BY <1>1, LocalRegion
<1> HIDE DEF i
<1>3. FrameReg(fn, i) = IF hasFP(fn) THEN "FP" ELSE "SP"
  BY <1>1, <1>2, ObjectsFacts DEF FrameReg, Saves
<1>4. regs[FrameReg(fn, i)] = Base(Top)
  BY <1>3, FramePointer
<1>5. ObjectAddress(i) = Base(Top) + Place(fn, i)
  BY <1>1, <1>2, <1>4, AddressExact DEF ObjectAddress
<1> QED BY <1>5 DEF i

LEMMA ArgumentAddress ==
  ASSUME IInv, Top.pc = "body", NEW j \in 1 .. Len(Top.args)
  PROVE  ParamAddress(j) = Top.entry.SP + (j - 1) * ScalarSize
<1>1. Top \in Activations /\ PositionOK(Top) /\ fn = Top.fn /\ fn \in Functions
  BY TopFacts
<1>2. FrameReg(fn, -j) = IF hasFP(fn) THEN "FP" ELSE "SP"
  <2>1. -j \notin 1 .. Len(CalleeSavedInfo(fn))
    BY <1>1, ObjectsFacts DEF Activations
  <2> QED BY <1>1, <2>1, ObjectsFacts DEF FrameReg
<1>3. regs[FrameReg(fn, -j)] = Base(Top)
  BY <1>2, FramePointer
<1> DEFINE q == (j - 1) * ScalarSize
<1>4. /\ q \in Nat /\ Top.entry.SP + q \in Nat /\ Top.entry.SP + q + ScalarSize <= WordSize
      /\ ScalarSize \in Nat \ {0}
  BY <1>1, ArgumentRegion
<1>5. /\ Base(Top) \in Nat /\ Base(Top) + StackSize(fn) = Top.entry.SP /\ StackSize(fn) \in Nat
  BY <1>1, Bounds, FrameFacts
<1>6. ParamAddress(j) = FrameAddress(Base(Top), q + StackSize(fn))
  BY <1>3 DEF ParamAddress, FrameOffset
<1> HIDE DEF q
<1>7. FrameAddress(Base(Top), q + StackSize(fn)) = Wrap(Base(Top) + (q + StackSize(fn)))
  BY <1>4, <1>5, FrameAddressExact
<1>8. Base(Top) + (q + StackSize(fn)) = Top.entry.SP + q
  BY <1>4, <1>5
<1>9. Wrap(Top.entry.SP + q) = Top.entry.SP + q
  <2>1. Top.entry.SP + q \in 0 .. (WordSize - 1) /\ Top.entry.SP + q \in Int
    BY <1>4, WordsFacts
  <2> QED BY <2>1, WrapFacts
<1> QED BY <1>6, <1>7, <1>8, <1>9 DEF q

-----------------------------------------------------------------------------
(* How an action changes the innermost activation. *)
Moved(a, label, i) == [a EXCEPT !.pc = label, !.i = i]

LEMMA MovedFacts ==
  ASSUME NEW a \in Activations, NEW label \in Labels, NEW i \in Nat
  PROVE  /\ Moved(a, label, i) \in Activations
         /\ Moved(a, label, i).pc = label /\ Moved(a, label, i).i = i
         /\ Moved(a, label, i).fn = a.fn /\ Moved(a, label, i).entry = a.entry
         /\ Moved(a, label, i).args = a.args /\ Moved(a, label, i).locals = a.locals
         /\ Moved(a, label, i).allocas = a.allocas /\ Moved(a, label, i).amount = a.amount
         /\ Base(Moved(a, label, i)) = Base(a) /\ Saves(Moved(a, label, i)) = Saves(a)
         /\ Pushed(Moved(a, label, i)) = Pushed(a)
BY DEF Moved, Activations, Base, Saves, Pushed

LEMMA TopUpdate ==
  ASSUME IInv, NEW b \in Activations, acts' = [acts EXCEPT ![Len(acts)] = b]
  PROVE  TopReplaced(b)
<1>1. acts \in Seq(Activations) /\ Len(acts) \in Nat \ {0} /\ Len(acts) \in 1 .. Len(acts)
  BY TopFacts DEF IInv, TypeInv
<1>2. acts' \in Seq(Activations) /\ Len(acts') = Len(acts) /\ acts'[Len(acts)] = b
  BY <1>1
<1>3. \A n \in 1 .. (Len(acts) - 1) : acts'[n] = acts[n]
  BY <1>1
<1> QED BY <1>2, <1>3 DEF TopReplaced

LEMMA GotoAtStep ==
  ASSUME IInv, NEW label \in Labels, NEW i \in Nat, GotoAt(label, i)
  PROVE  TopReplaced(Moved(Top, label, i))
<1>1. /\ acts \in Seq(Activations) /\ Len(acts) \in 1 .. Len(acts) /\ Top = acts[Len(acts)]
      /\ Top \in Activations
  BY TopFacts DEF IInv, TypeInv
<1>2. acts' = [acts EXCEPT ![Len(acts)] = Moved(Top, label, i)]
  BY <1>1 DEF GotoAt, Moved
<1> QED BY <1>1, <1>2, MovedFacts, TopUpdate

LEMMA GotoStep ==
  ASSUME IInv, NEW label \in Labels, Goto(label)
  PROVE  TopReplaced(Moved(Top, label, Top.i))
<1>1. /\ acts \in Seq(Activations) /\ Len(acts) \in 1 .. Len(acts) /\ Top = acts[Len(acts)]
      /\ Top \in Activations
  BY TopFacts DEF IInv, TypeInv
<1>2. Top.i \in Nat /\ [Top EXCEPT !.pc = label] = Moved(Top, label, Top.i)
  BY <1>1 DEF Activations, Moved
<1>3. acts' = [acts EXCEPT ![Len(acts)] = Moved(Top, label, Top.i)]
  BY <1>1, <1>2 DEF Goto
<1> QED BY <1>1, <1>2, <1>3, MovedFacts, TopUpdate

LEMMA AdjustInRange ==
  ASSUME NEW sp \in Int, NEW amount \in Int, sp + amount \in 0 .. (WordSize - 1)
  PROVE  adjustStackPointer(sp, amount) = sp + amount
<1>1. adjustStackPointer(sp, amount) = Wrap(sp + amount) /\ sp + amount \in Int
  BY AdjustExact
<1> QED BY <1>1, WrapFacts

LEMMA SetRegister ==
  ASSUME NEW R \in [Registers -> Words], NEW r \in Registers, NEW v \in Words
  PROVE  /\ [R EXCEPT ![r] = v] \in [Registers -> Words]
         /\ [R EXCEPT ![r] = v][r] = v
         /\ \A s \in Registers : s # r => [R EXCEPT ![r] = v][s] = R[s]
OBVIOUS

LEMMA RegistersFacts ==
  /\ "SP" \in Registers /\ "FP" \in Registers /\ "RA" \in Registers
  /\ ToSet(NyuziCSR) \subseteq Registers /\ "SP" \notin ToSet(NyuziCSR)
  /\ "FP" \in ToSet(NyuziCSR) /\ "RA" \in ToSet(NyuziCSR)
BY CSRFacts DEF Registers, CSRegisters

LEMMA LabelFacts ==
  {"entry", "save", "body", "args", "callup", "restore", "ret"} = Labels
BY DEF Labels

LEMMA ArgumentsKept ==
  ASSUME NEW a \in Activations, PositionOK(a), NEW b, b.args = a.args, b.entry = a.entry,
         NEW m, NEW m2, ArgumentsOK(a, m),
         \A x \in Words : a.entry.SP <= x => m2[x] = m[x]
  PROVE  ArgumentsOK(b, m2)
<1> DEFINE lo == a.entry.SP
<1> SUFFICES ASSUME NEW j \in 1 .. Len(a.args)
             PROVE  Filled(m2, lo + (j - 1) * ScalarSize, ScalarSize, a.args[j])
  BY DEF ArgumentsOK
<1> DEFINE p == lo + (j - 1) * ScalarSize
<1>1. lo \in Int
  BY Bounds
<1>2. ScalarSize \in Nat /\ p \in Nat /\ lo <= p /\ p + ScalarSize <= WordSize
  BY ArgumentRegion
<1>3. Filled(m, p, ScalarSize, a.args[j])
  BY DEF ArgumentsOK
<1>4. \A x \in Words : lo <= x => m2[x] = m[x]
  OBVIOUS
<1> HIDE DEF p, lo
<1>5. Filled(m2, p, ScalarSize, a.args[j])
  BY <1>1, <1>2, <1>3, <1>4, FilledAgree
<1> QED BY <1>5 DEF p, lo

-----------------------------------------------------------------------------
(* The actions. *)
LEMMA PrologueStep ==
  ASSUME IInv, Prologue
  PROVE  IInv'
<1> DEFINE b == Moved(Top, "save", 1)
<1>1. /\ Top \in Activations /\ PositionOK(Top) /\ RegistersOK(Top, regs) /\ MemoryOK(Top, mem)
      /\ fn = Top.fn /\ fn \in Functions /\ regs \in [Registers -> Words]
      /\ mem \in [Words -> Words] /\ Top.entry \in [Registers -> Words]
  BY TopFacts
<1>2. Top.pc = "entry" /\ regs = Top.entry
  BY <1>1 DEF Prologue, RegistersOK
<1>3. "save" \in Labels /\ 1 \in Nat
  BY LabelFacts
<1>4. TopReplaced(b)
  BY <1>3, GotoAtStep DEF Prologue
<1>5. /\ b \in Activations /\ b.pc = "save" /\ b.i = 1 /\ b.fn = Top.fn /\ b.entry = Top.entry
      /\ b.args = Top.args /\ b.locals = Top.locals /\ b.allocas = Top.allocas
      /\ b.amount = Top.amount /\ Base(b) = Base(Top) /\ Saves(b) = Saves(Top)
  BY <1>1, <1>3, MovedFacts
<1> HIDE DEF b
<1>6. PositionOK(b)
  <2>1. Len(Saves(b)) \in Nat
    BY <1>1, <1>5, ObjectsFacts DEF Saves
  <2> QED BY <1>1, <1>2, <1>5, <2>1 DEF PositionOK, Calling
<1>7. /\ Base(Top) \in Nat /\ Base(Top) + StackSize(fn) = Top.entry.SP /\ StackSize(fn) \in Nat
      /\ Top.entry.SP \in Nat /\ Top.entry.SP < WordSize /\ WordSize \in Nat
  BY <1>1, Bounds, FrameFacts, WordsFacts
<1>8. Base(Top) \in Words /\ Base(Top) <= Top.entry.SP
  BY <1>7, WordsFacts
<1>9. regs' = [Top.entry EXCEPT !.SP = Base(Top)]
  <2>1. CASE StackSize(fn) = 0 /\ ~fn.adjustsStack
    <3>1. Base(Top) = Top.entry.SP
      BY <1>7, <2>1
    <3>2. [Top.entry EXCEPT !.SP = Top.entry.SP] = Top.entry
      BY <1>1
    <3> QED BY <1>2, <2>1, <3>1, <3>2 DEF Prologue
  <2>2. CASE ~(StackSize(fn) = 0 /\ ~fn.adjustsStack)
    <3>1. Top.entry.SP + (-StackSize(fn)) = Base(Top) /\ Base(Top) \in 0 .. (WordSize - 1)
      BY <1>7
    <3>2. adjustStackPointer(Top.entry.SP, -StackSize(fn)) = Base(Top)
      BY <1>7, <3>1, AdjustInRange
    <3> QED BY <1>2, <2>2, <3>2 DEF Prologue
  <2> QED BY <2>1, <2>2
<1>10. /\ regs' \in [Registers -> Words] /\ regs'.SP = Base(Top) /\ mem' = mem
  BY <1>1, <1>8, <1>9, RegistersFacts, SetRegister DEF Prologue
<1>11. RegistersOK(b, regs')
  BY <1>5, <1>9 DEF RegistersOK, InBody, Calling
<1>12. MemoryOK(b, mem')
  <2>1. Stored(b) = {}
    BY <1>5 DEF Stored, InBody, Calling
  <2>2. ArgumentsOK(b, mem) /\ SavesOK(b, mem) /\ LocalsOK(b, mem) /\ AllocasOK(b, mem)
    BY <1>1, <1>5, <2>1 DEF MemoryOK, ArgumentsOK, SavesOK, LocalsOK, AllocasOK, InBody, Calling
  <2> QED BY <1>10, <2>2 DEF MemoryOK
<1>13. \A x \in Words : x < regs'.SP => mem'[x] = 0
  <2>1. \A x \in Words : x \in Int /\ (x < regs'.SP => x < regs.SP)
    BY <1>2, <1>7, <1>8, <1>10, WordsFacts
  <2> QED BY <1>10, <2>1 DEF IInv, NothingBelowSP
<1> QED BY <1>1, <1>4, <1>5, <1>6, <1>10, <1>11, <1>12, <1>13, TopStep

LEMMA SaveRegisterStep ==
  ASSUME IInv, SaveRegister
  PROVE  IInv'
<1> DEFINE i == Top.i
           b == Moved(Top, "save", i + 1)
           r == Saves(Top)[i]
           B == Base(Top)
           addr == B + Place(fn, i)
           size == SpillSize(r)
<1>1. /\ Top \in Activations /\ PositionOK(Top) /\ RegistersOK(Top, regs) /\ MemoryOK(Top, mem)
      /\ fn = Top.fn /\ fn \in Functions /\ regs \in [Registers -> Words] /\ CSI = Saves(Top)
      /\ mem \in [Words -> Words] /\ Top.entry \in [Registers -> Words]
  BY TopFacts
<1>2. Top.pc = "save" /\ regs = [Top.entry EXCEPT !.SP = B] /\ Len(Saves(Top)) \in Nat
  BY <1>1, ObjectsFacts DEF SaveRegister, RegistersOK, Saves
<1>3. i \in 1 .. Len(Saves(Top)) /\ i + 1 \in Nat /\ i \in Nat
  BY <1>1, <1>2 DEF SaveRegister, PositionOK
<1>4. "save" \in Labels
  BY LabelFacts
<1>5. TopReplaced(b)
  BY <1>3, <1>4, GotoAtStep DEF SaveRegister
<1>6. /\ b \in Activations /\ b.pc = "save" /\ b.i = i + 1 /\ b.fn = Top.fn /\ b.entry = Top.entry
      /\ b.args = Top.args /\ b.locals = Top.locals /\ b.allocas = Top.allocas
      /\ b.amount = Top.amount /\ Base(b) = B /\ Saves(b) = Saves(Top)
  BY <1>1, <1>3, <1>4, MovedFacts
<1> HIDE DEF b
<1>7. PositionOK(b)
  BY <1>1, <1>2, <1>3, <1>6 DEF PositionOK, Calling
<1>8. /\ regs.SP = B /\ regs[r] = Top.entry[r] /\ Top.entry[r] \in Words /\ r \in Registers
  BY <1>1, <1>2, <1>3, SaveRegion, RegistersFacts
<1>9. mem' = Store(addr, size, Top.entry[r])
  <2>1. ObjectAddress(i) = addr
    BY <1>3, <1>8, SaveAddress
  <2> QED BY <1>1, <1>8, <2>1 DEF SaveRegister
<1>10. /\ i \in 1 .. Len(Objects(fn)) /\ Objects(fn)[i].size = size
  BY <1>1, <1>3, SaveRegion
<1>11. /\ size \in Nat /\ addr \in Nat /\ B <= B + CallFrame(fn) /\ B + CallFrame(fn) <= addr
       /\ addr + size <= Top.entry.SP /\ addr + size <= WordSize
  BY <1>1, <1>10, ObjectRegion
<1>12. B \in Nat /\ Top.entry.SP \in Nat /\ CallFrame(fn) \in Nat
  BY <1>1, Bounds, FunctionTypes
<1> DEFINE v == Top.entry[r]
<1>13. TypeInv
  BY DEF IInv
<1>14. /\ mem' \in [Words -> Words] /\ Filled(mem', addr, size, v)
       /\ \A x \in Words : x < addr \/ addr + size <= x => mem'[x] = mem[x]
  <2> HIDE DEF addr, size
  <2> QED BY <1>8, <1>9, <1>11, <1>13, StoreIs
<1>15. UNCHANGED regs
  BY DEF SaveRegister
<1>16. RegistersOK(b, regs')
  BY <1>2, <1>6, <1>15 DEF RegistersOK, InBody, Calling
<1>17. \A x \in Words : Top.entry.SP <= x => mem'[x] = mem[x]
  <2> HIDE DEF addr, size
  <2>1. \A x \in Words : Top.entry.SP <= x => addr + size <= x
    BY <1>11, <1>12, WordsFacts
  <2> QED BY <1>14, <2>1
<1>18. \A x \in Words : x < regs'.SP => mem'[x] = 0
  <2> HIDE DEF addr, size, B
  <2>1. \A x \in Words : x < B => x < addr
    BY <1>11, <1>12, WordsFacts
  <2>2. \A x \in Words : x < B => mem[x] = 0
    BY <1>8 DEF IInv, NothingBelowSP
  <2> QED BY <1>8, <1>14, <1>15, <2>1, <2>2
<1>19. ArgumentsOK(b, mem')
  <2>1. ArgumentsOK(Top, mem)
    BY <1>1 DEF MemoryOK
  <2> QED BY <1>1, <1>6, <1>17, <2>1, ArgumentsKept
<1>20. SavesOK(b, mem')
  <2>1. SavesOK(Top, mem)
    BY <1>1 DEF MemoryOK
  <2> SUFFICES ASSUME NEW j \in Stored(b)
               PROVE  Filled(mem', B + Place(fn, j), SpillSize(Saves(Top)[j]), Top.entry[Saves(Top)[j]])
    BY <1>1, <1>6 DEF SavesOK
  <2>2. j \in 1 .. Len(Saves(Top)) /\ j < i + 1
    BY <1>6 DEF Stored, InBody, Calling
  <2>3. CASE j = i
    BY <1>14, <2>3
  <2>4. CASE j # i
    <3> DEFINE p == B + Place(fn, j)
               z == SpillSize(Saves(Top)[j])
    <3>1. j < i /\ j \in Stored(Top)
      BY <1>2, <1>3, <2>2, <2>4 DEF Stored
    <3>2. j \in 1 .. Len(Objects(fn)) /\ Objects(fn)[j].size = z
      BY <1>1, <2>2, SaveRegion
    <3>3. z \in Nat /\ p \in Nat /\ p + z <= WordSize
      BY <1>1, <3>2, ObjectRegion
    <3>4. addr + size <= p
      <4>1. /\ Place(fn, i) + size <= Place(fn, j) /\ Place(fn, i) \in Nat /\ Place(fn, j) \in Nat
        BY <1>1, <1>10, <3>1, <3>2, FrameFacts
      <4> HIDE DEF B, size
      <4> QED BY <1>11, <1>12, <4>1
    <3>5. Filled(mem, p, z, Top.entry[Saves(Top)[j]])
      BY <1>1, <2>1, <3>1 DEF SavesOK
    <3> HIDE DEF p, z, addr, size
    <3>6. Filled(mem', p, z, Top.entry[Saves(Top)[j]])
      BY <1>8, <1>9, <1>11, <1>13, <3>3, <3>4, <3>5, FilledApart
    <3> QED BY <3>6 DEF p, z
  <2> QED BY <2>3, <2>4
<1>21. MemoryOK(b, mem')
  BY <1>6, <1>19, <1>20 DEF MemoryOK, LocalsOK, AllocasOK, InBody, Calling
<1> QED BY <1>1, <1>5, <1>6, <1>7, <1>14, <1>15, <1>16, <1>17, <1>18, <1>21, TopStep

LEMMA SetFramePointerStep ==
  ASSUME IInv, SetFramePointer
  PROVE  IInv'
<1> DEFINE i == Top.i
           b == Moved(Top, "body", i)
           B == Base(Top)
<1>1. /\ Top \in Activations /\ PositionOK(Top) /\ RegistersOK(Top, regs) /\ MemoryOK(Top, mem)
      /\ fn = Top.fn /\ fn \in Functions /\ regs \in [Registers -> Words] /\ CSI = Saves(Top)
      /\ mem \in [Words -> Words] /\ Top.entry \in [Registers -> Words]
  BY TopFacts
<1>2. /\ Top.pc = "save" /\ regs = [Top.entry EXCEPT !.SP = B] /\ Len(Saves(Top)) \in Nat
      /\ regs.SP = B
  BY <1>1, ObjectsFacts, RegistersFacts DEF SetFramePointer, RegistersOK, Saves
<1>3. i = Len(Saves(Top)) + 1 /\ i \in Nat
  BY <1>1, <1>2 DEF SetFramePointer, PositionOK
<1>4. "body" \in Labels
  BY LabelFacts
<1>5. TopReplaced(b)
  BY <1>3, <1>4, GotoStep DEF SetFramePointer
<1>6. /\ b \in Activations /\ b.pc = "body" /\ b.i = i /\ b.fn = Top.fn /\ b.entry = Top.entry
      /\ b.args = Top.args /\ b.locals = Top.locals /\ b.allocas = Top.allocas
      /\ b.amount = Top.amount /\ Base(b) = B /\ Saves(b) = Saves(Top)
  BY <1>1, <1>3, <1>4, MovedFacts
<1> HIDE DEF b
<1>7. /\ Top.allocas = <<>> /\ Top.amount = 0
      /\ \A k \in 1 .. Len(Top.locals) : Top.locals[k] = -1
  BY <1>1, <1>2 DEF PositionOK, Calling
<1>8. PositionOK(b)
  BY <1>1, <1>2, <1>6, <1>7 DEF PositionOK, Calling
<1>9. /\ B \in Nat /\ B \in Words /\ StackAlign \in Nat
  <2>1. /\ B \in Nat /\ B + StackSize(fn) = Top.entry.SP /\ StackSize(fn) \in Nat
        /\ Top.entry.SP \in Nat /\ Top.entry.SP < WordSize
    BY <1>1, Bounds, FrameFacts
  <2> QED BY <2>1, WordsFacts, RoomFacts
<1>10. regs' = (IF hasFP(fn) THEN [regs EXCEPT !.FP = B] ELSE regs) /\ mem' = mem
  BY <1>2 DEF SetFramePointer
<1>11. /\ regs' \in [Registers -> Words] /\ regs'.SP = B
       /\ hasFP(fn) => regs'.FP = B
       /\ \A r \in ToSet(NyuziCSR) \ SavedRegs(fn) : regs'[r] = Top.entry[r]
  <2>1. hasFP(fn) => "FP" \in SavedRegs(fn)
    BY <1>1, SavedTypes
  <2> QED BY <1>1, <1>2, <1>9, <1>10, <2>1, RegistersFacts
<1>12. RegistersOK(b, regs')
  <2>1. Len(b.allocas) * StackAlign = 0 /\ Pushed(b) = 0
    BY <1>6, <1>7, <1>9 DEF Pushed
  <2>2. B = B - 0 - 0
    BY <1>9
  <2> QED BY <1>1, <1>6, <1>11, <2>1, <2>2 DEF RegistersOK, InBody, Calling
<1>13. MemoryOK(b, mem')
  <2>1. Stored(b) = Stored(Top)
    BY <1>2, <1>3, <1>6 DEF Stored, InBody, Calling
  <2>2. ArgumentsOK(b, mem) /\ SavesOK(b, mem)
    BY <1>1, <1>6, <2>1 DEF MemoryOK, ArgumentsOK, SavesOK
  <2>3. LocalsOK(b, mem) /\ AllocasOK(b, mem)
    BY <1>6, <1>7 DEF LocalsOK, AllocasOK
  <2> QED BY <1>10, <2>2, <2>3 DEF MemoryOK
<1>14. \A x \in Words : x < regs'.SP => mem'[x] = 0
  BY <1>2, <1>10, <1>11 DEF IInv, NothingBelowSP
<1> QED BY <1>1, <1>5, <1>6, <1>8, <1>10, <1>11, <1>12, <1>13, <1>14, TopStep

LEMMA ComputedWords ==
  ASSUME IInv
  PROVE  /\ Computed(RegisterUse) \subseteq Words /\ Computed(AllocaUse) \subseteq Words
         /\ Computed(ArgumentUse) \subseteq Words
         /\ \A k \in DOMAIN fn.locals : Computed(LocalUse(k)) \subseteq Words
<1>1. /\ Len(acts) \in 1 .. MaxNesting /\ fn \in Functions
  BY TopFacts DEF IInv, TypeInv
<1>2. Len(fn.locals) \in Nat /\ DOMAIN fn.locals = 1 .. Len(fn.locals)
  BY <1>1, ObjectsFacts
<1>3. \A use \in 0 .. (2 + Len(fn.locals)) : Computed(use) \subseteq Words
  BY <1>1, DataAssumption DEF Computed, LocalUse
<1>4. /\ 0 \in 0 .. (2 + Len(fn.locals)) /\ 1 \in 0 .. (2 + Len(fn.locals))
      /\ 2 \in 0 .. (2 + Len(fn.locals))
      /\ \A k \in DOMAIN fn.locals : 2 + k \in 0 .. (2 + Len(fn.locals))
  BY <1>2
<1> QED BY <1>3, <1>4 DEF RegisterUse, AllocaUse, ArgumentUse, LocalUse

LEMMA WriteRegisterStep ==
  ASSUME IInv, NEW r, NEW v \in Words, WriteRegister(r, v)
  PROVE  IInv'
<1> DEFINE B == Base(Top)
<1>1. /\ Top \in Activations /\ PositionOK(Top) /\ RegistersOK(Top, regs) /\ MemoryOK(Top, mem)
      /\ fn = Top.fn /\ fn \in Functions /\ regs \in [Registers -> Words]
      /\ mem \in [Words -> Words] /\ Top = acts[Len(acts)] /\ Len(acts) \in 1 .. Len(acts)
  BY TopFacts
<1>2. Top.pc = "body" /\ r \in fn.modified /\ acts' = acts /\ mem' = mem /\ regs' = [regs EXCEPT ![r] = v]
  BY DEF WriteRegister
<1>3. r \in SavedRegs(fn) /\ r # "FP" /\ r \in ToSet(NyuziCSR) /\ r # "SP" /\ r \in Registers
  BY <1>1, <1>2, SavedTypes, RegistersFacts DEF CSRegisters
<1>4. /\ regs' \in [Registers -> Words]
      /\ \A s \in Registers : s # r => regs'[s] = regs[s]
  BY <1>1, <1>2, <1>3, SetRegister
<1>5. TopReplaced(Top)
  BY <1>1, <1>2 DEF TopReplaced, IInv, TypeInv
<1>6. regs'.SP = regs.SP /\ regs'.FP = regs.FP
  BY <1>3, <1>4, RegistersFacts
<1>7. RegistersOK(Top, regs')
  BY <1>1, <1>2, <1>3, <1>4, <1>6, RegistersFacts DEF RegistersOK, InBody
<1>8. \A x \in Words : x < regs'.SP => mem'[x] = 0
  BY <1>2, <1>6 DEF IInv, NothingBelowSP
<1> QED BY <1>1, <1>2, <1>4, <1>5, <1>7, <1>8, TopStep

LEMMA WriteLocalStep ==
  ASSUME IInv, NEW k \in DOMAIN fn.locals, NEW v \in Words, WriteLocal(k, v)
  PROVE  IInv'
<1> DEFINE b == [Top EXCEPT !.locals[k] = v]
           B == Base(Top)
           i == LocalIndex(fn, k)
           addr == B + Place(fn, i)
           size == fn.locals[k].size
<1>1. /\ Top \in Activations /\ PositionOK(Top) /\ RegistersOK(Top, regs) /\ MemoryOK(Top, mem)
      /\ fn = Top.fn /\ fn \in Functions /\ regs \in [Registers -> Words]
      /\ mem \in [Words -> Words] /\ Top = acts[Len(acts)] /\ Len(acts) \in 1 .. Len(acts)
      /\ acts \in Seq(Activations)
  BY TopFacts DEF IInv, TypeInv
<1>2. Top.pc = "body" /\ regs' = regs
  BY DEF WriteLocal
<1>3. k \in 1 .. Len(Top.locals) /\ Len(Top.locals) \in Nat /\ Top.locals \in Seq(Words \cup {-1})
  BY <1>1, ObjectsFacts DEF PositionOK, Activations
<1>4. /\ b \in Activations /\ b.pc = Top.pc /\ b.i = Top.i /\ b.fn = Top.fn /\ b.entry = Top.entry
      /\ b.args = Top.args /\ b.locals = [Top.locals EXCEPT ![k] = v] /\ b.allocas = Top.allocas
      /\ b.amount = Top.amount
  <2>1. [Top.locals EXCEPT ![k] = v] \in Seq(Words \cup {-1})
    BY <1>3
  <2> QED BY <1>1, <2>1 DEF Activations
<1>5. TopReplaced(b)
  <2>1. acts' = [acts EXCEPT ![Len(acts)] = b]
    BY <1>1 DEF WriteLocal
  <2> HIDE DEF b
  <2> QED BY <1>4, <2>1, TopUpdate
<1> HIDE DEF b
<1>6. /\ Base(b) = B /\ Saves(b) = Saves(Top) /\ Pushed(b) = Pushed(Top)
      /\ Len(b.locals) = Len(Top.locals) /\ b.locals[k] = v
      /\ \A l \in 1 .. Len(Top.locals) : l # k => b.locals[l] = Top.locals[l]
  BY <1>3, <1>4 DEF Base, Saves, Pushed
<1>7. PositionOK(b)
  BY <1>1, <1>2, <1>4, <1>6 DEF PositionOK, Calling
<1>8. RegistersOK(b, regs')
  BY <1>1, <1>2, <1>4, <1>6 DEF RegistersOK, InBody, Calling
<1>9. mem' = Store(addr, size, v)
  <2>1. ObjectAddress(i) = addr
    BY <1>2, <1>3, LocalAddress
  <2> QED BY <2>1 DEF WriteLocal
<1>10. /\ i \in 1 .. Len(Objects(fn)) /\ Objects(fn)[i].size = size
       /\ \A j \in 1 .. Len(Saves(Top)) : j < i
  BY <1>1, <1>3, LocalRegion
<1> HIDE DEF i, size
<1>11. /\ size \in Nat /\ addr \in Nat /\ B <= B + CallFrame(fn) /\ B + CallFrame(fn) <= addr
       /\ addr + size <= Top.entry.SP /\ addr + size <= WordSize
  BY <1>1, <1>10, ObjectRegion
<1>12. /\ B \in Nat /\ Top.entry.SP \in Nat /\ CallFrame(fn) \in Nat
  BY <1>1, Bounds, FunctionTypes
<1>13. B <= addr /\ regs.SP \in Nat /\ regs.SP <= addr
  <2>1. /\ regs.SP = B - Len(Top.allocas) * StackAlign /\ regs.SP \in Nat
        /\ Len(Top.allocas) * StackAlign \in Nat
    BY <1>1, <1>2, FramePointer, Bounds
  <2> HIDE DEF addr, B
  <2> QED BY <1>11, <1>12, <2>1
<1>14. TypeInv
  BY DEF IInv
<1> HIDE DEF addr
<1>15. /\ mem' \in [Words -> Words] /\ Filled(mem', addr, size, v)
       /\ \A x \in Words : x < addr \/ addr + size <= x => mem'[x] = mem[x]
  BY <1>9, <1>11, <1>14, StoreIs
<1>16. \A x \in Words : Top.entry.SP <= x => mem'[x] = mem[x]
  <2>1. \A x \in Words : Top.entry.SP <= x => addr + size <= x
    BY <1>11, <1>12, WordsFacts
  <2> QED BY <1>15, <2>1
<1>17. \A x \in Words : x < regs'.SP => mem'[x] = 0
  <2>1. \A x \in Words : x < regs.SP => x < addr
    BY <1>11, <1>13, WordsFacts
  <2>2. \A x \in Words : x < regs.SP => mem[x] = 0
    BY DEF IInv, NothingBelowSP
  <2> QED BY <1>2, <1>15, <2>1, <2>2
<1>18. ASSUME NEW p \in Nat, NEW z \in Nat, NEW w, p + z <= WordSize,
              addr + size <= p \/ p + z <= addr, Filled(mem, p, z, w)
       PROVE  Filled(mem', p, z, w)
  BY <1>9, <1>11, <1>14, <1>18, FilledApart
<1>19. ArgumentsOK(b, mem')
  <2>1. ArgumentsOK(Top, mem)
    BY <1>1 DEF MemoryOK
  <2> QED BY <1>1, <1>4, <1>16, <2>1, ArgumentsKept
<1>20. SavesOK(b, mem')
  <2>1. SavesOK(Top, mem) /\ Stored(b) = Stored(Top)
    BY <1>1, <1>4, <1>6 DEF MemoryOK, Stored
  <2> SUFFICES ASSUME NEW j \in Stored(Top)
               PROVE  Filled(mem', B + Place(fn, j), SpillSize(Saves(Top)[j]), Top.entry[Saves(Top)[j]])
    BY <1>1, <1>4, <1>6, <2>1 DEF SavesOK
  <2> DEFINE p == B + Place(fn, j)
             z == SpillSize(Saves(Top)[j])
  <2>2. j \in 1 .. Len(Saves(Top)) /\ j < i
    BY <1>10 DEF Stored
  <2>3. j \in 1 .. Len(Objects(fn)) /\ Objects(fn)[j].size = z
    BY <1>1, <2>2, SaveRegion
  <2>4. z \in Nat /\ p \in Nat /\ p + z <= WordSize
    BY <1>1, <2>3, ObjectRegion
  <2>5. addr + size <= p
    <3>1. /\ Place(fn, i) + size <= Place(fn, j) /\ Place(fn, i) \in Nat /\ Place(fn, j) \in Nat
      BY <1>1, <1>10, <2>2, <2>3, FrameFacts
    <3> HIDE DEF B
    <3> QED BY <1>11, <1>12, <3>1 DEF addr
  <2>6. Filled(mem, p, z, Top.entry[Saves(Top)[j]])
    BY <1>1, <2>1 DEF SavesOK
  <2> HIDE DEF p, z
  <2>7. Filled(mem', p, z, Top.entry[Saves(Top)[j]])
    BY <1>18, <2>4, <2>5, <2>6
  <2> QED BY <2>7 DEF p, z
<1>21. LocalsOK(b, mem')
  <2>1. LocalsOK(Top, mem)
    BY <1>1 DEF MemoryOK
  <2> SUFFICES ASSUME NEW l \in 1 .. Len(Top.locals), b.locals[l] # -1
               PROVE  Filled(mem', B + Place(fn, LocalIndex(fn, l)), fn.locals[l].size, b.locals[l])
    BY <1>1, <1>4, <1>6 DEF LocalsOK
  <2>2. CASE l = k
    BY <1>6, <1>15, <2>2 DEF addr, i, size
  <2>3. CASE l # k
    <3> DEFINE j == LocalIndex(fn, l)
               p == B + Place(fn, j)
               z == fn.locals[l].size
    <3>1. j \in 1 .. Len(Objects(fn)) /\ Objects(fn)[j].size = z
      BY <1>1, LocalRegion
    <3>2. j < i \/ i < j
      <4>1. k \in 1 .. Len(fn.locals) /\ l \in 1 .. Len(fn.locals) /\ (k < l \/ l < k)
        BY <1>1, <1>3, <2>3, LocalRegion
      <4> QED BY <1>1, <4>1, ObjectsFacts DEF i
    <3> HIDE DEF j, z
    <3>3. z \in Nat /\ p \in Nat /\ p + z <= WordSize
      BY <1>1, <3>1, ObjectRegion
    <3>4. addr + size <= p \/ p + z <= addr
      <4>1. Place(fn, i) \in Nat /\ Place(fn, j) \in Nat
        BY <1>1, <1>10, <3>1, FrameFacts
      <4>2. Place(fn, i) + size <= Place(fn, j) \/ Place(fn, j) + z <= Place(fn, i)
        BY <1>1, <1>10, <3>1, <3>2, FrameFacts
      <4> HIDE DEF B
      <4> QED BY <1>11, <1>12, <3>3, <4>1, <4>2 DEF addr
    <3>5. Filled(mem, p, z, Top.locals[l]) /\ b.locals[l] = Top.locals[l]
      BY <1>1, <1>2, <1>6, <2>1, <2>3 DEF LocalsOK, InBody, j, z
    <3> HIDE DEF p
    <3>6. Filled(mem', p, z, b.locals[l])
      BY <1>18, <3>3, <3>4, <3>5
    <3> QED BY <3>6 DEF p, z, j
  <2> QED BY <2>2, <2>3
<1>22. AllocasOK(b, mem')
  <2>1. AllocasOK(Top, mem)
    BY <1>1 DEF MemoryOK
  <2> SUFFICES ASSUME NEW n \in 1 .. Len(Top.allocas)
               PROVE  /\ Top.allocas[n][1] = B - n * StackAlign
                      /\ Filled(mem', B - n * StackAlign, StackAlign, Top.allocas[n][2])
    BY <1>4, <1>6 DEF AllocasOK
  <2> DEFINE p == B - n * StackAlign
  <2>2. p \in Nat /\ p + StackAlign <= B /\ p + StackAlign <= WordSize /\ StackAlign \in Nat
    BY <1>1, AllocaRegion, RoomFacts
  <2>3. Top.allocas[n][1] = p /\ Filled(mem, p, StackAlign, Top.allocas[n][2])
    BY <1>2, <2>1 DEF AllocasOK, InBody
  <2> HIDE DEF p
  <2>4. p + StackAlign <= addr
    <3> HIDE DEF B
    <3> QED BY <1>11, <1>12, <1>13, <2>2
  <2>5. Filled(mem', p, StackAlign, Top.allocas[n][2])
    BY <1>18, <2>2, <2>3, <2>4
  <2> QED BY <2>3, <2>5 DEF p
<1>23. MemoryOK(b, mem')
  BY <1>19, <1>20, <1>21, <1>22 DEF MemoryOK
<1> QED BY <1>1, <1>2, <1>4, <1>5, <1>7, <1>8, <1>15, <1>16, <1>17, <1>23, TopStep

LEMMA AllocaStep ==
  ASSUME IInv, NEW v \in Words, Alloca(v)
  PROVE  IInv'
<1> DEFINE addr == Wrap(regs.SP - StackAlign)
           b == [Top EXCEPT !.allocas = Append(@, <<addr, v>>)]
           B == Base(Top)
           n == Len(Top.allocas)
<1>1. /\ Top \in Activations /\ PositionOK(Top) /\ RegistersOK(Top, regs) /\ MemoryOK(Top, mem)
      /\ fn = Top.fn /\ fn \in Functions /\ regs \in [Registers -> Words]
      /\ mem \in [Words -> Words] /\ Top = acts[Len(acts)] /\ Len(acts) \in 1 .. Len(acts)
      /\ acts \in Seq(Activations)
  BY TopFacts DEF IInv, TypeInv
<1>2. /\ Top.pc = "body" /\ fn.varSized /\ n < MaxAllocas
      /\ regs' = [regs EXCEPT !.SP = addr] /\ mem' = Store(addr, StackAlign, v)
      /\ acts' = [acts EXCEPT ![Len(acts)].allocas = Append(@, <<addr, v>>)]
  BY DEF Alloca
<1>3. /\ B \in Nat /\ n \in Nat /\ n * StackAlign \in Nat /\ Top.entry.SP \in Nat
      /\ B + StackSize(fn) = Top.entry.SP /\ Top.entry.SP < WordSize
      /\ StackSize(fn) \in Nat /\ StackAlign \in Nat \ {0} /\ MaxAllocas \in Nat
  BY <1>1, Bounds, FrameFacts, RoomFacts
<1>4. regs.SP = B - n * StackAlign /\ regs.SP \in Nat
  BY <1>2, FramePointer
<1>5. addr \in Words
  <2>1. regs.SP - StackAlign \in Int
    BY <1>3, <1>4
  <2> QED BY <2>1, WrapFacts, WordsFacts
<1>6. Top.allocas \in Seq(Words \X Words) /\ <<addr, v>> \in Words \X Words
  BY <1>1, <1>5 DEF Activations
<1> HIDE DEF addr
<1>7. /\ b \in Activations /\ b.pc = "body" /\ b.i = Top.i /\ b.fn = Top.fn /\ b.entry = Top.entry
      /\ b.args = Top.args /\ b.locals = Top.locals /\ b.allocas = Append(Top.allocas, <<addr, v>>)
      /\ b.amount = Top.amount
  <2>1. Append(Top.allocas, <<addr, v>>) \in Seq(Words \X Words)
    BY <1>6
  <2> QED BY <1>1, <1>2, <2>1 DEF Activations
<1>8. TopReplaced(b)
  <2>1. acts' = [acts EXCEPT ![Len(acts)] = b]
    BY <1>1, <1>2
  <2> HIDE DEF b
  <2> QED BY <1>7, <2>1, TopUpdate
<1> HIDE DEF b
<1>9. /\ Base(b) = B /\ Saves(b) = Saves(Top) /\ Pushed(b) = Pushed(Top)
      /\ Len(b.allocas) = n + 1 /\ b.allocas[n + 1] = <<addr, v>>
      /\ \A m \in 1 .. n : b.allocas[m] = Top.allocas[m]
  <2>1. Base(b) = B /\ Saves(b) = Saves(Top) /\ Pushed(b) = Pushed(Top)
    BY <1>7 DEF Base, Saves, Pushed
  <2> QED BY <1>6, <1>7, <2>1
<1>10. PositionOK(b)
  <2>1. n + 1 <= MaxAllocas
    BY <1>2, <1>3
  <2> QED BY <1>1, <1>2, <1>7, <1>9, <2>1 DEF PositionOK, Calling
<1>11. Pushed(b) = 0
  BY <1>7, <1>10 DEF PositionOK, Pushed, Calling
<1>12. /\ addr = B - (n + 1) * StackAlign /\ addr = regs.SP - StackAlign /\ addr \in Nat
       /\ addr + StackAlign <= B /\ addr + StackAlign <= WordSize /\ addr < regs.SP
       /\ addr + StackAlign = regs.SP
  <2>1. n + 1 \in 1 .. Len(b.allocas)
    BY <1>3, <1>9
  <2>2. /\ B - (n + 1) * StackAlign \in Nat /\ B - (n + 1) * StackAlign + StackAlign <= B
        /\ B - (n + 1) * StackAlign + StackAlign <= WordSize
    BY <1>7, <1>9, <1>10, <2>1, AllocaRegion
  <2>3. (n + 1) * StackAlign = n * StackAlign + StackAlign
    BY <1>3
  <2> DEFINE q == n * StackAlign
             x == regs.SP - StackAlign
  <2>4. /\ q \in Nat /\ regs.SP = B - q /\ B - (q + StackAlign) \in Nat
        /\ B - (q + StackAlign) + StackAlign <= B /\ B - (q + StackAlign) + StackAlign <= WordSize
    BY <1>3, <1>4, <2>2, <2>3
  <2> HIDE DEF q
  <2>5. /\ x = B - (q + StackAlign) /\ x \in Nat /\ x \in 0 .. (WordSize - 1) /\ x + StackAlign <= B
        /\ x + StackAlign <= WordSize /\ x < regs.SP /\ x + StackAlign = regs.SP
    <3> DEFINE sp == regs.SP
    <3>1. /\ sp \in Nat /\ sp = B - q /\ B \in Nat /\ x = sp - StackAlign
          /\ B - (q + StackAlign) \in Nat /\ B - (q + StackAlign) + StackAlign <= WordSize
      BY <1>3, <1>4, <2>4
    <3> HIDE DEF sp, B, x
    <3>2. x = B - (q + StackAlign) /\ x \in Nat /\ x + StackAlign <= WordSize
      BY <1>3, <2>4, <3>1
    <3>3. x \in 0 .. (WordSize - 1)
      BY <1>3, <3>2, WordsFacts
    <3>4. x + StackAlign <= B /\ x < sp /\ x + StackAlign = sp
      BY <1>3, <2>4, <3>1
    <3> QED BY <3>2, <3>3, <3>4 DEF sp
  <2>6. addr = x
    <3> HIDE DEF x
    <3>1. addr = Wrap(x)
      BY DEF addr, x
    <3> QED BY <2>5, <3>1, WrapFacts
  <2> HIDE DEF x
  <2>7. B - (n + 1) * StackAlign = x
    BY <2>3, <2>5 DEF q
  <2>8. addr = regs.SP - StackAlign
    BY <2>6 DEF x
  <2> QED BY <2>5, <2>6, <2>7, <2>8
<1>13. /\ regs' \in [Registers -> Words] /\ regs'.SP = addr
       /\ \A s \in Registers : s # "SP" => regs'[s] = regs[s]
  BY <1>1, <1>2, <1>5, RegistersFacts, SetRegister
<1>14. RegistersOK(b, regs')
  <2>1. addr = B - (n + 1) * StackAlign - 0
    BY <1>12
  <2>2. hasFP(Top.fn) => regs.FP = B
    BY <1>1, <1>2 DEF RegistersOK, InBody
  <2>3. \A r \in ToSet(NyuziCSR) \ SavedRegs(Top.fn) : regs[r] = Top.entry[r]
    BY <1>1, <1>2 DEF RegistersOK, InBody
  <2>4. \A r \in ToSet(NyuziCSR) : regs'[r] = regs[r]
    BY <1>13, RegistersFacts
  <2> QED BY <1>7, <1>9, <1>11, <1>13, <2>1, <2>2, <2>3, <2>4, RegistersFacts
          DEF RegistersOK, InBody, Calling
<1>15. TypeInv
  BY DEF IInv
<1>16. /\ mem' \in [Words -> Words] /\ Filled(mem', addr, StackAlign, v)
       /\ \A x \in Words : x < addr \/ addr + StackAlign <= x => mem'[x] = mem[x]
  BY <1>2, <1>3, <1>12, <1>15, StoreIs
<1>17. \A x \in Words : regs.SP <= x => mem'[x] = mem[x]
  BY <1>12, <1>16
<1>18. \A x \in Words : Top.entry.SP <= x => mem'[x] = mem[x]
  <2>1. regs.SP <= Top.entry.SP
    BY <1>3, <1>4
  <2>2. \A x \in Words : Top.entry.SP <= x => regs.SP <= x
    BY <1>3, <1>4, <2>1, WordsFacts
  <2> QED BY <1>17, <2>2
<1>19. \A x \in Words : x < regs'.SP => mem'[x] = 0
  <2>1. \A x \in Words : x < addr => x < regs.SP
    BY <1>4, <1>12, WordsFacts
  <2>2. \A x \in Words : x < regs.SP => mem[x] = 0
    BY DEF IInv, NothingBelowSP
  <2> QED BY <1>13, <1>16, <2>1, <2>2
<1>20. MemoryOK(Top, mem')
  <2> DEFINE lo == regs.SP
  <2>1. lo <= Top.entry.SP /\ lo <= B + CallFrame(fn) /\ lo <= B - n * StackAlign /\ lo \in Int
    <3>1. CallFrame(fn) \in Nat
      BY <1>1, FunctionTypes
    <3> HIDE DEF B
    <3> QED BY <1>3, <1>4, <3>1
  <2>2. \A x \in Words : lo <= x => mem'[x] = mem[x]
    BY <1>17
  <2> HIDE DEF lo
  <2> QED BY <1>1, <2>1, <2>2, MemoryAbove
<1>21. AllocasOK(b, mem')
  <2> SUFFICES ASSUME NEW m \in 1 .. (n + 1)
               PROVE  /\ b.allocas[m][1] = B - m * StackAlign
                      /\ Filled(mem', B - m * StackAlign, StackAlign, b.allocas[m][2])
    BY <1>9 DEF AllocasOK
  <2>1. CASE m = n + 1
    BY <1>9, <1>12, <1>16, <2>1
  <2>2. CASE m # n + 1
    <3>1. m \in 1 .. n
      BY <1>3, <2>2
    <3> QED BY <1>2, <1>9, <1>20, <3>1 DEF MemoryOK, AllocasOK, InBody
  <2> QED BY <2>1, <2>2
<1>22. MemoryOK(b, mem')
  <2>1. Stored(b) = Stored(Top)
    BY <1>2, <1>7, <1>9 DEF Stored
  <2>2. ArgumentsOK(b, mem') /\ SavesOK(b, mem') /\ LocalsOK(b, mem')
    BY <1>2, <1>7, <1>9, <1>20, <2>1 DEF MemoryOK, ArgumentsOK, SavesOK, LocalsOK
  <2> QED BY <1>21, <2>2 DEF MemoryOK
<1> QED BY <1>1, <1>7, <1>8, <1>10, <1>13, <1>14, <1>16, <1>18, <1>19, <1>22, TopStep

(* Which registers of the body SP changes. *)
LEMMA BodyRegisters ==
  ASSUME NEW a \in Activations, NEW b, NEW R \in [Registers -> Words], NEW sp \in Words,
         RegistersOK(a, R), a.pc \in InBody, b.pc \in InBody, b.fn = a.fn, b.entry = a.entry,
         sp = Base(a) - Len(b.allocas) * StackAlign - Pushed(b)
  PROVE  /\ [R EXCEPT !.SP = sp] \in [Registers -> Words] /\ [R EXCEPT !.SP = sp].SP = sp
         /\ RegistersOK(b, [R EXCEPT !.SP = sp])
<1> DEFINE S == [R EXCEPT !.SP = sp]
<1>1. /\ S \in [Registers -> Words] /\ S.SP = sp
      /\ \A s \in Registers : s # "SP" => S[s] = R[s]
  BY RegistersFacts, SetRegister
<1> HIDE DEF S
<1>2. Base(b) = Base(a)
  BY DEF Base
<1>3. hasFP(b.fn) => S.FP = Base(b)
  BY <1>1, <1>2, RegistersFacts DEF RegistersOK
<1>4. \A r \in ToSet(NyuziCSR) \ SavedRegs(b.fn) : S[r] = b.entry[r]
  <2>1. \A r \in ToSet(NyuziCSR) \ SavedRegs(a.fn) : R[r] = a.entry[r]
    BY DEF RegistersOK
  <2>2. \A r \in ToSet(NyuziCSR) : S[r] = R[r]
    BY <1>1, RegistersFacts
  <2> QED BY <2>1, <2>2
<1>5. RegistersOK(b, S)
  BY <1>1, <1>2, <1>3, <1>4 DEF RegistersOK, InBody, Calling
<1> QED BY <1>1, <1>5 DEF S

LEMMA AdjCallStackDownStep ==
  ASSUME IInv, NEW size \in Nat, AdjCallStackDown(size)
  PROVE  IInv'
<1> DEFINE A == alignTo(size, StackAlign)
           b == [Top EXCEPT !.pc = "args", !.i = size, !.amount = A]
           B == Base(Top)
           q == Len(Top.allocas) * StackAlign
           sp == B - q - Pushed(b)
<1>1. /\ Top \in Activations /\ PositionOK(Top) /\ RegistersOK(Top, regs) /\ MemoryOK(Top, mem)
      /\ fn = Top.fn /\ fn \in Functions /\ regs \in [Registers -> Words]
      /\ mem \in [Words -> Words] /\ Top = acts[Len(acts)] /\ Len(acts) \in 1 .. Len(acts)
      /\ acts \in Seq(Activations)
  BY TopFacts DEF IInv, TypeInv
<1>2. /\ Top.pc = "body" /\ fn.adjustsStack /\ Len(acts) < MaxNesting /\ A <= fn.maxCall
      /\ regs' = [regs EXCEPT !.SP = CallStackAdjust(regs.SP, -A)]
      /\ acts' = [acts EXCEPT ![Len(acts)].pc = "args", ![Len(acts)].i = size,
                              ![Len(acts)].amount = A]
      /\ mem' = mem
  BY DEF AdjCallStackDown
<1>3. A \in Nat /\ size <= A /\ A % StackAlign = 0
  <2>1. A \in Nat /\ A >= size /\ Multiple(A, StackAlign) /\ StackAlign \in Nat \ {0}
    BY AlignTo, RoomFacts
  <2> HIDE DEF A
  <2> QED BY <2>1, MultipleMod
<1> HIDE DEF A
<1>4. "args" \in Labels
  BY LabelFacts
<1>5. /\ b \in Activations /\ b.pc = "args" /\ b.i = size /\ b.fn = Top.fn /\ b.entry = Top.entry
      /\ b.args = Top.args /\ b.locals = Top.locals /\ b.allocas = Top.allocas /\ b.amount = A
  BY <1>1, <1>3, <1>4 DEF Activations
<1>6. TopReplaced(b)
  <2>1. acts' = [acts EXCEPT ![Len(acts)] = b]
    BY <1>1, <1>2
  <2> HIDE DEF b
  <2> QED BY <1>5, <2>1, TopUpdate
<1> HIDE DEF b
<1>7. Base(b) = B /\ Saves(b) = Saves(Top) /\ Pushed(b) = IF hasReservedCallFrame(fn) THEN 0 ELSE A
  BY <1>1, <1>5 DEF Base, Saves, Pushed
<1>8. PositionOK(b)
  BY <1>1, <1>2, <1>3, <1>5, <1>7 DEF PositionOK, Calling
<1>9. /\ B \in Nat /\ q \in Nat /\ sp >= 0 /\ Top.entry.SP \in Nat /\ Top.entry.SP < WordSize
      /\ B + StackSize(fn) = Top.entry.SP /\ StackSize(fn) \in Nat /\ Pushed(b) \in Nat
  BY <1>1, <1>5, <1>7, <1>8, Bounds, FrameFacts
<1>10. regs.SP = B - q
  BY <1>2, FramePointer
<1> HIDE DEF B, q
<1>11. sp \in 0 .. (WordSize - 1) /\ sp \in Words /\ sp <= B - q
  BY <1>9, WordsFacts
<1>12. CallStackAdjust(regs.SP, -A) = sp
  <2>1. CASE hasReservedCallFrame(fn)
    <3>1. sp = B - q
      BY <1>7, <1>9, <2>1
    <3> QED BY <1>10, <2>1, <3>1 DEF CallStackAdjust
  <2>2. CASE ~hasReservedCallFrame(fn) /\ A = 0
    <3>1. -A = 0 /\ sp = B - q
      <4>1. A = 0 /\ Pushed(b) = 0
        BY <1>7, <2>2
      <4>2. -A = 0
        <5> DEFINE m == -A
        <5>1. m \in Int /\ A + m = 0
          BY <1>3
        <5> HIDE DEF m
        <5>2. m = 0
          BY <4>1, <5>1
        <5> QED BY <5>2 DEF m
      <4>3. sp = B - q
        BY <1>9, <4>1
      <4> QED BY <4>2, <4>3
    <3> QED BY <1>10, <2>2, <3>1 DEF CallStackAdjust
  <2>3. CASE ~hasReservedCallFrame(fn) /\ A # 0
    <3>1. -A # 0 /\ sp = regs.SP + (-A) /\ -A \in Int /\ regs.SP \in Int
      BY <1>3, <1>7, <1>9, <1>10, <2>3
    <3>2. adjustStackPointer(regs.SP, -A) = regs.SP + (-A)
      BY <1>11, <3>1, AdjustInRange
    <3> QED BY <2>3, <3>1, <3>2 DEF CallStackAdjust
  <2> QED BY <2>1, <2>2, <2>3
<1>13. /\ regs' \in [Registers -> Words] /\ regs'.SP = sp /\ RegistersOK(b, regs')
  <2>1. sp = Base(Top) - Len(b.allocas) * StackAlign - Pushed(b)
    BY <1>5 DEF B, q
  <2>2. Top.pc \in InBody /\ b.pc \in InBody
    BY <1>2, <1>5 DEF InBody, Calling
  <2> HIDE DEF sp
  <2>3. regs' = [regs EXCEPT !.SP = sp]
    BY <1>2, <1>12
  <2>4. b.fn = Top.fn /\ b.entry = Top.entry
    BY <1>5
  <2>5. /\ [regs EXCEPT !.SP = sp] \in [Registers -> Words] /\ [regs EXCEPT !.SP = sp].SP = sp
        /\ RegistersOK(b, [regs EXCEPT !.SP = sp])
    BY <1>1, <1>11, <2>1, <2>2, <2>4, BodyRegisters
  <2> QED BY <2>3, <2>5
<1>14. MemoryOK(b, mem')
  <2>1. Stored(b) = Stored(Top)
    BY <1>2, <1>5, <1>7 DEF Stored, InBody, Calling
  <2> QED BY <1>1, <1>2, <1>5, <1>7, <2>1
          DEF B, MemoryOK, ArgumentsOK, SavesOK, LocalsOK, AllocasOK, InBody, Calling
<1>15. \A x \in Words : x < regs'.SP => mem'[x] = 0
  <2>1. \A x \in Words : x < sp => x < regs.SP
    BY <1>9, <1>10, <1>11, WordsFacts
  <2> QED BY <1>2, <1>13, <2>1 DEF IInv, NothingBelowSP
<1> QED BY <1>1, <1>2, <1>5, <1>6, <1>8, <1>13, <1>14, <1>15, TopStep

LEMMA ClearBelowFacts ==
  ASSUME TypeInv, NEW sp \in Nat, ClearBelow(sp)
  PROVE  /\ mem' \in [Words -> Words]
         /\ \A x \in Words : sp <= x => mem'[x] = mem[x]
         /\ \A x \in Words : x < sp => mem'[x] = 0
<1>1. mem \in [Words -> Words] /\ mem' = [x \in Words |-> IF x < sp THEN 0 ELSE mem[x]]
  BY DEF TypeInv, ClearBelow
<1>2. \A x \in Words : x \in Int /\ (sp <= x => ~(x < sp))
  BY WordsFacts
<1> QED BY <1>1, <1>2, WordsFacts

LEMMA AdjCallStackUpStep ==
  ASSUME IInv, AdjCallStackUp
  PROVE  IInv'
<1> DEFINE b == [Top EXCEPT !.pc = "body", !.i = 0, !.amount = 0]
           B == Base(Top)
           q == Len(Top.allocas) * StackAlign
           A == Top.amount
           sp == B - q
<1>1. /\ Top \in Activations /\ PositionOK(Top) /\ RegistersOK(Top, regs) /\ MemoryOK(Top, mem)
      /\ fn = Top.fn /\ fn \in Functions /\ regs \in [Registers -> Words]
      /\ mem \in [Words -> Words] /\ Top = acts[Len(acts)] /\ Len(acts) \in 1 .. Len(acts)
      /\ acts \in Seq(Activations)
  BY TopFacts DEF IInv, TypeInv
<1>2. /\ Top.pc = "callup"
      /\ regs' = [regs EXCEPT !.SP = CallStackAdjust(regs.SP, A)]
      /\ acts' = [acts EXCEPT ![Len(acts)].pc = "body", ![Len(acts)].i = 0,
                              ![Len(acts)].amount = 0]
      /\ ClearBelow(regs'.SP)
  BY DEF AdjCallStackUp
<1>3. "body" \in Labels
  BY LabelFacts
<1>4. /\ b \in Activations /\ b.pc = "body" /\ b.i = 0 /\ b.fn = Top.fn /\ b.entry = Top.entry
      /\ b.args = Top.args /\ b.locals = Top.locals /\ b.allocas = Top.allocas /\ b.amount = 0
  BY <1>1, <1>3 DEF Activations
<1>5. TopReplaced(b)
  <2>1. acts' = [acts EXCEPT ![Len(acts)] = b]
    BY <1>1, <1>2
  <2> HIDE DEF b
  <2> QED BY <1>4, <2>1, TopUpdate
<1> HIDE DEF b
<1>6. Base(b) = B /\ Saves(b) = Saves(Top) /\ Pushed(b) = 0
  BY <1>4 DEF Base, Saves, Pushed
<1>7. PositionOK(b)
  BY <1>1, <1>2, <1>4, <1>6 DEF PositionOK, Calling
<1>8. /\ B \in Nat /\ q \in Nat /\ Top.entry.SP \in Nat /\ Top.entry.SP < WordSize /\ A \in Nat
      /\ B + StackSize(fn) = Top.entry.SP /\ StackSize(fn) \in Nat /\ Pushed(Top) \in Nat
      /\ 0 <= B - q - Pushed(Top) /\ CallFrame(fn) \in Nat
  BY <1>1, Bounds, FrameFacts, FunctionTypes
<1>9. regs.SP = B - q - Pushed(Top)
  BY <1>1, <1>2 DEF RegistersOK, InBody, Calling
<1>10. Pushed(Top) = IF hasReservedCallFrame(fn) THEN 0 ELSE A
  BY <1>1 DEF Pushed
<1> HIDE DEF B, q
<1>11. sp \in 0 .. (WordSize - 1) /\ sp \in Words /\ sp \in Nat
  BY <1>8, WordsFacts
<1>12. CallStackAdjust(regs.SP, A) = sp
  <2>1. CASE hasReservedCallFrame(fn) \/ A = 0
    <3>1. sp = regs.SP
      BY <1>8, <1>9, <1>10, <2>1
    <3> QED BY <2>1, <3>1 DEF CallStackAdjust
  <2>2. CASE ~hasReservedCallFrame(fn) /\ A # 0
    <3>1. sp = regs.SP + A /\ A \in Int /\ regs.SP \in Int
      BY <1>8, <1>9, <1>10, <2>2
    <3> HIDE DEF A
    <3>2. adjustStackPointer(regs.SP, A) = regs.SP + A
      BY <1>11, <3>1, AdjustInRange
    <3> QED BY <2>2, <3>1, <3>2 DEF CallStackAdjust
  <2> QED BY <2>1, <2>2
<1>13. /\ regs' \in [Registers -> Words] /\ regs'.SP = sp /\ RegistersOK(b, regs')
  <2>1. sp = Base(Top) - Len(b.allocas) * StackAlign - Pushed(b)
    BY <1>4, <1>6, <1>8 DEF B, q
  <2>2. Top.pc \in InBody /\ b.pc \in InBody
    BY <1>2, <1>4 DEF InBody, Calling
  <2> HIDE DEF sp
  <2>3. regs' = [regs EXCEPT !.SP = sp]
    BY <1>2, <1>12
  <2>4. b.fn = Top.fn /\ b.entry = Top.entry
    BY <1>4
  <2>5. /\ [regs EXCEPT !.SP = sp] \in [Registers -> Words] /\ [regs EXCEPT !.SP = sp].SP = sp
        /\ RegistersOK(b, [regs EXCEPT !.SP = sp])
    BY <1>1, <1>11, <2>1, <2>2, <2>4, BodyRegisters
  <2> QED BY <2>3, <2>5
<1>14. MemoryOK(b, mem)
  <2>1. Stored(b) = Stored(Top)
    BY <1>2, <1>4, <1>6 DEF Stored, InBody, Calling
  <2> QED BY <1>1, <1>2, <1>4, <1>6, <2>1
          DEF B, MemoryOK, ArgumentsOK, SavesOK, LocalsOK, AllocasOK, InBody, Calling
<1>15. /\ mem' \in [Words -> Words]
       /\ \A x \in Words : sp <= x => mem'[x] = mem[x]
       /\ \A x \in Words : x < sp => mem'[x] = 0
  BY <1>2, <1>11, <1>13, ClearBelowFacts DEF IInv
<1>16. sp <= Top.entry.SP /\ sp <= B + CallFrame(fn) /\ sp \in Int
  BY <1>8, <1>11
<1>17. MemoryOK(b, mem')
  <2>1. sp <= Base(b) - Len(b.allocas) * StackAlign
    BY <1>4, <1>6, <1>8, <1>11 DEF q
  <2>2. sp <= b.entry.SP /\ sp <= Base(b) + CallFrame(b.fn) /\ sp \in Int
    BY <1>1, <1>4, <1>6, <1>16
  <2> HIDE DEF sp
  <2> QED BY <1>4, <1>7, <1>14, <1>15, <2>1, <2>2, MemoryAbove
<1>18. \A x \in Words : Top.entry.SP <= x => mem'[x] = mem[x]
  <2>1. \A x \in Words : Top.entry.SP <= x => sp <= x
    BY <1>8, <1>11, <1>16, WordsFacts
  <2> QED BY <1>15, <2>1
<1> QED BY <1>1, <1>4, <1>5, <1>7, <1>13, <1>15, <1>17, <1>18, TopStep

LEMMA EpilogueStep ==
  ASSUME IInv, Epilogue
  PROVE  IInv'
<1> DEFINE c == Len(Saves(Top))
           b == Moved(Top, "restore", c)
           B == Base(Top)
<1>1. /\ Top \in Activations /\ PositionOK(Top) /\ RegistersOK(Top, regs) /\ MemoryOK(Top, mem)
      /\ fn = Top.fn /\ fn \in Functions /\ regs \in [Registers -> Words] /\ CSI = Saves(Top)
      /\ mem \in [Words -> Words]
  BY TopFacts
<1>2. /\ Top.pc = "body" /\ regs' = (IF hasFP(fn) THEN [regs EXCEPT !.SP = regs.FP] ELSE regs)
      /\ GotoAt("restore", c) /\ ClearBelow(regs'.SP)
  BY <1>1 DEF Epilogue
<1>3. "restore" \in Labels /\ c \in Nat
  BY <1>1, LabelFacts, ObjectsFacts DEF Saves
<1>4. TopReplaced(b)
  BY <1>2, <1>3, GotoAtStep
<1>5. /\ b \in Activations /\ b.pc = "restore" /\ b.i = c /\ b.fn = Top.fn /\ b.entry = Top.entry
      /\ b.args = Top.args /\ b.locals = Top.locals /\ b.allocas = Top.allocas
      /\ b.amount = Top.amount /\ Base(b) = B /\ Saves(b) = Saves(Top)
  BY <1>1, <1>3, MovedFacts
<1> HIDE DEF b
<1>6. PositionOK(b)
  BY <1>1, <1>2, <1>3, <1>5 DEF PositionOK, Calling
<1>7. /\ B \in Nat /\ B + StackSize(fn) = Top.entry.SP /\ StackSize(fn) \in Nat
      /\ Top.entry.SP \in Nat /\ Top.entry.SP < WordSize /\ CallFrame(fn) \in Nat
  BY <1>1, Bounds, FrameFacts, FunctionTypes
<1>8. regs' = [regs EXCEPT !.SP = B]
  <2>1. regs[IF hasFP(fn) THEN "FP" ELSE "SP"] = B
    BY <1>2, FramePointer
  <2>2. [regs EXCEPT !.SP = regs.SP] = regs
    BY <1>1
  <2> QED BY <1>2, <2>1, <2>2
<1> HIDE DEF B
<1>9. B \in Words /\ B <= Top.entry.SP /\ B <= B + CallFrame(fn)
  BY <1>7, WordsFacts
<1>10. /\ regs' \in [Registers -> Words] /\ regs'.SP = B
       /\ \A s \in Registers : s # "SP" => regs'[s] = regs[s]
  BY <1>1, <1>8, <1>9, RegistersFacts, SetRegister
<1>11. RegistersOK(b, regs')
  <2>1. \A r \in ToSet(NyuziCSR) \ SavedRegs(Top.fn) : regs[r] = Top.entry[r]
    BY <1>1, <1>2 DEF RegistersOK, InBody
  <2>2. \A r \in ToSet(NyuziCSR) : regs'[r] = regs[r]
    BY <1>10, RegistersFacts
  <2>3. (c + 1) .. c = {}
    BY <1>3
  <2> QED BY <1>5, <1>10, <2>1, <2>2, <2>3 DEF RegistersOK, InBody, Calling
<1>12. MemoryOK(b, mem)
  <2>1. Stored(b) = Stored(Top)
    BY <1>2, <1>5 DEF Stored, InBody
  <2> QED BY <1>1, <1>5, <2>1
          DEF B, MemoryOK, ArgumentsOK, SavesOK, LocalsOK, AllocasOK, InBody, Calling
<1>13. /\ mem' \in [Words -> Words]
       /\ \A x \in Words : B <= x => mem'[x] = mem[x]
       /\ \A x \in Words : x < B => mem'[x] = 0
  BY <1>2, <1>7, <1>10, ClearBelowFacts DEF IInv
<1>14. MemoryOK(b, mem')
  <2>1. /\ B <= b.entry.SP /\ B <= Base(b) + CallFrame(b.fn) /\ B \in Int /\ b.pc \notin InBody
        /\ b \in Activations
    BY <1>1, <1>5, <1>7, <1>9 DEF InBody, Calling
  <2> QED BY <1>6, <1>12, <1>13, <2>1, MemoryAbove
<1>15. \A x \in Words : Top.entry.SP <= x => mem'[x] = mem[x]
  <2>1. \A x \in Words : Top.entry.SP <= x => B <= x
    BY <1>7, <1>9, WordsFacts
  <2> QED BY <1>13, <2>1
<1> QED BY <1>1, <1>4, <1>5, <1>6, <1>10, <1>11, <1>13, <1>14, <1>15, TopStep

LEMMA RestoreRegisterStep ==
  ASSUME IInv, RestoreRegister
  PROVE  IInv'
<1> DEFINE i == Top.i
           b == Moved(Top, "restore", i - 1)
           c == Len(Saves(Top))
           B == Base(Top)
           r == Saves(Top)[i]
<1>1. /\ Top \in Activations /\ PositionOK(Top) /\ RegistersOK(Top, regs) /\ MemoryOK(Top, mem)
      /\ fn = Top.fn /\ fn \in Functions /\ regs \in [Registers -> Words] /\ CSI = Saves(Top)
      /\ mem \in [Words -> Words] /\ Top.entry \in [Registers -> Words]
  BY TopFacts
<1>2. /\ Top.pc = "restore" /\ i > 0 /\ regs' = [regs EXCEPT ![r] = mem[ObjectAddress(i)]]
      /\ GotoAt("restore", i - 1) /\ mem' = mem
  BY <1>1 DEF RestoreRegister
<1>3. "restore" \in Labels /\ c \in Nat /\ i \in 1 .. c /\ i - 1 \in Nat /\ i - 1 \in 0 .. c
  <2>1. c \in Nat /\ i \in 0 .. c
    BY <1>1, <1>2, ObjectsFacts DEF Saves, PositionOK
  <2> QED BY <1>2, <2>1, LabelFacts
<1>4. TopReplaced(b)
  BY <1>2, <1>3, GotoAtStep
<1>5. /\ b \in Activations /\ b.pc = "restore" /\ b.i = i - 1 /\ b.fn = Top.fn /\ b.entry = Top.entry
      /\ b.args = Top.args /\ b.locals = Top.locals /\ b.allocas = Top.allocas
      /\ b.amount = Top.amount /\ Base(b) = B /\ Saves(b) = Saves(Top)
  BY <1>1, <1>3, MovedFacts
<1> HIDE DEF b
<1>6. PositionOK(b)
  BY <1>1, <1>2, <1>3, <1>5 DEF PositionOK, Calling
<1>7. /\ regs.SP = B
      /\ \A s \in ToSet(NyuziCSR) \ SavedRegs(Top.fn) : regs[s] = Top.entry[s]
      /\ \A j \in (i + 1) .. c : regs[Saves(Top)[j]] = Top.entry[Saves(Top)[j]]
  BY <1>1, <1>2 DEF RegistersOK
<1>8. mem[ObjectAddress(i)] = Top.entry[r]
  <2> DEFINE p == B + Place(fn, i)
             z == SpillSize(r)
  <2>1. ObjectAddress(i) = p
    BY <1>3, <1>7, SaveAddress
  <2>2. i \in Stored(Top)
    BY <1>2, <1>3 DEF Stored
  <2>3. Filled(mem, p, z, Top.entry[r])
    BY <1>1, <2>2 DEF MemoryOK, SavesOK
  <2>4. z \in Nat \ {0} /\ i \in 1 .. Len(Objects(fn))
    BY <1>1, <1>3, SpillSizeType, SaveRegion
  <2>5. p \in Nat
    BY <1>1, <2>4, ObjectRegion
  <2> HIDE DEF p, z
  <2>6. p \in p .. (p + z - 1)
    BY <2>4, <2>5
  <2> QED BY <2>1, <2>3, <2>6 DEF Filled
<1>9. r \in Registers /\ r # "SP" /\ r \in SavedRegs(fn) /\ Top.entry[r] \in Words
  BY <1>1, <1>3, SaveRegion
<1>10. /\ regs' \in [Registers -> Words] /\ regs'[r] = Top.entry[r]
       /\ \A s \in Registers : s # r => regs'[s] = regs[s]
  BY <1>1, <1>2, <1>8, <1>9, SetRegister
<1>11. regs'.SP = B
  BY <1>7, <1>9, <1>10, RegistersFacts
<1>12. \A s \in ToSet(NyuziCSR) \ SavedRegs(Top.fn) : regs'[s] = Top.entry[s]
  BY <1>1, <1>7, <1>9, <1>10, RegistersFacts
<1>13. ASSUME NEW j \in i .. c PROVE regs'[Saves(Top)[j]] = Top.entry[Saves(Top)[j]]
  <2>1. CASE j = i
    BY <1>10, <2>1
  <2>2. CASE j # i
    <3>1. j \in (i + 1) .. c /\ j \in 1 .. c
      BY <1>3, <2>2
    <3>2. Saves(Top)[j] # r
      BY <1>1, <1>3, <2>2, <3>1, CalleeSavedFacts DEF Saves
    <3>3. Saves(Top)[j] \in Registers
      BY <1>1, <3>1, SaveRegion
    <3> QED BY <1>7, <1>10, <3>1, <3>2, <3>3
  <2> QED BY <2>1, <2>2
<1>14. RegistersOK(b, regs')
  <2>1. (i - 1) + 1 = i
    BY <1>3
  <2> QED BY <1>5, <1>11, <1>12, <1>13, <2>1 DEF RegistersOK, InBody, Calling
<1>15. MemoryOK(b, mem')
  <2>1. Stored(b) = Stored(Top)
    BY <1>2, <1>5 DEF Stored
  <2> QED BY <1>1, <1>2, <1>5, <2>1
          DEF MemoryOK, ArgumentsOK, SavesOK, LocalsOK, AllocasOK
<1>16. \A x \in Words : x < regs'.SP => mem'[x] = 0
  BY <1>2, <1>7, <1>11 DEF IInv, NothingBelowSP
<1> QED BY <1>1, <1>2, <1>4, <1>5, <1>6, <1>10, <1>14, <1>15, <1>16, TopStep

LEMMA FreeFrameStep ==
  ASSUME IInv, FreeFrame
  PROVE  IInv'
<1> DEFINE i == Top.i
           b == Moved(Top, "ret", i)
           B == Base(Top)
           E == Top.entry.SP
<1>1. /\ Top \in Activations /\ PositionOK(Top) /\ RegistersOK(Top, regs) /\ MemoryOK(Top, mem)
      /\ fn = Top.fn /\ fn \in Functions /\ regs \in [Registers -> Words] /\ CSI = Saves(Top)
      /\ mem \in [Words -> Words] /\ Top.entry \in [Registers -> Words]
  BY TopFacts
<1>2. /\ Top.pc = "restore" /\ i = 0
      /\ regs' = (IF StackSize(fn) = 0 THEN regs
                  ELSE [regs EXCEPT !.SP = adjustStackPointer(regs.SP, StackSize(fn))])
      /\ Goto("ret") /\ ClearBelow(regs'.SP)
  BY DEF FreeFrame
<1>3. "ret" \in Labels /\ i \in Nat
  BY <1>2, LabelFacts
<1>4. TopReplaced(b)
  BY <1>2, <1>3, GotoStep
<1>5. /\ b \in Activations /\ b.pc = "ret" /\ b.i = i /\ b.fn = Top.fn /\ b.entry = Top.entry
      /\ b.args = Top.args /\ b.locals = Top.locals /\ b.allocas = Top.allocas
      /\ b.amount = Top.amount /\ Base(b) = B /\ Saves(b) = Saves(Top)
  BY <1>1, <1>3, MovedFacts
<1> HIDE DEF b
<1>6. PositionOK(b)
  BY <1>1, <1>2, <1>5 DEF PositionOK, Calling
<1>7. /\ B \in Nat /\ B + StackSize(fn) = E /\ StackSize(fn) \in Nat
      /\ E \in Nat /\ E < WordSize /\ E \in Words /\ E \in 0 .. (WordSize - 1)
  <2>1. /\ B \in Nat /\ B + StackSize(fn) = E /\ StackSize(fn) \in Nat /\ E \in Nat /\ E < WordSize
    BY <1>1, Bounds, FrameFacts
  <2> HIDE DEF E
  <2> QED BY <2>1, WordsFacts
<1>8. /\ regs.SP = B
      /\ \A s \in ToSet(NyuziCSR) \ SavedRegs(Top.fn) : regs[s] = Top.entry[s]
      /\ \A j \in 1 .. Len(Saves(Top)) : regs[Saves(Top)[j]] = Top.entry[Saves(Top)[j]]
  BY <1>1, <1>2 DEF RegistersOK
<1>9. regs' = [regs EXCEPT !.SP = E]
  <2>1. CASE StackSize(fn) = 0
    <3>1. regs.SP = E
      BY <1>7, <1>8, <2>1
    <3>2. [regs EXCEPT !.SP = regs.SP] = regs
      BY <1>1
    <3> QED BY <1>2, <2>1, <3>1, <3>2
  <2>2. CASE StackSize(fn) # 0
    <3> HIDE DEF E, B
    <3>1. adjustStackPointer(B, StackSize(fn)) = E
      BY <1>7, AdjustInRange
    <3> QED BY <1>2, <1>8, <2>2, <3>1
  <2> QED BY <2>1, <2>2
<1>10. /\ regs' \in [Registers -> Words] /\ regs'.SP = E
       /\ \A s \in Registers : s # "SP" => regs'[s] = regs[s]
  BY <1>1, <1>7, <1>9, RegistersFacts, SetRegister
<1>11. \A s \in Registers : regs'[s] = Top.entry[s]
  <2> SUFFICES ASSUME NEW s \in Registers PROVE regs'[s] = Top.entry[s]
    OBVIOUS
  <2>1. CASE s = "SP"
    BY <1>10, <2>1
  <2>2. CASE s # "SP" /\ s \notin SavedRegs(fn)
    <3>1. s \in ToSet(NyuziCSR)
      BY <2>2 DEF Registers
    <3> QED BY <1>1, <1>8, <1>10, <2>2, <3>1
  <2>3. CASE s # "SP" /\ s \in SavedRegs(fn)
    <3>1. PICK j \in 1 .. Len(Saves(Top)) : Saves(Top)[j] = s
      BY <1>1, <2>3, CalleeSavedFacts DEF Saves
    <3> QED BY <1>8, <1>10, <2>3, <3>1
  <2> QED BY <2>1, <2>2, <2>3
<1>12. regs' = Top.entry
  BY <1>1, <1>10, <1>11
<1>13. RegistersOK(b, regs')
  BY <1>5, <1>12 DEF RegistersOK, InBody, Calling
<1>14. MemoryOK(b, mem)
  <2>1. Stored(b) = {}
    BY <1>5 DEF Stored, InBody, Calling
  <2> QED BY <1>1, <1>5, <2>1
          DEF MemoryOK, ArgumentsOK, SavesOK, LocalsOK, AllocasOK, InBody, Calling
<1>15. /\ mem' \in [Words -> Words]
       /\ \A x \in Words : E <= x => mem'[x] = mem[x]
       /\ \A x \in Words : x < E => mem'[x] = 0
  <2> HIDE DEF E
  <2> QED BY <1>2, <1>7, <1>10, ClearBelowFacts DEF IInv
<1>16. MemoryOK(b, mem')
  <2>1. E <= b.entry.SP /\ E \in Int /\ b.pc \notin InBody \cup {"save", "restore"}
    BY <1>5, <1>7 DEF InBody, Calling
  <2> HIDE DEF E
  <2> QED BY <1>5, <1>6, <1>14, <1>15, <2>1, MemoryAbove
<1> QED BY <1>1, <1>4, <1>5, <1>6, <1>10, <1>13, <1>15, <1>16, TopStep

(* The stores of the arguments do not overlap. *)
LEMMA SlotsApart ==
  ASSUME NEW sp \in Nat, NEW n \in Nat, NEW j \in 1 .. n, NEW l \in 1 .. n, NEW x \in Int,
         x \in (sp + (j - 1) * ScalarSize) .. (sp + (j - 1) * ScalarSize + ScalarSize - 1),
         x \in (sp + (l - 1) * ScalarSize) .. (sp + (l - 1) * ScalarSize + ScalarSize - 1)
  PROVE  j = l
<1>1. ScalarSize \in Nat \ {0}
  BY SizesAssumption
<1> DEFINE S(k) == (k - 1) * ScalarSize
<1>2. ASSUME NEW k \in 1 .. n, NEW m \in 1 .. n, k < m PROVE S(k) + ScalarSize <= S(m)
  <2>1. k * ScalarSize <= (m - 1) * ScalarSize
    <3>1. k <= m - 1 /\ k \in Int /\ m - 1 \in Int /\ ScalarSize \in Nat
      BY <1>1, <1>2
    <3> QED BY <3>1, MulMono
  <2>2. S(k) + ScalarSize = k * ScalarSize
    BY <1>1
  <2> QED BY <2>1, <2>2
<1>3. S(j) \in Int /\ S(l) \in Int
  BY <1>1
<1>4. /\ sp + S(j) <= x /\ x < sp + S(j) + ScalarSize
      /\ sp + S(l) <= x /\ x < sp + S(l) + ScalarSize
  BY <1>1, <1>3
<1>5. ~(j < l)
  <2> SUFFICES ASSUME j < l PROVE FALSE
    OBVIOUS
  <2>1. S(j) + ScalarSize <= S(l)
    BY <1>2
  <2> HIDE DEF S
  <2> QED BY <1>1, <1>3, <1>4, <2>1
<1>6. ~(l < j)
  <2> SUFFICES ASSUME l < j PROVE FALSE
    OBVIOUS
  <2>1. S(l) + ScalarSize <= S(j)
    BY <1>2
  <2> HIDE DEF S
  <2> QED BY <1>1, <1>3, <1>4, <2>1
<1> QED BY <1>5, <1>6

(* The stores of a call. *)
ArgumentsStored(sp, args) ==
  LET Slot(j) == Block(sp + (j - 1) * ScalarSize, ScalarSize)
      Hit(x) == {j \in DOMAIN args : x \in Slot(j)}
  IN  mem' = [x \in Words |-> IF Hit(x) = {} THEN mem[x]
                              ELSE args[CHOOSE j \in Hit(x) : TRUE]]

LEMMA ArgumentStores ==
  ASSUME TypeInv, NEW sp \in Nat, NEW args \in Seq(Words), NEW size \in Nat,
         Len(args) * ScalarSize = size, sp + size <= WordSize, ArgumentsStored(sp, args)
  PROVE  /\ mem' \in [Words -> Words]
         /\ \A j \in 1 .. Len(args) : Filled(mem', sp + (j - 1) * ScalarSize, ScalarSize, args[j])
         /\ \A x \in Words : x < sp \/ sp + size <= x => mem'[x] = mem[x]
<1> DEFINE Lo(j) == sp + (j - 1) * ScalarSize
           Slot(j) == Block(Lo(j), ScalarSize)
           Hit(x) == {j \in DOMAIN args : x \in Slot(j)}
<1>1. /\ mem \in [Words -> Words] /\ Len(args) \in Nat /\ DOMAIN args = 1 .. Len(args)
      /\ ScalarSize \in Nat \ {0} /\ WordSize \in Nat
  BY SizesAssumption, WordsFacts DEF TypeInv
<1>2. ASSUME NEW j \in 1 .. Len(args)
      PROVE  /\ Lo(j) \in Nat /\ sp <= Lo(j) /\ Lo(j) + ScalarSize <= sp + size
             /\ Lo(j) + ScalarSize <= WordSize
  <2> DEFINE q == (j - 1) * ScalarSize
  <2>1. j * ScalarSize <= Len(args) * ScalarSize
    BY <1>1, MulMono
  <2>2. q \in Nat /\ q + ScalarSize = j * ScalarSize
    BY <1>1
  <2>3. q + ScalarSize <= size
    BY <2>1, <2>2
  <2> HIDE DEF q
  <2>4. sp + q \in Nat /\ sp <= sp + q /\ sp + q + ScalarSize <= sp + size /\ sp + q + ScalarSize <= WordSize
    BY <1>1, <2>2, <2>3
  <2> QED BY <2>4 DEF q
<1>3. ASSUME NEW j \in 1 .. Len(args) PROVE Slot(j) = Lo(j) .. (Lo(j) + ScalarSize - 1)
  <2>1. Lo(j) \in Nat /\ Lo(j) + ScalarSize <= WordSize /\ ScalarSize \in Nat
    BY <1>1, <1>2
  <2> HIDE DEF Lo
  <2> QED BY <2>1, BlockIs
<1>4. ASSUME NEW j \in 1 .. Len(args), NEW l \in 1 .. Len(args), NEW x \in Slot(j), x \in Slot(l)
      PROVE  j = l
  <2>1. x \in Lo(j) .. (Lo(j) + ScalarSize - 1) /\ x \in Lo(l) .. (Lo(l) + ScalarSize - 1)
    BY <1>3, <1>4
  <2>2. x \in Int
    BY <1>1, <1>2, <2>1
  <2> QED BY <1>1, <2>1, <2>2, SlotsApart
<1>5. mem' = [x \in Words |-> IF Hit(x) = {} THEN mem[x] ELSE args[CHOOSE j \in Hit(x) : TRUE]]
  BY DEF ArgumentsStored
<1>6. ASSUME NEW x \in Words, NEW j \in 1 .. Len(args), x \in Slot(j) PROVE mem'[x] = args[j]
  <2>1. j \in Hit(x)
    BY <1>1, <1>6
  <2>2. \A l \in Hit(x) : l = j
    BY <1>1, <1>4, <1>6
  <2> HIDE DEF Hit
  <2>3. (CHOOSE l \in Hit(x) : TRUE) = j
    BY <2>1, <2>2
  <2> QED BY <1>5, <2>1, <2>3
<1>7. ASSUME NEW x \in Words, \A j \in 1 .. Len(args) : x \notin Slot(j) PROVE mem'[x] = mem[x]
  <2>1. Hit(x) = {}
    BY <1>1, <1>7
  <2> HIDE DEF Hit
  <2> QED BY <1>5, <2>1
<1>8. ASSUME NEW x \in Words PROVE mem'[x] \in Words
  <2>1. CASE \A j \in 1 .. Len(args) : x \notin Slot(j)
    BY <1>1, <1>7, <2>1
  <2>2. CASE \E j \in 1 .. Len(args) : x \in Slot(j)
    BY <1>1, <1>6, <2>2
  <2> QED BY <2>1, <2>2
<1>9. mem' \in [Words -> Words]
  <2>1. mem' = [x \in Words |-> mem'[x]]
    <3> HIDE DEF Hit
    <3> QED BY <1>5
  <2> QED BY <1>8, <2>1
<1>10. ASSUME NEW j \in 1 .. Len(args) PROVE Filled(mem', Lo(j), ScalarSize, args[j])
  <2> SUFFICES ASSUME NEW x \in Lo(j) .. (Lo(j) + ScalarSize - 1) PROVE mem'[x] = args[j]
    BY DEF Filled
  <2>1. x \in Words
    <3>1. Lo(j) \in Nat /\ Lo(j) + ScalarSize <= WordSize
      BY <1>2
    <3> HIDE DEF Lo
    <3> QED BY <1>1, <3>1, WordsFacts
  <2>2. x \in Slot(j)
    BY <1>3
  <2> HIDE DEF Slot
  <2> QED BY <1>6, <2>1, <2>2
<1>11. ASSUME NEW x \in Words, x < sp \/ sp + size <= x PROVE mem'[x] = mem[x]
  <2>1. ASSUME NEW j \in 1 .. Len(args) PROVE x \notin Slot(j)
    <3>1. Lo(j) \in Nat /\ sp <= Lo(j) /\ Lo(j) + ScalarSize <= sp + size
      BY <1>2
    <3>2. x \in Int
      BY WordsFacts
    <3>3. x \notin Lo(j) .. (Lo(j) + ScalarSize - 1)
      <4> DEFINE lo == Lo(j)
      <4>1. /\ lo \in Nat /\ sp <= lo /\ lo + ScalarSize <= sp + size /\ ScalarSize \in Nat
            /\ x < sp \/ sp + size <= x
        BY <1>1, <1>11, <3>1
      <4> HIDE DEF lo, Lo
      <4>2. x < lo \/ lo + ScalarSize <= x
        BY <3>2, <4>1
      <4>3. x \notin lo .. (lo + ScalarSize - 1)
        BY <3>2, <4>1, <4>2
      <4> QED BY <4>3 DEF lo
    <3> HIDE DEF Lo
    <3> QED BY <1>3, <3>3
  <2> QED BY <1>7, <2>1
<1> HIDE DEF Hit, Slot
<1> QED BY <1>9, <1>10, <1>11

(* SP is aligned wherever a function may call. *)
LEMMA CallSPAligned ==
  ASSUME NEW a \in Activations, PositionOK(a), NEW R, RegistersOK(a, R), a.pc \in Calling
  PROVE  R.SP % StackAlign = 0
<1> DEFINE B == Base(a)
           q == Len(a.allocas) * StackAlign
           u == Pushed(a)
<1>1. /\ B \in Nat /\ q \in Nat /\ u \in Nat /\ B % StackAlign = 0 /\ Len(a.allocas) \in Nat
      /\ StackAlign \in Nat \ {0}
  BY Bounds, RoomFacts
<1>2. R.SP = B - q - u
  BY DEF RegistersOK, InBody
<1>3. Multiple(B, StackAlign)
  <2> HIDE DEF B
  <2> QED BY <1>1, MultipleMod
<1>4. Multiple(q, StackAlign)
  <2>1. q = StackAlign * Len(a.allocas) /\ Len(a.allocas) \in Int
    BY <1>1
  <2> QED BY <2>1 DEF Multiple
<1>5. Multiple(u, StackAlign)
  <2>1. u = 0 \/ u = a.amount
    BY DEF Pushed
  <2>2. a.amount \in Nat /\ a.amount % StackAlign = 0
    BY DEF PositionOK, Activations
  <2>3. Multiple(a.amount, StackAlign)
    BY <1>1, <2>2, MultipleMod
  <2>4. Multiple(0, StackAlign)
    <3>1. 0 = StackAlign * 0
      BY <1>1
    <3> QED BY <3>1 DEF Multiple
  <2> QED BY <2>1, <2>3, <2>4
<1> HIDE DEF B, q, u
<1> DEFINE d == B - q
<1>6. Multiple(d, StackAlign) /\ d \in Int
  BY <1>1, <1>3, <1>4, MultipleSum
<1> HIDE DEF d
<1>7. Multiple(d - u, StackAlign) /\ d - u \in Int
  BY <1>1, <1>5, <1>6, MultipleSum
<1>8. (d - u) % StackAlign = 0
  BY <1>1, <1>7, MultipleMod
<1> QED BY <1>2, <1>8 DEF d

LEMMA CallStep ==
  ASSUME IInv, NEW f \in Functions,
         NEW args \in [1 .. (f.params \div ScalarSize) -> Computed(ArgumentUse)], Call(f, args)
  PROVE  IInv'
<1> DEFINE N == Len(acts)
           a == Moved(Top, "callup", Top.i)
           c == Activation(f, args, regs')
           sp == regs.SP
           E == Top.entry.SP
           size == f.params
<1>1. /\ Top \in Activations /\ PositionOK(Top) /\ RegistersOK(Top, regs) /\ MemoryOK(Top, mem)
      /\ fn = Top.fn /\ fn \in Functions /\ regs \in [Registers -> Words]
      /\ mem \in [Words -> Words] /\ Top = acts[N] /\ N \in 1 .. N /\ N \in Nat \ {0}
      /\ acts \in Seq(Activations) /\ E >= (MaxNesting + 1 - N) * Room
  BY TopFacts DEF IInv, TypeInv
<1>2. /\ Top.pc = "args" /\ size = Top.i /\ Len(args) * ScalarSize = Top.i
      /\ regs' = [regs EXCEPT !.RA = N]
      /\ acts' = Append([acts EXCEPT ![N].pc = "callup"], c)
  BY DEF Call
<1>3. N < MaxNesting /\ MaxNesting \in Nat /\ N \in Words
  <2>1. N < MaxNesting
    BY <1>1, <1>2 DEF IInv, StackInv
  <2>2. MaxNesting \in Words
    BY BoundsAssumption
  <2> QED BY <1>1, <2>1, <2>2, WordsFacts
<1>4. Top.pc \in InBody /\ Top.pc \in Calling
  BY <1>2 DEF InBody, Calling
<1>5. /\ sp \in Nat /\ E - Room <= sp /\ sp + Top.amount <= E
      /\ sp + Top.amount <= Base(Top) + CallFrame(fn)
      /\ Top.allocas # <<>> => sp + Top.amount <= Base(Top) - Len(Top.allocas) * StackAlign
  BY <1>1, <1>4, BodySP
<1>6. size \in Nat /\ size <= Top.amount /\ Top.amount \in Nat
  BY <1>1, <1>2, FunctionTypes, Bounds DEF PositionOK
<1>7. /\ E \in Nat /\ E + fn.params <= StackBase /\ fn.params \in Nat /\ E < WordSize
      /\ StackBase \in Nat /\ StackBase < WordSize /\ Room \in Nat
  BY <1>1, Bounds, FunctionTypes, WordsFacts, RoomFacts
<1>fits. sp + size <= StackBase /\ sp + size <= WordSize
  <2> DEFINE am == Top.amount
             pr == fn.params
  <2>1. /\ sp \in Nat /\ size \in Nat /\ am \in Nat /\ pr \in Nat /\ E \in Nat
        /\ sp + am <= E /\ size <= am /\ E + pr <= StackBase
        /\ StackBase \in Nat /\ StackBase < WordSize /\ WordSize \in Nat
    BY <1>5, <1>6, <1>7, WordsFacts
  <2> HIDE DEF am, pr, sp, E, size
  <2> QED BY <2>1
<1>8. args \in Seq(Words) /\ Len(args) \in Nat
  <2>1. Computed(ArgumentUse) \subseteq Words
    BY ComputedWords
  <2>2. f.params \div ScalarSize \in Nat
    <3>1. ScalarSize \in Nat \ {0} /\ f.params \in Nat
      BY SizesAssumption, FunctionTypes
    <3> QED BY <3>1
  <2> DEFINE m == f.params \div ScalarSize
  <2>3. m \in Nat /\ args \in [1 .. m -> Words]
    BY <2>1, <2>2
  <2> HIDE DEF m
  <2> QED BY <2>3
(* The registers. *)
<1>9. /\ regs' \in [Registers -> Words] /\ regs'.RA = N
      /\ \A s \in Registers : s # "RA" => regs'[s] = regs[s]
  BY <1>1, <1>2, <1>3, RegistersFacts, SetRegister
<1>10. regs'.SP = sp /\ regs'.FP = regs.FP
  BY <1>9, RegistersFacts
(* The memory. *)
<1>11. /\ mem' \in [Words -> Words]
       /\ \A j \in 1 .. Len(args) : Filled(mem', sp + (j - 1) * ScalarSize, ScalarSize, args[j])
       /\ \A x \in Words : x < sp \/ sp + size <= x => mem'[x] = mem[x]
  <2>1. TypeInv /\ Len(args) * ScalarSize = size
    BY <1>2 DEF IInv
  <2>2. sp + size <= WordSize
    BY <1>fits
  <2>3. ArgumentsStored(sp, args)
    BY DEF Call, ArgumentsStored
  <2> HIDE DEF sp, size
  <2> QED BY <1>5, <1>6, <1>8, <2>1, <2>2, <2>3, ArgumentStores
<1>12. \A x \in Words : sp + Top.amount <= x => mem'[x] = mem[x]
  <2>1. \A x \in Words : sp + Top.amount <= x => sp + size <= x
    BY <1>5, <1>6, WordsFacts
  <2> QED BY <1>11, <2>1
<1>13. \A x \in Words : E <= x => mem'[x] = mem[x]
  <2>1. \A x \in Words : E <= x => sp + Top.amount <= x
    BY <1>5, <1>6, <1>7, WordsFacts
  <2> QED BY <1>12, <2>1
<1>14. NothingBelowSP'
  <2>1. \A x \in Words : x < sp => mem[x] = 0
    BY DEF IInv, NothingBelowSP
  <2> QED BY <1>10, <1>11, <2>1 DEF NothingBelowSP
(* The caller. *)
<1>15. "callup" \in Labels /\ Top.i \in Nat
  BY <1>1, LabelFacts DEF Activations
<1>16. /\ a \in Activations /\ a.pc = "callup" /\ a.fn = Top.fn /\ a.entry = Top.entry
       /\ a.args = Top.args /\ a.locals = Top.locals /\ a.allocas = Top.allocas
       /\ a.amount = Top.amount /\ Base(a) = Base(Top) /\ Saves(a) = Saves(Top)
       /\ Pushed(a) = Pushed(Top)
  BY <1>1, <1>15, MovedFacts
<1>17. PositionOK(a)
  BY <1>1, <1>2, <1>16 DEF PositionOK, Calling
<1>18. RegistersOK(a, regs')
  <2>1. /\ regs.SP = Base(Top) - Len(Top.allocas) * StackAlign - Pushed(Top)
        /\ hasFP(Top.fn) => regs.FP = Base(Top)
        /\ \A r \in ToSet(NyuziCSR) \ SavedRegs(Top.fn) : regs[r] = Top.entry[r]
    BY <1>1, <1>4 DEF RegistersOK
  <2>2. "RA" \in SavedRegs(Top.fn)
    <3>1. Top.fn.adjustsStack
      BY <1>1, <1>4 DEF PositionOK
    <3> QED BY <1>1, <3>1, SavedTypes
  <2>3. \A r \in ToSet(NyuziCSR) \ SavedRegs(Top.fn) : regs'[r] = Top.entry[r]
    BY <1>9, <2>1, <2>2, RegistersFacts
  <2> HIDE DEF a
  <2> QED BY <1>10, <1>16, <2>1, <2>3 DEF RegistersOK, InBody, Calling
<1>19. MemoryOK(a, mem)
  <2> HIDE DEF a
  <2>1. Stored(a) = Stored(Top)
    BY <1>4, <1>16 DEF Stored, InBody, Calling
  <2>2. a.pc \in InBody
    BY <1>16 DEF InBody, Calling
  <2> QED BY <1>1, <1>4, <1>16, <2>1, <2>2
          DEF MemoryOK, ArgumentsOK, SavesOK, LocalsOK, AllocasOK
<1>20. MemoryOK(a, mem')
  <2> DEFINE lo == sp + Top.amount
  <2>1. /\ lo \in Int /\ lo <= a.entry.SP /\ lo <= Base(a) + CallFrame(a.fn)
        /\ a.allocas # <<>> => lo <= Base(a) - Len(a.allocas) * StackAlign
    BY <1>1, <1>5, <1>6, <1>16
  <2>2. \A x \in Words : lo <= x => mem'[x] = mem[x]
    BY <1>12
  <2> HIDE DEF lo, a
  <2> QED BY <1>16, <1>17, <1>19, <2>1, <2>2, MemoryAbove
<1> HIDE DEF a
(* The function that is called. *)
<1>21. f.locals \in Seq(StackObject) /\ Len(f.locals) \in Nat /\ DOMAIN f.locals = 1 .. Len(f.locals)
  BY FunctionTypes, ObjectsFacts
<1>22. /\ c \in Activations /\ c.fn = f /\ c.pc = "entry" /\ c.amount = 0 /\ c.entry = regs'
       /\ c.args = args /\ c.allocas = <<>> /\ Len(c.locals) = Len(f.locals)
       /\ \A k \in 1 .. Len(c.locals) : c.locals[k] = -1
  <2> DEFINE L == [k \in DOMAIN f.locals |-> -1]
  <2>1. /\ L \in Seq(Words \cup {-1}) /\ Len(L) = Len(f.locals)
        /\ \A k \in 1 .. Len(L) : L[k] = -1
    BY <1>21
  <2>2. <<>> \in Seq(Words \X Words) /\ "entry" \in Labels
    BY LabelFacts
  <2>3. c = [fn |-> f, pc |-> "entry", i |-> 0, amount |-> 0, entry |-> regs',
             args |-> args, locals |-> L, allocas |-> <<>>]
    BY DEF Activation
  <2> HIDE DEF c, L
  <2> QED BY <1>8, <1>9, <2>1, <2>2, <2>3 DEF Activations
<1> HIDE DEF c
<1>23. sp >= (MaxNesting + 1 - (N + 1)) * Room /\ sp >= Room
  <2> DEFINE k == MaxNesting + 1 - N
  <2>1. k \in Nat /\ k >= 2
    BY <1>1, <1>3
  <2>2. (MaxNesting + 1 - (N + 1)) * Room = k * Room - Room
    <3>1. MaxNesting + 1 - (N + 1) = k - 1
      BY <1>1, <1>3
    <3> HIDE DEF k
    <3>2. (k - 1) * Room = k * Room - Room
      BY <1>7, <2>1
    <3> QED BY <3>1, <3>2
  <2>3. E >= k * Room
    BY <1>1
  <2>4. k * Room >= 2 * Room /\ k * Room \in Nat
    <3> HIDE DEF k
    <3>1. 2 * Room <= k * Room
      BY <1>7, <2>1, MulMono
    <3>2. k * Room \in Nat
      BY <1>7, <2>1
    <3> QED BY <1>7, <3>1, <3>2
  <2> DEFINE z == k * Room
  <2>5. z \in Nat /\ E >= z /\ z >= 2 * Room /\ (MaxNesting + 1 - (N + 1)) * Room = z - Room
    BY <2>2, <2>3, <2>4
  <2> HIDE DEF z, k, E, sp
  <2> QED BY <1>5, <1>7, <2>5
<1>24. PositionOK(c)
  <2>1. sp % StackAlign = 0
    BY <1>1, <1>4, CallSPAligned
  <2>2. sp + size <= StackBase
    BY <1>fits
  <2>3. Len(c.allocas) <= MaxAllocas
    BY <1>22, RoomFacts
  <2>4. f.params = Len(args) * ScalarSize
    BY <1>2
  <2> QED BY <1>10, <1>22, <1>23, <2>1, <2>2, <2>3, <2>4 DEF PositionOK, Calling
<1>25. RegistersOK(c, regs')
  BY <1>22 DEF RegistersOK, InBody, Calling
<1>26. MemoryOK(c, mem')
  <2>1. Stored(c) = {}
    BY <1>22 DEF Stored, InBody, Calling
  <2> QED BY <1>10, <1>11, <1>22, <2>1
          DEF MemoryOK, ArgumentsOK, SavesOK, LocalsOK, AllocasOK, InBody, Calling
(* The stack. *)
<1>27. /\ acts' \in Seq(Activations) /\ Len(acts') = N + 1
       /\ acts'[N + 1] = c /\ acts'[N] = a
       /\ \A n \in 1 .. (N - 1) : acts'[n] = acts[n]
  <2> DEFINE s == [acts EXCEPT ![N].pc = "callup"]
  <2>1. [Top EXCEPT !.pc = "callup"] = a
    BY <1>1 DEF a, Moved, Activations
  <2>2. s = [acts EXCEPT ![N] = a]
    BY <1>1, <2>1
  <2>3. /\ s \in Seq(Activations) /\ Len(s) = N /\ s[N] = a
        /\ \A n \in 1 .. (N - 1) : s[n] = acts[n]
    <3> HIDE DEF s
    <3> QED BY <1>1, <1>16, <2>2
  <2> HIDE DEF s
  <2>4. acts' = Append(s, c)
    BY <1>2 DEF s
  <2>5. /\ acts' \in Seq(Activations) /\ Len(acts') = N + 1 /\ acts'[N + 1] = c
        /\ \A n \in 1 .. N : acts'[n] = s[n]
    BY <1>1, <1>22, <2>3, <2>4
  <2>6. \A n \in 1 .. (N - 1) : n \in 1 .. N
    BY <1>1
  <2> QED BY <1>1, <2>3, <2>5, <2>6
<1>28. TypeInv'
  BY <1>1, <1>3, <1>9, <1>11, <1>27 DEF TypeInv
<1>29. \A n \in 1 .. (N + 1) : n = N + 1 \/ n = N \/ n \in 1 .. (N - 1)
  BY <1>1
<1>30. /\ \A n \in 1 .. N : acts'[n].entry = acts[n].entry
       /\ acts'[N + 1].entry.SP = sp
  <2>1. ASSUME NEW n \in 1 .. N PROVE acts'[n].entry = acts[n].entry
    <3>1. n = N \/ n \in 1 .. (N - 1)
      BY <1>1
    <3> QED BY <1>1, <1>16, <1>27, <3>1
  <2> QED BY <1>10, <1>22, <1>27, <2>1
<1>31. FrameInv'
  <2> SUFFICES ASSUME NEW n \in 1 .. (N + 1)
               PROVE  PositionOK(acts'[n]) /\ RegistersOK(acts'[n], Seen(n)') /\ MemoryOK(acts'[n], mem')
    BY <1>27 DEF FrameInv
  <2>1. CASE n = N + 1
    <3>1. Seen(n)' = regs'
      BY <1>27, <2>1 DEF Seen
    <3> QED BY <1>24, <1>25, <1>26, <1>27, <2>1, <3>1
  <2>2. CASE n = N
    <3>1. Seen(n)' = regs'
      <4>1. n # N + 1
        BY <1>1, <2>2
      <4> QED BY <1>22, <1>27, <2>2, <4>1 DEF Seen
    <3> QED BY <1>17, <1>18, <1>20, <1>27, <2>2, <3>1
  <2>3. CASE n \in 1 .. (N - 1)
    <3>1. n # N + 1 /\ n # N /\ n + 1 \in 1 .. N /\ n \in 1 .. N
      BY <1>1, <2>3
    <3>2. Seen(n)' = Seen(n)
      BY <1>27, <1>30, <3>1 DEF Seen
    <3>3. PositionOK(acts[n]) /\ RegistersOK(acts[n], Seen(n))
      BY <3>1 DEF IInv, FrameInv
    <3>4. MemoryOK(acts[n], mem')
      BY <1>13, <2>3, Suspended
    <3> QED BY <1>27, <2>3, <3>2, <3>3, <3>4
  <2> QED BY <1>29, <2>1, <2>2, <2>3
<1>32. StackInv'
  <2>1. StackInv
    BY DEF IInv
  <2>2. ASSUME NEW n \in 1 .. (N + 1) PROVE acts'[n].entry.SP >= (MaxNesting + 1 - n) * Room
    <3>1. CASE n = N + 1
      BY <1>23, <1>30, <3>1
    <3>2. CASE n # N + 1
      <4>1. n \in 1 .. N
        BY <1>1, <3>2
      <4> QED BY <1>30, <2>1, <4>1 DEF StackInv
    <3> QED BY <3>1, <3>2
  <2>3. ASSUME NEW n \in 1 .. N PROVE acts'[n].pc = "callup"
    <3>1. n = N \/ n \in 1 .. (N - 1)
      BY <1>1
    <3> QED BY <1>16, <1>27, <2>1, <3>1 DEF StackInv
  <2>4. acts'[N + 1].pc # "args"
    BY <1>22, <1>27
  <2>5. ASSUME NEW m \in 1 .. (N + 1), NEW n \in 1 .. (N + 1), m <= n
        PROVE  acts'[n].entry.SP <= acts'[m].entry.SP
    <3>1. CASE n # N + 1
      <4>1. n \in 1 .. N /\ m \in 1 .. N
        BY <1>1, <2>5, <3>1
      <4> QED BY <1>30, <2>1, <2>5, <4>1 DEF StackInv
    <3>2. CASE n = N + 1 /\ m = N + 1
      BY <1>5, <1>30, <3>2
    <3>3. CASE n = N + 1 /\ m # N + 1
      <4>1. m \in 1 .. N /\ m <= N
        BY <1>1, <3>3
      <4>2. acts[N].entry.SP <= acts[m].entry.SP
        BY <1>1, <2>1, <4>1 DEF StackInv
      <4>3. acts[m].entry.SP \in Nat
        <5>1. acts[m] \in Activations /\ PositionOK(acts[m])
          BY <1>1, <4>1 DEF IInv, FrameInv
        <5> QED BY <5>1, Bounds
      <4>4. sp <= E
        <5> HIDE DEF sp, E
        <5> QED BY <1>5, <1>6, <1>7
      <4>5. E <= acts[m].entry.SP
        BY <1>1, <4>2
      <4>6. acts'[n].entry.SP = sp /\ acts'[m].entry.SP = acts[m].entry.SP
        BY <1>30, <3>3, <4>1
      <4> HIDE DEF sp, E
      <4> QED BY <1>5, <1>7, <4>3, <4>4, <4>5, <4>6
    <3> QED BY <3>1, <3>2, <3>3
  <2>6. Len(acts') = N + 1 /\ (N + 1) - 1 = N
    BY <1>1, <1>27
  <2> QED BY <2>2, <2>3, <2>4, <2>5, <2>6 DEF StackInv
<1> QED BY <1>14, <1>28, <1>31, <1>32 DEF IInv

(* A function returns to the registers that its caller waits for. *)
LEMMA RetStep ==
  ASSUME IInv, Ret
  PROVE  IInv'
<1> DEFINE N == Len(acts)
           M == Len(acts) - 1
<1>1. /\ Top = acts[N] /\ RegistersOK(Top, regs) /\ acts \in Seq(Activations) /\ N \in 1 .. MaxNesting
      /\ MaxNesting \in Nat /\ N \in Nat \ {0}
  BY TopFacts, RoomFacts DEF IInv, TypeInv
<1>2. /\ Top.pc = "ret" /\ N > 1 /\ acts' = SubSeq(acts, 1, M)
      /\ regs' = regs /\ mem' = mem
  BY DEF Ret, Front
<1>3. /\ M \in 1 .. MaxNesting /\ M \in Nat /\ M < N /\ M # N /\ M + 1 = N
      /\ \A n \in 1 .. M : n \in 1 .. N /\ n # N /\ n + 1 \in 1 .. N
      /\ \A n \in 1 .. M : n # M => n + 1 \in 1 .. M
  <2> DEFINE m == MaxNesting
  <2>1. N \in Nat /\ N <= m /\ N > 1 /\ m \in Nat /\ M = N - 1
    BY <1>1, <1>2
  <2> HIDE DEF N, M, m
  <2>2. /\ M \in 1 .. m /\ M \in Nat /\ M < N /\ M # N /\ M + 1 = N
        /\ \A n \in 1 .. M : n \in 1 .. N /\ n # N /\ n + 1 \in 1 .. N
        /\ \A n \in 1 .. M : n # M => n + 1 \in 1 .. M
    BY <2>1
  <2> QED BY <2>2 DEF m
<1> HIDE DEF M
<1>4. acts' \in Seq(Activations) /\ Len(acts') = M /\ \A n \in 1 .. M : acts'[n] = acts[n]
  <2>1. M <= N /\ M \in 0 .. N
    BY <1>1, <1>3
  <2> QED BY <1>1, <1>2, <1>3, <2>1
<1>5. regs = acts[N].entry
  BY <1>1, <1>2 DEF RegistersOK
<1>6. TypeInv'
  BY <1>2, <1>3, <1>4 DEF IInv, TypeInv
<1>7. ASSUME NEW n \in 1 .. M PROVE Seen(n)' = Seen(n)
  <2>1. CASE n = M
    BY <1>2, <1>3, <1>4, <1>5, <2>1 DEF Seen
  <2>2. CASE n # M
    BY <1>3, <1>4, <2>2 DEF Seen
  <2> QED BY <2>1, <2>2
<1>8. FrameInv'
  <2> SUFFICES ASSUME NEW n \in 1 .. M
               PROVE  PositionOK(acts'[n]) /\ RegistersOK(acts'[n], Seen(n)') /\ MemoryOK(acts'[n], mem')
    BY <1>4 DEF FrameInv
  <2>1. PositionOK(acts[n]) /\ RegistersOK(acts[n], Seen(n)) /\ MemoryOK(acts[n], mem)
    BY <1>3 DEF IInv, FrameInv
  <2> QED BY <1>2, <1>4, <1>7, <2>1
<1>9. StackInv'
  <2>1. StackInv /\ M \in 1 .. M /\ M = N - 1
    BY <1>1, <1>3 DEF IInv
  <2>2. acts'[M].pc # "args"
    <3>1. acts[M].pc = "callup"
      BY <2>1 DEF StackInv
    <3> QED BY <1>4, <2>1, <3>1
  <2>3. ASSUME NEW n \in 1 .. (M - 1) PROVE acts'[n].pc = "callup"
    <3>1. n \in 1 .. M
      BY <1>3
    <3> QED BY <1>4, <2>1, <3>1 DEF StackInv
  <2>4. /\ \A n \in 1 .. M : acts'[n].entry.SP >= (MaxNesting + 1 - n) * Room
        /\ \A m, n \in 1 .. M : m <= n => acts'[n].entry.SP <= acts'[m].entry.SP
    <3>1. /\ \A n \in 1 .. N : acts[n].entry.SP >= (MaxNesting + 1 - n) * Room
          /\ \A m, n \in 1 .. N : m <= n => acts[n].entry.SP <= acts[m].entry.SP
      BY <2>1 DEF StackInv
    <3>2. \A n \in 1 .. M : n \in 1 .. N
      BY <1>3
    <3>3. ASSUME NEW n \in 1 .. M PROVE acts'[n].entry.SP >= (MaxNesting + 1 - n) * Room
      BY <1>4, <3>1, <3>2
    <3>4. ASSUME NEW m \in 1 .. M, NEW n \in 1 .. M, m <= n
          PROVE  acts'[n].entry.SP <= acts'[m].entry.SP
      BY <1>4, <3>1, <3>2, <3>4
    <3> QED BY <3>3, <3>4
  <2> QED BY <1>4, <2>2, <2>3, <2>4 DEF StackInv
<1>10. NothingBelowSP'
  BY <1>2 DEF IInv, NothingBelowSP
<1> QED BY <1>6, <1>8, <1>9, <1>10 DEF IInv

-----------------------------------------------------------------------------
(* The invariant of the specification. *)
LEMMA InitIInv ==
  ASSUME Init
  PROVE  IInv
<1>1. PICK f \in Functions : f.params = 0 /\ acts = <<Activation(f, <<>>, regs)>>
  BY DEF Init
<1> DEFINE c == Activation(f, <<>>, regs)
<1>2. /\ regs = [r \in Registers |-> IF r = "SP" THEN StackBase ELSE 0]
      /\ mem = [x \in Words |-> 0]
  BY DEF Init
<1>3. regs \in [Registers -> Words] /\ mem \in [Words -> Words] /\ regs.SP = StackBase
  BY <1>2, WordsFacts, RegistersFacts
<1>4. f.locals \in Seq(StackObject) /\ Len(f.locals) \in Nat /\ DOMAIN f.locals = 1 .. Len(f.locals)
  BY FunctionTypes, ObjectTypes
<1>5. /\ c \in Activations /\ c.fn = f /\ c.pc = "entry" /\ c.amount = 0 /\ c.entry = regs
      /\ c.args = <<>> /\ c.allocas = <<>> /\ Len(c.locals) = Len(f.locals)
      /\ \A k \in 1 .. Len(c.locals) : c.locals[k] = -1
  <2> DEFINE L == [k \in DOMAIN f.locals |-> -1]
  <2>1. /\ L \in Seq(Words \cup {-1}) /\ Len(L) = Len(f.locals)
        /\ \A k \in 1 .. Len(L) : L[k] = -1
    BY <1>4
  <2>2. <<>> \in Seq(Words \X Words) /\ <<>> \in Seq(Words) /\ "entry" \in Labels
    BY LabelFacts
  <2>3. c = [fn |-> f, pc |-> "entry", i |-> 0, amount |-> 0, entry |-> regs,
             args |-> <<>>, locals |-> L, allocas |-> <<>>]
    BY DEF Activation
  <2> HIDE DEF c, L
  <2> QED BY <1>3, <2>1, <2>2, <2>3 DEF Activations
<1>6. acts = <<c>>
  BY <1>1
<1> HIDE DEF c
<1>7. acts \in Seq(Activations) /\ Len(acts) = 1 /\ acts[1] = c
  BY <1>5, <1>6
<1>8. TypeInv
  <2>1. 1 \in 1 .. MaxNesting
    BY RoomFacts
  <2> QED BY <1>3, <1>7, <2>1 DEF TypeInv
<1>9. StackBase >= MaxNesting * Room /\ StackBase >= Room /\ StackBase \in Nat
  <2>1. 1 * Room <= MaxNesting * Room
    BY RoomFacts, MulMono
  <2> DEFINE z == MaxNesting * Room
  <2>2. Room <= z /\ z <= StackBase /\ z \in Nat /\ Room \in Nat /\ StackBase \in Nat
    BY <2>1, RoomFacts, WordsFacts
  <2>3. StackBase >= Room /\ StackBase >= z
    <3> HIDE DEF z
    <3> QED BY <2>2
  <2> QED BY <2>2, <2>3
<1>10. PositionOK(c)
  <2>1. f.params = Len(c.args) * ScalarSize /\ StackBase + f.params <= StackBase
    <3>1. Len(c.args) = 0 /\ ScalarSize \in Nat /\ f.params = 0
      BY <1>1, <1>5, SizesAssumption
    <3> QED BY <1>9, <3>1
  <2>2. StackBase % StackAlign = 0
    BY StackBaseAssumption
  <2>3. Len(c.allocas) <= MaxAllocas
    BY <1>5, RoomFacts
  <2> QED BY <1>3, <1>5, <1>9, <2>1, <2>2, <2>3 DEF PositionOK, Calling
<1>11. RegistersOK(c, regs)
  BY <1>5 DEF RegistersOK, InBody, Calling
<1>12. MemoryOK(c, mem)
  <2>1. Stored(c) = {} /\ Len(c.args) = 0
    BY <1>5 DEF Stored, InBody, Calling
  <2> QED BY <1>5, <2>1 DEF MemoryOK, ArgumentsOK, SavesOK, LocalsOK, AllocasOK, InBody, Calling
<1>13. \A n \in 1 .. Len(acts) : n = 1 /\ acts[n] = c /\ Seen(n) = regs
  BY <1>7 DEF Seen
<1>14. FrameInv
  BY <1>10, <1>11, <1>12, <1>13 DEF FrameInv
<1>15. StackInv
  <2>1. c.entry.SP >= (MaxNesting + 1 - 1) * Room
    <3>1. MaxNesting + 1 - 1 = MaxNesting
      BY RoomFacts
    <3> QED BY <1>3, <1>5, <1>9, <3>1
  <2>2. c.entry.SP <= c.entry.SP
    BY <1>3, <1>5, <1>9
  <2>3. \A n \in 1 .. Len(acts) : acts[n] = c /\ acts[n].entry.SP >= (MaxNesting + 1 - n) * Room
    BY <1>13, <2>1
  <2>4. \A n \in 1 .. (Len(acts) - 1) : acts[n].pc = "callup"
    BY <1>7
  <2>5. acts[Len(acts)].pc # "args"
    BY <1>5, <1>7
  <2> QED BY <2>2, <2>3, <2>4, <2>5 DEF StackInv
<1>16. NothingBelowSP
  BY <1>2 DEF NothingBelowSP
<1> QED BY <1>8, <1>14, <1>15, <1>16 DEF IInv

(* A step that changes nothing keeps the invariant. *)
LEMMA StutterStep ==
  ASSUME IInv, UNCHANGED vars
  PROVE  IInv'
<1>1. regs' = regs /\ mem' = mem /\ acts' = acts
  BY DEF vars
<1>2. \A n : Seen(n)' = Seen(n)
  BY <1>1 DEF Seen
<1>3. TypeInv'
  BY <1>1 DEF IInv, TypeInv
<1>4. FrameInv'
  BY <1>1, <1>2 DEF IInv, FrameInv
<1>5. StackInv'
  BY <1>1 DEF IInv, StackInv
<1>6. NothingBelowSP'
  BY <1>1 DEF IInv, NothingBelowSP
<1> QED BY <1>3, <1>4, <1>5, <1>6 DEF IInv

LEMMA NextStep ==
  ASSUME IInv, [Next]_vars
  PROVE  IInv'
<1>1. CASE Prologue
  BY <1>1, PrologueStep
<1>2. CASE SaveRegister
  BY <1>2, SaveRegisterStep
<1>3. CASE SetFramePointer
  BY <1>3, SetFramePointerStep
<1>4. CASE \E k \in DOMAIN fn.locals : \E v \in Computed(LocalUse(k)) : WriteLocal(k, v)
  <2>1. PICK k \in DOMAIN fn.locals : \E v \in Computed(LocalUse(k)) : WriteLocal(k, v)
    BY <1>4
  <2>2. PICK v \in Computed(LocalUse(k)) : WriteLocal(k, v)
    BY <2>1
  <2>3. v \in Words
    BY <2>2, ComputedWords
  <2> QED BY <2>2, <2>3, WriteLocalStep
<1>5. CASE \E r \in ToSet(NyuziCSR), v \in Computed(RegisterUse) : WriteRegister(r, v)
  <2>1. PICK r \in ToSet(NyuziCSR), v \in Computed(RegisterUse) : WriteRegister(r, v)
    BY <1>5
  <2>2. v \in Words
    BY <2>1, ComputedWords
  <2> QED BY <2>1, <2>2, WriteRegisterStep
<1>6. CASE \E v \in Computed(AllocaUse) : Alloca(v)
  <2>1. PICK v \in Computed(AllocaUse) : Alloca(v)
    BY <1>6
  <2>2. v \in Words
    BY <2>1, ComputedWords
  <2> QED BY <2>1, <2>2, AllocaStep
<1>7. CASE \E f \in Functions : AdjCallStackDown(f.params)
  <2>1. PICK f \in Functions : AdjCallStackDown(f.params)
    BY <1>7
  <2>2. f.params \in Nat
    BY FunctionTypes
  <2> QED BY <2>1, <2>2, AdjCallStackDownStep
<1>8. CASE \E f \in Functions :
             \E args \in [1 .. (f.params \div ScalarSize) -> Computed(ArgumentUse)] : Call(f, args)
  BY <1>8, CallStep
<1>9. CASE AdjCallStackUp
  BY <1>9, AdjCallStackUpStep
<1>10. CASE Epilogue
  BY <1>10, EpilogueStep
<1>11. CASE RestoreRegister
  BY <1>11, RestoreRegisterStep
<1>12. CASE FreeFrame
  BY <1>12, FreeFrameStep
<1>13. CASE Ret
  BY <1>13, RetStep
<1>14. CASE UNCHANGED vars
  BY <1>14, StutterStep
<1> QED BY <1>1, <1>2, <1>3, <1>4, <1>5, <1>6, <1>7, <1>8, <1>9, <1>10, <1>11, <1>12, <1>13, <1>14
        DEF Next

(* The invariant holds in every state: each active function finds its      *)
(* registers, saves, locals, allocations and arguments where its code      *)
(* expects them when control comes back to it, and the frames lie below    *)
(* each other (emitPrologue, emitEpilogue, eliminateFrameIndex, LowerCall).*)
THEOREM FrameInvariant == Spec => []IInv
<1>1. Init => IInv
  BY InitIInv
<1>2. IInv /\ [Next]_vars => IInv'
  BY NextStep
<1> QED BY <1>1, <1>2, PTL DEF Spec

(* Registers, memory and the positions of the active functions keep their  *)
(* types: in particular what adjustStackPointer and eliminateFrameIndex    *)
(* compute are words, and no function calls beyond the bound.              *)
THEOREM TypeTheorem == Spec => []TypeOK
<1>1. ASSUME IInv PROVE TypeOK
  <2>1. TypeInv
    BY <1>1 DEF IInv
  <2>2. ASSUME NEW n \in 1 .. Len(acts)
        PROVE  acts[n].fn \in Functions /\ acts[n].pc \in Labels /\ acts[n].entry \in [Registers -> Words]
    <3>1. acts[n] \in Activations
      BY <2>1 DEF TypeInv
    <3> QED BY <3>1 DEF Activations
  <2>3. regs.SP \in 0 .. StackBase
    <3> DEFINE sp == regs.SP
               E == Top.entry.SP
    <3>1. /\ Top \in Activations /\ PositionOK(Top) /\ RegistersOK(Top, regs)
          /\ regs \in [Registers -> Words] /\ fn = Top.fn /\ fn \in Functions
      BY <1>1, TopFacts
    <3>2. sp \in Nat
      BY <3>1, WordsFacts DEF Registers
    <3>3. /\ E \in Nat /\ E + Top.fn.params <= StackBase /\ Top.fn.params \in Nat
          /\ Base(Top) \in Nat /\ Base(Top) + StackSize(Top.fn) = E
          /\ StackSize(Top.fn) \in Nat
          /\ Len(Top.allocas) * StackAlign \in Nat /\ Pushed(Top) \in Nat
      BY <3>1, Bounds, FrameFacts, FunctionTypes
    <3>4. \/ sp = E \/ sp = Base(Top)
          \/ sp = Base(Top) - Len(Top.allocas) * StackAlign - Pushed(Top)
      <4>1. Top.pc \in {"entry", "ret"} \cup {"save"} \cup InBody \cup {"restore"}
        BY <3>1 DEF Activations, Labels, InBody, Calling
      <4>2. CASE Top.pc \in {"entry", "ret"}
        BY <3>1, <4>2 DEF RegistersOK
      <4>3. CASE Top.pc = "save"
        <5>1. [Top.entry EXCEPT !.SP = Base(Top)].SP = Base(Top)
          BY <3>1 DEF Activations, Registers
        <5> QED BY <3>1, <4>3, <5>1 DEF RegistersOK
      <4>4. CASE Top.pc \in InBody \cup {"restore"}
        BY <3>1, <4>4 DEF RegistersOK
      <4> QED BY <4>1, <4>2, <4>3, <4>4
    <3>5. E <= StackBase /\ Base(Top) <= E
      <4> HIDE DEF E
      <4> QED BY <3>3, WordsFacts
    <3> HIDE DEF E, sp
    <3>6. sp <= StackBase
      BY <3>2, <3>3, <3>4, <3>5, WordsFacts
    <3> QED BY <3>2, <3>6, WordsFacts DEF sp
  <2> QED BY <2>1, <2>2, <2>3 DEF TypeInv, TypeOK
<1> QED BY <1>1, FrameInvariant, PTL

(* A function that returns (RET, after the restores of emitEpilogue) hands *)
(* back SP, FP, RA and every callee saved register as it got them, at      *)
(* every depth of calls, with any allocations and calls in its body.       *)
THEOREM CalleeSavedTheorem == Spec => []CalleeSavedRestored
<1>1. ASSUME IInv PROVE CalleeSavedRestored
  BY <1>1, TopFacts DEF CalleeSavedRestored, RegistersOK
<1> QED BY <1>1, FrameInvariant, PTL

(* The addresses that eliminateFrameIndex leaves in the body of a function *)
(* hold what the function last wrote there, or what its caller passed,     *)
(* across the saves, allocations, calls and frames of every other function.*)
THEOREM FrameIntactTheorem == Spec => []FrameIntact
<1>1. ASSUME IInv, Top.pc = "body" PROVE FrameIntact
  <2>1. /\ Top \in Activations /\ PositionOK(Top) /\ MemoryOK(Top, mem) /\ fn = Top.fn
        /\ fn \in Functions /\ Top.pc \in InBody
    BY <1>1, TopFacts DEF InBody
  <2>2. /\ DOMAIN fn.locals = 1 .. Len(Top.locals)
        /\ DOMAIN Top.allocas = 1 .. Len(Top.allocas) /\ DOMAIN Top.args = 1 .. Len(Top.args)
    BY <2>1, ObjectsFacts DEF PositionOK, Activations
  <2>3. ASSUME NEW k \in 1 .. Len(Top.locals), Top.locals[k] # -1,
               NEW x \in Block(ObjectAddress(LocalIndex(fn, k)), fn.locals[k].size)
        PROVE  mem[x] = Top.locals[k]
    <3> DEFINE i == LocalIndex(fn, k)
               addr == Base(Top) + Place(fn, i)
               size == fn.locals[k].size
    <3>1. ObjectAddress(i) = addr
      BY <1>1, LocalAddress
    <3>2. i \in 1 .. Len(Objects(fn)) /\ Objects(fn)[i].size = size
      BY <2>1, LocalRegion
    <3>3. addr \in Nat /\ size \in Nat /\ addr + size <= WordSize
      <4> HIDE DEF i
      <4> QED BY <2>1, <3>2, ObjectRegion
    <3>4. Filled(mem, addr, size, Top.locals[k])
      BY <2>1, <2>3 DEF MemoryOK, LocalsOK
    <3> HIDE DEF addr, size
    <3>5. Block(addr, size) = addr .. (addr + size - 1)
      BY <3>3, BlockIs
    <3>6. x \in addr .. (addr + size - 1)
      BY <2>3, <3>1, <3>5 DEF size
    <3> QED BY <3>4, <3>6 DEF Filled
  <2>4. ASSUME NEW n \in 1 .. Len(Top.allocas), NEW x \in Block(Top.allocas[n][1], StackAlign)
        PROVE  mem[x] = Top.allocas[n][2]
    <3> DEFINE addr == Base(Top) - n * StackAlign
    <3>1. Top.allocas[n][1] = addr /\ Filled(mem, addr, StackAlign, Top.allocas[n][2])
      BY <2>1 DEF MemoryOK, AllocasOK
    <3>2. addr \in Nat /\ StackAlign \in Nat /\ addr + StackAlign <= WordSize
      BY <2>1, AllocaRegion, RoomFacts
    <3> HIDE DEF addr
    <3>3. Block(addr, StackAlign) = addr .. (addr + StackAlign - 1)
      BY <3>2, BlockIs
    <3>4. x \in addr .. (addr + StackAlign - 1)
      BY <2>4, <3>1, <3>3
    <3> QED BY <3>1, <3>4 DEF Filled
  <2>5. ASSUME NEW j \in 1 .. Len(Top.args), NEW x \in Block(ParamAddress(j), ScalarSize)
        PROVE  mem[x] = Top.args[j]
    <3> DEFINE addr == Top.entry.SP + (j - 1) * ScalarSize
    <3>1. ParamAddress(j) = addr
      BY <1>1, ArgumentAddress
    <3>2. addr \in Nat /\ ScalarSize \in Nat /\ addr + ScalarSize <= WordSize
      BY <2>1, ArgumentRegion
    <3>3. Filled(mem, addr, ScalarSize, Top.args[j])
      BY <2>1 DEF MemoryOK, ArgumentsOK
    <3> HIDE DEF addr
    <3>4. Block(addr, ScalarSize) = addr .. (addr + ScalarSize - 1)
      BY <3>2, BlockIs
    <3>5. x \in addr .. (addr + ScalarSize - 1)
      BY <2>5, <3>1, <3>4
    <3> QED BY <3>3, <3>5 DEF Filled
  <2> QED BY <2>2, <2>3, <2>4, <2>5 DEF FrameIntact
<1>2. ASSUME IInv PROVE FrameIntact
  <2>1. CASE Top.pc # "body"
    BY <2>1 DEF FrameIntact
  <2> QED BY <1>1, <1>2, <2>1
<1> QED BY <1>2, FrameInvariant, PTL

(* A trap may overwrite what is below SP at any time: no live data is      *)
(* there, since emitPrologue moves SP before the saves and emitEpilogue    *)
(* only behind the restores.                                               *)
THEOREM NothingBelowSPTheorem == Spec => []NothingBelowSP
<1>1. IInv => NothingBelowSP
  BY DEF IInv
<1> QED BY <1>1, FrameInvariant, PTL

-----------------------------------------------------------------------------
(* Alignment. *)
(* An object whose alignment divides that of the stack is aligned. *)
LEMMA ObjectAligned ==
  ASSUME NEW a \in Activations, PositionOK(a), NEW i \in 1 .. Len(Objects(a.fn)),
         StackAlign % Objects(a.fn)[i].align = 0
  PROVE  (Base(a) + Place(a.fn, i)) % Objects(a.fn)[i].align = 0
<1> DEFINE E == a.entry.SP
           SS == StackSize(a.fn)
           P == Place(a.fn, i)
           e == Objects(a.fn)[i].align
           B == Base(a)
<1>1. /\ a.fn \in Functions /\ E \in Nat /\ B \in Nat /\ B + SS = E /\ E % StackAlign = 0
      /\ StackAlign \in Nat \ {0}
  BY Bounds, RoomFacts DEF PositionOK
<1>2. SS \in Nat /\ P \in Nat /\ Multiple(SS - P, e)
  BY <1>1, FrameFacts
<1>3. e \in Nat \ {0} /\ StackAlign % e = 0
  BY <1>1, ObjectsFacts, ObjectTypes
<1> HIDE DEF E, SS, P, e, B
<1>4. Multiple(E, e)
  <2>1. Multiple(E, StackAlign) /\ E \in Int
    BY <1>1, MultipleMod
  <2>2. Multiple(StackAlign, e)
    BY <1>1, <1>3, MultipleMod
  <2> QED BY <1>1, <1>3, <2>1, <2>2, MultipleTrans
<1> DEFINE d == SS - P
<1>5. d \in Int /\ Multiple(d, e) /\ B + P = E - d
  BY <1>1, <1>2
<1> HIDE DEF d
<1>6. Multiple(E - d, e) /\ E - d \in Int
  BY <1>1, <1>3, <1>4, <1>5, MultipleSum
<1>7. (E - d) % e = 0
  BY <1>3, <1>6, MultipleMod
<1>8. (B + P) % e = 0
  BY <1>5, <1>7
<1> QED BY <1>8 DEF B, P, e

(* The alignments that the stack's is enough for: emitPrologue does not    *)
(* align SP any further, whatever getMaxAlignment is.                      *)
StackAlignSuffices ==
  \A f \in Functions : \A k \in DOMAIN f.locals : StackAlign % f.locals[k].align = 0

(* SP is aligned on entry of every function (LowerCall rounds the size of  *)
(* the arguments, and emitPrologue that of the frame), and so is every     *)
(* vector that is saved and every local, whichever way the frame is laid   *)
(* out, for locals whose alignment divides that of the stack.              *)
THEOREM BlocksAlignedTheorem ==
  ASSUME StackAlignSuffices
  PROVE  Spec => []BlocksAligned
<1>1. ASSUME IInv PROVE BlocksAligned
  <2>1. /\ Top \in Activations /\ PositionOK(Top) /\ RegistersOK(Top, regs) /\ fn = Top.fn
        /\ fn \in Functions /\ CSI = Saves(Top) /\ Top.entry \in [Registers -> Words]
    BY <1>1, TopFacts
  <2>2. Top.pc = "entry" => regs.SP % StackAlign = 0
    BY <2>1 DEF RegistersOK, PositionOK
  <2>3. ASSUME Top.pc = "save", Top.i \in DOMAIN CSI, CSI[Top.i] \in Vectors
        PROVE  ObjectAddress(Top.i) % StackAlign = 0
    <3> DEFINE i == Top.i
    <3>1. i \in 1 .. Len(Saves(Top)) /\ Saves(Top) = CalleeSavedInfo(fn)
      BY <2>1, <2>3, ObjectsFacts DEF Saves
    <3>2. regs.SP = Base(Top)
      BY <2>1, <2>3 DEF RegistersOK, Registers
    <3>3. ObjectAddress(i) = Base(Top) + Place(fn, i)
      <4> HIDE DEF i
      <4> QED BY <1>1, <3>1, <3>2, SaveAddress
    <3>4. /\ i \in 1 .. Len(Objects(fn)) /\ Objects(fn)[i].align = SpillSize(Saves(Top)[i])
          /\ SpillSize(Saves(Top)[i]) = StackAlign
      BY <2>1, <2>3, <3>1, ObjectsFacts DEF SpillSize
    <3>5. StackAlign % StackAlign = 0
      BY RoomFacts
    <3> HIDE DEF i
    <3>6. (Base(Top) + Place(fn, i)) % StackAlign = 0
      BY <2>1, <3>4, <3>5, ObjectAligned
    <3> QED BY <3>3, <3>6 DEF i
  <2>4. ASSUME Top.pc = "body", NEW k \in DOMAIN fn.locals
        PROVE  ObjectAddress(LocalIndex(fn, k)) % fn.locals[k].align = 0
    <3>1. k \in 1 .. Len(Top.locals)
      BY <2>1, ObjectsFacts DEF PositionOK
    <3> DEFINE i == LocalIndex(fn, k)
    <3>2. i \in 1 .. Len(Objects(fn)) /\ Objects(fn)[i].align = fn.locals[k].align
      BY <2>1, <3>1, LocalRegion
    <3>3. ObjectAddress(i) = Base(Top) + Place(fn, i)
      BY <1>1, <2>4, <3>1, LocalAddress
    <3>4. StackAlign % fn.locals[k].align = 0
      BY <2>1 DEF StackAlignSuffices
    <3> HIDE DEF i
    <3>5. (Base(Top) + Place(fn, i)) % Objects(fn)[i].align = 0
      BY <2>1, <3>2, <3>4, ObjectAligned
    <3> QED BY <3>2, <3>3, <3>5 DEF i
  <2> QED BY <2>2, <2>3, <2>4 DEF BlocksAligned, LocalsAligned
<1> QED BY <1>1, FrameInvariant, PTL
=============================================================================
