----------------------------- MODULE NyuziFrame -----------------------------
(***************************************************************************)
(* Functions compiled with the frames of NyuziFrameLayout, calling one     *)
(* another on one stack: the instructions that emitPrologue, emitEpilogue, *)
(* eliminateCallFramePseudoInstr, eliminateFrameIndex and LowerCall leave  *)
(* in them, executed on the registers and the memory of a thread.          *)
(***************************************************************************)
EXTENDS NyuziFrameLayout

CONSTANTS
  Data(_, _),  \* the words that the n-th active function computes for a use
  StackBase,   \* SP when the thread starts
  MaxNesting,  \* bound: functions active at a time
  MaxAllocas   \* bound: dynamic allocations of a function

Words == 0 .. (2^(LoBits + HiBits) - 1)

(* What a word is computed for. *)
RegisterUse == 0
AllocaUse == 1
ArgumentUse == 2
LocalUse(k) == 2 + k

ASSUME StackBaseAssumption == StackBase \in Words /\ StackBase % StackAlign = 0
ASSUME BoundsAssumption == MaxNesting \in Words \ {0} /\ MaxAllocas \in Nat
ASSUME DataAssumption ==
  \A n \in 1 .. MaxNesting, f \in Functions : \A use \in 0 .. LocalUse(Len(f.locals)) :
    Data(n, use) \subseteq Words

(* The stack has room for the functions that are active: nothing in the    *)
(* compiled code looks for its end.                                        *)
Room == StackBase \div MaxNesting
ASSUME RoomAssumption ==
  \A f \in Functions : StackSize(f) + MaxAllocas * StackAlign + f.maxCall <= Room

VARIABLES
  regs,  \* SP and the callee saved registers
  mem,   \* the memory
  acts   \* the functions that are active, innermost last

vars == <<regs, mem, acts>>

Registers == {"SP"} \cup ToSet(NyuziCSR)
Labels == {"entry", "save", "body", "args", "callup", "restore", "ret"}

Top == Last(acts)
fn == Top.fn
CSI == CalleeSavedInfo(fn)

(* An activation: entry and args are what its caller left, locals and      *)
(* allocas what its body wrote last (histories for the properties).        *)
Activation(f, args, entry) ==
  [fn |-> f, pc |-> "entry", i |-> 0, amount |-> 0, entry |-> entry,
   args |-> args, locals |-> [k \in DOMAIN f.locals |-> -1], allocas |-> <<>>]

Goto(label) == acts' = [acts EXCEPT ![Len(acts)].pc = label]
GotoAt(label, i) ==
  acts' = [acts EXCEPT ![Len(acts)].pc = label, ![Len(acts)].i = i]

(* Memory that is written and read in one access. *)
Block(addr, size) == {Wrap(addr + k) : k \in 0 .. (size - 1)}
Store(addr, size, v) == [x \in Words |-> IF x \in Block(addr, size) THEN v ELSE mem[x]]

(* What lies below SP is dead, and a trap may overwrite it: the model      *)
(* clears it whenever SP goes up.                                          *)
ClearBelow(sp) == mem' = [x \in Words |-> IF x < sp THEN 0 ELSE mem[x]]

(* The address of frame index i, and of the incoming argument j. *)
ObjectAddress(i) ==
  FrameAddress(regs[FrameReg(fn, i)], FrameOffset(fn, ObjectOffsets(fn)[i]))
ParamAddress(j) ==
  FrameAddress(regs[FrameReg(fn, -j)], FrameOffset(fn, (j - 1) * ScalarSize))

-----------------------------------------------------------------------------
Init ==
  /\ regs = [r \in Registers |-> IF r = "SP" THEN StackBase ELSE 0]
  /\ mem = [x \in Words |-> 0]
  /\ \E f \in Functions : f.params = 0 /\ acts = <<Activation(f, <<>>, regs)>>

(* Mutant: a function that makes no call is left without a frame, but its  *)
(* epilogue frees one.                                                     *)
PrologueNotInLeaves ==
  /\ Top.pc = "entry"
  /\ regs' = IF StackSize(fn) = 0 \/ ~fn.adjustsStack THEN regs
             ELSE [regs EXCEPT !.SP = adjustStackPointer(@, -StackSize(fn))]
  /\ GotoAt("save", 1)
  /\ UNCHANGED mem

(* emitPrologue, the stack adjustment. *)
Prologue ==
  /\ Top.pc = "entry"
  /\ regs' = IF StackSize(fn) = 0 /\ ~fn.adjustsStack THEN regs
             ELSE [regs EXCEPT !.SP = adjustStackPointer(@, -StackSize(fn))]
  /\ GotoAt("save", 1)
  /\ UNCHANGED mem

(* storeRegToStackSlot of one callee saved register. *)
SaveRegister ==
  /\ Top.pc = "save"
  /\ Top.i <= Len(CSI)
  /\ mem' = Store(ObjectAddress(Top.i), SpillSize(CSI[Top.i]), regs[CSI[Top.i]])
  /\ GotoAt("save", Top.i + 1)
  /\ UNCHANGED regs

(* emitPrologue, fp = sp behind the saves. *)
SetFramePointer ==
  /\ Top.pc = "save"
  /\ Top.i > Len(CSI)
  /\ regs' = IF hasFP(fn) THEN [regs EXCEPT !.FP = regs.SP] ELSE regs
  /\ Goto("body")
  /\ UNCHANGED mem

-----------------------------------------------------------------------------
(* The body. *)
WriteLocal(k, v) ==
  /\ Top.pc = "body"
  /\ mem' = Store(ObjectAddress(LocalIndex(fn, k)), fn.locals[k].size, v)
  /\ acts' = [acts EXCEPT ![Len(acts)].locals[k] = v]
  /\ UNCHANGED regs

WriteRegister(r, v) ==
  /\ Top.pc = "body"
  /\ r \in fn.modified \ {"RA"}
  /\ regs' = [regs EXCEPT ![r] = v]
  /\ UNCHANGED <<mem, acts>>

(* DYNAMIC_STACKALLOC, which the target has expanded to a subtraction from *)
(* SP of a size rounded up to the stack alignment (ExpandDYNAMIC_STACK-    *)
(* ALLOC), and a write to the memory it allocates.                         *)
Alloca(v) ==
  /\ Top.pc = "body"
  /\ fn.varSized
  /\ Len(Top.allocas) < MaxAllocas
  /\ LET addr == Wrap(regs.SP - StackAlign) IN
       /\ regs' = [regs EXCEPT !.SP = addr]
       /\ mem' = Store(addr, StackAlign, v)
       /\ acts' = [acts EXCEPT ![Len(acts)].allocas = Append(@, <<addr, v>>)]

(* eliminateCallFramePseudoInstr: ADJCALLSTACKDOWN before a call whose     *)
(* arguments take `size` bytes, and ADJCALLSTACKUP behind it.              *)
CallStackAdjust(sp, amount) ==
  IF amount # 0 /\ ~hasReservedCallFrame(fn) THEN adjustStackPointer(sp, amount) ELSE sp

AdjCallStackDown(size) ==
  /\ Top.pc = "body"
  /\ fn.adjustsStack
  /\ Len(acts) < MaxNesting
  /\ LET ArgsSize == alignTo(size, StackAlign) IN
       /\ ArgsSize <= fn.maxCall
       /\ regs' = [regs EXCEPT !.SP = CallStackAdjust(@, -ArgsSize)]
       /\ acts' = [acts EXCEPT ![Len(acts)].pc = "args", ![Len(acts)].i = size,
                               ![Len(acts)].amount = ArgsSize]
  /\ UNCHANGED mem

(* LowerCall: the arguments are stored off SP, and the call leaves the     *)
(* return address in RA (it is the position of the caller).                *)
Call(f, args) ==
  /\ Top.pc = "args"
  /\ f.params = Top.i
  /\ Len(args) * ScalarSize = Top.i
  /\ LET Slot(j) == Block(regs.SP + (j - 1) * ScalarSize, ScalarSize)
         Stored(x) == {j \in DOMAIN args : x \in Slot(j)}
     IN  mem' = [x \in Words |-> IF Stored(x) = {} THEN mem[x]
                                 ELSE args[CHOOSE j \in Stored(x) : TRUE]]
  /\ regs' = [regs EXCEPT !.RA = Len(acts)]
  /\ acts' = Append([acts EXCEPT ![Len(acts)].pc = "callup"],
                    Activation(f, args, regs'))

AdjCallStackUp ==
  /\ Top.pc = "callup"
  /\ regs' = [regs EXCEPT !.SP = CallStackAdjust(@, Top.amount)]
  /\ acts' = [acts EXCEPT ![Len(acts)].pc = "body", ![Len(acts)].i = 0,
                          ![Len(acts)].amount = 0]
  /\ ClearBelow(regs'.SP)

-----------------------------------------------------------------------------
(* Mutant: SP is not restored from FP. *)
EpilogueKeepsSP ==
  /\ Top.pc = "body"
  /\ GotoAt("restore", Len(CSI))
  /\ UNCHANGED <<regs, mem>>

(* emitEpilogue, sp = fp before the restores. *)
Epilogue ==
  /\ Top.pc = "body"
  /\ regs' = IF hasFP(fn) THEN [regs EXCEPT !.SP = regs.FP] ELSE regs
  /\ GotoAt("restore", Len(CSI))
  /\ ClearBelow(regs'.SP)

(* loadRegFromStackSlot, in the reverse order. *)
RestoreRegister ==
  /\ Top.pc = "restore"
  /\ Top.i > 0
  /\ regs' = [regs EXCEPT ![CSI[Top.i]] = mem[ObjectAddress(Top.i)]]
  /\ GotoAt("restore", Top.i - 1)
  /\ UNCHANGED mem

(* emitEpilogue, the stack adjustment. *)
FreeFrame ==
  /\ Top.pc = "restore"
  /\ Top.i = 0
  /\ regs' = IF StackSize(fn) = 0 THEN regs
             ELSE [regs EXCEPT !.SP = adjustStackPointer(@, StackSize(fn))]
  /\ Goto("ret")
  /\ ClearBelow(regs'.SP)

(* RET.  The thread's first function does not return. *)
Ret ==
  /\ Top.pc = "ret"
  /\ Len(acts) > 1
  /\ acts' = Front(acts)
  /\ UNCHANGED <<regs, mem>>

Computed(use) == Data(Len(acts), use)

Next ==
  \/ Prologue \/ SaveRegister \/ SetFramePointer
  \/ \E k \in DOMAIN fn.locals : \E v \in Computed(LocalUse(k)) : WriteLocal(k, v)
  \/ \E r \in ToSet(NyuziCSR), v \in Computed(RegisterUse) : WriteRegister(r, v)
  \/ \E v \in Computed(AllocaUse) : Alloca(v)
  \/ \E f \in Functions :
       \/ AdjCallStackDown(f.params)
       \/ \E args \in [1 .. (f.params \div ScalarSize) -> Computed(ArgumentUse)] :
            Call(f, args)
  \/ AdjCallStackUp \/ Epilogue \/ RestoreRegister \/ FreeFrame \/ Ret

Spec == Init /\ [][Next]_vars

-----------------------------------------------------------------------------
(* The registers, the memory and the positions of the active functions     *)
(* have their types, SP points into the stack, whose base is the highest   *)
(* address it may have, and no function calls beyond the bound.            *)
TypeOK ==
  /\ regs \in [Registers -> Words]
  /\ regs.SP \in 0 .. StackBase
  /\ mem \in [Words -> Words]
  /\ Len(acts) \in 1 .. MaxNesting
  /\ \A n \in 1 .. Len(acts) :
       /\ acts[n].fn \in Functions
       /\ acts[n].pc \in Labels
       /\ acts[n].entry \in [Registers -> Words]

(* A function that returns hands back the stack pointer, the frame pointer,*)
(* the return address and every callee saved register as it got them,      *)
(* whatever it and the functions it called did with the stack.             *)
CalleeSavedRestored == Top.pc = "ret" => regs = Top.entry

(* The frame of a function is its own: while its body runs, its locals,    *)
(* its dynamic allocations and its incoming arguments, at the addresses    *)
(* that its instructions compute, hold what was last written there by it   *)
(* or passed by its caller, across calls and allocations.                  *)
FrameIntact ==
  Top.pc = "body" =>
    /\ \A k \in DOMAIN fn.locals : Top.locals[k] # -1 =>
         \A x \in Block(ObjectAddress(LocalIndex(fn, k)), fn.locals[k].size) :
           mem[x] = Top.locals[k]
    /\ \A n \in DOMAIN Top.allocas :
         \A x \in Block(Top.allocas[n][1], StackAlign) : mem[x] = Top.allocas[n][2]
    /\ \A j \in DOMAIN Top.args :
         \A x \in Block(ParamAddress(j), ScalarSize) : mem[x] = Top.args[j]

(* A local has the alignment that its alloca asks for. *)
LocalsAligned ==
  Top.pc = "body" => \A k \in DOMAIN fn.locals :
    ObjectAddress(LocalIndex(fn, k)) % fn.locals[k].align = 0

(* "keeping SP 64 byte aligned so we can do block vector load/stores": on  *)
(* entry of every function, and at every access to a vector in a frame.    *)
BlocksAligned ==
  /\ Top.pc = "entry" => regs.SP % StackAlign = 0
  /\ Top.pc = "save" /\ Top.i \in DOMAIN CSI /\ CSI[Top.i] \in Vectors =>
       ObjectAddress(Top.i) % StackAlign = 0
  /\ LocalsAligned

(* No live data is below SP, where a trap may overwrite it: registers are  *)
(* saved and arguments stored only after SP has made room for them.        *)
NothingBelowSP == \A x \in Words : x < regs.SP => mem[x] = 0
=============================================================================
