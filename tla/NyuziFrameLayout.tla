-------------------------- MODULE NyuziFrameLayout --------------------------
(***************************************************************************)
(* What NyuziFrameLowering.cpp, NyuziRegisterInfo.cpp and the constant     *)
(* loading of NyuziInstrInfo.cpp compute about the stack frame of one      *)
(* function: which registers are saved, whether there is a frame pointer,  *)
(* where each object lies, and how an offset gets into an instruction.     *)
(*                                                                         *)
(* A function is a record:                                                 *)
(*   modified          the callee saved registers its body writes          *)
(*   disableFPElim, varSized, frameAddressTaken                            *)
(*   locals            its stack objects: records of size and align        *)
(*   adjustsStack      it calls                                            *)
(*   maxCall           the largest outgoing argument area, aligned         *)
(*   params            the size of its incoming stack arguments            *)
(***************************************************************************)
EXTENDS Integers, Sequences, SequencesExt

CONSTANTS
  ScalarSize,  \* bytes of a scalar register: 4
  StackAlign,  \* getStackAlignment, and the size of a vector register: 64
  NyuziCSR,    \* the callee saved registers, in the order of the save list
  Vectors,     \* those of them that are vector registers
  ImmBits,     \* width of a signed immediate: 14
  HiBits,      \* width of the immediate of movehi: 19
  Functions    \* the functions

ASSUME SizesAssumption ==
  ScalarSize \in Nat \ {0} /\ StackAlign \in Nat \ {0} /\ StackAlign % ScalarSize = 0
ASSUME ImmAssumption == ImmBits \in Nat \ {0, 1} /\ HiBits \in Nat \ {0}
ASSUME CSRAssumption ==
  /\ NyuziCSR \in Seq(ToSet(NyuziCSR))
  /\ IsInjective(NyuziCSR)
  /\ "SP" \notin ToSet(NyuziCSR) /\ {"FP", "RA"} \subseteq ToSet(NyuziCSR)

alignTo(n, align) == ((n + align - 1) \div align) * align
isInt(bits, v) == -(2^(bits - 1)) <= v /\ v < 2^(bits - 1)
MaxOf(a, b) == IF a > b THEN a ELSE b

-----------------------------------------------------------------------------
(* An offset in instructions. *)
LoBits == ImmBits - 1

(* The two parts make up a word. *)
ASSUME PowersAssumption ==
  /\ 2^LoBits \in Nat \ {0} /\ 2^HiBits \in Nat \ {0}
  /\ 2^(LoBits + HiBits) = 2^LoBits * 2^HiBits

Wrap(n) == n % 2^(LoBits + HiBits)

(* Mutant: the low part is the field's full width, whose top bit the high  *)
(* part counts as well.                                                    *)
LowPartWide(v) == v % 2^ImmBits

(* (v >> 13) & 0x7ffff and v & 0x1fff *)
HighPart(v) == (v \div 2^LoBits) % 2^HiBits
LowPart(v) == v % 2^LoBits

(* eliminateFrameIndex, the address that an access at reg + offset         *)
(* computes: the immediate, or movehi, add_i and the rest as immediate     *)
(* (beyond 25 bits the compiler stops with an error).                      *)
FrameAddress(reg, offset) ==
  IF isInt(ImmBits, offset) THEN Wrap(reg + offset)
  ELSE LET Reg == Wrap(HighPart(offset) * 2^LoBits + reg)
       IN  Wrap(Reg + LowPart(offset))

(* loadConstant: movehi, then or unless the low part is 0. *)
loadConstant(v) == HighPart(v) * 2^LoBits + LowPart(v)

(* adjustStackPointer *)
adjustStackPointer(sp, amount) ==
  Wrap(sp + IF isInt(ImmBits, amount) THEN amount ELSE loadConstant(amount))

-----------------------------------------------------------------------------
hasFP(fn) == fn.disableFPElim \/ fn.varSized \/ fn.frameAddressTaken

(* Mutant: outgoing arguments always have a place in the frame. *)
hasReservedCallFrameAlways(fn) == TRUE

hasReservedCallFrame(fn) == ~fn.varSized

SpillSize(r) == IF r \in Vectors THEN StackAlign ELSE ScalarSize
MaxAlign(fn) == Max({1} \cup {fn.locals[k].align : k \in DOMAIN fn.locals})
CallFrame(fn) ==
  IF fn.adjustsStack /\ hasReservedCallFrame(fn) THEN fn.maxCall ELSE 0

(* AdjustStackOffset of one object after the other: Offset behind each. *)
StackOffsets(start, objects) ==
  LET Offset[i \in 0 .. Len(objects)] ==
        IF i = 0 THEN start
        ELSE alignTo(Offset[i - 1] + objects[i].size, objects[i].align)
  IN  Offset

(* getWorstCaseStackSize: the save list's sizes are taken in bits.  The    *)
(* fixed objects, the incoming arguments, lie above SP and count as 0.     *)
getWorstCaseStackSize(fn) ==
  LET saves == [i \in DOMAIN NyuziCSR |->
                  [size |-> 8 * SpillSize(NyuziCSR[i]), align |-> 8 * SpillSize(NyuziCSR[i])]]
      others == [k \in DOMAIN fn.locals |->
                   [size |-> fn.locals[k].size, align |-> MaxAlign(fn)]]
      csr == StackOffsets(0, saves)[Len(saves)]
      objects == StackOffsets(csr, others)[Len(others)]
      all == IF fn.adjustsStack /\ hasReservedCallFrame(fn)
             THEN alignTo(objects + fn.maxCall, MaxOf(MaxAlign(fn), StackAlign))
             ELSE objects
  IN  alignTo(all, StackAlign)

(* determineCalleeSaves: the registers, and the scavenger's slot. *)
SavedRegs(fn) == fn.modified \cup (IF hasFP(fn) THEN {"FP"} ELSE {})

(* Mutant: the check is wider than that of eliminateFrameIndex. *)
hasScavengingSlotTight(fn) ==
  ~isInt(ImmBits + 1, getWorstCaseStackSize(fn))

hasScavengingSlot(fn) == ~isInt(ImmBits, getWorstCaseStackSize(fn))

(* assignCalleeSavedSpillSlots: those of the list that are saved. *)
CalleeSavedInfo(fn) ==
  LET CSI[i \in 0 .. Len(NyuziCSR)] ==
        IF i = 0 THEN <<>>
        ELSE IF NyuziCSR[i] \in SavedRegs(fn) THEN Append(CSI[i - 1], NyuziCSR[i])
        ELSE CSI[i - 1]
  IN  CSI[Len(NyuziCSR)]

SpillSlots(fn) ==
  LET CSI == CalleeSavedInfo(fn) IN
  [i \in DOMAIN CSI |-> [size |-> SpillSize(CSI[i]), align |-> SpillSize(CSI[i])]]
ScavengingSlots(fn) ==
  IF hasScavengingSlot(fn) THEN <<[size |-> ScalarSize, align |-> ScalarSize]>> ELSE <<>>

(* Mutant: the scavenger's slot is always the first of the locals. *)
EarlyScavengingSlotsAlways(fn) == TRUE

(* canRealignStack is not overridden; no attribute asks for a realignment. *)
needsStackRealignment(fn) == MaxAlign(fn) > StackAlign

(* Its slot goes where the frame pointer is taken to be: isFPCloseTo-      *)
(* IncomingSP is not overridden and returns true.                          *)
EarlyScavengingSlots(fn) == hasFP(fn) /\ ~needsStackRealignment(fn)

(* The objects of the frame from the top, and where the k-th local and the *)
(* scavenger's slot are among them.                                        *)
Objects(fn) ==
  SpillSlots(fn) \o (IF EarlyScavengingSlots(fn) THEN ScavengingSlots(fn) \o fn.locals
                                                ELSE fn.locals \o ScavengingSlots(fn))
LocalIndex(fn, k) ==
  Len(SpillSlots(fn)) + k + IF EarlyScavengingSlots(fn) THEN Len(ScavengingSlots(fn)) ELSE 0
ScavengingIndex(fn) ==
  Len(SpillSlots(fn)) + 1 + IF EarlyScavengingSlots(fn) THEN 0 ELSE Len(fn.locals)

(* calculateFrameObjectOffsets: each object below the one before.  The     *)
(* offsets are relative to SP on entry.                                    *)
ObjectOffsets(fn) ==
  [i \in DOMAIN Objects(fn) |-> -StackOffsets(0, Objects(fn))[i]]
ObjectsSize(fn) == StackOffsets(0, Objects(fn))[Len(Objects(fn))]

getStackSize(fn) ==
  alignTo(ObjectsSize(fn) + CallFrame(fn), MaxOf(StackAlign, MaxAlign(fn)))

(* Mutant: the stack is kept aligned for scalar registers only. *)
StackSizeScalar(fn) == ObjectsSize(fn) + CallFrame(fn)

(* The size by which prologue and epilogue move SP. *)
StackSize(fn) == alignTo(getStackSize(fn), StackAlign)

(* Mutant: the callee saved registers are addressed like the rest. *)
FrameRegAlwaysFP(fn, i) == IF hasFP(fn) THEN "FP" ELSE "SP"

(* eliminateFrameIndex: FP is not set up yet when they are saved. *)
FrameReg(fn, i) ==
  IF i \in DOMAIN CalleeSavedInfo(fn) THEN "SP"
  ELSE IF hasFP(fn) THEN "FP" ELSE "SP"         \* getFrameRegister

(* The operand that replaces a frame index: relative to SP (or FP) after   *)
(* the prologue.                                                           *)
FrameOffset(fn, offset) == offset + StackSize(fn)

(* What the code generator knows of a function: a call makes it save RA,   *)
(* and FP is the register allocator's in no function.                      *)
ASSUME FunctionsAssumption ==
  \A f \in Functions :
    /\ f.modified \subseteq ToSet(NyuziCSR) \ {"FP"}
    /\ {f.disableFPElim, f.varSized, f.frameAddressTaken, f.adjustsStack} \subseteq BOOLEAN
    /\ f.locals \in Seq([size : Nat \ {0}, align : Nat \ {0}])
    /\ f.adjustsStack => "RA" \in f.modified
    /\ f.maxCall \in Nat /\ f.maxCall % StackAlign = 0
    /\ f.params \in Nat /\ f.params % ScalarSize = 0
=============================================================================
