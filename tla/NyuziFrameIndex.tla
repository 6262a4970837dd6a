-------------------------- MODULE NyuziFrameIndex --------------------------
(***************************************************************************)
(* The frame of one function, at the widths of the hardware: prologue and  *)
(* epilogue insertion visits its stack adjustments and its accesses to the *)
(* frame in some order, and the long form of an offset takes a virtual     *)
(* register, for which the scavenger finds a register later, or frees one  *)
(* with the slot that determineCalleeSaves decided about before.           *)
(***************************************************************************)
EXTENDS NyuziFrameLayout

CONSTANT FrameBases  \* values of SP

ASSUME BasesAssumption == FrameBases \subseteq 0 .. (2^(LoBits + HiBits) - 1)

VARIABLES
  MF,       \* the function
  at,       \* the offset that was encoded last
  encoded,  \* what the encoded instructions add to a base register
  vregs,    \* there are virtual registers
  pass      \* how often scavengeFrameVirtualRegs has gone over the block

indexVars == <<MF, at, encoded, vregs, pass>>

IndexInit ==
  /\ MF \in Functions
  /\ at = 0
  /\ encoded = [b \in FrameBases |-> b]
  /\ vregs = FALSE
  /\ pass = 0

(* The instructions that add an offset to a base register; the long form   *)
(* takes a virtual register.                                               *)
Encode(offset, result(_)) ==
  /\ at' = offset
  /\ encoded' = [b \in FrameBases |-> result(b)]

(* adjustStackPointer in emitPrologue, emitEpilogue and                    *)
(* eliminateCallFramePseudoInstr.                                          *)
Adjust(amount) ==
  /\ pass = 0
  /\ Encode(amount, LAMBDA b : adjustStackPointer(b, amount))
  /\ vregs' = (vregs \/ ~isInt(ImmBits, amount))
  /\ UNCHANGED <<MF, pass>>

(* eliminateFrameIndex of an access at `imm` in the object at `offset`. *)
Eliminate(offset, imm) ==
  LET Offset == FrameOffset(MF, offset + imm) IN
  /\ pass = 0
  /\ Encode(Offset, LAMBDA b : FrameAddress(b, Offset))
  /\ vregs' = (vregs \/ ~isInt(ImmBits, Offset))
  /\ UNCHANGED <<MF, pass>>

EliminateObject(i) ==
  \E imm \in {0, MaxOf(0, Objects(MF)[i].size - ScalarSize)} :
    Eliminate(ObjectOffsets(MF)[i], imm)

EliminateParam == MF.params > 0 /\ \E off \in {0, MF.params - ScalarSize} : Eliminate(off, 0)

AdjustCallFrame ==
  /\ MF.adjustsStack /\ ~hasReservedCallFrame(MF) /\ MF.maxCall # 0
  /\ Adjust(-MF.maxCall) \/ Adjust(MF.maxCall)

(* scavengeFrameVirtualRegs, a pass that finds no free register: spill     *)
(* stores one to the slot, and eliminateFrameIndex of that access may need *)
(* a virtual register again.  There are two passes at most.                *)
Scavenge ==
  LET Offset == FrameOffset(MF, ObjectOffsets(MF)[ScavengingIndex(MF)]) IN
  /\ vregs
  /\ pass < 2
  /\ hasScavengingSlot(MF)
  /\ Encode(Offset, LAMBDA b : FrameAddress(b, Offset))
  /\ vregs' = ~isInt(ImmBits, Offset)
  /\ pass' = pass + 1
  /\ UNCHANGED MF

IndexNext ==
  \/ Adjust(-StackSize(MF))
  \/ Adjust(StackSize(MF))
  \/ AdjustCallFrame
  \/ \E i \in DOMAIN Objects(MF) : EliminateObject(i)
  \/ EliminateParam
  \/ Scavenge

IndexSpec == IndexInit /\ [][IndexNext]_indexVars

-----------------------------------------------------------------------------
(* The immediate, or movehi, add_i and the rest, add the offset to the     *)
(* base register, at every boundary between the two forms and for either   *)
(* sign.                                                                   *)
OffsetsExact == \A b \in FrameBases : encoded[b] = Wrap(b + at)

(* The scavenger has its slot whenever an offset of the frame needs a      *)
(* register: determineCalleeSaves "must match the size of the" check in    *)
(* eliminateFrameIndex, although it runs before the frame is laid out.     *)
ScavengerHasSlot == vregs => hasScavengingSlot(MF)

(* The slot can be reached when it is needed: the store that frees a       *)
(* register does not itself need a register in every pass ("Incomplete     *)
(* scavenging after 2nd pass" is not reported).                            *)
ScavengingCompletes == pass = 2 => ~vregs

-----------------------------------------------------------------------------
(* Which functions the last two hold for.                                  *)

(* Alignments are powers of two up to that of the stack. *)
AlignmentsNest(f) ==
  \A k \in DOMAIN f.locals :
    /\ StackAlign % f.locals[k].align = 0
    /\ MaxAlign(f) % f.locals[k].align = 0

(* getWorstCaseStackSize takes the sizes of the registers in bits: what    *)
(* that leaves in reserve must hold the incoming arguments, which it does  *)
(* not count.                                                              *)
SavesInBits ==
  [i \in DOMAIN NyuziCSR |->
     [size |-> 8 * SpillSize(NyuziCSR[i]), align |-> 8 * SpillSize(NyuziCSR[i])]]
ReserveHoldsParams(f) ==
  StackOffsets(0, SpillSlots(f))[Len(SpillSlots(f))] + alignTo(f.params, StackAlign)
    <= StackOffsets(0, SavesInBits)[Len(SavesInBits)]

(* Nor does it count the arguments of calls around which SP is adjusted. *)
WorstCaseCounts(f) ==
  /\ AlignmentsNest(f)
  /\ ReserveHoldsParams(f)
  /\ f.adjustsStack /\ ~hasReservedCallFrame(f) => f.maxCall < 2^LoBits

(* The scavenger's slot is near the register it is addressed from: it is   *)
(* the lowest object, or comes right below the spill slots.                *)
SlotInReach(f) ==
  /\ AlignmentsNest(f)
  /\ IF hasFP(f) THEN FrameOffset(f, ObjectOffsets(f)[Len(SpillSlots(f))]) <= 2^LoBits
                 ELSE CallFrame(f) + StackAlign <= 2^LoBits
=============================================================================
