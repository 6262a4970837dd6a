# Verification of the Nyuzi toolchain

The repository is a fork of LLVM 6 with clang, lld and lldb, extended by a back
end for Nyuzi, a multithreaded vector processor (sixteen 32 bit lanes), and by
`spmd-compile`, a compiler that turns a scalar function into a vector function
which runs one instance per lane. Almost all of the 57 000 files are upstream
code. This project models what the fork itself adds: `lib/Target/Nyuzi`,
`tools/lld/ELF/Arch/Nyuzi.cpp` and `tools/spmd-compile`, and from upstream only
the functions these rely on (prologue insertion, register scavenging, the calling
convention's walks, expansion of va_arg and of dynamic allocations).

A compiler's correctness is the correctness of the code it emits. Most modules
therefore *execute* the instruction sequences that the C++ emits, and compare
what happens with a reference: an atomic memory, a scalar program per lane, the
meaning of `fcmp` and `shufflevector`, the frame contents that each function wrote,
the arguments that a caller passed, the address of a symbol. The transformation itself is what is translated from the source; what
the hardware does with an instruction is taken from how the source uses it and
is marked external in `PROJECT.json`.

## Inventory

| Component | State | Operations | Interacts with | What is hard |
|---|---|---|---|---|
| Atomic operations (`NyuziISelLowering.cpp`: `EmitAtomicBinary`, `EmitAtomicCmpSwap`, `EmitInstrWithCustomInserter`; `STORE_SYNC` in `NyuziInstrInfo.td`) | registers of each hardware thread, shared memory, reservations | expand `ATOMIC_LOAD_*`, `ATOMIC_SWAP`, `ATOMIC_CMP_SWAP` to load_sync/store_sync loops | memory shared by all threads | threads, plain stores and evictions between any two instructions; retries; the tied register of store_sync; livelock |
| Stack frames (`NyuziFrameLowering.cpp`, `NyuziRegisterInfo.cpp`, `NyuziInstrInfo.cpp`, `PrologEpilogInserter.cpp`, `RegisterScavenging.cpp`) | SP, FP, RA, callee saved registers, the stack; the frame layout | `determineCalleeSaves`, `emitPrologue`, `emitEpilogue`, `eliminateCallFramePseudoInstr`, `eliminateFrameIndex`, spills, `LowerCall` | caller and callee share registers and stack; the scavenger runs after the layout | order of saves and FP set-up; call frames behind an alloca; alignment of vectors; offsets at the limit of an immediate; a decision taken before the layout is known |
| Branch analysis (`NyuziInstrInfo.cpp`) | a basic block, `TBB`, `FBB`, `Cond` | `analyzeBranch`, `removeBranch`, `insertBranch` | every pass that moves blocks | dead branches below an unconditional one, early returns, loops that restart |
| Comparison and select (`LowerSETCC`, `LowerSELECT_CC`, `EmitSelectCC`) | the mask register | 20 conditions in terms of 6 ordered comparisons | vector and scalar selects | NaN; 16 mask bits for a scalar |
| Fixups and relocations (`NyuziMCCodeEmitter`, `NyuziAsmBackend`, `NyuziELFObjectWriter`, lld) | instruction word, fixup, relocation | emit, `applyFixup`, `getRelocType`, `relocateOne` | assembler, object file and linker each hold a copy of the field layouts | range limits in words and bytes, split fields, sign |
| spmd-compile (`SPMDBuilder.cpp`, `AstNode.cpp`) | `MaskStack`, `ActiveLanes`, `return_mask`, `return_value`, locals | `pushMask`, `popMask`, `invertLastPushedMask`, `shortCircuitZeroMask`, `createReturn`, `generate` of each node | the AST walk drives the builder; compile-time objects denote run-time values | lanes diverge, return at different times, and meet again |
| Calling convention (`NyuziCallingConv.td`, `LowerCall`, `LowerFormalArguments`, `LowerReturn`, `LowerVASTART`) | `CCState` (registers and stack bytes handed out) on each side, argument registers, outgoing area, va_list | assign registers and stack slots, copy by-value objects, pass, load parameters, va_arg, return | caller and callee compute the same locations separately | alignment between scalars and vectors; variable arguments behind aligned ones; running indices; the struct return register |
| Vector lowering (`LowerVECTOR_SHUFFLE`, `LowerBUILD_VECTOR`, `LowerINSERT_VECTOR_ELT`, `LowerEXTRACT_VECTOR_ELT`, `LowerSCALAR_TO_VECTOR`, extensions, conversions, `LowerFDIV`) | the shuffle analysis (`Mask`, `IsSplat`, `IsIdentityShuffle`, `SplatIndex`), mask registers | rewriting of DAG nodes to instructions | comparisons make masks, selects use them | masks as packed bits with garbage above; two-source shuffles; short forms tried in order |
| Assembly parser, printer, disassembler (`NyuziAsmParser.cpp`, `NyuziDisassembler.cpp`) | parsed operands | range checks, `li`, text to and from `MCInst` | code emitter | widths known in several places; round trip of split fields |
| elf2hex, clang and lldb targets | none | copying, tables | – | – |

Correctness, per component: an atomic operation takes effect once, in one step,
and some operation always completes; a function hands back the registers and the
stack it was given and nobody writes into its frame; a block's successors survive
analysis and rebuilding; a condition holds where IEEE 754 says it does; a linked
instruction refers to its symbol or the tools report an error; a number in the text is
refused or reaches the processor unchanged; every lane computes what its scalar program
computes; a callee finds each argument, and the caller each result, where the other side
put it; each defined lane of a shuffle or of a mask operation has the value the IR gives it.

## Modules

| Module | Models | State and actions |
|---|---|---|
| `NyuziWord` | words as sets of bits, the ALU operations used by the expansions | operators only; `ADDI` and `SUBI` wrap at `WordBits` bits |
| `AtomicMemory` | abstract specification: an operation takes effect in one step | `Invoke`, `Perform`, `Respond`, `Write` |
| `NyuziAtomics` | the emitted loops, run by `Threads` over `Addrs` | one action per instruction of the loop blocks (`LoadSync`, `Compute`, `CompareOld`, `StoreSync`, `BranchZero`, `Exit`), `Begin` for the fall-through into the loop, and the environment: `PlainStore`, `Evict` |
| `NyuziAtomics_proofs` | proofs | |
| `SPMDMask` | the emitted code of an *arbitrary* structured function, statement by statement, beside the scalar reference | `Assign`, `IfTop`, `ElseTop`, `EndIf`, `LoopTop`, `LoopBack`, `LoopEnd`, `Return`, built from the builder's operations under their own names |
| `SPMDFunction` | `SPMDMask` driven by a given function: the same loop body in every iteration | `Do...`: an instruction of the function and the matching action of `SPMDMask` |
| `SPMDFunction_proofs` | proofs about both | |
| `NyuziBranch` | `analyzeBranch` one loop turn at a time, then `removeBranch`, `insertBranch` | `MBB`, `TBB`, `FBB`, `Cond`; one action per case of the walk |
| `NyuziBranch_proofs` | proofs | |
| `NyuziFrameLayout` | everything the compiler computes about a frame, for given register sizes and immediate widths | operators under their C++ names |
| `NyuziFrame` | functions with those frames calling one another on one stack | prologue, saves, FP, body (locals, registers, alloca, calls), epilogue, restores, return |
| `NyuziFrame_proofs` | proofs | |
| `NyuziFrameIndex` | the frame of one function at the hardware's widths, visited by prologue insertion and the scavenger | `Adjust`, `Eliminate`, `AdjustCallFrame`, `Scavenge` |
| `NyuziFrameIndex_proofs` | lemmas about the layout and about offsets in instructions, and proofs | |
| `NyuziCompare` | the code of a floating point comparison and select | compare, xor, branch, phi |
| `NyuziVectorUnit` | the vector instructions that the lowerings emit | operators only |
| `NyuziShuffle` | `LowerVECTOR_SHUFFLE`, one lane of its loop at a time, and the sequence it then emits, run on the operands | `Extend`, `AnalyzeLane`, `FinishAnalysis`, one `Emit...` per sequence, `Truncate` |
| `NyuziMask` | every lowering of a v16i1 node as bit manipulation of one register, in any sequence, beside its lanes | one action per node: `BuildConstant`, `BuildVariable`, `InsertElement`, `ExtractElement`, `ScalarToVector`, `BitOperation`, `StoreAndLoad`, extensions, conversions, `TruncateVector` |
| `NyuziLowering` | `LowerOperation`: composes `NyuziCompare`, `NyuziShuffle` and `NyuziMask` | a node of any of the three |
| `NyuziLowering_proofs` | proofs about all three | |
| `NyuziCallingConv` | one call from both sides | `AnalyzeOperand`, `CopyByVal`, `StartCall`, `PassArgument`, `EmitCall` in the caller; `AnalyzeFormal`, `LoadParam`, `EnterBody`, `VAArg`, `ReturnValue`, `EmitReturn` in the callee; `ResultValue`, `EndCall` |
| `NyuziCallingConv_proofs` | proofs | |
| `NyuziBits` | instruction words as sets of bits: fields, sign extension, `isInt`, `isUInt` | operators only |
| `NyuziFixups` | a fixup from emitter to finished program | `Resolve`, `Relocate`, `Link` |
| `NyuziAsmOperand` | a number from the text through parser, `li` expansion and emitter to the disassembler | `ParseImmediate`, `ParseMemoryOperand`, `ParseOperand`, `ProcessInstruction`, `encodeInstruction`, `getInstruction` |
| `NyuziAssembly` | composes the two: an operand is a symbol or a number | |
| `NyuziAssembly_proofs` | proofs about both | |
| `MC...` | instances for TLC | |

`NyuziFrame` and `NyuziFrameIndex` both extend `NyuziFrameLayout`: the first runs
the instructions at reduced widths, where interactions are the point, the second
checks the arithmetic at the real ones. `SPMDFunction` extends `SPMDMask`.
`NyuziLowering` and `NyuziAssembly` compose independent handlers of one
dispatcher: what one of them emits does not depend on another's state, so that one node,
or operand, at a time is enough. `NyuziFrame` gives a callee's frame the place that
`NyuziCallingConv` relies on (SP aligned, the outgoing area at its bottom).
`NyuziAtomics` implements `AtomicMemory` under a refinement mapping: `request` is
the operation in progress and `result` is Dest from the moment the operation has
taken effect (`TookEffect`: the store_sync wrote, or the compare failed).

Operators named as mutants beside a definition (`popMaskTwice`,
`StoreSyncClobbersNewVal`, ...) are plausible mistakes in the code it models. No
specification uses them; `PROJECT.json` lists which property each one breaks.

### Some modelling decisions

* **store_sync.** `Constraints = "$result = $srcDest"` ties the success flag to
  the register that is stored. For a binary operation NewValue is dead afterwards
  and the flag overwrites it; for compare-and-swap the register allocator has
  copied NewVal, which is live around the loop. Without that copy the retry would
  store 0, which is what the mutant `StoreSyncClobbersNewVal` does.
* **Masks.** `MaskStack` exists at compile time and holds SSA values; the model
  holds the values they have at run time. The one SSA value used by code that
  runs again later is the `ActiveLanes` a loop's top was emitted with, variable
  `Outer`. `LoopBack` uses it again, as the emitted code does.
* **Frames.** An activation records what its caller left in the registers and
  what it wrote to its own objects; memory below SP is cleared whenever SP rises,
  so that a read of dead memory, or a save below SP, shows.
* **`getWorstCaseStackSize`** adds the sizes of the callee saved registers in
  *bits* (`getRegSizeInBits`), as the code does; the estimate errs on the large side.
* **Fixups.** Words are sets of bit positions and addresses are signed numbers, so
  that 32 bit addresses in the upper half stay within TLC's integers. `Bits` is exact for every
  integer; it divides by 2^i in three steps because TLC has no 2^31. Instructions and the sections they are in
  lie at multiples of 4, and so do the targets of branches. A relocation against a symbol of the
  file names the section and has the symbol's offset as addend, except for GOT entries, which need the
  symbol itself (`needsRelocateWithSymbol`). Operands that are numbers (the `isImm` cases of the emitter)
  are those of `NyuziAsmOperand`, except for branches; a GOT entry of an absolute constant is left out.
* **Formats.** `FormatI`, `FormatM` and `Format` say which format an instruction with a given class of
  operand has, and `FormatIField`, `FormatMField`, `MOVEHIField` and `LEA_MEMField` where that format puts the
  operand. `encodeMemoryOpValue` is about base and offset; that it looks for them one operand
  further in a STORE_SYNC is a matter of the `MCInst`'s operand list, which the model does not number.
* **Comparisons.** spmd-compile turns each comparison into its unordered form (`createCompare`);
  the values of `SPMDMask` are not NaN, so that a condition is the set of values that meet it (`Holds`).
  `NyuziCompare` begins behind the part of `LowerSETCC` that widens two masks before comparing them.
* **Realignment.** `needsStackRealignment` enters where prologue insertion decides whether the scavenger's slot is
  placed first. The attributes that force or forbid realignment are left out.
* **Calls.** Values are named by what they are (argument *n*, the copy of by-value
  argument *n*, result *n*), so that a value in the wrong place shows. The callee knows
  its named parameters only. A store kills every slot it overlaps, and a load sees
  only a slot of exactly its address and size: anything else is garbage.
  Types are those after promotion; f32 is handled as i32. A call whose results do not fit the
  return registers is not lowered at all (the code asserts) and is left out.
  `va_arg` is expanded by upstream code with the alignment and the allocation size that the data
  layout gives a type (`getABITypeAlignment`, `getTypeAllocSize`), while `CC_Nyuzi32` has its own
  (`Size`); the two differ for a mask, which has 16 bytes in the one and 2 in the other.
* **Undefined lanes.** A lane of an IR value may be `Undef`; then the emitted code may
  put anything there, and the properties only speak of defined lanes.
* **Words of instructions** hold the operands' fields. The opcode bits are not in
  `NyuziAsmOperand`: they select the format, and TableGen keeps their tables on both sides.
  `ProcessInstruction` is modelled for `li`; `lea` of a symbol expands to a movehi
  and an or whose operands are the fixups HI19 and IMM_LO13 of `NyuziFixups`.
* **`analyzeBranch`** erases what follows an unconditional branch when
  `AllowModify` is set. Its comment speaks of "unconditional branches and returns";
  a return makes it give up before, and the model follows the code.

## Runs

| Run | Question | States |
|---|---|---|
| `Atomics` | Are the eight operations atomic, and is no update lost, with two threads, plain stores and evictions anywhere? (`TypeOK`, `ReservedStoreIsCurrent`, `NoLostUpdate`, `ImplementsAtomicMemory`) | 309 000 |
| `AtomicsLive` | Can retry loops livelock one another? (`LockFree`) | 27 000 |
| `SPMDFunction` | Do the functions of the tool's own tests (gcd, return, nested if, for loop), and two more with returns in nested ifs and before a loop, keep the masks right, compute the scalar results in all lanes and end? (`TypeOK`, `UnreturnedLanesMatch`, `ReturnedLanesInactive`, `ResultsMatchScalar`, `Terminates`) | 25 000 |
| `SPMDLoopReturnBug` | The same with a return inside a loop: violated, see Findings | |
| `NyuziBranch` | All blocks of up to four instructions, two targets, two registers: is the description exact, does the round trip keep the successors, does the code's own assertion hold, do the loops end? | 265 000 |
| `NyuziFrame` | Seven kinds of functions calling one another: SP within the stack (`TypeOK`), registers restored, frames intact, blocks aligned, nothing live below SP? | 41 000 |
| `FrameIndex` | 456 functions at the real sizes: every offset exact, a slot for the scavenger when it needs one, and within reach? | 6 300 |
| `FrameIndexFPSlot` | The same for large frames with a frame pointer: violated, see Findings | |
| `Lowering` | Does the emitted code compute, in every defined lane, what the node means: 20 conditions on numbers and NaN in vectors and scalars (`ComparisonCorrect`, `SelectCorrect`), all shuffles of two vectors or masks (`ShuffleCorrect`, `MaskShuffleCorrect`), and any sequence of mask operations (`MaskLanesMatch`, `ResultsMatch`)? | 104 000 |
| `CompareOrderedBug` | SETO and SETUO of two arbitrary values: violated, see Findings | |
| `Assembly` | Six kinds of fixups, resolved by assembler or linker, around the reach of both branches (`SymbolReached`, `OtherBitsKept`, `NoFalseError`); numbers around the limit of every immediate: does an accepted one reach the processor, is a refused one really too large, does the disassembler show what was written (`LiteralReached`, `RefusedOutOfRange`, `RoundTrip`)? | 76 000 |
| `CallingConv` | Signatures of up to four arguments, or three results, with scalars, vectors, masks, by-value, variable and struct return: does each value arrive (`ArgumentsArrive`, `VarArgsArrive`, `ResultsArrive`), and stay within an aligned outgoing area (`OutgoingArea`)? A mask among the variable arguments, and what follows it, are excepted: see Findings. | 75 000 |

### Bounds, and why they are enough

* `Atomics`: a conflict needs two threads and one word; plain stores and evictions
  stand for any number of further ones. Words of two bits with two operands
  distinguish all eight operations and leave room for ABA. The proofs cover every
  number of threads, addresses and bits.
* `SPMDFunction`: three lanes are one that stays, one that leaves and one that has
  returned; arguments up to 3 make gcd diverge in the number of its iterations. The proofs
  cover every function, any number of lanes and any nesting. Arithmetic saturates at `Top`, for machine and reference
  alike.
* `NyuziBranch`: the walk distinguishes at most a conditional branch above a branch
  above dead ones, with a debug value anywhere: four instructions. The proofs cover blocks of any length.
* `NyuziFrame`: a scalar is 1 unit and a vector 2, and immediates have 4 bits, so
  that offsets reach the long form in frames of a few objects; words have 7 bits, so that there are addresses
  above the stack for an SP that is raised too far. Nesting 3 gives a
  caller whose callee calls again; two allocas distinguish the first from the last.
  The proofs cover every set of functions, any depth and number of allocas that the stack has room for, and every width.
* `FrameIndex`: the real sizes (4, 64, 14 bit immediates), except that movehi has
  17 bits instead of 19, since TLC computes with 32 bit integers; the layout of the split
  does not depend on that width. Array sizes are chosen on both sides of the point
  where the estimate, and of the point where the offset, passes 8191. The proofs cover every
  width and every function that meets the hypotheses stated with them, which TLC evaluates for
  the 456 (`InReachAssumption`).
* `Lowering`: three lanes let a shuffle mix both operands in every order, be a splat of either or
  an identity, with undefined indices between; operands may be any vector, an
  insertion at any lane or a scalar, and may be the same node. Registers have a bit above
  the lanes. The proofs cover every number of lanes and every width of the register.
* `CallingConv`: two scalar and one vector argument registers, so that four arguments reach
  the stack in both banks, with a mask (2 bytes) or a scalar before a vector (64 bytes). The
  proofs cover any number of registers and arguments.
* `Assembly`: numbers at, one below and one above the limits of 9, 10, 14, 15 and 19 bits,
  signed and unsigned, with bits above 32 and with and without low 13 bits for `li`;
  distances one word below, at and above the reach of both branches in
  both directions, and addresses with bits in all parts of the split fields. The proofs cover
  all numbers, offsets, addresses and registers.

Deadlock checking is off where a run really ends: a compiled function returns, an
analysis finishes, an instruction is linked.

### Fairness

`AtomicsLive` assumes weak fairness of each thread's instructions inside an
expansion: the hardware schedules its threads in turn, and no instruction of an
expansion waits for anything. Nothing is assumed
about starting operations, and evictions are excluded in this run, since an
eviction at every turn would defeat any load_sync/store_sync loop. A single
thread may starve, and the property does not deny it. `NyuziBranch` and
`SPMDFunction` assume that a C++ function, respectively straight-line machine code,
keeps running.

## Findings

1. **Return inside a loop** (`SPMDBuilder.cpp:130`, run `SPMDLoopReturnBug`).
   `pushMask` at a loop's top combines the condition with the `ActiveLanes` of before
   the loop, in every iteration. A lane that returned in an earlier iteration is
   active again as soon as the condition holds for it, and a later return overwrites
   its result. The comment on `ReturnMask` (`SPMDBuilder.cpp:37`) promises that its
   bit tells returned lanes apart; the loop does not consult it. Lanes that have not
   returned are not affected, which is proved (`UnreturnedTheorem`).
2. **SETO and SETUO look at one operand** (`NyuziISelLowering.cpp:1236`, run
   `CompareOrderedBug`). The comparison is of operand 0 with itself, while the comment
   (line 1200) says that two values are ordered if *neither* is NaN.
3. **The scavenger's slot with a frame pointer** (`NyuziFrameLowering.cpp:84`, run
   `FrameIndexFPSlot`). FP is set to SP after the prologue has lowered SP, but
   `isFPCloseToIncomingSP` keeps its default `true`; the slot is put at the far end of
   the frame, where its own access needs a register, and scavenging stops with
   "Incomplete scavenging after 2nd pass".

Noticed, and not the subject of a run:

* `NyuziFrameLowering.h:22` leaves `StackRealignable` at its default `true`, so that
  `CreateStackObject` does not cut an alignment above 64 to that of the stack, and the layout
  rounds the frame to it; but `emitPrologue` never realigns SP, which is a multiple of 64 only. In
  a function that is called at such an SP a local with a larger alignment is misaligned, where
  `docs/LangRef.rst:7534` guarantees the alignment of an alloca. `BlocksAlignedTheorem`
  therefore has the hypothesis `StackAlignSuffices`, and the functions of `NyuziFrame` meet it.
* `getWorstCaseStackSize` counts incoming stack arguments as nothing, while
  `eliminateFrameIndex` adds the frame's size to their offsets. A function with a
  4480 byte array and 4096 bytes of stack arguments needs offset 8636 and has no
  slot. `FrameIndex` has up to 256 bytes of arguments, where the generous estimate
  covers them. How much it covers is the hypothesis `ReserveHoldsParams` of
  `ScavengerHasSlotTheorem`.
* Nor does it count the arguments of calls in a function with variable sized objects, around
  which SP is adjusted: more than 8191 bytes of them take a register that nothing has
  provided for (the last conjunct of `WorstCaseCounts`).
* `loadConstant` accepts 24 bit constants and `eliminateFrameIndex` 25 bit offsets, and both report an error
  beyond. The model leaves the two errors out: frames of such sizes are in no run.
* The comment in `loadConstant` says 12 bits where the code takes 13.
* A variadic `<16 x i1>`. `expandVAArg` (`SelectionDAG.cpp:1862-1882`) aligns the va_list to the ABI alignment
  (`SelectionDAGBuilder.cpp:7718`) and steps it by the allocation size of the type; with the data layout
  `e-m:e-p:32:32` both are 16 for a mask (`DataLayout.cpp:533-539`), whereas `CC_Nyuzi32` gives it a slot of 2
  bytes. The mask is then read from another address than it was stored at, and so, in general, are the arguments
  after it, where `docs/LangRef.rst:9257` says that va_arg loads an argument of the type "and causes the `va_list`
  to point to the next argument". `VarArgsArrive` and `VarArgs_Correct` therefore speak of the arguments up to the first
  whose slot the two size differently (`SameSlots`).
* va_arg of a narrow vector that type legalization promotes (`<16 x i8>`, `<16 x i16>`) takes the
  alignment of the type before promotion (`LegalizeIntegerTypes.cpp:857`), while the
  caller passes a 64 byte vector on a 64 byte boundary.
* `LowerFP_TO_XINT` (`NyuziISelLowering.cpp:1503`) compares with 0, so that 0.5 becomes 1, where
  `fptoui` rounds toward zero (`docs/LangRef.rst`). `NyuziMask` has the values -1, 0 and 1 only.
* `LowerVECTOR_SHUFFLE` casts the index of an insertelement to a constant
  (`NyuziISelLowering.cpp:1006`), which asserts for a variable index.
* The branch of `LowerFormalArguments` for a "smaller Type (char)" (lines 401-410) cannot be
  reached: narrow types are promoted before.
* `ParseImmediate` ignores the result of `evaluateAsAbsolute` (`NyuziAsmParser.cpp:404`): for a symbolic
  expression the range is checked on an uninitialized number, and the emitter then encodes 0
  without a fixup.
* `decodeMemoryOpValue` takes the 10 bit offset of a masked access for one of 15 bits, as its XXX comment
  says, so that a negative one is shown as positive; `RoundTrip` exempts exactly this case.
* `li` accepts numbers of more than 32 bits and drops the upper ones.
* A branch to a literal is encoded in words and shown in bytes.

## Theorems

All proofs are checked by TLAPS to the last leaf.

**`NyuziAtomics_proofs`**, for every set of threads and addresses, every word width
and every set of operands. The inductive invariant is

    IInv == TypeOK /\ ExpansionShape /\ ReservedStoreIsCurrent

`ReservedStoreIsCurrent` says that a thread which still holds its reservation has the
word's current value in Dest, and that NewValue is the operation's effect on Dest.
`ExpansionShape` relates the instruction a thread is at with its operation (a
compare-and-swap is never at the ALU instruction, its register still holds NewVal, a
thread that is past the compare has matched). It is needed because the reservation
says nothing about which register is about to be stored. From it follow `TypeCorrect`,
`ReservationTheorem`, `NoLostUpdateTheorem`, and `Refinement`: each step is a step of
`AtomicMemory` or a stutter; a store_sync that writes is `Perform`, and so is a load_sync
of a compare-and-swap that finds another word than the expected one.

**`SPMDFunction_proofs`**, for every set of lanes, values, expressions and conditions and
every nesting depth. The invariant says, level by level, which scalar instances execute
an enclosing block: of the lanes that have not returned, `ActiveLanes` are those that
execute the current block (`CurrentMatch`), the combined mask of each entry those that
execute that block (`StackMatch`), masks are nested (`Nested`), the complement of an if's mask
within the outer one is who takes the else (`ElseMatch`), a loop's `Outer` mask
is that of its surroundings, and whoever has left a loop no longer satisfies its
condition (`LoopMatch`). `UnreturnedTheorem` holds with returns in loops too.
`InactiveTheorem` and `ResultsTheorem` add that returned lanes are off, for functions without
returns in loops, and give `ResultsMatchScalar`: exactly the hypothesis that finding 1 shows to be needed.

In the same module `FunctionsImplement` shows that a function driven instruction by
instruction takes only steps of `SPMDMask` (`FSpec => Spec`), and `FunctionsCorrect` carries the results
over to every function without a return in a loop.

**`NyuziCallingConv_proofs`**, for every number of argument and return registers and every
signature. The invariant follows the two walks through `CC_Nyuzi32`: the caller's states
(`OutWalk`) and the callee's (`InWalk`) are the same sequence as far as the callee's goes,
so that `OutLoc` and `InLoc` agree; what has been passed is still in its register or slot
because locations of different arguments do not overlap (`PassedInv`, from the strictly growing
`CCState`); there is one copy per by-value argument, in their order (`ByValInv`);
the va_list is at the offset of the caller's state for the next argument (`BodyInv`, with lemma
`AlignUp`: aligning an address is aligning the offset, as SP is a multiple of 64), as long as the
arguments read so far are of types whose slots the data layout and `CC_Nyuzi32` size alike (`SameSlots`: all but
masks); the
result walks agree likewise (`RetWalk`, `ResultInv`). It yields `Arguments_Correct`,
`VarArgs_Correct`, `OutgoingArea_Correct`, `Results_Correct`.

**`NyuziLowering_proofs`**, for every number of lanes, every width of the scalar registers, all
operands and index vectors. The theorems are about `LowerSpec`, the composition: each of its
three handlers has its invariant, and leaves the other two alone.

* Comparison, as long as SETO and SETUO test a value against itself or a number (finding 2 shows
  that this is needed). `CompareInv` says what the mask register holds at each point: the negation of
  the condition before the xor, the condition from then on, all bits alike for a scalar
  (`AllBitsAlike`, needed because the branch tests the whole register).
* Shuffle. `ShuffleInv` says what the analysis knows of the lanes seen so far: the bit of a lane,
  counted from where it will be when the loop ends, tells its operand (`MixInv`); the splat and
  identity flags are exact up to here (`FlagInv`). For each of the seven sequences its guards give the
  selected element in every defined lane (`ShuffleTheorem`); with extension and truncation around it
  the bits of a mask move likewise (`MaskShuffleTheorem`).
* Masks. `MaskInv` is `MaskLanesMatch` and `ResultsMatch` themselves with their types: they are
  inductive, and each action has a lemma about the bits it moves. Two of them, BUILD_VECTOR of constants
  and of variables, are loops over the lanes, modelled as recursive functions; `ConstantLanes`
  and `InsertedLanes` show which set of bits each loop computes.

**`NyuziBranch_proofs`**, for blocks of any length and any sets of targets and registers. The
invariant (`WalkInvariant`) follows the walk upwards: the description is that of the instructions below
`I`, where there are only branches and debug values (`WalkInv`), and what is left of the block is a
prefix of it, cut behind an unconditional branch (`Kept`). `Goes` states where a suffix of a block goes
without recursion. While branches are removed the block is split into a part without
terminators and a part of branches and debug values (`SplitAt`), which is what makes
`removeBranch` remove all of the latter. It yields `AnalysisTheorem`, `SuccessorsTheorem` and
`AssertionTheorem` (the assertion in the code itself).

**`NyuziFrame_proofs`**, for every set of functions, depth of calls and number of dynamic
allocations that the stack has room for, and every width. The invariant says of *every* active function, not
only of the innermost, where it is (`PositionOK`), which registers it sees now or will see when
the function it called returns (`RegistersOK` of `Seen`), and what the memory at its
arguments, spill slots, locals and allocas holds (`MemoryOK`), with frames below one another within
the stack (`StackInv`). All of that has to be said of suspended functions because a return makes
the registers and the memory of the caller matter again: `CalleeSavedRestored` of a function
rests on its spill slots surviving every call it made. One lemma (`Suspended`) carries the
suspended functions through a step that only writes below them; one lemma per action does the rest. It yields
`TypeTheorem`, `CalleeSavedTheorem`, `FrameIntactTheorem`, `NothingBelowSPTheorem` and, for locals that
need no more than the stack's alignment, `BlocksAlignedTheorem`.

**`NyuziFrameIndex_proofs`**, for every width and function. It begins with what both frame modules need: the split
of an offset into high and low part adds up modulo the word, for either sign (`Parts`,
`FrameAddressExact`, `AdjustExact`); objects lie below one another, aligned, above the outgoing
arguments (`StackOffsetsFacts`, `ObjectsFacts`, `FrameFacts`); exactly the registers to be saved are in the list,
each once (`CalleeSavedFacts`). `OffsetsExactTheorem`: every encoded offset is exact. `ScavengerHasSlotTheorem`: the estimate that `determineCalleeSaves` takes before the frame
exists bounds the frame that is laid out later (`WorstCase`: the one rounds objects to other alignments and in
another order than the other, so that each layout is bounded by a sum with padding, `LayoutReserve`), hence every
offset in it. Its hypothesis `WorstCaseCounts` says that alignments nest, that incoming arguments fit the reserve
from sizes in bits, and that pushed arguments are within an immediate. `ScavengingCompletesTheorem`:
the slot is the lowest object, or the first below the spill slots; the hypothesis `SlotInReach`
excludes finding 3.

**`NyuziAssembly_proofs`**, for all offsets, section and symbol addresses, GOT offsets, numbers of 64 bits and
registers. The theorems are about `AssemblySpec`, the composition (`AssemblyInvariant`).

* Numbers. Bit *i* of an integer is the parity of `v \div 2^i` (`BitIs`); the sum over the bits of
  a field, a recursive function in the model, is `v % 2^n`, and with a sign `v` itself when it fits
  (`FieldIs`, `SignedFieldIs`). Powers of two are evaluated up to 2^32 (`Powers`).
* Fixups. `Holds` says which bits a field has when a value is in it. The assembler's copy of the field layout and
  the linker's leave the same bits there and all others alone (`Applied`, `Relocated`), and
  the instruction reads the value back (`ReadsWhatItHolds`). The assembler may only *or* the value in because the
  field is still 0, which is why the invariant `FixupInv` says who fills it in and when: nothing is in it
  before (`Untouched`), the addend is what the linker needs if it is left to it (`LeftToLinker`), and
  afterwards the symbol is reached or out of reach (`FilledIn`). With `OtherBitsKept` it gives
  `EverySymbolReached`, `OtherOperandsKept` and `OnlyUnreachableRefused`.
* Operands. For each of the six formats: which bits of the word the emitter sets (`EncodingIs`), what processor and
  disassembler take out of it (`TakenOut`, `ValueIs`), that both are the number if it fits (`ComesBack`) and that
  it is another one if not (`SignLost`); and the parts that `li` cuts a number into are together its 32 low
  bits (`Parts`, `InstsAre`). `OperandInv` says that instructions, words and decoded instructions are functions of the
  text, as far as they have been made. It yields `EveryLiteralReached`, `OnlyLostLiteralsRefused`
  and `DisassemblyGivesBack`.

Claims about recursive functions and about sequences of any length need induction over data. It is
done here with sets instead of the library's induction rules: a property is the set of numbers that
have it, a counterexample the least number outside (`NatMin`, from the well-foundedness of `<` on the naturals;
`Induct`), and a recursive function satisfies its equation because a solution is given explicitly or constructed
(`Recursion`).

Assumptions on constants are the named `ASSUME`s of the modules; TLC evaluates them
in the runs of those modules. They say that operands are words, conditions are sets of values, and that the
markers (`NoAddr`, `NoValue`, `NaN`, `Undef`) are not values. For frames also: the callee saved
registers are a list without repetition; a function that calls saves RA, and its argument areas have whole registers
(`FunctionsAssumption`); the stack has room for the functions that are active (`RoomAssumption`: nothing in
the compiled code looks for its end); and `2^(a + b) = 2^a * 2^b` for the two widths
(`PowersAssumption`), which the provers do not know of exponentiation. For fixups: sections lie at multiples of 4
(`SectionsAssumption`), and the other operands are bits of the word (`OtherBitsAssumption`).

**Only model-checked**: liveness (`LockFree`, both `Terminates`), which the prover
does not handle. Every other property of the passing runs is stated by a theorem, under the hypotheses named above.

## Not modelled

* Upstream LLVM, clang, lld and lldb beyond the functions named above.
* Of the vector lowering: `LowerFNEG`, `LowerFABS`, CTLZ and CTTZ (one or two instructions on
  each lane), and BUILD_VECTOR of 32 bit elements (a splat or a load from the constant pool).
* Of the assembler: mnemonics, register names and directives, which are tables, and the printer.
* Integer comparisons, arithmetic and memory operations that TableGen patterns select
  one to one: there is no decision in them.
* Debug information (CFI directives), inline assembly constraints, scheduling tables,
  elf2hex (a sequential copy), clang's and lldb's tables.
* The parser and scanner of spmd-compile, and its handling of missing bodies and undeclared names.
* `LowerFDIV`: its Newton iterations are statements about rounding errors.

## Plan

Done, in this order: atomics (the only concurrent part), masks (the only part with a
non-trivial global invariant), frames (the part with most interacting functions), then
branches, comparison and fixups; then the calling convention and the vector lowering with
their theorems, functions as an implementation of the mask machine, and the assembler's numbers; then the theorems about
branches, frames, frame indices and masks, and last those about fixups and operands.

Next: composition of `NyuziCallingConv` with `NyuziFrame`, so that register and stack
arguments are passed through real frames.
