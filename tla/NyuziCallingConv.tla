-------------------------- MODULE NyuziCallingConv --------------------------
(***************************************************************************)
(* One call: LowerCall in the caller, LowerFormalArguments, va_start,      *)
(* va_arg and LowerReturn in the callee.  Caller and callee are compiled   *)
(* apart: each walks the types it knows through CC_Nyuzi32 (the caller all *)
(* of them, the callee its named parameters only) and each va_arg computes *)
(* its address from the one before it.                                     *)
(***************************************************************************)
EXTENDS Integers, Sequences

CONSTANTS
  ArgSRegs, ArgVRegs, \* S0-S7 and V0-V7: 8 and 8 in NyuziCallingConv.td
  RetSRegs, RetVRegs, \* S0-S5 and V0-V5: 6 and 6
  StackBase,          \* SP before the call
  Calls               \* signatures: see CallType

Types == {"i32", "v16i32", "v16i1"} \* f32 is handled as i32, v16f32 as v16i32
Bank(t) == IF t = "v16i32" THEN "V" ELSE "S"
Size(t) == IF t = "i32" THEN 4 ELSE IF t = "v16i32" THEN 64 ELSE 2
StackAlignment == 64

alignTo(x, a) == ((x + a - 1) \div a) * a

(* The data layout (e-m:e-p:32:32) has alignments of its own: a vector has *)
(* that of its elements times their number, and an i1 takes a byte, so     *)
(* that a mask is aligned to 16 and takes 16 bytes.                        *)
getABITypeAlignment(t) == IF t = "i32" THEN 4 ELSE IF t = "v16i32" THEN 64 ELSE 16
getTypeAllocSize(t) == alignTo(Size(t), getABITypeAlignment(t))

(* A byval argument is an i32, the address of the object. *)
Args == {a \in [type : Types, byval : BOOLEAN] : a.byval => a.type = "i32"}
CallType ==
  [args : Seq(Args),
   named : Nat,        \* how many of them are parameters of the callee
   isVarArg : BOOLEAN,
   sret : BOOLEAN,     \* the first is the address of the returned structure
   rets : Seq(Types)]  \* the results

ASSUME RegsAssumption ==
  /\ ArgSRegs \in Nat /\ ArgVRegs \in Nat
  /\ RetSRegs \in 1..ArgSRegs /\ RetVRegs \in 0..ArgVRegs
ASSUME StackBaseAssumption == StackBase \in Int /\ StackBase % StackAlignment = 0
ASSUME CallsAssumption ==
  /\ Calls \subseteq CallType
  /\ \A c \in Calls :
       /\ c.named <= Len(c.args)
       /\ ~c.isVarArg => c.named = Len(c.args)
       /\ c.sret => c.named > 0 /\ c.rets = <<>>

Regs == ({"S"} \X (0..ArgSRegs - 1)) \cup ({"V"} \X (0..ArgVRegs - 1))

(* What a register, a stack slot or a variable holds: argument n, the      *)
(* address of the copy of byval argument n, result n.                      *)
Val(what, n) == <<what, n>>
Garbage == Val("garbage", 0)
Vals == {"arg", "copy", "ret", "garbage"} \X Nat

-----------------------------------------------------------------------------
(* CCState: the registers of each bank and the stack bytes handed out. *)
NoneUsed == [S |-> 0, V |-> 0, StackOffset |-> 0]
CCStates == [S : Nat, V : Nat, StackOffset : Nat]

Used(st, t) == IF Bank(t) = "S" THEN st.S ELSE st.V
ArgRegs(t) == IF Bank(t) = "S" THEN ArgSRegs ELSE ArgVRegs
RetRegs(t) == IF Bank(t) = "S" THEN RetSRegs ELSE RetVRegs

TakeReg(st, t) ==
  IF Bank(t) = "S" THEN [st EXCEPT !.S = @ + 1] ELSE [st EXCEPT !.V = @ + 1]

(* CC_Nyuzi32: a register if the function is not variadic and one is left, *)
(* else the stack, "aligned by size".                                      *)
InReg(st, t, isVarArg) == ~isVarArg /\ Used(st, t) < ArgRegs(t)

Location(st, t, isVarArg) ==
  IF InReg(st, t, isVarArg) THEN <<Bank(t), Used(st, t)>>
  ELSE <<"mem", alignTo(st.StackOffset, Size(t))>>

(* Mutant: the offset of the next argument is not aligned. *)
AssignUnaligned(st, t, isVarArg) ==
  IF InReg(st, t, isVarArg) THEN TakeReg(st, t)
  ELSE [st EXCEPT !.StackOffset = @ + Size(t)]

Assign(st, t, isVarArg) ==
  IF InReg(st, t, isVarArg) THEN TakeReg(st, t)
  ELSE [st EXCEPT !.StackOffset = alignTo(@, Size(t)) + Size(t)]

(* Memory is a set of slots; a store kills the slots that it overlaps. *)
Slots == [addr : Int, size : Nat, val : Vals]
Store(m, a, s, v) ==
  {w \in m : w.addr + w.size <= a \/ a + s <= w.addr}
    \cup {[addr |-> a, size |-> s, val |-> v]}
Load(m, a, s) ==
  IF \E w \in m : w.addr = a /\ w.size = s
  THEN (CHOOSE w \in m : w.addr = a /\ w.size = s).val
  ELSE Garbage

-----------------------------------------------------------------------------
VARIABLES
  call,
  pc,             \* "operands", "pass", "formals", "params", "body",
                  \* "return", "result" or "done"
  outCC,          \* LowerCall's CCState before each argument and after all
  ByValArgs,      \* the addresses of the copies, in order
  byvalArgIdx,
  passed,         \* arguments stored or put in RegsToPass so far
  sp,
  RegsToPass,
  regs, mem,
  inCC,           \* LowerFormalArguments' CCState, likewise
  InVals,         \* the parameters as the callee sees them
  ParamEndOffset,
  SRetReturnReg,
  vaList,         \* the va_list
  vaVals,         \* the variable arguments as the callee sees them
  retCC, resCC,   \* the CCState of LowerReturn and of the call's results
  results         \* the results as the caller sees them

callerVars == <<outCC, ByValArgs, byvalArgIdx, passed, RegsToPass>>
calleeVars == <<inCC, InVals, ParamEndOffset, SRetReturnReg, vaList, vaVals>>
returnVars == <<retCC, resCC, results>>
vars == <<call, pc, sp, regs, mem, callerVars, calleeVars, returnVars>>

At(cc) == cc[Len(cc)]
ArgType(k) == call.args[k].type
OutLoc(k) == Location(outCC[k], ArgType(k), call.isVarArg)
InLoc(k) == Location(inCC[k], ArgType(k), call.isVarArg)

NoRegs == [r \in Regs |-> Garbage]

Init ==
  /\ call \in Calls
  /\ pc = "operands"
  /\ outCC = <<NoneUsed>> /\ inCC = <<NoneUsed>>
  /\ retCC = <<NoneUsed>> /\ resCC = <<NoneUsed>>
  /\ ByValArgs = <<>> /\ byvalArgIdx = 0 /\ passed = 0
  /\ sp = StackBase
  /\ RegsToPass = NoRegs /\ regs = NoRegs /\ mem = {}
  /\ InVals = <<>> /\ ParamEndOffset = 0 /\ SRetReturnReg = Garbage
  /\ vaList = 0 /\ vaVals = <<>> /\ results = <<>>

-----------------------------------------------------------------------------
(* LowerCall: AnalyzeCallOperands, one argument at a time. *)
AnalyzeOperand ==
  /\ pc = "operands"
  /\ Len(outCC) <= Len(call.args)
  /\ outCC' = Append(outCC, Assign(At(outCC), ArgType(Len(outCC)), call.isVarArg))
  /\ UNCHANGED <<call, pc, sp, regs, mem, ByValArgs, byvalArgIdx, passed,
                 RegsToPass, calleeVars, returnVars>>

(* The copy of each byval argument, taken before CALLSEQ_START. *)
CopyByVal ==
  /\ pc = "operands"
  /\ Len(outCC) > Len(call.args)
  /\ passed < Len(call.args)
  /\ LET k == passed + 1
     IN  ByValArgs' = IF call.args[k].byval
                      THEN Append(ByValArgs, Val("copy", k)) ELSE ByValArgs
  /\ passed' = passed + 1
  /\ UNCHANGED <<call, pc, sp, regs, mem, outCC, byvalArgIdx, RegsToPass,
                 calleeVars, returnVars>>

(* Mutant: the argument area is not rounded up. *)
ArgsSizeUnaligned == At(outCC).StackOffset

(* "We always keep the stack pointer 64 byte aligned so we can use block   *)
(* loads/stores for vector arguments"                                      *)
ArgsSize == alignTo(At(outCC).StackOffset, StackAlignment)

(* CALLSEQ_START. *)
StartCall ==
  /\ pc = "operands"
  /\ Len(outCC) > Len(call.args)
  /\ passed = Len(call.args)
  /\ sp' = StackBase - ArgsSize
  /\ passed' = 0
  /\ pc' = "pass"
  /\ UNCHANGED <<call, regs, mem, outCC, ByValArgs, byvalArgIdx, RegsToPass,
                 calleeVars, returnVars>>

OutVal(k) ==
  IF call.args[k].byval THEN ByValArgs[byvalArgIdx + 1] ELSE Val("arg", k)

(* One argument of the loop: into RegsToPass, or stored off SP. *)
PassArgument ==
  /\ pc = "pass"
  /\ passed < Len(call.args)
  /\ LET k == passed + 1
         loc == OutLoc(k)
     IN  /\ IF loc[1] = "mem"
            THEN /\ mem' = Store(mem, sp + loc[2], Size(ArgType(k)), OutVal(k))
                 /\ UNCHANGED RegsToPass
            ELSE /\ RegsToPass' = [RegsToPass EXCEPT ![loc] = OutVal(k)]
                 /\ UNCHANGED mem
         /\ byvalArgIdx' = byvalArgIdx + (IF call.args[k].byval THEN 1 ELSE 0)
  /\ passed' = passed + 1
  /\ UNCHANGED <<call, pc, sp, regs, outCC, ByValArgs, calleeVars, returnVars>>

(* The copies to registers, after every store, and the call. *)
EmitCall ==
  /\ pc = "pass"
  /\ passed = Len(call.args)
  /\ regs' = RegsToPass
  /\ pc' = "formals"
  /\ UNCHANGED <<call, sp, mem, callerVars, calleeVars, returnVars>>

-----------------------------------------------------------------------------
(* LowerFormalArguments: AnalyzeFormalArguments of the named parameters. *)
AnalyzeFormal ==
  /\ pc = "formals"
  /\ Len(inCC) <= call.named
  /\ inCC' = Append(inCC, Assign(At(inCC), ArgType(Len(inCC)), call.isVarArg))
  /\ UNCHANGED <<call, pc, sp, regs, mem, callerVars, InVals, ParamEndOffset,
                 SRetReturnReg, vaList, vaVals, returnVars>>

FormalsAnalyzed ==
  /\ pc = "formals"
  /\ Len(inCC) > call.named
  /\ pc' = "params"
  /\ UNCHANGED <<call, sp, regs, mem, callerVars, calleeVars, returnVars>>

(* Mutant: the parameters are taken to grow down. *)
LoadParamDown ==
  /\ pc = "params"
  /\ Len(InVals) < call.named
  /\ LET k == Len(InVals) + 1
         loc == InLoc(k)
         ParamSize == Size(ArgType(k))
     IN  IF loc[1] = "mem"
         THEN /\ InVals' = Append(InVals, Load(mem, sp + loc[2], ParamSize))
              /\ ParamEndOffset' = loc[2] - ParamSize
         ELSE /\ InVals' = Append(InVals, regs[loc])
              /\ UNCHANGED ParamEndOffset
  /\ UNCHANGED <<call, pc, sp, regs, mem, callerVars, inCC, SRetReturnReg,
                 vaList, vaVals, returnVars>>

(* One parameter: a live-in register, or a load from its fixed object. *)
LoadParam ==
  /\ pc = "params"
  /\ Len(InVals) < call.named
  /\ LET k == Len(InVals) + 1
         loc == InLoc(k)
         ParamSize == Size(ArgType(k))
     IN  IF loc[1] = "mem"
         THEN /\ InVals' = Append(InVals, Load(mem, sp + loc[2], ParamSize))
              /\ ParamEndOffset' = loc[2] + ParamSize
         ELSE /\ InVals' = Append(InVals, regs[loc])
              /\ UNCHANGED ParamEndOffset
  /\ UNCHANGED <<call, pc, sp, regs, mem, callerVars, inCC, SRetReturnReg,
                 vaList, vaVals, returnVars>>

(* Mutant: a variadic callee starts at the last named parameter. *)
EnterBodyAtLastParam ==
  /\ pc = "params"
  /\ Len(InVals) = call.named
  /\ SRetReturnReg' = IF call.sret THEN InVals[1] ELSE Garbage
  /\ vaList' = IF call.isVarArg /\ call.named > 0 THEN sp + InLoc(call.named)[2]
               ELSE sp
  /\ regs' = NoRegs
  /\ pc' = "body"
  /\ UNCHANGED <<call, sp, mem, callerVars, inCC, InVals, ParamEndOffset, vaVals,
                 returnVars>>

(* The address of the returned structure goes to a virtual register, which *)
(* outlives the argument registers; LowerVASTART stores the address of the *)
(* fixed object at ParamEndOffset.                                         *)
EnterBody ==
  /\ pc = "params"
  /\ Len(InVals) = call.named
  /\ SRetReturnReg' = IF call.sret THEN InVals[1] ELSE Garbage
  /\ vaList' = IF call.isVarArg THEN sp + ParamEndOffset ELSE 0
  /\ regs' = NoRegs
  /\ pc' = "body"
  /\ UNCHANGED <<call, sp, mem, callerVars, inCC, InVals, ParamEndOffset, vaVals,
                 returnVars>>

(* expandVAArg: align the va_list for the type, load, and step over it. *)
VAArg ==
  /\ pc = "body"
  /\ call.isVarArg
  /\ call.named + Len(vaVals) < Len(call.args)
  /\ LET t == ArgType(call.named + Len(vaVals) + 1)
         VAList == alignTo(vaList, getABITypeAlignment(t))
     IN  /\ vaVals' = Append(vaVals, Load(mem, VAList, Size(t)))
         /\ vaList' = VAList + getTypeAllocSize(t)
  /\ UNCHANGED <<call, pc, sp, regs, mem, callerVars, inCC, InVals,
                 ParamEndOffset, SRetReturnReg, returnVars>>

StartReturn ==
  /\ pc = "body"
  /\ pc' = "return"
  /\ UNCHANGED <<call, sp, regs, mem, callerVars, calleeVars, returnVars>>

-----------------------------------------------------------------------------
(* RetCC_Nyuzi32: registers only. *)
RetLoc(st, t) == <<Bank(t), Used(st, t)>>

(* LowerReturn: one result. *)
ReturnValue ==
  /\ pc = "return"
  /\ Len(retCC) <= Len(call.rets)
  /\ LET k == Len(retCC)
         t == call.rets[k]
     IN  /\ Used(At(retCC), t) < RetRegs(t)
         /\ regs' = [regs EXCEPT ![RetLoc(At(retCC), t)] = Val("ret", k)]
         /\ retCC' = Append(retCC, TakeReg(At(retCC), t))
  /\ UNCHANGED <<call, pc, sp, mem, callerVars, calleeVars, resCC, results>>

(* Mutant: S0 is taken to hold the structure's address still. *)
EmitReturnNoCopy ==
  /\ pc = "return"
  /\ Len(retCC) > Len(call.rets)
  /\ sp' = sp + ArgsSize
  /\ pc' = "result"
  /\ UNCHANGED <<call, regs, mem, callerVars, calleeVars, returnVars>>

(* The last copy, of the structure's address to S0; RET; CALLSEQ_END. *)
EmitReturn ==
  /\ pc = "return"
  /\ Len(retCC) > Len(call.rets)
  /\ regs' = IF call.sret THEN [regs EXCEPT ![<<"S", 0>>] = SRetReturnReg]
             ELSE regs
  /\ sp' = sp + ArgsSize
  /\ pc' = "result"
  /\ UNCHANGED <<call, mem, callerVars, calleeVars, returnVars>>

(* LowerCall: AnalyzeCallResult and the copy out of the register. *)
ResultValue ==
  /\ pc = "result"
  /\ Len(resCC) <= Len(call.rets)
  /\ LET t == call.rets[Len(resCC)]
     IN  /\ results' = Append(results, regs[RetLoc(At(resCC), t)])
         /\ resCC' = Append(resCC, TakeReg(At(resCC), t))
  /\ UNCHANGED <<call, pc, sp, regs, mem, callerVars, calleeVars, retCC>>

EndCall ==
  /\ pc = "result"
  /\ Len(resCC) > Len(call.rets)
  /\ pc' = "done"
  /\ UNCHANGED <<call, sp, regs, mem, callerVars, calleeVars, returnVars>>

Next ==
  \/ AnalyzeOperand \/ CopyByVal \/ StartCall \/ PassArgument \/ EmitCall
  \/ AnalyzeFormal \/ FormalsAnalyzed \/ LoadParam \/ EnterBody \/ VAArg
  \/ StartReturn \/ ReturnValue \/ EmitReturn \/ ResultValue \/ EndCall

Spec == Init /\ [][Next]_vars

-----------------------------------------------------------------------------
(* The types of the variables. *)
TypeOK ==
  /\ call \in Calls
  /\ pc \in {"operands", "pass", "formals", "params", "body", "return", "result",
             "done"}
  /\ outCC \in Seq(CCStates) /\ inCC \in Seq(CCStates)
  /\ retCC \in Seq(CCStates) /\ resCC \in Seq(CCStates)
  /\ ByValArgs \in Seq(Vals) /\ byvalArgIdx \in Nat /\ passed \in Nat
  /\ sp \in Int
  /\ RegsToPass \in [Regs -> Vals] /\ regs \in [Regs -> Vals]
  /\ mem \subseteq Slots
  /\ InVals \in Seq(Vals) /\ ParamEndOffset \in Nat /\ SRetReturnReg \in Vals
  /\ vaList \in Int /\ vaVals \in Seq(Vals) /\ results \in Seq(Vals)

(* What argument k means to the callee. *)
Sent(k) == IF call.args[k].byval THEN Val("copy", k) ELSE Val("arg", k)

(* Each named parameter holds the argument that the caller passed for it   *)
(* (for a byval argument, the address of the copy of that very object),    *)
(* whether register or stack, although the two sides assign them apart.    *)
ArgumentsArrive == \A k \in 1..Len(InVals) : InVals[k] = Sent(k)

(* CC_Nyuzi32 and the data layout give a type the same slot: masks are the *)
(* exception, with 2 bytes in the one and 16 in the other.                 *)
SameSlot(t) == getABITypeAlignment(t) = Size(t) /\ getTypeAllocSize(t) = Size(t)

(* The first k variable arguments are of such types. *)
SameSlots(k) == \A j \in 1..k : SameSlot(ArgType(call.named + j))

(* Each va_arg yields the next unnamed argument, although the callee only  *)
(* knows where its own named parameters end: "Create a dummy object where  *)
(* the first parameter would start".  A mask, and what follows it, need    *)
(* not arrive: see SameSlot.                                               *)
VarArgsArrive ==
  \A k \in 1..Len(vaVals) : SameSlots(k) => vaVals[k] = Sent(call.named + k)

(* Nothing is stored below SP or into the caller's own frame, and SP is a  *)
(* multiple of 64 whenever a callee runs.                                  *)
OutgoingArea ==
  /\ \A w \in mem : StackBase - ArgsSize <= w.addr /\ w.addr + w.size <= StackBase
  /\ sp % StackAlignment = 0

(* The caller reads each result that the callee returned, a callee that    *)
(* returns a structure leaves its address in S0, and SP is back.           *)
ResultsArrive ==
  pc = "done" =>
    /\ results = [k \in 1..Len(call.rets) |-> Val("ret", k)]
    /\ call.sret => regs[<<"S", 0>>] = Sent(1)
    /\ sp = StackBase
=============================================================================
