----------------------- MODULE NyuziCallingConv_proofs -----------------------
(***************************************************************************)
(* Caller and callee agree on every argument and every result, for every   *)
(* signature and any number of argument registers.                         *)
(***************************************************************************)
EXTENDS NyuziCallingConv, TLAPS

NumArgs == Len(call.args)
NumRets == Len(call.rets)

Le(a, b) == a.S <= b.S /\ a.V <= b.V /\ a.StackOffset <= b.StackOffset

(* The caller's walk: each state follows from the one before, and no later *)
(* state gives out again what an earlier argument took.                    *)
OutWalk ==
  /\ Len(outCC) \in 1..NumArgs + 1
  /\ outCC[1] = NoneUsed
  /\ \A k \in 1..Len(outCC) - 1 :
       outCC[k + 1] = Assign(outCC[k], ArgType(k), call.isVarArg)
  /\ \A j, k \in 1..Len(outCC) :
       j < k => Le(Assign(outCC[j], ArgType(j), call.isVarArg), outCC[k])
  /\ pc # "operands" => Len(outCC) = NumArgs + 1

SPInv ==
  /\ pc \in {"operands", "result", "done"} => sp = StackBase
  /\ pc \in {"pass", "formals", "params", "body", "return"} =>
       sp = StackBase - ArgsSize

(* The copies: one for each byval argument, in the order of the arguments. *)
CopyOf(m) == ByValArgs[m][2]
ByValInv ==
  /\ passed \in 0..NumArgs
  /\ pc = "operands" /\ passed > 0 => Len(outCC) = NumArgs + 1
  /\ \A m \in 1..Len(ByValArgs) :
       /\ ByValArgs[m] = Val("copy", CopyOf(m))
       /\ CopyOf(m) \in 1..NumArgs
       /\ call.args[CopyOf(m)].byval
  /\ \A m, n \in 1..Len(ByValArgs) : m < n => CopyOf(m) < CopyOf(n)
  /\ \A k \in 1..NumArgs :
       call.args[k].byval /\ (pc = "operands" => k <= passed) =>
         \E m \in 1..Len(ByValArgs) : CopyOf(m) = k
  /\ pc = "operands" =>
       byvalArgIdx = 0 /\ \A m \in 1..Len(ByValArgs) : CopyOf(m) <= passed
  /\ pc = "pass" =>
       \A m \in 1..Len(ByValArgs) : m <= byvalArgIdx <=> CopyOf(m) <= passed
  /\ pc \notin {"operands", "pass"} => passed = NumArgs

(* The stack slot of argument k, once SP is set for the call. *)
SlotOf(k) ==
  [addr |-> StackBase - ArgsSize + OutLoc(k)[2], size |-> Size(ArgType(k)),
   val |-> Sent(k)]

PassedInv ==
  /\ pc = "operands" => mem = {}
  /\ pc # "operands" =>
       /\ \A w \in mem : \E k \in 1..passed : OutLoc(k)[1] = "mem" /\ w = SlotOf(k)
       /\ \A k \in 1..passed :
            IF OutLoc(k)[1] = "mem" THEN SlotOf(k) \in mem
            ELSE OutLoc(k) \in Regs /\ RegsToPass[OutLoc(k)] = Sent(k)
  /\ pc \in {"formals", "params"} => regs = RegsToPass

(* The callee's walk is the beginning of the caller's. *)
InWalk ==
  /\ Len(inCC) \in 1..call.named + 1
  /\ pc \in {"operands", "pass"} => Len(inCC) = 1
  /\ pc \notin {"operands", "pass", "formals"} => Len(inCC) = call.named + 1
  /\ \A k \in 1..Len(inCC) : inCC[k] = outCC[k]

ParamInv ==
  /\ Len(InVals) \in 0..call.named
  /\ pc \in {"operands", "pass", "formals"} => InVals = <<>>
  /\ pc \notin {"operands", "pass", "formals", "params"} => Len(InVals) = call.named
  /\ ArgumentsArrive
  /\ call.isVarArg => ParamEndOffset = outCC[Len(InVals) + 1].StackOffset

BodyInv ==
  /\ Len(vaVals) \in 0..NumArgs - call.named
  /\ pc \in {"operands", "pass", "formals", "params"} => vaVals = <<>>
  /\ pc = "body" /\ call.isVarArg /\ SameSlots(Len(vaVals)) =>
       vaList = sp + outCC[call.named + Len(vaVals) + 1].StackOffset
  /\ VarArgsArrive
  /\ pc \in {"body", "return", "result"} /\ call.sret => SRetReturnReg = Sent(1)

(* The walks over the results. *)
RetWalk ==
  /\ Len(retCC) \in 1..NumRets + 1
  /\ retCC[1] = NoneUsed
  /\ \A k \in 1..Len(retCC) - 1 :
       /\ retCC[k + 1] = TakeReg(retCC[k], call.rets[k])
       /\ Used(retCC[k], call.rets[k]) < RetRegs(call.rets[k])
  /\ \A j, k \in 1..Len(retCC) :
       j < k => Le(TakeReg(retCC[j], call.rets[j]), retCC[k])
  /\ pc \in {"result", "done"} => Len(retCC) = NumRets + 1
  /\ pc \notin {"return", "result", "done"} => Len(retCC) = 1
  /\ pc \in {"return", "result", "done"} =>
       \A k \in 1..Len(retCC) - 1 :
         regs[RetLoc(retCC[k], call.rets[k])] = Val("ret", k)

ResultInv ==
  /\ Len(resCC) \in 1..NumRets + 1
  /\ pc \notin {"result", "done"} => Len(resCC) = 1
  /\ pc = "done" => Len(resCC) = NumRets + 1
  /\ \A k \in 1..Len(resCC) : resCC[k] = retCC[k]
  /\ Len(results) = Len(resCC) - 1
  /\ \A k \in 1..Len(results) : results[k] = Val("ret", k)
  /\ pc \in {"result", "done"} /\ call.sret => regs[<<"S", 0>>] = Sent(1)

IInv ==
  /\ TypeOK /\ OutWalk /\ SPInv /\ ByValInv /\ PassedInv /\ InWalk /\ ParamInv
  /\ BodyInv /\ RetWalk /\ ResultInv

-----------------------------------------------------------------------------
(* alignTo rounds up, and commutes with a multiple of 64. *)
LEMMA AlignUp ==
  ASSUME NEW x \in Nat, NEW t \in Types
  PROVE  /\ alignTo(x, Size(t)) \in Nat
         /\ alignTo(x, Size(t)) >= x
         /\ \A b \in Int : b % 64 = 0 =>
              alignTo(b + x, Size(t)) = b + alignTo(x, Size(t))
<1>1. CASE t = "i32" BY <1>1 DEF Size, alignTo
<1>2. CASE t = "v16i32" BY <1>2 DEF Size, alignTo
<1>3. CASE t = "v16i1" BY <1>3 DEF Size, alignTo
<1> QED BY <1>1, <1>2, <1>3 DEF Types

LEMMA AlignStack ==
  ASSUME NEW x \in Nat
  PROVE  /\ alignTo(x, StackAlignment) \in Nat
         /\ alignTo(x, StackAlignment) >= x
         /\ alignTo(x, StackAlignment) % 64 = 0
BY DEF alignTo, StackAlignment

(* What CallsAssumption says of the call under way. *)
LEMMA CallFacts ==
  ASSUME call \in Calls
  PROVE  /\ NumArgs \in Nat /\ NumRets \in Nat
         /\ call.named \in 0..NumArgs
         /\ call.isVarArg \in BOOLEAN /\ call.sret \in BOOLEAN
         /\ \A k \in 1..NumArgs :
              /\ call.args[k] \in Args
              /\ ArgType(k) \in Types
              /\ call.args[k].byval \in BOOLEAN
         /\ \A k \in 1..NumRets : call.rets[k] \in Types
         /\ ~call.isVarArg => call.named = NumArgs
         /\ call.sret => call.named > 0 /\ NumRets = 0
<1>1. call \in CallType BY CallsAssumption
<1>2. call.args \in Seq(Args) /\ call.rets \in Seq(Types) /\ call.named \in Nat
      /\ call.isVarArg \in BOOLEAN /\ call.sret \in BOOLEAN
  BY <1>1 DEF CallType
<1>3. /\ call.named <= Len(call.args)
      /\ ~call.isVarArg => call.named = Len(call.args)
      /\ call.sret => call.named > 0 /\ call.rets = <<>>
  BY CallsAssumption
<1>4. \A a \in Args : a.type \in Types /\ a.byval \in BOOLEAN BY DEF Args
<1> QED BY <1>2, <1>3, <1>4 DEF NumArgs, NumRets, ArgType

LEMMA SizePositive == \A t \in Types : Size(t) \in Nat /\ Size(t) > 0
BY DEF Types, Size

(* A va_list stays an integer. *)
LEMMA DataLayout ==
  ASSUME NEW x \in Int, NEW t \in Types
  PROVE  /\ alignTo(x, getABITypeAlignment(t)) \in Int
         /\ getTypeAllocSize(t) \in Nat
<1>1. CASE t = "i32"
  BY <1>1 DEF getABITypeAlignment, getTypeAllocSize, Size, alignTo
<1>2. CASE t = "v16i32"
  BY <1>2 DEF getABITypeAlignment, getTypeAllocSize, Size, alignTo
<1>3. CASE t = "v16i1"
  BY <1>3 DEF getABITypeAlignment, getTypeAllocSize, Size, alignTo
<1> QED BY <1>1, <1>2, <1>3 DEF Types

(* Assigning an argument hands out something and takes nothing back. *)
LEMMA AssignGrows ==
  ASSUME NEW st \in CCStates, NEW t \in Types, NEW va \in BOOLEAN
  PROVE  Assign(st, t, va) \in CCStates /\ Le(st, Assign(st, t, va))
<1>1. alignTo(st.StackOffset, Size(t)) \in Nat
      /\ alignTo(st.StackOffset, Size(t)) >= st.StackOffset
  BY AlignUp DEF CCStates
<1> HIDE DEF alignTo
<1> QED BY <1>1, SizePositive DEF Assign, TakeReg, CCStates, Le, InReg, Used

LEMMA TakeRegGrows ==
  ASSUME NEW st \in CCStates, NEW t \in Types
  PROVE  TakeReg(st, t) \in CCStates /\ Le(st, TakeReg(st, t))
BY DEF TakeReg, CCStates, Le

LEMMA LeTransitive ==
  ASSUME NEW a \in CCStates, NEW b \in CCStates, NEW c \in CCStates,
         Le(a, b), Le(b, c)
  PROVE  Le(a, c)
BY DEF Le, CCStates

(* A location is an argument register, or a stack slot that ends where the *)
(* stack offset goes.                                                      *)
LEMMA LocationFacts ==
  ASSUME NEW st \in CCStates, NEW t \in Types, NEW va \in BOOLEAN
  PROVE  /\ InReg(st, t, va) =>
              /\ Location(st, t, va) = <<Bank(t), Used(st, t)>>
              /\ Location(st, t, va) \in Regs
              /\ Location(st, t, va)[1] # "mem"
         /\ ~InReg(st, t, va) =>
              /\ Location(st, t, va)[1] = "mem"
              /\ Location(st, t, va)[2] \in Nat
              /\ Location(st, t, va)[2] = alignTo(st.StackOffset, Size(t))
              /\ Location(st, t, va)[2] >= st.StackOffset
              /\ Location(st, t, va)[2] + Size(t) = Assign(st, t, va).StackOffset
<1>1. alignTo(st.StackOffset, Size(t)) \in Nat
      /\ alignTo(st.StackOffset, Size(t)) >= st.StackOffset
  BY AlignUp DEF CCStates
<1>2. CASE InReg(st, t, va)
  <2>1. Location(st, t, va) = <<Bank(t), Used(st, t)>> BY <1>2 DEF Location
  <2>2. Used(st, t) \in Nat /\ Used(st, t) < ArgRegs(t)
    BY <1>2 DEF InReg, Used, CCStates
  <2>3. CASE Bank(t) = "S"
    BY <1>2, <2>1, <2>2, <2>3, RegsAssumption DEF ArgRegs, Regs
  <2>4. CASE Bank(t) = "V"
    BY <1>2, <2>1, <2>2, <2>4, RegsAssumption DEF ArgRegs, Regs
  <2> QED BY <1>2, <2>3, <2>4 DEF Bank
<1>3. CASE ~InReg(st, t, va)
  BY <1>1, <1>3 DEF Location, Assign, CCStates
<1> QED BY <1>2, <1>3

(* Two arguments, one assigned after the other, share neither a register   *)
(* nor a byte of the stack.                                                *)
LEMMA LocationsDisjoint ==
  ASSUME NEW st \in CCStates, NEW t \in Types, NEW va \in BOOLEAN,
         NEW st2 \in CCStates, NEW t2 \in Types, NEW va2 \in BOOLEAN,
         Le(Assign(st, t, va), st2)
  PROVE  /\ InReg(st, t, va) /\ InReg(st2, t2, va2) =>
              Location(st, t, va) # Location(st2, t2, va2)
         /\ ~InReg(st, t, va) /\ ~InReg(st2, t2, va2) =>
              Location(st, t, va)[2] + Size(t) <= Location(st2, t2, va2)[2]
<1>1. CASE InReg(st, t, va) /\ InReg(st2, t2, va2)
  <2>1. Bank(t) = Bank(t2) => Used(st, t) < Used(st2, t2)
    BY <1>1 DEF Assign, TakeReg, Le, Used, CCStates, Bank
  <2>2. Used(st, t) \in Nat /\ Used(st2, t2) \in Nat BY DEF Used, CCStates
  <2> QED BY <1>1, <2>1, <2>2, LocationFacts
<1>2. CASE ~InReg(st, t, va) /\ ~InReg(st2, t2, va2)
  <2>1. Assign(st, t, va) \in CCStates BY AssignGrows
  <2>2. Assign(st, t, va).StackOffset <= st2.StackOffset BY DEF Le
  <2> QED BY <1>2, <2>1, <2>2, LocationFacts, SizePositive DEF CCStates
<1> QED BY <1>1, <1>2

-----------------------------------------------------------------------------
LEMMA ValFacts ==
  /\ \A n \in Nat : /\ Val("arg", n) \in Vals /\ Val("copy", n) \in Vals
                    /\ Val("ret", n) \in Vals
  /\ Garbage \in Vals
BY DEF Val, Vals, Garbage

LEMMA LoadType ==
  ASSUME NEW m \in SUBSET Slots, NEW a, NEW s
  PROVE  Load(m, a, s) \in Vals
<1>1. CASE \E w \in m : w.addr = a /\ w.size = s
  <2>1. PICK w \in m : w = CHOOSE v \in m : v.addr = a /\ v.size = s BY <1>1
  <2>2. w.val \in Vals BY DEF Slots
  <2> QED BY <1>1, <2>1, <2>2 DEF Load
<1>2. CASE ~ \E w \in m : w.addr = a /\ w.size = s
  BY <1>2, ValFacts DEF Load
<1> QED BY <1>1, <1>2

(* The parts of the invariant for the initial state. *)
LEMMA InitIInv == Init => IInv
<1> SUFFICES ASSUME Init PROVE IInv OBVIOUS
<1>1. call \in Calls BY DEF Init
<1>2. NumArgs \in Nat /\ NumRets \in Nat /\ call.named \in 0..NumArgs
  BY <1>1, CallFacts
<1>3. NoneUsed \in CCStates BY DEF NoneUsed, CCStates
<1>4. NoRegs \in [Regs -> Vals] BY ValFacts DEF NoRegs
<1>5. TypeOK BY <1>3, <1>4, ValFacts, StackBaseAssumption DEF Init, TypeOK
<1>6. OutWalk BY <1>2 DEF Init, OutWalk
<1>7. SPInv BY DEF Init, SPInv
<1>8. ByValInv BY <1>2 DEF Init, ByValInv
<1>9. PassedInv BY DEF Init, PassedInv
<1>10. InWalk BY <1>2 DEF Init, InWalk
<1>11. ParamInv BY <1>2 DEF Init, ParamInv, ArgumentsArrive, NoneUsed
<1>12. BodyInv BY <1>2 DEF Init, BodyInv, VarArgsArrive
<1>13. RetWalk BY <1>2 DEF Init, RetWalk
<1>14. ResultInv BY <1>2 DEF Init, ResultInv
<1> QED BY <1>5, <1>6, <1>7, <1>8, <1>9, <1>10, <1>11, <1>12, <1>13, <1>14
        DEF IInv

(* Where argument k goes. *)
LEMMA OutLocFacts ==
  ASSUME TypeOK, OutWalk, NEW k \in 1..NumArgs, k <= Len(outCC)
  PROVE  /\ outCC[k] \in CCStates /\ ArgType(k) \in Types
         /\ OutLoc(k)[1] # "mem" => OutLoc(k) \in Regs
         /\ OutLoc(k)[1] = "mem" =>
              /\ OutLoc(k)[2] \in Nat
              /\ OutLoc(k)[2] >= outCC[k].StackOffset
              /\ OutLoc(k)[2] = alignTo(outCC[k].StackOffset, Size(ArgType(k)))
              /\ OutLoc(k)[2] + Size(ArgType(k)) =
                   Assign(outCC[k], ArgType(k), call.isVarArg).StackOffset
         /\ call.isVarArg => OutLoc(k)[1] = "mem"
         /\ OutLoc(k)[1] = "mem" <=> ~InReg(outCC[k], ArgType(k), call.isVarArg)
<1>1. outCC[k] \in CCStates /\ ArgType(k) \in Types /\ call.isVarArg \in BOOLEAN
  BY CallFacts DEF TypeOK, OutWalk
<1>2. call.isVarArg => ~InReg(outCC[k], ArgType(k), call.isVarArg) BY DEF InReg
<1> QED BY <1>1, <1>2, LocationFacts DEF OutLoc

(* The register of result k, and that no later result takes it. *)
LEMMA RetLocFacts ==
  ASSUME NEW st \in CCStates, NEW t \in Types, Used(st, t) < RetRegs(t)
  PROVE  /\ RetLoc(st, t) \in Regs
         /\ \A st2 \in CCStates, t2 \in Types :
              Le(TakeReg(st, t), st2) => RetLoc(st, t) # RetLoc(st2, t2)
<1>1. RetLoc(st, t) \in Regs
  BY RegsAssumption DEF RetLoc, Regs, Used, RetRegs, Bank, CCStates
<1>2. ASSUME NEW st2 \in CCStates, NEW t2 \in Types, Le(TakeReg(st, t), st2)
      PROVE  RetLoc(st, t) # RetLoc(st2, t2)
  <2>1. Bank(t) = Bank(t2) => Used(st, t) < Used(st2, t2)
    BY <1>2 DEF TakeReg, Le, Used, CCStates, Bank
  <2>2. Used(st, t) \in Nat /\ Used(st2, t2) \in Nat BY DEF Used, CCStates
  <2> QED BY <2>1, <2>2 DEF RetLoc
<1> QED BY <1>1, <1>2

(* The callee finds parameter k where the caller put it. *)
LEMMA ParamLocs ==
  ASSUME TypeOK, OutWalk, InWalk, ParamInv, pc = "params", Len(InVals) < call.named
  PROVE  LET k == Len(InVals) + 1
         IN  k \in 1..NumArgs /\ k <= Len(outCC) /\ InLoc(k) = OutLoc(k)
<1>1. NumArgs \in Nat /\ call.named \in 0..NumArgs BY CallFacts DEF TypeOK
<1>2. Len(InVals) \in Nat BY DEF TypeOK
<1>3. Len(InVals) + 1 \in 1..call.named BY <1>1, <1>2
<1>4. Len(outCC) = NumArgs + 1 /\ Len(inCC) = call.named + 1
  BY <1>1 DEF OutWalk, InWalk
<1>5. inCC[Len(InVals) + 1] = outCC[Len(InVals) + 1] BY <1>1, <1>3, <1>4 DEF InWalk
<1> QED BY <1>1, <1>3, <1>4, <1>5 DEF InLoc, OutLoc

(* The argument area is a multiple of 64 that holds every stack argument. *)
LEMMA ArgsSizeFacts ==
  ASSUME TypeOK, OutWalk
  PROVE  /\ At(outCC) \in CCStates
         /\ ArgsSize \in Nat /\ ArgsSize % 64 = 0
         /\ ArgsSize >= At(outCC).StackOffset
<1>1. NumArgs \in Nat BY CallFacts DEF TypeOK
<1>2. Len(outCC) \in 1..Len(outCC) BY <1>1 DEF OutWalk
<1>3. At(outCC) \in CCStates BY <1>2 DEF At, TypeOK
<1> QED BY <1>3, AlignStack DEF ArgsSize, CCStates

LEMMA StepTypeOK == IInv /\ [Next]_vars => TypeOK'
<1> SUFFICES ASSUME IInv, [Next]_vars PROVE TypeOK' OBVIOUS
<1>t. TypeOK BY DEF IInv
<1>c. /\ NumArgs \in Nat /\ NumRets \in Nat /\ call.named \in 0..NumArgs
      /\ call.isVarArg \in BOOLEAN
      /\ \A k \in 1..NumArgs : ArgType(k) \in Types /\ call.args[k].byval \in BOOLEAN
      /\ \A k \in 1..NumRets : call.rets[k] \in Types
  BY <1>t, CallFacts DEF TypeOK
<1>s. \A t \in Types : Size(t) \in Nat BY SizePositive
<1>n. NoRegs \in [Regs -> Vals] BY ValFacts DEF NoRegs
<1>1. CASE AnalyzeOperand
  <2>1. Len(outCC) \in 1..NumArgs /\ At(outCC) \in CCStates
    BY <1>1, <1>t, <1>c DEF AnalyzeOperand, IInv, OutWalk, TypeOK, At, NumArgs
  <2>2. Assign(At(outCC), ArgType(Len(outCC)), call.isVarArg) \in CCStates
    BY <2>1, <1>c, AssignGrows
  <2> QED BY <1>1, <1>t, <2>2 DEF AnalyzeOperand, TypeOK, calleeVars, returnVars
<1>2. CASE CopyByVal
  <2>1. passed' \in Nat BY <1>2, <1>t DEF CopyByVal, TypeOK
  <2>2. ByValArgs' \in Seq(Vals)
    <3>1. Val("copy", passed + 1) \in Vals BY <1>t DEF Val, Vals, TypeOK
    <3>2. Append(ByValArgs, Val("copy", passed + 1)) \in Seq(Vals)
      BY <3>1, <1>t DEF TypeOK
    <3>3. ByValArgs \in Seq(Vals) BY <1>t DEF TypeOK
    <3> QED BY <1>2, <3>2, <3>3 DEF CopyByVal
  <2>3. UNCHANGED <<call, pc, sp, regs, mem, outCC, byvalArgIdx, RegsToPass,
                    calleeVars, returnVars>>
    BY <1>2 DEF CopyByVal
  <2> QED BY <2>1, <2>2, <2>3, <1>t DEF TypeOK, calleeVars, returnVars
<1>3. CASE StartCall
  <2>2. ArgsSize \in Nat BY ArgsSizeFacts DEF IInv
  <2> QED
    BY <1>3, <1>t, <2>2, StackBaseAssumption
       DEF StartCall, TypeOK, calleeVars, returnVars
<1>4. CASE PassArgument
  <2> DEFINE k == passed + 1
  <2>1. k \in 1..NumArgs /\ k <= Len(outCC)
    BY <1>4, <1>c DEF PassArgument, IInv, ByValInv, OutWalk, NumArgs
  <2>2. OutVal(k) \in Vals
    <3>1. CASE call.args[k].byval
      <4>1. PICK m \in 1..Len(ByValArgs) : CopyOf(m) = k
        BY <1>4, <2>1, <3>1 DEF PassArgument, IInv, ByValInv
      <4>2. byvalArgIdx + 1 \in 1..Len(ByValArgs)
        <5>1. pc = "pass" /\ byvalArgIdx \in Nat /\ Len(ByValArgs) \in Nat /\ passed \in Nat
          BY <1>4, <1>t DEF PassArgument, TypeOK
        <5>2. m <= byvalArgIdx <=> CopyOf(m) <= passed
          BY <5>1, <4>1 DEF IInv, ByValInv
        <5> QED BY <5>1, <5>2, <4>1
      <4> QED BY <3>1, <4>2, <1>t DEF OutVal, TypeOK
    <3>2. CASE ~call.args[k].byval BY <3>2, <2>1, ValFacts DEF OutVal
    <3> QED BY <3>1, <3>2
  <2>3. byvalArgIdx' \in Nat BY <1>4, <1>t DEF PassArgument, TypeOK
  <2>4. passed' \in Nat BY <1>4, <1>t DEF PassArgument, TypeOK
  <2>5. CASE OutLoc(k)[1] = "mem"
    <3>1. sp + OutLoc(k)[2] \in Int /\ Size(ArgType(k)) \in Nat
      <4>1. OutLoc(k)[2] \in Nat BY <2>1, <2>5, <1>t, OutLocFacts DEF IInv
      <4>2. sp \in Int BY <1>t DEF TypeOK
      <4>3. Size(ArgType(k)) \in Nat BY <2>1, <1>c, <1>s
      <4> HIDE DEF k
      <4> QED BY <4>1, <4>2, <4>3
    <3>2. Store(mem, sp + OutLoc(k)[2], Size(ArgType(k)), OutVal(k)) \subseteq Slots
      BY <3>1, <2>2, <1>t DEF Store, Slots, TypeOK
    <3>3. mem' \subseteq Slots /\ RegsToPass' = RegsToPass
      BY <1>4, <2>5, <3>2 DEF PassArgument
    <3> QED
      BY <1>4, <1>t, <2>3, <2>4, <3>3 DEF PassArgument, TypeOK, calleeVars, returnVars
  <2>6. CASE OutLoc(k)[1] # "mem"
    <3>1. mem' = mem /\ RegsToPass' = [RegsToPass EXCEPT ![OutLoc(k)] = OutVal(k)]
      BY <1>4, <2>6 DEF PassArgument
    <3>2. RegsToPass' \in [Regs -> Vals] BY <3>1, <2>2, <1>t DEF TypeOK
    <3> QED
      BY <1>4, <1>t, <2>3, <2>4, <3>1, <3>2
         DEF PassArgument, TypeOK, calleeVars, returnVars
  <2> QED BY <2>5, <2>6
<1>5. CASE EmitCall
  BY <1>5, <1>t DEF EmitCall, TypeOK, callerVars, calleeVars, returnVars
<1>6. CASE AnalyzeFormal
  <2>1. Len(inCC) \in 1..NumArgs /\ At(inCC) \in CCStates
    BY <1>6, <1>t, <1>c DEF AnalyzeFormal, IInv, InWalk, TypeOK, At
  <2>2. Assign(At(inCC), ArgType(Len(inCC)), call.isVarArg) \in CCStates
    BY <2>1, <1>c, AssignGrows
  <2> QED BY <1>6, <1>t, <2>2 DEF AnalyzeFormal, TypeOK, callerVars, returnVars
<1>7. CASE FormalsAnalyzed
  BY <1>7, <1>t DEF FormalsAnalyzed, TypeOK, callerVars, calleeVars, returnVars
<1>8. CASE LoadParam
  <2> DEFINE k == Len(InVals) + 1
  <2>1. k \in 1..NumArgs /\ k <= Len(outCC) /\ InLoc(k) = OutLoc(k)
    BY <1>8, ParamLocs DEF IInv, LoadParam
  <2>2. CASE OutLoc(k)[1] = "mem"
    <3>1. /\ InVals' = Append(InVals, Load(mem, sp + OutLoc(k)[2], Size(ArgType(k))))
          /\ ParamEndOffset' = OutLoc(k)[2] + Size(ArgType(k))
      BY <1>8, <2>1, <2>2 DEF LoadParam
    <3>2. ParamEndOffset' \in Nat
      BY <3>1, <2>1, <2>2, <1>t, <1>c, <1>s, OutLocFacts DEF IInv
    <3>3. Load(mem, sp + OutLoc(k)[2], Size(ArgType(k))) \in Vals
      BY <1>t, LoadType DEF TypeOK
    <3> QED BY <1>8, <1>t, <3>1, <3>2, <3>3 DEF LoadParam, TypeOK, callerVars, returnVars
  <2>3. CASE OutLoc(k)[1] # "mem"
    <3>1. InVals' = Append(InVals, regs[OutLoc(k)]) /\ ParamEndOffset' = ParamEndOffset
      BY <1>8, <2>1, <2>3 DEF LoadParam
    <3>2. regs[OutLoc(k)] \in Vals
      BY <2>1, <2>3, <1>t, OutLocFacts DEF IInv, TypeOK
    <3> QED BY <1>8, <1>t, <3>1, <3>2 DEF LoadParam, TypeOK, callerVars, returnVars
  <2> QED BY <2>2, <2>3
<1>9. CASE EnterBody
  <2>1. call.sret => InVals[1] \in Vals
    <3>1. call.sret => call.named > 0 BY <1>t, CallFacts DEF TypeOK
    <3>2. InVals \in Seq(Vals) /\ Len(InVals) = call.named BY <1>9, <1>t DEF EnterBody, TypeOK
    <3> QED BY <3>1, <3>2, <1>c
  <2>2. SRetReturnReg' \in Vals BY <1>9, <2>1, ValFacts DEF EnterBody
  <2>3. vaList' \in Int BY <1>9, <1>t DEF EnterBody, TypeOK
  <2>4. /\ regs' = NoRegs /\ pc' = "body"
        /\ UNCHANGED <<call, sp, mem, callerVars, inCC, InVals, ParamEndOffset, vaVals,
                       returnVars>>
    BY <1>9 DEF EnterBody
  <2> QED BY <1>t, <1>n, <2>2, <2>3, <2>4 DEF TypeOK, callerVars, returnVars
<1>10. CASE VAArg
  <2> DEFINE t == ArgType(call.named + Len(vaVals) + 1)
  <2>1. t \in Types
    <3>1. call.named + Len(vaVals) < NumArgs BY <1>10 DEF VAArg, NumArgs
    <3>2. Len(vaVals) \in Nat BY <1>t DEF TypeOK
    <3> HIDE DEF NumArgs
    <3>3. call.named + Len(vaVals) + 1 \in 1..NumArgs BY <1>c, <3>1, <3>2
    <3> QED BY <1>c, <3>3
  <2> DEFINE VAList == alignTo(vaList, getABITypeAlignment(t))
  <2>2. VAList \in Int /\ getTypeAllocSize(t) \in Nat
    BY <2>1, <1>t, DataLayout DEF TypeOK
  <2>3. Load(mem, VAList, Size(t)) \in Vals
    BY <1>t, LoadType DEF TypeOK
  <2>4. vaVals' \in Seq(Vals) /\ vaList' \in Int
    <3>1. /\ vaVals' = Append(vaVals, Load(mem, VAList, Size(t)))
          /\ vaList' = VAList + getTypeAllocSize(t)
      BY <1>10 DEF VAArg
    <3>2. vaVals \in Seq(Vals) BY <1>t DEF TypeOK
    <3> HIDE DEF VAList, t
    <3> QED BY <3>1, <3>2, <2>2, <2>3
  <2>5. UNCHANGED <<call, pc, sp, regs, mem, callerVars, inCC, InVals,
                    ParamEndOffset, SRetReturnReg, returnVars>>
    BY <1>10 DEF VAArg
  <2> QED BY <1>t, <2>4, <2>5 DEF TypeOK, callerVars, returnVars
<1>11. CASE StartReturn
  BY <1>11, <1>t DEF StartReturn, TypeOK, callerVars, calleeVars, returnVars
<1>12. CASE ReturnValue
  <2>1. Len(retCC) \in 1..NumRets /\ At(retCC) \in CCStates
    BY <1>12, <1>t, <1>c DEF ReturnValue, IInv, RetWalk, TypeOK, At, NumRets
  <2>2. TakeReg(At(retCC), call.rets[Len(retCC)]) \in CCStates
    BY <2>1, <1>c, TakeRegGrows
  <2>3. Val("ret", Len(retCC)) \in Vals BY <2>1, ValFacts
  <2>4. regs' \in [Regs -> Vals] BY <1>12, <1>t, <2>3 DEF ReturnValue, TypeOK
  <2> QED BY <1>12, <1>t, <2>2, <2>4 DEF ReturnValue, TypeOK, callerVars, calleeVars
<1>13. CASE EmitReturn
  <2>2. ArgsSize \in Nat BY ArgsSizeFacts DEF IInv
  <2>3. regs' \in [Regs -> Vals] BY <1>13, <1>t DEF EmitReturn, TypeOK
  <2> QED
    BY <1>13, <1>t, <2>2, <2>3
       DEF EmitReturn, TypeOK, callerVars, calleeVars, returnVars
<1>14. CASE ResultValue
  <2>1. Len(resCC) \in 1..NumRets /\ At(resCC) \in CCStates
    BY <1>14, <1>t, <1>c DEF ResultValue, IInv, ResultInv, TypeOK, At, NumRets
  <2>2. TakeReg(At(resCC), call.rets[Len(resCC)]) \in CCStates
    BY <2>1, <1>c, TakeRegGrows
  <2>3. RetLoc(At(resCC), call.rets[Len(resCC)]) \in Regs
    <3>1. Used(At(resCC), call.rets[Len(resCC)]) < RetRegs(call.rets[Len(resCC)])
      BY <1>14, <2>1, <1>c DEF ResultValue, IInv, ResultInv, RetWalk, At
    <3> QED BY <3>1, <2>1, <1>c, RetLocFacts
  <2> QED
    BY <1>14, <1>t, <2>2, <2>3 DEF ResultValue, TypeOK, callerVars, calleeVars
<1>15. CASE EndCall
  BY <1>15, <1>t DEF EndCall, TypeOK, callerVars, calleeVars, returnVars
<1>16. CASE UNCHANGED vars
  BY <1>16, <1>t DEF vars, TypeOK, callerVars, calleeVars, returnVars
<1> QED
  BY <1>1, <1>2, <1>3, <1>4, <1>5, <1>6, <1>7, <1>8, <1>9, <1>10, <1>11, <1>12,
     <1>13, <1>14, <1>15, <1>16 DEF Next

(* The next copy in line is that of the byval argument at hand. *)
LEMMA NextByVal ==
  ASSUME TypeOK, ByValInv, pc = "pass", passed < NumArgs,
         call.args[passed + 1].byval
  PROVE  /\ byvalArgIdx + 1 \in 1..Len(ByValArgs)
         /\ CopyOf(byvalArgIdx + 1) = passed + 1
<1>1. /\ NumArgs \in Nat /\ passed \in Nat /\ byvalArgIdx \in Nat
      /\ Len(ByValArgs) \in Nat
  BY CallFacts DEF TypeOK
<1>2. PICK m \in 1..Len(ByValArgs) : CopyOf(m) = passed + 1 BY <1>1 DEF ByValInv
<1>3. \A j \in 1..Len(ByValArgs) : CopyOf(j) \in 1..NumArgs BY DEF ByValInv
<1>4. m > byvalArgIdx BY <1>1, <1>2 DEF ByValInv
<1>5. byvalArgIdx + 1 \in 1..Len(ByValArgs) BY <1>1, <1>4
<1>6. ~(CopyOf(byvalArgIdx + 1) <= passed) BY <1>1, <1>5 DEF ByValInv
<1>7. byvalArgIdx + 1 < m => CopyOf(byvalArgIdx + 1) < CopyOf(m)
  BY <1>5 DEF ByValInv
<1> HIDE DEF CopyOf
<1> QED BY <1>1, <1>2, <1>3, <1>4, <1>5, <1>6, <1>7

LEMMA StepOutWalk == IInv /\ [Next]_vars => OutWalk'
<1> SUFFICES ASSUME IInv, [Next]_vars PROVE OutWalk' OBVIOUS
<1>t. TypeOK /\ OutWalk BY DEF IInv
<1>c. /\ NumArgs \in Nat /\ call.isVarArg \in BOOLEAN
      /\ \A k \in 1..NumArgs : ArgType(k) \in Types
  BY <1>t, CallFacts DEF TypeOK
<1>1. CASE AnalyzeOperand
  <2> DEFINE n == Len(outCC)
             a(k) == Assign(outCC[k], ArgType(k), call.isVarArg)
  <2>1. n \in 1..NumArgs BY <1>1, <1>t, <1>c DEF AnalyzeOperand, OutWalk, NumArgs
  <2>2. /\ \A k \in 1..n : outCC[k] \in CCStates
        /\ \A k \in 1..n : a(k) \in CCStates /\ Le(outCC[k], a(k))
    <3>1. \A k \in 1..n : outCC[k] \in CCStates BY <1>t, <2>1 DEF TypeOK
    <3> QED BY <3>1, <2>1, <1>c, AssignGrows
  <2>3. /\ outCC' = Append(outCC, a(n)) /\ call' = call /\ pc' = pc
    BY <1>1 DEF AnalyzeOperand, At
  <2>4. Len(outCC') = n + 1 /\ outCC'[n + 1] = a(n)
        /\ \A k \in 1..n : outCC'[k] = outCC[k]
    BY <2>1, <2>2, <2>3, <1>t DEF TypeOK
  <2>5. \A j \in 1..n : Le(a(j), a(n))
    <3> TAKE j \in 1..n
    <3>1. CASE j = n BY <3>1, <2>1, <2>2 DEF Le, CCStates
    <3>2. CASE j < n
      <4>1. Le(a(j), outCC[n]) BY <3>2, <2>1, <1>t DEF OutWalk
      <4> QED BY <4>1, <2>1, <2>2, LeTransitive
    <3> QED BY <2>1, <3>1, <3>2
  <2>6. \A k \in 1..Len(outCC') - 1 :
          outCC'[k + 1] = Assign(outCC'[k], ArgType(k), call.isVarArg)
    <3> SUFFICES ASSUME NEW k \in 1..n PROVE outCC'[k + 1] = a(k)
      BY <2>1, <2>4
    <3>1. CASE k = n BY <3>1, <2>4
    <3>2. CASE k < n BY <3>2, <2>1, <2>4, <1>t DEF OutWalk
    <3> QED BY <2>1, <3>1, <3>2
  <2>7. \A j, k \in 1..Len(outCC') :
          j < k => Le(Assign(outCC'[j], ArgType(j), call.isVarArg), outCC'[k])
    <3> SUFFICES ASSUME NEW j \in 1..n + 1, NEW k \in 1..n + 1, j < k
                 PROVE  Le(Assign(outCC'[j], ArgType(j), call.isVarArg), outCC'[k])
      BY <2>1, <2>4
    <3>1. j \in 1..n /\ outCC'[j] = outCC[j] BY <2>1, <2>4
    <3>2. CASE k = n + 1 BY <3>1, <3>2, <2>4, <2>5
    <3>3. CASE k < n + 1
      <4>1. k \in 1..n /\ outCC'[k] = outCC[k] BY <3>3, <2>1, <2>4
      <4> QED BY <4>1, <3>1, <1>t DEF OutWalk
    <3> QED BY <2>1, <3>2, <3>3
  <2>8. outCC'[1] = NoneUsed BY <2>1, <2>4, <1>t DEF OutWalk
  <2>9. pc = "operands" BY <1>1 DEF AnalyzeOperand
  <2> QED
    BY <2>1, <2>3, <2>4, <2>6, <2>7, <2>8, <2>9, <1>c DEF OutWalk, NumArgs, ArgType
<1>2. CASE StartCall
  <2>1. Len(outCC) = NumArgs + 1
    BY <1>2, <1>t, <1>c DEF StartCall, OutWalk, NumArgs
  <2> QED BY <1>2, <2>1, <1>t DEF StartCall, OutWalk, NumArgs, ArgType
<1>3. CASE ~AnalyzeOperand /\ ~StartCall
  <2>1. outCC' = outCC /\ call' = call /\ (pc' # "operands" => pc # "operands")
    BY <1>3 DEF Next, vars, callerVars, CopyByVal, PassArgument, EmitCall,
       AnalyzeFormal, FormalsAnalyzed, LoadParam, EnterBody, VAArg, StartReturn,
       ReturnValue, EmitReturn, ResultValue, EndCall
  <2> QED BY <2>1, <1>t DEF OutWalk, NumArgs, ArgType
<1> QED BY <1>1, <1>2, <1>3

LEMMA StepSPInv == IInv /\ [Next]_vars => SPInv'
<1> SUFFICES ASSUME IInv, [Next]_vars PROVE SPInv' OBVIOUS
<1>t. SPInv BY DEF IInv
<1>a. ArgsSize \in Nat /\ StackBase \in Int
  BY ArgsSizeFacts, StackBaseAssumption DEF IInv
<1>1. CASE StartCall
  BY <1>1, <1>t DEF StartCall, SPInv, ArgsSize, At
<1>2. CASE EmitReturn
  BY <1>2, <1>t, <1>a DEF EmitReturn, SPInv
<1>3. CASE AnalyzeOperand
  BY <1>3, <1>t DEF AnalyzeOperand, SPInv
<1>4. CASE ~StartCall /\ ~EmitReturn /\ ~AnalyzeOperand
  <2>1. /\ sp' = sp /\ outCC' = outCC
        /\ \/ pc' = pc
           \/ pc = "result" /\ pc' = "done"
           \/ /\ pc \in {"pass", "formals", "params", "body"}
              /\ pc' \in {"formals", "params", "body", "return"}
    BY <1>4 DEF Next, vars, callerVars, CopyByVal, PassArgument, EmitCall,
       AnalyzeFormal, FormalsAnalyzed, LoadParam, EnterBody, VAArg, StartReturn,
       ReturnValue, ResultValue, EndCall
  <2>2. ArgsSize' = ArgsSize BY <2>1 DEF ArgsSize, At
  <2> HIDE DEF ArgsSize
  <2> QED BY <2>1, <2>2, <1>t DEF SPInv
<1> QED BY <1>1, <1>2, <1>3, <1>4

LEMMA StepByValInv == IInv /\ [Next]_vars => ByValInv'
<1> SUFFICES ASSUME IInv, [Next]_vars PROVE ByValInv' OBVIOUS
<1>t. TypeOK /\ ByValInv /\ OutWalk BY DEF IInv
<1>c. /\ NumArgs \in Nat /\ passed \in Nat /\ byvalArgIdx \in Nat
      /\ \A k \in 1..NumArgs : call.args[k].byval \in BOOLEAN
  BY <1>t, CallFacts DEF TypeOK
<1>1. CASE AnalyzeOperand
  <2>1. passed = 0 BY <1>1, <1>t, <1>c DEF AnalyzeOperand, ByValInv, NumArgs
  <2> QED BY <1>1, <2>1, <1>t DEF AnalyzeOperand, ByValInv, NumArgs, CopyOf
<1>2. CASE CopyByVal
  <2> DEFINE k == passed + 1
             n == Len(ByValArgs)
  <2>1. /\ k \in 1..NumArgs /\ passed' = k /\ pc = "operands" /\ n \in Nat
        /\ Len(outCC) = NumArgs + 1
        /\ UNCHANGED <<call, pc, outCC, byvalArgIdx>>
    <3>1. /\ passed < NumArgs /\ Len(outCC) > NumArgs
          /\ passed' = k /\ pc = "operands"
          /\ UNCHANGED <<call, pc, outCC, byvalArgIdx>>
      BY <1>2 DEF CopyByVal, NumArgs
    <3>2. n \in Nat BY <1>t DEF TypeOK
    <3>3. Len(outCC) \in 1..NumArgs + 1 BY <1>t DEF OutWalk
    <3> HIDE DEF NumArgs, n
    <3> QED BY <3>1, <3>2, <3>3, <1>c
  <2>2. CASE call.args[k].byval
    <3> DEFINE cp(m) == ByValArgs'[m][2]
    <3>0. \A m : CopyOf(m)' = cp(m) BY DEF CopyOf
    <3>1. ByValArgs' = Append(ByValArgs, Val("copy", k)) BY <1>2, <2>2 DEF CopyByVal
    <3>2. /\ Len(ByValArgs') = n + 1 /\ ByValArgs'[n + 1] = Val("copy", k)
          /\ \A m \in 1..n : ByValArgs'[m] = ByValArgs[m]
      BY <3>1, <2>1, <1>t DEF TypeOK
    <3>3. cp(n + 1) = k /\ \A m \in 1..n : cp(m) = CopyOf(m)
      BY <3>2 DEF CopyOf, Val
    <3>4. \A m \in 1..n : CopyOf(m) <= passed /\ CopyOf(m) \in 1..NumArgs
      BY <2>1, <1>t DEF ByValInv
    <3>5. \A m \in 1..n + 1 :
            /\ ByValArgs'[m] = Val("copy", cp(m))
            /\ cp(m) \in 1..NumArgs
            /\ call.args[cp(m)].byval
            /\ cp(m) <= k
      <4> TAKE m \in 1..n + 1
      <4>1. CASE m = n + 1 BY <4>1, <2>1, <2>2, <3>2, <3>3
      <4>2. CASE m \in 1..n
        <5>1. ByValArgs[m] = Val("copy", CopyOf(m)) /\ call.args[CopyOf(m)].byval
          BY <4>2, <1>t DEF ByValInv
        <5>2. cp(m) = CopyOf(m) /\ ByValArgs'[m] = ByValArgs[m] BY <4>2, <3>2, <3>3
        <5>3. CopyOf(m) <= passed /\ CopyOf(m) \in 1..NumArgs BY <4>2, <3>4
        <5> HIDE DEF CopyOf, cp
        <5> QED BY <5>1, <5>2, <5>3, <1>c
      <4> QED BY <2>1, <4>1, <4>2
    <3>6. \A m, o \in 1..n + 1 : m < o => cp(m) < cp(o)
      <4> SUFFICES ASSUME NEW m \in 1..n + 1, NEW o \in 1..n + 1, m < o
                   PROVE  cp(m) < cp(o)
        OBVIOUS
      <4>1. m \in 1..n /\ cp(m) = CopyOf(m) BY <2>1, <3>3
      <4>2. CASE o = n + 1 BY <4>1, <4>2, <1>c, <3>3, <3>4
      <4>3. CASE o \in 1..n BY <4>1, <4>3, <3>3, <1>t DEF ByValInv
      <4> QED BY <2>1, <4>2, <4>3
    <3>7. \A j \in 1..NumArgs : call.args[j].byval /\ j <= k =>
            \E m \in 1..n + 1 : cp(m) = j
      <4> SUFFICES ASSUME NEW j \in 1..NumArgs, call.args[j].byval, j <= k
                   PROVE  \E m \in 1..n + 1 : cp(m) = j
        OBVIOUS
      <4>1. CASE j = k BY <4>1, <2>1, <3>3
      <4>2. CASE j <= passed
        <5>1. PICK m \in 1..n : CopyOf(m) = j BY <4>2, <2>1, <1>t DEF ByValInv
        <5> QED BY <5>1, <2>1, <3>3
      <4> QED BY <1>c, <4>1, <4>2
    <3>8. NumArgs' = NumArgs BY <2>1 DEF NumArgs
    <3>9. byvalArgIdx' = 0 /\ pc' = "operands" BY <2>1, <1>t DEF ByValInv
    <3> HIDE DEF CopyOf, cp, NumArgs, n
    <3>10. \A m \in 1..Len(ByValArgs') :
             /\ ByValArgs'[m] = Val("copy", CopyOf(m)')
             /\ CopyOf(m)' \in 1..NumArgs'
             /\ call'.args[CopyOf(m)'].byval
             /\ CopyOf(m)' <= passed'
      BY <2>1, <3>0, <3>2, <3>5, <3>8
    <3>11. \A m, o \in 1..Len(ByValArgs') : m < o => CopyOf(m)' < CopyOf(o)'
      BY <3>0, <3>2, <3>6
    <3>12. \A j \in 1..NumArgs' : call'.args[j].byval /\ j <= passed' =>
             \E m \in 1..Len(ByValArgs') : CopyOf(m)' = j
      BY <2>1, <3>0, <3>2, <3>7, <3>8
    <3>13. passed' \in 0..NumArgs' /\ Len(outCC') = NumArgs' + 1
      BY <2>1, <3>8, <1>c
    <3> QED BY <3>9, <3>10, <3>11, <3>12, <3>13 DEF ByValInv
  <2>3. CASE ~call.args[k].byval
    <3>1. ByValArgs' = ByValArgs BY <1>2, <2>3 DEF CopyByVal
    <3>2. \A m : CopyOf(m)' = CopyOf(m) BY <3>1 DEF CopyOf
    <3>3. \A m \in 1..n : CopyOf(m) <= passed /\ CopyOf(m) \in 1..NumArgs
      BY <2>1, <1>t DEF ByValInv
    <3>4. \A j \in 1..NumArgs : call.args[j].byval /\ j <= k => j <= passed
      BY <2>3, <1>c
    <3>5. NumArgs' = NumArgs BY <2>1 DEF NumArgs
    <3> HIDE DEF CopyOf, NumArgs
    <3> QED BY <2>1, <3>1, <3>2, <3>3, <3>4, <3>5, <1>t, <1>c DEF ByValInv
  <2> QED BY <2>1, <2>2, <2>3, <1>c
<1>3. CASE StartCall
  <2>1. /\ passed = NumArgs /\ passed' = 0 /\ pc = "operands" /\ pc' = "pass"
        /\ UNCHANGED <<call, outCC, ByValArgs, byvalArgIdx>>
    BY <1>3 DEF StartCall, NumArgs
  <2>2. \A m : CopyOf(m)' = CopyOf(m) BY <2>1 DEF CopyOf
  <2>3. byvalArgIdx = 0 BY <2>1, <1>t DEF ByValInv
  <2>4. NumArgs' = NumArgs BY <2>1 DEF NumArgs
  <2>5. \A m \in 1..Len(ByValArgs) : CopyOf(m) \in 1..NumArgs BY <1>t DEF ByValInv
  <2> HIDE DEF CopyOf, NumArgs
  <2>6. \A m \in 1..Len(ByValArgs) : m <= 0 <=> CopyOf(m) <= 0 BY <2>5, <1>c
  <2> QED BY <2>1, <2>2, <2>3, <2>4, <2>6, <1>t, <1>c DEF ByValInv
<1>4. CASE PassArgument
  <2> DEFINE k == passed + 1
             n == Len(ByValArgs)
  <2>1. /\ k \in 1..NumArgs /\ passed' = k /\ pc = "pass" /\ pc' = pc
        /\ UNCHANGED <<call, ByValArgs, outCC>>
    BY <1>4, <1>c DEF PassArgument, NumArgs
  <2>2. \A m : CopyOf(m)' = CopyOf(m) BY <2>1 DEF CopyOf
  <2>3. NumArgs' = NumArgs BY <2>1 DEF NumArgs
  <2>4. n \in Nat /\ \A m \in 1..n : CopyOf(m) \in 1..NumArgs
    <3>1. n \in Nat BY <1>t DEF TypeOK
    <3>2. \A m \in 1..n : CopyOf(m) \in 1..NumArgs BY <1>t DEF ByValInv
    <3> QED BY <3>1, <3>2
  <2>5. \A m \in 1..n : m <= byvalArgIdx' <=> CopyOf(m) <= k
    <3>1. CASE call.args[k].byval
      <4>1. byvalArgIdx' = byvalArgIdx + 1 BY <1>4, <3>1 DEF PassArgument
      <4>2. byvalArgIdx + 1 \in 1..n /\ CopyOf(byvalArgIdx + 1) = k
        BY <2>1, <3>1, <1>t, <1>c, NextByVal
      <4>3. \A m \in 1..n : m <= byvalArgIdx <=> CopyOf(m) <= passed
        BY <2>1, <1>t DEF ByValInv
      <4>4. \A m, o \in 1..n : m < o => CopyOf(m) < CopyOf(o)
        BY <1>t DEF ByValInv
      <4> HIDE DEF CopyOf
      <4> SUFFICES ASSUME NEW m \in 1..n PROVE m <= byvalArgIdx + 1 <=> CopyOf(m) <= k
        BY <4>1
      <4>5. CASE m <= byvalArgIdx BY <4>3, <4>5, <2>4, <1>c
      <4>6. CASE m = byvalArgIdx + 1 BY <4>2, <4>6, <2>4, <1>c
      <4>7. CASE m > byvalArgIdx + 1
        <5>1. CopyOf(m) > k BY <4>2, <4>4, <4>7, <2>4, <1>c
        <5> QED BY <5>1, <4>7, <2>4, <1>c
      <4> QED BY <4>5, <4>6, <4>7, <2>4, <1>c
    <3>2. CASE ~call.args[k].byval
      <4>1. byvalArgIdx' = byvalArgIdx BY <1>4, <1>c, <3>2 DEF PassArgument
      <4>2. \A m \in 1..n : CopyOf(m) # k BY <3>2, <1>t DEF ByValInv
      <4>3. \A m \in 1..n : m <= byvalArgIdx <=> CopyOf(m) <= passed
        BY <2>1, <1>t DEF ByValInv
      <4> HIDE DEF CopyOf
      <4> QED BY <4>1, <4>2, <4>3, <2>4, <1>c
    <3> QED BY <3>1, <3>2
  <2> HIDE DEF CopyOf, NumArgs
  <2> QED BY <2>1, <2>2, <2>3, <2>4, <2>5, <1>t, <1>c DEF ByValInv
<1>5. CASE EmitCall
  <2>1. /\ passed = NumArgs /\ pc = "pass" /\ pc' = "formals"
        /\ UNCHANGED <<call, passed, ByValArgs, byvalArgIdx, outCC>>
    BY <1>5 DEF EmitCall, NumArgs, callerVars
  <2>2. \A m : CopyOf(m)' = CopyOf(m) BY <2>1 DEF CopyOf
  <2>3. NumArgs' = NumArgs BY <2>1 DEF NumArgs
  <2> HIDE DEF CopyOf, NumArgs
  <2> QED BY <2>1, <2>2, <2>3, <1>t, <1>c DEF ByValInv
<1>6. CASE ~AnalyzeOperand /\ ~CopyByVal /\ ~StartCall /\ ~PassArgument /\ ~EmitCall
  <2>1. /\ UNCHANGED <<call, passed, ByValArgs, byvalArgIdx, outCC>>
        /\ \/ pc' = pc
           \/ pc \notin {"operands", "pass"} /\ pc' \notin {"operands", "pass"}
    BY <1>6 DEF Next, vars, callerVars, AnalyzeFormal, FormalsAnalyzed, LoadParam,
       EnterBody, VAArg, StartReturn, ReturnValue, EmitReturn, ResultValue, EndCall
  <2>2. \A m : CopyOf(m)' = CopyOf(m) BY <2>1 DEF CopyOf
  <2>3. NumArgs' = NumArgs BY <2>1 DEF NumArgs
  <2> HIDE DEF CopyOf, NumArgs
  <2> QED BY <2>1, <2>2, <2>3, <1>t DEF ByValInv
<1> QED BY <1>1, <1>2, <1>3, <1>4, <1>5, <1>6

-----------------------------------------------------------------------------
(* Two arguments of the call share no location. *)
LEMMA OutLocsDisjoint ==
  ASSUME TypeOK, OutWalk, pc # "operands",
         NEW j \in 1..NumArgs, NEW k \in 1..NumArgs, j < k
  PROVE  /\ OutLoc(j)[1] = "mem" /\ OutLoc(k)[1] = "mem" =>
              OutLoc(j)[2] + Size(ArgType(j)) <= OutLoc(k)[2]
         /\ OutLoc(j)[1] # "mem" /\ OutLoc(k)[1] # "mem" => OutLoc(j) # OutLoc(k)
<1>1. NumArgs \in Nat /\ call.isVarArg \in BOOLEAN BY CallFacts DEF TypeOK
<1>2. Len(outCC) = NumArgs + 1 BY DEF OutWalk
<1>3. Le(Assign(outCC[j], ArgType(j), call.isVarArg), outCC[k])
  BY <1>1, <1>2 DEF OutWalk
<1>4. j <= Len(outCC) /\ k <= Len(outCC) BY <1>1, <1>2
<1>5. /\ outCC[j] \in CCStates /\ ArgType(j) \in Types
      /\ outCC[k] \in CCStates /\ ArgType(k) \in Types
  BY <1>4, OutLocFacts
<1>6. /\ OutLoc(j)[1] = "mem" <=> ~InReg(outCC[j], ArgType(j), call.isVarArg)
      /\ OutLoc(k)[1] = "mem" <=> ~InReg(outCC[k], ArgType(k), call.isVarArg)
  BY <1>4, OutLocFacts
<1> QED BY <1>1, <1>3, <1>5, <1>6, LocationsDisjoint DEF OutLoc

(* A load of argument k's slot yields argument k. *)
LEMMA LoadSlot ==
  ASSUME TypeOK, OutWalk, ByValInv, PassedInv, pc \notin {"operands", "pass"},
         NEW k \in 1..NumArgs, OutLoc(k)[1] = "mem"
  PROVE  Load(mem, StackBase - ArgsSize + OutLoc(k)[2], Size(ArgType(k))) = Sent(k)
<1> DEFINE a == StackBase - ArgsSize + OutLoc(k)[2]
           s == Size(ArgType(k))
<1>1. NumArgs \in Nat /\ passed = NumArgs BY CallFacts DEF TypeOK, ByValInv
<1>2. SlotOf(k) \in mem BY <1>1 DEF PassedInv
<1>3. SlotOf(k).addr = a /\ SlotOf(k).size = s /\ SlotOf(k).val = Sent(k)
  BY DEF SlotOf
<1>4. ASSUME NEW w \in mem, w.addr = a, w.size = s PROVE w = SlotOf(k)
  <2>1. PICK j \in 1..NumArgs : OutLoc(j)[1] = "mem" /\ w = SlotOf(j)
    BY <1>1 DEF PassedInv
  <2>2. j <= Len(outCC) /\ k <= Len(outCC) BY <1>1 DEF OutWalk
  <2>3. OutLoc(j)[2] \in Nat /\ OutLoc(k)[2] \in Nat
        /\ ArgType(j) \in Types /\ ArgType(k) \in Types
    BY <2>1, <2>2, OutLocFacts
  <2>4. Size(ArgType(j)) \in Nat /\ Size(ArgType(j)) > 0 /\ s \in Nat /\ s > 0
    BY <2>3, SizePositive
  <2>5. ArgsSize \in Nat /\ StackBase \in Int BY ArgsSizeFacts, StackBaseAssumption
  <2>6. OutLoc(j)[2] = OutLoc(k)[2] BY <1>4, <2>1, <2>3, <2>5 DEF SlotOf
  <2>7. ~(j < k) BY <2>1, <2>3, <2>4, <2>6, OutLocsDisjoint
  <2>8. ~(k < j) BY <2>1, <2>3, <2>4, <2>6, OutLocsDisjoint
  <2>9. j = k BY <1>1, <2>7, <2>8
  <2> QED BY <2>1, <2>9
<1> HIDE DEF a, s, SlotOf
<1>5. (CHOOSE w \in mem : w.addr = a /\ w.size = s) = SlotOf(k)
  BY <1>2, <1>3, <1>4
<1> QED BY <1>2, <1>3, <1>5 DEF Load, a, s

(* What LowerCall passes for argument k. *)
LEMMA OutValSent ==
  ASSUME TypeOK, ByValInv, pc = "pass", passed < NumArgs
  PROVE  OutVal(passed + 1) = Sent(passed + 1)
<1>1. CASE call.args[passed + 1].byval
  <2>1. /\ byvalArgIdx + 1 \in 1..Len(ByValArgs)
        /\ CopyOf(byvalArgIdx + 1) = passed + 1
    BY <1>1, NextByVal
  <2>2. ByValArgs[byvalArgIdx + 1] = Val("copy", CopyOf(byvalArgIdx + 1))
    BY <2>1 DEF ByValInv
  <2> QED BY <1>1, <2>1, <2>2 DEF OutVal, Sent
<1>2. CASE ~call.args[passed + 1].byval BY <1>2 DEF OutVal, Sent
<1> QED BY <1>1, <1>2

LEMMA SlotsKept ==
  ASSUME call' = call, outCC' = outCC
  PROVE  /\ ArgsSize' = ArgsSize
         /\ \A k : /\ OutLoc(k)' = OutLoc(k) /\ SlotOf(k)' = SlotOf(k)
                   /\ Sent(k)' = Sent(k)
BY DEF ArgsSize, At, OutLoc, SlotOf, Sent, ArgType

LEMMA StepPassedInv == IInv /\ [Next]_vars => PassedInv'
<1> SUFFICES ASSUME IInv, [Next]_vars PROVE PassedInv' OBVIOUS
<1>t. TypeOK /\ OutWalk /\ SPInv /\ ByValInv /\ PassedInv BY DEF IInv
<1>c. NumArgs \in Nat /\ passed \in Nat BY <1>t, CallFacts DEF TypeOK
<1>1. CASE AnalyzeOperand \/ CopyByVal
  BY <1>1, <1>t DEF AnalyzeOperand, CopyByVal, PassedInv
<1>2. CASE StartCall
  <2>1. mem' = {} /\ passed' = 0 /\ pc' = "pass"
    BY <1>2, <1>t DEF StartCall, PassedInv
  <2> QED BY <2>1 DEF PassedInv
<1>3. CASE PassArgument
  <2> DEFINE k == passed + 1
  <2>1. /\ k \in 1..NumArgs /\ k <= Len(outCC) /\ pc = "pass" /\ pc' = "pass"
        /\ passed' = k /\ call' = call /\ outCC' = outCC
    BY <1>3, <1>t, <1>c DEF PassArgument, NumArgs, OutWalk
  <2>2. OutVal(k) = Sent(k) BY <2>1, <1>t, <1>c, OutValSent
  <2>3. /\ \A j : OutLoc(j)' = OutLoc(j)
        /\ \A j : SlotOf(j)' = SlotOf(j)
        /\ \A j : Sent(j)' = Sent(j)
    BY <2>1, SlotsKept
  <2>4. \A j \in 1..k : j = k \/ j \in 1..passed BY <1>c
  <2>5. CASE OutLoc(k)[1] = "mem"
    <3>1. sp + OutLoc(k)[2] = SlotOf(k).addr BY <2>1, <1>t DEF SPInv, SlotOf
    <3>2. /\ mem' = Store(mem, SlotOf(k).addr, Size(ArgType(k)), Sent(k))
          /\ RegsToPass' = RegsToPass
      BY <1>3, <2>2, <2>5, <3>1 DEF PassArgument
    <3>3. mem' = {w \in mem : \/ w.addr + w.size <= SlotOf(k).addr
                              \/ SlotOf(k).addr + Size(ArgType(k)) <= w.addr}
                   \cup {SlotOf(k)}
      BY <3>2 DEF Store, SlotOf
    <3>4. \A j \in 1..passed : OutLoc(j)[1] = "mem" =>
            SlotOf(j).addr + SlotOf(j).size <= SlotOf(k).addr
      <4> SUFFICES ASSUME NEW j \in 1..passed, OutLoc(j)[1] = "mem"
                   PROVE  SlotOf(j).addr + SlotOf(j).size <= SlotOf(k).addr
        OBVIOUS
      <4>1. j \in 1..NumArgs /\ j < k /\ j <= Len(outCC) BY <2>1, <1>c
      <4>2. OutLoc(j)[2] + Size(ArgType(j)) <= OutLoc(k)[2]
        BY <2>1, <2>5, <4>1, <1>t, OutLocsDisjoint
      <4>3. OutLoc(j)[2] \in Nat /\ OutLoc(k)[2] \in Nat /\ ArgType(j) \in Types
        BY <2>1, <2>5, <4>1, <1>t, OutLocFacts
      <4>4. ArgsSize \in Nat /\ StackBase \in Int /\ Size(ArgType(j)) \in Nat
        BY <4>3, <1>t, ArgsSizeFacts, StackBaseAssumption, SizePositive
      <4> QED BY <4>2, <4>3, <4>4 DEF SlotOf
    <3>5. \A w \in mem' : \E j \in 1..k : OutLoc(j)[1] = "mem" /\ w = SlotOf(j)
      <4> TAKE w \in mem'
      <4>1. CASE w \in mem
        <5>1. PICK j \in 1..passed : OutLoc(j)[1] = "mem" /\ w = SlotOf(j)
          BY <4>1, <2>1, <1>t DEF PassedInv
        <5> QED BY <5>1, <1>c
      <4>2. CASE w = SlotOf(k) BY <4>2, <2>1, <2>5
      <4> HIDE DEF SlotOf
      <4> QED BY <3>3, <4>1, <4>2
    <3>6. \A j \in 1..k :
            IF OutLoc(j)[1] = "mem" THEN SlotOf(j) \in mem'
            ELSE OutLoc(j) \in Regs /\ RegsToPass'[OutLoc(j)] = Sent(j)
      <4> TAKE j \in 1..k
      <4>1. CASE j = k BY <4>1, <2>5, <3>3
      <4>2. CASE j \in 1..passed /\ OutLoc(j)[1] = "mem"
        <5>1. SlotOf(j) \in mem BY <4>2, <2>1, <1>t DEF PassedInv
        <5> HIDE DEF SlotOf
        <5> QED BY <5>1, <4>2, <3>3, <3>4
      <4>3. CASE j \in 1..passed /\ OutLoc(j)[1] # "mem"
        BY <4>3, <2>1, <3>2, <1>t DEF PassedInv
      <4> QED BY <2>4, <4>1, <4>2, <4>3
    <3> HIDE DEF SlotOf
    <3> QED BY <2>1, <2>3, <3>5, <3>6 DEF PassedInv
  <2>6. CASE OutLoc(k)[1] # "mem"
    <3>1. mem' = mem /\ RegsToPass' = [RegsToPass EXCEPT ![OutLoc(k)] = Sent(k)]
      BY <1>3, <2>2, <2>6 DEF PassArgument
    <3>2. OutLoc(k) \in Regs BY <2>1, <2>6, <1>t, OutLocFacts
    <3>3. RegsToPass \in [Regs -> Vals] BY <1>t DEF TypeOK
    <3>4. \A j \in 1..k :
            IF OutLoc(j)[1] = "mem" THEN SlotOf(j) \in mem'
            ELSE OutLoc(j) \in Regs /\ RegsToPass'[OutLoc(j)] = Sent(j)
      <4> TAKE j \in 1..k
      <4>1. CASE j = k BY <4>1, <2>6, <3>1, <3>2, <3>3
      <4>2. CASE j \in 1..passed /\ OutLoc(j)[1] = "mem"
        BY <4>2, <2>1, <3>1, <1>t DEF PassedInv
      <4>3. CASE j \in 1..passed /\ OutLoc(j)[1] # "mem"
        <5>1. OutLoc(j) \in Regs /\ RegsToPass[OutLoc(j)] = Sent(j)
          BY <4>3, <2>1, <1>t DEF PassedInv
        <5>2. j \in 1..NumArgs /\ j < k BY <4>3, <2>1, <1>c
        <5>3. OutLoc(j) # OutLoc(k) BY <4>3, <5>2, <2>1, <2>6, <1>t, OutLocsDisjoint
        <5> QED BY <4>3, <5>1, <5>3, <3>1, <3>2, <3>3
      <4> QED BY <2>4, <4>1, <4>2, <4>3
    <3>5. \A w \in mem' : \E j \in 1..k : OutLoc(j)[1] = "mem" /\ w = SlotOf(j)
      <4> TAKE w \in mem'
      <4>1. PICK j \in 1..passed : OutLoc(j)[1] = "mem" /\ w = SlotOf(j)
        BY <3>1, <2>1, <1>t DEF PassedInv
      <4> QED BY <4>1, <1>c
    <3> HIDE DEF SlotOf
    <3> QED BY <2>1, <2>3, <3>4, <3>5 DEF PassedInv
  <2> QED BY <2>5, <2>6
<1>4. CASE ~AnalyzeOperand /\ ~CopyByVal /\ ~StartCall /\ ~PassArgument
  <2>1. /\ UNCHANGED <<call, outCC, mem, passed, RegsToPass>>
        /\ pc' = "operands" <=> pc = "operands"
        /\ pc' \in {"formals", "params"} =>
             \/ regs' = RegsToPass'
             \/ regs' = regs /\ pc \in {"formals", "params"}
    BY <1>4 DEF Next, vars, callerVars, EmitCall, AnalyzeFormal, FormalsAnalyzed,
       LoadParam, EnterBody, VAArg, StartReturn, ReturnValue, EmitReturn,
       ResultValue, EndCall
  <2>2. /\ \A j : OutLoc(j)' = OutLoc(j)
        /\ \A j : SlotOf(j)' = SlotOf(j)
        /\ \A j : Sent(j)' = Sent(j)
    BY <2>1, SlotsKept
  <2> HIDE DEF SlotOf
  <2> QED BY <2>1, <2>2, <1>t DEF PassedInv
<1> QED BY <1>1, <1>2, <1>3, <1>4

LEMMA StepInWalk == IInv /\ [Next]_vars => InWalk'
<1> SUFFICES ASSUME IInv, [Next]_vars PROVE InWalk' OBVIOUS
<1>t. TypeOK /\ OutWalk /\ InWalk BY DEF IInv
<1>c. NumArgs \in Nat /\ call.named \in 0..NumArgs BY <1>t, CallFacts DEF TypeOK
<1>1. CASE AnalyzeOperand
  <2>1. /\ Len(inCC) = 1 /\ inCC' = inCC /\ call' = call /\ pc' = pc
        /\ pc = "operands"
    BY <1>1, <1>t DEF AnalyzeOperand, InWalk, calleeVars
  <2>2. Len(outCC) \in 1..NumArgs
    BY <1>1, <1>t, <1>c DEF AnalyzeOperand, OutWalk, NumArgs
  <2>3. At(outCC) \in CCStates BY <1>t, ArgsSizeFacts
  <2>4. Assign(At(outCC), ArgType(Len(outCC)), call.isVarArg) \in CCStates
    BY <2>2, <2>3, <1>t, CallFacts, AssignGrows DEF TypeOK
  <2>5. outCC'[1] = outCC[1] BY <1>1, <2>2, <2>4, <1>t DEF AnalyzeOperand, TypeOK
  <2>6. inCC'[1] = outCC'[1] BY <2>1, <2>5, <1>t DEF InWalk
  <2>7. \A k \in 1..Len(inCC') : k = 1 BY <2>1
  <2>8. Len(inCC') \in 1..call'.named + 1 BY <2>1, <1>t DEF InWalk
  <2>9. pc' = "operands" BY <2>1
  <2>10. \A k \in 1..Len(inCC') : inCC'[k] = outCC'[k] BY <2>6, <2>7
  <2>11. Len(inCC') = 1 BY <2>1
  <2> QED BY <2>8, <2>9, <2>10, <2>11 DEF InWalk
<1>2. CASE AnalyzeFormal
  <2> DEFINE n == Len(inCC)
  <2>1. /\ n \in 1..call.named /\ n <= NumArgs /\ pc = "formals"
        /\ UNCHANGED <<call, pc, outCC>>
        /\ inCC' = Append(inCC, Assign(At(inCC), ArgType(n), call.isVarArg))
    BY <1>2, <1>t, <1>c DEF AnalyzeFormal, InWalk, callerVars
  <2>2. At(inCC) = outCC[n] BY <2>1, <1>c, <1>t DEF InWalk, At
  <2>3. n \in 1..NumArgs /\ Len(outCC) = NumArgs + 1
    BY <2>1, <1>c, <1>t DEF OutWalk
  <2>4. outCC[n + 1] = Assign(outCC[n], ArgType(n), call.isVarArg)
    BY <2>3, <1>c, <1>t DEF OutWalk
  <2>5. outCC[n + 1] \in CCStates BY <2>3, <1>c, <1>t DEF TypeOK
  <2>6. /\ Len(inCC') = n + 1 /\ inCC'[n + 1] = outCC[n + 1]
        /\ \A k \in 1..n : inCC'[k] = inCC[k]
    BY <2>1, <2>2, <2>4, <2>5, <1>t DEF TypeOK
  <2>7. \A k \in 1..n + 1 : inCC'[k] = outCC[k]
    <3> TAKE k \in 1..n + 1
    <3>1. CASE k = n + 1 BY <3>1, <2>6
    <3>2. CASE k \in 1..n BY <3>2, <2>6, <1>t DEF InWalk
    <3> QED BY <2>1, <1>c, <3>1, <3>2
  <2> QED BY <2>1, <2>6, <2>7, <1>c DEF InWalk
<1>3. CASE FormalsAnalyzed
  <2>1. Len(inCC) = call.named + 1 BY <1>3, <1>t, <1>c DEF FormalsAnalyzed, InWalk
  <2> QED BY <1>3, <2>1, <1>t DEF FormalsAnalyzed, InWalk, callerVars, calleeVars
<1>4. CASE ~AnalyzeOperand /\ ~AnalyzeFormal /\ ~FormalsAnalyzed
  <2>1. /\ UNCHANGED <<call, outCC, inCC>>
        /\ pc' \in {"operands", "pass"} => pc \in {"operands", "pass"}
        /\ pc' \notin {"operands", "pass", "formals"} =>
             pc \notin {"operands", "pass", "formals"}
    BY <1>4 DEF Next, vars, callerVars, calleeVars, CopyByVal, StartCall,
       PassArgument, EmitCall, LoadParam, EnterBody, VAArg, StartReturn,
       ReturnValue, EmitReturn, ResultValue, EndCall
  <2> QED BY <2>1, <1>t DEF InWalk
<1> QED BY <1>1, <1>2, <1>3, <1>4

(* The arguments of a variadic call follow one another on the stack. *)
LEMMA NextOffset ==
  ASSUME TypeOK, OutWalk, pc # "operands", call.isVarArg, NEW k \in 1..NumArgs
  PROVE  /\ OutLoc(k)[1] = "mem" /\ OutLoc(k)[2] \in Nat
         /\ outCC[k + 1].StackOffset = OutLoc(k)[2] + Size(ArgType(k))
         /\ outCC[k].StackOffset \in Nat
         /\ OutLoc(k)[2] = alignTo(outCC[k].StackOffset, Size(ArgType(k)))
         /\ ArgType(k) \in Types
<1>1. NumArgs \in Nat BY CallFacts DEF TypeOK
<1>2. Len(outCC) = NumArgs + 1 /\ k <= Len(outCC) BY <1>1 DEF OutWalk
<1>3. outCC[k + 1] = Assign(outCC[k], ArgType(k), call.isVarArg)
  <2>1. k \in 1..Len(outCC) - 1 BY <1>1, <1>2
  <2> QED BY <2>1 DEF OutWalk
<1> QED BY <1>2, <1>3, OutLocFacts DEF CCStates

LEMMA StepParamInv == IInv /\ [Next]_vars => ParamInv'
<1> SUFFICES ASSUME IInv, [Next]_vars PROVE ParamInv' OBVIOUS
<1>t. /\ TypeOK /\ OutWalk /\ SPInv /\ ByValInv /\ PassedInv /\ InWalk /\ ParamInv
  BY DEF IInv
<1>c. NumArgs \in Nat /\ call.named \in 0..NumArgs /\ Len(InVals) \in Nat
  BY <1>t, CallFacts DEF TypeOK
<1>1. CASE AnalyzeOperand
  <2>1. /\ InVals = <<>> /\ UNCHANGED <<call, pc, InVals, ParamEndOffset>>
    BY <1>1, <1>t DEF AnalyzeOperand, ParamInv, calleeVars
  <2>2. Len(outCC) \in 1..NumArgs
    BY <1>1, <1>t, <1>c DEF AnalyzeOperand, OutWalk, NumArgs
  <2>3. At(outCC) \in CCStates BY <1>t, ArgsSizeFacts
  <2>4. Assign(At(outCC), ArgType(Len(outCC)), call.isVarArg) \in CCStates
    BY <2>2, <2>3, <1>t, CallFacts, AssignGrows DEF TypeOK
  <2>5. outCC'[1] = outCC[1] BY <1>1, <2>2, <2>4, <1>t DEF AnalyzeOperand, TypeOK
  <2> QED BY <2>1, <2>5, <1>t DEF ParamInv, ArgumentsArrive
<1>2. CASE LoadParam
  <2> DEFINE k == Len(InVals) + 1
  <2>1. /\ k \in 1..call.named /\ k \in 1..NumArgs /\ k <= Len(outCC)
        /\ InLoc(k) = OutLoc(k) /\ pc = "params" /\ pc' = pc
        /\ call' = call /\ outCC' = outCC
    <3>1. /\ Len(InVals) < call.named /\ pc = "params" /\ pc' = pc
          /\ call' = call /\ outCC' = outCC
      BY <1>2 DEF LoadParam, callerVars
    <3>2. k \in 1..NumArgs /\ k <= Len(outCC) /\ InLoc(k) = OutLoc(k)
      BY <3>1, <1>t, ParamLocs
    <3> QED BY <3>1, <3>2, <1>c
  <2>2. passed = NumArgs BY <2>1, <1>t DEF ByValInv
  <2>3. /\ InVals' = Append(InVals, Sent(k))
        /\ call.isVarArg => ParamEndOffset' = outCC[k + 1].StackOffset
    <3>1. CASE OutLoc(k)[1] = "mem"
      <4>1. sp = StackBase - ArgsSize BY <2>1, <1>t DEF SPInv
      <4>2. Load(mem, sp + OutLoc(k)[2], Size(ArgType(k))) = Sent(k)
        BY <2>1, <3>1, <4>1, <1>t, LoadSlot
      <4>3. /\ InVals' = Append(InVals, Sent(k))
            /\ ParamEndOffset' = OutLoc(k)[2] + Size(ArgType(k))
        BY <1>2, <2>1, <3>1, <4>2 DEF LoadParam
      <4> QED BY <4>3, <2>1, <1>t, NextOffset
    <3>2. CASE OutLoc(k)[1] # "mem"
      <4>1. InVals' = Append(InVals, regs[OutLoc(k)])
        BY <1>2, <2>1, <3>2 DEF LoadParam
      <4>2. regs[OutLoc(k)] = Sent(k) BY <2>1, <2>2, <3>2, <1>t DEF PassedInv
      <4>3. ~call.isVarArg BY <3>2, <2>1, <1>t, OutLocFacts
      <4> QED BY <4>1, <4>2, <4>3
    <3> QED BY <3>1, <3>2
  <2>4. Sent(k) \in Vals BY <2>1, ValFacts DEF Sent
  <2>5. /\ Len(InVals') = k /\ InVals'[k] = Sent(k)
        /\ \A j \in 1..Len(InVals) : InVals'[j] = InVals[j]
    BY <2>3, <2>4, <1>t DEF TypeOK
  <2>6. \A j \in 1..k : InVals'[j] = Sent(j)
    <3> TAKE j \in 1..k
    <3>1. CASE j = k BY <3>1, <2>5
    <3>2. CASE j \in 1..Len(InVals) BY <3>2, <2>5, <1>t DEF ParamInv, ArgumentsArrive
    <3> QED BY <1>c, <3>1, <3>2
  <2>7. \A j : Sent(j)' = Sent(j) BY <2>1 DEF Sent
  <2>8. ArgumentsArrive' BY <2>5, <2>6, <2>7 DEF ArgumentsArrive
  <2> QED BY <2>1, <2>3, <2>5, <2>8, <1>c DEF ParamInv
<1>3. CASE EnterBody
  <2>1. /\ Len(InVals) = call.named /\ pc' = "body"
        /\ UNCHANGED <<call, outCC, InVals, ParamEndOffset>>
    BY <1>3 DEF EnterBody, callerVars
  <2> QED BY <2>1, <1>t DEF ParamInv, ArgumentsArrive, Sent
<1>4. CASE ~AnalyzeOperand /\ ~LoadParam /\ ~EnterBody
  <2>1. /\ UNCHANGED <<call, outCC, InVals, ParamEndOffset>>
        /\ pc' \in {"operands", "pass", "formals"} =>
             pc \in {"operands", "pass", "formals"}
        /\ pc' \notin {"operands", "pass", "formals", "params"} =>
             pc \notin {"operands", "pass", "formals", "params"}
    BY <1>4 DEF Next, vars, callerVars, calleeVars, CopyByVal, StartCall,
       PassArgument, EmitCall, AnalyzeFormal, FormalsAnalyzed, VAArg, StartReturn,
       ReturnValue, EmitReturn, ResultValue, EndCall
  <2> QED BY <2>1, <1>t DEF ParamInv, ArgumentsArrive, Sent
<1> QED BY <1>1, <1>2, <1>3, <1>4

LEMMA StepBodyInv == IInv /\ [Next]_vars => BodyInv'
<1> SUFFICES ASSUME IInv, [Next]_vars PROVE BodyInv' OBVIOUS
<1>t. /\ TypeOK /\ OutWalk /\ SPInv /\ ByValInv /\ PassedInv /\ ParamInv /\ BodyInv
  BY DEF IInv
<1>c. /\ NumArgs \in Nat /\ call.named \in 0..NumArgs /\ Len(vaVals) \in Nat
      /\ call.sret => call.named > 0
  BY <1>t, CallFacts DEF TypeOK
<1>1. CASE EnterBody
  <2>1. /\ pc = "params" /\ pc' = "body" /\ vaVals = <<>> /\ Len(InVals) = call.named
        /\ UNCHANGED <<call, sp, outCC, vaVals>>
        /\ call.sret => SRetReturnReg' = InVals[1]
        /\ call.isVarArg => vaList' = sp + ParamEndOffset
    BY <1>1, <1>t DEF EnterBody, BodyInv, callerVars
  <2>2. call.sret => InVals[1] = Sent(1)
    BY <2>1, <1>c, <1>t DEF ParamInv, ArgumentsArrive
  <2>3. call.isVarArg => ParamEndOffset = outCC[call.named + 1].StackOffset
    BY <2>1, <1>t DEF ParamInv
  <2>4. Sent(1)' = Sent(1) BY <2>1 DEF Sent
  <2>5. NumArgs' = NumArgs BY <2>1 DEF NumArgs
  <2> HIDE DEF NumArgs, Sent
  <2>6. VarArgsArrive' BY <2>1 DEF VarArgsArrive
  <2> HIDE DEF VarArgsArrive
  <2> QED BY <2>1, <2>2, <2>3, <2>4, <2>5, <2>6, <1>c DEF BodyInv
<1>2. CASE VAArg
  <2> DEFINE n == call.named + Len(vaVals) + 1
             t == ArgType(n)
             VAList == alignTo(vaList, getABITypeAlignment(t))
  <2>1. /\ pc = "body" /\ call.isVarArg /\ n \in 1..NumArgs
        /\ UNCHANGED <<call, pc, sp, outCC, SRetReturnReg>>
        /\ vaVals' = Append(vaVals, Load(mem, VAList, Size(t)))
        /\ vaList' = VAList + getTypeAllocSize(t)
    BY <1>2, <1>c DEF VAArg, NumArgs, callerVars
  <2>2. /\ OutLoc(n)[1] = "mem" /\ OutLoc(n)[2] \in Nat
        /\ outCC[n + 1].StackOffset = OutLoc(n)[2] + Size(t)
        /\ outCC[n].StackOffset \in Nat
        /\ OutLoc(n)[2] = alignTo(outCC[n].StackOffset, Size(t))
        /\ t \in Types
    BY <2>1, <1>t, NextOffset
  <2>3. sp = StackBase - ArgsSize /\ sp \in Int /\ sp % 64 = 0
    <3>1. sp = StackBase - ArgsSize BY <2>1, <1>t DEF SPInv
    <3>2. ArgsSize \in Nat /\ ArgsSize % 64 = 0 BY <1>t, ArgsSizeFacts
    <3>3. StackBase \in Int /\ StackBase % 64 = 0
      BY StackBaseAssumption DEF StackAlignment
    <3> HIDE DEF ArgsSize
    <3> QED BY <3>1, <3>2, <3>3
  <2>4. Load(mem, VAList, Size(t)) \in Vals BY <1>t, LoadType DEF TypeOK
  <2>5. /\ Len(vaVals') = Len(vaVals) + 1
        /\ vaVals'[Len(vaVals) + 1] = Load(mem, VAList, Size(t))
        /\ \A j \in 1..Len(vaVals) : vaVals'[j] = vaVals[j]
    <3>1. vaVals \in Seq(Vals) BY <1>t DEF TypeOK
    <3> HIDE DEF VAList, t
    <3> QED BY <2>1, <2>4, <3>1
  <2>6. /\ \A j : Sent(j)' = Sent(j)
        /\ \A j : SameSlots(j)' = SameSlots(j)
    BY <2>1 DEF Sent, SameSlots, ArgType
  <2>7. ASSUME SameSlots(Len(vaVals) + 1)
        PROVE  /\ VAList = sp + OutLoc(n)[2]
               /\ getTypeAllocSize(t) = Size(t)
    <3>1. SameSlot(t)
      <4>1. n = call.named + (Len(vaVals) + 1) /\ Len(vaVals) + 1 \in 1..Len(vaVals) + 1
        BY <1>c
      <4> QED BY <2>7, <4>1 DEF SameSlots
    <3>2. SameSlots(Len(vaVals)) BY <2>7, <1>c DEF SameSlots
    <3>3. vaList = sp + outCC[n].StackOffset BY <2>1, <3>2, <1>t DEF BodyInv
    <3>4. \A b \in Int : b % 64 = 0 =>
            alignTo(b + outCC[n].StackOffset, Size(t)) =
              b + alignTo(outCC[n].StackOffset, Size(t))
      BY <2>2, AlignUp
    <3>5. VAList = alignTo(vaList, Size(t)) /\ getTypeAllocSize(t) = Size(t)
      BY <3>1 DEF SameSlot
    <3> HIDE DEF n, t, VAList
    <3> QED BY <3>3, <3>4, <3>5, <2>2, <2>3
  <2>8. Load(mem, sp + OutLoc(n)[2], Size(t)) = Sent(n)
    BY <2>1, <2>2, <2>3, <1>t, LoadSlot
  <2>9. \A j \in 1..Len(vaVals) + 1 :
          SameSlots(j) => vaVals'[j] = Sent(call.named + j)
    <3> SUFFICES ASSUME NEW j \in 1..Len(vaVals) + 1, SameSlots(j)
                 PROVE  vaVals'[j] = Sent(call.named + j)
      OBVIOUS
    <3>1. CASE j = Len(vaVals) + 1
      <4>1. call.named + j = n BY <3>1, <1>c
      <4>2. VAList = sp + OutLoc(n)[2] BY <3>1, <2>7
      <4> HIDE DEF n, t, VAList
      <4> QED BY <3>1, <4>1, <4>2, <2>5, <2>8
    <3>2. CASE j \in 1..Len(vaVals) BY <3>2, <2>5, <1>t DEF BodyInv, VarArgsArrive
    <3> QED BY <1>c, <3>1, <3>2
  <2>10. VarArgsArrive' BY <2>1, <2>5, <2>6, <2>9 DEF VarArgsArrive
  <2>11. SameSlots(Len(vaVals) + 1) =>
           vaList' = sp + outCC[call.named + (Len(vaVals) + 1) + 1].StackOffset
    <3>1. n + 1 = call.named + (Len(vaVals) + 1) + 1 BY <1>c
    <3>2. Size(t) \in Nat BY <2>2, SizePositive
    <3>3. SameSlots(Len(vaVals) + 1) => vaList' = sp + OutLoc(n)[2] + Size(t)
      BY <2>1, <2>7
    <3> HIDE DEF n, t
    <3>4. SameSlots(Len(vaVals) + 1) => vaList' = sp + outCC[n + 1].StackOffset
      BY <2>2, <2>3, <3>2, <3>3
    <3> QED BY <3>1, <3>4
  <2>12. NumArgs' = NumArgs BY <2>1 DEF NumArgs
  <2>13. Len(vaVals') \in 0..NumArgs - call.named BY <2>1, <2>5, <1>c
  <2> HIDE DEF NumArgs, Sent, SameSlots, VarArgsArrive, n, t, VAList
  <2> QED BY <2>1, <2>5, <2>6, <2>10, <2>11, <2>12, <2>13, <1>t DEF BodyInv
<1>3. CASE AnalyzeOperand
  BY <1>3, <1>t DEF AnalyzeOperand, calleeVars, BodyInv, VarArgsArrive, Sent, NumArgs,
     SameSlots, ArgType
<1>4. CASE ~EnterBody /\ ~VAArg /\ ~AnalyzeOperand
  <2>1. /\ UNCHANGED <<call, outCC, vaVals, vaList, SRetReturnReg>>
        /\ pc' = "body" => pc = "body" /\ sp' = sp
        /\ pc' \in {"operands", "pass", "formals", "params"} =>
             pc \in {"operands", "pass", "formals", "params"}
        /\ pc' \in {"body", "return", "result"} => pc \in {"body", "return", "result"}
    BY <1>4 DEF Next, vars, callerVars, calleeVars, CopyByVal, StartCall,
       PassArgument, EmitCall, AnalyzeFormal, FormalsAnalyzed, LoadParam,
       StartReturn, ReturnValue, EmitReturn, ResultValue, EndCall
  <2>2. /\ \A j : Sent(j)' = Sent(j)
        /\ \A j : SameSlots(j)' = SameSlots(j)
        /\ NumArgs' = NumArgs
    BY <2>1 DEF Sent, NumArgs, SameSlots, ArgType
  <2> HIDE DEF NumArgs, Sent, SameSlots
  <2> QED BY <2>1, <2>2, <1>t DEF BodyInv, VarArgsArrive
<1> QED BY <1>1, <1>2, <1>3, <1>4

LEMMA StepRetWalk == IInv /\ [Next]_vars => RetWalk'
<1> SUFFICES ASSUME IInv, [Next]_vars PROVE RetWalk' OBVIOUS
<1>t. TypeOK /\ RetWalk BY DEF IInv
<1>c. /\ NumArgs \in Nat /\ NumRets \in Nat
      /\ \A k \in 1..NumRets : call.rets[k] \in Types
      /\ call.sret => NumRets = 0
  BY <1>t, CallFacts DEF TypeOK
<1>1. CASE ReturnValue
  <2> DEFINE n == Len(retCC)
             st == retCC[n]
             t == call.rets[n]
  <2>1. /\ n \in 1..NumRets /\ st \in CCStates /\ t \in Types /\ pc = "return"
        /\ pc' = pc /\ call' = call
        /\ Used(st, t) < RetRegs(t)
        /\ regs' = [regs EXCEPT ![RetLoc(st, t)] = Val("ret", n)]
        /\ retCC' = Append(retCC, TakeReg(st, t))
    <3>1. Len(retCC) \in 1..NumRets
      BY <1>1, <1>t, <1>c DEF ReturnValue, RetWalk, NumRets
    <3> QED BY <3>1, <1>1, <1>t, <1>c DEF ReturnValue, TypeOK, At
  <2>2. /\ TakeReg(st, t) \in CCStates /\ Le(st, TakeReg(st, t))
        /\ RetLoc(st, t) \in Regs
    BY <2>1, TakeRegGrows, RetLocFacts
  <2>3. /\ Len(retCC') = n + 1 /\ retCC'[n + 1] = TakeReg(st, t)
        /\ \A k \in 1..n : retCC'[k] = retCC[k] /\ retCC[k] \in CCStates
    BY <2>1, <2>2, <1>t DEF TypeOK
  <2>4. \A k \in 1..n :
          /\ retCC'[k + 1] = TakeReg(retCC[k], call.rets[k])
          /\ Used(retCC[k], call.rets[k]) < RetRegs(call.rets[k])
    <3> TAKE k \in 1..n
    <3>1. CASE k = n BY <3>1, <2>1, <2>3
    <3>2. CASE k \in 1..n - 1
      <4>1. k + 1 \in 1..n BY <3>2, <2>1, <1>c
      <4> QED BY <3>2, <4>1, <2>3, <1>t DEF RetWalk
    <3> QED BY <3>1, <3>2, <2>1, <1>c
  <2>5. \A k \in 1..n - 1 : Le(TakeReg(retCC[k], call.rets[k]), st)
    <3> TAKE k \in 1..n - 1
    <3>1. k \in 1..n /\ n \in 1..n /\ k < n BY <2>1, <1>c
    <3>2. \A i, j \in 1..n : i < j => Le(TakeReg(retCC[i], call.rets[i]), retCC[j])
      BY <1>t DEF RetWalk
    <3> HIDE DEF n
    <3> QED BY <3>1, <3>2
  <2>6. \A j, k \in 1..n + 1 : j < k =>
          Le(TakeReg(retCC'[j], call.rets[j]), retCC'[k])
    <3> TAKE j, k \in 1..n + 1
    <3> HAVE j < k
    <3>1. j \in 1..n /\ j \in 1..NumRets BY <2>1, <1>c
    <3>2. CASE k \in 1..n BY <3>1, <3>2, <2>3, <1>t DEF RetWalk
    <3>3. CASE k = n + 1 /\ j = n
      <4>1. Le(TakeReg(st, t), TakeReg(st, t)) BY <2>2 DEF Le, CCStates
      <4> QED BY <3>3, <4>1, <2>1, <2>3
    <3>4. CASE k = n + 1 /\ j \in 1..n - 1
      <4>1. retCC[j] \in CCStates /\ call.rets[j] \in Types BY <3>1, <2>3, <1>c
      <4>2. TakeReg(retCC[j], call.rets[j]) \in CCStates BY <4>1, TakeRegGrows
      <4>3. Le(TakeReg(retCC[j], call.rets[j]), TakeReg(st, t))
        BY <3>4, <4>2, <2>1, <2>2, <2>5, LeTransitive
      <4> QED BY <3>1, <3>4, <4>3, <2>3
    <3> QED BY <3>1, <3>2, <3>3, <3>4, <2>1, <1>c
  <2>7. \A k \in 1..n : regs'[RetLoc(retCC[k], call.rets[k])] = Val("ret", k)
    <3> TAKE k \in 1..n
    <3>1. CASE k = n BY <3>1, <2>1, <2>2, <1>t DEF TypeOK
    <3>2. CASE k \in 1..n - 1
      <4>1. /\ retCC[k] \in CCStates /\ call.rets[k] \in Types
            /\ Used(retCC[k], call.rets[k]) < RetRegs(call.rets[k])
        BY <3>2, <2>1, <2>3, <2>4, <1>c
      <4>2. /\ RetLoc(retCC[k], call.rets[k]) # RetLoc(st, t)
            /\ RetLoc(retCC[k], call.rets[k]) \in Regs
        BY <3>2, <4>1, <2>1, <2>5, RetLocFacts
      <4>3. regs[RetLoc(retCC[k], call.rets[k])] = Val("ret", k)
        BY <3>2, <2>1, <1>t DEF RetWalk
      <4> QED BY <4>2, <4>3, <2>1, <1>t DEF TypeOK
    <3> QED BY <3>1, <3>2, <2>1, <1>c
  <2>8. NumRets' = NumRets BY <2>1 DEF NumRets
  <2>9. retCC'[1] = NoneUsed BY <2>1, <2>3, <1>t DEF RetWalk
  <2>10. Len(retCC') - 1 = n /\ n + 1 \in 1..NumRets + 1 BY <2>1, <2>3, <1>c
  <2>11. \A k \in 1..n : retCC'[k] = retCC[k] BY <2>3
  <2> HIDE DEF n, st, t, NumRets
  <2> QED BY <2>1, <2>3, <2>4, <2>6, <2>7, <2>8, <2>9, <2>10, <2>11 DEF RetWalk
<1>2. CASE EmitReturn
  <2>1. /\ Len(retCC) = NumRets + 1 /\ pc' = "result" /\ pc = "return"
        /\ UNCHANGED <<call, retCC>>
        /\ call.sret \/ regs' = regs
    BY <1>2, <1>t, <1>c DEF EmitReturn, RetWalk, NumRets, returnVars
  <2>2. \A k \in 1..Len(retCC) - 1 : regs' = regs BY <2>1, <1>c
  <2>3. NumRets' = NumRets BY <2>1 DEF NumRets
  <2> HIDE DEF NumRets
  <2> QED BY <2>1, <2>2, <2>3, <1>t DEF RetWalk
<1>3. CASE StartReturn
  <2>1. Len(retCC) = 1 /\ pc' = "return" /\ UNCHANGED <<call, retCC>>
    BY <1>3, <1>t DEF StartReturn, RetWalk, returnVars
  <2>2. \A k \in 1..Len(retCC) - 1 : FALSE BY <2>1
  <2>3. NumRets' = NumRets BY <2>1 DEF NumRets
  <2> HIDE DEF NumRets
  <2> QED BY <2>1, <2>2, <2>3, <1>t DEF RetWalk
<1>4. CASE ~ReturnValue /\ ~EmitReturn /\ ~StartReturn
  <2>1. /\ UNCHANGED <<call, retCC>>
        /\ pc' \in {"result", "done"} <=> pc \in {"result", "done"}
        /\ pc' = "return" <=> pc = "return"
        /\ pc \in {"return", "result", "done"} => regs' = regs
    BY <1>4 DEF Next, vars, callerVars, calleeVars, returnVars, AnalyzeOperand,
       CopyByVal, StartCall, PassArgument, EmitCall, AnalyzeFormal,
       FormalsAnalyzed, LoadParam, EnterBody, VAArg, ResultValue, EndCall
  <2>2. NumRets' = NumRets BY <2>1 DEF NumRets
  <2> HIDE DEF NumRets
  <2> QED BY <2>1, <2>2, <1>t DEF RetWalk
<1> QED BY <1>1, <1>2, <1>3, <1>4

LEMMA StepResultInv == IInv /\ [Next]_vars => ResultInv'
<1> SUFFICES ASSUME IInv, [Next]_vars PROVE ResultInv' OBVIOUS
<1>t. TypeOK /\ RetWalk /\ ResultInv /\ BodyInv BY DEF IInv
<1>c. /\ NumArgs \in Nat /\ NumRets \in Nat
      /\ \A k \in 1..NumRets : call.rets[k] \in Types
      /\ call.sret => NumRets = 0
  BY <1>t, CallFacts DEF TypeOK
<1>1. CASE ResultValue
  <2> DEFINE n == Len(resCC)
             st == resCC[n]
             t == call.rets[n]
  <2>1. /\ n \in 1..NumRets /\ pc = "result" /\ pc' = pc
        /\ UNCHANGED <<call, regs, retCC>>
        /\ results' = Append(results, regs[RetLoc(st, t)])
        /\ resCC' = Append(resCC, TakeReg(st, t))
        /\ st \in CCStates /\ t \in Types
    <3>1. Len(resCC) \in 1..NumRets
      BY <1>1, <1>t, <1>c DEF ResultValue, ResultInv, NumRets
    <3>2. resCC[Len(resCC)] \in CCStates /\ call.rets[Len(resCC)] \in Types
      BY <3>1, <1>t, <1>c DEF TypeOK
    <3> QED BY <3>1, <3>2, <1>1 DEF ResultValue, At
  <2>2. Len(retCC) = NumRets + 1 /\ n \in 1..Len(retCC) - 1
    BY <2>1, <1>t, <1>c DEF RetWalk
  <2>3. st = retCC[n] BY <2>1, <1>t, <1>c DEF ResultInv
  <2>4. regs[RetLoc(st, t)] = Val("ret", n) BY <2>1, <2>2, <2>3, <1>t DEF RetWalk
  <2>5. retCC[n + 1] = TakeReg(st, t) BY <2>2, <2>3, <1>t DEF RetWalk
  <2>6. TakeReg(st, t) \in CCStates BY <2>1, TakeRegGrows
  <2>7. /\ Len(resCC') = n + 1 /\ resCC'[n + 1] = retCC[n + 1]
        /\ \A k \in 1..n : resCC'[k] = retCC[k]
    BY <2>1, <2>5, <2>6, <1>t DEF TypeOK, ResultInv
  <2>8. Val("ret", n) \in Vals BY <2>1, ValFacts
  <2>9. /\ Len(results) = n - 1 /\ Len(results') = n
        /\ results'[n] = Val("ret", n)
        /\ \A k \in 1..n - 1 : results'[k] = results[k]
    BY <2>1, <2>4, <2>8, <1>t DEF TypeOK, ResultInv
  <2>10. \A k \in 1..n : results'[k] = Val("ret", k)
    <3> TAKE k \in 1..n
    <3>1. CASE k = n BY <3>1, <2>9
    <3>2. CASE k \in 1..n - 1 BY <3>2, <2>9, <1>t DEF ResultInv
    <3>3. k = n \/ k \in 1..n - 1 BY <2>1, <1>c
    <3> QED BY <3>1, <3>2, <3>3
  <2>11. \A k \in 1..n + 1 : resCC'[k] = retCC[k]
    <3> TAKE k \in 1..n + 1
    <3>1. CASE k = n + 1 BY <3>1, <2>7
    <3>2. CASE k \in 1..n BY <3>2, <2>7
    <3> QED BY <3>1, <3>2, <2>1, <1>c
  <2>12. NumRets' = NumRets BY <2>1 DEF NumRets
  <2>13. n + 1 \in 1..NumRets + 1 /\ (n + 1) - 1 = n BY <2>1, <1>c
  <2>14. ~call.sret BY <2>1, <1>c
  <2> HIDE DEF n, st, t, NumRets
  <2> QED BY <2>1, <2>7, <2>9, <2>10, <2>11, <2>12, <2>13, <2>14 DEF ResultInv
<1>2. CASE EmitReturn
  <2>1. /\ pc = "return" /\ pc' = "result" /\ UNCHANGED <<call, retCC, resCC, results>>
        /\ call.sret => regs' = [regs EXCEPT ![<<"S", 0>>] = SRetReturnReg]
    BY <1>2 DEF EmitReturn, returnVars
  <2>2. <<"S", 0>> \in Regs BY RegsAssumption DEF Regs
  <2>3. call.sret => regs'[<<"S", 0>>] = Sent(1)
    BY <2>1, <2>2, <1>t DEF BodyInv, TypeOK
  <2>4. NumRets' = NumRets /\ Sent(1)' = Sent(1) BY <2>1 DEF NumRets, Sent
  <2> HIDE DEF NumRets, Sent
  <2> QED BY <2>1, <2>3, <2>4, <1>t DEF ResultInv
<1>3. CASE ReturnValue
  <2>1. /\ UNCHANGED <<call, resCC, results, pc>> /\ pc = "return"
        /\ retCC' = Append(retCC, TakeReg(At(retCC), call.rets[Len(retCC)]))
    BY <1>3 DEF ReturnValue
  <2>2. Len(retCC) \in 1..NumRets
    BY <1>3, <1>t, <1>c DEF ReturnValue, RetWalk, NumRets
  <2>3. TakeReg(At(retCC), call.rets[Len(retCC)]) \in CCStates
    BY <2>2, <1>t, <1>c, TakeRegGrows DEF At, TypeOK
  <2>4. retCC'[1] = retCC[1] BY <2>1, <2>2, <2>3, <1>t DEF TypeOK
  <2>5. Len(resCC) = 1 BY <2>1, <1>t DEF ResultInv
  <2>6. \A k \in 1..Len(resCC) : k = 1 BY <2>5
  <2>7. NumRets' = NumRets BY <2>1 DEF NumRets
  <2> HIDE DEF NumRets
  <2> QED BY <2>1, <2>4, <2>5, <2>6, <2>7, <1>t DEF ResultInv
<1>4. CASE EndCall
  <2>1. /\ Len(resCC) = NumRets + 1 /\ pc = "result" /\ pc' = "done"
        /\ UNCHANGED <<call, regs, retCC, resCC, results>>
    BY <1>4, <1>t, <1>c DEF EndCall, ResultInv, NumRets, returnVars
  <2>2. NumRets' = NumRets /\ Sent(1)' = Sent(1) BY <2>1 DEF NumRets, Sent
  <2> HIDE DEF NumRets, Sent
  <2> QED BY <2>1, <2>2, <1>t DEF ResultInv
<1>5. CASE ~ResultValue /\ ~EmitReturn /\ ~ReturnValue /\ ~EndCall
  <2>1. /\ UNCHANGED <<call, retCC, resCC, results>>
        /\ pc' = "result" <=> pc = "result"
        /\ pc' = "done" <=> pc = "done"
        /\ pc \in {"result", "done"} => regs' = regs
    BY <1>5 DEF Next, vars, callerVars, calleeVars, returnVars, AnalyzeOperand,
       CopyByVal, StartCall, PassArgument, EmitCall, AnalyzeFormal,
       FormalsAnalyzed, LoadParam, EnterBody, VAArg, StartReturn
  <2>2. NumRets' = NumRets /\ Sent(1)' = Sent(1) BY <2>1 DEF NumRets, Sent
  <2> HIDE DEF NumRets, Sent
  <2> QED BY <2>1, <2>2, <1>t DEF ResultInv
<1> QED BY <1>1, <1>2, <1>3, <1>4, <1>5

-----------------------------------------------------------------------------
(* The inductive invariant holds in every reachable state of every call. *)
THEOREM Invariance == Spec => []IInv
<1>1. Init => IInv BY InitIInv
<1>2. IInv /\ [Next]_vars => IInv'
  BY StepTypeOK, StepOutWalk, StepSPInv, StepByValInv, StepPassedInv, StepInWalk,
     StepParamInv, StepBodyInv, StepRetWalk, StepResultInv DEF IInv
<1> QED BY <1>1, <1>2, PTL DEF Spec

(* The variables of a call keep their types. *)
THEOREM Types_Correct == Spec => []TypeOK
<1>1. IInv => TypeOK BY DEF IInv
<1> QED BY <1>1, Invariance, PTL

(* LowerFormalArguments finds every argument where LowerCall put it. *)
THEOREM Arguments_Correct == Spec => []ArgumentsArrive
<1>1. IInv => ArgumentsArrive BY DEF IInv, ParamInv
<1> QED BY <1>1, Invariance, PTL

(* va_start and va_arg find every unnamed argument of a variadic call, up  *)
(* to the first whose slot the data layout sizes otherwise than CC_Nyuzi32 *)
(* does, as it does a mask's.                                              *)
THEOREM VarArgs_Correct == Spec => []VarArgsArrive
<1>1. IInv => VarArgsArrive BY DEF IInv, BodyInv
<1> QED BY <1>1, Invariance, PTL

(* The stores of LowerCall stay in the area that CALLSEQ_START set apart,  *)
(* and SP stays 64-byte aligned.                                           *)
THEOREM OutgoingArea_Correct == Spec => []OutgoingArea
<1>1. ASSUME IInv PROVE OutgoingArea
  <2>t. TypeOK /\ OutWalk /\ SPInv /\ ByValInv /\ PassedInv BY <1>1 DEF IInv
  <2>a. /\ ArgsSize \in Nat /\ ArgsSize % 64 = 0 /\ At(outCC) \in CCStates
        /\ ArgsSize >= At(outCC).StackOffset
    BY <2>t, ArgsSizeFacts
  <2>b. StackBase \in Int /\ StackBase % 64 = 0 BY StackBaseAssumption DEF StackAlignment
  <2>1. sp % StackAlignment = 0
    <3>1. sp = StackBase \/ sp = StackBase - ArgsSize BY <2>t DEF SPInv, TypeOK
    <3> HIDE DEF ArgsSize
    <3> QED BY <3>1, <2>a, <2>b DEF StackAlignment
  <2>2. ASSUME NEW w \in mem
        PROVE  StackBase - ArgsSize <= w.addr /\ w.addr + w.size <= StackBase
    <3>1. pc # "operands" BY <2>2, <2>t DEF PassedInv
    <3>2. PICK k \in 1..passed : OutLoc(k)[1] = "mem" /\ w = SlotOf(k)
      BY <2>2, <3>1, <2>t DEF PassedInv
    <3>3. NumArgs \in Nat BY <2>t, CallFacts DEF TypeOK
    <3>4. k \in 1..NumArgs /\ Len(outCC) = NumArgs + 1 /\ k <= Len(outCC)
      BY <3>1, <3>3, <2>t DEF ByValInv, OutWalk
    <3>5. /\ outCC[k] \in CCStates /\ ArgType(k) \in Types /\ OutLoc(k)[2] \in Nat
          /\ OutLoc(k)[2] + Size(ArgType(k)) =
               Assign(outCC[k], ArgType(k), call.isVarArg).StackOffset
      BY <3>2, <3>4, <2>t, OutLocFacts
    <3>6. Le(Assign(outCC[k], ArgType(k), call.isVarArg), At(outCC))
      BY <3>3, <3>4, <2>t DEF OutWalk, At
    <3>7. OutLoc(k)[2] + Size(ArgType(k)) <= At(outCC).StackOffset
      BY <3>5, <3>6 DEF Le
    <3>8. /\ w.addr = StackBase - ArgsSize + OutLoc(k)[2]
          /\ w.size = Size(ArgType(k)) /\ Size(ArgType(k)) \in Nat
      BY <3>2, <3>5, SizePositive DEF SlotOf
    <3>9. At(outCC).StackOffset \in Nat BY <2>a DEF CCStates
    <3> HIDE DEF ArgsSize
    <3> QED BY <3>5, <3>7, <3>8, <3>9, <2>a, <2>b
  <2> QED BY <2>1, <2>2 DEF OutgoingArea
<1> QED BY <1>1, Invariance, PTL

(* LowerCall reads back every result, and the sret address, that           *)
(* LowerReturn left, and restores SP.                                      *)
THEOREM Results_Correct == Spec => []ResultsArrive
<1>1. ASSUME IInv, pc = "done"
      PROVE  /\ results = [k \in 1..Len(call.rets) |-> Val("ret", k)]
             /\ call.sret => regs[<<"S", 0>>] = Sent(1)
             /\ sp = StackBase
  <2>t. TypeOK /\ SPInv /\ ResultInv BY <1>1 DEF IInv
  <2>1. NumRets \in Nat BY <2>t, CallFacts DEF TypeOK
  <2>2. Len(results) = NumRets BY <1>1, <2>1, <2>t DEF ResultInv
  <2>3. results \in [1..NumRets -> Vals] BY <2>2, <2>t DEF TypeOK
  <2>4. results = [k \in 1..NumRets |-> Val("ret", k)]
    BY <2>2, <2>3, <2>t DEF ResultInv
  <2> QED BY <1>1, <2>4, <2>t DEF ResultInv, SPInv, NumRets
<1>2. IInv => ResultsArrive BY <1>1 DEF ResultsArrive
<1> QED BY <1>2, Invariance, PTL
=============================================================================
