------------------------------ MODULE SPMDMask ------------------------------
(***************************************************************************)
(* The predication of spmd-compile: SPMDBuilder.cpp keeps a stack of lane  *)
(* masks while AstNode.cpp walks a function, and the code it emits runs    *)
(* one scalar program in every vector lane, with the lanes that are off a  *)
(* control path masked out of every assignment.                            *)
(*                                                                         *)
(* The module runs the emitted code of an arbitrary structured function:   *)
(* each action is one statement (or one edge of an `if` or a loop), chosen *)
(* as the run goes.  Expressions are functions of the lane's variables and *)
(* conditions predicates of them.  The mask stack, which the builder keeps *)
(* at compile time, holds the run-time values of its SSA values; the one   *)
(* value that outlives a block is the ActiveLanes that a loop's top was    *)
(* emitted with, which every iteration uses again (variable Outer).        *)
(*                                                                         *)
(* Beside it runs the reference: every lane on its own, as the scalar      *)
(* program that it is an instance of (variables sEnv, sResult, entered,    *)
(* otherwise).                                                             *)
(***************************************************************************)
EXTENDS Integers

CONSTANTS
  Lanes,         \* 16 in the hardware
  Values,        \* the values of a lane's local variables
  Exprs,         \* the assignments and results: functions of those values
  Inputs,        \* the values on entry
  Conds,         \* the conditions: the sets of values that satisfy them
  MaxDepth,      \* bound: how deep ifs and loops nest
  ReturnInLoops, \* whether the function has a return inside a loop
  NoValue        \* an uninitialised result

ASSUME ExprsAssumption == Exprs \subseteq [Values -> Values]
ASSUME InputsAssumption == Inputs \subseteq Values
ASSUME CondsAssumption == Conds \subseteq SUBSET Values
ASSUME MaxDepthAssumption == MaxDepth \in Nat
ASSUME ReturnInLoopsAssumption == ReturnInLoops \in BOOLEAN
ASSUME NoValueAssumption == NoValue \notin Values

VARIABLES
  depth,        \* MaskStack.size()
  ThisMask,     \* field ThisMask of the entries of MaskStack
  CombinedMask, \* field CombinedMask of the entries of MaskStack
  ActiveLanes,  \* the current mask (all lanes for nullptr)
  ReturnMask,   \* return_mask: the lanes that have not returned
  kind,         \* the blocks that the entries of MaskStack belong to
  Outer,        \* the ActiveLanes that a loop's top was emitted with
  loopCond,     \* the loop's condition
  skipped,      \* shortCircuitZeroMask branched over the block
  env,          \* the local variables of each lane
  returnValue,  \* return_value
  done,         \* the vector function has returned
  sEnv,         \* reference: the variables of each scalar instance
  sResult,      \* reference: what it returned
  entered,      \* reference: who executes each enclosing block
  otherwise     \* reference: who executes its else block

blocks == <<kind, Outer, loopCond>>
machine == <<depth, ThisMask, CombinedMask, ActiveLanes, ReturnMask, blocks,
             skipped, env, returnValue, done>>
reference == <<sEnv, sResult, entered, otherwise>>
vars == <<machine, reference>>

Levels == 1 .. MaxDepth
BlockKinds == {"none", "then", "thenelse", "else", "loop"}

(* The masks are sets of lanes at every level of nesting; a result is a    *)
(* value or still undefined.                                               *)
TypeOK ==
  /\ depth \in 0 .. MaxDepth
  /\ ThisMask \in [Levels -> SUBSET Lanes]
  /\ CombinedMask \in [Levels -> SUBSET Lanes]
  /\ ActiveLanes \in SUBSET Lanes
  /\ ReturnMask \in SUBSET Lanes
  /\ kind \in [Levels -> BlockKinds]
  /\ Outer \in [Levels -> SUBSET Lanes]
  /\ loopCond \in [Levels -> SUBSET Values]
  /\ skipped \in BOOLEAN
  /\ env \in [Lanes -> Values]
  /\ returnValue \in [Lanes -> Values \cup {NoValue}]
  /\ done \in BOOLEAN
  /\ sEnv \in [Lanes -> Values]
  /\ sResult \in [Lanes -> Values \cup {NoValue}]
  /\ entered \in [Levels -> SUBSET Lanes]
  /\ otherwise \in [Levels -> SUBSET Lanes]

Init ==
  /\ depth = 0
  /\ ThisMask = [d \in Levels |-> {}]
  /\ CombinedMask = [d \in Levels |-> {}]
  /\ ActiveLanes = Lanes
  /\ ReturnMask = Lanes
  /\ kind = [d \in Levels |-> "none"]
  /\ Outer = [d \in Levels |-> {}]
  /\ loopCond = [d \in Levels |-> {}]
  /\ skipped = FALSE
  /\ env \in [Lanes -> Inputs]
  /\ returnValue = [l \in Lanes |-> NoValue]
  /\ done = FALSE
  /\ sEnv = env
  /\ sResult = [l \in Lanes |-> NoValue]
  /\ entered = [d \in Levels |-> {}]
  /\ otherwise = [d \in Levels |-> {}]

-----------------------------------------------------------------------------
(* The reference: the scalar instances that execute the current block.     *)
Returned == {l \in Lanes : sResult[l] # NoValue}
EnteredAt(d) == IF d = 0 THEN Lanes ELSE entered[d]
ScalarLive == EnteredAt(depth) \ Returned

(* The lanes on which a condition holds, evaluated on all of them. *)
Holds(e, c) == {l \in Lanes : e[l] \in c}

-----------------------------------------------------------------------------
(* SPMDBuilder's operations, as changes of the mask state. *)

(* assignLocalVariable: the lanes of ActiveLanes get the new values. *)
assignLocalVariable(var, new) ==
  [l \in Lanes |-> IF l \in ActiveLanes THEN new[l] ELSE var[l]]

(* pushMask *)
pushMask(MaskValue) ==
  LET NewCombinedMask == MaskValue \cap ActiveLanes IN
  /\ depth < MaxDepth
  /\ depth' = depth + 1
  /\ ThisMask' = [ThisMask EXCEPT ![depth + 1] = MaskValue]
  /\ CombinedMask' = [CombinedMask EXCEPT ![depth + 1] = NewCombinedMask]
  /\ ActiveLanes' = NewCombinedMask

(* Mutant: the outer mask is restored as it was, with lanes that returned. *)
popMaskForgetsReturns ==
  /\ depth > 0
  /\ depth' = depth - 1
  /\ ThisMask' = [ThisMask EXCEPT ![depth] = {}]
  /\ CombinedMask' = [CombinedMask EXCEPT ![depth] = {}]
  /\ ActiveLanes' = IF depth = 1 THEN ReturnMask ELSE CombinedMask[depth - 1]

(* Mutant: the mask is popped behind the else block and at EndifBB. *)
popMaskTwice ==
  /\ depth > 0
  /\ depth' = depth - 2
  /\ ThisMask' = [ThisMask EXCEPT ![depth] = {}]
  /\ CombinedMask' = [CombinedMask EXCEPT ![depth] = {}]
  /\ ActiveLanes' = ReturnMask

(* popMask: the outer mask may hold lanes that have returned meanwhile. *)
popMask ==
  /\ depth > 0
  /\ depth' = depth - 1
  /\ ThisMask' = [ThisMask EXCEPT ![depth] = {}]
  /\ IF depth = 1
     THEN /\ ActiveLanes' = ReturnMask
          /\ CombinedMask' = [CombinedMask EXCEPT ![depth] = {}]
     ELSE LET top == CombinedMask[depth - 1] \cap ReturnMask IN
          /\ ActiveLanes' = top
          /\ CombinedMask' = [CombinedMask EXCEPT ![depth] = {}, ![depth - 1] = top]

(* Mutant: the else mask is not limited to the lanes of the outer block. *)
invertWithoutOuter ==
  LET NewMask == Lanes \ ThisMask[depth] IN
  /\ ActiveLanes' = NewMask \cap ReturnMask
  /\ ThisMask' = [ThisMask EXCEPT ![depth] = NewMask]
  /\ CombinedMask' = [CombinedMask EXCEPT ![depth] = NewMask \cap ReturnMask]
  /\ UNCHANGED depth

(* invertLastPushedMask, at the top of an else block. *)
invertLastPushedMask ==
  LET NewMask == Lanes \ ThisMask[depth]
      NewCombined == IF depth = 1 THEN NewMask
                     ELSE NewMask \cap CombinedMask[depth - 1]
      active == NewCombined \cap ReturnMask
  IN  /\ ActiveLanes' = active
      /\ ThisMask' = [ThisMask EXCEPT ![depth] = NewMask]
      /\ CombinedMask' = [CombinedMask EXCEPT ![depth] = active]
      /\ UNCHANGED depth

(* shortCircuitZeroMask: a block that no lane executes is branched over. *)
shortCircuitZeroMask == skipped' = (ActiveLanes' = {})

-----------------------------------------------------------------------------
(* AstNode.cpp: the statements. *)
Running == ~done /\ ~skipped
InBlock(kinds) == depth > 0 /\ kind[depth] \in kinds
PushBlock(k, active, c) ==
  /\ kind' = [kind EXCEPT ![depth + 1] = k]
  /\ Outer' = [Outer EXCEPT ![depth + 1] = active]
  /\ loopCond' = [loopCond EXCEPT ![depth + 1] = c]
PopBlock ==
  /\ kind' = [kind EXCEPT ![depth] = "none"]
  /\ Outer' = [Outer EXCEPT ![depth] = {}]
  /\ loopCond' = [loopCond EXCEPT ![depth] = {}]
PopScalar ==
  /\ entered' = [entered EXCEPT ![depth] = {}]
  /\ otherwise' = [otherwise EXCEPT ![depth] = {}]

(* AssignAst::generate *)
Assign(f) ==
  /\ Running
  /\ env' = assignLocalVariable(env, [l \in Lanes |-> f[env[l]]])
  /\ sEnv' = [l \in Lanes |-> IF l \in ScalarLive THEN f[sEnv[l]] ELSE sEnv[l]]
  /\ UNCHANGED <<depth, ThisMask, CombinedMask, ActiveLanes, ReturnMask, blocks,
                 skipped, returnValue, done, sResult, entered, otherwise>>

(* IfAst::generate, up to the then block. *)
IfTop(c, hasElse) ==
  /\ Running
  /\ pushMask(Holds(env, c))
  /\ shortCircuitZeroMask
  /\ PushBlock(IF hasElse THEN "thenelse" ELSE "then", {}, {})
  /\ entered' = [entered EXCEPT ![depth + 1] = ScalarLive \cap Holds(sEnv, c)]
  /\ otherwise' = [otherwise EXCEPT ![depth + 1] = ScalarLive \ Holds(sEnv, c)]
  /\ UNCHANGED <<ReturnMask, env, returnValue, done, sEnv, sResult>>

(* IfAst::generate, the branch to ElseTopBB. *)
ElseTop ==
  /\ ~done
  /\ InBlock({"thenelse"})
  /\ invertLastPushedMask
  /\ shortCircuitZeroMask
  /\ kind' = [kind EXCEPT ![depth] = "else"]
  /\ entered' = [entered EXCEPT ![depth] = otherwise[depth]]
  /\ otherwise' = [otherwise EXCEPT ![depth] = {}]
  /\ UNCHANGED <<Outer, loopCond, ReturnMask, env, returnValue, done, sEnv, sResult>>

(* IfAst::generate, EndifBB. *)
EndIf ==
  /\ ~done
  /\ InBlock({"then", "else"})
  /\ popMask
  /\ skipped' = FALSE
  /\ PopBlock
  /\ PopScalar
  /\ UNCHANGED <<ReturnMask, env, returnValue, done, sEnv, sResult>>

(* WhileAst::generate and ForAst::generate (its Init is an Assign before), *)
(* the first time through LoopTopBB.  ActiveLanes is the value that the    *)
(* emitted pushMask refers to in every iteration.                          *)
LoopTop(c) ==
  /\ Running
  /\ pushMask(Holds(env, c))
  /\ shortCircuitZeroMask
  /\ PushBlock("loop", ActiveLanes, c)
  /\ entered' = [entered EXCEPT ![depth + 1] = ScalarLive \cap Holds(sEnv, c)]
  /\ otherwise' = [otherwise EXCEPT ![depth + 1] = {}]
  /\ UNCHANGED <<ReturnMask, env, returnValue, done, sEnv, sResult>>

(* Mutant: the branch leads to LoopBodyBB, behind the condition. *)
LoopBackToBody ==
  /\ Running
  /\ InBlock({"loop"})
  /\ entered' = [entered EXCEPT ![depth] =
                   ScalarLive \cap Holds(sEnv, loopCond[depth])]
  /\ UNCHANGED <<machine, sEnv, sResult, otherwise>>

(* The branch from the end of the body (after a for loop's increment, an   *)
(* Assign) back to LoopTopBB.                                              *)
LoopBack ==
  /\ Running
  /\ InBlock({"loop"})
  /\ LET LoopCond == Holds(env, loopCond[depth]) IN
       /\ ThisMask' = [ThisMask EXCEPT ![depth] = LoopCond]
       /\ CombinedMask' = [CombinedMask EXCEPT ![depth] = LoopCond \cap Outer[depth]]
       /\ ActiveLanes' = LoopCond \cap Outer[depth]
  /\ shortCircuitZeroMask
  /\ entered' = [entered EXCEPT ![depth] =
                   ScalarLive \cap Holds(sEnv, loopCond[depth])]
  /\ UNCHANGED <<depth, ReturnMask, blocks, env, returnValue, done, sEnv,
                 sResult, otherwise>>

(* LoopEndBB, reached when no lane is left in the loop. *)
LoopEnd ==
  /\ ~done
  /\ skipped
  /\ InBlock({"loop"})
  /\ popMask
  /\ skipped' = FALSE
  /\ PopBlock
  /\ PopScalar
  /\ UNCHANGED <<ReturnMask, env, returnValue, done, sEnv, sResult>>

(* Mutant: the value is stored after the returning lanes are masked out. *)
createReturnLate(ReturnValue) ==
  LET NewReturnMask == ReturnMask \ ActiveLanes IN
  /\ IF depth = 0 \/ NewReturnMask = {}
     THEN /\ done' = TRUE
          /\ returnValue' = assignLocalVariable(returnValue, ReturnValue)
          /\ UNCHANGED <<CombinedMask, ActiveLanes, ReturnMask>>
     ELSE LET top == CombinedMask[depth] \cap NewReturnMask IN
          /\ ReturnMask' = NewReturnMask
          /\ ActiveLanes' = top
          /\ CombinedMask' = [CombinedMask EXCEPT ![depth] = top]
          /\ returnValue' = [l \in Lanes |-> IF l \in top THEN ReturnValue[l]
                                                        ELSE returnValue[l]]
          /\ UNCHANGED done

(* createReturn: leave at once when nothing is predicated or no lane is    *)
(* left, otherwise take the returning lanes out of the masks.              *)
createReturn(ReturnValue) ==
  LET NewReturnMask == ReturnMask \ ActiveLanes IN
  /\ returnValue' = assignLocalVariable(returnValue, ReturnValue)
  /\ IF depth = 0 \/ NewReturnMask = {}
     THEN /\ done' = TRUE
          /\ UNCHANGED <<CombinedMask, ActiveLanes, ReturnMask>>
     ELSE LET top == CombinedMask[depth] \cap NewReturnMask IN
          /\ ReturnMask' = NewReturnMask
          /\ ActiveLanes' = top
          /\ CombinedMask' = [CombinedMask EXCEPT ![depth] = top]
          /\ UNCHANGED done

(* ReturnAst::generate *)
Return(e) ==
  /\ Running
  /\ ReturnInLoops \/ \A d \in 1 .. depth : kind[d] # "loop"
  /\ createReturn([l \in Lanes |-> e[env[l]]])
  /\ sResult' = [l \in Lanes |-> IF l \in ScalarLive THEN e[sEnv[l]]
                                                    ELSE sResult[l]]
  /\ UNCHANGED <<depth, ThisMask, blocks, skipped, env, sEnv, entered, otherwise>>

Next ==
  \/ \E f \in Exprs : Assign(f)
  \/ \E c \in Conds, hasElse \in BOOLEAN : IfTop(c, hasElse)
  \/ ElseTop
  \/ EndIf
  \/ \E c \in Conds : LoopTop(c)
  \/ LoopBack
  \/ LoopEnd
  \/ \E e \in Exprs : Return(e)

Spec == Init /\ [][Next]_vars

-----------------------------------------------------------------------------
(* A lane that has not returned is exactly where its scalar instance is:   *)
(* it has the same variable, it is active in a block when and only when    *)
(* the instance executes that block, and return_mask still has it.         *)
UnreturnedLanesMatch ==
  ~done =>
    /\ ReturnMask = Lanes \ Returned
    /\ \A l \in Lanes \ Returned : env[l] = sEnv[l]
    /\ ActiveLanes \ Returned = ScalarLive

(* The vector function returns in every lane what the scalar program       *)
(* returns, however the lanes diverge.                                     *)
ResultsMatchScalar == done => returnValue = sResult

(* A lane that has returned stays off: it takes part in no statement that  *)
(* follows its return.                                                     *)
ReturnedLanesInactive == ~done => ActiveLanes \cap Returned = {}
=============================================================================
