------------------------ MODULE SPMDFunction_proofs ------------------------
(***************************************************************************)
(* SPMDMask is proved right for any number of lanes, any nesting depth and *)
(* any expressions and conditions; every function that AstNode.cpp lays    *)
(* out (SPMDFunction) runs as SPMDMask does, so that what is proved of     *)
(* arbitrary structured code holds of it.                                  *)
(***************************************************************************)
EXTENDS SPMDFunction, TLAPS

(* While the function runs: the lanes that have not returned agree with    *)
(* their scalar instances at every level of the mask stack.                *)
CurrentMatch ==
  /\ ReturnMask = Lanes \ Returned
  /\ \A l \in Lanes \ Returned : env[l] = sEnv[l]
  /\ ActiveLanes \ Returned = EnteredAt(depth) \ Returned
  /\ depth > 0 => ActiveLanes = CombinedMask[depth]

StackMatch ==
  \A d \in 1 .. depth :
    CombinedMask[d] \ Returned = entered[d] \ Returned

Nested ==
  /\ \A i, j \in 1 .. depth : i <= j => entered[j] \subseteq entered[i]
  /\ \A i, j \in 1 .. depth : i < j => otherwise[j] \subseteq entered[i]

ElseMatch ==
  \A d \in 1 .. depth : kind[d] = "thenelse" =>
    otherwise[d] \ Returned = (EnteredAt(d - 1) \ ThisMask[d]) \ Returned

LoopMatch ==
  \A d \in 1 .. depth : kind[d] = "loop" =>
    /\ Outer[d] \ Returned = EnteredAt(d - 1) \ Returned
    /\ \A l \in (EnteredAt(d - 1) \ entered[d]) \ Returned : sEnv[l] \notin loopCond[d]

LaneMatch == CurrentMatch /\ StackMatch /\ Nested /\ ElseMatch /\ LoopMatch

(* The inductive invariant of every function. *)
IInv == TypeOK /\ (~done => LaneMatch)

(* What holds besides when no return is inside a loop. *)
ReturnsFinal ==
  /\ ActiveLanes \cap Returned = {}
  /\ \A d \in 1 .. depth : kind[d] = "loop" => Outer[d] \cap Returned = {}
  /\ \A l \in Returned : returnValue[l] = sResult[l]

RInv == (~done => ReturnsFinal) /\ (done => returnValue = sResult)

-----------------------------------------------------------------------------
(* The parts of the type invariant. *)
MaskTypes ==
  /\ ThisMask \in [Levels -> SUBSET Lanes]
  /\ CombinedMask \in [Levels -> SUBSET Lanes]
  /\ ActiveLanes \in SUBSET Lanes
BlockTypes ==
  /\ kind \in [Levels -> BlockKinds]
  /\ Outer \in [Levels -> SUBSET Lanes]
  /\ loopCond \in [Levels -> SUBSET Values]
ScalarTypes ==
  /\ entered \in [Levels -> SUBSET Lanes]
  /\ otherwise \in [Levels -> SUBSET Lanes]

(* Both invariants hold when the function is entered. *)
LEMMA InitInv == Init => IInv /\ RInv
<1> SUFFICES ASSUME Init PROVE IInv /\ RInv
  OBVIOUS
<1> USE MaxDepthAssumption
<1>1. TypeOK
  <2>1. env \in [Lanes -> Values]
    BY InputsAssumption DEF Init
  <2>2. Lanes \in SUBSET Lanes /\ {} \in SUBSET Lanes /\ {} \in SUBSET Values
    OBVIOUS
  <2>3. MaskTypes /\ BlockTypes /\ ScalarTypes
    BY <2>2 DEF Init, MaskTypes, BlockTypes, ScalarTypes, BlockKinds
  <2>4. depth \in 0 .. MaxDepth
    BY DEF Init
  <2>8. skipped \in BOOLEAN /\ done \in BOOLEAN
    BY Zenon DEF Init
  <2>5. /\ returnValue \in [Lanes -> Values \cup {NoValue}]
        /\ sResult \in [Lanes -> Values \cup {NoValue}]
    BY DEF Init
  <2>6. sEnv = env /\ ReturnMask = Lanes
    BY DEF Init
  <2>7. QED
    BY <2>1, <2>2, <2>3, <2>4, <2>5, <2>6, <2>8
    DEF TypeOK, MaskTypes, BlockTypes, ScalarTypes
<1>2. Returned = {}
  BY DEF Init, Returned
<1>3. LaneMatch
  BY <1>2 DEF Init, LaneMatch, CurrentMatch, StackMatch, Nested, ElseMatch,
    LoopMatch, EnteredAt
<1>4. ReturnsFinal
  BY <1>2 DEF Init, ReturnsFinal
<1>5. QED
  BY <1>1, <1>3, <1>4 DEF Init, IInv, RInv

(* Every step keeps the types. *)
LEMMA TypeStep == TypeOK /\ [Next]_vars => TypeOK'
<1> SUFFICES ASSUME TypeOK, [Next]_vars PROVE TypeOK'
  OBVIOUS
<1> USE MaxDepthAssumption DEF Levels, MaskTypes, BlockTypes, ScalarTypes, blocks
<1>1. ASSUME NEW f \in Exprs, Assign(f) PROVE TypeOK'
  <2>1. f \in [Values -> Values]
    BY ExprsAssumption
  <2>2. env' \in [Lanes -> Values] /\ sEnv' \in [Lanes -> Values]
    BY <1>1, <2>1 DEF TypeOK, Assign, assignLocalVariable
  <2>3. QED
    BY <1>1, <2>2 DEF TypeOK, Assign
<1>2. ASSUME NEW c \in Conds, NEW h \in BOOLEAN, IfTop(c, h) PROVE TypeOK'
  <2>1. depth + 1 \in Levels /\ depth' \in 0 .. MaxDepth
    BY <1>2 DEF TypeOK, IfTop, pushMask
  <2>2. MaskTypes'
    BY <1>2, <2>1 DEF TypeOK, IfTop, pushMask, Holds
  <2>3. BlockTypes'
    BY <1>2, <2>1 DEF TypeOK, IfTop, PushBlock, BlockKinds
  <2>4. ScalarTypes'
    BY <1>2, <2>1 DEF TypeOK, IfTop, ScalarLive, EnteredAt, Holds
  <2>5. skipped' \in BOOLEAN
    BY <1>2 DEF IfTop, shortCircuitZeroMask
  <2>6. QED
    BY <1>2, <2>1, <2>2, <2>3, <2>4, <2>5 DEF TypeOK, IfTop
<1>3. ASSUME ElseTop PROVE TypeOK'
  <2>1. depth \in Levels /\ depth' = depth
    BY <1>3 DEF TypeOK, ElseTop, InBlock, invertLastPushedMask
  <2>2. MaskTypes'
    BY <1>3, <2>1 DEF TypeOK, ElseTop, invertLastPushedMask
  <2>3. BlockTypes'
    BY <1>3, <2>1 DEF TypeOK, ElseTop, BlockKinds
  <2>4. ScalarTypes'
    BY <1>3, <2>1 DEF TypeOK, ElseTop
  <2>5. skipped' \in BOOLEAN
    BY <1>3 DEF ElseTop, shortCircuitZeroMask
  <2>6. QED
    BY <1>3, <2>1, <2>2, <2>3, <2>4, <2>5 DEF TypeOK, ElseTop
<1>4. ASSUME EndIf \/ LoopEnd PROVE TypeOK'
  <2>1. depth \in Levels /\ depth' = depth - 1 /\ depth' \in 0 .. MaxDepth
    BY <1>4 DEF TypeOK, EndIf, LoopEnd, InBlock, popMask
  <2>2. MaskTypes'
    <3>1. CASE depth = 1
      BY <1>4, <2>1, <3>1 DEF TypeOK, EndIf, LoopEnd, popMask
    <3>2. CASE depth # 1
      <4>1. depth - 1 \in Levels
        BY <2>1, <3>2
      <4>2. PICK top \in SUBSET Lanes :
              /\ ActiveLanes' = top
              /\ CombinedMask' = [CombinedMask EXCEPT ![depth] = {}, ![depth - 1] = top]
              /\ ThisMask' = [ThisMask EXCEPT ![depth] = {}]
        <5>1. CombinedMask[depth - 1] \cap ReturnMask \in SUBSET Lanes
          BY <4>1 DEF TypeOK
        <5>2. QED
          BY <1>4, <3>2, <5>1 DEF EndIf, LoopEnd, popMask
      <4>3. QED
        BY <2>1, <4>1, <4>2 DEF TypeOK
    <3>3. QED
      BY <3>1, <3>2
  <2>3. BlockTypes'
    BY <1>4, <2>1 DEF TypeOK, EndIf, LoopEnd, PopBlock, BlockKinds
  <2>4. ScalarTypes'
    BY <1>4, <2>1 DEF TypeOK, EndIf, LoopEnd, PopScalar
  <2>5. QED
    BY <1>4, <2>1, <2>2, <2>3, <2>4 DEF TypeOK, EndIf, LoopEnd
<1>5. ASSUME NEW c \in Conds, LoopTop(c) PROVE TypeOK'
  <2>1. depth + 1 \in Levels /\ depth' \in 0 .. MaxDepth
    BY <1>5 DEF TypeOK, LoopTop, pushMask
  <2>2. MaskTypes'
    BY <1>5, <2>1 DEF TypeOK, LoopTop, pushMask, Holds
  <2>3. BlockTypes'
    BY <1>5, <2>1, CondsAssumption DEF TypeOK, LoopTop, PushBlock, BlockKinds
  <2>4. ScalarTypes'
    BY <1>5, <2>1 DEF TypeOK, LoopTop, ScalarLive, EnteredAt, Holds
  <2>5. skipped' \in BOOLEAN
    BY <1>5 DEF LoopTop, shortCircuitZeroMask
  <2>6. QED
    BY <1>5, <2>1, <2>2, <2>3, <2>4, <2>5 DEF TypeOK, LoopTop
<1>6. ASSUME LoopBack PROVE TypeOK'
  <2>1. depth \in Levels
    BY <1>6 DEF TypeOK, LoopBack, InBlock
  <2>2. MaskTypes'
    BY <1>6, <2>1 DEF TypeOK, LoopBack, Holds
  <2>3. ScalarTypes'
    BY <1>6, <2>1 DEF TypeOK, LoopBack, ScalarLive, EnteredAt, Holds
  <2>4. skipped' \in BOOLEAN
    BY <1>6 DEF LoopBack, shortCircuitZeroMask
  <2>5. QED
    BY <1>6, <2>2, <2>3, <2>4 DEF TypeOK, LoopBack
<1>7. ASSUME NEW e \in Exprs, Return(e) PROVE TypeOK'
  <2>1. e \in [Values -> Values]
    BY ExprsAssumption
  <2>2. /\ returnValue' \in [Lanes -> Values \cup {NoValue}]
        /\ sResult' \in [Lanes -> Values \cup {NoValue}]
    BY <1>7, <2>1 DEF TypeOK, Return, createReturn, assignLocalVariable
  <2>3. /\ MaskTypes'
        /\ ReturnMask' \in SUBSET Lanes /\ done' \in BOOLEAN
    <3>1. CASE depth = 0 \/ ReturnMask \ ActiveLanes = {}
      BY <1>7, <3>1 DEF TypeOK, Return, createReturn
    <3>2. CASE ~(depth = 0 \/ ReturnMask \ ActiveLanes = {})
      <4>1. depth \in Levels
        BY <3>2 DEF TypeOK
      <4>2. PICK top \in SUBSET Lanes :
              /\ ActiveLanes' = top
              /\ CombinedMask' = [CombinedMask EXCEPT ![depth] = top]
        <5>1. CombinedMask[depth] \cap (ReturnMask \ ActiveLanes) \in SUBSET Lanes
          BY <4>1 DEF TypeOK
        <5>2. QED
          BY <1>7, <3>2, <5>1 DEF Return, createReturn
      <4>3. /\ ThisMask' = ThisMask /\ done' = done
            /\ ReturnMask' = ReturnMask \ ActiveLanes
        BY <1>7, <3>2 DEF Return, createReturn
      <4>4. QED
        BY <4>1, <4>2, <4>3 DEF TypeOK
    <3>3. QED
      BY <3>1, <3>2
  <2>4. QED
    BY <1>7, <2>2, <2>3 DEF TypeOK, Return
<1>8. ASSUME UNCHANGED vars PROVE TypeOK'
  BY <1>8 DEF TypeOK, vars, machine, reference
<1>9. QED
  BY <1>1, <1>2, <1>3, <1>4, <1>5, <1>6, <1>7, <1>8 DEF Next

-----------------------------------------------------------------------------
(* The steps that push, pop or invert a mask, and those that leave the     *)
(* stack alone, preserve the agreement of the unreturned lanes.            *)

(* An assignment: the lanes that left a loop keep its condition false.    *)
LEMMA AssignMatch ==
  ASSUME TypeOK, LaneMatch, NEW f \in Exprs, Assign(f)
  PROVE  LaneMatch'
<1> USE DEF LaneMatch
<1>1. Returned' = Returned /\ \A d : EnteredAt(d)' = EnteredAt(d)
  BY DEF Assign, Returned, EnteredAt
<1>2. CurrentMatch'
  <2>1. \A l \in Lanes \ Returned : env'[l] = sEnv'[l]
    BY DEF CurrentMatch, Assign, assignLocalVariable, ScalarLive
  <2>2. QED
    BY <1>1, <2>1 DEF CurrentMatch, Assign
<1>3. StackMatch' /\ Nested' /\ ElseMatch'
  BY <1>1 DEF StackMatch, Nested, ElseMatch, Assign, blocks
<1>4. LoopMatch'
  <2> SUFFICES ASSUME NEW d \in 1 .. depth, kind[d] = "loop"
               PROVE  /\ Outer[d] \ Returned = EnteredAt(d - 1) \ Returned
                      /\ \A l \in (EnteredAt(d - 1) \ entered[d]) \ Returned :
                           sEnv'[l] \notin loopCond[d]
    BY <1>1 DEF LoopMatch, Assign, blocks
  <2>1. depth \in Nat /\ depth > 0 /\ d <= depth
    BY DEF TypeOK
  <2>2. entered[depth] \subseteq entered[d]
    BY <2>1 DEF Nested
  <2>3. ScalarLive \subseteq entered[d]
    BY <2>1, <2>2 DEF ScalarLive, EnteredAt
  <2>4. \A l \in Lanes : l \notin entered[d] => sEnv'[l] = sEnv[l]
    BY <2>3 DEF Assign
  <2>5. EnteredAt(d - 1) \subseteq Lanes
    BY <2>1, MaxDepthAssumption DEF EnteredAt, TypeOK, Levels
  <2>6. QED
    BY <2>4, <2>5 DEF LoopMatch
<1>5. QED
  BY <1>2, <1>3, <1>4

(* The condition of an if or a loop holds on the same unreturned lanes. *)
LEMMA HoldsMatch ==
  ASSUME TypeOK, CurrentMatch, NEW c
  PROVE  (Holds(env, c) \cap ActiveLanes) \ Returned
           = (ScalarLive \cap Holds(sEnv, c)) \ Returned
  BY DEF CurrentMatch, Holds, ScalarLive

(* A push: the stack below is as it was and the new level agrees. *)
LEMMA PushMatch ==
  ASSUME TypeOK, LaneMatch, NEW c, NEW k, NEW o, NEW cc,
         pushMask(Holds(env, c)), PushBlock(k, o, cc),
         entered' = [entered EXCEPT ![depth + 1] = ScalarLive \cap Holds(sEnv, c)],
         NEW w \in SUBSET ScalarLive,
         otherwise' = [otherwise EXCEPT ![depth + 1] = w],
         k = "thenelse" => w = ScalarLive \ Holds(sEnv, c),
         k = "loop" => o = ActiveLanes /\ cc = c,
         UNCHANGED <<ReturnMask, env, sEnv, sResult>>
  PROVE  LaneMatch'
<1> USE DEF LaneMatch
<1> DEFINE n == depth + 1
<1>1. /\ depth \in Nat /\ n \in Levels /\ depth' = n
      /\ \A d \in 1 .. depth : d \in Levels /\ d # n
  BY MaxDepthAssumption DEF TypeOK, pushMask, Levels
<1>2. Returned' = Returned
  BY DEF Returned
<1>3. \A d \in 1 .. depth :
        /\ CombinedMask'[d] = CombinedMask[d] /\ ThisMask'[d] = ThisMask[d]
        /\ kind'[d] = kind[d] /\ Outer'[d] = Outer[d] /\ loopCond'[d] = loopCond[d]
        /\ entered'[d] = entered[d] /\ otherwise'[d] = otherwise[d]
  BY <1>1 DEF TypeOK, pushMask, PushBlock
<1>4. /\ CombinedMask'[n] = Holds(env, c) \cap ActiveLanes
      /\ ThisMask'[n] = Holds(env, c)
      /\ kind'[n] = k /\ Outer'[n] = o /\ loopCond'[n] = cc
      /\ entered'[n] = ScalarLive \cap Holds(sEnv, c) /\ otherwise'[n] = w
  BY <1>1 DEF TypeOK, pushMask, PushBlock
<1>5. \A d \in 0 .. depth : EnteredAt(d)' = EnteredAt(d)
  BY <1>1, <1>3 DEF EnteredAt
<1>6. ActiveLanes' = CombinedMask'[n]
  BY <1>4 DEF pushMask
<1>7. CombinedMask'[n] \ Returned = entered'[n] \ Returned
  BY <1>4, HoldsMatch
<1>8. EnteredAt(depth)' = entered'[n]
  BY <1>1 DEF EnteredAt
<1>9. \A d \in 1 .. depth' : d \in Nat /\ (d = n \/ d \in 1 .. depth)
  BY <1>1
<1>10. CurrentMatch'
  BY <1>1, <1>2, <1>6, <1>7, <1>8 DEF CurrentMatch
<1>11. StackMatch'
  BY <1>2, <1>3, <1>7, <1>9 DEF StackMatch
<1>12. ScalarLive \subseteq EnteredAt(depth) /\ EnteredAt(depth) \subseteq Lanes
  BY <1>1, MaxDepthAssumption DEF ScalarLive, EnteredAt, TypeOK, Levels
<1>13. \A i \in 1 .. depth : ScalarLive \subseteq entered[i]
  <2> SUFFICES ASSUME NEW i \in 1 .. depth PROVE EnteredAt(depth) \subseteq entered[i]
    BY <1>12
  <2>1. QED
    BY <1>1 DEF Nested, EnteredAt
<1>14. Nested'
  <2>1. ASSUME NEW i \in 1 .. depth', NEW j \in 1 .. depth', i <= j
        PROVE  entered'[j] \subseteq entered'[i]
    BY <1>1, <1>3, <1>4, <1>9, <1>13, <2>1 DEF Nested
  <2>2. ASSUME NEW i \in 1 .. depth', NEW j \in 1 .. depth', i < j
        PROVE  otherwise'[j] \subseteq entered'[i]
    BY <1>1, <1>3, <1>4, <1>9, <1>13, <2>2 DEF Nested
  <2>3. QED
    BY <2>1, <2>2 DEF Nested
<1>15. \A d \in 1 .. depth : EnteredAt(d - 1)' = EnteredAt(d - 1)
  BY <1>1, <1>5
<1>16. \A d \in Nat : d = n => EnteredAt(d - 1)' = EnteredAt(depth)
  BY <1>1, <1>5
<1>17. ElseMatch'
  <2>1. ASSUME k = "thenelse"
        PROVE  w \ Returned = (EnteredAt(depth) \ Holds(env, c)) \ Returned
    BY <1>12, <2>1 DEF CurrentMatch, Holds, ScalarLive
  <2>2. QED
    BY <1>2, <1>3, <1>4, <1>9, <1>15, <1>16, <2>1 DEF ElseMatch
<1>18. LoopMatch'
  <2>1. ASSUME k = "loop"
        PROVE  /\ o \ Returned = EnteredAt(depth) \ Returned
               /\ \A l \in (EnteredAt(depth) \ entered'[n]) \ Returned : sEnv[l] \notin cc
    BY <1>4, <1>12, <2>1 DEF CurrentMatch, Holds, ScalarLive
  <2>2. QED
    BY <1>2, <1>3, <1>4, <1>9, <1>15, <1>16, <2>1 DEF LoopMatch
<1>19. QED
  BY <1>10, <1>11, <1>14, <1>17, <1>18

(* A pop: the level below becomes the current one, without the lanes that  *)
(* have returned.                                                          *)
LEMMA PopMatch ==
  ASSUME TypeOK, LaneMatch, popMask, PopBlock, PopScalar,
         UNCHANGED <<ReturnMask, env, sEnv, sResult>>
  PROVE  LaneMatch'
<1> USE DEF LaneMatch
<1>1. /\ depth \in Nat /\ depth > 0 /\ depth' = depth - 1 /\ depth \in Levels
      /\ \A d \in 1 .. depth' : d \in Levels /\ d # depth /\ d \in 1 .. depth
  BY MaxDepthAssumption DEF TypeOK, popMask, Levels
<1>2. Returned' = Returned
  BY DEF Returned
<1>3. \A d \in 1 .. depth' :
        /\ ThisMask'[d] = ThisMask[d] /\ kind'[d] = kind[d]
        /\ Outer'[d] = Outer[d] /\ loopCond'[d] = loopCond[d]
        /\ entered'[d] = entered[d] /\ otherwise'[d] = otherwise[d]
  BY <1>1 DEF TypeOK, popMask, PopBlock, PopScalar
<1>4. \A d \in 1 .. depth' :
        CombinedMask'[d] = IF d = depth' THEN CombinedMask[d] \cap ReturnMask
                                         ELSE CombinedMask[d]
  <2>1. CASE depth = 1
    BY <1>1, <2>1
  <2>2. CASE depth # 1
    <3>1. depth - 1 \in Levels /\ depth - 1 # depth
      BY <1>1, <2>2, MaxDepthAssumption DEF Levels
    <3>2. CombinedMask' = [CombinedMask EXCEPT ![depth] = {},
                             ![depth - 1] = CombinedMask[depth - 1] \cap ReturnMask]
      BY <2>2 DEF popMask
    <3>3. QED
      BY <1>1, <3>1, <3>2 DEF TypeOK
  <2>3. QED
    BY <2>1, <2>2
<1>5. \A d \in 0 .. depth' : EnteredAt(d)' = EnteredAt(d)
  BY <1>1, <1>3 DEF EnteredAt
<1>6. StackMatch'
  <2>1. \A d \in 1 .. depth' : CombinedMask[d] \subseteq Lanes
    BY <1>1 DEF TypeOK
  <2>2. \A d \in 1 .. depth' : CombinedMask'[d] \ Returned = CombinedMask[d] \ Returned
    BY <1>4, <2>1 DEF CurrentMatch
  <2>3. QED
    BY <1>1, <1>2, <1>3, <2>2 DEF StackMatch
<1>7. CurrentMatch'
  <2>1. CASE depth = 1
    <3>1. ActiveLanes' = ReturnMask /\ depth' = 0
      BY <1>1, <2>1 DEF popMask
    <3>2. QED
      BY <1>2, <3>1 DEF CurrentMatch, EnteredAt
  <2>2. CASE depth # 1
    <3>1. depth' \in 1 .. depth' /\ depth' # 0
      BY <1>1, <2>2
    <3>2. ActiveLanes' = CombinedMask'[depth']
      BY <1>1, <1>4, <2>2, <3>1 DEF popMask
    <3>3. EnteredAt(depth)' = entered'[depth']
      BY <3>1 DEF EnteredAt
    <3>4. QED
      BY <1>2, <1>6, <3>1, <3>2, <3>3 DEF CurrentMatch, StackMatch
  <2>3. QED
    BY <2>1, <2>2
<1>8. Nested'
  BY <1>1, <1>3 DEF Nested
<1>9. \A d \in 1 .. depth' : EnteredAt(d - 1)' = EnteredAt(d - 1)
  BY <1>1, <1>5
<1>10. ElseMatch' /\ LoopMatch'
  BY <1>1, <1>2, <1>3, <1>9 DEF ElseMatch, LoopMatch
<1>11. QED
  BY <1>6, <1>7, <1>8, <1>10

(* A step that rewrites the top of the stack only. *)
LEMMA TopMatch ==
  ASSUME TypeOK, LaneMatch, depth > 0, depth' = depth,
         NEW m, NEW e,
         CombinedMask' = [CombinedMask EXCEPT ![depth] = ActiveLanes'],
         ThisMask' = [ThisMask EXCEPT ![depth] = m],
         entered' = [entered EXCEPT ![depth] = e],
         \A d \in 1 .. depth : d # depth =>
           kind'[d] = kind[d] /\ otherwise'[d] = otherwise[d],
         kind'[depth] # "thenelse",
         otherwise'[depth] \subseteq otherwise[depth],
         UNCHANGED <<Outer, loopCond, ReturnMask, env, sEnv, sResult>>,
         ActiveLanes' \ Returned = e \ Returned,
         \A i \in 1 .. depth : i # depth => e \subseteq entered[i],
         kind'[depth] = "loop" =>
           /\ kind[depth] = "loop"
           /\ \A l \in (EnteredAt(depth - 1) \ e) \ Returned : sEnv[l] \notin loopCond[depth]
  PROVE  LaneMatch'
<1> USE DEF LaneMatch
<1>1. /\ depth \in Nat /\ depth \in Levels
      /\ \A d \in 1 .. depth : d \in Levels
  BY MaxDepthAssumption DEF TypeOK, Levels
<1>2. Returned' = Returned
  BY DEF Returned
<1>3. \A d \in 1 .. depth : d # depth =>
        /\ ThisMask'[d] = ThisMask[d] /\ CombinedMask'[d] = CombinedMask[d]
        /\ entered'[d] = entered[d]
  BY <1>1 DEF TypeOK
<1>4. entered'[depth] = e /\ CombinedMask'[depth] = ActiveLanes'
  BY <1>1 DEF TypeOK
<1>5. \A d \in 1 .. depth : EnteredAt(d - 1)' = EnteredAt(d - 1)
  BY <1>1, <1>3 DEF EnteredAt
<1>6. EnteredAt(depth)' = e
  BY <1>1, <1>4 DEF EnteredAt
<1>7. CurrentMatch'
  BY <1>2, <1>4, <1>6 DEF CurrentMatch
<1>8. StackMatch'
  BY <1>2, <1>3, <1>4 DEF StackMatch
<1>9. Nested'
  <2>1. ASSUME NEW i \in 1 .. depth, NEW j \in 1 .. depth, i <= j
        PROVE  entered'[j] \subseteq entered'[i]
    <3>1. CASE j = depth /\ i # depth
      BY <1>3, <1>4, <3>1
    <3>2. CASE j = depth /\ i = depth
      BY <3>2
    <3>3. CASE j # depth
      <4>1. i # depth
        BY <1>1, <2>1, <3>3
      <4>2. QED
        BY <1>3, <2>1, <3>3, <4>1 DEF Nested
    <3>4. QED
      BY <3>1, <3>2, <3>3
  <2>2. ASSUME NEW i \in 1 .. depth, NEW j \in 1 .. depth, i < j
        PROVE  otherwise'[j] \subseteq entered'[i]
    <3>1. i # depth
      BY <1>1, <2>2
    <3>2. otherwise'[j] \subseteq otherwise[j]
      OBVIOUS
    <3>3. QED
      BY <1>3, <2>2, <3>1, <3>2 DEF Nested
  <2>3. QED
    BY <2>1, <2>2 DEF Nested
<1>10. ElseMatch'
  BY <1>2, <1>3, <1>5 DEF ElseMatch
<1>11. LoopMatch'
  BY <1>2, <1>3, <1>4, <1>5 DEF LoopMatch
<1>12. QED
  BY <1>7, <1>8, <1>9, <1>10, <1>11

(* The else block is entered by the unreturned lanes whose instance does. *)
LEMMA ElseTopMatch ==
  ASSUME TypeOK, LaneMatch, ElseTop
  PROVE  LaneMatch'
<1> USE DEF LaneMatch
<1>1. /\ depth \in Nat /\ depth > 0 /\ depth' = depth /\ depth \in 1 .. depth
      /\ depth \in Levels /\ \A d \in 1 .. depth : d \in Levels
  BY MaxDepthAssumption DEF TypeOK, ElseTop, InBlock, invertLastPushedMask, Levels
<1>2. kind[depth] = "thenelse" /\ kind'[depth] = "else"
  BY <1>1 DEF ElseTop, InBlock, TypeOK
<1>3. otherwise[depth] \ Returned
        = (EnteredAt(depth - 1) \ ThisMask[depth]) \ Returned
  BY <1>1, <1>2 DEF ElseMatch
<1>4. ActiveLanes' \ Returned = otherwise[depth] \ Returned
  <2>0. otherwise[depth] \subseteq Lanes /\ ReturnMask = Lanes \ Returned
    BY <1>1 DEF TypeOK, CurrentMatch
  <2>1. CASE depth = 1
    <3>1. EnteredAt(depth - 1) = Lanes
      BY <2>1 DEF EnteredAt
    <3>2. ActiveLanes' = (Lanes \ ThisMask[depth]) \cap ReturnMask
      BY <2>1 DEF ElseTop, invertLastPushedMask
    <3>3. QED
      BY <1>3, <2>0, <3>1, <3>2
  <2>2. CASE depth # 1
    <3>1. depth - 1 \in 1 .. depth /\ EnteredAt(depth - 1) = entered[depth - 1]
      BY <1>1, <2>2 DEF EnteredAt
    <3>2. CombinedMask[depth - 1] \ Returned = entered[depth - 1] \ Returned
      BY <3>1 DEF StackMatch
    <3>3. ActiveLanes' = ((Lanes \ ThisMask[depth]) \cap CombinedMask[depth - 1])
                            \cap ReturnMask
      BY <2>2 DEF ElseTop, invertLastPushedMask
    <3>4. QED
      BY <1>3, <2>0, <3>1, <3>2, <3>3
  <2>3. QED
    BY <2>1, <2>2
<1>5. /\ CombinedMask' = [CombinedMask EXCEPT ![depth] = ActiveLanes']
      /\ ThisMask' = [ThisMask EXCEPT ![depth] = Lanes \ ThisMask[depth]]
      /\ entered' = [entered EXCEPT ![depth] = otherwise[depth]]
      /\ otherwise'[depth] \subseteq otherwise[depth]
      /\ UNCHANGED <<Outer, loopCond, ReturnMask, env, sEnv, sResult>>
  BY <1>1 DEF ElseTop, invertLastPushedMask, TypeOK
<1>6. \A d \in 1 .. depth : d # depth =>
        kind'[d] = kind[d] /\ otherwise'[d] = otherwise[d]
  BY <1>1 DEF ElseTop, TypeOK
<1>7. \A i \in 1 .. depth : i # depth => otherwise[depth] \subseteq entered[i]
  BY <1>1 DEF Nested
<1>8. QED
  BY <1>1, <1>2, <1>4, <1>5, <1>6, <1>7, TopMatch

(* The next iteration has the unreturned lanes whose instance iterates.   *)
LEMMA LoopBackMatch ==
  ASSUME TypeOK, LaneMatch, LoopBack
  PROVE  LaneMatch'
<1> USE DEF LaneMatch
<1>1. /\ depth \in Nat /\ depth > 0 /\ depth' = depth /\ depth \in 1 .. depth
      /\ depth \in Levels /\ kind[depth] = "loop"
  BY MaxDepthAssumption DEF TypeOK, LoopBack, InBlock, Levels
<1> DEFINE e == ScalarLive \cap Holds(sEnv, loopCond[depth])
<1>2. /\ Outer[depth] \ Returned = EnteredAt(depth - 1) \ Returned
      /\ \A l \in (EnteredAt(depth - 1) \ entered[depth]) \ Returned :
           sEnv[l] \notin loopCond[depth]
  BY <1>1 DEF LoopMatch
<1>3. ScalarLive = entered[depth] \ Returned
  BY <1>1 DEF ScalarLive, EnteredAt
<1>4. entered[depth] \subseteq EnteredAt(depth - 1)
  <2>1. CASE depth = 1
    BY <1>1, <2>1 DEF EnteredAt, TypeOK
  <2>2. CASE depth # 1
    <3>1. depth - 1 \in 1 .. depth
      BY <1>1, <2>2
    <3>2. QED
      BY <1>1, <2>2, <3>1 DEF EnteredAt, Nested
  <2>3. QED
    BY <2>1, <2>2
<1>5. ActiveLanes' = Holds(env, loopCond[depth]) \cap Outer[depth]
  BY DEF LoopBack
<1>6. Outer[depth] \subseteq Lanes /\ entered[depth] \subseteq Lanes
  BY <1>1 DEF TypeOK
<1>7. ActiveLanes' \ Returned = e \ Returned
  <2>1. ASSUME NEW l \in Lanes \ Returned
        PROVE  l \in ActiveLanes' <=> l \in e
    <3>1. env[l] = sEnv[l]
      BY DEF CurrentMatch
    <3>2. l \in Outer[depth] <=> l \in EnteredAt(depth - 1)
      BY <1>2
    <3>3. QED
      BY <1>2, <1>3, <1>4, <1>5, <3>1, <3>2 DEF Holds
  <2>2. ActiveLanes' \subseteq Lanes /\ e \subseteq Lanes
    BY <1>5 DEF Holds
  <2>3. QED
    BY <2>1, <2>2
<1>8. \A l \in (EnteredAt(depth - 1) \ e) \ Returned : sEnv[l] \notin loopCond[depth]
  <2> SUFFICES ASSUME NEW l \in (EnteredAt(depth - 1) \ e) \ Returned
               PROVE  sEnv[l] \notin loopCond[depth]
    OBVIOUS
  <2>1. CASE l \notin entered[depth]
    BY <1>2, <2>1
  <2>2. CASE l \in entered[depth]
    BY <1>3, <1>6, <2>2 DEF Holds
  <2>3. QED
    BY <2>1, <2>2
<1>9. \A i \in 1 .. depth : i # depth => e \subseteq entered[i]
  BY <1>1, <1>3 DEF Nested
<1>10. /\ CombinedMask' = [CombinedMask EXCEPT ![depth] = ActiveLanes']
       /\ ThisMask' = [ThisMask EXCEPT ![depth] = Holds(env, loopCond[depth])]
       /\ entered' = [entered EXCEPT ![depth] = e]
       /\ kind' = kind /\ otherwise' = otherwise
       /\ UNCHANGED <<Outer, loopCond, ReturnMask, env, sEnv, sResult>>
  BY DEF LoopBack, blocks
<1> HIDE DEF e
<1>11. QED
  BY <1>1, <1>7, <1>8, <1>9, <1>10, TopMatch

(* A return that leaves lanes running takes the returning ones out. *)
LEMMA ReturnMatch ==
  ASSUME TypeOK, LaneMatch, NEW e \in Exprs, Return(e), ~done'
  PROVE  LaneMatch'
<1> USE DEF LaneMatch
<1>1. ~(depth = 0 \/ ReturnMask \ ActiveLanes = {})
  BY DEF Return, createReturn
<1>2. /\ depth \in Nat /\ depth > 0 /\ depth' = depth /\ depth \in 1 .. depth
      /\ depth \in Levels /\ \A d \in 1 .. depth : d \in Levels
  BY <1>1, MaxDepthAssumption DEF TypeOK, Return, Levels
<1>3. /\ ReturnMask' = ReturnMask \ ActiveLanes
      /\ ActiveLanes' = CombinedMask[depth] \cap (ReturnMask \ ActiveLanes)
      /\ CombinedMask' = [CombinedMask EXCEPT ![depth] = ActiveLanes']
      /\ UNCHANGED <<kind, Outer, loopCond, ThisMask, env, sEnv, entered, otherwise>>
  BY <1>1 DEF Return, createReturn, blocks
<1>4. Returned' = Returned \cup ScalarLive
  <2>1. ScalarLive \subseteq Lanes
    BY <1>2 DEF ScalarLive, EnteredAt, TypeOK
  <2>2. \A l \in Lanes : e[sEnv[l]] # NoValue
    BY ExprsAssumption, NoValueAssumption DEF TypeOK
  <2>3. QED
    BY <2>1, <2>2 DEF Returned, Return
<1>5. ScalarLive = ActiveLanes \ Returned
  BY DEF CurrentMatch, ScalarLive
<1>6. \A d : EnteredAt(d)' = EnteredAt(d)
  BY <1>3 DEF EnteredAt
<1>7. \A d \in 1 .. depth : CombinedMask'[d] \ Returned' = CombinedMask[d] \ Returned'
  <2>1. ASSUME NEW d \in 1 .. depth, d # depth
        PROVE  CombinedMask'[d] = CombinedMask[d]
    BY <1>2, <1>3, <2>1 DEF TypeOK
  <2>2. CombinedMask'[depth] = CombinedMask[depth] \cap (ReturnMask \ ActiveLanes)
    BY <1>2, <1>3 DEF TypeOK
  <2>3. CombinedMask[depth] \subseteq Lanes /\ ReturnMask = Lanes \ Returned
    BY <1>2 DEF TypeOK, CurrentMatch
  <2>4. CombinedMask'[depth] \ Returned' = CombinedMask[depth] \ Returned'
    BY <1>4, <1>5, <2>2, <2>3
  <2>5. QED
    BY <2>1, <2>4
<1>8. StackMatch'
  BY <1>2, <1>3, <1>4, <1>7 DEF StackMatch
<1>9. CurrentMatch'
  <2>1. ReturnMask' = Lanes \ Returned'
    BY <1>3, <1>4, <1>5 DEF CurrentMatch
  <2>2. ActiveLanes' = CombinedMask'[depth]
    BY <1>2, <1>3 DEF TypeOK
  <2>3. EnteredAt(depth)' = entered'[depth]
    BY <1>2 DEF EnteredAt
  <2>4. QED
    BY <1>2, <1>3, <1>4, <1>8, <2>1, <2>2, <2>3 DEF CurrentMatch, StackMatch
<1>10. Nested'
  BY <1>2, <1>3 DEF Nested
<1>11. ElseMatch' /\ LoopMatch'
  BY <1>2, <1>3, <1>4, <1>6 DEF ElseMatch, LoopMatch
<1>12. QED
  BY <1>8, <1>9, <1>10, <1>11

(* Every step preserves the inductive invariant. *)
LEMMA StepInv == IInv /\ [Next]_vars => IInv'
<1> SUFFICES ASSUME IInv, [Next]_vars, ~done' PROVE LaneMatch'
  BY TypeStep DEF IInv
<1>a. TypeOK
  BY DEF IInv
<1>b. ~done
  BY DEF Next, Assign, IfTop, ElseTop, EndIf, LoopTop, LoopBack, LoopEnd,
    Return, Running, vars, machine
<1>c. LaneMatch
  BY <1>b DEF IInv
<1>1. ASSUME NEW f \in Exprs, Assign(f) PROVE LaneMatch'
  BY <1>1, <1>a, <1>c, AssignMatch
<1>2. ASSUME NEW c \in Conds, NEW h \in BOOLEAN, IfTop(c, h) PROVE LaneMatch'
  <2> DEFINE k == IF h THEN "thenelse" ELSE "then"
  <2>1. k # "loop" /\ ScalarLive \ Holds(sEnv, c) \in SUBSET ScalarLive
    OBVIOUS
  <2>2. /\ pushMask(Holds(env, c)) /\ PushBlock(k, {}, {})
        /\ entered' = [entered EXCEPT ![depth + 1] = ScalarLive \cap Holds(sEnv, c)]
        /\ otherwise' = [otherwise EXCEPT ![depth + 1] = ScalarLive \ Holds(sEnv, c)]
        /\ UNCHANGED <<ReturnMask, env, sEnv, sResult>>
    BY <1>2 DEF IfTop
  <2> HIDE DEF k
  <2>3. QED
    BY <1>a, <1>c, <2>1, <2>2, PushMatch
<1>3. ASSUME ElseTop PROVE LaneMatch'
  BY <1>3, <1>a, <1>c, ElseTopMatch
<1>4. ASSUME EndIf PROVE LaneMatch'
  BY <1>4, <1>a, <1>c, PopMatch DEF EndIf
<1>5. ASSUME NEW c \in Conds, LoopTop(c) PROVE LaneMatch'
  <2>1. /\ pushMask(Holds(env, c)) /\ PushBlock("loop", ActiveLanes, c)
        /\ entered' = [entered EXCEPT ![depth + 1] = ScalarLive \cap Holds(sEnv, c)]
        /\ otherwise' = [otherwise EXCEPT ![depth + 1] = {}]
        /\ UNCHANGED <<ReturnMask, env, sEnv, sResult>>
    BY <1>5 DEF LoopTop
  <2>2. {} \in SUBSET ScalarLive
    OBVIOUS
  <2>3. QED
    BY <1>a, <1>c, <2>1, <2>2, PushMatch
<1>6. ASSUME LoopBack PROVE LaneMatch'
  BY <1>6, <1>a, <1>c, LoopBackMatch
<1>7. ASSUME LoopEnd PROVE LaneMatch'
  BY <1>7, <1>a, <1>c, PopMatch DEF LoopEnd
<1>8. ASSUME NEW e \in Exprs, Return(e) PROVE LaneMatch'
  BY <1>8, <1>a, <1>c, ReturnMatch
<1>9. ASSUME UNCHANGED vars PROVE LaneMatch'
  BY <1>9, <1>c DEF LaneMatch, CurrentMatch, StackMatch, Nested, ElseMatch,
    LoopMatch, Returned, EnteredAt, vars, machine, reference, blocks
<1>10. QED
  BY <1>1, <1>2, <1>3, <1>4, <1>5, <1>6, <1>7, <1>8, <1>9 DEF Next

(* Every reachable state satisfies the inductive invariant. *)
THEOREM Invariant == Spec => []IInv
  BY InitInv, StepInv, PTL DEF Spec

(* Every variable keeps its type. *)
THEOREM TypeCorrect == Spec => []TypeOK
<1>1. IInv => TypeOK
  BY DEF IInv
<1>2. QED
  BY <1>1, Invariant, PTL

(* In every function, returns inside loops included, a lane that has not   *)
(* returned is exactly where its scalar instance is.                       *)
THEOREM UnreturnedTheorem == Spec => []UnreturnedLanesMatch
<1>1. IInv => UnreturnedLanesMatch
  BY DEF IInv, LaneMatch, CurrentMatch, UnreturnedLanesMatch, ScalarLive
<1>2. QED
  BY <1>1, Invariant, PTL

-----------------------------------------------------------------------------
(* Functions without a return inside a loop. *)
(* A return outside of loops stores the scalar results, once. *)
LEMMA ReturnStep ==
  ASSUME IInv, RInv, ~ReturnInLoops, NEW e \in Exprs, Return(e)
  PROVE  RInv'
<1>1. ~done /\ TypeOK /\ LaneMatch /\ ReturnsFinal
  BY DEF Return, Running, IInv, RInv
<1>2. ActiveLanes = ScalarLive /\ ReturnMask = Lanes \ Returned
  BY <1>1 DEF LaneMatch, CurrentMatch, ReturnsFinal, ScalarLive
<1>3. \A l \in Lanes : e[sEnv[l]] # NoValue
  BY <1>1, ExprsAssumption, NoValueAssumption DEF TypeOK
<1>4. ScalarLive \subseteq Lanes
  BY <1>1, <1>2 DEF TypeOK
<1>5. Returned' = Returned \cup ScalarLive
  BY <1>3, <1>4 DEF Returned, Return
<1>6. \A l \in Returned' : returnValue'[l] = sResult'[l]
  <2>1. \A l \in ActiveLanes : env[l] = sEnv[l]
    BY <1>1, <1>2 DEF LaneMatch, CurrentMatch, ScalarLive, TypeOK
  <2>2. \A l \in Lanes : returnValue'[l] =
          IF l \in ActiveLanes THEN e[env[l]] ELSE returnValue[l]
    BY DEF Return, createReturn, assignLocalVariable
  <2>3. \A l \in Lanes : sResult'[l] =
          IF l \in ScalarLive THEN e[sEnv[l]] ELSE sResult[l]
    BY DEF Return
  <2>4. Returned \subseteq Lanes
    BY DEF Returned
  <2>5. QED
    BY <1>1, <1>2, <1>4, <1>5, <2>1, <2>2, <2>3, <2>4 DEF ReturnsFinal
<1>7. CASE depth = 0 \/ ReturnMask \ ActiveLanes = {}
  <2>1. done'
    BY <1>7 DEF Return, createReturn
  <2>2. Returned' = Lanes
    <3>1. CASE depth = 0
      BY <1>5, <3>1 DEF ScalarLive, EnteredAt, Returned
    <3>2. CASE ReturnMask \ ActiveLanes = {}
      BY <1>2, <1>4, <1>5, <3>2 DEF Returned
    <3>3. QED
      BY <1>7, <3>1, <3>2
  <2>3. TypeOK'
    BY <1>1, TypeStep DEF Next
  <2>4. returnValue' = sResult'
    BY <1>6, <2>2, <2>3 DEF TypeOK
  <2>5. QED
    BY <2>1, <2>4 DEF RInv
<1>8. CASE ~(depth = 0 \/ ReturnMask \ ActiveLanes = {})
  <2>1. ~done'
    BY <1>1, <1>8 DEF Return, createReturn
  <2>2. ActiveLanes' \subseteq ReturnMask \ ActiveLanes
    BY <1>8 DEF Return, createReturn
  <2>3. ActiveLanes' \cap Returned' = {}
    BY <1>2, <1>5, <2>2
  <2>4. \A d \in 1 .. depth' : kind'[d] # "loop"
    BY DEF Return, blocks
  <2>5. QED
    BY <1>6, <2>1, <2>3, <2>4 DEF RInv, ReturnsFinal
<1>9. QED
  BY <1>7, <1>8

(* No other step brings a returned lane back. *)
LEMMA OtherSteps ==
  ASSUME IInv, RInv, Next, \A e \in Exprs : ~Return(e)
  PROVE  RInv'
<1>1. ~done /\ TypeOK /\ LaneMatch /\ ReturnsFinal
  BY DEF Next, Assign, IfTop, ElseTop, EndIf, LoopTop, LoopBack, LoopEnd,
    Running, IInv, RInv
<1>2. /\ done' = done /\ sResult' = sResult /\ returnValue' = returnValue
      /\ Returned' = Returned
  BY DEF Next, Assign, IfTop, ElseTop, EndIf, LoopTop, LoopBack, LoopEnd, Returned
<1>3. depth \in Nat /\ ReturnMask \cap Returned = {}
      /\ \A d \in 1 .. depth : d \in Levels
  BY <1>1, MaxDepthAssumption DEF TypeOK, LaneMatch, CurrentMatch, Levels
<1>a. SUFFICES /\ ActiveLanes' \cap Returned = {}
               /\ \A d \in 1 .. depth' : kind'[d] = "loop" => Outer'[d] \cap Returned = {}
  BY <1>1, <1>2 DEF RInv, ReturnsFinal
<1>4. ASSUME NEW f \in Exprs, Assign(f) PROVE <1>a!1
  BY <1>1, <1>4 DEF Assign, blocks, ReturnsFinal
<1>5. ASSUME NEW k, NEW o, NEW cc, NEW c,
             pushMask(Holds(env, c)), PushBlock(k, o, cc),
             k = "loop" => o = ActiveLanes
      PROVE  <1>a!1
  <2>1. depth' = depth + 1 /\ depth + 1 \in Levels
    BY <1>1, <1>5, MaxDepthAssumption DEF pushMask, TypeOK, Levels
  <2>2. ActiveLanes' \subseteq ActiveLanes
    BY <1>5 DEF pushMask
  <2>3. kind'[depth + 1] = k /\ Outer'[depth + 1] = o
    BY <1>1, <1>5, <2>1 DEF PushBlock, TypeOK
  <2>4. \A d \in 1 .. depth : kind'[d] = kind[d] /\ Outer'[d] = Outer[d]
    BY <1>1, <1>3, <1>5, <2>1 DEF PushBlock, TypeOK
  <2>5. \A d \in 1 .. depth' : d = depth + 1 \/ d \in 1 .. depth
    BY <1>3, <2>1
  <2>6. QED
    BY <1>1, <1>5, <2>2, <2>3, <2>4, <2>5 DEF ReturnsFinal
<1>6. ASSUME popMask, PopBlock PROVE <1>a!1
  <2>1. /\ depth' = depth - 1 /\ depth \in Levels
        /\ \A d \in 1 .. depth' : d # depth /\ d \in 1 .. depth
    BY <1>1, <1>6, <1>3, MaxDepthAssumption DEF popMask, TypeOK, Levels
  <2>2. ActiveLanes' \subseteq ReturnMask
    BY <1>6 DEF popMask
  <2>3. \A d \in 1 .. depth' : kind'[d] = kind[d] /\ Outer'[d] = Outer[d]
    BY <1>1, <1>3, <1>6, <2>1 DEF PopBlock, TypeOK
  <2>4. QED
    BY <1>1, <1>3, <2>1, <2>2, <2>3 DEF ReturnsFinal
<1>7. ASSUME ElseTop PROVE <1>a!1
  <2>1. ActiveLanes' \subseteq ReturnMask /\ depth' = depth /\ Outer' = Outer
    BY <1>7 DEF ElseTop, invertLastPushedMask
  <2>2. \A d \in 1 .. depth : kind'[d] = "loop" => kind[d] = "loop"
    BY <1>1, <1>3, <1>7 DEF ElseTop, TypeOK
  <2>3. QED
    BY <1>1, <1>3, <2>1, <2>2 DEF ReturnsFinal
<1>8. ASSUME LoopBack PROVE <1>a!1
  <2>1. depth \in 1 .. depth /\ kind[depth] = "loop"
    BY <1>3, <1>8 DEF LoopBack, InBlock
  <2>2. ActiveLanes' \subseteq Outer[depth]
    BY <1>8 DEF LoopBack
  <2>3. QED
    BY <1>1, <1>8, <2>1, <2>2 DEF ReturnsFinal, LoopBack, blocks
<1>9. ASSUME NEW c \in Conds, NEW h \in BOOLEAN, IfTop(c, h) PROVE <1>a!1
  <2> DEFINE k == IF h THEN "thenelse" ELSE "then"
  <2>1. k # "loop"
    OBVIOUS
  <2>2. pushMask(Holds(env, c)) /\ PushBlock(k, {}, {})
    BY <1>9 DEF IfTop
  <2> HIDE DEF k
  <2>3. QED
    BY <1>5, <2>1, <2>2
<1>10. ASSUME NEW c \in Conds, LoopTop(c) PROVE <1>a!1
  <2>1. pushMask(Holds(env, c)) /\ PushBlock("loop", ActiveLanes, c)
    BY <1>10 DEF LoopTop
  <2>2. QED
    BY <1>5, <2>1
<1>11. QED
  BY <1>4, <1>6, <1>7, <1>8, <1>9, <1>10 DEF Next, EndIf, LoopEnd

(* In a function without a return inside a loop, a lane that has returned  *)
(* takes part in nothing that follows, and every lane's result is what its *)
(* scalar instance returns.                                                *)
THEOREM ResultsTheorem ==
  ~ReturnInLoops /\ Spec => [](ReturnedLanesInactive /\ ResultsMatchScalar)
<1> SUFFICES ASSUME ~ReturnInLoops
             PROVE  Spec => [](ReturnedLanesInactive /\ ResultsMatchScalar)
  OBVIOUS
<1>1. ASSUME IInv, RInv, [Next]_vars PROVE RInv'
  <2>1. CASE Next
    <3>1. CASE \E e \in Exprs : Return(e)
      BY <1>1, <3>1, ReturnStep
    <3>2. CASE \A e \in Exprs : ~Return(e)
      BY <1>1, <2>1, <3>2, OtherSteps
    <3>3. QED
      BY <3>1, <3>2
  <2>2. CASE UNCHANGED vars
    BY <1>1, <2>2 DEF RInv, ReturnsFinal, Returned, vars, machine, reference, blocks
  <2>3. QED
    BY <1>1, <2>1, <2>2
<1>2. RInv => ReturnedLanesInactive /\ ResultsMatchScalar
  BY DEF RInv, ReturnsFinal, ReturnedLanesInactive, ResultsMatchScalar
<1>3. QED
  BY InitInv, Invariant, <1>1, <1>2, PTL DEF Spec

(* A lane that has returned stays off, unless the return is in a loop. *)
THEOREM InactiveTheorem == ~ReturnInLoops /\ Spec => []ReturnedLanesInactive
  BY ResultsTheorem, PTL

-----------------------------------------------------------------------------
(* Functions. *)
FInv == code \in Functions /\ pc \in 1..Len(code) + 1

LEMMA FStep == FInv /\ [FNext]_fvars => FInv' /\ [Next]_vars
<1> SUFFICES ASSUME FInv, [FNext]_fvars PROVE FInv' /\ [Next]_vars OBVIOUS
<1>1. CASE UNCHANGED fvars BY <1>1 DEF FInv, fvars
<1>2. CASE FNext
  <2> DEFINE i == code[pc]
  <2>1. Len(code) \in Nat /\ pc \in 1..Len(code) /\ code' = code
    BY <1>2, FunctionsAssumption DEF FNext, FInv
  <2>2. /\ i.stmt \in {"assign", "return"} => i.arg \in Exprs
        /\ i.stmt \in {"if", "ifelse", "while"} => i.arg \in Conds
        /\ i.stmt \in {"if", "ifelse", "else", "while"} => i.to \in pc..Len(code)
        /\ i.stmt = "endwhile" => i.to \in 1..pc
    BY <2>1, FunctionsAssumption DEF FInv
  <2>3. ASSUME pc' = pc + 1 \/ pc' \in 1..Len(code) + 1 PROVE FInv'
    BY <2>1, <2>3 DEF FInv
  <2>4. ASSUME SkipOrNext, i.to \in pc..Len(code) PROVE FInv'
    BY <2>1, <2>3, <2>4 DEF SkipOrNext
  <2>5. CASE DoAssign BY <2>2, <2>3, <2>5 DEF DoAssign, At, Sequence, Next
  <2>6. CASE DoIf BY <2>2, <2>4, <2>6 DEF DoIf, At, Next
  <2>7. CASE DoIfElse BY <2>2, <2>4, <2>7 DEF DoIfElse, At, Next
  <2>8. CASE DoElse BY <2>2, <2>4, <2>8 DEF DoElse, At, Next
  <2>9. CASE DoEndIf BY <2>3, <2>9 DEF DoEndIf, Sequence, Next
  <2>10. CASE DoWhile BY <2>2, <2>4, <2>10 DEF DoWhile, At, Next
  <2>11. CASE DoLoopBack
    <3>1. pc' \in 1..Len(code) + 1 BY <2>1, <2>2, <2>11 DEF DoLoopBack, At
    <3> QED BY <2>3, <2>11, <3>1 DEF DoLoopBack, Next
  <2>12. CASE DoLoopEnd BY <2>3, <2>12 DEF DoLoopEnd, Sequence, Next
  <2>13. CASE DoReturn BY <2>2, <2>3, <2>13 DEF DoReturn, At, Sequence, Next
  <2> QED
    BY <1>2, <2>5, <2>6, <2>7, <2>8, <2>9, <2>10, <2>11, <2>12, <2>13 DEF FNext
<1> QED BY <1>1, <1>2

(* A compiled function implements SPMDMask. *)
THEOREM FunctionsImplement == FSpec => Spec
<1>1. FInit => Init /\ FInv BY FunctionsAssumption DEF FInit, FInv
<1> QED BY <1>1, FStep, PTL DEF FSpec, Spec

(* The types, the lanes that have not returned, and without returns in     *)
(* loops the results, of every function.                                   *)
THEOREM FunctionsCorrect ==
  FSpec => /\ []TypeOK
           /\ []UnreturnedLanesMatch
           /\ ~ReturnInLoops => [](ReturnedLanesInactive /\ ResultsMatchScalar)
BY FunctionsImplement, TypeCorrect, UnreturnedTheorem, ResultsTheorem, PTL
=============================================================================
