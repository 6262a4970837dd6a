--------------------------- MODULE MCSPMDFunction ---------------------------
(***************************************************************************)
(* Functions of tools/spmd-compile/test, for TLC.  A lane's variables are  *)
(* <<a, b, r>>, the two arguments and a local one, saturating at Top; a    *)
(* function's result is the tuple with the result in all three places.     *)
(***************************************************************************)
EXTENDS SPMDFunction, TLC

CONSTANT Top

Num == 0 .. Top
Sat(n) == IF n > Top THEN Top ELSE IF n < 0 THEN 0 ELSE n
MCValues == Num \X Num \X Num
MCInputs == (1 .. Top) \X (1 .. Top) \X {0}

Ins(stmt, arg, to) == [stmt |-> stmt, arg |-> arg, to |-> to]
Cond(P(_)) == {v \in MCValues : P(v)}
Result(n) == <<n, n, n>>

ReturnA == [v \in MCValues |-> Result(v[1])]
ReturnB == [v \in MCValues |-> Result(v[2])]
ReturnR == [v \in MCValues |-> Result(v[3])]
ReturnBPlus1 == [v \in MCValues |-> Result(Sat(v[2] + 1))]
SubAB == [v \in MCValues |-> <<Sat(v[1] - v[2]), v[2], v[3]>>]
SubBA == [v \in MCValues |-> <<v[1], Sat(v[2] - v[1]), v[3]>>]
SetRDiff == [v \in MCValues |-> <<v[1], v[2], Sat(v[1] - v[2])>>]
SetRBMinusA == [v \in MCValues |-> <<v[1], v[2], Sat(v[2] - v[1])>>]
SetRB == [v \in MCValues |-> <<v[1], v[2], v[2]>>]
SetRA == [v \in MCValues |-> <<v[1], v[2], v[1]>>]
AddRB == [v \in MCValues |-> <<v[1], v[2], Sat(v[3] + v[2])>>]
ZeroB == [v \in MCValues |-> <<v[1], 0, v[3]>>]
IncB == [v \in MCValues |-> <<v[1], Sat(v[2] + 1), v[3]>>]
DecA == [v \in MCValues |-> <<Sat(v[1] - 1), v[2], v[3]>>]

AGtB == Cond(LAMBDA v : v[1] > v[2])
BGt1 == Cond(LAMBDA v : v[2] > 1)
ANeB == Cond(LAMBDA v : v[1] # v[2])
AGt0 == Cond(LAMBDA v : v[1] > 0)
AGt1 == Cond(LAMBDA v : v[1] > 1)
ALt2 == Cond(LAMBDA v : v[1] < 2)
BLtA == Cond(LAMBDA v : v[2] < v[1])

(* gcd.c *)
gcd == <<Ins("while", ANeB, 7), Ins("ifelse", AGtB, 4), Ins("assign", SubAB, 0),
         Ins("else", {}, 6), Ins("assign", SubBA, 0), Ins("endif", {}, 0),
         Ins("endwhile", {}, 1), Ins("return", ReturnA, 0)>>
(* return.c *)
returnstmt == <<Ins("if", AGtB, 3), Ins("return", ReturnA, 0),
                Ins("endif", {}, 0), Ins("return", ReturnBPlus1, 0)>>
(* nestedif.c, with its comparisons with 0 moved to 1, inside the inputs *)
nestedif == <<Ins("ifelse", AGtB, 7), Ins("ifelse", AGt1, 4),
              Ins("assign", SetRDiff, 0), Ins("else", {}, 6),
              Ins("assign", SetRB, 0), Ins("endif", {}, 0),
              Ins("else", {}, 13), Ins("ifelse", BGt1, 10),
              Ins("assign", SetRBMinusA, 0), Ins("else", {}, 12),
              Ins("assign", SetRA, 0), Ins("endif", {}, 0),
              Ins("endif", {}, 0), Ins("return", ReturnR, 0)>>
(* for-loop.c, with b for i and r for sum *)
forloop == <<Ins("assign", ZeroB, 0), Ins("while", BLtA, 5),
             Ins("assign", AddRB, 0), Ins("assign", IncB, 0),
             Ins("endwhile", {}, 2), Ins("return", ReturnR, 0)>>
(* A return in both branches of an if, and one in a nested if. *)
returns == <<Ins("ifelse", AGtB, 5), Ins("if", AGt1, 4),
             Ins("return", ReturnA, 0), Ins("endif", {}, 0),
             Ins("else", {}, 7), Ins("return", ReturnB, 0),
             Ins("endif", {}, 0), Ins("assign", DecA, 0),
             Ins("return", ReturnA, 0)>>
(* A loop behind a return, whose condition lanes that returned satisfy:    *)
(*     if (b > 1) return b;  while (a > 1) a = a - 1;  return a;           *)
returnloop == <<Ins("if", BGt1, 3), Ins("return", ReturnB, 0),
                Ins("endif", {}, 0), Ins("while", AGt1, 6),
                Ins("assign", DecA, 0), Ins("endwhile", {}, 4),
                Ins("return", ReturnA, 0)>>
(* A loop that is left by a return:                                        *)
(*     while (a > 0) { a = a - 1; if (a < 2) return a; }  return a;        *)
loopreturn == <<Ins("while", AGt0, 6), Ins("assign", DecA, 0),
                Ins("if", ALt2, 5), Ins("return", ReturnA, 0),
                Ins("endif", {}, 0), Ins("endwhile", {}, 1),
                Ins("return", ReturnA, 0)>>

MCFunctions == {gcd, returnstmt, nestedif, forloop, returns, returnloop}
LoopReturnFunctions == {loopreturn}

MCExprs == {ReturnA, ReturnB, ReturnR, ReturnBPlus1, SubAB, SubBA, SetRDiff,
            SetRBMinusA, SetRB, SetRA, AddRB, ZeroB, IncB, DecA}
MCConds == {AGtB, BLtA, BGt1, ANeB, AGt0, AGt1, ALt2}
LaneSymmetry == Permutations(Lanes)
=============================================================================
