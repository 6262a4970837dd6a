---------------------------- MODULE SPMDFunction ----------------------------
(***************************************************************************)
(* SPMDMask driven by one function: the basic blocks that AstNode.cpp      *)
(* emits, laid out in a row, with the branches between them.  Every        *)
(* iteration of a loop executes the same body, as in the emitted code.     *)
(***************************************************************************)
EXTENDS SPMDMask, Sequences

CONSTANT Functions   \* the functions compiled: sequences of instructions

(* What AstNode.cpp makes: every branch stays in the function, and only    *)
(* that of a loop goes back.                                               *)
ASSUME FunctionsAssumption ==
  \A f \in Functions :
    /\ Len(f) \in Nat \ {0}
    /\ \A i \in 1..Len(f) :
         /\ f[i].stmt \in {"assign", "return"} => f[i].arg \in Exprs
         /\ f[i].stmt \in {"if", "ifelse", "while"} => f[i].arg \in Conds
         /\ f[i].stmt \in {"if", "ifelse", "else", "while"} => f[i].to \in i..Len(f)
         /\ f[i].stmt = "endwhile" => f[i].to \in 1..i

(* An instruction: `arg` is an expression or a condition, `to` the index   *)
(* of the instruction it branches to.                                      *)
VARIABLES code, pc

fvars == <<vars, code, pc>>

At(stmt) == code[pc].stmt = stmt

(* SequenceAst::generate: the next statement follows. *)
Sequence == pc' = pc + 1
(* shortCircuitZeroMask(SkipTo, Next) *)
SkipOrNext == pc' = IF skipped' THEN code[pc].to ELSE pc + 1

FInit ==
  /\ Init
  /\ code \in Functions
  /\ pc = 1

DoAssign == At("assign") /\ Assign(code[pc].arg) /\ Sequence
DoIf == At("if") /\ IfTop(code[pc].arg, FALSE) /\ SkipOrNext
DoIfElse == At("ifelse") /\ IfTop(code[pc].arg, TRUE) /\ SkipOrNext
DoElse == At("else") /\ ElseTop /\ SkipOrNext
DoEndIf == At("endif") /\ EndIf /\ Sequence
DoWhile == At("while") /\ LoopTop(code[pc].arg) /\ SkipOrNext
(* branch(LoopTopBB), whose short circuit leads to LoopEndBB, the index of *)
(* this instruction; `to` is the loop's first.                             *)
DoLoopBack ==
  /\ At("endwhile")
  /\ LoopBack
  /\ pc' = IF skipped' THEN pc ELSE code[pc].to + 1
DoLoopEnd == At("endwhile") /\ LoopEnd /\ Sequence
DoReturn == At("return") /\ Return(code[pc].arg) /\ Sequence

FNext ==
  /\ pc <= Len(code)
  /\ UNCHANGED code
  /\ \/ DoAssign \/ DoIf \/ DoIfElse \/ DoElse \/ DoEndIf
     \/ DoWhile \/ DoLoopBack \/ DoLoopEnd \/ DoReturn

FSpec == FInit /\ [][FNext]_fvars

(* The emitted code is straight-line machine code: it runs on. *)
FairFSpec == FSpec /\ WF_fvars(FNext)

-----------------------------------------------------------------------------
(* A vector loop ends once every lane's own loop has: the masks of lanes   *)
(* that have left never bring the loop back to life.                       *)
Terminates == <>done
=============================================================================
