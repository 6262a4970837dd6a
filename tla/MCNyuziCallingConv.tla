------------------------- MODULE MCNyuziCallingConv -------------------------
(* Signatures for TLC: up to MaxArgs arguments and MaxRets results. *)
EXTENDS NyuziCallingConv

CONSTANTS MaxArgs, MaxRets

SeqsUpTo(S, n) == UNION {[1..m -> S] : m \in 0..n}

(* Results that fit the return registers; else LowerReturn gives up. *)
Fits(rets) ==
  \A t \in Types :
    LET same(u) == Bank(u) = Bank(t)
    IN  Len(SelectSeq(rets, same)) <= RetRegs(t)

MCCalls ==
  {c \in [args : SeqsUpTo(Args, MaxArgs), named : 0..MaxArgs,
          isVarArg : BOOLEAN, sret : BOOLEAN, rets : SeqsUpTo(Types, MaxRets)] :
     /\ c.named <= Len(c.args)
     /\ ~c.isVarArg => c.named = Len(c.args)
     /\ c.sret => c.named > 0 /\ c.args[1] = [type |-> "i32", byval |-> FALSE]
                  /\ c.rets = <<>>
     /\ c.rets # <<>> => Len(c.args) <= 1
     /\ Fits(c.rets)}
=============================================================================
