----------------------------- MODULE NyuziBits -----------------------------
(***************************************************************************)
(* Instruction words and the numbers put into them, as sets of one bits.   *)
(***************************************************************************)
EXTENDS Integers

(* A number in two's complement, with 64 bits: i is in it when v \div 2^i  *)
(* is odd.  The divisor is taken in three parts since the integers of TLC  *)
(* have only 32 bits.                                                      *)
Bits(v) ==
  {i \in 0 .. 63 :
     (((v \div 2^(i \div 3)) \div 2^((i + 1) \div 3)) \div 2^((i + 2) \div 3)) % 2 = 1}
Shl(s, n) == {i + n : i \in s}
Shr(s, n) == {i - n : i \in {j \in s : j >= n}}
Low(s, n) == {i \in s : i < n}
Word32(s) == Low(s, 32)

(* n bits of a word from position lo, and n bits put there. *)
Extract(w, lo, n) == Low(Shr(w, lo), n)
Insert(s, lo, n) == Shl(Low(s, n), lo)

(* SignExtend32<n> *)
SignExtend(s, n) == Low(s, n) \cup (IF n - 1 \in s THEN n .. 31 ELSE {})

(* Does a 64 bit number fit in n bits, signed or unsigned? *)
isInt(n, s) == n - 1 .. 63 \subseteq s \/ \A i \in s : i < n - 1
isUInt(n, s) == \A i \in s : i < n
=============================================================================
