----------------------------- MODULE NyuziWord -----------------------------
(***************************************************************************)
(* The machine words that the Nyuzi back end computes with, and the scalar *)
(* ALU instructions that NyuziISelLowering selects for atomic operations.  *)
(* A word is the set of its one bits, so that the bitwise instructions are *)
(* set operations; the arithmetic ones go through the word's value.        *)
(***************************************************************************)
EXTENDS Integers

CONSTANT WordBits              \* 32 in the hardware

ASSUME WordBitsAssumption == WordBits \in Nat \ {0}

Bits == 0 .. (WordBits - 1)
Word == SUBSET Bits

Zero == {}
One == {0}
MinusOne == Bits

ToNat(w) ==
  LET low[n \in 0 .. WordBits] ==      \* the value of the low n bits
        IF n = 0 THEN 0
        ELSE low[n - 1] + (IF n - 1 \in w THEN 2^(n - 1) ELSE 0)
  IN  low[WordBits]
FromNat(n) == {i \in Bits : (n \div (2^i)) % 2 = 1}

(***************************************************************************)
(* The instructions, by opcode.  The register and the immediate form of    *)
(* one instruction (ADDISSS, ADDISSI) compute the same result.             *)
(***************************************************************************)
ADDI(a, b) == FromNat(ToNat(a) + ToNat(b))
SUBI(a, b) == FromNat(ToNat(a) + 2^WordBits - ToNat(b))
ANDS(a, b) == a \cap b
ORS(a, b) == a \cup b
XORS(a, b) == (a \ b) \cup (b \ a)

ALU(opcode, a, b) ==
  CASE opcode = "ADDI" -> ADDI(a, b)
    [] opcode = "SUBI" -> SUBI(a, b)
    [] opcode = "AND"  -> ANDS(a, b)
    [] opcode = "OR"   -> ORS(a, b)
    [] opcode = "XOR"  -> XORS(a, b)
=============================================================================
