------------------------ MODULE NyuziAssembly_proofs ------------------------
(***************************************************************************)
(* Proofs about NyuziAssembly: what is written in an instruction is what   *)
(* the processor takes out of it, or is refused, for all offsets,          *)
(* addresses, numbers and registers.                                       *)
(*                                                                         *)
(* Numbers.  Bit i of a number is (v \div 2^i) % 2, negative or not.  The  *)
(* sum over the bits of a field is therefore v % 2^n, and with a sign v    *)
(* itself when v fits (FieldIs, SignedFieldIs).  The provers know nothing  *)
(* of 2^n, so that Powers checks those up to 2^32 one by one.              *)
(*                                                                         *)
(* Fixups.  Holds says which bits a field has when a value is in it; the   *)
(* two copies of the layout, the assembler's and the linker's, leave the   *)
(* same bits there (Applied, Relocated), and instructions read them back   *)
(* (ReadsWhatItHolds).  FixupInv follows a fixup: its field is 0 until it  *)
(* is filled in, and it is filled in once, by the one who knows the        *)
(* value.                                                                  *)
(*                                                                         *)
(* Operands.  Fields are compared bit by bit: what the emitter puts where  *)
(* (EncodingIs), what is taken out of a word (TakenOut, ValueIs), and      *)
(* when it is the same (ComesBack).  OperandInv says that the              *)
(* instructions made so far are a function of the text, and so are their   *)
(* encodings.                                                              *)
(***************************************************************************)
EXTENDS NyuziAssembly, TLAPS, WellFoundedInduction, SequenceTheorems

-----------------------------------------------------------------------------
(* Powers of two, as far as a word has bits. *)
LEMMA Powers ==
  ASSUME NEW k \in 0 .. 31
  PROVE  2^k \in Nat \ {0} /\ 2^(k + 1) = 2 * 2^k
<1>1. k \in 0 .. 7 =>
          k = 0 \/ k = 1 \/ k = 2 \/ k = 3 \/ k = 4 \/ k = 5 \/ k = 6 \/ k = 7
  OBVIOUS
<1>2. k \in 8 .. 15 =>
          k = 8 \/ k = 9 \/ k = 10 \/ k = 11 \/ k = 12 \/ k = 13 \/ k = 14 \/ k = 15
  OBVIOUS
<1>3. k \in 16 .. 23 =>
          k = 16 \/ k = 17 \/ k = 18 \/ k = 19 \/ k = 20 \/ k = 21 \/ k = 22 \/ k = 23
  OBVIOUS
<1>4. k \in 24 .. 31 =>
          k = 24 \/ k = 25 \/ k = 26 \/ k = 27 \/ k = 28 \/ k = 29 \/ k = 30 \/ k = 31
  OBVIOUS
<1>5. CASE k = 0  BY <1>5
<1>6. CASE k = 1  BY <1>6
<1>7. CASE k = 2  BY <1>7
<1>8. CASE k = 3  BY <1>8
<1>9. CASE k = 4  BY <1>9
<1>10. CASE k = 5  BY <1>10
<1>11. CASE k = 6  BY <1>11
<1>12. CASE k = 7  BY <1>12
<1>13. CASE k = 8  BY <1>13
<1>14. CASE k = 9  BY <1>14
<1>15. CASE k = 10  BY <1>15
<1>16. CASE k = 11  BY <1>16
<1>17. CASE k = 12  BY <1>17
<1>18. CASE k = 13  BY <1>18
<1>19. CASE k = 14  BY <1>19
<1>20. CASE k = 15  BY <1>20
<1>21. CASE k = 16  BY <1>21
<1>22. CASE k = 17  BY <1>22
<1>23. CASE k = 18  BY <1>23
<1>24. CASE k = 19  BY <1>24
<1>25. CASE k = 20  BY <1>25
<1>26. CASE k = 21  BY <1>26
<1>27. CASE k = 22  BY <1>27
<1>28. CASE k = 23  BY <1>28
<1>29. CASE k = 24  BY <1>29
<1>30. CASE k = 25  BY <1>30
<1>31. CASE k = 26  BY <1>31
<1>32. CASE k = 27  BY <1>32
<1>33. CASE k = 28  BY <1>33
<1>34. CASE k = 29  BY <1>34
<1>35. CASE k = 30  BY <1>35
<1>36. CASE k = 31  BY <1>36
<1> QED
  BY <1>1, <1>2, <1>3, <1>4,
     <1>5, <1>6, <1>7, <1>8, <1>9, <1>10, <1>11, <1>12, <1>13, <1>14,
     <1>15, <1>16, <1>17, <1>18, <1>19, <1>20, <1>21, <1>22, <1>23, <1>24,
     <1>25, <1>26, <1>27, <1>28, <1>29, <1>30, <1>31, <1>32, <1>33, <1>34,
     <1>35, <1>36

(* A set that has 0 and with a number its successor has all up to n. *)
LEMMA Induct ==
  ASSUME NEW n \in Nat, NEW S, 0 \in S,
         \A i \in 0 .. (n - 1) : i \in S => i + 1 \in S
  PROVE  \A i \in 0 .. n : i \in S
<1> DEFINE R == {ss \in Nat \X Nat : ss[1] < ss[2]}
           T == {i \in 0 .. n : i \notin S}
<1>1. SUFFICES ASSUME T # {} PROVE FALSE
  OBVIOUS
<1>2. IsWellFoundedOn(R, Nat)
  BY NatLessThanWellFounded, Zenon DEF OpToRel
<1>3. T \subseteq Nat
  OBVIOUS
<1>4. PICK i \in T : \A j \in T : <<j, i>> \notin R
  <2> HIDE DEF R, T
  <2> QED BY <1>1, <1>2, <1>3, WFMin
<1>5. i \in Nat /\ i \in 0 .. n /\ i \notin S /\ i # 0
  BY <1>4
<1>6. i - 1 \in S
  <2>1. i - 1 \in Nat /\ <<i - 1, i>> \in R /\ i - 1 \in 0 .. n
    BY <1>5
  <2> QED BY <1>4, <2>1
<1>7. i - 1 \in 0 .. (n - 1) /\ (i - 1) + 1 = i
  BY <1>5
<1> QED BY <1>5, <1>6, <1>7

LEMMA PowerSum ==
  ASSUME NEW m \in 0 .. 32, NEW n \in 0 .. 32, m + n <= 32
  PROVE  2^m \in Nat \ {0} /\ 2^n \in Nat \ {0} /\ 2^(m + n) = 2^m * 2^n
<1>1. \A k \in 0 .. 32 : 2^k \in Nat \ {0}
  <2>1. ASSUME NEW k \in 0 .. 32 PROVE 2^k \in Nat \ {0}
    <3>1. CASE k = 32
      BY <3>1
    <3>2. CASE k # 32
      <4>1. k \in 0 .. 31
        BY <3>2
      <4> QED BY <4>1, Powers
    <3> QED BY <3>1, <3>2
  <2> QED BY <2>1
<1> DEFINE S == {k \in 0 .. n : 2^(m + k) = 2^m * 2^k}
<1>2. 0 \in S
  <2>1. m + 0 = m /\ 2^0 = 1
    OBVIOUS
  <2> QED BY <1>1, <2>1
<1>3. ASSUME NEW k \in 0 .. (n - 1), k \in S PROVE k + 1 \in S
  <2>1. /\ k \in 0 .. 31 /\ m + k \in 0 .. 31 /\ k + 1 \in 0 .. n
        /\ m + (k + 1) = (m + k) + 1
    BY <1>3
  <2>2. 2^(k + 1) = 2 * 2^k /\ 2^((m + k) + 1) = 2 * 2^(m + k) /\ 2^(m + k) = 2^m * 2^k
    BY <1>3, <2>1, Powers
  <2>3. 2^m \in Nat /\ 2^k \in Nat
    <3>1. k \in 0 .. 32
      BY <2>1
    <3> QED BY <1>1, <3>1
  <2>4. 2^(m + (k + 1)) = 2 * (2^m * 2^k)
    BY <2>1, <2>2
  <2>5. 2 * (2^m * 2^k) = 2^m * (2 * 2^k)
    BY <2>3
  <2> QED BY <2>1, <2>2, <2>4, <2>5
<1>4. n \in S
  <2> HIDE DEF S
  <2>1. \A k \in 0 .. n : k \in S
    BY <1>2, <1>3, Induct
  <2> QED BY <2>1
<1> QED BY <1>1, <1>4

LEMMA DivDiv ==
  ASSUME NEW v \in Int, NEW x \in Nat \ {0}, NEW y \in Nat \ {0}
  PROVE  v \div x \in Int /\ (v \div x) \div y = v \div (x * y)
OBVIOUS

(* The bits of a number, and those of the number above one of them. *)
LEMMA BitIs ==
  ASSUME NEW v \in Int, NEW i \in 0 .. 31
  PROVE  i \in Bits(v) <=> (v \div 2^i) % 2 = 1
<1> DEFINE a == i \div 3
           b == (i + 1) \div 3
           c == (i + 2) \div 3
<1>1. a \in 0 .. 31 /\ b \in 0 .. 31 /\ c \in 0 .. 31 /\ a + b \in 0 .. 31 /\ (a + b) + c = i
  OBVIOUS
<1> HIDE DEF a, b, c
<1>2. /\ 2^a \in Nat \ {0} /\ 2^b \in Nat \ {0} /\ 2^c \in Nat \ {0}
      /\ 2^(a + b) \in Nat \ {0}
      /\ 2^(a + b) = 2^a * 2^b /\ 2^i = 2^(a + b) * 2^c
  <2>1. a + b <= 32 /\ (a + b) + c <= 32 /\ a + b \in 0 .. 32 /\ a \in 0 .. 32 /\
          b \in 0 .. 32 /\ c \in 0 .. 32
    BY <1>1
  <2>2. 2^a \in Nat \ {0} /\ 2^b \in Nat \ {0} /\ 2^(a + b) = 2^a * 2^b
    BY <2>1, PowerSum
  <2>3. 2^(a + b) \in Nat \ {0} /\ 2^c \in Nat \ {0} /\ 2^((a + b) + c) = 2^(a + b) * 2^c
    BY <2>1, PowerSum
  <2> QED BY <1>1, <2>2, <2>3
<1> DEFINE A == 2^a
           B == 2^b
           C == 2^c
           AB == 2^(a + b)
           E == 2^i
<1>3. /\ A \in Nat \ {0} /\ B \in Nat \ {0} /\ C \in Nat \ {0} /\ AB \in Nat \ {0}
      /\ AB = A * B /\ E = AB * C
  BY <1>2
<1>4. i \in Bits(v) <=> (((v \div A) \div B) \div C) % 2 = 1
  BY DEF Bits, a, b, c
<1> SUFFICES i \in Bits(v) <=> (v \div E) % 2 = 1
  OBVIOUS
<1> HIDE DEF A, B, C, AB, E
<1>5. (v \div A) \div B = v \div AB
  BY <1>3, DivDiv
<1>6. (v \div AB) \div C = v \div E
  BY <1>3, DivDiv
<1> QED BY <1>4, <1>5, <1>6

LEMMA BitAbove ==
  ASSUME NEW v \in Int, NEW m \in 0 .. 31, NEW i \in 0 .. 31, m + i <= 31
  PROVE  v \div 2^m \in Int /\ (m + i \in Bits(v) <=> i \in Bits(v \div 2^m))
<1> DEFINE M == 2^m
           A == 2^i
           B == 2^(m + i)
<1>1. M \in Nat \ {0} /\ A \in Nat \ {0} /\ B = M * A
  <2>1. m \in 0 .. 32 /\ i \in 0 .. 32 /\ m + i <= 32
    OBVIOUS
  <2> QED BY <2>1, PowerSum
<1>2. v \div M \in Int /\ (v \div M) \div A = v \div B
  <2> HIDE DEF M, A, B
  <2> QED BY <1>1, DivDiv
<1>3. m + i \in Bits(v) <=> (v \div 2^(m + i)) % 2 = 1
  <2>1. m + i \in 0 .. 31
    OBVIOUS
  <2> QED BY <2>1, BitIs
<1>4. i \in Bits(v \div 2^m) <=> ((v \div 2^m) \div 2^i) % 2 = 1
  BY <1>2, BitIs
<1> QED BY <1>2, <1>3, <1>4

-----------------------------------------------------------------------------
(* The value of a field: its bits are those of v, so it is v without what  *)
(* the field does not hold.                                                *)
LEMMA OneMore ==
  ASSUME NEW v \in Int, NEW p \in Nat \ {0}
  PROVE  v % (2 * p) = (v % p) + (IF (v \div p) % 2 = 1 THEN p ELSE 0)
<1> DEFINE q == v \div p
           r == v % p
           h == q \div 2
           b == q % 2
<1>1. q \in Int /\ r \in 0 .. (p - 1) /\ v = p * q + r
  OBVIOUS
<1>2. h \in Int /\ b \in {0, 1} /\ q = 2 * h + b
  BY <1>1
<1>3. p * q = (2 * p) * h + p * b
  <2> HIDE DEF h, b
  <2> QED BY <1>1, <1>2
<1> HIDE DEF q, r
<1>4. v = (2 * p) * h + (p * b + r) /\ p * b + r \in 0 .. (2 * p - 1)
  <2> HIDE DEF h, b
  <2>1. v = (2 * p) * h + (p * b + r)
    BY <1>1, <1>2, <1>3
  <2>2. p * b \in {0, p}
    BY <1>2
  <2>3. p * b + r \in 0 .. (2 * p - 1)
    BY <1>1, <2>2
  <2> QED BY <2>1, <2>3
<1>5. v % (2 * p) = p * b + r
  <2> HIDE DEF h, b
  <2> DEFINE d == 2 * p
             t == p * b + r
  <2>1. d \in Nat \ {0} /\ h \in Int /\ t \in 0 .. (d - 1) /\ v = d * h + t
    BY <1>2, <1>4
  <2> HIDE DEF d, t
  <2>2. v % d = t
    <3>1. v % d \in 0 .. (d - 1) /\ v = d * (v \div d) + (v % d) /\ v \div d \in Int
      BY <2>1
    <3> DEFINE e == v \div d
               u == v % d
    <3>2. d * (h - e) = u - t /\ e \in Int /\ u \in 0 .. (d - 1)
      BY <2>1, <3>1
    <3> HIDE DEF e, u
    <3>3. CASE h - e >= 1
      <4>1. d * (h - e) >= d
        BY <2>1, <3>2, <3>3
      <4> QED BY <2>1, <3>2, <4>1
    <3>4. CASE h - e <= -1
      <4>1. d * (h - e) <= -d
        BY <2>1, <3>2, <3>4
      <4> QED BY <2>1, <3>2, <4>1
    <3>5. CASE h = e
      BY <2>1, <3>2, <3>5 DEF u
    <3> QED BY <2>1, <3>2, <3>3, <3>4, <3>5
  <2> QED BY <2>2 DEF d, t
<1>6. CASE b = 1
  <2>1. p * b = p
    BY <1>6
  <2> QED BY <1>5, <1>6, <1>1, <2>1 DEF q, r
<1>7. CASE b = 0
  <2>1. p * b = 0
    BY <1>7
  <2> QED BY <1>5, <1>7, <1>1, <2>1 DEF q, r
<1> QED BY <1>2, <1>6, <1>7

LEMMA FieldIs ==
  ASSUME NEW w, NEW lo \in Nat, NEW n \in 0 .. 31, NEW v \in Int,
         \A k \in 0 .. (n - 1) : lo + k \in w <=> k \in Bits(v)
  PROVE  Field(w, lo, n) = v % 2^n
<1> DEFINE F(f, k) == IF k = 0 THEN 0
                      ELSE f[k - 1] + IF lo + k - 1 \in w THEN 2^(k - 1) ELSE 0
           value == CHOOSE f : f = [k \in 0 .. n |-> F(f, k)]
           g == [k \in 0 .. n |-> v % 2^k]
<1>1. ASSUME NEW k \in 1 .. n
      PROVE  v % 2^k = (v % 2^(k - 1)) + IF lo + k - 1 \in w THEN 2^(k - 1) ELSE 0
  <2>1. k - 1 \in 0 .. (n - 1) /\ k - 1 \in 0 .. 31 /\ (k - 1) + 1 = k /\
          lo + (k - 1) = lo + k - 1
    OBVIOUS
  <2>2. 2^(k - 1) \in Nat \ {0} /\ 2^k = 2 * 2^(k - 1)
    BY <2>1, Powers
  <2>3. lo + k - 1 \in w <=> (v \div 2^(k - 1)) % 2 = 1
    BY <2>1, BitIs
  <2> QED BY <2>2, <2>3, OneMore
<1>2. v % 2^0 = 0
  <2>1. 2^0 = 1
    OBVIOUS
  <2> QED BY <2>1
<1>3. g = [k \in 0 .. n |-> F(g, k)]
  <2>1. ASSUME NEW k \in 0 .. n PROVE g[k] = F(g, k)
    <3>1. CASE k = 0
      BY <1>2, <3>1
    <3>2. CASE k # 0
      <4>1. k \in 1 .. n /\ k - 1 \in 0 .. n
        BY <3>2
      <4> QED BY <1>1, <3>2, <4>1
    <3> QED BY <3>1, <3>2
  <2>2. g = [k \in 0 .. n |-> g[k]]
    OBVIOUS
  <2> HIDE DEF g
  <2> QED BY <2>1, <2>2
<1>4. value = [k \in 0 .. n |-> F(value, k)]
  <2> HIDE DEF g, F
  <2> QED BY <1>3
<1> DEFINE S == {k \in 0 .. n : value[k] = v % 2^k}
<1> HIDE DEF value
<1>5. 0 \in S
  <2>1. value[0] = F(value, 0)
    BY <1>4
  <2> QED BY <1>2, <2>1
<1>6. ASSUME NEW k \in 0 .. (n - 1), k \in S PROVE k + 1 \in S
  <2>1. k + 1 \in 1 .. n /\ k + 1 \in 0 .. n /\ (k + 1) - 1 = k /\ k + 1 # 0
    OBVIOUS
  <2>2. value[k + 1] = F(value, k + 1)
    BY <1>4, <2>1
  <2>3. value[k + 1] = value[k] + IF lo + (k + 1) - 1 \in w THEN 2^k ELSE 0
    BY <2>1, <2>2
  <2>4. v % 2^(k + 1) = (v % 2^k) + IF lo + (k + 1) - 1 \in w THEN 2^k ELSE 0
    BY <1>1, <2>1
  <2> QED BY <1>6, <2>1, <2>3, <2>4
<1>7. value[n] = v % 2^n
  <2>1. \A k \in 0 .. n : k \in S
    <3> HIDE DEF S
    <3> QED BY <1>5, <1>6, Induct
  <2> QED BY <2>1
<1>8. Field(w, lo, n) = value[n]
  BY DEF Field, value
<1> QED BY <1>7, <1>8

(* The same with a sign, for a number that fits. *)
LEMMA SignedFieldIs ==
  ASSUME NEW w, NEW lo \in Nat, NEW n \in 1 .. 31, NEW v \in Int, isIntN(n, v),
         \A k \in 0 .. (n - 1) : lo + k \in w <=> k \in Bits(v)
  PROVE  SignedField(w, lo, n) = v
<1> DEFINE p == 2^(n - 1)
<1>1. n - 1 \in 0 .. 31 /\ (n - 1) + 1 = n /\ n - 1 \in 0 .. (n - 1) /\
        lo + (n - 1) = lo + n - 1
  OBVIOUS
<1>2. p \in Nat \ {0} /\ 2^n = 2 * p
  BY <1>1, Powers
<1>3. Field(w, lo, n) = v % (2 * p)
  <2>1. n \in 0 .. 31
    OBVIOUS
  <2> QED BY <1>2, <2>1, FieldIs
<1>4. -p <= v /\ v < p
  BY DEF isIntN
<1>5. lo + n - 1 \in w <=> (v \div p) % 2 = 1
  BY <1>1, BitIs
<1> HIDE DEF p
<1>6. CASE v >= 0
  <2>1. v \div p = 0 /\ v % (2 * p) = v
    BY <1>2, <1>4, <1>6
  <2>2. (v \div p) % 2 = 0
    BY <2>1
  <2> QED BY <1>2, <1>3, <1>5, <2>1, <2>2 DEF SignedField
<1>7. CASE v < 0
  <2>1. v \div p = -1 /\ v % (2 * p) = v + 2 * p
    BY <1>2, <1>4, <1>7
  <2>2. (v \div p) % 2 = 1
    BY <2>1
  <2> QED BY <1>2, <1>3, <1>5, <2>1, <2>2 DEF SignedField
<1> QED BY <1>6, <1>7

-----------------------------------------------------------------------------
(* The bits that a fixup of kind k with the value v leaves in a word w. *)
Holds(k, w, v) ==
  CASE k = "Branch20" -> \A j \in 0 .. 19 : 5 + j \in w <=> j \in Bits(Quotient4(v))
    [] k = "Branch25" -> \A j \in 0 .. 24 : j \in w <=> j \in Bits(Quotient4(v))
    [] k = "HI19"     -> /\ \A j \in 0 .. 4 : j \in w <=> 13 + j \in Bits(v)
                         /\ \A j \in 0 .. 13 : 10 + j \in w <=> 18 + j \in Bits(v)
    [] k = "IMM_LO13" -> /\ \A j \in 0 .. 12 : 10 + j \in w <=> j \in Bits(v)
                         /\ 23 \notin w
    [] k = "GOT"      -> \A j \in 0 .. 14 : 10 + j \in w <=> j \in Bits(v)
    [] k = "Data_4"   -> w = Word32(Bits(v))

(* What the instruction makes of them. *)
Reads(k, w, v) ==
  CASE k = "Branch20" -> SignedField(w, 5, 20) = Quotient4(v)
    [] k = "Branch25" -> SignedField(w, 0, 25) = Quotient4(v)
    [] k = "HI19"     -> Field(w, 0, 5) + 2^5 * Field(w, 10, 14) = (v \div 2^13) % 2^19
    [] k = "IMM_LO13" -> SignedField(w, 10, 14) = v % 2^13
    [] k = "GOT"      -> SignedField(w, 10, 15) = v
    [] k = "Data_4"   -> w = Word32(Bits(v))

LEMMA QuotientIs ==
  ASSUME NEW v \in Int
  PROVE  Quotient4(v) \in Int /\ (v % 4 = 0 => 4 * Quotient4(v) = v)
BY DEF Quotient4

(* The low part of a number has its low bits. *)
LEMMA LowPartBits ==
  ASSUME NEW v \in Int
  PROVE  /\ v % 8192 \in 0 .. 8191
         /\ \A j \in 0 .. 12 : j \in Bits(v % 8192) <=> j \in Bits(v)
         /\ 13 \notin Bits(v % 8192)
<1> DEFINE r == v % 8192
<1>1. r \in 0 .. 8191 /\ r \in Int
  OBVIOUS
<1>2. ASSUME NEW j \in 0 .. 12 PROVE (r \div 2^j) % 2 = (v \div 2^j) % 2
  <2>1. j = 0 \/ j = 1 \/ j = 2 \/ j = 3 \/ j = 4 \/ j = 5 \/ j = 6
            \/ j = 7 \/ j = 8 \/ j = 9 \/ j = 10 \/ j = 11 \/ j = 12
    OBVIOUS
  <2>2. CASE j = 0  BY <2>2, SMTT(30)
  <2>3. CASE j = 1  BY <2>3, SMTT(30)
  <2>4. CASE j = 2  BY <2>4, SMTT(30)
  <2>5. CASE j = 3  BY <2>5, SMTT(30)
  <2>6. CASE j = 4  BY <2>6, SMTT(30)
  <2>7. CASE j = 5  BY <2>7, SMTT(30)
  <2>8. CASE j = 6  BY <2>8, SMTT(30)
  <2>9. CASE j = 7  BY <2>9, SMTT(30)
  <2>10. CASE j = 8  BY <2>10, SMTT(30)
  <2>11. CASE j = 9  BY <2>11, SMTT(30)
  <2>12. CASE j = 10  BY <2>12, SMTT(30)
  <2>13. CASE j = 11  BY <2>13, SMTT(30)
  <2>14. CASE j = 12  BY <2>14, SMTT(30)
  <2> QED
    BY <2>1, <2>2, <2>3, <2>4, <2>5, <2>6, <2>7, <2>8,
       <2>9, <2>10, <2>11, <2>12, <2>13, <2>14
<1>3. (r \div 2^13) % 2 = 0
  BY <1>1
<1> HIDE DEF r
<1>4. \A j \in 0 .. 12 : j \in Bits(r) <=> j \in Bits(v)
  <2> SUFFICES ASSUME NEW j \in 0 .. 12 PROVE j \in Bits(r) <=> j \in Bits(v)
    OBVIOUS
  <2>1. j \in 0 .. 31
    OBVIOUS
  <2> QED BY <1>1, <1>2, <2>1, BitIs
<1>5. 13 \notin Bits(r)
  <2>1. 13 \in 0 .. 31
    OBVIOUS
  <2> QED BY <1>1, <1>3, <2>1, BitIs
<1> QED BY <1>1, <1>4, <1>5, SMTT(30) DEF r

LEMMA ReadsWhatItHolds ==
  ASSUME NEW k \in Kinds, NEW w, NEW v \in Int, Holds(k, w, v), checkInt(k, v)
  PROVE  Reads(k, w, v)
<1>1. CASE k = "Branch20"
  <2>1. Quotient4(v) \in Int /\ isIntN(20, Quotient4(v))
    BY <1>1, QuotientIs DEF checkInt
  <2>2. \A j \in 0 .. (20 - 1) : 5 + j \in w <=> j \in Bits(Quotient4(v))
    BY <1>1 DEF Holds
  <2>3. SignedField(w, 5, 20) = Quotient4(v)
    BY <2>1, <2>2, SignedFieldIs
  <2> QED BY <1>1, <2>3 DEF Reads
<1>2. CASE k = "Branch25"
  <2>1. Quotient4(v) \in Int /\ isIntN(25, Quotient4(v))
    BY <1>2, QuotientIs DEF checkInt
  <2>2. \A j \in 0 .. (25 - 1) : 0 + j \in w <=> j \in Bits(Quotient4(v))
    BY <1>2 DEF Holds
  <2>3. SignedField(w, 0, 25) = Quotient4(v)
    BY <2>1, <2>2, SignedFieldIs
  <2> QED BY <1>2, <2>3 DEF Reads
<1>3. CASE k = "HI19"
  <2> DEFINE u == v \div 2^13
             t == v \div 2^18
  <2>1. \A j \in 0 .. (5 - 1) : 0 + j \in w <=> j \in Bits(u)
    <3> SUFFICES ASSUME NEW j \in 0 .. 4 PROVE j \in w <=> j \in Bits(u)
      OBVIOUS
    <3>1. j \in w <=> 13 + j \in Bits(v)
      BY <1>3 DEF Holds
    <3>2. 13 \in 0 .. 31 /\ j \in 0 .. 31 /\ 13 + j <= 31
      OBVIOUS
    <3> QED BY <3>1, <3>2, BitAbove
  <2>2. \A j \in 0 .. (14 - 1) : 10 + j \in w <=> j \in Bits(t)
    <3> SUFFICES ASSUME NEW j \in 0 .. 13 PROVE 10 + j \in w <=> j \in Bits(t)
      OBVIOUS
    <3>1. 10 + j \in w <=> 18 + j \in Bits(v)
      BY <1>3 DEF Holds
    <3>2. 18 \in 0 .. 31 /\ j \in 0 .. 31 /\ 18 + j <= 31
      OBVIOUS
    <3> QED BY <3>1, <3>2, BitAbove
  <2>3. u \in Int /\ t \in Int /\ t = u \div 32
    OBVIOUS
  <2> HIDE DEF u, t
  <2>4. Field(w, 0, 5) = u % 2^5
    <3>1. 0 \in Nat /\ 5 \in 0 .. 31 /\ u \in Int
      BY <2>3
    <3> QED BY <2>1, <3>1, FieldIs, ZenonT(40)
  <2>5. Field(w, 10, 14) = t % 2^14
    <3>1. 10 \in Nat /\ 14 \in 0 .. 31 /\ t \in Int
      BY <2>3
    <3> QED BY <2>2, <3>1, FieldIs, ZenonT(40)
  <2>6. (u % 2^5) + 2^5 * (t % 2^14) = u % 2^19
    BY <2>3
  <2> QED BY <1>3, <2>4, <2>5, <2>6 DEF Reads, u
<1>4. CASE k = "IMM_LO13"
  <2> DEFINE r == v % 2^13
  <2>1. r = v % 8192
    OBVIOUS
  <2>2. r \in Int /\ isIntN(14, r)
    BY DEF isIntN
  <2>3. /\ \A j \in 0 .. 12 : j \in Bits(r) <=> j \in Bits(v)
        /\ 13 \notin Bits(r)
    BY <2>1, LowPartBits, SMTT(30)
  <2> HIDE DEF r
  <2>4. \A j \in 0 .. (14 - 1) : 10 + j \in w <=> j \in Bits(r)
    <3> SUFFICES ASSUME NEW j \in 0 .. 13 PROVE 10 + j \in w <=> j \in Bits(r)
      OBVIOUS
    <3>1. CASE j = 13
      <4>1. 10 + j = 23 /\ 23 \notin w
        BY <1>4, <3>1 DEF Holds
      <4> QED BY <2>3, <3>1, <4>1
    <3>2. CASE j # 13
      <4>1. j \in 0 .. 12
        BY <3>2
      <4>2. 10 + j \in w <=> j \in Bits(v)
        BY <1>4, <4>1 DEF Holds
      <4> QED BY <2>3, <4>1, <4>2
    <3> QED BY <3>1, <3>2
  <2>5. SignedField(w, 10, 14) = r
    BY <2>2, <2>4, SignedFieldIs
  <2> QED BY <1>4, <2>5 DEF Reads, r
<1>5. CASE k = "GOT"
  <2>1. isIntN(15, v)
    BY <1>5 DEF checkInt
  <2>2. \A j \in 0 .. (15 - 1) : 10 + j \in w <=> j \in Bits(v)
    BY <1>5 DEF Holds
  <2>3. SignedField(w, 10, 15) = v
    BY <2>1, <2>2, SignedFieldIs
  <2> QED BY <1>5, <2>3 DEF Reads
<1>6. CASE k = "Data_4"
  BY <1>6 DEF Holds, Reads
<1> QED BY <1>1, <1>2, <1>3, <1>4, <1>5, <1>6 DEF Kinds, Branches

-----------------------------------------------------------------------------
(* Words as sets of bits. *)
LEMMA BitsType ==
  ASSUME NEW v
  PROVE  Bits(v) \subseteq 0 .. 63 /\ Bits(v) \subseteq Nat
BY DEF Bits

LEMMA ShlIs ==
  ASSUME NEW s, s \subseteq Nat, NEW n \in Nat
  PROVE  /\ Shl(s, n) \subseteq Nat
         /\ \A x \in Int : x \in Shl(s, n) <=> x - n \in s
<1>1. Shl(s, n) \subseteq Nat
  <2>1. ASSUME NEW x \in Shl(s, n) PROVE x \in Nat
    <3>1. PICK i \in s : x = i + n
      BY <2>1 DEF Shl
    <3>2. i \in Nat
      OBVIOUS
    <3> QED BY <3>1, <3>2
  <2> QED BY <2>1
<1>2. ASSUME NEW x \in Int PROVE x \in Shl(s, n) <=> x - n \in s
  <2>1. ASSUME x - n \in s PROVE x \in Shl(s, n)
    <3>1. (x - n) + n = x
      OBVIOUS
    <3> QED BY <2>1, <3>1 DEF Shl
  <2>2. ASSUME x \in Shl(s, n) PROVE x - n \in s
    <3>1. PICK i \in s : x = i + n
      BY <2>2 DEF Shl
    <3>2. x - n = i
      BY <3>1
    <3> QED BY <3>2
  <2> QED BY <2>1, <2>2
<1> QED BY <1>1, <1>2

LEMMA ShrIs ==
  ASSUME NEW s, s \subseteq Nat, NEW n \in Nat
  PROVE  /\ Shr(s, n) \subseteq Nat
         /\ \A x \in Nat : x \in Shr(s, n) <=> x + n \in s
<1>1. Shr(s, n) \subseteq Nat
  <2>1. ASSUME NEW x \in Shr(s, n) PROVE x \in Nat
    <3>1. PICK i \in {j \in s : j >= n} : x = i - n
      BY <2>1 DEF Shr
    <3>2. i \in Nat /\ i >= n
      BY <3>1
    <3> QED BY <3>1, <3>2
  <2> QED BY <2>1
<1>2. ASSUME NEW x \in Nat PROVE x \in Shr(s, n) <=> x + n \in s
  <2>1. ASSUME x + n \in s PROVE x \in Shr(s, n)
    <3>1. (x + n) - n = x /\ x + n \in {j \in s : j >= n}
      BY <2>1
    <3> QED BY <3>1 DEF Shr
  <2>2. ASSUME x \in Shr(s, n) PROVE x + n \in s
    <3>1. PICK i \in {j \in s : j >= n} : x = i - n
      BY <2>2 DEF Shr
    <3>2. x + n = i
      BY <3>1
    <3> QED BY <3>1, <3>2
  <2> QED BY <2>1, <2>2
<1> QED BY <1>1, <1>2

LEMMA LowIs ==
  ASSUME NEW s, s \subseteq Nat, NEW n
  PROVE  /\ Low(s, n) \subseteq Nat
         /\ \A x : x \in Low(s, n) <=> x \in s /\ x < n
BY DEF Low

LEMMA SameBits ==
  ASSUME NEW r, r \subseteq Nat, NEW w, w \subseteq Nat, \A x \in Nat : x \in r <=> x \in w
  PROVE  r = w
<1>1. \A x : x \in r <=> x \in w
  OBVIOUS
<1> QED BY <1>1

LEMMA SameOutside ==
  ASSUME NEW r, r \subseteq Nat, NEW w, w \subseteq Nat, NEW F,
         \A x \in Nat : x \notin F => (x \in r <=> x \in w)
  PROVE  r \ F = w \ F
<1>1. \A x : x \in r \ F <=> x \in w \ F
  OBVIOUS
<1> QED BY <1>1

(* n bits of s at lo. *)
LEMMA PutBits ==
  ASSUME NEW s, s \subseteq Nat, NEW lo \in Nat, NEW n \in Nat
  PROVE  /\ Shl(Low(s, n), lo) \subseteq Nat
         /\ \A x \in Nat : x \in Shl(Low(s, n), lo) <=>
              x \in lo .. (lo + n - 1) /\ x - lo \in s
<1> DEFINE L == Low(s, n)
<1>1. L \subseteq Nat /\ \A x : x \in L <=> x \in s /\ x < n
  BY LowIs, Zenon
<1> HIDE DEF L
<1>2. Shl(L, lo) \subseteq Nat /\ \A x \in Int : x \in Shl(L, lo) <=> x - lo \in L
  BY <1>1, ShlIs, Zenon
<1>3. ASSUME NEW x \in Nat
      PROVE x \in Shl(L, lo) <=> x \in lo .. (lo + n - 1) /\ x - lo \in s
  <2>1. x \in Int
    OBVIOUS
  <2>2. x \in Shl(L, lo) <=> x - lo \in s /\ x - lo < n
    BY <1>1, <1>2, <2>1, Zenon
  <2>3. x - lo \in s => x - lo \in Nat
    OBVIOUS
  <2>4. x - lo \in Nat => (x - lo < n <=> x \in lo .. (lo + n - 1))
    OBVIOUS
  <2>5. x \in lo .. (lo + n - 1) => x - lo < n
    OBVIOUS
  <2> QED BY <2>2, <2>3, <2>4, <2>5, Zenon
<1> QED BY <1>2, <1>3, Zenon DEF L

(* By the linker, into any field ... *)
LEMMA LinkerPuts ==
  ASSUME NEW w, w \subseteq 0 .. 31, NEW s, s \subseteq Nat, NEW lo \in Nat, NEW n \in Nat,
           lo + n <= 32
  PROVE  /\ applyNyuziReloc(w, n, lo, s) \subseteq 0 .. 31
         /\ \A x \in Nat : x \in applyNyuziReloc(w, n, lo, s) <=>
                             IF x \in lo .. (lo + n - 1) THEN x - lo \in s ELSE x \in w
<1> DEFINE M == Shl(Low(s, n), lo)
           r == applyNyuziReloc(w, n, lo, s)
<1>1. M \subseteq Nat /\ \A x \in Nat : x \in M <=> x \in lo .. (lo + n - 1) /\ x - lo \in s
  BY PutBits, Zenon
<1>2. r = (w \ (lo .. (lo + n - 1))) \cup M
  BY DEF applyNyuziReloc
<1> HIDE DEF M, r
<1>3. \A x : x \in r <=> (x \in w /\ x \notin lo .. (lo + n - 1)) \/ x \in M
  BY <1>2
<1>4. \A x \in Nat : x \in lo .. (lo + n - 1) => x \in 0 .. 31
  OBVIOUS
<1>5. r \subseteq 0 .. 31
  <2>1. ASSUME NEW x \in r PROVE x \in 0 .. 31
    BY <1>1, <1>3, <1>4, Zenon
  <2> QED BY <2>1
<1>6. ASSUME NEW x \in Nat PROVE x \in r <=> IF x \in lo .. (lo + n - 1)
               THEN x - lo \in s ELSE x \in w
  BY <1>1, <1>3, Zenon
<1> QED BY <1>5, <1>6, Zenon DEF r

(* ... and by the assembler, into a field of zeroes. *)
LEMMA AssemblerPuts ==
  ASSUME NEW w, w \subseteq 0 .. 31, NEW s, s \subseteq Nat, NEW lo \in Nat, NEW n \in Nat,
           lo + n <= 32
  PROVE  /\ Word32(w \cup Shl(Low(s, n), lo)) \subseteq 0 .. 31
         /\ \A x \in Nat : x \in Word32(w \cup Shl(Low(s, n), lo)) <=>
                             x \in w \/ (x \in lo .. (lo + n - 1) /\ x - lo \in s)
<1> DEFINE M == Shl(Low(s, n), lo)
           r == Word32(w \cup M)
<1>1. M \subseteq Nat /\ \A x \in Nat : x \in M <=> x \in lo .. (lo + n - 1) /\ x - lo \in s
  BY PutBits, Zenon
<1>2. r = Low(w \cup M, 32)
  BY DEF Word32
<1> HIDE DEF M, r
<1>3. \A x : x \in r <=> (x \in w \/ x \in M) /\ x < 32
  BY <1>2 DEF Low
<1>4. \A x \in Nat : x \in lo .. (lo + n - 1) => x \in 0 .. 31
  OBVIOUS
<1>5. \A x \in 0 .. 31 : x < 32 /\ x \in Nat
  OBVIOUS
<1>6. \A x : x \in r <=> x \in w \/ x \in M
  BY <1>1, <1>3, <1>4, <1>5, Zenon
<1>7. r \subseteq 0 .. 31
  <2>1. ASSUME NEW x \in r PROVE x \in 0 .. 31
    BY <1>1, <1>6, <1>4, Zenon
  <2> QED BY <2>1
<1>8. ASSUME NEW x \in Nat PROVE x \in r <=> x \in w \/ (x \in lo .. (lo + n - 1) /\
               x - lo \in s)
  BY <1>1, <1>6, Zenon
<1> QED BY <1>7, <1>8, Zenon DEF r, M

(* The linker's own layout: the value is in the field, and nothing else is *)
(* touched.                                                                *)
LEMMA Relocated ==
  ASSUME NEW k \in Kinds, NEW w, w \subseteq 0 .. 31, NEW v \in Int,
         k = "IMM_LO13" => 23 \notin w
  PROVE  /\ Holds(k, relocateWord(k, w, v), v)
         /\ relocateWord(k, w, v) \subseteq 0 .. 31
         /\ k # "Data_4" => relocateWord(k, w, v) \ FieldBits(k) = w \ FieldBits(k)
<1> DEFINE B == Bits(v)
           Q == Bits(Quotient4(v))
           r == relocateWord(k, w, v)
<1>1. B \subseteq Nat /\ Q \subseteq Nat /\ w \subseteq Nat
  BY BitsType
<1>2. CASE k = "Branch20"
  <2> DEFINE n == 20
             lo == 5
             p == applyNyuziReloc(w, n, lo, Q)
  <2>1. r = p
    BY <1>2 DEF relocateWord
  <2> HIDE DEF r, Q
  <2>2. n \in Nat /\ lo \in Nat /\ lo + n <= 32
    OBVIOUS
  <2>3. r \subseteq 0 .. 31 /\ \A x \in Nat : x \in r <=>
          IF x \in lo .. (lo + n - 1) THEN x - lo \in Q ELSE x \in w
    <3> HIDE DEF n, lo
    <3>1. p \subseteq 0 .. 31 /\ \A x \in Nat : x \in p <=>
            IF x \in lo .. (lo + n - 1) THEN x - lo \in Q ELSE x \in w
      BY <1>1, <2>2, LinkerPuts, Zenon
    <3> HIDE DEF p
    <3> QED BY <2>1, <3>1, Zenon
  <2>4. FieldBits(k) = 5 .. 24
    BY <1>2 DEF FieldBits, TargetOffset, TargetSize
  <2>5. ASSUME NEW j \in 0 .. 19 PROVE 5 + j \in r <=> j \in Q
    <3>1. 5 + j \in Nat /\ 5 + j \in lo .. (lo + n - 1) /\ (5 + j) - lo = j
      OBVIOUS
    <3> HIDE DEF n, lo
    <3> QED BY <2>3, <3>1, Zenon
  <2>6. \A x \in Nat : x \notin FieldBits(k) => (x \in r <=> x \in w)
    BY <2>3, <2>4
  <2>7. r \ FieldBits(k) = w \ FieldBits(k)
    <3>1. r \subseteq Nat
      BY <2>3
    <3> QED BY <1>1, <2>6, <3>1, SameOutside, Zenon
  <2> QED BY <1>2, <2>3, <2>5, <2>7 DEF Holds, r, Q
<1>3. CASE k = "Branch25"
  <2> DEFINE n == 25
             lo == 0
             p == applyNyuziReloc(w, n, lo, Q)
  <2>1. r = p
    BY <1>3 DEF relocateWord
  <2> HIDE DEF r, Q
  <2>2. n \in Nat /\ lo \in Nat /\ lo + n <= 32
    OBVIOUS
  <2>3. r \subseteq 0 .. 31 /\ \A x \in Nat : x \in r <=>
          IF x \in lo .. (lo + n - 1) THEN x - lo \in Q ELSE x \in w
    <3> HIDE DEF n, lo
    <3>1. p \subseteq 0 .. 31 /\ \A x \in Nat : x \in p <=>
            IF x \in lo .. (lo + n - 1) THEN x - lo \in Q ELSE x \in w
      BY <1>1, <2>2, LinkerPuts, Zenon
    <3> HIDE DEF p
    <3> QED BY <2>1, <3>1, Zenon
  <2>4. FieldBits(k) = 0 .. 24
    BY <1>3 DEF FieldBits, TargetOffset, TargetSize
  <2>5. ASSUME NEW j \in 0 .. 24 PROVE j \in r <=> j \in Q
    <3>1. j \in Nat /\ j \in lo .. (lo + n - 1) /\ (j) - lo = j
      OBVIOUS
    <3> HIDE DEF n, lo
    <3> QED BY <2>3, <3>1, Zenon
  <2>6. \A x \in Nat : x \notin FieldBits(k) => (x \in r <=> x \in w)
    BY <2>3, <2>4
  <2>7. r \ FieldBits(k) = w \ FieldBits(k)
    <3>1. r \subseteq Nat
      BY <2>3
    <3> QED BY <1>1, <2>6, <3>1, SameOutside, Zenon
  <2> QED BY <1>3, <2>3, <2>5, <2>7 DEF Holds, r, Q
<1>4. CASE k = "HI19"
  <2> DEFINE n == 5
             lo == 0
             nn == 14
             ll == 10
             C == Shr(B, 13)
             D == Shr(B, 18)
             m == applyNyuziReloc(w, n, lo, C)
             p == applyNyuziReloc(m, nn, ll, D)
  <2>1. r = p
    BY <1>4 DEF relocateWord
  <2> HIDE DEF r, B
  <2>2. n \in Nat /\ lo \in Nat /\ lo + n <= 32 /\ nn \in Nat /\ ll \in Nat /\ ll + nn <= 32
    OBVIOUS
  <2>3. 13 \in Nat /\ 18 \in Nat
    OBVIOUS
  <2>4. C \subseteq Nat /\ \A x \in Nat : x \in C <=> x + 13 \in B
    BY <1>1, <2>3, ShrIs, Zenon
  <2>5. D \subseteq Nat /\ \A x \in Nat : x \in D <=> x + 18 \in B
    BY <1>1, <2>3, ShrIs, Zenon
  <2> HIDE DEF n, lo, nn, ll, C, D
  <2>6. m \subseteq 0 .. 31 /\ \A x \in Nat : x \in m <=>
          IF x \in lo .. (lo + n - 1) THEN x - lo \in C ELSE x \in w
    BY <2>2, <2>4, LinkerPuts, Zenon
  <2> HIDE DEF m
  <2>7. p \subseteq 0 .. 31 /\ \A x \in Nat : x \in p <=>
          IF x \in ll .. (ll + nn - 1) THEN x - ll \in D ELSE x \in m
    BY <2>2, <2>5, <2>6, LinkerPuts, Zenon
  <2> HIDE DEF p
  <2>8. r \subseteq 0 .. 31 /\ \A x \in Nat : x \in r <=>
          IF x \in ll .. (ll + nn - 1) THEN x - ll \in D ELSE x \in m
    BY <2>1, <2>7, Zenon
  <2>9. ASSUME NEW j \in 0 .. 4 PROVE j \in r <=> 13 + j \in B
    <3>1. j \in Nat /\ j \notin ll .. (ll + nn - 1) /\ j \in lo .. (lo + n - 1) /\
            j - lo = j /\ j + 13 = 13 + j
      BY DEF n, lo, nn, ll
    <3> QED BY <2>4, <2>6, <2>8, <3>1, Zenon
  <2>10. ASSUME NEW j \in 0 .. 13 PROVE 10 + j \in r <=> 18 + j \in B
    <3>1. j \in Nat /\ 10 + j \in Nat /\ 10 + j \in ll .. (ll + nn - 1) /\
            (10 + j) - ll = j /\ j + 18 = 18 + j
      BY DEF nn, ll
    <3> QED BY <2>5, <2>8, <3>1, Zenon
  <2>11. FieldBits(k) = (0 .. 4) \cup (10 .. 23)
    BY <1>4 DEF FieldBits
  <2>12. \A x \in Nat : x \notin FieldBits(k) => (x \in r <=> x \in w)
    <3> SUFFICES ASSUME NEW x \in Nat, x \notin FieldBits(k) PROVE x \in r <=> x \in w
      OBVIOUS
    <3>1. x \notin ll .. (ll + nn - 1) /\ x \notin lo .. (lo + n - 1)
      BY <2>11 DEF n, lo, nn, ll
    <3> QED BY <2>6, <2>8, <3>1, Zenon
  <2>13. r \ FieldBits(k) = w \ FieldBits(k)
    <3>1. r \subseteq Nat
      BY <2>8
    <3> QED BY <1>1, <2>12, <3>1, SameOutside, Zenon
  <2> QED BY <1>4, <2>8, <2>9, <2>10, <2>13 DEF Holds, r, B
<1>5. CASE k = "IMM_LO13"
  <2> DEFINE n == 13
             lo == 10
             p == applyNyuziReloc(w, n, lo, B)
  <2>1. r = p
    BY <1>5 DEF relocateWord
  <2> HIDE DEF r, B
  <2>2. n \in Nat /\ lo \in Nat /\ lo + n <= 32
    OBVIOUS
  <2>3. r \subseteq 0 .. 31 /\ \A x \in Nat : x \in r <=>
          IF x \in lo .. (lo + n - 1) THEN x - lo \in B ELSE x \in w
    <3> HIDE DEF n, lo
    <3>1. p \subseteq 0 .. 31 /\ \A x \in Nat : x \in p <=>
            IF x \in lo .. (lo + n - 1) THEN x - lo \in B ELSE x \in w
      BY <1>1, <2>2, LinkerPuts, Zenon
    <3> HIDE DEF p
    <3> QED BY <2>1, <3>1, Zenon
  <2>4. FieldBits(k) = 10 .. 22
    BY <1>5 DEF FieldBits, TargetOffset, TargetSize
  <2>5. ASSUME NEW j \in 0 .. 12 PROVE 10 + j \in r <=> j \in B
    <3>1. 10 + j \in Nat /\ 10 + j \in lo .. (lo + n - 1) /\ (10 + j) - lo = j
      OBVIOUS
    <3> HIDE DEF n, lo
    <3> QED BY <2>3, <3>1, Zenon
  <2>6. \A x \in Nat : x \notin FieldBits(k) => (x \in r <=> x \in w)
    BY <2>3, <2>4
  <2>7. r \ FieldBits(k) = w \ FieldBits(k)
    <3>1. r \subseteq Nat
      BY <2>3
    <3> QED BY <1>1, <2>6, <3>1, SameOutside, Zenon
  <2>8. 23 \notin r
    <3>1. 23 \in Nat /\ 23 \notin lo .. (lo + n - 1)
      OBVIOUS
    <3> HIDE DEF n, lo
    <3> QED BY <1>5, <2>3, <3>1, Zenon
  <2> QED BY <1>5, <2>3, <2>5, <2>7, <2>8 DEF Holds, r, B
<1>6. CASE k = "GOT"
  <2> DEFINE n == 15
             lo == 10
             p == applyNyuziReloc(w, n, lo, B)
  <2>1. r = p
    BY <1>6 DEF relocateWord
  <2> HIDE DEF r, B
  <2>2. n \in Nat /\ lo \in Nat /\ lo + n <= 32
    OBVIOUS
  <2>3. r \subseteq 0 .. 31 /\ \A x \in Nat : x \in r <=>
          IF x \in lo .. (lo + n - 1) THEN x - lo \in B ELSE x \in w
    <3> HIDE DEF n, lo
    <3>1. p \subseteq 0 .. 31 /\ \A x \in Nat : x \in p <=>
            IF x \in lo .. (lo + n - 1) THEN x - lo \in B ELSE x \in w
      BY <1>1, <2>2, LinkerPuts, Zenon
    <3> HIDE DEF p
    <3> QED BY <2>1, <3>1, Zenon
  <2>4. FieldBits(k) = 10 .. 24
    BY <1>6 DEF FieldBits, TargetOffset, TargetSize
  <2>5. ASSUME NEW j \in 0 .. 14 PROVE 10 + j \in r <=> j \in B
    <3>1. 10 + j \in Nat /\ 10 + j \in lo .. (lo + n - 1) /\ (10 + j) - lo = j
      OBVIOUS
    <3> HIDE DEF n, lo
    <3> QED BY <2>3, <3>1, Zenon
  <2>6. \A x \in Nat : x \notin FieldBits(k) => (x \in r <=> x \in w)
    BY <2>3, <2>4
  <2>7. r \ FieldBits(k) = w \ FieldBits(k)
    <3>1. r \subseteq Nat
      BY <2>3
    <3> QED BY <1>1, <2>6, <3>1, SameOutside, Zenon
  <2> QED BY <1>6, <2>3, <2>5, <2>7 DEF Holds, r, B
<1>7. CASE k = "Data_4"
  <2>1. r = Word32(B)
    BY <1>7 DEF relocateWord
  <2>2. Word32(B) \subseteq 0 .. 31
    BY <1>1 DEF Word32, Low
  <2> QED BY <1>7, <2>1, <2>2 DEF Holds
<1> QED BY <1>2, <1>3, <1>4, <1>5, <1>6, <1>7 DEF Kinds, Branches

(* The assembler's: the field is still zero. *)
LEMMA Applied ==
  ASSUME NEW k \in Kinds, word \subseteq 0 .. 31, \A x \in word : x \notin OperandBits(k),
         NEW v \in Int
  PROVE  /\ ~outOfRange(k, v) => Holds(k, applyFixup(k, v), v)
         /\ applyFixup(k, v) \subseteq 0 .. 31
         /\ k # "Data_4" => applyFixup(k, v) \ FieldBits(k) = word
         /\ outOfRange(k, v) => applyFixup(k, v) = word
<1> DEFINE B == Bits(v)
           Q == Bits(Quotient4(v))
           n == TargetSize(k)
           lo == TargetOffset(k)
           V == IF outOfRange(k, v) THEN {} ELSE adjustFixupValue(k, v)
           r == applyFixup(k, v)
<1>1. B \subseteq 0 .. 63 /\ Q \subseteq 0 .. 63 /\ B \subseteq Nat /\ Q \subseteq Nat /\
        word \subseteq Nat
  BY BitsType
<1>2. n \in Nat /\ lo \in Nat /\ lo + n <= 32
  BY DEF TargetSize, TargetOffset, Kinds, Branches
<1>3. B \subseteq Nat
  BY BitsType
<1>4. adjustFixupValue(k, v) \subseteq Nat
  <2>1. CASE k \in Branches
    <3>1. k # "HI19"
      BY <2>1 DEF Branches
    <3>2. adjustFixupValue(k, v) = Word32(Q)
      BY <2>1, <3>1, Zenon DEF adjustFixupValue
    <3> QED BY <1>1, <3>2 DEF Word32, Low
  <2>2. CASE k = "HI19"
    <3>1. adjustFixupValue(k, v) = Low(Shr(B, 13), 5) \cup Shl(Low(Shr(B, 18), 14), 10)
      BY <2>2 DEF adjustFixupValue, Branches
    <3> HIDE DEF B
    <3>2. 10 \in Nat /\ 13 \in Nat /\ 14 \in Nat /\ 18 \in Nat
      OBVIOUS
    <3> DEFINE C == Shr(B, 13)
               D == Shr(B, 18)
    <3>3. C \subseteq Nat
      BY <1>3, <3>2, ShrIs, Zenon
    <3>4. D \subseteq Nat
      BY <1>3, <3>2, ShrIs, Zenon
    <3> HIDE DEF C, D
    <3>5. Low(C, 5) \subseteq Nat
      BY <3>3 DEF Low
    <3>6. Shl(Low(D, 14), 10) \subseteq Nat
      <4> DEFINE E == Low(D, 14)
      <4>1. E \subseteq Nat
        BY <3>4 DEF Low
      <4> HIDE DEF E
      <4>2. ASSUME NEW x \in Shl(E, 10) PROVE x \in Nat
        <5>1. PICK i \in E : x = i + 10
          BY <4>2 DEF Shl
        <5>2. i \in Nat
          BY <4>1
        <5> QED BY <5>1, <5>2
      <4> QED BY <4>2 DEF E
    <3> QED BY <3>1, <3>5, <3>6 DEF C, D
  <2>3. CASE k \notin Branches /\ k # "HI19"
    <3>1. adjustFixupValue(k, v) = Word32(B)
      BY <2>3 DEF adjustFixupValue
    <3> QED BY <1>1, <3>1 DEF Word32, Low
  <2> QED BY <2>1, <2>2, <2>3
<1>5. V \subseteq Nat
  BY <1>4
<1>6. r = Word32(word \cup Shl(Low(V, n), lo))
  BY DEF applyFixup
<1>7. /\ r \subseteq 0 .. 31 /\ r \subseteq Nat /\ word \subseteq Nat
      /\ \A x \in Nat : x \in r <=> x \in word \/ (x \in lo .. (lo + n - 1) /\ x - lo \in V)
  <2> HIDE DEF V, n, lo, r
  <2> DEFINE p == Word32(word \cup Shl(Low(V, n), lo))
  <2>1. /\ p \subseteq 0 .. 31
        /\ \A x \in Nat : x \in p <=> x \in word \/ (x \in lo .. (lo + n - 1) /\ x - lo \in V)
    BY <1>2, <1>5, AssemblerPuts, Zenon
  <2> HIDE DEF p
  <2>2. r = p
    BY <1>6 DEF p
  <2>3. r \subseteq Nat
    BY <2>1, <2>2
  <2> QED BY <1>1, <2>1, <2>2, <2>3, Zenon
<1>8. ASSUME outOfRange(k, v) PROVE r = word
  <2>1. V = {}
    BY <1>8
  <2> HIDE DEF V, n, lo, r
  <2>2. \A x \in Nat : x \in r <=> x \in word
    BY <1>7, <2>1
  <2> QED BY <1>7, <2>2, SameBits
<1>9. \A x : x \in word => x \notin FieldBits(k)
  BY DEF OperandBits
<1>10. word \ FieldBits(k) = word
  BY <1>9
<1>11. CASE outOfRange(k, v)
  BY <1>7, <1>8, <1>10, <1>11
<1>12. CASE ~outOfRange(k, v) /\ k \in Branches
  <2>1. V = Word32(Q)
    <3>1. k # "HI19"
      BY <1>12 DEF Branches
    <3>2. adjustFixupValue(k, v) = Word32(Q)
      BY <1>12, <3>1, Zenon DEF adjustFixupValue
    <3> QED BY <1>12, <3>2
  <2>2. \A x \in Nat : x \in V <=> x \in Q /\ x < 32
    BY <2>1 DEF Word32, Low
  <2>3. CASE k = "Branch20"
    <3>1. lo = 5 /\ n = 20
      BY <2>3 DEF TargetOffset, TargetSize
    <3>2. FieldBits(k) = 5 .. 24
      BY <2>3 DEF FieldBits, TargetOffset, TargetSize
    <3> HIDE DEF V, n, lo, r, Q
    <3>3. ASSUME NEW j \in 0 .. 19 PROVE 5 + j \in r <=> j \in Q
      <4>1. j \in Nat /\ j < 32 /\ 5 + j \in Nat /\ 5 + j \in 5 .. 24 /\
              (5 + j) - 5 = j /\ 5 + 20 - 1 = 24
        OBVIOUS
      <4>2. 5 + j \in r <=> 5 + j \in word \/ j \in V
        BY <1>7, <3>1, <4>1
      <4> QED BY <1>9, <2>2, <3>2, <4>1, <4>2, Zenon
    <3>4. Holds(k, r, v)
      BY <2>3, <3>3 DEF Holds, Q
    <3>5. r \ FieldBits(k) = word
      <4>1. \A x \in Nat : x \notin FieldBits(k) => (x \in r <=> x \in word)
        BY <1>7, <3>1, <3>2
      <4>2. r \ FieldBits(k) = word \ FieldBits(k)
        BY <1>7, <4>1, SameOutside
      <4> QED BY <1>10, <4>2
    <3> QED BY <1>7, <1>12, <3>4, <3>5 DEF r
  <2>4. CASE k = "Branch25"
    <3>1. lo = 0 /\ n = 25
      BY <2>4 DEF TargetOffset, TargetSize
    <3>2. FieldBits(k) = 0 .. 24
      BY <2>4 DEF FieldBits, TargetOffset, TargetSize
    <3> HIDE DEF V, n, lo, r, Q
    <3>3. ASSUME NEW j \in 0 .. 24 PROVE j \in r <=> j \in Q
      <4>1. j \in Nat /\ j < 32 /\ j \in Nat /\ j \in 0 .. 24 /\ (j) - 0 = j /\
              0 + 25 - 1 = 24
        OBVIOUS
      <4>2. j \in r <=> j \in word \/ j \in V
        BY <1>7, <3>1, <4>1
      <4> QED BY <1>9, <2>2, <3>2, <4>1, <4>2, Zenon
    <3>4. Holds(k, r, v)
      BY <2>4, <3>3 DEF Holds, Q
    <3>5. r \ FieldBits(k) = word
      <4>1. \A x \in Nat : x \notin FieldBits(k) => (x \in r <=> x \in word)
        BY <1>7, <3>1, <3>2
      <4>2. r \ FieldBits(k) = word \ FieldBits(k)
        BY <1>7, <4>1, SameOutside
      <4> QED BY <1>10, <4>2
    <3> QED BY <1>7, <1>12, <3>4, <3>5 DEF r
  <2> QED BY <1>12, <2>3, <2>4 DEF Branches
<1>13. CASE k = "HI19"
  <2> DEFINE L == Low(Shr(B, 13), 5)
             H == Shl(Low(Shr(B, 18), 14), 10)
  <2>1. lo = 0 /\ n = 32 /\ V = L \cup H /\ ~outOfRange(k, v)
    BY <1>13 DEF TargetOffset, TargetSize, adjustFixupValue, outOfRange, Branches
  <2> HIDE DEF V, n, lo, r, B
  <2>2. 5 \in Nat /\ 10 \in Nat /\ 13 \in Nat /\ 14 \in Nat /\ 18 \in Nat
    OBVIOUS
  <2>3. Shr(B, 13) \subseteq Nat /\ \A x \in Nat : x \in Shr(B, 13) <=> x + 13 \in B
    BY <1>3, <2>2, ShrIs, Zenon
  <2>4. Shr(B, 18) \subseteq Nat /\ \A x \in Nat : x \in Shr(B, 18) <=> x + 18 \in B
    BY <1>3, <2>2, ShrIs, Zenon
  <2>5. \A x : x \in L <=> x \in Shr(B, 13) /\ x < 5
    BY <2>3, LowIs, ZenonT(40)
  <2>6. \A x \in Nat : x \in H <=> x \in 10 .. (10 + 14 - 1) /\ x - 10 \in Shr(B, 18)
    BY <2>2, <2>4, PutBits, Zenon
  <2> HIDE DEF L, H
  <2>7. FieldBits(k) = (0 .. 4) \cup (10 .. 23)
    BY <1>13 DEF FieldBits
  <2>8. ASSUME NEW x \in Nat PROVE x \in r <=> x \in word \/ x \in L \/ x \in H
    <3>1. x \in V <=> x \in L \/ x \in H
      BY <2>1
    <3>2. x \in H => x < 32
      BY <2>6
    <3>3. x \in L => x < 32
      BY <2>5
    <3>4. x \in r <=> x \in word \/ (x < 32 /\ x \in V)
      BY <1>7, <2>1
    <3> QED BY <3>1, <3>2, <3>3, <3>4
  <2>9. ASSUME NEW j \in 0 .. 4 PROVE j \in r <=> 13 + j \in B
    <3>1. j \in Nat /\ j < 5 /\ j \notin 10 .. (10 + 14 - 1) /\ j + 13 = 13 + j /\
            j \in FieldBits(k)
      BY <2>7
    <3>2. j \in L <=> 13 + j \in B
      BY <2>3, <2>5, <3>1, Zenon
    <3> QED BY <1>9, <2>6, <2>8, <3>1, <3>2, Zenon
  <2>10. ASSUME NEW j \in 0 .. 13 PROVE 10 + j \in r <=> 18 + j \in B
    <3>1. /\ j \in Nat /\ 10 + j \in Nat /\ ~(10 + j < 5) /\ 10 + j \in 10 .. (10 + 14 - 1)
          /\ (10 + j) - 10 = j /\ j + 18 = 18 + j /\ 10 + j \in FieldBits(k)
      BY <2>7
    <3>2. 10 + j \in H <=> 18 + j \in B
      BY <2>4, <2>6, <3>1, Zenon
    <3> QED BY <1>9, <2>5, <2>8, <3>1, <3>2, Zenon
  <2>11. r \ FieldBits(k) = word
    <3>1. \A x \in Nat : x \notin FieldBits(k) => (x \in r <=> x \in word)
      <4> SUFFICES ASSUME NEW x \in Nat, x \notin FieldBits(k) PROVE x \in r <=> x \in word
        OBVIOUS
      <4>1. ~(x < 5) /\ x \notin 10 .. (10 + 14 - 1)
        BY <2>7
      <4> QED BY <2>5, <2>6, <2>8, <4>1, Zenon
    <3>2. r \ FieldBits(k) = word \ FieldBits(k)
      BY <1>7, <3>1, SameOutside
    <3> QED BY <1>10, <3>2
  <2>12. Holds(k, r, v)
    BY <1>13, <2>9, <2>10 DEF Holds, B
  <2> QED BY <1>7, <1>13, <2>1, <2>11, <2>12 DEF r
<1>14. CASE k \in {"IMM_LO13", "GOT"}
  <2>1. V = Word32(B) /\ ~outOfRange(k, v)
    BY <1>14 DEF adjustFixupValue, outOfRange, Branches
  <2>2. \A x \in Nat : x \in V <=> x \in B /\ x < 32
    BY <2>1 DEF Word32, Low
  <2>3. CASE k = "IMM_LO13"
    <3>1. lo = 10 /\ n = 13
      BY <2>3 DEF TargetOffset, TargetSize
    <3>2. FieldBits(k) = 10 .. 22
      BY <2>3 DEF FieldBits, TargetOffset, TargetSize
    <3> HIDE DEF V, n, lo, r, B
    <3>3. ASSUME NEW j \in 0 .. 12 PROVE 10 + j \in r <=> j \in B
      <4>1. j \in Nat /\ j < 32 /\ 10 + j \in Nat /\ 10 + j \in 10 .. 22 /\
              (10 + j) - 10 = j /\ 10 + 13 - 1 = 22
        OBVIOUS
      <4>2. 10 + j \in r <=> 10 + j \in word \/ j \in V
        BY <1>7, <3>1, <4>1
      <4> QED BY <1>9, <2>2, <3>2, <4>1, <4>2, Zenon
    <3>4. 23 \notin r
      <4>1. 23 \in Nat /\ 23 \notin lo .. (lo + n - 1) /\ 23 \notin word
        BY <2>3, <3>1 DEF OperandBits
      <4> QED BY <1>7, <4>1, Zenon
    <3>5. Holds(k, r, v)
      BY <2>3, <3>3, <3>4 DEF Holds, B
    <3>6. r \ FieldBits(k) = word
      <4>1. \A x \in Nat : x \notin FieldBits(k) => (x \in r <=> x \in word)
        BY <1>7, <3>1, <3>2
      <4>2. r \ FieldBits(k) = word \ FieldBits(k)
        BY <1>7, <4>1, SameOutside
      <4> QED BY <1>10, <4>2
    <3> QED BY <1>7, <2>1, <3>5, <3>6 DEF r
  <2>4. CASE k = "GOT"
    <3>1. lo = 10 /\ n = 15
      BY <2>4 DEF TargetOffset, TargetSize
    <3>2. FieldBits(k) = 10 .. 24
      BY <2>4 DEF FieldBits, TargetOffset, TargetSize
    <3> HIDE DEF V, n, lo, r, B
    <3>3. ASSUME NEW j \in 0 .. 14 PROVE 10 + j \in r <=> j \in B
      <4>1. j \in Nat /\ j < 32 /\ 10 + j \in Nat /\ 10 + j \in 10 .. 24 /\
              (10 + j) - 10 = j /\ 10 + 15 - 1 = 24
        OBVIOUS
      <4>2. 10 + j \in r <=> 10 + j \in word \/ j \in V
        BY <1>7, <3>1, <4>1
      <4> QED BY <1>9, <2>2, <3>2, <4>1, <4>2, Zenon
    <3>4. Holds(k, r, v)
      BY <2>4, <3>3 DEF Holds, B
    <3>5. r \ FieldBits(k) = word
      <4>1. \A x \in Nat : x \notin FieldBits(k) => (x \in r <=> x \in word)
        BY <1>7, <3>1, <3>2
      <4>2. r \ FieldBits(k) = word \ FieldBits(k)
        BY <1>7, <4>1, SameOutside
      <4> QED BY <1>10, <4>2
    <3> QED BY <1>7, <2>1, <3>4, <3>5 DEF r
  <2> QED BY <1>14, <2>3, <2>4
<1>15. CASE k = "Data_4"
  <2>1. lo = 0 /\ n = 32 /\ V = Word32(B) /\ ~outOfRange(k, v) /\ OperandBits(k) = 0 .. 31
    BY <1>15 DEF TargetOffset, TargetSize, adjustFixupValue, outOfRange, Branches,
         OperandBits, FieldBits
  <2>2. word = {}
    BY <2>1
  <2>3. \A x : x \in Word32(B) <=> x \in B /\ x < 32
    BY DEF Word32, Low
  <2> HIDE DEF V, n, lo, r, B
  <2>4. \A x \in Nat : x \in r <=> x \in Word32(B)
    BY <1>1, <1>7, <2>1, <2>2, <2>3
  <2>5. Word32(B) \subseteq Nat
    BY <1>1, <2>3
  <2>6. r = Word32(B)
    BY <1>7, <2>4, <2>5, SameBits
  <2> QED BY <1>7, <1>15, <2>1, <2>6 DEF Holds, B, r
<1> QED BY <1>11, <1>12, <1>13, <1>14, <1>15 DEF Kinds

-----------------------------------------------------------------------------
(* The fixup, on its way. *)
FixupTypes ==
  /\ kind \in Kinds /\ off \in Nat /\ got \in Nat
  /\ section \in Nat /\ section % 4 = 0
  /\ symbol[1] \in {"here", "elsewhere", "absolute"} /\ symbol[2] \in Int
  /\ kind \in Branches => symbol[1] # "absolute" /\ symbol[2] % 4 = 0 /\ off % 4 = 0
  /\ kind = "GOT" => symbol[1] # "absolute"
  /\ other \subseteq 0 .. 31 /\ \A x \in other : x \notin OperandBits(kind)
  /\ error \in BOOLEAN /\ stage \in {"idle", "assemble", "link", "done"}

(* Nobody can reach the symbol: the field is too small. *)
Unreachable ==
  \/ kind \in Branches /\ ~isIntN(TargetSize(kind) + 2, FinalAddress - section - off)
  \/ kind = "GOT" /\ ~isIntN(15, got)

(* The field is filled in once, by the assembler or by the linker: until   *)
(* then nothing but the emitter's 0 is in it, and if it is left to the     *)
(* linker, the addend is what the linker needs.                            *)
Untouched ==
  stage \in {"idle", "assemble"} => word = other /\ rela = <<"none", 0>> /\ error = FALSE
LeftToLinker ==
  stage = "link" /\ rela[1] # "none" =>
    /\ error = FALSE /\ word \subseteq 0 .. 31
    /\ kind = "IMM_LO13" => 23 \notin word
    /\ symbol[1] # "absolute"
    /\ kind \in Branches => symbol[1] = "elsewhere"
    /\ rela[2] = IF symbol[1] = "here" /\ kind # "GOT" THEN symbol[2] ELSE 0
FilledIn ==
  stage = "done" \/ (stage = "link" /\ rela[1] = "none") =>
    (error \/ DecodedRight) /\ (error => Unreachable)

FixupInv == FixupTypes /\ Untouched /\ LeftToLinker /\ FilledIn /\ OtherBitsKept

(* A distance in words fits the field exactly if that in bytes fits two    *)
(* bits more.                                                              *)
LEMMA Distances ==
  ASSUME NEW v \in Int, v % 4 = 0
  PROVE  /\ isIntN(20, Quotient4(v)) <=> isIntN(20 + 2, v)
         /\ isIntN(25, Quotient4(v)) <=> isIntN(25 + 2, v)
<1> DEFINE q == Quotient4(v)
<1>1. q \in Int /\ 4 * q = v
  BY QuotientIs
<1> HIDE DEF q
<1>2. isIntN(20, q) <=> isIntN(20 + 2, v)
  <2>1. isIntN(20, q) <=> -524288 <= q /\ q < 524288
    BY DEF isIntN
  <2>2. isIntN(20 + 2, v) <=> -2097152 <= v /\ v < 2097152
    BY DEF isIntN
  <2> QED BY <1>1, <2>1, <2>2
<1>3. isIntN(25, q) <=> isIntN(25 + 2, v)
  <2>1. isIntN(25, q) <=> -16777216 <= q /\ q < 16777216
    BY DEF isIntN
  <2>2. isIntN(25 + 2, v) <=> -67108864 <= v /\ v < 67108864
    BY DEF isIntN
  <2> QED BY <1>1, <2>1, <2>2
<1> QED BY <1>2, <1>3 DEF q

(* The number that has to be in the field, and the instruction that has it *)
(* there.                                                                  *)
Wanted ==
  CASE kind \in Branches -> FinalAddress - section - off
    [] kind = "GOT"      -> got
    [] OTHER             -> FinalAddress
Decodes(w) ==
  CASE kind = "Branch20" -> section + off + 4 * SignedField(w, 5, 20) = FinalAddress
    [] kind = "Branch25" -> section + off + 4 * SignedField(w, 0, 25) = FinalAddress
    [] kind = "HI19"     -> Field(w, 0, 5) + 2^5 * Field(w, 10, 14)
                              = (FinalAddress \div 2^13) % 2^19
    [] kind = "IMM_LO13" -> SignedField(w, 10, 14) = FinalAddress % 2^13
    [] kind = "GOT"      -> SignedField(w, 10, 15) = got
    [] kind = "Data_4"   -> w = Word32(Bits(FinalAddress))

LEMMA WantedIs ==
  ASSUME FixupTypes
  PROVE  /\ FinalAddress \in Int /\ Wanted \in Int
         /\ kind \in Branches => Wanted = FinalAddress - section - off /\ Wanted % 4 = 0
         /\ kind = "GOT" => Wanted = got
         /\ kind \notin Branches /\ kind # "GOT" => Wanted = FinalAddress
<1>1. FinalAddress \in Int
  BY DEF FinalAddress, FixupTypes
<1>2. CASE kind \in Branches
  <2>1. kind # "GOT"
    BY <1>2 DEF Branches
  <2>2. Wanted = FinalAddress - section - off
    BY <1>2, <2>1, Zenon DEF Wanted
  <2>3. off \in Int /\ section \in Int /\ symbol[2] \in Int
        /\ off % 4 = 0 /\ section % 4 = 0 /\ symbol[2] % 4 = 0
    BY <1>2 DEF FixupTypes
  <2>4. (FinalAddress - section - off) % 4 = 0
    <3>1. CASE symbol[1] = "here"
      <4> DEFINE a == symbol[2]
      <4>1. FinalAddress = section + a
        BY <3>1 DEF FinalAddress
      <4>2. a \in Int /\ a % 4 = 0
        BY <2>3
      <4> HIDE DEF a
      <4>3. FinalAddress - section - off = a - off
        BY <2>3, <4>1, <4>2
      <4> QED BY <2>3, <4>2, <4>3
    <3>2. CASE symbol[1] # "here"
      <4>1. FinalAddress = symbol[2]
        BY <3>2 DEF FinalAddress
      <4> QED BY <2>3, <4>1
    <3> QED BY <3>1, <3>2
  <2> QED BY <1>1, <1>2, <2>1, <2>2, <2>3, <2>4
<1>3. CASE kind = "GOT"
  <2>1. kind \notin Branches
    BY <1>3 DEF Branches
  <2>2. Wanted = got
    BY <1>3, <2>1, Zenon DEF Wanted
  <2> QED BY <1>1, <1>3, <2>1, <2>2 DEF FixupTypes
<1>4. CASE kind \notin Branches /\ kind # "GOT"
  <2>1. Wanted = FinalAddress
    BY <1>4, Zenon DEF Wanted
  <2> QED BY <1>1, <1>4, <2>1
<1> QED BY <1>2, <1>3, <1>4

(* An instruction whose field has it reaches the symbol, if it fits. *)
LEMMA DecodesWanted ==
  ASSUME FixupTypes, NEW w, Holds(kind, w, Wanted), checkInt(kind, Wanted)
  PROVE  Decodes(w)
<1> DEFINE v == Wanted
           F == FinalAddress
<1>1. kind \in Kinds /\ v \in Int /\ F \in Int /\ section \in Int /\ off \in Int
  BY WantedIs DEF FixupTypes
<1>2. Reads(kind, w, v)
  BY <1>1, ReadsWhatItHolds, Zenon
<1>3. ASSUME kind \in Branches PROVE section + off + 4 * Quotient4(v) = F
  <2>1. v = F - section - off /\ v % 4 = 0
    BY <1>3, WantedIs
  <2> HIDE DEF v, F
  <2>2. 4 * Quotient4(v) = v /\ Quotient4(v) \in Int
    BY <1>1, <2>1, QuotientIs
  <2>3. section + off + v = F
    BY <1>1, <2>1
  <2> QED BY <2>2, <2>3
<1>4. CASE kind = "Branch20"
  <2>1. SignedField(w, 5, 20) = Quotient4(v)
    BY <1>2, <1>4 DEF Reads
  <2>2. section + off + 4 * SignedField(w, 5, 20) = F
    BY <1>3, <1>4, <2>1 DEF Branches
  <2> QED BY <1>4, <2>2 DEF Decodes
<1>5. CASE kind = "Branch25"
  <2>1. SignedField(w, 0, 25) = Quotient4(v)
    BY <1>2, <1>5 DEF Reads
  <2>2. section + off + 4 * SignedField(w, 0, 25) = F
    BY <1>3, <1>5, <2>1 DEF Branches
  <2> QED BY <1>5, <2>2 DEF Decodes
<1>6. CASE kind = "GOT"
  <2>1. v = got
    BY <1>6, WantedIs
  <2>2. SignedField(w, 10, 15) = got
    BY <1>2, <1>6, <2>1 DEF Reads
  <2> QED BY <1>6, <2>2 DEF Decodes
<1>7. CASE kind \notin Branches /\ kind # "GOT"
  <2>1. v = F
    BY <1>7, WantedIs
  <2> HIDE DEF v, F
  <2>2. CASE kind = "HI19"
    BY <1>2, <2>1, <2>2 DEF Reads, Decodes, F
  <2>3. CASE kind = "IMM_LO13"
    BY <1>2, <2>1, <2>3 DEF Reads, Decodes, F
  <2>4. CASE kind = "Data_4"
    BY <1>2, <2>1, <2>4 DEF Reads, Decodes, F
  <2> QED BY <1>1, <1>7, <2>2, <2>3, <2>4 DEF Kinds
<1> QED BY <1>4, <1>5, <1>6, <1>7 DEF Branches

(* Neither the assembler nor the linker refuses what fits. *)
LEMMA RefusedUnreachable ==
  ASSUME FixupTypes
  PROVE  /\ outOfRange(kind, Wanted) => Unreachable
         /\ ~checkInt(kind, Wanted) => Unreachable
         /\ ~outOfRange(kind, Wanted) /\ kind # "GOT" => checkInt(kind, Wanted)
<1> DEFINE v == Wanted
<1>1. kind \in Kinds /\ v \in Int
  BY WantedIs DEF FixupTypes
<1>2. CASE kind = "Branch20"
  <2>1. v = FinalAddress - section - off /\ v % 4 = 0
    BY <1>2, WantedIs DEF Branches
  <2>2. TargetSize(kind) = 20 /\ kind \in Branches
    BY <1>2 DEF TargetSize, Branches
  <2>3. (checkInt(kind, v) <=> isIntN(20, Quotient4(v))) /\ (outOfRange(kind, v) <=>
          ~isIntN(20, Quotient4(v)))
    BY <1>2, <2>2 DEF checkInt, outOfRange
  <2>4. Unreachable <=> ~isIntN(20 + 2, v)
    BY <1>2, <2>1, <2>2 DEF Unreachable
  <2>5. isIntN(20, Quotient4(v)) <=> isIntN(20 + 2, v)
    BY <1>1, <2>1, Distances
  <2> QED BY <2>3, <2>4, <2>5
<1>3. CASE kind = "Branch25"
  <2>1. v = FinalAddress - section - off /\ v % 4 = 0
    BY <1>3, WantedIs DEF Branches
  <2>2. TargetSize(kind) = 25 /\ kind \in Branches
    BY <1>3 DEF TargetSize, Branches
  <2>3. (checkInt(kind, v) <=> isIntN(25, Quotient4(v))) /\ (outOfRange(kind, v) <=>
          ~isIntN(25, Quotient4(v)))
    BY <1>3, <2>2 DEF checkInt, outOfRange
  <2>4. Unreachable <=> ~isIntN(25 + 2, v)
    BY <1>3, <2>1, <2>2 DEF Unreachable
  <2>5. isIntN(25, Quotient4(v)) <=> isIntN(25 + 2, v)
    BY <1>1, <2>1, Distances
  <2> QED BY <2>3, <2>4, <2>5
<1>4. CASE kind = "GOT"
  <2>1. v = got
    BY <1>4, WantedIs
  <2>2. ~outOfRange(kind, v)
    BY <1>4 DEF outOfRange, Branches
  <2>3. checkInt(kind, v) <=> isIntN(15, got)
    BY <1>4, <2>1 DEF checkInt
  <2> QED BY <1>4, <2>2, <2>3 DEF Unreachable
<1>5. CASE kind \in {"HI19", "IMM_LO13", "Data_4"}
  BY <1>5 DEF outOfRange, checkInt, Branches
<1> QED BY <1>1, <1>2, <1>3, <1>4, <1>5 DEF Kinds, Branches

(* The invariant holds of what the emitter leaves, ... *)
LEMMA FixupStarts ==
  ASSUME Init \/ FixupIdle
  PROVE  FixupInv
<1>1. CASE Init
  <2>1. off \in Nat /\ section \in Nat /\ section % 4 = 0 /\ got \in Nat
    <3>1. off \in Nat
      BY <1>1, OffsetsAssumption DEF Init
    <3>2. section \in Nat /\ section % 4 = 0
      BY <1>1, SectionsAssumption DEF Init
    <3>3. got \in Nat
      <4>1. IF kind = "GOT" THEN got \in GotOffsets ELSE got = 0
        BY <1>1 DEF Init
      <4>2. CASE kind = "GOT"
        BY <4>1, <4>2, GotOffsetsAssumption
      <4>3. CASE kind # "GOT"
        BY <4>1, <4>3
      <4> QED BY <4>2, <4>3
    <3> QED BY <3>1, <3>2, <3>3
  <2>2. symbol[1] \in {"here", "elsewhere", "absolute"} /\ symbol[2] \in Int
    <3>1. CASE symbol \in {"here"} \X Offsets
      <4>1. symbol[1] = "here" /\ symbol[2] \in Offsets
        BY <3>1
      <4>2. symbol[2] \in Nat
        BY <4>1, OffsetsAssumption
      <4> QED BY <4>1, <4>2
    <3>2. CASE symbol \in {"elsewhere", "absolute"} \X Addresses
      BY <3>2, AddressesAssumption
    <3> QED BY <1>1, <3>1, <3>2 DEF Init
  <2>3. other \subseteq 0 .. 31 /\ \A x \in other : x \notin OperandBits(kind)
    <3>1. PICK bits \in OtherBits : other = bits \ OperandBits(kind)
      BY <1>1 DEF Init
    <3>2. bits \subseteq 0 .. 31
      BY OtherBitsAssumption
    <3> QED BY <3>1, <3>2
  <2>4. FixupTypes
    BY <1>1, <2>1, <2>2, <2>3 DEF Init, FixupTypes
  <2>5. Untouched /\ LeftToLinker /\ FilledIn
    BY <1>1 DEF Init, Untouched, LeftToLinker, FilledIn
  <2>6. \A x \in other : x \notin FieldBits(kind)
    BY <2>3 DEF OperandBits
  <2>7. word = other
    BY <1>1 DEF Init
  <2>8. word \ FieldBits(kind) = other
    BY <2>6, <2>7
  <2> QED BY <2>4, <2>5, <2>8 DEF FixupInv, OtherBitsKept
<1>2. CASE FixupIdle
  <2>1. FixupTypes
    <3>1. other = {} /\ section = 0
      BY <1>2 DEF FixupIdle
    <3>2. other \subseteq 0 .. 31 /\ \A x \in other : x \notin OperandBits(kind)
      BY <3>1
    <3>3. section \in Nat /\ section % 4 = 0
      BY <3>1
    <3>4. symbol[1] = "absolute" /\ symbol[2] = 0
      BY <1>2 DEF FixupIdle
    <3>5. kind \in Kinds /\ kind \notin Branches /\ kind # "GOT"
      BY <1>2 DEF FixupIdle, Kinds, Branches
    <3>6. off = 0 /\ got = 0 /\ error = FALSE /\ stage = "idle"
      BY <1>2 DEF FixupIdle
    <3>7. off \in Nat /\ got \in Nat /\ symbol[2] \in Int
      BY <3>4, <3>6
    <3> QED BY <3>2, <3>3, <3>4, <3>5, <3>6, <3>7 DEF FixupTypes
  <2>2. Untouched /\ LeftToLinker /\ FilledIn /\ OtherBitsKept
    BY <1>2 DEF FixupIdle, Untouched, LeftToLinker, FilledIn, OtherBitsKept
  <2> QED BY <2>1, <2>2 DEF FixupInv
<1> QED BY <1>1, <1>2

(* ... and a step that fills the field in with the wanted number, or       *)
(* refuses it, preserves it.                                               *)
LEMMA FillsIn ==
  ASSUME FixupInv, UNCHANGED <<kind, off, symbol, other, section, got>>,
         error' \in BOOLEAN, stage' \in {"link", "done"},
         stage' = "link" => rela'[1] = "none",
         error' \/ (Holds(kind, word', Wanted) /\ checkInt(kind, Wanted)),
         error' => Unreachable,
         kind # "Data_4" => word' \ FieldBits(kind) = other
  PROVE  FixupInv'
<1>1. FixupTypes
  BY DEF FixupInv
<1>2. FixupTypes'
  BY <1>1 DEF FixupTypes, OperandBits, FieldBits, TargetOffset, TargetSize
<1>3. error' \/ Decodes(word')
  BY <1>1, DecodesWanted
<1>4. FinalAddress' = FinalAddress
  BY DEF FinalAddress
<1>5. Decodes(word') => DecodedRight'
  BY <1>4 DEF Decodes, DecodedRight
<1>6. Unreachable => Unreachable'
  BY <1>4 DEF Unreachable
<1>7. FilledIn'
  BY <1>3, <1>5, <1>6 DEF FilledIn
<1>8. Untouched' /\ LeftToLinker'
  BY DEF Untouched, LeftToLinker
<1>9. OtherBitsKept'
  BY DEF OtherBitsKept
<1> QED BY <1>2, <1>7, <1>8, <1>9 DEF FixupInv

LEMMA ResolveKeeps ==
  ASSUME FixupInv, Resolve
  PROVE  FixupInv'
<1> DEFINE v == IF kind \in Branches THEN symbol[2] - off ELSE symbol[2]
<1>1. FixupTypes /\ word = other /\ rela = <<"none", 0>>
  BY DEF FixupInv, Untouched, Resolve
<1>2. kind # "GOT" /\ (kind \in Branches => symbol[1] = "here") /\
        (kind \notin Branches => symbol[1] = "absolute")
  BY <1>1 DEF Resolve, FixupTypes, Branches
<1>3. Wanted = v
  <2>1. CASE kind \in Branches
    <3> DEFINE a == symbol[2]
    <3>1. a \in Int /\ section \in Int /\ off \in Int
      BY <1>1 DEF FixupTypes
    <3>2. Wanted = (section + a) - section - off
      BY <1>1, <1>2, <2>1, WantedIs DEF FinalAddress
    <3> HIDE DEF a
    <3>3. Wanted = a - off
      BY <3>1, <3>2
    <3> QED BY <2>1, <3>3 DEF a
  <2>2. CASE kind \notin Branches
    <3>1. Wanted = FinalAddress
      BY <1>1, <1>2, <2>2, WantedIs
    <3> QED BY <1>2, <2>2, <3>1 DEF FinalAddress
  <2> QED BY <2>1, <2>2
<1>4. word' = applyFixup(kind, v) /\ error' = outOfRange(kind, v) /\ stage' = "link"
      /\ UNCHANGED <<kind, off, symbol, other, rela, section, got>>
  BY DEF Resolve
<1> HIDE DEF v
<1>5. kind \in Kinds /\ word \subseteq 0 .. 31 /\
        (\A x \in word : x \notin OperandBits(kind)) /\ v \in Int
  BY <1>1, <1>3, WantedIs DEF FixupTypes
<1>6. /\ ~outOfRange(kind, v) => Holds(kind, applyFixup(kind, v), v)
      /\ kind # "Data_4" => applyFixup(kind, v) \ FieldBits(kind) = word
  BY <1>5, Applied, Zenon
<1>7. outOfRange(kind, v) \in BOOLEAN
  BY DEF outOfRange
<1>8. (outOfRange(kind, v) => Unreachable) /\ (~outOfRange(kind, v) => checkInt(kind, v))
  BY <1>1, <1>2, <1>3, RefusedUnreachable
<1>9. /\ error' \in BOOLEAN /\ stage' \in {"link", "done"} /\ (stage' = "link" =>
           rela'[1] = "none")
      /\ error' \/ (Holds(kind, word', Wanted) /\ checkInt(kind, Wanted))
      /\ error' => Unreachable
      /\ kind # "Data_4" => word' \ FieldBits(kind) = other
  BY <1>1, <1>3, <1>4, <1>6, <1>7, <1>8
<1> QED BY <1>4, <1>9, FillsIn

LEMMA RelocateKeeps ==
  ASSUME FixupInv, Relocate
  PROVE  FixupInv'
<1>1. FixupTypes /\ word = other /\ error = FALSE
  BY DEF FixupInv, Untouched, Relocate
<1>2. /\ word' = applyFixup(kind, 0) /\ stage' = "link"
      /\ rela' = <<"pending", IF symbol[1] = "here" /\ kind # "GOT" THEN symbol[2] ELSE 0>>
      /\ UNCHANGED <<kind, off, symbol, other, section, got, error>>
  BY DEF Relocate, needsRelocateWithSymbol
<1>3. symbol[1] # "absolute" /\ (kind \in Branches => symbol[1] = "elsewhere")
  BY DEF Relocate
<1>4. kind \in Kinds /\ word \subseteq 0 .. 31 /\
        (\A x \in word : x \notin OperandBits(kind)) /\ 0 \in Int
  BY <1>1 DEF FixupTypes
<1>5. /\ applyFixup(kind, 0) \subseteq 0 .. 31
      /\ ~outOfRange(kind, 0) => Holds(kind, applyFixup(kind, 0), 0)
      /\ kind # "Data_4" => applyFixup(kind, 0) \ FieldBits(kind) = word
  BY <1>4, Applied, Zenon
<1>6. kind = "IMM_LO13" => 23 \notin word'
  <2> SUFFICES ASSUME kind = "IMM_LO13" PROVE 23 \notin word'
    OBVIOUS
  <2>1. ~outOfRange(kind, 0)
    BY DEF outOfRange, Branches
  <2>2. Holds(kind, word', 0)
    BY <1>2, <1>5, <2>1
  <2> QED BY <2>2 DEF Holds
<1>7. FixupTypes'
  BY <1>1, <1>2 DEF FixupTypes, OperandBits, FieldBits, TargetOffset, TargetSize
<1>8. /\ rela'[1] = "pending"
      /\ rela'[2] = IF symbol[1] = "here" /\ kind # "GOT" THEN symbol[2] ELSE 0
  BY <1>2
<1>9. Untouched' /\ FilledIn'
  BY <1>2, <1>8 DEF Untouched, FilledIn
<1>10. LeftToLinker'
  BY <1>1, <1>2, <1>3, <1>5, <1>6, <1>8 DEF LeftToLinker
<1>11. OtherBitsKept'
  BY <1>1, <1>2, <1>5 DEF OtherBitsKept
<1> QED BY <1>7, <1>9, <1>10, <1>11 DEF FixupInv

LEMMA LinkKeeps ==
  ASSUME FixupInv, Link
  PROVE  FixupInv'
<1>1. FixupTypes /\ stage = "link" /\ stage' = "done"
      /\ UNCHANGED <<kind, off, symbol, other, rela, section, got>>
  BY DEF FixupInv, Link
<1>2. CASE rela[1] = "none"
  <2>1. UNCHANGED <<word, error>>
    BY <1>2 DEF Link
  <2>2. FixupTypes'
    BY <1>1, <2>1 DEF FixupTypes, OperandBits, FieldBits, TargetOffset, TargetSize
  <2>3. Untouched' /\ LeftToLinker'
    BY <1>1 DEF Untouched, LeftToLinker
  <2>4. (error \/ DecodedRight) /\ (error => Unreachable)
    BY <1>1, <1>2 DEF FixupInv, FilledIn
  <2>5. (DecodedRight => DecodedRight') /\ (Unreachable => Unreachable')
    BY <1>1, <2>1 DEF DecodedRight, Unreachable, FinalAddress
  <2>6. FilledIn'
    BY <1>1, <2>1, <2>4, <2>5 DEF FilledIn
  <2>7. OtherBitsKept'
    BY <1>1, <2>1 DEF FixupInv, OtherBitsKept
  <2> QED BY <2>2, <2>3, <2>6, <2>7 DEF FixupInv
<1>3. CASE rela[1] # "none"
  <2>1. /\ word' = relocateWord(kind, word, RelocValue)
        /\ error' = (error \/ ~checkInt(kind, RelocValue))
    BY <1>3 DEF Link
  <2>2. /\ error = FALSE /\ word \subseteq 0 .. 31
        /\ kind = "IMM_LO13" => 23 \notin word
        /\ symbol[1] # "absolute"
        /\ kind \in Branches => symbol[1] = "elsewhere"
        /\ rela[2] = IF symbol[1] = "here" /\ kind # "GOT" THEN symbol[2] ELSE 0
    BY <1>1, <1>3 DEF FixupInv, LeftToLinker
  <2>3. RelocValue = Wanted
    <3> DEFINE a == symbol[2]
               b == rela[2]
               S == SymbolValue
    <3>1. a \in Int /\ section \in Int /\ off \in Int /\ got \in Int
      BY <1>1 DEF FixupTypes
    <3>2. CASE kind \in Branches
      <4>1. S = a /\ b = 0 /\ FinalAddress = a
        BY <2>2, <3>2 DEF SymbolValue, FinalAddress
      <4>2. kind # "GOT"
        BY <3>2 DEF Branches
      <4>3. RelocValue = S + b - (section + off)
        BY <3>2, <4>2, Zenon DEF RelocValue
      <4>4. Wanted = FinalAddress - section - off
        BY <1>1, <3>2, WantedIs
      <4> HIDE DEF a, b, S
      <4> QED BY <3>1, <4>1, <4>3, <4>4
    <3>3. CASE kind = "GOT"
      <4>1. kind \notin Branches
        BY <3>3 DEF Branches
      <4>2. b = 0
        BY <2>2, <3>3
      <4>3. RelocValue = got + b
        BY <3>3, <4>1, Zenon DEF RelocValue
      <4>4. Wanted = got
        BY <1>1, <3>3, WantedIs
      <4> HIDE DEF a, b, S
      <4> QED BY <3>1, <4>2, <4>3, <4>4
    <3>4. CASE kind \notin Branches /\ kind # "GOT"
      <4>1. S + b = FinalAddress
        <5>1. CASE symbol[1] = "here"
          <6>1. S = section /\ b = a /\ FinalAddress = section + a
            BY <2>2, <3>4, <5>1 DEF SymbolValue, FinalAddress
          <6> QED BY <6>1
        <5>2. CASE symbol[1] # "here"
          <6>1. S = a /\ b = 0 /\ FinalAddress = a
            BY <2>2, <5>2 DEF SymbolValue, FinalAddress
          <6> HIDE DEF a, b, S
          <6> QED BY <3>1, <6>1
        <5> QED BY <5>1, <5>2
      <4>2. RelocValue = S + b
        BY <3>4, Zenon DEF RelocValue
      <4>3. Wanted = FinalAddress
        BY <1>1, <3>4, WantedIs
      <4> QED BY <4>1, <4>2, <4>3
    <3> QED BY <3>2, <3>3, <3>4
  <2>4. kind \in Kinds /\ Wanted \in Int
    BY <1>1, WantedIs DEF FixupTypes
  <2>5. /\ Holds(kind, relocateWord(kind, word, Wanted), Wanted)
        /\ kind # "Data_4" => relocateWord(kind, word, Wanted) \ FieldBits(kind) =
             word \ FieldBits(kind)
    BY <2>2, <2>4, Relocated
  <2>6. kind # "Data_4" => word \ FieldBits(kind) = other
    BY DEF FixupInv, OtherBitsKept
  <2>7. ~checkInt(kind, Wanted) => Unreachable
    BY <1>1, RefusedUnreachable
  <2>8. error' = ~checkInt(kind, Wanted)
    BY <2>1, <2>2, <2>3
  <2>9. checkInt(kind, Wanted) \in BOOLEAN
    BY <2>4 DEF checkInt, isIntN
  <2>10. /\ error' \in BOOLEAN /\ stage' \in {"link", "done"} /\ (stage' = "link" =>
              rela'[1] = "none")
         /\ error' \/ (Holds(kind, word', Wanted) /\ checkInt(kind, Wanted))
         /\ error' => Unreachable
         /\ kind # "Data_4" => word' \ FieldBits(kind) = other
    BY <1>1, <2>1, <2>3, <2>5, <2>6, <2>7, <2>8, <2>9
  <2> QED BY <1>1, <2>10, FillsIn
<1> QED BY <1>2, <1>3

LEMMA FixupKeeps ==
  ASSUME FixupInv, Next
  PROVE  FixupInv'
BY ResolveKeeps, RelocateKeeps, LinkKeeps DEF Next

-----------------------------------------------------------------------------
(* The operands of an instruction: what is put where, bit by bit. *)
LEMMA ExtractIs ==
  ASSUME NEW s, s \subseteq Nat, NEW lo \in Nat, NEW n
  PROVE  /\ Extract(s, lo, n) \subseteq Nat
         /\ \A x \in Nat : x \in Extract(s, lo, n) <=> x < n /\ x + lo \in s
<1> DEFINE S == Shr(s, lo)
<1>1. S \subseteq Nat /\ \A x \in Nat : x \in S <=> x + lo \in s
  BY ShrIs, Zenon
<1>2. Extract(s, lo, n) = Low(S, n)
  BY DEF Extract
<1> HIDE DEF S
<1>3. Low(S, n) \subseteq Nat /\ \A x : x \in Low(S, n) <=> x \in S /\ x < n
  BY <1>1, LowIs, Zenon
<1> QED BY <1>1, <1>2, <1>3, Zenon

LEMMA SignExtendIs ==
  ASSUME NEW s, s \subseteq Nat, NEW n \in Nat
  PROVE  /\ SignExtend(s, n) \subseteq Nat
         /\ \A x \in Nat : x \in SignExtend(s, n) <=>
              (x \in s /\ x < n) \/ (n - 1 \in s /\ x \in n .. 31)
<1>1. Low(s, n) \subseteq Nat /\ \A x : x \in Low(s, n) <=> x \in s /\ x < n
  BY LowIs, Zenon
<1>2. CASE n - 1 \in s
  <2>1. SignExtend(s, n) = Low(s, n) \cup (n .. 31)
    BY <1>2 DEF SignExtend
  <2> QED BY <1>1, <1>2, <2>1
<1>3. CASE n - 1 \notin s
  <2>1. SignExtend(s, n) = Low(s, n)
    BY <1>3 DEF SignExtend
  <2> QED BY <1>1, <1>3, <2>1
<1> QED BY <1>2, <1>3

(* A number of n bits comes back from a field of n bits. *)
LEMMA SignComesBack ==
  ASSUME NEW s, s \subseteq 0 .. 63, NEW n \in 1 .. 31, isInt(n, s)
  PROVE  SignExtend(Low(s, n), n) = Word32(s)
<1> DEFINE L == Low(s, n)
<1>1. s \subseteq Nat /\ n \in Nat /\ n - 1 \in Nat /\ n - 1 < n
  OBVIOUS
<1>2. L \subseteq Nat /\ \A x : x \in L <=> x \in s /\ x < n
  BY <1>1, LowIs, Zenon
<1> HIDE DEF L
<1>3. /\ SignExtend(L, n) \subseteq Nat
      /\ \A x \in Nat : x \in SignExtend(L, n) <=>
           (x \in L /\ x < n) \/ (n - 1 \in L /\ x \in n .. 31)
  BY <1>1, <1>2, SignExtendIs, Zenon
<1>4. Word32(s) \subseteq Nat /\ \A x : x \in Word32(s) <=> x \in s /\ x < 32
  BY <1>1, LowIs, Zenon DEF Word32
<1>5. n - 1 .. 63 \subseteq s \/ \A i \in s : i < n - 1
  BY DEF isInt
<1>6. ASSUME NEW x \in Nat PROVE x \in SignExtend(L, n) <=> x \in Word32(s)
  <2>1. x \in SignExtend(L, n) <=> (x \in s /\ x < n) \/ (n - 1 \in s /\ x \in n .. 31)
    BY <1>1, <1>2, <1>3, Zenon
  <2>2. CASE n - 1 .. 63 \subseteq s
    BY <1>1, <1>4, <2>1, <2>2
  <2>3. CASE \A i \in s : i < n - 1
    <3>1. n - 1 \notin s
      BY <2>3
    <3>2. x \in s => x < n - 1
      BY <2>3
    <3> QED BY <1>4, <2>1, <3>1, <3>2
  <2> QED BY <1>5, <2>2, <2>3
<1> QED BY <1>3, <1>4, <1>6, SameBits, Zenon DEF L

(* And a number that does not fit does not. *)
LEMMA SignLost ==
  ASSUME NEW s, s \subseteq 0 .. 63, NEW n \in 1 .. 31, NEW h, h = SignExtend(Low(s, n), n),
         s = h \cup (IF 31 \in h THEN 32 .. 63 ELSE {})
  PROVE  isInt(n, s)
<1> DEFINE L == Low(s, n)
<1>1. s \subseteq Nat /\ n \in Nat /\ n - 1 \in Nat /\ n - 1 < n /\ 31 \in Nat
  OBVIOUS
<1>2. L \subseteq Nat /\ \A x : x \in L <=> x \in s /\ x < n
  BY <1>1, LowIs, Zenon
<1> HIDE DEF L
<1>3. \A x \in Nat : x \in SignExtend(L, n) <=> (x \in L /\ x < n) \/ (n - 1 \in L /\
        x \in n .. 31)
  BY <1>1, <1>2, SignExtendIs, Zenon
<1>4. \A x \in Nat : x \in h <=> (x \in s /\ x < n) \/ (n - 1 \in s /\ x \in n .. 31)
  <2>1. h = SignExtend(L, n)
    BY DEF L
  <2> HIDE DEF L
  <2> QED BY <1>1, <1>2, <1>3, <2>1
<1>5. CASE n - 1 \in s
  <2>1. 31 \in h
    BY <1>4, <1>5
  <2>2. \A x \in (n - 1) .. 63 : x \in s
    <3> SUFFICES ASSUME NEW x \in (n - 1) .. 63 PROVE x \in s
      OBVIOUS
    <3>1. CASE x \in 32 .. 63
      BY <2>1, <3>1
    <3>2. CASE x = n - 1
      BY <1>5, <3>2
    <3>3. CASE x \in n .. 31
      <4>1. x \in h
        BY <1>4, <1>5, <3>3
      <4> QED BY <4>1
    <3> QED BY <3>1, <3>2, <3>3
  <2> QED BY <2>2 DEF isInt
<1>6. CASE n - 1 \notin s
  <2>1. 31 \notin h
    BY <1>4, <1>6
  <2>2. s = h
    BY <2>1
  <2>3. \A i \in s : i < n - 1
    <3> SUFFICES ASSUME NEW i \in s PROVE i < n - 1
      OBVIOUS
    <3>1. i \in Nat /\ i \in h
      BY <1>1, <2>2
    <3>2. i < n
      BY <1>4, <1>6, <3>1
    <3> QED BY <1>6, <3>1, <3>2
  <2> QED BY <2>3 DEF isInt
<1> QED BY <1>5, <1>6

(* The fields of a word, lo being where the immediate or the offset starts *)
(* and the mask being below it if there is one.                            *)
Spread(w, lo, n, imm, dest, base, mask) ==
  /\ w \subseteq Nat /\ imm \subseteq Nat
  /\ dest \subseteq 0 .. 4 /\ base \subseteq 0 .. 4 /\ mask \subseteq 0 .. 4
  /\ lo \in {10, 15} /\ (lo = 10 => mask = {}) /\ n \in Nat
  /\ \A x \in Nat : x \in w <=> \/ x \in lo .. (lo + n - 1) /\ x - lo \in imm
                                \/ x \in base \/ x - 5 \in dest \/ x - 10 \in mask

LEMMA TakenOut ==
  ASSUME NEW w, NEW lo, NEW n, NEW imm, NEW dest, NEW base, NEW mask,
         Spread(w, lo, n, imm, dest, base, mask)
  PROVE  /\ Low(w, 5) = base /\ Extract(w, 5, 5) = dest
         /\ lo = 15 => Extract(w, 10, 5) = mask
         /\ Extract(w, lo, n) = Low(imm, n)
<1>1. /\ w \subseteq Nat /\ imm \subseteq Nat
      /\ dest \subseteq 0 .. 4 /\ base \subseteq 0 .. 4 /\ mask \subseteq 0 .. 4
      /\ lo \in {10, 15} /\ (lo = 10 => mask = {}) /\ n \in Nat
  BY DEF Spread
<1>2. \A x \in Nat : x \in w <=> \/ x \in lo .. (lo + n - 1) /\ x - lo \in imm
                                 \/ x \in base \/ x - 5 \in dest \/ x - 10 \in mask
  BY DEF Spread
<1>3. \A a \in Nat : \A b \in Nat :
        /\ Extract(w, a, b) \subseteq Nat
        /\ \A x \in Nat : x \in Extract(w, a, b) <=> x < b /\ x + a \in w
  BY <1>1, ExtractIs, Zenon
<1>4. lo \in Nat
  BY <1>1
<1> USE <1>1, <1>2
<1>5. Low(w, 5) = base
  <2>1. Low(w, 5) \subseteq Nat /\ \A x : x \in Low(w, 5) <=> x \in w /\ x < 5
    BY DEF Low
  <2>2. base \subseteq Nat
    OBVIOUS
  <2>3. ASSUME NEW x \in Nat PROVE x \in Low(w, 5) <=> x \in base
    <3>1. x < 5 => x - 5 \notin dest /\ x - 10 \notin mask /\ x \notin lo .. (lo + n - 1)
      OBVIOUS
    <3>2. x \in base => x < 5
      OBVIOUS
    <3> QED BY <2>1, <3>1, <3>2, Zenon
  <2> QED BY <2>1, <2>2, <2>3, SameBits, Zenon
<1>6. Extract(w, 5, 5) = dest
  <2>1. Extract(w, 5, 5) \subseteq Nat /\ \A x \in Nat : x \in Extract(w, 5, 5) <=>
          x < 5 /\ x + 5 \in w
    BY <1>3, <1>4
  <2>2. dest \subseteq Nat
    OBVIOUS
  <2>3. ASSUME NEW x \in Nat PROVE x \in Extract(w, 5, 5) <=> x \in dest
    <3>1. x < 5 => (x + 5) - 5 = x /\ (x + 5) - 10 \notin mask /\
            x + 5 \notin lo .. (lo + n - 1) /\ x + 5 \notin base
      OBVIOUS
    <3>2. x \in dest => x < 5
      OBVIOUS
    <3>3. x + 5 \in Nat
      OBVIOUS
    <3> QED BY <2>1, <3>1, <3>2, <3>3
  <2> QED BY <2>1, <2>2, <2>3, SameBits, Zenon
<1>7. ASSUME lo = 15 PROVE Extract(w, 10, 5) = mask
  <2>1. Extract(w, 10, 5) \subseteq Nat /\ \A x \in Nat : x \in Extract(w, 10, 5) <=>
          x < 5 /\ x + 10 \in w
    BY <1>3
  <2>2. mask \subseteq Nat
    OBVIOUS
  <2>3. ASSUME NEW x \in Nat PROVE x \in Extract(w, 10, 5) <=> x \in mask
    <3>1. x < 5 => (x + 10) - 10 = x /\ (x + 10) - 5 \notin dest /\
            x + 10 \notin lo .. (lo + n - 1) /\ x + 10 \notin base
      BY <1>7
    <3>2. x \in mask => x < 5
      OBVIOUS
    <3>3. x + 10 \in Nat
      OBVIOUS
    <3> QED BY <2>1, <3>1, <3>2, <3>3
  <2> QED BY <2>1, <2>2, <2>3, SameBits, Zenon
<1>8. Extract(w, lo, n) = Low(imm, n)
  <2>1. Extract(w, lo, n) \subseteq Nat /\ \A x \in Nat : x \in Extract(w, lo, n) <=>
          x < n /\ x + lo \in w
    BY <1>3, <1>4
  <2>2. Low(imm, n) \subseteq Nat /\ \A x : x \in Low(imm, n) <=> x \in imm /\ x < n
    BY LowIs, Zenon
  <2>3. ASSUME NEW x \in Nat PROVE x \in Extract(w, lo, n) <=> x \in Low(imm, n)
    <3>1. x < n => (x + lo) - lo = x /\ (x + lo) - 5 \notin dest /\
            x + lo \in lo .. (lo + n - 1) /\ x + lo \notin base
      OBVIOUS
    <3>2. (x + lo) - 10 \notin mask
      <4>1. CASE lo = 10
        BY <4>1
      <4>2. CASE lo = 15
        BY <4>2
      <4> QED BY <4>1, <4>2
    <3>3. x + lo \in Nat
      BY <1>4
    <3> QED BY <2>1, <2>2, <3>1, <3>2, <3>3
  <2> QED BY <2>1, <2>2, <2>3, SameBits, Zenon
<1> QED BY <1>5, <1>6, <1>7, <1>8

(* A register below an offset, as encodeMemoryOpValue packs them. *)
LEMMA PackedIs ==
  ASSUME NEW inst, inst.base \subseteq 0 .. 4, inst.imm \subseteq Nat
  PROVE  /\ Shr(encodeMemoryOpValue(inst), 5) \subseteq Nat
         /\ \A x \in Nat : x < 16 => (x \in Shr(encodeMemoryOpValue(inst), 5) <=>
              x \in inst.imm)
         /\ Low(encodeMemoryOpValue(inst), 5) = inst.base
<1> DEFINE base == inst.base
           imm == inst.imm
           a == encodeMemoryOpValue(inst)
<1>1. base \subseteq 0 .. 4 /\ base \subseteq Nat /\ imm \subseteq Nat
  OBVIOUS
<1>2. a = Word32(base \cup Shl(SignExtend(imm, 16), 5))
  BY DEF encodeMemoryOpValue
<1> HIDE DEF base, imm, a
<1> DEFINE E == SignExtend(imm, 16)
           H == Shl(E, 5)
<1>3. 5 \in Nat /\ 16 \in Nat
  OBVIOUS
<1>4. /\ E \subseteq Nat
      /\ \A x \in Nat : x \in E <=> (x \in imm /\ x < 16) \/ (16 - 1 \in imm /\
           x \in 16 .. 31)
  <2> DEFINE n == 16
  <2>1. n \in Nat
    OBVIOUS
  <2> HIDE DEF n
  <2>2. /\ SignExtend(imm, n) \subseteq Nat
        /\ \A x \in Nat : x \in SignExtend(imm, n) <=>
             (x \in imm /\ x < n) \/ (n - 1 \in imm /\ x \in n .. 31)
    BY <1>1, <2>1, SignExtendIs, Zenon
  <2> QED BY <2>2, Zenon DEF n
<1> HIDE DEF E
<1>5. H \subseteq Nat /\ \A x \in Int : x \in H <=> x - 5 \in E
  <2> DEFINE n == 5
  <2>1. n \in Nat
    OBVIOUS
  <2> HIDE DEF n
  <2>2. Shl(E, n) \subseteq Nat /\ \A x \in Int : x \in Shl(E, n) <=> x - n \in E
    BY <1>4, <2>1, ShlIs, Zenon
  <2> QED BY <2>2, Zenon DEF n
<1>6. a = Low(base \cup H, 32)
  BY <1>2 DEF Word32, E
<1> HIDE DEF H
<1>7. \A x : x \in a <=> (x \in base \/ x \in H) /\ x < 32
  BY <1>6 DEF Low
<1>8. a \subseteq Nat
  BY <1>5, <1>7, <1>1, Zenon
<1>9. Shr(a, 5) \subseteq Nat /\ \A x \in Nat : x \in Shr(a, 5) <=> x + 5 \in a
  <2> DEFINE n == 5
  <2>1. n \in Nat
    OBVIOUS
  <2> HIDE DEF n
  <2>2. Shr(a, n) \subseteq Nat /\ \A x \in Nat : x \in Shr(a, n) <=> x + n \in a
    <3> HIDE DEF H, E
    <3> QED BY <1>8, <2>1, ShrIs, Zenon
  <2> QED BY <2>2, Zenon DEF n
<1>10. ASSUME NEW x \in Nat, x < 16 PROVE x \in Shr(a, 5) <=> x \in imm
  <2>1. x + 5 \in Int /\ (x + 5) - 5 = x /\ x + 5 \notin base /\ x + 5 < 32 /\
          x \notin 16 .. 31
    BY <1>10, <1>1
  <2>2. x + 5 \in H <=> x \in E
    BY <1>5, <2>1
  <2>3. x \in E <=> x \in imm
    BY <1>4, <1>10, <2>1
  <2> QED BY <1>7, <1>9, <2>1, <2>2, <2>3
<1>11. Low(a, 5) = base
  <2>1. \A x : x \in Low(a, 5) <=> x \in a /\ x < 5
    BY DEF Low
  <2>2. ASSUME NEW x \in Nat PROVE x \in Low(a, 5) <=> x \in base
    <3>1. x < 5 => x - 5 \notin E
      BY <1>4
    <3>2. x < 5 => x \notin H
      BY <1>5, <3>1
    <3>3. x \in base => x < 5
      BY <1>1
    <3> QED BY <1>7, <2>1, <3>2, <3>3
  <2>3. Low(a, 5) \subseteq Nat /\ base \subseteq Nat
    BY <1>8, <1>1, <2>1
  <2> QED BY <2>2, <2>3, SameBits, Zenon
<1> QED BY <1>9, <1>10, <1>11, Zenon DEF a, base, imm

(* A field has n bits of the number, from whatever copy of these it gets. *)
LEMMA InsertIs ==
  ASSUME NEW s, s \subseteq Nat, NEW imm, NEW lo \in Nat, NEW n \in Nat,
         \A x \in Nat : x < n => (x \in s <=> x \in imm)
  PROVE  /\ Insert(s, lo, n) \subseteq Nat
         /\ \A x \in Nat : x \in Insert(s, lo, n) <=>
              x \in lo .. (lo + n - 1) /\ x - lo \in imm
<1> DEFINE I == Shl(Low(s, n), lo)
<1>1. I \subseteq Nat /\ \A x \in Nat : x \in I <=> x \in lo .. (lo + n - 1) /\ x - lo \in s
  BY PutBits, Zenon
<1>2. Insert(s, lo, n) = I
  BY DEF Insert
<1> HIDE DEF I
<1>3. ASSUME NEW x \in Nat PROVE x \in I <=> x \in lo .. (lo + n - 1) /\ x - lo \in imm
  <2>1. x \in lo .. (lo + n - 1) => x - lo \in Nat /\ x - lo < n
    OBVIOUS
  <2> QED BY <1>1, <2>1, Zenon
<1> QED BY <1>1, <1>2, <1>3, Zenon

Formats == {"FormatIMasked", "FormatIUnmasked", "MOVEHI", "FormatMMasked",
  "FormatMUnmasked", "LEA_MEM"}
WithOffset == {"FormatMMasked", "FormatMUnmasked", "LEA_MEM"}

(* Where the operand starts, how many bits of it are there, which bits of  *)
(* the immediate these are and what is below the destination register.     *)
FieldLo(f) == IF f \in Masked THEN 15 ELSE 10
FieldSize(f) ==
  CASE f = "FormatIMasked"   -> 9
    [] f = "FormatIUnmasked" -> 14
    [] f = "MOVEHI"          -> 14
    [] f = "FormatMMasked"   -> 10
    [] f = "FormatMUnmasked" -> 15
    [] f = "LEA_MEM"         -> 14
Upper(inst) == IF inst.format = "MOVEHI" THEN Shr(inst.imm, 5) ELSE inst.imm
Lower(inst) == IF inst.format = "MOVEHI" THEN Low(inst.imm, 5) ELSE inst.base

LEMMA OperandFieldIs ==
  ASSUME NEW inst, inst.format \in Formats, inst.imm \subseteq Nat, inst.base \subseteq 0 .. 4
  PROVE  /\ OperandField(inst) \subseteq Nat
         /\ \A x \in Nat : x \in OperandField(inst) <=>
              \/ /\ x \in FieldLo(inst.format) ..
                            (FieldLo(inst.format) + FieldSize(inst.format) - 1)
                 /\ x - FieldLo(inst.format) \in Upper(inst)
              \/ x \in Lower(inst) /\ inst.format \notin {"FormatIMasked", "FormatIUnmasked"}
<1> DEFINE f == inst.format
           imm == inst.imm
           base == inst.base
           lo == FieldLo(f)
           n == FieldSize(f)
           m == Word32(imm)
           a == encodeMemoryOpValue(inst)
           o == OperandField(inst)
<1>1. lo \in Nat /\ n \in Nat /\ n <= 15 /\ imm \subseteq Nat /\ base \subseteq 0 .. 4 /\
        f \in Formats
  BY DEF FieldLo, FieldSize, Formats
<1>2. m \subseteq Nat /\ \A x \in Nat : x \in m <=> x \in imm /\ x < 32
  BY DEF Word32, Low
<1>3. Shr(a, 5) \subseteq Nat /\ (\A x \in Nat : x < 16 => (x \in Shr(a, 5) <=>
        x \in imm)) /\ Low(a, 5) = base
  BY PackedIs, Zenon
<1> HIDE DEF imm, base, m, a
<1>4. CASE f \in {"FormatIMasked", "FormatIUnmasked"}
  <2>1. o = Insert(m, lo, n)
    <3>1. CASE f = "FormatIMasked"
      <4>1. lo = 15 /\ n = 9
        BY <3>1 DEF FieldLo, FieldSize, Masked
      <4>2. o = Insert(m, 15, 9)
        BY <3>1 DEF OperandField, FormatIField, m, imm
      <4> QED BY <4>1, <4>2
    <3>2. CASE f = "FormatIUnmasked"
      <4>1. lo = 10 /\ n = 14
        BY <3>2 DEF FieldLo, FieldSize, Masked
      <4>2. o = Insert(m, 10, 14)
        BY <3>2 DEF OperandField, FormatIField, m, imm
      <4> QED BY <4>1, <4>2
    <3> QED BY <1>4, <3>1, <3>2
  <2>2. Upper(inst) = imm
    BY <1>4 DEF Upper, imm
  <2> HIDE DEF f, lo, n, o
  <2>3. \A x \in Nat : x < n => (x \in m <=> x \in imm)
    BY <1>1, <1>2
  <2>4. /\ Insert(m, lo, n) \subseteq Nat
        /\ \A x \in Nat : x \in Insert(m, lo, n) <=>
             x \in lo .. (lo + n - 1) /\ x - lo \in imm
    BY <1>1, <1>2, <2>3, InsertIs, Zenon
  <2>5. /\ o \subseteq Nat
        /\ \A x \in Nat : x \in o <=> x \in lo .. (lo + n - 1) /\ x - lo \in Upper(inst)
    BY <2>1, <2>2, <2>4, Zenon
  <2> QED BY <1>4, <2>5, Zenon DEF o, lo, n, f
<1>5. CASE f = "MOVEHI"
  <2> DEFINE h == Shr(m, 5)
             u == Shr(imm, 5)
             l == Low(m, 5)
  <2>1. lo = 10 /\ n = 14 /\ o = Insert(h, 10, 14) \cup l
    BY <1>5 DEF FieldLo, FieldSize, Masked, OperandField, MOVEHIField, m, imm
  <2>2. Upper(inst) = u /\ Lower(inst) = Low(imm, 5)
    BY <1>5 DEF Upper, Lower, imm
  <2>3. h \subseteq Nat /\ \A x \in Nat : x \in h <=> x + 5 \in m
    <3> DEFINE k == 5
    <3>1. k \in Nat
      OBVIOUS
    <3> HIDE DEF k
    <3>2. Shr(m, k) \subseteq Nat /\ \A x \in Nat : x \in Shr(m, k) <=> x + k \in m
      BY <1>2, <3>1, ShrIs, Zenon
    <3> QED BY <3>2, Zenon DEF k
  <2>4. u \subseteq Nat /\ \A x \in Nat : x \in u <=> x + 5 \in imm
    <3> DEFINE k == 5
    <3>1. k \in Nat
      OBVIOUS
    <3> HIDE DEF k
    <3>2. Shr(imm, k) \subseteq Nat /\ \A x \in Nat : x \in Shr(imm, k) <=> x + k \in imm
      BY <1>1, <3>1, ShrIs, Zenon
    <3> QED BY <3>2, Zenon DEF k
  <2>5. \A x : x \in l <=> x \in m /\ x < 5
    BY DEF Low
  <2>6. \A x : x \in Low(imm, 5) <=> x \in imm /\ x < 5
    BY DEF Low
  <2> HIDE DEF h, u, l, o
  <2>7. l = Low(imm, 5) /\ l \subseteq Nat
    <3>1. l \subseteq Nat /\ Low(imm, 5) \subseteq Nat
      BY <1>1, <1>2, <2>5, <2>6
    <3>2. \A x \in Nat : x \in l <=> x \in Low(imm, 5)
      BY <1>2, <2>5, <2>6
    <3> QED BY <3>1, <3>2, SameBits, Zenon
  <2>8. \A x \in Nat : x < n => (x \in h <=> x \in u)
    BY <1>2, <2>1, <2>3, <2>4
  <2> HIDE DEF lo, n
  <2>9. /\ Insert(h, lo, n) \subseteq Nat
        /\ \A x \in Nat : x \in Insert(h, lo, n) <=> x \in lo .. (lo + n - 1) /\ x - lo \in u
    BY <1>1, <2>3, <2>8, InsertIs, Zenon
  <2>10. o = Insert(h, lo, n) \cup l
    BY <2>1
  <2>11. /\ o \subseteq Nat
         /\ \A x \in Nat : x \in o <=> (x \in lo .. (lo + n - 1) /\
              x - lo \in Upper(inst)) \/ x \in Lower(inst)
    <3>1. o \subseteq Nat
      BY <2>7, <2>9, <2>10
    <3>2. \A x \in Nat : x \in o <=> x \in Insert(h, lo, n) \/ x \in l
      BY <2>10
    <3> QED BY <2>2, <2>7, <2>9, <3>1, <3>2, Zenon
  <2>12. f \notin {"FormatIMasked", "FormatIUnmasked"}
    BY <1>5
  <2> QED BY <2>11, <2>12, Zenon DEF o, lo, n, f
<1>6. CASE f \in WithOffset
  <2> DEFINE h == Shr(a, 5)
             l == Low(a, 5)
  <2>1. o = Insert(h, lo, n) \cup l
    <3>1. CASE f = "FormatMMasked"
      BY <3>1 DEF FieldLo, FieldSize, Masked, OperandField, FormatMField, a
    <3>2. CASE f = "FormatMUnmasked"
      BY <3>2 DEF FieldLo, FieldSize, Masked, OperandField, FormatMField, a
    <3>3. CASE f = "LEA_MEM"
      BY <3>3 DEF FieldLo, FieldSize, Masked, OperandField, LEA_MEMField, a
    <3> QED BY <1>6, <3>1, <3>2, <3>3 DEF WithOffset
  <2>2. Upper(inst) = imm /\ Lower(inst) = base
    BY <1>6 DEF Upper, Lower, imm, base, WithOffset
  <2>3. h \subseteq Nat /\ (\A x \in Nat : x < 16 => (x \in h <=> x \in imm)) /\ l = base
    BY <1>3
  <2> HIDE DEF f, lo, n, o, h, l
  <2>4. \A x \in Nat : x < n => (x \in h <=> x \in imm)
    BY <1>1, <2>3
  <2>5. h \subseteq Nat /\ lo \in Nat /\ n \in Nat
    BY <1>1, <2>3
  <2>6. /\ Insert(h, lo, n) \subseteq Nat
        /\ \A x \in Nat : x \in Insert(h, lo, n) <=>
             x \in lo .. (lo + n - 1) /\ x - lo \in imm
    BY <2>4, <2>5, InsertIs, Zenon
  <2>7. o \subseteq Nat /\ \A x \in Nat : x \in o <=> x \in Insert(h, lo, n) \/ x \in base
    <3>1. base \subseteq Nat
      BY <1>1
    <3>2. \A x : x \in o <=> x \in Insert(h, lo, n) \/ x \in base
      BY <2>1, <2>3
    <3> QED BY <2>6, <3>1, <3>2, Zenon
  <2>8. /\ o \subseteq Nat
        /\ \A x \in Nat : x \in o <=> (x \in lo .. (lo + n - 1) /\
             x - lo \in Upper(inst)) \/ x \in Lower(inst)
    BY <2>2, <2>6, <2>7, Zenon
  <2>9. f \notin {"FormatIMasked", "FormatIUnmasked"}
    BY <1>6 DEF WithOffset
  <2> QED BY <2>8, <2>9, Zenon DEF o, lo, n, f
<1> QED BY <1>1, <1>4, <1>5, <1>6 DEF Formats, WithOffset

(* The instructions that the parser makes. *)
InstType ==
  [format : Formats, imm : SUBSET (0 .. 63), dest : SUBSET (0 .. 4), base : SUBSET (0 .. 4),
   mask : SUBSET (0 .. 4)]
Packable(inst) ==
  /\ inst \in InstType
  /\ inst.format \notin Masked => inst.mask = {}
  /\ inst.format = "MOVEHI" => inst.base = {}
Fits(inst) ==
  IF inst.format = "MOVEHI" THEN isUInt(19, inst.imm) ELSE isInt(FieldSize(inst.format),
    inst.imm)
Encoding(inst) == OperandField(inst) \cup RegisterFields(inst)

LEMMA PackableIs ==
  ASSUME NEW inst, Packable(inst)
  PROVE  /\ inst.format \in Formats /\ inst.imm \subseteq 0 .. 63 /\ inst.imm \subseteq Nat
         /\ inst.dest \subseteq 0 .. 4 /\ inst.base \subseteq 0 .. 4 /\
              inst.mask \subseteq 0 .. 4
         /\ FieldLo(inst.format) \in {10, 15} /\ FieldSize(inst.format) \in 9 .. 15
         /\ FieldSize(inst.format) \in Nat /\ FieldSize(inst.format) \in 1 .. 31
         /\ FieldLo(inst.format) = 10 => inst.mask = {}
         /\ Upper(inst) \subseteq Nat /\ Lower(inst) \subseteq 0 .. 4
<1>1. /\ inst.format \in Formats /\ inst.imm \subseteq 0 .. 63
      /\ inst.dest \subseteq 0 .. 4 /\ inst.base \subseteq 0 .. 4 /\
           inst.mask \subseteq 0 .. 4
  BY DEF Packable, InstType
<1>2. inst.imm \subseteq Nat
  BY <1>1
<1>3. FieldLo(inst.format) \in {10, 15} /\ (FieldLo(inst.format) = 10 => inst.mask = {})
  BY DEF FieldLo, Packable
<1>4. FieldSize(inst.format) \in 9 .. 15
  BY <1>1 DEF FieldSize, Formats
<1>5. Upper(inst) \subseteq Nat
  <2>1. Shr(inst.imm, 5) \subseteq Nat
    <3> DEFINE s == inst.imm
               k == 5
    <3>1. s \subseteq Nat /\ k \in Nat
      BY <1>2
    <3> HIDE DEF s, k
    <3>2. Shr(s, k) \subseteq Nat
      BY <3>1, ShrIs, Zenon
    <3> QED BY <3>2 DEF s, k
  <2> QED BY <1>2, <2>1 DEF Upper
<1>6. Lower(inst) \subseteq 0 .. 4
  <2>1. Low(inst.imm, 5) \subseteq 0 .. 4
    BY <1>2 DEF Low
  <2> QED BY <1>1, <2>1 DEF Lower
<1> QED BY <1>1, <1>2, <1>3, <1>4, <1>5, <1>6

(* Every field of the word has what was put there. *)
LEMMA EncodingIs ==
  ASSUME NEW inst, Packable(inst)
  PROVE  /\ Low(Encoding(inst), 5) = Lower(inst)
         /\ Extract(Encoding(inst), 5, 5) = inst.dest
         /\ inst.format \in Masked => Extract(Encoding(inst), 10, 5) = inst.mask
         /\ Extract(Encoding(inst), FieldLo(inst.format), FieldSize(inst.format))
              = Low(Upper(inst), FieldSize(inst.format))
<1> DEFINE f == inst.format
           o == OperandField(inst)
           r == RegisterFields(inst)
           w == Encoding(inst)
           lo == FieldLo(f)
           n == FieldSize(f)
           u == Upper(inst)
           l == Lower(inst)
           d == inst.dest
           m == inst.mask
           b == inst.base
           plain == {"FormatIMasked", "FormatIUnmasked"}
<1>1. /\ f \in Formats /\ inst.imm \subseteq Nat /\ b \subseteq 0 .. 4
      /\ d \subseteq 0 .. 4 /\ m \subseteq 0 .. 4 /\ l \subseteq 0 .. 4 /\ u \subseteq Nat
      /\ lo \in {10, 15} /\ n \in Nat /\ (lo = 10 => m = {})
  BY PackableIs
<1>2. /\ o \subseteq Nat
      /\ \A x \in Nat : x \in o <=> (x \in lo .. (lo + n - 1) /\ x - lo \in u)
                                    \/ (x \in l /\ f \notin plain)
  BY <1>1, OperandFieldIs, Zenon
<1>3. Shl(d, 5) \subseteq Nat /\ \A x \in Int : x \in Shl(d, 5) <=> x - 5 \in d
  <2> DEFINE k == 5
  <2>1. d \subseteq Nat /\ k \in Nat
    BY <1>1
  <2> HIDE DEF d, k
  <2>2. Shl(d, k) \subseteq Nat /\ \A x \in Int : x \in Shl(d, k) <=> x - k \in d
    BY <2>1, ShlIs, Zenon
  <2> QED BY <2>2, Zenon DEF k
<1>4. Shl(m, 10) \subseteq Nat /\ \A x \in Int : x \in Shl(m, 10) <=> x - 10 \in m
  <2> DEFINE k == 10
  <2>1. m \subseteq Nat /\ k \in Nat
    BY <1>1
  <2> HIDE DEF m, k
  <2>2. Shl(m, k) \subseteq Nat /\ \A x \in Int : x \in Shl(m, k) <=> x - k \in m
    BY <2>1, ShlIs, Zenon
  <2> QED BY <2>2, Zenon DEF k
<1>5. \A x : x \in r <=> x \in Shl(d, 5) \/ x \in Shl(m, 10) \/ (f \in plain /\ x \in b)
  BY DEF RegisterFields
<1>6. f \in plain => l = b
  BY DEF Lower
<1>7. w = o \cup r
  BY DEF Encoding
<1> HIDE DEF f, o, r, w, lo, n, u, l, d, m, b, plain
<1>8. w \subseteq Nat
  <2>1. r \subseteq Nat
    <3>1. b \subseteq Nat
      BY <1>1
    <3> QED BY <1>3, <1>4, <1>5, <3>1, Zenon
  <2> QED BY <1>2, <1>7, <2>1
<1>9. ASSUME NEW x \in Nat
      PROVE  x \in w <=> (x \in lo .. (lo + n - 1) /\
               x - lo \in u) \/ x \in l \/ x - 5 \in d \/ x - 10 \in m
  <2>1. x \in Int
    OBVIOUS
  <2>2. x \in w <=> x \in o \/ x \in r
    BY <1>7
  <2> QED BY <1>2, <1>3, <1>4, <1>5, <1>6, <2>1, <2>2, Zenon
<1>10. /\ Low(w, 5) = l /\ Extract(w, 5, 5) = d
       /\ lo = 15 => Extract(w, 10, 5) = m
       /\ Extract(w, lo, n) = Low(u, n)
  <2>1. Spread(w, lo, n, u, d, l, m)
    BY <1>1, <1>8, <1>9, Zenon DEF Spread
  <2> QED BY <2>1, TakenOut, ZenonT(40)
<1>11. f \in Masked => lo = 15
  BY DEF lo, FieldLo
<1> QED BY <1>10, <1>11, Zenon DEF f, w, lo, n, u, l, d, m

LEMMA BareOperandIs ==
  ASSUME NEW inst, Packable(inst), \A x : x \notin inst.base
  PROVE  /\ Low(OperandField(inst), 5) = Lower(inst)
         /\ Extract(OperandField(inst), FieldLo(inst.format), FieldSize(inst.format))
              = Low(Upper(inst), FieldSize(inst.format))
<1> DEFINE f == inst.format
           o == OperandField(inst)
           lo == FieldLo(f)
           n == FieldSize(f)
           u == Upper(inst)
           l == Lower(inst)
           e == {}
           plain == {"FormatIMasked", "FormatIUnmasked"}
<1>1. /\ f \in Formats /\ inst.imm \subseteq Nat /\ inst.base \subseteq 0 .. 4
      /\ l \subseteq 0 .. 4 /\ u \subseteq Nat /\ lo \in {10, 15} /\ n \in Nat
  BY PackableIs
<1>2. /\ o \subseteq Nat
      /\ \A x \in Nat : x \in o <=> (x \in lo .. (lo + n - 1) /\ x - lo \in u)
                                    \/ (x \in l /\ f \notin plain)
  BY <1>1, OperandFieldIs, Zenon
<1>3. f \in plain => \A x : x \notin l
  BY DEF Lower
<1>4. e \subseteq 0 .. 4 /\ (lo = 10 => e = {}) /\ \A x : x \notin e
  OBVIOUS
<1> HIDE DEF f, o, lo, n, u, l, e, plain
<1>5. \A x \in Nat : x \in o <=> (x \in lo .. (lo + n - 1) /\
        x - lo \in u) \/ x \in l \/ x - 5 \in e \/ x - 10 \in e
  <2>1. f \in plain => \A x : x \notin l
    BY <1>3, Zenon
  <2> QED BY <1>2, <1>4, <2>1, Zenon
<1>6. /\ Low(o, 5) = l /\ Extract(o, 5, 5) = e
      /\ lo = 15 => Extract(o, 10, 5) = e
      /\ Extract(o, lo, n) = Low(u, n)
  <2>1. Spread(o, lo, n, u, e, l, e)
    BY <1>1, <1>2, <1>4, <1>5, Zenon DEF Spread
  <2> QED BY <2>1, TakenOut, ZenonT(40)
<1> QED BY <1>6, Zenon DEF f, o, lo, n, u, l

(* The two parts of a movehi's field. *)
LEMMA HighPartComesBack ==
  ASSUME NEW imm, imm \subseteq Nat
  PROVE  Shl(Low(Shr(imm, 5), 14), 5) \cup Low(imm, 5) = Low(imm, 19)
<1> DEFINE k == 5
           S == Shr(imm, k)
           L == Low(S, 14)
           H == Shl(L, k)
           r == H \cup Low(imm, 5)
<1>1. k \in Nat
  OBVIOUS
<1> HIDE DEF k
<1>2. S \subseteq Nat /\ \A x \in Nat : x \in S <=> x + k \in imm
  BY <1>1, ShrIs, Zenon
<1> HIDE DEF S
<1>3. L \subseteq Nat /\ \A x : x \in L <=> x \in S /\ x < 14
  BY <1>2, LowIs, Zenon
<1> HIDE DEF L
<1>4. H \subseteq Nat /\ \A x \in Int : x \in H <=> x - k \in L
  BY <1>1, <1>3, ShlIs, Zenon
<1> HIDE DEF H
<1>5. \A x : x \in Low(imm, 5) <=> x \in imm /\ x < 5
  BY DEF Low
<1>6. \A x : x \in Low(imm, 19) <=> x \in imm /\ x < 19
  BY DEF Low
<1>7. r \subseteq Nat /\ Low(imm, 19) \subseteq Nat
  BY <1>4, <1>5, <1>6
<1>8. ASSUME NEW x \in Nat PROVE x \in r <=> x \in Low(imm, 19)
  <2>1. x \in H <=> x - 5 \in Nat /\ x \in imm /\ x - 5 < 14
    <3>1. x \in H <=> x - 5 \in L
      BY <1>4 DEF k
    <3>2. CASE x - 5 \in Nat
      <4>1. x - 5 \in S <=> x \in imm
        BY <1>2, <3>2 DEF k
      <4> QED BY <1>3, <3>1, <3>2, <4>1
    <3>3. CASE x - 5 \notin Nat
      <4>1. x - 5 \notin L
        BY <1>3, <3>3
      <4> QED BY <3>1, <3>3, <4>1
    <3> QED BY <3>2, <3>3
  <2>2. x \in r <=> x \in H \/ x \in Low(imm, 5)
    OBVIOUS
  <2> QED BY <1>5, <1>6, <2>1, <2>2
<1>9. r = Low(imm, 19)
  <2> HIDE DEF r
  <2> QED BY <1>7, <1>8, SameBits, Zenon
<1> QED BY <1>9 DEF H, L, S, k

(* An offset above a register, as decodeMemoryOpValue takes it. *)
LEMMA OffsetComesBack ==
  ASSUME NEW c, c \subseteq Nat, NEW b, b \subseteq 0 .. 4
  PROVE  Extract(Shl(c, 5) \cup b, 5, 15) = Low(c, 15)
<1> DEFINE k == 5
           H == Shl(c, k)
           a == H \cup b
           e == Extract(a, k, 15)
<1>1. k \in Nat
  OBVIOUS
<1> HIDE DEF k
<1>2. H \subseteq Nat /\ \A x \in Int : x \in H <=> x - k \in c
  BY <1>1, ShlIs, Zenon
<1> HIDE DEF H
<1>3. a \subseteq Nat
  BY <1>2
<1>4. \A x : x \in a <=> x \in H \/ x \in b
  OBVIOUS
<1> HIDE DEF a
<1>5. e \subseteq Nat /\ \A x \in Nat : x \in e <=> x < 15 /\ x + k \in a
  BY <1>1, <1>3, ExtractIs, Zenon
<1> HIDE DEF e
<1>6. Low(c, 15) \subseteq Nat /\ \A x : x \in Low(c, 15) <=> x \in c /\ x < 15
  BY DEF Low
<1>7. ASSUME NEW x \in Nat PROVE x \in e <=> x \in Low(c, 15)
  <2>1. x + k \in Int /\ (x + k) - k = x /\ x + k \notin b
    BY DEF k
  <2>2. x + k \in a <=> x \in c
    BY <1>2, <1>4, <2>1
  <2> QED BY <1>5, <1>6, <2>2, Zenon
<1>8. e = Low(c, 15)
  BY <1>5, <1>6, <1>7, SameBits, Zenon
<1> QED BY <1>8 DEF e, a, H, k

LEMMA LowTwice ==
  ASSUME NEW s, s \subseteq Nat, NEW n \in 0 .. 15
  PROVE  Low(s, n) \subseteq Nat /\ Low(Low(s, n), 15) = Low(s, n)
<1>1. \A x : x \in Low(s, n) <=> x \in s /\ x < n
  BY DEF Low
<1>2. \A x : x \in Low(Low(s, n), 15) <=> x \in Low(s, n) /\ x < 15
  BY DEF Low
<1>3. Low(s, n) \subseteq Nat
  BY <1>1
<1>4. ASSUME NEW x \in Low(s, n) PROVE x < 15
  <2>1. x \in Nat /\ x < n
    BY <1>1, <1>3
  <2> QED BY <2>1
<1>5. \A x : x \in Low(Low(s, n), 15) <=> x \in Low(s, n)
  BY <1>2, <1>4, Zenon
<1>6. Low(Low(s, n), 15) = Low(s, n)
  BY <1>5, Zenon
<1> QED BY <1>3, <1>6

(* What the processor and the disassembler make of a field, in terms of    *)
(* the number that was put there, fitting or not.                          *)
LEMMA ValueIs ==
  ASSUME NEW inst, Packable(inst), NEW w, Low(w, 5) = Lower(inst),
         Extract(w, FieldLo(inst.format), FieldSize(inst.format)) = Low(Upper(inst),
           FieldSize(inst.format))
  PROVE  /\ inst.format # "MOVEHI" =>
              HardwareValue(inst.format, w)
                = SignExtend(Low(inst.imm, FieldSize(inst.format)), FieldSize(inst.format))
         /\ inst.format = "MOVEHI" =>
              HardwareValue(inst.format, w)
                = IF class = "LI" THEN Shl(Low(inst.imm, 19), 13) ELSE Low(inst.imm, 19)
         /\ inst.format \in {"FormatIMasked", "FormatIUnmasked", "LEA_MEM",
              "FormatMUnmasked"} =>
              DecodedImmediate(inst.format, w)
                = SignExtend(Low(inst.imm, FieldSize(inst.format)), FieldSize(inst.format))
         /\ inst.format = "FormatMMasked" =>
              DecodedImmediate(inst.format, w) = SignExtend(Low(inst.imm, 10), 15)
         /\ inst.format = "MOVEHI" => DecodedImmediate(inst.format, w) = Low(inst.imm, 19)
<1> DEFINE f == inst.format
           imm == inst.imm
           l == Low(w, 5)
<1>1. f \in Formats /\ imm \subseteq Nat /\ l \subseteq 0 .. 4
  BY PackableIs
<1>2. CASE f = "FormatIMasked"
  <2>1. Extract(w, 15, 9) = Low(imm, 9) /\ FieldSize(f) = 9
    BY <1>2 DEF FieldLo, FieldSize, Upper, Masked
  <2> QED BY <1>2, <2>1 DEF HardwareValue, DecodedImmediate
<1>3. CASE f \in {"FormatIUnmasked", "LEA_MEM"}
  <2>1. Extract(w, 10, 14) = Low(imm, 14) /\ FieldSize(f) = 14
    BY <1>3 DEF FieldLo, FieldSize, Upper, Masked
  <2> QED BY <1>3, <2>1 DEF HardwareValue, DecodedImmediate
<1>4. CASE f = "FormatMMasked"
  <2>1. Extract(w, 15, 10) = Low(imm, 10) /\ FieldSize(f) = 10
    BY <1>4 DEF FieldLo, FieldSize, Upper, Masked
  <2>2. Low(imm, 10) \subseteq Nat /\ Low(Low(imm, 10), 15) = Low(imm, 10)
    BY <1>1, LowTwice
  <2>3. DecodedImmediate(f, w) = decodeMemoryOpValue(Shl(Low(imm, 10), 5) \cup l)
    BY <1>4, <2>1 DEF DecodedImmediate
  <2>4. Extract(Shl(Low(imm, 10), 5) \cup l, 5, 15) = Low(Low(imm, 10), 15)
    BY <1>1, <2>2, OffsetComesBack
  <2>5. DecodedImmediate(f, w) = SignExtend(Low(imm, 10), 15)
    BY <2>2, <2>3, <2>4 DEF decodeMemoryOpValue
  <2>6. HardwareValue(f, w) = SignExtend(Low(imm, 10), 10)
    BY <1>4, <2>1 DEF HardwareValue
  <2> QED BY <1>4, <2>1, <2>5, <2>6
<1>5. CASE f = "FormatMUnmasked"
  <2>1. Extract(w, 10, 15) = Low(imm, 15) /\ FieldSize(f) = 15
    BY <1>5 DEF FieldLo, FieldSize, Upper, Masked
  <2>2. Low(imm, 15) \subseteq Nat /\ Low(Low(imm, 15), 15) = Low(imm, 15)
    BY <1>1, LowTwice
  <2>3. DecodedImmediate(f, w) = decodeMemoryOpValue(Shl(Low(imm, 15), 5) \cup l)
    BY <1>5, <2>1 DEF DecodedImmediate
  <2>4. Extract(Shl(Low(imm, 15), 5) \cup l, 5, 15) = Low(Low(imm, 15), 15)
    BY <1>1, <2>2, OffsetComesBack
  <2>5. DecodedImmediate(f, w) = SignExtend(Low(imm, 15), 15)
    BY <2>2, <2>3, <2>4 DEF decodeMemoryOpValue
  <2>6. HardwareValue(f, w) = SignExtend(Low(imm, 15), 15)
    BY <1>5, <2>1 DEF HardwareValue
  <2> QED BY <1>5, <2>1, <2>5, <2>6
<1>6. CASE f = "MOVEHI"
  <2>1. Extract(w, 10, 14) = Low(Shr(imm, 5), 14) /\ l = Low(imm, 5)
    BY <1>6 DEF FieldLo, FieldSize, Upper, Lower, Masked
  <2>2. Shl(Extract(w, 10, 14), 5) \cup l = Low(imm, 19)
    BY <1>1, <2>1, HighPartComesBack
  <2>3. DecodedImmediate(f, w) = Low(imm, 19)
    BY <1>6, <2>2 DEF DecodedImmediate
  <2>4. HardwareValue(f, w) = IF class = "LI" THEN Shl(Low(imm, 19), 13) ELSE Low(imm, 19)
    BY <1>6, <2>2 DEF HardwareValue
  <2> QED BY <1>6, <2>3, <2>4
<1> QED BY <1>1, <1>2, <1>3, <1>4, <1>5, <1>6 DEF Formats

(* What was accepted comes back, but for the disassembly of a negative     *)
(* offset of a masked access.                                              *)
LEMMA ComesBack ==
  ASSUME NEW inst, Packable(inst), Fits(inst)
  PROVE  /\ inst.format # "MOVEHI" => HardwareValue(inst.format, Encoding(inst)) =
           Word32(inst.imm)
         /\ inst.format = "MOVEHI" =>
              /\ HardwareValue(inst.format, Encoding(inst))
                   = IF class = "LI" THEN Shl(inst.imm, 13) ELSE Word32(inst.imm)
              /\ Word32(inst.imm) = inst.imm
         /\ \/ DecodedImmediate(inst.format, Encoding(inst)) = Word32(inst.imm)
            \/ inst.format = "FormatMMasked" /\ 9 \in Word32(inst.imm)
<1> DEFINE f == inst.format
           imm == inst.imm
           n == FieldSize(f)
           w == Encoding(inst)
<1>1. f \in Formats /\ imm \subseteq 0 .. 63 /\ imm \subseteq Nat /\ n \in 1 .. 31
  BY PackableIs
<1>2. Low(w, 5) = Lower(inst) /\ Extract(w, FieldLo(f), n) = Low(Upper(inst), n)
  BY EncodingIs
<1>3. /\ f # "MOVEHI" => HardwareValue(f, w) = SignExtend(Low(imm, n), n)
      /\ f = "MOVEHI" => HardwareValue(f, w) = IF class = "LI" THEN Shl(Low(imm, 19),
           13) ELSE Low(imm, 19)
      /\ f \in {"FormatIMasked", "FormatIUnmasked", "LEA_MEM", "FormatMUnmasked"} =>
           DecodedImmediate(f, w) = SignExtend(Low(imm, n), n)
      /\ f = "FormatMMasked" => DecodedImmediate(f, w) = SignExtend(Low(imm, 10), 15)
      /\ f = "MOVEHI" => DecodedImmediate(f, w) = Low(imm, 19)
  <2> HIDE DEF w
  <2> QED BY <1>2, ValueIs
<1>4. CASE f = "MOVEHI"
  <2>1. \A i \in imm : i < 19
    BY <1>4 DEF Fits, isUInt
  <2>2. Low(imm, 19) = imm
    BY <2>1 DEF Low
  <2>3. Word32(imm) = imm
    <3>1. \A i \in imm : i < 32
      BY <1>1, <2>1
    <3> QED BY <3>1 DEF Word32, Low
  <2> QED BY <1>3, <1>4, <2>2, <2>3
<1>5. CASE f # "MOVEHI"
  <2>1. isInt(n, imm)
    BY <1>5 DEF Fits
  <2>2. SignExtend(Low(imm, n), n) = Word32(imm)
    BY <1>1, <2>1, SignComesBack
  <2>3. CASE f # "FormatMMasked"
    BY <1>1, <1>3, <1>5, <2>2, <2>3 DEF Formats
  <2>4. CASE f = "FormatMMasked" /\ 9 \in imm
    <3>1. 9 \in Word32(imm)
      BY <2>4 DEF Word32, Low
    <3> QED BY <1>3, <1>5, <2>2, <2>4, <3>1
  <2>5. CASE f = "FormatMMasked" /\ 9 \notin imm
    <3>1. n = 10
      BY <2>5 DEF FieldSize
    <3>2. 10 - 1 .. 63 \subseteq imm \/ \A i \in imm : i < 10 - 1
      BY <2>1, <3>1 DEF isInt
    <3>3. \A i \in imm : i < 9
      <4>1. 9 \in 10 - 1 .. 63
        OBVIOUS
      <4> QED BY <2>5, <3>2, <4>1
    <3>4. Low(imm, 10) = imm
      <4>1. \A i \in imm : i < 10
        BY <1>1, <3>3
      <4> QED BY <4>1 DEF Low
    <3>5. Low(imm, 15) = imm /\ Word32(imm) = imm
      <4>1. \A i \in imm : i < 15 /\ i < 32
        BY <1>1, <3>3
      <4> QED BY <4>1 DEF Word32, Low
    <3>6. 15 - 1 \notin imm
      BY <3>3
    <3>7. SignExtend(imm, 15) = Low(imm, 15)
      BY <3>6 DEF SignExtend
    <3> QED BY <1>3, <1>5, <2>2, <2>5, <3>4, <3>5, <3>7
  <2> QED BY <2>3, <2>4, <2>5
<1> QED BY <1>4, <1>5

Decoding(inst, w) ==
  [format |-> inst.format,
   imm    |-> DecodedImmediate(inst.format, w),
   dest   |-> Extract(w, 5, 5),
   base   |-> IF inst.format = "MOVEHI" THEN {} ELSE Low(w, 5),
   mask   |-> IF inst.format \in Masked THEN Extract(w, 10, 5) ELSE {}]

LEMMA WholeComesBack ==
  ASSUME NEW inst, Packable(inst), Fits(inst)
  PROVE  LET shown == [inst EXCEPT !.imm = Word32(@)]
             d == Decoding(inst, Encoding(inst))
         IN  \/ d = shown
             \/ /\ shown.format = "FormatMMasked" /\ 9 \in shown.imm
                /\ [d EXCEPT !.imm = shown.imm] = shown
<1> DEFINE shown == [inst EXCEPT !.imm = Word32(@)]
           w == Encoding(inst)
           d == Decoding(inst, w)
           full == [format |-> inst.format, imm |-> Word32(inst.imm), dest |-> inst.dest,
                    base |-> inst.base, mask |-> inst.mask]
<1>1. shown = full
  BY DEF Packable, InstType
<1>2. /\ Extract(w, 5, 5) = inst.dest
      /\ (IF inst.format = "MOVEHI" THEN {} ELSE Low(w, 5)) = inst.base
      /\ (IF inst.format \in Masked THEN Extract(w, 10, 5) ELSE {}) = inst.mask
  BY EncodingIs DEF Packable, Lower
<1> HIDE DEF w
<1>3. d = [format |-> inst.format, imm |-> DecodedImmediate(inst.format, w),
        dest |-> inst.dest,
           base |-> inst.base, mask |-> inst.mask]
  BY <1>2 DEF Decoding
<1>4. \/ DecodedImmediate(inst.format, w) = Word32(inst.imm)
      \/ inst.format = "FormatMMasked" /\ 9 \in Word32(inst.imm)
  BY ComesBack DEF w
<1> HIDE DEF d, shown
<1>5. [d EXCEPT !.imm = full.imm] = full
  BY <1>3
<1>6. d = shown \/ (shown.format = "FormatMMasked" /\ 9 \in shown.imm)
  BY <1>1, <1>3, <1>4
<1> QED BY <1>1, <1>5, <1>6 DEF d, shown, w

-----------------------------------------------------------------------------
(* The operand, on its way. *)
OperandTypes ==
  /\ class \in Immediates \cup Memory \cup {"LI"} /\ literal \subseteq 0 .. 63
  /\ fields.dest \subseteq 0 .. 4 /\ fields.base \subseteq 0 .. 4 /\
       fields.mask \subseteq 0 .. 4
  /\ step \in {"idle", "parse", "process", "encode", "decode", "done", "error"}

(* The parser's decision, and the instructions it makes. *)
Accepted ==
  CASE class = "SImm19" -> isUInt(19, literal)
    [] class \in {"SImm9", "SImm14"} -> isInt(MaxBits(class), literal)
    [] class \in Memory -> isInt(MaxBits(class), literal) /\ BankMatches
    [] class = "LI" -> TRUE
Insts ==
  IF class = "LI" THEN LoadImmediate(literal)
  ELSE <<Instruction(Format(class), IF class = "SImm19" THEN {} ELSE fields.base, literal)>>
Decided ==
  /\ step \in {"process", "encode", "decode", "done"} => Accepted
  /\ step = "error" => ~Accepted
  /\ step \in {"idle", "parse", "process", "error"} => OperandStart
  /\ step \in {"encode", "decode", "done"} => insts = Insts

(* They are encoded, and then decoded, one after the other. *)
E(k) == Encoding(insts[k])
D(k) == Decoding(insts[k], E(k))
EncodedSoFar ==
  /\ step = "encode" =>
       decoded = <<>> /\ (words = <<>> \/ (Len(insts) = 2 /\ words = <<E(1)>>))
  /\ step \in {"decode", "done"} =>
       (Len(insts) = 1 /\ words = <<E(1)>>) \/ (Len(insts) = 2 /\ words = <<E(1), E(2)>>)
DecodedSoFar ==
  /\ step = "decode" => decoded = <<>> \/ (Len(insts) = 2 /\ decoded = <<D(1)>>)
  /\ step = "done" =>
       (Len(insts) = 1 /\ decoded = <<D(1)>>) \/ (Len(insts) = 2 /\ decoded = <<D(1), D(2)>>)

OperandInv == OperandTypes /\ Decided /\ EncodedSoFar /\ DecodedSoFar

LEMMA Tuples ==
  ASSUME NEW a, NEW b
  PROVE  /\ Append(<<>>, a) = <<a>> /\ Append(<<a>>, b) = <<a, b>>
         /\ Len(<<>>) = 0 /\ Len(<<a>>) = 1 /\ Len(<<a, b>>) = 2
         /\ <<a>> \o <<>> = <<a>> /\ <<a>> \o <<b>> = <<a, b>>
<1>1. Append(<<>>, a) = <<a>>
  <2>1. <<>> \in Seq({a})
    OBVIOUS
  <2> QED BY <2>1
<1>2. Append(<<a>>, b) = <<a, b>>
  <2> DEFINE e == <<a>>
             S == {a, b}
             s == Append(e, b)
  <2>1. e \in Seq(S) /\ Len(e) = 1 /\ e[1] = a /\ b \in S
    OBVIOUS
  <2> HIDE DEF e, S
  <2>2. s \in Seq(S) /\ Len(s) = Len(e) + 1 /\ \A i \in 1 .. Len(e) : s[i] = e[i]
    BY <2>1, AppendProperties
  <2>3. s[Len(e) + 1] = b
    BY <2>1, AppendProperties
  <2> HIDE DEF s
  <2>4. Len(s) = 2 /\ s[1] = a /\ s[2] = b
    BY <2>1, <2>2, <2>3
  <2>5. s = [i \in 1 .. 2 |-> s[i]]
    <3>1. s \in Seq({a, b}) /\ Len(s) = 2
      BY <2>2, <2>4 DEF S
    <3> QED BY <3>1
  <2>6. s = <<a, b>>
    BY <2>4, <2>5
  <2> QED BY <2>6 DEF s, e
<1>3. Len(<<>>) = 0 /\ Len(<<a>>) = 1 /\ Len(<<a, b>>) = 2
  OBVIOUS
<1>4. <<a>> \o <<>> = <<a>>
  <2>1. <<a>> \in Seq({a})
    OBVIOUS
  <2> QED BY <2>1
<1>5. <<a>> \o <<b>> = <<a, b>>
  <2>1. <<a>> \in Seq({a, b}) /\ b \in {a, b}
    OBVIOUS
  <2>2. Append(<<a>>, b) = <<a>> \o <<b>>
    BY <2>1, AppendIsConcat
  <2> QED BY <1>2, <2>2
<1> QED BY <1>1, <1>2, <1>3, <1>4, <1>5, Zenon

Usable(f, b, i) ==
  f \in Formats /\ b \subseteq 0 .. 4 /\ (f = "MOVEHI" => b = {}) /\ i \subseteq 0 .. 63

LEMMA InstructionIs ==
  ASSUME OperandTypes, NEW f, NEW b, NEW i, Usable(f, b, i)
  PROVE  /\ Packable(Instruction(f, b, i))
         /\ Instruction(f, b, i).format = f /\ Instruction(f, b, i).imm = i
         /\ Instruction(f, b, i).base = b
<1> DEFINE inst == Instruction(f, b, i)
<1>1. inst = [format |-> f, imm |-> i, dest |-> fields.dest, base |-> b,
              mask |-> IF f \in Masked THEN fields.mask ELSE {}]
  BY DEF Instruction
<1>2. fields.dest \subseteq 0 .. 4 /\ fields.mask \subseteq 0 .. 4
  BY DEF OperandTypes
<1> HIDE DEF inst
<1>3. inst \in InstType
  BY <1>1, <1>2 DEF InstType, Usable
<1>4. inst.format = f /\ inst.imm = i /\ inst.base = b /\ (f \notin Masked => inst.mask = {})
  BY <1>1
<1> QED BY <1>3, <1>4 DEF Packable, inst, Usable

(* The parser's methods ask for as many bits as the format has. *)
LEMMA SameWidth ==
  ASSUME OperandTypes, class # "LI"
  PROVE  /\ Format(class) \in Formats
         /\ Format(class) = "MOVEHI" <=> class = "SImm19"
         /\ class # "SImm19" => FieldSize(Format(class)) = MaxBits(class) /\
              MaxBits(class) \in 1 .. 31
<1>1. class \in {"SImm9", "SImm14", "SImm19", "MemS10", "MemS14", "MemS15", "MemV10",
        "MemV15"}
  BY DEF OperandTypes, Immediates, Memory
<1>2. CASE class = "SImm9"
  BY <1>2 DEF Format, FormatI, FormatM, Formats, FieldSize, MaxBits
<1>3. CASE class = "SImm14"
  BY <1>3 DEF Format, FormatI, FormatM, Formats, FieldSize, MaxBits
<1>4. CASE class = "SImm19"
  BY <1>4 DEF Format, FormatI, FormatM, Formats, FieldSize, MaxBits
<1>5. CASE class \in {"MemS10", "MemV10"}
  BY <1>5 DEF Format, FormatI, FormatM, Formats, FieldSize, MaxBits
<1>6. CASE class = "MemS14"
  BY <1>6 DEF Format, FormatI, FormatM, Formats, FieldSize, MaxBits
<1>7. CASE class \in {"MemS15", "MemV15"}
  BY <1>7 DEF Format, FormatI, FormatM, Formats, FieldSize, MaxBits
<1> QED BY <1>1, <1>2, <1>3, <1>4, <1>5, <1>6, <1>7

(* li: the parts that it cuts a number into. *)
LEMMA Parts ==
  ASSUME NEW s, s \subseteq 0 .. 63
  PROVE  /\ Extract(s, 13, 19) \subseteq 0 .. 63 /\ isUInt(19, Extract(s, 13, 19))
         /\ Low(s, 13) \subseteq 0 .. 63 /\ isInt(14, Low(s, 13))
         /\ Shl(Extract(s, 13, 19), 13) \cup Low(s, 13) = Word32(s)
         /\ Word32(Low(s, 13)) = Low(s, 13)
<1> DEFINE k == 13
           H == Extract(s, k, 19)
           G == Shl(H, k)
           L == Low(s, 13)
           r == G \cup L
<1>1. s \subseteq Nat /\ k \in Nat
  OBVIOUS
<1> HIDE DEF k
<1>2. H \subseteq Nat /\ \A x \in Nat : x \in H <=> x < 19 /\ x + k \in s
  BY <1>1, ExtractIs, Zenon
<1> HIDE DEF H
<1>3. G \subseteq Nat /\ \A x \in Int : x \in G <=> x - k \in H
  BY <1>1, <1>2, ShlIs, Zenon
<1> HIDE DEF G
<1>4. L \subseteq s /\ \A x : x \in L <=> x \in s /\ x < 13
  BY DEF Low
<1> HIDE DEF L
<1>5. \A x : x \in Word32(s) <=> x \in s /\ x < 32
  BY DEF Word32, Low
<1>6. ASSUME NEW x \in Nat PROVE x \in r <=> x \in Word32(s)
  <2>1. x \in G <=> x - 13 \in Nat /\ x - 13 < 19 /\ x \in s
    <3>1. x \in G <=> x - 13 \in H
      BY <1>3 DEF k
    <3>2. CASE x - 13 \in Nat
      BY <1>2, <3>1, <3>2 DEF k
    <3>3. CASE x - 13 \notin Nat
      BY <1>2, <3>1, <3>3
    <3> QED BY <3>2, <3>3
  <2>2. x \in r <=> x \in G \/ x \in L
    OBVIOUS
  <2> QED BY <1>4, <1>5, <2>1, <2>2
<1>7. r \subseteq Nat /\ Word32(s) \subseteq Nat
  BY <1>1, <1>3, <1>4, <1>5
<1>8. r = Word32(s)
  <2> HIDE DEF r
  <2> QED BY <1>6, <1>7, SameBits, Zenon
<1>9. H \subseteq 0 .. 63 /\ isUInt(19, H)
  BY <1>2 DEF isUInt
<1>10. L \subseteq 0 .. 63
  BY <1>4
<1>11. isInt(14, L)
  <2>1. \A i \in L : i < 14 - 1
    BY <1>4
  <2> QED BY <2>1 DEF isInt
<1>12. Word32(L) = L
  <2>1. \A i \in L : i < 32
    BY <1>1, <1>4
  <2> QED BY <2>1 DEF Word32, Low
<1> QED BY <1>8, <1>9, <1>10, <1>11, <1>12 DEF r, G, H, L, k

(* The instructions fit their fields and, together, have the number. *)
LEMMA InstsAre ==
  ASSUME OperandTypes, Accepted
  PROVE  /\ \/ Len(Insts) = 1 /\ Insts = <<Insts[1]>>
            \/ Len(Insts) = 2 /\ Insts = <<Insts[1], Insts[2]>>
         /\ \A k \in 1 .. Len(Insts) : Packable(Insts[k]) /\ Fits(Insts[k])
         /\ Word32(literal) = UNION {HardwareValue(Insts[k].format, Encoding(Insts[k])) :
              k \in 1 .. Len(Insts)}
<1>1. literal \subseteq 0 .. 63 /\ fields.base \subseteq 0 .. 4 /\
        fields.dest \subseteq 0 .. 4
  BY DEF OperandTypes
<1>2. CASE class # "LI"
  <2> DEFINE f == Format(class)
             b == IF class = "SImm19" THEN {} ELSE fields.base
             a == Instruction(f, b, literal)
  <2>1. Insts = <<a>>
    BY <1>2 DEF Insts
  <2>2. f \in Formats /\ (f = "MOVEHI" <=> class = "SImm19")
    BY <1>2, SameWidth
  <2>3. b \subseteq 0 .. 4 /\ (f = "MOVEHI" => b = {})
    BY <1>1, <2>2
  <2> HIDE DEF f, b
  <2>4. Packable(a) /\ a.format = f /\ a.imm = literal /\ a.base = b
    <3>1. Usable(f, b, literal)
      BY <1>1, <2>2, <2>3 DEF Usable
    <3> QED BY <3>1, InstructionIs
  <2> HIDE DEF a
  <2>5. Fits(a)
    <3>1. CASE class = "SImm19"
      <4>1. isUInt(19, literal)
        BY <3>1 DEF Accepted, Memory
      <4> QED BY <2>2, <2>4, <3>1, <4>1 DEF Fits
    <3>2. CASE class # "SImm19"
      <4>1. isInt(MaxBits(class), literal)
        BY <1>2, <3>2 DEF Accepted, OperandTypes, Immediates, Memory
      <4>2. FieldSize(f) = MaxBits(class)
        BY <1>2, <3>2, SameWidth DEF f
      <4> QED BY <2>2, <2>4, <3>2, <4>1, <4>2 DEF Fits
    <3> QED BY <3>1, <3>2
  <2>6. HardwareValue(a.format, Encoding(a)) = Word32(literal)
    BY <1>2, <2>4, <2>5, ComesBack
  <2>7. Insts[1] = a /\ Len(Insts) = 1
    BY <2>1
  <2>8. 1 .. Len(Insts) = {1}
    BY <2>7
  <2> QED BY <2>1, <2>4, <2>5, <2>6, <2>7, <2>8
<1>3. CASE class = "LI" /\ isInt(14, literal)
  <2> DEFINE a == Instruction("FormatIUnmasked", {}, literal)
  <2>1. Insts = <<a>>
    BY <1>3 DEF Insts, LoadImmediate
  <2>2. "FormatIUnmasked" \in Formats /\ {} \subseteq 0 .. 4
    BY DEF Formats
  <2>3. Packable(a) /\ a.format = "FormatIUnmasked" /\ a.imm = literal /\ a.base = {}
    <3>1. Usable("FormatIUnmasked", {}, literal)
      BY <1>1, <2>2 DEF Usable
    <3> QED BY <3>1, InstructionIs
  <2> HIDE DEF a
  <2>4. Fits(a)
    BY <1>3, <2>3 DEF Fits, FieldSize
  <2>5. HardwareValue(a.format, Encoding(a)) = Word32(literal)
    BY <2>3, <2>4, ComesBack
  <2>6. Insts[1] = a /\ Len(Insts) = 1
    BY <2>1
  <2>7. 1 .. Len(Insts) = {1}
    BY <2>6
  <2> QED BY <2>1, <2>3, <2>4, <2>5, <2>6, <2>7
<1>4. CASE class = "LI" /\ ~isInt(14, literal)
  <2> DEFINE H == Extract(literal, 13, 19)
             L == Low(literal, 13)
             a == Instruction("MOVEHI", {}, H)
             c == Instruction("FormatIUnmasked", fields.dest, L)
  <2>1. Insts = <<a>> \o (IF L = {} THEN <<>> ELSE <<c>>)
    BY <1>4 DEF Insts, LoadImmediate
  <2>2. /\ H \subseteq 0 .. 63 /\ isUInt(19, H) /\ L \subseteq 0 .. 63 /\ isInt(14, L)
        /\ Shl(H, 13) \cup L = Word32(literal) /\ Word32(L) = L
    BY <1>1, Parts
  <2>3. "MOVEHI" \in Formats /\ "FormatIUnmasked" \in Formats /\ {} \subseteq 0 .. 4
    BY DEF Formats
  <2> HIDE DEF H, L
  <2>4. Packable(a) /\ a.format = "MOVEHI" /\ a.imm = H /\ a.base = {}
    <3>1. Usable("MOVEHI", {}, H)
      BY <2>2, <2>3 DEF Usable
    <3> QED BY <3>1, InstructionIs
  <2>5. Packable(c) /\ c.format = "FormatIUnmasked" /\ c.imm = L /\ c.base = fields.dest
    <3>1. Usable("FormatIUnmasked", fields.dest, L)
      BY <1>1, <2>2, <2>3 DEF Usable
    <3> QED BY <3>1, InstructionIs
  <2> HIDE DEF a, c
  <2>6. Fits(a) /\ Fits(c)
    BY <2>2, <2>4, <2>5 DEF Fits, FieldSize
  <2>7. HardwareValue(a.format, Encoding(a)) = Shl(H, 13)
    BY <1>4, <2>4, <2>6, ComesBack
  <2>8. HardwareValue(c.format, Encoding(c)) = L
    BY <2>2, <2>5, <2>6, ComesBack
  <2>9. CASE L = {}
    <3>1. Insts = <<a>>
      BY <2>1, <2>9, Tuples
    <3>2. Insts[1] = a /\ Len(Insts) = 1
      BY <3>1
    <3>3. 1 .. Len(Insts) = {1}
      BY <3>2
    <3>4. Shl(H, 13) = Word32(literal)
      BY <2>2, <2>9
    <3> QED BY <2>4, <2>6, <2>7, <3>1, <3>2, <3>3, <3>4
  <2>10. CASE L # {}
    <3>1. Insts = <<a, c>>
      BY <2>1, <2>10, Tuples
    <3>2. Insts[1] = a /\ Insts[2] = c /\ Len(Insts) = 2
      BY <3>1
    <3>3. 1 .. Len(Insts) = {1, 2}
      BY <3>2
    <3>4. UNION {HardwareValue(Insts[k].format, Encoding(Insts[k])) :
            k \in 1 .. Len(Insts)} = Shl(H, 13) \cup L
      BY <2>7, <2>8, <3>2, <3>3
    <3> QED BY <2>2, <2>4, <2>5, <2>6, <3>1, <3>2, <3>3, <3>4
  <2> QED BY <2>9, <2>10
<1> QED BY <1>2, <1>3, <1>4

LEMMA OperandStarts ==
  ASSUME OperandInit \/ OperandIdle
  PROVE  OperandInv
<1>1. CASE OperandInit
  <2>1. literal \subseteq 0 .. 63
    BY <1>1, LiteralsAssumption DEF OperandInit
  <2>2. fields.dest \in RegNums /\ fields.base \in RegNums /\ fields.mask \in RegNums
    BY <1>1 DEF OperandInit
  <2>3. fields.dest \subseteq 0 .. 4 /\ fields.base \subseteq 0 .. 4 /\
          fields.mask \subseteq 0 .. 4
    BY <2>2, RegNumsAssumption
  <2>4. OperandTypes
    BY <1>1, <2>1, <2>3 DEF OperandInit, OperandTypes
  <2> QED BY <1>1, <2>4 DEF OperandInit, OperandInv, Decided, EncodedSoFar, DecodedSoFar
<1>2. CASE OperandIdle
  <2>1. OperandTypes
    BY <1>2 DEF OperandIdle, OperandTypes
  <2> QED BY <1>2, <2>1 DEF OperandIdle, OperandInv, Decided, EncodedSoFar, DecodedSoFar
<1> QED BY <1>1, <1>2

(* What the parser decided and made depends on nothing that changes. *)
LEMMA SameText ==
  ASSUME UNCHANGED <<class, literal, fields, baseIs>>
  PROVE  Accepted' = Accepted /\ Insts' = Insts
<1>1. Accepted' = Accepted
  BY DEF Accepted, BankMatches
<1>2. Insts' = Insts
  BY DEF Insts, LoadImmediate, Instruction
<1> QED BY <1>1, <1>2

LEMMA ParseKeeps ==
  ASSUME OperandInv, ParseImmediate \/ ParseMemoryOperand \/ ParseOperand
  PROVE  OperandInv'
<1>1. /\ step = "parse" /\ UNCHANGED <<class, literal, fields, baseIs, insts, words, decoded>>
      /\ step' = IF Accepted THEN "process" ELSE "error"
  <2>1. CASE ParseImmediate
    <3>1. CASE class = "SImm19"
      <4>1. Accepted <=> isUInt(19, literal)
        BY <3>1 DEF Accepted, Memory
      <4>2. MaxBits(class) = 19
        BY <3>1 DEF MaxBits
      <4> QED BY <2>1, <3>1, <4>1, <4>2 DEF ParseImmediate, Parsed
    <3>2. CASE class \in {"SImm9", "SImm14"}
      <4>1. Accepted <=> isInt(MaxBits(class), literal)
        BY <3>2 DEF Accepted, Memory
      <4> QED BY <2>1, <3>2, <4>1 DEF ParseImmediate, Parsed
    <3> QED BY <2>1, <3>1, <3>2 DEF ParseImmediate, Immediates
  <2>2. CASE ParseMemoryOperand
    <3>1. class \in Memory
      BY <2>2 DEF ParseMemoryOperand
    <3>2. Accepted <=> isInt(MaxBits(class), literal) /\ BankMatches
      BY <3>1 DEF Accepted, Memory
    <3> QED BY <2>2, <3>2 DEF ParseMemoryOperand, Parsed
  <2>3. CASE ParseOperand
    <3>1. Accepted
      BY <2>3 DEF ParseOperand, Accepted, Memory
    <3> QED BY <2>3, <3>1 DEF ParseOperand, Parsed
  <2> QED BY <2>1, <2>2, <2>3
<1>2. (Accepted' <=> Accepted) /\ OperandStart
  BY <1>1, SameText DEF OperandInv, Decided
<1>3. OperandTypes'
  BY <1>1 DEF OperandInv, OperandTypes
<1>4. Decided'
  BY <1>1, <1>2 DEF Decided, OperandStart
<1>5. EncodedSoFar' /\ DecodedSoFar'
  BY <1>1 DEF EncodedSoFar, DecodedSoFar
<1> QED BY <1>3, <1>4, <1>5 DEF OperandInv

LEMMA ProcessKeeps ==
  ASSUME OperandInv, ProcessInstruction
  PROVE  OperandInv'
<1>1. /\ step = "process" /\ step' = "encode" /\ insts' = Insts
      /\ UNCHANGED <<class, literal, fields, baseIs, words, decoded>>
  BY DEF ProcessInstruction, Insts
<1>2. Accepted /\ words = <<>> /\ decoded = <<>>
  BY <1>1 DEF OperandInv, Decided, OperandStart
<1>3. Accepted' = Accepted /\ Insts' = Insts
  BY <1>1, SameText
<1>4. OperandTypes'
  BY <1>1 DEF OperandInv, OperandTypes
<1>5. Decided'
  BY <1>1, <1>2, <1>3 DEF Decided
<1>6. EncodedSoFar' /\ DecodedSoFar'
  BY <1>1, <1>2 DEF EncodedSoFar, DecodedSoFar
<1> QED BY <1>4, <1>5, <1>6 DEF OperandInv

LEMMA EncodeKeeps ==
  ASSUME OperandInv, encodeInstruction
  PROVE  OperandInv'
<1> DEFINE i == Len(words) + 1
           w == Append(words, Encoding(insts[i]))
<1>1. /\ step = "encode" /\ words' = w /\ step' = IF Len(w) = Len(insts)
           THEN "decode" ELSE "encode"
      /\ UNCHANGED <<class, literal, fields, baseIs, insts, decoded>>
  BY DEF encodeInstruction, Encoding
<1>2. Accepted /\ insts = Insts /\ decoded = <<>> /\ OperandTypes
  BY <1>1 DEF OperandInv, Decided, EncodedSoFar
<1>3. Accepted' = Accepted /\ Insts' = Insts
  BY <1>1, SameText
<1>4. Len(insts) = 1 \/ Len(insts) = 2
  BY <1>2, InstsAre
<1>5. words = <<>> \/ (Len(insts) = 2 /\ words = <<E(1)>>)
  BY <1>1 DEF OperandInv, EncodedSoFar
<1>6. E(1)' = E(1) /\ E(2)' = E(2)
  BY <1>1 DEF E
<1>7. OperandTypes'
  BY <1>1, <1>2 DEF OperandTypes
<1>8. step' \in {"encode", "decode"}
  BY <1>1
<1>9. Decided'
  BY <1>1, <1>2, <1>3, <1>8 DEF Decided
<1>10. CASE words = <<>>
  <2>1. i = 1
    BY <1>10, Tuples
  <2>2. w = <<E(1)>>
    BY <1>10, <2>1, Tuples DEF E
  <2>3. Len(w) = 1
    BY <2>2, Tuples
  <2> HIDE DEF w
  <2>4. EncodedSoFar' /\ DecodedSoFar'
    BY <1>1, <1>2, <1>4, <1>6, <2>2, <2>3 DEF EncodedSoFar, DecodedSoFar
  <2> QED BY <1>7, <1>9, <2>4 DEF OperandInv
<1>11. CASE Len(insts) = 2 /\ words = <<E(1)>>
  <2>1. i = 2
    BY <1>11, Tuples
  <2>2. w = <<E(1), E(2)>>
    BY <1>11, <2>1, Tuples DEF E
  <2>3. Len(w) = 2
    BY <2>2, Tuples
  <2> HIDE DEF w
  <2>4. EncodedSoFar' /\ DecodedSoFar'
    BY <1>1, <1>2, <1>6, <1>11, <2>2, <2>3 DEF EncodedSoFar, DecodedSoFar
  <2> QED BY <1>7, <1>9, <2>4 DEF OperandInv
<1> QED BY <1>5, <1>10, <1>11

LEMMA DecodeKeeps ==
  ASSUME OperandInv, getInstruction
  PROVE  OperandInv'
<1> DEFINE i == Len(decoded) + 1
           d == Append(decoded, Decoding(insts[i], words[i]))
<1>1. /\ step = "decode" /\ decoded' = d /\ step' = IF Len(d) = Len(words)
           THEN "done" ELSE "decode"
      /\ UNCHANGED <<class, literal, fields, baseIs, insts, words>>
  BY DEF getInstruction, Decoding
<1>2. Accepted /\ insts = Insts /\ OperandTypes
  BY <1>1 DEF OperandInv, Decided
<1>3. Accepted' = Accepted /\ Insts' = Insts
  BY <1>1, SameText
<1>4. (Len(insts) = 1 /\ words = <<E(1)>>) \/ (Len(insts) = 2 /\ words = <<E(1), E(2)>>)
  BY <1>1 DEF OperandInv, EncodedSoFar
<1>5. decoded = <<>> \/ (Len(insts) = 2 /\ decoded = <<D(1)>>)
  BY <1>1 DEF OperandInv, DecodedSoFar
<1>6. E(1)' = E(1) /\ E(2)' = E(2) /\ D(1)' = D(1) /\ D(2)' = D(2)
  BY <1>1 DEF E, D
<1>7. OperandTypes'
  BY <1>1, <1>2 DEF OperandTypes
<1>8. step' \in {"decode", "done"}
  BY <1>1
<1>9. Decided'
  BY <1>1, <1>2, <1>3, <1>8 DEF Decided
<1>10. Len(words) = Len(insts) /\ words[1] = E(1) /\ (Len(insts) = 2 => words[2] = E(2))
  BY <1>4, Tuples
<1>11. EncodedSoFar'
  BY <1>1, <1>4, <1>6, <1>8 DEF EncodedSoFar
<1>12. CASE decoded = <<>>
  <2>1. i = 1
    BY <1>12, Tuples
  <2>2. d = <<D(1)>>
    BY <1>10, <1>12, <2>1, Tuples DEF D
  <2>3. Len(d) = 1
    BY <2>2, Tuples
  <2> HIDE DEF d
  <2>4. DecodedSoFar'
    BY <1>1, <1>4, <1>6, <1>10, <2>2, <2>3 DEF DecodedSoFar
  <2> QED BY <1>7, <1>9, <1>11, <2>4 DEF OperandInv
<1>13. CASE Len(insts) = 2 /\ decoded = <<D(1)>>
  <2>1. i = 2
    BY <1>13, Tuples
  <2>2. d = <<D(1), D(2)>>
    BY <1>10, <1>13, <2>1, Tuples DEF D
  <2>3. Len(d) = 2
    BY <2>2, Tuples
  <2> HIDE DEF d
  <2>4. DecodedSoFar'
    BY <1>1, <1>6, <1>10, <1>13, <2>2, <2>3 DEF DecodedSoFar
  <2> QED BY <1>7, <1>9, <1>11, <2>4 DEF OperandInv
<1> QED BY <1>5, <1>12, <1>13

LEMMA OperandKeeps ==
  ASSUME OperandInv, OperandNext
  PROVE  OperandInv'
BY ParseKeeps, ProcessKeeps, EncodeKeeps, DecodeKeeps DEF OperandNext

(* The three properties, from the invariant. *)
LEMMA OperandGivesReached ==
  ASSUME OperandInv, step = "done"
  PROVE  Word32(literal) = UNION {HardwareValue(insts[k].format, words[k]) :
           k \in 1 .. Len(words)}
<1>1. OperandTypes /\ Accepted /\ insts = Insts
  BY DEF OperandInv, Decided
<1>2. Word32(literal) = UNION {HardwareValue(Insts[k].format, Encoding(Insts[k])) :
        k \in 1 .. Len(Insts)}
  BY <1>1, InstsAre
<1>3. (Len(insts) = 1 /\ words = <<E(1)>>) \/ (Len(insts) = 2 /\ words = <<E(1), E(2)>>)
  BY DEF OperandInv, EncodedSoFar
<1>4. CASE Len(insts) = 1 /\ words = <<E(1)>>
  <2>1. Len(words) = 1 /\ words[1] = E(1)
    BY <1>4, Tuples
  <2>2. 1 .. Len(words) = {1} /\ 1 .. Len(insts) = {1}
    BY <1>4, <2>1
  <2> QED BY <1>1, <1>2, <2>1, <2>2 DEF E
<1>5. CASE Len(insts) = 2 /\ words = <<E(1), E(2)>>
  <2>1. Len(words) = 2 /\ words[1] = E(1) /\ words[2] = E(2)
    BY <1>5, Tuples
  <2>2. 1 .. Len(words) = {1, 2} /\ 1 .. Len(insts) = {1, 2}
    BY <1>5, <2>1
  <2> QED BY <1>1, <1>2, <2>1, <2>2 DEF E
<1> QED BY <1>3, <1>4, <1>5

LEMMA OperandGivesRoundTrip ==
  ASSUME OperandInv
  PROVE  RoundTrip
<1> SUFFICES ASSUME step = "done", NEW k \in 1 .. Len(insts)
             PROVE  LET inst == [insts[k] EXCEPT !.imm = Word32(@)]
                    IN  \/ decoded[k] = inst
                        \/ /\ inst.format = "FormatMMasked" /\ 9 \in inst.imm
                           /\ [decoded[k] EXCEPT !.imm = inst.imm] = inst
  BY DEF RoundTrip
<1>1. OperandTypes /\ Accepted /\ insts = Insts
  BY DEF OperandInv, Decided
<1>2. Packable(insts[k]) /\ Fits(insts[k])
  BY <1>1, InstsAre
<1>3. (Len(insts) = 1 /\ decoded = <<D(1)>>) \/ (Len(insts) = 2 /\ decoded = <<D(1), D(2)>>)
  BY DEF OperandInv, DecodedSoFar
<1>4. decoded[k] = D(k)
  <2>1. CASE Len(insts) = 1 /\ decoded = <<D(1)>>
    <3>1. k = 1
      BY <2>1
    <3> QED BY <2>1, <3>1
  <2>2. CASE Len(insts) = 2 /\ decoded = <<D(1), D(2)>>
    <3>1. k = 1 \/ k = 2
      BY <2>2
    <3> QED BY <2>2, <3>1
  <2> QED BY <1>3, <2>1, <2>2
<1>5. D(k) = Decoding(insts[k], Encoding(insts[k]))
  BY DEF D, E
<1> QED BY <1>2, <1>4, <1>5, WholeComesBack

LEMMA OperandGivesRefused ==
  ASSUME OperandInv
  PROVE  RefusedOutOfRange
<1> SUFFICES ASSUME step = "error"
             PROVE  LET inst == Instruction(Format(class), {}, literal)
                        held == HardwareValue(inst.format, OperandField(inst))
                    IN  \/ literal # held \cup (IF 31 \in held THEN 32 .. 63 ELSE {})
                        \/ class \in Memory /\ ~BankMatches
  BY DEF RefusedOutOfRange
<1> DEFINE f == Format(class)
           inst == Instruction(f, {}, literal)
           held == HardwareValue(inst.format, OperandField(inst))
           back == held \cup (IF 31 \in held THEN 32 .. 63 ELSE {})
           n == FieldSize(f)
<1>1. OperandTypes /\ ~Accepted /\ literal \subseteq 0 .. 63
  BY DEF OperandInv, Decided, OperandTypes
<1>2. class # "LI"
  BY <1>1 DEF Accepted, Memory
<1>3. f \in Formats /\ (f = "MOVEHI" <=> class = "SImm19")
  BY <1>1, <1>2, SameWidth
<1>4. Packable(inst) /\ inst.format = f /\ inst.imm = literal /\ inst.base = {}
  <2>1. Usable(f, {}, literal)
    BY <1>1, <1>3 DEF Usable
  <2> QED BY <1>1, <2>1, InstructionIs
<1> HIDE DEF f, inst
<1>5. /\ Low(OperandField(inst), 5) = Lower(inst)
      /\ Extract(OperandField(inst), FieldLo(inst.format), FieldSize(inst.format))
           = Low(Upper(inst), FieldSize(inst.format))
  <2>1. \A x : x \notin inst.base
    BY <1>4
  <2> QED BY <1>4, <2>1, BareOperandIs
<1>6. /\ f # "MOVEHI" => held = SignExtend(Low(literal, n), n)
      /\ f = "MOVEHI" => held = Low(literal, 19)
  BY <1>2, <1>4, <1>5, ValueIs
<1> HIDE DEF held
<1>7. CASE class = "SImm19"
  <2>1. ~isUInt(19, literal)
    BY <1>1, <1>7 DEF Accepted, Memory
  <2>2. PICK i \in literal : ~(i < 19)
    BY <2>1 DEF isUInt
  <2>3. held = Low(literal, 19)
    BY <1>3, <1>6, <1>7
  <2>4. i \notin held /\ 31 \notin held
    BY <2>2, <2>3 DEF Low
  <2>5. literal # back
    BY <2>2, <2>4
  <2> QED BY <2>5 DEF held, inst, f
<1>8. CASE class # "SImm19"
  <2>1. n = MaxBits(class) /\ n \in 1 .. 31
    BY <1>1, <1>2, <1>8, SameWidth DEF f
  <2>2. held = SignExtend(Low(literal, n), n)
    BY <1>3, <1>6, <1>8
  <2>3. isInt(n, literal) => class \in Memory /\ ~BankMatches
    BY <1>1, <1>2, <1>8, <2>1 DEF Accepted, OperandTypes, Immediates, Memory
  <2> HIDE DEF n
  <2>4. literal = back => isInt(n, literal)
    BY <1>1, <2>1, <2>2, SignLost
  <2> QED BY <2>3, <2>4 DEF held, inst, f
<1> QED BY <1>7, <1>8

LEMMA FixupGives ==
  ASSUME FixupInv
  PROVE  SymbolReached /\ OtherBitsKept /\ NoFalseError
BY DEF FixupInv, FilledIn, Unreachable, SymbolReached, NoFalseError

-----------------------------------------------------------------------------
(* Both invariants hold throughout: a step is one of the fixup or of the   *)
(* operand, and leaves the other alone.                                    *)
THEOREM AssemblyInvariant == AssemblySpec => [](FixupInv /\ OperandInv)
<1>1. AssemblyInit => FixupInv /\ OperandInv
  BY FixupStarts, OperandStarts DEF AssemblyInit
<1>2. ASSUME FixupInv, UNCHANGED vars PROVE FixupInv'
  <2>1. UNCHANGED <<kind, off, symbol, word, other, rela, section, got, error, stage>>
    BY <1>2 DEF vars
  <2>2. FixupTypes'
    BY <1>2, <2>1 DEF FixupInv, FixupTypes, OperandBits, FieldBits, TargetOffset, TargetSize
  <2>3. Untouched' /\ LeftToLinker'
    BY <1>2, <2>1 DEF FixupInv, Untouched, LeftToLinker
  <2>4. (DecodedRight' <=> DecodedRight) /\ (Unreachable' <=> Unreachable)
    BY <2>1 DEF DecodedRight, Unreachable, FinalAddress
  <2>5. FilledIn'
    BY <1>2, <2>1, <2>4 DEF FixupInv, FilledIn
  <2>6. OtherBitsKept'
    BY <1>2, <2>1 DEF FixupInv, OtherBitsKept
  <2> QED BY <2>2, <2>3, <2>5, <2>6 DEF FixupInv
<1>3. ASSUME OperandInv, UNCHANGED operandVars PROVE OperandInv'
  <2>1. UNCHANGED <<class, literal, fields, baseIs, step, insts, words, decoded>>
    BY <1>3 DEF operandVars
  <2>2. Accepted' = Accepted /\ Insts' = Insts
    BY <2>1, SameText
  <2>3. OperandTypes'
    BY <1>3, <2>1 DEF OperandInv, OperandTypes
  <2>4. Decided'
    BY <1>3, <2>1, <2>2 DEF OperandInv, Decided, OperandStart
  <2>5. E(1)' = E(1) /\ E(2)' = E(2) /\ D(1)' = D(1) /\ D(2)' = D(2)
    BY <2>1 DEF E, D
  <2>6. EncodedSoFar' /\ DecodedSoFar'
    BY <1>3, <2>1, <2>5 DEF OperandInv, EncodedSoFar, DecodedSoFar
  <2> QED BY <2>3, <2>4, <2>6 DEF OperandInv
<1>4. FixupInv /\ OperandInv /\ [AssemblyNext]_assemblyVars => (FixupInv /\ OperandInv)'
  <2> SUFFICES ASSUME FixupInv, OperandInv, [AssemblyNext]_assemblyVars
               PROVE  (FixupInv /\ OperandInv)'
    OBVIOUS
  <2>1. CASE Next /\ UNCHANGED operandVars
    BY <1>3, <2>1, FixupKeeps
  <2>2. CASE OperandNext /\ UNCHANGED vars
    BY <1>2, <2>2, OperandKeeps
  <2>3. CASE UNCHANGED assemblyVars
    BY <1>2, <1>3, <2>3 DEF assemblyVars
  <2> QED BY <2>1, <2>2, <2>3 DEF AssemblyNext
<1> QED BY <1>1, <1>4, PTL DEF AssemblySpec

(* Every instruction that refers to a symbol reaches it or is refused,     *)
(* whatever the offsets, addresses and other operands are.                 *)
THEOREM EverySymbolReached == AssemblySpec => []SymbolReached
<1>1. FixupInv /\ OperandInv => SymbolReached
  BY FixupGives
<1> QED BY <1>1, AssemblyInvariant, PTL

(* applyFixup and relocateOne touch nothing outside the field. *)
THEOREM OtherOperandsKept == AssemblySpec => []OtherBitsKept
<1>1. FixupInv /\ OperandInv => OtherBitsKept
  BY FixupGives
<1> QED BY <1>1, AssemblyInvariant, PTL

(* Both range checks, of different code, refuse only what does not fit. *)
THEOREM OnlyUnreachableRefused == AssemblySpec => []NoFalseError
<1>1. FixupInv /\ OperandInv => NoFalseError
  BY FixupGives
<1> QED BY <1>1, AssemblyInvariant, PTL

(* The number that was written, of any 64 bits, is the one computed with. *)
THEOREM EveryLiteralReached == AssemblySpec => []LiteralReached
<1>1. FixupInv /\ OperandInv => LiteralReached
  BY OperandGivesReached DEF LiteralReached
<1> QED BY <1>1, AssemblyInvariant, PTL

(* The parser refuses a number only if the field would change it. *)
THEOREM OnlyLostLiteralsRefused == AssemblySpec => []RefusedOutOfRange
<1>1. FixupInv /\ OperandInv => RefusedOutOfRange
  BY OperandGivesRefused
<1> QED BY <1>1, AssemblyInvariant, PTL

(* Disassembly gives the operands back. *)
THEOREM DisassemblyGivesBack == AssemblySpec => []RoundTrip
<1>1. FixupInv /\ OperandInv => RoundTrip
  BY OperandGivesRoundTrip
<1> QED BY <1>1, AssemblyInvariant, PTL
=============================================================================
