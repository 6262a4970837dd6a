------------------------ MODULE NyuziFrameIndex_proofs ------------------------
(***************************************************************************)
(* What the layout of a frame guarantees, for every function and every     *)
(* width of the immediates: offsets survive their split into instructions, *)
(* objects do not overlap, are aligned and lie above the outgoing          *)
(* arguments, and exactly the registers that must be are saved, each once. *)
(* Then the theorems about NyuziFrameIndex: the encodings of an offset are *)
(* exact, the scavenger has a slot when it needs one, and can reach it.    *)
(*                                                                         *)
(* The layout is a recursive function over the objects.  Induction over    *)
(* its domain is done with sets: the least index at which a claim fails.   *)
(***************************************************************************)
EXTENDS NyuziFrameIndex, TLAPS, WellFoundedInduction

-----------------------------------------------------------------------------
(* Induction and recursion on the natural numbers, without operators as    *)
(* parameters: a property is the set of the numbers that have it, a step   *)
(* is a function.                                                          *)
LEMMA NatMin ==
  ASSUME NEW T, T \subseteq Nat, T # {}
  PROVE  \E x \in T : \A y \in T : x <= y
<1> DEFINE R == {ss \in Nat \X Nat : ss[1] < ss[2]}
<1>1. IsWellFoundedOn(R, Nat)
  BY NatLessThanWellFounded, Zenon DEF OpToRel
<1>2. \E x \in T : \A y \in T : <<y, x>> \notin R
  <2> HIDE DEF R
  <2> QED BY <1>1, WFMin
<1>3. PICK x \in T : \A y \in T : <<y, x>> \notin R
  BY <1>2
<1>4. ASSUME NEW y \in T PROVE x <= y
  <2>1. y \in Nat /\ x \in Nat /\ <<y, x>> \in Nat \X Nat
    BY <1>3
  <2>2. <<y, x>>[1] = y /\ <<y, x>>[2] = x
    OBVIOUS
  <2>3. ~(y < x)
    BY <1>3, <2>1, <2>2
  <2> QED BY <2>1, <2>3
<1> QED BY <1>3, <1>4

LEMMA Induct ==
  ASSUME NEW n \in Nat, NEW S, 0 \in S,
         \A i \in 1 .. n : i - 1 \in S => i \in S
  PROVE  \A i \in 0 .. n : i \in S
<1> DEFINE T == {i \in 0 .. n : i \notin S}
<1>1. SUFFICES ASSUME T # {} PROVE FALSE
  OBVIOUS
<1>2. T \subseteq Nat
  OBVIOUS
<1>3. PICK i \in T : \A j \in T : i <= j
  <2> HIDE DEF T
  <2> QED BY <1>1, <1>2, NatMin
<1>4. i \in 1 .. n /\ i - 1 \in 0 .. n /\ i - 1 \notin T
  BY <1>3
<1> QED BY <1>3, <1>4

Steps(n, V) == [(1 .. n) \X V -> V]
DefinedBy(f, n, V, base, step) ==
  /\ f \in [0 .. n -> V]
  /\ f[0] = base
  /\ \A i \in 1 .. n : f[i] = step[<<i, f[i - 1]>>]

LEMMA Recursion ==
  ASSUME NEW V, NEW base \in V, NEW n \in Nat, NEW step \in Steps(n, V)
  PROVE  \E f : DefinedBy(f, n, V, base, step)
<1> USE DEF Steps
<1> DEFINE Good(m, f) == f[0] = base /\ \A i \in 1 .. m : f[i] = step[<<i, f[i - 1]>>]
           S == {m \in 0 .. n : \E f \in [0 .. m -> V] : Good(m, f)}
<1>1. 0 \in S
  <2> DEFINE f == [i \in 0 .. 0 |-> base]
  <2>1. f \in [0 .. 0 -> V] /\ Good(0, f)
    OBVIOUS
  <2> HIDE DEF f
  <2> QED BY <2>1
<1>2. ASSUME NEW m \in 1 .. n, m - 1 \in S PROVE m \in S
  <2>1. PICK f \in [0 .. (m - 1) -> V] : Good(m - 1, f)
    BY <1>2
  <2> DEFINE g == [i \in 0 .. m |-> IF i = m THEN step[<<m, f[m - 1]>>] ELSE f[i]]
  <2>2. step[<<m, f[m - 1]>>] \in V
    <3>1. f[m - 1] \in V
      BY <2>1
    <3> QED BY <3>1
  <2>3. g \in [0 .. m -> V]
    BY <2>2
  <2>4. g[0] = base
    BY <2>1
  <2>5. ASSUME NEW i \in 1 .. m PROVE g[i] = step[<<i, g[i - 1]>>]
    <3>1. CASE i = m
      <4>1. g[m] = step[<<m, f[m - 1]>>] /\ g[m - 1] = f[m - 1]
        OBVIOUS
      <4> QED BY <3>1, <4>1
    <3>2. CASE i # m
      <4>1. i \in 1 .. (m - 1) /\ g[i] = f[i] /\ g[i - 1] = f[i - 1]
        BY <3>2
      <4> QED BY <2>1, <4>1
    <3> QED BY <3>1, <3>2
  <2> HIDE DEF g
  <2> QED BY <2>3, <2>4, <2>5
<1>3. n \in S
  <2> HIDE DEF S
  <2>1. \A i \in 0 .. n : i \in S
    BY <1>1, <1>2, Induct
  <2> QED BY <2>1
<1>4. PICK f \in [0 .. n -> V] : Good(n, f)
  BY <1>3
<1>5. DefinedBy(f, n, V, base, step)
  BY <1>4 DEF DefinedBy
<1> QED BY <1>5

-----------------------------------------------------------------------------
(* Division. *)
LEMMA DivMod ==
  ASSUME NEW a \in Int, NEW d \in Nat \ {0}
  PROVE  /\ a \div d \in Int /\ a % d \in 0 .. (d - 1)
         /\ a = d * (a \div d) + (a % d)
OBVIOUS

LEMMA DivModUnique ==
  ASSUME NEW d \in Nat \ {0}, NEW q \in Int, NEW r \in 0 .. (d - 1)
  PROVE  (d * q + r) % d = r /\ (d * q + r) \div d = q
<1> DEFINE a == d * q + r
           p == a \div d
           s == a % d
<1>1. a \in Int /\ p \in Int /\ s \in 0 .. (d - 1) /\ a = d * p + s
  <2>1. a \in Int
    OBVIOUS
  <2> HIDE DEF a
  <2> QED BY <2>1, DivMod
<1>2. d * (q - p) = s - r
  BY <1>1
<1> HIDE DEF a, p, s
<1>3. CASE q - p >= 1
  <2>1. d * (q - p) >= d
    BY <1>1, <1>3
  <2> QED BY <1>1, <1>2, <2>1
<1>4. CASE q - p <= -1
  <2>1. d * (q - p) <= -d
    BY <1>1, <1>4
  <2> QED BY <1>1, <1>2, <2>1
<1>5. CASE q = p
  BY <1>1, <1>2, <1>5 DEF a, p, s
<1> QED BY <1>1, <1>3, <1>4, <1>5

(* d divides a. *)
Multiple(a, d) == \E q \in Int : a = d * q

LEMMA MultipleMod ==
  ASSUME NEW a \in Int, NEW d \in Nat \ {0}
  PROVE  Multiple(a, d) <=> a % d = 0
<1>1. ASSUME Multiple(a, d) PROVE a % d = 0
  <2>1. PICK q \in Int : a = d * q + 0
    BY <1>1 DEF Multiple
  <2> QED BY <2>1, DivModUnique
<1>2. ASSUME a % d = 0 PROVE Multiple(a, d)
  BY <1>2, DivMod DEF Multiple
<1> QED BY <1>1, <1>2

LEMMA MultipleSum ==
  ASSUME NEW a \in Int, NEW b \in Int, NEW d \in Nat \ {0}, Multiple(a, d), Multiple(b, d)
  PROVE  Multiple(a + b, d) /\ Multiple(a - b, d)
<1>1. PICK p \in Int : a = d * p
  BY DEF Multiple
<1>2. PICK q \in Int : b = d * q
  BY DEF Multiple
<1>3. a + b = d * (p + q) /\ a - b = d * (p - q) /\ p + q \in Int /\ p - q \in Int
  BY <1>1, <1>2
<1> QED BY <1>3 DEF Multiple

LEMMA MultipleTrans ==
  ASSUME NEW a \in Int, NEW b \in Nat \ {0}, NEW c \in Nat \ {0}, Multiple(a, b), Multiple(b, c)
  PROVE  Multiple(a, c)
<1>1. PICK p \in Int : a = b * p
  BY DEF Multiple
<1>2. PICK q \in Int : b = c * q
  BY DEF Multiple
<1>3. a = c * (q * p) /\ q * p \in Int
  BY <1>1, <1>2
<1> QED BY <1>3 DEF Multiple

LEMMA AlignTo ==
  ASSUME NEW x \in Nat, NEW a \in Nat \ {0}
  PROVE  /\ alignTo(x, a) \in Nat /\ alignTo(x, a) >= x /\ alignTo(x, a) < x + a
         /\ Multiple(alignTo(x, a), a)
<1> DEFINE y == x + a - 1
           q == y \div a
<1>1. y \in Nat
  OBVIOUS
<1>2. q \in Int /\ y % a \in 0 .. (a - 1) /\ y = a * q + (y % a)
  <2> HIDE DEF y
  <2> QED BY <1>1, DivMod
<1>3. alignTo(x, a) = a * q
  BY <1>2 DEF alignTo
<1> HIDE DEF q
<1>4. q >= 0
  BY <1>1, <1>2
<1>5. a * q \in Nat /\ a * q >= x /\ a * q < x + a
  BY <1>2, <1>4
<1>6. Multiple(alignTo(x, a), a)
  BY <1>2, <1>3 DEF Multiple
<1> QED BY <1>3, <1>5, <1>6

-----------------------------------------------------------------------------
(* An offset in instructions. *)
LEMMA ModCong ==
  ASSUME NEW a \in Int, NEW b \in Int, NEW d \in Nat \ {0}, Multiple(a - b, d)
  PROVE  a % d = b % d
<1>1. PICK q \in Int : a - b = d * q
  BY DEF Multiple
<1>2. b \div d \in Int /\ b % d \in 0 .. (d - 1) /\ b = d * (b \div d) + (b % d)
  BY DivMod
<1> DEFINE p == b \div d
           r == b % d
<1>3. p \in Int /\ r \in 0 .. (d - 1) /\ b = d * p + r
  BY <1>2
<1> HIDE DEF p, r
<1>4. a = d * (p + q) + r /\ p + q \in Int
  BY <1>1, <1>3
<1>5. a % d = r
  BY <1>3, <1>4, DivModUnique
<1> QED BY <1>5 DEF r

LoSize == 2^LoBits
HiSize == 2^HiBits
WordSize == 2^(LoBits + HiBits)

LEMMA WordFacts ==
  /\ LoSize \in Nat \ {0} /\ HiSize \in Nat \ {0} /\ WordSize \in Nat \ {0}
  /\ WordSize = LoSize * HiSize
  /\ \A n \in Int : Wrap(n) = n % WordSize
<1>1. LoSize \in Nat \ {0} /\ HiSize \in Nat \ {0} /\ WordSize = LoSize * HiSize
  BY PowersAssumption DEF LoSize, HiSize, WordSize
<1>2. WordSize \in Nat \ {0}
  BY <1>1
<1> QED BY <1>1, <1>2 DEF Wrap, WordSize

LEMMA WrapFacts ==
  ASSUME NEW a \in Int
  PROVE  /\ Wrap(a) \in 0 .. (WordSize - 1) /\ Multiple(Wrap(a) - a, WordSize)
         /\ (a \in 0 .. (WordSize - 1) => Wrap(a) = a)
<1>1. WordSize \in Nat \ {0} /\ Wrap(a) = a % WordSize
  BY WordFacts
<1>2. a \div WordSize \in Int /\ a % WordSize \in 0 .. (WordSize - 1)
      /\ a = WordSize * (a \div WordSize) + (a % WordSize)
  BY <1>1, DivMod
<1> DEFINE q == a \div WordSize
<1>3. Wrap(a) - a = WordSize * (-q) /\ -q \in Int
  <2>1. q \in Int /\ Wrap(a) \in Int /\ a = WordSize * q + Wrap(a)
    BY <1>1, <1>2
  <2> HIDE DEF q
  <2> QED BY <2>1, <1>1
<1>4. ASSUME a \in 0 .. (WordSize - 1) PROVE Wrap(a) = a
  <2>1. a = WordSize * 0 + a
    BY <1>1
  <2> QED BY <1>1, <1>4, <2>1, DivModUnique
<1> QED BY <1>1, <1>2, <1>3, <1>4 DEF Multiple

LEMMA WrapCong ==
  ASSUME NEW a \in Int, NEW b \in Int, Multiple(a - b, WordSize)
  PROVE  Wrap(a) = Wrap(b)
BY WordFacts, ModCong

LEMMA Parts ==
  ASSUME NEW v \in Int
  PROVE  /\ HighPart(v) \in Nat /\ LowPart(v) \in Nat
         /\ Multiple(HighPart(v) * LoSize + LowPart(v) - v, WordSize)
<1> DEFINE p == v \div LoSize
           q == p \div HiSize
<1>1. p \in Int /\ LowPart(v) \in 0 .. (LoSize - 1) /\ v = LoSize * p + LowPart(v)
  BY DivMod, WordFacts DEF LowPart, LoSize
<1>2. q \in Int /\ p % HiSize \in 0 .. (HiSize - 1) /\ p = HiSize * q + (p % HiSize)
  <2> HIDE DEF p
  <2> QED BY <1>1, DivMod, WordFacts
<1>3. HighPart(v) = p % HiSize
  BY DEF HighPart, LoSize, HiSize
<1>4. HighPart(v) \in Nat /\ p = HiSize * q + HighPart(v)
  <2> HIDE DEF p, q
  <2> QED BY <1>2, <1>3, WordFacts
<1> HIDE DEF p, q
<1>5. v = LoSize * (HiSize * q + HighPart(v)) + LowPart(v)
  BY <1>1, <1>4
<1>6. v = LoSize * HiSize * q + LoSize * HighPart(v) + LowPart(v)
  BY <1>1, <1>2, <1>4, <1>5, WordFacts
<1>7. HighPart(v) * LoSize + LowPart(v) - v = WordSize * (-q) /\ -q \in Int
  BY <1>1, <1>2, <1>4, <1>6, WordFacts
<1>8. Multiple(HighPart(v) * LoSize + LowPart(v) - v, WordSize)
  BY <1>7 DEF Multiple
<1>9. LowPart(v) \in Nat
  BY <1>1, WordFacts
<1> QED BY <1>4, <1>8, <1>9

(* Whichever form the instructions take, they add the offset. *)
LEMMA FrameAddressExact ==
  ASSUME NEW reg \in Int, NEW offset \in Int
  PROVE  FrameAddress(reg, offset) = Wrap(reg + offset)
<1> DEFINE high == HighPart(offset) * LoSize
           Reg == Wrap(high + reg)
<1>1. high \in Int /\ LowPart(offset) \in Int /\ Multiple(high + LowPart(offset) - offset, WordSize)
  BY Parts, WordFacts
<1>2. FrameAddress(reg, offset) =
        IF isInt(ImmBits, offset) THEN Wrap(reg + offset) ELSE Wrap(Reg + LowPart(offset))
  BY DEF FrameAddress, LoSize
<1> HIDE DEF high
<1>3. Reg \in Int /\ Multiple(Reg - (high + reg), WordSize)
  <2>1. high + reg \in Int
    BY <1>1
  <2>2. Reg \in 0 .. (WordSize - 1) /\ Multiple(Reg - (high + reg), WordSize)
    BY <2>1, WrapFacts
  <2> QED BY <2>2, WordFacts
<1> HIDE DEF Reg
<1>4. WordSize \in Nat \ {0}
  BY WordFacts
<1> DEFINE a == Reg - (high + reg)
           b == high + LowPart(offset) - offset
<1>5. Multiple(a + b, WordSize)
  <2>1. a \in Int /\ b \in Int /\ Multiple(a, WordSize) /\ Multiple(b, WordSize)
    BY <1>1, <1>3
  <2> HIDE DEF a, b
  <2> QED BY <2>1, <1>4, MultipleSum
<1>6. a + b = (Reg + LowPart(offset)) - (reg + offset)
  BY <1>1, <1>3
<1>7. Wrap(Reg + LowPart(offset)) = Wrap(reg + offset)
  <2>1. Reg + LowPart(offset) \in Int /\ reg + offset \in Int
    BY <1>1, <1>3
  <2> QED BY <1>5, <1>6, <2>1, WrapCong
<1> QED BY <1>2, <1>7

LEMMA AdjustExact ==
  ASSUME NEW sp \in Int, NEW amount \in Int
  PROVE  adjustStackPointer(sp, amount) = Wrap(sp + amount)
<1>1. loadConstant(amount) \in Int /\ Multiple(loadConstant(amount) - amount, WordSize)
  BY Parts, WordFacts DEF loadConstant, LoSize
<1>2. (sp + loadConstant(amount)) - (sp + amount) = loadConstant(amount) - amount
  BY <1>1
<1>3. sp + loadConstant(amount) \in Int /\ sp + amount \in Int
  BY <1>1
<1>4. Wrap(sp + loadConstant(amount)) = Wrap(sp + amount)
  BY <1>1, <1>2, <1>3, WrapCong
<1> QED BY <1>4 DEF adjustStackPointer

-----------------------------------------------------------------------------
(* The objects of a frame. *)
StackObject == [size : Nat \ {0}, align : Nat \ {0}]

LEMMA ObjectTypes ==
  ASSUME NEW objects \in Seq(StackObject)
  PROVE  /\ Len(objects) \in Nat /\ DOMAIN objects = 1 .. Len(objects)
         /\ \A i \in 1 .. Len(objects) :
              objects[i].size \in Nat \ {0} /\ objects[i].align \in Nat \ {0}
<1>1. Len(objects) \in Nat /\ DOMAIN objects = 1 .. Len(objects)
  OBVIOUS
<1>2. ASSUME NEW i \in 1 .. Len(objects)
      PROVE  objects[i].size \in Nat \ {0} /\ objects[i].align \in Nat \ {0}
  <2>1. objects[i] \in StackObject
    OBVIOUS
  <2> QED BY <2>1 DEF StackObject
<1> QED BY <1>1, <1>2

LEMMA StackOffsetsDef ==
  ASSUME NEW start \in Nat, NEW objects \in Seq(StackObject)
  PROVE  /\ StackOffsets(start, objects) \in [0 .. Len(objects) -> Nat]
         /\ StackOffsets(start, objects)[0] = start
         /\ \A i \in 1 .. Len(objects) : StackOffsets(start, objects)[i] =
              alignTo(StackOffsets(start, objects)[i - 1] + objects[i].size, objects[i].align)
<1> DEFINE n == Len(objects)
           step == [p \in (1 .. n) \X Nat |-> alignTo(p[2] + objects[p[1]].size, objects[p[1]].align)]
           Off == StackOffsets(start, objects)
<1>1. n \in Nat /\ \A i \in 1 .. n : objects[i].size \in Nat /\ objects[i].align \in Nat \ {0}
  BY ObjectTypes
<1>2. step \in [(1 .. n) \X Nat -> Nat]
  <2> SUFFICES ASSUME NEW p \in (1 .. n) \X Nat
               PROVE  alignTo(p[2] + objects[p[1]].size, objects[p[1]].align) \in Nat
    OBVIOUS
  <2>1. p[1] \in 1 .. n /\ p[2] \in Nat
    OBVIOUS
  <2>2. p[2] + objects[p[1]].size \in Nat /\ objects[p[1]].align \in Nat \ {0}
    BY <1>1, <2>1
  <2> QED BY <2>2, AlignTo
<1>3. \A i \in 1 .. n, v \in Nat :
        step[<<i, v>>] = alignTo(v + objects[i].size, objects[i].align)
  OBVIOUS
<1> HIDE DEF step
<1>4. PICK f : DefinedBy(f, n, Nat, start, step)
  <2>1. step \in Steps(n, Nat)
    BY <1>2 DEF Steps
  <2> HIDE DEF n
  <2> QED BY <1>1, <2>1, Recursion
<1>4a. /\ f \in [0 .. n -> Nat] /\ f[0] = start
       /\ \A i \in 1 .. n : f[i] = step[<<i, f[i - 1]>>]
  BY <1>4 DEF DefinedBy
<1>5. f = [i \in 0 .. n |-> IF i = 0 THEN start
                            ELSE alignTo(f[i - 1] + objects[i].size, objects[i].align)]
  <2> DEFINE g == [i \in 0 .. n |-> IF i = 0 THEN start
                                    ELSE alignTo(f[i - 1] + objects[i].size, objects[i].align)]
  <2>1. ASSUME NEW i \in 0 .. n PROVE f[i] = g[i]
    <3>1. CASE i = 0
      BY <1>4a, <3>1
    <3>2. CASE i # 0
      <4>1. i \in 1 .. n /\ f[i - 1] \in Nat
        <5>1. i \in 1 .. n /\ i - 1 \in 0 .. n
          BY <1>1, <3>2
        <5> QED BY <1>4a, <5>1
      <4>2. f[i] = step[<<i, f[i - 1]>>]
        BY <1>4a, <3>2
      <4> QED BY <1>3, <3>2, <4>1, <4>2
    <3> QED BY <3>1, <3>2
  <2>2. f = [i \in 0 .. n |-> f[i]]
    BY <1>4a
  <2> QED BY <2>1, <2>2
<1>6. Off = [i \in 0 .. n |-> IF i = 0 THEN start
                              ELSE alignTo(Off[i - 1] + objects[i].size, objects[i].align)]
  BY <1>5 DEF StackOffsets
<1> HIDE DEF Off
<1>7. Off[0] = start
  BY <1>1, <1>6
<1>8. \A i \in 1 .. n : Off[i] = alignTo(Off[i - 1] + objects[i].size, objects[i].align)
  BY <1>1, <1>6
<1> DEFINE S == {i \in 0 .. n : Off[i] \in Nat}
<1>9. \A i \in 0 .. n : i \in S
  <2>1. 0 \in S
    BY <1>1, <1>7
  <2>2. ASSUME NEW i \in 1 .. n, i - 1 \in S PROVE i \in S
    <3>1. Off[i - 1] + objects[i].size \in Nat /\ objects[i].align \in Nat \ {0}
      BY <1>1, <2>2
    <3>2. Off[i] \in Nat /\ i \in 0 .. n
      <4>1. Off[i] = alignTo(Off[i - 1] + objects[i].size, objects[i].align)
        BY <1>8
      <4>2. alignTo(Off[i - 1] + objects[i].size, objects[i].align) \in Nat
        BY <3>1, AlignTo
      <4> QED BY <4>1, <4>2
    <3> QED BY <3>2
  <2> HIDE DEF S, n
  <2> QED BY <1>1, <2>1, <2>2, Induct
<1>10. Off \in [0 .. n -> Nat]
  BY <1>6, <1>9
<1> QED BY <1>7, <1>8, <1>10 DEF Off

(* Every object lies behind the ones before it and is aligned. *)
LEMMA StackOffsetsFacts ==
  ASSUME NEW start \in Nat, NEW objects \in Seq(StackObject)
  PROVE  LET Off == StackOffsets(start, objects) IN
         /\ \A i \in 1 .. Len(objects) :
              /\ Off[i - 1] + objects[i].size <= Off[i]
              /\ Multiple(Off[i], objects[i].align)
         /\ \A i, j \in 0 .. Len(objects) : i <= j => Off[i] <= Off[j]
<1> DEFINE n == Len(objects)
           Off == StackOffsets(start, objects)
<1>1. n \in Nat /\ \A i \in 1 .. n : objects[i].size \in Nat /\ objects[i].align \in Nat \ {0}
  BY ObjectTypes
<1>2. /\ Off \in [0 .. n -> Nat]
      /\ \A i \in 1 .. n : Off[i] = alignTo(Off[i - 1] + objects[i].size, objects[i].align)
  BY StackOffsetsDef
<1> HIDE DEF n, Off
<1>3. ASSUME NEW i \in 1 .. n
      PROVE  Off[i - 1] + objects[i].size <= Off[i] /\ Multiple(Off[i], objects[i].align)
  <2>1. Off[i - 1] + objects[i].size \in Nat /\ objects[i].align \in Nat \ {0}
    BY <1>1, <1>2
  <2> QED BY <1>2, <2>1, AlignTo
<1>4. ASSUME NEW i \in 0 .. n
      PROVE  \A j \in 0 .. n : i <= j => Off[i] <= Off[j]
  <2> DEFINE S == {j \in 0 .. n : i <= j => Off[i] <= Off[j]}
  <2>1. 0 \in S
    BY <1>1, <1>2
  <2>2. ASSUME NEW j \in 1 .. n, j - 1 \in S PROVE j \in S
    <3>1. Off[j - 1] <= Off[j] /\ Off[j - 1] \in Nat /\ Off[j] \in Nat
      <4>1. j \in 0 .. n /\ j - 1 \in 0 .. n
        BY <1>1
      <4>2. Off[j - 1] \in Nat /\ Off[j] \in Nat /\ objects[j].size \in Nat
        BY <1>1, <1>2, <4>1
      <4>3. Off[j - 1] + objects[j].size <= Off[j]
        BY <1>3
      <4> QED BY <4>2, <4>3
    <3> QED BY <1>1, <1>2, <2>2, <3>1
  <2>3. \A j \in 0 .. n : j \in S
    <3> HIDE DEF S
    <3> QED BY <1>1, <2>1, <2>2, Induct
  <2> QED BY <2>3
<1> QED BY <1>3, <1>4 DEF n, Off

(* The registers that are saved are in the list of the saves, each once. *)
CSRegisters == ToSet(NyuziCSR)

LEMMA CSRFacts ==
  /\ Len(NyuziCSR) \in Nat /\ DOMAIN NyuziCSR = 1 .. Len(NyuziCSR)
  /\ \A i \in 1 .. Len(NyuziCSR) : NyuziCSR[i] \in CSRegisters
  /\ \A i, j \in 1 .. Len(NyuziCSR) : NyuziCSR[i] = NyuziCSR[j] => i = j
  /\ \A r \in CSRegisters : \E i \in 1 .. Len(NyuziCSR) : NyuziCSR[i] = r
  /\ "SP" \notin CSRegisters /\ "FP" \in CSRegisters /\ "RA" \in CSRegisters
<1>1. Len(NyuziCSR) \in Nat /\ DOMAIN NyuziCSR = 1 .. Len(NyuziCSR)
  BY CSRAssumption
<1> QED BY <1>1, CSRAssumption DEF CSRegisters, ToSet, IsInjective

LEMMA SavedTypes ==
  ASSUME NEW f \in Functions
  PROVE  /\ SavedRegs(f) \subseteq CSRegisters
         /\ hasFP(f) => "FP" \in SavedRegs(f)
         /\ f.modified \subseteq SavedRegs(f) /\ "FP" \notin f.modified
         /\ f.adjustsStack => "RA" \in SavedRegs(f)
BY FunctionsAssumption, CSRFacts DEF SavedRegs, CSRegisters

(* The first i registers of the list, those that are saved. *)
LEMMA CalleeSavedFacts ==
  ASSUME NEW f \in Functions
  PROVE  /\ CalleeSavedInfo(f) \in Seq(CSRegisters)
         /\ \A r : r \in SavedRegs(f) <=>
              \E i \in 1 .. Len(CalleeSavedInfo(f)) : CalleeSavedInfo(f)[i] = r
         /\ \A i, j \in 1 .. Len(CalleeSavedInfo(f)) :
              CalleeSavedInfo(f)[i] = CalleeSavedInfo(f)[j] => i = j
<1> DEFINE n == Len(NyuziCSR)
           V == Seq(CSRegisters)
           Saved == SavedRegs(f)
           CSI == CHOOSE c : c = [i \in 0 .. n |->
                    IF i = 0 THEN <<>>
                    ELSE IF NyuziCSR[i] \in Saved THEN Append(c[i - 1], NyuziCSR[i])
                    ELSE c[i - 1]]
           step == [p \in (1 .. n) \X V |->
                      IF NyuziCSR[p[1]] \in Saved THEN Append(p[2], NyuziCSR[p[1]]) ELSE p[2]]
<1>1. n \in Nat /\ \A i \in 1 .. n : NyuziCSR[i] \in CSRegisters
  BY CSRFacts
<1>2. step \in Steps(n, V)
  <2> SUFFICES ASSUME NEW p \in (1 .. n) \X V
               PROVE  (IF NyuziCSR[p[1]] \in Saved THEN Append(p[2], NyuziCSR[p[1]]) ELSE p[2]) \in V
    BY DEF Steps
  <2>1. p[1] \in 1 .. n /\ p[2] \in V
    OBVIOUS
  <2>2. NyuziCSR[p[1]] \in CSRegisters
    BY <1>1, <2>1
  <2> QED BY <2>1, <2>2
<1>3. \A i \in 1 .. n, v \in V :
        step[<<i, v>>] = IF NyuziCSR[i] \in Saved THEN Append(v, NyuziCSR[i]) ELSE v
  OBVIOUS
<1> HIDE DEF step, n
<1>4. PICK c : DefinedBy(c, n, V, <<>>, step)
  <2>1. <<>> \in V
    OBVIOUS
  <2> HIDE DEF V
  <2> QED BY <1>1, <1>2, <2>1, Recursion
<1>5. c \in [0 .. n -> V] /\ c[0] = <<>> /\ \A i \in 1 .. n : c[i] = step[<<i, c[i - 1]>>]
  BY <1>4 DEF DefinedBy
<1>6. ASSUME NEW i \in 1 .. n
      PROVE  c[i] = IF NyuziCSR[i] \in Saved THEN Append(c[i - 1], NyuziCSR[i]) ELSE c[i - 1]
  <2>1. i - 1 \in 0 .. n
    BY <1>1
  <2>2. c[i - 1] \in V
    BY <1>5, <2>1
  <2> QED BY <1>3, <1>5, <2>2
<1>7. c = [i \in 0 .. n |-> IF i = 0 THEN <<>>
                            ELSE IF NyuziCSR[i] \in Saved THEN Append(c[i - 1], NyuziCSR[i])
                            ELSE c[i - 1]]
  <2> DEFINE g == [i \in 0 .. n |-> IF i = 0 THEN <<>>
                            ELSE IF NyuziCSR[i] \in Saved THEN Append(c[i - 1], NyuziCSR[i])
                            ELSE c[i - 1]]
  <2>1. ASSUME NEW i \in 0 .. n PROVE c[i] = g[i]
    <3>1. CASE i = 0
      BY <1>5, <3>1
    <3>2. CASE i # 0
      <4>1. i \in 1 .. n
        BY <1>1, <3>2
      <4> QED BY <1>6, <3>2, <4>1
    <3> QED BY <3>1, <3>2
  <2>2. c = [i \in 0 .. n |-> c[i]]
    BY <1>5
  <2> QED BY <2>1, <2>2
<1>8. CSI = [i \in 0 .. n |-> IF i = 0 THEN <<>>
                              ELSE IF NyuziCSR[i] \in Saved THEN Append(CSI[i - 1], NyuziCSR[i])
                              ELSE CSI[i - 1]]
  BY <1>7
<1>9. CalleeSavedInfo(f) = CSI[n]
  BY DEF CalleeSavedInfo, n
<1> HIDE DEF CSI, Saved
<1>10. /\ CSI[0] = <<>>
       /\ \A i \in 1 .. n :
            CSI[i] = IF NyuziCSR[i] \in Saved THEN Append(CSI[i - 1], NyuziCSR[i]) ELSE CSI[i - 1]
  <2>1. 0 \in 0 .. n /\ \A i \in 1 .. n : i \in 0 .. n /\ i # 0
    BY <1>1
  <2> QED BY <1>8, <2>1, Zenon
<1> DEFINE Good(i, s) ==
             /\ s \in V
             /\ \A j \in 1 .. Len(s) : s[j] \in Saved /\ \E k \in 1 .. i : s[j] = NyuziCSR[k]
             /\ \A k \in 1 .. i : NyuziCSR[k] \in Saved => \E j \in 1 .. Len(s) : s[j] = NyuziCSR[k]
             /\ \A j, k \in 1 .. Len(s) : s[j] = s[k] => j = k
           S == {i \in 0 .. n : Good(i, CSI[i])}
<1>11. 0 \in S
  <2>1. Good(0, <<>>) /\ 0 \in 0 .. n
    BY <1>1
  <2> HIDE DEF Good
  <2> QED BY <1>10, <2>1
<1>12. ASSUME NEW i \in 1 .. n, i - 1 \in S PROVE i \in S
  <2> DEFINE s == CSI[i - 1]
  <2>1. Good(i - 1, s) /\ i \in 0 .. n
    BY <1>1, <1>12
  <2>2. \A k \in 1 .. i : k = i \/ k \in 1 .. (i - 1)
    BY <1>1
  <2> HIDE DEF s
  <2>3. CASE NyuziCSR[i] \notin Saved
    <3>1. Good(i, s)
      BY <2>1, <2>2, <2>3, <1>1
    <3>2. CSI[i] = s /\ i \in 0 .. n
      BY <1>10, <2>1, <2>3 DEF s
    <3> HIDE DEF Good
    <3> QED BY <3>1, <3>2
  <2>4. CASE NyuziCSR[i] \in Saved
    <3> DEFINE t == Append(s, NyuziCSR[i])
    <3>1. NyuziCSR[i] \in CSRegisters
      BY <1>1
    <3>2. /\ t \in V /\ Len(t) = Len(s) + 1 /\ t[Len(s) + 1] = NyuziCSR[i]
          /\ \A j \in 1 .. Len(s) : t[j] = s[j]
          /\ Len(s) \in Nat
      BY <2>1, <3>1
    <3>3. \A j \in 1 .. Len(t) : j = Len(t) \/ j \in 1 .. Len(s)
      BY <3>2
    <3> HIDE DEF t
    <3>4. ASSUME NEW j \in 1 .. Len(s) PROVE s[j] # NyuziCSR[i]
      <4>1. PICK k \in 1 .. (i - 1) : s[j] = NyuziCSR[k]
        BY <2>1
      <4>2. k \in 1 .. n /\ k # i
        BY <1>1
      <4> QED BY <4>1, <4>2, CSRFacts DEF n
    <3>5. ASSUME NEW j \in 1 .. Len(t)
          PROVE  t[j] \in Saved /\ \E k \in 1 .. i : t[j] = NyuziCSR[k]
      <4>1. CASE j = Len(t)
        <5>1. i \in 1 .. i
          BY <1>1
        <5> QED BY <2>4, <3>2, <4>1, <5>1
      <4>2. CASE j \in 1 .. Len(s)
        <5>1. PICK k \in 1 .. (i - 1) : s[j] = NyuziCSR[k]
          BY <2>1, <4>2
        <5>2. k \in 1 .. i
          BY <1>1
        <5> QED BY <2>1, <3>2, <4>2, <5>1, <5>2
      <4> QED BY <3>3, <4>1, <4>2
    <3>6. ASSUME NEW k \in 1 .. i, NyuziCSR[k] \in Saved
          PROVE  \E j \in 1 .. Len(t) : t[j] = NyuziCSR[k]
      <4>1. CASE k = i
        <5>1. Len(t) \in 1 .. Len(t)
          BY <3>2
        <5> QED BY <3>2, <4>1, <5>1
      <4>2. CASE k \in 1 .. (i - 1)
        <5>1. PICK j \in 1 .. Len(s) : s[j] = NyuziCSR[k]
          BY <2>1, <3>6, <4>2
        <5>2. j \in 1 .. Len(t)
          BY <3>2
        <5> QED BY <3>2, <5>1, <5>2
      <4> QED BY <2>2, <4>1, <4>2
    <3>7. ASSUME NEW j \in 1 .. Len(t), NEW k \in 1 .. Len(t), t[j] = t[k] PROVE j = k
      BY <2>1, <3>2, <3>3, <3>4, <3>7
    <3>8. Good(i, t)
      BY <3>2, <3>5, <3>6, <3>7
    <3>9. CSI[i] = t /\ i \in 0 .. n
      BY <1>10, <2>1, <2>4 DEF s, t
    <3> HIDE DEF Good
    <3> QED BY <3>8, <3>9
  <2> QED BY <2>3, <2>4
<1>13. Good(n, CSI[n])
  <2>1. \A i \in 0 .. n : i \in S
    <3> HIDE DEF S
    <3> QED BY <1>1, <1>11, <1>12, Induct
  <2>2. n \in 0 .. n
    BY <1>1
  <2> QED BY <2>1, <2>2
<1>14. \A r \in Saved : \E k \in 1 .. n : r = NyuziCSR[k]
  BY SavedTypes, CSRFacts DEF Saved, n
<1>15. \A r : r \in Saved <=> \E i \in 1 .. Len(CSI[n]) : CSI[n][i] = r
  BY <1>13, <1>14
<1> QED BY <1>9, <1>13, <1>15 DEF Saved

-----------------------------------------------------------------------------
(* The frame of a function. *)
LEMMA FunctionTypes ==
  ASSUME NEW f \in Functions
  PROVE  /\ f.locals \in Seq(StackObject)
         /\ f.maxCall \in Nat /\ f.params \in Nat
         /\ Multiple(f.maxCall, StackAlign)
         /\ CallFrame(f) \in Nat
<1>1. /\ f.locals \in Seq(StackObject) /\ f.maxCall \in Nat /\ f.params \in Nat
      /\ f.maxCall % StackAlign = 0
  BY FunctionsAssumption DEF StackObject
<1>2. Multiple(f.maxCall, StackAlign)
  BY <1>1, SizesAssumption, MultipleMod
<1>3. CallFrame(f) \in Nat
  BY <1>1 DEF CallFrame
<1> QED BY <1>1, <1>2, <1>3

LEMMA SpillSizeType ==
  ASSUME NEW r
  PROVE  SpillSize(r) \in Nat \ {0}
BY SizesAssumption DEF SpillSize

LEMMA ConcatFacts ==
  ASSUME NEW S, NEW s \in Seq(S), NEW t \in Seq(S)
  PROVE  /\ s \o t \in Seq(S) /\ Len(s \o t) = Len(s) + Len(t)
         /\ \A i \in 1 .. Len(s) : i \in 1 .. Len(s \o t) /\ (s \o t)[i] = s[i]
         /\ \A i \in 1 .. Len(t) :
              Len(s) + i \in 1 .. Len(s \o t) /\ (s \o t)[Len(s) + i] = t[i]
<1>1. /\ s \o t \in Seq(S) /\ Len(s \o t) = Len(s) + Len(t)
      /\ Len(s) \in Nat /\ Len(t) \in Nat
  OBVIOUS
<1>2. ASSUME NEW i \in 1 .. Len(s) PROVE i \in 1 .. Len(s \o t) /\ (s \o t)[i] = s[i]
  BY <1>1
<1>3. ASSUME NEW i \in 1 .. Len(t)
      PROVE  Len(s) + i \in 1 .. Len(s \o t) /\ (s \o t)[Len(s) + i] = t[i]
  BY <1>1
<1> QED BY <1>1, <1>2, <1>3

LEMMA ObjectsFacts ==
  ASSUME NEW f \in Functions
  PROVE  /\ Objects(f) \in Seq(StackObject)
         /\ Len(CalleeSavedInfo(f)) \in Nat
         /\ DOMAIN CalleeSavedInfo(f) = 1 .. Len(CalleeSavedInfo(f))
         /\ \A i \in 1 .. Len(CalleeSavedInfo(f)) :
              /\ i \in 1 .. Len(Objects(f))
              /\ Objects(f)[i].size = SpillSize(CalleeSavedInfo(f)[i])
              /\ Objects(f)[i].align = SpillSize(CalleeSavedInfo(f)[i])
         /\ Len(f.locals) \in Nat /\ DOMAIN f.locals = 1 .. Len(f.locals)
         /\ \A k \in 1 .. Len(f.locals) :
              /\ LocalIndex(f, k) \in (Len(CalleeSavedInfo(f)) + 1) .. Len(Objects(f))
              /\ Objects(f)[LocalIndex(f, k)] = f.locals[k]
         /\ \A k, l \in 1 .. Len(f.locals) : k < l => LocalIndex(f, k) < LocalIndex(f, l)
         /\ hasScavengingSlot(f) =>
              /\ ScavengingIndex(f) \in 1 .. Len(Objects(f))
              /\ Objects(f)[ScavengingIndex(f)].size = ScalarSize
<1> DEFINE CSI == CalleeSavedInfo(f)
           c == Len(CSI)
           Sp == SpillSlots(f)
           Sc == ScavengingSlots(f)
           L == f.locals
           Rest == IF EarlyScavengingSlots(f) THEN Sc \o L ELSE L \o Sc
<1>1. CSI \in Seq(CSRegisters) /\ c \in Nat /\ DOMAIN CSI = 1 .. c
  BY CalleeSavedFacts
<1>2. \A r : [size |-> SpillSize(r), align |-> SpillSize(r)] \in StackObject
  BY SpillSizeType DEF StackObject
<1>3. /\ Sp \in Seq(StackObject) /\ Len(Sp) = c
      /\ \A i \in 1 .. c : Sp[i] = [size |-> SpillSize(CSI[i]), align |-> SpillSize(CSI[i])]
  <2>1. Sp = [i \in 1 .. c |-> [size |-> SpillSize(CSI[i]), align |-> SpillSize(CSI[i])]]
    BY <1>1 DEF SpillSlots
  <2> HIDE DEF Sp, CSI, c
  <2> QED BY <1>1, <1>2, <2>1
<1>4. /\ Sc \in Seq(StackObject) /\ Len(Sc) \in Nat
      /\ hasScavengingSlot(f) => Len(Sc) = 1 /\ Sc[1].size = ScalarSize
  <2> DEFINE o == [size |-> ScalarSize, align |-> ScalarSize]
  <2>1. o \in StackObject /\ o.size = ScalarSize
    BY SizesAssumption DEF StackObject
  <2>2. Sc = IF hasScavengingSlot(f) THEN <<o>> ELSE <<>>
    BY DEF ScavengingSlots
  <2> HIDE DEF o, Sc
  <2> QED BY <2>1, <2>2
<1>5. L \in Seq(StackObject) /\ Len(L) \in Nat /\ DOMAIN L = 1 .. Len(L)
  BY FunctionTypes
<1> DEFINE e == IF EarlyScavengingSlots(f) THEN Len(Sc) ELSE 0
           b == IF EarlyScavengingSlots(f) THEN 0 ELSE Len(L)
<1>6. /\ Rest \in Seq(StackObject) /\ Len(Rest) = Len(Sc) + Len(L)
      /\ \A k \in 1 .. Len(L) : e + k \in 1 .. Len(Rest) /\ Rest[e + k] = L[k]
      /\ \A k \in 1 .. Len(Sc) : b + k \in 1 .. Len(Rest) /\ Rest[b + k] = Sc[k]
  <2> HIDE DEF Sc, L
  <2>1. CASE EarlyScavengingSlots(f)
    <3>1. /\ Sc \o L \in Seq(StackObject) /\ Len(Sc \o L) = Len(Sc) + Len(L)
          /\ \A k \in 1 .. Len(L) : Len(Sc) + k \in 1 .. Len(Sc \o L) /\ (Sc \o L)[Len(Sc) + k] = L[k]
          /\ \A k \in 1 .. Len(Sc) : 0 + k \in 1 .. Len(Sc \o L) /\ (Sc \o L)[0 + k] = Sc[k]
      BY <1>4, <1>5
    <3> QED BY <2>1, <3>1
  <2>2. CASE ~EarlyScavengingSlots(f)
    <3>1. /\ L \o Sc \in Seq(StackObject) /\ Len(L \o Sc) = Len(Sc) + Len(L)
          /\ \A k \in 1 .. Len(L) : 0 + k \in 1 .. Len(L \o Sc) /\ (L \o Sc)[0 + k] = L[k]
          /\ \A k \in 1 .. Len(Sc) : Len(L) + k \in 1 .. Len(L \o Sc) /\ (L \o Sc)[Len(L) + k] = Sc[k]
      BY <1>4, <1>5
    <3> QED BY <2>2, <3>1
  <2> QED BY <2>1, <2>2
<1>7. Objects(f) = Sp \o Rest
  BY DEF Objects
<1>8. e \in Nat /\ b \in Nat
  BY <1>4, <1>5
<1>9. /\ \A k : LocalIndex(f, k) = c + k + e
      /\ ScavengingIndex(f) = c + 1 + b
  BY <1>3 DEF LocalIndex, ScavengingIndex
<1> HIDE DEF Sp, Sc, L, Rest, c, e, b
<1>10. /\ Objects(f) \in Seq(StackObject) /\ Len(Objects(f)) = c + Len(Rest)
       /\ \A i \in 1 .. c : i \in 1 .. Len(Objects(f)) /\ Objects(f)[i] = Sp[i]
       /\ \A i \in 1 .. Len(Rest) : c + i \in 1 .. Len(Objects(f)) /\ Objects(f)[c + i] = Rest[i]
  <2>1. Sp \in Seq(StackObject) /\ Rest \in Seq(StackObject) /\ Len(Sp) = c
    BY <1>3, <1>6
  <2>2. /\ Sp \o Rest \in Seq(StackObject) /\ Len(Sp \o Rest) = c + Len(Rest)
        /\ \A i \in 1 .. c : i \in 1 .. Len(Sp \o Rest) /\ (Sp \o Rest)[i] = Sp[i]
    BY <2>1, ConcatFacts
  <2>3. \A i \in 1 .. Len(Rest) :
          c + i \in 1 .. Len(Sp \o Rest) /\ (Sp \o Rest)[c + i] = Rest[i]
    BY <2>1, ConcatFacts
  <2> QED BY <1>7, <2>2, <2>3
<1>11. ASSUME NEW i \in 1 .. c
       PROVE  /\ i \in 1 .. Len(Objects(f))
              /\ Objects(f)[i].size = SpillSize(CSI[i])
              /\ Objects(f)[i].align = SpillSize(CSI[i])
  BY <1>3, <1>10
<1>12. ASSUME NEW k \in 1 .. Len(L)
       PROVE  LocalIndex(f, k) \in (c + 1) .. Len(Objects(f)) /\ Objects(f)[LocalIndex(f, k)] = L[k]
  <2>1. e + k \in 1 .. Len(Rest) /\ Rest[e + k] = L[k]
    BY <1>6
  <2>2. c + (e + k) \in 1 .. Len(Objects(f)) /\ Objects(f)[c + (e + k)] = L[k]
    BY <1>10, <2>1
  <2>3. LocalIndex(f, k) = c + (e + k) /\ k \in Nat
    BY <1>1, <1>5, <1>8, <1>9
  <2> QED BY <1>1, <1>8, <1>10, <2>1, <2>2, <2>3
<1>13. \A k, l \in 1 .. Len(L) : k < l => LocalIndex(f, k) < LocalIndex(f, l)
  BY <1>1, <1>5, <1>8, <1>9
<1>14. ASSUME hasScavengingSlot(f)
       PROVE  /\ ScavengingIndex(f) \in 1 .. Len(Objects(f))
              /\ Objects(f)[ScavengingIndex(f)].size = ScalarSize
  <2>1. b + 1 \in 1 .. Len(Rest) /\ Rest[b + 1].size = ScalarSize
    <3>1. 1 \in 1 .. Len(Sc) /\ Sc[1].size = ScalarSize
      BY <1>4, <1>14
    <3> QED BY <1>6, <3>1
  <2>2. c + (b + 1) \in 1 .. Len(Objects(f)) /\ Objects(f)[c + (b + 1)].size = ScalarSize
    BY <1>10, <2>1
  <2>3. ScavengingIndex(f) = c + (b + 1)
    BY <1>1, <1>8, <1>9
  <2> QED BY <2>2, <2>3
<1>15. \A i \in 1 .. c :
         /\ i \in 1 .. Len(Objects(f))
         /\ Objects(f)[i].size = SpillSize(CSI[i])
         /\ Objects(f)[i].align = SpillSize(CSI[i])
  BY <1>11
<1>16. \A k \in 1 .. Len(L) :
         LocalIndex(f, k) \in (c + 1) .. Len(Objects(f)) /\ Objects(f)[LocalIndex(f, k)] = L[k]
  BY <1>12
<1> QED BY <1>1, <1>5, <1>10, <1>13, <1>14, <1>15, <1>16 DEF c, L

LEMMA MaxAlignFacts ==
  ASSUME NEW f \in Functions
  PROVE  /\ MaxAlign(f) \in Nat \ {0}
         /\ \A k \in 1 .. Len(f.locals) : f.locals[k].align <= MaxAlign(f)
         /\ MaxAlign(f) = 1 \/ \E k \in 1 .. Len(f.locals) : f.locals[k].align = MaxAlign(f)
<1> DEFINE L == f.locals
           n == Len(L)
           A(m) == {1} \cup {L[k].align : k \in 1 .. m}
           S == {m \in 0 .. n : \E x \in A(m) : \A y \in A(m) : x >= y}
<1>1. n \in Nat /\ DOMAIN L = 1 .. n /\ \A k \in 1 .. n : L[k].align \in Nat \ {0}
  BY FunctionTypes, ObjectTypes
<1>2. 0 \in S
  BY <1>1
<1>3. ASSUME NEW m \in 1 .. n, m - 1 \in S PROVE m \in S
  <2>1. PICK x \in A(m - 1) : \A y \in A(m - 1) : x >= y
    BY <1>3
  <2>2. m - 1 \in Nat /\ \A k \in 1 .. m : k \in 1 .. (m - 1) \/ k = m
    BY <1>1
  <2>3. A(m) = A(m - 1) \cup {L[m].align}
    <3>1. \A k \in 1 .. (m - 1) : k \in 1 .. m
      BY <1>1
    <3>2. m \in 1 .. m
      BY <1>1
    <3> QED BY <2>2, <3>1, <3>2
  <2>4. A(m) \subseteq Nat /\ m \in 0 .. n
    BY <1>1
  <2> HIDE DEF A
  <2>5. \E z \in A(m) : \A y \in A(m) : z >= y
    <3>1. CASE x >= L[m].align
      BY <2>1, <2>3, <2>4, <3>1
    <3>2. CASE ~(x >= L[m].align)
      <4>1. x \in Nat /\ L[m].align \in Nat /\ L[m].align \in A(m)
        BY <2>1, <2>3, <2>4
      <4>2. ASSUME NEW y \in A(m) PROVE L[m].align >= y
        <5>1. y \in Nat /\ (y \in A(m - 1) \/ y = L[m].align)
          BY <2>3, <2>4
        <5>2. CASE y \in A(m - 1)
          <6>1. x >= y
            BY <2>1, <5>2
          <6> QED BY <3>2, <4>1, <5>1, <6>1
        <5>3. CASE y = L[m].align
          BY <5>1, <5>3
        <5> QED BY <5>1, <5>2, <5>3
      <4> QED BY <4>1, <4>2
    <3> QED BY <3>1, <3>2
  <2> QED BY <2>4, <2>5
<1>4. n \in S
  <2>1. \A m \in 0 .. n : m \in S
    <3> HIDE DEF S, n
    <3> QED BY <1>1, <1>2, <1>3, Induct
  <2>2. n \in 0 .. n
    BY <1>1
  <2> HIDE DEF S
  <2> QED BY <2>1, <2>2
<1>5. MaxAlign(f) = Max(A(n))
  BY <1>1 DEF MaxAlign
<1>6. MaxAlign(f) \in A(n) /\ \A y \in A(n) : MaxAlign(f) >= y
  <2>1. \E x \in A(n) : \A y \in A(n) : x >= y
    BY <1>4
  <2> HIDE DEF A, n
  <2> QED BY <1>5, <2>1 DEF Max
<1> HIDE DEF n, L
<1>7. A(n) \subseteq Nat \ {0}
  BY <1>1
<1>8. \A k \in 1 .. n : L[k].align \in A(n)
  OBVIOUS
<1>9. ASSUME NEW k \in 1 .. n PROVE L[k].align <= MaxAlign(f)
  <2>1. MaxAlign(f) >= L[k].align /\ MaxAlign(f) \in Nat /\ L[k].align \in Nat
    BY <1>6, <1>7, <1>8
  <2> QED BY <2>1
<1> QED BY <1>6, <1>7, <1>9 DEF n, L

(* Where the i-th object lies above SP after the prologue. *)
Place(f, i) == StackSize(f) - StackOffsets(0, Objects(f))[i]

LEMMA FrameFacts ==
  ASSUME NEW f \in Functions
  PROVE  /\ StackSize(f) \in Nat /\ Multiple(StackSize(f), StackAlign)
         /\ \A i \in 1 .. Len(Objects(f)) :
              /\ Place(f, i) \in Nat /\ CallFrame(f) <= Place(f, i)
              /\ Place(f, i) + Objects(f)[i].size <= StackSize(f)
              /\ Multiple(StackSize(f) - Place(f, i), Objects(f)[i].align)
              /\ FrameOffset(f, ObjectOffsets(f)[i]) = Place(f, i)
         /\ \A i, j \in 1 .. Len(Objects(f)) :
              i < j => Place(f, j) + Objects(f)[j].size <= Place(f, i)
<1> DEFINE O == Objects(f)
           n == Len(O)
           Off == StackOffsets(0, O)
           T == ObjectsSize(f) + CallFrame(f)
           A == MaxOf(StackAlign, MaxAlign(f))
<1>1. O \in Seq(StackObject)
  BY ObjectsFacts
<1>2. n \in Nat /\ DOMAIN O = 1 .. n /\ \A i \in 1 .. n : O[i].size \in Nat
  BY <1>1, ObjectTypes
<1>3. Off \in [0 .. n -> Nat] /\ Off[0] = 0
  BY <1>1, StackOffsetsDef
<1>4. /\ \A i \in 1 .. n : Off[i - 1] + O[i].size <= Off[i] /\ Multiple(Off[i], O[i].align)
      /\ \A i, j \in 0 .. n : i <= j => Off[i] <= Off[j]
  BY <1>1, StackOffsetsFacts
<1>5. ObjectsSize(f) = Off[n] /\ Off[n] \in Nat
  BY <1>2, <1>3 DEF ObjectsSize
<1>6. CallFrame(f) \in Nat
  BY FunctionTypes
<1>7. A \in Nat \ {0} /\ StackAlign \in Nat \ {0}
  BY MaxAlignFacts, SizesAssumption DEF MaxOf
<1>8. /\ StackSize(f) \in Nat /\ Multiple(StackSize(f), StackAlign)
      /\ Off[n] + CallFrame(f) <= StackSize(f)
  <2>1. T \in Nat /\ T = Off[n] + CallFrame(f)
    BY <1>5, <1>6
  <2>2. StackSize(f) = alignTo(alignTo(T, A), StackAlign)
    BY DEF StackSize, getStackSize
  <2> HIDE DEF T, A
  <2>3. alignTo(T, A) \in Nat /\ alignTo(T, A) >= T
    BY <1>7, <2>1, AlignTo
  <2> DEFINE B == alignTo(T, A)
  <2>4. B \in Nat /\ B >= T /\ StackSize(f) = alignTo(B, StackAlign)
    BY <2>2, <2>3
  <2> HIDE DEF B
  <2>5. /\ alignTo(B, StackAlign) \in Nat /\ alignTo(B, StackAlign) >= B
        /\ Multiple(alignTo(B, StackAlign), StackAlign)
    BY <1>7, <2>4, AlignTo
  <2> QED BY <2>1, <2>4, <2>5
<1>9. \A i : Place(f, i) = StackSize(f) - Off[i]
  BY DEF Place
<1>10. \A i \in 1 .. n : FrameOffset(f, ObjectOffsets(f)[i]) = -Off[i] + StackSize(f)
  BY <1>2 DEF FrameOffset, ObjectOffsets
<1> HIDE DEF O, n, Off
<1>11. ASSUME NEW i \in 1 .. n
       PROVE  /\ Place(f, i) \in Nat /\ CallFrame(f) <= Place(f, i)
              /\ Place(f, i) + O[i].size <= StackSize(f)
              /\ Multiple(StackSize(f) - Place(f, i), O[i].align)
              /\ FrameOffset(f, ObjectOffsets(f)[i]) = Place(f, i)
  <2>1. i \in 0 .. n /\ i - 1 \in 0 .. n /\ n \in 0 .. n /\ i <= n
    BY <1>2
  <2>2. /\ Off[i] \in Nat /\ Off[i - 1] \in Nat /\ Off[n] \in Nat /\ Off[i] <= Off[n]
        /\ Off[i - 1] + O[i].size <= Off[i] /\ O[i].size \in Nat
    BY <1>2, <1>3, <1>4, <2>1
  <2>3. Place(f, i) = StackSize(f) - Off[i]
    BY <1>9
  <2>4. StackSize(f) - Place(f, i) = Off[i]
    BY <1>8, <2>2, <2>3
  <2>5. Multiple(StackSize(f) - Place(f, i), O[i].align)
    BY <1>4, <2>4
  <2>6. FrameOffset(f, ObjectOffsets(f)[i]) = Place(f, i)
    BY <1>8, <1>10, <2>2, <2>3
  <2> QED BY <1>6, <1>8, <2>2, <2>3, <2>5, <2>6
<1>12. ASSUME NEW i \in 1 .. n, NEW j \in 1 .. n, i < j
       PROVE  Place(f, j) + O[j].size <= Place(f, i)
  <2>1. i \in 0 .. n /\ j \in 0 .. n /\ j - 1 \in 0 .. n /\ i <= j - 1
    BY <1>2, <1>12
  <2>2. /\ Off[i] \in Nat /\ Off[j] \in Nat /\ Off[j - 1] \in Nat /\ O[j].size \in Nat
        /\ Off[i] <= Off[j - 1] /\ Off[j - 1] + O[j].size <= Off[j]
    BY <1>2, <1>3, <1>4, <2>1
  <2>3. Place(f, i) = StackSize(f) - Off[i] /\ Place(f, j) = StackSize(f) - Off[j]
    BY <1>9
  <2> QED BY <1>8, <2>2, <2>3
<1> QED BY <1>8, <1>11, <1>12 DEF O, n

-----------------------------------------------------------------------------
(* The encodings. *)
Exact == MF \in Functions /\ at \in Int /\ OffsetsExact

(* What an action encodes: adjustStackPointer or FrameAddress. *)
LEMMA AdjustExactly ==
  ASSUME NEW amount \in Int, Adjust(amount)
  PROVE  at' \in Int /\ OffsetsExact'
<1>1. /\ at' = amount
      /\ encoded' = [b \in FrameBases |-> adjustStackPointer(b, amount)]
  BY DEF Adjust, Encode
<1>2. ASSUME NEW b \in FrameBases PROVE adjustStackPointer(b, amount) = Wrap(b + amount)
  <2>1. b \in Int
    BY BasesAssumption
  <2> QED BY <2>1, AdjustExact
<1> QED BY <1>1, <1>2 DEF OffsetsExact

LEMMA AddressExactly ==
  ASSUME NEW Offset \in Int, at' = Offset,
         encoded' = [b \in FrameBases |-> FrameAddress(b, Offset)]
  PROVE  at' \in Int /\ OffsetsExact'
<1>1. ASSUME NEW b \in FrameBases PROVE FrameAddress(b, Offset) = Wrap(b + Offset)
  <2>1. b \in Int
    BY BasesAssumption
  <2> QED BY <2>1, FrameAddressExact
<1> QED BY <1>1 DEF OffsetsExact

(* The offsets of a function's accesses. *)
LEMMA AccessOffsets ==
  ASSUME NEW f \in Functions
  PROVE  /\ StackSize(f) \in Nat /\ -StackSize(f) \in Int
         /\ DOMAIN Objects(f) = 1 .. Len(Objects(f))
         /\ \A i \in DOMAIN Objects(f) : \A imm \in {0, MaxOf(0, Objects(f)[i].size - ScalarSize)} :
              FrameOffset(f, ObjectOffsets(f)[i] + imm) \in 0 .. StackSize(f)
         /\ f.params > 0 => \A off \in {0, f.params - ScalarSize} :
              FrameOffset(f, off + 0) \in 0 .. (StackSize(f) + f.params)
<1>1. StackSize(f) \in Nat /\ -StackSize(f) \in Int
  BY FrameFacts
<1>2. DOMAIN Objects(f) = 1 .. Len(Objects(f))
  BY ObjectsFacts, ObjectTypes
<1>3. ASSUME NEW i \in DOMAIN Objects(f), NEW imm \in {0, MaxOf(0, Objects(f)[i].size - ScalarSize)}
      PROVE  FrameOffset(f, ObjectOffsets(f)[i] + imm) \in 0 .. StackSize(f)
  <2> DEFINE P == Place(f, i)
             z == Objects(f)[i].size
             SS == StackSize(f)
             o == ObjectOffsets(f)[i]
  <2>1. P \in Nat /\ P + z <= SS /\ FrameOffset(f, o) = P /\ z \in Nat \ {0} /\ ScalarSize \in Nat \ {0}
    BY <1>2, <1>3, FrameFacts, ObjectsFacts, ObjectTypes, SizesAssumption
  <2>2. o \in Int /\ SS \in Nat
    <3>1. o = -StackOffsets(0, Objects(f))[i]
      BY <1>2 DEF ObjectOffsets
    <3>2. StackOffsets(0, Objects(f))[i] \in Nat
      BY <1>2, ObjectsFacts, ObjectTypes, StackOffsetsDef
    <3> DEFINE y == StackOffsets(0, Objects(f))[i]
    <3> HIDE DEF y
    <3> QED BY <1>1, <3>1, <3>2 DEF y
  <2>3. imm \in 0 .. z
    BY <1>3, <2>1 DEF MaxOf
  <2>4. FrameOffset(f, o + imm) = o + imm + SS /\ o + SS = P
    BY <2>1 DEF FrameOffset
  <2> HIDE DEF P, z, SS, o
  <2>5. FrameOffset(f, o + imm) \in 0 .. SS
    BY <2>1, <2>2, <2>3, <2>4
  <2> QED BY <2>5 DEF o, SS
<1>4. ASSUME f.params > 0, NEW off \in {0, f.params - ScalarSize}
      PROVE  FrameOffset(f, off + 0) \in 0 .. (StackSize(f) + f.params)
  <2> DEFINE p == f.params
  <2>1. p \in Nat /\ p > 0 /\ p % ScalarSize = 0 /\ ScalarSize \in Nat \ {0}
    BY <1>4, FunctionsAssumption, SizesAssumption
  <2>2. p >= ScalarSize
    <3> HIDE DEF p
    <3>1. PICK q \in Int : p = ScalarSize * q
      BY <2>1, MultipleMod DEF Multiple
    <3>2. q >= 1
      BY <2>1, <3>1
    <3> QED BY <2>1, <3>1, <3>2
  <2>3. off \in 0 .. p
    BY <1>4, <2>1, <2>2
  <2> HIDE DEF p
  <2> QED BY <1>1, <2>1, <2>3 DEF FrameOffset, p
<1> QED BY <1>1, <1>2, <1>3, <1>4

LEMMA ExactStep ==
  ASSUME Exact, [IndexNext]_indexVars
  PROVE  Exact'
<1>1. MF \in Functions /\ at \in Int /\ OffsetsExact
  BY DEF Exact
<1>2. MF.maxCall \in Int /\ -MF.maxCall \in Int /\ StackSize(MF) \in Int /\ -StackSize(MF) \in Int
  BY <1>1, FunctionTypes, AccessOffsets
<1>3. ASSUME NEW amount \in Int, Adjust(amount) PROVE Exact'
  <2>1. at' \in Int /\ OffsetsExact'
    BY <1>3, AdjustExactly
  <2> QED BY <1>1, <1>3, <2>1 DEF Exact, Adjust
<1>4. ASSUME NEW offset, NEW imm, FrameOffset(MF, offset + imm) \in Int, Eliminate(offset, imm)
      PROVE  Exact'
  <2> DEFINE Offset == FrameOffset(MF, offset + imm)
  <2>1. /\ at' = Offset /\ encoded' = [b \in FrameBases |-> FrameAddress(b, Offset)]
        /\ MF' = MF
    BY <1>4 DEF Eliminate, Encode
  <2>2. Offset \in Int
    BY <1>4
  <2> HIDE DEF Offset
  <2>3. at' \in Int /\ OffsetsExact'
    BY <2>1, <2>2, AddressExactly
  <2> QED BY <1>1, <2>1, <2>3 DEF Exact
<1>5. CASE Adjust(-StackSize(MF)) \/ Adjust(StackSize(MF)) \/ AdjustCallFrame
  BY <1>2, <1>3, <1>5 DEF AdjustCallFrame
<1>6. CASE \E i \in DOMAIN Objects(MF) : EliminateObject(i)
  <2>1. PICK i \in DOMAIN Objects(MF) : EliminateObject(i)
    BY <1>6
  <2>2. PICK imm \in {0, MaxOf(0, Objects(MF)[i].size - ScalarSize)} :
          Eliminate(ObjectOffsets(MF)[i], imm)
    BY <2>1 DEF EliminateObject
  <2>3. FrameOffset(MF, ObjectOffsets(MF)[i] + imm) \in 0 .. StackSize(MF)
    BY <1>1, AccessOffsets
  <2>4. FrameOffset(MF, ObjectOffsets(MF)[i] + imm) \in Int
    BY <1>2, <2>3
  <2> QED BY <1>4, <2>2, <2>4
<1>7. CASE EliminateParam
  <2>1. PICK off \in {0, MF.params - ScalarSize} : Eliminate(off, 0) /\ MF.params > 0
    BY <1>7 DEF EliminateParam
  <2>2. FrameOffset(MF, off + 0) \in 0 .. (StackSize(MF) + MF.params)
    BY <1>1, <2>1, AccessOffsets
  <2>3. FrameOffset(MF, off + 0) \in Int
    BY <2>2
  <2> QED BY <1>4, <2>1, <2>3
<1>8. CASE Scavenge
  <2> DEFINE Offset == FrameOffset(MF, ObjectOffsets(MF)[ScavengingIndex(MF)])
  <2>1. /\ at' = Offset /\ encoded' = [b \in FrameBases |-> FrameAddress(b, Offset)]
        /\ MF' = MF /\ hasScavengingSlot(MF)
    BY <1>8 DEF Scavenge, Encode
  <2>2. Offset \in Int
    <3>1. ScavengingIndex(MF) \in 1 .. Len(Objects(MF))
      BY <1>1, <2>1, ObjectsFacts
    <3>2. Offset = Place(MF, ScavengingIndex(MF)) /\ Place(MF, ScavengingIndex(MF)) \in Nat
      BY <1>1, <3>1, FrameFacts
    <3> QED BY <3>2
  <2> HIDE DEF Offset
  <2>3. at' \in Int /\ OffsetsExact'
    BY <2>1, <2>2, AddressExactly
  <2> QED BY <1>1, <2>1, <2>3 DEF Exact
<1>9. CASE UNCHANGED indexVars
  BY <1>1, <1>9 DEF Exact, OffsetsExact, indexVars
<1> QED BY <1>5, <1>6, <1>7, <1>8, <1>9 DEF IndexNext

(* Whatever an access or an adjustment of SP adds to the base register,    *)
(* the immediate (adjustStackPointer, eliminateFrameIndex) or movehi and   *)
(* the rest (loadConstant) add exactly that, modulo a word.                *)
THEOREM OffsetsExactTheorem == IndexSpec => []OffsetsExact
<1>1. IndexInit => Exact
  <2> SUFFICES ASSUME IndexInit PROVE Exact
    OBVIOUS
  <2>1. ASSUME NEW b \in FrameBases PROVE b = Wrap(b + 0)
    <3>1. b \in Int /\ b \in 0 .. (WordSize - 1) /\ b + 0 = b
      BY BasesAssumption, WordFacts DEF WordSize
    <3> QED BY <3>1, WrapFacts
  <2> QED BY <2>1 DEF IndexInit, Exact, OffsetsExact
<1>2. Exact /\ [IndexNext]_indexVars => Exact'
  BY ExactStep
<1>3. Exact => OffsetsExact
  BY DEF Exact
<1> QED BY <1>1, <1>2, <1>3, PTL DEF IndexSpec

-----------------------------------------------------------------------------
(* The layout against getWorstCaseStackSize. *)

(* alignTo rounds up to the least multiple. *)
LEMMA AlignLeast ==
  ASSUME NEW x \in Nat, NEW a \in Nat \ {0}, NEW m \in Int, x <= m, Multiple(m, a)
  PROVE  alignTo(x, a) <= m
<1> DEFINE y == alignTo(x, a)
<1>1. y \in Nat /\ y < x + a /\ Multiple(y, a)
  BY AlignTo
<1> HIDE DEF y
<1>2. PICK p \in Int : m = a * p
  BY DEF Multiple
<1>3. PICK q \in Int : y = a * q
  BY <1>1 DEF Multiple
<1>4. a * q < a * p + a
  BY <1>1, <1>2, <1>3
<1>5. q <= p
  <2> SUFFICES ASSUME q >= p + 1 PROVE FALSE
    OBVIOUS
  <2>1. (q - (p + 1)) * a >= 0
    OBVIOUS
  <2>2. (q - (p + 1)) * a = a * q - (a * p + a)
    OBVIOUS
  <2> QED BY <1>4, <2>1, <2>2
<1>6. (p - q) * a >= 0 /\ (p - q) * a = a * p - a * q
  BY <1>5
<1>7. y <= m
  BY <1>1, <1>2, <1>3, <1>6
<1> QED BY <1>7 DEF y

(* One object: the coarser alignment keeps what is in reserve. *)
LEMMA AlignReserve ==
  ASSUME NEW x \in Nat, NEW y \in Nat, NEW d \in Nat, NEW s \in Nat, x + d <= y,
         NEW a \in Nat \ {0}, NEW A \in Nat \ {0}, Multiple(A, a), Multiple(d, A)
  PROVE  alignTo(x + s, a) + d <= alignTo(y + s, A)
<1> DEFINE Y == alignTo(y + s, A)
           X == alignTo(x + s, a)
<1>1. y + s \in Nat /\ x + s \in Nat
  OBVIOUS
<1>2. Y \in Nat /\ Y >= y + s /\ Multiple(Y, A) /\ X \in Nat
  BY <1>1, AlignTo
<1> HIDE DEF Y
<1>3. Multiple(Y - d, A) /\ Y - d \in Int
  BY <1>2, MultipleSum
<1> DEFINE m == Y - d
<1>4. m \in Int /\ Multiple(m, A) /\ x + s <= m
  BY <1>2, <1>3
<1>5. m = Y - d
  OBVIOUS
<1> HIDE DEF m
<1>6. Multiple(m, a)
  BY <1>4, MultipleTrans
<1>7. X <= m
  BY <1>1, <1>4, <1>6, AlignLeast
<1> HIDE DEF X
<1>8. X + d <= Y
  BY <1>2, <1>4, <1>5, <1>7
<1> QED BY <1>8 DEF X, Y

(* All objects. *)
LEMMA LayoutReserve ==
  ASSUME NEW x \in Nat, NEW y \in Nat, NEW d \in Nat, x + d <= y,
         NEW s \in Seq(StackObject), NEW t \in Seq(StackObject), Len(t) = Len(s),
         NEW A \in Nat \ {0}, Multiple(d, A),
         \A i \in 1 .. Len(s) : Multiple(A, s[i].align) /\ t[i].size = s[i].size /\ t[i].align = A
  PROVE  StackOffsets(x, s)[Len(s)] + d <= StackOffsets(y, t)[Len(s)]
<1> DEFINE n == Len(s)
           X == StackOffsets(x, s)
           Y == StackOffsets(y, t)
           S == {i \in 0 .. n : X[i] + d <= Y[i]}
<1>1. n \in Nat /\ \A i \in 1 .. n : s[i].size \in Nat /\ s[i].align \in Nat \ {0}
  BY ObjectTypes
<1>2. /\ X \in [0 .. n -> Nat] /\ X[0] = x
      /\ \A i \in 1 .. n : X[i] = alignTo(X[i - 1] + s[i].size, s[i].align)
  BY StackOffsetsDef
<1>3. /\ Y \in [0 .. n -> Nat] /\ Y[0] = y
      /\ \A i \in 1 .. n : Y[i] = alignTo(Y[i - 1] + t[i].size, t[i].align)
  <2> DEFINE m == Len(t)
  <2>1. /\ Y \in [0 .. m -> Nat] /\ Y[0] = y
        /\ \A i \in 1 .. m : Y[i] = alignTo(Y[i - 1] + t[i].size, t[i].align)
    BY StackOffsetsDef
  <2>2. m = n
    OBVIOUS
  <2> HIDE DEF m, n, Y
  <2> QED BY <2>1, <2>2
<1>4. \A i \in 1 .. n : Multiple(A, s[i].align) /\ t[i].size = s[i].size /\ t[i].align = A
  OBVIOUS
<1> HIDE DEF n, X, Y
<1>5. 0 \in S
  BY <1>1, <1>2, <1>3
<1>6. ASSUME NEW i \in 1 .. n, i - 1 \in S PROVE i \in S
  <2>1. i \in 0 .. n /\ i - 1 \in 0 .. n /\ X[i - 1] + d <= Y[i - 1]
    BY <1>1, <1>6
  <2>2. X[i - 1] \in Nat /\ Y[i - 1] \in Nat
    BY <1>2, <1>3, <2>1
  <2>3. s[i].size \in Nat /\ s[i].align \in Nat \ {0} /\ Multiple(A, s[i].align)
    BY <1>1, <1>4
  <2>4. alignTo(X[i - 1] + s[i].size, s[i].align) + d <= alignTo(Y[i - 1] + s[i].size, A)
    BY <2>1, <2>2, <2>3, AlignReserve
  <2>5. /\ X[i] = alignTo(X[i - 1] + s[i].size, s[i].align)
        /\ Y[i] = alignTo(Y[i - 1] + s[i].size, A)
    BY <1>2, <1>3, <1>4
  <2> QED BY <2>1, <2>4, <2>5
<1>7. \A i \in 0 .. n : i \in S
  <2> HIDE DEF S
  <2> QED BY <1>1, <1>5, <1>6, Induct
<1>8. n \in 0 .. n
  BY <1>1
<1>9. X[n] + d <= Y[n]
  BY <1>7, <1>8
<1> QED BY <1>9 DEF X, Y, n

(* A layout goes on from where its first part ends. *)
LEMMA LayoutConcat ==
  ASSUME NEW x \in Nat, NEW s \in Seq(StackObject), NEW t \in Seq(StackObject)
  PROVE  /\ StackOffsets(x, s)[Len(s)] \in Nat
         /\ StackOffsets(x, s \o t)[Len(s \o t)] =
              StackOffsets(StackOffsets(x, s)[Len(s)], t)[Len(t)]
<1> DEFINE m == Len(s)
           n == Len(t)
           u == s \o t
           X == StackOffsets(x, s)
           U == StackOffsets(x, u)
           z == X[m]
           T == StackOffsets(z, t)
           P == {i \in 0 .. m : U[i] = X[i]}
           Q == {i \in 0 .. n : U[m + i] = T[i]}
<1>1. /\ u \in Seq(StackObject) /\ Len(u) = m + n /\ m \in Nat /\ n \in Nat
      /\ \A i \in 1 .. m : i \in 1 .. Len(u) /\ u[i] = s[i]
      /\ \A i \in 1 .. n : m + i \in 1 .. Len(u) /\ u[m + i] = t[i]
  BY ConcatFacts, ObjectTypes
<1> HIDE DEF u
<1>2. /\ X \in [0 .. m -> Nat] /\ X[0] = x
      /\ \A i \in 1 .. m : X[i] = alignTo(X[i - 1] + s[i].size, s[i].align)
  BY StackOffsetsDef
<1>3. /\ U[0] = x
      /\ \A i \in 1 .. Len(u) : U[i] = alignTo(U[i - 1] + u[i].size, u[i].align)
  BY <1>1, StackOffsetsDef
<1>4. z \in Nat
  <2>1. m \in 0 .. m
    BY <1>1
  <2> HIDE DEF X, m
  <2> QED BY <1>2, <2>1
<1>5. /\ T[0] = z
      /\ \A i \in 1 .. n : T[i] = alignTo(T[i - 1] + t[i].size, t[i].align)
  <2> HIDE DEF z
  <2> QED BY <1>4, StackOffsetsDef
<1> HIDE DEF X, U, T, m, n
<1>6. U[m] = z
  <2>1. 0 \in P
    BY <1>1, <1>2, <1>3
  <2>2. ASSUME NEW i \in 1 .. m, i - 1 \in P PROVE i \in P
    <3>1. U[i - 1] = X[i - 1] /\ i \in 0 .. m
      BY <1>1, <2>2
    <3> QED BY <1>1, <1>2, <1>3, <3>1
  <2>3. \A i \in 0 .. m : i \in P
    <3> HIDE DEF P
    <3> QED BY <1>1, <2>1, <2>2, Induct
  <2>4. m \in 0 .. m
    BY <1>1
  <2> QED BY <2>3, <2>4
<1> HIDE DEF z
<1>7. U[m + n] = T[n]
  <2>1. 0 \in Q
    <3>1. m + 0 = m /\ 0 \in 0 .. n
      BY <1>1
    <3> QED BY <1>5, <1>6, <3>1
  <2>2. ASSUME NEW i \in 1 .. n, i - 1 \in Q PROVE i \in Q
    <3>1. U[m + (i - 1)] = T[i - 1] /\ i \in 0 .. n /\ m + (i - 1) = (m + i) - 1
      BY <1>1, <2>2
    <3>2. U[m + i] = alignTo(U[(m + i) - 1] + u[m + i].size, u[m + i].align)
      BY <1>1, <1>3
    <3> QED BY <1>1, <1>5, <3>1, <3>2
  <2>3. \A i \in 0 .. n : i \in Q
    <3> HIDE DEF Q
    <3> QED BY <1>1, <2>1, <2>2, Induct
  <2>4. n \in 0 .. n
    BY <1>1
  <2> QED BY <2>3, <2>4
<1> QED BY <1>1, <1>4, <1>7 DEF X, U, T, m, n, z, u

-----------------------------------------------------------------------------
LEMMA SavesTypes ==
  /\ SavesInBits \in Seq(StackObject)
  /\ StackOffsets(0, SavesInBits)[Len(SavesInBits)] \in Nat
<1>1. Len(NyuziCSR) \in Nat /\ DOMAIN NyuziCSR = 1 .. Len(NyuziCSR)
  BY CSRFacts
<1>2. \A r : [size |-> 8 * SpillSize(r), align |-> 8 * SpillSize(r)] \in StackObject
  <2>1. \A r : SpillSize(r) \in Nat \ {0}
    BY SpillSizeType
  <2>2. \A r : 8 * SpillSize(r) \in Nat \ {0}
    BY <2>1
  <2> QED BY <2>2 DEF StackObject
<1>3. SavesInBits \in Seq(StackObject)
  BY <1>1, <1>2 DEF SavesInBits
<1>4. Len(SavesInBits) \in 0 .. Len(SavesInBits)
  BY <1>3
<1> QED BY <1>3, <1>4, StackOffsetsDef

LEMMA SpillSlotTypes ==
  ASSUME NEW f \in Functions
  PROVE  SpillSlots(f) \in Seq(StackObject)
<1> DEFINE CSI == CalleeSavedInfo(f)
           c == Len(CSI)
<1>1. c \in Nat /\ DOMAIN CSI = 1 .. c
  BY ObjectsFacts
<1>2. \A r : [size |-> SpillSize(r), align |-> SpillSize(r)] \in StackObject
  BY SpillSizeType DEF StackObject
<1>3. SpillSlots(f) = [i \in 1 .. c |-> [size |-> SpillSize(CSI[i]), align |-> SpillSize(CSI[i])]]
  BY <1>1 DEF SpillSlots
<1> HIDE DEF c, CSI
<1> QED BY <1>1, <1>2, <1>3

(* Alignments of a frame. *)
LEMMA FrameAlignment ==
  ASSUME NEW f \in Functions, AlignmentsNest(f)
  PROVE  /\ MaxAlign(f) \in Nat \ {0} /\ Multiple(StackAlign, MaxAlign(f))
         /\ MaxOf(StackAlign, MaxAlign(f)) = StackAlign
         /\ MaxOf(MaxAlign(f), StackAlign) = StackAlign
         /\ \A k \in 1 .. Len(f.locals) : Multiple(MaxAlign(f), f.locals[k].align)
<1> DEFINE A == MaxAlign(f)
<1>1. /\ A \in Nat \ {0} /\ StackAlign \in Nat \ {0}
      /\ A = 1 \/ \E k \in 1 .. Len(f.locals) : f.locals[k].align = A
  BY MaxAlignFacts, SizesAssumption
<1>2. DOMAIN f.locals = 1 .. Len(f.locals) /\ \A k \in 1 .. Len(f.locals) : f.locals[k].align \in Nat \ {0}
  BY FunctionTypes, ObjectTypes
<1>3. Multiple(StackAlign, A)
  <2>1. CASE A = 1
    <3>1. StackAlign = 1 * StackAlign /\ StackAlign \in Int
      BY <1>1
    <3> QED BY <2>1, <3>1 DEF Multiple
  <2>2. CASE \E k \in 1 .. Len(f.locals) : f.locals[k].align = A
    <3>1. StackAlign % A = 0
      BY <1>2, <2>2 DEF AlignmentsNest
    <3>2. A \in Nat \ {0} /\ StackAlign \in Int
      BY <1>1
    <3> HIDE DEF A
    <3> QED BY <3>1, <3>2, MultipleMod
  <2> QED BY <1>1, <2>1, <2>2
<1>4. A <= StackAlign
  <2> HIDE DEF A
  <2>1. PICK q \in Int : StackAlign = A * q
    BY <1>3 DEF Multiple
  <2>2. q >= 1
    BY <1>1, <2>1
  <2>3. (q - 1) * A >= 0 /\ (q - 1) * A = A * q - A
    BY <1>1, <2>2
  <2> QED BY <1>1, <2>1, <2>3
<1>5. ASSUME NEW k \in 1 .. Len(f.locals) PROVE Multiple(A, f.locals[k].align)
  <2> DEFINE e == f.locals[k].align
  <2>1. A % e = 0 /\ e \in Nat \ {0}
    BY <1>2 DEF AlignmentsNest
  <2> HIDE DEF A, e
  <2>2. Multiple(A, e)
    BY <1>1, <2>1, MultipleMod
  <2> QED BY <2>2 DEF e
<1>6. MaxOf(StackAlign, A) = StackAlign /\ MaxOf(A, StackAlign) = StackAlign
  <2> HIDE DEF A
  <2> QED BY <1>1, <1>4 DEF MaxOf
<1> QED BY <1>1, <1>3, <1>5, <1>6

(* A function without a slot: its frame and its incoming arguments are no  *)
(* larger than the worst case.                                             *)
LEMMA WorstCase ==
  ASSUME NEW f \in Functions, AlignmentsNest(f), ReserveHoldsParams(f), ~hasScavengingSlot(f)
  PROVE  /\ getWorstCaseStackSize(f) \in Nat
         /\ StackSize(f) + f.params <= getWorstCaseStackSize(f)
<1> DEFINE Sp == SpillSlots(f)
           L == f.locals
           A == MaxAlign(f)
           others == [k \in DOMAIN f.locals |-> [size |-> f.locals[k].size, align |-> MaxAlign(f)]]
           r == StackOffsets(0, Sp)[Len(Sp)]
           w == StackOffsets(0, SavesInBits)[Len(SavesInBits)]
           d == alignTo(f.params, StackAlign)
           R == ObjectsSize(f)
           W == StackOffsets(w, others)[Len(others)]
           C == CallFrame(f)
<1>1. /\ Sp \in Seq(StackObject) /\ L \in Seq(StackObject) /\ w \in Nat
      /\ f.params \in Nat /\ f.maxCall \in Nat /\ C \in Nat /\ StackAlign \in Nat \ {0}
  BY SavesTypes, SpillSlotTypes, FunctionTypes, SizesAssumption
<1>2. /\ A \in Nat \ {0} /\ Multiple(StackAlign, A) /\ MaxOf(StackAlign, A) = StackAlign
      /\ MaxOf(A, StackAlign) = StackAlign
      /\ \A k \in 1 .. Len(L) : Multiple(A, L[k].align)
  BY FrameAlignment
<1>3. d \in Nat /\ d >= f.params /\ Multiple(d, StackAlign) /\ Multiple(d, A)
  <2>1. d \in Nat /\ d >= f.params /\ Multiple(d, StackAlign)
    BY <1>1, AlignTo
  <2> HIDE DEF d, A
  <2>2. Multiple(d, A)
    BY <1>1, <1>2, <2>1, MultipleTrans
  <2> QED BY <2>1, <2>2
<1>4. r \in Nat /\ R = StackOffsets(r, L)[Len(L)] /\ R \in Nat
  <2>1. Objects(f) = Sp \o L
    <3>1. ScavengingSlots(f) = <<>>
      BY DEF ScavengingSlots
    <3>2. <<>> \o L = L /\ L \o <<>> = L
      BY <1>1
    <3> QED BY <3>1, <3>2 DEF Objects
  <2>2. R = StackOffsets(0, Sp \o L)[Len(Sp \o L)]
    BY <2>1 DEF ObjectsSize
  <2> HIDE DEF Sp, L, R
  <2>3. r \in Nat /\ R = StackOffsets(r, L)[Len(L)]
    BY <1>1, <2>2, LayoutConcat
  <2> HIDE DEF r
  <2>4. Len(L) \in 0 .. Len(L)
    BY <1>1
  <2>5. StackOffsets(r, L)[Len(L)] \in Nat
    BY <1>1, <2>3, <2>4, StackOffsetsDef
  <2> QED BY <2>3, <2>5
<1>5. /\ others \in Seq(StackObject) /\ Len(others) = Len(L)
      /\ \A k \in 1 .. Len(L) : others[k].size = L[k].size /\ others[k].align = A
  <2>1. Len(L) \in Nat /\ DOMAIN L = 1 .. Len(L) /\ \A k \in 1 .. Len(L) : L[k].size \in Nat \ {0}
    BY <1>1, ObjectTypes
  <2>2. others = [k \in 1 .. Len(L) |-> [size |-> L[k].size, align |-> A]]
    BY <2>1
  <2>3. \A k \in 1 .. Len(L) : [size |-> L[k].size, align |-> A] \in StackObject
    BY <1>2, <2>1 DEF StackObject
  <2> HIDE DEF others, L, A
  <2> QED BY <2>1, <2>2, <2>3
<1>6. r + d <= w
  BY DEF ReserveHoldsParams
<1>7. R + d <= W /\ W \in Nat
  <2> HIDE DEF others, L, A, r, d, w, R
  <2>1. \A k \in 1 .. Len(L) :
          Multiple(A, L[k].align) /\ others[k].size = L[k].size /\ others[k].align = A
    BY <1>2, <1>5
  <2>2. StackOffsets(r, L)[Len(L)] + d <= StackOffsets(w, others)[Len(L)]
    BY <1>1, <1>2, <1>3, <1>4, <1>5, <1>6, <2>1, LayoutReserve
  <2>3. Len(others) \in 0 .. Len(others)
    BY <1>5
  <2>4. StackOffsets(w, others)[Len(others)] \in Nat
    <3>1. w \in Nat /\ others \in Seq(StackObject)
      BY <1>1, <1>5
    <3>2. StackOffsets(w, others) \in [0 .. Len(others) -> Nat]
      BY <3>1, StackOffsetsDef
    <3> QED BY <2>3, <3>2
  <2> QED BY <1>4, <1>5, <2>2, <2>4
<1> DEFINE all == IF f.adjustsStack /\ hasReservedCallFrame(f)
                  THEN alignTo(W + f.maxCall, MaxOf(A, StackAlign)) ELSE W
           worst == alignTo(all, StackAlign)
<1>8. getWorstCaseStackSize(f) = worst
  BY DEF getWorstCaseStackSize, SavesInBits
<1>9. all \in Nat /\ W + C <= all
  <2> HIDE DEF W
  <2>1. CASE f.adjustsStack /\ hasReservedCallFrame(f)
    <3>1. C = f.maxCall /\ all = alignTo(W + f.maxCall, StackAlign) /\ W + f.maxCall \in Nat
      BY <1>1, <1>2, <1>7, <2>1 DEF CallFrame
    <3> QED BY <1>1, <3>1, AlignTo
  <2>2. CASE ~(f.adjustsStack /\ hasReservedCallFrame(f))
    BY <1>1, <1>7, <2>2 DEF CallFrame
  <2> QED BY <2>1, <2>2
<1>10. worst \in Nat /\ all <= worst /\ Multiple(worst, StackAlign)
  <2> HIDE DEF all
  <2> QED BY <1>1, <1>9, AlignTo
<1>11. StackSize(f) = alignTo(alignTo(R + C, StackAlign), StackAlign)
  BY <1>2 DEF StackSize, getStackSize
<1> HIDE DEF worst, all, W, R, C, d
<1> DEFINE m == worst - d
           s == alignTo(R + C, StackAlign)
<1>12. m \in Int /\ Multiple(m, StackAlign) /\ R + C <= m /\ R + C \in Nat
  <2>1. Multiple(m, StackAlign)
    BY <1>1, <1>3, <1>10, MultipleSum
  <2>2. /\ R \in Nat /\ C \in Nat /\ d \in Nat /\ W \in Nat /\ all \in Nat /\ worst \in Nat
        /\ R + d <= W /\ W + C <= all /\ all <= worst
    BY <1>1, <1>3, <1>4, <1>7, <1>9, <1>10
  <2>3. worst - d \in Int /\ R + C <= worst - d /\ R + C \in Nat
    BY <2>2
  <2> QED BY <2>1, <2>3
<1>13. m = worst - d
  OBVIOUS
<1> HIDE DEF m
<1>14. s <= m /\ s \in Nat
  BY <1>1, <1>12, AlignLeast, AlignTo
<1> HIDE DEF s
<1>15. StackSize(f) <= m /\ StackSize(f) \in Nat
  <2>1. alignTo(s, StackAlign) <= m /\ alignTo(s, StackAlign) \in Nat
    BY <1>1, <1>12, <1>14, AlignLeast, AlignTo
  <2> QED BY <1>11, <2>1 DEF s
<1>16. StackSize(f) + f.params <= worst
  <2> DEFINE p == f.params
             z == StackSize(f)
  <2>1. p \in Nat /\ z \in Nat /\ d \in Nat /\ worst \in Nat /\ p <= d /\ z <= worst - d
    BY <1>1, <1>3, <1>10, <1>13, <1>15
  <2> HIDE DEF p, z
  <2>2. z + p <= worst
    BY <2>1
  <2> QED BY <2>2 DEF p, z
<1> QED BY <1>8, <1>10, <1>16

-----------------------------------------------------------------------------
(* The scavenger has a slot. *)
HasSlot == MF \in Functions /\ vregs \in BOOLEAN /\ (vregs => hasScavengingSlot(MF))

(* Without a slot every offset of the frame is an immediate. *)
LEMMA OffsetsFit ==
  ASSUME NEW f \in Functions, WorstCaseCounts(f), ~hasScavengingSlot(f)
  PROVE  /\ isInt(ImmBits, StackSize(f)) /\ isInt(ImmBits, -StackSize(f))
         /\ \A o \in 0 .. (StackSize(f) + f.params) : isInt(ImmBits, o)
         /\ f.adjustsStack /\ ~hasReservedCallFrame(f) =>
              isInt(ImmBits, f.maxCall) /\ isInt(ImmBits, -f.maxCall)
<1> DEFINE S == StackSize(f)
           p == f.params
           w == getWorstCaseStackSize(f)
           B == 2^LoBits
           c == f.maxCall
<1>1. S \in Nat /\ p \in Nat /\ c \in Nat /\ B \in Nat
  BY FrameFacts, FunctionTypes, PowersAssumption
<1>2. w \in Nat /\ S + p <= w
  BY WorstCase DEF WorstCaseCounts
<1>3. \A v : isInt(ImmBits, v) <=> -B <= v /\ v < B
  BY DEF isInt, LoBits
<1>4. w < B
  BY <1>3 DEF hasScavengingSlot
<1>5. f.adjustsStack /\ ~hasReservedCallFrame(f) => c < B
  BY DEF WorstCaseCounts
<1> HIDE DEF S, p, w, B, c
<1>6. isInt(ImmBits, S) /\ isInt(ImmBits, -S)
  <2>1. -B <= S /\ S < B /\ -B <= -S /\ -S < B
    BY <1>1, <1>2, <1>4
  <2> QED BY <1>3, <2>1
<1>7. \A o \in 0 .. (S + p) : isInt(ImmBits, o)
  <2>1. \A o \in 0 .. (S + p) : -B <= o /\ o < B
    BY <1>1, <1>2, <1>4
  <2> QED BY <1>3, <2>1
<1>8. c < B => isInt(ImmBits, c) /\ isInt(ImmBits, -c)
  <2>1. c < B => -B <= c /\ -B <= -c /\ -c < B
    BY <1>1
  <2> QED BY <1>3, <2>1
<1> QED BY <1>5, <1>6, <1>7, <1>8 DEF S, p, c

LEMMA HasSlotStep ==
  ASSUME \A f \in Functions : WorstCaseCounts(f), HasSlot, [IndexNext]_indexVars
  PROVE  HasSlot'
<1>1. MF \in Functions /\ vregs \in BOOLEAN /\ (vregs => hasScavengingSlot(MF))
  BY DEF HasSlot
<1>2. ~hasScavengingSlot(MF) =>
        /\ isInt(ImmBits, StackSize(MF)) /\ isInt(ImmBits, -StackSize(MF))
        /\ \A o \in 0 .. (StackSize(MF) + MF.params) : isInt(ImmBits, o)
        /\ MF.adjustsStack /\ ~hasReservedCallFrame(MF) =>
             isInt(ImmBits, MF.maxCall) /\ isInt(ImmBits, -MF.maxCall)
  BY <1>1, OffsetsFit
<1>3. ASSUME NEW o, ~hasScavengingSlot(MF) => isInt(ImmBits, o),
             MF' = MF, vregs' = (vregs \/ ~isInt(ImmBits, o))
      PROVE  HasSlot'
  <2>1. vregs' \in BOOLEAN /\ (vregs' => vregs \/ ~isInt(ImmBits, o))
    BY <1>1, <1>3
  <2>2. vregs' => hasScavengingSlot(MF)
    BY <1>1, <1>3, <2>1
  <2>3. hasScavengingSlot(MF') = hasScavengingSlot(MF)
    BY <1>3
  <2> QED BY <1>1, <1>3, <2>1, <2>2, <2>3 DEF HasSlot
<1>4. ASSUME NEW amount, ~hasScavengingSlot(MF) => isInt(ImmBits, amount), Adjust(amount)
      PROVE  HasSlot'
  BY <1>3, <1>4 DEF Adjust
<1>5. ASSUME NEW offset, NEW imm,
             ~hasScavengingSlot(MF) => isInt(ImmBits, FrameOffset(MF, offset + imm)),
             Eliminate(offset, imm)
      PROVE  HasSlot'
  BY <1>3, <1>5 DEF Eliminate
<1>6. CASE Adjust(-StackSize(MF)) \/ Adjust(StackSize(MF))
  BY <1>2, <1>4, <1>6
<1>7. CASE AdjustCallFrame
  BY <1>2, <1>4, <1>7 DEF AdjustCallFrame
<1>8. CASE \E i \in DOMAIN Objects(MF) : EliminateObject(i)
  <2>1. PICK i \in DOMAIN Objects(MF) : EliminateObject(i)
    BY <1>8
  <2>2. PICK imm \in {0, MaxOf(0, Objects(MF)[i].size - ScalarSize)} :
          Eliminate(ObjectOffsets(MF)[i], imm)
    BY <2>1 DEF EliminateObject
  <2>3. FrameOffset(MF, ObjectOffsets(MF)[i] + imm) \in 0 .. StackSize(MF)
    BY <1>1, AccessOffsets
  <2>4. FrameOffset(MF, ObjectOffsets(MF)[i] + imm) \in 0 .. (StackSize(MF) + MF.params)
    BY <1>1, <2>3, FunctionTypes, FrameFacts
  <2> QED BY <1>2, <1>5, <2>2, <2>4
<1>9. CASE EliminateParam
  <2>1. PICK off \in {0, MF.params - ScalarSize} : Eliminate(off, 0) /\ MF.params > 0
    BY <1>9 DEF EliminateParam
  <2>2. FrameOffset(MF, off + 0) \in 0 .. (StackSize(MF) + MF.params)
    BY <1>1, <2>1, AccessOffsets
  <2> QED BY <1>2, <1>5, <2>1, <2>2
<1>10. CASE Scavenge
  <2>1. MF' = MF /\ hasScavengingSlot(MF) /\ vregs' \in BOOLEAN
    BY <1>10 DEF Scavenge
  <2> QED BY <1>1, <2>1 DEF HasSlot
<1>11. CASE UNCHANGED indexVars
  BY <1>1, <1>11 DEF HasSlot, indexVars
<1> QED BY <1>6, <1>7, <1>8, <1>9, <1>10, <1>11 DEF IndexNext

(* A frame whose offsets need a register has a slot for the scavenger:     *)
(* when determineCalleeSaves finds the estimate within an immediate, so    *)
(* are the size of the frame, which is laid out later, and every offset in *)
(* it, for functions whose incoming and pushed arguments fit what the      *)
(* estimate leaves out.                                                    *)
THEOREM ScavengerHasSlotTheorem ==
  ASSUME \A f \in Functions : WorstCaseCounts(f)
  PROVE  IndexSpec => []ScavengerHasSlot
<1>1. IndexInit => HasSlot
  BY DEF IndexInit, HasSlot
<1>2. HasSlot /\ [IndexNext]_indexVars => HasSlot'
  BY HasSlotStep
<1>3. HasSlot => ScavengerHasSlot
  BY DEF HasSlot, ScavengerHasSlot
<1> QED BY <1>1, <1>2, <1>3, PTL DEF IndexSpec

-----------------------------------------------------------------------------
(* The slot can be reached. *)
Completes == MF \in Functions /\ vregs \in BOOLEAN /\ (pass # 0 => ~vregs)

(* The space below the lowest object: outgoing arguments and less than one *)
(* alignment of padding.                                                   *)
LEMMA PaddingBound ==
  ASSUME NEW f \in Functions, AlignmentsNest(f)
  PROVE  StackSize(f) - ObjectsSize(f) < CallFrame(f) + StackAlign /\ ObjectsSize(f) \in Nat
<1> DEFINE R == ObjectsSize(f)
           C == CallFrame(f)
           n == Len(Objects(f))
           s == alignTo(R + C, StackAlign)
           S == StackSize(f)
<1>1. R \in Nat /\ C \in Nat /\ StackAlign \in Nat \ {0}
  <2>1. /\ Objects(f) \in Seq(StackObject) /\ n \in 0 .. n
        /\ C \in Nat /\ StackAlign \in Nat \ {0}
    BY ObjectsFacts, ObjectTypes, FunctionTypes, SizesAssumption
  <2>2. StackOffsets(0, Objects(f)) \in [0 .. n -> Nat]
    BY <2>1, StackOffsetsDef
  <2>3. StackOffsets(0, Objects(f))[n] \in Nat
    <3> HIDE DEF n
    <3> QED BY <2>1, <2>2
  <2> QED BY <2>1, <2>3 DEF ObjectsSize
<1>2. S = alignTo(s, StackAlign)
  BY FrameAlignment DEF StackSize, getStackSize
<1> HIDE DEF R, C, S
<1>3. R + C \in Nat
  BY <1>1
<1>4. s \in Nat /\ s < (R + C) + StackAlign /\ Multiple(s, StackAlign)
  BY <1>1, <1>3, AlignTo
<1> HIDE DEF s
<1>5. S <= s /\ S \in Nat
  <2>1. s \in Int /\ s <= s
    BY <1>4
  <2> QED BY <1>1, <1>2, <1>4, <2>1, AlignLeast, AlignTo
<1>6. S - R < C + StackAlign /\ R \in Nat
  BY <1>1, <1>4, <1>5
<1> QED BY <1>6 DEF S, R, C

LEMMA SlotOffset ==
  ASSUME NEW f \in Functions, hasScavengingSlot(f), SlotInReach(f)
  PROVE  isInt(ImmBits, FrameOffset(f, ObjectOffsets(f)[ScavengingIndex(f)]))
<1> DEFINE j == ScavengingIndex(f)
           n == Len(Objects(f))
           P == Place(f, j)
           B == 2^LoBits
           c == Len(CalleeSavedInfo(f))
<1>1. /\ j \in 1 .. n /\ Objects(f)[j].size = ScalarSize /\ ScalarSize \in Nat \ {0}
      /\ c \in Nat /\ DOMAIN CalleeSavedInfo(f) = 1 .. c
      /\ \A i \in 1 .. c : i \in 1 .. n
  BY ObjectsFacts, SizesAssumption
<1>2. FrameOffset(f, ObjectOffsets(f)[j]) = P /\ P \in Nat
  BY <1>1, FrameFacts
<1>3. B \in Nat /\ (isInt(ImmBits, P) <=> -B <= P /\ P < B)
  BY PowersAssumption DEF isInt, LoBits
<1>4. Len(SpillSlots(f)) = c
  <2>1. SpillSlots(f) = [i \in 1 .. c |-> [size |-> SpillSize(CalleeSavedInfo(f)[i]),
                                          align |-> SpillSize(CalleeSavedInfo(f)[i])]]
    BY <1>1 DEF SpillSlots
  <2> HIDE DEF c
  <2> QED BY <1>1, <2>1
<1>early. EarlyScavengingSlots(f) <=> hasFP(f)
  <2>1. MaxAlign(f) \in Nat /\ StackAlign \in Nat /\ MaxOf(StackAlign, MaxAlign(f)) = StackAlign
    BY FrameAlignment, SizesAssumption DEF SlotInReach
  <2>2. ~(MaxAlign(f) > StackAlign)
    BY <2>1 DEF MaxOf
  <2> QED BY <2>2 DEF EarlyScavengingSlots, needsStackRealignment
<1>5. CASE hasFP(f)
  <2>1. c \in 1 .. c /\ c \in 1 .. n /\ j = c + 1
    <3>1. PICK i \in 1 .. c : CalleeSavedInfo(f)[i] = "FP"
      BY <1>5, SavedTypes, CalleeSavedFacts
    <3>2. c \in 1 .. c
      BY <1>1, <3>1
    <3>3. j = c + 1
      BY <1>1, <1>4, <1>5, <1>early DEF ScavengingIndex
    <3> QED BY <1>1, <3>2, <3>3
  <2>2. FrameOffset(f, ObjectOffsets(f)[c]) = Place(f, c) /\ Place(f, c) \in Nat
    BY <2>1, FrameFacts
  <2>3. Place(f, c) <= B
    BY <1>4, <1>5, <2>2 DEF SlotInReach
  <2>4. P + ScalarSize <= Place(f, c)
    BY <1>1, <2>1, FrameFacts
  <2> DEFINE y == Place(f, c)
  <2> HIDE DEF P, B, y
  <2>5. P < B /\ -B <= P
    <3>1. y \in Nat /\ y <= B /\ P + ScalarSize <= y /\ P \in Nat /\ B \in Nat /\ ScalarSize \in Nat \ {0}
      BY <1>1, <1>2, <1>3, <2>2, <2>3, <2>4 DEF y
    <3> QED BY <3>1
  <2> QED BY <1>2, <1>3, <2>5
<1>6. CASE ~hasFP(f)
  <2>1. j = n
    <3> DEFINE L == f.locals
               Sc == ScavengingSlots(f)
               Sp == SpillSlots(f)
    <3>1. Sp \in Seq(StackObject) /\ L \in Seq(StackObject)
      BY SpillSlotTypes, FunctionTypes
    <3>2. Sc \in Seq(StackObject) /\ Len(Sc) = 1
      BY <1>1 DEF ScavengingSlots, StackObject
    <3>3. Objects(f) = Sp \o (L \o Sc) /\ j = Len(Sp) + 1 + Len(L)
      BY <1>6, <1>early DEF Objects, ScavengingIndex
    <3> HIDE DEF L, Sc, Sp, j
    <3>4. Len(Sp \o (L \o Sc)) = Len(Sp) + (Len(L) + Len(Sc)) /\ Len(Sp) \in Nat /\ Len(L) \in Nat
      <4>1. L \o Sc \in Seq(StackObject) /\ Len(L \o Sc) = Len(L) + Len(Sc)
        BY <3>1, <3>2, ConcatFacts
      <4>2. Len(Sp \o (L \o Sc)) = Len(Sp) + Len(L \o Sc)
        BY <3>1, <4>1, ConcatFacts
      <4> QED BY <3>1, <4>1, <4>2, ObjectTypes
    <3> QED BY <3>2, <3>3, <3>4
  <2>2. P = StackSize(f) - ObjectsSize(f)
    BY <2>1 DEF Place, ObjectsSize
  <2>3. StackSize(f) - ObjectsSize(f) < CallFrame(f) + StackAlign
    BY PaddingBound DEF SlotInReach
  <2>4. CallFrame(f) + StackAlign <= B /\ CallFrame(f) + StackAlign \in Nat
    BY <1>6, FunctionTypes, SizesAssumption DEF SlotInReach
  <2> DEFINE y == CallFrame(f) + StackAlign
  <2>5. P < y /\ y <= B /\ y \in Nat /\ P \in Nat /\ B \in Nat
    BY <1>2, <1>3, <2>2, <2>3, <2>4
  <2> HIDE DEF P, B, y
  <2>6. P < B /\ -B <= P
    BY <2>5
  <2> QED BY <1>2, <1>3, <2>6
<1> QED BY <1>5, <1>6

LEMMA CompletesStep ==
  ASSUME \A f \in Functions : hasScavengingSlot(f) => SlotInReach(f), Completes, [IndexNext]_indexVars
  PROVE  Completes'
<1>1. MF \in Functions /\ vregs \in BOOLEAN /\ (pass # 0 => ~vregs)
  BY DEF Completes
<1>2. ASSUME NEW amount, Adjust(amount) PROVE Completes'
  <2>1. MF' = MF /\ pass' = 0 /\ vregs' \in BOOLEAN
    BY <1>2 DEF Adjust
  <2> QED BY <1>1, <2>1 DEF Completes
<1>3. ASSUME NEW offset, NEW imm, Eliminate(offset, imm) PROVE Completes'
  <2>1. MF' = MF /\ pass' = 0 /\ vregs' \in BOOLEAN
    BY <1>3 DEF Eliminate
  <2> QED BY <1>1, <2>1 DEF Completes
<1>4. CASE Adjust(-StackSize(MF)) \/ Adjust(StackSize(MF)) \/ AdjustCallFrame
  BY <1>2, <1>4 DEF AdjustCallFrame
<1>5. CASE (\E i \in DOMAIN Objects(MF) : EliminateObject(i)) \/ EliminateParam
  BY <1>3, <1>5 DEF EliminateObject, EliminateParam
<1>6. CASE Scavenge
  <2> DEFINE Offset == FrameOffset(MF, ObjectOffsets(MF)[ScavengingIndex(MF)])
  <2>1. MF' = MF /\ hasScavengingSlot(MF) /\ vregs' = ~isInt(ImmBits, Offset)
    BY <1>6 DEF Scavenge
  <2>2. isInt(ImmBits, Offset)
    BY <1>1, <2>1, SlotOffset
  <2> HIDE DEF Offset
  <2>3. vregs' \in BOOLEAN /\ ~vregs'
    BY <2>1, <2>2
  <2> QED BY <1>1, <2>1, <2>3 DEF Completes
<1>7. CASE UNCHANGED indexVars
  BY <1>1, <1>7 DEF Completes, indexVars
<1> QED BY <1>4, <1>5, <1>6, <1>7 DEF IndexNext

(* scavengeFrameVirtualRegs never needs a register again after its first   *)
(* pass: the slot, the lowest object of a frame without a frame pointer,   *)
(* is an immediate away from SP when the outgoing arguments are, whatever  *)
(* the size of the frame; with one it is the first below the spill slots,  *)
(* and the frame below them must be in reach.                              *)
THEOREM ScavengingCompletesTheorem ==
  ASSUME \A f \in Functions : hasScavengingSlot(f) => SlotInReach(f)
  PROVE  IndexSpec => []ScavengingCompletes
<1>1. IndexInit => Completes
  BY DEF IndexInit, Completes
<1>2. Completes /\ [IndexNext]_indexVars => Completes'
  BY CompletesStep
<1>3. Completes => ScavengingCompletes
  BY DEF Completes, ScavengingCompletes
<1> QED BY <1>1, <1>2, <1>3, PTL DEF IndexSpec
=============================================================================
