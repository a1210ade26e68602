--------------------------- MODULE WireCodecProofs ---------------------------
(***************************************************************************)
(* Theorems about WireCodec, for bytes of any number of bits, integers,    *)
(* blocks and lengths of any number of bytes, any polynomial whose top bit *)
(* is set and any samples. Integers written and read again are the same;   *)
(* the table-driven CRC is the CRC of the bits, and no two sequences that  *)
(* differ in one byte have the same; fields laid end to end are found      *)
(* again. A header hit in one byte and a frame cut short are refused for   *)
(* these reasons. Each SHA-256 has, in whole blocks and a buffer that is   *)
(* not full, the bytes it was given; whole blocks are known by their       *)
(* bytes, so the two compress the same ones.                               *)
(***************************************************************************)
EXTENDS WireCodec, SeqMeasureTheorems

-----------------------------------------------------------------------------
(* Division by what need not be a number written out.                      *)

LEMMA DivMod ==
  ASSUME NEW a \in Nat, NEW b \in Nat \ {0}
  PROVE  /\ a \div b \in Nat /\ a % b \in 0..(b - 1)
         /\ a = ((a \div b) * b) + (a % b)
OBVIOUS

LEMMA DivUnique ==
  ASSUME NEW q \in Nat, NEW b \in Nat \ {0}, NEW r \in 0..(b - 1)
  PROVE  (q * b + r) \div b = q /\ (q * b + r) % b = r
OBVIOUS

LEMMA DivLess ==
  ASSUME NEW a \in Nat, NEW b \in Nat \ {0}, NEW p \in Nat, a < p * b
  PROVE  a \div b < p
OBVIOUS

LEMMA ProductType ==
  ASSUME NEW a \in Nat, NEW b \in Nat \ {0}, NEW c \in Nat \ {0}, NEW d \in Nat
  PROVE  a * b \in Nat /\ c * b \in Nat \ {0} /\ a * b + d \in Nat
OBVIOUS

LEMMA ProductLess ==
  ASSUME NEW a \in Nat, NEW b \in Nat \ {0}, NEW c \in Nat, a < c, NEW d \in 0..(b - 1)
  PROVE  a * b + d < c * b
OBVIOUS

-----------------------------------------------------------------------------
(* Powers and numerals. A number is its digits, and they are it.           *)

LEMMA PowerType ==
  ASSUME NEW base \in Nat \ {0}, NEW n \in Nat
  PROVE  Power(base, n) \in Nat \ {0}
<1>. DEFINE step == [p \in Nat |-> p * base]
            S == {k \in Nat : Iterated(step, 1, k) \in Nat \ {0}}
<1>1. 0 \in S
  BY IteratedNext
<1>2. ASSUME NEW k \in Nat, k \in S PROVE k + 1 \in S
  <2>1. Iterated(step, 1, k + 1) = step[Iterated(step, 1, k)]
    BY IteratedNext
  <2>2. \A p \in Nat : step[p] = p * base
    OBVIOUS
  <2>3. Iterated(step, 1, k) \in Nat \ {0}
    BY <1>2
  <2>. HIDE DEF step
  <2>4. Iterated(step, 1, k + 1) \in Nat \ {0}
    BY <2>1, <2>2, <2>3, ProductType
  <2>. QED
    BY <2>4
<1>. HIDE DEF S
<1>3. n \in S
  BY <1>1, <1>2, Induction
<1>. QED
  BY <1>3 DEF S, Power

LEMMA PowerNext ==
  ASSUME NEW base \in Nat \ {0}, NEW n \in Nat
  PROVE  Power(base, 0) = 1 /\ Power(base, n + 1) = Power(base, n) * base
<1>. DEFINE step == [p \in Nat |-> p * base]
<1>1. /\ Iterated(step, 1, 0) = 1
      /\ Iterated(step, 1, n + 1) = step[Iterated(step, 1, n)]
  BY IteratedNext
<1>2. Iterated(step, 1, n) \in Nat
  BY PowerType DEF Power
<1>. QED
  BY <1>1, <1>2 DEF Power

LEMMA PowerSum ==
  ASSUME NEW base \in Nat \ {0}, NEW m \in Nat, NEW n \in Nat
  PROVE  Power(base, m + n) = Power(base, m) * Power(base, n)
<1>. DEFINE S == {k \in Nat : Power(base, m + k) = Power(base, m) * Power(base, k)}
<1>1. 0 \in S
  <2>1. Power(base, 0) = 1 /\ Power(base, m) \in Nat /\ m + 0 = m
    BY PowerNext, PowerType
  <2>. QED
    BY <2>1
<1>2. ASSUME NEW k \in Nat, k \in S PROVE k + 1 \in S
  <2>1. Power(base, m + k) = Power(base, m) * Power(base, k)
    BY <1>2
  <2>2. m + (k + 1) = (m + k) + 1 /\ m + k \in Nat
    OBVIOUS
  <2>3. Power(base, (m + k) + 1) = Power(base, m + k) * base
    BY <2>2, PowerNext
  <2>4. Power(base, k + 1) = Power(base, k) * base
    BY PowerNext
  <2>5. Power(base, m) \in Nat /\ Power(base, k) \in Nat
    BY PowerType
  <2>6. Power(base, m + (k + 1)) = Power(base, m) * Power(base, k + 1)
    BY <2>1, <2>2, <2>3, <2>4, <2>5
  <2>. QED
    BY <2>6
<1>. HIDE DEF S
<1>3. n \in S
  BY <1>1, <1>2, Induction
<1>. QED
  BY <1>3 DEF S

\* The bits of so many bytes.
LEMMA PowerBytes ==
  ASSUME NEW bits \in Nat, NEW n \in Nat
  PROVE  Power(2, bits * n) = Power(Power(2, bits), n)
<1>. DEFINE S == {k \in Nat : Power(2, bits * k) = Power(Power(2, bits), k)}
<1>1. Power(2, bits) \in Nat \ {0}
  BY PowerType
<1>2. 0 \in S
  <2>1. bits * 0 = 0
    OBVIOUS
  <2>2. Power(2, 0) = 1 /\ Power(Power(2, bits), 0) = 1
    BY <1>1, PowerNext
  <2>. QED
    BY <2>1, <2>2
<1>3. ASSUME NEW k \in Nat, k \in S PROVE k + 1 \in S
  <2>1. bits * (k + 1) = bits * k + bits /\ bits * k \in Nat
    OBVIOUS
  <2>2. Power(2, bits * k + bits) = Power(2, bits * k) * Power(2, bits)
    BY <2>1, PowerSum
  <2>3. Power(Power(2, bits), k + 1) = Power(Power(2, bits), k) * Power(2, bits)
    BY <1>1, PowerNext
  <2>4. Power(2, bits * k) = Power(Power(2, bits), k)
    BY <1>3
  <2>5. Power(2, bits * (k + 1)) = Power(Power(2, bits), k + 1)
    BY <2>1, <2>2, <2>3, <2>4
  <2>. QED
    BY <2>5
<1>. HIDE DEF S
<1>4. n \in S
  BY <1>2, <1>3, Induction
<1>. QED
  BY <1>4 DEF S

LEMMA ShiftedNext ==
  ASSUME NEW base \in Nat \ {0}, NEW value \in Nat, NEW n \in Nat
  PROVE  /\ Shifted(value, base, n) \in Nat
         /\ Shifted(value, base, 0) = value
         /\ Shifted(value, base, n + 1) = Shifted(value, base, n) \div base
         /\ Shifted(value, base, n + 1) = Shifted(value \div base, base, n)
<1>. DEFINE step == [v \in Nat |-> v \div base]
<1>1. \A v \in Nat : step[v] = v \div base /\ step[v] \in Nat
  BY DivMod
<1>2. \A v \in Nat : \A k \in Nat : Shifted(v, base, k) = Iterated(step, v, k)
  BY DEF Shifted
<1>3. value \div base \in Nat
  BY DivMod
<1>. HIDE DEF step
<1>4. Iterated(step, value, n) \in Nat
  BY <1>1, IteratedType
<1>5. /\ Iterated(step, value, 0) = value
      /\ Iterated(step, value, n + 1) = step[Iterated(step, value, n)]
  BY IteratedNext
<1>6. Iterated(step, value, n + 1) = Iterated(step, step[value], n)
  BY IteratedFirst
<1>. QED
  BY <1>1, <1>2, <1>3, <1>4, <1>5, <1>6

LEMMA ShiftedFirst ==
  ASSUME NEW base \in Nat \ {0}, NEW value \in Nat, NEW n \in Nat
  PROVE  Shifted(value, base, n + 1) = Shifted(value \div base, base, n)
BY ShiftedNext

\* A number has no digits but those of its length.
LEMMA ShiftedAway ==
  ASSUME NEW base \in Nat \ {0}, NEW value \in Nat, NEW n \in Nat, value < Power(base, n),
         NEW more \in Nat
  PROVE  Shifted(value, base, n + more) = 0
<1>. DEFINE S == {k \in Nat : \A v \in Nat : v < Power(base, k) => Shifted(v, base, k) = 0}
<1>1. 0 \in S
  <2>1. \A v \in Nat : v < 1 => v = 0
    OBVIOUS
  <2>2. \A v \in Nat : v < Power(base, 0) => Shifted(v, base, 0) = 0
    BY <2>1, PowerNext, ShiftedNext
  <2>. QED
    BY <2>2
<1>2. ASSUME NEW k \in Nat, k \in S PROVE k + 1 \in S
  <2>1. ASSUME NEW v \in Nat, v < Power(base, k + 1) PROVE Shifted(v, base, k + 1) = 0
    <3>1. v < Power(base, k) * base /\ Power(base, k) \in Nat
      BY <2>1, PowerNext, PowerType
    <3>2. v \div base < Power(base, k) /\ v \div base \in Nat
      BY <3>1, DivLess, DivMod
    <3>3. Shifted(v \div base, base, k) = 0
      BY <1>2, <3>2
    <3>4. Shifted(v, base, k + 1) = Shifted(v \div base, base, k)
      BY ShiftedFirst
    <3>. QED
      BY <3>3, <3>4
  <2>. QED
    BY <2>1
<1>. HIDE DEF S
<1>3. n \in S
  BY <1>1, <1>2, Induction
<1>4. Shifted(value, base, n) = 0
  BY <1>3 DEF S
<1>. DEFINE M == {k \in Nat : Shifted(value, base, n + k) = 0}
<1>5. 0 \in M
  BY <1>4
<1>6. ASSUME NEW k \in Nat, k \in M PROVE k + 1 \in M
  <2>1. n + (k + 1) = (n + k) + 1 /\ n + k \in Nat
    OBVIOUS
  <2>2. Shifted(value, base, (n + k) + 1) = Shifted(value, base, n + k) \div base
    BY <2>1, ShiftedNext
  <2>3. 0 \div base = 0
    OBVIOUS
  <2>4. Shifted(value, base, n + (k + 1)) = 0
    BY <1>6, <2>1, <2>2, <2>3
  <2>. QED
    BY <2>4
<1>. HIDE DEF M
<1>7. more \in M
  BY <1>5, <1>6, Induction
<1>. QED
  BY <1>7 DEF M

DigitValues(base) == 0..(base - 1)

LEMMA DigitsType ==
  ASSUME NEW base \in Nat \ {0}, NEW value \in Nat, NEW width \in Nat
  PROVE  /\ Digits(value, base, width) \in [1..width -> DigitValues(base)]
         /\ Digits(value, base, width) \in Seq(DigitValues(base))
         /\ Len(Digits(value, base, width)) = width
<1>1. ASSUME NEW i \in 1..width PROVE Shifted(value, base, i - 1) % base \in DigitValues(base)
  <2>1. i - 1 \in Nat
    OBVIOUS
  <2>. QED
    BY <2>1, ShiftedNext, DivMod DEF DigitValues
<1>2. Digits(value, base, width) \in [1..width -> DigitValues(base)]
  BY <1>1 DEF Digits
<1>. QED
  BY <1>2

\* The lowest digit, and those of what it is a remainder of.
LEMMA DigitsFirst ==
  ASSUME NEW base \in Nat \ {0}, NEW value \in Nat, NEW width \in Nat
  PROVE  /\ Digits(value, base, width + 1)[1] = value % base
         /\ Tail(Digits(value, base, width + 1)) = Digits(value \div base, base, width)
<1>. DEFINE d == Digits(value, base, width + 1)
            e == Digits(value \div base, base, width)
<1>1. value \div base \in Nat /\ width + 1 \in Nat
  BY DivMod
<1>2. d \in Seq(DigitValues(base)) /\ Len(d) = width + 1
  BY <1>1, DigitsType, ZenonT(30)
<1>3. e \in Seq(DigitValues(base)) /\ Len(e) = width
  BY <1>1, DigitsType
<1>4. \A i \in 1..(width + 1) : d[i] = Shifted(value, base, i - 1) % base
  BY DEF Digits
<1>5. \A i \in 1..width : e[i] = Shifted(value \div base, base, i - 1) % base
  BY DEF Digits
<1>6. d[1] = value % base
  <2>1. 1 \in 1..(width + 1) /\ 1 - 1 = 0
    OBVIOUS
  <2>. QED
    BY <1>4, <2>1, ShiftedNext
<1>7. ASSUME NEW i \in 1..width PROVE d[i + 1] = e[i]
  <2>1. i + 1 \in 1..(width + 1) /\ (i + 1) - 1 = (i - 1) + 1 /\ i - 1 \in Nat
    OBVIOUS
  <2>2. Shifted(value, base, (i - 1) + 1) = Shifted(value \div base, base, i - 1)
    BY <2>1, ShiftedNext, ZenonT(30)
  <2>. QED
    BY <1>4, <1>5, <2>1, <2>2
<1>. HIDE DEF d, e
<1>8. Tail(d) \in Seq(DigitValues(base)) /\ Len(Tail(d)) = width
      /\ \A i \in 1..width : Tail(d)[i] = d[i + 1]
  BY <1>2
<1>9. Tail(d) = e
  BY <1>3, <1>7, <1>8, SeqEqual
<1>. QED
  BY <1>6, <1>9 DEF d, e

\* The digits of a sequence, from its lowest.
LEMMA NumberFirst ==
  ASSUME NEW base \in Nat \ {0}, NEW d \in Seq(Nat)
  PROVE  /\ Number(d, base) \in Nat
         /\ d = <<>> => Number(d, base) = 0
         /\ d # <<>> => Number(d, base) = Number(Tail(d), base) * base + d[1]
<1>. DEFINE step == [p \in Nat \X Nat |-> p[1] * base + p[2]]
<1>1. \A x \in Nat, y \in Nat : step[<<x, y>>] = x * base + y /\ step[<<x, y>>] \in Nat
  BY ProductType
<1>2. \A s : Number(s, base) = Folded(step, 0, Reverse(s))
  BY DEF Number
<1>. HIDE DEF step
<1>3. \A s \in Seq(Nat) : Reverse(s) \in Seq(Nat)
  BY DEF Reverse
<1>4. \A s \in Seq(Nat) : Number(s, base) \in Nat
  <2>1. \A x \in Nat, y \in Nat : step[<<x, y>>] \in Nat
    BY <1>1
  <2>2. ASSUME NEW s \in Seq(Nat) PROVE Folded(step, 0, Reverse(s)) \in Nat
    <3>1. Reverse(s) \in Seq(Nat)
      BY <1>3
    <3>. QED
      BY <2>1, <3>1, FoldedType
  <2>. QED
    BY <1>2, <2>2
<1>5. ASSUME d = <<>> PROVE Number(d, base) = 0
  <2>1. Reverse(d) = <<>>
    BY <1>5 DEF Reverse
  <2>. QED
    BY <1>2, <2>1, FoldedEmpty
<1>6. ASSUME d # <<>> PROVE Number(d, base) = Number(Tail(d), base) * base + d[1]
  <2>1. Tail(d) \in Seq(Nat) /\ d[1] \in Nat /\ Len(d) \in Nat \ {0} /\ Len(Tail(d)) = Len(d) - 1
        /\ \A i \in 1..(Len(d) - 1) : Tail(d)[i] = d[i + 1]
    BY <1>6
  <2>2. Reverse(d) = Append(Reverse(Tail(d)), d[1])
    <3>. DEFINE r == Reverse(d)
                t == Reverse(Tail(d))
    <3>1. r \in Seq(Nat) /\ t \in Seq(Nat) /\ Len(r) = Len(d) /\ Len(t) = Len(d) - 1
      BY <2>1 DEF Reverse
    <3>2. /\ \A i \in 1..Len(d) : r[i] = d[Len(d) - i + 1]
          /\ \A i \in 1..(Len(d) - 1) : t[i] = Tail(d)[(Len(d) - 1) - i + 1]
      BY <2>1 DEF Reverse
    <3>3. ASSUME NEW i \in 1..(Len(d) - 1) PROVE r[i] = t[i]
      <4>1. (Len(d) - 1) - i + 1 \in 1..(Len(d) - 1) /\ ((Len(d) - 1) - i + 1) + 1 = Len(d) - i + 1
            /\ i \in 1..Len(d)
        BY <2>1
      <4>. QED
        BY <2>1, <3>2, <4>1
    <3>4. r[Len(d)] = d[1]
      <4>1. Len(d) \in 1..Len(d) /\ Len(d) - Len(d) + 1 = 1
        BY <2>1
      <4>. QED
        BY <3>2, <4>1
    <3>. HIDE DEF r, t
    <3>. DEFINE u == Append(t, d[1])
    <3>5. u \in Seq(Nat) /\ Len(u) = Len(d) /\ u[Len(d)] = d[1]
          /\ \A i \in 1..(Len(d) - 1) : u[i] = t[i]
      <4>1. t \in Seq(Nat) /\ d[1] \in Nat /\ Len(t) + 1 = Len(d)
        BY <2>1, <3>1
      <4>2. u \in Seq(Nat) /\ Len(u) = Len(t) + 1 /\ u[Len(t) + 1] = d[1]
            /\ \A i \in 1..Len(t) : u[i] = t[i]
        BY <4>1
      <4>. QED
        BY <3>1, <4>1, <4>2
    <3>. HIDE DEF u
    <3>6. ASSUME NEW i \in 1..Len(d) PROVE r[i] = u[i]
      <4>1. i = Len(d) \/ i \in 1..(Len(d) - 1)
        <5>1. Len(d) \in Nat \ {0}
          BY <2>1
        <5>. QED
          BY <5>1
      <4>. QED
        BY <3>3, <3>4, <3>5, <4>1
    <3>7. r = u
      BY <3>1, <3>5, <3>6, SeqEqual
    <3>. QED
      BY <3>7 DEF r, t, u
  <2>3. Reverse(Tail(d)) \in Seq(Nat)
    BY <1>3, <2>1
  <2>4. Folded(step, 0, Append(Reverse(Tail(d)), d[1])) = step[<<Folded(step, 0, Reverse(Tail(d))), d[1]>>]
    BY <2>1, <2>3, FoldedAppend, ZenonT(30)
  <2>5. Number(d, base) = step[<<Number(Tail(d), base), d[1]>>]
    BY <1>2, <2>2, <2>4
  <2>. QED
    BY <1>1, <1>4, <2>1, <2>5
<1>. QED
  BY <1>4, <1>5, <1>6

\* A number that has so many digits is the number they make.
LEMMA NumberOfDigits ==
  ASSUME NEW base \in Nat \ {0}, NEW width \in Nat, NEW value \in Nat, value < Power(base, width)
  PROVE  Number(Digits(value, base, width), base) = value
<1>. DEFINE S == {w \in Nat : \A v \in Nat : v < Power(base, w) => Number(Digits(v, base, w), base) = v}
<1>. HIDE DEF S
<1>0. DigitValues(base) \subseteq Nat
  BY DEF DigitValues
<1>1. 0 \in S
  <2>1. ASSUME NEW v \in Nat, v < Power(base, 0) PROVE Number(Digits(v, base, 0), base) = v
    <3>1. v = 0
      BY <2>1, PowerNext
    <3>2. Digits(v, base, 0) = <<>>
      BY DigitsType
    <3>3. <<>> \in Seq(Nat)
      OBVIOUS
    <3>. QED
      BY <3>1, <3>2, <3>3, NumberFirst
  <2>. QED
    BY <2>1 DEF S
<1>2. ASSUME NEW w \in Nat, w \in S PROVE w + 1 \in S
  <2>1. ASSUME NEW v \in Nat, v < Power(base, w + 1) PROVE Number(Digits(v, base, w + 1), base) = v
    <3>. DEFINE d == Digits(v, base, w + 1)
    <3>1. d \in Seq(Nat) /\ d # <<>>
      <4>1. d \in Seq(DigitValues(base)) /\ Len(d) = w + 1
        BY DigitsType
      <4>. QED
        BY <1>0, <4>1
    <3>2. v < Power(base, w) * base /\ Power(base, w) \in Nat
      BY <2>1, PowerNext, PowerType
    <3>3. v \div base < Power(base, w) /\ v \div base \in Nat
      BY <3>2, DivLess, DivMod
    <3>4. Number(Digits(v \div base, base, w), base) = v \div base
      BY <1>2, <3>3 DEF S
    <3>5. Number(d, base) = Number(Tail(d), base) * base + d[1]
      BY <3>1, NumberFirst
    <3>6. d[1] = v % base /\ Tail(d) = Digits(v \div base, base, w)
      BY DigitsFirst
    <3>7. Number(d, base) = ((v \div base) * base) + (v % base)
      BY <3>4, <3>5, <3>6
    <3>8. v = ((v \div base) * base) + (v % base)
      BY DivMod
    <3>. QED
      BY <3>7, <3>8
  <2>. QED
    BY <2>1 DEF S
<1>3. width \in S
  BY <1>1, <1>2, Induction
<1>. QED
  BY <1>3 DEF S

\* Digits are those of the number they make.
LEMMA DigitsOfNumber ==
  ASSUME NEW base \in Nat \ {0}, NEW d \in Seq(DigitValues(base))
  PROVE  /\ Number(d, base) \in Nat /\ Number(d, base) < Power(base, Len(d))
         /\ Digits(Number(d, base), base, Len(d)) = d
<1>. DEFINE Made(s) == /\ Number(s, base) \in Nat /\ Number(s, base) < Power(base, Len(s))
                       /\ Digits(Number(s, base), base, Len(s)) = s
            S == {w \in Nat : \A s \in Seq(DigitValues(base)) : Len(s) = w => Made(s)}
<1>. HIDE DEF Made, S
<1>0. DigitValues(base) \subseteq Nat
  BY DEF DigitValues
<1>1. 0 \in S
  <2>1. ASSUME NEW s \in Seq(DigitValues(base)), Len(s) = 0 PROVE Made(s)
    <3>1. s = <<>> /\ s \in Seq(Nat)
      BY <1>0, <2>1
    <3>2. Number(s, base) = 0 /\ Power(base, 0) = 1
      BY <3>1, NumberFirst, PowerNext
    <3>3. Digits(0, base, 0) = <<>>
      BY DigitsType
    <3>. QED
      BY <2>1, <3>1, <3>2, <3>3 DEF Made
  <2>. QED
    BY <2>1 DEF S
<1>2. ASSUME NEW w \in Nat, w \in S PROVE w + 1 \in S
  <2>1. ASSUME NEW s \in Seq(DigitValues(base)), Len(s) = w + 1 PROVE Made(s)
    <3>. DEFINE t == Tail(s)
                n == Number(t, base)
                v == Number(s, base)
    <3>1. t \in Seq(DigitValues(base)) /\ Len(t) = w /\ s # <<>> /\ s[1] \in DigitValues(base)
          /\ \A i \in 1..w : t[i] = s[i + 1]
      BY <2>1
    <3>2. Made(t)
      BY <1>2, <3>1 DEF S
    <3>3. s \in Seq(Nat)
      BY <1>0
    <3>4. v = n * base + s[1]
      BY <3>1, <3>3, NumberFirst
    <3>5. n \in Nat /\ n < Power(base, w) /\ Digits(n, base, w) = t
      BY <3>1, <3>2 DEF Made
    <3>. HIDE DEF n, v, t
    <3>6. v \div base = n /\ v % base = s[1]
      BY <3>1, <3>4, <3>5, DivUnique DEF DigitValues
    <3>7. v < Power(base, w) * base /\ v \in Nat
      <4>1. Power(base, w) \in Nat /\ s[1] \in 0..(base - 1)
        BY <3>1, PowerType DEF DigitValues
      <4>2. n * base + s[1] < Power(base, w) * base
        BY <3>5, <4>1, ProductLess
      <4>3. n * base + s[1] \in Nat
        BY <3>5, <4>1, ProductType
      <4>. QED
        BY <3>4, <4>2, <4>3
    <3>8. v < Power(base, w + 1)
      BY <3>7, PowerNext
    <3>. DEFINE u == Digits(v, base, w + 1)
    <3>9. u[1] = s[1] /\ Tail(u) = t
      BY <3>5, <3>6, <3>7, DigitsFirst
    <3>10. u \in Seq(DigitValues(base)) /\ Len(u) = w + 1
      BY <3>7, DigitsType
    <3>. HIDE DEF u
    <3>11. ASSUME NEW i \in 1..(w + 1) PROVE u[i] = s[i]
      <4>1. CASE i = 1
        BY <3>9, <4>1
      <4>2. CASE i # 1
        <5>1. i - 1 \in 1..w /\ (i - 1) + 1 = i
          BY <4>2
        <5>2. Tail(u)[i - 1] = u[(i - 1) + 1]
          BY <3>10, <5>1
        <5>3. t[i - 1] = s[(i - 1) + 1]
          BY <3>1, <5>1
        <5>. QED
          BY <3>9, <5>1, <5>2, <5>3
      <4>. QED
        BY <4>1, <4>2
    <3>12. u = s
      BY <2>1, <3>10, <3>11, SeqEqual
    <3>. QED
      BY <2>1, <3>7, <3>8, <3>12 DEF Made, u, v
  <2>. QED
    BY <2>1 DEF S
<1>3. Len(d) \in S
  BY <1>1, <1>2, Induction
<1>. QED
  BY <1>3 DEF S, Made

-----------------------------------------------------------------------------
(* Integers in bytes, and words in bits *)

LEMMA ByteFacts ==
  /\ Bits \in Nat \ {0} /\ Byte \in Nat \ {0} /\ ByteValues = DigitValues(Byte)
  /\ ByteValues \subseteq Nat /\ 0 \in ByteValues /\ Mark \in ByteValues
<1>1. Bits \in Nat \ {0} /\ Bits - 1 \in Nat /\ (Bits - 1) + 1 = Bits
  BY CodecAssumption
<1>2. Byte \in Nat \ {0} /\ Mark \in Nat \ {0}
  BY <1>1, PowerType DEF Byte, Mark
<1>3. Power(2, (Bits - 1) + 1) = Power(2, Bits - 1) * 2
  BY <1>1, PowerNext
<1>4. Byte = Mark * 2
  BY <1>1, <1>3 DEF Byte, Mark
<1>5. Mark < Byte
  BY <1>2, <1>4
<1>. HIDE DEF Byte, Mark
<1>. QED
  BY <1>1, <1>2, <1>5 DEF ByteValues, DigitValues

LEMMA WidthFacts ==
  /\ W16 \in Nat \ {0} /\ W32 \in Nat \ {0} /\ W64 \in Nat \ {0}
  /\ WordBits \in Nat \ {0} /\ Bits <= WordBits
<1>1. W16 \in Nat \ {0} /\ W32 \in Nat \ {0} /\ W64 \in Nat \ {0} /\ Bits \in Nat \ {0}
  BY CodecAssumption
<1>2. Bits * W32 \in Nat /\ Bits * W32 >= Bits
  BY <1>1
<1>. QED
  BY <1>1, <1>2 DEF WordBits

LEMMA UIntIs ==
  ASSUME NEW width \in Nat, NEW v
  PROVE  v \in UInt(width) <=> v \in Nat /\ v < Power(Byte, width)
<1>1. Power(Byte, width) \in Nat
  BY ByteFacts, PowerType
<1>. HIDE DEF Byte
<1>. QED
  BY <1>1 DEF UInt

LEMMA LittleEndian ==
  ASSUME NEW width \in Nat, NEW v \in Nat
  PROVE  /\ to_le(v, width) \in Seq(ByteValues) /\ Len(to_le(v, width)) = width
         /\ v \in UInt(width) => from_le(to_le(v, width)) = v
<1>1. to_le(v, width) \in Seq(ByteValues) /\ Len(to_le(v, width)) = width
  BY ByteFacts, DigitsType, ZenonT(30) DEF to_le
<1>2. ASSUME v \in UInt(width) PROVE from_le(to_le(v, width)) = v
  BY <1>2, UIntIs, ByteFacts, NumberOfDigits DEF to_le, from_le
<1>. QED
  BY <1>1, <1>2

LEMMA FromLittleEndian ==
  ASSUME NEW bytes \in Seq(ByteValues)
  PROVE  /\ from_le(bytes) \in UInt(Len(bytes)) /\ from_le(bytes) \in Nat
         /\ to_le(from_le(bytes), Len(bytes)) = bytes
<1>1. bytes \in Seq(DigitValues(Byte)) /\ Len(bytes) \in Nat
  BY ByteFacts
<1>. QED
  BY <1>1, ByteFacts, UIntIs, DigitsOfNumber DEF to_le, from_le

Bit == {0, 1}

LEMMA WordIs ==
  ASSUME NEW w
  PROVE  /\ w \in Word => w \in Seq(DigitValues(2)) /\ Len(w) = WordBits
         /\ w \in Word => \A i \in 1..WordBits : w[i] \in Bit
<1>1. DigitValues(2) = {0, 1}
  BY DEF DigitValues
<1>2. WordBits \in Nat
  BY WidthFacts
<1>. HIDE DEF WordBits
<1>. QED
  BY <1>1, <1>2 DEF Word, Bit

\* A word is equal to another if its bits are.
LEMMA WordEqual ==
  ASSUME NEW a \in Word, NEW b \in Word, \A i \in 1..WordBits : a[i] = b[i]
  PROVE  a = b
<1>. HIDE DEF WordBits
<1>1. a = [i \in 1..WordBits |-> a[i]] /\ b = [i \in 1..WordBits |-> b[i]]
  BY DEF Word
<1>. QED
  BY <1>1

LEMMA ToWordType ==
  ASSUME NEW v \in Nat
  PROVE  ToWord(v) \in Word
<1>1. DigitValues(2) = {0, 1} /\ WordBits \in Nat
  BY WidthFacts DEF DigitValues
<1>2. Digits(v, 2, WordBits) \in [1..WordBits -> DigitValues(2)]
  BY <1>1, DigitsType
<1>. QED
  BY <1>1, <1>2 DEF ToWord, Word

LEMMA XorFacts ==
  ASSUME NEW a \in Word, NEW b \in Word
  PROVE  /\ Xor(a, b) \in Word
         /\ \A i \in 1..WordBits : Xor(a, b)[i] = IF a[i] = b[i] THEN 0 ELSE 1
<1>1. \A i \in 1..WordBits : a[i] \in Bit /\ b[i] \in Bit
  BY WordIs
<1>2. \A x, y \in Bit : (x + y) % 2 = IF x = y THEN 0 ELSE 1
  BY DEF Bit
<1>3. \A i \in 1..WordBits : Xor(a, b)[i] = IF a[i] = b[i] THEN 0 ELSE 1
  BY <1>1, <1>2 DEF Xor
<1>4. Xor(a, b) = [i \in 1..WordBits |-> Xor(a, b)[i]]
  BY DEF Xor
<1>. QED
  BY <1>3, <1>4 DEF Word

LEMMA ShiftFacts ==
  ASSUME NEW a \in Word, NEW n \in Nat
  PROVE  /\ ShiftRight(a, n) \in Word
         /\ \A i \in 1..WordBits :
              ShiftRight(a, n)[i] = IF i + n <= WordBits THEN a[i + n] ELSE 0
<1>1. WordBits \in Nat
  BY WidthFacts
<1>2. \A i \in 1..WordBits : a[i] \in Bit
  BY WordIs
<1>. HIDE DEF WordBits
<1>3. ASSUME NEW i \in 1..WordBits
      PROVE  ShiftRight(a, n)[i] = IF i + n <= WordBits THEN a[i + n] ELSE 0
  BY DEF ShiftRight
<1>4. ASSUME NEW i \in 1..WordBits PROVE ShiftRight(a, n)[i] \in Bit
  <2>1. i + n <= WordBits => i + n \in 1..WordBits
    BY <1>1
  <2>. QED
    BY <1>2, <1>3, <2>1 DEF Bit
<1>5. ShiftRight(a, n) = [i \in 1..WordBits |-> ShiftRight(a, n)[i]]
  BY DEF ShiftRight
<1>. QED
  BY <1>3, <1>4, <1>5 DEF Word, Bit

LEMMA LowByteFacts ==
  ASSUME NEW a \in Word
  PROVE  /\ LowByte(a) \in Word
         /\ \A i \in 1..WordBits : LowByte(a)[i] = IF i <= Bits THEN a[i] ELSE 0
<1>1. \A i \in 1..WordBits : a[i] \in Bit
  BY WordIs
<1>2. \A i \in 1..WordBits : LowByte(a)[i] = IF i <= Bits THEN a[i] ELSE 0
  BY DEF LowByte
<1>3. LowByte(a) = [i \in 1..WordBits |-> LowByte(a)[i]]
  BY DEF LowByte
<1>. QED
  BY <1>1, <1>2, <1>3 DEF Word, Bit

LEMMA PolyFacts == ToWord(Poly) \in Word /\ ToWord(Poly)[WordBits] = 1
<1>1. Poly \in Nat
  BY CodecAssumption, UIntIs, WidthFacts
<1>. QED
  BY <1>1, ToWordType, CodecAssumption

\* One bit shifted out: the top bit tells which it was, so that the rest can be told too.
LEMMA ShiftOutFacts ==
  ASSUME NEW a \in Word
  PROVE  /\ ShiftOut(a) \in Word
         /\ ShiftOut(a)[WordBits] = a[1]
         /\ \A i \in 1..(WordBits - 1) :
              ShiftOut(a)[i] = IF a[1] = 1 /\ ToWord(Poly)[i] = 1 THEN 1 - a[i + 1] ELSE a[i + 1]
<1>1. WordBits \in Nat \ {0} /\ 1 \in 1..WordBits /\ WordBits \in 1..WordBits /\ ~(WordBits + 1 <= WordBits)
  BY WidthFacts
<1>. HIDE DEF WordBits
<1>. DEFINE r == ShiftRight(a, 1)
            p == ToWord(Poly)
<1>2. r \in Word /\ \A i \in 1..WordBits : r[i] = IF i + 1 <= WordBits THEN a[i + 1] ELSE 0
  BY ShiftFacts
<1>3. p \in Word /\ p[WordBits] = 1
  BY PolyFacts
<1>. HIDE DEF r, p
<1>4. Xor(r, p) \in Word /\ \A i \in 1..WordBits : Xor(r, p)[i] = IF r[i] = p[i] THEN 0 ELSE 1
  BY <1>2, <1>3, XorFacts
<1>5. ShiftOut(a) = IF a[1] = 1 THEN Xor(r, p) ELSE r
  BY DEF ShiftOut, r, p
<1>6. a[1] \in Bit /\ \A i \in 1..WordBits : a[i] \in Bit /\ p[i] \in Bit
  BY <1>1, <1>3, WordIs
<1>7. ShiftOut(a)[WordBits] = a[1]
  <2>1. r[WordBits] = 0
    BY <1>1, <1>2
  <2>2. Xor(r, p)[WordBits] = 1
    BY <1>1, <1>3, <1>4, <2>1
  <2>. QED
    BY <1>5, <1>6, <2>1, <2>2 DEF Bit
<1>8. ASSUME NEW i \in 1..(WordBits - 1)
      PROVE  ShiftOut(a)[i] = IF a[1] = 1 /\ p[i] = 1 THEN 1 - a[i + 1] ELSE a[i + 1]
  <2>1. i \in 1..WordBits /\ i + 1 \in 1..WordBits /\ i + 1 <= WordBits
    BY <1>1
  <2>2. r[i] = a[i + 1] /\ a[i + 1] \in Bit /\ p[i] \in Bit
    BY <1>2, <1>6, <2>1
  <2>3. Xor(r, p)[i] = IF a[i + 1] = p[i] THEN 0 ELSE 1
    BY <1>4, <2>1, <2>2
  <2>. QED
    BY <1>5, <2>2, <2>3 DEF Bit
<1>9. ShiftOut(a) \in Word
  BY <1>2, <1>4, <1>5
<1>. QED
  BY <1>7, <1>8, <1>9 DEF p

LEMMA ShiftOutInjective ==
  ASSUME NEW a \in Word, NEW b \in Word, ShiftOut(a) = ShiftOut(b)
  PROVE  a = b
<1>1. WordBits \in Nat \ {0} /\ 1 \in 1..WordBits
  BY WidthFacts
<1>. HIDE DEF WordBits
<1>2. a[1] = b[1]
  BY ShiftOutFacts
<1>3. ASSUME NEW i \in 1..WordBits, i # 1 PROVE a[i] = b[i]
  <2>1. i - 1 \in 1..(WordBits - 1) /\ (i - 1) + 1 = i
    BY <1>1, <1>3
  <2>2. /\ ShiftOut(a)[i - 1] = IF a[1] = 1 /\ ToWord(Poly)[i - 1] = 1 THEN 1 - a[i] ELSE a[i]
        /\ ShiftOut(b)[i - 1] = IF b[1] = 1 /\ ToWord(Poly)[i - 1] = 1 THEN 1 - b[i] ELSE b[i]
    BY <2>1, ShiftOutFacts
  <2>3. a[i] \in Bit /\ b[i] \in Bit
    BY WordIs
  <2>. QED
    BY <1>2, <2>2, <2>3 DEF Bit
<1>4. \A i \in 1..WordBits : a[i] = b[i]
  BY <1>2, <1>3
<1>. QED
  BY <1>4, WordEqual

-----------------------------------------------------------------------------
(* The CRC *)

BitStep == [crc \in Word |-> ShiftOut(crc)]

LEMMA BitStepFacts ==
  ASSUME NEW a \in Word, NEW n \in Nat
  PROVE  /\ Iterated(BitStep, a, n) \in Word
         /\ Iterated(BitStep, a, 0) = a
         /\ Iterated(BitStep, a, n + 1) = ShiftOut(Iterated(BitStep, a, n))
<1>1. \A x \in Word : BitStep[x] = ShiftOut(x) /\ BitStep[x] \in Word
  BY ShiftOutFacts DEF BitStep
<1>2. Iterated(BitStep, a, n) \in Word
  BY <1>1, IteratedType
<1>3. /\ Iterated(BitStep, a, 0) = a
      /\ Iterated(BitStep, a, n + 1) = BitStep[Iterated(BitStep, a, n)]
  BY IteratedNext
<1>. QED
  BY <1>1, <1>2, <1>3

LEMMA BitStepInjective ==
  ASSUME NEW a \in Word, NEW b \in Word, NEW n \in Nat,
         Iterated(BitStep, a, n) = Iterated(BitStep, b, n)
  PROVE  a = b
<1>. DEFINE S == {k \in Nat : Iterated(BitStep, a, k) = Iterated(BitStep, b, k) => a = b}
<1>1. 0 \in S
  BY BitStepFacts
<1>2. ASSUME NEW k \in Nat, k \in S PROVE k + 1 \in S
  <2>1. /\ Iterated(BitStep, a, k) \in Word /\ Iterated(BitStep, b, k) \in Word
        /\ Iterated(BitStep, a, k + 1) = ShiftOut(Iterated(BitStep, a, k))
        /\ Iterated(BitStep, b, k + 1) = ShiftOut(Iterated(BitStep, b, k))
    BY BitStepFacts
  <2>2. ASSUME Iterated(BitStep, a, k + 1) = Iterated(BitStep, b, k + 1) PROVE a = b
    <3>1. Iterated(BitStep, a, k) = Iterated(BitStep, b, k)
      BY <2>1, <2>2, ShiftOutInjective
    <3>. QED
      BY <1>2, <3>1
  <2>. QED
    BY <2>2
<1>. HIDE DEF S
<1>3. n \in S
  BY <1>1, <1>2, Induction
<1>. QED
  BY <1>3 DEF S

\* What is shifted in from above does not change which bits the polynomial is added for.
LEMMA ShiftOutXor ==
  ASSUME NEW a \in Word, NEW b \in Word, b[1] = 0
  PROVE  ShiftOut(Xor(a, b)) = Xor(ShiftOut(a), ShiftRight(b, 1))
<1>1. WordBits \in Nat \ {0} /\ 1 \in 1..WordBits /\ WordBits \in 1..WordBits /\ ~(WordBits + 1 <= WordBits)
  BY WidthFacts
<1>. HIDE DEF WordBits
<1>. DEFINE x == Xor(a, b)
            s == ShiftRight(b, 1)
            y == Xor(ShiftOut(a), s)
<1>2. x \in Word /\ \A i \in 1..WordBits : x[i] = IF a[i] = b[i] THEN 0 ELSE 1
  BY XorFacts
<1>3. s \in Word /\ \A i \in 1..WordBits : s[i] = IF i + 1 <= WordBits THEN b[i + 1] ELSE 0
  BY ShiftFacts
<1>4. ShiftOut(a) \in Word
  BY ShiftOutFacts
<1>. HIDE DEF x, s
<1>5. y \in Word /\ \A i \in 1..WordBits : y[i] = IF ShiftOut(a)[i] = s[i] THEN 0 ELSE 1
  BY <1>3, <1>4, XorFacts
<1>. HIDE DEF y
<1>6. \A i \in 1..WordBits : a[i] \in Bit /\ b[i] \in Bit /\ ToWord(Poly)[i] \in Bit
  BY WordIs, PolyFacts
<1>7. x[1] = a[1]
  BY <1>1, <1>2, <1>6 DEF Bit
<1>8. ShiftOut(x) \in Word
  BY <1>2, ShiftOutFacts
<1>9. ASSUME NEW i \in 1..WordBits PROVE ShiftOut(x)[i] = y[i]
  <2>1. CASE i = WordBits
    <3>1. ShiftOut(x)[i] = a[1] /\ ShiftOut(a)[i] = a[1]
      BY <1>2, <1>7, <2>1, ShiftOutFacts
    <3>2. s[i] = 0 /\ a[1] \in Bit
      BY <1>1, <1>3, <1>6, <2>1
    <3>. QED
      BY <1>5, <3>1, <3>2 DEF Bit
  <2>2. CASE i # WordBits
    <3>1. i \in 1..(WordBits - 1) /\ i + 1 \in 1..WordBits /\ i + 1 <= WordBits
      BY <1>1, <2>2
    <3>2. ShiftOut(x)[i] = IF x[1] = 1 /\ ToWord(Poly)[i] = 1 THEN 1 - x[i + 1] ELSE x[i + 1]
      BY <1>2, <3>1, ShiftOutFacts
    <3>3. ShiftOut(a)[i] = IF a[1] = 1 /\ ToWord(Poly)[i] = 1 THEN 1 - a[i + 1] ELSE a[i + 1]
      BY <3>1, ShiftOutFacts
    <3>4. s[i] = b[i + 1] /\ x[i + 1] = IF a[i + 1] = b[i + 1] THEN 0 ELSE 1
      BY <1>2, <1>3, <3>1
    <3>5. a[i + 1] \in Bit /\ b[i + 1] \in Bit
      BY <1>6, <3>1
    <3>6. y[i] = IF ShiftOut(a)[i] = s[i] THEN 0 ELSE 1
      BY <1>5
    <3>. QED
      BY <1>7, <3>2, <3>3, <3>4, <3>5, <3>6 DEF Bit
  <2>. QED
    BY <2>1, <2>2
<1>10. ShiftOut(x) = y
  BY <1>5, <1>8, <1>9, WordEqual
<1>. QED
  BY <1>10 DEF x, y, s

HighBytes(a) == [i \in 1..WordBits |-> IF i <= Bits THEN 0 ELSE a[i]]

LEMMA HighBytesFacts ==
  ASSUME NEW a \in Word
  PROVE  /\ HighBytes(a) \in Word
         /\ \A i \in 1..WordBits : HighBytes(a)[i] = IF i <= Bits THEN 0 ELSE a[i]
         /\ Xor(LowByte(a), HighBytes(a)) = a
         /\ ShiftRight(HighBytes(a), Bits) = ShiftRight(a, Bits)
<1>0. Bits \in Nat \ {0} /\ WordBits \in Nat
  BY ByteFacts, WidthFacts
<1>. HIDE DEF WordBits
<1>1. \A i \in 1..WordBits : a[i] \in Bit
  BY WordIs
<1>2. \A i \in 1..WordBits : HighBytes(a)[i] = IF i <= Bits THEN 0 ELSE a[i]
  BY DEF HighBytes
<1>3. HighBytes(a) = [i \in 1..WordBits |-> HighBytes(a)[i]]
  BY DEF HighBytes
<1>4. HighBytes(a) \in Word
  BY <1>1, <1>2, <1>3 DEF Word, Bit
<1>5. LowByte(a) \in Word /\ \A i \in 1..WordBits : LowByte(a)[i] = IF i <= Bits THEN a[i] ELSE 0
  BY LowByteFacts
<1>. DEFINE x == Xor(LowByte(a), HighBytes(a))
            s == ShiftRight(HighBytes(a), Bits)
            t == ShiftRight(a, Bits)
<1>6. x \in Word /\ \A i \in 1..WordBits : x[i] = IF LowByte(a)[i] = HighBytes(a)[i] THEN 0 ELSE 1
  BY <1>4, <1>5, XorFacts
<1>7. x = a
  <2>. HIDE DEF x
  <2>1. ASSUME NEW i \in 1..WordBits PROVE x[i] = a[i]
    <3>1. /\ x[i] = IF LowByte(a)[i] = HighBytes(a)[i] THEN 0 ELSE 1
          /\ LowByte(a)[i] = IF i <= Bits THEN a[i] ELSE 0
          /\ HighBytes(a)[i] = IF i <= Bits THEN 0 ELSE a[i]
          /\ a[i] \in Bit
      BY <1>1, <1>2, <1>5, <1>6
    <3>. QED
      BY <3>1 DEF Bit
  <2>. QED
    BY <1>6, <2>1, WordEqual
<1>8. s \in Word /\ \A i \in 1..WordBits : s[i] = IF i + Bits <= WordBits THEN HighBytes(a)[i + Bits] ELSE 0
  BY <1>0, <1>4, ShiftFacts
<1>9. t \in Word /\ \A i \in 1..WordBits : t[i] = IF i + Bits <= WordBits THEN a[i + Bits] ELSE 0
  BY <1>0, ShiftFacts
<1>. HIDE DEF s, t
<1>10. ASSUME NEW i \in 1..WordBits PROVE s[i] = t[i]
  <2>1. i + Bits <= WordBits => i + Bits \in 1..WordBits /\ ~(i + Bits <= Bits)
    BY <1>0
  <2>. QED
    BY <1>2, <1>8, <1>9, <2>1
<1>11. s = t
  BY <1>8, <1>9, <1>10, WordEqual
<1>. QED
  BY <1>2, <1>4, <1>7, <1>11 DEF x, s, t

\* Bits above the lowest byte are only shifted while the byte is shifted out.
LEMMA BitByBit ==
  ASSUME NEW a \in Word
  PROVE  Iterated(BitStep, a, Bits) =
           Xor(ShiftRight(a, Bits), Iterated(BitStep, LowByte(a), Bits))
<1>. DEFINE h == HighBytes(a)
            l == LowByte(a)
            S == {k \in Nat : k <= Bits =>
                    Iterated(BitStep, a, k) = Xor(Iterated(BitStep, l, k), ShiftRight(h, k))}
<1>0. Bits \in Nat \ {0} /\ Bits <= WordBits /\ WordBits \in Nat \ {0} /\ 1 \in 1..WordBits
  BY ByteFacts, WidthFacts
<1>1. h \in Word /\ Xor(l, h) = a /\ ShiftRight(h, Bits) = ShiftRight(a, Bits)
      /\ \A i \in 1..WordBits : i <= Bits => h[i] = 0
  BY HighBytesFacts
<1>2. l \in Word
  BY LowByteFacts
<1>. HIDE DEF h, l, WordBits
<1>3. 0 \in S
  <2>. DEFINE z == ShiftRight(h, 0)
  <2>1. z \in Word /\ \A i \in 1..WordBits : z[i] = IF i + 0 <= WordBits THEN h[i + 0] ELSE 0
    BY <1>1, ShiftFacts
  <2>. HIDE DEF z
  <2>2. \A i \in 1..WordBits : z[i] = h[i]
    BY <1>0, <2>1
  <2>3. z = h
    BY <1>1, <2>1, <2>2, WordEqual
  <2>4. Iterated(BitStep, a, 0) = a /\ Iterated(BitStep, l, 0) = l
    BY <1>2, BitStepFacts
  <2>. QED
    BY <1>1, <2>3, <2>4 DEF z
<1>4. ASSUME NEW k \in Nat, k \in S PROVE k + 1 \in S
  <2>1. SUFFICES ASSUME k + 1 <= Bits
                 PROVE  Iterated(BitStep, a, k + 1) = Xor(Iterated(BitStep, l, k + 1), ShiftRight(h, k + 1))
    OBVIOUS
  <2>. DEFINE c == Iterated(BitStep, l, k)
              s == ShiftRight(h, k)
              t == ShiftRight(s, 1)
              u == ShiftRight(h, k + 1)
  <2>2. Iterated(BitStep, a, k) = Xor(c, s)
    BY <1>0, <1>4, <2>1
  <2>3. c \in Word /\ Iterated(BitStep, l, k + 1) = ShiftOut(c)
    BY <1>2, BitStepFacts
  <2>4. s \in Word /\ \A i \in 1..WordBits : s[i] = IF i + k <= WordBits THEN h[i + k] ELSE 0
    BY <1>1, ShiftFacts
  <2>. HIDE DEF c, s
  <2>5. s[1] = 0
    <3>1. 1 + k \in 1..WordBits /\ 1 + k <= Bits
      BY <1>0, <2>1
    <3>. QED
      BY <1>0, <1>1, <2>4, <3>1
  <2>6. ShiftOut(Xor(c, s)) = Xor(ShiftOut(c), t)
    BY <2>3, <2>4, <2>5, ShiftOutXor
  <2>7. t \in Word /\ \A i \in 1..WordBits : t[i] = IF i + 1 <= WordBits THEN s[i + 1] ELSE 0
    BY <2>4, ShiftFacts
  <2>8. u \in Word /\ \A i \in 1..WordBits : u[i] = IF i + (k + 1) <= WordBits THEN h[i + (k + 1)] ELSE 0
    BY <1>1, ShiftFacts
  <2>. HIDE DEF t, u
  <2>9. ASSUME NEW i \in 1..WordBits PROVE t[i] = u[i]
    <3>1. CASE i + 1 <= WordBits
      <4>1. i + 1 \in 1..WordBits /\ (i + 1) + k = i + (k + 1)
        BY <1>0, <3>1
      <4>2. s[i + 1] = IF (i + 1) + k <= WordBits THEN h[(i + 1) + k] ELSE 0
        BY <2>4, <4>1
      <4>. QED
        BY <2>7, <2>8, <3>1, <4>1, <4>2
    <3>2. CASE ~(i + 1 <= WordBits)
      <4>1. ~(i + (k + 1) <= WordBits)
        BY <1>0, <3>2
      <4>. QED
        BY <2>7, <2>8, <3>2, <4>1
    <3>. QED
      BY <3>1, <3>2
  <2>10. t = u
    BY <2>7, <2>8, <2>9, WordEqual
  <2>11. Iterated(BitStep, a, k + 1) = ShiftOut(Xor(c, s))
    BY <2>2, BitStepFacts
  <2>. QED
    BY <2>3, <2>6, <2>10, <2>11 DEF u
<1>. HIDE DEF S
<1>5. Bits \in S
  BY <1>0, <1>3, <1>4, Induction
<1>6. Iterated(BitStep, a, Bits) = Xor(Iterated(BitStep, l, Bits), ShiftRight(a, Bits))
  BY <1>0, <1>1, <1>5 DEF S
<1>. DEFINE c == Iterated(BitStep, l, Bits)
            s == ShiftRight(a, Bits)
            y == Xor(c, s)
            z == Xor(s, c)
<1>7. c \in Word /\ s \in Word
  BY <1>0, <1>2, BitStepFacts, ShiftFacts
<1>. HIDE DEF c, s
<1>8. y \in Word /\ \A i \in 1..WordBits : y[i] = IF c[i] = s[i] THEN 0 ELSE 1
  BY <1>7, XorFacts
<1>9. z \in Word /\ \A i \in 1..WordBits : z[i] = IF s[i] = c[i] THEN 0 ELSE 1
  BY <1>7, XorFacts
<1>. HIDE DEF y, z
<1>10. y = z
  BY <1>8, <1>9, WordEqual
<1>. QED
  BY <1>6, <1>10 DEF y, z, c, s, l


LEMMA ByteWord ==
  ASSUME NEW b \in ByteValues
  PROVE  /\ ToWord(b) \in Word
         /\ \A i \in 1..WordBits : i > Bits => ToWord(b)[i] = 0
         /\ Number(ToWord(b), 2) = b
<1>0. Bits \in Nat \ {0} /\ WordBits \in Nat /\ Bits <= WordBits
  BY ByteFacts, WidthFacts
<1>. HIDE DEF WordBits
<1>1. b \in Nat /\ b < Power(2, Bits)
  <2>1. Byte \in Nat
    BY ByteFacts
  <2>2. b \in Nat /\ b < Byte
    BY <2>1 DEF ByteValues
  <2>. QED
    BY <2>2 DEF Byte
<1>2. ToWord(b) \in Word
  BY <1>1, ToWordType
<1>3. ASSUME NEW i \in 1..WordBits, i > Bits PROVE ToWord(b)[i] = 0
  <2>. DEFINE more == (i - 1) - Bits
  <2>1. more \in Nat /\ Bits + more = i - 1
    BY <1>0, <1>3
  <2>. HIDE DEF more
  <2>2. Shifted(b, 2, Bits + more) = 0
    BY <1>0, <1>1, <2>1, ShiftedAway
  <2>3. ToWord(b)[i] = Shifted(b, 2, i - 1) % 2
    BY DEF ToWord, Digits
  <2>. QED
    BY <2>1, <2>2, <2>3
<1>4. b < Power(2, WordBits)
  <2>. DEFINE rest == WordBits - Bits
  <2>1. rest \in Nat /\ Bits + rest = WordBits
    BY <1>0
  <2>. HIDE DEF rest
  <2>2. Power(2, Bits + rest) = Power(2, Bits) * Power(2, rest)
    BY <1>0, <2>1, PowerSum
  <2>3. Power(2, Bits) \in Nat \ {0} /\ Power(2, rest) \in Nat \ {0}
    BY <1>0, <2>1, PowerType
  <2>4. \A x, y \in Nat \ {0} : x <= x * y
    OBVIOUS
  <2>. QED
    BY <1>1, <2>1, <2>2, <2>3, <2>4
<1>5. Number(ToWord(b), 2) = b
  BY <1>0, <1>1, <1>4, NumberOfDigits DEF ToWord
<1>. QED
  BY <1>2, <1>3, <1>5

LEMMA XorInjective ==
  ASSUME NEW a \in Word, NEW b \in Word, NEW c \in Word
  PROVE  (Xor(a, c) = Xor(b, c) \/ Xor(c, a) = Xor(c, b)) => a = b
<1>1. SUFFICES ASSUME Xor(a, c) = Xor(b, c) \/ Xor(c, a) = Xor(c, b)
               PROVE  a = b
  OBVIOUS
<1>. DEFINE s == Xor(a, c)
            t == Xor(b, c)
            u == Xor(c, a)
            v == Xor(c, b)
<1>2. /\ \A i \in 1..WordBits : s[i] = IF a[i] = c[i] THEN 0 ELSE 1
      /\ \A i \in 1..WordBits : t[i] = IF b[i] = c[i] THEN 0 ELSE 1
      /\ \A i \in 1..WordBits : u[i] = IF c[i] = a[i] THEN 0 ELSE 1
      /\ \A i \in 1..WordBits : v[i] = IF c[i] = b[i] THEN 0 ELSE 1
  BY XorFacts
<1>3. s = t \/ u = v
  BY <1>1
<1>. HIDE DEF s, t, u, v
<1>4. ASSUME NEW i \in 1..WordBits PROVE a[i] = b[i]
  <2>1. a[i] \in Bit /\ b[i] \in Bit /\ c[i] \in Bit
    BY WordIs
  <2>. QED
    BY <1>2, <1>3, <2>1 DEF Bit
<1>. QED
  BY <1>4, WordEqual

\* The table, filled with what a byte shifted out leaves, stands for shifting it out
\* (crc32_table_entry, Crc32::update).
THEOREM TableIsBitwise ==
  \A crc \in Word, byte \in ByteValues :
    Crc32Update(crc, byte) = Iterated(BitStep, Xor(crc, ToWord(byte)), Bits)
<1>1. SUFFICES ASSUME NEW crc \in Word, NEW byte \in ByteValues
               PROVE  Crc32Update(crc, byte) = Iterated(BitStep, Xor(crc, ToWord(byte)), Bits)
  OBVIOUS
<1>0. Bits \in Nat \ {0} /\ WordBits \in Nat
  BY ByteFacts, WidthFacts
<1>. DEFINE w == ToWord(byte)
            x == Xor(crc, w)
            s == ShiftRight(crc, Bits)
            t == ShiftRight(x, Bits)
<1>2. w \in Word /\ \A i \in 1..WordBits : i > Bits => w[i] = 0
  BY ByteWord
<1>. HIDE DEF w, WordBits
<1>3. x \in Word /\ \A i \in 1..WordBits : x[i] = IF crc[i] = w[i] THEN 0 ELSE 1
  BY <1>2, XorFacts
<1>. HIDE DEF x
<1>4. /\ s \in Word /\ \A i \in 1..WordBits : s[i] = IF i + Bits <= WordBits THEN crc[i + Bits] ELSE 0
      /\ t \in Word /\ \A i \in 1..WordBits : t[i] = IF i + Bits <= WordBits THEN x[i + Bits] ELSE 0
  BY <1>0, <1>3, ShiftFacts
<1>. HIDE DEF s, t
<1>5. ASSUME NEW i \in 1..WordBits PROVE s[i] = t[i]
  <2>1. ASSUME i + Bits <= WordBits PROVE x[i + Bits] = crc[i + Bits]
    <3>1. i + Bits \in 1..WordBits /\ i + Bits > Bits
      BY <1>0, <2>1
    <3>2. crc[i + Bits] \in Bit /\ w[i + Bits] = 0
      BY <1>2, <3>1, WordIs
    <3>. QED
      BY <1>3, <3>1, <3>2 DEF Bit
  <2>. QED
    BY <1>4, <2>1
<1>6. s = t
  BY <1>4, <1>5, WordEqual
<1>7. Iterated(BitStep, x, Bits) = Xor(t, Iterated(BitStep, LowByte(x), Bits))
  BY <1>3, BitByBit DEF t
<1>8. crc32_table_entry(LowByte(x)) = Iterated(BitStep, LowByte(x), Bits)
  BY DEF crc32_table_entry, BitStep
<1>9. Crc32Update(crc, byte) = Xor(s, crc32_table_entry(LowByte(x)))
  BY DEF Crc32Update, s, x, w
<1>. QED
  BY <1>6, <1>7, <1>8, <1>9 DEF x, w

LEMMA UpdateFacts ==
  ASSUME NEW crc \in Word, NEW byte \in ByteValues
  PROVE  /\ Crc32Update(crc, byte) \in Word
         /\ \A other \in Word : Crc32Update(crc, byte) = Crc32Update(other, byte) => crc = other
         /\ \A other \in ByteValues : Crc32Update(crc, byte) = Crc32Update(crc, other) => byte = other
<1>0. Bits \in Nat
  BY ByteFacts
<1>1. \A b \in ByteValues : ToWord(b) \in Word /\ Number(ToWord(b), 2) = b
  BY ByteWord
<1>2. \A c \in Word, b \in ByteValues : Xor(c, ToWord(b)) \in Word
  BY <1>1, XorFacts
<1>3. Crc32Update(crc, byte) \in Word
  BY <1>0, <1>2, TableIsBitwise, BitStepFacts
<1>4. ASSUME NEW other \in Word, Crc32Update(crc, byte) = Crc32Update(other, byte)
      PROVE  crc = other
  <2>1. Iterated(BitStep, Xor(crc, ToWord(byte)), Bits) = Iterated(BitStep, Xor(other, ToWord(byte)), Bits)
    BY <1>4, TableIsBitwise
  <2>2. Xor(crc, ToWord(byte)) \in Word /\ Xor(other, ToWord(byte)) \in Word
    BY <1>2
  <2>3. Xor(crc, ToWord(byte)) = Xor(other, ToWord(byte))
    BY <1>0, <2>1, <2>2, BitStepInjective
  <2>. QED
    BY <1>1, <2>3, XorInjective
<1>5. ASSUME NEW other \in ByteValues, Crc32Update(crc, byte) = Crc32Update(crc, other)
      PROVE  byte = other
  <2>1. Iterated(BitStep, Xor(crc, ToWord(byte)), Bits) = Iterated(BitStep, Xor(crc, ToWord(other)), Bits)
    BY <1>5, TableIsBitwise
  <2>2. Xor(crc, ToWord(byte)) \in Word /\ Xor(crc, ToWord(other)) \in Word
    BY <1>2
  <2>3. Xor(crc, ToWord(byte)) = Xor(crc, ToWord(other))
    BY <1>0, <2>1, <2>2, BitStepInjective
  <2>4. ToWord(byte) = ToWord(other)
    BY <1>1, <2>3, XorInjective
  <2>. QED
    BY <1>1, <2>4
<1>. QED
  BY <1>3, <1>4, <1>5

CrcStep == [p \in Word \X ByteValues |-> Crc32Update(p[1], p[2])]

Register(bytes) == Folded(CrcStep, Ones, bytes)

LEMMA OnesType == Ones \in Word
BY DEF Ones, Word

LEMMA RegisterFacts ==
  /\ \A bytes \in Seq(ByteValues) : Register(bytes) \in Word
  /\ \A bytes \in Seq(ByteValues), b \in ByteValues :
       Register(Append(bytes, b)) = Crc32Update(Register(bytes), b)
<1>1. \A c \in Word, b \in ByteValues : CrcStep[<<c, b>>] = Crc32Update(c, b)
  BY DEF CrcStep
<1>2. \A c \in Word, b \in ByteValues : CrcStep[<<c, b>>] \in Word
  <2>1. \A c \in Word, b \in ByteValues : Crc32Update(c, b) \in Word
    BY UpdateFacts
  <2>. QED
    BY <1>1, <2>1
<1>3. ASSUME NEW bytes \in Seq(ByteValues) PROVE Register(bytes) \in Word
  BY <1>2, OnesType, FoldedType DEF Register
<1>4. ASSUME NEW bytes \in Seq(ByteValues), NEW b \in ByteValues
      PROVE  Register(Append(bytes, b)) = Crc32Update(Register(bytes), b)
  <2>1. Register(Append(bytes, b)) = CrcStep[<<Register(bytes), b>>]
    BY FoldedAppend DEF Register
  <2>. QED
    BY <1>1, <1>3, <2>1
<1>. QED
  BY <1>3, <1>4

\* Sequences that differ in one place and nowhere else.
DifferAt(s, t, place) == s[place] # t[place] /\ \A j \in 1..Len(s) : j # place => s[j] = t[j]

LEMMA AppendedLast ==
  ASSUME NEW S, NEW s \in Seq(S), NEW e \in S
  PROVE  /\ Append(s, e)[Len(s) + 1] = e
         /\ \A j \in 1..Len(s) : Append(s, e)[j] = s[j]
OBVIOUS

LEMMA RegisterDiffers ==
  ASSUME NEW s \in Seq(ByteValues), NEW t \in Seq(ByteValues), Len(s) = Len(t),
         NEW place \in 1..Len(s), DifferAt(s, t, place)
  PROVE  Register(s) # Register(t)
<1>. DEFINE S == {n \in Nat : \A a, b \in Seq(ByteValues) :
                    Len(a) = n /\ Len(b) = n => \A i \in 1..n : DifferAt(a, b, i) => Register(a) # Register(b)}
<1>. HIDE DEF S
<1>1. 0 \in S
  BY DEF S
<1>2. ASSUME NEW n \in Nat, n \in S PROVE n + 1 \in S
  <2>1. SUFFICES ASSUME NEW a \in Seq(ByteValues), NEW b \in Seq(ByteValues),
                        Len(a) = n + 1, Len(b) = n + 1, NEW i \in 1..(n + 1), DifferAt(a, b, i)
                 PROVE  Register(a) # Register(b)
    BY DEF S
  <2>2. PICK c \in Seq(ByteValues), d \in ByteValues : a = Append(c, d) /\ Len(c) = n
    BY <2>1, LastOff
  <2>3. PICK e \in Seq(ByteValues), f \in ByteValues : b = Append(e, f) /\ Len(e) = n
    BY <2>1, LastOff
  <2>4. /\ a[n + 1] = d /\ b[n + 1] = f
        /\ \A j \in 1..n : a[j] = c[j] /\ b[j] = e[j]
    BY <2>2, <2>3, AppendedLast, SMTT(20)
  <2>5. /\ Register(a) = Crc32Update(Register(c), d) /\ Register(b) = Crc32Update(Register(e), f)
        /\ Register(c) \in Word /\ Register(e) \in Word
    BY <2>2, <2>3, RegisterFacts
  <2>6. CASE i = n + 1
    <3>1. d # f /\ \A j \in 1..n : c[j] = e[j]
      <4>1. \A j \in 1..n : j \in 1..(n + 1) /\ j # n + 1
        OBVIOUS
      <4>. QED
        BY <2>1, <2>4, <2>6, <4>1 DEF DifferAt
    <3>2. c = e
      BY <2>2, <2>3, <3>1, SeqEqual
    <3>. QED
      BY <2>5, <3>1, <3>2, UpdateFacts
  <2>7. CASE i \in 1..n
    <3>1. d = f
      <4>1. n + 1 \in 1..(n + 1) /\ n + 1 # i
        BY <2>7
      <4>. QED
        BY <2>1, <2>4, <4>1 DEF DifferAt
    <3>2. DifferAt(c, e, i)
      <4>1. \A j \in 1..n : j \in 1..(n + 1)
        OBVIOUS
      <4>. QED
        BY <2>1, <2>2, <2>4, <2>7, <4>1 DEF DifferAt
    <3>3. Register(c) # Register(e)
      BY <1>2, <2>2, <2>3, <2>7, <3>2 DEF S
    <3>. QED
      BY <2>5, <3>1, <3>3, UpdateFacts
  <2>8. i = n + 1 \/ i \in 1..n
    OBVIOUS
  <2>. QED
    BY <2>6, <2>7, <2>8
<1>3. Len(s) \in S
  BY <1>1, <1>2, Induction
<1>4. Len(s) \in Nat
  OBVIOUS
<1>. QED
  BY <1>3, <1>4 DEF S

LEMMA CrcIs ==
  ASSUME NEW bytes \in Seq(ByteValues)
  PROVE  crc32(bytes) = Number(Xor(Register(bytes), Ones), 2) /\ crc32(bytes) \in UInt(W32)
<1>1. crc32(bytes) = Number(Xor(Register(bytes), Ones), 2)
  BY DEF crc32, Register, CrcStep
<1>. DEFINE x == Xor(Register(bytes), Ones)
<1>2. x \in Word
  BY RegisterFacts, OnesType, XorFacts
<1>3. x \in Seq(DigitValues(2)) /\ Len(x) = WordBits
  BY <1>2, WordIs
<1>. HIDE DEF x
<1>4. Number(x, 2) \in Nat /\ Number(x, 2) < Power(2, WordBits)
  BY <1>3, DigitsOfNumber
<1>5. Power(2, WordBits) = Power(Byte, W32)
  BY ByteFacts, WidthFacts, PowerBytes DEF Byte, WordBits
<1>. QED
  BY <1>1, <1>4, <1>5, UIntIs, WidthFacts DEF x

\* No byte of what a CRC is taken of changes and the CRC does not (crc32).
THEOREM CrcSeesOneByte ==
  \A s, t \in Seq(ByteValues) :
    Len(s) = Len(t) => \A place \in 1..Len(s) : DifferAt(s, t, place) => crc32(s) # crc32(t)
<1>1. SUFFICES ASSUME NEW s \in Seq(ByteValues), NEW t \in Seq(ByteValues), Len(s) = Len(t),
                      NEW place \in 1..Len(s), DifferAt(s, t, place), crc32(s) = crc32(t)
               PROVE  FALSE
  OBVIOUS
<1>. DEFINE x == Xor(Register(s), Ones)
            y == Xor(Register(t), Ones)
<1>2. x \in Word /\ y \in Word
  BY RegisterFacts, OnesType, XorFacts
<1>3. Number(x, 2) = Number(y, 2)
  BY <1>1, CrcIs
<1>. HIDE DEF x, y
<1>4. x \in Seq(DigitValues(2)) /\ Len(x) = WordBits /\ y \in Seq(DigitValues(2)) /\ Len(y) = WordBits
  BY <1>2, WordIs
<1>5. x = y
  <2>1. Digits(Number(x, 2), 2, WordBits) = x /\ Digits(Number(y, 2), 2, WordBits) = y
    BY <1>4, DigitsOfNumber
  <2>. QED
    BY <1>3, <2>1
<1>6. Register(s) = Register(t)
  BY <1>5, RegisterFacts, OnesType, XorInjective DEF x, y
<1>. QED
  BY <1>1, <1>6, RegisterDiffers

-----------------------------------------------------------------------------
(* Sequences end to end                                                    *)

Joining(S) == [p \in Seq(S) \X Seq(S) |-> p[1] \o p[2]]

LEMMA Joined ==
  ASSUME NEW S, NEW x \in Seq(S), NEW y \in Seq(S)
  PROVE  Joining(S)[<<x, y>>] = x \o y /\ Joining(S)[<<x, y>>] \in Seq(S)
<1>1. <<x, y>> \in Seq(S) \X Seq(S) /\ <<x, y>>[1] = x /\ <<x, y>>[2] = y
  OBVIOUS
<1>2. Joining(S)[<<x, y>>] = <<x, y>>[1] \o <<x, y>>[2]
  BY <1>1 DEF Joining
<1>3. Joining(S)[<<x, y>>] = x \o y
  BY <1>1, <1>2
<1>4. x \o y \in Seq(S)
  OBVIOUS
<1>. QED
  BY <1>3, <1>4

LEMMA JoiningFacts ==
  ASSUME NEW S, NEW ps \in Seq(Seq(S))
  PROVE  /\ Folded(Joining(S), <<>>, ps) \in Seq(S)
         /\ \A p \in Seq(S) :
              Folded(Joining(S), <<>>, Append(ps, p)) = Folded(Joining(S), <<>>, ps) \o p
<1>1. \A x, y \in Seq(S) : Joining(S)[<<x, y>>] = x \o y /\ Joining(S)[<<x, y>>] \in Seq(S)
  BY Joined
<1>2. <<>> \in Seq(S)
  OBVIOUS
<1>3. Folded(Joining(S), <<>>, ps) \in Seq(S)
  <2>1. \A x, y \in Seq(S) : Joining(S)[<<x, y>>] \in Seq(S)
    BY <1>1
  <2>. QED
    BY <1>2, <2>1, FoldedType
<1>4. ASSUME NEW p \in Seq(S)
      PROVE  Folded(Joining(S), <<>>, Append(ps, p)) = Folded(Joining(S), <<>>, ps) \o p
  <2>1. Folded(Joining(S), <<>>, Append(ps, p)) = Joining(S)[<<Folded(Joining(S), <<>>, ps), p>>]
    BY FoldedAppend
  <2>. QED
    BY <1>1, <1>3, <2>1
<1>. QED
  BY <1>3, <1>4

\* Sequences laid end to end, without the recursion.
LEMMA FlattenIs ==
  ASSUME NEW S, NEW ps \in Seq(Seq(S))
  PROVE  FlattenSeq(ps) = Folded(Joining(S), <<>>, ps)
<1>1. CASE Len(ps) = 0
  <2>1. ps = <<>>
    BY <1>1
  <2>2. Len(<<>>) = 0
    OBVIOUS
  <2>3. FlattenSeq(ps) = <<>>
    BY <2>1, <2>2 DEF FlattenSeq
  <2>. QED
    BY <2>1, <2>3, FoldedEmpty
<1>2. CASE Len(ps) # 0
  <2>. DEFINE n == Len(ps)
              Is(h) == h = [i \in 1..n |-> IF i = 1 THEN ps[i] ELSE h[i - 1] \o ps[i]]
              h == CHOOSE g : Is(g)
  <2>1. n \in Nat \ {0} /\ \A i \in 1..n : ps[i] \in Seq(S)
    BY <1>2
  <2>2. FlattenSeq(ps) = h[n]
    BY <1>2 DEF FlattenSeq
  <2>3. PICK f : Folding(f, Joining(S), <<>>, ps, n) /\ Folded(Joining(S), <<>>, ps) = f[n]
    BY <2>1, FoldedIs
  <2>. HIDE DEF n, h
  <2>4. \A i \in 0..n : f[i] = IF i = 0 THEN <<>> ELSE Joining(S)[<<f[i - 1], ps[i]>>]
    BY <2>3 DEF Folding
  <2>5. \A x, y \in Seq(S) : Joining(S)[<<x, y>>] = x \o y /\ Joining(S)[<<x, y>>] \in Seq(S)
    BY Joined
  <2>6. \A i \in Nat : i \in {j \in Nat : j <= n => f[j] \in Seq(S)}
    <3>. DEFINE T == {j \in Nat : j <= n => f[j] \in Seq(S)}
    <3>1. 0 \in T
      <4>1. 0 \in 0..n
        BY <2>1
      <4>2. f[0] = <<>>
        BY <2>4, <4>1
      <4>3. <<>> \in Seq(S)
        OBVIOUS
      <4>. QED
        BY <4>2, <4>3
    <3>2. ASSUME NEW j \in Nat, j \in T PROVE j + 1 \in T
      <4>1. ASSUME j + 1 <= n PROVE f[j + 1] \in Seq(S)
        <5>1. j + 1 \in 0..n /\ j + 1 # 0 /\ (j + 1) - 1 = j /\ j + 1 \in 1..n /\ j <= n
          BY <2>1, <4>1
        <5>2. f[j + 1] = Joining(S)[<<f[j], ps[j + 1]>>]
          BY <2>4, <5>1
        <5>. QED
          BY <2>1, <2>5, <3>2, <5>1, <5>2
      <4>. QED
        BY <4>1
    <3>. HIDE DEF T
    <3>3. \A i \in Nat : i \in T
      BY <3>1, <3>2, Induction
    <3>. QED
      BY <3>3 DEF T
  <2>7. \A i \in 1..n : f[i] = IF i = 1 THEN ps[i] ELSE f[i - 1] \o ps[i]
    <3>1. SUFFICES ASSUME NEW i \in 1..n PROVE f[i] = IF i = 1 THEN ps[i] ELSE f[i - 1] \o ps[i]
      OBVIOUS
    <3>2. i \in 0..n /\ i # 0 /\ i - 1 \in Nat /\ i - 1 <= n
      BY <2>1
    <3>3. f[i - 1] \in Seq(S) /\ f[i] = Joining(S)[<<f[i - 1], ps[i]>>]
      BY <2>4, <2>6, <3>2
    <3>4. f[i] = f[i - 1] \o ps[i]
      BY <2>1, <2>5, <3>3
    <3>5. CASE i = 1
      <4>0. 0 \in 0..n /\ i - 1 = 0
        BY <2>1, <3>5
      <4>1. f[i - 1] = <<>>
        BY <2>4, <4>0
      <4>2. ps[i] \in Seq(S)
        BY <2>1
      <4>3. \A x \in Seq(S) : <<>> \o x = x
        OBVIOUS
      <4>. QED
        BY <3>4, <3>5, <4>1, <4>2, <4>3
    <3>. QED
      BY <3>4, <3>5
  <2>8. Is([i \in 1..n |-> f[i]])
    <3>. DEFINE g == [i \in 1..n |-> f[i]]
    <3>1. \A i \in 1..n : i # 1 => i - 1 \in 1..n
      BY <2>1
    <3>2. \A i \in 1..n : i # 1 => g[i - 1] = f[i - 1]
      BY <3>1
    <3>3. \A i \in 1..n : f[i] = IF i = 1 THEN ps[i] ELSE g[i - 1] \o ps[i]
      BY <2>7, <3>2
    <3>4. g = [i \in 1..n |-> IF i = 1 THEN ps[i] ELSE g[i - 1] \o ps[i]]
      BY <3>3
    <3>. QED
      BY <3>4
  <2>9. Is(h)
    <3>. HIDE DEF Is
    <3>. QED
      BY <2>8 DEF h
  <2>10. \A i \in 1..n : h[i] = IF i = 1 THEN ps[i] ELSE h[i - 1] \o ps[i]
    BY <2>9
  <2>. HIDE DEF Is
  <2>11. n \in {j \in Nat : j \in 1..n => h[j] = f[j]}
    <3>. DEFINE T == {j \in Nat : j \in 1..n => h[j] = f[j]}
    <3>1. 0 \in T
      OBVIOUS
    <3>2. ASSUME NEW j \in Nat, j \in T PROVE j + 1 \in T
      <4>1. ASSUME j + 1 \in 1..n PROVE h[j + 1] = f[j + 1]
        <5>1. CASE j = 0
          BY <2>7, <2>10, <4>1, <5>1
        <5>2. CASE j # 0
          <6>1. j \in 1..n /\ (j + 1) - 1 = j /\ j + 1 # 1
            BY <2>1, <4>1, <5>2
          <6>2. h[j] = f[j]
            BY <3>2, <6>1
          <6>. QED
            BY <2>7, <2>10, <4>1, <6>1, <6>2
        <5>. QED
          BY <5>1, <5>2
      <4>. QED
        BY <4>1
    <3>. HIDE DEF T
    <3>3. n \in T
      BY <2>1, <3>1, <3>2, Induction
    <3>. QED
      BY <3>3 DEF T
  <2>. QED
    BY <2>1, <2>2, <2>3, <2>11
<1>. QED
  BY <1>1, <1>2

Lengths(ps) == [i \in 1..Len(ps) |-> Len(ps[i])]

LEMMA LengthsFacts ==
  ASSUME NEW S, NEW ps \in Seq(Seq(S))
  PROVE  /\ Lengths(ps) \in Seq(Nat) /\ Len(Lengths(ps)) = Len(ps)
         /\ \A i \in 1..Len(ps) : Lengths(ps)[i] = Len(ps[i])
         /\ \A p \in Seq(S) : Lengths(Append(ps, p)) = Append(Lengths(ps), Len(p))
<1>1. \A qs \in Seq(Seq(S)) : Lengths(qs) \in Seq(Nat) /\ Len(Lengths(qs)) = Len(qs)
        /\ \A i \in 1..Len(qs) : Lengths(qs)[i] = Len(qs[i])
  BY DEF Lengths
<1>2. ASSUME NEW p \in Seq(S) PROVE Lengths(Append(ps, p)) = Append(Lengths(ps), Len(p))
  <2>. DEFINE a == Lengths(Append(ps, p))
              b == Append(Lengths(ps), Len(p))
              n == Len(ps)
  <2>1. Append(ps, p) \in Seq(Seq(S)) /\ Len(Append(ps, p)) = n + 1 /\ n \in Nat
        /\ Append(ps, p)[n + 1] = p /\ \A i \in 1..n : Append(ps, p)[i] = ps[i]
    BY AppendedLast
  <2>2. a \in Seq(Nat) /\ Len(a) = n + 1 /\ \A i \in 1..(n + 1) : a[i] = Len(Append(ps, p)[i])
    BY <1>1, <2>1
  <2>3. Lengths(ps) \in Seq(Nat) /\ Len(Lengths(ps)) = n /\ Len(p) \in Nat
        /\ \A i \in 1..n : Lengths(ps)[i] = Len(ps[i])
    BY <1>1
  <2>4. b \in Seq(Nat) /\ Len(b) = n + 1
    BY <2>3
  <2>5. b[n + 1] = Len(p) /\ \A i \in 1..n : b[i] = Lengths(ps)[i]
    BY <2>3, AppendedLast
  <2>. HIDE DEF a, b, n
  <2>6. ASSUME NEW i \in 1..(n + 1) PROVE a[i] = b[i]
    <3>1. i = n + 1 \/ i \in 1..n
      BY <2>1
    <3>. QED
      BY <2>1, <2>2, <2>3, <2>5, <3>1, SMTT(20)
  <2>7. a = b
    BY <2>2, <2>4, <2>6, SeqEqual
  <2>. QED
    BY <2>7 DEF a, b
<1>. QED
  BY <1>1, <1>2

LEMMA FlattenAppend ==
  ASSUME NEW S, NEW ps \in Seq(Seq(S)), NEW p \in Seq(S)
  PROVE  /\ FlattenSeq(Append(ps, p)) = FlattenSeq(ps) \o p
         /\ FlattenSeq(ps) \in Seq(S)
         /\ FlattenSeq(<<>>) = <<>>
<1>1. Append(ps, p) \in Seq(Seq(S))
  OBVIOUS
<1>2. Len(<<>>) = 0
  OBVIOUS
<1>3. FlattenSeq(<<>>) = <<>>
  BY <1>2 DEF FlattenSeq
<1>4. FlattenSeq(ps) = Folded(Joining(S), <<>>, ps)
  BY FlattenIs
<1>5. FlattenSeq(Append(ps, p)) = Folded(Joining(S), <<>>, Append(ps, p))
  BY <1>1, FlattenIs
<1>6. /\ Folded(Joining(S), <<>>, ps) \in Seq(S)
      /\ Folded(Joining(S), <<>>, Append(ps, p)) = Folded(Joining(S), <<>>, ps) \o p
  BY JoiningFacts
<1>. QED
  BY <1>3, <1>4, <1>5, <1>6

LEMMA FlattenType ==
  ASSUME NEW S, NEW ps \in Seq(Seq(S))
  PROVE  FlattenSeq(ps) \in Seq(S)
BY FlattenIs, JoiningFacts

LEMMA FlattenLength ==
  ASSUME NEW S, NEW ps \in Seq(Seq(S))
  PROVE  Len(FlattenSeq(ps)) = Total(Lengths(ps))
<1>. DEFINE T == {n \in Nat : \A qs \in Seq(Seq(S)) : Len(qs) = n => Len(FlattenSeq(qs)) = Total(Lengths(qs))}
<1>. HIDE DEF T
<1>1. 0 \in T
  <2>1. ASSUME NEW qs \in Seq(Seq(S)), Len(qs) = 0 PROVE Len(FlattenSeq(qs)) = Total(Lengths(qs))
    <3>1. qs = <<>> /\ Len(<<>>) = 0
      BY <2>1
    <3>2. FlattenSeq(qs) = <<>>
      BY <3>1 DEF FlattenSeq
    <3>3. Lengths(qs) \in Seq(Nat) /\ Len(Lengths(qs)) = 0
      BY <2>1, LengthsFacts
    <3>4. Lengths(qs) = <<>>
      BY <3>3
    <3>. QED
      BY <3>1, <3>2, <3>4, TotalEmpty
  <2>. QED
    BY <2>1 DEF T
<1>2. ASSUME NEW n \in Nat, n \in T PROVE n + 1 \in T
  <2>1. ASSUME NEW qs \in Seq(Seq(S)), Len(qs) = n + 1 PROVE Len(FlattenSeq(qs)) = Total(Lengths(qs))
    <3>1. PICK rs \in Seq(Seq(S)), r \in Seq(S) : qs = Append(rs, r) /\ Len(rs) = n
      BY <2>1, LastOff
    <3>2. Len(FlattenSeq(rs)) = Total(Lengths(rs))
      BY <1>2, <3>1 DEF T
    <3>3. FlattenSeq(qs) = FlattenSeq(rs) \o r /\ FlattenSeq(rs) \in Seq(S)
      BY <3>1, FlattenAppend
    <3>4. Lengths(qs) = Append(Lengths(rs), Len(r)) /\ Lengths(rs) \in Seq(Nat) /\ Len(r) \in Nat
      BY <3>1, LengthsFacts
    <3>5. Total(Lengths(qs)) = Total(Lengths(rs)) + Len(r)
      BY <3>4, TotalAppend
    <3>6. Len(FlattenSeq(rs) \o r) = Len(FlattenSeq(rs)) + Len(r)
      BY <3>3
    <3>. QED
      BY <3>2, <3>3, <3>5, <3>6
  <2>. QED
    BY <2>1 DEF T
<1>3. Len(ps) \in T /\ Len(ps) \in Nat
  BY <1>1, <1>2, Induction, SMTT(20)
<1>. QED
  BY <1>3 DEF T

LEMMA ConcatSplit ==
  ASSUME NEW S, NEW a \in Seq(S), NEW b \in Seq(S), NEW c \in Seq(S), NEW d \in Seq(S),
         a \o b = c \o d, Len(a) = Len(c)
  PROVE  a = c /\ b = d
<1>1. /\ Len(a \o b) = Len(a) + Len(b)
      /\ \A i \in 1..(Len(a) + Len(b)) : (a \o b)[i] = IF i <= Len(a) THEN a[i] ELSE b[i - Len(a)]
      /\ Len(c \o d) = Len(c) + Len(d)
      /\ \A i \in 1..(Len(c) + Len(d)) : (c \o d)[i] = IF i <= Len(c) THEN c[i] ELSE d[i - Len(c)]
  BY ConcatProperties
<1>2. Len(b) = Len(d) /\ Len(a) \in Nat /\ Len(b) \in Nat
  BY <1>1
<1>3. ASSUME NEW i \in 1..Len(a) PROVE a[i] = c[i]
  <2>1. i \in 1..(Len(a) + Len(b)) /\ i <= Len(a)
    BY <1>2
  <2>. QED
    BY <1>1, <1>2, <2>1
<1>4. ASSUME NEW i \in 1..Len(b) PROVE b[i] = d[i]
  <2>1. Len(a) + i \in 1..(Len(a) + Len(b)) /\ ~(Len(a) + i <= Len(a)) /\ (Len(a) + i) - Len(a) = i
    BY <1>2
  <2>. QED
    BY <1>1, <1>2, <2>1
<1>5. a = c
  BY <1>3, SeqEqual
<1>6. b = d
  BY <1>2, <1>4, SeqEqual
<1>. QED
  BY <1>5, <1>6

LEMMA AppendSplit ==
  ASSUME NEW S, NEW s \in Seq(S), NEW t \in Seq(S), NEW e \in S, NEW f \in S,
         Append(s, e) = Append(t, f)
  PROVE  s = t /\ e = f
<1>1. Len(s) = Len(t)
  OBVIOUS
<1>2. /\ Append(s, e)[Len(s) + 1] = e /\ \A i \in 1..Len(s) : Append(s, e)[i] = s[i]
      /\ Append(t, f)[Len(t) + 1] = f /\ \A i \in 1..Len(t) : Append(t, f)[i] = t[i]
  BY AppendedLast
<1>3. s = t
  BY <1>1, <1>2, SeqEqual
<1>. QED
  BY <1>1, <1>2, <1>3

LEMMA AppendSplitNumbers ==
  ASSUME NEW s \in Seq(Nat), NEW t \in Seq(Nat), NEW e \in Nat, NEW f \in Nat,
         Append(s, e) = Append(t, f)
  PROVE  s = t
<1>1. Len(s) = Len(t)
  <2>1. Len(Append(s, e)) = Len(s) + 1 /\ Len(Append(t, f)) = Len(t) + 1
    OBVIOUS
  <2>2. Len(s) \in Nat /\ Len(t) \in Nat
    OBVIOUS
  <2>. QED
    BY <2>1, <2>2
<1>2. ASSUME NEW i \in 1..Len(s) PROVE s[i] = t[i]
  <2>1. Append(s, e)[i] = s[i]
    BY AppendedLast
  <2>2. Append(t, f)[i] = t[i]
    BY <1>1, AppendedLast
  <2>. QED
    BY <2>1, <2>2
<1>. QED
  BY <1>1, <1>2, SeqEqual

\* Fields of the same widths are told from what they make end to end.
LEMMA FlattenInjective ==
  ASSUME NEW S, NEW ps \in Seq(Seq(S)), NEW qs \in Seq(Seq(S)),
         Lengths(ps) = Lengths(qs), FlattenSeq(ps) = FlattenSeq(qs)
  PROVE  ps = qs
<1>. DEFINE T == {n \in Nat : \A a, b \in Seq(Seq(S)) :
                    Len(a) = n /\ Lengths(a) = Lengths(b) /\ FlattenSeq(a) = FlattenSeq(b) => a = b}
<1>. HIDE DEF T
<1>1. 0 \in T
  <2>1. ASSUME NEW a \in Seq(Seq(S)), NEW b \in Seq(Seq(S)), Len(a) = 0, Lengths(a) = Lengths(b)
        PROVE  a = b
    <3>1. Len(b) = 0
      BY <2>1, LengthsFacts
    <3>. QED
      BY <2>1, <3>1
  <2>. QED
    BY <2>1 DEF T
<1>2. ASSUME NEW n \in Nat, n \in T PROVE n + 1 \in T
  <2>1. ASSUME NEW a \in Seq(Seq(S)), NEW b \in Seq(Seq(S)), Len(a) = n + 1,
               Lengths(a) = Lengths(b), FlattenSeq(a) = FlattenSeq(b)
        PROVE  a = b
    <3>1. Len(b) = n + 1
      BY <2>1, LengthsFacts
    <3>2. PICK c \in Seq(Seq(S)), x \in Seq(S) : a = Append(c, x) /\ Len(c) = n
      BY <2>1, LastOff
    <3>3. PICK d \in Seq(Seq(S)), y \in Seq(S) : b = Append(d, y) /\ Len(d) = n
      BY <3>1, LastOff
    <3>4. /\ Lengths(a) = Append(Lengths(c), Len(x)) /\ Lengths(c) \in Seq(Nat) /\ Len(x) \in Nat
          /\ Lengths(b) = Append(Lengths(d), Len(y)) /\ Lengths(d) \in Seq(Nat) /\ Len(y) \in Nat
      BY <3>2, <3>3, LengthsFacts
    <3>5. Lengths(c) = Lengths(d)
      <4>1. Append(Lengths(c), Len(x)) = Append(Lengths(d), Len(y))
        BY <2>1, <3>4
      <4>. QED
        BY <3>4, <4>1, AppendSplitNumbers
    <3>6. /\ FlattenSeq(a) = FlattenSeq(c) \o x /\ FlattenSeq(c) \in Seq(S)
          /\ FlattenSeq(b) = FlattenSeq(d) \o y /\ FlattenSeq(d) \in Seq(S)
      BY <3>2, <3>3, FlattenAppend
    <3>7. Len(FlattenSeq(c)) = Len(FlattenSeq(d))
      BY <3>5, FlattenLength
    <3>8. FlattenSeq(c) = FlattenSeq(d) /\ x = y
      <4>1. FlattenSeq(c) \o x = FlattenSeq(d) \o y
        BY <2>1, <3>6
      <4>. QED
        BY <3>6, <3>7, <4>1, ConcatSplit
    <3>9. c = d
      BY <1>2, <3>2, <3>5, <3>8 DEF T
    <3>. QED
      BY <3>2, <3>3, <3>8, <3>9
  <2>. QED
    BY <2>1 DEF T
<1>3. \A n \in Nat : n \in T
  BY <1>1, <1>2, Induction
<1>4. Len(ps) \in Nat
  OBVIOUS
<1>. QED
  BY <1>3, <1>4 DEF T

LEMMA SubSeqFacts ==
  ASSUME NEW S, NEW s \in Seq(S), NEW from \in Nat, NEW to \in Nat, from <= to, to <= Len(s)
  PROVE  /\ SubSeq(s, from + 1, to) \in Seq(S)
         /\ Len(SubSeq(s, from + 1, to)) = to - from
         /\ \A i \in 1..(to - from) : SubSeq(s, from + 1, to)[i] = s[from + i]
<1>1. from + 1 \in Int /\ to \in Int /\ \A i \in (from + 1)..to : s[i] \in S
  OBVIOUS
<1>2. /\ SubSeq(s, from + 1, to) \in Seq(S)
      /\ Len(SubSeq(s, from + 1, to)) = IF from + 1 <= to THEN to - (from + 1) + 1 ELSE 0
      /\ \A i \in 1..(to - (from + 1) + 1) : SubSeq(s, from + 1, to)[i] = s[(from + 1) + i - 1]
  BY <1>1, SubSeqProperties
<1>3. to - (from + 1) + 1 = to - from /\ \A i \in Nat : (from + 1) + i - 1 = from + i
  OBVIOUS
<1>4. Len(SubSeq(s, from + 1, to)) = to - from
  BY <1>2
<1>. QED
  BY <1>2, <1>3, <1>4

\* The first elements of a sequence.
LEMMA PrefixFacts ==
  ASSUME NEW S, NEW s \in Seq(S), NEW n \in 0..Len(s)
  PROVE  /\ SubSeq(s, 1, n) \in Seq(S) /\ Len(SubSeq(s, 1, n)) = n
         /\ \A i \in 1..n : SubSeq(s, 1, n)[i] = s[i]
<1>1. 0 + 1 = 1 /\ 0 \in Nat /\ n \in Nat /\ 0 <= n /\ n <= Len(s) /\ n - 0 = n
      /\ \A i \in 1..n : 0 + i = i
  OBVIOUS
<1>2. /\ SubSeq(s, 0 + 1, n) \in Seq(S) /\ Len(SubSeq(s, 0 + 1, n)) = n - 0
      /\ \A i \in 1..(n - 0) : SubSeq(s, 0 + 1, n)[i] = s[0 + i]
  BY <1>1, SubSeqFacts
<1>. QED
  BY <1>1, <1>2

LEMMA PrefixConcat ==
  ASSUME NEW S, NEW s \in Seq(S), NEW m \in Nat, NEW n \in Nat, m + n <= Len(s)
  PROVE  SubSeq(s, 1, m) \o SubSeq(s, m + 1, m + n) = SubSeq(s, 1, m + n)
<1>. DEFINE a == SubSeq(s, 1, m)
            b == SubSeq(s, m + 1, m + n)
            c == SubSeq(s, 1, m + n)
<1>1. m \in 0..Len(s) /\ m + n \in 0..Len(s) /\ m <= m + n /\ (m + n) - m = n
  OBVIOUS
<1>2. a \in Seq(S) /\ Len(a) = m /\ \A i \in 1..m : a[i] = s[i]
  BY <1>1, PrefixFacts
<1>3. c \in Seq(S) /\ Len(c) = m + n /\ \A i \in 1..(m + n) : c[i] = s[i]
  BY <1>1, PrefixFacts
<1>4. b \in Seq(S) /\ Len(b) = n /\ \A i \in 1..n : b[i] = s[m + i]
  <2>1. b \in Seq(S) /\ Len(b) = (m + n) - m /\ \A i \in 1..((m + n) - m) : b[i] = s[m + i]
    BY <1>1, SubSeqFacts
  <2>. QED
    BY <1>1, <2>1
<1>. HIDE DEF a, b, c
<1>5. a \o b \in Seq(S) /\ Len(a \o b) = m + n
      /\ \A i \in 1..(m + n) : (a \o b)[i] = IF i <= m THEN a[i] ELSE b[i - m]
  BY <1>2, <1>4, ConcatProperties
<1>6. ASSUME NEW i \in 1..(m + n) PROVE (a \o b)[i] = c[i]
  <2>1. i <= m => i \in 1..m
    OBVIOUS
  <2>2. ~(i <= m) => i - m \in 1..n /\ m + (i - m) = i
    OBVIOUS
  <2>. QED
    BY <1>2, <1>3, <1>4, <1>5, <2>1, <2>2
<1>7. a \o b = c
  BY <1>3, <1>5, <1>6, SeqEqual
<1>. QED
  BY <1>7 DEF a, b, c

LEMMA FieldStarts ==
  ASSUME NEW ws \in Seq(Nat), NEW w \in Nat
  PROVE  /\ FieldStart(Append(ws, w), Len(ws) + 1) = Total(ws)
         /\ \A i \in 1..Len(ws) : FieldStart(Append(ws, w), i) = FieldStart(ws, i)
<1>. DEFINE n == Len(ws)
            vs == Append(ws, w)
<1>1. vs \in Seq(Nat) /\ Len(vs) = n + 1 /\ n \in Nat /\ \A i \in 1..n : vs[i] = ws[i]
  BY AppendedLast
<1>. HIDE DEF n, vs
<1>2. ASSUME NEW k \in 0..n PROVE SubSeq(vs, 1, k) = SubSeq(ws, 1, k)
  <2>1. k \in 0..Len(vs) /\ k \in 0..Len(ws)
    BY <1>1 DEF n
  <2>2. /\ SubSeq(vs, 1, k) \in Seq(Nat) /\ Len(SubSeq(vs, 1, k)) = k /\ \A i \in 1..k : SubSeq(vs, 1, k)[i] = vs[i]
        /\ SubSeq(ws, 1, k) \in Seq(Nat) /\ Len(SubSeq(ws, 1, k)) = k /\ \A i \in 1..k : SubSeq(ws, 1, k)[i] = ws[i]
    BY <1>1, <2>1, PrefixFacts
  <2>3. \A i \in 1..k : i \in 1..n
    BY <1>1
  <2>4. \A i \in 1..k : SubSeq(vs, 1, k)[i] = SubSeq(ws, 1, k)[i]
    BY <1>1, <2>2, <2>3
  <2>. QED
    BY <2>2, <2>4, SeqEqual
<1>3. SubSeq(ws, 1, n) = ws
  BY SubSeqFull DEF n
<1>4. n \in 0..n /\ (n + 1) - 1 = n /\ \A i \in 1..n : i - 1 \in 0..n
  BY <1>1
<1>5. FieldStart(vs, n + 1) = Total(ws)
  BY <1>2, <1>3, <1>4 DEF FieldStart
<1>6. \A i \in 1..n : FieldStart(vs, i) = FieldStart(ws, i)
  BY <1>2, <1>4 DEF FieldStart
<1>. QED
  BY <1>5, <1>6 DEF n, vs

\* What is read is what the data begins with.
LEMMA SlicesFacts ==
  ASSUME NEW S, NEW data \in Seq(S), NEW widths \in Seq(Nat), Total(widths) <= Len(data)
  PROVE  /\ Slices(data, widths) \in Seq(Seq(S))
         /\ Lengths(Slices(data, widths)) = widths
         /\ FlattenSeq(Slices(data, widths)) = SubSeq(data, 1, Total(widths))
<1>. DEFINE Good(ws) == /\ Slices(data, ws) \in Seq(Seq(S))
                        /\ Lengths(Slices(data, ws)) = ws
                        /\ FlattenSeq(Slices(data, ws)) = SubSeq(data, 1, Total(ws))
            T == {n \in Nat : \A ws \in Seq(Nat) : Len(ws) = n /\ Total(ws) <= Len(data) => Good(ws)}
<1>. HIDE DEF T, Good
<1>1. 0 \in T
  <2>1. ASSUME NEW ws \in Seq(Nat), Len(ws) = 0 PROVE Good(ws)
    <3>1. ws = <<>> /\ Len(<<>>) = 0
      BY <2>1
    <3>2. Slices(data, ws) = <<>>
      BY <3>1 DEF Slices
    <3>3. FlattenSeq(<<>>) = <<>>
      BY <3>1 DEF FlattenSeq
    <3>4. SubSeq(data, 1, 0) = <<>>
      BY SubSeqEmpty
    <3>5. <<>> \in Seq(Seq(S)) /\ Lengths(<<>>) = <<>>
      BY <3>1 DEF Lengths
    <3>. QED
      BY <3>1, <3>2, <3>3, <3>4, <3>5, TotalEmpty DEF Good
  <2>. QED
    BY <2>1 DEF T
<1>2. ASSUME NEW n \in Nat, n \in T PROVE n + 1 \in T
  <2>1. ASSUME NEW ws \in Seq(Nat), Len(ws) = n + 1, Total(ws) <= Len(data) PROVE Good(ws)
    <3>1. PICK us \in Seq(Nat), u \in Nat : ws = Append(us, u) /\ Len(us) = n
      BY <2>1, LastOff
    <3>2. Total(us) \in Nat /\ Total(ws) = Total(us) + u
      BY <3>1, TotalAppend
    <3>3. Good(us)
      <4>1. Total(us) <= Len(data)
        BY <2>1, <3>2
      <4>. QED
        BY <1>2, <3>1, <4>1 DEF T
    <3>. DEFINE a == Slices(data, us)
                b == Slices(data, ws)
                x == SubSeq(data, Total(us) + 1, Total(us) + u)
                t == Total(us)
    <3>4. a \in Seq(Seq(S)) /\ Lengths(a) = us /\ FlattenSeq(a) = SubSeq(data, 1, t)
      BY <3>3 DEF Good
    <3>5. Len(a) = n
      BY <3>1, <3>4, LengthsFacts
    <3>6. x \in Seq(S) /\ Len(x) = u
      <4>1. t + u \in Nat /\ t <= t + u /\ t + u <= Len(data) /\ (t + u) - t = u
        BY <2>1, <3>2
      <4>. QED
        BY <3>2, <4>1, SubSeqFacts
    <3>7. ws[n + 1] = u /\ \A i \in 1..n : ws[i] = us[i]
      BY <3>1, AppendedLast
    <3>8. FieldStart(ws, n + 1) = t /\ \A i \in 1..n : FieldStart(ws, i) = FieldStart(us, i)
      BY <3>1, FieldStarts
    <3>9. b = [i \in 1..(n + 1) |-> SubSeq(data, FieldStart(ws, i) + 1, FieldStart(ws, i) + ws[i])]
      BY <2>1 DEF Slices
    <3>10. \A i \in 1..n : a[i] = SubSeq(data, FieldStart(us, i) + 1, FieldStart(us, i) + us[i])
      BY <3>1 DEF Slices
    <3>. HIDE DEF a, b, x, t
    <3>11. b[n + 1] = x
      <4>1. n + 1 \in 1..(n + 1)
        OBVIOUS
      <4>2. b[n + 1] = SubSeq(data, FieldStart(ws, n + 1) + 1, FieldStart(ws, n + 1) + ws[n + 1])
        BY <3>9, <4>1
      <4>. QED
        BY <3>7, <3>8, <4>2 DEF x, t
    <3>12. ASSUME NEW i \in 1..n PROVE b[i] = a[i]
      <4>1. i \in 1..(n + 1)
        OBVIOUS
      <4>2. b[i] = SubSeq(data, FieldStart(ws, i) + 1, FieldStart(ws, i) + ws[i])
        BY <3>9, <4>1
      <4>. QED
        BY <3>7, <3>8, <3>10, <4>2
    <3>13. Append(a, x) \in Seq(Seq(S)) /\ Len(Append(a, x)) = n + 1
           /\ Append(a, x)[n + 1] = x /\ \A i \in 1..n : Append(a, x)[i] = a[i]
      BY <3>4, <3>5, <3>6, AppendedLast
    <3>14. ASSUME NEW i \in 1..(n + 1) PROVE b[i] = Append(a, x)[i]
      <4>1. i = n + 1 \/ i \in 1..n
        OBVIOUS
      <4>. QED
        BY <3>11, <3>12, <3>13, <4>1
    <3>15. b \in Seq(Seq(S)) /\ Len(b) = n + 1
      <4>1. \A i \in 1..(n + 1) : b[i] \in Seq(S)
        <5>1. \A i \in 1..n : a[i] \in Seq(S)
          BY <3>4, <3>5
        <5>2. \A i \in 1..(n + 1) : i = n + 1 \/ i \in 1..n
          OBVIOUS
        <5>. QED
          BY <3>6, <3>11, <3>12, <5>1, <5>2
      <4>2. b = [i \in 1..(n + 1) |-> b[i]]
        BY <3>9
      <4>3. b \in [1..(n + 1) -> Seq(S)]
        BY <4>1, <4>2
      <4>. QED
        BY <4>3
    <3>16. b = Append(a, x)
      BY <3>13, <3>14, <3>15, SeqEqual
    <3>17. Lengths(b) = ws
      BY <3>1, <3>4, <3>6, <3>16, LengthsFacts
    <3>18. FlattenSeq(b) = SubSeq(data, 1, Total(ws))
      <4>1. FlattenSeq(b) = FlattenSeq(a) \o x
        BY <3>4, <3>6, <3>16, FlattenAppend
      <4>2. SubSeq(data, 1, t) \o SubSeq(data, t + 1, t + u) = SubSeq(data, 1, t + u)
        <5>1. t \in Nat /\ t + u <= Len(data)
          BY <2>1, <3>2 DEF t
        <5>. QED
          BY <5>1, PrefixConcat
      <4>. QED
        BY <3>2, <3>4, <4>1, <4>2 DEF x, t
    <3>. QED
      BY <3>15, <3>17, <3>18 DEF Good, b
  <2>. QED
    BY <2>1 DEF T
<1>3. \A n \in Nat : n \in T
  BY <1>1, <1>2, Induction
<1>4. Len(widths) \in Nat
  OBVIOUS
<1>. QED
  BY <1>3, <1>4 DEF T, Good

\* Fields laid end to end are found again, whatever follows them.
LEMMA SlicesOfFlatten ==
  ASSUME NEW S, NEW ps \in Seq(Seq(S)), NEW data \in Seq(S),
         Total(Lengths(ps)) <= Len(data), SubSeq(data, 1, Total(Lengths(ps))) = FlattenSeq(ps)
  PROVE  Slices(data, Lengths(ps)) = ps
<1>1. Lengths(ps) \in Seq(Nat)
  BY LengthsFacts
<1>2. /\ Slices(data, Lengths(ps)) \in Seq(Seq(S))
      /\ Lengths(Slices(data, Lengths(ps))) = Lengths(ps)
      /\ FlattenSeq(Slices(data, Lengths(ps))) = SubSeq(data, 1, Total(Lengths(ps)))
  BY <1>1, SlicesFacts
<1>. HIDE DEF Slices
<1>. QED
  BY <1>2, FlattenInjective

-----------------------------------------------------------------------------
(* The patch header: what is accepted is what serialize makes, with its    *)
(* own crc, so that another byte is another crc.                           *)

HeaderType ==
  [version : UInt(W32), header_size : UInt(W32), file_id : UInt(W64), total_patches : UInt(W32),
   patch_index : UInt(W32), payload_size : UInt(W32), header_crc32 : UInt(W32),
   payload_crc32 : UInt(W32)]

HeadParts(h) ==
  <<Magic, to_le(h.version, W32), to_le(h.header_size, W32), to_le(h.file_id, W64),
    to_le(h.total_patches, W32), to_le(h.patch_index, W32), to_le(h.payload_size, W32)>>

HeaderParts(h, crc) ==
  <<Magic, to_le(h.version, W32), to_le(h.header_size, W32), to_le(h.file_id, W64),
    to_le(h.total_patches, W32), to_le(h.patch_index, W32), to_le(h.payload_size, W32),
    to_le(crc, W32), to_le(h.payload_crc32, W32)>>

Framed(a, b, c) == (a \o b) \o c

FramedAt(a, b, c, i) ==
  IF i <= Len(a) THEN a[i]
  ELSE IF i <= Len(a) + Len(b) THEN b[i - Len(a)] ELSE c[i - (Len(a) + Len(b))]

LEMMA ElementOf ==
  ASSUME NEW S, NEW s \in Seq(S)
  PROVE  \A i \in 1..Len(s) : s[i] \in S
OBVIOUS

LEMMA TotalType == ASSUME NEW s \in Seq(Nat) PROVE Total(s) \in Nat
<1>1. 0 \in Nat
  OBVIOUS
<1>. QED
  BY <1>1, TotalAppend

LEMMA LayoutFacts ==
  /\ Layout \in Seq(Nat) /\ Len(Layout) = 9 /\ EncodedSize \in Nat
  /\ 0 \in UInt(W32) /\ Magic \in Seq(ByteValues)
<1>1. W32 \in Nat /\ W64 \in Nat /\ Magic \in Seq(ByteValues) /\ W32 \in Nat \ {0}
  BY WidthFacts, CodecAssumption
<1>2. Len(Magic) \in Nat
  BY <1>1
<1>3. Layout \in Seq(Nat) /\ Len(Layout) = 9
  BY <1>1, <1>2 DEF Layout
<1>4. EncodedSize \in Nat
  BY <1>3, TotalType DEF EncodedSize
<1>5. 0 \in UInt(W32)
  <2>1. Power(Byte, W32) \in Nat \ {0}
    BY <1>1, ByteFacts, PowerType
  <2>. QED
    BY <1>1, <2>1, UIntIs
<1>. QED
  BY <1>1, <1>3, <1>4, <1>5

LEMMA FieldBytes ==
  ASSUME NEW width \in {W16, W32, W64}, NEW v \in UInt(width)
  PROVE  /\ v \in Nat /\ to_le(v, width) \in Seq(ByteValues) /\ Len(to_le(v, width)) = width
         /\ from_le(to_le(v, width)) = v
<1>1. width \in Nat
  BY WidthFacts
<1>2. v \in Nat
  BY <1>1, UIntIs
<1>. QED
  BY <1>1, <1>2, LittleEndian

LEMMA HeaderBytes ==
  ASSUME NEW h \in HeaderType, NEW crc \in UInt(W32)
  PROVE  /\ HeaderParts(h, crc) \in Seq(Seq(ByteValues)) /\ HeadParts(h) \in Seq(Seq(ByteValues))
         /\ Lengths(HeaderParts(h, crc)) = Layout
         /\ FlattenSeq(HeaderParts(h, crc)) =
              Framed(FlattenSeq(HeadParts(h)), to_le(crc, W32), to_le(h.payload_crc32, W32))
         /\ FlattenSeq(HeaderParts(h, crc)) \in Seq(ByteValues)
         /\ Len(FlattenSeq(HeaderParts(h, crc))) = EncodedSize
         /\ FlattenSeq(HeadParts(h)) \in Seq(ByteValues)
<1>0. /\ h.version \in UInt(W32) /\ h.header_size \in UInt(W32) /\ h.file_id \in UInt(W64)
      /\ h.total_patches \in UInt(W32) /\ h.patch_index \in UInt(W32) /\ h.payload_size \in UInt(W32)
      /\ h.payload_crc32 \in UInt(W32)
  BY DEF HeaderType
<1>. DEFINE b == to_le(h.version, W32)
            c == to_le(h.header_size, W32)
            d == to_le(h.file_id, W64)
            e == to_le(h.total_patches, W32)
            f == to_le(h.patch_index, W32)
            g == to_le(h.payload_size, W32)
            i == to_le(crc, W32)
            j == to_le(h.payload_crc32, W32)
<1>1. /\ b \in Seq(ByteValues) /\ Len(b) = W32 /\ c \in Seq(ByteValues) /\ Len(c) = W32
      /\ d \in Seq(ByteValues) /\ Len(d) = W64 /\ e \in Seq(ByteValues) /\ Len(e) = W32
      /\ f \in Seq(ByteValues) /\ Len(f) = W32 /\ g \in Seq(ByteValues) /\ Len(g) = W32
      /\ i \in Seq(ByteValues) /\ Len(i) = W32 /\ j \in Seq(ByteValues) /\ Len(j) = W32
  BY <1>0, FieldBytes
<1>2. /\ HeaderParts(h, crc) = <<Magic, b, c, d, e, f, g, i, j>>
      /\ HeadParts(h) = <<Magic, b, c, d, e, f, g>>
  BY DEF HeaderParts, HeadParts
<1>3. Magic \in Seq(ByteValues) /\ Layout = <<Len(Magic), W32, W32, W64, W32, W32, W32, W32, W32>>
  BY LayoutFacts DEF Layout
<1>. HIDE DEF b, c, d, e, f, g, i, j, ByteValues
<1>. DEFINE T == Seq(ByteValues)
            nine == <<Magic, b, c, d, e, f, g, i, j>>
            eight == <<Magic, b, c, d, e, f, g, i>>
            seven == <<Magic, b, c, d, e, f, g>>
<1>4. /\ nine \in Seq(T) /\ seven \in Seq(T)
      /\ Lengths(nine) = <<Len(Magic), Len(b), Len(c), Len(d), Len(e), Len(f), Len(g), Len(i), Len(j)>>
      /\ FlattenSeq(nine) = Framed(FlattenSeq(seven), i, j)
  <2>1. Magic \in T /\ b \in T /\ c \in T /\ d \in T /\ e \in T /\ f \in T /\ g \in T /\ i \in T /\ j \in T
    BY <1>1, <1>3
  <2>. HIDE DEF T
  <2>2. nine \in Seq(T) /\ eight \in Seq(T) /\ seven \in Seq(T)
    BY <2>1
  <2>3. nine = Append(eight, j)
    BY <2>1
  <2>4. eight = Append(seven, i)
    BY <2>1
  <2>5. Lengths(nine) = <<Len(Magic), Len(b), Len(c), Len(d), Len(e), Len(f), Len(g), Len(i), Len(j)>>
    BY DEF Lengths
  <2>. HIDE DEF nine, eight, seven
  <2>6. FlattenSeq(Append(seven, i)) = FlattenSeq(seven) \o i
    BY <1>1, <2>2, FlattenAppend DEF T
  <2>7. FlattenSeq(Append(eight, j)) = FlattenSeq(eight) \o j
    BY <1>1, <2>2, FlattenAppend DEF T
  <2>. QED
    BY <2>2, <2>3, <2>4, <2>5, <2>6, <2>7 DEF Framed
<1>5. Lengths(HeaderParts(h, crc)) = Layout
  BY <1>1, <1>2, <1>3, <1>4
<1>. HIDE DEF nine, seven, eight
<1>6. HeaderParts(h, crc) \in Seq(Seq(ByteValues)) /\ HeadParts(h) \in Seq(Seq(ByteValues))
  BY <1>2, <1>4 DEF nine, seven
<1>7. FlattenSeq(HeaderParts(h, crc)) \in Seq(ByteValues) /\ FlattenSeq(HeadParts(h)) \in Seq(ByteValues)
  BY <1>6, FlattenType
<1>8. Len(FlattenSeq(HeaderParts(h, crc))) = EncodedSize
  BY <1>5, <1>6, FlattenLength DEF EncodedSize
<1>9. FlattenSeq(HeaderParts(h, crc)) = Framed(FlattenSeq(HeadParts(h)), i, j)
  BY <1>2, <1>4 DEF nine, seven
<1>. QED
  BY <1>5, <1>6, <1>7, <1>8, <1>9 DEF i, j

LEMMA SerializeIs ==
  ASSUME NEW h \in HeaderType
  PROVE  /\ serialize(h, TRUE) = FlattenSeq(HeaderParts(h, h.header_crc32))
         /\ serialize(h, FALSE) = FlattenSeq(HeaderParts(h, 0))
         /\ h.header_crc32 \in UInt(W32)
BY DEF serialize, HeaderParts, HeaderType

LEMMA SerializedBytes ==
  ASSUME NEW h \in HeaderType
  PROVE  /\ serialize(h, TRUE) =
              Framed(FlattenSeq(HeadParts(h)), to_le(h.header_crc32, W32), to_le(h.payload_crc32, W32))
         /\ serialize(h, FALSE) =
              Framed(FlattenSeq(HeadParts(h)), to_le(0, W32), to_le(h.payload_crc32, W32))
         /\ FlattenSeq(HeadParts(h)) \in Seq(ByteValues)
         /\ serialize(h, TRUE) \in Seq(ByteValues) /\ Len(serialize(h, TRUE)) = EncodedSize
         /\ serialize(h, FALSE) \in Seq(ByteValues) /\ Len(serialize(h, FALSE)) = EncodedSize
<1>1. /\ serialize(h, TRUE) = FlattenSeq(HeaderParts(h, h.header_crc32))
      /\ serialize(h, FALSE) = FlattenSeq(HeaderParts(h, 0))
      /\ h.header_crc32 \in UInt(W32) /\ 0 \in UInt(W32)
  BY SerializeIs, LayoutFacts
<1>2. ASSUME NEW crc \in UInt(W32)
      PROVE  /\ FlattenSeq(HeaderParts(h, crc)) =
                  Framed(FlattenSeq(HeadParts(h)), to_le(crc, W32), to_le(h.payload_crc32, W32))
             /\ FlattenSeq(HeaderParts(h, crc)) \in Seq(ByteValues)
             /\ Len(FlattenSeq(HeaderParts(h, crc))) = EncodedSize
             /\ FlattenSeq(HeadParts(h)) \in Seq(ByteValues)
  BY HeaderBytes
<1>3. /\ FlattenSeq(HeaderParts(h, h.header_crc32)) =
           Framed(FlattenSeq(HeadParts(h)), to_le(h.header_crc32, W32), to_le(h.payload_crc32, W32))
      /\ FlattenSeq(HeaderParts(h, h.header_crc32)) \in Seq(ByteValues)
      /\ Len(FlattenSeq(HeaderParts(h, h.header_crc32))) = EncodedSize
      /\ FlattenSeq(HeadParts(h)) \in Seq(ByteValues)
  BY <1>1, <1>2
<1>4. /\ FlattenSeq(HeaderParts(h, 0)) =
           Framed(FlattenSeq(HeadParts(h)), to_le(0, W32), to_le(h.payload_crc32, W32))
      /\ FlattenSeq(HeaderParts(h, 0)) \in Seq(ByteValues)
      /\ Len(FlattenSeq(HeaderParts(h, 0))) = EncodedSize
  BY <1>1, <1>2
<1>. QED
  BY <1>1, <1>3, <1>4

LEMMA HeaderRead ==
  ASSUME NEW h \in HeaderType
  PROVE  /\ Slices(serialize(h, TRUE), Layout) = HeaderParts(h, h.header_crc32)
         /\ HeaderOf(HeaderParts(h, h.header_crc32)) = h
<1>. DEFINE parts == HeaderParts(h, h.header_crc32)
            data == serialize(h, TRUE)
<1>1. data = FlattenSeq(parts) /\ h.header_crc32 \in UInt(W32)
  BY SerializeIs
<1>2. parts \in Seq(Seq(ByteValues)) /\ Lengths(parts) = Layout
      /\ FlattenSeq(parts) \in Seq(ByteValues) /\ Len(FlattenSeq(parts)) = EncodedSize
  BY <1>1, HeaderBytes
<1>3. Slices(data, Layout) = parts
  <2>. HIDE DEF parts, data, ByteValues
  <2>1. Total(Lengths(parts)) = Len(data) /\ data \in Seq(ByteValues)
    BY <1>1, <1>2 DEF EncodedSize
  <2>2. SubSeq(data, 1, Len(data)) = data
    BY <2>1, SubSeqFull
  <2>3. Total(Lengths(parts)) <= Len(data)
    BY <2>1
  <2>4. SubSeq(data, 1, Total(Lengths(parts))) = FlattenSeq(parts)
    BY <1>1, <2>1, <2>2
  <2>. QED
    BY <1>2, <2>1, <2>3, <2>4, SlicesOfFlatten
<1>4. HeaderOf(parts) = h
  <2>1. /\ h.version \in UInt(W32) /\ h.header_size \in UInt(W32) /\ h.file_id \in UInt(W64)
        /\ h.total_patches \in UInt(W32) /\ h.patch_index \in UInt(W32) /\ h.payload_size \in UInt(W32)
        /\ h.payload_crc32 \in UInt(W32)
    BY DEF HeaderType
  <2>2. /\ from_le(parts[2]) = h.version /\ from_le(parts[3]) = h.header_size
        /\ from_le(parts[4]) = h.file_id /\ from_le(parts[5]) = h.total_patches
        /\ from_le(parts[6]) = h.patch_index /\ from_le(parts[7]) = h.payload_size
        /\ from_le(parts[8]) = h.header_crc32 /\ from_le(parts[9]) = h.payload_crc32
    BY <1>1, <2>1, FieldBytes DEF HeaderParts
  <2>. HIDE DEF parts
  <2>3. h = [version |-> h.version, header_size |-> h.header_size, file_id |-> h.file_id,
             total_patches |-> h.total_patches, patch_index |-> h.patch_index,
             payload_size |-> h.payload_size, header_crc32 |-> h.header_crc32,
             payload_crc32 |-> h.payload_crc32]
    BY DEF HeaderType
  <2>. QED
    BY <2>2, <2>3 DEF HeaderOf
<1>. QED
  BY <1>3, <1>4

\* What is accepted is a header as serialize writes it, with its own crc.
LEMMA AcceptedIsSerialized ==
  ASSUME NEW data \in Seq(ByteValues), Len(data) = EncodedSize, deserialize(data) # Refused
  PROVE  \E g \in HeaderType : data = serialize(g, TRUE) /\ g.header_crc32 = compute_header_crc32(g)
<1>. DEFINE fields == Slices(data, Layout)
            g == HeaderOf(fields)
<1>1. fields[1] = Magic /\ g.header_crc32 = compute_header_crc32(g)
  BY DEF deserialize
<1>2. fields \in Seq(Seq(ByteValues)) /\ Lengths(fields) = Layout
      /\ FlattenSeq(fields) = SubSeq(data, 1, EncodedSize)
  <2>1. Total(Layout) <= Len(data)
    BY LayoutFacts DEF EncodedSize
  <2>. QED
    BY <2>1, LayoutFacts, SlicesFacts DEF EncodedSize
<1>. HIDE DEF fields
<1>3. Len(fields) = 9 /\ \A i \in 1..9 : fields[i] \in Seq(ByteValues) /\ Len(fields[i]) = Layout[i]
  <2>1. Len(fields) = 9
    BY <1>2, LayoutFacts, LengthsFacts
  <2>2. \A i \in 1..9 : Len(fields[i]) = Layout[i]
    BY <1>2, <2>1, LengthsFacts
  <2>3. \A i \in 1..9 : fields[i] \in Seq(ByteValues)
    <3>1. Len(fields) = 9 /\ fields \in Seq(Seq(ByteValues))
      BY <1>2, <2>1
    <3>. QED
      BY <3>1, ElementOf
  <2>. QED
    BY <2>1, <2>2, <2>3
<1>4. /\ \A i \in {2, 3, 5, 6, 7, 8, 9} : Len(fields[i]) = W32 /\ fields[i] \in Seq(ByteValues)
      /\ Len(fields[4]) = W64 /\ fields[4] \in Seq(ByteValues)
  <2>1. \A i \in {2, 3, 5, 6, 7, 8, 9} : i \in 1..9 /\ Layout[i] = W32
    BY DEF Layout
  <2>2. 4 \in 1..9 /\ Layout[4] = W64
    BY DEF Layout
  <2>. QED
    BY <1>3, <2>1, <2>2
<1>5. /\ \A i \in {2, 3, 5, 6, 7, 8, 9} :
           from_le(fields[i]) \in UInt(W32) /\ to_le(from_le(fields[i]), W32) = fields[i]
      /\ from_le(fields[4]) \in UInt(W64) /\ to_le(from_le(fields[4]), W64) = fields[4]
  BY <1>4, FromLittleEndian
<1>6. g \in HeaderType
  BY <1>5 DEF HeaderOf, HeaderType
<1>7. HeaderParts(g, g.header_crc32) = fields
  <2>1. HeaderParts(g, g.header_crc32) =
          <<fields[1], fields[2], fields[3], fields[4], fields[5], fields[6], fields[7], fields[8], fields[9]>>
    BY <1>1, <1>5 DEF HeaderParts, HeaderOf
  <2>2. fields = <<fields[1], fields[2], fields[3], fields[4], fields[5], fields[6], fields[7], fields[8], fields[9]>>
    BY <1>2, <1>3
  <2>. QED
    BY <2>1, <2>2
<1>. HIDE DEF g
<1>8. SubSeq(data, 1, EncodedSize) = data
  BY SubSeqFull
<1>9. serialize(g, TRUE) = data
  BY <1>2, <1>6, <1>7, <1>8, SerializeIs
<1>. QED
  BY <1>1, <1>6, <1>9

LEMMA MiddleFacts ==
  ASSUME NEW S, NEW a \in Seq(S), NEW b \in Seq(S), NEW c \in Seq(S)
  PROVE  \A i \in 1..(Len(a) + Len(b) + Len(c)) : Framed(a, b, c)[i] = FramedAt(a, b, c, i)
<1>1. Len(a) \in Nat /\ Len(b) \in Nat /\ Len(c) \in Nat
  OBVIOUS
<1>. DEFINE d == a \o b
<1>2. d \in Seq(S) /\ Len(d) = Len(a) + Len(b)
      /\ \A i \in 1..(Len(a) + Len(b)) : d[i] = IF i <= Len(a) THEN a[i] ELSE b[i - Len(a)]
  BY ConcatProperties
<1>. HIDE DEF d
<1>3. d \o c \in Seq(S) /\ Len(d \o c) = Len(d) + Len(c)
      /\ \A i \in 1..(Len(d) + Len(c)) : (d \o c)[i] = IF i <= Len(d) THEN d[i] ELSE c[i - Len(d)]
  <2>1. d \in Seq(S)
    BY <1>2
  <2>. QED
    BY <2>1, ConcatProperties
<1>4. \A i \in 1..(Len(a) + Len(b) + Len(c)) : i <= Len(a) + Len(b) => i \in 1..(Len(a) + Len(b))
  BY <1>1
<1>5. \A i \in 1..(Len(a) + Len(b) + Len(c)) : i <= Len(a) => i <= Len(a) + Len(b)
  BY <1>1
<1>6. \A i \in 1..(Len(a) + Len(b) + Len(c)) :
        (d \o c)[i] = IF i <= Len(a) THEN a[i]
                      ELSE IF i <= Len(a) + Len(b) THEN b[i - Len(a)] ELSE c[i - (Len(a) + Len(b))]
  BY <1>2, <1>3, <1>4, <1>5
<1>. QED
  BY <1>6 DEF d, Framed, FramedAt

LEMMA FramedType ==
  ASSUME NEW S, NEW a \in Seq(S), NEW b \in Seq(S), NEW c \in Seq(S)
  PROVE  Framed(a, b, c) \in Seq(S)
BY DEF Framed

LEMMA FramedLength ==
  ASSUME NEW S, NEW a \in Seq(S), NEW b \in Seq(S), NEW c \in Seq(S)
  PROVE  Len(Framed(a, b, c)) = Len(a) + Len(b) + Len(c)
<1>1. a \o b \in Seq(S) /\ Len(a \o b) = Len(a) + Len(b)
  OBVIOUS
<1>2. Len((a \o b) \o c) = Len(a \o b) + Len(c)
  BY <1>1
<1>. QED
  BY <1>1, <1>2 DEF Framed

HitOnce(a, b, c, o, x, y, z, place) ==
  /\ Len(a) = Len(x) /\ Len(b) = Len(y) /\ Len(c) = Len(z) /\ Len(o) = Len(b)
  /\ place \in 1..Len(Framed(a, b, c)) /\ DifferAt(Framed(a, b, c), Framed(x, y, z), place)

\* A place in the middle leaves the ends, a place in the ends leaves the middle.
LEMMA DifferInMiddle ==
  ASSUME NEW S, NEW a \in Seq(S), NEW b \in Seq(S), NEW c \in Seq(S), NEW o \in Seq(S),
         NEW x \in Seq(S), NEW y \in Seq(S), NEW z \in Seq(S), NEW place
  PROVE  HitOnce(a, b, c, o, x, y, z, place)
         => \/ b # y /\ Framed(a, o, c) = Framed(x, o, z)
            \/ b = y /\ DifferAt(Framed(a, o, c), Framed(x, o, z), place)
<1>9. ASSUME NEW p \in Seq(S), NEW q \in Seq(S), NEW r \in Seq(S)
      PROVE  /\ Framed(p, q, r) \in Seq(S)
             /\ Len(Framed(p, q, r)) = Len(p) + Len(q) + Len(r)
             /\ \A i \in 1..(Len(p) + Len(q) + Len(r)) : Framed(p, q, r)[i] = FramedAt(p, q, r, i)
  <2>1. Framed(p, q, r) \in Seq(S)
    BY FramedType
  <2>2. Len(Framed(p, q, r)) = Len(p) + Len(q) + Len(r)
    BY FramedLength
  <2>3. \A i \in 1..(Len(p) + Len(q) + Len(r)) : Framed(p, q, r)[i] = FramedAt(p, q, r, i)
    BY MiddleFacts
  <2>. QED
    BY <2>1, <2>2, <2>3
<1>. DEFINE n == Len(a)
            m == Len(b)
            k == Len(c)
            s == Framed(a, b, c)
            t == Framed(x, y, z)
            u == Framed(a, o, c)
            v == Framed(x, o, z)
            At(p, q, r, i) == IF i <= n THEN p[i] ELSE IF i <= n + m THEN q[i - n] ELSE r[i - (n + m)]
<1>2. ASSUME NEW p \in Seq(S), NEW q \in Seq(S), NEW r \in Seq(S), Len(p) = n, Len(q) = m, Len(r) = k
      PROVE  /\ Framed(p, q, r) \in Seq(S) /\ Len(Framed(p, q, r)) = n + m + k
             /\ \A i \in 1..(n + m + k) : Framed(p, q, r)[i] = At(p, q, r, i)
  <2>. HIDE DEF n, m, k
  <2>. QED
    <3>1. /\ Framed(p, q, r) \in Seq(S)
          /\ Len(Framed(p, q, r)) = Len(p) + Len(q) + Len(r)
      BY <1>9
    <3>2. \A i \in 1..(Len(p) + Len(q) + Len(r)) : Framed(p, q, r)[i] = FramedAt(p, q, r, i)
      BY <1>9
    <3>3. \A i : FramedAt(p, q, r, i) = At(p, q, r, i)
      BY <1>2 DEF FramedAt
    <3>. HIDE DEF At
    <3>. QED
      BY <1>2, <3>1, <3>2, <3>3
<1>0. SUFFICES ASSUME Len(a) = Len(x), Len(b) = Len(y), Len(c) = Len(z), Len(o) = Len(b),
                      place \in 1..Len(s), DifferAt(s, t, place)
               PROVE  (b # y /\ u = v) \/ (b = y /\ DifferAt(u, v, place))
  BY DEF HitOnce
<1>1. /\ n \in Nat /\ m \in Nat /\ k \in Nat
      /\ Len(x) = n /\ Len(y) = m /\ Len(o) = m /\ Len(z) = k
  BY <1>0
<1>. HIDE DEF n, m, k
<1>3. /\ Len(s) = n + m + k /\ \A i \in 1..(n + m + k) : s[i] = At(a, b, c, i)
      /\ \A i \in 1..(n + m + k) : t[i] = At(x, y, z, i)
  BY <1>1, <1>2, SMTT(20) DEF n, m, k
<1>4. u \in Seq(S) /\ Len(u) = n + m + k /\ \A i \in 1..(n + m + k) : u[i] = At(a, o, c, i)
  BY <1>1, <1>2 DEF n, k
<1>5. v \in Seq(S) /\ Len(v) = n + m + k /\ \A i \in 1..(n + m + k) : v[i] = At(x, o, z, i)
  <2>1. x \in Seq(S) /\ o \in Seq(S) /\ z \in Seq(S) /\ Len(x) = n /\ Len(o) = m /\ Len(z) = k
    BY <1>1
  <2>. HIDE DEF At
  <2>. QED
    BY <1>2, <2>1
<1>6. place \in 1..(n + m + k) /\ s[place] # t[place]
      /\ \A i \in 1..(n + m + k) : i # place => s[i] = t[i]
  BY <1>0, <1>3 DEF DifferAt
<1>. HIDE DEF s, t, u, v
<1>7. CASE n < place /\ place <= n + m
  <2>1. b[place - n] # y[place - n]
    <3>1. s[place] = At(a, b, c, place) /\ t[place] = At(x, y, z, place)
      BY <1>3, <1>6
    <3>2. ~(place <= n) /\ place <= n + m
      BY <1>1, <1>6, <1>7
    <3>. QED
      BY <1>6, <3>1, <3>2
  <2>2. ASSUME NEW i \in 1..(n + m + k) PROVE u[i] = v[i]
    <3>1. CASE n < i /\ i <= n + m
      <4>1. u[i] = At(a, o, c, i) /\ v[i] = At(x, o, z, i)
        BY <1>4, <1>5
      <4>2. ~(i <= n)
        BY <1>1, <3>1
      <4>. QED
        BY <3>1, <4>1, <4>2
    <3>2. CASE ~(n < i /\ i <= n + m)
      <4>1. s[i] = t[i]
        BY <1>6, <1>7, <3>2
      <4>2. s[i] = At(a, b, c, i) /\ t[i] = At(x, y, z, i)
            /\ u[i] = At(a, o, c, i) /\ v[i] = At(x, o, z, i)
        BY <1>3, <1>4, <1>5
      <4>. QED
        BY <1>1, <3>2, <4>1, <4>2
    <3>. QED
      BY <3>1, <3>2
  <2>3. u = v
    BY <1>4, <1>5, <2>2, SeqEqual
  <2>4. b # y
    BY <2>1
  <2>. QED
    BY <2>3, <2>4 DEF u, v
<1>8. CASE ~(n < place /\ place <= n + m)
  <2>1. ASSUME NEW i \in 1..m PROVE b[i] = y[i]
    <3>1. n + i \in 1..(n + m + k) /\ n + i # place /\ ~(n + i <= n) /\ n + i <= n + m /\ (n + i) - n = i
      BY <1>1, <1>8
    <3>2. s[n + i] = t[n + i]
      BY <1>6, <3>1
    <3>3. s[n + i] = At(a, b, c, n + i) /\ t[n + i] = At(x, y, z, n + i)
      BY <1>3, <3>1
    <3>. QED
      BY <3>1, <3>2, <3>3
  <2>2. b = y
    BY <1>1, <2>1, SeqEqual DEF m
  <2>3. ASSUME NEW i \in 1..(n + m + k) PROVE (s[i] = t[i] <=> u[i] = v[i]) \/ (n < i /\ i <= n + m)
    <3>1. s[i] = At(a, b, c, i) /\ t[i] = At(x, y, z, i)
          /\ u[i] = At(a, o, c, i) /\ v[i] = At(x, o, z, i)
      BY <1>3, <1>4, <1>5
    <3>. QED
      BY <1>1, <3>1
  <2>4. ASSUME NEW i \in 1..(n + m + k), n < i, i <= n + m PROVE u[i] = v[i]
    BY <1>1, <1>4, <1>5, <2>4
  <2>5. u[place] # v[place]
    BY <1>6, <1>8, <2>3
  <2>6. \A i \in 1..(n + m + k) : i # place => u[i] = v[i]
    BY <1>6, <2>3, <2>4
  <2>. QED
    BY <1>4, <2>2, <2>5, <2>6 DEF DifferAt, u, v
<1>. QED
  BY <1>7, <1>8

\* Hit anywhere, a header is not one that serialize makes with its own crc.
LEMMA OneByteRefused ==
  ASSUME NEW h \in HeaderType, h.header_crc32 = compute_header_crc32(h),
         NEW data \in Seq(ByteValues), Len(data) = EncodedSize,
         NEW place \in 1..EncodedSize, DifferAt(serialize(h, TRUE), data, place)
  PROVE  deserialize(data) = Refused
<1>. SUFFICES ASSUME deserialize(data) # Refused PROVE FALSE
  OBVIOUS
<1>1. PICK g \in HeaderType : data = serialize(g, TRUE) /\ g.header_crc32 = compute_header_crc32(g)
  BY AcceptedIsSerialized
<1>. DEFINE a == FlattenSeq(HeadParts(h))
            b == to_le(h.header_crc32, W32)
            c == to_le(h.payload_crc32, W32)
            o == to_le(0, W32)
            x == FlattenSeq(HeadParts(g))
            y == to_le(g.header_crc32, W32)
            z == to_le(g.payload_crc32, W32)
<1>2. /\ h.header_crc32 \in UInt(W32) /\ h.payload_crc32 \in UInt(W32)
      /\ g.header_crc32 \in UInt(W32) /\ g.payload_crc32 \in UInt(W32) /\ 0 \in UInt(W32)
  BY LayoutFacts DEF HeaderType
<1>3. /\ b \in Seq(ByteValues) /\ Len(b) = W32 /\ from_le(b) = h.header_crc32
      /\ y \in Seq(ByteValues) /\ Len(y) = W32 /\ from_le(y) = g.header_crc32
      /\ c \in Seq(ByteValues) /\ Len(c) = W32 /\ z \in Seq(ByteValues) /\ Len(z) = W32
      /\ o \in Seq(ByteValues) /\ Len(o) = W32
  BY <1>2, FieldBytes
<1>4. /\ serialize(h, TRUE) = Framed(a, b, c) /\ serialize(h, FALSE) = Framed(a, o, c)
      /\ a \in Seq(ByteValues) /\ serialize(h, FALSE) \in Seq(ByteValues)
      /\ Len(serialize(h, TRUE)) = EncodedSize /\ Len(serialize(h, FALSE)) = EncodedSize
  BY SerializedBytes
<1>5. /\ serialize(g, TRUE) = Framed(x, y, z) /\ serialize(g, FALSE) = Framed(x, o, z)
      /\ x \in Seq(ByteValues) /\ serialize(g, FALSE) \in Seq(ByteValues)
      /\ Len(serialize(g, TRUE)) = EncodedSize /\ Len(serialize(g, FALSE)) = EncodedSize
  BY SerializedBytes
<1>. HIDE DEF a, b, c, o, x, y, z, ByteValues
<1>6. Len(a) = Len(x)
  <2>1. Len(Framed(a, b, c)) = Len(a) + Len(b) + Len(c)
    <3>1. a \in Seq(ByteValues) /\ b \in Seq(ByteValues) /\ c \in Seq(ByteValues)
      BY <1>3, <1>4
    <3>. QED
      BY <3>1, FramedLength
  <2>2. Len(Framed(x, y, z)) = Len(x) + Len(y) + Len(z)
    <3>1. x \in Seq(ByteValues) /\ y \in Seq(ByteValues) /\ z \in Seq(ByteValues)
      BY <1>3, <1>5
    <3>. QED
      BY <3>1, FramedLength
  <2>3. Len(a) \in Nat /\ Len(x) \in Nat /\ W32 \in Nat
    BY <1>4, <1>5, WidthFacts
  <2>. QED
    <3>1. Len(a) + W32 + W32 = EncodedSize
      BY <1>3, <1>4, <2>1
    <3>2. Len(x) + W32 + W32 = EncodedSize
      BY <1>3, <1>5, <2>2
    <3>. QED
      BY <2>3, <3>1, <3>2
<1>7. \/ b # y /\ Framed(a, o, c) = Framed(x, o, z)
      \/ b = y /\ DifferAt(Framed(a, o, c), Framed(x, o, z), place)
  <2>1. HitOnce(a, b, c, o, x, y, z, place)
    BY <1>1, <1>3, <1>4, <1>5, <1>6 DEF HitOnce
  <2>. QED
    <3>1. /\ a \in Seq(ByteValues) /\ b \in Seq(ByteValues) /\ c \in Seq(ByteValues)
          /\ o \in Seq(ByteValues) /\ x \in Seq(ByteValues) /\ y \in Seq(ByteValues) /\ z \in Seq(ByteValues)
      BY <1>3, <1>4, <1>5
    <3>. QED
      BY <2>1, <3>1, DifferInMiddle
<1>8. /\ h.header_crc32 = crc32(serialize(h, FALSE))
      /\ g.header_crc32 = crc32(serialize(g, FALSE))
  BY <1>1 DEF compute_header_crc32
<1>9. CASE b # y /\ Framed(a, o, c) = Framed(x, o, z)
  <2>1. h.header_crc32 = g.header_crc32
    BY <1>4, <1>5, <1>8, <1>9
  <2>2. b = y
    BY <2>1 DEF b, y
  <2>. QED
    BY <1>9, <2>2
<1>10. CASE b = y /\ DifferAt(Framed(a, o, c), Framed(x, o, z), place)
  <2>1. h.header_crc32 = g.header_crc32
    BY <1>3, <1>10
  <2>2. DifferAt(serialize(h, FALSE), serialize(g, FALSE), place)
    BY <1>4, <1>5, <1>10
  <2>3. Len(serialize(h, FALSE)) = Len(serialize(g, FALSE)) /\ place \in 1..Len(serialize(h, FALSE))
    BY <1>4, <1>5
  <2>4. crc32(serialize(h, FALSE)) # crc32(serialize(g, FALSE))
    BY <1>4, <1>5, <2>2, <2>3, CrcSeesOneByte
  <2>. QED
    BY <1>8, <2>1, <2>4
<1>. QED
  BY <1>7, <1>9, <1>10

LEMMA HeaderEncoded ==
  ASSUME NEW h \in Headers
  PROVE  /\ Corrected(h) \in HeaderType
         /\ Corrected(h).version = Version /\ Corrected(h).header_size = EncodedSize
         /\ Corrected(h).header_crc32 = compute_header_crc32(Corrected(h))
         /\ encode_patch_header(h) = serialize(Corrected(h), TRUE)
<1>1. /\ h.version = Version /\ h.header_size = EncodedSize /\ h.file_id \in FileIds
      /\ h.total_patches \in Numbers /\ h.patch_index \in Numbers /\ h.payload_size \in Numbers
      /\ h.header_crc32 = 0 /\ h.payload_crc32 \in Numbers
  BY DEF Headers
<1>2. /\ Version \in UInt(W32) /\ EncodedSize \in UInt(W32) /\ FileIds \subseteq UInt(W64)
      /\ Numbers \subseteq UInt(W32) /\ 0 \in UInt(W32)
  BY CodecAssumption, LayoutFacts
<1>. DEFINE crc == compute_header_crc32(h)
<1>3. h \in HeaderType
  <2>1. h = [version |-> h.version, header_size |-> h.header_size, file_id |-> h.file_id,
             total_patches |-> h.total_patches, patch_index |-> h.patch_index,
             payload_size |-> h.payload_size, header_crc32 |-> h.header_crc32,
             payload_crc32 |-> h.payload_crc32]
    BY DEF Headers
  <2>. QED
    BY <1>1, <1>2, <2>1 DEF HeaderType
<1>4. serialize(h, FALSE) \in Seq(ByteValues)
  BY <1>2, <1>3, SerializeIs, HeaderBytes
<1>5. crc \in UInt(W32)
  BY <1>4, CrcIs DEF compute_header_crc32
<1>. HIDE DEF crc
<1>6. Corrected(h) = [h EXCEPT !.header_crc32 = crc]
  BY DEF Corrected, crc
<1>7. Corrected(h) \in HeaderType
  BY <1>3, <1>5, <1>6 DEF HeaderType
<1>8. /\ Corrected(h).version = h.version /\ Corrected(h).header_size = h.header_size
      /\ Corrected(h).file_id = h.file_id /\ Corrected(h).total_patches = h.total_patches
      /\ Corrected(h).patch_index = h.patch_index /\ Corrected(h).payload_size = h.payload_size
      /\ Corrected(h).payload_crc32 = h.payload_crc32 /\ Corrected(h).header_crc32 = crc
  BY <1>3, <1>6 DEF HeaderType
<1>9. serialize(Corrected(h), FALSE) = serialize(h, FALSE)
  BY <1>8 DEF serialize
<1>10. Corrected(h).header_crc32 = compute_header_crc32(Corrected(h))
  BY <1>8, <1>9 DEF compute_header_crc32, crc
<1>11. encode_patch_header(h) = serialize(Corrected(h), TRUE)
  <2>1. CASE h.header_crc32 = crc
    <3>1. encode_patch_header(h) = serialize(h, TRUE)
      BY <2>1 DEF encode_patch_header, crc
    <3>2. serialize(h, TRUE) = serialize(Corrected(h), TRUE)
      BY <1>8, <2>1 DEF serialize
    <3>. QED
      BY <3>1, <3>2
  <2>2. CASE h.header_crc32 # crc
    BY <2>2 DEF encode_patch_header, crc
  <2>. QED
    BY <2>1, <2>2
<1>. QED
  BY <1>1, <1>7, <1>8, <1>10, <1>11

\* A header arrives as it was sent, but with its crc.
LEMMA HeaderArrives ==
  ASSUME NEW h \in Headers
  PROVE  /\ deserialize(encode_patch_header(h)) = Corrected(h)
         /\ encode_patch_header(h) \in Seq(ByteValues)
         /\ Len(encode_patch_header(h)) = EncodedSize
<1>. DEFINE d == encode_patch_header(h)
            g == Corrected(h)
<1>1. /\ g \in HeaderType /\ g.version = Version /\ g.header_size = EncodedSize
      /\ g.header_crc32 = compute_header_crc32(g) /\ d = serialize(g, TRUE)
  BY HeaderEncoded
<1>. HIDE DEF d, g
<1>2. d \in Seq(ByteValues) /\ Len(d) = EncodedSize
  BY <1>1, SerializeIs, HeaderBytes
<1>3. Slices(d, Layout) = HeaderParts(g, g.header_crc32) /\ HeaderOf(HeaderParts(g, g.header_crc32)) = g
  BY <1>1, HeaderRead
<1>4. HeaderParts(g, g.header_crc32)[1] = Magic
  BY DEF HeaderParts
<1>5. Len(d) >= EncodedSize
  BY <1>2, LayoutFacts
<1>6. deserialize(d) = g
  BY <1>1, <1>3, <1>4, <1>5 DEF deserialize
<1>. QED
  BY <1>2, <1>6 DEF d, g

LEMMA HeaderHit ==
  ASSUME NEW h \in Headers, NEW i \in DOMAIN encode_patch_header(h), NEW b \in ByteValues,
         encode_patch_header(h)[i] # b
  PROVE  deserialize([encode_patch_header(h) EXCEPT ![i] = b]) = Refused
<1>. DEFINE d == encode_patch_header(h)
            e == [d EXCEPT ![i] = b]
            g == Corrected(h)
<1>1. g \in HeaderType /\ g.header_crc32 = compute_header_crc32(g) /\ d = serialize(g, TRUE)
  BY HeaderEncoded
<1>2. d \in Seq(ByteValues) /\ Len(d) = EncodedSize
  BY HeaderArrives
<1>3. i \in 1..EncodedSize /\ d[i] # b
  BY <1>2
<1>. HIDE DEF d, g
<1>4. e \in Seq(ByteValues) /\ Len(e) = EncodedSize /\ DifferAt(d, e, i)
  <2>. HIDE DEF ByteValues
  <2>1. e \in Seq(ByteValues) /\ Len(e) = Len(d)
    BY <1>2, <1>3
  <2>2. e[i] = b /\ \A j \in 1..Len(d) : j # i => e[j] = d[j]
    BY <1>2, <1>3
  <2>. QED
    BY <1>2, <1>3, <2>1, <2>2 DEF DifferAt
<1>. HIDE DEF e
<1>5. deserialize(e) = Refused
  BY <1>1, <1>3, <1>4, OneByteRefused
<1>. QED
  BY <1>5 DEF d, e

LEMMA HeaderCut ==
  ASSUME NEW h \in Headers, NEW n \in 0..(Len(encode_patch_header(h)) - 1)
  PROVE  deserialize(SubSeq(encode_patch_header(h), 1, n)) = Refused
<1>. DEFINE d == encode_patch_header(h)
<1>1. d \in Seq(ByteValues) /\ Len(d) = EncodedSize
  BY HeaderArrives
<1>. HIDE DEF d
<1>2. n \in 0..Len(d) /\ n < EncodedSize
  BY <1>1 DEF d
<1>3. Len(SubSeq(d, 1, n)) = n
  BY <1>1, <1>2, PrefixFacts
<1>4. ~(Len(SubSeq(d, 1, n)) >= EncodedSize)
  BY <1>2, <1>3, LayoutFacts
<1>. QED
  BY <1>4 DEF deserialize, d

-----------------------------------------------------------------------------
(* System messages: the type says which fields follow, and the fields how  *)
(* many bytes there must be.                                               *)

LEMMA ConcatAppend ==
  ASSUME NEW S, NEW s \in Seq(S), NEW t \in Seq(S), NEW e \in S
  PROVE  s \o Append(t, e) = Append(s \o t, e)
OBVIOUS

LEMMA FlattenConcat ==
  ASSUME NEW S, NEW ps \in Seq(Seq(S)), NEW qs \in Seq(Seq(S))
  PROVE  FlattenSeq(ps \o qs) = FlattenSeq(ps) \o FlattenSeq(qs)
<1>. DEFINE T == {n \in Nat : \A rs \in Seq(Seq(S)) :
                    Len(rs) = n => FlattenSeq(ps \o rs) = FlattenSeq(ps) \o FlattenSeq(rs)}
<1>. HIDE DEF T
<1>1. 0 \in T
  <2>1. ASSUME NEW rs \in Seq(Seq(S)), Len(rs) = 0
        PROVE  FlattenSeq(ps \o rs) = FlattenSeq(ps) \o FlattenSeq(rs)
    <3>1. rs = <<>> /\ ps \o <<>> = ps /\ Len(<<>>) = 0
      BY <2>1
    <3>2. FlattenSeq(<<>>) = <<>>
      BY <3>1 DEF FlattenSeq
    <3>3. FlattenSeq(ps) \in Seq(S)
      BY FlattenType
    <3>4. FlattenSeq(ps) \o <<>> = FlattenSeq(ps)
      BY <3>3, ConcatEmptySeq
    <3>. QED
      BY <3>1, <3>2, <3>4
  <2>. QED
    BY <2>1 DEF T
<1>2. ASSUME NEW n \in Nat, n \in T PROVE n + 1 \in T
  <2>1. ASSUME NEW rs \in Seq(Seq(S)), Len(rs) = n + 1
        PROVE  FlattenSeq(ps \o rs) = FlattenSeq(ps) \o FlattenSeq(rs)
    <3>1. PICK us \in Seq(Seq(S)), u \in Seq(S) : rs = Append(us, u) /\ Len(us) = n
      BY <2>1, LastOff
    <3>2. FlattenSeq(ps \o us) = FlattenSeq(ps) \o FlattenSeq(us)
      BY <1>2, <3>1 DEF T
    <3>3. ps \o rs = Append(ps \o us, u)
      BY <3>1, ConcatAppend
    <3>4. ps \o us \in Seq(Seq(S))
      OBVIOUS
    <3>5. FlattenSeq(Append(ps \o us, u)) = FlattenSeq(ps \o us) \o u
      BY <3>4, FlattenAppend
    <3>6. FlattenSeq(Append(us, u)) = FlattenSeq(us) \o u
      BY FlattenAppend
    <3>7. FlattenSeq(ps) \in Seq(S) /\ FlattenSeq(us) \in Seq(S)
      BY FlattenType
    <3>8. (FlattenSeq(ps) \o FlattenSeq(us)) \o u = FlattenSeq(ps) \o (FlattenSeq(us) \o u)
      BY <3>7, ConcatAssociative, SMTT(20)
    <3>. QED
      BY <3>1, <3>2, <3>3, <3>5, <3>6, <3>8
  <2>. QED
    BY <2>1 DEF T
<1>3. \A n \in Nat : n \in T
  BY <1>1, <1>2, Induction
<1>4. Len(qs) \in Nat
  OBVIOUS
<1>. QED
  BY <1>3, <1>4 DEF T

LEMMA PrefixOfConcat ==
  ASSUME NEW S, NEW a \in Seq(S), NEW b \in Seq(S)
  PROVE  SubSeq(a \o b, 1, Len(a)) = a
<1>. DEFINE c == a \o b
            d == SubSeq(c, 1, Len(a))
<1>1. c \in Seq(S) /\ Len(c) = Len(a) + Len(b)
      /\ \A i \in 1..(Len(a) + Len(b)) : c[i] = IF i <= Len(a) THEN a[i] ELSE b[i - Len(a)]
  BY ConcatProperties
<1>2. Len(a) \in 0..Len(c) /\ \A i \in 1..Len(a) : i \in 1..(Len(a) + Len(b)) /\ i <= Len(a)
  BY <1>1
<1>. HIDE DEF c
<1>3. d \in Seq(S) /\ Len(d) = Len(a) /\ \A i \in 1..Len(a) : d[i] = c[i]
  BY <1>1, <1>2, PrefixFacts
<1>. HIDE DEF d
<1>4. \A i \in 1..Len(a) : d[i] = a[i]
  BY <1>1, <1>2, <1>3
<1>5. d = a
  BY <1>3, <1>4, SeqEqual
<1>. QED
  BY <1>5 DEF d, c

LEMMA PrefixOfPrefix ==
  ASSUME NEW S, NEW s \in Seq(S), NEW n \in 0..Len(s), NEW m \in 0..n
  PROVE  SubSeq(SubSeq(s, 1, n), 1, m) = SubSeq(s, 1, m)
<1>. DEFINE a == SubSeq(s, 1, n)
            b == SubSeq(a, 1, m)
            c == SubSeq(s, 1, m)
<1>1. a \in Seq(S) /\ Len(a) = n /\ \A i \in 1..n : a[i] = s[i]
  BY PrefixFacts
<1>2. m \in 0..Len(s) /\ \A i \in 1..m : i \in 1..n
  OBVIOUS
<1>3. c \in Seq(S) /\ Len(c) = m /\ \A i \in 1..m : c[i] = s[i]
  BY <1>2, PrefixFacts
<1>. HIDE DEF a, c
<1>4. b \in Seq(S) /\ Len(b) = m /\ \A i \in 1..m : b[i] = a[i]
  BY <1>1, PrefixFacts
<1>. HIDE DEF b
<1>5. \A i \in 1..m : b[i] = c[i]
  BY <1>1, <1>2, <1>3, <1>4
<1>6. b = c
  BY <1>3, <1>4, <1>5, SeqEqual
<1>. QED
  BY <1>6 DEF a, b, c

\* The first fields of data, where more follow or the end is missing.
LEMMA FirstFields ==
  ASSUME NEW S, NEW ps \in Seq(Seq(S)), NEW qs \in Seq(Seq(S)),
         NEW n \in 0..Len(FlattenSeq(ps \o qs)), Total(Lengths(ps)) <= n
  PROVE  Slices(SubSeq(FlattenSeq(ps \o qs), 1, n), Lengths(ps)) = ps
<1>. DEFINE a == FlattenSeq(ps)
            b == FlattenSeq(qs)
            c == FlattenSeq(ps \o qs)
            d == SubSeq(c, 1, n)
<1>1. a \in Seq(S) /\ b \in Seq(S) /\ c = a \o b /\ Len(a) = Total(Lengths(ps))
  BY FlattenType, FlattenConcat, FlattenLength
<1>2. c \in Seq(S)
  BY <1>1
<1>. HIDE DEF a, b, c
<1>3. n \in 0..Len(c) /\ Len(a) \in 0..n
  BY <1>1, <1>2 DEF c
<1>4. d \in Seq(S) /\ Len(d) = n
  BY <1>2, <1>3, PrefixFacts
<1>5. SubSeq(d, 1, Len(a)) = SubSeq(c, 1, Len(a))
  BY <1>2, <1>3, PrefixOfPrefix
<1>6. SubSeq(c, 1, Len(a)) = a
  BY <1>1, PrefixOfConcat
<1>. HIDE DEF d
<1>7. SubSeq(d, 1, Total(Lengths(ps))) = FlattenSeq(ps)
  BY <1>1, <1>5, <1>6 DEF a
<1>8. Slices(d, Lengths(ps)) = ps
  BY <1>4, <1>7, SlicesOfFlatten
<1>. QED
  BY <1>8 DEF c, d

\* The whole data is a beginning of itself.
LEMMA AllFields ==
  ASSUME NEW S, NEW ps \in Seq(Seq(S))
  PROVE  /\ FlattenSeq(ps) \in Seq(S) /\ Len(FlattenSeq(ps)) = Total(Lengths(ps))
         /\ Len(FlattenSeq(ps)) \in Nat
         /\ Slices(FlattenSeq(ps), Lengths(ps)) = ps
<1>. DEFINE a == FlattenSeq(ps)
<1>1. a \in Seq(S) /\ Len(a) = Total(Lengths(ps))
  BY FlattenType, FlattenLength
<1>2. SubSeq(a, 1, Total(Lengths(ps))) = FlattenSeq(ps)
  <2>1. SubSeq(a, 1, Len(a)) = a
    BY <1>1, SubSeqFull
  <2>. QED
    BY <1>1, <2>1 DEF a
<1>3. Total(Lengths(ps)) <= Len(a) /\ Len(a) \in Nat
  BY <1>1
<1>4. Slices(a, Lengths(ps)) = ps
  BY <1>1, <1>2, <1>3, SlicesOfFlatten
<1>. QED
  BY <1>1, <1>3, <1>4

LEMMA SinglePart ==
  ASSUME NEW S, NEW p \in Seq(S)
  PROVE  <<p>> \in Seq(Seq(S)) /\ FlattenSeq(<<p>>) = p
<1>1. <<>> \in Seq(Seq(S)) /\ <<p>> = Append(<<>>, p) /\ <<p>> \in Seq(Seq(S))
  OBVIOUS
<1>2. FlattenSeq(Append(<<>>, p)) = FlattenSeq(<<>>) \o p /\ FlattenSeq(<<>>) = <<>>
  BY <1>1, FlattenAppend
<1>3. <<>> \o p = p
  BY ConcatEmptySeq
<1>. QED
  BY <1>1, <1>2, <1>3

LEMMA CutInTwo ==
  ASSUME NEW S, NEW s \in Seq(S), NEW k \in 0..Len(s)
  PROVE  \E a \in Seq(S), b \in Seq(S) : s = a \o b /\ Len(a) = k /\ \A i \in 1..k : a[i] = s[i]
<1>. DEFINE a == SubSeq(s, 1, k)
            b == SubSeq(s, k + 1, Len(s))
<1>1. a \in Seq(S) /\ Len(a) = k /\ \A i \in 1..k : a[i] = s[i]
  BY PrefixFacts
<1>2. b \in Seq(S) /\ Len(b) = Len(s) - k /\ \A i \in 1..(Len(s) - k) : b[i] = s[k + i]
  <2>1. k \in Nat /\ Len(s) \in Nat /\ k <= Len(s) /\ Len(s) <= Len(s)
    OBVIOUS
  <2>. QED
    BY <2>1, SubSeqFacts
<1>. HIDE DEF a, b
<1>3. a \o b \in Seq(S) /\ Len(a \o b) = Len(a) + Len(b)
      /\ \A i \in 1..(Len(a) + Len(b)) : (a \o b)[i] = IF i <= Len(a) THEN a[i] ELSE b[i - Len(a)]
  BY <1>1, <1>2, ConcatProperties
<1>4. Len(a \o b) = Len(s) /\ Len(s) \in Nat /\ k \in 0..Len(s)
  BY <1>1, <1>2, <1>3
<1>5. ASSUME NEW i \in 1..Len(s) PROVE s[i] = (a \o b)[i]
  <2>1. CASE i <= k
    BY <1>1, <1>3, <1>4, <2>1
  <2>2. CASE ~(i <= k)
    <3>1. i - k \in 1..(Len(s) - k) /\ k + (i - k) = i
      BY <1>4, <2>2
    <3>2. b[i - k] = s[i]
      BY <1>2, <3>1
    <3>. QED
      BY <1>1, <1>3, <1>4, <2>2, <3>2
  <2>. QED
    BY <2>1, <2>2
<1>6. s = a \o b
  BY <1>3, <1>4, <1>5, SeqEqual
<1>. QED
  BY <1>1, <1>2, <1>6

LEMMA SingleIs ==
  ASSUME NEW S, NEW s \in Seq(S), Len(s) = 1
  PROVE  s = <<s[1]>>
OBVIOUS

Received(p, parts, n) ==
  LET enc == FlattenSeq(parts)
      data == SubSeq(enc, 1, n)
      widths == Lengths(parts) IN
  /\ parts \in Seq(Seq(ByteValues))
  /\ enc \in Seq(ByteValues) /\ data \in Seq(ByteValues) /\ Len(data) = n
  /\ Len(enc) >= W16
  /\ n >= W16 => SubSeq(data, 1, W16) = p
  /\ n = Len(enc) => data = enc
  /\ Slices(enc, widths) = parts
  /\ Readable(data, widths) <=> n = Len(enc)
  /\ Len(enc) = Total(widths)

LEMMA AllOrLess ==
  ASSUME NEW most \in Nat, NEW n \in 0..most
  PROVE  n >= most <=> n = most
OBVIOUS

\* A frame of some parts, the first of them the type, of which n bytes arrived.
LEMMA PartsRead ==
  ASSUME NEW parts \in Seq(Seq(ByteValues)), Len(parts) >= 1, Len(parts[1]) = W16,
         NEW n \in 0..Len(FlattenSeq(parts))
  PROVE  Received(parts[1], parts, n)
<1>. DEFINE p == parts[1]
            enc == FlattenSeq(parts)
            data == SubSeq(enc, 1, n)
            widths == Lengths(parts)
<1>0. W16 \in Nat
  BY WidthFacts
<1>. HIDE DEF ByteValues
<1>1. p \in Seq(ByteValues)
  <2>1. 1 \in 1..Len(parts)
    OBVIOUS
  <2>. QED
    BY <2>1, ElementOf
<1>2. PICK qs \in Seq(Seq(ByteValues)), rs \in Seq(Seq(ByteValues)) :
           parts = qs \o rs /\ Len(qs) = 1 /\ \A i \in 1..1 : qs[i] = parts[i]
  <2>. DEFINE T == Seq(ByteValues)
  <2>1. parts \in Seq(T) /\ 1 \in 0..Len(parts)
    OBVIOUS
  <2>. HIDE DEF T
  <2>2. \E a \in Seq(T), b \in Seq(T) : parts = a \o b /\ Len(a) = 1 /\ \A i \in 1..1 : a[i] = parts[i]
    BY <2>1, CutInTwo
  <2>. QED
    BY <2>2 DEF T
<1>. DEFINE rest == FlattenSeq(rs)
<1>3. enc = p \o rest /\ rest \in Seq(ByteValues)
  <2>1. qs[1] = p /\ 1 \in 1..1
    BY <1>2
  <2>2. qs = <<p>>
    <3>. DEFINE T == Seq(ByteValues)
    <3>. HIDE DEF T
    <3>1. \A s \in Seq(T) : Len(s) = 1 => s = <<s[1]>>
      BY SingleIs
    <3>. QED
      BY <1>2, <2>1, <3>1 DEF T
  <2>3. FlattenSeq(<<p>>) = p
    BY <1>1, SinglePart
  <2>4. FlattenSeq(qs \o rs) = FlattenSeq(qs) \o FlattenSeq(rs)
    BY FlattenConcat
  <2>5. rest \in Seq(ByteValues)
    BY FlattenType
  <2>. QED
    BY <1>2, <2>2, <2>3, <2>4, <2>5
<1>4. enc \in Seq(ByteValues) /\ Len(enc) = Total(widths) /\ Slices(enc, widths) = parts
  BY AllFields
<1>. HIDE DEF enc, widths, p, rest
<1>5. Len(enc) = W16 + Len(rest) /\ Len(rest) \in Nat
  <2>1. Len(p \o rest) = Len(p) + Len(rest)
    BY <1>1, <1>3, ConcatProperties
  <2>2. Len(p) = W16
    BY DEF p
  <2>. QED
    BY <1>3, <2>1, <2>2
<1>6. n \in 0..Len(enc) /\ Len(enc) \in Nat
  BY <1>4 DEF enc
<1>7. data \in Seq(ByteValues) /\ Len(data) = n
  BY <1>4, <1>6, PrefixFacts
<1>8. ASSUME n >= W16 PROVE SubSeq(data, 1, W16) = p
  <2>1. W16 \in 0..n
    BY <1>0, <1>6, <1>8
  <2>2. SubSeq(data, 1, W16) = SubSeq(enc, 1, W16)
    BY <1>4, <1>6, <2>1, PrefixOfPrefix
  <2>3. SubSeq(p \o rest, 1, Len(p)) = p /\ Len(p) = W16
    BY <1>1, <1>3, PrefixOfConcat DEF p
  <2>. QED
    BY <1>3, <2>2, <2>3
<1>9. n = Len(enc) => data = enc
  BY <1>4, SubSeqFull
<1>10. Readable(data, widths) <=> n = Len(enc)
  <2>1. n >= Len(enc) <=> n = Len(enc)
    BY <1>6, AllOrLess
  <2>. HIDE DEF data
  <2>. QED
    BY <1>4, <1>7, <2>1 DEF Readable
<1>11. Len(enc) >= W16
  BY <1>0, <1>5
<1>. QED
  BY <1>4, <1>7, <1>8, <1>9, <1>10, <1>11 DEF Received, enc, widths, p

LEMMA TypeBytes ==
  ASSUME NEW t \in 1..4
  PROVE  /\ to_le(t, W16) \in Seq(ByteValues) /\ Len(to_le(t, W16)) = W16
         /\ from_le(to_le(t, W16)) = t
<1>1. t \in UInt(W16)
  BY CodecAssumption
<1>. QED
  BY <1>1, FieldBytes

LEMMA Dispatch ==
  ASSUME NEW data, NEW t \in 1..4, Len(data) \in Nat,
         Len(data) >= W16 => SubSeq(data, 1, W16) = to_le(t, W16)
  PROVE  /\ Len(data) < W16 => decode_system_message(data) = Refused
         /\ Len(data) >= W16 =>
              decode_system_message(data) =
                IF t = 1 THEN decode_queue_size(data)
                ELSE IF t = 2 THEN decode_file_meta(data)
                ELSE IF t = 3 THEN decode_file_patch_map(data)
                ELSE decode_control(data)
<1>0. W16 \in Nat
  BY WidthFacts
<1>1. ASSUME Len(data) < W16 PROVE decode_system_message(data) = Refused
  BY <1>1 DEF decode_system_message
<1>2. ASSUME Len(data) >= W16
      PROVE  decode_system_message(data) =
                IF t = 1 THEN decode_queue_size(data)
                ELSE IF t = 2 THEN decode_file_meta(data)
                ELSE IF t = 3 THEN decode_file_patch_map(data)
                ELSE decode_control(data)
  <2>1. from_le(SubSeq(data, 1, W16)) = t /\ ~(Len(data) < W16)
    <3>1. SubSeq(data, 1, W16) = to_le(t, W16) /\ ~(Len(data) < W16)
      BY <1>0, <1>2
    <3>. QED
      BY <3>1, TypeBytes
  <2>. QED
    BY <2>1 DEF decode_system_message
<1>. QED
  BY <1>1, <1>2

\* So much of a message as n bytes decodes to it if they are all, and to nothing else.
Survives(m, n) ==
  decode_system_message(SubSeq(encode_system_message(m), 1, n)) =
    IF n = Len(encode_system_message(m)) THEN m ELSE Refused

\* Two and three parts.
LEMMA PartsOf ==
  ASSUME NEW S, NEW a \in S, NEW b \in S, NEW c \in S
  PROVE  <<a, b>> \in Seq(S) /\ <<a, b, c>> \in Seq(S)
OBVIOUS

LEMMA ThreeLengths ==
  ASSUME NEW p, NEW q, NEW r
  PROVE  Lengths(<<p, q, r>>) = <<Len(p), Len(q), Len(r)>>
BY DEF Lengths

LEMMA QueueSizeSurvives ==
  ASSUME NEW m \in Messages, m.type = 1
  PROVE  /\ encode_system_message(m) \in Seq(ByteValues)
         /\ \A n \in 0..Len(encode_system_message(m)) : Survives(m, n)
<1>. DEFINE p == to_le(1, W16)
            q == to_le(m.queue_size, W32)
            parts == <<p, q>>
            enc == FlattenSeq(parts)
<1>1. m = [type |-> 1, queue_size |-> m.queue_size] /\ m.queue_size \in UInt(W32)
  BY CodecAssumption DEF Messages
<1>2. p \in Seq(ByteValues) /\ Len(p) = W16
  BY TypeBytes
<1>3. q \in Seq(ByteValues) /\ Len(q) = W32 /\ from_le(q) = m.queue_size
  BY <1>1, FieldBytes
<1>4. encode_system_message(m) = enc
  BY <1>1 DEF encode_system_message
<1>. HIDE DEF p, q, ByteValues
<1>5. parts \in Seq(Seq(ByteValues)) /\ Len(parts) >= 1 /\ parts[1] = p
  BY <1>2, <1>3, PartsOf
<1>6. Lengths(parts) = QueueSizeFields
  BY <1>2, <1>3 DEF Lengths, QueueSizeFields
<1>7. enc \in Seq(ByteValues)
  BY <1>5, FlattenType
<1>8. ASSUME NEW n \in 0..Len(enc)
      PROVE  decode_system_message(SubSeq(enc, 1, n)) = IF n = Len(enc) THEN m ELSE Refused
  <2>. DEFINE data == SubSeq(enc, 1, n)
  <2>1. /\ Len(data) = n
        /\ n >= W16 => SubSeq(data, 1, W16) = p
        /\ n = Len(enc) => data = enc
        /\ Slices(enc, QueueSizeFields) = parts
        /\ Readable(data, QueueSizeFields) <=> n = Len(enc)
        /\ Len(enc) >= W16
    <3>1. Received(p, parts, n)
      BY <1>2, <1>5, <1>8, PartsRead
    <3>. QED
      BY <1>6, <3>1 DEF Received
  <2>. HIDE DEF enc, data
  <2>2. n \in Nat /\ W16 \in Nat /\ Len(data) \in Nat
    BY <1>8, <2>1, WidthFacts
  <2>3. /\ n < W16 => decode_system_message(data) = Refused
        /\ n >= W16 => decode_system_message(data) = decode_queue_size(data)
    BY <2>1, <2>2, Dispatch DEF p
  <2>4. decode_queue_size(data) = IF n = Len(enc) THEN m ELSE Refused
    BY <1>1, <1>3, <2>1 DEF decode_queue_size
  <2>. QED
    BY <2>1, <2>2, <2>3, <2>4 DEF data
<1>. QED
  BY <1>4, <1>7, <1>8 DEF Survives
LEMMA FilePatchMapSurvives ==
  ASSUME NEW m \in Messages, m.type = 3
  PROVE  /\ encode_system_message(m) \in Seq(ByteValues)
         /\ \A n \in 0..Len(encode_system_message(m)) : Survives(m, n)
<1>. DEFINE p == to_le(3, W16)
            q == to_le(m.file_id, W64)
            r == to_le(m.patch_index, W32)
            parts == <<p, q, r>>
            enc == FlattenSeq(parts)
<1>1. /\ m = [type |-> 3, file_id |-> m.file_id, patch_index |-> m.patch_index]
      /\ m.file_id \in UInt(W64) /\ m.patch_index \in UInt(W32)
  BY CodecAssumption DEF Messages
<1>2. p \in Seq(ByteValues) /\ Len(p) = W16
  BY TypeBytes
<1>3. /\ q \in Seq(ByteValues) /\ Len(q) = W64 /\ from_le(q) = m.file_id
      /\ r \in Seq(ByteValues) /\ Len(r) = W32 /\ from_le(r) = m.patch_index
  BY <1>1, FieldBytes
<1>4. encode_system_message(m) = enc
  BY <1>1 DEF encode_system_message
<1>. HIDE DEF p, q, r, ByteValues
<1>5. parts \in Seq(Seq(ByteValues)) /\ Len(parts) >= 1 /\ parts[1] = p
  BY <1>2, <1>3, PartsOf
<1>6. Lengths(parts) = FilePatchMapFields
  BY <1>2, <1>3 DEF Lengths, FilePatchMapFields
<1>7. enc \in Seq(ByteValues)
  BY <1>5, FlattenType
<1>8. ASSUME NEW n \in 0..Len(enc)
      PROVE  decode_system_message(SubSeq(enc, 1, n)) = IF n = Len(enc) THEN m ELSE Refused
  <2>. DEFINE data == SubSeq(enc, 1, n)
  <2>1. /\ Len(data) = n
        /\ n >= W16 => SubSeq(data, 1, W16) = p
        /\ n = Len(enc) => data = enc
        /\ Slices(enc, FilePatchMapFields) = parts
        /\ Readable(data, FilePatchMapFields) <=> n = Len(enc)
        /\ Len(enc) >= W16
    <3>1. Received(p, parts, n)
      BY <1>2, <1>5, <1>8, PartsRead
    <3>. QED
      BY <1>6, <3>1 DEF Received
  <2>. HIDE DEF enc, data
  <2>2. n \in Nat /\ W16 \in Nat /\ Len(data) \in Nat
    BY <1>8, <2>1, WidthFacts
  <2>3. /\ n < W16 => decode_system_message(data) = Refused
        /\ n >= W16 => decode_system_message(data) = decode_file_patch_map(data)
    BY <2>1, <2>2, Dispatch DEF p
  <2>4. decode_file_patch_map(data) = IF n = Len(enc) THEN m ELSE Refused
    BY <1>1, <1>3, <2>1 DEF decode_file_patch_map
  <2>. QED
    BY <2>1, <2>2, <2>3, <2>4 DEF data
<1>. QED
  BY <1>4, <1>7, <1>8 DEF Survives
LEMMA ControlSurvives ==
  ASSUME NEW m \in Messages, m.type = 4
  PROVE  /\ encode_system_message(m) \in Seq(ByteValues)
         /\ \A n \in 0..Len(encode_system_message(m)) : Survives(m, n)
<1>. DEFINE p == to_le(4, W16)
            q == <<m.command>>
            r == to_le(m.value_seconds, W32)
            parts == <<p, q, r>>
            enc == FlattenSeq(parts)
<1>1. /\ m = [type |-> 4, command |-> m.command, value_seconds |-> m.value_seconds]
      /\ m.command \in ByteValues /\ m.value_seconds \in UInt(W32)
  BY CodecAssumption DEF Messages
<1>2. p \in Seq(ByteValues) /\ Len(p) = W16
  BY TypeBytes
<1>3. q \in Seq(ByteValues) /\ Len(q) = 1 /\ q[1] = m.command
  BY <1>1
<1>3a. r \in Seq(ByteValues) /\ Len(r) = W32 /\ from_le(r) = m.value_seconds
  BY <1>1, FieldBytes
<1>4. encode_system_message(m) = enc
  BY <1>1 DEF encode_system_message
<1>. HIDE DEF p, q, r, ByteValues
<1>5. parts \in Seq(Seq(ByteValues)) /\ Len(parts) >= 1 /\ parts[1] = p
  BY <1>2, <1>3, <1>3a, PartsOf
<1>6. Lengths(parts) = ControlFields
  <2>1. Len(p) = W16 /\ Len(q) = 1 /\ Len(r) = W32
    BY <1>2, <1>3, <1>3a
  <2>. QED
    BY <2>1, ThreeLengths DEF ControlFields
<1>7. enc \in Seq(ByteValues)
  BY <1>5, FlattenType
<1>8. ASSUME NEW n \in 0..Len(enc)
      PROVE  decode_system_message(SubSeq(enc, 1, n)) = IF n = Len(enc) THEN m ELSE Refused
  <2>. DEFINE data == SubSeq(enc, 1, n)
  <2>1. /\ Len(data) = n
        /\ n >= W16 => SubSeq(data, 1, W16) = p
        /\ n = Len(enc) => data = enc
        /\ Slices(enc, ControlFields) = parts
        /\ Readable(data, ControlFields) <=> n = Len(enc)
        /\ Len(enc) >= W16
    <3>1. Received(p, parts, n)
      BY <1>2, <1>5, <1>8, PartsRead
    <3>. QED
      BY <1>6, <3>1 DEF Received
  <2>. HIDE DEF enc, data
  <2>2. n \in Nat /\ W16 \in Nat /\ Len(data) \in Nat
    BY <1>8, <2>1, WidthFacts
  <2>3. /\ n < W16 => decode_system_message(data) = Refused
        /\ n >= W16 => decode_system_message(data) = decode_control(data)
    <3>1. 4 \in 1..4 /\ 4 # 1 /\ 4 # 2 /\ 4 # 3
      OBVIOUS
    <3>2. n >= W16 => SubSeq(data, 1, W16) = to_le(4, W16)
      BY <2>1 DEF p
    <3>3. ~(n < W16) => n >= W16
      BY <2>2
    <3>. QED
      BY <2>1, <2>2, <3>1, <3>2, <3>3, Dispatch
  <2>4. decode_control(data) = IF n = Len(enc) THEN m ELSE Refused
    BY <1>1, <1>3, <1>3a, <2>1 DEF decode_control
  <2>. QED
    BY <2>1, <2>2, <2>3, <2>4 DEF data
<1>. QED
  BY <1>4, <1>7, <1>8 DEF Survives

LEMMA TripleIs ==
  ASSUME NEW S, NEW s \in Seq(S), Len(s) = 3
  PROVE  s = <<s[1], s[2], s[3]>>
OBVIOUS

LEMMA FirstThree ==
  ASSUME NEW S, NEW parts \in Seq(Seq(S)), Len(parts) >= 3
  PROVE  LET first == <<parts[1], parts[2], parts[3]>> IN
         /\ first \in Seq(Seq(S))
         /\ \E qs \in Seq(Seq(S)) : parts = first \o qs
         /\ Total(Lengths(first)) \in Nat /\ Total(Lengths(first)) <= Total(Lengths(parts))
<1>. DEFINE T == Seq(S)
            first == <<parts[1], parts[2], parts[3]>>
<1>0. 3 \in 0..Len(parts) /\ parts \in Seq(T)
  OBVIOUS
<1>. HIDE DEF T
<1>1. PICK a \in Seq(T), b \in Seq(T) :
           parts = a \o b /\ Len(a) = 3 /\ \A i \in 1..3 : a[i] = parts[i]
  BY <1>0, CutInTwo
<1>2. a = first
  <2>1. a[1] = parts[1] /\ a[2] = parts[2] /\ a[3] = parts[3]
    <3>1. 1 \in 1..3 /\ 2 \in 1..3 /\ 3 \in 1..3
      OBVIOUS
    <3>. QED
      BY <1>1, <3>1
  <2>2. a = <<a[1], a[2], a[3]>>
    BY <1>1, TripleIs
  <2>. QED
    BY <2>1, <2>2
<1>. HIDE DEF first
<1>3. a \in Seq(Seq(S)) /\ b \in Seq(Seq(S))
  BY <1>1 DEF T
<1>4. /\ FlattenSeq(a) \in Seq(S) /\ Len(FlattenSeq(a)) = Total(Lengths(a))
      /\ FlattenSeq(b) \in Seq(S)
      /\ Len(FlattenSeq(a \o b)) = Total(Lengths(parts))
      /\ FlattenSeq(a \o b) = FlattenSeq(a) \o FlattenSeq(b)
  <2>1. FlattenSeq(a) \in Seq(S) /\ FlattenSeq(b) \in Seq(S)
    BY <1>3, FlattenType
  <2>2. Len(FlattenSeq(a)) = Total(Lengths(a))
    BY <1>3, FlattenLength
  <2>3. FlattenSeq(a \o b) = FlattenSeq(a) \o FlattenSeq(b)
    BY <1>3, FlattenConcat
  <2>4. Len(FlattenSeq(parts)) = Total(Lengths(parts))
    BY FlattenLength
  <2>. QED
    BY <1>1, <2>1, <2>2, <2>3, <2>4
<1>5. /\ Len(FlattenSeq(a) \o FlattenSeq(b)) = Len(FlattenSeq(a)) + Len(FlattenSeq(b))
      /\ Len(FlattenSeq(a)) \in Nat /\ Len(FlattenSeq(b)) \in Nat
  BY <1>4, ConcatProperties, LenProperties
<1>6. Total(Lengths(a)) \in Nat /\ Total(Lengths(a)) <= Total(Lengths(parts))
  BY <1>4, <1>5
<1>. QED
  BY <1>1, <1>2, <1>3, <1>6 DEF first

\* A file's description is no shorter than its fields before the name.
LEMMA MetaTotal ==
  ASSUME NEW k \in Nat
  PROVE  /\ Total(FilePatchMapFields) \in Nat /\ Total(FileMetaFields(k)) \in Nat
         /\ Total(FilePatchMapFields) <= Total(FileMetaFields(k))
<1>. DEFINE ws == FileMetaFields(k)
            parts == [i \in 1..7 |-> [j \in 1..ws[i] |-> 0]]
<1>0. W16 \in Nat /\ W32 \in Nat /\ W64 \in Nat /\ HashSize \in Nat
  BY WidthFacts, CodecAssumption
<1>1. ws \in Seq(Nat) /\ Len(ws) = 7
  BY <1>0 DEF FileMetaFields
<1>2. ws[1] = W16 /\ ws[2] = W64 /\ ws[3] = W32
  BY DEF FileMetaFields
<1>. HIDE DEF ws
<1>3. \A i \in 1..7 : ws[i] \in Nat
  BY <1>1, ElementOf
<1>4. \A i \in 1..7 : parts[i] \in Seq(Nat) /\ Len(parts[i]) = ws[i]
  <2>1. ASSUME NEW i \in 1..7 PROVE parts[i] \in Seq(Nat) /\ Len(parts[i]) = ws[i]
    <3>1. ws[i] \in Nat /\ parts[i] = Zeros(ws[i])
      BY <1>3, <2>1 DEF Zeros
    <3>2. \A n \in Nat : Zeros(n) \in Seq(Nat) /\ Len(Zeros(n)) = n
      BY DEF Zeros
    <3>. QED
      BY <3>1, <3>2
  <2>. QED
    BY <2>1
<1>5. parts \in Seq(Seq(Nat)) /\ Len(parts) = 7
  <2>. DEFINE T == Seq(Nat)
  <2>1. \A i \in 1..7 : parts[i] \in T
    BY <1>4
  <2>2. DOMAIN parts = 1..7 /\ parts = [i \in 1..7 |-> parts[i]]
    OBVIOUS
  <2>. HIDE DEF T, parts
  <2>3. parts \in Seq(T) /\ Len(parts) = 7
    BY <2>1, <2>2
  <2>. QED
    BY <2>3 DEF T
<1>. HIDE DEF parts
<1>6. Lengths(parts) = ws
  <2>1. Lengths(parts) \in Seq(Nat) /\ Len(Lengths(parts)) = 7
    BY <1>5, LengthsFacts
  <2>2. \A i \in 1..7 : Lengths(parts)[i] = ws[i]
    BY <1>4, <1>5 DEF Lengths
  <2>. QED
    BY <1>1, <2>1, <2>2, SeqEqual
<1>7. Lengths(<<parts[1], parts[2], parts[3]>>) = FilePatchMapFields
  <2>1. Len(parts[1]) = W16 /\ Len(parts[2]) = W64 /\ Len(parts[3]) = W32
    <3>1. 1 \in 1..7 /\ 2 \in 1..7 /\ 3 \in 1..7
      OBVIOUS
    <3>. QED
      BY <1>2, <1>4, <3>1
  <2>. QED
    BY <2>1, ThreeLengths DEF FilePatchMapFields
<1>8. Len(parts) >= 3
  BY <1>5
<1>9. /\ Total(Lengths(<<parts[1], parts[2], parts[3]>>)) \in Nat
      /\ Total(Lengths(<<parts[1], parts[2], parts[3]>>)) <= Total(Lengths(parts))
  BY <1>5, <1>8, FirstThree
<1>10. Total(ws) \in Nat
  BY <1>1, TotalType
<1>. QED
  BY <1>6, <1>7, <1>9, <1>10 DEF ws

LEMMA SevenLengths ==
  ASSUME NEW a, NEW b, NEW c, NEW d, NEW e, NEW f, NEW g
  PROVE  Lengths(<<a, b, c, d, e, f, g>>) = <<Len(a), Len(b), Len(c), Len(d), Len(e), Len(f), Len(g)>>
BY DEF Lengths

LEMMA SevenParts ==
  ASSUME NEW S, NEW a \in S, NEW b \in S, NEW c \in S, NEW d \in S, NEW e \in S, NEW f \in S, NEW g \in S
  PROVE  <<a, b, c, d, e, f, g>> \in Seq(S) /\ Len(<<a, b, c, d, e, f, g>>) = 7
OBVIOUS

LEMMA FileMetaSurvives ==
  ASSUME NEW m \in Messages, m.type = 2
  PROVE  /\ encode_system_message(m) \in Seq(ByteValues)
         /\ \A n \in 0..Len(encode_system_message(m)) : Survives(m, n)
<1>. DEFINE p == to_le(2, W16)
            id == to_le(m.file_id, W64)
            size == to_le(Len(m.utf8_name), W32)
            name == m.utf8_name
            original == to_le(m.original_size_bytes, W64)
            total == to_le(m.total_patches, W32)
            hash == m.sha256
            k == Len(name)
            parts == <<p, id, size, name, original, total, hash>>
            enc == FlattenSeq(parts)
<1>1. m = [type |-> 2, file_id |-> m.file_id, utf8_name |-> m.utf8_name,
           original_size_bytes |-> m.original_size_bytes, total_patches |-> m.total_patches,
           sha256 |-> m.sha256]
  BY DEF Messages
<1>2. /\ m.file_id \in UInt(W64) /\ m.original_size_bytes \in UInt(W64)
      /\ m.total_patches \in UInt(W32)
  BY CodecAssumption DEF Messages
<1>3. name \in Seq(ByteValues) /\ k \in UInt(W32) /\ k \in Nat
  <2>1. name \in FileNames
    BY DEF Messages
  <2>. QED
    BY <2>1, CodecAssumption, LenProperties
<1>4. hash \in Seq(ByteValues) /\ Len(hash) = HashSize
  <2>1. HashSize \in Nat /\ hash \in Digests /\ Digests \subseteq [1..HashSize -> ByteValues]
    BY CodecAssumption DEF Messages
  <2>2. hash \in [1..HashSize -> ByteValues]
    BY <2>1
  <2>. QED
    BY <2>1, <2>2
<1>5. p \in Seq(ByteValues) /\ Len(p) = W16
  BY TypeBytes
<1>6. /\ id \in Seq(ByteValues) /\ Len(id) = W64 /\ from_le(id) = m.file_id
      /\ size \in Seq(ByteValues) /\ Len(size) = W32 /\ from_le(size) = k
      /\ original \in Seq(ByteValues) /\ Len(original) = W64 /\ from_le(original) = m.original_size_bytes
      /\ total \in Seq(ByteValues) /\ Len(total) = W32 /\ from_le(total) = m.total_patches
  BY <1>2, <1>3, FieldBytes
<1>7. encode_system_message(m) = enc
  BY <1>1 DEF encode_system_message
<1>. HIDE DEF p, id, size, original, total, ByteValues
<1>8. parts \in Seq(Seq(ByteValues)) /\ Len(parts) = 7
  BY <1>3, <1>4, <1>5, <1>6, SevenParts
<1>9. parts[1] = p /\ parts[2] = id /\ parts[3] = size
  OBVIOUS
<1>10. Lengths(parts) = FileMetaFields(k)
  <2>. DEFINE title == name
              sum == hash
  <2>. HIDE DEF title, sum
  <2>1. Lengths(<<p, id, size, title, original, total, sum>>) =
          <<Len(p), Len(id), Len(size), Len(title), Len(original), Len(total), Len(sum)>>
    BY SevenLengths
  <2>. QED
    BY <1>4, <1>5, <1>6, <2>1 DEF FileMetaFields, title, sum
<1>. DEFINE first == <<p, id, size>>
<1>11. Lengths(first) = FilePatchMapFields
  BY <1>5, <1>6, ThreeLengths DEF FilePatchMapFields
<1>12. PICK rest \in Seq(Seq(ByteValues)) : parts = first \o rest
  <2>1. Len(parts) >= 3
    BY <1>8
  <2>. HIDE DEF parts
  <2>2. \E rest \in Seq(Seq(ByteValues)) : parts = <<parts[1], parts[2], parts[3]>> \o rest
    BY <1>8, <2>1, FirstThree
  <2>. QED
    BY <1>9, <2>2
<1>13. first \in Seq(Seq(ByteValues))
  BY <1>5, <1>6, PartsOf
<1>14. first[3] = size
  OBVIOUS
<1>15. enc \in Seq(ByteValues) /\ Len(enc) = Total(FileMetaFields(k)) /\ Len(enc) \in Nat
  BY <1>8, <1>10, AllFields
<1>16. /\ Total(FilePatchMapFields) \in Nat /\ Total(FileMetaFields(0)) \in Nat
       /\ Total(FilePatchMapFields) <= Total(FileMetaFields(0))
       /\ Total(FilePatchMapFields) <= Total(FileMetaFields(k))
  BY <1>3, MetaTotal
<1>17. ASSUME NEW n \in 0..Len(enc)
       PROVE  decode_system_message(SubSeq(enc, 1, n)) = IF n = Len(enc) THEN m ELSE Refused
  <2>. DEFINE data == SubSeq(enc, 1, n)
  <2>1. /\ Len(data) = n
        /\ n >= W16 => SubSeq(data, 1, W16) = p
        /\ n = Len(enc) => data = enc
        /\ Slices(enc, FileMetaFields(k)) = parts
        /\ Readable(data, FileMetaFields(k)) <=> n = Len(enc)
        /\ Len(enc) >= W16
    <3>1. Len(parts) >= 1 /\ Len(parts[1]) = W16
      BY <1>5, <1>8, <1>9
    <3>. HIDE DEF parts
    <3>2. Received(parts[1], parts, n)
      BY <1>8, <1>17, <3>1, PartsRead
    <3>. QED
      BY <1>9, <1>10, <3>2 DEF Received
  <2>2. n >= Total(FilePatchMapFields) => Slices(data, FilePatchMapFields) = first
    <3>1. ASSUME Total(Lengths(first)) <= n PROVE Slices(data, Lengths(first)) = first
      <4>. HIDE DEF first, parts
      <4>1. n \in 0..Len(FlattenSeq(first \o rest))
        BY <1>12, <1>17
      <4>. QED
        BY <1>12, <1>13, <3>1, <4>1, FirstFields
    <3>2. n \in Nat
      BY <1>15, <1>17
    <3>. HIDE DEF data, first
    <3>. QED
      BY <1>11, <1>16, <3>1, <3>2
  <2>. HIDE DEF enc, data, parts, first
  <2>3. n \in Nat /\ W16 \in Nat /\ Len(data) \in Nat
    BY <1>17, <2>1, WidthFacts
  <2>4. /\ n < W16 => decode_system_message(data) = Refused
        /\ n >= W16 => decode_system_message(data) = decode_file_meta(data)
    <3>1. 2 \in 1..4 /\ 2 # 1
      OBVIOUS
    <3>2. n >= W16 => SubSeq(data, 1, W16) = to_le(2, W16)
      BY <2>1 DEF p
    <3>. QED
      BY <2>1, <2>3, <3>1, <3>2, Dispatch
  <2>5. CASE n >= Total(FilePatchMapFields)
    <3>1. Readable(data, FilePatchMapFields) /\ from_le(Slices(data, FilePatchMapFields)[3]) = k
      BY <1>6, <1>14, <2>1, <2>2, <2>5 DEF Readable
    <3>2. Slices(data, FileMetaFields(k)) = parts \/ ~Readable(data, FileMetaFields(k))
      BY <2>1
    <3>3. decode_file_meta(data) =
            IF Readable(data, FileMetaFields(k))
            THEN LET f == Slices(data, FileMetaFields(k)) IN
                 [type |-> 2, file_id |-> from_le(f[2]), utf8_name |-> f[4],
                  original_size_bytes |-> from_le(f[5]), total_patches |-> from_le(f[6]), sha256 |-> f[7]]
            ELSE Refused
      BY <3>1 DEF decode_file_meta
    <3>4. /\ from_le(parts[2]) = m.file_id /\ parts[4] = m.utf8_name
          /\ from_le(parts[5]) = m.original_size_bytes
          /\ from_le(parts[6]) = m.total_patches /\ parts[7] = m.sha256
      BY <1>6 DEF parts
    <3>5. decode_file_meta(data) = IF n = Len(enc) THEN m ELSE Refused
      BY <1>1, <2>1, <3>2, <3>3, <3>4
    <3>. QED
      BY <2>1, <2>3, <2>4, <3>5 DEF data
  <2>6. CASE ~(n >= Total(FilePatchMapFields))
    <3>1. ~Readable(data, FilePatchMapFields)
      BY <2>1, <2>6 DEF Readable
    <3>2. ~Readable(data, FileMetaFields(0))
      <4>1. ~(n >= Total(FileMetaFields(0)))
        BY <1>16, <2>3, <2>6
      <4>. QED
        BY <2>1, <4>1 DEF Readable
    <3>3. decode_file_meta(data) = Refused
      BY <3>1, <3>2 DEF decode_file_meta
    <3>4. n # Len(enc)
      BY <1>15, <1>16, <2>3, <2>6 DEF enc
    <3>5. decode_system_message(data) = Refused
      BY <2>3, <2>4, <3>3
    <3>. QED
      BY <3>4, <3>5 DEF data
  <2>. QED
    BY <2>5, <2>6
<1>. QED
  BY <1>7, <1>15, <1>17 DEF Survives

\* A message that arrives whole is the one that was sent, one cut off is refused.
LEMMA MessageSurvives ==
  ASSUME NEW m \in Messages
  PROVE  /\ encode_system_message(m) \in Seq(ByteValues)
         /\ \A n \in 0..Len(encode_system_message(m)) : Survives(m, n)
<1>1. m.type = 1 \/ m.type = 2 \/ m.type = 3 \/ m.type = 4
  BY DEF Messages
<1>. QED
  BY <1>1, QueueSizeSurvives, FileMetaSurvives, FilePatchMapSurvives, ControlSurvives

LEMMA MessageArrives ==
  ASSUME NEW m \in Messages
  PROVE  /\ decode_system_message(encode_system_message(m)) = m
         /\ encode_system_message(m) \in Seq(ByteValues)
         /\ \A n \in 0..(Len(encode_system_message(m)) - 1) :
              decode_system_message(SubSeq(encode_system_message(m), 1, n)) = Refused
<1>. DEFINE enc == encode_system_message(m)
<1>1. enc \in Seq(ByteValues) /\ \A n \in 0..Len(enc) : Survives(m, n)
  BY MessageSurvives
<1>2. Len(enc) \in Nat /\ Len(enc) \in 0..Len(enc) /\ SubSeq(enc, 1, Len(enc)) = enc
  <2>1. SubSeq(enc, 1, Len(enc)) = enc
    BY <1>1, SubSeqFull
  <2>2. Len(enc) \in Nat
    BY <1>1, LenProperties
  <2>. QED
    BY <2>1, <2>2
<1>. HIDE DEF enc
<1>3. decode_system_message(enc) = m
  <2>1. Survives(m, Len(enc))
    BY <1>1, <1>2
  <2>. QED
    BY <1>2, <2>1 DEF Survives, enc
<1>4. ASSUME NEW n \in 0..(Len(enc) - 1) PROVE decode_system_message(SubSeq(enc, 1, n)) = Refused
  <2>1. n \in 0..Len(enc) /\ n # Len(enc)
    <3>1. \A most \in Nat : \A i \in 0..(most - 1) : i \in 0..most /\ i # most
      OBVIOUS
    <3>2. Len(enc) \in Nat
      BY <1>2
    <3>. QED
      BY <1>4, <3>1, <3>2
  <2>2. Survives(m, n)
    BY <1>1, <2>1
  <2>. QED
    BY <2>1, <2>2 DEF Survives, enc
<1>. QED
  BY <1>1, <1>3, <1>4 DEF enc

-----------------------------------------------------------------------------
(* A frame on its way: it is as it was encoded, or hit once.               *)

Encoding(frame) == IF IsHeader(frame) THEN encode_patch_header(frame) ELSE encode_system_message(frame)

HitByte(frame) ==
  \E i \in DOMAIN Encoding(frame), b \in ByteValues :
    Encoding(frame)[i] # b /\ wire = [Encoding(frame) EXCEPT ![i] = b]

CutOff(frame) ==
  \E n \in 0..(Len(Encoding(frame)) - 1) : wire = SubSeq(Encoding(frame), 1, n)

FrameKept ==
  \/ sent = Refused /\ damage = "none" /\ wire = <<>>
  \/ /\ sent \in Headers \cup Messages
     /\ \/ damage = "none" /\ wire = Encoding(sent)
        \/ damage = "byte" /\ sent \in Headers /\ HitByte(sent)
        \/ damage = "cut" /\ CutOff(sent)

LEMMA FrameKinds ==
  /\ \A h \in Headers : IsHeader(h) /\ h # Refused /\ Encoding(h) = encode_patch_header(h)
  /\ \A m \in Messages : ~IsHeader(m) /\ m # Refused /\ Encoding(m) = encode_system_message(m)
  /\ ~IsHeader(Refused)
<1>1. ASSUME NEW h \in Headers PROVE IsHeader(h) /\ h # Refused
  BY DEF Headers, IsHeader, Refused
<1>2. ASSUME NEW m \in Messages PROVE ~IsHeader(m)
  BY DEF Messages, IsHeader
<1>3. ASSUME NEW m \in Messages PROVE m # Refused
  BY DEF Messages, Refused
<1>4. ~IsHeader(Refused)
  BY DEF IsHeader, Refused
<1>. QED
  BY <1>1, <1>2, <1>3, <1>4 DEF Encoding

LEMMA FrameKeptInit == CodecInit => FrameKept
BY DEF CodecInit, FrameInit, FrameKept

LEMMA FrameKeptNext == FrameKept /\ [CodecNext]_codecVars => FrameKept'
<1>. SUFFICES ASSUME FrameKept, [CodecNext]_codecVars PROVE FrameKept'
  OBVIOUS
<1>1. ASSUME UNCHANGED wireVars PROVE FrameKept'
  BY <1>1 DEF FrameKept, wireVars, HitByte, CutOff
<1>2. CASE Encode
  <2>1. sent = Refused /\ damage = "none" /\ damage' = damage
    <3>1. sent = Refused /\ damage' = damage
      BY <1>2 DEF Encode
    <3>2. \A f \in Headers \cup Messages : f # Refused
      BY FrameKinds
    <3>. QED
      BY <3>1, <3>2 DEF FrameKept
  <2>2. ASSUME NEW h \in Headers, sent' = h, wire' = encode_patch_header(h) PROVE FrameKept'
    <3>1. wire' = Encoding(sent')
      BY <2>2, FrameKinds
    <3>. QED
      BY <2>1, <2>2, <3>1 DEF FrameKept
  <2>3. ASSUME NEW m \in Messages, sent' = m, wire' = encode_system_message(m) PROVE FrameKept'
    <3>1. wire' = Encoding(sent')
      BY <2>3, FrameKinds
    <3>. QED
      BY <2>1, <2>3, <3>1 DEF FrameKept
  <2>. QED
    BY <1>2, <2>2, <2>3 DEF Encode
<1>3. CASE Damage
  <2>1. damage = "none" /\ sent' = sent
    BY <1>3 DEF Damage
  <2>2. CASE sent = Refused
    <3>1. wire = <<>> /\ ~IsHeader(sent)
      BY <2>2, FrameKinds DEF FrameKept
    <3>2. ~(\E n \in 0..(Len(wire) - 1) : TRUE)
      BY <3>1
    <3>. QED
      BY <1>3, <3>1, <3>2 DEF Damage
  <2>3. CASE sent # Refused
    <3>1. sent \in Headers \cup Messages /\ wire = Encoding(sent)
      BY <2>1, <2>3 DEF FrameKept
    <3>2. ASSUME IsHeader(sent), NEW i \in DOMAIN wire, NEW b \in ByteValues, wire[i] # b,
                 wire' = [wire EXCEPT ![i] = b], damage' = "byte"
          PROVE  FrameKept'
      <4>1. sent \in Headers
        BY <3>1, <3>2, FrameKinds
      <4>2. HitByte(sent)'
        BY <2>1, <3>1, <3>2 DEF HitByte
      <4>. QED
        BY <2>1, <3>2, <4>1, <4>2 DEF FrameKept
    <3>3. ASSUME NEW n \in 0..(Len(wire) - 1), wire' = SubSeq(wire, 1, n), damage' = "cut"
          PROVE  FrameKept'
      <4>1. CutOff(sent)'
        BY <2>1, <3>1, <3>3 DEF CutOff
      <4>. QED
        BY <2>1, <3>1, <3>3, <4>1 DEF FrameKept
    <3>. QED
      BY <1>3, <3>2, <3>3 DEF Damage
  <2>. QED
    BY <2>2, <2>3
<1>4. CASE Feed \/ Digest
  BY <1>1, <1>4 DEF Feed, Digest
<1>. QED
  BY <1>1, <1>2, <1>3, <1>4 DEF CodecNext, codecVars

LEMMA FrameKeptIntact == FrameKept => FrameIntact
<1>. SUFFICES ASSUME FrameKept, sent # Refused
              PROVE  Decoded = IF damage # "none" THEN Refused
                               ELSE IF IsHeader(sent) THEN Corrected(sent) ELSE sent
  BY DEF FrameIntact
<1>1. CASE sent \in Headers
  <2>1. IsHeader(sent) /\ Encoding(sent) = encode_patch_header(sent) /\ Decoded = deserialize(wire)
    BY <1>1, FrameKinds DEF Decoded
  <2>2. CASE damage = "none" /\ wire = Encoding(sent)
    BY <1>1, <2>1, <2>2, HeaderArrives
  <2>3. CASE damage = "byte" /\ HitByte(sent)
    <3>1. PICK i \in DOMAIN encode_patch_header(sent), b \in ByteValues :
                 /\ encode_patch_header(sent)[i] # b
                 /\ wire = [encode_patch_header(sent) EXCEPT ![i] = b]
      BY <2>1, <2>3 DEF HitByte
    <3>2. deserialize([encode_patch_header(sent) EXCEPT ![i] = b]) = Refused
      BY <1>1, <3>1, HeaderHit
    <3>. QED
      BY <2>1, <2>3, <3>1, <3>2
  <2>4. CASE damage = "cut" /\ CutOff(sent)
    BY <1>1, <2>1, <2>4, HeaderCut DEF CutOff
  <2>. QED
    BY <2>2, <2>3, <2>4 DEF FrameKept
<1>2. CASE sent \in Messages
  <2>1. /\ ~IsHeader(sent) /\ Encoding(sent) = encode_system_message(sent)
        /\ Decoded = decode_system_message(wire) /\ sent \notin Headers
    BY <1>2, FrameKinds DEF Decoded
  <2>2. CASE damage = "none" /\ wire = Encoding(sent)
    BY <1>2, <2>1, <2>2, MessageArrives
  <2>3. CASE damage = "cut" /\ CutOff(sent)
    BY <1>2, <2>1, <2>3, MessageArrives DEF CutOff
  <2>. QED
    BY <2>1, <2>2, <2>3 DEF FrameKept
<1>. QED
  BY <1>1, <1>2 DEF FrameKept

\* What a frame decodes to is what was encoded, and a header of which one byte was hit, or
\* any frame with its end cut off, is refused (serialize, deserialize, crc32,
\* encode_system_message, decode_system_message).
THEOREM FramesIntact == CodecSpec => []FrameIntact
<1>1. CodecInit => FrameKept
  BY FrameKeptInit
<1>2. FrameKept /\ [CodecNext]_codecVars => FrameKept'
  BY FrameKeptNext
<1>3. FrameKept => FrameIntact
  BY FrameKeptIntact
<1>. QED
  BY <1>1, <1>2, <1>3, PTL DEF CodecSpec

-----------------------------------------------------------------------------
(* The two SHA-256: whatever the pieces, each has the bytes it was given,  *)
(* in whole blocks and a buffer that is not full.                          *)

WholeBlocks(blocks) == \A i \in 1..Len(blocks) : Len(blocks[i]) = Block

Open(h) == h \in HashState /\ Len(h.buffer) < Block /\ WholeBlocks(h.blocks)

Taken(h) == FlattenSeq(h.blocks) \o h.buffer

LEMMA BlockFacts ==
  /\ Block \in Nat \ {0} /\ LengthSize \in Nat /\ Room \in Nat /\ Room + LengthSize = Block
  /\ Room < Block /\ MaxFed \in Nat
BY CodecAssumption DEF Room

LEMMA HashFields ==
  ASSUME NEW h \in HashState
  PROVE  /\ h.buffer \in Seq(ByteValues) /\ h.bits \in Nat /\ h.blocks \in Seq(Seq(ByteValues))
         /\ Len(h.buffer) \in Nat /\ Len(h.blocks) \in Nat
         /\ FlattenSeq(h.blocks) \in Seq(ByteValues) /\ Taken(h) \in Seq(ByteValues)
<1>1. h.buffer \in Seq(ByteValues) /\ h.bits \in Nat /\ h.blocks \in Seq(Seq(ByteValues))
  BY DEF HashState
<1>2. FlattenSeq(h.blocks) \in Seq(ByteValues)
  BY <1>1, FlattenType
<1>3. Taken(h) \in Seq(ByteValues)
  BY <1>1, <1>2, ConcatProperties DEF Taken
<1>4. Len(h.buffer) \in Nat /\ Len(h.blocks) \in Nat
  BY <1>1, LenProperties
<1>. QED
  BY <1>1, <1>2, <1>3, <1>4

LEMMA WholeAppend ==
  ASSUME NEW S, NEW blocks \in Seq(S), NEW b \in S, WholeBlocks(blocks), Len(b) = Block
  PROVE  WholeBlocks(Append(blocks, b))
<1>1. /\ Append(blocks, b) \in Seq(S) /\ Len(Append(blocks, b)) = Len(blocks) + 1 /\ Len(blocks) \in Nat
      /\ Append(blocks, b)[Len(blocks) + 1] = b
      /\ \A i \in 1..Len(blocks) : Append(blocks, b)[i] = blocks[i]
  BY AppendProperties
<1>2. \A i \in 1..(Len(blocks) + 1) : i \in 1..Len(blocks) \/ i = Len(blocks) + 1
  BY <1>1
<1>. QED
  BY <1>1, <1>2 DEF WholeBlocks

LEMMA EmptiedFacts ==
  ASSUME NEW h \in HashState, Len(h.buffer) <= Block, WholeBlocks(h.blocks)
  PROVE  Open(Emptied(h)) /\ Taken(Emptied(h)) = Taken(h) /\ Emptied(h).bits = h.bits
<1>1. /\ h.buffer \in Seq(ByteValues) /\ h.bits \in Nat /\ h.blocks \in Seq(Seq(ByteValues))
      /\ Len(h.buffer) \in Nat /\ FlattenSeq(h.blocks) \in Seq(ByteValues)
      /\ Taken(h) \in Seq(ByteValues)
  BY HashFields
<1>2. CASE Len(h.buffer) = Block
  <2>. DEFINE g == [h EXCEPT !.blocks = Append(@, h.buffer), !.buffer = <<>>]
  <2>1. Emptied(h) = g
    BY <1>2 DEF Emptied
  <2>2. g.buffer = <<>> /\ g.bits = h.bits /\ g.blocks = Append(h.blocks, h.buffer)
    BY DEF HashState
  <2>3. Append(h.blocks, h.buffer) \in Seq(Seq(ByteValues))
    <3>. DEFINE T == Seq(ByteValues)
    <3>1. h.blocks \in Seq(T) /\ h.buffer \in T
      BY <1>1
    <3>. HIDE DEF T
    <3>2. Append(h.blocks, h.buffer) \in Seq(T)
      BY <3>1
    <3>. QED
      BY <3>2 DEF T
  <2>4. <<>> \in Seq(ByteValues) /\ Len(<<>>) = 0
    OBVIOUS
  <2>5. g \in HashState
    BY <1>1, <2>3, <2>4 DEF HashState
  <2>. HIDE DEF g
  <2>6. WholeBlocks(g.blocks)
    <3>. DEFINE T == Seq(ByteValues)
    <3>1. h.blocks \in Seq(T) /\ h.buffer \in T
      BY <1>1
    <3>. HIDE DEF T
    <3>. QED
      BY <1>2, <2>2, <3>1, WholeAppend
  <2>7. Taken(g) = Taken(h)
    <3>1. FlattenSeq(Append(h.blocks, h.buffer)) = FlattenSeq(h.blocks) \o h.buffer
      BY <1>1, FlattenAppend
    <3>2. Taken(g) = Taken(h) \o <<>>
      BY <2>2, <3>1 DEF Taken
    <3>. QED
      BY <1>1, <3>2, ConcatEmptySeq
  <2>8. Len(g.buffer) < Block
    BY <2>2, <2>4, BlockFacts
  <2>. QED
    BY <2>1, <2>2, <2>5, <2>6, <2>7, <2>8 DEF Open
<1>3. CASE Len(h.buffer) # Block
  <2>1. Emptied(h) = h
    BY <1>3 DEF Emptied
  <2>2. Len(h.buffer) < Block
    BY <1>1, <1>3, BlockFacts
  <2>. QED
    BY <2>1, <2>2 DEF Open
<1>. QED
  BY <1>2, <1>3

\* More in the buffer.
LEMMA BufferGrown ==
  ASSUME NEW h, Open(h), NEW more \in Seq(ByteValues), Len(h.buffer) + Len(more) <= Block
  PROVE  LET g == [h EXCEPT !.buffer = @ \o more] IN
         Open(Emptied(g)) /\ Taken(Emptied(g)) = Taken(h) \o more /\ Emptied(g).bits = h.bits
<1>. DEFINE g == [h EXCEPT !.buffer = @ \o more]
<1>1. /\ h \in HashState /\ h.buffer \in Seq(ByteValues) /\ h.bits \in Nat
      /\ h.blocks \in Seq(Seq(ByteValues))
      /\ FlattenSeq(h.blocks) \in Seq(ByteValues) /\ WholeBlocks(h.blocks)
  BY HashFields DEF Open
<1>2. g.buffer = h.buffer \o more /\ g.bits = h.bits /\ g.blocks = h.blocks
  BY <1>1 DEF HashState
<1>3. h.buffer \o more \in Seq(ByteValues) /\ Len(h.buffer \o more) = Len(h.buffer) + Len(more)
  BY <1>1, ConcatProperties
<1>4. g \in HashState
  BY <1>1, <1>3 DEF HashState
<1>. HIDE DEF g
<1>5. Taken(g) = Taken(h) \o more
  <2>1. Taken(g) = FlattenSeq(h.blocks) \o (h.buffer \o more)
    BY <1>2 DEF Taken
  <2>2. FlattenSeq(h.blocks) \o (h.buffer \o more) = (FlattenSeq(h.blocks) \o h.buffer) \o more
    <3>. DEFINE a == FlattenSeq(h.blocks)
                b == h.buffer
    <3>1. a \in Seq(ByteValues) /\ b \in Seq(ByteValues)
      BY <1>1
    <3>. HIDE DEF a, b
    <3>2. a \o (b \o more) = (a \o b) \o more
      BY <3>1, ConcatAssociative, SMTT(20)
    <3>. QED
      BY <3>2 DEF a, b
  <2>. QED
    BY <2>1, <2>2 DEF Taken
<1>6. Open(Emptied(g)) /\ Taken(Emptied(g)) = Taken(g) /\ Emptied(g).bits = g.bits
  BY <1>1, <1>2, <1>3, <1>4, EmptiedFacts
<1>. QED
  BY <1>2, <1>5, <1>6 DEF g

LEMMA ByteAdded ==
  ASSUME NEW h, Open(h), NEW b \in ByteValues
  PROVE  LET g == [h EXCEPT !.buffer = Append(@, b)] IN
         Open(Emptied(g)) /\ Taken(Emptied(g)) = Append(Taken(h), b) /\ Emptied(g).bits = h.bits
<1>. HIDE DEF ByteValues
<1>1. /\ h \in HashState /\ h.buffer \in Seq(ByteValues) /\ Len(h.buffer) \in Nat
      /\ Taken(h) \in Seq(ByteValues) /\ Len(h.buffer) < Block
  BY HashFields DEF Open
<1>2. /\ <<b>> \in Seq(ByteValues) /\ Len(<<b>>) = 1
      /\ Append(h.buffer, b) = h.buffer \o <<b>> /\ Append(Taken(h), b) = Taken(h) \o <<b>>
  BY <1>1, AppendIsConcat
<1>3. Len(h.buffer) + Len(<<b>>) <= Block
  BY <1>1, <1>2, BlockFacts
<1>4. [h EXCEPT !.buffer = Append(@, b)] = [h EXCEPT !.buffer = @ \o <<b>>]
  BY <1>2
<1>. QED
  BY <1>2, <1>3, <1>4, BufferGrown

LEMMA BitsAdded ==
  ASSUME NEW a \in Nat, NEW b \in Nat, NEW c \in Nat
  PROVE  a * b + a * c = a * (b + c) /\ a * b \in Nat
BY SMT

LEMMA BitsCounted ==
  ASSUME NEW h, Open(h), NEW n \in Nat
  PROVE  LET g == [h EXCEPT !.bits = @ + Bits * n] IN
         Open(g) /\ Taken(g) = Taken(h) /\ g.bits = h.bits + Bits * n
<1>. DEFINE g == [h EXCEPT !.bits = @ + Bits * n]
<1>1. h \in HashState /\ h.bits \in Nat /\ Bits * n \in Nat
  BY HashFields, ByteFacts, BitsAdded DEF Open
<1>2. g.buffer = h.buffer /\ g.bits = h.bits + Bits * n /\ g.blocks = h.blocks
  BY <1>1 DEF HashState
<1>3. g \in HashState
  BY <1>1 DEF HashState
<1>. HIDE DEF g
<1>4. Open(g) /\ Taken(g) = Taken(h)
  BY <1>2, <1>3 DEF Open, Taken
<1>. QED
  BY <1>2, <1>4 DEF g

\* What an update leaves of h, given data.
Updated(g, h, data) ==
  /\ Open(g) /\ Taken(g) = Taken(h) \o data
  /\ g.bits = h.bits + Bits * Len(data)

LEMMA LibraryUpdates ==
  ASSUME NEW h, Open(h), NEW data \in Seq(ByteValues)
  PROVE  Updated(updateLibrary(h, data), h, data)
<1>. DEFINE step == [p \in HashState \X ByteValues |-> Emptied([p[1] EXCEPT !.buffer = Append(@, p[2])])]
            start == [h EXCEPT !.bits = @ + Bits * Len(data)]
            Good(s) == /\ Open(Folded(step, start, s)) /\ Taken(Folded(step, start, s)) = Taken(h) \o s
                       /\ Folded(step, start, s).bits = start.bits
            T == {n \in Nat : \A s \in Seq(ByteValues) : Len(s) = n => Good(s)}
<1>. HIDE DEF T, Good, ByteValues
<1>0. Len(data) \in Nat /\ Taken(h) \in Seq(ByteValues)
  BY HashFields, LenProperties DEF Open
<1>1. Open(start) /\ Taken(start) = Taken(h) /\ start.bits = h.bits + Bits * Len(data)
  BY <1>0, BitsCounted
<1>. HIDE DEF start
<1>2. ASSUME NEW g, Open(g), NEW b \in ByteValues
      PROVE  /\ Open(step[<<g, b>>]) /\ Taken(step[<<g, b>>]) = Append(Taken(g), b)
             /\ step[<<g, b>>].bits = g.bits
  <2>1. g \in HashState
    BY <1>2 DEF Open
  <2>2. step[<<g, b>>] = Emptied([g EXCEPT !.buffer = Append(@, b)])
    BY <2>1
  <2>. QED
    BY <1>2, <2>2, ByteAdded
<1>. HIDE DEF step
<1>3. 0 \in T
  <2>1. ASSUME NEW s \in Seq(ByteValues), Len(s) = 0 PROVE Good(s)
    <3>1. s = <<>>
      BY <2>1
    <3>2. Folded(step, start, <<>>) = start /\ Taken(h) \o <<>> = Taken(h)
      BY <1>0, FoldedEmpty, ConcatEmptySeq
    <3>. QED
      BY <1>1, <3>1, <3>2 DEF Good
  <2>. QED
    BY <2>1 DEF T
<1>4. ASSUME NEW n \in Nat, n \in T PROVE n + 1 \in T
  <2>1. ASSUME NEW s \in Seq(ByteValues), Len(s) = n + 1 PROVE Good(s)
    <3>1. PICK r \in Seq(ByteValues), b \in ByteValues : s = Append(r, b) /\ Len(r) = n
      BY <2>1, LastOff
    <3>2. Good(r)
      BY <1>4, <3>1 DEF T
    <3>. DEFINE g == Folded(step, start, r)
    <3>3. Open(g) /\ Taken(g) = Taken(h) \o r /\ g.bits = start.bits
      BY <3>2 DEF Good
    <3>4. Folded(step, start, Append(r, b)) = step[<<g, b>>]
      BY FoldedAppend
    <3>. HIDE DEF g
    <3>5. Open(step[<<g, b>>]) /\ Taken(step[<<g, b>>]) = Append(Taken(g), b) /\ step[<<g, b>>].bits = g.bits
      BY <1>2, <3>3
    <3>6. Append(Taken(h) \o r, b) = Taken(h) \o Append(r, b)
      <4>. DEFINE t == Taken(h)
      <4>1. t \in Seq(ByteValues)
        BY <1>0
      <4>. HIDE DEF t
      <4>2. t \o Append(r, b) = Append(t \o r, b)
        BY <4>1, ConcatAppend
      <4>. QED
        BY <4>2 DEF t
    <3>. QED
      BY <3>1, <3>3, <3>4, <3>5, <3>6 DEF Good
  <2>. QED
    BY <2>1 DEF T
<1>5. \A n \in Nat : n \in T
  BY <1>3, <1>4, Induction
<1>6. Good(data)
  BY <1>0, <1>5 DEF T
<1>7. updateLibrary(h, data) = Folded(step, start, data)
  BY DEF updateLibrary, step, start
<1>. QED
  BY <1>1, <1>6, <1>7 DEF Good, Updated

LEMMA LesserOfTwo ==
  ASSUME NEW a \in Nat, NEW b \in Nat
  PROVE  Min({a, b}) = IF a <= b THEN a ELSE b
<1>. DEFINE m == IF a <= b THEN a ELSE b
<1>1. m \in {a, b} /\ \A y \in {a, b} : m <= y
  OBVIOUS
<1>2. \A x \in {a, b} : (\A y \in {a, b} : x <= y) => x = m
  OBVIOUS
<1>. QED
  BY <1>1, <1>2 DEF Min

\* What a round of the copying does with rest still to take.
Copied(c, h, rest) ==
  /\ c \in [hash : HashState, rest : Seq(ByteValues)]
  /\ Open(c.hash) /\ c.hash.bits = h.bits
  /\ Taken(c.hash) \o c.rest = Taken(h) \o rest
  /\ Len(c.rest) < Len(rest) \/ Len(c.rest) = 0

LEMMA CopyInCopies ==
  ASSUME NEW h, Open(h), NEW rest \in Seq(ByteValues)
  PROVE  Copied(CopyIn([hash |-> h, rest |-> rest]), h, rest)
<1>. DEFINE room == Block - Len(h.buffer)
            n == Min({Len(rest), room})
            more == SubSeq(rest, 1, n)
            left == SubSeq(rest, n + 1, Len(rest))
            g == Emptied([h EXCEPT !.buffer = @ \o more])
<1>. HIDE DEF ByteValues
<1>1. /\ h \in HashState /\ h.buffer \in Seq(ByteValues) /\ Len(h.buffer) \in Nat
      /\ Taken(h) \in Seq(ByteValues) /\ Len(h.buffer) < Block
  BY HashFields DEF Open
<1>2. Len(rest) \in Nat /\ room \in Nat \ {0} /\ Len(h.buffer) + room = Block
  BY <1>1, BlockFacts, LenProperties
<1>3. CopyIn([hash |-> h, rest |-> rest]) = [hash |-> g, rest |-> left]
  BY DEF CopyIn
<1>4. n = IF Len(rest) <= room THEN Len(rest) ELSE room
  BY <1>2, LesserOfTwo
<1>. HIDE DEF n, room
<1>5. n \in 0..Len(rest) /\ n <= room /\ (n > 0 \/ Len(rest) = 0)
  BY <1>2, <1>4
<1>6. more \in Seq(ByteValues) /\ Len(more) = n
  BY <1>5, PrefixFacts
<1>7. left \in Seq(ByteValues) /\ Len(left) = Len(rest) - n
  <2>1. n \in Nat /\ Len(rest) \in Nat /\ n <= Len(rest) /\ Len(rest) <= Len(rest)
    BY <1>2, <1>5
  <2>. QED
    BY <2>1, SubSeqFacts
<1>8. more \o left = rest
  <2>. DEFINE k == Len(rest) - n
  <2>1. n \in Nat /\ k \in Nat /\ n + k = Len(rest) /\ n + k <= Len(rest)
    BY <1>2, <1>5
  <2>. HIDE DEF k
  <2>2. SubSeq(rest, 1, n) \o SubSeq(rest, n + 1, n + k) = SubSeq(rest, 1, n + k)
    BY <2>1, PrefixConcat
  <2>3. SubSeq(rest, 1, Len(rest)) = rest
    BY SubSeqFull
  <2>. QED
    BY <2>1, <2>2, <2>3
<1>. HIDE DEF more, left
<1>9. Len(h.buffer) + Len(more) <= Block
  BY <1>1, <1>2, <1>5, <1>6
<1>10. Open(g) /\ Taken(g) = Taken(h) \o more /\ g.bits = h.bits
  BY <1>6, <1>9, BufferGrown
<1>. HIDE DEF g
<1>11. Taken(g) \o left = Taken(h) \o rest
  <2>. DEFINE t == Taken(h)
  <2>1. t \in Seq(ByteValues)
    BY <1>1
  <2>. HIDE DEF t
  <2>2. (t \o more) \o left = t \o (more \o left)
    BY <1>6, <1>7, <2>1, ConcatAssociative, SMTT(20)
  <2>. QED
    BY <1>8, <1>10, <2>2 DEF t
<1>12. Len(left) < Len(rest) \/ Len(left) = 0
  BY <1>2, <1>5, <1>7
<1>. DEFINE c == [hash |-> g, rest |-> left]
<1>13. c \in [hash : HashState, rest : Seq(ByteValues)] /\ c.hash = g /\ c.rest = left
  BY <1>7, <1>10 DEF Open
<1>14. CopyIn([hash |-> h, rest |-> rest]) = c
  BY <1>3
<1>. HIDE DEF c
<1>15. Copied(c, h, rest)
  BY <1>10, <1>11, <1>12, <1>13 DEF Copied
<1>. QED
  BY <1>14, <1>15

LEMMA OwnUpdates ==
  ASSUME NEW h, Open(h), NEW data \in Seq(ByteValues)
  PROVE  Updated(updateOwn(h, data), h, data)
<1>. DEFINE step == [input \in [hash : HashState, rest : Seq(ByteValues)] |-> CopyIn(input)]
            first == [h EXCEPT !.bits = @ + Bits * Len(data)]
            start == [hash |-> first, rest |-> data]
            x(n) == Iterated(step, start, n)
            Good(n) == /\ x(n) \in [hash : HashState, rest : Seq(ByteValues)]
                       /\ Open(x(n).hash) /\ x(n).hash.bits = first.bits
                       /\ Taken(x(n).hash) \o x(n).rest = Taken(h) \o data
                       /\ n <= Len(data) => Len(x(n).rest) <= Len(data) - n
            T == {n \in Nat : Good(n)}
<1>. HIDE DEF T, Good, ByteValues
<1>0. Len(data) \in Nat /\ Taken(h) \in Seq(ByteValues)
  BY HashFields, LenProperties DEF Open
<1>1. Open(first) /\ Taken(first) = Taken(h) /\ first.bits = h.bits + Bits * Len(data)
  BY <1>0, BitsCounted
<1>. HIDE DEF first
<1>2. first \in HashState /\ start \in [hash : HashState, rest : Seq(ByteValues)]
      /\ start.hash = first /\ start.rest = data
  BY <1>1 DEF Open
<1>. HIDE DEF start
<1>3. ASSUME NEW n \in Nat PROVE x(0) = start /\ x(n + 1) = step[x(n)]
  <2>. HIDE DEF step
  <2>1. Iterated(step, start, 0) = start
    BY <1>3, IteratedNext
  <2>2. Iterated(step, start, n + 1) = step[Iterated(step, start, n)]
    BY <1>3, IteratedNext
  <2>. QED
    BY <2>1, <2>2
<1>4. 0 \in T
  <2>1. x(0) = start
    BY <1>3
  <2>2. Len(data) <= Len(data) - 0
    BY <1>0
  <2>. HIDE DEF x
  <2>. QED
    BY <1>1, <1>2, <2>1, <2>2 DEF T, Good
<1>5. ASSUME NEW n \in Nat, n \in T PROVE n + 1 \in T
  <2>1. x(n + 1) = step[x(n)]
    BY <1>3
  <2>. DEFINE y == x(n)
              z == x(n + 1)
  <2>2. Good(n)
    BY <1>5 DEF T
  <2>3. /\ y \in [hash : HashState, rest : Seq(ByteValues)]
        /\ Open(y.hash) /\ y.hash.bits = first.bits
        /\ Taken(y.hash) \o y.rest = Taken(h) \o data
        /\ n <= Len(data) => Len(y.rest) <= Len(data) - n
    BY <2>2 DEF Good
  <2>. HIDE DEF x
  <2>4. y.rest \in Seq(ByteValues) /\ Len(y.rest) \in Nat /\ y = [hash |-> y.hash, rest |-> y.rest]
    BY <2>3, LenProperties
  <2>5. z = CopyIn([hash |-> y.hash, rest |-> y.rest])
    BY <2>1, <2>3, <2>4
  <2>6. Copied(z, y.hash, y.rest)
    BY <2>3, <2>4, <2>5, CopyInCopies
  <2>. HIDE DEF y, z
  <2>7. /\ z \in [hash : HashState, rest : Seq(ByteValues)]
        /\ Open(z.hash) /\ z.hash.bits = first.bits
        /\ Taken(z.hash) \o z.rest = Taken(h) \o data
        /\ Len(z.rest) < Len(y.rest) \/ Len(z.rest) = 0
    BY <2>3, <2>6 DEF Copied
  <2>8. Len(z.rest) \in Nat
    BY <2>7, LenProperties
  <2>9. n + 1 <= Len(data) => Len(z.rest) <= Len(data) - (n + 1)
    BY <1>0, <2>3, <2>4, <2>7, <2>8
  <2>10. Good(n + 1)
    BY <2>7, <2>9 DEF z, Good
  <2>. QED
    BY <2>10 DEF T
<1>6. \A n \in Nat : n \in T
  BY <1>4, <1>5, Induction
<1>. DEFINE last == x(Len(data))
<1>7. /\ last \in [hash : HashState, rest : Seq(ByteValues)]
      /\ Open(last.hash) /\ last.hash.bits = first.bits
      /\ Taken(last.hash) \o last.rest = Taken(h) \o data
      /\ Len(last.rest) <= Len(data) - Len(data)
  <2>1. Good(Len(data)) /\ Len(data) <= Len(data)
    BY <1>0, <1>6 DEF T
  <2>. QED
    BY <2>1 DEF Good
<1>8. updateOwn(h, data) = last.hash
  BY DEF updateOwn, start, first
<1>. HIDE DEF last
<1>9. last.rest = <<>>
  <2>1. last.rest \in Seq(ByteValues) /\ Len(last.rest) \in Nat
    BY <1>7, LenProperties
  <2>2. Len(last.rest) = 0
    BY <1>0, <1>7, <2>1
  <2>. QED
    BY <2>1, <2>2
<1>10. Taken(last.hash) \o <<>> = Taken(last.hash)
  <2>1. Taken(last.hash) \in Seq(ByteValues)
    BY <1>7, HashFields
  <2>. QED
    BY <2>1, ConcatEmptySeq
<1>. QED
  BY <1>1, <1>7, <1>8, <1>9, <1>10 DEF Updated

LEMMA ZerosFacts ==
  /\ \A n \in Nat : Zeros(n) \in Seq(ByteValues) /\ Len(Zeros(n)) = n
  /\ \A m, n \in Nat : Zeros(m) \o Zeros(n) = Zeros(m + n)
<1>1. ASSUME NEW n \in Nat
      PROVE  /\ Zeros(n) \in Seq(ByteValues) /\ Len(Zeros(n)) = n /\ \A i \in 1..n : Zeros(n)[i] = 0
  <2>1. 0 \in ByteValues
    BY ByteFacts
  <2>. HIDE DEF ByteValues
  <2>. QED
    BY <2>1 DEF Zeros
<1>2. ASSUME NEW m \in Nat, NEW n \in Nat PROVE Zeros(m) \o Zeros(n) = Zeros(m + n)
  <2>. DEFINE a == Zeros(m)
              b == Zeros(n)
              c == Zeros(m + n)
  <2>0. m + n \in Nat
    OBVIOUS
  <2>1. /\ a \in Seq(ByteValues) /\ Len(a) = m /\ \A i \in 1..m : a[i] = 0
        /\ b \in Seq(ByteValues) /\ Len(b) = n /\ \A i \in 1..n : b[i] = 0
        /\ c \in Seq(ByteValues) /\ Len(c) = m + n /\ \A i \in 1..(m + n) : c[i] = 0
    BY <1>1, <2>0
  <2>. HIDE DEF a, b, c, ByteValues
  <2>2. a \o b \in Seq(ByteValues) /\ Len(a \o b) = Len(a) + Len(b)
        /\ \A i \in 1..(Len(a) + Len(b)) : (a \o b)[i] = IF i <= Len(a) THEN a[i] ELSE b[i - Len(a)]
    BY <2>1, ConcatProperties
  <2>3. ASSUME NEW i \in 1..(m + n) PROVE (a \o b)[i] = c[i]
    <3>1. i <= m => i \in 1..m
      OBVIOUS
    <3>2. ~(i <= m) => i - m \in 1..n
      OBVIOUS
    <3>. QED
      BY <2>1, <2>2, <3>1, <3>2
  <2>4. a \o b = c
    BY <2>1, <2>2, <2>3, SeqEqual
  <2>. QED
    BY <2>4 DEF a, b, c
<1>. QED
  BY <1>1, <1>2

LEMMA TimesOneMore ==
  ASSUME NEW a \in Nat, NEW b \in Nat
  PROVE  a * b \in Nat /\ a * (b + 1) = a * b + a /\ a * 0 = 0
BY SMT

LEMMA BlocksLength ==
  ASSUME NEW S, NEW bs \in Seq(Seq(S)), WholeBlocks(bs)
  PROVE  Len(FlattenSeq(bs)) = Block * Len(bs)
<1>. DEFINE T == {n \in Nat : \A cs \in Seq(Seq(S)) :
                    Len(cs) = n /\ WholeBlocks(cs) => Len(FlattenSeq(cs)) = Block * n}
<1>. HIDE DEF T
<1>1. 0 \in T
  <2>1. ASSUME NEW cs \in Seq(Seq(S)), Len(cs) = 0 PROVE Len(FlattenSeq(cs)) = Block * 0
    <3>1. cs = <<>> /\ Len(<<>>) = 0
      BY <2>1
    <3>2. FlattenSeq(<<>>) = <<>>
      BY <3>1 DEF FlattenSeq
    <3>. QED
      BY <3>1, <3>2, BlockFacts, TimesOneMore
  <2>. QED
    BY <2>1 DEF T
<1>2. ASSUME NEW n \in Nat, n \in T PROVE n + 1 \in T
  <2>1. ASSUME NEW cs \in Seq(Seq(S)), Len(cs) = n + 1, WholeBlocks(cs)
        PROVE  Len(FlattenSeq(cs)) = Block * (n + 1)
    <3>1. PICK ds \in Seq(Seq(S)), d \in Seq(S) : cs = Append(ds, d) /\ Len(ds) = n
      BY <2>1, LastOff
    <3>2. cs[n + 1] = d /\ \A i \in 1..n : cs[i] = ds[i]
      <4>. DEFINE U == Seq(S)
      <4>1. ds \in Seq(U) /\ d \in U
        OBVIOUS
      <4>. HIDE DEF U
      <4>. QED
        BY <3>1, <4>1, AppendedLast
    <3>3. WholeBlocks(ds) /\ Len(d) = Block
      <4>1. n + 1 \in 1..(n + 1) /\ \A i \in 1..n : i \in 1..(n + 1)
        OBVIOUS
      <4>. QED
        BY <2>1, <3>1, <3>2, <4>1 DEF WholeBlocks
    <3>4. Len(FlattenSeq(ds)) = Block * n
      BY <1>2, <3>1, <3>3 DEF T
    <3>5. FlattenSeq(Append(ds, d)) = FlattenSeq(ds) \o d /\ FlattenSeq(ds) \in Seq(S)
      BY FlattenAppend
    <3>6. Len(FlattenSeq(ds) \o d) = Len(FlattenSeq(ds)) + Len(d)
      BY <3>5, ConcatProperties
    <3>. QED
      BY <3>1, <3>3, <3>4, <3>5, <3>6, BlockFacts, TimesOneMore
  <2>. QED
    BY <2>1 DEF T
<1>3. \A n \in Nat : n \in T
  BY <1>1, <1>2, Induction
<1>4. Len(bs) \in Nat
  BY LenProperties
<1>. QED
  BY <1>3, <1>4 DEF T

LEMMA SameCount ==
  ASSUME NEW a \in Nat \ {0}, NEW b \in Nat, NEW c \in Nat, a * b = a * c
  PROVE  b = c
<1>1. ASSUME NEW d \in Nat, NEW e \in Nat, d < e PROVE a * d < a * e
  <2>1. PICK k \in Nat : e = d + (k + 1)
    <3>1. e - d - 1 \in Nat /\ e = d + ((e - d - 1) + 1)
      BY <1>1
    <3>. QED
      BY <3>1
  <2>2. a * e = a * d + a * (k + 1) /\ a * (k + 1) = a * k + a /\ a * k \in Nat /\ a * d \in Nat
    BY <2>1, BitsAdded, TimesOneMore
  <2>. QED
    BY <2>2
<1>2. a * b \in Nat /\ a * c \in Nat
  BY TimesOneMore
<1>3. b < c \/ c < b \/ b = c
  OBVIOUS
<1>. QED
  BY <1>1, <1>2, <1>3

\* Whole blocks are known by their bytes.
LEMMA SameBlocks ==
  ASSUME NEW S, NEW bs \in Seq(Seq(S)), NEW cs \in Seq(Seq(S)), WholeBlocks(bs), WholeBlocks(cs),
         FlattenSeq(bs) = FlattenSeq(cs)
  PROVE  bs = cs
<1>1. Block * Len(bs) = Block * Len(cs)
  BY BlocksLength
<1>2. Len(bs) \in Nat /\ Len(cs) \in Nat
  BY LenProperties
<1>3. Len(bs) = Len(cs)
  BY <1>1, <1>2, BlockFacts, SameCount
<1>4. Lengths(bs) = [i \in 1..Len(bs) |-> Block] /\ Lengths(cs) = [i \in 1..Len(cs) |-> Block]
  BY DEF Lengths, WholeBlocks
<1>. QED
  BY <1>3, <1>4, FlattenInjective

LEMMA ZerosFound ==
  ASSUME NEW length \in Nat, NEW z \in 0..(Block - 1), NEW q \in Nat,
         length + 1 + z + LengthSize = Block * q
  PROVE  (CHOOSE n \in 0..(Block - 1) : (length + 1 + n + LengthSize) % Block = 0) = z
<1>0. Block \in Nat \ {0} /\ LengthSize \in Nat
  BY BlockFacts
<1>1. (length + 1 + z + LengthSize) % Block = 0
  <2>1. (Block * q) % Block = 0
    <3>1. (q * Block + 0) % Block = 0
      <4>1. 0 \in 0..(Block - 1)
        BY <1>0
      <4>. QED
        BY <1>0, <4>1, DivUnique
    <3>2. q * Block + 0 = Block * q
      BY <1>0
    <3>. QED
      BY <3>1, <3>2
  <2>. QED
    BY <2>1
<1>2. ASSUME NEW n \in 0..(Block - 1), (length + 1 + n + LengthSize) % Block = 0
      PROVE  n = z
  <2>. DEFINE a == length + 1 + n + LengthSize
              r == a \div Block
  <2>1. a \in Nat /\ r \in Nat /\ a = Block * r
    BY <1>0, <1>2, DivMod
  <2>. HIDE DEF r
  <2>2. a + z = Block * q + n
    BY <1>0
  <2>3. Block * q \in Nat /\ Block * r \in Nat
    BY <1>0, <2>1, TimesOneMore
  <2>. HIDE DEF a
  <2>4. CASE r = q
    BY <2>1, <2>2, <2>3, <2>4
  <2>5. CASE r < q
    <3>1. PICK k \in Nat : q = r + (k + 1)
      <4>1. q - r - 1 \in Nat /\ q = r + ((q - r - 1) + 1)
        BY <2>1, <2>5
      <4>. QED
        BY <4>1
    <3>2. Block * q = Block * r + Block * (k + 1) /\ Block * (k + 1) = Block * k + Block /\ Block * k \in Nat
      BY <1>0, <2>1, <3>1, BitsAdded, TimesOneMore
    <3>. QED
      BY <1>0, <2>1, <2>2, <2>3, <3>2
  <2>6. CASE q < r
    <3>1. PICK k \in Nat : r = q + (k + 1)
      <4>1. r - q - 1 \in Nat /\ r = q + ((r - q - 1) + 1)
        BY <2>1, <2>6
      <4>. QED
        BY <4>1
    <3>2. Block * r = Block * q + Block * (k + 1) /\ Block * (k + 1) = Block * k + Block /\ Block * k \in Nat
      BY <1>0, <2>1, <3>1, BitsAdded, TimesOneMore
    <3>. QED
      BY <1>0, <2>1, <2>2, <2>3, <3>2
  <2>. QED
    BY <2>1, <2>4, <2>5, <2>6
<1>. QED
  BY <1>1, <1>2

LEMMA PartAppended ==
  ASSUME NEW S, NEW bs \in Seq(Seq(S)), NEW b \in Seq(S)
  PROVE  /\ Append(bs, b) \in Seq(Seq(S)) /\ bs \o <<b>> = Append(bs, b)
         /\ WholeBlocks(bs) /\ Len(b) = Block => WholeBlocks(Append(bs, b))
<1>. DEFINE T == Seq(S)
<1>1. bs \in Seq(T) /\ b \in T
  OBVIOUS
<1>. HIDE DEF T
<1>2. Append(bs, b) \in Seq(T) /\ bs \o <<b>> = Append(bs, b)
  BY <1>1, AppendIsConcat
<1>3. WholeBlocks(bs) /\ Len(b) = Block => WholeBlocks(Append(bs, b))
  BY <1>1, WholeAppend
<1>. QED
  BY <1>2, <1>3 DEF T

Grouped(a, b, c) == (a \o b) \o c = a \o (b \o c)

LEMMA Grouping ==
  ASSUME NEW S, NEW a \in Seq(S), NEW b \in Seq(S), NEW c \in Seq(S)
  PROVE  Grouped(a, b, c)
BY ConcatAssociative DEF Grouped

Regrouped(a, b, c, d, e) ==
  /\ a \o ((b \o c) \o d) = ((a \o b) \o c) \o d
  /\ (a \o (b \o c)) \o (d \o e) = ((a \o b) \o (c \o d)) \o e

LEMMA RegroupedAll ==
  ASSUME NEW S, NEW a \in Seq(S), NEW b \in Seq(S), NEW c \in Seq(S), NEW d \in Seq(S), NEW e \in Seq(S)
  PROVE  Regrouped(a, b, c, d, e)
<1>1. b \o c \in Seq(S) /\ a \o b \in Seq(S) /\ c \o d \in Seq(S)
  BY ConcatProperties
<1>2. (a \o b) \o c \in Seq(S)
  BY <1>1, ConcatProperties
<1>3. Grouped(a, b, c) /\ Grouped(a, b \o c, d) /\ Grouped((a \o b) \o c, d, e) /\ Grouped(a \o b, c, d)
  BY <1>1, <1>2, Grouping
<1>. DEFINE ab == a \o b
            bc == b \o c
            cd == c \o d
            abc == ab \o c
            de == d \o e
<1>4. ab \o c = a \o bc /\ (a \o bc) \o d = a \o (bc \o d) /\ (abc \o d) \o e = abc \o de /\ abc \o d = ab \o cd
  BY <1>3 DEF Grouped
<1>. QED
  BY <1>4 DEF Regrouped

\* A digest's blocks are the padded message's.
Final(blocks, message) ==
  /\ blocks \in Seq(Seq(ByteValues)) /\ WholeBlocks(blocks)
  /\ FlattenSeq(blocks) = Padded(message)

LEMMA FinalFacts ==
  ASSUME NEW h, Open(h), h.bits = Bits * Len(Taken(h))
  PROVE  Final(Finalized(h), Taken(h))
<1>. DEFINE marked == Append(h.buffer, Mark)
            m == Len(marked)
            flat == FlattenSeq(h.blocks)
            ending == BigEndian(h.bits)
            message == Taken(h)
            mark == <<Mark>>
<1>. HIDE DEF ByteValues
<1>1. /\ h \in HashState /\ h.buffer \in Seq(ByteValues) /\ Len(h.buffer) \in Nat /\ h.bits \in Nat
      /\ h.blocks \in Seq(Seq(ByteValues)) /\ Len(h.blocks) \in Nat /\ flat \in Seq(ByteValues)
      /\ message \in Seq(ByteValues) /\ Len(h.buffer) < Block /\ WholeBlocks(h.blocks)
  BY HashFields DEF Open
<1>2. mark \in Seq(ByteValues) /\ Len(mark) = 1 /\ Mark \in ByteValues
  BY ByteFacts
<1>3. marked = h.buffer \o mark /\ marked \in Seq(ByteValues) /\ m = Len(h.buffer) + 1 /\ m \in Nat
  <2>1. marked = h.buffer \o mark
    BY <1>1, <1>2, AppendIsConcat
  <2>2. marked \in Seq(ByteValues) /\ m = Len(h.buffer) + 1
    BY <1>1, <1>2, AppendProperties
  <2>. QED
    BY <1>1, <2>1, <2>2
<1>4. ending \in Seq(ByteValues) /\ Len(ending) = LengthSize
  <2>1. to_le(h.bits, LengthSize) \in Seq(ByteValues) /\ Len(to_le(h.bits, LengthSize)) = LengthSize
    BY <1>1, BlockFacts, LittleEndian
  <2>. DEFINE le == to_le(h.bits, LengthSize)
  <2>2. le \in Seq(ByteValues) /\ Len(le) = LengthSize /\ LengthSize \in Nat
    BY <2>1, BlockFacts
  <2>. HIDE DEF le
  <2>3. Reverse(le) \in Seq(ByteValues) /\ Len(Reverse(le)) = LengthSize
    BY <2>2 DEF Reverse
  <2>. QED
    BY <2>3 DEF BigEndian, le
<1>5. flat \o marked = message \o mark
  <2>. DEFINE b == h.buffer
  <2>1. b \in Seq(ByteValues) /\ flat \in Seq(ByteValues)
    BY <1>1
  <2>. HIDE DEF b, flat, mark
  <2>2. Grouped(flat, b, mark)
    BY <1>2, <2>1, Grouping
  <2>. QED
    BY <1>3, <2>2 DEF Taken, flat, b, Grouped
<1>6. Len(message) = Block * Len(h.blocks) + Len(h.buffer)
  <2>1. Len(flat \o h.buffer) = Len(flat) + Len(h.buffer)
    BY <1>1, ConcatProperties
  <2>2. Len(flat) = Block * Len(h.blocks)
    BY <1>1, BlocksLength
  <2>. QED
    BY <2>1, <2>2 DEF Taken
<1>7. /\ Block \in Nat \ {0} /\ LengthSize \in Nat /\ Room \in Nat /\ Room + LengthSize = Block
      /\ Room < Block /\ m <= Block
  BY <1>1, <1>3, BlockFacts
<1>8. ASSUME NEW z \in 0..(Block - 1), NEW q \in Nat, Len(message) + 1 + z + LengthSize = Block * q
      PROVE  Padded(message) = ((message \o mark) \o Zeros(z)) \o ending
  <2>1. Len(message) \in Nat
    BY <1>1, LenProperties
  <2>. HIDE DEF message
  <2>2. (CHOOSE n \in 0..(Block - 1) : (Len(message) + 1 + n + LengthSize) % Block = 0) = z
    BY <1>8, <2>1, ZerosFound
  <2>3. ending = BigEndian(Bits * Len(message))
    BY DEF message
  <2>. QED
    BY <2>2, <2>3 DEF Padded
<1>9. /\ Len(message) \in Nat /\ Block * Len(h.blocks) \in Nat
      /\ Block * (Len(h.blocks) + 1) = Block * Len(h.blocks) + Block
      /\ Block * ((Len(h.blocks) + 1) + 1) = Block * (Len(h.blocks) + 1) + Block
  BY <1>1, <1>7, LenProperties, TimesOneMore
<1>10. CASE Overfull(marked)
  <2>. DEFINE n == Block - m
              a == marked \o Zeros(n)
              b == Zeros(Room) \o ending
              z == n + Room
              cs == Append(h.blocks, a)
              ds == Append(cs, b)
  <2>1. m > Room /\ n \in Nat /\ z \in 0..(Block - 1) /\ z \in Nat
    BY <1>3, <1>7, <1>10 DEF Overfull
  <2>2. Finalized(h) = (h.blocks \o <<a>>) \o <<<<>> \o Zeros(Room - 0) \o ending>>
    <3>1. Len(<<>>) = 0
      OBVIOUS
    <3>. QED
      BY <1>10, <3>1 DEF Finalized
  <2>3. <<>> \o Zeros(Room - 0) = Zeros(Room)
    <3>1. Zeros(Room) \in Seq(ByteValues) /\ Room - 0 = Room
      BY <1>7, ZerosFacts
    <3>. QED
      BY <3>1, ConcatEmptySeq
  <2>4. /\ Zeros(n) \in Seq(ByteValues) /\ Len(Zeros(n)) = n
        /\ Zeros(Room) \in Seq(ByteValues) /\ Len(Zeros(Room)) = Room
        /\ Zeros(n) \o Zeros(Room) = Zeros(z)
    BY <1>7, <2>1, ZerosFacts
  <2>. HIDE DEF n, marked, ending, mark, message
  <2>5. /\ a \in Seq(ByteValues) /\ Len(a) = Block
        /\ b \in Seq(ByteValues) /\ Len(b) = Block
    <3>1. a \in Seq(ByteValues) /\ Len(a) = Len(marked) + Len(Zeros(n))
      BY <1>3, <2>4, ConcatProperties
    <3>2. b \in Seq(ByteValues) /\ Len(b) = Len(Zeros(Room)) + Len(ending)
      BY <1>4, <2>4, ConcatProperties
    <3>3. Len(a) = m + (Block - m) /\ Len(b) = Room + LengthSize
      BY <1>4, <2>4, <3>1, <3>2 DEF n
    <3>4. \A k \in Nat : k + (Block - k) = Block
      BY <1>7
    <3>. QED
      BY <1>3, <1>7, <3>1, <3>2, <3>3, <3>4
  <2>6. FlattenSeq(ds) = (flat \o a) \o b
    <3>1. cs \in Seq(Seq(ByteValues))
      BY <1>1, <2>5, PartAppended
    <3>2. FlattenSeq(cs) = flat \o a
      BY <1>1, <2>5, FlattenAppend
    <3>3. FlattenSeq(ds) = FlattenSeq(cs) \o b
      BY <2>5, <3>1, FlattenAppend
    <3>. QED
      BY <3>2, <3>3
  <2>7. (flat \o (marked \o Zeros(n))) \o (Zeros(Room) \o ending) =
          ((flat \o marked) \o (Zeros(n) \o Zeros(Room))) \o ending
    <3>. DEFINE x == Zeros(n)
                y == Zeros(Room)
    <3>1. flat \in Seq(ByteValues) /\ x \in Seq(ByteValues) /\ y \in Seq(ByteValues)
      BY <1>1, <2>4
    <3>. HIDE DEF flat, x, y
    <3>2. Regrouped(flat, marked, x, y, ending)
      BY <1>3, <1>4, <3>1, RegroupedAll
    <3>. QED
      BY <3>2 DEF x, y, Regrouped
  <2>8. FlattenSeq(ds) = ((message \o mark) \o Zeros(z)) \o ending
    BY <1>5, <2>4, <2>6, <2>7
  <2>9. Len(message) + 1 + z + LengthSize = Block * ((Len(h.blocks) + 1) + 1)
    <3>. DEFINE p == Block * Len(h.blocks)
                l == Len(h.buffer)
    <3>1. /\ p \in Nat /\ l \in Nat /\ Len(message) = p + l /\ m = l + 1
          /\ Block * ((Len(h.blocks) + 1) + 1) = (p + Block) + Block
      BY <1>1, <1>3, <1>6, <1>9
    <3>. HIDE DEF p, l, m
    <3>. QED
      BY <1>7, <3>1 DEF n
  <2>10. (Len(h.blocks) + 1) + 1 \in Nat
    BY <1>1
  <2>11. Padded(message) = ((message \o mark) \o Zeros(z)) \o ending
    BY <1>8, <2>1, <2>9, <2>10
  <2>12. ds \in Seq(Seq(ByteValues)) /\ WholeBlocks(ds)
    BY <1>1, <2>5, PartAppended
  <2>13. Finalized(h) = ds
    <3>1. cs \in Seq(Seq(ByteValues)) /\ h.blocks \o <<a>> = cs
      BY <1>1, <2>5, PartAppended
    <3>. HIDE DEF cs
    <3>2. cs \o <<b>> = ds
      BY <2>5, <3>1, PartAppended
    <3>. QED
      BY <2>2, <2>3, <3>1, <3>2
  <2>. QED
    BY <2>8, <2>11, <2>12, <2>13 DEF Final, message
<1>11. CASE ~Overfull(marked)
  <2>. DEFINE z == Room - m
              b == (marked \o Zeros(z)) \o ending
              cs == Append(h.blocks, b)
  <2>1. z \in Nat /\ z \in 0..(Block - 1)
    BY <1>3, <1>7, <1>11 DEF Overfull
  <2>2. Finalized(h) = (h.blocks \o <<>>) \o <<b>>
    BY <1>11 DEF Finalized
  <2>3. h.blocks \o <<>> = h.blocks
    BY <1>1, ConcatEmptySeq
  <2>4. Zeros(z) \in Seq(ByteValues) /\ Len(Zeros(z)) = z
    BY <2>1, ZerosFacts
  <2>. HIDE DEF z, marked, ending, mark, message
  <2>5. b \in Seq(ByteValues) /\ Len(b) = Block
    <3>1. marked \o Zeros(z) \in Seq(ByteValues) /\ Len(marked \o Zeros(z)) = Len(marked) + Len(Zeros(z))
      BY <1>3, <2>4, ConcatProperties
    <3>2. b \in Seq(ByteValues) /\ Len(b) = Len(marked \o Zeros(z)) + Len(ending)
      BY <1>4, <3>1, ConcatProperties
    <3>3. Len(b) = (m + (Room - m)) + LengthSize
      BY <1>4, <2>4, <3>1, <3>2 DEF z
    <3>4. \A k \in Nat : (k + (Room - k)) + LengthSize = Block
      BY <1>7
    <3>. QED
      BY <1>3, <3>2, <3>3, <3>4
  <2>6. FlattenSeq(cs) = flat \o b
    BY <1>1, <2>5, FlattenAppend
  <2>7. flat \o ((marked \o Zeros(z)) \o ending) = ((flat \o marked) \o Zeros(z)) \o ending
    <3>. DEFINE x == Zeros(z)
    <3>1. flat \in Seq(ByteValues) /\ x \in Seq(ByteValues)
      BY <1>1, <2>4
    <3>. HIDE DEF flat, x
    <3>2. Regrouped(flat, marked, x, ending, ending)
      BY <1>3, <1>4, <3>1, RegroupedAll
    <3>. QED
      BY <3>2 DEF x, Regrouped
  <2>8. FlattenSeq(cs) = ((message \o mark) \o Zeros(z)) \o ending
    BY <1>5, <2>6, <2>7
  <2>9. Len(message) + 1 + z + LengthSize = Block * (Len(h.blocks) + 1)
    <3>. DEFINE p == Block * Len(h.blocks)
                l == Len(h.buffer)
    <3>1. /\ p \in Nat /\ l \in Nat /\ Len(message) = p + l /\ m = l + 1
          /\ Block * (Len(h.blocks) + 1) = p + Block
      BY <1>1, <1>3, <1>6, <1>9
    <3>. HIDE DEF p, l, m
    <3>. QED
      BY <1>7, <3>1 DEF z
  <2>10. Len(h.blocks) + 1 \in Nat
    BY <1>1
  <2>11. Padded(message) = ((message \o mark) \o Zeros(z)) \o ending
    BY <1>8, <2>1, <2>9, <2>10
  <2>12. cs \in Seq(Seq(ByteValues)) /\ WholeBlocks(cs) /\ h.blocks \o <<b>> = cs
    BY <1>1, <2>5, PartAppended
  <2>. QED
    BY <2>2, <2>3, <2>8, <2>11, <2>12 DEF Final, message
<1>. QED
  BY <1>10, <1>11

\* Both took what was fed since the last digest, and every digest agreed.
Took(h, message) == Open(h) /\ Taken(h) = message /\ h.bits = Bits * Len(message)

Results == [own : Seq(Seq(ByteValues)), library : Seq(Seq(ByteValues)), of : Seq(ByteValues)]

HashKept ==
  /\ fed \in Seq(ByteValues) /\ Took(own, fed) /\ Took(library, fed)
  /\ digests \in Seq(Results) /\ DigestsAgree

LEMMA FreshTook == Took(Fresh, <<>>) /\ <<>> \in Seq(ByteValues)
<1>1. /\ <<>> \in Seq(ByteValues) /\ <<>> \in Seq(Seq(ByteValues)) /\ Len(<<>>) = 0 /\ 0 \in Nat
      /\ <<>> \o <<>> = <<>>
  <2>1. <<>> \o <<>> = <<>>
    BY ConcatEmptySeq
  <2>. QED
    BY <2>1
<1>2. Fresh \in HashState /\ Fresh.buffer = <<>> /\ Fresh.bits = 0 /\ Fresh.blocks = <<>>
  BY <1>1 DEF Fresh, HashState
<1>3. FlattenSeq(<<>>) = <<>>
  BY <1>1 DEF FlattenSeq
<1>4. WholeBlocks(<<>>)
  BY <1>1 DEF WholeBlocks
<1>5. Bits * 0 = 0 /\ 0 < Block
  BY ByteFacts, TimesOneMore, BlockFacts
<1>. QED
  BY <1>1, <1>2, <1>3, <1>4, <1>5 DEF Took, Open, Taken

LEMMA TookMore ==
  ASSUME NEW h, NEW g, NEW message \in Seq(ByteValues), NEW piece \in Seq(ByteValues),
         Took(h, message), Updated(g, h, piece)
  PROVE  Took(g, message \o piece)
<1>1. Open(g) /\ Taken(g) = message \o piece /\ g.bits = Bits * Len(message) + Bits * Len(piece)
  BY DEF Took, Updated
<1>2. Len(message \o piece) = Len(message) + Len(piece) /\ Len(message) \in Nat /\ Len(piece) \in Nat
  BY ConcatProperties, LenProperties
<1>3. Bits * Len(message) + Bits * Len(piece) = Bits * (Len(message) + Len(piece))
  BY <1>2, ByteFacts, BitsAdded
<1>. QED
  BY <1>1, <1>2, <1>3 DEF Took

\* What DigestsAgree says of one.
Agrees(d) ==
  /\ d.own = d.library
  /\ FlattenSeq(d.own) = Padded(d.of)
  /\ \A b \in Range(d.own) : Len(b) = Block

LEMMA TookAgrees ==
  ASSUME NEW message \in Seq(ByteValues), NEW g, NEW h, Took(g, message), Took(h, message)
  PROVE  LET d == [own |-> Finalized(g), library |-> Finalized(h), of |-> message] IN
         d \in Results /\ Agrees(d)
<1>. DEFINE a == Finalized(g)
            b == Finalized(h)
<1>1. Final(a, message) /\ Final(b, message)
  BY FinalFacts DEF Took
<1>. HIDE DEF a, b, ByteValues
<1>2. /\ a \in Seq(Seq(ByteValues)) /\ WholeBlocks(a) /\ FlattenSeq(a) = Padded(message)
      /\ b \in Seq(Seq(ByteValues)) /\ WholeBlocks(b) /\ FlattenSeq(b) = Padded(message)
  BY <1>1 DEF Final
<1>3. a = b
  BY <1>2, SameBlocks
<1>4. \A c \in Range(a) : Len(c) = Block
  <2>1. DOMAIN a = 1..Len(a)
    BY <1>2
  <2>. QED
    BY <1>2, <2>1 DEF WholeBlocks, Range
<1>. DEFINE d == [own |-> a, library |-> b, of |-> message]
<1>5. d.own = a /\ d.library = b /\ d.of = message /\ d \in Results
  BY <1>2 DEF Results
<1>. HIDE DEF d
<1>6. d \in Results /\ Agrees(d)
  BY <1>2, <1>3, <1>4, <1>5 DEF Agrees
<1>. QED
  BY <1>6 DEF a, b, d

LEMMA RangeAppend ==
  ASSUME NEW S, NEW s \in Seq(S), NEW e \in S
  PROVE  \A d \in Range(Append(s, e)) : d \in Range(s) \/ d = e
<1>1. /\ DOMAIN Append(s, e) = 1..(Len(s) + 1) /\ DOMAIN s = 1..Len(s) /\ Len(s) \in Nat
      /\ Append(s, e)[Len(s) + 1] = e /\ \A i \in 1..Len(s) : Append(s, e)[i] = s[i]
  BY AppendProperties, LenProperties
<1>2. \A i \in 1..(Len(s) + 1) : i \in 1..Len(s) \/ i = Len(s) + 1
  BY <1>1
<1>. QED
  BY <1>1, <1>2 DEF Range

LEMMA HashKeptInit == CodecInit => HashKept
<1>. SUFFICES ASSUME CodecInit PROVE HashKept
  OBVIOUS
<1>1. own = Fresh /\ library = Fresh /\ fed = <<>> /\ digests = <<>>
  BY DEF CodecInit, HashInit
<1>2. DigestsAgree /\ digests \in Seq(Results)
  <2>1. DOMAIN <<>> = {} /\ <<>> \in Seq(Results)
    OBVIOUS
  <2>. QED
    BY <1>1, <2>1 DEF DigestsAgree, Range
<1>. QED
  BY <1>1, <1>2, FreshTook DEF HashKept

LEMMA HashKeptNext == HashKept /\ [CodecNext]_codecVars => HashKept'
<1>. SUFFICES ASSUME HashKept, [CodecNext]_codecVars PROVE HashKept'
  OBVIOUS
<1>1. ASSUME UNCHANGED hashVars PROVE HashKept'
  BY <1>1 DEF HashKept, hashVars, DigestsAgree
<1>2. CASE Feed
  <2>1. PICK n \in 1..(MaxFed - Len(fed)) :
             LET piece == [i \in 1..n |-> (Len(fed) + i) % Byte] IN
             /\ own' = updateOwn(own, piece)
             /\ library' = updateLibrary(library, piece)
             /\ fed' = fed \o piece
    BY <1>2 DEF Feed
  <2>. DEFINE piece == [i \in 1..n |-> (Len(fed) + i) % Byte]
  <2>2. own' = updateOwn(own, piece) /\ library' = updateLibrary(library, piece) /\ fed' = fed \o piece
        /\ digests' = digests
    BY <1>2, <2>1 DEF Feed
  <2>3. fed \in Seq(ByteValues) /\ Took(own, fed) /\ Took(library, fed)
    BY DEF HashKept
  <2>4. Len(fed) \in Nat /\ n \in Nat
    BY <2>1, <2>3, BlockFacts, LenProperties
  <2>5. piece \in Seq(ByteValues)
    <3>1. ASSUME NEW i \in 1..n PROVE (Len(fed) + i) % Byte \in ByteValues
      <4>1. Len(fed) + i \in Nat /\ Byte \in Nat \ {0}
        BY <2>4, ByteFacts
      <4>2. (Len(fed) + i) % Byte \in 0..(Byte - 1)
        BY <4>1, DivMod
      <4>. QED
        BY <4>2 DEF ByteValues
    <3>. HIDE DEF ByteValues
    <3>. QED
      BY <2>4, <3>1
  <2>. HIDE DEF piece
  <2>6. fed' \in Seq(ByteValues)
    BY <2>2, <2>3, <2>5, ConcatProperties
  <2>7. Took(own', fed') /\ Took(library', fed')
    <3>1. Updated(own', own, piece) /\ Updated(library', library, piece)
      BY <2>2, <2>3, <2>5, OwnUpdates, LibraryUpdates DEF Took
    <3>2. Took(own', fed \o piece) /\ Took(library', fed \o piece)
      BY <2>3, <2>5, <3>1, TookMore
    <3>. QED
      BY <2>2, <3>2
  <2>8. Took(own, fed)' /\ Took(library, fed)'
    BY <2>7 DEF Took, Open, Taken
  <2>9. digests' \in Seq(Results) /\ DigestsAgree'
    BY <2>2 DEF HashKept, DigestsAgree
  <2>. QED
    BY <2>6, <2>8, <2>9 DEF HashKept
<1>3. CASE Digest
  <2>. DEFINE d == [own |-> Finalized(own), library |-> Finalized(library), of |-> fed]
  <2>1. /\ digests' = Append(digests, d)
        /\ own' = Fresh /\ library' = Fresh /\ fed' = <<>>
    BY <1>3 DEF Digest, finish
  <2>2. d \in Results /\ Agrees(d)
    BY TookAgrees DEF HashKept
  <2>. HIDE DEF d
  <2>3. digests \in Seq(Results) /\ digests' \in Seq(Results)
    BY <2>1, <2>2, AppendProperties DEF HashKept
  <2>4. DigestsAgree'
    <3>1. \A e \in Range(digests) : Agrees(e)
      BY DEF HashKept, DigestsAgree, Agrees
    <3>2. \A e \in Range(Append(digests, d)) : e \in Range(digests) \/ e = d
      BY <2>2, <2>3, RangeAppend
    <3>3. \A e \in Range(digests') : Agrees(e)
      BY <2>1, <2>2, <3>1, <3>2
    <3>. QED
      BY <3>3 DEF DigestsAgree, Agrees
  <2>5. Took(own, fed)' /\ Took(library, fed)' /\ fed' \in Seq(ByteValues)
    BY <2>1, FreshTook DEF Took, Open, Taken
  <2>. QED
    BY <2>3, <2>4, <2>5 DEF HashKept
<1>4. CASE Encode \/ Damage
  BY <1>1, <1>4 DEF Encode, Damage
<1>. QED
  BY <1>1, <1>2, <1>3, <1>4 DEF CodecNext, codecVars

\* The compressor's SHA-256 and the library's compress the same blocks, those of the padded
\* message, however it was cut into updates (updateOwn, updateLibrary, Finalized, finish).
THEOREM DigestsSame == CodecSpec => []DigestsAgree
<1>1. CodecInit => HashKept
  BY HashKeptInit
<1>2. HashKept /\ [CodecNext]_codecVars => HashKept'
  BY HashKeptNext
<1>3. HashKept => DigestsAgree
  BY DEF HashKept
<1>. QED
  BY <1>1, <1>2, <1>3, PTL DEF CodecSpec
=============================================================================
