------------------------- MODULE SeqMeasureTheorems -------------------------
(***************************************************************************)
(* What the measures make of longer sequences, for any sequences,          *)
(* and the induction over numbers this takes: it comes from the intervals  *)
(* 0..n, whose strict inclusion is well founded.                           *)
(***************************************************************************)
EXTENDS SeqMeasures, FiniteSets, TLAPS, FiniteSetTheorems, SequenceTheorems,
        WellFoundedInduction

\* Every set of numbers that has one has a least.
LEMMA Least ==
  ASSUME NEW T \in SUBSET Nat, T # {}
  PROVE  \E x \in T : \A y \in T : x <= y
<1>. DEFINE I == {0..n : n \in T}
<1>1. IsWellFoundedOn(StrictSubsetOrdering(Nat), FiniteSubsetsOf(Nat))
  BY FS_StrictSubsetOrderingWellFounded
<1>2. I \subseteq FiniteSubsetsOf(Nat) /\ I # {}
  <2>1. \A n \in T : 0 \in Int /\ n \in Int
    OBVIOUS
  <2>2. \A n \in T : IsFiniteSet(0..n)
    BY <2>1, FS_Interval
  <2>3. \A n \in T : 0..n \in FiniteSubsetsOf(Nat)
    BY <2>2 DEF FiniteSubsetsOf
  <2>. QED
    BY <2>3
<1>3. \E x \in I : \A y \in I : <<y, x>> \notin StrictSubsetOrdering(Nat)
  <2>. HIDE DEF I
  <2>. QED
    BY <1>1, <1>2, WFMin
<1>4. PICK x \in T : \A y \in T : <<0..y, 0..x>> \notin StrictSubsetOrdering(Nat)
  BY <1>3
<1>5. ASSUME NEW y \in T, y < x PROVE FALSE
  <2>1. 0..y \subseteq 0..x /\ 0..y # 0..x
    BY <1>5
  <2>2. <<0..y, 0..x>> \in StrictSubsetOrdering(Nat)
    BY <2>1 DEF StrictSubsetOrdering
  <2>. QED
    BY <2>2, <1>4
<1>. QED
  BY <1>5

\* Induction over the numbers, with a set for the predicate.
LEMMA Induction ==
  ASSUME NEW S, 0 \in S, \A n \in Nat : n \in S => n + 1 \in S
  PROVE  \A n \in Nat : n \in S
<1>. SUFFICES ASSUME Nat \ S # {} PROVE FALSE
  OBVIOUS
<1>1. PICK x \in Nat \ S : \A y \in Nat \ S : x <= y
  BY Least
<1>2. x # 0 /\ x - 1 \in Nat /\ x - 1 \in S
  BY <1>1
<1>. QED
  BY <1>1, <1>2

\* Selected and Total without the recursion: the functions they are values of.
Selecting(f, s, wanted, last) ==
  f = [n \in 0..last |->
        IF n = 0 THEN <<>>
        ELSE IF s[n] \in wanted THEN Append(f[n - 1], s[n]) ELSE f[n - 1]]

Totalling(f, s, last) == f = [n \in 0..last |-> IF n = 0 THEN 0 ELSE f[n - 1] + s[n]]

LEMMA SelectingIs ==
  ASSUME NEW s, NEW wanted, NEW last \in Nat
  PROVE  \E f : Selecting(f, s, wanted, last)
<1>. DEFINE S == {n \in Nat : \E f : Selecting(f, s, wanted, n)}
<1>1. 0 \in S
  <2>1. Selecting([n \in 0..0 |-> <<>>], s, wanted, 0)
    BY DEF Selecting
  <2>. QED
    BY <2>1
<1>2. ASSUME NEW n \in Nat, n \in S PROVE n + 1 \in S
  <2>1. PICK f : Selecting(f, s, wanted, n)
    BY <1>2
  <2>. DEFINE next == IF s[n + 1] \in wanted THEN Append(f[n], s[n + 1]) ELSE f[n]
              g == [i \in 0..(n + 1) |-> IF i = n + 1 THEN next ELSE f[i]]
  <2>2. \A i \in 0..n : f[i] = IF i = 0 THEN <<>>
                 ELSE IF s[i] \in wanted THEN Append(f[i - 1], s[i]) ELSE f[i - 1]
    BY <2>1 DEF Selecting
  <2>3. \A i \in 0..(n + 1) : i # 0 => g[i - 1] = f[i - 1]
    OBVIOUS
  <2>4. \A i \in 0..(n + 1) : g[i] = IF i = 0 THEN <<>>
                 ELSE IF s[i] \in wanted THEN Append(g[i - 1], s[i]) ELSE g[i - 1]
    <3>1. ASSUME NEW i \in 0..n
          PROVE  g[i] = IF i = 0 THEN <<>>
                 ELSE IF s[i] \in wanted THEN Append(g[i - 1], s[i]) ELSE g[i - 1]
      BY <2>2, <2>3
    <3>2. g[n + 1] = IF s[n + 1] \in wanted THEN Append(g[n], s[n + 1]) ELSE g[n]
      OBVIOUS
    <3>3. \A i \in 0..(n + 1) : i \in 0..n \/ (i = n + 1 /\ i # 0 /\ i - 1 = n)
      OBVIOUS
    <3>. HIDE DEF g
    <3>. QED
      BY <3>1, <3>2, <3>3
  <2>5. Selecting(g, s, wanted, n + 1)
    <3>1. g = [i \in 0..(n + 1) |-> g[i]]
      OBVIOUS
    <3>. HIDE DEF g
    <3>. QED
      BY <2>4, <3>1 DEF Selecting
  <2>. QED
    BY <2>5
<1>. HIDE DEF S
<1>3. last \in S
  BY <1>1, <1>2, Induction
<1>. QED
  BY <1>3 DEF S

LEMMA SelectedIs ==
  ASSUME NEW s, NEW wanted, Len(s) \in Nat
  PROVE  \E f : Selecting(f, s, wanted, Len(s)) /\ Selected(s, wanted) = f[Len(s)]
<1>. DEFINE f == CHOOSE f : Selecting(f, s, wanted, Len(s))
<1>1. Selecting(f, s, wanted, Len(s))
  BY SelectingIs
<1>2. Selected(s, wanted) = f[Len(s)]
  BY DEF Selected, Selecting
<1>. QED
  BY <1>1, <1>2

\* What has been selected from a part of a sequence does not depend on the rest.
LEMMA SelectingAgree ==
  ASSUME NEW s, NEW t, NEW wanted, NEW n \in Nat, NEW m \in Nat, n <= m,
         \A i \in 1..n : s[i] = t[i],
         NEW f, Selecting(f, s, wanted, n), NEW g, Selecting(g, t, wanted, m)
  PROVE  f[n] = g[n]
<1>. DEFINE S == {i \in Nat : i <= n => f[i] = g[i]}
<1>1. \A i \in 0..n : f[i] = IF i = 0 THEN <<>>
                 ELSE IF s[i] \in wanted THEN Append(f[i - 1], s[i]) ELSE f[i - 1]
  BY DEF Selecting
<1>2. \A i \in 0..m : g[i] = IF i = 0 THEN <<>>
                 ELSE IF t[i] \in wanted THEN Append(g[i - 1], t[i]) ELSE g[i - 1]
  BY DEF Selecting
<1>3. 0 \in S
  BY <1>1, <1>2
<1>4. ASSUME NEW i \in Nat, i \in S PROVE i + 1 \in S
  <2>. SUFFICES ASSUME i + 1 <= n PROVE f[i + 1] = g[i + 1]
    OBVIOUS
  <2>1. i + 1 \in 0..n /\ i + 1 \in 0..m /\ i + 1 \in 1..n /\ i + 1 # 0 /\ (i + 1) - 1 = i
    OBVIOUS
  <2>2. f[i] = g[i] /\ s[i + 1] = t[i + 1]
    BY <1>4, <2>1
  <2>. QED
    BY <1>1, <1>2, <2>1, <2>2
<1>. HIDE DEF S
<1>5. n \in S
  BY <1>3, <1>4, Induction
<1>. QED
  BY <1>5 DEF S

LEMMA SelectedEmpty == ASSUME NEW wanted PROVE Selected(<<>>, wanted) = <<>>
<1>1. Len(<<>>) = 0
  OBVIOUS
<1>2. PICK f : Selecting(f, <<>>, wanted, 0) /\ Selected(<<>>, wanted) = f[0]
  BY <1>1, SelectedIs
<1>. QED
  BY <1>2 DEF Selecting

LEMMA SelectedAppend ==
  ASSUME NEW S, NEW s \in Seq(S), NEW e \in S, NEW wanted
  PROVE  Selected(Append(s, e), wanted) =
           IF e \in wanted THEN Append(Selected(s, wanted), e) ELSE Selected(s, wanted)
<1>. DEFINE t == Append(s, e)
            n == Len(s)
<1>1. /\ n \in Nat /\ Len(t) = n + 1 /\ t[n + 1] = e
      /\ \A i \in 1..n : s[i] = t[i]
  OBVIOUS
<1>. HIDE DEF t
<1>2. PICK f : Selecting(f, s, wanted, n) /\ Selected(s, wanted) = f[n]
  BY <1>1, SelectedIs
<1>3. Len(t) \in Nat
  BY <1>1
<1>4. PICK g : Selecting(g, t, wanted, n + 1) /\ Selected(t, wanted) = g[n + 1]
  BY <1>1, <1>3, SelectedIs
<1>5. f[n] = g[n]
  BY <1>1, <1>2, <1>4, SelectingAgree
<1>6. g[n + 1] = IF t[n + 1] \in wanted THEN Append(g[n], t[n + 1]) ELSE g[n]
  <2>1. n + 1 \in 0..(n + 1) /\ n + 1 # 0 /\ (n + 1) - 1 = n
    BY <1>1
  <2>2. \A i \in 0..(n + 1) : g[i] = IF i = 0 THEN <<>>
                 ELSE IF t[i] \in wanted THEN Append(g[i - 1], t[i]) ELSE g[i - 1]
    BY <1>4 DEF Selecting
  <2>. QED
    BY <2>1, <2>2
<1>. QED
  BY <1>1, <1>2, <1>4, <1>5, <1>6 DEF t

\* A sequence of one more element is another with one appended.
LEMMA LastOff ==
  ASSUME NEW S, NEW n \in Nat, NEW s \in Seq(S), Len(s) = n + 1
  PROVE  \E r \in Seq(S), e \in S : s = Append(r, e) /\ Len(r) = n
<1>. DEFINE r == [i \in 1..n |-> s[i]]
<1>1. s[n + 1] \in S /\ \A i \in 1..n : s[i] \in S
  OBVIOUS
<1>2. r \in Seq(S) /\ Len(r) = n
  BY <1>1
<1>3. s = Append(r, s[n + 1])
  BY <1>1, <1>2
<1>. QED
  BY <1>1, <1>2, <1>3

\* The selected elements are elements, and of the set.
LEMMA SelectedType ==
  ASSUME NEW S, NEW s \in Seq(S), NEW wanted
  PROVE  Selected(s, wanted) \in Seq(S \cap wanted)
<1>. DEFINE L == {n \in Nat : \A r \in Seq(S) : Len(r) = n => Selected(r, wanted) \in Seq(S \cap wanted)}
<1>1. 0 \in L
  <2>1. \A r \in Seq(S) : Len(r) = 0 => r = <<>>
    OBVIOUS
  <2>. QED
    BY <2>1, SelectedEmpty
<1>2. ASSUME NEW n \in Nat, n \in L PROVE n + 1 \in L
  <2>. SUFFICES ASSUME NEW r \in Seq(S), Len(r) = n + 1
       PROVE  Selected(r, wanted) \in Seq(S \cap wanted)
    OBVIOUS
  <2>1. PICK q \in Seq(S), e \in S : r = Append(q, e) /\ Len(q) = n
    BY LastOff
  <2>2. Selected(q, wanted) \in Seq(S \cap wanted)
    BY <1>2, <2>1
  <2>3. Selected(r, wanted) =
          IF e \in wanted THEN Append(Selected(q, wanted), e) ELSE Selected(q, wanted)
    BY <2>1, SelectedAppend
  <2>. QED
    BY <2>2, <2>3
<1>. HIDE DEF L
<1>3. Len(s) \in L
  BY <1>1, <1>2, Induction
<1>. QED
  BY <1>3 DEF L

\* Selecting from two sequences one after the other.
LEMMA SelectedConcat ==
  ASSUME NEW S, NEW s \in Seq(S), NEW t \in Seq(S), NEW wanted
  PROVE  Selected(s \o t, wanted) = Selected(s, wanted) \o Selected(t, wanted)
<1>. DEFINE L == {n \in Nat : \A r \in Seq(S) : Len(r) = n =>
                    Selected(s \o r, wanted) = Selected(s, wanted) \o Selected(r, wanted)}
<1>1. Selected(s, wanted) \in Seq(S \cap wanted)
  BY SelectedType
<1>2. 0 \in L
  <2>1. \A r \in Seq(S) : Len(r) = 0 => r = <<>>
    OBVIOUS
  <2>2. s \o <<>> = s
    OBVIOUS
  <2>3. Selected(s, wanted) \o <<>> = Selected(s, wanted)
    BY <1>1
  <2>. QED
    BY <2>1, <2>2, <2>3, SelectedEmpty
<1>3. ASSUME NEW n \in Nat, n \in L PROVE n + 1 \in L
  <2>. SUFFICES ASSUME NEW r \in Seq(S), Len(r) = n + 1
       PROVE  Selected(s \o r, wanted) = Selected(s, wanted) \o Selected(r, wanted)
    OBVIOUS
  <2>1. PICK q \in Seq(S), e \in S : r = Append(q, e) /\ Len(q) = n
    BY LastOff
  <2>2. Selected(s \o q, wanted) = Selected(s, wanted) \o Selected(q, wanted)
    BY <1>3, <2>1
  <2>3. s \o r = Append(s \o q, e) /\ s \o q \in Seq(S)
    BY <2>1
  <2>4. Selected(r, wanted) =
          IF e \in wanted THEN Append(Selected(q, wanted), e) ELSE Selected(q, wanted)
    BY <2>1, SelectedAppend
  <2>5. Selected(s \o r, wanted) =
          IF e \in wanted THEN Append(Selected(s \o q, wanted), e) ELSE Selected(s \o q, wanted)
    <3>1. Selected(Append(s \o q, e), wanted) =
            IF e \in wanted THEN Append(Selected(s \o q, wanted), e)
            ELSE Selected(s \o q, wanted)
      BY <2>3, SelectedAppend
    <3>. QED
      BY <2>3, <3>1
  <2>6. Selected(q, wanted) \in Seq(S \cap wanted)
    BY SelectedType
  <2>7. e \in wanted => Append(Selected(s, wanted) \o Selected(q, wanted), e)
                         = Selected(s, wanted) \o Append(Selected(q, wanted), e)
    <3>. HIDE DEF L
    <3>. DEFINE K == S \cap wanted
                a == Selected(s, wanted)
                b == Selected(q, wanted)
    <3>1. a \in Seq(K) /\ b \in Seq(K) /\ (e \in wanted => e \in K)
      BY <1>1, <2>6
    <3>. HIDE DEF K, a, b
    <3>2. ASSUME e \in K PROVE Append(a \o b, e) = a \o Append(b, e)
      <4>1. Append(a \o b, e) = (a \o b) \o <<e>> /\ Append(b, e) = b \o <<e>>
        BY <3>1, <3>2
      <4>2. <<e>> \in Seq(K)
        BY <3>2
      <4>3. (a \o b) \o <<e>> = a \o (b \o <<e>>)
        BY <3>1, <4>2, ConcatAssociative, SMTT(20)
      <4>. QED
        BY <4>1, <4>3
    <3>. QED
      BY <3>1, <3>2 DEF a, b
  <2>. QED
    BY <2>2, <2>4, <2>5, <2>7
<1>. HIDE DEF L
<1>4. Len(t) \in L
  BY <1>2, <1>3, Induction
<1>. QED
  BY <1>4 DEF L

LEMMA TotallingIs ==
  ASSUME NEW s, NEW last \in Nat
  PROVE  \E f : Totalling(f, s, last)
<1>. DEFINE S == {n \in Nat : \E f : Totalling(f, s, n)}
<1>1. 0 \in S
  <2>1. Totalling([n \in 0..0 |-> 0], s, 0)
    BY DEF Totalling
  <2>. QED
    BY <2>1
<1>2. ASSUME NEW n \in Nat, n \in S PROVE n + 1 \in S
  <2>1. PICK f : Totalling(f, s, n)
    BY <1>2
  <2>. DEFINE g == [i \in 0..(n + 1) |-> IF i = n + 1 THEN f[n] + s[n + 1] ELSE f[i]]
  <2>2. \A i \in 0..n : f[i] = IF i = 0 THEN 0 ELSE f[i - 1] + s[i]
    BY <2>1 DEF Totalling
  <2>3. \A i \in 0..(n + 1) : i # 0 => g[i - 1] = f[i - 1]
    OBVIOUS
  <2>4. \A i \in 0..(n + 1) : g[i] = IF i = 0 THEN 0 ELSE g[i - 1] + s[i]
    <3>1. ASSUME NEW i \in 0..n PROVE g[i] = IF i = 0 THEN 0 ELSE g[i - 1] + s[i]
      BY <2>2, <2>3
    <3>2. g[n + 1] = g[n] + s[n + 1]
      OBVIOUS
    <3>3. \A i \in 0..(n + 1) : i \in 0..n \/ (i = n + 1 /\ i # 0 /\ i - 1 = n)
      OBVIOUS
    <3>. HIDE DEF g
    <3>. QED
      BY <3>1, <3>2, <3>3
  <2>5. Totalling(g, s, n + 1)
    <3>1. g = [i \in 0..(n + 1) |-> g[i]]
      OBVIOUS
    <3>. HIDE DEF g
    <3>. QED
      BY <2>4, <3>1 DEF Totalling
  <2>. QED
    BY <2>5
<1>. HIDE DEF S
<1>3. last \in S
  BY <1>1, <1>2, Induction
<1>. QED
  BY <1>3 DEF S

\* The running sum of a sequence, and a sequence that is another but for one place,
\* where it has more.
Running(f, s, n) == \A i \in 0..n : f[i] = IF i = 0 THEN 0 ELSE f[i - 1] + s[i]

Exceeds(t, s, n, place, more) ==
  \A i \in 1..n : s[i] \in Nat /\ t[i] = s[i] + (IF i = place THEN more ELSE 0)

LEMMA TotalIs ==
  ASSUME NEW s, Len(s) \in Nat
  PROVE  \E f : Running(f, s, Len(s)) /\ Total(s) = f[Len(s)]
<1>. DEFINE f == CHOOSE f : Totalling(f, s, Len(s))
<1>1. Totalling(f, s, Len(s))
  BY TotallingIs
<1>2. Total(s) = f[Len(s)]
  BY DEF Total, Totalling
<1>. HIDE DEF f
<1>3. Running(f, s, Len(s))
  BY <1>1 DEF Totalling, Running
<1>. QED
  BY <1>2, <1>3

\* The sum of two sequences that agree but at one place, where one has more.
LEMMA TotalsCompare ==
  ASSUME NEW n \in Nat, NEW s, NEW t, NEW place \in Nat, NEW more \in Nat,
         Exceeds(t, s, n, place, more), NEW f, Running(f, s, n), NEW g, Running(g, t, n)
  PROVE  f[n] \in Nat /\ g[n] = f[n] + (IF place \in 1..n THEN more ELSE 0)
<1>. USE DEF Exceeds, Running
<1>. DEFINE S == {i \in Nat : i <= n =>
                    f[i] \in Nat /\ g[i] = f[i] + (IF place \in 1..i THEN more ELSE 0)}
<1>1. 0 \in S
  <2>1. 0 \in 0..n /\ place \notin 1..0
    OBVIOUS
  <2>2. f[0] = 0 /\ g[0] = 0
    BY <2>1
  <2>. QED
    BY <2>1, <2>2
<1>2. ASSUME NEW i \in Nat, i \in S PROVE i + 1 \in S
  <2>. SUFFICES ASSUME i + 1 <= n
       PROVE  f[i + 1] \in Nat /\ g[i + 1] = f[i + 1] + (IF place \in 1..(i + 1) THEN more ELSE 0)
    OBVIOUS
  <2>1. /\ i + 1 \in 0..n /\ i + 1 \in 1..n /\ i + 1 # 0 /\ (i + 1) - 1 = i
        /\ i <= n
    OBVIOUS
  <2>2. f[i] \in Nat /\ g[i] = f[i] + (IF place \in 1..i THEN more ELSE 0)
    BY <1>2, <2>1
  <2>3. f[i + 1] = f[i] + s[i + 1] /\ g[i + 1] = g[i] + t[i + 1]
    BY <2>1
  <2>4. s[i + 1] \in Nat /\ t[i + 1] = s[i + 1] + (IF i + 1 = place THEN more ELSE 0)
    BY <2>1
  <2>5. place \in 1..(i + 1) <=> (place \in 1..i \/ place = i + 1)
    OBVIOUS
  <2>6. CASE place = i + 1
    <3>1. place \notin 1..i
      BY <2>6
    <3>. QED
      BY <2>2, <2>3, <2>4, <2>5, <2>6, <3>1
  <2>7. CASE place # i + 1
    BY <2>2, <2>3, <2>4, <2>5, <2>7
  <2>. QED
    BY <2>6, <2>7
<1>. HIDE DEF S
<1>3. n \in S
  BY <1>1, <1>2, Induction
<1>. QED
  BY <1>3 DEF S

LEMMA TotalEmpty == Total(<<>>) = 0
<1>1. Len(<<>>) = 0 /\ 0 \in 0..0
  OBVIOUS
<1>. QED
  BY <1>1, TotalIs DEF Running

LEMMA TotalAppend ==
  ASSUME NEW s \in Seq(Nat), NEW e \in Nat
  PROVE  Total(s) \in Nat /\ Total(Append(s, e)) = Total(s) + e
<1>. DEFINE t == Append(s, e)
            n == Len(s)
<1>1. /\ n \in Nat /\ Len(t) = n + 1 /\ t[n + 1] = e /\ t \in Seq(Nat)
      /\ \A i \in 1..n : t[i] = s[i] /\ s[i] \in Nat
  OBVIOUS
<1>. HIDE DEF t
<1>2. PICK f : Running(f, s, n) /\ Total(s) = f[n]
  BY <1>1, TotalIs
<1>3. PICK g : Running(g, t, n + 1) /\ Total(t) = g[n + 1]
  <2>1. Len(t) \in Nat
    BY <1>1
  <2>. QED
    BY <1>1, <2>1, TotalIs
<1>4. f[n] \in Nat /\ g[n] = f[n]
  <2>1. Exceeds(t, s, n, 0, 0)
    BY <1>1 DEF Exceeds
  <2>2. Running(g, t, n)
    BY <1>1, <1>3 DEF Running
  <2>3. f[n] \in Nat /\ g[n] = f[n] + (IF 0 \in 1..n THEN 0 ELSE 0)
    BY <1>1, <1>2, <2>1, <2>2, TotalsCompare
  <2>. QED
    BY <2>3
<1>5. g[n + 1] = g[n] + e
  <2>1. n + 1 \in 0..(n + 1) /\ n + 1 # 0 /\ (n + 1) - 1 = n
    BY <1>1
  <2>. QED
    BY <1>1, <1>3, <2>1 DEF Running
<1>. QED
  BY <1>2, <1>3, <1>4, <1>5 DEF t

\* One number of a sequence grows, and so does the sum.
LEMMA TotalExcept ==
  ASSUME NEW s \in Seq(Nat), NEW t \in Seq(Nat), Len(t) = Len(s), NEW place \in 1..Len(s),
         NEW more \in Nat, \A i \in 1..Len(s) : t[i] = s[i] + (IF i = place THEN more ELSE 0)
  PROVE  Total(s) \in Nat /\ Total(t) = Total(s) + more
<1>. DEFINE n == Len(s)
<1>1. n \in Nat /\ place \in Nat /\ Len(t) \in Nat
  OBVIOUS
<1>2. PICK f : Running(f, s, n) /\ Total(s) = f[n]
  BY <1>1, TotalIs
<1>3. PICK g : Running(g, t, n) /\ Total(t) = g[n]
  BY <1>1, TotalIs
<1>4. Exceeds(t, s, n, place, more)
  BY DEF Exceeds
<1>. HIDE DEF n
<1>5. f[n] \in Nat /\ g[n] = f[n] + (IF place \in 1..n THEN more ELSE 0)
  BY <1>1, <1>2, <1>3, <1>4, TotalsCompare
<1>. QED
  BY <1>2, <1>3, <1>5 DEF n

\* Nothing but zeros.
LEMMA TotalZero ==
  ASSUME NEW n \in Nat
  PROVE  Total([i \in 1..n |-> 0]) = 0
<1>. DEFINE s == [i \in 1..n |-> 0]
            S == {i \in Nat : Total([j \in 1..i |-> 0]) = 0}
<1>1. 0 \in S
  <2>1. [j \in 1..0 |-> 0] = <<>>
    OBVIOUS
  <2>. QED
    BY <2>1, TotalEmpty
<1>2. ASSUME NEW i \in Nat, i \in S PROVE i + 1 \in S
  <2>. DEFINE x == [j \in 1..i |-> 0]
              y == [j \in 1..(i + 1) |-> 0]
  <2>1. x \in Seq(Nat) /\ y = Append(x, 0)
    OBVIOUS
  <2>2. Total(x) = 0
    BY <1>2
  <2>. HIDE DEF x, y
  <2>3. Total(y) = 0
    BY <2>1, <2>2, TotalAppend
  <2>. QED
    BY <2>3 DEF y
<1>. HIDE DEF S
<1>3. n \in S
  BY <1>1, <1>2, Induction
<1>. QED
  BY <1>3 DEF S

-----------------------------------------------------------------------------
(* Iterated and Folded.                                                    *)

\* Iterated and Folded without the recursion: the functions they are values of.
Repeating(f, step, start, last) ==
  f = [n \in 0..last |-> IF n = 0 THEN start ELSE step[f[n - 1]]]

Folding(f, step, start, s, last) ==
  f = [n \in 0..last |-> IF n = 0 THEN start ELSE step[<<f[n - 1], s[n]>>]]

LEMMA RepeatingIs ==
  ASSUME NEW step, NEW start, NEW last \in Nat
  PROVE  \E f : Repeating(f, step, start, last)
<1>. DEFINE S == {n \in Nat : \E f : Repeating(f, step, start, n)}
<1>1. 0 \in S
  <2>1. Repeating([n \in 0..0 |-> start], step, start, 0)
    BY DEF Repeating
  <2>. QED
    BY <2>1
<1>2. ASSUME NEW n \in Nat, n \in S PROVE n + 1 \in S
  <2>1. PICK f : Repeating(f, step, start, n)
    BY <1>2
  <2>. DEFINE g == [i \in 0..(n + 1) |-> IF i = n + 1 THEN step[f[n]] ELSE f[i]]
  <2>2. \A i \in 0..n : f[i] = IF i = 0 THEN start ELSE step[f[i - 1]]
    BY <2>1 DEF Repeating
  <2>3. \A i \in 0..(n + 1) : i # 0 => g[i - 1] = f[i - 1]
    OBVIOUS
  <2>4. \A i \in 0..(n + 1) : g[i] = IF i = 0 THEN start ELSE step[g[i - 1]]
    <3>1. ASSUME NEW i \in 0..n PROVE g[i] = IF i = 0 THEN start ELSE step[g[i - 1]]
      BY <2>2, <2>3
    <3>2. g[n + 1] = step[g[n]]
      OBVIOUS
    <3>3. \A i \in 0..(n + 1) : i \in 0..n \/ (i = n + 1 /\ i # 0 /\ i - 1 = n)
      OBVIOUS
    <3>. HIDE DEF g
    <3>. QED
      BY <3>1, <3>2, <3>3
  <2>5. Repeating(g, step, start, n + 1)
    <3>1. g = [i \in 0..(n + 1) |-> g[i]]
      OBVIOUS
    <3>. HIDE DEF g
    <3>. QED
      BY <2>4, <3>1 DEF Repeating
  <2>. QED
    BY <2>5
<1>. HIDE DEF S
<1>3. last \in S
  BY <1>1, <1>2, Induction
<1>. QED
  BY <1>3 DEF S

LEMMA IteratedIs ==
  ASSUME NEW step, NEW start, NEW times \in Nat
  PROVE  \E f : Repeating(f, step, start, times) /\ Iterated(step, start, times) = f[times]
<1>. DEFINE f == CHOOSE f : Repeating(f, step, start, times)
<1>1. Repeating(f, step, start, times)
  BY RepeatingIs
<1>2. Iterated(step, start, times) = f[times]
  BY DEF Iterated, Repeating
<1>. QED
  BY <1>1, <1>2

LEMMA RepeatingAgree ==
  ASSUME NEW step, NEW start, NEW n \in Nat, NEW m \in Nat, n <= m,
         NEW f, Repeating(f, step, start, n), NEW g, Repeating(g, step, start, m)
  PROVE  f[n] = g[n]
<1>. DEFINE S == {i \in Nat : i <= n => f[i] = g[i]}
<1>1. /\ \A i \in 0..n : f[i] = IF i = 0 THEN start ELSE step[f[i - 1]]
      /\ \A i \in 0..m : g[i] = IF i = 0 THEN start ELSE step[g[i - 1]]
  BY DEF Repeating
<1>2. 0 \in S
  BY <1>1
<1>3. ASSUME NEW i \in Nat, i \in S PROVE i + 1 \in S
  <2>. SUFFICES ASSUME i + 1 <= n PROVE f[i + 1] = g[i + 1]
    OBVIOUS
  <2>1. i + 1 \in 0..n /\ i + 1 \in 0..m /\ i + 1 # 0 /\ (i + 1) - 1 = i
    OBVIOUS
  <2>2. f[i] = g[i]
    BY <1>3, <2>1
  <2>. QED
    BY <1>1, <2>1, <2>2
<1>. HIDE DEF S
<1>4. n \in S
  BY <1>2, <1>3, Induction
<1>. QED
  BY <1>4 DEF S

\* A step more at the end.
LEMMA IteratedNext ==
  ASSUME NEW step, NEW start, NEW n \in Nat
  PROVE  /\ Iterated(step, start, 0) = start
         /\ Iterated(step, start, n + 1) = step[Iterated(step, start, n)]
<1>1. Iterated(step, start, 0) = start
  BY IteratedIs DEF Repeating
<1>2. PICK f : Repeating(f, step, start, n) /\ Iterated(step, start, n) = f[n]
  BY IteratedIs
<1>3. PICK g : Repeating(g, step, start, n + 1) /\ Iterated(step, start, n + 1) = g[n + 1]
  BY IteratedIs
<1>4. g[n + 1] = step[g[n]]
  <2>1. n + 1 \in 0..(n + 1) /\ n + 1 # 0 /\ (n + 1) - 1 = n
    OBVIOUS
  <2>. QED
    BY <1>3, <2>1 DEF Repeating
<1>5. f[n] = g[n]
  <2>1. n + 1 \in Nat /\ n <= n + 1
    OBVIOUS
  <2>. QED
    BY <1>2, <1>3, <2>1, RepeatingAgree
<1>. QED
  BY <1>1, <1>2, <1>3, <1>4, <1>5

\* A step more at the start.
LEMMA IteratedFirst ==
  ASSUME NEW step, NEW start, NEW n \in Nat
  PROVE  Iterated(step, start, n + 1) = Iterated(step, step[start], n)
<1>. DEFINE S == {k \in Nat : Iterated(step, start, k + 1) = Iterated(step, step[start], k)}
<1>1. 0 \in S
  <2>1. Iterated(step, start, 0 + 1) = step[Iterated(step, start, 0)]
    BY IteratedNext
  <2>. QED
    BY <2>1, IteratedNext
<1>2. ASSUME NEW k \in Nat, k \in S PROVE k + 1 \in S
  <2>1. k + 1 \in Nat
    OBVIOUS
  <2>2. Iterated(step, start, (k + 1) + 1) = step[Iterated(step, start, k + 1)]
    BY <2>1, IteratedNext
  <2>3. Iterated(step, step[start], k + 1) = step[Iterated(step, step[start], k)]
    BY IteratedNext
  <2>. QED
    BY <1>2, <2>1, <2>2, <2>3
<1>. HIDE DEF S
<1>3. n \in S
  BY <1>1, <1>2, Induction
<1>. QED
  BY <1>3 DEF S

LEMMA IteratedType ==
  ASSUME NEW T, NEW step, \A x \in T : step[x] \in T, NEW start \in T, NEW n \in Nat
  PROVE  Iterated(step, start, n) \in T
<1>. DEFINE S == {k \in Nat : Iterated(step, start, k) \in T}
<1>1. 0 \in S
  BY IteratedNext
<1>2. ASSUME NEW k \in Nat, k \in S PROVE k + 1 \in S
  BY <1>2, IteratedNext
<1>. HIDE DEF S
<1>3. n \in S
  BY <1>1, <1>2, Induction
<1>. QED
  BY <1>3 DEF S

LEMMA FoldingIs ==
  ASSUME NEW step, NEW start, NEW s, NEW last \in Nat
  PROVE  \E f : Folding(f, step, start, s, last)
<1>. DEFINE S == {n \in Nat : \E f : Folding(f, step, start, s, n)}
<1>1. 0 \in S
  <2>1. Folding([n \in 0..0 |-> start], step, start, s, 0)
    BY DEF Folding
  <2>. QED
    BY <2>1
<1>2. ASSUME NEW n \in Nat, n \in S PROVE n + 1 \in S
  <2>1. PICK f : Folding(f, step, start, s, n)
    BY <1>2
  <2>. DEFINE next == step[<<f[n], s[n + 1]>>]
              g == [i \in 0..(n + 1) |-> IF i = n + 1 THEN next ELSE f[i]]
  <2>2. \A i \in 0..n : f[i] = IF i = 0 THEN start ELSE step[<<f[i - 1], s[i]>>]
    BY <2>1 DEF Folding
  <2>3. g[n + 1] = next /\ (\A i \in 0..n : g[i] = f[i])
    <3>. HIDE DEF next
    <3>. QED
      OBVIOUS
  <2>4. \A i \in 0..(n + 1) : g[i] = IF i = 0 THEN start ELSE step[<<g[i - 1], s[i]>>]
    <3>. HIDE DEF g
    <3>1. ASSUME NEW i \in 0..n PROVE g[i] = IF i = 0 THEN start ELSE step[<<g[i - 1], s[i]>>]
      <4>1. i # 0 => i - 1 \in 0..n
        OBVIOUS
      <4>. QED
        BY <2>2, <2>3, <4>1
    <3>2. g[n + 1] = step[<<g[n], s[n + 1]>>]
      <4>1. n \in 0..n
        OBVIOUS
      <4>. QED
        BY <2>3, <4>1
    <3>3. \A i \in 0..(n + 1) : i \in 0..n \/ (i = n + 1 /\ i # 0 /\ i - 1 = n)
      OBVIOUS
    <3>. HIDE DEF g
    <3>. QED
      BY <3>1, <3>2, <3>3
  <2>5. Folding(g, step, start, s, n + 1)
    <3>1. g = [i \in 0..(n + 1) |-> g[i]]
      OBVIOUS
    <3>. HIDE DEF g
    <3>. QED
      BY <2>4, <3>1 DEF Folding
  <2>. QED
    BY <2>5
<1>. HIDE DEF S
<1>3. last \in S
  BY <1>1, <1>2, Induction
<1>. QED
  BY <1>3 DEF S

LEMMA FoldedIs ==
  ASSUME NEW step, NEW start, NEW s, Len(s) \in Nat
  PROVE  \E f : Folding(f, step, start, s, Len(s)) /\ Folded(step, start, s) = f[Len(s)]
<1>. DEFINE f == CHOOSE f : Folding(f, step, start, s, Len(s))
<1>1. Folding(f, step, start, s, Len(s))
  BY FoldingIs
<1>2. Folded(step, start, s) = f[Len(s)]
  BY DEF Folded, Folding
<1>. QED
  BY <1>1, <1>2

LEMMA FoldingAgree ==
  ASSUME NEW step, NEW start, NEW s, NEW t, NEW n \in Nat, NEW m \in Nat, n <= m,
         \A i \in 1..n : s[i] = t[i],
         NEW f, Folding(f, step, start, s, n), NEW g, Folding(g, step, start, t, m)
  PROVE  f[n] = g[n]
<1>. DEFINE S == {i \in Nat : i <= n => f[i] = g[i]}
<1>1. /\ \A i \in 0..n : f[i] = IF i = 0 THEN start ELSE step[<<f[i - 1], s[i]>>]
      /\ \A i \in 0..m : g[i] = IF i = 0 THEN start ELSE step[<<g[i - 1], t[i]>>]
  BY DEF Folding
<1>2. 0 \in S
  <2>1. 0 \in 0..n /\ 0 \in 0..m
    OBVIOUS
  <2>. HIDE DEF S
  <2>2. f[0] = start /\ g[0] = start
    BY <1>1, <2>1
  <2>. QED
    BY <2>2 DEF S
<1>3. ASSUME NEW i \in Nat, i \in S PROVE i + 1 \in S
  <2>. SUFFICES ASSUME i + 1 <= n PROVE f[i + 1] = g[i + 1]
    OBVIOUS
  <2>1. i + 1 \in 0..n /\ i + 1 \in 0..m /\ i + 1 \in 1..n /\ i + 1 # 0 /\ (i + 1) - 1 = i
    OBVIOUS
  <2>2. f[i] = g[i] /\ s[i + 1] = t[i + 1]
    BY <1>3, <2>1
  <2>. QED
    BY <1>1, <2>1, <2>2, ZenonT(30)
<1>. HIDE DEF S
<1>4. n \in S
  BY <1>2, <1>3, Induction
<1>. QED
  BY <1>4 DEF S

LEMMA FoldedEmpty == ASSUME NEW step, NEW start PROVE Folded(step, start, <<>>) = start
<1>1. Len(<<>>) = 0
  OBVIOUS
<1>2. PICK f : Folding(f, step, start, <<>>, 0) /\ Folded(step, start, <<>>) = f[0]
  BY <1>1, FoldedIs
<1>. QED
  BY <1>2 DEF Folding

LEMMA FoldedAppend ==
  ASSUME NEW S, NEW s \in Seq(S), NEW e \in S, NEW step, NEW start
  PROVE  Folded(step, start, Append(s, e)) = step[<<Folded(step, start, s), e>>]
<1>. DEFINE t == Append(s, e)
            n == Len(s)
<1>1. /\ n \in Nat /\ Len(t) = n + 1 /\ t[n + 1] = e
      /\ \A i \in 1..n : t[i] = s[i]
  OBVIOUS
<1>2. PICK f : Folding(f, step, start, s, n) /\ Folded(step, start, s) = f[n]
  BY <1>1, FoldedIs
<1>3. PICK g : Folding(g, step, start, t, n + 1) /\ Folded(step, start, t) = g[n + 1]
  <2>1. n + 1 \in Nat
    BY <1>1
  <2>. HIDE DEF t, n
  <2>. QED
    BY <1>1, <2>1, FoldedIs
<1>4. g[n + 1] = step[<<g[n], t[n + 1]>>]
  <2>1. n + 1 \in 0..(n + 1) /\ n + 1 # 0 /\ (n + 1) - 1 = n
    BY <1>1
  <2>. HIDE DEF t, n
  <2>. QED
    BY <1>3, <2>1 DEF Folding
<1>5. f[n] = g[n]
  <2>1. n + 1 \in Nat /\ n <= n + 1
    BY <1>1
  <2>. HIDE DEF t, n
  <2>. QED
    BY <1>1, <1>2, <1>3, <2>1, FoldingAgree
<1>. HIDE DEF n
<1>. QED
  BY <1>1, <1>2, <1>3, <1>4, <1>5

LEMMA FoldedType ==
  ASSUME NEW S, NEW T, NEW step, \A x \in T, e \in S : step[<<x, e>>] \in T, NEW start \in T,
         NEW s \in Seq(S)
  PROVE  Folded(step, start, s) \in T
<1>. DEFINE L == {n \in Nat : \A r \in Seq(S) : Len(r) = n => Folded(step, start, r) \in T}
<1>1. 0 \in L
  <2>1. \A r \in Seq(S) : Len(r) = 0 => r = <<>>
    OBVIOUS
  <2>. QED
    BY <2>1, FoldedEmpty
<1>2. ASSUME NEW n \in Nat, n \in L PROVE n + 1 \in L
  <2>. SUFFICES ASSUME NEW r \in Seq(S), Len(r) = n + 1 PROVE Folded(step, start, r) \in T
    OBVIOUS
  <2>1. PICK q \in Seq(S), e \in S : r = Append(q, e) /\ Len(q) = n
    BY LastOff
  <2>2. Folded(step, start, q) \in T
    BY <1>2, <2>1
  <2>. QED
    BY <2>1, <2>2, FoldedAppend
<1>. HIDE DEF L
<1>3. Len(s) \in L
  BY <1>1, <1>2, Induction
<1>. QED
  BY <1>3 DEF L
=============================================================================
