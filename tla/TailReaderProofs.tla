-------------------------- MODULE TailReaderProofs --------------------------
(***************************************************************************)
(* get_tail on a file of any size, for any block size, budget and number   *)
(* of lines: what it reads is the end of the file and never more than the  *)
(* budget, the breaks it counts block by block are those of the whole, and *)
(* the lines it returns are the last ones of the file.                     *)
(*                                                                         *)
(* What it reads begins anywhere: inside a character, a line break or a    *)
(* line.  The lines of the file are those of what it reads, but for the    *)
(* first (SuffixLines), and there are no fewer than the breaks it counted  *)
(* (FewBreaks).                                                            *)
(***************************************************************************)
EXTENDS TailReader, SequenceTheorems, FiniteSetTheorems, WellFoundedInduction, TLAPS

-----------------------------------------------------------------------------
(* Counting over a concatenation.                                          *)

\* Shifting a finite set of numbers keeps its size.
LEMMA ShiftedSize ==
  ASSUME NEW n \in Nat, NEW B \in SUBSET Nat, IsFiniteSet(B)
  PROVE  /\ IsFiniteSet({i + n : i \in B})
         /\ Cardinality({i + n : i \in B}) = Cardinality(B)
<1> DEFINE T == {i + n : i \in B}
           f == [i \in B |-> i + n]
<1>1. f \in [B -> T]
  OBVIOUS
<1>2. \A i, j \in B : f[i] = f[j] => i = j
  OBVIOUS
<1>3. \A t \in T : \E i \in B : f[i] = t
  OBVIOUS
<1>4. f \in Bijection(B, T)
  BY <1>1, <1>2, <1>3 DEF Bijection, Injection, Surjection, IsInjective
<1>5. ExistsBijection(B, T)
  BY <1>4 DEF ExistsBijection
<1> QED
  BY <1>5, FS_Bijection

\* The positions of a concatenation: those of the first sequence, which has n elements,
\* and those of the second behind them.
Joined(n, A, B) == A \cup {i + n : i \in B}

LEMMA JoinedSize ==
  ASSUME NEW n \in Nat, NEW A, NEW B, IsFiniteSet(A), IsFiniteSet(B),
         \A i \in A : i \in 1..n, \A i \in B : i \in Nat \ {0}
  PROVE  Cardinality(Joined(n, A, B)) = Cardinality(A) + Cardinality(B)
<1> DEFINE T == {i + n : i \in B}
<1>1. Cardinality(A) \in Nat /\ Cardinality(B) \in Nat
  BY FS_CardinalityType
<1>2. IsFiniteSet(T) /\ Cardinality(T) = Cardinality(B)
  <2>1. B \in SUBSET Nat
    OBVIOUS
  <2> QED
    BY <2>1, ShiftedSize
<1>3. A \cap T = {}
  OBVIOUS
<1>4. Cardinality(A \cup T) = Cardinality(A) + Cardinality(T) - Cardinality(A \cap T)
  BY <1>2, FS_Union
<1>5. Cardinality(A \cap T) = 0
  BY <1>3, FS_EmptySet
<1>6. Joined(n, A, B) = A \cup T
  BY DEF Joined
<1> HIDE DEF T
<1> QED
  BY <1>1, <1>2, <1>4, <1>5, <1>6

\* Sets of positions of a sequence are finite.
LEMMA PositionsFinite ==
  ASSUME NEW q \in Seq(Symbols), NEW A, \A i \in A : i \in 1..Len(q)
  PROVE  IsFiniteSet(A) /\ Cardinality(A) \in Nat
<1>1. IsFiniteSet(1..Len(q))
  BY FS_Interval
<1>2. A \in SUBSET (1..Len(q))
  OBVIOUS
<1> QED
  BY <1>1, <1>2, FS_Subset, FS_CardinalityType

\* bytes.count(c) of two blocks joined.
LEMMA CountJoined ==
  ASSUME NEW a \in Seq(Symbols), NEW b \in Seq(Symbols), NEW c
  PROVE  /\ CountOf(a, c) \in Nat /\ CountOf(b, c) \in Nat
         /\ CountOf(a \o b, c) = CountOf(a, c) + CountOf(b, c)
<1> DEFINE A == {i \in 1..Len(a) : a[i] = c}
           B == {i \in 1..Len(b) : b[i] = c}
           C == {i \in 1..Len(a \o b) : (a \o b)[i] = c}
<1>1. C = Joined(Len(a), A, B)
  <2>1. ASSUME NEW i \in C PROVE i \in Joined(Len(a), A, B)
    <3>1. CASE i <= Len(a)
      BY <3>1 DEF Joined
    <3>2. CASE i > Len(a)
      <4>1. i - Len(a) \in B
        BY <3>2
      <4> QED
        BY <4>1 DEF Joined
    <3> QED BY <3>1, <3>2
  <2>2. ASSUME NEW i \in A PROVE i \in C
    OBVIOUS
  <2>3. ASSUME NEW j \in B PROVE j + Len(a) \in C
    OBVIOUS
  <2> QED BY <2>1, <2>2, <2>3 DEF Joined
<1>2. (\A i \in A : i \in 1..Len(a)) /\ (\A i \in B : i \in 1..Len(b))
  OBVIOUS
<1>3. CountOf(a, c) = Cardinality(A) /\ CountOf(b, c) = Cardinality(B)
      /\ CountOf(a \o b, c) = Cardinality(C)
  BY DEF CountOf
<1> HIDE DEF A, B, C
<1>4. /\ IsFiniteSet(A) /\ Cardinality(A) \in Nat
      /\ IsFiniteSet(B) /\ Cardinality(B) \in Nat
  BY <1>2, PositionsFinite
<1>5. Cardinality(C) = Cardinality(A) + Cardinality(B)
  BY <1>1, <1>2, <1>4, JoinedSize
<1> QED
  BY <1>3, <1>4, <1>5

\* bytes.count(b"\r\n") of two blocks joined: a pair across the border is one more.
LEMMA PairsJoined ==
  ASSUME NEW a \in Seq(Symbols), NEW b \in Seq(Symbols), a # <<>>
  PROVE  /\ CountPairs(a) \in Nat /\ CountPairs(b) \in Nat
         /\ CountPairs(a \o b) = CountPairs(a) + CountPairs(b)
              + (IF b # <<>> /\ a[Len(a)] = "cr" /\ b[1] = "nl" THEN 1 ELSE 0)
<1> DEFINE A == {i \in 1..Len(a) : Pair(a, i, "cr", "nl")}
           B == {i \in 1..Len(b) : Pair(b, i, "cr", "nl")}
           C == {i \in 1..Len(a \o b) : Pair(a \o b, i, "cr", "nl")}
           across == b # <<>> /\ a[Len(a)] = "cr" /\ b[1] = "nl"
           D == IF across THEN A \cup {Len(a)} ELSE A
<1>1. C = Joined(Len(a), D, B)
  <2>1. ASSUME NEW i \in C PROVE i \in Joined(Len(a), D, B)
    <3>1. CASE i < Len(a)
      BY <3>1 DEF Pair, Joined
    <3>2. CASE i = Len(a)
      BY <3>2 DEF Pair, Joined
    <3>3. CASE i > Len(a)
      <4>1. i - Len(a) \in B
        BY <3>3 DEF Pair
      <4> QED
        BY <4>1 DEF Joined
    <3> QED BY <3>1, <3>2, <3>3
  <2>2. ASSUME NEW i \in D PROVE i \in C
    <3>1. CASE i \in A
      BY <3>1 DEF Pair
    <3>2. CASE across /\ i = Len(a)
      BY <3>2 DEF Pair
    <3> QED BY <3>1, <3>2
  <2>3. ASSUME NEW j \in B PROVE j + Len(a) \in C
    BY DEF Pair
  <2> QED BY <2>1, <2>2, <2>3 DEF Joined
<1>2. /\ \A i \in A : i \in 1..Len(a)
      /\ \A i \in D : i \in 1..Len(a)
      /\ \A i \in B : i \in 1..Len(b)
  OBVIOUS
<1>3. CountPairs(a) = Cardinality(A) /\ CountPairs(b) = Cardinality(B)
      /\ CountPairs(a \o b) = Cardinality(C)
  BY DEF CountPairs
<1>4. Len(a) \notin A
  BY DEF Pair
<1>5. D = IF across THEN A \cup {Len(a)} ELSE A
  OBVIOUS
<1> HIDE DEF A, B, C, D
<1>6. /\ IsFiniteSet(A) /\ Cardinality(A) \in Nat
      /\ IsFiniteSet(B) /\ Cardinality(B) \in Nat
      /\ IsFiniteSet(D) /\ Cardinality(D) \in Nat
  BY <1>2, PositionsFinite
<1>7. Cardinality(C) = Cardinality(D) + Cardinality(B)
  BY <1>1, <1>2, <1>6, JoinedSize
<1>8. Cardinality(A \cup {Len(a)}) = Cardinality(A) + 1
  BY <1>4, <1>6, FS_AddElement
<1> QED
  BY <1>3, <1>5, <1>6, <1>7, <1>8

-----------------------------------------------------------------------------
(* Counting up: induction over the numbers up to n, for a set of them.     *)

\* A set of numbers that is not empty has a least one.
LEMMA NatLeast ==
  ASSUME NEW T \in SUBSET Nat, T # {}
  PROVE  \E n \in T : \A m \in T : n <= m
<1> DEFINE I == {0..n : n \in T}
           R == StrictSubsetOrdering(Nat)
<1>1. IsWellFoundedOn(R, FiniteSubsetsOf(Nat))
  BY FS_StrictSubsetOrderingWellFounded
<1>2. I \subseteq FiniteSubsetsOf(Nat)
  <2>1. \A n \in T : 0..n \in SUBSET Nat /\ IsFiniteSet(0..n)
    BY FS_Interval
  <2> QED
    BY <2>1 DEF FiniteSubsetsOf
<1>3. I # {}
  OBVIOUS
<1>4. PICK x \in I : \A y \in I : ~(<<y, x>> \in R)
  BY <1>1, <1>2, <1>3, WFMin
<1>5. PICK n \in T : x = 0..n
  OBVIOUS
<1>6. ASSUME NEW m \in T, m < n PROVE FALSE
  <2>1. 0..m \in I /\ 0..m \in SUBSET Nat /\ 0..n \in SUBSET Nat
    OBVIOUS
  <2>2. 0..m \subseteq 0..n /\ 0..m # 0..n
    BY <1>6
  <2> QED
    BY <1>4, <1>5, <2>1, <2>2 DEF StrictSubsetOrdering
<1> QED
  BY <1>6

\* A set that has 0, and with a number below n the next one, has n.
LEMMA CountUp ==
  ASSUME NEW n \in Nat, NEW T, 0 \in T, \A i \in 0..n - 1 : i \in T => i + 1 \in T
  PROVE  n \in T
<1> DEFINE D == {i \in 0..n : i \notin T}
<1> SUFFICES ASSUME D # {} PROVE FALSE
  OBVIOUS
<1>1. PICK i \in D : \A j \in D : i <= j
  <2>1. D \in SUBSET Nat
    OBVIOUS
  <2> HIDE DEF D
  <2> QED
    BY <2>1, NatLeast
<1>2. i \in 1..n /\ i \notin T
  BY <1>1
<1>3. i - 1 \notin D
  BY <1>1, <1>2
<1> QED
  BY <1>2, <1>3

-----------------------------------------------------------------------------
(* FlattenSeq.  Flat(s, n) is its value on the first n elements of s.      *)

IsFlat(g, s, n) == g = [i \in 1..n |-> IF i = 1 THEN s[i] ELSE g[i - 1] \o s[i]]
Flat(s, n) == (CHOOSE g : IsFlat(g, s, n))[n]

\* The definition, for a sequence that is not empty.
LEMMA FlattenIs == ASSUME NEW s, Len(s) # 0 PROVE FlattenSeq(s) = Flat(s, Len(s))
BY DEF FlattenSeq, Flat, IsFlat

\* The step of the function that Flat chooses.
LEMMA FlatAt ==
  ASSUME NEW s, NEW n \in Nat, NEW g, IsFlat(g, s, n), NEW i \in 1..n
  PROVE  g[i] = IF i = 1 THEN s[i] ELSE g[i - 1] \o s[i]
<1> DEFINE h == [j \in 1..n |-> IF j = 1 THEN s[j] ELSE g[j - 1] \o s[j]]
<1>1. h[i] = IF i = 1 THEN s[i] ELSE g[i - 1] \o s[i]
  OBVIOUS
<1>2. g = h
  BY DEF IsFlat
<1> QED BY <1>1, <1>2

\* Two such functions agree where the sequences do.
LEMMA FlatsAgree ==
  ASSUME NEW s, NEW t, NEW n \in Nat, NEW m \in Nat, NEW g, NEW h, IsFlat(g, s, n), IsFlat(h, t, m),
         n <= m, \A i \in 1..n : s[i] = t[i]
  PROVE  \A i \in 1..n : g[i] = h[i]
<1> DEFINE D == {i \in 1..n : g[i] # h[i]}
<1> SUFFICES ASSUME D # {} PROVE FALSE
  OBVIOUS
<1>1. PICK i \in D : \A j \in D : i <= j
  <2>1. D \in SUBSET Nat
    OBVIOUS
  <2> HIDE DEF D
  <2> QED BY <2>1, NatLeast
<1>2. i \in 1..n /\ i \in 1..m /\ g[i] # h[i] /\ s[i] = t[i]
  BY <1>1
<1>3. CASE i = 1
  BY <1>2, <1>3, FlatAt
<1>4. CASE i # 1
  <2>1. i - 1 \in 1..n /\ ~(i <= i - 1)
    BY <1>2, <1>4
  <2>2. g[i - 1] = h[i - 1]
    BY <1>1, <2>1
  <2>3. g[i] = g[i - 1] \o s[i] /\ h[i] = h[i - 1] \o t[i]
    BY <1>2, <1>4, FlatAt
  <2> QED BY <1>2, <2>2, <2>3
<1> QED BY <1>3, <1>4

\* There is one for each length.
LEMMA FlatExists == ASSUME NEW s, NEW n \in Nat PROVE \E g : IsFlat(g, s, n)
<1> DEFINE D == {m \in Nat : ~ \E g : IsFlat(g, s, m)}
<1> SUFFICES ASSUME D # {} PROVE FALSE
  OBVIOUS
<1>1. PICK m \in D : \A j \in D : m <= j
  <2>1. D \in SUBSET Nat
    OBVIOUS
  <2> HIDE DEF D
  <2> QED BY <2>1, NatLeast
<1>2. m \in Nat /\ ~ \E g : IsFlat(g, s, m)
  BY <1>1
<1>3. CASE m = 0
  <2> DEFINE g == [i \in 1..0 |-> IF i = 1 THEN s[i] ELSE <<>>]
  <2>1. g = [i \in 1..0 |-> g[i]] /\ \A i : i \notin 1..0
    OBVIOUS
  <2> HIDE DEF g
  <2>2. [i \in 1..0 |-> g[i]] = [i \in 1..0 |-> IF i = 1 THEN s[i] ELSE g[i - 1] \o s[i]]
    BY <2>1
  <2> QED BY <1>2, <1>3, <2>1, <2>2 DEF IsFlat
<1>4. CASE m # 0
  <2>1. m - 1 \in Nat /\ m - 1 \notin D
    BY <1>1, <1>2, <1>4
  <2>2. PICK h : IsFlat(h, s, m - 1)
    BY <2>1
  <2> DEFINE g == [i \in 1..m |-> IF i = 1 THEN s[i] ELSE h[i - 1] \o s[i]]
  <2>3. \A i \in 1..m - 1 : g[i] = h[i]
    <3>1. ASSUME NEW i \in 1..m - 1 PROVE g[i] = h[i]
      <4>1. i \in 1..m
        BY <1>2
      <4> QED BY <2>1, <2>2, <4>1, FlatAt
    <3> QED BY <3>1
  <2>4. ASSUME NEW i \in 1..m PROVE g[i] = IF i = 1 THEN s[i] ELSE g[i - 1] \o s[i]
    <3>1. CASE i = 1
      BY <3>1
    <3>2. CASE i # 1
      <4>1. i - 1 \in 1..m - 1
        BY <1>2, <3>2
      <4>2. g[i - 1] = h[i - 1]
        BY <2>3, <4>1
      <4> QED BY <3>2, <4>2
    <3> QED BY <3>1, <3>2
  <2>5. g = [i \in 1..m |-> g[i]]
    OBVIOUS
  <2> HIDE DEF g
  <2>6. [i \in 1..m |-> g[i]] = [i \in 1..m |-> IF i = 1 THEN s[i] ELSE g[i - 1] \o s[i]]
    BY <2>4
  <2> QED BY <1>2, <2>5, <2>6 DEF IsFlat
<1> QED BY <1>3, <1>4

\* The first part of a sequence decides.
LEMMA FlatUnfolds ==
  ASSUME NEW s, NEW t, NEW n \in Nat \ {0}, \A i \in 1..n : s[i] = t[i]
  PROVE  /\ Flat(s, n) = Flat(t, n)
         /\ Flat(s, n) = IF n = 1 THEN s[n] ELSE Flat(s, n - 1) \o s[n]
<1>1. PICK g : IsFlat(g, s, n) /\ g = CHOOSE k : IsFlat(k, s, n)
  BY FlatExists
<1>2. PICK h : IsFlat(h, t, n) /\ h = CHOOSE k : IsFlat(k, t, n)
  BY FlatExists
<1>3. PICK k : IsFlat(k, s, n - 1) /\ k = CHOOSE x : IsFlat(x, s, n - 1)
  BY FlatExists
<1>4. g[n] = h[n] /\ g[n] = IF n = 1 THEN s[n] ELSE g[n - 1] \o s[n]
  BY <1>1, <1>2, FlatsAgree, FlatAt
<1>5. n # 1 => g[n - 1] = k[n - 1]
  BY <1>1, <1>3, FlatsAgree
<1> QED BY <1>1, <1>2, <1>3, <1>4, <1>5 DEF Flat

\* FlattenSeq by the last element.
LEMMA FlattenAppend ==
  ASSUME NEW S, NEW s \in Seq(Seq(S)), NEW x \in Seq(S)
  PROVE  FlattenSeq(Append(s, x)) = FlattenSeq(s) \o x
<1> DEFINE t == Append(s, x)
           n == Len(s) + 1
<1>1. n \in Nat \ {0} /\ Len(t) = n /\ t[n] = x /\ \A i \in 1..Len(s) : t[i] = s[i]
  OBVIOUS
<1>2. FlattenSeq(t) = Flat(t, n)
  BY <1>1, FlattenIs
<1>3. Flat(t, n) = IF n = 1 THEN t[n] ELSE Flat(t, n - 1) \o t[n]
  BY <1>1, FlatUnfolds
<1>4. CASE s = <<>>
  <2>1. FlattenSeq(s) = <<>> /\ <<>> \o x = x
    BY <1>4 DEF FlattenSeq
  <2> QED
    BY <1>1, <1>2, <1>3, <1>4, <2>1
<1>5. CASE s # <<>>
  <2>1. Len(s) \in Nat \ {0} /\ n - 1 = Len(s)
    BY <1>5
  <2>2. Flat(t, Len(s)) = Flat(s, Len(s))
    BY <1>1, <2>1, FlatUnfolds
  <2>3. FlattenSeq(s) = Flat(s, Len(s))
    BY <2>1, FlattenIs
  <2>4. n # 1
    BY <2>1
  <2>5. Flat(t, n) = Flat(t, Len(s)) \o x
    BY <1>1, <1>3, <2>1, <2>4
  <2> QED
    BY <1>2, <2>2, <2>3, <2>5
<1> QED
  BY <1>4, <1>5

\* A prefix and the next element.
LEMMA PrefixGrows ==
  ASSUME NEW S, NEW s \in Seq(S), NEW i \in 0..Len(s) - 1
  PROVE  /\ SubSeq(s, 1, i) \in Seq(S) /\ s[i + 1] \in S
         /\ SubSeq(s, 1, i + 1) = Append(SubSeq(s, 1, i), s[i + 1])
OBVIOUS

\* The whole and the empty prefix.
LEMMA WholePrefix ==
  ASSUME NEW S, NEW s \in Seq(S)
  PROVE  SubSeq(s, 1, Len(s)) = s /\ SubSeq(s, 1, 0) = <<>>
OBVIOUS

\* A cut gives the two parts that make the whole.
LEMMA CutAnywhere ==
  ASSUME NEW S, NEW s \in Seq(S), NEW i \in 0..Len(s)
  PROVE  /\ SubSeq(s, 1, i) \in Seq(S) /\ SubSeq(s, i + 1, Len(s)) \in Seq(S)
         /\ Len(SubSeq(s, 1, i)) = i /\ Len(SubSeq(s, i + 1, Len(s))) = Len(s) - i
         /\ s = SubSeq(s, 1, i) \o SubSeq(s, i + 1, Len(s))
<1>1. 1 \in 1..Len(s) + 1 /\ i \in 1 - 1..Len(s) /\ Len(s) \in i..Len(s)
  OBVIOUS
<1>2. SubSeq(s, 1, i) \o SubSeq(s, i + 1, Len(s)) = SubSeq(s, 1, Len(s))
  BY <1>1, ConcatAdjacentSubSeq
<1>3. /\ SubSeq(s, 1, i) \in Seq(S) /\ SubSeq(s, i + 1, Len(s)) \in Seq(S)
      /\ Len(SubSeq(s, 1, i)) = i /\ Len(SubSeq(s, i + 1, Len(s))) = Len(s) - i
  OBVIOUS
<1> QED
  BY <1>2, <1>3, WholePrefix

\* Flattening sequences over S gives one over S.
LEMMA FlattenType ==
  ASSUME NEW S, NEW s \in Seq(Seq(S))
  PROVE  FlattenSeq(s) \in Seq(S)
<1> DEFINE T == {i \in 0..Len(s) : FlattenSeq(SubSeq(s, 1, i)) \in Seq(S)}
<1>1. 0 \in T
  <2>1. FlattenSeq(<<>>) = <<>> /\ <<>> \in Seq(S)
    BY DEF FlattenSeq
  <2>2. SubSeq(s, 1, 0) = <<>> /\ 0 \in 0..Len(s)
    OBVIOUS
  <2> QED
    BY <2>1, <2>2
<1>2. ASSUME NEW i \in 0..Len(s) - 1, i \in T PROVE i + 1 \in T
  <2>1. /\ SubSeq(s, 1, i) \in Seq(Seq(S)) /\ s[i + 1] \in Seq(S)
        /\ SubSeq(s, 1, i + 1) = Append(SubSeq(s, 1, i), s[i + 1])
    BY PrefixGrows
  <2>2. FlattenSeq(SubSeq(s, 1, i + 1)) = FlattenSeq(SubSeq(s, 1, i)) \o s[i + 1]
    BY <2>1, FlattenAppend
  <2>3. FlattenSeq(SubSeq(s, 1, i)) \in Seq(S) /\ i + 1 \in 0..Len(s)
    BY <1>2
  <2>4. FlattenSeq(SubSeq(s, 1, i)) \o s[i + 1] \in Seq(S)
    BY <2>1, <2>3
  <2> QED
    BY <2>2, <2>3, <2>4
<1>3. Len(s) \in Nat
  OBVIOUS
<1> HIDE DEF T
<1>4. Len(s) \in T
  BY <1>1, <1>2, <1>3, CountUp
<1> QED
  BY <1>4, WholePrefix DEF T

\* FlattenSeq is additive.
LEMMA FlattenConcat ==
  ASSUME NEW S, NEW s \in Seq(Seq(S)), NEW t \in Seq(Seq(S))
  PROVE  FlattenSeq(s \o t) = FlattenSeq(s) \o FlattenSeq(t)
<1> DEFINE P(i) == SubSeq(t, 1, i)
           T == {i \in 0..Len(t) : FlattenSeq(s \o P(i)) = FlattenSeq(s) \o FlattenSeq(P(i))}
<1>1. 0 \in T
  <2>1. FlattenSeq(<<>>) = <<>> /\ FlattenSeq(s) \in Seq(S)
    BY FlattenType DEF FlattenSeq
  <2>2. s \o <<>> = s /\ FlattenSeq(s) \o <<>> = FlattenSeq(s)
    BY <2>1
  <2>3. P(0) = <<>> /\ 0 \in 0..Len(t)
    OBVIOUS
  <2> QED
    BY <2>1, <2>2, <2>3
<1>2. ASSUME NEW i \in 0..Len(t) - 1, i \in T PROVE i + 1 \in T
  <2>1. P(i) \in Seq(Seq(S)) /\ t[i + 1] \in Seq(S) /\ P(i + 1) = Append(P(i), t[i + 1])
    BY PrefixGrows
  <2> DEFINE x == t[i + 1]
             p == P(i)
  <2>2. s \o P(i + 1) = Append(s \o p, x) /\ s \o p \in Seq(Seq(S))
    BY <2>1
  <2>3. FlattenSeq(s \o P(i + 1)) = FlattenSeq(s \o p) \o x
    BY <2>1, <2>2, FlattenAppend
  <2>4. FlattenSeq(P(i + 1)) = FlattenSeq(p) \o x
    BY <2>1, FlattenAppend
  <2>5. FlattenSeq(s) \in Seq(S) /\ FlattenSeq(p) \in Seq(S)
    BY <2>1, FlattenType
  <2>6. FlattenSeq(s \o p) = FlattenSeq(s) \o FlattenSeq(p)
    BY <1>2
  <2>7. (FlattenSeq(s) \o FlattenSeq(p)) \o x = FlattenSeq(s) \o (FlattenSeq(p) \o x)
    <3>1. x \in Seq(S)
      BY <2>1
    <3> HIDE DEF x, p
    <3> QED
      BY <2>5, <3>1, ConcatAssociative
  <2>8. FlattenSeq(s \o P(i + 1)) = FlattenSeq(s) \o FlattenSeq(P(i + 1))
    BY <2>3, <2>4, <2>6, <2>7
  <2>9. i + 1 \in 0..Len(t)
    OBVIOUS
  <2> QED
    BY <2>8, <2>9
<1>3. Len(t) \in Nat
  OBVIOUS
<1> HIDE DEF T
<1>4. Len(t) \in T
  BY <1>1, <1>2, <1>3, CountUp
<1> QED
  BY <1>4, WholePrefix DEF T

\* A sequence of sequences that begins like s and goes on like t.
LEMMA FlattenJoin ==
  ASSUME NEW S, NEW s \in Seq(Seq(S)), NEW t \in Seq(Seq(S)), NEW h,
         NEW n \in Nat, n = Len(s) + Len(t), h = [i \in 1..n |-> h[i]],
         \A i \in 1..Len(s) : h[i] = s[i],
         \A j \in 1..Len(t) : h[Len(s) + j] = t[j]
  PROVE  FlattenSeq(h) = FlattenSeq(s) \o FlattenSeq(t)
<1>1. ASSUME NEW i \in 1..n PROVE h[i] = (s \o t)[i]
  <2>1. CASE i <= Len(s)
    <3>1. i \in 1..Len(s) /\ (s \o t)[i] = s[i]
      BY <2>1
    <3> QED
      BY <3>1
  <2>2. CASE i > Len(s)
    <3>1. i - Len(s) \in 1..Len(t) /\ Len(s) + (i - Len(s)) = i
      BY <2>2
    <3>2. h[i] = t[i - Len(s)]
      BY <3>1
    <3> QED
      BY <2>2, <3>1, <3>2
  <2> QED
    BY <2>1, <2>2
<1>2. s \o t = [i \in 1..n |-> (s \o t)[i]]
  <2>1. PICK q : q = s \o t
    OBVIOUS
  <2>2. q \in Seq(Seq(S)) /\ Len(q) = n
    BY <2>1
  <2>3. q = [i \in 1..n |-> q[i]]
    BY <2>2
  <2> QED
    BY <2>1, <2>3
<1>3. h = s \o t
  BY <1>1, <1>2
<1> QED
  BY <1>3, FlattenConcat

\* A single sequence is itself.
LEMMA FlattenOne ==
  ASSUME NEW S, NEW x \in Seq(S)
  PROVE  FlattenSeq(<<x>>) = x
<1>1. <<x>> = Append(<<>>, x) /\ <<>> \in Seq(Seq(S)) /\ <<>> \o x = x
  OBVIOUS
<1>2. FlattenSeq(<<>>) = <<>>
  BY DEF FlattenSeq
<1> QED
  BY <1>1, <1>2, FlattenAppend

\* Sequences of one element each.
LEMMA FlattenSingles ==
  ASSUME NEW S, NEW t \in Seq(S), NEW h, h = [i \in 1..Len(t) |-> <<t[i]>>]
  PROVE  FlattenSeq(h) = t
<1> DEFINE T == {i \in 0..Len(t) : FlattenSeq(SubSeq(h, 1, i)) = SubSeq(t, 1, i)}
<1>0. h \in Seq(Seq(S)) /\ Len(h) = Len(t) /\ \A i \in 1..Len(t) : h[i] = <<t[i]>>
  <2>1. \A i \in 1..Len(t) : <<t[i]>> \in Seq(S)
    OBVIOUS
  <2> QED
    BY <2>1
<1>1. 0 \in T
  <2>1. FlattenSeq(<<>>) = <<>>
    BY DEF FlattenSeq
  <2>2. SubSeq(h, 1, 0) = <<>> /\ SubSeq(t, 1, 0) = <<>> /\ 0 \in 0..Len(t)
    BY <1>0
  <2> QED
    BY <2>1, <2>2
<1>2. ASSUME NEW i \in 0..Len(t) - 1, i \in T PROVE i + 1 \in T
  <2>1. /\ SubSeq(h, 1, i) \in Seq(Seq(S)) /\ h[i + 1] \in Seq(S)
        /\ SubSeq(h, 1, i + 1) = Append(SubSeq(h, 1, i), h[i + 1])
    BY <1>0, PrefixGrows
  <2>2. FlattenSeq(SubSeq(h, 1, i + 1)) = FlattenSeq(SubSeq(h, 1, i)) \o h[i + 1]
    BY <2>1, FlattenAppend
  <2>3. h[i + 1] = <<t[i + 1]>> /\ i + 1 \in 0..Len(t)
    BY <1>0
  <2>4. SubSeq(t, 1, i + 1) = SubSeq(t, 1, i) \o <<t[i + 1]>>
    BY PrefixGrows
  <2>5. FlattenSeq(SubSeq(h, 1, i)) = SubSeq(t, 1, i)
    BY <1>2
  <2> QED
    BY <2>2, <2>3, <2>4, <2>5
<1>3. Len(t) \in Nat
  OBVIOUS
<1> HIDE DEF T
<1>4. Len(t) \in T
  BY <1>1, <1>2, <1>3, CountUp
<1> QED
  BY <1>0, <1>4, WholePrefix DEF T

-----------------------------------------------------------------------------
(* The decoders on a text in two parts.                                    *)

\* What a job writes, what it decodes to, the text of it for _emit, and what is in a log.
Bytes == Symbols \ Added
Chars == Bytes \cup {"u"}
Plain == Chars \ {"cr"}
LogChars == Chars \cup Added

\* Characters may be in a log.
LEMMA CharsAreLogged == Chars \in SUBSET LogChars /\ \A t \in Seq(Chars) : t \in Seq(LogChars)
<1>1. Chars \subseteq LogChars
  BY DEF LogChars
<1> QED
  BY <1>1

\* A cut through s \o t parts the pair first, second.
Parts(s, t, first, second) ==
  s # <<>> /\ t # <<>> /\ s[Len(s)] = first /\ t[1] = second

\* The pairs of the whole are those of the parts, unless the cut parts one.
LEMMA PairsOfParts ==
  ASSUME NEW S, NEW s \in Seq(S), NEW t \in Seq(S), NEW f, NEW g, ~Parts(s, t, f, g)
  PROVE  /\ \A i \in 0..Len(s) : Pair(s \o t, i, f, g) <=> Pair(s, i, f, g)
         /\ \A j \in 0..Len(t) : Pair(s \o t, Len(s) + j, f, g) <=> Pair(t, j, f, g)
<1> DEFINE q == s \o t
<1>0. /\ Len(q) = Len(s) + Len(t) /\ Len(s) \in Nat /\ Len(t) \in Nat
      /\ \A i \in 1..Len(s) : q[i] = s[i]
      /\ \A j \in 1..Len(t) : q[Len(s) + j] = t[j]
      /\ s = <<>> <=> Len(s) = 0
      /\ t = <<>> <=> Len(t) = 0
  OBVIOUS
<1> HIDE DEF q
<1>1. ASSUME NEW i \in 0..Len(s) PROVE Pair(q, i, f, g) <=> Pair(s, i, f, g)
  <2>1. CASE i = Len(s) /\ Len(s) # 0
    <3>1. q[i] = s[Len(s)] /\ Len(t) # 0 => q[i + 1] = t[1]
      BY <1>0, <2>1
    <3> QED
      BY <1>0, <2>1, <3>1 DEF Pair, Parts
  <2>2. CASE i # Len(s) \/ Len(s) = 0
    BY <1>0, <2>2 DEF Pair
  <2> QED
    BY <2>1, <2>2
<1>2. ASSUME NEW j \in 0..Len(t) PROVE Pair(q, Len(s) + j, f, g) <=> Pair(t, j, f, g)
  <2>1. CASE j = 0
    <3>1. Pair(q, Len(s), f, g) <=> Pair(s, Len(s), f, g)
      BY <1>0, <1>1
    <3>2. ~Pair(s, Len(s), f, g) /\ ~Pair(t, 0, f, g)
      BY <1>0 DEF Pair
    <3> QED
      BY <1>0, <2>1, <3>1, <3>2
  <2>2. CASE j # 0
    <3>1. j \in 1..Len(t) /\ (j < Len(t) => j + 1 \in 1..Len(t))
      BY <2>2
    <3>2. j < Len(t) => Len(s) + (j + 1) = (Len(s) + j) + 1
      BY <1>0
    <3>3. q[Len(s) + j] = t[j] /\ (j < Len(t) => q[(Len(s) + j) + 1] = t[j + 1])
      BY <1>0, <3>1, <3>2
    <3>4. Len(s) + j \in 1..Len(q) - 1 <=> j \in 1..Len(t) - 1
      BY <1>0, <3>1
    <3> QED
      BY <3>1, <3>3, <3>4 DEF Pair
  <2> QED
    BY <2>1, <2>2
<1> QED
  BY <1>1, <1>2 DEF q

\* What bytes decode to: no half of a character is left.
LEMMA DecodedOver ==
  ASSUME NEW A \in SUBSET Symbols, "rep" \in A, NEW b \in Seq(A),
         NEW C, C = (A \ {"lead", "cont"}) \cup {"u"}
  PROVE  /\ [i \in 1..Len(b) |-> CharAt(b, i)] \in Seq(Seq(C))
         /\ Decoded(b) \in Seq(C)
<1> DEFINE h == [i \in 1..Len(b) |-> CharAt(b, i)]
<1>1. ASSUME NEW i \in 1..Len(b) PROVE CharAt(b, i) \in Seq(C)
  <2>1. b[i] \in A /\ "u" \in C /\ "rep" \in C /\ (b[i] \notin {"lead", "cont"} => b[i] \in C)
    OBVIOUS
  <2>2. /\ <<"u">> \in Seq(C) /\ <<"rep">> \in Seq(C) /\ <<>> \in Seq(C)
        /\ b[i] \notin {"lead", "cont"} => <<b[i]>> \in Seq(C)
    BY <2>1
  <2> QED
    BY <2>2, Zenon DEF CharAt
<1>2. h \in Seq(Seq(C))
  BY <1>1
<1> QED
  BY <1>2, FlattenType DEF Decoded

\* The bytes of a job decode to characters, those of a log to what may be in a log.
LEMMA DecodedType ==
  ASSUME NEW b \in Seq(Bytes)
  PROVE  /\ [i \in 1..Len(b) |-> CharAt(b, i)] \in Seq(Seq(Chars))
         /\ Decoded(b) \in Seq(Chars)
<1>1. PICK C : C = (Bytes \ {"lead", "cont"}) \cup {"u"}
  OBVIOUS
<1>2. Bytes \in SUBSET Symbols /\ "rep" \in Bytes /\ C \subseteq Chars
  BY <1>1 DEF Bytes, Chars, Symbols, Added
<1>3. /\ [i \in 1..Len(b) |-> CharAt(b, i)] \in Seq(Seq(C))
      /\ Decoded(b) \in Seq(C)
  BY <1>1, <1>2, DecodedOver
<1>4. Seq(C) \subseteq Seq(Chars)
  BY <1>2
<1> QED
  BY <1>3, <1>4

\* The characters a file decodes to, none of them half a character, and those of lines.
Clean == (Symbols \ {"lead", "cont"}) \cup {"u"}
LineChars == Clean \ {"cr"}

\* All of them may be in a log.
LEMMA CleanIsLogged ==
  /\ Clean \in SUBSET LogChars /\ "nl" \in Clean /\ "nl" \in LogChars
  /\ LineChars \in SUBSET LogChars /\ "nl" \in LineChars /\ "cr" \notin LineChars
BY DEF Clean, LineChars, LogChars, Chars, Bytes, Symbols, Added

\* Any file decodes to such characters.
LEMMA FileDecodes ==
  ASSUME NEW b \in Seq(Symbols)
  PROVE  /\ [i \in 1..Len(b) |-> CharAt(b, i)] \in Seq(Seq(Clean))
         /\ Decoded(b) \in Seq(Clean)
<1>1. "rep" \in Symbols /\ Symbols \in SUBSET Symbols
  BY DEF Symbols
<1> QED
  BY <1>1, DecodedOver DEF Clean

\* What a byte decodes to depends on its part only.
LEMMA DecodedParts ==
  ASSUME NEW a \in Seq(Symbols), NEW b \in Seq(Symbols), ~Parts(a, b, "lead", "cont")
  PROVE  /\ \A i \in 1..Len(a) : CharAt(a \o b, i) = CharAt(a, i)
         /\ \A j \in 1..Len(b) : CharAt(a \o b, Len(a) + j) = CharAt(b, j)
<1>1. ASSUME NEW i \in 1..Len(a) PROVE CharAt(a \o b, i) = CharAt(a, i)
  <2>1. (a \o b)[i] = a[i] /\ i \in 0..Len(a) /\ i - 1 \in 0..Len(a)
    OBVIOUS
  <2>2. /\ Pair(a \o b, i, "lead", "cont") <=> Pair(a, i, "lead", "cont")
        /\ Pair(a \o b, i - 1, "lead", "cont") <=> Pair(a, i - 1, "lead", "cont")
    BY <2>1, PairsOfParts
  <2> QED
    BY <2>1, <2>2 DEF CharAt
<1>2. ASSUME NEW j \in 1..Len(b) PROVE CharAt(a \o b, Len(a) + j) = CharAt(b, j)
  <2>1. /\ (a \o b)[Len(a) + j] = b[j] /\ j \in 0..Len(b) /\ j - 1 \in 0..Len(b)
        /\ Len(a) + (j - 1) = (Len(a) + j) - 1
    OBVIOUS
  <2>2. /\ Pair(a \o b, Len(a) + j, "lead", "cont") <=> Pair(b, j, "lead", "cont")
        /\ Pair(a \o b, Len(a) + (j - 1), "lead", "cont") <=> Pair(b, j - 1, "lead", "cont")
    BY <2>1, PairsOfParts
  <2> QED
    BY <2>1, <2>2 DEF CharAt
<1> QED
  BY <1>1, <1>2

\* Bytes decode in two parts as they do in one, unless the cut parts a character.
LEMMA DecodedJoin ==
  ASSUME NEW a \in Seq(Symbols), NEW b \in Seq(Symbols), ~Parts(a, b, "lead", "cont")
  PROVE  Decoded(a \o b) = Decoded(a) \o Decoded(b)
<1> DEFINE f == [i \in 1..Len(a) |-> CharAt(a, i)]
           g == [i \in 1..Len(b) |-> CharAt(b, i)]
           h == [i \in 1..Len(a \o b) |-> CharAt(a \o b, i)]
           n == Len(a \o b)
<1>1. /\ f \in Seq(Seq(Clean)) /\ g \in Seq(Seq(Clean))
      /\ Len(f) = Len(a) /\ Len(g) = Len(b)
  BY FileDecodes
<1>2. n \in Nat /\ n = Len(f) + Len(g)
  BY <1>1
<1>3. \A i \in 1..Len(f) : h[i] = f[i]
  BY <1>1, DecodedParts
<1>4. \A j \in 1..Len(g) : h[Len(f) + j] = g[j]
  BY <1>1, DecodedParts
<1>5. h = [i \in 1..n |-> h[i]]
  OBVIOUS
<1> HIDE DEF f, g, h, n
<1>6. FlattenSeq(h) = FlattenSeq(f) \o FlattenSeq(g)
  BY <1>1, <1>2, <1>3, <1>4, <1>5, FlattenJoin
<1> QED
  BY <1>6 DEF f, g, h, Decoded

\* The characters replaced add up the same way.
LEMMA ReplacementsJoin ==
  ASSUME NEW a \in Seq(Symbols), NEW b \in Seq(Symbols), ~Parts(a, b, "lead", "cont")
  PROVE  /\ Replacements(a) \in Nat /\ Replacements(b) \in Nat
         /\ Replacements(a \o b) = Replacements(a) + Replacements(b)
<1> DEFINE A == {i \in 1..Len(a) : CharAt(a, i) = <<"rep">>}
           B == {i \in 1..Len(b) : CharAt(b, i) = <<"rep">>}
           C == {i \in 1..Len(a \o b) : CharAt(a \o b, i) = <<"rep">>}
<1>2. /\ IsFiniteSet(A) /\ Cardinality(A) \in Nat
      /\ IsFiniteSet(B) /\ Cardinality(B) \in Nat
  BY PositionsFinite
<1>3. C = Joined(Len(a), A, B)
  <2>1. ASSUME NEW i \in C PROVE i \in Joined(Len(a), A, B)
    <3>1. CASE i <= Len(a)
      <4>1. i \in 1..Len(a)
        BY <3>1
      <4>2. CharAt(a \o b, i) = CharAt(a, i)
        BY <4>1, DecodedParts
      <4> QED
        BY <4>1, <4>2 DEF Joined
    <3>2. CASE i > Len(a)
      <4>1. i - Len(a) \in 1..Len(b) /\ Len(a) + (i - Len(a)) = i /\ (i - Len(a)) + Len(a) = i
        BY <3>2
      <4>2. CharAt(a \o b, i) = CharAt(b, i - Len(a))
        BY <4>1, DecodedParts
      <4>3. i - Len(a) \in B
        BY <4>1, <4>2
      <4> QED
        BY <4>1, <4>3 DEF Joined
    <3> QED
      BY <3>1, <3>2
  <2>2. ASSUME NEW i \in A PROVE i \in C
    BY <2>2, DecodedParts
  <2>3. ASSUME NEW j \in B PROVE j + Len(a) \in C
    <3>1. j \in 1..Len(b) /\ Len(a) + j = j + Len(a) /\ j + Len(a) \in 1..Len(a \o b)
      OBVIOUS
    <3>2. CharAt(a \o b, Len(a) + j) = CharAt(b, j)
      BY <3>1, DecodedParts
    <3> QED
      BY <3>1, <3>2
  <2> QED
    BY <2>1, <2>2, <2>3 DEF Joined
<1>4. (\A i \in A : i \in 1..Len(a)) /\ (\A i \in B : i \in Nat \ {0}) /\ Len(a) \in Nat
  OBVIOUS
<1> HIDE DEF A, B, C
<1>5. Cardinality(C) = Cardinality(A) + Cardinality(B)
  BY <1>2, <1>3, <1>4, JoinedSize
<1> QED
  BY <1>2, <1>5 DEF A, B, C, Replacements

\* Translated text has no "\r".
LEMMA TranslatedOver ==
  ASSUME NEW C, "nl" \in C, NEW t \in Seq(C), NEW D, D = C \ {"cr"}
  PROVE  /\ [i \in 1..Len(t) |-> IF Pair(t, i - 1, "cr", "nl") THEN <<>>
                                 ELSE IF t[i] = "cr" THEN <<"nl">> ELSE <<t[i]>>]
              \in Seq(Seq(D))
         /\ Translated(t) \in Seq(D)
<1> DEFINE h == [i \in 1..Len(t) |-> IF Pair(t, i - 1, "cr", "nl") THEN <<>>
                                     ELSE IF t[i] = "cr" THEN <<"nl">> ELSE <<t[i]>>]
<1>1. ASSUME NEW i \in 1..Len(t) PROVE h[i] \in Seq(D)
  <2>1. "nl" \in D /\ (t[i] # "cr" => t[i] \in D)
    OBVIOUS
  <2>2. /\ <<"nl">> \in Seq(D) /\ <<>> \in Seq(D)
        /\ t[i] # "cr" => <<t[i]>> \in Seq(D)
    BY <2>1
  <2>3. h[i] = IF Pair(t, i - 1, "cr", "nl") THEN <<>> ELSE IF t[i] = "cr" THEN <<"nl">> ELSE <<t[i]>>
    OBVIOUS
  <2> QED
    BY <2>2, <2>3, Zenon
<1>2. h \in Seq(Seq(D))
  BY <1>1
<1> QED
  BY <1>2, FlattenType DEF Translated

\* That of characters is as _emit gets it.
LEMMA TranslatedType ==
  ASSUME NEW t \in Seq(Chars)
  PROVE  /\ [i \in 1..Len(t) |-> IF Pair(t, i - 1, "cr", "nl") THEN <<>>
                                 ELSE IF t[i] = "cr" THEN <<"nl">> ELSE <<t[i]>>]
              \in Seq(Seq(Plain))
         /\ Translated(t) \in Seq(Plain)
<1>1. "nl" \in Chars
  BY DEF Chars, Bytes, Symbols, Added
<1> QED
  BY <1>1, TranslatedOver DEF Plain

\* Text in two parts is translated as it is in one, unless the cut parts a "\r\n".
LEMMA TranslatedJoin ==
  ASSUME NEW s \in Seq(LogChars), NEW t \in Seq(LogChars), ~Parts(s, t, "cr", "nl")
  PROVE  Translated(s \o t) = Translated(s) \o Translated(t)
<1> DEFINE q == s \o t
           C(r, i) == IF Pair(r, i - 1, "cr", "nl") THEN <<>>
                      ELSE IF r[i] = "cr" THEN <<"nl">> ELSE <<r[i]>>
           f == [i \in 1..Len(s) |-> C(s, i)]
           g == [i \in 1..Len(t) |-> C(t, i)]
           h == [i \in 1..Len(q) |-> C(q, i)]
           n == Len(q)
<1>1. /\ f \in Seq(Seq(LogChars \ {"cr"})) /\ g \in Seq(Seq(LogChars \ {"cr"}))
      /\ Len(f) = Len(s) /\ Len(g) = Len(t)
  <2>1. "nl" \in LogChars
    BY DEF LogChars, Chars, Bytes, Symbols, Added
  <2>2. PICK D : D = LogChars \ {"cr"}
    OBVIOUS
  <2>3. f \in Seq(Seq(D))
    BY <2>1, <2>2, TranslatedOver
  <2>4. g \in Seq(Seq(D))
    BY <2>1, <2>2, TranslatedOver
  <2> QED
    BY <2>2, <2>3, <2>4
<1>2. n \in Nat /\ n = Len(s) + Len(t)
  OBVIOUS
<1>3. ASSUME NEW i \in 1..Len(s) PROVE h[i] = f[i]
  <2>1. q[i] = s[i] /\ i - 1 \in 0..Len(s) /\ i \in 1..Len(q)
    OBVIOUS
  <2>2. Pair(q, i - 1, "cr", "nl") <=> Pair(s, i - 1, "cr", "nl")
    BY <2>1, PairsOfParts
  <2> QED
    BY <2>1, <2>2
<1>4. ASSUME NEW j \in 1..Len(t) PROVE h[Len(s) + j] = g[j]
  <2>1. /\ q[Len(s) + j] = t[j] /\ j - 1 \in 0..Len(t) /\ Len(s) + j \in 1..Len(q)
        /\ Len(s) + (j - 1) = (Len(s) + j) - 1
    OBVIOUS
  <2>2. Pair(q, Len(s) + (j - 1), "cr", "nl") <=> Pair(t, j - 1, "cr", "nl")
    BY <2>1, PairsOfParts
  <2> QED
    BY <2>1, <2>2
<1>5. /\ h = [i \in 1..n |-> h[i]] /\ n = Len(f) + Len(g)
      /\ \A i \in 1..Len(f) : h[i] = f[i]
      /\ \A j \in 1..Len(g) : h[Len(f) + j] = g[j]
  BY <1>1, <1>2, <1>3, <1>4
<1>6. Translated(q) = FlattenSeq(h) /\ Translated(s) = FlattenSeq(f) /\ Translated(t) = FlattenSeq(g)
  BY DEF Translated
<1> HIDE DEF f, g, h, n, C
<1>7. FlattenSeq(h) = FlattenSeq(f) \o FlattenSeq(g)
  BY <1>1, <1>2, <1>5, FlattenJoin
<1> QED
  BY <1>6, <1>7

\* A text without "\r" is its own translation.
LEMMA TranslatedSame ==
  ASSUME NEW C, "cr" \notin C, NEW t \in Seq(C)
  PROVE  Translated(t) = t
<1> DEFINE h == [i \in 1..Len(t) |-> IF Pair(t, i - 1, "cr", "nl") THEN <<>>
                                     ELSE IF t[i] = "cr" THEN <<"nl">> ELSE <<t[i]>>]
<1>1. \A i \in 1..Len(t) : t[i] # "cr"
  OBVIOUS
<1>2. h = [i \in 1..Len(t) |-> <<t[i]>>]
  BY <1>1 DEF Pair
<1>3. FlattenSeq(h) = t
  BY <1>2, FlattenSingles
<1> QED
  BY <1>3 DEF Translated

-----------------------------------------------------------------------------
(* The lines of a text.                                                    *)

\* How many lines of t have ended when its first i characters are read.
Rank(t, i) == Cardinality({j \in Newlines(t) : j <= i})

\* A text has finitely many newlines, at positions of it.
LEMMA NewlinesFinite ==
  ASSUME NEW t \in Seq(LogChars)
  PROVE  /\ IsFiniteSet(Newlines(t)) /\ Cardinality(Newlines(t)) \in Nat
         /\ \A i \in Newlines(t) : i \in 1..Len(t) /\ t[i] = "nl"
         /\ \A i : /\ IsFiniteSet({j \in Newlines(t) : j <= i})
                   /\ Rank(t, i) \in Nat /\ Rank(t, i) <= Cardinality(Newlines(t))
<1>1. IsFiniteSet(1..Len(t))
  BY FS_Interval
<1>2. Newlines(t) \in SUBSET (1..Len(t))
  BY DEF Newlines
<1>3. IsFiniteSet(Newlines(t)) /\ Cardinality(Newlines(t)) \in Nat
  BY <1>1, <1>2, FS_Subset, FS_CardinalityType
<1>4. ASSUME NEW i
      PROVE  /\ IsFiniteSet({j \in Newlines(t) : j <= i})
             /\ Rank(t, i) \in Nat /\ Rank(t, i) <= Cardinality(Newlines(t))
  <2>1. {j \in Newlines(t) : j <= i} \in SUBSET Newlines(t)
    OBVIOUS
  <2> QED
    BY <1>3, <2>1, FS_Subset, FS_CardinalityType DEF Rank
<1> QED
  BY <1>3, <1>4 DEF Newlines

\* The rank grows at every newline.
LEMMA RankGrows ==
  ASSUME NEW t \in Seq(LogChars), NEW i \in 0..Len(t), NEW j \in Newlines(t), i < j
  PROVE  Rank(t, i) < Rank(t, j)
<1> DEFINE A == {m \in Newlines(t) : m <= i}
           B == {m \in Newlines(t) : m <= j}
<1>1. IsFiniteSet(B) /\ Cardinality(A) \in Nat /\ Cardinality(B) \in Nat
  BY NewlinesFinite DEF Rank
<1>2. A \in SUBSET B /\ A # B
  BY NewlinesFinite
<1> HIDE DEF A, B
<1>3. Cardinality(A) <= Cardinality(B) /\ (Cardinality(A) = Cardinality(B) => A = B)
  BY <1>1, <1>2, FS_Subset
<1>4. Cardinality(A) < Cardinality(B)
  BY <1>1, <1>2, <1>3
<1> QED
  BY <1>4 DEF A, B, Rank

\* So the newlines of t have the ranks from 1 on, one each.
LEMMA RanksTaken ==
  ASSUME NEW t \in Seq(LogChars), NEW k \in 1..Cardinality(Newlines(t))
  PROVE  \E i \in Newlines(t) : Rank(t, i) = k
<1> DEFINE K == Cardinality(Newlines(t))
           f == [i \in Newlines(t) |-> Rank(t, i)]
<1>1. ASSUME NEW i \in Newlines(t) PROVE Rank(t, i) \in 1..K
  <2>0. 0 \in 0..Len(t) /\ 0 < i
    BY NewlinesFinite
  <2>1. Rank(t, 0) < Rank(t, i) /\ Rank(t, 0) \in Nat /\ Rank(t, i) \in Nat /\ Rank(t, i) <= K
    BY <2>0, NewlinesFinite, RankGrows
  <2> QED
    BY <2>1
<1>2. ASSUME NEW i \in Newlines(t), NEW j \in Newlines(t), f[i] = f[j] PROVE i = j
  <2>1. i \in 0..Len(t) /\ j \in 0..Len(t) /\ f[i] = Rank(t, i) /\ f[j] = Rank(t, j)
    BY NewlinesFinite
  <2>2. Rank(t, i) \in Nat /\ Rank(t, j) \in Nat
    BY NewlinesFinite
  <2>3. ~(i < j) /\ ~(j < i)
    BY <1>2, <2>1, <2>2, RankGrows
  <2> QED
    BY <2>1, <2>3
<1>3. f \in Injection(Newlines(t), 1..K)
  BY <1>1, <1>2 DEF Injection, IsInjective
<1>4. IsFiniteSet(1..K) /\ Cardinality(1..K) = K
  <2>1. K \in Nat
    BY NewlinesFinite
  <2> QED
    BY <2>1, FS_Interval
<1>5. f \in Surjection(Newlines(t), 1..K)
  BY <1>3, <1>4, FS_Injection
<1>6. PICK i \in Newlines(t) : f[i] = k
  BY <1>5 DEF Surjection
<1> QED
  BY <1>6

\* LineEnd(t, k) is the newline of rank k.
LEMMA LineEndIs ==
  ASSUME NEW t \in Seq(LogChars), NEW k \in 1..Cardinality(Newlines(t))
  PROVE  /\ LineEnd(t, k) \in Newlines(t) /\ LineEnd(t, k) \in 1..Len(t)
         /\ t[LineEnd(t, k)] = "nl" /\ Rank(t, LineEnd(t, k)) = k
<1>1. \E i \in Newlines(t) : Cardinality({j \in Newlines(t) : j <= i}) = k
  BY RanksTaken DEF Rank
<1>2. k # 0
  BY NewlinesFinite
<1>3. LineEnd(t, k) = CHOOSE i \in Newlines(t) : Cardinality({j \in Newlines(t) : j <= i}) = k
  BY <1>2 DEF LineEnd
<1>4. LineEnd(t, k) \in Newlines(t) /\ Rank(t, LineEnd(t, k)) = k
  BY <1>1, <1>3 DEF Rank
<1> QED
  BY <1>4, NewlinesFinite

\* It is a position of t, or 0, of rank k.
LEMMA LineStarts ==
  ASSUME NEW t \in Seq(LogChars), NEW k \in 0..Cardinality(Newlines(t))
  PROVE  LineEnd(t, k) \in 0..Len(t) /\ Rank(t, LineEnd(t, k)) = k
<1>1. CASE k = 0
  <2>1. LineEnd(t, k) = 0
    BY <1>1 DEF LineEnd
  <2>2. {j \in Newlines(t) : j <= 0} = {}
    BY NewlinesFinite
  <2>3. Rank(t, 0) = 0
    BY <2>2, FS_EmptySet, Zenon DEF Rank
  <2>4. 0 \in 0..Len(t)
    OBVIOUS
  <2> QED
    BY <1>1, <2>1, <2>3, <2>4
<1>2. CASE k # 0
  <2>1. k \in 1..Cardinality(Newlines(t))
    BY <1>2, NewlinesFinite
  <2> QED
    BY <2>1, LineEndIs
<1> QED
  BY <1>1, <1>2

\* Line k begins behind line k - 1 and has one newline, its last character.
LEMMA LineIs ==
  ASSUME NEW t \in Seq(LogChars), NEW k \in 1..Cardinality(Newlines(t))
  PROVE  /\ LineEnd(t, k - 1) \in 0..Len(t) /\ LineEnd(t, k) \in 1..Len(t)
         /\ LineEnd(t, k - 1) < LineEnd(t, k) /\ t[LineEnd(t, k)] = "nl"
         /\ \A i \in LineEnd(t, k - 1) + 1..LineEnd(t, k) - 1 : t[i] # "nl"
<1> DEFINE a == LineEnd(t, k - 1)
           b == LineEnd(t, k)
<1>1. k - 1 \in 0..Cardinality(Newlines(t)) /\ k \in Nat
  BY NewlinesFinite
<1>2. a \in 0..Len(t) /\ Rank(t, a) = k - 1
  BY <1>1, LineStarts
<1>3. b \in Newlines(t) /\ b \in 1..Len(t) /\ t[b] = "nl" /\ Rank(t, b) = k
  BY LineEndIs
<1> HIDE DEF a, b
<1>4. a < b
  <2>1. CASE b < a
    <3>1. a # 0 /\ k - 1 # 0
      <4>1. a # 0
        BY <1>2, <1>3, <2>1
      <4>2. k - 1 = 0 => a = 0
        BY DEF a, LineEnd
      <4> QED
        BY <4>1, <4>2
    <3>2. k - 1 \in 1..Cardinality(Newlines(t))
      BY <1>1, <3>1, NewlinesFinite
    <3>3. a \in Newlines(t)
      BY <3>2, LineEndIs DEF a
    <3>4. b \in 0..Len(t)
      BY <1>3
    <3>5. Rank(t, b) < Rank(t, a)
      BY <2>1, <3>3, <3>4, RankGrows
    <3> QED
      BY <1>1, <1>2, <1>3, <3>5
  <2>2. a # b
    BY <1>1, <1>2, <1>3
  <2> QED
    BY <1>2, <1>3, <2>1, <2>2
<1>5. ASSUME NEW i \in a + 1..b - 1, t[i] = "nl" PROVE FALSE
  <2>1. i \in 0..Len(t) /\ i \in Newlines(t) /\ a < i /\ i < b
    BY <1>2, <1>3, <1>5 DEF Newlines
  <2>2. Rank(t, a) < Rank(t, i) /\ Rank(t, i) < Rank(t, b) /\ Rank(t, i) \in Nat
    BY <1>2, <1>3, <2>1, RankGrows, NewlinesFinite
  <2> QED
    BY <1>1, <1>2, <1>3, <2>2
<1> QED
  BY <1>2, <1>3, <1>4, <1>5 DEF a, b

\* What follows the complete lines has no newline.
LEMMA RestOf ==
  ASSUME NEW t \in Seq(LogChars), NEW e, e = LineEnd(t, Cardinality(Newlines(t)))
  PROVE  /\ e \in 0..Len(t) /\ (e # 0 => t[e] = "nl")
         /\ \A i \in e + 1..Len(t) : t[i] # "nl"
         /\ SubSeq(t, 1, e) \in Seq(LogChars) /\ Rest(t) \in Seq(LogChars)
         /\ t = SubSeq(t, 1, e) \o Rest(t)
         /\ Len(Rest(t)) = Len(t) - e
         /\ \A i \in 1..Len(Rest(t)) : Rest(t)[i] # "nl"
<1> DEFINE K == Cardinality(Newlines(t))
<1>1. K \in Nat /\ K \in 0..K
  BY NewlinesFinite
<1>2. e \in 0..Len(t) /\ Rank(t, e) = K
  BY <1>1, LineStarts
<1>3. e # 0 => t[e] = "nl"
  <2>1. e # 0 => K # 0
    BY DEF LineEnd
  <2>2. K # 0 => K \in 1..K
    BY <1>1
  <2> QED
    BY <2>1, <2>2, LineEndIs
<1>4. ASSUME NEW i \in e + 1..Len(t), t[i] = "nl" PROVE FALSE
  <2>1. i \in Newlines(t) /\ e < i
    BY <1>2, <1>4 DEF Newlines
  <2>2. Rank(t, e) < Rank(t, i) /\ Rank(t, i) \in Nat /\ Rank(t, i) <= K
    BY <1>2, <2>1, RankGrows, NewlinesFinite
  <2> QED
    BY <1>1, <1>2, <2>2
<1>5. Rest(t) = SubSeq(t, e + 1, Len(t))
  BY DEF Rest
<1>6. /\ SubSeq(t, 1, e) \in Seq(LogChars) /\ Rest(t) \in Seq(LogChars)
      /\ Len(SubSeq(t, 1, e)) = e /\ Len(Rest(t)) = Len(t) - e
      /\ \A i \in 1..Len(Rest(t)) : Rest(t)[i] = t[e + i]
      /\ \A i \in 1..e : SubSeq(t, 1, e)[i] = t[i]
  BY <1>2, <1>5
<1>7. t = SubSeq(t, 1, e) \o Rest(t)
  BY <1>2, <1>5, CutAnywhere
<1>8. \A i \in 1..Len(Rest(t)) : Rest(t)[i] # "nl"
  <2>1. ASSUME NEW i \in 1..Len(Rest(t)) PROVE e + i \in e + 1..Len(t)
    BY <1>2, <1>6
  <2> QED
    BY <1>4, <1>6, <2>1
<1> QED
  BY <1>2, <1>3, <1>4, <1>6, <1>7, <1>8

\* The same of a text of characters: its rest is characters.
LEMMA RestIs ==
  ASSUME NEW C \in SUBSET LogChars, NEW t \in Seq(C), NEW e, e = LineEnd(t, Cardinality(Newlines(t)))
  PROVE  /\ e \in 0..Len(t) /\ (e # 0 => t[e] = "nl")
         /\ \A i \in e + 1..Len(t) : t[i] # "nl"
         /\ SubSeq(t, 1, e) \in Seq(C) /\ Rest(t) \in Seq(C)
         /\ t = SubSeq(t, 1, e) \o Rest(t)
         /\ Len(Rest(t)) = Len(t) - e
         /\ \A i \in 1..Len(Rest(t)) : Rest(t)[i] # "nl"
<1>1. t \in Seq(LogChars)
  OBVIOUS
<1>2. /\ e \in 0..Len(t) /\ (e # 0 => t[e] = "nl")
      /\ \A i \in e + 1..Len(t) : t[i] # "nl"
      /\ t = SubSeq(t, 1, e) \o Rest(t)
      /\ Len(Rest(t)) = Len(t) - e
      /\ \A i \in 1..Len(Rest(t)) : Rest(t)[i] # "nl"
  <2>1. \A u \in Seq(LogChars) : \A d : d = LineEnd(u, Cardinality(Newlines(u))) =>
          /\ d \in 0..Len(u) /\ (d # 0 => u[d] = "nl")
          /\ \A i \in d + 1..Len(u) : u[i] # "nl"
          /\ u = SubSeq(u, 1, d) \o Rest(u)
          /\ Len(Rest(u)) = Len(u) - d
          /\ \A i \in 1..Len(Rest(u)) : Rest(u)[i] # "nl"
    BY RestOf
  <2> QED
    BY <1>1, <2>1, Zenon
<1>3. Rest(t) = SubSeq(t, e + 1, Len(t))
  BY DEF Rest
<1>4. SubSeq(t, 1, e) \in Seq(C) /\ SubSeq(t, e + 1, Len(t)) \in Seq(C)
  BY <1>2
<1> QED
  BY <1>2, <1>3, <1>4

\* Newlines add up.
LEMMA NewlinesJoin ==
  ASSUME NEW s \in Seq(LogChars), NEW t \in Seq(LogChars)
  PROVE  Cardinality(Newlines(s \o t)) = Cardinality(Newlines(s)) + Cardinality(Newlines(t))
<1>1. Newlines(s \o t) = Joined(Len(s), Newlines(s), Newlines(t))
  <2>1. ASSUME NEW i \in Newlines(s \o t) PROVE i \in Joined(Len(s), Newlines(s), Newlines(t))
    <3>1. CASE i <= Len(s)
      BY <3>1 DEF Newlines, Joined
    <3>2. CASE i > Len(s)
      <4>1. /\ i - Len(s) \in 1..Len(t) /\ (i - Len(s)) + Len(s) = i
            /\ (s \o t)[i] = t[i - Len(s)] /\ (s \o t)[i] = "nl"
        BY <3>2 DEF Newlines
      <4>2. i - Len(s) \in Newlines(t)
        BY <4>1 DEF Newlines
      <4> QED
        BY <4>1, <4>2 DEF Joined
    <3> QED
      BY <3>1, <3>2 DEF Newlines
  <2>2. ASSUME NEW i \in Newlines(s) PROVE i \in Newlines(s \o t)
    BY <2>2 DEF Newlines
  <2>3. ASSUME NEW j \in Newlines(t) PROVE j + Len(s) \in Newlines(s \o t)
    BY <2>3 DEF Newlines
  <2> QED
    BY <2>1, <2>2, <2>3 DEF Joined
<1>2. /\ IsFiniteSet(Newlines(s)) /\ IsFiniteSet(Newlines(t)) /\ Len(s) \in Nat
      /\ (\A i \in Newlines(s) : i \in 1..Len(s)) /\ (\A i \in Newlines(t) : i \in Nat \ {0})
  BY NewlinesFinite
<1> QED
  BY <1>1, <1>2, JoinedSize

\* A text of which at most the last character is a newline.
LEMMA NewlinesOfLine ==
  ASSUME NEW t \in Seq(LogChars), \A i \in 1..Len(t) - 1 : t[i] # "nl"
  PROVE  Cardinality(Newlines(t)) = IF t # <<>> /\ t[Len(t)] = "nl" THEN 1 ELSE 0
<1>1. CASE t # <<>> /\ t[Len(t)] = "nl"
  <2>1. Newlines(t) = {Len(t)}
    BY <1>1 DEF Newlines
  <2> QED
    BY <1>1, <2>1, FS_Singleton
<1>2. CASE ~(t # <<>> /\ t[Len(t)] = "nl")
  <2>1. Newlines(t) = {}
    BY <1>2 DEF Newlines
  <2> QED
    BY <1>2, <2>1, FS_EmptySet
<1> QED
  BY <1>1, <1>2

\* Pieces that are no more than a line each, and all but the last one a whole line.
AreLines(p) ==
  \A k \in 1..Len(p) :
    /\ p[k] # <<>> /\ \A i \in 1..Len(p[k]) - 1 : p[k][i] # "nl"
    /\ k < Len(p) => p[k][Len(p[k])] = "nl"

\* A complete line: one newline, at its end, and the next cut of the text.
LEMMA LineOf ==
  ASSUME NEW t \in Seq(LogChars), NEW k \in 1..Cardinality(Newlines(t)),
         NEW b, b = CompleteLines(t)[k]
  PROVE  /\ b \in Seq(LogChars) /\ b # <<>> /\ b[Len(b)] = "nl"
         /\ \A i \in 1..Len(b) - 1 : b[i] # "nl"
         /\ SubSeq(t, 1, LineEnd(t, k)) = SubSeq(t, 1, LineEnd(t, k - 1)) \o b
<1> DEFINE x == LineEnd(t, k - 1)
           y == LineEnd(t, k)
<1>1. /\ x \in 0..Len(t) /\ y \in 1..Len(t) /\ x < y /\ t[y] = "nl"
      /\ \A i \in x + 1..y - 1 : t[i] # "nl"
  BY LineIs
<1>2. b = SubSeq(t, x + 1, y)
  BY DEF CompleteLines
<1> HIDE DEF x, y
<1>3. /\ b \in Seq(LogChars) /\ Len(b) = y - x
      /\ \A i \in 1..y - x : b[i] = t[x + i]
  BY <1>1, <1>2
<1>4. b # <<>> /\ b[Len(b)] = "nl"
  BY <1>1, <1>3
<1>5. ASSUME NEW i \in 1..Len(b) - 1 PROVE b[i] # "nl"
  <2>1. x + i \in x + 1..y - 1 /\ i \in 1..y - x
    BY <1>1, <1>3
  <2> QED
    BY <1>1, <1>3, <2>1
<1>6. SubSeq(t, 1, x) \o SubSeq(t, x + 1, y) = SubSeq(t, 1, y)
  <2>1. 1 \in 1..Len(t) + 1 /\ x \in 1 - 1..Len(t) /\ y \in x..Len(t)
    BY <1>1
  <2> QED
    BY <2>1, ConcatAdjacentSubSeq
<1> QED
  BY <1>2, <1>3, <1>4, <1>5, <1>6 DEF x, y

\* The same of a text of characters.
LEMMA CompleteLineIs ==
  ASSUME NEW C \in SUBSET LogChars, NEW t \in Seq(C), NEW k \in 1..Cardinality(Newlines(t)),
         NEW b, b = CompleteLines(t)[k]
  PROVE  /\ b \in Seq(C) /\ b # <<>> /\ b[Len(b)] = "nl"
         /\ \A i \in 1..Len(b) - 1 : b[i] # "nl"
         /\ SubSeq(t, 1, LineEnd(t, k)) = SubSeq(t, 1, LineEnd(t, k - 1)) \o b
<1>1. t \in Seq(LogChars)
  OBVIOUS
<1>2. /\ b # <<>> /\ b[Len(b)] = "nl"
      /\ \A i \in 1..Len(b) - 1 : b[i] # "nl"
      /\ SubSeq(t, 1, LineEnd(t, k)) = SubSeq(t, 1, LineEnd(t, k - 1)) \o b
  <2>1. \A u \in Seq(LogChars) : \A j \in 1..Cardinality(Newlines(u)) : \A c : c = CompleteLines(u)[j] =>
          /\ c # <<>> /\ c[Len(c)] = "nl"
          /\ \A i \in 1..Len(c) - 1 : c[i] # "nl"
          /\ SubSeq(u, 1, LineEnd(u, j)) = SubSeq(u, 1, LineEnd(u, j - 1)) \o c
    BY LineOf
  <2> QED
    BY <1>1, <2>1, Zenon
<1>3. LineEnd(t, k - 1) \in 0..Len(t) /\ LineEnd(t, k) \in 1..Len(t)
  BY <1>1, LineIs
<1>4. b \in Seq(C)
  <2>1. PICK x \in 0..Len(t), y \in 1..Len(t) : x = LineEnd(t, k - 1) /\ y = LineEnd(t, k)
    BY <1>3
  <2>2. SubSeq(t, x + 1, y) \in Seq(C)
    OBVIOUS
  <2> QED
    BY <2>1, <2>2 DEF CompleteLines
<1> QED
  BY <1>2, <1>4

\* The complete lines are the text up to the last newline.
LEMMA CompleteLinesAre ==
  ASSUME NEW C \in SUBSET LogChars, NEW t \in Seq(C)
  PROVE  /\ CompleteLines(t) \in Seq(Seq(C))
         /\ Len(CompleteLines(t)) = Cardinality(Newlines(t))
         /\ AreLines(CompleteLines(t))
         /\ FlattenSeq(CompleteLines(t)) = SubSeq(t, 1, LineEnd(t, Cardinality(Newlines(t))))
<1> DEFINE K == Cardinality(Newlines(t))
           p == CompleteLines(t)
           T == {k \in 0..K : FlattenSeq(SubSeq(p, 1, k)) = SubSeq(t, 1, LineEnd(t, k))}
<1>1. K \in Nat
  BY NewlinesFinite
<1>2. p = [k \in 1..K |-> p[k]]
  BY DEF CompleteLines
<1>3. \A k \in 1..K : /\ p[k] \in Seq(C) /\ p[k] # <<>> /\ p[k][Len(p[k])] = "nl"
                      /\ \A i \in 1..Len(p[k]) - 1 : p[k][i] # "nl"
  BY CompleteLineIs
<1> HIDE DEF K, p
<1>4. p \in Seq(Seq(C)) /\ Len(p) = K
  BY <1>1, <1>2, <1>3
<1>5. AreLines(p)
  BY <1>3, <1>4 DEF AreLines
<1>6. 0 \in T
  <2>1. SubSeq(p, 1, 0) = <<>> /\ LineEnd(t, 0) = 0 /\ SubSeq(t, 1, 0) = <<>> /\ 0 \in 0..K
    BY <1>1, <1>4 DEF LineEnd
  <2> QED
    BY <2>1 DEF FlattenSeq
<1>7. ASSUME NEW k \in 0..K - 1, k \in T PROVE k + 1 \in T
  <2>1. /\ SubSeq(p, 1, k) \in Seq(Seq(C)) /\ p[k + 1] \in Seq(C)
        /\ SubSeq(p, 1, k + 1) = Append(SubSeq(p, 1, k), p[k + 1])
    BY <1>4, PrefixGrows
  <2>2. FlattenSeq(SubSeq(p, 1, k + 1)) = FlattenSeq(SubSeq(p, 1, k)) \o p[k + 1]
    BY <2>1, FlattenAppend
  <2>3. k + 1 \in 1..K /\ (k + 1) - 1 = k /\ k + 1 \in 0..K
    BY <1>1
  <2>4. SubSeq(t, 1, LineEnd(t, k + 1)) = SubSeq(t, 1, LineEnd(t, (k + 1) - 1)) \o p[k + 1]
    <3>1. PICK m : m = k + 1
      OBVIOUS
    <3>2. m \in 1..Cardinality(Newlines(t)) /\ m - 1 = k
      BY <2>3, <3>1 DEF K
    <3>3. PICK b : b = CompleteLines(t)[m]
      OBVIOUS
    <3>4. SubSeq(t, 1, LineEnd(t, m)) = SubSeq(t, 1, LineEnd(t, m - 1)) \o b
      <4>1. \A u \in Seq(LogChars) : \A j \in 1..Cardinality(Newlines(u)) : \A c : c = CompleteLines(u)[j] =>
              SubSeq(u, 1, LineEnd(u, j)) = SubSeq(u, 1, LineEnd(u, j - 1)) \o c
        BY LineOf
      <4>2. t \in Seq(LogChars)
        OBVIOUS
      <4> QED
        BY <3>2, <3>3, <4>1, <4>2, Zenon
    <3> QED
      BY <2>3, <3>1, <3>3, <3>4 DEF p
  <2>5. FlattenSeq(SubSeq(p, 1, k)) = SubSeq(t, 1, LineEnd(t, k))
    BY <1>7
  <2> QED
    BY <2>2, <2>3, <2>4, <2>5
<1> HIDE DEF T
<1>8. K \in T
  BY <1>1, <1>6, <1>7, CountUp
<1>9. SubSeq(p, 1, K) = p
  BY <1>4, WholePrefix
<1> QED
  BY <1>4, <1>5, <1>8, <1>9 DEF T, p, K

-----------------------------------------------------------------------------
(* The lines of a text are determined, and part with it at a newline.      *)

\* A sequence of texts but the first; the whole of it, the first before.
LEMMA FlattenFirst ==
  ASSUME NEW S, NEW p \in Seq(Seq(S)), p # <<>>
  PROVE  /\ p[1] \in Seq(S) /\ Tail(p) \in Seq(Seq(S)) /\ Len(Tail(p)) = Len(p) - 1
         /\ \A k \in 1..Len(p) - 1 : Tail(p)[k] = p[k + 1]
         /\ FlattenSeq(p) = p[1] \o FlattenSeq(Tail(p))
<1>1. /\ p[1] \in Seq(S) /\ Tail(p) \in Seq(Seq(S)) /\ Len(Tail(p)) = Len(p) - 1
      /\ \A k \in 1..Len(p) - 1 : Tail(p)[k] = p[k + 1]
  OBVIOUS
<1>2. PICK x \in Seq(S) : x = p[1]
  BY <1>1
<1>3. <<x>> \in Seq(Seq(S)) /\ p = <<x>> \o Tail(p)
  BY <1>2
<1>4. FlattenSeq(<<x>>) = x
  BY FlattenOne
<1>5. FlattenSeq(<<x>> \o Tail(p)) = FlattenSeq(<<x>>) \o FlattenSeq(Tail(p))
  BY <1>1, <1>3, FlattenConcat
<1> QED
  BY <1>1, <1>2, <1>3, <1>4, <1>5

\* A line: no newline but at its end.
IsLine(a) == a # <<>> /\ \A i \in 1..Len(a) - 1 : a[i] # "nl"

\* What a concatenation is made of.
LEMMA ConcatIs ==
  ASSUME NEW S, NEW s \in Seq(S), NEW t \in Seq(S)
  PROVE  /\ s \o t \in Seq(S) /\ Len(s \o t) = Len(s) + Len(t)
         /\ \A i \in 1..Len(s) : (s \o t)[i] = s[i]
         /\ \A j \in 1..Len(t) : (s \o t)[Len(s) + j] = t[j]
OBVIOUS

\* A sequence of one element, with others behind it.
LEMMA TailOfConcat ==
  ASSUME NEW S, NEW u \in Seq(S), NEW v \in Seq(S), Len(u) = 1
  PROVE  Tail(u \o v) = v
<1>1. PICK q \in Seq(S) : q = u \o v /\ Len(q) = 1 + Len(v) /\ \A j \in 1..Len(v) : q[1 + j] = v[j]
  <2>1. /\ u \o v \in Seq(S) /\ Len(u \o v) = Len(u) + Len(v)
        /\ \A j \in 1..Len(v) : (u \o v)[Len(u) + j] = v[j]
    BY ConcatIs
  <2> QED
    BY <2>1
<1>2. PICK t \in Seq(S) : t = Tail(q) /\ Len(t) = Len(v) /\ \A j \in 1..Len(v) : t[j] = q[j + 1]
  BY <1>1
<1>3. \A j \in 1..Len(v) : t[j] = v[j]
  BY <1>1, <1>2
<1> QED
  BY <1>1, <1>2, <1>3, SeqEqual

\* Only the empty sequence has length 0.
LEMMA EmptyIs ==
  ASSUME NEW S, NEW q \in Seq(S)
  PROVE  Len(q) \in Nat /\ (q = <<>> <=> Len(q) = 0)
OBVIOUS

\* The first line of a text is determined.
LEMMA FirstLineUnique ==
  ASSUME NEW S, NEW a \in Seq(S), NEW b \in Seq(S), NEW s \in Seq(S), NEW t \in Seq(S),
         IsLine(a), IsLine(b),
         s # <<>> => a[Len(a)] = "nl", t # <<>> => b[Len(b)] = "nl"
  PROVE  a \o s = b \o t => a = b /\ s = t
<1> DEFINE q == a \o s
           r == b \o t
<1>0. a # <<>> /\ b # <<>>
  BY DEF IsLine
<1>1. /\ Len(q) = Len(a) + Len(s) /\ Len(r) = Len(b) + Len(t)
      /\ Len(a) \in Nat \ {0} /\ Len(b) \in Nat \ {0} /\ Len(s) \in Nat /\ Len(t) \in Nat
      /\ \A i \in 1..Len(a) : q[i] = a[i]
      /\ \A i \in 1..Len(b) : r[i] = b[i]
      /\ \A j \in 1..Len(s) : q[Len(a) + j] = s[j]
      /\ \A j \in 1..Len(t) : r[Len(b) + j] = t[j]
      /\ s = <<>> <=> Len(s) = 0
      /\ t = <<>> <=> Len(t) = 0
  <2>1. Len(a) \in Nat \ {0} /\ Len(b) \in Nat \ {0} /\ Len(s) \in Nat /\ Len(t) \in Nat
    BY <1>0
  <2>2. (s = <<>> <=> Len(s) = 0) /\ (t = <<>> <=> Len(t) = 0)
    OBVIOUS
  <2>3. /\ Len(q) = Len(a) + Len(s)
        /\ \A i \in 1..Len(a) : q[i] = a[i]
        /\ \A j \in 1..Len(s) : q[Len(a) + j] = s[j]
    BY ConcatIs
  <2>4. /\ Len(r) = Len(b) + Len(t)
        /\ \A i \in 1..Len(b) : r[i] = b[i]
        /\ \A j \in 1..Len(t) : r[Len(b) + j] = t[j]
    BY ConcatIs
  <2> HIDE DEF q, r
  <2> QED
    BY <2>1, <2>2, <2>3, <2>4
<1> HIDE DEF q, r
<1>2. SUFFICES ASSUME q = r PROVE a = b /\ s = t
  BY DEF q, r
<1>3. ASSUME Len(a) < Len(b) PROVE FALSE
  <2>1. s # <<>> /\ Len(a) \in 1..Len(b) - 1 /\ Len(a) \in 1..Len(a) /\ Len(a) \in 1..Len(b)
    BY <1>1, <1>2, <1>3
  <2>2. a[Len(a)] = "nl" /\ b[Len(a)] # "nl"
    BY <2>1 DEF IsLine
  <2> QED
    BY <1>1, <1>2, <2>1, <2>2
<1>4. ASSUME Len(b) < Len(a) PROVE FALSE
  <2>1. t # <<>> /\ Len(b) \in 1..Len(a) - 1 /\ Len(b) \in 1..Len(a) /\ Len(b) \in 1..Len(b)
    BY <1>1, <1>2, <1>4
  <2>2. b[Len(b)] = "nl" /\ a[Len(b)] # "nl"
    BY <2>1 DEF IsLine
  <2> QED
    BY <1>1, <1>2, <2>1, <2>2
<1>5. Len(a) = Len(b) /\ Len(s) = Len(t)
  BY <1>1, <1>2, <1>3, <1>4
<1>6. (\A i \in 1..Len(a) : a[i] = b[i]) /\ \A j \in 1..Len(s) : s[j] = t[j]
  BY <1>1, <1>2, <1>5
<1> QED
  BY <1>5, <1>6, SeqEqual

\* Behind the first line of a text are the lines of the rest.
LEMMA FirstOfLines ==
  ASSUME NEW S, NEW p \in Seq(Seq(S)), p # <<>>, AreLines(p)
  PROVE  /\ IsLine(p[1]) /\ AreLines(Tail(p))
         /\ FlattenSeq(Tail(p)) # <<>> => p[1][Len(p[1])] = "nl"
<1>1. /\ Tail(p) \in Seq(Seq(S)) /\ Len(Tail(p)) = Len(p) - 1 /\ Len(p) \in Nat \ {0}
      /\ \A k \in 1..Len(p) - 1 : Tail(p)[k] = p[k + 1]
  BY FlattenFirst
<1>2. IsLine(p[1])
  BY <1>1 DEF AreLines, IsLine
<1>3. AreLines(Tail(p))
  <2> SUFFICES ASSUME NEW k \in 1..Len(Tail(p))
               PROVE  /\ Tail(p)[k] # <<>>
                      /\ \A i \in 1..Len(Tail(p)[k]) - 1 : Tail(p)[k][i] # "nl"
                      /\ k < Len(Tail(p)) => Tail(p)[k][Len(Tail(p)[k])] = "nl"
    BY DEF AreLines
  <2>1. Tail(p)[k] = p[k + 1] /\ k + 1 \in 1..Len(p) /\ (k < Len(Tail(p)) => k + 1 < Len(p))
    BY <1>1
  <2> QED
    BY <2>1 DEF AreLines
<1>4. ASSUME FlattenSeq(Tail(p)) # <<>> PROVE p[1][Len(p[1])] = "nl"
  <2>1. FlattenSeq(<<>>) = <<>>
    BY DEF FlattenSeq
  <2>2. Len(Tail(p)) # 0
    <3>1. PICK x \in Seq(Seq(S)) : x = Tail(p)
      BY <1>1
    <3>2. x # <<>>
      BY <1>4, <2>1, <3>1
    <3> QED
      BY <3>1, <3>2
  <2>3. 1 \in 1..Len(p) /\ 1 < Len(p)
    BY <1>1, <2>2
  <2> QED
    BY <2>3 DEF AreLines
<1> QED
  BY <1>2, <1>3, <1>4

\* A sequence of lines is determined by the text.
LEMMA LinesUnique ==
  ASSUME NEW S, NEW p \in Seq(Seq(S)), NEW q \in Seq(Seq(S)), AreLines(p), AreLines(q),
         FlattenSeq(p) = FlattenSeq(q)
  PROVE  p = q
<1> DEFINE n == Len(p)
           T == {k \in 0..n : \A u, v \in Seq(Seq(S)) :
                   Len(u) = k /\ AreLines(u) /\ AreLines(v) /\ FlattenSeq(u) = FlattenSeq(v)
                     => u = v}
<1>0. FlattenSeq(<<>>) = <<>>
  BY DEF FlattenSeq
<1>1. ASSUME NEW u \in Seq(Seq(S)), u # <<>>, AreLines(u) PROVE FlattenSeq(u) # <<>>
  <2>1. u[1] # <<>> /\ u[1] \in Seq(S)
    BY <1>1 DEF AreLines
  <2>2. FlattenSeq(u) = u[1] \o FlattenSeq(Tail(u)) /\ FlattenSeq(Tail(u)) \in Seq(S)
    BY <1>1, FlattenFirst, FlattenType
  <2> QED
    BY <2>1, <2>2
<1>2. 0 \in T
  <2>1. n \in Nat
    OBVIOUS
  <2> SUFFICES ASSUME NEW u \in Seq(Seq(S)), NEW v \in Seq(Seq(S)), Len(u) = 0,
                      AreLines(v), FlattenSeq(u) = FlattenSeq(v)
               PROVE  u = v
    BY <2>1
  <2> QED
    BY <1>0, <1>1
<1>3. ASSUME NEW k \in 0..n - 1, k \in T PROVE k + 1 \in T
  <2> SUFFICES ASSUME NEW u \in Seq(Seq(S)), NEW v \in Seq(Seq(S)), Len(u) = k + 1,
                      AreLines(u), AreLines(v), FlattenSeq(u) = FlattenSeq(v)
               PROVE  u = v
    OBVIOUS
  <2>1. u # <<>> /\ v # <<>>
    BY <1>0, <1>1
  <2>2. PICK a \in Seq(S), x \in Seq(Seq(S)), s \in Seq(S) :
          /\ a = u[1] /\ x = Tail(u) /\ s = FlattenSeq(x) /\ Len(x) = k
          /\ FlattenSeq(u) = a \o s
    <3>1. /\ u[1] \in Seq(S) /\ Tail(u) \in Seq(Seq(S)) /\ Len(Tail(u)) = Len(u) - 1
          /\ FlattenSeq(u) = u[1] \o FlattenSeq(Tail(u))
      BY <2>1, FlattenFirst
    <3>2. FlattenSeq(Tail(u)) \in Seq(S)
      BY <3>1, FlattenType
    <3>3. Len(u) - 1 = k
      OBVIOUS
    <3> QED
      BY <3>1, <3>2, <3>3, Zenon
  <2>3. PICK b \in Seq(S), y \in Seq(Seq(S)), t \in Seq(S) :
          /\ b = v[1] /\ y = Tail(v) /\ t = FlattenSeq(y)
          /\ FlattenSeq(v) = b \o t
    <3>1. /\ v[1] \in Seq(S) /\ Tail(v) \in Seq(Seq(S)) /\ Len(Tail(v)) = Len(v) - 1
          /\ FlattenSeq(v) = v[1] \o FlattenSeq(Tail(v))
      BY <2>1, FlattenFirst
    <3>2. FlattenSeq(Tail(v)) \in Seq(S)
      BY <3>1, FlattenType
    <3> QED
      BY <3>1, <3>2
  <2>4. /\ IsLine(a) /\ AreLines(x) /\ (s # <<>> => a[Len(a)] = "nl")
        /\ IsLine(b) /\ AreLines(y) /\ (t # <<>> => b[Len(b)] = "nl")
    BY <2>1, <2>2, <2>3, FirstOfLines
  <2>5. a \o s = b \o t
    BY <2>2, <2>3
  <2>6. a = b /\ s = t
    BY <2>4, <2>5, FirstLineUnique
  <2>7. x = y
    BY <1>3, <2>2, <2>3, <2>4, <2>6
  <2>8. u = <<a>> \o x /\ v = <<b>> \o y
    BY <2>1, <2>2, <2>3
  <2> QED
    BY <2>6, <2>7, <2>8
<1>4. n \in Nat
  OBVIOUS
<1> HIDE DEF n, T
<1>5. n \in T
  BY <1>2, <1>3, <1>4, CountUp
<1> QED
  BY <1>5 DEF n, T


\* A text ends as its last line does.
LEMMA LastOfLines ==
  ASSUME NEW S, NEW p \in Seq(Seq(S)), AreLines(p), p # <<>>,
         NEW t, t = FlattenSeq(p), NEW a, a = p[Len(p)]
  PROVE  t \in Seq(S) /\ t # <<>> /\ a \in Seq(S) /\ a # <<>> /\ t[Len(t)] = a[Len(a)]
<1>1. Len(p) \in 1..Len(p) /\ a \in Seq(S) /\ SubSeq(p, 1, Len(p) - 1) \in Seq(Seq(S))
  OBVIOUS
<1>2. a # <<>>
  BY <1>1 DEF AreLines
<1>3. PICK x \in Seq(Seq(S)) : x = SubSeq(p, 1, Len(p) - 1)
  BY <1>1
<1>4. p = Append(x, a)
  BY <1>1, <1>3
<1>5. t = FlattenSeq(x) \o a
  BY <1>1, <1>4, FlattenAppend
<1>6. FlattenSeq(x) \in Seq(S)
  BY FlattenType
<1>7. PICK y \in Seq(S) : y = FlattenSeq(x)
  BY <1>6
<1>8. t = y \o a
  BY <1>5, <1>7
<1> HIDE DEF FlattenSeq
<1> QED
  BY <1>1, <1>2, <1>8

\* The lines of a text without "\r" are its own, joined.
LEMMA SplitIs ==
  ASSUME NEW t \in Seq(LineChars), NEW p, p = SplitLines(t)
  PROVE  /\ p \in Seq(Seq(LineChars)) /\ AreLines(p) /\ FlattenSeq(p) = t
         /\ Cardinality(Newlines(t)) \in Nat /\ Cardinality(Newlines(t)) <= Len(p)
<1> DEFINE c == CompleteLines(t)
           r == Rest(t)
           e == LineEnd(t, Cardinality(Newlines(t)))
           K == Cardinality(Newlines(t))
<1>1. Translated(t) = t
  BY CleanIsLogged, TranslatedSame
<1>2. p = IF r = <<>> THEN c ELSE Append(c, r)
  BY <1>1 DEF SplitLines
<1>3. t \in Seq(LogChars)
  BY CleanIsLogged
<1>4. /\ r \in Seq(LineChars) /\ SubSeq(t, 1, e) \in Seq(LineChars)
      /\ t = SubSeq(t, 1, e) \o r
      /\ \A i \in 1..Len(r) : r[i] # "nl"
  BY CleanIsLogged, RestIs
<1>5. c \in Seq(Seq(LineChars)) /\ AreLines(c) /\ FlattenSeq(c) = SubSeq(t, 1, e) /\ Len(c) = K
  BY CleanIsLogged, CompleteLinesAre
<1>6. K \in Nat
  BY <1>3, NewlinesFinite
<1>7. \A k \in 1..K : c[k][Len(c[k])] = "nl"
  <2> SUFFICES ASSUME NEW k \in 1..K, NEW b, b = c[k] PROVE b[Len(b)] = "nl"
    OBVIOUS
  <2> QED
    BY <1>3, LineOf
<1>8. CASE r = <<>>
  <2>1. PICK a \in Seq(LineChars) : a = SubSeq(t, 1, e)
    BY <1>4
  <2>2. t = a
    BY <1>4, <1>8, <2>1
  <2> QED
    BY <1>2, <1>5, <1>6, <1>8, <2>1, <2>2
<1>9. CASE r # <<>>
  <2> HIDE DEF c, r, e, K
  <2>1. p = Append(c, r)
    BY <1>2, <1>9
  <2>2. p \in Seq(Seq(LineChars)) /\ Len(p) = K + 1
        /\ p[K + 1] = r /\ \A k \in 1..K : p[k] = c[k]
    BY <1>4, <1>5, <1>6, <2>1
  <2>3. FlattenSeq(p) = t
    BY <1>4, <1>5, <2>1, FlattenAppend
  <2>4. AreLines(p)
    <3> SUFFICES ASSUME NEW k \in 1..Len(p)
                 PROVE  /\ p[k] # <<>> /\ \A i \in 1..Len(p[k]) - 1 : p[k][i] # "nl"
                        /\ k < Len(p) => p[k][Len(p[k])] = "nl"
      BY DEF AreLines
    <3>1. CASE k = K + 1
      BY <1>4, <1>6, <1>9, <2>2, <3>1
    <3>2. CASE k # K + 1
      <4>1. k \in 1..K /\ k \in 1..Len(c) /\ p[k] = c[k]
        BY <1>5, <1>6, <2>2, <3>2
      <4>2. c[k] # <<>> /\ \A i \in 1..Len(c[k]) - 1 : c[k][i] # "nl"
        BY <1>5, <4>1 DEF AreLines
      <4> QED
        BY <1>7, <4>1, <4>2
    <3> QED
      BY <3>1, <3>2
  <2> QED
    BY <1>6, <2>2, <2>3, <2>4 DEF K
<1> QED
  BY <1>8, <1>9

\* So whatever lines a text is made of are its lines.
LEMMA LinesAre ==
  ASSUME NEW p \in Seq(Seq(LineChars)), AreLines(p), NEW t, t = FlattenSeq(p)
  PROVE  t \in Seq(LineChars) /\ SplitLines(t) = p
<1>1. t \in Seq(LineChars)
  BY FlattenType
<1>2. PICK q : q = SplitLines(t)
  OBVIOUS
<1>3. q \in Seq(Seq(LineChars)) /\ AreLines(q) /\ FlattenSeq(q) = t
  BY <1>1, <1>2, SplitIs
<1> QED
  BY <1>1, <1>2, <1>3, LinesUnique

\* Lines with lines behind them.
LEMMA AreLinesJoin ==
  ASSUME NEW S, NEW p \in Seq(Seq(S)), NEW q \in Seq(Seq(S)), AreLines(p), AreLines(q),
         p # <<>> => p[Len(p)][Len(p[Len(p)])] = "nl"
  PROVE  p \o q \in Seq(Seq(S)) /\ AreLines(p \o q)
<1>1. PICK r \in Seq(Seq(S)) : /\ r = p \o q /\ Len(r) = Len(p) + Len(q)
                               /\ \A k \in 1..Len(p) : r[k] = p[k]
                               /\ \A k \in 1..Len(q) : r[Len(p) + k] = q[k]
  <2>1. /\ p \o q \in Seq(Seq(S)) /\ Len(p \o q) = Len(p) + Len(q)
        /\ \A k \in 1..Len(p) : (p \o q)[k] = p[k]
        /\ \A k \in 1..Len(q) : (p \o q)[Len(p) + k] = q[k]
    BY ConcatIs
  <2> QED
    BY <2>1
<1>2. AreLines(r)
  <2> SUFFICES ASSUME NEW k \in 1..Len(r)
               PROVE  /\ r[k] # <<>> /\ \A i \in 1..Len(r[k]) - 1 : r[k][i] # "nl"
                      /\ k < Len(r) => r[k][Len(r[k])] = "nl"
    BY DEF AreLines
  <2>1. CASE k <= Len(p)
    <3>1. k \in 1..Len(p) /\ r[k] = p[k]
      BY <1>1, <2>1
    <3>2. /\ p[k] # <<>> /\ \A i \in 1..Len(p[k]) - 1 : p[k][i] # "nl"
          /\ k < Len(p) => p[k][Len(p[k])] = "nl"
      BY <3>1 DEF AreLines
    <3>3. k = Len(p) => p[k][Len(p[k])] = "nl"
      BY <3>1
    <3> QED
      BY <3>1, <3>2, <3>3
  <2>2. CASE k > Len(p)
    <3>0. Len(p) \in Nat /\ Len(q) \in Nat /\ k \in Nat /\ k <= Len(p) + Len(q)
      BY <1>1
    <3>1. PICK j \in 1..Len(q) : j = k - Len(p)
      <4>1. k - Len(p) \in 1..Len(q)
        BY <2>2, <3>0
      <4> QED
        BY <4>1
    <3>2. r[k] = q[j] /\ (k < Len(r) => j < Len(q))
      BY <1>1, <2>2, <3>1
    <3> QED
      BY <3>2 DEF AreLines
  <2> QED
    BY <2>1, <2>2
<1> QED
  BY <1>1, <1>2

\* Behind a newline a text goes on with lines of its own.
LEMMA LinesJoin ==
  ASSUME NEW x \in Seq(LineChars), NEW y \in Seq(LineChars), x # <<>> => x[Len(x)] = "nl"
  PROVE  SplitLines(x \o y) = SplitLines(x) \o SplitLines(y)
<1>1. PICK p \in Seq(Seq(LineChars)), q \in Seq(Seq(LineChars)) :
        /\ p = SplitLines(x) /\ AreLines(p) /\ FlattenSeq(p) = x
        /\ q = SplitLines(y) /\ AreLines(q) /\ FlattenSeq(q) = y
  BY SplitIs
<1>2. ASSUME p # <<>> PROVE p[Len(p)][Len(p[Len(p)])] = "nl"
  BY <1>1, <1>2, LastOfLines
<1>3. p \o q \in Seq(Seq(LineChars)) /\ AreLines(p \o q)
  BY <1>1, <1>2, AreLinesJoin
<1>4. FlattenSeq(p \o q) = x \o y
  BY <1>1, FlattenConcat
<1> QED
  BY <1>1, <1>3, <1>4, LinesAre


-----------------------------------------------------------------------------
(* The lines of a file, and where it may be cut between them.              *)

FileText(b) == Translated(Decoded(b))

\* The ways to end a line.
LineEnds == {<<"nl">>, <<"cr">>, <<"cr", "nl">>}

\* A cut between two lines.
Border(a, b) == a = <<>> \/ (a[Len(a)] \in {"nl", "cr"} /\ ~Parts(a, b, "cr", "nl"))

\* Bytes that are no halves decode to themselves.
LEMMA DecodedSame ==
  ASSUME NEW s \in Seq(Symbols), \A i \in 1..Len(s) : s[i] \notin {"lead", "cont"}
  PROVE  Decoded(s) = s
<1>1. [i \in 1..Len(s) |-> CharAt(s, i)] = [i \in 1..Len(s) |-> <<s[i]>>]
  <2> SUFFICES ASSUME NEW i \in 1..Len(s) PROVE CharAt(s, i) = <<s[i]>>
    OBVIOUS
  <2>1. ~Pair(s, i, "lead", "cont")
    BY DEF Pair
  <2>2. ~Pair(s, i - 1, "lead", "cont")
    BY DEF Pair
  <2> QED
    BY <2>1, <2>2 DEF CharAt
<1> QED
  BY <1>1, FlattenSingles DEF Decoded

\* The end of a line, decoded and translated.
LEMMA LineEndRead ==
  ASSUME NEW w \in LineEnds
  PROVE  /\ w \in Seq(Symbols) /\ w \in Seq(LogChars) /\ w # <<>> /\ w[1] \in {"nl", "cr"}
         /\ w[Len(w)] \in {"nl", "cr"}
         /\ Decoded(w) = w /\ Translated(w) = <<"nl">>
<1>1. {"nl", "cr"} \subseteq Symbols /\ {"nl", "cr"} \subseteq LogChars
  BY DEF LogChars, Chars, Bytes, Symbols, Added
<1>2. /\ w \in Seq({"nl", "cr"}) /\ w # <<>> /\ w[1] \in {"nl", "cr"} /\ w[Len(w)] \in {"nl", "cr"}
      /\ \A i \in 1..Len(w) : w[i] \notin {"lead", "cont"}
  <2>1. CASE w = <<"nl">>
    BY <2>1
  <2>2. CASE w = <<"cr">>
    BY <2>2
  <2>3. CASE w = <<"cr", "nl">>
    BY <2>3
  <2> QED
    BY <2>1, <2>2, <2>3 DEF LineEnds
<1>3. w \in Seq(Symbols) /\ w \in Seq(LogChars)
  BY <1>1, <1>2
<1>4. Decoded(w) = w
  BY <1>2, <1>3, DecodedSame
<1>5. Translated(w) = <<"nl">>
  <2> DEFINE h == [i \in 1..Len(w) |-> IF Pair(w, i - 1, "cr", "nl") THEN <<>>
                                       ELSE IF w[i] = "cr" THEN <<"nl">> ELSE <<w[i]>>]
  <2>1. <<"nl">> \in Seq({"nl"}) /\ <<>> \in Seq({"nl"})
    OBVIOUS
  <2>2. CASE w = <<"nl">> \/ w = <<"cr">>
    <3>1. h = << <<"nl">> >>
      <4>1. Len(w) = 1 /\ w[1] \in {"nl", "cr"} /\ ~Pair(w, 0, "cr", "nl")
        BY <2>2 DEF Pair
      <4>2. h = [i \in 1..1 |-> <<"nl">>]
        BY <4>1
      <4> QED
        BY <4>2
    <3> QED
      BY <2>1, <3>1, FlattenOne DEF Translated
  <2>3. CASE w = <<"cr", "nl">>
    <3>1. h = Append(<< <<"nl">> >>, <<>>)
      BY <2>3 DEF Pair
    <3>2. << <<"nl">> >> \in Seq(Seq({"nl"}))
      BY <2>1
    <3>3. FlattenSeq(Append(<< <<"nl">> >>, <<>>)) = FlattenSeq(<< <<"nl">> >>) \o <<>>
      BY <2>1, <3>2, FlattenAppend
    <3>4. FlattenSeq(<< <<"nl">> >>) = <<"nl">>
      BY <2>1, FlattenOne
    <3>5. <<"nl">> \o <<>> = <<"nl">>
      OBVIOUS
    <3>6. Translated(w) = FlattenSeq(h)
      BY DEF Translated
    <3> HIDE DEF h
    <3> QED
      BY <3>1, <3>3, <3>4, <3>5, <3>6
  <2> QED
    BY <2>2, <2>3 DEF LineEnds
<1> QED
  BY <1>2, <1>3, <1>4, <1>5

\* What ends a text that ends in a line break.
LEMMA EndsInBreak ==
  ASSUME NEW S, NEW a \in Seq(S), a # <<>>, a[Len(a)] \in {"nl", "cr"}
  PROVE  \E e \in Seq(S), w \in LineEnds : a = e \o w /\ ~Parts(e, w, "cr", "nl")
<1> DEFINE n == Len(a)
<1>1. n \in 1..n /\ n \in Nat
  OBVIOUS
<1>2. CASE n > 1 /\ a[n - 1] = "cr" /\ a[n] = "nl"
  <2>0. n - 2 \in 0..Len(a)
    BY <1>1, <1>2
  <2>1. PICK e \in Seq(S) : e = SubSeq(a, 1, n - 2) /\ Len(e) = n - 2
    BY <2>0, CutAnywhere
  <2>2. a = e \o <<"cr", "nl">>
    BY <1>2, <2>1
  <2> QED
    BY <2>1, <2>2 DEF LineEnds, Parts
<1>3. CASE ~(n > 1 /\ a[n - 1] = "cr" /\ a[n] = "nl")
  <2>0. n - 1 \in 0..Len(a)
    BY <1>1
  <2>1. PICK e \in Seq(S) : e = SubSeq(a, 1, n - 1) /\ Len(e) = n - 1
    BY <2>0, CutAnywhere
  <2>2. a = e \o <<a[n]>> /\ <<a[n]>> \in LineEnds
    BY <1>1, <2>1 DEF LineEnds
  <2>3. Len(e) = n - 1 /\ (e # <<>> => e[Len(e)] = a[n - 1] /\ n > 1)
    BY <1>1, <2>1
  <2>4. ~Parts(e, <<a[n]>>, "cr", "nl")
    BY <1>3, <2>3 DEF Parts
  <2> QED
    BY <2>2, <2>4
<1> QED
  BY <1>2, <1>3

\* A text that ends in a line break is translated to one that ends in a newline.
LEMMA TranslatedEnds ==
  ASSUME NEW d \in Seq(LogChars), d # <<>>, d[Len(d)] \in {"nl", "cr"},
         NEW t, t = Translated(d)
  PROVE  t # <<>> /\ t[Len(t)] = "nl"
<1>1. PICK e \in Seq(LogChars), w \in LineEnds : d = e \o w /\ ~Parts(e, w, "cr", "nl")
  BY EndsInBreak
<1>2. t = Translated(e) \o <<"nl">>
  BY <1>1, LineEndRead, TranslatedJoin
<1>3. PICK D : D = LogChars \ {"cr"}
  OBVIOUS
<1>4. Translated(e) \in Seq(D)
  BY <1>3, CleanIsLogged, TranslatedOver
<1>5. PICK u \in Seq(D) : u = Translated(e)
  BY <1>4
<1> QED
  BY <1>2, <1>5


\* The lines of a file are those of its text, as many as there are newlines in it or more.
LEMMA FileLines ==
  ASSUME NEW b \in Seq(Symbols), NEW t, t = FileText(b), NEW p, p = LinesOf(b)
  PROVE  /\ t \in Seq(LineChars) /\ p = SplitLines(t) /\ p \in Seq(Seq(LineChars))
         /\ AreLines(p) /\ FlattenSeq(p) = t
         /\ Cardinality(Newlines(t)) \in Nat /\ Cardinality(Newlines(t)) <= Len(p)
<1>1. "nl" \in Clean /\ Decoded(b) \in Seq(Clean)
  BY FileDecodes, CleanIsLogged
<1>2. t \in Seq(LineChars)
  BY <1>1, TranslatedOver DEF FileText, LineChars
<1>3. Translated(t) = t
  BY <1>2, CleanIsLogged, TranslatedSame
<1>4. p = SplitLines(t)
  BY <1>3 DEF LinesOf, SplitLines, FileText
<1> QED
  BY <1>2, <1>4, SplitIs

\* Nothing has no lines.
LEMMA NoLines == Decoded(<<>>) = <<>> /\ LinesOf(<<>>) = <<>>
<1>1. Decoded(<<>>) = <<>>
  <2>1. <<>> \in Seq(Symbols) /\ \A i \in 1..Len(<<>>) : <<>>[i] \notin {"lead", "cont"}
    OBVIOUS
  <2> QED
    BY <2>1, DecodedSame
<1>2. AreLines(<<>>) /\ FlattenSeq(<<>>) = <<>> /\ <<>> \in Seq(Seq(LineChars))
  BY DEF AreLines, FlattenSeq
<1>3. SplitLines(<<>>) = <<>>
  BY <1>2, LinesAre
<1> QED
  BY <1>1, <1>3 DEF LinesOf

\* What a file begins with.
LEMMA DecodedBegins ==
  ASSUME NEW b \in Seq(Symbols), b # <<>>, NEW d, d = Decoded(b)
  PROVE  d \in Seq(LogChars) /\ d # <<>> /\ (d[1] = "nl" => b[1] = "nl")
<1> DEFINE h == [i \in 1..Len(b) |-> CharAt(b, i)]
<1>1. h \in Seq(Seq(Clean)) /\ d \in Seq(Clean)
  BY FileDecodes
<1>2. 1 \in 1..Len(b) /\ h # <<>> /\ h[1] = CharAt(b, 1)
  OBVIOUS
<1>3. PICK x \in Seq(Clean), y \in Seq(Clean) : /\ x = CharAt(b, 1) /\ d = x \o y
  <2> HIDE DEF h
  <2>1. h[1] \in Seq(Clean) /\ FlattenSeq(h) = h[1] \o FlattenSeq(Tail(h)) /\ Tail(h) \in Seq(Seq(Clean))
    BY <1>1, <1>2, FlattenFirst
  <2>2. FlattenSeq(Tail(h)) \in Seq(Clean)
    BY <2>1, FlattenType
  <2>3. d = FlattenSeq(h)
    BY DEF Decoded, h
  <2> QED
    BY <1>2, <2>1, <2>2, <2>3
<1>4. ~Pair(b, 1 - 1, "lead", "cont")
  BY DEF Pair
<1>5. x = <<"u">> \/ x = <<"rep">> \/ x = <<b[1]>>
  BY <1>3, <1>4 DEF CharAt
<1>6. d # <<>> /\ d[1] = x[1]
  <2>1. x # <<>>
    <3> HIDE DEF h
    <3>1. <<"u">> # <<>> /\ <<"rep">> # <<>> /\ <<b[1]>> # <<>>
      OBVIOUS
    <3> QED
      BY <1>5, <3>1, Zenon
  <2> QED
    BY <1>3, <2>1
<1>7. d \in Seq(LogChars)
  BY <1>1, CleanIsLogged
<1> QED
  BY <1>5, <1>6, <1>7

\* A file that ends in a line break decodes to a text that ends in it.
LEMMA DecodedEnds ==
  ASSUME NEW b \in Seq(Symbols), b # <<>>, b[Len(b)] \in {"nl", "cr"}, NEW d, d = Decoded(b)
  PROVE  d \in Seq(LogChars) /\ d # <<>> /\ d[Len(d)] = b[Len(b)]
<1>1. PICK e \in Seq(Symbols), w \in LineEnds : b = e \o w /\ ~Parts(e, w, "cr", "nl")
  BY EndsInBreak
<1>2. /\ w \in Seq(Symbols) /\ w \in Seq(LogChars) /\ w # <<>> /\ w[1] \in {"nl", "cr"}
      /\ Decoded(w) = w
  BY LineEndRead
<1>3. ~Parts(e, w, "lead", "cont")
  BY <1>2 DEF Parts
<1>4. d = Decoded(e) \o w
  BY <1>1, <1>2, <1>3, DecodedJoin
<1>5. PICK f \in Seq(LogChars) : f = Decoded(e)
  <2>1. Decoded(e) \in Seq(Clean)
    BY FileDecodes
  <2> QED
    BY <2>1, CleanIsLogged
<1>6. d \in Seq(LogChars) /\ d # <<>> /\ d[Len(d)] = w[Len(w)]
  BY <1>2, <1>4, <1>5
<1>7. b[Len(b)] = w[Len(w)]
  BY <1>1, <1>2
<1> QED
  BY <1>6, <1>7

\* A file cut between two lines has the lines of both parts.
LEMMA BorderJoins ==
  ASSUME NEW a \in Seq(Symbols), NEW b \in Seq(Symbols), Border(a, b)
  PROVE  LinesOf(a \o b) = LinesOf(a) \o LinesOf(b)
<1>1. CASE a = <<>>
  <2>1. LinesOf(b) \in Seq(Seq(LineChars))
    BY FileLines
  <2>2. a \o b = b
    BY <1>1
  <2>3. LinesOf(a) = <<>>
    BY <1>1, NoLines
  <2> QED
    BY <2>1, <2>2, <2>3
<1>2. CASE a # <<>>
  <2>1. a[Len(a)] \in {"nl", "cr"} /\ ~Parts(a, b, "cr", "nl")
    BY <1>2 DEF Border
  <2>2. ~Parts(a, b, "lead", "cont")
    BY <2>1 DEF Parts
  <2>3. PICK d \in Seq(LogChars) : d = Decoded(a) /\ d # <<>> /\ d[Len(d)] = a[Len(a)]
    BY <1>2, <2>1, DecodedEnds
  <2>4. PICK c \in Seq(LogChars) : c = Decoded(b) /\ (c # <<>> /\ c[1] = "nl" => b # <<>> /\ b[1] = "nl")
    <3>1. CASE b = <<>>
      <4>1. Decoded(b) = <<>>
        BY <3>1, NoLines, Zenon
      <4>2. <<>> \in Seq(LogChars)
        OBVIOUS
      <4> QED
        BY <4>1, <4>2
    <3>2. CASE b # <<>>
      BY <3>2, DecodedBegins
    <3> QED
      BY <3>1, <3>2
  <2>5. ~Parts(d, c, "cr", "nl")
    BY <1>2, <2>1, <2>3, <2>4 DEF Parts
  <2>6. FileText(a \o b) = FileText(a) \o FileText(b)
    BY <2>2, <2>3, <2>4, <2>5, DecodedJoin, TranslatedJoin DEF FileText
  <2>7. PICK s \in Seq(LineChars), t \in Seq(LineChars) :
          /\ s = FileText(a) /\ t = FileText(b)
          /\ LinesOf(a) = SplitLines(s) /\ LinesOf(b) = SplitLines(t)
    BY FileLines
  <2>8. s # <<>> /\ s[Len(s)] = "nl"
    BY <2>1, <2>3, <2>7, TranslatedEnds DEF FileText
  <2>9. LinesOf(a \o b) = SplitLines(s \o t)
    <3>1. a \o b \in Seq(Symbols)
      OBVIOUS
    <3> QED
      BY <2>6, <2>7, <3>1, FileLines
  <2> QED
    BY <2>7, <2>8, <2>9, LinesJoin
<1> QED
  BY <1>1, <1>2


\* The breaks of a block and of the data behind it, joined.
LEMMA BreaksJoined ==
  ASSUME NEW a \in Seq(Symbols), NEW b \in Seq(Symbols), a # <<>>
  PROVE  /\ LineBreaks(a) \in Int /\ LineBreaks(b) \in Int
         /\ LineBreaks(a \o b) = LineBreaks(a) + LineBreaks(b)
              - (IF b # <<>> /\ a[Len(a)] = "cr" /\ b[1] = "nl" THEN 1 ELSE 0)
<1>1. /\ CountOf(a, "nl") \in Nat /\ CountOf(b, "nl") \in Nat
      /\ CountOf(a \o b, "nl") = CountOf(a, "nl") + CountOf(b, "nl")
  BY CountJoined
<1>2. /\ CountOf(a, "cr") \in Nat /\ CountOf(b, "cr") \in Nat
      /\ CountOf(a \o b, "cr") = CountOf(a, "cr") + CountOf(b, "cr")
  BY CountJoined
<1>3. /\ CountPairs(a) \in Nat /\ CountPairs(b) \in Nat
      /\ CountPairs(a \o b) = CountPairs(a) + CountPairs(b)
           + (IF b # <<>> /\ a[Len(a)] = "cr" /\ b[1] = "nl" THEN 1 ELSE 0)
  BY PairsJoined
<1>4. PICK x \in Nat : x = IF b # <<>> /\ a[Len(a)] = "cr" /\ b[1] = "nl" THEN 1 ELSE 0
  OBVIOUS
<1>5. CountPairs(a \o b) = CountPairs(a) + CountPairs(b) + x
  BY <1>3, <1>4, Zenon
<1>6. LineBreaks(a) \in Int /\ LineBreaks(b) \in Int
  BY <1>1, <1>2, <1>3 DEF LineBreaks
<1>7. LineBreaks(a \o b) = LineBreaks(a) + LineBreaks(b) - x
  BY <1>1, <1>2, <1>3, <1>5 DEF LineBreaks
<1> QED
  BY <1>4, <1>6, <1>7, Zenon

\* There is no break in nothing.
LEMMA NoBreaks == LineBreaks(<<>>) = 0
<1>1. \A c : CountOf(<<>>, c) = 0
  <2> SUFFICES ASSUME NEW c PROVE CountOf(<<>>, c) = 0
    OBVIOUS
  <2>1. {i \in 1..Len(<<>>) : <<>>[i] = c} = {}
    OBVIOUS
  <2> QED BY <2>1, FS_EmptySet DEF CountOf
<1>2. CountPairs(<<>>) = 0
  <2>1. {i \in 1..Len(<<>>) : Pair(<<>>, i, "cr", "nl")} = {}
    OBVIOUS
  <2> QED BY <2>1, FS_EmptySet DEF CountPairs
<1> QED
  BY <1>1, <1>2 DEF LineBreaks

\* Bytes without a line break are one line, or none.
LEMMA WithinLine ==
  ASSUME NEW b \in Seq(Symbols \ {"nl", "cr"}), NEW d, d = Decoded(b)
  PROVE  /\ d \in Seq(LineChars \ {"nl"}) /\ Translated(d) = d /\ b \in Seq(Symbols)
         /\ LineBreaks(b) = 0
<1>1. PICK A \in SUBSET Symbols : A = Symbols \ {"nl", "cr"}
  OBVIOUS
<1>2. PICK C : C = (A \ {"lead", "cont"}) \cup {"u"}
  OBVIOUS
<1>3. "rep" \in A /\ C \subseteq LineChars \ {"nl"} /\ "cr" \notin LineChars \ {"nl"}
  BY <1>1, <1>2 DEF LineChars, Clean, Symbols
<1>4. d \in Seq(C)
  BY <1>1, <1>2, <1>3, DecodedOver
<1>5. d \in Seq(LineChars \ {"nl"})
  BY <1>3, <1>4
<1>6. Translated(d) = d
  <2>1. PICK D : D = LineChars \ {"nl"}
    OBVIOUS
  <2> QED
    BY <1>3, <1>5, <2>1, TranslatedSame
<1>7. \A i \in 1..Len(b) : b[i] # "nl" /\ b[i] # "cr"
  OBVIOUS
<1>8. CountOf(b, "nl") = 0 /\ CountOf(b, "cr") = 0 /\ CountPairs(b) = 0
  <2>1. /\ {i \in 1..Len(b) : b[i] = "nl"} = {}
        /\ {i \in 1..Len(b) : b[i] = "cr"} = {}
        /\ {i \in 1..Len(b) : Pair(b, i, "cr", "nl")} = {}
    BY <1>7 DEF Pair
  <2> QED
    BY <2>1, FS_EmptySet DEF CountOf, CountPairs
<1>9. b \in Seq(Symbols)
  OBVIOUS
<1> QED
  BY <1>5, <1>6, <1>8, <1>9 DEF LineBreaks

\* The breaks in the end of a line: one.
LEMMA OneBreak == \A w \in LineEnds : LineBreaks(w) = 1
<1> SUFFICES ASSUME NEW w \in LineEnds PROVE LineBreaks(w) = 1
  OBVIOUS
<1>0. Cardinality({}) = 0 /\ Cardinality({1}) = 1 /\ Cardinality({2}) = 1
  BY FS_EmptySet, FS_Singleton
<1>1. CASE w = <<"nl">>
  <2>1. /\ {i \in 1..Len(w) : w[i] = "nl"} = {1}
        /\ {i \in 1..Len(w) : w[i] = "cr"} = {}
        /\ {i \in 1..Len(w) : Pair(w, i, "cr", "nl")} = {}
    BY <1>1 DEF Pair
  <2>2. CountOf(w, "nl") = 1 /\ CountOf(w, "cr") = 0 /\ CountPairs(w) = 0
    BY <1>0, <2>1, Zenon DEF CountOf, CountPairs
  <2> QED
    BY <2>2 DEF LineBreaks
<1>2. CASE w = <<"cr">>
  <2>1. /\ {i \in 1..Len(w) : w[i] = "nl"} = {}
        /\ {i \in 1..Len(w) : w[i] = "cr"} = {1}
        /\ {i \in 1..Len(w) : Pair(w, i, "cr", "nl")} = {}
    BY <1>2 DEF Pair
  <2>2. CountOf(w, "nl") = 0 /\ CountOf(w, "cr") = 1 /\ CountPairs(w) = 0
    BY <1>0, <2>1, Zenon DEF CountOf, CountPairs
  <2> QED
    BY <2>2 DEF LineBreaks
<1>3. CASE w = <<"cr", "nl">>
  <2>1. /\ {i \in 1..Len(w) : w[i] = "nl"} = {2}
        /\ {i \in 1..Len(w) : w[i] = "cr"} = {1}
        /\ {i \in 1..Len(w) : Pair(w, i, "cr", "nl")} = {1}
    BY <1>3 DEF Pair
  <2>2. CountOf(w, "nl") = 1 /\ CountOf(w, "cr") = 1 /\ CountPairs(w) = 1
    BY <1>0, <2>1, Zenon DEF CountOf, CountPairs
  <2> QED
    BY <2>2 DEF LineBreaks
<1> QED
  BY <1>1, <1>2, <1>3 DEF LineEnds

\* One line: bytes without a break, and the end of it.
LEMMA OneLine ==
  ASSUME NEW b \in Seq(Symbols \ {"nl", "cr"}), NEW w \in LineEnds
  PROVE  /\ b \o w \in Seq(Symbols) /\ b \o w # <<>>
         /\ (b \o w)[Len(b \o w)] = w[Len(w)] /\ w[Len(w)] \in {"nl", "cr"}
         /\ Len(LinesOf(b \o w)) = 1 /\ LineBreaks(b \o w) = 1
<1>1. /\ w \in Seq(Symbols) /\ w \in Seq(LogChars) /\ w # <<>> /\ w[1] \in {"nl", "cr"}
      /\ w[Len(w)] \in {"nl", "cr"} /\ Decoded(w) = w /\ Translated(w) = <<"nl">>
  BY LineEndRead
<1>2. PICK d : d = Decoded(b)
  OBVIOUS
<1>3. /\ b \in Seq(Symbols) /\ LineBreaks(b) = 0 /\ d \in Seq(LineChars \ {"nl"})
      /\ Translated(d) = d
  BY <1>2, WithinLine
<1>4. b \o w \in Seq(Symbols) /\ b \o w # <<>> /\ (b \o w)[Len(b \o w)] = w[Len(w)]
  BY <1>1, <1>3
<1>5. LineBreaks(b \o w) = 1
  <2>1. CASE b = <<>>
    <3>1. b \o w = w
      BY <1>1, <2>1
    <3> QED
      BY <3>1, OneBreak
  <2>2. CASE b # <<>>
    <3>1. b[Len(b)] # "cr"
      BY <2>2
    <3>2. LineBreaks(b \o w) = LineBreaks(b) + LineBreaks(w)
            - (IF w # <<>> /\ b[Len(b)] = "cr" /\ w[1] = "nl" THEN 1 ELSE 0)
      BY <1>1, <1>3, <2>2, BreaksJoined
    <3>3. LineBreaks(w) = 1
      BY OneBreak
    <3> QED
      BY <1>3, <3>1, <3>2, <3>3
  <2> QED
    BY <2>1, <2>2
<1>6. FileText(b \o w) = d \o <<"nl">>
  <2>1. ~Parts(b, w, "lead", "cont")
    BY <1>1 DEF Parts
  <2>2. Decoded(b \o w) = d \o w
    BY <1>1, <1>2, <1>3, <2>1, DecodedJoin
  <2>3. d \in Seq(LogChars) /\ ~Parts(d, w, "cr", "nl")
    BY <1>3, CleanIsLogged DEF Parts
  <2> QED
    BY <1>1, <1>3, <2>2, <2>3, TranslatedJoin DEF FileText
<1>7. PICK x \in Seq(LineChars) : x = d \o <<"nl">> /\ IsLine(x)
  <2>1. d \o <<"nl">> \in Seq(LineChars)
    BY <1>3, CleanIsLogged
  <2>2. /\ Len(d \o <<"nl">>) = Len(d) + 1 /\ Len(d) \in Nat
        /\ \A i \in 1..Len(d) : (d \o <<"nl">>)[i] # "nl"
    BY <1>3
  <2>3. IsLine(d \o <<"nl">>)
    BY <2>1, <2>2 DEF IsLine
  <2> QED
    BY <2>1, <2>3
<1>8. /\ <<x>> \in Seq(Seq(LineChars)) /\ FlattenSeq(<<x>>) = x /\ AreLines(<<x>>)
  <2>1. <<x>> \in Seq(Seq(LineChars)) /\ Len(<<x>>) = 1 /\ <<x>>[1] = x
    OBVIOUS
  <2>2. \A k \in 1..Len(<<x>>) : k = 1 /\ ~(k < Len(<<x>>))
    OBVIOUS
  <2>3. AreLines(<<x>>)
    BY <1>7, <2>1, <2>2 DEF AreLines, IsLine
  <2> QED
    BY <2>1, <2>3, FlattenOne
<1>9. SplitLines(x) = <<x>>
  BY <1>8, LinesAre
<1>10. LinesOf(b \o w) = <<x>>
  BY <1>4, <1>6, <1>7, <1>9, FileLines
<1> QED
  BY <1>1, <1>4, <1>5, <1>10


\* Only an empty file has no lines, and one without a line break has no second.
LEMMA HowManyLines ==
  ASSUME NEW b \in Seq(Symbols), NEW p, p = LinesOf(b)
  PROVE  /\ p \in Seq(Seq(LineChars)) /\ (b # <<>> => p # <<>>)
         /\ b \in Seq(Symbols \ {"nl", "cr"}) => Len(p) <= 1
<1>1. PICK t \in Seq(LineChars) :
        /\ t = FileText(b) /\ p \in Seq(Seq(LineChars)) /\ AreLines(p) /\ FlattenSeq(p) = t
  BY FileLines
<1>2. ASSUME b # <<>> PROVE p # <<>>
  <2>1. PICK d \in Seq(LogChars) : d = Decoded(b) /\ d # <<>>
    BY <1>2, DecodedBegins
  <2> DEFINE h == [i \in 1..Len(d) |-> IF Pair(d, i - 1, "cr", "nl") THEN <<>>
                                       ELSE IF d[i] = "cr" THEN <<"nl">> ELSE <<d[i]>>]
  <2>2. PICK C : C = LogChars
    OBVIOUS
  <2>3. PICK D : D = C \ {"cr"}
    OBVIOUS
  <2>4. h \in Seq(Seq(D))
    BY <2>2, <2>3, CleanIsLogged, TranslatedOver
  <2>5. ~Pair(d, 1 - 1, "cr", "nl")
    BY DEF Pair
  <2>6. 1 \in 1..Len(d) /\ h # <<>>
    BY <2>1
  <2>7. h[1] = IF d[1] = "cr" THEN <<"nl">> ELSE <<d[1]>>
    BY <2>5, <2>6
  <2>8. h[1] # <<>>
    <3>1. <<"nl">> # <<>> /\ <<d[1]>> # <<>>
      OBVIOUS
    <3> QED
      BY <2>7, <3>1, Zenon
  <2>9. t = FlattenSeq(h)
    BY <1>1, <2>1 DEF FileText, Translated
  <2> HIDE DEF h
  <2>10. h[1] \in Seq(D) /\ Tail(h) \in Seq(Seq(D)) /\ t = h[1] \o FlattenSeq(Tail(h))
    BY <2>4, <2>6, <2>9, FlattenFirst
  <2>11. FlattenSeq(Tail(h)) \in Seq(D)
    BY <2>10, FlattenType
  <2>12. t # <<>>
    BY <2>8, <2>10, <2>11
  <2>13. FlattenSeq(<<>>) = <<>>
    BY DEF FlattenSeq
  <2> QED
    BY <1>1, <2>12, <2>13
<1>3. ASSUME b \in Seq(Symbols \ {"nl", "cr"}) PROVE Len(p) <= 1
  <2>1. t \in Seq(LineChars \ {"nl"})
    BY <1>1, <1>3, WithinLine DEF FileText
  <2>2. SUFFICES ASSUME Len(p) > 1 PROVE FALSE
    BY <1>1
  <2>3. PICK x \in Seq(LineChars), y \in Seq(LineChars) : x = p[1] /\ t = x \o y
    <3>1. p # <<>>
      BY <2>2
    <3>2. p[1] \in Seq(LineChars) /\ Tail(p) \in Seq(Seq(LineChars)) /\ t = p[1] \o FlattenSeq(Tail(p))
      BY <1>1, <3>1, FlattenFirst
    <3>3. FlattenSeq(Tail(p)) \in Seq(LineChars)
      BY <3>2, FlattenType
    <3> QED
      BY <3>2, <3>3
  <2>4. 1 \in 1..Len(p)
    BY <1>1, <2>2
  <2>5. x # <<>> /\ x[Len(x)] = "nl"
    <3>1. p[1] # <<>> /\ p[1][Len(p[1])] = "nl"
      BY <1>1, <2>2, <2>4 DEF AreLines
    <3> QED
      BY <2>3, <3>1, Zenon
  <2>6. Len(x) \in 1..Len(t) /\ t[Len(x)] = "nl"
    BY <2>3, <2>5
  <2> QED
    BY <2>1, <2>6
<1> QED
  BY <1>1, <1>2, <1>3

\* A file with a line break is cut behind its first line.
LEMMA FirstLineIs ==
  ASSUME NEW d \in Seq(Symbols), d \notin Seq(Symbols \ {"nl", "cr"})
  PROVE  \E a, b \in Seq(Symbols) : /\ d = a \o b /\ a # <<>> /\ Border(a, b)
                                    /\ Len(LinesOf(a)) = 1 /\ LineBreaks(a) = 1
<1> DEFINE J == {i \in 1..Len(d) : d[i] \in {"nl", "cr"}}
<1>1. J # {}
  OBVIOUS
<1>2. PICK j \in J : \A i \in J : j <= i
  <2>1. J \in SUBSET Nat
    OBVIOUS
  <2> HIDE DEF J
  <2> QED
    BY <1>1, <2>1, NatLeast
<1>3. j \in 1..Len(d) /\ d[j] \in {"nl", "cr"} /\ \A i \in 1..j - 1 : d[i] \notin {"nl", "cr"}
  BY <1>2
<1> HIDE DEF J
<1>4. PICK e \in Seq(Symbols \ {"nl", "cr"}) : e = SubSeq(d, 1, j - 1)
  <2>1. j - 1 \in 0..Len(d)
    BY <1>3
  <2>2. SubSeq(d, 1, j - 1) \in Seq(Symbols) /\ Len(SubSeq(d, 1, j - 1)) = j - 1
    BY <2>1, CutAnywhere
  <2>3. \A i \in 1..j - 1 : SubSeq(d, 1, j - 1)[i] \in Symbols \ {"nl", "cr"}
    BY <1>3
  <2>4. PICK q \in Seq(Symbols) : q = SubSeq(d, 1, j - 1) /\ Len(q) = j - 1
    BY <2>2
  <2>5. \A i \in 1..Len(q) : q[i] \in Symbols \ {"nl", "cr"}
    BY <2>3, <2>4
  <2>6. q \in Seq(Symbols \ {"nl", "cr"})
    BY <2>5
  <2> QED
    BY <2>4, <2>6
<1>5. ASSUME NEW w \in LineEnds, NEW m \in 1..Len(d), SubSeq(d, 1, m) = e \o w,
             ~Pair(d, m, "cr", "nl")
      PROVE  \E a, b \in Seq(Symbols) : /\ d = a \o b /\ a # <<>> /\ Border(a, b)
                                        /\ Len(LinesOf(a)) = 1 /\ LineBreaks(a) = 1
  <2>1. PICK a \in Seq(Symbols), b \in Seq(Symbols) :
          /\ a = SubSeq(d, 1, m) /\ b = SubSeq(d, m + 1, Len(d)) /\ d = a \o b
          /\ Len(a) = m /\ Len(b) = Len(d) - m
    <3>1. m \in 0..Len(d)
      OBVIOUS
    <3>2. /\ SubSeq(d, 1, m) \in Seq(Symbols) /\ SubSeq(d, m + 1, Len(d)) \in Seq(Symbols)
          /\ Len(SubSeq(d, 1, m)) = m /\ Len(SubSeq(d, m + 1, Len(d))) = Len(d) - m
          /\ d = SubSeq(d, 1, m) \o SubSeq(d, m + 1, Len(d))
      BY <3>1, CutAnywhere
    <3> QED
      BY <3>2
  <2>2. /\ a # <<>> /\ a[Len(a)] \in {"nl", "cr"}
        /\ Len(LinesOf(a)) = 1 /\ LineBreaks(a) = 1
    BY <1>5, <2>1, OneLine
  <2>3. a[Len(a)] = d[m] /\ (b # <<>> => b[1] = d[m + 1] /\ m < Len(d))
    BY <2>1
  <2>4. Border(a, b)
    BY <1>5, <2>2, <2>3 DEF Border, Parts, Pair
  <2> QED
    BY <2>1, <2>2, <2>4
<1>6. CASE Pair(d, j, "cr", "nl")
  <2>1. /\ j + 1 \in 1..Len(d) /\ d[j] = "cr" /\ d[j + 1] = "nl"
        /\ ~Pair(d, j + 1, "cr", "nl")
    BY <1>6 DEF Pair
  <2>2. SubSeq(d, 1, j + 1) = e \o <<"cr", "nl">>
    BY <1>3, <1>4, <2>1
  <2> QED
    BY <1>5, <2>1, <2>2 DEF LineEnds
<1>7. CASE ~Pair(d, j, "cr", "nl")
  <2>1. SubSeq(d, 1, j) = e \o <<d[j]>> /\ <<d[j]>> \in LineEnds
    BY <1>3, <1>4 DEF LineEnds
  <2> QED
    BY <1>3, <1>5, <1>7, <2>1
<1> QED
  BY <1>6, <1>7

\* The end of a file has the file's last lines, but for its first, which may be cut.
LEMMA SuffixLines ==
  ASSUME NEW a \in Seq(Symbols), NEW d \in Seq(Symbols), d # <<>>
  PROVE  \E P \in Seq(Seq(LineChars)) : LinesOf(a \o d) = P \o Tail(LinesOf(d))
<1>0. \A n \in Nat : n # 0 /\ n <= 1 => n = 1
  OBVIOUS
<1>1. PICK p \in Seq(Seq(LineChars)) : p = LinesOf(d) /\ p # <<>>
  BY HowManyLines
<1>2. \A b \in Seq(Symbols) : LinesOf(b) \in Seq(Seq(LineChars))
  BY HowManyLines
<1>3. CASE d \in Seq(Symbols \ {"nl", "cr"})
  <2>1. Len(p) <= 1
    BY <1>1, <1>3, HowManyLines
  <2>2. Tail(p) = <<>>
    <3>1. Len(p) = 1
      <4>1. Len(p) \in Nat /\ Len(p) # 0
        BY <1>1, EmptyIs
      <4> QED
        BY <1>0, <2>1, <4>1, Zenon
    <3>2. Tail(p) \in Seq(Seq(LineChars)) /\ Len(Tail(p)) = 0
      BY <1>1, <3>1, FlattenFirst
    <3> QED
      BY <3>2, EmptyIs
  <2>3. a \o d \in Seq(Symbols)
    OBVIOUS
  <2>4. PICK P \in Seq(Seq(LineChars)) : P = LinesOf(a \o d)
    BY <1>2, <2>3
  <2>5. P \o <<>> = P
    OBVIOUS
  <2> QED
    BY <1>1, <2>2, <2>4, <2>5
<1>4. CASE d \notin Seq(Symbols \ {"nl", "cr"})
  <2>1. PICK x \in Seq(Symbols), y \in Seq(Symbols) :
          d = x \o y /\ x # <<>> /\ Border(x, y) /\ Len(LinesOf(x)) = 1
    BY <1>4, FirstLineIs
  <2>2. PICK u \in Seq(Seq(LineChars)), v \in Seq(Seq(LineChars)) :
          u = LinesOf(x) /\ v = LinesOf(y)
    BY <1>2
  <2>3. p = u \o v
    BY <1>1, <2>1, <2>2, BorderJoins
  <2>4. Tail(p) = v
    <3>1. Len(u) = 1
      BY <2>1, <2>2
    <3>2. Tail(u \o v) = v
      BY <3>1, TailOfConcat
    <3> QED
      BY <2>3, <3>2
  <2>5. PICK z \in Seq(Symbols) : z = a \o x
    <3>1. a \o x \in Seq(Symbols)
      OBVIOUS
    <3> QED
      BY <3>1
  <2>6. z # <<>> /\ z[Len(z)] = x[Len(x)]
    BY <2>1, <2>5
  <2>7. Border(z, y)
    BY <2>1, <2>6 DEF Border, Parts
  <2>8. a \o d = z \o y
    BY <2>1, <2>5, ConcatAssociative
  <2>9. LinesOf(a \o d) = LinesOf(z) \o v
    BY <2>2, <2>7, <2>8, BorderJoins
  <2> QED
    BY <1>1, <1>2, <2>4, <2>5, <2>9
<1> QED
  BY <1>3, <1>4

\* There are no more breaks in a file than lines.
LEMMA FewBreaks ==
  ASSUME NEW b \in Seq(Symbols)
  PROVE  LineBreaks(b) \in Int /\ LineBreaks(b) <= Len(LinesOf(b))
<1> DEFINE n == Len(b)
           T == {k \in 0..n : \A d \in Seq(Symbols) : Len(d) <= k =>
                    LineBreaks(d) \in Int /\ LineBreaks(d) <= Len(LinesOf(d))}
<1>0. n \in Nat
  OBVIOUS
<1>1. 0 \in T
  <2> SUFFICES ASSUME NEW d \in Seq(Symbols), Len(d) <= 0
               PROVE  LineBreaks(d) \in Int /\ LineBreaks(d) <= Len(LinesOf(d))
    BY <1>0
  <2>1. d = <<>>
    OBVIOUS
  <2> QED
    BY <2>1, NoBreaks, NoLines
<1>2. ASSUME NEW k \in 0..n - 1, k \in T PROVE k + 1 \in T
  <2> SUFFICES ASSUME NEW d \in Seq(Symbols), Len(d) <= k + 1
               PROVE  LineBreaks(d) \in Int /\ LineBreaks(d) <= Len(LinesOf(d))
    OBVIOUS
  <2>1. CASE d \in Seq(Symbols \ {"nl", "cr"})
    <3>1. LineBreaks(d) = 0 /\ LinesOf(d) \in Seq(Seq(LineChars))
      BY <2>1, WithinLine, HowManyLines
    <3> QED
      BY <3>1
  <2>2. CASE d \notin Seq(Symbols \ {"nl", "cr"})
    <3>1. PICK x \in Seq(Symbols), y \in Seq(Symbols) :
            /\ d = x \o y /\ x # <<>> /\ Border(x, y)
            /\ Len(LinesOf(x)) = 1 /\ LineBreaks(x) = 1
      BY <2>2, FirstLineIs
    <3>2. Len(y) <= k
      BY <3>1
    <3>3. LineBreaks(y) \in Int /\ LineBreaks(y) <= Len(LinesOf(y))
      BY <1>2, <3>2
    <3>4. LineBreaks(d) = LineBreaks(x) + LineBreaks(y)
            - (IF y # <<>> /\ x[Len(x)] = "cr" /\ y[1] = "nl" THEN 1 ELSE 0)
      BY <3>1, BreaksJoined
    <3>5. ~(y # <<>> /\ x[Len(x)] = "cr" /\ y[1] = "nl")
      BY <3>1 DEF Border, Parts
    <3>6. LineBreaks(d) = 1 + LineBreaks(y)
      BY <3>1, <3>3, <3>4, <3>5
    <3>7. PICK u \in Seq(Seq(LineChars)), v \in Seq(Seq(LineChars)) :
            u = LinesOf(x) /\ v = LinesOf(y)
      BY HowManyLines
    <3>8. LinesOf(d) = u \o v
      BY <3>1, <3>7, BorderJoins
    <3>9. Len(LinesOf(d)) = 1 + Len(LinesOf(y))
      <4>1. Len(u) = 1 /\ Len(u \o v) = Len(u) + Len(v)
        BY <3>1, <3>7
      <4> QED
        BY <3>7, <3>8, <4>1
    <3> QED
      BY <3>3, <3>6, <3>7, <3>9
  <2> QED
    BY <2>1, <2>2
<1> HIDE DEF T, n
<1>3. n \in T
  BY <1>0, <1>1, <1>2, CountUp
<1> QED
  BY <1>0, <1>3 DEF T, n


\* The end of a file that begins between two lines has fewer lines than a longer end.
LEMMA FewerLines ==
  ASSUME NEW b \in Seq(Symbols), NEW i \in 0..Len(b), NEW j \in i + 1..Len(b), LineBegins(b, j),
         NEW d, d = SubSeq(b, i + 1, Len(b)), NEW f, f = SubSeq(b, j + 1, Len(b))
  PROVE  Len(LinesOf(f)) # Len(LinesOf(d))
<1>1. i \in Nat /\ j \in 1..Len(b) /\ i < j /\ j # 0
  OBVIOUS
<1>2. PICK g \in Seq(Symbols) :
        /\ g = SubSeq(b, i + 1, j) /\ Len(g) = j - i /\ g[j - i] = b[j]
  <2>1. /\ SubSeq(b, i + 1, j) \in Seq(Symbols) /\ Len(SubSeq(b, i + 1, j)) = j - i
        /\ SubSeq(b, i + 1, j)[j - i] = b[j]
    BY <1>1
  <2> QED
    BY <2>1
<1>3. /\ f \in Seq(Symbols) /\ (f # <<>> => f[1] = b[j + 1] /\ j < Len(b))
      /\ d \in Seq(Symbols)
  BY <1>1
<1>4. d = g \o f
  <2>1. i + 1 \in 1..Len(b) + 1 /\ j \in (i + 1) - 1..Len(b) /\ Len(b) \in j..Len(b)
    BY <1>1
  <2> QED
    BY <1>2, <2>1, ConcatAdjacentSubSeq
<1>5. g # <<>> /\ g[Len(g)] = b[j]
  <2>1. Len(g) # 0
    BY <1>1, <1>2
  <2> QED
    BY <1>2, <2>1, EmptyIs
<1>6. Border(g, f)
  BY <1>1, <1>3, <1>5 DEF LineBegins, Border, Parts, Pair
<1>7. LinesOf(d) = LinesOf(g) \o LinesOf(f)
  BY <1>2, <1>3, <1>4, <1>6, BorderJoins
<1>8. PICK p \in Seq(Seq(LineChars)), q \in Seq(Seq(LineChars)) :
        p = LinesOf(g) /\ p # <<>> /\ q = LinesOf(f)
  <2>1. LinesOf(g) \in Seq(Seq(LineChars)) /\ LinesOf(g) # <<>>
    BY <1>5, HowManyLines
  <2>2. LinesOf(f) \in Seq(Seq(LineChars))
    BY <1>3, HowManyLines
  <2> QED
    BY <2>1, <2>2
<1>9. Len(p \o q) = Len(p) + Len(q) /\ Len(p) \in Nat /\ Len(q) \in Nat
  BY ConcatIs
<1>10. Len(p) # 0
  BY <1>8, EmptyIs
<1>11. \A m, n \in Nat : m # 0 => n # m + n
  OBVIOUS
<1> QED
  BY <1>7, <1>8, <1>9, <1>10, <1>11, Zenon

\* The last elements of a sequence: those of its end, or all.
LEMMA LastOfEnd ==
  ASSUME NEW S, NEW p \in Seq(S), NEW q \in Seq(S), NEW n \in 0..Len(q)
  PROVE  LastOf(p \o q, n) = LastOf(q, n)
<1>1. PICK r \in Seq(S) : r = p \o q /\ Len(r) = Len(p) + Len(q)
                          /\ \A j \in 1..Len(q) : r[Len(p) + j] = q[j]
  <2>1. /\ p \o q \in Seq(S) /\ Len(p \o q) = Len(p) + Len(q)
        /\ \A j \in 1..Len(q) : (p \o q)[Len(p) + j] = q[j]
    BY ConcatIs
  <2> QED
    BY <2>1
<1> DEFINE x == IF Len(r) > n THEN Len(r) - n + 1 ELSE 1
           y == IF Len(q) > n THEN Len(q) - n + 1 ELSE 1
<1>2. /\ x \in 1..Len(r) + 1 /\ y \in 1..Len(q) + 1 /\ x = Len(p) + y
      /\ Len(r) - x + 1 = n /\ Len(q) - y + 1 = n
  BY <1>1
<1> HIDE DEF x, y
<1>3. /\ SubSeq(r, x, Len(r)) \in Seq(S) /\ Len(SubSeq(r, x, Len(r))) = n
      /\ \A k \in 1..n : SubSeq(r, x, Len(r))[k] = r[x + k - 1]
  BY <1>2
<1>4. /\ SubSeq(q, y, Len(q)) \in Seq(S) /\ Len(SubSeq(q, y, Len(q))) = n
      /\ \A k \in 1..n : SubSeq(q, y, Len(q))[k] = q[y + k - 1]
  BY <1>2
<1>5. ASSUME NEW k \in 1..n PROVE r[x + k - 1] = q[y + k - 1]
  <2>1. y + k - 1 \in 1..Len(q) /\ x + k - 1 = Len(p) + (y + k - 1)
    BY <1>2
  <2> QED
    BY <1>1, <2>1
<1>6. SubSeq(r, x, Len(r)) = SubSeq(q, y, Len(q))
  BY <1>3, <1>4, <1>5, SeqEqual
<1> QED
  BY <1>1, <1>6 DEF LastOf, x, y

\* Of no more than n elements the last n are all.
LEMMA LastOfAll ==
  ASSUME NEW S, NEW q \in Seq(S), NEW n \in Nat, Len(q) <= n
  PROVE  LastOf(q, n) = q
<1>1. ~(Len(q) > n)
  OBVIOUS
<1>2. SubSeq(q, 1, Len(q)) = q
  OBVIOUS
<1> QED
  BY <1>1, <1>2 DEF LastOf


\* A sequence of one element is the whole of itself.
LEMMA OneIs == \A y : Len(<<y>>) = 1 /\ SubSeq(<<y>>, 1, 1) = <<y>>
<1> SUFFICES ASSUME NEW y PROVE Len(<<y>>) = 1 /\ SubSeq(<<y>>, 1, 1) = <<y>>
  OBVIOUS
<1>1. <<y>> \in Seq({y}) /\ Len(<<y>>) = 1
  OBVIOUS
<1> QED
  BY <1>1, WholePrefix

\* What TailIsTrue says, of a file b and a tail t.
Fits(b, n) ==
  \E i \in 0..Len(b) : /\ LineBegins(b, i) /\ Len(b) - i < MaxBytes
                       /\ Len(LinesOf(SubSeq(b, i + 1, Len(b)))) = n
IsTail(b, t, k) ==
  /\ k < TailLines /\ k < Len(LinesOf(b)) => ~Fits(b, k + 1) /\ Len(b) > MaxBytes
  /\ IF k = 0 /\ b # <<>>
     THEN t = <<<<"mark">> \o FileText(LastOf(b, MaxBytes))>>
     ELSE t = LastOf(LinesOf(b), k)

\* A budget that is spent is not enough for as many lines as were begun.
LEMMA NotFit ==
  ASSUME NEW b \in Seq(Symbols), NEW i \in 1..Len(b), NEW d, d = SubSeq(b, i + 1, Len(b)),
         Len(d) = MaxBytes
  PROVE  /\ ~Fits(b, Len(LinesOf(d))) /\ Len(b) > MaxBytes
         /\ d = LastOf(b, MaxBytes)
<1>1. Len(d) = Len(b) - i /\ MaxBytes \in Nat /\ Len(b) \in Nat
  BY TailAssumption
<1>2. i = Len(b) - MaxBytes /\ Len(b) > MaxBytes
  BY <1>1
<1>3. d = LastOf(b, MaxBytes)
  BY <1>2 DEF LastOf
<1>4. ASSUME NEW j \in 0..Len(b), LineBegins(b, j), Len(b) - j < MaxBytes,
             Len(LinesOf(SubSeq(b, j + 1, Len(b)))) = Len(LinesOf(d))
      PROVE  FALSE
  <2>1. i \in 0..Len(b) /\ j \in i + 1..Len(b)
    BY <1>1, <1>2, <1>4
  <2> QED
    BY <1>4, <2>1, FewerLines
<1> QED
  BY <1>2, <1>3, <1>4 DEF Fits

\* The tail cut from what was read when the loop ends: at the begin of the file, with
\* nothing left of the budget x, or with more breaks than lines are wanted.
LEMMA CutIs ==
  ASSUME NEW b \in Seq(Symbols), NEW i \in 0..Len(b), NEW d, d = SubSeq(b, i + 1, Len(b)),
         NEW x \in Nat, Len(d) + x = MaxBytes,
         i = 0 \/ x = 0 \/ LineBreaks(d) > TailLines,
         NEW q, q = LinesOf(d), NEW c,
         c = IF i = 0 \/ q = <<>> THEN q
             ELSE IF Len(q) > 1 THEN Tail(q) ELSE <<<<"mark">> \o q[1]>>
  PROVE  \E k \in 0..TailLines : IsTail(b, LastOf(c, TailLines), k)
<1>0. TailLines \in Nat \ {0} /\ MaxBytes \in Nat \ {0}
  BY TailAssumption
<1>1. d \in Seq(Symbols) /\ Len(d) = Len(b) - i /\ Len(b) \in Nat
  OBVIOUS
<1>2. q \in Seq(Seq(LineChars)) /\ Len(q) \in Nat
  BY <1>1, HowManyLines, EmptyIs
<1>3. CASE i = 0
  <2>1. d = b
    BY <1>3
  <2>2. c = LinesOf(b)
    BY <1>3, <2>1
  <2>3. TailLines \in 0..TailLines /\ TailLines # 0 /\ ~(TailLines < TailLines)
    BY <1>0
  <2>4. IsTail(b, LastOf(c, TailLines), TailLines)
    BY <2>2, <2>3, Zenon DEF IsTail
  <2> QED
    BY <2>3, <2>4
<1>4. CASE i # 0
  <2>1. d # <<>>
    <3>1. SUFFICES ASSUME d = <<>> PROVE FALSE
      OBVIOUS
    <3>2. LineBreaks(d) = 0
      BY <3>1, NoBreaks
    <3>3. Len(d) = 0
      BY <1>1, <3>1, EmptyIs
    <3>4. x # 0 /\ ~(LineBreaks(d) > TailLines)
      BY <1>0, <3>2, <3>3
    <3> QED
      BY <1>4, <3>4, Zenon
  <2>2. q # <<>> /\ Len(q) # 0
    BY <1>1, <1>2, <2>1, HowManyLines, EmptyIs
  <2>3. LineBreaks(d) \in Int /\ LineBreaks(d) <= Len(q)
    BY <1>1, FewBreaks
  <2>4. Len(q) <= TailLines => x = 0
    BY <1>0, <1>2, <1>4, <2>3
  <2>5. Len(q) <= TailLines => /\ ~Fits(b, Len(q)) /\ Len(b) > MaxBytes
                               /\ d = LastOf(b, MaxBytes)
    <3> SUFFICES ASSUME Len(q) <= TailLines
                 PROVE  ~Fits(b, Len(q)) /\ Len(b) > MaxBytes /\ d = LastOf(b, MaxBytes)
      OBVIOUS
    <3>1. Len(d) = MaxBytes /\ i \in 1..Len(b)
      BY <1>0, <1>1, <1>4, <2>4
    <3> QED
      BY <3>1, NotFit
  <2>6. CASE Len(q) = 1
    <3>0. ~(1 > 1) /\ ~(1 > TailLines) /\ 1 <= TailLines /\ 0 + 1 = 1 /\ 0 \in 0..TailLines
      BY <1>0
    <3>1. c = <<<<"mark">> \o q[1]>>
      BY <1>4, <2>2, <2>6, <3>0, Zenon
    <3>2. LastOf(c, TailLines) = c
      <4>1. \A y : Len(<<y>>) = 1 /\ SubSeq(<<y>>, 1, 1) = <<y>>
        BY OneIs
      <4>2. Len(c) = 1 /\ SubSeq(c, 1, 1) = c
        BY <3>1, <4>1, Zenon
      <4>3. ~(Len(c) > TailLines)
        BY <3>0, <4>2, Zenon
      <4> QED
        BY <4>2, <4>3, Zenon DEF LastOf
    <3>3. q[1] = FileText(d)
      <4>1. q = <<q[1]>> /\ q[1] \in Seq(LineChars)
        BY <1>2, <2>6
      <4>2. FlattenSeq(q) = q[1]
        BY <4>1, FlattenOne
      <4> QED
        BY <1>1, <4>2, FileLines
    <3>4. ~Fits(b, 0 + 1) /\ Len(b) > MaxBytes /\ d = LastOf(b, MaxBytes)
      BY <2>5, <2>6, <3>0, Zenon
    <3>5. b # <<>>
      BY <1>1, <2>1
    <3>6. IsTail(b, c, 0)
      BY <3>1, <3>3, <3>4, <3>5, Zenon DEF IsTail
    <3> QED
      BY <3>0, <3>2, <3>6, Zenon
  <2>7. CASE Len(q) # 1
    <3>1. Len(q) > 1 /\ c = Tail(q)
      BY <1>2, <1>4, <2>2, <2>7
    <3>2. c \in Seq(Seq(LineChars)) /\ Len(c) = Len(q) - 1 /\ Len(c) \in Nat
      BY <1>2, <2>2, <3>1, FlattenFirst
    <3>3. PICK P \in Seq(Seq(LineChars)) : LinesOf(b) = P \o c
      <4>1. SubSeq(b, 1, i) \in Seq(Symbols) /\ b = SubSeq(b, 1, i) \o d
        BY CutAnywhere
      <4> QED
        BY <1>1, <2>1, <3>1, <4>1, SuffixLines
    <3>4. \A n \in 0..Len(c) : LastOf(P \o c, n) = LastOf(c, n)
      <4>1. \A v \in Seq(Seq(LineChars)) : \A n \in 0..Len(v) : LastOf(P \o v, n) = LastOf(v, n)
        BY LastOfEnd
      <4> QED
        BY <3>2, <4>1, Zenon
    <3>a. \A n \in Nat : Len(c) <= n => LastOf(c, n) = c
      <4>1. \A v \in Seq(Seq(LineChars)) : \A n \in Nat : Len(v) <= n => LastOf(v, n) = v
        BY LastOfAll
      <4> QED
        BY <3>2, <4>1, Zenon
    <3>b. \A m, n, l \in Nat : m < n /\ l > 1 /\ m = l - 1 =>
            /\ m \in 0..m /\ m \in 0..n /\ m # 0 /\ m + 1 = l /\ l <= n /\ m <= n /\ m <= m
      OBVIOUS
    <3>5. CASE Len(c) >= TailLines
      <4>1. TailLines \in 0..Len(c) /\ TailLines \in 0..TailLines /\ ~(TailLines < TailLines)
            /\ TailLines # 0
        BY <1>0, <3>2, <3>5
      <4>2. IsTail(b, LastOf(c, TailLines), TailLines)
        BY <3>3, <3>4, <4>1, Zenon DEF IsTail
      <4> QED
        BY <4>1, <4>2
    <3>6. CASE Len(c) < TailLines
      <4>1. PICK k \in Nat : k = Len(c)
        BY <3>2
      <4>2. k \in 0..Len(c) /\ k \in 0..TailLines /\ k # 0 /\ k + 1 = Len(q) /\ Len(q) <= TailLines
        BY <1>0, <1>2, <3>1, <3>2, <3>6, <3>b, <4>1, Zenon
      <4>3. ~Fits(b, k + 1) /\ Len(b) > MaxBytes
        BY <2>5, <4>2
      <4>4. LastOf(c, TailLines) = c /\ LastOf(c, k) = c
        BY <1>0, <1>2, <3>1, <3>2, <3>6, <3>a, <3>b, <4>1, Zenon
      <4>5. IsTail(b, LastOf(c, TailLines), k)
        BY <3>3, <3>4, <4>2, <4>3, <4>4, Zenon DEF IsTail
      <4> QED
        BY <4>2, <4>5
    <3> QED
      BY <1>0, <3>2, <3>5, <3>6
  <2> QED
    BY <2>6, <2>7
<1> QED
  BY <1>3, <1>4

-----------------------------------------------------------------------------
(* The loop.                                                               *)

\* One block more: the data is still the end of the file, the budget pays for it, and
\* the count is that of the joined data.
LEMMA BlockStep ==
  ASSUME TailHolds, TailBlock
  PROVE  TailHolds'
<1> DEFINE block == SubSeq(bytes, pos - StepSize + 1, pos)
<1>1. /\ bytes \in Seq(Symbols) /\ Len(bytes) \in Nat /\ pos \in 0..Len(bytes)
      /\ budget \in 0..MaxBytes /\ MaxBytes \in Nat
  BY TailAssumption DEF TailHolds
<1>2. StepSize \in 1..pos /\ StepSize <= budget
  BY <1>1, TailAssumption DEF TailBlock, MoreWanted, StepSize, Smaller
<1>3. /\ data' = block \o data /\ bytes' = bytes /\ pos' = pos - StepSize
      /\ budget' = budget - StepSize /\ tailPc' = tailPc /\ tailPc = "reading"
      /\ breaks' = breaks + LineBreaks(block) - SplitPair(block)
  BY DEF TailBlock
<1>4. pos' \in 0..Len(bytes) /\ budget' \in 0..MaxBytes
  BY <1>1, <1>2, <1>3
<1>5. \A i \in pos - StepSize + 1..pos : i \in 1..Len(bytes) /\ bytes[i] \in Symbols
  BY <1>1, <1>2
<1>6. block \in Seq(Symbols) /\ Len(block) = StepSize
  <2>1. pos - StepSize + 1 \in Int /\ pos \in Int /\ pos - StepSize + 1 <= pos + 1
        /\ pos - (pos - StepSize + 1) + 1 = StepSize
    BY <1>1, <1>2
  <2> QED
    BY <1>1, <1>2, <1>5, <2>1, SubSeqProperties
<1>7. block # <<>>
  <2>1. Len(block) > 0
    BY <1>1, <1>2, <1>6
  <2> HIDE DEF block
  <2> QED BY <2>1
<1>8. data \in Seq(Symbols)
  <2>1. data = SubSeq(bytes, pos + 1, Len(bytes))
    BY DEF TailHolds
  <2>2. \A i \in pos + 1..Len(bytes) : bytes[i] \in Symbols
    BY <1>1
  <2> QED
    BY <1>1, <2>1, <2>2, SubSeqProperties
<1>9. data' = SubSeq(bytes, pos' + 1, Len(bytes))
  <2>1. /\ pos - StepSize + 1 \in 1..Len(bytes) + 1
        /\ pos \in (pos - StepSize + 1) - 1..Len(bytes)
        /\ Len(bytes) \in pos..Len(bytes)
    BY <1>1, <1>2
  <2>2. block \o SubSeq(bytes, pos + 1, Len(bytes)) = SubSeq(bytes, pos - StepSize + 1, Len(bytes))
    BY <1>1, <2>1, ConcatAdjacentSubSeq
  <2>3. pos' + 1 = pos - StepSize + 1
    BY <1>1, <1>2, <1>3
  <2> QED BY <1>3, <2>2, <2>3 DEF TailHolds
<1> HIDE DEF block
<1>10. Len(data') + budget' = MaxBytes
  <2>1. Len(data') = StepSize + Len(data) /\ Len(data) \in Nat
    <3>1. Len(block \o data) = Len(block) + Len(data) /\ Len(data) \in Nat
      BY <1>6, <1>8
    <3> QED BY <1>3, <1>6, <3>1
  <2>2. Len(data) + budget = MaxBytes
    BY DEF TailHolds
  <2> QED BY <1>1, <1>2, <1>3, <2>1, <2>2
<1>11. breaks' = LineBreaks(data')
  <2>1. /\ LineBreaks(block) \in Int /\ LineBreaks(data) \in Int
        /\ LineBreaks(block \o data) = LineBreaks(block) + LineBreaks(data) - SplitPair(block)
    BY <1>6, <1>7, <1>8, BreaksJoined DEF SplitPair
  <2>2. SplitPair(block) \in Int
    BY DEF SplitPair
  <2>3. breaks = LineBreaks(data)
    BY DEF TailHolds
  <2> QED BY <1>3, <2>1, <2>2, <2>3
<1>12. bytes' \in Seq(Symbols) /\ pos' \in 0..Len(bytes') /\ budget' \in 0..MaxBytes
  BY <1>1, <1>3, <1>4
<1> QED
  BY <1>3, <1>9, <1>10, <1>11, <1>12 DEF TailHolds

\* Opening a file: nothing of it is read.
LEMMA OpenStep ==
  ASSUME TailHolds, NEW file \in Seq(Symbols), TailOpen(file)
  PROVE  TailHolds'
<1>1. /\ bytes' = file /\ pos' = Len(file) /\ tailPc' = "reading" /\ tailPc = "idle"
      /\ data' = data /\ breaks' = breaks /\ budget' = budget
  BY DEF TailOpen
<1>2. data = <<>> /\ breaks = LineBreaks(data)
      /\ Len(data) + budget = MaxBytes /\ budget \in 0..MaxBytes
  BY <1>1 DEF TailHolds
<1>3. SubSeq(file, Len(file) + 1, Len(file)) = <<>>
  BY SubSeqEmpty
<1> QED
  BY <1>1, <1>2, <1>3 DEF TailHolds

\* The loop's end: what is cut from the blocks read is the tail of the file.
LEMMA CutStep ==
  ASSUME TailHolds, TailCut
  PROVE  TailIsTrue'
<1>1. /\ bytes \in Seq(Symbols) /\ pos \in 0..Len(bytes) /\ budget \in Nat
      /\ data = SubSeq(bytes, pos + 1, Len(bytes)) /\ Len(data) + budget = MaxBytes
      /\ breaks = LineBreaks(data)
  BY TailAssumption DEF TailHolds
<1>2. ~MoreWanted /\ bytes' = bytes /\ tail' = LastOf(Cut(LinesOf(data)), TailLines)
  BY DEF TailCut, LinesOf
<1>3. pos = 0 \/ budget = 0 \/ LineBreaks(data) > TailLines
  <2>1. data \in Seq(Symbols)
    BY <1>1
  <2>2. LineBreaks(data) \in Int
    BY <2>1, FewBreaks
  <2> QED
    BY <1>1, <1>2, <2>2, TailAssumption DEF MoreWanted
<1>4. PICK q : q = LinesOf(data)
  OBVIOUS
<1>5. PICK c : /\ c = Cut(q)
               /\ c = IF pos = 0 \/ q = <<>> THEN q
                      ELSE IF Len(q) > 1 THEN Tail(q) ELSE <<<<"mark">> \o q[1]>>
  BY Zenon DEF Cut
<1>6. \E k \in 0..TailLines : IsTail(bytes, LastOf(c, TailLines), k)
  BY <1>1, <1>3, <1>4, <1>5, CutIs
<1>7. \E k \in 0..TailLines : IsTail(bytes', tail', k)
  BY <1>2, <1>4, <1>5, <1>6, Zenon
<1> QED
  BY <1>7 DEF TailIsTrue, IsTail, Fits, LastFit, FileText

\* get_tail, on a file of any size: what it holds in memory is the end of the file, at
\* most max_bytes of it, and the breaks it has counted are those of what it holds, also
\* when a "\r\n" is cut by the border of two blocks.
THEOREM TailBounded == TailSpec => []TailHolds
<1>1. TailInit => TailHolds
  BY NoBreaks, TailAssumption DEF TailInit, TailHolds
<1>2. TailHolds /\ [TailNext]_tailVars => TailHolds'
  <2> SUFFICES ASSUME TailHolds, [TailNext]_tailVars PROVE TailHolds'
    OBVIOUS
  <2>1. ASSUME NEW file \in Seq(Symbols), TailOpen(file) PROVE TailHolds'
    BY <2>1, OpenStep
  <2>2. CASE TailBlock
    BY <2>2, BlockStep
  <2>3. CASE TailCut
    BY <2>3 DEF TailCut, TailHolds
  <2>4. CASE UNCHANGED tailVars
    BY <2>4 DEF tailVars, TailHolds
  <2> QED
    BY <2>1, <2>2, <2>3, <2>4 DEF TailNext
<1> QED
  BY <1>1, <1>2, PTL DEF TailSpec

\* What get_tail returns, of a file of any size: the last lines asked for, or as many
\* of them as the budget allows to be read whole, or the marked end of the last one.  A
\* character, a "\r\n" or a line cut by a block or by the budget changes none of it.
THEOREM TailIsTheEnd == TailSpec => []TailIsTrue
<1>1. TailInit => TailIsTrue
  BY DEF TailInit, TailIsTrue
<1>2. TailHolds /\ TailIsTrue /\ [TailNext]_tailVars => TailIsTrue'
  <2> SUFFICES ASSUME TailHolds, TailIsTrue, [TailNext]_tailVars PROVE TailIsTrue'
    OBVIOUS
  <2>1. ASSUME NEW file \in Seq(Symbols), TailOpen(file) PROVE TailIsTrue'
    BY <2>1 DEF TailOpen, TailIsTrue
  <2>2. CASE TailBlock
    BY <2>2 DEF TailBlock, TailIsTrue
  <2>3. CASE TailCut
    BY <2>3, CutStep
  <2>4. CASE UNCHANGED tailVars
    BY <2>4 DEF tailVars, TailIsTrue, LastFit
  <2> QED
    BY <2>1, <2>2, <2>3, <2>4 DEF TailNext
<1> QED
  BY <1>1, <1>2, TailBounded, PTL DEF TailSpec
=============================================================================
