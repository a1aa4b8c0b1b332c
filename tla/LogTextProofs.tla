---------------------------- MODULE LogTextProofs ----------------------------
(***************************************************************************)
(* The log of a stream is its text, for any input of any length, any size  *)
(* of the reads and any limit on a pending line; and the class of a        *)
(* failure is of the last lines of that text, for any block size, budget   *)
(* and number of lines of the tail.                                        *)
(*                                                                         *)
(* The text operators of TextLines are FlattenSeq of a sequence of short   *)
(* ones, each of which depends on a symbol and its neighbour, so they are  *)
(* additive over a cut that parts no pair.  The invariant follows the      *)
(* bytes through the decoders, the carry and the log.  Encoding the log    *)
(* and reading it back gives the same text (EncodedReadsBack), so that the *)
(* lines in the file are the job's, each with its stamp (LogLinesAre).     *)
(***************************************************************************)
EXTENDS LogText, TailReaderProofs

-----------------------------------------------------------------------------
(* What the readers write: a stamp before every line.                      *)

\* The text t with a stamp before each line; the first character goes on with a line
\* when midLine says so.
BeginsLine(t, i, mid) == IF i = 1 THEN ~mid ELSE t[i - 1] = "nl"
Stamped(t, mid) ==
  FlattenSeq([i \in 1..Len(t) |-> IF BeginsLine(t, i, mid) THEN <<"stamp", t[i]>>
                                                           ELSE <<t[i]>>])

\* Whether a line is open behind t.
OpenAfter(t, mid) == IF t = <<>> THEN mid ELSE t[Len(t)] # "nl"

\* A stamped text may be in a log.
LEMMA StampedType ==
  ASSUME NEW t \in Seq(Chars), NEW mid \in BOOLEAN
  PROVE  /\ [i \in 1..Len(t) |-> IF BeginsLine(t, i, mid) THEN <<"stamp", t[i]>>
                                                          ELSE <<t[i]>>]
              \in Seq(Seq(LogChars))
         /\ Stamped(t, mid) \in Seq(LogChars)
<1> DEFINE h == [i \in 1..Len(t) |-> IF BeginsLine(t, i, mid) THEN <<"stamp", t[i]>>
                                                              ELSE <<t[i]>>]
<1>1. ASSUME NEW i \in 1..Len(t) PROVE h[i] \in Seq(LogChars)
  <2>1. t[i] \in LogChars /\ "stamp" \in LogChars
    BY DEF LogChars, Added
  <2>2. <<t[i]>> \in Seq(LogChars) /\ <<"stamp", t[i]>> \in Seq(LogChars)
    BY <2>1
  <2> QED
    BY <2>2
<1>2. h \in Seq(Seq(LogChars))
  BY <1>1
<1> QED
  BY <1>2, FlattenType DEF Stamped

\* A text in two parts: the second goes on where the first leaves off.
LEMMA StampedJoin ==
  ASSUME NEW s \in Seq(Chars), NEW t \in Seq(Chars), NEW mid \in BOOLEAN
  PROVE  Stamped(s \o t, mid) = Stamped(s, mid) \o Stamped(t, OpenAfter(s, mid))
<1> DEFINE q == s \o t
           C(r, i, m) == IF BeginsLine(r, i, m) THEN <<"stamp", r[i]>> ELSE <<r[i]>>
           then == OpenAfter(s, mid)
           f == [i \in 1..Len(s) |-> C(s, i, mid)]
           g == [i \in 1..Len(t) |-> C(t, i, then)]
           h == [i \in 1..Len(q) |-> C(q, i, mid)]
           n == Len(q)
<1>0. then \in BOOLEAN
  BY DEF OpenAfter
<1>1. /\ f \in Seq(Seq(LogChars)) /\ g \in Seq(Seq(LogChars))
      /\ Len(f) = Len(s) /\ Len(g) = Len(t)
  BY <1>0, StampedType
<1>2. n \in Nat /\ n = Len(s) + Len(t)
  OBVIOUS
<1>3. ASSUME NEW i \in 1..Len(s) PROVE h[i] = f[i]
  <2>1. q[i] = s[i] /\ i \in 1..Len(q) /\ (i # 1 => q[i - 1] = s[i - 1])
    OBVIOUS
  <2>2. BeginsLine(q, i, mid) <=> BeginsLine(s, i, mid)
    BY <2>1 DEF BeginsLine
  <2> QED
    BY <2>1, <2>2
<1>4. ASSUME NEW j \in 1..Len(t) PROVE h[Len(s) + j] = g[j]
  <2>1. q[Len(s) + j] = t[j] /\ Len(s) + j \in 1..Len(q)
    OBVIOUS
  <2>2. BeginsLine(q, Len(s) + j, mid) <=> BeginsLine(t, j, then)
    <3>1. CASE j # 1
      <4>1. j - 1 \in 1..Len(t) /\ Len(s) + (j - 1) = (Len(s) + j) - 1 /\ Len(s) + j # 1
        BY <3>1
      <4>2. q[(Len(s) + j) - 1] = t[j - 1]
        BY <4>1
      <4> QED
        BY <3>1, <4>1, <4>2 DEF BeginsLine
    <3>2. CASE j = 1 /\ s = <<>>
      BY <3>2 DEF BeginsLine, OpenAfter
    <3>3. CASE j = 1 /\ s # <<>>
      <4>1. (Len(s) + j) - 1 = Len(s) /\ Len(s) + j # 1 /\ q[Len(s)] = s[Len(s)]
        BY <3>3
      <4> QED
        BY <3>3, <4>1 DEF BeginsLine, OpenAfter
    <3> QED
      BY <3>1, <3>2, <3>3
  <2> QED
    BY <2>1, <2>2
<1>5. /\ h = [i \in 1..n |-> h[i]] /\ n = Len(f) + Len(g)
      /\ \A i \in 1..Len(f) : h[i] = f[i]
      /\ \A j \in 1..Len(g) : h[Len(f) + j] = g[j]
  BY <1>1, <1>2, <1>3, <1>4
<1>6. /\ Stamped(q, mid) = FlattenSeq(h) /\ Stamped(s, mid) = FlattenSeq(f)
      /\ Stamped(t, then) = FlattenSeq(g)
  BY DEF Stamped
<1> HIDE DEF f, g, h, n, C, then
<1>7. FlattenSeq(h) = FlattenSeq(f) \o FlattenSeq(g)
  BY <1>1, <1>2, <1>5, FlattenJoin
<1> QED
  BY <1>6, <1>7 DEF then

\* Whether a line is open behind two texts is what the second leaves.
LEMMA OpenAfterJoin ==
  ASSUME NEW s \in Seq(Chars), NEW t \in Seq(Chars), NEW mid \in BOOLEAN
  PROVE  /\ OpenAfter(s, mid) \in BOOLEAN
         /\ OpenAfter(s \o t, mid) = OpenAfter(t, OpenAfter(s, mid))
<1>1. CASE t = <<>>
  <2>1. s \o t = s
    BY <1>1
  <2> QED
    BY <1>1, <2>1 DEF OpenAfter
<1>2. CASE t # <<>>
  <2>1. s \o t # <<>> /\ (s \o t)[Len(s \o t)] = t[Len(t)]
    BY <1>2
  <2> QED
    BY <1>2, <2>1 DEF OpenAfter
<1> QED
  BY <1>1, <1>2

\* No text, no stamp.
LEMMA StampedEmpty ==
  ASSUME NEW mid
  PROVE  Stamped(<<>>, mid) = <<>>
<1> DEFINE h == [i \in 1..Len(<<>>) |-> IF BeginsLine(<<>>, i, mid) THEN <<"stamp", <<>>[i]>>
                                                                ELSE <<<<>>[i]>>]
<1>1. Len(h) = 0 /\ h = <<>>
  OBVIOUS
<1> QED
  BY <1>1 DEF Stamped, FlattenSeq

\* A text of which at most the last character is a newline is a piece of _emit.
LEMMA StampedLine ==
  ASSUME NEW t \in Seq(Chars), t # <<>>, NEW mid \in BOOLEAN,
         \A i \in 1..Len(t) - 1 : t[i] # "nl"
  PROVE  Stamped(t, mid) = OwnPiece(t, mid)
<1> DEFINE c == t[1]
           r == SubSeq(t, 2, Len(t))
           then == OpenAfter(<<c>>, mid)
<1>1. /\ <<c>> \in Seq(Chars) /\ r \in Seq(Chars) /\ t = <<c>> \o r /\ c \in Chars
      /\ Len(r) = Len(t) - 1 /\ \A i \in 1..Len(r) : r[i] = t[i + 1]
  <2>0. 0 \in 0..Len(t) - 1 /\ 1 \in 0..Len(t) /\ 0 + 1 = 1 /\ SubSeq(t, 1, 0) = <<>>
    OBVIOUS
  <2>1. SubSeq(t, 1, 1) = <<c>> /\ c \in Chars
    <3>1. SubSeq(t, 1, 0 + 1) = Append(SubSeq(t, 1, 0), t[0 + 1]) /\ t[0 + 1] \in Chars
      BY <2>0, PrefixGrows
    <3>2. Append(<<>>, c) = <<c>>
      OBVIOUS
    <3> HIDE DEF r
    <3> QED
      BY <2>0, <3>1, <3>2
  <2> QED
    BY <2>0, <2>1, CutAnywhere
<1>2. then \in BOOLEAN /\ (r # <<>> => then = TRUE)
  BY <1>1 DEF OpenAfter
<1>3. Stamped(t, mid) = Stamped(<<c>>, mid) \o Stamped(r, then)
  BY <1>1, StampedJoin
<1>4. Stamped(r, then) = r
  <2>1. \A i \in 1..Len(r) : ~BeginsLine(r, i, then)
    <3>1. ASSUME NEW i \in 1..Len(r) PROVE ~BeginsLine(r, i, then)
      <4>1. CASE i = 1
        <5>1. then = TRUE
          BY <1>2, <4>1
        <5> HIDE DEF then
        <5> QED
          BY <4>1, <5>1 DEF BeginsLine
      <4>2. CASE i # 1
        <5>1. r[i - 1] = t[i] /\ i \in 1..Len(t) - 1
          BY <1>1, <4>2
        <5> QED
          BY <4>2, <5>1 DEF BeginsLine
      <4> QED
        BY <4>1, <4>2
    <3> QED
      BY <3>1
  <2> DEFINE h == [i \in 1..Len(r) |-> IF BeginsLine(r, i, then) THEN <<"stamp", r[i]>>
                                                                ELSE <<r[i]>>]
  <2>2. h = [i \in 1..Len(r) |-> <<r[i]>>]
    BY <2>1
  <2>3. FlattenSeq(h) = r
    BY <1>1, <2>2, FlattenSingles
  <2> QED
    BY <2>3 DEF Stamped
<1>5. Stamped(<<c>>, mid) = IF mid THEN <<c>> ELSE <<"stamp", c>>
  <2> DEFINE one == <<c>>
             x == IF mid THEN <<c>> ELSE <<"stamp", c>>
             h == [i \in 1..Len(one) |-> IF BeginsLine(one, i, mid) THEN <<"stamp", one[i]>>
                                                                    ELSE <<one[i]>>]
  <2>1. h = <<x>>
    BY DEF BeginsLine
  <2>2. x \in Seq(LogChars)
    <3>1. c \in LogChars /\ "stamp" \in LogChars
      BY <1>1 DEF LogChars, Added
    <3>2. <<c>> \in Seq(LogChars) /\ <<"stamp", c>> \in Seq(LogChars)
      BY <3>1
    <3> QED
      BY <3>2
  <2>3. FlattenSeq(<<x>>) = x
    BY <2>2, FlattenOne
  <2>4. Stamped(one, mid) = FlattenSeq(h)
    BY DEF Stamped
  <2> QED
    BY <2>1, <2>3, <2>4
<1>6. <<"stamp", c>> \o r = <<"stamp">> \o (<<c>> \o r)
  <2>1. <<"stamp", c>> = <<"stamp">> \o <<c>>
    OBVIOUS
  <2>2. <<"stamp">> \in Seq(LogChars) /\ <<c>> \in Seq(LogChars) /\ r \in Seq(LogChars)
    BY <1>1 DEF LogChars, Added
  <2> HIDE DEF c, r
  <2> QED
    BY <2>1, <2>2, ConcatAssociative
<1> QED
  BY <1>1, <1>3, <1>4, <1>5, <1>6 DEF OwnPiece

-----------------------------------------------------------------------------
(* The pieces of _emit.                                                    *)

\* One stamp a line is what the pieces get.
LEMMA LinesStamped ==
  ASSUME NEW p \in Seq(Seq(Chars)), AreLines(p), NEW mid \in BOOLEAN,
         NEW h, h = [k \in 1..Len(p) |-> OwnPiece(p[k], k = 1 /\ mid)]
  PROVE  /\ FlattenSeq(h) = Stamped(FlattenSeq(p), mid)
         /\ OpenAfter(FlattenSeq(p), mid) = IF p = <<>> THEN mid ELSE p[Len(p)][Len(p[Len(p)])] # "nl"
         /\ FlattenSeq(p) = <<>> <=> p = <<>>
<1> DEFINE q(i) == FlattenSeq(SubSeq(p, 1, i))
           ends(i) == p[i][Len(p[i])] = "nl"
           T == {i \in 0..Len(p) :
                   /\ FlattenSeq(SubSeq(h, 1, i)) = Stamped(q(i), mid)
                   /\ OpenAfter(q(i), mid) = (IF i = 0 THEN mid ELSE ~ends(i))
                   /\ q(i) = <<>> <=> i = 0}
<1>0. h \in Seq(Seq(LogChars)) /\ Len(h) = Len(p)
  <2>1. ASSUME NEW k \in 1..Len(p) PROVE OwnPiece(p[k], k = 1 /\ mid) \in Seq(LogChars)
    <3>1. p[k] \in Seq(LogChars) /\ <<"stamp">> \in Seq(LogChars)
      BY DEF LogChars, Added
    <3> QED
      BY <3>1 DEF OwnPiece
  <2> QED
    BY <2>1
<1>1. 0 \in T
  <2>1. SubSeq(p, 1, 0) = <<>> /\ SubSeq(h, 1, 0) = <<>> /\ 0 \in 0..Len(p)
    BY <1>0
  <2>2. q(0) = <<>> /\ FlattenSeq(SubSeq(h, 1, 0)) = <<>>
    BY <2>1 DEF FlattenSeq
  <2> QED
    BY <2>1, <2>2, StampedEmpty DEF OpenAfter
<1>2. ASSUME NEW i \in 0..Len(p) - 1, i \in T PROVE i + 1 \in T
  <2> DEFINE a == q(i)
             b == p[i + 1]
             then == OpenAfter(a, mid)
  <2>1. /\ SubSeq(p, 1, i) \in Seq(Seq(Chars)) /\ b \in Seq(Chars)
        /\ SubSeq(p, 1, i + 1) = Append(SubSeq(p, 1, i), b)
    BY PrefixGrows
  <2>2. q(i + 1) = a \o b /\ a \in Seq(Chars)
    BY <2>1, FlattenAppend, FlattenType
  <2>3. /\ SubSeq(h, 1, i) \in Seq(Seq(LogChars)) /\ h[i + 1] \in Seq(LogChars)
        /\ SubSeq(h, 1, i + 1) = Append(SubSeq(h, 1, i), h[i + 1])
    BY <1>0, PrefixGrows
  <2>4. FlattenSeq(SubSeq(h, 1, i + 1)) = FlattenSeq(SubSeq(h, 1, i)) \o h[i + 1]
    BY <2>3, FlattenAppend
  <2>5. i + 1 \in 1..Len(p) /\ (i # 0 => i \in 1..Len(p) /\ i < Len(p)) /\ i \in Nat
    OBVIOUS
  <2>6. b # <<>> /\ (\A j \in 1..Len(b) - 1 : b[j] # "nl") /\ (i # 0 => ends(i))
    BY <2>5 DEF AreLines
  <2>7. then \in BOOLEAN /\ then = (i + 1 = 1 /\ mid)
    <3>1. then = IF i = 0 THEN mid ELSE ~ends(i)
      BY <1>2
    <3>2. i + 1 = 1 <=> i = 0
      OBVIOUS
    <3>3. CASE i = 0
      BY <3>1, <3>2, <3>3
    <3>4. CASE i # 0
      BY <2>6, <3>1, <3>2, <3>4
    <3> QED
      BY <3>3, <3>4
  <2>8. Stamped(b, then) = OwnPiece(b, then)
    BY <2>1, <2>6, <2>7, StampedLine
  <2>9. h[i + 1] = OwnPiece(b, then)
    BY <2>5, <2>7
  <2>10. Stamped(a \o b, mid) = Stamped(a, mid) \o Stamped(b, then)
    BY <2>1, <2>2, StampedJoin
  <2>11. FlattenSeq(SubSeq(h, 1, i + 1)) = Stamped(q(i + 1), mid)
    BY <1>2, <2>2, <2>4, <2>8, <2>9, <2>10
  <2>12. OpenAfter(q(i + 1), mid) = ~ends(i + 1)
    <3>1. OpenAfter(a \o b, mid) = OpenAfter(b, then)
      <4> HIDE DEF a, b
      <4> QED
        BY <2>1, <2>2, OpenAfterJoin, Zenon
    <3> QED
      BY <2>2, <2>6, <3>1 DEF OpenAfter
  <2>13. q(i + 1) # <<>> /\ i + 1 # 0 /\ i + 1 \in 0..Len(p)
    <3>1. i + 1 # 0 /\ i + 1 \in 0..Len(p)
      OBVIOUS
    <3> HIDE DEF a, b, q
    <3>2. a \o b # <<>>
      BY <2>1, <2>2, <2>6
    <3> QED
      BY <2>2, <3>1, <3>2
  <2> QED
    BY <2>11, <2>12, <2>13
<1>3. Len(p) \in Nat
  OBVIOUS
<1> HIDE DEF T
<1>4. Len(p) \in T
  BY <1>1, <1>2, <1>3, CountUp
<1>5. /\ SubSeq(p, 1, Len(p)) = p /\ SubSeq(h, 1, Len(p)) = h
      /\ Len(p) = 0 <=> p = <<>>
  BY <1>0, WholePrefix
<1> QED
  BY <1>4, <1>5 DEF T

\* As many newlines as whole lines.
LEMMA LinesCounted ==
  ASSUME NEW p \in Seq(Seq(Chars)), AreLines(p)
  PROVE  Cardinality({k \in 1..Len(p) : p[k][Len(p[k])] = "nl"})
           = Cardinality(Newlines(FlattenSeq(p)))
<1> DEFINE q(i) == FlattenSeq(SubSeq(p, 1, i))
           E(i) == {k \in 1..i : p[k][Len(p[k])] = "nl"}
           T == {i \in 0..Len(p) : Cardinality(E(i)) = Cardinality(Newlines(q(i)))}
<1>1. 0 \in T
  <2>1. SubSeq(p, 1, 0) = <<>> /\ 0 \in 0..Len(p)
    OBVIOUS
  <2>2. q(0) = <<>>
    BY <2>1 DEF FlattenSeq
  <2>3. E(0) = {} /\ Newlines(<<>>) = {}
    BY DEF Newlines
  <2> QED
    BY <2>1, <2>2, <2>3
<1>2. ASSUME NEW i \in 0..Len(p) - 1, i \in T PROVE i + 1 \in T
  <2> DEFINE a == q(i)
             b == p[i + 1]
             whole == b[Len(b)] = "nl"
  <2>1. /\ SubSeq(p, 1, i) \in Seq(Seq(Chars)) /\ b \in Seq(Chars)
        /\ SubSeq(p, 1, i + 1) = Append(SubSeq(p, 1, i), b)
    BY PrefixGrows
  <2>2. q(i + 1) = a \o b /\ a \in Seq(Chars)
    BY <2>1, FlattenAppend, FlattenType
  <2>3. b # <<>> /\ \A j \in 1..Len(b) - 1 : b[j] # "nl"
    <3>1. i + 1 \in 1..Len(p)
      OBVIOUS
    <3> QED
      BY <3>1 DEF AreLines
  <2>4. Cardinality(Newlines(b)) = IF whole THEN 1 ELSE 0
    BY <2>1, <2>3, NewlinesOfLine, CharsAreLogged
  <2>5. Cardinality(Newlines(a \o b)) = Cardinality(Newlines(a)) + Cardinality(Newlines(b))
    BY <2>1, <2>2, NewlinesJoin, CharsAreLogged
  <2>6. IsFiniteSet(E(i)) /\ Cardinality(E(i)) \in Nat /\ i + 1 \notin E(i)
    <3>1. IsFiniteSet(1..i) /\ E(i) \in SUBSET (1..i)
      BY FS_Interval
    <3>2. i + 1 \notin 1..i
      OBVIOUS
    <3> QED
      BY <3>1, <3>2, FS_Subset, FS_CardinalityType
  <2>7. E(i + 1) = IF whole THEN E(i) \cup {i + 1} ELSE E(i)
    <3>1. \A k : k \in 1..i + 1 <=> (k \in 1..i \/ k = i + 1)
      OBVIOUS
    <3> QED
      BY <3>1
  <2>8. Cardinality(E(i) \cup {i + 1}) = Cardinality(E(i)) + 1
    <3> HIDE DEF E
    <3> QED
      BY <2>6, FS_AddElement
  <2>9. Cardinality(E(i + 1)) = Cardinality(E(i)) + (IF whole THEN 1 ELSE 0)
    <3> HIDE DEF E, whole
    <3> QED
      BY <2>6, <2>7, <2>8
  <2>10. Cardinality(E(i)) = Cardinality(Newlines(a)) /\ i + 1 \in 0..Len(p)
    BY <1>2
  <2>11. Cardinality(E(i + 1)) = Cardinality(Newlines(q(i + 1)))
    <3> HIDE DEF E, q, whole
    <3> QED
      BY <2>2, <2>4, <2>5, <2>9, <2>10
  <2> QED
    BY <2>10, <2>11
<1>3. Len(p) \in Nat
  OBVIOUS
<1> HIDE DEF T
<1>4. Len(p) \in T
  BY <1>1, <1>2, <1>3, CountUp
<1> QED
  BY <1>4, WholePrefix DEF T

\* What _emit passes on to _add.
Passed(text, final) == FlattenSeq(Pieces(text, final))

\* The pieces are lines; without what is carried they are the text, closed at the end.
LEMMA PiecesAre ==
  ASSUME NEW text \in Seq(Chars), NEW final \in BOOLEAN, NEW p, p = Pieces(text, final),
         NEW rest, rest = Rest(text)
  PROVE  /\ p \in Seq(Seq(Chars)) /\ AreLines(p) /\ Passed(text, final) \in Seq(Chars)
         /\ ~final => text = Passed(text, final) \o (IF IsFlushed(rest, final) THEN <<>> ELSE rest)
         /\ final => Passed(text, final) = Closed(text)
         /\ rest \in Seq(Chars) /\ \A i \in 1..Len(rest) : rest[i] # "nl"
         /\ (p = <<>> /\ ~IsFlushed(rest, final)) => text = rest
<1> DEFINE c == CompleteLines(text)
           e == LineEnd(text, Cardinality(Newlines(text)))
           a == SubSeq(text, 1, e)
           x == IF final THEN Append(rest, "nl") ELSE rest
<1>1. /\ rest \in Seq(Chars) /\ a \in Seq(Chars) /\ text = a \o rest
      /\ \A i \in 1..Len(rest) : rest[i] # "nl"
      /\ e \in 0..Len(text) /\ (e # 0 => text[e] = "nl")
      /\ Len(rest) = Len(text) - e
  BY RestIs, CharsAreLogged
<1>2. c \in Seq(Seq(Chars)) /\ AreLines(c) /\ FlattenSeq(c) = a /\ Len(c) = Cardinality(Newlines(text))
  BY CompleteLinesAre, CharsAreLogged
<1>3. \A k \in 1..Len(c) : c[k][Len(c[k])] = "nl"
  <2>1. ASSUME NEW k \in 1..Cardinality(Newlines(text)), NEW b, b = c[k] PROVE b[Len(b)] = "nl"
    BY <2>1, CompleteLineIs, CharsAreLogged
  <2> QED
    BY <1>2, <2>1
<1>4. c = <<>> => e = 0
  BY <1>2 DEF LineEnd
<1>5. text # <<>> /\ rest = <<>> => text[Len(text)] = "nl"
  BY <1>1
<1>6. rest # <<>> => text # <<>> /\ text[Len(text)] # "nl"
  <2>1. ASSUME rest # <<>> PROVE text # <<>> /\ text[Len(text)] = rest[Len(rest)] /\ Len(rest) \in 1..Len(rest)
    <3> HIDE DEF a, e
    <3> QED
      BY <1>1, <2>1
  <2> QED
    BY <1>1, <2>1
<1>7. p = c \o (IF IsFlushed(rest, final) THEN <<x>> ELSE <<>>)
  BY DEF Pieces
<1>8. Passed(text, final) = FlattenSeq(p)
  BY DEF Passed
<1>9. "nl" \in Chars
  BY DEF Chars, Bytes, Symbols, Added
<1> HIDE DEF c, e, a
<1>10. CASE ~IsFlushed(rest, final)
  <2>1. p = c /\ Passed(text, final) = a
    BY <1>2, <1>7, <1>8, <1>10
  <2>2. final => rest = <<>>
    BY <1>10 DEF IsFlushed
  <2>3. rest = <<>> => a = text
    BY <1>1
  <2>4. final => Closed(text) = text
    <3>1. final => text = <<>> \/ Last(text) = "nl"
      BY <1>5, <2>2 DEF Last
    <3> QED
      BY <3>1 DEF Closed
  <2>5. p = <<>> => text = rest
    <3>1. p = <<>> => a = <<>>
      BY <1>4, <2>1, WholePrefix DEF a
    <3> QED
      BY <1>1, <3>1
  <2> QED
    BY <1>1, <1>2, <1>10, <2>1, <2>2, <2>3, <2>4, <2>5
<1>11. CASE IsFlushed(rest, final)
  <2>1. rest # <<>>
    BY <1>11 DEF IsFlushed
  <2>2. /\ x \in Seq(Chars) /\ x # <<>>
        /\ \A i \in 1..Len(x) - 1 : x[i] # "nl"
    <3>1. CASE final
      <4>1. PICK y : y = Append(rest, "nl")
        OBVIOUS
      <4>2. /\ y \in Seq(Chars) /\ Len(y) = Len(rest) + 1
            /\ \A i \in 1..Len(rest) : y[i] = rest[i]
        BY <1>1, <1>9, <4>1
      <4>3. y # <<>> /\ \A i \in 1..Len(y) - 1 : y[i] # "nl"
        <5>1. Len(rest) \in Nat /\ Len(y) - 1 = Len(rest) /\ Len(y) # 0
          BY <1>1, <4>2
        <5>2. \A i \in 1..Len(rest) : y[i] # "nl"
          BY <1>1, <4>2
        <5> QED
          BY <5>1, <5>2
      <4>4. x = y
        BY <3>1, <4>1
      <4> QED
        BY <4>2, <4>3, <4>4
    <3>2. CASE ~final
      BY <1>1, <2>1, <3>2
    <3> QED
      BY <3>1, <3>2
  <2> HIDE DEF x
  <2>3. p = Append(c, x) /\ p # <<>>
    BY <1>2, <1>7, <1>11, <2>2
  <2>4. p \in Seq(Seq(Chars)) /\ Len(p) = Len(c) + 1 /\ p[Len(p)] = x
        /\ \A k \in 1..Len(c) : p[k] = c[k]
    BY <1>2, <2>2, <2>3
  <2>5. AreLines(p)
    <3>1. ASSUME NEW k \in 1..Len(p)
          PROVE  /\ p[k] # <<>> /\ \A i \in 1..Len(p[k]) - 1 : p[k][i] # "nl"
                 /\ k < Len(p) => p[k][Len(p[k])] = "nl"
      <4>1. CASE k \in 1..Len(c)
        BY <1>2, <1>3, <2>4, <4>1 DEF AreLines
      <4>2. CASE k = Len(p)
        BY <2>2, <2>4, <4>2
      <4> QED
        BY <1>2, <2>4, <4>1, <4>2
    <3> QED
      BY <3>1 DEF AreLines
  <2>6. Passed(text, final) = a \o x
    BY <1>2, <1>8, <2>2, <2>3, FlattenAppend
  <2>7. a \o x \in Seq(Chars)
    BY <1>1, <2>2
  <2>8. ~final => a \o x = text \o <<>>
    BY <1>1 DEF x
  <2>9. final => a \o x = Closed(text)
    <3>1. Append(a \o rest, "nl") = a \o Append(rest, "nl")
      <4>1. <<"nl">> \in Seq(Chars) /\ a \o rest \in Seq(Chars)
        BY <1>1, <1>9
      <4>2. /\ Append(a \o rest, "nl") = (a \o rest) \o <<"nl">>
            /\ Append(rest, "nl") = rest \o <<"nl">>
        BY <1>1, <1>9, <4>1, AppendIsConcat
      <4>3. (a \o rest) \o <<"nl">> = a \o (rest \o <<"nl">>)
        <5>1. a \in Seq(Chars) /\ rest \in Seq(Chars)
          BY <1>1
        <5>2. PICK n : n = <<"nl">>
          OBVIOUS
        <5>3. n \in Seq(Chars)
          BY <4>1, <5>2
        <5>4. (a \o rest) \o n = a \o (rest \o n)
          BY <5>1, <5>3, ConcatAssociative
        <5> QED
          BY <5>2, <5>4
      <4> QED
        BY <4>2, <4>3
    <3>2. Closed(text) = Append(text, "nl")
      BY <1>6, <2>1 DEF Closed, Last
    <3> QED
      BY <1>1, <3>1, <3>2 DEF x
  <2> QED
    BY <1>1, <1>11, <2>3, <2>4, <2>5, <2>6, <2>7, <2>8, <2>9
<1> QED
  BY <1>10, <1>11

\* The pieces p of a text P: what _add makes of them, the first going on with a line.
PiecesWrite(p, P, mid) ==
  /\ FlattenSeq([k \in DOMAIN p |-> OwnPiece(p[k], k = 1 /\ mid)]) = Stamped(P, mid)
  /\ Cardinality({k \in DOMAIN p : Last(p[k]) = "nl"}) = Cardinality(Newlines(P))
  /\ (IF p = <<>> THEN mid ELSE Last(Last(p)) # "nl") = OpenAfter(P, mid)
  /\ p = <<>> <=> P = <<>>

\* In terms of what is passed on, that is what _emit writes.
LEMMA EmitWrites ==
  ASSUME NEW text \in Seq(Chars), NEW final \in BOOLEAN, NEW mid \in BOOLEAN,
         NEW p, p = Pieces(text, final)
  PROVE  PiecesWrite(p, Passed(text, final), mid)
<1>s. SUFFICES
         /\ FlattenSeq([k \in DOMAIN p |-> OwnPiece(p[k], k = 1 /\ mid)])
              = Stamped(Passed(text, final), mid)
         /\ Cardinality({k \in DOMAIN p : Last(p[k]) = "nl"})
              = Cardinality(Newlines(Passed(text, final)))
         /\ (IF p = <<>> THEN mid ELSE Last(Last(p)) # "nl") = OpenAfter(Passed(text, final), mid)
         /\ p = <<>> <=> Passed(text, final) = <<>>
  BY Zenon DEF PiecesWrite
<1>1. p \in Seq(Seq(Chars)) /\ AreLines(p)
  BY PiecesAre
<1>2. DOMAIN p = 1..Len(p) /\ Passed(text, final) = FlattenSeq(p)
  BY <1>1 DEF Passed
<1> DEFINE h == [k \in 1..Len(p) |-> OwnPiece(p[k], k = 1 /\ mid)]
<1>3. /\ FlattenSeq(h) = Stamped(FlattenSeq(p), mid)
      /\ OpenAfter(FlattenSeq(p), mid) = (IF p = <<>> THEN mid ELSE p[Len(p)][Len(p[Len(p)])] # "nl")
      /\ FlattenSeq(p) = <<>> <=> p = <<>>
  BY <1>1, LinesStamped
<1>4. Cardinality({k \in 1..Len(p) : p[k][Len(p[k])] = "nl"}) = Cardinality(Newlines(FlattenSeq(p)))
  BY <1>1, LinesCounted
<1>5. h = [k \in DOMAIN p |-> OwnPiece(p[k], k = 1 /\ mid)]
  BY <1>2
<1>6. {k \in DOMAIN p : Last(p[k]) = "nl"} = {k \in 1..Len(p) : p[k][Len(p[k])] = "nl"}
  BY <1>2 DEF Last
<1>7. Last(Last(p)) = p[Len(p)][Len(p[Len(p)])]
  BY DEF Last
<1> QED
  BY <1>2, <1>3, <1>4, <1>5, <1>6, <1>7

-----------------------------------------------------------------------------
(* The invariant: the bytes on their way through the decoders to the log.  *)

\* What the decoders have read, as characters, without the "\r" that is held back, and
\* as the text that was given to _emit.
Consumed == SubSeq(input, 1, taken - Len(half))
DecodedText == Decoded(Consumed)
Settled == IF crHeld THEN Front(DecodedText) ELSE DecodedText
Given == Translated(Settled)

\* What the log has of it: all but the unfinished line, and all of it at the end.
Logged == IF ended THEN Closed(Given) ELSE SubSeq(Given, 1, Len(Given) - Len(pending))

EmitType ==
  /\ input \in Seq(Bytes) /\ taken \in 0..Len(input)
  /\ half \in {<<>>, <<"lead">>} /\ Len(half) <= taken
  /\ crHeld \in BOOLEAN /\ midLine \in BOOLEAN /\ ended \in BOOLEAN
  /\ pending \in Seq(Chars) /\ Header \in Seq(LogChars)

\* The decoders hold back what they have to and no more, and count what they replace.
DecodersHold ==
  /\ half = HeldBack(SubSeq(input, 1, taken), ended)
  /\ crHeld = (~ended /\ DecodedText # <<>> /\ Last(DecodedText) = "cr")
  /\ replacements = Replacements(Consumed)

\* The unfinished line is the end of what was given and shorter than the limit; the log
\* is the rest, with a stamp a line.
LogHolds ==
  /\ ended => taken = Len(input) /\ pending = <<>>
  /\ ~ended => Given = Logged \o pending
  /\ Len(pending) < MaxPending /\ \A i \in 1..Len(pending) : pending[i] # "nl"
  /\ own = Header \o Stamped(Logged, FALSE)
  /\ midLine = OpenAfter(Logged, FALSE)
  /\ lines = Cardinality(Newlines(Logged))

EmitInvariant == EmitType /\ DecodersHold /\ LogHolds

\* The first part of two.
LEMMA PrefixOfConcat ==
  ASSUME NEW S, NEW s \in Seq(S), NEW t \in Seq(S)
  PROVE  SubSeq(s \o t, 1, Len(s)) = s
<1> DEFINE q == SubSeq(s \o t, 1, Len(s))
<1>1. q \in Seq(S) /\ Len(q) = Len(s) /\ \A i \in 1..Len(s) : q[i] = s[i]
  OBVIOUS
<1> HIDE DEF q
<1>2. q = s
  BY <1>1, SeqEqual
<1> QED
  BY <1>2 DEF q

\* A sequence is its front and its last element.
LEMMA FrontIs ==
  ASSUME NEW S, NEW s \in Seq(S), s # <<>>
  PROVE  /\ Front(s) \in Seq(S) /\ Len(Front(s)) = Len(s) - 1
         /\ <<s[Len(s)]>> \in Seq(S) /\ s[Len(s)] \in S
         /\ s = Front(s) \o <<s[Len(s)]>>
<1> DEFINE n == Len(s) - 1
           c == s[Len(s)]
<1>1. n \in 0..Len(s) - 1 /\ n + 1 = Len(s) /\ Len(s) \in 1..Len(s)
  OBVIOUS
<1>2. c \in S
  BY <1>1
<1>3. SubSeq(s, 1, n) \in Seq(S) /\ SubSeq(s, 1, n + 1) = Append(SubSeq(s, 1, n), s[n + 1])
  BY <1>1, PrefixGrows
<1>4. Front(s) = SubSeq(s, 1, n)
  BY DEF Front
<1>5. s = Append(Front(s), c)
  BY <1>1, <1>3, <1>4, WholePrefix
<1> HIDE DEF n, c
<1>6. PICK f : f = Front(s)
  OBVIOUS
<1>7. f \in Seq(S) /\ s = Append(f, c)
  BY <1>3, <1>4, <1>5, <1>6
<1>8. <<c>> \in Seq(S) /\ s = f \o <<c>> /\ Len(f) = Len(s) - 1
  BY <1>2, <1>7
<1> QED
  BY <1>2, <1>6, <1>7, <1>8 DEF c

\* Concatenation is associative, over any set.
LEMMA Associative ==
  \A S : \A s, t, u \in Seq(S) : (s \o t) \o u = s \o (t \o u)
<1> TAKE S
<1> TAKE s, t, u \in Seq(S)
<1> QED
  BY ConcatAssociative

\* The end of a sequence kept back: what is before it is a prefix.
LEMMA KeptBack ==
  ASSUME NEW S, NEW s \in Seq(S), NEW b \in Seq(S), NEW h \in Seq(S)
  PROVE  /\ s \o (b \o h) \in Seq(S) /\ Len(h) <= Len(s \o (b \o h))
         /\ SubSeq(s \o (b \o h), 1, Len(s \o (b \o h)) - Len(h)) = s \o b
<1>1. s \o (b \o h) = (s \o b) \o h
  BY Associative
<1>2. PICK q : q = s \o b
  OBVIOUS
<1>3. q \in Seq(S)
  BY <1>2
<1>4. SubSeq(q \o h, 1, Len(q)) = q
  BY <1>3, PrefixOfConcat
<1>5. q \o h \in Seq(S) /\ Len(q \o h) - Len(h) = Len(q) /\ Len(h) <= Len(q \o h)
  BY <1>3
<1> QED
  BY <1>1, <1>2, <1>3, <1>4, <1>5

\* The same of bytes, for what a decoder keeps back of a read.
LEMMA BytesKeptBack ==
  \A s, b, h \in Seq(Bytes) :
    /\ s \o (b \o h) \in Seq(Bytes) /\ Len(h) <= Len(s \o (b \o h))
    /\ SubSeq(s \o (b \o h), 1, Len(s \o (b \o h)) - Len(h)) = s \o b
<1> TAKE s, b, h \in Seq(Bytes)
<1> QED
  BY KeptBack

\* The decoder keeps the last byte or none.
LEMMA HeldBackIs ==
  ASSUME NEW q \in Seq(Bytes), NEW final \in BOOLEAN
  PROVE  /\ HeldBack(q, final) \in {<<>>, <<"lead">>} /\ HeldBack(q, final) \in Seq(Bytes)
         /\ SubSeq(q, 1, Len(q) - Len(HeldBack(q, final))) \in Seq(Bytes)
         /\ q = SubSeq(q, 1, Len(q) - Len(HeldBack(q, final))) \o HeldBack(q, final)
         /\ HeldBack(q, FALSE) = <<>> /\ q # <<>> => q[Len(q)] # "lead"
<1>1. "lead" \in Bytes
  BY DEF Bytes, Symbols, Added
<1>2. CASE HeldBack(q, final) = <<>>
  <2>1. Len(q) - Len(<<>>) = Len(q) /\ q \o <<>> = q /\ SubSeq(q, 1, Len(q)) = q
    BY WholePrefix
  <2>2. HeldBack(q, FALSE) = <<>> /\ q # <<>> => q[Len(q)] # "lead"
    BY DEF HeldBack, Last
  <2>3. <<>> \in Seq(Bytes)
    OBVIOUS
  <2> QED
    BY <1>2, <2>1, <2>2, <2>3
<1>3. CASE HeldBack(q, final) # <<>>
  <2>1. HeldBack(q, final) = <<"lead">> /\ q # <<>> /\ q[Len(q)] = "lead"
    BY <1>3 DEF HeldBack, Last
  <2>2. Front(q) \in Seq(Bytes) /\ q = Front(q) \o <<"lead">>
    BY <2>1, FrontIs
  <2>3. Front(q) = SubSeq(q, 1, Len(q) - Len(HeldBack(q, final)))
    BY <2>1 DEF Front
  <2>4. HeldBack(q, FALSE) = <<"lead">> /\ <<"lead">> \in Seq(Bytes)
    BY <1>1, <2>1 DEF HeldBack, Last
  <2>5. PICK h : h = HeldBack(q, final)
    OBVIOUS
  <2>6. PICK b : b = SubSeq(q, 1, Len(q) - Len(h))
    OBVIOUS
  <2>7. b = Front(q) /\ h = <<"lead">>
    BY <2>1, <2>3, <2>5, <2>6
  <2>8. q = b \o h /\ b \in Seq(Bytes) /\ h \in Seq(Bytes)
    BY <2>2, <2>4, <2>7
  <2>9. h \in {<<>>, <<"lead">>} /\ HeldBack(q, FALSE) # <<>>
    <3>1. <<"lead">> # <<>>
      OBVIOUS
    <3> QED
      BY <2>4, <2>7, <3>1
  <2> QED
    BY <2>5, <2>6, <2>8, <2>9
<1> QED
  BY <1>2, <1>3

\* decoder.decode, bytes: B is what was consumed before, and kept what was held back.
BytesRead(B, kept, chunk, final) ==
  LET raw == kept \o chunk
      h   == HeldBack(raw, final)
      b   == SubSeq(raw, 1, Len(raw) - Len(h))
      R   == (B \o kept) \o chunk
  IN  /\ h = HeldBack(R, final) /\ h \in {<<>>, <<"lead">>} /\ Len(h) <= Len(R)
      /\ b \in Seq(Bytes) /\ B \o b \in Seq(Bytes)
      /\ SubSeq(R, 1, Len(R) - Len(h)) = B \o b
      /\ Decoded(B \o b) = Decoded(B) \o Decoded(b)
      /\ Replacements(B \o b) = Replacements(B) + Replacements(b)

\* A read decodes to what it adds to the text so far.
LEMMA BytesDecode ==
  ASSUME NEW B \in Seq(Bytes), NEW chunk \in Seq(Bytes), NEW final \in BOOLEAN,
         final \/ chunk # <<>>,
         NEW kept \in Seq(Bytes), kept # <<>> => kept[1] = "lead",
         kept = <<>> /\ B # <<>> => B[Len(B)] # "lead"
  PROVE  BytesRead(B, kept, chunk, final)
<1> DEFINE raw == kept \o chunk
           h   == HeldBack(raw, final)
           b   == SubSeq(raw, 1, Len(raw) - Len(h))
           R   == (B \o kept) \o chunk
<1>1. raw \in Seq(Bytes)
  OBVIOUS
<1>2. h \in {<<>>, <<"lead">>} /\ h \in Seq(Bytes) /\ b \in Seq(Bytes) /\ raw = b \o h
  BY <1>1, HeldBackIs
<1>3. /\ R = B \o raw /\ R \in Seq(Bytes) /\ Len(h) <= Len(R)
      /\ SubSeq(R, 1, Len(R) - Len(h)) = B \o b
  <2>1. R = B \o raw
    BY Associative
  <2> HIDE DEF b, h, raw, R
  <2>2. LET q == B \o (b \o h)
        IN  /\ q \in Seq(Bytes) /\ Len(h) <= Len(q)
            /\ SubSeq(q, 1, Len(q) - Len(h)) = B \o b
    <3>1. PICK x \in Seq(Bytes), y \in Seq(Bytes) : x = b /\ y = h
      BY <1>2
    <3>2. LET q == B \o (x \o y)
          IN  /\ q \in Seq(Bytes) /\ Len(y) <= Len(q)
              /\ SubSeq(q, 1, Len(q) - Len(y)) = B \o x
      BY BytesKeptBack, Zenon
    <3> QED
      BY <3>1, <3>2
  <2> QED
    BY <1>2, <2>1, <2>2
<1>4. h = HeldBack(R, final)
  <2>1. chunk # <<>> => /\ raw # <<>> /\ R # <<>> /\ raw[Len(raw)] = chunk[Len(chunk)]
                        /\ R[Len(R)] = chunk[Len(chunk)]
    <3>1. PICK q : q = B \o kept
      OBVIOUS
    <3>2. q \in Seq(Bytes)
      BY <3>1
    <3>3. R = q \o chunk
      BY <3>1
    <3> QED
      BY <3>2, <3>3
  <2> QED
    BY <2>1 DEF HeldBack, Last
<1>5. ~Parts(B, b, "lead", "cont")
  <2>1. CASE kept = <<>>
    BY <2>1 DEF Parts
  <2>2. CASE kept # <<>>
    <3>2. raw[1] = "lead"
      BY <2>2
    <3> HIDE DEF b, h, raw
    <3>3. b # <<>> => (b \o h)[1] = b[1]
      BY <1>2
    <3>4. b # <<>> => b[1] = "lead"
      BY <1>2, <3>2, <3>3
    <3> QED
      BY <3>4 DEF Parts
  <2> QED
    BY <2>1, <2>2
<1> HIDE DEF b, h, R
<1>6. /\ Decoded(B \o b) = Decoded(B) \o Decoded(b)
      /\ Replacements(B \o b) = Replacements(B) + Replacements(b)
  <2>1. Bytes \subseteq Symbols
    BY DEF Bytes
  <2>2. B \in Seq(Symbols) /\ b \in Seq(Symbols)
    BY <1>2, <2>1
  <2> QED
    BY <1>5, <2>2, DecodedJoin, ReplacementsJoin
<1>7. B \o b \in Seq(Bytes)
  BY <1>2
<1> QED
  BY <1>2, <1>3, <1>4, <1>6, <1>7 DEF b, h, R, BytesRead

\* The front of two parts is that of the second.
LEMMA FrontOfConcat ==
  ASSUME NEW S, NEW s \in Seq(S), NEW t \in Seq(S)
  PROVE  t # <<>> => /\ Front(s \o t) = s \o Front(t) /\ s \o t # <<>>
                     /\ (s \o t)[Len(s \o t)] = t[Len(t)]
<1>0. SUFFICES ASSUME t # <<>>
               PROVE  /\ Front(s \o t) = s \o Front(t) /\ s \o t # <<>>
                      /\ (s \o t)[Len(s \o t)] = t[Len(t)]
  OBVIOUS
<1>1. PICK f \in Seq(S), c \in Seq(S) :
        f = Front(t) /\ c = <<t[Len(t)]>> /\ t = f \o c /\ Len(c) = 1
  <2>1. /\ Front(t) \in Seq(S) /\ <<t[Len(t)]>> \in Seq(S)
        /\ t = Front(t) \o <<t[Len(t)]>>
    BY <1>0, FrontIs
  <2>2. Len(<<t[Len(t)]>>) = 1
    OBVIOUS
  <2> QED
    BY <2>1, <2>2
<1>2. (s \o f) \o c = s \o (f \o c)
  BY Associative
<1>3. PICK q \in Seq(S) : q = s \o f
  <2>1. s \o f \in Seq(S)
    OBVIOUS
  <2> QED
    BY <2>1
<1>4. Len(q \o c) = Len(q) + Len(c) /\ Len(q) \in Nat
  OBVIOUS
<1>5. SubSeq(q \o c, 1, Len(q)) = q
  BY PrefixOfConcat
<1>6. s \o t = q \o c
  BY <1>1, <1>2, <1>3
<1>7. Front(s \o t) = q
  <2>1. Len(q \o c) - 1 = Len(q)
    BY <1>1, <1>4
  <2> QED
    BY <1>5, <1>6, <2>1 DEF Front
<1>8. s \o t # <<>> /\ (s \o t)[Len(s \o t)] = t[Len(t)]
  BY <1>0
<1> QED
  BY <1>1, <1>3, <1>7, <1>8

\* decoder.decode, newlines: D is what was decoded before, S the part of it that was
\* given on, and db what is new.
LEMMA NewlinesDecode ==
  ASSUME NEW D \in Seq(Chars), NEW db \in Seq(Chars), NEW final \in BOOLEAN,
         crHeld = (D # <<>> /\ D[Len(D)] = "cr")
  PROVE  LET t  == NewlineText(db, final)
             cr == IF t = <<>> THEN crHeld ELSE EndsInCr(t, final)
             u  == IF EndsInCr(t, final) THEN Front(t) ELSE t
             S  == IF crHeld THEN Front(D) ELSE D
             D2 == D \o db
         IN  /\ cr = (~final /\ D2 # <<>> /\ Last(D2) = "cr")
             /\ u \in Seq(Chars) /\ S \in Seq(Chars) /\ D2 \in Seq(Chars)
             /\ Translated(IF cr THEN Front(D2) ELSE D2) = Translated(S) \o Translated(u)
<1> DEFINE t  == NewlineText(db, final)
           cr == IF t = <<>> THEN crHeld ELSE EndsInCr(t, final)
           u  == IF EndsInCr(t, final) THEN Front(t) ELSE t
           S  == IF crHeld THEN Front(D) ELSE D
           D2 == D \o db
           ends == ~final /\ D2 # <<>> /\ Last(D2) = "cr"
           left == IF cr THEN Front(D2) ELSE D2
<1>0. crHeld \in BOOLEAN /\ D2 \in Seq(Chars) /\ "cr" \in Chars /\ <<"cr">> \in Seq(Chars)
  BY DEF Chars, Bytes, Symbols, Added
<1>1. S \in Seq(Chars) /\ (crHeld => D = S \o <<"cr">>) /\ (~crHeld => S = D)
  BY FrontIs
<1>2. S # <<>> /\ ~crHeld => S[Len(S)] # "cr"
  OBVIOUS
<1> HIDE DEF S
<1>3. CASE t = <<>>
  <2>1. db = <<>> /\ (crHeld => ~final) /\ ~EndsInCr(t, final)
    <3>1. <<"cr">> \o db # <<>>
      BY <1>0
    <3> QED
      BY <1>3, <3>1 DEF NewlineText, EndsInCr
  <2>2. D2 = D /\ cr = crHeld /\ u = <<>>
    BY <1>3, <2>1
  <2>3. Translated(<<>>) = <<>> /\ Translated(S) \in Seq(Plain)
    <3>1. <<>> \in Seq(Plain)
      OBVIOUS
    <3>2. "cr" \notin Plain
      BY DEF Plain
    <3> QED
      BY <1>1, <3>1, <3>2, TranslatedType, TranslatedSame
  <2>4. Translated(S) \o <<>> = Translated(S)
    BY <2>3
  <2>5. left = S
    BY <2>2 DEF S
  <2>6. cr = ends
    BY <2>1, <2>2 DEF Last
  <2>7. u \in Seq(Chars)
    BY <2>2
  <2>8. Translated(left) = Translated(S) \o Translated(u)
    <3> HIDE DEF left, u
    <3> QED
      BY <2>2, <2>3, <2>4, <2>5
  <2> QED
    BY <1>0, <1>1, <2>6, <2>7, <2>8 DEF S
<1>4. CASE t # <<>>
  <2>1. t \in Seq(Chars) /\ D2 = S \o t /\ (crHeld => t[1] = "cr")
    <3>1. CASE crHeld
      <4>1. t = <<"cr">> \o db
        BY <1>4, <3>1 DEF NewlineText
      <4>2. (S \o <<"cr">>) \o db = S \o (<<"cr">> \o db)
        BY <1>0, <1>1, Associative
      <4>3. <<"cr">> \o db \in Seq(Chars) /\ (<<"cr">> \o db)[1] = "cr"
        BY <1>0
      <4> QED
        BY <1>1, <3>1, <4>1, <4>2, <4>3
    <3>2. CASE ~crHeld
      BY <1>1, <3>2 DEF NewlineText
    <3> QED
      BY <1>0, <3>1, <3>2
  <2> HIDE DEF t, D2
  <2>2. /\ Front(S \o t) = S \o Front(t) /\ S \o t # <<>>
        /\ (S \o t)[Len(S \o t)] = t[Len(t)]
        /\ Front(t) \in Seq(Chars) /\ Len(Front(t)) = Len(t) - 1
        /\ t = Front(t) \o <<t[Len(t)]>> /\ <<t[Len(t)]>> \in Seq(Chars)
    <3>1. /\ Front(t) \in Seq(Chars) /\ Len(Front(t)) = Len(t) - 1
          /\ t = Front(t) \o <<t[Len(t)]>> /\ <<t[Len(t)]>> \in Seq(Chars)
      BY <1>4, <2>1, FrontIs
    <3>2. /\ Front(S \o t) = S \o Front(t) /\ S \o t # <<>>
          /\ (S \o t)[Len(S \o t)] = t[Len(t)]
      BY <1>1, <1>4, <2>1, FrontOfConcat
    <3> QED
      BY <3>1, <3>2
  <2>3. cr = (~final /\ t[Len(t)] = "cr")
    BY <1>4 DEF EndsInCr, Last
  <2>4. ends = (~final /\ t[Len(t)] = "cr")
    BY <2>1, <2>2 DEF Last
  <2>5. u = IF cr THEN Front(t) ELSE t
    BY <1>4
  <2>6. u \in Seq(Chars)
    BY <2>1, <2>2, <2>5
  <2>7. u # <<>> => u[1] = t[1]
    <3>1. Front(t) # <<>> => Front(t)[1] = t[1]
      BY <2>1 DEF Front
    <3> HIDE DEF u, cr
    <3> QED
      BY <2>5, <3>1
  <2>8. left = S \o u
    <3> HIDE DEF u, cr
    <3> QED
      BY <2>1, <2>2, <2>5
  <2> HIDE DEF u, cr, left, ends
  <2>9. ~Parts(S, u, "cr", "nl")
    BY <1>0, <1>2, <2>1, <2>7 DEF Parts
  <2>10. Translated(S \o u) = Translated(S) \o Translated(u)
    BY <1>1, <2>6, <2>9, TranslatedJoin, CharsAreLogged
  <2> QED
    BY <1>0, <1>1, <2>3, <2>4, <2>6, <2>8, <2>10 DEF S, t, u, cr, left, ends, D2
<1> QED
  BY <1>3, <1>4

-----------------------------------------------------------------------------
(* What a read does.                                                       *)

\* A prefix of a prefix.
LEMMA PrefixOfPrefix ==
  ASSUME NEW S, NEW s \in Seq(S), NEW m \in 0..Len(s), NEW n \in 0..m
  PROVE  SubSeq(SubSeq(s, 1, m), 1, n) = SubSeq(s, 1, n)
<1>1. PICK p : p = SubSeq(s, 1, m)
  OBVIOUS
<1>2. p \in Seq(S) /\ Len(p) = m /\ \A i \in 1..m : p[i] = s[i]
  BY <1>1
<1>3. PICK a, b : a = SubSeq(p, 1, n) /\ b = SubSeq(s, 1, n)
  OBVIOUS
<1>4. a \in Seq(S) /\ Len(a) = n /\ \A i \in 1..n : a[i] = p[i]
  BY <1>2, <1>3
<1>5. b \in Seq(S) /\ Len(b) = n /\ \A i \in 1..n : b[i] = s[i]
  BY <1>3
<1>6. \A i \in 1..n : a[i] = b[i]
  BY <1>2, <1>4, <1>5
<1>7. a = b
  BY <1>4, <1>5, <1>6, SeqEqual
<1> QED
  BY <1>1, <1>3, <1>7

\* What was read is what was decoded and what is held back.
LEMMA ConsumedIs ==
  ASSUME EmitType, DecodersHold
  PROVE  /\ Consumed \in Seq(Bytes) /\ half \in Seq(Bytes)
         /\ SubSeq(input, 1, taken) = Consumed \o half /\ SubSeq(input, 1, taken) \in Seq(Bytes)
         /\ half # <<>> => half[1] = "lead"
         /\ half = <<>> /\ ~ended /\ Consumed # <<>> => Consumed[Len(Consumed)] # "lead"
<1>1. /\ input \in Seq(Bytes) /\ taken \in 0..Len(input) /\ ended \in BOOLEAN
      /\ half \in {<<>>, <<"lead">>} /\ Len(half) <= taken
  BY DEF EmitType
<1>2. half = HeldBack(SubSeq(input, 1, taken), ended)
  BY DEF DecodersHold
<1>3. PICK q : q = SubSeq(input, 1, taken)
  OBVIOUS
<1>4. q \in Seq(Bytes) /\ Len(q) = taken
  BY <1>1, <1>3
<1>5. /\ half \in Seq(Bytes) /\ q = SubSeq(q, 1, Len(q) - Len(half)) \o half
      /\ HeldBack(q, FALSE) = <<>> /\ q # <<>> => q[Len(q)] # "lead"
  BY <1>1, <1>2, <1>3, <1>4, HeldBackIs
<1>6. SubSeq(q, 1, Len(q) - Len(half)) = Consumed /\ Consumed \in Seq(Bytes)
  <2>1. taken - Len(half) \in 0..taken
    BY <1>1, <1>5
  <2>2. Consumed = SubSeq(SubSeq(input, 1, taken), 1, taken - Len(half))
    BY <1>1, <2>1, PrefixOfPrefix DEF Consumed
  <2>3. SubSeq(q, 1, taken - Len(half)) \in Seq(Bytes)
    BY <1>4, <2>1
  <2> QED
    BY <1>3, <1>4, <2>2, <2>3
<1>7. half # <<>> => half[1] = "lead"
  BY <1>1
<1>8. half = <<>> /\ ~ended => q = Consumed /\ HeldBack(q, FALSE) = <<>>
  <2>1. Consumed \o <<>> = Consumed
    BY <1>6
  <2> QED
    BY <1>1, <1>2, <1>3, <1>5, <1>6, <2>1
<1> QED
  BY <1>3, <1>4, <1>5, <1>6, <1>7, <1>8

\* What a decode d leaves behind when R is all that was read.
DecodeDone(d, R, final) ==
  LET c2 == SubSeq(R, 1, Len(R) - Len(d.half))
      D2 == Decoded(c2)
  IN  /\ d.half \in {<<>>, <<"lead">>} /\ d.half = HeldBack(R, final)
      /\ Len(d.half) <= Len(R)
      /\ d.cr = (~final /\ D2 # <<>> /\ Last(D2) = "cr")
      /\ replacements + d.errors = Replacements(c2)
      /\ Translated(IF d.cr THEN Front(D2) ELSE D2) = Given \o d.text
      /\ d.text \in Seq(Plain) /\ Given \in Seq(Plain)

\* Decode does that, for both decoders together.
LEMMA DecodeDoes ==
  ASSUME EmitType, DecodersHold, ~ended, NEW chunk \in Seq(Bytes), NEW final \in BOOLEAN,
         final \/ chunk # <<>>
  PROVE  DecodeDone(Decode(chunk, final), SubSeq(input, 1, taken) \o chunk, final)
<1> DEFINE raw == half \o chunk
           h   == HeldBack(raw, final)
           b   == SubSeq(raw, 1, Len(raw) - Len(h))
           t   == NewlineText(Decoded(b), final)
           u   == IF EndsInCr(t, final) THEN Front(t) ELSE t
           cr  == IF t = <<>> THEN crHeld ELSE EndsInCr(t, final)
           d   == Decode(chunk, final)
           R   == SubSeq(input, 1, taken) \o chunk
           D   == DecodedText
<1>1. /\ d.half = h /\ d.cr = cr /\ d.text = Translated(u) /\ d.errors = Replacements(b)
  BY DEF Decode
<1>2. /\ Consumed \in Seq(Bytes) /\ half \in Seq(Bytes) /\ R = (Consumed \o half) \o chunk
      /\ half # <<>> => half[1] = "lead"
      /\ half = <<>> /\ Consumed # <<>> => Consumed[Len(Consumed)] # "lead"
  BY ConsumedIs
<1> HIDE DEF d
<1>3. /\ h = HeldBack(R, final) /\ h \in {<<>>, <<"lead">>} /\ Len(h) <= Len(R)
      /\ b \in Seq(Bytes) /\ SubSeq(R, 1, Len(R) - Len(h)) = Consumed \o b
      /\ Decoded(Consumed \o b) = Decoded(Consumed) \o Decoded(b)
      /\ Replacements(Consumed \o b) = Replacements(Consumed) + Replacements(b)
  <2> DEFINE Q == (Consumed \o half) \o chunk
  <2>1. /\ Consumed \in Seq(Bytes) /\ half \in Seq(Bytes)
        /\ half # <<>> => half[1] = "lead"
        /\ half = <<>> /\ Consumed # <<>> => Consumed[Len(Consumed)] # "lead"
    BY <1>2
  <2>2. BytesRead(Consumed, half, chunk, final)
    BY <2>1, BytesDecode
  <2>3. /\ h = HeldBack(Q, final) /\ h \in {<<>>, <<"lead">>} /\ Len(h) <= Len(Q)
        /\ b \in Seq(Bytes) /\ SubSeq(Q, 1, Len(Q) - Len(h)) = Consumed \o b
        /\ Decoded(Consumed \o b) = Decoded(Consumed) \o Decoded(b)
        /\ Replacements(Consumed \o b) = Replacements(Consumed) + Replacements(b)
    BY <2>2, Zenon DEF BytesRead
  <2> HIDE DEF R, h, b
  <2> QED
    BY <1>2, <2>3
<1> HIDE DEF h, b, R
<1>4. D \in Seq(Chars) /\ Decoded(b) \in Seq(Chars)
  BY <1>2, <1>3, DecodedType DEF DecodedText
<1>5. crHeld = (D # <<>> /\ D[Len(D)] = "cr") /\ replacements = Replacements(Consumed)
  BY DEF DecodersHold, Last
<1>6. /\ cr = (~final /\ D \o Decoded(b) # <<>> /\ Last(D \o Decoded(b)) = "cr")
      /\ u \in Seq(Chars) /\ Settled \in Seq(Chars)
      /\ Translated(IF cr THEN Front(D \o Decoded(b)) ELSE D \o Decoded(b))
           = Translated(Settled) \o Translated(u)
  BY <1>4, <1>5, NewlinesDecode DEF Settled
<1>7. Translated(u) \in Seq(Plain) /\ Given \in Seq(Plain)
  BY <1>6, TranslatedType DEF Given
<1> HIDE DEF t, u, cr, D
<1>8. Decoded(SubSeq(R, 1, Len(R) - Len(d.half))) = D \o Decoded(b)
  BY <1>1, <1>3 DEF D, DecodedText
<1> QED
  BY <1>1, <1>3, <1>5, <1>6, <1>7, <1>8 DEF DecodeDone, d, R, Given

\* Closing two texts closes the second, or the first when the second is empty.
LEMMA ClosedJoin ==
  ASSUME NEW L \in Seq(Chars), NEW text \in Seq(Chars)
  PROVE  /\ Closed(L \o text) = (L \o Closed(text))
                                   \o (IF OpenAfter(L, FALSE) /\ text = <<>> THEN <<"nl">> ELSE <<>>)
         /\ Closed(text) \in Seq(Chars) /\ (Closed(text) = <<>> <=> text = <<>>)
<1>0. "nl" \in Chars /\ <<"nl">> \in Seq(Chars)
  BY DEF Chars, Bytes, Symbols, Added
<1>1. Closed(text) \in Seq(Chars) /\ (Closed(text) = <<>> <=> text = <<>>)
  <2>1. PICK y : y = Append(text, "nl")
    OBVIOUS
  <2>2. y \in Seq(Chars) /\ y # <<>>
    BY <1>0, <2>1
  <2>3. Closed(text) = IF text = <<>> \/ Last(text) = "nl" THEN text ELSE y
    BY <2>1 DEF Closed
  <2> QED
    BY <2>2, <2>3
<1>2. CASE text = <<>>
  <2>1. L \o text = L /\ Closed(text) = <<>> /\ L \o <<>> = L
    BY <1>2 DEF Closed
  <2>2. Closed(L) = IF OpenAfter(L, FALSE) THEN Append(L, "nl") ELSE L
    BY DEF Closed, OpenAfter, Last
  <2>3. Append(L, "nl") = L \o <<"nl">>
    BY <1>0
  <2> QED
    BY <1>1, <1>2, <2>1, <2>2, <2>3
<1>3. CASE text # <<>>
  <2>1. L \o text # <<>> /\ (L \o text)[Len(L \o text)] = text[Len(text)]
    BY <1>3, FrontOfConcat
  <2>2. L \o Closed(text) \in Seq(Chars)
    BY <1>1
  <2>3. (L \o Closed(text)) \o <<>> = L \o Closed(text)
    BY <2>2
  <2>4. Closed(L \o text) = L \o Closed(text)
    <3>1. CASE text[Len(text)] = "nl"
      BY <1>3, <2>1, <3>1 DEF Closed, Last
    <3>2. CASE text[Len(text)] # "nl"
      <4>1. Append(L \o text, "nl") = L \o Append(text, "nl")
        <5>1. L \o text \in Seq(Chars)
          OBVIOUS
        <5>2. Append(L \o text, "nl") = (L \o text) \o <<"nl">>
          BY <1>0, <5>1
        <5>3. Append(text, "nl") = text \o <<"nl">>
          BY <1>0
        <5>4. PICK n \in Seq(Chars) : n = <<"nl">>
          BY <1>0
        <5>5. (L \o text) \o n = L \o (text \o n)
          BY Associative
        <5> QED
          BY <5>2, <5>3, <5>4, <5>5
      <4> QED
        BY <1>3, <2>1, <3>2, <4>1 DEF Closed, Last
    <3> QED
      BY <3>1, <3>2
  <2> QED
    BY <1>1, <1>3, <2>3, <2>4
<1> QED
  BY <1>2, <1>3

\* Concatenation of logs is associative.
LEMMA LogConcat == \A a, b, c \in Seq(LogChars) : (a \o b) \o c = a \o (b \o c)
<1> TAKE a, b, c \in Seq(LogChars)
<1> QED
  BY ConcatAssociative

\* A log that gets what is passed on, and the newline that closes an open line.
LogGrown(H, L, P, X) ==
  /\ ((H \o Stamped(L, FALSE)) \o Stamped(P, OpenAfter(L, FALSE)))
       \o Stamped(X, OpenAfter(P, OpenAfter(L, FALSE)))
       = H \o Stamped((L \o P) \o X, FALSE)
  /\ OpenAfter((L \o P) \o X, FALSE) = OpenAfter(X, OpenAfter(P, OpenAfter(L, FALSE)))
  /\ Cardinality(Newlines((L \o P) \o X))
       = Cardinality(Newlines(L)) + Cardinality(Newlines(P)) + Cardinality(Newlines(X))

\* A log grows by what is passed on, stamped from where it left off.
LEMMA LogGrows ==
  ASSUME NEW H \in Seq(LogChars), NEW L \in Seq(Chars), NEW P \in Seq(Chars),
         NEW X \in Seq(Chars)
  PROVE  LogGrown(H, L, P, X)
<1>a. OpenAfter(L, FALSE) \in BOOLEAN
  <2>1. L \in Seq(Chars) /\ <<>> \in Seq(Chars) /\ FALSE \in BOOLEAN
    OBVIOUS
  <2> QED
    BY <2>1, OpenAfterJoin
<1>b. PICK mid \in BOOLEAN : mid = OpenAfter(L, FALSE)
  BY <1>a
<1>1. PICK Q \in Seq(Chars) : Q = L \o P
  <2>1. L \o P \in Seq(Chars)
    OBVIOUS
  <2> QED
    BY <2>1
<1>2. OpenAfter(Q, FALSE) = OpenAfter(P, mid) /\ OpenAfter(Q, FALSE) \in BOOLEAN
  BY <1>1, <1>b, OpenAfterJoin
<1>3. Stamped(Q, FALSE) = Stamped(L, FALSE) \o Stamped(P, mid)
  BY <1>1, <1>b, StampedJoin
<1>4. Stamped(Q \o X, FALSE) = Stamped(Q, FALSE) \o Stamped(X, OpenAfter(P, mid))
  BY <1>2, StampedJoin
<1>5. OpenAfter(Q \o X, FALSE) = OpenAfter(X, OpenAfter(P, mid))
  <2>1. OpenAfter(Q \o X, FALSE) = OpenAfter(X, OpenAfter(Q, FALSE))
    <3>1. FALSE \in BOOLEAN
      OBVIOUS
    <3> QED
      BY <3>1, OpenAfterJoin, Zenon
  <2> QED
    BY <1>2, <2>1, Zenon
<1>6. PICK s \in Seq(LogChars), p \in Seq(LogChars), x \in Seq(LogChars) :
        s = Stamped(L, FALSE) /\ p = Stamped(P, mid) /\ x = Stamped(X, OpenAfter(P, mid))
  BY <1>2, StampedType
<1>7. ((H \o s) \o p) \o x = H \o ((s \o p) \o x)
  <2>0. \A a, b, c \in Seq(LogChars) : (a \o b) \o c = a \o (b \o c)
    BY LogConcat
  <2>1. H \o (s \o p) = (H \o s) \o p
    BY <2>0, Zenon
  <2>2. PICK r \in Seq(LogChars) : r = s \o p
    <3>1. s \o p \in Seq(LogChars)
      OBVIOUS
    <3> QED
      BY <3>1
  <2>3. (H \o r) \o x = H \o (r \o x)
    BY <2>0, Zenon
  <2> QED
    BY <2>1, <2>2, <2>3
<1>8. /\ Cardinality(Newlines(Q)) = Cardinality(Newlines(L)) + Cardinality(Newlines(P))
      /\ Cardinality(Newlines(Q \o X)) = Cardinality(Newlines(Q)) + Cardinality(Newlines(X))
  BY <1>1, NewlinesJoin, CharsAreLogged
<1>9. Q \o X \in Seq(Chars)
  OBVIOUS
<1> QED
  BY <1>b, <1>1, <1>3, <1>4, <1>5, <1>6, <1>7, <1>8, <1>9 DEF LogGrown

\* The log W is the log so far, what is passed on of a text, and at most a newline.
LogGets(W, text, final) ==
  \E X \in {<<>>, <<"nl">>} : W = (Logged \o Passed(text, final)) \o X

\* What _emit leaves behind, more and all that was there before being given.
EmitDone(final, more) ==
  LET G2 == Given \o more
      W  == IF final THEN Closed(G2) ELSE SubSeq(G2, 1, Len(G2) - Len(pending'))
  IN  /\ pending' \in Seq(Chars) /\ Len(pending') < MaxPending
      /\ \A i \in 1..Len(pending') : pending'[i] # "nl"
      /\ final => pending' = <<>>
      /\ ~final => G2 = W \o pending'
      /\ own' = Header \o Stamped(W, FALSE)
      /\ midLine' = OpenAfter(W, FALSE)
      /\ lines' = Cardinality(Newlines(W))
      /\ LogGets(W, pending \o more, final)

\* _emit does that.
LEMMA EmitDoes ==
  ASSUME NEW more \in Seq(Plain), NEW final \in BOOLEAN
  PROVE  EmitType /\ LogHolds /\ ~ended /\ Given \in Seq(Plain) /\ Emit(pending \o more, final)
           => EmitDone(final, more)
<1>s. SUFFICES ASSUME EmitType, LogHolds, ~ended, Given \in Seq(Plain), Emit(pending \o more, final)
               PROVE  EmitDone(final, more)
  OBVIOUS
<1>0. <<"nl">> \in Seq(Chars) /\ <<>> \in Seq(Chars) /\ Plain \subseteq Chars
  BY DEF Plain, Chars, Bytes, Symbols, Added
<1>1. /\ pending \in Seq(Chars) /\ midLine \in BOOLEAN /\ Header \in Seq(LogChars)
      /\ MaxPending \in Nat \ {0}
  BY <1>s, EmitAssumption DEF EmitType
<1>2. more \in Seq(Chars) /\ Given \in Seq(Chars) /\ Logged \in Seq(Chars)
  <2>1. more \in Seq(Chars) /\ Given \in Seq(Chars)
    BY <1>s, <1>0
  <2>2. Logged = SubSeq(Given, 1, Len(Given) - Len(pending)) /\ Given = Logged \o pending
    BY <1>s DEF Logged, LogHolds
  <2>3. Len(Given) - Len(pending) \in 0..Len(Given)
    BY <1>1, <2>1, <2>2
  <2> QED
    BY <2>1, <2>2, <2>3
<1>3. /\ Given = Logged \o pending /\ own = Header \o Stamped(Logged, FALSE)
      /\ midLine = OpenAfter(Logged, FALSE) /\ lines = Cardinality(Newlines(Logged))
  BY <1>s DEF LogHolds
<1>4. pending \o more \in Seq(Chars) /\ Given \o more \in Seq(Chars)
  BY <1>1, <1>2
<1>a. PICK text \in Seq(Chars) : text = pending \o more
  BY <1>4
<1>b. PICK G2 \in Seq(Chars) : G2 = Given \o more
  BY <1>4
<1>c. PICK L \in Seq(Chars) : L = Logged
  BY <1>2
<1>d. PICK mid \in BOOLEAN : mid = midLine
  BY <1>1
<1>e. PICK H \in Seq(LogChars) : H = Header
  BY <1>1
<1>f. PICK p : p = Pieces(text, final)
  OBVIOUS
<1>g. PICK rest : rest = Rest(text)
  OBVIOUS
<1> DEFINE P == Passed(text, final)
           flushed == IsFlushed(rest, final)
           closes == final /\ ~flushed /\ mid /\ p = <<>>
           X == IF closes THEN <<"nl">> ELSE <<>>
<1>5. G2 = L \o text
  <2>1. PICK q \in Seq(Chars), m \in Seq(Chars) : q = pending /\ m = more
    BY <1>1, <1>2
  <2>2. (L \o q) \o m = L \o (q \o m)
    BY Associative
  <2> QED
    BY <1>3, <1>a, <1>b, <1>c, <2>1, <2>2
<1>6. /\ own' = (own \o FlattenSeq([k \in DOMAIN p |-> OwnPiece(p[k], k = 1 /\ mid)])) \o X
      /\ lines' = lines + Cardinality({k \in DOMAIN p : Last(p[k]) = "nl"})
                    + (IF closes THEN 1 ELSE 0)
      /\ midLine' = ((IF p = <<>> THEN mid ELSE Last(Last(p)) # "nl") /\ ~closes)
      /\ pending' = IF flushed THEN <<>> ELSE rest
  BY <1>s, <1>a, <1>d, <1>f, <1>g DEF Emit
<1> HIDE DEF P, flushed, closes, X
<1>7. /\ FlattenSeq([k \in DOMAIN p |-> OwnPiece(p[k], k = 1 /\ mid)]) = Stamped(P, mid)
      /\ Cardinality({k \in DOMAIN p : Last(p[k]) = "nl"}) = Cardinality(Newlines(P))
      /\ (IF p = <<>> THEN mid ELSE Last(Last(p)) # "nl") = OpenAfter(P, mid)
      /\ p = <<>> <=> P = <<>>
  <2>1. PiecesWrite(p, Passed(text, final), mid)
    BY <1>f, EmitWrites
  <2> QED
    BY <2>1, Zenon DEF PiecesWrite, P
<1>8. /\ P \in Seq(Chars)
      /\ ~final => text = P \o (IF flushed THEN <<>> ELSE rest)
      /\ final => P = Closed(text)
      /\ rest \in Seq(Chars) /\ \A i \in 1..Len(rest) : rest[i] # "nl"
      /\ (p = <<>> /\ ~flushed) => text = rest
  BY <1>f, <1>g, PiecesAre DEF P, flushed
<1>9. flushed <=> rest # <<>> /\ (final \/ Len(rest) >= MaxPending)
  BY DEF IsFlushed, flushed
<1>10. closes <=> final /\ mid /\ text = <<>>
  <2>1. final => (P = <<>> <=> text = <<>>)
    <3>1. Closed(text) = <<>> <=> text = <<>>
      BY ClosedJoin
    <3> QED
      BY <1>8, <3>1
  <2>2. text = <<>> => rest = <<>>
    BY <1>g DEF Rest
  <2> QED
    BY <1>7, <1>8, <1>9, <2>1, <2>2 DEF closes
<1>11. /\ pending' \in Seq(Chars) /\ \A i \in 1..Len(pending') : pending'[i] # "nl"
       /\ final => pending' = <<>>
  BY <1>0, <1>6, <1>8, <1>9
<1>12. Len(pending') < MaxPending
  BY <1>1, <1>6, <1>8, <1>9
<1>13. X \in Seq(Chars) /\ Stamped(X, OpenAfter(P, mid)) = X
       /\ OpenAfter(X, OpenAfter(P, mid)) = (OpenAfter(P, mid) /\ ~closes)
       /\ Cardinality(Newlines(X)) = IF closes THEN 1 ELSE 0
  <2>1. CASE closes
    <3>1. X = <<"nl">>
      BY <2>1 DEF X
    <3>2. P = <<>>
      BY <1>7, <2>1 DEF closes
    <3>3. OpenAfter(P, mid) = TRUE
      BY <1>10, <2>1, <3>2 DEF OpenAfter
    <3>4. PICK x \in Seq(Chars) : x = <<"nl">>
      BY <1>0
    <3>5. /\ x # <<>> /\ Len(x) = 1 /\ x[Len(x)] = "nl"
          /\ \A i \in 1..Len(x) - 1 : x[i] # "nl"
      BY <3>4
    <3>6. Stamped(x, TRUE) = OwnPiece(x, TRUE) /\ Cardinality(Newlines(x)) = 1
      BY <3>5, StampedLine, NewlinesOfLine, CharsAreLogged
    <3>7. OpenAfter(x, TRUE) = FALSE
      BY <3>5 DEF OpenAfter
    <3> QED
      BY <2>1, <3>1, <3>3, <3>4, <3>6, <3>7 DEF OwnPiece
  <2>2. CASE ~closes
    <3>1. X = <<>> /\ Newlines(<<>>) = {}
      BY <2>2 DEF X, Newlines
    <3>2. OpenAfter(P, mid) \in BOOLEAN
      BY <1>1, <1>8, OpenAfterJoin
    <3> QED
      BY <1>0, <2>2, <3>1, <3>2, StampedEmpty, FS_EmptySet DEF OpenAfter
  <2> QED
    BY <2>1, <2>2
<1>v. (L \o P) \o X \in Seq(Chars)
  BY <1>8, <1>13
<1>h. PICK V \in Seq(Chars) : V = (L \o P) \o X
  BY <1>v
<1>14. /\ ((H \o Stamped(L, FALSE)) \o Stamped(P, mid)) \o Stamped(X, OpenAfter(P, mid))
            = H \o Stamped(V, FALSE)
       /\ OpenAfter(V, FALSE) = OpenAfter(X, OpenAfter(P, mid))
       /\ Cardinality(Newlines(V))
            = Cardinality(Newlines(L)) + Cardinality(Newlines(P)) + Cardinality(Newlines(X))
  <2>1. PICK P1 \in Seq(Chars), X1 \in Seq(Chars) : P1 = P /\ X1 = X
    BY <1>8, <1>13
  <2>2. /\ ((H \o Stamped(L, FALSE)) \o Stamped(P1, OpenAfter(L, FALSE)))
              \o Stamped(X1, OpenAfter(P1, OpenAfter(L, FALSE)))
              = H \o Stamped((L \o P1) \o X1, FALSE)
        /\ OpenAfter((L \o P1) \o X1, FALSE) = OpenAfter(X1, OpenAfter(P1, OpenAfter(L, FALSE)))
        /\ Cardinality(Newlines((L \o P1) \o X1))
              = Cardinality(Newlines(L)) + Cardinality(Newlines(P1)) + Cardinality(Newlines(X1))
    <3>1. LogGrown(H, L, P1, X1)
      BY LogGrows
    <3> QED
      BY <3>1, Zenon DEF LogGrown
  <2>3. OpenAfter(L, FALSE) = mid
    BY <1>3, <1>c, <1>d
  <2> QED
    BY <1>h, <2>1, <2>2, <2>3
<1>15. /\ own' = H \o Stamped(V, FALSE)
       /\ midLine' = OpenAfter(V, FALSE)
       /\ lines' = Cardinality(Newlines(V))
  <2>1. own = H \o Stamped(L, FALSE) /\ lines = Cardinality(Newlines(L))
    BY <1>3, <1>c, <1>e
  <2>2. own' = ((H \o Stamped(L, FALSE)) \o Stamped(P, mid)) \o Stamped(X, OpenAfter(P, mid))
    BY <1>6, <1>7, <1>13, <2>1
  <2>3. lines' = Cardinality(Newlines(L)) + Cardinality(Newlines(P)) + Cardinality(Newlines(X))
    BY <1>6, <1>7, <1>13, <2>1
  <2>4. midLine' = OpenAfter(X, OpenAfter(P, mid))
    BY <1>6, <1>7, <1>13
  <2> QED
    BY <1>14, <2>2, <2>3, <2>4
<1>16. final => Closed(G2) = V
  <2>1. ASSUME final PROVE Closed(G2) = V
    <3>1. Closed(L \o text) = (L \o Closed(text))
                                \o (IF OpenAfter(L, FALSE) /\ text = <<>> THEN <<"nl">> ELSE <<>>)
      BY ClosedJoin
    <3>2. OpenAfter(L, FALSE) = mid
      BY <1>3, <1>c, <1>d
    <3>3. X = IF mid /\ text = <<>> THEN <<"nl">> ELSE <<>>
      BY <1>10, <2>1 DEF X
    <3> QED
      BY <1>5, <1>8, <1>h, <2>1, <3>1, <3>2, <3>3
  <2> QED
    BY <2>1
<1>17. ~final => /\ G2 = V \o pending' /\ SubSeq(G2, 1, Len(G2) - Len(pending')) = V
  <2>1. ASSUME ~final PROVE G2 = V \o pending'
    <3>1. X = <<>>
      BY <1>10, <2>1 DEF X
    <3>2. V = L \o P
      <4>1. L \o P \in Seq(Chars)
        BY <1>8
      <4>2. \A q \in Seq(Chars) : q \o <<>> = q
        OBVIOUS
      <4> QED
        BY <1>h, <3>1, <4>1, <4>2
    <3>3. text = P \o pending'
      BY <1>6, <1>8, <2>1
    <3>4. (L \o P) \o pending' = L \o (P \o pending')
      <4>1. PICK P1 \in Seq(Chars), q \in Seq(Chars) : P1 = P /\ q = pending'
        BY <1>8, <1>11
      <4>2. (L \o P1) \o q = L \o (P1 \o q)
        BY Associative
      <4> QED
        BY <4>1, <4>2
    <3> QED
      BY <1>5, <3>2, <3>3, <3>4
  <2>2. Len(V \o pending') - Len(pending') = Len(V) /\ SubSeq(V \o pending', 1, Len(V)) = V
    BY <1>11, PrefixOfConcat
  <2> QED
    BY <2>1, <2>2
<1>18. LogGets(V, pending \o more, final)
  <2>1. X \in {<<>>, <<"nl">>}
    BY DEF X
  <2>2. V = (Logged \o Passed(pending \o more, final)) \o X
    BY <1>a, <1>c, <1>h DEF P
  <2> QED
    BY <2>1, <2>2, Zenon DEF LogGets
<1>19. V = IF final THEN Closed(G2) ELSE SubSeq(G2, 1, Len(G2) - Len(pending'))
  BY <1>16, <1>17
<1> QED
  BY <1>11, <1>12, <1>15, <1>17, <1>18, <1>19, <1>b, <1>e, Zenon DEF EmitDone

\* The log goes on with what is passed on of the text carried and the text decoded.
LogGoesOn(final) ==
  /\ Given \in Seq(Plain)
  /\ \E more \in Seq(Plain) :
       Emit(pending \o more, final) /\ LogGets(Logged', pending \o more, final)

\* A read, or the end of the stream, keeps the invariant.
LEMMA TakeDoes ==
  ASSUME NEW chunk \in Seq(Bytes), NEW final \in BOOLEAN
  PROVE  /\ EmitInvariant /\ ~ended /\ Take(chunk, final) /\ (final \/ chunk # <<>>)
         /\ input' = input /\ ended' = final /\ taken' \in 0..Len(input)
         /\ SubSeq(input, 1, taken') = SubSeq(input, 1, taken) \o chunk
         /\ final => taken' = Len(input)
         => EmitInvariant' /\ LogGoesOn(final)
<1>s. SUFFICES ASSUME EmitInvariant, ~ended, Take(chunk, final), final \/ chunk # <<>>,
                      input' = input, ended' = final, taken' \in 0..Len(input),
                      SubSeq(input, 1, taken') = SubSeq(input, 1, taken) \o chunk,
                      final => taken' = Len(input)
               PROVE  EmitInvariant' /\ LogGoesOn(final)
  OBVIOUS
<1>1. PICK d : d = Decode(chunk, final)
  OBVIOUS
<1>2. /\ half' = d.half /\ crHeld' = d.cr /\ replacements' = replacements + d.errors
      /\ Emit(pending \o d.text, final)
  BY <1>s, <1>1, Zenon DEF Take, Carried
<1>3. EmitType /\ DecodersHold /\ LogHolds
  BY <1>s DEF EmitInvariant
<1>4. /\ input \in Seq(Bytes) /\ taken \in 0..Len(input) /\ Header \in Seq(LogChars)
  BY <1>3 DEF EmitType
<1>5. PICK R : R = SubSeq(input, 1, taken')
  OBVIOUS
<1>6. R \in Seq(Bytes) /\ Len(R) = taken'
  <2>1. PICK m \in 0..Len(input) : m = taken'
    BY <1>s
  <2>2. SubSeq(input, 1, m) \in Seq(Bytes) /\ Len(SubSeq(input, 1, m)) = m
    BY <1>4
  <2> QED
    BY <1>5, <2>1, <2>2
<1>7. DecodeDone(d, R, final)
  BY <1>s, <1>1, <1>3, <1>5, DecodeDoes
<1> DEFINE C == SubSeq(R, 1, Len(R) - Len(d.half))
<1>8. /\ d.half \in {<<>>, <<"lead">>} /\ d.half = HeldBack(R, final)
      /\ Len(d.half) <= Len(R)
      /\ d.cr = (~final /\ Decoded(C) # <<>> /\ Last(Decoded(C)) = "cr")
      /\ replacements + d.errors = Replacements(C)
      /\ Translated(IF d.cr THEN Front(Decoded(C)) ELSE Decoded(C)) = Given \o d.text
      /\ d.text \in Seq(Plain) /\ Given \in Seq(Plain)
  BY <1>7, Zenon DEF DecodeDone
<1>9. Consumed' = C
  <2>0. PICK m \in 0..Len(input) : m = taken'
    BY <1>s
  <2>1. PICK n \in 0..m : n = taken' - Len(half')
    <3>1. Len(half') \in 0..taken'
      BY <1>2, <1>6, <1>8
    <3> QED
      BY <1>s, <2>0, <3>1
  <2>2. SubSeq(SubSeq(input, 1, m), 1, n) = SubSeq(input, 1, n)
    BY <1>4, PrefixOfPrefix
  <2>3. Consumed' = SubSeq(input, 1, n)
    BY <1>s, <2>1 DEF Consumed
  <2> QED
    BY <1>2, <1>5, <1>6, <2>0, <2>1, <2>2, <2>3
<1> HIDE DEF C
<1>10. DecodedText' = Decoded(C)
  BY <1>9 DEF DecodedText
<1>11. Given' = Given \o d.text
  BY <1>2, <1>8, <1>10 DEF Given, Settled
<1>12. EmitDone(final, d.text)
  BY <1>s, <1>2, <1>3, <1>8, EmitDoes
<1> DEFINE W == IF final THEN Closed(Given \o d.text)
                ELSE SubSeq(Given \o d.text, 1, Len(Given \o d.text) - Len(pending'))
<1>13. /\ pending' \in Seq(Chars) /\ Len(pending') < MaxPending
       /\ \A i \in 1..Len(pending') : pending'[i] # "nl"
       /\ final => pending' = <<>>
       /\ ~final => Given \o d.text = W \o pending'
       /\ own' = Header \o Stamped(W, FALSE)
       /\ midLine' = OpenAfter(W, FALSE)
       /\ lines' = Cardinality(Newlines(W))
       /\ LogGets(W, pending \o d.text, final)
  BY <1>12, Zenon DEF EmitDone
<1>14. Logged' = W
  BY <1>s, <1>11 DEF Logged
<1> HIDE DEF W
<1>15. LogHolds'
  <2>1. ended' => taken' = Len(input') /\ pending' = <<>>
    BY <1>s, <1>13
  <2>2. ~ended' => Given' = Logged' \o pending'
    BY <1>s, <1>11, <1>13, <1>14
  <2> QED
    BY <1>13, <1>14, <2>1, <2>2, Zenon DEF LogHolds
<1>16. DecodersHold'
  <2>1. half' = HeldBack(SubSeq(input', 1, taken'), ended')
    BY <1>s, <1>2, <1>5, <1>8
  <2>2. crHeld' = (~ended' /\ DecodedText' # <<>> /\ Last(DecodedText') = "cr")
    BY <1>s, <1>2, <1>8, <1>10
  <2>3. replacements' = Replacements(Consumed')
    BY <1>2, <1>8, <1>9
  <2> QED
    BY <2>1, <2>2, <2>3, Zenon DEF DecodersHold
<1>17. EmitType'
  <2>1. midLine' \in BOOLEAN
    BY <1>13 DEF OpenAfter
  <2>2. half' \in {<<>>, <<"lead">>} /\ Len(half') <= taken'
    BY <1>2, <1>6, <1>8
  <2>3. crHeld' \in BOOLEAN
    BY <1>2, <1>8
  <2>4. /\ input' \in Seq(Bytes) /\ taken' \in 0..Len(input') /\ ended' \in BOOLEAN
    BY <1>s, <1>4
  <2> QED
    BY <1>4, <1>13, <2>1, <2>2, <2>3, <2>4, Zenon DEF EmitType
<1>18. LogGoesOn(final)
  <2>1. LogGets(Logged', pending \o d.text, final)
    BY <1>13, <1>14
  <2> QED
    BY <1>2, <1>8, <2>1, Zenon DEF LogGoesOn
<1> QED
  BY <1>15, <1>16, <1>17, <1>18 DEF EmitInvariant

\* What a read adds to what was read before it.
LEMMA ReadMore ==
  ASSUME NEW S, NEW s \in Seq(S), NEW k \in 0..Len(s), NEW m \in k..Len(s)
  PROVE  /\ SubSeq(s, k + 1, m) \in Seq(S) /\ Len(SubSeq(s, k + 1, m)) = m - k
         /\ SubSeq(s, 1, m) = SubSeq(s, 1, k) \o SubSeq(s, k + 1, m)
<1>1. 1 \in 1..Len(s) + 1 /\ k \in 1 - 1..Len(s) /\ m \in k..Len(s)
  OBVIOUS
<1>2. SubSeq(s, 1, k) \o SubSeq(s, k + 1, m) = SubSeq(s, 1, m)
  BY <1>1, ConcatAdjacentSubSeq
<1>3. SubSeq(s, k + 1, m) \in Seq(S) /\ Len(SubSeq(s, k + 1, m)) = m - k
  OBVIOUS
<1> QED
  BY <1>2, <1>3

\* No bytes are no text.
LEMMA NothingRead ==
  Decoded(<<>>) = <<>> /\ Translated(<<>>) = <<>> /\ Replacements(<<>>) = 0
<1>1. ASSUME NEW h, Len(h) = 0, h = <<>> PROVE FlattenSeq(h) = <<>>
  BY <1>1 DEF FlattenSeq
<1>2. PICK h : h = [i \in 1..Len(<<>>) |-> CharAt(<<>>, i)]
  OBVIOUS
<1>3. PICK g : g = [i \in 1..Len(<<>>) |-> IF Pair(<<>>, i - 1, "cr", "nl") THEN <<>>
                                           ELSE IF <<>>[i] = "cr" THEN <<"nl">> ELSE <<<<>>[i]>>]
  OBVIOUS
<1>4. Len(h) = 0 /\ h = <<>> /\ Len(g) = 0 /\ g = <<>>
  BY <1>2, <1>3
<1>5. {i \in 1..Len(<<>>) : CharAt(<<>>, i) = <<"rep">>} = {}
  OBVIOUS
<1> QED
  BY <1>1, <1>2, <1>3, <1>4, <1>5, FS_EmptySet DEF Decoded, Translated, Replacements

\* Nothing is read and nothing is written yet.
LEMMA EmitInvariantStarts == Init => EmitInvariant
<1>s. SUFFICES ASSUME Init PROVE EmitInvariant
  OBVIOUS
<1>1. /\ input \in Seq(Bytes) /\ taken = 0 /\ half = <<>> /\ crHeld = FALSE
      /\ pending = <<>> /\ midLine = FALSE /\ lines = 0 /\ replacements = 0 /\ ended = FALSE
      /\ own = Header
  BY <1>s, EmitAssumption DEF Init, EmitInit, Bytes
<1>2. Header \in Seq(LogChars) /\ MaxPending \in Nat \ {0}
  <2>1. Symbols \subseteq LogChars
    BY DEF LogChars, Chars, Bytes
  <2> QED
    BY <2>1, EmitAssumption
<1>3. SubSeq(input, 1, 0) = <<>> /\ Consumed = <<>>
  BY <1>1 DEF Consumed
<1>4. DecodedText = <<>> /\ Replacements(<<>>) = 0
  BY <1>3, NothingRead DEF DecodedText
<1>5. Given = <<>>
  BY <1>1, <1>4, NothingRead DEF Given, Settled
<1>6. Logged = <<>>
  BY <1>1, <1>5 DEF Logged
<1>7. Stamped(<<>>, FALSE) = <<>> /\ Newlines(<<>>) = {}
  <2>1. Newlines(<<>>) = {}
    BY DEF Newlines
  <2> QED
    BY <2>1, StampedEmpty
<1>8. EmitType
  <2>1. taken \in 0..Len(input) /\ Len(half) <= taken
    BY <1>1
  <2>2. /\ half \in {<<>>, <<"lead">>} /\ pending \in Seq(Chars)
        /\ crHeld \in BOOLEAN /\ midLine \in BOOLEAN /\ ended \in BOOLEAN
    <3>1. <<>> \in Seq(Chars)
      OBVIOUS
    <3> QED
      BY <1>1, <3>1, Zenon
  <2> QED
    BY <1>1, <1>2, <2>1, <2>2, Zenon DEF EmitType
<1>9. DecodersHold
  BY <1>1, <1>3, <1>4 DEF DecodersHold, HeldBack
<1>10. LogHolds
  <2>1. own = Header \o Stamped(Logged, FALSE)
    <3>1. Header \o <<>> = Header
      BY <1>2
    <3> QED
      BY <1>1, <1>6, <1>7, <3>1
  <2>2. midLine = OpenAfter(Logged, FALSE) /\ lines = Cardinality(Newlines(Logged))
    BY <1>1, <1>6, <1>7, FS_EmptySet DEF OpenAfter
  <2>3. ~ended => Given = Logged \o pending
    BY <1>1, <1>5, <1>6
  <2>4. Len(pending) < MaxPending /\ \A i \in 1..Len(pending) : pending[i] # "nl"
    BY <1>1, <1>2
  <2> QED
    BY <1>1, <2>1, <2>2, <2>3, <2>4 DEF LogHolds
<1> QED
  BY <1>8, <1>9, <1>10 DEF EmitInvariant

\* Every step keeps the invariant; only the reader's own steps touch what it is about.
LEMMA EmitInvariantKept ==
  EmitInvariant /\ [Next]_vars =>
    /\ EmitInvariant'
    /\ UNCHANGED emitVars \/ (~ended /\ (LogGoesOn(TRUE) \/ LogGoesOn(FALSE)))
<1>s. SUFFICES ASSUME EmitInvariant, [Next]_vars
               PROVE  /\ EmitInvariant'
                      /\ UNCHANGED emitVars \/ (~ended /\ (LogGoesOn(TRUE) \/ LogGoesOn(FALSE)))
  OBVIOUS
<1>1. /\ input \in Seq(Bytes) /\ taken \in 0..Len(input) /\ ReadChunk \in Nat \ {0}
  BY <1>s, EmitAssumption DEF EmitInvariant, EmitType
<1>2. CASE ReadSome
  <2>1. PICK n \in 1..ReadChunk :
          /\ taken + n <= Len(input) /\ taken' = taken + n
          /\ Take(SubSeq(input, taken + 1, taken + n), FALSE)
    BY <1>2, Zenon DEF ReadSome
  <2>2. ~ended /\ ended' = FALSE /\ input' = input
    BY <1>2 DEF ReadSome
  <2>4. PICK q \in Seq(Bytes) : q = input
    BY <1>1
  <2>3. PICK k \in 0..Len(q) : k = taken
    BY <1>1, <2>4
  <2>5. PICK m \in k..Len(q) : m = taken + n /\ k < m
    BY <1>1, <2>1, <2>3, <2>4
  <2>6. /\ SubSeq(q, k + 1, m) \in Seq(Bytes) /\ Len(SubSeq(q, k + 1, m)) = m - k
        /\ SubSeq(q, 1, m) = SubSeq(q, 1, k) \o SubSeq(q, k + 1, m)
    BY ReadMore
  <2> QED
    <3>1. PICK c \in Seq(Bytes) : c = SubSeq(q, k + 1, m)
      BY <2>6
    <3>2. Len(c) > 0
      BY <2>5, <2>6, <3>1
    <3>3. c # <<>>
      BY <3>2
    <3>4. taken' \in 0..Len(input)
      BY <1>1, <2>1
    <3>5. Take(c, FALSE) /\ SubSeq(input, 1, taken') = SubSeq(input, 1, taken) \o c
      BY <2>1, <2>3, <2>4, <2>5, <2>6, <3>1
    <3> QED
      BY <1>s, <2>2, <3>3, <3>4, <3>5, TakeDoes
<1>3. CASE ReadEnd
  <2>1. ~ended /\ ended' = TRUE /\ input' = input /\ taken = Len(input) /\ taken' = taken
        /\ Take(<<>>, TRUE)
    BY <1>3 DEF ReadEnd
  <2>2. <<>> \in Seq(Bytes) /\ SubSeq(input, 1, taken') = SubSeq(input, 1, taken) \o <<>>
    <3>1. SubSeq(input, 1, taken) \in Seq(Bytes)
      BY <1>1
    <3> QED
      BY <2>1, <3>1
  <2> QED
    BY <1>s, <1>1, <2>1, <2>2, TakeDoes
<1>4. CASE UNCHANGED emitVars
  <2>1. /\ input' = input /\ taken' = taken /\ half' = half /\ crHeld' = crHeld
        /\ pending' = pending /\ midLine' = midLine /\ own' = own /\ lines' = lines
        /\ replacements' = replacements /\ ended' = ended
    BY <1>4 DEF emitVars
  <2>2. EmitInvariant'
    BY <1>s, <2>1, Zenon DEF EmitInvariant, EmitType, DecodersHold, LogHolds, Logged, Given,
       Settled, DecodedText, Consumed
  <2> QED
    BY <1>4, <2>2
<1> QED
  BY <1>s, <1>2, <1>3, <1>4 DEF Next, Read, EmitNext, ReadBack, Classify, vars

-----------------------------------------------------------------------------
(* From the invariant to what the log shows.                               *)

\* What follows a header.
LEMMA SuffixOfConcat ==
  ASSUME NEW S, NEW s \in Seq(S), NEW t \in Seq(S)
  PROVE  SubSeq(s \o t, Len(s) + 1, Len(s \o t)) = t
<1> DEFINE q == SubSeq(s \o t, Len(s) + 1, Len(s \o t))
<1>1. Len(s \o t) = Len(s) + Len(t) /\ s \o t \in Seq(S)
  OBVIOUS
<1>2. q \in Seq(S) /\ Len(q) = Len(t) /\ \A i \in 1..Len(t) : q[i] = t[i]
  BY <1>1
<1> HIDE DEF q
<1>3. q = t
  BY <1>2, SeqEqual
<1> QED
  BY <1>3 DEF q

\* Nothing follows the complete lines of a text just when it is closed.
LEMMA RestOfClosed ==
  ASSUME NEW t \in Seq(Chars)
  PROVE  /\ Rest(t) = <<>> <=> Closed(t) = t
         /\ Rest(t) = <<>> => SubSeq(t, 1, LineEnd(t, Cardinality(Newlines(t)))) = t
<1> DEFINE e == LineEnd(t, Cardinality(Newlines(t)))
<1>2. /\ e \in 0..Len(t) /\ (e # 0 => t[e] = "nl")
      /\ SubSeq(t, 1, e) \in Seq(Chars) /\ Rest(t) \in Seq(Chars)
      /\ t = SubSeq(t, 1, e) \o Rest(t)
      /\ Len(Rest(t)) = Len(t) - e
  BY RestIs, CharsAreLogged
<1>r. \A i \in 1..Len(Rest(t)) : Rest(t)[i] # "nl"
  BY RestIs, CharsAreLogged
<1> HIDE DEF e
<1>3. PICK r \in Seq(Chars) : r = Rest(t)
  BY <1>2
<1>4. ASSUME r = <<>> PROVE t = <<>> \/ t[Len(t)] = "nl"
  <2>1. e = Len(t)
    BY <1>2, <1>3, <1>4
  <2> QED
    BY <1>2, <2>1
<1>5. ASSUME t # <<>>, t[Len(t)] = "nl" PROVE r = <<>>
  <2>1. SUFFICES ASSUME r # <<>> PROVE FALSE
    OBVIOUS
  <2>2. Len(r) \in 1..Len(r) /\ r[Len(r)] # "nl"
    BY <1>r, <1>3, <2>1
  <2>3. PICK a \in Seq(Chars) : a = SubSeq(t, 1, e)
    BY <1>2
  <2>4. (a \o r)[Len(a \o r)] = r[Len(r)]
    BY <2>1
  <2> QED
    BY <1>2, <1>3, <1>5, <2>2, <2>3, <2>4
<1>6. ASSUME t = <<>> PROVE r = <<>>
  BY <1>2, <1>3, <1>6
<1>7. Rest(t) = <<>> <=> t = <<>> \/ t[Len(t)] = "nl"
  BY <1>3, <1>4, <1>5, <1>6
<1>8. Append(t, "nl") # t
  OBVIOUS
<1>9. Closed(t) = t <=> t = <<>> \/ t[Len(t)] = "nl"
  BY <1>8 DEF Closed, Last
<1>10. ASSUME r = <<>> PROVE SubSeq(t, 1, e) = t
  <2>1. PICK a \in Seq(Chars) : a = SubSeq(t, 1, e)
    BY <1>2
  <2>2. a \o <<>> = a
    OBVIOUS
  <2> QED
    BY <1>2, <1>3, <1>10, <2>1, <2>2
<1> QED
  BY <1>3, <1>7, <1>9, <1>10 DEF e

\* The lines of a text that has gone through the newline decoder.
LEMMA SplitOf ==
  ASSUME NEW t \in Seq(Plain)
  PROVE  SplitLines(t) = IF Rest(t) = <<>> THEN CompleteLines(t)
                         ELSE Append(CompleteLines(t), Rest(t))
<1>1. "cr" \notin Plain
  BY DEF Plain
<1>2. Translated(t) = t
  BY <1>1, TranslatedSame
<1> QED
  BY <1>2 DEF SplitLines

\* Closing a text completes its last line.
LEMMA ClosedIs ==
  ASSUME NEW t \in Seq(Plain)
  PROVE  /\ Closed(t) \in Seq(Plain) /\ Closed(Closed(t)) = Closed(t)
         /\ t \in Seq(Chars) /\ Closed(t) \in Seq(Chars)
<1>1. "nl" \in Plain /\ Plain \subseteq Chars
  BY DEF Plain, Chars, Bytes, Symbols, Added
<1>2. PICK a : a = Append(t, "nl")
  OBVIOUS
<1>3. a \in Seq(Plain) /\ a # <<>> /\ a[Len(a)] = "nl"
  BY <1>1, <1>2
<1>4. Closed(t) = IF t = <<>> \/ t[Len(t)] = "nl" THEN t ELSE a
  BY <1>2 DEF Closed, Last
<1>5. Closed(t) \in Seq(Plain)
  BY <1>3, <1>4
<1>6. Closed(t) = <<>> \/ Closed(t)[Len(Closed(t))] = "nl"
  BY <1>3, <1>4
<1>7. Closed(Closed(t)) = Closed(t)
  <2>1. PICK c : c = Closed(t)
    OBVIOUS
  <2> QED
    BY <1>6, <2>1 DEF Closed, Last
<1>8. t \in Seq(Chars) /\ Closed(t) \in Seq(Chars)
  BY <1>1, <1>5
<1> QED
  BY <1>5, <1>7, <1>8

\* The log of a closed text is its lines with a stamp each.
LEMMA StampedLinesAre ==
  ASSUME NEW t \in Seq(Plain), NEW p, p = SplitLines(Closed(t))
  PROVE  Stamped(Closed(t), FALSE) = FlattenSeq([k \in 1..Len(p) |-> <<"stamp">> \o p[k]])
<1>1. PICK c \in Seq(Plain) : c = Closed(t) /\ c \in Seq(Chars) /\ Closed(c) = c
  BY ClosedIs
<1>2. Rest(c) = <<>> /\ SubSeq(c, 1, LineEnd(c, Cardinality(Newlines(c)))) = c
  BY <1>1, RestOfClosed
<1>3. p = CompleteLines(c)
  BY <1>1, <1>2, SplitOf
<1>4. p \in Seq(Seq(Chars)) /\ AreLines(p) /\ FlattenSeq(p) = c
  BY <1>1, <1>2, <1>3, CompleteLinesAre, CharsAreLogged
<1>5. PICK h : h = [k \in 1..Len(p) |-> OwnPiece(p[k], k = 1 /\ FALSE)]
  OBVIOUS
<1>6. FlattenSeq(h) = Stamped(FlattenSeq(p), FALSE)
  BY <1>4, <1>5, LinesStamped
<1>7. h = [k \in 1..Len(p) |-> <<"stamp">> \o p[k]]
  BY <1>5 DEF OwnPiece
<1> QED
  BY <1>1, <1>4, <1>6, <1>7

\* As many newlines as a text has lines, once it is closed.
LEMMA LinesOfClosed ==
  ASSUME NEW t \in Seq(Plain)
  PROVE  Cardinality(Newlines(Closed(t))) = Len(SplitLines(t))
<1>1. t \in Seq(Chars) /\ <<"nl">> \in Seq(Chars)
  <2>1. "nl" \in Chars
    BY DEF Chars, Bytes, Symbols, Added
  <2> QED
    BY <2>1, ClosedIs
<1>2. /\ CompleteLines(t) \in Seq(Seq(Chars)) /\ Len(CompleteLines(t)) = Cardinality(Newlines(t))
      /\ Rest(t) = <<>> <=> Closed(t) = t
  BY <1>1, CompleteLinesAre, RestOfClosed, CharsAreLogged
<1>3. CASE Rest(t) = <<>>
  BY <1>2, <1>3, SplitOf
<1>4. CASE Rest(t) # <<>>
  <2>1. Closed(t) = t \o <<"nl">>
    BY <1>2, <1>4 DEF Closed
  <2>2. PICK n \in Seq(Chars) : n = <<"nl">>
    BY <1>1
  <2>3. Cardinality(Newlines(t \o n)) = Cardinality(Newlines(t)) + Cardinality(Newlines(n))
    BY <1>1, NewlinesJoin, CharsAreLogged
  <2>4. Cardinality(Newlines(n)) = 1
    <3>1. n # <<>> /\ n[Len(n)] = "nl" /\ \A i \in 1..Len(n) - 1 : n[i] # "nl"
      BY <2>2
    <3> QED
      BY <3>1, NewlinesOfLine, CharsAreLogged
  <2>5. Len(Append(CompleteLines(t), Rest(t))) = Len(CompleteLines(t)) + 1
    BY <1>2
  <2> QED
    BY <1>2, <1>4, <2>1, <2>2, <2>3, <2>4, <2>5, SplitOf
<1> QED
  BY <1>3, <1>4

\* Leaving out symbols of the parts leaves them out of the whole.
LEMMA WithoutJoin ==
  \A S, A : \A s, t \in Seq(S) :
    /\ Without(s, A) \in Seq(S)
    /\ \A u : u = s \o t => Without(u, A) = Without(s, A) \o Without(t, A)
<1> TAKE S, A
<1> TAKE s, t \in Seq(S)
<1> DEFINE C(x) == IF x \in A THEN <<>> ELSE <<x>>
           f == [i \in 1..Len(s) |-> C(s[i])]
           g == [i \in 1..Len(t) |-> C(t[i])]
           q == s \o t
           h == [i \in 1..Len(q) |-> C(q[i])]
           n == Len(q)
<1>1. \A x \in S : C(x) \in Seq(S)
  OBVIOUS
<1>2. /\ f \in Seq(Seq(S)) /\ g \in Seq(Seq(S)) /\ Len(f) = Len(s) /\ Len(g) = Len(t)
  <2>1. \A i \in 1..Len(s) : s[i] \in S
    OBVIOUS
  <2>2. \A i \in 1..Len(t) : t[i] \in S
    OBVIOUS
  <2> HIDE DEF C
  <2> QED
    BY <1>1, <2>1, <2>2
<1>3. /\ Len(q) = Len(s) + Len(t) /\ \A i \in 1..Len(s) : q[i] = s[i]
      /\ \A j \in 1..Len(t) : q[Len(s) + j] = t[j]
  OBVIOUS
<1>4. /\ \A i \in 1..Len(s) : h[i] = f[i]
      /\ \A j \in 1..Len(t) : h[Len(s) + j] = g[j]
  <2> HIDE DEF C, q
  <2>1. \A i \in 1..Len(s) : i \in 1..Len(q)
    BY <1>3
  <2>2. \A j \in 1..Len(t) : Len(s) + j \in 1..Len(q)
    BY <1>3
  <2> QED
    BY <1>3, <2>1, <2>2
<1>5. /\ h = [i \in 1..n |-> h[i]] /\ n = Len(f) + Len(g)
      /\ \A i \in 1..Len(f) : h[i] = f[i]
      /\ \A j \in 1..Len(g) : h[Len(f) + j] = g[j]
  <2>1. h = [i \in 1..n |-> h[i]]
    OBVIOUS
  <2> HIDE DEF f, g, h, q, C
  <2> QED
    BY <1>2, <1>3, <1>4, <2>1
<1>6. Without(s, A) = FlattenSeq(f) /\ Without(t, A) = FlattenSeq(g) /\ Without(q, A) = FlattenSeq(h)
  BY DEF Without
<1>7. n \in Nat
  OBVIOUS
<1> HIDE DEF f, g, h, n, C
<1>8. FlattenSeq(h) = FlattenSeq(f) \o FlattenSeq(g)
  BY <1>2, <1>5, <1>7, FlattenJoin
<1>9. FlattenSeq(f) \in Seq(S)
  BY <1>2, FlattenType
<1> QED
  BY <1>6, <1>8, <1>9, Zenon

\* The same for logs and for texts of characters.
LEMMA WithoutJoins ==
  /\ \A s, t \in Seq(LogChars) : \A A : Without(s \o t, A) = Without(s, A) \o Without(t, A)
  /\ \A s, t \in Seq(Chars) : \A A : Without(s \o t, A) = Without(s, A) \o Without(t, A)
BY WithoutJoin

\* A symbol of S is a sequence over S of length one.
LEMMA SinglesAre == \A S : \A x \in S : \E z \in Seq(S) : z = <<x>>
<1> TAKE S
<1> TAKE x \in S
<1>1. <<x>> \in Seq(S)
  OBVIOUS
<1> QED
  BY <1>1

\* What is left of a single symbol, and of none.
LEMMA WithoutOne ==
  ASSUME NEW x, NEW A
  PROVE  Without(<<x>>, A) = (IF x \in A THEN <<>> ELSE <<x>>) /\ Without(<<>>, A) = <<>>
<1>1. PICK h : h = [i \in 1..Len(<<x>>) |-> IF <<x>>[i] \in A THEN <<>> ELSE <<<<x>>[i]>>]
  OBVIOUS
<1>2. PICK c \in Seq({x}) : c = IF x \in A THEN <<>> ELSE <<x>>
  <2>1. <<>> \in Seq({x}) /\ <<x>> \in Seq({x})
    OBVIOUS
  <2> QED
    BY <2>1
<1>3. h = <<c>>
  BY <1>1, <1>2
<1>4. FlattenSeq(h) = c
  BY <1>3, FlattenOne
<1>5. ASSUME NEW g, g = [i \in 1..Len(<<>>) |-> IF <<>>[i] \in A THEN <<>> ELSE <<<<>>[i]>>]
      PROVE  FlattenSeq(g) = <<>>
  <2>1. Len(g) = 0 /\ g = <<>>
    BY <1>5
  <2> QED
    BY <2>1 DEF FlattenSeq
<1> QED
  BY <1>1, <1>2, <1>4, <1>5 DEF Without

\* Without what the readers add, the log is the text, and without its newlines the same.
LEMMA StampsRemoved ==
  ASSUME NEW t \in Seq(Chars), NEW mid \in BOOLEAN, NEW A \in SUBSET Chars
  PROVE  Without(Stamped(t, mid), {"stamp"} \cup A) = Without(t, A)
<1> DEFINE B == {"stamp"} \cup A
           h == [i \in 1..Len(t) |-> IF BeginsLine(t, i, mid) THEN <<"stamp", t[i]>>
                                                             ELSE <<t[i]>>]
           F(i) == FlattenSeq(SubSeq(h, 1, i))
           P(i) == SubSeq(t, 1, i)
           T == {i \in 0..Len(t) : Without(F(i), B) = Without(P(i), A)}
<1>1. h \in Seq(Seq(LogChars)) /\ Len(h) = Len(t)
  <2>1. h \in Seq(Seq(LogChars))
    BY StampedType
  <2> QED
    BY <2>1
<1>2. 0 \in T
  <2>1. SubSeq(h, 1, 0) = <<>> /\ P(0) = <<>> /\ 0 \in 0..Len(t)
    BY <1>1
  <2>2. FlattenSeq(<<>>) = <<>>
    BY DEF FlattenSeq
  <2> HIDE DEF h, B
  <2> QED
    BY <2>1, <2>2, WithoutOne
<1>3. ASSUME NEW i \in 0..Len(t) - 1, i \in T PROVE i + 1 \in T
  <2> HIDE DEF h, B
  <2>1. i \in 0..Len(h) - 1 /\ i + 1 \in 1..Len(t) /\ i + 1 \in 0..Len(t)
    BY <1>1
  <2>2. /\ SubSeq(h, 1, i) \in Seq(Seq(LogChars)) /\ h[i + 1] \in Seq(LogChars)
        /\ SubSeq(h, 1, i + 1) = Append(SubSeq(h, 1, i), h[i + 1])
    BY <1>1, <2>1, PrefixGrows
  <2>3. PICK a \in Seq(LogChars) : a = F(i)
    BY <2>2, FlattenType
  <2>4. PICK y \in Seq(LogChars) : y = h[i + 1]
    BY <2>2
  <2>5. F(i + 1) = a \o y
    BY <2>2, <2>3, FlattenAppend, <2>4
  <2>6. Without(a \o y, B) = Without(a, B) \o Without(y, B)
    BY WithoutJoins
  <2>7. P(i) \in Seq(Chars) /\ t[i + 1] \in Chars /\ P(i + 1) = Append(P(i), t[i + 1])
    BY <2>1, PrefixGrows
  <2>8. PICK b \in Seq(Chars), x \in Chars : b = P(i) /\ x = t[i + 1]
    BY <2>7
  <2>9. PICK z \in Seq(Chars) : z = <<x>>
    BY SinglesAre
  <2>10. P(i + 1) = b \o z
    BY <2>7, <2>8, <2>9, AppendIsConcat
  <2>11. Without(b \o z, A) = Without(b, A) \o Without(z, A)
    BY WithoutJoins
  <2>12. Without(y, B) = Without(z, A)
    <3>1. x # "stamp" /\ (x \in B <=> x \in A)
      BY DEF B, Chars, Bytes, Symbols, Added
    <3>2. Without(z, B) = Without(z, A)
      BY <2>9, <3>1, WithoutOne
    <3>3. CASE y = <<"stamp", x>>
      <4>0. "stamp" \in LogChars /\ x \in LogChars
        BY DEF LogChars, Added
      <4>1. PICK p \in Seq(LogChars) : p = <<"stamp">>
        BY <4>0, SinglesAre
      <4>2. PICK z1 \in Seq(LogChars) : z1 = <<x>>
        BY <4>0, SinglesAre
      <4>3. y = p \o z1
        BY <3>3, <4>1, <4>2
      <4>4. Without(p \o z1, B) = Without(p, B) \o Without(z1, B)
        BY WithoutJoins
      <4>5. Without(p, B) = <<>>
        BY <4>1, WithoutOne DEF B
      <4>6. Without(z1, B) \in Seq(LogChars)
        BY WithoutJoin
      <4>7. <<>> \o Without(z1, B) = Without(z1, B)
        BY <4>6
      <4> QED
        BY <2>9, <3>2, <4>2, <4>3, <4>4, <4>5, <4>7
    <3>4. CASE y = <<x>>
      BY <2>9, <3>2, <3>4
    <3>5. y = <<"stamp", x>> \/ y = <<x>>
      BY <2>1, <2>4, <2>8 DEF h
    <3> QED
      BY <3>3, <3>4, <3>5
  <2> QED
    BY <1>3, <2>1, <2>3, <2>5, <2>6, <2>8, <2>10, <2>11, <2>12
<1> HIDE DEF T
<1>4. Len(t) \in T
  BY <1>2, <1>3, CountUp
<1>5. SubSeq(h, 1, Len(t)) = h /\ P(Len(t)) = t
  BY <1>1, WholePrefix
<1> QED
  BY <1>4, <1>5 DEF T, Stamped

\* What the log's own conjuncts mean for a reader of it.
LEMMA LogIsTheOutputHolds == EmitInvariant => LogIsTheOutput
<1>s. SUFFICES ASSUME EmitInvariant PROVE LogIsTheOutput
  OBVIOUS
<1>1. EmitType /\ DecodersHold /\ LogHolds
  BY <1>s DEF EmitInvariant
<1>2. /\ input \in Seq(Bytes) /\ taken \in 0..Len(input) /\ half \in {<<>>, <<"lead">>}
      /\ ended \in BOOLEAN /\ pending \in Seq(Chars) /\ Header \in Seq(LogChars)
  BY <1>1 DEF EmitType
<1>3. Consumed \in Seq(Bytes) /\ SubSeq(input, 1, taken) = Consumed \o half
  BY <1>1, ConsumedIs
<1>4. DecodedText \in Seq(Chars)
  BY <1>3, DecodedType DEF DecodedText
<1>5. half = <<>> /\ ~crHeld => Given = TextOf(SubSeq(input, 1, taken))
  <2>1. Consumed \o <<>> = Consumed
    BY <1>3
  <2>2. half = <<>> => SubSeq(input, 1, taken) = Consumed
    BY <1>3, <2>1
  <2> QED
    BY <2>2 DEF Given, Settled, DecodedText, TextOf
<1>6. half = <<>> /\ ~crHeld => Given \in Seq(Plain)
  BY <1>4, TranslatedType DEF Given, Settled
<1>7. PICK logged : logged = Logged
  OBVIOUS
<1>8. Len(pending) < MaxPending /\ own = Header \o Stamped(logged, FALSE)
      /\ lines = Cardinality(Newlines(logged))
  BY <1>1, <1>7 DEF LogHolds
<1>9. ASSUME logged \in Seq(Chars) PROVE Body(own) = Stamped(logged, FALSE)
  <2>1. Stamped(logged, FALSE) \in Seq(LogChars)
    BY <1>9, StampedType
  <2>2. PICK H \in Seq(LogChars), x \in Seq(LogChars) : H = Header /\ x = Stamped(logged, FALSE)
    BY <1>2, <2>1
  <2>3. SubSeq(H \o x, Len(H) + 1, Len(H \o x)) = x
    BY SuffixOfConcat
  <2> QED
    BY <1>8, <2>2, <2>3 DEF Body
<1>10. ASSUME ended
       PROVE  /\ Body(own) = FlattenSeq([k \in 1..Len(SplitLines(Closed(TextOf(input)))) |->
                                           <<"stamp">> \o SplitLines(Closed(TextOf(input)))[k]])
              /\ lines = Len(SplitLines(TextOf(input)))
              /\ replacements = Replacements(input)
  <2>1. half = <<>> /\ ~crHeld /\ taken = Len(input)
    BY <1>1, <1>10 DEF DecodersHold, HeldBack, LogHolds
  <2>2. SubSeq(input, 1, Len(input)) = input
    BY <1>2, WholePrefix
  <2>3. Consumed = input
    <3>1. Consumed \o <<>> = Consumed
      BY <1>3
    <3> QED
      BY <1>3, <2>1, <2>2, <3>1
  <2>4. PICK t \in Seq(Plain) : t = TextOf(input)
    BY <1>5, <1>6, <2>1, <2>2
  <2>5. logged = Closed(t) /\ Closed(t) \in Seq(Chars)
    <3>1. logged = Closed(t)
      BY <1>5, <1>7, <1>10, <2>1, <2>2, <2>4 DEF Logged
    <3> QED
      BY <3>1, ClosedIs
  <2>6. PICK p : p = SplitLines(Closed(t))
    OBVIOUS
  <2>7. Stamped(Closed(t), FALSE) = FlattenSeq([k \in 1..Len(p) |-> <<"stamp">> \o p[k]])
    BY <2>6, StampedLinesAre
  <2>8. Cardinality(Newlines(Closed(t))) = Len(SplitLines(t))
    BY LinesOfClosed
  <2>9. replacements = Replacements(input)
    BY <1>1, <2>3 DEF DecodersHold
  <2> QED
    BY <1>8, <1>9, <2>4, <2>5, <2>6, <2>7, <2>8, <2>9, Zenon
<1>11. ASSUME ~ended, ~crHeld, half = <<>>
       PROVE  Without(Body(own), {"stamp"}) \o pending = TextOf(SubSeq(input, 1, taken))
  <2>1. Given = TextOf(SubSeq(input, 1, taken)) /\ Given \in Seq(Plain) /\ Given = logged \o pending
    BY <1>1, <1>5, <1>6, <1>7, <1>11 DEF LogHolds
  <2>2. logged \in Seq(Chars)
    <3>1. PICK g \in Seq(Chars) : g = Given
      BY <2>1, ClosedIs
    <3>2. PICK l \in Int : l = Len(g) - Len(pending)
      BY <1>2
    <3>3. logged = SubSeq(g, 1, l)
      BY <1>7, <1>11, <3>1, <3>2 DEF Logged
    <3>4. l <= Len(g)
      BY <1>2, <3>2
    <3>5. SubSeq(g, 1, l) \in Seq(Chars)
      BY <3>4
    <3> QED
      BY <3>3, <3>5
  <2>3. PICK q \in Seq(Chars) : q = logged
    BY <2>2
  <2>4. Without(Stamped(q, FALSE), {"stamp"} \cup {}) = Without(q, {})
    <3>1. {} \in SUBSET Chars
      OBVIOUS
    <3> QED
      BY <3>1, StampsRemoved
  <2>5. Without(q, {}) = q
    <3>1. PICK h : h = [i \in 1..Len(q) |-> IF q[i] \in {} THEN <<>> ELSE <<q[i]>>]
      OBVIOUS
    <3>2. h = [i \in 1..Len(q) |-> <<q[i]>>]
      BY <3>1
    <3>3. FlattenSeq(h) = q
      BY <3>2, FlattenSingles
    <3> QED
      BY <3>1, <3>3 DEF Without
  <2>6. {"stamp"} \cup {} = {"stamp"}
    OBVIOUS
  <2> QED
    BY <1>9, <2>1, <2>2, <2>3, <2>4, <2>5, <2>6
<1> QED
  BY <1>8, <1>10, <1>11, Zenon DEF LogIsTheOutput

-----------------------------------------------------------------------------
(* Combined.log: whole lines, each with its tag, of the same characters.   *)

TagChars == Plain \cup {"tag"}

\* Whole lines without "\r", each of which begins with its tag.
Tagged(c) ==
  /\ c \in Seq(TagChars)
  /\ c # <<>> => c[Len(c)] = "nl"
  /\ \A i \in 1..Len(c) : (i = 1 \/ c[i - 1] = "nl") => c[i] = "tag"

\* Tagged lines behind tagged lines.
LEMMA TaggedJoin ==
  ASSUME NEW s \in Seq(TagChars), NEW t \in Seq(TagChars)
  PROVE  Tagged(s) /\ Tagged(t) => Tagged(s \o t) /\ s \o t \in Seq(TagChars)
<1>s. SUFFICES ASSUME Tagged(s), Tagged(t) PROVE Tagged(s \o t) /\ s \o t \in Seq(TagChars)
  OBVIOUS
<1>1. PICK q \in Seq(TagChars) : q = s \o t
  <2>1. s \o t \in Seq(TagChars)
    OBVIOUS
  <2> QED
    BY <2>1
<1>2. /\ Len(q) = Len(s) + Len(t) /\ \A i \in 1..Len(s) : q[i] = s[i]
      /\ \A j \in 1..Len(t) : q[Len(s) + j] = t[j]
  BY <1>1
<1>3. ASSUME q # <<>> PROVE q[Len(q)] = "nl"
  <2>1. CASE t # <<>>
    <3>1. Len(t) \in 1..Len(t) /\ q[Len(q)] = t[Len(t)]
      BY <1>2, <2>1
    <3> QED
      BY <1>s, <2>1, <3>1 DEF Tagged
  <2>2. CASE t = <<>>
    <3>1. Len(q) = Len(s) /\ Len(s) # 0
      BY <1>2, <1>3, <2>2
    <3>2. s # <<>> /\ q[Len(q)] = s[Len(s)]
      BY <1>2, <3>1
    <3> QED
      BY <1>s, <3>2 DEF Tagged
  <2> QED
    BY <2>1, <2>2
<1>4. ASSUME NEW i \in 1..Len(q), i = 1 \/ q[i - 1] = "nl" PROVE q[i] = "tag"
  <2>1. CASE i <= Len(s)
    <3>1. i \in 1..Len(s) /\ q[i] = s[i] /\ (i # 1 => q[i - 1] = s[i - 1])
      BY <1>2, <2>1
    <3> QED
      BY <1>s, <1>4, <3>1 DEF Tagged
  <2>2. CASE i > Len(s)
    <3>1. PICK j \in 1..Len(t) : i = Len(s) + j
      <4>1. i - Len(s) \in 1..Len(t) /\ i = Len(s) + (i - Len(s))
        BY <1>2, <2>2
      <4> QED
        BY <4>1
    <3>2. q[i] = t[j] /\ (j # 1 => i # 1 /\ q[i - 1] = t[j - 1])
      <4>1. j # 1 => j - 1 \in 1..Len(t) /\ i - 1 = Len(s) + (j - 1)
        BY <3>1
      <4> QED
        BY <1>2, <3>1, <4>1
    <3> QED
      BY <1>s, <1>4, <3>2 DEF Tagged
  <2> QED
    BY <2>1, <2>2
<1> QED
  BY <1>1, <1>3, <1>4 DEF Tagged

\* Leaving out what is not there.
LEMMA WithoutSame ==
  ASSUME NEW q, NEW A, NEW B, \A i \in 1..Len(q) : q[i] \in A <=> q[i] \in B
  PROVE  Without(q, A) = Without(q, B)
<1>1. [i \in 1..Len(q) |-> IF q[i] \in A THEN <<>> ELSE <<q[i]>>]
        = [i \in 1..Len(q) |-> IF q[i] \in B THEN <<>> ELSE <<q[i]>>]
  OBVIOUS
<1> QED
  BY <1>1 DEF Without

\* A piece in combined.log is one tagged line of the characters of the piece.
LEMMA PieceTagged ==
  ASSUME NEW p \in Seq(Plain)
  PROVE  p # <<>> /\ (\A i \in 1..Len(p) - 1 : p[i] # "nl")
           => /\ Tagged(CombinedPiece(p)) /\ CombinedPiece(p) \in Seq(TagChars)
              /\ Without(CombinedPiece(p), {"tag", "nl"}) = Without(p, {"nl"})
<1>s. SUFFICES ASSUME p # <<>>, \A i \in 1..Len(p) - 1 : p[i] # "nl"
               PROVE  /\ Tagged(CombinedPiece(p)) /\ CombinedPiece(p) \in Seq(TagChars)
                      /\ Without(CombinedPiece(p), {"tag", "nl"}) = Without(p, {"nl"})
  OBVIOUS
<1>0. "nl" \in Plain /\ "tag" \notin Plain /\ Plain \subseteq Chars /\ "tag" \in LogChars
  BY DEF Plain, Chars, LogChars, Bytes, Symbols, Added
<1>1. PICK n \in Seq(Plain) : n = <<"nl">>
  BY <1>0, SinglesAre
<1>2. PICK q \in Seq(Plain) : q = IF Last(p) = "nl" THEN p ELSE Append(p, "nl")
  <2>1. Append(p, "nl") \in Seq(Plain)
    BY <1>0
  <2> QED
    BY <2>1
<1>3. /\ q # <<>> /\ q[Len(q)] = "nl" /\ \A i \in 1..Len(q) - 1 : q[i] # "nl"
  <2>1. CASE Last(p) = "nl"
    BY <1>s, <1>2, <2>1 DEF Last
  <2>2. CASE Last(p) # "nl"
    <3>1. /\ Len(q) = Len(p) + 1 /\ q[Len(q)] = "nl" /\ \A i \in 1..Len(p) : q[i] = p[i]
      BY <1>2, <2>2
    <3>2. p[Len(p)] # "nl" /\ Len(p) \in 1..Len(p)
      BY <1>s, <2>2 DEF Last
    <3>3. \A i \in 1..Len(p) : p[i] # "nl"
      BY <1>s, <3>2
    <3> QED
      BY <3>1, <3>3
  <2> QED
    BY <2>1, <2>2
<1>4. Without(q, {"nl"}) = Without(p, {"nl"})
  <2>1. CASE Last(p) = "nl"
    BY <1>2, <2>1
  <2>2. CASE Last(p) # "nl"
    <3>1. q = p \o n
      BY <1>1, <1>2, <2>2, AppendIsConcat
    <3>2. Without(q, {"nl"}) = Without(p, {"nl"}) \o Without(n, {"nl"}) /\ Without(p, {"nl"}) \in Seq(Plain)
      BY <3>1, WithoutJoin, Zenon
    <3>3. Without(n, {"nl"}) = <<>>
      BY <1>1, WithoutOne
    <3> QED
      BY <3>2, <3>3
  <2> QED
    BY <2>1, <2>2
<1>5. Without(q, {"tag", "nl"}) = Without(q, {"nl"})
  <2>1. \A i \in 1..Len(q) : q[i] \in Plain
    OBVIOUS
  <2>2. \A i \in 1..Len(q) : q[i] \in {"tag", "nl"} <=> q[i] \in {"nl"}
    BY <1>0, <2>1
  <2> QED
    BY <2>2, WithoutSame
<1>6. PICK x \in Seq(TagChars) : x = <<"tag">>
  <2>1. "tag" \in TagChars
    BY DEF TagChars
  <2> QED
    BY <2>1, SinglesAre
<1>7. PICK r \in Seq(TagChars) : r = q
  <2>1. Plain \subseteq TagChars
    BY DEF TagChars
  <2> QED
    BY <2>1
<1>8. PICK c \in Seq(TagChars) : c = x \o r
  <2>1. x \o r \in Seq(TagChars)
    OBVIOUS
  <2> QED
    BY <2>1
<1>9. c = CombinedPiece(p)
  BY <1>2, <1>6, <1>7, <1>8 DEF CombinedPiece
<1>10. Without(c, {"tag", "nl"}) = Without(r, {"tag", "nl"})
  <2>1. Without(c, {"tag", "nl"}) = Without(x, {"tag", "nl"}) \o Without(r, {"tag", "nl"})
        /\ Without(r, {"tag", "nl"}) \in Seq(TagChars)
    BY <1>8, WithoutJoin, Zenon
  <2>2. Without(x, {"tag", "nl"}) = <<>>
    BY <1>6, WithoutOne
  <2> QED
    BY <2>1, <2>2
<1>11. Tagged(c)
  <2>1. /\ Len(c) = Len(q) + 1 /\ c[1] = "tag" /\ \A i \in 1..Len(q) : c[i + 1] = q[i]
    BY <1>6, <1>7, <1>8
  <2>2. c[Len(c)] = "nl"
    <3>1. Len(q) \in 1..Len(q)
      BY <1>3
    <3> QED
      BY <1>3, <2>1, <3>1
  <2>3. ASSUME NEW i \in 1..Len(c), i = 1 \/ c[i - 1] = "nl" PROVE c[i] = "tag"
    <3>1. CASE i = 1
      BY <2>1, <3>1
    <3>2. CASE i = 2
      BY <2>1, <2>3, <3>2
    <3>3. CASE i # 1 /\ i # 2
      <4>1. PICK j \in 1..Len(q) - 1 : i - 1 = j + 1
        <5>1. i - 2 \in 1..Len(q) - 1 /\ i - 1 = (i - 2) + 1
          BY <2>1, <3>3
        <5> QED
          BY <5>1
      <4>2. c[j + 1] = q[j] /\ q[j] # "nl"
        BY <1>3, <2>1
      <4> QED
        BY <2>3, <3>3, <4>1, <4>2
    <3> QED
      BY <3>1, <3>2, <3>3
  <2> QED
    BY <2>2, <2>3 DEF Tagged
<1> QED
  BY <1>4, <1>5, <1>7, <1>9, <1>10, <1>11

\* The pieces of a text without "\r" have none.
LEMMA PiecesPlain ==
  ASSUME NEW text \in Seq(Plain), NEW final \in BOOLEAN
  PROVE  Pieces(text, final) \in Seq(Seq(Plain))
<1>0. "nl" \in Plain /\ text \in Seq(LogChars)
  <2>1. "nl" \in Plain /\ Plain \subseteq LogChars
    BY DEF Plain, LogChars, Chars, Bytes, Symbols, Added
  <2> QED
    BY <2>1
<1>1. PICK K \in Nat : K = Cardinality(Newlines(text))
  BY <1>0, NewlinesFinite
<1>2. ASSUME NEW k \in 1..K PROVE CompleteLines(text)[k] \in Seq(Plain)
  <2>1. LineEnd(text, k - 1) \in 0..Len(text) /\ LineEnd(text, k) \in 1..Len(text)
    BY <1>0, <1>1, LineIs
  <2>2. PICK x \in 0..Len(text), y \in 1..Len(text) : x = LineEnd(text, k - 1) /\ y = LineEnd(text, k)
    BY <2>1
  <2>3. SubSeq(text, x + 1, y) \in Seq(Plain)
    OBVIOUS
  <2> QED
    BY <1>1, <2>2, <2>3 DEF CompleteLines
<1>3. PICK c \in Seq(Seq(Plain)) : c = CompleteLines(text)
  <2>1. CompleteLines(text) = [k \in 1..K |-> CompleteLines(text)[k]]
    BY <1>1 DEF CompleteLines
  <2>2. PICK d : d = CompleteLines(text)
    OBVIOUS
  <2>3. d = [k \in 1..K |-> d[k]] /\ \A k \in 1..K : d[k] \in Seq(Plain)
    BY <1>2, <2>1, <2>2
  <2>4. d \in Seq(Seq(Plain))
    BY <2>3
  <2> QED
    BY <2>2, <2>4
<1>4. PICK r \in Seq(Plain) : r = Rest(text)
  <2>1. LineEnd(text, K) \in 0..Len(text)
    <3>1. \A u \in Seq(LogChars) : LineEnd(u, Cardinality(Newlines(u))) \in 0..Len(u)
      BY RestOf
    <3> QED
      BY <1>0, <1>1, <3>1
  <2>2. PICK e \in 0..Len(text) : e = LineEnd(text, K)
    BY <2>1
  <2>3. SubSeq(text, e + 1, Len(text)) \in Seq(Plain)
    OBVIOUS
  <2> QED
    BY <1>1, <2>2, <2>3 DEF Rest
<1>5. PICK x \in Seq(Plain) : x = IF final THEN Append(r, "nl") ELSE r
  <2>1. Append(r, "nl") \in Seq(Plain)
    BY <1>0
  <2> QED
    BY <2>1
<1>6. c \o (IF IsFlushed(r, final) THEN <<x>> ELSE <<>>) \in Seq(Seq(Plain))
  OBVIOUS
<1> QED
  BY <1>3, <1>4, <1>5, <1>6 DEF Pieces

\* The text u is s and then t.
IsJoin(u, s, t) == u = s \o t

\* A newline at the end is left out with the others.
LEMMA ClosingLeftOut ==
  ASSUME NEW s \in Seq(Plain), NEW x \in {<<>>, <<"nl">>}, NEW u
  PROVE  IsJoin(u, s, x) => Without(u, {"nl"}) = Without(s, {"nl"})
<1>s. SUFFICES ASSUME IsJoin(u, s, x) PROVE Without(u, {"nl"}) = Without(s, {"nl"})
  OBVIOUS
<1>1. "nl" \in Plain
  BY DEF Plain, Chars, Bytes, Symbols, Added
<1>2. PICK t \in Seq(Plain) : t = x
  <2>1. <<>> \in Seq(Plain) /\ <<"nl">> \in Seq(Plain)
    BY <1>1
  <2> QED
    BY <2>1
<1>3. u = s \o t
  BY <1>s, <1>2 DEF IsJoin
<1>4. Without(u, {"nl"}) = Without(s, {"nl"}) \o Without(t, {"nl"}) /\ Without(s, {"nl"}) \in Seq(Plain)
  BY <1>3, WithoutJoin, Zenon
<1>5. Without(t, {"nl"}) = <<>>
  BY <1>2, WithoutOne
<1> QED
  BY <1>4, <1>5

\* Logs of the same text that go on with the same text.
LEMMA SameText ==
  ASSUME NEW a \in Seq(TagChars), NEW b \in Seq(TagChars), NEW c \in Seq(Plain), NEW d \in Seq(Plain),
         NEW u, NEW v
  PROVE  /\ IsJoin(u, a, b) /\ IsJoin(v, c, d)
         /\ Without(a, {"tag", "nl"}) = Without(c, {"nl"})
         /\ Without(b, {"tag", "nl"}) = Without(d, {"nl"})
         => Without(u, {"tag", "nl"}) = Without(v, {"nl"})
<1>1. ASSUME IsJoin(u, a, b)
      PROVE  Without(u, {"tag", "nl"}) = Without(a, {"tag", "nl"}) \o Without(b, {"tag", "nl"})
  BY <1>1, WithoutJoin, Zenon DEF IsJoin
<1>2. ASSUME IsJoin(v, c, d)
      PROVE  Without(v, {"nl"}) = Without(c, {"nl"}) \o Without(d, {"nl"})
  BY <1>2, WithoutJoin, Zenon DEF IsJoin
<1> QED
  BY <1>1, <1>2, Zenon

\* Pieces in combined.log are whole tagged lines, of the characters of the pieces.
LEMMA PiecesTagged ==
  ASSUME NEW p \in Seq(Seq(Plain)), NEW h, h = [k \in 1..Len(p) |-> CombinedPiece(p[k])]
  PROVE  AreLines(p) =>
           /\ Tagged(FlattenSeq(h)) /\ FlattenSeq(h) \in Seq(TagChars)
           /\ Without(FlattenSeq(h), {"tag", "nl"}) = Without(FlattenSeq(p), {"nl"})
<1>s. SUFFICES ASSUME AreLines(p)
               PROVE  /\ Tagged(FlattenSeq(h)) /\ FlattenSeq(h) \in Seq(TagChars)
                      /\ Without(FlattenSeq(h), {"tag", "nl"}) = Without(FlattenSeq(p), {"nl"})
  OBVIOUS
<1> DEFINE F(i) == FlattenSeq(SubSeq(h, 1, i))
           q(i) == FlattenSeq(SubSeq(p, 1, i))
           T == {i \in 0..Len(p) :
                   /\ Tagged(F(i)) /\ F(i) \in Seq(TagChars)
                   /\ Without(F(i), {"tag", "nl"}) = Without(q(i), {"nl"})}
<1>1. \A k \in 1..Len(p) :
        /\ p[k] \in Seq(Plain)
        /\ Tagged(CombinedPiece(p[k])) /\ CombinedPiece(p[k]) \in Seq(TagChars)
        /\ Without(CombinedPiece(p[k]), {"tag", "nl"}) = Without(p[k], {"nl"})
  <2>1. ASSUME NEW k \in 1..Len(p)
        PROVE  p[k] \in Seq(Plain) /\ p[k] # <<>> /\ \A i \in 1..Len(p[k]) - 1 : p[k][i] # "nl"
    BY <1>s DEF AreLines
  <2> QED
    BY <2>1, PieceTagged
<1>2. h \in Seq(Seq(TagChars)) /\ Len(h) = Len(p) /\ \A k \in 1..Len(p) : h[k] = CombinedPiece(p[k])
  BY <1>1
<1>3. 0 \in T
  <2>1. SubSeq(h, 1, 0) = <<>> /\ SubSeq(p, 1, 0) = <<>> /\ 0 \in 0..Len(p)
    BY <1>2
  <2>2. FlattenSeq(<<>>) = <<>>
    BY DEF FlattenSeq
  <2>3. Tagged(<<>>) /\ <<>> \in Seq(TagChars)
    BY DEF Tagged
  <2> QED
    BY <2>1, <2>2, <2>3, WithoutOne
<1>4. ASSUME NEW i \in 0..Len(p) - 1, i \in T PROVE i + 1 \in T
  <2>1. i + 1 \in 1..Len(p) /\ i + 1 \in 0..Len(p)
    OBVIOUS
  <2>2. /\ SubSeq(h, 1, i) \in Seq(Seq(TagChars)) /\ h[i + 1] \in Seq(TagChars)
        /\ SubSeq(h, 1, i + 1) = Append(SubSeq(h, 1, i), h[i + 1])
    BY <1>2, PrefixGrows
  <2>3. /\ SubSeq(p, 1, i) \in Seq(Seq(Plain)) /\ p[i + 1] \in Seq(Plain)
        /\ SubSeq(p, 1, i + 1) = Append(SubSeq(p, 1, i), p[i + 1])
    BY PrefixGrows
  <2>4. PICK a \in Seq(TagChars), b \in Seq(TagChars) : a = F(i) /\ b = h[i + 1]
    BY <1>4, <2>2
  <2>5. PICK c \in Seq(Plain), d \in Seq(Plain) : c = q(i) /\ d = p[i + 1]
    BY <2>3, FlattenType
  <2>6. F(i + 1) = a \o b
    BY <2>2, <2>4, FlattenAppend
  <2>7. q(i + 1) = c \o d
    BY <2>3, <2>5, FlattenAppend
  <2>8. /\ Tagged(a) /\ Tagged(b) /\ Without(a, {"tag", "nl"}) = Without(c, {"nl"})
        /\ Without(b, {"tag", "nl"}) = Without(d, {"nl"})
    BY <1>1, <1>2, <1>4, <2>1, <2>4, <2>5
  <2>9. Tagged(a \o b) /\ a \o b \in Seq(TagChars)
    BY <2>8, TaggedJoin
  <2>10. IsJoin(F(i + 1), a, b) /\ IsJoin(q(i + 1), c, d)
    BY <2>6, <2>7, Zenon DEF IsJoin
  <2>11. PICK u, v : u = F(i + 1) /\ v = q(i + 1)
    OBVIOUS
  <2>12. Without(u, {"tag", "nl"}) = Without(v, {"nl"})
    BY <2>8, <2>10, <2>11, SameText
  <2> QED
    BY <2>1, <2>6, <2>9, <2>11, <2>12
<1>5. Len(p) \in Nat
  OBVIOUS
<1> HIDE DEF T
<1>6. Len(p) \in T
  BY <1>3, <1>4, <1>5, CountUp
<1>7. SubSeq(p, 1, Len(p)) = p /\ SubSeq(h, 1, Len(p)) = h
  BY <1>2, WholePrefix
<1> QED
  BY <1>6, <1>7 DEF T

\* Combined.log is whole tagged lines of what the stream's own log has.
CombinedHolds ==
  \E c \in Seq(TagChars) :
    /\ combined = Header \o c /\ Tagged(c)
    /\ Without(c, {"tag", "nl"}) = Without(Logged, {"nl"})

\* The log so far and the unfinished line are of the text given.
LEMMA LoggedPlain ==
  EmitInvariant /\ ~ended /\ Given \in Seq(Plain) => Logged \in Seq(Plain) /\ pending \in Seq(Plain)
<1>s. SUFFICES ASSUME EmitInvariant, ~ended, Given \in Seq(Plain)
               PROVE  Logged \in Seq(Plain) /\ pending \in Seq(Plain)
  OBVIOUS
<1>1. pending \in Seq(Chars) /\ Given = Logged \o pending
  BY <1>s DEF EmitInvariant, EmitType, LogHolds
<1>2. PICK g \in Seq(Plain) : g = Given
  BY <1>s
<1>3. PICK e \in Seq(Chars) : e = pending
  BY <1>1
<1>4. PICK m \in Int : m = Len(g) - Len(e) /\ m <= Len(g)
  OBVIOUS
<1>5. PICK L \in Seq(Plain) : L = Logged
  <2>1. SubSeq(g, 1, m) \in Seq(Plain)
    BY <1>4
  <2> QED
    BY <1>s, <1>2, <1>3, <1>4, <2>1 DEF Logged
<1>6. g = L \o e
  BY <1>1, <1>2, <1>3, <1>5
<1>7. ASSUME NEW i \in 1..Len(e) PROVE e[i] \in Plain
  <2>1. Len(L) + i \in 1..Len(g) /\ g[Len(L) + i] = e[i]
    BY <1>6
  <2> QED
    BY <2>1
<1>8. e \in Seq(Plain)
  BY <1>7
<1> QED
  BY <1>3, <1>5, <1>8

\* What goes to the one log goes to the other.
LEMMA CombinedGrows ==
  ASSUME NEW final \in BOOLEAN
  PROVE  EmitInvariant /\ CombinedHolds /\ ~ended /\ LogGoesOn(final) => CombinedHolds'
<1>s. SUFFICES ASSUME EmitInvariant, CombinedHolds, ~ended, LogGoesOn(final) PROVE CombinedHolds'
  OBVIOUS
<1>0. Plain \subseteq Chars /\ TagChars \subseteq LogChars
  BY DEF Plain, TagChars, Chars, LogChars, Bytes, Added
<1>1. PICK c \in Seq(TagChars) : /\ combined = Header \o c /\ Tagged(c)
                                 /\ Without(c, {"tag", "nl"}) = Without(Logged, {"nl"})
  BY <1>s DEF CombinedHolds
<1>2. PICK more \in Seq(Plain) :
        Emit(pending \o more, final) /\ LogGets(Logged', pending \o more, final)
  BY <1>s DEF LogGoesOn
<1>3. Logged \in Seq(Plain) /\ pending \in Seq(Plain)
  BY <1>s, LoggedPlain DEF LogGoesOn
<1>4. PICK text \in Seq(Plain) : text = pending \o more
  <2>1. pending \o more \in Seq(Plain)
    BY <1>3
  <2> QED
    BY <2>1
<1>5. PICK p \in Seq(Seq(Plain)) : p = Pieces(text, final)
  BY PiecesPlain
<1>6. AreLines(p)
  <2>1. text \in Seq(Chars)
    BY <1>0
  <2> QED
    BY <1>5, <2>1, PiecesAre
<1>7. PICK L \in Seq(Plain), P \in Seq(Plain) : L = Logged /\ P = FlattenSeq(p)
  BY <1>3, FlattenType
<1>8. PICK h : h = [k \in 1..Len(p) |-> CombinedPiece(p[k])]
  OBVIOUS
<1>9. PICK z \in Seq(TagChars) :
        /\ z = FlattenSeq(h) /\ Tagged(z)
        /\ Without(z, {"tag", "nl"}) = Without(P, {"nl"})
  BY <1>6, <1>7, <1>8, PiecesTagged
<1>10. combined' = combined \o z
  <2>1. combined' = combined \o FlattenSeq([k \in DOMAIN p |-> CombinedPiece(p[k])])
    BY <1>2, <1>4, <1>5 DEF Emit
  <2>2. DOMAIN p = 1..Len(p)
    OBVIOUS
  <2> QED
    BY <1>8, <1>9, <2>1, <2>2
<1>11. PICK d \in Seq(TagChars) : d = c \o z /\ Tagged(d)
  BY <1>1, <1>9, TaggedJoin
<1>12. combined' = Header \o d
  <2>1. Header \in Seq(LogChars) /\ c \in Seq(LogChars) /\ z \in Seq(LogChars)
    BY <1>s, <1>0 DEF EmitInvariant, EmitType
  <2>2. (Header \o c) \o z = Header \o (c \o z)
    BY <2>1, LogConcat, Zenon
  <2> QED
    BY <1>1, <1>10, <1>11, <2>2
<1>13. PICK Q \in Seq(Plain) : Q = L \o P
  <2>1. L \o P \in Seq(Plain)
    OBVIOUS
  <2> QED
    BY <2>1
<1>14. Without(d, {"tag", "nl"}) = Without(Q, {"nl"})
  <2>1. Without(c, {"tag", "nl"}) = Without(L, {"nl"}) /\ Without(z, {"tag", "nl"}) = Without(P, {"nl"})
    BY <1>1, <1>7, <1>9
  <2>2. IsJoin(d, c, z) /\ IsJoin(Q, L, P)
    BY <1>11, <1>13, Zenon DEF IsJoin
  <2> QED
    BY <2>1, <2>2, SameText
<1>15. Header' = Header
  OBVIOUS
<1>16. Without(Logged', {"nl"}) = Without(Q, {"nl"})
  <2>1. PICK X \in {<<>>, <<"nl">>} : Logged' = Q \o X
    BY <1>2, <1>4, <1>5, <1>7, <1>13 DEF LogGets, Passed
  <2>2. PICK w : w = Logged'
    OBVIOUS
  <2>3. IsJoin(w, Q, X)
    BY <2>1, <2>2, Zenon DEF IsJoin
  <2> QED
    BY <2>2, <2>3, ClosingLeftOut
<1> QED
  BY <1>11, <1>12, <1>14, <1>15, <1>16 DEF CombinedHolds

\* Combined.log begins with its header and nothing else.
LEMMA CombinedStarts == Init => CombinedHolds
<1>s. SUFFICES ASSUME Init PROVE CombinedHolds
  OBVIOUS
<1>1. /\ input \in Seq(Bytes) /\ taken = 0 /\ half = <<>> /\ crHeld = FALSE
      /\ pending = <<>> /\ ended = FALSE /\ combined = Header /\ Header \in Seq(LogChars)
  <2>1. Symbols \subseteq LogChars
    BY DEF LogChars, Chars, Bytes
  <2> QED
    BY <1>s, <2>1, EmitAssumption DEF Init, EmitInit, Bytes
<1>2. Consumed = <<>>
  BY <1>1 DEF Consumed
<1>3. Given = <<>>
  BY <1>1, <1>2, NothingRead DEF Given, Settled, DecodedText
<1>4. Logged = <<>>
  BY <1>1, <1>3 DEF Logged
<1>5. PICK c \in Seq(TagChars) : c = <<>>
  <2>1. <<>> \in Seq(TagChars)
    OBVIOUS
  <2> QED
    BY <2>1
<1>6. combined = Header \o c
  BY <1>1, <1>5
<1>7. Tagged(c)
  BY <1>5 DEF Tagged
<1>8. Without(c, {"tag", "nl"}) = Without(Logged, {"nl"})
  BY <1>4, <1>5, WithoutOne
<1> QED
  BY <1>6, <1>7, <1>8 DEF CombinedHolds

\* Every step keeps it.
LEMMA CombinedKept == EmitInvariant /\ CombinedHolds /\ [Next]_vars => CombinedHolds'
<1>s. SUFFICES ASSUME EmitInvariant, CombinedHolds, [Next]_vars PROVE CombinedHolds'
  OBVIOUS
<1>1. CASE UNCHANGED emitVars
  <2>1. /\ input' = input /\ taken' = taken /\ half' = half /\ crHeld' = crHeld
        /\ pending' = pending /\ combined' = combined /\ ended' = ended
    BY <1>1 DEF emitVars
  <2> QED
    BY <1>s, <2>1, Zenon DEF CombinedHolds, Logged, Given, Settled, DecodedText, Consumed
<1>2. CASE ~ended /\ (LogGoesOn(TRUE) \/ LogGoesOn(FALSE))
  BY <1>s, <1>2, CombinedGrows
<1> QED
  BY <1>s, <1>1, <1>2, EmitInvariantKept

\* The log is made of characters, and what was given to it of plain ones.
LEMMA LoggedChars == EmitInvariant => Given \in Seq(Plain) /\ Logged \in Seq(Chars)
<1>s. SUFFICES ASSUME EmitInvariant PROVE Given \in Seq(Plain) /\ Logged \in Seq(Chars)
  OBVIOUS
<1>1. EmitType /\ DecodersHold /\ LogHolds
  BY <1>s DEF EmitInvariant
<1>2. Consumed \in Seq(Bytes)
  BY <1>1, ConsumedIs
<1>3. PICK D \in Seq(Chars) : D = DecodedText
  BY <1>2, DecodedType DEF DecodedText
<1>4. Settled \in Seq(Chars)
  <2>1. crHeld => D # <<>>
    BY <1>1, <1>3 DEF DecodersHold
  <2>2. D # <<>> => Front(D) \in Seq(Chars)
    BY FrontIs
  <2> QED
    BY <1>3, <2>1, <2>2 DEF Settled
<1>5. Given \in Seq(Plain)
  BY <1>4, TranslatedType DEF Given
<1>6. CASE ended
  BY <1>5, <1>6, ClosedIs DEF Logged
<1>7. CASE ~ended
  <2>1. Logged \in Seq(Plain)
    BY <1>s, <1>5, <1>7, LoggedPlain
  <2>2. PICK l \in Seq(Plain) : l = Logged
    BY <2>1
  <2>3. l \in Seq(Chars)
    BY ClosedIs
  <2> QED
    BY <1>5, <2>2, <2>3
<1> QED
  BY <1>5, <1>6, <1>7

\* Combined.log has no "\r" behind its header.
LEMMA TranslatedLog ==
  ASSUME NEW c \in Seq(TagChars)
  PROVE  Translated(c) = c
<1> DEFINE h == [i \in 1..Len(c) |-> IF Pair(c, i - 1, "cr", "nl") THEN <<>>
                                     ELSE IF c[i] = "cr" THEN <<"nl">> ELSE <<c[i]>>]
<1>1. \A i \in 1..Len(c) : c[i] # "cr"
  BY DEF TagChars, Plain
<1>2. h = [i \in 1..Len(c) |-> <<c[i]>>]
  BY <1>1 DEF Pair
<1>3. FlattenSeq(h) = c
  BY <1>2, FlattenSingles
<1> QED
  BY <1>3 DEF Translated

\* Each line of tagged lines begins with its tag.
LEMMA TaggedLines ==
  ASSUME NEW c \in Seq(TagChars)
  PROVE  Tagged(c) => \A k \in 1..Len(SplitLines(c)) : SplitLines(c)[k][1] = "tag"
<1>s. SUFFICES ASSUME Tagged(c)
               PROVE  \A k \in 1..Len(SplitLines(c)) : SplitLines(c)[k][1] = "tag"
  OBVIOUS
<1>1. c \in Seq(LogChars)
  <2>1. TagChars \subseteq LogChars
    BY DEF TagChars, Plain, LogChars, Added
  <2> QED
    BY <2>1
<1>2. PICK K \in Nat : K = Cardinality(Newlines(c))
  BY <1>1, NewlinesFinite
<1>3. Rest(c) = <<>>
  <2>1. PICK e : e = LineEnd(c, K)
    OBVIOUS
  <2>2. /\ e \in 0..Len(c) /\ (\A i \in e + 1..Len(c) : c[i] # "nl")
        /\ Rest(c) \in Seq(LogChars) /\ Len(Rest(c)) = Len(c) - e
    BY <1>1, <1>2, <2>1, RestOf
  <2>3. e = Len(c)
    <3>1. ASSUME e # Len(c) PROVE FALSE
      <4>1. Len(c) \in e + 1..Len(c) /\ c # <<>>
        BY <2>2, <3>1
      <4> QED
        BY <1>s, <2>2, <4>1 DEF Tagged
    <3> QED
      BY <3>1
  <2>4. PICK r \in Seq(LogChars) : r = Rest(c)
    BY <2>2
  <2>5. Len(r) = 0
    BY <2>2, <2>3, <2>4
  <2> QED
    BY <2>4, <2>5
<1>4. SplitLines(c) = CompleteLines(c)
  BY <1>3, TranslatedLog DEF SplitLines
<1>5. Len(CompleteLines(c)) = K
  BY <1>2 DEF CompleteLines
<1>6. ASSUME NEW k \in 1..K PROVE CompleteLines(c)[k][1] = "tag"
  <2>1. /\ LineEnd(c, k - 1) \in 0..Len(c) /\ LineEnd(c, k) \in 1..Len(c)
        /\ LineEnd(c, k - 1) < LineEnd(c, k)
    BY <1>1, <1>2, LineIs
  <2>2. PICK x \in 0..Len(c), y \in 1..Len(c) : x = LineEnd(c, k - 1) /\ y = LineEnd(c, k) /\ x < y
    BY <2>1
  <2>3. CompleteLines(c)[k] = SubSeq(c, x + 1, y)
    BY <1>2, <2>2 DEF CompleteLines
  <2>4. SubSeq(c, x + 1, y)[1] = c[x + 1]
    BY <2>2
  <2>5. x # 0 => c[x] = "nl"
    <3>1. CASE k = 1
      BY <2>2, <3>1 DEF LineEnd
    <3>2. CASE k # 1
      <4>1. PICK j \in 1..Cardinality(Newlines(c)) : j = k - 1
        BY <1>2, <3>2
      <4>2. c[LineEnd(c, j)] = "nl"
        BY <1>1, LineEndIs
      <4> QED
        BY <2>2, <4>1, <4>2
    <3> QED
      BY <3>1, <3>2
  <2>6. x + 1 \in 1..Len(c) /\ (x + 1 = 1 \/ c[(x + 1) - 1] = "nl")
    BY <2>2, <2>5
  <2>7. c[x + 1] = "tag"
    BY <1>s, <2>6 DEF Tagged
  <2> QED
    BY <2>3, <2>4, <2>7
<1> QED
  BY <1>4, <1>5, <1>6

\* What that means for a reader of combined.log.
LEMMA CombinedIsTheOutputHolds == EmitInvariant /\ CombinedHolds => CombinedIsTheOutput
<1>s. SUFFICES ASSUME EmitInvariant, CombinedHolds PROVE CombinedIsTheOutput
  OBVIOUS
<1>1. PICK c \in Seq(TagChars) : /\ combined = Header \o c /\ Tagged(c)
                                 /\ Without(c, {"tag", "nl"}) = Without(Logged, {"nl"})
  BY <1>s DEF CombinedHolds
<1>2. PICK L \in Seq(Chars) : L = Logged
  BY <1>s, LoggedChars
<1>3. PICK H \in Seq(LogChars) : H = Header
  BY <1>s DEF EmitInvariant, EmitType
<1>4. PICK x \in Seq(LogChars) : x = c
  <2>1. TagChars \subseteq LogChars
    BY DEF TagChars, Plain, LogChars, Added
  <2> QED
    BY <2>1
<1>5. Body(combined) = c
  <2>1. SubSeq(H \o x, Len(H) + 1, Len(H \o x)) = x
    BY SuffixOfConcat
  <2> QED
    BY <1>1, <1>3, <1>4, <2>1 DEF Body
<1>6. Body(own) = Stamped(L, FALSE)
  <2>1. PICK y \in Seq(LogChars) : y = Stamped(L, FALSE)
    BY StampedType
  <2>2. SubSeq(H \o y, Len(H) + 1, Len(H \o y)) = y
    BY SuffixOfConcat
  <2>3. own = H \o y
    BY <1>s, <1>2, <1>3, <2>1 DEF EmitInvariant, LogHolds
  <2> QED
    BY <1>3, <2>1, <2>2, <2>3 DEF Body
<1>7. Without(Body(own), {"stamp", "nl"}) = Without(L, {"nl"})
  <2>1. {"nl"} \in SUBSET Chars
    BY DEF Chars, Bytes, Symbols, Added
  <2>2. Without(Stamped(L, FALSE), {"stamp"} \cup {"nl"}) = Without(L, {"nl"})
    BY <2>1, StampsRemoved
  <2>3. {"stamp"} \cup {"nl"} = {"stamp", "nl"}
    OBVIOUS
  <2> QED
    BY <1>6, <2>2, <2>3
<1>8. combined # Header => Last(combined) = "nl"
  <2>1. c = <<>> => combined = Header
    BY <1>1, <1>3, <1>4
  <2>2. x # <<>> => (H \o x)[Len(H \o x)] = x[Len(x)]
    OBVIOUS
  <2>3. x # <<>> => x[Len(x)] = "nl"
    BY <1>1, <1>4 DEF Tagged
  <2> QED
    BY <1>1, <1>3, <1>4, <2>1, <2>2, <2>3 DEF Last
<1>9. \A k \in 1..Len(SplitLines(Body(combined))) : SplitLines(Body(combined))[k][1] = "tag"
  BY <1>1, <1>5, TaggedLines
<1> QED
  BY <1>1, <1>2, <1>5, <1>7, <1>8, <1>9 DEF CombinedIsTheOutput

-----------------------------------------------------------------------------
\* The decoders of StreamReader.run hold back what is cut in two and no more, and the
\* log, the carry of _emit and its flag agree with what they have passed on.
THEOREM EmitInvariantHolds == Spec => []EmitInvariant
<1>1. Init => EmitInvariant
  BY EmitInvariantStarts
<1>2. EmitInvariant /\ [Next]_vars => EmitInvariant'
  BY EmitInvariantKept
<1> QED
  BY <1>1, <1>2, PTL DEF Spec

\* The log of a stream is what the job wrote: whatever the reads cut through, one stamp
\* a line, nothing lost and nothing twice (LogSink.write, StreamReader._emit).
THEOREM LogIsTheText == Spec => []LogIsTheOutput
<1>1. EmitInvariant => LogIsTheOutput
  BY LogIsTheOutputHolds
<1> QED
  BY <1>1, EmitInvariantHolds, PTL

\* Combined.log has the same characters as the log of the stream, in whole lines that
\* each begin with their tag: what the other stream's lines may come in between
\* (StreamReader._emit).
THEOREM CombinedIsTheText == Spec => []CombinedIsTheOutput
<1>1. Init => CombinedHolds
  BY CombinedStarts
<1>2. EmitInvariant /\ CombinedHolds /\ [Next]_vars => CombinedHolds'
  BY CombinedKept
<1>3. EmitInvariant /\ CombinedHolds => CombinedIsTheOutput
  BY CombinedIsTheOutputHolds
<1> QED
  BY <1>1, <1>2, <1>3, EmitInvariantHolds, PTL DEF Spec
-----------------------------------------------------------------------------
(* Reading the log back.                                                   *)

\* The bytes of a log, whichever line separator it was written with.
LEMMA EncodedType ==
  ASSUME NEW t \in Seq(LogChars), NEW eol \in Seq(Symbols)
  PROVE  Encoded(t, eol) \in Seq(Symbols)
<1> DEFINE h == [i \in 1..Len(t) |-> IF t[i] = "u" THEN <<"lead", "cont">>
                                     ELSE IF t[i] = "nl" THEN eol ELSE <<t[i]>>]
<1>1. ASSUME NEW i \in 1..Len(t) PROVE h[i] \in Seq(Symbols)
  <2>1. t[i] \in LogChars
    OBVIOUS
  <2>2. t[i] = "u" \/ t[i] \in Symbols
    BY <2>1 DEF LogChars, Chars, Bytes, Symbols
  <2>3. <<"lead", "cont">> \in Seq(Symbols)
    BY DEF Symbols
  <2>4. CASE t[i] = "u"
    BY <2>3, <2>4
  <2>5. CASE t[i] # "u"
    BY <2>2, <2>5
  <2> QED
    BY <2>4, <2>5
<1>2. h \in Seq(Seq(Symbols))
  BY <1>1
<1>3. Encoded(t, eol) = FlattenSeq(h)
  BY DEF Encoded
<1> HIDE DEF h
<1> QED
  BY <1>2, <1>3, FlattenType

\* A line separator is bytes, and does not change.
LEMMA SeparatorIsBytes == \A s \in LineSeparators : s \in Seq(Symbols)
<1> TAKE s \in LineSeparators
<1>1. s \in {<<"nl">>, <<"cr", "nl">>}
  BY LogTextAssumption
<1>2. <<"nl">> \in Seq(Symbols) /\ <<"cr", "nl">> \in Seq(Symbols)
  BY DEF Symbols
<1> QED
  BY <1>1, <1>2

\* The log that is read back is a file of bytes.
LEMMA LogIsBytes ==
  ASSUME EmitInvariant, linesep \in LineSeparators
  PROVE  Encoded(own, linesep) \in Seq(Symbols)
<1>1. Logged \in Seq(Chars) /\ Header \in Seq(LogChars)
  BY LoggedChars DEF EmitInvariant, EmitType
<1>2. Stamped(Logged, FALSE) \in Seq(LogChars)
  BY <1>1, StampedType
<1>3. own = Header \o Stamped(Logged, FALSE)
  BY DEF EmitInvariant, LogHolds
<1>4. own \in Seq(LogChars)
  <2>1. \A a, b \in Seq(LogChars) : a \o b \in Seq(LogChars)
    OBVIOUS
  <2> QED
    BY <1>1, <1>2, <1>3, <2>1
<1> QED
  BY <1>4, SeparatorIsBytes, EncodedType

\* os.linesep is chosen once.
SeparatorKept == linesep \in LineSeparators

\* One step of the whole, for get_tail.
LEMMA TailKept ==
  EmitInvariant /\ TailHolds /\ SeparatorKept /\ [Next]_vars
    => TailHolds' /\ SeparatorKept'
<1> SUFFICES ASSUME EmitInvariant, TailHolds, SeparatorKept, [Next]_vars
             PROVE  TailHolds' /\ SeparatorKept'
  OBVIOUS
<1>1. ASSUME UNCHANGED tailVars PROVE TailHolds'
  BY <1>1 DEF tailVars, TailHolds
<1>2. SeparatorKept'
  BY DEF Next, vars, Read, ReadBack, Classify, SeparatorKept
<1>3. ASSUME ReadBack PROVE TailHolds'
  <2>1. ASSUME TailOpen(Encoded(own, linesep)) PROVE TailHolds'
    BY <2>1, LogIsBytes, OpenStep DEF SeparatorKept
  <2>2. ASSUME TailBlock PROVE TailHolds'
    BY <2>2, BlockStep
  <2>3. ASSUME TailCut PROVE TailHolds'
    BY <2>3 DEF TailCut, TailHolds
  <2> QED
    BY <1>3, <2>1, <2>2, <2>3 DEF ReadBack
<1>4. ASSUME ~ReadBack PROVE TailHolds'
  BY <1>1, <1>4 DEF Next, vars, Read, Classify
<1> QED
  BY <1>2, <1>3, <1>4

\* What get_tail holds of the log that a reader has written is the end of that log, within
\* the budget, whatever the job wrote and whichever the line separator (tail_of in run_job).
THEOREM LogTailBounded == Spec => []TailHolds
<1>1. Init => TailHolds /\ SeparatorKept
  BY NoBreaks, TailAssumption DEF Init, TailInit, TailHolds, SeparatorKept
<1>2. EmitInvariant /\ TailHolds /\ SeparatorKept /\ [Next]_vars
        => TailHolds' /\ SeparatorKept'
  BY TailKept
<1>3. Spec => [](TailHolds /\ SeparatorKept)
  BY <1>1, <1>2, EmitInvariantHolds, PTL DEF Spec
<1> QED
  BY <1>3, PTL

\* What tail_of returns of that log is the end of it, in whole lines or marked: get_tail
\* keeps its promise on the log of any output of a job.
THEOREM LogTailIsTheEnd == Spec => []TailIsTrue
<1>1. Init => TailIsTrue
  BY DEF Init, TailInit, TailIsTrue
<1>2. TailHolds /\ TailIsTrue /\ [Next]_vars => TailIsTrue'
  <2> SUFFICES ASSUME TailHolds, TailIsTrue, [Next]_vars PROVE TailIsTrue'
    OBVIOUS
  <2>1. ASSUME UNCHANGED tailVars PROVE TailIsTrue'
    BY <2>1 DEF tailVars, TailIsTrue, LastFit
  <2>2. ASSUME ReadBack PROVE TailIsTrue'
    <3>1. ASSUME TailOpen(Encoded(own, linesep)) PROVE TailIsTrue'
      BY <3>1 DEF TailOpen, TailIsTrue
    <3>2. ASSUME TailBlock PROVE TailIsTrue'
      BY <3>2 DEF TailBlock, TailIsTrue
    <3>3. ASSUME TailCut PROVE TailIsTrue'
      BY <3>3, CutStep
    <3> QED
      BY <2>2, <3>1, <3>2, <3>3 DEF ReadBack
  <2> QED
    BY <2>1, <2>2 DEF Next, vars, Read, Classify
<1>3. Spec => [](TailHolds /\ TailIsTrue)
  BY <1>1, <1>2, LogTailBounded, PTL DEF Spec
<1> QED
  BY <1>3, PTL
-----------------------------------------------------------------------------
(* Reading back what was written.                                          *)

\* A text is encoded character by character.
LEMMA EncodedJoin ==
  ASSUME NEW s \in Seq(LogChars), NEW t \in Seq(LogChars), NEW eol \in Seq(Symbols)
  PROVE  Encoded(s \o t, eol) = Encoded(s, eol) \o Encoded(t, eol)
<1> DEFINE C(r, i) == IF r[i] = "u" THEN <<"lead", "cont">>
                      ELSE IF r[i] = "nl" THEN eol ELSE <<r[i]>>
           q == s \o t
           f == [i \in 1..Len(s) |-> C(s, i)]
           g == [i \in 1..Len(t) |-> C(t, i)]
           h == [i \in 1..Len(q) |-> C(q, i)]
           n == Len(q)
<1>1. ASSUME NEW r \in Seq(LogChars), NEW i \in 1..Len(r) PROVE C(r, i) \in Seq(Symbols)
  <2>1. r[i] = "u" \/ r[i] \in Symbols
    <3>1. r[i] \in LogChars
      OBVIOUS
    <3> QED
      BY <3>1 DEF LogChars, Chars, Bytes, Symbols
  <2>2. <<"lead", "cont">> \in Seq(Symbols)
    BY DEF Symbols
  <2>3. r[i] \in Symbols => <<r[i]>> \in Seq(Symbols)
    OBVIOUS
  <2> QED
    BY <2>1, <2>2, <2>3, Zenon
<1>2. f \in Seq(Seq(Symbols)) /\ g \in Seq(Seq(Symbols)) /\ Len(f) = Len(s) /\ Len(g) = Len(t)
  <2> HIDE DEF C
  <2> QED
    BY <1>1
<1>3. /\ n \in Nat /\ n = Len(s) + Len(t) /\ \A i \in 1..Len(s) : q[i] = s[i] /\ i \in 1..n
      /\ \A j \in 1..Len(t) : q[Len(s) + j] = t[j] /\ Len(s) + j \in 1..n
  OBVIOUS
<1>4. /\ \A i \in 1..Len(s) : h[i] = f[i]
      /\ \A j \in 1..Len(t) : h[Len(s) + j] = g[j]
  <2> HIDE DEF q
  <2> QED
    BY <1>3 DEF n
<1>5. /\ h = [i \in 1..n |-> h[i]] /\ n = Len(f) + Len(g)
      /\ \A i \in 1..Len(f) : h[i] = f[i]
      /\ \A j \in 1..Len(g) : h[Len(f) + j] = g[j]
  <2>1. h = [i \in 1..n |-> h[i]]
    OBVIOUS
  <2> HIDE DEF f, g, h, n, q
  <2> QED
    BY <1>2, <1>3, <1>4, <2>1
<1>6. /\ Encoded(s, eol) = FlattenSeq(f) /\ Encoded(t, eol) = FlattenSeq(g)
      /\ Encoded(q, eol) = FlattenSeq(h)
  BY DEF Encoded
<1> HIDE DEF f, g, h, n, q, C
<1>7. FlattenSeq(h) = FlattenSeq(f) \o FlattenSeq(g)
  BY <1>2, <1>3, <1>5, FlattenJoin
<1> QED
  BY <1>6, <1>7 DEF q

\* The bytes e of the character c read as that character, and end in no part of a pair.
ReadsBack(e, x, c) ==
  /\ e \in Seq(Symbols) /\ e # <<>> /\ e[Len(e)] # "lead"
  /\ x = Decoded(e) /\ x \in Seq(LogChars) /\ x # <<>> /\ x[Len(x)] # "cr"
  /\ Translated(x) = <<c>>

Separators == {<<"nl">>, <<"cr", "nl">>}

\* One character of a line, or a newline, read back.
LEMMA EncodedOne ==
  ASSUME NEW c \in Clean \ {"cr"}, NEW eol \in Separators, NEW e, e = Encoded(<<c>>, eol)
  PROVE  \E x : ReadsBack(e, x, c)
<1> DEFINE y == IF c = "u" THEN <<"lead", "cont">> ELSE IF c = "nl" THEN eol ELSE <<c>>
<1>0. {"lead", "cont", "nl", "cr"} \subseteq Symbols /\ {"lead", "cont", "nl", "cr", "u"} \subseteq LogChars
  BY DEF LogChars, Chars, Bytes, Symbols, Added
<1>1. y \in Seq(Symbols)
  <2>1. CASE c = "u"
    BY <1>0, <2>1
  <2>2. CASE c = "nl"
    <3>1. <<"nl">> \in Seq(Symbols) /\ <<"cr", "nl">> \in Seq(Symbols)
      BY <1>0
    <3> QED
      BY <2>2, <3>1, Zenon DEF Separators
  <2>3. CASE c # "u" /\ c # "nl"
    BY <2>3 DEF Clean
  <2> QED
    BY <2>1, <2>2, <2>3
<1>2. e = y
  <2>1. [i \in 1..Len(<<c>>) |-> IF <<c>>[i] = "u" THEN <<"lead", "cont">>
                                 ELSE IF <<c>>[i] = "nl" THEN eol ELSE <<<<c>>[i]>>] = <<y>>
    OBVIOUS
  <2> HIDE DEF y
  <2>2. FlattenSeq(<<y>>) = y
    BY <1>1, FlattenOne
  <2> QED
    BY <2>1, <2>2 DEF Encoded
<1>3. CASE c = "u"
  <2>1. e = <<"lead", "cont">>
    BY <1>2, <1>3
  <2>2. Decoded(e) = <<"u">>
    <3>1. [i \in 1..Len(e) |-> CharAt(e, i)] = Append(<< <<"u">> >>, <<>>)
      <4>1. Len(e) = 2 /\ CharAt(e, 1) = <<"u">> /\ CharAt(e, 2) = <<>>
        BY <2>1 DEF CharAt, Pair
      <4>2. [i \in 1..Len(e) |-> CharAt(e, i)] = [i \in 1..2 |-> IF i = 1 THEN <<"u">> ELSE <<>>]
        BY <4>1
      <4>3. Append(<< <<"u">> >>, <<>>) = [i \in 1..2 |-> IF i = 1 THEN <<"u">> ELSE <<>>]
        OBVIOUS
      <4> QED
        BY <4>2, <4>3
    <3>2. <<"u">> \in Seq({"u"}) /\ <<>> \in Seq({"u"}) /\ << <<"u">> >> \in Seq(Seq({"u"}))
          /\ <<"u">> \o <<>> = <<"u">>
      OBVIOUS
    <3>3. FlattenSeq(<< <<"u">> >>) = <<"u">>
      BY <3>2, FlattenOne
    <3>4. FlattenSeq(Append(<< <<"u">> >>, <<>>)) = FlattenSeq(<< <<"u">> >>) \o <<>>
      BY <3>2, FlattenAppend
    <3> QED
      BY <3>1, <3>2, <3>3, <3>4 DEF Decoded
  <2>3. <<"u">> \in Seq({"u"}) /\ "cr" \notin {"u"}
    OBVIOUS
  <2>4. Translated(<<"u">>) = <<"u">>
    BY <2>3, TranslatedSame
  <2>5. e # <<>> /\ e[Len(e)] # "lead"
    BY <2>1
  <2>6. <<"u">> # <<>> /\ <<"u">>[Len(<<"u">>)] # "cr" /\ <<"u">> \in Seq(LogChars)
    BY <1>0
  <2> QED
    BY <1>1, <1>2, <1>3, <2>2, <2>4, <2>5, <2>6, Zenon DEF ReadsBack
<1>4. CASE c = "nl"
  <2>1. e = eol /\ eol \in LineEnds /\ e[Len(e)] = "nl"
    BY <1>2, <1>4 DEF Separators, LineEnds
  <2>2. e # <<>> /\ Decoded(e) = e /\ e \in Seq(LogChars) /\ Translated(e) = <<"nl">>
    BY <2>1, LineEndRead
  <2> QED
    BY <1>1, <1>2, <1>4, <2>1, <2>2, Zenon DEF ReadsBack
<1>5. CASE c # "u" /\ c # "nl"
  <2>1. e = <<c>> /\ c \in Symbols /\ c \notin {"lead", "cont"} /\ c # "cr" /\ c \in LogChars
    BY <1>2, <1>5, CleanIsLogged DEF Clean
  <2>a. Len(e) = 1 /\ e[1] = c /\ e # <<>> /\ e[Len(e)] = c /\ \A i \in 1..Len(e) : e[i] = c
    BY <2>1
  <2>2. Decoded(e) = e
    <3>1. \A i \in 1..Len(e) : e[i] \notin {"lead", "cont"}
      BY <2>1, <2>a, Zenon
    <3> QED
      BY <1>1, <1>2, <3>1, DecodedSame
  <2>3. Translated(e) = e
    <3>1. <<c>> \in Seq({c}) /\ <<c>> \in Seq(LogChars) /\ "cr" \notin {c}
      BY <2>1
    <3>2. e \in Seq({c})
      BY <2>1, <3>1, Zenon
    <3> QED
      BY <3>1, <3>2, TranslatedSame
  <2>4. <<c>> \in Seq(LogChars) /\ c # "lead"
    BY <2>1
  <2> QED
    BY <1>1, <1>2, <2>1, <2>a, <2>2, <2>3, <2>4, Zenon DEF ReadsBack
<1> QED
  BY <1>3, <1>4, <1>5

\* A text that is read back as it was written.
Reads(u, E, X) ==
  /\ E \in Seq(Symbols) /\ (E # <<>> => E[Len(E)] # "lead")
  /\ X = Decoded(E) /\ X \in Seq(LogChars) /\ (X # <<>> => X[Len(X)] # "cr")
  /\ Translated(X) = u

\* One character more.
LEMMA ReadsMore ==
  ASSUME NEW u \in Seq(Clean \ {"cr"}), NEW c \in Clean \ {"cr"}, NEW eol \in Separators,
         NEW X, Reads(u, Encoded(u, eol), X)
  PROVE  \E Y : Reads(u \o <<c>>, Encoded(u \o <<c>>, eol), Y)
<1>1. u \in Seq(LogChars) /\ <<c>> \in Seq(LogChars) /\ eol \in Seq(Symbols)
  <2>1. <<"nl">> \in Seq(Symbols) /\ <<"cr", "nl">> \in Seq(Symbols)
    BY DEF Symbols
  <2>2. eol \in Seq(Symbols)
    BY <2>1, Zenon DEF Separators
  <2>3. Clean \ {"cr"} \subseteq LogChars /\ c \in LogChars
    BY CleanIsLogged
  <2> QED
    BY <2>2, <2>3
<1>2. PICK E \in Seq(Symbols) : E = Encoded(u, eol)
  BY DEF Reads
<1>3. PICK e : e = Encoded(<<c>>, eol)
  OBVIOUS
<1>4. PICK x : ReadsBack(e, x, c)
  BY <1>3, EncodedOne
<1>5. Encoded(u \o <<c>>, eol) = E \o e
  BY <1>1, <1>2, <1>3, EncodedJoin
<1>6. /\ e \in Seq(Symbols) /\ e # <<>> /\ e[Len(e)] # "lead"
      /\ x = Decoded(e) /\ x \in Seq(LogChars) /\ x # <<>> /\ x[Len(x)] # "cr"
      /\ Translated(x) = <<c>>
  BY <1>4 DEF ReadsBack
<1>7. /\ (E # <<>> => E[Len(E)] # "lead")
      /\ X = Decoded(E) /\ X \in Seq(LogChars) /\ (X # <<>> => X[Len(X)] # "cr")
      /\ Translated(X) = u
  BY <1>2 DEF Reads
<1>8. /\ E \o e \in Seq(Symbols) /\ (E \o e)[Len(E \o e)] # "lead"
  BY <1>6
<1>9. Decoded(E \o e) = X \o x
  <2>1. ~Parts(E, e, "lead", "cont")
    BY <1>7 DEF Parts
  <2> QED
    BY <1>6, <1>7, <2>1, DecodedJoin
<1>10. X \o x \in Seq(LogChars) /\ (X \o x)[Len(X \o x)] # "cr"
  BY <1>6, <1>7
<1>11. Translated(X \o x) = u \o <<c>>
  <2>1. ~Parts(X, x, "cr", "nl")
    BY <1>7 DEF Parts
  <2> QED
    BY <1>6, <1>7, <2>1, TranslatedJoin
<1> QED
  BY <1>5, <1>8, <1>9, <1>10, <1>11, Zenon DEF Reads

\* A text of whole characters and without "\r" is what is read of it in a file.
LEMMA EncodedReadsBack ==
  ASSUME NEW s \in Seq(Clean \ {"cr"}), NEW eol \in Separators
  PROVE  Encoded(s, eol) \in Seq(Symbols) /\ FileText(Encoded(s, eol)) = s
<1> DEFINE T == {k \in 0..Len(s) : \E X : Reads(SubSeq(s, 1, k), Encoded(SubSeq(s, 1, k), eol), X)}
<1>1. 0 \in T
  <2>1. SubSeq(s, 1, 0) = <<>> /\ 0 \in 0..Len(s)
    OBVIOUS
  <2>2. Encoded(<<>>, eol) = <<>>
    BY DEF Encoded, FlattenSeq
  <2>3. Decoded(<<>>) = <<>>
    BY NoLines
  <2>4. Translated(<<>>) = <<>>
    <3>1. <<>> \in Seq({})  /\ "cr" \notin {}
      OBVIOUS
    <3> QED
      BY <3>1, TranslatedSame
  <2>5. <<>> \in Seq(Symbols) /\ <<>> \in Seq(LogChars)
    OBVIOUS
  <2>6. Reads(<<>>, <<>>, <<>>)
    BY <2>3, <2>4, <2>5, Zenon DEF Reads
  <2> QED
    BY <2>1, <2>2, <2>6
<1>2. ASSUME NEW k \in 0..Len(s) - 1, k \in T PROVE k + 1 \in T
  <2>1. PICK u \in Seq(Clean \ {"cr"}), c \in Clean \ {"cr"} :
          u = SubSeq(s, 1, k) /\ SubSeq(s, 1, k + 1) = u \o <<c>>
    <3>1. /\ SubSeq(s, 1, k) \in Seq(Clean \ {"cr"}) /\ s[k + 1] \in Clean \ {"cr"}
          /\ SubSeq(s, 1, k + 1) = Append(SubSeq(s, 1, k), s[k + 1])
      BY PrefixGrows
    <3>2. Append(SubSeq(s, 1, k), s[k + 1]) = SubSeq(s, 1, k) \o <<s[k + 1]>>
      BY <3>1
    <3> QED
      BY <3>1, <3>2
  <2>2. PICK X : Reads(u, Encoded(u, eol), X)
    BY <1>2, <2>1
  <2>3. PICK Y : Reads(u \o <<c>>, Encoded(u \o <<c>>, eol), Y)
    BY <2>2, ReadsMore
  <2>4. k + 1 \in 0..Len(s)
    OBVIOUS
  <2> QED
    BY <2>1, <2>3, <2>4
<1>3. Len(s) \in Nat /\ SubSeq(s, 1, Len(s)) = s
  BY WholePrefix
<1> HIDE DEF T
<1>4. Len(s) \in T
  BY <1>1, <1>2, <1>3, CountUp
<1>5. PICK X : Reads(s, Encoded(s, eol), X)
  BY <1>3, <1>4 DEF T
<1> QED
  BY <1>5 DEF Reads, FileText

\* What the header is in the file ends a line, so that nothing after it joins it.
LEMMA HeaderEncoded ==
  ASSUME NEW eol \in Separators, NEW y \in Seq(Symbols), NEW e, e = Encoded(Header, eol)
  PROVE  e \in Seq(Symbols) /\ Border(e, y)
<1>1. Header \in Seq(Symbols) /\ (Header # <<>> => Last(Header) = "nl")
  BY EmitAssumption
<1>2. eol \in Seq(Symbols) /\ eol # <<>> /\ eol[Len(eol)] = "nl"
  <2>1. eol = <<"nl">> \/ eol = <<"cr", "nl">>
    BY DEF Separators
  <2>2. eol = <<"nl">> => eol \in Seq(Symbols) /\ eol # <<>> /\ eol[Len(eol)] = "nl"
    BY DEF Symbols
  <2>3. eol = <<"cr", "nl">> => eol \in Seq(Symbols) /\ eol # <<>> /\ eol[Len(eol)] = "nl"
    BY DEF Symbols
  <2> QED
    BY <2>1, <2>2, <2>3
<1>3. Symbols \subseteq LogChars
  BY DEF LogChars, Chars, Bytes
<1>4. Header \in Seq(LogChars)
  BY <1>1, <1>3
<1>5. e \in Seq(Symbols)
  BY <1>2, <1>4, EncodedType
<1>6. ASSUME Header = <<>> PROVE e = <<>>
  BY <1>6 DEF Encoded, FlattenSeq
<1>7. ASSUME Header # <<>> PROVE e # <<>> /\ e[Len(e)] = "nl"
  <2>1. PICK x \in Seq(LogChars) : Header = x \o <<"nl">>
    <3>1. /\ Front(Header) \in Seq(LogChars) /\ Header = Front(Header) \o <<Header[Len(Header)]>>
      BY <1>4, <1>7, FrontIs
    <3>2. Header[Len(Header)] = "nl"
      BY <1>1, <1>7 DEF Last
    <3> QED
      BY <3>1, <3>2
  <2>2. <<"nl">> \in Seq(LogChars)
    BY CleanIsLogged
  <2>3. e = Encoded(x, eol) \o Encoded(<<"nl">>, eol)
    BY <1>2, <2>1, <2>2, EncodedJoin
  <2>4. Encoded(<<"nl">>, eol) = eol
    <3>1. PICK c : c = "nl"
      OBVIOUS
    <3>2. [i \in 1..Len(<<c>>) |-> IF <<c>>[i] = "u" THEN <<"lead", "cont">>
                                   ELSE IF <<c>>[i] = "nl" THEN eol ELSE <<(<<c>>[i])>>] = <<eol>>
      BY <3>1
    <3>3. Encoded(<<c>>, eol) = FlattenSeq(<<eol>>)
      BY <3>2 DEF Encoded
    <3> QED
      BY <1>2, <3>1, <3>3, FlattenOne
  <2>5. Encoded(x, eol) \in Seq(Symbols)
    BY <1>2, EncodedType
  <2>6. \A a, b \in Seq(Symbols) : b # <<>> => a \o b # <<>> /\ (a \o b)[Len(a \o b)] = b[Len(b)]
    OBVIOUS
  <2> QED
    BY <1>2, <2>3, <2>4, <2>5, <2>6
<1> QED
  BY <1>5, <1>6, <1>7 DEF Border, Parts

\* A line that is given its stamp is a line.
LEMMA LinesWithStamp ==
  ASSUME NEW p \in Seq(Seq(LineChars)), AreLines(p),
         NEW S, S = [k \in 1..Len(p) |-> <<"stamp">> \o p[k]]
  PROVE  S \in Seq(Seq(LineChars)) /\ Len(S) = Len(p) /\ AreLines(S)
<1>1. "stamp" \in LineChars
  BY DEF LineChars, Clean, Symbols, Added
<1>2. <<"stamp">> \in Seq(LineChars) /\ Len(<<"stamp">>) = 1 /\ <<"stamp">>[1] = "stamp"
  BY <1>1
<1>3. ASSUME NEW k \in 1..Len(p)
      PROVE  /\ S[k] \in Seq(LineChars) /\ S[k] # <<>>
             /\ \A i \in 1..Len(S[k]) - 1 : S[k][i] # "nl"
             /\ k < Len(p) => S[k][Len(S[k])] = "nl"
  <2>1. PICK a \in Seq(LineChars) : a = p[k]
    OBVIOUS
  <2>2. PICK x \in Seq(LineChars) : x = <<"stamp">>
    BY <1>2
  <2>3. /\ a # <<>> /\ \A i \in 1..Len(a) - 1 : a[i] # "nl"
        /\ k < Len(p) => a[Len(a)] = "nl"
    BY <2>1 DEF AreLines
  <2>4. /\ x \o a \in Seq(LineChars) /\ Len(x \o a) = Len(x) + Len(a)
        /\ \A i \in 1..Len(x) : (x \o a)[i] = x[i]
        /\ \A j \in 1..Len(a) : (x \o a)[Len(x) + j] = a[j]
    BY ConcatIs
  <2>5. Len(x) = 1 /\ x[1] # "nl" /\ Len(a) \in Nat /\ Len(a) # 0
    BY <1>2, <2>2, <2>3, EmptyIs
  <2>6. PICK b \in Seq(LineChars) : b = x \o a
    BY <2>4
  <2>7. S[k] = b
    BY <2>1, <2>2, <2>6
  <2>8. Len(b) = 1 + Len(a) /\ b # <<>>
    BY <2>4, <2>5, <2>6, EmptyIs
  <2>9. b[1] # "nl" /\ \A j \in 1..Len(a) : b[1 + j] = a[j]
    <3>1. 1 \in 1..1
      OBVIOUS
    <3> QED
      BY <2>4, <2>5, <2>6, <3>1
  <2>10. ASSUME NEW i \in 1..Len(b) - 1 PROVE b[i] # "nl"
    <3>1. i = 1 \/ (i - 1 \in 1..Len(a) - 1 /\ i - 1 \in 1..Len(a) /\ 1 + (i - 1) = i)
      BY <2>5, <2>8
    <3> QED
      BY <2>3, <2>9, <3>1
  <2>11. k < Len(p) => b[Len(b)] = "nl"
    <3>1. Len(a) \in 1..Len(a)
      BY <2>5
    <3> QED
      BY <2>3, <2>8, <2>9, <3>1
  <2> QED
    BY <2>7, <2>8, <2>10, <2>11
<1>4. S \in Seq(Seq(LineChars)) /\ Len(S) = Len(p)
  <2>1. Len(p) \in Nat
    OBVIOUS
  <2>2. \A k \in 1..Len(p) : S[k] \in Seq(LineChars)
    BY <1>3
  <2>3. PICK n \in Nat : n = Len(p)
    BY <2>1
  <2>4. S = [k \in 1..n |-> S[k]] /\ \A k \in 1..n : S[k] \in Seq(LineChars)
    BY <2>2, <2>3
  <2>5. PICK V : V = Seq(LineChars)
    OBVIOUS
  <2>6. S \in Seq(V) /\ Len(S) = n
    <3>1. S \in [1..n -> V]
      BY <2>4, <2>5
    <3> QED
      BY <3>1
  <2> QED
    BY <2>3, <2>5, <2>6
<1> QED
  BY <1>3, <1>4 DEF AreLines

\* The lines of the file are those of the header and then the job's, each with its stamp.
LEMMA LogLinesAre ==
  ASSUME EmitInvariant, ended, linesep \in Separators,
         NEW t, t = TextOf(input), NEW p, p = SplitLines(Closed(t)),
         NEW S, S = [k \in 1..Len(p) |-> <<"stamp">> \o p[k]]
  PROVE  /\ t \in Seq(LineChars) /\ p \in Seq(Seq(LineChars)) /\ S \in Seq(Seq(LineChars))
         /\ LinesOf(Encoded(own, linesep)) = LinesOf(Encoded(Header, linesep)) \o S
<1>1. input \in Seq(Bytes) /\ Header \in Seq(LogChars)
  BY DEF EmitInvariant, EmitType
<1>2. t \in Seq(LineChars)
  <2>1. input \in Seq(Symbols)
    BY <1>1 DEF Bytes
  <2>2. t = FileText(input)
    BY DEF TextOf, FileText
  <2> QED
    BY <2>1, <2>2, FileLines
<1>3. Closed(t) \in Seq(LineChars)
  <2>1. "nl" \in LineChars
    BY CleanIsLogged
  <2>2. Append(t, "nl") \in Seq(LineChars)
    BY <1>2, <2>1
  <2> QED
    BY <1>2, <2>2 DEF Closed
<1>4. p \in Seq(Seq(LineChars)) /\ AreLines(p)
  BY <1>3, SplitIs
<1>5. S \in Seq(Seq(LineChars)) /\ AreLines(S)
  BY <1>4, LinesWithStamp
<1>6. PICK s \in Seq(LineChars) : s = FlattenSeq(S) /\ SplitLines(s) = S
  BY <1>5, LinesAre
<1>7. own = Header \o s
  <2>1. LogIsTheOutput
    BY LogIsTheOutputHolds
  <2>2. Body(own) = FlattenSeq([k \in 1..Len(SplitLines(Closed(TextOf(input)))) |->
                                  <<"stamp">> \o SplitLines(Closed(TextOf(input)))[k]])
    BY <2>1 DEF LogIsTheOutput
  <2>3. Body(own) = s
    BY <1>6, <2>2
  <2>4. Logged \in Seq(Chars) /\ own = Header \o Stamped(Logged, FALSE)
    BY LoggedChars DEF EmitInvariant, LogHolds
  <2>5. PICK y \in Seq(LogChars) : y = Stamped(Logged, FALSE)
    BY <2>4, StampedType
  <2>6. SubSeq(Header \o y, Len(Header) + 1, Len(Header \o y)) = y
    BY <1>1, SuffixOfConcat
  <2> QED
    BY <2>3, <2>4, <2>5, <2>6 DEF Body
<1>8. s \in Seq(LogChars)
  BY CleanIsLogged
<1>9. PICK E \in Seq(Symbols) : E = Encoded(s, linesep) /\ FileText(E) = s
  <2>1. s \in Seq(Clean \ {"cr"})
    BY DEF LineChars
  <2> QED
    BY <2>1, EncodedReadsBack
<1>10. LinesOf(E) = S
  BY <1>6, <1>9, FileLines
<1>11. PICK e \in Seq(Symbols) : e = Encoded(Header, linesep) /\ Border(e, E)
  BY HeaderEncoded
<1>12. linesep \in Seq(Symbols)
  <2>1. <<"nl">> \in Seq(Symbols) /\ <<"cr", "nl">> \in Seq(Symbols)
    BY DEF Symbols
  <2> QED
    BY <2>1 DEF Separators
<1>13. Encoded(own, linesep) = e \o E
  BY <1>1, <1>7, <1>8, <1>9, <1>11, <1>12, EncodedJoin
<1> QED
  BY <1>2, <1>4, <1>5, <1>10, <1>11, <1>13, BorderJoins

-----------------------------------------------------------------------------
(* The class of a failure.                                                 *)

\* A symbol is in a text when it is in one of its pieces.
LEMMA ContainsJoin ==
  \A S : \A a, b \in Seq(S) : \A w :
    Contains(a \o b, w) <=> Contains(a, w) \/ Contains(b, w)
<1> SUFFICES ASSUME NEW S, NEW a \in Seq(S), NEW b \in Seq(S), NEW w
             PROVE  Contains(a \o b, w) <=> Contains(a, w) \/ Contains(b, w)
  OBVIOUS
<1>1. /\ Len(a) \in Nat /\ Len(b) \in Nat /\ Len(a \o b) = Len(a) + Len(b)
      /\ \A i \in 1..Len(a) : (a \o b)[i] = a[i]
      /\ \A j \in 1..Len(b) : (a \o b)[Len(a) + j] = b[j]
  BY ConcatIs, EmptyIs
<1>2. PICK m \in Nat, n \in Nat, c \in Seq(S) : m = Len(a) /\ n = Len(b) /\ c = a \o b
  BY <1>1, ConcatIs
<1>3. \A i \in 1..m + n : i \in 1..m \/ (i - m \in 1..n /\ m + (i - m) = i)
  OBVIOUS
<1>4. \A i \in 1..m + n : c[i] = w =>
        (\E k \in 1..m : a[k] = w) \/ (\E k \in 1..n : b[k] = w)
  BY <1>1, <1>2, <1>3
<1>5. (\A k \in 1..m : k \in 1..m + n) /\ (\A k \in 1..n : m + k \in 1..m + n)
  OBVIOUS
<1>6. /\ \A k \in 1..m : a[k] = w => \E i \in 1..m + n : c[i] = w
      /\ \A k \in 1..n : b[k] = w => \E i \in 1..m + n : c[i] = w
  BY <1>1, <1>2, <1>5
<1>7. (\E i \in 1..m + n : c[i] = w) <=> (\E k \in 1..m : a[k] = w) \/ (\E k \in 1..n : b[k] = w)
  BY <1>4, <1>6
<1> QED
  BY <1>1, <1>2, <1>7 DEF Contains

\* A symbol is in lines put together when it is in one of them.
LEMMA ContainsFlat ==
  ASSUME NEW S, NEW p \in Seq(Seq(S)), NEW w
  PROVE  Contains(FlattenSeq(p), w) <=> \E k \in 1..Len(p) : Contains(p[k], w)
<1> DEFINE T == {n \in 0..Len(p) : Contains(FlattenSeq(SubSeq(p, 1, n)), w)
                                     <=> \E k \in 1..n : Contains(p[k], w)}
<1>0. Len(p) \in Nat
  OBVIOUS
<1>1. 0 \in T
  <2>1. SubSeq(p, 1, 0) = <<>> /\ FlattenSeq(<<>>) = <<>> /\ Len(<<>>) = 0
    BY DEF FlattenSeq
  <2>2. ~Contains(<<>>, w)
    BY <2>1 DEF Contains
  <2>3. 0 \in 0..Len(p) /\ ~(\E k \in 1..0 : Contains(p[k], w))
    BY <1>0
  <2> QED
    BY <2>1, <2>2, <2>3
<1>2. ASSUME NEW n \in 0..Len(p) - 1, n \in T PROVE n + 1 \in T
  <2>1. PICK r \in Seq(Seq(S)), a \in Seq(S) :
          r = SubSeq(p, 1, n) /\ a = p[n + 1] /\ SubSeq(p, 1, n + 1) = Append(r, a)
    BY PrefixGrows
  <2>2. FlattenSeq(Append(r, a)) = FlattenSeq(r) \o a /\ FlattenSeq(r) \in Seq(S)
    BY FlattenAppend, FlattenType
  <2>3. Contains(FlattenSeq(r) \o a, w) <=> Contains(FlattenSeq(r), w) \/ Contains(a, w)
    BY <2>2, ContainsJoin
  <2>4. Contains(FlattenSeq(r), w) <=> \E k \in 1..n : Contains(p[k], w)
    BY <1>2, <2>1
  <2>5. n + 1 \in 0..Len(p) /\ \A k : k \in 1..n + 1 <=> k \in 1..n \/ k = n + 1
    BY <1>0
  <2>6. (\E k \in 1..n + 1 : Contains(p[k], w))
          <=> (\E k \in 1..n : Contains(p[k], w)) \/ Contains(a, w)
    BY <2>1, <2>5, Zenon
  <2>7. Contains(FlattenSeq(SubSeq(p, 1, n + 1)), w) <=> \E k \in 1..n + 1 : Contains(p[k], w)
    BY <2>1, <2>2, <2>3, <2>4, <2>6, Zenon
  <2> QED
    BY <2>5, <2>7, Zenon
<1> HIDE DEF T
<1>3. Len(p) \in T
  BY <1>0, <1>1, <1>2, CountUp
<1>4. SubSeq(p, 1, Len(p)) = p
  BY WholePrefix
<1> QED
  BY <1>3, <1>4 DEF T

\* Lines that have the same words.
SameWords(p, q) ==
  /\ Len(p) = Len(q)
  /\ \A k \in 1..Len(p) : \A w \in Words : Contains(p[k], w) <=> Contains(q[k], w)

\* Such lines, put together, have the same words; lines before them change nothing,
\* and so have the last of them.
LEMMA SameWordsFlat ==
  ASSUME NEW S, NEW p \in Seq(Seq(S)), NEW q \in Seq(Seq(S)), SameWords(p, q), NEW w \in Words
  PROVE  Contains(FlattenSeq(p), w) <=> Contains(FlattenSeq(q), w)
<1>1. /\ Contains(FlattenSeq(p), w) <=> \E k \in 1..Len(p) : Contains(p[k], w)
      /\ Contains(FlattenSeq(q), w) <=> \E k \in 1..Len(q) : Contains(q[k], w)
  BY ContainsFlat
<1> QED
  BY <1>1, Zenon DEF SameWords

LEMMA SameWordsJoin ==
  ASSUME NEW S, NEW h \in Seq(S), NEW p \in Seq(S), NEW q \in Seq(S), SameWords(p, q)
  PROVE  SameWords(h \o p, h \o q)
<1>1. /\ Len(h) \in Nat /\ Len(p) \in Nat /\ Len(h \o p) = Len(h) + Len(p)
      /\ \A i \in 1..Len(h) : (h \o p)[i] = h[i]
      /\ \A j \in 1..Len(p) : (h \o p)[Len(h) + j] = p[j]
  BY ConcatIs, EmptyIs
<1>2. /\ Len(h \o q) = Len(h) + Len(q)
      /\ \A i \in 1..Len(h) : (h \o q)[i] = h[i]
      /\ \A j \in 1..Len(q) : (h \o q)[Len(h) + j] = q[j]
  BY ConcatIs
<1>3. PICK m \in Nat, n \in Nat : m = Len(h) /\ n = Len(p) /\ n = Len(q)
  BY <1>1 DEF SameWords
<1>4. \A i \in 1..m + n : i \in 1..m \/ \E j \in 1..n : i = m + j
  <2>1. \A i \in 1..m + n : i \in 1..m \/ (i - m \in 1..n /\ m + (i - m) = i)
    OBVIOUS
  <2> QED
    BY <2>1
<1>5. ASSUME NEW i \in 1..m + n, NEW w \in Words
      PROVE  Contains((h \o p)[i], w) <=> Contains((h \o q)[i], w)
  <2>1. CASE i \in 1..m
    BY <1>1, <1>2, <1>3, <2>1, Zenon
  <2>2. ASSUME NEW j \in 1..n, i = m + j
        PROVE  Contains((h \o p)[i], w) <=> Contains((h \o q)[i], w)
    <3>1. (h \o p)[i] = p[j] /\ (h \o q)[i] = q[j]
      BY <1>1, <1>2, <1>3, <2>2, Zenon
    <3> QED
      BY <1>3, <3>1, Zenon DEF SameWords
  <2> QED
    BY <1>4, <2>1, <2>2
<1> QED
  BY <1>1, <1>2, <1>3, <1>5, Zenon DEF SameWords

LEMMA SameWordsLast ==
  ASSUME NEW S, NEW p \in Seq(S), NEW q \in Seq(S), SameWords(p, q), NEW n \in Nat
  PROVE  SameWords(LastOf(p, n), LastOf(q, n))
<1>1. PICK m \in Nat : m = Len(p) /\ m = Len(q)
  BY DEF SameWords
<1>2. PICK i \in 1..m + 1 : i = IF m > n THEN m - n + 1 ELSE 1
  <2>1. m > n => m - n + 1 \in 1..m + 1
    OBVIOUS
  <2>2. 1 \in 1..m + 1
    OBVIOUS
  <2> QED
    BY <2>1, <2>2, Zenon
<1>3. LastOf(p, n) = SubSeq(p, i, m) /\ LastOf(q, n) = SubSeq(q, i, m)
  BY <1>1, <1>2 DEF LastOf
<1>4. /\ Len(SubSeq(p, i, m)) = m - i + 1 /\ Len(SubSeq(q, i, m)) = m - i + 1
      /\ \A k \in 1..m - i + 1 : /\ SubSeq(p, i, m)[k] = p[i + k - 1]
                                 /\ SubSeq(q, i, m)[k] = q[i + k - 1]
                                 /\ i + k - 1 \in 1..m
  BY <1>1
<1> QED
  BY <1>1, <1>3, <1>4, Zenon DEF SameWords

\* A stamp and a newline are no words.
LEMMA NoWords ==
  /\ "stamp" \notin Words /\ "nl" \notin Words
  /\ \A w \in Words : ~Contains(<<"stamp">>, w) /\ ~Contains(<<"nl">>, w)
<1>1. "stamp" \notin Words /\ "nl" \notin Words
  BY DEF Words
<1>2. \A y, w : Contains(<<y>>, w) => y = w
  <2>1. \A y : \A i \in 1..Len(<<y>>) : <<y>>[i] = y
    OBVIOUS
  <2> QED
    BY <2>1 DEF Contains
<1> QED
  BY <1>1, <1>2

\* A stamp before each line changes no word of it.
LEMMA SameWordsStamped ==
  ASSUME NEW p \in Seq(Seq(LineChars)),
         NEW S, S = [k \in 1..Len(p) |-> <<"stamp">> \o p[k]]
  PROVE  Len(S) = Len(p) /\ SameWords(S, p)
<1>1. <<"stamp">> \in Seq(LineChars)
  BY DEF LineChars, Clean, Symbols, Added
<1>2. Len(p) \in Nat
  OBVIOUS
<1>3. Len(S) = Len(p)
  BY <1>2
<1>4. ASSUME NEW k \in 1..Len(p), NEW w \in Words
      PROVE  Contains(S[k], w) <=> Contains(p[k], w)
  <2>1. p[k] \in Seq(LineChars) /\ S[k] = <<"stamp">> \o p[k]
    OBVIOUS
  <2> QED
    BY <1>1, <2>1, ContainsJoin, NoWords, Zenon
<1> QED
  BY <1>3, <1>4 DEF SameWords

\* One more element.
LEMMA AppendIs ==
  \A V : \A f \in Seq(V), z \in V :
    /\ Append(f, z) \in Seq(V) /\ Len(Append(f, z)) = Len(f) + 1 /\ f \o <<z>> = Append(f, z)
    /\ Append(f, z)[Len(f) + 1] = z
    /\ \A i \in 1..Len(f) : Append(f, z)[i] = f[i]
OBVIOUS

\* The newline that closes the last line is all that the end of a stream adds.
LEMMA SameWordsClosed ==
  ASSUME NEW t \in Seq(LineChars), NEW q, q = SplitLines(t), NEW p, p = SplitLines(Closed(t))
  PROVE  /\ q \in Seq(Seq(LineChars)) /\ SameWords(p, q)
<1>1. q \in Seq(Seq(LineChars)) /\ AreLines(q) /\ FlattenSeq(q) = t
  BY SplitIs
<1>2. ASSUME Closed(t) = t PROVE SameWords(p, q)
  BY <1>2 DEF SameWords
<1>3. ASSUME Closed(t) # t PROVE SameWords(p, q)
  <2>1. t # <<>> /\ t[Len(t)] # "nl" /\ Closed(t) = Append(t, "nl")
    BY <1>3 DEF Closed, Last
  <2>2. q # <<>>
    <3>1. FlattenSeq(<<>>) = <<>>
      BY DEF FlattenSeq
    <3> QED
      BY <1>1, <2>1, <3>1
  <2>3. PICK N \in Seq(LineChars) : N = <<"nl">> /\ Len(N) = 1 /\ N[1] = "nl"
    <3>1. <<"nl">> \in Seq(LineChars) /\ Len(<<"nl">>) = 1 /\ <<"nl">>[1] = "nl"
      BY CleanIsLogged
    <3> QED
      BY <3>1
  <2>4. PICK V : V = Seq(LineChars)
    OBVIOUS
  <2>5. q \in Seq(V)
    BY <1>1, <2>4
  <2>6. PICK f \in Seq(V), z \in V : f = Front(q) /\ z = q[Len(q)] /\ Len(f) = Len(q) - 1
                                      /\ q = f \o <<z>>
    <3>1. /\ Front(q) \in Seq(V) /\ Len(Front(q)) = Len(q) - 1 /\ q[Len(q)] \in V
          /\ q = Front(q) \o <<q[Len(q)]>>
      BY <2>2, <2>5, FrontIs
    <3> QED
      BY <3>1
  <2>7. PICK n \in Nat : n = Len(q) /\ n # 0 /\ Len(f) = n - 1
    BY <2>2, <2>5, <2>6, EmptyIs
  <2>8. q = Append(f, z) /\ \A i \in 1..n - 1 : q[i] = f[i]
    <3>1. q = Append(f, z) /\ \A i \in 1..Len(f) : Append(f, z)[i] = f[i]
      BY <2>6, AppendIs
    <3> QED
      BY <2>7, <3>1
  <2>9. z # <<>> /\ \A i \in 1..Len(z) - 1 : z[i] # "nl"
    <3>1. n \in 1..n
      BY <2>7
    <3> QED
      BY <1>1, <2>6, <2>7, <3>1 DEF AreLines
  <2>10. z[Len(z)] # "nl"
    <3>1. t[Len(t)] = q[Len(q)][Len(q[Len(q)])]
      BY <1>1, <2>2, LastOfLines
    <3> QED
      BY <2>1, <2>6, <3>1
  <2>11. PICK y \in Seq(LineChars) : y = z \o N
    BY <2>3, <2>4, ConcatIs
  <2>12. /\ Len(y) = Len(z) + 1 /\ y[Len(y)] = "nl" /\ y # <<>>
         /\ \A i \in 1..Len(y) - 1 : y[i] # "nl"
    <3>1. /\ z \in Seq(LineChars) /\ Len(z) \in Nat /\ Len(y) = Len(z) + 1
          /\ \A i \in 1..Len(z) : y[i] = z[i]
          /\ \A j \in 1..Len(N) : y[Len(z) + j] = N[j]
      BY <2>3, <2>4, <2>11, ConcatIs, EmptyIs
    <3>2. 1 \in 1..Len(N)
      BY <2>3
    <3>3. y[Len(z) + 1] = "nl"
      BY <2>3, <3>1, <3>2
    <3>4. \A i \in 1..Len(z) : y[i] # "nl"
      <4>1. \A i \in 1..Len(z) : i = Len(z) \/ i \in 1..Len(z) - 1
        BY <3>1
      <4> QED
        BY <2>9, <2>10, <3>1, <4>1
    <3>5. Len(y) - 1 = Len(z) /\ Len(y) # 0
      BY <3>1
    <3> QED
      BY <3>1, <3>3, <3>4, <3>5, EmptyIs
  <2>13. PICK r \in Seq(V) : /\ r = Append(f, y) /\ Len(r) = n /\ r[n] = y
                             /\ \A i \in 1..n - 1 : r[i] = q[i]
    <3>1. y \in V /\ (n - 1) + 1 = n
      BY <2>4, <2>7, <2>11
    <3>2. /\ Append(f, y) \in Seq(V) /\ Len(Append(f, y)) = Len(f) + 1
          /\ Append(f, y)[Len(f) + 1] = y
          /\ \A i \in 1..Len(f) : Append(f, y)[i] = f[i]
      BY <3>1, AppendIs
    <3>3. PICK r \in Seq(V) : r = Append(f, y)
      BY <3>2
    <3>4. Len(r) = n /\ r[n] = y
      BY <2>7, <3>1, <3>2, <3>3
    <3>5. \A i \in 1..n - 1 : r[i] = q[i]
      BY <2>7, <2>8, <3>2, <3>3
    <3> QED
      BY <3>3, <3>4, <3>5
  <2>14. AreLines(r)
    <3>0. /\ \A k \in 1..n : q[k] # <<>> /\ \A i \in 1..Len(q[k]) - 1 : q[k][i] # "nl"
          /\ \A k \in 1..n : k < n => q[k][Len(q[k])] = "nl"
      BY <1>1, <2>7 DEF AreLines
    <3>1. \A k \in 1..n : k = n \/ (k \in 1..n - 1 /\ k < n)
      BY <2>7
    <3>2. ~(n < n)
      BY <2>7
    <3>3. \A k \in 1..n - 1 : k \in 1..n
      BY <2>7
    <3>4. ASSUME NEW k \in 1..n
          PROVE  /\ r[k] # <<>> /\ \A i \in 1..Len(r[k]) - 1 : r[k][i] # "nl"
                 /\ k < n => r[k][Len(r[k])] = "nl"
      <4>1. CASE k = n
        BY <2>12, <2>13, <3>2, <4>1
      <4>2. CASE k # n
        <5>1. k \in 1..n - 1 /\ r[k] = q[k]
          BY <2>13, <3>1, <4>2
        <5> QED
          BY <3>0, <5>1, Zenon
      <4> QED
        BY <4>1, <4>2
    <3> QED
      BY <2>13, <3>4, Zenon DEF AreLines
  <2>15. FlattenSeq(r) = Closed(t)
    <3>1. FlattenSeq(r) = FlattenSeq(f) \o y /\ FlattenSeq(q) = FlattenSeq(f) \o z
      <4>1. f \in Seq(Seq(LineChars)) /\ y \in Seq(LineChars) /\ z \in Seq(LineChars)
        BY <2>4, <2>6, <2>11
      <4> QED
        BY <2>8, <2>13, <4>1, FlattenAppend
    <3>2. FlattenSeq(f) \in Seq(LineChars)
      BY <2>4, <2>6, FlattenType
    <3>3. FlattenSeq(f) \o (z \o N) = (FlattenSeq(f) \o z) \o N
      BY <2>3, <2>4, <3>2, Associative
    <3>4. t \o N = Append(t, "nl")
      BY <2>3
    <3> QED
      BY <1>1, <2>1, <2>11, <3>1, <3>3, <3>4
  <2>16. p = r
    BY <2>4, <2>13, <2>14, <2>15, LinesAre
  <2>17. ASSUME NEW w \in Words PROVE Contains(y, w) <=> Contains(z, w)
    BY <2>3, <2>4, <2>11, ContainsJoin, NoWords
  <2>18. \A k \in 1..n : k = n \/ k \in 1..n - 1
    BY <2>7
  <2> QED
    BY <2>6, <2>7, <2>13, <2>16, <2>17, <2>18, Zenon DEF SameWords
<1> QED
  BY <1>1, <1>2, <1>3

\* The last of a sequence are elements of it.
LEMMA LastOfType ==
  ASSUME NEW S, NEW q \in Seq(S), NEW n \in Nat
  PROVE  LastOf(q, n) \in Seq(S)
<1>1. Len(q) > n => Len(q) - n + 1 \in 1..Len(q) + 1
  OBVIOUS
<1>2. \A i \in 1..Len(q) + 1 : SubSeq(q, i, Len(q)) \in Seq(S)
  OBVIOUS
<1>3. 1 \in 1..Len(q) + 1
  OBVIOUS
<1> QED
  BY <1>1, <1>2, <1>3, Zenon DEF LastOf

\* The last lines of the file have the words of the lines that the job wrote last.
LEMMA LastLinesAre ==
  ASSUME EmitInvariant, ended, SeparatorKept, NEW w \in Words,
         NEW f, f = LinesOf(Encoded(own, linesep))
  PROVE  Contains(FlattenSeq(LastOf(f, TailLines)), w) <=> Contains(LastLines, w)
<1>1. PICK t, p, q, S, h : /\ t = TextOf(input) /\ p = SplitLines(Closed(t)) /\ q = SplitLines(t)
                           /\ S = [k \in 1..Len(p) |-> <<"stamp">> \o p[k]]
                           /\ h = LinesOf(Encoded(Header, linesep))
  OBVIOUS
<1>2. linesep \in Separators
  BY LogTextAssumption DEF SeparatorKept, Separators
<1>3. /\ t \in Seq(LineChars) /\ p \in Seq(Seq(LineChars)) /\ S \in Seq(Seq(LineChars))
      /\ f = h \o S
  BY <1>1, <1>2, LogLinesAre
<1>4. h \in Seq(Seq(LineChars))
  <2>1. Encoded(Header, linesep) \in Seq(Symbols)
    <3>1. <<>> \in Seq(Symbols)
      OBVIOUS
    <3> QED
      BY <1>2, <3>1, HeaderEncoded
  <2> QED
    BY <1>1, <2>1, FileLines
<1>5. q \in Seq(Seq(LineChars)) /\ SameWords(p, q) /\ SameWords(S, p)
  BY <1>1, <1>3, SameWordsClosed, SameWordsStamped
<1>6. SameWords(S, q)
  BY <1>5, Zenon DEF SameWords
<1>7. PICK V : V = Seq(LineChars)
  OBVIOUS
<1>8. PICK a \in Seq(V), b \in Seq(V) : a = h \o S /\ b = h \o q /\ SameWords(a, b)
  <2>1. h \in Seq(V) /\ S \in Seq(V) /\ q \in Seq(V)
    BY <1>3, <1>4, <1>5, <1>7
  <2> QED
    BY <1>6, <2>1, ConcatIs, SameWordsJoin
<1>9. TailLines \in Nat
  BY TailAssumption
<1>10. SameWords(LastOf(a, TailLines), LastOf(b, TailLines))
  BY <1>8, <1>9, SameWordsLast
<1>11. LastOf(a, TailLines) \in Seq(V) /\ LastOf(b, TailLines) \in Seq(V)
  BY <1>9, LastOfType
<1>12. Contains(FlattenSeq(LastOf(a, TailLines)), w) <=> Contains(FlattenSeq(LastOf(b, TailLines)), w)
  BY <1>7, <1>10, <1>11, SameWordsFlat
<1> QED
  BY <1>1, <1>3, <1>8, <1>12 DEF LastLines

\* A log no longer than the budget is returned as its last lines, all whole.
LEMMA FitsIsTail ==
  ASSUME bytes \in Seq(Symbols), TailIsTrue, tailPc = "done", Len(bytes) <= MaxBytes
  PROVE  tail = LastOf(LinesOf(bytes), TailLines)
<1>1. PICK p \in Seq(Seq(LineChars)) : p = LinesOf(bytes) /\ (bytes # <<>> => p # <<>>)
  BY HowManyLines
<1>2. PICK k \in 0..TailLines :
        /\ k < TailLines /\ k < Len(p) => Len(bytes) > MaxBytes
        /\ ~(k = 0 /\ bytes # <<>>) => tail = LastOf(p, k)
  BY <1>1 DEF TailIsTrue
<1>3. Len(bytes) \in Nat /\ MaxBytes \in Nat /\ TailLines \in Nat /\ TailLines # 0
  BY TailAssumption
<1>4. PICK V : V = Seq(LineChars)
  OBVIOUS
<1>5. PICK n \in Nat : n = Len(p) /\ (p = <<>> <=> n = 0) /\ p \in Seq(V)
  BY <1>4, EmptyIs
<1>6. k = TailLines \/ n <= k
  BY <1>2, <1>3, <1>5
<1>7. ~(k = 0 /\ bytes # <<>>)
  BY <1>1, <1>3, <1>5, <1>6
<1>8. tail = LastOf(p, k)
  BY <1>2, <1>7
<1>9. ASSUME n <= k PROVE LastOf(p, k) = p /\ LastOf(p, TailLines) = p
  <2>1. k \in Nat /\ n <= TailLines
    BY <1>3, <1>9
  <2> QED
    BY <1>3, <1>5, <1>9, <2>1, LastOfAll
<1> QED
  BY <1>1, <1>6, <1>8, <1>9

\* The last symbol of a text but for its newlines.
LastButNewlines(q, n) ==
  /\ n \in 1..Len(q) /\ q[n] # "nl" /\ \A j \in n + 1..Len(q) : q[j] = "nl"
  /\ Without(q, {"nl"}) # <<>> => Last(Without(q, {"nl"})) = q[n]

\* There is one in every text that is not all newlines.
LEMMA LastButNewlinesIs ==
  ASSUME NEW S, NEW q \in Seq(S), Without(q, {"nl"}) # <<>>
  PROVE  \E n : LastButNewlines(q, n)
<1> DEFINE W(k) == Without(SubSeq(q, 1, k), {"nl"})
           T == {k \in 0..Len(q) :
                   \/ W(k) = <<>>
                   \/ \E n \in 1..k : /\ q[n] # "nl" /\ \A j \in n + 1..k : q[j] = "nl"
                                      /\ W(k)[Len(W(k))] = q[n]}
<1>0. Len(q) \in Nat
  OBVIOUS
<1>1. 0 \in T
  <2>1. SubSeq(q, 1, 0) = <<>>
    BY WholePrefix
  <2>2. Without(<<>>, {"nl"}) = <<>>
    BY WithoutOne
  <2>3. W(0) = <<>>
    BY <2>1, <2>2, Zenon
  <2>4. 0 \in 0..Len(q)
    BY <1>0
  <2> HIDE DEF W
  <2> QED
    BY <2>3, <2>4
<1>2. ASSUME NEW k \in 0..Len(q) - 1, k \in T PROVE k + 1 \in T
  <2>1. PICK s \in Seq(S), x \in S : s = SubSeq(q, 1, k) /\ x = q[k + 1]
                                     /\ SubSeq(q, 1, k + 1) = Append(s, x)
    BY PrefixGrows
  <2>2. PICK z \in Seq(S) : z = <<x>> /\ Append(s, x) = s \o z
    BY AppendIs, SinglesAre
  <2>3. /\ W(k) = Without(s, {"nl"}) /\ W(k + 1) = Without(s, {"nl"}) \o Without(z, {"nl"})
        /\ Without(s, {"nl"}) \in Seq(S)
    <3>1. SubSeq(q, 1, k + 1) = s \o z
      BY <2>1, <2>2
    <3>2. /\ Without(s, {"nl"}) \in Seq(S)
          /\ Without(SubSeq(q, 1, k + 1), {"nl"}) = Without(s, {"nl"}) \o Without(z, {"nl"})
      BY <3>1, WithoutJoin, Zenon
    <3> QED
      BY <2>1, <3>2
  <2>4. Without(z, {"nl"}) = IF x = "nl" THEN <<>> ELSE <<x>>
    <3>1. Without(<<x>>, {"nl"}) = IF x \in {"nl"} THEN <<>> ELSE <<x>>
      BY WithoutOne
    <3> QED
      BY <2>2, <3>1
  <2>5. PICK u \in Seq(S) : u = W(k)
    BY <2>3
  <2>6. k + 1 \in 0..Len(q) /\ k \in Nat
    BY <1>0
  <2> HIDE DEF W
  <2>7. CASE x = "nl"
    <3>1. W(k + 1) = W(k)
      <4>1. u \o <<>> = u
        OBVIOUS
      <4> QED
        BY <2>3, <2>4, <2>5, <2>7, <4>1
    <3>2. \A n \in 1..k : n \in 1..k + 1 /\ \A j \in n + 1..k + 1 : j \in n + 1..k \/ j = k + 1
      BY <2>6
    <3>3. ASSUME NEW n \in 1..k, q[n] # "nl", \A j \in n + 1..k : q[j] = "nl",
                 W(k)[Len(W(k))] = q[n]
          PROVE  \E m \in 1..k + 1 : /\ q[m] # "nl" /\ \A j \in m + 1..k + 1 : q[j] = "nl"
                                     /\ W(k + 1)[Len(W(k + 1))] = q[m]
      <4>1. n \in 1..k + 1 /\ \A j \in n + 1..k + 1 : q[j] = "nl"
        BY <2>1, <2>7, <3>2, <3>3
      <4> QED
        BY <3>1, <3>3, <4>1
    <3> QED
      BY <1>2, <2>6, <3>1, <3>3
  <2>8. CASE x # "nl"
    <3>1. W(k + 1) = u \o z
      BY <2>2, <2>3, <2>4, <2>5, <2>8
    <3>2. (u \o z)[Len(u \o z)] = x
      BY <2>2, AppendIs
    <3>3. k + 1 \in 1..k + 1 /\ \A j : j \notin k + 1 + 1..k + 1
      BY <2>6
    <3>4. \E n \in 1..k + 1 : /\ q[n] # "nl" /\ \A j \in n + 1..k + 1 : q[j] = "nl"
                              /\ W(k + 1)[Len(W(k + 1))] = q[n]
      BY <2>1, <2>8, <3>1, <3>2, <3>3
    <3> QED
      BY <2>6, <3>4
  <2> QED
    BY <2>7, <2>8
<1> HIDE DEF T
<1>3. Len(q) \in T
  BY <1>0, <1>1, <1>2, CountUp
<1>4. W(Len(q)) = Without(q, {"nl"})
  BY WholePrefix
<1> QED
  BY <1>3, <1>4 DEF T, LastButNewlines, Last

\* What parse_errors finds: "Killed" as the last word of stdout, the others in either tail.
SeenIn(err, out) ==
  {w \in Words : \/ w # "Killed" /\ (Contains(err, w) \/ Contains(out, w))
                 \/ w = "Killed" /\ Without(out, {"nl"}) # <<>> /\ Last(Without(out, {"nl"})) = w}

\* A pattern is found exactly where its word counts.
LEMMA MatchesSeen ==
  ASSUME NEW S, "nl" \in S, NEW err \in Seq(S), NEW out \in Seq(S), Without(out, {"nl"}) # <<>>,
         NEW w \in Words
  PROVE  Matches(w, err \o <<"nl">> \o out) <=> w \in SeenIn(err, out)
<1>1. PICK N \in Seq(S) : N = <<"nl">> /\ Len(N) = 1
  <2>1. <<"nl">> \in Seq(S) /\ Len(<<"nl">>) = 1
    OBVIOUS
  <2> QED
    BY <2>1
<1>2. PICK e \in Seq(S), t \in Seq(S) : e = err \o N /\ t = e \o out
  BY ConcatIs
<1>3. t = err \o <<"nl">> \o out
  BY <1>1, <1>2
<1>4. CASE w # "Killed"
  <2>1. Matches(w, t) <=> Contains(t, w)
    BY <1>4 DEF Matches, Contains
  <2>2. Contains(t, w) <=> Contains(err, w) \/ Contains(N, w) \/ Contains(out, w)
    BY <1>2, ContainsJoin
  <2>3. ~Contains(N, w)
    BY <1>1, NoWords
  <2> QED
    BY <1>3, <1>4, <2>1, <2>2, <2>3 DEF SeenIn
<1>5. CASE w = "Killed"
  <2>1. PICK n : LastButNewlines(out, n)
    BY LastButNewlinesIs
  <2>2. PICK a \in Nat, m \in Nat : /\ a = Len(e) /\ m = Len(out) /\ Len(t) = a + m
                                   /\ \A j \in 1..m : t[a + j] = out[j]
    BY <1>2, ConcatIs, EmptyIs
  <2>3. n \in 1..m /\ out[n] # "nl" /\ \A j \in n + 1..m : out[j] = "nl"
    BY <2>1, <2>2 DEF LastButNewlines
  <2>4. Last(Without(out, {"nl"})) = out[n]
    BY <2>1 DEF LastButNewlines
  <2>5. w \in SeenIn(err, out) <=> out[n] = w
    BY <1>5, <2>4 DEF SeenIn
  <2>6. a + n \in 1..a + m /\ t[a + n] = out[n]
    BY <2>2, <2>3
  <2>7. ASSUME NEW j \in a + n + 1..a + m PROVE t[j] = "nl"
    <3>1. j - a \in n + 1..m /\ j - a \in 1..m /\ a + (j - a) = j
      BY <2>2, <2>3
    <3> QED
      BY <2>2, <2>3, <3>1
  <2>8. ASSUME NEW i \in 1..a + m, t[i] = w, \A j \in i + 1..a + m : t[j] = "nl"
        PROVE  i = a + n
    <3>1. i > a + n => i \in a + n + 1..a + m
      BY <2>2, <2>3
    <3>2. i < a + n => a + n \in i + 1..a + m
      BY <2>2, <2>3
    <3>3. w # "nl"
      BY <1>5
    <3>4. ~(i > a + n) /\ ~(i < a + n)
      BY <2>3, <2>6, <2>7, <2>8, <3>1, <3>2, <3>3
    <3>5. \A x, y \in Int : x = y \/ x < y \/ x > y
      OBVIOUS
    <3>6. i \in Int /\ a + n \in Int
      BY <2>2, <2>3
    <3> QED
      BY <3>4, <3>5, <3>6
  <2>9. Matches(w, t) <=> out[n] = w
    <3>1. Matches(w, t) <=> \E i \in 1..a + m : t[i] = w /\ \A j \in i + 1..a + m : t[j] = "nl"
      BY <1>5, <2>2 DEF Matches
    <3> QED
      BY <2>6, <2>7, <2>8, <3>1
  <2> QED
    BY <1>3, <2>5, <2>9
<1> QED
  BY <1>4, <1>5

\* The class: the first in the list of what is found.
LEMMA ParseErrorsIs ==
  ASSUME NEW S, "nl" \in S, NEW err \in Seq(S), NEW out \in Seq(S), Without(out, {"nl"}) # <<>>,
         NEW code \in Int \ {0}, NEW c, c = ParseErrors(out, err, code)
  PROVE  IF SeenIn(err, out) = {} THEN c = "exited"
         ELSE /\ c \in SeenIn(err, out)
              /\ \A p, q \in 1..Len(ErrorPatterns) :
                   ErrorPatterns[p] = c /\ ErrorPatterns[q] \in SeenIn(err, out) => p <= q
<1> DEFINE found == {p \in 1..Len(ErrorPatterns) : Matches(ErrorPatterns[p], err \o <<"nl">> \o out)}
           seen == SeenIn(err, out)
<1>1. /\ Len(ErrorPatterns) = 3 /\ \A p \in 1..3 : ErrorPatterns[p] \in Words
      /\ \A p, q \in 1..3 : ErrorPatterns[p] = ErrorPatterns[q] => p = q
      /\ \A w \in Words : \E p \in 1..3 : ErrorPatterns[p] = w
  <2>1. /\ Len(ErrorPatterns) = 3 /\ ErrorPatterns[1] = "CUDA OOM" /\ ErrorPatterns[2] = "Killed"
        /\ ErrorPatterns[3] = "RuntimeError"
    BY DEF ErrorPatterns
  <2>2. Words = {"CUDA OOM", "Killed", "RuntimeError"}
    BY DEF Words
  <2>3. \A p \in 1..3 : p = 1 \/ p = 2 \/ p = 3
    OBVIOUS
  <2>4. 1 \in 1..3 /\ 2 \in 1..3 /\ 3 \in 1..3
    OBVIOUS
  <2>5. \A p \in 1..3 : ErrorPatterns[p] \in Words
    BY <2>1, <2>2, <2>3
  <2>6. \A p, q \in 1..3 : ErrorPatterns[p] = ErrorPatterns[q] => p = q
    BY <2>1, <2>3
  <2>7. \A w \in Words : \E p \in 1..3 : ErrorPatterns[p] = w
    BY <2>1, <2>2, <2>4
  <2> QED
    BY <2>1, <2>5, <2>6, <2>7
<1>2. \A p \in 1..3 : p \in found <=> ErrorPatterns[p] \in seen
  BY <1>1, MatchesSeen
<1>3. found \subseteq 1..3
  BY <1>1
<1>4. seen \subseteq Words
  BY DEF SeenIn
<1>5. c = IF found # {} THEN ErrorPatterns[Min(found)] ELSE "exited"
  BY DEF ParseErrors
<1> HIDE DEF found, seen
<1>6. CASE found = {}
  <2>1. seen = {}
    BY <1>1, <1>2, <1>4, <1>6
  <2> QED
    BY <1>5, <1>6, <2>1 DEF seen
<1>7. CASE found # {}
  <2>1. PICK m \in found : \A y \in found : m <= y
    <3>1. found \in SUBSET Nat
      BY <1>3
    <3> QED
      BY <1>7, <3>1, NatLeast
  <2>2. Min(found) \in found /\ \A y \in found : Min(found) <= y
    BY <2>1 DEF Min
  <2>3. ErrorPatterns[Min(found)] \in seen
    BY <1>2, <1>3, <2>2
  <2>4. ASSUME NEW p \in 1..3, NEW q \in 1..3, ErrorPatterns[p] = c, ErrorPatterns[q] \in seen
        PROVE  p <= q
    <3>1. p = Min(found)
      BY <1>1, <1>3, <1>5, <1>7, <2>2, <2>4
    <3> QED
      BY <1>2, <2>2, <2>4, <3>1
  <2> QED
    BY <1>1, <1>5, <1>7, <2>3, <2>4 DEF seen
<1> QED
  BY <1>6, <1>7

\* What the tail holds of the words, when it is all the last lines.
LEMMA TailHasWords ==
  ASSUME EmitInvariant, TailHolds, SeparatorKept, TailIsTrue, TailFits,
         ended, tailPc = "done", bytes = Encoded(own, linesep)
  PROVE  /\ FlattenSeq(tail) \in Seq(LogChars)
         /\ \A w \in Words : Contains(FlattenSeq(tail), w) <=> Contains(LastLines, w)
<1>1. bytes \in Seq(Symbols)
  BY DEF TailHolds
<1>2. tail = LastOf(LinesOf(bytes), TailLines)
  BY <1>1, FitsIsTail DEF TailFits
<1>3. FlattenSeq(tail) \in Seq(LineChars)
  <2>1. LinesOf(bytes) \in Seq(Seq(LineChars))
    BY <1>1, FileLines
  <2>2. PICK V : V = Seq(LineChars)
    OBVIOUS
  <2>3. tail \in Seq(V)
    BY <1>2, <2>1, <2>2, LastOfType, TailAssumption
  <2> QED
    BY <2>2, <2>3, FlattenType
<1>4. FlattenSeq(tail) \in Seq(LogChars)
  BY <1>3, CleanIsLogged
<1>5. ASSUME NEW w \in Words
      PROVE  Contains(FlattenSeq(tail), w) <=> Contains(LastLines, w)
  BY <1>2, LastLinesAre
<1> QED
  BY <1>4, <1>5

\* The file is read back when the reader has ended, and is the log it has written; the
\* class is taken from the tails when both are read.
FileKept == tailPc # "idle" => ended /\ bytes = Encoded(own, linesep)
ClassKept ==
  class # "none" =>
    /\ tailPc = "done" /\ stdoutTail \in StdoutTails
    /\ \E code \in ExitCodes : class = ParseErrors(stdoutTail, FlattenSeq(tail), code)

\* One step of the whole, for the class: no reader goes on once the log is read back.
LEMMA ClassIsKept ==
  FileKept /\ ClassKept /\ [Next]_vars => FileKept' /\ ClassKept'
<1> SUFFICES ASSUME FileKept, ClassKept, [Next]_vars PROVE FileKept' /\ ClassKept'
  OBVIOUS
<1>1. CASE Read
  <2>1. tailPc = "idle" /\ class = "none"
    BY <1>1 DEF Read, EmitNext, ReadSome, ReadEnd, FileKept, ClassKept
  <2> QED
    BY <1>1, <2>1 DEF Read, tailVars, FileKept, ClassKept
<1>2. CASE ReadBack
  <2>1. ended' = ended /\ own' = own /\ linesep' = linesep /\ class' = class /\ ended
    BY <1>2 DEF ReadBack, emitVars
  <2>2. CASE TailOpen(Encoded(own, linesep))
    BY <2>1, <2>2 DEF TailOpen, FileKept, ClassKept
  <2>3. CASE TailBlock
    BY <2>1, <2>3 DEF TailBlock, FileKept, ClassKept
  <2>4. CASE TailCut
    BY <2>1, <2>4 DEF TailCut, FileKept, ClassKept
  <2> QED
    BY <1>2, <2>2, <2>3, <2>4 DEF ReadBack
<1>3. CASE Classify
  <2>1. /\ tailPc = "done" /\ tailPc' = tailPc /\ tail' = tail /\ bytes' = bytes
        /\ ended' = ended /\ own' = own /\ linesep' = linesep
    BY <1>3 DEF Classify, emitVars, tailVars
  <2>2. FileKept'
    BY <2>1 DEF FileKept
  <2>3. ClassKept'
    BY <1>3, <2>1 DEF Classify, ClassKept
  <2> QED
    BY <2>2, <2>3
<1>4. CASE UNCHANGED vars
  BY <1>4 DEF vars, emitVars, tailVars, FileKept, ClassKept
<1> QED
  BY <1>1, <1>2, <1>3, <1>4 DEF Next

\* What the class is, of the words that the last lines of the job's own bytes have.
LEMMA ClassIsTrue ==
  ASSUME EmitInvariant, TailHolds, SeparatorKept, TailIsTrue, FileKept, ClassKept
  PROVE  ClassIsOfTheOutput
<1> SUFFICES ASSUME class # "none", TailFits
             PROVE  IF Seen = {} THEN class = "exited"
                    ELSE class \in Seen /\ \A p, q \in 1..Len(ErrorPatterns) :
                           ErrorPatterns[p] = class /\ ErrorPatterns[q] \in Seen => p <= q
  BY DEF ClassIsOfTheOutput
<1>1. /\ tailPc = "done" /\ stdoutTail \in StdoutTails
      /\ ended /\ bytes = Encoded(own, linesep)
  BY DEF ClassKept, FileKept
<1>2. PICK code \in ExitCodes : class = ParseErrors(stdoutTail, FlattenSeq(tail), code)
  BY DEF ClassKept
<1>3. code \in Int \ {0}
  BY <1>2, LogTextAssumption
<1>4. stdoutTail \in Seq(LogChars) /\ Without(stdoutTail, {"nl"}) # <<>>
  <2>1. Symbols \subseteq LogChars
    BY DEF LogChars, Chars, Bytes
  <2>2. stdoutTail \in Seq(Symbols) /\ Without(stdoutTail, {"nl"}) # <<>>
    BY <1>1, LogTextAssumption
  <2> QED
    BY <2>1, <2>2
<1>5. /\ FlattenSeq(tail) \in Seq(LogChars)
      /\ \A w \in Words : Contains(FlattenSeq(tail), w) <=> Contains(LastLines, w)
  BY <1>1, TailHasWords
<1>6. SeenIn(FlattenSeq(tail), stdoutTail) = Seen
  BY <1>5 DEF SeenIn, Seen
<1>7. PICK e \in Seq(LogChars) : e = FlattenSeq(tail)
  BY <1>5
<1>8. IF SeenIn(e, stdoutTail) = {} THEN class = "exited"
      ELSE /\ class \in SeenIn(e, stdoutTail)
           /\ \A p, q \in 1..Len(ErrorPatterns) :
                ErrorPatterns[p] = class /\ ErrorPatterns[q] \in SeenIn(e, stdoutTail) => p <= q
  BY <1>2, <1>3, <1>4, <1>7, CleanIsLogged, ParseErrorsIs
<1> QED
  BY <1>6, <1>7, <1>8

\* error_summary is the first class in the list whose words are in the last lines the job
\* wrote, from its bytes directly: nothing between the pipe and the tail loses a word, makes
\* one up or takes one from an older line (parse_errors of what tail_of read of the log).
THEOREM ClassIsTheOutputs == Spec => []ClassIsOfTheOutput
<1>1. Init => FileKept /\ ClassKept /\ SeparatorKept
  BY DEF Init, TailInit, FileKept, ClassKept, SeparatorKept
<1>2. FileKept /\ ClassKept /\ [Next]_vars => FileKept' /\ ClassKept'
  BY ClassIsKept
<1>3. EmitInvariant /\ TailHolds /\ SeparatorKept /\ [Next]_vars => SeparatorKept'
  BY TailKept
<1>4. EmitInvariant /\ TailHolds /\ SeparatorKept /\ TailIsTrue /\ FileKept /\ ClassKept
        => ClassIsOfTheOutput
  BY ClassIsTrue
<1>5. Spec => [](FileKept /\ ClassKept /\ SeparatorKept)
  BY <1>1, <1>2, <1>3, EmitInvariantHolds, LogTailBounded, PTL DEF Spec
<1> QED
  BY <1>4, <1>5, EmitInvariantHolds, LogTailBounded, LogTailIsTheEnd, PTL
=============================================================================
