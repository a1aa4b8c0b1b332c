-------------------------- MODULE ReportingProofs ---------------------------
(***************************************************************************)
(* Reporting for any number of files of any size, any limits, any number   *)
(* of changes and interrupts: nothing is lost silently, nothing foreign    *)
(* leaves the machine, and the exit status is the job's.                   *)
(***************************************************************************)
EXTENDS Reporting, SequenceTheorems, FiniteSetTheorems, WellFoundedInduction, TLAPS

-----------------------------------------------------------------------------
(* What is in the loops.                                                   *)

LEMMA RangeEmpty == \A x : x \notin Range(<<>>)
BY DEF Range

LEMMA RangeAppend ==
  ASSUME NEW S, NEW q \in Seq(S), NEW e \in S
  PROVE  /\ Append(q, e) \in Seq(S)
         /\ \A x : x \in Range(Append(q, e)) <=> x \in Range(q) \/ x = e
<1>1. Append(q, e) \in Seq(S) /\ Len(Append(q, e)) = Len(q) + 1
  OBVIOUS
<1>2. ASSUME NEW x \in Range(Append(q, e)) PROVE x \in Range(q) \/ x = e
  <2>1. PICK i \in 1..Len(q) + 1 : x = Append(q, e)[i]
    BY <1>1 DEF Range
  <2> QED BY <2>1 DEF Range
<1>3. ASSUME NEW x \in Range(q) PROVE x \in Range(Append(q, e))
  <2>1. PICK i \in 1..Len(q) : x = q[i]
    BY DEF Range
  <2>2. i \in DOMAIN Append(q, e) /\ Append(q, e)[i] = x
    BY <2>1
  <2> QED BY <2>2 DEF Range
<1>4. e \in Range(Append(q, e))
  <2>1. Len(q) + 1 \in DOMAIN Append(q, e) /\ Append(q, e)[Len(q) + 1] = e
    OBVIOUS
  <2> QED BY <2>1 DEF Range
<1> QED
  BY <1>1, <1>2, <1>3, <1>4

LEMMA RangeTail ==
  ASSUME NEW S, NEW q \in Seq(S), q # <<>>
  PROVE  /\ Tail(q) \in Seq(S) /\ Head(q) \in S /\ Head(q) \in Range(q)
         /\ \A x : x \in Range(q) <=> x = Head(q) \/ x \in Range(Tail(q))
<1>1. Tail(q) \in Seq(S) /\ Len(Tail(q)) = Len(q) - 1 /\ Head(q) = q[1] /\ q[1] \in S
      /\ Len(q) \in Nat \ {0}
  OBVIOUS
<1>2. ASSUME NEW x \in Range(q) PROVE x = Head(q) \/ x \in Range(Tail(q))
  <2>1. PICK i \in 1..Len(q) : x = q[i]
    BY DEF Range
  <2>2. CASE i = 1
    BY <1>1, <2>1, <2>2
  <2>3. CASE i # 1
    <3>1. i - 1 \in DOMAIN Tail(q) /\ Tail(q)[i - 1] = x
      BY <1>1, <2>1, <2>3
    <3> QED BY <3>1 DEF Range
  <2> QED BY <2>2, <2>3
<1>3. ASSUME NEW x \in Range(Tail(q)) PROVE x \in Range(q)
  <2>1. PICK i \in 1..Len(q) - 1 : x = Tail(q)[i]
    BY <1>1 DEF Range
  <2>2. i + 1 \in DOMAIN q /\ q[i + 1] = x
    BY <1>1, <2>1
  <2> QED BY <2>2 DEF Range
<1>4. Head(q) \in Range(q)
  BY <1>1 DEF Range
<1> QED
  BY <1>1, <1>2, <1>3, <1>4

LEMMA RangeSubset ==
  ASSUME NEW S, NEW q \in Seq(S)
  PROVE  Range(q) \subseteq S
BY DEF Range

\* The list of the scan, into which a file is put by its size.
LEMMA RangeBySize ==
  ASSUME NEW q \in Seq(Files), NEW f \in Files
  PROVE  /\ BySize(q, f) \in Seq(Files)
         /\ \A x : x \in Range(BySize(q, f)) <=> x \in Range(q) \/ x = f
<1> DEFINE I == {i \in DOMAIN q : size[q[i]] <= disk[f].size}
           n == Cardinality(I)
           a == SubSeq(q, 1, n)
           b == SubSeq(q, n + 1, Len(q))
<1>1. n \in 0..Len(q)
  <2>1. IsFiniteSet(1..Len(q)) /\ Cardinality(1..Len(q)) = Len(q) /\ Len(q) \in Nat
    <3>1. Len(q) \in Nat
      OBVIOUS
    <3> QED BY <3>1, FS_Interval
  <2>2. I \in SUBSET (1..Len(q))
    OBVIOUS
  <2> QED
    BY <2>1, <2>2, FS_Subset, FS_CardinalityType
<1>2. BySize(q, f) = a \o <<f>> \o b
  <2>1. (n + 1) - 1 = n
    BY <1>1
  <2> QED BY <2>1 DEF BySize, InsertAt
<1> HIDE DEF I, n
<1>3. a \in Seq(Files) /\ Len(a) = n /\ \A i \in 1..n : a[i] = q[i]
  BY <1>1
<1>4. b \in Seq(Files) /\ Len(b) = Len(q) - n /\ \A i \in 1..Len(q) - n : b[i] = q[i + n]
  BY <1>1
<1> HIDE DEF a, b
<1> DEFINE c == a \o <<f>>
           d == c \o b
<1>5. c \in Seq(Files) /\ Len(c) = n + 1 /\ c[n + 1] = f /\ \A i \in 1..n : c[i] = q[i]
  BY <1>1, <1>3
<1> HIDE DEF c
<1>6. /\ d \in Seq(Files) /\ Len(d) = Len(q) + 1 /\ d[n + 1] = f
      /\ \A i \in 1..n : d[i] = q[i]
      /\ \A i \in n + 1..Len(q) : d[i + 1] = q[i]
  <2>1. Len(q) \in Nat /\ n \in Nat /\ n <= Len(q)
    BY <1>1
  <2>2. d \in Seq(Files) /\ Len(d) = Len(q) + 1
    <3>1. d \in Seq(Files) /\ Len(d) = Len(c) + Len(b)
      BY <1>4, <1>5
    <3> QED BY <1>4, <1>5, <2>1, <3>1
  <2>3. \A i \in 1..n + 1 : d[i] = c[i]
    BY <1>4, <1>5, <2>1
  <2>4. ASSUME NEW i \in n + 1..Len(q) PROVE d[i + 1] = q[i]
    <3>1. d[i + 1] = b[i - n] /\ i - n \in 1..Len(q) - n
      BY <1>4, <1>5, <2>1
    <3> QED BY <1>4, <2>1, <3>1
  <2> QED BY <1>5, <2>1, <2>2, <2>3, <2>4
<1> HIDE DEF d
<1>7. ASSUME NEW x \in Range(d) PROVE x \in Range(q) \/ x = f
  <2>1. PICK i \in 1..Len(q) + 1 : x = d[i]
    BY <1>6 DEF Range
  <2>2. CASE i <= n
    <3>1. i \in DOMAIN q /\ q[i] = x
      BY <1>1, <1>6, <2>1, <2>2
    <3> QED BY <3>1 DEF Range
  <2>3. CASE i > n + 1
    <3>1. i - 1 \in DOMAIN q /\ q[i - 1] = x
      BY <1>1, <1>6, <2>1, <2>3
    <3> QED BY <3>1 DEF Range
  <2> QED BY <1>1, <1>6, <2>1, <2>2, <2>3
<1>8. ASSUME NEW x \in Range(q) PROVE x \in Range(d)
  <2>1. PICK i \in 1..Len(q) : x = q[i]
    BY DEF Range
  <2>2. CASE i <= n
    <3>1. i \in DOMAIN d /\ d[i] = x
      BY <1>1, <1>6, <2>1, <2>2
    <3> QED BY <3>1 DEF Range
  <2>3. CASE i > n
    <3>1. i + 1 \in DOMAIN d /\ d[i + 1] = x
      BY <1>1, <1>6, <2>1, <2>3
    <3> QED BY <3>1 DEF Range
  <2> QED BY <1>1, <2>1, <2>2, <2>3
<1>9. f \in Range(d)
  <2>1. n + 1 \in DOMAIN d
    BY <1>1, <1>6
  <2> QED BY <1>6, <2>1 DEF Range
<1>10. BySize(q, f) = d
  BY <1>2 DEF c, d
<1> QED
  BY <1>6, <1>7, <1>8, <1>9, <1>10
-----------------------------------------------------------------------------
(* Types.                                                                  *)

LEMMA TypeStart == Init => TypeOK
<1> SUFFICES ASSUME Init PROVE TypeOK
  OBVIOUS
<1>1. disk \in [Files -> [kind : Kinds, size : Nat]]
  BY ReportAssumption DEF Init, Kinds
<1>2. queue \in Seq(Parts) /\ queue \in Seq(Files) /\ to \in Seq(Parts)
      /\ artifacts \in Seq(Files) /\ overflow \in Seq(Files)
  BY DEF Init
<1>3. call \in Calls /\ touched \subseteq Files /\ pc \in Places /\ pc \notin Opening
      /\ unscanned \subseteq Files /\ size \in [Files -> Nat] /\ used \in Nat /\ archive \in Nat
  BY DEF Init, Places, Opening
<1>4. /\ quoted \subseteq [what : Files, size : Nat, kind : Kinds]
      /\ packed \subseteq [what : Files, size : Nat, kind : Kinds]
      /\ notes \subseteq Files /\ mail \subseteq [what : Parts, size : Nat, kind : Kinds]
      /\ outcome \in {"none", "sent", "failed"} /\ exit \in Nat \cup {NoExit}
      /\ changes \in Nat /\ interrupts \in Nat
  BY DEF Init
<1>5. root \in Dirs /\ roots \in [zip : Dirs, mail : Dirs]
  BY DEF Init, Dirs
<1> QED
  BY <1>1, <1>2, <1>3, <1>4, <1>5 DEF TypeOK

\* What an attachment is.
LEMMA AttachmentType ==
  ASSUME TypeOK, NEW f \in Files
  PROVE  /\ Attachment(f, disk[f].size, disk[f].kind) \in [what : Files, size : Nat, kind : Kinds]
         /\ Attachment(f, disk[f].size, disk[f].kind) \in [what : Parts, size : Nat, kind : Kinds]
<1>1. disk[f] \in [kind : Kinds, size : Nat]
  BY DEF TypeOK
<1>2. disk[f].size \in Nat /\ disk[f].kind \in Kinds
  BY <1>1
<1> QED
  BY <1>2 DEF Attachment, Parts

\* What is left of the list at hand.
LEMMA QueueTail ==
  ASSUME TypeOK, queue # <<>>
  PROVE  /\ Tail(queue) \in Seq(Parts) /\ Head(queue) \in Parts
         /\ pc \in Preparing => Tail(queue) \in Seq(Files) /\ Head(queue) \in Files
<1>1. queue \in Seq(Parts) /\ (pc \in Preparing => queue \in Seq(Files))
  BY DEF TypeOK
<1>2. Tail(queue) \in Seq(Parts) /\ Head(queue) \in Parts
  BY <1>1, RangeTail
<1>3. queue \in Seq(Files) => Tail(queue) \in Seq(Files) /\ Head(queue) \in Files
  BY RangeTail
<1> QED BY <1>1, <1>2, <1>3

\* A list of files is one of parts, and so is the empty list.
LEMMA FilesAreParts ==
  /\ \A q \in Seq(Files) : q \in Seq(Parts)
  /\ <<>> \in Seq(Files) /\ <<>> \in Seq(Parts)
BY DEF Parts

LEMMA CallTyped ==
  ASSUME TypeOK
  PROVE  call.logs \in Nat /\ call.exit \in Nat
BY ReportAssumption DEF TypeOK, CallType

\* Every step keeps the types.
LEMMA TypeStep ==
  ASSUME TypeOK, [Next]_vars
  PROVE  TypeOK'
<1> USE DEF TypeOK
<1> USE FilesAreParts
<1>1. CASE FixExit
  BY <1>1, ReportAssumption DEF FixExit, Places, Preparing, Opening, worldVars, metricVars,
     reportVars, CallType
<1>2. CASE Begin
  BY <1>2 DEF Begin, Places, Preparing, Opening, worldVars, metricVars, reportVars
<1>3. CASE Exit
  BY <1>3 DEF Exit, Places, Preparing, Opening, worldVars, metricVars, reportVars, LeftWith
<1>4. CASE Scanned
  BY <1>4 DEF Scanned, Places, Preparing, Opening, worldVars, metricVars, reportVars
<1>5. CASE AttachLogs
  <2>1. to' \in Seq(Parts)
    <3>1. "logs" \in Parts
      BY DEF Parts
    <3>2. <<"logs">> \in Seq(Parts)
      BY <3>1
    <3> QED BY <1>5, <3>2 DEF AttachLogs
  <2>2. used' \in Nat
    BY <1>5, CallTyped DEF AttachLogs
  <2> QED
    BY <1>5, <2>1, <2>2 DEF AttachLogs, Places, Preparing, Opening, worldVars, metricVars
<1>6. CASE Fit
  <2> DEFINE f == Head(queue)
  <2>1. f \in Files /\ f \in Parts /\ queue' \in Seq(Parts) /\ queue' \in Seq(Files)
    BY <1>6, QueueTail DEF Fit, Preparing, Parts
  <2>2. size[f] \in Nat /\ used + size[f] \in Nat
    BY <2>1
  <2> HIDE DEF f
  <2>3. Append(overflow, f) \in Seq(Files) /\ Append(to, f) \in Seq(Parts)
    BY <2>1
  <2>4. /\ notes' \subseteq Files /\ overflow' \in Seq(Files)
        /\ to' \in Seq(Parts) /\ used' \in Nat
    BY <1>6, <2>1, <2>2, <2>3 DEF Fit, f
  <2> QED
    BY <1>6, <2>1, <2>4 DEF Fit, Places, Preparing, Opening, worldVars, metricVars
<1>7. CASE Overflow
  <2>1. Range(overflow) \subseteq Files
    BY RangeSubset
  <2>2. notes' \subseteq Files
    BY <1>7, <2>1 DEF Overflow, NoPlace
  <2>3. queue' \in Seq(Parts) /\ queue' \in Seq(Files)
    BY <1>7 DEF Overflow, Preparing
  <2>4. pc' \in {"print", "zip"}
    BY <1>7 DEF Overflow
  <2> QED
    BY <1>7, <2>2, <2>3, <2>4 DEF Overflow, Places, Opening, worldVars, metricVars
<1>8. CASE ZipCheck
  BY <1>8, QueueTail DEF ZipCheck, Places, Preparing, Opening, worldVars, metricVars, reportVars
<1>9. CASE ZipOpen
  BY <1>9, QueueTail, AttachmentType DEF ZipOpen, Places, Preparing, Opening, worldVars,
     metricVars, reportVars
<1>10. CASE ZipFails
  <2>1. Range(overflow) \subseteq Files
    BY RangeSubset
  <2> QED
    BY <1>10, <2>1 DEF ZipFails, Places, Preparing, Opening, worldVars, metricVars
<1>11. CASE ZipDone
  <2>1. PICK n \in 1..TotalSize(packed) + 1 :
          \/ ZipFits(n) /\ archive' = n /\ to' = Append(to, "zip") /\ UNCHANGED notes
          \/ ~ZipFits(n) /\ notes' = notes \cup Range(overflow) /\ UNCHANGED <<archive, to>>
    BY <1>11 DEF ZipDone
  <2>2. n \in Nat
    BY <2>1
  <2>3. Append(to, "zip") \in Seq(Parts)
    BY DEF Parts
  <2>4. Range(overflow) \subseteq Files
    BY RangeSubset
  <2>5. archive' \in Nat /\ to' \in Seq(Parts) /\ notes' \subseteq Files
    BY <2>1, <2>2, <2>3, <2>4
  <2> QED
    BY <1>11, <2>5 DEF ZipDone, Places, Preparing, Opening, worldVars, metricVars
<1>12. CASE Announce
  BY <1>12 DEF Announce, Places, Preparing, Opening, worldVars, metricVars, reportVars
<1>13. CASE ReadMetrics
  BY <1>13, QueueTail, AttachmentType DEF ReadMetrics, Places, Preparing, Opening, worldVars,
     metricVars, reportVars, Quote, QuoteNothing, ReadAgain
<1>14. CASE MetricsDone
  BY <1>14 DEF MetricsDone, Places, Preparing, Opening, worldVars, metricVars, reportVars
<1>15. CASE Send
  BY <1>15 DEF Send, Places, Preparing, Opening, worldVars, metricVars, reportVars
<1>16. CASE BodyCheck
  <2>1. Tail(queue) \in Seq(Parts) /\ Head(queue) \in Parts
    BY <1>16, QueueTail DEF BodyCheck
  <2>2. ~Own(Head(queue)) => Head(queue) \in Files
    BY <2>1 DEF Own, Parts
  <2> QED
    BY <1>16, <2>1, <2>2 DEF BodyCheck, Places, Preparing, Opening, worldVars, metricVars
<1>17. CASE BodySize
  BY <1>17, QueueTail DEF BodySize, Places, Preparing, Opening, worldVars, metricVars, reportVars
<1>18. CASE BodyDone
  BY <1>18 DEF BodyDone, Places, Preparing, Opening, worldVars, metricVars, reportVars
<1>19. CASE AttachOwn
  <2>1. Tail(queue) \in Seq(Parts) /\ Head(queue) \in Parts
    BY <1>19, QueueTail DEF AttachOwn
  <2>2. \A n \in Nat : Attachment(Head(queue), n, "regular") \in [what : Parts, size : Nat, kind : Kinds]
    BY <2>1 DEF Attachment, Kinds
  <2>3. mail' \subseteq [what : Parts, size : Nat, kind : Kinds]
    BY <1>19, <2>2, CallTyped DEF AttachOwn
  <2> QED
    BY <1>19, <2>1, <2>3 DEF AttachOwn, Places, Preparing, Opening, worldVars, metricVars
<1>20. CASE AttachCheck
  <2>1. Tail(queue) \in Seq(Parts) /\ Head(queue) \in Parts
    BY <1>20, QueueTail DEF AttachCheck
  <2>2. ~Own(Head(queue)) => Head(queue) \in Files
    BY <2>1 DEF Own, Parts
  <2> QED
    BY <1>20, <2>1, <2>2 DEF AttachCheck, Places, Preparing, Opening, worldVars, metricVars
<1>21. CASE AttachOpen
  BY <1>21, QueueTail, AttachmentType DEF AttachOpen, Places, Preparing, Opening, worldVars,
     metricVars, reportVars
<1>22. CASE Deliver
  BY <1>22 DEF Deliver, Places, Preparing, Opening, worldVars, metricVars, reportVars
<1>23. CASE Tell
  BY <1>23 DEF Tell, Places, Preparing, Opening, worldVars, metricVars, reportVars
<1>24. CASE PrintFails
  BY <1>24 DEF PrintFails, Places, Preparing, Opening, worldVars, metricVars, reportVars
<1>25. CASE Interrupt
  BY <1>25 DEF Interrupt, Places, Preparing, Opening, worldVars, metricVars, reportVars
<1>26. ASSUME NEW f \in Files, ScanFile(f) PROVE TypeOK'
  <2>1. queue \in Seq(Files) /\ disk[f].size \in Nat
    BY <1>26 DEF ScanFile, Preparing
  <2>2. BySize(queue, f) \in Seq(Files) /\ BySize(queue, f) \in Seq(Parts)
    BY <2>1, RangeBySize
  <2>3. queue' \in Seq(Files) /\ queue' \in Seq(Parts) /\ size' \in [Files -> Nat] /\ notes' \subseteq Files
    BY <1>26, <2>1, <2>2 DEF ScanFile, PassedOver
  <2> QED
    BY <1>26, <2>3 DEF ScanFile, Places, Preparing, Opening, worldVars, metricVars
<1>27. ASSUME NEW f \in Files, Change(f) PROVE TypeOK'
  BY <1>27, ReportAssumption DEF Change, Looking, Places, Preparing, Opening, worldVars, metricVars,
     reportVars
<1>28. CASE UNCHANGED vars
  BY <1>28 DEF vars, worldVars, metricVars, reportVars
<1>29. CASE MoveRoot
  <2>1. disk' \in [Files -> [kind : Kinds, size : Nat]]
    BY <1>29, ReportAssumption DEF MoveRoot, Kinds
  <2> QED
    BY <1>29, <2>1 DEF MoveRoot, Looking, Places, Preparing, Opening, metricVars, reportVars
<1> QED
  BY <1>1, <1>2, <1>3, <1>4, <1>5, <1>6, <1>7, <1>8, <1>9, <1>10, <1>11, <1>12, <1>13, <1>14,
     <1>15, <1>16, <1>17, <1>18, <1>19, <1>20, <1>21, <1>22, <1>23, <1>24, <1>25, <1>26, <1>27,
     <1>28, <1>29 DEF Next, Reporter, Prepare, Build
-----------------------------------------------------------------------------
(* Nothing foreign, and the exit status.                                   *)

\* What is mailed, packed or quoted grows by files that open_verified has accepted, and
\* the roots are resolved while nothing has been packed, or attached, yet.
LEMMA OwnStep ==
  ASSUME TypeOK, Accounted, OnlyOwn, [Next]_vars
  PROVE  OnlyOwn'
<1>1. CASE ZipOpen
  BY <1>1 DEF ZipOpen, OnlyOwn, OpenVerified, Inside, Attachment, metricVars
<1>2. CASE ZipFails
  BY <1>2 DEF ZipFails, OnlyOwn, Inside, metricVars
<1>3. CASE ReadMetrics
  BY <1>3 DEF ReadMetrics, Quote, QuoteNothing, ReadAgain, OnlyOwn, OpenUnrooted, Inside, Attachment
<1>4. CASE AttachOwn
  <2>1. Head(queue) \notin Files
    BY <1>4, ReportAssumption DEF AttachOwn, Own
  <2> QED
    BY <1>4, <2>1 DEF AttachOwn, OnlyOwn, Inside, Attachment, metricVars
<1>5. CASE AttachOpen
  BY <1>5 DEF AttachOpen, OnlyOwn, OpenVerified, Inside, Attachment, metricVars
<1>6. CASE AttachLogs
  <2>1. packed = {} /\ mail = {}
    BY <1>6 DEF AttachLogs, Accounted, Attaching, Over
  <2> QED
    BY <1>6, <2>1 DEF AttachLogs, OnlyOwn, metricVars
<1>7. CASE BodyDone
  <2>1. mail = {} /\ roots'.zip = roots.zip
    BY <1>7 DEF BodyDone, Accounted, Attaching, Over, TypeOK
  <2> QED
    BY <1>7, <2>1 DEF BodyDone, OnlyOwn, Inside, metricVars
<1>8. CASE UNCHANGED <<mail, packed, quoted, roots>>
  BY <1>8 DEF OnlyOwn, Inside
<1>9. FixExit \/ Begin \/ Exit \/ Tell \/ PrintFails \/ Interrupt \/ MoveRoot \/ UNCHANGED vars =>
        UNCHANGED <<mail, packed, quoted, roots>>
  BY DEF FixExit, Begin, Exit, Tell, PrintFails, Interrupt, MoveRoot, vars, reportVars, metricVars
<1>10. (\E f \in Files : ScanFile(f) \/ Change(f)) \/ Scanned \/ Fit \/ Overflow \/ ZipCheck \/ ZipDone
        => UNCHANGED <<mail, packed, quoted, roots>>
  BY DEF ScanFile, Change, Scanned, Fit, Overflow, ZipCheck, ZipDone, reportVars, metricVars
<1>11. Announce \/ MetricsDone \/ Send \/ BodyCheck \/ BodySize \/ AttachCheck \/ Deliver
        => UNCHANGED <<mail, packed, quoted, roots>>
  BY DEF Announce, MetricsDone, Send, BodyCheck, BodySize, AttachCheck, Deliver, reportVars,
     metricVars
<1> QED
  BY <1>1, <1>2, <1>3, <1>4, <1>5, <1>6, <1>7, <1>8, <1>9, <1>10, <1>11 DEF Next, Reporter,
     Prepare, Build

\* The exit status is fixed in one step, and taken over in the last.
LEMMA ExitStep ==
  ASSUME ExitFixed, [Next]_vars
  PROVE  ExitFixed'
<1>1. CASE FixExit
  BY <1>1 DEF FixExit, ExitFixed
<1>2. CASE Exit
  BY <1>2 DEF Exit, LeftWith, ExitFixed
<1>3. CASE Interrupt
  BY <1>3 DEF Interrupt, ExitFixed
<1>4. CASE UNCHANGED <<call, exit>> /\ pc \notin {"over", "escaped"}
  BY <1>4 DEF ExitFixed
<1>5. CASE UNCHANGED <<call, exit, pc>>
  BY <1>5 DEF ExitFixed
<1>6. Begin \/ Tell \/ PrintFails \/ Scanned \/ AttachLogs \/ Fit \/ Overflow \/ ZipCheck \/ ZipOpen \/ ZipFails
        => UNCHANGED <<call, exit>> /\ pc \notin {"over", "escaped"}
  BY DEF Begin, Tell, PrintFails, Scanned, AttachLogs, Fit, Overflow, ZipCheck, ZipOpen, ZipFails
<1>7. ZipDone \/ Announce \/ ReadMetrics \/ MetricsDone \/ Send \/ BodyCheck \/ BodySize \/ BodyDone
        => UNCHANGED <<call, exit>> /\ pc \notin {"over", "escaped"}
  BY DEF ZipDone, Announce, ReadMetrics, MetricsDone, Send, BodyCheck, BodySize, BodyDone
<1>8. AttachOwn \/ AttachCheck \/ AttachOpen \/ Deliver
        => UNCHANGED <<call, exit>> /\ pc \notin {"over", "escaped"}
  BY DEF AttachOwn, AttachCheck, AttachOpen, Deliver
<1>9. (\E f \in Files : ScanFile(f) \/ Change(f)) \/ MoveRoot \/ UNCHANGED vars =>
        UNCHANGED <<call, exit, pc>>
  BY DEF ScanFile, Change, MoveRoot, vars
<1> QED
  BY <1>1, <1>2, <1>3, <1>4, <1>5, <1>6, <1>7, <1>8, <1>9 DEF Next, Reporter, Prepare, Build

-----------------------------------------------------------------------------
(* Nothing is lost.                                                        *)

LEMMA AccountedStep ==
  ASSUME TypeOK, Accounted, [Next]_vars
  PROVE  Accounted'
<1>1. CASE FixExit
  BY <1>1, RangeEmpty DEF FixExit, Accounted, Whereabouts, StillThere, LogsKept, Failed, Named,
     Attached, InZip, Zipping, Before, Attaching, Over, worldVars, metricVars, reportVars
<1>2. CASE Begin
  BY <1>2, RangeEmpty DEF Begin, Scans, Accounted, Whereabouts, StillThere, LogsKept, Failed,
     Named, Attached, InZip, Zipping, Before, Attaching, Over, worldVars, metricVars, reportVars
<1>3. CASE Exit
  BY <1>3, RangeEmpty DEF Exit, Accounted, Whereabouts, StillThere, LogsKept, Failed, Named,
     Attached, InZip, Zipping, Before, Attaching, Over, worldVars, metricVars, reportVars
<1>4. CASE Scanned
  BY <1>4, RangeEmpty DEF Scanned, Accounted, Whereabouts, StillThere, LogsKept, Failed, Named,
     Attached, InZip, Zipping, Before, Attaching, Over, worldVars, metricVars, reportVars
<1>5. CASE AttachLogs
  <2>1. \A x : x \in Range(<<"logs">>) <=> x = "logs"
    BY DEF Range
  <2>2. "logs" \notin Files /\ roots' = [zip |-> root, mail |-> roots.mail]
    BY <1>5, ReportAssumption DEF AttachLogs, TypeOK
  <2>8. ASSUME NEW f \in Files \ touched' PROVE Whereabouts(f)' /\ StillThere(f)'
    BY <1>5, <2>1, <2>2, RangeEmpty DEF AttachLogs, Accounted, Whereabouts, StillThere, Named,
       Attached, InZip,
       Zipping, Before, Attaching, Over, metricVars, worldVars, WithLogs
  <2>9. LogsKept'
    BY <1>5, <2>1, <2>2, RangeEmpty DEF AttachLogs, Accounted, LogsKept, Failed, Attached,
       Zipping, Before, Attaching, Over,
       metricVars, worldVars, WithLogs
  <2> QED
    BY <1>5, <2>8, <2>9 DEF AttachLogs, Accounted, Attaching, Over, metricVars, worldVars
<1>6. CASE Fit
  <2>1. \A x : x \in Range(queue) <=> x = Head(queue) \/ x \in Range(Tail(queue))
    BY <1>6, RangeTail DEF Fit, TypeOK, Opening
  <2>2. Head(queue) \in Files
    BY <1>6, QueueTail DEF Fit, Preparing
  <2>3. /\ \A x : x \in Range(Append(to, Head(queue))) <=> x \in Range(to) \/ x = Head(queue)
        /\ \A x : x \in Range(Append(overflow, Head(queue))) <=> x \in Range(overflow) \/ x = Head(queue)
    <3>1. to \in Seq(Parts) /\ overflow \in Seq(Files) /\ Head(queue) \in Parts
      BY <2>2 DEF TypeOK, Parts
    <3> QED BY <2>2, <3>1, RangeAppend
  <2>8. ASSUME NEW f \in Files \ touched' PROVE Whereabouts(f)' /\ StillThere(f)'
    BY <1>6, <2>1, <2>2, <2>3 DEF Fit, Accounted, Whereabouts, StillThere, Named, Attached, InZip,
       Zipping, Before, Attaching, Over, metricVars, worldVars, IsFile
  <2>9. LogsKept'
    BY <1>6, <2>1, <2>2, <2>3 DEF Fit, Accounted, LogsKept, Failed, Attached, Zipping, Before,
       Attaching, Over,
       metricVars, worldVars, IsFile
  <2> QED
    BY <1>6, <2>8, <2>9 DEF Fit, Accounted, Attaching, Over, metricVars, worldVars
<1>7. CASE Overflow
  <2>8. ASSUME NEW f \in Files \ touched' PROVE Whereabouts(f)' /\ StillThere(f)'
    BY <1>7, RangeEmpty DEF Overflow, Accounted, Whereabouts, StillThere, Named, Attached, InZip,
       Zipping, Before, Attaching, Over, metricVars, worldVars, NoPlace
  <2>9. LogsKept'
    BY <1>7, RangeEmpty DEF Overflow, Accounted, LogsKept, Failed, Attached, Zipping, Before,
       Attaching, Over,
       metricVars, worldVars, NoPlace
  <2> QED
    BY <1>7, <2>8, <2>9 DEF Overflow, Accounted, Attaching, Over, metricVars, worldVars
<1>8. CASE ZipCheck
  <2>1. \A x : x \in Range(queue) <=> x = Head(queue) \/ x \in Range(Tail(queue))
    BY <1>8, RangeTail DEF ZipCheck, TypeOK, Opening
  <2>2. Head(queue) \in Files
    BY <1>8, QueueTail DEF ZipCheck, Preparing
  <2>8. ASSUME NEW f \in Files \ touched' PROVE Whereabouts(f)' /\ StillThere(f)'
    BY <1>8, <2>1, <2>2 DEF ZipCheck, Accounted, Whereabouts, StillThere, Named, Attached, InZip,
       Zipping, Before, Attaching, Over, metricVars, worldVars, IsFile
  <2>9. LogsKept'
    BY <1>8, <2>1, <2>2 DEF ZipCheck, Accounted, LogsKept, Failed, Attached, Zipping, Before,
       Attaching, Over,
       metricVars, worldVars, IsFile
  <2> QED
    BY <1>8, <2>8, <2>9 DEF ZipCheck, Accounted, Attaching, Over, metricVars, worldVars
<1>9. CASE ZipOpen
  <2>1. \A x : x \in Range(queue) <=> x = Head(queue) \/ x \in Range(Tail(queue))
    BY <1>9, RangeTail DEF ZipOpen, TypeOK, Opening
  <2>2. Head(queue) \in Files
    BY <1>9 DEF ZipOpen, TypeOK, Opening
  <2>3. \A f : InZip(f) => InZip(f)'
    BY <1>9 DEF ZipOpen, InZip
  <2>4. ASSUME roots.zip = "here"
        PROVE  \A f : f = Head(queue) /\ disk[f].kind = "regular" => InZip(f)'
    <3> DEFINE e == Attachment(Head(queue), disk[Head(queue)].size, disk[Head(queue)].kind)
    <3>1. e.what = Head(queue)
      BY DEF Attachment
    <3> HIDE DEF e
    <3>2. disk[Head(queue)].kind = "regular" => e \in packed'
      BY <1>9, <2>4 DEF ZipOpen, OpenVerified, Inside, e
    <3> QED BY <3>1, <3>2 DEF InZip
  <2>8. ASSUME NEW f \in Files \ touched' PROVE Whereabouts(f)' /\ StillThere(f)'
    <3>1. StillThere(f)'
      BY <1>9, <2>1 DEF ZipOpen, Accounted, StillThere, worldVars, metricVars
    <3>2. Whereabouts(f) /\ StillThere(f)
      BY <1>9 DEF ZipOpen, Accounted, worldVars
    <3>3. pc = "zipOpen" /\ pc' = "zip" /\ queue' = Tail(queue)
          /\ UNCHANGED <<notes, to, overflow>>
      BY <1>9 DEF ZipOpen
    <3>4. f \in notes \/ f \in Range(to) \/ (f \in Range(overflow) /\ (f \in Range(queue) \/ InZip(f)))
      BY <3>2, <3>3 DEF Whereabouts, Zipping, Before, Attaching, Over
    <3>5. roots.zip = "here" /\ (f \in Range(overflow) => disk[f].kind = "regular")
      BY <3>2 DEF StillThere
    <3>6. f \in notes \/ f \in Range(to) \/ (f \in Range(overflow) /\ (f \in Range(Tail(queue)) \/ InZip(f)'))
      BY <2>1, <2>3, <2>4, <3>4, <3>5
    <3>7. Whereabouts(f)'
      BY <3>3, <3>6 DEF Whereabouts, Zipping
    <3> QED BY <3>1, <3>7
  <2>9. LogsKept'
    BY <1>9, <2>1, <2>2 DEF ZipOpen, Accounted, LogsKept, Failed, Attached, Zipping, Before,
       Attaching, Over,
       metricVars, worldVars, OpenVerified, Attachment
  <2> QED
    BY <1>9, <2>8, <2>9 DEF ZipOpen, Accounted, Attaching, Over, metricVars, worldVars
<1>10. CASE ZipFails
  BY <1>10, RangeEmpty DEF ZipFails, Accounted, Whereabouts, StillThere, LogsKept, Failed, Named,
     Attached, InZip, Zipping, Before, Attaching, Over, worldVars, metricVars, reportVars
<1>11. CASE ZipDone
  <2>1. \A x : x \in Range(Append(to, "zip")) <=> x \in Range(to) \/ x = "zip"
    <3>1. to \in Seq(Parts) /\ "zip" \in Parts
      BY DEF TypeOK, Parts
    <3> QED BY <3>1, RangeAppend
  <2>2. "zip" \notin Files
    BY ReportAssumption
  <2>8. ASSUME NEW f \in Files \ touched' PROVE Whereabouts(f)' /\ StillThere(f)'
    BY <1>11, <2>1, <2>2, RangeEmpty DEF ZipDone, Accounted, Whereabouts, StillThere, Named,
       Attached, InZip,
       Zipping, Before, Attaching, Over, metricVars, worldVars
  <2>9. LogsKept'
    BY <1>11, <2>1, <2>2, RangeEmpty DEF ZipDone, Accounted, LogsKept, Failed, Attached, Zipping,
       Before, Attaching, Over,
       metricVars, worldVars
  <2> QED
    BY <1>11, <2>8, <2>9 DEF ZipDone, Accounted, Attaching, Over, metricVars, worldVars
<1>12. CASE Announce
  BY <1>12, RangeEmpty DEF Announce, Accounted, Whereabouts, StillThere, LogsKept, Failed, Named,
     Attached, InZip, Zipping, Before, Attaching, Over, worldVars, metricVars, reportVars
<1>13. CASE ReadMetrics
  <2>1. \A x : x \in Range(queue) <=> x = Head(queue) \/ x \in Range(Tail(queue))
    BY <1>13, RangeTail DEF ReadMetrics, TypeOK, Opening
  <2>8. ASSUME NEW f \in Files \ touched' PROVE Whereabouts(f)' /\ StillThere(f)'
    BY <1>13, <2>1 DEF ReadMetrics, Accounted, Whereabouts, StillThere, Named, Attached, InZip,
       Zipping, Before, Attaching, Over, metricVars, worldVars, Quote, QuoteNothing, ReadAgain
  <2>9. LogsKept'
    BY <1>13, <2>1 DEF ReadMetrics, Accounted, LogsKept, Failed, Attached, Zipping, Before,
       Attaching, Over,
       metricVars, worldVars, Quote, QuoteNothing, ReadAgain
  <2> QED
    BY <1>13, <2>8, <2>9 DEF ReadMetrics, Quote, QuoteNothing, ReadAgain, Accounted, Attaching, Over,
       metricVars, worldVars
<1>14. CASE MetricsDone
  BY <1>14, RangeEmpty DEF MetricsDone, Accounted, Whereabouts, StillThere, LogsKept, Failed,
     Named, Attached, InZip, Zipping, Before, Attaching, Over, worldVars, metricVars, reportVars
<1>15. CASE Send
  BY <1>15, RangeEmpty DEF Send, Accounted, Whereabouts, StillThere, LogsKept, Failed, Named,
     Attached, InZip, Zipping, Before, Attaching, Over, worldVars, metricVars, reportVars
<1>16. CASE BodyCheck
  <2>1. \A x : x \in Range(queue) <=> x = Head(queue) \/ x \in Range(Tail(queue))
    BY <1>16, RangeTail DEF BodyCheck, TypeOK, Opening
  <2>8. ASSUME NEW f \in Files \ touched' PROVE Whereabouts(f)' /\ StillThere(f)'
    BY <1>16, <2>1 DEF BodyCheck, Accounted, Whereabouts, StillThere, Named, Attached, InZip,
       Zipping, Before, Attaching, Over, metricVars, worldVars
  <2>9. LogsKept'
    BY <1>16, <2>1 DEF BodyCheck, Accounted, LogsKept, Failed, Attached, Zipping, Before,
       Attaching, Over,
       metricVars, worldVars
  <2> QED
    BY <1>16, <2>8, <2>9 DEF BodyCheck, Accounted, Attaching, Over, metricVars, worldVars
<1>17. CASE BodySize
  <2>1. \A x : x \in Range(queue) <=> x = Head(queue) \/ x \in Range(Tail(queue))
    BY <1>17, RangeTail DEF BodySize, TypeOK, Opening
  <2>8. ASSUME NEW f \in Files \ touched' PROVE Whereabouts(f)' /\ StillThere(f)'
    BY <1>17, <2>1 DEF BodySize, Accounted, Whereabouts, StillThere, Named, Attached, InZip,
       Zipping, Before, Attaching, Over, metricVars, worldVars
  <2>9. LogsKept'
    BY <1>17, <2>1 DEF BodySize, Accounted, LogsKept, Failed, Attached, Zipping, Before,
       Attaching, Over,
       metricVars, worldVars
  <2> QED
    BY <1>17, <2>8, <2>9 DEF BodySize, Accounted, Attaching, Over, metricVars, worldVars
<1>18. CASE BodyDone
  <2>1. roots' = [zip |-> roots.zip, mail |-> root]
    BY <1>18 DEF BodyDone, TypeOK
  <2> QED
    BY <1>18, <2>1, RangeEmpty DEF BodyDone, Accounted, Whereabouts, StillThere, LogsKept, Failed,
       Named, Attached, InZip, Zipping, Before, Attaching, Over, worldVars, metricVars, reportVars
<1>19. CASE AttachOwn
  <2>1. \A x : x \in Range(queue) <=> x = Head(queue) \/ x \in Range(Tail(queue))
    BY <1>19, RangeTail DEF AttachOwn, TypeOK, Opening
  <2>2. "logs" \notin Files /\ "zip" \notin Files
    BY ReportAssumption
  <2>3. (\A x : x \in Attached => x \in Attached') /\ (\A f : InZip(f)' <=> InZip(f))
    BY <1>19 DEF AttachOwn, Attached, InZip
  <2>4. Head(queue) \in Attached'
    <3> DEFINE n == IF Head(queue) = "logs" THEN call.logs ELSE archive
               e == Attachment(Head(queue), n, "regular")
    <3>1. e.what = Head(queue)
      BY DEF Attachment
    <3>2. e \in mail'
      BY <1>19 DEF AttachOwn
    <3> HIDE DEF e
    <3> QED BY <3>1, <3>2 DEF Attached
  <2>8. ASSUME NEW f \in Files \ touched' PROVE Whereabouts(f)' /\ StillThere(f)'
    <3>1. StillThere(f)'
      BY <1>19, <2>1 DEF AttachOwn, Accounted, StillThere, worldVars, metricVars
    <3>2. Whereabouts(f) /\ StillThere(f)
      BY <1>19 DEF AttachOwn, Accounted, worldVars
    <3>3. Whereabouts(f)'
      BY <1>19, <2>1, <2>2, <2>3, <2>4, <3>2 DEF AttachOwn, Whereabouts, StillThere, Zipping,
         Before,
         Attaching, Over, Own
    <3> QED BY <3>1, <3>3
  <2>9. LogsKept'
    <3>1. LogsKept /\ (outcome = "sent" => pc \in Over)
      BY DEF Accounted
    <3> QED
      BY <1>19, <2>1, <2>3, <2>4, <3>1 DEF AttachOwn, LogsKept, Failed, Zipping, Before,
         Attaching, Over
  <2> QED
    BY <1>19, <2>8, <2>9 DEF AttachOwn, Accounted, Attaching, Over, metricVars, worldVars
<1>20. CASE AttachCheck
  <2>1. \A x : x \in Range(queue) <=> x = Head(queue) \/ x \in Range(Tail(queue))
    BY <1>20, RangeTail DEF AttachCheck, TypeOK, Opening
  <2>8. ASSUME NEW f \in Files \ touched' PROVE Whereabouts(f)' /\ StillThere(f)'
    BY <1>20, <2>1 DEF AttachCheck, Accounted, Whereabouts, StillThere, Named, Attached, InZip,
       Zipping, Before, Attaching, Over, metricVars, worldVars, Own, IsFile
  <2>9. LogsKept'
    BY <1>20, <2>1 DEF AttachCheck, Accounted, LogsKept, Failed, Attached, Zipping, Before,
       Attaching, Over,
       metricVars, worldVars, Own, IsFile
  <2> QED
    BY <1>20, <2>8, <2>9 DEF AttachCheck, Accounted, Attaching, Over, metricVars, worldVars
<1>21. CASE AttachOpen
  <2>1. \A x : x \in Range(queue) <=> x = Head(queue) \/ x \in Range(Tail(queue))
    BY <1>21, RangeTail DEF AttachOpen, TypeOK, Opening
  <2>2. Head(queue) \in Files /\ "logs" \notin Files /\ "zip" \notin Files
    BY <1>21, ReportAssumption DEF AttachOpen, TypeOK, Opening
  <2>3. (\A x : x \in Attached => x \in Attached') /\ (\A f : InZip(f)' <=> InZip(f))
    BY <1>21 DEF AttachOpen, Attached, InZip
  <2>4. disk[Head(queue)].kind = "regular" /\ roots.mail = "here" => Head(queue) \in Attached'
    <3> DEFINE e == Attachment(Head(queue), disk[Head(queue)].size, disk[Head(queue)].kind)
    <3>1. e.what = Head(queue)
      BY DEF Attachment
    <3> HIDE DEF e
    <3>2. disk[Head(queue)].kind = "regular" /\ roots.mail = "here" => e \in mail'
      BY <1>21 DEF AttachOpen, OpenVerified, Inside, e
    <3> QED BY <3>1, <3>2 DEF Attached
  <2>8. ASSUME NEW f \in Files \ touched' PROVE Whereabouts(f)' /\ StillThere(f)'
    <3>1. StillThere(f)'
      BY <1>21, <2>1 DEF AttachOpen, Accounted, StillThere, worldVars, metricVars
    <3>2. Whereabouts(f) /\ StillThere(f)
      BY <1>21 DEF AttachOpen, Accounted, worldVars
    <3>3. Whereabouts(f)'
      BY <1>21, <2>1, <2>2, <2>3, <2>4, <3>2 DEF AttachOpen, Whereabouts, StillThere, Zipping,
         Before,
         Attaching, Over, Own
    <3> QED BY <3>1, <3>3
  <2>9. LogsKept'
    BY <1>21, <2>1, <2>2 DEF AttachOpen, Accounted, LogsKept, Failed, Attached, Zipping, Before,
       Attaching, Over,
       metricVars, worldVars, OpenVerified, Attachment
  <2> QED
    BY <1>21, <2>8, <2>9 DEF AttachOpen, Accounted, Attaching, Over, metricVars, worldVars
<1>22. CASE Deliver
  BY <1>22, RangeEmpty DEF Deliver, Accounted, Whereabouts, StillThere, LogsKept, Failed, Named,
     Attached, InZip, Zipping, Before, Attaching, Over, worldVars, metricVars, reportVars
<1>23. CASE Tell
  BY <1>23, RangeEmpty DEF Tell, Accounted, Whereabouts, StillThere, LogsKept, Failed, Named,
     Attached, InZip, Zipping, Before, Attaching, Over, worldVars, metricVars, reportVars
<1>24. CASE PrintFails
  BY <1>24, RangeEmpty DEF PrintFails, Accounted, Whereabouts, StillThere, LogsKept, Failed,
     Named, Attached, InZip, Zipping, Before, Attaching, Over, worldVars, metricVars, reportVars
<1>25. CASE Interrupt
  BY <1>25, RangeEmpty DEF Interrupt, Accounted, Whereabouts, StillThere, LogsKept, Failed, Named,
     Attached, InZip, Zipping, Before, Attaching, Over, worldVars, metricVars, reportVars
<1>26. ASSUME NEW f \in Files, ScanFile(f) PROVE Accounted'
  <2>1. \A x : x \in Range(BySize(queue, f)) <=> x \in Range(queue) \/ x = f
    BY <1>26, RangeBySize DEF ScanFile, TypeOK, Preparing
  <2>2. ASSUME NEW g \in Files \ touched' PROVE Whereabouts(g)'
    BY <1>26, <2>1 DEF ScanFile, PassedOver, Accounted, Whereabouts, StillThere, Named, Attached,
       InZip, Zipping, Before, Attaching, Over, metricVars, worldVars
  <2>3. ASSUME NEW g \in Files \ touched' PROVE StillThere(g)'
    <3>1. StillThere(g) /\ UNCHANGED <<disk, root, roots, artifacts, to, overflow>>
          /\ size \in [Files -> Nat]
      BY <1>26 DEF ScanFile, Accounted, metricVars, worldVars, TypeOK
    <3>2. CASE UNCHANGED <<queue, size>>
      BY <3>1, <3>2 DEF StillThere
    <3>3. CASE Belongs(f) /\ queue' = BySize(queue, f) /\ size' = [size EXCEPT ![f] = disk[f].size]
      <4>1. queue' = BySize(queue, f) /\ size' = [size EXCEPT ![f] = disk[f].size]
        BY <3>3
      <4>2. CASE g = f
        BY <3>1, <3>3, <4>1, <4>2 DEF Belongs, StillThere
      <4>3. CASE g # f
        <5>1. size'[g] = size[g] /\ (g \in Range(queue') <=> g \in Range(queue))
          BY <2>1, <3>1, <4>1, <4>3
        <5> QED BY <3>1, <5>1 DEF StillThere
      <4> QED BY <4>2, <4>3
    <3> QED BY <1>26, <3>2, <3>3 DEF ScanFile
  <2>8. ASSUME NEW g \in Files \ touched' PROVE Whereabouts(g)' /\ StillThere(g)'
    BY <2>2, <2>3
  <2>9. LogsKept'
    BY <1>26 DEF ScanFile, Accounted, LogsKept, Failed, Attached, Zipping, Before, Attaching, Over,
       metricVars, worldVars
  <2> QED
    BY <1>26, <2>8, <2>9 DEF ScanFile, Accounted, Attaching, Over, metricVars, worldVars
<1>27. ASSUME NEW f \in Files, Change(f) PROVE Accounted'
  BY <1>27 DEF Change, Accounted, Whereabouts, StillThere, LogsKept, Failed, Named, Attached,
     InZip, Zipping, Before, Attaching, Over, metricVars, reportVars
<1>28. CASE UNCHANGED vars
  BY <1>28 DEF vars, Accounted, Whereabouts, StillThere, LogsKept, Failed, Named, Attached, InZip,
     Zipping, Before, Attaching, Over, worldVars, metricVars, reportVars
<1>29. CASE MoveRoot
  BY <1>29 DEF MoveRoot, Accounted, LogsKept, Failed, Attached, Zipping, Before, Attaching, Over,
     metricVars, reportVars
<1> QED
  BY <1>1, <1>2, <1>3, <1>4, <1>5, <1>6, <1>7, <1>8, <1>9, <1>10, <1>11, <1>12, <1>13, <1>14,
     <1>15, <1>16, <1>17, <1>18, <1>19, <1>20, <1>21, <1>22, <1>23, <1>24, <1>25, <1>26, <1>27,
     <1>28, <1>29 DEF Next, Reporter, Prepare, Build
-----------------------------------------------------------------------------
(* The invariant, and the theorems.                                        *)

LEMMA TrackedStart == Init => Tracked
<1> SUFFICES ASSUME Init PROVE Tracked
  OBVIOUS
<1>1. TypeOK
  BY TypeStart
<1>2. OnlyOwn /\ ExitFixed
  BY DEF Init, OnlyOwn, ExitFixed
<1>3. Accounted
  BY RangeEmpty DEF Init, Accounted, Whereabouts, StillThere, LogsKept, Zipping, Before,
     Attaching, Over
<1> QED
  BY <1>1, <1>2, <1>3 DEF Tracked

LEMMA TrackedStep == Tracked /\ [Next]_vars => Tracked'
BY TypeStep, OwnStep, AccountedStep, ExitStep DEF Tracked

\* Where each file is on its way through _report_run: in a list that the code at pc has
\* still to go through or where it belongs, and never anybody else's; the exit status is
\* fixed before all of it.
THEOREM ReportInvariant == Spec => []Tracked
BY TrackedStart, TrackedStep, PTL DEF Spec

\* However many files there are, of whatever size, and whoever changes some of them
\* meanwhile: a mail that is sent has, or names, every other one, and the logs of a
\* job that failed.
THEOREM NothingIsLost == Spec => []NothingLost
<1>1. Tracked => NothingLost
  <2> SUFFICES ASSUME Tracked, outcome = "sent" PROVE NothingLost
    BY DEF NothingLost
  <2>1. pc \in Over /\ LogsKept /\ \A f \in Files \ touched : Whereabouts(f)
    BY DEF Tracked, Accounted
  <2>2. ASSUME NEW f \in Files \ touched PROVE Named(f)
    BY <2>1 DEF Whereabouts, Named, Over, Zipping, Before, Attaching
  <2> QED BY <2>1, <2>2 DEF NothingLost, LogsKept
<1> QED
  BY <1>1, ReportInvariant, PTL

\* Nothing that was not the user's leaves the machine, and of files outside the
\* directory that the run directory's name led to when the roots were resolved, wherever
\* it leads before and after, nothing but metrics.
THEOREM OnlyOwnLeaves == Spec => []OnlyOwn
<1>1. Tracked => OnlyOwn
  BY DEF Tracked
<1> QED
  BY <1>1, ReportInvariant, PTL

\* A report that fails, or is interrupted, leaves the exit status of the job.
THEOREM ExitKept == Spec => []ExitIsTheJobs
<1>1. Tracked => ExitIsTheJobs
  BY DEF Tracked, ExitFixed, ExitIsTheJobs
<1> QED
  BY <1>1, ReportInvariant, PTL

-----------------------------------------------------------------------------
(* Sums over finite sets: TotalSize is a fold, and a fact about it is an   *)
(* induction over finite sets, done with the least counterexample (WFMin). *)

\* Of the sets of which something holds, one is the least: induction over finite sets.
LEMMA LeastSubset ==
  ASSUME NEW U, IsFiniteSet(U), NEW D \in SUBSET SUBSET U, D # {}
  PROVE  \E s \in D : \A t \in D : ~(t \subseteq s /\ t # s)
<1> DEFINE R == StrictSubsetOrdering(U)
<1>1. IsWellFoundedOn(R, FiniteSubsetsOf(U)) /\ D \subseteq FiniteSubsetsOf(U)
  <2>1. \A s \in D : s \subseteq U /\ IsFiniteSet(s)
    BY FS_Subset
  <2> QED BY <2>1, FS_StrictSubsetOrderingWellFounded DEF FiniteSubsetsOf
<1>2. \E s \in D : \A t \in D : ~(<<t, s>> \in R)
  BY <1>1, WFMin
<1> QED
  BY <1>2 DEF StrictSubsetOrdering

\* The element that TotalSize counts first, and what it counts then.
OneOf(s) == CHOOSE x \in s : TRUE
Others(s) == s \ {OneOf(s)}
\* g has the sum of each part of S.
IsSum(g, S) == g =
  [s \in SUBSET S |-> IF s = {} THEN 0 ELSE OneOf(s).size + g[Others(s)]]

LEMMA Unfold == ASSUME NEW S PROVE TotalSize(S) = (CHOOSE g : IsSum(g, S))[S]
BY DEF TotalSize, MapThenSumSet, MapThenFoldSet, IsSum, OneOf, Others

LEMMA OneLess == ASSUME NEW s, s # {} PROVE OneOf(s) \in s /\ Others(s) \subseteq s /\ Others(s) # s
BY DEF OneOf, Others

LEMMA SumAt ==
  ASSUME NEW S, NEW g, IsSum(g, S), NEW s \in SUBSET S
  PROVE  g[s] = IF s = {} THEN 0 ELSE OneOf(s).size + g[Others(s)]
<1> DEFINE h == [t \in SUBSET S |-> IF t = {} THEN 0 ELSE OneOf(t).size + g[Others(t)]]
<1>1. h[s] = IF s = {} THEN 0 ELSE OneOf(s).size + g[Others(s)]
  OBVIOUS
<1>2. g = h
  BY DEF IsSum
<1> QED BY <1>1, <1>2

\* Two of them agree, for they do on the parts of the least set on which they might not.
LEMMA SumsAgree ==
  ASSUME NEW S, IsFiniteSet(S), NEW T \in SUBSET S, NEW g, NEW h, IsSum(g, S), IsSum(h, T)
  PROVE  \A s \in SUBSET T : g[s] = h[s]
<1> DEFINE D == {s \in SUBSET T : g[s] # h[s]}
<1> SUFFICES ASSUME D # {} PROVE FALSE
  OBVIOUS
<1>1. IsFiniteSet(T)
  BY FS_Subset
<1>2. PICK s \in D : \A t \in D : ~(t \subseteq s /\ t # s)
  <2>1. D \in SUBSET SUBSET T /\ IsFiniteSet(T)
    BY <1>1
  <2> HIDE DEF D
  <2> QED BY <2>1, LeastSubset
<1>3. g[s] # h[s] /\ s \in SUBSET T /\ s \in SUBSET S
  BY <1>2
<1>4. CASE s = {}
  BY <1>3, <1>4, SumAt
<1>5. CASE s # {}
  <2>1. Others(s) \subseteq s /\ Others(s) # s
    BY <1>5, OneLess
  <2>2. g[Others(s)] = h[Others(s)]
    BY <1>2, <1>3, <2>1
  <2>3. g[s] = OneOf(s).size + g[Others(s)] /\ h[s] = OneOf(s).size + h[Others(s)]
    BY <1>3, <1>5, SumAt
  <2> QED BY <1>3, <2>2, <2>3
<1> QED BY <1>4, <1>5

\* A sum of a part is the sum.
LEMMA SumIsTotal ==
  ASSUME NEW S, IsFiniteSet(S), NEW g, IsSum(g, S), NEW T \in SUBSET S
  PROVE  g[T] = TotalSize(T) /\ \E h : IsSum(h, T)
<1> DEFINE r == [s \in SUBSET T |-> g[s]]
<1>1. IsSum(r, T)
  <2>1. \A s \in SUBSET T : g[s] = IF s = {} THEN 0 ELSE OneOf(s).size + g[Others(s)]
    BY SumAt
  <2>2. ASSUME NEW s \in SUBSET T PROVE r[s] = IF s = {} THEN 0 ELSE OneOf(s).size + r[Others(s)]
    <3>1. r[s] = g[s]
      OBVIOUS
    <3>2. CASE s = {}
      BY <2>1, <3>1, <3>2
    <3>3. CASE s # {}
      <4>1. Others(s) \in SUBSET T
        BY <3>3, OneLess
      <4>2. r[Others(s)] = g[Others(s)]
        BY <4>1
      <4> QED BY <2>1, <3>1, <3>3, <4>2
    <3> QED BY <3>2, <3>3
  <2>3. r = [s \in SUBSET T |-> r[s]]
    OBVIOUS
  <2> HIDE DEF r
  <2>4. [s \in SUBSET T |-> r[s]] = [s \in SUBSET T |-> IF s = {} THEN 0 ELSE OneOf(s).size + r[Others(s)]]
    BY <2>2
  <2> QED BY <2>3, <2>4 DEF IsSum
<1> DEFINE h == CHOOSE k : IsSum(k, T)
<1>2. IsSum(h, T)
  BY <1>1
<1>3. \A s \in SUBSET T : g[s] = h[s]
  BY <1>2, SumsAgree
<1>4. TotalSize(T) = h[T]
  BY Unfold
<1> QED BY <1>1, <1>3, <1>4

\* There are such sums: of the least set without, the sums of its parts make one.
LEMMA SumExists == ASSUME NEW S, IsFiniteSet(S) PROVE \E g : IsSum(g, S)
<1> DEFINE D == {s \in SUBSET S : ~ \E g : IsSum(g, s)}
<1> SUFFICES ASSUME D # {} PROVE FALSE
  OBVIOUS
<1>1. PICK s \in D : \A t \in D : ~(t \subseteq s /\ t # s)
  <2>1. D \in SUBSET SUBSET S /\ IsFiniteSet(S)
    OBVIOUS
  <2> HIDE DEF D
  <2> QED BY <2>1, LeastSubset
<1>2. s \in SUBSET S /\ IsFiniteSet(s) /\ ~ \E g : IsSum(g, s)
  BY <1>1, FS_Subset
<1>3. \A t \in SUBSET s : t # s => \E g : IsSum(g, t)
  BY <1>1, <1>2
<1> DEFINE g == [t \in SUBSET s |-> IF t = {} THEN 0 ELSE OneOf(t).size + TotalSize(Others(t))]
<1>4. ASSUME NEW t \in SUBSET s, t # s PROVE g[t] = TotalSize(t)
  <2>1. PICK k : IsSum(k, t)
    BY <1>3, <1>4
  <2>2. IsFiniteSet(t)
    BY <1>2, FS_Subset
  <2>3. k[t] = TotalSize(t) /\ (t # {} => k[Others(t)] = TotalSize(Others(t)))
    BY <2>1, <2>2, SumIsTotal, OneLess
  <2>4. k[t] = IF t = {} THEN 0 ELSE OneOf(t).size + k[Others(t)]
    BY <2>1, SumAt
  <2> QED BY <2>3, <2>4
<1>5. ASSUME NEW t \in SUBSET s PROVE g[t] = IF t = {} THEN 0 ELSE OneOf(t).size + g[Others(t)]
  <2>1. CASE t = {}
    BY <2>1
  <2>2. CASE t # {}
    <3>1. Others(t) \in SUBSET s /\ Others(t) # s
      BY <2>2, OneLess
    <3>2. g[Others(t)] = TotalSize(Others(t))
      BY <1>4, <3>1
    <3> QED BY <2>2, <3>2
  <2> QED BY <2>1, <2>2
<1>6. g = [t \in SUBSET s |-> g[t]]
  OBVIOUS
<1> HIDE DEF g
<1>7. [t \in SUBSET s |-> g[t]] = [t \in SUBSET s |-> IF t = {} THEN 0 ELSE OneOf(t).size + g[Others(t)]]
  BY <1>5
<1>8. IsSum(g, s)
  BY <1>6, <1>7 DEF IsSum
<1> QED BY <1>2, <1>8

\* TotalSize is what it says.
LEMMA TotalUnfolds ==
  ASSUME NEW S, IsFiniteSet(S)
  PROVE  TotalSize(S) = IF S = {} THEN 0 ELSE OneOf(S).size + TotalSize(Others(S))
<1>1. PICK g : IsSum(g, S)
  BY SumExists
<1>2. g[S] = TotalSize(S) /\ (S # {} => g[Others(S)] = TotalSize(Others(S)))
  BY <1>1, SumIsTotal, OneLess
<1>3. g[S] = IF S = {} THEN 0 ELSE OneOf(S).size + g[Others(S)]
  BY <1>1, SumAt
<1> QED BY <1>2, <1>3

\* What has a sum.
Sized(S) == IsFiniteSet(S) /\ \A a \in S : a.size \in Nat

LEMMA TotalIsNat == ASSUME NEW S, Sized(S) PROVE TotalSize(S) \in Nat
<1> DEFINE D == {s \in SUBSET S : TotalSize(s) \notin Nat}
<1> SUFFICES ASSUME D # {} PROVE FALSE
  OBVIOUS
<1>1. PICK s \in D : \A t \in D : ~(t \subseteq s /\ t # s)
  <2>1. D \in SUBSET SUBSET S /\ IsFiniteSet(S)
    BY DEF Sized
  <2> HIDE DEF D
  <2> QED BY <2>1, LeastSubset
<1>2. s \in SUBSET S /\ IsFiniteSet(s) /\ TotalSize(s) \notin Nat
  BY <1>1, FS_Subset DEF Sized
<1>3. s # {}
  BY <1>2, TotalUnfolds
<1>4. Others(s) \in SUBSET S /\ Others(s) # s /\ Others(s) \subseteq s /\ OneOf(s) \in S
  BY <1>2, <1>3, OneLess
<1>5. TotalSize(Others(s)) \in Nat /\ OneOf(s).size \in Nat
  BY <1>1, <1>4 DEF Sized
<1>6. TotalSize(s) = OneOf(s).size + TotalSize(Others(s))
  BY <1>2, <1>3, TotalUnfolds
<1> QED BY <1>2, <1>5, <1>6

\* Whichever element is counted first.
LEMMA TotalWithout ==
  ASSUME NEW S, Sized(S), NEW a \in S
  PROVE  TotalSize(S) = a.size + TotalSize(S \ {a})
<1> DEFINE D == {s \in SUBSET S : \E e \in s : TotalSize(s) # e.size + TotalSize(s \ {e})}
<1> SUFFICES ASSUME D # {} PROVE FALSE
  OBVIOUS
<1>1. PICK s \in D : \A t \in D : ~(t \subseteq s /\ t # s)
  <2>1. D \in SUBSET SUBSET S /\ IsFiniteSet(S)
    BY DEF Sized
  <2> HIDE DEF D
  <2> QED BY <2>1, LeastSubset
<1>2. PICK e \in s : TotalSize(s) # e.size + TotalSize(s \ {e})
  BY <1>1
<1>3. s \in SUBSET S /\ IsFiniteSet(s) /\ s # {}
  BY <1>1, <1>2, FS_Subset DEF Sized
<1> DEFINE x == OneOf(s)
<1>4. TotalSize(s) = x.size + TotalSize(s \ {x}) /\ x \in s
  BY <1>3, TotalUnfolds, OneLess DEF Others
<1> HIDE DEF x
<1>5. e # x
  BY <1>2, <1>4
<1>6. TotalSize(s \ {x}) = e.size + TotalSize((s \ {x}) \ {e})
  <2>1. s \ {x} \in SUBSET S /\ s \ {x} \subseteq s /\ s \ {x} # s /\ e \in s \ {x}
    BY <1>3, <1>4, <1>5
  <2> QED BY <1>1, <2>1
<1>7. TotalSize(s \ {e}) = x.size + TotalSize((s \ {e}) \ {x})
  <2>1. s \ {e} \in SUBSET S /\ s \ {e} \subseteq s /\ s \ {e} # s /\ x \in s \ {e}
    BY <1>2, <1>3, <1>4, <1>5
  <2> QED BY <1>1, <2>1
<1>8. (s \ {e}) \ {x} = (s \ {x}) \ {e}
  OBVIOUS
<1> DEFINE n == TotalSize((s \ {x}) \ {e})
<1>9. n \in Nat /\ e.size \in Nat /\ x.size \in Nat
  <2>1. Sized((s \ {x}) \ {e})
    BY <1>3, FS_Subset DEF Sized
  <2> QED BY <1>2, <1>3, <1>4, <2>1, TotalIsNat DEF Sized
<1>10. TotalSize(s) = x.size + (e.size + n)
  BY <1>4, <1>6
<1>11. TotalSize(s \ {e}) = x.size + n
  BY <1>7, <1>8
<1> HIDE DEF n
<1> QED BY <1>2, <1>9, <1>10, <1>11

\* One more adds its size, or nothing.
LEMMA TotalWith ==
  ASSUME NEW S, Sized(S), NEW a, a.size \in Nat
  PROVE  Sized(S \cup {a}) /\ TotalSize(S \cup {a}) <= TotalSize(S) + a.size
<1>1. Sized(S \cup {a})
  BY FS_AddElement DEF Sized
<1>2. TotalSize(S) \in Nat
  BY TotalIsNat
<1>3. CASE a \in S
  <2>1. S \cup {a} = S
    BY <1>3
  <2>2. TotalSize(S) <= TotalSize(S) + a.size
    BY <1>2
  <2> QED BY <1>1, <2>1, <2>2
<1>4. CASE a \notin S
  <2>1. (S \cup {a}) \ {a} = S
    BY <1>4
  <2>2. TotalSize(S \cup {a}) = a.size + TotalSize(S)
    BY <1>1, <2>1, TotalWithout
  <2>3. a.size + TotalSize(S) <= TotalSize(S) + a.size
    BY <1>2
  <2> QED BY <1>1, <2>2, <2>3
<1> QED BY <1>3, <1>4

\* A part is no larger than the whole.
LEMMA TotalOfPart ==
  ASSUME NEW S, Sized(S), NEW T \in SUBSET S
  PROVE  TotalSize(T) <= TotalSize(S)
<1> DEFINE D == {s \in SUBSET S : T \subseteq s /\ ~(TotalSize(T) <= TotalSize(s))}
<1> SUFFICES ASSUME D # {} PROVE FALSE
  OBVIOUS
<1>1. PICK s \in D : \A t \in D : ~(t \subseteq s /\ t # s)
  <2>1. D \in SUBSET SUBSET S /\ IsFiniteSet(S)
    BY DEF Sized
  <2> HIDE DEF D
  <2> QED BY <2>1, LeastSubset
<1>2. s \in SUBSET S /\ T \subseteq s /\ ~(TotalSize(T) <= TotalSize(s))
  BY <1>1
<1>3. Sized(s) /\ Sized(T)
  BY <1>2, FS_Subset DEF Sized
<1>4. s # T
  <2>1. TotalSize(T) <= TotalSize(T)
    BY <1>3, TotalIsNat
  <2> QED BY <1>2, <2>1
<1>5. PICK a \in s : a \notin T
  BY <1>2, <1>4
<1>6. TotalSize(T) <= TotalSize(s \ {a})
  BY <1>1, <1>2, <1>5
<1>7. TotalSize(s) = a.size + TotalSize(s \ {a})
  BY <1>3, <1>5, TotalWithout
<1>8. a.size \in Nat /\ TotalSize(s \ {a}) \in Nat /\ TotalSize(T) \in Nat
  <2>1. Sized(s \ {a})
    BY <1>3, FS_Subset DEF Sized
  <2> QED BY <1>3, <1>5, <2>1, TotalIsNat DEF Sized
<1> QED BY <1>2, <1>6, <1>7, <1>8
-----------------------------------------------------------------------------
(* What is planned.                                                        *)

LEMMA PlannedSized == TypeOK => Sized(Planned)
<1> SUFFICES ASSUME TypeOK PROVE Sized(Planned)
  OBVIOUS
<1>1. to \in Seq(Parts) /\ size \in [Files -> Nat] /\ archive \in Nat /\ call.logs \in Nat
  BY CallTyped DEF TypeOK
<1> DEFINE part == [i \in 1..Len(to) |-> Attachment(to[i], SizeOf(to[i]), "regular")]
<1>2. part \in Surjection(1..Len(to), Planned)
  <2>1. \A i \in 1..Len(to) : to[i] \in Range(to)
    BY <1>1 DEF Range
  <2>2. part \in [1..Len(to) -> Planned]
    BY <2>1 DEF Planned
  <2>3. ASSUME NEW p \in Planned PROVE \E i \in 1..Len(to) : part[i] = p
    <3>1. PICK what \in Range(to) : p = Attachment(what, SizeOf(what), "regular")
      BY DEF Planned
    <3>2. PICK i \in 1..Len(to) : to[i] = what
      BY <1>1, <3>1 DEF Range
    <3> QED BY <3>1, <3>2
  <2> HIDE DEF part
  <2> QED BY <2>2, <2>3 DEF Surjection
<1>3. IsFiniteSet(1..Len(to))
  BY <1>1, FS_Interval
<1>4. IsFiniteSet(Planned)
  BY <1>2, <1>3, FS_Surjection
<1>5. \A what \in Parts : SizeOf(what) \in Nat
  BY <1>1 DEF SizeOf, Parts
<1>6. \A what \in Range(to) : Attachment(what, SizeOf(what), "regular").size \in Nat
  BY <1>1, <1>5, RangeSubset DEF Attachment
<1> QED
  BY <1>4, <1>6 DEF Sized, Planned

\* One thing more to attach.
LEMMA PlannedMore ==
  ASSUME TypeOK, NEW what \in Parts, to' = Append(to, what), size' = size, call' = call,
         archive' = archive \/ "zip" \notin Range(to)
  PROVE  Planned' = Planned \cup {Attachment(what, SizeOf(what)', "regular")}
<1>1. \A x : x \in Range(to)' <=> x \in Range(to) \/ x = what
  BY RangeAppend DEF TypeOK
<1>2. \A x \in Range(to) : SizeOf(x)' = SizeOf(x)
  BY DEF SizeOf
<1> QED
  BY <1>1, <1>2 DEF Planned

LEMMA PlannedSum ==
  ASSUME TypeOK, NEW what \in Parts, to' = Append(to, what), size' = size, call' = call,
         archive' = archive \/ "zip" \notin Range(to), SizeOf(what)' \in Nat
  PROVE  /\ Planned \subseteq Planned'
         /\ TotalSize(Planned') <= TotalSize(Planned) + SizeOf(what)'
         /\ TotalSize(Planned) \in Nat /\ TotalSize(Planned') \in Nat
<1> DEFINE a == Attachment(what, SizeOf(what)', "regular")
<1>1. Planned' = Planned \cup {a}
  BY PlannedMore
<1>2. a.size = SizeOf(what)'
  BY DEF Attachment
<1>3. Sized(Planned)
  BY PlannedSized
<1> HIDE DEF a
<1>4. Sized(Planned \cup {a}) /\ TotalSize(Planned \cup {a}) <= TotalSize(Planned) + a.size
  BY <1>2, <1>3, TotalWith
<1> QED
  BY <1>1, <1>2, <1>3, <1>4, TotalIsNat

-----------------------------------------------------------------------------
(* The budget is kept.                                                     *)

LEMMA BudgetStart == Init => Budgeted
<1> SUFFICES ASSUME Init PROVE Budgeted
  OBVIOUS
<1>1. Planned = {}
  BY RangeEmpty DEF Init, Planned
<1>2. TotalSize({}) = 0
  BY TotalUnfolds, FS_EmptySet
<1>3. "zip" \notin Range(to) /\ Range(queue) \subseteq Range(to)
  BY RangeEmpty DEF Init
<1> QED
  BY <1>1, <1>2, <1>3, ReportAssumption DEF Init, Budgeted, Unplanned, Zipping

\* A step that plans nothing.
LEMMA PlanStays ==
  ASSUME Budgeted, UNCHANGED <<call, size, to, used, archive, mail>>,
         pc' \in Unplanned => pc \in Unplanned,
         pc' \in Unplanned \cup {"budget"} \cup Zipping =>
           pc \in Unplanned \cup {"budget"} \cup Zipping,
         pc' \in Attaching => Range(queue)' \subseteq Range(to),
         touched' = {} => touched = {}
  PROVE  Budgeted'
<1>1. Planned' = Planned
  BY DEF Planned, SizeOf
<1>2. Zipping' = Zipping /\ Unplanned' = Unplanned /\ Attaching' = Attaching
  BY DEF Zipping, Unplanned, Attaching
<1> QED
  BY <1>1, <1>2 DEF Budgeted

\* Of a list that is gone through, and of its rest.
LEMMA RestOfQueue ==
  ASSUME TypeOK, queue # <<>>
  PROVE  Range(Tail(queue)) \subseteq Range(queue) /\ Head(queue) \in Range(queue)
BY RangeTail DEF TypeOK

\* The steps that attach something, or plan to.
LEMMA LogsInBudget ==
  ASSUME TypeOK, Budgeted, AttachLogs
  PROVE  Budgeted'
<1>1. /\ pc = "logs" /\ pc' = "budget" /\ call' = call /\ size' = size /\ archive' = archive
      /\ mail' = mail /\ touched' = touched
  BY DEF AttachLogs, worldVars
<1>2. to = <<>> /\ archive = 0 /\ Planned = {}
  BY <1>1, RangeEmpty DEF Budgeted, Unplanned, Planned
<1>3. touched' = {} => mail' \subseteq Planned'
  BY <1>1, <1>2 DEF Budgeted
<1>4. TotalSize({}) = 0
  BY TotalUnfolds, FS_EmptySet
<1>5. call.logs \in Nat /\ Budget \in Nat
  BY CallTyped, ReportAssumption
<1>6. CASE WithLogs
  <2>1. to' = <<"logs">> /\ used' = call.logs /\ to' = Append(to, "logs")
    BY <1>2, <1>6 DEF AttachLogs
  <2>2. "logs" \in Parts /\ SizeOf("logs")' = call.logs
    BY <1>1 DEF Parts, SizeOf
  <2>3. TotalSize(Planned') <= call.logs
    <3>1. TotalSize(Planned') <= TotalSize(Planned) + SizeOf("logs")' /\ TotalSize(Planned') \in Nat
      BY <1>1, <1>5, <2>1, <2>2, PlannedSum
    <3> QED BY <1>2, <1>4, <1>5, <2>2, <3>1
  <2>4. "zip" \notin Range(to')
    BY <2>1 DEF Range
  <2>5. used' + archive' = call.logs
    BY <1>1, <1>2, <1>5, <2>1
  <2> QED
    BY <1>1, <1>2, <1>3, <2>1, <2>3, <2>4, <2>5 DEF Budgeted, Unplanned, Attaching
<1>7. CASE ~WithLogs
  <2>1. to' = <<>> /\ used' = 0
    BY <1>7 DEF AttachLogs
  <2>2. Planned' = {} /\ "zip" \notin Range(to')
    BY <2>1, RangeEmpty DEF Planned
  <2> QED
    BY <1>1, <1>2, <1>3, <1>4, <1>5, <2>1, <2>2 DEF Budgeted, Unplanned, Attaching
<1> QED
  BY <1>6, <1>7

LEMMA FitInBudget ==
  ASSUME TypeOK, Budgeted, Fit
  PROVE  Budgeted'
<1>0. PICK f : f = Head(queue)
  OBVIOUS
<1>1. /\ pc = "budget" /\ pc' = "budget" /\ queue # <<>> /\ call' = call /\ size' = size
      /\ archive' = archive /\ mail' = mail /\ touched' = touched
  BY DEF Fit, worldVars
<1>2. f \in Files /\ f \in Parts /\ f # "logs" /\ f # "zip"
  BY <1>0, <1>1, QueueTail, ReportAssumption DEF Preparing, Parts
<1>3. archive = 0 /\ "zip" \notin Range(to)
  BY <1>1 DEF Budgeted
<1>4. CASE to' = to /\ used' = used
  BY <1>1, <1>4, PlanStays DEF Unplanned, Zipping, Attaching
<1>5. CASE used + size[f] <= Budget /\ to' = Append(to, f) /\ used' = used + size[f]
  <2>1. SizeOf(f)' = size[f] /\ size[f] \in Nat /\ used \in Nat
    BY <1>1, <1>2 DEF SizeOf, TypeOK
  <2>2. /\ Planned \subseteq Planned' /\ TotalSize(Planned') <= TotalSize(Planned) + size[f]
        /\ TotalSize(Planned) \in Nat /\ TotalSize(Planned') \in Nat
    BY <1>1, <1>2, <1>5, <2>1, PlannedSum
  <2>3. TotalSize(Planned) <= used
    BY <1>3, <2>1 DEF Budgeted
  <2>4. TotalSize(Planned') <= used' + archive' /\ used' + archive' <= Budget
    BY <1>1, <1>3, <1>5, <2>1, <2>2, <2>3, ReportAssumption
  <2>5. "zip" \notin Range(to')
    BY <1>2, <1>3, <1>5, RangeAppend DEF TypeOK
  <2> QED
    BY <1>1, <1>3, <2>2, <2>4, <2>5 DEF Budgeted, Unplanned, Attaching
<1> QED
  BY <1>0, <1>4, <1>5 DEF Fit

LEMMA ZipInBudget ==
  ASSUME TypeOK, Budgeted, ZipDone
  PROVE  Budgeted'
<1>1. /\ pc = "zip" /\ pc' = "print" /\ call' = call /\ size' = size /\ used' = used
      /\ mail' = mail /\ touched' = touched
  BY DEF ZipDone, worldVars, metricVars
<1>2. archive = 0 /\ "zip" \notin Range(to)
  BY <1>1 DEF Budgeted, Zipping
<1>3. CASE archive' = archive /\ to' = to
  BY <1>1, <1>3, PlanStays DEF Unplanned, Zipping, Attaching
<1>4. CASE \E n \in 1..TotalSize(packed) + 1 : ZipFits(n) /\ archive' = n /\ to' = Append(to, "zip")
  <2>1. PICK n \in 1..TotalSize(packed) + 1 : ZipFits(n) /\ archive' = n /\ to' = Append(to, "zip")
    BY <1>4
  <2>2. n \in Nat /\ used \in Nat
    BY DEF TypeOK
  <2>3. "zip" \in Parts /\ SizeOf("zip")' = n
    BY <2>1 DEF Parts, SizeOf
  <2>4. /\ Planned \subseteq Planned' /\ TotalSize(Planned') <= TotalSize(Planned) + n
        /\ TotalSize(Planned) \in Nat /\ TotalSize(Planned') \in Nat
    BY <1>1, <1>2, <2>1, <2>2, <2>3, PlannedSum
  <2>5. TotalSize(Planned) <= used
    BY <1>2, <2>2 DEF Budgeted
  <2>6. TotalSize(Planned') <= used' + archive' /\ used' + archive' <= Budget
    BY <1>1, <2>1, <2>2, <2>4, <2>5, ReportAssumption DEF ZipFits
  <2> QED
    BY <1>1, <2>4, <2>6 DEF Budgeted, Unplanned, Zipping, Attaching
<1> QED
  BY <1>3, <1>4 DEF ZipDone

LEMMA AttachedAsPlanned ==
  ASSUME TypeOK, Accounted, Budgeted, AttachOwn \/ AttachOpen
  PROVE  Budgeted'
<1> DEFINE f == Head(queue)
<1>1. /\ pc \in Attaching /\ pc' \in Attaching /\ queue # <<>> /\ queue' = Tail(queue)
      /\ UNCHANGED <<call, size, to, used, archive, touched, disk>>
  BY DEF AttachOwn, AttachOpen, Attaching, Opening, TypeOK, worldVars, metricVars
<1>2. Range(queue') \subseteq Range(to') /\ f \in Range(to)
  BY <1>1, RestOfQueue DEF Budgeted
<1>3. Planned' = Planned
  BY <1>1 DEF Planned, SizeOf
<1>4. ASSUME touched = {} PROVE mail' \subseteq Planned
  <2>1. mail \subseteq Planned /\ Attachment(f, SizeOf(f), "regular") \in Planned
    BY <1>2, <1>4 DEF Budgeted, Planned
  <2>2. CASE AttachOwn
    BY <2>1, <2>2 DEF AttachOwn, Own, SizeOf
  <2>3. CASE AttachOpen
    <3>1. f \in Files /\ f # "logs" /\ f # "zip"
      BY <2>3, ReportAssumption DEF AttachOpen, TypeOK, Opening
    <3>2. disk[f].kind = "regular" /\ disk[f].size = SizeOf(f)
      BY <1>2, <1>4, <3>1 DEF Accounted, StillThere, SizeOf
    <3>3. mail' \subseteq mail \cup {Attachment(f, disk[f].size, disk[f].kind)}
      BY <2>3 DEF AttachOpen
    <3> QED BY <2>1, <3>2, <3>3
  <2> QED BY <2>2, <2>3
<1>5. pc' \notin Unplanned \cup {"budget"} \cup Zipping
  BY <1>1 DEF Attaching, Unplanned, Zipping
<1> QED
  BY <1>1, <1>2, <1>3, <1>4, <1>5 DEF Budgeted, Attaching, Unplanned, Zipping

LEMMA ScanPlansNothing ==
  ASSUME TypeOK, Budgeted, NEW f \in Files, ScanFile(f)
  PROVE  Budgeted'
<1>1. /\ pc = "scan" /\ pc' = pc /\ call' = call /\ to' = to /\ used' = used
      /\ archive' = archive /\ mail' = mail /\ touched' = touched
  BY DEF ScanFile, worldVars, metricVars
<1>2. to = <<>> /\ Planned = {} /\ Planned' = {}
  BY <1>1, RangeEmpty DEF Budgeted, Unplanned, Planned
<1> QED
  BY <1>1, <1>2 DEF Budgeted, Attaching

-----------------------------------------------------------------------------
(* The invariant, and the theorem.                                         *)

LEMMA BudgetStep ==
  ASSUME TypeOK, Accounted, Budgeted, [Next]_vars
  PROVE  Budgeted'
<1> USE DEF Unplanned, Zipping, Attaching
<1>1. CASE FixExit \/ Begin \/ Exit \/ Tell
  BY <1>1, PlanStays DEF FixExit, Begin, Exit, Tell, worldVars, reportVars, metricVars
<1>2. CASE Scanned \/ Overflow \/ ZipFails
  BY <1>2, PlanStays DEF Scanned, Overflow, ZipFails, worldVars, metricVars
<1>3. CASE ZipCheck \/ ZipOpen
  BY <1>3, PlanStays DEF ZipCheck, ZipOpen, worldVars, metricVars
<1>4. CASE Announce \/ ReadMetrics \/ MetricsDone
  BY <1>4, PlanStays DEF Announce, ReadMetrics, Quote, QuoteNothing, ReadAgain, MetricsDone,
     worldVars, reportVars, metricVars
<1>5. CASE Send \/ BodyCheck \/ BodySize \/ Deliver
  BY <1>5, PlanStays DEF Send, BodyCheck, BodySize, Deliver, worldVars, metricVars
<1>6. CASE BodyDone
  BY <1>6, PlanStays DEF BodyDone, worldVars, metricVars
<1>7. CASE AttachCheck
  <2>1. Range(queue') \subseteq Range(queue) /\ pc = "attach"
    BY <1>7, RestOfQueue DEF AttachCheck
  <2>2. Range(queue') \subseteq Range(to)
    BY <2>1 DEF Budgeted
  <2> QED
    BY <1>7, <2>1, <2>2, PlanStays DEF AttachCheck, worldVars, metricVars
<1>8. CASE PrintFails \/ Interrupt
  BY <1>8, PlanStays DEF PrintFails, Interrupt, worldVars, reportVars, metricVars
<1>9. ASSUME NEW f \in Files, Change(f) PROVE Budgeted'
  <2>1. touched' # {}
    BY <1>9 DEF Change
  <2> QED
    BY <1>9, <2>1, PlanStays DEF Change, Budgeted, reportVars, metricVars
<1>10. CASE MoveRoot
  <2>1. touched' = {} => touched = {}
    BY <1>10 DEF MoveRoot, TypeOK
  <2> QED
    BY <1>10, <2>1, PlanStays DEF MoveRoot, Budgeted, reportVars, metricVars
<1>11. CASE UNCHANGED vars
  BY <1>11, PlanStays DEF Budgeted, vars, worldVars, reportVars, metricVars
<1> QED
  BY <1>1, <1>2, <1>3, <1>4, <1>5, <1>6, <1>7, <1>8, <1>9, <1>10, <1>11, LogsInBudget, FitInBudget,
     ZipInBudget, AttachedAsPlanned, ScanPlansNothing DEF Next, Reporter, Prepare, Build

\* The inductive invariant: where each file is, and what the mail comes to.
THEOREM InductiveHolds == Spec => []Inductive
<1>1. Init => Inductive
  BY TrackedStart, BudgetStart DEF Inductive
<1>2. Inductive /\ [Next]_vars => Inductive'
  BY TrackedStep, BudgetStep DEF Inductive, Tracked
<1> QED
  BY <1>1, <1>2, PTL DEF Spec

\* Whatever the sizes of the files, the logs and the zip: the mail is within
\* max_total_mb, unless the logs alone are over it (or a file was changed after the scan).
THEOREM BudgetIsKept == Spec => []WithinBudget
<1>1. Inductive => WithinBudget
  <2> SUFFICES ASSUME Inductive, touched = {} PROVE TotalSize(mail) <= Budget \/ Attached = {"logs"}
    BY DEF WithinBudget
  <2>1. /\ mail \subseteq Planned /\ TotalSize(Planned) <= used + archive
        /\ used + archive <= Budget \/ to = <<"logs">>
    BY DEF Inductive, Budgeted
  <2>2. used \in Nat /\ archive \in Nat /\ Budget \in Nat /\ Sized(Planned)
    BY ReportAssumption, PlannedSized DEF Inductive, Tracked, TypeOK
  <2>3. CASE used + archive <= Budget
    <3>1. TotalSize(mail) <= TotalSize(Planned) /\ TotalSize(Planned) \in Nat
      BY <2>1, <2>2, TotalOfPart, TotalIsNat
    <3>2. TotalSize(mail) \in Nat
      <4>1. Sized(mail)
        BY <2>1, <2>2, FS_Subset DEF Sized
      <4> QED BY <4>1, TotalIsNat
    <3> QED BY <2>1, <2>2, <2>3, <3>1, <3>2
  <2>4. CASE to = <<"logs">>
    <3>1. \A a \in Planned : a.what = "logs"
      BY <2>4 DEF Planned, Range, Attachment
    <3>2. CASE mail = {}
      <4>1. TotalSize(mail) = 0
        BY <3>2, TotalUnfolds, FS_EmptySet
      <4> QED BY <2>2, <4>1
    <3>3. CASE mail # {}
      BY <2>1, <3>1, <3>3 DEF Attached
    <3> QED BY <3>2, <3>3
  <2> QED BY <2>1, <2>3, <2>4
<1> QED
  BY <1>1, InductiveHolds, PTL
=============================================================================
