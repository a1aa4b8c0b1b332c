---------------------------- MODULE JobLogProofs ----------------------------
(***************************************************************************)
(* What holds of the logs of JobRun for every value of its constants, and  *)
(* that run_job implements JobContract.                                    *)
(***************************************************************************)
EXTENDS JobRunProofs

-----------------------------------------------------------------------------
(* Logs and their units.                                                   *)

\* The log the entry is appended to has one entry more, the others are the same.
LEMMA FileAppend ==
  ASSUME DiskTypeOK, NEW l \in Logs, NEW e \in Entries, mode = "disk", file' = Appended(l, e)
  PROVE  /\ Len(file'[l]) = Len(file[l]) + 1 /\ file'[l][Len(file[l]) + 1] = e
         /\ \A i \in 1..Len(file[l]) : file'[l][i] = file[l][i]
         /\ \A m \in Logs \ {l} : file'[m] = file[m]
<1>1. file[l] \in Seq(Entries) /\ file \in [Logs -> Seq(Entries)]
  BY DEF DiskTypeOK
<1>2. file'[l] = Append(file[l], e) /\ \A m \in Logs \ {l} : file'[m] = file[m]
  BY <1>1 DEF Appended
<1>. QED
  BY <1>1, <1>2, AppendProperties, LenProperties

\* An append adds its unit to what the log has kept, and nothing else.
LEMMA KeptAppend ==
  ASSUME DiskTypeOK, NEW l \in Logs, NEW e \in Entries, mode = "disk", file' = Appended(l, e),
         NEW m \in Logs, NEW s \in Streams
  PROVE  Kept(m, s)' = IF m = l /\ e[1] = s THEN Kept(m, s) \cup {e[2]} ELSE Kept(m, s)
<1>1. CASE m # l
  BY <1>1, FileAppend DEF Kept, Places
<1>2. CASE m = l
  <2>1. Len(file[l]) \in Nat
    BY LenProperties DEF DiskTypeOK
  <2>2. Len(file'[l]) = Len(file[l]) + 1 /\ file'[l][Len(file[l]) + 1] = e
    BY FileAppend
  <2>3. \A i \in 1..Len(file[l]) : file'[l][i] = file[l][i]
    BY FileAppend
  <2>4. Places(l, s)' = Places(l, s) \cup (IF e[1] = s THEN {Len(file[l]) + 1} ELSE {})
    BY <2>1, <2>2, <2>3 DEF Places
  <2>5. \A i \in Places(l, s) : file'[l][i][2] = file[l][i][2]
    BY <2>3 DEF Places
  <2>6. Kept(l, s)' = {file'[l][i][2] : i \in Places(l, s)'}
    BY DEF Kept
  <2>7. Kept(l, s)' = Kept(l, s) \cup (IF e[1] = s THEN {e[2]} ELSE {})
    BY <2>2, <2>4, <2>5, <2>6 DEF Kept
  <2>. QED
    BY <1>2, <2>7
<1>. QED
  BY <1>1, <1>2

\* A log stays in order when the new unit has a greater number than all before.
LEMMA OrderAppend ==
  ASSUME DiskTypeOK, NEW l \in Logs, NEW e \in Entries, mode = "disk", file' = Appended(l, e),
         NEW m \in Logs, NEW s \in Streams, InOrder(m, s),
         m = l /\ e[1] = s => \A k \in Kept(m, s) : k < e[2]
  PROVE  InOrder(m, s)'
<1>1. CASE m # l
  BY <1>1, FileAppend DEF InOrder, Places
<1>2. CASE m = l
  <2>1. Len(file[l]) \in Nat
    BY LenProperties DEF DiskTypeOK
  <2>2. Len(file'[l]) = Len(file[l]) + 1 /\ file'[l][Len(file[l]) + 1] = e
    BY FileAppend
  <2>3. \A i \in 1..Len(file[l]) : file'[l][i] = file[l][i]
    BY FileAppend
  <2>. SUFFICES ASSUME NEW i \in Places(l, s)', NEW j \in Places(l, s)', i < j
                PROVE  file'[l][i][2] < file'[l][j][2]
    BY <1>2 DEF InOrder
  <2>4. i \in Places(l, s) /\ file'[l][i] = file[l][i]
    BY <2>1, <2>2, <2>3 DEF Places
  <2>5. CASE j \in Places(l, s)
    <3>1. file'[l][j] = file[l][j]
      BY <2>3, <2>5 DEF Places
    <3>. QED
      BY <1>2, <2>4, <2>5, <3>1 DEF InOrder
  <2>6. CASE j \notin Places(l, s)
    <3>1. j = Len(file[l]) + 1 /\ e[1] = s
      BY <2>1, <2>2, <2>3, <2>6 DEF Places
    <3>2. file[l][i][2] \in Kept(l, s)
      BY <2>4 DEF Kept
    <3>. QED
      BY <1>2, <2>2, <2>4, <3>1, <3>2
  <2>. QED
    BY <2>5, <2>6
<1>. QED
  BY <1>1, <1>2

\* The units in the logs are the same as before.
SameUnits ==
  \A m \in Logs, s \in Streams : Kept(m, s)' = Kept(m, s) /\ (InOrder(m, s) => InOrder(m, s)')

LEMMA SameFileSameUnits ==
  ASSUME UNCHANGED file
  PROVE  SameUnits
BY DEF SameUnits, Kept, InOrder, Places

\* A line of the wrapper's own is not a unit.
LEMMA SysNoUnit ==
  ASSUME DiskTypeOK, NEW l \in Logs, NEW e \in {"sys"} \X SysLines, file' = Appended(l, e)
  PROVE  SameUnits
<1>1. CASE mode = "disk"
  <2>1. e \in Entries /\ e[1] \notin Streams
    BY DEF Entries, Streams
  <2>. QED
    BY <1>1, <2>1, KeptAppend, OrderAppend DEF SameUnits
<1>2. CASE mode # "disk"
  BY <1>2, SameFileSameUnits DEF Appended
<1>. QED
  BY <1>1, <1>2

-----------------------------------------------------------------------------
(* Steps that do not concern a stream.                                     *)

\* Nothing of s has moved: what the job adds goes to the pipe, the logs hold what they held
\* of s, and the reader at most is started.
Untouched(s) ==
  /\ rd'[s] = rd[s] \/ (rd[s] = "unstarted" /\ rd'[s] = "read")
  /\ hand'[s] = hand[s] /\ pending'[s] = pending[s] /\ ring'[s] = ring[s]
  /\ s \in eof' <=> s \in eof
  /\ s \in errored' <=> s \in errored
  /\ s \in undecoded' <=> s \in undecoded
  /\ s \in replaced' <=> s \in replaced
  /\ written'[s] - pipe'[s] = written[s] - pipe[s] /\ written[s] <= written'[s]
  /\ s \in eof => pipe'[s] = pipe[s] /\ (s \in holders' => s \in holders)
  /\ \A m \in {s, "combined"} : Kept(m, s)' = Kept(m, s) /\ (InOrder(m, s) => InOrder(m, s)')
  /\ failed \subseteq failed' /\ (mode' = "disk" => mode = "disk")
  /\ Working(s)' => Working(s)

LEMMA UntouchedStays ==
  ASSUME TypeOK, TypeOK', NEW s \in Streams, OnItsWay(s), Untouched(s)
  PROVE  OnItsWay(s)'
<1>1. Gapless(s)'
  <2>1. s \notin failed' => \E n \in 0..written'[s] : Kept(s, s)' = 1..n
    <3>. SUFFICES ASSUME s \notin failed' PROVE \E n \in 0..written'[s] : Kept(s, s)' = 1..n
      OBVIOUS
    <3>1. PICK n \in 0..written[s] : Kept(s, s) = 1..n
      BY DEF OnItsWay, Gapless, Untouched
    <3>2. n \in 0..written'[s]
      BY <3>1 DEF Untouched, TypeOK, JobTypeOK
    <3>. QED
      BY <3>1, <3>2 DEF Untouched
  <2>. QED
    BY <2>1 DEF OnItsWay, Gapless, Untouched
<1>2. Agrees(s)'
  <2>1. Between(s)' = Between(s)
    BY DEF Between, Untouched
  <2>. QED
    BY <2>1 DEF OnItsWay, Agrees, Untouched
<1>3. Phases(s)'
  BY DEF OnItsWay, Phases, Untouched
<1>4. Emitted(s)' = Emitted(s) /\ Logged(s)' = Logged(s)
  BY DEF Emitted, Logged, Untouched
<1>5. Flow(s)'
  BY <1>4 DEF OnItsWay, Flow, Untouched
<1>6. RingFull(s)'
  BY <1>4 DEF OnItsWay, RingFull, Untouched, TypeOK, JobTypeOK
<1>7. Ordered(s)' /\ BadKnown(s)'
  BY DEF OnItsWay, Ordered, BadKnown, Untouched
<1>. QED
  BY <1>1, <1>2, <1>3, <1>5, <1>6, <1>7 DEF OnItsWay

\* A stream whose reader works has worked before: what failed stays failed, and once the
\* sink is closed nothing is added to the threads that ended in time.
LEMMA WorkingBefore ==
  ASSUME Control, [Next]_vars, NEW s \in Streams, Working(s)'
  PROVE  Working(s)
<1>1. errored \subseteq errored'
  <2>1. CASE Main
    BY <2>1, MainFrame
  <2>2. ASSUME NEW t \in Streams, Reader(t) PROVE errored \subseteq errored'
    BY <2>2 DEF Reader, ReadChunk, ReadEof, SinkDrop, SinkAcquire, WriteOwn, WriteCombined,
       ReaderFails, RecordError, Drain, ReaderEnds, flagVars
  <2>3. CASE Child \/ Environment \/ UNCHANGED vars
    BY <2>3, OtherStep DEF readerVars, flagVars
  <2>. QED
    BY <2>1, <2>2, <2>3 DEF Next
<1>2. closed => closed' /\ UNCHANGED <<threads, stillOpen>>
  <2>1. CASE Main /\ closed
    <3>1. LogAcquire \/ LogAppend \/ CollectNotes \/ Finish
      BY <2>1 DEF Control, Closing, Ended, Concluding, Calling, Main, OpenLogs, Popen,
         PopenFails, StartReader, AppendThread, WaitChild, JoinReaders, JoinNext, Settle,
         KillTimedOut, AwaitKilled, TimedOut, StopChild, LauncherError, InterruptedKill,
         InterruptedLog, FindStillOpen, CloseSink
    <3>. QED
      BY <2>1, <3>1 DEF LogAcquire, LogAppend, CollectNotes, Finish, localVars, resultVars,
         otherVars, diskVars
  <2>2. ASSUME NEW t \in Streams, Reader(t) PROVE UNCHANGED <<closed, threads, stillOpen>>
    BY <2>2, ReaderFrame DEF mainVars
  <2>3. CASE Child \/ Environment \/ UNCHANGED vars
    BY <2>3, OtherStep, OtherLocals DEF resultVars
  <2>. QED
    BY <2>1, <2>2, <2>3 DEF Next
<1>. QED
  BY <1>1, <1>2 DEF Working

\* The steps of nobody but the readers, and the opening of the logs, concern any stream.
LEMMA OthersLeaveUnits ==
  ASSUME Control, [Next]_vars, ~OpenLogs, \A t \in Streams : ~Reader(t), NEW s \in Streams,
         Phases(s)
  PROVE  Untouched(s)
<1>1. SameUnits
  <2>1. CASE LogAppend
    <3>1. todo # <<>> /\ todo \in Seq(Logs \X ({"sys"} \X SysLines))
      BY <2>1 DEF LogAppend, Control, WorkInHand, Calling, TypeOK, MainTypeOK
    <3>2. Head(todo)[1] \in Logs /\ Head(todo)[2] \in {"sys"} \X SysLines
      BY <3>1, HeadTailProperties
    <3>. QED
      BY <2>1, <3>2, SysNoUnit, SameFileSameUnits DEF LogAppend, Control, TypeOK
  <2>2. CASE Main /\ ~LogAppend
    BY <2>2, SameFileSameUnits DEF Main, Popen, PopenFails, LogAcquire, StartReader, AppendThread,
       WaitChild, JoinReaders, Settle, KillTimedOut, AwaitKilled, TimedOut, StopChild,
       LauncherError, InterruptedKill, InterruptedLog, FindStillOpen, CloseSink, CollectNotes,
       Finish, otherVars, diskVars
  <2>3. CASE Child \/ Environment \/ UNCHANGED vars
    BY <2>3, OtherStep, SameFileSameUnits
  <2>. QED
    BY <2>1, <2>2, <2>3 DEF Next
<1>2. CASE Main
  <2>1. UNCHANGED <<hand, pending, ring, eof, errored, undecoded, replaced>>
    BY <1>2, MainFrame
  <2>2. rd'[s] = rd[s] \/ (rd[s] = "unstarted" /\ rd'[s] = "read")
    <3>1. pc = "spawn" => NextReader \in Streams \ threads
      BY DEF Control, Staffed, Starting, NextReader, Streams
    <3>2. pc = "spawn" => rd[NextReader] = "unstarted"
      BY <3>1 DEF Control, Staffed, Starting
    <3>. QED
      BY <1>2, <3>2, MainFrame DEF Control, TypeOK, ReaderTypeOK
  <2>3. UNCHANGED <<written, pipe, failed, mode>>
    BY <1>2 DEF Main, Popen, PopenFails, LogAcquire, LogAppend, StartReader, AppendThread,
       WaitChild, JoinReaders, Settle, KillTimedOut, AwaitKilled, TimedOut, StopChild,
       LauncherError, InterruptedKill, InterruptedLog, FindStillOpen, CloseSink, CollectNotes,
       Finish, otherVars, childVars, diskVars
  <2>4. s \in eof => UNCHANGED holders
    <3>1. s \in eof => ~Popen
      BY DEF Popen, Control, ReadToTheEnd
    <3>. QED
      BY <1>2, <3>1 DEF Main, PopenFails, LogAcquire, LogAppend, StartReader, AppendThread,
         WaitChild, JoinReaders, Settle, KillTimedOut, AwaitKilled, TimedOut, StopChild,
         LauncherError, InterruptedKill, InterruptedLog, FindStillOpen, CloseSink, CollectNotes,
         Finish, otherVars, childVars, jobVars
  <2>. QED
    BY <1>1, <2>1, <2>2, <2>3, <2>4, WorkingBefore DEF Untouched, SameUnits, Logs, Control, TypeOK,
       JobTypeOK
<1>3. CASE Child \/ Environment \/ UNCHANGED vars
  <2>1. UNCHANGED <<readerVars, failed>> /\ (UNCHANGED mode \/ mode' = "removed")
    BY <1>3, OtherStep
  <2>2. /\ written'[s] - pipe'[s] = written[s] - pipe[s] /\ written[s] <= written'[s]
        /\ s \in eof => pipe'[s] = pipe[s] /\ (s \in holders' => s \in holders)
    <3>1. ASSUME NEW t \in Streams, ChildWrite(t) \/ BackgroundWrite(t)
          PROVE  /\ written'[s] - pipe'[s] = written[s] - pipe[s] /\ written[s] <= written'[s]
                 /\ s \in eof => t # s
                 /\ UNCHANGED holders
      <4>1. written[s] \in Nat /\ pipe[s] \in Nat
        BY JobAssumption DEF JobAssumption, Control, TypeOK, JobTypeOK
      <4>2. s \in eof => t # s
        BY <3>1 DEF ChildWrite, BackgroundWrite, Control, ReadToTheEnd, Phases
      <4>. QED
        BY <3>1, <4>1, <4>2 DEF ChildWrite, BackgroundWrite, jobVars, Control, TypeOK, JobTypeOK
    <3>2. CASE \E t \in Streams : ChildWrite(t) \/ BackgroundWrite(t)
      <4>1. PICK t \in Streams : ChildWrite(t) \/ BackgroundWrite(t)
        BY <3>2
      <4>2. s # t => pipe'[s] = pipe[s]
        BY <4>1 DEF ChildWrite, BackgroundWrite, Control, TypeOK, JobTypeOK
      <4>. QED
        BY <3>1, <4>1, <4>2
    <3>3. CASE ~\E t \in Streams : ChildWrite(t) \/ BackgroundWrite(t)
      <4>1. UNCHANGED <<written, pipe>>
        BY <1>3, <3>3 DEF Child, ChildExits, ChildSigpipe, KillLands, Dies, vars, childVars,
           Environment, ChildStopped, BackgroundExits, Interrupt, InterruptPopen, Crash,
           LogsRemoved, otherVars
      <4>2. s \in eof => ~InterruptPopen
        BY DEF InterruptPopen, Control, ReadToTheEnd
      <4>3. ~InterruptPopen => holders' \subseteq holders
        BY <1>3, <3>3 DEF Child, ChildExits, ChildSigpipe, KillLands, Dies, vars, childVars,
           jobVars, Environment, ChildStopped, BackgroundExits, Interrupt, Crash, LogsRemoved,
           otherVars
      <4>. QED
        BY <4>1, <4>2, <4>3 DEF Control, TypeOK, JobTypeOK
    <3>. QED
      BY <3>2, <3>3
  <2>. QED
    BY <1>1, <2>1, <2>2, WorkingBefore DEF Untouched, SameUnits, Logs, readerVars, lineVars,
       flagVars
<1>. QED
  BY <1>2, <1>3 DEF Next

-----------------------------------------------------------------------------
(* The opening of the logs, and the steps of the other reader.             *)

\* The logs are opened for readers that have not begun.
LEMMA LogsOpened ==
  ASSUME Control, OpenLogs, NEW s \in Streams, OnItsWay(s)
  PROVE  OnItsWay(s)' /\ Logged(s)' = 0
<1>1. rd[s] = "unstarted" /\ written[s] = 0 /\ pipe[s] = 0 /\ s \notin eof \cup errored
  <2>1. rd[s] = "unstarted" /\ written[s] = 0
    BY DEF OpenLogs, Control, Staffed, Starting, HeaderKept
  <2>2. pipe[s] = 0
    BY <2>1 DEF Control, PipeHistory, TypeOK, JobTypeOK
  <2>. QED
    BY <2>1, <2>2 DEF OnItsWay, Phases
<1>2. hand[s] = <<>> /\ pending[s] = <<>> /\ Len(ring[s]) = 0
  BY <1>1 DEF OnItsWay, Phases, RingFull
<1>3. UNCHANGED <<written, readerVars, holders, pipe, failed, closed, threads, stillOpen>>
  BY DEF OpenLogs, childVars, jobVars, localVars, resultVars
<1>4. \A m \in Logs : Places(m, s)' = {}
  <2>. SUFFICES ASSUME NEW m \in Logs PROVE Places(m, s)' = {}
    OBVIOUS
  <2>1. file'[m] = <<Sys("header")>> \/ file'[m] = <<>>
    BY DEF OpenLogs, NewLogs
  <2>2. Sys("header")[1] # s
    BY DEF Sys, Streams
  <2>. QED
    BY <2>1, <2>2 DEF Places
<1>5. \A m \in {s, "combined"} : Kept(m, s)' = {} /\ InOrder(m, s)'
  BY <1>4 DEF Kept, InOrder, Logs
<1>6. Emitted(s)' = 0 /\ Logged(s)' = 0
  BY <1>1, <1>2, <1>3 DEF Emitted, Logged, readerVars, lineVars
<1>7. Gapless(s)' /\ Agrees(s)' /\ Ordered(s)'
  BY <1>1, <1>3, <1>5 DEF Gapless, Agrees, Between, Ordered, readerVars
<1>8. Flow(s)'
  BY <1>5, <1>6 DEF Flow
<1>9. Phases(s)' /\ RingFull(s)' /\ BadKnown(s)'
  BY <1>1, <1>2, <1>3, <1>5, <1>6 DEF OnItsWay, Phases, RingFull, BadKnown, Emitted, Follows,
     readerVars, lineVars, flagVars
<1>. QED
  BY <1>6, <1>7, <1>8, <1>9 DEF OnItsWay

\* A reader in the middle of a write works.
LEMMA WriterWorks ==
  ASSUME Control, NEW t \in Streams, OnItsWay(t), rd[t] \in {"own", "comb"}
  PROVE  /\ Working(t) /\ t \notin errored /\ hand[t] # <<>> /\ hand[t] \in Seq(Units)
         /\ Head(hand[t]) = <<t, Emitted(t) + 1>> /\ <<t, Emitted(t) + 1>> \in Units
         /\ Emitted(t) \in Nat /\ Emitted(t) + 1 <= written[t]
<1>1. t \notin errored /\ ~closed
  BY DEF OnItsWay, Phases, Control, Sealing
<1>2. hand[t] # <<>> /\ hand[t] \in Seq(Units)
  BY DEF Control, WorkInHand, TypeOK, ReaderTypeOK
<1>3. Len(hand[t]) \in Nat \ {0} /\ Head(hand[t]) = hand[t][1]
  BY <1>2, EmptySeq, LenProperties
<1>4. Len(ring[t]) \in Nat /\ Len(pending[t]) \in Nat /\ pipe[t] \in Nat /\ written[t] \in Nat
  BY LenProperties DEF Control, TypeOK, ReaderTypeOK, JobTypeOK
<1>5. Emitted(t) \in Nat /\ Emitted(t) + 1 <= written[t] /\ hand[t][1] = <<t, Emitted(t) + 1>>
  <2>1. /\ Len(ring[t]) = written[t] - pipe[t] - Len(pending[t]) /\ Len(hand[t]) <= Len(ring[t])
        /\ \A i \in 1..Len(hand[t]) : hand[t][i] = <<t, Emitted(t) + i>>
    BY <1>1 DEF OnItsWay, RingFull, Follows
  <2>2. Emitted(t) = Len(ring[t]) - Len(hand[t])
    BY DEF Emitted
  <2>. QED
    BY <1>3, <1>4, <2>1, <2>2
<1>6. <<t, Emitted(t) + 1>> \in Units
  BY <1>5 DEF Units
<1>. QED
  BY <1>1, <1>2, <1>3, <1>5, <1>6 DEF Working

\* The two readers share the sink, and never touch what is the other's.
LEMMA OtherReaderLeaves ==
  ASSUME Control, NEW s \in Streams, NEW t \in Streams \ {s}, Reader(t), OnItsWay(t), OnItsWay(s)
  PROVE  Untouched(s)
<1>. USE DEF Control, TypeOK, ReaderTypeOK
<1>1. UNCHANGED <<rd[s], hand[s], pending[s], ring[s]>>
  BY DEF Reader, ReadChunk, ReadEof, SinkDrop, SinkAcquire, WriteOwn, WriteCombined, ReaderFails,
     Drain, ReaderEnds, lineVars
<1>2. /\ s \in eof' <=> s \in eof
      /\ s \in errored' <=> s \in errored
      /\ s \in undecoded' <=> s \in undecoded
      /\ s \in replaced' <=> s \in replaced
  BY DEF Reader, ReadChunk, ReadEof, SinkDrop, SinkAcquire, WriteOwn, WriteCombined, ReaderFails,
     RecordError, Drain, ReaderEnds, flagVars
<1>3. UNCHANGED <<written, holders, pipe[s], mode>> /\ failed \subseteq failed'
  BY DEF Reader, ReadChunk, ReadEof, SinkDrop, SinkAcquire, WriteOwn, WriteCombined, Put,
     ReaderFails, Drain, ReaderEnds, childVars, jobVars, diskVars, JobTypeOK
<1>4. \A m \in {s, "combined"} : Kept(m, s)' = Kept(m, s) /\ (InOrder(m, s) => InOrder(m, s)')
  <2>1. CASE UNCHANGED file
    BY <2>1, SameFileSameUnits DEF SameUnits, Logs
  <2>2. CASE file' # file
    <3>1. PICK l \in Logs : /\ rd[t] \in {"own", "comb"}
                            /\ mode = "disk" /\ file' = Appended(l, Head(hand[t]))
      BY <2>2 DEF Reader, ReadChunk, ReadEof, SinkDrop, SinkAcquire, WriteOwn, WriteCombined, Put,
         ReaderFails, Drain, ReaderEnds, diskVars, Logs, Appended
    <3>2. Head(hand[t])[1] = t /\ Head(hand[t]) \in Entries
      <4>1. Head(hand[t]) = <<t, Emitted(t) + 1>> /\ <<t, Emitted(t) + 1>> \in Units
        BY <3>1, WriterWorks
      <4>2. Head(hand[t]) \in Entries
        BY <4>1 DEF Entries
      <4>3. Head(hand[t])[1] = t
        BY ONLY <4>1
      <4>. QED
        BY <4>2, <4>3
    <3>3. \A m \in Logs : Kept(m, s)' = Kept(m, s)
      BY <3>1, <3>2, KeptAppend
    <3>4. \A m \in Logs : InOrder(m, s) => InOrder(m, s)'
      BY <3>1, <3>2, OrderAppend
    <3>. QED
      BY <3>3, <3>4 DEF Logs
  <2>. QED
    BY <2>1, <2>2
<1>5. written[s] \in Nat
  BY DEF JobTypeOK
<1>. QED
  BY <1>1, <1>2, <1>3, <1>4, <1>5, WorkingBefore DEF Untouched, Next

-----------------------------------------------------------------------------
(* The steps of a reader on its own stream.                                *)

\* What follows what follows.
LEMMA ConcatFollows ==
  ASSUME NEW s, NEW p \in Seq(Units), NEW q \in Seq(Units), NEW e \in Nat,
         Follows(p, s, e), Follows(q, s, e + Len(p))
  PROVE  p \o q \in Seq(Units) /\ Len(p \o q) = Len(p) + Len(q) /\ Follows(p \o q, s, e)
<1>1. Len(p) \in Nat /\ Len(q) \in Nat
  BY LenProperties
<1>2. /\ p \o q \in Seq(Units) /\ Len(p \o q) = Len(p) + Len(q)
      /\ \A i \in 1..Len(p) + Len(q) : (p \o q)[i] = IF i <= Len(p) THEN p[i] ELSE q[i - Len(p)]
  BY ConcatProperties
<1>3. ASSUME NEW i \in 1..Len(p) + Len(q) PROVE (p \o q)[i] = <<s, e + i>>
  <2>1. CASE i <= Len(p)
    BY <1>1, <1>2, <2>1 DEF Follows
  <2>2. CASE ~(i <= Len(p))
    <3>1. i - Len(p) \in 1..Len(q) /\ e + Len(p) + (i - Len(p)) = e + i
      BY <1>1, <2>2
    <3>. QED
      BY <1>2, <2>2, <3>1 DEF Follows
  <2>. QED
    BY <2>1, <2>2
<1>. QED
  BY <1>2, <1>3 DEF Follows

\* The two parts a text is cut into.
LEMMA CutFollows ==
  ASSUME NEW s, NEW q \in Seq(Units), NEW e \in Nat, NEW k \in 0..Len(q), Follows(q, s, e)
  PROVE  /\ SubSeq(q, 1, k) \in Seq(Units) /\ SubSeq(q, k + 1, Len(q)) \in Seq(Units)
         /\ Len(SubSeq(q, 1, k)) = k /\ Len(SubSeq(q, k + 1, Len(q))) = Len(q) - k
         /\ \A i \in 1..k : SubSeq(q, 1, k)[i] = q[i]
         /\ \A i \in 1..Len(q) - k : SubSeq(q, k + 1, Len(q))[i] = q[k + i]
         /\ Follows(SubSeq(q, 1, k), s, e) /\ Follows(SubSeq(q, k + 1, Len(q)), s, e + k)
<1>1. Len(q) \in Nat /\ k \in Nat
  BY LenProperties
<1>2. /\ SubSeq(q, 1, k) \in Seq(Units) /\ SubSeq(q, k + 1, Len(q)) \in Seq(Units)
  BY <1>1, SubSeqSeq
<1>3. \A i \in 1..Len(q) : q[i] \in Units
  BY LenProperties
<1>4. Len(SubSeq(q, 1, k)) = k /\ \A i \in 1..k : SubSeq(q, 1, k)[i] = q[i]
  BY <1>1, <1>3, SubSeqProperties
<1>5. Len(SubSeq(q, k + 1, Len(q))) = Len(q) - k
      /\ \A i \in 1..Len(q) - k : SubSeq(q, k + 1, Len(q))[i] = q[k + i]
  BY <1>1, <1>3, SubSeqProperties
<1>6. Follows(SubSeq(q, 1, k), s, e)
  BY <1>1, <1>4 DEF Follows
<1>7. ASSUME NEW i \in 1..Len(q) - k PROVE SubSeq(q, k + 1, Len(q))[i] = <<s, e + k + i>>
  <2>1. k + i \in 1..Len(q) /\ e + (k + i) = e + k + i
    BY <1>1
  <2>. QED
    BY <1>5, <2>1 DEF Follows
<1>. QED
  BY <1>2, <1>4, <1>5, <1>6, <1>7 DEF Follows

\* What a read makes of an unfinished line and a chunk continues where the sink and the
\* unfinished line left off, and what did not decode in it came with the chunk or before.
LEMMA TextContinues ==
  ASSUME TypeOK, PipeHistory, NEW s \in Streams, s \notin errored, RingFull(s)
  PROVE  /\ Text(s) \in Seq(Units) /\ Len(Text(s)) = Len(pending[s]) + pipe[s]
         /\ Follows(Text(s), s, Len(ring[s]))
         /\ \A i \in 1..Len(Text(s)) : \/ \E j \in 1..Len(pending[s]) : Text(s)[i] = pending[s][j]
                                       \/ \E j \in 1..pipe[s] : Text(s)[i] = Chunk(s)[j]
<1>1. /\ pending[s] \in Seq(Units) /\ ring[s] \in Seq(Units)
      /\ pipe[s] \in Nat /\ written[s] \in Nat /\ pipe[s] <= written[s]
  BY JobAssumption DEF JobAssumption, TypeOK, ReaderTypeOK, JobTypeOK, PipeHistory
<1>2. Len(pending[s]) \in Nat /\ Len(ring[s]) \in Nat
  BY <1>1, LenProperties
<1>3. Chunk(s) \in Seq(Units) /\ Len(Chunk(s)) = pipe[s]
  <2>1. Chunk(s) \in Seq(Units)
    BY <1>1, ChunkSeq
  <2>2. DOMAIN Chunk(s) = 1..pipe[s]
    BY DEF Chunk
  <2>. QED
    BY <1>1, <2>1, <2>2, LenProperties
<1>4. Len(ring[s]) + Len(pending[s]) = written[s] - pipe[s]
      /\ Follows(pending[s], s, Len(ring[s]))
  <2>1. /\ Len(ring[s]) = written[s] - pipe[s] - Len(pending[s])
        /\ Follows(pending[s], s, Len(ring[s]))
    BY DEF RingFull
  <2>. QED
    BY <1>1, <1>2, <2>1
<1>5. Follows(Chunk(s), s, Len(ring[s]) + Len(pending[s]))
  BY <1>3, <1>4 DEF Follows, Chunk
<1>6. /\ Text(s) \in Seq(Units) /\ Len(Text(s)) = Len(pending[s]) + Len(Chunk(s))
      /\ Follows(Text(s), s, Len(ring[s]))
  BY <1>1, <1>2, <1>3, <1>4, <1>5, ConcatFollows DEF Text
<1>7. \A i \in 1..Len(Text(s)) : Text(s)[i] = IF i <= Len(pending[s]) THEN pending[s][i]
                                               ELSE Chunk(s)[i - Len(pending[s])]
  <2>1. \A i \in 1..Len(pending[s]) + Len(Chunk(s)) :
          (pending[s] \o Chunk(s))[i] = IF i <= Len(pending[s]) THEN pending[s][i]
                                        ELSE Chunk(s)[i - Len(pending[s])]
    BY <1>1, <1>3, ConcatProperties
  <2>. QED
    BY <1>6, <2>1 DEF Text
<1>8. ASSUME NEW i \in 1..Len(Text(s))
      PROVE  \/ \E j \in 1..Len(pending[s]) : Text(s)[i] = pending[s][j]
             \/ \E j \in 1..pipe[s] : Text(s)[i] = Chunk(s)[j]
  <2>1. CASE i <= Len(pending[s])
    BY <1>2, <1>7, <2>1
  <2>2. CASE ~(i <= Len(pending[s]))
    <3>1. i - Len(pending[s]) \in 1..pipe[s]
      BY <1>2, <1>3, <1>6, <2>2
    <3>. QED
      BY <1>7, <2>2, <3>1
  <2>. QED
    BY <2>1, <2>2
<1>. QED
  BY <1>3, <1>6, <1>8

\* A read takes what is in the pipe, emits the whole lines and keeps the rest.
LEMMA ReadChunkStep ==
  ASSUME Control, NEW s \in Streams, OnItsWay(s), ReadChunk(s)
  PROVE  OnItsWay(s)'
<1>. DEFINE n == Len(Text(s))  e == Len(ring[s])
<1>1. rd[s] = "read" /\ hand[s] = <<>> /\ s \notin eof \cup errored
  BY DEF ReadChunk, OnItsWay, Phases
<1>2. /\ Text(s) \in Seq(Units) /\ n = Len(pending[s]) + pipe[s] /\ Follows(Text(s), s, e)
      /\ \A i \in 1..n : \/ \E j \in 1..Len(pending[s]) : Text(s)[i] = pending[s][j]
                         \/ \E j \in 1..pipe[s] : Text(s)[i] = Chunk(s)[j]
  BY <1>1, TextContinues DEF Control, OnItsWay
<1>3. PICK k \in 0..n :
        /\ hand' = [hand EXCEPT ![s] = SubSeq(Text(s), 1, k)]
        /\ pending' = [pending EXCEPT ![s] = SubSeq(Text(s), k + 1, n)]
        /\ ring' = [ring EXCEPT ![s] = @ \o SubSeq(Text(s), 1, k)]
        /\ rd' = [rd EXCEPT ![s] = IF k = 0 THEN "read" ELSE "acquire"]
  BY DEF ReadChunk
<1>4. /\ hand'[s] = SubSeq(Text(s), 1, k) /\ pending'[s] = SubSeq(Text(s), k + 1, n)
      /\ ring'[s] = ring[s] \o SubSeq(Text(s), 1, k)
      /\ rd'[s] = IF k = 0 THEN "read" ELSE "acquire"
  BY <1>3 DEF Control, TypeOK, ReaderTypeOK
<1>5. /\ UNCHANGED <<written, holders, eof, errored, replaced, closed, failed, mode, file>>
      /\ UNCHANGED <<threads, stillOpen>>
      /\ pipe'[s] = 0
  BY DEF ReadChunk, mainVars, jobVars, diskVars, Control, TypeOK, JobTypeOK
<1>6. /\ n \in Nat /\ e \in Nat /\ ring[s] \in Seq(Units) /\ k \in Nat
      /\ Len(pending[s]) \in Nat /\ pipe[s] \in Nat /\ written[s] \in Nat
      /\ e = written[s] - pipe[s] - Len(pending[s]) /\ Follows(ring[s], s, 0)
  BY <1>1, <1>2, LenProperties DEF Control, TypeOK, ReaderTypeOK, JobTypeOK, OnItsWay, RingFull
<1>7. /\ hand'[s] \in Seq(Units) /\ Len(hand'[s]) = k /\ Len(pending'[s]) = n - k
      /\ \A i \in 1..k : hand'[s][i] = Text(s)[i]
      /\ \A i \in 1..n - k : pending'[s][i] = Text(s)[k + i]
      /\ Follows(hand'[s], s, e) /\ Follows(pending'[s], s, e + k)
  <2>1. k \in 0..Len(Text(s)) /\ e \in Nat /\ Text(s) \in Seq(Units) /\ Follows(Text(s), s, e)
    BY <1>2, <1>3, <1>6
  <2>2. SubSeq(Text(s), 1, k) \in Seq(Units) /\ Len(SubSeq(Text(s), 1, k)) = k
    BY ONLY <2>1, CutFollows
  <2>3. Len(SubSeq(Text(s), k + 1, n)) = n - k
    BY ONLY <2>1, CutFollows
  <2>4. \A i \in 1..k : SubSeq(Text(s), 1, k)[i] = Text(s)[i]
    BY ONLY <2>1, CutFollows
  <2>5. \A i \in 1..n - k : SubSeq(Text(s), k + 1, n)[i] = Text(s)[k + i]
    BY ONLY <2>1, CutFollows
  <2>6. Follows(SubSeq(Text(s), 1, k), s, e) /\ Follows(SubSeq(Text(s), k + 1, n), s, e + k)
    BY ONLY <2>1, CutFollows
  <2>. QED
    BY <1>4, <2>2, <2>3, <2>4, <2>5, <2>6
<1>8. Len(ring'[s]) = e + k /\ Follows(ring'[s], s, 0)
  <2>1. 0 + e = e
    BY <1>6
  <2>2. Follows(hand'[s], s, 0 + Len(ring[s]))
    BY <1>7, <2>1
  <2>3. Len(ring[s] \o hand'[s]) = Len(ring[s]) + Len(hand'[s]) /\ Follows(ring[s] \o hand'[s], s, 0)
    <3>1. ring[s] \in Seq(Units) /\ hand'[s] \in Seq(Units) /\ Follows(ring[s], s, 0)
      BY <1>6, <1>7
    <3>. QED
      BY ONLY <2>2, <3>1, ConcatFollows
  <2>. QED
    BY <1>4, <1>7, <2>3
<1>9. Emitted(s)' = e /\ Emitted(s) = e /\ Logged(s)' = e /\ Logged(s) = e
  BY <1>1, <1>4, <1>6, <1>7, <1>8 DEF Emitted, Logged
<1>10. \A m \in Logs : Kept(m, s)' = Kept(m, s) /\ (InOrder(m, s) => InOrder(m, s)')
  BY <1>5, SameFileSameUnits DEF SameUnits
<1>11. Gapless(s)' /\ Agrees(s)' /\ Ordered(s)'
  BY <1>1, <1>4, <1>5, <1>10 DEF OnItsWay, Gapless, Agrees, Between, Ordered, Logs
<1>12. Phases(s)'
  <2>1. k = 0 => hand'[s] = <<>>
    BY <1>7, EmptySeq
  <2>. QED
    BY <1>1, <1>4, <1>5, <2>1 DEF OnItsWay, Phases
<1>13. RingFull(s)'
  <2>1. e + k = written'[s] - pipe'[s] - (n - k) /\ k <= e + k
    BY <1>2, <1>5, <1>6
  <2>. QED
    BY <1>7, <1>8, <1>9, <2>1 DEF RingFull
<1>14. Flow(s)'
  BY <1>5, <1>9, <1>10 DEF OnItsWay, Flow, Working, Logs
<1>15. BadKnown(s)'
  <2>1. undecoded \subseteq undecoded' /\ \A i \in 1..pipe[s] : Chunk(s)[i] \in Bad => s \in undecoded'
    BY DEF ReadChunk
  <2>2. \A i \in 1..n : Text(s)[i] \in Bad => s \in undecoded'
    BY <1>2, <2>1 DEF OnItsWay, BadKnown
  <2>3. \A i \in 1..k : hand'[s][i] \in Bad => s \in undecoded'
    <3>1. \A i \in 1..k : i \in 1..n
      BY <1>6
    <3>. QED
      BY <1>7, <2>2, <3>1
  <2>4. \A i \in 1..n - k : pending'[s][i] \in Bad => s \in undecoded'
    <3>1. \A i \in 1..n - k : k + i \in 1..n
      BY <1>6
    <3>. QED
      BY <1>7, <2>2, <3>1
  <2>. QED
    BY <1>4, <1>7, <1>10, <2>1, <2>3, <2>4 DEF OnItsWay, BadKnown, Logs
<1>. QED
  BY <1>11, <1>12, <1>13, <1>14, <1>15 DEF OnItsWay

\* At the end of the pipe the unfinished line is emitted as it is.
LEMMA ReadEofStep ==
  ASSUME Control, NEW s \in Streams, OnItsWay(s), ReadEof(s)
  PROVE  OnItsWay(s)'
<1>. DEFINE n == Len(pending[s])  e == Len(ring[s])
<1>1. rd[s] = "read" /\ hand[s] = <<>> /\ s \notin eof \cup errored
  BY DEF ReadEof, OnItsWay, Phases
<1>2. /\ hand'[s] = pending[s] /\ pending'[s] = <<>> /\ ring'[s] = ring[s] \o pending[s]
      /\ rd'[s] = IF pending[s] = <<>> THEN "finally" ELSE "acquire"
      /\ eof' = eof \cup {s}
  BY DEF ReadEof, Control, TypeOK, ReaderTypeOK
<1>3. /\ UNCHANGED <<written, pipe, holders, errored, undecoded, replaced, closed, failed, mode>>
      /\ UNCHANGED <<file, threads, stillOpen>>
      /\ pipe[s] = 0 /\ s \notin holders
  BY DEF ReadEof, WriteEndClosed, mainVars, childVars, jobVars, diskVars
<1>4. /\ n \in Nat /\ e \in Nat /\ ring[s] \in Seq(Units) /\ pending[s] \in Seq(Units)
      /\ written[s] \in Nat
      /\ e = written[s] - pipe[s] - n
      /\ Follows(ring[s], s, 0) /\ Follows(pending[s], s, e)
  BY <1>1, LenProperties DEF Control, TypeOK, ReaderTypeOK, JobTypeOK, OnItsWay, RingFull
<1>5. Len(ring'[s]) = e + n /\ Follows(ring'[s], s, 0)
  <2>1. 0 + e = e
    BY <1>4
  <2>2. Follows(pending[s], s, 0 + Len(ring[s]))
    BY <1>4, <2>1
  <2>3. /\ Len(ring[s] \o pending[s]) = Len(ring[s]) + Len(pending[s])
        /\ Follows(ring[s] \o pending[s], s, 0)
    BY <1>4, <2>2, ConcatFollows
  <2>. QED
    BY <1>2, <2>3
<1>6. Emitted(s)' = e /\ Emitted(s) = e /\ Logged(s)' = e /\ Logged(s) = e
  BY <1>1, <1>2, <1>4, <1>5 DEF Emitted, Logged
<1>7. \A m \in Logs : Kept(m, s)' = Kept(m, s) /\ (InOrder(m, s) => InOrder(m, s)')
  BY <1>3, SameFileSameUnits DEF SameUnits
<1>8. Gapless(s)' /\ Agrees(s)' /\ Ordered(s)'
  BY <1>1, <1>2, <1>3, <1>7 DEF OnItsWay, Gapless, Agrees, Between, Ordered, Logs
<1>9. Phases(s)'
  BY <1>1, <1>2, <1>3 DEF OnItsWay, Phases
<1>10. RingFull(s)'
  <2>1. e + n = written'[s] - pipe'[s] - 0 /\ n <= e + n
    BY <1>3, <1>4
  <2>2. Len(pending'[s]) = 0 /\ Follows(pending'[s], s, e + n)
    BY <1>2 DEF Follows
  <2>. QED
    BY <1>2, <1>4, <1>5, <1>6, <2>1, <2>2 DEF RingFull
<1>11. Flow(s)'
  BY <1>3, <1>6, <1>7 DEF OnItsWay, Flow, Working, Logs
<1>12. BadKnown(s)'
  BY <1>2, <1>3, <1>4, <1>7 DEF OnItsWay, BadKnown, Logs
<1>. QED
  BY <1>8, <1>9, <1>10, <1>11, <1>12 DEF OnItsWay

\* After the sink was closed the lines in hand are dropped; nobody counts on them.
LEMMA SinkDropStep ==
  ASSUME Control, NEW s \in Streams, OnItsWay(s), SinkDrop(s)
  PROVE  OnItsWay(s)'
<1>1. closed /\ rd[s] = "acquire" /\ s \notin errored /\ ~Working(s)
  BY DEF SinkDrop, Accepting, Control, Closing, OnItsWay, Phases, Working
<1>2. hand'[s] = <<>> /\ rd'[s] = AfterEmit(s)
  BY DEF SinkDrop, Control, TypeOK, ReaderTypeOK
<1>3. /\ UNCHANGED <<written, pipe, holders, pending, ring, eof, errored, undecoded, replaced>>
      /\ UNCHANGED <<closed, failed, mode, file, threads, stillOpen>>
  BY DEF SinkDrop, mainVars, childVars, jobVars, flagVars, diskVars
<1>4. \A m \in Logs : Kept(m, s)' = Kept(m, s) /\ (InOrder(m, s) => InOrder(m, s)')
  BY <1>3, SameFileSameUnits DEF SameUnits
<1>5. Gapless(s)' /\ Agrees(s)' /\ Ordered(s)'
  BY <1>1, <1>2, <1>3, <1>4 DEF OnItsWay, Gapless, Agrees, Between, AfterEmit, Ordered, Logs
<1>6. Phases(s)'
  BY <1>1, <1>2, <1>3 DEF OnItsWay, Phases, AfterEmit
<1>7. RingFull(s)'
  <2>1. Len(ring[s]) \in Nat /\ Len(hand'[s]) = 0
    BY <1>2, LenProperties DEF Control, TypeOK, ReaderTypeOK
  <2>. QED
    BY <1>1, <1>3, <2>1 DEF OnItsWay, RingFull, Follows
<1>8. Flow(s)'
  BY <1>1, <1>3 DEF Flow, Working
<1>9. BadKnown(s)'
  BY <1>2, <1>3, <1>4 DEF OnItsWay, BadKnown, AfterEmit, Logs
<1>. QED
  BY <1>5, <1>6, <1>7, <1>8, <1>9 DEF OnItsWay

\* Taking the lock moves nothing.
LEMMA SinkAcquireStep ==
  ASSUME Control, NEW s \in Streams, OnItsWay(s), SinkAcquire(s)
  PROVE  OnItsWay(s)'
<1>1. rd[s] = "acquire" /\ rd'[s] = "own"
  BY DEF SinkAcquire, Control, TypeOK, ReaderTypeOK
<1>2. /\ UNCHANGED <<written, pipe, holders, hand, pending, ring, eof, errored, undecoded>>
      /\ UNCHANGED <<replaced, closed, failed, mode, file, threads, stillOpen>>
  BY DEF SinkAcquire, mainVars, childVars, jobVars, lineVars, flagVars
<1>3. \A m \in Logs : Kept(m, s)' = Kept(m, s) /\ (InOrder(m, s) => InOrder(m, s)')
  BY <1>2, SameFileSameUnits DEF SameUnits
<1>4. Gapless(s)' /\ Agrees(s)' /\ Ordered(s)'
  BY <1>1, <1>2, <1>3 DEF OnItsWay, Gapless, Agrees, Between, Ordered, Logs
<1>5. Phases(s)' /\ BadKnown(s)'
  BY <1>1, <1>2, <1>3 DEF OnItsWay, Phases, BadKnown, Logs
<1>6. Emitted(s)' = Emitted(s) /\ Logged(s)' = Logged(s)
  BY <1>1, <1>2 DEF Emitted, Logged
<1>7. RingFull(s)' /\ Flow(s)'
  BY <1>2, <1>3, <1>6 DEF OnItsWay, RingFull, Flow, Working, Logs
<1>. QED
  BY <1>4, <1>5, <1>7 DEF OnItsWay

\* An error, the draining after it, and the end of the thread.
LEMMA LeavingStep ==
  ASSUME Control, NEW s \in Streams, OnItsWay(s), ReaderFails(s) \/ Drain(s) \/ ReaderEnds(s)
  PROVE  OnItsWay(s)'
<1>1. rd[s] \in {"read", "drain", "finally"} /\ rd'[s] \in {"drain", "finally", "done"}
      /\ hand[s] = <<>>
  BY DEF ReaderFails, AfterError, Drain, ReaderEnds, OnItsWay, Phases, Control, TypeOK,
     ReaderTypeOK
<1>2. /\ UNCHANGED <<written, holders, hand, pending, ring, eof, undecoded>>
      /\ UNCHANGED <<closed, failed, mode, file, threads, stillOpen>>
  BY DEF ReaderFails, Drain, ReaderEnds, mainVars, childVars, jobVars, lineVars, flagVars,
     diskVars
<1>3. s \in errored' \/ (UNCHANGED <<errored, pipe[s]>> /\ s \in eof)
  <2>1. CASE ReaderFails(s)
    BY <2>1 DEF ReaderFails, RecordError
  <2>2. CASE Drain(s)
    BY <2>2 DEF Drain, flagVars, OnItsWay, Phases, Control, TypeOK, JobTypeOK
  <2>3. CASE ReaderEnds(s)
    BY <2>3 DEF ReaderEnds, childVars, OnItsWay, Phases
  <2>. QED
    BY <2>1, <2>2, <2>3
<1>4. s \notin errored' => s \notin errored
  BY DEF ReaderFails, RecordError, Drain, ReaderEnds, flagVars
<1>5. rd'[s] = "done" /\ s \in undecoded => s \in replaced'
  BY <1>1 DEF ReaderFails, AfterError, Drain, ReaderEnds, Counted, Control, TypeOK, ReaderTypeOK
<1>6. \A m \in Logs : Kept(m, s)' = Kept(m, s) /\ (InOrder(m, s) => InOrder(m, s)')
  BY <1>2, SameFileSameUnits DEF SameUnits
<1>7. Gapless(s)' /\ Agrees(s)' /\ Ordered(s)'
  BY <1>1, <1>2, <1>6 DEF OnItsWay, Gapless, Agrees, Between, Ordered, Logs
<1>8. Phases(s)'
  <2>1. s \in eof => rd[s] # "read" /\ pipe'[s] = pipe[s]
    BY DEF ReaderFails, Drain, ReaderEnds, childVars, OnItsWay, Phases, Control, TypeOK, JobTypeOK
  <2>. QED
    BY <1>1, <1>2, <1>3, <2>1 DEF OnItsWay, Phases
<1>9. Emitted(s)' = Emitted(s) /\ Logged(s)' = Logged(s)
  BY <1>1, <1>2 DEF Emitted, Logged
<1>10. RingFull(s)' /\ Flow(s)'
  BY <1>2, <1>3, <1>4, <1>6, <1>9 DEF OnItsWay, RingFull, Flow, Working, Logs
<1>11. BadKnown(s)'
  BY <1>2, <1>5, <1>6 DEF OnItsWay, BadKnown, Logs
<1>. QED
  BY <1>7, <1>8, <1>10, <1>11 DEF OnItsWay

\* What a piece does to the logs: it is appended, or the log has failed, or nobody sees it.
LEMMA PutLog ==
  ASSUME DiskTypeOK, NEW l \in Logs, NEW s \in Streams, NEW n \in Nat, Put(l, <<s, n>>),
         \A k \in Kept(l, s) : k < n
  PROVE  /\ \A m \in Logs : InOrder(m, s) => InOrder(m, s)'
         /\ \A m \in Logs \ {l} : Kept(m, s)' = Kept(m, s)
         /\ failed' = failed \/ failed' = failed \cup {l}
         /\ \/ mode = "disk" /\ Kept(l, s)' = Kept(l, s) \cup {n}
            \/ (mode # "disk" \/ l \in failed') /\ Kept(l, s)' = Kept(l, s)
<1>1. failed' = failed \/ failed' = failed \cup {l}
  BY DEF Put
<1>2. CASE mode = "disk" /\ file' = Appended(l, <<s, n>>)
  <2>1. <<s, n>> \in Entries
    BY DEF Entries, Units
  <2>2. \A m \in Logs : Kept(m, s)' = IF m = l THEN Kept(m, s) \cup {n} ELSE Kept(m, s)
    BY <1>2, <2>1, KeptAppend
  <2>3. \A m \in Logs : InOrder(m, s) => InOrder(m, s)'
    BY <1>2, <2>1, OrderAppend
  <2>. QED
    BY <1>1, <1>2, <2>2, <2>3
<1>3. CASE ~(mode = "disk" /\ file' = Appended(l, <<s, n>>))
  <2>1. UNCHANGED file /\ (mode # "disk" \/ l \in failed')
    BY <1>3 DEF Put, Appended
  <2>2. \A m \in Logs : Kept(m, s)' = Kept(m, s) /\ (InOrder(m, s) => InOrder(m, s)')
    BY <2>1, SameFileSameUnits DEF SameUnits
  <2>. QED
    BY <1>1, <2>1, <2>2
<1>. QED
  BY <1>2, <1>3

\* The first piece of a line: the stream's own log is ahead by it.
LEMMA WriteOwnStep ==
  ASSUME Control, NEW s \in Streams, OnItsWay(s), WriteOwn(s)
  PROVE  OnItsWay(s)'
<1>. DEFINE e == Emitted(s)
<1>1. rd[s] = "own" /\ rd'[s] = "comb"
  BY DEF WriteOwn, Control, TypeOK, ReaderTypeOK
<1>2. /\ Working(s) /\ s \notin errored /\ hand[s] # <<>> /\ Head(hand[s]) = <<s, e + 1>>
      /\ e \in Nat /\ e + 1 <= written[s] /\ hand[s] \in Seq(Units)
  BY <1>1, WriterWorks
<1>3. /\ UNCHANGED <<written, pipe, holders, hand, pending, ring, eof, errored, undecoded>>
      /\ UNCHANGED <<replaced, closed, mode, threads, stillOpen>>
  BY DEF WriteOwn, mainVars, childVars, jobVars, lineVars, flagVars
<1>4. /\ Kept(s, s) \subseteq 1..e /\ Kept("combined", s) \subseteq 1..e
      /\ mode = "disk" /\ s \notin failed => Kept(s, s) = 1..e
  BY <1>1, <1>2 DEF OnItsWay, Flow, Logged
<1>5. Emitted(s)' = e /\ Logged(s)' = e + 1
  BY <1>1, <1>3 DEF Emitted, Logged
<1>6. /\ \A m \in Logs : InOrder(m, s) => InOrder(m, s)'
      /\ Kept("combined", s)' = Kept("combined", s)
      /\ failed' = failed \/ failed' = failed \cup {s}
      /\ \/ mode = "disk" /\ Kept(s, s)' = Kept(s, s) \cup {e + 1}
         \/ (mode # "disk" \/ s \in failed') /\ Kept(s, s)' = Kept(s, s)
  <2>1. Put(s, <<s, e + 1>>) /\ e + 1 \in Nat /\ \A k \in Kept(s, s) : k < e + 1
    BY <1>2, <1>4 DEF WriteOwn
  <2>. QED
    BY <2>1, PutLog DEF Control, TypeOK, Logs, Streams
<1>7. s \notin failed' /\ mode = "disk" => Kept(s, s)' = 1..e + 1
  <2>1. \A E \in Nat : 1..E \cup {E + 1} = 1..E + 1
    OBVIOUS
  <2>2. s \notin failed' /\ mode = "disk" => Kept(s, s)' = 1..e \cup {e + 1}
    BY <1>4, <1>6
  <2>. QED
    BY <1>2, <2>1, <2>2
<1>8. Kept(s, s)' \subseteq 1..e + 1
  BY <1>2, <1>4, <1>6
<1>9. Gapless(s)'
  <2>1. CASE mode = "disk"
    BY <1>2, <1>3, <1>6, <1>7, <2>1 DEF OnItsWay, Gapless, Logs, Control, TypeOK, JobTypeOK
  <2>2. CASE mode # "disk"
    BY <1>3, <1>6, <2>2 DEF OnItsWay, Gapless, Logs
  <2>. QED
    BY <2>1, <2>2
<1>10. Agrees(s)'
  <2>. SUFFICES ASSUME mode' = "disk", {s, "combined"} \cap failed' = {}
                PROVE  InOrder("combined", s)' /\ Kept("combined", s)' = Kept(s, s)' \ Between(s)'
    BY DEF Agrees
  <2>1. Between(s) = {} /\ Between(s)' = {e + 1}
    BY <1>1, <1>2, <1>3 DEF Between
  <2>2. Kept("combined", s) = Kept(s, s) /\ InOrder("combined", s)
    BY <1>3, <1>6, <2>1 DEF OnItsWay, Agrees
  <2>3. Kept(s, s)' = Kept(s, s) \cup {e + 1} /\ e + 1 \notin Kept(s, s)
    BY <1>2, <1>3, <1>4, <1>6
  <2>. QED
    BY <1>6, <2>1, <2>2, <2>3 DEF Logs
<1>11. Phases(s)'
  BY <1>1, <1>3 DEF OnItsWay, Phases
<1>12. RingFull(s)'
  BY <1>3, <1>5 DEF OnItsWay, RingFull
<1>13. Flow(s)'
  BY <1>2, <1>3, <1>4, <1>5, <1>6, <1>7, <1>8 DEF Flow
<1>14. Ordered(s)'
  BY <1>6 DEF OnItsWay, Ordered, Logs
<1>15. BadKnown(s)'
  <2>1. <<s, e + 1>> \in Bad => s \in undecoded
    <3>1. hand[s][1] = <<s, e + 1>> /\ 1 \in 1..Len(hand[s])
      BY <1>2, EmptySeq
    <3>. QED
      BY <3>1 DEF OnItsWay, BadKnown
  <2>. QED
    BY <1>1, <1>3, <1>6, <2>1 DEF OnItsWay, BadKnown
<1>. QED
  BY <1>9, <1>10, <1>11, <1>12, <1>13, <1>14, <1>15 DEF OnItsWay

\* The second piece: combined.log catches up, and the line is out of hand.
LEMMA WriteCombinedStep ==
  ASSUME Control, NEW s \in Streams, OnItsWay(s), WriteCombined(s)
  PROVE  OnItsWay(s)'
<1>. DEFINE e == Emitted(s)
<1>1. rd[s] = "comb" /\ hand'[s] = Tail(hand[s])
      /\ rd'[s] = IF Tail(hand[s]) = <<>> THEN AfterEmit(s) ELSE "own"
  BY DEF WriteCombined, Control, TypeOK, ReaderTypeOK
<1>2. /\ Working(s) /\ s \notin errored /\ hand[s] # <<>> /\ Head(hand[s]) = <<s, e + 1>>
      /\ e \in Nat /\ hand[s] \in Seq(Units)
  BY <1>1, WriterWorks
<1>3. /\ UNCHANGED <<written, pipe, holders, pending, ring, eof, errored, undecoded>>
      /\ UNCHANGED <<replaced, closed, mode, threads, stillOpen>>
  BY DEF WriteCombined, mainVars, childVars, jobVars, flagVars
<1>4. /\ Kept(s, s) \subseteq 1..e + 1 /\ Kept("combined", s) \subseteq 1..e
      /\ mode = "disk" /\ s \notin failed => Kept(s, s) = 1..e + 1
  BY <1>1, <1>2 DEF OnItsWay, Flow, Logged
<1>5. /\ Len(hand[s]) \in Nat \ {0} /\ Len(hand'[s]) = Len(hand[s]) - 1
      /\ \A i \in 1..Len(hand'[s]) : hand'[s][i] = hand[s][i + 1]
      /\ Len(ring[s]) \in Nat
  BY <1>1, <1>2, EmptySeq, HeadTailProperties, LenProperties DEF Control, TypeOK, ReaderTypeOK
<1>6. Emitted(s)' = e + 1 /\ Logged(s)' = e + 1
  <2>1. Len(ring'[s]) - (Len(hand[s]) - 1) = Len(ring[s]) - Len(hand[s]) + 1
    BY <1>3, <1>5
  <2>2. Emitted(s)' = e + 1 /\ rd'[s] # "comb"
    BY <1>1, <1>5, <2>1 DEF Emitted, AfterEmit
  <2>. QED
    BY <2>2 DEF Logged
<1>7. /\ \A m \in Logs : InOrder(m, s) => InOrder(m, s)'
      /\ Kept(s, s)' = Kept(s, s)
      /\ failed' = failed \/ failed' = failed \cup {"combined"}
      /\ \/ mode = "disk" /\ Kept("combined", s)' = Kept("combined", s) \cup {e + 1}
         \/ /\ mode # "disk" \/ "combined" \in failed'
            /\ Kept("combined", s)' = Kept("combined", s)
  <2>1. Put("combined", <<s, e + 1>>) /\ e + 1 \in Nat /\ \A k \in Kept("combined", s) : k < e + 1
    BY <1>2, <1>4 DEF WriteCombined
  <2>. QED
    BY <2>1, PutLog DEF Control, TypeOK, Logs, Streams
<1>8. s \notin failed' <=> s \notin failed
  BY <1>7 DEF Streams
<1>9. Gapless(s)'
  BY <1>3, <1>7, <1>8 DEF OnItsWay, Gapless, Logs
<1>10. Agrees(s)'
  <2>. SUFFICES ASSUME mode' = "disk", {s, "combined"} \cap failed' = {}
                PROVE  InOrder("combined", s)' /\ Kept("combined", s)' = Kept(s, s)' \ Between(s)'
    BY DEF Agrees
  <2>1. Between(s) = {e + 1} /\ Between(s)' = {}
    BY <1>1, <1>2 DEF Between, AfterEmit
  <2>2. Kept("combined", s) = Kept(s, s) \ {e + 1} /\ InOrder("combined", s)
    BY <1>3, <1>7, <2>1 DEF OnItsWay, Agrees
  <2>3. Kept("combined", s)' = Kept("combined", s) \cup {e + 1} /\ e + 1 \in Kept(s, s)
    BY <1>2, <1>3, <1>4, <1>7, <1>8
  <2>. QED
    BY <1>7, <2>1, <2>2, <2>3 DEF Logs
<1>11. Phases(s)'
  BY <1>1, <1>2, <1>3 DEF OnItsWay, Phases, AfterEmit
<1>12. RingFull(s)'
  <2>1. Follows(hand[s], s, e) /\ Len(hand[s]) <= Len(ring[s])
    BY <1>2 DEF OnItsWay, RingFull
  <2>2. ASSUME NEW i \in 1..Len(hand'[s]) PROVE hand'[s][i] = <<s, e + 1 + i>>
    <3>1. i + 1 \in 1..Len(hand[s])
      BY <1>5
    <3>2. e + (i + 1) = e + 1 + i
      BY <1>2
    <3>. QED
      BY <1>5, <2>1, <3>1, <3>2 DEF Follows
  <2>3. Follows(hand'[s], s, e + 1) /\ Len(hand'[s]) <= Len(ring[s])
    BY <1>5, <2>1, <2>2 DEF Follows
  <2>. QED
    BY <1>2, <1>3, <1>6, <2>3 DEF OnItsWay, RingFull
<1>13. Flow(s)'
  <2>1. Kept("combined", s)' \subseteq 1..e + 1
    BY <1>2, <1>4, <1>7
  <2>. QED
    BY <1>2, <1>3, <1>4, <1>6, <1>7, <1>8, <2>1 DEF Flow
<1>14. Ordered(s)'
  BY <1>7 DEF OnItsWay, Ordered, Logs
<1>15. BadKnown(s)'
  <2>1. \A i \in 1..Len(hand'[s]) : i + 1 \in 1..Len(hand[s]) /\ hand'[s][i] = hand[s][i + 1]
    BY <1>5
  <2>2. rd'[s] # "done"
    BY <1>1 DEF AfterEmit
  <2>. QED
    BY <1>3, <1>7, <2>1, <2>2 DEF OnItsWay, BadKnown
<1>. QED
  BY <1>9, <1>10, <1>11, <1>12, <1>13, <1>14, <1>15 DEF OnItsWay

\* Each step keeps every unit on its way.
LEMMA UnitsStep ==
  ASSUME Control, [Next]_vars, \A s \in Streams : OnItsWay(s)
  PROVE  \A s \in Streams : OnItsWay(s)'
<1>. SUFFICES ASSUME NEW s \in Streams PROVE OnItsWay(s)'
  OBVIOUS
<1>1. OnItsWay(s) /\ Phases(s) /\ TypeOK /\ TypeOK'
  BY ControlStep DEF OnItsWay, Control
<1>2. CASE OpenLogs
  BY <1>1, <1>2, LogsOpened
<1>3. CASE Reader(s)
  BY <1>1, <1>3, ReadChunkStep, ReadEofStep, SinkDropStep, SinkAcquireStep, WriteOwnStep,
     WriteCombinedStep, LeavingStep DEF Reader
<1>4. ASSUME NEW t \in Streams \ {s}, Reader(t) PROVE OnItsWay(s)'
  BY <1>1, <1>4, OtherReaderLeaves, UntouchedStays
<1>5. CASE ~OpenLogs /\ \A t \in Streams : ~Reader(t)
  BY <1>1, <1>5, OthersLeaveUnits, UntouchedStays
<1>. QED
  BY <1>2, <1>3, <1>4, <1>5

-----------------------------------------------------------------------------
(* The wrapper's own lines.                                                *)

\* Once the wrapper has put a line of its own between a stream's units, it stays so.
LEMMA SpoiltStays ==
  ASSUME Control, [Next]_vars, Unspoilt'
  PROVE  Unspoilt /\ (pc = "open" => OpenLogs \/ pc' = "open")
<1>1. CASE Main
  <2>1. exitCode = -99 => exitCode' = -99
    BY <1>1 DEF Control, LastWord, Ended, Calling, Main, OpenLogs, Popen, PopenFails, LogAcquire,
       LogAppend, StartReader, AppendThread, WaitChild, JoinReaders, JoinNext, Settle,
       KillTimedOut, AwaitKilled, TimedOut, StopChild, LauncherError, InterruptedKill,
       InterruptedLog, FindStillOpen, CloseSink, CollectNotes, Finish, resultVars
  <2>2. CASE OpenLogs
    BY <1>1, <2>1, <2>2 DEF OpenLogs, Unspoilt, Control, HeaderKept
  <2>3. CASE Popen
    BY <1>1, <2>1, <2>3 DEF Popen, Unspoilt
  <2>4. CASE ~OpenLogs /\ ~Popen
    <3>1. pc # "open"
      BY <1>1, <2>4 DEF Main, PopenFails, LogAcquire, LogAppend, StartReader, AppendThread,
         WaitChild, JoinReaders, JoinNext, Settle, KillTimedOut, AwaitKilled, TimedOut, StopChild,
         LauncherError, InterruptedKill, InterruptedLog, FindStillOpen, CloseSink, CollectNotes,
         Finish
    <3>2. UNCHANGED child
      BY <1>1, <2>4 DEF Main, PopenFails, LogAcquire, LogAppend, StartReader, AppendThread,
         WaitChild, JoinReaders, Settle, KillTimedOut, AwaitKilled, TimedOut, StopChild,
         LauncherError, InterruptedKill, InterruptedLog, FindStillOpen, CloseSink, CollectNotes,
         Finish, otherVars, childVars, jobVars
    <3>3. pc' \notin {"open", "popen"}
      <4>1. CASE JoinReaders
        BY <4>1 DEF JoinReaders, JoinNext
      <4>2. CASE ~JoinReaders
        BY <1>1, <2>4, <4>2 DEF Main, PopenFails, LogAcquire, LogAppend, StartReader, AppendThread,
           WaitChild, Settle, KillTimedOut, Kill, AwaitKilled, TimedOut, StopChild, LauncherError,
           InterruptedKill, InterruptedLog, FindStillOpen, CloseSink, CollectNotes, Finish, Log,
           Control, WorkInHand, Calling
      <4>. QED
        BY <4>1, <4>2
    <3>. QED
      BY <2>1, <3>1, <3>2, <3>3 DEF Unspoilt
  <2>. QED
    BY <2>2, <2>3, <2>4
<1>2. ASSUME NEW t \in Streams, Reader(t) PROVE UNCHANGED <<pc, child, exitCode>>
  BY <1>2, ReaderFrame DEF mainVars
<1>3. CASE Child \/ Environment \/ UNCHANGED vars
  <2>1. UNCHANGED exitCode
    BY <1>3, OtherLocals DEF resultVars
  <2>2. CASE InterruptPopen
    BY <2>1, <2>2 DEF InterruptPopen, Unspoilt
  <2>3. CASE ~InterruptPopen
    <3>1. child' = child \/ (child = "running" /\ child' = "exited")
      BY <1>3, <2>3, GoesOnByItself DEF JobGoesOn, Control
    <3>2. UNCHANGED pc \/ pc' \in {"ki", "crashed", "escaped"}
      BY <1>3, OtherStep DEF Interrupt
    <3>. QED
      BY <2>1, <3>1, <3>2 DEF Unspoilt, Control, HeaderKept
  <2>. QED
    BY <2>2, <2>3
<1>. QED
  BY <1>1, <1>2, <1>3 DEF Next, Unspoilt

\* What is still to be written is for combined.log alone.
LEMMA CallsStep ==
  ASSUME Control, [Next]_vars, Unspoilt, Unspoilt', Calling',
         Calling => \A i \in 1..Len(todo) : todo[i][1] = "combined"
  PROVE  \A i \in 1..Len(todo') : todo'[i][1] = "combined"
<1>1. CASE LogAppend
  <2>1. Calling /\ todo # <<>> /\ todo \in Seq(Logs \X ({"sys"} \X SysLines)) /\ todo' = Tail(todo)
    BY <1>1 DEF LogAppend, Calling, Control, WorkInHand, TypeOK, MainTypeOK
  <2>2. /\ Len(todo) \in Nat /\ Len(todo') = Len(todo) - 1
        /\ \A i \in 1..Len(todo') : todo'[i] = todo[i + 1]
    BY <2>1, HeadTailProperties, LenProperties
  <2>3. \A i \in 1..Len(todo') : i + 1 \in 1..Len(todo)
    BY <2>2
  <2>. QED
    BY <2>1, <2>2, <2>3
<1>2. CASE Popen \/ TimedOut \/ InterruptedLog \/ Finish
  <2>1. PICK what \in SysLines : todo' = <<<<"combined", Sys(what)>>>>
    BY <1>2 DEF Popen, TimedOut, InterruptedLog, Finish, Log, SysLines
  <2>. QED
    BY <2>1
<1>3. CASE PopenFails \/ LauncherError
  BY <1>3 DEF PopenFails, LauncherError, Log, otherVars, childVars, jobVars, Control, ReadToTheEnd,
     Unspoilt
<1>4. CASE Main /\ ~(LogAppend \/ Popen \/ TimedOut \/ InterruptedLog \/ Finish \/ PopenFails \/ LauncherError)
  <2>1. UNCHANGED todo
    BY <1>4 DEF Main, OpenLogs, LogAcquire, StartReader, AppendThread, WaitChild, JoinReaders,
       Settle, KillTimedOut, AwaitKilled, StopChild, InterruptedKill, FindStillOpen, CloseSink,
       CollectNotes, localVars
  <2>2. Calling
    <3>1. ~JoinReaders
      BY DEF JoinReaders, JoinNext, Calling
    <3>. QED
      BY <1>4, <3>1 DEF Main, OpenLogs, LogAcquire, StartReader, AppendThread, WaitChild, Settle,
         KillTimedOut, Kill, AwaitKilled, StopChild, InterruptedKill, FindStillOpen, CloseSink,
         CollectNotes, Calling
  <2>. QED
    BY <2>1, <2>2
<1>5. ASSUME NEW t \in Streams, Reader(t) PROVE UNCHANGED <<pc, todo>>
  BY <1>5, ReaderFrame DEF mainVars
<1>6. CASE Child \/ Environment \/ UNCHANGED vars
  BY <1>6, OtherStep DEF Interrupt, Calling
<1>. QED
  BY <1>1, <1>2, <1>3, <1>4, <1>5, <1>6 DEF Next, Calling

\* What failed stays failed, and logs that were removed or never were do not come back.
LEMMA DiskStays ==
  ASSUME [Next]_vars, ~OpenLogs
  PROVE  failed \subseteq failed' /\ (UNCHANGED mode \/ mode' = "removed")
<1>1. CASE Main
  BY <1>1 DEF Main, Popen, PopenFails, LogAcquire, LogAppend, StartReader, AppendThread, WaitChild,
     JoinReaders, Settle, KillTimedOut, AwaitKilled, TimedOut, StopChild, LauncherError,
     InterruptedKill, InterruptedLog, FindStillOpen, CloseSink, CollectNotes, Finish,
     otherVars, diskVars
<1>2. ASSUME NEW t \in Streams, Reader(t) PROVE failed \subseteq failed' /\ UNCHANGED mode
  BY <1>2, ReaderFrame DEF Reader, ReadChunk, ReadEof, SinkDrop, SinkAcquire, WriteOwn,
     WriteCombined, Put, ReaderFails, Drain, ReaderEnds, diskVars
<1>3. CASE Child \/ Environment \/ UNCHANGED vars
  BY <1>3, OtherStep
<1>. QED
  BY <1>1, <1>2, <1>3 DEF Next

\* A stream's own log grows by one unit or not at all.
LEMMA ExactStep ==
  ASSUME Control, [Next]_vars, ~OpenLogs, NEW s \in Streams, OnItsWay(s), OnItsWay(s)',
         Calling => \A i \in 1..Len(todo) : todo[i][1] = "combined",
         mode' = "disk", mode = "disk", s \notin failed', s \notin failed,
         Working(s), Working(s)', Exact(s)
  PROVE  Exact(s)'
<1>1. \A E \in Nat, F \in Nat : 1..E = 1..F => E = F
  OBVIOUS
<1>2. Logged(s) \in Nat /\ Logged(s)' \in Nat
  <2>1. Len(ring[s]) \in Nat /\ Len(hand[s]) \in Nat /\ Len(hand[s]) <= Len(ring[s])
    BY LenProperties DEF Control, TypeOK, ReaderTypeOK, OnItsWay, RingFull, Working
  <2>2. Len(ring[s])' \in Nat /\ Len(hand[s])' \in Nat /\ Len(hand[s])' <= Len(ring[s])'
    BY ControlStep, LenProperties DEF Control, TypeOK, ReaderTypeOK, OnItsWay, RingFull, Working
  <2>. QED
    BY <2>1, <2>2 DEF Logged, Emitted
<1>3. Kept(s, s) = 1..Logged(s) /\ Kept(s, s)' = 1..Logged(s)'
  BY DEF OnItsWay, Flow
<1>4. CASE UNCHANGED file[s]
  <2>1. Kept(s, s)' = Kept(s, s)
    BY <1>4 DEF Kept, Places
  <2>2. Logged(s)' = Logged(s)
    BY <1>1, <1>2, <1>3, <2>1
  <2>. QED
    BY <1>4, <2>2 DEF Exact
<1>5. CASE file'[s] # file[s]
  <2>1. WriteOwn(s)
    <3>1. CASE LogAppend
      <4>1. Calling /\ todo # <<>> /\ todo \in Seq(Logs \X ({"sys"} \X SysLines))
        BY <3>1 DEF LogAppend, Calling, Control, WorkInHand, TypeOK, MainTypeOK
      <4>2. Head(todo)[1] = "combined"
        BY <4>1, EmptySeq
      <4>. QED
        BY <1>5, <3>1, <4>2 DEF LogAppend, Appended, Streams, Logs, Control, TypeOK, DiskTypeOK
    <3>2. CASE Main /\ ~LogAppend
      BY <1>5, <3>2 DEF Main, Popen, PopenFails, LogAcquire, StartReader, AppendThread, WaitChild,
         JoinReaders, Settle, KillTimedOut, AwaitKilled, TimedOut, StopChild, LauncherError,
         InterruptedKill, InterruptedLog, FindStillOpen, CloseSink, CollectNotes, Finish,
         otherVars, diskVars
    <3>3. ASSUME NEW t \in Streams, Reader(t) PROVE WriteOwn(s)
      BY <1>5, <3>3 DEF Reader, ReadChunk, ReadEof, SinkDrop, SinkAcquire, WriteOwn,
         WriteCombined, Put, Appended, ReaderFails, Drain, ReaderEnds, diskVars, Streams, Logs,
         Control, TypeOK, DiskTypeOK
    <3>4. CASE Child \/ Environment \/ UNCHANGED vars
      BY <1>5, <3>4, OtherStep
    <3>. QED
      BY <3>1, <3>2, <3>3, <3>4 DEF Next
  <2>. DEFINE e == Emitted(s)
  <2>2. /\ file' = Appended(s, <<s, e + 1>>) /\ <<s, e + 1>> \in Entries
        /\ Logged(s) = e /\ e \in Nat
    <3>1. rd[s] = "own"
      BY <2>1 DEF WriteOwn
    <3>2. Head(hand[s]) = <<s, e + 1>> /\ <<s, e + 1>> \in Units /\ e \in Nat
      BY <3>1, WriterWorks
    <3>3. <<s, e + 1>> \in Entries
      BY <3>2 DEF Entries
    <3>. QED
      BY <1>5, <2>1, <3>1, <3>2, <3>3 DEF WriteOwn, Put, Logged
  <2>3. /\ Len(file'[s]) = Len(file[s]) + 1 /\ file'[s][Len(file[s]) + 1] = <<s, e + 1>>
        /\ \A i \in 1..Len(file[s]) : file'[s][i] = file[s][i]
    BY <2>2, FileAppend DEF Control, TypeOK, Logs
  <2>4. Kept(s, s)' = 1..e \cup {e + 1}
    <3>1. DiskTypeOK /\ s \in Logs
      BY DEF Control, TypeOK, Logs
    <3>2. Kept(s, s)' = Kept(s, s) \cup {e + 1}
      BY <2>2, <3>1, KeptAppend
    <3>. QED
      BY <1>3, <2>2, <3>2
  <2>5. Logged(s)' = e + 1
    <3>1. 1..e \cup {e + 1} = 1..e + 1
      BY <2>2
    <3>. QED
      BY <1>1, <1>2, <1>3, <2>2, <2>4, <3>1
  <2>6. Len(file[s]) = e + 1 /\ \A i \in 1..e : file[s][i + 1] = <<s, i>>
    BY <2>2 DEF Exact
  <2>7. ASSUME NEW i \in 1..e + 1 PROVE file'[s][i + 1] = <<s, i>>
    <3>1. CASE i = e + 1
      BY <2>2, <2>3, <2>6, <3>1
    <3>2. CASE i # e + 1
      <4>1. i \in 1..e /\ i + 1 \in 1..Len(file[s])
        BY <2>2, <2>6, <3>2
      <4>. QED
        BY <2>3, <2>6, <4>1
    <3>. QED
      BY <3>1, <3>2
  <2>. QED
    BY <2>2, <2>3, <2>5, <2>6, <2>7 DEF Exact
<1>. QED
  BY <1>4, <1>5

LEMMA PlainStep ==
  ASSUME Control, [Next]_vars, Journal, \A s \in Streams : OnItsWay(s)'
  PROVE  Plain'
<1>. SUFFICES ASSUME Unspoilt'
              PROVE  /\ Calling' => \A i \in 1..Len(todo') : todo'[i][1] = "combined"
                     /\ \A s \in Streams : mode' = "disk" /\ s \notin failed' /\ pc' # "open"
                                           /\ Working(s)' => Exact(s)'
  BY DEF Plain
<1>1. Unspoilt /\ (pc = "open" => OpenLogs \/ pc' = "open")
  BY SpoiltStays
<1>2. /\ Calling => \A i \in 1..Len(todo) : todo[i][1] = "combined"
      /\ \A s \in Streams : mode = "disk" /\ s \notin failed /\ pc # "open" /\ Working(s) => Exact(s)
  BY <1>1 DEF Journal, Plain
<1>3. Calling' => \A i \in 1..Len(todo') : todo'[i][1] = "combined"
  BY <1>1, <1>2, CallsStep
<1>4. ASSUME NEW s \in Streams, mode' = "disk", s \notin failed', pc' # "open", Working(s)'
      PROVE  Exact(s)'
  <2>1. CASE OpenLogs
    <3>1. Logged(s)' = 0 /\ file'[s] = <<Sys("header")>>
      BY <1>4, <2>1, LogsOpened DEF OpenLogs, NewLogs, Logs, Journal
    <3>. QED
      BY <3>1 DEF Exact
  <2>2. CASE ~OpenLogs
    <3>1. mode = "disk" /\ s \notin failed
      BY <1>4, <2>2, DiskStays
    <3>2. Working(s) /\ OnItsWay(s) /\ OnItsWay(s)'
      BY <1>4, WorkingBefore DEF Journal
    <3>. QED
      BY <1>1, <1>2, <1>4, <2>2, <3>1, <3>2, ExactStep
  <2>. QED
    BY <2>1, <2>2
<1>. QED
  BY <1>3, <1>4

-----------------------------------------------------------------------------
(* The notes and the tails.                                                *)

\* run_job is past its notes.
Summed == pc \in {"tails", "returned"} \/ Concluding

\* What it says of the streams is final then: the sink is closed and the readers it does
\* not wait for any longer change nothing that the notes and the tails are about.
LEMMA SummedStays ==
  ASSUME Control, [Next]_vars, \A s \in Streams : OnItsWay(s), Summed
  PROVE  /\ UNCHANGED <<notes, status, exitCode, threads, stillOpen>>
         /\ \A s \in Streams : s \in failed' <=> s \in failed
         /\ UNCHANGED mode \/ mode' = "removed"
         /\ \A s \in threads \ stillOpen :
              /\ rd[s] = "done" /\ child = "exited"
              /\ s \in errored' <=> s \in errored
              /\ s \in replaced' <=> s \in replaced
              /\ s \notin errored => s \in eof /\ written'[s] = written[s]
<1>1. closed /\ \A s \in threads \ stillOpen : rd[s] = "done" /\ child = "exited"
  BY DEF Summed, Concluding, Control, Sealing, Closing, ReadToTheEnd, TypeOK, MainTypeOK
<1>2. /\ UNCHANGED <<notes, status, exitCode, threads, stillOpen>> /\ ~OpenLogs
  <2>1. CASE Main
    BY <2>1 DEF Summed, Concluding, Calling, Main, OpenLogs, Popen, PopenFails, LogAcquire,
       LogAppend, StartReader, AppendThread, WaitChild, JoinReaders, JoinNext, Settle,
       KillTimedOut, AwaitKilled, TimedOut, StopChild, LauncherError, InterruptedKill,
       InterruptedLog, FindStillOpen, CloseSink, CollectNotes, Finish, localVars, resultVars
  <2>2. ASSUME NEW t \in Streams, Reader(t) PROVE UNCHANGED mainVars
    BY <2>2, ReaderFrame
  <2>3. ~OpenLogs
    BY DEF Summed, Concluding, Calling, OpenLogs
  <2>4. CASE Child \/ Environment \/ UNCHANGED vars
    BY <2>3, <2>4, OtherLocals DEF resultVars
  <2>. QED
    BY <2>1, <2>2, <2>3, <2>4 DEF Next, mainVars
<1>3. UNCHANGED mode \/ mode' = "removed"
  BY <1>2, DiskStays
<1>4. \A s \in Streams : s \in failed' <=> s \in failed
  <2>1. ASSUME NEW t \in Streams, Reader(t) PROVE UNCHANGED failed
    <3>1. rd[t] \notin {"own", "comb"}
      BY <1>1 DEF Control, Sealing
    <3>. QED
      BY <2>1, <3>1 DEF Reader, ReadChunk, ReadEof, SinkDrop, SinkAcquire, WriteOwn, WriteCombined,
         ReaderFails, Drain, ReaderEnds, diskVars
  <2>2. CASE Main
    BY <1>2, <2>2 DEF Main, Popen, PopenFails, LogAcquire, LogAppend, StartReader, AppendThread,
       WaitChild, JoinReaders, Settle, KillTimedOut, AwaitKilled, TimedOut, StopChild,
       LauncherError, InterruptedKill, InterruptedLog, FindStillOpen, CloseSink, CollectNotes,
       Finish, otherVars, diskVars
  <2>3. CASE Child \/ Environment \/ UNCHANGED vars
    BY <2>3, OtherStep
  <2>. QED
    BY <2>1, <2>2, <2>3 DEF Next
<1>5. ASSUME NEW s \in threads \ stillOpen
      PROVE  /\ s \in errored' <=> s \in errored
             /\ s \in replaced' <=> s \in replaced
             /\ s \notin errored => s \in eof /\ written'[s] = written[s]
  <2>1. s \in Streams /\ rd[s] = "done"
    BY <1>1 DEF Control, TypeOK, MainTypeOK
  <2>2. ~Reader(s)
    BY <2>1 DEF Reader, ReadChunk, ReadEof, SinkDrop, SinkAcquire, WriteOwn, WriteCombined,
       ReaderFails, Drain, ReaderEnds
  <2>3. s \notin errored => s \in eof /\ s \notin holders
    BY <2>1 DEF OnItsWay, Phases
  <2>4. CASE Main
    <3>1. UNCHANGED written
      BY <1>2, <2>4 DEF Main, Popen, PopenFails, LogAcquire, LogAppend, StartReader, AppendThread,
         WaitChild, JoinReaders, Settle, KillTimedOut, AwaitKilled, TimedOut, StopChild,
         LauncherError, InterruptedKill, InterruptedLog, FindStillOpen, CloseSink, CollectNotes,
         Finish, otherVars, childVars
    <3>. QED
      BY <2>3, <2>4, <3>1, MainFrame
  <2>5. ASSUME NEW t \in Streams, Reader(t)
        PROVE  /\ s \in errored' <=> s \in errored
               /\ s \in replaced' <=> s \in replaced
               /\ UNCHANGED written
    BY <2>1, <2>2, <2>5 DEF Reader, ReadChunk, ReadEof, SinkDrop, SinkAcquire, WriteOwn,
       WriteCombined, ReaderFails, RecordError, Drain, ReaderEnds, flagVars, childVars
  <2>6. CASE Child \/ Environment \/ UNCHANGED vars
    <3>1. UNCHANGED readerVars
      BY <2>6, OtherStep
    <3>2. s \notin errored => written'[s] = written[s]
      <4>1. s \notin errored => ~ChildWrite(s) /\ ~BackgroundWrite(s)
        BY <1>1, <2>1, <2>3 DEF ChildWrite, BackgroundWrite
      <4>2. CASE \E t \in Streams : ChildWrite(t) \/ BackgroundWrite(t)
        BY <2>1, <4>1, <4>2 DEF ChildWrite, BackgroundWrite, Control, TypeOK, JobTypeOK
      <4>3. CASE ~\E t \in Streams : ChildWrite(t) \/ BackgroundWrite(t)
        BY <2>6, <4>3 DEF Child, ChildExits, ChildSigpipe, KillLands, Dies, vars, childVars,
           Environment, ChildStopped, BackgroundExits, Interrupt, InterruptPopen, Crash,
           LogsRemoved, otherVars
      <4>. QED
        BY <4>2, <4>3
    <3>. QED
      BY <2>3, <3>1, <3>2 DEF readerVars, flagVars
  <2>. QED
    BY <2>3, <2>4, <2>5, <2>6 DEF Next
<1>. QED
  BY <1>1, <1>2, <1>3, <1>4, <1>5

\* The way there leads over the notes.
LEMMA SummedStep ==
  ASSUME Control, [Next]_vars, Summed', ~CollectNotes
  PROVE  Summed
<1>1. CASE Main
  <2>1. CASE JoinReaders
    BY <2>1 DEF JoinReaders, JoinNext, Summed, Concluding, Calling
  <2>2. CASE ~JoinReaders
    BY <1>1, <2>2 DEF Summed, Concluding, Calling, Main, OpenLogs, Popen, PopenFails, LogAcquire,
       LogAppend, StartReader, AppendThread, WaitChild, Settle, KillTimedOut, Kill, AwaitKilled,
       TimedOut, StopChild, LauncherError, InterruptedKill, InterruptedLog, FindStillOpen,
       CloseSink, CollectNotes, Finish, Log, localVars, resultVars, Control, WorkInHand
  <2>. QED
    BY <2>1, <2>2
<1>2. ASSUME NEW t \in Streams, Reader(t) PROVE UNCHANGED <<pc, after>>
  BY <1>2, ReaderFrame DEF mainVars
<1>3. CASE Child \/ Environment \/ UNCHANGED vars
  BY <1>3, OtherStep DEF Interrupt, Summed, Concluding, Calling
<1>. QED
  BY <1>1, <1>2, <1>3 DEF Next, Summed, Concluding, Calling

LEMMA NotedStep ==
  ASSUME Control, [Next]_vars, Journal
  PROVE  Noted'
<1>1. CASE CollectNotes
  <2>1. /\ UNCHANGED <<mode, threads, stillOpen, failed, errored, replaced>>
        /\ notes' = (IF mode = "memory" THEN {<<"logs", "memory">>} ELSE {})
                     \cup ({"replaced"} \X replaced) \cup ({"error"} \X errored)
                     \cup ({"sink"} \X failed) \cup ({"open"} \X stillOpen)
    BY <1>1 DEF CollectNotes, localVars, otherVars, readerVars, flagVars, diskVars
  <2>2. mode' = "memory" => <<"logs", "memory">> \in notes'
    BY <2>1
  <2>3. ASSUME NEW s \in Streams
        PROVE  /\ s \in stillOpen' => <<"open", s>> \in notes'
               /\ s \in failed' => <<"sink", s>> \in notes'
               /\ s \in (threads' \ stillOpen') \cap errored' => <<"error", s>> \in notes'
               /\ s \in (threads' \ stillOpen') \cap replaced' => <<"replaced", s>> \in notes'
    BY <2>1
  <2>. QED
    BY <2>2, <2>3 DEF Noted
<1>2. CASE ~CollectNotes
  <2>. SUFFICES ASSUME Summed' PROVE Noted'
    BY DEF Noted, Summed
  <2>1. Summed
    BY <1>2, SummedStep
  <2>. QED
    BY <2>1, SummedStays DEF Journal, Noted, Summed
<1>. QED
  BY <1>1, <1>2

\* A log, or a ring, that holds the w units of s behind c lines of the wrapper's.
HoldsAll(q, s, w, c) == /\ Len(q) = w + c /\ \A i \in 1..w : q[i + c] = <<s, i>>
                        /\ c = 1 => q[1][1] = "sys"

\* Its last lines are the last of these.
LEMMA TailOfUnits ==
  ASSUME NEW S, NEW q \in Seq(S), NEW s, NEW w \in Nat, NEW c \in {0, 1}, HoldsAll(q, s, w, c)
  PROVE  EndsWith(LastN(q), s, w)
<1>. PICK n, more : n = (IF w < TailN THEN w ELSE TailN) /\ more = Len(LastN(q)) - n
  OBVIOUS
<1>. SUFFICES /\ more >= 0
              /\ \A i \in 1..n : LastN(q)[more + i] = <<s, w - n + i>>
              /\ \A i \in 1..more : LastN(q)[i][1] = "sys"
  BY DEF EndsWith
<1>0. /\ Len(q) = w + c /\ \A i \in 1..w : q[i + c] = <<s, i>>
      /\ c = 1 => q[1][1] = "sys"
  BY DEF HoldsAll
<1>1. TailN \in Nat \ {0} /\ c \in Nat
  BY JobAssumption DEF JobAssumption
<1>2. PICK m : m = IF Len(q) > TailN THEN Len(q) - TailN + 1 ELSE 1
  OBVIOUS
<1>3. m \in Int /\ m >= 1 /\ m <= Len(q) + 1 /\ Len(q) \in Int
  BY <1>0, <1>1, <1>2
<1>4. \A i \in m..Len(q) : q[i] \in S
  BY <1>3, LenProperties
<1>5. /\ Len(SubSeq(q, m, Len(q))) = IF m <= Len(q) THEN Len(q) - m + 1 ELSE 0
      /\ \A i \in 1..Len(q) - m + 1 : SubSeq(q, m, Len(q))[i] = q[m + i - 1]
  BY ONLY <1>3, <1>4, SubSeqProperties
<1>6. PICK t : t = LastN(q)
  OBVIOUS
<1>7. Len(t) = Len(q) - m + 1 /\ \A i \in 1..Len(q) - m + 1 : t[i] = q[m + i - 1]
  <2>1. t = SubSeq(q, m, Len(q))
    BY <1>2, <1>6 DEF LastN
  <2>. QED
    BY <1>3, <1>5, <2>1
<1>8. CASE Len(q) > TailN
  <2>1. n = TailN /\ more = 0 /\ m = w + c - n + 1
    BY <1>0, <1>1, <1>2, <1>6, <1>7, <1>8
  <2>2. ASSUME NEW i \in 1..n PROVE t[more + i] = <<s, w - n + i>>
    <3>1. i \in Nat /\ i >= 1 /\ i <= n /\ n \in Nat /\ n <= w
      BY <1>0, <1>1, <1>8, <2>1
    <3>2. w - n + i \in 1..w
      BY ONLY <3>1, w \in Nat
    <3>3. m + i - 1 = (w - n + i) + c
      BY <1>0, <1>1, <2>1, <3>1
    <3>4. i \in 1..Len(q) - m + 1
      BY <1>0, <1>1, <2>1, <3>1
    <3>5. t[i] = q[(w - n + i) + c]
      BY <1>7, <3>3, <3>4
    <3>6. more + i = i
      BY ONLY <2>1, <3>1
    <3>. QED
      BY <1>0, <3>2, <3>5, <3>6
  <2>3. more >= 0 /\ 1..more = {}
    BY <2>1
  <2>. QED
    BY <1>6, <2>2, <2>3
<1>9. CASE ~(Len(q) > TailN)
  <2>1. n = w /\ more = c /\ m = 1
    BY <1>0, <1>1, <1>2, <1>6, <1>7, <1>9
  <2>2. ASSUME NEW i \in 1..n PROVE t[more + i] = <<s, w - n + i>>
    <3>1. i \in 1..w /\ w - n + i = i
      BY <2>1
    <3>2. more + i \in 1..Len(q) - m + 1
      BY ONLY <1>0, <1>1, <2>1, <3>1, w \in Nat
    <3>3. m + (more + i) - 1 = i + c
      BY ONLY <1>1, <2>1, <3>1, w \in Nat
    <3>4. t[more + i] = q[i + c]
      BY <1>7, <3>2, <3>3
    <3>. QED
      BY <1>0, <3>1, <3>4
  <2>3. ASSUME NEW i \in 1..more PROVE t[i][1] = "sys"
    <3>1. c = 1 /\ i = 1 /\ 1 \in 1..Len(q) - m + 1 /\ m + 1 - 1 = 1
      BY <1>0, <1>1, <2>1
    <3>. QED
      BY <1>0, <1>7, <3>1
  <2>4. more >= 0
    BY <1>1, <2>1
  <2>. QED
    BY <1>6, <2>2, <2>3, <2>4
<1>. QED
  BY <1>8, <1>9

\* The tails of the readers that ended in time.
LEMMA FinishTells ==
  ASSUME Control, Journal, Finish, NEW s \in threads \ (stillOpen \cup errored),
         exitCode # -99, ~PulledAway(s)
  PROVE  TrueTail(s)'
<1>1. s \in Streams /\ rd[s] = "done" /\ child = "exited" /\ closed
  BY DEF Finish, Control, Sealing, Closing, ReadToTheEnd, TypeOK, MainTypeOK
<1>2. s \in eof /\ Working(s) /\ hand[s] = <<>> /\ pending[s] = <<>> /\ pipe[s] = 0
  BY <1>1 DEF Journal, OnItsWay, Phases, Working
<1>3. ring[s] \in Seq(Units) /\ file[s] \in Seq(Entries) /\ written[s] \in Nat
  BY <1>1 DEF Control, TypeOK, ReaderTypeOK, DiskTypeOK, JobTypeOK, Logs
<1>4. Len(ring[s]) = written[s] /\ Follows(ring[s], s, 0)
  BY <1>1, <1>2, <1>3 DEF Journal, OnItsWay, RingFull
<1>5. tails'[s] = TailOf(s) /\ UNCHANGED written
  BY <1>1 DEF Finish, otherVars, childVars
<1>6. CASE mode = "memory" \/ s \in failed
  <2>1. tails'[s] = LastN(ring[s])
    BY <1>5, <1>6 DEF TailOf
  <2>2. HoldsAll(ring[s], s, written[s], 0)
    BY <1>3, <1>4 DEF HoldsAll, Follows
  <2>3. EndsWith(LastN(ring[s]), s, written[s])
    BY <1>3, <2>2, TailOfUnits
  <2>. QED
    BY <1>5, <2>1, <2>3 DEF TrueTail
<1>7. CASE mode = "disk" /\ s \notin failed
  <2>1. tails'[s] = LastN(file[s])
    BY <1>5, <1>7 DEF TailOf
  <2>2. Logged(s) = written[s]
    BY <1>1, <1>2, <1>3, <1>4 DEF Logged, Emitted
  <2>3. Exact(s)
    BY <1>1, <1>2, <1>7 DEF Journal, Plain, Unspoilt, Finish
  <2>4. file[s][1][1] = "sys"
    BY <1>1, <1>7 DEF Control, HeaderKept, HeaderIn, Finish, Sys, Logs
  <2>5. HoldsAll(file[s], s, written[s], 1)
    BY <2>2, <2>3, <2>4 DEF HoldsAll, Exact
  <2>6. EndsWith(LastN(file[s]), s, written[s])
    BY <1>3, <2>5, TailOfUnits
  <2>. QED
    BY <1>5, <2>1, <2>6 DEF TrueTail
<1>. QED
  BY <1>6, <1>7 DEF PulledAway, Control, TypeOK, DiskTypeOK

LEMMA TailsStep ==
  ASSUME Control, [Next]_vars, Journal
  PROVE  TailsTrue'
<1>. SUFFICES ASSUME pc' = "returned" \/ Concluding', NEW s \in (threads \ (stillOpen \cup errored))',
                     exitCode' # -99, ~PulledAway(s)'
              PROVE  TrueTail(s)'
  BY DEF TailsTrue
<1>1. CASE Finish
  <2>1. UNCHANGED <<threads, stillOpen, errored, exitCode, mode, failed>>
    BY <1>1 DEF Finish, otherVars, readerVars, flagVars, diskVars
  <2>. QED
    BY <1>1, <2>1, FinishTells DEF PulledAway
<1>2. CASE ~Finish
  <2>1. Summed /\ pc # "tails" /\ UNCHANGED tails
    <3>1. CASE Main
      <4>1. CASE JoinReaders
        BY <4>1 DEF JoinReaders, JoinNext, Concluding, Calling
      <4>2. CASE ~JoinReaders
        BY <1>2, <3>1, <4>2 DEF Summed, Concluding, Calling, Main, OpenLogs, Popen, PopenFails,
           LogAcquire, LogAppend, StartReader, AppendThread, WaitChild, Settle, KillTimedOut,
           Kill, AwaitKilled, TimedOut, StopChild, LauncherError, InterruptedKill,
           InterruptedLog, FindStillOpen, CloseSink, CollectNotes, Log, localVars, resultVars,
           Control, WorkInHand
      <4>. QED
        BY <4>1, <4>2
    <3>2. ASSUME NEW t \in Streams, Reader(t) PROVE UNCHANGED mainVars
      BY <3>2, ReaderFrame
    <3>3. CASE Child \/ Environment \/ UNCHANGED vars
      BY <3>3, OtherStep, OtherLocals DEF Interrupt, Summed, Concluding, Calling, resultVars
    <3>. QED
      BY <3>1, <3>2, <3>3 DEF Next, mainVars, Summed, Concluding, Calling
  <2>2. /\ UNCHANGED <<exitCode, threads, stillOpen>> /\ s \notin errored /\ s \in threads \ stillOpen
        /\ written'[s] = written[s] /\ ~PulledAway(s)
    <3>1. UNCHANGED <<exitCode, threads, stillOpen>> /\ s \in threads \ stillOpen /\ s \in Streams
      BY <2>1, SummedStays DEF Journal, Control, TypeOK, MainTypeOK
    <3>2. s \notin errored /\ written'[s] = written[s]
      BY <2>1, <3>1, SummedStays DEF Journal
    <3>3. ~PulledAway(s)
      BY <2>1, <3>1, SummedStays DEF Journal, PulledAway
    <3>. QED
      BY <3>1, <3>2, <3>3
  <2>3. TrueTail(s)
    BY <2>1, <2>2 DEF Journal, TailsTrue, Summed
  <2>. QED
    BY <2>1, <2>2, <2>3 DEF TrueTail
<1>. QED
  BY <1>1, <1>2

-----------------------------------------------------------------------------
(* The invariant.                                                          *)

LEMMA JournalInit == Init => Journal
<1>. SUFFICES ASSUME Init PROVE Journal
  OBVIOUS
<1>1. ASSUME NEW s \in Streams PROVE OnItsWay(s)
  <2>1. \A l \in Logs : Places(l, s) = {} /\ Kept(l, s) = {}
    BY DEF Init, Places, Kept
  <2>2. Emitted(s) = 0 /\ Logged(s) = 0
    BY DEF Init, Emitted, Logged
  <2>3. Gapless(s) /\ Agrees(s) /\ Ordered(s)
    <3>1. 0 \in 0..written[s] /\ 1..0 = {}
      BY DEF Init
    <3>. QED
      BY <2>1, <3>1 DEF Init, Gapless, Agrees, Between, Ordered, InOrder, Logs
  <2>4. Flow(s)
    BY <2>1, <2>2 DEF Flow, Logs
  <2>. QED
    BY <2>1, <2>2, <2>3, <2>4 DEF Init, OnItsWay, Phases, RingFull, Follows, BadKnown, Logs
<1>. QED
  BY <1>1 DEF Init, Journal, Plain, Noted, TailsTrue, Concluding, Calling

LEMMA JournalStep ==
  ASSUME Control, [Next]_vars, Journal
  PROVE  Journal'
<1>1. \A s \in Streams : OnItsWay(s)'
  BY UnitsStep DEF Journal
<1>. QED
  BY <1>1, PlainStep, NotedStep, TailsStep DEF Journal

\* Every unit of output is where the threads, the sink and run_job take it to be, at every
\* step: in the pipe, in the unfinished line, in hand, in one log or in both.
THEOREM InductiveHolds == Spec => []Inductive
<1>1. Init => Inductive
  BY ControlInit, JournalInit DEF Inductive
<1>2. Inductive /\ [Next]_vars => Inductive'
  BY ControlStep, JournalStep DEF Inductive, Control
<1>. QED
  BY <1>1, <1>2, PTL DEF Spec

\* What the reader threads write into a log is the output of its stream, in order and from
\* the first line on, with nothing missing in between as long as the disk takes it.
THEOREM LogsHaveNoGaps == Spec => []NoGaps
<1>1. Inductive => NoGaps
  BY DEF Inductive, Journal, OnItsWay, NoGaps
<1>. QED
  BY <1>1, InductiveHolds, PTL

\* Two threads share the sink: what a stream's own log has, combined.log has too, in that
\* order, but for the line that is being written.
THEOREM CombinedIsBoth == Spec => []CombinedAgrees
<1>1. Inductive => CombinedAgrees
  BY DEF Inductive, Journal, OnItsWay, CombinedAgrees
<1>. QED
  BY <1>1, InductiveHolds, PTL

\* A reader that ended in time and without an error has handed over all that was written.
LEMMA AllHandedOver ==
  ASSUME Inductive, closed, NEW s \in threads \ (stillOpen \cup errored), mode = "disk",
         s \notin failed
  PROVE  ~Lost(s)
<1>1. s \in Streams /\ rd[s] = "done"
  BY DEF Inductive, Control, Closing, TypeOK, MainTypeOK
<1>2. Working(s) /\ hand[s] = <<>> /\ pending[s] = <<>> /\ pipe[s] = 0
  BY <1>1 DEF Inductive, Journal, OnItsWay, Phases, Working
<1>3. Len(ring[s]) = written[s] /\ written[s] \in Nat
  BY <1>1, <1>2 DEF Inductive, Journal, OnItsWay, RingFull, Control, TypeOK, JobTypeOK
<1>4. Logged(s) = written[s]
  BY <1>1, <1>2, <1>3 DEF Logged, Emitted
<1>. QED
  BY <1>1, <1>2, <1>4 DEF Inductive, Journal, OnItsWay, Flow, Lost

\* run_job does not lose output without saying so, whatever fails: the disk, a reader, the
\* start of a thread, the opening of the logs, the user's patience or the job itself.
THEOREM LossIsTold == Spec => []NothingUntold
<1>1. Inductive => NothingUntold
  <2>. SUFFICES ASSUME Inductive, pc = "returned", NEW s \in Streams
                PROVE  /\ Lost(s) => \/ Told(s) \/ PulledAway(s)
                                     \/ status = "interrupted" /\ s \notin threads
                       /\ s \in threads \ stillOpen /\ (\E k \in Kept(s, s) : <<s, k>> \in Bad)
                            => <<"replaced", s>> \in notes
    BY DEF NothingUntold
  <2>1. /\ closed /\ Manned /\ (child = "none" => written[s] = 0)
        /\ \A t \in threads \ stillOpen : rd[t] = "done"
    BY DEF Inductive, Control, Sealing, Staffed, Deciding, Closing
  <2>2. /\ mode = "memory" => <<"logs", "memory">> \in notes
        /\ s \in stillOpen => <<"open", s>> \in notes
        /\ s \in failed => <<"sink", s>> \in notes
        /\ s \in (threads \ stillOpen) \cap errored => <<"error", s>> \in notes
        /\ s \in (threads \ stillOpen) \cap replaced => <<"replaced", s>> \in notes
    BY DEF Inductive, Journal, Noted
  <2>3. ASSUME Lost(s), ~Told(s), ~PulledAway(s)
        PROVE  status = "interrupted" /\ s \notin threads
    <3>1. mode = "disk" /\ s \notin failed \cup stillOpen
      BY <2>2, <2>3 DEF Told, PulledAway, Inductive, Control, TypeOK, DiskTypeOK
    <3>2. CASE s \in threads
      <4>1. s \notin errored
        BY <2>2, <2>3, <3>1, <3>2 DEF Told
      <4>. QED
        BY <2>1, <2>3, <3>1, <3>2, <4>1, AllHandedOver
    <3>3. CASE s \notin threads
      <4>1. child # "none"
        <5>. SUFFICES ASSUME child = "none" PROVE FALSE
          OBVIOUS
        <5>1. PICK n \in 0..written[s] : Kept(s, s) = 1..n
          BY <3>1 DEF Inductive, Journal, OnItsWay, Gapless
        <5>. QED
          BY <2>1, <2>3, <5>1 DEF Lost
      <4>. QED
        BY <2>1, <2>3, <3>3, <4>1 DEF Manned, Told
    <3>. QED
      BY <3>2, <3>3
  <2>4. s \in threads \ stillOpen /\ (\E k \in Kept(s, s) : <<s, k>> \in Bad)
          => <<"replaced", s>> \in notes
    BY <2>1, <2>2 DEF Inductive, Journal, OnItsWay, BadKnown
  <2>. QED
    BY <2>3, <2>4
<1>. QED
  BY <1>1, InductiveHolds, PTL

\* The tails in the report are the job's last lines, from the files or from the rings.
THEOREM TailsAreTrue == Spec => []TailTruth
<1>1. Inductive => TailTruth
  BY DEF Inductive, Journal, TailsTrue, TailTruth
<1>. QED
  BY <1>1, InductiveHolds, PTL

-----------------------------------------------------------------------------
(* run_job keeps its contract.                                             *)

\* Whoever appends an entry to a log lets it grow.
LEMMA AppendGrows ==
  ASSUME TypeOK, NEW l \in Logs, NEW e \in Entries, file' = Appended(l, e)
  PROVE  Contract!Grows
<1>1. CASE mode = "disk"
  <2>1. file[l] \in Seq(Entries) /\ file \in [Logs -> Seq(Entries)]
    BY DEF TypeOK, DiskTypeOK
  <2>2. file' = [file EXCEPT ![l] = Append(@, e)] /\ file'[l] = Append(file[l], e)
    BY <1>1, <2>1 DEF Appended
  <2>3. file'[l] # <<>> /\ Contract!Last(file'[l]) = e
    BY <2>1, <2>2, AppendProperties DEF Contract!Last
  <2>. QED
    BY <2>2, <2>3 DEF Contract!Grows
<1>2. CASE mode # "disk"
  BY <1>2 DEF Appended, Contract!Grows
<1>. QED
  BY <1>1, <1>2

\* While run_job is under way, a log grows and the caller sees nothing else.
LEMMA WriteOrNothing ==
  ASSUME Contract!Grows, Phase \in {"ready", "running", "broken"}, UNCHANGED <<Phase, Outcome>>
  PROVE  Contract!Next
BY DEF Contract!Next, Contract!Write

\* A reader writes while run_job is under way, or has been broken off.
LEMMA ReaderKeeps ==
  ASSUME Control, NEW t \in Streams, Reader(t)
  PROVE  [Contract!Next]_(Contract!vars)
<1>1. UNCHANGED <<pc, child, status, exitCode>>
  BY ReaderFrame DEF mainVars
<1>2. UNCHANGED <<Phase, Outcome>>
  BY <1>1 DEF Phase, Outcome
<1>3. CASE WriteOwn(t) \/ WriteCombined(t)
  <2>1. rd[t] \in {"own", "comb"} /\ hand[t] # <<>> /\ pc # "crashed"
    BY <1>3 DEF WriteOwn, WriteCombined, Alive, Control, WorkInHand
  <2>2. pc \notin {"open", "returned"}
    <3>1. pc # "open"
      BY <2>1 DEF Control, Staffed, Starting
    <3>2. pc # "returned"
      BY <2>1 DEF Control, Sealing
    <3>. QED
      BY <3>1, <3>2
  <2>3. Head(hand[t]) \in Entries
    BY <2>1, HeadTailProperties DEF Control, TypeOK, ReaderTypeOK, Entries
  <2>4. Contract!Grows
    BY <1>3, <2>3, AppendGrows DEF WriteOwn, WriteCombined, Put, Logs, Contract!Grows, Control
  <2>5. Phase \in {"ready", "running", "broken"}
    BY <2>2 DEF Phase
  <2>. QED
    BY <1>2, <2>4, <2>5, WriteOrNothing
<1>4. CASE ~WriteOwn(t) /\ ~WriteCombined(t)
  <2>1. UNCHANGED file
    BY <1>4 DEF Reader, ReadChunk, ReadEof, SinkDrop, SinkAcquire, ReaderFails, Drain, ReaderEnds,
       diskVars
  <2>. QED
    BY <1>2, <2>1 DEF Contract!vars
<1>. QED
  BY <1>3, <1>4

\* The last entry and the result come together; before it a call of write_to_log is a
\* write like any other.
LEMMA AppendKeeps ==
  ASSUME Control, LogAppend
  PROVE  [Contract!Next]_(Contract!vars)
<1>1. pc = "held" /\ todo # <<>> /\ after \in {"spawn", "final", "returned"}
  BY DEF LogAppend, Control, WorkInHand, Calling
<1>2. Contract!Grows
  <2>1. todo \in Seq(Logs \X ({"sys"} \X SysLines))
    BY DEF Control, TypeOK, MainTypeOK
  <2>2. Head(todo)[1] \in Logs /\ Head(todo)[2] \in Entries
    BY <1>1, <2>1, HeadTailProperties DEF Entries
  <2>. QED
    BY <2>2, AppendGrows DEF LogAppend, Control, Contract!Grows
<1>3. UNCHANGED <<child, status, exitCode>> /\ (pc' = after \/ pc' = "acquire")
  BY DEF LogAppend, resultVars, childVars, jobVars
<1>4. Phase \in {"ready", "running"}
  BY <1>1 DEF Phase
<1>5. CASE pc' = "returned"
  <2>1. Phase' = "over" /\ Outcome' = [status |-> status', code |-> exitCode']
    BY <1>5 DEF Phase, Outcome
  <2>2. status' \in Statuses /\ exitCode' \in Int
    BY <1>3 DEF Control, TypeOK, MainTypeOK
  <2>3. Outcome' \in [status : Statuses, code : Int]
    BY <2>1, <2>2
  <2>. QED
    BY <1>2, <1>4, <2>1, <2>3 DEF Contract!Next, Contract!Deliver
<1>6. CASE pc' # "returned"
  <2>1. UNCHANGED <<Phase, Outcome>>
    BY <1>1, <1>3, <1>6 DEF Phase, Outcome
  <2>. QED
    BY <1>2, <1>4, <2>1, WriteOrNothing
<1>. QED
  BY <1>5, <1>6

\* The other steps of the main thread open the logs, start the job, or are not seen.
LEMMA MainKeeps ==
  ASSUME Control, Main, ~LogAppend
  PROVE  [Contract!Next]_(Contract!vars)
<1>1. CASE OpenLogs
  <2>1. pc = "open" /\ pc' = "popen" /\ child = "none" /\ UNCHANGED child
    BY <1>1 DEF OpenLogs, Control, HeaderKept, childVars, jobVars
  <2>2. Phase = "new" /\ Phase' = "ready" /\ UNCHANGED Outcome
    BY <2>1 DEF Phase, Outcome
  <2>3. file' \in {[l \in Logs |-> <<Sys("header")>>], [l \in Logs |-> <<>>]}
    BY <1>1 DEF OpenLogs, NewLogs
  <2>. QED
    BY <2>2, <2>3 DEF Contract!Next, Contract!Create
<1>2. CASE ~OpenLogs
  <2>1. UNCHANGED file
    BY <1>2 DEF Main, Popen, PopenFails, LogAcquire, StartReader, AppendThread, WaitChild,
       JoinReaders, Settle, KillTimedOut, AwaitKilled, TimedOut, StopChild, LauncherError,
       InterruptedKill, InterruptedLog, FindStillOpen, CloseSink, CollectNotes, Finish,
       otherVars, diskVars
  <2>2. pc \notin {"open"} \cup Ended /\ pc' \notin {"open"} \cup Ended
    <3>1. CASE JoinReaders
      BY <3>1 DEF JoinReaders, JoinNext, Ended
    <3>2. CASE ~JoinReaders
      BY <1>2, <3>2 DEF Main, Popen, PopenFails, LogAcquire, StartReader, AppendThread, WaitChild,
         Settle, KillTimedOut, Kill, AwaitKilled, TimedOut, StopChild, LauncherError,
         InterruptedKill, InterruptedLog, FindStillOpen, CloseSink, CollectNotes, Finish, Log,
         Ended
    <3>. QED
      BY <3>1, <3>2
  <2>3. UNCHANGED Outcome
    BY <2>2 DEF Outcome, Ended
  <2>4. UNCHANGED child \/ (child = "none" /\ child' = "running")
    BY <1>2 DEF Main, Popen, PopenFails, LogAcquire, StartReader, AppendThread, WaitChild,
       JoinReaders, Settle, KillTimedOut, AwaitKilled, TimedOut, StopChild, LauncherError,
       InterruptedKill, InterruptedLog, FindStillOpen, CloseSink, CollectNotes, Finish,
       otherVars, childVars, jobVars, Control, ReadToTheEnd
  <2>5. UNCHANGED Phase \/ (Phase = "ready" /\ Phase' = "running")
    BY <2>2, <2>4 DEF Phase, Ended
  <2>. QED
    BY <2>1, <2>3, <2>5 DEF Contract!Next, Contract!Launch, Contract!vars
<1>. QED
  BY <1>1, <1>2

\* Nobody else writes; an interrupt may start the job unseen, or break the run off.
LEMMA OtherKeeps ==
  ASSUME Control, Child \/ Environment \/ UNCHANGED vars
  PROVE  [Contract!Next]_(Contract!vars)
<1>1. UNCHANGED <<file, status, exitCode>>
  BY OtherStep, OtherLocals DEF resultVars
<1>2. CASE InterruptPopen
  <2>1. pc = "popen" /\ pc' = "ki" /\ child = "none" /\ child' = "running"
    BY <1>2 DEF InterruptPopen, Control, ReadToTheEnd
  <2>2. Phase = "ready" /\ Phase' = "running" /\ UNCHANGED Outcome
    BY <2>1 DEF Phase, Outcome
  <2>. QED
    BY <1>1, <2>2 DEF Contract!Next, Contract!Launch
<1>3. CASE ~InterruptPopen
  <2>1. child' = child \/ (child = "running" /\ child' = "exited")
    BY <1>3, GoesOnByItself DEF JobGoesOn, Control
  <2>2. CASE UNCHANGED pc
    <3>1. UNCHANGED <<Phase, Outcome>>
      BY <1>1, <2>1, <2>2 DEF Phase, Outcome
    <3>. QED
      BY <1>1, <3>1 DEF Contract!vars
  <2>3. CASE pc' # pc
    <3>1. Interrupt \/ Crash
      BY <1>3, <2>3 DEF Child, ChildExits, ChildSigpipe, KillLands, ChildWrite, Dies, mainVars,
         vars, Environment, ChildStopped, BackgroundExits, BackgroundWrite, LogsRemoved
    <3>2. pc \notin Ended
      BY <3>1, JobAssumption DEF JobAssumption, Interrupt, Crash, Ended
    <3>3. pc' \in {"escaped", "crashed"} \/ (pc' = "ki" /\ pc # "open")
      BY <3>1 DEF Interrupt, InTry, Crash
    <3>4. UNCHANGED Outcome
      BY <3>2, <3>3 DEF Outcome, Ended
    <3>5. UNCHANGED Phase \/ (Phase \in {"new", "ready", "running"} /\ Phase' = "broken")
      BY <2>1, <3>2, <3>3 DEF Phase, Ended
    <3>. QED
      BY <1>1, <3>4, <3>5 DEF Contract!Next, Contract!Break, Contract!vars
  <2>. QED
    BY <2>2, <2>3
<1>. QED
  BY <1>2, <1>3

\* For all its threads, its faults and its interrupts, run_job is to its caller a journal of
\* three logs that only grow, and one result with the last line of it.
THEOREM ContractIsKept == Spec => KeepsContract
<1>1. Init => Contract!Init
  BY DEF Init, Contract!Init, Phase, Outcome
<1>2. Control /\ [Next]_vars => [Contract!Next]_(Contract!vars)
  BY MainKeeps, AppendKeeps, ReaderKeeps, OtherKeeps DEF Next
<1>. QED
  BY <1>1, <1>2, ControlHolds, PTL DEF Spec, KeepsContract, Contract!Spec
=============================================================================
