---------------------------- MODULE JobRunProofs ----------------------------
(***************************************************************************)
(* What holds of JobRun for every value of its constants.                  *)
(***************************************************************************)
EXTENDS JobInvariant, SequenceTheorems, TLAPS

-----------------------------------------------------------------------------
(* Sequences.                                                              *)

LEMMA SubSeqSeq ==
  ASSUME NEW S, NEW q \in Seq(S), NEW i \in 1..Len(q) + 1, NEW j \in 0..Len(q)
  PROVE  SubSeq(q, i, j) \in Seq(S)
  BY SubSeqProperties

\* A tail is made of what it is the tail of.
LEMMA LastNSeq ==
  ASSUME NEW S, NEW q \in Seq(S)
  PROVE  LastN(q) \in Seq(S)
<1>1. TailN \in Nat \ {0}
  BY JobAssumption DEF JobAssumption
<1>2. Len(q) \in Nat
  BY LenProperties
<1>. DEFINE i == IF Len(q) > TailN THEN Len(q) - TailN + 1 ELSE 1
<1>3. i \in 1..Len(q) + 1
  BY <1>1, <1>2
<1>4. SubSeq(q, i, Len(q)) \in Seq(S)
  BY <1>2, <1>3, SubSeqSeq
<1>. QED
  BY <1>4 DEF LastN

\* A chunk is made of units.
LEMMA ChunkSeq ==
  ASSUME TypeOK, NEW s \in Streams, pipe[s] <= written[s]
  PROVE  Chunk(s) \in Seq(Units)
<1>1. pipe[s] \in Nat /\ written[s] \in Nat
  BY JobAssumption DEF TypeOK, JobTypeOK, JobAssumption
<1>2. \A i \in 1..pipe[s] : written[s] - pipe[s] + i \in Nat
  BY <1>1
<1>3. \A i \in 1..pipe[s] : <<s, written[s] - pipe[s] + i>> \in Units
  BY <1>2 DEF Units
<1>. QED
  BY <1>1, <1>3, SeqDef DEF Chunk

\* Adding an entry to a log keeps every log a sequence of entries.
LEMMA AppendedType ==
  ASSUME DiskTypeOK, NEW l \in Logs, NEW e \in Entries
  PROVE  Appended(l, e) \in [Logs -> Seq(Entries)]
<1>1. Append(file[l], e) \in Seq(Entries)
  BY AppendProperties DEF DiskTypeOK
<1>. QED
  BY <1>1 DEF Appended, DiskTypeOK

\* The steps that change what the main thread owns.
LEMMA MainStep ==
  ASSUME [Next]_vars
  PROVE  Main \/ Interrupt \/ InterruptPopen \/ Crash \/ UNCHANGED mainVars
<1>1. CASE Child
  BY <1>1 DEF Child, ChildExits, ChildSigpipe, KillLands, ChildWrite, Dies
<1>2. CASE Environment
  BY <1>2 DEF Environment, ChildStopped, BackgroundExits, BackgroundWrite, LogsRemoved, Dies
<1>3. ASSUME NEW s \in Streams, Reader(s) PROVE UNCHANGED mainVars
  BY <1>3 DEF Reader, ReadChunk, ReadEof, SinkDrop, SinkAcquire, WriteOwn, WriteCombined,
     ReaderFails, Drain, ReaderEnds
<1>4. CASE UNCHANGED vars
  BY <1>4 DEF vars
<1>. QED
  BY <1>1, <1>2, <1>3, <1>4 DEF Next

LEMMA MainTypeStep ==
  ASSUME TypeOK, PipeHistory, WorkInHand, [Next]_vars
  PROVE  MainTypeOK'
<1>1. CASE OpenLogs
  BY <1>1 DEF OpenLogs, NewLogs, Sys, TypeOK, MainTypeOK, resultVars, localVars, MainPcs
<1>2. CASE Popen
  BY <1>2 DEF Popen, Log, Sys, TypeOK, MainTypeOK, resultVars, MainPcs, SysLines, Logs, Streams
<1>3. CASE PopenFails
  BY <1>3 DEF PopenFails, Log, Sys, InAllLogs, TypeOK, MainTypeOK, MainPcs, SysLines,
     Statuses, Logs, Streams
<1>4. CASE LogAcquire
  BY <1>4 DEF LogAcquire, TypeOK, MainTypeOK, resultVars, localVars, MainPcs
<1>5. CASE LogAppend
  <2>1. todo # <<>> /\ after \in MainPcs /\ todo \in Seq(Logs \X ({"sys"} \X SysLines))
    BY <1>5 DEF LogAppend, WorkInHand, Calling, TypeOK, MainTypeOK
  <2>2. Tail(todo) \in Seq(Logs \X ({"sys"} \X SysLines))
    BY <2>1, HeadTailProperties
  <2>3. todo' = Tail(todo) /\ pc' \in {after, "acquire"}
    BY <1>5 DEF LogAppend
  <2>. QED
    BY <1>5, <2>1, <2>2, <2>3 DEF LogAppend, TypeOK, MainTypeOK, resultVars, MainPcs
<1>6. CASE StartReader
  BY <1>6 DEF StartReader, NextReader, Fault, TypeOK, MainTypeOK, resultVars, localVars,
     MainPcs, Streams
<1>7. CASE AppendThread
  BY <1>7 DEF AppendThread, NextReader, TypeOK, MainTypeOK, resultVars, MainPcs, Streams
<1>8. CASE WaitChild
  BY <1>8 DEF WaitChild, TypeOK, MainTypeOK, resultVars, localVars, MainPcs
<1>9. CASE JoinReaders
  BY <1>9 DEF JoinReaders, JoinNext, TypeOK, MainTypeOK, resultVars, localVars, MainPcs
<1>10. CASE Settle
  <2>1. status' \in Statuses /\ exitCode' \in Int
    BY <1>10 DEF Settle, StatusOf, Statuses, TypeOK, JobTypeOK
  <2>. QED
    BY <1>10, <2>1 DEF Settle, TypeOK, MainTypeOK, localVars, MainPcs
<1>11. CASE KillTimedOut
  BY <1>11 DEF KillTimedOut, Kill, Fault, TypeOK, MainTypeOK, resultVars, localVars, MainPcs
<1>12. CASE AwaitKilled
  BY <1>12 DEF AwaitKilled, TypeOK, MainTypeOK, resultVars, localVars, MainPcs
<1>13. CASE TimedOut
  BY <1>13 DEF TimedOut, Log, Sys, TypeOK, MainTypeOK, MainPcs, SysLines, Statuses, Logs,
     Streams
<1>14. CASE StopChild
  BY <1>14 DEF StopChild, Kill, Fault, TypeOK, MainTypeOK, resultVars, localVars, MainPcs
<1>15. CASE LauncherError
  BY <1>15 DEF LauncherError, Log, Sys, InAllLogs, TypeOK, MainTypeOK, MainPcs, SysLines,
     Statuses, Logs, Streams
<1>16. CASE InterruptedKill
  BY <1>16 DEF InterruptedKill, Kill, Fault, TypeOK, MainTypeOK, resultVars, localVars, MainPcs
<1>17. CASE InterruptedLog
  BY <1>17 DEF InterruptedLog, Log, Sys, TypeOK, MainTypeOK, MainPcs, SysLines, Statuses,
     Logs, Streams
<1>18. CASE FindStillOpen
  BY <1>18 DEF FindStillOpen, TypeOK, MainTypeOK, localVars, MainPcs
<1>19. CASE CloseSink
  BY <1>19 DEF CloseSink, TypeOK, MainTypeOK, resultVars, localVars, MainPcs
<1>20. CASE CollectNotes
  <2>1. notes' \subseteq NoteKinds \X (Logs \cup {"memory"})
    BY <1>20 DEF CollectNotes, NoteKinds, Logs, TypeOK, MainTypeOK, ReaderTypeOK, DiskTypeOK
  <2>. QED
    BY <1>20, <2>1 DEF CollectNotes, TypeOK, MainTypeOK, localVars, MainPcs
<1>21. CASE Finish
  <2>1. \A s \in Streams : file[s] \in Seq(Entries) /\ ring[s] \in Seq(Entries)
    <3>1. \A s \in Streams : ring[s] \in Seq(Units) /\ s \in Logs
      BY DEF TypeOK, ReaderTypeOK, Logs
    <3>2. \A q \in Seq(Units) : q \in Seq(Entries)
      BY SeqDef DEF Entries
    <3>. QED
      BY <3>1, <3>2 DEF TypeOK, DiskTypeOK
  <2>2. \A s \in Streams : TailOf(s) \in Seq(Entries)
    BY <2>1, LastNSeq DEF TailOf
  <2>3. tails' \in [Streams -> Seq(Entries)]
    BY <1>21, <2>2 DEF Finish
  <2>4. todo' \in Seq(Logs \X ({"sys"} \X SysLines))
    BY <1>21 DEF Finish, Log, Sys, Logs, SysLines
  <2>. QED
    BY <1>21, <2>3, <2>4 DEF Finish, Log, TypeOK, MainTypeOK, MainPcs, Ended
<1>22. CASE Interrupt
  BY <1>22 DEF Interrupt, TypeOK, MainTypeOK, resultVars, localVars, MainPcs, Ended, Sys
<1>23. CASE InterruptPopen
  BY <1>23 DEF InterruptPopen, TypeOK, MainTypeOK, resultVars, localVars, MainPcs
<1>24. CASE Crash
  BY <1>24 DEF Crash, Fault, TypeOK, MainTypeOK, resultVars, localVars, MainPcs, Ended
<1>25. CASE UNCHANGED mainVars
  BY <1>25 DEF TypeOK, MainTypeOK, mainVars, resultVars, localVars, MainPcs, Ended, SysLines,
     Statuses, NoteKinds, Sys, Logs, Streams
<1>. QED
  BY MainStep, <1>1, <1>2, <1>3, <1>4, <1>5, <1>6, <1>7, <1>8, <1>9, <1>10, <1>11, <1>12,
     <1>13, <1>14, <1>15, <1>16, <1>17, <1>18, <1>19, <1>20, <1>21, <1>22, <1>23, <1>24, <1>25
     DEF Main

LEMMA JobTypeStep ==
  ASSUME TypeOK, PipeHistory, WorkInHand, [Next]_vars
  PROVE  JobTypeOK'
<1>1. CASE Popen
  BY <1>1, JobAssumption DEF Popen, Log, Sys, TypeOK, JobTypeOK, diskVars, envVars, Streams,
     JobAssumption
<1>2. CASE KillTimedOut
  BY <1>2 DEF KillTimedOut, Kill, Fault, TypeOK, JobTypeOK, diskVars
<1>3. CASE StopChild
  BY <1>3 DEF StopChild, Kill, Fault, TypeOK, JobTypeOK, diskVars
<1>4. CASE InterruptedKill
  BY <1>4 DEF InterruptedKill, Kill, Fault, TypeOK, JobTypeOK, diskVars
<1>5. CASE InterruptPopen
  BY <1>5, JobAssumption DEF InterruptPopen, TypeOK, JobTypeOK, diskVars, JobAssumption
<1>6. CASE ChildExits
  BY <1>6, JobAssumption DEF ChildExits, Dies, TypeOK, JobTypeOK, JobAssumption
<1>7. CASE ChildSigpipe
  BY <1>7 DEF ChildSigpipe, Dies, TypeOK, JobTypeOK, diskVars
<1>8. CASE KillLands
  BY <1>8 DEF KillLands, Dies, TypeOK, JobTypeOK, diskVars
<1>9. CASE ChildStopped
  <2>1. PICK code \in Int : Dies(code)
    BY <1>9 DEF ChildStopped
  <2>. QED
    BY <2>1 DEF Dies, TypeOK, JobTypeOK
<1>10. CASE BackgroundExits
  BY <1>10 DEF BackgroundExits, TypeOK, JobTypeOK, diskVars, envVars
<1>11. ASSUME NEW s \in Streams, ChildWrite(s) PROVE JobTypeOK'
  BY <1>11, JobAssumption DEF ChildWrite, TypeOK, JobTypeOK, jobVars, diskVars, envVars,
     JobAssumption
<1>12. ASSUME NEW s \in Streams, BackgroundWrite(s) PROVE JobTypeOK'
  BY <1>12, JobAssumption DEF BackgroundWrite, TypeOK, JobTypeOK, jobVars, diskVars, envVars,
     JobAssumption
<1>13. ASSUME NEW s \in Streams, ReadChunk(s) PROVE JobTypeOK'
  BY <1>13, JobAssumption DEF ReadChunk, TypeOK, JobTypeOK, jobVars, JobAssumption
<1>14. ASSUME NEW s \in Streams, Drain(s) PROVE JobTypeOK'
  BY <1>14, JobAssumption DEF Drain, TypeOK, JobTypeOK, jobVars, JobAssumption
<1>15. CASE UNCHANGED childVars
  BY <1>15 DEF TypeOK, JobTypeOK, childVars, jobVars, diskVars, envVars, Streams, JobAssumption
<1>16. Popen \/ KillTimedOut \/ StopChild \/ InterruptedKill \/ InterruptPopen \/ ChildExits \/
   ChildSigpipe \/ KillLands \/ ChildStopped \/ BackgroundExits \/ (\E s \in Streams :
   ChildWrite(s)) \/ (\E s \in Streams : BackgroundWrite(s)) \/ (\E s \in Streams :
   ReadChunk(s)) \/ (\E s \in Streams : Drain(s)) \/ UNCHANGED childVars
  BY DEF Next, Main, Child, Environment, Reader, OpenLogs, PopenFails, LogAcquire, LogAppend,
     StartReader, AppendThread, WaitChild, JoinReaders, Settle, AwaitKilled, TimedOut,
     LauncherError, InterruptedLog, FindStillOpen, CloseSink, CollectNotes, Finish, Interrupt,
     Crash, LogsRemoved, ReadEof, SinkDrop, SinkAcquire, WriteOwn, WriteCombined, ReaderFails, ReaderEnds,
     vars, mainVars, resultVars, localVars, otherVars, childVars, jobVars, readerVars,
     lineVars, flagVars, diskVars, envVars
<1>. QED
  BY <1>1, <1>2, <1>3, <1>4, <1>5, <1>6, <1>7, <1>8, <1>9, <1>10, <1>11, <1>12, <1>13, <1>14,
     <1>15, <1>16

LEMMA ReaderTypeStep ==
  ASSUME TypeOK, PipeHistory, WorkInHand, [Next]_vars
  PROVE  ReaderTypeOK'
<1>1. CASE StartReader
  BY <1>1 DEF StartReader, NextReader, Fault, TypeOK, ReaderTypeOK, lineVars, flagVars,
     ReaderPcs, Streams
<1>2. ASSUME NEW s \in Streams, ReadChunk(s) PROVE ReaderTypeOK'
  <2>1. Text(s) \in Seq(Units)
    BY ChunkSeq, ConcatProperties DEF PipeHistory, Text, TypeOK, ReaderTypeOK
  <2>2. PICK k \in 0..Len(Text(s)) :
          /\ hand' = [hand EXCEPT ![s] = SubSeq(Text(s), 1, k)]
          /\ pending' = [pending EXCEPT ![s] = SubSeq(Text(s), k + 1, Len(Text(s)))]
          /\ ring' = [ring EXCEPT ![s] = @ \o SubSeq(Text(s), 1, k)]
          /\ rd' = [rd EXCEPT ![s] = IF k = 0 THEN "read" ELSE "acquire"]
    BY <1>2 DEF ReadChunk
  <2>3. SubSeq(Text(s), 1, k) \in Seq(Units) /\ SubSeq(Text(s), k + 1, Len(Text(s))) \in
     Seq(Units)
    BY <2>1, LenProperties, SubSeqSeq
  <2>4. ring[s] \o SubSeq(Text(s), 1, k) \in Seq(Units)
    BY <2>3, ConcatProperties DEF TypeOK, ReaderTypeOK
  <2>5. undecoded' \subseteq Streams
    BY <1>2 DEF ReadChunk, TypeOK, ReaderTypeOK
  <2>. QED
    BY <1>2, <2>2, <2>3, <2>4, <2>5 DEF ReadChunk, TypeOK, ReaderTypeOK, ReaderPcs
<1>3. ASSUME NEW s \in Streams, ReadEof(s) PROVE ReaderTypeOK'
  BY <1>3 DEF ReadEof, TypeOK, ReaderTypeOK, ReaderPcs
<1>4. ASSUME NEW s \in Streams, SinkDrop(s) PROVE ReaderTypeOK'
  BY <1>4 DEF SinkDrop, AfterEmit, TypeOK, ReaderTypeOK, flagVars, ReaderPcs
<1>5. ASSUME NEW s \in Streams, SinkAcquire(s) PROVE ReaderTypeOK'
  BY <1>5 DEF SinkAcquire, TypeOK, ReaderTypeOK, lineVars, flagVars, ReaderPcs
<1>6. ASSUME NEW s \in Streams, WriteOwn(s) PROVE ReaderTypeOK'
  BY <1>6 DEF WriteOwn, Put, Appended, Fault, TypeOK, ReaderTypeOK, lineVars, flagVars,
     ReaderPcs
<1>7. ASSUME NEW s \in Streams, WriteCombined(s) PROVE ReaderTypeOK'
  <2>1. hand[s] \in Seq(Units) /\ hand[s] # <<>>
    BY <1>7 DEF WriteCombined, WorkInHand, TypeOK, ReaderTypeOK
  <2>2. Tail(hand[s]) \in Seq(Units)
    BY <2>1, HeadTailProperties
  <2>3. hand' = [hand EXCEPT ![s] = Tail(hand[s])]
    BY <1>7 DEF WriteCombined, TypeOK, ReaderTypeOK
  <2>4. rd' \in [Streams -> ReaderPcs]
    BY <1>7 DEF WriteCombined, AfterEmit, TypeOK, ReaderTypeOK, ReaderPcs
  <2>. QED
    BY <1>7, <2>2, <2>3, <2>4 DEF WriteCombined, TypeOK, ReaderTypeOK, flagVars
<1>8. ASSUME NEW s \in Streams, ReaderFails(s) PROVE ReaderTypeOK'
  BY <1>8 DEF ReaderFails, RecordError, AfterError, Fault, TypeOK, ReaderTypeOK, lineVars,
     ReaderPcs
<1>9. ASSUME NEW s \in Streams, Drain(s) PROVE ReaderTypeOK'
  BY <1>9 DEF Drain, TypeOK, ReaderTypeOK, lineVars, flagVars, ReaderPcs
<1>10. ASSUME NEW s \in Streams, ReaderEnds(s) PROVE ReaderTypeOK'
  BY <1>10 DEF ReaderEnds, TypeOK, ReaderTypeOK, lineVars, ReaderPcs
<1>11. CASE UNCHANGED readerVars
  BY <1>11 DEF TypeOK, ReaderTypeOK, readerVars, lineVars, flagVars, ReaderPcs, Streams
<1>12. StartReader \/ (\E s \in Streams : ReadChunk(s)) \/ (\E s \in Streams : ReadEof(s)) \/
   (\E s \in Streams : SinkDrop(s)) \/ (\E s \in Streams : SinkAcquire(s)) \/ (\E s \in Streams
   : WriteOwn(s)) \/ (\E s \in Streams : WriteCombined(s)) \/ (\E s \in Streams :
   ReaderFails(s)) \/ (\E s \in Streams : Drain(s)) \/ (\E s \in Streams : ReaderEnds(s)) \/
   UNCHANGED readerVars
  BY DEF Next, Main, Child, Environment, Reader, OpenLogs, Popen, PopenFails, LogAcquire,
     LogAppend, AppendThread, WaitChild, JoinReaders, Settle, KillTimedOut, AwaitKilled,
     TimedOut, StopChild, LauncherError, InterruptedKill, InterruptedLog, FindStillOpen,
     CloseSink, CollectNotes, Finish, ChildExits, ChildSigpipe, KillLands, ChildStopped,
     BackgroundExits, Interrupt, InterruptPopen, Crash, LogsRemoved, ChildWrite,
     BackgroundWrite, Dies, Kill, vars, mainVars, resultVars, localVars, otherVars, childVars, jobVars, readerVars,
     lineVars, flagVars, diskVars, envVars
<1>. QED
  BY <1>1, <1>2, <1>3, <1>4, <1>5, <1>6, <1>7, <1>8, <1>9, <1>10, <1>11, <1>12

LEMMA DiskTypeStep ==
  ASSUME TypeOK, PipeHistory, WorkInHand, [Next]_vars
  PROVE  DiskTypeOK'
<1>1. CASE LogAcquire
  BY <1>1 DEF LogAcquire, TypeOK, DiskTypeOK, envVars
<1>2. CASE LogAppend
  <2>1. todo # <<>> /\ todo \in Seq(Logs \X ({"sys"} \X SysLines))
    BY <1>2 DEF LogAppend, WorkInHand, Calling, TypeOK, MainTypeOK
  <2>2. Head(todo)[1] \in Logs /\ Head(todo)[2] \in Entries
    BY <2>1, HeadTailProperties DEF Entries
  <2>3. file' = Appended(Head(todo)[1], Head(todo)[2]) \/ file' = file
    BY <1>2 DEF LogAppend
  <2>4. file' \in [Logs -> Seq(Entries)]
    BY <2>2, <2>3, AppendedType DEF TypeOK, DiskTypeOK
  <2>5. faults' \in Nat
    BY <1>2 DEF LogAppend, Fault, TypeOK, DiskTypeOK
  <2>. QED
    BY <1>2, <2>4, <2>5 DEF LogAppend, TypeOK, DiskTypeOK
<1>3. CASE OpenLogs
  <2>1. <<Sys("header")>> \in Seq(Entries) /\ <<>> \in Seq(Entries)
    BY DEF Sys, Entries, SysLines
  <2>2. file' \in [Logs -> Seq(Entries)]
    BY <1>3, <2>1 DEF OpenLogs, NewLogs
  <2>3. mode' \in {"disk", "memory", "removed"}
    BY <1>3, JobAssumption DEF OpenLogs, JobAssumption
  <2>. QED
    BY <1>3, <2>2, <2>3 DEF OpenLogs, TypeOK, DiskTypeOK, envVars
<1>4. CASE PopenFails
  BY <1>4 DEF PopenFails, Fault, TypeOK, DiskTypeOK, otherVars, diskVars
<1>5. CASE StartReader
  BY <1>5 DEF StartReader, NextReader, Fault, TypeOK, DiskTypeOK, diskVars, Streams
<1>6. CASE KillTimedOut
  BY <1>6 DEF KillTimedOut, Kill, Fault, TypeOK, DiskTypeOK, diskVars
<1>7. CASE StopChild
  BY <1>7 DEF StopChild, Kill, Fault, TypeOK, DiskTypeOK, diskVars
<1>8. CASE InterruptedKill
  BY <1>8 DEF InterruptedKill, Kill, Fault, TypeOK, DiskTypeOK, diskVars
<1>9. CASE CloseSink
  BY <1>9 DEF CloseSink, TypeOK, DiskTypeOK, envVars
<1>10. CASE ChildStopped
  <2>1. faults' \in Nat
    BY <1>10 DEF ChildStopped, Fault, TypeOK, DiskTypeOK
  <2>2. PICK code \in Int : Dies(code)
    BY <1>10 DEF ChildStopped
  <2>. QED
    BY <2>1, <2>2 DEF Dies, TypeOK, DiskTypeOK, diskVars
<1>11. CASE Interrupt
  BY <1>11 DEF Interrupt, TypeOK, DiskTypeOK, Sys
<1>12. CASE InterruptPopen
  BY <1>12 DEF InterruptPopen, TypeOK, DiskTypeOK, diskVars
<1>13. CASE Crash
  BY <1>13 DEF Crash, Fault, TypeOK, DiskTypeOK, diskVars, otherVars
<1>14. ASSUME NEW s \in Streams, SinkAcquire(s) PROVE DiskTypeOK'
  BY <1>14 DEF SinkAcquire, TypeOK, DiskTypeOK, envVars
<1>15. ASSUME NEW s \in Streams, WriteOwn(s) PROVE DiskTypeOK'
  <2>1. Head(hand[s]) \in Entries
    BY <1>15, HeadTailProperties DEF WriteOwn, WorkInHand, TypeOK, ReaderTypeOK, Entries
  <2>2. Put(s, Head(hand[s])) /\ s \in Logs
    BY <1>15 DEF WriteOwn, Logs
  <2>3. file' \in [Logs -> Seq(Entries)] /\ failed' \subseteq Logs /\ faults' \in Nat
    <3>1. CASE file' = Appended(s, Head(hand[s])) /\ UNCHANGED <<failed, faults>>
      BY <2>1, <2>2, <3>1, AppendedType DEF TypeOK, DiskTypeOK
    <3>2. CASE failed' = failed \cup {s} /\ UNCHANGED file /\ (UNCHANGED faults \/ Fault("disk"))
      BY <2>2, <3>2 DEF Fault, TypeOK, DiskTypeOK
    <3>. QED
      BY <2>2, <3>1, <3>2 DEF Put
  <2>4. lock' \in {"free", "main"} \cup Streams
    BY <1>15 DEF WriteOwn, TypeOK, DiskTypeOK
  <2>. QED
    BY <1>15, <2>3, <2>4 DEF WriteOwn, TypeOK, DiskTypeOK
<1>16. ASSUME NEW s \in Streams, WriteCombined(s) PROVE DiskTypeOK'
  <2>1. Head(hand[s]) \in Entries
    BY <1>16, HeadTailProperties DEF WriteCombined, WorkInHand, TypeOK, ReaderTypeOK, Entries
  <2>2. Put("combined", Head(hand[s])) /\ "combined" \in Logs
    BY <1>16 DEF WriteCombined, Logs
  <2>3. file' \in [Logs -> Seq(Entries)] /\ failed' \subseteq Logs /\ faults' \in Nat
    <3>1. CASE file' = Appended("combined", Head(hand[s])) /\ UNCHANGED <<failed, faults>>
      BY <2>1, <2>2, <3>1, AppendedType DEF TypeOK, DiskTypeOK
    <3>2. CASE failed' = failed \cup {"combined"} /\ UNCHANGED file /\ (UNCHANGED faults \/ Fault("disk"))
      BY <2>2, <3>2 DEF Fault, TypeOK, DiskTypeOK
    <3>. QED
      BY <2>2, <3>1, <3>2 DEF Put
  <2>4. lock' \in {"free", "main"} \cup Streams
    BY <1>16 DEF WriteCombined, TypeOK, DiskTypeOK
  <2>. QED
    BY <1>16, <2>3, <2>4 DEF WriteCombined, TypeOK, DiskTypeOK
<1>17. ASSUME NEW s \in Streams, ReaderFails(s) PROVE DiskTypeOK'
  BY <1>17 DEF ReaderFails, RecordError, AfterError, Fault, TypeOK, DiskTypeOK, diskVars
<1>18. CASE UNCHANGED <<diskVars, envVars>>
  BY <1>18 DEF TypeOK, DiskTypeOK, diskVars, envVars, Logs, Streams, SysLines, Entries, Units,
     Sys, otherVars
<1>19. CASE LogsRemoved
  BY <1>19 DEF LogsRemoved, Fault, TypeOK, DiskTypeOK
<1>20. LogAcquire \/ LogAppend \/ OpenLogs \/ PopenFails \/ StartReader \/ KillTimedOut \/
   StopChild \/ InterruptedKill \/ CloseSink \/ ChildStopped \/ Interrupt \/ InterruptPopen \/
   Crash \/ (\E s \in Streams : SinkAcquire(s)) \/ (\E s \in Streams : WriteOwn(s)) \/ (\E s \in
   Streams : WriteCombined(s)) \/ (\E s \in Streams : ReaderFails(s)) \/ LogsRemoved \/ UNCHANGED <<diskVars,
   envVars>>
  BY DEF Next, Main, Child, Environment, Reader, Popen, AppendThread, WaitChild, JoinReaders,
     Settle, AwaitKilled, TimedOut, LauncherError, InterruptedLog, FindStillOpen,
     CollectNotes, Finish, ChildExits, ChildSigpipe, KillLands, BackgroundExits, ChildWrite,
     BackgroundWrite, ReadChunk, ReadEof, SinkDrop, Drain, ReaderEnds, Dies, vars, mainVars,
     resultVars, localVars, otherVars, childVars, jobVars, readerVars, lineVars, flagVars,
     diskVars, envVars
<1>. QED
  BY <1>1, <1>2, <1>3, <1>4, <1>5, <1>6, <1>7, <1>8, <1>9, <1>10, <1>11, <1>12, <1>13, <1>14,
     <1>15, <1>16, <1>17, <1>18, <1>19, <1>20

LEMMA TypeStep ==
  ASSUME TypeOK, PipeHistory, WorkInHand, [Next]_vars
  PROVE  TypeOK'
BY MainTypeStep, JobTypeStep, ReaderTypeStep, DiskTypeStep DEF TypeOK

LEMMA TypeInit == Init => TypeOK
<1>. SUFFICES ASSUME Init PROVE TypeOK
  OBVIOUS
<1>1. MainTypeOK
  <2>1. \A S : <<>> \in Seq(S)
    OBVIOUS
  <2>2. tails \in [Streams -> Seq(Entries)] /\ todo \in Seq(Logs \X ({"sys"} \X SysLines))
    BY <2>1 DEF Init
  <2>3. pc \in MainPcs /\ after \in MainPcs /\ status \in Statuses /\ exitCode \in Int
    BY DEF Init, MainPcs, Statuses, None
  <2>4. proc \in BOOLEAN /\ threads = {} /\ stillOpen = {} /\ notes = {}
    BY DEF Init
  <2>. QED
    BY <2>2, <2>3, <2>4 DEF MainTypeOK
<1>2. JobTypeOK
  <2>1. 0 \in 0..PipeCap
    BY JobAssumption DEF JobAssumption
  <2>2. pipe \in [Streams -> 0..PipeCap]
    BY <2>1 DEF Init
  <2>3. written \in [Streams -> Nat] /\ atExit \in [Streams -> Nat]
    BY DEF Init
  <2>4. child \in {"none", "running", "exited"} /\ fate \in Int
    BY DEF Init
  <2>5. killSent \in BOOLEAN /\ holders \subseteq Streams
    BY DEF Init
  <2>. QED
    BY <2>2, <2>3, <2>4, <2>5 DEF JobTypeOK
<1>3. ReaderTypeOK
  BY DEF Init, ReaderTypeOK, ReaderPcs
<1>4. DiskTypeOK
  <2>1. <<>> \in Seq(Entries)
    OBVIOUS
  <2>2. file \in [Logs -> Seq(Entries)]
    BY <2>1 DEF Init
  <2>. QED
    BY <2>2 DEF Init, DiskTypeOK
<1>. QED
  BY <1>1, <1>2, <1>3, <1>4 DEF TypeOK

-----------------------------------------------------------------------------
(* The other parts of the inductive invariant.                             *)

LEMMA PipeStep ==
  ASSUME TypeOK, PipeHistory, [Next]_vars
  PROVE  PipeHistory'
<1>1. ASSUME NEW s \in Streams, pipe' = [pipe EXCEPT ![s] = 0], UNCHANGED written
      PROVE  PipeHistory'
  BY <1>1 DEF PipeHistory, TypeOK, JobTypeOK
<1>2. ASSUME NEW s \in Streams, pipe' = [pipe EXCEPT ![s] = @ + 1],
             written' = [written EXCEPT ![s] = @ + 1]
      PROVE  PipeHistory'
  BY <1>2, JobAssumption DEF PipeHistory, TypeOK, JobTypeOK, JobAssumption
<1>3. CASE UNCHANGED <<pipe, written>>
  BY <1>3 DEF PipeHistory
<1>4. ASSUME NEW s \in Streams, Reader(s) PROVE PipeHistory'
  BY <1>1, <1>3, <1>4 DEF Reader, ReadChunk, ReadEof, SinkDrop, SinkAcquire, WriteOwn,
     WriteCombined, ReaderFails, Drain, ReaderEnds, childVars, jobVars
<1>5. CASE Main
  BY <1>3, <1>5 DEF Main, OpenLogs, Popen, PopenFails, LogAcquire, LogAppend, StartReader,
     AppendThread, WaitChild, JoinReaders, Settle, KillTimedOut, AwaitKilled, TimedOut,
     StopChild, LauncherError, InterruptedKill, InterruptedLog, FindStillOpen, CloseSink,
     CollectNotes, Finish, otherVars, childVars
<1>6. CASE Child
  BY <1>2, <1>3, <1>6 DEF Child, ChildExits, ChildSigpipe, KillLands, ChildWrite, Dies
<1>7. CASE Environment
  BY <1>2, <1>3, <1>7 DEF Environment, ChildStopped, BackgroundExits, Interrupt,
     InterruptPopen, Crash, LogsRemoved, BackgroundWrite, Dies, otherVars, childVars
<1>8. CASE UNCHANGED vars
  BY <1>3, <1>8 DEF vars, childVars
<1>. QED
  BY <1>4, <1>5, <1>6, <1>7, <1>8 DEF Next

\* Only write_to_log and the steps that call it move todo and after.
LEMMA CallStep ==
  ASSUME TypeOK, WorkInHand, Main
  PROVE  Calling' => todo' # <<>> /\ after' \in {"spawn", "final", "returned"}
<1>1. CASE LogAcquire
  BY <1>1 DEF LogAcquire, localVars, WorkInHand, Calling
<1>2. CASE LogAppend
  BY <1>2 DEF LogAppend, WorkInHand, Calling
<1>3. CASE Popen \/ PopenFails \/ TimedOut \/ LauncherError \/ InterruptedLog \/ Finish
  BY <1>3 DEF Popen, PopenFails, TimedOut, LauncherError, InterruptedLog, Finish, Log, InAllLogs
<1>4. CASE OpenLogs \/ StartReader \/ AppendThread \/ WaitChild \/ Settle \/ AwaitKilled
           \/ FindStillOpen \/ CloseSink \/ CollectNotes
  BY <1>4 DEF OpenLogs, StartReader, AppendThread, WaitChild, Settle, AwaitKilled,
     FindStillOpen, CloseSink, CollectNotes, Calling
<1>5. CASE KillTimedOut \/ StopChild \/ InterruptedKill
  BY <1>5 DEF KillTimedOut, StopChild, InterruptedKill, Kill, Calling
<1>6. CASE JoinReaders
  BY <1>6 DEF JoinReaders, JoinNext, Calling
<1>. QED
  BY <1>1, <1>2, <1>3, <1>4, <1>5, <1>6 DEF Main

\* A reader that has to write has something to write.
LEMMA HandStep ==
  ASSUME TypeOK, PipeHistory, WorkInHand, NEW t \in Streams, Reader(t)
  PROVE  \A s \in Streams : rd'[s] \in {"acquire", "own", "comb"} => hand'[s] # <<>>
<1>1. CASE ReadChunk(t)
  <2>1. PICK k \in 0..Len(Text(t)) :
          /\ hand' = [hand EXCEPT ![t] = SubSeq(Text(t), 1, k)]
          /\ rd' = [rd EXCEPT ![t] = IF k = 0 THEN "read" ELSE "acquire"]
    BY <1>1 DEF ReadChunk
  <2>2. Text(t) \in Seq(Units)
    BY ChunkSeq, ConcatProperties DEF PipeHistory, Text, TypeOK, ReaderTypeOK
  <2>3. Len(SubSeq(Text(t), 1, k)) = k
    BY <2>2, LenProperties, SubSeqProperties
  <2>. QED
    BY <2>1, <2>3 DEF WorkInHand, TypeOK, ReaderTypeOK
<1>2. CASE ReadEof(t)
  BY <1>2 DEF ReadEof, WorkInHand, TypeOK, ReaderTypeOK
<1>3. CASE SinkDrop(t)
  BY <1>3 DEF SinkDrop, AfterEmit, WorkInHand, TypeOK, ReaderTypeOK
<1>4. CASE SinkAcquire(t) \/ WriteOwn(t)
  BY <1>4 DEF SinkAcquire, WriteOwn, lineVars, WorkInHand, TypeOK, ReaderTypeOK
<1>5. CASE WriteCombined(t)
  BY <1>5 DEF WriteCombined, AfterEmit, WorkInHand, TypeOK, ReaderTypeOK
<1>6. CASE ReaderFails(t) \/ Drain(t) \/ ReaderEnds(t)
  BY <1>6 DEF ReaderFails, AfterError, Drain, ReaderEnds, lineVars, WorkInHand, TypeOK,
     ReaderTypeOK
<1>. QED
  BY <1>1, <1>2, <1>3, <1>4, <1>5, <1>6 DEF Reader

\* What the steps of anybody else leave alone.
LEMMA OtherStep ==
  ASSUME Child \/ Environment \/ UNCHANGED vars
  PROVE  /\ UNCHANGED <<readerVars, closed, failed, file, todo, after>>
         /\ UNCHANGED mode \/ mode' = "removed"
         /\ \/ UNCHANGED <<lock, pc>>
            \/ Interrupt
            \/ UNCHANGED lock /\ pc' \in {"ki", "crashed"}
<1>1. CASE Child
  BY <1>1 DEF Child, ChildExits, ChildSigpipe, KillLands, ChildWrite, Dies, mainVars, diskVars
<1>2. CASE ChildStopped \/ BackgroundExits \/ \E s \in Streams : BackgroundWrite(s)
  BY <1>2 DEF ChildStopped, BackgroundExits, BackgroundWrite, Dies, mainVars, diskVars
<1>3. CASE Interrupt
  BY <1>3 DEF Interrupt, localVars
<1>4. CASE InterruptPopen \/ Crash \/ LogsRemoved
  BY <1>4 DEF InterruptPopen, Crash, LogsRemoved, mainVars, localVars, otherVars, diskVars
<1>5. CASE UNCHANGED vars
  BY <1>5 DEF vars, mainVars, diskVars
<1>. QED
  BY <1>1, <1>2, <1>3, <1>4, <1>5 DEF Environment

\* Where an interrupt or a crash sends the main thread.
LEMMA OtherMoves ==
  ASSUME Child \/ Environment \/ UNCHANGED vars, pc' # pc
  PROVE  pc' \in {"ki", "escaped", "crashed"} /\ (pc \in Ended => pc' \in Ended)
<1>1. Interrupt \/ InterruptPopen \/ Crash
  BY DEF Child, ChildExits, ChildSigpipe, KillLands, ChildWrite, Dies, mainVars, vars,
     Environment, ChildStopped, BackgroundExits, BackgroundWrite, LogsRemoved
<1>. QED
  BY <1>1 DEF Interrupt, InTry, InterruptPopen, Crash, Ended

\* What the steps of a reader leave alone, in the main thread and in the sink.
LEMMA ReaderFrame ==
  ASSUME NEW t \in Streams, Reader(t)
  PROVE  UNCHANGED <<mainVars, closed, mode, child>>
BY DEF Reader, ReadChunk, ReadEof, SinkDrop, SinkAcquire, WriteOwn, WriteCombined, ReaderFails,
   Drain, ReaderEnds, diskVars, childVars, jobVars

\* The main thread starts readers and does nothing else to them.
LEMMA MainFrame ==
  ASSUME Main
  PROVE  /\ UNCHANGED <<hand, pending, ring, eof, errored, undecoded, replaced>>
         /\ rd' = rd \/ (pc = "spawn" /\ rd' = [rd EXCEPT ![NextReader] = "read"])
<1>1. CASE StartReader
  BY <1>1 DEF StartReader, lineVars, flagVars
<1>2. CASE UNCHANGED readerVars
  BY <1>2 DEF readerVars, lineVars, flagVars
<1>3. Main => StartReader \/ UNCHANGED readerVars
  BY DEF Main, OpenLogs, Popen, PopenFails, LogAcquire, LogAppend, AppendThread, WaitChild,
     JoinReaders, Settle, KillTimedOut, AwaitKilled, TimedOut, StopChild, LauncherError,
     InterruptedKill, InterruptedLog, FindStillOpen, CloseSink, CollectNotes, Finish, otherVars
<1>. QED
  BY <1>1, <1>2, <1>3

\* Of the main thread's steps only these two touch the lock; the first alone enters "held".
LEMMA MainLock ==
  ASSUME TypeOK, WorkInHand, Main
  PROVE  \/ LogAcquire
         \/ LogAppend /\ pc' # "held"
         \/ UNCHANGED lock /\ pc' # "held"
<1>1. CASE LogAppend
  BY <1>1 DEF LogAppend, WorkInHand, Calling
<1>2. CASE OpenLogs \/ Popen \/ PopenFails \/ StartReader \/ AppendThread \/ WaitChild \/ Settle
           \/ AwaitKilled \/ TimedOut \/ LauncherError \/ InterruptedLog
  BY <1>2 DEF OpenLogs, Popen, PopenFails, StartReader, AppendThread, WaitChild, Settle,
     AwaitKilled, TimedOut, LauncherError, InterruptedLog, Log, otherVars, diskVars
<1>3. CASE KillTimedOut \/ StopChild \/ InterruptedKill \/ FindStillOpen \/ CloseSink
           \/ CollectNotes \/ Finish
  BY <1>3 DEF KillTimedOut, StopChild, InterruptedKill, FindStillOpen, CloseSink, CollectNotes,
     Finish, Kill, Log, otherVars, diskVars
<1>4. CASE JoinReaders
  BY <1>4 DEF JoinReaders, JoinNext, otherVars, diskVars
<1>. QED
  BY <1>1, <1>2, <1>3, <1>4 DEF Main

LEMMA WorkStep ==
  ASSUME TypeOK, PipeHistory, WorkInHand, [Next]_vars
  PROVE  WorkInHand'
<1>1. CASE Main
  <2>1. NextReader \in Streams
    BY DEF NextReader, Streams
  <2>2. \A s \in Streams : rd'[s] \in {"acquire", "own", "comb"} => hand'[s] # <<>>
    BY <1>1, <2>1, MainFrame DEF WorkInHand, TypeOK, ReaderTypeOK, lineVars
  <2>. QED
    BY <1>1, <2>2, CallStep DEF WorkInHand
<1>2. ASSUME NEW t \in Streams, Reader(t) PROVE WorkInHand'
  BY <1>2, ReaderFrame, HandStep DEF WorkInHand, Calling, mainVars
<1>3. CASE Child \/ Environment \/ UNCHANGED vars
  <2>1. Calling' => Calling
    BY <1>3, OtherStep DEF Calling, Interrupt
  <2>. QED
    BY <1>3, <2>1, OtherStep DEF WorkInHand, readerVars, lineVars
<1>. QED
  BY <1>1, <1>2, <1>3 DEF Next

\* At most one thread is in the middle of a write.
LEMMA LockStep ==
  ASSUME TypeOK, WorkInHand, MutualExclusion, [Next]_vars
  PROVE  MutualExclusion'
<1>1. CASE Main
  <2>1. \A s \in Streams : rd'[s] \in {"own", "comb"} => rd[s] \in {"own", "comb"}
    <3>1. NextReader \in Streams
      BY DEF NextReader, Streams
    <3>. QED
      BY <1>1, <3>1, MainFrame DEF TypeOK, ReaderTypeOK
  <2>2. CASE LogAcquire
    BY <2>1, <2>2 DEF LogAcquire, MutualExclusion, Streams
  <2>3. CASE LogAppend /\ pc' # "held"
    BY <2>1, <2>3 DEF LogAppend, MutualExclusion, Streams
  <2>4. CASE UNCHANGED lock /\ pc' # "held"
    BY <2>1, <2>4 DEF MutualExclusion
  <2>. QED
    BY <1>1, <2>2, <2>3, <2>4, MainLock
<1>2. ASSUME NEW t \in Streams, Reader(t) PROVE MutualExclusion'
  <2>1. pc' = pc
    BY <1>2, ReaderFrame DEF mainVars
  <2>2. CASE SinkAcquire(t)
    BY <2>1, <2>2 DEF SinkAcquire, MutualExclusion, TypeOK, ReaderTypeOK, Streams
  <2>3. CASE WriteOwn(t)
    BY <2>1, <2>3 DEF WriteOwn, MutualExclusion, TypeOK, ReaderTypeOK
  <2>4. CASE WriteCombined(t)
    BY <2>1, <2>4 DEF WriteCombined, AfterEmit, MutualExclusion, TypeOK, ReaderTypeOK, Streams
  <2>5. CASE ReadChunk(t) \/ ReadEof(t) \/ SinkDrop(t) \/ ReaderFails(t) \/ Drain(t)
             \/ ReaderEnds(t)
    BY <2>1, <2>5 DEF ReadChunk, ReadEof, SinkDrop, AfterEmit, ReaderFails, AfterError, Drain,
       ReaderEnds, diskVars, MutualExclusion, TypeOK, ReaderTypeOK
  <2>. QED
    BY <1>2, <2>2, <2>3, <2>4, <2>5 DEF Reader
<1>3. CASE Child \/ Environment \/ UNCHANGED vars
  <2>1. rd' = rd
    BY <1>3, OtherStep DEF readerVars
  <2>2. CASE Interrupt
    BY <2>1, <2>2 DEF Interrupt, MutualExclusion, Streams
  <2>. QED
    BY <1>3, <2>1, <2>2, OtherStep DEF MutualExclusion
<1>. QED
  BY <1>1, <1>2, <1>3 DEF Next

-----------------------------------------------------------------------------
(* The seal.                                                               *)

\* An entry that is not the footer does not make a footer.
LEMMA NoFooterAdded ==
  ASSUME DiskTypeOK, NEW l \in Logs, NEW e \in Entries, e # Sys("footer"),
         file' = Appended(l, e), FooterWritten'
  PROVE  FooterWritten
<1>1. "combined" \in Logs /\ file["combined"] \in Seq(Entries)
  BY DEF DiskTypeOK, Logs
<1>2. PICK i \in 1..Len(file'["combined"]) : file'["combined"][i] = Sys("footer")
  BY DEF FooterWritten
<1>3. file'["combined"] = file["combined"] \/ file'["combined"] = Append(file["combined"], e)
  BY <1>1 DEF Appended, DiskTypeOK
<1>4. CASE file'["combined"] = Append(file["combined"], e)
  BY <1>1, <1>2, <1>4, AppendProperties DEF FooterWritten
<1>. QED
  BY <1>2, <1>3, <1>4 DEF FooterWritten

\* The seal as the main thread's own steps keep it; write_to_log and CloseSink apart.
LEMMA MainSeal ==
  ASSUME TypeOK, WorkInHand, MutualExclusion, Sealing, Main
  PROVE  Sealing'
<1>. DEFINE Lone == \A s \in Streams : rd'[s] \in {"own", "comb"} => rd[s] \in {"own", "comb"}
            NoFooter(q) == \A i \in 1..Len(q) : q[i][2] # Sys("footer")
<1>1. Lone
  <2>1. NextReader \in Streams
    BY DEF NextReader, Streams
  <2>. QED
    BY <2>1, MainFrame DEF TypeOK, ReaderTypeOK
<1>2. UNCHANGED file => FooterWritten' = FooterWritten
  BY DEF FooterWritten
<1>3. pc \notin Ended /\ ~FooterWritten
  <2>1. pc \notin Ended
    BY DEF Main, OpenLogs, Popen, PopenFails, LogAcquire, LogAppend, StartReader, AppendThread,
       WaitChild, JoinReaders, JoinNext, Settle, KillTimedOut, AwaitKilled, TimedOut, StopChild,
       LauncherError, InterruptedKill, InterruptedLog, FindStillOpen, CloseSink, CollectNotes,
       Finish, Ended
  <2>. QED
    BY <2>1 DEF Sealing
<1>4. CASE LogAcquire
  BY <1>1, <1>2, <1>3, <1>4 DEF LogAcquire, localVars, Sealing, Calling
<1>5. CASE LogAppend
  <2>1. Calling /\ todo # <<>> /\ todo \in Seq(Logs \X ({"sys"} \X SysLines))
    BY <1>5 DEF LogAppend, WorkInHand, Calling, TypeOK, MainTypeOK
  <2>2. CASE after = "returned"
    <3>1. closed /\ Tail(todo) = <<>>
      <4>1. closed /\ todo = <<<<"combined", Sys("footer")>>>>
        BY <2>1, <2>2 DEF Sealing
      <4>2. \A x : Tail(<<x>>) = <<>>
        OBVIOUS
      <4>. QED
        BY <4>1, <4>2
    <3>. QED
      BY <1>1, <1>5, <2>2, <3>1 DEF LogAppend, Sealing, Calling, Ended
  <2>3. CASE after # "returned"
    <3>1. NoFooter(todo)
      BY <2>1, <2>3 DEF Sealing
    <3>2. NoFooter(Tail(todo)) /\ Head(todo)[2] # Sys("footer")
      BY <2>1, <3>1, HeadTailProperties
    <3>3. Head(todo)[1] \in Logs /\ Head(todo)[2] \in Entries
      BY <2>1, HeadTailProperties DEF Entries
    <3>4. ~FooterWritten'
      <4>1. CASE file' = Appended(Head(todo)[1], Head(todo)[2])
        BY <1>3, <3>2, <3>3, <4>1, NoFooterAdded DEF TypeOK
      <4>. QED
        BY <1>2, <1>3, <1>5, <4>1 DEF LogAppend
    <3>5. after \in {"spawn", "final"}
      BY <2>1, <2>3 DEF WorkInHand
    <3>. QED
      BY <1>1, <1>5, <2>3, <3>2, <3>4, <3>5 DEF LogAppend, Sealing, Calling
  <2>. QED
    BY <2>2, <2>3
<1>6. CASE OpenLogs
  <2>1. ~FooterWritten'
    BY <1>6 DEF OpenLogs, NewLogs, FooterWritten, Sys, Logs
  <2>. QED
    BY <1>1, <1>6, <2>1 DEF OpenLogs, Sealing, Calling
<1>7. CASE Popen \/ PopenFails \/ TimedOut \/ LauncherError \/ InterruptedLog
  <2>1. UNCHANGED <<file, closed>> /\ Calling' /\ after' # "returned"
    BY <1>7 DEF Popen, PopenFails, TimedOut, LauncherError, InterruptedLog, Log, otherVars,
       diskVars, Calling
  <2>2. NoFooter(todo')
    BY <1>7 DEF Popen, PopenFails, TimedOut, LauncherError, InterruptedLog, Log, InAllLogs, Sys
  <2>3. pc' = "acquire"
    BY <1>7 DEF Popen, PopenFails, TimedOut, LauncherError, InterruptedLog, Log
  <2>. QED
    BY <1>1, <1>2, <1>3, <2>1, <2>2, <2>3 DEF Sealing
<1>8. CASE Finish
  <2>1. closed
    BY <1>8 DEF Finish, Sealing
  <2>. QED
    BY <1>1, <1>2, <1>3, <1>8, <2>1 DEF Finish, Log, otherVars, diskVars, Sealing, Calling
<1>9. CASE CloseSink
  <2>1. \A s \in Streams : rd[s] \notin {"own", "comb"}
    BY <1>9 DEF CloseSink, MutualExclusion, Streams
  <2>. QED
    BY <1>1, <1>2, <1>3, <1>9, <2>1 DEF CloseSink, Sealing, Calling
<1>10. CASE CollectNotes
  BY <1>1, <1>2, <1>3, <1>10 DEF CollectNotes, otherVars, diskVars, Sealing, Calling
<1>11. CASE StartReader \/ AppendThread \/ WaitChild \/ Settle \/ AwaitKilled \/ FindStillOpen
  BY <1>1, <1>2, <1>3, <1>11 DEF StartReader, AppendThread, WaitChild, Settle, AwaitKilled,
     FindStillOpen, otherVars, diskVars, Sealing, Calling
<1>12. CASE KillTimedOut \/ StopChild \/ InterruptedKill
  BY <1>1, <1>2, <1>3, <1>12 DEF KillTimedOut, StopChild, InterruptedKill, Kill, diskVars,
     Sealing, Calling
<1>13. CASE JoinReaders
  BY <1>1, <1>2, <1>3, <1>13 DEF JoinReaders, JoinNext, otherVars, diskVars, Sealing, Calling
<1>. QED
  BY <1>4, <1>5, <1>6, <1>7, <1>8, <1>9, <1>10, <1>11, <1>12, <1>13 DEF Main

\* A reader writes only while the sink is open, and never the footer.
LEMMA ReaderSeal ==
  ASSUME TypeOK, WorkInHand, Sealing, NEW t \in Streams, Reader(t)
  PROVE  Sealing'
<1>1. UNCHANGED <<pc, todo, after, closed>>
  BY ReaderFrame DEF mainVars
<1>2. UNCHANGED file => FooterWritten' = FooterWritten
  BY DEF FooterWritten
<1>3. CASE SinkAcquire(t)
  BY <1>1, <1>2, <1>3 DEF SinkAcquire, Accepting, Sealing, Calling
<1>4. CASE WriteOwn(t) \/ WriteCombined(t)
  <2>1. rd[t] \in {"own", "comb"} /\ hand[t] # <<>> /\ hand[t] \in Seq(Units)
    BY <1>4 DEF WriteOwn, WriteCombined, WorkInHand, TypeOK, ReaderTypeOK
  <2>2. Head(hand[t]) \in Units
    BY <2>1, HeadTailProperties
  <2>3. Head(hand[t]) \in Entries /\ Head(hand[t]) # Sys("footer")
    BY <2>2 DEF Units, Entries, Streams, Sys
  <2>4. ~closed /\ ~FooterWritten
    BY <2>1 DEF Sealing
  <2>5. file' = file \/ \E l \in Logs : file' = Appended(l, Head(hand[t]))
    BY <1>4 DEF WriteOwn, WriteCombined, Put, Logs
  <2>6. ~FooterWritten'
    BY <1>2, <2>3, <2>4, <2>5, NoFooterAdded DEF TypeOK
  <2>. QED
    BY <1>1, <2>4, <2>6 DEF Sealing, Calling
<1>5. CASE ReadChunk(t) \/ ReadEof(t) \/ SinkDrop(t) \/ ReaderFails(t) \/ Drain(t)
           \/ ReaderEnds(t)
  <2>1. \A s \in Streams : rd'[s] \in {"own", "comb"} => rd[s] \in {"own", "comb"}
    BY <1>5 DEF ReadChunk, ReadEof, SinkDrop, AfterEmit, ReaderFails, AfterError, Drain,
       ReaderEnds, TypeOK, ReaderTypeOK
  <2>2. UNCHANGED file
    BY <1>5 DEF ReadChunk, ReadEof, SinkDrop, ReaderFails, Drain, ReaderEnds, diskVars
  <2>. QED
    BY <1>1, <1>2, <2>1, <2>2 DEF Sealing, Calling
<1>. QED
  BY <1>3, <1>4, <1>5 DEF Reader

LEMMA SealStep ==
  ASSUME TypeOK, WorkInHand, MutualExclusion, Sealing, [Next]_vars
  PROVE  Sealing'
<1>1. CASE Child \/ Environment \/ UNCHANGED vars
  <2>1. UNCHANGED <<rd, closed, file, todo, after>>
    BY <1>1, OtherStep DEF readerVars
  <2>2. FooterWritten' = FooterWritten
    BY <2>1 DEF FooterWritten
  <2>3. CASE UNCHANGED pc
    BY <2>1, <2>2, <2>3 DEF Sealing, Calling
  <2>4. CASE pc' # pc
    <3>1. pc' \in {"ki", "escaped", "crashed"} /\ (pc \in Ended => pc' \in Ended)
      BY <1>1, <2>4, OtherMoves
    <3>. QED
      BY <2>1, <2>2, <3>1 DEF Sealing, Calling
  <2>. QED
    BY <2>3, <2>4
<1>. QED
  BY <1>1, MainSeal, ReaderSeal DEF Next

-----------------------------------------------------------------------------
(* The header.                                                             *)

\* Appending to a log leaves its first line in place.
LEMMA HeaderStays ==
  ASSUME DiskTypeOK, HeaderIn, NEW l \in Logs, NEW e \in Entries,
         file' = Appended(l, e), UNCHANGED mode
  PROVE  HeaderIn'
<1>1. \A k \in Logs : file[k] \in Seq(Entries)
  BY DEF DiskTypeOK
<1>2. ASSUME mode = "disk", NEW k \in Logs
      PROVE  file'[k] # <<>> /\ file'[k][1] = Sys("header")
  <2>1. file[k] # <<>> /\ file[k][1] = Sys("header")
    BY <1>2 DEF HeaderIn
  <2>2. Len(file[k]) \in Nat \ {0}
    BY <1>1, <2>1, EmptySeq, LenProperties
  <2>3. Append(file[k], e) # <<>> /\ Append(file[k], e)[1] = file[k][1]
    BY <1>1, <2>2, AppendProperties
  <2>. QED
    BY <2>1, <2>3 DEF Appended, DiskTypeOK
<1>. QED
  BY <1>2 DEF HeaderIn

\* Who changes the files: the start of run_job, and whoever appends an entry.
LEMMA FileStep ==
  ASSUME TypeOK, WorkInHand, [Next]_vars
  PROVE  \/ OpenLogs
         \/ UNCHANGED file /\ (UNCHANGED mode \/ mode' = "removed")
         \/ UNCHANGED mode /\ \E l \in Logs, e \in Entries : file' = Appended(l, e)
<1>1. CASE LogAppend
  <2>1. todo # <<>> /\ todo \in Seq(Logs \X ({"sys"} \X SysLines))
    BY <1>1 DEF LogAppend, WorkInHand, Calling, TypeOK, MainTypeOK
  <2>2. Head(todo)[1] \in Logs /\ Head(todo)[2] \in Entries
    BY <2>1, HeadTailProperties DEF Entries
  <2>. QED
    BY <1>1, <2>2 DEF LogAppend
<1>2. ASSUME NEW t \in Streams, WriteOwn(t) \/ WriteCombined(t)
      PROVE  /\ UNCHANGED mode
             /\ \/ UNCHANGED file
                \/ \E l \in Logs, e \in Entries : file' = Appended(l, e)
  <2>1. Head(hand[t]) \in Entries
    BY <1>2, HeadTailProperties DEF WriteOwn, WriteCombined, WorkInHand, TypeOK, ReaderTypeOK,
       Entries
  <2>. QED
    BY <1>2, <2>1 DEF WriteOwn, WriteCombined, Put, Logs
<1>3. ASSUME NEW t \in Streams, Reader(t), ~WriteOwn(t), ~WriteCombined(t)
      PROVE  UNCHANGED <<file, mode>>
  BY <1>3 DEF Reader, ReadChunk, ReadEof, SinkDrop, SinkAcquire, ReaderFails, Drain, ReaderEnds,
     diskVars
<1>4. CASE Main /\ ~OpenLogs /\ ~LogAppend
  BY <1>4 DEF Main, Popen, PopenFails, LogAcquire, StartReader, AppendThread, WaitChild,
     JoinReaders, Settle, KillTimedOut, AwaitKilled, TimedOut, StopChild, LauncherError,
     InterruptedKill, InterruptedLog, FindStillOpen, CloseSink, CollectNotes, Finish, otherVars,
     diskVars
<1>5. CASE Child \/ Environment \/ UNCHANGED vars
  BY <1>5, OtherStep
<1>. QED
  BY <1>1, <1>2, <1>3, <1>4, <1>5 DEF Next

\* The job starts at popen and only there, and no step leads back to the opening.
LEMMA StartStep ==
  ASSUME TypeOK, WorkInHand, [Next]_vars
  PROVE  /\ pc' = "open" => UNCHANGED pc
         /\ child' = child \/ child = "running" \/ (pc = "popen" /\ pc' # "open")
<1>1. CASE Main
  <2>1. child' = child \/ Popen
    BY <1>1 DEF Main, OpenLogs, PopenFails, LogAcquire, LogAppend, StartReader, AppendThread,
       WaitChild, JoinReaders, Settle, KillTimedOut, AwaitKilled, TimedOut, StopChild,
       LauncherError, InterruptedKill, InterruptedLog, FindStillOpen, CloseSink, CollectNotes,
       Finish, otherVars, childVars, jobVars
  <2>2. pc' # "open"
    <3>1. CASE LogAppend
      BY <3>1 DEF LogAppend, WorkInHand, Calling
    <3>2. CASE JoinReaders
      BY <3>2 DEF JoinReaders, JoinNext
    <3>3. CASE ~LogAppend /\ ~JoinReaders
      BY <1>1, <3>3 DEF Main, OpenLogs, Popen, PopenFails, LogAcquire, StartReader, AppendThread,
         WaitChild, Settle, KillTimedOut, Kill, AwaitKilled, TimedOut, StopChild, LauncherError,
         InterruptedKill, InterruptedLog, FindStillOpen, CloseSink, CollectNotes, Finish, Log
    <3>. QED
      BY <3>1, <3>2, <3>3
  <2>. QED
    BY <2>1, <2>2 DEF Popen
<1>2. ASSUME NEW t \in Streams, Reader(t) PROVE UNCHANGED <<pc, child>>
  BY <1>2, ReaderFrame DEF mainVars
<1>3. CASE Child \/ Environment \/ UNCHANGED vars
  <2>1. child' = child \/ child = "running" \/ InterruptPopen
    BY <1>3 DEF Child, ChildExits, ChildSigpipe, KillLands, ChildWrite, Dies, vars, childVars,
       jobVars, Environment, ChildStopped, BackgroundExits, BackgroundWrite, Interrupt, Crash,
       LogsRemoved, otherVars
  <2>2. pc' = "open" => UNCHANGED pc
    BY <1>3, OtherMoves
  <2>. QED
    BY <2>1, <2>2 DEF InterruptPopen
<1>. QED
  BY <1>1, <1>2, <1>3 DEF Next

\* A run_job that has left its caller behind does not come back to it.
LEMMA StayStep ==
  ASSUME [Next]_vars, ~OpenLogs, pc \in {"open", "crashed", "escaped"}
  PROVE  pc' \in {"open", "crashed", "escaped"}
<1>1. ~Main
  BY DEF Main, Popen, PopenFails, LogAcquire, LogAppend, StartReader, AppendThread, WaitChild,
     JoinReaders, JoinNext, Settle, KillTimedOut, AwaitKilled, TimedOut, StopChild,
     LauncherError, InterruptedKill, InterruptedLog, FindStillOpen, CloseSink, CollectNotes,
     Finish
<1>2. ASSUME NEW t \in Streams, Reader(t) PROVE pc' = pc
  BY <1>2, ReaderFrame DEF mainVars
<1>3. CASE Child \/ Environment \/ UNCHANGED vars
  <2>1. CASE pc' # pc /\ pc = "open"
    <3>1. Interrupt \/ InterruptPopen \/ Crash
      BY <1>3, <2>1 DEF Child, ChildExits, ChildSigpipe, KillLands, ChildWrite, Dies, mainVars,
         vars, Environment, ChildStopped, BackgroundExits, BackgroundWrite, LogsRemoved
    <3>. QED
      BY <2>1, <3>1 DEF Interrupt, InTry, InterruptPopen, Crash
  <2>2. CASE pc' # pc /\ pc \in Ended
    BY <1>3, <2>2, OtherMoves DEF Ended
  <2>. QED
    BY <2>1, <2>2 DEF Ended
<1>. QED
  BY <1>1, <1>2, <1>3 DEF Next

LEMMA HeaderStep ==
  ASSUME TypeOK, WorkInHand, HeaderKept, [Next]_vars
  PROVE  HeaderKept'
<1>1. CASE OpenLogs
  <2>1. HeaderIn'
    BY <1>1 DEF OpenLogs, NewLogs, HeaderIn
  <2>. QED
    BY <1>1, <2>1 DEF OpenLogs, HeaderKept
<1>2. CASE ~OpenLogs
  <2>1. HeaderIn => HeaderIn'
    BY <1>2, FileStep, HeaderStays DEF HeaderIn, TypeOK
  <2>2. pc' \notin {"open", "crashed", "escaped"} => pc \notin {"open", "crashed", "escaped"}
    BY <1>2, StayStep
  <2>. QED
    BY <2>1, <2>2, StartStep DEF HeaderKept
<1>. QED
  BY <1>1, <1>2

-----------------------------------------------------------------------------
(* The fate.                                                               *)

\* The job only goes on, from running to exited, and its returncode is given once.
JobGoesOn ==
  /\ child' = child \/ (child = "running" /\ child' = "exited")
  /\ child = "exited" => fate' = fate
  /\ (killSent => killSent') /\ (sigints > 0 => sigints' > 0)
  /\ fate # None => fate' # None

\* A verdict on the job stays true.
LEMMA VerdictStays ==
  ASSUME JobGoesOn, Verdict, UNCHANGED <<status, exitCode>>
  PROVE  Verdict'
BY DEF JobGoesOn, Verdict

LEMMA GoesOnByItself ==
  ASSUME TypeOK, Child \/ Environment \/ UNCHANGED vars, ~InterruptPopen
  PROVE  JobGoesOn /\ UNCHANGED <<status, exitCode>>
<1>1. ASSUME NEW c \in Int, Dies(c), c # None, sigints' = sigints
      PROVE  JobGoesOn /\ UNCHANGED <<status, exitCode>>
  BY <1>1 DEF Dies, JobGoesOn, mainVars, resultVars
<1>2. CASE Child
  <2>1. CASE ChildExits
    <3>1. PICK c \in ExitCodes : Dies(c)
      BY <2>1 DEF ChildExits
    <3>2. c \in Int /\ c # None
      BY JobAssumption DEF JobAssumption, None
    <3>. QED
      BY <1>1, <3>1, <3>2 DEF Dies
  <2>2. CASE ChildSigpipe \/ KillLands
    BY <1>1, <2>2 DEF ChildSigpipe, KillLands, Dies, None
  <2>3. CASE \E s \in Streams : ChildWrite(s)
    BY <2>3 DEF ChildWrite, JobGoesOn, mainVars, resultVars, jobVars, envVars
  <2>. QED
    BY <1>2, <2>1, <2>2, <2>3 DEF Child
<1>3. CASE ChildStopped
  BY <1>1, <1>3 DEF ChildStopped, Dies, None
<1>4. CASE BackgroundExits \/ \E s \in Streams : BackgroundWrite(s)
  BY <1>4 DEF BackgroundExits, BackgroundWrite, JobGoesOn, mainVars, resultVars, jobVars, envVars
<1>5. CASE Interrupt
  BY <1>5 DEF Interrupt, JobGoesOn, resultVars, childVars, jobVars, TypeOK, DiskTypeOK
<1>6. CASE Crash \/ LogsRemoved
  BY <1>6 DEF Crash, LogsRemoved, JobGoesOn, mainVars, resultVars, otherVars, childVars, jobVars
<1>7. CASE UNCHANGED vars
  BY <1>7 DEF vars, JobGoesOn, mainVars, resultVars, childVars, jobVars, envVars
<1>. QED
  BY <1>2, <1>3, <1>4, <1>5, <1>6, <1>7 DEF Environment

\* Readers have no say in it.
LEMMA ReaderFate ==
  ASSUME FateKept, NEW t \in Streams, Reader(t)
  PROVE  FateKept'
<1>1. UNCHANGED <<mainVars, child, fate, killSent, sigints>>
  BY DEF Reader, ReadChunk, ReadEof, SinkDrop, SinkAcquire, WriteOwn, WriteCombined, ReaderFails,
     Drain, ReaderEnds, childVars, jobVars, envVars
<1>. QED
  BY <1>1 DEF FateKept, Deciding, Calling, Verdict, mainVars, resultVars, localVars

\* Of the steps of everybody else an interrupt moves the main thread.
LEMMA OtherFate ==
  ASSUME TypeOK, FateKept, Child \/ Environment \/ UNCHANGED vars
  PROVE  FateKept'
<1>1. CASE InterruptPopen
  <2>1. pc = "popen" /\ pc' = "ki" /\ sigints' > 0 /\ UNCHANGED <<status, exitCode, fate>>
    BY <1>1 DEF InterruptPopen, resultVars, TypeOK, DiskTypeOK
  <2>2. status = "failed" /\ exitCode = None
    BY <2>1 DEF FateKept
  <2>. QED
    BY <2>1, <2>2 DEF FateKept, Deciding, Calling, Verdict, None
<1>2. CASE ~InterruptPopen
  <2>1. JobGoesOn /\ UNCHANGED <<status, exitCode>>
    BY <1>2, GoesOnByItself
  <2>2. Verdict' /\ fate' # None
    BY <2>1, VerdictStays DEF FateKept, JobGoesOn
  <2>3. CASE UNCHANGED pc
    BY <2>1, <2>2, <2>3, OtherStep DEF JobGoesOn, FateKept, Deciding, Calling
  <2>4. CASE pc' # pc
    <3>1. pc' \in {"ki", "escaped", "crashed"} /\ (pc' = "ki" => sigints' > 0)
      <4>1. Interrupt \/ Crash
        BY <1>2, <2>4 DEF Child, ChildExits, ChildSigpipe, KillLands, ChildWrite, Dies, mainVars,
           vars, Environment, ChildStopped, BackgroundExits, BackgroundWrite, LogsRemoved
      <4>2. Crash => pc' = "crashed"
        BY DEF Crash
      <4>3. Interrupt => pc' \in {"ki", "escaped"} /\ sigints' > 0
        BY DEF Interrupt, InTry, TypeOK, DiskTypeOK
      <4>. QED
        BY <4>1, <4>2, <4>3
    <3>. QED
      BY <2>2, <3>1 DEF FateKept, Deciding, Calling
  <2>. QED
    BY <2>3, <2>4
<1>. QED
  BY <1>1, <1>2

\* The main thread's steps, with a status given where the handlers give one.
LEMMA MainFate ==
  ASSUME TypeOK, WorkInHand, FateKept, Main
  PROVE  FateKept'
<1>1. CASE OpenLogs \/ LogAcquire
  BY <1>1 DEF OpenLogs, LogAcquire, resultVars, localVars, childVars, jobVars, envVars,
     FateKept, Deciding, Calling, Verdict
<1>2. CASE LogAppend
  <2>1. after \in {"spawn", "final", "returned"} /\ Calling
    BY <1>2 DEF LogAppend, WorkInHand, Calling
  <2>2. UNCHANGED <<after, status, exitCode, child, fate, killSent, sigints>>
    BY <1>2 DEF LogAppend, resultVars, childVars, jobVars
  <2>3. pc' = after \/ pc' = "acquire"
    BY <1>2 DEF LogAppend
  <2>. QED
    BY <2>1, <2>2, <2>3 DEF FateKept, Deciding, Calling, Verdict
<1>3. CASE Popen
  BY <1>3 DEF Popen, Log, resultVars, envVars, FateKept, Deciding, Calling, Verdict, None
<1>4. CASE PopenFails
  BY <1>4 DEF PopenFails, Log, otherVars, childVars, jobVars, FateKept, Deciding, Calling,
     Verdict, None
<1>5. CASE StartReader \/ AppendThread
  BY <1>5 DEF StartReader, AppendThread, localVars, resultVars, otherVars, childVars, jobVars,
     envVars, FateKept, Deciding, Calling, Verdict
<1>6. CASE WaitChild
  BY <1>6 DEF WaitChild, TimeoutExpires, localVars, resultVars, otherVars, childVars, jobVars,
     envVars, FateKept, Deciding, Calling, Verdict
<1>7. CASE JoinReaders
  BY <1>7 DEF JoinReaders, JoinNext, localVars, resultVars, otherVars, childVars, jobVars,
     envVars, FateKept, Deciding, Calling, Verdict
<1>8. CASE Settle
  BY <1>8 DEF Settle, StatusOf, localVars, otherVars, childVars, jobVars, envVars, FateKept,
     Deciding, Calling, Verdict, None
<1>9. CASE KillTimedOut
  <2>1. child \in {"running", "exited"} /\ HasTimeout
    BY <1>9 DEF KillTimedOut, FateKept, TypeOK, JobTypeOK
  <2>2. pc' \in {"killWait", "stop"} /\ (pc' = "killWait" => killSent' \/ child = "exited")
    BY <1>9, <2>1 DEF KillTimedOut, Kill
  <2>3. killSent => killSent'
    BY <1>9 DEF KillTimedOut, Kill
  <2>4. UNCHANGED <<status, exitCode, child, fate, sigints>>
    BY <1>9 DEF KillTimedOut, resultVars
  <2>. QED
    BY <2>1, <2>2, <2>3, <2>4 DEF FateKept, Deciding, Calling, Verdict
<1>10. CASE StopChild \/ InterruptedKill
  <2>1. pc' \in {"stopWait", "stopJoin", "fail"} \/ (pc = "ki" /\ pc' \in {"kiJoin", "kiLog"})
    BY <1>10 DEF StopChild, InterruptedKill, Kill
  <2>2. killSent => killSent'
    BY <1>10 DEF StopChild, InterruptedKill, Kill
  <2>3. UNCHANGED <<status, exitCode, child, fate, sigints>>
    BY <1>10 DEF StopChild, InterruptedKill, resultVars
  <2>. QED
    BY <2>1, <2>2, <2>3 DEF FateKept, Deciding, Calling, Verdict
<1>11. CASE AwaitKilled \/ FindStillOpen \/ CloseSink \/ CollectNotes
  BY <1>11 DEF AwaitKilled, FindStillOpen, CloseSink, CollectNotes, localVars, resultVars,
     otherVars, childVars, jobVars, envVars, FateKept, Deciding, Calling, Verdict
<1>12. CASE TimedOut
  BY <1>12 DEF TimedOut, Log, otherVars, childVars, jobVars, envVars, FateKept, Deciding,
     Calling, Verdict, None
<1>13. CASE LauncherError \/ InterruptedLog
  BY <1>13 DEF LauncherError, InterruptedLog, Log, otherVars, childVars, jobVars, envVars,
     FateKept, Deciding, Calling, Verdict, None
<1>14. CASE Finish
  BY <1>14 DEF Finish, Log, otherVars, childVars, jobVars, envVars, FateKept, Deciding, Calling,
     Verdict
<1>. QED
  BY <1>1, <1>2, <1>3, <1>4, <1>5, <1>6, <1>7, <1>8, <1>9, <1>10, <1>11, <1>12, <1>13, <1>14
  DEF Main

LEMMA FateStep ==
  ASSUME TypeOK, WorkInHand, FateKept, [Next]_vars
  PROVE  FateKept'
BY MainFate, ReaderFate, OtherFate DEF Next

-----------------------------------------------------------------------------
(* The pipes.                                                              *)

LEMMA MainReads ==
  ASSUME TypeOK, WorkInHand, ReadToTheEnd, Main
  PROVE  ReadToTheEnd'
<1>1. CASE Popen
  BY <1>1, MainFrame DEF Popen, Log, ReadToTheEnd, readerVars
<1>2. CASE OpenLogs
  BY <1>2 DEF OpenLogs, ReadToTheEnd, localVars, childVars, jobVars, readerVars, flagVars
<1>3. CASE ~Popen /\ ~OpenLogs
  <2>1. UNCHANGED child
    BY <1>3 DEF Main, PopenFails, LogAcquire, LogAppend, StartReader, AppendThread, WaitChild,
       JoinReaders, Settle, KillTimedOut, AwaitKilled, TimedOut, StopChild, LauncherError,
       InterruptedKill, InterruptedLog, FindStillOpen, CloseSink, CollectNotes, Finish,
       otherVars, childVars, jobVars
  <2>2. pc' \notin {"open", "popen"}
    <3>1. CASE LogAppend
      BY <3>1 DEF LogAppend, WorkInHand, Calling
    <3>2. CASE JoinReaders
      BY <3>2 DEF JoinReaders, JoinNext
    <3>3. CASE ~LogAppend /\ ~JoinReaders
      BY <1>3, <3>3 DEF Main, PopenFails, LogAcquire, StartReader, AppendThread, WaitChild,
         Settle, KillTimedOut, Kill, AwaitKilled, TimedOut, StopChild, LauncherError,
         InterruptedKill, InterruptedLog, FindStillOpen, CloseSink, CollectNotes, Finish, Log
    <3>. QED
      BY <3>1, <3>2, <3>3
  <2>3. NextReader \in Streams
    BY DEF NextReader, Streams
  <2>. QED
    BY <2>1, <2>2, <2>3, MainFrame DEF ReadToTheEnd, TypeOK, ReaderTypeOK
<1>. QED
  BY <1>1, <1>2, <1>3

\* A reader is through with its pipe after a read that returned nothing.
LEMMA ReaderReads ==
  ASSUME TypeOK, ReadToTheEnd, NEW t \in Streams, Reader(t)
  PROVE  ReadToTheEnd'
<1>1. UNCHANGED <<pc, proc, child>>
  BY ReaderFrame DEF mainVars, localVars
<1>2. CASE ReadEof(t) \/ Drain(t)
  BY <1>1, <1>2 DEF ReadEof, Drain, WriteEndClosed, ReadToTheEnd, TypeOK, ReaderTypeOK, flagVars
<1>3. CASE SinkDrop(t) \/ WriteCombined(t)
  BY <1>1, <1>3 DEF SinkDrop, WriteCombined, AfterEmit, ReadToTheEnd, TypeOK, ReaderTypeOK,
     flagVars
<1>4. CASE ReadChunk(t) \/ SinkAcquire(t) \/ WriteOwn(t) \/ ReaderFails(t) \/ ReaderEnds(t)
  BY <1>1, <1>4 DEF ReadChunk, SinkAcquire, WriteOwn, ReaderFails, AfterError, ReaderEnds,
     ReadToTheEnd, TypeOK, ReaderTypeOK, flagVars
<1>. QED
  BY <1>2, <1>3, <1>4 DEF Reader

LEMMA OtherReads ==
  ASSUME TypeOK, ReadToTheEnd, Child \/ Environment \/ UNCHANGED vars
  PROVE  ReadToTheEnd'
<1>1. UNCHANGED <<rd, eof>>
  BY OtherStep DEF readerVars, flagVars
<1>2. CASE InterruptPopen
  BY <1>1, <1>2 DEF InterruptPopen, ReadToTheEnd
<1>3. CASE ~InterruptPopen
  <2>1. JobGoesOn
    BY <1>3, GoesOnByItself
  <2>2. CASE pc' # pc
    BY <1>1, <2>1, <2>2, OtherMoves DEF ReadToTheEnd, JobGoesOn
  <2>3. CASE UNCHANGED pc
    <3>1. UNCHANGED proc
      BY <1>3 DEF Child, ChildExits, ChildSigpipe, KillLands, ChildWrite, Dies, mainVars, vars,
         Environment, ChildStopped, BackgroundExits, BackgroundWrite, Interrupt, Crash,
         LogsRemoved, localVars
    <3>. QED
      BY <1>1, <2>1, <2>3, <3>1 DEF ReadToTheEnd, JobGoesOn
  <2>. QED
    BY <2>2, <2>3
<1>. QED
  BY <1>2, <1>3

LEMMA ReadStep ==
  ASSUME TypeOK, WorkInHand, ReadToTheEnd, [Next]_vars
  PROVE  ReadToTheEnd'
BY MainReads, ReaderReads, OtherReads DEF Next

\* A returncode of -13 is SIGPIPE's.
LEMMA OnlySigpipe ==
  ASSUME TypeOK, ReadToTheEnd, Next, child' # child, pc # "crashed", proc
  PROVE  fate' # -13
<1>1. ~Main
  <2>1. ~Popen
    BY DEF Popen, ReadToTheEnd
  <2>. QED
    BY <2>1 DEF Main, OpenLogs, PopenFails, LogAcquire, LogAppend, StartReader, AppendThread,
       WaitChild, JoinReaders, Settle, KillTimedOut, AwaitKilled, TimedOut, StopChild,
       LauncherError, InterruptedKill, InterruptedLog, FindStillOpen, CloseSink, CollectNotes,
       Finish, otherVars, childVars, jobVars
<1>2. ASSUME NEW t \in Streams PROVE ~Reader(t)
  BY <1>2, ReaderFrame
<1>3. CASE Child
  <2>1. ~ChildSigpipe
    BY DEF ChildSigpipe, Dies, ReadEndClosed, ReadToTheEnd
  <2>2. ChildExits => fate' # -13
    BY JobAssumption DEF ChildExits, Dies, JobAssumption
  <2>3. KillLands => fate' # -13
    BY DEF KillLands, Dies
  <2>. QED
    BY <1>3, <2>1, <2>2, <2>3 DEF Child, ChildWrite, jobVars
<1>4. CASE Environment
  <2>1. ~InterruptPopen
    BY DEF InterruptPopen, ReadToTheEnd
  <2>2. ChildStopped
    BY <1>4, <2>1 DEF Environment, BackgroundExits, BackgroundWrite, Interrupt, Crash,
       LogsRemoved, otherVars, childVars, jobVars
  <2>. QED
    BY <2>2 DEF ChildStopped, Dies
<1>. QED
  BY <1>1, <1>2, <1>3, <1>4 DEF Next

-----------------------------------------------------------------------------
(* The end of the run, and who runs.                                       *)

\* A reader that has ended does nothing more.
LEMMA DoneStays ==
  ASSUME TypeOK, [Next]_vars, NEW s \in Streams, rd[s] = "done", pc # "spawn" \/ NextReader # s
  PROVE  rd'[s] = "done"
<1>1. CASE Main
  BY <1>1, MainFrame DEF TypeOK, ReaderTypeOK
<1>2. ASSUME NEW t \in Streams, Reader(t) PROVE rd'[s] = "done"
  BY <1>2 DEF Reader, ReadChunk, ReadEof, SinkDrop, SinkAcquire, WriteOwn, WriteCombined,
     ReaderFails, Drain, ReaderEnds, TypeOK, ReaderTypeOK
<1>3. CASE Child \/ Environment \/ UNCHANGED vars
  BY <1>3, OtherStep DEF readerVars
<1>. QED
  BY <1>1, <1>2, <1>3 DEF Next

\* The steps of the job and of the environment keep the local variables of run_job.
LEMMA OtherLocals ==
  ASSUME Child \/ Environment \/ UNCHANGED vars
  PROVE  /\ UNCHANGED <<todo, after, threads, resultVars>>
         /\ UNCHANGED proc
<1>1. CASE Child
  BY <1>1 DEF Child, ChildExits, ChildSigpipe, KillLands, ChildWrite, Dies, mainVars, resultVars
<1>2. CASE Environment
  BY <1>2 DEF Environment, ChildStopped, BackgroundExits, BackgroundWrite, Interrupt,
     InterruptPopen, Crash, LogsRemoved, Dies, mainVars, localVars, resultVars
<1>3. CASE UNCHANGED vars
  BY <1>3 DEF vars, mainVars, resultVars
<1>. QED
  BY <1>1, <1>2, <1>3

LEMMA ClosingStep ==
  ASSUME TypeOK, WorkInHand, Sealing, Closing, [Next]_vars
  PROVE  Closing'
<1>1. CASE Main
  <2>1. CASE CloseSink
    BY <1>1, <2>1 DEF CloseSink, Closing, localVars, resultVars, readerVars
  <2>2. CASE FindStillOpen
    <3>1. ~closed /\ UNCHANGED <<closed, rd, threads>> /\ pc' = "close"
      BY <2>2 DEF FindStillOpen, Closing, Ended, Concluding, Calling, localVars, otherVars,
         diskVars, readerVars
    <3>. QED
      BY <2>2, <3>1 DEF FindStillOpen, Closing
  <2>3. CASE ~CloseSink /\ ~FindStillOpen
    <3>1. UNCHANGED closed
      BY <1>1, <2>3 DEF Main, OpenLogs, Popen, PopenFails, LogAcquire, LogAppend, StartReader,
         AppendThread, WaitChild, JoinReaders, Settle, KillTimedOut, AwaitKilled, TimedOut,
         StopChild, LauncherError, InterruptedKill, InterruptedLog, CollectNotes, Finish,
         otherVars, diskVars
    <3>2. pc' # "close"
      <4>1. CASE LogAppend
        BY <4>1 DEF LogAppend, WorkInHand, Calling
      <4>2. CASE JoinReaders
        BY <4>2 DEF JoinReaders, JoinNext
      <4>3. CASE ~LogAppend /\ ~JoinReaders
        BY <1>1, <2>3, <4>3 DEF Main, OpenLogs, Popen, PopenFails, LogAcquire, StartReader,
           AppendThread, WaitChild, Settle, KillTimedOut, Kill, AwaitKilled, TimedOut, StopChild,
           LauncherError, InterruptedKill, InterruptedLog, CollectNotes, Finish, Log
      <4>. QED
        BY <4>1, <4>2, <4>3
    <3>3. CASE closed
      <4>1. LogAcquire \/ LogAppend \/ CollectNotes \/ Finish
        BY <1>1, <2>3, <3>3 DEF Closing, Ended, Concluding, Calling, Main, OpenLogs, Popen,
           PopenFails, StartReader, AppendThread, WaitChild, JoinReaders, JoinNext, Settle,
           KillTimedOut, AwaitKilled, TimedOut, StopChild, LauncherError, InterruptedKill,
           InterruptedLog
      <4>2. UNCHANGED <<threads, stillOpen, rd>>
        BY <4>1 DEF LogAcquire, LogAppend, CollectNotes, Finish, localVars, resultVars, otherVars,
           readerVars
      <4>3. pc' \in {"collect", "tails"} \cup Ended \/ Concluding'
        <5>1. CASE LogAcquire \/ LogAppend
          BY <3>3, <5>1 DEF LogAcquire, LogAppend, Closing, Ended, Concluding, Calling, localVars
        <5>2. CASE CollectNotes \/ Finish
          BY <5>2 DEF CollectNotes, Finish, Log, Concluding, Calling
        <5>. QED
          BY <4>1, <5>1, <5>2
      <4>. QED
        BY <3>1, <3>3, <4>2, <4>3 DEF Closing
    <3>. QED
      BY <3>1, <3>2, <3>3 DEF Closing
  <2>. QED
    BY <2>1, <2>2, <2>3
<1>2. ASSUME NEW t \in Streams, Reader(t) PROVE Closing'
  <2>1. UNCHANGED <<pc, after, threads, stillOpen, closed>>
    BY <1>2, ReaderFrame DEF mainVars
  <2>2. \A s \in Streams : rd[s] = "done" => rd'[s] = "done"
    BY <1>2 DEF Reader, ReadChunk, ReadEof, SinkDrop, SinkAcquire, WriteOwn, WriteCombined,
       ReaderFails, Drain, ReaderEnds, TypeOK, ReaderTypeOK
  <2>. QED
    BY <2>1, <2>2 DEF Closing, Concluding, Calling, TypeOK, MainTypeOK
<1>3. CASE Child \/ Environment \/ UNCHANGED vars
  <2>1. UNCHANGED <<after, todo, threads, stillOpen, closed, rd>>
    BY <1>3, OtherStep, OtherLocals DEF readerVars, resultVars
  <2>2. CASE UNCHANGED pc
    BY <2>1, <2>2 DEF Closing, Concluding, Calling
  <2>3. CASE pc' # pc
    <3>1. pc' \in {"ki", "escaped", "crashed"} /\ (pc \in Ended => pc' \in Ended)
      BY <1>3, <2>3, OtherMoves
    <3>2. closed => pc' # "ki"
      <4>. SUFFICES ASSUME closed, pc \notin Ended PROVE pc' # "ki"
        BY <3>1 DEF Ended
      <4>1. Interrupt \/ Crash
        BY <1>3, <2>3 DEF Closing, Concluding, Calling, Child, ChildExits, ChildSigpipe,
           KillLands, ChildWrite, Dies, mainVars, vars, Environment, ChildStopped,
           BackgroundExits, BackgroundWrite, LogsRemoved, InterruptPopen
      <4>2. ~InTry
        <5>1. CASE pc \in {"collect", "tails"}
          BY <5>1 DEF InTry
        <5>2. CASE Concluding
          <6>1. todo = <<<<"combined", Sys("footer")>>>>
            BY <5>2 DEF Concluding, Sealing
          <6>. QED
            BY <5>2, <6>1 DEF Concluding, Calling, InTry, Sys
        <5>. QED
          BY <5>1, <5>2 DEF Closing
      <4>. QED
        BY <4>1, <4>2 DEF Interrupt, Crash
    <3>. QED
      BY <2>1, <3>1, <3>2 DEF Closing, Ended
  <2>. QED
    BY <2>2, <2>3
<1>. QED
  BY <1>1, <1>2, <1>3 DEF Next

LEMMA MainStaff ==
  ASSUME TypeOK, WorkInHand, ReadToTheEnd, Staffed, Main
  PROVE  Staffed'
<1>2. UNCHANGED written
  BY DEF Main, OpenLogs, Popen, PopenFails, LogAcquire, LogAppend, StartReader, AppendThread,
     WaitChild, JoinReaders, Settle, KillTimedOut, AwaitKilled, TimedOut, StopChild,
     LauncherError, InterruptedKill, InterruptedLog, FindStillOpen, CloseSink, CollectNotes,
     Finish, otherVars, childVars
<1>3. child' = "none" => child = "none"
  BY DEF Main, OpenLogs, Popen, PopenFails, LogAcquire, LogAppend, StartReader, AppendThread,
     WaitChild, JoinReaders, Settle, KillTimedOut, AwaitKilled, TimedOut, StopChild,
     LauncherError, InterruptedKill, InterruptedLog, FindStillOpen, CloseSink, CollectNotes,
     Finish, otherVars, childVars, jobVars
<1>4. child' = "none" => \A s \in Streams : written'[s] = 0
  BY <1>2, <1>3 DEF Staffed
<1>5. CASE OpenLogs \/ LogAcquire
  BY <1>4, <1>5 DEF OpenLogs, LogAcquire, resultVars, localVars, childVars, jobVars, readerVars,
     Staffed, Starting, Deciding, Manned, Calling, NextReader
<1>6. CASE LogAppend
  <2>1. after \in {"spawn", "final", "returned"} /\ Calling
    BY <1>6 DEF LogAppend, WorkInHand, Calling
  <2>2. UNCHANGED <<after, threads, status, exitCode, child, rd>>
    BY <1>6 DEF LogAppend, resultVars, childVars, jobVars, readerVars
  <2>3. pc' = after \/ pc' = "acquire"
    BY <1>6 DEF LogAppend
  <2>. QED
    BY <1>4, <2>1, <2>2, <2>3 DEF Staffed, Starting, Deciding, Manned, Calling
<1>7. CASE Popen \/ PopenFails
  <2>1. threads = {} /\ \A s \in Streams : rd[s] = "unstarted"
    BY <1>7 DEF Popen, PopenFails, Staffed, Starting
  <2>2. CASE Popen
    BY <1>4, <2>1, <2>2 DEF Popen, Log, readerVars, Staffed, Starting, Deciding, Manned, Calling
  <2>3. CASE PopenFails
    <3>1. child = "none"
      BY <2>3 DEF PopenFails, ReadToTheEnd
    <3>. QED
      BY <1>4, <2>1, <2>3, <3>1 DEF PopenFails, Log, otherVars, childVars, jobVars, Staffed, Starting,
         Deciding, Manned, Calling
  <2>. QED
    BY <1>7, <2>2, <2>3
<1>8. CASE StartReader
  <2>1. UNCHANGED <<threads, after>> /\ pc = "spawn" /\ pc' \in {"append", "stop"}
    BY <1>8 DEF StartReader, localVars
  <2>2. pc' = "append" => rd' = [rd EXCEPT ![NextReader] = "read"]
    BY <1>8 DEF StartReader
  <2>3. NextReader' = NextReader
    BY <2>1 DEF NextReader
  <2>. QED
    BY <1>4, <2>1, <2>2, <2>3 DEF Staffed, Starting, Deciding, Calling, TypeOK, ReaderTypeOK
<1>9. CASE AppendThread
  <2>1. threads \in {{}, {"stdout"}} /\ pc = "append" /\ pc' \in {"wait", "spawn"}
    BY <1>9 DEF AppendThread, Staffed, Starting, Calling
  <2>2. threads' = threads \cup {NextReader} /\ (pc' = "wait" <=> threads' = Streams)
    BY <1>9 DEF AppendThread
  <2>3. UNCHANGED rd
    BY <1>9 DEF AppendThread, otherVars, readerVars
  <2>. QED
    BY <1>4, <2>1, <2>2, <2>3 DEF Staffed, Starting, Deciding, Calling, NextReader, Streams
<1>10. CASE WaitChild \/ JoinReaders
  BY <1>4, <1>10 DEF WaitChild, JoinReaders, JoinNext, localVars, Staffed, Starting, Deciding,
     Calling
<1>11. CASE Settle \/ TimedOut
  BY <1>4, <1>11 DEF Settle, TimedOut, Log, localVars, Staffed, Starting, Deciding, Manned,
     Calling
<1>12. CASE KillTimedOut \/ StopChild \/ InterruptedKill \/ AwaitKilled
  BY <1>4, <1>12 DEF KillTimedOut, StopChild, InterruptedKill, AwaitKilled, Kill, localVars,
     Staffed, Starting, Deciding, Calling
<1>13. CASE LauncherError \/ InterruptedLog
  BY <1>4, <1>13 DEF LauncherError, InterruptedLog, Log, Staffed, Starting, Deciding, Manned,
     Calling
<1>14. CASE FindStillOpen \/ CloseSink \/ CollectNotes \/ Finish
  BY <1>4, <1>14 DEF FindStillOpen, CloseSink, CollectNotes, Finish, Log, localVars, resultVars,
     otherVars, childVars, jobVars, Staffed, Starting, Deciding, Manned, Calling
<1>. QED
  BY <1>5, <1>6, <1>7, <1>8, <1>9, <1>10, <1>11, <1>12, <1>13, <1>14 DEF Main

LEMMA StaffStep ==
  ASSUME TypeOK, WorkInHand, FateKept, ReadToTheEnd, Staffed, [Next]_vars
  PROVE  Staffed'
<1>1. CASE Main
  BY <1>1, MainStaff
<1>2. ASSUME NEW t \in Streams, Reader(t) PROVE Staffed'
  <2>1. UNCHANGED <<pc, after, threads, status, exitCode, child>>
    BY <1>2, ReaderFrame DEF mainVars
  <2>2. UNCHANGED written
    BY <1>2 DEF Reader, ReadChunk, ReadEof, SinkDrop, SinkAcquire, WriteOwn, WriteCombined,
       ReaderFails, Drain, ReaderEnds, childVars
  <2>3. rd[t] # "unstarted" /\ \A s \in Streams \ {t} : rd'[s] = rd[s]
    BY <1>2 DEF Reader, ReadChunk, ReadEof, SinkDrop, SinkAcquire, WriteOwn, WriteCombined,
       ReaderFails, Drain, ReaderEnds, TypeOK, ReaderTypeOK
  <2>4. NextReader' = NextReader
    BY <2>1 DEF NextReader
  <2>. QED
    BY <2>1, <2>2, <2>3, <2>4 DEF Staffed, Starting, Deciding, Manned, Calling
<1>3. CASE Child \/ Environment \/ UNCHANGED vars
  <2>1. UNCHANGED <<after, threads, status, exitCode, rd>>
    BY <1>3, OtherStep, OtherLocals DEF readerVars, resultVars
  <2>2. child' = "none" => child = "none" /\ UNCHANGED written
    BY <1>3 DEF Child, ChildExits, ChildSigpipe, KillLands, ChildWrite, Dies, vars, childVars,
       jobVars, Environment, ChildStopped, BackgroundExits, BackgroundWrite, Interrupt,
       InterruptPopen, Crash, LogsRemoved, otherVars
  <2>3. pc' = pc \/ pc' \in {"ki", "escaped", "crashed"}
    BY <1>3, OtherMoves
  <2>4. child = "none" => child' = "none" \/ pc' = "ki"
    BY <1>3 DEF Child, ChildExits, ChildSigpipe, KillLands, ChildWrite, Dies, vars, childVars,
       jobVars, Environment, ChildStopped, BackgroundExits, BackgroundWrite, Interrupt,
       InterruptPopen, Crash, LogsRemoved, otherVars
  <2>5. NextReader' = NextReader
    BY <2>1 DEF NextReader
  <2>6. (Deciding => Manned)'
    BY <2>1, <2>3, <2>4 DEF Staffed, Deciding, Manned, Calling
  <2>. QED
    BY <2>1, <2>2, <2>3, <2>5, <2>6 DEF Staffed, Starting, Calling
<1>. QED
  BY <1>1, <1>2, <1>3 DEF Next

\* A step keeps the leash: the child runs only with proc bound, and a place after a kill is
\* reached through it.
LEMMA LeashStep ==
  ASSUME TypeOK, WorkInHand, FateKept, ReadToTheEnd, KeptOnLeash, [Next]_vars
  PROVE  KeptOnLeash'
<1>. SUFFICES ASSUME "fork" \notin InterruptPoints, "kill" \notin Faults
              PROVE  KeptOnLeash'
  BY DEF KeptOnLeash
<1>1. ~InterruptPopen
  BY DEF InterruptPopen
<1>2. CASE Main
  <2>1. CASE Popen
    BY <2>1 DEF Popen, Log, KeptOnLeash, Deciding, Calling
  <2>2. CASE OpenLogs \/ PopenFails
    <3>1. child = "none" /\ UNCHANGED <<child, proc, killSent>>
      BY <2>2 DEF OpenLogs, PopenFails, ReadToTheEnd, localVars, otherVars, childVars, jobVars
    <3>. QED
      BY <3>1 DEF KeptOnLeash, Leashed
  <2>3. CASE LogAppend
    <3>1. after \in {"spawn", "final", "returned"} /\ Calling
      BY <2>3 DEF LogAppend, WorkInHand, Calling
    <3>2. UNCHANGED <<after, proc, child, killSent>> /\ (pc' = after \/ pc' = "acquire")
      BY <2>3 DEF LogAppend, childVars, jobVars
    <3>. QED
      BY <3>1, <3>2 DEF KeptOnLeash, Leashed, Deciding, Calling
  <2>4. CASE LogAcquire \/ StartReader \/ AppendThread
    BY <2>4 DEF LogAcquire, StartReader, AppendThread, localVars, otherVars, childVars, jobVars,
       KeptOnLeash, Leashed, Deciding, Calling
  <2>5. CASE WaitChild
    BY <2>5 DEF WaitChild, localVars, otherVars, childVars, jobVars, KeptOnLeash, Leashed,
       Deciding, Calling
  <2>6. CASE JoinReaders
    BY <2>6 DEF JoinReaders, JoinNext, localVars, otherVars, childVars, jobVars, KeptOnLeash,
       Leashed, Deciding, Calling
  <2>7. CASE Settle
    BY <2>7 DEF Settle, localVars, otherVars, childVars, jobVars, KeptOnLeash, Leashed, Deciding,
       Calling
  <2>8. CASE KillTimedOut \/ StopChild \/ InterruptedKill
    <3>1. UNCHANGED <<after, proc, child>> /\ (killSent => killSent')
      BY <2>8 DEF KillTimedOut, StopChild, InterruptedKill, Kill, localVars
    <3>2. pc' \in {"killWait", "stopWait", "stopJoin", "fail", "kiJoin", "kiLog"}
      BY <2>8 DEF KillTimedOut, StopChild, InterruptedKill, Kill, Fault
    <3>3. CASE pc = "ki" /\ ~proc
      BY <2>8, <3>1, <3>2, <3>3 DEF KillTimedOut, StopChild, InterruptedKill, KeptOnLeash,
         Leashed, Deciding, Calling
    <3>4. CASE pc # "ki" \/ proc
      <4>1. child = "running" => killSent'
        BY <2>8, <3>4 DEF KillTimedOut, StopChild, InterruptedKill, Kill, Fault
      <4>. QED
        BY <3>1, <3>2, <4>1 DEF KeptOnLeash, Leashed, Deciding, Calling
    <3>. QED
      BY <3>3, <3>4
  <2>9. CASE AwaitKilled \/ TimedOut \/ LauncherError \/ InterruptedLog
    BY <2>9 DEF AwaitKilled, TimedOut, LauncherError, InterruptedLog, Log, localVars, otherVars,
       childVars, jobVars, KeptOnLeash, Leashed, Deciding, Calling
  <2>10. CASE FindStillOpen \/ CloseSink \/ CollectNotes \/ Finish
    BY <2>10 DEF FindStillOpen, CloseSink, CollectNotes, Finish, Log, localVars, otherVars,
       childVars, jobVars, KeptOnLeash, Leashed, Deciding, Calling
  <2>. QED
    BY <1>2, <2>1, <2>2, <2>3, <2>4, <2>5, <2>6, <2>7, <2>8, <2>9, <2>10 DEF Main
<1>3. ASSUME NEW t \in Streams, Reader(t) PROVE KeptOnLeash'
  <2>1. UNCHANGED <<pc, after, proc, child>>
    BY <1>3, ReaderFrame DEF mainVars
  <2>2. UNCHANGED killSent
    BY <1>3 DEF Reader, ReadChunk, ReadEof, SinkDrop, SinkAcquire, WriteOwn, WriteCombined,
       ReaderFails, Drain, ReaderEnds, childVars, jobVars
  <2>. QED
    BY <2>1, <2>2 DEF KeptOnLeash, Leashed, Deciding, Calling
<1>4. CASE Child \/ Environment \/ UNCHANGED vars
  <2>1. JobGoesOn
    BY <1>1, <1>4, GoesOnByItself
  <2>2. UNCHANGED <<after, proc>>
    BY <1>4, OtherLocals
  <2>3. pc' = pc \/ pc' \in {"ki", "escaped", "crashed"}
    BY <1>4, OtherMoves
  <2>. QED
    BY <2>1, <2>2, <2>3 DEF JobGoesOn, KeptOnLeash, Leashed, Deciding, Calling, TypeOK, JobTypeOK
<1>. QED
  BY <1>2, <1>3, <1>4 DEF Next

LEMMA LastWordStep ==
  ASSUME TypeOK, WorkInHand, FateKept, Sealing, LastWord, [Next]_vars
  PROVE  LastWord'
<1>. DEFINE Last(q) == \A i \in 1..Len(q) : q[i][2] \in {Sys("error"), Sys("footer")}
<1>1. CASE Main
  <2>1. CASE LogAppend
    <3>1. todo # <<>> /\ after \in {"spawn", "final", "returned"} /\ Calling
      BY <2>1 DEF LogAppend, WorkInHand, Calling
    <3>2. UNCHANGED <<after, exitCode>> /\ todo' = Tail(todo)
      BY <2>1 DEF LogAppend, resultVars
    <3>3. pc' = after \/ pc' = "acquire"
      BY <2>1 DEF LogAppend
    <3>4. Last(todo) => Last(Tail(todo))
      BY <3>1, HeadTailProperties DEF TypeOK, MainTypeOK
    <3>. QED
      BY <3>1, <3>2, <3>3, <3>4 DEF LastWord, Calling, Ended
  <2>2. CASE LogAcquire
    BY <2>2 DEF LogAcquire, localVars, resultVars, LastWord, Calling, Ended
  <2>3. CASE PopenFails \/ LauncherError
    <3>1. Last(InAllLogs("error"))
      BY DEF InAllLogs
    <3>. QED
      BY <2>3, <3>1 DEF PopenFails, LauncherError, Log, LastWord, Calling
  <2>4. CASE Finish
    <3>1. Last(<<<<"combined", Sys("footer")>>>>)
      OBVIOUS
    <3>. QED
      BY <2>4, <3>1 DEF Finish, Log, LastWord, Calling
  <2>5. CASE Settle \/ TimedOut \/ InterruptedLog
    BY <2>5 DEF Settle, TimedOut, InterruptedLog, Log, LastWord
  <2>6. CASE FindStillOpen \/ CloseSink \/ CollectNotes
    BY <2>6 DEF FindStillOpen, CloseSink, CollectNotes, LastWord
  <2>7. CASE JoinReaders
    BY <2>7 DEF JoinReaders, JoinNext, resultVars, LastWord, Calling, Ended
  <2>8. CASE \/ OpenLogs \/ Popen \/ StartReader \/ AppendThread \/ WaitChild \/ KillTimedOut
             \/ AwaitKilled \/ StopChild \/ InterruptedKill
    <3>1. UNCHANGED exitCode
      BY <2>8 DEF OpenLogs, Popen, StartReader, AppendThread, WaitChild, KillTimedOut,
         AwaitKilled, StopChild, InterruptedKill, resultVars
    <3>2. pc \notin {"final", "close", "collect", "tails"} \cup Ended /\ ~Calling
      BY <2>8 DEF OpenLogs, Popen, StartReader, AppendThread, WaitChild, KillTimedOut,
         AwaitKilled, StopChild, InterruptedKill, Calling, Ended
    <3>. QED
      BY <3>1, <3>2 DEF LastWord
  <2>. QED
    BY <1>1, <2>1, <2>2, <2>3, <2>4, <2>5, <2>6, <2>7, <2>8 DEF Main
<1>2. ASSUME NEW t \in Streams, Reader(t) PROVE LastWord'
  BY <1>2, ReaderFrame DEF mainVars, LastWord, Calling
<1>3. CASE Child \/ Environment \/ UNCHANGED vars
  <2>1. UNCHANGED <<after, todo, exitCode>>
    BY <1>3, OtherStep, OtherLocals DEF resultVars
  <2>2. CASE UNCHANGED pc
    BY <2>1, <2>2 DEF LastWord, Calling
  <2>3. CASE pc' # pc
    <3>1. pc' \in {"ki", "escaped", "crashed"} /\ (pc \in Ended => pc' \in Ended)
      BY <1>3, <2>3, OtherMoves
    <3>2. exitCode = -99 /\ pc \notin Ended => pc' # "ki"
      <4>. SUFFICES ASSUME exitCode = -99, pc \notin Ended PROVE pc' # "ki"
        OBVIOUS
      <4>1. Interrupt \/ Crash
        BY <1>3, <2>3 DEF FateKept, None, Child, ChildExits, ChildSigpipe,
           KillLands, ChildWrite, Dies, mainVars, vars, Environment, ChildStopped,
           BackgroundExits, BackgroundWrite, LogsRemoved, InterruptPopen
      <4>2. CASE pc \in {"final", "close", "collect", "tails"}
        BY <4>1, <4>2 DEF Interrupt, InTry, Crash
      <4>3. CASE Calling /\ Last(todo)
        <5>1. Head(todo)[2] \in {Sys("error"), Sys("footer")}
          BY <4>3, HeadTailProperties, LenProperties DEF WorkInHand, TypeOK, MainTypeOK
        <5>. QED
          BY <4>1, <4>3, <5>1 DEF Interrupt, InTry, Crash, Calling, Sys
      <4>. QED
        BY <4>2, <4>3 DEF LastWord
    <3>. QED
      BY <2>1, <3>1, <3>2 DEF LastWord, Ended
  <2>. QED
    BY <2>2, <2>3
<1>. QED
  BY <1>1, <1>2, <1>3 DEF Next

-----------------------------------------------------------------------------
(* The theorems.                                                           *)

LEMMA ControlInit == Init => Control
<1>. SUFFICES ASSUME Init PROVE Control
  OBVIOUS
<1>1. PipeHistory /\ WorkInHand /\ MutualExclusion
  BY DEF Init, PipeHistory, WorkInHand, Calling, MutualExclusion
<1>2. Sealing
  BY DEF Init, Sealing, Calling, FooterWritten, Logs
<1>3. HeaderKept
  BY DEF Init, HeaderKept
<1>4. FateKept
  BY DEF Init, FateKept, Deciding, Calling, Verdict, None
<1>5. ReadToTheEnd
  BY DEF Init, ReadToTheEnd
<1>6. Closing /\ Staffed /\ KeptOnLeash /\ LastWord
  BY DEF Init, LastWord, None, Closing, Concluding, Staffed, Starting, KeptOnLeash, Leashed, Deciding, Calling
<1>. QED
  BY TypeInit, <1>1, <1>2, <1>3, <1>4, <1>5, <1>6 DEF Control

LEMMA ControlStep ==
  ASSUME TypeOK, Control, [Next]_vars
  PROVE  TypeOK' /\ Control'
BY TypeStep, PipeStep, WorkStep, LockStep, SealStep, HeaderStep, FateStep, ReadStep,
   ClosingStep, StaffStep, LeashStep, LastWordStep
DEF Control

\* The inductive invariant behind the rest: the lock serialises writers, calls of
\* write_to_log have something to write, and the footer waits for the closed sink.
THEOREM ControlHolds == Spec => [](TypeOK /\ Control)
<1>1. Init => TypeOK /\ Control
  BY TypeInit, ControlInit
<1>2. TypeOK /\ Control /\ [Next]_vars => TypeOK' /\ Control'
  BY ControlStep
<1>. QED
  BY <1>1, <1>2, PTL DEF Spec

\* Every variable of a run of run_job keeps its type, whatever the job writes, the
\* faults and the interrupts are.
THEOREM TypeCorrect == Spec => []TypeOK
BY ControlHolds, PTL

\* Once there is a job, each of its logs begins with the header that names it.
THEOREM HeaderThere == Spec => []HeaderFirst
<1>1. Control => HeaderFirst
  BY DEF Control, HeaderKept, HeaderFirst
<1>. QED
  BY <1>1, ControlHolds, PTL

\* However the run of the job was cut short, the status and the exit code in the result
\* are those of the job: "success" is exit status 0 of a job that ended by itself.
THEOREM FateIsTold == Spec => []FateTold
<1>1. Control => FateTold
  BY DEF Control, FateKept, FateTold, Deciding
<1>. QED
  BY <1>1, ControlHolds, PTL

\* Every way out of run_job kills the job or has seen it end: only an interrupt inside
\* Popen, before there is a proc to kill, or a kill the system refuses can leave it behind.
THEOREM NoJobLeft ==
  ASSUME "fork" \notin InterruptPoints, "kill" \notin Faults
  PROVE  Spec => []NoOrphan
<1>1. Control => NoOrphan
  BY DEF Control, KeptOnLeash, Leashed, Deciding, NoOrphan
<1>. QED
  BY <1>1, ControlHolds, PTL

\* The sink is closed under the lock, by run_job, before the footer is written: no
\* reader thread, however late, appends to a log behind the footer.
THEOREM FooterIsLast == Spec => SealedByFooter
<1>1. TypeOK /\ Control /\ [Next]_vars => [FooterWritten => UNCHANGED file]_vars
  <2>. SUFFICES ASSUME TypeOK, Control, Next, FooterWritten PROVE UNCHANGED file
    BY DEF vars, diskVars
  <2>1. closed /\ pc \in Ended
    BY DEF Control, Sealing
  <2>2. ~Main
    BY <2>1 DEF Main, OpenLogs, Popen, PopenFails, LogAcquire, LogAppend, StartReader,
       AppendThread, WaitChild, JoinReaders, JoinNext, Settle, KillTimedOut, AwaitKilled,
       TimedOut, StopChild, LauncherError, InterruptedKill, InterruptedLog, FindStillOpen,
       CloseSink, CollectNotes, Finish, Ended
  <2>3. ASSUME NEW t \in Streams, Reader(t) PROVE UNCHANGED file
    <3>1. rd[t] \notin {"own", "comb"}
      BY <2>1 DEF Control, Sealing
    <3>. QED
      BY <2>3, <3>1 DEF Reader, ReadChunk, ReadEof, SinkDrop, SinkAcquire, WriteOwn,
         WriteCombined, ReaderFails, Drain, ReaderEnds, diskVars
  <2>. QED
    BY <2>2, <2>3, OtherStep DEF Next
<1>. QED
  BY <1>1, ControlHolds, PTL DEF Spec, SealedByFooter

\* While the wrapper lives its readers read, or drain, every pipe until the job is gone:
\* no job is ended by a pipe that the wrapper has closed.
THEOREM NoBrokenPipe == Spec => NeverClosedOn
<1>1. TypeOK /\ Control /\ [Next]_vars
        => [child' # child /\ pc # "crashed" /\ proc => fate' # -13]_vars
  BY OnlySigpipe DEF Control
<1>. QED
  BY <1>1, ControlHolds, PTL DEF Spec, NeverClosedOn

=============================================================================
