------------------------------- MODULE JobRun -------------------------------
(***************************************************************************)
(* One call of run_job (launcher.py) with everything that runs while it    *)
(* does: the main thread, the two StreamReader threads and their shared    *)
(* LogSink (capture.py), the job, a background process of the job that may *)
(* keep a pipe open, the user's Ctrl+C, and the faults of the environment. *)
(*                                                                         *)
(* A unit of output is a pair <<stream, k>>: the k-th line the job wrote   *)
(* to that stream.  A log is a sequence of units and of the wrapper's own  *)
(* lines <<"sys", what>>.                                                  *)
(***************************************************************************)
EXTENDS Integers, Sequences

CONSTANTS
  Output,         \* Output[s]: units the job writes to stream s before it exits
  ExitCodes,      \* codes the job may exit with
  Bad,            \* units that do not decode: U+FFFD takes their place
  Partial,        \* units without a newline
  Background,     \* streams a background process of the job inherits
  BgOutput,       \* units that process adds to each of them after the job's exit
  PipeCap,        \* units a pipe holds
  TailN,          \* lines of a tail (50 in the code)
  Modes,          \* outcomes of open_job_logs: "disk", "memory"
  HasTimeout,     \* whether the caller gave a timeout
  Slow,           \* whether a deadline may pass while there is work in hand
  Faults,         \* the kinds of fault that may happen
  MaxFaults,      \* bound on faults
  InterruptPoints,\* main-thread positions where SIGINT may land
  MaxInterrupts   \* bound on SIGINTs

Streams == {"stdout", "stderr"}
Logs == Streams \cup {"combined"}
Units == Streams \X Nat
SysLines == {"header", "started", "killed", "error", "interrupted", "footer"}
Entries == Units \cup ({"sys"} \X SysLines)
FaultKinds == {"exec", "thread", "kill", "reader", "disk", "oom", "crash", "removed"}

ASSUME JobAssumption ==
  /\ Output \in [Streams -> Nat]
  /\ ExitCodes \subseteq Nat
  /\ Bad \subseteq Units /\ Partial \subseteq Units
  /\ Background \subseteq Streams
  /\ BgOutput \in Nat /\ PipeCap \in Nat \ {0} /\ TailN \in Nat \ {0}
  /\ Modes \subseteq {"disk", "memory"}
  /\ HasTimeout \in BOOLEAN /\ Slow \in BOOLEAN
  /\ Faults \subseteq FaultKinds /\ MaxFaults \in Nat /\ MaxInterrupts \in Nat
  /\ InterruptPoints \cap {"returned", "escaped", "crashed"} = {}   \* run_job is over

VARIABLES
  \* the main thread, in run_job
  pc, todo, after,     \* position; pending write_to_log calls and where they return
  proc,                \* whether the local variable proc is bound
  threads,             \* streams whose reader thread is in the list threads
  status, exitCode, stillOpen, notes, tails,
  \* the job
  child, fate, killSent, holders, pipe, written, atExit,
  \* the reader threads
  rd, hand, pending, eof, errored, undecoded, replaced, ring,
  \* the lock, the sink and the files
  lock, closed, failed, mode, file,
  \* the environment
  sigints, faults

mainVars   == <<pc, todo, after, proc, threads, status, exitCode, stillOpen, notes, tails>>
resultVars == <<status, exitCode, stillOpen, notes, tails>>
localVars  == <<todo, after, proc, threads>>
jobVars    == <<child, fate, killSent, holders, atExit>>
childVars  == <<jobVars, pipe, written>>
lineVars   == <<hand, pending, ring>>
flagVars   == <<eof, errored, undecoded, replaced>>
readerVars == <<rd, lineVars, flagVars>>
diskVars   == <<lock, closed, failed, mode, file>>
envVars    == <<sigints, faults>>
otherVars  == <<childVars, readerVars, diskVars>>    \* what main does not own
vars == <<mainVars, childVars, readerVars, diskVars, envVars>>

-----------------------------------------------------------------------------
Sys(what) == <<"sys", what>>

None == -1000      \* exit_code before it is assigned

LastN(q) == SubSeq(q, IF Len(q) > TailN THEN Len(q) - TailN + 1 ELSE 1, Len(q))

\* The places of log l that hold a unit of stream s, and the numbers of these units.
Places(l, s) == {i \in 1..Len(file[l]) : file[l][i][1] = s}
Kept(l, s) == {file[l][i][2] : i \in Places(l, s)}

Fault(kind) == kind \in Faults /\ faults < MaxFaults /\ faults' = faults + 1

\* What a read of the pipe of s returns: everything in it.
Chunk(s) == [i \in 1..pipe[s] |-> <<s, written[s] - pipe[s] + i>>]

\* Every write end of the pipe of s is closed.
WriteEndClosed(s) == child = "exited" /\ s \notin holders

\* Nobody will read the pipe of s again and its read end is closed.
ReadEndClosed(s) == rd[s] = "done" \/ pc = "crashed" \/ ~proc

\* The reader of s can do nothing until somebody else acts.
Blocked(s) == \/ rd[s] \in {"read", "drain"} /\ pipe[s] = 0 /\ ~WriteEndClosed(s)
              \/ rd[s] = "acquire" /\ lock = "main"

\* run_job after each join_readers call; the statements of its try block.
JoinNext == [join |-> "settle", killJoin |-> "timedOut", kiJoin |-> "kiLog",
             stopJoin |-> "fail"]
InTry == \/ pc \in {"popen", "spawn", "append", "wait", "join", "settle",
                    "kill", "killWait", "killJoin", "timedOut"}
         \/ pc \in {"acquire", "held"} /\ Head(todo)[2] \in {Sys("started"), Sys("killed")}

Ended == {"returned", "escaped", "crashed"}

Init ==
  /\ pc = "open" /\ todo = <<>> /\ after = "open" /\ proc = FALSE /\ threads = {}
  /\ status = "failed" /\ exitCode = None /\ stillOpen = {} /\ notes = {}
  /\ tails = [s \in Streams |-> <<>>]
  /\ child = "none" /\ fate = 0 /\ killSent = FALSE /\ holders = {}
  /\ pipe = [s \in Streams |-> 0] /\ written = [s \in Streams |-> 0]
  /\ atExit = [s \in Streams |-> 0]
  /\ rd = [s \in Streams |-> "unstarted"]
  /\ hand = [s \in Streams |-> <<>>] /\ pending = [s \in Streams |-> <<>>]
  /\ ring = [s \in Streams |-> <<>>]
  /\ eof = {} /\ errored = {} /\ undecoded = {} /\ replaced = {}
  /\ lock = "free" /\ closed = FALSE /\ failed = {} /\ mode = "disk"
  /\ file = [l \in Logs |-> <<>>]
  /\ sigints = 0 /\ faults = 0

-----------------------------------------------------------------------------
(* write_to_log: the main thread's calls, one element of todo each.        *)

\* Make the calls in order, then continue at next.
Log(calls, next) == pc' = "acquire" /\ todo' = calls /\ after' = next

InAllLogs(what) == <<<<"stdout", Sys(what)>>, <<"stderr", Sys(what)>>, <<"combined", Sys(what)>>>>

\* Log l with one entry more; without files nothing is kept.
Appended_Truncates(l, entry) == IF mode = "disk" THEN [file EXCEPT ![l] = <<entry>>] ELSE file
Appended(l, entry) == IF mode = "disk" THEN [file EXCEPT ![l] = Append(@, entry)] ELSE file

LogAcquire ==
  /\ pc = "acquire" /\ lock = "free"
  /\ lock' = "main" /\ pc' = "held"
  /\ UNCHANGED <<localVars, resultVars, childVars, readerVars, closed, failed, mode, file,
                 envVars>>

\* Append and release.  A failure to write is swallowed.
LogAppend ==
  /\ pc = "held"
  /\ \/ file' = Appended(Head(todo)[1], Head(todo)[2]) /\ UNCHANGED faults
     \/ Fault("disk") /\ UNCHANGED file
  /\ lock' = "free" /\ todo' = Tail(todo)
  /\ pc' = IF Tail(todo) = <<>> THEN after ELSE "acquire"
  /\ UNCHANGED <<after, proc, threads, resultVars, childVars, readerVars, closed, failed,
                 mode, sigints>>

-----------------------------------------------------------------------------
(* run_job up to the end of its try block.                                 *)

NewLogs(m) == [l \in Logs |-> IF m = "disk" THEN <<Sys("header")>> ELSE <<>>]

OpenLogs ==
  /\ pc = "open" /\ pc' = "popen"
  /\ mode' \in Modes /\ file' = NewLogs(mode')
  /\ UNCHANGED <<localVars, resultVars, childVars, readerVars, lock, closed, failed,
                 envVars>>

Popen ==
  /\ pc = "popen"
  /\ child' = "running" /\ holders' = Background /\ proc' = TRUE
  /\ Log(<<<<"combined", Sys("started")>>>>, "spawn")
  /\ UNCHANGED <<threads, resultVars, fate, killSent, pipe, written, atExit, readerVars,
                 diskVars, envVars>>

\* Popen raises: 127 or 126 for what a shell reports so, -99 for the rest.
PopenFails ==
  /\ pc = "popen" /\ Fault("exec")
  /\ status' = "failed" /\ exitCode' \in {127, 126, -99}
  /\ Log(InAllLogs("error"), "final")
  /\ UNCHANGED <<proc, threads, stillOpen, notes, tails, otherVars, sigints>>

\* zip(readers, (proc.stdout, proc.stderr)): stdout first.
NextReader == IF "stdout" \in threads THEN "stderr" ELSE "stdout"

\* Thread.start(), or the RuntimeError it raises when no thread can be made.
StartReader ==
  /\ pc = "spawn"
  /\ \/ rd' = [rd EXCEPT ![NextReader] = "read"] /\ pc' = "append" /\ UNCHANGED faults
     \/ Fault("thread") /\ pc' = "stop" /\ UNCHANGED rd
  /\ UNCHANGED <<localVars, resultVars, childVars, lineVars, flagVars, diskVars, sigints>>

AppendThread ==
  /\ pc = "append"
  /\ threads' = threads \cup {NextReader}
  /\ pc' = IF threads' = Streams THEN "wait" ELSE "spawn"
  /\ UNCHANGED <<todo, after, proc, resultVars, otherVars, envVars>>

\* TimeoutExpired: wait looks for the exit first, then at the clock.
TimeoutExpires_Never == FALSE
TimeoutExpires == HasTimeout /\ child # "exited"

WaitChild ==
  /\ pc = "wait"
  /\ \/ child = "exited" /\ pc' = "join"
     \/ TimeoutExpires /\ pc' = "kill"
  /\ UNCHANGED <<localVars, resultVars, otherVars, envVars>>

\* The deadline of a join: it is generous unless Slow.
DeadlinePasses == Slow \/ \A s \in threads : rd[s] = "done" \/ Blocked(s)

JoinReaders ==
  /\ pc \in DOMAIN JoinNext /\ pc' = JoinNext[pc]
  /\ (\A s \in threads : rd[s] = "done") \/ DeadlinePasses
  /\ UNCHANGED <<localVars, resultVars, otherVars, envVars>>

StatusOf_Signals(code) == IF code > 0 THEN "failed" ELSE "success"
StatusOf(code) == IF code = 0 THEN "success" ELSE "failed"

Settle ==
  /\ pc = "settle" /\ pc' = "final"
  /\ exitCode' = fate /\ status' = StatusOf(fate)
  /\ UNCHANGED <<localVars, stillOpen, notes, tails, otherVars, envVars>>

\* proc.kill() of a running child; onError is where an OSError from it leads.
Kill_Spares(next, onError) == pc' = next /\ UNCHANGED <<killSent, faults>>
Kill(next, onError) ==
  \/ killSent' = (killSent \/ child = "running") /\ pc' = next /\ UNCHANGED faults
  \/ child = "running" /\ Fault("kill") /\ pc' = onError /\ UNCHANGED killSent

KillTimedOut ==
  /\ pc = "kill" /\ Kill("killWait", "stop")
  /\ UNCHANGED <<localVars, resultVars, child, fate, holders, pipe, written, atExit,
                 readerVars, diskVars, sigints>>

\* proc.wait(timeout=5) after a kill.
AwaitKilled ==
  /\ pc \in {"killWait", "stopWait"}
  /\ Slow \/ child = "exited"
  /\ pc' = IF pc = "killWait" THEN "killJoin" ELSE "stopJoin"
  /\ UNCHANGED <<localVars, resultVars, otherVars, envVars>>

TimedOut ==
  /\ pc = "timedOut"
  /\ exitCode' = -1 /\ status' = "timeout"
  /\ Log(<<<<"combined", Sys("killed")>>>>, "final")
  /\ UNCHANGED <<proc, threads, stillOpen, notes, tails, otherVars, envVars>>

-----------------------------------------------------------------------------
(* The exception handlers.                                                 *)

\* stop_child returns at once, without joining, when the child is dead.
StopChild ==
  /\ pc = "stop"
  /\ IF child = "running" THEN Kill("stopWait", "stopJoin")
     ELSE pc' = "fail" /\ UNCHANGED <<killSent, faults>>
  /\ UNCHANGED <<localVars, resultVars, child, fate, holders, pipe, written, atExit,
                 readerVars, diskVars, sigints>>

LauncherError ==
  /\ pc = "fail"
  /\ status' = "failed" /\ exitCode' = -99
  /\ Log(InAllLogs("error"), "final")
  /\ UNCHANGED <<proc, threads, stillOpen, notes, tails, otherVars, envVars>>

\* except KeyboardInterrupt: without proc there is nothing to kill or to join.
InterruptedKill ==
  /\ pc = "ki"
  /\ IF proc THEN Kill("kiJoin", "kiJoin")
     ELSE pc' = "kiLog" /\ UNCHANGED <<killSent, faults>>
  /\ UNCHANGED <<localVars, resultVars, child, fate, holders, pipe, written, atExit,
                 readerVars, diskVars, sigints>>

InterruptedLog ==
  /\ pc = "kiLog"
  /\ status' = "interrupted" /\ exitCode' = -2
  /\ Log(<<<<"combined", Sys("interrupted")>>>>, "final")
  /\ UNCHANGED <<proc, threads, stillOpen, notes, tails, otherVars, envVars>>

-----------------------------------------------------------------------------
(* The end of run_job.                                                     *)

FindStillOpen ==
  /\ pc = "final" /\ pc' = "close"
  /\ stillOpen' = {s \in threads : rd[s] # "done"}
  /\ UNCHANGED <<localVars, status, exitCode, notes, tails, otherVars, envVars>>

CloseSink ==
  /\ pc = "close" /\ lock = "free" /\ pc' = "collect"
  /\ closed' = TRUE
  /\ UNCHANGED <<localVars, resultVars, childVars, readerVars, lock, failed, mode, file,
                 envVars>>

CollectNotes ==
  /\ pc = "collect" /\ pc' = "tails"
  /\ notes' = (IF mode = "memory" THEN {<<"logs", "memory">>} ELSE {})
               \cup ({"replaced"} \X replaced) \cup ({"error"} \X errored)
               \cup ({"sink"} \X failed) \cup ({"open"} \X stillOpen)
  /\ UNCHANGED <<localVars, status, exitCode, stillOpen, tails, otherVars, envVars>>

\* tail_of: the file, unless there is none or it stopped accepting writes; get_tail of
\* a file that was removed is empty.
TailOf_File(s) == LastN(file[s])
TailOf(s) == IF mode = "memory" \/ s \in failed THEN LastN(ring[s])
             ELSE IF mode = "disk" THEN LastN(file[s]) ELSE <<>>

\* The tails, and the footer.
Finish ==
  /\ pc = "tails"
  /\ tails' = [s \in Streams |-> TailOf(s)]
  /\ Log(<<<<"combined", Sys("footer")>>>>, "returned")
  /\ UNCHANGED <<proc, threads, status, exitCode, stillOpen, notes, otherVars, envVars>>

-----------------------------------------------------------------------------
(* StreamReader.run, one thread per stream, while the wrapper lives.       *)

Alive == pc # "crashed"

\* The units after the last newline of q: what _emit returns unwritten.
IsCut(q, k) == /\ k > 0 => q[k] \notin Partial
               /\ \A i \in (k + 1)..Len(q) : q[i] \in Partial

\* What a read makes of it: the unfinished line of before, and the new data.
Text_Forgetful(s) == Chunk(s)
Text(s) == pending[s] \o Chunk(s)

\* A read that returns data: decode it, and emit the complete lines.
ReadChunk(s) ==
  /\ Alive /\ rd[s] = "read" /\ pipe[s] > 0
  /\ \E k \in 0..Len(Text(s)) :
       /\ IsCut(Text(s), k)
       /\ hand' = [hand EXCEPT ![s] = SubSeq(Text(s), 1, k)]
       /\ pending' = [pending EXCEPT ![s] = SubSeq(Text(s), k + 1, Len(Text(s)))]
       /\ ring' = [ring EXCEPT ![s] = @ \o SubSeq(Text(s), 1, k)]
       /\ rd' = [rd EXCEPT ![s] = IF k = 0 THEN "read" ELSE "acquire"]
  /\ undecoded' = IF \E i \in 1..pipe[s] : Chunk(s)[i] \in Bad
                  THEN undecoded \cup {s} ELSE undecoded
  /\ pipe' = [pipe EXCEPT ![s] = 0]
  /\ UNCHANGED <<mainVars, jobVars, written, eof, errored, replaced, diskVars, envVars>>

\* A read that returns b"": emit the unfinished line, if there is one.
ReadEof(s) ==
  /\ Alive /\ rd[s] = "read" /\ pipe[s] = 0 /\ WriteEndClosed(s)
  /\ eof' = eof \cup {s}
  /\ hand' = [hand EXCEPT ![s] = pending[s]] /\ pending' = [pending EXCEPT ![s] = <<>>]
  /\ ring' = [ring EXCEPT ![s] = @ \o pending[s]]
  /\ rd' = [rd EXCEPT ![s] = IF pending[s] = <<>> THEN "finally" ELSE "acquire"]
  /\ UNCHANGED <<mainVars, childVars, errored, undecoded, replaced, diskVars, envVars>>

\* Where the reader goes once an _emit is over.
AfterEmit(s) == IF s \in eof THEN "finally" ELSE "read"

\* LogSink._closed, looked at under the lock.
Accepting_Always == TRUE
Accepting == ~closed

\* LogSink.write after close: everything is dropped.
SinkDrop(s) ==
  /\ Alive /\ rd[s] = "acquire" /\ lock = "free" /\ ~Accepting
  /\ hand' = [hand EXCEPT ![s] = <<>>]
  /\ rd' = [rd EXCEPT ![s] = AfterEmit(s)]
  /\ UNCHANGED <<mainVars, childVars, pending, flagVars, ring, diskVars, envVars>>

SinkAcquire(s) ==
  /\ Alive /\ rd[s] = "acquire" /\ lock = "free" /\ Accepting
  /\ lock' = s /\ rd' = [rd EXCEPT ![s] = "own"]
  /\ UNCHANGED <<mainVars, childVars, lineVars, flagVars, closed, failed, mode, file,
                 envVars>>

\* The sink opens a log when it has the first piece for it.
Opened(l) == \E i \in 1..Len(file[l]) : file[l][i][1] \in Streams

\* One piece to log l: written, or refused by the disk and recorded.  A log that was
\* removed takes it when it is open, for nobody to read, and cannot be opened.
Put_Unrecorded(l, unit) ==
  /\ UNCHANGED failed
  /\ \/ file' = Appended(l, unit) /\ UNCHANGED faults
     \/ mode = "disk" /\ Fault("disk") /\ UNCHANGED file
Put(l, unit) ==
  \/ /\ mode = "removed" => Opened(l)
     /\ file' = Appended(l, unit) /\ UNCHANGED <<failed, faults>>
  \/ mode = "disk" /\ Fault("disk") /\ failed' = failed \cup {l} /\ UNCHANGED file
  \/ mode = "removed" /\ ~Opened(l) /\ failed' = failed \cup {l} /\ UNCHANGED <<file, faults>>

WriteOwn(s) ==
  /\ Alive /\ rd[s] = "own" /\ Put(s, Head(hand[s]))
  /\ rd' = [rd EXCEPT ![s] = "comb"]
  /\ UNCHANGED <<mainVars, childVars, lineVars, flagVars, lock, closed, mode, sigints>>

\* The second piece of a line; after the last line the lock is released.
WriteCombined(s) ==
  /\ Alive /\ rd[s] = "comb" /\ Put("combined", Head(hand[s]))
  /\ hand' = [hand EXCEPT ![s] = Tail(@)]
  /\ IF Tail(hand[s]) = <<>>
     THEN lock' = "free" /\ rd' = [rd EXCEPT ![s] = AfterEmit(s)]
     ELSE rd' = [rd EXCEPT ![s] = "own"] /\ UNCHANGED lock
  /\ UNCHANGED <<mainVars, childVars, pending, flagVars, ring, closed, mode, sigints>>

\* Any exception in the loop: what was not yet emitted is lost, the rest drained.
\* (In 0.1.5 the thread swallowed the error and was gone, its pipe still open.)
RecordError_Swallowed(s) == UNCHANGED errored
RecordError(s) == errored' = errored \cup {s}
AfterError_Close == "finally"
AfterError_Gone == "unstarted"
AfterError == "drain"

ReaderFails(s) ==
  /\ Alive /\ rd[s] = "read" /\ Fault("reader")
  /\ RecordError(s) /\ rd' = [rd EXCEPT ![s] = AfterError]
  /\ UNCHANGED <<mainVars, childVars, lineVars, eof, undecoded, replaced, diskVars,
                 sigints>>

Drain(s) ==
  /\ Alive /\ rd[s] = "drain"
  /\ \/ pipe[s] > 0 /\ pipe' = [pipe EXCEPT ![s] = 0] /\ UNCHANGED rd
     \/ pipe[s] = 0 /\ WriteEndClosed(s) /\ rd' = [rd EXCEPT ![s] = "finally"]
        /\ UNCHANGED pipe
  /\ UNCHANGED <<mainVars, jobVars, written, lineVars, flagVars, diskVars, envVars>>

\* finally: only here does the count of replacements leave the thread.
Counted(s) == s \in undecoded

ReaderEnds(s) ==
  /\ Alive /\ rd[s] = "finally"
  /\ replaced' = IF Counted(s) THEN replaced \cup {s} ELSE replaced
  /\ rd' = [rd EXCEPT ![s] = "done"]
  /\ UNCHANGED <<mainVars, childVars, lineVars, eof, errored, undecoded, diskVars, envVars>>

-----------------------------------------------------------------------------
(* The job and its background process.  A job that SIGKILL was sent to runs *)
(* no more code of its own.                                                *)

ChildWrite(s) ==
  /\ child = "running" /\ ~killSent /\ written[s] < Output[s]
  /\ pipe[s] < PipeCap /\ ~ReadEndClosed(s)
  /\ written' = [written EXCEPT ![s] = @ + 1] /\ pipe' = [pipe EXCEPT ![s] = @ + 1]
  /\ UNCHANGED <<mainVars, jobVars, readerVars, diskVars, envVars>>

\* The child is gone, with the returncode Popen will report.
Dies(code) ==
  /\ child = "running"
  /\ child' = "exited" /\ fate' = code /\ atExit' = written
  /\ UNCHANGED <<mainVars, killSent, holders, pipe, written, readerVars, diskVars, sigints>>

ChildExits ==
  /\ ~killSent /\ \A s \in Streams : written[s] = Output[s]
  /\ \E c \in ExitCodes : Dies(c)
  /\ UNCHANGED faults

ChildSigpipe ==
  /\ ~killSent /\ \E s \in Streams : written[s] < Output[s] /\ ReadEndClosed(s)
  /\ Dies(-13) /\ UNCHANGED faults

KillLands == killSent /\ Dies(-9) /\ UNCHANGED faults

\* Ctrl+C reaches the job too; the out-of-memory killer comes unasked.
ChildStopped == \/ sigints > 0 /\ Dies(-2) /\ UNCHANGED faults
                \/ Fault("oom") /\ Dies(-9)

BackgroundWrite(s) ==
  /\ child = "exited" /\ s \in holders /\ pipe[s] < PipeCap /\ ~ReadEndClosed(s)
  /\ written[s] < atExit[s] + BgOutput
  /\ written' = [written EXCEPT ![s] = @ + 1] /\ pipe' = [pipe EXCEPT ![s] = @ + 1]
  /\ UNCHANGED <<mainVars, jobVars, readerVars, diskVars, envVars>>

BackgroundExits ==
  /\ holders # {} /\ holders' = {}
  /\ UNCHANGED <<mainVars, child, fate, killSent, pipe, written, atExit, readerVars,
                 diskVars, envVars>>

-----------------------------------------------------------------------------
(* The environment of the main thread.                                     *)

\* SIGINT becomes KeyboardInterrupt in the main thread.  "gap" stands for the
\* instant in write_to_log after acquire() and before its inner try.
Interrupt ==
  /\ sigints < MaxInterrupts /\ sigints' = sigints + 1
  /\ \/ pc \in InterruptPoints \ {"held"} /\ UNCHANGED lock
     \/ pc = "held" /\ "held" \in InterruptPoints /\ lock' = "free"
     \/ pc = "held" /\ "gap" \in InterruptPoints /\ UNCHANGED lock
  /\ pc' = IF InTry THEN "ki" ELSE "escaped"
  /\ UNCHANGED <<localVars, resultVars, childVars, readerVars, closed, failed, mode, file,
                 faults>>

\* It lands inside Popen after the fork: there is a child, and no proc.
InterruptPopen ==
  /\ pc = "popen" /\ "fork" \in InterruptPoints
  /\ sigints < MaxInterrupts /\ sigints' = sigints + 1
  /\ child' = "running" /\ holders' = Background /\ pc' = "ki"
  /\ UNCHANGED <<localVars, resultVars, fate, killSent, pipe, written, atExit, readerVars,
                 diskVars, faults>>

\* The log directory is removed under the run: by uninstall in another terminal, or by
\* the clearing of a scratch file system.  From here on file is what was in the logs.
LogsRemoved ==
  /\ mode = "disk" /\ pc \notin {"open"} \cup Ended /\ Fault("removed") /\ mode' = "removed"
  /\ UNCHANGED <<mainVars, childVars, readerVars, lock, closed, failed, file, sigints>>

\* The wrapper is killed outright.
Crash ==
  /\ pc \notin Ended /\ Fault("crash") /\ pc' = "crashed"
  /\ UNCHANGED <<localVars, resultVars, otherVars, sigints>>

-----------------------------------------------------------------------------
Main == \/ OpenLogs \/ Popen \/ PopenFails \/ LogAcquire \/ LogAppend
        \/ StartReader \/ AppendThread \/ WaitChild \/ JoinReaders \/ Settle
        \/ KillTimedOut \/ AwaitKilled \/ TimedOut
        \/ StopChild \/ LauncherError \/ InterruptedKill \/ InterruptedLog
        \/ FindStillOpen \/ CloseSink \/ CollectNotes \/ Finish

Reader(s) == \/ ReadChunk(s) \/ ReadEof(s) \/ SinkDrop(s) \/ SinkAcquire(s)
             \/ WriteOwn(s) \/ WriteCombined(s) \/ ReaderFails(s) \/ Drain(s)
             \/ ReaderEnds(s)

Child == ChildExits \/ ChildSigpipe \/ KillLands \/ \E s \in Streams : ChildWrite(s)

Environment == \/ ChildStopped \/ BackgroundExits \/ Interrupt \/ InterruptPopen \/ Crash
               \/ LogsRemoved
               \/ \E s \in Streams : BackgroundWrite(s)

Next == Main \/ Child \/ Environment \/ \E s \in Streams : Reader(s)

Spec == Init /\ [][Next]_vars

\* Threads get scheduled and the job runs; nothing is promised of the user, of a
\* background process or of the faults.
FairSpec == /\ Spec /\ WF_vars(Main) /\ WF_vars(Child)
            /\ \A s \in Streams : WF_vars(Reader(s))

\* The same with a job that may hang: only a kill is sure to end it.
HangSpec == /\ Spec /\ WF_vars(Main) /\ WF_vars(KillLands)
            /\ \A s \in Streams : WF_vars(Reader(s))

-----------------------------------------------------------------------------
(* Safety.                                                                 *)

MainPcs == {"open", "popen", "acquire", "held", "spawn", "append", "wait", "join", "settle",
            "kill", "killWait", "killJoin", "timedOut", "stop", "stopWait", "stopJoin", "fail",
            "ki", "kiJoin", "kiLog", "final", "close", "collect", "tails"} \cup Ended
ReaderPcs == {"unstarted", "read", "acquire", "own", "comb", "drain", "finally", "done"}
NoteKinds == {"logs", "replaced", "error", "sink", "open"}

Statuses == {"failed", "success", "timeout", "interrupted"}

MainTypeOK ==
  /\ pc \in MainPcs /\ after \in MainPcs
  /\ todo \in Seq(Logs \X ({"sys"} \X SysLines))
  /\ proc \in BOOLEAN /\ threads \subseteq Streams
  /\ status \in Statuses /\ exitCode \in Int
  /\ stillOpen \subseteq Streams /\ notes \subseteq NoteKinds \X (Logs \cup {"memory"})
  /\ tails \in [Streams -> Seq(Entries)]

JobTypeOK ==
  /\ child \in {"none", "running", "exited"} /\ fate \in Int /\ killSent \in BOOLEAN
  /\ holders \subseteq Streams
  /\ pipe \in [Streams -> 0..PipeCap]
  /\ written \in [Streams -> Nat] /\ atExit \in [Streams -> Nat]

ReaderTypeOK ==
  /\ rd \in [Streams -> ReaderPcs]
  /\ hand \in [Streams -> Seq(Units)] /\ pending \in [Streams -> Seq(Units)]
  /\ ring \in [Streams -> Seq(Units)]
  /\ eof \subseteq Streams /\ errored \subseteq Streams
  /\ undecoded \subseteq Streams /\ replaced \subseteq Streams

DiskTypeOK ==
  /\ lock \in {"free", "main"} \cup Streams /\ closed \in BOOLEAN
  /\ failed \subseteq Logs /\ mode \in {"disk", "memory", "removed"}
  /\ file \in [Logs -> Seq(Entries)]
  /\ sigints \in Nat /\ faults \in Nat

TypeOK == MainTypeOK /\ JobTypeOK /\ ReaderTypeOK /\ DiskTypeOK

\* The three logs exist and begin with the header before there is a job, and
\* whatever happens afterwards, a crash of the wrapper included, until they are removed.
HeaderIn == mode = "disk" => \A l \in Logs : file[l] # <<>> /\ file[l][1] = Sys("header")

HeaderFirst == child # "none" => HeaderIn

\* Log l holds units of s in the order the job wrote them, none of them twice.
InOrder(l, s) == \A i, j \in Places(l, s) : i < j => file[l][i][2] < file[l][j][2]

\* A log holds the lines of its stream in the order they were written, and with
\* none missing in between as long as the disk takes them: through chunking,
\* the unfinished line kept back, and the contention for the sink.
Gapless(s) == InOrder(s, s) /\ (s \notin failed => \E n \in 0..written[s] : Kept(s, s) = 1..n)

NoGaps == \A s \in Streams : Gapless(s)

\* The line that is being written: in the stream's own log already, not in the other.
Between(s) == IF rd[s] = "comb" THEN {Head(hand[s])[2]} ELSE {}

\* combined.log has, of each stream, what the stream's own log has, in the same
\* order; while a line is being written the own log may be one line ahead.
Agrees(s) == mode = "disk" /\ {s, "combined"} \cap failed = {} =>
               InOrder("combined", s) /\ Kept("combined", s) = Kept(s, s) \ Between(s)

CombinedAgrees == \A s \in Streams : Agrees(s)

\* The log of s lacks something the job wrote.
Lost(s) == Kept(s, s) # 1..written[s]

\* The log of s was removed when the sink had it open: nothing that run_job looks at
\* tells it so.
PulledAway(s) == mode = "removed" /\ s \notin failed

\* What run_job says of a stream in its result.
Told(s) == \/ exitCode = -99
           \/ notes \cap {<<"error", s>>, <<"sink", s>>, <<"open", s>>, <<"logs", "memory">>} # {}

\* run_job promises that anything that goes wrong is reported: output missing from
\* a log comes with a note about that stream, or with the launcher error, and a
\* U+FFFD in a log with a note of its own, for every stream that was read to its end
\* (the count leaves the reader's thread in run's finally block only).  The exceptions
\* are a stream whose reader an interrupt kept from being started, and an open log that
\* somebody removed.
NothingUntold ==
  pc = "returned" => \A s \in Streams :
    /\ Lost(s) => Told(s) \/ (status = "interrupted" /\ s \notin threads) \/ PulledAway(s)
    /\ s \in threads \ stillOpen /\ (\E k \in Kept(s, s) : <<s, k>> \in Bad)
         => <<"replaced", s>> \in notes

\* Tail t ends in the last of the w lines of stream s, with nothing after or between them;
\* what is before them can only be the wrapper's.
EndsWith(t, s, w) ==
  LET n    == IF w < TailN THEN w ELSE TailN
      more == Len(t) - n
  IN /\ more >= 0
     /\ \A i \in 1..n : t[more + i] = <<s, w - n + i>>
     /\ \A i \in 1..more : t[i][1] = "sys"

TrueTail(s) == EndsWith(tails[s], s, written[s])

\* The tails hold the true last lines of the job, never stale ones: from the file,
\* or from the ring when there is none or it stopped accepting writes.  The exception is
\* again the open log that was removed.
TailTruth ==
  pc = "returned" => \A s \in threads \ (stillOpen \cup errored) :
    exitCode # -99 /\ ~PulledAway(s) => TrueTail(s)

\* The result tells the job's own end: success is exit status 0 of a job that
\* ended by itself, and the other statuses have the cause they name.
Verdict ==
  /\ status = "success" <=> exitCode = 0
  /\ status = "success" => child = "exited" /\ fate = 0
  /\ status = "failed" /\ exitCode \notin {-99, 126, 127, None} => child = "exited" /\ fate = exitCode
  /\ status = "timeout" => HasTimeout /\ (killSent \/ child = "exited")
  /\ status = "interrupted" => sigints > 0

FateTold == pc = "returned" => Verdict /\ exitCode # None

\* run_job leaves no job of its own running that it has not killed.
NoOrphan == pc = "returned" /\ child = "running" => killSent

FooterWritten == \E i \in 1..Len(file["combined"]) : file["combined"][i] = Sys("footer")

-----------------------------------------------------------------------------
(* Action properties.                                                      *)

\* Nothing enters a log after the footer, where it would be misread as output of
\* this job, however late a reader wakes up.
SealedByFooter == [][FooterWritten => UNCHANGED file]_vars

\* While the wrapper lives, no job dies because the wrapper closed a pipe on it: a
\* reader that failed keeps draining.
NeverClosedOn == [][child' # child /\ pc # "crashed" /\ proc => fate' # -13]_vars

-----------------------------------------------------------------------------
(* run_job, as its caller sees it.                                         *)

Phase == CASE pc = "open" -> "new"
           [] pc = "returned" -> "over"
           [] pc \in {"escaped", "crashed"} -> "broken"
           [] OTHER -> IF child = "none" THEN "ready" ELSE "running"

Outcome == IF pc = "returned" THEN [status |-> status, code |-> exitCode]
                              ELSE [status |-> "none", code |-> 0]

Contract == INSTANCE JobContract WITH
  Lines <- Entries, Header <- Sys("header"),
  Outcomes <- [status : Statuses, code : Int],
  NoOutcome <- [status |-> "none", code |-> 0],
  phase <- Phase, log <- file, outcome <- Outcome

\* For all its threads, run_job is an append-only journal with one delivery.
KeepsContract == Contract!Spec

-----------------------------------------------------------------------------
(* Liveness.                                                               *)

\* run_job comes to an end, with one exception: an interrupt that lands after
\* write_to_log took the lock and before its inner try leaves the lock taken, and
\* close() or the next write may wait for it.
LockLeaked == lock = "main" /\ pc # "held"

Returns == <>(pc \in Ended \/ LockLeaked)

\* A job never blocks for good on a full pipe.  The exception is a job whose second
\* reader could not be started and whose kill the system refused as well.
KillRefused == pc = "returned" /\ threads # Streams /\ ~killSent

JobFinishes == child = "running" ~> (child = "exited" \/ KillRefused)

=============================================================================
