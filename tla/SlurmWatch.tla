----------------------------- MODULE SlurmWatch -----------------------------
(***************************************************************************)
(* `gpualert slurm JOB`: poll_job and get_job_info (slurm.py) and the      *)
(* command that calls them and reports (slurm and _shell_exit_code in      *)
(* cli.py), against a Slurm job that ends when it likes and an sacct that  *)
(* may not answer.                                                         *)
(***************************************************************************)
EXTENDS Integers

CONSTANTS
  OtherEnds,      \* final states of Slurm that slurm.py does not name
  Requeues,       \* final states from which Slurm starts a job over
  Fields,         \* ExitCode fields <<exit, signal>> Slurm gives a job that did not complete
  Interval,       \* seconds between two polls
  QueryTime,      \* longest time an sacct call takes (15 s in the code)
  Timeouts,       \* the timeouts a caller may give, NoTimeout among them or not
  MayInterrupt    \* whether the user may press Ctrl+C, once

NoTimeout == -1

TerminalStates == {"COMPLETED", "FAILED", "CANCELLED", "TIMEOUT", "NODE_FAIL", "PREEMPTED",
                   "OUT_OF_MEMORY"}
RunningStates == {"PENDING", "CONFIGURING", "RUNNING", "COMPLETING"}

ASSUME WatchAssumption ==
  /\ OtherEnds \cap (TerminalStates \cup RunningStates \cup {"UNKNOWN", "POLL_TIMEOUT"}) = {}
  /\ Requeues \subseteq {"PREEMPTED", "NODE_FAIL"}
  /\ Fields \subseteq Nat \X Nat
  /\ Interval \in Nat /\ QueryTime \in Nat \ {0}
  /\ Timeouts \subseteq Nat \cup {NoTimeout}
  /\ MayInterrupt \in BOOLEAN

VARIABLES
  timeout,        \* the timeout of this call
  job,            \* the Slurm job: its state and ExitCode field
  pc,             \* where the command is
  info,           \* the last SlurmJobInfo: state and exit_code
  last,           \* last_state
  elapsed,        \* time.monotonic() - t0, kept only when there is a timeout
  status, exit,   \* of the JobResult; of the command
  interrupted

vars == <<timeout, job, pc, info, last, elapsed, status, exit, interrupted>>

Ends == TerminalStates \cup OtherEnds
NoExit == -1000

HasTimeout == timeout # NoTimeout

Init ==
  /\ timeout \in Timeouts
  /\ job = [state |-> "PENDING", field |-> <<0, 0>>]
  /\ pc = "query"
  /\ info = [state |-> "UNKNOWN", code |-> 0] /\ last = "UNKNOWN"
  /\ elapsed = 0 /\ status = "none" /\ exit = NoExit /\ interrupted = FALSE

-----------------------------------------------------------------------------
(* Slurm.                                                                  *)

JobRuns ==
  /\ \E move \in {<<"PENDING", "CONFIGURING">>, <<"PENDING", "RUNNING">>,
                  <<"CONFIGURING", "RUNNING">>, <<"RUNNING", "COMPLETING">>} :
       job.state = move[1] /\ job' = [job EXCEPT !.state = move[2]]
  /\ UNCHANGED <<timeout, pc, info, last, elapsed, status, exit, interrupted>>

JobEnds ==
  /\ job.state \in RunningStates
  /\ \/ job' = [state |-> "COMPLETED", field |-> <<0, 0>>]
     \/ \E s \in Ends \ {"COMPLETED"}, f \in Fields : job' = [state |-> s, field |-> f]
  /\ UNCHANGED <<timeout, pc, info, last, elapsed, status, exit, interrupted>>

\* A job preempted, or whose node failed, is queued again under the same id.
JobRequeued ==
  /\ job.state \in Requeues
  /\ job' = [state |-> "PENDING", field |-> <<0, 0>>]
  /\ UNCHANGED <<timeout, pc, info, last, elapsed, status, exit, interrupted>>

-----------------------------------------------------------------------------
(* poll_job.                                                               *)

\* _parse_exit_code: a signal is negative, as for Popen; a number that is not one
\* of a signal leaves 0.
ParseExitCode(field) ==
  IF field[1] = 0 /\ field[2] \in 1..64 THEN -field[2] ELSE field[1]

\* The wall clock, whatever the time went into.
Spend_Restarted(seconds) == elapsed' = IF HasTimeout THEN seconds ELSE elapsed
Spend(seconds) == elapsed' = IF HasTimeout THEN elapsed + seconds ELSE elapsed

Polled(newInfo) == info' = newInfo /\ last' = newInfo.state /\ pc' = "check"

\* get_job_info, the line in the log and on_update: sacct answers.
QueryAnswers ==
  /\ pc = "query"
  /\ Polled([state |-> job.state, code |-> ParseExitCode(job.field)])
  /\ \E t \in 1..QueryTime : Spend(t)
  /\ UNCHANGED <<timeout, job, status, exit, interrupted>>

\* The same when sacct fails, hangs for 15 seconds, or says nothing.
QueryFails ==
  /\ pc = "query"
  /\ Polled([state |-> "UNKNOWN", code |-> 0])
  /\ \E t \in 1..QueryTime : Spend(t)
  /\ UNCHANGED <<timeout, job, status, exit, interrupted>>

\* The end of the loop body: a terminal state, the timeout, or another round.
Break_AnyEnd == info.state \notin RunningStates
Break_Forgotten == info.state \in TerminalStates \ {"OUT_OF_MEMORY"}
Break == info.state \in TerminalStates

Expired_After == HasTimeout /\ elapsed > timeout
Expired == HasTimeout /\ elapsed >= timeout

Check ==
  /\ pc = "check"
  /\ \/ Break /\ pc' = "return" /\ UNCHANGED last
     \/ ~Break /\ Expired /\ pc' = "return" /\ last' = "POLL_TIMEOUT"
     \/ ~Break /\ ~Expired /\ pc' = "sleep" /\ UNCHANGED last
  /\ UNCHANGED <<timeout, job, info, elapsed, status, exit, interrupted>>

Sleep ==
  /\ pc = "sleep" /\ pc' = "query"
  /\ Spend(Interval)
  /\ UNCHANGED <<timeout, job, info, last, status, exit, interrupted>>

\* SLURM_STATUS_MAP; a state it does not have is a failure.
SlurmStatus(state) ==
  IF state = "COMPLETED" THEN "success" ELSE IF state = "TIMEOUT" THEN "timeout" ELSE "failed"

-----------------------------------------------------------------------------
(* The command.                                                            *)

\* _shell_exit_code, of a status and an exit_code that Slurm can give.
Capped(n) == IF n <= 255 THEN n ELSE 255
Passed(code) == IF code <= 255 THEN code ELSE 1
ShellExitCode_NoGuard(st, code) ==
  IF st = "timeout" THEN 124 ELSE IF code < 0 THEN Capped(128 - code) ELSE Passed(code)
ShellExitCode(st, code) ==
  IF st = "timeout" THEN 124
  ELSE IF code < 0 THEN Capped(128 - code)
  ELSE IF code = 0 /\ st # "success" THEN 1 ELSE Passed(code)

\* poll_job returns, and the exit status of the command is fixed.
Return ==
  /\ pc = "return" /\ pc' = "report"
  /\ status' = SlurmStatus(last)
  /\ exit' = ShellExitCode(status', info.code)
  /\ UNCHANGED <<timeout, job, info, last, elapsed, interrupted>>

\* The report by mail: sent, refused, or an exception; an interrupt counts as one.
ReportedExit_MailDecides(ok) == IF ok THEN exit ELSE 1
ReportedExit(ok) == exit

Report ==
  /\ pc = "report" /\ pc' = "exited"
  /\ \E ok \in BOOLEAN : exit' = ReportedExit(ok)
  /\ UNCHANGED <<timeout, job, info, last, elapsed, status, interrupted>>

\* Ctrl+C: nothing catches it while poll_job runs; it ends the report and no more.
Interrupt ==
  /\ MayInterrupt /\ ~interrupted /\ interrupted' = TRUE
  /\ \/ pc \in {"query", "check", "sleep", "return"} /\ pc' = "aborted"
     \/ pc = "report" /\ pc' = "exited"
  /\ UNCHANGED <<timeout, job, info, last, elapsed, status, exit>>

Poller == QueryAnswers \/ QueryFails \/ Check \/ Sleep \/ Return \/ Report

Next == JobRuns \/ JobEnds \/ JobRequeued \/ Poller \/ Interrupt

Spec == Init /\ [][Next]_vars

\* The command runs: an sacct call lasts 15 seconds at most, and the pauses end.
FairSpec == Spec /\ WF_vars(Poller)

-----------------------------------------------------------------------------
Codes == {-s : s \in 1..64} \cup Nat
Infos == [state : Ends \cup RunningStates \cup {"UNKNOWN"}, code : Codes]

TypeOK ==
  /\ timeout \in Nat \cup {NoTimeout}
  /\ job \in [state : Ends \cup RunningStates, field : Nat \X Nat]
  /\ pc \in {"query", "check", "sleep", "return", "report", "exited", "aborted"}
  /\ info \in Infos /\ last \in Ends \cup RunningStates \cup {"UNKNOWN", "POLL_TIMEOUT"}
  /\ elapsed \in Nat /\ status \in {"none", "success", "failed", "timeout"}
  /\ exit \in (0..255) \cup {NoExit} /\ interrupted \in BOOLEAN

\* A calling script may build on the exit status: 0 is a job that completed, and a
\* job that did not, by whatever code Slurm gave it, is never 0.
SuccessIsCompletion ==
  pc = "exited" => (exit = 0 <=> last = "COMPLETED") /\ (exit = 0 => job.state = "COMPLETED")

\* A report that is not about the end of polling is about the end of the job: of
\* the state, and with the code, that the job still has, unless Slurm starts jobs
\* over from that state.
ReportIsFinal ==
  pc \in {"report", "exited"} /\ last \notin Requeues \cup {"POLL_TIMEOUT"} =>
    job.state = last /\ info.code = ParseExitCode(job.field)

\* A job killed by a signal gives 128 + the signal, as a shell does, unless Slurm
\* called it a timeout.
SignalIsTold ==
  pc = "exited" /\ last \in TerminalStates \ (Requeues \cup {"TIMEOUT"}) /\ job.field[1] = 0
    /\ job.field[2] \in 1..64 => exit = 128 + job.field[2]

\* The exit status tells the end of the job: whether it completed, and what killed it.
ExitTellsTheEnd == SuccessIsCompletion /\ SignalIsTold

\* Polling goes on past the timeout by one round at most: one sleep, one sacct.
LateByOneRound ==
  HasTimeout => elapsed < timeout + Interval + QueryTime \/ elapsed <= QueryTime

\* What the steps of the poller rest on: the state seen last is one the job was
\* in, or no answer, and a final state that is not queued again does not change.
Watching ==
  /\ last = info.state \/ (last = "POLL_TIMEOUT" /\ pc \notin {"query", "check", "sleep"})
  /\ info.state \in Ends \ Requeues =>
       job.state = info.state /\ info.code = ParseExitCode(job.field)
  /\ pc \in {"return", "report", "exited"} => last \in TerminalStates \cup {"POLL_TIMEOUT"}
  /\ pc \in {"report", "exited"} =>
       status = SlurmStatus(last) /\ exit = ShellExitCode(status, info.code)
  /\ job.state = "COMPLETED" => job.field = <<0, 0>>

\* How late it is, by where the poller is.
OnTime ==
  HasTimeout =>
    /\ pc = "query" => elapsed < timeout + Interval \/ elapsed = 0
    /\ pc = "sleep" => elapsed < timeout
    /\ elapsed < timeout + Interval + QueryTime \/ elapsed <= QueryTime

\* The inductive invariant.
Inductive == TypeOK /\ Watching /\ OnTime

\* Once the job is over for good, in a state slurm.py knows, the command ends, if
\* sacct does not fail for ever.
EndIsSeen ==
  SF_vars(QueryAnswers) =>
    (job.state \in TerminalStates \ Requeues ~> pc \in {"exited", "aborted"})

\* With a timeout the command ends, whether sacct ever answers or not.
TimeoutEnds == HasTimeout => <>(pc \in {"exited", "aborted"})

-----------------------------------------------------------------------------
\* cli-reference.md: "--timeout reached | 124", and `gpualert slurm` uses the same
\* mapping.  The code does not do that: POLL_TIMEOUT is a state SLURM_STATUS_MAP
\* lacks.
PollTimeoutIs124 == pc = "exited" /\ last = "POLL_TIMEOUT" => exit = 124
=============================================================================
