-------------------------- MODULE SlurmWatchProofs --------------------------
(***************************************************************************)
(* SlurmWatch for every polling interval, timeout, sacct delay, ExitCode   *)
(* field and final state: the report is the job's own, its exit status is  *)
(* 0 only for a job that completed, and polling is late by one round at    *)
(* most.                                                                   *)
(***************************************************************************)
EXTENDS SlurmWatch, TLAPS

\* A code that _parse_exit_code returns is a number or a negated signal.
LEMMA ParsedCode ==
  ASSUME NEW field \in Nat \X Nat
  PROVE  ParseExitCode(field) \in Codes
<1>1. field[1] \in Nat /\ field[2] \in Nat
  OBVIOUS
<1> QED
  BY <1>1 DEF ParseExitCode, Codes

\* _shell_exit_code of what poll_job returns is an exit status.
LEMMA ShellCode ==
  ASSUME NEW st \in {"success", "failed", "timeout"}, NEW code \in Codes
  PROVE  ShellExitCode(st, code) \in 0..255
<1>1. code \in Int /\ (code < 0 => -code \in 1..64)
  BY DEF Codes
<1> QED
  BY <1>1 DEF ShellExitCode, Capped, Passed

\* A status that is not a success is never passed on as 0, whatever the code.
LEMMA FailureIsNotZero ==
  ASSUME NEW st \in {"failed", "timeout"}, NEW code \in Codes
  PROVE  ShellExitCode(st, code) # 0
<1>1. code \in Int /\ (code < 0 => -code \in 1..64)
  BY DEF Codes
<1> QED
  BY <1>1 DEF ShellExitCode, Capped, Passed

\* SLURM_STATUS_MAP gives a status for every state.
LEMMA StatusKnown ==
  ASSUME NEW state
  PROVE  SlurmStatus(state) \in {"success", "failed", "timeout"}
BY DEF SlurmStatus

-----------------------------------------------------------------------------
\* The invariant holds at the start.
LEMMA InductiveStart == Init => Inductive
<1> SUFFICES ASSUME Init PROVE Inductive
  OBVIOUS
<1>1. TypeOK
  BY WatchAssumption
  DEF Init, TypeOK, NoTimeout, NoExit, Infos, Codes, Ends, TerminalStates, RunningStates
<1>2. Watching
  <2>1. "UNKNOWN" \notin Ends
    BY WatchAssumption DEF Ends, TerminalStates
  <2> QED
    BY <2>1 DEF Init, Watching
<1>3. OnTime
  BY WatchAssumption DEF Init, OnTime, HasTimeout, NoTimeout
<1> QED
  BY <1>1, <1>2, <1>3 DEF Inductive

\* Time spent is a number of seconds, and is spent only if there is a timeout.
LEMMA Spending ==
  ASSUME NEW t \in Nat, elapsed \in Nat, Spend(t)
  PROVE  elapsed' \in Nat /\ (HasTimeout => elapsed' = elapsed + t)
BY WatchAssumption DEF Spend

\* No step of Slurm disturbs the invariant: a final state that was seen stays.
LEMMA JobSteps ==
  ASSUME Inductive, JobRuns \/ JobEnds \/ JobRequeued
  PROVE  Inductive'
<1> USE WatchAssumption
<1>1. TypeOK'
  <2>1. CASE JobRuns
    BY <2>1 DEF JobRuns, Inductive, TypeOK, Infos, RunningStates, Ends, TerminalStates
  <2>2. CASE JobEnds
    BY <2>2 DEF JobEnds, Inductive, TypeOK, Infos, Ends, TerminalStates
  <2>3. CASE JobRequeued
    BY <2>3 DEF JobRequeued, Inductive, TypeOK, Infos, RunningStates
  <2> QED BY <2>1, <2>2, <2>3
<1>2. Watching'
  <2>1. CASE JobRuns
    <3>1. job.state \in RunningStates /\ job.state \notin Ends /\ job'.state # "COMPLETED"
      BY <2>1 DEF JobRuns, Inductive, TypeOK, RunningStates, Ends, TerminalStates
    <3> QED
      BY <2>1, <3>1 DEF JobRuns, Inductive, TypeOK, Watching, Infos, RunningStates
  <2>2. CASE JobEnds
    <3>1. job.state \notin Ends
      BY <2>2 DEF JobEnds, RunningStates, Ends, TerminalStates
    <3>2. job'.state = "COMPLETED" => job'.field = <<0, 0>>
      BY <2>2 DEF JobEnds
    <3> QED
      BY <2>2, <3>1, <3>2 DEF JobEnds, Inductive, TypeOK, Watching
  <2>3. CASE JobRequeued
    BY <2>3 DEF JobRequeued, Inductive, TypeOK, Watching
  <2> QED BY <2>1, <2>2, <2>3
<1>3. OnTime'
  BY DEF JobRuns, JobEnds, JobRequeued, Inductive, OnTime, HasTimeout, NoTimeout
<1> QED
  BY <1>1, <1>2, <1>3 DEF Inductive

\* No step of the command disturbs the invariant.
LEMMA PollerSteps ==
  ASSUME Inductive, Poller \/ Interrupt
  PROVE  Inductive'
<1> USE WatchAssumption
<1>1. TypeOK /\ Watching /\ OnTime
  BY DEF Inductive
<1>2. CASE QueryAnswers
  <2>1. PICK t \in 1..QueryTime : Spend(t)
    BY <1>2 DEF QueryAnswers
  <2>2. elapsed' \in Nat /\ (HasTimeout => elapsed' = elapsed + t)
    BY <1>1, <2>1, Spending DEF TypeOK
  <2>3. ParseExitCode(job.field) \in Codes
    BY <1>1, ParsedCode DEF TypeOK
  <2>4. TypeOK'
    BY <1>1, <1>2, <2>2, <2>3 DEF QueryAnswers, Polled, TypeOK, Infos
  <2>5. Watching'
    BY <1>1, <1>2 DEF QueryAnswers, Polled, Watching
  <2>6. OnTime'
    BY <1>1, <1>2, <2>2 DEF QueryAnswers, Polled, OnTime, HasTimeout, NoTimeout, TypeOK
  <2> QED BY <2>4, <2>5, <2>6 DEF Inductive
<1>3. CASE QueryFails
  <2>1. PICK t \in 1..QueryTime : Spend(t)
    BY <1>3 DEF QueryFails
  <2>2. elapsed' \in Nat /\ (HasTimeout => elapsed' = elapsed + t)
    BY <1>1, <2>1, Spending DEF TypeOK
  <2>3. TypeOK'
    BY <1>1, <1>3, <2>2 DEF QueryFails, Polled, TypeOK, Infos, Codes
  <2>4. "UNKNOWN" \notin Ends
    BY DEF Ends, TerminalStates
  <2>5. Watching'
    BY <1>1, <1>3, <2>4 DEF QueryFails, Polled, Watching
  <2>6. OnTime'
    BY <1>1, <1>3, <2>2 DEF QueryFails, Polled, OnTime, HasTimeout, NoTimeout, TypeOK
  <2> QED BY <2>3, <2>5, <2>6 DEF Inductive
<1>4. CASE Check
  <2>1. TypeOK'
    BY <1>1, <1>4 DEF Check, TypeOK
  <2>2. Watching'
    BY <1>1, <1>4 DEF Check, Watching, Break
  <2>3. OnTime'
    BY <1>1, <1>4 DEF Check, OnTime, HasTimeout, NoTimeout, Expired, TypeOK
  <2> QED BY <2>1, <2>2, <2>3 DEF Inductive
<1>5. CASE Sleep
  <2>1. elapsed' \in Nat /\ (HasTimeout => elapsed' = elapsed + Interval)
    BY <1>1, <1>5, Spending DEF Sleep, TypeOK
  <2>2. TypeOK'
    BY <1>1, <1>5, <2>1 DEF Sleep, TypeOK
  <2>3. Watching'
    BY <1>1, <1>5 DEF Sleep, Watching
  <2>4. OnTime'
    BY <1>1, <1>5, <2>1 DEF Sleep, OnTime, HasTimeout, NoTimeout, TypeOK
  <2> QED BY <2>2, <2>3, <2>4 DEF Inductive
<1>6. CASE Return
  <2>1. status' \in {"success", "failed", "timeout"} /\ status' = SlurmStatus(last)
    BY <1>6, StatusKnown DEF Return
  <2>2. info.code \in Codes
    BY <1>1 DEF TypeOK, Infos
  <2>3. exit' \in 0..255
    BY <1>6, <2>1, <2>2, ShellCode DEF Return
  <2>4. TypeOK'
    BY <1>1, <1>6, <2>1, <2>3 DEF Return, TypeOK
  <2>5. Watching'
    BY <1>1, <1>6, <2>1 DEF Return, Watching
  <2>6. OnTime'
    BY <1>1, <1>6 DEF Return, OnTime, HasTimeout, NoTimeout
  <2> QED BY <2>4, <2>5, <2>6 DEF Inductive
<1>7. CASE Report
  <2>1. TypeOK'
    BY <1>1, <1>7 DEF Report, ReportedExit, TypeOK
  <2>2. Watching'
    BY <1>1, <1>7 DEF Report, ReportedExit, Watching
  <2>3. OnTime'
    BY <1>1, <1>7 DEF Report, OnTime, HasTimeout, NoTimeout
  <2> QED BY <2>1, <2>2, <2>3 DEF Inductive
<1>8. CASE Interrupt
  <2>1. TypeOK'
    BY <1>1, <1>8 DEF Interrupt, TypeOK
  <2>2. Watching'
    BY <1>1, <1>8 DEF Interrupt, Watching
  <2>3. OnTime'
    BY <1>1, <1>8 DEF Interrupt, OnTime, HasTimeout, NoTimeout
  <2> QED BY <2>1, <2>2, <2>3 DEF Inductive
<1> QED
  BY <1>2, <1>3, <1>4, <1>5, <1>6, <1>7, <1>8 DEF Poller

\* Every reachable state of `gpualert slurm` satisfies the inductive invariant.
THEOREM WatchHolds == Spec => []Inductive
<1>1. Init => Inductive
  BY InductiveStart
<1>2. Inductive /\ [Next]_vars => Inductive'
  <2> SUFFICES ASSUME Inductive, [Next]_vars PROVE Inductive'
    OBVIOUS
  <2>1. CASE Next
    BY <2>1, JobSteps, PollerSteps DEF Next
  <2>2. CASE UNCHANGED vars
    BY <2>2 DEF vars, Inductive, TypeOK, Watching, OnTime, HasTimeout
  <2> QED BY <2>1, <2>2
<1> QED
  BY <1>1, <1>2, PTL DEF Spec

-----------------------------------------------------------------------------
\* The exit status of the command is 0 exactly for a job that completed: no code
\* or signal that Slurm may report makes a failed job look like a success.
LEMMA ZeroMeansCompleted == Inductive => SuccessIsCompletion
<1> SUFFICES ASSUME Inductive, pc = "exited"
             PROVE  (exit = 0 <=> last = "COMPLETED") /\ (exit = 0 => job.state = "COMPLETED")
  BY DEF SuccessIsCompletion
<1>1. TypeOK /\ Watching
  BY DEF Inductive
<1>2. status = SlurmStatus(last) /\ exit = ShellExitCode(status, info.code) /\ info.code \in Codes
  BY <1>1 DEF Watching, TypeOK, Infos
<1>3. CASE last = "COMPLETED"
  <2>1. info.state = "COMPLETED"
    BY <1>1, <1>3 DEF Watching
  <2>2. job.state = "COMPLETED" /\ info.code = ParseExitCode(job.field)
    BY <1>1, <2>1, WatchAssumption DEF Watching, Ends, TerminalStates
  <2>3. info.code = 0
    BY <1>1, <2>2 DEF Watching, ParseExitCode
  <2> QED
    BY <1>2, <1>3, <2>2, <2>3 DEF SlurmStatus, ShellExitCode, Passed
<1>4. CASE last # "COMPLETED"
  <2>1. status \in {"failed", "timeout"}
    BY <1>2, <1>4 DEF SlurmStatus
  <2> QED
    BY <1>2, <1>4, <2>1, FailureIsNotZero
<1> QED BY <1>3, <1>4

\* A signal that ended the job comes out as 128 + the signal.
LEMMA SignalPassedOn == Inductive => SignalIsTold
<1> SUFFICES ASSUME Inductive, pc = "exited",
                    last \in TerminalStates \ (Requeues \cup {"TIMEOUT"}),
                    job.field[1] = 0, job.field[2] \in 1..64
             PROVE  exit = 128 + job.field[2]
  BY DEF SignalIsTold
<1>1. last = info.state /\ info.state \in Ends \ Requeues
  BY DEF Inductive, Watching, TerminalStates, Ends
<1>2. job.state = last /\ info.code = -job.field[2]
  BY <1>1 DEF Inductive, Watching, ParseExitCode
<1>3. last # "COMPLETED"
  BY <1>2 DEF Inductive, Watching
<1>4. status = "failed" /\ exit = ShellExitCode(status, info.code)
  BY <1>3 DEF Inductive, Watching, SlurmStatus
<1> QED
  BY <1>2, <1>4 DEF ShellExitCode, Capped

\* The exit status of `gpualert slurm` tells the end of the job: 0 exactly for a job
\* that completed, 128 + N for one that signal N ended.
THEOREM ExitIsFaithful == Spec => []ExitTellsTheEnd
<1>1. Inductive => ExitTellsTheEnd
  BY ZeroMeansCompleted, SignalPassedOn DEF ExitTellsTheEnd
<1> QED
  BY <1>1, WatchHolds, PTL

\* The state and the code of a report are the ones the job ended with and keeps,
\* however many sacct calls failed before, unless Slurm starts such a job over.
THEOREM ReportedForGood == Spec => []ReportIsFinal
<1>1. Inductive => ReportIsFinal
  <2> SUFFICES ASSUME Inductive, pc \in {"report", "exited"},
                      last \notin Requeues \cup {"POLL_TIMEOUT"}
               PROVE  job.state = last /\ info.code = ParseExitCode(job.field)
    BY DEF ReportIsFinal
  <2>1. last = info.state /\ last \in TerminalStates
    BY DEF Inductive, Watching
  <2>2. info.state \in Ends \ Requeues
    BY <2>1 DEF Ends
  <2> QED
    BY <2>1, <2>2 DEF Inductive, Watching
<1> QED
  BY <1>1, WatchHolds, PTL

\* However long sacct takes and whatever the interval, polling is over one round
\* after the timeout.
THEOREM LateByOneRoundAlways == Spec => []LateByOneRound
<1>1. Inductive => LateByOneRound
  BY DEF Inductive, OnTime, LateByOneRound
<1> QED
  BY <1>1, WatchHolds, PTL
=============================================================================
