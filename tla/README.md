# gpualert in TLA+

This directory models gpualert, a wrapper that runs a job, keeps its output in
log files, and mails a report when the job is over.  It is read beside the
source: every definition of a module that stands for code has its lines in
`PROJECT.json` ("map").  Paths below are relative to `gpualert/` in the
repository unless they begin with `docs/`.

    tlc -workers 4 -config JobStops.cfg MCJobRun.tla     # any run of PROJECT.json
    tlapm JobRunProofs.tla                               # the proofs

Contents: [1 the system](#1-the-system), [2 what is
modelled](#2-what-is-modelled), [3 the runs](#3-the-runs), [4
fairness](#4-fairness), [5 the proofs](#5-the-proofs), [6 where documents and
code differ](#6-where-documents-and-code-differ), [7 what is not
modelled](#7-what-is-not-modelled), [8 the plan](#8-the-plan).

## 1. The system

### 1.1 Inventory

| part | state it keeps | operations | talks to | modelled in |
|---|---|---|---|---|
| `launcher.py` `run_job` | the child, the reader threads, status and exit code, the notes | start, wait with a timeout, kill, join, finish; four exception handlers | `capture`, `log_manager`, the OS | JobRun |
| `capture.py` | `LogSink`: three open files, a lock, the closed flag, failures; `StreamReader`: pending text, ring, error, counts | `write`, `close`; `run`, `_emit`, `_drain`, `notes` | the pipes of the job, the log files | JobRun (lines), LineEmit (bytes) |
| `log_manager.py` | the log directories | `open_job_logs` with two fallbacks, `write_to_log`, `get_tail`, `list_recent_logs` | the disk | JobRun (in part), TailReader (`get_tail`) |
| `slurm.py` | the last state sacct reported, the clock | `get_job_info`, `poll_job` | sacct, the logs | SlurmWatch |
| `cli.py` | the exit status once it is fixed | `run`, `slurm`, `config`, `uninstall` | everything | Reporting, SlurmWatch, SecretStore (in part) |
| `notifier/email_notifier.py` | one message and its attempts | `send`, `_deliver`, the building of the message | an SMTP server | MailDelivery; Reporting (attachments) |
| `config.py`, `config_manager.py` | `config.toml` | load, migrate, save, the setup wizard | `secrets` | SecretStore |
| `secrets.py`, `crypto.py` | keyring entry, `secret.enc`, salt or key file | store, load, purge; key derivation | several processes of one user | SecretStore |
| `artifacts.py`, `safe_io.py` | none: the file system is the state | scan, budget, zip, verified open | files other processes change | Reporting |
| `notifier/base.py` | none | subject and body of a report | the files it lists | Reporting (in part) |
| `parse_errors.py` | none | the class of a failure, from the two tails | | Triage |
| `metrics.py` | none | a line of numbers from the artifacts | the files it reads | Reporting (which files it reads, and when) |
| `types.py` | none | records | | as records, in the modules that use them |

### 1.2 How the parts interact

`gpualert run` loads the configuration (which may migrate a password out of
`config.toml`), calls `run_job`, fixes its exit status from the result, and only
then reports: it scans the working directory for artifacts and hands the result
to the notifier.  `run_job` starts the child in its own pipes and one daemon
thread per pipe; both threads and the main thread write to the same three files,
the threads through a `LogSink`, the main thread through `write_to_log`, under
one lock.  When they are done it reads the last lines of the logs back
(`get_tail`) and looks in them for the cause of a failure (`parse_errors`).
`gpualert slurm` does the same with `poll_job` in the place of
`run_job`.  The password is looked up when the report is sent, which may be days
after the configuration was loaded, while other gpualert commands of the user
have come and gone.  Nothing but the file system, the keyring and the mail server
is shared between processes, and no lock file exists.

### 1.3 What is hard in it

* **run_job is six actors at least**: the main thread, two daemon reader
  threads, the job, a background process of the job that inherited a pipe, and
  the user's Ctrl+C, which reaches the job as well.  Between any two
  statements of the main thread any of them may act.
* **the wrapper must survive everything** and still tell the truth: a thread
  that cannot start, a disk that is full, output that does not decode.
* **it may be killed**: what is on disk is then all there is, and every file is
  written in place (truncate, then write).
* **it talks to services that answer late or not at all**: an SMTP server that
  loses a confirmation, sacct that hangs, a keyring that works in a login
  session and not in a batch job.
* **bytes become text twice**: a read may cut a character, a `\r\n` or a line; an
  over-long line is cut on purpose; and the tail is read backwards in blocks that cut
  them again.
* **there are three places for one password**, each with its own failures, and
  commands that move it between them without a lock.

### 1.4 What makes each part correct

| part | what must hold | stated as |
|---|---|---|
| run_job | the caller always gets a result, and the result tells the job's own fate | `Returns`, `FateTold` |
| | no job is left running unwatched, and none dies or hangs because the wrapper stopped reading | `NoOrphan`, `NeverClosedOn`, `JobFinishes` |
| | the logs exist before the job and begin with their header | `HeaderFirst` (a theorem; `Inductive` and `KeepsContract` check it) |
| | nothing follows the footer | `SealedByFooter` |
| capture | order and completeness of each log; combined.log agrees with the others | `NoGaps`, `CombinedAgrees` |
| | output that is missing, or was changed by decoding, is reported | `NothingUntold` |
| | the text in the logs is the text of the job, whatever the reads cut | `LogIsTheOutput`, `CombinedIsTheOutput` |
| tails | the lines quoted in the report are the last ones the job wrote | `TailTruth` (threads and faults), `TailIsTrue` (bytes) |
| | reading them costs no more than the budget, and counts each line break once | `TailHolds` |
| class | it is named by a word of the last lines the job wrote, the first of the list | `ClassIsOfTheOutput` |
| slurm | the exit status is 0 exactly for a job that completed; a report is about the end of the job | `ExitTellsTheEnd`, `ReportIsFinal` |
| | polling ends, with a timeout soon after it | `EndIsSeen`, `TimeoutEnds`, `LateByOneRound` |
| mail | "sent" means queued; duplicates only where the protocol cannot avoid them; send returns; a job that waits blocks no other | `SentIsQueued`, `NoNeedlessCopy`, `SendReturns`, `WaitsOutside` (part of `Inductive`) |
| reporting | the exit status is the job's, whatever the report meets; it ends | `ExitIsTheJobs`, `ReportEnds` |
| | nothing is left out of the mail silently, and the logs of a failed job never are | `NothingLost` |
| | only the user's own files leave the machine, attached or packed only from the directory that the run directory's name led to when the roots were resolved, within the budget | `OnlyOwn`, `WithinBudget` |
| password | it is never lost in an upgrade, the newest one is used, what a save removed from config.toml stays removed | `LegacyKept`, `NewestWins`, `SendsRight`, `Scrubbed`, `PurgedClean` |

PROJECT.json lists under "hazards" each place in the code where one of these
could go wrong in a way a test would hardly reach.

## 2. What is modelled

### 2.1 JobRun: one run of run_job

Variables of the main thread are the local variables of `run_job` (`proc`,
`threads`, `status`, `exitCode`, `stillOpen`, `notes`, `tails`) and its position
`pc`; a call of `write_to_log` is an element of `todo`, taken under the lock in
two steps (`LogAcquire`, `LogAppend`), after which the thread continues at
`after`.  `rd[s]` is the position of the reader thread of stream `s` in
`StreamReader.run`, `hand[s]` the lines it is about to write, `pending[s]` its
unfinished line.  `pipe[s]` counts the lines in the pipe, `written[s]` all that
were written to it.  `file[l]` is what is on disk.  JobInvariant, which extends JobRun,
has what holds between any two steps (`Inductive`, section 5).

| actions | code |
|---|---|
| `OpenLogs`, `Popen`, `PopenFails` | `open_job_logs`, `subprocess.Popen` and its three `except` clauses |
| `StartReader`, `AppendThread` | `t.start()` and `threads.append(t)`, between which an interrupt may come |
| `WaitChild`, `JoinReaders`, `Settle` | `proc.wait(timeout)`, `join_readers`, the status from the return code |
| `KillTimedOut`, `AwaitKilled`, `TimedOut` | the handler of `TimeoutExpired` |
| `StopChild`, `LauncherError` | `stop_child` and the handler of any other exception |
| `InterruptedKill`, `InterruptedLog` | the handler of `KeyboardInterrupt` |
| `FindStillOpen`, `CloseSink`, `CollectNotes`, `Finish` | the end of `run_job`, to the footer and the result |
| `ReadChunk`, `ReadEof`, `SinkAcquire`, `SinkDrop`, `WriteOwn`, `WriteCombined`, `ReaderFails`, `Drain`, `ReaderEnds` | `StreamReader.run` and `LogSink.write` |

A unit of output is one line; a line without its newline is a unit in
`Partial`, a line that does not decode one in `Bad`.  A read may return at any
moment, so lines are chunked in every way.  `LogSink.write` takes the lock once
for all the lines of a chunk and writes two pieces a line, each of which the
disk may refuse.

`LogsRemoved` is `gpualert uninstall` of another process, or a scratch file system that is
cleared: from then on `write_to_log` does nothing, the sink writes unseen to what it
had open and fails to open the rest (`Opened`), and `get_tail` is empty.  The
directory goes in one step.

`Interrupt` is SIGINT between two statements of the main thread: which of them
is a parameter (`InterruptPoints`).  Three positions stand for instants inside a
statement: "held" (writing, lock taken), "gap" (lock taken, `try` not entered)
and "fork" (inside `Popen`, the child made and `proc` not bound).

Abstracted here: bytes and characters, with the cutting of over-long lines
(2.7), what `get_tail` does to return the last lines (2.7), timestamps, the echo to
the console, and the class of the failure (2.7) or the summary of a success in the
result.  A refused write leaves nothing in the file (a torn line is not
modelled).  A read error inside `_drain` is not modelled.  The notes are
collected in one step.

### 2.2 JobContract: what the caller relies on

Three append-only journals that begin with a header once there is a job, and one
outcome, delivered once and never changed, after which the journals are sealed.
`KeepsContract` is the refinement: JobRun with all its threads implements it
(`log <- file`, the outcome appears when `pc = "returned"`, the phase is read off
`pc` and the child).

### 2.3 SlurmWatch: gpualert slurm

The Slurm job moves through Slurm's states by itself (`JobRuns`, `JobEnds`), may
end in a state `slurm.py` does not name (`OtherEnds`), and may be queued again
after a preemption or a node failure (`JobRequeued`).  The command polls:
`QueryAnswers` and `QueryFails` are `get_job_info` with an sacct that answers or
does not, each of which takes 1 to `QueryTime` seconds of the clock; `Check` is
the end of the loop body, `Sleep` the pause.  `Return` builds the result and fixes
the exit status (`ShellExitCode`); `Report` is the mail, whatever comes of it;
`Interrupt` is Ctrl+C, which nothing catches during the polling.  The clock is
kept only when there is a timeout.  sacct's text is abstracted to a state and an
`ExitCode` field, which `ParseExitCode` turns into a code.

### 2.4 MailDelivery and MailContract: send

`pc[j]` is the place of job j in `send`: connecting, in one of the stages of an
SMTP session, in the pause between two attempts, or done.  Each stage may go well,
be refused with a code that leaves the line open or with 421, or be cut; what
smtplib raises in each case (`RefusalAt`, `Transient`) decides between another
attempt and a result (`Raise`, `Handled`).  `Data` is the moment the server queues
the report; `ReplyLost` is a confirmation that never comes.  `copies`, `lost` and
`open` are what no process can see: what the recipients get, which
confirmations were lost, who holds one of the server's `Limit` sessions.

MailContract is what a caller may rely on: copies reach recipients while the call
lasts, one outcome is told once, and it is "sent" only when somebody has a copy.
`KeepsMailContract` is the refinement.

### 2.5 SecretStore: where the password is

`life` is chosen at the start and never changes: which command each process runs,
for whom the keyring works, whether the host has a machine id, whether config.toml
still holds a password of version 0.1.3, whether the commands run one after
another, and how many `faults` there may be: kills and refused writes.
`config`, `keyring`, `secret` and `key` are the stores (`key` is salt.bin, or
key.bin on a host without a machine id); `pc[p]` is the place of process p in its
command: "load" (any command that only loads the configuration), "run", "init"
(the wizard), "purge" (uninstall) or "reset".  `cont[p]` says where `store_secret`
or `get_fernet_key` returns to, `mem[p]` is the process's own configuration.
Every file is written in two steps, so that a kill (`Crash`) or another process
may come between the truncation and the write.  `Refused` is a file that cannot be
opened, or a write that fails: of config.toml (`save_config` catches it and returns
False), which leaves the file as it was or torn, while the migration goes on
without looking (`AfterSave`, and what it has said is in `cont`: "migrated" or
"unsaved"); of the key or secret.enc, after which nothing is stored and the
migration, or the wizard, goes on as after any failed store.  `ShredSecret`, `UnlinkSecret`,
`ShredKey`, `UnlinkKey` are the steps of `purge_file_secret`.  The keyring works
for some of the processes, chosen at the start: a batch job has none.

A life with `serial` runs one command at a time; `OneByOne` is such a life whose
keyring works for every process or for none.  SecretInvariant, which extends
SecretStore, has what holds between any two steps.

Ghost variables: `used` (what a run sent with), `newest` (the password the user
last made gpualert store), `made` (keys generated so far, so that two keys are
different).  Left out: the environment variable, several user names, a machine id that
changes, `SecretStr`; failures of reads and of removals (a purge that cannot unlink), and
a keyring that fails only sometimes for one process.

### 2.6 Reporting: from the result to the exit status

`disk[f]` is what the name of an output file leads to: a file of the job, one that
was written again, something "foreign" (a link out of the directory, a file of another
user), a named pipe, a file of the user's in another directory, or nothing.  There are
two ways into another directory.  "moved": a directory between the run directory and
the file became a link.  "away": the name of the run directory itself leads there,
since it, or one above it, was renamed, replaced or made a link (`MoveRoot`).  The
difference is what `safe_io.py:100-103` makes of it, for the roots are resolved from that
name: `root` is where it leads, `roots` where it led when `resolve_roots` ran, once as
`prepare_attachments` is called (`AttachLogs`) and once more in `send` (`BodyDone`).  A file
that is "away" is refused under roots from before the redirection and accepted
under roots from after it (`Inside`), and the files of the old place the other way round.

`size[f]` is what the scan saw; `touched` are the files that
changed since it began.  `queue` is what the loop at `pc` has still to do; `to`, `used`,
`overflow` and `notes` are the variables of `prepare_attachments`; `packed` and
`mail` are what was really read, into the zip and into the message; `artifacts` is
the list of the scan, and `quoted` what the metrics of the mail were read from.

| actions | code |
|---|---|
| `FixExit`, `Begin`, `Tell`, `Exit` | `run` and `_report_run` in `cli.py` |
| `ScanFile`, `Scanned` | `find_artifacts`, one file a step, in any order: listed, counted as left out, or passed over (`PassedOver`: its `stat` fails, or in a directory that was put in the place it is from before the job); and `describe_skipped` |
| `AttachLogs`, `Fit`, `Overflow` | `resolve_roots` and `prepare_attachments` |
| `ZipCheck`, `ZipOpen`, `ZipFails`, `ZipDone` | `compress_artifacts` and what its caller makes of its size |
| `Announce`, `ReadMetrics`, `MetricsDone` | the list on the console and `extract_metrics`, one read of a file a step; a CSV that pandas refuses is read a second time |
| `Send`, `BodyCheck`, `BodySize`, `BodyDone` | `EmailNotifier.send` to the end of `_build_body` |
| `AttachOwn`, `AttachCheck`, `AttachOpen`, `Deliver` | the loop over the attachments; the sessions are one step (2.4) |
| `Change`, `MoveRoot`, `PrintFails`, `Interrupt` | another process, at a file or at a directory; a closed stdout; Ctrl+C |

Wherever the code asks `os.path.isfile` first and opens, or measures, later, these
are two steps, and `Change` or `MoveRoot` may come between.  `open_verified` is one step: it
decides on the file it has opened, against the roots it is given; the metrics give it
none (`OpenUnrooted`).  Left out: patterns, excluded directories and depth (they decide
which files there are at all), the text of notes, and what the formats of the metrics
parse to; a name that a note cuts off after five or ten counts as named, because the
note gives the number.  The early `return []` of `find_artifacts` (lines 133-137, no
directory under the name) is each file being passed over, after a `MoveRoot` that leaves
none.  The wrapper's logs and zip are in a directory of its own and do not change: it
is taken not to lie below the run directory, and no artifact to lie in it (it is a
root too).

### 2.7 TextLines, LineEmit, TailReader, Triage and LogText: bytes to the class

The way of one stream, from the bytes the job writes to the class of its failure.
TextLines has the operators the others share: decoding with replacement, `\r\n` and
`\r` as `\n`, lines.  A byte is a symbol; one character of two bytes (`lead`,
`cont`), one ordinary character, the two line breaks and three words of
`ERROR_PATTERNS` are enough, for nothing in the code looks at more of a byte.

| module | variables | actions | code |
|---|---|---|---|
| LineEmit | `taken`, `half` and `crHeld` (what the two decoders hold back), `pending`, `midLine`, `own` and `combined` (the logs), `lines`, `replacements` | `ReadSome`, `ReadEnd` | `StreamReader.run`, `_emit`, `_add` |
| TailReader | `bytes`, `pos`, `data`, `breaks`, `budget`, `tail` | `TailOpen`, `TailBlock`, `TailCut` | `get_tail`, a block a step, and `_split_lines` |
| Triage | | (the operator `ParseErrors`) | `parse_errors` |
| LogText | `linesep`, `stdoutTail`, `class` | `Read`, `ReadBack`, `Classify` | `tail_of` and the call of `parse_errors` in `run_job` |

A read returns 1 to `ReadChunk` bytes, so every way of cutting the input is a
behaviour.  The references are written without chunks, carries, blocks or budgets:
the log is `SplitLines` of the whole text, the tail its last lines, the class the
first word of the list in them.  LogText composes one reader, which runs alone:
what two readers do to each other at the lock is JobRun, where a line is a unit.
What the readers put before a line (`Added`: the stamp, the tag) is told apart from
what the job writes (`EmitAssumption`); in the code both are characters of the file, but
nothing reads a stamp back.  `TailIsTrue` says for a file of any bytes which of its lines
`get_tail` returns, also when they are more than the budget (`LastFit`).
Abstracted: stamps and tags are one symbol each; the tail of stdout is one of a few
texts.

## 3. The runs

Seven runs pass; five are counterexamples to something the repository says, each
with the line it says it in (PROJECT.json, "findings").

| run | what it asks | bounds | distinct states |
|---|---|---|---|
| JobFaults | what logs, tails and notes still say truthfully after two faults, and that the job ends | 3 lines (2 + 1), pipes of one line, one line that does not decode, one unfinished line on each stream; any two of exec, thread, kill, reader, disk and out-of-memory faults and the removal of the logs; logs on disk or in memory; one Ctrl+C while the main thread waits, joins or settles, or inside `Popen` | 1.45 million |
| JobStops | everything that ends a run early | a line on each stream and one of a background process; timeout, a job that may hang, late readers; one fault (thread, reader, out of memory, removal of the logs, kill of the wrapper) and one Ctrl+C at any point but inside `Popen` | 1.60 million |
| JobForkInterrupt | *violation*: Ctrl+C inside `Popen` leaves the job running | one line a stream | a few hundred |
| SlurmPolls | report, exit status and end of `gpualert slurm` | no timeout, timeout 0, timeout 5; interval 2, sacct calls of 1 to 3 seconds; four ExitCode fields; two end states the code does not know | 33 thousand |
| SlurmTimeoutCode | *violation*: the exit status after the poll timeout is not 124 | the same | 6 thousand |
| MailReports | what is told of a report, and how often it arrives | two jobs, two recipients, three attempts (four in the code), a server with one session; every fault smtplib has an exception for; Ctrl+C | 334 thousand |
| SecretLives | the first commands after an upgrade, all at once; the commands of a longer life in every order | upgrade: three processes, of which the keyring fails at most one, two faults (kills or refused writes); longer life: wizard, run, uninstall and reset, the keyring for all or none, one fault | 319 thousand |
| SecretRace | *violation*: two first commands without a keyring lose the password | two processes | a few hundred |
| Reports | what is mailed, what is named and the exit status, while files and the run directory change under the report | two output files; sizes at, below and over the limit for one file, which together keep or break the budget; two changes (of a file, or of where the run directory's name leads), two interrupts, a closed stdout, a zip that cannot be written; logs none, small or over the budget; every option, and a working directory that is unknown | 4.60 million |
| ReportRefused | *violation*: a file that is refused when it is opened is not named as left out | the same files, one change | 212 thousand |
| LogText | that logs, tail and class are of the job's bytes, however they are cut | every input of up to five bytes over the alphabet of the decoders, every one of up to four words and line breaks, over-long lines of two-byte characters up to and past the budget; reads of 1 to 3 bytes, at most 2 characters held back, blocks of 2 bytes, a budget of 9, tails of 2 lines; both line separators | 198 thousand |
| TriageStderrFirst | *violation*: a word in stdout decides over what stderr says | the same | until the first one |

The exact properties are in PROJECT.json, and each property of a passing run has a
mutant there: a plausible bug of the code (a dropped guard, a missing reset) with
which TLC finds that property violated under the same configuration.

**Why these bounds.**  *JobRun*: two lines on one stream are the least with an
order and with a second line in a chunk; the second stream with one line gives
contention for the lock; a pipe of one line blocks the job on every second one.
One interrupt is the number after which no handler is left to enter (a second one
escapes, section 6).  Two faults let one hide the other: a reader that fails on
the stream whose file refused a line.  *SlurmWatch*: an interval of 2 and calls of
up to 3 seconds reach a timeout of 5 exactly, early, late, and during the sleep or
the call; timeout 0 is the boundary.  *MailDelivery*: three attempts have a first,
a middle and a last one, and two jobs over one session make each other wait.  The
proofs cover every other value.  *SecretStore*: two processes are enough for each
race of a read with a write, a third can come after both; a kill can fall into
each window between two steps, a second one into the command that repairs the
first, and a refused write can meet each file that is written.  *Reporting*: two files are the least of which one fits and the other does not;
two changes can hit one file twice or both once, or lead the run directory's name away
and back, between the resolution for the zip and the one for the mail or around either; the
second interrupt is the one that nothing catches.  *LogText*: five bytes hold a
`\r\n` and a whole character with a neighbour, so each can be cut by a read, by the
limit for a line and by a block; 2, 2 and 3 are pairwise unaligned with the two-byte
character and with each other's multiples, and a file is shorter than, equal to and
longer than the budget of 9.  In a violation run the number of states is what TLC
had seen when it stopped.

`CHECK_DEADLOCK FALSE` is in every configuration because every one of these
programs ends.

Some properties are restricted to what the code promises, and say so:
`NewestWins` and `SendsRight` are about commands none of which was killed or refused a
write, one after another, with a keyring that works for all or for none (`OneByOne`);
`PurgedClean` is about the same lives, kills and refusals included, and asks for the keyring entry only where
config.toml still names its user; `ReportIsFinal` leaves out the states from which Slurm may start a
job again; `Scrubbed` is about a migration whose `save_config` went through (of one whose
save is refused the message is wrong); `OnlyOwn` is about the directory to which the run
directory's name led when the roots for the zip, or for the mail, were resolved, which is not
always the one the job ran in; `WithinBudget` is about files nobody changed since the scan began;
`EndIsSeen` is about states `slurm.py` knows;
`ClassIsOfTheOutput` is about a log that fits the budget of the tail (of a longer one
`TailIsTrue` says which lines are read) and a stdout whose tail could be read and so has its
header or a stamp (`LogTextAssumption`); `NothingUntold` does not count replaced
characters of a stream whose pipe is still held at the end, nor output whose reader
an interrupt kept from being started; it and `TailTruth` except a log that was removed
while the sink had it open (`PulledAway`); `JobFinishes` leaves out a job whose second reader
could not be started and whose kill was refused (`KillRefused`).  What happens outside the
restriction is in section 6.

## 4. Fairness

* `FairSpec` of JobRun: the main thread, each reader thread and the job go on when
  they can (`WF`).  Threads are scheduled by the operating system; a job that
  neither exits nor hangs is what the absence of a timeout asks of it.  Nothing is
  assumed of the user, of a background process or of the faults.  JobFaults runs
  under it.
* `HangSpec`: the same, but of the job only that SIGKILL ends it.  Under it, a run
  with a timeout still returns (JobStops).
* SlurmWatch: `WF` of the command, for an sacct call is cut after 15 seconds
  (`subprocess.run(timeout=15)`) and the sleep ends.  `EndIsSeen` has the
  hypothesis that sacct does not fail for ever (`SF` of `QueryAnswers`);
  `TimeoutEnds` has none.
* MailDelivery: `WF` of each job's `send`, for the SMTP connection has a socket
  timeout and the pauses are bounded.
* Reporting: `WF` of the process; that the sessions come to an end is `SendReturns`
  of MailDelivery.  That no open waits for the other end of a pipe is not assumed:
  it is what `OpenReturns` says of `open_verified`, and `ReportEnds` depends on it.
* LogText states none: its properties are about what is there, and reading a file and
  cutting a string end by themselves.

`Returns` has an exception that the formula names: an interrupt in the instant
after `lock.acquire()` and before the inner `try` of `write_to_log` leaves the lock
taken (`LockLeaked`), and `sink.close()` may then wait for ever.

## 5. The proofs

All of them are for every value of the constants, from the named assumption of
the module (`JobAssumption`, `WatchAssumption`, `MailAssumption`, `ReportAssumption`,
`SecretAssumption`, `EmitAssumption`, `TailAssumption`, `LogTextAssumption`), which only says
what the constants are: that the budget of a tail is not 0 (`_TAIL_MAX_BYTES` is 2 MB), that
the header of a log ends its line (`launcher.py:129`), that `os.linesep` is `\n` or `\r\n`, that the
tail of stdout is not all newlines.

Each inductive invariant is an INVARIANT of a run as well, so that TLC
looks for a state that breaks it; the ones of LogTextProofs are about the operators of that
module, were checked on the instance of LogText before they were proved, and are not in
the list of runs.

**JobRunProofs.**  `TypeCorrect`, `ControlHolds`, `HeaderThere`, `FateIsTold`,
`FooterIsLast`, `NoBrokenPipe`, `NoJobLeft`: where the threads, the lock and the job
are.  `SealedByFooter` is not inductive: that no reader writes after the footer depends
on the closed flag, which depends on who holds the lock.  `Control` has what carries
each of them: a pipe holds at most what was written to it (`PipeHistory`, which the type
of a chunk needs); whoever is about to write has something to write (`WorkInHand`); a
writer holds the lock (`MutualExclusion`); the footer is written only by the last call of
a run that has closed the sink, and a closed sink has no reader in the middle of a write
(`Sealing`); the header is in every log from `OpenLogs` on, since logs only grow
(`HeaderKept`).  `FateTold` speaks of the returned result alone; `FateKept` carries it
there: what is certain of the job at each place from which a status is given (it has gone
once `wait` returned, it was sent SIGKILL or has gone after `kill`, an interrupt did come
before the handler runs), and the `Verdict` from then on.  `NeverClosedOn` needs
`ReadToTheEnd`: a reader is through with its pipe only when the job has gone; the failed
reader that goes on to drain is the case that matters.  `NoJobLeft` has two hypotheses, no
interrupt inside `Popen` after the fork and no kill that is refused; JobForkInterrupt
shows what happens without the first.  Its invariant, `KeptOnLeash`, is that every way to
the end of `run_job` passes a place where the job has gone or was sent SIGKILL.  One lemma
per conjunct; the steps of the main thread, of the readers and of everything else are
separate lemmas, because the last leave the files alone.

**JobLogProofs.**  `InductiveHolds`, `LogsHaveNoGaps`, `CombinedIsBoth`, `LossIsTold`,
`TailsAreTrue`, `ContractIsKept`: what is in the files, for any number of lines.
`Journal` follows a line from the pipe to the logs.  What was read and is not an
unfinished line is in the ring (`RingFull`), the lines in a thread's hand are its
last; the first `Emitted` ones went through the sink, and its own log has one more
while the reader is between the two files (`Flow`, `Logged`); so each log is the stream in
order (`Ordered`), and as long as nothing failed it is all of it (`Exact`).  `Noted`
and `TailsTrue` are the two places where `run_job` reads state that threads write: they
hold from the moment the notes and the tails are taken, since whatever they depend on is
settled once the sink is closed (`Closing`, `Staffed`).  `ContractIsKept` is the
refinement: a step of JobRun appends to JobContract's journals before the outcome, or
delivers it, or is a stutter; that nothing is appended after it is `Sealing`.
`JobAssumption` says of `InterruptPoints` that no interrupt is caught at "returned",
"escaped" or "crashed", where there is no `run_job` left to interrupt.

**SlurmWatchProofs.**  `WatchHolds`, `ExitIsFaithful`, `ReportedForGood`,
`LateByOneRoundAlways`.  `Watching` relates what was seen last to what the job is
now: a final state, once seen, stays, with its code.  `OnTime` bounds the clock at
each place of the loop.  That the exit status is 0 only for success
(`ZeroMeansCompleted`) and that a job which a signal ended is told by that signal
(`SignalPassedOn`) come from lemmas about `ParseExitCode` and `ShellExitCode` over all
integers; `ExitIsFaithful` is both.

**MailDeliveryProofs.**  `SessionsHold`, `SentMeansQueued`, `CopiesBounded`,
`ContractKept`.  `Counted` says, for each place in a session, how many
confirmations were lost and how many copies there can be: one lost confirmation an
attempt at most, one copy more than that only between the DATA of this session
and its reply.  `ContractKept` is the refinement: `Data` is a delivery, `Raise` and
`Quit` tell an outcome or stutter, everything else stutters.

**ReportingProofs.**  `ReportInvariant`, `NothingIsLost`, `OnlyOwnLeaves`, `ExitKept`,
for any number of files, sizes, changes and interrupts.  `NothingLost` speaks of the end
alone; what carries it there is `Accounted`: a file nobody touched is, at each place
of the program, in the list that place still has to go through, or already where it
belongs (`Whereabouts`), and it is still the file the scan saw, under a name that was not
redirected when the roots were resolved (`StillThere`), so no check on the way refuses
it.  A file that is touched leaves the claim, for good, and when the directory's name is
redirected all of them do.  `OnlyOwn` compares what was read with `roots`, not with where the
run directory is or was, and so it does not depend on `MoveRoot` being rare; it does depend on
the roots being resolved before anything is opened under them: nothing is packed before
`AttachLogs` and nothing attached before `BodyDone` (two conjuncts of `Accounted`).
The lemmas `RangeAppend`, `RangeTail` and `RangeBySize` say what a queue holds after
each operation on it.  `ExitFixed` is `ExitIsTheJobs` at every place from
`FixExit` on.  These, with the types and `OnlyOwn`, are `Tracked`.

`BudgetIsKept` (`WithinBudget`) is about the sum of a set, and `TotalSize` is a fold, so it
needs facts about a recursive function over finite sets: that such a function exists,
that the order in which it takes the elements does not matter (`TotalWithout`), that a
part comes to no more than the whole (`TotalOfPart`).  The library's induction theorems
cannot be used; what can is `WFMin`, that a set of finite sets has a least element, so
each of these lemmas looks at the least counterexample (`LeastSubset`).  The invariant
`Budgeted` then compares the mail with what is `Planned`, at the sizes of the scan: a
file nobody touched is attached as planned (`StillThere`), what is planned comes to no
more than `used` and the zip, and these are within the budget unless the logs alone
are over it, in which case nothing else was planned.  `InductiveHolds` is both parts.

**SecretStoreProofs.**  For any number of processes, commands, kills and refused writes; the
induction is over steps of all of them.  Two kinds of life need two arguments, which share the types
and the places of each command (`Placed`).

* `LegacyIsKept` and `StaysScrubbed`: first commands after an upgrade, all at once.  There
  is only one password, "old", and the question is where it is.  Let f be the one process
  whose keyring may fail.  Either the keyring has the password, and nobody takes it out
  again; or f has not yet written secret.enc and everything is as it was (`Before`); or it
  has, and the file is whole and under the key that is on disk (`After`), for nobody else
  writes key or secret.  `Handed` is the disjunction; it is inductive.  A refused write keeps it, for it
  leaves a file as it was or truncated, and truncated is what `Before` and `After` allow of a
  file in the middle of a write (`RefusedDoes`, `AfterSaveDoes`).  `StaysScrubbed` is about a
  process whose save went through; a process whose save was refused prints the same
  message, and for it the claim is false (`SaidScrubbed`, section 6).  The hypothesis `\E f \in Procs : OneWithout(f)` of `LegacyIsKept` cannot be dropped:
  with two such processes SecretRace has a counterexample.
* `NewestAlwaysWins`, `RunsSendRight`, `PurgesClean`: commands one after another
  (`OneByOne`).  `Settled` says what the running command may rely on at each of its places,
  in the manner of an annotated program: the configuration it holds is good for the
  newest password (`GoodFor`), the key in its memory is the one on disk, the file it is
  about to save leads to the password it has just stored (`Target`).  It holds of lives in which
  nobody was killed or refused a write; that at most one store is in use (`OneStore`) and that uninstall has
  removed the keyring entry (`Purging`) hold with kills and refusals as well, and are what
  `PurgesClean` needs.

**TailReaderProofs.**  `TailBounded` and `TailIsTheEnd`, of `TailSpec`: `get_tail` alone, on any
file, with any block size, budget and number of lines.

* `TailBounded` (`TailHolds`): the blocks read so far are the end of the file, together no more
  than the budget, and the line breaks counted block by block, a `\r\n` cut by a border
  included (`SplitPair`), are those of the whole.  The lemmas `CountJoined` and `PairsJoined`
  count symbols and pairs in two sequences put together.
* `TailIsTheEnd` (`TailIsTrue`): what is returned is the last lines of the file.  When the loop
  ends, `data` is an end of the file that begins anywhere, in a character, in a `\r\n` or in a
  line.  The lines of the file are some lines and then those of `data` but for its first
  (`SuffixLines`): the file is divided at the first line break in `data`, where both halves
  decode and split by themselves (`Border`, `BorderJoins`).  So the cut drops what is not sure
  and nothing else, and enough is left, because there are no fewer lines than breaks that were
  counted (`FewBreaks`: `breaks > TailLines` leaves `TailLines` whole lines).  When the budget
  ends the loop instead, one more line would not fit (`NotFit`, from `FewerLines`: of two ends
  that begin with a line, the shorter one has fewer).  `CutIs` puts these together.

Decoding, the translation of line ends, stamping and the removal of symbols are each a
`FlattenSeq` of sequences of at most two symbols, and `FlattenSeq` is a fold.  What it does to
two sequences put together (`FlattenJoin`) is shown at the least length for which it
would be false (`NatLeast`, and `CountUp` from it, take the place of induction); from it come
`DecodedJoin` (a cut that does not part a character) and `TranslatedJoin` (one that does not
part a `\r\n`).  That a text can be split into lines in one way only is `LinesUnique`, and so
`SplitLines` is that way (`SplitIs`, `LinesAre`).

**LogTextProofs.**  `EmitInvariantHolds`, `LogIsTheText`, `CombinedIsTheText`: for every
input, header, length of the reads and limit for a line held back.  The invariant
`EmitInvariant` follows the bytes: what the two decoders hold back, `half` and `crHeld`, is
exactly what keeps the cut after the last byte given away from parting a pair
(`DecodersHold`); the log is the header and the stamped text but for the carry `pending`,
which has no line break (`LogHolds`).  `StampedJoin` and `WithoutJoin` are the lemmas for what is
written.  `CombinedHolds` says of combined.log that it is the header and whole tagged lines with the
same characters; a line flushed in pieces is several of them.

`LogTailBounded` and `LogTailIsTheEnd` join this with TailReaderProofs: `TailHolds` and
`TailIsTrue` for `get_tail` on the log the reader has written (the reader has ended by then, so
the log is complete: `FileKept`).

`ClassIsTheOutputs` (`ClassIsOfTheOutput`) goes the whole way, from the bytes in the pipe to the
class.  What is written to the log and read again is the same text, whatever the line
separator (`EncodedReadsBack`), so the lines of the file are the header's and the job's, each
with its stamp (`LogLinesAre`).  A stamp, and the newline that closes an unfinished last line,
are no words, so line by line the file has the words of the text (`SameWords`), and so have the
last lines of both (`LastLinesAre`).  A log within the budget is returned in its last
`TailLines` lines, all whole (`FitsIsTail`).  And `parse_errors` finds in the two tails exactly
what counts there (`MatchesSeen`; "Killed" only as the last symbol of stdout's that is no
newline, `LastButNewlinesIs`), and takes the first of the list (`ParseErrorsIs`).  `ClassKept`
carries the class from the step in which it is set.

**Model-checked only**: every liveness property (the provers have no rule for fairness
or ENABLED that reaches them): `Returns`, `JobFinishes`, `EndIsSeen`, `TimeoutEnds`,
`SendReturns`, `ReportEnds`.  Every safety property of a passing run has its theorem.

## 6. Where documents and code differ

With a run that shows it:

* `launcher.py:183`: Ctrl+C inside `Popen` after the fork leaves `proc` unbound;
  the handler kills nothing and the job runs on (JobForkInterrupt).
* `slurm.py:224`: `POLL_TIMEOUT` has no entry in `SLURM_STATUS_MAP`, so the exit
  status is 1, and `docs/cli-reference.md:13,17` promises 124 (SlurmTimeoutCode).
* `parse_errors.py:98`: "Searches stderr first (typical source), then stdout", but a
  word of a higher pattern in stdout decides over what stderr says (line 100); and
  `Killed\s*$` (line 73) matches at the end of stdout's tail only, which always has at
  least its header, so a job whose stderr ends in "Killed" is reported as
  "Process exited with code" (TriageStderrFirst).
* `crypto.py:113`: two first commands at once each make a key (SecretRace).
* `notifier/email_notifier.py:92`: the body, with its list of attached files, is
  built before the files are opened; one that is refused then is listed as
  attached, and one that the zip may not open (`artifacts.py:261`) is named nowhere.
  CHANGELOG.md:51-52 says that every file left out is listed (ReportRefused).

Met while modelling, read off the code, without a run of their own:

* `notifier/email_notifier.py:74`: recipients the server refused are named in "Email
  sent to ...", as long as one was accepted.
* `launcher.py:290`: the tails of a short output hold the header of the log, with the
  command line; a command that contains a word of `ERROR_PATTERNS` may be classified by it.
* `metrics.py:37`: the metrics are read without roots; when a directory above an
  artifact has become a link, they are from another file of the user's ("moved" in
  Reporting; `OnlyOwn` says what does hold).
* `cli.py:315`: nothing catches a Ctrl+C while `poll_job` sleeps: no footer, no mail.
* `launcher.py:286`: when the log directory is removed during a run (`cli.py:546`,
  uninstall in another terminal), the sink writes on to files nobody can open;
  `get_tail` finds none, so the tails in the report are empty, although the ring has the
  lines, and no note says so (`PulledAway` in JobRun; without this exception TLC finds
  `TailTruth` violated).  `docs/architecture.md:54`: "Anything that goes wrong is
  reported, not swallowed".
* A second Ctrl+C while the first is handled leaves `run_job` (`launcher.py:245`),
  with neither footer nor result.
* `log_manager.py:171`: the lock leak named in section 4.
* `capture.py:246`: a reader whose pipe is still held when `run_job` ends has
  replaced characters that no note mentions; its unfinished line is in no log.
* `launcher.py:198`: with a Ctrl+C before both readers are started the output of
  the stream without a reader is lost, and no note says so.
* `launcher.py:131`: when no directory can be written, `run_job` returns a result
  without log files; `docs/architecture.md:33` says there is no such path.
* `email_notifier.py:167`: after a lost confirmation the report is sent again;
  `docs/runbook.md:68` says it was not sent.  The same page says that `send`
  retries once; it makes four attempts.
* `email_notifier.py:40`: a 421 in the middle of a session is not among the errors
  that are tried again.
* `slurm.py:226`: the sleep is not cut at the timeout, so polling ends up to a round
  late (`LateByOneRound` is what does hold).
* `slurm.py:32`: DEADLINE, BOOT_FAIL and REVOKED are polled for ever without a
  timeout.
* `secrets.py:107`: when the keyring fails and the file takes a new password, an
  older entry in the keyring wins once the keyring works again.
* `crypto.py:100`: secret.enc, the salt and the key are truncated and then written;
  the module's head calls it atomic.  `config.py:228` does the same with config.toml,
  and a run that reads it in between takes itself for unconfigured (`config.py:184`).
* `config.py:211`: a migration that read config.toml before a wizard of another
  process saved a new password puts the old one back.
* `config.py:214`: the migration does not look at what `save_config` returns.  When the file
  cannot be written (235-237: False), "It has been removed from config.toml" (217) is printed
  all the same.  If the file could not be opened the password is still there in the clear,
  until a later load migrates again; if the write failed it is empty, with the rest of
  the configuration.  `SaidScrubbed` of SecretStore.tla states what the message claims:
  as an INVARIANT of SecretLives.cfg it is violated, `Scrubbed` is not.  The wizard, too, goes on
  as if the configuration had been saved.
* `cli.py:251`, `notifier/email_notifier.py:110`: the roots that `open_verified` checks are
  resolved again from the run directory's name, after the scan and once more for the mail.  When
  that name is redirected meanwhile (the directory, or one above it, is renamed, replaced or made
  a link), the roots follow it: files of the other directory with the same names are packed
  or attached, and the job's own are refused; zip and mail may even be of different
  directories.  `OnlyOwn` says what does hold.
* `artifacts.py:172`: a file whose `stat` fails is neither listed nor counted as left out
  (`PassedOver`).
* `cli.py:519`: after `config --reset` uninstall no longer knows the user name and
  leaves the keyring entry.
* `config_manager.py:147`: when the secret cannot be stored, the wizard writes the
  password to config.toml after saying that it is kept in memory only;
  `docs/getting-started.md:31` says it never lands on disk.
* `notifier/base.py:101`: a file removed between `isfile` and `getsize` raises while
  the body is built, and the whole mail is given up; `docs/runbook.md:149-150` says
  that the path is skipped rather than the send failed.
* `artifacts.py:302`: the budget is kept with the sizes of the scan; a file that grew
  since is attached as it is (`docs/architecture.md:122`: "bounded in size").
* `cli.py:178`: Ctrl+C after the exit status is fixed and before the `try`, or in its
  handler, changes the exit status all the same.

## 7. What is not modelled

* `create_job_log_dir` and `create_fallback_log_dir`: the name of a directory is the
  second and eight hex digits of a random id, so that two jobs share one is a matter of
  chance, not of order; what a failure of either does is in JobRun (`OpenLogs`).
  `list_recent_logs` and `setup_job_logger` only read, or are not called.
* The formats of `metrics.py` and the merging of what they say; the rest of
  `ERROR_PATTERNS`; `extract_success_metrics`: text to text, every failure a None.
* The text sacct prints, `validate_config`, `safe_repr`: functions of their arguments.
* Tables, colours, tracebacks, the text of notes and mails: presentation.
* `DryRunNotifier` prints and does nothing else; `types.py` holds records.

## 8. The plan

The order was: the run of a job (JobRun, the core), its contract, the polling of
Slurm, the delivery of reports, the password, the report itself, and the text
of the logs; then the proofs, in the same order.  These are done.  What would come next:

1. **Composition**: JobRun's result, through Reporting, to MailDelivery's contract:
   each finished run reports once, or says that it did not.
2. **Two readers on bytes**: LineEmit has one; the other's lines in combined.log are in JobRun
   only, where a line is a unit.
