----------------------------- MODULE Reporting ------------------------------
(***************************************************************************)
(* What `gpualert run` does once run_job has returned (run and _report_run *)
(* in cli.py): the scan of the run directory, the size budget and the zip  *)
(* of what is over it (artifacts.py), the message (EmailNotifier.send) and *)
(* the exit status; while other processes change, swap and remove the      *)
(* files, and the run directory itself, between any two looks at them, and *)
(* the user presses Ctrl+C.                                                *)
(***************************************************************************)
EXTENDS Integers, FiniteSets, FiniteSetsExt, Sequences, SequencesExt

CONSTANTS
  Files,          \* files of the run directory that match a pattern
  Calls,          \* what a call may be: see CallType
  FirstSizes,     \* their sizes when the job is over
  Sizes,          \* sizes they may get
  MaxSingle,      \* max_single_mb
  Budget,         \* max_total_mb
  Faults,         \* "print": the console raises; "disk": the zip cannot be written
  MaxChanges,     \* bound on changes of a file, or of the directory, from the scan on
  MaxInterrupts

\* A file of the job ("regular") may be written again ("late") and become, or be
\* from the start, a named pipe, or "foreign": a link out of the directory or another
\* user's file.  It may be removed.  "moved": what its path opens is a file of the user's
\* in another directory, for one between the run directory and it became a link.
\* "away": in the directory that the run directory's own name leads to since that, or
\* one above it, was renamed, replaced or made a link.
Kinds == {"regular", "late", "foreign", "fifo", "moved", "away", "gone"}

\* Where the name of the run directory leads: the place it led to when the job was over,
\* or another one.  Roots are compared as paths, so whatever directory is put in a place
\* is that place.
Dirs == {"here", "away"}

\* exit is what _shell_exit_code gives; logs the size of the log files, 0 if there are none.
\* hasCwd: the working directory of the job could be determined.
CallType == [exit : Nat, notify : BOOLEAN, scan : BOOLEAN, hasCwd : BOOLEAN,
             attachLogs : BOOLEAN, configured : BOOLEAN, logs : Nat]

ASSUME ReportAssumption ==
  /\ IsFiniteSet(Files) /\ Files \cap {"logs", "zip"} = {} /\ Calls \subseteq CallType
  /\ FirstSizes \subseteq Nat \ {0} /\ Sizes \subseteq Nat \ {0}
  /\ MaxSingle \in Nat /\ Budget \in Nat /\ Faults \subseteq {"print", "disk"}
  /\ MaxChanges \in Nat /\ MaxInterrupts \in Nat

VARIABLES
  call,           \* the job's result and the configuration
  disk,           \* the files
  touched,        \* those that changed since the scan began
  root,           \* where the run directory's name leads
  roots,          \* where it led when resolve_roots ran, for the zip and for the mail
  pc,
  unscanned,      \* files os.walk has not come to
  size,           \* ArtifactFile.size_bytes
  queue,          \* what the loop at pc has still to do
  artifacts,      \* artifact_list
  to, used,       \* to_attach and used_bytes of prepare_attachments
  overflow,
  packed,         \* what the zip was made of
  archive,        \* its size, 0 if it is not attached
  quoted,         \* what the metrics of the mail were read from
  notes,          \* files result.notes names or counts
  mail,           \* attachments of the message
  outcome,        \* of send
  exit,           \* exit_status, and what the process exits with
  changes, interrupts

metricVars == <<artifacts, quoted>>
reportVars == <<unscanned, size, queue, metricVars, to, used, overflow, packed, archive, notes,
                mail, outcome, roots>>
worldVars == <<disk, touched, root, changes>>
vars == <<call, worldVars, pc, reportVars, exit, interrupts>>

NoExit == -1
Failed == call.exit # 0

Init ==
  /\ call \in Calls
  /\ disk \in [Files -> [kind : Kinds \ {"gone", "moved", "away"}, size : FirstSizes]]
  /\ root = "here" /\ roots = [zip |-> "here", mail |-> "here"]
  /\ touched = {} /\ pc = "over" /\ unscanned = Files
  /\ size = [f \in Files |-> 0] /\ queue = <<>> /\ to = <<>> /\ used = 0
  /\ artifacts = <<>> /\ quoted = {}
  /\ overflow = <<>> /\ packed = {} /\ archive = 0 /\ notes = {} /\ mail = {}
  /\ outcome = "none" /\ exit = NoExit /\ changes = 0 /\ interrupts = 0

\* os.path.isfile follows a link.
IsFile(f) == disk[f].kind \in {"regular", "late", "foreign", "moved", "away"}

\* What lies in the directory that the run directory's name led to when it was resolved.
Inside(where) == IF where = "here" THEN {"regular", "late"} ELSE {"away"}

\* open_verified looks at what it opened: a regular file of the user, and inside the
\* roots when it is given any.  It does not wait for the other end of a pipe.
OpenVerified_Unrooted(f, where) == disk[f].kind \in {"regular", "late", "moved", "away"}
OpenVerified(f, where) == disk[f].kind \in Inside(where)
OpenUnrooted(f) == disk[f].kind \in {"regular", "late", "moved", "away"}
OpenReturns_Blocking(f) == disk[f].kind # "fifo"
OpenReturns(f) == TRUE

Attachment(what, n, kind) == [what |-> what, size |-> n, kind |-> kind]

-----------------------------------------------------------------------------
(* run.                                                                    *)

FixExit ==
  /\ pc = "over" /\ pc' = "report" /\ exit' = call.exit
  /\ UNCHANGED <<call, worldVars, reportVars, interrupts>>

Scans == call.scan /\ call.hasCwd

\* _report_run: the tables, and what is not to be done.  One note stands for all files
\* when none is looked for.
Begin ==
  /\ pc = "report"
  /\ pc' = IF ~call.notify THEN "tell" ELSE IF Scans THEN "scan" ELSE "logs"
  /\ notes' = IF call.notify /\ ~Scans THEN Files ELSE notes
  /\ UNCHANGED <<call, worldVars, metricVars, unscanned, size, queue, to, used, overflow,
                 packed, archive, mail, outcome, roots, exit, interrupts>>

\* "Reporting failed after the job finished", or all went well: the exit status is
\* the one that was fixed.
LeftWith_Failing == IF pc = "handler" THEN 1 ELSE exit
LeftWith == exit

Exit ==
  /\ pc \in {"handler", "told"} /\ pc' = "exited" /\ exit' = LeftWith
  /\ UNCHANGED <<call, worldVars, reportVars, interrupts>>

-----------------------------------------------------------------------------
(* find_artifacts and describe_skipped.                                    *)

Belongs(f) == disk[f].kind \in {"regular", "away"} /\ disk[f].size <= MaxSingle

\* The list is sorted by size; os.walk finds the files in any order.
BySize(q, f) ==
  InsertAt(q, Cardinality({i \in DOMAIN q : size[q[i]] <= disk[f].size}) + 1, f)

\* The run window goes by the time of the file, which in the directory that came in its
\* place may be any: a file from before the job is passed over without a note, and so is
\* one whose stat fails.  (When the directory is not there at all, that is each of them.)
PassedOver(f) == disk[f].kind \in {"gone", "away"}

ScanFile(f) ==
  /\ pc = "scan" /\ f \in unscanned /\ unscanned' = unscanned \ {f}
  /\ \/ /\ Belongs(f) /\ queue' = BySize(queue, f)
        /\ size' = [size EXCEPT ![f] = disk[f].size] /\ UNCHANGED notes
     \/ /\ disk[f].kind = "away" \/ (disk[f].kind # "gone" /\ ~Belongs(f))
        /\ notes' = notes \cup {f} /\ UNCHANGED <<queue, size>>
     \/ PassedOver(f) /\ UNCHANGED <<queue, size, notes>>
  /\ UNCHANGED <<call, worldVars, metricVars, pc, to, used, overflow, packed, archive, mail,
                 outcome, roots, exit, interrupts>>

Scanned ==
  /\ pc = "scan" /\ unscanned = {} /\ pc' = "logs" /\ artifacts' = queue
  /\ UNCHANGED <<call, worldVars, unscanned, size, queue, quoted, to, used, overflow,
                 packed, archive, notes, mail, outcome, roots, exit, interrupts>>

-----------------------------------------------------------------------------
(* prepare_attachments and compress_artifacts.                             *)

\* The logs of a failed job come first, whatever their size.
WithLogs == (Failed \/ call.attachLogs) /\ call.logs > 0

\* _report_run has the roots of the zip resolved as it calls prepare_attachments.
AttachLogs ==
  /\ pc = "logs" /\ pc' = "budget" /\ roots' = [roots EXCEPT !.zip = root]
  /\ to' = IF WithLogs THEN <<"logs">> ELSE <<>>
  /\ used' = IF WithLogs THEN call.logs ELSE 0
  /\ UNCHANGED <<call, worldVars, metricVars, unscanned, size, queue, overflow, packed,
                 archive, notes, mail, outcome, exit, interrupts>>

\* The next artifact: not there any more, within the budget, or over it.
Fit ==
  /\ pc = "budget" /\ queue # <<>> /\ queue' = Tail(queue)
  /\ LET f == Head(queue)
     IN \/ ~IsFile(f) /\ notes' = notes \cup {f} /\ UNCHANGED <<to, used, overflow>>
        \/ /\ IsFile(f) /\ used + size[f] <= Budget
           /\ to' = Append(to, f) /\ used' = used + size[f] /\ UNCHANGED <<notes, overflow>>
        \/ /\ IsFile(f) /\ used + size[f] > Budget
           /\ overflow' = Append(overflow, f) /\ UNCHANGED <<to, used, notes>>
  /\ UNCHANGED <<call, worldVars, metricVars, pc, unscanned, size, packed, archive, mail,
                 outcome, roots, exit, interrupts>>

\* Without a log directory there is no place for a zip.
NoPlace_Dropped == UNCHANGED notes
NoPlace_Nested == notes' = notes \cup {overflow}
NoPlace == notes' = notes \cup Range(overflow)

Overflow ==
  /\ pc = "budget" /\ queue = <<>>
  /\ \/ overflow = <<>> /\ pc' = "print" /\ UNCHANGED <<queue, notes>>
     \/ overflow # <<>> /\ call.logs = 0 /\ pc' = "print" /\ NoPlace /\ UNCHANGED queue
     \/ overflow # <<>> /\ call.logs > 0 /\ pc' = "zip" /\ queue' = overflow /\ UNCHANGED notes
  /\ UNCHANGED <<call, worldVars, metricVars, unscanned, size, to, used, overflow, packed,
                 archive, mail, outcome, roots, exit, interrupts>>

\* isfile, and later the open; who fails either is left out of the zip.
ZipCheck ==
  /\ pc = "zip" /\ queue # <<>>
  /\ IF IsFile(Head(queue)) THEN pc' = "zipOpen" /\ UNCHANGED queue
                            ELSE queue' = Tail(queue) /\ UNCHANGED pc
  /\ UNCHANGED <<call, worldVars, metricVars, unscanned, size, to, used, overflow, packed,
                 archive, notes, mail, outcome, roots, exit, interrupts>>

ZipOpen ==
  /\ pc = "zipOpen" /\ pc' = "zip" /\ queue' = Tail(queue)
  /\ LET f == Head(queue)
     IN /\ OpenReturns(f)
        /\ packed' = packed \cup (IF OpenVerified(f, roots.zip)
                                  THEN {Attachment(f, disk[f].size, disk[f].kind)} ELSE {})
  /\ UNCHANGED <<call, worldVars, metricVars, unscanned, size, to, used, overflow, archive,
                 notes, mail, outcome, roots, exit, interrupts>>

\* The zip cannot be written.
ZipFails ==
  /\ pc \in {"zip", "zipOpen"} /\ "disk" \in Faults
  /\ pc' = "print" /\ queue' = <<>> /\ packed' = {} /\ notes' = notes \cup Range(overflow)
  /\ UNCHANGED <<call, worldVars, metricVars, unscanned, size, to, used, overflow, archive,
                 mail, outcome, roots, exit, interrupts>>

\* It may compress well or not at all.
TotalSize(attachments) == MapThenSumSet(LAMBDA a : a.size, attachments)
ZipFits_Unchecked(n) == TRUE
ZipFits(n) == used + n <= Budget

ZipDone ==
  /\ pc = "zip" /\ queue = <<>> /\ pc' = "print"
  /\ \E n \in 1..TotalSize(packed) + 1 :
       \/ ZipFits(n) /\ archive' = n /\ to' = Append(to, "zip") /\ UNCHANGED notes
       \/ ~ZipFits(n) /\ notes' = notes \cup Range(overflow) /\ UNCHANGED <<archive, to>>
  /\ UNCHANGED <<call, worldVars, metricVars, unscanned, size, queue, used, overflow,
                 packed, mail, outcome, roots, exit, interrupts>>

-----------------------------------------------------------------------------
(* The line of metrics in the mail (extract_metrics).                      *)

Announce ==
  /\ pc = "print" /\ pc' = "metrics" /\ queue' = artifacts
  /\ UNCHANGED <<call, worldVars, metricVars, unscanned, size, to, used, overflow, packed,
                 archive, notes, mail, outcome, roots, exit, interrupts>>

\* The next artifact has metrics, read without roots, or none: it is refused, over
\* 64 MB, of another format.
Quote(f) ==
  /\ OpenUnrooted(f) /\ quoted' = quoted \cup {Attachment(f, disk[f].size, disk[f].kind)}
  /\ pc' = "metrics" /\ queue' = Tail(queue)
QuoteNothing == pc' = "metrics" /\ queue' = Tail(queue) /\ UNCHANGED quoted

\* extract_from_csv reads once more what pandas could not.
ReadAgain == pc = "metrics" /\ pc' = "metricsAgain" /\ UNCHANGED <<queue, quoted>>

ReadMetrics ==
  /\ pc \in {"metrics", "metricsAgain"} /\ queue # <<>>
  /\ OpenReturns(Head(queue))
  /\ Quote(Head(queue)) \/ QuoteNothing \/ ReadAgain
  /\ UNCHANGED <<call, worldVars, unscanned, size, artifacts, to, used, overflow, packed,
                 archive, notes, mail, outcome, roots, exit, interrupts>>

MetricsDone ==
  /\ pc = "metrics" /\ queue = <<>> /\ pc' = "send"
  /\ UNCHANGED <<call, worldVars, reportVars, exit, interrupts>>

-----------------------------------------------------------------------------
(* EmailNotifier.send.                                                     *)

\* Not configured, nothing is built.
Send ==
  /\ pc = "send"
  /\ \/ call.configured /\ pc' = "body" /\ queue' = to /\ UNCHANGED outcome
     \/ ~call.configured /\ pc' = "tell" /\ outcome' = "failed" /\ UNCHANGED queue
  /\ UNCHANGED <<call, worldVars, metricVars, unscanned, size, to, used, overflow, packed,
                 archive, notes, mail, roots, exit, interrupts>>

Own(what) == what \in {"logs", "zip"}

\* _build_body: isfile, then getsize, of each attachment.  A file that is gone in
\* between raises, and the whole message is given up.
BodyCheck ==
  /\ pc = "body" /\ queue # <<>>
  /\ IF ~Own(Head(queue)) /\ IsFile(Head(queue))
     THEN pc' = "bodySize" /\ UNCHANGED queue
     ELSE queue' = Tail(queue) /\ UNCHANGED pc
  /\ UNCHANGED <<call, worldVars, metricVars, unscanned, size, to, used, overflow, packed,
                 archive, notes, mail, outcome, roots, exit, interrupts>>

BodySize ==
  /\ pc = "bodySize"
  /\ IF disk[Head(queue)].kind = "gone"
     THEN pc' = "tell" /\ outcome' = "failed" /\ UNCHANGED queue
     ELSE pc' = "body" /\ queue' = Tail(queue) /\ UNCHANGED outcome
  /\ UNCHANGED <<call, worldVars, metricVars, unscanned, size, to, used, overflow, packed,
                 archive, notes, mail, roots, exit, interrupts>>

\* send resolves the roots once more.
BodyDone ==
  /\ pc = "body" /\ queue = <<>> /\ pc' = "attach" /\ queue' = to
  /\ roots' = [roots EXCEPT !.mail = root]
  /\ UNCHANGED <<call, worldVars, metricVars, unscanned, size, to, used, overflow, packed,
                 archive, notes, mail, outcome, exit, interrupts>>

\* The wrapper's own logs and zip, in a private directory, are as it left them.
AttachOwn ==
  /\ pc = "attach" /\ queue # <<>> /\ Own(Head(queue)) /\ queue' = Tail(queue)
  /\ LET n == IF Head(queue) = "logs" THEN call.logs ELSE archive
     IN mail' = mail \cup {Attachment(Head(queue), n, "regular")}
  /\ UNCHANGED <<call, worldVars, metricVars, pc, unscanned, size, to, used, overflow,
                 packed, archive, notes, outcome, roots, exit, interrupts>>

AttachCheck ==
  /\ pc = "attach" /\ queue # <<>> /\ ~Own(Head(queue))
  /\ IF IsFile(Head(queue)) THEN pc' = "attachOpen" /\ UNCHANGED queue
                            ELSE queue' = Tail(queue) /\ UNCHANGED pc
  /\ UNCHANGED <<call, worldVars, metricVars, unscanned, size, to, used, overflow, packed,
                 archive, notes, mail, outcome, roots, exit, interrupts>>

\* What is refused is named in the message send returns, for the console.
AttachOpen ==
  /\ pc = "attachOpen" /\ pc' = "attach" /\ queue' = Tail(queue)
  /\ LET f == Head(queue)
     IN /\ OpenReturns(f)
        /\ mail' = mail \cup (IF OpenVerified(f, roots.mail)
                              THEN {Attachment(f, disk[f].size, disk[f].kind)} ELSE {})
  /\ UNCHANGED <<call, worldVars, metricVars, unscanned, size, to, used, overflow, packed,
                 archive, notes, outcome, roots, exit, interrupts>>

\* The sessions: see MailDelivery.
Deliver ==
  /\ pc = "attach" /\ queue = <<>> /\ pc' = "tell" /\ outcome' \in {"sent", "failed"}
  /\ UNCHANGED <<call, worldVars, metricVars, unscanned, size, queue, to, used, overflow,
                 packed, archive, notes, mail, roots, exit, interrupts>>

Tell ==
  /\ pc = "tell" /\ pc' = "told"
  /\ UNCHANGED <<call, worldVars, reportVars, exit, interrupts>>

-----------------------------------------------------------------------------
(* The environment.                                                        *)

Looking == pc \notin {"tell", "told", "handler", "exited", "escaped"} /\ changes < MaxChanges

\* Another process rewrites, swaps or removes a file.  (Before the scan looks at it, that
\* would be another initial state, unless it is removed after os.walk has listed it.)
Change(f) ==
  /\ Looking /\ changes' = changes + 1
  /\ \E kind \in Kinds \ {"regular", "away"}, n \in Sizes :
       /\ f \in unscanned => pc = "scan" /\ kind = "gone"
       /\ disk' = [disk EXCEPT ![f] = [kind |-> kind, size |-> n]]
  /\ touched' = touched \cup {f}
  /\ UNCHANGED <<call, root, pc, reportVars, exit, interrupts>>

\* The run directory, or one above it, is renamed, replaced, removed or made a link: its
\* name leads elsewhere, or to another directory in the same place.  The path of a file
\* now opens what lies there, or nothing; or still the same file, when the scan had
\* resolved it to another place than the name was redirected from.
MoveRoot ==
  /\ Looking /\ Scans /\ pc \notin {"over", "report"} /\ changes' = changes + 1
  /\ root' \in Dirs /\ touched' = Files
  /\ LET there == [kind : {IF root' = "here" THEN "late" ELSE "away", "gone"}, size : Sizes]
     IN \E new \in [Files -> there], same \in SUBSET Files :
          disk' = [f \in Files |-> IF f \in same THEN disk[f] ELSE new[f]]
  /\ UNCHANGED <<call, pc, reportVars, exit, interrupts>>

\* A closed stdout, at one of the places where _report_run prints.  (Of the metrics,
\* it is ignored.)
PrintFails ==
  /\ "print" \in Faults /\ pc' = "handler"
  /\ pc \in {"report", "send", "tell"} \/ (pc = "print" /\ artifacts # <<>>)
  /\ UNCHANGED <<call, worldVars, reportVars, exit, interrupts>>

\* Before the try, and in the handler, nothing catches it.
Interrupt ==
  /\ interrupts < MaxInterrupts /\ interrupts' = interrupts + 1
  /\ pc \notin {"exited", "escaped"}
  /\ pc' = IF pc \in {"over", "handler", "told"} THEN "escaped" ELSE "handler"
  /\ UNCHANGED <<call, worldVars, reportVars, exit>>

Prepare == (\E f \in Files : ScanFile(f)) \/ Scanned \/ AttachLogs \/ Fit \/ Overflow
           \/ ZipCheck \/ ZipOpen \/ ZipFails \/ ZipDone
           \/ Announce \/ ReadMetrics \/ MetricsDone
Build == Send \/ BodyCheck \/ BodySize \/ BodyDone
         \/ AttachOwn \/ AttachCheck \/ AttachOpen \/ Deliver
Reporter == FixExit \/ Begin \/ Prepare \/ Build \/ Tell \/ Exit

Next == Reporter \/ PrintFails \/ Interrupt \/ MoveRoot \/ \E f \in Files : Change(f)

Spec == Init /\ [][Next]_vars

\* The process runs; send comes back (SendReturns of MailDelivery).
FairSpec == Spec /\ WF_vars(Reporter)

-----------------------------------------------------------------------------
Places == {"over", "report", "scan", "logs", "budget", "zip", "zipOpen", "print", "metrics",
           "metricsAgain", "send", "body", "bodySize", "attach", "attachOpen", "tell", "told",
           "handler", "exited", "escaped"}
Parts == Files \cup {"logs", "zip"}

\* Where the loop is over files only, and where it has one in hand.
Preparing == {"over", "report", "scan", "logs", "budget", "zip", "zipOpen", "metrics",
              "metricsAgain"}
Opening == {"zipOpen", "metricsAgain", "bodySize", "attachOpen"}

TypeOK ==
  /\ call \in Calls /\ disk \in [Files -> [kind : Kinds, size : Nat]] /\ touched \subseteq Files
  /\ pc \in Places /\ unscanned \subseteq Files /\ size \in [Files -> Nat]
  /\ queue \in Seq(Parts) /\ (pc \in Preparing => queue \in Seq(Files))
  /\ pc \in Opening => queue # <<>> /\ Head(queue) \in Files
  /\ to \in Seq(Parts) /\ used \in Nat /\ overflow \in Seq(Files)
  /\ artifacts \in Seq(Files) /\ quoted \subseteq [what : Files, size : Nat, kind : Kinds]
  /\ packed \subseteq [what : Files, size : Nat, kind : Kinds] /\ archive \in Nat
  /\ notes \subseteq Files /\ mail \subseteq [what : Parts, size : Nat, kind : Kinds]
  /\ outcome \in {"none", "sent", "failed"} /\ exit \in Nat \cup {NoExit}
  /\ root \in Dirs /\ roots \in [zip : Dirs, mail : Dirs]
  /\ changes \in Nat /\ interrupts \in Nat

Attached == {a.what : a \in mail}
Named(f) == f \in notes \/ f \in Attached \/ ("zip" \in Attached /\ f \in {a.what : a \in packed})

\* Every file that matched and that nobody touched after the scan is attached, in
\* the attached zip, or named (or counted) in the notes of the mail, and a failed job's
\* logs are attached whatever their size: no limit, no budget and no failing zip
\* loses anything silently.
NothingLost ==
  outcome = "sent" => /\ \A f \in Files \ touched : Named(f)
                      /\ Failed /\ call.logs > 0 => "logs" \in Attached

\* Whatever is swapped at whatever moment: what leaves the machine, attached or
\* packed, was a regular file of the user's when it was read, in the directory that the
\* run directory's name led to when resolve_roots ran for it (cli.py:251 for the zip,
\* email_notifier.py:110 for the mail).  That is the run directory unless its name, or
\* one above, was redirected before; and after that nothing of the old place leaves.
\* The metrics are from files of the user's, wherever they are.
OnlyOwn ==
  /\ \A a \in packed : a.kind \in Inside(roots.zip)
  /\ \A a \in mail : a.what \in Files => a.kind \in Inside(roots.mail)
  /\ \A a \in quoted : a.kind \in {"regular", "late", "moved", "away"}

\* The attachments keep the budget, unless the logs alone are over it, or a file
\* grew after the scan.
WithinBudget == touched = {} => TotalSize(mail) <= Budget \/ Attached = {"logs"}

\* Nothing in the reporting decides the exit status: not a mail that is not sent, a
\* scan that is interrupted, or a stdout that is closed.
ExitIsTheJobs == pc = "exited" => exit = call.exit

\* Reporting ends: no pipe named like an output holds it.
ReportEnds == <>(pc \in {"exited", "escaped"})

-----------------------------------------------------------------------------
(* Why NothingLost holds: where a file that nobody touched has got to.     *)

Zipping == {"zip", "zipOpen"}
Before == {"print", "metrics", "metricsAgain", "send", "body", "bodySize"}
Attaching == {"attach", "attachOpen"}
Over == {"tell", "told", "handler", "exited", "escaped"}

InZip(f) == f \in {a.what : a \in packed}

Whereabouts(f) ==
  \/ f \in notes \/ pc \in {"over", "report"}
  \/ pc = "scan" /\ (f \in unscanned \/ f \in Range(queue))
  \/ pc \in {"logs", "budget"} /\ f \in Range(queue)
  \/ pc = "budget" /\ f \in Range(overflow)
  \/ pc \in {"budget"} \cup Zipping \cup Before /\ f \in Range(to)
  \/ pc \in Zipping /\ f \in Range(overflow) /\ (f \in Range(queue) \/ InZip(f))
  \/ pc \in Before /\ "zip" \in Range(to) /\ InZip(f)
  \/ pc \in Attaching /\ (f \in Range(queue) \/ f \in Attached)
  \/ pc \in Attaching /\ InZip(f) /\ ("zip" \in Range(queue) \/ "zip" \in Attached)
  \/ pc \in Over /\ (outcome = "sent" => Named(f))

\* It is there, in the run directory, and when the scan has found it still the regular
\* file of the same size.
StillThere(f) ==
  /\ disk[f].kind \notin {"gone", "away"}
  /\ root = "here" /\ roots.zip = "here" /\ roots.mail = "here"
  /\ f \in Range(queue) \cup Range(artifacts) \cup Range(to) \cup Range(overflow) =>
       disk[f].kind = "regular" /\ disk[f].size = size[f]

LogsKept ==
  Failed /\ call.logs > 0 =>
    /\ pc \in {"budget"} \cup Zipping \cup Before => "logs" \in Range(to)
    /\ pc \in Attaching => "logs" \in Range(queue) \/ "logs" \in Attached
    /\ outcome = "sent" => "logs" \in Attached

Accounted ==
  /\ \A f \in Files \ touched : Whereabouts(f) /\ StillThere(f)
  /\ pc \in {"over", "report"} => unscanned = Files
  /\ pc \in {"over", "report", "scan", "logs"} => packed = {}
  /\ pc \notin Attaching \cup Over => mail = {}
  /\ LogsKept
  /\ outcome = "sent" => pc \in Over

\* Once fixed, the exit status is the job's.
ExitFixed == pc \notin {"over", "escaped"} => exit = call.exit

\* Everything is where it belongs.
Tracked == TypeOK /\ OnlyOwn /\ Accounted /\ ExitFixed

-----------------------------------------------------------------------------
(* Why WithinBudget holds: what is planned, with the sizes of the scan.    *)

SizeOf(what) ==
  CASE what = "logs" -> call.logs [] what = "zip" -> archive [] OTHER -> size[what]

Planned == {Attachment(what, SizeOf(what), "regular") : what \in Range(to)}

Unplanned == {"over", "report", "scan", "logs"}

Budgeted ==
  /\ pc \in Unplanned => to = <<>>
  /\ pc \in Unplanned \cup {"budget"} \cup Zipping => archive = 0 /\ "zip" \notin Range(to)
  /\ used + archive <= Budget \/ to = <<"logs">>
  /\ TotalSize(Planned) <= used + archive
  /\ pc \in Attaching => Range(queue) \subseteq Range(to)
  /\ touched = {} => mail \subseteq Planned

\* The inductive invariant.
Inductive == Tracked /\ Budgeted

-----------------------------------------------------------------------------
\* CHANGELOG.md: "Every file left out of the email is now listed in it: [...]
\* refused at send time".  Of what the scan found and what is still there, in a directory
\* that nobody redirected, one that is refused is listed as attached, or is missing in the zip.
EveryFileNamed ==
  outcome = "sent" /\ root = "here" => \A f \in Range(artifacts) : IsFile(f) => Named(f)
=============================================================================
