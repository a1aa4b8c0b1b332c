------------------------------ MODULE LogText ------------------------------
(***************************************************************************)
(* From the bytes a job writes to the class of its failure: StreamReader   *)
(* and its log (LineEmit), the tail that run_job reads back from the log   *)
(* (TailReader), and parse_errors (Triage).  The stream is stderr, the     *)
(* tail of stdout is given.                                                *)
(***************************************************************************)
EXTENDS LineEmit, TailReader, Triage

CONSTANTS
  LineSeparators,   \* what os.linesep may be
  StdoutTails,      \* the tail of stdout.log: the header or a stamp is in it
  ExitCodes         \* exit codes of a job that failed

ASSUME LogTextAssumption ==
  /\ LineSeparators \subseteq {<<"nl">>, <<"cr", "nl">>}
  /\ StdoutTails \subseteq Seq(Symbols) /\ ExitCodes \subseteq Int \ {0}
  /\ \A out \in StdoutTails : Without(out, {"nl"}) # <<>>

VARIABLES
  linesep,      \* os.linesep
  stdoutTail,   \* stdout_tail, once both tails are read
  class         \* error_summary, "none" until it is set

vars == <<emitVars, tailVars, linesep, stdoutTail, class>>

Init ==
  /\ EmitInit /\ TailInit
  /\ linesep \in LineSeparators /\ stdoutTail = <<>> /\ class = "none"

\* The reader thread.
Read ==
  /\ EmitNext
  /\ UNCHANGED <<tailVars, linesep, stdoutTail, class>>

\* tail_of in run_job, when the reader is done; LogSink wrote bytes, of linesep lines.
ReadBack ==
  /\ ended
  /\ TailOpen(Encoded(own, linesep)) \/ TailBlock \/ TailCut
  /\ UNCHANGED <<emitVars, linesep, stdoutTail, class>>

Classify ==
  /\ tailPc = "done" /\ class = "none"
  /\ stdoutTail' \in StdoutTails
  /\ \E code \in ExitCodes : class' = ParseErrors(stdoutTail', FlattenSeq(tail), code)
  /\ UNCHANGED <<emitVars, tailVars, linesep>>

Next == Read \/ ReadBack \/ Classify

Spec == Init /\ [][Next]_vars

-----------------------------------------------------------------------------
\* The last lines of stderr.log, from the job's bytes directly; the header is in the
\* file before.
LastLines ==
  FlattenSeq(LastOf(LinesOf(Encoded(Header, linesep)) \o SplitLines(TextOf(input)), TailLines))
TailFits == Len(Encoded(own, linesep)) <= MaxBytes

\* Where a word counts: anywhere in the lines quoted, "Killed" only as the last word
\* of all, which is stdout's.
Seen == {w \in Words : \/ w # "Killed" /\ (Contains(LastLines, w) \/ Contains(stdoutTail, w))
                       \/ w = "Killed" /\ Without(stdoutTail, {"nl"}) # <<>>
                                       /\ Last(Without(stdoutTail, {"nl"})) = w}

\* The class of a failure is the first in the list of the words in the last lines the
\* job wrote, as they were written: no word is lost to a read, a cut, a line break or a
\* block between the pipe and the tail, and none comes from an older line.
ClassIsOfTheOutput ==
  class # "none" /\ TailFits =>
    IF Seen = {} THEN class = "exited"
    ELSE class \in Seen /\ \A p, q \in 1..Len(ErrorPatterns) :
           ErrorPatterns[p] = class /\ ErrorPatterns[q] \in Seen => p <= q

-----------------------------------------------------------------------------
\* parse_errors: "Searches stderr first (typical source), then stdout."  So what stdout
\* says would not matter when stderr has a word of the list.
StderrFirst ==
  class # "none" /\ (\E w \in Words : Contains(FlattenSeq(tail), w)) =>
    Contains(FlattenSeq(tail), class)
=============================================================================
