---------------------------- MODULE JobContract -----------------------------
(***************************************************************************)
(* What run_job promises its caller, with no mention of threads, pipes or  *)
(* locks: the logs are there before the job, they only ever grow, and the  *)
(* result is delivered once, after which nothing is added to them.         *)
(***************************************************************************)
EXTENDS Naturals, Sequences

CONSTANTS Logs,     \* the three log files
          Lines,    \* what a log is made of
          Header,   \* the first line of each
          Outcomes, \* what a result can say
          NoOutcome \* no result yet

VARIABLES phase,    \* "new", "ready", "running", "over" or "broken"
          log,      \* the lines of each log
          outcome

vars == <<phase, log, outcome>>

Init == phase = "new" /\ log = [l \in Logs |-> <<>>] /\ outcome = NoOutcome

\* The logs are created with their header, or cannot be created at all.
Create ==
  /\ phase = "new" /\ phase' = "ready"
  /\ log' \in {[l \in Logs |-> <<Header>>], [l \in Logs |-> <<>>]}
  /\ UNCHANGED outcome

Launch == phase = "ready" /\ phase' = "running" /\ UNCHANGED <<log, outcome>>

Last(q) == q[Len(q)]

\* log' is log with at most one line more.
Grows == \/ UNCHANGED log
         \/ \E l \in Logs : /\ log'[l] # <<>> /\ Last(log'[l]) \in Lines
                            /\ log' = [log EXCEPT ![l] = Append(@, Last(log'[l]))]

\* Also after run_job was broken off, while its threads still run.
Write == phase \in {"ready", "running", "broken"} /\ Grows /\ UNCHANGED <<phase, outcome>>

\* The last line and the result come together.
Deliver ==
  /\ phase \in {"ready", "running"} /\ phase' = "over"
  /\ Grows /\ outcome' \in Outcomes

\* Ctrl+C where it is not handled, or a kill of the wrapper.
Break == phase \in {"new", "ready", "running"} /\ phase' = "broken" /\ UNCHANGED <<log, outcome>>

Next == Create \/ Launch \/ Write \/ Deliver \/ Break

Spec == Init /\ [][Next]_vars
=============================================================================
