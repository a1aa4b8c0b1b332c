----------------------------- MODULE MCReporting ----------------------------
(* Reporting with two output files, and the calls that differ.                *)
EXTENDS Reporting

CONSTANTS a, b

Two == {a, b}

Usual == [exit |-> 3, notify |-> TRUE, scan |-> TRUE, hasCwd |-> TRUE, attachLogs |-> TRUE,
          configured |-> TRUE, logs |-> 2]

\* No logs, logs over the budget, a job that succeeded without its logs, a working
\* directory that is unknown, and each option of the configuration.
MCCalls == {Usual, [Usual EXCEPT !.logs = 0], [Usual EXCEPT !.logs = 5],
            [Usual EXCEPT !.exit = 0, !.attachLogs = FALSE],
            [Usual EXCEPT !.notify = FALSE], [Usual EXCEPT !.scan = FALSE],
            [Usual EXCEPT !.hasCwd = FALSE],
            [Usual EXCEPT !.configured = FALSE, !.scan = FALSE]}
=============================================================================
