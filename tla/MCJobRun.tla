------------------------------ MODULE MCJobRun ------------------------------
(* Values for the constants of JobRun that a .cfg cannot write down.       *)
EXTENDS JobInvariant

TwoAndOne == [s \in Streams |-> IF s = "stdout" THEN 2 ELSE 1]
OneEach   == [s \in Streams |-> 1]

FirstOut  == {<<"stdout", 1>>}
FirstErr  == {<<"stderr", 1>>}
FirstOfEach == {<<"stdout", 1>>, <<"stderr", 1>>}
NoUnits   == {}

\* Where SIGINT may land.  Waiting: while both readers run, and inside Popen.
Waiting    == {"wait", "join", "settle", "fork"}
AllButFork == (MainPcs \ Ended) \cup {"gap"}
=============================================================================
