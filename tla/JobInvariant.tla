---------------------------- MODULE JobInvariant ----------------------------
(***************************************************************************)
(* What holds of JobRun between its steps, in the form in which each step  *)
(* preserves it: the places of the threads, the lock and the child first,  *)
(* then the way of each unit from the job to the logs, the notes and the   *)
(* tails.  The safety properties of JobRun follow from it.                 *)
(***************************************************************************)
EXTENDS JobRun

-----------------------------------------------------------------------------
(* The threads, the lock and the job.                                      *)

Calling == pc \in {"acquire", "held"}

\* What keeps the footer last, in an inductive form.  The history of a pipe covers
\* what it holds; there is something to write while somebody writes; the lock
\* belongs to whoever is in the middle of a write; once the sink is closed no
\* reader is, and only a closed sink lets run_job reach the footer.
PipeHistory == \A s \in Streams : pipe[s] <= written[s]

WorkInHand ==
  /\ Calling => todo # <<>> /\ after \in {"spawn", "final", "returned"}
  /\ \A s \in Streams : rd[s] \in {"acquire", "own", "comb"} => hand[s] # <<>>

MutualExclusion ==
  /\ pc = "held" => lock = "main"
  /\ \A s \in Streams : rd[s] \in {"own", "comb"} => lock = s

Sealing ==
  /\ pc \in {"collect", "tails", "returned"} => closed
  /\ Calling => IF after = "returned"
                THEN closed /\ todo = <<<<"combined", Sys("footer")>>>>
                ELSE \A i \in 1..Len(todo) : todo[i][2] # Sys("footer")
  /\ closed => \A s \in Streams : rd[s] \notin {"own", "comb"}
  /\ FooterWritten => closed /\ pc \in Ended

HeaderKept ==
  /\ pc = "open" => child = "none"
  /\ pc \notin {"open", "crashed", "escaped"} => HeaderIn
  /\ child # "none" => HeaderIn

\* Why the result tells the job's own fate: what is certain of the job at each place
\* from which a status is given.
Deciding == pc \in {"final", "close", "collect", "tails", "returned"}
              \/ (Calling /\ after \in {"final", "returned"})

FateKept ==
  /\ pc \in {"open", "popen"} => status = "failed" /\ exitCode = None
  /\ pc \in {"spawn", "append", "wait", "kill"} \/ (Calling /\ after = "spawn") => child # "none"
  /\ pc \in {"join", "settle"} => child = "exited"
  /\ pc \in {"kill", "killWait", "killJoin", "timedOut"} => HasTimeout
  /\ pc \in {"killWait", "killJoin", "timedOut"} => killSent \/ child = "exited"
  /\ pc \in {"ki", "kiJoin", "kiLog"} => sigints > 0
  /\ Deciding => exitCode # None
  /\ fate # None /\ Verdict

\* Why no job dies of a closed pipe: a reader is through with a pipe only when the
\* job is gone.
ReadToTheEnd ==
  /\ pc \in {"open", "popen"} => ~proc /\ child = "none"
  /\ \A s \in Streams : s \in eof \/ rd[s] \in {"finally", "done"} => child = "exited"

\* Where run_job is once the sink is closed, and what it knows of its threads: those it
\* does not report as still open had ended before.
Concluding == Calling /\ after = "returned"

Closing ==
  /\ closed => pc \in {"collect", "tails"} \cup Ended \/ Concluding
  /\ closed \/ pc = "close" => \A s \in threads \ stillOpen : rd[s] = "done"

\* The readers are started one by one, stdout's first; both run where the job is waited
\* for, and with fewer of them a result has a reason of its own.
Starting == pc \in {"open", "popen", "spawn", "append"} \/ (Calling /\ after = "spawn")

Manned == threads = Streams \/ status = "interrupted" \/ exitCode = -99 \/ child = "none"

Staffed ==
  /\ Starting => /\ threads = {} \/ (pc \in {"spawn", "append"} /\ threads = {"stdout"})
                 /\ \A s \in Streams \ threads :
                      rd[s] = "unstarted" \/ (pc = "append" /\ s = NextReader)
  /\ pc \in {"wait", "join", "settle", "kill", "killWait", "killJoin", "timedOut"}
       => threads = Streams
  /\ Deciding => Manned
  /\ child = "none" => \A s \in Streams : written[s] = 0

\* No way to the end of run_job leaves the child running without a SIGKILL, unless the
\* interrupt came inside Popen or the kill was refused.
Leashed == child = "running" => killSent

KeptOnLeash ==
  "fork" \notin InterruptPoints /\ "kill" \notin Faults =>
    /\ child # "none" => proc
    /\ pc \in {"join", "settle", "killWait", "killJoin", "timedOut", "stopWait", "stopJoin",
              "fail", "kiJoin", "kiLog"} \/ Deciding => Leashed

\* After the exit code -99 run_job writes its last lines and nothing else: no handler of
\* its try block can take the code back.
LastWord ==
  exitCode = -99 => \/ pc \in {"final", "close", "collect", "tails"} \cup Ended
                    \/ /\ Calling /\ after \in {"final", "returned"}
                       /\ \A i \in 1..Len(todo) : todo[i][2] \in {Sys("error"), Sys("footer")}

Control ==
  /\ TypeOK /\ PipeHistory /\ WorkInHand /\ MutualExclusion /\ Sealing /\ HeaderKept
  /\ FateKept /\ ReadToTheEnd /\ Closing /\ Staffed /\ KeptOnLeash /\ LastWord

-----------------------------------------------------------------------------
(* The way of a unit: pipe, unfinished line, hand, the two logs.           *)

\* What the reader of s keeps at each of its places.
Phases(s) ==
  /\ rd[s] \notin {"acquire", "own", "comb"} => hand[s] = <<>>
  /\ rd[s] \in {"unstarted", "read"} => s \notin eof
  /\ rd[s] = "unstarted" => pending[s] = <<>>
  /\ s \in eof => pending[s] = <<>> /\ pipe[s] = 0 /\ s \notin holders
  /\ rd[s] \in {"drain", "finally", "done"} => s \in errored \cup eof
  /\ s \in errored => rd[s] \in {"drain", "finally", "done"}

\* How many units of s the sink has taken; how many its own log has, in the middle of
\* a line one more.
Emitted(s) == Len(ring[s]) - Len(hand[s])
Logged(s) == IF rd[s] = "comb" THEN Emitted(s) + 1 ELSE Emitted(s)

\* The units in q are those of s after its e-th, in order.
Follows(q, s, e) == \A i \in 1..Len(q) : q[i] = <<s, e + i>>

\* The ring has all that was read but the unfinished line, also when the sink was closed;
\* the lines in hand are its last.
RingFull(s) == s \notin errored =>
  /\ Len(ring[s]) = written[s] - pipe[s] - Len(pending[s])
  /\ Len(hand[s]) <= Len(ring[s])
  /\ Follows(ring[s], s, 0) /\ Follows(pending[s], s, Len(ring[s]))
  /\ Follows(hand[s], s, Emitted(s))

\* The reader of s does its work: nothing failed, and nothing of s was dropped.
Working(s) == s \notin errored /\ (closed => s \in threads \ stillOpen)

Flow(s) == Working(s) =>
  /\ Kept(s, s) \subseteq 1..Logged(s)
  /\ Kept("combined", s) \subseteq 1..Emitted(s)
  /\ mode = "disk" /\ s \notin failed => Kept(s, s) = 1..Logged(s)

Ordered(s) == InOrder(s, s) /\ InOrder("combined", s)

\* A unit that did not decode is known to the thread that read it, and from its end on to
\* run_job.
BadKnown(s) ==
  /\ \A i \in 1..Len(hand[s]) : hand[s][i] \in Bad => s \in undecoded
  /\ \A i \in 1..Len(pending[s]) : pending[s][i] \in Bad => s \in undecoded
  /\ \A k \in Kept(s, s) : <<s, k>> \in Bad => s \in undecoded
  /\ rd[s] = "done" /\ s \in undecoded => s \in replaced

OnItsWay(s) == /\ Gapless(s) /\ Agrees(s) /\ Phases(s) /\ RingFull(s) /\ Flow(s)
               /\ Ordered(s) /\ BadKnown(s)

\* The wrapper has put nothing between the units of a stream's own log: it does so only
\* for a job that did not start, and with the exit code -99.
Unspoilt == exitCode # -99 /\ (child # "none" \/ pc \in {"open", "popen"})

Exact(s) == /\ Len(file[s]) = Logged(s) + 1
            /\ \A i \in 1..Logged(s) : file[s][i + 1] = <<s, i>>

Plain ==
  Unspoilt =>
    /\ Calling => \A i \in 1..Len(todo) : todo[i][1] = "combined"
    /\ \A s \in Streams :
         mode = "disk" /\ s \notin failed /\ pc # "open" /\ Working(s) => Exact(s)

\* The notes tell what was wrong when they were taken, and nothing can go wrong later.
Noted ==
  pc \in {"tails", "returned"} \/ Concluding =>
    /\ mode = "memory" => <<"logs", "memory">> \in notes
    /\ \A s \in Streams :
         /\ s \in stillOpen => <<"open", s>> \in notes
         /\ s \in failed => <<"sink", s>> \in notes
         /\ s \in (threads \ stillOpen) \cap errored => <<"error", s>> \in notes
         /\ s \in (threads \ stillOpen) \cap replaced => <<"replaced", s>> \in notes

TailsTrue ==
  pc = "returned" \/ Concluding => \A s \in threads \ (stillOpen \cup errored) :
    exitCode # -99 /\ ~PulledAway(s) => TrueTail(s)

Journal == (\A s \in Streams : OnItsWay(s)) /\ Plain /\ Noted /\ TailsTrue

Inductive == Control /\ Journal
=============================================================================
