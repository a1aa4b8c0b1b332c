------------------------- MODULE MailDeliveryProofs -------------------------
(***************************************************************************)
(* MailDelivery for any number of jobs, recipients and attempts, any       *)
(* session limit of the server and any faults: what `send` reports, how    *)
(* many copies there can be, and that it keeps MailContract.               *)
(***************************************************************************)
EXTENDS MailDelivery, TLAPS

\* How a session that raised ends: with a result, or one more attempt.
Ended(j, place, r) ==
  /\ Go(j, place) /\ UNCHANGED attempt /\ Leave(j)
  /\ \/ place = "done" /\ r \in Results \ {"none", "sent"} /\ result' = [result EXCEPT ![j] = r]
     \/ place = "backoff" /\ attempt[j] < Attempts - 1 /\ UNCHANGED result

\* What Raise does, whatever was raised: another attempt is for transient errors.
LEMMA RaiseEnds ==
  ASSUME TypeOK, NEW j \in Jobs, NEW e, Raise(j, e)
  PROVE  \E place \in {"done", "backoff"}, r \in Results :
           Ended(j, place, r) /\ (place = "backoff" => Transient(e))
<1>1. Handled(e) \in Results \ {"none", "sent"} /\ GivenUp \in Results \ {"none", "sent"}
  BY DEF Handled, GivenUp, Results
<1>2. CASE ~Transient(e) /\ Return(j, Handled(e))
  <2>1. Ended(j, "done", Handled(e))
    BY <1>1, <1>2 DEF Ended, Raise, Return
  <2> QED BY <1>1, <2>1
<1>3. CASE Return(j, GivenUp)
  <2>1. Ended(j, "done", GivenUp)
    BY <1>1, <1>3 DEF Ended, Raise, Return
  <2> QED BY <1>1, <2>1
<1>4. CASE Transient(e) /\ attempt[j] # Attempts - 1 /\ Go(j, "backoff") /\ UNCHANGED <<attempt, result>>
  <2>1. attempt[j] < Attempts - 1
    <3>1. attempt[j] \in 0..Attempts - 1 /\ Attempts \in Nat
      BY MailAssumption DEF TypeOK
    <3> QED
      BY <1>4, <3>1
  <2>2. Ended(j, "backoff", "smtp")
    BY <1>4, <2>1 DEF Ended, Raise
  <2> QED BY <1>4, <2>2 DEF Results
<1> QED
  BY <1>2, <1>3, <1>4 DEF Raise

\* A session that ends without success keeps the invariant, with its confirmation
\* lost or not: only a lost confirmation lets a queued report be sent again.
LEMMA EndedKeeps ==
  ASSUME Inductive, NEW j \in Jobs, pc[j] \in InSession \cup {"connect"},
         NEW place \in {"done", "backoff"}, NEW r \in Results, Ended(j, place, r),
         UNCHANGED <<to, copies>>,
         \/ pc[j] # "reply" /\ UNCHANGED lost /\ (pc[j] = "quit" => place = "done")
         \/ pc[j] = "reply" /\ lost' = [lost EXCEPT ![j] = @ + 1]
  PROVE  Inductive'
<1> USE MailAssumption
<1>0. TypeOK /\ Counted /\ SentIsQueued /\ NoNeedlessCopy /\ WaitsOutside
  BY DEF Inductive
<1>1. TypeOK'
  <2>1. pc' \in [Jobs -> Places] /\ result' \in [Jobs -> Results] /\ open' \subseteq Jobs
    BY <1>0 DEF TypeOK, Ended, Go, Leave, Places
  <2>2. lost' \in [Jobs -> Nat]
    BY <1>0 DEF TypeOK
  <2> QED
    BY <1>0, <2>1, <2>2 DEF TypeOK, Ended
<1>2. Counted'
  <2> SUFFICES ASSUME NEW i \in Jobs
               PROVE
        (/\ lost[i] <= attempt[i] + 1
         /\ pc[i] \in {"connect", "login", "mail", "rcpt", "data"} => lost[i] <= attempt[i]
         /\ \A q \in Recipients :
              copies[i][q] <= IF pc[i] \in {"reply", "quit", "done"} THEN lost[i] + 1 ELSE lost[i]
         /\ pc[i] \in {"reply", "quit"} => lost[i] <= attempt[i] /\ to[i] # {}
                                           /\ \A q \in to[i] : copies[i][q] > 0
         /\ pc[i] = "data" => to[i] # {}
         /\ pc[i] = "backoff" => attempt[i] < Attempts - 1
         /\ pc[i] = "done" <=> result[i] # "none")'
    BY DEF Counted
  <2>1. CASE i # j
    <3>1. pc'[i] = pc[i] /\ attempt'[i] = attempt[i] /\ to'[i] = to[i] /\ copies'[i] = copies[i]
          /\ lost'[i] = lost[i] /\ result'[i] = result[i]
      BY <1>0, <2>1 DEF TypeOK, Ended, Go
    <3> QED
      BY <1>0, <3>1 DEF Counted
  <2>2. CASE i = j
    <3>1. pc'[j] = place /\ attempt'[j] = attempt[j] /\ copies'[j] = copies[j]
      BY <1>0 DEF TypeOK, Ended, Go
    <3>2. place = "done" <=> result'[j] # "none"
      BY <1>0 DEF TypeOK, Ended, Counted, InSession
    <3>3. place = "backoff" => attempt[j] < Attempts - 1
      BY DEF Ended
    <3>4. lost[j] \in Nat /\ attempt[j] \in Nat /\ copies[j] \in [Recipients -> Nat]
      BY <1>0 DEF TypeOK
    <3>5. CASE pc[j] # "reply" /\ lost' = lost /\ (pc[j] = "quit" => place = "done")
      <4>1. \A q \in Recipients :
              copies[j][q] <= IF place = "done" THEN lost[j] + 1 ELSE lost[j]
        BY <1>0, <3>4, <3>5 DEF Counted, InSession
      <4> QED
        BY <1>0, <2>2, <3>1, <3>2, <3>3, <3>4, <3>5, <4>1 DEF Counted
    <3>6. CASE pc[j] = "reply" /\ lost' = [lost EXCEPT ![j] = @ + 1]
      <4>1. lost'[j] = lost[j] + 1 /\ lost[j] <= attempt[j]
        BY <1>0, <3>6 DEF Counted, TypeOK
      <4>2. \A q \in Recipients : copies[j][q] <= lost[j] + 1
        BY <1>0, <3>6 DEF Counted
      <4> QED
        BY <2>2, <3>1, <3>2, <3>3, <3>4, <4>1, <4>2
    <3> QED
      BY <3>5, <3>6
  <2> QED BY <2>1, <2>2
<1>3. SentIsQueued'
  BY <1>0 DEF SentIsQueued, Ended, TypeOK, Results
<1>4. NoNeedlessCopy'
  <2> SUFFICES ASSUME NEW i \in Jobs, NEW q \in Recipients
               PROVE  copies[i][q] <= lost'[i] + 1 /\ copies[i][q] <= Attempts
    BY DEF NoNeedlessCopy
  <2>1. copies[i][q] <= lost[i] + 1 /\ copies[i][q] <= Attempts
    BY <1>0 DEF NoNeedlessCopy
  <2>2. lost[i] \in Nat /\ lost'[i] \in Nat /\ lost[i] <= lost'[i] /\ copies[i][q] \in Nat
    BY <1>0 DEF TypeOK
  <2> QED BY <2>1, <2>2
<1>5. WaitsOutside'
  BY <1>0 DEF WaitsOutside, Ended, Go, Leave, TypeOK, InSession
<1> QED
  BY <1>1, <1>2, <1>3, <1>4, <1>5 DEF Inductive

\* The same for an exception that the code meets.
LEMMA RaiseKeeps ==
  ASSUME Inductive, NEW j \in Jobs, pc[j] \in InSession \cup {"connect"}, NEW e, Raise(j, e),
         UNCHANGED <<to, copies>>,
         \/ pc[j] # "reply" /\ UNCHANGED lost /\ (pc[j] = "quit" => ~Transient(e))
         \/ pc[j] = "reply" /\ lost' = [lost EXCEPT ![j] = @ + 1]
  PROVE  Inductive'
<1>1. PICK place \in {"done", "backoff"}, r \in Results :
        Ended(j, place, r) /\ (place = "backoff" => Transient(e))
  BY RaiseEnds DEF Inductive
<1> QED
  BY <1>1, EndedKeeps

-----------------------------------------------------------------------------
\* The invariant holds at the start.
LEMMA InductiveStart == Init => Inductive
<1> USE MailAssumption
<1> SUFFICES ASSUME Init PROVE Inductive
  OBVIOUS
<1>1. TypeOK
  BY DEF Init, TypeOK, Places, Results
<1>2. Counted
  BY DEF Init, Counted
<1>3. SentIsQueued /\ NoNeedlessCopy
  BY DEF Init, SentIsQueued, NoNeedlessCopy
<1>4. WaitsOutside
  BY DEF Init, WaitsOutside, InSession
<1> QED
  BY <1>1, <1>2, <1>3, <1>4 DEF Inductive

\* What the next lemmas conclude about the jobs that did not move, and the one that did.
LEMMA CountedStep ==
  ASSUME Inductive, NEW j \in Jobs, NEW place \in Places, Go(j, place),
         place \notin {"done", "backoff"}, pc[j] # "done",
         \A i \in Jobs \ {j} : to'[i] = to[i] /\ copies'[i] = copies[i] /\ attempt'[i] = attempt[i],
         UNCHANGED <<lost, result>>,
         lost[j] <= attempt'[j], attempt'[j] \in Nat,
         \A q \in Recipients :
           copies'[j][q] <= IF place \in {"reply", "quit"} THEN lost[j] + 1 ELSE lost[j],
         place \in {"reply", "quit", "data"} => to'[j] # {},
         place \in {"reply", "quit"} => \A q \in to'[j] : copies'[j][q] > 0
  PROVE  Counted'
<1>0. TypeOK /\ Counted
  BY DEF Inductive
<1> SUFFICES ASSUME NEW i \in Jobs
             PROVE
      (/\ lost[i] <= attempt[i] + 1
       /\ pc[i] \in {"connect", "login", "mail", "rcpt", "data"} => lost[i] <= attempt[i]
       /\ \A q \in Recipients :
            copies[i][q] <= IF pc[i] \in {"reply", "quit", "done"} THEN lost[i] + 1 ELSE lost[i]
       /\ pc[i] \in {"reply", "quit"} => lost[i] <= attempt[i] /\ to[i] # {}
                                         /\ \A q \in to[i] : copies[i][q] > 0
       /\ pc[i] = "data" => to[i] # {}
       /\ pc[i] = "backoff" => attempt[i] < Attempts - 1
       /\ pc[i] = "done" <=> result[i] # "none")'
  BY DEF Counted
<1>1. CASE i # j
  <2>1. pc'[i] = pc[i] /\ attempt'[i] = attempt[i] /\ to'[i] = to[i] /\ copies'[i] = copies[i]
    BY <1>0, <1>1 DEF TypeOK, Go
  <2> QED
    BY <1>0, <2>1 DEF Counted
<1>2. CASE i = j
  <2>1. pc'[j] = place /\ lost[j] \in Nat /\ result[j] = "none"
    BY <1>0 DEF TypeOK, Go, Counted
  <2> QED
    BY <1>2, <2>1
<1> QED
  BY <1>1, <1>2

\* A session is opened.
LEMMA OpenedKeeps ==
  ASSUME Inductive, NEW j \in Jobs, pc[j] = "connect",
         open' = open \cup {j}, to' = [to EXCEPT ![j] = {}],
         Go(j, "login"), UNCHANGED <<attempt, copies, lost, result>>
  PROVE  Inductive'
<1>0. TypeOK /\ Counted /\ SentIsQueued /\ NoNeedlessCopy /\ WaitsOutside
  BY DEF Inductive
<1>1. TypeOK'
  BY <1>0 DEF TypeOK, Go, Places, InSession
<1>2. lost[j] <= attempt[j] /\ \A q \in Recipients : copies[j][q] <= lost[j]
  BY <1>0 DEF Counted
<1>3. attempt[j] \in Nat
  BY <1>0, MailAssumption DEF TypeOK
<1>4. "login" \in Places
  BY DEF Places, InSession
<1>5. \A i \in Jobs \ {j} : to'[i] = to[i]
  BY <1>0 DEF TypeOK
<1>6. Counted'
  BY <1>2, <1>3, <1>4, <1>5, CountedStep
<1>7. result[j] = "none"
  BY <1>0 DEF Counted
<1>8. SentIsQueued' /\ NoNeedlessCopy'
  BY <1>0, <1>7 DEF SentIsQueued, NoNeedlessCopy, TypeOK
<1>9. WaitsOutside'
  BY <1>0 DEF WaitsOutside, Go, TypeOK, InSession
<1> QED
  BY <1>1, <1>6, <1>8, <1>9 DEF Inductive

\* A session goes on.
LEMMA SessionSteps ==
  ASSUME Inductive, NEW j \in Jobs,
         Login(j) \/ MailFrom(j) \/ RcptTo(j) \/ Data(j) \/ Confirmed(j)
  PROVE  Inductive'
<1> USE MailAssumption
<1>0. TypeOK /\ Counted /\ SentIsQueued /\ NoNeedlessCopy /\ WaitsOutside
  BY DEF Inductive
<1>1. PICK place \in {"mail", "rcpt", "data", "reply", "quit"} :
        Go(j, place) /\ UNCHANGED <<attempt, lost, open, result>>
  BY DEF Login, MailFrom, RcptTo, Data, Confirmed
<1>2. pc[j] \in {"login", "mail", "rcpt", "data", "reply"} /\ result[j] = "none"
  BY <1>0 DEF Login, MailFrom, RcptTo, Data, Confirmed, Counted
<1>3. attempt[j] \in Nat /\ lost[j] <= attempt[j] /\ lost[j] \in Nat /\ copies[j] \in [Recipients -> Nat]
  BY <1>0, <1>2 DEF TypeOK, Counted
<1>4. place \in Places
  BY DEF Places, InSession
<1>5. WaitsOutside'
  BY <1>0, <1>1, <1>2 DEF WaitsOutside, Go, TypeOK, InSession
<1>6. CASE Login(j) \/ MailFrom(j)
  <2>1. UNCHANGED <<to, copies>> /\ place \in {"mail", "rcpt"}
    <3>1. pc'[j] = place /\ pc'[j] \in {"mail", "rcpt"}
      BY <1>0, <1>1, <1>6 DEF Login, MailFrom, Go, TypeOK
    <3> QED BY <1>6, <3>1 DEF Login, MailFrom
  <2>2. TypeOK'
    BY <1>0, <1>1, <1>4, <2>1 DEF TypeOK, Go
  <2>3. \A q \in Recipients : copies[j][q] <= lost[j]
    BY <1>0, <1>6 DEF Counted, Login, MailFrom
  <2>4. Counted'
    BY <1>1, <1>2, <1>3, <1>4, <2>1, <2>3, CountedStep
  <2>5. SentIsQueued' /\ NoNeedlessCopy'
    BY <1>0, <1>1, <2>1 DEF SentIsQueued, NoNeedlessCopy
  <2> QED BY <1>5, <2>2, <2>4, <2>5 DEF Inductive
<1>7. CASE RcptTo(j)
  <2>1. PICK some \in (SUBSET Recipients) \ {{}} : to' = [to EXCEPT ![j] = some]
    BY <1>7 DEF RcptTo
  <2>2. place = "data" /\ UNCHANGED copies
    <3>1. pc'[j] = place /\ pc'[j] = "data"
      BY <1>0, <1>1, <1>7 DEF RcptTo, Go, TypeOK
    <3> QED BY <1>7, <3>1 DEF RcptTo
  <2>3. TypeOK'
    BY <1>0, <1>1, <1>4, <2>1, <2>2 DEF TypeOK, Go
  <2>4. \A q \in Recipients : copies[j][q] <= lost[j]
    BY <1>0, <1>7 DEF Counted, RcptTo
  <2>5. to'[j] # {} /\ \A i \in Jobs \ {j} : to'[i] = to[i]
    <3>1. to'[j] = some
      BY <1>0, <2>1 DEF TypeOK
    <3>2. \A i \in Jobs \ {j} : to'[i] = to[i]
      BY <1>0, <2>1 DEF TypeOK
    <3>3. some # {}
      BY Zenon
    <3> QED BY <3>1, <3>2, <3>3
  <2>6. Counted'
    BY <1>1, <1>2, <1>3, <1>4, <2>2, <2>4, <2>5, CountedStep
  <2>7. SentIsQueued' /\ NoNeedlessCopy'
    BY <1>0, <1>1, <1>2, <2>2, <2>5 DEF SentIsQueued, NoNeedlessCopy
  <2> QED BY <1>5, <2>3, <2>6, <2>7 DEF Inductive
<1>8. CASE Data(j)
  <2>1. place = "reply" /\ UNCHANGED to
    <3>1. pc'[j] = place /\ pc'[j] = "reply"
      BY <1>0, <1>1, <1>8 DEF Data, Go, TypeOK
    <3> QED BY <1>8, <3>1 DEF Data
  <2>2. \A i \in Jobs \ {j} : copies'[i] = copies[i]
    BY <1>0, <1>8 DEF Data, TypeOK
  <2>3. copies'[j] = [r \in Recipients |-> IF r \in to[j] THEN copies[j][r] + 1 ELSE copies[j][r]]
    BY <1>0, <1>8 DEF Data, TypeOK
  <2>4. copies'[j] \in [Recipients -> Nat] /\ copies' \in [Jobs -> [Recipients -> Nat]]
    <3>1. copies'[j] \in [Recipients -> Nat]
      BY <1>3, <2>3
    <3> QED BY <1>0, <1>8, <2>3, <3>1 DEF Data, TypeOK
  <2>5. TypeOK'
    BY <1>0, <1>1, <1>4, <2>1, <2>4 DEF TypeOK, Go
  <2>6. \A q \in Recipients : copies[j][q] <= lost[j]
    BY <1>0, <1>8 DEF Counted, Data
  <2>7. \A q \in Recipients : copies'[j][q] <= lost[j] + 1
    BY <1>3, <2>3, <2>6
  <2>8. to[j] # {} /\ to[j] \subseteq Recipients
    BY <1>0, <1>8 DEF Counted, Data, TypeOK
  <2>9. \A q \in to[j] : copies'[j][q] > 0
    BY <1>3, <2>3, <2>8
  <2>10. Counted'
    BY <1>1, <1>2, <1>3, <1>4, <2>1, <2>2, <2>7, <2>8, <2>9, CountedStep
  <2>11. SentIsQueued'
    BY <1>0, <1>1, <1>2, <2>1, <2>2 DEF SentIsQueued
  <2>12. NoNeedlessCopy'
    <3> SUFFICES ASSUME NEW i \in Jobs, NEW q \in Recipients
                 PROVE  copies'[i][q] <= lost[i] + 1 /\ copies'[i][q] <= Attempts
      BY <1>1 DEF NoNeedlessCopy
    <3>1. attempt[j] <= Attempts - 1
      BY <1>0 DEF TypeOK
    <3>2. CASE i = j
      BY <1>3, <2>4, <2>7, <3>1, <3>2
    <3>3. CASE i # j
      BY <1>0, <2>2, <3>3 DEF NoNeedlessCopy
    <3> QED BY <3>2, <3>3
  <2> QED BY <1>5, <2>5, <2>10, <2>11, <2>12 DEF Inductive
<1>9. CASE Confirmed(j)
  <2>1. UNCHANGED <<to, copies>> /\ place = "quit"
    <3>1. pc'[j] = place /\ pc'[j] = "quit"
      BY <1>0, <1>1, <1>9 DEF Confirmed, Go, TypeOK
    <3> QED BY <1>9, <3>1 DEF Confirmed
  <2>2. TypeOK'
    BY <1>0, <1>1, <1>4, <2>1 DEF TypeOK, Go
  <2>3. /\ \A q \in Recipients : copies[j][q] <= lost[j] + 1
        /\ to[j] # {} /\ \A q \in to[j] : copies[j][q] > 0
    BY <1>0, <1>9 DEF Counted, Confirmed
  <2>4. Counted'
    BY <1>1, <1>2, <1>3, <1>4, <2>1, <2>3, CountedStep
  <2>5. SentIsQueued' /\ NoNeedlessCopy'
    BY <1>0, <1>1, <2>1 DEF SentIsQueued, NoNeedlessCopy
  <2> QED BY <1>5, <2>2, <2>4, <2>5 DEF Inductive
<1> QED
  BY <1>6, <1>7, <1>8, <1>9

\* A session cannot be opened, is cut, or is refused: it ends as RaiseKeeps says.
LEMMA FailingSteps ==
  ASSUME Inductive, NEW j \in Jobs,
         Connect(j) \/ Cut(j) \/ Refused(j) \/ TlsFails(j) \/ ReplyLost(j)
  PROVE  Inductive'
<1>0. TypeOK
  BY DEF Inductive
<1>1. ASSUME NEW e, Raise(j, e), UNCHANGED <<to, copies>>, pc[j] \in InSession \cup {"connect"},
             \/ pc[j] \notin {"reply", "quit"} /\ UNCHANGED lost
             \/ pc[j] = "reply" /\ lost' = [lost EXCEPT ![j] = @ + 1]
      PROVE  Inductive'
  BY <1>1, RaiseKeeps
<1>2. ASSUME NEW e, RaiseOnline(j, e), UNCHANGED <<to, copies, lost>>,
             pc[j] \in InSession \ {"reply", "quit"}
      PROVE  Inductive'
  <2>1. PICK raised : Raise(j, raised)
    BY <1>2 DEF RaiseOnline
  <2> QED
    BY <1>2, <2>1, RaiseKeeps
<1>3. CASE Connect(j)
  <2>1. CASE \E e \in {"SMTPConnectError", "TimeoutError", "SMTPServerDisconnected",
                       "ConnectionRefusedError", "gaierror"} : Raise(j, e) /\ UNCHANGED to
    BY <1>1, <1>3, <2>1 DEF Connect
  <2>2. CASE /\ open' = open \cup {j} /\ to' = [to EXCEPT ![j] = {}]
             /\ Go(j, "login") /\ UNCHANGED <<attempt, result>>
    BY <1>3, <2>2, OpenedKeeps DEF Connect
  <2> QED
    BY <1>3, <2>1, <2>2 DEF Connect
<1>4. CASE Cut(j)
  <2>1. PICK e : Raise(j, e)
    BY <1>4 DEF Cut
  <2> QED
    BY <1>1, <1>4, <2>1 DEF Cut, InSession
<1>5. CASE Refused(j)
  <2>1. CASE Raise(j, RefusalAt(pc[j]))
    BY <1>1, <1>5, <2>1 DEF Refused, InSession
  <2>2. CASE RaiseOnline(j, RefusalAt(pc[j]))
    BY <1>2, <1>5, <2>2 DEF Refused, InSession
  <2> QED
    BY <1>5, <2>1, <2>2 DEF Refused
<1>6. CASE TlsFails(j)
  <2>1. PICK e : RaiseOnline(j, e)
    BY <1>6 DEF TlsFails
  <2> QED
    BY <1>2, <1>6, <2>1 DEF TlsFails, InSession
<1>7. CASE ReplyLost(j)
  BY <1>1, <1>7 DEF ReplyLost, InSession
<1> QED
  BY <1>3, <1>4, <1>5, <1>6, <1>7

\* send returns with success, or is interrupted.
LEMMA LastSteps ==
  ASSUME Inductive, NEW j \in Jobs, Quit(j) \/ Interrupt(j)
  PROVE  Inductive'
<1> USE MailAssumption
<1>0. TypeOK /\ Counted /\ SentIsQueued /\ NoNeedlessCopy /\ WaitsOutside
  BY DEF Inductive
<1>1. CASE Quit(j) /\ Raise(j, "SMTPResponseException")
  <2>1. ~Transient("SMTPResponseException") /\ pc[j] = "quit"
    BY <1>1 DEF Transient, Quit
  <2>2. UNCHANGED <<to, copies, lost>>
    BY <1>1 DEF Quit
  <2> QED
    BY <1>1, <2>1, <2>2, RaiseKeeps DEF InSession
<1>2. ASSUME NEW r \in {"sent", "raised"}, Leave(j), Return(j, r), UNCHANGED <<to, copies, lost>>,
             pc[j] # "done", r = "sent" => pc[j] = "quit"
      PROVE  Inductive'
  <2>1. TypeOK'
    BY <1>0, <1>2 DEF TypeOK, Leave, Return, Go, Places, Results
  <2>2. \A q \in Recipients : copies[j][q] <= lost[j] + 1
    BY <1>0 DEF NoNeedlessCopy
  <2>3. Counted'
    BY <1>0, <1>2, <2>2 DEF Counted, Return, Go, TypeOK
  <2>4. r = "sent" => to[j] # {} /\ \A q \in to[j] : copies[j][q] > 0
    BY <1>0, <1>2 DEF Counted
  <2>5. SentIsQueued' /\ NoNeedlessCopy'
    BY <1>0, <1>2, <2>4 DEF SentIsQueued, NoNeedlessCopy, Return, TypeOK
  <2>6. WaitsOutside'
    BY <1>0, <1>2 DEF WaitsOutside, Leave, Return, Go, TypeOK, InSession
  <2> QED
    BY <2>1, <2>3, <2>5, <2>6 DEF Inductive
<1>3. CASE Quit(j) /\ Leave(j) /\ Succeed(j)
  BY <1>2, <1>3 DEF Quit, Succeed
<1>4. CASE Interrupt(j)
  BY <1>2, <1>4 DEF Interrupt
<1> QED
  BY <1>1, <1>3, <1>4 DEF Quit

\* The pause ends: what was lost in the last attempt counts for it.
LEMMA BackoffStep ==
  ASSUME Inductive, NEW j \in Jobs, Backoff(j)
  PROVE  Inductive'
<1> USE MailAssumption
<1>0. TypeOK /\ Counted /\ SentIsQueued /\ NoNeedlessCopy /\ WaitsOutside
  BY DEF Inductive
<1>1. attempt[j] \in 0..Attempts - 1 /\ attempt[j] < Attempts - 1 /\ lost[j] <= attempt[j] + 1
  BY <1>0 DEF Backoff, Counted, TypeOK
<1>2. attempt'[j] = attempt[j] + 1 /\ \A i \in Jobs \ {j} : attempt'[i] = attempt[i]
  BY <1>0 DEF Backoff, NextAttempt, TypeOK
<1>3. attempt'[j] \in 0..Attempts - 1
  BY <1>1, <1>2
<1>4. TypeOK'
  BY <1>0, <1>3 DEF Backoff, NextAttempt, TypeOK, Go, Places
<1>5. \A q \in Recipients : copies[j][q] <= lost[j]
  BY <1>0 DEF Backoff, Counted
<1>6. lost[j] <= attempt'[j] /\ attempt'[j] \in Nat
  BY <1>1, <1>2, <1>3
<1>7. "connect" \in Places
  BY DEF Places
<1>8. Counted'
  BY <1>2, <1>5, <1>6, <1>7, CountedStep DEF Backoff
<1>9. SentIsQueued' /\ NoNeedlessCopy'
  BY <1>0 DEF Backoff, SentIsQueued, NoNeedlessCopy
<1>10. WaitsOutside'
  BY <1>0 DEF Backoff, WaitsOutside, Go, TypeOK, InSession
<1> QED
  BY <1>4, <1>8, <1>9, <1>10 DEF Inductive

\* Every reachable state of the sessions satisfies the inductive invariant.
THEOREM SessionsHold == Spec => []Inductive
<1>1. Inductive /\ [Next]_vars => Inductive'
  <2> SUFFICES ASSUME Inductive, [Next]_vars PROVE Inductive'
    OBVIOUS
  <2>1. CASE Next
    <3>1. PICK j \in Jobs : Send(j) \/ Interrupt(j)
      BY <2>1 DEF Next
    <3> QED
      BY <3>1, FailingSteps, SessionSteps, LastSteps, BackoffStep DEF Send
  <2>2. CASE UNCHANGED vars
    BY <2>2 DEF vars, Inductive, TypeOK, Counted, SentIsQueued, NoNeedlessCopy, WaitsOutside
  <2> QED BY <2>1, <2>2
<1> QED
  BY <1>1, InductiveStart, PTL DEF Spec

\* "Email sent" is only said of a report that the server queued for somebody it
\* accepted, however many sessions were cut before.
THEOREM SentMeansQueued == Spec => []SentIsQueued
<1>1. Inductive => SentIsQueued
  BY DEF Inductive
<1> QED
  BY <1>1, SessionsHold, PTL

\* Without a lost confirmation nobody gets a report twice; with any number of
\* them, not more often than send tries.
THEOREM CopiesBounded == Spec => []NoNeedlessCopy
<1>1. Inductive => NoNeedlessCopy
  BY DEF Inductive
<1> QED
  BY <1>1, SessionsHold, PTL

-----------------------------------------------------------------------------
(* The contract.                                                           *)

Told == [j \in Jobs |-> ToldBy(result[j])]

\* A step that changes neither the queued copies nor what the caller is told is no
\* step of the contract.
LEMMA Stutters ==
  ASSUME UNCHANGED <<copies, result>>
  PROVE  UNCHANGED Contract!mailVars
BY DEF Contract!mailVars, ToldBy

\* A job that returns tells its outcome.
LEMMA Tells ==
  ASSUME Inductive, NEW j \in Jobs, NEW r \in Results \ {"none"}, pc[j] # "done",
         result' = [result EXCEPT ![j] = r], UNCHANGED copies,
         r = "sent" => \E q \in Recipients : copies[j][q] > 0
  PROVE  Contract!Next
<1>0. result \in [Jobs -> Results] /\ result[j] = "none"
  BY DEF Inductive, TypeOK, Counted
<1>1. Told[j] = "nothing" /\ ToldBy(r) \in {"sent", "failed"} /\ (ToldBy(r) = "sent" => r = "sent")
  BY <1>0 DEF Told, ToldBy
<1>2. Told' = [Told EXCEPT ![j] = ToldBy(r)]
  <2>1. Told' = [i \in Jobs |-> ToldBy(result'[i])]
    BY DEF Told, ToldBy
  <2> QED
    BY <1>0, <2>1 DEF Told, ToldBy
<1>3. Contract!Tell(j)
  BY <1>1, <1>2 DEF Contract!Tell, Told
<1> QED
  BY <1>3 DEF Contract!Next

\* The report is queued.
LEMMA Delivers ==
  ASSUME Inductive, NEW j \in Jobs, Data(j)
  PROVE  Contract!Next
<1>0. TypeOK /\ Counted
  BY DEF Inductive
<1>1. result[j] = "none" /\ to[j] \in (SUBSET Recipients) \ {{}} /\ UNCHANGED result
  <2>1. pc[j] = "data" /\ UNCHANGED result
    BY DEF Data
  <2>2. result[j] = "none" /\ to[j] # {} /\ to[j] \in SUBSET Recipients
    BY <1>0, <2>1 DEF Counted, TypeOK
  <2> QED BY <2>1, <2>2, Zenon
<1>2. \A q \in to[j] : copies[j][q] < Attempts
  <2> SUFFICES ASSUME NEW q \in Recipients PROVE copies[j][q] < Attempts
    BY <1>1
  <2>1. copies[j][q] <= lost[j] /\ lost[j] <= attempt[j]
    BY <1>0 DEF Data, Counted
  <2>2. copies[j][q] \in Nat /\ lost[j] \in Nat /\ attempt[j] \in 0..Attempts - 1 /\ Attempts \in Nat
    BY <1>0, MailAssumption DEF TypeOK
  <2> QED BY <2>1, <2>2
<1>3. Contract!Deliver(j)
  <2>1. copies' = [copies EXCEPT
          ![j] = [r \in Recipients |-> IF r \in to[j] THEN @[r] + 1 ELSE @[r]]]
    BY DEF Data
  <2>2. Told[j] = "nothing" /\ Told' = Told
    BY <1>1 DEF Told, ToldBy
  <2> QED
    BY <1>1, <1>2, <2>1, <2>2 DEF Contract!Deliver, Told
<1> QED
  BY <1>3 DEF Contract!Next

\* A session that raised is told as a failure, or not yet.
LEMMA RaisesTell ==
  ASSUME Inductive, NEW j \in Jobs, NEW e, Raise(j, e), UNCHANGED copies, pc[j] # "done"
  PROVE  [Contract!Next]_(Contract!mailVars)
<1>1. PICK place \in {"done", "backoff"}, r \in Results : Ended(j, place, r)
  BY RaiseEnds DEF Inductive
<1>2. CASE r \in Results \ {"none", "sent"} /\ result' = [result EXCEPT ![j] = r]
  BY <1>2, Tells
<1>3. CASE UNCHANGED result
  BY <1>3, Stutters
<1> QED
  BY <1>1, <1>2, <1>3 DEF Ended

\* Each step of the sessions is a step of the contract, or none.
LEMMA ContractSteps ==
  ASSUME Inductive, [Next]_vars
  PROVE  [Contract!Next]_(Contract!mailVars)
<1>1. CASE UNCHANGED vars
  BY <1>1, Stutters DEF vars
<1>2. CASE Next
  <2>1. PICK j \in Jobs : Send(j) \/ Interrupt(j)
    BY <1>2 DEF Next
  <2>2. CASE Connect(j)
    <3>1. CASE \E e : Raise(j, e)
      BY <2>2, <3>1, RaisesTell DEF Connect, Raise
    <3>2. CASE UNCHANGED result
      BY <2>2, <3>2, Stutters DEF Connect
    <3> QED BY <2>2, <3>1, <3>2 DEF Connect
  <2>3. CASE Cut(j)
    BY <2>3, RaisesTell DEF Cut, Raise
  <2>4. CASE Refused(j)
    BY <2>4, RaisesTell DEF Refused, Raise, RaiseOnline
  <2>5. CASE TlsFails(j)
    BY <2>5, RaisesTell DEF TlsFails, RaiseOnline
  <2>6. CASE Login(j) \/ MailFrom(j) \/ RcptTo(j) \/ Confirmed(j) \/ Backoff(j)
    BY <2>6, Stutters DEF Login, MailFrom, RcptTo, Confirmed, Backoff
  <2>7. CASE Data(j)
    BY <2>7, Delivers
  <2>8. CASE ReplyLost(j)
    BY <2>8, RaisesTell DEF ReplyLost, Raise
  <2>9. CASE Quit(j)
    <3>1. CASE Raise(j, "SMTPResponseException")
      BY <2>9, <3>1, RaisesTell DEF Quit
    <3>2. CASE Succeed(j)
      <4>1. \E q \in Recipients : copies[j][q] > 0
        BY <2>9 DEF Quit, Inductive, TypeOK, Counted
      <4>2. result' = [result EXCEPT ![j] = "sent"] /\ UNCHANGED copies /\ pc[j] # "done"
        BY <2>9, <3>2 DEF Succeed, Return, Quit
      <4> QED
        BY <4>1, <4>2, Tells DEF Results
    <3> QED BY <2>9, <3>1, <3>2 DEF Quit
  <2>10. CASE Interrupt(j)
    <3>1. result' = [result EXCEPT ![j] = "raised"] /\ UNCHANGED copies /\ pc[j] # "done"
      BY <2>10 DEF Interrupt, Return
    <3> QED
      BY <3>1, Tells DEF Results
  <2> QED
    BY <2>1, <2>2, <2>3, <2>4, <2>5, <2>6, <2>7, <2>8, <2>9, <2>10 DEF Send
<1> QED
  BY <1>1, <1>2

\* `send` keeps the contract of its caller: copies only while it lasts and at most
\* one for each attempt, one outcome, "sent" only with a copy queued.
THEOREM ContractKept == Spec => KeepsMailContract
<1>1. Init => Contract!Init
  BY DEF Init, Contract!Init, ToldBy
<1>2. Inductive /\ [Next]_vars => [Contract!Next]_(Contract!mailVars)
  BY ContractSteps
<1> QED
  BY <1>1, <1>2, SessionsHold, PTL DEF Spec, KeepsMailContract, Contract!Spec
=============================================================================
