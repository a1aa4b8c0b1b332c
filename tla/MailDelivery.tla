---------------------------- MODULE MailDelivery ----------------------------
(***************************************************************************)
(* EmailNotifier.send and _deliver (notifier/email_notifier.py): the SMTP  *)
(* sessions of several jobs that report at the same time, through one      *)
(* address, to a server that may refuse, be full, hang, or cut the line at *)
(* any moment.  The message is built; what smtplib raises is modelled by   *)
(* what its session methods do.                                            *)
(***************************************************************************)
EXTENDS Naturals, FiniteSets

CONSTANTS
  Jobs,           \* the gpualert processes that report
  Recipients,     \* email.to_addresses
  Attempts,       \* _SMTP_ATTEMPTS
  Limit,          \* sessions the server takes from one address
  Faults,         \* what may go wrong
  MayInterrupt    \* whether Ctrl+C may come during send

FaultKinds == {"cut", "lostReply", "unreachable", "badPassword", "refused", "shutting", "badQuit"}

ASSUME MailAssumption ==
  /\ Recipients # {} /\ Attempts \in Nat \ {0} /\ Limit \in Nat \ {0}
  /\ Faults \subseteq FaultKinds /\ MayInterrupt \in BOOLEAN

VARIABLES
  pc,             \* where send is in job j
  attempt,        \* the loop variable
  to,             \* recipients the server accepted in this session
  copies,         \* copies of the report queued for each recipient
  lost,           \* queued reports whose confirmation never arrived
  open,           \* jobs that hold a session
  result          \* what send returned

vars == <<pc, attempt, to, copies, lost, open, result>>

InSession == {"login", "mail", "rcpt", "data", "reply", "quit"}
Places == InSession \cup {"connect", "backoff", "done"}
Results == {"none", "sent", "dropped", "auth", "smtp", "network", "raised"}

Init ==
  /\ pc = [j \in Jobs |-> "connect"] /\ attempt = [j \in Jobs |-> 0]
  /\ to = [j \in Jobs |-> {}] /\ copies = [j \in Jobs |-> [r \in Recipients |-> 0]]
  /\ lost = [j \in Jobs |-> 0] /\ open = {}
  /\ result = [j \in Jobs |-> "none"]

Go(j, place) == pc' = [pc EXCEPT ![j] = place]

-----------------------------------------------------------------------------
(* How an exception ends a session, and perhaps send.                      *)

\* _TRANSIENT_SMTP_ERRORS.
Transient(e) ==
  e \in {"SMTPServerDisconnected", "SMTPConnectError", "ConnectionResetError", "TimeoutError"}

\* The except clauses of send, by the result they return.
Handled(e) ==
  IF e = "SMTPAuthenticationError" THEN "auth"
  ELSE IF e \in {"ConnectionRefusedError", "gaierror", "SSLError"} THEN "network"
  ELSE "smtp"

\* What is returned once the last attempt was dropped.
GivenUp_LastForgotten == "sent"
GivenUp == "dropped"

NextAttempt_Same(n) == n
NextAttempt(n) == n + 1

\* The with statement: the session ends with the block, however it ends.
Leave_OnSuccess(j) == open' = IF pc[j] = "quit" THEN open \ {j} ELSE open
Leave(j) == open' = open \ {j}

Return(j, r) == Go(j, "done") /\ result' = [result EXCEPT ![j] = r] /\ UNCHANGED attempt

Raise(j, e) ==
  /\ Leave(j)
  /\ \/ ~Transient(e) /\ Return(j, Handled(e))
     \/ Transient(e) /\ attempt[j] = Attempts - 1 /\ Return(j, GivenUp)
     \/ Transient(e) /\ attempt[j] # Attempts - 1 /\ Go(j, "backoff") /\ UNCHANGED <<attempt, result>>

\* An exception that leaves the server on the line: QUIT is sent, and an answer
\* other than 221 replaces it.
RaiseOnline(j, e) ==
  \E raised \in {e} \cup (IF "badQuit" \in Faults THEN {"SMTPResponseException"} ELSE {}) :
    Raise(j, raised)

-----------------------------------------------------------------------------
(* One attempt: _deliver.                                                  *)

Connect(j) ==
  /\ pc[j] = "connect"
  /\ \/ /\ Cardinality(open) < Limit
        /\ open' = open \cup {j} /\ to' = [to EXCEPT ![j] = {}]
        /\ Go(j, "login") /\ UNCHANGED <<attempt, result>>
     \/ /\ Cardinality(open) >= Limit
        /\ Raise(j, "SMTPConnectError") /\ UNCHANGED to
     \/ /\ "cut" \in Faults
        /\ \E e \in {"TimeoutError", "SMTPServerDisconnected"} : Raise(j, e)
        /\ UNCHANGED to
     \/ /\ "unreachable" \in Faults
        /\ \E e \in {"ConnectionRefusedError", "gaierror"} : Raise(j, e)
        /\ UNCHANGED to
  /\ UNCHANGED <<copies, lost>>

\* The server, or the network, cuts the session before the report is queued.
Cut(j) ==
  /\ pc[j] \in {"login", "mail", "rcpt", "data"} /\ "cut" \in Faults
  /\ \/ Raise(j, "SMTPServerDisconnected")
     \/ pc[j] = "login" /\ \E e \in {"ConnectionResetError", "TimeoutError"} : Raise(j, e)
  /\ UNCHANGED <<to, copies, lost>>

\* The exception of each stage when the server says no: 421 and hangs up, or
\* another code and stays on the line.
RefusalAt(place) ==
  IF place = "login" THEN "SMTPAuthenticationError"
  ELSE IF place = "mail" THEN "SMTPSenderRefused"
  ELSE IF place = "rcpt" THEN "SMTPRecipientsRefused" ELSE "SMTPDataError"

Refused(j) ==
  /\ pc[j] \in {"login", "mail", "rcpt", "data"}
  /\ \/ "shutting" \in Faults /\ Raise(j, RefusalAt(pc[j]))
     \/ /\ (IF pc[j] = "login" THEN "badPassword" ELSE "refused") \in Faults
        /\ RaiseOnline(j, RefusalAt(pc[j]))
  /\ UNCHANGED <<to, copies, lost>>

\* STARTTLS and the EHLO after it fail for their own reasons.
TlsFails(j) ==
  /\ pc[j] = "login" /\ "unreachable" \in Faults
  /\ \E e \in {"SSLError", "SMTPHeloError"} : RaiseOnline(j, e)
  /\ UNCHANGED <<to, copies, lost>>

Login(j) ==
  /\ pc[j] = "login" /\ Go(j, "mail")
  /\ UNCHANGED <<attempt, to, copies, lost, open, result>>

MailFrom(j) ==
  /\ pc[j] = "mail" /\ Go(j, "rcpt")
  /\ UNCHANGED <<attempt, to, copies, lost, open, result>>

\* One recipient accepted is enough for smtplib; who was refused is in the value
\* of send_message, which is dropped.
RcptTo(j) ==
  /\ pc[j] = "rcpt" /\ Go(j, "data")
  /\ \E some \in (SUBSET Recipients) \ {{}} :
       /\ some = Recipients \/ "refused" \in Faults
       /\ to' = [to EXCEPT ![j] = some]
  /\ UNCHANGED <<attempt, copies, lost, open, result>>

\* The whole report arrives, and the server queues it.
Data(j) ==
  /\ pc[j] = "data" /\ Go(j, "reply")
  /\ copies' = [copies EXCEPT ![j] = [r \in Recipients |-> IF r \in to[j] THEN @[r] + 1 ELSE @[r]]]
  /\ UNCHANGED <<attempt, to, lost, open, result>>

Confirmed(j) ==
  /\ pc[j] = "reply" /\ Go(j, "quit")
  /\ UNCHANGED <<attempt, to, copies, lost, open, result>>

\* The 250 never comes: to the client the report was not sent.
ReplyLost(j) ==
  /\ pc[j] = "reply" /\ "lostReply" \in Faults
  /\ Raise(j, "SMTPServerDisconnected")
  /\ lost' = [lost EXCEPT ![j] = @ + 1]
  /\ UNCHANGED <<to, copies>>

\* The end of the with block, and break.
Succeed_GoesOn(j) ==
  IF attempt[j] = Attempts - 1 THEN Return(j, "sent")
  ELSE Go(j, "connect") /\ attempt' = [attempt EXCEPT ![j] = @ + 1] /\ UNCHANGED result
Succeed(j) == Return(j, "sent")

Quit(j) ==
  /\ pc[j] = "quit"
  /\ \/ Leave(j) /\ Succeed(j)
     \/ "badQuit" \in Faults /\ Raise(j, "SMTPResponseException")
  /\ UNCHANGED <<to, copies, lost>>

\* 3, 6, 12 seconds and a random part.
Backoff(j) ==
  /\ pc[j] = "backoff" /\ Go(j, "connect")
  /\ attempt' = [attempt EXCEPT ![j] = NextAttempt(@)]
  /\ UNCHANGED <<to, copies, lost, open, result>>

\* Ctrl+C is no Exception: it leaves send.
Interrupt(j) ==
  /\ MayInterrupt /\ pc[j] # "done"
  /\ Leave(j) /\ Return(j, "raised")
  /\ UNCHANGED <<to, copies, lost>>

Send(j) ==
  \/ Connect(j) \/ Cut(j) \/ Refused(j) \/ TlsFails(j) \/ Login(j) \/ MailFrom(j) \/ RcptTo(j)
  \/ Data(j) \/ Confirmed(j) \/ ReplyLost(j) \/ Quit(j) \/ Backoff(j)

Next == \E j \in Jobs : Send(j) \/ Interrupt(j)

Spec == Init /\ [][Next]_vars

\* Every socket call has a timeout and every sleep ends: send always goes on.
FairSpec == Spec /\ \A j \in Jobs : WF_vars(Send(j))

-----------------------------------------------------------------------------
TypeOK ==
  /\ pc \in [Jobs -> Places] /\ attempt \in [Jobs -> 0..Attempts - 1]
  /\ to \in [Jobs -> SUBSET Recipients] /\ copies \in [Jobs -> [Recipients -> Nat]]
  /\ lost \in [Jobs -> Nat] /\ open \subseteq Jobs
  /\ result \in [Jobs -> Results]

\* A report called sent is queued for every recipient the server accepted, and
\* there is one.
SentIsQueued ==
  \A j \in Jobs : result[j] = "sent" => to[j] # {} /\ \A r \in to[j] : copies[j][r] > 0

\* A recipient gets the report twice only if a confirmation was lost; and never
\* more often than send tries.
NoNeedlessCopy ==
  \A j \in Jobs : \A r \in Recipients : copies[j][r] <= lost[j] + 1 /\ copies[j][r] <= Attempts

\* A job that waits to try again, or is done, holds no session: the ones that
\* collided with it can get through.
WaitsOutside == \A j \in Jobs : j \in open <=> pc[j] \in InSession

\* The counts by position: what is queued in this session is not yet lost.
Counted ==
  \A j \in Jobs :
    /\ lost[j] <= attempt[j] + 1
    /\ pc[j] \in {"connect", "login", "mail", "rcpt", "data"} => lost[j] <= attempt[j]
    /\ \A r \in Recipients :
         copies[j][r] <= IF pc[j] \in {"reply", "quit", "done"} THEN lost[j] + 1 ELSE lost[j]
    /\ pc[j] \in {"reply", "quit"} => lost[j] <= attempt[j] /\ to[j] # {}
                                      /\ \A r \in to[j] : copies[j][r] > 0
    /\ pc[j] = "data" => to[j] # {}
    /\ pc[j] = "backoff" => attempt[j] < Attempts - 1
    /\ pc[j] = "done" <=> result[j] # "none"

Inductive == TypeOK /\ Counted /\ SentIsQueued /\ NoNeedlessCopy /\ WaitsOutside

\* Every send returns: at most four attempts, and no reply is waited for for ever.
SendReturns == \A j \in Jobs : <>(pc[j] = "done")

\* What the caller is told: "sent", or that it was not.
ToldBy(r) == IF r = "none" THEN "nothing" ELSE IF r = "sent" THEN "sent" ELSE "failed"

\* The sessions implement the contract of the reports.
Contract == INSTANCE MailContract WITH
  Most <- Attempts, told <- [j \in Jobs |-> ToldBy(result[j])]
KeepsMailContract == Contract!Spec

=============================================================================
