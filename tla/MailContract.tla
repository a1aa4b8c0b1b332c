---------------------------- MODULE MailContract ----------------------------
(***************************************************************************)
(* What `send` promises for the report of each job: copies of it may reach *)
(* recipients while the call lasts, one outcome is told once, and "sent"   *)
(* is only told when somebody has a copy.                                  *)
(***************************************************************************)
EXTENDS Naturals

CONSTANTS Jobs, Recipients,
          Most        \* copies of one report that a recipient may get

VARIABLES copies, told
mailVars == <<copies, told>>

Init ==
  /\ copies = [j \in Jobs |-> [r \in Recipients |-> 0]]
  /\ told = [j \in Jobs |-> "nothing"]

Deliver(j) ==
  /\ told[j] = "nothing"
  /\ \E some \in (SUBSET Recipients) \ {{}} :
       /\ \A r \in some : copies[j][r] < Most
       /\ copies' = [copies EXCEPT
                       ![j] = [r \in Recipients |-> IF r \in some THEN @[r] + 1 ELSE @[r]]]
  /\ UNCHANGED told

Tell(j) ==
  /\ told[j] = "nothing"
  /\ \/ told' = [told EXCEPT ![j] = "sent"] /\ \E r \in Recipients : copies[j][r] > 0
     \/ told' = [told EXCEPT ![j] = "failed"]
  /\ UNCHANGED copies

Next == \E j \in Jobs : Deliver(j) \/ Tell(j)
Spec == Init /\ [][Next]_mailVars
=============================================================================
