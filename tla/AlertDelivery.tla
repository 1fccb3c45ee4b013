---------------------------- MODULE AlertDelivery ----------------------------
(***************************************************************************)
(* What the alert path promises: every alert is taken up in its turn, none *)
(* skipped and none twice; the one in hand goes to each user at most once; *)
(* after a stop at most one more is taken up, and when the stop has ended  *)
(* nobody is sent anything.  How many of the users are reached is left     *)
(* open.                                                                   *)
(***************************************************************************)
EXTENDS Naturals, Sequences

CONSTANT Users

VARIABLES
  raised,   \* alerts raised, numbered from 1
  taken,    \* alerts taken up; the last one is in hand
  inbox,    \* what each user received
  stopping, \* a stop has begun
  overtime, \* alerts taken up since
  ended     \* the stop has ended

vars == <<raised, taken, inbox, stopping, overtime, ended>>

Init ==
  /\ raised = 0 /\ taken = 0 /\ overtime = 0
  /\ inbox = [u \in Users |-> <<>>]
  /\ stopping = FALSE /\ ended = FALSE

Raise ==
  /\ ~stopping
  /\ raised' = raised + 1
  /\ UNCHANGED <<taken, inbox, stopping, overtime, ended>>

Take ==
  /\ taken < raised /\ ~ended
  /\ taken' = taken + 1
  /\ IF stopping THEN overtime = 0 /\ overtime' = 1 ELSE UNCHANGED overtime
  /\ UNCHANGED <<raised, inbox, stopping, ended>>

(* The alert in hand reaches a user who does not have it.                  *)
Deliver(u) ==
  /\ taken > 0 /\ ~ended
  /\ \A i \in DOMAIN inbox[u] : inbox[u][i] # taken
  /\ inbox' = [inbox EXCEPT ![u] = Append(@, taken)]
  /\ UNCHANGED <<raised, taken, stopping, overtime, ended>>

Stop ==
  /\ ~stopping /\ stopping' = TRUE
  /\ UNCHANGED <<raised, taken, inbox, overtime, ended>>

End ==
  /\ stopping /\ ended' = TRUE
  /\ UNCHANGED <<raised, taken, inbox, stopping, overtime>>

Next == Raise \/ Take \/ (\E u \in Users : Deliver(u)) \/ Stop \/ End

Spec == Init /\ [][Next]_vars
=============================================================================
