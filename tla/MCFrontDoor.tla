---------------------------- MODULE MCFrontDoor ----------------------------
(***************************************************************************)
(* FrontDoor for TLC.  The limits are scaled down: two sessions and two    *)
(* events by default, no tick of idleness; users may submit the narrowest *)
(* limits with a token, or switch the proxy on without one.                *)
(***************************************************************************)
EXTENDS FrontDoor

MCDefault == [enabled |-> TRUE, token |-> None, idle |-> 0, events |-> 2, retention |-> 2]

MCInputs ==
  {[enabled |-> TRUE,  token |-> "mine", idle |-> 1, events |-> 1, retention |-> 1],
   [enabled |-> TRUE,  token |-> None,   idle |-> 0, events |-> 2, retention |-> 2]}

\* Logins, requests to the proxy and settings updates are each explored in full
\* with little of the others.
MCInit ==
  \/ InitAfter(0, MaxCalls - 1, MaxUpdates - 1)
  \/ InitAfter(MaxLogins, 0, MaxUpdates - 1)
  \/ InitAfter(MaxLogins - 1, MaxCalls - 1, 0)

MCSpec == MCInit /\ [][Next]_vars /\ Fairness
=============================================================================
