---------------------------- MODULE CapacitySweep ----------------------------
(***************************************************************************)
(* What a capacity search promises, without saying how it keeps its books: *)
(* rungs are measured from the bottom, none is skipped, and the answer is  *)
(* the highest measured rung that holds together with every rung below it. *)
(* AutoSearch implements this specification.                               *)
(***************************************************************************)
EXTENDS Integers, FiniteSetsExt

VARIABLES
  ladder,      \* the rungs planned, a finite set of loads; never changes
  measured,    \* rung measured -> did it meet the SLO?
  answer       \* the reported capacity, or Unanswered

vars == <<ladder, measured, answer>>

Unanswered == -1

Capacity(m) ==
  Max({0} \cup {r \in DOMAIN m : \A q \in DOMAIN m : q <= r => m[q]})

(***************************************************************************)
(* The sweep has seen enough: every rung is measured, none of them held,   *)
(* or the two highest ones measured both failed.                           *)
(***************************************************************************)
Conclusive(m) ==
  LET top == Max(DOMAIN m)
  IN  \/ DOMAIN m = ladder
      \/ \A r \in DOMAIN m : ~m[r]
      \/ /\ ~m[top]
         /\ DOMAIN m # {top}
         /\ ~m[Max(DOMAIN m \ {top})]

Init ==
  /\ measured = << >>
  /\ answer = Unanswered

Measure(rung, held) ==
  /\ answer = Unanswered
  /\ rung = Min(ladder \ DOMAIN measured)
  /\ measured' = [r \in DOMAIN measured \cup {rung} |-> IF r = rung THEN held ELSE measured[r]]
  /\ answer' = IF Conclusive(measured') THEN Capacity(measured') ELSE Unanswered
  /\ UNCHANGED ladder

Next == \E rung \in ladder \ DOMAIN measured, held \in BOOLEAN : Measure(rung, held)

Spec == Init /\ [][Next]_vars
=============================================================================
