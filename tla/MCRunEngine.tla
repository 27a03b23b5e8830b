---------------------------- MODULE MCRunEngine ----------------------------
(***************************************************************************)
(* RunEngine for TLC: one configuration per kind of load.                  *)
(***************************************************************************)
EXTENDS RunEngine

Plain == [mode |-> "vu", loads |-> <<2>>, kinds |-> {"request"}, turns |-> 0, sessionsPerVU |-> 0,
          think |-> FALSE, warmups |-> 0, events |-> 0, drain |-> TRUE, cooldown |-> FALSE,
          slo |-> FALSE]

\* Two stages after a warm-up, with the guardrail.
Staged == [Plain EXCEPT !.loads = <<1, 2>>, !.warmups = 1, !.slo = TRUE, !.cooldown = TRUE]

\* No drain; VUs think between requests.
Undrained == [Plain EXCEPT !.drain = FALSE, !.think = TRUE]

\* Journeys mix single requests and sessions.
Journeys == [Plain EXCEPT !.kinds = {"request", "session"}, !.turns = 2, !.think = TRUE]

\* An agent workflow with one job per VU, without think time.
Workflow == [Plain EXCEPT !.kinds = {"session"}, !.turns = 2, !.sessionsPerVU = 1]

\* An open load of single requests, and of sessions.
Arrivals == [Plain EXCEPT !.mode = "rps", !.warmups = 2]

SessionArrivals == [Arrivals EXCEPT !.kinds = {"session"}, !.turns = 2, !.warmups = 0, !.slo = TRUE]

Trace == [Plain EXCEPT !.mode = "trace", !.events = 3]

MCWorkers == {1, 2}

MCConfigs == {Staged, Undrained, Journeys, Workflow, Arrivals, SessionArrivals, Trace}
=============================================================================
