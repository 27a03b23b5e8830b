----------------------------- MODULE LoadService -----------------------------
(***************************************************************************)
(* What the run store promises the people who start runs and the agents    *)
(* that execute them, without queues, handlers, searches or targets: a run *)
(* is waiting, then executing, then finished or withdrawn; each of its     *)
(* parts is handed to one agent once and collected once; a run finishes    *)
(* with the collection of its last part and at no other moment, and what   *)
(* is over stays over.  RunStore implements this specification.            *)
(***************************************************************************)
CONSTANTS
  RunIds,     \* identities of runs
  Parts,      \* identities of parts: pairs <<run, index>>
  Indexes     \* the indexes a part can have

VARIABLES
  state,      \* where each run is in its life
  parts,      \* the parts of the runs submitted so far
  handedOut,  \* parts given to an agent
  collected   \* parts whose result came back

vars == <<state, parts, handedOut, collected>>

Init ==
  /\ state = [r \in RunIds |-> "absent"]
  /\ parts = {}
  /\ handedOut = {}
  /\ collected = {}

Submit(r, I) ==
  /\ state[r] = "absent"
  /\ state' = [state EXCEPT ![r] = "waiting"]
  /\ parts' = parts \cup ({r} \X I)
  /\ UNCHANGED <<handedOut, collected>>

\* Runs that are not over are withdrawn; what an agent holds is not recalled.
Withdraw(R) ==
  /\ \A r \in R : state[r] \in {"waiting", "executing"}
  /\ state' = [r \in RunIds |-> IF r \in R THEN "withdrawn" ELSE state[r]]
  /\ UNCHANGED <<parts, handedOut, collected>>

\* A part that nobody had yet goes to an agent.  On the way, runs that have
\* no executing part may be found impossible to start and are withdrawn.
HandOut(p, R) ==
  /\ p \in parts \ handedOut
  /\ state[p[1]] \in {"waiting", "executing"}
  /\ \A r \in R : state[r] = "waiting" /\ r # p[1]
  /\ handedOut' = handedOut \cup {p}
  /\ state' = [r \in RunIds |-> IF r \in R THEN "withdrawn"
                                ELSE IF r = p[1] THEN "executing" ELSE state[r]]
  /\ UNCHANGED <<parts, collected>>

Collect(p) ==
  /\ p \in handedOut \ collected
  /\ collected' = collected \cup {p}
  /\ state' = IF state[p[1]] = "executing" /\ {q \in parts : q[1] = p[1]} \subseteq collected'
                THEN [state EXCEPT ![p[1]] = "finished"] ELSE state
  /\ UNCHANGED <<parts, handedOut>>

Next ==
  \/ \E r \in RunIds, I \in SUBSET Indexes : I # {} /\ Submit(r, I)
  \/ \E R \in SUBSET RunIds : Withdraw(R)
  \/ \E p \in Parts, R \in SUBSET RunIds : HandOut(p, R)
  \/ \E p \in Parts : Collect(p)

Spec == Init /\ [][Next]_vars
=============================================================================
