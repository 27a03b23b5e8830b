----------------------------- MODULE Persistence -----------------------------
(***************************************************************************)
(* PostgresStore (internal/store/postgres.go): every operation is applied  *)
(* to the process's own memory store, and then persist() copies the whole  *)
(* memory store to one row: Snapshot, under the memory store's lock, and   *)
(* the upsert of that snapshot are two steps, with no exclusion between    *)
(* the persists of concurrent requests.  The row is read only at startup.  *)
(*                                                                         *)
(* A store's contents are the set of operations they reflect, which is all *)
(* that matters here: methods apply operations one at a time, and Restore  *)
(* brings back what Snapshot saw.  What an operation does to the maps is   *)
(* the subject of RunStore.                                                *)
(***************************************************************************)
CONSTANTS
  Controllers,    \* controller processes that share the database
  Ops,            \* operations clients may request, once each
  Volatile,       \* those that are not persisted by themselves: SetShardProgress,
                  \* AddMonitoring, a ClaimRun that hands nothing out
  Needs,          \* Needs[op]: what must be in the store for op to succeed
  Bars,           \* Bars[op]: what must not be in the store, as another claim
                  \* of the same shard must not
  Follows,        \* Follows[op]: operations whose answers op's client waits for
  DatabaseFails   \* statements may fail

ASSUME PersistenceAssumption ==
  /\ Volatile \subseteq Ops
  /\ Needs \in [Ops -> SUBSET Ops] /\ Bars \in [Ops -> SUBSET Ops]
  /\ Follows \in [Ops -> SUBSET Ops]
  /\ DatabaseFails \in BOOLEAN

VARIABLES
  memory,   \* the memory store of each process
  up,       \* the processes that serve requests
  row,      \* the database row
  stage,    \* how far each operation is
  server,   \* the process that serves it
  taken,    \* the snapshot its persist() took
  excused   \* (history) operations whose persist() failed or overlapped another
            \* one, and those before a startup that could not read the row

vars == <<memory, up, row, stage, server, taken, excused>>

Stage    == {"new", "applied", "snapped", "answered", "lost"}
InFlight == {op \in Ops : stage[op] \in {"applied", "snapped"}}

TypeOK ==
  /\ memory \in [Controllers -> SUBSET Ops]
  /\ up \subseteq Controllers
  /\ row \subseteq Ops
  /\ stage \in [Ops -> Stage]
  /\ server \in [Ops -> Controllers]
  /\ taken \in [Ops -> SUBSET Ops]
  /\ excused \subseteq Ops

Init ==
  /\ memory = [c \in Controllers |-> {}]
  /\ up = {}
  /\ row = {}
  /\ stage = [op \in Ops |-> "new"]
  /\ server \in [Ops -> Controllers]
  /\ taken = [op \in Ops |-> {}]
  /\ excused = {}

-----------------------------------------------------------------------------
\* Takes claims for telemetry, which the next snapshot would carry anyway.
PersistsNoClaim(op) == op \notin Volatile /\ Bars[op] = {}

Persists(op) == op \notin Volatile

\* The memory store's part of the operation, atomic under its lock.
Apply(op) ==
  LET c == server[op]
  IN  /\ stage[op] = "new" /\ c \in up
      /\ \A before \in Follows[op] : stage[before] = "answered"
      /\ Needs[op] \subseteq memory[c]
      /\ Bars[op] \cap memory[c] = {}
      /\ memory' = [memory EXCEPT ![c] = @ \cup {op}]
      /\ stage' = [stage EXCEPT ![op] = IF Persists(op) THEN "applied" ELSE "answered"]
      /\ excused' = IF Persists(op) /\ InFlight # {} THEN excused \cup InFlight \cup {op}
                    ELSE excused
      /\ UNCHANGED <<up, row, server, taken>>

\* Marshals the maps without holding the lock all the while.
SnapshotWithoutLock(c) == SUBSET memory[c]

Snapshot(c) == {memory[c]}

\* persist: Snapshot and protectSnapshot.
Snap(op) ==
  /\ stage[op] = "applied"
  /\ \E s \in Snapshot(server[op]) : taken' = [taken EXCEPT ![op] = s]
  /\ stage' = [stage EXCEPT ![op] = "snapped"]
  /\ UNCHANGED <<memory, up, row, server, excused>>

\* persist: the upsert; then the request is answered.
Write(op) ==
  /\ stage[op] = "snapped"
  /\ row' = taken[op]
  /\ stage' = [stage EXCEPT ![op] = "answered"]
  /\ UNCHANGED <<memory, up, server, taken, excused>>

\* persist ignores the error of the upsert; the request is answered all the same.
WriteFails(op) ==
  /\ DatabaseFails
  /\ stage[op] = "snapped"
  /\ stage' = [stage EXCEPT ![op] = "answered"]
  /\ excused' = excused \cup {op}
  /\ UNCHANGED <<memory, up, row, server, taken>>

\* The process dies; clients of its requests get no answer.
Crash(c) ==
  /\ c \in up
  /\ up' = up \ {c}
  /\ stage' = [op \in Ops |-> IF op \in InFlight /\ server[op] = c THEN "lost" ELSE stage[op]]
  /\ UNCHANGED <<memory, row, server, taken, excused>>

\* Brings the shards back as queued.
RestoredWithoutClaims(contents) == {op \in contents : Bars[op] = {}}

Restored(contents) == contents

\* NewPostgresStore: SELECT, unprotectSnapshot, Restore.
Start(c) ==
  /\ c \notin up
  /\ up' = up \cup {c}
  /\ memory' = [memory EXCEPT ![c] = Restored(row)]
  /\ UNCHANGED <<row, stage, server, taken, excused>>

\* NewPostgresStore takes any error of the SELECT for an empty table.
StartUnread(c) ==
  /\ DatabaseFails
  /\ c \notin up
  /\ up' = up \cup {c}
  /\ memory' = [memory EXCEPT ![c] = {}]
  /\ excused' = excused \cup {op \in Ops : stage[op] # "new"}
  /\ UNCHANGED <<row, stage, server, taken>>

Next ==
  \/ \E op \in Ops : Apply(op) \/ Snap(op) \/ Write(op) \/ WriteFails(op)
  \/ \E c \in Controllers : Crash(c) \/ Start(c) \/ StartUnread(c)

Spec == Init /\ [][Next]_vars

-----------------------------------------------------------------------------
Acknowledged(op) == stage[op] = "answered" /\ op \notin Volatile

(***************************************************************************)
(* What persist() really guarantees: with one controller an acknowledged   *)
(* operation is in the row and stays there, whatever crashes and restarts  *)
(* follow, unless its own persist failed or overlapped another one (or a   *)
(* startup could not read the row): later snapshots all contain it.        *)
(***************************************************************************)
SerialPersistIsDurable == \A op \in Ops : Acknowledged(op) => op \in row \cup excused

(***************************************************************************)
(* "Agents may reclaim only queued work": two operations that bar one      *)
(* another, as two claims of a shard do, are both answered only if one of  *)
(* them was excused, even with a restart between them.                     *)
(***************************************************************************)
ExclusiveAcrossRestarts ==
  \A op, other \in Ops :
    (op # other /\ other \in Bars[op] /\ op \in Bars[other])
      => (Acknowledged(op) /\ Acknowledged(other) => op \in excused \/ other \in excused)

\* What each operation needed is wherever the operation is.
NeedsAreKept ==
  \A op \in Ops :
    /\ op \in row => Needs[op] \subseteq row
    /\ \A c \in up : op \in memory[c] => Needs[op] \subseteq memory[c]

\* So is what its client had been answered before, or that was excused.
AnswersAreKept ==
  \A op \in Ops : \A before \in Follows[op] \ (Volatile \cup excused) :
    /\ op \in row => before \in row
    /\ \A c \in up : op \in memory[c] => before \in memory[c]

(***************************************************************************)
(* A snapshot is taken under the lock, so what a restart brings back is    *)
(* whole.  A claim or a result is never there without its run, which the   *)
(* store asks for.  It does not ask a result for its claim; a result is    *)
(* there without the claim that the agent was answered only if the claim   *)
(* was excused: its persist failed or overlapped another one, or a startup *)
(* could not read the row.                                                 *)
(***************************************************************************)
StoresAreCoherent == NeedsAreKept /\ AnswersAreKept

-----------------------------------------------------------------------------
(***************************************************************************)
(* Statements of the documents that the code does not keep.                *)
(***************************************************************************)
(***************************************************************************)
(* "Controller restart preserves completed and running work metadata":     *)
(* what was acknowledged is in the row.                                    *)
(***************************************************************************)
AcknowledgedSurvives == \A op \in Ops : Acknowledged(op) => op \in row
=============================================================================
