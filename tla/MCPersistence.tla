---------------------------- MODULE MCPersistence ----------------------------
(***************************************************************************)
(* A run of one shard, two agents that poll for it, the result of the      *)
(* first, and a target somebody registers meanwhile.                       *)
(***************************************************************************)
EXTENDS Persistence

MCOps == {"createRun", "claimA", "claimB", "resultA", "progressA", "createTarget"}

MCVolatile == {"progressA"}

\* What the store asks for: a claim or a result needs the shard, which is created with
\* its run.  CompleteShard does not ask who claimed the shard, or whether anybody did.
MCNeeds ==
  [op \in MCOps |-> CASE op \in {"claimA", "claimB", "resultA", "progressA"} -> {"createRun"}
                      [] OTHER -> {}]

MCBars ==
  [op \in MCOps |-> CASE op = "claimA" -> {"claimB"}
                      [] op = "claimB" -> {"claimA"}
                      [] OTHER -> {}]

\* An agent posts progress and the result of a shard only after its claim was answered.
MCFollows == [op \in MCOps |-> IF op \in {"resultA", "progressA"} THEN {"claimA"} ELSE {}]
=============================================================================
