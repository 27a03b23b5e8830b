---------------------------- MODULE MCAssessment ----------------------------
(***************************************************************************)
(* Assessment for TLC.                                                     *)
(***************************************************************************)
EXTENDS Assessment

Quiet == [waiting |-> 0, running |-> 1, kv |-> 50, preemptions |-> 0, queueTime |-> 5,
          prefillTime |-> 10, prefixHit |-> 60, clock |-> 100, power |-> 0]

Queued == [waiting |-> 2, running |-> 2, kv |-> 100, preemptions |-> 0, queueTime |-> 40,
           clock |-> 96]

Thrashing == [waiting |-> 1, running |-> 1, kv |-> 100, preemptions |-> 3, prefillTime |-> 20,
              prefixHit |-> 10, clock |-> 100]

Throttled == [kv |-> 100, clock |-> 94, power |-> 1]
Nothing   == [m \in {} |-> 0]

MCSamples == {Quiet, Queued, Thrashing, Throttled, Nothing}

MCFields  == {"max_num_seqs", "max_num_batched_tokens", "gpu_memory_utilization"}
MCRounded == {"gpu_memory_utilization"}
MCTTFT    == {"max_num_batched_tokens"}

Server(seqs, tokens, memory) ==
  [f \in MCFields |-> CASE f = "max_num_seqs"           -> seqs
                        [] f = "max_num_batched_tokens" -> tokens
                        [] f = "gpu_memory_utilization" -> memory]

MCEntries  == {Server(0, 0, 0), Server(1, 0, 901), Server(3, 8, 850)}
MCLabels   == <<Server(0, 9, 904), Server(2, 0, 0)>>
MCClients  == {0, 10, 30, 60}
MCPolicies == {"reuse", "bypass"}
=============================================================================
