---------------------------- MODULE MCRunResults ----------------------------
(***************************************************************************)
(* RunResults for TLC: two shards, of which an older agent may run one.    *)
(***************************************************************************)
EXTENDS RunResults

MCLoads     == {1, 3}
MCLatencies == {1, 2, 5}
MCRamps     == {0, 1}
MCLimits    == [minCompletion : {0, 50}, maxError : {0, 40}, maxP95 : {2, 5}, maxTTFT : {0, 1},
                minRate : {0, 1}]
\* Together the shards take less than the three seconds configured, or just as long.
MCElapsed   == {[i \in {0, 1} |-> 1], [i \in {0, 1} |-> i + 1]}
MCOldAgents == {{}, {0}, {0, 1}}
=============================================================================
