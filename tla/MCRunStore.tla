----------------------------- MODULE MCRunStore -----------------------------
(***************************************************************************)
(* RunStore for TLC.  Agents are interchangeable; run IDs are not, because *)
(* the store hands them out in order.                                      *)
(***************************************************************************)
EXTENDS RunStoreProps, TLC

Symmetry == Permutations(Agents)
=============================================================================
