---------------------------- MODULE MCAutoSearch ----------------------------
(***************************************************************************)
(* Searches for TLC: every small range, and the widest ranges the          *)
(* validation lets through (MaxVUs = 500, MaxRPS = 2000).                  *)
(***************************************************************************)
EXTENDS AutoSearch

MCLoadRanges ==
  {range \in (1 .. 4) \X (1 .. 20) : ValidRange(range)}
    \cup {<<1, 500>>, <<5, 500>>, <<499, 500>>, <<1, 2000>>, <<10, 2000>>}
=============================================================================
