----------------------------- MODULE MCWarmStart -----------------------------
(* WarmStart with its calls of remote_baseline interchangeable, and its     *)
(* labels: the run checks no liveness and no property names one of them.    *)
EXTENDS WarmStart, TLC

Symmetric == Permutations(Prime) \cup Permutations(Label)
=============================================================================
