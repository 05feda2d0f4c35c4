-------------------------- MODULE MCQueryEmbedder --------------------------
(* The symmetry of the runs without liveness: callers and texts only count. *)
EXTENDS QueryEmbedder, TLC

Symmetry == Permutations(Caller) \cup Permutations(Text)
=============================================================================
