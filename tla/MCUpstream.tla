----------------------------- MODULE MCUpstream -----------------------------
(* Symmetry for the bounded instances of UpstreamForward.                  *)
EXTENDS UpstreamForward, TLC

Symmetric == Permutations(Callers) \cup Permutations(Conns)
               \cup Permutations(Channels) \cup Permutations(Keys)
=============================================================================
