---------------------------- MODULE MCLifecycle ----------------------------
(* ProxyLifecycle on small instances.                                      *)
EXTENDS ProxyLifecycle, TLC

Symmetric == Permutations(Ops)

=============================================================================
