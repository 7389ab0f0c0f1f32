----------------------------- MODULE MCExchange -----------------------------
(* Exchange and its breakpoints on small instances.                        *)
EXTENDS Exchange

=============================================================================
