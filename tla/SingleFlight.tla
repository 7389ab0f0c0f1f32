---------------------------- MODULE SingleFlight ----------------------------
(***************************************************************************)
(* What the pending map of the upstream pool promises: for every key at    *)
(* most one first dial is in flight, it starts only when none is, and only *)
(* the caller that started it ends it.                                     *)
(***************************************************************************)
CONSTANTS Callers, Keys

VARIABLE flight   \* key -> the callers whose first dial is in flight

Init == flight = [k \in Keys |-> {}]

Begin(k, c) == flight[k] = {} /\ flight' = [flight EXCEPT ![k] = {c}]

End(k, c) == flight[k] = {c} /\ flight' = [flight EXCEPT ![k] = {}]

Next == \E k \in Keys, c \in Callers : Begin(k, c) \/ End(k, c)

Spec == Init /\ [][Next]_flight

=============================================================================
