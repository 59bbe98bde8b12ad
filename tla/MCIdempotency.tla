--------------------------- MODULE MCIdempotency ---------------------------
(* Constants of the instance of Idempotency that TLC checks. *)
EXTENDS Idempotency, TLC

\* Keys do not meet, bodies and calls are interchangeable.
CallSymmetry == {f @@ g : f \in Permutations(Calls), g \in Permutations(Bodies)}
=============================================================================
