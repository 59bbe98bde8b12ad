--------------------------- MODULE MCAuthSession ---------------------------
(* Constants of the instance of AuthSession that TLC checks. *)
EXTENDS AuthSession, TLC

CONSTANTS b1, b2, c1, c2

TwoBrowsers == {b1, b2}
TwoCalls == {c1, c2}

\* No action or property names a browser or an exchange.
SessionSymmetry == {f @@ g : f \in Permutations(Browsers), g \in Permutations(Calls)}
=============================================================================
