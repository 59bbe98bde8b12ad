----------------------------- MODULE MCBooking -----------------------------
(* Constants of the instances of Booking that TLC checks. *)
EXTENDS Booking, TLC

CONSTANTS d1, d2, c1, c2, c3, lion, bear

OneDesk == {d1}
TwoDesks == {d1, d2}
TwoCodes == {c1, c2}
ThreeCodes == {c1, c2, c3}
BothCostumes == {lion, bear}

For(costumes, from, to) == [costumes |-> costumes, from |-> from, to |-> to]

\* One costume: periods that meet, overlap, are empty or are the wrong way round.
LionOnly == {For(<<lion>>, 0, 1), For(<<lion>>, 1, 1), For(<<lion>>, 1, 0)}

\* Two costumes: periods that meet, overlap or contain one another, requests
\* for one or both, each costume once.
EachOnce == {For(<<lion>>, 0, 2), For(<<lion>>, 1, 3), For(<<lion>>, 2, 3),
             For(<<bear>>, 0, 3), For(<<lion, bear>>, 1, 2), For(<<lion>>, 3, 0)}

\* Desks and codes are interchangeable.
BookingSymmetry == {f @@ g : f \in Permutations(Desks), g \in Permutations(Codes)}
=============================================================================
