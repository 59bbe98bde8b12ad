-------------------------- MODULE MCVisitLifecycle --------------------------
(* Constants of the instances of VisitLifecycle that TLC checks. *)
EXTENDS VisitLifecycle, TLC

CONSTANTS v1, v2, o1, o2, r1, r2

OneVisit == {v1}
TwoVisits == {v1, v2}
TwoOrders == {o1, o2}
BothInV1 == [o \in TwoOrders |-> v1]
OneEach == [o \in TwoOrders |-> IF o = o1 THEN v1 ELSE v2]

OneRequest == {r1}
TwoRequests == {r1, r2}

\* Requests, and the orders of one visit, are interchangeable: no action or
\* property names one.
RaceSymmetry == {f @@ g : f \in Permutations(Requests), g \in Permutations(Orders)}
=============================================================================
