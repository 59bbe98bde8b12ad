--------------------------- MODULE MCPaymentSplit ---------------------------
(* Constants of the instance of PaymentSplit that TLC checks. *)
EXTENDS PaymentSplit, TLC

CONSTANTS o1, o2, o3

ThreeOrders == {o1, o2, o3}
SomePrices == 0..3
SomeAmounts == {-1, 0, 1, 2, 4, 10}

\* The orders differ only in their prices.
OrderSymmetry == Permutations(Orders)
=============================================================================
