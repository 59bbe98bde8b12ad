-------------------------- MODULE PaymentContract --------------------------
(***************************************************************************)
(* What issuing a visit promises about money: in one step the amount the   *)
(* client brings is spread over the orders, as much as the orders still    *)
(* cost and no more on any of them; taking the issue back forgets it.      *)
(***************************************************************************)
EXTENDS Integers, FiniteSets, FiniteSetsExt

CONSTANTS Orders, Null

VARIABLES debt,    \* debt[o]: what is left to pay for order o
          given,   \* the amount that was brought, or Null
          paid     \* paid[o]: the part of it that went to order o, or Null

vars == <<debt, given, paid>>

Total(f) == MapThenSumSet(LAMBDA o : f[o], Orders)
Lesser(a, b) == IF a < b THEN a ELSE b

Init == /\ debt \in [Orders -> Nat]
        /\ given = Null
        /\ paid = [o \in Orders |-> Null]

\* a may be negative only if the caller sends a correction.
Settle(a, f) ==
    /\ given = Null /\ a # Null
    /\ given' = a
    /\ \A o \in Orders : f[o] <= debt[o] /\ (a >= 0 => f[o] >= 0)
    /\ Total(f) = Lesser(a, Total(debt))
    /\ paid' = f
    /\ UNCHANGED debt

Forget == /\ given # Null
          /\ given' = Null
          /\ paid' = [o \in Orders |-> Null]
          /\ UNCHANGED debt

Next == Settle(given', paid') \/ Forget

Spec == Init /\ [][Next]_vars
=============================================================================
