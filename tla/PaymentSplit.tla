---------------------------- MODULE PaymentSplit ----------------------------
(***************************************************************************)
(* The money side of visitIssue.  The modal proposes what remains to be    *)
(* paid; the clerk may type another amount.  The handler walks through the *)
(* orders, in whatever order the database returns them, gives each what it *)
(* lacks while the amount lasts, and commits the payments together; a      *)
(* failure rolls all of them back.                                         *)
(***************************************************************************)
EXTENDS Integers, FiniteSets, FiniteSetsExt

CONSTANTS
    Orders,     \* the orders of the visit
    Prices,     \* rents that are asked for a costume
    Amounts,    \* amounts a clerk may type instead of the proposed one
    Null        \* the database's NULL

ASSUME PaymentConstants == /\ IsFiniteSet(Orders)
                           /\ Prices \subseteq Nat
                           /\ Amounts \subseteq Int
                           /\ Null \notin Int

VARIABLES
    rentPrice, prepayment,  \* columns of the orders, fixed when the visit is created
    finalPayment,           \* column of the orders, as committed
    additionalPayment,      \* of the issue that is committed, or Null
    tx                      \* the transaction in progress, or NoTx

vars == <<rentPrice, prepayment, finalPayment, additionalPayment, tx>>

NoTx == [remaining |-> 0, split |-> <<>>]
Debt(o) == rentPrice[o] - prepayment[o]

\* split[o]: written to order o by the transaction; todo: orders to come.
Tx == [given : Int, remaining : Int, split : [Orders -> Int \cup {Null}],
       todo : SUBSET Orders]

TypeOK == /\ rentPrice \in [Orders -> Nat]
          /\ prepayment \in [Orders -> Nat]
          /\ \A o \in Orders : Debt(o) >= 0
          /\ finalPayment \in [Orders -> Int \cup {Null}]
          /\ additionalPayment \in Int \cup {Null}
          /\ tx \in Tx \cup {NoTx}

Unpaid == [o \in Orders |-> Null]

\* Mutant of Init: createVisit accepts any prepayment.
InitUnchecked == /\ rentPrice \in [Orders -> Prices]
                 /\ prepayment \in [Orders -> Prices]
                 /\ finalPayment = Unpaid
                 /\ additionalPayment = Null
                 /\ tx = NoTx

\* createVisit refuses a prepayment above the rent.
Init == /\ rentPrice \in [Orders -> Prices]
        /\ prepayment \in [Orders -> Prices]
        /\ \A o \in Orders : prepayment[o] <= rentPrice[o]
        /\ finalPayment = Unpaid
        /\ additionalPayment = Null
        /\ tx = NoTx

Total(f) == MapThenSumSet(LAMBDA o : f[o], Orders)

\* visitForIssue
RemainingToPay == Total(rentPrice) - Total(prepayment)

\* visitIssue, called from the modal with the proposed or a typed amount.
BeginIssue(a) ==
    /\ tx = NoTx
    /\ additionalPayment = Null
    /\ tx' = [given |-> a, remaining |-> a, split |-> Unpaid, todo |-> Orders]
    /\ UNCHANGED <<rentPrice, prepayment, finalPayment, additionalPayment>>

Lesser(a, b) == IF a < b THEN a ELSE b

\* Mutants of PaymentFor: the prepayment is not deducted; it is deducted twice.
PaymentOfRent(o, remaining) == Lesser(remaining, rentPrice[o])
PaymentTwiceDeducted(o, remaining) == Lesser(remaining, Debt(o) - prepayment[o])

PaymentFor(o, remaining) == Lesser(remaining, Debt(o))

\* Mutant of AfterPaying: the amount is not reduced by what an order got.
AfterPayingAll(t, o) == [t EXCEPT !.split[o] = PaymentFor(o, t.remaining),
                                  !.todo = @ \ {o}]

\* One turn of the loop over visit.orders.
AfterPaying(t, o) == [t EXCEPT !.split[o] = PaymentFor(o, t.remaining),
                               !.remaining = @ - PaymentFor(o, t.remaining),
                               !.todo = @ \ {o}]

PayOrder(o) ==
    /\ tx # NoTx
    /\ o \in tx.todo
    /\ tx' = AfterPaying(tx, o)
    /\ UNCHANGED <<rentPrice, prepayment, finalPayment, additionalPayment>>

CommitIssue ==
    /\ tx # NoTx
    /\ tx.todo = {}
    /\ finalPayment' = tx.split
    /\ additionalPayment' = tx.given
    /\ tx' = NoTx
    /\ UNCHANGED <<rentPrice, prepayment>>

\* The deposit exists already, the database fails or the process dies.
FailIssue ==
    /\ tx # NoTx
    /\ tx' = NoTx
    /\ UNCHANGED <<rentPrice, prepayment, finalPayment, additionalPayment>>

\* visitUnissue
Unissue ==
    /\ tx = NoTx
    /\ additionalPayment # Null
    /\ finalPayment' = Unpaid
    /\ additionalPayment' = Null
    /\ UNCHANGED <<rentPrice, prepayment, tx>>

Next == \/ \E a \in Amounts \cup {RemainingToPay} : BeginIssue(a)
        \/ \E o \in Orders : PayOrder(o)
        \/ CommitIssue \/ FailIssue \/ Unissue

Spec == Init /\ [][Next]_vars

-----------------------------------------------------------------------------
(* Properties.                                                             *)

\* An amount that covers what remains, the proposed one in particular, pays
\* every order off to the last unit, and no order more than that.
SettledWhenEnough ==
    additionalPayment # Null /\ additionalPayment >= RemainingToPay =>
        \A o \in Orders : finalPayment[o] = Debt(o)

\* An amount that does not suffice is not scattered: of two orders that are
\* left with a debt at least one got nothing, and none is charged a refund.
NotScattered ==
    additionalPayment # Null /\ additionalPayment >= 0 =>
        /\ \A o \in Orders : finalPayment[o] \in 0..Debt(o)
        /\ \A o, p \in Orders :
              o # p /\ finalPayment[o] < Debt(o) /\ finalPayment[p] < Debt(p) =>
                  finalPayment[o] = 0 \/ finalPayment[p] = 0

Contract == INSTANCE PaymentContract
              WITH debt <- [o \in Orders |-> Debt(o)],
                   given <- additionalPayment,
                   paid <- finalPayment

\* The loop over the orders is one distribution of the amount that was given.
ImplementsContract == Contract!Spec
=============================================================================
