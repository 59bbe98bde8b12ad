--------------------------- MODULE PaymentProofs ---------------------------
(***************************************************************************)
(* Proofs about PaymentSplit: for any number of orders, any prices and any *)
(* amount, the loop neither charges an order more than it lacks nor        *)
(* scatters an amount that does not suffice, settles everything with one   *)
(* that does, and is one distribution of the amount.                       *)
(***************************************************************************)
EXTENDS PaymentSplit, FiniteSetTheorems, TLAPS

-----------------------------------------------------------------------------
(* Sums over finite sets.  A sum is a recursive function of the subsets;   *)
(* what holds of every sum is proved from a smallest set that it would not *)
(* hold of.                                                                *)

Sum(f, S) == MapThenSumSet(LAMBDA x : f[x], S)

\* Induction over the subsets of a finite set: of those that violate something,
\* one is smallest.
LEMMA SmallestSubset ==
    ASSUME NEW S, IsFiniteSet(S), NEW D, D \subseteq SUBSET S, D # {}
    PROVE  \E T \in D : \A U \in D : U \subseteq T => U = T
<1>1. IsWellFoundedOn(StrictSubsetOrdering(S), SUBSET S)
  BY FS_StrictSubsetOrderingWellFounded, FS_FiniteSubsetsOfFinite
<1>2. PICK T \in D : \A U \in D : <<U, T>> \notin StrictSubsetOrdering(S)
  BY <1>1, WFMin
<1> QED
  BY <1>2 DEF StrictSubsetOrdering

\* The element that is counted first, and the function of subsets that counts.
Pick(s) == CHOOSE x \in s : TRUE
Sums(g, f, S) == g = [s \in SUBSET S |-> IF s = {} THEN 0
                                         ELSE f[Pick(s)] + g[s \ {Pick(s)}]]

LEMMA SumIs == \A f, S : Sum(f, S) = (CHOOSE g : Sums(g, f, S))[S]
BY DEF Sum, MapThenSumSet, MapThenFoldSet, Sums, Pick

\* What the function counts on a subset.
LEMMA SumsValue ==
    ASSUME NEW f, NEW S, NEW g, Sums(g, f, S), NEW s \in SUBSET S
    PROVE  /\ s = {} => g[s] = 0
           /\ s # {} => Pick(s) \in s /\ g[s] = f[Pick(s)] + g[s \ {Pick(s)}]
<1> DEFINE h == g
<1>1. g = [t \in SUBSET S |-> IF t = {} THEN 0 ELSE f[Pick(t)] + h[t \ {Pick(t)}]]
  BY DEF Sums
<1> HIDE DEF h
<1>2. g[s] = IF s = {} THEN 0 ELSE f[Pick(s)] + h[s \ {Pick(s)}]
  BY <1>1
<1>3. s # {} => Pick(s) \in s
  BY DEF Pick
<1> QED
  BY <1>2, <1>3 DEF h

\* Two such functions agree where both are defined.
LEMMA SumsAgree ==
    ASSUME NEW f, NEW S, IsFiniteSet(S), NEW T, NEW g, NEW h, Sums(g, f, S), Sums(h, f, T)
    PROVE  \A u \in (SUBSET S) \cap (SUBSET T) : g[u] = h[u]
<1> DEFINE D == {u \in (SUBSET S) \cap (SUBSET T) : g[u] # h[u]}
<1> SUFFICES ASSUME D # {} PROVE FALSE
  OBVIOUS
<1>0. D \subseteq SUBSET S
  OBVIOUS
<1>1. PICK u \in D : \A v \in D : v \subseteq u => v = u
  <2> HIDE DEF D
  <2> QED
    BY <1>0, SmallestSubset
<1>2. u # {} /\ Pick(u) \in u
  BY <1>1, SumsValue
<1>3. u \ {Pick(u)} \notin D /\ u \ {Pick(u)} \in (SUBSET S) \cap (SUBSET T)
  BY <1>1, <1>2
<1>4. g[u] = f[Pick(u)] + g[u \ {Pick(u)}] /\ h[u] = f[Pick(u)] + h[u \ {Pick(u)}]
  BY <1>1, <1>2, SumsValue
<1> QED
  BY <1>1, <1>3, <1>4

TheSums(f, S) == CHOOSE g : Sums(g, f, S)

\* There is such a function for every finite set.
LEMMA SumsExist ==
    ASSUME NEW f, NEW S, IsFiniteSet(S)
    PROVE  \A T \in SUBSET S : Sums(TheSums(f, T), f, T)
<1> DEFINE D == {T \in SUBSET S : ~Sums(TheSums(f, T), f, T)}
<1> SUFFICES ASSUME D # {} PROVE FALSE
  OBVIOUS
<1>0. D \subseteq SUBSET S
  OBVIOUS
<1>1. PICK T \in D : \A U \in D : U \subseteq T => U = T
  <2> HIDE DEF D
  <2> QED
    BY <1>0, SmallestSubset
<1>2. \A U \in SUBSET T : U # T => Sums(TheSums(f, U), f, U)
  BY <1>1
<1> DEFINE rest(s) == s \ {Pick(s)}
           h == [s \in SUBSET T |-> IF s = {} THEN 0
                                    ELSE f[Pick(s)] + TheSums(f, rest(s))[rest(s)]]
<1>3. \A s \in SUBSET T : s # {} => rest(s) \in SUBSET T /\ rest(s) # T /\ rest(s) \subseteq s
  BY DEF Pick
<1>4. ASSUME NEW s \in SUBSET T, s # {}
      PROVE  h[rest(s)] = TheSums(f, rest(s))[rest(s)]
  <2> DEFINE r == rest(s)
  <2>1. Sums(TheSums(f, r), f, r) /\ r \in SUBSET T /\ r # T
    BY <1>2, <1>3, <1>4
  <2>2. CASE r = {}
    BY <2>1, <2>2 DEF Sums
  <2>3. CASE r # {}
    <3> DEFINE q == rest(r)
    <3>1. q \subseteq r /\ q \in SUBSET T /\ q # T
      BY <1>3, <2>1, <2>3
    <3>2. Sums(TheSums(f, q), f, q)
      BY <1>2, <3>1
    <3>3. IsFiniteSet(r)
      BY <2>1, FS_Subset
    <3>4. TheSums(f, r)[q] = TheSums(f, q)[q]
      <4> HIDE DEF q, r
      <4>1. q \in (SUBSET r) \cap (SUBSET q)
        BY <3>1
      <4> QED
        BY <2>1, <3>2, <3>3, <4>1, SumsAgree
    <3>5. TheSums(f, r)[r] = f[Pick(r)] + TheSums(f, r)[q]
      BY <2>1, <2>3 DEF Sums
    <3>6. h[r] = f[Pick(r)] + TheSums(f, q)[q]
      BY <2>1, <2>3
    <3> QED
      BY <3>4, <3>5, <3>6
  <2> QED
    BY <2>2, <2>3
<1>5. Sums(h, f, T)
  <2>1. h = [s \in SUBSET T |-> IF s = {} THEN 0 ELSE f[Pick(s)] + h[s \ {Pick(s)}]]
    BY <1>4
  <2> QED
    BY <2>1 DEF Sums
<1>6. Sums(TheSums(f, T), f, T)
  BY <1>5 DEF TheSums
<1> QED
  BY <1>1, <1>6

\* A sum is one of its terms and the sum of the rest.
LEMMA SumUnfolds ==
    ASSUME NEW f, NEW S, IsFiniteSet(S)
    PROVE  /\ Sum(f, {}) = 0
           /\ S # {} => Pick(S) \in S /\ Sum(f, S) = f[Pick(S)] + Sum(f, S \ {Pick(S)})
<1> DEFINE R == S \ {Pick(S)}
<1>1. \A T \in SUBSET S : Sum(f, T) = TheSums(f, T)[T] /\ Sums(TheSums(f, T), f, T)
  BY SumIs, SumsExist DEF TheSums
<1>2. Sum(f, {}) = 0
  BY <1>1 DEF Sums
<1>3. ASSUME S # {}
      PROVE  Pick(S) \in S /\ Sum(f, S) = f[Pick(S)] + Sum(f, R)
  <2>1. Pick(S) \in S
    BY <1>3 DEF Pick
  <2>2. Sum(f, S) = f[Pick(S)] + TheSums(f, S)[R]
    BY <1>1, <1>3 DEF Sums
  <2>3. TheSums(f, S)[R] = TheSums(f, R)[R]
    <3>1. R \in SUBSET S /\ R \in (SUBSET S) \cap (SUBSET R) /\ S \in SUBSET S
      OBVIOUS
    <3> HIDE DEF R
    <3> QED
      BY <1>1, <3>1, SumsAgree
  <2> QED
    BY <1>1, <2>1, <2>2, <2>3
<1> QED
  BY <1>2, <1>3

-----------------------------------------------------------------------------
(* What every sum satisfies.                                               *)

\* A sum of integers is an integer.
LEMMA SumType ==
    ASSUME NEW S, IsFiniteSet(S), NEW f, \A x \in S : f[x] \in Int
    PROVE  \A T \in SUBSET S : Sum(f, T) \in Int
<1> DEFINE D == {T \in SUBSET S : Sum(f, T) \notin Int}
<1> SUFFICES ASSUME D # {} PROVE FALSE
  OBVIOUS
<1>0. D \subseteq SUBSET S
  OBVIOUS
<1>1. PICK T \in D : \A U \in D : U \subseteq T => U = T
  <2> HIDE DEF D
  <2> QED
    BY <1>0, SmallestSubset
<1>2. IsFiniteSet(T)
  BY <1>1, FS_Subset
<1>3. T # {}
  <2>1. Sum(f, {}) = 0
    BY <1>2, SumUnfolds
  <2>2. Sum(f, T) \notin Int
    BY <1>1
  <2> HIDE DEF D
  <2> QED
    BY <2>1, <2>2
<1>4. Pick(T) \in T /\ Sum(f, T) = f[Pick(T)] + Sum(f, T \ {Pick(T)})
  BY <1>2, <1>3, SumUnfolds
<1>5. Sum(f, T \ {Pick(T)}) \in Int
  BY <1>1, <1>4
<1> QED
  BY <1>1, <1>4, <1>5

\* Any term may be taken out of a sum.
LEMMA SumRemove ==
    ASSUME NEW S, IsFiniteSet(S), NEW f, \A x \in S : f[x] \in Int
    PROVE  \A T \in SUBSET S : \A x \in T : Sum(f, T) = f[x] + Sum(f, T \ {x})
<1> DEFINE D == {T \in SUBSET S : \E x \in T : Sum(f, T) # f[x] + Sum(f, T \ {x})}
<1> SUFFICES ASSUME D # {} PROVE FALSE
  OBVIOUS
<1>0. D \subseteq SUBSET S
  OBVIOUS
<1>1. PICK T \in D : \A U \in D : U \subseteq T => U = T
  <2> HIDE DEF D
  <2> QED
    BY <1>0, SmallestSubset
<1>2. PICK x \in T : Sum(f, T) # f[x] + Sum(f, T \ {x})
  BY <1>1
<1> DEFINE p == Pick(T)
           R == (T \ {x}) \ {p}
<1>3. p \in T /\ Sum(f, T) = f[p] + Sum(f, T \ {p})
  BY <1>1, FS_Subset, SumUnfolds
<1>4. x # p
  BY <1>2, <1>3
<1>5. Sum(f, T \ {p}) = f[x] + Sum(f, R)
  <2>1. T \ {p} \notin D /\ T \ {p} \in SUBSET S /\ x \in T \ {p} /\ (T \ {p}) \ {x} = R
    BY <1>1, <1>3, <1>4
  <2> QED
    BY <2>1
<1>6. Sum(f, T \ {x}) = f[p] + Sum(f, R)
  <2>1. T \ {x} \notin D /\ T \ {x} \in SUBSET S /\ p \in T \ {x}
    BY <1>1, <1>3, <1>4
  <2> QED
    BY <2>1
<1>7. f[p] \in Int /\ f[x] \in Int /\ Sum(f, R) \in Int
  BY <1>1, <1>3, SumType
<1> QED
  BY <1>2, <1>3, <1>5, <1>6, <1>7

\* The difference of two sums is the sum of the differences.
LEMMA SumMinus ==
    ASSUME NEW S, IsFiniteSet(S), NEW f, NEW g, NEW h,
           \A x \in S : f[x] \in Int /\ g[x] \in Int /\ h[x] = f[x] - g[x]
    PROVE  Sum(h, S) = Sum(f, S) - Sum(g, S)
<1> DEFINE Right(T) == Sum(h, T) = Sum(f, T) - Sum(g, T)
           D == {T \in SUBSET S : ~Right(T)}
<1>i. \A x \in S : h[x] \in Int
  OBVIOUS
<1> SUFFICES ASSUME D # {} PROVE FALSE
  OBVIOUS
<1>0. D \subseteq SUBSET S
  OBVIOUS
<1>1. PICK T \in D : \A U \in D : U \subseteq T => U = T
  <2> HIDE DEF D
  <2> QED
    BY <1>0, SmallestSubset
<1>2. T # {}
  <2>1. Sum(f, {}) = 0 /\ Sum(g, {}) = 0 /\ Sum(h, {}) = 0
    BY FS_EmptySet, SumUnfolds
  <2>2. Right({})
    BY <2>1
  <2>3. ~Right(T)
    BY <1>1
  <2> HIDE DEF D, Right
  <2> QED
    BY <2>2, <2>3
<1>3. PICK x \in T : TRUE
  BY <1>2
<1> DEFINE R == T \ {x}
<1>4. R \notin D /\ R \in SUBSET S
  BY <1>1, <1>3
<1>5. Sum(h, R) = Sum(f, R) - Sum(g, R)
  BY <1>4
<1>6. Sum(f, T) = f[x] + Sum(f, R) /\ Sum(f, R) \in Int
  BY <1>1, <1>4, SumRemove, SumType
<1>7. Sum(g, T) = g[x] + Sum(g, R) /\ Sum(g, R) \in Int
  BY <1>1, <1>4, SumRemove, SumType
<1>8. Sum(h, T) = h[x] + Sum(h, R)
  BY <1>i, <1>1, <1>4, SumRemove
<1>9. f[x] \in Int /\ g[x] \in Int /\ h[x] = f[x] - g[x]
  BY <1>1
<1>10. Sum(h, T) # Sum(f, T) - Sum(g, T)
  BY <1>1
<1> HIDE DEF D, R
<1> QED
  BY <1>5, <1>6, <1>7, <1>8, <1>9, <1>10

\* A sum of natural numbers is one, and is zero if they all are.
LEMMA SumOfNaturals ==
    ASSUME NEW S, IsFiniteSet(S), NEW f, \A x \in S : f[x] \in Nat
    PROVE  Sum(f, S) \in Nat /\ (Sum(f, S) = 0 <=> \A x \in S : f[x] = 0)
<1> DEFINE Right(T) == Sum(f, T) \in Nat /\ (Sum(f, T) = 0 <=> \A x \in T : f[x] = 0)
           D == {T \in SUBSET S : ~Right(T)}
<1>i. \A x \in S : f[x] \in Int
  OBVIOUS
<1> SUFFICES ASSUME D # {} PROVE FALSE
  OBVIOUS
<1>0. D \subseteq SUBSET S
  OBVIOUS
<1>1. PICK T \in D : \A U \in D : U \subseteq T => U = T
  <2> HIDE DEF D
  <2> QED
    BY <1>0, SmallestSubset
<1>2. T # {}
  <2>1. Sum(f, {}) = 0
    BY FS_EmptySet, SumUnfolds
  <2>2. Right({})
    BY <2>1
  <2>3. ~Right(T)
    BY <1>1
  <2> HIDE DEF D, Right
  <2> QED
    BY <2>2, <2>3
<1>3. PICK x \in T : TRUE
  BY <1>2
<1> DEFINE R == T \ {x}
<1>4. R \notin D /\ R \in SUBSET S
  BY <1>1, <1>3
<1>5. Right(R)
  BY <1>4
<1>6. Sum(f, T) = f[x] + Sum(f, R)
  BY <1>i, <1>1, SumRemove
<1>7. f[x] \in Nat
  BY <1>1
<1>8. Sum(f, T) \in Nat
  BY <1>5, <1>6, <1>7
<1>9. Sum(f, T) = 0 <=> f[x] = 0 /\ Sum(f, R) = 0
  BY <1>5, <1>6, <1>7
<1>10. (\A y \in T : f[y] = 0) <=> f[x] = 0 /\ \A y \in R : f[y] = 0
  OBVIOUS
<1>11. Right(T)
  BY <1>5, <1>8, <1>9, <1>10
<1>12. ~Right(T)
  BY <1>1
<1> QED
  BY <1>11, <1>12, Zenon

\* Smaller terms have a smaller sum, and the same sum only if they are the same.
LEMMA SumMonotone ==
    ASSUME NEW S, IsFiniteSet(S), NEW f, NEW g,
           \A x \in S : f[x] \in Int /\ g[x] \in Int /\ f[x] <= g[x]
    PROVE  /\ Sum(f, S) \in Int /\ Sum(g, S) \in Int /\ Sum(f, S) <= Sum(g, S)
           /\ Sum(f, S) = Sum(g, S) => \A x \in S : f[x] = g[x]
           /\ (\A x \in S : f[x] = g[x]) => Sum(f, S) = Sum(g, S)
<1> DEFINE h == [x \in S |-> g[x] - f[x]]
<1>1. \A x \in S : g[x] \in Int /\ f[x] \in Int /\ h[x] = g[x] - f[x] /\ h[x] \in Nat
  OBVIOUS
<1> HIDE DEF h
<1>2. Sum(h, S) = Sum(g, S) - Sum(f, S)
  BY <1>1, SumMinus
<1>3. Sum(h, S) \in Nat /\ (Sum(h, S) = 0 <=> \A x \in S : h[x] = 0)
  BY <1>1, SumOfNaturals
<1>4. Sum(f, S) \in Int /\ Sum(g, S) \in Int
  <2>1. S \in SUBSET S /\ (\A x \in S : f[x] \in Int) /\ (\A x \in S : g[x] \in Int)
    OBVIOUS
  <2> QED
    BY <2>1, SumType
<1>5. (\A x \in S : h[x] = 0) <=> \A x \in S : f[x] = g[x]
  BY <1>1
<1> QED
  BY <1>2, <1>3, <1>4, <1>5

\* Adding a term to a sum.
LEMMA SumAdd ==
    ASSUME NEW S, IsFiniteSet(S), NEW x, x \notin S, NEW f, NEW g,
           \A y \in S : f[y] \in Int /\ g[y] = f[y], g[x] \in Int
    PROVE  Sum(g, S \cup {x}) = g[x] + Sum(f, S)
<1> DEFINE T == S \cup {x}
<1>1. IsFiniteSet(T) /\ T \in SUBSET T /\ x \in T /\ T \ {x} = S
      /\ \A y \in T : g[y] \in Int
  BY FS_AddElement
<1>2. Sum(g, T) = g[x] + Sum(g, T \ {x})
  BY <1>1, SumRemove
<1>3. Sum(g, S) = Sum(f, S)
  <2>1. \A y \in S : g[y] \in Int /\ f[y] \in Int /\ f[y] <= g[y]
    OBVIOUS
  <2> QED
    BY <2>1, SumMonotone
<1> QED
  BY <1>1, <1>2, <1>3

-----------------------------------------------------------------------------
(* The amounts of a visit.                                                 *)

LEMMA TotalIsSum == \A f : Total(f) = Sum(f, Orders)
BY DEF Total, Sum

\* The debt of every order, and the amount that visitForIssue proposes: it is
\* what the orders lack together.
Debts == [o \in Orders |-> Debt(o)]

LEMMA Proposed ==
    ASSUME TypeOK
    PROVE  RemainingToPay \in Int /\ RemainingToPay = Total(Debts)
<1>1. \A o \in Orders : /\ rentPrice[o] \in Int /\ prepayment[o] \in Int
                        /\ Debts[o] = rentPrice[o] - prepayment[o]
  BY DEF TypeOK, Debts, Debt
<1>2. Sum(Debts, Orders) = Sum(rentPrice, Orders) - Sum(prepayment, Orders)
  BY <1>1, SumMinus, PaymentConstants
<1>3. Sum(rentPrice, Orders) \in Int /\ Sum(prepayment, Orders) \in Int
  <2>1. Orders \in SUBSET Orders
    OBVIOUS
  <2>2. (\A o \in Orders : rentPrice[o] \in Int) /\ (\A o \in Orders : prepayment[o] \in Int)
    BY <1>1
  <2> QED
    BY <2>1, <2>2, SumType, PaymentConstants
<1> QED
  BY <1>2, <1>3, TotalIsSum DEF RemainingToPay

LEMMA InitTypeOK == Init => TypeOK
<1> SUFFICES ASSUME Init PROVE TypeOK
  OBVIOUS
<1>1. rentPrice \in [Orders -> Nat] /\ prepayment \in [Orders -> Nat]
  BY PaymentConstants DEF Init
<1>2. \A o \in Orders : Debt(o) >= 0
  BY <1>1 DEF Init, Debt
<1>3. finalPayment \in [Orders -> Int \cup {Null}] /\ additionalPayment = Null /\ tx = NoTx
  BY DEF Init, Unpaid
<1> QED
  BY <1>1, <1>2, <1>3 DEF TypeOK

\* The prices never change, and with them no debt.
LEMMA DebtsFixed == [Next]_vars => UNCHANGED <<rentPrice, prepayment>>
BY DEF Next, vars, BeginIssue, PayOrder, CommitIssue, FailIssue, Unissue

LEMMA PaymentBounds ==
    ASSUME TypeOK, NEW o \in Orders, NEW r \in Int
    PROVE  /\ PaymentFor(o, r) \in Int
           /\ Debt(o) \in Nat
           /\ PaymentFor(o, r) <= r /\ PaymentFor(o, r) <= Debt(o)
           /\ PaymentFor(o, r) = r \/ PaymentFor(o, r) = Debt(o)
           /\ r >= 0 => PaymentFor(o, r) >= 0
BY DEF TypeOK, Debt, PaymentFor, Lesser

\* What one turn of the loop does to the transaction.
LEMMA TurnTyped ==
    ASSUME TypeOK, NEW o \in Orders, PayOrder(o)
    PROVE  /\ tx \in Tx /\ tx' \in Tx
           /\ o \in tx.todo /\ tx'.todo = tx.todo \ {o}
           /\ tx'.given = tx.given
           /\ tx'.remaining = tx.remaining - PaymentFor(o, tx.remaining)
           /\ tx'.split = [tx.split EXCEPT ![o] = PaymentFor(o, tx.remaining)]
<1>1. tx \in Tx /\ tx' = AfterPaying(tx, o) /\ o \in tx.todo
  BY DEF PayOrder, TypeOK
<1>2. PaymentFor(o, tx.remaining) \in Int
  BY <1>1, PaymentBounds DEF Tx
<1>3. [tx.split EXCEPT ![o] = PaymentFor(o, tx.remaining)] \in [Orders -> Int \cup {Null}]
  BY <1>1, <1>2 DEF Tx
<1>4. /\ tx'.todo = tx.todo \ {o}
      /\ tx'.given = tx.given
      /\ tx'.remaining = tx.remaining - PaymentFor(o, tx.remaining)
      /\ tx'.split = [tx.split EXCEPT ![o] = PaymentFor(o, tx.remaining)]
  BY <1>1 DEF AfterPaying, Tx
<1>5. tx'.remaining \in Int /\ tx'.split \in [Orders -> Int \cup {Null}]
  BY <1>1, <1>2, <1>3, <1>4 DEF Tx
<1>6. tx' = [given |-> tx.given, remaining |-> tx'.remaining, split |-> tx'.split,
             todo |-> tx.todo \ {o}]
  BY <1>1, <1>4 DEF AfterPaying, Tx
<1>7. tx' \in Tx
  BY <1>1, <1>5, <1>6 DEF Tx
<1> QED
  BY <1>1, <1>4, <1>7

LEMMA NextTypeOK ==
    ASSUME TypeOK, [Next]_vars
    PROVE  TypeOK'
<1>1. \A o \in Orders : Debt(o)' >= 0
  BY DebtsFixed DEF TypeOK, Debt
<1>2. finalPayment' \in [Orders -> Int \cup {Null}] /\ additionalPayment' \in Int \cup {Null}
      /\ tx' \in Tx \cup {NoTx}
  <2>1. ASSUME NEW a \in Amounts, BeginIssue(a)
        PROVE  tx' \in Tx
    BY <2>1, PaymentConstants DEF BeginIssue, Tx, Unpaid
  <2>2. ASSUME BeginIssue(RemainingToPay) PROVE tx' \in Tx
    <3>1. RemainingToPay \in Int
      BY Proposed
    <3> QED
      BY <2>2, <3>1 DEF BeginIssue, Tx, Unpaid
  <2>3. ASSUME NEW o \in Orders, PayOrder(o) PROVE tx' \in Tx
    BY <2>3, TurnTyped
  <2>4. CASE CommitIssue
    BY <2>4 DEF CommitIssue, TypeOK, Tx
  <2>5. CASE Unissue \/ FailIssue \/ UNCHANGED vars
    BY <2>5 DEF Unissue, FailIssue, vars, Unpaid, TypeOK
  <2>6. CASE UNCHANGED <<finalPayment, additionalPayment>> /\ tx' \in Tx
    BY <2>6 DEF TypeOK
  <2> QED
    BY <2>1, <2>2, <2>3, <2>4, <2>5, <2>6 DEF Next, BeginIssue, PayOrder
<1> QED
  BY <1>1, <1>2, DebtsFixed DEF TypeOK

\* The payments f of the orders S are within their debts, and of two orders
\* left with a debt one got nothing.
Spread(f, S) ==
    /\ \A o \in S : f[o] \in 0..Debt(o)
    /\ \A o, p \in S : o # p /\ f[o] < Debt(o) /\ f[p] < Debt(p) => f[o] = 0 \/ f[p] = 0

Done == Orders \ tx.todo

\* While the amount lasts, the orders behind the loop lack nothing.
LoopInv == tx \in Tx /\ tx.given >= 0 =>
             /\ tx.remaining >= 0
             /\ Spread(tx.split, Done)
             /\ \A o \in Done : tx.split[o] < Debt(o) => tx.remaining = 0

\* What the loop has paid and what it has left are together the amount that was
\* given; while something is left, the orders behind the loop are settled.
LoopSums == tx \in Tx =>
              /\ \A o \in Done : tx.split[o] \in Int /\ tx.split[o] <= Debt(o)
              /\ Sum(tx.split, Done) + tx.remaining = tx.given
              /\ tx.remaining > 0 => \A o \in Done : tx.split[o] = Debt(o)
              /\ Done # {} => tx.remaining >= 0

\* Nobody issues a visit that is issued already.
OneIssue == tx \in Tx => additionalPayment = Null

Inv == TypeOK /\ LoopInv /\ LoopSums /\ OneIssue /\ NotScattered /\ SettledWhenEnough

LEMMA TurnKeepsLoopInv ==
    ASSUME Inv, NEW o \in Orders, PayOrder(o), UNCHANGED <<rentPrice, prepayment>>
    PROVE  LoopInv'
<1> DEFINE r == tx.remaining
           f == PaymentFor(o, r)
<1>1. /\ tx \in Tx /\ tx' \in Tx
      /\ o \in tx.todo /\ tx'.todo = tx.todo \ {o}
      /\ tx'.given = tx.given
      /\ tx'.remaining = r - f
      /\ tx'.split = [tx.split EXCEPT ![o] = f]
  BY TurnTyped DEF Inv
<1>2. r \in Int
  BY <1>1 DEF Tx
<1>3. /\ f \in Int /\ Debt(o) \in Nat
      /\ f <= r /\ f <= Debt(o)
      /\ f = r \/ f = Debt(o)
      /\ r >= 0 => f >= 0
  BY <1>2, PaymentBounds DEF Inv
<1>4. \A p \in Orders : Debt(p)' = Debt(p)
  BY DEF Debt
<1>5. Done' = Done \cup {o} /\ o \notin Done
  BY <1>1 DEF Done
<1>6. tx'.split[o] = f /\ \A p \in Done : tx'.split[p] = tx.split[p]
  BY <1>1, <1>5 DEF Tx, Done
<1> HIDE DEF f
<1> SUFFICES ASSUME tx.given >= 0
             PROVE  /\ tx'.remaining >= 0
                    /\ Spread(tx.split, Done)'
                    /\ \A p \in Done' : tx'.split[p] < Debt(p)' => tx'.remaining = 0
  BY <1>1 DEF LoopInv
<1>7. r >= 0 /\ Spread(tx.split, Done) /\ \A p \in Done : tx.split[p] < Debt(p) => r = 0
  BY <1>1 DEF Inv, LoopInv
<1>8. tx'.remaining >= 0
  BY <1>1, <1>2, <1>3
<1>9. \A p \in Done' : tx'.split[p] < Debt(p)' => tx'.remaining = 0
  BY <1>1, <1>2, <1>3, <1>4, <1>5, <1>6, <1>7 DEF Done
<1>10. \A p \in Done : tx.split[p] < Debt(p) => f = 0
  BY <1>2, <1>3, <1>7
<1>11. \A p \in Done' : tx'.split[p] \in 0..Debt(p)'
  BY <1>3, <1>4, <1>5, <1>6, <1>7 DEF Spread, Done
<1>12. \A p, q \in Done' :
          p # q /\ tx'.split[p] < Debt(p)' /\ tx'.split[q] < Debt(q)' =>
              tx'.split[p] = 0 \/ tx'.split[q] = 0
  BY <1>4, <1>5, <1>6, <1>7, <1>10 DEF Spread, Done
<1> QED
  BY <1>8, <1>9, <1>11, <1>12 DEF Spread

LEMMA BeginKeepsLoopSums ==
    ASSUME TypeOK, NEW a \in Int, BeginIssue(a)
    PROVE  LoopSums' /\ OneIssue'
<1>1. tx'.todo = Orders /\ tx'.given = a /\ tx'.remaining = a /\ additionalPayment' = Null
  BY DEF BeginIssue
<1>2. Done' = {}
  BY <1>1 DEF Done
<1>3. Sum(tx'.split, {}) = 0
  BY FS_EmptySet, SumUnfolds
<1>4. Sum(tx'.split, Done') + tx'.remaining = tx'.given
  BY <1>1, <1>2, <1>3
<1>5. LoopSums'
  BY <1>2, <1>4 DEF LoopSums
<1> QED
  BY <1>1, <1>5 DEF OneIssue

LEMMA TurnKeepsLoopSums ==
    ASSUME Inv, NEW o \in Orders, PayOrder(o), UNCHANGED <<rentPrice, prepayment>>
    PROVE  LoopSums' /\ OneIssue'
<1> DEFINE r == tx.remaining
           f == PaymentFor(o, r)
<1>1. /\ tx \in Tx /\ tx' \in Tx
      /\ o \in tx.todo /\ tx'.todo = tx.todo \ {o}
      /\ tx'.given = tx.given
      /\ tx'.remaining = r - f
      /\ tx'.split = [tx.split EXCEPT ![o] = f]
  BY TurnTyped DEF Inv
<1>2. r \in Int /\ tx.given \in Int
  BY <1>1 DEF Tx
<1>3. /\ f \in Int /\ Debt(o) \in Nat
      /\ f <= r /\ f <= Debt(o)
      /\ f = r \/ f = Debt(o)
  BY <1>2, PaymentBounds DEF Inv
<1>4. \A p \in Orders : Debt(p)' = Debt(p)
  BY DEF Debt
<1>5. Done' = Done \cup {o} /\ o \notin Done /\ Done \subseteq Orders
  BY <1>1 DEF Done
<1>6. tx'.split[o] = f /\ \A p \in Done : tx'.split[p] = tx.split[p]
  BY <1>1, <1>5 DEF Tx, Done
<1> HIDE DEF f, r
<1>7. /\ \A p \in Done : tx.split[p] \in Int /\ tx.split[p] <= Debt(p)
      /\ Sum(tx.split, Done) + r = tx.given
      /\ r > 0 => \A p \in Done : tx.split[p] = Debt(p)
  BY <1>1 DEF Inv, LoopSums, r
<1>8. IsFiniteSet(Done)
  BY <1>5, FS_Subset, PaymentConstants
<1>9. Sum(tx.split, Done) \in Int
  <2>1. Done \in SUBSET Done
    OBVIOUS
  <2> QED
    BY <1>7, <1>8, <2>1, SumType
<1>10. Sum(tx'.split, Done') = f + Sum(tx.split, Done)
  <2> DEFINE s == tx.split
             t == tx'.split
  <2>1. /\ \A p \in Done : s[p] \in Int /\ t[p] = s[p]
        /\ t[o] \in Int /\ t[o] = f
    BY <1>3, <1>6, <1>7
  <2> HIDE DEF s, t
  <2>2. Sum(t, Done \cup {o}) = t[o] + Sum(s, Done)
    BY <1>5, <1>8, <2>1, SumAdd
  <2> QED
    BY <1>5, <2>1, <2>2 DEF s, t
<1>11. Sum(tx'.split, Done') + tx'.remaining = tx'.given
  BY <1>1, <1>2, <1>3, <1>7, <1>9, <1>10
<1>12. \A p \in Done' : tx'.split[p] \in Int /\ tx'.split[p] <= Debt(p)'
  BY <1>3, <1>4, <1>5, <1>6, <1>7
<1>13. ASSUME tx'.remaining > 0, NEW p \in Done'
       PROVE  tx'.split[p] = Debt(p)'
  <2>1. f = Debt(o) /\ r > 0
    BY <1>1, <1>2, <1>3, <1>13
  <2> QED
    BY <1>4, <1>5, <1>6, <1>7, <2>1
<1>14. tx'.remaining >= 0
  BY <1>1, <1>2, <1>3
<1>15. LoopSums'
  BY <1>11, <1>12, <1>13, <1>14 DEF LoopSums
<1> QED
  BY <1>1, <1>15 DEF PayOrder, Inv, OneIssue

\* What is committed: no order got more than its debt, and together they got the
\* amount that was given or, when that is more, what they lacked.
LEMMA CommitDistributes ==
    ASSUME Inv, CommitIssue
    PROVE  /\ tx \in Tx /\ Done = Orders
           /\ finalPayment' = tx.split /\ additionalPayment' = tx.given /\ tx.given \in Int
           /\ Total(Debts) \in Int
           /\ \A o \in Orders : tx.split[o] \in Int /\ tx.split[o] <= Debt(o)
           /\ tx.given >= Total(Debts) => \A o \in Orders : tx.split[o] = Debt(o)
           /\ Orders # {} => Total(tx.split) = Lesser(tx.given, Total(Debts))
<1>1. tx \in Tx /\ Done = Orders
  BY DEF CommitIssue, Done, Inv, TypeOK
<1>2. finalPayment' = tx.split /\ additionalPayment' = tx.given
  BY DEF CommitIssue
<1>3. tx.given \in Int /\ tx.remaining \in Int
  BY <1>1 DEF Tx
<1>4. /\ \A o \in Orders : tx.split[o] \in Int /\ tx.split[o] <= Debt(o)
      /\ Total(tx.split) + tx.remaining = tx.given
      /\ tx.remaining > 0 => \A o \in Orders : tx.split[o] = Debt(o)
      /\ Orders # {} => tx.remaining >= 0
  BY <1>1, TotalIsSum DEF Inv, LoopSums
<1>5. \A o \in Orders : /\ tx.split[o] \in Int /\ Debts[o] \in Int /\ Debts[o] = Debt(o)
                        /\ tx.split[o] <= Debts[o]
  BY <1>4 DEF Debts, Debt, Inv, TypeOK
<1>6. /\ Total(tx.split) \in Int /\ Total(Debts) \in Int
      /\ Total(tx.split) <= Total(Debts)
      /\ Total(tx.split) = Total(Debts) => \A o \in Orders : tx.split[o] = Debts[o]
      /\ (\A o \in Orders : tx.split[o] = Debts[o]) => Total(tx.split) = Total(Debts)
  BY <1>5, SumMonotone, TotalIsSum, PaymentConstants
<1>7. ASSUME tx.given >= Total(Debts)
      PROVE  \A o \in Orders : tx.split[o] = Debt(o)
  <2>1. CASE tx.remaining > 0
    BY <1>4, <2>1
  <2>2. CASE ~(tx.remaining > 0)
    <3>1. Total(tx.split) = Total(Debts)
      BY <1>3, <1>4, <1>6, <1>7, <2>2
    <3> QED
      BY <1>5, <1>6, <3>1
  <2> QED
    BY <2>1, <2>2
<1>8. ASSUME Orders # {}
      PROVE  Total(tx.split) = Lesser(tx.given, Total(Debts))
  <2>1. CASE tx.remaining > 0
    <3>1. Total(tx.split) = Total(Debts)
      BY <1>4, <1>5, <1>6, <2>1
    <3>2. ~(tx.given < Total(Debts))
      BY <1>3, <1>4, <1>6, <2>1, <3>1
    <3> QED
      BY <3>1, <3>2 DEF Lesser
  <2>2. CASE tx.remaining = 0
    BY <1>3, <1>4, <1>6, <2>2 DEF Lesser
  <2> QED
    BY <1>3, <1>4, <1>8, <2>1, <2>2
<1> QED
  BY <1>1, <1>2, <1>3, <1>4, <1>6, <1>7, <1>8

LEMMA NextInv ==
    ASSUME Inv, [Next]_vars
    PROVE  Inv'
<1>1. TypeOK'
  BY NextTypeOK DEF Inv
<1>2. UNCHANGED <<rentPrice, prepayment>>
  BY DebtsFixed
<1>3. \A o \in Orders : Debt(o)' = Debt(o) /\ Debt(o) \in Nat
  BY <1>2 DEF Debt, Inv, TypeOK
<1>4. LoopInv'
  <2>1. ASSUME NEW a \in Amounts \cup {RemainingToPay}, BeginIssue(a) PROVE LoopInv'
    BY <2>1 DEF BeginIssue, LoopInv, Done, Spread
  <2>2. ASSUME NEW o \in Orders, PayOrder(o) PROVE LoopInv'
    BY <1>2, <2>2, TurnKeepsLoopInv
  <2>3. CASE CommitIssue \/ FailIssue
    BY <2>3 DEF CommitIssue, FailIssue, NoTx, LoopInv, Tx
  <2>4. CASE UNCHANGED tx
    BY <1>3, <2>4 DEF Inv, LoopInv, Done, Spread
  <2> QED
    BY <2>1, <2>2, <2>3, <2>4 DEF Next, vars, Unissue
<1>5. NotScattered'
  <2>1. CASE CommitIssue
    <3>1. tx \in Tx /\ Done = Orders
      BY <2>1 DEF CommitIssue, Done, Inv, TypeOK
    <3>2. finalPayment' = tx.split /\ additionalPayment' = tx.given
      BY <2>1 DEF CommitIssue
    <3> QED
      BY <1>3, <3>1, <3>2 DEF Inv, LoopInv, Spread, NotScattered
  <2>2. CASE Unissue
    BY <2>2 DEF Unissue, NotScattered
  <2>3. CASE UNCHANGED <<finalPayment, additionalPayment>>
    BY <1>3, <2>3 DEF Inv, NotScattered
  <2> QED
    BY <2>1, <2>2, <2>3 DEF Next, vars, BeginIssue, PayOrder, FailIssue
<1>6. LoopSums' /\ OneIssue'
  <2>1. ASSUME NEW a \in Amounts \cup {RemainingToPay}, BeginIssue(a)
        PROVE  LoopSums' /\ OneIssue'
    <3>1. a \in Int
      BY Proposed, PaymentConstants DEF Inv
    <3> QED
      BY <2>1, <3>1, BeginKeepsLoopSums DEF Inv
  <2>2. ASSUME NEW o \in Orders, PayOrder(o) PROVE LoopSums' /\ OneIssue'
    BY <1>2, <2>2, TurnKeepsLoopSums
  <2>3. CASE CommitIssue \/ FailIssue \/ Unissue
    BY <2>3 DEF CommitIssue, FailIssue, Unissue, NoTx, LoopSums, OneIssue, Tx
  <2>4. CASE UNCHANGED vars
    BY <1>3, <2>4 DEF vars, Inv, LoopSums, OneIssue, Done
  <2> QED
    BY <2>1, <2>2, <2>3, <2>4 DEF Next
<1>7. SettledWhenEnough'
  <2>1. RemainingToPay' = RemainingToPay /\ RemainingToPay = Total(Debts)
    BY <1>2, Proposed DEF RemainingToPay, Inv
  <2>2. CASE CommitIssue
    BY <1>3, <2>1, <2>2, CommitDistributes DEF SettledWhenEnough
  <2>3. CASE Unissue
    BY <2>3 DEF Unissue, SettledWhenEnough
  <2>4. CASE UNCHANGED <<finalPayment, additionalPayment>>
    BY <1>3, <2>1, <2>4 DEF Inv, SettledWhenEnough
  <2> QED
    BY <2>2, <2>3, <2>4 DEF Next, vars, BeginIssue, PayOrder, FailIssue
<1> QED
  BY <1>1, <1>4, <1>5, <1>6, <1>7 DEF Inv

LEMMA AlwaysInv == Spec => []Inv
<1>1. Init => Inv
  <2> SUFFICES ASSUME Init
               PROVE  LoopInv /\ LoopSums /\ OneIssue /\ NotScattered /\ SettledWhenEnough
    BY InitTypeOK DEF Inv
  <2> QED
    BY DEF Init, LoopInv, LoopSums, OneIssue, NotScattered, SettledWhenEnough, NoTx, Tx
<1>2. Inv /\ [Next]_vars => Inv'
  BY NextInv
<1> QED
  BY <1>1, <1>2, PTL DEF Spec

\* Prices, payments and the transaction of the issue have the declared types;
\* no debt is negative.
THEOREM PaymentTypeCorrect == Spec => []TypeOK
<1>1. Inv => TypeOK
  BY DEF Inv
<1> QED
  BY <1>1, AlwaysInv, PTL

\* visitIssue charges no order more than it lacks and leaves at most one
\* order paid in part, in whatever order the rows come.
THEOREM NeverScattered == Spec => []NotScattered
<1>1. Inv => NotScattered
  BY DEF Inv
<1> QED
  BY <1>1, AlwaysInv, PTL

\* The amount that the modal proposes, or any greater one, settles every order to
\* the last unit.
THEOREM AlwaysSettled == Spec => []SettledWhenEnough
<1>1. Inv => SettledWhenEnough
  BY DEF Inv
<1> QED
  BY <1>1, AlwaysInv, PTL

LEMMA StepImplementsContract ==
    ASSUME Orders # {}, Inv, [Next]_vars
    PROVE  [Contract!Next]_(Contract!vars)
<1>1. Debts' = Debts
  BY DebtsFixed DEF Debts, Debt
<1>2. CASE CommitIssue
  <2>1. /\ additionalPayment = Null /\ additionalPayment' # Null
        /\ additionalPayment' = tx.given /\ finalPayment' = tx.split
    BY <1>2, CommitDistributes, PaymentConstants DEF Inv, OneIssue
  <2>2. \A o \in Orders : tx.split[o] <= Debts[o] /\ (tx.given >= 0 => tx.split[o] >= 0)
    BY <1>2, CommitDistributes DEF Inv, LoopInv, Spread, Debts, Debt, TypeOK
  <2>3. Contract!Total(tx.split) = Contract!Lesser(tx.given, Contract!Total(Debts))
    <3>1. \A f : Contract!Total(f) = Total(f)
      BY DEF Total, MapThenSumSet, MapThenFoldSet,
             Contract!Total, Contract!MapThenSumSet, Contract!MapThenFoldSet
    <3>2. \A a, b : Contract!Lesser(a, b) = Lesser(a, b)
      BY DEF Lesser, Contract!Lesser
    <3> QED
      BY <1>2, <3>1, <3>2, CommitDistributes
  <2>4. Contract!Settle(additionalPayment', finalPayment')
    BY <1>1, <2>1, <2>2, <2>3 DEF Contract!Settle, Debts
  <2> QED
    BY <2>4 DEF Contract!Next
<1>3. CASE Unissue
  BY <1>1, <1>3 DEF Unissue, Contract!Next, Contract!Forget, Unpaid, Debts
<1>4. CASE UNCHANGED <<finalPayment, additionalPayment>>
  BY <1>1, <1>4 DEF Contract!vars, Debts
<1> QED
  BY <1>2, <1>3, <1>4 DEF Next, vars, BeginIssue, PayOrder, FailIssue

\* The loop over the orders of a visit, turn by turn and with failures, is one
\* distribution of the amount.  (The booking page keeps at least one order: without
\* any, a negative amount goes nowhere.)
THEOREM LoopImplementsContract == ASSUME Orders # {} PROVE Spec => ImplementsContract
<1>1. Init => Contract!Init
  <2> SUFFICES ASSUME Init PROVE Contract!Init
    OBVIOUS
  <2>1. TypeOK
    BY InitTypeOK
  <2>2. Debts \in [Orders -> Nat]
    BY <2>1 DEF TypeOK, Debts, Debt
  <2> QED
    BY <2>2 DEF Init, Contract!Init, Unpaid, Debts
<1>2. Inv /\ [Next]_vars => [Contract!Next]_(Contract!vars)
  BY StepImplementsContract
<1> QED
  BY <1>1, <1>2, AlwaysInv, PTL DEF Spec, ImplementsContract, Contract!Spec
=============================================================================
