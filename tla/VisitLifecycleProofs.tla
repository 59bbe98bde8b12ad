------------------------ MODULE VisitLifecycleProofs ------------------------
(***************************************************************************)
(* Proofs about VisitLifecycle for every set of visits, orders, deposit    *)
(* types and concurrent requests, and every bound on deposit ids; and what *)
(* holds in addition when the desk serves one request at a time: the       *)
(* checks the handlers make are then checks of the rows they write.        *)
(***************************************************************************)
EXTENDS VisitLifecycle, TLAPS

(* The steps that write no row: the invariants about rows survive them.    *)
LEMMA InitTypeOK == Init => TypeOK
BY ConstantsOK DEF Init, TypeOK, TagStatus

\* Marking a deposit as returned keeps the deposits table typed.
LEMMA ReturnDepositType ==
    ASSUME deposit \in [Visits -> DepositRow \cup {NoDeposit}],
           NEW v \in Visits, ReturnDeposit(v)
    PROVE  deposit' \in [Visits -> DepositRow \cup {NoDeposit}]
<1>1. deposit[v] \in DepositRow
  BY DEF ReturnDeposit
<1>2. [deposit[v] EXCEPT !.returned = TRUE] \in DepositRow
  BY <1>1 DEF DepositRow
<1> QED
  BY <1>2 DEF ReturnDeposit

LEMMA NextTypeOK == TypeOK /\ [Next]_vars => TypeOK'
<1> SUFFICES ASSUME TypeOK, [Next]_vars PROVE TypeOK'
  OBVIOUS
<1> USE ConstantsOK DEF TypeOK, rows, VisitStatus, OrderStatus, TagStatus
<1>1. ASSUME NEW v \in Visits, CreateVisit(v) PROVE TypeOK'
  BY <1>1 DEF CreateVisit, MoveVisit
<1>2. ASSUME NEW o \in Orders, MarkTagWritten(o) PROVE TypeOK'
  BY <1>2 DEF MarkTagWritten
<1>3. ASSUME NEW r \in Requests, NEW op \in Handlers, NEW v \in Visits, Begin(r, op, v)
      PROVE  TypeOK'
  BY <1>3 DEF Begin, Included, Handlers, Handling, Relations
<1>4. ASSUME NEW r \in Requests, ReadOrders(r) PROVE TypeOK'
  <2>1. req[r] \in Handling
    BY <1>4 DEF ReadOrders
  <2>2. AllOrdersIssued(req[r].visit) \in BOOLEAN
    BY DEF AllOrdersIssued
  <2>3. WithOrders(req[r]) \in Handling
    BY <2>1, <2>2 DEF WithOrders, Handling
  <2> QED
    BY <1>4, <2>3 DEF ReadOrders
<1>5. ASSUME NEW r \in Requests, ReadDeposit(r) PROVE TypeOK'
  <2>1. req[r] \in Handling
    BY <1>5 DEF ReadDeposit
  <2>2. deposit[req[r].visit].id \in 0..MaxDeposits
    BY <2>1 DEF NoDeposit, Handling, DepositRow
  <2>3. WithDeposit(req[r]) \in Handling
    BY <2>1, <2>2 DEF WithDeposit, Handling
  <2> QED
    BY <1>5, <2>3 DEF ReadDeposit
<1>6. ASSUME NEW r \in Requests, Issue(r) PROVE TypeOK'
  <2>1. req[r] \in Handling
    BY <1>6 DEF Issue, Ready
  <2>2. nextDepositId \in 1..MaxDeposits /\ nextDepositId' \in 1..(MaxDeposits + 1)
    BY <1>6 DEF Issue
  <2>3. ASSUME NEW t \in DepositTypes
        PROVE  [id |-> nextDepositId, type |-> t, returned |-> FALSE] \in DepositRow
    BY <2>2 DEF DepositRow
  <2>4. deposit' \in [Visits -> DepositRow \cup {NoDeposit}]
    BY <1>6, <2>3 DEF Issue, InsertDeposit
  <2>5. visitNotes' \in [Visits -> SUBSET NoteEntries]
    BY <1>6, <2>1 DEF Issue, Handling, NoteEntries
  <2> QED
    BY <1>6, <2>2, <2>4, <2>5 DEF Issue, MoveVisit, SetPayments, Finish
<1>7. ASSUME NEW r \in Requests, Unissue(r) PROVE TypeOK'
  BY <1>7 DEF Unissue, Ready, MoveVisit, SetPayments, DeleteDeposit, Finish
<1>8. ASSUME NEW r \in Requests, CompleteReturn(r) PROVE TypeOK'
  <2>1. req[r] \in Handling
    BY <1>8 DEF CompleteReturn, Ready
  <2>2. deposit' \in [Visits -> DepositRow \cup {NoDeposit}]
    BY <1>8, <2>1, ReturnDepositType DEF CompleteReturn, Handling
  <2>3. visitNotes' \in [Visits -> SUBSET NoteEntries]
    BY <1>8, <2>1 DEF CompleteReturn, AppendNote, Handling, NoteEntries
  <2> QED
    BY <1>8, <2>2, <2>3 DEF CompleteReturn, MoveVisit, Finish
<1>9. ASSUME NEW r \in Requests, Cancel(r) PROVE TypeOK'
  BY <1>9 DEF Cancel, Ready, MoveVisit, AppendNote, Finish, NoteEntries, Handling
<1>10. ASSUME NEW r \in Requests, MarkDepositReturned(r) PROVE TypeOK'
  <2>1. req[r] \in Handling
    BY <1>10 DEF MarkDepositReturned, Ready
  <2>2. deposit' \in [Visits -> DepositRow \cup {NoDeposit}]
    BY <1>10, <2>1, ReturnDepositType DEF MarkDepositReturned, Handling
  <2>3. visitNotes' \in [Visits -> SUBSET NoteEntries]
    BY <1>10, <2>1 DEF MarkDepositReturned, Handling, NoteEntries
  <2> QED
    BY <1>10, <2>2, <2>3 DEF MarkDepositReturned, Finish
<1>11. ASSUME NEW r \in Requests, Fail(r) PROVE TypeOK'
  BY <1>11 DEF Fail, Finish
<1>12. CASE UNCHANGED vars
  BY <1>12 DEF vars
<1> QED
  BY <1>1, <1>2, <1>3, <1>4, <1>5, <1>6, <1>7, <1>8, <1>9, <1>10, <1>11, <1>12 DEF Next

(* Every row and every request in progress keeps its type.                 *)
THEOREM TypeCorrect == Spec => []TypeOK
BY InitTypeOK, NextTypeOK, PTL DEF Spec

-----------------------------------------------------------------------------
(* The visits table and the orders table agree.                            *)

\* MoveVisit is the only way a status is written, and it writes both tables.
LEMMA MoveVisitFollows ==
    ASSUME TypeOK, OrdersFollowVisit, NEW v \in Visits,
           NEW s \in VisitStatus, MoveVisit(v, s, OrderStatusUnder[s])
    PROVE  OrdersFollowVisit'
BY ConstantsOK DEF TypeOK, OrdersFollowVisit, MoveVisit

LEMMA NextOrdersFollowVisit ==
    TypeOK /\ OrdersFollowVisit /\ [Next]_vars => OrdersFollowVisit'
<1> SUFFICES ASSUME TypeOK, OrdersFollowVisit, [Next]_vars PROVE OrdersFollowVisit'
  OBVIOUS
<1>1. ASSUME NEW v \in Visits, CreateVisit(v) PROVE OrdersFollowVisit'
  BY <1>1, MoveVisitFollows DEF CreateVisit, OrderStatusUnder, VisitStatus
<1>2. ASSUME NEW r \in Requests, Issue(r) PROVE OrdersFollowVisit'
  <2>1. req[r].visit \in Visits
    BY <1>2 DEF TypeOK, Issue, Ready, Handling
  <2> QED
    BY <1>2, <2>1, MoveVisitFollows DEF Issue, OrderStatusUnder, VisitStatus
<1>3. ASSUME NEW r \in Requests, Unissue(r) PROVE OrdersFollowVisit'
  <2>1. req[r].visit \in Visits
    BY <1>3 DEF TypeOK, Unissue, Ready, Handling
  <2> QED
    BY <1>3, <2>1, MoveVisitFollows DEF Unissue, OrderStatusUnder, VisitStatus
<1>4. ASSUME NEW r \in Requests, CompleteReturn(r) PROVE OrdersFollowVisit'
  <2>1. req[r].visit \in Visits
    BY <1>4 DEF TypeOK, CompleteReturn, Ready, Handling
  <2> QED
    BY <1>4, <2>1, MoveVisitFollows DEF CompleteReturn, OrderStatusUnder, VisitStatus
<1>5. ASSUME NEW r \in Requests, Cancel(r) PROVE OrdersFollowVisit'
  <2>1. req[r].visit \in Visits
    BY <1>5 DEF TypeOK, Cancel, Ready, Handling
  <2> QED
    BY <1>5, <2>1, MoveVisitFollows DEF Cancel, OrderStatusUnder, VisitStatus
<1>6. ASSUME UNCHANGED <<visitStatus, orderStatus>> PROVE OrdersFollowVisit'
  BY <1>6 DEF OrdersFollowVisit
<1> QED
  BY <1>1, <1>2, <1>3, <1>4, <1>5, <1>6
     DEF Next, vars, rows, MarkTagWritten, Begin, ReadOrders, ReadDeposit,
         MarkDepositReturned, Fail

\* However requests interleave, the orders of a visit have the status that
\* goes with the status of the visit.
THEOREM OrdersAlwaysFollow == Spec => []OrdersFollowVisit
<1>1. Init => OrdersFollowVisit
  BY ConstantsOK DEF Init, OrdersFollowVisit, OrderStatusUnder
<1> QED
  BY <1>1, TypeCorrect, NextOrdersFollowVisit, PTL DEF Spec

-----------------------------------------------------------------------------
(* Deposits and final payments.                                            *)

\* What marking a deposit as returned does to the table.
LEMMA ReturnDepositEffect ==
    ASSUME TypeOK, NEW v \in Visits, ReturnDeposit(v)
    PROVE  /\ deposit[v] # NoDeposit
           /\ deposit'[v] # NoDeposit
           /\ deposit' = [deposit EXCEPT ![v] = [deposit[v] EXCEPT !.returned = TRUE]]
<1>1. deposit[v] \in DepositRow /\ deposit \in [Visits -> DepositRow \cup {NoDeposit}]
  BY DEF ReturnDeposit, TypeOK
<1>2. [deposit[v] EXCEPT !.returned = TRUE].id \in 1..MaxDeposits
  BY <1>1 DEF DepositRow
<1>3. deposit' = [deposit EXCEPT ![v] = [deposit[v] EXCEPT !.returned = TRUE]]
  BY DEF ReturnDeposit
<1>4. deposit'[v] = [deposit[v] EXCEPT !.returned = TRUE]
  BY <1>1, <1>3
<1>5. deposit'[v].id # 0
  BY <1>2, <1>4, ConstantsOK DEF ConstantsOK
<1> QED
  BY <1>3, <1>5 DEF ReturnDeposit, NoDeposit

\* The inductive invariant behind both properties: a visit that is not yet
\* created is as clean as a reserved one.
Clean(v) == /\ deposit[v] = NoDeposit
            /\ \A o \in Orders : VisitOf[o] = v => finalPayment[o] = "null"
Backed == /\ IssuedIsBacked
          /\ \A v \in Visits : visitStatus[v] \in {"absent", "reserved"} => Clean(v)

LEMMA NextBacked == TypeOK /\ Backed /\ [Next]_vars => Backed'
<1> SUFFICES ASSUME TypeOK, Backed, [Next]_vars PROVE Backed'
  OBVIOUS
<1> USE ConstantsOK DEF Backed, IssuedIsBacked, Clean
<1>1. ASSUME NEW v \in Visits, CreateVisit(v) PROVE Backed'
  BY <1>1 DEF CreateVisit, MoveVisit, TypeOK
<1>2. ASSUME NEW r \in Requests, Issue(r) PROVE Backed'
  BY <1>2 DEF Issue, Ready, MoveVisit, SetPayments, InsertDeposit, TypeOK, Handling, NoDeposit
<1>3. ASSUME NEW r \in Requests, Unissue(r) PROVE Backed'
  BY <1>3 DEF Unissue, Ready, MoveVisit, SetPayments, DeleteDeposit, TypeOK, Handling
<1>4. ASSUME NEW r \in Requests, CompleteReturn(r) PROVE Backed'
  BY <1>4 DEF CompleteReturn, Ready, MoveVisit, ReturnDeposit, TypeOK, Handling
<1>5. ASSUME NEW r \in Requests, Cancel(r) PROVE Backed'
  BY <1>5 DEF Cancel, Ready, MoveVisit, TypeOK, Handling
<1>6. ASSUME NEW r \in Requests, MarkDepositReturned(r) PROVE Backed'
  <2>1. req[r].visit \in Visits
    BY <1>6 DEF TypeOK, MarkDepositReturned, Ready, Handling
  <2>2. \A w \in Visits : deposit[w] = NoDeposit <=> deposit'[w] = NoDeposit
    BY <1>6, <2>1, ReturnDepositEffect DEF MarkDepositReturned, TypeOK
  <2> QED
    BY <1>6, <2>2 DEF MarkDepositReturned
<1>7. ASSUME UNCHANGED <<visitStatus, deposit, finalPayment>> PROVE Backed'
  BY <1>7
<1> QED
  BY <1>1, <1>2, <1>3, <1>4, <1>5, <1>6, <1>7
     DEF Next, vars, rows, MarkTagWritten, Begin, ReadOrders, ReadDeposit, Fail

LEMMA AlwaysBacked == Spec => []Backed
<1>1. Init => Backed
  BY DEF Init, Backed, IssuedIsBacked, Clean
<1> QED
  BY <1>1, TypeCorrect, NextBacked, PTL DEF Spec

\* A visit that is out has a deposit and every final payment on record.
THEOREM IssuedAlwaysBacked == Spec => []IssuedIsBacked
BY AlwaysBacked, PTL DEF Backed

\* A reserved visit has no deposit and no final payment on record.
THEOREM ReservedAlwaysClean == Spec => []ReservedIsClean
<1>1. Backed => ReservedIsClean
  BY DEF Backed, ReservedIsClean, Clean
<1> QED
  BY <1>1, AlwaysBacked, PTL

\* A deposit on record is only marked as returned, or deleted by the step
\* that makes its visit reserved again.
THEOREM DepositsOnlyReturned == Spec => DepositOnlyReturned
<1>1. ASSUME TypeOK, [Next]_vars, NEW w \in Visits PROVE DepositStep(w)
  <2>1. ASSUME NEW r \in Requests, NEW v \in Visits, req[r].visit = v,
               ReturnDeposit(v)
        PROVE  DepositStep(w)
    BY <1>1, <2>1, ReturnDepositEffect DEF TypeOK, DepositStep
  <2>2. ASSUME NEW r \in Requests, Issue(r) PROVE DepositStep(w)
    BY <1>1, <2>2 DEF TypeOK, Issue, Ready, Handling, DepositInsertable, InsertDeposit, DepositStep
  <2>3. ASSUME NEW r \in Requests, Unissue(r) PROVE DepositStep(w)
    BY <1>1, <2>3 DEF TypeOK, Unissue, Ready, DeleteDeposit, MoveVisit, DepositStep
  <2>4. ASSUME NEW r \in Requests, CompleteReturn(r) PROVE DepositStep(w)
    <3>1. req[r].visit \in Visits
      BY <1>1, <2>4 DEF TypeOK, CompleteReturn, Ready, Handling
    <3> QED
      BY <1>1, <2>1, <2>4, <3>1 DEF CompleteReturn, DepositStep
  <2>5. ASSUME NEW r \in Requests, MarkDepositReturned(r) PROVE DepositStep(w)
    <3>1. req[r].visit \in Visits
      BY <1>1, <2>5 DEF TypeOK, MarkDepositReturned, Ready, Handling
    <3> QED
      BY <1>1, <2>1, <2>5, <3>1 DEF MarkDepositReturned
  <2>6. ASSUME UNCHANGED deposit PROVE DepositStep(w)
    BY <2>6 DEF DepositStep
  <2> QED
    BY <1>1, <2>2, <2>3, <2>4, <2>5, <2>6
       DEF Next, vars, rows, CreateVisit, MarkTagWritten, Begin, ReadOrders,
           ReadDeposit, Cancel, Fail
<1>2. TypeOK /\ [Next]_vars => [DepositSteps]_vars
  BY <1>1 DEF DepositSteps
<1> QED
  BY <1>2, TypeCorrect, PTL DEF Spec, DepositOnlyReturned

-----------------------------------------------------------------------------
(* One request at a time.                                                  *)

\* At most one request is in progress.
OneDesk == \A a, b \in Requests : a = b

\* What the request in progress read of the visit's row is still in the row.
Fresh == \A r \in Requests : req[r] # Idle =>
            /\ req[r].status = visitStatus[req[r].visit]
            /\ req[r].notes = visitNotes[req[r].visit]

\* Exactly the visits that went out have a deposit and final payments.
WentOut(v) == visitStatus[v] \in {"issued", "completed"}
OutIsBacked ==
    \A v \in Visits :
        /\ deposit[v] # NoDeposit <=> WentOut(v)
        /\ \A o \in Orders : VisitOf[o] = v => (finalPayment[o] = "paid" <=> WentOut(v))

Serial == TypeOK /\ Fresh /\ OutIsBacked

LEMMA InitSerial == Init => Serial
<1> SUFFICES ASSUME Init PROVE Fresh /\ OutIsBacked
  BY InitTypeOK DEF Serial
<1> QED
  BY DEF Init, Fresh, OutIsBacked, WentOut

LEMMA NextFresh ==
    ASSUME OneDesk, TypeOK, Fresh, [Next]_vars
    PROVE  Fresh'
<1>1. ASSUME NEW v \in Visits, CreateVisit(v) PROVE Fresh'
  <2>1. \A r \in Requests : req[r] # Idle => req[r].visit # v
    BY <1>1 DEF CreateVisit, TypeOK, Fresh, Handling, VisitStatus
  <2> QED
    BY <1>1, <2>1 DEF CreateVisit, MoveVisit, Fresh, TypeOK, Handling
<1>2. ASSUME NEW r \in Requests, NEW op \in Handlers, NEW v \in Visits, Begin(r, op, v)
      PROVE  Fresh'
  BY <1>2 DEF Begin, rows, Fresh, TypeOK
<1>3. ASSUME NEW r \in Requests, ReadOrders(r) PROVE Fresh'
  <2>1. req[r] \in Handling
    BY <1>3 DEF ReadOrders, TypeOK
  <2>2. /\ WithOrders(req[r]).status = req[r].status
        /\ WithOrders(req[r]).visit = req[r].visit
        /\ WithOrders(req[r]).notes = req[r].notes
    BY <2>1 DEF WithOrders, Handling
  <2> QED
    BY <1>3, <2>1, <2>2 DEF ReadOrders, rows, Fresh, TypeOK
<1>4. ASSUME NEW r \in Requests, ReadDeposit(r) PROVE Fresh'
  <2>1. req[r] \in Handling
    BY <1>4 DEF ReadDeposit, TypeOK
  <2>2. /\ WithDeposit(req[r]).status = req[r].status
        /\ WithDeposit(req[r]).visit = req[r].visit
        /\ WithDeposit(req[r]).notes = req[r].notes
    BY <2>1 DEF WithDeposit, Handling
  <2> QED
    BY <1>4, <2>1, <2>2 DEF ReadDeposit, rows, Fresh, TypeOK
<1>5. ASSUME NEW r \in Requests, Finish(r) PROVE Fresh'
  BY <1>5, OneDesk DEF OneDesk, Finish, Fresh, TypeOK
<1>6. ASSUME UNCHANGED <<req, visitStatus, visitNotes>> PROVE Fresh'
  BY <1>6 DEF Fresh
<1> QED
  BY <1>1, <1>2, <1>3, <1>4, <1>5, <1>6
     DEF Next, vars, MarkTagWritten, Issue, Unissue, CompleteReturn, Cancel,
         MarkDepositReturned, Fail

LEMMA NextOutIsBacked ==
    ASSUME Serial, [Next]_vars
    PROVE  OutIsBacked'
<1> USE ConstantsOK DEF Serial, OutIsBacked, WentOut
<1>1. ASSUME NEW v \in Visits, CreateVisit(v) PROVE OutIsBacked'
  BY <1>1 DEF CreateVisit, MoveVisit, TypeOK
<1>2. ASSUME NEW r \in Requests, Issue(r) PROVE OutIsBacked'
  BY <1>2 DEF Issue, Ready, MoveVisit, SetPayments, InsertDeposit, TypeOK, Handling, NoDeposit
<1>3. ASSUME NEW r \in Requests, Unissue(r) PROVE OutIsBacked'
  BY <1>3 DEF Unissue, Ready, MoveVisit, SetPayments, DeleteDeposit, TypeOK, Handling
<1>4. ASSUME NEW r \in Requests, CompleteReturn(r) PROVE OutIsBacked'
  <2>1. req[r] \in Handling /\ visitStatus[req[r].visit] = "issued"
    BY <1>4 DEF CompleteReturn, CompleteAllowed, Ready, Fresh, TypeOK
  <2>2. \A w \in Visits : deposit[w] = NoDeposit <=> deposit'[w] = NoDeposit
    BY <1>4, <2>1, ReturnDepositEffect DEF CompleteReturn, TypeOK, Handling
  <2> QED
    BY <1>4, <2>1, <2>2 DEF CompleteReturn, MoveVisit, TypeOK
<1>5. ASSUME NEW r \in Requests, Cancel(r) PROVE OutIsBacked'
  <2>1. req[r] \in Handling /\ visitStatus[req[r].visit] = "reserved"
    BY <1>5 DEF Cancel, CancelAllowed, Ready, Fresh, TypeOK
  <2> QED
    BY <1>5, <2>1 DEF Cancel, MoveVisit, TypeOK
<1>6. ASSUME NEW r \in Requests, MarkDepositReturned(r) PROVE OutIsBacked'
  <2>1. req[r].visit \in Visits
    BY <1>6 DEF TypeOK, MarkDepositReturned, Ready, Handling
  <2>2. \A w \in Visits : deposit[w] = NoDeposit <=> deposit'[w] = NoDeposit
    BY <1>6, <2>1, ReturnDepositEffect DEF MarkDepositReturned, TypeOK
  <2> QED
    BY <1>6, <2>2 DEF MarkDepositReturned
<1>7. ASSUME UNCHANGED <<visitStatus, deposit, finalPayment>> PROVE OutIsBacked'
  BY <1>7
<1> QED
  BY <1>1, <1>2, <1>3, <1>4, <1>5, <1>6, <1>7
     DEF Next, vars, rows, MarkTagWritten, Begin, ReadOrders, ReadDeposit, Fail

LEMMA AlwaysSerial == ASSUME OneDesk PROVE Spec => []Serial
<1>1. Serial /\ [Next]_vars => Serial'
  BY OneDesk, NextTypeOK, NextFresh, NextOutIsBacked DEF Serial
<1> QED
  BY <1>1, InitSerial, PTL DEF Spec

\* A deposit that was not given back belongs to a visit that went out, so it
\* is in one of the application's lists.
THEOREM SerialDepositTracked == ASSUME OneDesk PROVE Spec => []DepositTracked
<1>1. Serial => DepositTracked
  BY DEF Serial, OutIsBacked, WentOut, DepositTracked
<1> QED
  BY <1>1, AlwaysSerial, PTL

\* The final payments on record are those of the visits that went out.
THEOREM SerialPaymentsFollowVisit == ASSUME OneDesk PROVE Spec => []PaymentsFollowVisit
<1>1. Serial => PaymentsFollowVisit
  BY ConstantsOK DEF Serial, OutIsBacked, WentOut, PaymentsFollowVisit
<1> QED
  BY <1>1, AlwaysSerial, PTL

\* Only issuing a visit may drop an entry of its notes.
THEOREM SerialNotesKept == ASSUME OneDesk PROVE Spec => NotesKept
<1>1. ASSUME Serial, [Next]_vars, NEW v \in Visits
      PROVE  \/ visitNotes[v] \subseteq visitNotes'[v]
             \/ visitStatus[v] # "issued" /\ visitStatus'[v] = "issued"
  <2> USE <1>1 DEF Serial
  <2>1. ASSUME NEW r \in Requests, Ready(r, "issue"), Issue(r)
        PROVE  \/ visitNotes[v] \subseteq visitNotes'[v]
               \/ visitStatus[v] # "issued" /\ visitStatus'[v] = "issued"
    BY <2>1 DEF Issue, IssueAllowed, Ready, MoveVisit, Fresh, TypeOK, Handling
  <2>2. ASSUME NEW r \in Requests, NEW e \in NoteEntries,
               req[r] # Idle, AppendNote(req[r], e)
        PROVE  visitNotes[v] \subseteq visitNotes'[v]
    BY <2>2 DEF AppendNote, Fresh, TypeOK, Handling
  <2>3. ASSUME NEW r \in Requests, MarkDepositReturned(r)
        PROVE  visitNotes[v] \subseteq visitNotes'[v]
    BY <2>3 DEF MarkDepositReturned, Ready, Fresh, TypeOK, Handling
  <2>4. ASSUME UNCHANGED visitNotes PROVE visitNotes[v] \subseteq visitNotes'[v]
    BY <2>4
  <2> QED
    BY <2>1, <2>2, <2>3, <2>4
       DEF Next, vars, rows, CreateVisit, MarkTagWritten, Begin, ReadOrders, ReadDeposit,
           Issue, Unissue, CompleteReturn, Cancel, Ready, Fail, NoteEntries
<1>2. Serial /\ [Next]_vars => [NotesStep]_vars
  BY <1>1 DEF NotesStep
<1> QED
  BY <1>2, AlwaysSerial, PTL DEF Spec, NotesKept

-----------------------------------------------------------------------------
(* The refinement: each transaction is one move of the contract, every     *)
(* other step a stutter.                                                   *)

\* What the desk holds changes only for the visit whose deposit row changes.
LEMMA HoldingExcept ==
    ASSUME NEW v \in Visits, NEW d,
           deposit \in [Visits -> DepositRow \cup {NoDeposit}],
           deposit' = [deposit EXCEPT ![v] = d]
    PROVE  [w \in Visits |-> Holding(deposit'[w])]
             = [[w \in Visits |-> Holding(deposit[w])] EXCEPT ![v] = Holding(d)]
OBVIOUS

\* A deposit marked as returned is one the desk gave back.
LEMMA ReturnGivesBack ==
    ASSUME TypeOK, NEW v \in Visits, ReturnDeposit(v)
    PROVE  [w \in Visits |-> Holding(deposit'[w])]
             = [[w \in Visits |-> Holding(deposit[w])] EXCEPT ![v] = "back"]
<1> DEFINE d == [deposit[v] EXCEPT !.returned = TRUE]
<1>1. deposit[v] \in DepositRow /\ deposit' = [deposit EXCEPT ![v] = d]
  BY ReturnDepositEffect DEF TypeOK
<1>2. d.returned /\ d # NoDeposit
  BY <1>1, ReturnDepositEffect DEF DepositRow, TypeOK
<1>3. Holding(d) = "back"
  BY <1>2 DEF Holding
<1> HIDE DEF d
<1> QED
  BY <1>1, <1>3, HoldingExcept DEF TypeOK

LEMMA StepRefines ==
    ASSUME Serial, [Next]_vars
    PROVE  [Contract!Next]_(Contract!vars)
<1> DEFINE held == [w \in Visits |-> Holding(deposit[w])]
<1> USE DEF Serial
<1>1. ASSUME NEW v \in Visits, CreateVisit(v) PROVE Contract!Reserve(v)
  BY <1>1 DEF CreateVisit, MoveVisit, Contract!Reserve, Contract!Move
<1>2. ASSUME NEW r \in Requests, Issue(r) PROVE Contract!Issue(req[r].visit)
  <2> DEFINE v == req[r].visit
  <2>1. req[r] \in Handling /\ req[r].status = visitStatus[v] /\ v \in Visits
    BY <1>2 DEF Issue, Ready, Fresh, TypeOK, Handling
  <2>2. deposit[v] = NoDeposit /\ held[v] = "nothing"
    BY <1>2, <2>1 DEF Issue, DepositInsertable, Holding
  <2>3. visitStatus[v] \in {"reserved", "cancelled"}
    BY <1>2, <2>1, <2>2 DEF Issue, IssueAllowed, OutIsBacked, WentOut, Handling, VisitStatus
  <2>4. PICK t \in DepositTypes : InsertDeposit(v, t)
    BY <1>2 DEF Issue
  <2>5. [id |-> nextDepositId, type |-> t, returned |-> FALSE] # NoDeposit
    <3>1. nextDepositId # 0
      BY ConstantsOK DEF TypeOK
    <3> QED
      BY <3>1 DEF NoDeposit
  <2>6. Holding([id |-> nextDepositId, type |-> t, returned |-> FALSE]) = "held"
    BY <2>5 DEF Holding
  <2>7. held' = [held EXCEPT ![v] = "held"]
    BY <2>1, <2>4, <2>6, HoldingExcept DEF InsertDeposit, TypeOK
  <2>8. visitStatus' = [visitStatus EXCEPT ![v] = "issued"]
    BY <1>2 DEF Issue, MoveVisit
  <2> QED
    BY <2>2, <2>3, <2>7, <2>8 DEF Contract!Issue, Contract!Move
<1>3. ASSUME NEW r \in Requests, Unissue(r) PROVE Contract!Unissue(req[r].visit)
  <2> DEFINE v == req[r].visit
  <2>1. v \in Visits /\ visitStatus[v] = "issued"
    BY <1>3 DEF Unissue, UnissueAllowed, Ready, Fresh, TypeOK, Handling
  <2>2. held' = [held EXCEPT ![v] = "nothing"]
    BY <1>3, <2>1, HoldingExcept DEF Unissue, DeleteDeposit, Holding, TypeOK
  <2>3. visitStatus' = [visitStatus EXCEPT ![v] = "reserved"]
    BY <1>3 DEF Unissue, MoveVisit
  <2> QED
    BY <2>1, <2>2, <2>3 DEF Contract!Unissue, Contract!Move
<1>4. ASSUME NEW r \in Requests, CompleteReturn(r) PROVE Contract!Complete(req[r].visit)
  <2> DEFINE v == req[r].visit
  <2>1. v \in Visits /\ visitStatus[v] = "issued"
    BY <1>4 DEF CompleteReturn, CompleteAllowed, Ready, Fresh, TypeOK, Handling
  <2>2. visitStatus' = [visitStatus EXCEPT ![v] = "completed"]
    BY <1>4 DEF CompleteReturn, MoveVisit
  <2>3. \E h \in {held[v], "back"} : held' = [held EXCEPT ![v] = h]
    <3>1. CASE ReturnDeposit(v)
      BY <2>1, <3>1, ReturnGivesBack
    <3>2. CASE UNCHANGED deposit
      BY <2>1, <3>2
    <3> QED
      BY <1>4, <3>1, <3>2 DEF CompleteReturn
  <2> QED
    BY <2>1, <2>2, <2>3 DEF Contract!Complete, Contract!Move
<1>5. ASSUME NEW r \in Requests, Cancel(r) PROVE Contract!Cancel(req[r].visit)
  <2> DEFINE v == req[r].visit
  <2>1. v \in Visits /\ visitStatus[v] = "reserved"
    BY <1>5 DEF Cancel, CancelAllowed, Ready, Fresh, TypeOK, Handling
  <2>2. held[v] = "nothing"
    BY <2>1 DEF OutIsBacked, WentOut, Holding
  <2>3. visitStatus' = [visitStatus EXCEPT ![v] = "cancelled"] /\ UNCHANGED deposit
    BY <1>5 DEF Cancel, MoveVisit
  <2> QED
    BY <2>1, <2>2, <2>3 DEF Contract!Cancel, Contract!Move
<1>6. ASSUME NEW r \in Requests, MarkDepositReturned(r) PROVE Contract!GiveBack(req[r].visit)
  <2> DEFINE v == req[r].visit
  <2>1. v \in Visits /\ ReturnDeposit(v)
    BY <1>6 DEF MarkDepositReturned, Ready, TypeOK, Handling
  <2>2. visitStatus[v] \in {"issued", "completed"} /\ held[v] # "nothing"
    BY <2>1 DEF ReturnDeposit, OutIsBacked, WentOut, Holding
  <2>3. held' = [held EXCEPT ![v] = "back"] /\ UNCHANGED visitStatus
    BY <1>6, <2>1, ReturnGivesBack DEF MarkDepositReturned
  <2> QED
    BY <2>2, <2>3 DEF Contract!GiveBack
<1>7. ASSUME UNCHANGED <<visitStatus, deposit>> PROVE UNCHANGED Contract!vars
  BY <1>7 DEF Contract!vars
<1>8. ASSUME NEW r \in Requests, Ready(r, req[r].op) PROVE req[r].visit \in Visits
  BY <1>8 DEF Ready, TypeOK, Handling
<1> HIDE DEF held
<1> QED
  BY <1>1, <1>2, <1>3, <1>4, <1>5, <1>6, <1>7, <1>8
     DEF Next, vars, rows, MarkTagWritten, Begin, ReadOrders, ReadDeposit, Fail,
         Issue, Unissue, CompleteReturn, Cancel, MarkDepositReturned, Ready, Contract!Next

\* With one request at a time the handlers implement the desk's contract.
THEOREM SerialImplementsContract == ASSUME OneDesk PROVE Spec => ImplementsContract
<1>1. Init => Contract!Init
  BY DEF Init, Contract!Init, Holding
<1>2. Serial /\ [Next]_vars => [Contract!Next]_(Contract!vars)
  BY StepRefines
<1> QED
  BY <1>1, <1>2, AlwaysSerial, PTL DEF Spec, ImplementsContract, Contract!Spec
=============================================================================
