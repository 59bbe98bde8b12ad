--------------------------- MODULE VisitLifecycle ---------------------------
(***************************************************************************)
(* The write side of VisitOrderService: issuing a reserved visit, taking   *)
(* the issue back, completing the return, cancelling, giving a deposit     *)
(* back and marking a tag.  Each handler reads the visit, checks what it   *)
(* read and then writes in one database transaction; the transaction runs  *)
(* under READ COMMITTED and its UPDATEs name only ids, so nothing ties     *)
(* what is written to what was read.  A request therefore is a read step,  *)
(* for some handlers more read steps, and a commit step; requests of       *)
(* several desks interleave between these steps.                           *)
(***************************************************************************)
EXTENDS Integers, FiniteSets

CONSTANTS
    Visits,         \* visit ids
    Orders,         \* order ids
    VisitOf,        \* the visit an order belongs to; never changes after creation
    Requests,       \* HTTP requests that can be in progress at the same time
    DepositTypes,   \* values of enum DepositType
    MaxDeposits     \* bound on the ids the deposits table hands out

ASSUME ConstantsOK == /\ VisitOf \in [Orders -> Visits]
                      /\ MaxDeposits \in Nat

VARIABLES
    visitStatus,    \* Visit.status, "absent" before the row exists
    visitNotes,     \* Visit.notes as the set of entries the text holds
    orderStatus,    \* Order.status
    finalPayment,   \* Order.finalPayment: "null" or "paid"
    tagStatus,      \* Order.tagStatus
    deposit,        \* the visit's row of the deposits table, or NoDeposit
    nextDepositId,  \* deposits.id is an autoincrement column
    req             \* req[r]: the handler that serves request r, or Idle

vars == <<visitStatus, visitNotes, orderStatus, finalPayment, tagStatus,
          deposit, nextDepositId, req>>
rows == <<visitStatus, visitNotes, orderStatus, finalPayment, tagStatus,
          deposit, nextDepositId>>

VisitStatus == {"reserved", "issued", "completed", "cancelled"}
OrderStatus == {"reserved", "issued", "returned", "cancelled"}
TagStatus == {"written", "not_written"}

\* Who wrote an entry of the notes: visitIssue replaces the text by its own,
\* the other handlers append a line to the text they read.
NoteEntries == {"issue", "completion", "deposit", "cancellation"}

DepositRow == [id : 1..MaxDeposits, type : DepositTypes, returned : BOOLEAN]
NoDeposit == [id |-> 0]

Handlers == {"issue", "unissue", "complete", "cancel", "markDeposit"}

\* A handler in progress: what it read so far and which relations of the
\* visit it has still to read.
Relations == {"orders", "deposit"}
Handling == [op : Handlers, visit : Visits, status : VisitStatus,
             notes : SUBSET NoteEntries, ordersIssued : BOOLEAN,
             depositId : 0..MaxDeposits, unread : SUBSET Relations]
Idle == [op |-> "none"]

TypeOK ==
    /\ visitStatus \in [Visits -> VisitStatus \cup {"absent"}]
    /\ visitNotes \in [Visits -> SUBSET NoteEntries]
    /\ orderStatus \in [Orders -> OrderStatus \cup {"absent"}]
    /\ finalPayment \in [Orders -> {"null", "paid"}]
    /\ tagStatus \in [Orders -> TagStatus]
    /\ deposit \in [Visits -> DepositRow \cup {NoDeposit}]
    /\ nextDepositId \in 1..(MaxDeposits + 1)
    /\ req \in [Requests -> Handling \cup {Idle}]

Init ==
    /\ visitStatus = [v \in Visits |-> "absent"]
    /\ visitNotes = [v \in Visits |-> {}]
    /\ orderStatus = [o \in Orders |-> "absent"]
    /\ finalPayment = [o \in Orders |-> "null"]
    /\ tagStatus = [o \in Orders |-> "not_written"]
    /\ deposit = [v \in Visits |-> NoDeposit]
    /\ nextDepositId = 1
    /\ req = [r \in Requests |-> Idle]

-----------------------------------------------------------------------------
(* Reading.                                                                *)

\* What each handler includes when it reads the visit.  The orders visitIssue
\* includes serve only to name their ids and prices, which never change.
Included(op) == CASE op = "complete"    -> {"orders", "deposit"}
                  [] op = "markDeposit" -> {"deposit"}
                  [] OTHER              -> {}

\* The handler's findUnique returns the visit's row; a visit that does not
\* exist is answered with 404 and leaves no trace.
Begin(r, op, v) ==
    /\ req[r] = Idle
    /\ visitStatus[v] # "absent"
    /\ req' = [req EXCEPT ![r] =
                 [op |-> op, visit |-> v, status |-> visitStatus[v],
                  notes |-> visitNotes[v], ordersIssued |-> FALSE,
                  depositId |-> 0, unread |-> Included(op)]]
    /\ UNCHANGED rows

AllOrdersIssued(v) == \A o \in Orders : VisitOf[o] = v => orderStatus[o] = "issued"

WithOrders(q) == [q EXCEPT !.unread = @ \ {"orders"},
                           !.ordersIssued = AllOrdersIssued(q.visit)]
WithDeposit(q) == [q EXCEPT !.unread = @ \ {"deposit"},
                            !.depositId = deposit[q.visit].id]

\* An included relation is fetched by a query of its own, after the row and
\* outside any transaction.
ReadOrders(r) ==
    /\ req[r] # Idle
    /\ "orders" \in req[r].unread
    /\ req' = [req EXCEPT ![r] = WithOrders(@)]
    /\ UNCHANGED rows

ReadDeposit(r) ==
    /\ req[r] # Idle
    /\ "deposit" \in req[r].unread
    /\ req' = [req EXCEPT ![r] = WithDeposit(@)]
    /\ UNCHANGED rows

-----------------------------------------------------------------------------
(* The checks a handler makes on what it read.                             *)

IssueAllowed(q) == q.status # "issued"
\* Mutant of UnissueAllowed: completed visits as well.
UnissueCompletedToo(q) == q.status \in {"issued", "completed"}
UnissueAllowed(q) == q.status = "issued"
CompleteAllowed(q) == q.status = "issued" /\ q.ordersIssued
\* Mutant of CancelAllowed: everything that is not finished.
CancelUnlessFinished(q) == q.status \in {"reserved", "issued"}
CancelAllowed(q) == q.status = "reserved"
MarkAllowed(q) == q.depositId # 0

\* Request r runs handler op and has read all that op reads.
Ready(r, op) == /\ req[r] # Idle
                /\ req[r].op = op
                /\ req[r].unread = {}
Finish(r) == req' = [req EXCEPT ![r] = Idle]

-----------------------------------------------------------------------------
(* The transactions.                                                       *)

\* Mutant of MoveVisit: one status value written to both tables.
MoveVisitOneStatus(v, vs, os) ==
    /\ visitStatus' = [visitStatus EXCEPT ![v] = vs]
    /\ orderStatus' = [o \in Orders |-> IF VisitOf[o] = v THEN vs ELSE orderStatus[o]]

\* Mutant of MoveVisit: only orders still reserved are written.
MoveVisitReservedOnly(v, vs, os) ==
    /\ visitStatus' = [visitStatus EXCEPT ![v] = vs]
    /\ orderStatus' = [o \in Orders |->
                         IF VisitOf[o] = v /\ orderStatus[o] \in {"absent", "reserved"}
                         THEN os ELSE orderStatus[o]]

MoveVisit(v, vs, os) ==
    /\ visitStatus' = [visitStatus EXCEPT ![v] = vs]
    /\ orderStatus' = [o \in Orders |-> IF VisitOf[o] = v THEN os ELSE orderStatus[o]]

\* Mutant of SetPayments: only orders still reserved are written.
SetPaymentsReservedOnly(v, p) ==
    finalPayment' = [o \in Orders |-> IF VisitOf[o] = v /\ orderStatus[o] = "reserved"
                                      THEN p ELSE finalPayment[o]]

SetPayments(v, p) ==
    finalPayment' = [o \in Orders |-> IF VisitOf[o] = v THEN p ELSE finalPayment[o]]

\* Mutant of AppendNote: the entry replaces the text.
ReplaceNote(q, entry) ==
    \E n \in {q.notes, {entry}} : visitNotes' = [visitNotes EXCEPT ![q.visit] = n]

\* notes ? snapshot + entry : snapshot
AppendNote(q, entry) ==
    \E n \in {q.notes, q.notes \cup {entry}} :
       visitNotes' = [visitNotes EXCEPT ![q.visit] = n]

\* UPDATE deposits SET returned = true WHERE visit_id = v; without a row the
\* update throws P2025 and the transaction rolls back.
ReturnDeposit(v) ==
    /\ deposit[v] # NoDeposit
    /\ deposit' = [deposit EXCEPT ![v].returned = TRUE]

\* visit.create with its nested orders, in the transaction of createVisit.
CreateVisit(v) ==
    /\ visitStatus[v] = "absent"
    /\ MoveVisit(v, "reserved", "reserved")
    /\ UNCHANGED <<visitNotes, finalPayment, tagStatus, deposit, nextDepositId, req>>

\* Mutant of DepositInsertable: the INSERT as an upsert.
DepositUpsert(v) == TRUE

\* deposits.visit_id is unique: a visit that has a deposit makes the INSERT
\* throw P2002 and the whole transaction roll back.
DepositInsertable(v) == deposit[v] = NoDeposit

InsertDeposit(v, t) ==
    deposit' = [deposit EXCEPT ![v] = [id |-> nextDepositId, type |-> t,
                                       returned |-> FALSE]]

\* Mutant of DeleteDeposit: the row stays, marked as returned.
CloseDeposit(v) == deposit' = IF deposit[v] = NoDeposit THEN deposit
                              ELSE [deposit EXCEPT ![v].returned = TRUE]

\* deposit.deleteMany: no row is not an error.
DeleteDeposit(v) == deposit' = [deposit EXCEPT ![v] = NoDeposit]

\* notes: data.notes ?? visit.notes.  The issue form always sends the text it
\* holds, which may be empty.
Issue(r) ==
    /\ Ready(r, "issue") /\ IssueAllowed(req[r])
    /\ nextDepositId <= MaxDeposits
    /\ LET v == req[r].visit IN
       /\ DepositInsertable(v)
       /\ MoveVisit(v, "issued", "issued")
       /\ SetPayments(v, "paid")
       /\ \E n \in {req[r].notes, {"issue"}, {}} :
             visitNotes' = [visitNotes EXCEPT ![v] = n]
       /\ \E t \in DepositTypes : InsertDeposit(v, t)
    /\ nextDepositId' = nextDepositId + 1
    /\ Finish(r)
    /\ UNCHANGED tagStatus

Unissue(r) ==
    /\ Ready(r, "unissue") /\ UnissueAllowed(req[r])
    /\ LET v == req[r].visit IN
       /\ MoveVisit(v, "reserved", "reserved")
       /\ SetPayments(v, "null")
       /\ DeleteDeposit(v)
    /\ Finish(r)
    /\ UNCHANGED <<visitNotes, tagStatus, nextDepositId>>

\* depositReturned is the desk's answer in the return form; the deposit is
\* touched only if one was read.
CompleteReturn(r) ==
    /\ Ready(r, "complete") /\ CompleteAllowed(req[r])
    /\ LET q == req[r] IN
       /\ MoveVisit(q.visit, "completed", "returned")
       /\ AppendNote(q, "completion")
       /\ \/ q.depositId # 0 /\ ReturnDeposit(q.visit)
          \/ UNCHANGED deposit
    /\ Finish(r)
    /\ UNCHANGED <<finalPayment, tagStatus, nextDepositId>>

Cancel(r) ==
    /\ Ready(r, "cancel") /\ CancelAllowed(req[r])
    /\ MoveVisit(req[r].visit, "cancelled", "cancelled")
    /\ AppendNote(req[r], "cancellation")
    /\ Finish(r)
    /\ UNCHANGED <<finalPayment, tagStatus, deposit, nextDepositId>>

\* Without notes the visit's row is not written at all.
MarkDepositReturned(r) ==
    /\ Ready(r, "markDeposit") /\ MarkAllowed(req[r])
    /\ ReturnDeposit(req[r].visit)
    /\ \/ visitNotes' = [visitNotes EXCEPT ![req[r].visit] =
                           req[r].notes \cup {"deposit"}]
       \/ UNCHANGED visitNotes
    /\ Finish(r)
    /\ UNCHANGED <<visitStatus, orderStatus, finalPayment, tagStatus, nextDepositId>>

\* orderMarkTagWritten is a single UPDATE of one order.
MarkTagWritten(o) ==
    /\ orderStatus[o] # "absent"
    /\ tagStatus' = [tagStatus EXCEPT ![o] = "written"]
    /\ UNCHANGED <<visitStatus, visitNotes, orderStatus, finalPayment, deposit,
                   nextDepositId, req>>

\* The request ends without effect: its check refuses, a constraint or a
\* missing row rolls the transaction back, two transactions deadlock and the
\* database aborts this one, or the process dies before COMMIT.
Fail(r) ==
    /\ req[r] # Idle
    /\ Finish(r)
    /\ UNCHANGED rows

-----------------------------------------------------------------------------
Next ==
    \/ \E v \in Visits : CreateVisit(v)
    \/ \E o \in Orders : MarkTagWritten(o)
    \/ \E r \in Requests :
          \/ \E op \in Handlers, v \in Visits : Begin(r, op, v)
          \/ ReadOrders(r) \/ ReadDeposit(r)
          \/ Issue(r) \/ Unissue(r) \/ CompleteReturn(r) \/ Cancel(r)
          \/ MarkDepositReturned(r)
          \/ Fail(r)

Spec == Init /\ [][Next]_vars

-----------------------------------------------------------------------------
(* Properties that hold however many requests interleave.                  *)

OrderStatusUnder == [absent    |-> "absent",    reserved  |-> "reserved",
                     issued    |-> "issued",    completed |-> "returned",
                     cancelled |-> "cancelled"]

\* The orders of a visit always tell the same story as the visit: no race of
\* two handlers leaves an order issued under a completed visit, say.  The
\* handlers write the two tables one after the other and never read one to
\* write the other.
OrdersFollowVisit ==
    \A o \in Orders : orderStatus[o] = OrderStatusUnder[visitStatus[VisitOf[o]]]

\* A visit that is out with the client has a deposit on record and the final
\* payment of every order, although visitIssue never looks for a deposit and
\* other handlers commit between its read and its write.
IssuedIsBacked ==
    \A v \in Visits : visitStatus[v] = "issued" =>
        /\ deposit[v] # NoDeposit
        /\ \A o \in Orders : VisitOf[o] = v => finalPayment[o] = "paid"

\* A reserved visit carries neither a deposit nor a final payment, also after
\* it was issued and taken back: it can be issued again without a conflict.
ReservedIsClean ==
    \A v \in Visits : visitStatus[v] = "reserved" =>
        /\ deposit[v] = NoDeposit
        /\ \A o \in Orders : VisitOf[o] = v => finalPayment[o] = "null"

\* A deposit on record is only ever marked as returned, never the other way
\* round and never replaced by another; it disappears only in the step that
\* takes the issue of its visit back.
DepositStep(v) == \/ deposit[v] = NoDeposit
                  \/ deposit'[v] = deposit[v]
                  \/ deposit'[v] = [deposit[v] EXCEPT !.returned = TRUE]
                  \/ deposit'[v] = NoDeposit /\ visitStatus'[v] = "reserved"
DepositSteps == \A v \in Visits : DepositStep(v)
DepositOnlyReturned == [][DepositSteps]_vars

-----------------------------------------------------------------------------
(* Properties of a desk that serves one request at a time.                 *)

Holding(d) == IF d = NoDeposit THEN "nothing" ELSE IF d.returned THEN "back" ELSE "held"

Contract == INSTANCE VisitContract
              WITH status <- visitStatus,
                   held <- [v \in Visits |-> Holding(deposit[v])]

\* The handlers implement the desk's contract: each is one indivisible move of
\* a visit and its deposit, and a completed visit never moves again.
ImplementsContract == Contract!Spec

\* A deposit that was not given back belongs to a visit some list of the
\* application shows: issued ones, or completed ones with an unreturned
\* deposit.  The deposit of a reserved or cancelled visit is in no list.
DepositTracked ==
    \A v \in Visits : deposit[v] # NoDeposit /\ ~deposit[v].returned
                         => visitStatus[v] \in {"issued", "completed"}

\* The final payments on record are those of the visits that went out, and
\* all of them: what the desk took equals what the rows say it took.
PaymentsFollowVisit ==
    \A o \in Orders : finalPayment[o] = "paid"
                         <=> visitStatus[VisitOf[o]] \in {"issued", "completed"}

\* Only issuing a visit may drop an entry of its notes; completing,
\* cancelling and giving a deposit back append to what is there.
NotesStep == \A v \in Visits :
                \/ visitNotes[v] \subseteq visitNotes'[v]
                \/ visitStatus[v] # "issued" /\ visitStatus'[v] = "issued"
NotesKept == [][NotesStep]_vars

-----------------------------------------------------------------------------
(* What the messages of the handlers claim of their operations; two desks   *)
(* that work on the same visit at the same time break each of them.         *)

Becomes(v, s) == visitStatus[v] # s /\ visitStatus'[v] = s

\* Cancelling is available only for a reserved visit (visitCancel), only an
\* issued visit can be completed (visitCompleteReturn), and the issue can be
\* taken back only for an issued visit (visitUnissue).
MovesAsTold ==
    [][\A v \in Visits :
          /\ Becomes(v, "cancelled") => visitStatus[v] = "reserved"
          /\ Becomes(v, "completed") => visitStatus[v] = "issued"
          /\ Becomes(v, "reserved") => visitStatus[v] \in {"absent", "issued"}]_vars
=============================================================================
