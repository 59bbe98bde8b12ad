------------------------------ MODULE Booking ------------------------------
(***************************************************************************)
(* Creating a visit.  A desk first asks for a preview code: up to          *)
(* MaxAttempts times the backend draws a four-digit code, looks for its    *)
(* lock in Redis, for a visit with it in Postgres, and sets the lock for   *)
(* 15 minutes if nobody else did.  It then submits the visit: the lock     *)
(* must still be there, the costumes must be free, and the visit with its  *)
(* orders and its notification is inserted in one transaction; after that  *)
(* the lock is deleted and the notification's job queued.  None of these   *)
(* steps is atomic with the next.                                          *)
(***************************************************************************)
EXTENDS Integers, Sequences, FiniteSets

CONSTANTS
    Desks,        \* browsers that book at the same time
    Codes,        \* the four-digit codes
    Costumes,
    Wishes,       \* what a create request may ask for: one costume per order, a period
    MaxAttempts   \* MAX_ATTEMPTS of generatePreviewCode

ASSUME BookingConstants ==
    /\ Wishes \subseteq [costumes : Seq(Costumes), from : Int, to : Int]
    /\ MaxAttempts \in Nat \ {0}

VARIABLES
    lock,     \* codes c for which visit_code_lock:c is in Redis
    visits,   \* visits[c]: the row whose unique visitCode is c, or NoVisit
    jobs,     \* codes of the visits whose notification job was queued
    desk      \* desk[d]: where the desk's request is and what it carries

vars == <<lock, visits, jobs, desk>>

\* What isSuitAvailability tells apart, and one thing it does not: "reserved"
\* stands for every status of a visit that was never cancelled, "reissued" for
\* every status of one that was issued after it had been cancelled.
Row == [wish : Wishes, status : {"reserved", "cancelled", "reissued"}, notified : BOOLEAN]
NoVisit == [status |-> "none"]
NoWish == [costumes |-> <<>>]

\* idle - drawing - drawn - unused - previewed: the preview request;
\* previewed - locked - free - inserted - released - idle: the create request.
Stages == {"idle", "drawing", "drawn", "unused", "previewed",
           "locked", "free", "inserted", "released"}
Creating == {"locked", "free", "inserted", "released"}
NoCode == "none"
Desk == [stage : Stages, code : Codes \cup {NoCode}, attempts : 0..MaxAttempts,
         wish : Wishes \cup {NoWish}]

TypeOK == /\ lock \in SUBSET Codes
          /\ visits \in [Codes -> Row \cup {NoVisit}]
          /\ jobs \in SUBSET Codes
          /\ desk \in [Desks -> Desk]

IdleDesk == [stage |-> "idle", code |-> NoCode, attempts |-> 0, wish |-> NoWish]

Init == /\ lock = {}
        /\ visits = [c \in Codes |-> NoVisit]
        /\ jobs = {}
        /\ desk = [d \in Desks |-> IdleDesk]

At(d, stage) == desk[d].stage = stage
Go(d, stage) == desk' = [desk EXCEPT ![d] = [@ EXCEPT !.stage = stage]]
\* Nothing of a request outlives it but, for some, the code in the form.
EndWithout(d) == desk' = [desk EXCEPT ![d] = IdleDesk]
Previewed(c) == [stage |-> "previewed", code |-> c, attempts |-> 0, wish |-> NoWish]
EndWithCode(d) == desk' = [desk EXCEPT ![d] = Previewed(desk[d].code)]

-----------------------------------------------------------------------------
(* generatePreviewCode                                                     *)

\* "Проверить" in the booking form; also pressed again with a code in hand.
StartPreview(d) ==
    /\ At(d, "idle") \/ At(d, "previewed")
    /\ desk' = [desk EXCEPT ![d] = [IdleDesk EXCEPT !.stage = "drawing"]]
    /\ UNCHANGED <<lock, visits, jobs>>

\* The desk after one draw: on with a code that is not locked, or to the next turn.
Drawn(k, c) == [k EXCEPT !.attempts = @ + 1,
                         !.code = IF c \in lock THEN NoCode ELSE c,
                         !.stage = IF c \in lock THEN "drawing" ELSE "drawn"]
BackToDrawing(d) ==
    desk' = [desk EXCEPT ![d] = [@ EXCEPT !.stage = "drawing", !.code = NoCode]]

\* Mutant of DrawCode: a locked code does not count as an attempt.
DrawUncounted(d) ==
    /\ At(d, "drawing")
    /\ desk[d].attempts < MaxAttempts
    /\ \E c \in Codes : desk' = [desk EXCEPT ![d] =
          IF c \in lock THEN @ ELSE Drawn(@, c)]
    /\ UNCHANGED <<lock, visits, jobs>>

\* Mutant of DrawCode: the loop has no bound.
DrawNoLimit(d) ==
    /\ At(d, "drawing")
    /\ \E c \in Codes : desk' = [desk EXCEPT ![d] = Drawn(@, c)]
    /\ UNCHANGED <<lock, visits, jobs>>

\* One turn of the loop begins: draw a code and look for its lock.
DrawCode(d) ==
    /\ At(d, "drawing")
    /\ desk[d].attempts < MaxAttempts
    /\ \E c \in Codes : desk' = [desk EXCEPT ![d] = Drawn(@, c)]
    /\ UNCHANGED <<lock, visits, jobs>>

CheckUsed(d) ==
    /\ At(d, "drawn")
    /\ IF visits[desk[d].code] = NoVisit THEN Go(d, "unused") ELSE BackToDrawing(d)
    /\ UNCHANGED <<lock, visits, jobs>>

\* SET ... EX 900 NX
ClaimCode(d) ==
    /\ At(d, "unused")
    /\ IF desk[d].code \in lock THEN BackToDrawing(d) ELSE EndWithCode(d)
    /\ lock' = lock \cup {desk[d].code}
    /\ UNCHANGED <<visits, jobs>>

\* All attempts failed: 500.
GiveUp(d) ==
    /\ At(d, "drawing")
    /\ desk[d].attempts = MaxAttempts
    /\ EndWithout(d)
    /\ UNCHANGED <<lock, visits, jobs>>

-----------------------------------------------------------------------------
(* createVisit.  A refused request leaves the desk where it was: with the  *)
(* code and the form, from which it can submit again.                      *)

\* fullStartDt > fullEndDt is refused; an empty period is not.
PeriodOK(w) == w.from <= w.to

\* redis.get: somebody's lock is there; its value does not say whose.
CodeReserved(d) == desk[d].code \in lock

Submit(d, w) ==
    /\ At(d, "previewed")
    /\ PeriodOK(w)
    /\ CodeReserved(d)
    /\ desk' = [desk EXCEPT ![d] = [@ EXCEPT !.stage = "locked", !.wish = w]]
    /\ UNCHANGED <<lock, visits, jobs>>

\* Mutant of Overlap: only periods that start inside the other are seen.
StartsInside(a, b) == a.from <= b.from /\ b.from < a.to

Overlap(a, b) == a.from < b.to /\ b.from < a.to
\* A visit and its orders, whatever their status, as long as it is not cancelled.
Active(v) == v.status \in {"reserved", "reissued"}

\* isSuitAvailability: an order of one of the costumes that is not cancelled
\* and whose period overlaps the wanted one.
Available(w) ==
    \A c \in Codes : Active(visits[c]) /\ Overlap(visits[c].wish, w) =>
        \A i \in DOMAIN w.costumes, j \in DOMAIN visits[c].wish.costumes :
            w.costumes[i] # visits[c].wish.costumes[j]

CheckAvailability(d) ==
    /\ At(d, "locked")
    /\ IF Available(desk[d].wish) THEN Go(d, "free") ELSE EndWithCode(d)
    /\ UNCHANGED <<lock, visits, jobs>>

\* Mutant of CodeInsertable: visit_code without its unique index.
CodeNotUnique(c) == TRUE

\* A second visit with the code violates the unique index and rolls back.
CodeInsertable(c) == visits[c] = NoVisit

InsertVisit(d) ==
    /\ At(d, "free")
    /\ CodeInsertable(desk[d].code)
    /\ \E n \in BOOLEAN :
          visits' = [visits EXCEPT ![desk[d].code] =
                       [wish |-> desk[d].wish, status |-> "reserved", notified |-> n]]
    /\ Go(d, "inserted")
    /\ UNCHANGED <<lock, jobs>>

ReleaseLock(d) ==
    /\ At(d, "inserted")
    /\ lock' = lock \ {desk[d].code}
    /\ Go(d, "released")
    /\ UNCHANGED <<visits, jobs>>

\* Mutant of Enqueue: the job is queued as soon as the checks passed.
EnqueueEarly(d) ==
    /\ At(d, "free")
    /\ jobs' = jobs \cup {desk[d].code}
    /\ UNCHANGED <<lock, visits, desk>>

\* queue.add; a failure is logged and the visit stays created.
Enqueue(d) ==
    /\ At(d, "released")
    /\ \/ visits[desk[d].code].notified /\ jobs' = jobs \cup {desk[d].code}
       \/ UNCHANGED jobs
    /\ EndWithout(d)
    /\ UNCHANGED <<lock, visits>>

\* The create request ends early: the client or the unique index is missing
\* or violated, Redis answers with an error after the commit, or the process
\* dies between two steps.  The browser still has the form and the code.
CreateFails(d) ==
    /\ desk[d].stage \in Creating
    /\ EndWithCode(d)
    /\ UNCHANGED <<lock, visits, jobs>>

\* The preview request ends early.
PreviewFails(d) ==
    /\ desk[d].stage \in {"drawing", "drawn", "unused"}
    /\ EndWithout(d)
    /\ UNCHANGED <<lock, visits, jobs>>

\* The 15 minutes of a lock are over.
Expire(c) == /\ c \in lock
             /\ lock' = lock \ {c}
             /\ UNCHANGED <<visits, jobs, desk>>

-----------------------------------------------------------------------------
(* What VisitLifecycle's handlers do to the promises of a visit, at a desk  *)
(* that has no create request under way.                                    *)

SetStatus(d, c, from, to) ==
    /\ desk[d].stage \notin Creating
    /\ visits[c].status \in from
    /\ visits' = [visits EXCEPT ![c].status = to]
    /\ UNCHANGED <<lock, jobs, desk>>

\* visitCancel frees the costumes; the code stays with the visit.
CancelVisit(d, c) == SetStatus(d, c, {"reserved", "reissued"}, "cancelled")

\* visitIssue refuses an issued visit only.  It writes "issued" to the orders of
\* a cancelled one, which hold their costumes again; nothing looks for conflicts.
IssueCancelled(d, c) == SetStatus(d, c, {"cancelled"}, "reissued")

PreviewStep(d) == DrawCode(d) \/ CheckUsed(d) \/ ClaimCode(d) \/ GiveUp(d)

Next == \/ \E d \in Desks :
              \/ StartPreview(d)
              \/ DrawCode(d) \/ CheckUsed(d) \/ ClaimCode(d) \/ GiveUp(d)
              \/ \E w \in Wishes : Submit(d, w)
              \/ CheckAvailability(d) \/ InsertVisit(d) \/ ReleaseLock(d) \/ Enqueue(d)
              \/ CreateFails(d) \/ PreviewFails(d)
              \/ \E c \in Codes : CancelVisit(d, c) \/ IssueCancelled(d, c)
        \/ \E c \in Codes : Expire(c)

Spec == Init /\ [][Next]_vars

\* The event loop goes on with a preview request whose call was answered.
FairSpec == Spec /\ \A d \in Desks : WF_vars(PreviewStep(d))

-----------------------------------------------------------------------------
(* Properties that hold however many desks book at the same time.          *)

\* A visit, once created, is never replaced by another with the same code,
\* although two desks can hold the same code when a lock expires between
\* them; only its status changes.
RowsKept == \A c \in Codes : visits[c] # NoVisit =>
                /\ visits'[c] # NoVisit
                /\ visits'[c].wish = visits[c].wish
VisitsNeverReplaced == [][RowsKept]_vars

\* The worker is never given a job before the visit and its notification
\* are committed: it would drop the job for good.
JobsHaveVisits == \A c \in jobs : visits[c] # NoVisit /\ visits[c].notified

\* A preview request is answered, with a code or with an error, also when
\* every code is locked or used.
PreviewAnswered == \A d \in Desks : At(d, "drawing") ~> At(d, "idle") \/ At(d, "previewed")

\* How many steps of the loop a preview request can still take.
StepsLeft(k) == CASE k.stage = "drawing" -> 3 * (MaxAttempts - k.attempts) + 1
                  [] k.stage = "drawn"   -> 3 * (MaxAttempts - k.attempts) + 3
                  [] k.stage = "unused"  -> 3 * (MaxAttempts - k.attempts) + 2
                  [] OTHER               -> 0

\* The loop ends by its own count: each of its calls brings the answer nearer,
\* whatever other desks lock, use or let expire meanwhile.
PreviewProgress == [][\A d \in Desks : PreviewStep(d) =>
                          StepsLeft(desk'[d]) \in 0..(StepsLeft(desk[d]) - 1)]_vars

-----------------------------------------------------------------------------
(* Properties of one desk at a time, with each costume once in a request.  *)

\* No costume is promised twice for overlapping periods, neither to two visits
\* nor twice to one, unless one of the two visits was cancelled and then issued:
\* a visit that comes back meets what was booked in its place.
NoDoubleBooking ==
    \A c, e \in Codes :
        Active(visits[c]) /\ Active(visits[e]) /\ Overlap(visits[c].wish, visits[e].wish) =>
            \A i \in DOMAIN visits[c].wish.costumes, j \in DOMAIN visits[e].wish.costumes :
                visits[c].wish.costumes[i] = visits[e].wish.costumes[j] =>
                    \/ c = e /\ i = j
                    \/ c # e /\ "reissued" \in {visits[c].status, visits[e].status}

PromisesOf(v) ==
    IF v = NoVisit THEN {}
    ELSE {[costume |-> v.wish.costumes[i], from |-> v.wish.from, to |-> v.wish.to] :
             i \in DOMAIN v.wish.costumes}

Calendar == INSTANCE CostumeCalendar
              WITH used <- {c \in Codes : visits[c] # NoVisit},
                   promised <- [c \in Codes |-> PromisesOf(visits[c])],
                   held <- {c \in Codes : Active(visits[c])}

\* Creating, cancelling and issuing visits are single moves of the calendar,
\* whatever fails, expires or is repeated between the steps; what a new visit is
\* promised is free of everything held at that moment, also by visits that came back.
ImplementsCalendar == Calendar!Spec
=============================================================================
