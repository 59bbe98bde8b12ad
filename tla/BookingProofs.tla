--------------------------- MODULE BookingProofs ---------------------------
(***************************************************************************)
(* Proofs about Booking: what holds for any number of desks, and that one  *)
(* desk at a time never promises a costume twice.                          *)
(***************************************************************************)
EXTENDS Booking, TLAPS

\* What a desk carries at each stage, and that a row stays once inserted.
Carries(d) ==
    /\ desk[d].stage \in {"drawn", "unused", "previewed", "locked", "free", "inserted",
                          "released"} => desk[d].code \in Codes
    /\ desk[d].stage \in {"locked", "free"} => desk[d].wish \in Wishes
    /\ desk[d].stage \in {"inserted", "released"} => visits[desk[d].code] # NoVisit
DesksCarry == \A d \in Desks : Carries(d)

Inv == TypeOK /\ DesksCarry /\ JobsHaveVisits

LEMMA InitInv == Init => Inv
BY BookingConstants DEF Init, Inv, TypeOK, DesksCarry, Carries, JobsHaveVisits, IdleDesk,
   Desk, Stages

\* A step of one desk keeps the type and the other desks when what it puts in
\* the desk's record is a desk.
LEMMA DeskStep ==
    ASSUME Inv, NEW d \in Desks, NEW k \in Desk, desk' = [desk EXCEPT ![d] = k],
           lock' \in SUBSET Codes, jobs' \subseteq jobs, UNCHANGED visits, Carries(d)'
    PROVE  Inv'
<1>1. TypeOK'
  BY DEF Inv, TypeOK
<1>2. \A e \in Desks \ {d} : desk'[e] = desk[e]
  BY DEF Inv, TypeOK
<1>3. DesksCarry'
  BY <1>2 DEF Inv, DesksCarry, Carries
<1>4. JobsHaveVisits'
  BY DEF Inv, JobsHaveVisits
<1> QED
  BY <1>1, <1>3, <1>4 DEF Inv

\* Cancelling a visit and issuing a cancelled one write the status of one row.
LEMMA StatusStep ==
    ASSUME Inv, NEW d \in Desks, NEW c \in Codes, CancelVisit(d, c) \/ IssueCancelled(d, c)
    PROVE  /\ UNCHANGED <<lock, jobs, desk>>
           /\ desk[d].stage \notin Creating
           /\ \A e \in Codes \ {c} : visits'[e] = visits[e]
           /\ visits[c] \in Row /\ visits'[c] \in Row
           /\ visits[c] # NoVisit /\ visits'[c] # NoVisit
           /\ visits'[c].wish = visits[c].wish /\ visits'[c].notified = visits[c].notified
           /\ CancelVisit(d, c) => Active(visits[c]) /\ ~Active(visits'[c])
           /\ IssueCancelled(d, c) => /\ ~Active(visits[c])
                                      /\ visits'[c].status = "reissued"
<1>1. PICK from \in {{"reserved", "reissued"}, {"cancelled"}}, to \in {"cancelled", "reissued"} :
        /\ SetStatus(d, c, from, to)
        /\ CancelVisit(d, c) => from = {"reserved", "reissued"} /\ to = "cancelled"
        /\ IssueCancelled(d, c) => from = {"cancelled"} /\ to = "reissued"
  <2>1. {"reserved", "reissued"} # {"cancelled"}
    OBVIOUS
  <2>2. CASE CancelVisit(d, c) /\ ~IssueCancelled(d, c)
    BY <2>2 DEF CancelVisit
  <2>3. CASE IssueCancelled(d, c) /\ ~CancelVisit(d, c)
    BY <2>3 DEF IssueCancelled
  <2>4. ~(IssueCancelled(d, c) /\ CancelVisit(d, c))
    BY DEF CancelVisit, IssueCancelled, SetStatus
  <2> QED
    BY <2>2, <2>3, <2>4
<1> DEFINE row == [visits[c] EXCEPT !.status = to]
<1>2. visits[c] \in Row /\ visits[c].status \in from
  BY <1>1 DEF SetStatus, Inv, TypeOK, NoVisit
<1>3. /\ row \in Row /\ row.status = to
      /\ row.wish = visits[c].wish /\ row.notified = visits[c].notified
  BY <1>2 DEF Row
<1>4. visits' = [visits EXCEPT ![c] = row]
  BY <1>1 DEF SetStatus
<1> HIDE DEF row
<1>5. visits'[c] = row /\ \A e \in Codes \ {c} : visits'[e] = visits[e]
  BY <1>4 DEF Inv, TypeOK
<1>6. visits[c] # NoVisit /\ row # NoVisit
  BY <1>2, <1>3 DEF NoVisit
<1> QED
  BY <1>1, <1>2, <1>3, <1>5, <1>6 DEF SetStatus, Active

LEMMA NextInv == Inv /\ [Next]_vars => Inv'
<1> SUFFICES ASSUME Inv, [Next]_vars PROVE Inv'
  OBVIOUS
<1> USE BookingConstants
<1>1. \A d \in Desks : desk[d] \in Desk /\ Carries(d)
  BY DEF Inv, TypeOK, DesksCarry
<1>2. IdleDesk \in Desk
  BY DEF IdleDesk, Desk, Stages
\* The two ways a request ends.
<1>3. ASSUME NEW d \in Desks, EndWithout(d), lock' \in SUBSET Codes, jobs' \subseteq jobs,
             UNCHANGED visits
      PROVE  Inv'
  <2>1. desk'[d] = IdleDesk
    BY <1>3 DEF EndWithout, Inv, TypeOK
  <2>2. Carries(d)'
    BY <2>1 DEF Carries, IdleDesk
  <2> QED
    BY <1>2, <1>3, <2>2, DeskStep DEF EndWithout
<1>4. ASSUME NEW d \in Desks, EndWithCode(d), desk[d].code \in Codes,
             lock' \in SUBSET Codes, jobs' \subseteq jobs, UNCHANGED visits
      PROVE  Inv'
  <2> DEFINE k == Previewed(desk[d].code)
  <2>1. k \in Desk
    <3>1. 0 \in 0..MaxAttempts /\ "previewed" \in Stages
      BY DEF BookingConstants, Stages
    <3> QED
      BY <1>4, <3>1 DEF Previewed, Desk
  <2>2. k.stage = "previewed" /\ k.code = desk[d].code
    BY DEF Previewed
  <2>3. desk' = [desk EXCEPT ![d] = k]
    BY <1>4 DEF EndWithCode
  <2> HIDE DEF k
  <2>4. desk'[d] = k
    BY <2>3 DEF Inv, TypeOK
  <2>5. Carries(d)'
    BY <1>4, <2>2, <2>4 DEF Carries
  <2> QED
    BY <1>4, <2>1, <2>3, <2>5, DeskStep
\* A step to another stage that carries along what the desk has.
<1>5. ASSUME NEW d \in Desks, NEW s \in Stages, Go(d, s), lock' \in SUBSET Codes,
             jobs' \subseteq jobs, UNCHANGED visits,
             s # "drawing" => desk[d].code \in Codes,
             s \in {"locked", "free"} => desk[d].wish \in Wishes,
             s \in {"inserted", "released"} => visits[desk[d].code] # NoVisit
      PROVE  Inv'
  <2> DEFINE k == [desk[d] EXCEPT !.stage = s]
  <2>1. k \in Desk /\ k.stage = s /\ k.code = desk[d].code /\ k.wish = desk[d].wish
    BY <1>1, <1>5 DEF Desk
  <2>2. desk' = [desk EXCEPT ![d] = k]
    BY <1>5 DEF Go
  <2> HIDE DEF k
  <2>3. desk'[d] = k
    BY <2>2 DEF Inv, TypeOK
  <2>4. Carries(d)'
    BY <1>5, <2>1, <2>3 DEF Carries
  <2> QED
    BY <1>5, <2>1, <2>2, <2>4, DeskStep
\* A step back to drawing, with no code in hand.
<1>6. ASSUME NEW d \in Desks, NEW k \in Desk, desk' = [desk EXCEPT ![d] = k],
             k.stage = "drawing", lock' \in SUBSET Codes, UNCHANGED <<visits, jobs>>
      PROVE  Inv'
  <2>1. desk'[d] = k
    BY <1>6 DEF Inv, TypeOK
  <2> QED
    BY <1>6, <2>1, DeskStep DEF Carries
<1>7. ASSUME NEW d \in Desks, StartPreview(d) PROVE Inv'
  <2>1. [IdleDesk EXCEPT !.stage = "drawing"] \in Desk
    BY DEF IdleDesk, Desk, Stages
  <2>2. [IdleDesk EXCEPT !.stage = "drawing"].stage = "drawing"
    BY DEF IdleDesk
  <2> QED
    BY <1>6, <1>7, <2>1, <2>2 DEF StartPreview, Inv, TypeOK
<1>8. ASSUME NEW d \in Desks, DrawCode(d) PROVE Inv'
  <2>1. PICK c \in Codes : desk' = [desk EXCEPT ![d] = Drawn(desk[d], c)]
    BY <1>8 DEF DrawCode
  <2>2. Drawn(desk[d], c) \in Desk
    <3>1. desk[d].attempts + 1 \in 0..MaxAttempts
      BY <1>1, <1>8 DEF DrawCode, Desk, BookingConstants
    <3>2. {"drawing", "drawn"} \subseteq Stages
      BY DEF Stages
    <3> QED
      BY <1>1, <3>1, <3>2 DEF Drawn, Desk
  <2>3. CASE c \in lock
    <3>1. Drawn(desk[d], c).stage = "drawing"
      BY <1>1, <2>3 DEF Drawn, Desk
    <3> QED
      BY <1>6, <1>8, <2>1, <2>2, <3>1 DEF DrawCode, Inv, TypeOK
  <2>4. CASE c \notin lock
    <3>1. Drawn(desk[d], c).stage = "drawn" /\ Drawn(desk[d], c).code = c
      BY <1>1, <2>4 DEF Drawn, Desk
    <3>2. desk'[d] = Drawn(desk[d], c)
      BY <2>1 DEF Inv, TypeOK
    <3>3. Carries(d)'
      BY <3>1, <3>2 DEF Carries
    <3> QED
      BY <1>8, <2>1, <2>2, <3>3, DeskStep DEF DrawCode, Inv, TypeOK
  <2> QED
    BY <2>3, <2>4
<1>9. ASSUME NEW d \in Desks, BackToDrawing(d), lock' \in SUBSET Codes,
             UNCHANGED <<visits, jobs>>
      PROVE  Inv'
  <2> DEFINE k == [desk[d] EXCEPT !.stage = "drawing", !.code = NoCode]
  <2>1. k \in Desk /\ k.stage = "drawing"
    BY <1>1 DEF Desk, Stages
  <2>2. desk' = [desk EXCEPT ![d] = k]
    BY <1>9 DEF BackToDrawing
  <2> HIDE DEF k
  <2> QED
    BY <1>6, <1>9, <2>1, <2>2
<1>10. ASSUME NEW d \in Desks, CheckUsed(d) PROVE Inv'
  BY <1>1, <1>5, <1>9, <1>10 DEF CheckUsed, At, Carries, Stages, Inv, TypeOK
<1>11. ASSUME NEW d \in Desks, ClaimCode(d) PROVE Inv'
  <2>1. desk[d].code \in Codes
    BY <1>1, <1>11 DEF ClaimCode, At, Carries
  <2> QED
    BY <1>4, <1>9, <1>11, <2>1 DEF ClaimCode, Inv, TypeOK
<1>12. ASSUME NEW d \in Desks, GiveUp(d) \/ PreviewFails(d) PROVE Inv'
  BY <1>3, <1>12 DEF GiveUp, PreviewFails, Inv, TypeOK
<1>13. ASSUME NEW d \in Desks, NEW w \in Wishes, Submit(d, w) PROVE Inv'
  <2> DEFINE k == [desk[d] EXCEPT !.stage = "locked", !.wish = w]
  <2>1. k \in Desk /\ k.stage = "locked" /\ k.code = desk[d].code /\ k.wish = w
    BY <1>1 DEF Desk, Stages
  <2>2. desk' = [desk EXCEPT ![d] = k]
    BY <1>13 DEF Submit
  <2> HIDE DEF k
  <2>3. desk'[d] = k
    BY <2>2 DEF Inv, TypeOK
  <2>4. Carries(d)'
    BY <1>1, <1>13, <2>1, <2>3 DEF Carries, Submit, At
  <2> QED
    BY <1>13, <2>1, <2>2, <2>4, DeskStep DEF Submit, Inv, TypeOK
<1>14. ASSUME NEW d \in Desks, CheckAvailability(d) PROVE Inv'
  BY <1>1, <1>4, <1>5, <1>14 DEF CheckAvailability, At, Carries, Stages, Inv, TypeOK
<1>15. ASSUME NEW d \in Desks, InsertVisit(d) PROVE Inv'
  <2> DEFINE c == desk[d].code
             k == [desk[d] EXCEPT !.stage = "inserted"]
  <2>1. c \in Codes /\ visits[c] = NoVisit /\ desk[d].wish \in Wishes
    BY <1>1, <1>15 DEF InsertVisit, CodeInsertable, At, Carries
  <2>2. PICK n \in BOOLEAN :
          visits' = [visits EXCEPT ![c] =
                       [wish |-> desk[d].wish, status |-> "reserved", notified |-> n]]
    BY <1>15 DEF InsertVisit
  <2> DEFINE row == [wish |-> desk[d].wish, status |-> "reserved", notified |-> n]
  <2>3. row \in Row /\ row # NoVisit
    <3>1. row \in Row
      BY <2>1 DEF Row
    <3>2. row.status # NoVisit.status
      BY DEF NoVisit
    <3> QED
      BY <3>1, <3>2
  <2>4. k \in Desk /\ k.stage = "inserted" /\ k.code = c
    BY <1>1 DEF Desk, Stages
  <2>5. desk' = [desk EXCEPT ![d] = k]
    BY <1>15 DEF InsertVisit, Go
  <2> HIDE DEF k, row, c
  <2>6. visits' \in [Codes -> Row \cup {NoVisit}] /\ desk' \in [Desks -> Desk]
    BY <2>1, <2>2, <2>3, <2>4, <2>5 DEF row, Inv, TypeOK
  <2>7. \A e \in Codes : IF e = c THEN visits'[e] # NoVisit ELSE visits'[e] = visits[e]
    BY <2>1, <2>2, <2>3 DEF row, Inv, TypeOK
  <2>8. DesksCarry'
    BY <1>1, <2>1, <2>4, <2>5, <2>7 DEF DesksCarry, Carries, Inv, TypeOK
  <2>9. JobsHaveVisits'
    BY <1>15, <2>1, <2>7 DEF JobsHaveVisits, Inv, TypeOK, InsertVisit
  <2> QED
    BY <1>15, <2>6, <2>8, <2>9 DEF InsertVisit, Inv, TypeOK
<1>16. ASSUME NEW d \in Desks, ReleaseLock(d) PROVE Inv'
  BY <1>1, <1>5, <1>16 DEF ReleaseLock, At, Carries, Stages, Inv, TypeOK
<1>17. ASSUME NEW d \in Desks, Enqueue(d) PROVE Inv'
  <2>1. desk[d].code \in Codes /\ visits[desk[d].code] # NoVisit
    BY <1>1, <1>17 DEF Enqueue, At, Carries
  <2>2. desk'[d] = IdleDesk /\ \A e \in Desks \ {d} : desk'[e] = desk[e]
    BY <1>17 DEF Enqueue, EndWithout, Inv, TypeOK
  <2>3. TypeOK'
    BY <1>2, <1>17, <2>1 DEF Enqueue, EndWithout, Inv, TypeOK
  <2>4. DesksCarry'
    BY <1>17, <2>2 DEF Enqueue, Inv, DesksCarry, Carries, IdleDesk
  <2>5. JobsHaveVisits'
    BY <1>17, <2>1 DEF Enqueue, Inv, JobsHaveVisits
  <2> QED
    BY <2>3, <2>4, <2>5 DEF Inv
<1>18. ASSUME NEW d \in Desks, CreateFails(d) PROVE Inv'
  BY <1>1, <1>4, <1>18 DEF CreateFails, Creating, Carries, Inv, TypeOK
<1>19. ASSUME NEW c \in Codes, Expire(c) PROVE Inv'
  BY <1>19 DEF Expire, Inv, TypeOK, DesksCarry, Carries, JobsHaveVisits
<1>20. ASSUME NEW d \in Desks, NEW c \in Codes, CancelVisit(d, c) \/ IssueCancelled(d, c)
       PROVE  Inv'
  <2>1. /\ UNCHANGED <<lock, jobs, desk>>
        /\ \A e \in Codes \ {c} : visits'[e] = visits[e]
        /\ visits'[c] \in Row /\ visits'[c] # NoVisit
        /\ visits'[c].notified = visits[c].notified
    BY <1>20, StatusStep
  <2>2. visits' \in [Codes -> Row \cup {NoVisit}]
    <3>1. visits' = [visits EXCEPT ![c] = visits'[c]]
      BY <1>20 DEF CancelVisit, IssueCancelled, SetStatus, Inv, TypeOK
    <3> QED
      BY <2>1, <3>1 DEF Inv, TypeOK
  <2>3. TypeOK'
    BY <2>1, <2>2 DEF Inv, TypeOK
  <2>4. DesksCarry' /\ JobsHaveVisits'
    BY <2>1 DEF Inv, TypeOK, DesksCarry, Carries, JobsHaveVisits
  <2> QED
    BY <2>3, <2>4 DEF Inv
<1>21. CASE UNCHANGED vars
  BY <1>21 DEF vars, Inv, TypeOK, DesksCarry, Carries, JobsHaveVisits
<1> QED
  BY <1>7, <1>8, <1>10, <1>11, <1>12, <1>13, <1>14, <1>15, <1>16, <1>17, <1>18, <1>19,
     <1>20, <1>21 DEF Next

LEMMA AlwaysInv == Spec => []Inv
BY InitInv, NextInv, PTL DEF Spec

\* What the model's Redis, rows, queue and requests hold has the declared types.
THEOREM BookingTypeCorrect == Spec => []TypeOK
<1>1. Inv => TypeOK
  BY DEF Inv
<1> QED
  BY <1>1, AlwaysInv, PTL

\* createVisit queues a job only for a visit and a notification that are
\* committed, whatever expires, fails or interleaves.
THEOREM JobsAlwaysHaveVisits == Spec => []JobsHaveVisits
<1>1. Inv => JobsHaveVisits
  BY DEF Inv
<1> QED
  BY <1>1, AlwaysInv, PTL

\* The only steps that write a row: the insert, where no row was, and those that
\* write its status.
LEMMA StepKeepsRows == Inv /\ [Next]_vars => RowsKept
<1> SUFFICES ASSUME Inv, [Next]_vars PROVE RowsKept
  OBVIOUS
<1>1. CASE UNCHANGED visits
  BY <1>1 DEF RowsKept
<1>2. ASSUME NEW d \in Desks, InsertVisit(d) PROVE RowsKept
  BY <1>2 DEF InsertVisit, CodeInsertable, RowsKept, Inv, TypeOK
<1>3. ASSUME NEW d \in Desks, NEW c \in Codes, CancelVisit(d, c) \/ IssueCancelled(d, c)
      PROVE  RowsKept
  BY <1>3, StatusStep DEF RowsKept
<1> QED
  BY <1>1, <1>2, <1>3 DEF Next, vars, StartPreview, DrawCode, CheckUsed, ClaimCode, GiveUp,
     Submit, CheckAvailability, ReleaseLock, Enqueue, CreateFails, PreviewFails, Expire

\* Two desks may hold the same code after a lock expired; the second insert
\* fails instead of replacing the first visit.
THEOREM RowsNeverReplaced == Spec => VisitsNeverReplaced
<1>1. Inv /\ [Next]_vars => [RowsKept]_vars
  BY StepKeepsRows
<1> QED
  BY <1>1, AlwaysInv, PTL DEF Spec, VisitsNeverReplaced

-----------------------------------------------------------------------------
(* The loop of generatePreviewCode counts its turns.                       *)

\* What is left to a desk by its stage; the attempts of a desk stay in their bound.
LEMMA StepsLeftRange ==
    ASSUME NEW k \in Desk
    PROVE  /\ MaxAttempts - k.attempts \in Nat
           /\ k.stage = "drawing" => StepsLeft(k) = 3 * (MaxAttempts - k.attempts) + 1
           /\ k.stage = "drawn" => StepsLeft(k) = 3 * (MaxAttempts - k.attempts) + 3
           /\ k.stage = "unused" => StepsLeft(k) = 3 * (MaxAttempts - k.attempts) + 2
           /\ k.stage \in {"idle", "previewed"} => StepsLeft(k) = 0
<1>1. MaxAttempts - k.attempts \in Nat
  BY BookingConstants DEF Desk
<1> QED
  BY <1>1 DEF StepsLeft

LEMMA PreviewStepCounts ==
    ASSUME Inv, Inv', NEW d \in Desks, PreviewStep(d)
    PROVE  StepsLeft(desk'[d]) \in 0..(StepsLeft(desk[d]) - 1)
<1> DEFINE k == desk[d]
           l == desk'[d]
<1>1. k \in Desk /\ l \in Desk /\ desk \in [Desks -> Desk]
  BY DEF Inv, TypeOK
<1>2. CASE DrawCode(d)
  <2>1. PICK c \in Codes : desk' = [desk EXCEPT ![d] = Drawn(desk[d], c)]
    BY <1>2 DEF DrawCode
  <2>2. k.stage = "drawing" /\ l.attempts = k.attempts + 1 /\ l.stage \in {"drawing", "drawn"}
    BY <1>1, <1>2, <2>1 DEF DrawCode, At, Drawn, Desk
  <2> HIDE DEF k, l
  <2>3. k.attempts \in Int /\ l.attempts \in Int /\ MaxAttempts \in Int
    BY <1>1, BookingConstants DEF Desk
  <2>4. StepsLeft(l) \in 0..(StepsLeft(k) - 1)
    BY <1>1, <2>2, <2>3, StepsLeftRange
  <2> QED
    BY <2>4 DEF k, l
<1>3. CASE CheckUsed(d)
  <2>1. k.stage = "drawn" /\ l.attempts = k.attempts /\ l.stage \in {"drawing", "unused"}
    <3>1. k.stage = "drawn" /\ (Go(d, "unused") \/ BackToDrawing(d))
      BY <1>3 DEF CheckUsed, At
    <3>2. \/ l = [k EXCEPT !.stage = "unused"]
          \/ l = [k EXCEPT !.stage = "drawing", !.code = NoCode]
      BY <1>1, <3>1 DEF Go, BackToDrawing
    <3> HIDE DEF k, l
    <3> QED
      BY <1>1, <3>1, <3>2 DEF Desk
  <2> HIDE DEF k, l
  <2>2. k.attempts \in Int /\ MaxAttempts \in Int
    BY <1>1, BookingConstants DEF Desk
  <2>3. StepsLeft(l) \in 0..(StepsLeft(k) - 1)
    BY <1>1, <2>1, <2>2, StepsLeftRange
  <2> QED
    BY <2>3 DEF k, l
<1>4. CASE ClaimCode(d)
  <2>1. /\ k.stage = "unused"
        /\ \/ l.stage = "drawing" /\ l.attempts = k.attempts
           \/ l.stage = "previewed"
    <3>1. k.stage = "unused" /\ (EndWithCode(d) \/ BackToDrawing(d))
      BY <1>4 DEF ClaimCode, At
    <3>2. \/ l = Previewed(k.code)
          \/ l = [k EXCEPT !.stage = "drawing", !.code = NoCode]
      BY <1>1, <3>1 DEF EndWithCode, BackToDrawing
    <3> HIDE DEF k, l
    <3>3. CASE l = Previewed(k.code)
      BY <3>1, <3>3 DEF Previewed
    <3>4. CASE l = [k EXCEPT !.stage = "drawing", !.code = NoCode]
      BY <1>1, <3>1, <3>4 DEF Desk
    <3> QED
      BY <3>2, <3>3, <3>4
  <2> HIDE DEF k, l
  <2>2. k.attempts \in Int /\ MaxAttempts \in Int
    BY <1>1, BookingConstants DEF Desk
  <2>3. StepsLeft(l) \in 0..(StepsLeft(k) - 1)
    BY <1>1, <2>1, <2>2, StepsLeftRange
  <2> QED
    BY <2>3 DEF k, l
<1>5. CASE GiveUp(d)
  <2>1. k.stage = "drawing" /\ l.stage = "idle"
    BY <1>1, <1>5 DEF GiveUp, At, EndWithout, IdleDesk
  <2> HIDE DEF k, l
  <2>2. StepsLeft(l) \in 0..(StepsLeft(k) - 1)
    BY <1>1, <2>1, StepsLeftRange
  <2> QED
    BY <2>2 DEF k, l
<1> QED
  BY <1>2, <1>3, <1>4, <1>5 DEF PreviewStep

\* However many codes are locked or used, and whatever other desks do between its calls,
\* a preview request is at most 3 * MaxAttempts + 1 of its own calls from its answer.
THEOREM PreviewsProgress == Spec => PreviewProgress
<1>1. ASSUME Inv, Inv', [Next]_vars
      PROVE  [\A d \in Desks : PreviewStep(d) =>
                 StepsLeft(desk'[d]) \in 0..(StepsLeft(desk[d]) - 1)]_vars
  BY <1>1, PreviewStepCounts
<1> QED
  BY <1>1, AlwaysInv, PTL DEF Spec, PreviewProgress

-----------------------------------------------------------------------------
(* One desk at a time: what it found free is still free when it inserts.   *)

OneDesk == \A d, e \in Desks : d = e

\* A request names each costume in one order only.
EachOnce == \A w \in Wishes : \A i, j \in DOMAIN w.costumes :
                w.costumes[i] = w.costumes[j] => i = j

StillFree == \A d \in Desks : At(d, "free") => Available(desk[d].wish)

Serial == Inv /\ StillFree

LEMMA InitStillFree == Init => StillFree
BY DEF Init, StillFree, At, IdleDesk

\* Changing rows only by cancelling leaves free what was free.
LEMMA AvailableKept ==
    ASSUME NEW w, Available(w),
           \A c \in Codes : Active(visits'[c]) =>
               Active(visits[c]) /\ visits'[c].wish = visits[c].wish
    PROVE  Available(w)'
BY DEF Available, Active

\* The rows after a step other than the insert and the issue of a cancelled visit.
LEMMA OthersActivateNothing ==
    ASSUME Inv, [Next]_vars, \A d \in Desks : ~InsertVisit(d),
           \A d \in Desks, c \in Codes : ~IssueCancelled(d, c)
    PROVE  \A c \in Codes : Active(visits'[c]) =>
               Active(visits[c]) /\ visits'[c] = visits[c]
<1>1. CASE UNCHANGED visits
  BY <1>1
<1>2. ASSUME NEW d \in Desks, NEW c \in Codes, CancelVisit(d, c)
      PROVE  \A e \in Codes : Active(visits'[e]) => Active(visits[e]) /\ visits'[e] = visits[e]
  BY <1>2, StatusStep
<1> QED
  BY <1>1, <1>2 DEF Next, vars, StartPreview, DrawCode, CheckUsed, ClaimCode, GiveUp,
     Submit, CheckAvailability, ReleaseLock, Enqueue, CreateFails, PreviewFails, Expire

\* Only a successful check of the availability leads to the insert.
LEMMA OnlyCheckFrees ==
    ASSUME Inv, [Next]_vars, NEW d \in Desks, At(d, "free")'
    PROVE  \/ At(d, "free") /\ desk'[d].wish = desk[d].wish
           \/ Available(desk[d].wish) /\ desk'[d].wish = desk[d].wish /\ UNCHANGED visits
<1>1. CASE UNCHANGED desk
  BY <1>1 DEF At
<1>2. ASSUME NEW e \in Desks, NEW k, desk' = [desk EXCEPT ![e] = k], k.stage # "free"
      PROVE  At(d, "free") /\ desk'[d].wish = desk[d].wish
  BY <1>2 DEF At, Inv, TypeOK
<1>3. \A e \in Desks : desk[e] \in Desk
  BY DEF Inv, TypeOK
<1>4. ASSUME NEW e \in Desks, EndWithout(e)
      PROVE  At(d, "free") /\ desk'[d].wish = desk[d].wish
  <2>1. IdleDesk.stage = "idle"
    BY DEF IdleDesk
  <2> QED
    BY <1>2, <1>4, <2>1 DEF EndWithout
<1>5. ASSUME NEW e \in Desks, EndWithCode(e)
      PROVE  At(d, "free") /\ desk'[d].wish = desk[d].wish
  <2>1. Previewed(desk[e].code).stage = "previewed"
    BY DEF Previewed
  <2> QED
    BY <1>2, <1>5, <2>1 DEF EndWithCode
<1>6. ASSUME NEW e \in Desks, CheckAvailability(e)
      PROVE  \/ At(d, "free") /\ desk'[d].wish = desk[d].wish
             \/ Available(desk[d].wish) /\ desk'[d].wish = desk[d].wish /\ UNCHANGED visits
  <2>1. CASE e = d /\ Available(desk[d].wish) /\ Go(d, "free")
    <3>1. desk'[d].wish = desk[d].wish
      BY <1>3, <2>1 DEF Go, Desk, Inv, TypeOK
    <3> QED
      BY <1>6, <2>1, <3>1 DEF CheckAvailability
  <2>2. CASE e # d /\ Go(e, "free")
    BY <2>2 DEF Go, At, Inv, TypeOK
  <2>3. CASE EndWithCode(e)
    BY <1>5, <2>3
  <2> QED
    BY <1>6, <2>1, <2>2, <2>3 DEF CheckAvailability
<1>7. ASSUME NEW e \in Desks, NEW s \in Stages \ {"free"}, Go(e, s)
      PROVE  At(d, "free") /\ desk'[d].wish = desk[d].wish
  <2>1. [desk[e] EXCEPT !.stage = s].stage = s
    BY <1>3 DEF Desk
  <2> QED
    BY <1>2, <1>7, <2>1 DEF Go
<1>8. ASSUME NEW e \in Desks, BackToDrawing(e)
      PROVE  At(d, "free") /\ desk'[d].wish = desk[d].wish
  <2>1. [desk[e] EXCEPT !.stage = "drawing", !.code = NoCode].stage = "drawing"
    BY <1>3 DEF Desk
  <2> QED
    BY <1>2, <1>8, <2>1 DEF BackToDrawing
<1>9. ASSUME NEW e \in Desks, StartPreview(e)
      PROVE  At(d, "free") /\ desk'[d].wish = desk[d].wish
  <2>1. [IdleDesk EXCEPT !.stage = "drawing"].stage = "drawing"
    BY DEF IdleDesk
  <2> QED
    BY <1>2, <1>9, <2>1 DEF StartPreview
<1>10. ASSUME NEW e \in Desks, DrawCode(e)
       PROVE  At(d, "free") /\ desk'[d].wish = desk[d].wish
  <2>1. \A c \in Codes : Drawn(desk[e], c).stage \in {"drawing", "drawn"}
    BY <1>3 DEF Drawn, Desk
  <2>2. PICK c \in Codes : desk' = [desk EXCEPT ![e] = Drawn(desk[e], c)]
    BY <1>10 DEF DrawCode
  <2> QED
    BY <1>2, <2>1, <2>2
<1>11. ASSUME NEW e \in Desks, NEW w \in Wishes, Submit(e, w)
       PROVE  At(d, "free") /\ desk'[d].wish = desk[d].wish
  <2>1. [desk[e] EXCEPT !.stage = "locked", !.wish = w].stage = "locked"
    BY <1>3 DEF Desk
  <2> QED
    BY <1>2, <1>11, <2>1 DEF Submit
<1>12. ASSUME NEW e \in Desks, \/ CheckUsed(e) \/ ClaimCode(e) \/ GiveUp(e) \/ InsertVisit(e)
                               \/ ReleaseLock(e) \/ Enqueue(e) \/ CreateFails(e)
                               \/ PreviewFails(e)
       PROVE  At(d, "free") /\ desk'[d].wish = desk[d].wish
  <2>1. {"unused", "inserted", "released"} \subseteq Stages \ {"free"}
    BY DEF Stages
  <2> QED
    BY <1>4, <1>5, <1>7, <1>8, <1>12, <2>1 DEF CheckUsed, ClaimCode, GiveUp, InsertVisit,
       ReleaseLock, Enqueue, CreateFails, PreviewFails
<1> QED
  BY <1>1, <1>6, <1>9, <1>10, <1>11, <1>12 DEF Next, vars, Expire, CancelVisit,
     IssueCancelled, SetStatus

LEMMA NextStillFree ==
    ASSUME OneDesk, Serial, [Next]_vars
    PROVE  StillFree'
<1> SUFFICES ASSUME NEW d \in Desks, At(d, "free")' PROVE Available(desk[d].wish)'
  BY DEF StillFree
<1>1. CASE /\ \A e \in Desks : ~InsertVisit(e)
           /\ \A e \in Desks, c \in Codes : ~IssueCancelled(e, c)
  <2>1. Available(desk[d].wish) /\ desk'[d].wish = desk[d].wish
    BY OnlyCheckFrees DEF Serial, StillFree
  <2>2. ASSUME NEW w, Available(w) PROVE Available(w)'
    BY <1>1, <2>2, OthersActivateNothing, AvailableKept DEF Serial
  <2>3. Available(desk[d].wish)'
    BY <2>1, <2>2 DEF Available
  <2> QED
    BY <2>3
<1>2. CASE \E e \in Desks : InsertVisit(e)
  <2>1. InsertVisit(d)
    BY <1>2 DEF OneDesk
  <2>2. desk'[d].stage = "inserted"
    BY <2>1 DEF InsertVisit, Go, Serial, Inv, TypeOK, Desk
  <2> QED
    BY <2>2 DEF At
\* The desk itself issues the visit, so it has no request past the check.
<1>3. CASE \E e \in Desks, c \in Codes : IssueCancelled(e, c)
  <2>1. PICK c \in Codes : IssueCancelled(d, c)
    BY <1>3 DEF OneDesk
  <2> QED
    BY <2>1 DEF IssueCancelled, SetStatus, Creating, At
<1> QED
  BY <1>1, <1>2, <1>3

LEMMA AlwaysSerial == ASSUME OneDesk PROVE Spec => []Serial
<1>1. Init => Serial
  BY InitInv, InitStillFree DEF Serial
<1>2. Serial /\ [Next]_vars => Serial'
  BY NextInv, NextStillFree DEF Serial
<1> QED
  BY <1>1, <1>2, PTL DEF Spec

\* The inserted visit next to those that were there.
LEMMA InsertNoDouble ==
    ASSUME EachOnce, Serial, NoDoubleBooking, NEW d \in Desks, InsertVisit(d)
    PROVE  NoDoubleBooking'
<1> DEFINE c == desk[d].code
           w == desk[d].wish
<1>1. c \in Codes /\ w \in Wishes /\ Available(w) /\ At(d, "free")
  BY DEF InsertVisit, Serial, StillFree, Inv, DesksCarry, Carries, At
<1>2. visits'[c].wish = w /\ \A e \in Codes \ {c} : visits'[e] = visits[e]
  BY <1>1 DEF InsertVisit, Serial, Inv, TypeOK
<1> HIDE DEF c, w
<1>3. \A i, j \in DOMAIN w.costumes : w.costumes[i] = w.costumes[j] => i = j
  BY <1>1 DEF EachOnce
<1>4. ASSUME NEW e \in Codes \ {c}, Active(visits'[e]), Overlap(visits'[e].wish, w)
      PROVE  \A i \in DOMAIN w.costumes, j \in DOMAIN visits'[e].wish.costumes :
                 w.costumes[i] # visits'[e].wish.costumes[j]
  BY <1>1, <1>2, <1>4 DEF Available
<1>5. \A a, b : Overlap(a, b) <=> Overlap(b, a)
  BY DEF Overlap
<1> SUFFICES ASSUME NEW e \in Codes, NEW f \in Codes,
                    Active(visits'[e]), Active(visits'[f]),
                    Overlap(visits'[e].wish, visits'[f].wish),
                    NEW i \in DOMAIN visits'[e].wish.costumes,
                    NEW j \in DOMAIN visits'[f].wish.costumes,
                    visits'[e].wish.costumes[i] = visits'[f].wish.costumes[j]
             PROVE  \/ e = f /\ i = j
                    \/ e # f /\ "reissued" \in {visits'[e].status, visits'[f].status}
  BY DEF NoDoubleBooking
<1>6. CASE e = c /\ f = c
  BY <1>2, <1>3, <1>6
<1>7. CASE e # c /\ f = c
  BY <1>2, <1>4, <1>7
<1>8. CASE e = c /\ f # c
  BY <1>2, <1>4, <1>5, <1>8
<1>9. CASE e # c /\ f # c
  BY <1>2, <1>9 DEF NoDoubleBooking
<1> QED
  BY <1>6, <1>7, <1>8, <1>9

\* A visit that comes back next to those that are there.
LEMMA ReissueNoDouble ==
    ASSUME EachOnce, Inv, NoDoubleBooking, NEW d \in Desks, NEW c \in Codes,
           IssueCancelled(d, c)
    PROVE  NoDoubleBooking'
<1>1. /\ visits'[c].status = "reissued" /\ visits'[c].wish \in Wishes
      /\ \A e \in Codes \ {c} : visits'[e] = visits[e]
  BY StatusStep DEF Row
<1> SUFFICES ASSUME NEW e \in Codes, NEW f \in Codes,
                    Active(visits'[e]), Active(visits'[f]),
                    Overlap(visits'[e].wish, visits'[f].wish),
                    NEW i \in DOMAIN visits'[e].wish.costumes,
                    NEW j \in DOMAIN visits'[f].wish.costumes,
                    visits'[e].wish.costumes[i] = visits'[f].wish.costumes[j]
             PROVE  \/ e = f /\ i = j
                    \/ e # f /\ "reissued" \in {visits'[e].status, visits'[f].status}
  BY DEF NoDoubleBooking
<1>2. CASE e = c /\ f = c
  BY <1>1, <1>2 DEF EachOnce
<1>3. CASE e # f /\ c \in {e, f}
  BY <1>1, <1>3
<1>4. CASE e # c /\ f # c
  BY <1>1, <1>4 DEF NoDoubleBooking
<1> QED
  BY <1>2, <1>3, <1>4

\* When one desk works at a time and a request names a costume once, no costume
\* is promised twice for overlapping periods but to a visit that was issued after
\* it had been cancelled, with any periods, any costumes, and codes whose locks
\* expire at any moment.
THEOREM SerialNoDoubleBooking == ASSUME OneDesk, EachOnce PROVE Spec => []NoDoubleBooking
<1>1. Init => NoDoubleBooking
  BY DEF Init, NoDoubleBooking, Active, NoVisit
<1>2. Serial /\ NoDoubleBooking /\ [Next]_vars => NoDoubleBooking'
  <2> SUFFICES ASSUME Serial, NoDoubleBooking, [Next]_vars PROVE NoDoubleBooking'
    OBVIOUS
  <2>1. CASE \E d \in Desks : InsertVisit(d)
    BY <2>1, InsertNoDouble
  <2>2. CASE \E d \in Desks, c \in Codes : IssueCancelled(d, c)
    BY <2>2, ReissueNoDouble DEF Serial
  <2>3. CASE /\ \A d \in Desks : ~InsertVisit(d)
             /\ \A d \in Desks, c \in Codes : ~IssueCancelled(d, c)
    <3>1. \A c \in Codes : Active(visits'[c]) => Active(visits[c]) /\ visits'[c] = visits[c]
      BY <2>3, OthersActivateNothing DEF Serial
    <3> QED
      BY <3>1 DEF NoDoubleBooking
  <2> QED
    BY <2>1, <2>2, <2>3
<1> QED
  BY <1>1, <1>2, AlwaysSerial, PTL DEF Spec

-----------------------------------------------------------------------------
(* The refinement.                                                         *)

used == {c \in Codes : visits[c] # NoVisit}
promised == [c \in Codes |-> PromisesOf(visits[c])]
held == {c \in Codes : Active(visits[c])}

\* What is available can be promised next to every promise that stands.
LEMMA AvailableIsFree ==
    ASSUME Inv, NEW w \in Wishes, Available(w), NEW i \in DOMAIN w.costumes
    PROVE  Calendar!Free([costume |-> w.costumes[i], from |-> w.from, to |-> w.to])
<1> DEFINE p == [costume |-> w.costumes[i], from |-> w.from, to |-> w.to]
<1> SUFFICES ASSUME NEW c \in held, NEW q \in PromisesOf(visits[c]), q.costume = p.costume
             PROVE  ~Calendar!Overlap(p, q)
  BY DEF Calendar!Free, held
<1>1. c \in Codes /\ Active(visits[c])
  BY DEF held
<1>2. PICK j \in DOMAIN visits[c].wish.costumes :
        q = [costume |-> visits[c].wish.costumes[j], from |-> visits[c].wish.from,
             to |-> visits[c].wish.to]
  BY DEF PromisesOf
<1>3. ~Overlap(visits[c].wish, w)
  BY <1>1, <1>2 DEF Available
<1> QED
  BY <1>2, <1>3 DEF Overlap, Calendar!Overlap

LEMMA InsertBooks ==
    ASSUME Serial, NEW d \in Desks, InsertVisit(d)
    PROVE  \E c \in Codes : Calendar!Book(c, promised'[c])
<1> DEFINE c == desk[d].code
           w == desk[d].wish
<1>1. c \in Codes /\ w \in Wishes /\ Available(w) /\ visits[c] = NoVisit
  BY DEF InsertVisit, CodeInsertable, Serial, StillFree, Inv, DesksCarry, Carries, At
<1>2. PICK n \in BOOLEAN : visits' = [visits EXCEPT ![c] =
                              [wish |-> w, status |-> "reserved", notified |-> n]]
  BY DEF InsertVisit
<1> DEFINE row == [wish |-> w, status |-> "reserved", notified |-> n]
           ps == {[costume |-> w.costumes[i], from |-> w.from, to |-> w.to] :
                     i \in DOMAIN w.costumes}
<1>3. row # NoVisit /\ Active(row)
  <2>1. row.status # NoVisit.status
    BY DEF NoVisit
  <2> QED
    BY <2>1 DEF Active
<1>4. PromisesOf(row) = ps
  BY <1>3 DEF PromisesOf
<1> HIDE DEF c, w, row
<1>5. visits'[c] = row /\ \A e \in Codes \ {c} : visits'[e] = visits[e]
  BY <1>1, <1>2 DEF row, Serial, Inv, TypeOK
<1>6. promised' = [promised EXCEPT ![c] = ps]
  BY <1>1, <1>4, <1>5 DEF promised
<1>7. used' = used \cup {c} /\ held' = held \cup {c}
  BY <1>1, <1>3, <1>5 DEF used, held
<1>8. ps \subseteq Calendar!Promise
  BY <1>1, BookingConstants DEF Calendar!Promise
<1>9. \A p \in ps : Calendar!Free(p)
  BY <1>1, AvailableIsFree DEF Serial
<1>10. c \notin used
  BY <1>1 DEF used
<1>11. promised'[c] = ps
  BY <1>1, <1>6 DEF promised
<1> HIDE DEF ps
<1> QED
  BY <1>1, <1>6, <1>7, <1>8, <1>9, <1>10, <1>11 DEF Calendar!Book, used, promised, held

\* A visit is dropped by cancelling it and taken up again by issuing it.
LEMMA StatusMoves ==
    ASSUME Inv, NEW d \in Desks, NEW c \in Codes, CancelVisit(d, c) \/ IssueCancelled(d, c)
    PROVE  Calendar!Drop(c) \/ Calendar!TakeUp(c)
<1>1. /\ \A e \in Codes \ {c} : visits'[e] = visits[e]
      /\ visits[c] # NoVisit /\ visits'[c] # NoVisit
      /\ visits'[c].wish = visits[c].wish
  BY StatusStep
<1>2. UNCHANGED <<used, promised>>
  BY <1>1 DEF used, promised, PromisesOf
<1>3. c \in used
  BY <1>1 DEF used
<1>4. CASE CancelVisit(d, c)
  <2>1. Active(visits[c]) /\ ~Active(visits'[c])
    BY <1>4, StatusStep
  <2>2. c \in held /\ held' = held \ {c}
    BY <1>1, <2>1 DEF held
  <2> QED
    BY <1>2, <2>2 DEF Calendar!Drop, used, promised, held
<1>5. CASE IssueCancelled(d, c)
  <2>1. ~Active(visits[c]) /\ Active(visits'[c])
    BY <1>5, StatusStep DEF Active
  <2>2. c \notin held /\ held' = held \cup {c}
    BY <1>1, <2>1 DEF held
  <2> QED
    BY <1>2, <1>3, <2>2 DEF Calendar!TakeUp, used, promised, held
<1> QED
  BY <1>4, <1>5

\* One desk at a time implements the calendar: only the insert books, only
\* cancelling drops and only the issue of a cancelled visit takes up again,
\* whatever fails, expires or is repeated in between.
THEOREM SerialImplementsCalendar == ASSUME OneDesk PROVE Spec => ImplementsCalendar
<1>1. Init => Calendar!Init
  BY DEF Init, Calendar!Init, PromisesOf, Active, NoVisit
<1>2. Serial /\ [Next]_vars => [Calendar!Next]_(Calendar!vars)
  <2> SUFFICES ASSUME Serial, [Next]_vars PROVE [Calendar!Next]_(Calendar!vars)
    OBVIOUS
  <2>1. CASE UNCHANGED visits
    BY <2>1 DEF Calendar!vars
  <2>2. CASE \E d \in Desks : InsertVisit(d)
    BY <2>2, InsertBooks DEF Calendar!Next, promised
  <2>3. CASE \E d \in Desks, c \in Codes : CancelVisit(d, c) \/ IssueCancelled(d, c)
    BY <2>3, StatusMoves DEF Calendar!Next, Serial
  <2> QED
    BY <2>1, <2>2, <2>3 DEF Next, vars, StartPreview, DrawCode, CheckUsed, ClaimCode,
       GiveUp, Submit, CheckAvailability, ReleaseLock, Enqueue, CreateFails, PreviewFails,
       Expire
<1> QED
  BY <1>1, <1>2, AlwaysSerial, PTL DEF Spec, ImplementsCalendar, Calendar!Spec
=============================================================================
