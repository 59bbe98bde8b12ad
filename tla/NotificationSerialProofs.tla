---------------------- MODULE NotificationSerialProofs ----------------------
(***************************************************************************)
(* Proofs about NotificationDelivery when one call at a time is served next *)
(* to the worker: what a call has read is then changed by nobody else, or  *)
(* only by the worker, whose statuses any progress of a message outranks.  *)
(***************************************************************************)
EXTENDS NotificationDelivery, NotificationProofs, TLAPS

\* At most one webhook or resend is in progress.
OneCall == \A g, h \in Handlers : g = h

\* Green-API does not report that a message waits in our queue.
NoPendingReport == "pending" \notin Reports

\* No call fails half-way, the process and the instance stay up, and a resend
\* goes to the number of before.
Calm == ~Faults /\ ~MayLogOut /\ Kinds = {"resend"}

-----------------------------------------------------------------------------
(* A webhook never takes a status back.                                    *)

\* Since a report was read, the status became none that it would take back.
ReportStillAhead ==
    \A h \in Handlers : handler[h].kind = "outgoing" /\ Outranks(handler[h]) =>
        Priority(status[handler[h].n]) <= Priority(handler[h].new)

LEMMA Ranks ==
    /\ Priority("failed") = 1 /\ Priority("pending") = 2 /\ Priority("sent") = 3
    /\ \A s \in Status : Priority(s) \in 1..7 /\ Rank[Priority(s)] = s
<1>1. DOMAIN Rank = 1..7
  BY DEF Rank
<1>2. /\ Rank[1] = "failed" /\ Rank[2] = "pending" /\ Rank[3] = "sent"
      /\ Rank[4] = "delivered" /\ Rank[5] = "read" /\ Rank[6] = "isConfirmed"
      /\ Rank[7] = "noAccount"
  BY DEF Rank
<1>3. \A s \in Status : \E i \in 1..7 : Rank[i] = s
  <2>1. {1, 2, 3, 4, 5, 6, 7} \subseteq 1..7
    OBVIOUS
  <2> QED
    BY <1>2, <2>1 DEF Status
<1>4. \A s \in Status : Priority(s) \in 1..7 /\ Rank[Priority(s)] = s
  BY <1>1, <1>3 DEF Priority
<1>5. \A i \in 1..7 : /\ Rank[i] = "failed" => i = 1
                      /\ Rank[i] = "pending" => i = 2
                      /\ Rank[i] = "sent" => i = 3
  BY <1>2
<1> QED
  BY <1>4, <1>5 DEF Status

\* A report that outranks anything outranks what the worker writes.
LEMMA ReportRank ==
    ASSUME NoPendingReport, TypeOK, NEW h \in Handlers, handler[h].kind = "outgoing",
           Outranks(handler[h])
    PROVE  Priority(handler[h].new) \in 3..7
<1>1. handler[h].new \in Reports /\ handler[h].seen \in Status
  BY CallFields
<1>2. Priority(handler[h].new) > Priority(handler[h].seen) /\ Priority(handler[h].seen) >= 1
  BY <1>1, Ranks DEF Outranks
<1>3. handler[h].new \in Status
  BY <1>1, <1>2, PriorityRange, Ranks
<1>4. handler[h].new # "failed" /\ handler[h].new # "pending"
  BY <1>1, <1>2, Ranks DEF NoPendingReport
<1>5. Priority(handler[h].new) # 1 /\ Priority(handler[h].new) # 2
  BY <1>3, <1>4, Ranks DEF Rank
<1> QED
  BY <1>3, <1>5, Ranks

LEMMA AheadStep ==
    ASSUME OneCall, NoPendingReport, TypeOK, ReportStillAhead, [Next]_vars
    PROVE  ReportStillAhead'
<1>1. CASE UNCHANGED <<status, handler>>
  BY <1>1 DEF ReportStillAhead, Outranks
<1>2. ASSUME Record \/ RecordFailure
      PROVE  ReportStillAhead'
  <2>1. worker \in Working
    BY <1>2, WorkerFields, WorkerBusy DEF Record, RecordFailure, WorkerSteps
  <2>2. handler' = handler
    BY <1>2 DEF Record, RecordFailure
  <2>3. \A n \in Notifications : \/ status'[n] = status[n]
                                 \/ Priority(status'[n]) <= 3
    BY <1>2, <2>1, Ranks DEF Record, RecordFailure, TypeOK, Working
  <2>4. ASSUME NEW h \in Handlers, handler[h].kind = "outgoing", Outranks(handler[h])
        PROVE  Priority(status'[handler[h].n]) <= Priority(handler[h].new)
    <3>1. handler[h].n \in Notifications
      BY <2>4, CallFields
    <3>2. Priority(handler[h].new) \in 3..7
      BY <2>4, ReportRank
    <3>3. CASE status'[handler[h].n] = status[handler[h].n]
      BY <2>4, <3>3 DEF ReportStillAhead
    <3>4. CASE Priority(status'[handler[h].n]) <= 3
      <4>1. status'[handler[h].n] \in Status
        BY <1>2, <2>1, <3>1 DEF Record, RecordFailure, TypeOK, Working, Status
      <4> QED
        BY <3>2, <3>4, <4>1, Ranks
    <3> QED
      BY <2>3, <3>1, <3>3, <3>4
  <2> QED
    BY <2>2, <2>4 DEF ReportStillAhead, Outranks
<1>3. ASSUME NEW h \in Handlers, NEW m \in DOMAIN sent, NEW s \in Reports, ReadOutgoing(h, m, s)
      PROVE  ReportStillAhead'
  <2>1. PICK n \in Notifications :
           handler' = [handler EXCEPT ![h] =
                         [kind |-> "outgoing", n |-> n, new |-> s, seen |-> status[n]]]
    BY <1>3 DEF ReadOutgoing
  <2>2. \A g \in Handlers : g = h
    BY DEF OneCall
  <2>3. handler'[h] = [kind |-> "outgoing", n |-> n, new |-> s, seen |-> status[n]]
        /\ status' = status
    BY <1>3, <2>1 DEF TypeOK, ReadOutgoing, rows
  <2>4. ASSUME Priority(s) > Priority(status[n])
        PROVE  Priority(status[n]) <= Priority(s)
    <3>1. Priority(s) \in Int /\ Priority(status[n]) \in Int
      BY PriorityRange
    <3> QED
      BY <2>4, <3>1
  <2> QED
    BY <2>2, <2>3, <2>4 DEF ReportStillAhead, Outranks
<1>4. ASSUME \E h \in Handlers : handler'[h].kind # "outgoing"
      PROVE  ReportStillAhead'
  BY <1>4 DEF OneCall, ReportStillAhead
<1>5. ASSUME NEW h \in Handlers,
             \/ WriteOutgoing(h) \/ WriteIncoming(h) \/ CallFails(h)
             \/ \E p \in Phones : ReadIncoming(h, p)
      PROVE  handler'[h].kind # "outgoing"
  BY <1>5 DEF WriteOutgoing, WriteIncoming, CallFails, ReadIncoming, Return, Idle, TypeOK
<1>6. ASSUME NEW h \in Handlers,
             \/ \E n \in Notifications, kind \in Kinds, p \in Phones : BeginResend(h, n, kind, p)
             \/ GetJob(h) \/ RemoveJob(h) \/ UpdateRow(h) \/ AddJob(h)
      PROVE  handler'[h].kind # "outgoing"
  <2>1. ASSUME NEW n \in Notifications, NEW kind \in Kinds, NEW p \in Phones,
               BeginResend(h, n, kind, p)
        PROVE  handler'[h].kind \in Kinds
    BY <2>1 DEF BeginResend, TypeOK
  <2>2. ASSUME handler[h].kind \in Kinds, NEW s \in {"update", "getJob", "remove", "add"},
               Proceed(h, s)
        PROVE  handler'[h].kind \in Kinds
    BY <2>2, CallFields DEF Proceed, TypeOK
  <2>3. ASSUME Return(h)
        PROVE  handler'[h].kind = "idle"
    BY <2>3 DEF Return, Idle, TypeOK
  <2>4. handler'[h].kind \in Kinds \/ handler'[h].kind = "idle"
    BY <1>6, <2>1, <2>2, <2>3 DEF GetJob, RemoveJob, UpdateRow, AddJob, AfterRemoval, At
  <2> QED
    BY <2>4, NotificationConstants
<1>7. CASE Crash
  BY <1>7 DEF Crash, Idle, ReportStillAhead
<1> QED
  BY <1>1, <1>2, <1>3, <1>4, <1>5, <1>6, <1>7
  DEF Next, vars, rows, outside, TakeJob, CheckReady, Load, Send, CompleteJob, GiveBack,
      TrimJob, EditPhone, InstanceChanges

\* With one call at a time a webhook never takes a notification back, whatever
\* the worker, failures and crashes do meanwhile.
THEOREM SerialWebhooksAdvance ==
    ASSUME OneCall, NoPendingReport
    PROVE  Spec => WebhooksOnlyAdvance
<1>1. Init => ReportStillAhead
  BY DEF Init, Idle, ReportStillAhead
<1>2. TypeOK /\ ReportStillAhead /\ [Next]_vars => ReportStillAhead'
  BY AheadStep
<1>3. TypeOK /\ ReportStillAhead /\ [Next]_vars => [LowersNothing]_vars
  <2> SUFFICES ASSUME TypeOK, ReportStillAhead, NEW h \in Handlers, WriteOutgoing(h),
                      NEW n \in Notifications
               PROVE  Priority(status'[n]) >= Priority(status[n])
    BY DEF LowersNothing
  <2>1. Priority(status[n]) \in Int
    BY PriorityRange
  <2>2. CASE status'[n] = status[n]
    BY <2>1, <2>2
  <2>3. CASE status'[n] # status[n]
    <3>1. n = handler[h].n /\ status'[n] = handler[h].new /\ Outranks(handler[h])
      BY <2>3 DEF WriteOutgoing, TypeOK
    <3>2. Priority(status[n]) <= Priority(handler[h].new)
      BY <3>1 DEF WriteOutgoing, ReportStillAhead
    <3>3. Priority(handler[h].new) \in Int
      BY PriorityRange
    <3> QED
      BY <2>1, <3>1, <3>2, <3>3
  <2> QED
    BY <2>2, <2>3
<1> QED
  BY <1>1, <1>2, <1>3, NotificationsTypeCorrect, PTL DEF Spec, WebhooksOnlyAdvance

-----------------------------------------------------------------------------
(* A notification shown as queued is in the queue.                         *)

\* An attempt that is over has left an outcome in the row.
OutcomeKnown == worker.step \in {"complete", "giveBack"} => status[worker.n] # "pending"

\* A resend that has removed the job finds nothing in its place.
RemovedIsGone ==
    \A h \in Handlers : handler[h].kind \in Kinds /\ handler[h].step \in {"update", "add"} =>
        job[handler[h].n] = "none"

Queued == authorized /\ OutcomeKnown /\ RemovedIsGone /\ PendingIsQueued

LEMMA InitQueued ==
    ASSUME Calm, Init
    PROVE  Queued
<1>1. authorized
  BY Zenon DEF Calm, Init
<1>2. OutcomeKnown
  BY DEF Init, OutcomeKnown, Resting
<1>3. RemovedIsGone
  BY DEF Calm, Init, RemovedIsGone, Idle
<1>4. PendingIsQueued
  <2>1. \A n \in Notifications : job[n] = "waiting"
    BY DEF Calm, Init
  <2> QED
    BY <2>1 DEF PendingIsQueued, Live
<1> QED
  BY <1>1, <1>2, <1>3, <1>4 DEF Queued

\* The job of a resend under way, if it is past its removal, is not the worker's.
LEMMA NotTheWorkers ==
    ASSUME TypeOK, OneSender, NEW n \in Notifications, job[n] # "active", worker # Resting
    PROVE  worker.n # n
BY DEF OneSender

LEMMA WorkerQueued ==
    ASSUME TypeOK, OneSender, Calm, Queued, WorkerStep
    PROVE  Queued'
<1>1. ASSUME NEW n \in Notifications, TakeJob(n)
      PROVE  Queued'
  BY <1>1 DEF TakeJob, TypeOK, Queued, OutcomeKnown, RemovedIsGone, PendingIsQueued, Live, rows,
              outside
<1>2. ASSUME CheckReady \/ Load \/ Send \/ Record \/ RecordFailure
      PROVE  Queued'
  <2>1. worker \in Working
    BY <1>2, WorkerFields, WorkerBusy
    DEF CheckReady, Load, Send, Record, RecordFailure, WorkerSteps
  <2>2. UNCHANGED <<authorized, job, handler>>
    BY <1>2 DEF CheckReady, Load, Send, Record, RecordFailure, queue, outside
  <2>3. OutcomeKnown'
    <3>1. CASE CheckReady \/ Load \/ Send
      <4>1. worker'.step \notin {"complete", "giveBack"}
        BY <2>1, <3>1 DEF CheckReady, Load, Send, GoOn, Working, Queued, Calm
      <4> QED
        BY <4>1 DEF OutcomeKnown
    <3>2. CASE Record \/ RecordFailure
      <4>1. worker'.step = "complete" \/ worker'.step = "giveBack" => worker'.n = worker.n
        BY <2>1, <3>2 DEF Record, RecordFailure, GoOn, Working
      <4>2. worker'.step = "complete" \/ worker'.step = "giveBack" =>
               status'[worker.n] \in {"sent", "failed"}
        BY <2>1, <3>2 DEF Record, RecordFailure, GoOn, Working, Calm, TypeOK
      <4> QED
        BY <4>1, <4>2 DEF OutcomeKnown
    <3> QED
      BY <1>2, <3>1, <3>2
  <2>4. \A n \in Notifications : status'[n] = "pending" => status[n] = "pending"
    BY <1>2, <2>1 DEF CheckReady, Load, Send, Record, RecordFailure, TypeOK, rows, Working
  <2> QED
    BY <2>2, <2>3, <2>4 DEF Queued, RemovedIsGone, PendingIsQueued, Live
<1>3. ASSUME CompleteJob \/ GiveBack
      PROVE  Queued'
  <2>1. worker \in Working /\ worker # Resting /\ worker.step \in {"complete", "giveBack"}
    BY <1>3, WorkerFields, WorkerBusy DEF CompleteJob, GiveBack, WorkerSteps, Doing
  <2>2. UNCHANGED <<authorized, status, handler>> /\ worker' = Resting
    BY <1>3 DEF CompleteJob, GiveBack, rows, outside
  <2>3. \A n \in Notifications : n # worker.n => job'[n] = job[n]
    BY <1>3 DEF CompleteJob, GiveBack, TypeOK
  <2>4. status[worker.n] # "pending" /\ job[worker.n] = "active"
    BY <2>1 DEF Queued, OutcomeKnown, OneSender, Working
  <2>5. RemovedIsGone'
    BY <2>2, <2>3, <2>4, CallFields DEF Queued, RemovedIsGone
  <2> QED
    BY <2>2, <2>3, <2>4, <2>5 DEF Queued, OutcomeKnown, PendingIsQueued, Live, Resting
<1> QED
  BY <1>1, <1>2, <1>3 DEF WorkerStep

LEMMA CallQueued ==
    ASSUME OneCall, NoPendingReport, TypeOK, OneSender, Calm, Queued, NEW h \in Handlers,
           \/ \E m \in DOMAIN sent, s \in Reports : ReadOutgoing(h, m, s)
           \/ WriteOutgoing(h)
           \/ \E p \in Phones : ReadIncoming(h, p)
           \/ WriteIncoming(h)
           \/ \E n \in Notifications, kind \in Kinds, p \in Phones : BeginResend(h, n, kind, p)
    PROVE  Queued'
<1>1. handler[h].kind \notin Kinds
  BY NotificationConstants
  DEF ReadOutgoing, WriteOutgoing, ReadIncoming, WriteIncoming, BeginResend, Free, Idle
<1>2. \A n \in Notifications : status[n] = "pending" => Live(n)
  BY <1>1 DEF OneCall, Queued, PendingIsQueued
<1>3. UNCHANGED <<authorized, job, worker>>
  BY DEF ReadOutgoing, WriteOutgoing, ReadIncoming, WriteIncoming, BeginResend, queue, outside
<1>4. \A n \in Notifications : status'[n] = "pending" => status[n] = "pending"
  <2>1. CASE WriteOutgoing(h)
    <3>1. handler[h].n \in Notifications /\ handler[h].new # "pending"
      BY <2>1, CallFields DEF WriteOutgoing, NoPendingReport
    <3> QED
      BY <2>1, <3>1 DEF WriteOutgoing, TypeOK
  <2>2. CASE WriteIncoming(h)
    BY <2>2 DEF WriteIncoming, TypeOK
  <2>3. CASE UNCHANGED status
    BY <2>3
  <2> QED
    BY <2>1, <2>2, <2>3 DEF ReadOutgoing, ReadIncoming, BeginResend, rows
<1>5. RemovedIsGone'
  <2>1. ASSUME handler'[h].kind \in Kinds
        PROVE  handler'[h].step = "getJob"
    <3>1. CASE \E n \in Notifications, kind \in Kinds, p \in Phones : BeginResend(h, n, kind, p)
      BY <3>1 DEF BeginResend, Calm, TypeOK
    <3>2. CASE WriteOutgoing(h) \/ WriteIncoming(h)
      BY <2>1, <3>2, NotificationConstants DEF WriteOutgoing, WriteIncoming, Return, Idle, TypeOK
    <3>3. CASE \E m \in DOMAIN sent, s \in Reports : ReadOutgoing(h, m, s)
      BY <2>1, <3>3, NotificationConstants DEF ReadOutgoing, TypeOK
    <3>4. CASE \E p \in Phones : ReadIncoming(h, p)
      BY <2>1, <3>4, NotificationConstants DEF ReadIncoming, TypeOK
    <3> QED
      BY <3>1, <3>2, <3>3, <3>4
  <2> QED
    BY <2>1 DEF OneCall, RemovedIsGone
<1>6. OutcomeKnown'
  <2>1. worker # Resting => worker.n \in Notifications
    BY WorkerFields DEF Working
  <2> QED
    BY <1>3, <1>4, <2>1 DEF Queued, OutcomeKnown, Resting
<1> QED
  BY <1>2, <1>3, <1>4, <1>5, <1>6 DEF Queued, PendingIsQueued, Live

LEMMA ResendQueued ==
    ASSUME OneCall, TypeOK, OneSender, Calm, Queued, NEW h \in Handlers,
           GetJob(h) \/ RemoveJob(h) \/ UpdateRow(h) \/ AddJob(h)
    PROVE  Queued'
<1>1. handler[h].kind = "resend" /\ handler[h].n \in Notifications
  BY CallFields DEF GetJob, RemoveJob, UpdateRow, AddJob, At, Calm
<1>2. \A g \in Handlers : g = h
  BY DEF OneCall
<1>3. \A n \in Notifications : status[n] = "pending" /\ n # handler[h].n => Live(n)
  BY <1>2 DEF Queued, PendingIsQueued
<1>4. ASSUME NEW s \in {"update", "getJob", "remove", "add"}, Proceed(h, s)
      PROVE  handler'[h].kind = "resend" /\ handler'[h].n = handler[h].n /\ handler'[h].step = s
  <2>1. handler[h] \in [kind : Kinds, n : Notifications, phone : Phones,
                        step : {"update", "getJob", "remove", "add"}]
    BY <1>1, CallFields DEF Calm
  <2> QED
    BY <1>1, <1>4, <2>1 DEF Proceed, TypeOK
<1>5. UNCHANGED <<authorized, worker>>
  BY DEF GetJob, RemoveJob, UpdateRow, AddJob, outside
<1>6. CASE GetJob(h)
  <2>1. UNCHANGED <<status, job>> /\ handler'[h].kind = "resend" /\ handler'[h].n = handler[h].n
        /\ (job[handler[h].n] = "none" \/ handler'[h].step = "remove")
    BY <1>1, <1>4, <1>6 DEF GetJob, AfterRemoval, rows, queue
  <2> QED
    BY <1>2, <1>3, <1>5, <2>1
    DEF Queued, OutcomeKnown, RemovedIsGone, PendingIsQueued, Live, Calm
<1>7. CASE RemoveJob(h)
  <2>1. CASE job[handler[h].n] = "active"
    <3>1. UNCHANGED <<status, job>> /\ handler'[h] = Idle
      BY <1>7, <2>1 DEF RemoveJob, Return, rows, TypeOK
    <3> QED
      BY <1>2, <1>3, <1>5, <2>1, <3>1
      DEF Queued, OutcomeKnown, RemovedIsGone, PendingIsQueued, Live, Calm, Idle
  <2>2. CASE job[handler[h].n] # "active"
    <3>1. /\ status' = status /\ job' = [job EXCEPT ![handler[h].n] = "none"]
          /\ handler'[h].kind = "resend" /\ handler'[h].n = handler[h].n
      BY <1>1, <1>4, <1>7, <2>2 DEF RemoveJob, AfterRemoval, rows
    <3>2. job'[handler[h].n] = "none" /\ \A n \in Notifications : n # handler[h].n => job'[n] = job[n]
      BY <1>1, <3>1 DEF TypeOK
    <3> QED
      BY <1>2, <1>3, <1>5, <3>1, <3>2
      DEF Queued, OutcomeKnown, RemovedIsGone, PendingIsQueued, Live, Calm
  <2> QED
    BY <2>1, <2>2
<1>8. CASE UpdateRow(h)
  <2>1. /\ job' = job /\ status' = [status EXCEPT ![handler[h].n] = "pending"]
        /\ handler'[h].kind = "resend" /\ handler'[h].n = handler[h].n
    BY <1>1, <1>4, <1>8 DEF UpdateRow, queue
  <2>2. job[handler[h].n] = "none"
    BY <1>1, <1>8 DEF UpdateRow, At, Queued, RemovedIsGone
  <2>3. \A n \in Notifications : n # handler[h].n => status'[n] = status[n]
    BY <2>1 DEF TypeOK
  <2>4. OutcomeKnown'
    <3>1. worker # Resting => worker.n \in Notifications /\ worker.n # handler[h].n
      BY <1>1, <2>2, NotTheWorkers, WorkerFields DEF Working
    <3> QED
      BY <1>5, <2>3, <3>1 DEF Queued, OutcomeKnown, Resting
  <2> QED
    BY <1>1, <1>2, <1>3, <1>5, <2>1, <2>2, <2>3, <2>4
    DEF Queued, RemovedIsGone, PendingIsQueued, Live, Calm
<1>9. CASE AddJob(h)
  <2>1. job[handler[h].n] = "none"
    BY <1>1, <1>9 DEF AddJob, At, Queued, RemovedIsGone
  <2>2. /\ status' = status /\ handler'[h] = Idle
        /\ job' = [job EXCEPT ![handler[h].n] = "waiting"]
    BY <1>9, <2>1 DEF AddJob, Return, rows, TypeOK
  <2>3. job'[handler[h].n] = "waiting"
        /\ \A n \in Notifications : n # handler[h].n => job'[n] = job[n]
    BY <1>1, <2>2 DEF TypeOK
  <2> QED
    BY <1>2, <1>3, <1>5, <2>2, <2>3
    DEF Queued, OutcomeKnown, RemovedIsGone, PendingIsQueued, Live, Calm, Idle
<1> QED
  BY <1>6, <1>7, <1>8, <1>9

LEMMA QueuedStep ==
    ASSUME OneCall, NoPendingReport, Calm, TypeOK, OneSender, Queued, [Next]_vars
    PROVE  Queued'
<1>1. ASSUME NEW n \in Notifications, TrimJob(n)
      PROVE  Queued'
  <2>1. UNCHANGED <<status, worker, handler, authorized>>
    BY <1>1 DEF TrimJob, rows, outside
  <2>2. ~Live(n) /\ job' = [job EXCEPT ![n] = "none"]
    BY <1>1 DEF TrimJob, Live
  <2>3. RemovedIsGone'
    BY <2>1, <2>2, CallFields DEF Queued, RemovedIsGone, TypeOK
  <2>4. PendingIsQueued'
    BY <2>1, <2>2 DEF Queued, PendingIsQueued, Live, TypeOK
  <2> QED
    BY <2>1, <2>3, <2>4 DEF Queued, OutcomeKnown
<1>2. CASE UNCHANGED <<status, job, worker, handler, authorized>>
  BY <1>2 DEF Queued, OutcomeKnown, RemovedIsGone, PendingIsQueued, Live
<1>3. ~InstanceChanges /\ ~Crash /\ \A h \in Handlers : ~CallFails(h)
  BY DEF Calm, InstanceChanges, Crash, CallFails
<1> QED
  BY <1>1, <1>2, <1>3, WorkerQueued, CallQueued, ResendQueued
  DEF Next, WorkerStep, vars, rows, queue, outside, EditPhone

\* With one call at a time, an instance that stays authorized and resends to
\* the same number, a notification shown as queued is in the queue, or the
\* resend that is under way will put it there.
THEOREM SerialPendingQueued ==
    ASSUME OneCall, NoPendingReport, Calm
    PROVE  Spec => []PendingIsQueued
<1>1. Init => Queued
  BY InitQueued
<1>2. TypeOK /\ OneSender /\ Queued /\ [Next]_vars => Queued'
  BY QueuedStep
<1>3. Queued => PendingIsQueued
  BY DEF Queued
<1> QED
  BY <1>1, <1>2, <1>3, NotificationsTypeCorrect, NeverTwoSenders, PTL DEF Spec
=============================================================================
