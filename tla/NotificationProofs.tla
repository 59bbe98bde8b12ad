------------------------- MODULE NotificationProofs -------------------------
(***************************************************************************)
(* Proofs about NotificationDelivery for any notifications, clients, calls *)
(* at a time, attempts and reports, whatever fails, crashes or logs out.   *)
(***************************************************************************)
EXTENDS NotificationDelivery, FiniteSetTheorems, TLAPS

-----------------------------------------------------------------------------
(* The parts of the inductive invariant.                                   *)

\* A job that is queued or worked on has an attempt left.
HasAttempts == \A n \in Notifications : Live(n) => attempts[n] < MaxAttempts

\* The worker records a message that it sent for this notification.
RecordsItsMessage ==
    worker.step = "record" =>
        worker.msg \in DOMAIN sent /\ sent[worker.msg].n = worker.n

\* A webhook is about a notification that a message was recorded for.
CallsAreBacked ==
    \A h \in Handlers :
        handler[h].kind \in {"outgoing", "incoming"} => externalId[handler[h].n] # 0

\* The resends in progress, and how many have come to an end.
Resending == {h \in Handlers : handler[h].kind \in Kinds}
Ended == resends - Cardinality(Resending)

\* What the present job of a notification has sent at most: one message in every
\* attempt.  Of a job that is gone only the limit is known.
SentFor(n) == {m \in DOMAIN sent : sent[m].n = n}
MaySent(n) == job[n] = "active" /\ worker.step \notin {"check", "load", "send"}
Used(n) == IF ~Live(n) THEN MaxAttempts
           ELSE IF MaySent(n) THEN attempts[n] + 1 ELSE attempts[n]

\* A resend queues at most one new job, when it ends; a crash repeats one attempt.
Budget ==
    /\ IsFiniteSet(Resending)
    /\ \A n \in Notifications :
          Cardinality(SentFor(n)) <= MaxAttempts * Ended + Used(n) + crashes

IInv == TypeOK /\ OneSender /\ HasAttempts /\ RecordsItsMessage /\ CallsAreBacked
        /\ StatusIsBacked /\ Budget

-----------------------------------------------------------------------------
(* Records and priorities.                                                 *)

LEMMA ClientsKnown == \A n \in Notifications : ClientOf[n] \in Clients
BY DEF Clients

\* Every status has a priority, and no report of another kind has.
LEMMA PriorityRange == \A s : IF s \in Status THEN Priority(s) \in 1..7 ELSE Priority(s) = 0
<1>1. DOMAIN Rank = 1..7
  BY DEF Rank
<1>2. ASSUME NEW s \in Status
      PROVE  \E i \in DOMAIN Rank : Rank[i] = s
  <2>1. /\ Rank[1] = "failed" /\ Rank[2] = "pending" /\ Rank[3] = "sent"
        /\ Rank[4] = "delivered" /\ Rank[5] = "read" /\ Rank[6] = "isConfirmed"
        /\ Rank[7] = "noAccount"
    BY DEF Rank
  <2>2. {1, 2, 3, 4, 5, 6, 7} \subseteq DOMAIN Rank
    BY <1>1
  <2> QED
    BY <2>1, <2>2 DEF Status
<1> QED
  BY <1>1, <1>2 DEF Priority

\* A worker that is not resting has a job in its hands.
LEMMA WorkerFields ==
    ASSUME TypeOK, worker # Resting
    PROVE  worker \in Working
BY DEF TypeOK

LEMMA WorkerBusy ==
    ASSUME NEW s \in WorkerSteps, Doing(s)
    PROVE  worker # Resting
BY DEF WorkerSteps, Doing, Resting

\* What a call carries, by its kind.
LEMMA CallFields ==
    ASSUME TypeOK, NEW h \in Handlers
    PROVE  /\ handler[h].kind = "outgoing" =>
                  handler[h] \in [kind : {"outgoing"}, n : Notifications, new : Reports, seen : Status]
           /\ handler[h].kind = "incoming" =>
                  handler[h] \in [kind : {"incoming"}, n : Notifications]
           /\ handler[h].kind \in Kinds =>
                  handler[h] \in [kind : Kinds, n : Notifications, phone : Phones,
                                  step : {"update", "getJob", "remove", "add"}]
<1>1. handler[h] \in Call \cup {Idle}
  BY DEF TypeOK
<1> QED
  BY <1>1, NotificationConstants DEF Call, Idle

\* The next step of a resend.
LEMMA ProceedType ==
    ASSUME TypeOK, NEW h \in Handlers, NEW s \in {"update", "getJob", "remove", "add"},
           handler[h].kind \in Kinds, Proceed(h, s)
    PROVE  handler' \in [Handlers -> Call \cup {Idle}]
<1>1. [handler[h] EXCEPT !.step = s] \in [kind : Kinds, n : Notifications, phone : Phones,
                                          step : {"update", "getJob", "remove", "add"}]
  BY CallFields
<1>2. [handler[h] EXCEPT !.step = s] \in Call
  BY <1>1 DEF Call
<1>3. handler' = [handler EXCEPT ![h] = [handler[h] EXCEPT !.step = s]]
  BY DEF Proceed, TypeOK
<1> QED
  BY <1>2, <1>3 DEF TypeOK

LEMMA ReturnType ==
    ASSUME TypeOK, NEW h \in Handlers, Return(h)
    PROVE  handler' \in [Handlers -> Call \cup {Idle}]
BY DEF TypeOK, Return
-----------------------------------------------------------------------------
(* Type correctness.                                                       *)

LEMMA InitTypeOK == Init => TypeOK
<1> SUFFICES ASSUME Init PROVE TypeOK
  OBVIOUS
<1>1. authorized \in BOOLEAN
  BY NotificationConstants, Zenon DEF Init
<1>2. sent \in Seq([n : Notifications, phone : Phones]) /\ Len(sent) <= MaxMessages
  BY NotificationConstants DEF Init
<1>3. attempts \in [Notifications -> 0..MaxAttempts]
      /\ externalId \in [Notifications -> 0..MaxMessages]
  BY NotificationConstants DEF Init
<1>4. resends \in 0..MaxResends /\ crashes \in 0..MaxCrashes
  BY NotificationConstants DEF Init
<1> QED
  BY <1>1, <1>2, <1>3, <1>4 DEF Init, TypeOK, Status, JobState

LEMMA WorkerType ==
    ASSUME TypeOK, HasAttempts, OneSender, WorkerStep
    PROVE  TypeOK'
<1>1. ASSUME NEW n \in Notifications, TakeJob(n)
      PROVE  TypeOK'
  <2>1. [step |-> "check", n |-> n, phone |-> phone[ClientOf[n]], msg |-> 0] \in Working
    BY ClientsKnown, NotificationConstants DEF TypeOK, Working, WorkerSteps
  <2> QED
    BY <1>1, <2>1 DEF TakeJob, TypeOK, rows, outside, JobState
<1>2. CASE CheckReady
  <2>1. worker \in Working
    BY <1>2, WorkerFields, WorkerBusy DEF CheckReady, WorkerSteps
  <2>2. worker' \in Working
    BY <1>2, <2>1 DEF CheckReady, GoOn, Working, WorkerSteps
  <2> QED
    BY <1>2, <2>2 DEF CheckReady, TypeOK, rows, queue, outside
<1>3. CASE Load
  <2>1. worker \in Working
    BY <1>3, WorkerFields, WorkerBusy DEF Load, WorkerSteps
  <2>2. phone[ClientOf[worker.n]] \in Phones
    BY <2>1, ClientsKnown DEF TypeOK, Working
  <2>3. worker' \in Working
    BY <1>3, <2>1, <2>2 DEF Load, GoOn, Working, WorkerSteps
  <2> QED
    BY <1>3, <2>3 DEF Load, TypeOK, rows, queue, outside
<1>4. CASE Send
  <2>1. worker \in Working
    BY <1>4, WorkerFields, WorkerBusy DEF Send, WorkerSteps
  <2>2. CASE /\ Len(sent) < MaxMessages
             /\ sent' = Append(sent, [n |-> worker.n, phone |-> worker.phone])
             /\ worker' = [worker EXCEPT !.msg = Len(sent) + 1, !.step = "record"]
    <3>1. sent' \in Seq([n : Notifications, phone : Phones]) /\ Len(sent') = Len(sent) + 1
      BY <2>1, <2>2 DEF TypeOK, Working
    <3>2. Len(sent) + 1 \in 0..MaxMessages
      BY <2>2, NotificationConstants DEF TypeOK
    <3>3. worker' \in Working
      BY <2>1, <2>2, <3>2 DEF Working, WorkerSteps
    <3> QED
      BY <1>4, <3>1, <3>2, <3>3 DEF Send, TypeOK, rows, queue
  <2>3. CASE GoOn("recordFailure") /\ UNCHANGED sent
    <3>1. worker' \in Working
      BY <2>1, <2>3 DEF GoOn, Working, WorkerSteps
    <3> QED
      BY <1>4, <2>3, <3>1 DEF Send, TypeOK, rows, queue
  <2> QED
    BY <1>4, <2>2, <2>3 DEF Send
<1>5. CASE Record
  <2>1. worker \in Working
    BY <1>5, WorkerFields, WorkerBusy DEF Record, WorkerSteps
  <2>2. worker' \in Working
    BY <1>5, <2>1 DEF Record, GoOn, Working, WorkerSteps
  <2>3. status' \in [Notifications -> Status] /\ externalId' \in [Notifications -> 0..MaxMessages]
    BY <1>5, <2>1 DEF Record, TypeOK, Working, Status
  <2> QED
    BY <1>5, <2>2, <2>3 DEF Record, TypeOK, queue, outside
<1>6. CASE RecordFailure
  <2>1. worker \in Working
    BY <1>6, WorkerFields, WorkerBusy DEF RecordFailure, WorkerSteps
  <2>2. worker' \in Working
    BY <1>6, <2>1 DEF RecordFailure, GoOn, Working, WorkerSteps
  <2>3. status' \in [Notifications -> Status]
    BY <1>6, <2>1 DEF RecordFailure, TypeOK, Working, Status
  <2> QED
    BY <1>6, <2>2, <2>3 DEF RecordFailure, TypeOK, queue, outside
<1>7. CASE CompleteJob
  BY <1>7, WorkerFields, WorkerBusy
     DEF CompleteJob, TypeOK, rows, outside, JobState, Working, WorkerSteps
<1>8. CASE GiveBack
  <2>1. worker \in Working /\ worker # Resting
    BY <1>8, WorkerFields, WorkerBusy DEF GiveBack, WorkerSteps
  <2>2. attempts[worker.n] \in 0..MaxAttempts /\ attempts[worker.n] < MaxAttempts
    BY <2>1 DEF TypeOK, OneSender, HasAttempts, Live, Working
  <2>3. attempts[worker.n] + 1 \in 0..MaxAttempts
    BY <2>2, NotificationConstants
  <2>4. attempts' \in [Notifications -> 0..MaxAttempts]
    BY <1>8, <2>3 DEF GiveBack, TypeOK
  <2>5. job' \in [Notifications -> JobState]
    BY <1>8 DEF GiveBack, TypeOK, JobState
  <2> QED
    BY <1>8, <2>4, <2>5 DEF GiveBack, TypeOK, rows, outside
<1> QED
  BY <1>1, <1>2, <1>3, <1>4, <1>5, <1>6, <1>7, <1>8 DEF WorkerStep

LEMMA WebhookType ==
    ASSUME TypeOK, NEW h \in Handlers,
           \/ \E m \in DOMAIN sent, s \in Reports : ReadOutgoing(h, m, s)
           \/ WriteOutgoing(h)
           \/ \E p \in Phones : ReadIncoming(h, p)
           \/ WriteIncoming(h)
    PROVE  TypeOK'
<1>1. ASSUME NEW m \in DOMAIN sent, NEW s \in Reports, ReadOutgoing(h, m, s)
      PROVE  TypeOK'
  <2>1. PICK n \in Notifications :
           handler' = [handler EXCEPT ![h] =
                         [kind |-> "outgoing", n |-> n, new |-> s, seen |-> status[n]]]
    BY <1>1 DEF ReadOutgoing
  <2>2. [kind |-> "outgoing", n |-> n, new |-> s, seen |-> status[n]] \in Call
    BY DEF Call, TypeOK
  <2> QED
    BY <1>1, <2>1, <2>2 DEF ReadOutgoing, TypeOK, rows, queue, outside
<1>2. CASE WriteOutgoing(h)
  <2>1. /\ handler[h].n \in Notifications /\ handler[h].seen \in Status
    BY <1>2, CallFields DEF WriteOutgoing
  <2>2. Outranks(handler[h]) => handler[h].new \in Status
    BY <2>1, PriorityRange DEF Outranks
  <2>3. status' \in [Notifications -> Status]
    BY <1>2, <2>1, <2>2 DEF WriteOutgoing, TypeOK
  <2> QED
    BY <1>2, <2>3, ReturnType DEF WriteOutgoing, TypeOK, queue, outside
<1>3. ASSUME NEW p \in Phones, ReadIncoming(h, p)
      PROVE  TypeOK'
  <2>1. PICK n \in Notifications :
           handler' = [handler EXCEPT ![h] = [kind |-> "incoming", n |-> n]]
    BY <1>3 DEF ReadIncoming, Confirmable
  <2>2. [kind |-> "incoming", n |-> n] \in Call
    BY DEF Call
  <2> QED
    BY <1>3, <2>1, <2>2 DEF ReadIncoming, TypeOK, rows, queue, outside
<1>4. CASE WriteIncoming(h)
  <2>1. status' \in [Notifications -> Status]
    BY <1>4 DEF WriteIncoming, TypeOK, Status
  <2> QED
    BY <1>4, <2>1, ReturnType DEF WriteIncoming, TypeOK, queue, outside
<1> QED
  BY <1>1, <1>2, <1>3, <1>4

LEMMA ResendType ==
    ASSUME TypeOK, NEW h \in Handlers,
           \/ \E n \in Notifications, kind \in Kinds, p \in Phones : BeginResend(h, n, kind, p)
           \/ GetJob(h) \/ RemoveJob(h) \/ UpdateRow(h) \/ AddJob(h)
           \/ CallFails(h)
    PROVE  TypeOK'
<1>1. ASSUME NEW n \in Notifications, NEW kind \in Kinds, NEW p \in Phones,
             BeginResend(h, n, kind, p)
      PROVE  TypeOK'
  <2>1. [kind |-> kind, n |-> n, phone |-> p,
         step |-> IF kind = "resend" THEN "getJob" ELSE "update"] \in Call
    BY DEF Call
  <2>2. resends' \in 0..MaxResends
    BY <1>1, NotificationConstants DEF BeginResend, TypeOK
  <2> QED
    BY <1>1, <2>1, <2>2 DEF BeginResend, TypeOK, rows, queue
<1>2. CASE GetJob(h)
  <2>1. handler[h].kind \in Kinds
    BY <1>2 DEF GetJob, At
  <2>2. handler' \in [Handlers -> Call \cup {Idle}]
    BY <1>2, <2>1, ProceedType DEF GetJob, AfterRemoval
  <2> QED
    BY <1>2, <2>2 DEF GetJob, TypeOK, rows, queue, outside
<1>3. CASE RemoveJob(h)
  <2>1. handler[h].kind \in Kinds
    BY <1>3 DEF RemoveJob, At
  <2>2. handler' \in [Handlers -> Call \cup {Idle}]
    BY <1>3, <2>1, ProceedType, ReturnType DEF RemoveJob, AfterRemoval
  <2>3. job' \in [Notifications -> JobState]
    BY <1>3 DEF RemoveJob, TypeOK, JobState
  <2> QED
    BY <1>3, <2>2, <2>3 DEF RemoveJob, TypeOK, rows, outside
<1>4. CASE UpdateRow(h)
  <2>1. /\ handler[h].kind \in Kinds /\ handler[h].n \in Notifications
        /\ handler[h].phone \in Phones
    BY <1>4, CallFields DEF UpdateRow, At
  <2>2. handler' \in [Handlers -> Call \cup {Idle}]
    BY <1>4, <2>1, ProceedType DEF UpdateRow
  <2>3. status' \in [Notifications -> Status] /\ phone' \in [Clients -> Phones]
    BY <1>4, <2>1 DEF UpdateRow, TypeOK, Status
  <2> QED
    BY <1>4, <2>2, <2>3 DEF UpdateRow, TypeOK, queue, outside
<1>5. CASE AddJob(h)
  <2>1. job' \in [Notifications -> JobState]
    BY <1>5 DEF AddJob, TypeOK, JobState, queue
  <2>2. attempts' \in [Notifications -> 0..MaxAttempts]
    BY <1>5, NotificationConstants DEF AddJob, TypeOK, queue
  <2> QED
    BY <1>5, <2>1, <2>2, ReturnType DEF AddJob, TypeOK, rows, outside
<1>6. CASE CallFails(h)
  BY <1>6, ReturnType DEF CallFails, TypeOK, rows, queue, outside
<1> QED
  BY <1>1, <1>2, <1>3, <1>4, <1>5, <1>6

LEMMA EnvironmentType ==
    ASSUME TypeOK,
           \/ \E n \in Notifications : TrimJob(n)
           \/ \E c \in Clients, p \in Phones : EditPhone(c, p)
           \/ InstanceChanges \/ Crash
    PROVE  TypeOK'
<1>1. ASSUME NEW n \in Notifications, TrimJob(n)
      PROVE  TypeOK'
  BY <1>1 DEF TrimJob, TypeOK, rows, outside, JobState
<1>2. ASSUME NEW c \in Clients, NEW p \in Phones, EditPhone(c, p)
      PROVE  TypeOK'
  BY <1>2 DEF EditPhone, TypeOK, queue, outside
<1>3. CASE InstanceChanges
  BY <1>3 DEF InstanceChanges, TypeOK, rows, queue
<1>4. CASE Crash
  <2>1. crashes' \in 0..MaxCrashes
    BY <1>4, NotificationConstants DEF Crash, TypeOK
  <2>2. job' \in [Notifications -> JobState]
    BY <1>4 DEF Crash, TypeOK, JobState
  <2> QED
    BY <1>4, <2>1, <2>2 DEF Crash, TypeOK, rows
<1> QED
  BY <1>1, <1>2, <1>3, <1>4
-----------------------------------------------------------------------------
(* One job in one pair of hands.                                           *)

LEMMA InitQueue == Init => OneSender /\ HasAttempts
<1> SUFFICES ASSUME Init PROVE OneSender /\ HasAttempts
  OBVIOUS
<1>1. \A n \in Notifications : job[n] \in {"waiting", "none"} /\ attempts[n] = 0
  BY DEF Init
<1>2. worker = Resting
  BY DEF Init
<1>3. OneSender
  <2>1. \A n \in Notifications : job[n] # "active"
    BY <1>1
  <2> QED
    BY <1>2, <2>1 DEF OneSender
<1>4. HasAttempts
  <2>1. 0 < MaxAttempts
    BY NotificationConstants
  <2> QED
    BY <1>1, <2>1 DEF HasAttempts
<1> QED
  BY <1>3, <1>4

LEMMA WorkerQueue ==
    ASSUME TypeOK, OneSender, HasAttempts, WorkerStep
    PROVE  OneSender' /\ HasAttempts'
<1>1. ASSUME NEW n \in Notifications, TakeJob(n)
      PROVE  OneSender' /\ HasAttempts'
  BY <1>1 DEF TakeJob, TypeOK, OneSender, HasAttempts, Live, Resting, rows
<1>2. ASSUME CheckReady \/ Load \/ Send \/ Record \/ RecordFailure
      PROVE  OneSender' /\ HasAttempts'
  <2>1. worker \in Working
    BY <1>2, WorkerFields, WorkerBusy
       DEF CheckReady, Load, Send, Record, RecordFailure, WorkerSteps
  <2>2. worker # Resting
    BY <1>2, WorkerBusy DEF CheckReady, Load, Send, Record, RecordFailure, WorkerSteps
  <2>3. worker' \in [step : WorkerSteps, n : Notifications, phone : {worker'.phone},
                    msg : {worker'.msg}] /\ worker'.n = worker.n
    BY <1>2, <2>1
       DEF CheckReady, Load, Send, Record, RecordFailure, GoOn, Working, WorkerSteps
  <2>4. worker' # Resting
    BY <2>3 DEF Resting, WorkerSteps
  <2>5. UNCHANGED queue
    BY <1>2 DEF CheckReady, Load, Send, Record, RecordFailure
  <2> QED
    BY <2>2, <2>3, <2>4, <2>5 DEF OneSender, HasAttempts, Live, queue
<1>3. CASE CompleteJob
  <2>1. worker \in Working /\ worker # Resting
    BY <1>3, WorkerFields, WorkerBusy DEF CompleteJob, WorkerSteps
  <2> QED
    BY <1>3, <2>1 DEF CompleteJob, TypeOK, OneSender, HasAttempts, Live, Working
<1>4. CASE GiveBack
  <2>1. worker \in Working /\ worker # Resting
    BY <1>4, WorkerFields, WorkerBusy DEF GiveBack, WorkerSteps
  <2>2. OneSender'
    BY <1>4, <2>1 DEF GiveBack, TypeOK, OneSender, Working
  <2>3. HasAttempts'
    BY <1>4, <2>1 DEF GiveBack, TypeOK, HasAttempts, Live, Working
  <2> QED
    BY <2>2, <2>3
<1> QED
  BY <1>1, <1>2, <1>3, <1>4 DEF WorkerStep

LEMMA RemoveJobQueue ==
    ASSUME TypeOK, OneSender, HasAttempts, NEW h \in Handlers, RemoveJob(h)
    PROVE  OneSender' /\ HasAttempts'
BY DEF RemoveJob, TypeOK, OneSender, HasAttempts, Live

LEMMA AddJobQueue ==
    ASSUME TypeOK, OneSender, HasAttempts, NEW h \in Handlers, AddJob(h)
    PROVE  OneSender' /\ HasAttempts'
<1>1. CASE UNCHANGED queue
  BY <1>1 DEF AddJob, OneSender, HasAttempts, Live, queue
<1>2. CASE ~UNCHANGED queue
  <2>1. /\ job[handler[h].n] = "none"
        /\ job' = [job EXCEPT ![handler[h].n] = "waiting"]
        /\ attempts' = [attempts EXCEPT ![handler[h].n] = 0]
        /\ UNCHANGED worker
    BY <1>2 DEF AddJob
  <2>2. OneSender'
    BY <2>1 DEF TypeOK, OneSender
  <2>3. HasAttempts'
    BY <2>1, NotificationConstants DEF TypeOK, HasAttempts, Live
  <2> QED
    BY <2>2, <2>3
<1> QED
  BY <1>1, <1>2

LEMMA TrimJobQueue ==
    ASSUME TypeOK, OneSender, HasAttempts, NEW n \in Notifications, TrimJob(n)
    PROVE  OneSender' /\ HasAttempts'
BY DEF TrimJob, TypeOK, OneSender, HasAttempts, Live

LEMMA CrashQueue ==
    ASSUME TypeOK, OneSender, HasAttempts, Crash
    PROVE  OneSender' /\ HasAttempts'
BY DEF Crash, TypeOK, OneSender, HasAttempts, Live

LEMMA QueueStep ==
    ASSUME TypeOK, OneSender, HasAttempts, Next
    PROVE  OneSender' /\ HasAttempts'
<1> DEFINE Untouched == UNCHANGED <<job, attempts, worker>>
<1>1. Untouched => OneSender' /\ HasAttempts'
  BY DEF OneSender, HasAttempts, Live
<1>2. ASSUME NEW h \in Handlers,
             \/ \E m \in DOMAIN sent, s \in Reports : ReadOutgoing(h, m, s)
             \/ WriteOutgoing(h)
             \/ \E p \in Phones : ReadIncoming(h, p)
             \/ WriteIncoming(h)
             \/ \E n \in Notifications, kind \in Kinds, p \in Phones : BeginResend(h, n, kind, p)
             \/ GetJob(h) \/ UpdateRow(h) \/ CallFails(h)
      PROVE  Untouched
  BY <1>2 DEF ReadOutgoing, WriteOutgoing, ReadIncoming, WriteIncoming, BeginResend,
              GetJob, UpdateRow, CallFails, queue
<1>3. ASSUME \/ \E c \in Clients, p \in Phones : EditPhone(c, p)
             \/ InstanceChanges
      PROVE  Untouched
  BY <1>3 DEF EditPhone, InstanceChanges, queue
<1> QED
  BY <1>1, <1>2, <1>3, WorkerQueue, RemoveJobQueue, AddJobQueue, TrimJobQueue, CrashQueue
     DEF Next, WorkerStep

LEMMA TypeStep ==
    ASSUME TypeOK, OneSender, HasAttempts, Next
    PROVE  TypeOK'
BY WorkerType, WebhookType, ResendType, EnvironmentType DEF Next, WorkerStep

-----------------------------------------------------------------------------
(* Statuses that messages stand behind.                                    *)

Backing == RecordsItsMessage /\ CallsAreBacked /\ StatusIsBacked

LEMMA InitBacking == Init => Backing
BY DEF Init, Backing, RecordsItsMessage, CallsAreBacked, StatusIsBacked, Resting, Idle

\* A message is sent: the messages before it stay what they were.
LEMMA SendBacking ==
    ASSUME TypeOK, Backing, Send
    PROVE  Backing'
<1>1. worker \in Working
  BY WorkerFields, WorkerBusy DEF Send, WorkerSteps
<1>2. CASE sent' = Append(sent, [n |-> worker.n, phone |-> worker.phone])
           /\ worker' = [worker EXCEPT !.msg = Len(sent) + 1, !.step = "record"]
  <2> DEFINE e == [n |-> worker.n, phone |-> worker.phone]
  <2>1. e \in [n : Notifications, phone : Phones] /\ sent \in Seq([n : Notifications, phone : Phones])
    BY <1>1 DEF TypeOK, Working
  <2>2. /\ Len(sent') = Len(sent) + 1 /\ Len(sent) \in Nat
        /\ DOMAIN sent' = 1..(Len(sent) + 1) /\ DOMAIN sent = 1..Len(sent)
        /\ \A i \in 1..Len(sent) : sent'[i] = sent[i]
        /\ sent'[Len(sent) + 1] = e
    BY <1>2, <2>1
  <2>3. worker'.msg = Len(sent) + 1 /\ worker'.n = worker.n
    BY <1>1, <1>2 DEF Working
  <2>4. RecordsItsMessage'
    BY <2>2, <2>3 DEF RecordsItsMessage
  <2>5. UNCHANGED <<rows, handler>>
    BY DEF Send
  <2>6. CallsAreBacked'
    BY <2>5 DEF Backing, CallsAreBacked, rows
  <2>7. StatusIsBacked'
    BY <2>2, <2>5 DEF TypeOK, Backing, StatusIsBacked, rows
  <2> QED
    BY <2>4, <2>6, <2>7 DEF Backing
<1>3. CASE GoOn("recordFailure") /\ UNCHANGED sent
  <2>1. worker'.step = "recordFailure"
    BY <1>1, <1>3 DEF GoOn, Working
  <2> QED
    BY <1>3, <2>1 DEF Send, Backing, RecordsItsMessage, CallsAreBacked, StatusIsBacked, rows
<1> QED
  BY <1>2, <1>3 DEF Send

LEMMA RecordBacking ==
    ASSUME TypeOK, Backing, Record
    PROVE  Backing'
<1>1. worker \in Working
  BY WorkerFields, WorkerBusy DEF Record, WorkerSteps
<1>2. /\ worker.n \in Notifications /\ worker.msg \in DOMAIN sent /\ sent[worker.msg].n = worker.n
      /\ worker.msg \in 0..MaxMessages
  BY <1>1 DEF Record, Doing, Backing, RecordsItsMessage, Working
<1>3. worker.msg # 0 /\ worker.msg <= Len(sent)
  BY <1>2 DEF TypeOK
<1>4. RecordsItsMessage'
  BY <1>1 DEF Record, GoOn, RecordsItsMessage, Working
<1>5. CASE /\ status' = [status EXCEPT ![worker.n] = "sent"]
           /\ externalId' = [externalId EXCEPT ![worker.n] = worker.msg]
  <2>1. UNCHANGED <<sent, handler>>
    BY DEF Record, outside
  <2>2. CallsAreBacked'
    BY <1>3, <1>5, <2>1, CallFields DEF TypeOK, Backing, CallsAreBacked
  <2>3. StatusIsBacked'
    BY <1>2, <1>3, <1>5, <2>1 DEF TypeOK, Backing, StatusIsBacked
  <2> QED
    BY <1>4, <2>2, <2>3 DEF Backing
<1>6. CASE UNCHANGED <<status, externalId>>
  BY <1>4, <1>6 DEF Record, Backing, CallsAreBacked, StatusIsBacked, outside
<1> QED
  BY <1>5, <1>6 DEF Record

LEMMA RecordFailureBacking ==
    ASSUME TypeOK, Backing, RecordFailure
    PROVE  Backing'
<1>1. worker \in Working
  BY WorkerFields, WorkerBusy DEF RecordFailure, WorkerSteps
<1>2. RecordsItsMessage'
  BY <1>1 DEF RecordFailure, GoOn, RecordsItsMessage, Working
<1>3. CallsAreBacked'
  BY DEF RecordFailure, Backing, CallsAreBacked
<1>4. StatusIsBacked'
  BY DEF RecordFailure, TypeOK, Backing, StatusIsBacked, outside
<1> QED
  BY <1>2, <1>3, <1>4 DEF Backing

\* The other steps of the worker.
LEMMA OtherWorkBacking ==
    ASSUME TypeOK, Backing,
           \/ \E n \in Notifications : TakeJob(n)
           \/ CheckReady \/ Load \/ CompleteJob \/ GiveBack
    PROVE  Backing'
<1>1. UNCHANGED <<rows, handler, sent>>
  BY DEF TakeJob, CheckReady, Load, CompleteJob, GiveBack, outside
<1>2. worker'.step # "record"
  <2>1. ASSUME CheckReady \/ Load
        PROVE  worker'.step # "record"
    <3>1. worker \in Working
      BY <2>1, WorkerFields, WorkerBusy DEF CheckReady, Load, WorkerSteps
    <3> QED
      BY <2>1, <3>1 DEF CheckReady, Load, GoOn, Working
  <2> QED
    BY <2>1 DEF TakeJob, CompleteJob, GiveBack, Resting
<1> QED
  BY <1>1, <1>2 DEF Backing, RecordsItsMessage, CallsAreBacked, StatusIsBacked, rows

LEMMA WebhookBacking ==
    ASSUME TypeOK, Backing, NEW h \in Handlers,
           \/ \E m \in DOMAIN sent, s \in Reports : ReadOutgoing(h, m, s)
           \/ WriteOutgoing(h)
           \/ \E p \in Phones : ReadIncoming(h, p)
           \/ WriteIncoming(h)
    PROVE  Backing'
<1>1. ASSUME NEW m \in DOMAIN sent, NEW s \in Reports, ReadOutgoing(h, m, s)
      PROVE  Backing'
  <2>1. PICK n \in Notifications :
           /\ externalId[n] = m
           /\ handler' = [handler EXCEPT ![h] =
                            [kind |-> "outgoing", n |-> n, new |-> s, seen |-> status[n]]]
    BY <1>1 DEF ReadOutgoing
  <2>2. m # 0
    BY DEF TypeOK
  <2>3. CallsAreBacked'
    BY <1>1, <2>1, <2>2 DEF ReadOutgoing, TypeOK, Backing, CallsAreBacked, rows
  <2> QED
    BY <1>1, <2>3 DEF ReadOutgoing, Backing, RecordsItsMessage, StatusIsBacked, rows, outside
<1>2. CASE WriteOutgoing(h)
  <2>1. handler[h].n \in Notifications /\ externalId[handler[h].n] # 0
    BY <1>2, CallFields DEF WriteOutgoing, Backing, CallsAreBacked
  <2>2. CallsAreBacked'
    BY <1>2 DEF WriteOutgoing, Return, Idle, TypeOK, Backing, CallsAreBacked
  <2>3. StatusIsBacked'
    BY <1>2, <2>1 DEF WriteOutgoing, TypeOK, Backing, StatusIsBacked, outside
  <2> QED
    BY <1>2, <2>2, <2>3 DEF WriteOutgoing, Backing, RecordsItsMessage, outside
<1>3. ASSUME NEW p \in Phones, ReadIncoming(h, p)
      PROVE  Backing'
  <2>1. PICK n \in Confirmable(p) :
           handler' = [handler EXCEPT ![h] = [kind |-> "incoming", n |-> n]]
    BY <1>3 DEF ReadIncoming
  <2>2. n \in Notifications /\ externalId[n] # 0
    BY DEF Confirmable, Backing, StatusIsBacked
  <2>3. CallsAreBacked'
    BY <1>3, <2>1, <2>2 DEF ReadIncoming, TypeOK, Backing, CallsAreBacked, rows
  <2> QED
    BY <1>3, <2>3 DEF ReadIncoming, Backing, RecordsItsMessage, StatusIsBacked, rows, outside
<1>4. CASE WriteIncoming(h)
  <2>1. handler[h].n \in Notifications /\ externalId[handler[h].n] # 0
    BY <1>4, CallFields DEF WriteIncoming, Backing, CallsAreBacked
  <2>2. CallsAreBacked'
    BY <1>4 DEF WriteIncoming, Return, Idle, TypeOK, Backing, CallsAreBacked
  <2>3. StatusIsBacked'
    BY <1>4, <2>1 DEF WriteIncoming, TypeOK, Backing, StatusIsBacked, outside
  <2> QED
    BY <1>4, <2>2, <2>3 DEF WriteIncoming, Backing, RecordsItsMessage, outside
<1> QED
  BY <1>1, <1>2, <1>3, <1>4

\* A resend is no webhook, and it takes a status only back to pending.
LEMMA ResendBacking ==
    ASSUME TypeOK, Backing, NEW h \in Handlers,
           \/ \E n \in Notifications, kind \in Kinds, p \in Phones : BeginResend(h, n, kind, p)
           \/ GetJob(h) \/ RemoveJob(h) \/ UpdateRow(h) \/ AddJob(h)
           \/ CallFails(h)
    PROVE  Backing'
<1>1. UNCHANGED <<worker, sent, externalId>>
  BY DEF BeginResend, GetJob, RemoveJob, UpdateRow, AddJob, CallFails, rows, outside
<1>2. RecordsItsMessage'
  BY <1>1 DEF Backing, RecordsItsMessage
<1>3. StatusIsBacked'
  <2>1. CASE UpdateRow(h)
    BY <1>1, <2>1 DEF UpdateRow, TypeOK, Backing, StatusIsBacked
  <2>2. CASE UNCHANGED status
    BY <1>1, <2>2 DEF Backing, StatusIsBacked
  <2> QED
    BY <2>1, <2>2 DEF BeginResend, GetJob, RemoveJob, AddJob, CallFails, rows
<1>4. \A g \in Handlers : g # h => handler'[g] = handler[g]
  BY DEF BeginResend, GetJob, RemoveJob, UpdateRow, AddJob, CallFails, Proceed, Return, TypeOK
<1>5. handler'[h].kind \notin {"outgoing", "incoming"}
  <2>1. ASSUME NEW n \in Notifications, NEW kind \in Kinds, NEW p \in Phones,
               BeginResend(h, n, kind, p)
        PROVE  handler'[h].kind \in Kinds
    BY <2>1 DEF BeginResend, TypeOK
  <2>2. ASSUME handler[h].kind \in Kinds, NEW s \in {"update", "getJob", "remove", "add"},
               Proceed(h, s)
        PROVE  handler'[h].kind \in Kinds
    BY <2>2, CallFields DEF Proceed, TypeOK
  <2>3. ASSUME Return(h)
        PROVE  handler'[h].kind = "idle"
    BY <2>3 DEF Return, Idle, TypeOK
  <2>4. handler'[h].kind \in Kinds \/ handler'[h].kind = "idle"
    BY <2>1, <2>2, <2>3 DEF GetJob, RemoveJob, UpdateRow, AddJob, CallFails, AfterRemoval, At
  <2> QED
    BY <2>4, NotificationConstants
<1>6. CallsAreBacked'
  BY <1>1, <1>4, <1>5 DEF Backing, CallsAreBacked
<1> QED
  BY <1>2, <1>3, <1>6 DEF Backing

LEMMA EnvironmentBacking ==
    ASSUME TypeOK, Backing,
           \/ \E n \in Notifications : TrimJob(n)
           \/ \E c \in Clients, p \in Phones : EditPhone(c, p)
           \/ InstanceChanges \/ Crash
    PROVE  Backing'
<1>1. CASE Crash
  BY <1>1 DEF Crash, Backing, RecordsItsMessage, CallsAreBacked, StatusIsBacked, Resting, Idle, rows
<1>2. CASE UNCHANGED <<status, externalId, sent, worker, handler>>
  BY <1>2 DEF Backing, RecordsItsMessage, CallsAreBacked, StatusIsBacked
<1> QED
  BY <1>1, <1>2 DEF TrimJob, EditPhone, InstanceChanges, rows, outside

LEMMA BackingStep ==
    ASSUME TypeOK, Backing, Next
    PROVE  Backing'
BY SendBacking, RecordBacking, RecordFailureBacking, OtherWorkBacking, WebhookBacking,
   ResendBacking, EnvironmentBacking
   DEF Next

-----------------------------------------------------------------------------
(* How many messages are sent.                                             *)

\* A product with a larger factor, and with one more.
LEMMA Products ==
    ASSUME NEW a \in Nat, NEW e \in Int, NEW d \in Int, e <= d
    PROVE  a * e \in Int /\ a * e <= a * d /\ a * (e + 1) = a * e + a
<1>1. d = e + (d - e) /\ d - e \in Nat
  OBVIOUS
<1>2. a * (d - e) \in Nat
  BY <1>1
<1>3. a * d = a * e + a * (d - e)
  OBVIOUS
<1> QED
  BY <1>1, <1>2, <1>3

\* A call that handler h takes up, goes on with or returns from.
LEMMA CallCounted ==
    ASSUME IsFiniteSet(Resending), NEW h \in Handlers,
           \A g \in Handlers : g # h => handler'[g] = handler[g]
    PROVE  /\ IsFiniteSet(Resending') /\ Cardinality(Resending) \in Nat
           /\ Cardinality(Resending') =
                 Cardinality(Resending) + (IF handler'[h].kind \in Kinds THEN 1 ELSE 0)
                                        - (IF handler[h].kind \in Kinds THEN 1 ELSE 0)
<1>1. Cardinality(Resending) \in Nat
  BY FS_CardinalityType
<1>2. h \in Resending <=> handler[h].kind \in Kinds
  BY DEF Resending
<1>3. CASE handler'[h].kind \in Kinds
  <2>1. Resending' = Resending \cup {h}
    BY <1>3 DEF Resending
  <2>2. /\ IsFiniteSet(Resending \cup {h})
        /\ Cardinality(Resending \cup {h}) =
              IF h \in Resending THEN Cardinality(Resending) ELSE Cardinality(Resending) + 1
    BY FS_AddElement
  <2> QED
    BY <1>1, <1>2, <1>3, <2>1, <2>2
<1>4. CASE handler'[h].kind \notin Kinds
  <2>1. Resending' = Resending \ {h}
    BY <1>4 DEF Resending
  <2>2. /\ IsFiniteSet(Resending \ {h})
        /\ Cardinality(Resending \ {h}) =
              IF h \in Resending THEN Cardinality(Resending) - 1 ELSE Cardinality(Resending)
    BY FS_RemoveElement
  <2> QED
    BY <1>1, <1>2, <1>4, <2>1, <2>2
<1> QED
  BY <1>3, <1>4

\* The number of resends that have ended never falls, and a resend that queues a
\* job has ended then.
LEMMA ResendsEnd ==
    ASSUME TypeOK, IsFiniteSet(Resending), Next
    PROVE  /\ IsFiniteSet(Resending')
           /\ Ended \in Int /\ Ended' \in Int /\ Ended <= Ended'
           /\ \A h \in Handlers : AddJob(h) => Ended' = Ended + 1
<1>1. Cardinality(Resending) \in Nat /\ resends \in Int /\ Ended \in Int
  BY FS_CardinalityType DEF TypeOK, Ended
<1>2. Idle.kind \notin Kinds
  BY NotificationConstants DEF Idle
<1> DEFINE Kept == UNCHANGED <<handler, resends>>
           Goal == /\ IsFiniteSet(Resending')
                   /\ Ended' \in Int /\ Ended <= Ended'
<1>3. Kept => Goal
  BY <1>1 DEF Resending, Ended
<1>4. ASSUME NEW h \in Handlers, AddJob(h)
      PROVE  Goal /\ Ended' = Ended + 1
  <2>1. /\ handler[h].kind \in Kinds /\ handler'[h] = Idle /\ resends' = resends
        /\ \A g \in Handlers : g # h => handler'[g] = handler[g]
    BY <1>4 DEF AddJob, Return, At, outside, TypeOK
  <2>2. IsFiniteSet(Resending') /\ Cardinality(Resending') = Cardinality(Resending) - 1
    BY <1>1, <1>2, <2>1, CallCounted
  <2> QED
    BY <1>1, <2>1, <2>2 DEF Ended
<1>5. ASSUME NEW h \in Handlers, NEW n \in Notifications, NEW kind \in Kinds, NEW p \in Phones,
             BeginResend(h, n, kind, p)
      PROVE  Goal
  <2>1. /\ handler[h] = Idle /\ handler'[h].kind = kind /\ resends' = resends + 1
        /\ \A g \in Handlers : g # h => handler'[g] = handler[g]
    BY <1>5 DEF BeginResend, Free, TypeOK
  <2>2. IsFiniteSet(Resending') /\ Cardinality(Resending') = Cardinality(Resending) + 1
    BY <1>1, <1>2, <2>1, CallCounted
  <2> QED
    BY <1>1, <2>1, <2>2 DEF Ended
<1>6. ASSUME NEW h \in Handlers, Return(h), UNCHANGED resends
      PROVE  Goal
  <2>1. handler'[h] = Idle /\ \A g \in Handlers : g # h => handler'[g] = handler[g]
    BY <1>6 DEF Return, TypeOK
  <2>2. IsFiniteSet(Resending') /\ Cardinality(Resending') \in Int
        /\ Cardinality(Resending') <= Cardinality(Resending)
    BY <1>1, <1>2, <2>1, CallCounted
  <2> QED
    BY <1>1, <1>6, <2>2 DEF Ended
<1>7. ASSUME NEW h \in Handlers, NEW s, Proceed(h, s), handler[h].kind \in Kinds, UNCHANGED resends
      PROVE  Goal
  <2>1. handler[h] \in [kind : Kinds, n : Notifications, phone : Phones,
                        step : {"update", "getJob", "remove", "add"}]
    BY <1>7, CallFields
  <2>2. handler'[h].kind \in Kinds /\ \A g \in Handlers : g # h => handler'[g] = handler[g]
    BY <1>7, <2>1 DEF Proceed, TypeOK
  <2>3. IsFiniteSet(Resending') /\ Cardinality(Resending') = Cardinality(Resending)
    BY <1>1, <1>7, <2>2, CallCounted
  <2> QED
    BY <1>1, <1>7, <2>3 DEF Ended
<1>8. ASSUME NEW h \in Handlers,
             \/ \E m \in DOMAIN sent, s \in Reports : ReadOutgoing(h, m, s)
             \/ \E p \in Phones : ReadIncoming(h, p)
      PROVE  Goal
  <2>1. /\ handler[h] = Idle /\ handler'[h].kind \in {"outgoing", "incoming"}
        /\ \A g \in Handlers : g # h => handler'[g] = handler[g]
        /\ UNCHANGED resends
    BY <1>8 DEF ReadOutgoing, ReadIncoming, Free, TypeOK, outside
  <2>2. handler'[h].kind \notin Kinds
    BY <2>1, NotificationConstants
  <2>3. IsFiniteSet(Resending') /\ Cardinality(Resending') = Cardinality(Resending)
    BY <1>1, <1>2, <2>1, <2>2, CallCounted
  <2> QED
    BY <1>1, <2>1, <2>3 DEF Ended
<1>9. ASSUME NEW h \in Handlers,
             WriteOutgoing(h) \/ WriteIncoming(h) \/ CallFails(h)
      PROVE  Goal
  BY <1>6, <1>9 DEF WriteOutgoing, WriteIncoming, CallFails, outside
<1>10. ASSUME NEW h \in Handlers, GetJob(h) \/ RemoveJob(h) \/ UpdateRow(h)
       PROVE  Goal
  <2>1. handler[h].kind \in Kinds /\ UNCHANGED resends
    BY <1>10 DEF GetJob, RemoveJob, UpdateRow, At, outside
  <2>2. Return(h) \/ \E s : Proceed(h, s)
    BY <1>10 DEF GetJob, RemoveJob, UpdateRow
  <2> QED
    BY <1>6, <1>7, <2>1, <2>2
<1>11. ASSUME Crash
       PROVE  Goal
  <2>1. Resending' = {} /\ resends' = resends
    BY <1>2, <1>11 DEF Crash, Resending
  <2>2. IsFiniteSet(Resending') /\ Cardinality(Resending') = 0
    BY <2>1, FS_EmptySet
  <2> QED
    BY <1>1, <2>1, <2>2 DEF Ended
<1>12. ASSUME WorkerStep \/ (\E n \in Notifications : TrimJob(n))
              \/ (\E c \in Clients, p \in Phones : EditPhone(c, p)) \/ InstanceChanges
       PROVE  Kept
  BY <1>12 DEF WorkerStep, TakeJob, CheckReady, Load, Send, Record, RecordFailure, CompleteJob,
               GiveBack, TrimJob, EditPhone, InstanceChanges, outside
<1> HIDE DEF Goal, Kept
<1>13. Goal
  <2>1. ASSUME \E h \in Handlers :
                  \/ \E m \in DOMAIN sent, s \in Reports : ReadOutgoing(h, m, s)
                  \/ WriteOutgoing(h)
                  \/ \E p \in Phones : ReadIncoming(h, p)
                  \/ WriteIncoming(h)
                  \/ \E n \in Notifications, kind \in Kinds, p \in Phones : BeginResend(h, n, kind, p)
                  \/ GetJob(h) \/ RemoveJob(h) \/ UpdateRow(h) \/ AddJob(h) \/ CallFails(h)
        PROVE  Goal
    BY <1>4, <1>5, <1>8, <1>9, <1>10, <2>1
  <2> QED
    BY <1>3, <1>11, <1>12, <2>1 DEF Next, WorkerStep
<1> QED
  BY <1>1, <1>4, <1>13 DEF Goal

\* A message that is sent is one more for its notification and none for the others.
LEMMA SendCounted ==
    ASSUME TypeOK, Next, NEW n \in Notifications
    PROVE  /\ Cardinality(SentFor(n)) \in Nat /\ Cardinality(SentFor(n)') \in Nat
           /\ Cardinality(SentFor(n)') <= Cardinality(SentFor(n)) + 1
           /\ \/ Cardinality(SentFor(n)') = Cardinality(SentFor(n))
              \/ Send /\ worker.n = n /\ worker' = [worker EXCEPT !.msg = Len(sent) + 1, !.step = "record"]
<1>1. /\ sent \in Seq([n : Notifications, phone : Phones])
      /\ DOMAIN sent = 1..Len(sent) /\ Len(sent) \in Nat
  BY DEF TypeOK
<1>2. IsFiniteSet(SentFor(n)) /\ Cardinality(SentFor(n)) \in Nat
  <2>1. IsFiniteSet(1..Len(sent))
    BY <1>1, FS_Interval
  <2>2. SentFor(n) \in SUBSET (1..Len(sent))
    BY <1>1 DEF SentFor
  <2> QED
    BY <2>1, <2>2, FS_Subset, FS_CardinalityType
<1>3. CASE UNCHANGED sent
  BY <1>2, <1>3 DEF SentFor
<1>4. CASE Send /\ sent' = Append(sent, [n |-> worker.n, phone |-> worker.phone])
           /\ worker' = [worker EXCEPT !.msg = Len(sent) + 1, !.step = "record"]
  <2>1. worker \in Working
    BY <1>4, WorkerFields, WorkerBusy DEF Send, WorkerSteps
  <2>2. /\ DOMAIN sent' = 1..(Len(sent) + 1)
        /\ \A i \in 1..Len(sent) : sent'[i] = sent[i]
        /\ sent'[Len(sent) + 1].n = worker.n
    BY <1>1, <1>4, <2>1 DEF Working
  <2>3. CASE worker.n = n
    <3>1. SentFor(n)' = SentFor(n) \cup {Len(sent) + 1}
      BY <1>1, <2>2, <2>3 DEF SentFor
    <3>2. Cardinality(SentFor(n) \cup {Len(sent) + 1}) =
             IF Len(sent) + 1 \in SentFor(n) THEN Cardinality(SentFor(n))
             ELSE Cardinality(SentFor(n)) + 1
      BY <1>2, FS_AddElement
    <3>3. Cardinality(SentFor(n)') \in Nat
          /\ Cardinality(SentFor(n)') <= Cardinality(SentFor(n)) + 1
      BY <1>2, <3>1, <3>2
    <3> QED
      BY <1>2, <1>4, <2>3, <3>3
  <2>4. CASE worker.n # n
    <3>1. SentFor(n)' = SentFor(n)
      BY <1>1, <2>2, <2>4 DEF SentFor
    <3> QED
      BY <1>2, <3>1
  <2> QED
    BY <2>3, <2>4
<1>5. UNCHANGED sent \/ Send
  BY DEF Next, TakeJob, CheckReady, Load, Record, RecordFailure, CompleteJob,
         GiveBack, ReadOutgoing, WriteOutgoing, ReadIncoming, WriteIncoming, BeginResend, GetJob,
         RemoveJob, UpdateRow, AddJob, CallFails, TrimJob, EditPhone, InstanceChanges, Crash, outside
<1> QED
  BY <1>3, <1>4, <1>5 DEF Send

\* A job uses no more messages than it has attempts.
LEMMA UsedRange ==
    ASSUME TypeOK, HasAttempts, NEW n \in Notifications
    PROVE  Used(n) \in 0..MaxAttempts /\ (~Live(n) => Used(n) = MaxAttempts)
<1>1. attempts[n] \in 0..MaxAttempts /\ MaxAttempts \in Nat
  BY NotificationConstants DEF TypeOK
<1> QED
  BY <1>1 DEF Used, HasAttempts

\* The same of the next state.
LEMMA UsedRangeNext ==
    ASSUME TypeOK', HasAttempts', NEW n \in Notifications
    PROVE  Used(n)' \in 0..MaxAttempts /\ (~Live(n)' => Used(n)' = MaxAttempts)
<1>1. attempts'[n] \in 0..MaxAttempts /\ MaxAttempts \in Nat
  BY NotificationConstants DEF TypeOK
<1> QED
  BY <1>1 DEF Used, HasAttempts

\* An attempt of the worker may use up one message and no more, whatever the outcome;
\* Send is the step that does.
LEMMA WorkerUses ==
    ASSUME TypeOK, HasAttempts, HasAttempts', TypeOK', OneSender, WorkerStep,
           NEW n \in Notifications
    PROVE  /\ Used(n) <= Used(n)' /\ UNCHANGED crashes
           /\ Send /\ worker.n = n => Used(n)' = Used(n) + 1
<1>1. /\ attempts[n] \in 0..MaxAttempts /\ MaxAttempts \in Nat
      /\ attempts'[n] \in 0..MaxAttempts
      /\ Used(n) \in 0..MaxAttempts /\ Used(n)' \in 0..MaxAttempts
  <2>1. /\ attempts[n] \in 0..MaxAttempts /\ MaxAttempts \in Nat
        /\ attempts'[n] \in 0..MaxAttempts
    BY NotificationConstants DEF TypeOK
  <2> QED
    BY <2>1, UsedRange, UsedRangeNext
<1>2. UNCHANGED crashes
  BY DEF WorkerStep, TakeJob, CheckReady, Load, Send, Record, RecordFailure, CompleteJob,
         GiveBack, outside
<1>3. CASE \E m \in Notifications : TakeJob(m)
  <2>1. PICK m \in Notifications : TakeJob(m)
    BY <1>3
  <2>2. job[n] # "active" /\ worker'.step = "check" /\ attempts' = attempts /\ worker = Resting
    BY <2>1 DEF TakeJob, OneSender
  <2>3. (job'[n] \in {"waiting", "active"}) = (job[n] \in {"waiting", "active"})
    BY <2>1 DEF TakeJob, TypeOK
  <2>4. ~Send
    BY <2>2 DEF Send, Doing, Resting
  <2> QED
    BY <1>1, <1>2, <2>2, <2>3, <2>4 DEF Used, MaySent, Live
<1>4. ASSUME worker # Resting, UNCHANGED queue,
             worker'.step \in {"check", "load", "send"} => worker.step \in {"check", "load", "send"}
      PROVE  /\ Used(n) <= Used(n)'
             /\ worker.n = n /\ worker.step = "send" /\ worker'.step \notin {"check", "load", "send"}
                   => Used(n)' = Used(n) + 1
  <2>1. worker.n = n => job[n] = "active"
    BY <1>4 DEF OneSender
  <2> QED
    BY <1>1, <1>4, <2>1 DEF Used, MaySent, Live, queue
<1>5. CASE CheckReady \/ Load \/ Send \/ Record \/ RecordFailure
  <2>1. worker \in Working /\ worker # Resting
    BY <1>5, WorkerBusy, WorkerFields DEF CheckReady, Load, Send, Record, RecordFailure, WorkerSteps
  <2>2. UNCHANGED queue
    BY <1>5 DEF CheckReady, Load, Send, Record, RecordFailure
  <2>3. worker'.step \in {"check", "load", "send"} => worker.step \in {"check", "load", "send"}
    BY <1>5, <2>1 DEF CheckReady, Load, Send, Record, RecordFailure, GoOn, Doing, Working
  <2>4. Send => worker.step = "send" /\ worker'.step \notin {"check", "load", "send"}
    BY <2>1 DEF Send, GoOn, Doing, Working
  <2> QED
    BY <1>2, <1>4, <2>1, <2>2, <2>3, <2>4
<1>6. CASE CompleteJob \/ GiveBack
  <2>1. worker # Resting /\ worker.step \in {"complete", "giveBack"}
    BY <1>6, WorkerBusy DEF CompleteJob, GiveBack, WorkerSteps, Doing
  <2>2. worker.n \in Notifications /\ job[worker.n] = "active"
    BY <2>1, WorkerFields DEF OneSender, Working
  <2>3. ~Send
    BY <2>1 DEF Send, Doing
  <2>4. CASE worker.n # n
    <3>1. job'[n] = job[n] /\ attempts'[n] = attempts[n] /\ job[n] # "active"
      BY <1>6, <2>1, <2>4 DEF CompleteJob, GiveBack, OneSender, TypeOK
    <3> QED
      BY <1>1, <1>2, <2>3, <3>1 DEF Used, MaySent, Live
  <2>5. CASE worker.n = n /\ CompleteJob
    <3>1. job'[n] = "completed"
      BY <2>5 DEF CompleteJob, TypeOK
    <3> QED
      BY <1>1, <1>2, <2>3, <3>1 DEF Used, Live
  <2>6. CASE worker.n = n /\ GiveBack
    <3>1. attempts'[n] = attempts[n] + 1 /\ job'[n] \in {"waiting", "failed"}
      BY <2>6 DEF GiveBack, TypeOK
    <3>2. Used(n) = attempts[n] + 1
      BY <2>1, <2>2, <2>6 DEF Used, MaySent, Live
    <3> QED
      BY <1>1, <1>2, <2>3, <3>1, <3>2 DEF Used, MaySent, Live
  <2> QED
    BY <1>6, <2>4, <2>5, <2>6
<1> QED
  BY <1>3, <1>5, <1>6 DEF WorkerStep

\* Whatever else happens takes no use back, but for a crash in the middle of an attempt
\* and a resend that queues the job anew.
LEMMA OthersUse ==
    ASSUME TypeOK, HasAttempts, HasAttempts', TypeOK', OneSender, Next, ~WorkerStep,
           NEW n \in Notifications
    PROVE  \/ Used(n) + crashes <= Used(n)' + crashes'
           \/ /\ \E h \in Handlers : AddJob(h)
              /\ Used(n) = MaxAttempts /\ Used(n)' \in Nat /\ UNCHANGED crashes
<1>1. /\ attempts[n] \in 0..MaxAttempts /\ MaxAttempts \in Nat /\ crashes \in Int
      /\ attempts'[n] \in 0..MaxAttempts /\ crashes' \in Int
      /\ Used(n) \in 0..MaxAttempts /\ Used(n)' \in 0..MaxAttempts
      /\ (~Live(n) => Used(n) = MaxAttempts) /\ (~Live(n)' => Used(n)' = MaxAttempts)
  <2>1. /\ attempts[n] \in 0..MaxAttempts /\ MaxAttempts \in Nat /\ crashes \in Int
        /\ attempts'[n] \in 0..MaxAttempts /\ crashes' \in Int
    BY NotificationConstants DEF TypeOK
  <2> QED
    BY <2>1, UsedRange, UsedRangeNext
<1>2. ASSUME UNCHANGED <<attempts, crashes, worker>>, job'[n] = job[n] \/ ~Live(n)'
      PROVE  Used(n) + crashes <= Used(n)' + crashes'
  BY <1>1, <1>2 DEF Used, MaySent, Live
<1>3. ASSUME NEW h \in Handlers, AddJob(h)
      PROVE  \/ Used(n) + crashes <= Used(n)' + crashes'
             \/ Used(n) = MaxAttempts /\ Used(n)' \in Nat /\ UNCHANGED crashes
  <2>1. UNCHANGED crashes
    BY <1>3 DEF AddJob, outside
  <2>2. CASE job[n] = "none"
    BY <1>1, <2>1, <2>2 DEF Live
  <2>3. CASE job[n] # "none"
    <3>1. job'[n] = job[n] /\ attempts'[n] = attempts[n] /\ worker' = worker
      BY <1>3, <2>3 DEF AddJob, queue, TypeOK
    <3> QED
      BY <1>1, <2>1, <3>1 DEF Used, MaySent, Live
  <2> QED
    BY <2>2, <2>3
<1>4. ASSUME NEW h \in Handlers, RemoveJob(h)
      PROVE  Used(n) + crashes <= Used(n)' + crashes'
  <2>1. UNCHANGED <<attempts, crashes, worker>>
    BY <1>4 DEF RemoveJob, outside
  <2>2. job'[n] = job[n] \/ job'[n] = "none"
    BY <1>4 DEF RemoveJob, TypeOK
  <2> QED
    BY <1>2, <2>1, <2>2 DEF Live
<1>5. ASSUME \E m \in Notifications : TrimJob(m)
      PROVE  Used(n) + crashes <= Used(n)' + crashes'
  <2>1. UNCHANGED <<attempts, crashes, worker>>
    BY <1>5 DEF TrimJob, outside
  <2>2. job'[n] = job[n] \/ job'[n] = "none"
    BY <1>5 DEF TrimJob, TypeOK
  <2> QED
    BY <1>2, <2>1, <2>2 DEF Live
<1>6. ASSUME Crash
      PROVE  Used(n) + crashes <= Used(n)' + crashes'
  <2>1. attempts' = attempts /\ crashes' = crashes + 1
        /\ job'[n] = IF job[n] = "active" THEN "waiting" ELSE job[n]
    BY <1>6 DEF Crash
  <2>2. Used(n) <= Used(n)' + 1
    BY <1>1, <2>1 DEF Used, MaySent, Live
  <2> QED
    BY <1>1, <2>1, <2>2
<1>7. ASSUME UNCHANGED <<queue, crashes, worker>>
      PROVE  Used(n) + crashes <= Used(n)' + crashes'
  BY <1>2, <1>7 DEF queue
<1>8. ASSUME NEW h \in Handlers,
             \/ \E m \in DOMAIN sent, s \in Reports : ReadOutgoing(h, m, s)
             \/ WriteOutgoing(h)
             \/ \E p \in Phones : ReadIncoming(h, p)
             \/ WriteIncoming(h)
             \/ \E m \in Notifications, kind \in Kinds, p \in Phones : BeginResend(h, m, kind, p)
             \/ GetJob(h) \/ UpdateRow(h) \/ CallFails(h)
      PROVE  Used(n) + crashes <= Used(n)' + crashes'
  BY <1>7, <1>8 DEF ReadOutgoing, WriteOutgoing, ReadIncoming, WriteIncoming, BeginResend, GetJob,
                    UpdateRow, CallFails, outside
<1>9. ASSUME (\E c \in Clients, p \in Phones : EditPhone(c, p)) \/ InstanceChanges
      PROVE  Used(n) + crashes <= Used(n)' + crashes'
  BY <1>7, <1>9 DEF EditPhone, InstanceChanges, outside
<1> QED
  BY <1>3, <1>4, <1>5, <1>6, <1>8, <1>9 DEF Next, WorkerStep

\* Nothing is sent and nothing is used at first.
LEMMA InitBudget == Init => Budget
<1> SUFFICES ASSUME Init PROVE Budget
  OBVIOUS
<1>1. Resending = {}
  BY NotificationConstants DEF Init, Resending, Idle
<1>2. IsFiniteSet(Resending) /\ Cardinality(Resending) = 0
  BY <1>1, FS_EmptySet
<1>3. Ended = 0
  BY <1>2 DEF Ended, Init
<1>4. ASSUME NEW n \in Notifications
      PROVE  Cardinality(SentFor(n)) <= MaxAttempts * Ended + Used(n) + crashes
  <2>1. SentFor(n) = {}
    BY DEF Init, SentFor
  <2>2. Cardinality(SentFor(n)) = 0
    BY <2>1, FS_EmptySet
  <2>3. Used(n) \in Nat /\ crashes = 0
    <3>1. job[n] \in {"waiting", "none"} /\ attempts[n] = 0 /\ crashes = 0
      BY <1>4 DEF Init
    <3>2. worker = Resting
      BY DEF Init
    <3> QED
      BY <3>1, <3>2, NotificationConstants DEF Used, Live, MaySent, Resting
  <2> QED
    BY <1>3, <2>2, <2>3, NotificationConstants
<1> QED
  BY <1>2, <1>4 DEF Budget

\* The invariant of this section: what is sent is paid for.
LEMMA BudgetStep ==
    ASSUME TypeOK, HasAttempts, HasAttempts', TypeOK', OneSender, Budget, Next
    PROVE  Budget'
<1>1. /\ IsFiniteSet(Resending)' /\ Ended \in Int /\ Ended' \in Int /\ Ended <= Ended'
      /\ \A h \in Handlers : AddJob(h) => Ended' = Ended + 1
  BY ResendsEnd DEF Budget
<1>2. /\ MaxAttempts \in Nat /\ MaxAttempts * Ended \in Int /\ MaxAttempts * Ended' \in Int
      /\ MaxAttempts * Ended <= MaxAttempts * Ended'
      /\ MaxAttempts * (Ended + 1) = MaxAttempts * Ended + MaxAttempts
  <2>1. MaxAttempts \in Nat
    BY NotificationConstants
  <2>2. /\ MaxAttempts * Ended \in Int /\ MaxAttempts * Ended <= MaxAttempts * Ended'
        /\ MaxAttempts * (Ended + 1) = MaxAttempts * Ended + MaxAttempts
    BY <1>1, <2>1, Products
  <2>3. MaxAttempts * Ended' \in Int
    BY <1>1, <2>1
  <2> QED
    BY <2>1, <2>2, <2>3
<1>3. crashes \in Int /\ crashes' \in Int
  BY DEF TypeOK
<1>4. ASSUME NEW n \in Notifications
      PROVE  Cardinality(SentFor(n)') <= MaxAttempts * Ended' + Used(n)' + crashes'
  <2>1. /\ Used(n) \in Int /\ Used(n)' \in Int
        /\ Cardinality(SentFor(n)) <= MaxAttempts * Ended + Used(n) + crashes
    BY UsedRange, UsedRangeNext, <1>2 DEF Budget
  <2>2. /\ Cardinality(SentFor(n)) \in Nat /\ Cardinality(SentFor(n)') \in Nat
        /\ Cardinality(SentFor(n)') <= Cardinality(SentFor(n)) + 1
        /\ Cardinality(SentFor(n)') = Cardinality(SentFor(n)) \/ (Send /\ worker.n = n)
    BY SendCounted
  <2>3. CASE Send /\ worker.n = n
    <3>1. Used(n)' = Used(n) + 1 /\ crashes' = crashes
      BY <2>3, WorkerUses DEF WorkerStep
    <3> QED
      BY <1>2, <1>3, <2>1, <2>2, <3>1
  <2>4. CASE Used(n) + crashes <= Used(n)' + crashes'
             /\ Cardinality(SentFor(n)') = Cardinality(SentFor(n))
    BY <1>2, <1>3, <2>1, <2>2, <2>4
  <2>5. CASE Cardinality(SentFor(n)') = Cardinality(SentFor(n)) /\ WorkerStep
    <3>1. Used(n) <= Used(n)' /\ crashes' = crashes
      BY <2>5, WorkerUses
    <3> QED
      BY <1>2, <1>3, <2>1, <2>2, <2>5, <3>1
  <2>6. CASE /\ \E h \in Handlers : AddJob(h)
             /\ Used(n) = MaxAttempts /\ Used(n)' \in Nat /\ UNCHANGED crashes
             /\ Cardinality(SentFor(n)') = Cardinality(SentFor(n))
    <3>1. Ended' = Ended + 1
      BY <1>1, <2>6
    <3>2. MaxAttempts * Ended' = MaxAttempts * Ended + MaxAttempts
      BY <1>2, <3>1
    <3> QED
      BY <1>2, <1>3, <2>1, <2>2, <2>6, <3>2
  <2> QED
    BY <2>2, <2>3, <2>4, <2>5, <2>6, OthersUse
<1> QED
  BY <1>1, <1>4 DEF Budget

-----------------------------------------------------------------------------
(* How much work a job can still cost.                                     *)

\* A queued job has work left, and a job that has ended has none.
LEMMA WorkRange ==
    ASSUME TypeOK, HasAttempts, NEW n \in Notifications
    PROVE  /\ StepsDone \in 0..6 /\ attempts[n] \in Int /\ MaxAttempts \in Int
           /\ WorkLeft(n) \in Nat
           /\ Live(n) => WorkLeft(n) > 0
<1>1. attempts[n] \in 0..MaxAttempts /\ MaxAttempts \in Nat
  BY NotificationConstants DEF TypeOK
<1>2. StepsDone \in 0..6
  BY DEF StepsDone
<1> HIDE DEF StepsDone
<1> QED
  BY <1>1, <1>2 DEF WorkLeft, HasAttempts

LEMMA WorkRangeNext ==
    ASSUME TypeOK', HasAttempts', NEW n \in Notifications
    PROVE  StepsDone' \in 0..6 /\ WorkLeft(n)' \in Nat
<1>1. attempts'[n] \in 0..MaxAttempts /\ MaxAttempts \in Nat
  BY NotificationConstants DEF TypeOK
<1>2. StepsDone' \in 0..6
  BY DEF StepsDone
<1> HIDE DEF StepsDone
<1> QED
  BY <1>1, <1>2 DEF WorkLeft, HasAttempts

\* A step of the worker takes from the job it is about.
LEMMA WorkerTakes ==
    ASSUME TypeOK, HasAttempts, OneSender, TypeOK', HasAttempts', WorkerStep
    PROVE  /\ \E n \in Notifications : WorkLeft(n)' < WorkLeft(n)
           /\ \A n \in Notifications : WorkLeft(n)' <= WorkLeft(n)
<1>1. \A n \in Notifications :
         /\ attempts[n] \in Int /\ MaxAttempts \in Int /\ StepsDone \in 0..6
         /\ WorkLeft(n) \in Nat /\ WorkLeft(n)' \in Nat
         /\ (Live(n) => WorkLeft(n) > 0)
  BY WorkRange, WorkRangeNext
<1>2. CASE \E n \in Notifications : TakeJob(n)
  <2>1. PICK n \in Notifications : TakeJob(n)
    BY <1>2
  <2>2. /\ job[n] = "waiting" /\ job'[n] = "active" /\ attempts' = attempts
        /\ StepsDone' = 1
        /\ \A m \in Notifications : m # n => job'[m] = job[m] /\ job[m] # "active"
    BY <2>1 DEF TakeJob, TypeOK, StepsDone, OneSender
  <2>3. WorkLeft(n)' < WorkLeft(n)
    BY <1>1, <2>2 DEF WorkLeft, Live
  <2>4. \A m \in Notifications : m # n => WorkLeft(m)' = WorkLeft(m)
    BY <2>2 DEF WorkLeft, Live
  <2> QED
    BY <1>1, <2>3, <2>4
<1>3. CASE ~\E n \in Notifications : TakeJob(n)
  <2>1. worker \in Working /\ worker # Resting
    BY <1>3, WorkerBusy, WorkerFields
       DEF WorkerStep, CheckReady, Load, Send, Record, RecordFailure, CompleteJob, GiveBack,
           WorkerSteps
  <2>2. PICK n \in Notifications : n = worker.n /\ job[n] = "active"
    BY <2>1 DEF Working, OneSender
  <2>3. \A m \in Notifications : m # n => job[m] # "active"
    BY <2>2 DEF OneSender
  <2>4. WorkLeft(n) = 7 * (MaxAttempts - attempts[n]) - StepsDone
    BY <2>2 DEF WorkLeft, Live
  <2>5. ASSUME UNCHANGED queue, StepsDone < StepsDone'
        PROVE  /\ WorkLeft(n)' < WorkLeft(n)
               /\ \A m \in Notifications : m # n => WorkLeft(m)' = WorkLeft(m)
    <3>1. StepsDone' \in 0..6 /\ StepsDone \in 0..6
      BY <1>1, <2>2, WorkRangeNext
    <3>2. job' = job /\ attempts' = attempts
      BY <2>5 DEF queue
    <3>3. WorkLeft(n)' = 7 * (MaxAttempts - attempts[n]) - StepsDone'
      BY <2>2, <3>2 DEF WorkLeft, Live
    <3>4. WorkLeft(n)' < WorkLeft(n)
      BY <1>1, <2>2, <2>4, <2>5, <3>1, <3>3
    <3>5. \A m \in Notifications : m # n => WorkLeft(m)' = WorkLeft(m)
      BY <2>3, <3>2 DEF WorkLeft, Live
    <3> QED
      BY <3>4, <3>5
  <2>6. CASE CheckReady \/ Load \/ Send \/ Record \/ RecordFailure
    <3>1. UNCHANGED queue
      BY <2>6 DEF CheckReady, Load, Send, Record, RecordFailure
    <3>2. \/ worker.step = "check" /\ worker'.step \in {"load", "giveBack"}
          \/ worker.step = "load" /\ worker'.step \in {"send", "giveBack"}
          \/ worker.step = "send" /\ worker'.step \in {"record", "recordFailure"}
          \/ worker.step = "record" /\ worker'.step \in {"complete", "recordFailure"}
          \/ worker.step = "recordFailure" /\ worker'.step = "giveBack"
      BY <2>1, <2>6 DEF CheckReady, Load, Send, Record, RecordFailure, Doing, GoOn, Working
    <3>3. StepsDone < StepsDone'
      BY <3>2 DEF StepsDone
    <3> QED
      BY <1>1, <2>2, <2>5, <3>1, <3>3
  <2>7. CASE CompleteJob
    <3>1. job'[n] = "completed" /\ \A m \in Notifications : m # n => job'[m] = job[m]
      BY <2>2, <2>7 DEF CompleteJob, TypeOK
    <3>2. attempts' = attempts
      BY <2>7 DEF CompleteJob
    <3>3. WorkLeft(n)' = 0 /\ Live(n)
      BY <2>2, <3>1 DEF WorkLeft, Live
    <3>4. \A m \in Notifications : m # n => WorkLeft(m)' = WorkLeft(m)
      BY <2>3, <3>1, <3>2 DEF WorkLeft, Live
    <3> QED
      BY <1>1, <2>2, <3>3, <3>4
  <2>8. CASE GiveBack
    <3>1. /\ job'[n] \in {"waiting", "failed"} /\ attempts'[n] = attempts[n] + 1
          /\ \A m \in Notifications : m # n => job'[m] = job[m] /\ attempts'[m] = attempts[m]
      BY <2>2, <2>8 DEF GiveBack, TypeOK
    <3>2. StepsDone = 6
      BY <2>8 DEF GiveBack, Doing, StepsDone
    <3>3. WorkLeft(n)' \in {0, 7 * (MaxAttempts - (attempts[n] + 1))}
      <4>1. CASE job'[n] = "failed"
        BY <4>1 DEF WorkLeft, Live
      <4>2. CASE job'[n] = "waiting"
        <5>1. WorkLeft(n)' = 7 * (MaxAttempts - attempts'[n]) - 0
          BY <4>2 DEF WorkLeft, Live
        <5> QED
          BY <1>1, <2>2, <3>1, <5>1
      <4> QED
        BY <3>1, <4>1, <4>2
    <3>4. WorkLeft(n)' < WorkLeft(n)
      BY <1>1, <2>2, <2>4, <3>2, <3>3 DEF Live
    <3>5. \A m \in Notifications : m # n => WorkLeft(m)' = WorkLeft(m)
      BY <2>3, <3>1 DEF WorkLeft, Live
    <3> QED
      BY <1>1, <2>2, <3>4, <3>5
  <2> QED
    BY <1>3, <2>6, <2>7, <2>8 DEF WorkerStep
<1> QED
  BY <1>2, <1>3

\* Nobody else gives work back, but for a crash and a resend that queues the job anew.
LEMMA OthersGiveNothing ==
    ASSUME TypeOK, HasAttempts, OneSender, TypeOK', HasAttempts', Next, ~WorkerStep, ~Crash,
           \A h \in Handlers : ~AddJob(h), NEW n \in Notifications
    PROVE  WorkLeft(n)' <= WorkLeft(n)
<1>1. WorkLeft(n) \in Nat
  BY WorkRange
<1>2. UNCHANGED <<attempts, worker>>
  BY DEF Next, WorkerStep, ReadOutgoing, WriteOutgoing, ReadIncoming, WriteIncoming, BeginResend,
         GetJob, RemoveJob, UpdateRow, CallFails, TrimJob, EditPhone, InstanceChanges, queue, outside
<1>3. job'[n] = job[n] \/ job'[n] = "none"
  BY DEF Next, WorkerStep, ReadOutgoing, WriteOutgoing, ReadIncoming, WriteIncoming, BeginResend,
         GetJob, RemoveJob, UpdateRow, CallFails, TrimJob, EditPhone, InstanceChanges, queue, TypeOK
<1>4. StepsDone' = StepsDone
  BY <1>2 DEF StepsDone
<1>5. CASE job'[n] = job[n]
  BY <1>1, <1>2, <1>4, <1>5 DEF WorkLeft, Live
<1>6. CASE job'[n] = "none"
  BY <1>1, <1>6 DEF WorkLeft, Live
<1> QED
  BY <1>3, <1>5, <1>6

-----------------------------------------------------------------------------
(* The theorems.                                                           *)

LEMMA Stuttering == IInv /\ UNCHANGED vars => IInv'
<1> SUFFICES ASSUME IInv, UNCHANGED vars PROVE IInv'
  OBVIOUS
<1>1. /\ TypeOK' /\ OneSender' /\ HasAttempts' /\ RecordsItsMessage' /\ CallsAreBacked'
      /\ StatusIsBacked'
  BY DEF IInv, TypeOK, OneSender, HasAttempts, Live, RecordsItsMessage, CallsAreBacked,
         StatusIsBacked, vars
<1>2. /\ Resending' = Resending /\ Ended' = Ended /\ crashes' = crashes
      /\ \A n \in Notifications : SentFor(n)' = SentFor(n) /\ Used(n)' = Used(n)
  BY DEF Resending, Ended, SentFor, Used, MaySent, Live, vars
<1>3. Budget'
  BY <1>2 DEF IInv, Budget
<1> QED
  BY <1>1, <1>3 DEF IInv

\* The invariant that all the theorems of this module rest on.
THEOREM Invariance == Spec => []IInv
<1>1. Init => IInv
  BY InitTypeOK, InitQueue, InitBacking, InitBudget DEF IInv, Backing
<1>2. IInv /\ [Next]_vars => IInv'
  BY TypeStep, QueueStep, BackingStep, BudgetStep, Stuttering DEF IInv, Backing
<1> QED
  BY <1>1, <1>2, PTL DEF Spec

\* Rows, jobs, calls and the worker keep the shapes the code gives them.
THEOREM NotificationsTypeCorrect == Spec => []TypeOK
<1>1. IInv => TypeOK
  BY DEF IInv
<1> QED
  BY <1>1, Invariance, PTL

\* The worker never works on a job that somebody removed, queued again or gave to
\* another worker meanwhile, whatever resends and crashes do.
THEOREM NeverTwoSenders == Spec => []OneSender
<1>1. IInv => OneSender
  BY DEF IInv
<1> QED
  BY <1>1, Invariance, PTL

\* No webhook, reply or resend makes a status claim a message that was not sent.
THEOREM StatusesAreBacked == Spec => []StatusIsBacked
<1>1. IInv => StatusIsBacked
  BY DEF IInv
<1> QED
  BY <1>1, Invariance, PTL

\* However resends, crashes and failures fall, a client is sent at most one message per
\* attempt of the first job and of each resend, and one more per crash.
THEOREM NeverFlooded == Spec => []NoFlood
<1>1. ASSUME IInv, NEW n \in Notifications
      PROVE  Cardinality({m \in DOMAIN sent : sent[m].n = n}) <= MaxAttempts * (resends + 1) + crashes
  <2>1. /\ Used(n) \in 0..MaxAttempts /\ MaxAttempts \in Nat /\ resends \in Nat /\ crashes \in Nat
        /\ Cardinality(Resending) \in Nat
    BY <1>1, UsedRange, FS_CardinalityType, NotificationConstants DEF IInv, Budget, TypeOK
  <2>2. Ended \in Int /\ Ended <= resends
    BY <2>1 DEF Ended
  <2>3. MaxAttempts * Ended \in Int /\ MaxAttempts * Ended <= MaxAttempts * resends
        /\ MaxAttempts * (resends + 1) = MaxAttempts * resends + MaxAttempts
        /\ MaxAttempts * resends \in Int
    BY <2>1, <2>2, Products
  <2>4. Cardinality(SentFor(n)) <= MaxAttempts * Ended + Used(n) + crashes
    BY <1>1 DEF IInv, Budget
  <2>5. IsFiniteSet(SentFor(n)) /\ Cardinality(SentFor(n)) \in Nat
    <3>1. Len(sent) \in Nat /\ DOMAIN sent = 1..Len(sent)
      BY <1>1 DEF IInv, TypeOK
    <3>2. IsFiniteSet(1..Len(sent))
      BY <3>1, FS_Interval
    <3>3. SentFor(n) \in SUBSET (1..Len(sent))
      BY <3>1 DEF SentFor
    <3> QED
      BY <3>2, <3>3, FS_Subset, FS_CardinalityType
  <2>6. Cardinality(SentFor(n)) <= MaxAttempts * (resends + 1) + crashes
    BY <2>1, <2>3, <2>4, <2>5
  <2> QED
    BY <2>6 DEF SentFor
<1>2. IInv => NoFlood
  BY <1>1 DEF NoFlood
<1> QED
  BY <1>2, Invariance, PTL

\* A job runs out of work by its own count of attempts: each step of the worker takes
\* some, and only a crash or a resend gives any back, however calls interleave and fail.
THEOREM JobsAlwaysProgress == Spec => JobsProgress
<1>1. ASSUME IInv, IInv', [Next]_vars
      PROVE  [EveryStepCounts]_vars
  <2>1. CASE UNCHANGED vars
    BY <2>1
  <2>2. CASE Next
    <3>1. \A n \in Notifications : WorkLeft(n) \in Nat /\ WorkLeft(n)' \in Nat
      BY <1>1, WorkRange, WorkRangeNext DEF IInv
    <3>2. WorkerStep => \E n \in Notifications : WorkLeft(n)' < WorkLeft(n)
      BY <1>1, WorkerTakes DEF IInv
    <3>3. WorkerStep => \E n \in Notifications : WorkLeft(n)' \in 0..(WorkLeft(n) - 1)
      BY <3>1, <3>2
    <3>4. ASSUME NEW n \in Notifications, WorkLeft(n)' > WorkLeft(n)
          PROVE  Crash \/ \E h \in Handlers : AddJob(h)
      <4>1. ~(WorkLeft(n)' <= WorkLeft(n))
        BY <3>1, <3>4
      <4> QED
        BY <1>1, <2>2, <4>1, WorkerTakes, OthersGiveNothing DEF IInv
    <3> QED
      BY <3>3, <3>4 DEF EveryStepCounts
  <2> QED
    BY <1>1, <2>1, <2>2
<1> QED
  BY <1>1, Invariance, PTL DEF Spec, JobsProgress
=============================================================================
