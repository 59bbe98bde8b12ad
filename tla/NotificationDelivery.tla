------------------------ MODULE NotificationDelivery ------------------------
(***************************************************************************)
(* The life of the WhatsApp notifications of visits.  createVisit leaves a *)
(* pending row and a BullMQ job; the worker sends the message and writes   *)
(* the outcome; Green-API posts webhooks about the message's progress and  *)
(* the client's replies; a clerk resends a notification, with or without a *)
(* new phone number.  All of them are handlers of one Node process that    *)
(* interleave at every await.                                              *)
(***************************************************************************)
EXTENDS Integers, Sequences, FiniteSets

CONSTANTS
    Notifications,  \* their ids, in the order of creation
    ClientOf,       \* the client of the notification's visit
    Phones,
    Handlers,       \* webhook calls and socket messages in progress at the same time
    Reports,        \* what Green-API may say about a message
    MaxAttempts,    \* attempts of a job
    Faults,         \* whether the process may die and the database refuse a write
    Kinds,          \* of resends: "resend" the same message, "rephone" to a new number
    MayLogOut,      \* whether the WhatsApp instance may lose its authorization
    MaxMessages, MaxResends, MaxCrashes  \* bounds

Clients == {ClientOf[n] : n \in Notifications}

ASSUME NotificationConstants ==
    /\ Notifications \subseteq Nat
    /\ DOMAIN ClientOf = Notifications
    /\ MaxAttempts \in Nat \ {0}
    /\ {MaxMessages, MaxResends, MaxCrashes} \subseteq Nat
    /\ {Faults, MayLogOut} \subseteq BOOLEAN
    /\ Kinds \subseteq {"resend", "rephone"}

VARIABLES
    status,      \* Notification.status
    externalId,  \* Notification.externalId: position in sent, or 0 for NULL
    phone,       \* Client.phone
    job,         \* where BullMQ has the job notification-<n>
    attempts,    \* its attemptsMade
    worker,      \* the job in the worker's hands and how far it is
    sent,        \* messages Green-API accepted, for whom and to which number
    handler,     \* handler[h]: the call that h serves
    authorized,  \* the instance status in Redis is "authorized"
    resends, crashes  \* counted for the bounds only

vars == <<status, externalId, phone, job, attempts, worker, sent, handler, authorized,
          resends, crashes>>
rows == <<status, externalId, phone>>
queue == <<job, attempts>>
outside == <<sent, authorized, resends, crashes>>

Status == {"pending", "sent", "delivered", "read", "failed", "isConfirmed", "noAccount"}

\* STATUS_PRIORITY; what Green-API may say besides has none.
Rank == <<"failed", "pending", "sent", "delivered", "read", "isConfirmed", "noAccount">>
Priority(s) == IF s \in Status THEN CHOOSE i \in DOMAIN Rank : Rank[i] = s ELSE 0

JobState == {"none", "waiting", "active", "completed", "failed"}
WorkerSteps == {"check", "load", "send", "record", "recordFailure", "complete", "giveBack"}
Working == [step : WorkerSteps, n : Notifications, phone : Phones, msg : 0..MaxMessages]
Resting == [step |-> "rest"]

\* What a handler read, or which step of a resend comes next.
Call == [kind : {"outgoing"}, n : Notifications, new : Reports, seen : Status]
        \cup [kind : {"incoming"}, n : Notifications]
        \cup [kind : Kinds, n : Notifications, phone : Phones,
              step : {"update", "getJob", "remove", "add"}]
Idle == [kind |-> "idle"]

TypeOK ==
    /\ status \in [Notifications -> Status]
    /\ externalId \in [Notifications -> 0..MaxMessages]
    /\ phone \in [Clients -> Phones]
    /\ job \in [Notifications -> JobState]
    /\ attempts \in [Notifications -> 0..MaxAttempts]
    /\ worker \in Working \cup {Resting}
    /\ sent \in Seq([n : Notifications, phone : Phones]) /\ Len(sent) <= MaxMessages
    /\ handler \in [Handlers -> Call \cup {Idle}]
    /\ authorized \in BOOLEAN
    /\ resends \in 0..MaxResends /\ crashes \in 0..MaxCrashes

\* Visits were created and their jobs queued; a failing queue.add was logged only.
Init ==
    /\ status = [n \in Notifications |-> "pending"]
    /\ externalId = [n \in Notifications |-> 0]
    /\ phone \in [Clients -> Phones]
    /\ job \in [Notifications -> IF Faults THEN {"waiting", "none"} ELSE {"waiting"}]
    /\ attempts = [n \in Notifications |-> 0]
    /\ worker = Resting
    /\ sent = <<>>
    /\ handler = [h \in Handlers |-> Idle]
    /\ authorized \in {TRUE, ~MayLogOut}
    /\ resends = 0 /\ crashes = 0

-----------------------------------------------------------------------------
(* The worker: NotificationProcessor.process, processWhatsAppSending.      *)

Doing(step) == worker.step = step
GoOn(step) == worker' = [worker EXCEPT !.step = step]

TakeJob(n) ==
    /\ worker = Resting
    /\ job[n] = "waiting"
    /\ job' = [job EXCEPT ![n] = "active"]
    /\ worker' = [step |-> "check", n |-> n, phone |-> phone[ClientOf[n]], msg |-> 0]
    /\ UNCHANGED <<rows, attempts, handler, outside>>

\* isInstanceAuthorized; the answer or the lack of one makes process throw.
CheckReady ==
    /\ Doing("check")
    /\ \/ GoOn(IF authorized THEN "load" ELSE "giveBack")
       \/ Faults /\ GoOn("giveBack")
    /\ UNCHANGED <<rows, queue, handler, outside>>

\* The notification is read with its client: the number is the one of now.  A query
\* that fails is outside of the try: no outcome is written.  (Nothing deletes
\* notifications, so the row is there.)
Load ==
    /\ Doing("load")
    /\ \/ worker' = [worker EXCEPT !.phone = phone[ClientOf[worker.n]], !.step = "send"]
       \/ Faults /\ GoOn("giveBack")
    /\ UNCHANGED <<rows, queue, handler, outside>>

\* sendMessage: Green-API accepts the message, or the call fails.
Send ==
    /\ Doing("send")
    /\ \/ /\ Len(sent) < MaxMessages
          /\ sent' = Append(sent, [n |-> worker.n, phone |-> worker.phone])
          /\ worker' = [worker EXCEPT !.msg = Len(sent) + 1, !.step = "record"]
       \/ GoOn("recordFailure") /\ UNCHANGED sent
    /\ UNCHANGED <<rows, queue, handler, authorized, resends, crashes>>

\* status sent; when the database refuses, the message is sent all the same.
Record ==
    /\ Doing("record")
    /\ \/ /\ status' = [status EXCEPT ![worker.n] = "sent"]
          /\ externalId' = [externalId EXCEPT ![worker.n] = worker.msg]
          /\ GoOn("complete")
       \/ Faults /\ GoOn("recordFailure") /\ UNCHANGED <<status, externalId>>
    /\ UNCHANGED <<phone, queue, handler, outside>>

RecordFailure ==
    /\ Doing("recordFailure")
    /\ \/ status' = [status EXCEPT ![worker.n] = "failed"]
       \/ Faults /\ UNCHANGED status
    /\ GoOn("giveBack")
    /\ UNCHANGED <<externalId, phone, queue, handler, outside>>

CompleteJob ==
    /\ Doing("complete")
    /\ job' = [job EXCEPT ![worker.n] = "completed"]
    /\ worker' = Resting
    /\ UNCHANGED <<rows, attempts, handler, outside>>

\* Mutant of GiveBack: an attempt that throws is not counted.
GiveBackUncounted ==
    /\ Doing("giveBack")
    /\ job' = [job EXCEPT ![worker.n] = "waiting"]
    /\ worker' = Resting
    /\ UNCHANGED <<rows, attempts, handler, outside>>

\* Mutant of GiveBack: one attempt too many.
GiveBackOneMore ==
    /\ Doing("giveBack")
    /\ attempts' = [attempts EXCEPT ![worker.n] = @ + 1]
    /\ job' = [job EXCEPT ![worker.n] =
                 IF attempts'[worker.n] <= MaxAttempts THEN "waiting" ELSE "failed"]
    /\ worker' = Resting
    /\ UNCHANGED <<rows, handler, outside>>

\* process throws: BullMQ tries again after a pause, until the attempts are used.
GiveBack ==
    /\ Doing("giveBack")
    /\ attempts' = [attempts EXCEPT ![worker.n] = @ + 1]
    /\ job' = [job EXCEPT ![worker.n] =
                 IF attempts'[worker.n] < MaxAttempts THEN "waiting" ELSE "failed"]
    /\ worker' = Resting
    /\ UNCHANGED <<rows, handler, outside>>

WorkerStep == \/ \E n \in Notifications : TakeJob(n)
              \/ CheckReady \/ Load \/ Send \/ Record \/ RecordFailure
              \/ CompleteJob \/ GiveBack

-----------------------------------------------------------------------------
(* Webhooks: changeOutgoingStatus, changeIncomingStatus.                   *)

Free(h) == handler[h] = Idle
Return(h) == handler' = [handler EXCEPT ![h] = Idle]

\* A report on message m; one that no row names by now is dropped for good.
ReadOutgoing(h, m, s) ==
    /\ Free(h)
    /\ \E n \in Notifications :
          /\ externalId[n] = m
          /\ handler' = [handler EXCEPT ![h] =
                           [kind |-> "outgoing", n |-> n, new |-> s, seen |-> status[n]]]
    /\ UNCHANGED <<rows, queue, worker, outside>>

\* Mutant of Outranks: whatever comes last is written.
OutranksAlways(c) == Priority(c.new) > 0

Outranks(c) == Priority(c.new) > Priority(c.seen)

WriteOutgoing(h) ==
    /\ handler[h].kind = "outgoing"
    /\ LET c == handler[h] IN
          status' = IF Outranks(c) THEN [status EXCEPT ![c.n] = c.new] ELSE status
    /\ Return(h)
    /\ UNCHANGED <<externalId, phone, queue, worker, outside>>

\* Mutant of Confirmable: a reply confirms whatever is the latest.
ConfirmableAny(p) == {n \in Notifications : phone[ClientOf[n]] = p}

\* The notifications that a message from number p can confirm.
Confirmable(p) == {n \in Notifications : /\ phone[ClientOf[n]] = p
                                         /\ status[n] \in {"sent", "delivered", "read"}}

ReadIncoming(h, p) ==
    /\ Free(h)
    /\ \E n \in Confirmable(p) :
          /\ \A o \in Confirmable(p) : o <= n
          /\ handler' = [handler EXCEPT ![h] = [kind |-> "incoming", n |-> n]]
    /\ UNCHANGED <<rows, queue, worker, outside>>

WriteIncoming(h) ==
    /\ handler[h].kind = "incoming"
    /\ status' = [status EXCEPT ![handler[h].n] = "isConfirmed"]
    /\ Return(h)
    /\ UNCHANGED <<externalId, phone, queue, worker, outside>>

-----------------------------------------------------------------------------
(* A clerk's resend: handleManualResend and handleUpdatePhoneAndResend.    *)

At(h, step) == handler[h].kind \in Kinds /\ handler[h].step = step
Proceed(h, step) == handler' = [handler EXCEPT ![h] = [@ EXCEPT !.step = step]]

\* handleManualResend looks for the job first, the other one writes first.
BeginResend(h, n, kind, p) ==
    /\ Free(h)
    /\ resends < MaxResends
    /\ kind = "resend" => p = phone[ClientOf[n]]
    /\ handler' = [handler EXCEPT ![h] =
                     [kind |-> kind, n |-> n, phone |-> p,
                      step |-> IF kind = "resend" THEN "getJob" ELSE "update"]]
    /\ resends' = resends + 1
    /\ UNCHANGED <<rows, queue, worker, sent, authorized, crashes>>

AfterRemoval(h) == IF handler[h].kind = "resend" THEN "update" ELSE "add"

GetJob(h) ==
    /\ At(h, "getJob")
    /\ Proceed(h, IF job[handler[h].n] = "none" THEN AfterRemoval(h) ELSE "remove")
    /\ UNCHANGED <<rows, queue, worker, outside>>

\* Mutant of RemoveJob: the old job stays.
RemoveNothing(h) ==
    /\ At(h, "remove")
    /\ Proceed(h, AfterRemoval(h))
    /\ UNCHANGED <<rows, queue, worker, outside>>

\* Mutant of RemoveJob: also the job that the worker holds.
RemoveLocked(h) ==
    /\ At(h, "remove")
    /\ Proceed(h, AfterRemoval(h))
    /\ job' = [job EXCEPT ![handler[h].n] = "none"]
    /\ UNCHANGED <<rows, attempts, worker, outside>>

\* job.remove() throws while the worker holds the job.
RemoveJob(h) ==
    /\ At(h, "remove")
    /\ LET n == handler[h].n IN
          IF job[n] = "active" THEN Return(h) /\ UNCHANGED job
          ELSE Proceed(h, AfterRemoval(h)) /\ job' = [job EXCEPT ![n] = "none"]
    /\ UNCHANGED <<rows, attempts, worker, outside>>

UpdateRow(h) ==
    /\ At(h, "update")
    /\ LET c == handler[h] IN
          /\ status' = [status EXCEPT ![c.n] = "pending"]
          /\ phone' = IF c.kind = "resend" THEN phone
                      ELSE [phone EXCEPT ![ClientOf[c.n]] = c.phone]
          /\ Proceed(h, IF c.kind = "resend" THEN "add" ELSE "getJob")
    /\ UNCHANGED <<externalId, queue, worker, outside>>

\* queue.add does nothing when a job with the id exists, a finished one included.
AddJob(h) ==
    /\ At(h, "add")
    /\ LET n == handler[h].n IN
          IF job[n] = "none" THEN /\ job' = [job EXCEPT ![n] = "waiting"]
                                  /\ attempts' = [attempts EXCEPT ![n] = 0]
          ELSE UNCHANGED queue
    /\ Return(h)
    /\ UNCHANGED <<rows, worker, outside>>

-----------------------------------------------------------------------------
(* The environment.                                                        *)

\* A finished job leaves Redis when enough others finished after it.
TrimJob(n) ==
    /\ job[n] \in {"completed", "failed"}
    /\ job' = [job EXCEPT ![n] = "none"]
    /\ UNCHANGED <<rows, attempts, worker, handler, outside>>

\* The clerk edits the client.
EditPhone(c, p) ==
    /\ phone' = [phone EXCEPT ![c] = p]
    /\ UNCHANGED <<status, externalId, queue, worker, handler, outside>>

InstanceChanges ==
    /\ MayLogOut
    /\ authorized' = ~authorized
    /\ UNCHANGED <<rows, queue, worker, sent, handler, resends, crashes>>

CallFails(h) == /\ Faults
                /\ ~Free(h)
                /\ Return(h)
                /\ UNCHANGED <<rows, queue, worker, outside>>

\* The process dies; BullMQ gives the job it held to the next one.
Crash ==
    /\ Faults
    /\ crashes < MaxCrashes
    /\ worker' = Resting
    /\ job' = [n \in Notifications |-> IF job[n] = "active" THEN "waiting" ELSE job[n]]
    /\ handler' = [h \in Handlers |-> Idle]
    /\ crashes' = crashes + 1
    /\ UNCHANGED <<rows, attempts, sent, authorized, resends>>

Next == \/ \E n \in Notifications : TakeJob(n)
        \/ CheckReady \/ Load \/ Send \/ Record \/ RecordFailure \/ CompleteJob \/ GiveBack
        \/ \E h \in Handlers :
              \/ \E m \in DOMAIN sent, s \in Reports : ReadOutgoing(h, m, s)
              \/ WriteOutgoing(h)
              \/ \E p \in Phones : ReadIncoming(h, p)
              \/ WriteIncoming(h)
              \/ \E n \in Notifications, kind \in Kinds, p \in Phones :
                    BeginResend(h, n, kind, p)
              \/ GetJob(h) \/ RemoveJob(h) \/ UpdateRow(h) \/ AddJob(h)
              \/ CallFails(h)
        \/ \E n \in Notifications : TrimJob(n)
        \/ \E c \in Clients, p \in Phones : EditPhone(c, p)
        \/ InstanceChanges \/ Crash

Spec == Init /\ [][Next]_vars

\* The worker takes the next job when it is free, and every call it makes answers.
FairSpec == Spec /\ WF_vars(WorkerStep)

-----------------------------------------------------------------------------
(* Properties that hold however the calls interleave and fail.             *)

Live(n) == job[n] \in {"waiting", "active"}

\* The worker works on a job that BullMQ counts as active, one at a time, also
\* after crashes, removals and additions under the same id.
OneSender == \A n \in Notifications :
                job[n] = "active" <=> worker # Resting /\ worker.n = n

\* A status beyond pending and failed is about a message that was sent for
\* this very notification, and the row's external id names one of those.
StatusIsBacked ==
    \A n \in Notifications :
        /\ externalId[n] # 0 => externalId[n] <= Len(sent) /\ sent[externalId[n]].n = n
        /\ status[n] \notin {"pending", "failed"} => externalId[n] # 0

\* A client is sent no more messages than there were attempts of the first job
\* and of the resends, and one per crash.
NoFlood == \A n \in Notifications :
              Cardinality({m \in DOMAIN sent : sent[m].n = n})
                  <= MaxAttempts * (resends + 1) + crashes

\* How many steps of the worker a job can still cost: six in each attempt, and one
\* to take the job up.
StepsDone == CASE worker.step = "check"  -> 1
               [] worker.step = "load"   -> 2
               [] worker.step = "send"   -> 3
               [] worker.step = "record" -> 4
               [] worker.step = "recordFailure" -> 5
               [] worker.step \in {"complete", "giveBack"} -> 6
               [] OTHER -> 0
WorkLeft(n) == IF ~Live(n) THEN 0
               ELSE 7 * (MaxAttempts - attempts[n]) - (IF job[n] = "active" THEN StepsDone ELSE 0)

\* A job runs out of work by its own count of attempts: each step of the worker takes
\* some from one job, and only a crash or a resend gives any back.
EveryStepCounts ==
    /\ WorkerStep => \E n \in Notifications : WorkLeft(n)' \in 0..(WorkLeft(n) - 1)
    /\ \A n \in Notifications :
          WorkLeft(n)' > WorkLeft(n) => Crash \/ \E h \in Handlers : AddJob(h)
JobsProgress == [][EveryStepCounts]_vars

\* Whatever the instance's authorization does, a job ends.
JobsEnd == \A n \in Notifications : Live(n) ~> ~Live(n)

-----------------------------------------------------------------------------
(* Properties of one call at a time; the worker is still concurrent.       *)

\* A webhook about a message's progress never takes a notification back.
LowersNothing == \A h \in Handlers : WriteOutgoing(h) =>
                    \A n \in Notifications : Priority(status'[n]) >= Priority(status[n])
WebhooksOnlyAdvance == [][LowersNothing]_vars

\* A notification shown as queued is in the queue, or a resend is on its way there.
PendingIsQueued ==
    \A n \in Notifications :
        status[n] = "pending" =>
            \/ Live(n)
            \/ \E h \in Handlers : handler[h].kind \in Kinds /\ handler[h].n = n
=============================================================================
