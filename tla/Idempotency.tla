---------------------------- MODULE Idempotency ----------------------------
(***************************************************************************)
(* The interceptor that every POST, PATCH and PUT with an                  *)
(* X-Idempotency-Key passes: a record in Redis per user, path and key says *)
(* whether such a request is being handled or what it was answered.        *)
(* Requests with one key (a client that repeats itself, a proxy that       *)
(* retries) interleave at every await.  Redis commands of the one          *)
(* connection take effect in the order they are issued, so a command that  *)
(* nobody waits for takes effect with the step that issues it, or is lost. *)
(***************************************************************************)
EXTENDS Integers, FiniteSets

CONSTANTS
    Keys,    \* Redis keys: user, path and X-Idempotency-Key together
    Bodies,  \* of requests; a handler's answer is known by the body it is about
    Calls,   \* requests in progress at the same time
    MaxExpiries, MaxBroken, MaxLost, MaxCrashes  \* bounds

ASSUME IdempotencyConstants == 
    {MaxExpiries, MaxBroken, MaxLost, MaxCrashes} \subseteq Nat

VARIABLES
    record,   \* record[k]: the IdempotencyRecord in Redis
    call,     \* call[c]: the request c and how far it is
    applied,  \* applied[k]: the bodies that took effect under k
    effects,  \* effects[k]: how many times a handler took effect under k
    expiries, \* expiries[k]: how often the record of k expired
    broken,   \* broken[k]: handlers that threw although they took effect
    lost, crashes, \* Redis commands or answers that were lost, ends of the process
    hit       \* history: keys whose request lost one of these, or its process, and
              \* could not end its record

vars == <<record, call, applied, effects, expiries, broken, lost, crashes, hit>>

NoRecord == [status |-> "none"]
Processing(b) == [status |-> "processing", hash |-> b]
\* A mutant: the completed record is built without spreading the initial one.
CompletedWithoutHash(hash, body) == [status |-> "completed", answer |-> body]
Completed(hash, body) == [status |-> "completed", hash |-> hash, answer |-> body]
Record == {NoRecord} \cup [status : {"processing"}, hash : Bodies]
                     \cup [status : {"completed"}, hash : Bodies, answer : Bodies]

Steps == {"claim", "run", "ran"}
Errors == {"conflict", "badRequest", "error"}
Call == [step : Steps, key : Keys, body : Bodies]
        \cup [step : {"answered"}, key : Keys, body : Bodies, answer : Bodies]
        \cup [step : Errors, key : Keys, body : Bodies]
        \cup {[step |-> "idle"]}

TypeOK ==
    /\ record \in [Keys -> Record]
    /\ call \in [Calls -> Call]
    /\ applied \in [Keys -> SUBSET Bodies]
    /\ effects \in [Keys -> Nat]
    /\ expiries \in [Keys -> 0..MaxExpiries]
    /\ broken \in [Keys -> 0..MaxBroken]
    /\ lost \in 0..MaxLost /\ crashes \in 0..MaxCrashes
    /\ hit \in SUBSET Keys

Idle == [step |-> "idle"]

Init ==
    /\ record = [k \in Keys |-> NoRecord]
    /\ call = [c \in Calls |-> Idle]
    /\ applied = [k \in Keys |-> {}]
    /\ effects = [k \in Keys |-> 0]
    /\ expiries = [k \in Keys |-> 0]
    /\ broken = [k \in Keys |-> 0]
    /\ lost = 0 /\ crashes = 0
    /\ hit = {}

-----------------------------------------------------------------------------
(* A request.                                                              *)

Asking(step, k, b) == [step |-> step, key |-> k, body |-> b]
Answering(k, b, a) == [step |-> "answered", key |-> k, body |-> b, answer |-> a]

\* A mutant: the bodies are not compared.
ReplayAny(k, b) ==
    IF record[k].status = "processing" THEN Asking("conflict", k, b)
    ELSE Answering(k, b, record[k].answer)

\* What the record makes of a request with body b; the comparison of the
\* bodies comes after the check that nobody is at work.
Replay(k, b) ==
    IF record[k].status = "processing" THEN Asking("conflict", k, b)
    ELSE IF record[k].hash # b THEN Asking("badRequest", k, b)
    ELSE Answering(k, b, record[k].answer)

\* redis.get: a request whose key has a record ends here, and one whose get
\* fails.  Requests without a key and other methods go to their handler and
\* touch no record.
Arrive(c, k, b) ==
    /\ call[c].step \notin Steps
    /\ \E next \in {Asking("error", k, b),
                   IF record[k] = NoRecord THEN Asking("claim", k, b) ELSE Replay(k, b)} :
          call' = [call EXCEPT ![c] = next]
    /\ UNCHANGED <<record, applied, effects, expiries, broken, lost, crashes, hit>>

\* Mutants: a plain SET, and one that takes over records of requests in progress.
NeverClaimed(k) == FALSE
ClaimedIfCompleted(k) == record[k].status = "completed"

\* redis.set NX: of the requests that found no record one gets to the handler.
Claimed(k) == record[k] # NoRecord

Claim(c) ==
    LET k == call[c].key IN
    /\ call[c].step = "claim"
    /\ IF Claimed(k)
       THEN /\ call' = [call EXCEPT ![c] = Asking("conflict", k, @.body)]
            /\ UNCHANGED record
       ELSE /\ call' = [call EXCEPT ![c].step = "run"]
            /\ record' = [record EXCEPT ![k] = Processing(call[c].body)]
    /\ UNCHANGED <<applied, effects, expiries, broken, lost, crashes, hit>>

\* The set is not answered.  If it did not reach Redis the request fails.  If it
\* did, the request fails all the same, or ioredis sends the set once more and NX
\* refuses it: the record says "processing", and nobody will end it.
ClaimFails(c) ==
    LET k == call[c].key IN
    /\ call[c].step = "claim"
    /\ \/ /\ call' = [call EXCEPT ![c] = Asking("error", k, @.body)]
          /\ UNCHANGED <<record, lost, hit>>
       \/ /\ ~Claimed(k)
          /\ lost < MaxLost
          /\ \E step \in {"error", "conflict"} :
                call' = [call EXCEPT ![c] = Asking(step, k, @.body)]
          /\ record' = [record EXCEPT ![k] = Processing(call[c].body)]
          /\ lost' = lost + 1
          /\ hit' = hit \cup {k}
    /\ UNCHANGED <<applied, effects, expiries, broken, crashes>>

\* The handler's transaction commits.
TakeEffect(c) ==
    LET k == call[c].key IN
    /\ call[c].step = "run"
    /\ call' = [call EXCEPT ![c].step = "ran"]
    /\ applied' = [applied EXCEPT ![k] = @ \cup {call[c].body}]
    /\ effects' = [effects EXCEPT ![k] = @ + 1]
    /\ UNCHANGED <<record, expiries, broken, lost, crashes, hit>>

\* The write of the record that ends a request, which nobody waits for.
WriteRecord(k, r) ==
    \/ record' = [record EXCEPT ![k] = r] /\ UNCHANGED <<lost, hit>>
    \/ lost < MaxLost /\ lost' = lost + 1 /\ hit' = hit \cup {k} /\ UNCHANGED record

\* tap: the handler returned.
Succeed(c) ==
    LET k == call[c].key IN
    /\ call[c].step = "ran"
    /\ WriteRecord(k, Completed(call[c].body, call[c].body))
    /\ call' = [call EXCEPT ![c] = Answering(k, @.body, @.body)]
    /\ UNCHANGED <<applied, effects, expiries, broken, crashes>>

\* A mutant: the error path leaves the record alone.
FailKeepsRecord(k) == UNCHANGED <<record, lost, hit>>

\* catchError: the handler refused the request, or threw after its commit
\* (as createVisit does when it cannot delete the lock of its code).
FailRecord(k) == WriteRecord(k, NoRecord)

Refuse(c) ==
    /\ call[c].step = "run"
    /\ FailRecord(call[c].key)
    /\ call' = [call EXCEPT ![c] = Asking("error", @.key, @.body)]
    /\ UNCHANGED <<applied, effects, expiries, broken, crashes>>

BreakOff(c) ==
    /\ call[c].step = "ran"
    /\ broken[call[c].key] < MaxBroken
    /\ FailRecord(call[c].key)
    /\ call' = [call EXCEPT ![c] = Asking("error", @.key, @.body)]
    /\ broken' = [broken EXCEPT ![call[c].key] = @ + 1]
    /\ UNCHANGED <<applied, effects, expiries, crashes>>

-----------------------------------------------------------------------------
(* Time and faults.                                                        *)

Running(c) == call[c].step \in {"run", "ran"}

\* EX 24 hours, which no running request lasts; one may be between its get
\* and its set.
Expire(k) ==
    /\ record[k] # NoRecord
    /\ \A c \in Calls : Running(c) => call[c].key # k
    /\ expiries[k] < MaxExpiries
    /\ record' = [record EXCEPT ![k] = NoRecord]
    /\ expiries' = [expiries EXCEPT ![k] = @ + 1]
    /\ hit' = hit \ {k}
    /\ UNCHANGED <<call, applied, effects, broken, lost, crashes>>

\* The process dies and is started again; Redis and Postgres keep what they have.
Crash ==
    /\ crashes < MaxCrashes
    /\ crashes' = crashes + 1
    /\ call' = [c \in Calls |-> Idle]
    /\ hit' = hit \cup {call[c].key : c \in {e \in Calls : Running(e)}}
    /\ UNCHANGED <<record, applied, effects, expiries, broken, lost>>

Next == \/ \E c \in Calls :
              \/ \E k \in Keys, b \in Bodies : Arrive(c, k, b)
              \/ Claim(c) \/ ClaimFails(c) \/ TakeEffect(c) \/ Succeed(c) \/ Refuse(c) \/ BreakOff(c)
        \/ \E k \in Keys : Expire(k)
        \/ Crash

Spec == Init /\ [][Next]_vars

-----------------------------------------------------------------------------
(* Properties.                                                             *)

\* Two requests with one key are never in their handlers at the same time.
OneRunner == \A c, d \in Calls :
                Running(c) /\ Running(d) /\ call[c].key = call[d].key => c = d

\* A key takes effect once, and once more for every time its record expired
\* and every handler that threw after it had committed; a lost command or the
\* end of the process never makes it twice.
AtMostOnce == \A k \in Keys : effects[k] <= 1 + expiries[k] + broken[k]

\* Who is answered with success, from a handler or from the record, is told of
\* an effect of his own body: never of another request with the same key.
AnswersAreOwn == \A c \in Calls :
    call[c].step = "answered" => /\ call[c].answer = call[c].body
                                 /\ call[c].body \in applied[call[c].key]

\* A record that says a request is being handled is right, unless this very
\* request lost its process, the write that ends it or the answer to the one that
\* claimed the key: no failure of a handler, no lookup that failed and no fault
\* of another request, also of an earlier one with the key, keeps it reserved.
NoOrphan == \A k \in Keys :
    record[k].status = "processing"
        => k \in hit \/ \E c \in Calls : Running(c) /\ call[c].key = k
=============================================================================
