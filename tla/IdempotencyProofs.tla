------------------------- MODULE IdempotencyProofs -------------------------
(***************************************************************************)
(* Proofs about Idempotency for any keys, bodies and number of concurrent  *)
(* requests, whatever expires, is lost or dies.                            *)
(***************************************************************************)
EXTENDS Idempotency, TLAPS

-----------------------------------------------------------------------------
(* The parts of the inductive invariant.                                   *)

\* The record of a key whose handler runs is that request's own.
RunnerHoldsRecord ==
    \A c \in Calls : Running(c) => record[call[c].key] = Processing(call[c].body)

\* A completed record tells of an effect of the body it was made for.
CompletedIsTrue ==
    \A k \in Keys : record[k].status = "completed"
                       => record[k].hash = record[k].answer /\ record[k].answer \in applied[k]

\* A handler that is past its commit has taken effect.
RanIsApplied ==
    \A c \in Calls : call[c].step = "ran" => call[c].body \in applied[call[c].key]

\* The effect that AtMostOnce allows for is the one the record stands for; a
\* handler before its commit still has it to come.
EffectsCounted ==
    /\ \A k \in Keys :
          /\ effects[k] <= 1 + expiries[k] + broken[k]
          /\ record[k] = NoRecord => effects[k] <= expiries[k] + broken[k]
    /\ \A c \in Calls :
          call[c].step = "run" =>
              effects[call[c].key] <= expiries[call[c].key] + broken[call[c].key]

IInv ==
    /\ TypeOK
    /\ OneRunner
    /\ RunnerHoldsRecord
    /\ CompletedIsTrue
    /\ RanIsApplied
    /\ AnswersAreOwn
    /\ EffectsCounted
    /\ NoOrphan

-----------------------------------------------------------------------------
(* Type correctness.                                                       *)

LEMMA InitTypeOK == Init => TypeOK
BY IdempotencyConstants DEF Init, TypeOK, Record, Call, Idle

\* Writing a record keeps the records typed and counts a lost command.
LEMMA WriteRecordType ==
    ASSUME TypeOK, NEW k \in Keys, NEW r \in Record, WriteRecord(k, r)
    PROVE  record' \in [Keys -> Record] /\ lost' \in 0..MaxLost /\ hit' \in SUBSET Keys
BY IdempotencyConstants DEF TypeOK, WriteRecord

\* A request that is at work asks under a key, with a body.
LEMMA AskingFields ==
    ASSUME TypeOK, NEW c \in Calls, call[c].step \in Steps
    PROVE  call[c].key \in Keys /\ call[c].body \in Bodies
           /\ \A s \in Steps : [call[c] EXCEPT !.step = s] \in Call
<1>1. call[c] \in Call
  BY DEF TypeOK
<1>2. call[c] \in [step : Steps, key : Keys, body : Bodies]
  BY <1>1 DEF Call, Steps, Errors
<1>3. \A s \in Steps : [call[c] EXCEPT !.step = s] \in [step : Steps, key : Keys, body : Bodies]
  BY <1>2
<1> QED
  BY <1>2, <1>3 DEF Call

\* What a request reads from a record is an answer.
LEMMA ReplayType ==
    ASSUME TypeOK, NEW k \in Keys, NEW b \in Bodies, record[k] # NoRecord
    PROVE  Replay(k, b) \in Call
<1>1. record[k] \in Record
  BY DEF TypeOK
<1>2. record[k].status = "processing" \/ record[k].answer \in Bodies
  BY <1>1 DEF Record
<1> QED
  BY <1>2 DEF Replay, Asking, Answering, Call, Errors

LEMMA NextTypeOK == TypeOK /\ [Next]_vars => TypeOK'
<1> SUFFICES ASSUME TypeOK, [Next]_vars PROVE TypeOK'
  OBVIOUS
<1> USE IdempotencyConstants
<1>1. ASSUME NEW c \in Calls, NEW k \in Keys, NEW b \in Bodies, Arrive(c, k, b)
      PROVE  TypeOK'
  <2>1. Asking("claim", k, b) \in Call /\ Asking("error", k, b) \in Call
    BY DEF Asking, Call, Steps, Errors
  <2> QED
    BY <1>1, <2>1, ReplayType DEF TypeOK, Arrive
<1>2. ASSUME NEW c \in Calls, Claim(c) PROVE TypeOK'
  <2>1. call[c].key \in Keys /\ call[c].body \in Bodies
    BY <1>2, AskingFields DEF Claim, Steps
  <2>2. Asking("conflict", call[c].key, call[c].body) \in Call
    BY <2>1 DEF Asking, Call, Errors
  <2>3. [call[c] EXCEPT !.step = "run"] \in Call
    BY <1>2, AskingFields DEF Claim, Steps
  <2>4. Processing(call[c].body) \in Record
    BY <2>1 DEF Record, Processing, Completed
  <2> QED
    BY <1>2, <2>2, <2>3, <2>4 DEF TypeOK, Claim
<1>3. ASSUME NEW c \in Calls, TakeEffect(c) PROVE TypeOK'
  <2>1. call[c].key \in Keys /\ call[c].body \in Bodies
    BY <1>3, AskingFields DEF TakeEffect, Steps
  <2>2. [call[c] EXCEPT !.step = "ran"] \in Call
    BY <1>3, AskingFields DEF TakeEffect, Steps
  <2> QED
    BY <1>3, <2>1, <2>2 DEF TypeOK, TakeEffect
<1>4. ASSUME NEW c \in Calls, Succeed(c) PROVE TypeOK'
  <2>1. call[c].key \in Keys /\ call[c].body \in Bodies
    BY <1>4, AskingFields DEF Succeed, Steps
  <2>2. Answering(call[c].key, call[c].body, call[c].body) \in Call
    BY <2>1 DEF Answering, Call
  <2>3. Completed(call[c].body, call[c].body) \in Record
    BY <2>1 DEF Record, Processing, Completed
  <2>4. record' \in [Keys -> Record] /\ lost' \in 0..MaxLost /\ hit' \in SUBSET Keys
    BY <1>4, <2>1, <2>3, WriteRecordType DEF Succeed
  <2> QED
    BY <1>4, <2>2, <2>4 DEF TypeOK, Succeed
<1>5. ASSUME NEW c \in Calls, Refuse(c) PROVE TypeOK'
  <2>1. call[c].key \in Keys /\ call[c].body \in Bodies
    BY <1>5, AskingFields DEF Refuse, Steps
  <2>2. Asking("error", call[c].key, call[c].body) \in Call
    BY <2>1 DEF Asking, Call, Errors
  <2>3. record' \in [Keys -> Record] /\ lost' \in 0..MaxLost /\ hit' \in SUBSET Keys
    BY <1>5, <2>1, WriteRecordType DEF Refuse, FailRecord, Record
  <2> QED
    BY <1>5, <2>2, <2>3 DEF TypeOK, Refuse
<1>6. ASSUME NEW c \in Calls, BreakOff(c) PROVE TypeOK'
  <2>1. call[c].key \in Keys /\ call[c].body \in Bodies
    BY <1>6, AskingFields DEF BreakOff, Steps
  <2>2. Asking("error", call[c].key, call[c].body) \in Call
    BY <2>1 DEF Asking, Call, Errors
  <2>3. record' \in [Keys -> Record] /\ lost' \in 0..MaxLost /\ hit' \in SUBSET Keys
    BY <1>6, <2>1, WriteRecordType DEF BreakOff, FailRecord, Record
  <2>4. broken' \in [Keys -> 0..MaxBroken]
    BY <1>6, <2>1 DEF TypeOK, BreakOff
  <2> QED
    BY <1>6, <2>2, <2>3, <2>4 DEF TypeOK, BreakOff
<1>7. ASSUME NEW k \in Keys, Expire(k) PROVE TypeOK'
  BY <1>7 DEF TypeOK, Expire, Record
<1>8. ASSUME Crash PROVE TypeOK'
  <2>1. \A c \in Calls : Running(c) => call[c].key \in Keys
    BY AskingFields DEF Running, Steps
  <2>2. call' \in [Calls -> Call]
    BY <1>8 DEF Crash, Call, Idle
  <2>3. hit' \in SUBSET Keys
    BY <1>8, <2>1 DEF TypeOK, Crash
  <2> QED
    BY <1>8, <2>2, <2>3 DEF TypeOK, Crash
<1>9. ASSUME NEW c \in Calls, ClaimFails(c) PROVE TypeOK'
  <2>1. call[c].key \in Keys /\ call[c].body \in Bodies
    BY <1>9, AskingFields DEF ClaimFails, Steps
  <2>2. /\ Asking("error", call[c].key, call[c].body) \in Call
        /\ Asking("conflict", call[c].key, call[c].body) \in Call
    BY <2>1 DEF Asking, Call, Errors
  <2>3. Processing(call[c].body) \in Record
    BY <2>1 DEF Record, Processing, Completed
  <2>4. call' \in [Calls -> Call]
    BY <1>9, <2>2 DEF TypeOK, ClaimFails
  <2>5. record' \in [Keys -> Record] /\ lost' \in 0..MaxLost /\ hit' \in SUBSET Keys
    BY <1>9, <2>1, <2>3 DEF TypeOK, ClaimFails
  <2> QED
    BY <1>9, <2>4, <2>5 DEF TypeOK, ClaimFails
<1>10. CASE UNCHANGED vars
  BY <1>10 DEF TypeOK, vars
<1> QED
  BY <1>1, <1>2, <1>3, <1>4, <1>5, <1>6, <1>7, <1>8, <1>9, <1>10 DEF Next

\* The records, the requests and the counters of the interceptor are always
\* well typed, for any keys, bodies and requests.
THEOREM IdempotencyTypeCorrect == Spec => []TypeOK
<1>1. Init => TypeOK
  BY InitTypeOK
<1>2. TypeOK /\ [Next]_vars => TypeOK'
  BY NextTypeOK
<1> QED
  BY <1>1, <1>2, PTL DEF Spec

-----------------------------------------------------------------------------
(* The inductive invariant.                                                *)

LEMMA InitIInv == Init => IInv
<1> SUFFICES ASSUME Init PROVE IInv
  OBVIOUS
<1>1. TypeOK
  BY InitTypeOK
<1>2. \A c \in Calls : ~Running(c) /\ call[c].step = "idle"
  BY DEF Init, Idle, Running
<1> QED
  BY <1>1, <1>2 DEF IInv, Init, OneRunner, RunnerHoldsRecord, CompletedIsTrue, RanIsApplied,
       AnswersAreOwn, EffectsCounted, NoOrphan, NoRecord

\* Records of different kinds are different.
LEMMA RecordKinds ==
    \A b \in Bodies, a \in Bodies :
        /\ Processing(b) # NoRecord /\ Processing(b).status = "processing"
        /\ NoRecord.status = "none"
        /\ Completed(b, a).status = "completed"
        /\ Completed(b, a).hash = b /\ Completed(b, a).answer = a
        /\ Completed(b, a) # NoRecord
<1>1. \A b \in Bodies : Processing(b).status = "processing"
  BY DEF Processing
<1>2. NoRecord.status = "none"
  BY DEF NoRecord
<1>3. \A b, a \in Bodies : /\ Completed(b, a).status = "completed"
                           /\ Completed(b, a).hash = b /\ Completed(b, a).answer = a
  BY DEF Completed
<1> QED
  BY <1>1, <1>2, <1>3

LEMMA ArriveIInv ==
    ASSUME IInv, TypeOK', NEW c \in Calls, NEW k \in Keys, NEW b \in Bodies, Arrive(c, k, b)
    PROVE  IInv'
<1> USE DEF IInv
<1>1. \A d \in Calls \ {c} : call'[d] = call[d]
  BY DEF Arrive, TypeOK
<1>2. /\ call'[c].step \notin {"run", "ran"}
      /\ call'[c].step = "answered" =>
            /\ call'[c] = Answering(k, b, record[k].answer)
            /\ record[k].status = "completed" /\ record[k].hash = b
  <2>1. \/ call'[c] = Asking("error", k, b)
        \/ call'[c] = IF record[k] = NoRecord THEN Asking("claim", k, b) ELSE Replay(k, b)
    BY DEF Arrive, TypeOK
  <2>2. CASE record[k] = NoRecord
    BY <2>1, <2>2 DEF Asking
  <2>3. CASE record[k] # NoRecord
    <3>1. record[k].status \in {"processing", "completed"}
      BY <2>3 DEF TypeOK, Record, Processing, Completed
    <3> QED
      BY <2>1, <2>3, <3>1 DEF Replay, Asking, Answering
  <2> QED
    BY <2>2, <2>3
<1>3. \A d \in Calls : Running(d)' => Running(d) /\ d # c /\ call'[d] = call[d]
  BY <1>1, <1>2 DEF Running
<1>4. \A d \in Calls : Running(d) => Running(d)' /\ call'[d] = call[d]
  BY <1>1 DEF Running, Arrive, Steps
<1>5. OneRunner' /\ RunnerHoldsRecord'
  BY <1>3 DEF OneRunner, RunnerHoldsRecord, Arrive
<1>6. CompletedIsTrue'
  BY DEF CompletedIsTrue, Arrive
<1>7. RanIsApplied'
  BY <1>1, <1>2 DEF RanIsApplied, Arrive
<1>8. AnswersAreOwn'
  <2>1. call'[c].step = "answered" => /\ call'[c].answer = call'[c].body
                                      /\ call'[c].body \in applied[call'[c].key]
    BY <1>2 DEF CompletedIsTrue, Answering
  <2> QED
    BY <1>1, <2>1 DEF AnswersAreOwn, Arrive
<1>9. EffectsCounted'
  BY <1>1, <1>2 DEF EffectsCounted, Arrive
<1>10. NoOrphan'
  BY <1>4 DEF NoOrphan, Arrive
<1> QED
  BY <1>5, <1>6, <1>7, <1>8, <1>9, <1>10

LEMMA ClaimIInv ==
    ASSUME IInv, TypeOK', NEW c \in Calls, Claim(c)
    PROVE  IInv'
<1> USE DEF IInv
<1> DEFINE k == call[c].key
           b == call[c].body
<1>1. k \in Keys /\ b \in Bodies
  BY AskingFields DEF Claim, Steps
<1>2. \A d \in Calls \ {c} : call'[d] = call[d]
  BY DEF Claim, TypeOK
<1>3. CASE Claimed(k)
  <2>1. call'[c] = Asking("conflict", k, b) /\ UNCHANGED record
    BY <1>3 DEF Claim, TypeOK
  <2>2. \A d \in Calls : Running(d)' => Running(d) /\ call'[d] = call[d]
    BY <1>2, <2>1 DEF Running, Asking
  <2>3. \A d \in Calls : Running(d) => Running(d)' /\ call'[d] = call[d]
    BY <1>2 DEF Running, Claim
  <2>4. call'[c].step \notin {"run", "ran", "answered"}
    BY <2>1 DEF Asking
  <2>5. OneRunner' /\ RunnerHoldsRecord'
    BY <2>1, <2>2 DEF OneRunner, RunnerHoldsRecord
  <2>6. CompletedIsTrue' /\ RanIsApplied' /\ AnswersAreOwn' /\ EffectsCounted'
    BY <1>2, <2>1, <2>4 DEF CompletedIsTrue, RanIsApplied, AnswersAreOwn, EffectsCounted, Claim
  <2>7. NoOrphan'
    BY <2>1, <2>3 DEF NoOrphan, Claim
  <2> QED
    BY <2>5, <2>6, <2>7
<1>4. CASE ~Claimed(k)
  <2>1. /\ call'[c] = [call[c] EXCEPT !.step = "run"]
        /\ record' = [record EXCEPT ![k] = Processing(b)]
        /\ record[k] = NoRecord
    BY <1>4 DEF Claim, Claimed, TypeOK
  <2>2. call'[c].step = "run" /\ call'[c].key = k /\ call'[c].body = b
    <3>1. call[c] \in [step : Steps, key : Keys, body : Bodies]
      BY DEF Claim, TypeOK, Call, Steps, Errors
    <3> QED
      BY <2>1, <3>1
  <2>3. record'[k] = Processing(b) /\ \A j \in Keys \ {k} : record'[j] = record[j]
    BY <1>1, <2>1 DEF TypeOK
  <2>4. \A d \in Calls : Running(d) => d # c /\ call[d].key # k /\ call'[d] = call[d]
    <3>1. \A d \in Calls : Running(d) => call[d].step \in Steps
      BY DEF Running, Steps
    <3>2. \A d \in Calls : Running(d) => call[d].body \in Bodies
      BY <3>1, AskingFields
    <3>3. \A d \in Calls : Running(d) => call[d].key # k
      BY <2>1, <3>2, RecordKinds DEF RunnerHoldsRecord
    <3> QED
      BY <1>2, <3>3 DEF Running, Claim
  <2>5. \A d \in Calls \ {c} : Running(d)' => Running(d) /\ call[d].key \in Keys
    <3>1. \A d \in Calls : Running(d) => call[d].step \in Steps
      BY DEF Running, Steps
    <3> QED
      BY <1>2, <3>1, AskingFields DEF Running
  <2>6. OneRunner'
    BY <1>2, <2>2, <2>4, <2>5 DEF OneRunner
  <2>7. RunnerHoldsRecord'
    BY <1>2, <2>2, <2>3, <2>4, <2>5 DEF RunnerHoldsRecord
  <2>8. CompletedIsTrue'
    BY <1>1, <2>3, RecordKinds DEF CompletedIsTrue, Claim
  <2>9. RanIsApplied' /\ AnswersAreOwn'
    BY <1>2, <2>2 DEF RanIsApplied, AnswersAreOwn, Claim
  <2>10. EffectsCounted'
    <3>1. \A j \in Keys : record'[j] = NoRecord => record[j] = NoRecord
      BY <2>1, <2>3
    <3>2. UNCHANGED <<effects, expiries, broken>>
      BY DEF Claim
    <3>3. effects[k] <= expiries[k] + broken[k]
      BY <1>1, <2>1 DEF EffectsCounted
    <3>4. \A d \in Calls : call'[d].step = "run" =>
              effects[call'[d].key] <= expiries[call'[d].key] + broken[call'[d].key]
      BY <1>2, <2>2, <3>3 DEF EffectsCounted
    <3> QED
      BY <3>1, <3>2, <3>4 DEF EffectsCounted
  <2>11. NoOrphan'
    <3>1. Running(c)' /\ call'[c].key = k
      BY <2>2 DEF Running
    <3>2. \A d \in Calls : Running(d) => Running(d)' /\ call'[d].key = call[d].key
      BY <2>4 DEF Running
    <3>3. \A j \in Keys \ {k} : record'[j] = record[j]
      BY <2>3
    <3>4. hit' = hit
      BY DEF Claim
    <3>5. ASSUME NEW j \in Keys, record'[j].status = "processing", j \notin hit'
          PROVE  \E d \in Calls : Running(d)' /\ call'[d].key = j
      <4>1. CASE j = k
        BY <3>1, <4>1
      <4>2. CASE j # k
        BY <3>2, <3>3, <3>4, <3>5, <4>2 DEF NoOrphan
      <4> QED
        BY <4>1, <4>2
    <3> QED
      BY <3>5 DEF NoOrphan
  <2> QED
    BY <2>6, <2>7, <2>8, <2>9, <2>10, <2>11
<1> QED
  BY <1>3, <1>4
LEMMA ClaimFailsIInv ==
    ASSUME IInv, TypeOK', NEW c \in Calls, ClaimFails(c)
    PROVE  IInv'
<1> USE DEF IInv
<1> DEFINE k == call[c].key
           b == call[c].body
<1>1. k \in Keys /\ b \in Bodies
  BY AskingFields DEF ClaimFails, Steps
<1>2. /\ \A d \in Calls \ {c} : call'[d] = call[d]
      /\ call'[c].step \in {"error", "conflict"}
  BY DEF ClaimFails, TypeOK, Asking
<1>3. UNCHANGED <<applied, effects, expiries, broken, crashes>>
  BY DEF ClaimFails
<1>4. \/ record' = record /\ hit' = hit
      \/ /\ record[k] = NoRecord
         /\ record'[k] = Processing(b) /\ \A j \in Keys \ {k} : record'[j] = record[j]
         /\ hit' = hit \cup {k}
  BY <1>1 DEF ClaimFails, Claimed, TypeOK
<1>5. \A d \in Calls : Running(d) => /\ d # c /\ call'[d] = call[d] /\ Running(d)'
                                    /\ call[d].key \in Keys /\ call[d].body \in Bodies
  BY <1>2, AskingFields DEF Running, ClaimFails, Steps
<1>6. \A d \in Calls : Running(d)' => Running(d) /\ call'[d] = call[d]
  BY <1>2 DEF Running
<1>7. OneRunner'
  BY <1>6 DEF OneRunner
<1>8. RunnerHoldsRecord'
  <2>1. \A d \in Calls : Running(d) => record[call[d].key] # NoRecord
    BY <1>5, RecordKinds DEF RunnerHoldsRecord
  <2>2. \A d \in Calls : Running(d) => record'[call[d].key] = record[call[d].key]
    BY <1>4, <1>5, <2>1
  <2> QED
    BY <1>6, <2>2 DEF RunnerHoldsRecord
<1>9. CompletedIsTrue'
  BY <1>1, <1>3, <1>4, RecordKinds DEF CompletedIsTrue
<1>10. RanIsApplied' /\ AnswersAreOwn'
  BY <1>2, <1>3 DEF RanIsApplied, AnswersAreOwn
<1>11. EffectsCounted'
  <2>1. \A j \in Keys : record'[j] = NoRecord => record[j] = NoRecord
    BY <1>1, <1>4, RecordKinds
  <2>2. \A d \in Calls : call'[d].step = "run" => call'[d] = call[d]
    BY <1>2
  <2> QED
    BY <1>3, <2>1, <2>2 DEF EffectsCounted
<1>12. NoOrphan'
  <2>1. ASSUME NEW j \in Keys, record'[j].status = "processing", j \notin hit'
        PROVE  \E d \in Calls : Running(d)' /\ call'[d].key = j
    <3>1. record'[j] = record[j] /\ j \notin hit
      BY <1>4, <2>1
    <3>2. PICK d \in Calls : Running(d) /\ call[d].key = j
      BY <2>1, <3>1 DEF NoOrphan
    <3> QED
      BY <1>5, <3>2
  <2> QED
    BY <2>1 DEF NoOrphan
<1> QED
  BY <1>7, <1>8, <1>9, <1>10, <1>11, <1>12

\* The end of a request: its own record is completed, gone, or as it was when
\* the command was lost; no other record and no other request changes.
LEMMA EndIInv ==
    ASSUME IInv, TypeOK', NEW c \in Calls, Running(c),
           NEW k, k = call[c].key,
           NEW r \in Record, WriteRecord(k, r),
           r = NoRecord \/ r = Completed(call[c].body, call[c].body),
           \A d \in Calls \ {c} : call'[d] = call[d],
           call'[c].step \in {"answered", "error"},
           r # NoRecord => call[c].step = "ran",
           call'[c].step = "answered" =>
               call[c].step = "ran" /\ call'[c] = Answering(k, call[c].body, call[c].body),
           UNCHANGED <<applied, effects, expiries, crashes>>,
           \/ broken' = broken /\ (r = NoRecord => call[c].step = "run")
           \/ broken' = [broken EXCEPT ![k] = @ + 1]
    PROVE  IInv'
<1> USE DEF IInv
<1> DEFINE b == call[c].body
<1>1. k \in Keys /\ b \in Bodies
  BY AskingFields DEF Running, Steps
<1>2. \A j \in Keys \ {k} : record'[j] = record[j]
  BY <1>1 DEF WriteRecord, TypeOK
<1>3. /\ record'[k] = r \/ (record'[k] = record[k] /\ k \in hit')
      /\ hit \subseteq hit'
  BY <1>1 DEF WriteRecord, TypeOK
<1>4. record[k] = Processing(b)
  BY DEF RunnerHoldsRecord
<1>5. ~Running(c)' /\ \A d \in Calls \ {c} : Running(d) <=> Running(d)'
  BY DEF Running
<1>6. \A d \in Calls \ {c} : Running(d) => call[d].key \in Keys \ {k}
  <2>1. \A d \in Calls : Running(d) => call[d].key \in Keys
    BY AskingFields DEF Running, Steps
  <2> QED
    BY <2>1 DEF OneRunner
<1>7. OneRunner'
  BY <1>5 DEF OneRunner
<1>8. RunnerHoldsRecord'
  BY <1>2, <1>5, <1>6 DEF RunnerHoldsRecord
<1>9. b \in applied[k] \/ call[c].step = "run"
  BY DEF RanIsApplied, Running
<1>10. CompletedIsTrue'
  <2>1. record'[k].status = "completed" => record'[k] = Completed(b, b) /\ b \in applied[k]
    BY <1>1, <1>3, <1>4, <1>9, RecordKinds
  <2> QED
    BY <1>1, <1>2, <2>1, RecordKinds DEF CompletedIsTrue
<1>11. RanIsApplied'
  BY DEF RanIsApplied, Running
<1>12. AnswersAreOwn'
  <2>1. call'[c].step = "answered" => /\ call'[c].answer = call'[c].body
                                      /\ call'[c].body \in applied[call'[c].key]
    BY <1>9 DEF Answering
  <2> QED
    BY <2>1 DEF AnswersAreOwn
<1>13. EffectsCounted'
  <2>1. \A j \in Keys \ {k} : broken'[j] = broken[j]
    BY <1>1 DEF TypeOK
  <2>2. broken'[k] = broken[k] \/ broken'[k] = broken[k] + 1
    BY <1>1 DEF TypeOK
  <2>3. effects[k] \in Nat /\ expiries[k] \in Nat /\ broken[k] \in Nat
    BY <1>1, IdempotencyConstants DEF TypeOK
  <2>4. effects'[k] <= 1 + expiries'[k] + broken'[k]
    BY <1>1, <2>2, <2>3 DEF EffectsCounted
  <2>5. r = NoRecord => effects[k] <= expiries[k] + broken'[k]
    <3>1. CASE call[c].step = "run"
      BY <1>1, <2>2, <2>3, <3>1 DEF EffectsCounted
    <3>2. CASE broken' = [broken EXCEPT ![k] = @ + 1]
      <4>1. broken'[k] = broken[k] + 1
        BY <1>1, <3>2 DEF TypeOK
      <4> QED
        BY <1>1, <2>3, <4>1 DEF EffectsCounted
    <3> QED
      BY <3>1, <3>2
  <2>6. record'[k] = NoRecord => effects'[k] <= expiries'[k] + broken'[k]
    BY <1>1, <1>3, <1>4, <2>5, RecordKinds
  <2>7. \A d \in Calls : call'[d].step = "run" =>
                             call'[d] = call[d] /\ Running(d) /\ call[d].key \in Keys \ {k}
    BY <1>6 DEF Running
  <2> QED
    BY <1>2, <2>1, <2>4, <2>6, <2>7 DEF EffectsCounted
<1>14. NoOrphan'
  <2>2. k \notin hit' => record'[k].status # "processing"
    BY <1>1, <1>3, RecordKinds
  <2>3. ASSUME NEW j \in Keys, record'[j].status = "processing", j \notin hit'
        PROVE  \E d \in Calls : Running(d)' /\ call'[d].key = j
    <3>1. j # k
      BY <2>2, <2>3
    <3>2. PICK d \in Calls : Running(d) /\ call[d].key = j
      BY <1>2, <1>3, <2>3, <3>1 DEF NoOrphan
    <3> QED
      BY <1>5, <3>1, <3>2
  <2> QED
    BY <2>3 DEF NoOrphan
<1> QED
  BY <1>7, <1>8, <1>10, <1>11, <1>12, <1>13, <1>14
LEMMA TakeEffectIInv ==
    ASSUME IInv, TypeOK', NEW c \in Calls, TakeEffect(c)
    PROVE  IInv'
<1> USE DEF IInv
<1> DEFINE k == call[c].key
           b == call[c].body
<1>1. k \in Keys /\ b \in Bodies /\ call[c].step = "run"
  BY AskingFields DEF TakeEffect, Steps
<1>2. call'[c].step = "ran" /\ call'[c].key = k /\ call'[c].body = b
  <2>1. call[c] \in [step : Steps, key : Keys, body : Bodies]
    BY <1>1 DEF TypeOK, Call, Errors
  <2>2. call'[c] = [call[c] EXCEPT !.step = "ran"]
    BY DEF TakeEffect, TypeOK
  <2> QED
    BY <2>1, <2>2
<1>3. \A d \in Calls \ {c} : call'[d] = call[d]
  BY DEF TakeEffect, TypeOK
<1>4. \A d \in Calls : Running(d)' <=> Running(d)
  BY <1>1, <1>2, <1>3 DEF Running
<1>5. \A j \in Keys : applied[j] \subseteq applied'[j]
  BY DEF TakeEffect, TypeOK
<1>6. b \in applied'[k]
  BY <1>1 DEF TakeEffect, TypeOK
<1>7. UNCHANGED <<record, expiries, broken, lost, crashes, hit>>
  BY DEF TakeEffect
<1>8. OneRunner' /\ RunnerHoldsRecord'
  BY <1>2, <1>3, <1>4, <1>7 DEF OneRunner, RunnerHoldsRecord
<1>9. CompletedIsTrue'
  BY <1>5, <1>7 DEF CompletedIsTrue
<1>10. RanIsApplied'
  <2>1. ASSUME NEW d \in Calls, call'[d].step = "ran"
        PROVE  call'[d].body \in applied'[call'[d].key]
    <3>1. CASE d = c
      BY <1>2, <1>6, <3>1
    <3>2. CASE d # c
      <4>1. call[d].key \in Keys
        BY <1>3, <2>1, <3>2, AskingFields DEF Steps
      <4> QED
        BY <1>3, <1>5, <2>1, <3>2, <4>1 DEF RanIsApplied
    <3> QED
      BY <3>1, <3>2
  <2> QED
    BY <2>1 DEF RanIsApplied
<1>11. AnswersAreOwn'
  <2>1. ASSUME NEW d \in Calls, call'[d].step = "answered"
        PROVE  call'[d].answer = call'[d].body /\ call'[d].body \in applied'[call'[d].key]
    <3>1. d # c /\ call'[d] = call[d]
      BY <1>2, <1>3, <2>1
    <3>2. call[d].key \in Keys
      BY <2>1, <3>1 DEF TypeOK, Call, Steps, Errors
    <3> QED
      BY <1>5, <2>1, <3>1, <3>2 DEF AnswersAreOwn
  <2> QED
    BY <2>1 DEF AnswersAreOwn
<1>12. EffectsCounted'
  <2>1. record[k] # NoRecord
    BY <1>1, RecordKinds DEF RunnerHoldsRecord, Running
  <2>2. effects'[k] = effects[k] + 1 /\ \A j \in Keys \ {k} : effects'[j] = effects[j]
    BY <1>1 DEF TakeEffect, TypeOK
  <2>3. effects[k] \in Nat /\ expiries[k] \in Nat /\ broken[k] \in Nat
    BY <1>1, IdempotencyConstants DEF TypeOK
  <2>4. effects'[k] <= 1 + expiries[k] + broken[k]
    BY <1>1, <2>2, <2>3 DEF EffectsCounted
  <2>5. \A d \in Calls : call'[d].step = "run" => call'[d] = call[d] /\ call[d].key \in Keys \ {k}
    <3>1. \A d \in Calls : call'[d].step = "run" => d # c /\ call'[d] = call[d]
      BY <1>2, <1>3
    <3>2. \A d \in Calls : call[d].step = "run" => call[d].key \in Keys
      BY AskingFields DEF Steps
    <3> QED
      BY <1>1, <3>1, <3>2 DEF OneRunner, Running
  <2> QED
    BY <1>7, <2>1, <2>2, <2>4, <2>5 DEF EffectsCounted
<1>13. NoOrphan'
  BY <1>2, <1>3, <1>4, <1>7 DEF NoOrphan
<1> QED
  BY <1>8, <1>9, <1>10, <1>11, <1>12, <1>13

LEMMA ExpireIInv ==
    ASSUME IInv, TypeOK', NEW k \in Keys, Expire(k)
    PROVE  IInv'
<1> USE DEF IInv
<1>1. /\ record'[k] = NoRecord /\ expiries'[k] = expiries[k] + 1
      /\ \A j \in Keys \ {k} : record'[j] = record[j] /\ expiries'[j] = expiries[j]
  BY DEF Expire, TypeOK
<1>2. \A d \in Calls : Running(d) => call[d].key \in Keys \ {k}
  BY AskingFields DEF Expire, Running, Steps
<1>3. UNCHANGED <<call, applied, effects, broken, lost, crashes>>
  BY DEF Expire
<1>4. OneRunner' /\ RanIsApplied' /\ AnswersAreOwn'
  BY <1>3 DEF OneRunner, RanIsApplied, AnswersAreOwn, Running
<1>5. RunnerHoldsRecord'
  BY <1>1, <1>2, <1>3 DEF RunnerHoldsRecord, Running
<1>6. CompletedIsTrue' /\ NoOrphan'
  <2>1. \A j \in Keys \ {k} : j \in hit => j \in hit'
    BY DEF Expire
  <2> QED
    BY <1>1, <1>3, <2>1, RecordKinds DEF CompletedIsTrue, NoOrphan, Running, NoRecord
<1>7. EffectsCounted'
  <2>1. effects[k] \in Nat /\ expiries[k] \in Nat /\ broken[k] \in Nat
    BY IdempotencyConstants DEF TypeOK
  <2>2. effects'[k] <= 1 + expiries'[k] + broken'[k] /\ effects'[k] <= expiries'[k] + broken'[k]
    BY <1>1, <1>3, <2>1 DEF EffectsCounted
  <2> QED
    BY <1>1, <1>2, <1>3, <2>2 DEF EffectsCounted, Running
<1> QED
  BY <1>4, <1>5, <1>6, <1>7

LEMMA CrashIInv ==
    ASSUME IInv, TypeOK', Crash
    PROVE  IInv'
<1> USE DEF IInv
<1>1. \A d \in Calls : call'[d].step = "idle"
  BY DEF Crash, Idle
<1>2. hit \subseteq hit' /\ \A c \in Calls : Running(c) => call[c].key \in hit'
  BY DEF Crash
<1>3. UNCHANGED <<record, applied, effects, expiries, broken, lost>>
  BY DEF Crash
<1>4. NoOrphan'
  BY <1>2, <1>3 DEF NoOrphan
<1> QED
  BY <1>1, <1>3, <1>4 DEF OneRunner, RunnerHoldsRecord, CompletedIsTrue, RanIsApplied,
       AnswersAreOwn, EffectsCounted, Running

LEMMA NextIInv == IInv /\ [Next]_vars => IInv'
<1> SUFFICES ASSUME IInv, [Next]_vars PROVE IInv'
  OBVIOUS
<1>0. TypeOK'
  BY NextTypeOK DEF IInv
<1>1. ASSUME NEW c \in Calls, NEW k \in Keys, NEW b \in Bodies, Arrive(c, k, b) PROVE IInv'
  BY <1>0, <1>1, ArriveIInv
<1>2. ASSUME NEW c \in Calls, Claim(c) PROVE IInv'
  BY <1>0, <1>2, ClaimIInv
<1>3. ASSUME NEW c \in Calls, TakeEffect(c) PROVE IInv'
  BY <1>0, <1>3, TakeEffectIInv
<1>4. ASSUME NEW c \in Calls, Succeed(c) PROVE IInv'
  <2> DEFINE k == call[c].key
             b == call[c].body
             a == Answering(k, b, b)
  <2>1. k \in Keys /\ b \in Bodies
    BY <1>4, AskingFields DEF IInv, Succeed, Steps
  <2>2. Completed(b, b) \in Record /\ Completed(b, b) # NoRecord
    BY <2>1, RecordKinds DEF Record, Completed
  <2>3. /\ call'[c] = a
        /\ \A d \in Calls \ {c} : call'[d] = call[d]
    BY <1>4 DEF IInv, TypeOK, Succeed
  <2>4. a.step = "answered"
    BY DEF Answering
  <2>5. Running(c) /\ call[c].step = "ran"
    BY <1>4 DEF Succeed, Running
  <2>6. WriteRecord(k, Completed(b, b)) /\ UNCHANGED <<applied, effects, expiries, broken, crashes>>
    BY <1>4 DEF Succeed
  <2> QED
    BY <1>0, <2>2, <2>3, <2>4, <2>5, <2>6, EndIInv
<1>5. ASSUME NEW c \in Calls, Refuse(c) PROVE IInv'
  <2> DEFINE k == call[c].key
  <2>1. /\ call'[c].step = "error"
        /\ \A d \in Calls \ {c} : call'[d] = call[d]
    BY <1>5 DEF IInv, TypeOK, Refuse, Asking
  <2>2. Running(c) /\ call[c].step = "run"
    BY <1>5 DEF Refuse, Running
  <2>3. WriteRecord(k, NoRecord) /\ UNCHANGED <<applied, effects, expiries, broken, crashes>>
    BY <1>5 DEF Refuse, FailRecord
  <2>4. NoRecord \in Record
    BY DEF Record
  <2> QED
    BY <1>0, <2>1, <2>2, <2>3, <2>4, EndIInv
<1>6. ASSUME NEW c \in Calls, BreakOff(c) PROVE IInv'
  <2> DEFINE k == call[c].key
  <2>1. /\ call'[c].step = "error"
        /\ \A d \in Calls \ {c} : call'[d] = call[d]
    BY <1>6 DEF IInv, TypeOK, BreakOff, Asking
  <2>2. Running(c)
    BY <1>6 DEF BreakOff, Running
  <2>3. /\ WriteRecord(k, NoRecord)
        /\ UNCHANGED <<applied, effects, expiries, crashes>>
        /\ broken' = [broken EXCEPT ![k] = @ + 1]
    BY <1>6 DEF BreakOff, FailRecord
  <2>4. NoRecord \in Record
    BY DEF Record
  <2> QED
    BY <1>0, <2>1, <2>2, <2>3, <2>4, EndIInv
<1>7. ASSUME NEW k \in Keys, Expire(k) PROVE IInv'
  BY <1>0, <1>7, ExpireIInv
<1>8. CASE Crash
  BY <1>0, <1>8, CrashIInv
<1>9. ASSUME NEW c \in Calls, ClaimFails(c) PROVE IInv'
  BY <1>0, <1>9, ClaimFailsIInv
<1>10. CASE UNCHANGED vars
  BY <1>0, <1>10 DEF IInv, vars, OneRunner, RunnerHoldsRecord, CompletedIsTrue, RanIsApplied,
       AnswersAreOwn, EffectsCounted, NoOrphan, Running
<1> QED
  BY <1>1, <1>2, <1>3, <1>4, <1>5, <1>6, <1>7, <1>8, <1>9, <1>10 DEF Next

LEMMA Inductive == Spec => []IInv
<1>1. Init => IInv
  BY InitIInv
<1>2. IInv /\ [Next]_vars => IInv'
  BY NextIInv
<1> QED
  BY <1>1, <1>2, PTL DEF Spec

-----------------------------------------------------------------------------
(* What follows from it.                                                   *)

\* Requests with one key are never in their handlers together, however many
\* there are and whatever expires, is lost or dies.
THEOREM NeverTwoRunners == Spec => []OneRunner
<1>1. IInv => OneRunner
  BY DEF IInv
<1> QED
  BY <1>1, Inductive, PTL

\* A key takes effect at most once, but for expiries and for handlers that
\* threw after their commit.
THEOREM EffectAtMostOnce == Spec => []AtMostOnce
<1>1. IInv => AtMostOnce
  BY DEF IInv, EffectsCounted, AtMostOnce
<1> QED
  BY <1>1, Inductive, PTL

\* A success is told only to a request whose own body took effect.
THEOREM AnswersAlwaysOwn == Spec => []AnswersAreOwn
<1>1. IInv => AnswersAreOwn
  BY DEF IInv
<1> QED
  BY <1>1, Inductive, PTL

\* A key is left marked as being handled only by a request that itself lost its
\* process, the write that ends its record or the answer to the one that made it;
\* refusals, throws after the commit, failing lookups and faults of other requests
\* never leave it.
THEOREM KeysAreFreed == Spec => []NoOrphan
<1>1. IInv => NoOrphan
  BY DEF IInv
<1> QED
  BY <1>1, Inductive, PTL
=============================================================================
