------------------------- MODULE AuthSessionProofs -------------------------
(***************************************************************************)
(* Proofs about AuthSession for any browsers, any exchanges at a time and  *)
(* any clock, whatever answers are lost and whoever signs in or out.       *)
(***************************************************************************)
EXTENDS AuthSession, TLAPS

-----------------------------------------------------------------------------
(* The parts of the inductive invariant.                                   *)

\* Each kind of exchange has steps of its own; a request waits for the guard
\* and refreshes once; a token that was signed is not None.
InShape(e) ==
    /\ e.kind = "logout" => e.step \in {"guard", "delete", "answer"} /\ ~e.retried
    /\ e.kind = "login" => e.step \in {"issue", "store", "answer"}
    /\ e.kind = "api" =>
          /\ e.step # "delete"
          /\ e.step \in {"guard", "rejected"} => e.awaited
          /\ e.step \in {"compare", "refused", "issue", "store", "answer"} => e.retried
    /\ e.step = "store" => e.token # None
    /\ e.step = "answer" /\ e.kind # "logout" => e.token # None

CallsInShape == \A c \in Calls : call[c] # Idle => InShape(call[c])

\* After a logout no refresh gets past its comparison.
NothingToStore ==
    ended => \A c \in Calls :
                At(c, "issue") \/ At(c, "store") => call[c].kind = "login"

\* An exchange that will replace the tokens of browser b, or sign it out.
Renews(c, b) == Renewing(c) /\ call[c].browser = b /\ call[c].kind # "logout"

\* An exchange that will replace the tokens of an undisturbed browser is its
\* only refresh, which carries the saved token or the one about to be saved.
InOrder(c, b) ==
    /\ call[c].kind = "api"
    /\ call[c].awaited
    /\ call[c].step # "refused"
    /\ call[c].step = "compare" => call[c].token = cookie[b]
    /\ call[c].step = "answer" => call[c].token = saved
    /\ call[c].step # "answer" => cookie[b] = saved
    /\ \A d \in Calls : Renews(d, b) => d = c

\* What a browser that is signed in and undisturbed can rely on.
Sound(b) ==
    /\ saved # None
    /\ \A c \in Calls : Renews(c, b) => InOrder(c, b)
    /\ (\A c \in Calls : ~Renews(c, b)) => cookie[b] = saved

SessionsAreSound == \A b \in Browsers : isAuth[b] /\ b \notin disturbed => Sound(b)

IInv == TypeOK /\ CallsInShape /\ NothingToStore /\ EndedStaysEnded /\ SessionsAreSound

-----------------------------------------------------------------------------
(* Records and types.                                                      *)

\* An exchange in progress is a record, and the mark of none is not.
LEMMA CallFields ==
    ASSUME TypeOK, NEW c \in Calls, call[c] # Idle
    PROVE  call[c] \in Exchange
BY DEF TypeOK

LEMMA IdleIsNone == \A e \in Exchange : e # Idle
BY DEF Exchange, Idle

LEMMA InitTypeOK == Init => TypeOK
<1>1. 0 \in Tokens /\ None \in Tokens /\ 1 \in 1..MaxNow
  BY AuthConstants DEF Tokens, None
<1> QED
  BY <1>1 DEF Init, TypeOK

LEMMA GoToType ==
    ASSUME TypeOK, NEW c \in Calls, call[c] # Idle, NEW s \in Steps, GoTo(c, s)
    PROVE  /\ call' \in [Calls -> Exchange \cup {Idle}]
           /\ call'[c].browser = call[c].browser /\ call'[c].kind = call[c].kind
           /\ call'[c].step = s /\ call'[c].token = call[c].token
           /\ call'[c].retried = call[c].retried /\ call'[c].awaited = call[c].awaited
           /\ call'[c] \in Exchange /\ call'[c] # Idle
           /\ \A d \in Calls : d # c => call'[d] = call[d]
<1>1. [call[c] EXCEPT !.step = s] \in Exchange
  BY CallFields DEF Exchange
<1>2. call' = [call EXCEPT ![c] = [call[c] EXCEPT !.step = s]]
  BY DEF GoTo, TypeOK
<1> QED
  BY <1>1, <1>2, IdleIsNone, CallFields DEF TypeOK, Exchange

LEMMA DoneType ==
    ASSUME TypeOK, NEW c \in Calls, Done(c)
    PROVE  /\ call' \in [Calls -> Exchange \cup {Idle}]
           /\ call'[c] = Idle
           /\ \A d \in Calls : d # c => call'[d] = call[d]
BY DEF Done, TypeOK

LEMMA StartType ==
    ASSUME TypeOK, NEW c \in Calls, NEW b \in Browsers,
           NEW kind \in {"api", "login", "logout"}, NEW s \in Steps, NEW t \in Tokens,
           Start(c, b, kind, s, t)
    PROVE  TypeOK'
<1>1. [browser |-> b, kind |-> kind, step |-> s, token |-> t,
       retried |-> FALSE, awaited |-> TRUE] \in Exchange
  BY DEF Exchange
<1> QED
  BY <1>1 DEF Start, TypeOK, clock, page, history

LEMMA SendType ==
    ASSUME TypeOK, NEW c \in Calls, NEW b \in Browsers,
           SendRequest(c, b) \/ SendLogin(c, b) \/ SendLogout(c, b)
    PROVE  TypeOK'
<1>1. access[b] \in Tokens /\ None \in Tokens
  BY AuthConstants DEF TypeOK, Tokens, None
<1> QED
  BY <1>1, StartType DEF SendRequest, SendLogin, SendLogout, Steps

\* The record that a refresh, and an exchange that signs its tokens, becomes.
LEMMA SendRefreshStep ==
    ASSUME TypeOK, NEW c \in Calls, SendRefresh(c)
    PROVE  /\ call[c] \in Exchange
           /\ call'[c].browser = call[c].browser /\ call'[c].kind = call[c].kind
           /\ call'[c].step = "compare" /\ call'[c].token = cookie[call[c].browser]
           /\ call'[c].retried = TRUE /\ call'[c].awaited = call[c].awaited
           /\ call'[c] \in Exchange
           /\ call' \in [Calls -> Exchange \cup {Idle}]
           /\ \A d \in Calls : d # c => call'[d] = call[d]
<1>1. call[c] \in Exchange
  BY CallFields DEF SendRefresh, At
<1>2. cookie[call[c].browser] \in Tokens
  BY <1>1 DEF Exchange, TypeOK
<1>3. [call[c] EXCEPT !.step = "compare", !.retried = TRUE,
                                                !.token = cookie[call[c].browser]] \in Exchange
  BY <1>1, <1>2 DEF Exchange, Steps
<1>4. call' = [call EXCEPT ![c] = [call[c] EXCEPT !.step = "compare", !.retried = TRUE,
                                                !.token = cookie[call[c].browser]]]
  BY DEF SendRefresh, TypeOK
<1> QED
  BY <1>1, <1>3, <1>4 DEF TypeOK, Exchange

LEMMA IssueStep ==
    ASSUME TypeOK, NEW c \in Calls, IssueTokens(c)
    PROVE  /\ call[c] \in Exchange
           /\ call'[c].browser = call[c].browser /\ call'[c].kind = call[c].kind
           /\ call'[c].step = "store" /\ call'[c].token = now
           /\ call'[c].retried = call[c].retried /\ call'[c].awaited = call[c].awaited
           /\ call'[c] \in Exchange
           /\ call' \in [Calls -> Exchange \cup {Idle}]
           /\ \A d \in Calls : d # c => call'[d] = call[d]
<1>1. call[c] \in Exchange
  BY CallFields DEF IssueTokens, At
<1>2. now \in Tokens
  BY AuthConstants DEF TypeOK, Tokens
<1>3. [call[c] EXCEPT !.step = "store", !.token = now] \in Exchange
  BY <1>1, <1>2 DEF Exchange, Steps
<1>4. call' = [call EXCEPT ![c] = [call[c] EXCEPT !.step = "store", !.token = now]]
  BY DEF IssueTokens, TypeOK
<1> QED
  BY <1>1, <1>3, <1>4 DEF TypeOK, Exchange

\* A lost answer ends an exchange or leaves it without a reader.
LEMMA LostStep ==
    ASSUME TypeOK, NEW c \in Calls, Lost(c)
    PROVE  /\ call[c] \in Exchange
           /\ \/ call'[c] = Idle
              \/ /\ call'[c] # Idle
                 /\ call'[c].browser = call[c].browser /\ call'[c].kind = call[c].kind
                 /\ call'[c].step = call[c].step /\ call'[c].token = call[c].token
                 /\ call'[c].retried = call[c].retried /\ call'[c].awaited = FALSE
           /\ call' \in [Calls -> Exchange \cup {Idle}]
           /\ \A d \in Calls : d # c => call'[d] = call[d]
<1>1. call[c] \in Exchange
  BY CallFields DEF Lost
<1>2. [call[c] EXCEPT !.awaited = FALSE] \in Exchange
  BY <1>1 DEF Exchange
<1>3. CASE Done(c)
  BY <1>1, <1>3, DoneType
<1>4. CASE call' = [call EXCEPT ![c].awaited = FALSE]
  <2>1. call' = [call EXCEPT ![c] = [call[c] EXCEPT !.awaited = FALSE]]
    BY <1>4 DEF TypeOK
  <2> QED
    BY <1>1, <1>2, <2>1, IdleIsNone DEF TypeOK, Exchange
<1> QED
  BY <1>3, <1>4 DEF Lost

LEMMA ReloadStep ==
    ASSUME TypeOK, NEW b \in Browsers, Reload(b), NEW c \in Calls
    PROVE  \/ call'[c] = call[c]
           \/ /\ call[c] \in Exchange /\ call[c].browser = b
              /\ \/ call'[c] = Idle
                 \/ /\ call'[c] \in Exchange /\ call'[c] # Idle
                    /\ call'[c].browser = call[c].browser /\ call'[c].kind = call[c].kind
                    /\ call'[c].step = call[c].step /\ call'[c].token = call[c].token
                    /\ call'[c].retried = call[c].retried /\ call'[c].awaited = FALSE
<1>1. call[c] # Idle => call[c] \in Exchange
  BY CallFields
<1>2. ASSUME call[c] \in Exchange
      PROVE  [call[c] EXCEPT !.awaited = FALSE] \in Exchange
  BY <1>2 DEF Exchange
<1>3. call'[c] \in {call[c], Idle, [call[c] EXCEPT !.awaited = FALSE]}
      /\ (call'[c] # call[c] => call[c] # Idle /\ call[c].browser = b)
  BY DEF Reload, TypeOK
<1> QED
  BY <1>1, <1>2, <1>3, IdleIsNone DEF Exchange

LEMMA ReloadType ==
    ASSUME TypeOK, NEW b \in Browsers, Reload(b)
    PROVE  TypeOK'
<1>1. \A c \in Calls : call'[c] \in Exchange \cup {Idle}
  BY ReloadStep DEF TypeOK
<1>2. call' \in [Calls -> Exchange \cup {Idle}]
  BY <1>1 DEF Reload
<1>3. disturbed' \in SUBSET Browsers
  BY DEF Reload, TypeOK
<1> QED
  BY <1>2, <1>3 DEF Reload, TypeOK, clock, page

LEMMA CallStepType ==
    ASSUME TypeOK, NEW c \in Calls, CallStep(c)
    PROVE  TypeOK'
<1>1. call[c] # Idle /\ call[c] \in Exchange
  BY CallFields DEF CallStep, Guard, SendRefresh, Refuse, Refused, Compare, IssueTokens, Store, Delete,
                    Refreshed, LoggedIn, LoggedOut, Unheard, At
<1>2. call[c].browser \in Browsers /\ call[c].token \in Tokens /\ None \in Tokens
  BY <1>1, AuthConstants DEF Exchange, Tokens, None
<1>3. call' \in [Calls -> Exchange \cup {Idle}]
  <2>1. (\E s \in Steps : GoTo(c, s)) \/ Done(c) \/ SendRefresh(c) \/ IssueTokens(c)
    BY DEF CallStep, Guard, Refuse, Refused, Compare, Store, Delete, Refreshed, LoggedIn, LoggedOut,
           Unheard, Steps
  <2> QED
    BY <1>1, <2>1, GoToType, DoneType, SendRefreshStep, IssueStep
<1>4. saved' \in Tokens
  BY <1>2 DEF CallStep, Guard, SendRefresh, Refuse, Refused, Compare, IssueTokens, Store, Delete,
              Refreshed, LoggedIn, LoggedOut, Unheard, TypeOK
<1>5. /\ cookie' \in [Browsers -> Tokens] /\ access' \in [Browsers -> Tokens]
      /\ isAuth' \in [Browsers -> BOOLEAN]
  <2>1. CASE UNCHANGED page
    BY <2>1 DEF page, TypeOK
  <2>2. CASE SignOut(call[c].browser)
    <3>1. cookie' = cookie
      BY <2>2 DEF SignOut
    <3>2. access' \in [Browsers -> Tokens]
      BY <1>2, <2>2 DEF SignOut, TypeOK
    <3>3. isAuth' \in [Browsers -> BOOLEAN]
      BY <2>2 DEF SignOut, TypeOK
    <3> QED
      BY <3>1, <3>2, <3>3 DEF TypeOK
  <2>3. CASE Refreshed(c)
    BY <1>2, <2>3 DEF Refreshed, Renew, TypeOK
  <2>4. CASE LoggedIn(c)
    BY <1>2, <2>4 DEF LoggedIn, Renew, TypeOK
  <2>5. CASE LoggedOut(c)
    BY <1>2, <2>5 DEF LoggedOut, TypeOK
  <2> QED
    BY <2>1, <2>2, <2>3, <2>4, <2>5
    DEF CallStep, Guard, SendRefresh, Refuse, Refused, Compare, IssueTokens, Store, Delete, Unheard
<1>6. disturbed' \in SUBSET Browsers
  BY <1>2 DEF CallStep, Guard, SendRefresh, Refuse, Refused, Compare, IssueTokens, Store, Delete,
              Refreshed, LoggedIn, LoggedOut, Unheard, TypeOK, history, Bystanders
<1>7. ended' \in BOOLEAN
  <2>1. CASE Delete(c)
    BY <2>1, Zenon DEF Delete
  <2>2. CASE Store(c)
    BY <2>2, Zenon DEF Store
  <2>3. CASE UNCHANGED ended
    BY <2>3 DEF TypeOK
  <2> QED
    BY <2>1, <2>2, <2>3
    DEF CallStep, Guard, SendRefresh, Refuse, Refused, Compare, IssueTokens, Refreshed, LoggedIn,
        LoggedOut, Unheard, history
<1>8. UNCHANGED clock
  BY DEF CallStep, Guard, SendRefresh, Refuse, Refused, Compare, IssueTokens, Store, Delete,
         Refreshed, LoggedIn, LoggedOut, Unheard
<1> QED
  BY <1>3, <1>4, <1>5, <1>6, <1>7, <1>8 DEF TypeOK, clock

LEMMA LostType ==
    ASSUME TypeOK, NEW c \in Calls, Lost(c)
    PROVE  TypeOK'
<1>1. call[c].browser \in Browsers /\ None \in Tokens
  <2>1. call[c] \in Exchange
    BY LostStep
  <2> QED
    BY <2>1, AuthConstants DEF Exchange, Tokens, None
<1>2. /\ cookie' \in [Browsers -> Tokens] /\ access' \in [Browsers -> Tokens]
      /\ isAuth' \in [Browsers -> BOOLEAN]
  BY <1>1 DEF Lost, SignOut, page, TypeOK
<1>3. disturbed' \in SUBSET Browsers
  BY <1>1 DEF Lost, TypeOK
<1> QED
  BY <1>2, <1>3, LostStep DEF Lost, TypeOK, clock

LEMMA TimeType ==
    ASSUME TypeOK, Second \/ QuarterHour \/ Week
    PROVE  TypeOK'
<1>1. now' \in 1..MaxNow
  BY AuthConstants DEF Second, QuarterHour, Week, TypeOK
<1>2. expired' \in Tokens /\ None \in Tokens
  BY AuthConstants DEF Second, QuarterHour, Week, TypeOK, Tokens, None
<1> QED
  BY <1>1, <1>2 DEF Second, QuarterHour, Week, TypeOK, page, history

LEMMA TypeStep == TypeOK /\ Next => TypeOK'
BY SendType, CallStepType, LostType, ReloadType, TimeType DEF Next

-----------------------------------------------------------------------------
(* The shape of the exchanges.                                             *)

LEMMA CallsMoved ==
    ASSUME TypeOK, CallsInShape, NEW c \in Calls, call'[c] # Idle => InShape(call'[c]),
           \A d \in Calls : d # c => call'[d] = call[d]
    PROVE  CallsInShape'
BY DEF CallsInShape, InShape

LEMMA CallStepShape ==
    ASSUME TypeOK, CallsInShape, NEW c \in Calls, CallStep(c)
    PROVE  /\ call'[c] # Idle => InShape(call'[c])
           /\ \A d \in Calls : d # c => call'[d] = call[d]
<1>1. call[c] # Idle /\ call[c] \in Exchange /\ InShape(call[c])
  BY CallFields DEF CallStep, Guard, SendRefresh, Refuse, Refused, Compare, IssueTokens, Store, Delete,
                    Refreshed, LoggedIn, LoggedOut, Unheard, At, CallsInShape
<1>2. CASE Done(c)
  BY <1>2, DoneType
<1>3. CASE Guard(c) /\ ~Done(c)
  <2>1. PICK s \in {"delete", "answer", "rejected"} : GoTo(c, s)
    BY <1>3 DEF Guard
  <2>2. IF call[c].kind = "logout" THEN s \in {"delete", "answer"} ELSE s = "rejected"
    <3>1. call'[c].step = s
      BY <1>1, <2>1, GoToType DEF Steps, Exchange
    <3> QED
      BY <1>1, <1>3, <3>1, GoToType DEF Guard, Steps, Exchange
  <2>3. call[c].step = "guard"
    BY <1>3 DEF Guard, At
  <2> QED
    BY <1>1, <2>1, <2>2, <2>3, GoToType DEF InShape, Steps, Exchange
<1>4. CASE SendRefresh(c)
  BY <1>1, <1>4, SendRefreshStep DEF SendRefresh, At, InShape, Exchange
<1>5. CASE Compare(c) \/ Refuse(c)
  BY <1>1, <1>5, GoToType DEF Compare, Refuse, At, InShape, Steps, Exchange
<1>6. CASE IssueTokens(c)
  <2>1. now # None
    BY DEF TypeOK, None
  <2> QED
    BY <1>1, <1>6, <2>1, IssueStep DEF IssueTokens, At, InShape, Exchange
<1>7. CASE Store(c)
  BY <1>1, <1>7, GoToType DEF Store, At, InShape, Steps, Exchange
<1>8. CASE Delete(c)
  BY <1>1, <1>8, GoToType DEF Delete, At, InShape, Steps, Exchange
<1>9. CASE Refreshed(c)
  BY <1>1, <1>9, GoToType DEF Refreshed, At, InShape, Steps, Exchange
<1> QED
  BY <1>2, <1>3, <1>4, <1>5, <1>6, <1>7, <1>8, <1>9
  DEF CallStep, Refused, LoggedIn, LoggedOut, Unheard

LEMMA ShapeStep ==
    ASSUME TypeOK, CallsInShape, Next
    PROVE  CallsInShape'
<1>1. ASSUME NEW c \in Calls, NEW b \in Browsers,
             SendRequest(c, b) \/ SendLogin(c, b) \/ SendLogout(c, b)
      PROVE  CallsInShape'
  BY <1>1, CallsMoved DEF SendRequest, SendLogin, SendLogout, Start, InShape, TypeOK
<1>2. ASSUME NEW c \in Calls, CallStep(c)
      PROVE  CallsInShape'
  BY <1>2, CallStepShape, CallsMoved
<1>3. ASSUME NEW c \in Calls, Lost(c)
      PROVE  CallsInShape'
  <2>1. CASE Done(c)
    BY <2>1, DoneType, CallsMoved
  <2>2. CASE ~Done(c)
    <3>1. call[c].step \notin {"guard", "rejected"} \/ call[c].kind = "logout"
      BY <1>3, <2>2 DEF Lost
    <3>2. call[c] # Idle /\ InShape(call[c])
      BY <1>3 DEF Lost, CallsInShape
    <3> QED
      BY <1>3, <3>1, <3>2, LostStep, CallsMoved DEF InShape, Exchange
  <2> QED
    BY <2>1, <2>2
<1>4. ASSUME NEW b \in Browsers, Reload(b)
      PROVE  CallsInShape'
  <2> SUFFICES ASSUME NEW c \in Calls, call'[c] # Idle PROVE InShape(call'[c])
    BY DEF CallsInShape, InShape
  <2>1. CASE call'[c] = call[c]
    BY <2>1 DEF CallsInShape
  <2>2. CASE call'[c] # call[c]
    <3>1. call[c].kind = "logout" \/ Renewing(c)
      BY <1>4, <2>2 DEF Reload
    <3>2. call[c] # Idle /\ call[c] \in Exchange /\ InShape(call[c])
      BY <1>4, <2>2, CallFields DEF Reload, CallsInShape
    <3> QED
      BY <1>4, <2>2, <3>1, <3>2, ReloadStep DEF InShape, Renewing
  <2> QED
    BY <2>1, <2>2
<1>5. CASE UNCHANGED call
  BY <1>5 DEF CallsInShape
<1> QED
  BY <1>1, <1>2, <1>3, <1>4, <1>5 DEF Next, Second, QuarterHour, Week

-----------------------------------------------------------------------------
(* A session that was ended.                                               *)

Ending == NothingToStore /\ EndedStaysEnded

LEMMA EndingStep ==
    ASSUME TypeOK, CallsInShape, Ending, Next
    PROVE  Ending'
<1>1. ASSUME NEW c \in Calls, NEW b \in Browsers,
             SendRequest(c, b) \/ SendLogin(c, b) \/ SendLogout(c, b)
      PROVE  Ending'
  <2>1. \A d \in Calls : d # c => call'[d] = call[d]
    BY <1>1 DEF SendRequest, SendLogin, SendLogout, Start, TypeOK
  <2>2. call'[c].step = "guard" \/ call'[c].kind = "login"
    BY <1>1 DEF SendRequest, SendLogin, SendLogout, Start, TypeOK
  <2> QED
    BY <1>1, <2>1, <2>2 DEF SendRequest, SendLogin, SendLogout, Start, Ending, NothingToStore,
                            EndedStaysEnded, At, history
<1>2. ASSUME NEW c \in Calls, CallStep(c)
      PROVE  Ending'
  <2>1. call[c] # Idle /\ call[c] \in Exchange /\ \A d \in Calls : d # c => call'[d] = call[d]
    BY <1>2, CallFields, CallStepShape
    DEF CallStep, Guard, SendRefresh, Refuse, Refused, Compare, IssueTokens, Store, Delete,
        Refreshed, LoggedIn, LoggedOut, Unheard, At
  <2>2. CASE Done(c) /\ UNCHANGED <<saved, ended>>
    BY <2>1, <2>2, DoneType DEF Ending, NothingToStore, EndedStaysEnded, At
  <2>3. CASE Guard(c) /\ ~Done(c)
    <3>1. PICK s \in {"delete", "answer", "rejected"} : GoTo(c, s)
      BY <2>3 DEF Guard
    <3>2. call'[c].step = s
      BY <2>1, <3>1, GoToType DEF Steps, Exchange
    <3> QED
      BY <2>1, <2>3, <3>2 DEF Guard, Ending, NothingToStore, EndedStaysEnded, At, history
  <2>4. CASE SendRefresh(c)
    <3>1. call'[c].step = "compare"
      BY <2>4, SendRefreshStep DEF Exchange
    <3> QED
      BY <2>1, <2>4, <3>1 DEF SendRefresh, Ending, NothingToStore, EndedStaysEnded, At
  <2>5. CASE Compare(c)
    <3>1. saved # None
      BY <2>5 DEF Compare, Accepted
    <3> QED
      BY <2>5, <3>1 DEF Compare, Ending, NothingToStore, EndedStaysEnded, history
  <2>6. CASE IssueTokens(c)
    <3>1. call'[c].kind = call[c].kind /\ call[c].step = "issue"
      BY <2>6, IssueStep DEF Exchange, IssueTokens, At
    <3> QED
      BY <2>1, <2>6, <3>1 DEF IssueTokens, Ending, NothingToStore, EndedStaysEnded, At, history
  <2>7. CASE Store(c)
    <3>1. ~ended'
      BY <2>7 DEF Store, Ending, NothingToStore
    <3> QED
      BY <3>1 DEF Ending, NothingToStore, EndedStaysEnded
  <2>8. CASE Delete(c)
    <3>1. call'[c].step = "answer"
      BY <2>1, <2>8, GoToType DEF Delete, Steps, Exchange
    <3>2. saved' = None /\ (ended' => \A d \in Calls \ {c} : Renewing(d) => call[d].step = "refused")
      BY <2>8 DEF Delete
    <3> QED
      BY <2>1, <3>1, <3>2 DEF Ending, NothingToStore, EndedStaysEnded, At, Renewing
  <2>9. CASE Refreshed(c)
    <3>1. call'[c].step = "guard"
      BY <2>1, <2>9, GoToType DEF Refreshed, Steps, Exchange
    <3> QED
      BY <2>1, <2>9, <3>1 DEF Refreshed, Ending, NothingToStore, EndedStaysEnded, At, history
  <2>10. CASE Refuse(c)
    <3>1. call'[c].step = "refused"
      BY <2>1, <2>10, GoToType DEF Refuse, Steps, Exchange
    <3> QED
      BY <2>1, <2>10, <3>1 DEF Refuse, Ending, NothingToStore, EndedStaysEnded, At, history
  <2> QED
    BY <1>2, <2>2, <2>3, <2>4, <2>5, <2>6, <2>7, <2>8, <2>9, <2>10
    DEF CallStep, Guard, Refused, LoggedIn, LoggedOut, Unheard, history
<1>3. ASSUME NEW c \in Calls, Lost(c)
      PROVE  Ending'
  <2>1. call'[c] = Idle \/ (call'[c].step = call[c].step /\ call'[c].kind = call[c].kind
                            /\ call[c] # Idle)
    BY <1>3, LostStep DEF Lost
  <2>2. /\ \A d \in Calls : d # c => call'[d] = call[d]
        /\ UNCHANGED <<saved, ended>>
    BY <1>3, LostStep DEF Lost
  <2> QED
    BY <2>1, <2>2 DEF Ending, NothingToStore, EndedStaysEnded, At
<1>4. ASSUME NEW b \in Browsers, Reload(b)
      PROVE  Ending'
  <2>1. \A c \in Calls : \/ call'[c] = Idle
                         \/ /\ call'[c].step = call[c].step /\ call'[c].kind = call[c].kind
                            /\ call[c] # Idle
    BY <1>4, ReloadStep, IdleIsNone DEF Exchange
  <2> QED
    BY <1>4, <2>1 DEF Reload, Ending, NothingToStore, EndedStaysEnded, At
<1>5. CASE Second \/ QuarterHour
  BY <1>5 DEF Second, QuarterHour, Ending, NothingToStore, EndedStaysEnded, At, history
<1>6. CASE Week
  BY <1>6 DEF Week, Ending, NothingToStore, EndedStaysEnded, At
<1> QED
  BY <1>1, <1>2, <1>3, <1>4, <1>5, <1>6 DEF Next

-----------------------------------------------------------------------------
(* A session that nothing disturbs.                                        *)

\* What does not touch a browser's tokens and renewals leaves its session sound.
LEMMA SoundKept ==
    ASSUME NEW b \in Browsers, Sound(b), saved' = saved, cookie'[b] = cookie[b],
           \A d \in Calls : Renews(d, b)' <=> Renews(d, b),
           \A d \in Calls : Renews(d, b) => call'[d] = call[d]
    PROVE  Sound(b)'
<1>1. ASSUME NEW d \in Calls, Renews(d, b)' PROVE InOrder(d, b)'
  BY <1>1 DEF Sound, InOrder
<1>2. saved' # None
  BY DEF Sound
<1>3. (\A d \in Calls : ~Renews(d, b)') => cookie'[b] = saved'
  BY DEF Sound
<1> QED
  BY <1>1, <1>2, <1>3 DEF Sound

\* The same for a step of one exchange that renews nothing of the browser's.
LEMMA SoundElsewhere ==
    ASSUME NEW b \in Browsers, NEW c \in Calls, Sound(b), saved' = saved,
           cookie'[b] = cookie[b], ~Renews(c, b), ~Renews(c, b)',
           \A d \in Calls : d # c => call'[d] = call[d]
    PROVE  Sound(b)'
<1>1. \A d \in Calls : Renews(d, b)' <=> Renews(d, b)
  BY DEF Renews, Renewing
<1> QED
  BY <1>1, SoundKept

\* A step of the browser's only refresh: it stays in order and the only one.
LEMMA SoundRefresh ==
    ASSUME NEW b \in Browsers, NEW c \in Calls, saved' # None,
           \A d \in Calls : Renews(d, b)' => d = c,
           Renews(c, b)',
           call'[c].kind = "api", call'[c].awaited, call'[c].step # "refused",
           call'[c].step = "compare" => call'[c].token = cookie'[b],
           call'[c].step = "answer" => call'[c].token = saved',
           call'[c].step # "answer" => cookie'[b] = saved'
    PROVE  Sound(b)'
BY DEF Sound, InOrder

\* The refresh of an undisturbed browser is a request's, and the only one.
LEMMA OnlyRefresh ==
    ASSUME TypeOK, CallsInShape, NEW b \in Browsers, NEW c \in Calls, Sound(b), Renews(c, b)
    PROVE  InOrder(c, b) /\ \A d \in Calls : Renews(d, b) => d = c
BY DEF Sound, InOrder

LEMMA SendSound ==
    ASSUME TypeOK, SessionsAreSound, NEW c \in Calls, NEW b \in Browsers,
           SendRequest(c, b) \/ SendLogin(c, b) \/ SendLogout(c, b)
    PROVE  SessionsAreSound'
<1> SUFFICES ASSUME NEW a \in Browsers, isAuth'[a] /\ a \notin disturbed'
             PROVE  Sound(a)'
  BY DEF SessionsAreSound
<1>1. UNCHANGED <<saved, cookie, isAuth, disturbed>> /\ call[c] = Idle
  BY DEF SendRequest, SendLogin, SendLogout, Start, page, history
<1>2. Sound(a)
  BY <1>1 DEF SessionsAreSound
<1>3. \A d \in Calls : d # c => call'[d] = call[d]
  BY DEF SendRequest, SendLogin, SendLogout, Start, TypeOK
<1>4. ~Renews(c, a) /\ ~Renews(c, a)'
  BY <1>1 DEF SendRequest, SendLogin, SendLogout, Start, TypeOK, Renews, Renewing
<1> QED
  BY <1>1, <1>2, <1>3, <1>4, SoundElsewhere

LEMMA CallStepSound ==
    ASSUME TypeOK, CallsInShape, SessionsAreSound, NEW c \in Calls, CallStep(c)
    PROVE  SessionsAreSound'
<1> SUFFICES ASSUME NEW b \in Browsers, isAuth'[b] /\ b \notin disturbed'
             PROVE  Sound(b)'
  BY DEF SessionsAreSound
<1>1. /\ call[c] # Idle /\ call[c] \in Exchange /\ InShape(call[c])
      /\ \A d \in Calls : d # c => call'[d] = call[d]
  BY CallFields, CallStepShape
  DEF CallStep, Guard, SendRefresh, Refuse, Refused, Compare, IssueTokens, Store, Delete, Refreshed,
      LoggedIn, LoggedOut, Unheard, At, CallsInShape
<1>2. ASSUME isAuth[b], b \notin disturbed
      PROVE  Sound(b)
  BY <1>2 DEF SessionsAreSound
<1>3. CASE Guard(c)
  <2>1. Sound(b) /\ UNCHANGED <<saved, cookie>>
    BY <1>2, <1>3 DEF Guard, page, history
  <2>2. ~Renews(c, b)
    BY <1>3 DEF Guard, At, Renews, Renewing
  <2>3. ~Renews(c, b)'
    <3>1. CASE Done(c)
      BY <3>1, DoneType DEF Renews, Renewing
    <3>2. ASSUME NEW s \in {"delete", "answer", "rejected"}, GoTo(c, s),
                 s = "answer" => call[c].kind = "logout"
          PROVE  ~Renews(c, b)'
      <4>1. call'[c].step = s /\ call'[c].kind = call[c].kind
        BY <1>1, <3>2, GoToType DEF Steps
      <4> QED
        BY <3>2, <4>1 DEF Renews, Renewing
    <3> QED
      BY <1>3, <3>1, <3>2 DEF Guard
  <2> QED
    BY <1>1, <2>1, <2>2, <2>3, SoundElsewhere
<1>4. CASE SendRefresh(c)
  <2>1. Sound(b) /\ UNCHANGED <<saved, cookie>>
    BY <1>2, <1>4 DEF SendRefresh, page
  <2>2. ~Renews(c, b) /\ call[c].kind = "api" /\ call[c].awaited
    BY <1>1, <1>4 DEF SendRefresh, At, Renews, Renewing, InShape, Exchange
  <2>3. CASE call[c].browser # b
    <3>1. ~Renews(c, b)'
      BY <1>4, <2>3, SendRefreshStep DEF Renews
    <3> QED
      BY <1>1, <2>1, <2>2, <3>1, SoundElsewhere
  <2>4. CASE call[c].browser = b
    <3>1. \A d \in Calls : ~Renews(d, b)
      BY <1>4, <2>4 DEF SendRefresh, Renews
    <3>2. \A d \in Calls : Renews(d, b)' => d = c
      BY <1>1, <3>1 DEF Renews, Renewing
    <3>3. Renews(c, b)' /\ call'[c].kind = "api" /\ call'[c].awaited
          /\ call'[c].step = "compare" /\ call'[c].token = cookie[b]
      BY <1>4, <2>2, <2>4, SendRefreshStep, IdleIsNone DEF Renews, Renewing
    <3>4. cookie[b] = saved /\ saved # None
      BY <2>1, <3>1 DEF Sound
    <3> QED
      BY <2>1, <3>2, <3>3, <3>4, SoundRefresh
  <2> QED
    BY <2>3, <2>4
<1>5. CASE Compare(c) \/ IssueTokens(c)
  <2>1. Sound(b) /\ UNCHANGED <<saved, cookie>>
    BY <1>2, <1>5 DEF Compare, IssueTokens, page, history
  <2>2. /\ call'[c] # Idle /\ call'[c].step \in {"issue", "store"}
        /\ call'[c].browser = call[c].browser /\ call'[c].kind = call[c].kind
        /\ call'[c].awaited = call[c].awaited
    BY <1>1, <1>5, GoToType, IssueStep, IdleIsNone DEF Compare, Steps
  <2>3. CASE ~Renews(c, b)
    <3>1. ~Renews(c, b)'
      BY <1>1, <1>5, <2>2, <2>3 DEF Compare, IssueTokens, At, Renews, Renewing
    <3> QED
      BY <1>1, <2>1, <2>3, <3>1, SoundElsewhere
  <2>4. CASE Renews(c, b)
    <3>1. InOrder(c, b) /\ \A d \in Calls : Renews(d, b) => d = c
      BY <2>1, <2>4, OnlyRefresh
    <3>2. \A d \in Calls : Renews(d, b)' => d = c
      BY <1>1, <3>1 DEF Renews, Renewing
    <3>3. Renews(c, b)' /\ call'[c].kind = "api" /\ call'[c].awaited
      BY <2>2, <2>4, <3>1 DEF Renews, Renewing, InOrder
    <3>4. cookie[b] = saved /\ saved # None
      BY <1>5, <2>1, <3>1 DEF Compare, IssueTokens, At, InOrder, Sound
    <3> QED
      BY <2>1, <2>2, <3>2, <3>3, <3>4, SoundRefresh
  <2> QED
    BY <2>3, <2>4
<1>6. CASE Store(c)
  <2>1. call[c].browser = b /\ call[c].awaited /\ isAuth[b] /\ b \notin disturbed
    BY <1>6 DEF Store, Bystanders, page
  <2>2. Renews(c, b) /\ Sound(b)
    BY <1>1, <1>2, <1>6, <2>1 DEF Store, At, Renews, Renewing, InShape
  <2>3. InOrder(c, b) /\ \A d \in Calls : Renews(d, b) => d = c
    BY <2>2, OnlyRefresh
  <2>4. /\ call'[c] # Idle /\ call'[c].step = "answer" /\ call'[c].token = call[c].token
        /\ call'[c].browser = call[c].browser /\ call'[c].kind = call[c].kind
        /\ call'[c].awaited = call[c].awaited
    BY <1>1, <1>6, GoToType DEF Store, Steps
  <2>5. \A d \in Calls : Renews(d, b)' => d = c
    BY <1>1, <2>3 DEF Renews, Renewing
  <2>6. Renews(c, b)' /\ call'[c].kind = "api" /\ call'[c].awaited
    BY <2>2, <2>3, <2>4 DEF Renews, Renewing, InOrder
  <2>7. saved' = call[c].token /\ saved' # None
    BY <1>1, <1>6 DEF Store, At, InShape
  <2> QED
    BY <2>4, <2>5, <2>6, <2>7, SoundRefresh
<1>7. CASE Refused(c) \/ Unheard(c)
  <2>1. isAuth[b] /\ Sound(b) /\ UNCHANGED <<saved, cookie>>
    <3>1. isAuth[b]
      BY <1>1, <1>7 DEF Refused, Unheard, SignOut, page, TypeOK, Exchange
    <3> QED
      BY <1>2, <1>7, <3>1 DEF Refused, Unheard, SignOut, page, history
  <2>2. ~Renews(c, b)
    <3>1. ASSUME Renews(c, b) PROVE FALSE
      <4>1. InOrder(c, b) /\ call[c].browser = b /\ saved # None
        BY <2>1, <3>1 DEF Sound, Renews
      <4>2. Refused(c)
        BY <1>7, <4>1 DEF Unheard, InOrder
      <4> QED
        BY <4>1, <4>2 DEF Refused, At, InOrder
    <3> QED
      BY <3>1
  <2>3. ~Renews(c, b)'
    BY <1>7, DoneType DEF Refused, Unheard, Renews, Renewing
  <2> QED
    BY <1>1, <2>1, <2>2, <2>3, SoundElsewhere
<1>8. CASE Delete(c)
  BY <1>8 DEF Delete
<1>9. CASE Refreshed(c)
  <2>1. Sound(b) /\ saved' = saved /\ (call[c].browser # b => cookie'[b] = cookie[b])
    BY <1>2, <1>9 DEF Refreshed, Renew, history, TypeOK
  <2>2. ~Renews(c, b)'
    BY <1>1, <1>9, GoToType DEF Refreshed, Steps, Renews, Renewing
  <2>3. CASE call[c].browser # b
    BY <1>1, <2>1, <2>2, <2>3, SoundElsewhere DEF Renews
  <2>4. CASE call[c].browser = b
    <3>1. Renews(c, b)
      BY <1>1, <1>9, <2>4 DEF Refreshed, At, Renews, Renewing
    <3>2. InOrder(c, b) /\ \A d \in Calls : Renews(d, b) => d = c
      BY <2>1, <3>1, OnlyRefresh
    <3>3. \A d \in Calls : ~Renews(d, b)'
      BY <1>1, <2>2, <3>2 DEF Renews, Renewing
    <3>4. cookie'[b] = saved /\ saved # None
      BY <1>9, <2>1, <2>4, <3>2 DEF Refreshed, At, Renew, InOrder, Sound, TypeOK
    <3> QED
      BY <2>1, <3>3, <3>4 DEF Sound
  <2> QED
    BY <2>3, <2>4
<1>10. CASE LoggedIn(c)
  <2>1. CASE call[c].browser # b
    <3>1. /\ Sound(b) /\ saved' = saved /\ cookie'[b] = cookie[b]
      <4>1. isAuth[b] /\ b \notin disturbed /\ saved' = saved /\ cookie'[b] = cookie[b]
        BY <1>1, <1>10, <2>1 DEF LoggedIn, Renew, TypeOK, Exchange
      <4> QED
        BY <1>2, <4>1
    <3>2. ~Renews(c, b) /\ ~Renews(c, b)'
      BY <1>10, <2>1, DoneType DEF LoggedIn, Renews, Renewing
    <3> QED
      BY <1>1, <3>1, <3>2, SoundElsewhere
  <2>2. CASE call[c].browser = b
    <3>1. saved = call[c].token /\ \A d \in Calls \ {c} : Renewing(d) => call[d].browser # b
      BY <1>10, <2>2 DEF LoggedIn
    <3>2. \A d \in Calls : ~Renews(d, b)'
      BY <1>1, <1>10, <3>1, DoneType DEF LoggedIn, Renews, Renewing
    <3>3. cookie'[b] = saved /\ saved' = saved
      BY <1>10, <2>2, <3>1 DEF LoggedIn, Renew, TypeOK
    <3>4. saved # None
      BY <1>1, <1>10, <3>1 DEF LoggedIn, At, InShape
    <3> QED
      BY <3>2, <3>3, <3>4 DEF Sound
  <2> QED
    BY <2>1, <2>2
<1>11. CASE LoggedOut(c)
  <2>1. call[c].browser # b
    BY <1>1, <1>11 DEF LoggedOut, TypeOK, Exchange
  <2>2. isAuth[b] /\ b \notin disturbed /\ saved' = saved /\ cookie'[b] = cookie[b]
    BY <1>1, <1>11, <2>1 DEF LoggedOut, TypeOK, Exchange, history
  <2>3. ~Renews(c, b) /\ ~Renews(c, b)'
    BY <1>11, <2>1, DoneType DEF LoggedOut, Renews, Renewing
  <2> QED
    BY <1>1, <1>2, <2>2, <2>3, SoundElsewhere
<1>12. CASE Refuse(c)
  <2>1. Sound(b) /\ UNCHANGED <<saved, cookie>>
    BY <1>2, <1>12 DEF Refuse, page, history
  <2>2. ~Renews(c, b)
    <3>1. ASSUME Renews(c, b) PROVE FALSE
      <4>1. InOrder(c, b) /\ saved # None
        BY <2>1, <3>1 DEF Sound
      <4>2. call[c].token = saved
        BY <1>12, <4>1 DEF Refuse, At, InOrder
      <4> QED
        BY <1>12, <4>1, <4>2 DEF Refuse, Accepted
    <3> QED
      BY <3>1
  <2>3. ~Renews(c, b)'
    <3>1. call'[c].browser = call[c].browser /\ call'[c].kind = call[c].kind
      BY <1>1, <1>12, GoToType DEF Refuse, Steps
    <3> QED
      BY <1>1, <1>12, <2>2, <3>1 DEF Refuse, At, Renews, Renewing
  <2> QED
    BY <1>1, <2>1, <2>2, <2>3, SoundElsewhere
<1> QED
  BY <1>3, <1>4, <1>5, <1>6, <1>7, <1>8, <1>9, <1>10, <1>11, <1>12 DEF CallStep

LEMMA LostSound ==
    ASSUME TypeOK, CallsInShape, SessionsAreSound, NEW c \in Calls, Lost(c)
    PROVE  SessionsAreSound'
<1> SUFFICES ASSUME NEW b \in Browsers, isAuth'[b] /\ b \notin disturbed'
             PROVE  Sound(b)'
  BY DEF SessionsAreSound
<1>1. call[c] # Idle /\ call[c] \in Exchange /\ \A d \in Calls : d # c => call'[d] = call[d]
  BY LostStep DEF Lost
<1>2. isAuth[b] /\ b \notin disturbed /\ UNCHANGED <<saved, cookie>>
  <2>1. isAuth[b]
    BY <1>1 DEF Lost, SignOut, page, TypeOK, Exchange
  <2> QED
    BY <2>1 DEF Lost, SignOut, page
<1>3. Sound(b)
  BY <1>2 DEF SessionsAreSound
<1>4. ~Renews(c, b)
  BY DEF Lost, Renews
<1>5. ~Renews(c, b)'
  BY <1>1, <1>4, LostStep DEF Renews, Renewing
<1> QED
  BY <1>1, <1>2, <1>3, <1>4, <1>5, SoundElsewhere

LEMMA ReloadSound ==
    ASSUME TypeOK, SessionsAreSound, NEW b \in Browsers, Reload(b)
    PROVE  SessionsAreSound'
<1> SUFFICES ASSUME NEW a \in Browsers, isAuth'[a] /\ a \notin disturbed'
             PROVE  Sound(a)'
  BY DEF SessionsAreSound
<1>1. Sound(a) /\ UNCHANGED <<saved, cookie>>
  BY DEF Reload, page, SessionsAreSound
<1>2. a = b => \A c \in Calls : ~Renews(c, b)
  BY DEF Reload, Renews
<1>3. ASSUME NEW c \in Calls
      PROVE  (Renews(c, a)' <=> Renews(c, a)) /\ (Renews(c, a) => call'[c] = call[c])
  <2>1. CASE call'[c] = call[c]
    BY <2>1 DEF Renews, Renewing
  <2>2. CASE call'[c] # call[c]
    <3>1. call[c] \in Exchange /\ call[c].browser = b
      BY <2>2, ReloadStep
    <3>2. CASE call'[c] = Idle
      BY <1>2, <3>1, <3>2 DEF Renews, Renewing
    <3>3. CASE call'[c] # Idle
      <4>1. /\ call'[c].browser = call[c].browser /\ call'[c].kind = call[c].kind
            /\ call'[c].step = call[c].step
        BY <2>2, <3>3, ReloadStep
      <4> QED
        BY <1>2, <3>1, <3>3, <4>1, IdleIsNone DEF Renews, Renewing
    <3> QED
      BY <3>2, <3>3
  <2> QED
    BY <2>1, <2>2
<1> QED
  BY <1>1, <1>3, SoundKept

LEMMA SoundStep ==
    ASSUME TypeOK, CallsInShape, SessionsAreSound, Next
    PROVE  SessionsAreSound'
<1>1. CASE Second \/ QuarterHour
  BY <1>1 DEF Second, QuarterHour, SessionsAreSound, Sound, InOrder, Renews, Renewing, page, history
<1>2. CASE Week
  BY <1>2 DEF Week, SessionsAreSound
<1> QED
  BY <1>1, <1>2, SendSound, CallStepSound, LostSound, ReloadSound DEF Next

-----------------------------------------------------------------------------
(* The actions' properties.                                                *)

\* What is left of an exchange, by the step it is at.
LEMMA LeftOf ==
    ASSUME NEW e \in Exchange
    PROVE  /\ e.step = "guard" => Left(e) = IF e.retried THEN 1 ELSE 7
           /\ e.step = "refused" => Left(e) = 1
           /\ e.step = "answer" => Left(e) = 2
           /\ e.step \in {"store", "delete"} => Left(e) = 3
           /\ e.step = "issue" => Left(e) = 4
           /\ e.step = "compare" => Left(e) = 5
           /\ e.step = "rejected" => Left(e) = 6
           /\ Left(e) \in 1..7
<1>1. e # Idle /\ e.step \in Steps
  BY IdleIsNone DEF Exchange
<1> QED
  BY <1>1 DEF Left, Steps

LEMMA LeftOfNone == Left(Idle) = 0
BY DEF Left, Idle

LEMMA ProgressStep ==
    ASSUME TypeOK, CallsInShape, NEW c \in Calls, CallStep(c)
    PROVE  Left(call'[c]) < Left(call[c])
<1>1. call[c] # Idle /\ call[c] \in Exchange /\ InShape(call[c])
  BY CallFields
  DEF CallStep, Guard, SendRefresh, Refuse, Refused, Compare, IssueTokens, Store, Delete, Refreshed,
      LoggedIn, LoggedOut, Unheard, At, CallsInShape
<1>2. CASE Done(c)
  BY <1>1, <1>2, DoneType, LeftOf, LeftOfNone
<1>3. CASE Guard(c) /\ ~Done(c)
  <2>1. PICK s \in {"delete", "answer", "rejected"} : GoTo(c, s)
    BY <1>3 DEF Guard
  <2>2. ~call[c].retried
    BY <1>1, <1>3 DEF Guard, InShape
  <2>3. Left(call[c]) = 7
    BY <1>1, <1>3, <2>2, LeftOf DEF Guard, At
  <2>4. call'[c] \in Exchange /\ call'[c].step = s
    BY <1>1, <2>1, GoToType DEF Steps
  <2>5. Left(call'[c]) \in {2, 3, 6}
    BY <2>4, LeftOf
  <2> QED
    BY <2>3, <2>5
<1>4. CASE SendRefresh(c)
  <2>1. call[c].step = "rejected" /\ call'[c] \in Exchange /\ call'[c].step = "compare"
    BY <1>4, SendRefreshStep DEF SendRefresh, At
  <2> QED
    BY <1>1, <2>1, LeftOf
<1>5. CASE Compare(c)
  <2>1. call[c].step = "compare" /\ call'[c] \in Exchange /\ call'[c].step = "issue"
    BY <1>1, <1>5, GoToType DEF Compare, At, Steps
  <2> QED
    BY <1>1, <2>1, LeftOf
<1>6. CASE IssueTokens(c)
  <2>1. call[c].step = "issue" /\ call'[c] \in Exchange /\ call'[c].step = "store"
    BY <1>6, IssueStep DEF IssueTokens, At
  <2> QED
    BY <1>1, <2>1, LeftOf
<1>7. CASE Store(c) \/ Delete(c)
  <2>1. /\ call[c].step \in {"store", "delete"}
        /\ call'[c] \in Exchange /\ call'[c].step = "answer"
    BY <1>1, <1>7, GoToType DEF Store, Delete, At, Steps
  <2> QED
    BY <1>1, <2>1, LeftOf
<1>8. CASE Refreshed(c)
  <2>1. call[c].step = "answer" /\ call[c].retried
    BY <1>1, <1>8 DEF Refreshed, At, InShape
  <2>2. call'[c] \in Exchange /\ call'[c].step = "guard" /\ call'[c].retried = call[c].retried
    BY <1>1, <1>8, GoToType DEF Refreshed, Steps
  <2>3. call'[c].retried
    BY <2>1, <2>2
  <2>4. Left(call'[c]) = 1
    BY <2>2, <2>3, LeftOf
  <2>5. Left(call[c]) = 2
    BY <1>1, <2>1, LeftOf
  <2> QED
    BY <2>4, <2>5
<1>9. CASE Refuse(c)
  <2>1. call[c].step = "compare" /\ call'[c] \in Exchange /\ call'[c].step = "refused"
    BY <1>1, <1>9, GoToType DEF Refuse, At, Steps
  <2> QED
    BY <1>1, <2>1, LeftOf
<1> QED
  BY <1>2, <1>3, <1>4, <1>5, <1>6, <1>7, <1>8, <1>9
  DEF CallStep, Refused, LoggedIn, LoggedOut, Unheard

\* What KeepsSession says of a step.
Kept == \A b \in Browsers :
          isAuth[b] /\ ~isAuth'[b] =>
              b \in disturbed' \/ \E c \in Calls : /\ call[c] # Idle
                                                   /\ call[c].kind = "logout"
                                                   /\ call[c].browser = b

LEMMA KeptStep ==
    ASSUME TypeOK, CallsInShape, SessionsAreSound, Next
    PROVE  Kept
<1> SUFFICES ASSUME NEW b \in Browsers, isAuth[b], ~isAuth'[b], b \notin disturbed',
                    \A c \in Calls : call[c] # Idle /\ call[c].browser = b =>
                                        call[c].kind # "logout"
             PROVE  FALSE
  BY DEF Kept
<1>1. PICK c \in Calls : Refused(c) \/ LoggedIn(c) \/ LoggedOut(c) \/ Lost(c)
  BY DEF Next, CallStep, SendRequest, SendLogin, SendLogout, Start, Guard, SendRefresh, Refuse, Compare,
         IssueTokens, Store, Delete, Refreshed, Unheard, Reload, Second, QuarterHour, Week, page
<1>2. call[c] # Idle /\ call[c] \in Exchange /\ InShape(call[c])
  BY <1>1, CallFields DEF Refused, LoggedIn, LoggedOut, Lost, At, CallsInShape
<1>3. CASE Refused(c)
  <2>1. call[c].browser = b /\ b \notin disturbed
    BY <1>2, <1>3 DEF Refused, SignOut, page, history, TypeOK
  <2>2. Sound(b) /\ Renews(c, b)
    BY <1>2, <1>3, <2>1 DEF SessionsAreSound, Refused, At, Renews, Renewing, InShape
  <2> QED
    BY <1>3, <2>2 DEF Sound, InOrder, Refused, At
<1>4. CASE LoggedIn(c)
  BY <1>2, <1>4 DEF LoggedIn, TypeOK, Exchange
<1>5. CASE LoggedOut(c)
  BY <1>2, <1>5 DEF LoggedOut, TypeOK, Exchange
<1>6. CASE Lost(c)
  <2>1. call[c].browser = b /\ call[c].kind # "logout"
    BY <1>2, <1>6 DEF Lost, SignOut, page, TypeOK, Exchange
  <2> QED
    BY <1>2, <1>6, <2>1 DEF Lost, SignOut, page
<1> QED
  BY <1>1, <1>3, <1>4, <1>5, <1>6

-----------------------------------------------------------------------------
(* The theorems.                                                           *)

\* The invariant that all the theorems of this module rest on.
THEOREM Invariance == Spec => []IInv
<1>1. Init => IInv
  <2>1. ASSUME Init PROVE IInv
    <3>1. \A c \in Calls : call[c] = Idle
      BY <2>1 DEF Init
    <3>2. \A b \in Browsers : ~isAuth[b]
      BY <2>1 DEF Init
    <3>3. TypeOK /\ ~ended
      BY <2>1, InitTypeOK DEF Init
    <3> QED
      BY <3>1, <3>2, <3>3
      DEF IInv, CallsInShape, NothingToStore, EndedStaysEnded, SessionsAreSound
  <2> QED
    BY <2>1
<1>2. IInv /\ Next => IInv'
  BY TypeStep, ShapeStep, EndingStep, SoundStep DEF IInv, Ending
<1>3. IInv /\ UNCHANGED vars => IInv'
  BY DEF IInv, TypeOK, CallsInShape, NothingToStore, EndedStaysEnded, SessionsAreSound, Sound,
         InOrder, Renews, Renewing, At, vars, clock, page, history
<1> QED
  BY <1>1, <1>2, <1>3, PTL DEF Spec

\* Tokens, cookies, the store of a page and the exchanges keep their types.
THEOREM SessionsTypeCorrect == Spec => []TypeOK
<1>1. IInv => TypeOK
  BY DEF IInv
<1> QED
  BY <1>1, Invariance, PTL

\* Whatever refreshes, logins and logouts interleave, no token is saved again
\* after a logout that met no refresh under way, until somebody logs in.
THEOREM LogoutLasts == Spec => []EndedStaysEnded
<1>1. IInv => EndedStaysEnded
  BY DEF IInv
<1> QED
  BY <1>1, Invariance, PTL

\* The cookie of a browser that is signed in and undisturbed is the saved token.
THEOREM CookiesAreSaved == Spec => []CookieIsSaved
<1>1. IInv => CookieIsSaved
  <2> SUFFICES ASSUME IInv, NEW b \in Browsers, isAuth[b], b \notin disturbed,
                      \A c \in Calls : Renewing(c) => call[c].browser # b
               PROVE  cookie[b] = saved /\ saved # None
    BY DEF CookieIsSaved
  <2>1. Sound(b) /\ \A c \in Calls : ~Renews(c, b)
    BY DEF IInv, SessionsAreSound, Renews
  <2> QED
    BY <2>1 DEF Sound
<1> QED
  BY <1>1, Invariance, PTL

\* The interceptor signs a page out only if its session was disturbed.
THEOREM SessionsAreKept == Spec => KeepsSession
<1>1. IInv /\ [Next]_vars => [Kept]_vars
  BY KeptStep DEF IInv
<1>2. [][Kept]_vars => KeepsSession
  BY PTL DEF KeepsSession, Kept
<1> QED
  BY <1>1, <1>2, Invariance, PTL DEF Spec

\* Every step of an exchange brings it nearer to its end.
THEOREM ExchangesEnd == Spec => CallsProgress
<1>1. IInv /\ [Next]_vars => [\A c \in Calls : CallStep(c) => Left(call'[c]) < Left(call[c])]_vars
  BY ProgressStep DEF IInv
<1> QED
  BY <1>1, Invariance, PTL DEF Spec, CallsProgress
=============================================================================
