---------------------------- MODULE AuthSession ----------------------------
(***************************************************************************)
(* The session of one account, from several browsers: AuthService with its *)
(* one refresh token per user in Redis, the guards, and the interceptors   *)
(* of the CRM that refresh an expired access token and repeat the request. *)
(* A refresh reads the saved token, signs new ones and writes the new one, *)
(* each in a step of its own; every request of a browser that meets a 401  *)
(* refreshes for itself; an answer may never reach the browser.            *)
(***************************************************************************)
EXTENDS Integers, FiniteSets

CONSTANTS
    Browsers,  \* browsers signed in to the account, one open tab each
    Calls,     \* HTTP exchanges that can be in progress at the same time
    MaxNow     \* bound on the clock

ASSUME AuthConstants == MaxNow \in Nat /\ MaxNow >= 1

VARIABLES
    now,        \* seconds, counted only as far as they tell tokens apart
    expired,    \* access tokens signed at this second or before have expired
    saved,      \* rf:<user> in Redis: the second the token was signed at
    cookie,     \* the refreshToken cookie of a browser
    access,     \* accessToken in the store of its page
    isAuth,     \* isAuth in that store
    call,       \* call[c]: an exchange in progress, or Idle
    disturbed,  \* browsers whose session something else has interfered with
    ended       \* the account was signed out, and no refresh was under way then

vars == <<now, expired, saved, cookie, access, isAuth, call, disturbed, ended>>
clock == <<now, expired>>
page == <<cookie, access, isAuth>>
history == <<disturbed, ended>>

\* The payload is always the same, so tokens signed in one second are equal.
None == 0
Tokens == 0..MaxNow

\* "guard": at JwtAuthGuard; "rejected": the page got a 401; the rest is the
\* server's work on a refresh, a login or a logout, and its answer, which is
\* "refused" if the refresh got a 401 itself.
Steps == {"guard", "rejected", "compare", "refused", "issue", "store", "delete", "answer"}
Exchange == [browser : Browsers, kind : {"api", "login", "logout"}, step : Steps,
             token : Tokens, retried : BOOLEAN, awaited : BOOLEAN]
Idle == [kind |-> "idle"]

TypeOK ==
    /\ now \in 1..MaxNow
    /\ expired \in Tokens
    /\ saved \in Tokens
    /\ cookie \in [Browsers -> Tokens]
    /\ access \in [Browsers -> Tokens]
    /\ isAuth \in [Browsers -> BOOLEAN]
    /\ call \in [Calls -> Exchange \cup {Idle}]
    /\ disturbed \in SUBSET Browsers
    /\ ended \in BOOLEAN

Init ==
    /\ now = 1
    /\ expired = 0
    /\ saved = None
    /\ cookie = [b \in Browsers |-> None]
    /\ access = [b \in Browsers |-> None]
    /\ isAuth = [b \in Browsers |-> FALSE]
    /\ call = [c \in Calls |-> Idle]
    /\ disturbed = {}
    /\ ended = FALSE

Valid(t) == t > expired

At(c, step) == call[c] # Idle /\ call[c].step = step
GoTo(c, step) == call' = [call EXCEPT ![c].step = step]
Done(c) == call' = [call EXCEPT ![c] = Idle]

\* A refresh or a login under way: it will renew the session of its page, or end it.
Renewing(c) ==
    call[c] # Idle /\ call[c].step \in {"compare", "refused", "issue", "store", "answer"}

-----------------------------------------------------------------------------
(* The store of the page.                                                  *)

\* logout() of the store; the cookie is not the page's to delete.
SignOut(b) ==
    /\ access' = [access EXCEPT ![b] = None]
    /\ isAuth' = [isAuth EXCEPT ![b] = FALSE]
    /\ UNCHANGED cookie

-----------------------------------------------------------------------------
(* Starting an exchange.                                                   *)

Start(c, b, kind, step, token) ==
    /\ call[c] = Idle
    /\ call' = [call EXCEPT ![c] =
                  [browser |-> b, kind |-> kind, step |-> step, token |-> token,
                   retried |-> FALSE, awaited |-> TRUE]]
    /\ UNCHANGED <<clock, saved, page, history>>

\* A page behind PrivateRoute asks for something.
SendRequest(c, b) == isAuth[b] /\ Start(c, b, "api", "guard", access[b])

\* The login page; the password has been verified.
SendLogin(c, b) == ~isAuth[b] /\ Start(c, b, "login", "issue", None)

SendLogout(c, b) == isAuth[b] /\ Start(c, b, "logout", "guard", access[b])

-----------------------------------------------------------------------------
(* The server.                                                             *)

\* JwtAuthGuard.  An ordinary request is answered or gets a 401; a second 401
\* is the caller's error.  A logout that gets a 401 is not retried: its path
\* is an /auth/ path, and the page signs out all the same.
Guard(c) ==
    /\ At(c, "guard")
    /\ LET e == call[c] IN
          IF e.kind = "logout"
          THEN GoTo(c, IF Valid(e.token) THEN "delete" ELSE "answer")
          ELSE IF Valid(e.token) \/ e.retried THEN Done(c) ELSE GoTo(c, "rejected")
    /\ UNCHANGED <<clock, saved, page, history>>

\* authService.refresh(): the browser sends the cookie it has by now, also when
\* another renewal of the browser is under way: nothing makes one wait.
SendRefresh(c) ==
    /\ At(c, "rejected")
    /\ LET b == call[c].browser IN
          /\ call' = [call EXCEPT ![c].step = "compare", ![c].retried = TRUE,
                                  ![c].token = cookie[b]]
          /\ disturbed' = IF \E d \in Calls : Renewing(d) /\ call[d].browser = b
                          THEN disturbed \cup {b} ELSE disturbed
    /\ UNCHANGED <<clock, saved, page, ended>>

\* Mutant of Accepted: whoever has a cookie is served.
AcceptedUnsaved(t) == t # None

\* JwtRefreshGuard needs a cookie, refreshTokens one that equals the saved token.
Accepted(t) == t # None /\ saved = t

\* refreshTokens throws; its 401 is on its way.
Refuse(c) ==
    /\ At(c, "compare") /\ ~Accepted(call[c].token)
    /\ GoTo(c, "refused")
    /\ UNCHANGED <<clock, saved, page, history>>

Compare(c) ==
    /\ At(c, "compare") /\ Accepted(call[c].token)
    /\ GoTo(c, "issue")
    /\ UNCHANGED <<clock, saved, page, history>>

\* Mutant of IssueTokens: the second is rounded up.
IssueTokensAhead(c) ==
    /\ At(c, "issue")
    /\ call' = [call EXCEPT ![c].step = "store", ![c].token = now + 1]
    /\ UNCHANGED <<clock, saved, page, history>>

IssueTokens(c) ==
    /\ At(c, "issue")
    /\ call' = [call EXCEPT ![c].step = "store", ![c].token = now]
    /\ UNCHANGED <<clock, saved, page, history>>

\* Whom a new token saved by c interferes with: the other browsers, and its
\* own if nobody waits for the answer.
Bystanders(c) == {b \in Browsers : b # call[c].browser \/ ~call[c].awaited}

\* Mutant of Store: a refresh hands out its new token without saving it.
StoreOnLogin(c) ==
    /\ At(c, "store")
    /\ saved' = IF call[c].kind = "login" THEN call[c].token ELSE saved
    /\ GoTo(c, "answer")
    /\ disturbed' = disturbed \cup Bystanders(c)
    /\ ended' = (ended /\ call[c].kind # "login")
    /\ UNCHANGED <<clock, page>>

\* updateRefreshToken
Store(c) ==
    /\ At(c, "store")
    /\ saved' = call[c].token
    /\ GoTo(c, "answer")
    /\ disturbed' = disturbed \cup Bystanders(c)
    /\ ended' = (ended /\ call[c].kind # "login")
    /\ UNCHANGED <<clock, page>>

\* AuthService.logout
Delete(c) ==
    /\ At(c, "delete")
    /\ saved' = None
    /\ GoTo(c, "answer")
    /\ disturbed' = Browsers
    /\ ended' = (\A d \in Calls \ {c} : Renewing(d) => call[d].step = "refused")
    /\ UNCHANGED <<clock, page>>

-----------------------------------------------------------------------------
(* The answers.                                                            *)

\* Mutant of Renew: the page takes the access token, the cookie stays.
RenewAccessOnly(b, t) ==
    /\ access' = [access EXCEPT ![b] = t]
    /\ UNCHANGED cookie

\* Set-Cookie, and the access token for the store.
Renew(b, t) ==
    /\ cookie' = [cookie EXCEPT ![b] = t]
    /\ access' = [access EXCEPT ![b] = t]

\* Mutant of Refused: a refused refresh is refreshed like any other request.
RefusedAgain(c) ==
    /\ At(c, "refused")
    /\ GoTo(c, "rejected")
    /\ UNCHANGED <<clock, saved, page, history>>

\* The interceptor's catch signs the page out, whoever has signed in meanwhile.
Refused(c) ==
    /\ At(c, "refused")
    /\ Done(c)
    /\ IF call[c].awaited THEN SignOut(call[c].browser) ELSE UNCHANGED page
    /\ UNCHANGED <<clock, saved, history>>

\* A refresh: setAccessToken, and the request is sent once more.
Refreshed(c) ==
    /\ At(c, "answer") /\ call[c].kind = "api" /\ call[c].awaited
    /\ Renew(call[c].browser, call[c].token)
    /\ GoTo(c, "guard")
    /\ UNCHANGED <<clock, saved, isAuth, history>>

\* setAuth.  The session starts afresh, unless the token has been replaced or
\* another refresh of the browser is still under way.
LoggedIn(c) ==
    /\ At(c, "answer") /\ call[c].kind = "login" /\ call[c].awaited
    /\ LET b == call[c].browser IN
          /\ Renew(b, call[c].token)
          /\ isAuth' = [isAuth EXCEPT ![b] = TRUE]
          /\ disturbed' =
               IF /\ saved = call[c].token
                  /\ \A d \in Calls \ {c} : Renewing(d) => call[d].browser # b
               THEN disturbed \ {b} ELSE disturbed \cup {b}
    /\ Done(c)
    /\ UNCHANGED <<clock, saved, ended>>

\* useLogout: whatever the server said, the page signs out; only a logout that
\* passed the guard clears the cookie.
LoggedOut(c) ==
    /\ At(c, "answer") /\ call[c].kind = "logout" /\ call[c].awaited
    /\ LET b == call[c].browser IN
          /\ access' = [access EXCEPT ![b] = None]
          /\ isAuth' = [isAuth EXCEPT ![b] = FALSE]
          /\ cookie' = IF Valid(call[c].token) THEN [cookie EXCEPT ![b] = None] ELSE cookie
    /\ Done(c)
    /\ UNCHANGED <<clock, saved, history>>

Unheard(c) ==
    /\ At(c, "answer") /\ ~call[c].awaited
    /\ Done(c)
    /\ UNCHANGED <<clock, saved, page, history>>

-----------------------------------------------------------------------------
(* What goes wrong, and time.                                              *)

\* The network fails: the page sees an error, the server goes on or has died.
\* The error of a refresh signs the page out, like that of a logout.
Lost(c) ==
    /\ call[c] # Idle /\ call[c].awaited
    /\ LET e == call[c] IN
          /\ IF e.kind = "logout" \/ (e.kind = "api" /\ Renewing(c))
             THEN SignOut(e.browser) ELSE UNCHANGED page
          /\ disturbed' = IF Renewing(c) THEN disturbed \cup {e.browser} ELSE disturbed
          /\ \/ Done(c)
             \/ /\ e.step \notin {"guard", "rejected"} \/ e.kind = "logout"
                /\ call' = [call EXCEPT ![c].awaited = FALSE]
    /\ UNCHANGED <<clock, saved, ended>>

\* The page is reloaded: the persisted store stays, nobody waits any more.
Reload(b) ==
    /\ call' = [c \in Calls |->
                  IF call[c] = Idle \/ call[c].browser # b THEN call[c]
                  ELSE IF call[c].kind = "logout" \/ Renewing(c)
                       THEN [call[c] EXCEPT !.awaited = FALSE] ELSE Idle]
    /\ disturbed' = IF \E c \in Calls : Renewing(c) /\ call[c].browser = b
                    THEN disturbed \cup {b} ELSE disturbed
    /\ UNCHANGED <<clock, saved, page, ended>>

Second == now < MaxNow /\ now' = now + 1
          /\ UNCHANGED <<expired, saved, page, call, history>>

\* Access tokens last 15 minutes.
QuarterHour == /\ now < MaxNow
               /\ now' = now + 1
               /\ expired' = now
               /\ UNCHANGED <<saved, page, call, history>>

\* Seven days without a refresh: Redis drops the key, the cookies expire.
Week == /\ \A c \in Calls : call[c] = Idle
        /\ now < MaxNow
        /\ now' = now + 1
        /\ expired' = now
        /\ saved' = None
        /\ cookie' = [b \in Browsers |-> None]
        /\ disturbed' = Browsers
        /\ ended' = TRUE
        /\ UNCHANGED <<access, isAuth, call>>

CallStep(c) == \/ Guard(c) \/ SendRefresh(c) \/ Refuse(c) \/ Compare(c)
               \/ IssueTokens(c) \/ Store(c) \/ Delete(c)
               \/ Refused(c) \/ Refreshed(c) \/ LoggedIn(c) \/ LoggedOut(c) \/ Unheard(c)

Next == \/ \E c \in Calls : \/ \E b \in Browsers : \/ SendRequest(c, b)
                                                   \/ SendLogin(c, b)
                                                   \/ SendLogout(c, b)
                            \/ CallStep(c)
                            \/ Lost(c)
        \/ \E b \in Browsers : Reload(b)
        \/ Second \/ QuarterHour \/ Week

Spec == Init /\ [][Next]_vars

-----------------------------------------------------------------------------
(* Properties.                                                             *)

\* The cookie of a signed-in browser is the token that refreshTokens will
\* accept, unless another browser used the account, refreshes overlapped or an
\* answer was lost: working on in one browser, one refresh after the other,
\* never leads to a cookie the server does not know.
CookieIsSaved ==
    \A b \in Browsers :
        isAuth[b] /\ b \notin disturbed /\ (\A c \in Calls : Renewing(c) => call[c].browser # b)
            => cookie[b] = saved /\ saved # None

\* The page signs out by itself only after one of those disturbances; else only
\* because the user asked for it.
KeepsSession ==
    [][\A b \in Browsers :
          isAuth[b] /\ ~isAuth'[b] =>
              b \in disturbed' \/ \E c \in Calls : /\ call[c] # Idle
                                                   /\ call[c].kind = "logout"
                                                   /\ call[c].browser = b]_vars

\* After a logout the account has no refresh token until somebody logs in,
\* from whichever browser an old cookie comes; a refresh that was under way
\* when the token was deleted is the exception.
EndedStaysEnded == ended => saved = None

\* What is left of an exchange: a 401 is answered by one refresh and one
\* repetition.
Left(e) == CASE e = Idle -> 0
             [] e # Idle /\ e.step = "guard" /\ e.retried -> 1
             [] e # Idle /\ e.step = "refused" -> 1
             [] e # Idle /\ e.step = "answer" -> 2
             [] e # Idle /\ e.step \in {"store", "delete"} -> 3
             [] e # Idle /\ e.step = "issue" -> 4
             [] e # Idle /\ e.step = "compare" -> 5
             [] e # Idle /\ e.step = "rejected" -> 6
             [] OTHER -> 7

\* Every step of an exchange brings it nearer to its end, so it ends after at
\* most seven: no 401, neither of a repeated request nor of a refresh, makes
\* the interceptor go round again.
CallsProgress == [][\A c \in Calls : CallStep(c) => Left(call'[c]) < Left(call[c])]_vars
=============================================================================
