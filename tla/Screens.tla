------------------------------ MODULE Screens ------------------------------
(***************************************************************************)
(* One open page of the CRM: the lists and searches it keeps in the query  *)
(* cache, the polls that refresh them, the operations its clerk performs   *)
(* from them, and what each operation's onSuccess does to the cache.  The  *)
(* rows move on the server under the hands of other desks as well.         *)
(*                                                                         *)
(* The pages share the mechanism and differ in their tables, so a behaviour *)
(* is about one page.  Another page of the same browser is another desk:   *)
(* what it does to this page's cache is no more than the polls do.         *)
(***************************************************************************)
EXTENDS Integers, Sequences, FiniteSets

CONSTANTS
    Rows,       \* ids of visits, clients, costumes or notifications
    PageSize,   \* rows a list endpoint returns at a time
    Pages,      \* pages of the CRM that are looked at
    MaxMoves    \* bound on what happens to the rows

\* The pages with lists of rows that operations and other desks change.
CrmPages == {"orders", "issue", "return", "deposits", "clients", "costumes", "notifications"}

ASSUME ScreenConstants == /\ Rows \subseteq Nat \ {0} /\ IsFiniteSet(Rows)
                          /\ PageSize \in Nat \ {0}
                          /\ MaxMoves \in Nat
                          /\ Pages \subseteq CrmPages

VARIABLES
    page,    \* the page that is open
    state,   \* state[x]: the row on the server
    moves,   \* how often the rows changed
    cache,   \* cache[q]: the entry of query q
    op,      \* the operation whose answer is on its way, or NoOp
    pushes   \* socket events on their way to the page

vars == <<page, state, moves, cache, op, pushes>>
server == <<state, moves>>

-----------------------------------------------------------------------------
(* The tables.                                                             *)

\* Lists are refetched every 15 seconds, the orders without a tag every 5; a
\* search is not, and most of them count as fresh for five minutes.
Paged == {"reserved", "issued", "deposits", "clients", "costumes", "notifications"}
Lists == Paged \cup {"notWritten"}
Kept == {"searchReserved", "searchIssued", "searchClients", "searchCostumes"}
Searches == Kept \cup {"searchNotifications"}

On(p) == CASE p = "orders"        -> {"notWritten"}
           [] p = "issue"         -> {"reserved", "searchReserved"}
           [] p = "return"        -> {"issued", "searchIssued"}
           [] p = "deposits"      -> {"deposits"}
           [] p = "clients"       -> {"clients", "searchClients"}
           [] p = "costumes"      -> {"costumes", "searchCostumes"}
           [] p = "notifications" -> {"notifications", "searchNotifications"}

\* A completed visit "owes" until its deposit was given back; a notification is
\* "sent" in whatever status it has left "pending" for.
VisitStates == {"reserved", "issued", "owing", "completed", "cancelled"}
ClientStates == {"live", "blacklisted", "deleted"}
CostumeStates == {"live", "deleted"}
NotificationStates == {"pending", "sent"}
OrderStates == {"unwritten", "written"}
States == {"absent"} \cup OrderStates \cup VisitStates \cup ClientStates \cup NotificationStates

\* What the endpoints of the lists and searches select.
findOrdersNotWritten == {"unwritten"}
visitReserved == {"reserved"}
visitSearch == {"reserved"}
visitIssued == {"issued"}
visitsReturnSearch == {"issued"}
visitUnreturnedDeposits == {"owing"}
listClients == {"live", "blacklisted"}
searchClients == {"live", "blacklisted"}
getCostumesList == {"live"}
searchCostume == {"live"}
visitNotification == NotificationStates
searchNotification == NotificationStates

Shows(q) == CASE q = "notWritten"          -> findOrdersNotWritten
              [] q = "reserved"            -> visitReserved
              [] q = "searchReserved"      -> visitSearch
              [] q = "issued"              -> visitIssued
              [] q = "searchIssued"        -> visitsReturnSearch
              [] q = "deposits"            -> visitUnreturnedDeposits
              [] q = "clients"             -> listClients
              [] q = "searchClients"       -> searchClients
              [] q = "costumes"            -> getCostumesList
              [] q = "searchCostumes"      -> searchCostume
              [] q = "notifications"       -> visitNotification
              [] q = "searchNotifications" -> searchNotification

First(p) == CASE p = "orders"                 -> "unwritten"
              [] p = "issue"                  -> "reserved"
              [] p = "return"                 -> "issued"
              [] p = "deposits"               -> "owing"
              [] p \in {"clients", "costumes"} -> "live"
              [] p = "notifications"          -> "pending"

\* The mutations of the hooks: what the endpoint does to a row, and what onSuccess
\* does: filter the row out of a query, invalidate a query.  An update by id finds
\* the rows that are deleted, too.
Operation(effect, filters, invalidates) ==
    [effect |-> effect, filters |-> filters, invalidates |-> invalidates]
Staying(S) == {<<s, s>> : s \in S}
Becoming(s, S) == {<<t, s>> : t \in S}

useCreateVisit == Operation({<<"absent", "unwritten">>}, {}, On("orders"))
useMarkCostumeAsWritten ==
    Operation(Becoming("written", {"unwritten", "written"}) \cup Staying({"cancelled"}), {}, {})
useIssueVisit == Operation(Becoming("issued", {"reserved", "cancelled"}), {"reserved"}, {})
useCancelVisit == Operation({<<"reserved", "cancelled">>}, {"reserved"}, {})
useCompleteReturnVisit ==
    Operation({<<"issued", "owing">>, <<"issued", "completed">>}, {"issued"}, {})
useUnissueVisit == Operation({<<"issued", "reserved">>}, {"issued"}, {})
useMarkDepositReturned ==
    Operation(Becoming("completed", {"owing", "completed"}), {}, {"deposits"})

Known == {"live", "blacklisted"}
OfClient(effect) == Operation(effect \cup Staying({"deleted"}), {}, On("clients"))
useCreateClient == Operation({<<"absent", "live">>}, {}, On("clients"))
useUpdateClient == OfClient(Staying(Known))
useDeleteClient == OfClient(Becoming("deleted", Known))
useAddClientToBlacklist == OfClient(Becoming("blacklisted", Known))
useRemoveClientFromBlacklist == OfClient(Becoming("live", Known))

useCreateCostume == Operation({<<"absent", "live">>}, {}, On("costumes"))
useUpdateCostume == Operation(Staying({"live", "deleted"}), {}, On("costumes"))
useDeleteCostume ==
    Operation(Becoming("deleted", {"live", "deleted"}), On("costumes"), On("costumes"))

Operations(p) ==
    CASE p = "orders"        -> {useCreateVisit, useMarkCostumeAsWritten}
      [] p = "issue"         -> {useIssueVisit, useCancelVisit}
      [] p = "return"        -> {useCompleteReturnVisit, useUnissueVisit}
      [] p = "deposits"      -> {useMarkDepositReturned}
      [] p = "clients"       -> {useCreateClient, useUpdateClient, useDeleteClient,
                                 useAddClientToBlacklist, useRemoveClientFromBlacklist}
      [] p = "costumes"      -> {useCreateCostume, useUpdateCostume, useDeleteCostume}
      [] p = "notifications" -> {}

\* What the rows of the page may do while somebody else works on them.
Elsewhere(p) ==
    CASE p = "orders" -> {<<"absent", "unwritten">>, <<"unwritten", "written">>,
                          <<"unwritten", "cancelled">>, <<"written", "cancelled">>,
                          <<"cancelled", "unwritten">>, <<"cancelled", "written">>}
      [] p \in {"issue", "return", "deposits"} ->
           {<<"absent", "reserved">>, <<"reserved", "issued">>, <<"reserved", "cancelled">>,
            <<"cancelled", "issued">>, <<"issued", "reserved">>, <<"issued", "owing">>,
            <<"issued", "completed">>, <<"owing", "completed">>}
      [] p = "clients" ->
           {<<"absent", "live">>, <<"live", "blacklisted">>, <<"blacklisted", "live">>,
            <<"live", "deleted">>, <<"blacklisted", "deleted">>}
      [] p = "costumes" -> {<<"absent", "live">>, <<"live", "deleted">>}
      [] p = "notifications" ->
           {<<"absent", "pending">>, <<"pending", "sent">>, <<"sent", "pending">>}

-----------------------------------------------------------------------------
(* The cache.                                                              *)

\* A fetch: the pages it has, how many it wants, whether the last one said
\* that there are more.  "old": it began before an operation of the page
\* invalidated the search; "missed": it went on because the invalidation did not
\* reach it.  For an entry they tell the same of the fetch whose answer it shows.
NoFetch == [want |-> 0]
Fetch(got, want) == [got |-> got, want |-> want, more |-> TRUE, old |-> FALSE, missed |-> FALSE]

Empty == [data |-> <<>>, more |-> FALSE, old |-> FALSE, missed |-> FALSE, stale |-> FALSE,
          open |-> FALSE, fetch |-> NoFetch]

Items == {<<x, s>> : x \in Rows, s \in States}
Fetches == [got : Seq(SUBSET Items), want : Nat \ {0}, more : BOOLEAN, old : BOOLEAN,
            missed : BOOLEAN]
Entries == [data : Seq(SUBSET Items), more : BOOLEAN, old : BOOLEAN, missed : BOOLEAN,
            stale : BOOLEAN, open : BOOLEAN, fetch : Fetches \cup {NoFetch}]

NoOp == [row |-> 0]

TypeOK ==
    /\ page \in Pages
    /\ state \in [Rows -> States]
    /\ moves \in 0..MaxMoves
    /\ cache \in [On(page) -> Entries]
    /\ op \in [row : Rows, filters : SUBSET On(page), invalidates : SUBSET On(page)] \cup {NoOp}
    /\ pushes \in Seq(Items)

Init ==
    /\ page \in Pages
    /\ state \in [Rows -> {"absent", First(page)}]
    /\ moves = 0
    /\ cache = [q \in On(page) |-> Empty]
    /\ op = NoOp
    /\ pushes = <<>>

Loaded(e) == e.data # <<>>
Fetching(e) == e.fetch # NoFetch
Listed(e) == UNION {e.data[i] : i \in DOMAIN e.data}

\* The k-th page of query q as the server would answer now; a search has one.
Ahead(q, x) == Cardinality({y \in Rows : y < x /\ state[y] \in Shows(q)})
Answer(q, k) ==
    {<<x, state[x]>> : x \in {y \in Rows :
        /\ state[y] \in Shows(q)
        /\ q \in Paged => Ahead(q, y) \in ((k - 1) * PageSize)..(k * PageSize - 1)}}
HasMore(q, k) == q \in Paged /\ Cardinality({y \in Rows : state[y] \in Shows(q)}) > k * PageSize

\* A refetch asks for as many pages as are shown, one after the other.
Refetch(e) == [e EXCEPT !.fetch = Fetch(<<>>, IF Loaded(e) THEN Len(e.data) ELSE 1)]

Put(q, e) == cache' = [cache EXCEPT ![q] = e]

\* The observer mounts: what is not fresh is fetched, and a list never is.
Open(q) ==
    /\ ~cache[q].open
    /\ LET e == [cache[q] EXCEPT !.open = TRUE] IN
          Put(q, IF ~Fetching(e) /\ (q \notin Kept \/ e.stale \/ ~Loaded(e))
                 THEN Refetch(e) ELSE e)
    /\ UNCHANGED <<page, server, op, pushes>>

Close(q) ==
    /\ cache[q].open
    /\ Put(q, [cache[q] EXCEPT !.open = FALSE])
    /\ UNCHANGED <<page, server, op, pushes>>

\* staleTime of a search is over.
Age(q) ==
    /\ q \in Kept /\ Loaded(cache[q]) /\ ~cache[q].stale
    /\ Put(q, [cache[q] EXCEPT !.stale = TRUE])
    /\ UNCHANGED <<page, server, op, pushes>>

\* Mutant of Poll: what has been fetched once is not fetched again.
PollOnce(q) ==
    /\ q \in Lists /\ cache[q].open /\ ~Fetching(cache[q]) /\ ~Loaded(cache[q])
    /\ Put(q, Refetch(cache[q]))
    /\ UNCHANGED <<page, server, op, pushes>>

\* refetchInterval and refetchOnWindowFocus: a fetch that is under way is left alone.
Poll(q) ==
    /\ q \in Lists /\ cache[q].open /\ ~Fetching(cache[q])
    /\ Put(q, Refetch(cache[q]))
    /\ UNCHANGED <<page, server, op, pushes>>

\* The network is back: an open search that is not fresh is fetched.
Reconnect(q) ==
    /\ q \in Searches /\ cache[q].open /\ ~Fetching(cache[q])
    /\ q \in Kept => cache[q].stale
    /\ Put(q, Refetch(cache[q]))
    /\ UNCHANGED <<page, server, op, pushes>>

\* fetchNextPage, when the end of the list comes into view: it cancels a refetch.
FetchNextPage(q) ==
    /\ cache[q].open /\ Loaded(cache[q]) /\ cache[q].more
    /\ Fetching(cache[q]) => cache[q].fetch.want <= Len(cache[q].data)
    /\ Put(q, [cache[q] EXCEPT !.fetch =
                 Fetch(cache[q].data, Len(cache[q].data) + 1)])
    /\ UNCHANGED <<page, server, op, pushes>>

Complete(f) == Len(f.got) = f.want \/ ~f.more

\* The server reads the next page of a fetch.  (The endpoints read the rows and
\* their number in two queries, one here: a number that is a query newer or older
\* is corrected by the next poll.)
Serve(q) ==
    /\ Fetching(cache[q]) /\ ~Complete(cache[q].fetch)
    /\ LET f == cache[q].fetch
           k == Len(f.got) + 1 IN
          Put(q, [cache[q] EXCEPT !.fetch.got = Append(@, Answer(q, k)),
                                  !.fetch.more = HasMore(q, k)])
    /\ UNCHANGED <<page, server, op, pushes>>

\* The last answer arrives and replaces what was shown.
Arrive(q) ==
    /\ Fetching(cache[q]) /\ Complete(cache[q].fetch)
    /\ LET f == cache[q].fetch IN
          Put(q, [cache[q] EXCEPT !.data = f.got, !.more = f.more, !.old = f.old,
                                  !.missed = f.missed, !.stale = FALSE, !.fetch = NoFetch])
    /\ UNCHANGED <<page, server, op, pushes>>

FetchFails(q) ==
    /\ Fetching(cache[q])
    /\ Put(q, [cache[q] EXCEPT !.fetch = NoFetch])
    /\ UNCHANGED <<page, server, op, pushes>>

-----------------------------------------------------------------------------
(* Operations of the page.                                                 *)

Move(x, s) == /\ moves < MaxMoves
              /\ moves' = moves + 1
              /\ state' = [state EXCEPT ![x] = s]

\* The clerk picks a row that is on the screen, or enters a new one, and the
\* endpoint, which looks at the row itself, does what is asked.  (When it refuses,
\* nothing happens here.)
Operate(o, x) ==
    /\ op = NoOp
    /\ o \in Operations(page)
    /\ state[x] = "absent" \/ \E q \in On(page) : /\ cache[q].open
                                                  /\ \E i \in Listed(cache[q]) : i[1] = x
    /\ \E s \in States : <<state[x], s>> \in o.effect /\ Move(x, s)
    /\ op' = [row |-> x, filters |-> o.filters, invalidates |-> o.invalidates]
    /\ UNCHANGED <<page, cache, pushes>>

\* The answer is lost: onSuccess does not run.
AnswerLost ==
    /\ op # NoOp
    /\ op' = NoOp
    /\ UNCHANGED <<page, server, cache, pushes>>

Without(d, x) == [i \in DOMAIN d |-> {it \in d[i] : it[1] # x}]

\* setQueriesData with a filter; the entry counts as fresh.
Filtered(e, x) == IF Loaded(e) THEN [e EXCEPT !.data = Without(@, x), !.stale = FALSE] ELSE e

\* Mutant of Invalidated: a fetch that is under way will do.
InvalidatedGently(q, e) == LET i == [e EXCEPT !.stale = q \in Kept] IN
                        IF e.open /\ ~Fetching(e) THEN Refetch(i) ELSE i

\* invalidateQueries: what is on the screen is fetched anew, and a fetch that is
\* under way is cancelled, unless it is the first one.
Refetches(e) == e.open /\ (Loaded(e) \/ ~Fetching(e))
Invalidated(q, e) == LET i == [e EXCEPT !.stale = q \in Kept] IN
                     IF Refetches(e) THEN Refetch(i) ELSE i

\* The updater of a filter or of a push expects pages; the result of a search
\* is a plain array, and the updater throws on it.
Throws(qs) == \E q \in qs : q \in Searches /\ Loaded(cache[q])

\* What a search shows and what is on its way to it is old from now on.  Of the
\* latter the invalidation only reaches what it cancels: a first fetch, or one that
\* nobody watches, goes on, and React Query takes its answer for a new one.
Outdated(q, e) ==
    IF q \in Searches
    THEN [e EXCEPT !.old = Loaded(e), !.missed = FALSE,
                   !.fetch = IF Fetching(e) THEN [@ EXCEPT !.old = TRUE, !.missed = ~Refetches(e)]
                                            ELSE @]
    ELSE e

Succeed ==
    /\ op # NoOp
    /\ ~Throws(op.filters)
    /\ LET F == op.filters
           I == op.invalidates
           f == [q \in On(page) |-> IF q \in F THEN Filtered(cache[q], op.row) ELSE cache[q]]
       IN cache' = [q \in On(page) |->
                       IF q \in I THEN Invalidated(q, Outdated(q, f[q])) ELSE f[q]]
    /\ op' = NoOp
    /\ UNCHANGED <<page, server, pushes>>

\* The updater throws: the lists it met before are filtered, nothing is
\* invalidated, and the clerk is shown an error.
SucceedThrows ==
    /\ op # NoOp
    /\ Throws(op.filters)
    /\ \E F \in SUBSET (op.filters \cap Lists) :
          cache' = [q \in On(page) |-> IF q \in F THEN Filtered(cache[q], op.row) ELSE cache[q]]
    /\ op' = NoOp
    /\ UNCHANGED <<page, server, pushes>>

-----------------------------------------------------------------------------
(* The rest of the world.                                                  *)

\* Another desk, the worker or a webhook; the status of a notification is
\* pushed to the pages that are connected.
ElsewhereMoves(x, s) ==
    /\ <<state[x], s>> \in Elsewhere(page)
    /\ Move(x, s)
    /\ pushes' \in IF page = "notifications" /\ state[x] # "absent"
                   THEN {pushes, Append(pushes, <<x, s>>)} ELSE {pushes}
    /\ UNCHANGED <<page, cache, op>>

\* Mutant of Updated: the new item is made without the rest of the old one.
UpdatedBare(e, x, s) ==
    [e EXCEPT !.data = [i \in DOMAIN @ |-> {IF it[1] = x THEN <<0, s>> ELSE it : it \in @[i]}]]

Updated(e, x, s) ==
    [e EXCEPT !.data = [i \in DOMAIN @ |-> {IF it[1] = x THEN <<x, s>> ELSE it : it \in @[i]}]]

\* notification_status_updated
Pushed ==
    /\ pushes # <<>>
    /\ pushes' = Tail(pushes)
    /\ LET x == Head(pushes)[1]
           s == Head(pushes)[2]
           L == On(page) \cap Lists IN
          \E U \in IF Throws(On(page)) THEN SUBSET L ELSE {L} :
             cache' = [q \in On(page) |-> IF q \in U THEN Updated(cache[q], x, s) ELSE cache[q]]
    /\ UNCHANGED <<page, server, op>>

Next ==
    \/ \E q \in On(page) : \/ Open(q) \/ Close(q) \/ Age(q) \/ Poll(q) \/ Reconnect(q)
                           \/ FetchNextPage(q) \/ Serve(q) \/ Arrive(q) \/ FetchFails(q)
    \/ \E x \in Rows : \E o \in Operations(page) : Operate(o, x)
    \/ AnswerLost \/ Succeed \/ SucceedThrows
    \/ \E x \in Rows, s \in States : ElsewhereMoves(x, s)
    \/ Pushed

Spec == Init /\ [][Next]_vars

\* The interval of a list goes on as long as it is on the screen, and a page that
\* is asked for again and again is answered, and shown, again and again.  Nothing
\* is assumed of the clerk, of onSuccess or of the socket.
FairSpec ==
    /\ Spec
    /\ WF_vars(\E q \in On(page) \cap Lists : Poll(q))
    /\ \A k \in 1..Cardinality(Rows) :
          SF_vars(\E q \in On(page) \cap Lists : Serve(q) /\ Len(cache[q].fetch.got) = k - 1)
    /\ SF_vars(\E q \in On(page) \cap Lists : Arrive(q))

-----------------------------------------------------------------------------
(* Properties.                                                             *)

\* What is shown is what the server would answer.
Accurate(q) ==
    /\ Loaded(cache[q])
    /\ \A k \in DOMAIN cache[q].data : cache[q].data[k] = Answer(q, k)
    /\ cache[q].more = HasMore(q, Len(cache[q].data))

\* A list that stays on the screen becomes accurate and stays so once the rows
\* are left alone, whatever stale answers, filters, pushes or pages read at
\* different times it showed before.
ListOnScreen == \A q \in On(page) \cap Lists : cache[q].open
ListAccurate == \A q \in On(page) \cap Lists : Accurate(q)
ListsCatchUp == <>[]ListOnScreen => <>[]ListAccurate

\* Nothing polls a search.  After an operation of the page invalidated it, it does
\* not show an answer from before the operation as fresh, unless the invalidation
\* missed the fetch of that answer: the search was loaded for the first time, or had
\* been closed, when the operation succeeded.  Then it is fresh for five minutes.
OwnWorkSeen ==
    \A q \in On(page) \cap Kept :
        cache[q].old /\ ~cache[q].missed => cache[q].stale \/ Fetching(cache[q])
=============================================================================
