---------------------------- MODULE ScreensProofs ----------------------------
(***************************************************************************)
(* Proofs about Screens for any rows, page size, pages and moves: what the *)
(* query cache keeps is well formed whatever is fetched, filtered, pushed  *)
(* or invalidated, and a search does not pass as fresh with an answer      *)
(* older than the page's own operation that the invalidation reached.      *)
(***************************************************************************)
EXTENDS Screens, TLAPS

-----------------------------------------------------------------------------
(* The inductive invariant.                                                *)

\* What is old is also stale, and a fetch under way is not old, because the
\* invalidation that would make it so has cancelled it or missed it.
OldIsStale ==
    \A q \in On(page) \cap Kept :
        /\ cache[q].old /\ ~cache[q].missed => cache[q].stale
        /\ Fetching(cache[q]) => (cache[q].fetch.old => cache[q].fetch.missed)

IInv == TypeOK /\ OldIsStale

-----------------------------------------------------------------------------
(* The tables.                                                             *)

\* A page has no queries but the lists and the searches, and starts with a state
\* that rows can have.
LEMMA PageTables ==
    ASSUME NEW p \in CrmPages
    PROVE  On(p) \subseteq Lists \cup Searches /\ First(p) \in States
<1>1. \A s \in {"unwritten", "reserved", "issued", "owing", "live", "pending"} : s \in States
  BY DEF States, OrderStates, VisitStates, ClientStates, NotificationStates
<1>2. First(p) \in {"unwritten", "reserved", "issued", "owing", "live", "pending"}
  BY DEF CrmPages, First
<1>3. On(p) \subseteq Lists \cup Searches
  BY DEF CrmPages, On, Lists, Paged, Searches, Kept
<1> QED
  BY <1>1, <1>2, <1>3

\* The queries an operation filters and invalidates are on its page.
LEMMA OperationTargets ==
    ASSUME NEW p \in CrmPages, NEW o \in Operations(p)
    PROVE  o.filters \subseteq On(p) /\ o.invalidates \subseteq On(p)
<1>1. CASE p = "orders"
  BY <1>1 DEF Operations, Operation, On, useCreateVisit, useMarkCostumeAsWritten
<1>2. CASE p = "issue"
  BY <1>2 DEF Operations, Operation, On, useIssueVisit, useCancelVisit
<1>3. CASE p = "return"
  BY <1>3 DEF Operations, Operation, On, useCompleteReturnVisit, useUnissueVisit
<1>4. CASE p = "deposits"
  BY <1>4 DEF Operations, Operation, On, useMarkDepositReturned
<1>5. CASE p = "clients"
  BY <1>5 DEF Operations, Operation, On, OfClient, useCreateClient, useUpdateClient,
              useDeleteClient, useAddClientToBlacklist, useRemoveClientFromBlacklist
<1>6. CASE p = "costumes"
  BY <1>6 DEF Operations, Operation, On, useCreateCostume, useUpdateCostume, useDeleteCostume
<1>7. CASE p = "notifications"
  BY <1>7 DEF Operations
<1> QED
  BY <1>1, <1>2, <1>3, <1>4, <1>5, <1>6, <1>7 DEF CrmPages

-----------------------------------------------------------------------------
(* What the operators of the cache return.                                 *)

LEMMA EmptyType == Empty \in Entries
BY DEF Empty, Entries

LEMMA FetchType ==
    ASSUME NEW got \in Seq(SUBSET Items), NEW want \in Nat \ {0}
    PROVE  /\ Fetch(got, want) \in Fetches /\ Fetch(got, want) # NoFetch
           /\ ~Fetch(got, want).old
BY DEF Fetch, Fetches, NoFetch

\* A fetch that is under way has pages, a number of pages and two flags.
LEMMA FetchingType ==
    ASSUME NEW e \in Entries, Fetching(e)
    PROVE  e.fetch \in Fetches
BY DEF Entries, Fetching

\* A refetch asks for a page at least and touches nothing that is shown.
LEMMA RefetchType ==
    ASSUME NEW e \in Entries
    PROVE  /\ Refetch(e) \in Entries
           /\ Refetch(e).old = e.old /\ Refetch(e).missed = e.missed
           /\ Refetch(e).stale = e.stale
           /\ Fetching(Refetch(e)) /\ ~Refetch(e).fetch.old
<1> DEFINE want == IF Loaded(e) THEN Len(e.data) ELSE 1
<1>1. want \in Nat \ {0}
  BY DEF Entries, Loaded
<1>2. Refetch(e) = [e EXCEPT !.fetch = Fetch(<<>>, want)]
  BY DEF Refetch
<1> HIDE DEF want
<1>3. /\ Fetch(<<>>, want) \in Fetches /\ Fetch(<<>>, want) # NoFetch
      /\ ~Fetch(<<>>, want).old
  <2>1. <<>> \in Seq(SUBSET Items)
    OBVIOUS
  <2> QED
    BY <1>1, <2>1, FetchType
<1> QED
  BY <1>2, <1>3 DEF Entries, Fetching

\* A row that is taken out of the pages leaves pages of items.
LEMMA WithoutType ==
    ASSUME NEW d \in Seq(SUBSET Items), NEW x
    PROVE  Without(d, x) \in Seq(SUBSET Items)
BY DEF Without

LEMMA FilteredType ==
    ASSUME NEW e \in Entries, NEW x
    PROVE  /\ Filtered(e, x) \in Entries
           /\ ~Loaded(e) => Filtered(e, x) = e
BY WithoutType DEF Filtered, Entries

LEMMA InvalidatedType ==
    ASSUME NEW e \in Entries, NEW q
    PROVE  /\ Invalidated(q, e) \in Entries
           /\ (q \in Kept => Invalidated(q, e).stale)
           /\ \/ Fetching(Invalidated(q, e)) /\ ~Invalidated(q, e).fetch.old
              \/ ~Refetches(e) /\ Invalidated(q, e).fetch = e.fetch
<1> DEFINE b == q \in Kept
           i == [e EXCEPT !.stale = b]
<1>1. b \in BOOLEAN /\ (q \in Kept => b)
  OBVIOUS
<1>2. Invalidated(q, e) = IF Refetches(e) THEN Refetch(i) ELSE i
  BY DEF Invalidated
<1> HIDE DEF b
<1>3. i \in Entries /\ i.stale = b /\ i.fetch = e.fetch
  BY <1>1 DEF Entries
<1> HIDE DEF i
<1> QED
  BY <1>1, <1>2, <1>3, RefetchType

\* An outdated entry is well formed, and a fetch of it that is old was missed unless
\* it is about to be replaced.
LEMMA OutdatedType ==
    ASSUME NEW e \in Entries, NEW q
    PROVE  /\ Outdated(q, e) \in Entries
           /\ Outdated(q, e).data = e.data /\ Outdated(q, e).open = e.open
           /\ Fetching(Outdated(q, e)) <=> Fetching(e)
           /\ \/ Outdated(q, e).fetch = e.fetch
              \/ Refetches(e)
              \/ Outdated(q, e).fetch.missed
<1>1. CASE q \notin Searches
  BY <1>1 DEF Outdated
<1>2. CASE q \in Searches /\ Fetching(e)
  <2> DEFINE miss == ~Refetches(e)
             f == [e.fetch EXCEPT !.old = TRUE, !.missed = miss]
             old == Loaded(e)
  <2>1. e.fetch \in Fetches
    BY <1>2, FetchingType
  <2>2. Outdated(q, e) = [e EXCEPT !.old = old, !.missed = FALSE, !.fetch = f]
    BY <1>2 DEF Outdated, Entries
  <2>3. miss \in BOOLEAN /\ old \in BOOLEAN /\ (~miss => Refetches(e))
    BY DEF Loaded
  <2> HIDE DEF miss, old
  <2>4. f \in Fetches /\ f # NoFetch /\ f.missed = miss
    BY <2>1, <2>3 DEF Fetches, NoFetch
  <2> HIDE DEF f
  <2> DEFINE o == [e EXCEPT !.old = old, !.missed = FALSE, !.fetch = f]
  <2>5. o \in Entries /\ o.data = e.data /\ o.open = e.open /\ o.fetch = f
    BY <2>3, <2>4 DEF Entries
  <2>6. Outdated(q, e) = o
    BY <2>2
  <2> HIDE DEF o
  <2> QED
    BY <1>2, <2>3, <2>4, <2>5, <2>6 DEF Fetching
<1>3. CASE q \in Searches /\ ~Fetching(e)
  <2>1. Outdated(q, e) = [e EXCEPT !.old = Loaded(e), !.missed = FALSE]
    BY <1>3 DEF Outdated, Entries
  <2> QED
    BY <1>3, <2>1 DEF Entries, Fetching, Loaded
<1> QED
  BY <1>1, <1>2, <1>3

\* A push puts an item of the same row in place of each item it meets.
LEMMA UpdatedType ==
    ASSUME NEW e \in Entries, NEW x \in Rows, NEW s \in States
    PROVE  /\ Updated(e, x, s) \in Entries
           /\ Updated(e, x, s).old = e.old /\ Updated(e, x, s).missed = e.missed
           /\ Updated(e, x, s).stale = e.stale
           /\ Updated(e, x, s).fetch = e.fetch
<1> DEFINE d == [i \in DOMAIN e.data |-> {IF it[1] = x THEN <<x, s>> ELSE it : it \in e.data[i]}]
<1>1. e.data \in Seq(SUBSET Items) /\ <<x, s>> \in Items
  BY DEF Entries, Items
<1>2. d \in Seq(SUBSET Items)
  <2>1. ASSUME NEW i \in DOMAIN e.data
        PROVE  d[i] \in SUBSET Items
    <3>1. e.data[i] \in SUBSET Items
      BY <1>1
    <3> QED
      BY <1>1, <3>1
  <2>2. Len(e.data) \in Nat /\ DOMAIN e.data = 1..Len(e.data)
    BY <1>1
  <2> HIDE DEF d
  <2>3. DOMAIN d = DOMAIN e.data /\ d = [i \in DOMAIN e.data |-> d[i]]
    BY DEF d
  <2>4. d \in [1..Len(e.data) -> SUBSET Items]
    BY <2>1, <2>2, <2>3
  <2> QED
    BY <2>2, <2>4
<1>3. Updated(e, x, s) = [e EXCEPT !.data = d]
  BY DEF Updated, Entries
<1> HIDE DEF d
<1> QED
  BY <1>2, <1>3 DEF Entries

\* The server answers with rows in the states they are in.
LEMMA AnswerType ==
    ASSUME TypeOK, NEW q, NEW k
    PROVE  Answer(q, k) \in SUBSET Items /\ HasMore(q, k) \in BOOLEAN
BY DEF TypeOK, Answer, Items, HasMore

-----------------------------------------------------------------------------
(* The steps.                                                              *)

\* An entry is sound: well formed, and old only if it is stale or was missed.
Sound(q, e) == /\ e \in Entries
               /\ q \in Kept => /\ e.old /\ ~e.missed => e.stale
                                /\ Fetching(e) => (e.fetch.old => e.fetch.missed)

LEMMA SoundCache ==
    ASSUME IInv, NEW q \in On(page)
    PROVE  Sound(q, cache[q])
BY DEF IInv, TypeOK, OldIsStale, Sound

LEMMA PageKnown == IInv => page \in CrmPages
BY ScreenConstants DEF IInv, TypeOK

\* A step that puts sound entries in place of sound entries and leaves the rest alone.
LEMMA SoundStep ==
    ASSUME IInv, UNCHANGED page, NEW f, cache' = [q \in On(page) |-> f[q]],
           \A q \in On(page) : Sound(q, f[q])
    PROVE  cache' \in [On(page)' -> Entries] /\ OldIsStale'
BY DEF Sound, OldIsStale

LEMMA PutStep ==
    ASSUME IInv, UNCHANGED <<page, server, op, pushes>>, NEW q \in On(page), NEW e,
           Put(q, e), Sound(q, e)
    PROVE  IInv'
<1> DEFINE f == [cache EXCEPT ![q] = e]
<1>1. cache \in [On(page) -> Entries]
  BY DEF IInv, TypeOK
<1>2. cache' = [r \in On(page) |-> f[r]]
  BY <1>1 DEF Put
<1>3. ASSUME NEW r \in On(page)
      PROVE  Sound(r, f[r])
  BY <1>1, SoundCache
<1> HIDE DEF f
<1>4. cache' \in [On(page)' -> Entries] /\ OldIsStale'
  BY <1>2, <1>3, SoundStep
<1> QED
  BY <1>4 DEF IInv, TypeOK, server

LEMMA OpenStep ==
    ASSUME IInv, NEW q \in On(page), Open(q)
    PROVE  IInv'
<1> DEFINE e == [cache[q] EXCEPT !.open = TRUE]
<1>1. Sound(q, cache[q])
  BY SoundCache
<1>2. Sound(q, e)
  BY <1>1 DEF Sound, Entries, Fetching
<1> HIDE DEF e
<1>3. Sound(q, Refetch(e))
  BY <1>2, RefetchType DEF Sound
<1>4. Put(q, e) \/ Put(q, Refetch(e))
  BY DEF Open, e
<1> QED
  BY <1>2, <1>3, <1>4, PutStep DEF Open

LEMMA CloseAgeStep ==
    ASSUME IInv, NEW q \in On(page), Close(q) \/ Age(q)
    PROVE  IInv'
<1> DEFINE closed == [cache[q] EXCEPT !.open = FALSE]
           aged == [cache[q] EXCEPT !.stale = TRUE]
<1>1. Sound(q, cache[q])
  BY SoundCache
<1>2. Sound(q, closed) /\ Sound(q, aged)
  BY <1>1 DEF Sound, Entries, Fetching
<1>3. Put(q, closed) \/ Put(q, aged)
  BY DEF Close, Age
<1>4. UNCHANGED <<page, server, op, pushes>>
  BY DEF Close, Age
<1> HIDE DEF closed, aged
<1> QED
  BY <1>2, <1>3, <1>4, PutStep

LEMMA RefetchStep ==
    ASSUME IInv, NEW q \in On(page), Poll(q) \/ Reconnect(q)
    PROVE  IInv'
<1>1. Sound(q, cache[q])
  BY SoundCache
<1>2. Sound(q, Refetch(cache[q]))
  BY <1>1, RefetchType DEF Sound
<1>3. Put(q, Refetch(cache[q])) /\ UNCHANGED <<page, server, op, pushes>>
  BY DEF Poll, Reconnect
<1> QED
  BY <1>2, <1>3, PutStep

\* An entry with another fetch, or with none.
LEMMA FetchReplaced ==
    ASSUME NEW q, NEW e, Sound(q, e), NEW f \in Fetches \cup {NoFetch}, f # NoFetch => ~f.old
    PROVE  Sound(q, [e EXCEPT !.fetch = f])
BY DEF Sound, Entries, Fetching

LEMMA FetchNextPageStep ==
    ASSUME IInv, NEW q \in On(page), FetchNextPage(q)
    PROVE  IInv'
<1> DEFINE d == cache[q].data
           want == Len(d) + 1
           f == Fetch(d, want)
<1>1. Sound(q, cache[q])
  BY SoundCache
<1>2. d \in Seq(SUBSET Items) /\ want \in Nat \ {0}
  BY <1>1 DEF Sound, Entries
<1>3. Put(q, [cache[q] EXCEPT !.fetch = f]) /\ UNCHANGED <<page, server, op, pushes>>
  BY DEF FetchNextPage
<1> HIDE DEF d, want
<1>4. f \in Fetches /\ f # NoFetch /\ ~f.old
  BY <1>2, FetchType
<1> HIDE DEF f
<1>5. Sound(q, [cache[q] EXCEPT !.fetch = f])
  BY <1>1, <1>4, FetchReplaced
<1> QED
  BY <1>3, <1>5, PutStep

LEMMA ServeStep ==
    ASSUME IInv, NEW q \in On(page), Serve(q)
    PROVE  IInv'
<1> DEFINE f == cache[q].fetch
           k == Len(f.got) + 1
           a == Answer(q, k)
           m == HasMore(q, k)
           g == [f EXCEPT !.got = Append(f.got, a), !.more = m]
<1>1. Sound(q, cache[q]) /\ Fetching(cache[q])
  BY SoundCache DEF Serve
<1>2. f \in Fetches /\ (q \in Kept => (f.old => f.missed))
  BY <1>1, FetchingType DEF Sound
<1>3. a \in SUBSET Items /\ m \in BOOLEAN
  BY AnswerType DEF IInv
<1>4. Put(q, [cache[q] EXCEPT !.fetch = g]) /\ UNCHANGED <<page, server, op, pushes>>
  BY <1>1, <1>2 DEF Serve, Sound, Entries, Fetches
<1> HIDE DEF a, m, k, f
<1>5. g \in Fetches /\ g.old = f.old /\ g.missed = f.missed
  <2>1. f.got \in Seq(SUBSET Items)
    BY <1>2 DEF Fetches
  <2>2. Append(f.got, a) \in Seq(SUBSET Items)
    BY <1>3, <2>1
  <2> DEFINE got == Append(f.got, a)
  <2> HIDE DEF got
  <2>3. [f EXCEPT !.got = got, !.more = m] \in Fetches
        /\ [f EXCEPT !.got = got, !.more = m].old = f.old
        /\ [f EXCEPT !.got = got, !.more = m].missed = f.missed
    BY <1>2, <1>3, <2>2 DEF Fetches, got
  <2> QED
    BY <2>3 DEF got
<1>6. g # NoFetch
  BY <1>5 DEF Fetches, NoFetch
<1>7. Sound(q, [cache[q] EXCEPT !.fetch = g])
  <2>1. q \in Kept => (g.old => g.missed)
    BY <1>2, <1>5
  <2> HIDE DEF g
  <2> QED
    BY <1>1, <1>5, <2>1 DEF Sound, Entries, Fetching
<1> HIDE DEF g
<1> QED
  BY <1>4, <1>7, PutStep

LEMMA ArriveStep ==
    ASSUME IInv, NEW q \in On(page), Arrive(q)
    PROVE  IInv'
<1> DEFINE f == cache[q].fetch
           e == [cache[q] EXCEPT !.data = f.got, !.more = f.more, !.old = f.old,
                                 !.missed = f.missed, !.stale = FALSE, !.fetch = NoFetch]
<1>1. Sound(q, cache[q]) /\ Fetching(cache[q])
  BY SoundCache DEF Arrive
<1>2. f \in Fetches /\ (q \in Kept => (f.old => f.missed))
  BY <1>1, FetchingType DEF Sound
<1>3. Put(q, e) /\ UNCHANGED <<page, server, op, pushes>>
  BY DEF Arrive
<1> HIDE DEF f
<1>4. Sound(q, e)
  BY <1>1, <1>2 DEF Sound, Entries, Fetches, Fetching
<1> HIDE DEF e
<1> QED
  BY <1>3, <1>4, PutStep

LEMMA FetchFailsStep ==
    ASSUME IInv, NEW q \in On(page), FetchFails(q)
    PROVE  IInv'
<1>1. Sound(q, [cache[q] EXCEPT !.fetch = NoFetch])
  BY SoundCache, FetchReplaced
<1>2. Put(q, [cache[q] EXCEPT !.fetch = NoFetch]) /\ UNCHANGED <<page, server, op, pushes>>
  BY DEF FetchFails
<1> QED
  BY <1>1, <1>2, PutStep

\* An operation is about a row of the page and reaches queries of the page.
LEMMA OperateStep ==
    ASSUME IInv, NEW x \in Rows, NEW o \in Operations(page), Operate(o, x)
    PROVE  IInv'
<1>1. page \in CrmPages
  BY PageKnown
<1>2. o.filters \subseteq On(page) /\ o.invalidates \subseteq On(page)
  BY <1>1, OperationTargets
<1>3. /\ op' = [row |-> x, filters |-> o.filters, invalidates |-> o.invalidates]
      /\ UNCHANGED <<page, cache, pushes>>
      /\ \E s \in States : Move(x, s)
  BY DEF Operate
<1>4. state' \in [Rows -> States] /\ moves' \in 0..MaxMoves
  BY <1>3, ScreenConstants DEF IInv, TypeOK, Move
<1>5. op' \in [row : Rows, filters : SUBSET On(page), invalidates : SUBSET On(page)]
  BY <1>2, <1>3
<1> QED
  BY <1>3, <1>4, <1>5 DEF IInv, TypeOK, OldIsStale

\* onSuccess: only a search that is not loaded may be filtered, and that leaves it alone;
\* one that is invalidated is stale, and a fetch of it that is old is replaced or missed.
LEMMA SucceedStep ==
    ASSUME IInv, Succeed
    PROVE  IInv'
<1> DEFINE F == op.filters
           I == op.invalidates
           f == [q \in On(page) |-> IF q \in F THEN Filtered(cache[q], op.row) ELSE cache[q]]
           g == [q \in On(page) |-> IF q \in I THEN Invalidated(q, Outdated(q, f[q])) ELSE f[q]]
<1>1. /\ cache' = [q \in On(page) |-> g[q]]
      /\ op' = NoOp /\ UNCHANGED <<page, server, pushes>>
      /\ ~Throws(op.filters)
  BY DEF Succeed
<1>2. ASSUME NEW q \in On(page)
      PROVE  Sound(q, f[q])
  <2>1. Sound(q, cache[q]) /\ cache[q] \in Entries
    BY SoundCache DEF Sound
  <2>2. CASE q \in F
    <3>1. Filtered(cache[q], op.row) \in Entries
          /\ (~Loaded(cache[q]) => Filtered(cache[q], op.row) = cache[q])
      BY <2>1, FilteredType
    <3>2. q \in Kept => ~Loaded(cache[q])
      BY <1>1, <2>2 DEF Throws, Searches
    <3> QED
      BY <2>1, <2>2, <3>1, <3>2 DEF Sound
  <2>3. CASE q \notin F
    BY <2>1, <2>3
  <2> QED
    BY <2>2, <2>3
<1> HIDE DEF f
<1>3. ASSUME NEW q \in On(page)
      PROVE  Sound(q, g[q])
  <2>1. Sound(q, f[q]) /\ f[q] \in Entries
    BY <1>2 DEF Sound
  <2> DEFINE e == f[q]
             o == Outdated(q, e)
  <2>2. CASE q \in I
    <3>1. /\ o \in Entries /\ o.data = e.data /\ o.open = e.open
          /\ Fetching(o) <=> Fetching(e)
          /\ o.fetch = e.fetch \/ Refetches(e) \/ o.fetch.missed
      BY <2>1, OutdatedType
    <3>2. Refetches(o) <=> Refetches(e)
      BY <3>1 DEF Refetches, Loaded
    <3> HIDE DEF o
    <3>3. /\ Invalidated(q, o) \in Entries /\ (q \in Kept => Invalidated(q, o).stale)
          /\ \/ Fetching(Invalidated(q, o)) /\ ~Invalidated(q, o).fetch.old
             \/ ~Refetches(o) /\ Invalidated(q, o).fetch = o.fetch
      BY <3>1, InvalidatedType
    <3>4. g[q] = Invalidated(q, o)
      BY <2>2 DEF o
    <3> HIDE DEF e, g
    <3>5. Sound(q, e)
      BY <2>1 DEF e
    <3> QED
      BY <3>1, <3>2, <3>3, <3>4, <3>5 DEF Sound, Fetching
  <2>3. CASE q \notin I
    BY <2>1, <2>3
  <2> QED
    BY <2>2, <2>3
<1> HIDE DEF g
<1>4. cache' \in [On(page)' -> Entries] /\ OldIsStale'
  BY <1>1, <1>3, SoundStep
<1> QED
  BY <1>1, <1>4 DEF IInv, TypeOK, server

LEMMA SucceedThrowsStep ==
    ASSUME IInv, SucceedThrows
    PROVE  IInv'
<1>1. PICK F \in SUBSET (op.filters \cap Lists) :
          cache' = [q \in On(page) |-> IF q \in F THEN Filtered(cache[q], op.row) ELSE cache[q]]
  BY DEF SucceedThrows
<1>2. op' = NoOp /\ UNCHANGED <<page, server, pushes>>
  BY DEF SucceedThrows
<1> DEFINE f == [q \in On(page) |-> IF q \in F THEN Filtered(cache[q], op.row) ELSE cache[q]]
<1>3. ASSUME NEW q \in On(page)
      PROVE  Sound(q, f[q])
  <2>1. Sound(q, cache[q]) /\ cache[q] \in Entries
    BY SoundCache DEF Sound
  <2>2. CASE q \in F
    <3>1. q \notin Kept
      BY <2>2 DEF Lists, Paged, Kept
    <3>2. Filtered(cache[q], op.row) \in Entries
      BY <2>1, FilteredType
    <3> QED
      BY <2>2, <3>1, <3>2 DEF Sound
  <2> QED
    BY <2>1, <2>2
<1>4. cache' = [q \in On(page) |-> f[q]]
  BY <1>1
<1> HIDE DEF f
<1>5. cache' \in [On(page)' -> Entries] /\ OldIsStale'
  BY <1>2, <1>3, <1>4, SoundStep
<1> QED
  BY <1>2, <1>5 DEF IInv, TypeOK, server

LEMMA ElsewhereStep ==
    ASSUME IInv, NEW x \in Rows, NEW s \in States, ElsewhereMoves(x, s)
    PROVE  IInv'
<1>1. UNCHANGED <<page, cache, op>> /\ Move(x, s)
      /\ (pushes' = pushes \/ pushes' = Append(pushes, <<x, s>>))
  BY DEF ElsewhereMoves
<1>2. state' \in [Rows -> States] /\ moves' \in 0..MaxMoves
  BY <1>1, ScreenConstants DEF IInv, TypeOK, Move
<1> DEFINE it == <<x, s>>
<1>3. it \in Items /\ (pushes' = pushes \/ pushes' = Append(pushes, it))
  BY <1>1 DEF Items
<1> HIDE DEF it
<1>4. pushes' \in Seq(Items)
  <2>1. pushes \in Seq(Items)
    BY DEF IInv, TypeOK
  <2>2. Append(pushes, it) \in Seq(Items)
    BY <1>3, <2>1
  <2> QED
    BY <1>3, <2>1, <2>2
<1> QED
  BY <1>1, <1>2, <1>4 DEF IInv, TypeOK, OldIsStale

LEMMA PushedStep ==
    ASSUME IInv, Pushed
    PROVE  IInv'
<1>1. pushes \in Seq(Items) /\ pushes # <<>> /\ pushes' = Tail(pushes)
      /\ UNCHANGED <<page, server, op>>
  BY DEF IInv, TypeOK, Pushed
<1>2. Head(pushes) \in Items /\ pushes' \in Seq(Items)
  BY <1>1
<1> DEFINE x == Head(pushes)[1]
           s == Head(pushes)[2]
<1>3. x \in Rows /\ s \in States
  BY <1>2 DEF Items
<1>4. PICK U : cache' = [q \in On(page) |-> IF q \in U THEN Updated(cache[q], x, s) ELSE cache[q]]
  BY DEF Pushed
<1> HIDE DEF x, s
<1> DEFINE f == [q \in On(page) |-> IF q \in U THEN Updated(cache[q], x, s) ELSE cache[q]]
<1>5. ASSUME NEW q \in On(page)
      PROVE  Sound(q, f[q])
  <2>1. Sound(q, cache[q]) /\ cache[q] \in Entries
    BY SoundCache DEF Sound
  <2>2. /\ Updated(cache[q], x, s) \in Entries
        /\ Updated(cache[q], x, s).old = cache[q].old
        /\ Updated(cache[q], x, s).missed = cache[q].missed
        /\ Updated(cache[q], x, s).stale = cache[q].stale
        /\ Updated(cache[q], x, s).fetch = cache[q].fetch
    BY <1>3, <2>1, UpdatedType
  <2>3. Sound(q, Updated(cache[q], x, s))
    BY <2>1, <2>2 DEF Sound, Fetching
  <2> QED
    BY <2>1, <2>3
<1>6. cache' = [q \in On(page) |-> f[q]]
  BY <1>4
<1> HIDE DEF f
<1>7. cache' \in [On(page)' -> Entries] /\ OldIsStale'
  BY <1>1, <1>5, <1>6, SoundStep
<1> QED
  BY <1>1, <1>2, <1>7 DEF IInv, TypeOK, server

-----------------------------------------------------------------------------
(* The theorems.                                                           *)

LEMMA InitIInv == Init => IInv
<1> SUFFICES ASSUME Init PROVE IInv
  OBVIOUS
<1>1. page \in Pages /\ page \in CrmPages
  BY ScreenConstants DEF Init
<1>2. First(page) \in States /\ "absent" \in States
  BY <1>1, PageTables DEF States
<1>3. state \in [Rows -> States]
  BY <1>2 DEF Init
<1>4. moves \in 0..MaxMoves
  BY ScreenConstants DEF Init
<1>5. cache \in [On(page) -> Entries]
  BY EmptyType DEF Init
<1>6. OldIsStale
  BY DEF Init, OldIsStale, Empty, Fetching
<1> QED
  BY <1>1, <1>3, <1>4, <1>5, <1>6 DEF IInv, TypeOK, Init

LEMMA NextIInv == IInv /\ [Next]_vars => IInv'
<1> SUFFICES ASSUME IInv, [Next]_vars PROVE IInv'
  OBVIOUS
<1>1. CASE UNCHANGED vars
  BY <1>1 DEF vars, IInv, TypeOK, OldIsStale
<1>2. ASSUME AnswerLost
      PROVE  IInv'
  BY <1>2 DEF AnswerLost, IInv, TypeOK, OldIsStale, server
<1>3. CASE Next
  BY <1>2, <1>3, OpenStep, CloseAgeStep, RefetchStep, FetchNextPageStep, ServeStep, ArriveStep,
     FetchFailsStep, OperateStep, SucceedStep, SucceedThrowsStep, ElsewhereStep, PushedStep
     DEF Next
<1> QED
  BY <1>1, <1>3

\* The invariant that the theorems of this module rest on.
THEOREM Invariance == Spec => []IInv
BY InitIInv, NextIInv, PTL DEF Spec

\* Whatever polls, pages, filters, invalidations and pushes meet in the query cache, its
\* entries show items of the rows of the page, and an operation is about one of these.
THEOREM ScreensTypeCorrect == Spec => []TypeOK
<1>1. IInv => TypeOK
  BY DEF IInv
<1> QED
  BY <1>1, Invariance, PTL

\* After an operation of the page invalidated a search, nothing from before the operation
\* is shown as fresh, but for the answer to a fetch that the invalidation missed because it
\* was the first one or nobody watched it.
THEOREM OwnWorkAlwaysSeen == Spec => []OwnWorkSeen
<1>1. IInv => OwnWorkSeen
  BY DEF IInv, OldIsStale, OwnWorkSeen
<1> QED
  BY <1>1, Invariance, PTL
=============================================================================
