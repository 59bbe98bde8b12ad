# Verification of the costume rental CRM

This directory holds TLA+ models of the costume rental CRM - its backend
(`apps/backend`, NestJS over Postgres, Redis, BullMQ and the Green-API WhatsApp
gateway) and the caches and interceptors of its pages (`apps/crm-frontend`) -, the TLC configurations that check them, and TLAPS proofs about them.
`S` below stands for `apps/backend/src/visit-order/visit-order.sevice.ts`,
`N` for `apps/backend/src/notification/notification.service.ts`.

## 1. Inventory

| Component | State | Operations | What is hard | What makes it correct |
|---|---|---|---|---|
| Visit lifecycle (`VisitOrderService`, write side) | rows of `visits`, `orders`, `deposits` | issue, un-issue, complete return, cancel, give a deposit back, mark a tag | every handler reads, checks, then writes by id under READ COMMITTED; two desks interleave; notes are written back from the read | the three tables agree; a deposit is never lost; status moves only where the handler's message says it may |
| Payment split (`visitIssue`) | `finalPayment` of each order | distribute the additional payment | order of rows is unspecified, remainders, over- and underpayment | nothing is paid twice, no order is paid beyond its debt, nothing is kept back while a debt is open |
| Booking (`generatePreviewCode`, `createVisit`) | Redis `visit_code_lock:*` with a 15 minute TTL, `visits.visit_code`, orders | preview a code, create a visit | lock not bound to its owner, check and insert are separate, TTL expiry, crash after commit, queue failure after commit | one visit per code; a costume is promised to one client at a time |
| Notification delivery (`NotificationService`, processor, BullMQ queue) | `notifications`, the BullMQ job, messages at Green-API | send with 10 attempts, webhooks for outgoing status, incoming "да", manual resend, phone update and resend | at-least-once jobs, worker crash between send and update, reordered and repeated webhooks, read-then-write status updates, same job id for a resend | the status never goes back; a resend is really sent; no notification waits for ever |
| WhatsApp instance status | Redis status and timestamp | webhook, start-up sync, gateway connection | check of the timestamp and write are separate; reordered webhooks | the newest known state wins |
| Idempotency interceptor | Redis record per (user, key) | intercept, store, replay, remove on error | crash while `processing`, writes that nobody waits for, a retry that races the answer | a request with the same key runs at most once; a failed one can be retried |
| Auth sessions (`AuthService`) | Redis `rf:<user>` (hash of one refresh token) | login, refresh, logout | get-compare-set without a lock, one session per user, parallel 401s of the frontend | a token that was used or revoked is not accepted; a logout lasts |
| Clients and children, blacklist | `clients`, `children` | CRUD with soft delete, blacklist | find-then-create on the phone without a unique index | one live client per phone |
| Costumes | `costumes`, database function for inventory codes | CRUD with soft delete, availability search | availability is computed by three queries with different conditions; code padded to four digits | the search offers only what `createVisit` accepts |
| Real-time feed (`NotificationGateway`, `socket.client.ts`) | connected sockets, React Query caches | push of statuses, resend and phone update over the socket | client cache patched from partial messages, 5 s client timeout | the screen converges to the database |
| CRM pages: lists, searches and hooks (React Query) | one cache entry per list or search, fetches under way, mutations under way | open, page on, poll, run an operation, filter and invalidate in `onSuccess`, reconnect | a stale answer arrives after an operation; pages of a list are read at different times; an updater throws; nothing polls a search | a list that stays on the screen catches up with the server; the clerk's own work is not hidden by an older answer |
| Axios interceptors, auth store | access token and `isAuth` of the page | refresh on 401, repeat the request, sign out | parallel refreshes, lost answers, reloads | a 401 leads to one refresh and one repetition; a page signs out only if its session is gone |
| Read endpoints (lists and searches of visits, clients, costumes) | none | queries | - | no state |
| DTOs, validation, filters, logging, config, Prisma generated code, seed, deployment | none | - | - | plumbing |

Interactions: the controllers call the services; `VisitOrderService.createVisit`
creates the notification row and queues its job; the BullMQ worker calls
`NotificationService`; Green-API calls the webhook controller; the gateway pushes
statuses to the browsers; every mutating request passes the idempotency
interceptor and the JWT guard. All shared state is in Postgres and Redis, so the
backend can be restarted at any step (`restart: always` in the compose file).

## 2. Plan

Done, in the order of importance:

1. `VisitContract`, `VisitLifecycle` - the state of a rented visit; proofs in
   `VisitLifecycleProofs`.
2. `CostumeCalendar`, `Booking` - preview codes, locks, `createVisit`; `BookingProofs`.
3. `PaymentContract`, `PaymentSplit` - the final payment; `PaymentProofs`.
4. `NotificationDelivery` - sending, webhooks and resends; `NotificationProofs` and
   `NotificationSerialProofs`.
5. `Idempotency` - the interceptor in front of every write; `IdempotencyProofs`.
6. `AuthSession` - login, refresh and logout on the one Redis key of a user, with
   the parallel refreshes of `interceptors.ts`; `AuthSessionProofs`.
7. `Screens` - the lists and searches of the CRM over the read endpoints, with
   what operations and pushes do to the query cache; `ScreensProofs`.

What could follow:

8. `InstanceStatus` - the check of the timestamp and the two writes of
   `handleInstanceStateChange`. `NotificationDelivery` lets the status change at
   any moment, so nothing there depends on it.
9. `ClientRegistry` - find-then-create on the phone without a unique index.
10. `Booking` and `VisitLifecycle` over the same rows, and `searchCostumeAvailable`
    against `isSuitAvailability`.

## 3. The models

Conventions. A table is a function from ids to records, a missing row a record of
its own (`NoVisit`, `NoDeposit`). An HTTP handler is a record per concurrent
request that keeps what the handler has read; every `await` ends an action, and
what a transaction writes is one action unless its statements can be seen apart.
Definitions that carry the word mutant in their comment are not part of a model:
each is a plausible slip in one operator, and putting it in the operator's place
must break the property it is listed with in `PROJECT.json`.

### VisitLifecycle (contract: VisitContract)

State: the columns `status`, `notes` of `visits`, `status`, `finalPayment`,
`tagStatus` of `orders`, the row of `deposits` with its autoincrement id, and
`req`, the handlers in progress. Amounts are abstracted to paid / not paid (the
amounts are `PaymentSplit`'s), notes to the set of entries they hold.

`Begin` is the first read of `visitIssue`, `visitUnissue`, `visitCompleteReturn`,
`visitCancel` and `MarkDepositReturned`; `ReadOrders` and `ReadDeposit` are the
further queries Prisma issues for `include`. `Issue`, `Unissue`, `CompleteReturn`,
`Cancel` and `MarkDepositReturned` are the checks and the transaction: under READ
COMMITTED, with `where: { id }` only, they write whatever happened since the read.
`Fail` is every error path. `deposits.visitId` is unique, so `Issue` can commit only
when there is no deposit row.

- `visit_race` (one visit, two orders, two requests, two deposit ids): what no race
  can break - orders have the status that goes with their visit, an issued visit has
  its deposit row and payments, a reserved one has neither, and a deposit row is only
  marked or deleted with the un-issue. Two requests suffice because a stale read is
  a pair of a reader and a writer; the second deposit id is what a re-created
  deposit needs.
- `visit_serial` (two visits, one request): the handlers implement `VisitContract`,
  unreturned deposits stay in some list of the application, payments follow visits,
  notes are kept. These fail with two requests at once, hence the split.
- `moves_as_told` (violation): cancel and issue of one visit interleave and the
  issued visit becomes cancelled, although the handler says that only a reserved one
  can be. `visitCompleteReturn` (S:844) and `visitUnissue` (S:426) have the same shape.

### Booking (abstract: CostumeCalendar)

State: `lock` (the Redis keys `visit_code_lock:*`), `visits` by their unique code,
`jobs`, and `desk`, one request chain per browser: preview a code, submit the visit.
`DrawCode`, `CheckUsed`, `ClaimCode`, `GiveUp` are the loop of `generatePreviewCode`
(`DrawCode` draws a code and looks at its lock; drawing stops after `MaxAttempts`).
`Submit` checks the period and the lock, `CheckAvailability` the costumes,
`InsertVisit` is the transaction, `ReleaseLock` and `Enqueue` what follows it;
`CreateFails` and `PreviewFails` leave the handler at any of its calls. `Expire`
deletes any lock at any time, which stands for the 15 minutes whatever their
length. `CancelVisit` and `IssueCancelled` are what `visitCancel` and `visitIssue` do to the
promises of a visit, at a desk that is not creating one: the first frees its costumes, the
second, which refuses only visits that are issued (S:371), takes them up again without
looking for conflicts. The status "reissued" remembers that a visit came back that way.

- `booking_serial` (one desk, three codes, two costumes, six wishes whose periods
  meet, overlap, contain one another or are the wrong way round): no costume is
  promised twice, except to a visit that was issued after its cancellation, and booking
  implements the calendar. The calendar's moves are `Book`, of what nobody holds, `Drop`
  and `TakeUp`.
- `booking_race` (two desks, two codes, two attempts): rows are never replaced, jobs
  name committed visits, previews are answered (that each of their calls brings the answer nearer,
  `PreviewProgress`, is proved). Fairness: weak fairness of
  each desk's preview steps - the event loop goes on with a request whose call to
  Redis or Postgres was answered. Two codes make the codes run out.
- `double_booking_race` (violation): two desks pass the availability check before
  either inserts.

One desk alone can promise a costume twice in two ways. It cancels a visit, books the
costume for the same period and issues the cancelled visit after all: this is the
exception of `NoDoubleBooking` and the reason why the calendar has `TakeUp`. (Once the
visit is back, new bookings respect it.) And a request that names one costume in two orders it
twice: the orders are compared with the database, not with each other, and the form does
not refuse it. The serial properties are therefore about requests that name each
costume once (`EachOnce`).

### PaymentSplit (contract: PaymentContract)

State: rents and prepayments of the orders, the committed `finalPayment`s, the
additional payment, and the transaction in progress. `BeginIssue` takes the amount the
modal proposes (`RemainingToPay`, as `visitForIssue` computes it) or one the clerk
typed; `PayOrder` is one turn of the loop, for any order that is left, because the
query promises no order; `CommitIssue`, `FailIssue`, `Unissue` end or undo it. The API
accepts a negative amount, which the form does not offer; the runs include one. A
sum beyond 32 bits makes the database refuse the write, which is `FailIssue`.

- `payment_split` (three orders, prices 0 to 3, six amounts): with enough money every
  order is settled exactly, at most one order is paid in part, and the loop
  implements the contract. Three orders are the least with one before, one at and
  one after the place where the money ends.

### NotificationDelivery

State: the `status` and `externalId` of each notification, the client's phone, the
BullMQ job with its attempts, the worker's step, the messages Green-API accepted,
the handlers in progress, and whether the instance is authorized. The worker's
steps `TakeJob`, `CheckReady`, `Load`, `Send`, `Record` / `RecordFailure`,
`CompleteJob` / `GiveBack` follow `NotificationProcessor.process` and
`processWhatsAppSending`; a failure may come between any two, and one of the lookups in
`CheckReady` or `Load` ends the attempt without a word in the row. `Init` is what
`createVisit` leaves: a pending row and its job, or, where `queue.add` failed, no job. `ReadOutgoing` and
`WriteOutgoing` are a status webhook, `ReadIncoming` and `WriteIncoming` a reply.
`BeginResend` starts one of the two resends, which go through `GetJob`, `RemoveJob`,
`UpdateRow` and `AddJob` in their own orders; BullMQ refuses to remove an active job
and ignores a job whose id exists. `TrimJob` is BullMQ's removal of ended jobs,
`Crash` the end of the process, after which BullMQ hands the job out again.
`isInstanceAuthorized` reads the key of `INSTANCE_ID` and the status is written under
that of `GREEN_API_ID_INSTANCE`; the model takes the deployment to set both alike.

- `notification_serial` (two notifications of one client, one call at a time, no
  faults): a resend to the same number is always queued, and webhooks never lower
  a status.
- `notification_race` (one notification, two calls, a crash, refused writes, an
  instance that comes and goes): one sender, no status without its message, a bound
  on the messages a client gets, and every job ends: each step of the worker takes from what
  the job can still cost, and only a crash or a resend gives any back. Fairness: weak fairness of the
  worker's steps - BullMQ's worker runs as long as the process is restarted, and each
  of its calls is answered or fails. Two attempts, one resend and
  one crash are enough for a job that fails, is retried, sent twice and resent. They bound
  the messages by five; the run has room for six, so that a sixth would be seen, and five
  are reached.
Both properties of `notification_serial` need their bounds. Two webhooks that read the
same status at once may write the lower one last. When the attempts run out while the
instance is logged out, the row stays pending with no job, although the log calls the
job postponed (`notification.processor.ts`:38).
With two resends at the same time, or with a phone update that meets a working
worker, a pending row can also lose its job; this is why `PendingIsQueued` is
checked in `notification_serial` for resends to the same number only.

These configurations say `CHECK_DEADLOCK FALSE`: messages and resends are
bounded, and a system with no job, no call and nothing more to resend may rest.

### Idempotency

State: the record of each key in Redis, the requests in progress, and, as history, how
often and for which bodies a key took effect and, in `hit`, the keys whose own request
met a fault that leaves them marked. `Arrive` is the lookup with its three
answers or its error, `Claim` the SET NX, `ClaimFails` a SET NX that is not answered:
it did not reach Redis, or it did and the request fails all the same or is refused by its
own record when ioredis sends the command again. `TakeEffect` the commit of the handler, `Succeed`,
`Refuse` and `BreakOff` the ends of a request with the write nobody waits for, which
may be lost. `Expire` is the 24 hours, `Crash` the end of the process.

- `idempotency` (one key, two bodies, three requests; one expiry, one handler that
  throws after its commit, one command that is lost or whose answer is, one crash): one runner per key, at most
  one effect but for the expiries and for handlers that throw after their commit,
  answers belong to the body they are given to, and a key marked as being handled is
  being handled, or is in `hit`. Keys never meet, so one is enough; three requests let a record be made,
  read and claimed at once.

After a crash, a lost last write or a lost answer to its SET NX a key does stay marked for
24 hours, and every retry is refused: what `NoOrphan` excepts by `hit`, for that key until
its record expires, and no document promises. What it says is that nothing else has this
effect: no failure of a handler, no failed lookup, no fault of a request that did not hold
the record.

### AuthSession

State: `saved` is the Redis key `rf:<user>`; `cookie`, `access` and `isAuth` are the
refresh cookie and the store of each browser signed in to the account; `call` the HTTP
exchanges in progress. A token is the second it was signed at: the payload is always
the same, so two tokens of one second are equal, and `expired` says which access tokens
have run out. An exchange goes through `Guard` (`JwtAuthGuard`), `SendRefresh` (the
interceptor meets a 401), `Compare` / `Refuse` (`refreshTokens`), `IssueTokens`,
`Store` (`updateRefreshToken`), and its answer `Refreshed`, `Refused` (the page signs
itself out, also when somebody has signed in meanwhile), `LoggedIn` or `LoggedOut`;
`Delete` is the logout on the server. Every await between them ends an action. `Lost` is
a request or an answer that does not arrive, with the server going on or not; `Reload`
leaves the persisted store and forgets the exchanges. `Second`, `QuarterHour` and `Week`
are time as far as it tells tokens apart, expires access tokens, or expires everything.

`disturbed` and `ended` are history. The code does not make a second refresh wait for
the first (the cookie of the one that loses is refused), does not protect a browser from
another one of the same account (one key per user), and does not survive a lost answer.
`disturbed` collects the browsers this has happened to; the properties are about all
others, and say that nothing else breaks a session.

- `auth_session` (two browsers, two exchanges, three seconds): the cookie of an
  undisturbed browser is the saved token, the interceptor signs nobody else out, a logout
  lasts unless a refresh was under way, and an exchange ends after seven steps at most.
  Two exchanges are what overlapping needs, in one browser or in two; three seconds let
  a token be replaced twice. No fairness: the last property bounds the steps instead.

The run says `CHECK_DEADLOCK FALSE` because the clock is bounded.

### Screens

State: the `page` that is open, the `state` of each row on the server, `cache`, one entry
per list or search of the page, `op`, the mutation whose answer is on its way, and
`pushes`, the socket events. An entry has the pages of rows it shows (`data`), whether the
last one promised more, whether it is on the screen (`open`), has gone `stale`, shows what
was fetched before an invalidation (`old`) by a fetch which that invalidation could not
cancel (`missed`), and the `fetch` under way. The pages of the
CRM share the mechanism and differ in their tables: `On` is what a page shows, the
operators named after endpoints are what these select, those named after hooks are what a
mutation does to a row, which queries it filters the row out of and which it invalidates.

`Poll`, `Open`, `Reconnect` and `FetchNextPage` start a fetch, `Serve` is one page answered
by the server as the rows are then (a list of several pages is read page by page), `Arrive`
puts the whole answer on the screen, `FetchFails` none of it. (`visitReserved` reads rows and
their number in two queries, `Serve` in one: no property depends on a number that is a
query older, and the next poll corrects it.) `Operate` is the endpoint,
`Succeed` the `onSuccess` of the hook, later; `ElsewhereMoves` another desk, the worker or a
webhook; `Pushed` the socket's update. What React Query does by itself is external:
an invalidation cancels a fetch and starts anew, except for a first fetch and one whose
list or search has been closed; `Outdated` is its record of what is old from then on.

- `screens` (six pages, two rows on two pages of a list, two changes of rows): a list that
  stays on the screen ends up showing what the server would answer; a search does not
  show an answer from before the page's own operation as fresh, unless the invalidation
  missed its fetch. Two rows and a page size of
  one are the least where a row changes its page while pages are read; two changes are an
  operation and one of somebody else, in either order. The seventh page, `return`, has the
  tables of `issue` under other names and is left out of the run.

Fairness: weak fairness of the poll of the list that is open (`refetchInterval` is never
switched off), strong fairness of each page's answer and of the arrival of the whole,
because every poll, paging or invalidation starts the fetch afresh and failures may come in
between: a server that is asked again and again answers in the end. Nothing is assumed of
the clerk, of `onSuccess` or of the socket, so the lists' accuracy rests on the polls alone.

What the model makes visible and no property promises: the updaters of `useDeleteCostume`
and of the socket map `oldData.pages` of every cache under the prefix, and the cache of a
search is a plain array. With a search cached they throw (`Throws`): the deletion is
reported as an error although it succeeded, nothing is invalidated, and the search shows the
costume until it goes stale. After an issue or a cancellation no search is invalidated at
all, so it offers the visit for up to five minutes. And where an operation does invalidate,
it misses a search that is being loaded for the first time or was closed while it was being
fetched: the server reads the rows, the operation is done, and then the older answer arrives
and is fresh for five minutes (`useClients.ts`:41). `OwnWorkSeen` is therefore about
operations that do invalidate, and excepts the answers of fetches that were missed.

The run says `CHECK_DEADLOCK FALSE`: a page whose list is closed may rest.

## 4. Findings

| Run | What it shows |
|---|---|
| `moves_as_told` | a visit that was just given out is cancelled by a second desk |
| `double_booking_race` | two desks book one costume for one period |

`PROJECT.json` quotes the messages they contradict.

## 5. Proofs

TLAPS proves the following for every value of the constants.

| Module | Theorem | Statement |
|---|---|---|
| `VisitLifecycleProofs` | `TypeCorrect`, `OrdersAlwaysFollow`, `IssuedAlwaysBacked`, `ReservedAlwaysClean`, `DepositsOnlyReturned` | the race-proof properties, for any visits, orders and requests |
| `VisitLifecycleProofs` | `SerialDepositTracked`, `SerialPaymentsFollowVisit`, `SerialNotesKept`, `SerialImplementsContract` | the serial ones and the refinement of `VisitContract` |
| `BookingProofs` | `BookingTypeCorrect`, `JobsAlwaysHaveVisits`, `RowsNeverReplaced`, `PreviewsProgress` | for any desks, codes and attempts |
| `BookingProofs` | `SerialNoDoubleBooking`, `SerialImplementsCalendar` | one desk; the first for requests that name a costume once, and but for visits issued after their cancellation |
| `PaymentProofs` | `PaymentTypeCorrect`, `NeverScattered`, `AlwaysSettled`, `LoopImplementsContract` | the payment loop, for any finite set of orders in any order, with any amounts; the last is the refinement of `PaymentContract` |
| `NotificationProofs` | `NotificationsTypeCorrect`, `NeverTwoSenders`, `StatusesAreBacked`, `NeverFlooded`, `JobsAlwaysProgress` | for any notifications, calls at a time, attempts, resends, crashes and failures |
| `NotificationSerialProofs` | `SerialWebhooksAdvance`, `SerialPendingQueued` | one call at a time next to the worker |
| `AuthSessionProofs` | `SessionsTypeCorrect`, `CookiesAreSaved`, `LogoutLasts`, `SessionsAreKept`, `ExchangesEnd` | for any browsers and exchanges |
| `ScreensProofs` | `ScreensTypeCorrect`, `OwnWorkAlwaysSeen` | for any rows, page size, moves and any of the seven pages |
| `IdempotencyProofs` | `IdempotencyTypeCorrect`, `NeverTwoRunners`, `EffectAtMostOnce`, `AnswersAlwaysOwn`, `KeysAreFreed` | for any keys and requests |

Arguments.

- Visits: the row invariants are proved together, since `IssuedIsBacked` and
  `ReservedIsClean` lean on each other where a transaction commits on a stale read.
  The serial theorems assume that there is one request and strengthen the
  invariant by: what a handler has read is still in the rows.
- Booking: `Inv` says that a desk past a step carries the code and the wish that
  step needs. With one desk, `Serial` adds that what was found free still is: a desk that is
  creating a visit cancels and issues none.
- Payment: the invariant relates the split of the transaction to what is left: while
  money remains every order that had its turn is settled, so only one is paid in part.
  What comes to pass at the commit is about sums over the orders, which the model takes
  with the fold of the community modules. The provers cannot do induction with a property
  as a parameter, so each law of sums (`SumUnfolds`, `SumRemove`, `SumMonotone`, ...) is proved
  by a smallest counterexample: the subsets of the orders for which it fails would have a
  smallest one (`SmallestSubset`, from the well-foundedness of the strict subset of a finite
  set), and taking one order out of that leaves a smaller one. With these, the money that is
  left is what was brought minus what the settled orders take, hence nothing is kept back
  while an order is open, and a step of the loop is a stutter or the one step of the contract.
- Idempotency: `IInv` says that the record of a running request is its own; hence
  nobody else can claim, and only the runner may end it; a record that says "processing" has
  a runner or lost it to a fault of its own (`hit`). Effects are counted against
  the record: no record, no effect beyond the expiries and broken handlers.
- Notifications: `IInv` joins `OneSender` and `HasAttempts` (a job that is queued or worked
  on has an attempt left; without it the counter could leave its type) with
  `RecordsItsMessage` (the worker records a message it sent for this row) and
  `CallsAreBacked` (a webhook under way is about a row that has a message), which carry
  `StatusIsBacked` over the gap between a handler's read and its write. `OneSender` holds
  because only the worker makes a job active and a resend cannot remove an active one.
- Messages: `NoFlood` is not inductive, since it does not say which resend paid for which
  message. `Budget` charges them: the messages of a notification are at most `MaxAttempts` for
  each resend that has ended, what the present job has used (`Used`: its attempts, and
  one more once the worker has sent) and one per crash. A resend ends when it queues the new
  job, at which the full price of the old one is already allowed for; the crash pays for the
  attempt that is repeated.
- Progress: `WorkLeft` and `StepsLeft` are natural numbers by `HasAttempts` and the type of the
  attempts, and fall with every step. What they leave to `JobsEnd` and `PreviewAnswered` is
  that the steps are taken at all.
- One call at a time: since a report was read only the worker can have written the status,
  and whatever outranks anything outranks what it writes (`ReportStillAhead`); a resend past
  its removal finds no job in its place (`RemovedIsGone`), and an attempt that is over has
  left an outcome in the row (`OutcomeKnown`), so a job never ends under a pending row.
- Sessions: `SessionsAreSound` says that an undisturbed browser has at most one refresh under
  way, that this carries the saved token or the one about to be saved, and that without one
  its cookie is the saved token. `NothingToStore` says that after a logout no exchange but a
  login gets as far as saving a token. `CallsInShape` ties kinds to steps: a repeated request
  is marked, which is why the measure `Left` falls with every step.
- Screens: `OwnWorkSeen` is strengthened by two facts (`OldIsStale`): what is old is stale even
  while nothing is fetched, so that a fetch may fail, and a fetch under way is old only if the
  invalidation missed it, because otherwise that cancelled it. `Sound` says both of one entry, and each
  operator of the cache is shown once to keep entries sound. That a filter, which
  makes an entry count as fresh, never meets a loaded search is `Throws`.

Hypotheses. `OneDesk`, `OneCall` and their like for requests are the serial case itself,
not a claim about the code; `NoPendingReport` says that Green-API's reports do not include
"pending", a status of our own queue; `Calm` is the case `notification_serial` checks, and
section 3 says what happens outside of it; `EachOnce` is discussed above;
`LoopImplementsContract` is about a visit with at least one order, which the booking form
never goes below (`OrderList.tsx`:24): with none, a negative amount would be taken by no
order. The named assumptions of the modules are types of constants, that a visit has
finitely many orders, and that `Screens` is about the pages its tables list; TLC evaluates
them in every run.

Only model-checked: the three liveness properties, `PreviewAnswered`, `JobsEnd` and
`ListsCatchUp`, since the provers have no rule for fairness (`ENABLED`); of the first two
the count that makes them end is proved. Every other property of a passing run is the
statement of a theorem.

## 6. Not modelled

- How `handleInstanceStateChange` orders two states that arrive together, the creation of
  children and the uniqueness of phones, `searchCostumeAvailable`: planned (section 2).
- Detail endpoints of one row and their queries, the contents of rows beyond their
  status: nothing above depends on them.
- The rendering of pages and the state of forms, but for the two checks of forms that
  bound what `Booking` and `PaymentSplit` are asked.
- Passwords, the socket's own guard, messages' texts, validation of input shapes, error
  formats, logging, seeds, migrations and deployment.
- The generated Prisma and OpenAPI clients, two fifths of the lines of code, which have no
  behaviour of their own; the components of the pages, a third, are mostly rendering. The
  lines that the map covers are therefore a small share of all lines.
