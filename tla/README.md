# FlowAPI: a TLA+ verification project

FlowAPI is a gateway for large language, image, music and video models. Clients
call it with tokens; it picks a channel (an account at a vendor), forwards the
request, and charges a wallet or a subscription. Several nodes share one
database and, optionally, one Redis. This project models the parts in which
several nodes, goroutines or requests work on the same rows and on the same
money, and the parts of the web console in which timers, effects and answers
overlap. It checks them with TLC on small instances, and proves every safety
property that TLC checks with TLAPS, for every size.

Paths below are relative to `src/`.

## 1. Inventory

### Parts, their state and their operations

| Part | State | Operations | Talks to |
|---|---|---|---|
| System task framework (`model/system_task.go`, `service/system_task.go`) | `system_tasks` (one row per execution, unique `active_key` per type), `system_task_locks` (one row per type with holder and `locked_until`), the runner's loop, handler goroutines | enqueue, scheduler pass, claim (lock, then status), dispatch, heartbeat, finish and release, expiry of stale locks | every background job |
| Asynchronous task polling (`service/task_polling.go`, `model/task.go`) | `tasks` (status, quota, submit time), a poller's copies | sweep of timed-out rows, Suno pass, video pass | channels, billing, the job framework |
| Task billing (`service/task_billing.go`) | wallet or subscription, token, usage statistics, `tasks.quota` as marker of the open charge | refund, settle the difference | polling |
| Task fetch (`relay/relay_task.go`) | a GET's copy of the row | real-time refresh of Gemini and Vertex rows | shares `tasks` with the pollers |
| Task submission (`model/task_submission.go`, `middleware/task_submission.go`) | `task_submissions` (status, fingerprint, dispatch mark), flags in the request context | reserve, look up, mark dispatched, accept with the task, finish | task relay |
| Task relay (`controller/relay.go`, `relay/relay_task.go`) | the request's BillingSession | pre-consume, POST, settle, insert, deferred refund, retry | providers, billing |
| Billing session (`service/billing_session.go`, `service/funding_source.go`) | per request: pre-consumed, reserved, settled, refunded flags | pre-consume, reserve more, settle, refund asynchronously | quota, subscriptions |
| Quota (`model/quota_reserve.go`, `model/utils.go`, user and token cache) | balance in the database, balance in Redis, queued deltas | reserve, apply a delta, compensate, flush, invalidate | billing, top-up |
| Synchronous relay (`controller/relay.go`, `service/relay_retry.go`, `service/route_state.go`) | attempts, excluded channels, whether bytes were sent | attempt, retry, exclude, give up | channels, billing |
| Channel selection (`model/channel_cache.go`, `service/channel_select.go`, `service/channel_affinity.go`) | memory cache of channels and abilities, polling index, affinity cache | select, disable, re-enable, reload | relay |
| Login sessions (`model/user_session.go`, `service/auth_session.go`) | session rows with version and refresh hash, cached entries, tombstones | create, rotate, revoke, validate | middleware |
| Subscriptions (`model/subscription.go`) | plans, periods, pre-consume records by request id | pre-consume, refund, reset, expire | billing |
| Top-up, redemption (`model/topup.go`, `model/redemption.go`) | orders, codes | complete, redeem | payment webhooks |
| Midjourney tasks (`controller/midjourney.go`, `model/midjourney.go`) | rows, as for tasks | poll, refund | the job framework |
| Rate limiters (`middleware/rate-limit.go`, `middleware/model-rate-limit.go`, `common/limiter`) | counters and buckets in Redis or memory | check, record | middleware |
| Channel availability (`model/channel.go`, `service/channel.go`, `controller/channel-test.go`) | row with status, failure count and ban end; every node's cached copy | count failures, ban, restore, enable, disable, health and balance check, save of the form | channel selection |
| Upstream model updates (`controller/channel_upstream_update.go`; console: `use-channel-upstream-updates.ts`, `upstream-update-dialog.tsx`) | models, staged and ignored lists of a channel; dialog, ticks, guards | detect, apply, apply all, the scheduled task | channels, the job framework |
| Console login (`web/src/lib/auth-session.ts`, `auth-session-sync.ts`, `http-client.ts`) | per tab: session, epoch, refresh in flight; the browser's cookie | bootstrap, refresh under a web lock, retry after 401, login, logout, events | login sessions |
| Data tables (`web/src/hooks/use-table-url-state.ts`, `components/data-table`) | URL, React copies of filters, page and search, debounced inputs | type, compose, filter, page, reset, Back | router, queries |
| Channel test dialog (`channel-test-dialog.tsx`) | results, batch with progress and stop flag, deletion | test one, test all, stop, close, delete failed | channel API |
| Settings forms (`use-settings-form.ts`, `use-update-option.ts`) | form, base, cached options, shared GET | type, save option by option, reset, leave, refetch | option API |
| Content lists (`features/system-settings/content`) | a copy of the list or a draft over it, selection | add, edit, delete, save, refetch | option API |
| Order history, wallet payment (`features/wallet`) | page, search, request counter; amount, method, shared price, dialog | page, search, complete an order; choose, confirm, pay | top-up API |
| Adaptors and format conversion (`relay/channel`, `relaykit`), pricing expressions, logs, metrics, other console pages, desktop shell | - | - | - |

### What is hard

* **Leases.** A job's lock is a row with a time. It is acquired, used, renewed,
  stolen and deleted by statements of different nodes, none of them in one
  transaction with the job's row.
* **Copies.** Pollers and GETs work on copies of rows read earlier. The guard is
  a conditional UPDATE on the status; the bulk update has none, and the copy
  that is written includes the quota.
* **Money in several writes.** A refund is four writes; each may fail and the
  process may die between two. The order of the writes is the recovery plan.
* **Unknown outcomes.** A paid POST that times out may have started a job. The
  submission key, the dispatch mark and two flags decide whether it is sent
  again, refunded, or called failed.
* **Two balances.** A balance in Redis is checked, the database follows later.
* **Cached decisions.** A node decides about a channel or a session by a copy
  that may be older than a ban, a manual disabling or a revocation.
* **The console's asynchrony.** Answers arrive late and out of order, effects
  of one render see values of different ages, timers fire after the state they
  were set for is gone, and tabs share one cookie.

### What makes each part correct

* Jobs: one active row per type; a row is executed at most once; a running row
  is always recoverable; every row ends; a live lease is never taken.
* Tasks: a final status is final; one biller; the charge fits the status; the
  marker is cleared last; a failed task is refunded; a timed-out task ends.
* Submissions: one POST and one charge per key; a refund, or the answer
  "failed", only when no job was started; acceptance exactly with a task.
* Billing and quota: what callers were told is what the account moved by; no
  reservation beyond the balance; a request is charged what it owes and never
  paid out.
* Top-up: one credit per order, whoever completes it, and one in the end.
* Sessions: a revoked session is not accepted again; a browser does not lock
  its user out; a tab that signed out stays out; tabs agree in the end.
* Channels: every node's failures count; a ban lasts its window and ends; a
  manual disabling stays; models change only as an upstream reported.
* Console: a page shows what its last input asked for, stops what was stopped,
  saves only what was typed, orders once, and waits for ever for nothing but a
  request that hangs.

The hazards behind these statements are listed, each at its line, in
`PROJECT.json` under `hazards`.

## 2. Modules

| Module | Models | Run | Proofs |
|---|---|---|---|
| `SystemTask` | the job framework | `systask` | `SystemTaskProofs` |
| `TaskPolling`, `PaidTask` | polling, billing and real-time fetch of asynchronous tasks; the paid task they implement | `polling` | `TaskPollingProofs` |
| `TaskSubmission` | idempotent paid submission | `submission` | `TaskSubmissionProofs` |
| `Quota`, `Account` | a user's balance in database, Redis and queue; the account it implements | `quota` | `QuotaProofs` |
| `RelayBilling` | the billing session of a synchronous request with its attempts, and the charges of a websocket | `relaybilling` | `RelayBillingProofs` |
| `TopUp` | orders, webhooks of three providers, completion by hand | `topup` | `ConsoleProofs` |
| `UserSession` | the cached login session on the server | `usersession` | `UserSessionProofs` |
| `AuthClient` | the login session in the tabs of a browser, with the server's rotation | `authclient` | `UserSessionProofs` |
| `UpstreamUpdates` | staged model updates: dialog, hook and handlers | `upstream` | `ChannelProofs` |
| `ChannelBan` | failure counting, ban, restore and status changes of a channel | `channelban` | `ChannelProofs` |
| `TableState` | a data table and its URL | `tablestate` | - |
| `ChannelTest`, `SettingsForm`, `ContentList`, `BillingHistory`, `WalletPayment` | five pages of the console | in `console` | `ConsoleProofs` |
| `Console` | a tab that shows one of the five pages | `console` | `ConsoleProofs` |
| `MC...` | instances for TLC | | |

`Quota` implements `Account` (`IsAccount`) and `TaskPolling` implements `PaidTask`
(`IsPaidTask`); both refinements are checked by TLC and proved.
`RelayBilling` takes wallet and token as accounts of the first kind: one call moves a
balance at once. `TaskSubmission` has the session of `RelayBilling` as a charge
that is none, reserved, settled or refunded. The handler of the job
`async_task_poll` is a pass of `TaskPolling`, and the one of `model_update` is
the job `task` of `UpstreamUpdates`; a lease that lapses under a running pass is
why two pollers overlap there. `Console` composes the pages: they have no state
in common, so they take turns in fourteen variables.

In the modules of the server one SQL statement, one transaction or one Redis
script is one step, and anything may happen between two steps of the same
goroutine. In those of the console a step is what JavaScript runs between two
awaits: a click, an answer with its continuation, a timer, the effects of a
render. Every module states its `TypeOK` (`ClientTypeOK`, `UpdatesTypeOK`); it
holds in the run of the module too, and the run lists the properties that say
more. Constants such as `Uses`, `Modes`, `Styles` or `Topologies` are sets of
deployments or habits of which a behaviour has one, chosen in `Init`. Operators
called "Variant" in a comment are not part of a specification: each is a
plausible error in the definition that follows it, used to see that a property
depends on that code.

### SystemTask

`tasks` and `locks` are the two tables, `run[r]` is where node `r`'s loop stands
(a claim, a scheduler pass or a stale-lock pass, with the data it has read),
`exec[t]` the handler goroutine of row `t`. Time is relative: a lock row has the
ticks that remain until `locked_until`, and an operation has the ticks since it
read its `now`; the comparison `locked_until < now` is exact then. A claim is
`ClaimRead`, `ClaimInsert` (or `ClaimExisting`, `ClaimSteal`), `ClaimFailOld`,
`ClaimMark`, the re-read with `ClaimDispatch`, and `ClaimRelease` on its error
paths. `Heartbeat` renews, `HandlerFinish` and `HandlerRelease` are the two
statements of `FinishSystemTask`, `StaleFind`, `StaleMark` and `StaleDelete`
those of `ExpireStaleSystemTaskLocks`. `Crash` stops a node with its handlers; a
restarted process has a new random id, which is another member of `Runners`.

Harmless, and allowed by the model: a stale pass may mark a row failed whose
lock was taken over since by a live runner. The row ends as failed and its late
handler cannot overwrite that.

Not modelled: rows written before `active_key` existed, clock differences
between nodes, payloads and results.

### TaskPolling

`row` is the tasks table; of the progress it has whether it is `100%`, which
hides a row from both SELECTs, and of the submit time whether it is past the
deadline, or before `TaskRefundLegacyCutoff` (the sweep clears the quota of such a
row and refunds nothing). `books[t]` is what has been charged, net, for task `t` to
the funding source, to the token, and in the statistics. A poller is an execution
of `RunTaskPollingOnce`; it holds copies (`work[p][t]`) and handles them one by one
in the sweep, in any order in the pass. `UpdateWithStatus` writes a copy if the
status in the table is still the copy's; `TaskBulkUpdateByID` writes status and
progress. The answer of the upstream service is arbitrary at every poll: it may
move Suno's submit time and a video's progress, and it may never come
(`PollHangs`). A lookup of the channel may fail at every poll, whether the channel
was deleted, is not in the node's cache yet, or could not be read.
A `gemini` row can be fetched by its user (`FetchRead`, then `FetchWrite`).
`PaidTask` says what the user of a task may rely on: it is charged when it is
submitted, ends at most once, and then its charge is given back whole or
corrected, at most once. Its money is the book of the funding source. A task that
is failed by its id, whose row a GET has written, or whose settlement failed when
it was submitted, is released from the promise (`exempt`, `Guarded`).

Folded together: SUBMITTED, QUEUED and UNKNOWN with IN_PROGRESS (no code here
distinguishes them but for what is displayed); user and channel statistics into
one book; rows without an upstream id with rows whose channel is missing (both
are failed in bulk). Left out: progress below 100%, result URLs, the row limits
of the two SELECTs, Suno answers that repeat an id.

### TaskSubmission

`sub[k]` is the row of a client key, whose owner (the random TaskID of the
candidate) is the request that inserted it; `req[r]` a POST with its place in
the middleware and in `RelayTask`, and its three context flags; `charge[r]` what
its BillingSession has done; `posts` and `jobs` count, at the external provider,
the POSTs sent and the jobs started. `Age` makes a reservation older than 600 s,
which a lookup reports as unknown. A request may die anywhere, in particular
while its POST is under way, and each statement may fail, with or without
having been committed.

Assumed: a 4xx other than 408 means that the provider started no job, as the
code assumes. Left out: panics, requests without a submission key, and the retry
loop, which `shouldRetryTaskRelay` never enters on this route. A crash between
the pre-consumed charge and the dispatch loses the charge (`BillingSession` is
in memory only); nothing is claimed about it.

### Quota and Account

One user's balance: `db`, the hash in Redis (`cache`), the deltas of the batch
updater that are queued (`queue`) and swapped out (`taken`), and the cache
updates of goroutines (`pend`). A reservation is the script, on a miss the
hydration in two steps and the script again, else (also when the hydration fails)
the conditional UPDATE; then the persistent deduction and, if it fails, the
compensation. Refunds and charges need no reservation (`MayChange`: settlements
of tasks, trusted requests and administrators have none); a charge starts its
cache update before it writes the row. `crossed` records that a change of the row
overlapped a fill of the hash: the row was changed between the fill's read and
write, or the hash was filled while the change was on its way to Redis. `Account`
says what
a caller may rely on: an operation that reports success moved the balance by its
amount once; only what is collected in memory may be lost. A token's balance
takes the same steps.

### RelayBilling

`req`, `session` and `route` are the request's place, its `BillingSession` and
its route state; `refunds` are the goroutines that give back. Actions are the
pre-consumption from funding and token with the trust rule, the top-up of the
reserve for a dearer route with its rollback, the attempt and its outcome, the
settlement (of the session, or `PostConsumeQuota` where there is none), the
deferred refund and the violation fee. A user or a token may be without limit: the
wallet of the first is left alone, the balance of the second is moved unchecked.
`stream` are the charges of a realtime websocket: the goroutine that reads the
target takes them from wallet and token beside the session, and may still be at it
when the handler settles. `SubscriptionFunding` is left out: no code constructs it.
`Playground` requests have no token; the branches for them are in the code,
though no route of `router/` serves `/pg` at this commit. A failure past the
deferred function may still be charged the fee.

### TopUp

Orders of Epay, Stripe or Creem; a handler, on any node, is one webhook delivery
or the administrator's completion. The order lock is per process, the row lock and
status check are in the transaction; Stripe's failure event reads, then saves
the copy. `creditedOn` remembers the nodes that credited an order. A paid order
that Creem does not call `onetime` has the outcome `other`. What an order credits
depends on who credits it (`Quota`, `ManualCompleteTopUp`); rounding is left out.
An unacknowledged delivery is repeated. Waffo has Creem's shape;
subscription orders and redemption codes are not modelled.

### UserSession

A session's row, its copy in each Redis with the time it has left, and handlers
that validate (look up, fill from the row, confirm), rotate, advance the
version, and revoke (fence, row, tombstone) on any node. A handler may be
suspended for any time between two steps, a Redis call may fail, in time or after
the window of the read, and a process may die.

### AuthClient

Tabs with their store, refresh in flight, web lock, API request, logout and
inbox of events; the browser's cookie as a secret of some age; the server's
rotation with its grace window. A server that cannot read the session answers 401
and clears the cookie; an event that is a minute late is dropped. Not modelled: `applyAuthRotation` and the shared
GETs. A logout that is answered clears whatever session the store shows by then.

### UpstreamUpdates

Per channel the models, the staged and the ignored lists; the rows of the
console's list; the dialog and its ticks; jobs (apply, apply all, detect, the
scheduled task), each of which reads a channel, may call the upstream, and
writes the settings whole. The server trusts nothing in a request but its
intersection with what is staged. A channel's redirects (the sources that are not
removed, the targets that are not offered) and the models its `regex:` ignores
match are constants: they are edited in the channel's form, which is not part of
this module. `told` keeps what applies have reported, `crossed` the channels on
which a handler has written over a write that it had not read.

### ChannelBan

The row of a single-key channel, each node's copy, the copies that requests
hold, and callers of `UpdateChannelStatus`: administrator, health test, balance
check. The buttons for a tag write the status alone, past the locks and
`UpdateChannelStatus` (`TagStatus`). The console's form loads the row and sends
`other_info` back. The memory cache is on and the database works; the abilities table is left out. Periodic
reloads are checked with one node (with two the copies can only be fresher).

### TableState

History and URL, what the router has handed over, the React copies, the
debounced field and the toolbar's draft, the remembered status, and the data
that has arrived. `Effects` runs what is due after a render in React's order; the
page size is the one computed when the URL was last handed over, and the history
variable `astray` records a Back over a search.
User events come when the router has handed the URL over. Forward, sorting and
column sizes are not modelled.

### Console and its pages

`ChannelTest`: single tests, batches with groups and pauses, stop, close, reopen,
and the deletion of failed models, whose empty list the server takes for absent.
`SettingsForm`: options, the query's copy, the shared GET, the form and its
base, saves option by option; history variables record what was typed since the
form was filled (`typed`), an outdated answer (`behind`) and saves that crossed.
Models and options are sets; where the code goes through them in an order, each
has a position. `ContentList`: the two styles of
list editor; a list is a set of entries, each with its id (0 if it was stored
without one) and what it is about; history variables record that the list on
screen was replaced by one older than the last save (`behind`) and that two of its
ids were equal from the start (`clash`). In both modules one node answers: another
one learns of an update only with its next `SyncOptions`.
`BillingHistory`: page, size, debounced word, request counter, an
administrator's completion. `WalletPayment`: amount, method, shared price,
confirmation, three payment hooks with one flag each. Left out: other
administrators in `ChannelTest`, a section's switch in `ContentList`, Creem's
own dialog, redemption and transfer in `WalletPayment`. `Console` lets a request
hang (`Hang`): `api` has no timeout.

## 3. Runs

| Run | Instance | States | Properties |
|---|---|---|---|
| `systask` | two nodes, one type, two rows, TTL 2, claims up to 1 tick, one fault, fairness | 101,725 | `OneActivePerType`, `RunningHasLock`, `TerminalIsFinal`, `DispatchedOnce`, `LiveLeaseIsKept`, `TasksAreDone` |
| `polling` | two pollers, a task of any kind and age, failing lookups, a GET, one fault, fairness | 350,743 | `OneBiller`, `IsPaidTask`, `ClearedMeansRefunded`, `BooksAgree`, `TerminalIsFinal`, `FailedIsRefunded`, `TimedOutEnds` |
| `submission` | three requests, one key, two bodies, two faults | 16,144 | `OnePaidPost`, `AcceptedHasTask`, `RefundMeansNoJob`, `ToldFailedMeansNoJob`, `OneCharge`, `FinalIsFinal` |
| `quota` | two clients, with and without reservations, batch and direct mode, empty or warm cache, two faults of seven kinds | 1,143,317 | `IsAccount`, `CacheAgrees`, `ReserveIsCovered` |
| `relaybilling` | two requests out of four: a websocket, a playground one, one of an unlimited user, one with an unlimited token; two channels, one fault | 2,406,479 | `ChargedWhatIsOwed`, `AttemptIsCovered`, `NeverPaidOut` |
| `topup` | an order of any provider and one of Epay, three handlers on two nodes, an administrator, one fault, fairness | 171,723 | `CreditedOnce`, `PaidIsCredited` |
| `usersession` | two handlers, one Redis or one each, TTL 2, two versions, two faults, fairness | 713,511 | `NoReactivation`, `StaleBound`, `FenceLifts` |
| `authclient` | two tabs, two sessions, four uses, one fault, fairness | 84,045 | `NotBackAfterSignOut`, `ReuseNeedsLoss`, `TabsConverge` |
| `upstream` | two channels, three models, three lists an upstream may answer with, two jobs of any kind, one outside event | 1,540,593 | `UpdatesAreSound` |
| `channelban` | six deployments of one or two nodes, window 1, two calls, fairness | 597,006 | `FailuresAreCounted`, `BanIsServed`, `BanEnds` |
| `tablestate` | one word, one status, lists of one and three rows, three user events, fairness | 84,170 | `ComesToRest` |
| `console` | one page of five, each with two models, options, words or methods, one fault and one request that hangs, fairness | 1,132,923 | `PagesKeepTheirWord`, `WaitingEnds` |

Why the bounds are enough to be interesting. Two nodes are what a stolen lease
needs; two rows let a leftover lock of the first meet the claim of the second;
TTL 2 with pauses of 1 lets a lease lapse under a claim in progress of another
node without leaving the `MaxPause < TTL` case. Two pollers suffice for a race;
the settled cost is below or above the charge. Three requests give an owner, a
repeated request with the same body and one with another; two faults let the
owner fail twice (a lost commit, then a failed finish). Two quota faults are a
failed write and a failed compensation, or an expiry and a crash. Two channels
and two targets make a retry dearer than its reserve. Three handlers are two
deliveries of a webhook and a completion by hand. Two handlers of a session are
a fill that stalls and a revocation; with TTL 2 it can stall past both lives.
Two jobs are a read that another job's write overtakes. Two models with groups
of one give a batch a pause in which it can be stopped. Symmetry is used only
where no liveness is checked (`submission`, `quota`, `relaybilling`).

Deadlock is not an error where requests, orders, clients or a user's events are
used up, nor where both pollers hang: all runs but `systask` and `usersession`.

### Fairness

* `SystemTask`: time passes (WF of `Tick`); a live runner's operation in progress
  goes on, since the loop never blocks; the ticker brings the claim pass and the
  stale pass round again and again, though at a given moment the loop may be in
  the other one, hence SF of `ClaimRead` and `StaleFind` per runner; a handler
  ends and its heartbeat ticks.
* `TaskPolling`: passes are scheduled for ever and every goroutine of a pass
  goes on, unless its HTTP call hangs: `RELAY_TIMEOUT` is 0 by default, so the
  client has no timeout, and `PollHangs` has no fairness and no way out but a
  crash. `TimedOutEnds` assumes that no call hangs for ever (`NoneHangs`) and
  that passes overlap only for a while (`OnePass`): two that overlap for ever, with
  a service whose answer alternates, could make the sweep lose every conditional
  UPDATE.
* `TopUp`: a provider repeats a delivery that was not acknowledged, and handlers
  go on. `UserSession`: time passes and handlers go on.
* `AuthClient`: promises settle, events are delivered or dropped, access tokens
  expire, and a page in use makes requests again and again (SF, as the request
  waits for a refresh in between).
* `ChannelBan`: time passes and requests keep selecting. `TableState`: the
  router, the effects, the timers and the answers; nothing of the user.
* `Console`: a request is answered or fails unless it hangs, continuations run
  and timers fire; nothing of the user. `axios.create` sets no timeout
  (`lib/http-client.ts:44`) and the server's call behind a test has none by
  default, so `Hang` may take any request, has no fairness and is not undone;
  `WaitingEnds` excepts the page that waits for that very request (`Stuck`).

### Where the promises end

Each of these is a behaviour of the model, hence of the code, that the
properties except by the condition given. The comments of the code and its texts
say otherwise, which is why they are listed.

Server:

1. A claim suspended for longer than the TTL between its lock and its status
   (`model/system_task.go:246`) leaves a running row without a lock row, which
   nothing ends. (`MaxPause < TTL`.) `service/system_task.go:306`: "The TTL is a
   crash-detection window, not a task time limit".
2. The scheduler may create a row although the interval has not elapsed, if the
   last run began and ended after its look (`service/system_task.go:291`); no
   property. `service/system_task.go:259`: "whose interval has elapsed since its
   last run".
3. A poller whose lookup of the channel fails, for whatever reason, fails the row by
   id without a refund, over a success written by another if there is one
   (`service/task_polling.go:436`). (`Guarded`.) `model/task.go:498`: "DO NOT use
   in billing/quota lifecycle flows". A submission whose settlement fails is
   inserted with a quota that was not charged (`controller/relay.go:774`). A row
   that is in progress with a progress of 100% is never looked at again
   (`model/task.go:348`), and a silent provider stops all passes
   (`service/http_client.go:106`); `TimedOutEnds` excepts both.
4. A GET that learns first of the failure of a Gemini or Vertex task leaves its
   charge without refund, and one that read a failed row before its refund
   cleared the quota brings the row back, to be refunded again
   (`relay/relay_task.go:625`). (`Guarded`.)
5. After an expiry in batch mode a reserve fills the cache without the queued
   deltas and passes beyond the balance (`model/quota_reserve.go:178`). Without any
   fault, a fill that a refund or charge overlaps lacks it (the row was read
   before) or counts it twice (the cache update comes after the fill;
   `model/user_cache.go:109`). (`Undisturbed`, `crossed`.)
6. A realtime websocket pays its usage twice: event by event while it streams
   (`service/quota.go:139`) and as a whole at its end (`:220`), since the session
   knows nothing of the first. (`Cost` in `ChargedWhatIsOwed`.)
7. Stripe's failure event on one node overwrites a success written on another
   (`controller/topup_stripe.go:268`; `controller/topup.go:452` says the process lock
   is only an optimisation), and an event whose crediting fails is acknowledged
   (`controller/topup_stripe.go:298`). Creem's webhook acknowledges a paid order
   whose type is not `onetime` and credits nothing (`controller/topup_creem.go:325`).
   Completing a Creem order by hand credits `QuotaPerUnit` times what its webhook
   does (`model/topup.go:491` against `:560`). (The exceptions of `CreditedOnce` and
   `PaidIsCredited`.)
8. A tombstone that fails, has an older version than a version change has
   published meanwhile (`model/user_session.go:590`), or is in another Redis
   does not stop the old copy; `StaleBound` limits it to a copy's lifetime. A
   validation under way whose write to Redis fails after its window answers the
   row it read then, however old: the error is returned before the time is looked
   at (`model/user_session.go:340`). (The exception of `StaleBound`.)
9. A form loaded before a ban erases its end or brings an old count back
   (`features/channels/lib/channel-form.ts:990`); a health test enables a channel
   that was disabled by hand meanwhile (`controller/channel-test.go:953`); a
   disabling that the node's copy calls done is answered as a success without
   touching the row (`model/channel.go:1054`); a success on a node that has seen
   no failure does not end the streak (`service/channel.go:38`). Enabling by tag
   lifts a ban before its end and leaves its count and end in the row
   (`model/channel.go:1112`): the next failure bans at once, and a balance check
   that read that end can write it over a new ban, which a selection then lifts too
   early. (`EndMayBeOld`, and the callers named in `BanIsServed` and `BanEnds`.)

Console, under `web/src`:

10. Without `navigator.locks` two tabs can spend one token twice and lock their
   user out. (`use.locks`.) A tab that is loading misses `signed_out` events.
11. When all models failed, the empty list changes nothing and the dialog calls
    them deleted (`channel-test-dialog.tsx:781`); a model added to the channel
    meanwhile is dropped (`:777`). Closing the dialog, opening it again and
    starting a batch revives the old one (`overlap`). A deletion confirmed in a
    dialog that was opened on an outdated list brings a model back that the
    deletion before it took, and a third may take it again: `OthersAreKept`
    allows that a deletion takes what an earlier one had named.
12. A refetch resets a form and what was typed in it
    (`use-settings-form.ts:222`, against `:168`: "No automatic resets that could
    overwrite user input"), so leaving asks no question about it; no property
    denies this. The refetch after an update may share an older GET
    (`use-update-option.ts:50`), and the form then shows the old value as the saved
    one (`behind` in `SavedIsShown`); a refused or failed update may be taken for
    stored or not stored (`use-settings-form.ts:264`; `events`); a save started
    in a form opened during an earlier one, which goes on, may end with a base
    that is not the server's (`crossed`).
13. In the draft style an edit between a save and its refetch starts from the
    old list and drops the entry just saved (`api-info-section.tsx:246`); in the
    copy style an entry added during a save is lost
    (`announcements-section.tsx:274`), and the question of the batch deletion
    counts rows that are gone (`:597`). In both styles an answer that was read
    before a save and arrives after it was sent puts an older list on the screen,
    and the next save drops what the earlier one stored. (`behind` in
    `SaveKeepsOthers`.) A list that was stored with ids for some entries only can
    give one entry's position as another's id (`announcements-section.tsx:165`):
    an edit or a deletion then reaches both (`clash` in `IdsDiffer`).
14. Ticks made in the upstream dialog for one channel are sent for the next one
    opened (`upstream-update-dialog.tsx:50`), and a late success closes whichever
    dialog is open. On the server a detection or an apply that read a channel
    before another one's write undoes it
    (`channel_upstream_update.go:499`): a model just applied is gone again, an
    ignored one is staged again (`crossed` in `ReportedDecisionsHold`).
15. The debounced field writes its old text back over a Reset or a Back
    (`use-debounced-column-filter.ts:58`): `ComesToRest` says that the parts agree
    in the end, not on which text. After a Back over a search they do not agree:
    the URL's search changes and the table's stays
    (`use-table-url-state.ts:183`, against `:152`: "URL 为单一数据源", the URL is the only source;
    `astray` in `ShownIsUrl`), until a search is committed or all is reset.
16. The refresh after an administrator's completion asks for the page of the
    click (`use-billing-history.ts:113`; `left` in `RowsAreOfPage`), and Next
    clicked before a word settles leaves the search on a page it does not have
    (`:135`).
17. All price requests set one amount (`use-payment.ts:96`): the confirmation can
    show the price of another amount, or open for one below the method's minimum
    (`features/wallet/index.tsx:185`).
18. A request that is never answered leaves its page waiting: the batch shown as
    running, the form as submitting, the placeholders, or the payment buttons
    disabled (`lib/http-client.ts:44`; `Stuck` in `WaitingEnds`).

The last sentences of items 11 and 13 come from the proofs: on the instance of
the run TLC had passed stronger statements, whose invariants turned out not to be
inductive; with more deletions and saves TLC finds them violated.

## 4. Theorems

All constants are arbitrary, within the named assumptions of the modules. These
say that bounds are naturals, that placeholders (`"none"`, `None`, `NoOrder`)
name nothing real, and that tables handed in as constants have the right domain;
beyond that: `QuotaAssumption` wants finitely many clients, since their shares are
summed, `AuthClientAssumption` at least one session, since the browser starts
with one, `ChannelTestAssumption` finitely many models, each at a position of its
own, and `HistoryAssumption` a search word with the most orders. Where more is
needed it is a condition of the property (`MaxPause < TTL` in `RunningHasLock`). A
proof module may extend two components
that have no state in common (a session on the server and in the browser, a
channel's status and its models, the console and its orders); the names in
these are distinct for that reason.

| Module | Theorems |
|---|---|
| `SystemTaskProofs` | `TypeCorrect`, `OneActive`, `RunningRecoverable`, `FirstEndStays`, `HandledOnce`, `LeaseIsRespected` |
| `TaskSubmissionProofs` | `TypeCorrect`, `PaidOnce`, `AcceptedIsStored`, `RefundIsSafe`, `FailureIsSafe`, `ChargedOnce`, `FinalStays` |
| `TaskPollingProofs` | `TypeCorrect`, `TasksArePaidFor`, `BilledByOne`, `ClearedIsRefunded`, `BooksBalance`, `FinalStatusStays` |
| `QuotaProofs` | `TypeCorrect`, `Implements`, `CacheIsRight`, `ReservationCovered` |
| `RelayBillingProofs` | `TypeCorrect`, `NothingPaidOut`, `OwedIsCharged`, `AttemptCovered` |
| `UserSessionProofs` | `TypeCorrect`, `StalenessBounded`, `RevokedStaysRevoked`; for `AuthClient` `SignedOutStays`, `TurnsAreSafe` |
| `ChannelProofs` | `TypeCorrect`, `NoFailureLost`, `BanServed`; for `UpstreamUpdates` `ReportedOnly` |
| `ConsoleProofs` | `PagesAreSound`; for `TopUp` `BalancedOrders`, `CreditIsFinal` |

Each inductive invariant was checked by TLC on the instance of its run before it
was proved.

**SystemTaskProofs.** The invariant has two layers.
`Shape` = `TypeOK` /\ `Rows` /\ `Claims` /\ `LockRows` /\ `OneActivePerType`:
what a row's status says of its claimer and handler, what a runner in the middle
of a claim knows, and that a lock row names a row of its type. It is inductive
without any assumption on time, and the three action properties (the first end
of a row stays, a row is dispatched once, a live lease is not taken) follow from
it step by step.
`Lease` = `Acquired` /\ `Protected` /\ `Held` is inductive relative to `Shape`
when `MaxPause < TTL`. `RunningHasLock` alone is not inductive: a stale pass
that has collected a lock may delete it after the row was marked running.
`Protected` excludes this: the lock of a running row was live at the `now` of
every operation that might overwrite or delete it; `Acquired` carries the
fact from the acquisition to `ClaimMark`.

**TaskSubmissionProofs.** The invariant
is a conjunction over keys (`KeyInv`: a POST is preceded by the dispatch mark, a
job by a POST, a failed submission has no job) and over requests (`ReqInv`: only
the owner goes past the reservation; before the POST the count is 0; a definite
failure or a refundable request has no job). `LocalStep` is the argument that it
is enough to look at the request that steps and at its key: a row is changed
only by its owner, or by the request that thereby becomes its owner, and no
other request has a claim on it. Each action then needs only its own two facts.

**TaskPollingProofs.** The invariant is `TypeOK` and, task by task, `TaskOK`: at
most one poller is billing; the copy a poller works on is one of an unfinished row
(`JobFits`); the charge fits the status (`RowFits`); and without faults all
books are known at each statement of a refund or settlement (`JobExact`,
`RowExact`). Only the poller that has won the conditional UPDATE writes books or
quota, so a step of another poller leaves a task's job, row and books alone.
The guard of the properties (`Guarded`: not failed by id, not written by a GET,
settled when submitted) is the guard of the proof, which shows that the first two
are the only ways to lose a status. `TasksArePaidFor` maps every step to one of
`PaidTask` with the task it is about, or to the release of some tasks: the first
write of a refund or settlement is the one that counts, the other three stutter.

**QuotaProofs.** `Implements` maps a step of reservation, batch or failure to
a step of `Account` or to a stutter; it needs that nothing is queued
without the batch updater (`Unbuffered`). `CacheIsRight` compares
two balances between which any number of clients have changes under way. The
invariant `CacheInv` says that cache and database differ by the sum of what
these changes still owe, with the sum taken as an additive function on subsets of
the clients: sums by recursion could not be reasoned about, and to add or remove
one client is all a step needs. Before the first fill no reservation has passed
the cache and every read for a fill is still what the row is (`Cold`): this is
where `crossed` is needed. `Solvent` (an undrawn cache as long as nobody is charged beyond his
reservation) then gives `ReservationCovered`.

**RelayBillingProofs.** `RequestOK` follows a request through its session:
until it settles or fails, what was taken from wallet and token is what the
session says (`Quiet`, `Reserved`, `TokenReserved`); the reservation follows the
estimate of the selected route (`Covers`); after the end, what was taken covers
what the refund goroutine returns (`Ends`). A rollback that fails leaves more
taken than is reserved: `Reserved` has to allow it, and only
`ChargedWhatIsOwed`, which excludes faults, may not. A stream may charge until
after the end, so its takings are kept apart in every part of the invariant; only
a request whose websocket was opened has any (`Silence`), and none of those has a
refund.

**UserSessionProofs.** An active copy in Redis, or a fill that is
about to write one, has at most TTL minus the time since the revocation left
(`CopyOK`, `ProcOK`): this bounds staleness for every topology and fault, and a
validation begun after the report never gets as far as a fill. For
`NoReactivation` the tombstone has to outlive every fill under way (`Barred`):
it is written with the full TTL after the reads that opened those windows.
For the tabs of a browser (`ClientInv`): the sessions a tab has left are
revoked, it shows none of them, and no answer it still accepts brings one
(`TabOK`), because leaving advances the epoch; and, under the Web Lock and
without a loss, whoever has a request or an answer holds the lock, sends the
current secret, and the cookie is out of date only while the answer that replaces
it is on its way (`InTurn`). Without `CookieOK` the invariant is not
inductive: a rotation ages the cookie before the answer is read.

**ChannelProofs.** The count of an enabled row stays below the threshold but for
what saved forms bring back and tags leave, each failure is in it, and where no
form and no balance check can bring an old one back the ban's end is zero or that
of the last ban (`RowFits`, `FailuresAreCounted`,
`BanKnown`); a copy in flight is typed but otherwise arbitrary, which is why the
conditional updates have to look at the row. For the staged updates (`UInv`), the
settings of a channel and every handler's snapshot of them are sound
against what the upstream has reported and its redirects; a handler may write an
old snapshot back, since reports are never taken back. On the channels where none
did, staged models are neither present nor ignored (`Lasting`), which is why a
decision can only be undone by asking for it.

**ConsoleProofs.** The page shown keeps an invariant of its own, and its steps
keep its word.

* Test dialog: the invariant has two parts that no step mixes. Of the batches
  (`BatchesInv`): the models answered, in flight and still to be tested are all
  that were asked for (`AllCounted`), two batches run at once only after an
  overlap, a batch that runs and was not stopped is the one on screen, and one
  that was stopped finds the flag when it wakes. Of the lists (`ListsInv`): apart
  from the models that some deletion has named, the channel, the list, the row
  and what every deletion is about to leave agree. That the server and the list
  agree is not inductive by itself: a deletion computes what remains from
  the dialog, and sends it later.
* Settings: a field that differs from its base was typed since the form was filled
  (`SettingsInv`), so a save takes on nothing else. That the form comes to show
  the server's values needs where each copy comes from (`SettingsShow`): the
  query's copy is the server's or will be fetched again (`CacheIsRead`: the answer
  that stores an option invalidates it, wherever the form is then), a save's data
  is the server's but for what it has left to send (`SaveFits`), and the base is
  the query's copy or what the form's own save has stored (`BaseIsKnown`).
* Content: the list on screen, unless it is `behind`, has every entry that the
  server has, or is about to get, and that the user did not delete (`Kept`);
  every list, wherever it is, has distinct ids once it is parsed, unless they
  clashed from the start (`Good`), and a new entry gets an id above all of them.
* History: the request that counts asks for what the dialog shows, unless it was
  the refresh of a page that had been left.
* Wallet: a payment under way is the only one and keeps its hook busy; the
  dialog, and each price request that will open it, has a method.

Counting answers needs the cardinality of finite sets, and the least amount and
the greatest id need that the naturals are well-founded (`LeastNatural`,
`GreatestNatural`), which the library proves.

For the orders, `BalancedOrders` holds for every assignment of handlers to
nodes: the transaction of a recharge reads the status of the row it has locked.
What overwrites a credited order (`CreditedOnce`) is a Stripe failure, which reads
and saves the row in two statements; `LockOrder` is a lock of one process. The
invariant (`Locked`) says that a busy handler holds the lock of its order on its
node alone, hence that no handler of that node has credited the order since the
failure found it pending.

Only model-checked: liveness (`TasksAreDone`, `FailedIsRefunded`, `TimedOutEnds`,
`PaidIsCredited`, `FenceLifts`, `TabsConverge`, `BanEnds`, `ComesToRest`,
`WaitingEnds`), for which TLAPS has no rules under fairness. `TableState` makes
no other promise, and has no theorem.

## 5. Plan

Done: the parts listed in section 2, with theorems for the safety properties of
all runs. Next, in this order:

1. The Midjourney poll and its notifications, as a second implementation of
   `PaidTask`.
2. Multi-key channels (`controller/channel.go`, ManageMultiKeys), the choice of a
   channel and its exclusion after failures, redemption codes, rate limiters.

## 6. Not modelled

Vendor adaptors and format conversion are stateless translations. Pricing
expressions are floating-point arithmetic, out of TLC's reach. Logs, metrics,
usage data, what each option sets, the instance registry and the desktop shell keep
no state the properties above depend on. No code constructs the subscription
funding source, so subscriptions have only their periods' reset. The limit on
active sessions may be passed by concurrent logins, which
`docs/authentication.md` accepts; the model rate limiter bounds successful
requests and says nothing of those under way.

Most of the repository is the console's user interface: components that render
fields, tables and dialogs, and their texts. They carry no control of their own
beyond a field's value; what they do over time goes through the hooks, stores
and pages modelled here (sessions, tables, forms, lists, dialogs with requests).
The share of lines the models stand for is therefore small and would not grow by
modelling more of the same: a further settings page is another instance of
`SettingsForm`, a further table another one of `TableState`. The large editors
(channel drawer, parameter overrides, tiered pricing) transform one form value
into another in a single step.
