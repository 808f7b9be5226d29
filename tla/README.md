# Velora: verification of the trading journal's backend

TLA+ models of the parts of this repository whose correctness depends on
interleavings, retries, crashes and stale reads, the TLC configurations that
check them on small instances, and TLAPS proofs of what they show for every
size. All paths are relative to the repository.

## 1. The system

An API process (`apps/api`) and a worker process (`apps/worker`) share one
PostgreSQL database (`db/migrations`); pure rules live in `packages/domain`, the
shapes that cross the queue in `packages/contracts`. There is no lock or shared
memory between processes: what they agree on is in rows, and every statement or
transaction is one atomic step. Between two statements of one handler anything
may happen.

| Component | State | Operations | Meets others through |
|---|---|---|---|
| Trade ledger (`trades/`, `domain/tradeLedger.ts`, migration 0001) | `trades` (projection with version), `trade_events` (log), `trade_exits` | create, read, journal edit, delete, exit, cancel exit | hook in its transactions: copy signals |
| Copy trading (`tenancy/`, `copytrading/`, `copyScheduler.ts`, migration 0020) | `copy_relationships`, `signal_queue` (status, attempts, lease) | link, pause, revoke, emit, tick, claim, dispatch, ack, expire, fail | outbox row, job queue, transport |
| MetaAPI synchronisation (`metaapi/` of the worker, `syncScheduler.ts`, migration 0012) | cursor and `last_synced_at`, `sync_fills`, `sync_position_state`, `sync_reservations` | tick, request, reserve, fetch, import and reconcile, release | job queue, provider; writes trades |
| Job queue and runner (`runner.ts`, `queue/`) | pg-boss jobs: waiting, active, retries left, singleton key | enqueue, claim, complete, fail, time out | every handler |
| Webhook ingress (`webhooks/`), manual sync (`accounts/`) | `webhook_events`, `sync_status` | record once, request a sync | job queue |
| Telegram updates (`telegram/`) | `telegram_updates` (claimed, started, processed), poller offset | claim, enqueue, begin, finish, poll | job queue, journal drafts |
| Telegram posts and linking (`telegramPostService.ts`, migration 0037) | posts with approval and attempts, link tokens, identities | preview, edit, approve, publish, link, revoke | Bot API |
| Journal drafts (`journal/`) | drafts and their confirmation claim | open, answer, confirm, cancel, expire | creates trades |
| Authentication (`auth/`) | users, sessions (token hash, revoked), mailed links | register, verify, login, refresh, logout, recover, administer users | every route |
| Provisioning (`metaapi/` of the API) | operation, provider account, binding | reserve, look up, create, poll, bind, converge, disconnect | provider, accounts |
| Billing (`billing/`, migration 0017) | `subscriptions`, `users.plan` | apply an event of the provider, answer it | the quota of account creation |
| Accounts, tags, portfolio, support | rows of one owner | single statements | plan, binding |
| AI, attachments, mail, notifications, analytics, FX, admin, web, Cloudflare shells, ops | derived or external | input and output | - |

What is hard, and what makes each part correct:

- **Trade ledger.** A request reads, decides in the domain fold and writes in
  several statements; only the row lock and the version compared under it
  protect the decision. Correct means: a serial log, no lost update, exact
  allocation and net P/L, final tombstones, the row equal to the replay of its
  events; in one phrase, every commit as if it ran alone.
- **Copy trading.** Delivery at least once under leases, hard timeouts that
  abandon a handler without stopping it, retries of the queue and of the tick,
  partial failure over followers who come and go. Correct means: what `acked`,
  `expired` and `failed` say is true, nobody is sent a signal without an active
  link, and every signal ends.
- **Synchronisation.** Overlapping windows, jobs served in any order, a lease
  that may be lost before the import, positions that arrive in pieces. Correct
  means: no deal is ever behind the cursor without a row, a trade is built from
  the whole position only, and every deal is fetched in the end.
- **Telegram updates.** A claim before the work makes redelivery harmless and a
  crash permanent; two ways of execution (queue, in-process timer) and a one-shot
  start marker. Correct means: claimed, started, acted on and settled once and in
  this order, and nothing answered to Telegram is lost without a fault.
- **Journal drafts.** Confirmation creates a trade between two writes of the
  draft; answers, cancellations and the expiry come in between, since they write
  by id from what they read earlier. Correct means: one trade per draft, none of
  a draft that is not saved, and a saved draft is final.
- **Telegram posts.** What a person approved is read, checked against the channel
  and claimed by different statements, and the send is neither undone nor asked
  about. Correct means: only approved text is sent, once.
- **Authentication.** Rotation by compare-and-set beside logout, revocation,
  recovery and administration, each of two or more statements. Correct means: a
  token buys one successor, a link sets one password, and an order to end the
  sessions leaves none.
- **Provisioning.** Three steps over two systems with lost answers on both
  sides. Correct means: the provider holds one account for an operation and the
  binding is what the operation says.
- **Billing.** Events that come twice, late and out of order, written to two
  tables by two statements. Correct means: nothing paid for is had for free, and
  the plan follows the rows.
- **Job queue.** Overlapping passes of the runner, and a job given back while its
  handler runs on; these are steps of the modules that use the queue.

The hazards are listed with their lines in `PROJECT.json`. Five more are known
and no property is about them: the copy hook inside the trade's transaction
(`pgTradeStore.ts:259`, one step here), the order of a leader's signals after a
retry (`signalQueue.ts:146`), a deal the provider shows late
(`historyDealsClient.ts:92`), the queue of a job remembered by one process only
(`pgBossAdapter.ts:148`), and `CONNECTING`, which no code of the worker ends
(`syncPending.ts:24`).

## 2. Modules

| Module | Models | Role |
|---|---|---|
| `LedgerRows` | rows, events, the domain fold, the realized sum | operators shared by the next two |
| `AtomicLedger` | what the trade capability promises | abstract specification |
| `TradeLedger` | `tradeService.ts` and `pgTradeStore.ts`, statement by statement | refines `AtomicLedger` |
| `CopyDispatch` | relationships, outbox, tick, dispatch handler, runner | state machine |
| `MetaApiSync` | producers, queue, handler, lease, import, reconciliation | state machine |
| `OneShotUpdates` | what the stream of updates promises | abstract specification |
| `TelegramUpdates` | webhook, claim, queue or timer, worker, poller | refines `OneShotUpdates` |
| `JournalDrafts` | `journalApplicationService.ts` over the draft store | state machine |
| `TelegramPosts` | `telegramPostService.ts` and the bot's publish flow | state machine |
| `AuthSessions` | `authService.ts`, `adminUserService.ts`, `pgUserStore.ts` | state machine |
| `Provisioning` | `provisioningService.ts`, its store, the provider's side | state machine |
| `Billing` | `subscriptionService.ts`, its store, the account quota | state machine |
| `*_proofs` | one per state machine; `Accounts_proofs` has those of `Billing` and `Provisioning` | theorems |
| `MC*` | constants, symmetry sets | TLC instances |

The modules follow one pattern. A table is a function or a record of the columns
that matter, with a value for no row. A handler is a record of the step it is at,
named after the statement that comes next, and of what it has read so far; each
statement, transaction or external call is an action, and each error exit, rollback
or crash leads back to idle with nothing written. Variables marked as history are
written and never read by guards of the code's actions: they only let a property
name its exception or compare with the past. Operators with the prefix `Faulty`
are seeded faults that no action uses.

### TradeLedger
`trade`, `exits`, `events` are the tables (an unused id has `NoRow`); `session[s]`
is what the request of a session has read so far. `UpdateTrade` (read and gate)
then `EditJournaling` (transaction); `DeleteTrade` then `StoreTombstone`;
`CreateExit` (read and gate), `ProjectExit` (list the exits and sum), `RecordExit`
(transaction with the trigger `velora_apply_exit`); `DeleteExit`, `GateCancel`,
`ProjectCancel`, `CancelExit`. `LockedParent` is the `SELECT ... FOR UPDATE` and its
version test. Each error exit is `GiveUp`. A client that names a version takes it
from an earlier `GetTrade`.
Abstracted: volumes and money are small integers; of the journal fields there
are two, each with keep, clear and set; all requests are of one owner, since
every statement filters on it. Creation takes any volume of the constant set.

### CopyDispatch
`signal[s]` is the outbox row with its lease as a Boolean (held or over;
`LeaseExpires` may happen at any time, so the model has all lengths of leases
and backoffs). `listed[t]` is what a pass of the tick has listed and not enqueued
yet: `ListDispatchable` is one statement, each `Enqueue` after it an awaited call of
its own, and other passes, claims and outcomes come in between. `jobs` are waiting
jobs with the attempt number of their key and their retries; the queue's rule for
one key (one new job, one to be retried, one being worked on) is external. `run[h]`
is one execution of the handler: fetched (before its claim), claimed (before the
follower list is read), sending (a set of followers still to be served) or
expiring. A run may die, or be timed out, at each of them.
`patient` says that the runner still waits: `TimeOut` clears it and
gives the job back, the run goes on. History: `delivered`, `steady`, `consented`
(what reached the followers' accounts, which links stayed or were once active
since the emission) and `cut`, the signals whose last attempt was cut short. The
transport is external; the repository's contract for it is kept (ok only when
delivered; a failed or thrown answer may hide a delivery; the idempotency key
makes a second one harmless). The commit of a trade and its signal is one step,
as the emitter runs in the trade's transaction.

### MetaApiSync
`now` is the clock, `at[d]` the instant a deal is made at the provider (external).
`account`, `fills`, `assessed`, `trade`, `reservation` are the tables; `trade[p]`
is the set of fills that the row of a position sums up. `Enqueue` is the window
rule that the tick, the webhooks and the manual request share; a producer's read
and its send are one step: a job carries its window with it, so that one enqueued
late is no different from one that has waited in the queue. A run goes through taken, reserved, fetched, leaving,
released. `Import` is one step for the transaction of `importBatch`: two imports
of one account that overlap meet on a unique fill or state row, where the later
one waits for the commit of the other and then reads what it wrote; imports with
nothing in common do not see each other. `LeaseExpires` may happen at any time:
the code's lease (300 s) outlives the hard timeout (120 s), but not a handler
that runs on after it.
Abstracted: every deal is one lot, so that sums of volumes are numbers of deals;
the only defect of a deal's data is a missing direction; error codes and the
event row of an imported trade are left out. The provider answers with every
deal of the window, and a position that has been left is not entered again.

### TelegramUpdates
`mode` is the deployment: webhook with the queue, webhook with the in-process
timer, or the poller. `row[u]` are the marker columns of `telegram_updates` (none,
claimed, started, processed), `job[u]` the queue's job of an update, `answered` the
updates Telegram will not send again, `offset` and `batch` the poller's. A process
is a request (which goes on as the timer's task), a worker run or the poller; it
claims, enqueues, starts, dispatches, finishes. `Fails` is a statement that fails
before or after it took effect, `TimeOut` the hard timeout (`owns` is cleared, the
run goes on), `Expire` the queue's own expiry, `ApiCrash` and `WorkerCrash` end all
processes of one side. History: `dispatched`, how often the bot acted, and `hit`,
the updates a fault fell upon. What the bot does with an update is one step.
`Promise == INSTANCE OneShotUpdates` with the stage computed from the row and
`dispatched`: "at most once" in the abstract module is a counter, so that an act
before the start, a second act or a settlement without an act are all steps it
does not have.

### JournalDrafts
`draft[d]` is the draft of a message (state, filled fields, trade, whether
`expires_at` is to come, order of creation), `run[h]` a bot run, `trades` what the
ledger got. Opening goes through `createDraft`; answering and cancelling through a
read and a write by id; confirming through the read, the conditional claim, the
creation of the trade, and then the binding, or, when `createTrade` throws,
reopening and releasing. It throws when the trade is refused (`RefusedEntry`), and
it throws as well when the trade is committed and the answer lost: `confirm` treats
both alike, and so does the model, which has the second under `MayLoseAnswers`. `Lapse` lets `expires_at` pass, and the sweep runs at the
head of each interaction as in the code. Of the fields only which are filled
counts. History: `holder`, the run whose claim was the last, and `adrift`, the
drafts whose claim and trade have come apart: another run took them out of
CONFIRMING, or the answer to the commit of their trade was lost.

### TelegramPosts
`post` is the row of one user and dedupe key, `shown` a Publish button on a
screen, `run[h]` a handler, `able` the channel's state, `channel` what the channel
shows. A preview renders any body (`ClaimPost`, `RevisePost`, `Show`), `Edit` is the
user's, `Tap` goes through approving, reading, checking, claiming, sending and
finishing. `Send` may lose its answer, `FinishFails` a statement after the message
is out. History: `consent`, the text that is approved now (an edit or a new preview
takes it back), `overtaken` (the text was changed between a handler's read and its
claim), `unsure` (a message is out that the bot took for a failure).

### AuthSessions
One account, its `session` rows (state, turn of the token, expiry), the mailed
`link`s, the requests. A password is the number of the order that set it, so that
"older than the recovery" can be said. Each statement is a step: login reads the
account, may rehash, then opens its session; refresh reads session and holder and
rotates by compare-and-set; recovery opens the link, sets the password, consumes the
link and revokes all; roles and suspension are one audited transaction and a
revocation after it. `Target` and `Reachable` are the rules of who may administer
whom. History: `exchanges` (tokens shown and got), `redeemed`, `shared`, `recovered`,
`overtaken`, and `due` of a session.

### Provisioning
`op[o]` is the durable operation of a broker identity, `account[a].bound` the
binding, `provider[i]` an account at the provider: promised (accepted, not there
yet), there, gone. A request reserves, looks the marker up, reveals the secret,
creates, polls, accepts, binds; when its compare-and-set finds the account bound it
converges; failures mark the operation. Disconnecting deletes the provider's
account and unbinds whatever is bound then. `Settle` is the provider finishing or
dropping what it promised, at any time. History: `hurried`, operations looked up
without a match while an account was still being made for them, by another request
or by the provider with no request alive, and `released`, accounts once disconnected.

### Billing
`log[s]` is what the provider reported of a subscription, `pending` the events that
wait for a 2xx, `request[e]` the delivery under way (linking the customer, recording
the row, granting the plan), `row`, `plan` the tables, `creator` the requests that have
read a plan and not yet counted and inserted. "live" stands for active, trialing and
past_due; "paused" for the statuses the service accepts and the CHECK of migration
0017 does not; "other" for what `apply` answers and does not store: statuses it does
not list, and checkout sessions that lack the user, the customer or the subscription. Every known price is of the paid plan. History: `recorded`, the last
event stored, and `crossed`: an event was overtaken or handled beside another, or one
subscription lapsed while another was live. The operators that every state machine
has carry names of their own here (`BillingSpec`, `BillingTypeOK`, `Mishap`), so that
one proof module can extend `Billing` and `Provisioning`.

## 3. Runs

| Run | Question | Instance |
|---|---|---|
| `Ledger` | edits, exits, cancellations and deletions in a race; replay; refinement | 1 trade, 3 exits, volumes 1 and 2, 2 sessions, versions to 4, edits of one field |
| `CopySafety` | what the statuses promise, attempts, consent | 1 signal, 2 followers, 2 passes, 2 runs, ceiling of 1 attempt, 2 deliveries per job, no deaths |
| `CopyProgress` | every signal ends unless its last attempt was cut short | 1 follower, 2 passes, 1 run at a time, ceiling of 2 attempts, 2 deliveries per job, deaths |
| `SyncSafety` | cursor, whole trades, assessment, lease | 1 account, a position entered once or twice, 2 runs, 2 waiting jobs, 1 fault, 2 instants |
| `SyncProgress` | every deal gets its row while the listing has room for all | 2 accounts, the first always rejected, 1 deal, 1 run, 2 faults, tick of 2 |
| `Updates` | stages once and in order (refinement), nothing dropped, stored jobs started, the offset moves | 3 updates, one malformed, 2 requests, 2 runs, 2 attempts, 2 faults, each of the 3 modes |
| `Drafts` | one trade, none of an unsaved draft, finality, claims end | 1 message lacking one of 2 fields, 2 bot runs, 3 trades, 2 crashes, lost answers |
| `Posts` | the text approved at that moment, one message, finality, in flight ends | 2 texts, 2 handlers, 3 attempts, 2 faults |
| `Sessions` | refreshes, logins, recoveries, links, administration | 2 requests, owner and admin, 1 session, 2 turns, 1 link, 2 orders, 1 crash |
| `Provision` | one account per operation, bindings, convergence | 1 account, 2 identities, 2 requests, 1 poll, 2 provider accounts, 1 fault |
| `Billing` | the plan goes back to a purchase, follows the rows, events are answered | 2 subscriptions (one named), 3 events, 1 creator, quota of 1, 1 fault |
| `Overrun` | can a draft give two trades when no process dies and no answer is lost? (violated) | as `Drafts`, 2 trades, no crash, no lost answer |

Why the bounds are enough. Two requests are the least that can race, and every
conflict here is between the reads of one request and a write of another; the
ledger and the drafts are served row by row, so one row suffices. Four versions
let an exit be recorded, cancelled and recorded again while another request is
between its read and its transaction; volumes 1 and 2 meet the allocation bound
exactly, fit below it and exceed it. Two followers give partial failure. A ceiling of
one attempt in `CopySafety` still has claims beyond it, since the claim does not ask
for the ceiling, and jobs of one key that come back beside new ones; the ceiling of two
in `CopyProgress` has an attempt that is last and one that is not. `CopySafety` has no
deaths: a run that was timed out and does not go on has done what a dead one has, and the
proofs cover both; `CopyProgress`, where deaths matter, has them at every step. `SyncSafety` has three deals at two
instants, so that a window ends where a deal is made, a position is scaled in and
closed across two jobs, and the older job is imported last. Three updates put the
malformed one between two good ones, the second fault of `Updates` falls on the
redelivery of what the first one cut short, and both attempts of a job can be used up.
In `Drafts` a third trade can be made after a refused one and after a claim taken
over; `Posts` has an edit after an approval and a third attempt after two lost
answers. In `Sessions` a second order can pass between the statements of
the first, and the only session can be opened, rotated twice and revoked; a second
session adds no conflict, since every statement is about one session or about all.
In `Provision` two identities compete for one account and the second provider
account is the duplicate the property is about. In `Billing` one subscription is
found by the user's id and one by its customer only, and the third event is the one
that comes late.

Symmetry is used where values are compared with nothing but equality, and in no
run that checks liveness. The instances of the ledger, the synchronisation, the
drafts, the updates and the sessions stop when ids, time or bounds are used up,
hence `CHECK_DEADLOCK FALSE`; the others are checked for deadlock.

Bounds in guards: `MaxVersion` (no mutation is started from this version),
`MaxTime`, `MaxJobs` (waiting jobs of one account), `MaxFaults`, `MaxMishaps`, `MaxCrashes`,
`MaxTrades`, `MaxSessions`, `MaxTurns`, `MaxLinks`, `MaxOrders`, `MaxProvided`,
`MaxAccounts`, `MaxEvents`, `MaxReports`. `MaxAttempts`, `JobAttempts` and `MaxPolls`
are the code's own.

### Fairness
- `CopyDispatch`: the cron ticks every minute and the runner polls twice a
  second (weak fairness of listing), leases end by the clock, a statement or
  transport call that is under way returns (weak fairness of `Handle`). Enqueueing,
  fetching and claiming a signal are strongly fair: passes and runs may be cut short
  again and again, but not each of them before it reaches that signal, and the queue
  hands out jobs in order of creation. Deaths, timeouts and links are never forced.
- `MetaApiSync`: time passes, the cron ticks for each account the tick lists,
  leases end, handlers go on. Taking a job of an account is strongly fair: jobs
  are fetched in order of creation, so an account's job is passed over only while
  another with its key is active. `RequestSync` is not fair: nobody has to ask.
- `TelegramUpdates`: processes go on, the poller loops, an idle run polls the
  queue, and a job's expiry is a matter of time (weak fairness of each).
  Telegram delivers when it likes.
- `JournalDrafts`, `TelegramPosts`: a handler that has begun goes on; users owe
  nothing.
- `Billing`: the provider delivers an event until it gets a 2xx, and a request
  that was received goes on.

### Findings
`Overrun`: the header of `journalApplicationService.ts` (16-19) says that two
confirmations cannot write two trades, and the conditional claim sees to it as long as
the claim stands. An answer or a cancellation that is under way writes the row by id
alone (274): it takes the draft out of CONFIRMING while its trade is being made, and
the draft is offered, claimed and saved a second time.

Exceptions the properties make by name, each of which the code really reaches. A
passing run says what holds beside them, and does not cover the hazard behind them;
where a comment of the code says otherwise, it is quoted.
- A run that is cut short during the last attempt leaves a signal `dispatched` for ever
  (`cut` in `EmittedIsSettled`; `signalQueue.ts:145`). The comment at 243-245 says "the
  SIGNAL must reach a terminal state". Nor is the number of attempts bounded by the
  ceiling it states: the claim (163) does not ask for it, and a job that comes back
  starts another attempt.
- Accounts the provider always rejects keep the head of the tick's list, which is
  ordered by `last_synced_at`: a hundred of them keep everybody else off it
  (`Cardinality(Accounts) <= TickLimit` in `EveryDealIsSynced`; `syncRepository.ts:46`,
  against `syncScheduler.ts:17`, "one sync job per currently-eligible account").
- A draft whose claim and trade came apart may give a second trade, and may be open or
  cancelled although it has one (`adrift` in `OneTradeUnlessAdrift` and
  `UnsavedMeansNoTrade`). Beside `Overrun`, the lost answer of a commit does it: `confirm`
  catches it with the refusals, whose comment says that "the domain ... just refused"
  (`journalApplicationService.ts:317`), and gives the draft back.
- An update whose processing a fault cut short after its claim is not processed again
  (`hit` in `NothingIsDropped`; `telegramUpdatePipeline.ts:121`). An update whose claim
  fails every time holds the poller's offset, on purpose (`telegramPoller.ts:82`).
- The text of a post is changed between a publication's read and its claim; the old
  text is sent, and the row says PUBLISHED with the new one (`overtaken` in
  `SentIsApproved`; `telegramPostService.ts:660`). The header (12-15) says that "an edit
  after approval cannot inherit consent".
- A message is out and its post is FAILED, so that it can be sent again (`unsure` in
  `OneMessage`; `telegramPostService.ts:690`). The header (25-27) says "It never retries a
  send that may have landed". A fault may also leave a post PUBLISHING, for a person to
  look at (`faults` in `InFlightEnds`).
- Two requests hold one reset link, or one dies before consuming it, and it sets two
  passwords (`shared`, `crashes` in `LinkIsSpentOnce`; `authService.ts:784`). The comment at
  746 says "single-use".
- A login that was overtaken by a recovery opens its session, and may write its rehash
  of the old password, after it (`overtaken` in `RecoveryLocksOut`; `authService.ts:456`).
  The comment at 753 says "ALL sessions are revoked".
- A process dies between an order and the revocation of the sessions (`crashes` in
  `DueSessionsEnd`; `adminUserService.ts:383`), or while it holds the claim of a draft
  (`crashes` in `ClaimsEnd`; `journalApplicationService.ts:305`).
- A lookup under the marker finds nothing while an account is still being made, by
  another request or by the provider alone, and a second one is made (`hurried` in
  `OneAccountPerMarker`; `provisioningService.ts:247`). The second case needs one request at
  a time only: accepted, the polls spent, the retry too early. The comment at 423-425 says
  that "a later attempt reconciles instead of creating a duplicate".
- A COMPLETED operation answers a connect although the account has been disconnected
  since (`released` in `CompletedIsBound`; `provisioningService.ts:234`).
- Events handled out of order, or a lapse beside a live subscription, leave plan and rows
  apart (`crossed` in `PlanFollowsRows`; `subscriptionService.ts:426`), the first as the
  comment at 32-35 concedes.
- For `paused` and `incomplete_expired` the CHECK of migration 0017 makes the upsert throw
  before the plan is lowered, at every delivery (`Refused` in `EventsAreAnswered`): the user
  keeps the paid plan, although the comment at 436-439 says that whatever is not
  entitling drops the user to free. And an event that names no user and comes before its
  checkout is answered with 200 and lost (`subscriptionService.ts:401`), so that being
  answered does not mean being stored.

Known from reading and from earlier instances, without a run: `markAcked` writes
whatever the status is, so that a late acknowledgement replaces `expired` or
`failed` (`signalQueue.ts:195`); `expired` is recorded when a retry finds no
follower, although an earlier attempt delivered the signal
(`copyDispatchHandler.ts:89`); `last_synced_at` is the time of the import, not the
end of what was imported (`syncRepository.ts:245`); approval takes
the hash of the row, so that a tap on an older preview approves the present text
(`telegramPostService.ts:613`).

## 4. Proofs

The constants are arbitrary sets and the assumptions are the named ASSUMEs of the
modules: money is a set of integers, ids are not `NoRow`, attempts are positive,
bounds are natural numbers, `NoBody` is no text, `"none"` is neither a run of the
synchronisation nor an operation of provisioning (`NoRunIsNoRun`,
`NothingIsNoOperation`). One restricts the model, not the notation:
`LookbackReachesBack` says that the initial look-back of a synchronisation covers the
clock's range, so `CursorCovers` is about accounts whose history is younger than
`SYNC_INITIAL_LOOKBACK_MS`; older deals are not fetched by design.

**TradeLedger_proofs.** The invariant `IInv` adds to the types that exits belong
to existing trades, and `SessionOK`: the version a request has read is not ahead
of the row's, and while it is equal, everything the request decided on (the row,
the list of exits behind its sum, the exit it cancels) still is as it was read.
Types alone are not inductive: nothing would bind a request's stale sum to the
tables when its version test passes. Every commit moves the version of one
trade, which makes the other requests on it stale and leaves those on other
trades alone (`Bystander`). From it:
`TypeCorrectness`, `SerialVersions`, `NoLostUpdate`, `TombstoneFinality`, and
`Linearizability`, Spec => RefinesAtomicLedger, where each transaction is shown to
be one operation of `AtomicLedger` and each read a stutter.

Two more invariants are kept along the operations of `AtomicLedger`, so that the steps
of requests need no second analysis. `ReplayInv`: the fold of the log exists, and
every function that unfolds the log as `Fold` does ends in the row. A recursive
function is the CHOOSE of such a function, and one more event extends an unfolding
and restricts to one (`UnfoldsOneMore`): the induction over the log is the run of the
system itself. It gives `StoreIsReplay`. `AllocationInv`: the active exits of
a trade are finitely many, and their sum is the allocated volume, within the trade's
own. Finiteness has to be carried because ids are an arbitrary set; the sum is
defined by recursion, and that it is well defined on finite sets, and what one more
pair adds, is proved from a smallest finite set that would contradict it, the
library's induction theorem being out of reach. It gives `AllocationsAreExact`.

**CopyDispatch_proofs.** `IInv` says of a row that those who stayed active are
among the active and the once active, that an acknowledged row reached somebody
and a settled one everybody who stayed; of a run, that each follower who stayed
is served, still to be served or has made the run fail, and that its attempt
number is its own. From it: `CopyTypes`, `SteadyFollowersServed`,
`AckMeansReplicated`, `ConsentedDelivery`, `DistinctAttempts`, `AckFinality`.
The last two need nothing of the job queue: jobs of one key may be fetched as often as
they like, and only the row's own counter keeps the attempts apart. That attempts stay
below a ceiling is not proved, because it does not hold (see Findings).

**JournalDrafts_proofs.** `IInv` adds `RunOK` and `HolderOK` to the two
invariants: unless it is adrift, a run past its claim is the draft's holder, the
draft is CONFIRMING, and there is no trade before the run makes one. Without the
holder nothing says why a claim that succeeds finds no trade. The error path of
`createTrade` is in the proof with both its causes: after a refusal there is no trade
to account for, after a lost answer the draft is adrift.
From it: `TypeCorrect`, `OneTradeHolds`, `UnsavedHolds`, `SavedIsFinalHolds`.

**TelegramPosts_proofs.** `IInv` says that the approval in the row is the one in force
(`RowOK`), that the text a handler carries to the channel is the row's, unless it was
overtaken, and its claim is still its own (`RunOK`), that one handler at most is between
claim and outcome (`OneWorker`), and that nobody is about to send once a message is out
(`ChannelOK`). From it: `TypeCorrect`, `SentIsApprovedHolds`, `OneMessageHolds`,
`PublishedIsFinalHolds`.

**TelegramUpdates_proofs.** `IInv` says which markers of a row, which job and which
steps of processes go together (`RowsFit`, `ProcessesFit`), that two processes on one
update do not both work on it or own its job (`Exclusive`), in whose hands an update
is that no fault fell upon (`Custody`), and that the poller leaves nothing unclaimed
behind its offset or its batch (`Stream`). The row alone cannot say that nothing is
lost: an update that is answered and only claimed rests on a job or on a request
that is about to make one. From it: `TypeCorrect`, `NothingIsDroppedHolds`,
and `UpdatesAreOneShot`, Spec => RefinesOneShot, step by step.

**MetaApiSync_proofs.** `IInv` adds to the properties: the clock is ahead of deals
and cursors (`ClockFits`); a window begins where the ledger is complete and a fetched
window has all its deals (`WindowsFit`); the rows of a position are its deals up to some
instant (`LedgerFits`); and a position that has balanced at the provider stays as it
is (`ClosedForGood`). The last is why a trade assembled from a prefix that
balances is whole, whatever older jobs and runs without a lease import
afterwards. From it: `TypeCorrect`, `CursorCovers`, `WholeTrades`,
`CurrentAssessments`, `LeasesAreRespected`.

**Accounts_proofs.** What a user may have: two components that share the module, not
a state. *Provisioning.* `ProvInv`: a provider account keeps the marker it was made
under, and whatever records, binds or carries it is of that operation (`Markers`,
`RequestOK`); before an operation has its row nobody works for it (`Unreserved`); a
COMPLETED row was bound, or the user took the account away (`Completed`); and outside
`hurried`, who found nothing under a marker is alone and there is nothing
(`OneMaker`). From it: `ProvisioningTypes`, `OneAccountHolds`, `CompletedHolds`,
`BindingsAreKept`, and `BindingsAreExclusive`: no two accounts share a provider account.
*Billing.* `BillingIInv`: requests are about emitted events, and each place a purchase
shows in (plan, a creator's reading, accounts over the quota) goes back to a live,
priced report. From it: `BillingTypes`, `NothingIsFree`. `PlanInv`, for
`RowsDecideThePlan`: what plan and rows disagree on is owed by an event that waits,
was attributed and cannot be declined any more (`Owed`), and a request between the
two writes will write what the rows say. At rest there is no debtor left.

**AuthSessions_proofs.** `IInv` says what a request knows at each step
(`RequestsFit`), that sessions are past every turn that was exchanged
(`TurnsArePast`), that a link that set its password is spent or about to be, by one
request (`Redemptions`), that a session that is due is pursued (`DueArePursued`), and
that passwords are numbered upwards and no live session has one older than the last
recovery (`PasswordsFit`). The last needs the requests: a login holds the
present password until it opens its session, or was overtaken. From it: `TypeCorrect`,
`TokensHaveOneSuccessor`, `LinksAreSpentOnce`, `DueSessionsAreEnded`,
`RecoveryLocksOthersOut`.

**Only model-checked.** Every liveness property: TLAPS cannot prove them under
fairness, as it cannot prove facts about ENABLED. The invariants and action properties
that the runs check are all proved. Of recursive definitions only what the system
does with them is proved, not what they compute for every input: `Fold` for logs that
requests leave behind, `SumOf` for finite sets.

## 5. Plan

1. Done, with proofs: all nine state machines, and the refinements of `AtomicLedger`
   and `OneShotUpdates`.
2. Next proofs: what the present modules promise each other, as the modules below
   compose them.
3. Later modules: the job queue with its dead letters, as the contract that three
   modules assume; the event record of the webhook ingress and the status column;
   the linking of Telegram identities (a token is spent before the identity is stored)
   with what an unlinking leaves in flight; support tickets (unread counts beside late
   messages); attachments (object and row in two systems); a composition of
   `TradeLedger` and the outbox, to show that a rolled back trade emits nothing.

## 6. Not modelled

Routing, validation, rate limits, encryption, rendering, decimal arithmetic,
the AI's answers, mail, analytics, the web application (the larger part of the
source lines), the Cloudflare shells, operational scripts: input and output,
formulas, or single-row writes without a behaviour over several steps. Of the
modelled components the notes under `components` in `PROJECT.json` name what is left
out: reading and paging, templates and their rendering, linking of Telegram
identities, the guided flows of the bot, ownership transfer, checkout sessions,
dead letters. The in-memory stores are test doubles of the PostgreSQL ones. Each
component is listed with its reason in `PROJECT.json`.
