# Akshara: a verification project

Akshara is a school ERP: a Flutter app (`lib/`), some sixty groups of routes on
Supabase edge functions (`supabase/functions/_shared`), Postgres migrations, a web
client, an offline curriculum pipeline and deployment scripts. This project models the
parts in which overlapping requests, lost answers or crashes decide whether a fee is
charged twice or a class's marks are lost:

- the *write path*, which every mutating call of the app takes: the data reliability
  platform (`lib/core/reliability`) keys it with an `Idempotency-Key`, and
  `dispatchWithIdempotency` executes it on the server;
- the *money of a student account*: receipts, refunds, reductions, late fees, the close of
  a day, online payments and cheques (`_shared/finance`, `_shared/payment`);
- the *credits of language-model calls* (`_shared/ai`);
- the *queue of notifications* (`_shared/communication`);
- *approvals* and what deciding them does to purchase orders and gate passes
  (`_shared/approval`, `_shared/inventory_finance`, `_shared/gate_pass`).

Paths below are relative to the repository, `_shared` being `supabase/functions/_shared`.

## Inventory

### The write path

| component | state | operations | what makes it correct |
|---|---|---|---|
| Idempotent dispatch (server, `idempotency_dispatch.ts`) | rows of `request_idempotency` (org, key, response or NULL) | claim, look up, run the route, store, release, bypass | a key commits at most once; a success answers a commit; one runner per key; what was settled stays settled |
| Mutation gateway (client, `mutation_gateway.dart`) | none of its own; writes the outbox after the answer | direct send, offline queueing, online-only send | a success shown is real; nothing queued vanishes |
| Sync engine (client, `sync_engine.dart`) | `_draining`, the batch and `blockedEntities` of the running drain | start, flush (probe, reclaim, read, send one by one), retry with backoff and cutoff, conflicts, retry all, resolve | one drain at a time; order within an entity; no stale copy written back; everything settles |
| Outbox store (client) | envelopes by operation id, in SQLite or in memory | put, pending in `createdAt` order, reclaim, clear | durability across kills |
| Sync Center, resume hook, connectivity (client) | the online flag | retry now, keep mine, use server, resume, reconnect | they may interleave with a running drain |
| Logout (`auth_provider.dart`) | the session | clears the store | nothing of one user reaches the next |

They interact by calls that await: the gateway and the engine await the executor, the
executor awaits the server with a receive timeout, the Sync Center awaits the store
in a loop. Dart runs one handler at a time, so everything between two awaits is
atomic and everything across one is not. On the server each of claim, route, store
and release is a transaction of its own, run by an isolate that may be killed
between any two. The hard behaviours follow: two requests with one key at any two
points of the wrapper; an answer that arrives after the client gave up, while a retry
is under way; a kill or a logout between any two steps; a drain that works on copies
it read earlier; retries that must stop and writes that must not.

### Money, credits, notifications, approvals

A route runs in one READ COMMITTED transaction (`tenant_db.ts`, `withTenantContext`). What
two of them do to each other depends on what they lock, when they read and when they
commit; each may roll back, by an error, a kill or a deadlock that Postgres ends.

| component | state | operations | what makes it correct |
|---|---|---|---|
| Fee collection and refunds (`_shared/finance`) | invoices with their heads, the account, collections, refunds, reductions, closed days | collect, cancel, request / approve / reject a refund, accrue and waive late fees, cancel an invoice, propose / approve / reject / reverse a reduction, close and reopen a day | every movement booked once; no refund beyond the collection; a cancelled receipt is final; nobody owes less than nothing; a closed day is kept |
| Online payments (`_shared/payment`) | payment intents | initiate, confirm, webhook captured, webhook failed | a payment is posted once, and a captured intent has its receipt |
| Cheques (`finance_offline_payments_repository.ts`) | instruments | register, reconcile, bounce | booked on clearance, once; a returned one books nothing |
| AI credits (`_shared/ai`) | credit entries, reservations, the call log | reserve under an advisory lock, call, log, consume / release, sweep, grant, expire | limits hold under concurrency; credits are spent once; only a billed call is charged |
| Approvals (`_shared/approval`) | requests, their audit entries and recorded effects | submit, decide one or a batch, cancel | decided once; the decision, its effect and the subject agree |
| Purchase orders (`_shared/inventory_finance`) | orders, their lines, commitments of money | create, approve with or without a request, reject, the workflow step, receive | money committed only under an approver id other than the order's recorded requester; nothing received beyond the order or without approval |
| Gate passes (`_shared/gate_pass`) | passes with their single-use credential | raise, decide, cancel, verify | a child is released once; a closed pass stays closed |
| Notification delivery (`_shared/communication`) | deliveries, scheduled broadcasts, the escalation chain | enqueue, dispatch, claim, send, mark, retry, escalate, edit the chain | one send per delivery, one fan-out per broadcast, one escalation per failure; everything settles |

Online payments, cheques and the fee desk all end in `createCollection`: they share the
invoice and its lock, and differ in what else they lock and in which order. Approvals call the
order's and the pass's own modules inside the transaction of the decision; orders and passes are
also written by routes that know nothing of the request.

### The rest

| component | hard behaviour | status |
|---|---|---|
| Authentication, refresh, OTP (`auth_handlers.ts`, `lib/core/auth`) | two refreshes with one token; lost increments | planned: `AuthSession` |
| Drafts (`lib/core/reliability/drafts`) | a save in flight when the draft is discarded | planned: `DraftAutosave` |
| In-transaction idempotency (`entity_write/module_write_handlers.ts`) | the claim is written in the route's transaction and needs no release | planned: a second implementation of `WriteOnce` |
| Domain events worker (`_shared/audit`) | a consumer that dies between effect and mark | planned: the shape of `NotificationDrain` |
| Exam administration, attendance | row versions, locks | later |
| The other effects of approvals (exam results, leave, concessions, refunds, certificates) | one guarded write each in the transaction of the decision | later |
| Audit upload queue (client) | best effort | later |
| Admissions, SIS, inventory, library, hostel, transport, certificates, clearance, complaints, HR | records changed in one transaction each: little beyond what a unit test reaches | not modelled |
| App shell and sync banner (they call the sync engine and show its counters), session timers, read cache, timetable, analytics, dashboards, copilot, curriculum pipeline, web client, deployment | algorithms, reads, scripts | not modelled |

`PROJECT.json` lists every component with its sources, and the hazards with the line
at which each bites.

## Plan

1. `WriteOnce`, `IdempotentDispatch`: the server's promise, the wrapper, the proof that it
   keeps it. Done.
2. `ReliableSync`: the client, composed with the server. Done, with the proofs of all its
   safety properties.
3. `FeeLedger`, and `PaymentCapture` on top of it. Done, with the proofs of all their
   properties; the ledger's are proved of the composition too.
4. `AiCredits`, `NotificationDrain`. Done, with the proofs of all their safety properties.
5. `Approvals`. Done, with the proofs of all its properties.
6. Next: the in-transaction variant of the wrapper as a second implementation of
   `WriteOnce`; the domain events worker; `AuthSession`; `DraftAutosave`.

Runs are kept few: one or two per component, small sets, every counter bounded by a
constant. No module that is proved about declares a `RECURSIVE` operator.

## Modules

| module | models |
|---|---|
| `WriteOnce` | the promise: a keyed write takes effect at most once, and is acknowledged only then |
| `IdempotentDispatch` | `dispatchWithIdempotency` and its store, for overlapping requests |
| `ReliableSync` | gateway, engine, outbox, Sync Center, connectivity, logout; EXTENDS `IdempotentDispatch`, whose `Send` and `Forget` it calls and whose `ServerStep` and `Die` run beside it |
| `FeeLedger` | the money of one student account |
| `PaymentCapture` | online payments and cheques; EXTENDS `FeeLedger`, whose `StartCollecting` and `Book` (`createCollection`) it calls and whose requests run beside it |
| `AiCredits` | admission, metering and charging of model calls |
| `NotificationDrain` | the notification queue, its drains, retries and escalation |
| `Approvals` | approval requests with their effects on purchase orders and gate passes |
| `Sums` | lemmas about sums over finite sets, for the proofs about money |
| `MC...` | small values for the constants of the module named |
| `MCApprovalSenders` | `Approvals` with an observer that remembers who sent a decision |
| `..._proofs` | theorems about the module named |

**IdempotentDispatch.** `claim[k]` is the row of key k: `"free"` (no row), `"held"`
(`response_payload` NULL), `"stored"`. `attempt[a]` is an HTTP request: how far the
wrapper has come with it, its key and its answer. `commits[k]` counts the committed
runs of the route; nothing in the program reads it, the properties do. One action per
transaction or early return: `WinClaim`/`LoseClaim` (the INSERT), `Replay` (the SELECT
of the loser), `Commit`/`Refuse`/`CommitThenFail` (the route), `Store`/`StoreFails`,
`Release`/`ReleaseFails` (`_safeRelease`), `BypassCommit`/`BypassRefuse` (no school in
the token). A transaction that throws may throw in its COMMIT, so `ClaimFails` and
`StoreFails` leave its effect open. `Die` is a lost request or a killed isolate.

**ReliableSync.** An operation is its key. `outbox[o]` is its envelope: status, tries,
whether `nextAttemptAt` lies ahead, and the rank of `createdAt`. `drain` is the running
`flush`: its phase, the batch it read, what it visited, `blockedEntities`, the operation
it sends. `waiting[a]` says whether the gateway or the engine awaits request a, or
nobody any more. `tapped` and `copies` are the running calls of `retryAllNow` and the
envelopes they read. `shown[o]` (what the user was told), `owner[o]` and `session` are
history: what the user interface and the person know. `SubmitOffline`, `SubmitOnline`,
`GatewayAnswer`, `GatewayTimeout` are the gateway; `ReadQueue`, `HoldBack`, `Transmit`,
`EngineAnswer`, `EngineTimeout`, `EngineThrows`, `DrainEnds`, `ProbeFails` the engine;
`Reconnect`, `Resume`, `KeepMine`, `UseServer`, `RetryFlushes` and `Restart` call
`Flush`, which does nothing while a drain runs.

**FeeLedger.** `invoice`, `heads`, `account`, `collection`, `refund`, `reduction` and `closed`
are the committed rows. `txn[t]` is an open transaction: where it is (`pc`), which handler it
belongs to (`via`) and what it has read (`seen`, the outstanding amount it will compute
with). `createCollection` is `CollectLocks` (lock the invoice, check) and `CollectCommits`.
`cancelCollection` is `CancelBegins` (an unlocked read), `CancelLocks` (lock the collection,
read it again, read the invoice *unlocked*), `CancelCommits`. A refund is `RequestChecks`
and `RequestCommits`, then `ApproveBegins`, `ApproveLocks`, `ApproveCommits`; a late fee
`AccrueReads` and `AccrueCommits`. Requests that lock before they read (reductions, waivers,
cancelling an invoice, the close of a day) are one action. A row lock is a guard:
`InvoiceHeld`, `CollectionHeld`, `RefundHeld` are read off the transactions that hold it.
`Rollback` ends any open transaction without a trace. `expectedVersion` of
`cancelCollection` is left out: the app never sends it, so its predicate is always true.

**PaymentCapture.** `intent` and `instrument` are the payment rows, `disowned` is history:
intents for which a `payment.failed` was processed. `ConfirmReads`, `ConfirmLocks`,
`ConfirmCollects`, `ConfirmCommits` are `confirmPayment`, which locks the intent before
the invoice; `WebhookReads`, `WebhookCollects`, `WebhookCommits` are the webhook, which
locks the invoice and claims the intent last (`markIntentCaptured`); `WebhookFails` is
`payment.failed`; `Register`, `ReconcileReads`, `ReconcileCollects`, `ReconcileCommits`,
`Bounce` are the cheques. A webhook may be delivered any number of times. The row security
of the payment tables is left out: as migrated (`20260614600000…sql:96-121`) a school's
session may read payment intents and not write them, and a parent's reaches no finance table.
The model thus has steps that the policies forbid: it can only have more behaviours than the
code, so what it keeps safe is safe there.

**AiCredits.** `call[c]` is a request with one gateway call; `hold[c]` its reservation,
with what the clock makes of it (`"stale"` past the pending TTL, `"old"` past the ten
minutes of the sweep); `row[c]` its log row; `billed` is history. `Reserve` to
`ReserveCommits` or `ReserveFails` is `runReservation` on its own connection, alone in its
bucket (the advisory lock); `DecideDegraded` and `DecideBlind` are the gateway without a
reservation; `ProviderAnswers`, `ProviderFails` the provider; `FinishBilled`,
`FinishFailed`, `FinishDenied` the request's commit, in which each of the two telemetry
writes may be lost; `Die` the request that rolls back; `Grant` and `Expire` the
wallet's entries. `VisibleDebits` is what row security leaves of the log to a session.

**NotificationDrain.** `delivery` holds the committed rows in the order of `created_at`;
`worker[w]` is an open transaction with its own versions of the rows it wrote, what it
has claimed and what the provider has taken; `accepted` and `lost` are history. `Claim`
(or `SendDirect`, a request that enqueues and drains in its own transaction) starts a
drain; `Deliver`, `Reschedule`, `GiveUp` handle one delivery each, the last with
`maybeEscalate`; `Dispatch` claims a scheduled broadcast and fans it out; `Commit` makes
it all visible; `Rollback` loses the rows, not the messages. An inserted row that is rolled back
leaves its id `"void"`.

**Approvals.** `request`, `decisions`, `effect`, `order`, `received`, `commitment`, `pass` are
the committed rows; `released[p]` is history: how often a verification let the student go.
`txn[t]` is an open transaction. A decision is `Begin` (one id or a batch), then for each id in
any order `Skip` or `Claim` (`decideApproval`: the UPDATE with `status = 'pending'`), then the effect: on an order
`OrderLeft` (no draft any more), `OrderRefused` (its own requester) or `OrderSeen` and
`OrderApproved` / `OrderFails`, since the draft is read without a lock and written later;
on a pass `PassDecided` or `PassFails`. `DirectBegins` enters the same path without a request.
`Commit` makes all of it visible, `Rollback` none. Users are the ids that rows record, not
persons: `Begin` takes the id a decision comes under, and any user's will do. A batch comes under
its sender's id (`claims.sub`, `approval_handlers.ts:594`) and a direct approval too, a single decision under the
`actor_id` of its body and only without one under its sender's (`:426`); the checks of an order's requester and
`approved_by` use that id. The app names its own user, the handler does not compare the two. What
follows from it is in `MCApprovals_senders.cfg`. `decisions` counts the entries that decisions
write; `POST /approvals/audit` (`:675-726`) inserts entries without deciding anything,
is not called by the app and is left out. A receipt is `ReceiveBegins` (the status),
`ReceiveTakes` (the locked line, and the count of open lines), `ReceiveCommits`; a verification is
`VerifyReads` and `VerifyClaims`. `CancelRequest`, `CancelPass`, `Advance`, `Submit`,
`RaisePass` write with one guarded statement or under a unique index and are one step.

A definition marked *Slip* is a mistake one could make in the definition after it. No
specification uses it: it is there to see that a property notices the mistake.

### What is abstracted

- Bodies, row versions and error texts: an answer is the class the client sorts it
  into, and whether the server finds a conflict is a free choice.
- Backoff and the clock: `later` turns FALSE at some time. Equal `createdAt`
  timestamps do not occur (ranks are distinct).
- Store calls other than those of the retry loop are atomic with the step that awaits
  them: the read and the put of `resolveConflict` are one step. `retryAllNow` requeues
  its copies in any order.
- The probe of `isReachable` either fails or lets the drain go on if the app is online.
- Amounts are whole units. Which head a payment goes to, receipt numbers, dates other than
  the day a collection is for, and who may approve what are left out.
- A payment is dated any day of `Day`, "today" being none of the model's business.
- A provider's answer that is refused or discarded was billed like one that is served. The
  limit per user and the spend cap have the shape of the school's limit and are left out;
  the rate window is one that nothing leaves (a row that ages out only makes room).
- One recipient per broadcast, one organisation, every device token known.
- An approval request has the type of its subject, and one entity type per type, so that the
  unique index on pending requests admits one for a subject. Ids are the server's: a request
  names a subject that exists. An id a batch does not find is skipped and left out.
- A receipt takes in one line; all lines have the same quantity. Orders have a requester (rows
  without one are of before the migration). `cancelled`, which no route sets on an order, and
  the expiry of a pass, which only refuses a verification, are left out.
- Tokens: a 401 is one of the rejected answers.
- The unscoped bypass, `Die` and failing bookkeeping are there but can be switched off
  (`Scoped`, `Faults`) to keep a run small.

## Runs

| run | instance | shows |
|---|---|---|
| `dispatch_faithful` | two keys, one of them scoped; three requests; kills, failing bookkeeping; routes that commit, refuse | types; `AtMostOnce`; the refinement `KeepsPromise` |
| `dispatch_anyroute` | the same with routes that commit and then fail, two requests | what remains: `SuccessIsCommitted`, `SettledIsFinal` |
| `sync_retry` | two writes of one record (one high-risk), two requests, one running *Retry now*, conflicts, timeouts | `BatchIsCurrent`, `DrainKeepsOrder`, `ConfirmedIsFinal` |
| `sync_switch` | a queueable and an online-only write, all answers, lost requests, failing bookkeeping, one kill, one logout | types; `ReclaimOnlyOrphans`; `ReceiptIsFinal`; `QueuedIsKept` |
| `sync_settles` | two high-risk writes of one record, two tries, fairness | `SettlesEventually` |
| `fees_ledger` | one invoice of two units, two collections, two refunds, one reduction, one day, two overlapping transactions, two submission keys | `MoneyBooked`, `RefundsWithinCollection`, `CancelledIsFinal`, `ClosedDayKept` |
| `fees_billing` | the same without refunds, with a late fee | `NeverBelowZero`, `TotalIsNet`, `OneLateFee` |
| `fees_capture` | one online payment and one cheque on one invoice with a late fee, two collections, two overlapping transactions | types, the ledger's too; `CapturedOnce`, `CapturedIsBooked`, `BouncedIsFinal` |
| `ai_credits` | three calls, two buckets, a limit of two, one credit | types; `WithinLimit`, `WithinCredits`, `ChargedIfBilled` |
| `notify_drain` | two deliveries, two overlapping drains, a broadcast, two tries, one crash, either order of two channels or none, fairness | types; `SentOnce`, `EscalatedOnce`, `FannedOutOnce`, `EachSettles` |
| `approvals` | one order with two lines of one, one gate pass, two requests, two users, two overlapping transactions, batches | types; `DecidedOnce`, `CommittedByOther`, `OrderEffectTaken`, `ReceiptsRight`, `PassFollowsRequest`, `ReleasedOnce` |
| `sync_replayed` | violation | a 409 for a request still running is taken as proof that it was applied |

Further configurations are kept beside the runs; each is run as shown at the end.

| configuration | outcome |
|---|---|
| `MCNotify_hops.cfg` | passes: `HopsBounded` and `EscalatedOnce` with three deliveries, enough for two escalations |
| `MCDispatch_retryable.cfg` | violation: a failed release is swallowed and the key stays held |
| `MCSync_held.cfg` | violation: a newer write is sent while the older one of its record is parked |
| `MCSync_interrupted.cfg` | violation: a kill during the direct send loses the write |
| `MCSync_taps.cfg` | violation: a second tap on *Retry now* requeues what the first has had confirmed |
| `MCSync_logout.cfg` | violation: a write in progress at logout is queued after the wipe |
| `MCSync_timer.cfg` | violation: a queued write waits for a reconnection, a resume or a tap |
| `MCFees_lockstep.cfg` | violation: a payment booked between the unlocked read and the write of a refund or a cancellation is lost on the invoice |
| `MCFees_reconcile.cfg` | violation: two overlapping reconciliations book one cheque twice |
| `MCAi_wallet.cfg` | violation: two schools are charged for one credit |
| `MCAi_denials.cfg` | violation: a call the wallet refused takes a slot of the rate window |
| `MCApprovals_passes.cfg` | passes: `PassFollowsRequest`, `ReleasedOnce`, `PassIsFinal` with two passes and three requests |
| `MCApprovals_denied.cfg` | violation: a denied approval stays decided |
| `MCApprovals_batch.cfg` | violation: a cancelled pass takes a whole batch of decisions with it |
| `MCApprovals_rejects.cfg` | violation: a draft order cannot be rejected |
| `MCApprovals_complete.cfg` | violation: every line is received, the order only partially |
| `MCApprovals_workflow.cfg` | violation: the workflow step approves without a commitment |
| `MCApprovals_senders.cfg` | violation: an order's requester sends, under another id, the decision that commits the books to it |
| `MCApprovals_orphans.cfg` | violation: a cancelled pass leaves its request pending |

**Bounds and why they are enough.** Requests are reused once their caller dropped them,
so two or three bound the *simultaneous* requests, not their number; a key's runner,
its loser and a late third cover the shapes of the table's races, and requests with
different keys share nothing. Two operations of one record are what order needs. `MaxTries` is 1 or
2 for the 10 of the code: only reaching the cutoff matters, and tries saturate there.
`MaxCommits = 2` is what it takes to see a second commit. One kill and one logout at any
point; a second one meets the same states. `MaxTries = 1` makes every timeout park the
operation as failed, which is how *Retry now* gets work; `sync_settles` has the backoff.
One running *Retry now*: with two that overlap, `ConfirmedIsFinal` does not hold (a copy
read before a confirmation is requeued: `MCSync_taps.cfg`), nor does `DrainKeepsOrder`, at
the price of a resend the server replays. `BatchIsCurrent` holds with any number of taps.
Requests are symmetric in the safety runs, and no property tells them apart; the
fairness runs declare no symmetry.

The ledger's races are between two transactions on one invoice or one collection, so two
open transactions, one invoice and two rows of each kind are what they need; two
units allow a part payment, and the invoice is open again whenever something is
cancelled or refunded. Late fees and refunds together are out of reach: `fees_ledger` has refunds and
`LateFee = 0`, `fees_billing` late fees and no refunds. Three calls are one more than the limit and
two more than the credit; `MaxCredit = 1` bounds what is bought and what is
taken back. `MaxDelivery` bounds the rows of the queue: an escalation that would exceed it is
left out (`GiveUp`), which `MCNotify_hops.cfg` makes up for; `Batch = 2` lets a drain hold two
deliveries; `MaxRetries = 2` has one retry and a last try; `MaxCrash = 1` rolls one
drain back at any point, and a second one meets the same states. The races of an approval are between two transactions on one request, one order, one line or
one pass; the second request follows one that was decided or cancelled, or makes a batch over
an order and a pass; two users are the least that can approve, and two lines
what it takes for an order to be partly received. Deadlock is checked in
every run but those of `AiCredits`, where the system stops when every call has ended and
the bounds on credit are reached, and of `Approvals`, where it stops when every row is used
and closed.

**Fairness.** `FairSpec` promises what the program and the server do by themselves: a
request is answered (weak fairness of the server's steps; the executor's receive
timeout bounds the wait, `GatewayTimeout` and `EngineTimeout`), a started drain and a
started retry loop go on (they are `for` loops over awaits that return), and a backoff
ends. Two things are promised under repetition only (strong fairness): a probe that is
repeated for ever does not fail for ever, and sending an operation does not throw
for ever. Reconnecting, resuming, tapping and submitting are promised by nobody;
`SettlesEventually` therefore assumes `<>[]online` and uses `FairSpecResume`, in
which the user comes back to the app again and again. `MCSync_timer.cfg` shows that this is
needed.

`FairDrainSpec` promises that an open drain goes on (a `for` loop over awaits that return),
that a retry time comes, and that the queue is drained again as long as something is
due: the cron sweep of scheduled broadcasts starts a drain for every active organisation
each time it runs (`communication_handlers.ts:734`), besides the drains that requests
start. `EachSettles` does not assume that the provider ever takes a message: tries run out.
That a drain does not roll back for ever is `MaxCrash`.

## Proofs

All theorems hold for every number of keys, requests, operations, retries, kills and
logouts, invoices, payments, amounts, transactions, calls, buckets, deliveries, chains, requests,
orders, lines and passes,
from the named assumptions on the constants of each module (`DispatchAssumption`,
`SyncAssumption`, `LedgerAssumption`, `CaptureAssumption`, `CreditsAssumption`,
`DrainAssumption`, `ApprovalAssumption`). `LedgerAssumption` has the sets of rows finite,
as the sums over them need; `DrainAssumption` keeps the value that stands for "no
broadcast" out of the broadcasts.

*Server.* `DispatchInvariant` proves `DispatchInv`, for any route. The properties are not
inductive by themselves: that a second request cannot run needs that a running request's
row is held (`RunnerHoldsClaim`: INSERT ... ON CONFLICT then fails); that a replayed 2xx
answers a commit needs that a stored row and a request about to store one have a commit
behind them (`StoredIsCommitted`); that nothing runs after a 2xx needs that the 2xx is
backed by a stored row, which nothing removes (`OkIsStored`). `OneRunner`,
`SuccessMeansCommitted`, `SettledStaysSettled` and `DispatchTypeCorrect` follow.
`ExactlyOnce` needs more: that a free key, and a key whose runner has not
written, is uncommitted (`FreeIsUncommitted`). That fails for a route that commits and
then reports an error, because the claim is then released; hence the hypothesis
`Faithful`. `Refinement` maps `commits` to `effects` and the 2xx on their way to
`acknowledged`: the first commit takes effect, a store or a replay acknowledges,
dropping the last answer forgets, every other step stutters.

*Composition.* `SyncIsDispatch`: whatever the app does, the server sees a behaviour of
`DispatchSpec`; so `OperationsOnce` and `SyncKeepsPromise` hold of the whole, and
`DispatchInv` may be used in what follows.

*Client.* `SyncInvariant`: types, and `OneDrain` (only a drain in phase `sending` awaits an
answer, one, for an operation of its batch), from which `ReclaimsOrphans`.
`ReceiptInvariant` is the reason a fee receipt may be issued on a success shown at
submission although the classifier takes *any* 409 `IDEMPOTENCY_CONFLICT` for a success:
an operation the user was told nothing of is stored nowhere (`FreshIsUnstored`), so neither
engine nor user can send it; one not submitted has no request and no row
(`UnsentIsFree`); so the gateway's request is the first with its key and finds
the row free (`FirstRequest`): its answer is never the wrapper's 409. `ReceiptsAreFinal`
follows. The engine's requests have no such property: see `sync_replayed`.

*Queue.* `KeptInv` (`QueuedStaysListed`): every operation the user was told is queued has an
envelope, or belongs to a session that was logged out. `AheadIsPending` (`BatchStaysCurrent`):
of what the drain has ahead, no other step makes anything but pending; what was
just submitted is in no batch, which needs `FreshIsUnstored` again. Order and finality
(`DrainsInOrder`, `ConfirmedStaysSo`) need `QueueInv`. Its core is a notion of what the drain
does not reckon with (`Loose`): an operation it neither has ahead nor goes on from, having
confirmed it. Whatever is failed, parked or about to be requeued is loose, so a requeued copy
cannot come between two operations of the batch (`CopiesCurrent`); what the drain left behind
in an entity it goes on with is confirmed (`BehindIsConfirmed`); what it sends is the oldest
ahead (`SentIsOldest`). `CopiesCurrent` is where `retryAllNow` matters: two taps that overlap
hold two copies of one failed operation, the first is requeued and confirmed, the second
reopens it. Hence the hypothesis `[]OneTapAtATime` of these two theorems. The button is not disabled
while a tap runs (`sync_center_screen.dart:40`), so nothing in the code enforces it, and
`MCSync_taps.cfg` shows that without it they are false.

*Ledger* (`LedgerInv`). What an open transaction has read is stale, so no property is
inductive about rows alone. `Fits` says what remains true of a transaction until it
commits: the amount it collects is at most what it saw, nothing it saw is negative, its row was
not cancelled when it locked it; `OneLocks` says that two transactions do not hold the
same collection. From that `ChargesNotNegative` (a stale write is never negative, although it
may be wrong), `BookedOnce`, `CancelIsFinal` (a transaction that pays a refund holds the
collection, so it is not cancelled meanwhile).

*Money* (`MoneyInv`, on top of `LedgerInv`). `Counts` says what the amount of an open transaction
is: a refund about to be paid is still pending and fits beside what was paid on its
collection, because the sum was taken under the collection's lock; a cancellation gives
back all of a collection nothing was refunded on, or nothing. `RowsCount` ties the status
of a collection to its processed refunds. With them each step moves `account.paid` by what it
adds to `Kept` of one collection: `PaidIsKept`, `PaidBackWithin`. `NetOfReductions` and
`LateFeeOnce` follow the same way from what each step does to the totals, the late fees and the
reductions in force. `Undated` (a row not inserted has no day) is what `ClosedDayStays` adds: a
collection that appears on a day was looked up by `Locked` when it began. The sums are folds
over finite sets. What the proofs need of them (the sum of no elements, of one more, of
equal terms, over part of the set, with one term changed) is in `Sums`. The library has no
facts on folds, and its induction theorems take an operator as parameter; so `Sums` shows that
the recursion of the fold has a solution and that the order in which it picks its elements
does not matter, each time by a set of numbers or of finite sets that is closed under the
step and hence holds them all.

*Payments* (`CaptureInv`, which adds `PaymentsInv` to `LedgerInv`). `OneOwns`: a confirmation that has
locked its intent is alone with it; `TxnFits`: it posts for an intent that is not
captured; `IntentFits`: an intent that is not captured has booked nothing, one that is
has booked the collection it points at. The webhook has no such lock while it books: its
claim at the end is what keeps the second collection out. Hence `BookedOncePerPayment`,
`CapturesAreBooked`, `BounceIsFinal`. The ledger's theorems carry over to the composition:
`LedgerPart` says that a step of a payment or an instrument moves the ledger as one of its own
steps does, but for a row that is read or locked first and for who may book; so
`PaymentsNotBelowZero`, `PaymentsKeepMoney`, `PaymentsKeepCharges`, `PaymentsKeepHistory`.

*Credits* (`CreditsInv`). The limits are not inductive: while a transaction that admitted its call is
open, there must be room for it (`LimitKept`, `CreditsKept`), and that the room is not
given away twice needs that a bucket has one open reservation (`OneReserves`, the advisory
lock) and that a sweep takes only holds of requests that have ended (`SweepsEnded`). Hence
`LimitHolds`, `CreditsHold`; `Charged` follows from what the place of a call says of its
hold (`Sound`).

*Notifications* (`DrainInv`). A row that one open transaction wrote is written by no other
(`Exclusive`) and is still what it was when it was locked (`Held`): hence `SentOnceEach`,
an exact count of how often the provider got a message. `FallbackTerminates`: a hop is
taken only below the length of the chain, and a valid chain names a channel once, so
that depth stays below the number of channels whatever the school edits meanwhile.
`EscalatedAtMostOnce` and `BroadcastOnce` need `OriginInv`: where each row comes from, those too
that an open drain has inserted and not committed. Such a row follows from a delivery which the
same drain marked failed, and so holds, and from which it inserted nothing else (`Origins`), or
from a broadcast that no other drain dispatches (`Jobs`).

*Approvals* (`ApprovalInv`). Again nothing holds of the rows alone. `Apart`: two transactions
have claimed no request, written no subject and counted no line together. `Fits`: what an
open transaction has claimed is still pending, what it wrote is still as it was when it wrote it, the effect it
recorded is of a subject it wrote or found closed, and the room it saw on a line is still
there. Hence every step, and above all `Commit`, keeps the rows right (`RowsKept`), and
with them `OnceDecided`, `PassFollows`, `OnceReleased`, `OtherCommits`, `EffectsTaken`,
`GoodsRight`. `OtherCommits` relates two recorded ids, the order's requester and the approver its
commitment came under; of persons it says something only where a decision comes under its
sender's id, as batches and direct approvals do. `PassStaysFinal` is an action property from the
same invariant: what a transaction writes is pending, so no closed pass is written.

*Proved, and in no run of the list:* the inductive invariants (`DispatchInv`, `OnceInv`,
`ReceiptInv`), and what they give directly: `SingleRunner`, `KeyedOnce`, `PassIsFinal`,
`LedgerTypeOK` (which `CaptureTypeOK` contains).

*Only model-checked:* the liveness properties `SettlesEventually` and `EachSettles`
(temporal reasoning under fairness is out of the prover's reach), and all violations.
`MoneyInv`, `OriginInv`, `KeptInv` and `QueueInv`, which no run of the list names, were
model-checked before they were proved, on the instances of `fees_ledger` (without its
reduction), `notify_drain` (with a third delivery), `sync_switch` and `sync_retry`.

## Findings

One disagreement between the code and a statement of the repository has a run that shows it;
`PROJECT.json` quotes the statement.

1. `sync_replayed`: the drain's request times out while the server still works on it; the
   retry gets the wrapper's 409, which `classifyResponse` takes for a replay; the operation is
   confirmed; the first request is then refused. The write is lost and listed as applied.

The others are violations of the configurations listed above, and hazards with a note that quotes what the
repository says of them: `applyProcessedRefund` and `cancelCollection` write the invoice's outstanding amount from an
unlocked read, so a payment booked in between is lost on the invoice while the account, moved by
deltas, keeps it;
across drains a newer write overtakes a parked older one; the gateway stores an operation only
after the answer; logout stops neither a send nor a drain; the design's backoff timer and
enqueue hook are not wired; a failed release leaves a claim that nobody holds; a cheque can be
booked twice by two overlapping reconciliations; the wallet belongs to the organisation, but
the session that admits a call sees only its own bucket's debits once they have left the reservations; a call the wallet refused counts in the
rate window; `decideOne` returns the denial of an order's own requester after the request was
decided, so the request is committed as approved, no effect is recorded and the order stays a draft, where
a test says that the write is undone; deciding a request whose pass was cancelled throws and rolls back its whole
batch, where a comment says that no id aborts it; rejecting an order writes `rejected`, which
its table does not admit; two receipts may leave an order partially received although all its lines are; the
workflow step approves an order without a commitment; a cancelled pass leaves its request pending;
a single decision comes under the id in its body before its sender's, so an order's requester who may
approve can commit it under another id, where a test's comment
(`qw4_approval_decision_audit_test.ts:19-22`) has the token's user decide.

Divergences without a configuration: a route that commits and then throws is run
again; a token without a school bypasses the wrapper; a direct send overtakes a queued
write of the same record; a low-risk conflict is retried without a cutoff; a collection
may commit into a day closed meanwhile; after `payment.failed` a captured payment may be
posted again; reversing something on a cancelled invoice issues it again; a send that throws
ends every drain; an expired token's 401 reaches the outbox as a permanent failure; direct sends that time out may be queued in
reverse; a late fee may be added to an invoice paid or cancelled meanwhile; the lease for
deliveries left in `sending` never applies, because claim and marks commit together.

## Not modelled

Generating and issuing invoices, discounts, scholarships and installment plans; payment requests,
signatures and the key of `initiatePayment`; the response caches of the gateway; message
threads, templates, tokens and acknowledgements; the effects of approvals other than on orders and
passes, approval entries made by hand (`POST /approvals/audit`), permissions, stock valuation, the expiry of a credential; and the components listed under *The
rest*. The record-keeping modules change one row in one transaction and the algorithms
(timetable, statutory payroll, analytics) are sequential: neither has interleavings to
explore.

## Running

    tlc -workers 2 -config MCSync_retry.cfg MCReliableSync.tla
    tlc -workers 2 -config MCFees_ledger.cfg MCFeeLedger.tla
    tlc -workers 2 -config MCApprovals_all.cfg MCApprovals.tla
    tlc -workers 2 -config MCApprovals_senders.cfg MCApprovalSenders.tla
    tlapm ReliableSync_proofs.tla
