# TLA+ models of mintcode-api

mintcode-api sells voucher codes that are redeemed for one SMS verification
code. Redeeming a voucher makes a *task*; a *worker* process buys a phone number
from the 5sim service for it, waits until an SMS arrives, and stores the code.
Users drive tasks through `/redeem`, developers through `/dev/redeem`,
administrators make vouchers and configure what is bought. Everything is kept in
MySQL, and the processes meet only there.

Paths below are relative to `src/mintcode-api/`.

## 1. Inventory

| Component | State | Operations | Meets others through |
|---|---|---|---|
| Redeem worker, `mintcode_api/worker.py` | memory of one step: the claimed task, loaded rows | `_claim_next`, `_process_one`, `run_loop`'s except branch | tasks, provider states, configurations, success rows; 5sim |
| User redeem API, `routes_redeem.py` | none between requests | create, query, get, cancel, next, complete; mock `_process_task` (inline mode) | tasks, provider states; 5sim for cancel and complete |
| Developer redeem API, `routes_dev.py` | none between requests | create, get, wait, cancel | tasks, provider states, idempotency keys, audit log |
| Developer request security, `dev_security.py` | keys, nonces, rate-limit counters | `require_dev`, `rate_limit_voucher` | runs before every `/dev` handler, in its own session |
| Admin API, `routes_admin.py` | keys, voucher batches, configuration and its history | generate, list, upsert, enable and disable keys | configuration (read by the worker), vouchers |
| Voucher codes, `vouchers.py` | none | Crockford encoding, labels, random codes | admin generate |
| Web page, the JavaScript in `app.py` | current voucher and task, two timers | start, actions, polling, reset | user redeem API over HTTP |
| 5sim (external) | orders and their SMS | buy, CHECK, CANCEL, FINISH | worker, cancel, complete |
| Tables, `models.py`, `db.py` | the schema, its keys; sessions | | all of the above |
| Audit log, `audit.py` | rows, appended | `add_audit_log` | the caller's transaction |
| Migrations, `alembic/` | the schema, `alembic_version` | seven revisions, statement by statement | the tables, while the API may serve |
| Startup check, `app.py` | none | compares `alembic_version` with the head, `create_all` | migrations |
| Settings, schemas, health, regression scripts | | | |

What is hard in it:

* **Snapshots and locks.** MySQL's default isolation is REPEATABLE READ. A
  session's first SELECT fixes what all its later SELECTs see, an UPDATE works on
  the current row. A worker's claim is a SELECT followed by an UPDATE, so it decides
  on a task as it is and on a provider state as it was. Handlers read, maybe wait for
  5sim, and write without a condition on the row.
* **A lease without fencing.** Before the purchase the worker commits and thereby frees
  the row; from there on only the lease keeps others away, and the write that
  follows does not test it.
* **Money.** A purchase is remembered in the database only after it was made. The
  *buy guard* (`buy_attempts`, `buy_inflight_until`) is committed before it. 5sim's
  answer may be lost although the number was bought; the code then buys again.
* **Failure.** Workers crash; `run_loop` fails a task in a second session.
* **Ending.** Every task should end, whatever the configuration and 5sim do.
* **Half an upgrade.** MySQL commits every DDL statement, so a migration that is killed
  leaves a schema between two revisions, under the old version number. The old API
  may serve meanwhile, and insert rows the migration has already passed over.
* **Collisions.** A batch of vouchers is inserted with INSERT IGNORE beside other batches;
  codes that others have are dropped, codes that others are inserting make it wait.

What makes each component correct: *worker* - leases are respected and always
present, purchases stay within the committed guards, a delivered code is kept and its
order closed, every task ends; *handlers* - a voucher is consumed only with its
code, a reset starts from nothing, a refused operation changes nothing; *security* - a
nonce passes once, no window lets more than the limit pass; *idempotency* - one key,
one request, one task; *vouchers* - a batch has exactly the codes it asked for, each of
them decodable to its label; *admin API* - what is committed is in the audit log and the
other way round; *migrations* - an upgrade can be resumed, and a key that was used before
it is not new after it; *startup check* - the API that serves finds its schema complete;
*page* - what it shows is an answer about the current
task. The hazards are listed, each at its line, in `PROJECT.json`.

## 2. Plan

| | Module | Composes | State |
|---|---|---|---|
| 1 | `RedeemStore`: tables, locks, clock | | done |
| 2 | `Fivesim`: the external service | `RedeemStore` | done |
| 3 | `RedeemWorker`: the worker processes | `Fivesim` | done |
| 4 | `RedeemApi`: the handlers that write tasks | `RedeemWorker` | done |
| 5 | `RedeemSystem`: all of it, and its properties | `RedeemApi` | done |
| 6 | `RedeemProofs`: proofs about `RedeemSystem` | | types, leases, ownership of codes done |
| 6b | `GuardProofs`: the buy guard | `RedeemProofs` | purchases, attempts, flight time done |
| 7 | `DevSecurity`: timestamps, keys, nonces, rate windows | | done |
| 8 | `DevRedeem`: idempotency key, public id, the wait loop's snapshot | `DevSecurity` | done |
| 8b | `DevProofs`: proofs about `DevRedeem` | | all its invariants done |
| 9 | `RedeemUI`: the page's script against an abstract server; answers in any order | | done |
| 9b | `UIProofs`: proofs about `RedeemUI` | | all its invariants done |
| 10 | `TaskLife`: the life of a task as clients see it; `RedeemLife`: the redeem service implements it | `RedeemSystem` | done |
| 10b | `TaskLifeProofs`: what `TaskLife` promises | | done |
| 10c | `LifeProofs`: the redeem service implements `TaskLife` | `RedeemProofs`, `RedeemLife` | done, for one worker and one handler per task at a time |
| 11 | `Vouchers`: Crockford's base 32 and labels, against a reference over bits | | done |
| 12 | `AdminApi`: the requests that write, their audit rows, the INSERT IGNORE loop | `Vouchers` | done |
| 12b | `AdminProofs`: proofs about `AdminApi` and the encoder of `Vouchers` | | all its invariants done |
| 13 | `Migrate`: the migrations, beside the old and the new API | | done |
| 13b | `MigrateProofs`: proofs about `Migrate` | | all its invariants done |

With that every invariant that a run checks is a theorem, too. What is left to TLC is named at the end of
section 5.

No module that is proved about uses a RECURSIVE operator.

## 3. The modules and the code

**`RedeemStore`.** `tasks` and `sts` are `redeem_tasks` and
`redeem_task_provider_states` as committed, functions of the voucher because
`voucher_id` is unique in the first and `task_id` the key of the second. `config` is
the row of `sku_provider_configs` for the SKU, `successes` the counts of
`sku_provider_config_successes`, `lock` the row lock that a claim's UPDATE takes on a
task. `grants` is history: how many purchases the guard has let pass for the present
provider state. The field `round` of a provider state is history, too: it counts the
rows that a task has had one after the other. Because the key is the task's id, the
code cannot tell them apart: a session that loaded the old row updates the new one.
Only a session that found *no* row and inserts one fails if there is one by then
(`NoClash`). Columns that no decision reads (phone, price, last_error, upstream_status,
timestamps but `created_at`) are left out.

**`Fivesim`.** Orders are bought from a finite stock; an SMS may arrive, 5sim may
drop the order; CANCEL and FINISH may have no effect. A code is represented by the order it
came with. `voucher` and `round` are history.

**`RedeemWorker`.** One action per transaction, or per external call where the row is
not locked or the call has an effect:

    idle --ClaimSelect--> selected --ClaimUpdate--> claimed
    claimed --Unserviceable, AttemptsExhausted, InflightWait, DeliverCode, OrderLost,
              NoSmsYet, CheckFails--> idle
    claimed --FinishCall--> finished --FinishCommit--> idle
    claimed --ExpireCall--> expired --ExpireCommit--> idle
    claimed --GuardCommit--> granted --BuyNumber--> bought --BoughtCommit--> idle
                             granted --BuyNumber--> fallback --BuyFallback--> bought or failed
                             granted --RefuseConfig--> failed or rejected
    failed --BuyFailedCommit--> idle      rejected --RejectCommit--> idle
    any of them --DbError--> rolledback --CleanupRead--> cleaning --CleanupCommit--> idle
    any of them --Crash--> down --Restart--> idle

In detail:

* `ClaimSelect` fixes the snapshot: provider state, configuration and success count are
  those of that instant although the code reads them later. `ClaimUpdate` waits for the
  lock and tests the *current* task. When it misses, the remaining four rounds of the
  loop at `worker.py:317` read the same snapshot and miss too, hence one action.
* Between the claim and its commit the task's row is locked, and nobody else can change
  it: `tasks[v]` is what the session sees. The status set by the UPDATE is not
  visible before the commit, so `tasks` changes at commits only.
* CHECK has no effect upstream and the row stays locked until the commit: one
  step. CANCEL, FINISH and the purchase have an effect and are steps of their own.
* The ORM writes the columns that changed: `Current(w)` is the row as it is
  *now*, and an action replaces the fields it assigns. `_release_with_status` writes
  owner and lease only if the loaded copy had them (`Released`).
* `max_buy_attempts`, `buy_inflight_seconds` of 0 mean the defaults (`or 3`, `or 20`);
  the constants stand for the values in effect.
* `DbError` is any database error in the transaction, a deadlock or a lock wait timeout
  included. An error while claiming, or in the except branch, leaves `run_loop` and
  ends the process: that is `Crash`.

**`RedeemApi`.** A handler is a read (`CreateRead`, `NextRead`, `CancelRead`,
`DevCancelRead`, `CompleteRead`), perhaps a call to 5sim (`UpstreamCall`), and a commit
(`CreateInsert`, `ResetCommit`, `CloseCommit`) that writes what was decided on the
copy read, waiting only for a worker's row lock. Each element of `Request` is a
handler in progress. Answers that write nothing (refusals, a task in progress that is
only shown) are not steps.

**`RedeemSystem`** puts the parts together, with the clock, the admin and 5sim as
`Environment`, and states the properties.

**`TaskLife`** is what is promised of a task without leases, snapshots, polls and guards:
`life` (open, delivered, done, failed, canceled), the `code` shown, and `plans`. A
decision that is not written at once is a plan: formed when the life allows
it, it takes effect on whatever the life is later. The client's plans are a new start, a
cancellation and a completion, the worker's is a purchase. **`RedeemLife`** maps the service
to it: PENDING, PROCESSING and WAITING_SMS are open, a handler between its read and its
commit holds a plan, and so does the worker between the buy guard's commit, which frees
the row, and its next one. Two departures that a reader of the documentation would not
expect are in `TaskLife` because the code has them: a purchase, or the cleanup after an error,
turns a task that was cancelled meanwhile open or failed; and a new start that was
planned before a code was delivered (a late purchase came in between) keeps that code, with
which the new redemption may end (`worker.py:131-137`).

**`DevSecurity`** is `require_dev` and `rate_limit_voucher`. `counts` is
`developer_rate_limits`, a counter per key, address or voucher and per window;
`nonces` is `developer_nonces`; `admitted` and `passed` are history. `require_dev` looks
at its clock and at the key, waits for the body, and does all the rest without
awaiting again. The deployment runs one server process, whose event loop
therefore runs that rest for one request at a time: `Presentable` is tested in
one step, `Admit` is the other. A request refused by a limit commits what it
counted, a replay is rolled back. The HMAC is taken to be unforgeable.

**`DevRedeem`** is `/dev/redeem`'s create and wait. Handlers run in threads, beside each
other:

    idle --Arrive--> arrived --Authenticate--> admitted
    admitted --LimitVoucher--> counted --Lookup--> answering, inserting, resetting,
                                                    naming or recording
    inserting --Insert--> loading <--Reset-- resetting
    loading --Load--> naming --Name--> recording --Record--> answering --Reply--> idle
    admitted --WaitBegin--> waiting --WaitGivesUp--> idle
    any of them --Dies--> idle

where `loading` skips `naming` when there is a public id, and both skip `recording`
without an Idempotency-Key. Each step is a transaction, or the first read after
one: `Lookup` reads the key's row and the task in one snapshot, `Load` is what the session
reads after its commit, and `Name` and `Reset` write whatever the row is by then.
A task is here only its public id and whether its status is in
progress (`active`), `settled` or `consumed`; `Others` lets users and workers create
tasks and change that status at any time, which includes all that
`RedeemSystem` allows. The body of a request stands for its voucher. The rounds of wait read through
one session in one transaction, so they all see what `WaitBegin` has read, and
`WaitGivesUp` decides on that.

**`RedeemUI`** is the script of the redeem page (`app.py`) and, in short, the server it
talks to. `page` is what the script and the document keep, `calls` the requests in
flight. The functions of the script have their names; an `async` function is split at
its `await fetch`: `StartRedeem`, `DoAction` and `Tick` send, `Deliver` is what follows
the answer (`Answered`), `Fails` the `catch`. Enter submits the form also while its
button is disabled, so several starts may be in flight. A task is named by its
voucher, and of the seven statuses the page tells four classes apart (`Stage`).
`Serve` is the handler's decision and write, `Respond` reads the row again after the commit,
for which others may have changed it. `Others` is all that workers, developers and other
pages do to a task.

**`Vouchers`** has the functions of `vouchers.py` as operators. `value` in the encoder
keeps all the bytes, but only bits of the last two are ever looked at (`Window`); digit `i` comes
out with the byte that completes its five bits (`Digit`). `Base32` is the reference: the
bytes as one row of bits. A code is the sequence of its digits, which compare like the characters
because the alphabet is in ASCII order. `Sorted` puts a code at the place that the number of codes
before it tells.

**`AdminApi`** has the requests of `routes_admin.py` that write. The handlers run in threads, so a
request is as many steps as it sends statements that others can tell apart. A batch is generated by

    idle --GenerateBegin--> drawing --DrawCodes--> inserting --InsertRow--> drawing
    drawing --GenerateLog--> logged --GenerateCommit--> idle
    drawing --GenerateRaises--> idle     any of them --Deadlock, GenerateLost--> idle

where `InsertRow` is one row of the INSERT IGNORE (it waits for an open transaction that has
inserted the same code) and, after the last, the count. The others select a row, change it in memory and
call `db.commit()`. The session does not flush by itself before that (`autoflush=False`, `db.py:18`), and then sends
statement by statement, sorted by table:

    upsert:  idle --UpsertLoad--> loaded --UpsertLog--> logged --UpsertRow--> stored
             --UpsertHistory--> recorded --UpsertCommit--> idle      logged --UpsertFails--> idle
    key:     idle --SwitchLoad, CreateKey--> loaded --SwitchLog--> logged --SwitchRow--> stored
             --SwitchCommit--> idle
    any of them --ChangeLost--> idle

that is, the INSERT into `audit_logs`, the statement for the row itself, the INSERT into the history, and COMMIT.
The rows of `audit` and `history` are in the order of their ids, as the history is read
(`routes_admin.py:422`): a row gets its place when it is inserted, is `open` until its transaction ends, and
is `committed` or, its id being used up, `none` from then on (`Settled`). Only the row's own statement takes the
row lock or waits for it (`Locked`). The ORM's UPDATE names the columns whose value is
not the loaded one (`Changed`, `Updated`), so that of two upserts a mixture may stay. Where none differs no
UPDATE is sent: such a request waits for nobody and may commit between the UPDATE and the COMMIT of another one. What a
request has written is in its `row` until its COMMIT. An upsert that has found no row inserts one, and fails if there is one
by then. Each audit log has one kind of action; no property compares ids of two kinds.
`by` numbers the requests and is history, as are `served` and `overlapped`, the requests for a key that met another one
between their SELECT and their COMMIT. InnoDB's gap locks, and the deadlock of two that wait to insert the row that a third
one takes back, are abstracted: they would add waits and rollbacks, which end as in `Deadlock`, `GenerateLost` and `ChangeLost`.
`PayloadAssumption` is what `AdminGenerateVouchersRequest` lets pass (`schemas.py:10-16`: a count, length
and label length of at least one, no label longer than the 52 digits of a SHA-256), and that
`token_bytes` returns as many bytes as it was asked for.

**`Migrate`** has each revision as data, a sequence of statements: `Look` (the inspection of the
schema), `Create`, `Ensure` (create unless the last look found it) and the four that rewrite
the tables of nonces and idempotency keys (`fill`, `drop`, `renew`, `require`, and `relax`). `schema`
is the set of what has been created, `rows` the rows of the two tables, each a set of records that have an id. `UpgradeStep` runs a statement
and commits it, `Stamp` writes the version, `Kill` may come anywhere. `fill` stands for the UPDATEs
and the DELETE up to the next DDL, which commits them. The old unique index is not
dropped by revision 6, because the foreign key needs it and the error is swallowed (`AfterDrop`).
`OldInsert` is the API as it was at revision 5, external to the present source; `NewInsert` the present
one. `StartApi` is the startup check.

**`MCRedeem`**, **`MCDev`** and **`MCAdmin`** hold symmetry sets and inputs for the runs.

Definitions called faults (`LapsedNever`, `GuardedUncounted`, ...) are not part of
the specification: they are what a plausible bug would make of the definition below
them, kept to show that each property is sensitive to the code it is about.

## 4. The runs

| Run | Question | Size |
|---|---|---|
| `Workers` | two workers, one fault, a 5sim that loses answers: `TypeOK`, `ProcessingHasLease`, `CodeFromOwnOrder`, `PurchasesWithinGrants`, `LeaseRespected` | 590 000 states |
| `Handlers` | one worker against all five operations, one handler at a time, two provider states, one fault: `ConsumedHasCode`, `AttemptsRecorded`, `NoBuyInsideInflight`, `WorkerKeepsDelivered`, and the refinement `ImplementsTaskLife` | 1 500 000 states, 2 to 3 minutes |
| `Takeover` | two workers, a crash without restart: `ClaimEnds`, `DeliveryCloses` | liveness |
| `Progress` | one worker, two vouchers, three configurations: `RedemptionEnds` | liveness |
| `Developer` | two developer requests, with one nonce, two vouchers and one idempotency key, beside users, workers and admin: `DevTypeOK`, `AdmittedOnce`, `LimitsKept`, `AnswersRecorded`, `AnswersOwnVoucher`, `RetryNeverActs` | 840 000 states |
| `Page` | two vouchers, two requests in flight, one change by others: `UITypeOK`, `NoTimerLeak`, `FormUsable`, `OnlyLatePollSilences`, `PageCatchesUp` | 84 000 states, liveness |
| `Admin` | two admin requests at a time, three in all, one lost, statement by statement; codes that collide, with and without a label: `AdminTypeOK`, `CodesWellFormed`, `BatchExact`, `ConfigAsStored`, `AuditTells`, `GenerateEnds` | 340 000 states, liveness, 2 to 3 minutes |
| `Migrate` | two upgrades at once from each revision, one of them killed, beside the old API: `MigrateTypeOK`, `ServesCurrentSchema`, `KeyAdmittedOnce`, `UpgradeResumes` | 390 000 states, liveness, 2 minutes |
| `DevCancel`, `StaleClaim`, `PublicId`, `LongPoll` | statements of the documentation that the code does not keep (section 6) | a shortest counterexample each |

All runs but `Migrate`, where upgrades go on up to the head and the API can then be started and stopped, have `CHECK_DEADLOCK FALSE`: the clock,
the faults and the requests are bounded and clients need not ask for anything, so the system may stop for good
reasons.

**Bounds.** Time is counted up to `Horizon`, where the clock stands still and later
deadlines are cut to it; a deadline is then due, so nothing waits for ever because of
the bound. The durations (`Lease`, `Inflight`, `Poll`, `Wait`, `Lifetimes`) are small
numbers in the order that the defaults have (a lease outlives the flight time, the wait the
poll), and since no duration bounds how long a worker stays in a phase, every
relation of a step to a deadline occurs. One voucher is enough for safety: a worker
holds one task and no property relates two (`Progress` has two for the claim's
order). What two vouchers and two workers could do to each other, the clash when both insert the first
success row (`worker.py:83`), is a branch of `DeliverCode` that no run reaches; the theorems are for any number of both.
`Progress` has no faults: that a crash does not stop a redemption for ever is `ClaimEnds` in `Takeover`. Two orders are what one attempt can buy. `MaxStates` is two where resets are allowed:
one stale row and the one that replaced it. `MaxFaults` is one.

In `Developer` the clock has three instants, which are two windows and more than the
allowed skew; the limit of the key is two, of the address and voucher one, so each counter
is below, at and over its limit; two handlers in progress are what a race takes, and since a handler's slot
is free again after its answer, an idempotency key is also used one request after another.

In `Page` two requests and two vouchers are what it takes to answer out of order and to mix
up two submissions; the requests of the page itself change a task any number of times, so
one change by others is enough for a status that the page did not cause.

In `Admin` two batches at a time are what it takes to collide and to wait for each other, and a third
request what it takes to find the rows of one that is through. The codes are drawn from six byte
strings that differ early, late, and in a bit the code does not have; `Room` keeps the batches from
asking for more codes of a length than there are. A labelled batch has its tag inside the random digits,
and bytes and `MCMac` are such that one of its codes is a plain code of the same length in all, so that batches of
both kinds meet; other places of the tag, lengths and counts are left to the theorems (section 5). The tag is put in inside
the digits here, so the position that `routes_admin.py:175` clamps is left to them, too. Two upserts of one row, two
requests for one key, and a third request after or beside them are what the orders of ids, locks and commits take. A configuration
has two columns, so that two upserts can mix. `MCSpec` keeps batches and changes in separate behaviours (`Apart`): they
have no row, no lock and no part of `audit` in common, and the theorems are about `AdminSpec`, which does not separate them.

In `Migrate` one key is enough: no two keys meet in an index, and a key that comes twice is what the
property is about. Every statement of the seven revisions is a place to be killed at or overtaken.
The run starts at each revision up to the fifth, with the schema that revision leaves, and the old API serves
from the fifth only: databases made by `create_all` instead of migrations are not considered.

**Preconditions.** `AttemptsRecorded` and `NoBuyInsideInflight` are checked with a single
worker: with two, both may have loaded the same stale count (a claim that was selected
before the first worker's guard commits, and updated after). `ConsumedHasCode` and
`WorkerKeepsDelivered` need, besides, a single handler per voucher at a time, and so does
`ImplementsTaskLife`. `UpgradeResumes` starts at version 1: the baseline creates its
tables unguarded, and an upgrade killed within it fails from then on. `ConfigAsStored` speaks of each column and of the
upserts that found another value there when they loaded: an upsert that changes nothing may take the last id of the
history and another one's configuration come into force after it. `AuditTells` does not say that the audit log and the
history have the upserts in one order, which they need not, and of a key's last row says nothing when its request met
another one for the key: ids are taken before the lock. The bound
`PurchasesWithinGrants` needs neither, which is why it is stated in terms of guards and not of
`buy_attempts`.

**Fairness** (`Fairness`). The clock ticks; a worker that is up gets on with its loop
(`run_loop` is a `while True` with a sleep of a second, its calls have timeouts and the
database ends lock waits). It is weak fairness of the worker as a whole, not of its
single actions: whether an answer has an SMS or a purchase succeeds is up to
5sim. Nothing makes a crashed worker restart, so `Takeover` relies on the other
one; nothing makes clients ask, an SMS arrive or 5sim answer well.

In `AdminApi` a handler that runs goes on, deadlocks are found, and the random draws do not for
ever miss the codes that nobody has: strong fairness of `DrawsFresh`, since drawing
is not always possible while the batch is inserting. In `Migrate` the operator runs the upgrade again
until it is through, as the error of the startup check and `README.md:33-43` ask for; upgrades that are
killed are bounded. Nobody has to start the API.

In `RedeemUI` the interval fires and a request ends, in one way or another. `Tick` is
treated strongly because only the bound `Call` may disable it; in a browser nothing
limits the requests in flight. Any single poll may fail; that not all of them do
(`PollServed`, `PollArrives`) is what "the network works" means, and without it no
page catches up.

## 5. The proofs

`RedeemProofs` proves for every number of vouchers, workers, handlers, orders,
configurations and faults, and any timing:

* `TypeCorrect`: `Spec => []TypeOK`,
* `LeaseSafe`: `Spec => LeaseRespected`,
* `CodesSafe`: `Spec => []CodeFromOwnOrder`,
* `LeasesSet`: `Spec => []ProcessingHasLease`.

They rest on the named assumptions on the constants (`None` is not a member of what it
stands beside, durations are naturals, `Voucher` is finite) and on three inductive
invariants:

* `Shape` = `TypeOK /\ WorkerOnTask /\ RequestOnTask`. Types alone are not inductive: an
  action updates a field of `tasks[v]` or `sts[v]`, which is typed only if the row
  exists. `WorkerOnTask` says of every phase which of its voucher, task, provider
  state and configuration exist; `RequestOnTask` the same for handlers.
* `ClocksBehind`: a claim's time is never ahead of the clock. A lease that
  has ended by the claim's time has then ended by the clock, which is `LeaseRespected`.
* `Ownership` = `StatesOwned /\ WorkersOwned /\ CodeFromOwnOrder /\
  ProcessingHasLease`. The code comes from the order in the copy of the provider state
  that the worker holds, so the order there, and in the row that copy comes from, must
  have been bought for that voucher. `ProcessingHasLease` needs to know that
  whoever clears the lease also sets another status.

Each invariant has a lemma for the initial states, a lemma per kind of step and one
for `Next`.

`GuardProofs` is about the buy guard. It first sorts the steps: each one lets a purchase pass the
guard (`Grants`), or buys (`Buys`), or does neither (`Quiet`) and then changes no more of a provider state and of
the orders than `Kept`, `Replaced` and `OrdersOnly` say. The invariants need only be looked at for these three.

* `PurchasesCovered`: `Spec => []PurchasesWithinGrants`, for any number of workers. `PurchasesWithinGrants` alone is
  not inductive, since a worker that has passed the guard has yet to buy. `Covered` counts what it may still buy,
  as `Credits(v)`: two for a worker that was granted, one for one that has come to the fallback, as a subset
  of workers times `{1, 2}`. Purchases and credits together are at most two for each guard, and only a guard adds to that
  sum. `RoundsPast` is needed for a fresh provider state: no order is of a round that has not begun.
* `AttemptsCounted` and `FlightsRespected`: `buy_attempts` is at least the number of guards passed, and no guard
  passes within the flight time of the one before. Both have the hypothesis `[]OneDecides`: no two
  workers have selected or claimed the same voucher. Without it they are false, as section 4 says under
  preconditions: the second worker goes by a count it selected before the first one's guard. The invariants are
  `Counts` (the count a worker goes by is not behind the guards) and `Flights` (the flight time it goes by is the row's).
  `SingleWorkerGuard` shows that with a single worker the hypothesis always holds.

`LifeProofs` is about what becomes of a delivered code, and proves the refinement. It again sorts the steps,
into those of a worker (`Selects`, `Claims`, `Goes`, `Leaves`, `Decides`, `Finishes`, `Expires`,
`Concludes`) and of a handler (`Plans`, `Calls`, `Answers`, `Inserts`, `Resets`, `Rewrites`), each with what it may do to
the task, its lock and the rest.

* `ConsumedCodes`: `Spec /\ []OneHandlerEach => []ConsumedHasCode`, where `OneHandlerEach` says that no two handlers
  are busy with one voucher. The invariants are `Locked` (a worker between claim and commit has the row's lock) and
  `CodesKept` (the task of a handler about to complete it, and of a worker that has sent FINISH, has its code).
* `TaskLifeImplemented`: `Spec /\ []Alone => ImplementsTaskLife`, where `Alone` also asks for no two workers
  on one voucher (`OneWorkerEach`): a lease may lapse while its worker is still at work, and then two may be.
  A step is mapped by its kind to the step of `TaskLife` named in its lemma, or to a stutter. The invariant `LifeInv`
  adds to the above what the mapping needs: a worker that claims a delivered task knows its order's time to be up
  (`ClaimFits`, which rests on `AllTimed`, a time is known only together with its order, and on `Configured`, the
  configuration of a delivered task is not taken back), and a handler's plan fits the life it will be carried out on (`PlanFits`).
* `DeliveredKept`: `Spec /\ []Alone => WorkerKeepsDelivered`.
* `SingleService`: with one worker and one handler the hypotheses hold by themselves, and all three theorems
  follow from `Spec` alone. `ServiceKeepsCodes` brings the service and the abstract specification together: what
  `TaskLifeProofs` proves of `TaskLife` holds of the tasks of the service.

`DevProofs` proves every invariant of the run `Developer` for any keys, addresses, vouchers,
nonces, limits, window length, skew and number of requests: `DevTypeCorrect`,
`AdmittedOnceHolds`, `LimitsHold`, `AnswersOnRecord`, `AnswersOwn`, `RetriesQuiet`. Its
inductive invariant `DevInv` has four parts:

* `DevShape`: the types; `HandlersOK`, what each phase of a handler implies of the rows
  (a task that was found goes on to exist, a handler about to answer has a task with
  a public id and, under a key, a row that names it); `RowsOK`, an idempotency row
  names the task of its body. Handlers do not disturb each other because rows only grow
  (`RowsGrow`): tasks are not deleted, a public id may change but not vanish, an
  idempotency row is final. `HandlerStays` draws that conclusion once for all steps.
* `Counting`: what passed a counter was counted by it, so that a test of the counter bounds it;
  `LimitsKept` alone is not inductive.
* `Remembering`: a signature that is not on record was never admitted.
* `Answers`: the two properties of the answers given.

`UIProofs` proves every invariant of the run `Page` for any vouchers and any number of
requests in flight: `UITypeCorrect`, `NoLeak`, `FormStaysUsable`, `SilencedLate`. `UIInv` adds to
them that a task the page or a request knows of exists (`PageOK`, `Known`), so that an
answer has a status, and that a poll is not refused (`CallOK`). The script's functions have a lemma each (`StopType` to
`AnsweredType`), the steps that only move a request share `CallChanges`. `SilencedLate` goes by what an answer
does to a page that polls or shows a final status (`AnsweredSilent`).

`TaskLifeProofs` proves of `TaskLife`, for any vouchers and codes, `DeliveredHasItsCode` (a delivered
or completed task shows a code) and `DeliveredCodeStays` (a delivered code is neither replaced nor its
task opened again, unless the client cancels or had planned a new start). Types and `DeliveredShowsCode`
are not inductive; `PlansFit` adds that a purchase is planned for an open or cancelled task only, a
completion for a delivered one only, and that the client has one plan at a time. By `TaskLifeImplemented`
both hold of the service under `Alone`.

`AdminProofs` proves every invariant of the run `Admin` for any requests, payloads, keys, configurations, lengths
and byte strings:

* `AdminTypeCorrect`, `CodesNeverTwice`. The invariant `AdminInv` adds `BatchesServed`: the open batches
  are exactly those of the requests that generate, one each, so that a request that fails takes only its own vouchers
  with it.
* `ConfigStored`. Two invariants hold of both kinds of changes: `NumbersFit`, no two requests have a number in common, and `PlacesFit`,
  the rows a request says it has inserted are there, open, with its number and what it wants, and no other row has its number;
  so that the end of one request settles its own rows and nobody else's. `ConfigFit` adds that one upsert at most has
  written the configuration, that what it will commit is the row in force with the columns it wants changed, and that its history
  row comes after all those that are committed and changed something. The last holds because a history row of an upsert
  that changes something is inserted with the lock held; the rows of those that change nothing may come anywhere. It
  rests on `ConfigAssumption`: a row made of columns of configurations is one.
* `BatchesExact`. `CountsFit` says of a batch being inserted that its rows and the rest of the round together are
  at most its count, and of one being drawn that `inserted` is the number of its rows. A code that is
  there already shortens the round without a row, which keeps the inequality; the loop ends where it is an equality.
* `AuditComplete`. `BatchesFit` says that what is logged is what is committed, batch by batch; for the upserts that is in
  `PlacesFit` (`Matched`). `KeysFit` says of a request for a key that it has met another one, or is the only one for the key, has
  loaded the key's state, and its audit row comes after all those committed.
* `EncodesBits`: for bytes of any length the encoder puts out the bits, five by five, with zeros behind the last.
  It goes by where the digit begins in its byte (eight cases), each a fact about the binary digits of two bytes (`WindowBits`).
* `CodesDecodable`. A code is in three parts, and cutting it at the recorded places returns them (`PutTogether`), so the
  codes of `CodesFor` are well formed (`CodeMade`). `sorted()` returns only codes it was given (`SortedKeeps`: no two of one length
  have equally many before them, so by counting every place is taken), and `CodesFit` follows them from the draw to the table.

`MigrateProofs` proves every invariant of the run `Migrate` for any number of upgrades at once, keys and kills:
`MigrateTypeCorrect`, `ServedSchemaIsCurrent`, `KeysAdmittedOnce`, all from `MigrationsSound`. Its statements are sorted
by kind first (those that make one part, those that make a table with its index, those that rewrite a keyed table).
`MigrateInv` has four parts:

* `SchemaFits`: all that the revisions up to the version make is there, but for what a later one takes away; a
  keyed table is there with all its parts or not at all, and never without a unique index.
* `UpgradesOn`: what an upgrade has passed in its revision is done and stays so, although another one
  may be ahead of it, behind it, or begin again; and what its last look saw is still there.
* `RowsFit`: a key that was admitted has exactly one row, whether that row has the key, the hash or both, so that
  revision 6's deletion of duplicates removes none; where the hash must not be null, every row has one.
* `ApiFits`: the new API is up only at the head, the old one only from revision 5 on.

**Left to TLC.** Liveness is beyond this prover: `ClaimEnds`, `RedemptionEnds`, `DeliveryCloses`, `PageCatchesUp`,
`GenerateEnds`, `UpgradeResumes`. The four statements of section 6 are false. The hypotheses
`OneDecides`, `OneHandlerEach` and `Alone` are there because the code does not keep these properties without them;
`RedeemProofs` and `PurchasesCovered` have none.

## 6. Where code and documentation part

| Run | The document | The code |
|---|---|---|
| `DevCancel` | `DEVELOPER_API.md:200`: a CODE_READY or DONE task is not cancelled | `routes_dev.py:229-254` tests a copy and writes without a condition: a code delivered in between is cancelled |
| `PublicId` | `DEVELOPER_API.md:152`: for an active task the existing task_id is returned | `routes_dev.py:153-155`: two creates that find no public id both write one, the first answer's id is lost |
| `LongPoll` | `DEVELOPER_API.md:154,164`: the long poll answers with the code when it has arrived | `routes_dev.py:201-222`: all rounds read in one transaction and session, so the code is never seen |
| `StaleClaim` | `DEVELOPER_API.md:9`: once the code is delivered the service is complete | `worker.py:337-347` claims any CODE_READY row, and decides on the older snapshot |

Three more places came up, which no run is kept for. The commit after a purchase writes WAITING_SMS
over a cancel that was committed during it (`worker.py:260-270`), while `DEVELOPER_API.md:204` says
that cancelling again gives the same result: `TaskLife` has this as the effect of a purchase on a canceled
life. A purchase whose answer is lost is placed again inside the same attempt (`worker.py:223-258`),
while `prod.env.example:31` says that the flight time prevents a repeated purchase: `PurchasesWithinGrants`
bounds it by two per guard. And the remedy that `app.py:39-40` and `README.md:40-43` give for a
schema that is out of date, to upgrade again, does not help when the upgrade was killed within revision 1.

## 7. Not modelled

The inline mode's `_process_task` (a mock, not used in deployments), read-only
endpoints of all three APIs, HTML and CSS, formatting of answers, schema validation (it bounds the inputs
the models take), the health endpoint (a constant), the regression scripts, which run against a
live deployment. Of the page, the query tab, the countdown and the admin page, whose configuration form can
be filled with one SKU's configuration and saved for another (`app.py:631`). Of the migrations, the downgrades:
one hazard of theirs is in the list, `0007`'s drops the index over the hashes, then fails on rows of
the new API, and leaves the version at the head. The worker makes no startup check and is not part
of `Migrate`. `success_count` may lose deliveries when two workers count at once (`worker.py:102`); nothing
in the system depends on it. The audit rows of the developer API are left out. `PageCatchesUp` says nothing of a page that
has stopped polling: a poll's answer that arrives after a cancel's shows the old, open
status again, with polling off (`app.py:1694-1696`), until the user acts; and a request
that has failed for the browser but is carried out later is left out. A worker's or handler's
connection that dies without the server noticing, so that its locks stay, is not
modelled, nor are clocks that differ between hosts: all times come from one clock. Forged
signatures and several server processes behind one address are outside `DevSecurity`.
