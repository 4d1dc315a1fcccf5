# A model of the ERP's coordination core

This directory holds TLA+ models of the parts of the ERP platform whose
correctness depends on the order in which things happen: several API processes
share one PostgreSQL database, requests overlap, clients retry, processes die.
Each model is translated from the code of `src/apps/api/src` (paths below are
relative to it unless they start with `src/`), `Ingestion` from that of the
contracts service in `src/contracts/backend/app`. They are checked with TLC on small
instances and, where a claim matters for every size, proved with TLAPS.

## 1. The system

The platform is a NestJS API over PostgreSQL (TypeORM), a React client, and a
separate Python service for contracts. The API is about sixty modules. Most of
them edit records with a status, one `save()` at a time. What makes the system
hard is shared by all of them and is concentrated in few places.

| Part | State | Operations | Interacts with |
|---|---|---|---|
| Leases, `common/leases` | one row per loop: holder, expiry | `tryAcquire` (conditional upsert), `release` | every background loop; clocks of processes and database |
| Job queue, `common/jobs` | rows with status, attempts, `run_at` | `enqueue`, `retryDead`, the polling tick: claim, handle, complete, catch | Leases (one poller), handlers of other modules |
| Idempotency, `common/idempotency` | one row per scope hash | reserve, store, release, replay | every POST that carries a key |
| Approval engine, `modules/workflow` | definitions, instances with step and history | start, approve, reject | approval matrix (rewrites definitions), events |
| Process engine, `modules/workflow/bpm` | instances, stages, tasks | start, decide, escalate | delegation |
| General ledger, `modules/finance/gl` | journal entries and lines, periods | create, post, edit, delete, reverse; close, reopen, edit a period; balances | every module that posts: payables, receivables, payroll, expenses, assets |
| Payables, payment runs, `modules/finance/ap`, `payment-run` | bills, holds, payments with allocations, runs | create, edit, post, void; pay, allocate; propose, approve and post a run | General ledger |
| Procure to pay, `modules/procurement`, `finance/grir` | orders, receipts, vendor invoices, clearing entries | approve, receive, confirm, match, pay, clear | Payables, Inventory |
| Budget encumbrance, `modules/finance/encumbrance` | commitments, obligations and expenditures against a budget | check funds, commit, liquidate | orders and requisitions |
| Inventory, sales, `modules/inventory`, `sales` | stock balances, stock ledger, FIFO layers, adjustments, orders | receive, issue, transfer, adjust, ship | Procure to pay, General ledger |
| Leave, `modules/hr/leave` | applications, encashments, balances, accrual log | apply, decide, accrue | a daily sweep |
| Payroll, `modules/payroll` | salaries, runs, payslips, arrears records | create, process, approve, pay, cancel | General ledger |
| Licensing and billing, `modules/licensing` | contracts, invoices | the billing cycle, invoices by hand | Leases (hourly sweep) |
| Receivables, expenses, automation, webhooks | invoices and receipts, claims, rules, deliveries | as the parts above | Leases; called by most modules |
| Offline sync, `modules/sync` | mutation log; stamps of rows, the device's cursor | push, pull | handlers of other modules, a mobile device |
| Contracts service, `src/contracts` | ingestion rows, contracts; a queue and a worker in memory | register files, extract, retry, validate, reject, restore, delete | watched folders, Google Drive, a service manager, mail |

The hard behaviours, and what correctness means for each part:

* **Interleaving at every `await`.** Between reading a row and saving it, other
  requests run, in this process and in others. Transactions run at PostgreSQL's
  default READ COMMITTED, so they see each other's commits between two queries.
  Whatever was checked may be stale when it is used: two decisions of one
  approval step, two reversals of one entry, two requests that both find "no key
  yet". A job must be in one tick's hands, a step decided once, the books
  balanced.
* **Failing writes whose effect is unknown.** A query may throw with or without
  having changed the row. A handler must not be run again for work it did, and a
  stored answer must not be lost.
* **Work kept in memory.** The contracts service queues documents in a list that
  dies with the process; only the rows' statuses remain, and threads and requests
  write them beside the worker. No document may be forgotten, extracted into two
  drafts, or missed because it arrived while nobody watched.
* **Crashes.** There is no supervisor inside the system: what a dead process was
  doing is resumed only if a row says so and somebody looks. A lease must pass
  on; a job should be resumed or at least known to be stranded.
* **One fact in several rows.** What was paid of a bill stands in the bill, in
  allocations and in the ledger; a quantity in a balance, a stock ledger and layers;
  days in a balance, applications and a log. The rows are saved one after the other,
  often outside a transaction or past it through another connection, and a request
  may die between two saves. The rows must agree when nothing is under way, and a
  request that breaks off must not make an amount count twice.
* **Retries and lost answers.** Clients post again; devices send their whole
  outbox again. A mutation must take effect once, in order, and be answered with
  one outcome.
* **Clocks.** Leases compare an expiry computed by one clock with another clock;
  the pull cursor is rounded to milliseconds and compared with microseconds. No
  two leaders, no row that a device never gets.
* **Definitions edited under way.** The approval matrix rewrites steps while
  instances wait at them; a period is closed while an entry is being posted.

`PROJECT.json` lists every component with its sources, whether it is modelled and
why not, and the hazards at their lines with the properties that cover them.

## 2. The modules

| Module | Models | Composed with | Proved in |
|---|---|---|---|
| `Lease` | `common/leases/lease.service.ts` and the timers of its users | | `LeaseProofs` |
| `Jobs` | `common/jobs/jobs.service.ts` | instantiates `Lease` | `JobsProofs` |
| `Idempotency` | `common/idempotency/idempotency.interceptor.ts` | | `RetryProofs` |
| `Workflow` | `modules/workflow/workflow.service.ts`, and what `approval-matrix` does to definitions | | `WorkflowProofs` |
| `Requests` | what all handlers of the business modules share: awaits, overlap, death | extended by the nine below | `RequestProofs` |
| `Process` | `modules/workflow/bpm/bpm.service.ts` | `Requests` | `OperationsProofs` |
| `Leave` | `modules/hr/leave/leave.service.ts` | `Requests` | `OperationsProofs` |
| `Payables` | `finance/ap/ap.service.ts`, `ap-hold.service.ts`, `finance/payment-run` | `Requests` | `FinanceProofs` |
| `Payroll` | `payroll/runs`, `payroll/retro`, `payroll/payroll-gl.service.ts`, salaries of `payroll/components` | `Requests` | `FinanceProofs` |
| `Encumbrance` | `finance/encumbrance/encumbrance.service.ts` | `Requests` | `FinanceProofs` |
| `Receiving` | `procurement/po`, `procurement/grn` | `Requests` | `OperationsProofs` |
| `Clearing` | `procurement/vendor-invoice`, `finance/grir` | `Requests`; entries of receipts come from outside | `OperationsProofs` |
| `Stock` | `inventory/inventory.service.ts`, and what `sales` does to stock | `Requests` | `OperationsProofs` |
| `Billing` | the billing cycle of `licensing/licensing.service.ts` | `Requests` | `FinanceProofs` |
| `Ledger` | journal entries and periods of `modules/finance/gl/gl.service.ts` | | `FinanceProofs` |
| `MCRequests` | | all ten business modules, in one run | |
| `Ingestion` | the intake of the contracts service: `services/watcher.py`, `extraction_worker.py`, `gdrive.py`, and the requests on what it produces | | `IngestionProofs` |
| `SyncPush` | `push()` of `modules/sync/sync.service.ts` | | `RetryProofs` |
| `SyncPull` | `pull()` of the same file | | `RetryProofs` |

The modules named `MC...` give constants values. A definition introduced by "a
slip of ..." in a comment is the same operation with a plausible mistake in it;
the runs must notice each of them (`mutants` in `PROJECT.json`).

### Conventions

* One action per step between two awaits. An operation that the code does in one
  statement of the database (`tryAcquire`'s upsert, `claimNext`'s `UPDATE`, the
  insert that reserves a key) is one action.
* A call that fails its first check returns an error and changes nothing: there
  is no action for that.
* `save()` is TypeORM's `Repository.save()`, which is not in this repository: it reads the
  row again, compares it with the entity in memory, updates the columns that differ (or
  inserts the row when it is gone), and compares no `@VersionColumn`. `Workflow` and
  `Leave`, whose requests write different columns of one row, have its two steps. In the
  other modules over `Requests` a save writes what is in memory at once. That is the same as
  long as requests for the row do not overlap, which is what their properties are about; the
  exceptions are `NoStageJumped`, which speaks of columns that every save justifies by
  itself, and `BooksBalance`, whose amounts stand in lines that are inserted and deleted.
* What `query()` answers to the `UPDATE ... RETURNING` of `claimNext` (`jobs.service.ts:64`)
  is a constant of `Jobs` with both values (`Answers`). The annotation there and the unit
  tests take `rows[0]` to be the claimed entity (`"entities"`). TypeORM 0.3 on Postgres
  answers the pair of rows and count (`"pair"`): `rows[0]` is then a list, has no type and
  no attempts, the handler is not found, the catch block computes an invalid date and its
  update throws; the row stays RUNNING and no job is ever done. A raw row would have
  `max_attempts` and not `maxAttempts` besides.
* Tenants are independent: a model is of one tenant.
* History variables (`since`, `done`, `ran`, `applied`, `decided`, `alone`, `disjoint`,
  `consented`, `aborted`, `forfeited`, `unchecked`, `lost` of `Receiving`, `torn`, `layered`,
  `swept`, `failed`, `stale`, `adrift`, `early`), the record `budget`, and counters with a `Max...` bound are not in the code. A bound limits how often the
  environment misbehaves in one behaviour, or how much work there is.

### Lease

`lease` is the row, `running[i]` the ticks process `i` runs as leader, `since[i]`
how long ago it last won. Time is counted in polling periods. The row keeps the
time left instead of two absolute clocks: `expires_at` is `Date.now() + ttlMs` of
the process but is compared with `NOW()` of the database, so a new lease has
`Ttl + d` left for some `d` up to `Skew`. `TryAcquire`, `Release`, `LoseHolder`
and `Age` are the effects on the row, which `Jobs` uses too; `TickStarts`,
`TickEnds`, `GiveUp`, `Crash` and `TimePasses` are the loops. Holder ids are drawn
at random when a process starts, so a dead process's id is nobody's (`Gone`).

### Jobs

`job` is the table; `tick[i][s]` where tick `s` of process `i` stands and which
job it holds. `setInterval` does not wait for an asynchronous tick, so a process
may have several. `StartTick` wins the lease; `Claim` is `claimNext`;
`HandlerSucceeds`/`HandlerThrows`, `Complete`, `Catch` are the parts of
`processNext` (`Claim` strands the row if the answer is a pair), and `ClaimFails`, `CompleteFails`, `CatchFails` the same writes
when they throw (the row may be changed all the same). `CompleteFails` leads to
the catch block because the write is inside the `try`. `LeaderElected` states
that the ticks of the queue implement `Lease`: it is `Lease!Spec` with `running`
mapped to the ticks that are not idle.

### Idempotency

`row[k]` is the row of a scope hash, `stage[r]` where request `r` stands, `ran` the
requests whose handler took effect. The RxJS pipeline of the interceptor is its
order of steps: `Reserve` (or `ReserveLoses`), the handler, `Store` before the
answer is sent, `Release` in `catchError`, which also catches a failing store.
Handlers are external; one is taken to be a transaction.

### Workflow

`row[w]` is an instance, `chain` the approvers of the definition's steps,
`call[c]` a call of `approveStep` or `rejectStep` with the entity it holds in
memory. A call goes through `Load`, `Decide` (which reads the definition, later),
`Compare` and `Save`, the two parts of `save()`, and `Emit`. Two overlapping calls mix
columns: an approval to step 2 and a rejection may leave a rejected instance at step 2.
`decided` keeps every decision that was saved. `EditChain` and `Retire` are what
`updateRule` and `deleteRule` do to the definition. `MCWorkflow` has chains of one and two
steps, an open step, one nobody can decide and an empty one.

Only the chains that the approval matrix builds are modelled: each step leads to
the next or ends. Resolution of roles and managers to users is taken as done.

### Ledger

`journal` and `entryLines` are the journal entries and their lines, `periodStatus` the
statuses of the periods, `caller[c]` what a request has read. A line batch keeps
which call persisted it because `DELETE` takes the lines that were there when it
began. Line amounts are reduced to the net per account, which is what balances
are made of; validation lets only balanced nets pass (`Nets`, an assumption of the
module). `Number` is `MAX + 1` and `Clash` the unique index that aborts a
transaction whose number was taken. Every status check is made by a read before
the transaction that relies on it, and the model keeps the two apart. An edit may come without
lines, which then stay. A reversal whose date falls in no period takes the period of the
original, and nothing looks at the status of that one (`ReverseRead`, `gl.service.ts:701`).

### Requests and the business modules

`call[c]` is where request `c` stands and what it holds in memory, as a record with
the fields its next step needs. `Arrive`, `Await` and `Answer` are the three ways a
step ends; `Perish` is a process that dies or a query that throws, at any await,
with what was saved by then kept. `touches[c]` are the rows a request works on, and
`disjoint` says that no two requests with a common row have overlapped so far.

* **Process** follows one instance: `tasks` in the order they are created (one by
  one, `CreateTask`), `instance`, delegation rules, and `consented`, the tasks that
  were ever approved. A decision goes through `FindTask`, `LoadInstance`, `SaveTask`,
  then `SaveRejection`, or `CountApprovals`, `SkipTask` and `Advance` with the
  instance it read at the beginning. `ListPending` and `Escalate` are the sweep.
* **Payables** has bills with their entry in the ledger, payments with their
  allocations, and one run. A transaction's writes are in `written` until
  `CommitPayment`; `Rollback` drops them. `voidBill` calls `reverseJournalEntry`, which
  commits by itself (`ReverseBillEntry`, then `CommitVoid`); from then on the ledger counts
  the mirror and not the entry (`OnAccount`). `PayVendor` starts one
  transaction per vendor.
* **Leave** follows one employee, type and year. Applications and encashments are
  both claims. Decisions read the claim, then the balance, and save them in the other
  order; a save of the balance is `CompareBalance` and `SaveBalance`, so that an approval of a
  leave and one of an encashment that overlap both take effect. `ApplyLeaveDto.days` is any
  number, so applications for negative days are made, approved and cancelled too.
* **Payroll** follows one employee. A period is a month and a run type, and a run of any type
  pays the whole salary. `CommitProcess` makes the payslip, then the
  arrears come in by three saves (`SaveArrears`, `SaveRecord`, `SaveTotals`), and
  `CommitApproval` and `CommitPaid` post to salaries payable. `postPayrollToGl`, which ends an
  approval and may be called by itself, posts one more entry to the accounts that are mapped
  (`PostMapping`, `SaveMapping`), as often as it is called.
* **Encumbrance** is one account and year with its cost centres: `CheckFunds` for a centre
  sees the budget lines and rows of that centre only, one for none those of the whole account
  (`Sees`); `SaveCommitment`, and a liquidation by two saves, by itself or for every row of a
  source.
* **Receiving** is one order of several lines of unit price 1, and receipts that name some of
  them. `SaveLine` and `MarkOrder` go through `PoService`'s own connection and stay when the
  confirmation's transaction, `CommitReceipt`, does not commit. The match at its end compares
  the lines the receipt names and bills all of the order's (`Covers`). An SQL error in it is
  swallowed (`grn.service.ts:137`) and turns the COMMIT into a ROLLBACK, unnoticed: `LoseReceipt`.
  `BookLine` follows for each line of the receipt; `SkipLine` is a booking that fails.
* **Clearing** has the invoices of an order and the entries between receipts and
  invoices; `ClearReceipt` and `ClearInvoice` are the two saves of a pair.
* **Stock** is one item in several warehouses: balance, ledger and layers written by
  `WritePlace`, `SaveTaken`, `BookTaken`, `ConsumeLayer`; an order is shipped line by
  line (`WeighLine`, `Relieve`) before its lines are saved. The bodies of the requests have no
  type, so quantities are of either sign; `updateItem` (`ReadItemRow`, `SaveItemRow`) may change
  the valuation method with stock on hand.
* **Billing**: `CheckContract` looks an invoice up and `SaveBill` makes it; a sweep
  survives the failure of one contract (`FailInvoice`). Invoices by hand look nothing up.

### SyncPush and SyncPull

`SyncPush` has the device's outbox (`queued`, `told`), the log, and requests that
handle one mutation after the other: `Find`/`Reject`/`Take`, the handler, `Log`.
There is no transaction about the three, and the model lets requests overlap,
die at any step (`Die`) and lose their answers (`Lose`). `SyncPull` has rows with
stamps, transactions that stamp what they touch with the time they began, a
cursor rounded to `Tick`s, and a pull that reads the datasets one after the other.
The device is not in the repository; it does what the service's comments expect:
keep what is not answered, send it again, pull again.

### Ingestion

One process with its threads, over tables that survive it. `rows` are the ingestion
records and `contracts` what was extracted, each identified by its place. `Boot`,
`PutLeft` and `CommitLeft` are `start_worker`: the rows that wait or were being
extracted are listed, put on the queue one by one, and committed as QUEUED after
that, while the worker already runs. Then the watcher scans (`Scanning`) and, when
it is through, observes (`EndThread`). `CheckPath`, `LookUp`, `Insert` and `Put` are
`register_file`, run by the scan, by a thread per event (`HandleEvent`) and by a poll
of Drive (`Poll`). The worker goes from `CheckSwitch` to `Take`, `ReadRow`,
`StartExtract`, `Extracted` and `Store`, or to `ExtractFails`; a query that fails while it
looks the row up marks the row FAILED, whatever its status (`LookUpFails`). A request reads a
row and a contract (`Decide`), commits (`Save`) and may queue the row (`PutBack`); besides retry,
validate, reject, restore and delete there are archiving (`Archive`,
`duplicates_api.py:62`) and bringing a deleted contract back (`Return`, `retention_api.py:85`). A
session writes only the fields it changed (`Changed`): `expire_on_commit` and
`autoflush` are off (`database.py:12`), so what it read stays as it was read. `Crash`
takes the queue, the threads, the worker and the requests; a copy into a folder goes on.

## 3. What the runs show

Distinct states in parentheses. The longest passing run, `requests`, takes about three minutes.

| Run | Instance | Shows |
|---|---|---|
| `lease` (11,029) | 3 processes, 2 ticks each, term 2, clock difference 1, 2 crashes | Ticks of two processes overlap only if one outlived its minimum term; a dead leader is replaced. |
| `jobs` (438,377) | 2 processes, 2 jobs with 1 and 2 attempts, backoff 2, a crash, a failing write, a requeue; either answer of `query()` | No job in two hands; done once unless a write failed; every waiting job is completed, parked or stranded, the last only after a crash or a failed write, or if `query()` answers a pair; the queue implements `Lease`. |
| `jobs_restart` | as above, only a crash, and `query()` answers entities | *Violated*: a job in the hands of a process that dies is never resumed (§6). |
| `idempotency` (35,709) | 4 requests, 2 keys, 2 processes, a crash, 2 failing queries | One effect per key unless a query failed; replays are genuine; stored answers stay; reservations end. |
| `workflow` (594,990) | 2 concurrent calls, 3 users, 5 chains, an edit, a fault | Whatever columns overlapping saves mix, no step is reached or decided without an approval of each earlier one, an end is somebody's decision and the initiator takes none (`StepsApproved`). Without overlap status and step are what the history says and the one event matches (`EventMatchesOutcome`). Ends are announced. |
| `workflow_race` | no edit, no fault | *Violated*: both of two decisions commit (§6). |
| `requests` (735,282) | ten modules, each with 2 requests and a death; 2 rows of each kind | see below |
| `ledger_cancel` | one request at a time | *Violated*: a reversal does not cancel (§6). |
| `ingestion` (295,512) | two copies of one document, one of them on Drive; 6 combinations of crashes, requests, failures and changed settings | Queued rows are on the queue or about to be, crashes included (`QueuedWillRun`); one original per document and one draft per row, unless a superseded draft is brought back (`OneOfEach`); the worker finishes what there is (`Settles`); what is dropped while the process is down is registered (`OfflineNoticed`). |
| `push` (278,078) | 3 mutations (one of an unknown type), 2 requests at a time, a death, a lost answer | Every answer is the logged outcome; effects in order; once each if nothing overlaps or dies; the outbox drains. |
| `pull` (95,990) | 4 rows of one dataset, page size 2, one writer, a lost answer | Nothing is left behind the cursor; the device gets everything. |
| `pull_skew` | two datasets | *Violated*: a row is skipped for good (§6). |

**The run `requests`.** A behaviour is one of one module (`part`), chosen in the
initial state; the state of the others stays as it is. The rows of different tables
never meet, so they share two ids, `m1` and `m2`, which symmetry may swap, as it may
the requests. What each part shows:

| Part | Properties |
|---|---|
| Process | No stage is entered without an approval of each earlier one, whatever overlaps or dies (`NoStageJumped`). Undisturbed: an ALL stage is left with the approval of everybody it names and nobody is asked twice, and a running instance waits for somebody (`StagesServed`); without overlap an end and a decision are never overwritten, deaths included (`OutcomeStands`). |
| Payables | Allocations add up to what the bill says and never exceed it, and a run that was not broken off pays each vendor once, whatever dies (`BillPaidOnce`); the control account agrees with the subledger, up to the bills voided after they were posted, of which the mirror alone counts (`ControlAgrees`). |
| Leave | Without overlap: days are accounted for between balance, claims and log (`DaysAccounted`) and the balance never goes below zero (`NeverOverdrawn`), as long as no application is for negative days; no date is booked twice (`DatesBookedOnce`). |
| Payroll | A run pays out what it accrued, and a month has one run of each type, accrued and paid once (`PayrollSettles`). |
| Encumbrance | The budget of the account, and of each cost centre, is never overrun where every commitment was checked against it, and a liquidation changes no available funds of either (`FundsKept`). |
| Receiving | Booked, confirmed and received quantities are in step, line by line, and a receipt that bills the order names only lines that have arrived in full (`ReceiptsAgree`). |
| Clearing | Invoices are entered once and not before approval; cleared entries form pairs (`ClearedInPairs`). |
| Stock | Balances, ledger and shipped quantities agree whatever the signs and the valuation method; the layers agree with them for an item that was FIFO all along and saw no negative quantity (`StockAgrees`). |
| Billing | No month is billed twice by sweeps, none that a finished sweep was to bill is missing, every invoice has its lines (`MonthsBilledOnce`). |
| Ledger | The trial balance balances whatever overlaps (`BooksBalance`); unless requests overlap, a posted entry only changes by being reversed, entries are posted in open periods or mirror an entry of their own period, and no period closes over drafts (`BooksKept`), and a reversal mirrors and is linked (`Mirrored`). |

The run leaves out what no property is about: overlap of requests for a common row
is followed in `Process` only (and in `Ledger`), behaviours of `Stock` end with the
first disturbance, and once the request that may die has died, one is under way at
a time. Where further combinations show nothing new, `MCRequests` leaves them out by name
(`PayablesBounds` and so on): requests for the ledger that have overlapped are about one
period; one bill is held at a time; nothing is accrued where an application is for
negative days; two payroll runs differ in month or in type, and where the salary changes
they differ in month and nothing is posted by mappings; there are two commitments, with
liquidations for the source of the first row; an order of two lines needs no approval;
the contracts that are billed start in the same month. The proofs (§4) know none of these
bounds.

Each module's bounds let every case happen that its properties distinguish: two stages,
one with two approvers and an escalation, two vendors with a bill each and two
payments, two claims with equal or different dates and days of either sign, two pay months with a
change of salary between them and two types of run, a budget of a centre and one without that two
commitments exceed, orders of one and of two lines and receipts of one line or both, two receipts for
one invoice, quantities of either sign, a transfer between two warehouses and an
order of two lines, a quarterly cycle with a month that ends it and one that does
not, an entry with its mirror and the mirror's mirror, and two periods.

The type invariants are proved with the rest (§4); the runs check none.

**Why these bounds.** The properties are violated by two actors, so two or three of
each suffice to show what overlap can do; a third process in `lease` lets the lease
pass on twice. Jobs with one and two attempts have both outcomes of the catch
block, a term of 2 with a difference of 1 both early and late expiry, a page
smaller than the set of rows a truncated answer, `Tick` 2 a cursor that is really
rounded. Each kind of fault happens at least once and can fall on any step. What
larger instances would do is answered by the proofs (§4) for the modules that have
them; so is what several ticks of one process do, of which `jobs` has one
(`OneRunner`, `ExactlyOnce`, `QueueElects`). In `ingestion` each combination of bounds is
the smallest in which its events meet: two registrations at once, a crash between
any two steps, retries and decisions of one contract, settings changed under way.
`requests` uses symmetry of requests and rows, which are only compared for equality;
runs with liveness use none.

**Deadlock** is checked where the system has something to do for ever (`lease`, the
`jobs` runs; `idempotency` has an explicit final stutter). In `workflow`, `requests`,
`ledger_cancel`, `ingestion`, `push` and `pull` all work may be done, so a state without successor is an end and
not a deadlock.

**Fairness** is weak and only on what the runtime does by itself: time passes and
`setInterval` keeps firing in a live process (`TickStarts`, `StartTick`); an
`await` settles, so a request, tick or transaction under way goes on (`Step`,
`Push`, `Pull`, `Commit`); a device keeps sending while something is unanswered and
an answer that is not lost arrives (`Send`, `Deliver`); in `Ingestion` the process goes on
while it has something to do and is started again when it died (`Work`; the service
manager restarts it, `src/contracts/docs/DEPLOYMENT.md:164`), without saying which
thread goes first. Nobody is obliged to enqueue, queue, decide, retry a dead job, write a row, fail or crash. Failures are
bounded, so liveness is claimed for behaviours in which they stop.

## 4. What is proved

All proofs hold for every value of the constants that satisfies the module's
`ASSUME`: any number of processes, requests, jobs, users, rows, crashes and faults.

* **LeaseProofs.** `RecentWinner`: with any clock difference up to the term, a
  process that won at most `Ttl - Skew` periods ago owns the row, with the rest of
  that time left. This is inductive with the types. `TimelyTicks` follows: the row
  has one holder.
* **JobsProofs.** `OneRunner`, `RetryLimit`, `ExactlyOnce`, and the refinement
  `QueueElects` (`Spec => Lease!Spec`), by which `PollersAlone` carries
  `TimelyTicks` over to the queue. That no two ticks hold one job is not inductive:
  it needs that a held row is RUNNING with the attempts the tick remembers
  (`HoldsItsRow`), which in turn needs that only a tick's own writes change it.
  `OneRunner` does not use the lease: claiming is safe although pollers overlap,
  as the service's comment says. All of it holds for either answer of `query()`. `ExactlyOnce` (no write failed => one success)
  adds that a success is followed by its completion.
* **RetryProofs**, idempotency. `HandlersAlone`, `EffectsOnce`, `GenuineReplays`,
  `StoredStays`. The invariant says what a request in flight may rely on: it has a
  row (`Holding`), no effect of its key exists before its handler (`Unspent`), and an
  effect leaves a row (`Marked`). Crashes are covered, failing queries are excluded
  where the statement says so (`faults = 0`): `catchError` releases a key whose
  handler took effect when the store fails, and a retry runs it again.
* **WorkflowProofs.** `EveryStepApproved` holds under any overlap and edit: a save writes the
  columns that differ, so each column of the row is one that some call had in memory; the
  invariant says of each column by itself, in the row, in every entity and in every list of
  columns about to be written, that its step has been reached by approvals and that its
  history lists decisions that were saved. `EventsMatch` needs `disjoint`: then
  what a call has in memory, before it decides, is the row, so that the columns that do not
  differ are as it has them, and the row becomes its entity.
* **RetryProofs**, sync. Push: `Honest` and `Ordered` hold however requests overlap and die;
  the invariant is that everything before a request's first mutation is logged or
  of an unknown type, and that results are what the log says. `OnceEach` needs
  `alone` (no overlap, no death): then at most one request is active and an effect
  that is not logged is its own. Pull: `Complete`: for any datasets, writers,
  bulks, page sizes, clock resolution and lost answers, nothing is left behind the cursor in a
  behaviour that is `Steady`. That names the two ways in which the service loses rows, and the
  theorem says that there is no third: a transaction commits behind the cursor, or, during a
  pull, into a dataset that was read already, unless all were and it is later than what they
  showed (`InTime`); a page is cut although other datasets are still to be read, or inside a
  group of equal stamps or before something read earlier (`Whole`). The invariant follows the pull under
  way: what it has not read is newer than what it has seen (`Reading`).
* **RequestProofs.** The books of the business modules are sums over sets that
  grow, computed by `SumFunction`. What it computes is proved once, by induction on
  a finite set: it is the last term of any running sum (`SumsAre`), and running sums
  exist and agree (`SumsExist`, `SumsOnce`). From these follow how a sum changes when
  the function changes at a point or the set gains one, which the proofs about the
  modules over `Requests` cite, and what a step does to the other requests (`Moved`).
* **RequestProofs**, receiving. `ReceiptsAlwaysAgree`. A confirmation shows a receipt in
  the order's lines, saves it, and books it, in this order and through three connections, so while
  requests do not overlap the three records of a line differ by what the one request for the order
  has shown and not yet confirmed (`Added`), or confirmed and not yet booked (`Unbooked`): `Exact`. One
  that dies leaves its difference behind, which is why without `Undisturbed` there are
  inequalities only; a receipt in `lost` is booked and not confirmed. That a receipt bills
  the order only when the lines it names have arrived needs that what the match read is what is
  stored.
* **FinanceProofs**, ledger. `TrialBalanceBalances` has no condition: entries are written
  as wholes, so what is needed is that each batch of lines, stored or in a request's
  memory, balances (`LedgerBalanced`). `ReversalsMirror` and `BooksAreKept` hold as long as
  requests do not overlap: then one request is active and what it read is what is
  stored (`LedgerKept`).
* **FinanceProofs**, the modules over `Requests`: `FundsAreKept`, `PayrollIsSettled`,
  `MonthsAreBilled`, `BillsArePaidOnce`, `ControlAccountAgrees`. One argument serves them
  all. While no two requests with a common row have overlapped (`Apart`), a step of
  one request leaves the rows of the others alone (`...Frame`), and therefore what a
  request read is what is stored (`...Held`). With that each step re-establishes its part:
  `EncKept` says how far the funds are off while a liquidation is between its two saves;
  `PayKept` relates slips, totals and entries of a run at each of its stages; `BillKept`
  that no invoice of the month is there until the sweep saves it; `ApKept` follows the
  writes of a payment's transaction beside the stored bills; `ControlKept` adds to it that
  a bill that is owed has an entry of its own over its total.
* **OperationsProofs**, stock. `StockAlwaysAgrees`. Balance, ledger and layers of a warehouse differ
  by what the request for it has still to write there (`InBalance`, with `OwesOnHand`,
  `OwesMoved`, `OwesLayers`). The claim between requests does not say how much of a
  shipment came from which warehouse, because a shipment writes no ledger row; the
  invariant says that there are such shares (`gone`) which add up to what was shipped
  (`Shipping`), and each step of a shipment names the new ones. With it the layers
  are shown to suffice for an issue that the balance covers, so that undisturbed
  `consumeFifoLayers` refuses nothing unless an adjustment was posted, the valuation method
  changed or a negative quantity moved before (`layered`). The other parts hold without these.
* **OperationsProofs**, process engine. `ProcessTypeCorrect`, and `NoneJumped`: for any
  process, any number of requests, overlaps and deaths, no stage is entered without an
  approval of each earlier one. The invariant (`Explained`) adds to the claim that everything
  a request holds in memory is explained in the same way: the instance it will save
  (`ExplainedCall`), the stage it is about to enter, and the tasks it read
  (`TaskKnown`), whose stages do not change. `DecisionsStand` needs `disjoint`: then one
  request works on the instance at a time (`Single`), and the instance and the tasks
  it holds in memory are those that are stored (`Current`), so that what it saves
  changes an open task or a running instance only. `StagesAreServed` needs that no
  request died as well: tasks of one stage follow each other in the list, as far as
  the request that creates them has come (`InOrder`).
* **OperationsProofs**, leave. `LeaveTypeCorrect`. The rest needs `disjoint`: then at most one
  request works for the employee (`LeaveSingle`), what it read still stands (`SeenStands`), and
  the columns that a save leaves out are as the request has them (`SavedWhole`), so that the
  row becomes what it has in memory. For `BalanceHolds` that is shown to be covered (`Floor`);
  for `DatesApart` the dates of an application that is about to be saved are free
  (`PeriodFree`). `DaysAddUp` needs that none died: the days of balance, claims and log agree
  up to what the request under way has saved so far and will save next (`DaysKept`). Two of
  the three assume that no application was for negative days (`NoneNegative`), which nothing in
  the code sees to (§5).
* **OperationsProofs**, clearing. `EntriesClearInPairs`, from `ClearKept`: what a request read is
  what is stored, and a cleared entry whose partner is not cleared is the one a
  request is linking right now.
* **IngestionProofs.** `QueuedRowsRun`: the queue is in memory and rows are not, so between a
  start and its commit rows wait in the start's own list, and those found EXTRACTING are
  queued rows to be; `Waits` says so of every row, and that the process is up is what
  empties the list. `DocumentsAreOne`, from `Documents`: besides the two claims, that a row is
  extracted only when no contract of it is left (`WorkerAlone`). Both rest on `Kept`: types, ids that
  are those of rows and contracts, and that what a request decided fits what it had
  read (`Sound`), so that a commit which overlooked nothing does what was decided. Rows whose
  superseded draft was brought back are excepted (`adrift`).

Only model-checked: liveness (`CrashedLeaderReplaced`, `ResolvesOrStranded`,
`ReservationEnds`, `EndIsAnnounced`, `OutboxDrains`, `CatchesUp`, `Settles`,
`OfflineNoticed`), because the prover has no rules for fairness and ENABLED. Every invariant
and every action property of a run that passes is proved. The violations of §6 are single
behaviours.

Outside the proofs' reach and taken from the code's environment: that PostgreSQL
executes one statement atomically, that a unique index rejects a duplicate, that a
handler is one transaction (`Idempotency`, `SyncPush`), and how `save()` behaves.

## 5. Conditions the properties carry

Some promises hold only under a condition, which the property states. Dropping the
condition makes TLC find a counterexample; these are the cases:

* `OnceWithoutFaults`, `EffectOnce`, `StoredForGood` (`faults = 0`): a completion or
  a stored response that fails after the handler took effect is treated like a
  failed handler, and the work is done again (`jobs.service.ts:88`,
  `idempotency.interceptor.ts:95`).
* `ReservationEnds`: a process that dies while its handler runs leaves the key in
  progress, and every retry is refused from then on (`idempotency.interceptor.ts:85`).
* `ResolvesOrStranded`: the same for RUNNING jobs. It promises more than being taken only
  for jobs claimed by a `query()` that answers as its annotation says; with the pair that TypeORM 0.3
  answers on Postgres every job that is claimed is stranded (`jobs.service.ts:76`).
* `TimelyTicksAlone`: a tick never renews the lease, so one that outlives the term
  runs beside its successor's (`lease.service.ts:27`).
* `EventMatchesOutcome` (`disjoint`): decisions of one instance that overlap both commit, each
  overwriting columns of the other. One approves to step 2 and one rejects: the instance is
  rejected and stands at step 2, with one of the two in its history, and both may be
  announced (`workflow.service.ts:38`). What holds all the same is `StepsApproved`.
* `StepsApproved` speaks of steps and users, not of the approvers of the day: when
  a rule is shortened under an instance, its missing step has no approvers and
  anybody but the initiator may decide it (`workflow.service.ts:65`).
* The `alone` of `Ledger`: every check is a read before the transaction, so two
  requests that overlap can reverse an entry twice, edit an entry that has just been
  posted, post into a period that is being closed, or undo a lock. The books stay
  balanced all the same (`BooksBalance` has no condition).
* `BooksKept` exempts a mirror in the period of the entry it reverses: when no period contains
  the date of a reversal, it is posted into the original's period, closed or locked as
  that may be, with no overlap at all (`gl.service.ts:701`).
* `disjoint` and `Undisturbed` of the business modules: a status, a balance or a list
  is read and relied on after an await, without a lock or a version. Two requests for
  one row that overlap can pay a bill or a payroll period twice, post twice, lose a
  deduction, exceed a budget or a stock balance, or bill a month twice.
* `OutcomeStands`: an approval that overlaps a rejection saves the instance it read
  before and brings it back to life (`bpm.service.ts:117`).
* `StagesServed`: a request that dies while the tasks of a stage
  are being created leaves an ALL stage that completes without those who were not
  asked, or a stage without any task (`bpm.service.ts:63`).
* `BillPaidOnce` (`aborted`): a refused or held bill breaks a run off behind the vendors
  that were paid. Posted again, it makes payments to them again; the bills take
  nothing a second time, so these payments remain unapplied (`payment-run.service.ts:265`).
* `ControlAgrees`: a void that dies behind the nested reversal leaves an open bill with
  a reversed entry, and a second attempt is refused (`ap.service.ts:439`). A void that
  succeeds leaves the control account short by the bill, as the mirror counts and the
  entry does not (§6, 3); the property says by how much.
* `DaysAccounted` (`forfeited`): an approved leave that is rejected gives no days back
  (`leave.service.ts:303`), while a cancelled one does.
* `DaysAccounted` and `NeverOverdrawn` (`NoneNegative`): the days of an application are any
  number (`leave.service.ts:154`). Approve minus five, approve three, cancel the three: the floor at zero (`:322`)
  leaves nothing taken where the approved leaves add up to minus five. Negative
  days that are approved raise what is left, and when they are cancelled after it was used the floor is broken.
* `NeverOverdrawn` (`disjoint`): the approvals of a leave and of an encashment that overlap
  write different columns, `taken` and `adjusted`, and both take effect (`leave.service.ts:288`, `:428`).
* `PayrollSettles` speaks, for what is paid once, of the payslip's own period.
  A run of another type pays the month's salary again (`run.service.ts:85`), and what
  `postPayrollToGl` posts besides is posted as often as it is called (`payroll-gl.service.ts:148`). A cancelled run blocks its period
  for good, and arrears once paid are paid again in each later month, because a
  record covers exactly the months up to its run (`retro-payroll.service.ts:104`). Reprocessing a run drops the payslip's arrears
  line while the record stays.
* `FundsKept` (`unchecked`): commitments made without `enforceFunds` are not held to a budget. Nor
  is the account's budget kept by one that is checked for a cost centre: that looks at the centre's
  lines and rows only (`encumbrance.service.ts:37`, `:45`), so that a commitment without a centre and
  one with a centre may both pass and together exceed the account. A liquidation that dies between its saves frees funds (`encumbrance.service.ts:147`).
* `ReceiptsAgree` compares with what was confirmed, not with what was ordered. `createGrn`
  compares the delivered and not the accepted quantity with what remains, and the
  confirmation compares nothing (`grn.service.ts:73`), so drafts together may exceed the
  order; the order counts as complete when twice this receipt's quantity reaches it
  (`grn.service.ts:127`); its status is not looked at (`grn.service.ts:121`). A match bills
  all of the order when the lines that its receipt names have arrived (`grn.service.ts:220-258`), whatever
  is missing of others. (`lost`): an SQL error in the match is swallowed (`:137`), COMMIT becomes a
  ROLLBACK, and the receipt, a draft again, is booked; confirmed once more, it is booked twice.
* `ClearedInPairs` allows REJECTED for an invoice that was entered: any invoice may be
  rejected, a paid one too (`vendor-invoice.service.ts:400`), payments have no upper limit
  (`:413`), and a match of a paid invoice may block it (`:303`). A pair whose second save
  is missing stays half cleared.
* `StockAgrees` (`torn`): when a later line of a shipment is short, the stock of the
  earlier ones is gone and nothing is saved as shipped, although a comment says the
  whole shipment is aborted (`sales.service.ts:208`). A FIFO issue that the layers do not
  cover is refused with the layers consumed (`inventory.service.ts:342`), which, undisturbed,
  needs one of three things first. An adjustment writes no layers. (`layered`): an item that is
  switched to FIFO has stock without layers, and one that is switched away and back has layers
  that its movements passed by (`:129`). A negative issue raises balance and
  ledger without a layer (`:277`, `:334`). Nor does a shipment take layers, after which too many are
  left, and it writes no ledger row either. An order shipped in part is SHIPPED and cannot ship the rest.
* `MonthsBilledOnce`: the lookup is the only guard, without a unique index; an invoice made
  by hand for other dates does not stop the sweep; one that dies before its lines are
  saved is found by the next sweep and stays empty (`licensing.service.ts:699`). A month
  that no sweep was asked for is not made up by a later one.
* The `alone` of `OnceUndisturbed`: the handler runs before the log is written, so a
  request that dies in between, or a second one that overlaps it, does the work
  twice (`sync.service.ts:159`, `:186`).
* The run `pull` has one dataset, one writer and one row per transaction, and `Complete` the
  condition `Steady`. Outside of it a
  transaction that commits after a younger one is behind the cursor when it appears
  (`sync.service.ts:123`), and a page that ends inside a group of rows with one
  stamp never gets past it, or loses the rest (`sync.service.ts:136`).
* `QueuedWillRun` and `Settles` (`early`): `start_worker` puts ids on the queue before it
  commits the rows (`extraction_worker.py:319`), with the worker running. If that takes
  one first it reads EXTRACTING, drops it, and the row is then QUEUED on no queue until
  the next restart. (`failed`): a database error in `_mark_failed` ends the only worker
  thread (`:258`), and one between the insert and the queue leaves the row behind.
  Neither property speaks of EXTRACTED: a row in that status at a crash is not listed
  at the next start (`:314`) and stays there until somebody retries it.
* `OneOfEach` (`stale`): two threads that register identical files at once both find no
  original, and both rows are QUEUED (`watcher.py:102`). A retry that overlaps a
  validation deletes a validated contract, and two retries, or a retry and the worker,
  leave two drafts (`ingestion_api.py:107`). (`adrift`): bringing a deleted contract back
  clears its mark and asks nothing (`retention_api.py:85`); if it was superseded by a retry and the
  row has been extracted again, the row has two live drafts, in sequence. A query that fails while the
  worker looks a row up marks it FAILED whatever it was (`extraction_worker.py:126`), so that
  one whose draft stands may be tried again.
* `OfflineNoticed` is about files that are there when the process is down, that the
  observer saw, or on Drive. One that is dropped between the scan and the start of the
  observer is noticed at the next restart only (`watcher.py:224`); the scan does not wait
  for a stable size, so it may register a partial copy, whose hash is no other's and
  which is never read again under its path (`:210`). A path whose row FAILED is
  registered again as a duplicate of that very row (`:102`).

## 6. Disagreements

1. `jobs_restart`: `job-record.entity.ts:11` says jobs survive restarts. A row that is
   RUNNING when its process dies is never claimed again (`jobs.service.ts:62`).
   TLC's behaviour: claim, crash, and ticks that find nothing for ever.
2. `workflow_race`: `workflow-instance.entity.ts:60-62` says a stale save is rejected
   and two approvals of one step cannot both commit. `Repository.save()` compares no
   version (`workflow.service.ts:38`). Two calls load the instance, both decide and
   both save; the second history replaces the first, and other columns are mixed if the
   decisions differ.
3. `ledger_cancel`: reversing is described as creating a mirror entry
   (`gl.service.ts:673`), and voiding a bill relies on it. Balances and the trial
   balance add up POSTED entries (`gl.service.ts:756`); the original becomes REVERSED
   and drops out, its mirror is POSTED and counts. A reversed amount shows up
   negated instead of not at all.
4. `pull_skew`: `sync.service.ts:31-32` promises every row touched since the cursor. One
   cursor is taken from the latest row of all datasets, which are read by separate
   queries: a row that changes after its dataset was read, and before another
   dataset's newest row, is behind the new cursor.

## 7. How the project is laid out, and where it could go

The shared mechanisms came first (lease, queue, idempotency, approvals, sync, ledger),
each with what it promises stated and proved; then the
business modules over one description of a request; last the intake of the contracts
service, whose threads and queue in memory the API does not have. What would add
most next:

* `Billing` over `Lease`, as `Jobs` is, so that `PollersAlone` bounds the overlap of the
  hourly sweeps; the sweep by hand does not take the lease, and stays outside.
* Receivables and expenses as further modules over `Requests`, and the posting of bills and
  payroll over `Ledger`'s own steps in place of the outcome that is taken here.

## 8. Not modelled

* Receivables and expenses: the protocols of `Payables` and `Payroll` again. The
  customer's balance is read, changed and saved by every operation
  (`ar.service.ts:503`), so that requests for two invoices of one customer lose changes.
* Document numbers and version echo (`common/sequence`, `common/concurrency`): one upsert
  outside the caller's transaction (a number is lost with a failed save,
  `sequence.service.ts:19`) and one comparison with the row that was read, before the save
  (`optimistic-lock.ts:20`).
* Automation and webhooks: what was announced is kept in memory
  (`automation-scheduler.service.ts:49`) and retries are noted but not made
  (`webhooks.service.ts:235`); nothing is promised that could be checked.
* Seats of licences (`licensing.service.ts:435`, counted before the assignment is saved),
  requisitions, requests for quotation, agreements, returns, deliveries, stock counts,
  committed quantities (`atp.service.ts`), cash discount and withholding tax. `Stock` has no
  movements that a receipt of goods begins; they are calls of `receiveStock`.
* The resolution of approval rules by amount band, and the rule rows that `updateRule`
  saves beside the definition.
* Of the contracts service: reminders (a daily check whose effects are mails), authoring,
  e-signature and mail; in its intake what is extracted, renewals, imports, the other
  bulk actions, legal hold and the purge of deleted contracts, and switching the watcher off.
* Authentication, roles, tenant isolation: per-request checks without a protocol.
* The user interfaces: the state that matters is on the server.
* Reports, search, analytics, AI assistants: queries that change nothing.
* Calculations (tax, depreciation, MRP, payroll formulas, costing): arithmetic whose state
  is one save. Amounts, days and quantities are integers in all modules; rounding
  of money is left out.
* Human resources, talent, CRM, manufacturing, projects and the other record-keeping
  modules: documents edited by one user at a time with a status each.
* In the general ledger: accounts, cost centres, recurring journals, accruals,
  allocations and statements, which read entries or call `postJournalEntry`.

## 9. Running

    tlc -config MCJobs.cfg MCJobs       # a run: module and configuration of PROJECT.json
    tlapm JobsProofs.tla                # the proofs of a module

The longest run, `requests`, takes about three minutes, the longest proofs from ten to
fifteen (`FinanceProofs`, `OperationsProofs`; the others one or two).
