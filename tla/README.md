# Formal model of the supply-chain server

TLA+ specifications of the order, billing and account server in this repository,
checked with TLC and proved with TLAPS. The server is a gin/gorm program on
MySQL; it pulls orders from an ERP ("WanLiNiu"), lets employees review them, and
charges each reviewed order to the prepaid wallet of the employee who owns the
shop. The repository has no tests, and its hard part is what a test reaches
worst: a dozen goroutines and every HTTP handler work on the same rows, most
sequences of statements are not transactions, many errors are logged or dropped,
and the process can stop between any two statements.

## 1. Inventory

Sources are under `src/`; "tasks" are goroutines `cmd/server/main.go` starts.

| Component | State | Operations | Hard behaviour |
|---|---|---|---|
| Wallet billing (`billing_service.go`, `billing_repo.go`) | `wallet`, `recharge_request`, `billing_record`; `order_trade.billing_status` | `ProcessDeduction` (5-minute scan with 10 workers, and one goroutine per approval), `processRefund` (5-minute scan), recharge submit/approve/reject, monthly discount refresh | stale reads before the row lock, two goroutines on one order, status and mark written after the commit, dropped errors |
| Order rows (`order_repo.go`) | `mark`, `billing_status`, `mark_approved_at`, `process_status`, `warehouse_status` of `order_trade` | guarded and unguarded single-statement updates; the scans' `WHERE` clauses | the pair (mark, status) is written by many actors in separate statements |
| Auto-review, mark push (`sync_service.go`) | marks; the ERP's marks | eligibility check, push to the ERP, `BatchMarkApproved`, trigger of a deduction | verdict stale when written; ERP told before money is taken |
| Order and after-sale sync (`sync_service.go`) | `order_trade`, `order_item`, `sync_state` watermark | windowed paging, upsert, after-sale completion | lost upserts behind the watermark, two syncs at once, moving pages |
| Order editing (`order_service.go`) | `order_trade` | `BatchUpdateOrders` | bypasses the balance check |
| Shop assignment (`order_service.go`, `shop_repo.go`) | `account_shop` | `UpdateAccountShops` | check, then replace: two employees can get one shop |
| Warehouse billing (`warehouse_service.go`, `warehouse_repo.go`) | `warehouse_wallet`, `warehouse_record`, `warehouse_status` | packing and shipping fees, retried up to five times; two streams that feed ten workers through a bounded queue | unguarded status, flow numbers generated by counting, a lookup that parks orders, a cursor that keeps its connection while the queue is full |
| Rollback tool (`cmd/billing-rollback`) | the billing and warehouse tables | plan, apply, rebalance | plans on rows read before the lock while the server may run |
| Accounts (`account_service.go`, `account_repo.go`) | `account`, permissions, product scope | create, update, delete, subset checks | hierarchy of parents, subset invariants |
| Products and search (`product_service.go`, `product_repo.go`, `es.go`) | product tables, search index | CRUD, asynchronous indexing, reindex | index updates overtake each other; ids are committed out of order |
| Goods image cache (`sync_service.go`) | `wln_goods_spec_cache` | refresh after three days | only a cache |
| Rate limits, authentication (`middleware`) | counters in memory | count, reset | window boundary |
| Plumbing (handlers, router, upload, Excel, config, scripts) | none | parse, format, wire | none |

How they interact: everything is shared rows. Review, editing and (through the
trigger) the billing goroutines meet in `order_trade`; billing reads ownership
(`account_shop`), prices (`product_platform_price`) and order items that other
components change at any time; after-sale sync makes an order refundable and a
later order sync may take that back. There are two callbacks: approval calls
`TriggerDeductionAsync`, and a recovered deduction calls the mark pusher of the
sync service.

What makes each component correct:

* billing: balances equal the sum of the success records; no overdraft; one
  deduction and at most one refund per order, of the same amount; a recharge is
  credited once, exactly if approved; a locked discount is kept for the month;
  what should be charged or refunded finally is; statuses tell the truth;
* review: an order is shipped only if it was, or will be, paid;
* sync: every order the ERP modified is finally stored; the watermark never
  passes an order that was not;
* assignment: at most one employee per shop;
* warehouse: as billing, per order and fee; rollback: the wallet ends as the sum
  of the records that are left, and solvent;
* accounts: each level is under the next higher one, permissions come from above;
* search: the index finally shows the newest row.

## 2. Modules

| Module | What it is |
|---|---|
| `Ledger` | abstract specification: the books a wallet system promises to keep |
| `Billing`, `MCBilling` | the wallet billing component, one action per database statement (or transaction), and its scenarios for TLC |
| `BillingProofs` | inductive invariant and safety theorems of `Billing`; proofs that a locked discount is kept, that it implements `Ledger`, and that no money is lost |
| `Connections`, `MCConnections` | the connections and row locks that the billing and warehouse goroutines and the warehouse scan wait for |
| `ConnectionsProofs` | who can wait for whom, for any pool: inductive invariant and two theorems of `Connections` |
| `Warehouse`, `MCWarehouse` | warehouse fees, the second implementation of `Ledger` |
| `WarehouseProofs` | inductive invariant and safety theorems of `Warehouse`; proof that it implements `Ledger` |
| `Rollback`, `MCRollback` | the repair tool beside a live server |
| `RollbackProofs` | inductive invariant of `Rollback`; proofs of what a repair and a rebalance leave |
| `OrderSync`, `MCOrderSync` | order sync and after-sale sync with the ERP |
| `OrderSyncProofs` | proof that the watermark of `OrderSync` leaves nothing behind |
| `Review`, `MCReview` | auto-review, mark requests, pushes to the ERP, and the deductions they start |
| `ReviewProofs` | inductive invariant and safety theorems of `Review` |
| `Directory`, `MCDirectory` | accounts, hierarchy, permissions, product scopes, shop assignment |
| `DirectoryProofs` | inductive invariant and safety theorems of `Directory` |
| `Catalog`, `MCCatalog` | products, their search index, rebuilds, listings |
| `CatalogProofs` | inductive invariant of `Catalog`; proofs that listings and totals are right |

Composition: `Billing` and `Warehouse` both instantiate `Ledger`. `Review` has a
deduction as one step, which is what `Billing` refines to statements; in return
`Billing` takes every mark `Review` may write as a step of its environment.
`Connections` looks at the same goroutines as `Billing` and `Warehouse` for what they
wait for instead of what they write; that a goroutine's next step is finally taken, as
both assume, is `TasksEnd` there.
`Rollback` takes the server's transactions as one step each, as `Billing` and
`Warehouse` show they may be taken. Owners, prices and `process_status` change
freely in the billing modules, so they hold for whatever `Directory`, `Catalog`
and `OrderSync` do.

### Ledger

State: `balance`, the set of `posted` flow numbers, and each one's `payer` and
`amount`. There is one kind of step, `Post`: a flow number not yet posted is
posted together with its movement, and the balance stays at or above zero. A
refund needs the order's deduction and repeats its amount. It says nothing about
when, by whom, or how often something is tried.

### Billing

| Variable | In the code |
|---|---|
| `wallet[a]` | row of `wallet`: exists, `balance`, `discount_rate` in percent |
| `request[r]` | row of `recharge_request`, keyed by its unique `transaction_no` |
| `record[f]` | row of `billing_record`, keyed by its unique `flow_no` |
| `trade[o]` | `mark`, `billing_status`, `mark_approved_at`, `process_status` of `order_trade` |
| `owner[o]`, `cost[o]` | what `resolveAccountID` and `calculateOrderAmount` would return now |
| `month`, `refreshing` | the calendar; the wallets a running `refreshDiscounts` has still to visit |
| `scanned`, `triggered`, `job` | the running scan's list, started but not yet scheduled goroutines, and each goroutine's program counter and local variables |
| `refundable`, `refund` | the same for the refund scan |
| `faults` | failed statements and crashes so far |

`ProcessDeduction` is the sequence `ResolveAccount`, `ReadWallet`,
`CalculateAmount`, `CheckFlow`, `DeleteRetryable`, `ReadMark`, then
`WriteErrorRecord`/`WriteErrorStatus`, or `PreviewBalance` and `Charge`, then
`FailMark`, or `WriteStatus` and `RecoverMark`. A transaction that begins with
`SELECT ... FOR UPDATE` on the wallet is one step: everything it writes depends
only on rows read under that lock, on the unique index of `flow_no`, and on
constants of the goroutine. Every other statement is a step of its own, and the
values a goroutine carries from one to the next may be stale. The exceptions are
pairs of statements merged because nothing reads in between: opening a wallet and
inserting a request (`SubmitRecharge`, with the case that only the first
succeeds), and writing a mark, stamping it, and starting a goroutine.

Failures: a statement whose error ends the goroutine is `DeductFault` or
`RefundFault`. Where the code drops an error and goes on, the action itself has
an alternative with `Fault` (a failed "exists?" query reads as no, a failed price
query as no price, a failed sum as zero, a failed update as no update). `Crash` drops
every goroutine and every list and keeps the rows.

Environment: reviewers and administrators may write any mark at any time, owners
and prices change at any time, after-sale and sync move `process_status`. This
over-approximates auto-review, whose verdict can be stale.

Abstractions: money is counted in 0.001 yuan, the unit the code rounds to, with
exact arithmetic; a time stamp is told apart only from NULL and from an earlier one;
the text columns of records, the ERP push after a recovery, balance snapshots
and levels are left out; two different orders have different flow numbers, and an
order keeps its own. `saveOrders` also starts a deduction for an approved row,
but the row it looks at comes from `mapToOrderTrade`, which never sets a mark
(`sync_service.go:400-402`), so that branch is dead and `SyncOrder` has none.

### Connections

`phase[t]` says how far a goroutine is in `ProcessDeduction`, `processRefund`, an
approval, `UpdateWalletDiscount` or, if it is a worker of the warehouse, in
`processDeduction`: reads before the transaction, transaction without and with the row
lock (`lock[w]`) of the wallet it works `on`, the second query, the status after it. The
phases in `Borrowing` hold a connection, `summing` two, and those in `Asking` wait for
one. Two wait while they keep one:

* a deduction without a locked rate (`rated`): `GetCurrentMonthRechargeTotal`
  (`billing_service.go:357`) is called inside the transaction and runs outside it, the only
  statement of the server that does;
* the warehouse scan: `StreamPendingOrders` and `StreamInsufficientOrders` keep a cursor
  on a connection while each order waits for room in the queue
  (`warehouse_service.go:74-76`), and the workers that make room need connections of their
  own. `scan` says whether the scan waits for its connection or has it open, `rows` how many
  orders the cursor still has, `jobs` how many are queued. Both streams are this one, which
  the ticker or the end of the other starts once its workers are done.

`limit` is `max_open_conns`. The statements before a transaction borrow one connection
after another and are one phase; the same for those after it. A worker whose flow number
was taken tries again (`tries`). MySQL's and `database/sql`'s part is modelled from how
the code uses it: a query without a context waits without end, and waiting for a row ends
with an error (`LockFails`).

### Warehouse

`wallet`, `request` and `record` are the three warehouse tables (records keyed by
their unique `trade_uid`), `status` the column `warehouse_status`, `sent`,
`parcel` and `owner` what an order's row, items and shop say now. The scan reads
one stream, feeds the pool, waits for it (`PoolDone`), and reads the second:
`phase` and `queue`. `processDeduction` is `Take`, `ResolveAccount`, `ReadWallet`,
`ReadItems`, `Lookup`, `DeleteRetryable`, `Preview`, `Charge`, `WriteStatus`. A row
is what the stream read, so the shipping cost a goroutine charges may be old.
Differences to billing that the model keeps: a charged order that is met again
gets its status repaired; a failed account lookup parks the order
(`NoEmployee`) for good; the second stream selects by status alone; a failed
delete is ignored, and a delete removes only the row the lookup found. The flow number and its five attempts are abstracted:
the counter is drawn inside the transaction, which commits once or not at all; `Connections` has the attempts.

### Rollback

One account: `balance`, `book` (success records in order of creation), `status` and
`price` of its orders. `Init` enumerates what the lost-update bug left: deductions
that started from an earlier balance (`OldBook`). `plan` is `LoadEvents`, then
`PlanAccount`, which reads the wallet in a later query; `apply` is `LoadPlans` and
then the transaction `ApplyAccount`; `rebalance` is `LoadChain`, then
`RebalanceAccount`. `round2` is the code's rounding to 0.01, of amounts in 0.001.
A loop of the tool over the records is a `Running` function: what its variable is
after each record. `tool[t]` are runs of the tool, any number of them at once.
History: `sound` (no transaction came between the two queries of a plan, and no
plan was applied since), `repaired` (the last apply was the first of a sound plan) and
`fresh` (nobody else wrote the books since this run read them).

### OrderSync

`erp` is the ERP (version, time of change, kind), `row` our row (version, closed),
`watermark` the `sync_state`, `sync[s]` a running sync: window, page, what it fetched.
A sync takes its end time, fetches page by page
(`FetchNext`: a page is cut from the orders in the window as it is at that moment), stores order
by order (`SaveOrder`, whose error is logged only), and advances the watermark to the
time it began. `Displaced` is where paging loses: an order that leaves the window
between two pages shifts the others by one place. After-sale sync reads the bills
and closes order by order. `excused` (history) names the orders that one of the
documented ways has let slip: a failed upsert, a displaced page, an old version
stored over a newer one by a sync that was overtaken by more than the overlap.

### Review

`mark`, `status` and `balance` are rows; `told` is what the ERP has heard of each
order. Auto-review: list candidates, check them together against one balance, mark
the short ones, mark barcode errors, push a batch, mark it approved, start
deductions. A mark request: check each item alone, mark the short ones, push
domestic marks in one call, foreign ones one by one, mark approved. `Tell` is
external. A push may fail on our side after the ERP took it. `missed` (history) are
orders whose recovery was not pushed, `asked` those somebody decided to approve.

### Directory

`account` (state, role, parent), `perms`, `scope`, `shops`. A permission is the rights it
gives: the row of a module, to view it, to edit it, where to edit includes to view, since
`validatePermissionSubset` asks for view or edit where view is given; so its three
checks are one inclusion (`Subset`). A request is
`Check...`, with the code's checks as guards, then the write of what was checked,
when other requests may have written. `TokenRole` is the role in the token, which
may be older than the row. The two walks are `IsDescendantOf` (up, at most
`MaxDepth` steps) and `GetAllDescendantIDs` (down, by levels). `LookUpShop` is one
query per shop, `ReplaceAccountShops` the transaction. History: `issued` (what a super admin
handed out), `unruly` (accounts whose role was changed, or with a parent nobody
checked), `contested` (shops requested twice at once, or whose look-up failed).

### Catalog

`row` and `doc` are a product in the table and in the index, seen by the attribute
a listing filters by. `worker` is a request or the goroutine it starts (`insert`, `read`,
`index`, `remove`), `reindex` a rebuild: `DeleteIndex`, `CreateProductIndex`,
then `FetchBatch` and `BulkIndex` until a batch is empty. `CreateProduct` draws the id
(`drawn`) in the first statement of a transaction of several, `CommitProduct` is its end:
rows appear in another order than that of their ids, and a rebuild that pages by id passes
over one that is committed behind it; what indexes that one is the goroutine that its
request starts after the commit. An `IndexProduct` without an
index creates one, and the rebuild whose creation it precedes ends with an error. `lost`
(history) are products with a failed call, or changed while a document of the
old row was on its way: their index entry may stay wrong until the next good write.

## 3. Runs

All `MC` modules but `MCRollback` add a variable `scenario` that is chosen at the start
and never changes: a behaviour keeps all the goroutines and narrows what the environment does, since all of it at once
is beyond a run. The scenarios of a module together take every action of its
next-state relation. (The runs of `MCBilling` choose among its scenarios; that of `faults`
leaves out `EditMark`, since an edited mark alone takes an order out of the refund scan
by design, and `books` has it.) `MCRollback` follows all old books to five records, and
one that could never have been paid in full to six, so that a repaired order can be paid
for and charged again; tool runs and plan names are symmetric. Bounds are constants (`Max...`); the sets have one to three
members. Deadlock is checked but in `rollback`, `review`, `directory` and
`catalog`, where all the bounds used up and nothing under way is a proper end.

| Run | Bounds | Shows | States |
|---|---|---|---|
| `books` | 2 orders, 2 accounts, 2 recharges, a scan, a trigger and a refund goroutine, 2 months, 1 fault | `StatusHasRecord`, `RefundMatchesDeduction`, `IndInv`, `Conservation`, `NonNegative`, `LockedRateKept` | 1,420,000 |
| `faults` | 1 order, all goroutines, 2 faults, fair | `RechargeCreditedIffApproved`, `ImplementsLedger`, `PayableIsCharged`, `ReturnableIsRefunded` | 300,000 |
| `warehouse` | 2 orders of 1 account with 2 goroutines and money for one, or 1 order whose shop changes hands between 2 accounts with or without a wallet; 2 faults, fair | `IndInv`, `SuccessIsCharged`, `RechargeCreditedIffApproved`, `ImplementsLedger`, `ChargedIsShown`, `PayableIsCharged` | 98,000 |
| `rollback` | 3 orders, charged before the lock and again after a repair, 2 plans, 2 runs of the tool, 5 or 6 records | `TypeOK`, `RepairIsNear`, `RepairIsSolvent`, `RebalanceIsContinuous` | 1,240,000 |
| `sync` | 2 orders of 2 versions, pages of 1, 4 instants, 2 syncs, 1 fault, fair | `WatermarkCovers`, `LatestIsStored`, `ReturnIsClosed` | 280,000 |
| `review` | 2 orders, batches of 2, money for one, 1 fault, fair | `IndInv`, `ApprovedIsTold`, `ChargedKeepsMark`, `ToldIsCharged` | 150,000 |
| `directory` | 5 accounts on all levels, 2 requests, 1 shop, 1 permission, 1 fault | `IndInv`, `HierarchyKept`, `WalksAgree`, `GrantsComeFromAdmin`, `ShopHeldOnce` | 250,000 |
| `catalog` | 3 products, 2 goroutines, overlapping creations with a rebuild, or 2 rebuilds at once, batches of 2, 1 fault, fair | `IndInv`, `ListingIsRight`, `TotalIsRight`, `RebuildEnds` | 435,000 |
| `pool` | 2 deductions of 1 billing wallet, with a refresh, or with a scan of up to 3 orders, a queue of 1 and a worker; 2 or 3 connections, fair | `IndInv`, `NeverWedged`, `WedgeIsFinal`, `TasksEnd` | 26,000 |
| `crash` | as `faults` | status 0 means not deducted: violated by a crash after the commit | |
| `rollback_exact` | as `rollback`, one run of the tool | "零风险修复": violated by a credit between the two queries of a plan | |
| `passthrough` | as `review` | other marks are "passed through to WanLiNiu unchanged": violated for foreign trade | |

Why the bounds are enough: the races of this code are between two actors on one
row, or on two rows of one wallet. Two goroutines of each pool meet on one order and
on two orders of one wallet whose money pays one or both (`Cost` 200,
`Deposit` 300 or 400, at 85%); two syncs or requests are every pair the code
allows; a page of one and a batch of two make both the moving page and the
empty last batch happen; one fault reaches every error path, two in `faults` a
failure during the recovery from another, as in `warehouse`. `pool` has two connections more than
billing wallets, the least `NeverWedged` asks for, and as many goroutines that want them;
or one more than wallets, and is then wedged by a deduction and the scan, whose three orders
are one more than its worker and its queue take. `rollback` has amounts that round both
ways at 0.01.

Fairness. Billing: weak fairness of the two scans (their tickers fire every five
minutes and a scan starts once the last has ended) and of each goroutine's
next step (the Go scheduler runs it). Warehouse: of the scan and of each
goroutine. OrderSync: of the clock and of each sync's and the after-sale sync's
next step. Review: of auto-review's and a request's next step, and of
the goroutines they start. Catalog: of goroutines and rebuilds that have begun.
Connections: of each goroutine's
step on what it holds and of the scan's on its cursor, and strong fairness of being served a connection, since `database/sql`
hands one that comes free to a random waiter.
Nothing is assumed of people, of the ERP, of prices, of the calendar or of
faults; `PayableIsCharged` and the like are about what *stays* payable, and
`ToldIsCharged` holds where auto-review may see the order again.

No price, fee or shipping cost is negative in the models (`BillingAssumption`,
`WarehouseAssumption`). The code takes this for granted: a control price is stored as it
is sent or imported (`model/product.go:271-281`), `calculateOrderAmount` and
`ProcessDeduction` never look at a sign (`billing_service.go:564-598`, 331-383), nor does
the warehouse at the shipping cost the ERP sends (`warehouse_service.go:117`). With a
negative amount a deduction would credit its wallet, and a refund would take that back
without a look at the balance: `NonNegative` depends on the prices, `Conservation` does not.

History variables never guard an action. Where a property has an exception
(`excused`, `missed`, `unruly`, `contested`, `lost`, `repaired`), the exception is a
definite event of the code, recorded when it happens and cleared when the code
makes it good again; the properties say that nothing *else* leads there. They therefore
do not cover the exempted races themselves: two assignments of one shop (`contested`,
`ShopExclusive` is the promise), index updates that overtake a change or a deletion and the
remains of an aborted rebuild (`lost`, `DeletedIsGone`), roles changed without their
subordinates and cycles of parents (`unruly`; the walk down ends in the model because
its accounts are finitely many).

Each checked property of a passing run has a mutant: an operator marked "Slip",
a plausible bug (balance read before the lock, no unique index, retry stream of the
wrong orders, watermark at the end of the sync instead of its beginning,
no `FOR UPDATE`, rows left open, permissions of a caller without any taken as all,
the next batch starting at the last product, ...), which makes TLC report that property.

### What the code breaks

`billing_status` and `mark` are written in statements of their own after the
transaction that moves the money. The books are right in every run; the two columns
that say so are not, and in billing nothing repairs them: a later attempt finds
the success record and returns. The warehouse repairs its status (`ChargedIsShown`), but only
if it gets there: an order whose status was not written and whose shop then goes to an employee
without a warehouse wallet stays pending, charged as it is, since `processDeduction`
returns for want of a wallet (`warehouse_service.go:97-101`) before it looks for the record
(lines 121-126). `Repairable` in the property is this exception.
Besides `crash`, `Billing` states five promises of comments that the code breaks. No
run is kept for them; each fails within the scenarios of `MCBilling`:

* `ErrorIsUncharged`: an error "is recorded but do[es] not deduct"
  (`billing_service.go:308`). A goroutine that could not price an order writes the
  error status, unguarded (line 315), after another has charged it.
* `FailMarkSparesCharged`: "a concurrent successful deduction is never
  overwritten" (`order_repo.go:266`). The guard looks at a status that lags behind the
  transaction, so a second goroutine that finds the money spent marks a charged order as failed.
* `ErrorIsRetried`: "Error/insufficient orders are retried"
  (`billing_service.go:247`). An order failed for want of money whose retry
  could not be priced has a pair of columns that no scan lists (`order_repo.go:255`).
* `RecoveryCompletes`: a recovery "flips mark back" (`billing_service.go:251`). A
  crash between status (line 392) and mark (line 401) leaves a charged order
  marked as failed, out of the refund scan's reach.
* `RecoverKeepsApprovalTime`: "Sets mark_approved_at only if it wasn't set before"
  (`order_repo.go:304`); the statement sets it always.

The same of other modules, likewise stated and not run:

* `Directory!ShopExclusive`: "each shop can belong to at most one employee"
  (`order_service.go:218`). Two overlapping requests, or a change of role, give
  one shop to two; `ShopHeldOnce` is the promise with these exceptions.
* `Warehouse!ParkedIsUnbound`: status 3 means the shop is bound to no employee
  (`model/warehouse.go:10`). `ResolveEmployeeAccountID` returns 0 for any error too
  (`warehouse_repo.go:441-459`), and a parked order is in neither stream.
  `MCWarehouse!BoundShopsSpec` has no shop change hands and shows it.
* The rollback tool looks for plans that are not executed before its transaction
  (`main.go:447-475`) and not again under the lock. Of two runs that apply one batch
  the second passes the drift check if the wallet has come back near the old balance,
  finds no record left to delete and sets the wallet to the old result once more: a refund
  that was paid in between is lost. `RepairIsNear` is therefore about a first apply.
* `Catalog!DeletedIsGone`: the deletion is synchronous "for consistency"
  (`product_service.go:266`), but an indexing goroutine under way writes the
  document again.

## 4. Proofs

TLAPS proves, for all sets of accounts, orders, products, requests and goroutines,
all prices, amounts and batch sizes, and any number of faults:

* `BillingProofs`: `Invariance` (`[]IndInv`), `TypeCorrect` (`TypeOK`, a part of it),
  `StatusCorrect` (`StatusHasRecord`), `RechargeCorrect`
  (`RechargeCreditedIffApproved`), `NeverOverdrawn` (`NonNegative`), `RefundCorrect`
  (`RefundMatchesDeduction`), `LockedRate` (`LockedRateKept`), `Implementation`
  (`Spec => Books!Spec`), `MovesByPosting` (`BooksMoveByPosting`), `BalancesConserved`
  (`Conservation`);
* `WarehouseProofs`: `Invariance` (`[]IndInv`), `RechargeCorrect`
  (`RechargeCreditedIffApproved`), `StatusCorrect` (`SuccessIsCharged`),
  `Implementation` (`ImplementsLedger`);
* `RollbackProofs`: `TypeCorrect` (`TypeOK`, no overdraft in it), `RepairedNear`
  (`RepairIsNear`), `RepairedSolvent` (`RepairIsSolvent`), `RebalancedContinuous`
  (`RebalanceIsContinuous`);
* `OrderSyncProofs`: `Invariance` (`[]IndInv`), `TypeCorrect` (`TypeOK`),
  `WatermarkCorrect` (`WatermarkCovers`);
* `DirectoryProofs`: `Invariance` (`[]IndInv`), `HierarchyCorrect` (`HierarchyKept`),
  `GrantsCorrect` (`GrantsComeFromAdmin`), `ShopsCorrect` (`ShopHeldOnce`), `WalksCorrect`
  (`WalksAgree`);
* `ReviewProofs`: `Invariance` (`[]IndInv`, no overdraft in it), `ApprovalCorrect`
  (`ApprovedIsTold`), `ChargedCorrect` (`ChargedKeepsMark`);
* `CatalogProofs`: `Invariance` (`[]IndInv`), `ListingCorrect` (`ListingIsRight`),
  `TotalCorrect` (`TotalIsRight`);
* `ConnectionsProofs`: `Invariance` (`[]IndInv`), `PoolIsOpen` (`NeverWedged`),
  `WedgeStays` (`WedgeIsFinal`).

For `Billing` the only assumption is `BillingAssumption`: the "no account" and "no order"
values are not accounts or orders, the two kinds of deduction goroutines are
disjoint, prices are natural numbers, and a recharge is positive (the handler's
`gt=0`).

The safety properties are not inductive. `IndInv` adds what goroutines carry:
a goroutine about to write the status of a success works on a charged order
(`JobBacked`), a refund goroutine that has read a deduction's amount still finds
that record with that amount (`RefundBacked`; true because success records are
final), a refund record has its deduction (`RefundBooked`), decided and pending
requests carry an account and a positive amount, and credits are never error records.
The proof has one lemma per action; `TradeStep`, `ReturnStep` and similar lemmas
cover the actions that touch only orders or only a goroutine. The refinement shows
that each transaction is one `Post` and that every other step, including deleting and
writing error records, stutters. `Conservation` follows from that and not from the
actions of billing one by one: `Balanced` says that finitely many flows are booked and each
balance is their sum; a posting adds one amount to one balance and to one sum, and what
stutters for the ledger changes neither. The sum is a recursive function over the subsets
of a finite set; that it exists, and that adding a flow adds its amount whatever the order
of summation, is proved by induction over finite sets (`SubsetInduction`), stated for a set
of subsets instead of for a predicate, which the provers could not instantiate.

`WarehouseProofs` goes the same way under `WarehouseAssumption` (no account and no
order among the accounts and orders, amounts are numbers). `SuccessIsCharged` needs to
know what a goroutine is about to write: `JobBacked` says that it carries an
order, account and fee of the right kind, and a verdict of success only where the
record is there. `RequestBacked` is what lets an approval credit its wallet. Most
steps of a goroutine read and move on (`JobStep`); `DeleteRetryable`, `Charge` and
`WriteStatus` have lemmas of their own. The refinement: only `ApproveRecharge` and
`Charge` post.

For `LockedRate` the invariant of billing needs besides that an unopened wallet has no rate
locked, and that goroutines using a wallet, and the refresh, have found it open
(`RatesOpen`). Then each step either leaves a locked rate alone or is the refresh
of that wallet; the charge is the interesting case, since it recomputes the rate
under the row lock.

`DirectoryProofs` (under `DirectoryAssumption`: finitely many accounts, and a walk up
of at least two steps; the code allows ten): a request checks first and writes
later, so its invariant says what each request still owes to its checks. A parent
that was checked is still the right one, or the account is recorded in `unruly`
(`ParentBacked`); what is about to be granted was issued (`GrantBacked`); a shop
that was looked up is still free, or another request for it is recorded in `contested`
(`ShopsBacked`, `RivalsRecorded`). `ParentsBorn` keeps new accounts from making an old
parent wrong. `WalksAgree` is about two recursive functions. While no account is `unruly`
the hierarchy has three levels below which there is nothing (`TopsAlone`,
`ThreeLevels`), so neither walk goes on for more than two steps, and what each has found
after one and two steps is written down and shown to be the same (`WalkUp` and its
counterpart).

`ReviewProofs` (under `ReviewAssumption`): orders are approved on the strength of
an answer some steps old. `BatchTold` and `RequestTold` say that the ERP has taken
what auto-review, or a request, is about to approve. As the ERP forgets nothing,
only the pushes and the approvals themselves have work to do. `ChargedKeepsMark`
needs of every statement only its guard on `billing_status`, which is why those
lemmas are about the statements and not about the actors.

`OrderSyncProofs` (under `OrderSyncAssumption`: finitely many orders, which are
numbers, pages that are not empty): a sync passes over an order on the strength of pages it
was shown while the orders moved. First the pages: the places of a window number its
orders without a gap (`PlaceTaken`), so a full page shows `PageSize` of them and one that is
not full the last. Then what a running sync still owes: what it has fetched is the
newest version or has changed since, later than its own beginning
(`FetchedOrChanged`), and an unsaved version older than its beginning is in its hands, on a
page to come, or excused (`SyncCovers`). A modification is the hard case: every other order
keeps its place or moves up (`ModifyPlaces`), and one that moves onto a page already passed is
`Displaced`. At the end nothing is left on pages to come, and the watermark may move.

`RollbackProofs` (under `RollbackAssumption`: the records of the old books fit under the
bound of records): the loops of the tool are recursive functions over the records. That they
exist is shown once (`RunExists`, `LoopExists`, by `Counting` up from a least
element), then what each gives after a prefix, after one more record, and for two books that agree
up to a place. `ReplayLeaves` is the heart: the records that the replay keeps, run
through without checks, end within half a cent per record of the replay's own
balance and are nowhere further below zero; `SuffixStays` adds what the server has appended since the plan.
`IndInv` says of every copy a run or a plan keeps that it is in the order of ids (`CopyInv`), of a
claimed plan that no one else writes it (`ClaimInv`), of a sound plan that the wallet
has moved since as the books have (`SoundInv`), which is why the drift check is enough, of a repaired
wallet that it is near both the sum of the records and the end of their chain
(`RepairedInv`), and of a run about to rebalance that what the server has posted
behind its back starts near where its chain ends (`HandoverInv`).

`CatalogProofs` (under `CatalogAssumption`: the three words for no supplier are
none, batches are not empty): a listing is wrong for a while after every change,
so the invariant says who will put it right. `HeldIsProper`: a document on its way
shows the row, or the product is lost. `WrongIsRepaired`: for a wrong document of a
row there is a goroutine, or a rebuild that has still to come to the product (`Coming`: it is
in the batch, or its id is above the batch); for one without a row, a deletion under way. A
batch is the lowest ids there are (`Batches`), so a rebuild passes over two kinds of
products: deleted ones, and those not committed yet, whose goroutine `CommitProduct` starts
with the row. `IdsFit` says that an id is drawn by one request at a time and has no row
before its commit, nor a document that would have to go. Each action
has a lemma, with one step for the product it is about and one for all others.

`ConnectionsProofs` (under `ConnectionsAssumption`: finitely many wallets and goroutines,
each of one job, which work on the wallets of their kind; a queue and a number of attempts that
are not zero): `IndInv` ties the row locks to the transactions that have them. So `on` is an
injection of the deductions that wait for a second connection into the billing wallets
(`OneToAWallet`), and with the scan they are fewer than the connections if wallets and one
more are; the pool the code is configured with has 100. Where they are as many,
`WedgeStays` shows that the wait has no end: if they have all connections nobody is served
(`WaitersBorrow`), the deductions move only when served, and the scan's queue stays full
because its workers move only when served too (`WaitersStay`).

Only model-checked: everything under fairness (`PayableIsCharged`, `ReturnableIsRefunded`,
`ChargedIsShown`, `ToldIsCharged`, `LatestIsStored`, `ReturnIsClosed`, `RebuildEnds`,
`TasksEnd`), which is out of the prover's reach. All other properties of passing runs
are proved; the three that are violated are not, of course.

## 5. Not modelled, and the plan

* Connections other than those of the billing and warehouse goroutines and the warehouse
  scan: handlers, syncs and reports borrow one at a time and give it back without waiting
  for another, like a `Posting`. The row that counts flow numbers is locked last.
* Floating point: amounts are exact multiples of 0.001 here. The rounding the code
  does on purpose is modelled (discounts, `round2`); that of binary fractions is not.
* Goods image cache and rate limits: a cache no decision depends on, and a counter per
  window under one mutex.
* Products' images, costs and specifications, the other filters of a search, the
  search engine's refresh delay; user names, passwords, tokens, payment information.
* Review: orders of no employee, unknown trade numbers, a failed look-up of the trade
  source (the order counts as domestic), and orders left among the approved after a failed
  foreign push.
* Flow numbers: two different orders have different ones, and an order keeps its
  own, although the ERP may rename a shop or a trade number.
* Plumbing: handlers and routing, upload, Excel export, configuration, formatting of
  responses: no state beyond a request.
