------------------------------- MODULE Billing -------------------------------
(***************************************************************************)
(* The billing core: wallets, recharge requests, the deduction goroutines  *)
(* of billing_service.go, the refund and discount tasks, and the database  *)
(* rows they share with order review and order sync.  Every database       *)
(* statement (or transaction that starts by locking the wallet row) is one *)
(* step; a goroutine keeps what it has read in its job record, so that all *)
(* reads may be stale when used.  Money is counted in 0.001 yuan, rates in *)
(* percent.                                                                *)
(*                                                                         *)
(* Not modelled here: the ERP call that follows a recovered mark (best     *)
(* effort, no local state), the text columns of records, and two           *)
(* flow numbers that collide (makeFlowNo hashes shop and trade number).    *)
(***************************************************************************)
EXTENDS Integers, FiniteSetsExt

CONSTANTS
  Account,        \* employee accounts
  Order,          \* order_trade rows
  Recharge,       \* transaction numbers of recharge requests
  ScanWorker,     \* pool goroutines of the auto-deduct scan
  AsyncWorker,    \* goroutines started by TriggerDeductionAsync
  RefundWorker,   \* pool goroutines of the auto-refund scan
  NoAccount,      \* the account id 0: no employee owns the shop
  NoOrder,        \* the order of an idle goroutine
  Cost,           \* prices an order can come to
  Deposit,        \* amounts a recharge request can ask for
  MaxMonth,       \* bound: calendar months
  MaxFaults       \* bound: failed statements and process crashes

(* That no price is negative (Cost) is assumed, not enforced: neither the import
   of control prices nor the sum over an order's items looks at the sign.  With
   a negative price a deduction would credit the wallet, and its refund would
   take the money back without a look at the balance. *)
ASSUME BillingAssumption ==
  /\ NoAccount \notin Account
  /\ NoOrder \notin Order
  /\ ScanWorker \cap AsyncWorker = {}
  /\ Cost \subseteq Nat
  /\ Deposit \subseteq Nat \ {0}
  /\ MaxMonth \in Nat
  /\ MaxFaults \in Nat

VARIABLES
  wallet,      \* wallet[a]: the wallet row of account a
  request,     \* request[r]: the recharge_request row
  record,      \* record[f]: the billing_record row with flow number f
  trade,       \* trade[o]: the columns of order_trade billing reads or writes
  owner,       \* owner[o]: the employee resolveAccountID finds for o's shop
  cost,        \* cost[o]: o's control-price total, or NoPrice
  month,       \* the current calendar month
  refreshing,  \* wallets refreshDiscounts has still to visit
  scanned,     \* orders of the running auto-deduct scan not yet taken
  triggered,   \* orders with an async deduction not yet started
  job,         \* job[w]: the local state of a deduction goroutine
  refundable,  \* orders of the running refund scan not yet taken
  refund,      \* refund[w]: the local state of a refund goroutine
  faults       \* faults so far

moneyVars == <<wallet, request, record>>
envVars == <<owner, cost, month, refreshing>>
queueVars == <<scanned, triggered>>
refundVars == <<refundable, refund>>
vars == <<moneyVars, trade, envVars, queueVars, job, refundVars, faults>>

-----------------------------------------------------------------------------
(* Data *)

Worker == ScanWorker \cup AsyncWorker

NoPrice == -1
Mark == {"none", "approved", "deductFailed", "barcodeError"}

Pending == 0
Success == 1
Insufficient == 2
Error == 3
Refunded == 4

Rate == {65, 70, 75, 80, 85, 100}

Deduction(o) == <<"D", o>>
Refund(o) == <<"R", o>>
Credit(r) == <<"RECHARGE", r>>
Flow == ({"D", "R"} \X Order) \cup ({"RECHARGE"} \X Recharge)

Wallet == [open : BOOLEAN, balance : Int, rate : Rate]
Request == [status : {"none", "pending", "approved", "rejected"},
            account : Account \cup {NoAccount}, amount : Deposit \cup {0}, month : Nat]
Record == [status : {"none", "error", "success"},
           account : Account \cup {NoAccount}, amount : Nat, month : Nat]
Trade == [mark : Mark, billing : Pending .. Refunded,
          approvedAt : {"null", "first", "later"}, process : {"other", "aftersale"}]
Job == [pc : {"idle", "account", "wallet", "amount", "exists", "delete", "mark",
              "errorRecord", "errorStatus", "preview", "failMark", "charge",
              "status", "recover"},
        order : Order \cup {NoOrder}, account : Account \cup {NoAccount},
        balance : Int, rate : Rate, cost : Cost \cup {NoPrice}, prevMark : Mark]
RefundJob == [pc : {"idle", "account", "exists", "record", "credit"},
              order : Order \cup {NoOrder}, account : Account \cup {NoAccount},
              amount : Nat]

NoRequest == [status |-> "none", account |-> NoAccount, amount |-> 0, month |-> 0]
NoRecord == [status |-> "none", account |-> NoAccount, amount |-> 0, month |-> 0]
IdleJob == [pc |-> "idle", order |-> NoOrder, account |-> NoAccount,
            balance |-> 0, rate |-> 100, cost |-> NoPrice, prevMark |-> "none"]
IdleRefund == [pc |-> "idle", order |-> NoOrder, account |-> NoAccount, amount |-> 0]

TypeOK ==
  /\ wallet \in [Account -> Wallet]
  /\ request \in [Recharge -> Request]
  /\ record \in [Flow -> Record]
  /\ trade \in [Order -> Trade]
  /\ owner \in [Order -> Account \cup {NoAccount}]
  /\ cost \in [Order -> Cost \cup {NoPrice}]
  /\ month \in Nat
  /\ refreshing \in SUBSET Account
  /\ scanned \in SUBSET Order
  /\ triggered \in SUBSET Order
  /\ job \in [Worker -> Job]
  /\ refundable \in SUBSET Order
  /\ refund \in [RefundWorker -> RefundJob]
  /\ faults \in Nat

(* The tables before the first review: no wallet, no record, every order
   unmarked; shops and prices are whatever the accounts and products say. *)
Init ==
  /\ wallet = [a \in Account |-> [open |-> FALSE, balance |-> 0, rate |-> 100]]
  /\ request = [r \in Recharge |-> NoRequest]
  /\ record = [f \in Flow |-> NoRecord]
  /\ trade = [o \in Order |-> [mark |-> "none", billing |-> Pending,
                               approvedAt |-> "null", process |-> "other"]]
  /\ owner \in [Order -> Account]
  /\ cost \in [Order -> Cost \cup {NoPrice}]
  /\ month = 1
  /\ refreshing = {}
  /\ scanned = {}
  /\ triggered = {}
  /\ job = [w \in Worker |-> IdleJob]
  /\ refundable = {}
  /\ refund = [w \in RefundWorker |-> IdleRefund]
  /\ faults = 0

-----------------------------------------------------------------------------
(* Amounts and discounts *)

(* The tier an amount of money falls in. *)
CalcDiscount(n) ==
  IF n <= 500000 THEN 85
  ELSE IF n <= 1000000 THEN 80
  ELSE IF n <= 10000000 THEN 75
  ELSE IF n <= 50000000 THEN 70
  ELSE 65

(* math.Round(amount*rate*1000)/1000 on amounts of 0.001. *)
Discounted(n, rate) == (n * rate + 50) \div 100

(* This month's approved recharges of an account. *)
MonthRecharge(a) ==
  MapThenSumSet(LAMBDA r : request[r].amount,
                {r \in Recharge : /\ request[r].status = "approved"
                                  /\ request[r].account = a
                                  /\ request[r].month = month})

(* Last month's successful deductions of an account. *)
LastMonthSpending(a) ==
  MapThenSumSet(LAMBDA o : record[Deduction(o)].amount,
                {o \in Order : /\ record[Deduction(o)].status = "success"
                               /\ record[Deduction(o)].account = a
                               /\ record[Deduction(o)].month = month - 1})

(* Slip: the month's tier, whatever is locked. *)
MonthRate(a, rate) == IF MonthRecharge(a) > 0 THEN CalcDiscount(MonthRecharge(a)) ELSE rate

(* The rate a deduction uses: the locked one, or the tier of this month's
   recharges when none is locked yet, or no discount. *)
EffectiveRate(a, rate) ==
  IF rate > 0 /\ rate < 100 THEN rate
  ELSE IF MonthRecharge(a) > 0 THEN CalcDiscount(MonthRecharge(a))
  ELSE 100

(* Slip: the mark without its time. *)
NoStamp(old) == old

(* A time stamp that is only told apart from NULL and from an earlier one. *)
Stamp(old) == IF old = "null" THEN "first" ELSE "later"

(* Slip: no unique index on flow_no. *)
NeverExists(f) == FALSE

(* A record there is, to the unique index on flow_no, and those a retry may
   delete and a success is. *)
Exists(f) == record[f].status # "none"
Retryable(f) == record[f].status = "error"
Posted(f) == record[f].status = "success"
Charged(o) == Posted(Deduction(o))

(* A statement or the process fails, as often as the bound allows. *)
Fault == faults < MaxFaults /\ faults' = faults + 1

(* The rate a goroutine settles on: if the month's recharges cannot be read the
   error is dropped, and an account with no locked rate gets no discount. *)
SettleRate(a, locked, rate) ==
  \/ rate = EffectiveRate(a, locked) /\ UNCHANGED faults
  \/ locked = 100 /\ rate = 100 /\ Fault

-----------------------------------------------------------------------------
(* Recharges *)

(* First recharge opens the wallet, in a statement of its own: the request may
   still fail to be inserted.  A look-up that fails counts as a wallet there is,
   and the request comes without one. *)
SubmitRecharge(r, a, n) ==
  LET opened == [wallet EXCEPT ![a].open = TRUE]
      asked == [request EXCEPT ![r] = [status |-> "pending", account |-> a,
                                       amount |-> n, month |-> month]]
  IN  /\ request[r].status = "none"
      /\ \/ wallet' = opened /\ request' = asked /\ UNCHANGED faults
         \/ Fault /\ wallet' = opened /\ UNCHANGED request
         \/ Fault /\ UNCHANGED wallet /\ request' = asked
      /\ UNCHANGED <<record, trade, envVars, queueVars, job, refundVars>>

(* One transaction: the request leaves pending, the wallet (opened now if it
   has none) is credited, the record is written. *)
ApproveRecharge(r) ==
  LET a == request[r].account
      n == request[r].amount
  IN  /\ request[r].status = "pending"
      /\ ~Exists(Credit(r))
      /\ request' = [request EXCEPT ![r].status = "approved"]
      /\ wallet' = [wallet EXCEPT ![a] =
           [open |-> TRUE, balance |-> @.balance + n,
            rate |-> IF @.open THEN @.rate ELSE CalcDiscount(n)]]
      /\ record' = [record EXCEPT ![Credit(r)] =
           [status |-> "success", account |-> a, amount |-> n, month |-> month]]
      /\ UNCHANGED <<trade, envVars, queueVars, job, refundVars, faults>>

(* Slip: a request that is already decided. *)
RejectAnyRecharge(r) ==
  /\ request[r].status # "none"
  /\ request' = [request EXCEPT ![r].status = "rejected"]
  /\ UNCHANGED <<wallet, record, trade, envVars, queueVars, job, refundVars, faults>>

(* A conditional update, so that only a pending request is rejected. *)
RejectRecharge(r) ==
  /\ request[r].status = "pending"
  /\ request' = [request EXCEPT ![r].status = "rejected"]
  /\ UNCHANGED <<wallet, record, trade, envVars, queueVars, job, refundVars, faults>>

-----------------------------------------------------------------------------
(* Order review, order editing and order sync, as far as billing sees them.  A
   review verdict may be stale when its mark is written, so any of the marks
   may reach any order its WHERE clause lets through. *)

(* BatchMarkApproved, then TriggerDeductionAsync with the candidate read
   before, even if the mark could not be written.  A candidate that was read as
   deducted is not deducted again; here its success record ends the attempt. *)
MarkApproved(o) ==
  /\ \/ /\ trade' = IF trade[o].mark = "approved" THEN trade
                    ELSE [trade EXCEPT ![o].mark = "approved",
                                       ![o].approvedAt = Stamp(@)]
        /\ UNCHANGED faults
     \/ Fault /\ UNCHANGED trade
  /\ triggered' = triggered \cup {o}
  /\ UNCHANGED <<moneyVars, envVars, scanned, job, refundVars>>

(* What SetMarkDeductFailed and BatchSetMarkDeductFailed write to an order. *)
DeductFailed(o) ==
  trade' = IF trade[o].billing = Success THEN trade
           ELSE [trade EXCEPT ![o].mark = "deductFailed",
                              ![o].billing = Insufficient]

MarkInsufficient(o) ==
  /\ DeductFailed(o)
  /\ UNCHANGED <<moneyVars, envVars, queueVars, job, refundVars, faults>>

MarkBarcodeError(o) ==
  /\ trade[o].billing # Success
  /\ trade' = [trade EXCEPT ![o].mark = "barcodeError"]
  /\ UNCHANGED <<moneyVars, envVars, queueVars, job, refundVars, faults>>

(* BatchUpdateOrders with a mark: any mark, no balance check; an approval
   stamps the order once (the error of that statement is dropped) and triggers
   a deduction of the row as it is now. *)
EditMark(o, m) ==
  /\ \/ /\ trade' = [trade EXCEPT ![o].mark = m,
                                  ![o].approvedAt =
                                     IF m = "approved" /\ @ = "null" THEN Stamp(@) ELSE @]
        /\ UNCHANGED faults
     \/ m = "approved" /\ Fault /\ trade' = [trade EXCEPT ![o].mark = m]
  /\ triggered' = IF m = "approved" /\ trade[o].billing # Success
                  THEN triggered \cup {o} ELSE triggered
  /\ UNCHANGED <<moneyVars, envVars, scanned, job, refundVars>>

(* An after-sale event closes the order; a later order sync overwrites
   process_status with the ERP's.  Sync imports no mark, so that the deduction
   saveOrders starts for an approved row is never started: the row it looks at
   is the ERP's, and carries none. *)
CompleteAfterSale(o) ==
  /\ trade[o].process # "aftersale"
  /\ trade' = [trade EXCEPT ![o].process = "aftersale"]
  /\ UNCHANGED <<moneyVars, envVars, queueVars, job, refundVars, faults>>

SyncOrder(o) ==
  /\ trade' = [trade EXCEPT ![o].process = "other"]
  /\ UNCHANGED <<moneyVars, envVars, queueVars, job, refundVars, faults>>

(* The shop moves to another employee, or to none. *)
AssignShop(o, a) ==
  /\ owner' = [owner EXCEPT ![o] = a]
  /\ UNCHANGED <<moneyVars, trade, cost, month, refreshing, queueVars, job, refundVars, faults>>

(* A product or its control price is imported, changed or removed. *)
SetPrice(o, c) ==
  /\ cost' = [cost EXCEPT ![o] = c]
  /\ UNCHANGED <<moneyVars, trade, owner, month, refreshing, queueVars, job, refundVars, faults>>

-----------------------------------------------------------------------------
(* Monthly discount refresh *)

(* The timer fires and refreshDiscounts reads the wallets it will visit. *)
NewMonth ==
  /\ month < MaxMonth
  /\ refreshing = {}
  /\ month' = month + 1
  /\ refreshing' = {a \in Account : wallet[a].open}
  /\ UNCHANGED <<moneyVars, trade, owner, cost, queueVars, job, refundVars, faults>>

(* The tier of last month's spending, or no discount. *)
RefreshedRate(a) ==
  IF LastMonthSpending(a) > 0 THEN CalcDiscount(LastMonthSpending(a)) ELSE 100

(* An account that spent nothing last month, or whose spending cannot be read
   (that error is dropped), goes back to no discount.  The error of the update
   is dropped too, and the rate of last month stays. *)
RefreshDiscount(a) ==
  /\ a \in refreshing
  /\ refreshing' = refreshing \ {a}
  /\ \/ /\ wallet' = [wallet EXCEPT ![a].rate = RefreshedRate(a)]
        /\ UNCHANGED faults
     \/ Fault /\ wallet' = [wallet EXCEPT ![a].rate = 100]
     \/ Fault /\ UNCHANGED wallet
  /\ UNCHANGED <<request, record, trade, owner, cost, month, queueVars, job, refundVars>>

-----------------------------------------------------------------------------
(* Starting deductions *)

(* Slip: the recovery of insufficient balances is forgotten. *)
NeedsFirstDeduction(o) ==
  trade[o].mark = "approved" /\ trade[o].billing \in {Pending, Error, Insufficient}

(* ListPendingBillingOrders *)
NeedsDeduction(o) ==
  \/ trade[o].mark = "approved" /\ trade[o].billing \in {Pending, Error, Insufficient}
  \/ trade[o].mark = "deductFailed" /\ trade[o].billing = Insufficient

(* The five-minute tick; a scan ends when its pool has finished. *)
ScanPending ==
  /\ scanned = {}
  /\ \A w \in ScanWorker : job[w].pc = "idle"
  /\ scanned' = {o \in Order : NeedsDeduction(o)}
  /\ UNCHANGED <<moneyVars, trade, envVars, triggered, job, refundVars, faults>>

Take(w, o) ==
  /\ job[w].pc = "idle"
  /\ job' = [job EXCEPT ![w] = [IdleJob EXCEPT !.pc = "account", !.order = o]]

TakeScanned(w) ==
  /\ w \in ScanWorker
  /\ \E o \in scanned : Take(w, o) /\ scanned' = scanned \ {o}
  /\ UNCHANGED <<moneyVars, trade, envVars, triggered, refundVars, faults>>

TakeTriggered(w) ==
  /\ w \in AsyncWorker
  /\ \E o \in triggered : Take(w, o) /\ triggered' = triggered \ {o}
  /\ UNCHANGED <<moneyVars, trade, envVars, scanned, refundVars, faults>>

-----------------------------------------------------------------------------
(* ProcessDeduction *)

At(w, pc) == job[w].pc = pc
Goto(w, pc) == job' = [job EXCEPT ![w].pc = pc]
Return(w) == job' = [job EXCEPT ![w] = IdleJob]

(* Goto, forgetting all that is read no more but the order. *)
GotoWithOrder(w, pc) ==
  job' = [job EXCEPT ![w] = [IdleJob EXCEPT !.pc = pc, !.order = job[w].order]]

(* Everything but the goroutine itself is left alone. *)
OnlyReads == UNCHANGED <<moneyVars, trade, envVars, queueVars, refundVars>>

ResolveAccount(w) ==
  LET a == owner[job[w].order]
  IN  /\ At(w, "account")
      /\ IF a = NoAccount THEN Return(w)
         ELSE job' = [job EXCEPT ![w].pc = "wallet", ![w].account = a]
      /\ OnlyReads /\ UNCHANGED faults

ReadWallet(w) ==
  LET wal == wallet[job[w].account]
  IN  /\ At(w, "wallet")
      /\ IF ~wal.open THEN Return(w)
         ELSE job' = [job EXCEPT ![w].pc = "amount", ![w].balance = wal.balance,
                                 ![w].rate = wal.rate]
      /\ OnlyReads /\ UNCHANGED faults

(* A query that fails counts as an order that cannot be priced. *)
CalculateAmount(w) ==
  /\ At(w, "amount")
  /\ \/ /\ job' = [job EXCEPT ![w].pc = "exists", ![w].cost = cost[job[w].order]]
        /\ UNCHANGED faults
     \/ Fault /\ job' = [job EXCEPT ![w].pc = "exists", ![w].cost = NoPrice]
  /\ OnlyReads

(* The error of the query is dropped: a failed one reads as "no record". *)
CheckFlow(w) ==
  /\ At(w, "exists")
  /\ \/ /\ Goto(w, IF Exists(Deduction(job[w].order)) THEN "delete" ELSE "mark")
        /\ UNCHANGED faults
     \/ Fault /\ Goto(w, "mark")
  /\ OnlyReads

(* Only an error record can be deleted; a success record ends the attempt and
   leaves billing_status as it is. *)
DeleteRetryable(w) ==
  LET f == Deduction(job[w].order)
  IN  /\ At(w, "delete")
      /\ \/ /\ Retryable(f)
            /\ record' = [record EXCEPT ![f] = NoRecord]
            /\ Goto(w, "mark")
         \/ /\ ~Retryable(f)
            /\ Return(w)
            /\ UNCHANGED record
      /\ UNCHANGED <<wallet, request, trade, envVars, queueVars, refundVars, faults>>

(* Slip: a missing price is an amount like any other. *)
PricedZero(w) == job[w].cost = 0

(* calculateOrderAmount returned an error. *)
Priceless(w) == job[w].cost = NoPrice

(* If the row cannot be read the mark it had when the goroutine's list was read
   stands in, which may be any. *)
ReadMark(w) ==
  /\ At(w, "mark")
  /\ \E m \in Mark :
       /\ (m = trade[job[w].order].mark /\ UNCHANGED faults) \/ Fault
       /\ job' = [job EXCEPT ![w].prevMark = m,
                             ![w].pc = IF Priceless(w) THEN "errorRecord" ELSE "preview"]
  /\ OnlyReads

(* Whether it succeeds or not: the unique flow_no refuses the record if there
   is one, and the error of the statement is dropped. *)
WriteErrorRecord(w) ==
  LET f == Deduction(job[w].order)
  IN  /\ At(w, "errorRecord")
      /\ \/ /\ record' = IF Exists(f) THEN record
                         ELSE [record EXCEPT ![f] =
                                [status |-> "error", amount |-> 0,
                                 account |-> job[w].account, month |-> month]]
            /\ UNCHANGED faults
         \/ Fault /\ UNCHANGED record
      /\ GotoWithOrder(w, "errorStatus")
      /\ UNCHANGED <<wallet, request, trade, envVars, queueVars, refundVars>>

WriteErrorStatus(w) ==
  /\ At(w, "errorStatus")
  /\ trade' = [trade EXCEPT ![job[w].order].billing = Error]
  /\ Return(w)
  /\ UNCHANGED <<moneyVars, envVars, queueVars, refundVars, faults>>

(* The balance check before the transaction, on the wallet read earlier. *)
PreviewBalance(w) ==
  /\ At(w, "preview")
  /\ \E rate \in Rate :
       /\ SettleRate(job[w].account, job[w].rate, rate)
       /\ IF job[w].balance < Discounted(job[w].cost, rate)
          THEN GotoWithOrder(w, "failMark") ELSE Goto(w, "charge")
  /\ OnlyReads

(* Slips: the balance read before the lock. *)
CoveredBefore(w, n) == job[w].balance >= n
BalanceBefore(w, n) == job[w].balance - n

(* The balance check and the new balance of the transaction, on the row it has
   locked. *)
Covered(w, n) == wallet[job[w].account].balance >= n
BalanceAfter(w, n) == wallet[job[w].account].balance - n

(* The transaction: lock the wallet, settle the rate, check the balance again,
   write the record and the balance.  An insufficient balance still commits the
   rate; a record with the same flow number rolls everything back. *)
Charge(w) ==
  LET a == job[w].account
      f == Deduction(job[w].order)
  IN  /\ At(w, "charge")
      /\ \E rate \in Rate :
           LET actual == Discounted(job[w].cost, rate)
           IN  /\ SettleRate(a, wallet[a].rate, rate)
               /\ \/ /\ ~Covered(w, actual)
                     /\ wallet' = [wallet EXCEPT ![a].rate = rate]
                     /\ GotoWithOrder(w, "failMark")
                     /\ UNCHANGED record
                  \/ /\ Covered(w, actual) /\ ~Exists(f)
                     /\ record' = [record EXCEPT ![f] = [status |-> "success",
                                     account |-> a, amount |-> actual, month |-> month]]
                     /\ wallet' = [wallet EXCEPT ![a].rate = rate,
                                                 ![a].balance = BalanceAfter(w, actual)]
                     /\ job' = [job EXCEPT ![w] = [IdleJob EXCEPT !.pc = "status",
                                   !.order = job[w].order, !.prevMark = job[w].prevMark]]
                  \/ /\ Covered(w, actual) /\ Exists(f)
                     /\ Return(w)
                     /\ UNCHANGED <<wallet, record>>
      /\ UNCHANGED <<request, trade, envVars, queueVars, refundVars>>

(* Slip: the goroutine goes on to write the status of a success. *)
FailMarkAndGoOn(w) ==
  /\ At(w, "failMark")
  /\ DeductFailed(job[w].order)
  /\ GotoWithOrder(w, "status")
  /\ UNCHANGED <<moneyVars, envVars, queueVars, refundVars, faults>>

(* SetMarkDeductFailed ends the attempt; its error is dropped. *)
FailMark(w) ==
  /\ At(w, "failMark")
  /\ DeductFailed(job[w].order)
  /\ Return(w)
  /\ UNCHANGED <<moneyVars, envVars, queueVars, refundVars, faults>>

(* billing_status follows in a statement of its own, after the commit. *)
WriteStatus(w) ==
  /\ At(w, "status")
  /\ trade' = [trade EXCEPT ![job[w].order].billing = Success]
  /\ IF job[w].prevMark = "deductFailed" THEN GotoWithOrder(w, "recover") ELSE Return(w)
  /\ UNCHANGED <<moneyVars, envVars, queueVars, refundVars, faults>>

RecoverMark(w) ==
  LET o == job[w].order
  IN  /\ At(w, "recover")
      /\ trade' = IF trade[o].mark # "deductFailed" THEN trade
                  ELSE [trade EXCEPT ![o].mark = "approved", ![o].approvedAt = Stamp(@)]
      /\ Return(w)
      /\ UNCHANGED <<moneyVars, envVars, queueVars, refundVars, faults>>

DeductStep(w) ==
  \/ TakeScanned(w) \/ TakeTriggered(w)
  \/ ResolveAccount(w) \/ ReadWallet(w) \/ CalculateAmount(w) \/ CheckFlow(w)
  \/ DeleteRetryable(w) \/ ReadMark(w) \/ WriteErrorRecord(w) \/ WriteErrorStatus(w)
  \/ PreviewBalance(w) \/ Charge(w) \/ FailMark(w) \/ WriteStatus(w) \/ RecoverMark(w)

-----------------------------------------------------------------------------
(* processRefund *)

(* ListPendingRefundOrders *)
NeedsRefund(o) ==
  /\ trade[o].process = "aftersale"
  /\ trade[o].billing = Success
  /\ trade[o].mark = "approved"
  /\ trade[o].approvedAt # "null"

ScanRefundable ==
  /\ refundable = {}
  /\ \A w \in RefundWorker : refund[w].pc = "idle"
  /\ refundable' = {o \in Order : NeedsRefund(o)}
  /\ UNCHANGED <<moneyVars, trade, envVars, queueVars, job, refund, faults>>

EndRefund(w) == refund' = [refund EXCEPT ![w] = IdleRefund]

TakeRefundable(w) ==
  /\ refund[w].pc = "idle"
  /\ \E o \in refundable :
       /\ refundable' = refundable \ {o}
       /\ refund' = [refund EXCEPT ![w].pc = "account", ![w].order = o]
  /\ UNCHANGED <<moneyVars, trade, envVars, queueVars, job, faults>>

(* The account that owns the shop now, not the one that was charged. *)
RefundAccount(w) ==
  LET a == owner[refund[w].order]
  IN  /\ refund[w].pc = "account"
      /\ IF a = NoAccount THEN EndRefund(w)
         ELSE refund' = [refund EXCEPT ![w].pc = "exists", ![w].account = a]
      /\ UNCHANGED <<moneyVars, trade, envVars, queueVars, job, refundable, faults>>

RefundExists(w) ==
  /\ refund[w].pc = "exists"
  /\ \/ /\ IF Exists(Refund(refund[w].order)) THEN EndRefund(w)
           ELSE refund' = [refund EXCEPT ![w].pc = "record"]
        /\ UNCHANGED faults
     \/ Fault /\ refund' = [refund EXCEPT ![w].pc = "record"]
  /\ UNCHANGED <<moneyVars, trade, envVars, queueVars, job, refundable>>

(* Slip: the price of the order, discount forgotten. *)
RefundPrice(o) == cost[o]

(* The actual_amount of the deduction. *)
RefundAmount(o) == record[Deduction(o)].amount

RefundRecord(w) ==
  LET o == refund[w].order
  IN  /\ refund[w].pc = "record"
      /\ IF ~Charged(o) THEN EndRefund(w)
         ELSE refund' = [refund EXCEPT ![w].pc = "credit", ![w].amount = RefundAmount(o)]
      /\ UNCHANGED <<moneyVars, trade, envVars, queueVars, job, refundable, faults>>

(* One transaction: lock the wallet, write the record, credit the balance and
   move billing_status from success to refunded.  It rolls back if the account
   has no wallet or the flow number exists. *)
CreditRefund(w) ==
  LET o == refund[w].order
      a == refund[w].account
      f == Refund(o)
  IN  /\ refund[w].pc = "credit"
      /\ \/ /\ wallet[a].open /\ ~Exists(f)
            /\ record' = [record EXCEPT ![f] = [status |-> "success", account |-> a,
                            amount |-> refund[w].amount, month |-> month]]
            /\ wallet' = [wallet EXCEPT ![a].balance = @ + refund[w].amount]
            /\ trade' = IF trade[o].billing # Success THEN trade
                        ELSE [trade EXCEPT ![o].billing = Refunded]
         \/ /\ ~wallet[a].open \/ Exists(f)
            /\ UNCHANGED <<wallet, record, trade>>
      /\ EndRefund(w)
      /\ UNCHANGED <<request, envVars, queueVars, job, refundable, faults>>

RefundStep(w) ==
  \/ TakeRefundable(w) \/ RefundAccount(w) \/ RefundExists(w)
  \/ RefundRecord(w) \/ CreditRefund(w)

-----------------------------------------------------------------------------
(* Failures *)

(* A statement of a deduction fails and its error ends the goroutine. *)
DeductFault(w) ==
  /\ Fault
  /\ job[w].pc # "idle"
  /\ Return(w)
  /\ UNCHANGED <<moneyVars, trade, envVars, queueVars, refundVars>>

RefundFault(w) ==
  /\ Fault
  /\ refund[w].pc # "idle"
  /\ EndRefund(w)
  /\ UNCHANGED <<moneyVars, trade, envVars, queueVars, job, refundable>>

(* The process dies and starts again: rows stay, goroutines and the discount
   refresh they were part of do not. *)
Crash ==
  /\ Fault
  /\ refreshing' = {}
  /\ scanned' = {}
  /\ triggered' = {}
  /\ job' = [w \in Worker |-> IdleJob]
  /\ refundable' = {}
  /\ refund' = [w \in RefundWorker |-> IdleRefund]
  /\ UNCHANGED <<moneyVars, trade, owner, cost, month>>

-----------------------------------------------------------------------------

RechargeStep ==
  \/ \E r \in Recharge, a \in Account, n \in Deposit : SubmitRecharge(r, a, n)
  \/ \E r \in Recharge : ApproveRecharge(r) \/ RejectRecharge(r)

OrderStep ==
  \E o \in Order :
    \/ MarkApproved(o) \/ MarkInsufficient(o) \/ MarkBarcodeError(o)
    \/ \E m \in Mark : EditMark(o, m)
    \/ CompleteAfterSale(o) \/ SyncOrder(o)
    \/ \E a \in Account \cup {NoAccount} : AssignShop(o, a)
    \/ \E c \in Cost \cup {NoPrice} : SetPrice(o, c)

Next ==
  \/ RechargeStep
  \/ OrderStep
  \/ NewMonth \/ \E a \in Account : RefreshDiscount(a)
  \/ ScanPending \/ \E w \in Worker : DeductStep(w) \/ DeductFault(w)
  \/ ScanRefundable \/ \E w \in RefundWorker : RefundStep(w) \/ RefundFault(w)
  \/ Crash

Spec == Init /\ [][Next]_vars

(* Goroutines the runtime schedules and the two tickers; nothing is assumed of
   administrators, reviewers, the ERP or the calendar. *)
Fairness ==
  /\ WF_vars(ScanPending)
  /\ WF_vars(ScanRefundable)
  /\ \A w \in Worker : WF_vars(DeductStep(w))
  /\ \A w \in RefundWorker : WF_vars(RefundStep(w))

FairSpec == Spec /\ Fairness

-----------------------------------------------------------------------------
(* Correctness *)

(* The amounts that can be moved at all. *)
Money == {Discounted(n, rate) : n \in Cost, rate \in Rate} \cup Deposit

PostedFlow == {f \in Flow : Posted(f)}

(* The books that the wallet and billing_record tables keep. *)
Books == INSTANCE Ledger WITH
  balance <- [a \in Account |-> wallet[a].balance],
  posted <- PostedFlow,
  payer <- [f \in Flow |-> IF Posted(f) THEN record[f].account ELSE NoAccount],
  amount <- [f \in Flow |-> IF Posted(f) THEN record[f].amount ELSE 0]

(* The deduction, refund and recharge transactions keep the books: whatever
   goroutines interleave, die or are started twice for one order, each flow
   number moves money at most once, and nothing else moves any. *)
ImplementsLedger == Books!Spec

(* A balance is the sum of the account's success records; the reconciliation
   tool assumes it when it replays them. *)
Conservation == Books!Conservation

(* No wallet is overdrawn, although every goroutine decides on a balance it
   read before it takes the row lock. *)
NonNegative == Books!NonNegative

(* A refund gives back what the order's deduction took, and only that. *)
RefundMatchesDeduction == Books!RefundMatchesDeduction

(* Every movement of a balance is documented by one new success record, and
   success records are final: retries only delete error records. *)
BooksMoveByPosting == Books!BooksMoveByPosting

(* billing_status never runs ahead of the records: an order that says
   "deducted" has its deduction record, one that says "refunded" its refund
   record.  The status is written after the transaction (deduction) and within
   it (refund). *)
StatusHasRecord ==
  \A o \in Order :
    /\ trade[o].billing = Success => Charged(o)
    /\ trade[o].billing = Refunded => Posted(Refund(o))

(* A recharge request is decided once, by whichever administrator comes first,
   and credited exactly if it was approved. *)
RechargeCreditedIffApproved ==
  \A r \in Recharge : Posted(Credit(r)) <=> request[r].status = "approved"

(* Within a month a deduction locks the discount once; only the monthly refresh
   moves a locked rate, so concurrent orders and recharges cannot. *)
LockedRateKept ==
  [][\A a \in Account :
       wallet[a].rate < 100 /\ wallet'[a].rate # wallet[a].rate
         => a \in refreshing /\ a \notin refreshing']_vars

(* An order to be charged: approved and neither charged nor refunded, or set
   back for want of money; priced; its shop owned by an employee whose balance
   covers it at full price. *)
Payable(o) ==
  /\ \/ trade[o].mark = "approved" /\ trade[o].billing \notin {Success, Refunded}
     \/ trade[o].mark = "deductFailed" /\ trade[o].billing = Insufficient
  /\ cost[o] # NoPrice
  /\ \E a \in Account :
       owner[o] = a /\ wallet[a].open /\ wallet[a].balance >= cost[o]

(* No order stays payable for ever without being charged: the scan finds again
   what a lost goroutine, an error record or an empty wallet left behind. *)
PayableIsCharged == \A o \in Order : ~<>[](Payable(o) /\ ~Charged(o))

(* A charged, approved order whose after-sale is complete. *)
Returnable(o) ==
  /\ trade[o].process = "aftersale"
  /\ trade[o].billing = Success
  /\ trade[o].mark = "approved"
  /\ \E a \in Account : owner[o] = a /\ wallet[a].open

(* Such an order does not wait for its refund for ever, however often the
   refund task is interrupted. *)
ReturnableIsRefunded == \A o \in Order : ~<>[]Returnable(o)

-----------------------------------------------------------------------------
(* The inductive invariant behind the safety properties: what a goroutine has
   read is there, and what it is about to write is backed by what is posted. *)

JobBacked(j) ==
  /\ j.pc # "idle" => j.order \in Order
  /\ j.pc \notin {"idle", "account", "errorStatus", "failMark", "status", "recover"}
       => j.account \in Account
  /\ j.pc \in {"preview", "charge"} => j.cost \in Cost
  /\ j.pc = "status" => Charged(j.order)

RefundBacked(j) ==
  /\ j.pc # "idle" => j.order \in Order
  /\ j.pc \in {"exists", "record", "credit"} => j.account \in Account
  /\ j.pc = "credit" =>
       /\ Charged(j.order)
       /\ j.amount = record[Deduction(j.order)].amount

JobsBacked ==
  /\ \A w \in Worker : JobBacked(job[w])
  /\ \A w \in RefundWorker : RefundBacked(refund[w])

RequestBacked(r) ==
  /\ request[r].status # "none" =>
       request[r].account \in Account /\ request[r].amount \in Deposit
  /\ record[Credit(r)].status # "error"

RefundBooked(o) ==
  /\ record[Refund(o)].status # "error"
  /\ Posted(Refund(o)) =>
       Charged(o) /\ record[Refund(o)].amount = record[Deduction(o)].amount

DataInv ==
  /\ \A a \in Account : wallet[a].balance >= 0
  /\ \A r \in Recharge : RequestBacked(r)
  /\ \A o \in Order : RefundBooked(o)
  /\ \A f \in Flow : Posted(f) => record[f].account \in Account
  /\ StatusHasRecord
  /\ RechargeCreditedIffApproved

IndInv == TypeOK /\ JobsBacked /\ DataInv

-----------------------------------------------------------------------------
(* What comments of the code say and the code does not do *)

(* order_repo.go, RecoverMarkToApproved: "Sets mark_approved_at only if it
   wasn't set before". *)
RecoverKeepsApprovalTime ==
  [][\A w \in Worker :
       LET o == job[w].order
       IN  job[w].pc = "recover" /\ job'[w].pc = "idle" /\ trade[o].approvedAt # "null"
             => trade'[o].approvedAt = trade[o].approvedAt]_vars

(* order_repo.go, SetMarkDeductFailed: "a concurrent successful deduction is
   never overwritten". *)
FailMarkSparesCharged ==
  [][\A w \in Worker :
       LET o == job[w].order
       IN  job[w].pc = "failMark" /\ job'[w].pc = "idle" /\ Charged(o)
             => trade'[o] = trade[o]]_vars

(* The order has a deduction goroutine under way. *)
InFlight(o) == \E w \in Worker : job[w].pc # "idle" /\ job[w].order = o

(* order.go, billing_status: 0 is "not deducted". *)
PendingIsUncharged ==
  \A o \in Order : trade[o].billing = Pending /\ ~InFlight(o) => ~Charged(o)

(* billing_service.go, ProcessDeduction: a price error is recorded "but do not
   deduct". *)
ErrorIsUncharged ==
  \A o \in Order : trade[o].billing = Error /\ ~InFlight(o) => ~Charged(o)

(* billing_service.go, ProcessDeduction: "Error/insufficient orders are
   retried".  One that was first short of money and then could not be priced is
   not, though price and money are there again. *)
ErrorIsRetried ==
  \A o \in Order :
    ~<>[](/\ trade[o].mark = "deductFailed" /\ trade[o].billing = Error
          /\ cost[o] # NoPrice /\ ~Charged(o)
          /\ \E a \in Account :
               owner[o] = a /\ wallet[a].open /\ wallet[a].balance >= cost[o])

(* billing_service.go, ProcessDeduction: "recovery (previous mark was
   insufficient, now sufficient) flips mark back".  If the process dies between
   the two statements nothing does, and the refund scan passes the order over. *)
RecoveryCompletes ==
  \A o \in Order :
    ~<>[](trade[o].mark = "deductFailed" /\ trade[o].billing = Success)
=============================================================================
