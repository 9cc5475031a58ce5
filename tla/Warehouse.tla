------------------------------ MODULE Warehouse ------------------------------
(***************************************************************************)
(* The warehouse (shipping and packing) fees of warehouse_service.go: the  *)
(* five-minute scan of sent orders, the scan of those whose wallet was     *)
(* short, the pool of goroutines that charges them, and the warehouse      *)
(* wallets with their recharges.  Every statement, and every transaction   *)
(* that locks the wallet row, is one step; what a goroutine has read is in *)
(* its job record and may be stale.  Money is counted in 0.001 yuan.       *)
(*                                                                         *)
(* Left out: the text columns of records, and the flow numbers, which the  *)
(* transactions draw under the lock of the counter row.                    *)
(***************************************************************************)
EXTENDS Integers, FiniteSetsExt

CONSTANTS
  Account,     \* employee accounts
  Order,       \* order_trade rows
  Recharge,    \* warehouse_recharge_request rows
  Worker,      \* the goroutines of the pool
  NoAccount,   \* no employee is assigned to the shop
  NoOrder,     \* the order of an idle goroutine
  Postage,     \* shipping costs an order can have
  Size,        \* numbers of items an order can have
  Deposit,     \* amounts a recharge request can ask for
  MaxFaults    \* bound: failed statements and process crashes

(* The ERP reports post_cost; nothing in the code refuses a negative one, which
   would make a charge a credit. *)
ASSUME WarehouseAssumption ==
  /\ NoAccount \notin Account
  /\ NoOrder \notin Order
  /\ Postage \subseteq Nat
  /\ Size \subseteq Int
  /\ Deposit \subseteq Nat \ {0}
  /\ MaxFaults \in Nat

VARIABLES
  wallet,    \* wallet[a]: the warehouse_wallet row of account a
  request,   \* request[r]: the warehouse_recharge_request row
  record,    \* record[f]: the warehouse_billing_record row with trade_uid f
  status,    \* status[o]: order_trade.warehouse_status
  sent,      \* the orders whose process_status is a sent one
  parcel,    \* parcel[o]: o's shipping cost and number of items
  owner,     \* owner[o]: the employee assigned to o's shop
  phase,     \* which of its two streams the scan is working on
  queue,     \* rows the stream has read and no goroutine has taken
  job,       \* job[w]: the local state of a goroutine
  faults     \* faults so far

moneyVars == <<wallet, request, record>>
envVars == <<sent, parcel, owner>>
scanVars == <<phase, queue>>
vars == <<moneyVars, status, envVars, scanVars, job, faults>>

-----------------------------------------------------------------------------
(* Data *)

Pending == 0
Success == 1
Insufficient == 2
NoEmployee == 3

Deduction(o) == <<"D", o>>
Credit(r) == <<"RECHARGE", r>>
Flow == ({"D"} \X Order) \cup ({"RECHARGE"} \X Recharge)

Row == [order : Order, post : Postage]

IdleJob == [pc |-> "idle", order |-> NoOrder, post |-> 0, account |-> NoAccount,
            balance |-> 0, fee |-> 0, verdict |-> Pending]

Wallet == [open : BOOLEAN, balance : Nat]
Request == [status : {"none", "pending", "approved", "rejected"},
            account : Account \cup {NoAccount}, amount : Deposit \cup {0}]
Record == [status : {"none", "insufficient", "success"},
           account : Account \cup {NoAccount}, amount : Nat]

NoRecord == [status |-> "none", account |-> NoAccount, amount |-> 0]

(* A row an earlier version left: the retry deletes what is not a success. *)
OldRecord(a) == [status |-> "insufficient", account |-> a, amount |-> 0]

(* Balances are natural numbers: no wallet is ever overdrawn. *)
TypeOK ==
  /\ wallet \in [Account -> Wallet]
  /\ request \in [Recharge -> Request]
  /\ record \in [Flow -> Record]
  /\ status \in [Order -> Pending .. NoEmployee]
  /\ sent \in SUBSET Order
  /\ parcel \in [Order -> [post : Postage, size : Size]]
  /\ owner \in [Order -> Account \cup {NoAccount}]
  /\ phase \in {"none", "pending", "retry"}
  /\ queue \in SUBSET Row
  /\ job \in [Worker ->
       [pc : {"idle", "account", "wallet", "items", "exists", "delete", "charge", "status"},
        order : Order \cup {NoOrder}, post : Postage \cup {0},
        account : Account \cup {NoAccount}, balance : Int, fee : Nat,
        verdict : Pending .. NoEmployee]]
  /\ faults \in Nat

(* No fee charged yet; empty wallets, shops, parcels and old records are
   whatever there is. *)
Init ==
  /\ wallet \in [Account -> [open : BOOLEAN, balance : {0}]]
  /\ request = [r \in Recharge |->
                 [status |-> "none", account |-> NoAccount, amount |-> 0]]
  /\ owner \in [Order -> Account]
  /\ record \in [Flow -> {NoRecord} \cup {OldRecord(a) : a \in Account}]
  /\ \A f \in Flow : record[f].status = "insufficient" =>
       f[1] = "D" /\ record[f].account = owner[f[2]]
  /\ status = [o \in Order |-> Pending]
  /\ sent = {}
  /\ parcel \in [Order -> [post : Postage, size : Size]]
  /\ phase = "none"
  /\ queue = {}
  /\ job = [w \in Worker |-> IdleJob]
  /\ faults = 0

(* The packing fee: nothing for no item, 0.15 for every item after the first. *)
PackingFee(n) == IF n <= 0 THEN 0 ELSE 950 + 150 * (n - 1)

Fee(post, n) == post + PackingFee(n)

Exists(f) == record[f].status # "none"
Posted(f) == record[f].status = "success"
Charged(o) == Posted(Deduction(o))

(* A statement or the process fails, as often as the bound allows. *)
Fault == faults < MaxFaults /\ faults' = faults + 1

-----------------------------------------------------------------------------
(* Recharges *)

(* The first request opens the wallet in a statement of its own, after which
   the request may fail to be inserted; a look-up that fails counts as a wallet
   there is, and the request comes without one. *)
SubmitRecharge(r, a, n) ==
  LET opened == [wallet EXCEPT ![a].open = TRUE]
      asked == [request EXCEPT ![r] = [status |-> "pending", account |-> a, amount |-> n]]
  IN  /\ request[r].status = "none"
      /\ \/ wallet' = opened /\ request' = asked /\ UNCHANGED faults
         \/ Fault /\ wallet' = opened /\ UNCHANGED request
         \/ Fault /\ UNCHANGED wallet /\ request' = asked
      /\ UNCHANGED <<record, status, envVars, scanVars, job>>

(* One transaction: the request leaves pending, the wallet is locked and
   credited (or opened with the amount), the record is written. *)
ApproveRecharge(r) ==
  LET a == request[r].account
      n == request[r].amount
  IN  /\ request[r].status = "pending"
      /\ request' = [request EXCEPT ![r].status = "approved"]
      /\ wallet' = [wallet EXCEPT ![a] = [open |-> TRUE, balance |-> @.balance + n]]
      /\ record' = [record EXCEPT ![Credit(r)] =
                     [status |-> "success", account |-> a, amount |-> n]]
      /\ UNCHANGED <<status, envVars, scanVars, job, faults>>

(* Slip: a request that is already decided. *)
RejectAnyRecharge(r) ==
  /\ request[r].status # "none"
  /\ request' = [request EXCEPT ![r].status = "rejected"]
  /\ UNCHANGED <<wallet, record, status, envVars, scanVars, job, faults>>

(* A conditional update: only a pending request is rejected. *)
RejectRecharge(r) ==
  /\ request[r].status = "pending"
  /\ request' = [request EXCEPT ![r].status = "rejected"]
  /\ UNCHANGED <<wallet, record, status, envVars, scanVars, job, faults>>

-----------------------------------------------------------------------------
(* What order sync and shop assignment do to the rows the scan reads.  Neither
   touches warehouse_status. *)

SyncOrder(o, shipped, p) ==
  /\ sent' = IF shipped THEN sent \cup {o} ELSE sent \ {o}
  /\ parcel' = [parcel EXCEPT ![o] = p]
  /\ UNCHANGED <<moneyVars, status, owner, scanVars, job, faults>>

AssignShop(o, a) ==
  /\ owner' = [owner EXCEPT ![o] = a]
  /\ UNCHANGED <<moneyVars, status, sent, parcel, scanVars, job, faults>>

-----------------------------------------------------------------------------
(* The scan *)

PoolDone == queue = {} /\ \A w \in Worker : job[w].pc = "idle"

Rows(orders) == {[order |-> o, post |-> parcel[o].post] : o \in orders}

(* The ticker starts the stream of pending orders. *)
StreamPendingOrders ==
  /\ phase = "none" /\ PoolDone
  /\ phase' = "pending"
  /\ queue' = Rows({o \in sent : status[o] = Pending})
  /\ UNCHANGED <<moneyVars, status, envVars, job, faults>>

(* Slip: the retry looks for sent orders only. *)
StreamInsufficientSent ==
  /\ phase = "pending" /\ PoolDone
  /\ phase' = "retry"
  /\ queue' = Rows({o \in sent : status[o] = Pending})
  /\ UNCHANGED <<moneyVars, status, envVars, job, faults>>

(* When the first pool is done, a second one retries the orders whose wallet
   was short, whatever their process_status is by now. *)
StreamInsufficientOrders ==
  /\ phase = "pending" /\ PoolDone
  /\ phase' = "retry"
  /\ queue' = Rows({o \in Order : status[o] = Insufficient})
  /\ UNCHANGED <<moneyVars, status, envVars, job, faults>>

EndScan ==
  /\ phase = "retry" /\ PoolDone
  /\ phase' = "none"
  /\ UNCHANGED <<moneyVars, status, envVars, queue, job, faults>>

Take(w) ==
  /\ job[w].pc = "idle"
  /\ \E row \in queue :
       /\ queue' = queue \ {row}
       /\ job' = [job EXCEPT ![w] = [IdleJob EXCEPT !.pc = "account", !.order = row.order,
                                                    !.post = row.post]]
  /\ UNCHANGED <<moneyVars, status, envVars, phase, faults>>

-----------------------------------------------------------------------------
(* processDeduction *)

At(w, pc) == job[w].pc = pc
Return(w) == job' = [job EXCEPT ![w] = IdleJob]

(* The one thing left is to write the order's status. *)
Conclude(w, verdict) ==
  job' = [job EXCEPT ![w] = [IdleJob EXCEPT !.pc = "status", !.order = job[w].order,
                                            !.verdict = verdict]]

OnlyReads == UNCHANGED <<moneyVars, status, envVars, scanVars>>

(* ResolveEmployeeAccountID turns every error into "no employee". *)
ResolveAccount(w) ==
  LET a == owner[job[w].order]
  IN  /\ At(w, "account")
      /\ \/ /\ a # NoAccount
            /\ job' = [job EXCEPT ![w].pc = "wallet", ![w].account = a]
            /\ UNCHANGED faults
         \/ a = NoAccount /\ Conclude(w, NoEmployee) /\ UNCHANGED faults
         \/ Fault /\ Conclude(w, NoEmployee)
      /\ OnlyReads

ReadWallet(w) ==
  LET wal == wallet[job[w].account]
  IN  /\ At(w, "wallet")
      /\ IF ~wal.open THEN Return(w)
         ELSE job' = [job EXCEPT ![w].pc = "items", ![w].balance = wal.balance]
      /\ OnlyReads /\ UNCHANGED faults

(* The shipping cost is the one the stream read, the items are those of now. *)
ReadItems(w) ==
  /\ At(w, "items")
  /\ job' = [job EXCEPT ![w].pc = "exists", ![w].post = 0,
                        ![w].fee = Fee(job[w].post, parcel[job[w].order].size)]
  /\ OnlyReads /\ UNCHANGED faults

(* The balance check on the wallet read before. *)
Preview(w) ==
  IF job[w].balance < job[w].fee THEN Conclude(w, Insufficient)
  ELSE job' = [job EXCEPT ![w].pc = "charge", ![w].balance = 0]

(* Slip: any record stands in for a success. *)
LookupAny(w) ==
  /\ At(w, "exists")
  /\ \/ ~Exists(Deduction(job[w].order)) /\ Preview(w) /\ UNCHANGED faults
     \/ Exists(Deduction(job[w].order)) /\ Conclude(w, Success) /\ UNCHANGED faults
     \/ Fault /\ Preview(w)
  /\ OnlyReads

(* Slip: a success record only ends the attempt. *)
LookupOnly(w) ==
  LET f == Deduction(job[w].order)
  IN  /\ At(w, "exists")
      /\ \/ ~Exists(f) /\ Preview(w) /\ UNCHANGED faults
         \/ Posted(f) /\ Return(w) /\ UNCHANGED faults
         \/ /\ Exists(f) /\ ~Posted(f)
            /\ job' = [job EXCEPT ![w].pc = "delete"]
            /\ UNCHANGED faults
         \/ Fault /\ Preview(w)
      /\ OnlyReads

(* A success record repairs the status; another one is deleted.  A failed query
   reads as "no record". *)
Lookup(w) ==
  LET f == Deduction(job[w].order)
  IN  /\ At(w, "exists")
      /\ \/ ~Exists(f) /\ Preview(w) /\ UNCHANGED faults
         \/ Posted(f) /\ Conclude(w, Success) /\ UNCHANGED faults
         \/ /\ Exists(f) /\ ~Posted(f)
            /\ job' = [job EXCEPT ![w].pc = "delete"]
            /\ UNCHANGED faults
         \/ Fault /\ Preview(w)
      /\ OnlyReads

(* The row that was read is deleted by its id, which a success record would not
   have; the error of the statement is dropped. *)
DeleteRetryable(w) ==
  LET f == Deduction(job[w].order)
  IN  /\ At(w, "delete")
      /\ \/ /\ record' = IF Posted(f) THEN record ELSE [record EXCEPT ![f] = NoRecord]
            /\ UNCHANGED faults
         \/ Fault /\ UNCHANGED record
      /\ Preview(w)
      /\ UNCHANGED <<wallet, request, status, envVars, scanVars>>

(* Slips: no look at the balance under the lock, and no unique trade_uid. *)
ChargeBlindly(w) ==
  LET j == job[w]
      f == Deduction(j.order)
  IN  /\ At(w, "charge")
      /\ record' = [record EXCEPT ![f] =
                     [status |-> "success", account |-> j.account, amount |-> j.fee]]
      /\ wallet' = [wallet EXCEPT ![j.account].balance = @ - j.fee]
      /\ Conclude(w, Success)
      /\ UNCHANGED <<request, status, envVars, scanVars, faults>>

(* The transaction: lock the wallet, check the balance again, write the record
   and the balance.  The unique trade_uid refuses a second record, five times,
   and the goroutine gives up with the error. *)
Charge(w) ==
  LET j == job[w]
      f == Deduction(j.order)
      balance == wallet[j.account].balance
  IN  /\ At(w, "charge")
      /\ \/ /\ balance < j.fee
            /\ Conclude(w, Insufficient)
            /\ UNCHANGED <<wallet, record>>
         \/ /\ balance >= j.fee /\ ~Exists(f)
            /\ record' = [record EXCEPT ![f] =
                           [status |-> "success", account |-> j.account, amount |-> j.fee]]
            /\ wallet' = [wallet EXCEPT ![j.account].balance = balance - j.fee]
            /\ Conclude(w, Success)
         \/ /\ balance >= j.fee /\ Exists(f)
            /\ Return(w)
            /\ UNCHANGED <<wallet, record>>
      /\ UNCHANGED <<request, status, envVars, scanVars, faults>>

(* The last statement; its error is dropped. *)
WriteStatus(w) ==
  /\ At(w, "status")
  /\ \/ /\ status' = [status EXCEPT ![job[w].order] = job[w].verdict]
        /\ UNCHANGED faults
     \/ Fault /\ UNCHANGED status
  /\ Return(w)
  /\ UNCHANGED <<moneyVars, envVars, scanVars>>

DeductStep(w) ==
  \/ Take(w) \/ ResolveAccount(w) \/ ReadWallet(w) \/ ReadItems(w) \/ Lookup(w)
  \/ DeleteRetryable(w) \/ Charge(w) \/ WriteStatus(w)

(* The wallet or the items cannot be read, or the transaction fails: the
   goroutine returns and the order keeps its status. *)
DeductFault(w) ==
  /\ Fault
  /\ job[w].pc \in {"wallet", "items", "charge"}
  /\ Return(w)
  /\ UNCHANGED <<moneyVars, status, envVars, scanVars>>

Crash ==
  /\ Fault
  /\ phase' = "none"
  /\ queue' = {}
  /\ job' = [w \in Worker |-> IdleJob]
  /\ UNCHANGED <<moneyVars, status, envVars>>

-----------------------------------------------------------------------------

RechargeStep ==
  \E r \in Recharge :
    \/ \E a \in Account, n \in Deposit : SubmitRecharge(r, a, n)
    \/ ApproveRecharge(r) \/ RejectRecharge(r)

OrderStep ==
  \E o \in Order :
    \/ \E shipped \in BOOLEAN, p \in [post : Postage, size : Size] : SyncOrder(o, shipped, p)
    \/ \E a \in Account \cup {NoAccount} : AssignShop(o, a)

ScanStep == StreamPendingOrders \/ StreamInsufficientOrders \/ EndScan

Next ==
  \/ RechargeStep
  \/ OrderStep
  \/ ScanStep \/ \E w \in Worker : DeductStep(w) \/ DeductFault(w)
  \/ Crash

Spec == Init /\ [][Next]_vars

(* The ticker and the goroutines run on; nothing is assumed of people and of
   the ERP. *)
Fairness == WF_vars(ScanStep) /\ \A w \in Worker : WF_vars(DeductStep(w))

FairSpec == Spec /\ Fairness

-----------------------------------------------------------------------------
(* Correctness *)

(* The amounts that can be moved at all. *)
Money == {Fee(p, n) : p \in Postage, n \in Size} \cup Deposit

L == INSTANCE Ledger WITH
  Money <- Money,
  balance <- [a \in Account |-> wallet[a].balance],
  posted <- {f \in Flow : Posted(f)},
  payer <- [f \in Flow \cup ({"R"} \X Order) |->
              IF f \in Flow /\ Posted(f) THEN record[f].account ELSE NoAccount],
  amount <- [f \in Flow \cup ({"R"} \X Order) |->
              IF f \in Flow /\ Posted(f) THEN record[f].amount ELSE 0]

(* The warehouse wallets keep the same books as the billing ones, without
   refunds: an order is charged at most once, with the movement its record
   documents, and no wallet is overdrawn, whatever the goroutines had read. *)
ImplementsLedger == L!Spec

(* A recharge request that is approved has been credited, with the amount and
   to the account it asks for, and no other has: request, wallet and record
   change in one transaction or not at all. *)
RechargeCreditedIffApproved ==
  \A r \in Recharge :
    /\ request[r].status = "approved" <=> Posted(Credit(r))
    /\ Posted(Credit(r)) => /\ record[Credit(r)].account = request[r].account
                            /\ record[Credit(r)].amount = request[r].amount

(* warehouse_status 1 is never shown for an order that was not charged: the
   status follows the commit, and the repair follows a success record. *)
SuccessIsCharged == \A o \in Order : status[o] = Success => Charged(o)

(* The scan keeps looking at the order, and gets as far as its records: the
   employee of its shop has a warehouse wallet. *)
Repairable(o) ==
  /\ o \in sent \/ status[o] = Insufficient
  /\ owner[o] # NoAccount /\ wallet[owner[o]].open

(* An order that was charged is in the end shown as charged for good, after a
   crash or a lost status update too: the look-up repairs it, unless a failed
   account look-up has parked the order.  The repair comes after the look at
   the wallet, so that an order whose shop has gone to an employee without one
   stays pending, charged as it is: the code makes that exception. *)
ChargedIsShown ==
  \A o \in Order :
    <>[](Charged(o) /\ Repairable(o)) => <>[](status[o] \in {Success, NoEmployee})

(* An order that stays sent, with a wallet that covers its fee, is charged in
   the end, unless a failed account lookup has parked it: the second stream
   takes up the orders marked insufficient on a stale balance. *)
PayableIsCharged ==
  \A o \in Order :
    <>[](/\ o \in sent /\ owner[o] # NoAccount /\ wallet[owner[o]].open
         /\ \/ Charged(o)
            \/ wallet[owner[o]].balance >= Fee(parcel[o].post, parcel[o].size))
      => <>(Charged(o) \/ status[o] = NoEmployee)

(* A goroutine works on an order, for an account, with a fee that can be
   charged, and writes a success only when there is one. *)
JobBacked(j) ==
  /\ j.pc # "idle" => j.order \in Order
  /\ j.pc \in {"account", "wallet", "items"} => j.post \in Postage
  /\ j.pc \in {"wallet", "items", "exists", "delete", "charge"} => j.account \in Account
  /\ j.pc \in {"exists", "delete", "charge"} => j.fee \in Money
  /\ j.pc = "status" /\ j.verdict = Success => Charged(j.order)

(* A request names an account and an amount. *)
RequestBacked ==
  \A r \in Recharge : request[r].status # "none" =>
    request[r].account \in Account /\ request[r].amount \in Deposit

(* The inductive invariant: types, the tables' agreement, and what the goroutines
   carry between a statement and the next. *)
IndInv ==
  /\ TypeOK
  /\ RequestBacked /\ RechargeCreditedIffApproved /\ SuccessIsCharged
  /\ \A w \in Worker : JobBacked(job[w])

(* What the constant WarehouseStatusNoEmployee says of itself: the shop is
   bound to no employee.  An order is only parked while that is so. *)
ParkedIsUnbound ==
  [][\A o \in Order : status[o] # NoEmployee /\ status'[o] = NoEmployee
                        => owner[o] = NoAccount]_vars
=============================================================================
