--------------------------- MODULE BillingProofs ---------------------------
(***************************************************************************)
(* Billing keeps IndInv, for any accounts, orders, requests and goroutines *)
(* and any number of faults: one lemma per action, each resting on a frame *)
(* lemma for the kind of write it is (none, an order row, a deduction      *)
(* record with the wallet, a refund).  The safety properties follow; then  *)
(* that a locked rate is kept, that Billing implements Ledger, and from    *)
(* this that balances are the sums of the success records.                 *)
(***************************************************************************)
EXTENDS Billing, FiniteSetTheorems, WellFoundedInduction, TLAPS

USE BillingAssumption

(* A deduction never settles on a rate outside the tiers. *)
LEMMA RateType ==
  ASSUME NEW a, NEW rate \in Rate
  PROVE  EffectiveRate(a, rate) \in Rate
<1>1. ASSUME NEW n PROVE CalcDiscount(n) \in Rate
  BY DEF CalcDiscount, Rate
<1>2. QED
  BY <1>1 DEF EffectiveRate, Rate

(* An amount stays a whole number of thousandths after discount and rounding. *)
LEMMA DiscountedNat ==
  ASSUME NEW n \in Nat, NEW rate \in Rate
  PROVE  Discounted(n, rate) \in Nat
<1>1. n * rate + 50 \in Nat
  BY DEF Rate
<1>2. \A k \in Nat : k \div 100 \in Nat
  BY Z3
<1>3. QED
  BY <1>1, <1>2 DEF Discounted

(* The job of an idle goroutine is typed. *)
LEMMA IdleTypes == IdleJob \in Job /\ IdleRefund \in RefundJob
BY DEF Job, RefundJob, IdleJob, IdleRefund, Rate, Mark

(* The tables before the first review satisfy the invariant. *)
LEMMA InitIndInv == Init => IndInv
<1> SUFFICES ASSUME Init PROVE IndInv
  OBVIOUS
<1> USE DEF Init
<1>1. TypeOK
  BY IdleTypes DEF TypeOK, Wallet, Request, Record, Trade, NoRequest, NoRecord,
     Rate, Mark, Pending, Refunded
<1>2. JobsBacked
  BY DEF JobsBacked, JobBacked, RefundBacked, IdleJob, IdleRefund
<1>3. DataInv
  BY DEF DataInv, RequestBacked, RefundBooked, StatusHasRecord, RechargeCreditedIffApproved,
     Posted, Charged, NoRequest, NoRecord, Flow, Deduction, Refund, Credit,
     Pending, Success, Refunded
<1>4. QED
  BY <1>1, <1>2, <1>3 DEF IndInv

(* A step of goroutine w that leaves the tables alone keeps the invariant if
   the goroutine's new state is typed and backed. *)
LEMMA JobStep ==
  ASSUME IndInv, NEW w \in Worker,
         job' = [job EXCEPT ![w] = job'[w]], job'[w] \in Job, JobBacked(job[w])',
         UNCHANGED <<moneyVars, trade, refund, owner, cost, month>>,
         scanned' \in SUBSET Order, triggered' \in SUBSET Order,
         refundable' \in SUBSET Order, refreshing' \in SUBSET Account, faults' \in Nat
  PROVE  IndInv'
<1>1. job' \in [Worker -> Job]
  BY DEF IndInv, TypeOK
<1>2. TypeOK'
  BY <1>1 DEF IndInv, TypeOK, moneyVars
<1>3. JobsBacked'
  BY DEF IndInv, TypeOK, JobsBacked, JobBacked, RefundBacked, moneyVars, Charged, Posted
<1>4. DataInv'
  BY DEF IndInv, DataInv, RequestBacked, RefundBooked, StatusHasRecord,
     RechargeCreditedIffApproved, Posted, Charged, moneyVars
<1>5. QED
  BY <1>2, <1>3, <1>4 DEF IndInv

(* Counting a fault keeps the counter a number. *)
LEMMA FaultNat == TypeOK /\ (Fault \/ UNCHANGED faults) => faults' \in Nat
BY DEF TypeOK, Fault

(* What the three ways of moving a goroutine on do to its job. *)
LEMMA ReturnJob ==
  ASSUME TypeOK, NEW w \in Worker, Return(w)
  PROVE  /\ job' = [job EXCEPT ![w] = job'[w]] /\ job'[w] \in Job
         /\ job'[w] = IdleJob /\ JobBacked(job[w])'
BY IdleTypes DEF TypeOK, Return, JobBacked, IdleJob

(* Moving on with the order only. *)
LEMMA GotoWithOrderJob ==
  ASSUME TypeOK, NEW w \in Worker, job[w].order \in Order,
         NEW pc \in {"errorStatus", "failMark", "recover"}, GotoWithOrder(w, pc)
  PROVE  /\ job' = [job EXCEPT ![w] = job'[w]] /\ job'[w] \in Job
         /\ job'[w].pc = pc /\ JobBacked(job[w])'
<1>1. job'[w] = [IdleJob EXCEPT !.pc = pc, !.order = job[w].order]
  BY DEF TypeOK, GotoWithOrder
<1>2. job'[w] \in Job
  BY <1>1, IdleTypes DEF Job
<1>3. job'[w].pc = pc /\ job'[w].order \in Order
  BY <1>1 DEF IdleJob
<1>4. QED
  BY <1>1, <1>2, <1>3 DEF TypeOK, GotoWithOrder, JobBacked

(* One typed job changed: all jobs are typed. *)
LEMMA JobTyped ==
  ASSUME TypeOK, NEW w \in Worker, job' = [job EXCEPT ![w] = job'[w]], job'[w] \in Job
  PROVE  job' \in [Worker -> Job]
BY DEF TypeOK

(* A goroutine that only reads, and one that only ends. *)
LEMMA ReadStep ==
  ASSUME IndInv, NEW w \in Worker, OnlyReads, Fault \/ UNCHANGED faults,
         job' = [job EXCEPT ![w] = job'[w]], job'[w] \in Job, JobBacked(job[w])'
  PROVE  IndInv'
<1>1. TypeOK /\ faults' \in Nat
  BY FaultNat DEF IndInv
<1>2. QED
  BY <1>1, JobStep DEF OnlyReads, TypeOK, moneyVars, envVars, queueVars, refundVars

(* A goroutine that ends without a write. *)
LEMMA ReturnStep ==
  ASSUME IndInv, NEW w \in Worker, OnlyReads, Fault \/ UNCHANGED faults, Return(w)
  PROVE  IndInv'
BY ReturnJob, ReadStep DEF IndInv

(* What a goroutine holds at the points where it uses it. *)
LEMMA JobHolds ==
  ASSUME IndInv, NEW w \in Worker, job[w].pc # "idle"
  PROVE  /\ TypeOK /\ job[w] \in Job /\ job[w].order \in Order
         /\ JobBacked(job[w])
BY DEF IndInv, TypeOK, JobsBacked, JobBacked

(* resolveAccountID: the account read is an account, or the goroutine ends. *)
LEMMA ResolveAccountInv ==
  ASSUME IndInv, NEW w \in Worker, ResolveAccount(w)
  PROVE  IndInv'
<1> DEFINE a == owner[job[w].order]
<1>1. TypeOK /\ job[w] \in Job /\ job[w].order \in Order
  BY JobHolds DEF ResolveAccount, At
<1>2. a \in Account \cup {NoAccount}
  BY <1>1 DEF TypeOK
<1>3. CASE a = NoAccount
  BY <1>3, ReturnStep DEF ResolveAccount
<1>4. CASE a # NoAccount
  <2>1. job' = [job EXCEPT ![w] = job'[w]] /\ job'[w] = [job[w] EXCEPT !.pc = "wallet", !.account = a]
    BY <1>1, <1>4 DEF ResolveAccount, TypeOK
  <2>2. job'[w] \in Job /\ JobBacked(job[w])'
    BY <2>1, <1>1, <1>2, <1>4 DEF JobBacked, Job
  <2>3. QED
    BY <2>1, <2>2, ReadStep DEF ResolveAccount
<1>5. QED
  BY <1>3, <1>4

(* getOrSkipWallet: the balance and rate read are those of a wallet. *)
LEMMA ReadWalletInv ==
  ASSUME IndInv, NEW w \in Worker, ReadWallet(w)
  PROVE  IndInv'
<1> DEFINE wal == wallet[job[w].account]
<1>1. TypeOK /\ job[w] \in Job /\ job[w].order \in Order /\ job[w].account \in Account
  BY JobHolds DEF ReadWallet, At, JobBacked
<1>2. wal \in Wallet
  BY <1>1 DEF TypeOK
<1>3. CASE ~wal.open
  BY <1>3, ReturnStep DEF ReadWallet
<1>4. CASE wal.open
  <2>1. /\ job' = [job EXCEPT ![w] = job'[w]]
        /\ job'[w] = [job[w] EXCEPT !.pc = "amount", !.balance = wal.balance, !.rate = wal.rate]
    BY <1>1, <1>4 DEF ReadWallet, TypeOK
  <2>2. job'[w] \in Job /\ JobBacked(job[w])'
    BY <2>1, <1>1, <1>2 DEF JobBacked, Job, Wallet
  <2>3. QED
    BY <2>1, <2>2, ReadStep DEF ReadWallet
<1>5. QED
  BY <1>3, <1>4

(* calculateOrderAmount: the amount is a price or none. *)
LEMMA CalculateAmountInv ==
  ASSUME IndInv, NEW w \in Worker, CalculateAmount(w)
  PROVE  IndInv'
<1>1. TypeOK /\ job[w] \in Job /\ job[w].order \in Order /\ job[w].account \in Account
  BY JobHolds DEF CalculateAmount, At, JobBacked
<1>2. cost[job[w].order] \in Cost \cup {NoPrice}
  BY <1>1 DEF TypeOK
<1>3. PICK c \in Cost \cup {NoPrice} :
        job' = [job EXCEPT ![w].pc = "exists", ![w].cost = c]
  BY <1>2 DEF CalculateAmount
<1>4. /\ job' = [job EXCEPT ![w] = job'[w]]
      /\ job'[w] = [job[w] EXCEPT !.pc = "exists", !.cost = c]
  BY <1>1, <1>3 DEF TypeOK
<1>5. job'[w] \in Job /\ JobBacked(job[w])'
  BY <1>4, <1>1 DEF JobBacked, Job
<1>6. QED
  BY <1>4, <1>5, ReadStep DEF CalculateAmount

(* FlowNoExists: nothing but the place in the code changes. *)
LEMMA CheckFlowInv ==
  ASSUME IndInv, NEW w \in Worker, CheckFlow(w)
  PROVE  IndInv'
<1>1. TypeOK /\ job[w] \in Job /\ job[w].order \in Order /\ job[w].account \in Account
  BY JobHolds DEF CheckFlow, At, JobBacked
<1>2. PICK pc \in {"delete", "mark"} : job' = [job EXCEPT ![w].pc = pc]
  BY DEF CheckFlow, Goto
<1>3. job' = [job EXCEPT ![w] = job'[w]] /\ job'[w] = [job[w] EXCEPT !.pc = pc]
  BY <1>1, <1>2 DEF TypeOK
<1>4. job'[w] \in Job /\ JobBacked(job[w])'
  BY <1>3, <1>1, <1>2 DEF JobBacked, Job
<1>5. QED
  BY <1>3, <1>4, ReadStep DEF CheckFlow

(* The fresh mark: only a priced order goes on to the balance check. *)
LEMMA ReadMarkInv ==
  ASSUME IndInv, NEW w \in Worker, ReadMark(w)
  PROVE  IndInv'
<1>1. /\ TypeOK /\ job[w] \in Job /\ job[w].order \in Order /\ job[w].account \in Account
      /\ job[w].cost \in Cost \cup {NoPrice}
  BY JobHolds DEF ReadMark, At, JobBacked, Job
<1>2. PICK m \in Mark, pc \in {"errorRecord", "preview"} :
        /\ job' = [job EXCEPT ![w].prevMark = m, ![w].pc = pc]
        /\ pc = "preview" => job[w].cost \in Cost
  <2>1. PICK m \in Mark : job' = [job EXCEPT ![w].prevMark = m, ![w].pc =
                                    IF Priceless(w) THEN "errorRecord" ELSE "preview"]
    BY DEF ReadMark
  <2>2. CASE Priceless(w)
    BY <2>1, <2>2
  <2>3. CASE ~Priceless(w)
    BY <1>1, <2>1, <2>3 DEF Priceless
  <2>4. QED
    BY <2>2, <2>3
<1>3. /\ job' = [job EXCEPT ![w] = job'[w]]
      /\ job'[w] = [job[w] EXCEPT !.prevMark = m, !.pc = pc]
  BY <1>1, <1>2 DEF TypeOK
<1>4. job'[w] \in Job
  <2>1. [job[w] EXCEPT !.prevMark = m] \in Job
    BY <1>1, <1>2 DEF Job
  <2>2. [[job[w] EXCEPT !.prevMark = m] EXCEPT !.pc = pc] \in Job
    BY <2>1, <1>2 DEF Job
  <2>3. QED
    BY <1>3, <2>2
<1>5. JobBacked(job[w])'
  BY <1>3, <1>1, <1>2 DEF JobBacked, Job
<1>6. QED
  BY <1>3, <1>4, <1>5, ReadStep DEF ReadMark

(* The check before the transaction decides between two ways on. *)
LEMMA PreviewBalanceInv ==
  ASSUME IndInv, NEW w \in Worker, PreviewBalance(w)
  PROVE  IndInv'
<1>1. /\ TypeOK /\ job[w] \in Job /\ job[w].order \in Order /\ job[w].account \in Account
      /\ job[w].cost \in Cost
  BY JobHolds DEF PreviewBalance, At, JobBacked
<1>2. OnlyReads /\ (Fault \/ UNCHANGED faults)
  BY DEF PreviewBalance, SettleRate
<1>3. CASE GotoWithOrder(w, "failMark")
  BY <1>1, <1>2, <1>3, GotoWithOrderJob, ReadStep
<1>4. CASE Goto(w, "charge")
  <2>1. job' = [job EXCEPT ![w] = job'[w]] /\ job'[w] = [job[w] EXCEPT !.pc = "charge"]
    BY <1>1, <1>4 DEF TypeOK, Goto
  <2>2. job'[w] \in Job /\ JobBacked(job[w])'
    BY <2>1, <1>1 DEF JobBacked, Job
  <2>3. QED
    BY <1>2, <2>1, <2>2, ReadStep
<1>5. QED
  BY <1>3, <1>4 DEF PreviewBalance

(* A failed statement ends the goroutine; its transaction has no effect. *)
LEMMA DeductFaultInv ==
  ASSUME IndInv, NEW w \in Worker, DeductFault(w)
  PROVE  IndInv'
BY ReturnStep DEF DeductFault, OnlyReads

-----------------------------------------------------------------------------
(* Taking an order *)

(* A goroutine begins with an order of the table. *)
LEMMA TakeInv ==
  ASSUME IndInv, NEW w \in Worker, NEW o \in Order, Take(w, o),
         UNCHANGED <<moneyVars, trade, envVars, refundVars, faults>>,
         scanned' \in SUBSET Order, triggered' \in SUBSET Order
  PROVE  IndInv'
<1>1. TypeOK
  BY DEF IndInv
<1>2. /\ job' = [job EXCEPT ![w] = job'[w]]
      /\ job'[w] = [IdleJob EXCEPT !.pc = "account", !.order = o]
  BY <1>1 DEF Take, TypeOK
<1>3. job'[w] \in Job /\ JobBacked(job[w])'
  <2>1. [IdleJob EXCEPT !.pc = "account"] \in Job
    BY IdleTypes DEF Job
  <2>2. job'[w] \in Job
    BY <1>2, <2>1 DEF Job
  <2>3. job'[w].pc = "account" /\ job'[w].order = o
    BY <1>2 DEF IdleJob
  <2>4. QED
    BY <2>2, <2>3 DEF JobBacked
<1>4. QED
  BY <1>1, <1>2, <1>3, JobStep DEF TypeOK, moneyVars, envVars, refundVars

(* The scan hands an order to a pool goroutine. *)
LEMMA TakeScannedInv ==
  ASSUME IndInv, NEW w \in Worker, TakeScanned(w)
  PROVE  IndInv'
<1>1. TypeOK
  BY DEF IndInv
<1>2. PICK o \in scanned : Take(w, o) /\ scanned' = scanned \ {o}
  BY DEF TakeScanned
<1>3. o \in Order /\ scanned' \in SUBSET Order /\ triggered' \in SUBSET Order
  BY <1>1, <1>2 DEF TypeOK, TakeScanned
<1>4. QED
  BY <1>2, <1>3, TakeInv DEF TakeScanned

(* TriggerDeductionAsync starts a goroutine. *)
LEMMA TakeTriggeredInv ==
  ASSUME IndInv, NEW w \in Worker, TakeTriggered(w)
  PROVE  IndInv'
<1>1. TypeOK
  BY DEF IndInv
<1>2. PICK o \in triggered : Take(w, o) /\ triggered' = triggered \ {o}
  BY DEF TakeTriggered
<1>3. o \in Order /\ scanned' \in SUBSET Order /\ triggered' \in SUBSET Order
  BY <1>1, <1>2 DEF TypeOK, TakeTriggered
<1>4. QED
  BY <1>2, <1>3, TakeInv DEF TakeTriggered

-----------------------------------------------------------------------------
(* Steps that write an order row *)

(* A row may be written by any step that leaves the money alone, provided its
   billing_status is backed by the records. *)
LEMMA TradeStep ==
  ASSUME IndInv, NEW o \in Order,
         trade' = [trade EXCEPT ![o] = trade'[o]], trade'[o] \in Trade,
         trade'[o].billing = Success => Charged(o),
         trade'[o].billing = Refunded => Posted(Refund(o)),
         job' \in [Worker -> Job], \A w \in Worker : JobBacked(job[w])',
         UNCHANGED <<moneyVars, envVars, refundVars, scanned>>,
         Fault \/ UNCHANGED faults,
         triggered' \in SUBSET Order
  PROVE  IndInv'
<1>1. TypeOK'
  BY FaultNat DEF IndInv, TypeOK, moneyVars, envVars, refundVars
<1>2. \A w \in RefundWorker : RefundBacked(refund[w])'
  BY DEF IndInv, JobsBacked, RefundBacked, Charged, Posted, moneyVars, refundVars
<1>3. StatusHasRecord'
  BY DEF IndInv, TypeOK, DataInv, StatusHasRecord, Charged, Posted, moneyVars
<1>4. DataInv'
  BY <1>3 DEF IndInv, DataInv, RequestBacked, RefundBooked,
     RechargeCreditedIffApproved, Posted, Charged, moneyVars
<1>5. QED
  BY <1>1, <1>2, <1>4 DEF IndInv, JobsBacked

(* No job changes. *)
LEMMA JobsKept ==
  ASSUME IndInv, UNCHANGED <<moneyVars, job>>
  PROVE  job' \in [Worker -> Job] /\ \A w \in Worker : JobBacked(job[w])'
BY DEF IndInv, TypeOK, JobsBacked, JobBacked, Charged, Posted, moneyVars

(* One job changes. *)
LEMMA JobsMoved ==
  ASSUME IndInv, NEW w \in Worker, UNCHANGED moneyVars,
         job' = [job EXCEPT ![w] = job'[w]], job'[w] \in Job, JobBacked(job[w])'
  PROVE  job' \in [Worker -> Job] /\ \A v \in Worker : JobBacked(job[v])'
BY DEF IndInv, TypeOK, JobsBacked, JobBacked, Charged, Posted, moneyVars

(* An order row is typed and its billing_status backed. *)
LEMMA TradeHolds ==
  ASSUME IndInv, NEW o \in Order
  PROVE  /\ trade[o] \in Trade
         /\ trade[o].billing = Success => Charged(o)
         /\ trade[o].billing = Refunded => Posted(Refund(o))
BY DEF IndInv, TypeOK, DataInv, StatusHasRecord

(* A stamped time is a time. *)
LEMMA StampType ==
  ASSUME NEW t \in {"null", "first", "later"}
  PROVE  Stamp(t) \in {"null", "first", "later"}
BY DEF Stamp

(* BatchMarkApproved leaves billing_status alone. *)
LEMMA MarkApprovedInv ==
  ASSUME IndInv, NEW o \in Order, MarkApproved(o)
  PROVE  IndInv'
<1>1. TypeOK /\ trade[o] \in Trade
  BY TradeHolds DEF IndInv
<1>2. /\ trade' = [trade EXCEPT ![o] = trade'[o]]
      /\ \/ trade'[o] = trade[o]
         \/ trade'[o] = [trade[o] EXCEPT !.mark = "approved",
                                        !.approvedAt = Stamp(trade[o].approvedAt)]
  BY <1>1 DEF MarkApproved, TypeOK
<1>3. trade'[o] \in Trade /\ trade'[o].billing = trade[o].billing
  BY <1>1, <1>2, StampType DEF Trade, Mark
<1>4. triggered' \in SUBSET Order
  BY <1>1 DEF MarkApproved, TypeOK
<1>5. QED
  BY <1>2, <1>3, <1>4, TradeHolds, JobsKept, TradeStep DEF MarkApproved

(* DeductFailed writes a billing_status that needs no record. *)
LEMMA DeductFailedRow ==
  ASSUME IndInv, NEW o \in Order, DeductFailed(o)
  PROVE  /\ trade' = [trade EXCEPT ![o] = trade'[o]]
         /\ trade'[o] \in Trade
         /\ trade'[o].billing = Success => Charged(o)
         /\ trade'[o].billing = Refunded => Posted(Refund(o))
<1>1. TypeOK /\ trade[o] \in Trade
  BY TradeHolds DEF IndInv
<1>2. CASE trade[o].billing = Success
  BY <1>1, <1>2, TradeHolds DEF DeductFailed, TypeOK
<1>3. CASE trade[o].billing # Success
  <2>1. /\ trade' = [trade EXCEPT ![o] = trade'[o]]
        /\ trade'[o] = [trade[o] EXCEPT !.mark = "deductFailed", !.billing = Insufficient]
    BY <1>1, <1>3 DEF DeductFailed, TypeOK
  <2>2. Insufficient \in Pending .. Refunded /\ "deductFailed" \in Mark
    BY DEF Mark, Pending, Insufficient, Refunded
  <2>3. [trade[o] EXCEPT !.mark = "deductFailed"] \in Trade
    BY <1>1, <2>2 DEF Trade
  <2>4. trade'[o] \in Trade /\ trade'[o].billing = Insufficient
    BY <1>1, <2>1, <2>2, <2>3 DEF Trade
  <2>5. QED
    BY <2>1, <2>4 DEF Success, Insufficient, Refunded
<1>4. QED
  BY <1>2, <1>3

(* BatchSetMarkDeductFailed needs no record to back it. *)
LEMMA MarkInsufficientInv ==
  ASSUME IndInv, NEW o \in Order, MarkInsufficient(o)
  PROVE  IndInv'
<1>1. triggered' \in SUBSET Order
  BY DEF IndInv, TypeOK, MarkInsufficient, queueVars
<1>2. QED
  BY <1>1, DeductFailedRow, JobsKept, TradeStep DEF MarkInsufficient, queueVars

(* BatchSetMarkBarcodeError leaves billing_status alone. *)
LEMMA MarkBarcodeErrorInv ==
  ASSUME IndInv, NEW o \in Order, MarkBarcodeError(o)
  PROVE  IndInv'
<1>1. TypeOK /\ trade[o] \in Trade
  BY TradeHolds DEF IndInv
<1>2. /\ trade' = [trade EXCEPT ![o] = trade'[o]]
      /\ trade'[o] = [trade[o] EXCEPT !.mark = "barcodeError"]
  BY <1>1 DEF MarkBarcodeError, TypeOK
<1>3. trade'[o] \in Trade /\ trade'[o].billing = trade[o].billing
  BY <1>1, <1>2 DEF Trade, Mark
<1>4. triggered' \in SUBSET Order
  BY <1>1 DEF TypeOK, MarkBarcodeError, queueVars
<1>5. QED
  BY <1>2, <1>3, <1>4, TradeHolds, JobsKept, TradeStep DEF MarkBarcodeError, queueVars

(* BatchUpdateOrders leaves billing_status alone. *)
LEMMA EditMarkInv ==
  ASSUME IndInv, NEW o \in Order, NEW m \in Mark, EditMark(o, m)
  PROVE  IndInv'
<1>1. TypeOK /\ trade[o] \in Trade
  BY TradeHolds DEF IndInv
<1>2. /\ trade' = [trade EXCEPT ![o] = trade'[o]]
      /\ \/ trade'[o] = [trade[o] EXCEPT !.mark = m]
         \/ trade'[o] = [trade[o] EXCEPT !.mark = m,
                                        !.approvedAt = Stamp(trade[o].approvedAt)]
  BY <1>1 DEF EditMark, TypeOK
<1>3. trade'[o] \in Trade /\ trade'[o].billing = trade[o].billing
  BY <1>1, <1>2, StampType DEF Trade
<1>4. triggered' \in SUBSET Order
  BY <1>1 DEF EditMark, TypeOK
<1>5. QED
  BY <1>2, <1>3, <1>4, TradeHolds, JobsKept, TradeStep DEF EditMark

(* MarkAfterSaleComplete leaves billing_status alone. *)
LEMMA CompleteAfterSaleInv ==
  ASSUME IndInv, NEW o \in Order, CompleteAfterSale(o)
  PROVE  IndInv'
<1>1. TypeOK /\ trade[o] \in Trade
  BY TradeHolds DEF IndInv
<1>2. /\ trade' = [trade EXCEPT ![o] = trade'[o]]
      /\ trade'[o] = [trade[o] EXCEPT !.process = "aftersale"]
  BY <1>1 DEF CompleteAfterSale, TypeOK
<1>3. trade'[o] \in Trade /\ trade'[o].billing = trade[o].billing
  BY <1>1, <1>2 DEF Trade
<1>4. triggered' \in SUBSET Order
  BY <1>1 DEF TypeOK, CompleteAfterSale, queueVars
<1>5. QED
  BY <1>2, <1>3, <1>4, TradeHolds, JobsKept, TradeStep DEF CompleteAfterSale, queueVars

(* Order sync leaves billing_status alone. *)
LEMMA SyncOrderInv ==
  ASSUME IndInv, NEW o \in Order, SyncOrder(o)
  PROVE  IndInv'
<1>1. TypeOK /\ trade[o] \in Trade
  BY TradeHolds DEF IndInv
<1>2. /\ trade' = [trade EXCEPT ![o] = trade'[o]]
      /\ trade'[o] = [trade[o] EXCEPT !.process = "other"]
  BY <1>1 DEF SyncOrder, TypeOK
<1>3. trade'[o] \in Trade /\ trade'[o].billing = trade[o].billing
  BY <1>1, <1>2 DEF Trade
<1>4. triggered' \in SUBSET Order
  BY <1>1 DEF TypeOK, SyncOrder, queueVars
<1>5. QED
  BY <1>2, <1>3, <1>4, TradeHolds, JobsKept, TradeStep DEF SyncOrder, queueVars

(* The error status needs no record to back it. *)
LEMMA WriteErrorStatusInv ==
  ASSUME IndInv, NEW w \in Worker, WriteErrorStatus(w)
  PROVE  IndInv'
<1> DEFINE o == job[w].order
<1>1. TypeOK /\ o \in Order
  BY JobHolds DEF WriteErrorStatus, At
<1>2. trade[o] \in Trade
  BY <1>1, TradeHolds
<1>3. trade' = [trade EXCEPT ![o] = trade'[o]] /\ trade'[o] = [trade[o] EXCEPT !.billing = Error]
  BY <1>1 DEF WriteErrorStatus, TypeOK
<1>4. trade'[o] \in Trade /\ trade'[o].billing \notin {Success, Refunded}
  BY <1>2, <1>3 DEF Trade, Error, Pending, Refunded, Success
<1>5. job' \in [Worker -> Job] /\ \A v \in Worker : JobBacked(job[v])'
  BY <1>1, ReturnJob, JobsMoved DEF WriteErrorStatus
<1>6. scanned' = scanned /\ triggered' \in SUBSET Order
  BY <1>1 DEF TypeOK, WriteErrorStatus, queueVars
<1>7. QED
  BY <1>1, <1>3, <1>4, <1>5, <1>6, TradeStep DEF WriteErrorStatus

(* SetMarkDeductFailed needs no record to back it. *)
LEMMA FailMarkInv ==
  ASSUME IndInv, NEW w \in Worker, FailMark(w)
  PROVE  IndInv'
<1>1. TypeOK /\ job[w].order \in Order
  BY JobHolds DEF FailMark, At
<1>2. job' \in [Worker -> Job] /\ \A v \in Worker : JobBacked(job[v])'
  BY <1>1, ReturnJob, JobsMoved DEF FailMark
<1>3. scanned' = scanned /\ triggered' \in SUBSET Order
  BY <1>1 DEF TypeOK, FailMark, queueVars
<1>4. QED
  BY <1>1, <1>2, <1>3, DeductFailedRow, TradeStep DEF FailMark

(* The success status is backed by the record the goroutine wrote before. *)
LEMMA WriteStatusInv ==
  ASSUME IndInv, NEW w \in Worker, WriteStatus(w)
  PROVE  IndInv'
<1> DEFINE o == job[w].order
<1>1. TypeOK /\ o \in Order /\ Charged(o)
  BY JobHolds DEF WriteStatus, At, JobBacked
<1>2. trade[o] \in Trade
  BY <1>1, TradeHolds
<1>3. /\ trade' = [trade EXCEPT ![o] = trade'[o]]
      /\ trade'[o] = [trade[o] EXCEPT !.billing = Success]
  BY <1>1 DEF WriteStatus, TypeOK
<1>4. trade'[o] \in Trade /\ trade'[o].billing = Success
  BY <1>2, <1>3 DEF Trade, Pending, Refunded, Success
<1>5. job' \in [Worker -> Job] /\ \A v \in Worker : JobBacked(job[v])'
  <2>1. Return(w) \/ GotoWithOrder(w, "recover")
    BY DEF WriteStatus
  <2>2. UNCHANGED moneyVars
    BY DEF WriteStatus
  <2>3. QED
    BY <1>1, <2>1, <2>2, ReturnJob, GotoWithOrderJob, JobsMoved
<1>6. scanned' = scanned /\ triggered' \in SUBSET Order
  BY <1>1 DEF TypeOK, WriteStatus, queueVars
<1>7. Success # Refunded
  BY DEF Success, Refunded
<1>8. QED
  BY <1>1, <1>3, <1>4, <1>5, <1>6, <1>7, TradeStep DEF WriteStatus

(* RecoverMarkToApproved leaves billing_status alone. *)
LEMMA RecoverMarkInv ==
  ASSUME IndInv, NEW w \in Worker, RecoverMark(w)
  PROVE  IndInv'
<1> DEFINE o == job[w].order
<1>1. TypeOK /\ o \in Order
  BY JobHolds DEF RecoverMark, At
<1>2. trade[o] \in Trade
  BY <1>1, TradeHolds
<1>3. /\ trade' = [trade EXCEPT ![o] = trade'[o]]
      /\ trade'[o] = IF trade[o].mark # "deductFailed" THEN trade[o]
                     ELSE [trade[o] EXCEPT !.mark = "approved",
                                           !.approvedAt = Stamp(trade[o].approvedAt)]
  BY <1>1 DEF RecoverMark, TypeOK
<1>4. trade'[o] \in Trade /\ trade'[o].billing = trade[o].billing
  BY <1>2, <1>3, StampType DEF Trade, Mark
<1>5. job' \in [Worker -> Job] /\ \A v \in Worker : JobBacked(job[v])'
  BY <1>1, ReturnJob, JobsMoved DEF RecoverMark
<1>6. scanned' = scanned /\ triggered' \in SUBSET Order
  BY <1>1 DEF TypeOK, RecoverMark, queueVars
<1>7. QED
  BY <1>1, <1>3, <1>4, <1>5, <1>6, TradeHolds, TradeStep DEF RecoverMark

-----------------------------------------------------------------------------
(* Steps that write wallets and records *)

(* The three kinds of flow numbers do not meet. *)
LEMMA Flows ==
  /\ \A o \in Order : Deduction(o) \in Flow /\ Refund(o) \in Flow
  /\ \A r \in Recharge : Credit(r) \in Flow
  /\ \A o, p \in Order : /\ Deduction(o) # Refund(p)
                         /\ Deduction(o) = Deduction(p) => o = p
                         /\ Refund(o) = Refund(p) => o = p
  /\ \A o \in Order, r \in Recharge : Deduction(o) # Credit(r) /\ Refund(o) # Credit(r)
  /\ \A r, q \in Recharge : Credit(r) = Credit(q) => r = q
BY DEF Flow, Deduction, Refund, Credit

(* The deduction record of an order may be written as long as a success record
   is not. *)
LEMMA DeductionWritten ==
  ASSUME IndInv, NEW o \in Order, NEW w \in Worker,
         record' = [record EXCEPT ![Deduction(o)] = record'[Deduction(o)]],
         record'[Deduction(o)] \in Record,
         Charged(o) => record'[Deduction(o)] = record[Deduction(o)],
         record'[Deduction(o)].status = "success" => record'[Deduction(o)].account \in Account,
         wallet' \in [Account -> Wallet],
         \A a \in Account : wallet'[a].balance >= 0,
         job' = [job EXCEPT ![w] = job'[w]], job'[w] \in Job, JobBacked(job[w])',
         UNCHANGED <<request, trade, envVars, queueVars, refundVars>>, faults' \in Nat
  PROVE  IndInv'
<1> DEFINE d == Deduction(o)
<1>1. TypeOK /\ DataInv /\ JobsBacked
  BY DEF IndInv
<1>2. TypeOK'
  <2>1. record' \in [Flow -> Record]
    BY <1>1 DEF TypeOK
  <2>2. QED
    BY <1>1, <2>1, JobTyped DEF TypeOK, envVars, queueVars, refundVars
<1>3. /\ \A p \in Order : Charged(p) => /\ Charged(p)'
                                       /\ record'[Deduction(p)] = record[Deduction(p)]
      /\ \A p \in Order : record'[Refund(p)] = record[Refund(p)]
      /\ \A r \in Recharge : record'[Credit(r)] = record[Credit(r)]
      /\ \A f \in Flow : f # d => record'[f] = record[f]
  <2>1. record \in [Flow -> Record]
    BY <1>1 DEF TypeOK
  <2>2. \A f \in Flow : f # d => record'[f] = record[f]
    BY <2>1
  <2>3. \A p \in Order : Charged(p) => record'[Deduction(p)] = record[Deduction(p)]
    BY <2>2, Flows
  <2>4. QED
    BY <2>2, <2>3, Flows DEF Charged, Posted
<1>4. JobsBacked'
  <2>1. \A v \in Worker : JobBacked(job[v])'
    <3> SUFFICES ASSUME NEW v \in Worker, v # w PROVE JobBacked(job[v])'
      OBVIOUS
    <3>1. job'[v] = job[v]
      BY <1>1 DEF TypeOK
    <3>2. JobBacked(job[v])
      BY <1>1 DEF JobsBacked
    <3>3. QED
      BY <3>1, <3>2, <1>3 DEF JobBacked
  <2>2. \A v \in RefundWorker : RefundBacked(refund[v])'
    BY <1>1, <1>3 DEF JobsBacked, RefundBacked, refundVars
  <2>3. QED
    BY <2>1, <2>2 DEF JobsBacked
<1>5. DataInv'
  <2>1. \A r \in Recharge : RequestBacked(r)'
    BY <1>1, <1>3 DEF DataInv, RequestBacked
  <2>2. \A p \in Order : RefundBooked(p)'
    BY <1>1, <1>3 DEF DataInv, RefundBooked, Posted
  <2>3. \A f \in Flow : Posted(f)' => record'[f].account \in Account
    BY <1>1, <1>3 DEF DataInv, Posted, Charged
  <2>4. StatusHasRecord'
    BY <1>1, <1>3 DEF DataInv, StatusHasRecord, Posted
  <2>5. RechargeCreditedIffApproved'
    BY <1>1, <1>3 DEF DataInv, RechargeCreditedIffApproved, Posted
  <2>6. QED
    BY <2>1, <2>2, <2>3, <2>4, <2>5 DEF DataInv
<1>6. QED
  BY <1>2, <1>4, <1>5 DEF IndInv

(* An absent record is typed. *)
LEMMA NoRecordType == NoRecord \in Record
BY DEF NoRecord, Record

(* A retry deletes no success record. *)
LEMMA DeleteRetryableInv ==
  ASSUME IndInv, NEW w \in Worker, DeleteRetryable(w)
  PROVE  IndInv'
<1> DEFINE f == Deduction(job[w].order)
<1>1. /\ TypeOK /\ job[w] \in Job /\ job[w].order \in Order /\ job[w].account \in Account
      /\ DataInv
  BY JobHolds DEF DeleteRetryable, At, JobBacked, IndInv
<1>2. CASE ~Retryable(f)
  <2>1. Return(w) /\ OnlyReads /\ UNCHANGED faults
    BY <1>2 DEF DeleteRetryable, OnlyReads, moneyVars
  <2>2. QED
    BY <2>1, ReturnStep
<1>3. CASE Retryable(f)
  <2>1. /\ record' = [record EXCEPT ![f] = record'[f]]
        /\ record'[f] = NoRecord
    BY <1>1, <1>3, Flows DEF DeleteRetryable, TypeOK
  <2>2. job' = [job EXCEPT ![w] = job'[w]] /\ job'[w] = [job[w] EXCEPT !.pc = "mark"]
    BY <1>1, <1>3 DEF DeleteRetryable, TypeOK, Goto
  <2>3. job'[w] \in Job /\ JobBacked(job[w])'
    BY <2>2, <1>1 DEF JobBacked, Job
  <2>4. ~Charged(job[w].order) /\ record'[f].status # "success"
    BY <1>3, <2>1 DEF Charged, Posted, Retryable, NoRecord
  <2>5. /\ wallet' \in [Account -> Wallet] /\ faults' \in Nat
        /\ \A a \in Account : wallet'[a].balance >= 0
    BY <1>1 DEF TypeOK, DataInv, DeleteRetryable
  <2>6. UNCHANGED <<request, trade, envVars, queueVars, refundVars>>
    BY DEF DeleteRetryable
  <2>7. QED
    BY <1>1, <2>1, <2>2, <2>3, <2>4, <2>5, <2>6, NoRecordType, DeductionWritten
<1>4. QED
  BY <1>2, <1>3

(* The error record replaces none, so no success record either. *)
LEMMA WriteErrorRecordInv ==
  ASSUME IndInv, NEW w \in Worker, WriteErrorRecord(w)
  PROVE  IndInv'
<1> DEFINE f == Deduction(job[w].order)
           err == [status |-> "error", amount |-> 0, account |-> job[w].account, month |-> month]
<1>1. /\ TypeOK /\ job[w] \in Job /\ job[w].order \in Order /\ job[w].account \in Account
      /\ DataInv
  BY JobHolds DEF WriteErrorRecord, At, JobBacked, IndInv
<1>2. /\ job' = [job EXCEPT ![w] = job'[w]] /\ job'[w] \in Job /\ JobBacked(job[w])'
  BY <1>1, GotoWithOrderJob DEF WriteErrorRecord
<1>3. faults' \in Nat
  BY <1>1, FaultNat DEF WriteErrorRecord
<1>4. CASE UNCHANGED record
  BY <1>1, <1>2, <1>3, <1>4, JobStep DEF WriteErrorRecord, TypeOK, moneyVars, envVars, queueVars, refundVars
<1>5. CASE ~Exists(f) /\ record' = [record EXCEPT ![f] = err]
  <2>1. record' = [record EXCEPT ![f] = record'[f]] /\ record'[f] = err
    BY <1>1, <1>5, Flows DEF TypeOK
  <2>2. err \in Record
    BY <1>1 DEF TypeOK, Record
  <2>3. ~Charged(job[w].order)
    BY <1>5 DEF Charged, Posted, Exists
  <2>4. record'[f].account \in Account
    BY <1>1, <2>1
  <2>5. /\ wallet' \in [Account -> Wallet]
        /\ \A a \in Account : wallet'[a].balance >= 0
    BY <1>1 DEF TypeOK, DataInv, WriteErrorRecord
  <2>6. UNCHANGED <<request, trade, envVars, queueVars, refundVars>>
    BY DEF WriteErrorRecord
  <2>7. QED
    BY <1>1, <1>2, <1>3, <2>1, <2>2, <2>3, <2>4, <2>5, <2>6, DeductionWritten
<1>6. QED
  BY <1>4, <1>5 DEF WriteErrorRecord

(* Settling on a rate may cost a fault. *)
LEMMA SettledRate ==
  ASSUME NEW a, NEW locked \in Rate, NEW rate \in Rate, TypeOK, SettleRate(a, locked, rate)
  PROVE  faults' \in Nat
BY FaultNat DEF SettleRate

(* One wallet row written with a balance that is not negative. *)
LEMMA WalletWritten ==
  ASSUME TypeOK, NEW a \in Account, NEW row \in Wallet, wallet' = [wallet EXCEPT ![a] = row],
         \A b \in Account : wallet[b].balance >= 0, row.balance >= 0
  PROVE  wallet' \in [Account -> Wallet] /\ \A b \in Account : wallet'[b].balance >= 0
BY DEF TypeOK

(* The transaction debits what the locked row covers, once per flow number. *)
LEMMA ChargeInv ==
  ASSUME IndInv, NEW w \in Worker, Charge(w)
  PROVE  IndInv'
<1> DEFINE a == job[w].account
           f == Deduction(job[w].order)
<1>1. /\ TypeOK /\ job[w] \in Job /\ job[w].order \in Order /\ a \in Account
      /\ job[w].cost \in Cost /\ DataInv
  BY JobHolds DEF Charge, At, JobBacked, IndInv
<1>2. PICK rate \in Rate :
        LET actual == Discounted(job[w].cost, rate)
        IN  /\ SettleRate(a, wallet[a].rate, rate)
            /\ \/ /\ ~Covered(w, actual)
                  /\ wallet' = [wallet EXCEPT ![a].rate = rate]
                  /\ GotoWithOrder(w, "failMark")
                  /\ UNCHANGED record
               \/ /\ Covered(w, actual) /\ ~Exists(f)
                  /\ record' = [record EXCEPT ![f] = [status |-> "success",
                                  account |-> a, amount |-> actual, month |-> month]]
                  /\ wallet' = [wallet EXCEPT ![a].rate = rate,
                                              ![a].balance = BalanceAfter(w, actual)]
                  /\ job' = [job EXCEPT ![w] = [IdleJob EXCEPT !.pc = "status",
                                !.order = job[w].order, !.prevMark = job[w].prevMark]]
               \/ /\ Covered(w, actual) /\ Exists(f)
                  /\ Return(w)
                  /\ UNCHANGED <<wallet, record>>
  BY DEF Charge
<1> DEFINE actual == Discounted(job[w].cost, rate)
<1>3. /\ wallet[a] \in Wallet /\ wallet[a].rate \in Rate
      /\ wallet[a].balance \in Int /\ wallet[a].balance >= 0
  BY <1>1 DEF TypeOK, Wallet, DataInv
<1>4. faults' \in Nat
  BY <1>1, <1>2, <1>3, SettledRate
<1>5. actual \in Nat
  BY <1>1, DiscountedNat
<1>6. UNCHANGED <<request, trade, envVars, queueVars, refundVars>>
  BY DEF Charge
<1>7. CASE /\ wallet' = [wallet EXCEPT ![a].rate = rate]
           /\ GotoWithOrder(w, "failMark")
           /\ UNCHANGED record
  <2>1. [wallet[a] EXCEPT !.rate = rate] \in Wallet
    BY <1>3 DEF Wallet
  <2>2. [wallet[a] EXCEPT !.rate = rate].balance >= 0
    BY <1>3 DEF Wallet
  <2>3. wallet' = [wallet EXCEPT ![a] = [wallet[a] EXCEPT !.rate = rate]]
    BY <1>1, <1>7 DEF TypeOK
  <2>4. /\ wallet' \in [Account -> Wallet]
        /\ \A b \in Account : wallet'[b].balance >= 0
    BY <1>1, <2>1, <2>2, <2>3, WalletWritten DEF DataInv
  <2>5. /\ job' = [job EXCEPT ![w] = job'[w]] /\ job'[w] \in Job /\ JobBacked(job[w])'
    BY <1>1, <1>7, GotoWithOrderJob
  <2>6. /\ record' = [record EXCEPT ![f] = record'[f]] /\ record'[f] \in Record
        /\ Charged(job[w].order) => record'[f] = record[f]
        /\ record'[f].status = "success" => record'[f].account \in Account
    BY <1>1, <1>7, Flows DEF TypeOK, DataInv, Posted
  <2>7. QED
    BY <1>1, <1>4, <1>6, <2>4, <2>5, <2>6, DeductionWritten
<1>8. CASE /\ Covered(w, actual) /\ ~Exists(f)
           /\ record' = [record EXCEPT ![f] = [status |-> "success",
                           account |-> a, amount |-> actual, month |-> month]]
           /\ wallet' = [wallet EXCEPT ![a].rate = rate,
                                       ![a].balance = BalanceAfter(w, actual)]
           /\ job' = [job EXCEPT ![w] = [IdleJob EXCEPT !.pc = "status",
                         !.order = job[w].order, !.prevMark = job[w].prevMark]]
  <2> DEFINE row == [wallet[a] EXCEPT !.rate = rate, !.balance = BalanceAfter(w, actual)]
             posting == [status |-> "success", account |-> a, amount |-> actual, month |-> month]
  <2>1. BalanceAfter(w, actual) \in Int /\ BalanceAfter(w, actual) >= 0
    BY <1>3, <1>5, <1>8 DEF BalanceAfter, Covered
  <2>2. row \in Wallet /\ row.balance >= 0
    BY <1>3, <2>1 DEF Wallet
  <2>3. wallet' = [wallet EXCEPT ![a] = row]
    BY <1>1, <1>8 DEF TypeOK
  <2>4. /\ wallet' \in [Account -> Wallet]
        /\ \A b \in Account : wallet'[b].balance >= 0
    BY <1>1, <2>2, <2>3, WalletWritten DEF DataInv
  <2>5. /\ record' = [record EXCEPT ![f] = record'[f]] /\ record'[f] = posting
    BY <1>1, <1>8, Flows DEF TypeOK
  <2>6. posting \in Record
    BY <1>1, <1>5 DEF TypeOK, Record
  <2>7. ~Charged(job[w].order)
    BY <1>8 DEF Charged, Posted, Exists
  <2>8. /\ job' = [job EXCEPT ![w] = job'[w]] /\ job'[w] \in Job
        /\ job'[w].pc = "status" /\ job'[w].order = job[w].order
    <3>1. [IdleJob EXCEPT !.pc = "status"] \in Job
      BY IdleTypes DEF Job
    <3>2. [[IdleJob EXCEPT !.pc = "status"] EXCEPT !.order = job[w].order] \in Job
      BY <3>1, <1>1 DEF Job
    <3>3. job[w].prevMark \in Mark
      BY <1>1 DEF Job
    <3>4. /\ job' = [job EXCEPT ![w] = job'[w]]
          /\ job'[w] = [[[IdleJob EXCEPT !.pc = "status"] EXCEPT !.order = job[w].order]
                         EXCEPT !.prevMark = job[w].prevMark]
      BY <1>1, <1>8 DEF TypeOK
    <3>5. QED
      BY <3>2, <3>3, <3>4 DEF Job
  <2>9. JobBacked(job[w])'
    BY <1>1, <2>5, <2>8 DEF JobBacked, Charged, Posted
  <2>10. QED
    BY <1>1, <1>4, <1>6, <2>4, <2>5, <2>6, <2>7, <2>8, <2>9, DeductionWritten
<1>9. CASE Return(w) /\ UNCHANGED <<wallet, record>>
  BY <1>2, <1>6, <1>9, ReturnStep DEF SettleRate, OnlyReads, moneyVars
<1>10. QED
  BY <1>2, <1>7, <1>8, <1>9

(* No record and no goroutine changes. *)
LEMMA JobsStay ==
  ASSUME IndInv, UNCHANGED <<record, job, refund>>
  PROVE  JobsBacked'
BY DEF IndInv, JobsBacked, JobBacked, RefundBacked, Charged, Posted

(* A new request is pending and moves no money. *)
LEMMA SubmitRechargeInv ==
  ASSUME IndInv, NEW r \in Recharge, NEW a \in Account, NEW n \in Deposit,
         SubmitRecharge(r, a, n)
  PROVE  IndInv'
<1> DEFINE new == [status |-> "pending", account |-> a, amount |-> n, month |-> month]
<1>1. TypeOK /\ DataInv
  BY DEF IndInv
<1>2. wallet[a] \in Wallet /\ wallet[a].balance >= 0
  BY <1>1 DEF TypeOK, DataInv
<1>3. [wallet[a] EXCEPT !.open = TRUE] \in Wallet /\ [wallet[a] EXCEPT !.open = TRUE].balance >= 0
  BY <1>2 DEF Wallet
<1>4. wallet' = wallet \/ wallet' = [wallet EXCEPT ![a] = [wallet[a] EXCEPT !.open = TRUE]]
  BY <1>1 DEF SubmitRecharge, TypeOK
<1>5. /\ wallet' \in [Account -> Wallet]
      /\ \A b \in Account : wallet'[b].balance >= 0
  <2>1. CASE wallet' = wallet
    BY <1>1, <2>1 DEF DataInv, TypeOK
  <2>2. CASE wallet' # wallet
    BY <1>1, <1>3, <1>4, <2>2, WalletWritten DEF DataInv
  <2>3. QED
    BY <2>1, <2>2
<1>6. faults' \in Nat
  BY <1>1, FaultNat DEF SubmitRecharge
<1>7. request' = request \/ request' = [request EXCEPT ![r] = new]
  BY DEF SubmitRecharge
<1>8. new \in Request
  BY <1>1 DEF TypeOK, Request
<1>9. /\ request' \in [Recharge -> Request]
      /\ \A q \in Recharge : request'[q] = request[q] \/ (q = r /\ request'[q] = new)
  BY <1>1, <1>7, <1>8 DEF TypeOK
<1>10. TypeOK'
  BY <1>1, <1>5, <1>6, <1>9 DEF SubmitRecharge, TypeOK, envVars, queueVars, refundVars
<1>11. JobsBacked'
  BY JobsStay DEF SubmitRecharge, refundVars
<1>12. DataInv'
  <2>1. \A q \in Recharge : RequestBacked(q)'
    BY <1>1, <1>9 DEF DataInv, RequestBacked, SubmitRecharge
  <2>2. RechargeCreditedIffApproved'
    <3>1. request[r].status = "none"
      BY DEF SubmitRecharge
    <3>2. QED
      BY <1>1, <1>9, <3>1 DEF DataInv, RechargeCreditedIffApproved, Posted, SubmitRecharge
  <2>3. (\A o \in Order : RefundBooked(o)') /\ StatusHasRecord'
    BY <1>1 DEF DataInv, RefundBooked, StatusHasRecord, Charged, Posted, SubmitRecharge
  <2>4. \A f \in Flow : Posted(f)' => record'[f].account \in Account
    BY <1>1 DEF DataInv, Posted, SubmitRecharge
  <2>5. QED
    BY <1>5, <2>1, <2>2, <2>3, <2>4 DEF DataInv
<1>13. QED
  BY <1>10, <1>11, <1>12 DEF IndInv

(* A recharge asks for a positive amount. *)
LEMMA DepositNat == \A n \in Deposit : n \in Nat /\ n > 0
OBVIOUS

(* Every tier is a rate. *)
LEMMA TierRate == \A n : CalcDiscount(n) \in Rate
BY DEF CalcDiscount, Rate

(* Approval takes the request out of pending with its one credit. *)
LEMMA ApproveRechargeInv ==
  ASSUME IndInv, NEW r \in Recharge, ApproveRecharge(r)
  PROVE  IndInv'
<1> DEFINE a == request[r].account
           n == request[r].amount
           c == Credit(r)
           row == [open |-> TRUE, balance |-> wallet[a].balance + n,
                   rate |-> IF wallet[a].open THEN wallet[a].rate ELSE CalcDiscount(n)]
           posting == [status |-> "success", account |-> a, amount |-> n, month |-> month]
<1>1. TypeOK /\ DataInv /\ JobsBacked
  BY DEF IndInv
<1>2. a \in Account /\ n \in Nat /\ c \in Flow
  BY <1>1, DepositNat, Flows DEF ApproveRecharge, DataInv, RequestBacked
<1>3. wallet[a] \in Wallet /\ wallet[a].balance \in Int /\ wallet[a].balance >= 0
  BY <1>1, <1>2 DEF TypeOK, DataInv, Wallet
<1>4. row.rate \in Rate /\ row.balance \in Int /\ row.balance >= 0
  BY <1>2, <1>3, TierRate DEF Wallet
<1>5. row \in Wallet
  BY <1>4 DEF Wallet
<1>6. wallet' = [wallet EXCEPT ![a] = row]
  BY <1>1, <1>2 DEF ApproveRecharge, TypeOK
<1>7. /\ wallet' \in [Account -> Wallet]
      /\ \A b \in Account : wallet'[b].balance >= 0
  BY <1>1, <1>2, <1>4, <1>5, <1>6, WalletWritten DEF DataInv
<1>8. posting \in Record
  BY <1>1, <1>2 DEF TypeOK, Record
<1>9. /\ record' \in [Flow -> Record] /\ record'[c] = posting
      /\ \A f \in Flow : f # c => record'[f] = record[f]
  BY <1>1, <1>2, <1>8 DEF ApproveRecharge, TypeOK
<1>10. /\ request'[r] = [request[r] EXCEPT !.status = "approved"]
       /\ \A q \in Recharge : q # r => request'[q] = request[q]
  BY <1>1 DEF ApproveRecharge, TypeOK
<1>11. request' \in [Recharge -> Request]
  <2>1. [request[r] EXCEPT !.status = "approved"] \in Request
    BY <1>1 DEF TypeOK, Request
  <2>2. QED
    BY <1>1, <2>1 DEF ApproveRecharge, TypeOK
<1>12. TypeOK'
  BY <1>1, <1>7, <1>9, <1>11 DEF ApproveRecharge, TypeOK, envVars, queueVars, refundVars
<1>13. \A o \in Order : /\ record'[Deduction(o)] = record[Deduction(o)]
                       /\ record'[Refund(o)] = record[Refund(o)]
  BY <1>9, Flows
<1>14. JobsBacked'
  BY <1>1, <1>13 DEF ApproveRecharge, JobsBacked, JobBacked, RefundBacked, Charged, Posted, refundVars
<1>15. DataInv'
  <2>1. \A q \in Recharge : q # r => Credit(q) # c /\ record'[Credit(q)] = record[Credit(q)]
    BY <1>9, Flows
  <2>2. request'[r].status = "approved" /\ request'[r].account = a /\ request'[r].amount = n
    BY <1>1, <1>10 DEF TypeOK, Request
  <2>3. \A q \in Recharge : RequestBacked(q)'
    <3>1. RequestBacked(r)'
      BY <1>1, <1>2, <1>9, <2>2 DEF DataInv, RequestBacked, ApproveRecharge
    <3>2. \A q \in Recharge : q # r => RequestBacked(q)'
      BY <1>1, <1>10, <2>1 DEF DataInv, RequestBacked
    <3>3. QED
      BY <3>1, <3>2
  <2>4. RechargeCreditedIffApproved'
    <3>1. \A q \in Recharge : q # r => (Posted(Credit(q))' <=> request'[q].status = "approved")
      BY <1>1, <1>10, <2>1 DEF DataInv, RechargeCreditedIffApproved, Posted
    <3>2. Posted(Credit(r))'
      BY <1>9 DEF Posted
    <3>3. QED
      BY <2>2, <3>1, <3>2 DEF RechargeCreditedIffApproved
  <2>5. (\A o \in Order : RefundBooked(o)') /\ StatusHasRecord'
    BY <1>1, <1>13 DEF DataInv, RefundBooked, StatusHasRecord, Charged, Posted, ApproveRecharge
  <2>6. \A f \in Flow : Posted(f)' => record'[f].account \in Account
    BY <1>1, <1>2, <1>9 DEF DataInv, Posted
  <2>7. QED
    BY <1>7, <2>3, <2>4, <2>5, <2>6 DEF DataInv
<1>16. QED
  BY <1>12, <1>14, <1>15 DEF IndInv

(* Only a pending request is rejected, so none that was credited. *)
LEMMA RejectRechargeInv ==
  ASSUME IndInv, NEW r \in Recharge, RejectRecharge(r)
  PROVE  IndInv'
<1>1. TypeOK /\ DataInv
  BY DEF IndInv
<1>2. /\ request'[r] = [request[r] EXCEPT !.status = "rejected"]
      /\ \A q \in Recharge : q # r => request'[q] = request[q]
  BY <1>1 DEF RejectRecharge, TypeOK
<1>3. request[r] \in Request /\ request[r].status = "pending"
  BY <1>1 DEF TypeOK, RejectRecharge
<1>4. request' \in [Recharge -> Request]
  <2>1. [request[r] EXCEPT !.status = "rejected"] \in Request
    BY <1>3 DEF Request
  <2>2. QED
    BY <1>1, <2>1 DEF RejectRecharge, TypeOK
<1>5. TypeOK'
  BY <1>1, <1>4 DEF RejectRecharge, TypeOK, envVars, queueVars, refundVars
<1>6. JobsBacked'
  BY JobsStay DEF RejectRecharge, refundVars
<1>7. /\ request'[r].status = "rejected" /\ request'[r].account = request[r].account
      /\ request'[r].amount = request[r].amount
  BY <1>2, <1>3 DEF Request
<1>8. DataInv'
  <2>1. \A q \in Recharge : RequestBacked(q)'
    BY <1>1, <1>2, <1>3, <1>7 DEF DataInv, RequestBacked, RejectRecharge
  <2>2. RechargeCreditedIffApproved'
    BY <1>1, <1>2, <1>3, <1>7 DEF DataInv, RechargeCreditedIffApproved, Posted, RejectRecharge
  <2>3. /\ \A a \in Account : wallet'[a].balance >= 0
        /\ \A o \in Order : RefundBooked(o)'
        /\ StatusHasRecord'
        /\ \A f \in Flow : Posted(f)' => record'[f].account \in Account
    BY <1>1 DEF DataInv, RefundBooked, StatusHasRecord, Charged, Posted, RejectRecharge
  <2>4. QED
    BY <2>1, <2>2, <2>3 DEF DataInv
<1>9. QED
  BY <1>5, <1>6, <1>8 DEF IndInv

(* The refresh writes one rate, if only the one there was. *)
LEMMA RefreshWrites ==
  ASSUME TypeOK, NEW a \in Account, RefreshDiscount(a)
  PROVE  \E rate \in Rate : wallet' = [wallet EXCEPT ![a].rate = rate]
<1>1. wallet[a].rate \in Rate /\ wallet = [wallet EXCEPT ![a].rate = wallet[a].rate]
  BY DEF TypeOK, Wallet
<1>2. CASE UNCHANGED wallet
  BY <1>1, <1>2
<1>3. CASE wallet' = [wallet EXCEPT ![a].rate = RefreshedRate(a)]
  BY <1>3, TierRate DEF RefreshedRate, Rate
<1>4. CASE wallet' = [wallet EXCEPT ![a].rate = 100]
  BY <1>4 DEF Rate
<1>5. QED
  BY <1>2, <1>3, <1>4 DEF RefreshDiscount

(* Nothing about money changes but the discount rate of one wallet. *)
LEMMA RefreshDiscountInv ==
  ASSUME IndInv, NEW a \in Account, RefreshDiscount(a)
  PROVE  IndInv'
<1>1. TypeOK /\ DataInv
  BY DEF IndInv
<1>2. PICK rate \in Rate : wallet' = [wallet EXCEPT ![a].rate = rate]
  BY <1>1, RefreshWrites
<1>3. wallet[a] \in Wallet /\ wallet[a].balance >= 0
  BY <1>1 DEF TypeOK, DataInv
<1>4. [wallet[a] EXCEPT !.rate = rate] \in Wallet /\ [wallet[a] EXCEPT !.rate = rate].balance >= 0
  BY <1>3 DEF Wallet
<1>5. wallet' = [wallet EXCEPT ![a] = [wallet[a] EXCEPT !.rate = rate]]
  BY <1>1, <1>2 DEF TypeOK
<1>6. /\ wallet' \in [Account -> Wallet]
      /\ \A b \in Account : wallet'[b].balance >= 0
  BY <1>1, <1>4, <1>5, WalletWritten DEF DataInv
<1>7. faults' \in Nat
  BY <1>1, FaultNat DEF RefreshDiscount
<1>8. TypeOK'
  BY <1>1, <1>6, <1>7 DEF RefreshDiscount, TypeOK, queueVars, refundVars
<1>9. JobsBacked'
  BY JobsStay DEF RefreshDiscount, refundVars
<1>10. DataInv'
  BY <1>1, <1>6 DEF DataInv, RequestBacked, RefundBooked, StatusHasRecord,
     RechargeCreditedIffApproved, Charged, Posted, RefreshDiscount
<1>11. QED
  BY <1>8, <1>9, <1>10 DEF IndInv

-----------------------------------------------------------------------------
(* Refund goroutines *)

(* A refund goroutine moves on and leaves the tables alone. *)
LEMMA RefundMoves ==
  ASSUME IndInv, NEW w \in RefundWorker,
         refund' = [refund EXCEPT ![w] = refund'[w]], refund'[w] \in RefundJob,
         RefundBacked(refund[w])',
         UNCHANGED <<moneyVars, trade, envVars, queueVars, job>>,
         refundable' \in SUBSET Order, Fault \/ UNCHANGED faults
  PROVE  IndInv'
<1>1. TypeOK /\ faults' \in Nat
  BY FaultNat DEF IndInv
<1>2. TypeOK'
  BY <1>1 DEF TypeOK, moneyVars, envVars, queueVars
<1>3. JobsBacked'
  BY <1>1 DEF IndInv, TypeOK, JobsBacked, JobBacked, RefundBacked, Charged, Posted, moneyVars
<1>4. DataInv'
  BY DEF IndInv, DataInv, RequestBacked, RefundBooked, StatusHasRecord,
     RechargeCreditedIffApproved, Posted, Charged, moneyVars
<1>5. QED
  BY <1>2, <1>3, <1>4 DEF IndInv

(* A refund goroutine that ends is idle. *)
LEMMA EndRefundJob ==
  ASSUME TypeOK, NEW w \in RefundWorker, EndRefund(w)
  PROVE  /\ refund' = [refund EXCEPT ![w] = refund'[w]] /\ refund'[w] \in RefundJob
         /\ refund'[w] = IdleRefund /\ RefundBacked(refund[w])'
BY IdleTypes DEF TypeOK, EndRefund, RefundBacked, IdleRefund

(* What a refund goroutine holds. *)
LEMMA RefundHolds ==
  ASSUME IndInv, NEW w \in RefundWorker
  PROVE  /\ TypeOK /\ refund[w] \in RefundJob /\ RefundBacked(refund[w])
         /\ refundable \in SUBSET Order
BY DEF IndInv, TypeOK, JobsBacked

(* The refund scan only lists orders. *)
LEMMA ScanRefundableInv ==
  ASSUME IndInv, ScanRefundable
  PROVE  IndInv'
<1>1. TypeOK'
  BY DEF IndInv, TypeOK, ScanRefundable, moneyVars, envVars, queueVars
<1>2. JobsBacked'
  BY JobsStay DEF ScanRefundable, moneyVars
<1>3. DataInv'
  BY DEF IndInv, DataInv, RequestBacked, RefundBooked, StatusHasRecord,
     RechargeCreditedIffApproved, Posted, Charged, moneyVars, ScanRefundable
<1>4. QED
  BY <1>1, <1>2, <1>3 DEF IndInv

(* The scan hands an order to a refund goroutine. *)
LEMMA TakeRefundableInv ==
  ASSUME IndInv, NEW w \in RefundWorker, TakeRefundable(w)
  PROVE  IndInv'
<1>1. TypeOK /\ refund[w] \in RefundJob
  BY RefundHolds
<1>2. PICK o \in refundable :
        /\ refundable' = refundable \ {o}
        /\ refund' = [refund EXCEPT ![w].pc = "account", ![w].order = o]
  BY DEF TakeRefundable
<1>3. o \in Order /\ refundable' \in SUBSET Order
  BY <1>1, <1>2 DEF TypeOK
<1>4. /\ refund' = [refund EXCEPT ![w] = refund'[w]]
      /\ refund'[w] = [refund[w] EXCEPT !.pc = "account", !.order = o]
  BY <1>1, <1>2 DEF TypeOK
<1>5. refund'[w] \in RefundJob /\ RefundBacked(refund[w])'
  BY <1>1, <1>3, <1>4 DEF RefundJob, RefundBacked
<1>6. QED
  BY <1>3, <1>4, <1>5, RefundMoves DEF TakeRefundable

(* The account that owns the shop now, or the goroutine ends. *)
LEMMA RefundAccountInv ==
  ASSUME IndInv, NEW w \in RefundWorker, RefundAccount(w)
  PROVE  IndInv'
<1> DEFINE a == owner[refund[w].order]
<1>1. /\ TypeOK /\ refund[w] \in RefundJob /\ refund[w].order \in Order
      /\ refundable' \in SUBSET Order
  BY RefundHolds DEF RefundAccount, RefundBacked
<1>2. a \in Account \cup {NoAccount}
  BY <1>1 DEF TypeOK
<1>3. CASE a = NoAccount
  BY <1>1, <1>3, EndRefundJob, RefundMoves DEF RefundAccount
<1>4. CASE a # NoAccount
  <2>1. /\ refund' = [refund EXCEPT ![w] = refund'[w]]
        /\ refund'[w] = [refund[w] EXCEPT !.pc = "exists", !.account = a]
    BY <1>1, <1>4 DEF RefundAccount, TypeOK
  <2>2. refund'[w] \in RefundJob /\ RefundBacked(refund[w])'
    BY <1>1, <1>2, <1>4, <2>1 DEF RefundJob, RefundBacked
  <2>3. QED
    BY <1>1, <2>1, <2>2, RefundMoves DEF RefundAccount
<1>5. QED
  BY <1>3, <1>4

(* The check for an earlier refund changes no table. *)
LEMMA RefundExistsInv ==
  ASSUME IndInv, NEW w \in RefundWorker, RefundExists(w)
  PROVE  IndInv'
<1>1. /\ TypeOK /\ refund[w] \in RefundJob /\ refund[w].order \in Order
      /\ refund[w].account \in Account /\ refundable' \in SUBSET Order
  BY RefundHolds DEF RefundExists, RefundBacked
<1>2. /\ UNCHANGED <<moneyVars, trade, envVars, queueVars, job>>
      /\ Fault \/ UNCHANGED faults
  BY DEF RefundExists
<1>3. CASE EndRefund(w)
  BY <1>1, <1>2, <1>3, EndRefundJob, RefundMoves
<1>4. CASE refund' = [refund EXCEPT ![w].pc = "record"]
  <2>1. /\ refund' = [refund EXCEPT ![w] = refund'[w]]
        /\ refund'[w] = [refund[w] EXCEPT !.pc = "record"]
    BY <1>1, <1>4 DEF TypeOK
  <2>2. refund'[w] \in RefundJob /\ RefundBacked(refund[w])'
    BY <1>1, <2>1 DEF RefundJob, RefundBacked
  <2>3. QED
    BY <1>1, <1>2, <2>1, <2>2, RefundMoves
<1>5. QED
  BY <1>3, <1>4 DEF RefundExists

(* The amount kept is that of the order's deduction, which is final. *)
LEMMA RefundRecordInv ==
  ASSUME IndInv, NEW w \in RefundWorker, RefundRecord(w)
  PROVE  IndInv'
<1> DEFINE o == refund[w].order
<1>1. /\ TypeOK /\ refund[w] \in RefundJob /\ o \in Order
      /\ refund[w].account \in Account /\ refundable' \in SUBSET Order
  BY RefundHolds DEF RefundRecord, RefundBacked
<1>2. CASE ~Charged(o)
  BY <1>1, <1>2, EndRefundJob, RefundMoves DEF RefundRecord
<1>3. CASE Charged(o)
  <2>1. /\ refund' = [refund EXCEPT ![w] = refund'[w]]
        /\ refund'[w] = [refund[w] EXCEPT !.pc = "credit", !.amount = RefundAmount(o)]
    BY <1>1, <1>3 DEF TypeOK, RefundRecord
  <2>2. RefundAmount(o) \in Nat
    BY <1>1, Flows DEF RefundAmount, TypeOK, Record
  <2>3. refund'[w] \in RefundJob
    BY <1>1, <2>1, <2>2 DEF RefundJob
  <2>4. RefundBacked(refund[w])'
    <3>1. /\ refund'[w].order = o /\ refund'[w].account = refund[w].account
          /\ refund'[w].amount = RefundAmount(o)
      BY <1>1, <2>1 DEF RefundJob
    <3>2. record' = record
      BY DEF RefundRecord, moneyVars
    <3>3. QED
      BY <1>1, <1>3, <3>1, <3>2 DEF RefundBacked, RefundAmount, Charged, Posted
  <2>5. QED
    BY <1>1, <2>1, <2>3, <2>4, RefundMoves DEF RefundRecord
<1>4. QED
  BY <1>2, <1>3

(* A failed statement ends the refund; its transaction has no effect. *)
LEMMA RefundFaultInv ==
  ASSUME IndInv, NEW w \in RefundWorker, RefundFault(w)
  PROVE  IndInv'
<1>1. TypeOK /\ refundable' \in SUBSET Order
  BY RefundHolds DEF RefundFault
<1>2. QED
  BY <1>1, EndRefundJob, RefundMoves DEF RefundFault

(* The transaction credits what the deduction took and marks the order refunded. *)
LEMMA CreditRefundInv ==
  ASSUME IndInv, NEW w \in RefundWorker, CreditRefund(w)
  PROVE  IndInv'
<1> DEFINE o == refund[w].order
           a == refund[w].account
           n == refund[w].amount
           f == Refund(o)
           posting == [status |-> "success", account |-> a, amount |-> n, month |-> month]
           row == [wallet[a] EXCEPT !.balance = @ + n]
<1>1. /\ TypeOK /\ DataInv /\ JobsBacked
      /\ refund[w] \in RefundJob /\ o \in Order /\ a \in Account /\ n \in Nat
      /\ Charged(o) /\ n = record[Deduction(o)].amount
  BY RefundHolds DEF CreditRefund, RefundBacked, RefundJob, IndInv
<1>2. /\ refund' = [refund EXCEPT ![w] = refund'[w]] /\ refund'[w] \in RefundJob
      /\ refund'[w] = IdleRefund /\ RefundBacked(refund[w])'
  BY <1>1, EndRefundJob DEF CreditRefund
<1>3. CASE UNCHANGED <<wallet, record, trade>>
  BY <1>1, <1>2, <1>3, RefundHolds, RefundMoves DEF CreditRefund, moneyVars
<1>4. CASE /\ wallet[a].open /\ ~Exists(f)
           /\ record' = [record EXCEPT ![f] = posting]
           /\ wallet' = [wallet EXCEPT ![a].balance = @ + n]
           /\ trade' = IF trade[o].billing # Success THEN trade
                       ELSE [trade EXCEPT ![o].billing = Refunded]
  <2>1. wallet[a] \in Wallet /\ wallet[a].balance \in Int /\ wallet[a].balance >= 0
    BY <1>1 DEF TypeOK, DataInv, Wallet
  <2>2. row \in Wallet /\ row.balance >= 0
    BY <1>1, <2>1 DEF Wallet
  <2>3. wallet' = [wallet EXCEPT ![a] = row]
    BY <1>1, <1>4 DEF TypeOK
  <2>4. /\ wallet' \in [Account -> Wallet]
        /\ \A b \in Account : wallet'[b].balance >= 0
    BY <1>1, <2>2, <2>3, WalletWritten DEF DataInv
  <2>5. posting \in Record
    BY <1>1 DEF TypeOK, Record
  <2>6. /\ record' \in [Flow -> Record] /\ record'[f] = posting
        /\ \A g \in Flow : g # f => record'[g] = record[g]
    BY <1>1, <1>4, <2>5, Flows DEF TypeOK
  <2>7. /\ \A p \in Order : record'[Deduction(p)] = record[Deduction(p)]
        /\ \A p \in Order : p # o => record'[Refund(p)] = record[Refund(p)]
        /\ \A r \in Recharge : record'[Credit(r)] = record[Credit(r)]
    BY <1>1, <2>6, Flows
  <2>8. trade[o] \in Trade
    BY <1>1, TradeHolds
  <2>9. [trade[o] EXCEPT !.billing = Refunded] \in Trade
    BY <2>8 DEF Trade, Pending, Refunded
  <2>10. /\ trade' \in [Order -> Trade]
         /\ \A p \in Order : p # o => trade'[p] = trade[p]
         /\ trade'[o].billing = Success => trade[o].billing = Success
    <3>1. CASE trade[o].billing # Success
      BY <1>1, <1>4, <3>1 DEF TypeOK
    <3>2. CASE trade[o].billing = Success
      <4>1. trade' = [trade EXCEPT ![o] = [trade[o] EXCEPT !.billing = Refunded]]
        BY <1>1, <1>4, <3>2 DEF TypeOK
      <4>2. QED
        BY <1>1, <2>9, <3>2, <4>1 DEF TypeOK
    <3>3. QED
      BY <3>1, <3>2
  <2>11. TypeOK'
    BY <1>1, <1>2, <2>4, <2>6, <2>10 DEF CreditRefund, TypeOK, envVars, queueVars
  <2>12. JobsBacked'
    <3>1. \A v \in Worker : JobBacked(job[v])'
      BY <1>1, <2>7 DEF CreditRefund, JobsBacked, JobBacked, Charged, Posted
    <3>2. \A v \in RefundWorker : v # w => RefundBacked(refund[v])'
      <4> SUFFICES ASSUME NEW v \in RefundWorker, v # w PROVE RefundBacked(refund[v])'
        OBVIOUS
      <4>1. refund'[v] = refund[v] /\ RefundBacked(refund[v])
        BY <1>1, <1>2 DEF TypeOK, JobsBacked
      <4>2. QED
        BY <4>1, <2>7 DEF RefundBacked, Charged, Posted
    <3>3. QED
      BY <1>2, <3>1, <3>2 DEF JobsBacked
  <2>13. DataInv'
    <3>1. \A r \in Recharge : RequestBacked(r)'
      BY <1>1, <2>7 DEF CreditRefund, DataInv, RequestBacked
    <3>2. \A p \in Order : RefundBooked(p)'
      <4>1. \A p \in Order : p # o => RefundBooked(p)'
        BY <1>1, <2>7 DEF DataInv, RefundBooked, Charged, Posted
      <4>2. ASSUME NEW p \in Order, p = o PROVE RefundBooked(p)'
        BY <1>1, <2>6, <2>7, <4>2 DEF RefundBooked, Charged, Posted
      <4>3. QED
        BY <4>1, <4>2
    <3>3. \A g \in Flow : Posted(g)' => record'[g].account \in Account
      BY <1>1, <2>6 DEF DataInv, Posted
    <3>4. StatusHasRecord'
      <4>1. ASSUME NEW p \in Order, p # o
            PROVE  /\ trade'[p].billing = Success => Charged(p)'
                   /\ trade'[p].billing = Refunded => Posted(Refund(p))'
        BY <1>1, <2>7, <2>10, <4>1 DEF DataInv, StatusHasRecord, Charged, Posted
      <4>2. ASSUME NEW p \in Order, p = o
            PROVE  Charged(p)' /\ Posted(Refund(p))'
        BY <1>1, <2>6, <2>7, <4>2 DEF Charged, Posted
      <4>3. QED
        BY <4>1, <4>2 DEF StatusHasRecord
    <3>5. RechargeCreditedIffApproved'
      BY <1>1, <2>7 DEF CreditRefund, DataInv, RechargeCreditedIffApproved, Posted
    <3>6. QED
      BY <2>4, <3>1, <3>2, <3>3, <3>4, <3>5 DEF DataInv
  <2>14. QED
    BY <2>11, <2>12, <2>13 DEF IndInv
<1>5. QED
  BY <1>3, <1>4 DEF CreditRefund

-----------------------------------------------------------------------------
(* The scan, the environment and crashes *)

(* A step that leaves money, order rows and goroutines alone. *)
LEMMA OutsideStep ==
  ASSUME IndInv, UNCHANGED <<moneyVars, trade, job, refundVars, faults>>,
         owner' \in [Order -> Account \cup {NoAccount}],
         cost' \in [Order -> Cost \cup {NoPrice}], month' \in Nat,
         refreshing' \in SUBSET Account,
         scanned' \in SUBSET Order, triggered' \in SUBSET Order
  PROVE  IndInv'
<1>1. TypeOK'
  BY DEF IndInv, TypeOK, moneyVars, refundVars
<1>2. JobsBacked'
  BY JobsStay DEF moneyVars, refundVars
<1>3. DataInv'
  BY DEF IndInv, DataInv, RequestBacked, RefundBooked, StatusHasRecord,
     RechargeCreditedIffApproved, Posted, Charged, moneyVars
<1>4. QED
  BY <1>1, <1>2, <1>3 DEF IndInv

(* The deduction scan only lists orders. *)
LEMMA ScanPendingInv ==
  ASSUME IndInv, ScanPending
  PROVE  IndInv'
BY OutsideStep DEF ScanPending, IndInv, TypeOK, envVars

(* The calendar moves no money. *)
LEMMA NewMonthInv ==
  ASSUME IndInv, NewMonth
  PROVE  IndInv'
<1>1. TypeOK /\ month' \in Nat /\ refreshing' \in SUBSET Account
  BY DEF IndInv, TypeOK, NewMonth
<1>2. QED
  BY <1>1, OutsideStep DEF NewMonth, TypeOK, queueVars

(* A shop that changes hands moves no money. *)
LEMMA AssignShopInv ==
  ASSUME IndInv, NEW o \in Order, NEW a \in Account \cup {NoAccount}, AssignShop(o, a)
  PROVE  IndInv'
<1>1. TypeOK
  BY DEF IndInv
<1>2. owner' \in [Order -> Account \cup {NoAccount}]
  BY <1>1 DEF TypeOK, AssignShop
<1>3. QED
  BY <1>1, <1>2, OutsideStep DEF AssignShop, TypeOK, queueVars

(* A price that changes moves no money. *)
LEMMA SetPriceInv ==
  ASSUME IndInv, NEW o \in Order, NEW c \in Cost \cup {NoPrice}, SetPrice(o, c)
  PROVE  IndInv'
<1>1. TypeOK
  BY DEF IndInv
<1>2. cost' \in [Order -> Cost \cup {NoPrice}]
  BY <1>1 DEF TypeOK, SetPrice
<1>3. QED
  BY <1>1, <1>2, OutsideStep DEF SetPrice, TypeOK, queueVars

(* Rows survive a crash and idle goroutines back nothing. *)
LEMMA CrashInv ==
  ASSUME IndInv, Crash
  PROVE  IndInv'
<1>1. TypeOK /\ DataInv /\ faults' \in Nat
  BY FaultNat DEF IndInv, Crash
<1>2. TypeOK'
  BY <1>1, IdleTypes DEF TypeOK, Crash, moneyVars
<1>3. JobsBacked'
  BY DEF Crash, JobsBacked, JobBacked, RefundBacked, IdleJob, IdleRefund
<1>4. DataInv'
  BY <1>1 DEF Crash, DataInv, RequestBacked, RefundBooked, StatusHasRecord,
     RechargeCreditedIffApproved, Posted, Charged, moneyVars
<1>5. QED
  BY <1>2, <1>3, <1>4 DEF IndInv

(* Nothing happens. *)
LEMMA StutterInv ==
  ASSUME IndInv, UNCHANGED vars
  PROVE  IndInv'
<1>1. TypeOK
  BY DEF IndInv
<1>2. QED
  BY <1>1, OutsideStep DEF vars, TypeOK, envVars, queueVars

-----------------------------------------------------------------------------
(* The invariant *)

(* Every step of ProcessDeduction keeps the invariant. *)
LEMMA DeductStepInv ==
  ASSUME IndInv, NEW w \in Worker, DeductStep(w)
  PROVE  IndInv'
BY TakeScannedInv, TakeTriggeredInv, ResolveAccountInv, ReadWalletInv, CalculateAmountInv,
   CheckFlowInv, DeleteRetryableInv, ReadMarkInv, WriteErrorRecordInv, WriteErrorStatusInv,
   PreviewBalanceInv, ChargeInv, FailMarkInv, WriteStatusInv, RecoverMarkInv DEF DeductStep

(* Every step of processRefund keeps the invariant. *)
LEMMA RefundStepInv ==
  ASSUME IndInv, NEW w \in RefundWorker, RefundStep(w)
  PROVE  IndInv'
BY TakeRefundableInv, RefundAccountInv, RefundExistsInv, RefundRecordInv, CreditRefundInv
   DEF RefundStep

(* Every step of review, editing and sync keeps the invariant. *)
LEMMA OrderStepInv ==
  ASSUME IndInv, OrderStep
  PROVE  IndInv'
BY MarkApprovedInv, MarkInsufficientInv, MarkBarcodeErrorInv, EditMarkInv,
   CompleteAfterSaleInv, SyncOrderInv, AssignShopInv, SetPriceInv DEF OrderStep

(* Every decision on a recharge keeps the invariant. *)
LEMMA RechargeStepInv ==
  ASSUME IndInv, RechargeStep
  PROVE  IndInv'
BY SubmitRechargeInv, ApproveRechargeInv, RejectRechargeInv DEF RechargeStep

(* The invariant is inductive. *)
LEMMA NextIndInv == IndInv /\ [Next]_vars => IndInv'
<1> SUFFICES ASSUME IndInv, [Next]_vars PROVE IndInv'
  OBVIOUS
<1>1. CASE RechargeStep
  BY <1>1, RechargeStepInv
<1>2. CASE OrderStep
  BY <1>2, OrderStepInv
<1>3. CASE NewMonth \/ \E a \in Account : RefreshDiscount(a)
  BY <1>3, NewMonthInv, RefreshDiscountInv
<1>4. CASE ScanPending \/ \E w \in Worker : DeductStep(w) \/ DeductFault(w)
  BY <1>4, ScanPendingInv, DeductStepInv, DeductFaultInv
<1>5. CASE ScanRefundable \/ \E w \in RefundWorker : RefundStep(w) \/ RefundFault(w)
  BY <1>5, ScanRefundableInv, RefundStepInv, RefundFaultInv
<1>6. CASE Crash
  BY <1>6, CrashInv
<1>7. CASE UNCHANGED vars
  BY <1>7, StutterInv
<1>8. QED
  BY <1>1, <1>2, <1>3, <1>4, <1>5, <1>6, <1>7 DEF Next

(* Whatever goroutines, reviewers, administrators and crashes interleave,
   what a goroutine is about to write stays backed by what is posted. *)
THEOREM Invariance == Spec => []IndInv
<1>1. Init => IndInv
  BY InitIndInv
<1>2. IndInv /\ [Next]_vars => IndInv'
  BY NextIndInv
<1>3. QED
  BY <1>1, <1>2, PTL DEF Spec

(* TypeOK: every row and every goroutine keeps to its type; in particular a
   wallet only ever has the rate of a tier or none. *)
THEOREM TypeCorrect == Spec => []TypeOK
<1>1. IndInv => TypeOK
  BY DEF IndInv
<1>2. QED
  BY <1>1, Invariance, PTL

(* StatusHasRecord: billing_status never claims a deduction or refund that
   was not recorded. *)
THEOREM StatusCorrect == Spec => []StatusHasRecord
<1>1. IndInv => StatusHasRecord
  BY DEF IndInv, DataInv
<1>2. QED
  BY <1>1, Invariance, PTL

(* RechargeCreditedIffApproved: a recharge request has its credit exactly if it
   was approved, so no two administrators credit or undo it twice. *)
THEOREM RechargeCorrect == Spec => []RechargeCreditedIffApproved
<1>1. IndInv => RechargeCreditedIffApproved
  BY DEF IndInv, DataInv
<1>2. QED
  BY <1>1, Invariance, PTL

(* NonNegative: no wallet balance goes below zero, however stale the balances
   the goroutines decided on. *)
THEOREM NeverOverdrawn == Spec => []NonNegative
<1>1. IndInv => NonNegative
  BY DEF IndInv, DataInv, NonNegative, Books!NonNegative
<1>2. QED
  BY <1>1, Invariance, PTL

(* RefundMatchesDeduction: a refund record comes with the order's deduction
   record and gives back the same amount. *)
THEOREM RefundCorrect == Spec => []RefundMatchesDeduction
<1>1. IndInv => RefundMatchesDeduction
  <2> SUFFICES ASSUME IndInv, NEW o \in Order, Refund(o) \in PostedFlow
               PROVE  /\ Deduction(o) \in PostedFlow
                      /\ Posted(Deduction(o)) /\ Posted(Refund(o))
                      /\ record[Refund(o)].amount = record[Deduction(o)].amount
    BY Flows DEF RefundMatchesDeduction, Books!RefundMatchesDeduction, Books!Refund,
       Books!Deduction, Refund, Deduction, Books!Flow
  <2>1. QED
    BY Flows DEF IndInv, DataInv, RefundBooked, PostedFlow, Charged
<1>2. QED
  BY <1>1, Invariance, PTL

-----------------------------------------------------------------------------
(***************************************************************************)
(* A locked discount is kept (LockedRateKept), for any accounts, orders,   *)
(* requests and goroutines and any number of faults.  A wallet that has    *)
(* not been opened has no discount locked, and goroutines that use a       *)
(* wallet, and the monthly refresh, have found it open.                    *)
(***************************************************************************)

(* Where a goroutine has read its wallet and may still write it. *)
WalletInUse == {"amount", "exists", "delete", "mark", "errorRecord", "preview", "charge"}

RatesOpen ==
  /\ \A a \in Account : ~wallet[a].open => wallet[a].rate = 100
  /\ \A a \in refreshing : wallet[a].open
  /\ \A w \in Worker : job[w].pc \in WalletInUse => wallet[job[w].account].open

(* A goroutine keeps the wallet it uses, or begins to use an open one. *)
JobsMove ==
  \A w \in Worker : job'[w].pc \in WalletInUse =>
    \/ job[w].pc \in WalletInUse /\ job'[w].account = job[w].account
    \/ job'[w].account \in Account /\ wallet[job'[w].account].open

(* What LockedRateKept says of a step. *)
RatesMove ==
  \A a \in Account :
    wallet[a].rate < 100 /\ wallet'[a].rate # wallet[a].rate
      => a \in refreshing /\ a \notin refreshing'

Kept == RatesOpen' /\ RatesMove

LEMMA InUseAccount ==
  ASSUME IndInv, NEW w \in Worker, job[w].pc \in WalletInUse
  PROVE  job[w].account \in Account
BY DEF IndInv, JobsBacked, JobBacked, WalletInUse

LEMMA InitRates == Init => RatesOpen
BY DEF Init, RatesOpen, IdleJob, WalletInUse

(* Steps that leave the wallets alone. *)
LEMMA WalletsStay ==
  ASSUME IndInv, RatesOpen, UNCHANGED wallet, JobsMove,
         \A a \in refreshing' : wallet[a].open
  PROVE  Kept
<1>1. \A w \in Worker : job'[w].pc \in WalletInUse => wallet'[job'[w].account].open
  BY DEF JobsMove, RatesOpen
<1>2. QED
  BY <1>1 DEF Kept, RatesOpen, RatesMove

LEMMA JobsUnmoved == ASSUME UNCHANGED job PROVE JobsMove
BY DEF JobsMove

(* One goroutine moves on. *)
LEMMA OneMoves ==
  ASSUME TypeOK, NEW w \in Worker, NEW j, job' = [job EXCEPT ![w] = j],
         j.pc \in WalletInUse =>
           \/ job[w].pc \in WalletInUse /\ j.account = job[w].account
           \/ j.account \in Account /\ wallet[j.account].open
  PROVE  JobsMove
<1>1. job'[w] = j /\ \A v \in Worker : v # w => job'[v] = job[v]
  BY DEF TypeOK
<1>2. QED
  BY <1>1 DEF JobsMove

(* The ways of moving that forget the wallet. *)
LEMMA ReturnMoves ==
  ASSUME TypeOK, NEW w \in Worker, Return(w)
  PROVE  JobsMove
<1>1. IdleJob.pc = "idle"
  BY DEF IdleJob
<1>2. QED
  BY <1>1, OneMoves DEF Return, WalletInUse

LEMMA GotoWithOrderMoves ==
  ASSUME TypeOK, NEW w \in Worker, NEW pc, pc \notin WalletInUse, GotoWithOrder(w, pc)
  PROVE  JobsMove
<1> PICK j : j = [IdleJob EXCEPT !.pc = pc, !.order = job[w].order]
  OBVIOUS
<1>1. j.pc = pc
  BY DEF IdleJob
<1>2. QED
  BY <1>1, OneMoves DEF GotoWithOrder

(* A goroutine that goes on with the wallet it has. *)
LEMMA GoesOn ==
  ASSUME TypeOK, NEW w \in Worker, job[w].pc \in WalletInUse, NEW j,
         job' = [job EXCEPT ![w] = j], j.account = job[w].account
  PROVE  JobsMove
BY OneMoves

LEMMA GotoMoves ==
  ASSUME TypeOK, NEW w \in Worker, job[w].pc \in WalletInUse, NEW pc, Goto(w, pc)
  PROVE  JobsMove
<1> PICK j : j = [job[w] EXCEPT !.pc = pc]
  OBVIOUS
<1>1. job' = [job EXCEPT ![w] = j] /\ j.account = job[w].account
  BY DEF Goto, TypeOK, Job
<1>2. QED
  BY <1>1, GoesOn

(* A goroutine begins without a wallet, and uses the one it has found open. *)
LEMMA StartMoves ==
  ASSUME IndInv, NEW w \in Worker, TakeScanned(w) \/ TakeTriggered(w) \/ ResolveAccount(w)
  PROVE  JobsMove
<1>1. TypeOK
  BY DEF IndInv
<1>2. ASSUME NEW o, Take(w, o) PROVE JobsMove
  <2> PICK j : j = [IdleJob EXCEPT !.pc = "account", !.order = o]
    OBVIOUS
  <2>1. job' = [job EXCEPT ![w] = j] /\ j.pc = "account"
    BY <1>2 DEF Take, IdleJob
  <2>2. QED
    BY <1>1, <2>1, OneMoves DEF WalletInUse
<1>3. CASE ResolveAccount(w)
  <2>1. CASE Return(w)
    BY <1>1, <2>1, ReturnMoves
  <2>2. CASE job' = [job EXCEPT ![w].pc = "wallet", ![w].account = owner[job[w].order]]
    <3> PICK j : j = [job[w] EXCEPT !.pc = "wallet", !.account = owner[job[w].order]]
      OBVIOUS
    <3>1. job \in [Worker -> Job]
      BY <1>1 DEF TypeOK
    <3>2. j.pc = "wallet"
      BY <3>1 DEF Job
    <3>3. job' = [job EXCEPT ![w] = j]
      BY <2>2, <3>1
    <3>4. QED
      BY <1>1, <3>2, <3>3, OneMoves DEF WalletInUse
  <2>3. QED
    BY <1>3, <2>1, <2>2 DEF ResolveAccount
<1>4. QED
  BY <1>2, <1>3 DEF TakeScanned, TakeTriggered

LEMMA ReadWalletMoves ==
  ASSUME IndInv, NEW w \in Worker, ReadWallet(w)
  PROVE  JobsMove
<1> DEFINE wal == wallet[job[w].account]
<1>1. TypeOK /\ job[w] \in Job /\ job[w].account \in Account
  BY JobHolds DEF ReadWallet, At, JobBacked
<1>2. CASE ~wal.open
  BY <1>1, <1>2, ReturnMoves DEF ReadWallet
<1>3. CASE wal.open
  <2> PICK j : j = [job[w] EXCEPT !.pc = "amount", !.balance = wal.balance, !.rate = wal.rate]
    OBVIOUS
  <2>1. job' = [job EXCEPT ![w] = j]
    BY <1>1, <1>3 DEF ReadWallet, TypeOK
  <2>2. j.account = job[w].account
    BY <1>1 DEF Job
  <2>3. QED
    BY <1>1, <1>3, <2>1, <2>2, OneMoves
<1>4. QED
  BY <1>2, <1>3

(* The other steps of a deduction that leave the wallet alone. *)
LEMMA ReadsMove ==
  ASSUME IndInv, NEW w \in Worker,
         \/ CalculateAmount(w) \/ CheckFlow(w) \/ DeleteRetryable(w) \/ ReadMark(w)
         \/ WriteErrorRecord(w) \/ WriteErrorStatus(w) \/ PreviewBalance(w)
         \/ FailMark(w) \/ WriteStatus(w) \/ RecoverMark(w)
  PROVE  JobsMove
<1>1. TypeOK /\ job[w] \in Job
  BY DEF IndInv, TypeOK
<1>2. CASE CalculateAmount(w)
  <2>1. PICK c : job' = [job EXCEPT ![w].pc = "exists", ![w].cost = c]
    BY <1>2 DEF CalculateAmount
  <2> PICK j : j = [job[w] EXCEPT !.pc = "exists", !.cost = c]
    OBVIOUS
  <2>2. job' = [job EXCEPT ![w] = j] /\ j.account = job[w].account
    BY <1>1, <2>1 DEF TypeOK, Job
  <2>3. job[w].pc \in WalletInUse
    BY <1>2 DEF CalculateAmount, At, WalletInUse
  <2>4. QED
    BY <1>1, <2>2, <2>3, GoesOn
<1>3. CASE CheckFlow(w)
  <2>1. \E pc : Goto(w, pc)
    BY <1>3 DEF CheckFlow
  <2>2. job[w].pc \in WalletInUse
    BY <1>3 DEF CheckFlow, At, WalletInUse
  <2>3. QED
    BY <1>1, <2>1, <2>2, GotoMoves
<1>4. CASE DeleteRetryable(w)
  <2>1. job[w].pc \in WalletInUse
    BY <1>4 DEF DeleteRetryable, At, WalletInUse
  <2>2. QED
    BY <1>1, <1>4, <2>1, GotoMoves, ReturnMoves DEF DeleteRetryable
<1>5. CASE ReadMark(w)
  <2>1. PICK m, pc : job' = [job EXCEPT ![w].prevMark = m, ![w].pc = pc]
    BY <1>5 DEF ReadMark
  <2> PICK j : j = [job[w] EXCEPT !.prevMark = m, !.pc = pc]
    OBVIOUS
  <2>2. job' = [job EXCEPT ![w] = j] /\ j.account = job[w].account
    BY <1>1, <2>1 DEF TypeOK, Job
  <2>3. job[w].pc \in WalletInUse
    BY <1>5 DEF ReadMark, At, WalletInUse
  <2>4. QED
    BY <1>1, <2>2, <2>3, GoesOn
<1>6. CASE WriteErrorRecord(w)
  BY <1>1, <1>6, GotoWithOrderMoves DEF WriteErrorRecord, WalletInUse
<1>7. CASE WriteErrorStatus(w) \/ FailMark(w) \/ RecoverMark(w)
  BY <1>1, <1>7, ReturnMoves DEF WriteErrorStatus, FailMark, RecoverMark
<1>8. CASE PreviewBalance(w)
  <2>1. job[w].pc \in WalletInUse
    BY <1>8 DEF PreviewBalance, At, WalletInUse
  <2>2. GotoWithOrder(w, "failMark") \/ Goto(w, "charge")
    BY <1>8 DEF PreviewBalance
  <2>3. QED
    BY <1>1, <2>1, <2>2, GotoMoves, GotoWithOrderMoves DEF WalletInUse
<1>9. CASE WriteStatus(w)
  BY <1>1, <1>9, ReturnMoves, GotoWithOrderMoves DEF WriteStatus, WalletInUse
<1>10. QED
  BY <1>2, <1>3, <1>4, <1>5, <1>6, <1>7, <1>8, <1>9

(* One wallet is written: it is open afterwards, and a locked rate stays. *)
LEMMA OneWritten ==
  ASSUME IndInv, RatesOpen, NEW a \in Account, NEW row, wallet' = [wallet EXCEPT ![a] = row],
         row.open, wallet[a].rate < 100 => row.rate = wallet[a].rate,
         UNCHANGED refreshing, JobsMove
  PROVE  Kept
<1>1. wallet'[a] = row /\ \A b \in Account : b # a => wallet'[b] = wallet[b]
  BY DEF IndInv, TypeOK
<1>2. \A b \in Account : wallet[b].open => wallet'[b].open
  BY <1>1
<1>3. \A w \in Worker : job'[w].pc \in WalletInUse => wallet'[job'[w].account].open
  BY <1>2, InUseAccount DEF JobsMove, RatesOpen
<1>4. \A b \in refreshing' : wallet'[b].open
  BY <1>2 DEF RatesOpen, IndInv, TypeOK
<1>5. QED
  BY <1>1, <1>3, <1>4 DEF Kept, RatesOpen, RatesMove

(* The rate a deduction settles on is the locked one, if one is locked. *)
LEMMA SettledLocked ==
  ASSUME NEW a, NEW locked \in Rate, locked < 100, NEW rate, SettleRate(a, locked, rate)
  PROVE  rate = locked
BY DEF SettleRate, EffectiveRate, Rate

LEMMA ChargeKept ==
  ASSUME IndInv, RatesOpen, NEW w \in Worker, Charge(w)
  PROVE  Kept
<1> DEFINE a == job[w].account
<1>1. /\ TypeOK /\ a \in Account /\ wallet[a] \in Wallet /\ wallet[a].rate \in Rate
      /\ job[w].pc \in WalletInUse /\ wallet[a].open
  BY JobHolds DEF Charge, At, JobBacked, TypeOK, Wallet, WalletInUse, RatesOpen
<1>2. UNCHANGED refreshing
  BY DEF Charge, envVars
<1>3. PICK rate, actual :
        /\ rate \in Rate
        /\ SettleRate(a, wallet[a].rate, rate)
        /\ \/ /\ wallet' = [wallet EXCEPT ![a].rate = rate]
              /\ GotoWithOrder(w, "failMark")
           \/ /\ wallet' = [wallet EXCEPT ![a].rate = rate,
                                          ![a].balance = BalanceAfter(w, actual)]
              /\ job' = [job EXCEPT ![w] = [IdleJob EXCEPT !.pc = "status",
                            !.order = job[w].order, !.prevMark = job[w].prevMark]]
           \/ Return(w) /\ UNCHANGED wallet
  BY DEF Charge
<1>4. wallet[a].rate < 100 => rate = wallet[a].rate
  BY <1>1, <1>3, SettledLocked
<1>5. CASE wallet' = [wallet EXCEPT ![a].rate = rate] /\ GotoWithOrder(w, "failMark")
  <2> PICK row : row = [wallet[a] EXCEPT !.rate = rate]
    OBVIOUS
  <2>1. /\ wallet' = [wallet EXCEPT ![a] = row] /\ row.open
        /\ row.rate = rate
    BY <1>1, <1>5 DEF TypeOK, Wallet
  <2>2. JobsMove
    BY <1>1, <1>5, GotoWithOrderMoves DEF WalletInUse
  <2>3. QED
    BY <1>1, <1>2, <1>4, <2>1, <2>2, OneWritten
<1>6. CASE /\ wallet' = [wallet EXCEPT ![a].rate = rate,
                                       ![a].balance = BalanceAfter(w, actual)]
           /\ job' = [job EXCEPT ![w] = [IdleJob EXCEPT !.pc = "status",
                         !.order = job[w].order, !.prevMark = job[w].prevMark]]
  <2> PICK row : row = [wallet[a] EXCEPT !.rate = rate, !.balance = BalanceAfter(w, actual)]
    OBVIOUS
  <2>1. /\ wallet' = [wallet EXCEPT ![a] = row] /\ row.open
        /\ row.rate = rate
    BY <1>1, <1>6 DEF TypeOK, Wallet
  <2> PICK j : j = [IdleJob EXCEPT !.pc = "status", !.order = job[w].order,
                                   !.prevMark = job[w].prevMark]
    OBVIOUS
  <2>2. job' = [job EXCEPT ![w] = j] /\ j.pc = "status"
    BY <1>6 DEF IdleJob
  <2>3. JobsMove
    BY <1>1, <2>2, OneMoves DEF WalletInUse
  <2>4. QED
    BY <1>1, <1>2, <1>4, <2>1, <2>3, OneWritten
<1>7. CASE Return(w) /\ UNCHANGED wallet
  BY <1>1, <1>2, <1>7, ReturnMoves, WalletsStay DEF RatesOpen
<1>8. QED
  BY <1>3, <1>5, <1>6, <1>7

LEMMA RechargeKept ==
  ASSUME IndInv, RatesOpen, NEW r \in Recharge,
         \/ \E a \in Account, n \in Deposit : SubmitRecharge(r, a, n)
         \/ ApproveRecharge(r) \/ RejectRecharge(r)
  PROVE  Kept
<1>1. TypeOK
  BY DEF IndInv
<1>2. UNCHANGED <<job, refreshing>> /\ JobsMove
  BY JobsUnmoved DEF SubmitRecharge, ApproveRecharge, RejectRecharge, envVars
<1>3. ASSUME NEW a \in Account, NEW n \in Deposit, SubmitRecharge(r, a, n) PROVE Kept
  <2> PICK row : row = [wallet[a] EXCEPT !.open = TRUE]
    OBVIOUS
  <2>1. /\ wallet' = wallet \/ wallet' = [wallet EXCEPT ![a] = row]
        /\ row.open /\ row.rate = wallet[a].rate
    BY <1>1, <1>3 DEF SubmitRecharge, TypeOK, Wallet
  <2>2. CASE wallet' = wallet
    BY <1>2, <2>2, WalletsStay DEF RatesOpen
  <2>3. CASE wallet' = [wallet EXCEPT ![a] = row]
    BY <1>2, <2>1, <2>3, OneWritten
  <2>4. QED
    BY <2>1, <2>2, <2>3
<1>4. CASE ApproveRecharge(r)
  <2> DEFINE a == request[r].account
             n == request[r].amount
  <2>1. a \in Account
    BY <1>4 DEF ApproveRecharge, IndInv, DataInv, RequestBacked
  <2>2. ~wallet[a].open => wallet[a].rate = 100
    BY <2>1 DEF RatesOpen
  <2> PICK row : row = [open |-> TRUE, balance |-> wallet[a].balance + n,
                        rate |-> IF wallet[a].open THEN wallet[a].rate ELSE CalcDiscount(n)]
    OBVIOUS
  <2>3. row.open /\ (wallet[a].open => row.rate = wallet[a].rate)
    OBVIOUS
  <2>4. wallet' = [wallet EXCEPT ![a] = row]
    BY <1>1, <1>4, <2>1 DEF ApproveRecharge, TypeOK
  <2>5. wallet[a].rate < 100 => row.rate = wallet[a].rate
    BY <2>2, <2>3
  <2> HIDE DEF a, n
  <2>6. QED
    BY <1>2, <2>1, <2>3, <2>4, <2>5, OneWritten
<1>5. CASE RejectRecharge(r)
  BY <1>2, <1>5, WalletsStay DEF RejectRecharge, RatesOpen
<1>6. QED
  BY <1>3, <1>4, <1>5

(* The refresh visits a wallet once, and it is the only one to move its rate. *)
LEMMA RefreshKept ==
  ASSUME IndInv, RatesOpen, NEW a \in Account, RefreshDiscount(a)
  PROVE  Kept
<1>1. TypeOK /\ wallet[a].open /\ a \in refreshing /\ refreshing' = refreshing \ {a}
  BY DEF RefreshDiscount, IndInv, RatesOpen
<1>2. PICK rate \in Rate : wallet' = [wallet EXCEPT ![a].rate = rate]
  BY <1>1, RefreshWrites
<1>3. /\ wallet'[a].open
      /\ \A b \in Account : b # a => wallet'[b] = wallet[b]
  BY <1>1, <1>2 DEF TypeOK, Wallet
<1>4. \A b \in Account : wallet[b].open => wallet'[b].open
  BY <1>3
<1>5. UNCHANGED job
  BY DEF RefreshDiscount
<1>6. RatesOpen'
  <2>1. \A w \in Worker : job[w].pc \in WalletInUse => wallet'[job[w].account].open
    BY <1>4, InUseAccount DEF RatesOpen
  <2>2. \A b \in Account : ~wallet'[b].open => wallet'[b].rate = 100
    BY <1>3 DEF RatesOpen
  <2>3. \A b \in refreshing' : wallet'[b].open
    BY <1>1, <1>4 DEF RatesOpen, TypeOK
  <2>4. QED
    BY <1>5, <2>1, <2>2, <2>3 DEF RatesOpen
<1>7. RatesMove
  BY <1>1, <1>3 DEF RatesMove
<1>8. QED
  BY <1>6, <1>7 DEF Kept

LEMMA RefundKept ==
  ASSUME IndInv, RatesOpen, NEW w \in RefundWorker, RefundStep(w) \/ RefundFault(w)
  PROVE  Kept
<1>1. UNCHANGED <<job, refreshing>> /\ JobsMove /\ TypeOK
  BY JobsUnmoved DEF RefundStep, RefundFault, TakeRefundable, RefundAccount, RefundExists,
     RefundRecord, CreditRefund, envVars, IndInv
<1>2. CASE UNCHANGED wallet
  BY <1>1, <1>2, WalletsStay DEF RatesOpen
<1>3. CASE CreditRefund(w) /\ ~UNCHANGED wallet
  <2> DEFINE a == refund[w].account
  <2>1. a \in Account
    BY <1>3 DEF CreditRefund, IndInv, JobsBacked, RefundBacked
  <2>2. wallet[a].open /\ wallet' = [wallet EXCEPT ![a].balance = @ + refund[w].amount]
    BY <1>3 DEF CreditRefund
  <2> PICK row : row = [wallet[a] EXCEPT !.balance = @ + refund[w].amount]
    OBVIOUS
  <2>3. wallet' = [wallet EXCEPT ![a] = row] /\ row.open /\ row.rate = wallet[a].rate
    BY <1>1, <2>1, <2>2 DEF TypeOK, Wallet
  <2>4. QED
    BY <1>1, <2>1, <2>3, OneWritten
<1>4. QED
  BY <1>2, <1>3 DEF RefundStep, RefundFault, TakeRefundable, RefundAccount, RefundExists,
     RefundRecord, moneyVars

(* What neither moves money nor goroutines, or ends goroutines. *)
LEMMA OthersKept ==
  ASSUME IndInv, RatesOpen,
         \/ OrderStep \/ NewMonth \/ ScanPending \/ ScanRefundable
         \/ (\E w \in Worker : DeductFault(w)) \/ Crash \/ UNCHANGED vars
  PROVE  Kept
<1>1. TypeOK
  BY DEF IndInv
<1>2. CASE OrderStep \/ ScanPending \/ ScanRefundable \/ UNCHANGED vars
  <2>1. UNCHANGED <<wallet, job, refreshing>>
    BY <1>2 DEF OrderStep, MarkApproved, MarkInsufficient, MarkBarcodeError, EditMark,
       CompleteAfterSale, SyncOrder, AssignShop, SetPrice, ScanPending, ScanRefundable,
       vars, moneyVars, envVars
  <2>2. QED
    BY <2>1, JobsUnmoved, WalletsStay DEF RatesOpen
<1>3. CASE NewMonth
  BY <1>3, JobsUnmoved, WalletsStay DEF NewMonth, moneyVars
<1>4. ASSUME NEW w \in Worker, DeductFault(w) PROVE Kept
  BY <1>1, <1>4, ReturnMoves, WalletsStay DEF DeductFault, moneyVars, envVars, RatesOpen
<1>5. CASE Crash
  <2>1. JobsMove
    BY <1>5 DEF Crash, JobsMove, IdleJob, WalletInUse
  <2>2. QED
    BY <1>5, <2>1, WalletsStay DEF Crash, moneyVars
<1>6. QED
  BY <1>2, <1>3, <1>4, <1>5

LEMMA DeductKept ==
  ASSUME IndInv, RatesOpen, NEW w \in Worker, DeductStep(w)
  PROVE  Kept
<1>1. CASE Charge(w)
  BY <1>1, ChargeKept
<1>2. CASE ~Charge(w)
  <2>1. UNCHANGED <<wallet, refreshing>>
    BY <1>2 DEF DeductStep, TakeScanned, TakeTriggered, ResolveAccount, ReadWallet,
       CalculateAmount, CheckFlow, DeleteRetryable, ReadMark, WriteErrorRecord,
       WriteErrorStatus, PreviewBalance, FailMark, WriteStatus, RecoverMark,
       OnlyReads, moneyVars, envVars
  <2>2. JobsMove
    BY <1>2, StartMoves, ReadWalletMoves, ReadsMove DEF DeductStep
  <2>3. QED
    BY <2>1, <2>2, WalletsStay DEF RatesOpen
<1>3. QED
  BY <1>1, <1>2

LEMMA NextKept == IndInv /\ RatesOpen /\ [Next]_vars => Kept
<1> SUFFICES ASSUME IndInv, RatesOpen, [Next]_vars PROVE Kept
  OBVIOUS
<1>1. CASE RechargeStep
  BY <1>1, RechargeKept DEF RechargeStep
<1>2. CASE \E a \in Account : RefreshDiscount(a)
  BY <1>2, RefreshKept
<1>3. CASE \E w \in Worker : DeductStep(w)
  BY <1>3, DeductKept
<1>4. CASE \E w \in RefundWorker : RefundStep(w) \/ RefundFault(w)
  BY <1>4, RefundKept
<1>5. QED
  BY <1>1, <1>2, <1>3, <1>4, OthersKept DEF Next

(* processDeduction locks the month's rate in its transaction, and every later
   deduction reads it under the row lock: whatever recharges are approved and
   goroutines interleave, only the monthly refresh moves it. *)
THEOREM LockedRate == Spec => LockedRateKept
<1>1. Init => RatesOpen
  BY InitRates
<1>2. IndInv /\ RatesOpen /\ [Next]_vars => RatesOpen'
  BY NextKept DEF Kept
<1>3. IndInv /\ RatesOpen /\ [Next]_vars => [RatesMove]_vars
  BY NextKept DEF Kept
<1>4. QED
  BY <1>1, <1>2, <1>3, Invariance, PTL DEF Spec, LockedRateKept, RatesMove

-----------------------------------------------------------------------------
(***************************************************************************)
(* Billing implements Ledger: of all its steps only the three transactions *)
(* that lock a wallet move money, and each posts one flow.                 *)
(***************************************************************************)


(* The flow numbers of the two modules are the same. *)
LEMMA SameFlows ==
  /\ Books!Flow = Flow
  /\ \A o : Books!Deduction(o) = Deduction(o) /\ Books!Refund(o) = Refund(o)
  /\ \A r : Books!Credit(r) = Credit(r)
BY DEF Books!Flow, Flow, Books!Deduction, Deduction, Books!Refund, Refund, Books!Credit, Credit

(* Empty tables are empty books. *)
LEMMA InitBooks == Init => Books!Init
<1> SUFFICES ASSUME Init PROVE Books!Init
  OBVIOUS
<1>1. \A f \in Flow : ~Posted(f)
  BY DEF Init, Posted, NoRecord
<1>2. \A a \in Account : wallet[a].balance = 0
  BY DEF Init
<1>3. PostedFlow = {}
  BY <1>1 DEF PostedFlow
<1>4. QED
  BY <1>1, <1>2, <1>3, SameFlows DEF Books!Init

(* A step keeps the books if it keeps balances and success records. *)
LEMMA BooksKept ==
  ASSUME \A a \in Account : wallet'[a].balance = wallet[a].balance,
         \A f \in Flow : /\ Posted(f)' <=> Posted(f)
                         /\ Posted(f) => record'[f] = record[f]
  PROVE  UNCHANGED Books!vars
<1>1. PostedFlow' = PostedFlow
  BY DEF PostedFlow
<1>2. [a \in Account |-> wallet[a].balance]' = [a \in Account |-> wallet[a].balance]
  OBVIOUS
<1>3. /\ [f \in Flow |-> IF Posted(f) THEN record[f].account ELSE NoAccount]'
           = [f \in Flow |-> IF Posted(f) THEN record[f].account ELSE NoAccount]
      /\ [f \in Flow |-> IF Posted(f) THEN record[f].amount ELSE 0]'
           = [f \in Flow |-> IF Posted(f) THEN record[f].amount ELSE 0]
  OBVIOUS
<1>4. QED
  BY <1>1, <1>2, <1>3 DEF Books!vars

(* A step posts a flow if it writes its success record and moves the balance
   by it. *)
LEMMA PostsFlow ==
  ASSUME TypeOK, NEW f \in Flow, NEW a \in Account, NEW n \in Nat,
         ~Posted(f),
         record' = [record EXCEPT ![f] =
                     [status |-> "success", account |-> a, amount |-> n, month |-> month]],
         wallet'[a].balance = wallet[a].balance + Books!Signed(f, n),
         wallet'[a].balance >= 0,
         \A b \in Account : b # a => wallet'[b].balance = wallet[b].balance
  PROVE  Books!Post(f, a, n)
<1>1. /\ record'[f].status = "success" /\ record'[f].account = a /\ record'[f].amount = n
      /\ \A g \in Flow : g # f => record'[g] = record[g]
  BY DEF TypeOK
<1>2. Posted(f)' /\ \A g \in Flow : g # f => (Posted(g)' <=> Posted(g))
  BY <1>1 DEF Posted
<1>3. PostedFlow' = PostedFlow \cup {f} /\ f \notin PostedFlow
  BY <1>2 DEF PostedFlow
<1>4. [b \in Account |-> wallet[b].balance]'
        = [[b \in Account |-> wallet[b].balance] EXCEPT ![a] = @ + Books!Signed(f, n)]
  OBVIOUS
<1>5. [g \in Flow |-> IF Posted(g) THEN record[g].account ELSE NoAccount]'
        = [[g \in Flow |-> IF Posted(g) THEN record[g].account ELSE NoAccount] EXCEPT ![f] = a]
  <2>1. \A g \in Flow : (IF Posted(g) THEN record[g].account ELSE NoAccount)'
          = IF g = f THEN a ELSE IF Posted(g) THEN record[g].account ELSE NoAccount
    BY <1>1, <1>2
  <2>2. QED
    BY <2>1
<1>6. [g \in Flow |-> IF Posted(g) THEN record[g].amount ELSE 0]'
        = [[g \in Flow |-> IF Posted(g) THEN record[g].amount ELSE 0] EXCEPT ![f] = n]
  <2>1. \A g \in Flow : (IF Posted(g) THEN record[g].amount ELSE 0)'
          = IF g = f THEN n ELSE IF Posted(g) THEN record[g].amount ELSE 0
    BY <1>1, <1>2
  <2>2. QED
    BY <2>1
<1>7. [b \in Account |-> wallet[b].balance][a] + Books!Signed(f, n) >= 0
  OBVIOUS
<1>8. QED
  BY <1>3, <1>4, <1>5, <1>6, <1>7 DEF Books!Post

-----------------------------------------------------------------------------
(* The three transactions *)

(* Deductions take, refunds and recharges give. *)
LEMMA SignedAmounts ==
  ASSUME NEW n \in Nat
  PROVE  /\ \A o : Books!Signed(Deduction(o), n) = 0 - n /\ Books!Signed(Refund(o), n) = n
         /\ \A r : Books!Signed(Credit(r), n) = n
BY DEF Books!Signed, Deduction, Refund, Credit

(* Approval posts the request's credit. *)
LEMMA ApproveRechargePosts ==
  ASSUME IndInv, NEW r \in Recharge, ApproveRecharge(r)
  PROVE  Books!Next
<1>1. TypeOK /\ DataInv
  BY DEF IndInv
<1>2. request[r].account \in Account /\ request[r].amount \in Deposit
  BY <1>1 DEF ApproveRecharge, DataInv, RequestBacked
<1>3. PICK a \in Account : a = request[r].account
  BY <1>2
<1>4. PICK n \in Deposit : n = request[r].amount
  BY <1>2
<1>5. n \in Nat /\ n \in Money /\ Credit(r) \in Flow
  BY DepositNat, Flows DEF Money
<1>6. wallet[a].balance \in Int /\ wallet[a].balance >= 0
  BY <1>1 DEF TypeOK, DataInv, Wallet
<1>7. /\ wallet'[a].balance = wallet[a].balance + n
      /\ \A b \in Account : b # a => wallet'[b].balance = wallet[b].balance
  BY <1>1, <1>3, <1>4 DEF ApproveRecharge, TypeOK
<1>8. /\ ~Posted(Credit(r))
      /\ record' = [record EXCEPT ![Credit(r)] =
                     [status |-> "success", account |-> a, amount |-> n, month |-> month]]
  BY <1>3, <1>4 DEF ApproveRecharge, Exists, Posted
<1>9. /\ wallet'[a].balance = wallet[a].balance + Books!Signed(Credit(r), n)
      /\ wallet'[a].balance >= 0
  BY <1>5, <1>6, <1>7, SignedAmounts
<1>10. Books!Post(Credit(r), a, n)
  BY <1>1, <1>5, <1>7, <1>8, <1>9, PostsFlow
<1>11. Books!TopUp(r, a, n)
  BY <1>10, SameFlows DEF Books!TopUp
<1>12. QED
  BY <1>5, <1>11 DEF Books!Next

(* The deduction transaction posts the order's deduction or nothing. *)
LEMMA ChargePosts ==
  ASSUME IndInv, NEW w \in Worker, Charge(w)
  PROVE  Books!Next \/ UNCHANGED Books!vars
<1>1. /\ TypeOK /\ job[w].order \in Order /\ job[w].account \in Account
      /\ job[w].cost \in Cost /\ DataInv
  BY JobHolds DEF Charge, At, JobBacked, IndInv
<1>2. PICK a \in Account : a = job[w].account
  BY <1>1
<1>3. PICK o \in Order : o = job[w].order
  BY <1>1
<1>4. PICK c \in Cost : c = job[w].cost
  BY <1>1
<1>5. PICK rate \in Rate :
        LET actual == Discounted(c, rate)
        IN  \/ wallet' = [wallet EXCEPT ![a].rate = rate] /\ UNCHANGED record
            \/ UNCHANGED <<wallet, record>>
            \/ /\ wallet[a].balance >= actual /\ ~Exists(Deduction(o))
               /\ record' = [record EXCEPT ![Deduction(o)] = [status |-> "success",
                               account |-> a, amount |-> actual, month |-> month]]
               /\ wallet' = [wallet EXCEPT ![a].rate = rate,
                                           ![a].balance = wallet[a].balance - actual]
  BY <1>2, <1>3, <1>4 DEF Charge, Covered, BalanceAfter
<1>6. PICK n \in Nat : n = Discounted(c, rate)
  BY <1>4, DiscountedNat
<1>7. wallet[a] \in Wallet /\ wallet[a].balance \in Int
  BY <1>1 DEF TypeOK, Wallet
<1>8. CASE wallet' = [wallet EXCEPT ![a].rate = rate] /\ UNCHANGED record
  <2>1. \A b \in Account : wallet'[b].balance = wallet[b].balance
    BY <1>1, <1>7, <1>8 DEF TypeOK, Wallet
  <2>2. \A g \in Flow : (Posted(g)' <=> Posted(g)) /\ record'[g] = record[g]
    BY <1>8 DEF Posted
  <2>3. QED
    BY <2>1, <2>2, BooksKept
<1>9. CASE UNCHANGED <<wallet, record>>
  BY <1>9, BooksKept DEF Posted
<1>10. CASE /\ wallet[a].balance >= n /\ ~Exists(Deduction(o))
            /\ record' = [record EXCEPT ![Deduction(o)] = [status |-> "success",
                            account |-> a, amount |-> n, month |-> month]]
            /\ wallet' = [wallet EXCEPT ![a].rate = rate,
                                        ![a].balance = wallet[a].balance - n]
  <2>1. n \in Money /\ Deduction(o) \in Flow
    BY <1>6, Flows DEF Money
  <2>2. /\ wallet'[a].balance = wallet[a].balance - n
        /\ \A b \in Account : b # a => wallet'[b].balance = wallet[b].balance
    BY <1>1, <1>7, <1>10 DEF TypeOK, Wallet
  <2>3. /\ wallet'[a].balance = wallet[a].balance + Books!Signed(Deduction(o), n)
        /\ wallet'[a].balance >= 0
    BY <1>7, <1>10, <2>2, SignedAmounts
  <2>4. ~Posted(Deduction(o))
    BY <1>10 DEF Exists, Posted
  <2>5. Books!Post(Deduction(o), a, n)
    BY <1>1, <1>10, <2>1, <2>2, <2>3, <2>4, PostsFlow
  <2>6. Books!Deduct(o, a, n)
    BY <2>5, SameFlows DEF Books!Deduct
  <2>7. QED
    BY <2>1, <2>6 DEF Books!Next
<1>11. QED
  BY <1>5, <1>6, <1>8, <1>9, <1>10

(* The refund transaction posts the order's refund or nothing. *)
LEMMA CreditRefundPosts ==
  ASSUME IndInv, NEW w \in RefundWorker, CreditRefund(w)
  PROVE  Books!Next \/ UNCHANGED Books!vars
<1>1. /\ TypeOK /\ DataInv /\ refund[w].order \in Order /\ refund[w].account \in Account
      /\ refund[w].amount \in Nat
      /\ Charged(refund[w].order)
      /\ refund[w].amount = record[Deduction(refund[w].order)].amount
  BY RefundHolds DEF CreditRefund, RefundBacked, RefundJob, IndInv
<1>2. PICK a \in Account : a = refund[w].account
  BY <1>1
<1>3. PICK o \in Order : o = refund[w].order
  BY <1>1
<1>4. PICK n \in Nat : n = refund[w].amount
  BY <1>1
<1>5. Charged(o) /\ n = record[Deduction(o)].amount
  BY <1>1, <1>3, <1>4
<1>6. CASE UNCHANGED <<wallet, record>>
  BY <1>6, BooksKept DEF Posted
<1>7. CASE /\ ~Exists(Refund(o))
           /\ record' = [record EXCEPT ![Refund(o)] = [status |-> "success", account |-> a,
                           amount |-> n, month |-> month]]
           /\ wallet' = [wallet EXCEPT ![a].balance = @ + n]
  <2>1. wallet[a] \in Wallet /\ wallet[a].balance \in Int /\ wallet[a].balance >= 0
    BY <1>1 DEF TypeOK, DataInv, Wallet
  <2>2. /\ wallet'[a].balance = wallet[a].balance + n /\ wallet'[a].balance >= 0
        /\ \A b \in Account : b # a => wallet'[b].balance = wallet[b].balance
    BY <1>1, <1>7, <2>1 DEF TypeOK, Wallet
  <2>3. ~Posted(Refund(o)) /\ Refund(o) \in Flow /\ Deduction(o) \in Flow
    BY <1>7, Flows DEF Exists, Posted
  <2>4. wallet'[a].balance = wallet[a].balance + Books!Signed(Refund(o), n)
    BY <2>2, SignedAmounts
  <2>5. Books!Post(Refund(o), a, n)
    BY <1>1, <1>7, <2>2, <2>3, <2>4, PostsFlow
  <2>6. /\ Deduction(o) \in PostedFlow
        /\ [g \in Flow |-> IF Posted(g) THEN record[g].amount ELSE 0][Deduction(o)] = n
    BY <1>5, <2>3 DEF PostedFlow, Charged
  <2>7. Books!GiveBack(o, a)
    BY <2>3, <2>5, <2>6, SameFlows DEF Books!GiveBack, Books!Post
  <2>8. QED
    BY <2>7 DEF Books!Next
<1>8. QED
  BY <1>2, <1>3, <1>4, <1>6, <1>7 DEF CreditRefund

-----------------------------------------------------------------------------
(* Every other step keeps the books *)

(* A step that writes no wallet and no record. *)
LEMMA MoneyKept ==
  ASSUME UNCHANGED <<wallet, record>>
  PROVE  UNCHANGED Books!vars
BY BooksKept DEF Posted

(* Opening a wallet moves no money. *)
LEMMA SubmitRechargeKeeps ==
  ASSUME IndInv, NEW r \in Recharge, NEW a \in Account, NEW n \in Deposit,
         SubmitRecharge(r, a, n)
  PROVE  UNCHANGED Books!vars
<1>1. \A b \in Account : wallet'[b].balance = wallet[b].balance
  <2> PICK row : row = [wallet[a] EXCEPT !.open = TRUE]
    OBVIOUS
  <2>1. row.balance = wallet[a].balance
    BY DEF IndInv, TypeOK, Wallet
  <2>2. wallet' = wallet \/ wallet' = [wallet EXCEPT ![a] = row]
    BY DEF IndInv, TypeOK, SubmitRecharge
  <2>3. QED
    BY <2>1, <2>2 DEF IndInv, TypeOK
<1>2. QED
  BY <1>1, BooksKept DEF SubmitRecharge, Posted

(* The monthly refresh writes rates, never balances. *)
LEMMA RefreshDiscountKeeps ==
  ASSUME IndInv, NEW a \in Account, RefreshDiscount(a)
  PROVE  UNCHANGED Books!vars
<1>1. PICK rate \in Rate : wallet' = [wallet EXCEPT ![a].rate = rate]
  BY RefreshWrites DEF IndInv
<1>2. \A b \in Account : wallet'[b].balance = wallet[b].balance
  BY <1>1 DEF IndInv, TypeOK, Wallet
<1>3. QED
  BY <1>2, BooksKept DEF RefreshDiscount, Posted

(* A deduction record that is not a success record may come and go. *)
LEMMA RecordNotPosted ==
  ASSUME TypeOK, NEW f \in Flow, NEW row, ~Posted(f), row.status # "success",
         record' = [record EXCEPT ![f] = row], UNCHANGED wallet
  PROVE  UNCHANGED Books!vars
<1>1. record'[f] = row /\ \A g \in Flow : g # f => record'[g] = record[g]
  BY DEF TypeOK
<1>2. \A g \in Flow : (Posted(g)' <=> Posted(g)) /\ (Posted(g) => record'[g] = record[g])
  BY <1>1 DEF Posted
<1>3. QED
  BY <1>2, BooksKept

(* A retry deletes an error record only. *)
LEMMA DeleteRetryableKeeps ==
  ASSUME IndInv, NEW w \in Worker, DeleteRetryable(w)
  PROVE  UNCHANGED Books!vars
<1>1. TypeOK /\ Deduction(job[w].order) \in Flow
  BY JobHolds, Flows DEF DeleteRetryable, At
<1>2. NoRecord.status # "success"
  BY DEF NoRecord
<1>3. QED
  BY <1>1, <1>2, RecordNotPosted, MoneyKept DEF DeleteRetryable, Retryable, Posted

(* An error record is not a posting. *)
LEMMA WriteErrorRecordKeeps ==
  ASSUME IndInv, NEW w \in Worker, WriteErrorRecord(w)
  PROVE  UNCHANGED Books!vars
<1> DEFINE f == Deduction(job[w].order)
           err == [status |-> "error", amount |-> 0, account |-> job[w].account, month |-> month]
<1>1. TypeOK /\ f \in Flow
  BY JobHolds, Flows DEF WriteErrorRecord, At
<1>2. CASE ~Exists(f) /\ record' = [record EXCEPT ![f] = err]
  <2>1. ~Posted(f) /\ err.status # "success"
    BY <1>2 DEF Exists, Posted
  <2>2. QED
    BY <1>1, <1>2, <2>1, RecordNotPosted DEF WriteErrorRecord
<1>3. CASE UNCHANGED record
  BY <1>3, MoneyKept DEF WriteErrorRecord
<1>4. QED
  BY <1>2, <1>3 DEF WriteErrorRecord

(* Of ProcessDeduction only the transaction moves money. *)
LEMMA DeductStepPosts ==
  ASSUME IndInv, NEW w \in Worker, DeductStep(w) \/ DeductFault(w)
  PROVE  Books!Next \/ UNCHANGED Books!vars
<1>1. CASE Charge(w)
  BY <1>1, ChargePosts
<1>2. CASE DeleteRetryable(w) \/ WriteErrorRecord(w)
  BY <1>2, DeleteRetryableKeeps, WriteErrorRecordKeeps
<1>3. CASE TakeScanned(w) \/ TakeTriggered(w) \/ DeductFault(w)
  BY <1>3, MoneyKept DEF TakeScanned, TakeTriggered, DeductFault, moneyVars
<1>4. CASE \/ ResolveAccount(w) \/ ReadWallet(w) \/ CalculateAmount(w)
           \/ CheckFlow(w) \/ ReadMark(w) \/ PreviewBalance(w)
  BY <1>4, MoneyKept DEF ResolveAccount, ReadWallet, CalculateAmount, CheckFlow, ReadMark,
     PreviewBalance, OnlyReads, moneyVars
<1>5. CASE WriteErrorStatus(w) \/ FailMark(w) \/ WriteStatus(w) \/ RecoverMark(w)
  BY <1>5, MoneyKept DEF WriteErrorStatus, FailMark, WriteStatus, RecoverMark, moneyVars
<1>6. QED
  BY <1>1, <1>2, <1>3, <1>4, <1>5 DEF DeductStep

(* Of processRefund only the transaction moves money. *)
LEMMA RefundStepPosts ==
  ASSUME IndInv, NEW w \in RefundWorker, RefundStep(w) \/ RefundFault(w)
  PROVE  Books!Next \/ UNCHANGED Books!vars
<1>1. CASE CreditRefund(w)
  BY <1>1, CreditRefundPosts
<1>2. CASE \/ TakeRefundable(w) \/ RefundAccount(w) \/ RefundExists(w)
           \/ RefundRecord(w) \/ RefundFault(w)
  BY <1>2, MoneyKept DEF TakeRefundable, RefundAccount, RefundExists, RefundRecord,
     RefundFault, moneyVars
<1>3. QED
  BY <1>1, <1>2 DEF RefundStep

(* Review, editing and sync move no money. *)
LEMMA OrderStepKeeps ==
  ASSUME OrderStep
  PROVE  UNCHANGED Books!vars
<1>1. UNCHANGED <<wallet, record>>
  BY DEF OrderStep, MarkApproved, MarkInsufficient, MarkBarcodeError, EditMark,
     CompleteAfterSale, SyncOrder, AssignShop, SetPrice, moneyVars
<1>2. QED
  BY <1>1, MoneyKept

(* Every step of Billing is a step of the ledger or none. *)
LEMMA NextPosts == IndInv /\ [Next]_vars => [Books!Next]_(Books!vars)
<1> SUFFICES ASSUME IndInv, [Next]_vars PROVE Books!Next \/ UNCHANGED Books!vars
  OBVIOUS
<1>1. CASE RechargeStep
  <2>1. CASE \E r \in Recharge : RejectRecharge(r)
    BY <2>1, MoneyKept DEF RejectRecharge
  <2>2. QED
    BY <1>1, <2>1, SubmitRechargeKeeps, ApproveRechargePosts DEF RechargeStep
<1>2. CASE OrderStep
  BY <1>2, OrderStepKeeps
<1>3. CASE NewMonth \/ \E a \in Account : RefreshDiscount(a)
  BY <1>3, RefreshDiscountKeeps, MoneyKept DEF NewMonth, moneyVars
<1>4. CASE ScanPending \/ \E w \in Worker : DeductStep(w) \/ DeductFault(w)
  BY <1>4, DeductStepPosts, MoneyKept DEF ScanPending, moneyVars
<1>5. CASE ScanRefundable \/ \E w \in RefundWorker : RefundStep(w) \/ RefundFault(w)
  BY <1>5, RefundStepPosts, MoneyKept DEF ScanRefundable, moneyVars
<1>6. CASE Crash \/ UNCHANGED vars
  BY <1>6, MoneyKept DEF Crash, vars, moneyVars
<1>7. QED
  BY <1>1, <1>2, <1>3, <1>4, <1>5, <1>6 DEF Next

(* ImplementsLedger: seen through wallets and success records, every behaviour
   of the billing goroutines is one of the ledger, for any number of accounts,
   orders and goroutines and any number of faults. *)
THEOREM Implementation == Spec => ImplementsLedger
<1>1. Init => Books!Init
  BY InitBooks
<1>2. IndInv /\ [Next]_vars => [Books!Next]_(Books!vars)
  BY NextPosts
<1>3. QED
  BY <1>1, <1>2, Invariance, PTL DEF Spec, ImplementsLedger, Books!Spec

-----------------------------------------------------------------------------

(* One posting, seen from the books before and after. *)
LEMMA PostIsPostingStep ==
  ASSUME NEW f \in Flow, NEW a \in Account, NEW n, Books!Post(f, a, n)
  PROVE  Books!PostingStep
<1>1. f \notin PostedFlow /\ PostedFlow' = PostedFlow \cup {f}
  BY DEF Books!Post
<1>2. PostedFlow \subseteq Flow
  BY DEF PostedFlow
<1> DEFINE balance == [b \in Account |-> wallet[b].balance]
           payer == [g \in Flow |-> IF Posted(g) THEN record[g].account ELSE NoAccount]
           amount == [g \in Flow |-> IF Posted(g) THEN record[g].amount ELSE 0]
<1>3. /\ payer' = [payer EXCEPT ![f] = a]
      /\ amount' = [amount EXCEPT ![f] = n]
      /\ balance' = [balance EXCEPT ![a] = @ + Books!Signed(f, n)]
  BY DEF Books!Post
<1>4. payer \in [Flow -> {payer[g] : g \in Flow}] /\ amount \in [Flow -> {amount[g] : g \in Flow}]
      /\ balance \in [Account -> {balance[b] : b \in Account}]
  OBVIOUS
<1> HIDE DEF balance, payer, amount
<1>5. /\ payer'[f] = a /\ amount'[f] = n
      /\ \A g \in Flow : g # f => payer'[g] = payer[g] /\ amount'[g] = amount[g]
      /\ balance'[a] = balance[a] + Books!Signed(f, n)
      /\ \A b \in Account : b # a => balance'[b] = balance[b]
  BY <1>3, <1>4
<1>6. /\ \A g \in PostedFlow : g \in PostedFlow' /\ payer'[g] = payer[g] /\ amount'[g] = amount[g]
      /\ \A g, h \in PostedFlow' \ PostedFlow : g = h
      /\ \A g \in PostedFlow' \ PostedFlow :
           balance'[payer'[g]] = balance[payer'[g]] + Books!Signed(g, amount'[g])
      /\ \A b \in Account :
           (\A g \in PostedFlow' \ PostedFlow : payer'[g] # b) => balance'[b] = balance[b]
  BY <1>1, <1>2, <1>5
<1>7. QED
  BY <1>6 DEF Books!PostingStep, balance, payer, amount

(* Every step of the ledger is one posting. *)
LEMMA NextPostsOne ==
  ASSUME Books!Next
  PROVE  \E n : \E f \in Flow, a \in Account : Books!Post(f, a, n)
<1>1. PICK a \in Account :
        \/ \E o \in Order, n \in Money : Books!Deduct(o, a, n)
        \/ \E o \in Order : Books!GiveBack(o, a)
        \/ \E r \in Recharge, n \in Money : Books!TopUp(r, a, n)
  BY DEF Books!Next
<1>2. CASE \E o \in Order, n \in Money : Books!Deduct(o, a, n)
  BY <1>2, SameFlows, Flows DEF Books!Deduct
<1>3. CASE \E o \in Order : Books!GiveBack(o, a)
  <2>1. PICK o \in Order : Books!GiveBack(o, a)
    BY <1>3
  <2>2. PICK n : n = [g \in Flow |-> IF Posted(g) THEN record[g].amount ELSE 0][Deduction(o)]
    OBVIOUS
  <2>3. Books!Post(Refund(o), a, n)
    BY <2>1, <2>2, SameFlows DEF Books!GiveBack, Books!Post
  <2>4. QED
    BY <2>3, Flows
<1>4. CASE \E r \in Recharge, n \in Money : Books!TopUp(r, a, n)
  BY <1>4, SameFlows, Flows DEF Books!TopUp
<1>5. QED
  BY <1>1, <1>2, <1>3, <1>4

LEMMA NextIsPostingStep ==
  ASSUME Books!Next
  PROVE  Books!PostingStep
<1>1. PICK n : \E f \in Flow, a \in Account : Books!Post(f, a, n)
  BY NextPostsOne
<1>2. PICK f \in Flow, a \in Account : Books!Post(f, a, n)
  BY <1>1
<1>3. QED
  BY <1>2, PostIsPostingStep

(* BooksMoveByPosting: no step changes a balance but by the amount of the one
   success record it adds, and no success record is ever changed or removed. *)
THEOREM MovesByPosting == Spec => BooksMoveByPosting
<1>1. IndInv /\ [Next]_vars => [Books!PostingStep]_(Books!vars)
  BY NextPosts, NextIsPostingStep
<1>2. QED
  BY <1>1, Invariance, PTL DEF Spec, BooksMoveByPosting, Books!BooksMoveByPosting

-----------------------------------------------------------------------------
(***************************************************************************)
(* Sums over finite sets of flows.  The sum is a recursive function over   *)
(* the subsets of the set; that it exists, and what it gives, is shown by  *)
(* induction over finite sets, stated for a set of subsets instead of a    *)
(* property of them.                                                       *)
(***************************************************************************)

(* A set of subsets of S is all of them, if a subset is in it whenever its own
   proper subsets are. *)
LEMMA SubsetInduction ==
  ASSUME NEW S, IsFiniteSet(S), NEW T,
         \A s \in SUBSET S : (\A t \in SUBSET s : t # s => t \in T) => s \in T
  PROVE  \A s \in SUBSET S : s \in T
<1> SUFFICES ASSUME NEW s \in SUBSET S, s \notin T PROVE FALSE
  OBVIOUS
<1> DEFINE R == StrictSubsetOrdering(S)
           bad == {t \in SUBSET S : t \notin T}
<1>1. \A t \in SUBSET S : IsFiniteSet(t)
  BY FS_Subset
<1>2. bad \subseteq FiniteSubsetsOf(S) /\ bad # {}
  BY <1>1 DEF FiniteSubsetsOf
<1>3. IsWellFoundedOn(R, FiniteSubsetsOf(S))
  BY FS_StrictSubsetOrderingWellFounded
<1>4. PICK t \in bad : \A u \in bad : <<u, t>> \notin R
  <2> HIDE DEF bad, R
  <2>1. QED
    BY <1>2, <1>3, WFMin
<1>5. \A u \in SUBSET t : u # t => u \in T
  BY <1>4 DEF StrictSubsetOrdering
<1>6. QED
  BY <1>4, <1>5

(* The sum of the flows S, of the amounts n. *)
Sum(n, S) == MapThenSumSet(LAMBDA f : Books!Signed(f, n[f]), S)

(* What the sum computes: g[s] is the sum of s, for every subset s of S. *)
First(s) == CHOOSE x \in s : TRUE
Sums(n, S, g) ==
  g = [s \in SUBSET S |-> IF s = {} THEN 0
                          ELSE Books!Signed(First(s), n[First(s)]) + g[s \ {First(s)}]]

LEMMA SumIs ==
  ASSUME NEW n, NEW S
  PROVE  Sum(n, S) = (CHOOSE g : Sums(n, S, g))[S]
BY Zenon DEF Sum, Sums, First, MapThenSumSet, MapThenFoldSet

LEMMA FirstIn ==
  ASSUME NEW s, s # {}
  PROVE  First(s) \in s
BY DEF First

(* Two of them agree where they are both defined. *)
LEMMA SumsAgree ==
  ASSUME NEW n, NEW S, NEW U, IsFiniteSet(S), NEW g, Sums(n, S, g), NEW h, Sums(n, U, h)
  PROVE  \A s \in SUBSET S : s \in SUBSET U => g[s] = h[s]
<1> DEFINE T == {s \in SUBSET S : s \in SUBSET U => g[s] = h[s]}
<1>1. ASSUME NEW s \in SUBSET S, \A t \in SUBSET s : t # s => t \in T, s \in SUBSET U
      PROVE  g[s] = h[s]
  <2>1. /\ g[s] = IF s = {} THEN 0
                  ELSE Books!Signed(First(s), n[First(s)]) + g[s \ {First(s)}]
        /\ h[s] = IF s = {} THEN 0
                  ELSE Books!Signed(First(s), n[First(s)]) + h[s \ {First(s)}]
    BY <1>1, Zenon DEF Sums
  <2>2. CASE s = {}
    BY <2>1, <2>2
  <2>3. CASE s # {}
    <3>1. s \ {First(s)} \in SUBSET s /\ s \ {First(s)} # s
      BY <2>3, FirstIn
    <3>2. g[s \ {First(s)}] = h[s \ {First(s)}]
      BY <1>1, <3>1
    <3>3. QED
      BY <2>1, <2>3, <3>2
  <2>4. QED
    BY <2>2, <2>3
<1>2. \A s \in SUBSET S : (\A t \in SUBSET s : t # s => t \in T) => s \in T
  BY <1>1
<1>3. \A s \in SUBSET S : s \in T
  <2> HIDE DEF T
  <2>1. QED
    BY <1>2, SubsetInduction
<1>4. QED
  BY <1>3

LEMMA SumsExist ==
  ASSUME NEW n, NEW S, IsFiniteSet(S)
  PROVE  \E g : Sums(n, S, g)
<1> DEFINE T == {s \in SUBSET S : \E g : Sums(n, s, g)}
           G(t) == CHOOSE g : Sums(n, t, g)
<1>1. ASSUME NEW s \in SUBSET S, \A t \in SUBSET s : t # s => t \in T
      PROVE  \E g : Sums(n, s, g)
  <2>1. \A t \in SUBSET s : t # s => Sums(n, t, G(t))
    BY <1>1, Zenon
  <2> DEFINE rest(t) == t \ {First(t)}
             g == [t \in SUBSET s |-> IF t = {} THEN 0
                     ELSE Books!Signed(First(t), n[First(t)]) + G(rest(t))[rest(t)]]
  <2>2. ASSUME NEW u \in SUBSET s, u # s PROVE g[u] = G(u)[u]
    <3>1. Sums(n, u, G(u))
      BY <2>1, <2>2
    <3>2. G(u)[u] = IF u = {} THEN 0
                    ELSE Books!Signed(First(u), n[First(u)]) + G(u)[rest(u)]
      <4>1. \A h : Sums(n, u, h) => h[u] = IF u = {} THEN 0
                    ELSE Books!Signed(First(u), n[First(u)]) + h[rest(u)]
        BY Zenon DEF Sums
      <4>2. QED
        BY <3>1, <4>1, Zenon
    <3>3. CASE u = {}
      BY <2>2, <3>2, <3>3
    <3>4. CASE u # {}
      <4>1. rest(u) \in SUBSET u /\ rest(u) \in SUBSET s /\ rest(u) # s /\ rest(u) # u
        BY <2>2, <3>4, FirstIn
      <4>2. Sums(n, rest(u), G(rest(u)))
        BY <2>1, <4>1
      <4>3. IsFiniteSet(u)
        BY FS_Subset
      <4>4. G(u)[rest(u)] = G(rest(u))[rest(u)]
        <5> HIDE DEF G, rest
        <5>1. QED
          BY <3>1, <4>1, <4>2, <4>3, SumsAgree
      <4>5. g[u] = Books!Signed(First(u), n[First(u)]) + G(rest(u))[rest(u)]
        <5> HIDE DEF G, rest
        <5>1. QED
          BY <2>2, <3>4
      <4>6. QED
        BY <3>2, <3>4, <4>4, <4>5, Zenon
    <3>5. QED
      BY <3>3, <3>4
  <2>3. ASSUME NEW t \in SUBSET s, t # {} PROVE g[rest(t)] = G(rest(t))[rest(t)]
    <3>1. rest(t) \in SUBSET s /\ rest(t) # s
      BY <2>3, FirstIn
    <3>2. QED
      <4> HIDE DEF g, G, rest
      <4>1. QED
        BY <2>2, <3>1
  <2>4. g = [t \in SUBSET s |-> IF t = {} THEN 0
               ELSE Books!Signed(First(t), n[First(t)]) + g[t \ {First(t)}]]
    <3>1. \A t \in SUBSET s : t # {} => g[t \ {First(t)}] = G(rest(t))[rest(t)]
      BY <2>3
    <3> DEFINE old(t) == G(rest(t))[rest(t)]
               new(t) == g[t \ {First(t)}]
    <3>2. \A t \in SUBSET s : t # {} => new(t) = old(t)
      BY <3>1
    <3>3. [t \in SUBSET s |-> IF t = {} THEN 0
               ELSE Books!Signed(First(t), n[First(t)]) + old(t)]
           = [t \in SUBSET s |-> IF t = {} THEN 0
               ELSE Books!Signed(First(t), n[First(t)]) + new(t)]
      <4> HIDE DEF old, new
      <4>1. QED
        BY <3>2
    <3>4. QED
      BY <3>3, Zenon
  <2>5. QED
    <3>1. Sums(n, s, g)
      <4> HIDE DEF g
      <4>1. QED
        BY <2>4, Zenon DEF Sums
    <3>2. QED
      BY <3>1, Zenon
<1>2. \A s \in SUBSET S : s \in T
  <2>1. \A s \in SUBSET S : (\A t \in SUBSET s : t # s => t \in T) => s \in T
    BY <1>1
  <2> HIDE DEF T
  <2>2. QED
    BY <2>1, SubsetInduction
<1>3. QED
  BY <1>2

(* The sum of nothing is zero, that of other sets is the sum of the rest and
   the element that is taken first. *)
LEMMA SumFirst ==
  ASSUME NEW n, NEW S, IsFiniteSet(S)
  PROVE  Sum(n, S) = IF S = {} THEN 0
                     ELSE Books!Signed(First(S), n[First(S)]) + Sum(n, S \ {First(S)})
<1> DEFINE rest == S \ {First(S)}
<1>1. PICK g : Sums(n, S, g) /\ Sum(n, S) = g[S]
  <2>1. Sums(n, S, CHOOSE q : Sums(n, S, q))
    BY SumsExist, Zenon
  <2>2. QED
    BY <2>1, SumIs, Zenon
<1>2. IsFiniteSet(rest)
  BY FS_Subset
<1>3. PICK h : Sums(n, rest, h) /\ Sum(n, rest) = h[rest]
  <2> HIDE DEF rest
  <2>1. Sums(n, rest, CHOOSE q : Sums(n, rest, q))
    BY <1>2, SumsExist, Zenon
  <2>2. QED
    BY <2>1, SumIs, Zenon
<1>4. g[rest] = h[rest]
  <2>1. rest \in SUBSET S
    OBVIOUS
  <2> HIDE DEF rest
  <2>2. QED
    BY <1>1, <1>3, <2>1, SumsAgree
<1>5. g[S] = IF S = {} THEN 0 ELSE Books!Signed(First(S), n[First(S)]) + g[rest]
  BY <1>1, Zenon DEF Sums
<1>6. QED
  <2> HIDE DEF rest
  <2>1. Sum(n, S) = IF S = {} THEN 0
                    ELSE Books!Signed(First(S), n[First(S)]) + Sum(n, rest)
    BY <1>1, <1>3, <1>4, <1>5
  <2>2. QED
    BY <2>1 DEF rest

(* Amounts are numbers, so are what they add to a balance and their sums. *)
LEMMA SignedInt ==
  ASSUME NEW f, NEW k \in Nat
  PROVE  Books!Signed(f, k) \in Int
BY DEF Books!Signed

LEMMA SumInt ==
  ASSUME NEW n, NEW S, IsFiniteSet(S), \A f \in S : n[f] \in Nat
  PROVE  Sum(n, S) \in Int
<1> DEFINE T == {s \in SUBSET S : Sum(n, s) \in Int}
<1>1. ASSUME NEW s \in SUBSET S, \A t \in SUBSET s : t # s => t \in T
      PROVE  Sum(n, s) \in Int
  <2>1. IsFiniteSet(s)
    BY FS_Subset
  <2>2. CASE s = {}
    <3>1. Sum(n, s) = 0
      BY <2>1, <2>2, SumFirst
    <3>2. QED
      BY <3>1
  <2>3. CASE s # {}
    <3>1. First(s) \in S /\ s \ {First(s)} \in SUBSET s /\ s \ {First(s)} # s
      BY <2>3, FirstIn
    <3>2. Sum(n, s \ {First(s)}) \in Int
      BY <1>1, <3>1
    <3>3. Books!Signed(First(s), n[First(s)]) \in Int
      BY <3>1, SignedInt
    <3>4. Sum(n, s) = Books!Signed(First(s), n[First(s)]) + Sum(n, s \ {First(s)})
      BY <2>1, <2>3, SumFirst
    <3>5. QED
      BY <3>2, <3>3, <3>4
  <2>4. QED
    BY <2>2, <2>3
<1>2. \A s \in SUBSET S : s \in T
  <2>1. \A s \in SUBSET S : (\A t \in SUBSET s : t # s => t \in T) => s \in T
    BY <1>1
  <2> HIDE DEF T
  <2>2. QED
    BY <2>1, SubsetInduction
<1>3. QED
  BY <1>2

(* The order in which elements are taken does not matter. *)
LEMMA SumTake ==
  ASSUME NEW n, NEW S, IsFiniteSet(S), \A f \in S : n[f] \in Nat
  PROVE  \A y \in S : Sum(n, S) = Books!Signed(y, n[y]) + Sum(n, S \ {y})
<1> DEFINE W(y) == Books!Signed(y, n[y])
           T == {s \in SUBSET S : \A y \in s : Sum(n, s) = W(y) + Sum(n, s \ {y})}
<1>1. ASSUME NEW s \in SUBSET S, \A t \in SUBSET s : t # s => t \in T, NEW y \in s
      PROVE  Sum(n, s) = W(y) + Sum(n, s \ {y})
  <2>1. IsFiniteSet(s) /\ IsFiniteSet(s \ {y})
    BY FS_Subset
  <2>2. PICK x \in s : x = First(s)
    BY FirstIn
  <2>3. Sum(n, s) = W(x) + Sum(n, s \ {x})
    BY <2>1, <2>2, SumFirst
  <2>4. CASE x = y
    BY <2>3, <2>4
  <2>5. CASE x # y
    <3>1. PICK both : both = s \ {x, y}
      OBVIOUS
    <3>2. /\ s \ {x} \in T /\ y \in s \ {x} /\ (s \ {x}) \ {y} = both
          /\ s \ {y} \in T /\ x \in s \ {y} /\ (s \ {y}) \ {x} = both
      BY <1>1, <2>5, <3>1
    <3>3. Sum(n, s \ {x}) = W(y) + Sum(n, both) /\ Sum(n, s \ {y}) = W(x) + Sum(n, both)
      <4> HIDE DEF W
      <4>1. QED
        BY <3>2
    <3>4. Sum(n, both) \in Int
      <4>1. IsFiniteSet(both) /\ both \subseteq S
        BY <3>1, FS_Subset
      <4>2. QED
        BY <4>1, SumInt
    <3>5. W(x) \in Int /\ W(y) \in Int
      BY SignedInt
    <3>6. QED
      <4> HIDE DEF W
      <4>1. QED
        BY <2>3, <3>3, <3>4, <3>5
  <2>6. QED
    BY <2>4, <2>5
<1>2. \A s \in SUBSET S : s \in T
  <2>1. \A s \in SUBSET S : (\A t \in SUBSET s : t # s => t \in T) => s \in T
    BY <1>1
  <2> HIDE DEF T
  <2>2. QED
    BY <2>1, SubsetInduction
<1>3. S \in T
  BY <1>2
<1>4. QED
  BY <1>3

(* Sums depend on the amounts of their elements only. *)
LEMMA SumSame ==
  ASSUME NEW n, NEW m, NEW S, IsFiniteSet(S), \A f \in S : n[f] = m[f]
  PROVE  Sum(n, S) = Sum(m, S)
<1> DEFINE T == {s \in SUBSET S : Sum(n, s) = Sum(m, s)}
<1>1. ASSUME NEW s \in SUBSET S, \A t \in SUBSET s : t # s => t \in T
      PROVE  Sum(n, s) = Sum(m, s)
  <2>1. IsFiniteSet(s)
    BY FS_Subset
  <2>2. CASE s = {}
    BY <2>1, <2>2, SumFirst
  <2>3. CASE s # {}
    <3>1. First(s) \in S /\ s \ {First(s)} \in SUBSET s /\ s \ {First(s)} # s
      BY <2>3, FirstIn
    <3>2. Sum(n, s \ {First(s)}) = Sum(m, s \ {First(s)})
      BY <1>1, <3>1
    <3>3. n[First(s)] = m[First(s)]
      BY <3>1
    <3>4. /\ Sum(n, s) = Books!Signed(First(s), n[First(s)]) + Sum(n, s \ {First(s)})
          /\ Sum(m, s) = Books!Signed(First(s), m[First(s)]) + Sum(m, s \ {First(s)})
      BY <2>1, <2>3, SumFirst
    <3>5. QED
      BY <3>2, <3>3, <3>4
  <2>4. QED
    BY <2>2, <2>3
<1>2. \A s \in SUBSET S : s \in T
  <2>1. \A s \in SUBSET S : (\A t \in SUBSET s : t # s => t \in T) => s \in T
    BY <1>1
  <2> HIDE DEF T
  <2>2. QED
    BY <2>1, SubsetInduction
<1>3. QED
  BY <1>2

(* A new element adds its amount. *)
LEMMA SumAdd ==
  ASSUME NEW n, NEW S, IsFiniteSet(S), \A f \in S : n[f] \in Nat,
         NEW y, y \notin S, n[y] \in Nat
  PROVE  Sum(n, S \cup {y}) = Sum(n, S) + Books!Signed(y, n[y])
<1>1. IsFiniteSet(S \cup {y}) /\ (S \cup {y}) \ {y} = S
  BY FS_AddElement
<1>2. Sum(n, S \cup {y}) = Books!Signed(y, n[y]) + Sum(n, S)
  <2>1. \A f \in S \cup {y} : n[f] \in Nat
    OBVIOUS
  <2>2. Sum(n, S \cup {y}) = Books!Signed(y, n[y]) + Sum(n, (S \cup {y}) \ {y})
    BY <1>1, <2>1, SumTake
  <2>3. QED
    BY <1>1, <2>2
<1>3. QED
  BY <1>2, SumInt, SignedInt

-----------------------------------------------------------------------------

(* The books, as the sums of Conservation see them. *)
PostedAmount == [f \in Flow |-> IF Posted(f) THEN record[f].amount ELSE 0]
PaidBy(a) == {f \in PostedFlow : [g \in Flow |-> IF Posted(g) THEN record[g].account
                                                ELSE NoAccount][f] = a}

(* Balances are the sums of finitely many flows. *)
Balanced ==
  /\ IsFiniteSet(PostedFlow)
  /\ \A a \in Account : wallet[a].balance = Sum(PostedAmount, PaidBy(a))

(* Conservation is the second part of Balanced. *)
LEMMA BalancedConserves ==
  ASSUME Balanced
  PROVE  Conservation
<1>1. \A a \in Account : [b \in Account |-> wallet[b].balance][a] = Sum(PostedAmount, PaidBy(a))
  BY DEF Balanced
<1>2. QED
  BY <1>1, Zenon DEF Conservation, Books!Conservation, Sum, PostedAmount, PaidBy,
           MapThenSumSet, MapThenFoldSet, Books!MapThenSumSet, Books!MapThenFoldSet

LEMMA InitBalanced == Init => Balanced
<1> SUFFICES ASSUME Init PROVE Balanced
  OBVIOUS
<1>1. PostedFlow = {}
  BY DEF Init, Posted, PostedFlow, NoRecord
<1>2. \A a \in Account : wallet[a].balance = 0 /\ PaidBy(a) = {}
  BY <1>1 DEF Init, PaidBy
<1>3. IsFiniteSet({})
  BY FS_EmptySet
<1>4. \A n : Sum(n, {}) = 0
  BY <1>3, SumFirst
<1>5. QED
  BY <1>1, <1>2, <1>3, <1>4 DEF Balanced

(* One posting adds its amount to one balance and to one sum. *)
LEMMA PostBalances ==
  ASSUME TypeOK, TypeOK', Balanced,
         NEW f \in Flow, NEW a \in Account, NEW n, Books!Post(f, a, n)
  PROVE  Balanced'
<1>1. f \notin PostedFlow /\ PostedFlow' = PostedFlow \cup {f}
  BY DEF Books!Post
<1> DEFINE balance == [b \in Account |-> wallet[b].balance]
           payer == [g \in Flow |-> IF Posted(g) THEN record[g].account ELSE NoAccount]
<1>2. /\ payer' = [payer EXCEPT ![f] = a]
      /\ PostedAmount' = [PostedAmount EXCEPT ![f] = n]
      /\ balance' = [balance EXCEPT ![a] = @ + Books!Signed(f, n)]
  BY DEF Books!Post, PostedAmount
<1>3. payer \in [Flow -> {payer[g] : g \in Flow}] /\ PostedAmount \in [Flow -> {PostedAmount[g] : g \in Flow}]
      /\ balance \in [Account -> {balance[b] : b \in Account}]
  BY DEF PostedAmount
<1>4. /\ \A b \in Account : PaidBy(b) = {g \in PostedFlow : payer[g] = b}
      /\ \A b \in Account : PaidBy(b)' = {g \in PostedFlow' : payer'[g] = b}
      /\ \A b \in Account : balance[b] = wallet[b].balance /\ balance'[b] = wallet'[b].balance
  BY DEF PaidBy
<1>5. /\ PostedFlow \subseteq Flow
      /\ \A g \in Flow : PostedAmount[g] \in Nat /\ PostedAmount'[g] \in Nat
      /\ \A b \in Account : balance[b] \in Int
  BY DEF PostedFlow, PostedAmount, TypeOK, Record, Wallet
<1> HIDE DEF balance, payer
<1>6. /\ payer'[f] = a /\ PostedAmount'[f] = n
      /\ \A g \in Flow : g # f => payer'[g] = payer[g] /\ PostedAmount'[g] = PostedAmount[g]
      /\ balance'[a] = balance[a] + Books!Signed(f, n)
      /\ \A b \in Account : b # a => balance'[b] = balance[b]
  BY <1>2, <1>3
<1>7. IsFiniteSet(PostedFlow) /\ IsFiniteSet(PostedFlow')
  BY <1>1, FS_AddElement DEF Balanced
<1>8. PICK old, new : old = PostedAmount /\ new = PostedAmount'
  OBVIOUS
<1>9. ASSUME NEW b \in Account
      PROVE  wallet'[b].balance = Sum(new, PaidBy(b)')
  <2>1. PICK paid : paid = PaidBy(b)
    OBVIOUS
  <2>2. /\ IsFiniteSet(paid) /\ f \notin paid
        /\ \A g \in paid : new[g] = old[g] /\ new[g] \in Nat
    BY <1>1, <1>4, <1>5, <1>6, <1>7, <1>8, <2>1, FS_Subset
  <2>3. balance[b] = Sum(new, paid)
    <3>1. balance[b] = Sum(old, paid)
      BY <1>4, <1>8, <2>1 DEF Balanced
    <3>2. Sum(new, paid) = Sum(old, paid)
      BY <2>2, SumSame
    <3>3. QED
      BY <3>1, <3>2
  <2>4. CASE b = a
    <3>1. PaidBy(b)' = paid \cup {f}
      BY <1>1, <1>4, <1>5, <1>6, <2>1, <2>4
    <3>2. n \in Nat /\ new[f] = n
      BY <1>5, <1>6, <1>8
    <3>3. Sum(new, paid \cup {f}) = Sum(new, paid) + Books!Signed(f, n)
      BY <2>2, <3>2, SumAdd
    <3>4. QED
      BY <1>4, <1>6, <2>3, <2>4, <3>1, <3>3
  <2>5. CASE b # a
    <3>1. PaidBy(b)' = paid
      <4>1. f \notin PaidBy(b)'
        BY <1>4, <1>6, <2>5
      <4>2. \A g \in PostedFlow : g \in PaidBy(b)' <=> g \in paid
        BY <1>1, <1>4, <1>5, <1>6, <2>1
      <4>3. PaidBy(b)' \subseteq PostedFlow' /\ paid \subseteq PostedFlow
        BY <1>4, <2>1
      <4>4. QED
        BY <1>1, <4>1, <4>2, <4>3
    <3>2. QED
      BY <1>4, <1>6, <2>3, <2>5, <3>1
  <2>6. QED
    BY <2>4, <2>5
<1>10. QED
  BY <1>7, <1>8, <1>9 DEF Balanced

(* Where the books stay the same, so do the sums. *)
LEMMA StutterBalances ==
  ASSUME Balanced, UNCHANGED Books!vars
  PROVE  Balanced'
<1>1. /\ PostedFlow' = PostedFlow /\ PostedAmount' = PostedAmount
      /\ [b \in Account |-> wallet[b].balance]' = [b \in Account |-> wallet[b].balance]
      /\ [g \in Flow |-> IF Posted(g) THEN record[g].account ELSE NoAccount]'
           = [g \in Flow |-> IF Posted(g) THEN record[g].account ELSE NoAccount]
  BY DEF Books!vars, PostedAmount
<1>2. \A b \in Account : PaidBy(b)' = PaidBy(b)
  BY <1>1 DEF PaidBy
<1>3. \A b \in Account : wallet'[b].balance = wallet[b].balance
  <2>1. \A b \in Account : [c \in Account |-> wallet[c].balance]'[b]
                             = [c \in Account |-> wallet[c].balance][b]
    BY <1>1
  <2>2. QED
    BY <2>1
<1>4. QED
  BY <1>1, <1>2, <1>3 DEF Balanced

(* Conservation: every balance is the sum of the success records of its
   account, for any number of accounts, orders, goroutines and faults. *)
THEOREM BalancesConserved == Spec => []Conservation
<1>1. Init => Balanced
  BY InitBalanced
<1>2. IndInv /\ IndInv' /\ Balanced /\ [Next]_vars => Balanced'
  <2> SUFFICES ASSUME IndInv, IndInv', Balanced, [Next]_vars PROVE Balanced'
    OBVIOUS
  <2>1. TypeOK /\ TypeOK'
    BY DEF IndInv
  <2>2. Books!Next \/ UNCHANGED Books!vars
    BY NextPosts
  <2>3. CASE Books!Next
    <3>1. PICK n : \E f \in Flow, a \in Account : Books!Post(f, a, n)
      BY <2>3, NextPostsOne
    <3>2. QED
      BY <2>1, <3>1, PostBalances
  <2>4. QED
    BY <2>2, <2>3, StutterBalances
<1>3. Balanced => Conservation
  BY BalancedConserves
<1>4. QED
  BY <1>1, <1>2, <1>3, Invariance, PTL DEF Spec
==============================================================================
