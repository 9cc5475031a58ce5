----------------------------- MODULE MCBilling -----------------------------
(***************************************************************************)
(* Billing for TLC.  The environment of the whole specification reaches    *)
(* every combination of marks, owners, prices and months, which is more    *)
(* than one run can hold.  A behaviour therefore follows one of the        *)
(* scenarios below, each of which keeps all the goroutines of the code and *)
(* the part of the environment its question is about.  The scenarios       *)
(* together take every action of Billing!Next.                             *)
(***************************************************************************)
EXTENDS Billing, TLC

VARIABLE scenario

mcVars == <<vars, scenario>>

PricedInit == Init /\ \A o \in Order : cost[o] # NoPrice

(* One account, order or recharge is enough for some of the scenarios. *)
Only(S) == {CHOOSE x \in S : TRUE}
Spare == Order \ Only(Order)
Small == {Min(Deposit)}

OneOwner == \A o \in Order : owner[o] \in Only(Account)

\* The other orders are bound and priced, and nobody approves them.
SpareFixed == \A o \in Spare : owner[o] \in Only(Account) /\ cost[o] # NoPrice

Recharging(R, A, D) ==
  \/ \E r \in R, a \in A, n \in D : SubmitRecharge(r, a, n)
  \/ \E r \in R : ApproveRecharge(r) \/ RejectRecharge(r)

Deductions == ScanPending \/ \E w \in Worker : DeductStep(w)

Refunds == ScanRefundable \/ \E w \in RefundWorker : RefundStep(w)

Faults ==
  \/ Crash
  \/ \E w \in Worker : DeductFault(w)
  \/ \E w \in RefundWorker : RefundFault(w)

Approvals(O) == \E o \in O : MarkApproved(o)

-----------------------------------------------------------------------------
(* What reaches the rows of an order. *)

(* All marks the review paths and order editing write, and sync reverting an
   after-sale. *)
MarksNext ==
  \/ Recharging(Only(Recharge), Only(Account), Small)
  \/ \E o \in Only(Order) :
       \/ MarkApproved(o) \/ MarkInsufficient(o) \/ MarkBarcodeError(o)
       \/ \E m \in Mark : EditMark(o, m)
       \/ CompleteAfterSale(o) \/ SyncOrder(o)
  \/ Deductions \/ Refunds

(* Prices appear, change and vanish while deductions run and queries fail;
   orders are approved by review and by editing. *)
PricesNext ==
  \/ Recharging(Only(Recharge), Only(Account), Small)
  \/ Approvals(Only(Order))
  \/ \E o \in Only(Order) : \/ EditMark(o, "approved")
                            \/ \E c \in Cost \cup {NoPrice} : SetPrice(o, c)
  \/ Deductions

(* The shop changes hands between deduction and refund. *)
ReassignNext ==
  \/ Recharging(Recharge, Account, Small)
  \/ Approvals(Only(Order))
  \/ \E o \in Only(Order) : \/ CompleteAfterSale(o)
                            \/ \E a \in Account \cup {NoAccount} : AssignShop(o, a)
  \/ \E w \in AsyncWorker : DeductStep(w)
  \/ Refunds

-----------------------------------------------------------------------------
(* What reaches the balance and the discount of a wallet. *)

(* Several goroutines draw on one wallet. *)
ContentionNext ==
  \/ Recharging(Only(Recharge), Only(Account), Deposit)
  \/ Approvals(Order) \/ Deductions

(* The month turns while one goroutine deducts, and recharges of the smaller
   amount are approved; the refresh may fail. *)
MonthsNext ==
  /\ \/ \E r \in Recharge : \/ \E a \in Only(Account) : SubmitRecharge(r, a, Min(Deposit))
                            \/ ApproveRecharge(r)
     \/ Approvals(Order)
     \/ NewMonth \/ \E a \in Account : RefreshDiscount(a)
     \/ \E w \in AsyncWorker : DeductStep(w)
  /\ faults' = faults \/ refreshing' # refreshing

BooksInit ==
  \/ scenario \in {"marks", "contention", "months"} /\ PricedInit /\ OneOwner
  \/ scenario = "prices" /\ Init /\ OneOwner /\ SpareFixed
  \/ scenario = "reassign" /\ PricedInit /\ SpareFixed

BooksNext ==
  /\ \/ scenario = "marks" /\ MarksNext /\ UNCHANGED faults
     \/ scenario = "prices" /\ PricesNext
     \/ scenario = "reassign" /\ ReassignNext /\ UNCHANGED faults
     \/ scenario = "contention" /\ ContentionNext /\ UNCHANGED faults
     \/ scenario = "months" /\ MonthsNext
  /\ UNCHANGED scenario

BooksSpec == BooksInit /\ [][BooksNext]_mcVars

-----------------------------------------------------------------------------
(* Faults: statements fail and the process crashes. *)

FaultsInit == scenario = "faults" /\ Init

FaultsNext ==
  /\ \/ RechargeStep
     \/ Approvals(Order) \/ \E o \in Order : CompleteAfterSale(o)
     \/ Deductions \/ Refunds \/ Faults
  /\ UNCHANGED scenario

FaultsSpec == FaultsInit /\ [][FaultsNext]_mcVars

(* The same with the scheduler's fairness, for the liveness properties. *)
FairFaultsSpec == FaultsSpec /\ Fairness
=============================================================================
