------------------------------- MODULE Review -------------------------------
(***************************************************************************)
(* How orders are approved (sync_service.go): the five-minute auto-review, *)
(* the mark requests of reviewers, and the push of both to the ERP, with   *)
(* the deductions they start.  Each statement, and each call to the ERP,   *)
(* is a step; the reads of one eligibility check are one step.  A verdict  *)
(* is used after other actors may have moved on.                           *)
(*                                                                         *)
(* One account is reviewed; each order costs Cost after discount.  A       *)
(* deduction is one step here: module Billing has its statements, and the  *)
(* lag between its transaction and the status it writes.  Left out: orders *)
(* of no employee and unknown trade numbers, which are skipped; a failed   *)
(* look-up of an order's trade_source, which makes it domestic; and one    *)
(* after a failed foreign push, which leaves the order among the approved  *)
(* ones.                                                                   *)
(***************************************************************************)
EXTENDS Integers, FiniteSetsExt

CONSTANTS
  Order,      \* order_trade rows of the account's shops
  Cost,       \* what an order costs
  Deposit,    \* what a recharge brings
  Funds,      \* bound: recharges stop at this balance
  BatchSize,  \* autoReviewBatchSize
  MaxFaults   \* bound: failed calls and statements, and process crashes

ASSUME ReviewAssumption ==
  /\ Cost \in Nat \ {0} /\ Deposit \in Nat \ {0} /\ Funds \in Nat
  /\ BatchSize \in Nat \ {0}
  /\ MaxFaults \in Nat

VARIABLES
  foreign,    \* the orders of foreign trade
  sent,       \* the paid orders in the sent state
  priced,     \* the orders whose items all have a control price
  balance,    \* the account's wallet
  mark,       \* mark[o] of order_trade
  status,     \* status[o]: billing_status
  told,       \* told[o]: the marks the ERP has been told for o
  triggered,  \* orders with a deduction goroutine that has not run
  recovered,  \* orders whose recovery is still to be pushed by its goroutine
  auto,       \* the running auto-review
  request,    \* the running mark request
  faults,     \* faults so far
  asked,      \* history: orders somebody has decided to approve
  missed      \* history: recovered orders the ERP was not told of

erpVars == <<told, asked, missed>>
rowVars == <<mark, status, balance>>
envVars == <<foreign, sent, priced>>
vars == <<envVars, rowVars, erpVars, triggered, recovered, auto, request, faults>>

-----------------------------------------------------------------------------
(* Data *)

Mark == {"none", "approved", "insufficient", "barcode"}
Verdict == {"ok", "insufficient", "barcode", "skip"}

IdleAuto == [pc |-> "idle", ok |-> {}, short |-> {}, barcode |-> {}, batch |-> {}]
IdleRequest == [pc |-> "idle", approve |-> {}, custom |-> {}, ok |-> {}, short |-> {}]

(* The balance is a natural number: no review leads to an overdraft. *)
TypeOK ==
  /\ foreign \in SUBSET Order /\ sent \in SUBSET Order /\ priced \in SUBSET Order
  /\ balance \in Nat
  /\ mark \in [Order -> Mark]
  /\ status \in [Order -> {"pending", "success", "insufficient", "error"}]
  /\ told \in [Order -> SUBSET {"approved", "custom"}]
  /\ triggered \in SUBSET Order /\ recovered \in SUBSET Order
  /\ auto \in [pc : {"idle", "check", "short", "barcode", "push", "mark"},
               ok : SUBSET Order, short : SUBSET Order, barcode : SUBSET Order,
               batch : SUBSET Order]
  /\ request \in [pc : {"idle", "check", "short", "domestic", "foreign", "mark"},
                  approve : SUBSET Order, custom : SUBSET Order,
                  ok : SUBSET Order, short : SUBSET Order]
  /\ faults \in 0 .. MaxFaults
  /\ asked \in SUBSET Order /\ missed \in SUBSET Order

Init ==
  /\ foreign \in SUBSET Order
  /\ sent \in SUBSET Order
  /\ priced \in SUBSET Order
  /\ balance \in {0, Cost}
  /\ mark = [o \in Order |-> "none"]
  /\ status = [o \in Order |-> "pending"]
  /\ told = [o \in Order |-> {}]
  /\ triggered = {} /\ recovered = {}
  /\ auto = IdleAuto /\ request = IdleRequest
  /\ faults = 0
  /\ asked = {} /\ missed = {}

Fault == faults < MaxFaults /\ faults' = faults + 1

-----------------------------------------------------------------------------
(* The rest of the system *)

Recharge ==
  /\ balance < Funds
  /\ balance' = balance + Deposit
  /\ UNCHANGED <<envVars, mark, status, erpVars, triggered, recovered, auto, request, faults>>

(* A product gets its control price. *)
SetPrice(o) ==
  /\ o \notin priced
  /\ priced' = priced \cup {o}
  /\ UNCHANGED <<foreign, sent, rowVars, erpVars, triggered, recovered, auto, request, faults>>

(* Order sync moves process_status on: the order is reviewed no more. *)
LeaveSent(o) ==
  /\ o \in sent
  /\ sent' = sent \ {o}
  /\ UNCHANGED <<foreign, priced, rowVars, erpVars, triggered, recovered, auto, request, faults>>

-----------------------------------------------------------------------------
(* Guarded updates of marks *)

(* Slip: without the guard on billing_status. *)
Whichever(orders) == orders

Uncharged(orders) == {o \in orders : status[o] # "success"}

BatchSetMarkDeductFailed(orders) ==
  LET failed == Uncharged(orders)
  IN  /\ mark' = [o \in Order |-> IF o \in failed THEN "insufficient" ELSE mark[o]]
      /\ status' = [o \in Order |-> IF o \in failed THEN "insufficient" ELSE status[o]]

BatchSetMarkBarcodeError(orders) ==
  mark' = [o \in Order |-> IF o \in Uncharged(orders) THEN "barcode" ELSE mark[o]]

BatchMarkApproved(orders) ==
  mark' = [o \in Order |-> IF o \in orders THEN "approved" ELSE mark[o]]

(* What the ERP knows after a push of these orders. *)
Tell(orders, name) ==
  [o \in Order |-> IF o \in orders THEN told[o] \cup {name} ELSE told[o]]

-----------------------------------------------------------------------------
(* Deductions *)

(* The scan lists approved orders, and failed ones for another try. *)
Listed(o) ==
  \/ mark[o] = "approved" /\ status[o] \in {"pending", "insufficient", "error"}
  \/ mark[o] = "insufficient" /\ status[o] = "insufficient"

(* Slip: any money will do. *)
AnyMoney == balance > 0

(* The balance under the wallet's lock. *)
Covered == balance >= Cost

(* An order is charged, or failed for want of money, or has no price; one that
   had failed is set back to approved, which the ERP is told afterwards. *)
ProcessDeduction(o) ==
  /\ o \in triggered \/ Listed(o)
  /\ triggered' = triggered \ {o}
  /\ \/ /\ status[o] = "success"
        /\ UNCHANGED <<rowVars, recovered, asked, missed>>
     \/ /\ status[o] # "success" /\ o \notin priced
        /\ status' = [status EXCEPT ![o] = "error"]
        /\ UNCHANGED <<mark, balance, recovered, asked, missed>>
     \/ /\ status[o] # "success" /\ o \in priced /\ ~Covered
        /\ BatchSetMarkDeductFailed({o})
        /\ UNCHANGED <<balance, recovered, asked, missed>>
     \/ /\ status[o] # "success" /\ o \in priced /\ Covered
        /\ balance' = balance - Cost
        /\ status' = [status EXCEPT ![o] = "success"]
        /\ IF mark[o] = "insufficient"
           THEN /\ BatchMarkApproved({o})
                /\ recovered' = recovered \cup {o}
                /\ asked' = asked \cup {o}
                /\ missed' = missed \cup {o}
           ELSE UNCHANGED <<mark, recovered, asked, missed>>
  /\ UNCHANGED <<envVars, told, auto, request, faults>>

(* The hook of the billing service; its error is logged. *)
SmartMarkPush(o) ==
  /\ o \in recovered
  /\ recovered' = recovered \ {o}
  /\ \/ told' = Tell({o}, "approved") /\ missed' = missed \ {o} /\ UNCHANGED faults
     \/ Fault /\ UNCHANGED <<told, missed>>
  /\ UNCHANGED <<envVars, rowVars, asked, triggered, auto, request>>

-----------------------------------------------------------------------------
(* Auto-review *)

(* Slip: only orders never audited. *)
NeverAudited == {o \in sent : mark[o] = "none"}

(* Orders never audited, and those that failed for money or a barcode. *)
Candidates == {o \in sent : mark[o] # "approved"}

StartAutoReview ==
  /\ auto.pc = "idle"
  /\ Candidates # {}
  /\ auto' = [IdleAuto EXCEPT !.pc = "check", !.ok = Candidates]
  /\ UNCHANGED <<envVars, rowVars, erpVars, triggered, recovered, request, faults>>

(* Each order is compared with the whole balance. *)
Eligible(o) ==
  IF o \notin priced THEN "barcode" ELSE IF balance < Cost THEN "insufficient" ELSE "ok"

Having(verdict, orders) == {o \in orders : Eligible(o) = verdict}

(* A wallet that cannot be read is an empty one: every candidate is short.  If
   the month's recharges cannot be read the full price counts, and those that
   have one may be short.  A failure to read items or prices skips them all. *)
BatchCheckAutoReviewEligible ==
  /\ auto.pc = "check"
  /\ \/ /\ auto' = [auto EXCEPT !.pc = "short", !.ok = Having("ok", @),
                      !.short = Having("insufficient", auto.ok),
                      !.barcode = Having("barcode", auto.ok)]
        /\ asked' = asked \cup Having("ok", auto.ok)
        /\ UNCHANGED faults
     \/ /\ Fault
        /\ \E short \in {auto.ok, auto.ok \cap priced} :
             auto' = [auto EXCEPT !.pc = "short", !.ok = {}, !.short = short,
                                  !.barcode = auto.ok \ short]
        /\ UNCHANGED asked
     \/ /\ Fault
        /\ auto' = IdleAuto
        /\ UNCHANGED asked
  /\ UNCHANGED <<envVars, rowVars, told, missed, triggered, recovered, request>>

AutoMarkShort ==
  /\ auto.pc = "short"
  /\ auto' = [auto EXCEPT !.pc = "barcode", !.short = {}]
  /\ \/ BatchSetMarkDeductFailed(auto.short) /\ UNCHANGED faults
     \/ auto.short # {} /\ Fault /\ UNCHANGED <<mark, status>>
  /\ UNCHANGED <<envVars, balance, erpVars, triggered, recovered, request>>

AutoMarkBarcodeError ==
  /\ auto.pc = "barcode"
  /\ auto' = [auto EXCEPT !.pc = "push", !.barcode = {}]
  /\ \/ BatchSetMarkBarcodeError(auto.barcode) /\ UNCHANGED faults
     \/ auto.barcode # {} /\ Fault /\ UNCHANGED mark
  /\ UNCHANGED <<envVars, balance, status, erpVars, triggered, recovered, request>>

(* Domestic orders go in batches, then foreign ones one at a time. *)
NextBatches ==
  LET domestic == auto.ok \ foreign
      n == Cardinality(domestic)
  IN  IF domestic # {} THEN kSubset(IF n < BatchSize THEN n ELSE BatchSize, domestic)
      ELSE {{o} : o \in auto.ok}

AutoEnd ==
  /\ auto.pc = "push" /\ auto.ok = {}
  /\ auto' = IdleAuto
  /\ UNCHANGED <<envVars, rowVars, erpVars, triggered, recovered, request, faults>>

(* Slip: a push that fails is logged, and the batch is approved. *)
AutoPushAnyway(batch) ==
  /\ auto.pc = "push"
  /\ auto' = [auto EXCEPT !.pc = "mark", !.ok = @ \ batch, !.batch = batch]
  /\ \/ told' = Tell(batch, "approved") /\ UNCHANGED faults
     \/ Fault /\ UNCHANGED told
  /\ UNCHANGED <<envVars, rowVars, asked, missed, triggered, recovered, request>>

(* A batch is pushed; or the call fails, whether or not it reached the ERP, and
   the batch is left to the next cycle. *)
AutoPush(batch) ==
  /\ auto.pc = "push"
  /\ \/ /\ told' = Tell(batch, "approved")
        /\ auto' = [auto EXCEPT !.pc = "mark", !.ok = @ \ batch, !.batch = batch]
        /\ UNCHANGED faults
     \/ /\ Fault
        /\ told' \in {told, Tell(batch, "approved")}
        /\ auto' = [auto EXCEPT !.ok = @ \ batch]
  /\ UNCHANGED <<envVars, rowVars, asked, missed, triggered, recovered, request>>

(* The deductions start whether or not the marks were written. *)
AutoMarkApproved ==
  /\ auto.pc = "mark"
  /\ auto' = [auto EXCEPT !.pc = "push", !.batch = {}]
  /\ triggered' = triggered \cup auto.batch
  /\ \/ BatchMarkApproved(auto.batch) /\ UNCHANGED faults
     \/ Fault /\ UNCHANGED mark
  /\ UNCHANGED <<envVars, status, balance, erpVars, recovered, request>>

-----------------------------------------------------------------------------
(* A reviewer's request: some orders to approve, some to give a mark of another
   name. *)

MarkRequest(approve, custom) ==
  /\ request.pc = "idle"
  /\ approve \cap custom = {}
  /\ approve \cup custom # {}
  /\ request' = [IdleRequest EXCEPT !.pc = "check", !.approve = approve, !.custom = custom]
  /\ UNCHANGED <<envVars, rowVars, erpVars, triggered, recovered, auto, faults>>

(* The orders are checked one after another; a barcode error is dropped.  So is
   an order if it, its owner, its items or a price cannot be read; without the
   wallet, or at full price because the month's recharges cannot be read, it
   counts as short. *)
CheckAutoReviewEligible(o) ==
  /\ request.pc = "check"
  /\ o \in request.approve
  /\ \/ /\ request' = [request EXCEPT !.approve = @ \ {o},
                         !.ok = @ \cup Having("ok", {o}),
                         !.short = @ \cup Having("insufficient", {o})]
        /\ asked' = asked \cup Having("ok", {o})
        /\ UNCHANGED faults
     \/ /\ Fault
        /\ \E short \in SUBSET {o} :
             request' = [request EXCEPT !.approve = @ \ {o}, !.short = @ \cup short]
        /\ UNCHANGED asked
  /\ UNCHANGED <<envVars, rowVars, told, missed, triggered, recovered, auto>>

RequestMarkShort ==
  /\ request.pc = "check" /\ request.approve = {}
  /\ request' = [request EXCEPT !.pc = "domestic", !.short = {}]
  /\ \/ BatchSetMarkDeductFailed(request.short) /\ UNCHANGED faults
     \/ request.short # {} /\ Fault /\ UNCHANGED <<mark, status>>
  /\ UNCHANGED <<envVars, balance, erpVars, triggered, recovered, auto>>

(* A failed push of the domestic orders ends the request. *)
BatchMarkOrders ==
  LET approve == request.ok \ foreign
      custom == request.custom \ foreign
      pushed == [o \in Order |-> told[o] \cup (IF o \in approve THEN {"approved"} ELSE {})
                                         \cup (IF o \in custom THEN {"custom"} ELSE {})]
  IN  /\ request.pc = "domestic"
      /\ \/ /\ told' = pushed
            /\ request' = [request EXCEPT !.pc = "foreign", !.custom = @ \cap foreign,
                                          !.approve = request.ok \cap foreign]
            /\ UNCHANGED faults
         \/ /\ approve \cup custom # {}
            /\ Fault
            /\ told' \in {told, pushed}
            /\ request' = IdleRequest
      /\ UNCHANGED <<envVars, rowVars, asked, missed, triggered, recovered, auto>>

(* The foreign call knows one mark; an order it fails for is not approved. *)
PushForeignRemarkApproved(o) ==
  /\ request.pc = "foreign"
  /\ o \in request.approve \cup request.custom
  /\ \/ /\ told' = Tell({o}, "approved")
        /\ request' = [request EXCEPT !.approve = @ \ {o}, !.custom = @ \ {o}]
        /\ UNCHANGED faults
     \/ /\ Fault
        /\ told' \in {told, Tell({o}, "approved")}
        /\ request' = [request EXCEPT !.approve = @ \ {o}, !.custom = @ \ {o}, !.ok = @ \ {o}]
  /\ UNCHANGED <<envVars, rowVars, asked, missed, triggered, recovered, auto>>

RequestMarkApproved ==
  /\ request.pc = "foreign"
  /\ request.approve \cup request.custom = {}
  /\ request' = IdleRequest
  /\ triggered' = triggered \cup request.ok
  /\ \/ BatchMarkApproved(request.ok) /\ UNCHANGED faults
     \/ request.ok # {} /\ Fault /\ UNCHANGED mark
  /\ UNCHANGED <<envVars, status, balance, erpVars, recovered, auto>>

-----------------------------------------------------------------------------
(* The process stops and starts again. *)
Restart ==
  /\ Fault
  /\ triggered' = {} /\ recovered' = {}
  /\ auto' = IdleAuto /\ request' = IdleRequest
  /\ UNCHANGED <<envVars, rowVars, erpVars>>

AutoStep ==
  \/ StartAutoReview \/ BatchCheckAutoReviewEligible
  \/ AutoMarkShort \/ AutoMarkBarcodeError
  \/ \E batch \in NextBatches : AutoPush(batch)
  \/ AutoMarkApproved \/ AutoEnd

RequestStep ==
  \/ \E o \in Order : CheckAutoReviewEligible(o)
  \/ RequestMarkShort
  \/ BatchMarkOrders
  \/ \E o \in Order : PushForeignRemarkApproved(o)
  \/ RequestMarkApproved

Next ==
  \/ Recharge \/ \E o \in Order : SetPrice(o) \/ LeaveSent(o)
  \/ \E approve, custom \in SUBSET Order : MarkRequest(approve, custom)
  \/ AutoStep \/ RequestStep
  \/ \E o \in Order : ProcessDeduction(o) \/ SmartMarkPush(o)
  \/ Restart

Spec == Init /\ [][Next]_vars

(* The review task's ticker fires and every goroutine takes its next step. *)
Fairness ==
  /\ WF_vars(AutoStep)
  /\ WF_vars(RequestStep)
  /\ \A o \in Order : WF_vars(ProcessDeduction(o)) /\ WF_vars(SmartMarkPush(o))

FairSpec == Spec /\ Fairness

-----------------------------------------------------------------------------
(* Properties *)

(* No order is approved here that the ERP was not told of, though reviewer and
   auto-review push and mark at the same time; the only gap is a recovery after
   a recharge, whose push comes last and fails silently. *)
ApprovedIsTold ==
  \A o \in Order : mark[o] = "approved" => "approved" \in told[o] \/ o \in missed

(* The ERP took the batch that auto-review is about to approve here. *)
BatchTold == auto.pc = "mark" => \A o \in auto.batch : "approved" \in told[o]

(* And of a request, the orders it is through with. *)
RequestTold ==
  request.pc = "foreign" => \A o \in request.ok \ request.approve : "approved" \in told[o]

(* ApprovedIsTold made inductive: an order is marked on the strength of an
   answer that auto-review or a request got some steps ago. *)
IndInv == TypeOK /\ ApprovedIsTold /\ BatchTold /\ RequestTold

(* A late verdict never takes the mark of an order that has been charged in the
   meantime, nor its status. *)
ChargedKeepsMark ==
  [][\A o \in Order : status[o] = "success" =>
       /\ status'[o] = "success"
       /\ mark'[o] \in {mark[o], "approved"}]_vars

(* An order the ERP was told to be approved is finally charged and approved
   here, whatever fails in between, as long as auto-review may see it and the
   wallet can pay. *)
ToldIsCharged ==
  \A o \in Order :
    []<>( "approved" \in told[o] /\ o \in sent \cap priced /\ balance >= Cost
          => status[o] = "success" /\ mark[o] = "approved" )

(* The comment of BatchMarkOrdersWithBalanceCheck: marks of other names "are
   passed through to WanLiNiu unchanged".  So the ERP only hears "approved" of an
   order somebody has decided to approve. *)
OtherMarksUnchanged == \A o \in Order : "approved" \in told[o] => o \in asked
=============================================================================
