---------------------------- MODULE ReviewProofs ----------------------------
(***************************************************************************)
(* Review keeps IndInv, for any orders, prices, batches and faults, and    *)
(* charged orders keep their mark.  The steps fall into those that leave   *)
(* marks and the ERP alone, those that write marks, and the pushes.        *)
(***************************************************************************)
EXTENDS Review, TLAPS

USE ReviewAssumption

AutoState ==
  [pc : {"idle", "check", "short", "barcode", "push", "mark"},
   ok : SUBSET Order, short : SUBSET Order, barcode : SUBSET Order,
   batch : SUBSET Order]

RequestState ==
  [pc : {"idle", "check", "short", "domestic", "foreign", "mark"},
   approve : SUBSET Order, custom : SUBSET Order,
   ok : SUBSET Order, short : SUBSET Order]

RowsTyped ==
  /\ balance \in Nat
  /\ mark \in [Order -> Mark]
  /\ status \in [Order -> {"pending", "success", "insufficient", "error"}]

ErpTyped ==
  /\ told \in [Order -> SUBSET {"approved", "custom"}]
  /\ asked \in SUBSET Order /\ missed \in SUBSET Order

RestTyped ==
  /\ foreign \in SUBSET Order /\ sent \in SUBSET Order /\ priced \in SUBSET Order
  /\ triggered \in SUBSET Order /\ recovered \in SUBSET Order
  /\ faults \in 0 .. MaxFaults

LEMMA Typed ==
  TypeOK <=> RowsTyped /\ ErpTyped /\ RestTyped /\ auto \in AutoState /\ request \in RequestState
BY DEF TypeOK, RowsTyped, ErpTyped, RestTyped, AutoState, RequestState

LEMMA IdleTyped ==
  /\ IdleAuto \in AutoState /\ IdleAuto.pc = "idle"
  /\ IdleRequest \in RequestState /\ IdleRequest.pc = "idle"
BY DEF IdleAuto, IdleRequest, AutoState, RequestState

LEMMA InitIndInv == Init => IndInv
<1> SUFFICES ASSUME Init PROVE IndInv
  OBVIOUS
<1>1. RowsTyped /\ ErpTyped /\ RestTyped
  BY DEF Init, RowsTyped, ErpTyped, RestTyped, Mark
<1>2. TypeOK
  BY <1>1, IdleTyped, Typed DEF Init
<1>3. ApprovedIsTold
  BY DEF Init, ApprovedIsTold
<1>4. BatchTold /\ RequestTold
  BY IdleTyped DEF Init, BatchTold, RequestTold
<1>5. QED
  BY <1>2, <1>3, <1>4 DEF IndInv

LEMMA FaultTyped ==
  ASSUME TypeOK, Fault \/ UNCHANGED faults
  PROVE  faults' \in 0 .. MaxFaults
BY DEF TypeOK, Fault

-----------------------------------------------------------------------------
(* The guarded updates, each for orders of the account. *)

LEMMA FailedMarks ==
  ASSUME TypeOK, NEW S \in SUBSET Order, BatchSetMarkDeductFailed(S)
  PROVE  /\ mark' \in [Order -> Mark]
         /\ status' \in [Order -> {"pending", "success", "insufficient", "error"}]
         /\ \A o \in Order : mark'[o] = "approved" => mark[o] = "approved"
         /\ \A o \in Order : status[o] = "success" =>
              status'[o] = "success" /\ mark'[o] = mark[o]
BY DEF TypeOK, BatchSetMarkDeductFailed, Uncharged, Mark

LEMMA BarcodeMarks ==
  ASSUME TypeOK, NEW S \in SUBSET Order, BatchSetMarkBarcodeError(S)
  PROVE  /\ mark' \in [Order -> Mark]
         /\ \A o \in Order : mark'[o] = "approved" => mark[o] = "approved"
         /\ \A o \in Order : status[o] = "success" => mark'[o] = mark[o]
BY DEF TypeOK, BatchSetMarkBarcodeError, Uncharged, Mark

LEMMA ApprovedMarks ==
  ASSUME TypeOK, NEW S \in SUBSET Order, BatchMarkApproved(S)
  PROVE  /\ mark' \in [Order -> Mark]
         /\ \A o \in Order : mark'[o] = "approved" => mark[o] = "approved" \/ o \in S
         /\ \A o \in Order : mark'[o] \in {mark[o], "approved"}
BY DEF TypeOK, BatchMarkApproved, Mark

LEMMA TellMore ==
  ASSUME TypeOK, NEW S \in SUBSET Order, NEW name \in {"approved", "custom"}
  PROVE  /\ Tell(S, name) \in [Order -> SUBSET {"approved", "custom"}]
         /\ \A o \in Order : told[o] \subseteq Tell(S, name)[o]
         /\ \A o \in S : name \in Tell(S, name)[o]
BY DEF TypeOK, Tell

-----------------------------------------------------------------------------
(* Steps that keep what IndInv says of the ERP *)

(* The ERP is not told less. *)
ToldGrows == \A o \in Order : told[o] \subseteq told'[o]

(* Orders get the mark "approved" once the ERP was told, or are missed. *)
MarksBacked ==
  \A o \in Order : mark'[o] = "approved" =>
    mark[o] = "approved" \/ "approved" \in told'[o] \/ o \in missed'

(* An order is missed no more once the ERP was told. *)
MissedBacked == \A o \in missed : o \in missed' \/ "approved" \in told'[o]

LEMMA ApprovedStep ==
  ASSUME IndInv, ToldGrows, MarksBacked, MissedBacked
  PROVE  ApprovedIsTold'
BY DEF IndInv, TypeOK, ApprovedIsTold, ToldGrows, MarksBacked, MissedBacked

LEMMA BatchStep ==
  ASSUME IndInv, ToldGrows, auto' = auto \/ auto'.pc # "mark"
  PROVE  BatchTold'
BY DEF IndInv, TypeOK, BatchTold, ToldGrows

LEMMA RequestUnmoved ==
  ASSUME IndInv, ToldGrows, request' = request \/ request'.pc # "foreign"
  PROVE  RequestTold'
BY DEF IndInv, TypeOK, RequestTold, ToldGrows

(* A step that keeps marks and the ERP, and moves no goroutine to where it
   relies on an answer. *)
LEMMA QuietStep ==
  ASSUME IndInv, TypeOK',
         \A o \in Order : mark'[o] = "approved" => mark[o] = "approved",
         UNCHANGED <<told, missed>>,
         auto' = auto \/ auto'.pc # "mark",
         request' = request \/ request'.pc # "foreign"
  PROVE  IndInv'
<1>1. ToldGrows /\ MarksBacked /\ MissedBacked
  BY DEF ToldGrows, MarksBacked, MissedBacked
<1>2. QED
  BY <1>1, ApprovedStep, BatchStep, RequestUnmoved DEF IndInv

-----------------------------------------------------------------------------
(* Environment and deductions *)

LEMMA EnvironmentStep ==
  ASSUME IndInv, Recharge \/ \E o \in Order : SetPrice(o) \/ LeaveSent(o)
  PROVE  IndInv'
<1>1. TypeOK'
  BY DEF IndInv, TypeOK, Recharge, SetPrice, LeaveSent, envVars, rowVars, erpVars
<1>2. UNCHANGED <<mark, told, missed, auto, request>>
  BY DEF Recharge, SetPrice, LeaveSent, envVars, rowVars, erpVars
<1>3. QED
  BY <1>1, <1>2, QuietStep

LEMMA RestartStep == ASSUME IndInv, Restart PROVE IndInv'
<1>1. /\ UNCHANGED <<mark, told, missed>>
      /\ auto' = IdleAuto /\ request' = IdleRequest
  BY DEF Restart, rowVars, erpVars
<1>2. RowsTyped' /\ ErpTyped' /\ RestTyped'
  BY FaultTyped
  DEF IndInv, TypeOK, Restart, envVars, rowVars, erpVars, RowsTyped, ErpTyped, RestTyped
<1>3. TypeOK'
  BY <1>1, <1>2, IdleTyped DEF TypeOK, RowsTyped, ErpTyped, RestTyped, AutoState, RequestState
<1>4. QED
  BY <1>1, <1>3, IdleTyped, QuietStep

LEMMA DeductionStep ==
  ASSUME IndInv, NEW o \in Order, ProcessDeduction(o)
  PROVE  IndInv'
<1>1. /\ UNCHANGED <<envVars, told, auto, request, faults>>
      /\ triggered' \in SUBSET Order
      /\ TypeOK
  BY DEF IndInv, TypeOK, ProcessDeduction
<1>2. CASE UNCHANGED <<rowVars, recovered, asked, missed>>
  <2>1. TypeOK'
    BY <1>1, <1>2 DEF TypeOK, envVars, rowVars
  <2>2. QED
    BY <1>1, <1>2, <2>1, QuietStep DEF rowVars
<1>3. CASE /\ status' = [status EXCEPT ![o] = "error"]
           /\ UNCHANGED <<mark, balance, recovered, asked, missed>>
  <2>1. TypeOK'
    BY <1>1, <1>3 DEF TypeOK, envVars
  <2>2. QED
    BY <1>1, <1>3, <2>1, QuietStep
<1>4. CASE BatchSetMarkDeductFailed({o}) /\ UNCHANGED <<balance, recovered, asked, missed>>
  <2>1. TypeOK'
    BY <1>1, <1>4, FailedMarks DEF TypeOK, envVars
  <2>2. QED
    BY <1>1, <1>4, <2>1, FailedMarks, QuietStep
<1>5. CASE /\ Covered
           /\ balance' = balance - Cost
           /\ status' = [status EXCEPT ![o] = "success"]
           /\ BatchMarkApproved({o})
           /\ recovered' = recovered \cup {o}
           /\ asked' = asked \cup {o}
           /\ missed' = missed \cup {o}
  <2>1. balance' \in Nat
    BY <1>1, <1>5, ReviewAssumption DEF TypeOK, Covered
  <2>2. TypeOK'
    BY <1>1, <1>5, <2>1, ApprovedMarks DEF TypeOK, envVars
  <2>3. ToldGrows /\ MarksBacked /\ MissedBacked
    BY <1>1, <1>5, ApprovedMarks DEF ToldGrows, MarksBacked, MissedBacked
  <2>4. QED
    BY <1>1, <2>2, <2>3, ApprovedStep, BatchStep, RequestUnmoved DEF IndInv
<1>6. CASE /\ Covered
           /\ balance' = balance - Cost
           /\ status' = [status EXCEPT ![o] = "success"]
           /\ UNCHANGED <<mark, recovered, asked, missed>>
  <2>1. balance' \in Nat
    BY <1>1, <1>6, ReviewAssumption DEF TypeOK, Covered
  <2>2. TypeOK'
    BY <1>1, <1>6, <2>1 DEF TypeOK, envVars
  <2>3. QED
    BY <1>1, <1>6, <2>2, QuietStep
<1>7. QED
  BY <1>2, <1>3, <1>4, <1>5, <1>6 DEF ProcessDeduction

LEMMA HookStep ==
  ASSUME IndInv, NEW o \in Order, SmartMarkPush(o)
  PROVE  IndInv'
<1>1. /\ UNCHANGED <<envVars, rowVars, asked, triggered, auto, request>>
      /\ recovered' \in SUBSET Order /\ faults' \in 0 .. MaxFaults
      /\ TypeOK
  BY FaultTyped DEF IndInv, TypeOK, SmartMarkPush
<1>2. CASE told' = Tell({o}, "approved") /\ missed' = missed \ {o}
  <2>1. TypeOK'
    BY <1>1, <1>2, TellMore DEF TypeOK, envVars, rowVars
  <2>2. ToldGrows /\ MarksBacked /\ MissedBacked
    BY <1>1, <1>2, TellMore DEF ToldGrows, MarksBacked, MissedBacked, rowVars
  <2>3. QED
    BY <1>1, <2>1, <2>2, ApprovedStep, BatchStep, RequestUnmoved DEF IndInv
<1>3. CASE UNCHANGED <<told, missed>>
  <2>1. TypeOK'
    BY <1>1, <1>3 DEF TypeOK, envVars, rowVars
  <2>2. QED
    BY <1>1, <1>3, <2>1, QuietStep DEF rowVars
<1>4. QED
  BY <1>2, <1>3 DEF SmartMarkPush

-----------------------------------------------------------------------------
(* Auto-review *)

LEMMA AutoChecks ==
  ASSUME IndInv, StartAutoReview \/ BatchCheckAutoReviewEligible \/ AutoEnd
  PROVE  IndInv'
<1>1. /\ UNCHANGED <<envVars, rowVars, told, missed, triggered, recovered, request>>
      /\ faults' \in 0 .. MaxFaults
      /\ TypeOK
  BY FaultTyped
  DEF IndInv, StartAutoReview, BatchCheckAutoReviewEligible, AutoEnd, TypeOK, erpVars
<1>2. asked' \in SUBSET Order
  BY DEF IndInv, TypeOK, StartAutoReview, BatchCheckAutoReviewEligible, AutoEnd, erpVars, Having
<1>3. auto' \in AutoState /\ auto'.pc # "mark"
  <2>1. CASE StartAutoReview
    BY <2>1, <1>1 DEF TypeOK, StartAutoReview, Candidates, IdleAuto, AutoState
  <2>2. CASE BatchCheckAutoReviewEligible
    <3>1. \A verdict \in Verdict : Having(verdict, auto.ok) \in SUBSET Order
      BY <1>1 DEF TypeOK, Having
    <3>2. PICK ok, short, barcode \in SUBSET Order :
            \/ auto' = [auto EXCEPT !.pc = "short", !.ok = ok, !.short = short,
                                    !.barcode = barcode]
            \/ auto' = [auto EXCEPT !.pc = "short", !.ok = ok, !.short = short]
            \/ auto' = IdleAuto
      <4>1. auto.ok \in SUBSET Order /\ {} \in SUBSET Order
        BY <1>1 DEF TypeOK
      <4>2. CASE auto' = [auto EXCEPT !.pc = "short", !.ok = Having("ok", @),
                                      !.short = Having("insufficient", auto.ok),
                                      !.barcode = Having("barcode", auto.ok)]
        BY <3>1, <4>2 DEF Verdict
      <4>3. CASE \E less \in {auto.ok, auto.ok \cap priced} :
                   auto' = [auto EXCEPT !.pc = "short", !.ok = {}, !.short = less,
                                        !.barcode = auto.ok \ less]
        <5>1. PICK less \in {auto.ok, auto.ok \cap priced} :
                auto' = [auto EXCEPT !.pc = "short", !.ok = {}, !.short = less,
                                     !.barcode = auto.ok \ less]
          BY <4>3
        <5>2. less \in SUBSET Order /\ auto.ok \ less \in SUBSET Order
          BY <4>1
        <5>3. QED
          BY <4>1, <5>1, <5>2
      <4>4. CASE auto' = IdleAuto
        BY <4>1, <4>4
      <4>5. QED
        BY <2>2, <4>2, <4>3, <4>4 DEF BatchCheckAutoReviewEligible
    <3>3. auto \in AutoState
      BY <1>1 DEF TypeOK, AutoState
    <3>4. [auto EXCEPT !.pc = "short", !.ok = ok, !.short = short, !.barcode = barcode]
            \in AutoState
      BY <3>3 DEF AutoState
    <3>5. [auto EXCEPT !.pc = "short", !.ok = ok, !.short = short] \in AutoState
      BY <3>3 DEF AutoState
    <3>6. auto' \in AutoState
      BY <3>2, <3>4, <3>5, IdleTyped
    <3>7. auto'.pc \in {"short", "idle"}
      BY <3>2, <3>3, IdleTyped DEF AutoState
    <3>8. QED
      BY <3>6, <3>7
  <2>3. CASE AutoEnd
    BY <2>3, IdleTyped DEF AutoEnd
  <2>4. QED
    BY <2>1, <2>2, <2>3
<1>4. TypeOK'
  BY <1>1, <1>2, <1>3 DEF TypeOK, AutoState, envVars, rowVars
<1>5. QED
  BY <1>1, <1>3, <1>4, QuietStep DEF rowVars

LEMMA AutoMarks ==
  ASSUME IndInv, AutoMarkShort \/ AutoMarkBarcodeError
  PROVE  IndInv'
<1>1. /\ UNCHANGED <<envVars, balance, erpVars, triggered, recovered, request>>
      /\ faults' \in 0 .. MaxFaults
      /\ TypeOK
      /\ auto.short \in SUBSET Order /\ auto.barcode \in SUBSET Order
  BY FaultTyped DEF IndInv, AutoMarkShort, AutoMarkBarcodeError, TypeOK
<1>2. auto' \in AutoState /\ auto'.pc # "mark"
  BY <1>1 DEF TypeOK, AutoMarkShort, AutoMarkBarcodeError, AutoState
<1>3. /\ mark' \in [Order -> Mark]
      /\ status' \in [Order -> {"pending", "success", "insufficient", "error"}]
      /\ \A o \in Order : mark'[o] = "approved" => mark[o] = "approved"
  <2>1. CASE AutoMarkShort
    BY <2>1, <1>1, FailedMarks DEF AutoMarkShort, TypeOK
  <2>2. CASE AutoMarkBarcodeError
    BY <2>2, <1>1, BarcodeMarks DEF AutoMarkBarcodeError, TypeOK
  <2>3. QED
    BY <2>1, <2>2
<1>4. TypeOK'
  BY <1>1, <1>2, <1>3 DEF TypeOK, AutoState, envVars, erpVars
<1>5. QED
  BY <1>1, <1>2, <1>3, <1>4, QuietStep DEF erpVars

LEMMA AutoPushStep ==
  ASSUME IndInv, NEW batch \in NextBatches, AutoPush(batch)
  PROVE  IndInv'
<1>1. /\ UNCHANGED <<envVars, rowVars, asked, missed, triggered, recovered, request>>
      /\ faults' \in 0 .. MaxFaults
      /\ TypeOK
  BY FaultTyped DEF IndInv, AutoPush, TypeOK
<1>2. batch \in SUBSET Order
  BY <1>1 DEF NextBatches, kSubset, TypeOK
<1>3. told' \in {told, Tell(batch, "approved")}
  BY DEF AutoPush
<1>4. auto' \in AutoState
  <2>1. auto \in AutoState /\ auto.ok \ batch \in SUBSET Order
    BY <1>1 DEF TypeOK, AutoState
  <2>2. [auto EXCEPT !.pc = "mark", !.ok = @ \ batch, !.batch = batch] \in AutoState
    BY <2>1, <1>2 DEF AutoState
  <2>3. [auto EXCEPT !.ok = @ \ batch] \in AutoState
    BY <2>1 DEF AutoState
  <2>4. QED
    BY <2>2, <2>3 DEF AutoPush
<1>5. told' \in [Order -> SUBSET {"approved", "custom"}] /\ ToldGrows
  BY <1>1, <1>2, <1>3, TellMore DEF TypeOK, ToldGrows
<1>6. TypeOK'
  BY <1>1, <1>4, <1>5 DEF TypeOK, AutoState, envVars, rowVars
<1>7. MarksBacked /\ MissedBacked
  BY <1>1 DEF MarksBacked, MissedBacked, rowVars
<1>8. BatchTold'
  <2>1. CASE /\ told' = Tell(batch, "approved")
             /\ auto' = [auto EXCEPT !.pc = "mark", !.ok = @ \ batch, !.batch = batch]
    BY <2>1, <1>1, <1>2, TellMore DEF BatchTold, TypeOK
  <2>2. CASE auto' = [auto EXCEPT !.ok = @ \ batch]
    BY <2>2, <1>1 DEF BatchTold, TypeOK, AutoPush
  <2>3. QED
    BY <2>1, <2>2 DEF AutoPush
<1>9. QED
  BY <1>1, <1>5, <1>6, <1>7, <1>8, ApprovedStep, RequestUnmoved DEF IndInv

LEMMA AutoApproveStep == ASSUME IndInv, AutoMarkApproved PROVE IndInv'
<1>1. /\ UNCHANGED <<envVars, status, balance, erpVars, recovered, request>>
      /\ faults' \in 0 .. MaxFaults
      /\ TypeOK
      /\ auto.batch \in SUBSET Order
  BY FaultTyped DEF IndInv, AutoMarkApproved, TypeOK
<1>2. auto' \in AutoState /\ auto'.pc # "mark" /\ triggered' \in SUBSET Order
  BY <1>1 DEF AutoMarkApproved, TypeOK, AutoState
<1>3. BatchMarkApproved(auto.batch) \/ mark' = mark
  BY DEF AutoMarkApproved
<1>4. mark' \in [Order -> Mark]
  BY <1>1, <1>3, ApprovedMarks DEF TypeOK
<1>5. TypeOK'
  BY <1>1, <1>2, <1>4 DEF TypeOK, AutoState, envVars, erpVars
<1>6. \A o \in auto.batch : "approved" \in told[o]
  BY DEF IndInv, BatchTold, AutoMarkApproved
<1>7. ToldGrows /\ MarksBacked /\ MissedBacked
  BY <1>1, <1>3, <1>6, ApprovedMarks DEF ToldGrows, MarksBacked, MissedBacked, erpVars
<1>8. QED
  BY <1>1, <1>2, <1>5, <1>7, ApprovedStep, BatchStep, RequestUnmoved DEF IndInv

-----------------------------------------------------------------------------
(* Mark requests *)

LEMMA RequestChecks ==
  ASSUME IndInv,
         \/ \E approve, custom \in SUBSET Order : MarkRequest(approve, custom)
         \/ \E o \in Order : CheckAutoReviewEligible(o)
  PROVE  IndInv'
<1>1. /\ UNCHANGED <<envVars, rowVars, told, missed, triggered, recovered, auto>>
      /\ faults' \in 0 .. MaxFaults
      /\ TypeOK
  BY FaultTyped DEF IndInv, MarkRequest, CheckAutoReviewEligible, erpVars, TypeOK
<1>2. asked' \in SUBSET Order /\ request' \in RequestState /\ request'.pc # "foreign"
  <2>1. CASE \E approve, custom \in SUBSET Order : MarkRequest(approve, custom)
    <3>1. PICK approve, custom \in SUBSET Order :
            request' = [IdleRequest EXCEPT !.pc = "check", !.approve = approve,
                                           !.custom = custom]
      BY <2>1 DEF MarkRequest
    <3>2. request' \in RequestState /\ request'.pc = "check"
      BY <3>1 DEF RequestState, IdleRequest
    <3>3. asked' \in SUBSET Order
      BY <2>1, <1>1 DEF MarkRequest, TypeOK, erpVars
    <3>4. QED
      BY <3>2, <3>3
  <2>2. CASE \E o \in Order : CheckAutoReviewEligible(o)
    <3>1. PICK o \in Order : CheckAutoReviewEligible(o)
      BY <2>2
    <3>2. \A verdict \in Verdict : Having(verdict, {o}) \in SUBSET Order
      BY DEF Having
    <3>3. PICK ok, short \in SUBSET Order :
            /\ \/ request' = [request EXCEPT !.approve = @ \ {o}, !.ok = @ \cup ok,
                                             !.short = @ \cup short]
               \/ request' = [request EXCEPT !.approve = @ \ {o}, !.short = @ \cup short]
            /\ asked' = asked \cup ok
      <4>1. CASE /\ request' = [request EXCEPT !.approve = @ \ {o},
                                   !.ok = @ \cup Having("ok", {o}),
                                   !.short = @ \cup Having("insufficient", {o})]
                 /\ asked' = asked \cup Having("ok", {o})
        BY <3>2, <4>1 DEF Verdict
      <4>2. CASE /\ \E less \in SUBSET {o} :
                      request' = [request EXCEPT !.approve = @ \ {o}, !.short = @ \cup less]
                 /\ asked' = asked
        <5>1. asked' = asked \cup {} /\ {} \in SUBSET Order
          BY <4>2
        <5>2. PICK less \in SUBSET {o} :
                request' = [request EXCEPT !.approve = @ \ {o}, !.short = @ \cup less]
          BY <4>2
        <5>3. less \in SUBSET Order
          BY <5>2
        <5>4. QED
          BY <5>1, <5>2, <5>3
      <4>3. QED
        BY <3>1, <4>1, <4>2 DEF CheckAutoReviewEligible
    <3>4. request \in RequestState /\ request.pc = "check" /\ asked \in SUBSET Order
      BY <3>1, <1>1 DEF TypeOK, RequestState, CheckAutoReviewEligible
    <3>5. /\ [request EXCEPT !.approve = @ \ {o}, !.ok = @ \cup ok, !.short = @ \cup short]
               \in RequestState
          /\ [request EXCEPT !.approve = @ \ {o}, !.short = @ \cup short] \in RequestState
      BY <3>4 DEF RequestState
    <3>6. request'.pc = "check"
      BY <3>3, <3>4 DEF RequestState
    <3>7. QED
      BY <3>3, <3>4, <3>5, <3>6
  <2>3. QED
    BY <2>1, <2>2
<1>3. TypeOK'
  BY <1>1, <1>2 DEF TypeOK, RequestState, envVars, rowVars
<1>4. QED
  BY <1>1, <1>2, <1>3, QuietStep DEF rowVars

LEMMA RequestShortStep == ASSUME IndInv, RequestMarkShort PROVE IndInv'
<1>1. /\ UNCHANGED <<envVars, balance, erpVars, triggered, recovered, auto>>
      /\ faults' \in 0 .. MaxFaults
      /\ TypeOK
      /\ request.short \in SUBSET Order
  BY FaultTyped DEF IndInv, RequestMarkShort, TypeOK
<1>2. request' \in RequestState /\ request'.pc # "foreign"
  BY <1>1 DEF RequestMarkShort, TypeOK, RequestState
<1>3. /\ mark' \in [Order -> Mark]
      /\ status' \in [Order -> {"pending", "success", "insufficient", "error"}]
      /\ \A o \in Order : mark'[o] = "approved" => mark[o] = "approved"
  BY <1>1, FailedMarks DEF RequestMarkShort, TypeOK
<1>4. TypeOK'
  BY <1>1, <1>2, <1>3 DEF TypeOK, RequestState, envVars, erpVars
<1>5. QED
  BY <1>1, <1>2, <1>3, <1>4, QuietStep DEF erpVars

LEMMA DomesticStep == ASSUME IndInv, BatchMarkOrders PROVE IndInv'
<1>1. /\ UNCHANGED <<envVars, rowVars, asked, missed, triggered, recovered, auto>>
      /\ faults' \in 0 .. MaxFaults
      /\ TypeOK
  BY FaultTyped DEF IndInv, BatchMarkOrders, TypeOK
<1>2. request \in RequestState
  BY <1>1 DEF TypeOK, RequestState
<1>3. PICK pushed :
        /\ pushed \in [Order -> SUBSET {"approved", "custom"}]
        /\ \A o \in Order : told[o] \subseteq pushed[o]
        /\ \A o \in request.ok \ foreign : "approved" \in pushed[o]
        /\ \/ /\ told' = pushed
              /\ request' = [request EXCEPT !.pc = "foreign", !.custom = @ \cap foreign,
                                            !.approve = request.ok \cap foreign]
           \/ told' \in {told, pushed} /\ request' = IdleRequest
  <2> DEFINE pushed ==
        [o \in Order |-> told[o]
           \cup (IF o \in request.ok \ foreign THEN {"approved"} ELSE {})
           \cup (IF o \in request.custom \ foreign THEN {"custom"} ELSE {})]
  <2>1. pushed \in [Order -> SUBSET {"approved", "custom"}]
    BY <1>1 DEF TypeOK
  <2>2. \A o \in Order : told[o] \subseteq pushed[o]
    OBVIOUS
  <2>3. \A o \in request.ok \ foreign : "approved" \in pushed[o]
    BY <1>2 DEF RequestState
  <2>4. \/ /\ told' = pushed
           /\ request' = [request EXCEPT !.pc = "foreign", !.custom = @ \cap foreign,
                                         !.approve = request.ok \cap foreign]
        \/ told' \in {told, pushed} /\ request' = IdleRequest
    BY DEF BatchMarkOrders
  <2> HIDE DEF pushed
  <2>5. QED
    BY <2>1, <2>2, <2>3, <2>4
<1>4. told' \in [Order -> SUBSET {"approved", "custom"}] /\ ToldGrows
  BY <1>1, <1>3 DEF TypeOK, ToldGrows
<1>5. request' \in RequestState
  <2>1. [request EXCEPT !.pc = "foreign", !.custom = @ \cap foreign,
                        !.approve = request.ok \cap foreign] \in RequestState
    BY <1>2 DEF RequestState
  <2>2. QED
    BY <2>1, <1>3, IdleTyped
<1>6. TypeOK'
  BY <1>1, <1>4, <1>5 DEF TypeOK, RequestState, envVars, rowVars
<1>7. MarksBacked /\ MissedBacked
  BY <1>1 DEF MarksBacked, MissedBacked, rowVars
<1>8. RequestTold'
  BY <1>2, <1>3, IdleTyped DEF RequestTold, RequestState
<1>9. QED
  BY <1>1, <1>4, <1>6, <1>7, <1>8, ApprovedStep, BatchStep DEF IndInv

LEMMA ForeignStep ==
  ASSUME IndInv, NEW o \in Order, PushForeignRemarkApproved(o)
  PROVE  IndInv'
<1>1. /\ UNCHANGED <<envVars, rowVars, asked, missed, triggered, recovered, auto>>
      /\ faults' \in 0 .. MaxFaults
      /\ TypeOK
  BY FaultTyped DEF IndInv, PushForeignRemarkApproved, TypeOK
<1>2. request \in RequestState /\ request.pc = "foreign"
  BY <1>1 DEF TypeOK, RequestState, PushForeignRemarkApproved
<1>3. \/ /\ told' = Tell({o}, "approved")
         /\ request' = [request EXCEPT !.approve = @ \ {o}, !.custom = @ \ {o}]
      \/ /\ told' \in {told, Tell({o}, "approved")}
         /\ request' = [request EXCEPT !.approve = @ \ {o}, !.custom = @ \ {o},
                                       !.ok = @ \ {o}]
  BY DEF PushForeignRemarkApproved
<1>4. told' \in [Order -> SUBSET {"approved", "custom"}] /\ ToldGrows
  BY <1>1, <1>3, TellMore DEF TypeOK, ToldGrows
<1>5. request' \in RequestState
  <2>1. [request EXCEPT !.approve = @ \ {o}, !.custom = @ \ {o}] \in RequestState
    BY <1>2 DEF RequestState
  <2>2. [request EXCEPT !.approve = @ \ {o}, !.custom = @ \ {o}, !.ok = @ \ {o}]
          \in RequestState
    BY <1>2 DEF RequestState
  <2>3. QED
    BY <2>1, <2>2, <1>3
<1>6. TypeOK'
  BY <1>1, <1>4, <1>5 DEF TypeOK, RequestState, envVars, rowVars
<1>7. MarksBacked /\ MissedBacked
  BY <1>1 DEF MarksBacked, MissedBacked, rowVars
<1>8. RequestTold'
  <2>1. \A p \in request.ok \ request.approve : "approved" \in told'[p]
    BY <1>2, <1>4 DEF IndInv, RequestTold, ToldGrows, RequestState
  <2>2. told' = Tell({o}, "approved") => "approved" \in told'[o]
    BY <1>1, TellMore
  <2>3. \/ "approved" \in told'[o] /\ request'.ok = request.ok
        \/ request'.ok = request.ok \ {o}
    BY <1>2, <1>3, <2>2 DEF RequestState
  <2>4. request'.approve = request.approve \ {o}
    BY <1>2, <1>3 DEF RequestState
  <2>5. QED
    BY <2>1, <2>3, <2>4 DEF RequestTold
<1>9. QED
  BY <1>1, <1>4, <1>6, <1>7, <1>8, ApprovedStep, BatchStep DEF IndInv

LEMMA RequestApproveStep == ASSUME IndInv, RequestMarkApproved PROVE IndInv'
<1>1. /\ UNCHANGED <<envVars, status, balance, erpVars, recovered, auto>>
      /\ faults' \in 0 .. MaxFaults
      /\ TypeOK
      /\ request.ok \in SUBSET Order
      /\ request' = IdleRequest
  BY FaultTyped DEF IndInv, RequestMarkApproved, TypeOK
<1>2. BatchMarkApproved(request.ok) \/ mark' = mark
  BY DEF RequestMarkApproved
<1>3. mark' \in [Order -> Mark] /\ triggered' \in SUBSET Order
  BY <1>1, <1>2, ApprovedMarks DEF TypeOK, RequestMarkApproved
<1>4. TypeOK'
  BY <1>1, <1>3, IdleTyped DEF TypeOK, RequestState, envVars, erpVars
<1>5. \A o \in request.ok : "approved" \in told[o]
  BY DEF IndInv, RequestTold, RequestMarkApproved
<1>6. ToldGrows /\ MarksBacked /\ MissedBacked
  BY <1>1, <1>2, <1>5, ApprovedMarks DEF ToldGrows, MarksBacked, MissedBacked, erpVars
<1>7. QED
  BY <1>1, <1>4, <1>6, IdleTyped, ApprovedStep, BatchStep, RequestUnmoved DEF IndInv

-----------------------------------------------------------------------------
(* Theorems *)

LEMMA StutterStep == ASSUME IndInv, UNCHANGED vars PROVE IndInv'
<1>1. /\ UNCHANGED <<foreign, sent, priced, mark, status, balance>>
      /\ UNCHANGED <<told, asked, missed, triggered, recovered, auto, request, faults>>
  BY DEF vars, envVars, rowVars, erpVars
<1>2. QED
  BY <1>1 DEF IndInv, TypeOK, ApprovedIsTold, BatchTold, RequestTold

LEMMA NextIndInv == IndInv /\ [Next]_vars => IndInv'
<1> SUFFICES ASSUME IndInv, [Next]_vars PROVE IndInv'
  OBVIOUS
<1>1. CASE AutoStep
  BY <1>1, AutoChecks, AutoMarks, AutoPushStep, AutoApproveStep DEF AutoStep
<1>2. CASE RequestStep
  BY <1>2, RequestChecks, RequestShortStep, DomesticStep, ForeignStep, RequestApproveStep
  DEF RequestStep
<1>3. CASE \E o \in Order : ProcessDeduction(o) \/ SmartMarkPush(o)
  BY <1>3, DeductionStep, HookStep
<1>4. CASE UNCHANGED vars
  BY <1>4, StutterStep
<1>5. QED
  BY <1>1, <1>2, <1>3, <1>4, EnvironmentStep, RequestChecks, RestartStep DEF Next

(* The types hold, and what is approved here was told to the ERP, however
   auto-review, a request and the deductions interleave and whatever fails. *)
THEOREM Invariance == Spec => []IndInv
<1>1. QED
  BY InitIndInv, NextIndInv, PTL DEF Spec

(* The ERP was told of every approved order, but of those whose recovery could
   not be pushed. *)
THEOREM ApprovalCorrect == Spec => []ApprovedIsTold
<1>1. IndInv => ApprovedIsTold
  BY DEF IndInv
<1>2. QED
  BY <1>1, Invariance, PTL

-----------------------------------------------------------------------------
(* Charged orders.  Only the guarded updates write a mark other than approved,
   and only they and the deduction write a status. *)

ChargedKept ==
  \A o \in Order : status[o] = "success" =>
    status'[o] = "success" /\ mark'[o] \in {mark[o], "approved"}

LEMMA UnmarkedKept == ASSUME UNCHANGED <<mark, status>> PROVE ChargedKept
BY DEF ChargedKept

LEMMA FailedKept ==
  ASSUME TypeOK, NEW S \in SUBSET Order, BatchSetMarkDeductFailed(S)
  PROVE  ChargedKept
BY FailedMarks DEF ChargedKept

LEMMA ApprovedKept ==
  ASSUME TypeOK, NEW S \in SUBSET Order, BatchMarkApproved(S), UNCHANGED status
  PROVE  ChargedKept
BY ApprovedMarks DEF ChargedKept

LEMMA DeductionKeeps ==
  ASSUME TypeOK, NEW o \in Order, ProcessDeduction(o)
  PROVE  ChargedKept
<1>1. CASE status[o] = "success"
  BY <1>1, UnmarkedKept DEF ProcessDeduction, rowVars
<1>2. CASE status[o] # "success" /\ BatchSetMarkDeductFailed({o})
  BY <1>2, FailedKept
<1>3. CASE /\ status[o] # "success"
           /\ status' = [status EXCEPT ![o] = "error"] /\ mark' = mark
  BY <1>3 DEF ChargedKept, TypeOK
<1>4. CASE /\ status[o] # "success"
           /\ status' = [status EXCEPT ![o] = "success"]
           /\ BatchMarkApproved({o}) \/ mark' = mark
  BY <1>4, ApprovedMarks DEF ChargedKept, TypeOK
<1>5. QED
  BY <1>1, <1>2, <1>3, <1>4 DEF ProcessDeduction

LEMMA MarksKeep ==
  ASSUME TypeOK, AutoMarkShort \/ AutoMarkBarcodeError \/ RequestMarkShort
  PROVE  ChargedKept
<1>1. /\ auto.short \in SUBSET Order /\ auto.barcode \in SUBSET Order
      /\ request.short \in SUBSET Order
  BY DEF TypeOK
<1>2. CASE AutoMarkShort
  BY <1>1, <1>2, FailedKept, UnmarkedKept DEF AutoMarkShort
<1>3. CASE AutoMarkBarcodeError
  BY <1>1, <1>3, BarcodeMarks, UnmarkedKept DEF AutoMarkBarcodeError, ChargedKept
<1>4. CASE RequestMarkShort
  BY <1>1, <1>4, FailedKept, UnmarkedKept DEF RequestMarkShort
<1>5. QED
  BY <1>2, <1>3, <1>4

LEMMA ApprovalsKeep ==
  ASSUME TypeOK, AutoMarkApproved \/ RequestMarkApproved
  PROVE  ChargedKept
<1>1. auto.batch \in SUBSET Order /\ request.ok \in SUBSET Order
  BY DEF TypeOK
<1>2. QED
  BY <1>1, ApprovedKept, UnmarkedKept DEF AutoMarkApproved, RequestMarkApproved

LEMMA OthersKeep ==
  ASSUME \/ Recharge \/ Restart
         \/ \E o \in Order : SetPrice(o) \/ LeaveSent(o) \/ SmartMarkPush(o)
         \/ \E approve, custom \in SUBSET Order : MarkRequest(approve, custom)
         \/ StartAutoReview \/ BatchCheckAutoReviewEligible \/ AutoEnd
         \/ \E batch \in NextBatches : AutoPush(batch)
         \/ \E o \in Order : CheckAutoReviewEligible(o) \/ PushForeignRemarkApproved(o)
         \/ BatchMarkOrders
         \/ UNCHANGED vars
  PROVE  ChargedKept
<1>1. UNCHANGED <<mark, status>>
  BY DEF Recharge, Restart, SetPrice, LeaveSent, SmartMarkPush, MarkRequest, StartAutoReview,
         BatchCheckAutoReviewEligible, AutoEnd, AutoPush, CheckAutoReviewEligible,
         PushForeignRemarkApproved, BatchMarkOrders, vars, rowVars
<1>2. QED
  BY <1>1, UnmarkedKept

(* A charged order stays charged and keeps its mark, or gets the mark of an
   approved one: no late verdict can take that away. *)
THEOREM ChargedCorrect == Spec => ChargedKeepsMark
<1>1. IndInv /\ [Next]_vars => ChargedKept
  <2> SUFFICES ASSUME IndInv, [Next]_vars PROVE ChargedKept
    OBVIOUS
  <2>1. TypeOK
    BY DEF IndInv
  <2>2. QED
    BY <2>1, DeductionKeeps, MarksKeep, ApprovalsKeep, OthersKeep DEF Next, AutoStep, RequestStep
<1>2. IndInv /\ [Next]_vars =>
        [\A o \in Order : status[o] = "success" =>
           /\ status'[o] = "success"
           /\ mark'[o] \in {mark[o], "approved"}]_vars
  BY <1>1 DEF ChargedKept
<1>3. QED
  BY <1>2, Invariance, PTL DEF Spec, ChargedKeepsMark
=============================================================================
