------------------------------ MODULE MCReview ------------------------------
(***************************************************************************)
(* Review for TLC.  The constant Order has two orders; a behaviour follows *)
(* one of two scenarios: one order with everything that can happen to it,  *)
(* the reviewers' requests included, or two orders that the auto-review    *)
(* approves in batches and that compete for one wallet.                    *)
(***************************************************************************)
EXTENDS Review

CONSTANT First  \* the order of the first scenario

ASSUME FirstAssumption == First \in Order

VARIABLE scenario

mcVars == <<vars, scenario>>

InPlay == IF scenario = "request" THEN {First} ELSE Order

MCInit ==
  /\ Init
  /\ scenario \in {"request", "batch"}
  /\ scenario = "request" => priced \subseteq {First} /\ foreign \subseteq {First}
  /\ sent = InPlay
  /\ scenario = "batch" => priced = Order

MCRequestStep == scenario = "request" /\ RequestStep

MCNext ==
  /\ \/ Recharge
     \/ \E o \in InPlay : SetPrice(o) \/ LeaveSent(o)
     \/ \E approve, custom \in SUBSET InPlay : scenario = "request" /\ MarkRequest(approve, custom)
     \/ AutoStep
     \/ MCRequestStep
     \/ \E o \in InPlay : ProcessDeduction(o) \/ SmartMarkPush(o)
     \/ Restart
  /\ UNCHANGED scenario

MCSpec == MCInit /\ [][MCNext]_mcVars

(* The fairness of Review, for the steps the scenario has. *)
MCFairness ==
  /\ WF_mcVars(AutoStep /\ UNCHANGED scenario)
  /\ WF_mcVars(MCRequestStep /\ UNCHANGED scenario)
  /\ \A o \in Order :
       /\ WF_mcVars(o \in InPlay /\ ProcessDeduction(o) /\ UNCHANGED scenario)
       /\ WF_mcVars(o \in InPlay /\ SmartMarkPush(o) /\ UNCHANGED scenario)

MCFairSpec == MCSpec /\ MCFairness
=============================================================================
