---------------------------- MODULE MCOrderSync ----------------------------
(***************************************************************************)
(* OrderSync for TLC.  All of it at once is more than a run can hold, so a *)
(* behaviour follows one of three scenarios: two paid orders that move     *)
(* between the pages of the ticker's sync; the ticker and SyncNow at the   *)
(* same time on one, without faults; and one order, unpaid at first, with  *)
(* the after-sale sync beside the ticker's, in either channel (nothing     *)
(* calls SyncForeignNow).                                                  *)
(***************************************************************************)
EXTENDS OrderSync

CONSTANT Ticker  \* the syncer that is the ticker

ASSUME TickerAssumption == Ticker \in Syncer

VARIABLE scenario

mcVars == <<vars, scenario>>

MCInit ==
  /\ Init
  /\ scenario \in {"pages", "overlap", "returns"}
  /\ scenario # "returns" => channel = "domestic"

Runs(s) == scenario = "overlap" \/ s = Ticker
Exists(o) == scenario = "pages" \/ o = 1

MCErpStep ==
  \/ Tick
  \/ \E o \in Order, k \in Kind :
       Exists(o) /\ (scenario = "returns" \/ k = "paid") /\ Modify(o, k)
  \/ /\ scenario = "returns"
     /\ \E o \in Order : /\ Exists(o)
                        /\ \/ \E b \in {"return", "other"} : FileBill(o, b)
                           \/ ExpireBill(o)

MCSyncStep(s) == Runs(s) /\ SyncStep(s)

MCAfterSaleStep == scenario = "returns" /\ AfterSaleStep

MCNext ==
  /\ \/ MCErpStep
     \/ \E s \in Syncer : MCSyncStep(s) \/ FetchFault(s)
     \/ MCAfterSaleStep
     \/ Restart
  /\ scenario = "overlap" => UNCHANGED faults
  /\ UNCHANGED scenario

(* The fairness of OrderSync, for the steps the scenario has. *)
MCFairness ==
  /\ WF_mcVars(Tick /\ UNCHANGED scenario)
  /\ \A s \in Syncer : WF_mcVars(MCSyncStep(s) /\ UNCHANGED scenario)
  /\ WF_mcVars(MCAfterSaleStep /\ UNCHANGED scenario)

MCSpec == MCInit /\ [][MCNext]_mcVars

MCFairSpec == MCSpec /\ MCFairness
=============================================================================
