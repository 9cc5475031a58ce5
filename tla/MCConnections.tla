--------------------------- MODULE MCConnections ---------------------------
(***************************************************************************)
(* Connections for TLC: two deductions share a wallet with a refresh of    *)
(* its rate, or the pool with a warehouse scan that finds more orders than *)
(* its queue takes.                                                        *)
(***************************************************************************)
EXTENDS Connections, TLC

CONSTANTS w1, v1, d1, d2, f1, k1

MeetOf == [t \in {d1, d2, f1} |-> {w1}] @@ k1 :> {v1}

VARIABLE scenario

MCInit == Init /\ scenario \in {"refresh", "scan"}

MCNext ==
  /\ Next
  /\ IF scenario = "scan" THEN phase'[f1] = "idle" ELSE scan' = "idle"
  /\ UNCHANGED scenario

MCSpec == MCInit /\ [][MCNext]_<<vars, scenario>> /\ Fairness
=============================================================================
