---------------------------- MODULE MCWarehouse ----------------------------
(***************************************************************************)
(* Warehouse for TLC.  A behaviour follows one of two scenarios: shops of  *)
(* one employee, whose orders compete for one wallet, or one order whose   *)
(* shop changes hands between employees with and without a wallet.  The    *)
(* last specification leaves out shops that change hands, so that the      *)
(* bindings an order is parked by cannot be blamed on a late assignment.   *)
(***************************************************************************)
EXTENDS Warehouse

VARIABLE scenario

mcVars == <<vars, scenario>>

Only(S) == {CHOOSE x \in S : TRUE}
InPlay == IF scenario = "shops" THEN Only(Order) ELSE Order
Pool == IF scenario = "shops" THEN Only(Worker) ELSE Worker
Employee == IF scenario = "shops" THEN Account ELSE Only(Account)

\* The other orders of the second scenario are never sent; one goroutine of the
\* pool at a time can be at work on a single order.
MCInit ==
  /\ scenario \in {"orders", "shops"}
  /\ Init
  /\ \A o \in Order : owner[o] \in Only(Account)
  /\ scenario = "orders" => \A a \in Account : ~wallet[a].open
  /\ \A o \in Order \ InPlay : record[Deduction(o)] = NoRecord

MCNext ==
  /\ \/ \E r \in Recharge :
          \/ \E a \in Employee, n \in Deposit : SubmitRecharge(r, a, n)
          \/ ApproveRecharge(r) \/ RejectRecharge(r)
     \/ \E o \in InPlay :
          \/ \E shipped \in BOOLEAN, p \in [post : Postage, size : Size] : SyncOrder(o, shipped, p)
          \/ scenario = "shops" /\ \E a \in Account \cup {NoAccount} : AssignShop(o, a)
     \/ ScanStep \/ \E w \in Pool : DeductStep(w) \/ DeductFault(w)
     \/ Crash
  /\ UNCHANGED scenario

MCSpec == MCInit /\ [][MCNext]_mcVars /\ Fairness

BoundShopsNext ==
  \/ RechargeStep
  \/ \E o \in Order : SyncOrder(o, TRUE, parcel[o])
  \/ ScanStep \/ \E w \in Worker : DeductStep(w) \/ DeductFault(w)
  \/ Crash

BoundShopsSpec == Init /\ [][BoundShopsNext]_vars
=============================================================================
