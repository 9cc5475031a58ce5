------------------------------ MODULE MCCatalog ------------------------------
(***************************************************************************)
(* Catalog for TLC, from a table with products and its index.  A behaviour *)
(* is of one of three scenarios: creations that overlap, many changes and  *)
(* one rebuild, or few changes and many rebuilds.                          *)
(***************************************************************************)
EXTENDS Catalog, TLC

CONSTANTS
  Stock, \* the number of products at the start
  Few    \* what a scenario has few of: products at the start, changes, rebuilds

ASSUME StockAssumption == {Stock, Few} \subseteq 0 .. MaxProduct

VARIABLE scenario

mcVars == <<vars, scenario>>

MCInit ==
  /\ scenario \in {"creations", "changes", "rebuilds"}
  /\ drawn = IF scenario = "creations" THEN Few ELSE Stock
  /\ row = [p \in Product |-> IF p > drawn THEN Unborn ELSE CHOOSE s \in Supplier : TRUE]
  /\ doc = [p \in Product |-> Proper(p)]
  /\ exists = TRUE
  /\ worker = [w \in Worker |-> Idle]
  /\ reindex = [x \in Reindexer |-> Resting]
  /\ writes = 0 /\ rebuilds = 0 /\ faults = 0
  /\ lost = {}

MCNext ==
  /\ Next
  /\ scenario = "creations" => writes' = 0 /\ rebuilds' <= Few
  /\ scenario = "changes" => rebuilds' <= Few
  /\ scenario = "rebuilds" =>
       writes' <= Few /\ Cardinality({w \in Worker : worker'[w].pc # "idle"}) <= Few
  /\ UNCHANGED scenario

MCSpec == MCInit /\ [][MCNext]_mcVars /\ Fairness
=============================================================================
