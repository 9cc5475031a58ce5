----------------------------- MODULE MCRollback -----------------------------
(***************************************************************************)
(* Rollback for TLC.  All old books are followed for a few records; the    *)
(* one whose deductions could not be paid one after the other, the last    *)
(* being the smallest, is followed further, so that what it owes can be    *)
(* paid in and charged again.                                              *)
(***************************************************************************)
EXTENDS Rollback

CONSTANT
  FewRecords  \* bound: records ever written, where the behaviour is cut short

ASSUME FewAssumption == FewRecords \in OldOrders + 1 .. MaxRecord

Symmetry == Permutations(Tool) \cup Permutations(Batch)

LastIsSmallest == \A o \in 1 .. OldOrders - 1 : price[o] > price[OldOrders]

MCNext ==
  \/ (LastIsSmallest \/ lastId < FewRecords) /\ LiveStep
  \/ \E t \in Tool : ToolStep(t)

MCSpec == Init /\ [][MCNext]_vars
=============================================================================
