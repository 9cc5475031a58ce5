------------------------- MODULE ConnectionsProofs -------------------------
(***************************************************************************)
(* For any wallets, goroutines, queue and size of the pool: row locks and  *)
(* transactions belong together (IndInv), so the deductions that wait for  *)
(* a second connection are one to a wallet, and a pool with more           *)
(* connections than those and the warehouse scan's is never taken up by    *)
(* them.  A smaller one can be, and is then until the server is restarted. *)
(***************************************************************************)
EXTENDS Connections, FiniteSetTheorems, TLAPS

USE ConnectionsAssumption

(* The phases of a deduction that sums recharges. *)
Rating == {"recharges", "summing", "discount"}

(* The phases, written out where their definitions are not needed. *)
LEMMA Phases ==
  /\ Inside \subseteq Borrowing
  /\ Asking \subseteq Phase /\ Borrowing \subseteq Phase /\ Inside \subseteq Phase
  /\ "idle" \in Phase
  /\ "idle" \notin Inside /\ "row" \notin Inside
  /\ {"prepare", "preparing", "begin", "row", "status", "writing"} \cap Inside = {}
  /\ Rating \subseteq Inside /\ "recharges" \in Rating
BY DEF Phase, Asking, Borrowing, Inside, Rating

(* Idle goroutines and free rows satisfy the invariant. *)
LEMMA InitIndInv == Init => IndInv
BY Phases DEF Init, IndInv, TypeOK, InsideLocks, LocksAreHeld, Rating

(* A goroutine that has no row lock, and moves without taking one; it may begin with
   another wallet. *)
LEMMA OutsideMove ==
  ASSUME IndInv, NEW t \in Task, phase[t] \notin Inside,
         NEW p \in Phase, p \notin Inside, Move(t, p),
         NEW w \in Of[t], on' = on \/ on' = [on EXCEPT ![t] = w],
         tries' \in [Worker -> 1 .. MaxAttempts],
         rows' \in 0 .. MaxOrders, jobs' \in 0 .. Buffer,
         UNCHANGED <<lock, rated, scan, limit>>
  PROVE  IndInv'
<1>1. /\ phase' \in [Task -> Phase] /\ phase'[t] = p
      /\ \A u \in Task \ {t} : phase'[u] = phase[u]
  BY DEF IndInv, TypeOK, Move
<1>2. /\ on' \in [Task -> Row] /\ \A u \in Task : on'[u] \in Of[u]
      /\ \A u \in Task \ {t} : on'[u] = on[u]
  <2>1. on \in [Task -> Row] /\ \A u \in Task : on[u] \in Of[u]
    BY DEF IndInv, TypeOK
  <2>2. w \in Row
    BY DEF Row
  <2>3. QED
    BY <2>1, <2>2
<1>3. TypeOK'
  BY <1>1, <1>2 DEF IndInv, TypeOK
<1>4. InsideLocks'
  BY <1>1, <1>2, Phases DEF IndInv, TypeOK, InsideLocks, Rating
<1>5. LocksAreHeld'
  BY <1>1, <1>2 DEF IndInv, TypeOK, LocksAreHeld
<1>6. QED
  BY <1>3, <1>4, <1>5 DEF IndInv

(* A goroutine that keeps its wallet. *)
LEMMA PlainMove ==
  ASSUME IndInv, NEW t \in Task, phase[t] \notin Inside,
         NEW p \in Phase, p \notin Inside, Move(t, p),
         UNCHANGED <<on, tries, lock, rated, scanning, limit>>
  PROVE  IndInv'
<1>1. PICK w : w \in Of[t]
  OBVIOUS
<1>2. /\ tries' \in [Worker -> 1 .. MaxAttempts]
      /\ rows' \in 0 .. MaxOrders /\ jobs' \in 0 .. Buffer /\ scan' = scan
  BY DEF IndInv, TypeOK, scanning
<1>3. QED
  BY <1>1, <1>2, OutsideMove

(* A goroutine that has its row lock, and keeps it. *)
LEMMA InsideMove ==
  ASSUME IndInv, NEW t \in Task, phase[t] \in Inside,
         NEW p \in Inside, p \in Rating => phase[t] \in Rating, Move(t, p),
         UNCHANGED <<on, tries, lock, rated, scanning, limit>>
  PROVE  IndInv'
<1>1. /\ phase' = [phase EXCEPT ![t] = p] /\ p \in Phase
      /\ UNCHANGED <<on, tries, lock, rated, scan, rows, jobs, limit>>
  BY Phases DEF Move, scanning
<1>2. TypeOK'
  BY <1>1 DEF IndInv, TypeOK
<1>3. InsideLocks' /\ LocksAreHeld'
  BY <1>1 DEF IndInv, TypeOK, InsideLocks, LocksAreHeld, Rating
<1>4. QED
  BY <1>2, <1>3 DEF IndInv

(* The row lock goes to one transaction, and only while it is free. *)
LEMMA LockRowIndInv == ASSUME IndInv, NEW t \in Task, LockRow(t) PROVE IndInv'
<1>1. PICK p : p = IF t \in Deduction /\ on[t] \notin rated THEN "recharges" ELSE "write"
  OBVIOUS
<1>2. p \in Inside /\ p \in Phase /\ (p \in Rating => t \in Deduction)
  BY <1>1 DEF Rating, Inside, Phase, Asking, Borrowing
<1>3. /\ on \in [Task -> Row] /\ lock \in [Row -> Task \cup {NoTask}]
      /\ phase \in [Task -> Phase]
  BY DEF IndInv, TypeOK
<1>4. /\ on[t] \in Row /\ lock[on[t]] = NoTask
      /\ phase[t] = "row"
      /\ lock' = [lock EXCEPT ![on[t]] = t]
      /\ phase' = [phase EXCEPT ![t] = p]
      /\ UNCHANGED <<on, tries, rated, scan, rows, jobs, limit>>
  BY <1>1, <1>3 DEF LockRow, Move, scanning
<1>5. TypeOK'
  BY <1>2, <1>4 DEF IndInv, TypeOK
<1>6. InsideLocks'
  <2> SUFFICES ASSUME NEW u \in Task
               PROVE  /\ phase'[u] \in Inside => lock'[on[u]] = u
                      /\ phase'[u] \in Rating => u \in Deduction
    BY <1>4 DEF InsideLocks, Rating
  <2>1. CASE u = t
    BY <2>1, <1>2, <1>3, <1>4
  <2>2. CASE u # t
    <3>1. phase'[u] = phase[u] /\ on[u] \in Row
      BY <2>2, <1>3, <1>4
    <3>2. /\ phase[u] \in Inside => lock[on[u]] = u
          /\ phase[u] \in Rating => u \in Deduction
      BY DEF IndInv, InsideLocks, Rating
    <3>3. phase[u] \in Inside => on[u] # on[t]
      BY <3>2, <1>4
    <3>4. QED
      BY <3>1, <3>2, <3>3, <1>3, <1>4
  <2>3. QED
    BY <2>1, <2>2
<1>7. LocksAreHeld'
  BY <1>2, <1>3, <1>4, Phases DEF IndInv, LocksAreHeld
<1>8. QED
  BY <1>5, <1>6, <1>7 DEF IndInv

(* The end of a transaction frees its row, and no other. *)
LEMMA EndIndInv == ASSUME IndInv, NEW t \in Task, End(t) \/ Retry(t) PROVE IndInv'
<1>1. PICK p \in {"idle", "status", "begin"} : Move(t, p)
  BY DEF End, Retry
<1>2. p \in Phase /\ p \notin Inside
  BY DEF Phase, Asking, Inside
<1>3. phase' = [phase EXCEPT ![t] = p] /\ UNCHANGED <<on, scan, rows, jobs, limit>>
  BY <1>1 DEF Move, End, Retry, scanning
<1>4. lock' = [w \in Row |-> IF lock[w] = t THEN NoTask ELSE lock[w]]
  BY DEF End, Retry, Unlock
<1>5. rated' \in SUBSET Wallet
  <2>1. rated \in SUBSET Wallet
    BY DEF IndInv, TypeOK
  <2>2. t \notin Worker => on[t] \in Wallet
    BY DEF IndInv, TypeOK
  <2>3. phase[t] = "discount" \/ t \in Refresh => t \notin Worker
    BY DEF IndInv, InsideLocks
  <2>4. QED
    BY <2>1, <2>2, <2>3 DEF End, Retry
<1>6. tries' \in [Worker -> 1 .. MaxAttempts]
  <2>1. tries \in [Worker -> 1 .. MaxAttempts] /\ MaxAttempts \in Nat
    BY DEF IndInv, TypeOK
  <2>2. CASE tries' = tries
    BY <2>1, <2>2
  <2>3. CASE t \in Worker /\ tries[t] > 1 /\ tries' = [tries EXCEPT ![t] = @ - 1]
    BY <2>1, <2>3
  <2>4. QED
    BY <2>2, <2>3 DEF End, Retry
<1>7. TypeOK'
  BY <1>2, <1>3, <1>4, <1>5, <1>6 DEF IndInv, TypeOK
<1>8. InsideLocks'
  BY <1>2, <1>3, <1>4, Phases DEF IndInv, TypeOK, InsideLocks, Rating
<1>9. LocksAreHeld'
  BY <1>2, <1>3, <1>4 DEF IndInv, TypeOK, LocksAreHeld
<1>10. QED
  BY <1>7, <1>8, <1>9 DEF IndInv

(* The scan touches no row. *)
LEMMA ScanIndInv == ASSUME IndInv, Scan PROVE IndInv'
<1>1. UNCHANGED <<phase, on, tries, lock, rated, limit>>
  BY DEF Scan, StartScan, OpenCursor, SendJob, CloseCursor, work
<1>2. /\ scan' \in {"idle", "ask", "open"}
      /\ rows' \in 0 .. MaxOrders /\ jobs' \in 0 .. Buffer
  <2>1. /\ scan \in {"idle", "ask", "open"}
        /\ rows \in 0 .. MaxOrders /\ jobs \in 0 .. Buffer
        /\ MaxOrders \in Nat /\ Buffer \in Nat
    BY DEF IndInv, TypeOK
  <2>2. QED
    BY <2>1 DEF Scan, StartScan, OpenCursor, SendJob, CloseCursor
<1>3. QED
  BY <1>1, <1>2 DEF IndInv, TypeOK, InsideLocks, LocksAreHeld

(* Every step keeps the invariant. *)
LEMMA NextIndInv == IndInv /\ [Next]_vars => IndInv'
<1> SUFFICES ASSUME IndInv, [Next]_vars PROVE IndInv'
  OBVIOUS
<1>1. ASSUME NEW t \in Task, Begins(t), UNCHANGED scan,
             tries' \in [Worker -> 1 .. MaxAttempts], rows' = rows, jobs' \in 0 .. Buffer
      PROVE  IndInv'
  <2>1. PICK w \in Of[t] : on' = [on EXCEPT ![t] = w]
    BY <1>1 DEF Begins
  <2>2. /\ "prepare" \in Phase /\ "prepare" \notin Inside /\ phase[t] \notin Inside
        /\ Move(t, "prepare") /\ UNCHANGED <<lock, rated, limit>>
    BY <1>1, Phases DEF Begins, Asking
  <2>3. rows' \in 0 .. MaxOrders
    BY <1>1 DEF IndInv, TypeOK
  <2>4. QED
    BY <2>1, <2>2, <2>3, <1>1, OutsideMove
<1>2. ASSUME NEW t \in Task, Start(t) PROVE IndInv'
  BY <1>1, <1>2 DEF Start, scanning, IndInv, TypeOK
<1>3. ASSUME NEW t \in Task, Served(t) PROVE IndInv'
  <2>1. CASE Prepare(t)
    BY <2>1, PlainMove, Phases DEF Prepare, Borrow, Borrowing
  <2>2. CASE Begin(t)
    BY <2>2, PlainMove, Phases DEF Begin, Borrow, Borrowing
  <2>3. CASE AskRecharges(t)
    BY <2>3, InsideMove DEF AskRecharges, Borrow, Inside, Rating
  <2>4. CASE WriteStatus(t)
    BY <2>4, PlainMove, Phases DEF WriteStatus, Borrow, Borrowing
  <2>5. QED
    BY <1>3, <2>1, <2>2, <2>3, <2>4 DEF Served
<1>4. ASSUME NEW t \in Task, Own(t) PROVE IndInv'
  <2>1. CASE TakeJob(t)
    <3>1. /\ tries \in [Worker -> 1 .. MaxAttempts] /\ MaxAttempts \in Nat \ {0}
          /\ jobs \in 0 .. Buffer /\ Buffer \in Nat
      BY DEF IndInv, TypeOK
    <3>2. tries' \in [Worker -> 1 .. MaxAttempts] /\ jobs' \in 0 .. Buffer
      BY <2>1, <3>1 DEF TakeJob
    <3>3. QED
      BY <2>1, <3>2, <1>1 DEF TakeJob
  <2>2. CASE Prepared(t)
    <3>1. PICK p \in {"idle", "begin", "status"} : Move(t, p)
      BY <2>2 DEF Prepared
    <3>2. p \in Phase /\ p \notin Inside /\ phase[t] \notin Inside
      BY <2>2, Phases DEF Prepared, Asking
    <3>3. QED
      BY <2>2, <3>1, <3>2, PlainMove DEF Prepared
  <2>3. CASE LockRow(t)
    BY <2>3, LockRowIndInv
  <2>4. CASE LockFails(t)
    BY <2>4, PlainMove, Phases DEF LockFails
  <2>5. CASE SumRecharges(t)
    <3>1. PICK p \in {"write", "discount"} : Move(t, p)
      BY <2>5 DEF SumRecharges
    <3>2. p \in Inside /\ phase[t] \in Inside /\ phase[t] \in Rating
      BY <2>5 DEF SumRecharges, Inside, Rating
    <3>3. QED
      BY <2>5, <3>1, <3>2, InsideMove DEF SumRecharges
  <2>6. CASE End(t) \/ Retry(t)
    BY <2>6, EndIndInv
  <2>7. CASE StatusWritten(t)
    BY <2>7, PlainMove, Phases DEF StatusWritten
  <2>8. QED
    BY <1>4, <2>1, <2>2, <2>3, <2>4, <2>5, <2>6, <2>7 DEF Own
<1>5. CASE Restart
  <2>1. TypeOK'
    BY <1>5, Phases DEF Restart, IndInv, TypeOK
  <2>2. QED
    BY <1>5, <2>1, Phases DEF Restart, IndInv, InsideLocks, LocksAreHeld, Rating
<1>6. CASE UNCHANGED vars
  BY <1>6 DEF vars, work, scanning, IndInv, TypeOK, InsideLocks, LocksAreHeld
<1>7. QED
  BY <1>2, <1>3, <1>4, <1>5, <1>6, ScanIndInv DEF Next

(* A row lock and the transaction that has it belong together, whatever order the     *)
(* goroutines of billing_service.go and warehouse_service.go come in.                 *)
THEOREM Invariance == Spec => []IndInv
<1>1. QED
  BY InitIndInv, NextIndInv, PTL DEF Spec

(* The deductions that wait for a second connection are no more than the wallets.     *)
LEMMA OneToAWallet ==
  ASSUME IndInv
  PROVE  Cardinality(WaitingInside) \in Nat /\ Cardinality(WaitingInside) <= Cardinality(Wallet)
<1> DEFINE f == [t \in WaitingInside |-> on[t]]
<1>1. /\ WaitingInside \subseteq Deduction
      /\ \A t \in WaitingInside : lock[on[t]] = t /\ on[t] \in Wallet
  <2>1. \A t \in WaitingInside : t \in Deduction /\ t \in Task /\ lock[on[t]] = t
    BY Phases DEF WaitingInside, IndInv, InsideLocks, Rating
  <2>2. \A t \in Deduction : Of[t] \subseteq Wallet /\ on[t] \in Of[t]
    BY DEF IndInv, TypeOK, Task
  <2>3. QED
    BY <2>1, <2>2
<1>2. f \in [WaitingInside -> Wallet]
  BY <1>1
<1>3. \A t, u \in WaitingInside : f[t] = f[u] => t = u
  BY <1>1
<1>4. f \in Injection(WaitingInside, Wallet)
  BY <1>2, <1>3 DEF Injection, IsInjective
<1>5. IsFiniteSet(WaitingInside) /\ Cardinality(WaitingInside) <= Cardinality(Wallet)
  BY <1>4, FS_Injection
<1>6. QED
  BY <1>5, FS_CardinalityType

(* With more connections than one for every wallet and one for the warehouse scan,    *)
(* those that keep one while they wait for another to be given back never have all of *)
(* them, however many goroutines there are.                                           *)
THEOREM PoolIsOpen == Spec => []NeverWedged
<1>1. IndInv => NeverWedged
  <2> SUFFICES ASSUME IndInv, Roomy PROVE ~Wedged
    BY DEF NeverWedged
  <2>1. Cardinality(Wallet) \in Nat
    BY FS_CardinalityType
  <2>2. limit \in Nat
    BY DEF IndInv, TypeOK
  <2>3. QED
    BY <2>1, <2>2, OneToAWallet DEF Wedged, Roomy
<1>2. QED
  BY Invariance, <1>1, PTL

(* The scan's connection counts as one when it waits. *)
Waiting == Cardinality(WaitingInside) + (IF ScanWaits THEN 1 ELSE 0)

(* The connections in use are finitely many, those of the waiting deductions and of   *)
(* the waiting scan among them.                                                       *)
LEMMA WaitersBorrow ==
  /\ IsFiniteSet(WaitingInside) /\ Cardinality(WaitingInside) \in Nat
  /\ InUse \in Nat /\ Waiting <= InUse
<1>1. IsFiniteSet(Borrowers) /\ IsFiniteSet(Doubling)
  BY FS_Subset DEF Borrowers, Doubling
<1>2. WaitingInside \subseteq Borrowers
  BY DEF WaitingInside, Borrowers, Borrowing
<1>3. IsFiniteSet(WaitingInside) /\ Cardinality(WaitingInside) <= Cardinality(Borrowers)
  BY <1>1, <1>2, FS_Subset
<1>4. /\ Cardinality(WaitingInside) \in Nat /\ Cardinality(Borrowers) \in Nat
      /\ Cardinality(Doubling) \in Nat
  BY <1>1, <1>3, FS_CardinalityType
<1>5. Cursor \in 0 .. 1 /\ (ScanWaits => Cursor = 1)
  BY DEF Cursor, ScanWaits
<1>6. QED
  BY <1>3, <1>4, <1>5 DEF InUse, Waiting

(* In a pool that is taken up so nobody is served, those who wait inside stay there,
   and a scan that waits goes on waiting: its workers are not served either. *)
LEMMA WaitersStay ==
  ASSUME IndInv, Wedged, Next, ~Restart
  PROVE  WaitingInside \subseteq WaitingInside' /\ (ScanWaits => ScanWaits') /\ limit' = limit
<1>1. ~(InUse < limit)
  <2>1. limit \in Nat
    BY DEF IndInv, TypeOK
  <2>2. Waiting >= limit
    BY DEF Wedged, Waiting
  <2>3. Waiting \in Nat
    BY WaitersBorrow DEF Waiting
  <2>4. QED
    BY <2>1, <2>2, <2>3, WaitersBorrow
<1>2. CASE \E t \in Task : Start(t) \/ Own(t)
  <2>1. PICK t \in Task : Start(t) \/ Own(t)
    BY <1>2
  <2>2. phase[t] \notin Asking \/ (Start(t) /\ t \notin Worker)
    BY <2>1 DEF Start, Own, TakeJob, Begins, Prepared, LockRow, LockFails, SumRecharges, End, Retry,
                StatusWritten, Asking
  <2>3. phase[t] # "recharges"
    BY <2>1 DEF Start, Own, TakeJob, Begins, Prepared, LockRow, LockFails, SumRecharges, End, Retry,
                StatusWritten
  <2>4. PICK p : phase' = [phase EXCEPT ![t] = p]
    BY <2>1 DEF Start, Own, TakeJob, Begins, Prepared, LockRow, LockFails, SumRecharges, End, Retry,
                StatusWritten, Move
  <2>5. limit' = limit /\ scan' = scan /\ rows' = rows
    BY <2>1 DEF Start, Own, TakeJob, Begins, Prepared, LockRow, LockFails, SumRecharges, End, Retry,
                StatusWritten, scanning
  <2>6. phase \in [Task -> Phase]
    BY DEF IndInv, TypeOK
  <2>7. WaitingInside \subseteq WaitingInside'
    BY <2>3, <2>4, <2>6 DEF WaitingInside
  <2>8. ASSUME ScanWaits PROVE ScanWaits'
    <3>1. t \notin Worker
      <4>1. ASSUME t \in Worker PROVE FALSE
        <5>1. phase[t] \in Asking /\ ~Start(t)
          BY <4>1, <2>8 DEF ScanWaits, Start
        <5>2. QED
          BY <5>1, <2>2
      <4>2. QED
        BY <4>1
    <3>2. jobs' = jobs
      BY <2>1, <3>1 DEF Start, Own, TakeJob, Prepared, LockRow, LockFails, SumRecharges, End, Retry,
                        StatusWritten, scanning
    <3>3. \A u \in Worker : phase'[u] = phase[u]
      BY <3>1, <2>4, <2>6 DEF Task
    <3>4. QED
      BY <2>5, <2>8, <3>2, <3>3 DEF ScanWaits
  <2>9. QED
    BY <2>5, <2>7, <2>8
<1>3. CASE Scan
  <2>1. UNCHANGED <<phase, limit>>
    BY <1>3 DEF Scan, StartScan, OpenCursor, SendJob, CloseCursor, work
  <2>2. ScanWaits => ~(SendJob \/ CloseCursor \/ StartScan)
    <3>1. jobs \in Nat /\ rows \in Nat /\ Buffer \in Nat
      BY DEF IndInv, TypeOK
    <3>2. QED
      BY <3>1 DEF ScanWaits, SendJob, CloseCursor, StartScan
  <2>3. ~OpenCursor
    BY <1>1 DEF OpenCursor
  <2>4. QED
    BY <1>3, <2>1, <2>2, <2>3 DEF Scan, WaitingInside
<1>4. QED
  BY <1>1, <1>2, <1>3 DEF Next, Served, Prepare, Begin, AskRecharges, WriteStatus, Borrow

(* Once those who wait for another connection have all of them, they do until the     *)
(* server is restarted: no deadline ends the wait.                                    *)
THEOREM WedgeStays == Spec => WedgeIsFinal
<1>1. IndInv /\ [Next]_vars => [Wedged => Wedged' \/ Restart]_vars
  <2> SUFFICES ASSUME IndInv, Next, Wedged, ~Restart PROVE Wedged'
    OBVIOUS
  <2>1. /\ WaitingInside \subseteq WaitingInside' /\ (ScanWaits => ScanWaits')
        /\ limit' = limit /\ limit \in Nat
    BY WaitersStay DEF IndInv, TypeOK
  <2>2. WaitingInside' \subseteq Task
    BY DEF WaitingInside
  <2>3. IsFiniteSet(WaitingInside')
    BY <2>2, FS_Subset
  <2>4. Cardinality(WaitingInside) <= Cardinality(WaitingInside')
    BY <2>1, <2>3, FS_Subset
  <2>5. Cardinality(WaitingInside) \in Nat /\ Cardinality(WaitingInside') \in Nat
    BY <2>3, WaitersBorrow, FS_CardinalityType
  <2>6. QED
    BY <2>1, <2>4, <2>5 DEF Wedged
<1>2. QED
  BY Invariance, <1>1, PTL DEF Spec, WedgeIsFinal
=============================================================================
