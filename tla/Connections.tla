----------------------------- MODULE Connections -----------------------------
(***************************************************************************)
(* Who waits for whom on the way to a wallet.  The goroutines of           *)
(* billing_service.go and warehouse_service.go share the connections of    *)
(* one sql.DB, at most limit (SetMaxOpenConns, main.go).  A statement      *)
(* outside a transaction borrows one while it runs; a transaction keeps    *)
(* one to its end, also while it waits for the row lock of its wallet.     *)
(* Two wait for a connection while they keep one.  A deduction from a      *)
(* wallet without a locked rate keeps its row too: its sum of recharges    *)
(* does not run on the transaction.  The warehouse scan keeps its cursor's *)
(* while its queue is full, and the workers that empty it need others.     *)
(*                                                                         *)
(* sql.DB hands a connection to any of those that wait, and nobody waits   *)
(* for one with a deadline: no query here has a context.  MySQL gives up   *)
(* waiting for a row lock after innodb_lock_wait_timeout.  The statements  *)
(* before a transaction borrow one connection after another and are one    *)
(* phase here; so are those after it.  Billing and Warehouse say what they *)
(* compute.  The row of warehouse_flow_counter is left out: it is locked   *)
(* last, and whoever has it waits for nobody.                              *)
(***************************************************************************)
EXTENDS Integers, FiniteSets

CONSTANTS
  Wallet,      \* billing wallets
  Store,       \* warehouse wallets
  Deduction,   \* goroutines in the ProcessDeduction of billing
  Posting,     \* goroutines that refund, or approve a recharge
  Refresh,     \* goroutines that write a wallet's rate at the month's turn
  Worker,      \* goroutines that take orders from the warehouse scan
  Of,          \* Of[t]: the wallets that goroutine t may work on
  NoTask,      \* the owner of a free row lock
  Buffer,      \* the capacity of the queue between scan and workers
  MaxAttempts, \* transactions that a worker tries for one order
  MaxOrders,   \* bound: orders that a scan finds
  Limits       \* what the configuration can say of max_open_conns

Task == Deduction \cup Posting \cup Refresh \cup Worker
Row == Wallet \cup Store

ASSUME ConnectionsAssumption ==
  /\ IsFiniteSet(Wallet) /\ IsFiniteSet(Task)
  /\ Deduction \cap Worker = {} /\ (Deduction \cup Worker) \cap (Posting \cup Refresh) = {}
  /\ \A t \in Task : Of[t] # {} /\ Of[t] \subseteq (IF t \in Worker THEN Store ELSE Wallet)
  /\ NoTask \notin Task
  /\ {Buffer, MaxAttempts} \subseteq Nat \ {0} /\ MaxOrders \in Nat
  /\ Limits \subseteq Nat

VARIABLES
  phase,   \* phase[t]: how far goroutine t is
  on,      \* on[t]: the wallet it works on, or has worked on last
  tries,   \* tries[t]: the transactions that worker t has left for its order
  lock,    \* lock[w]: the transaction that has the row lock of wallet w
  rated,   \* the wallets whose discount rate is locked
  scan,    \* how far the warehouse scan is: "idle", "ask" (for a connection), "open"
  rows,    \* the orders that its cursor still has
  jobs,    \* the orders in its queue
  limit    \* max_open_conns

work == <<phase, on, tries, lock, rated>>
scanning == <<scan, rows, jobs>>
vars == <<work, scanning, limit>>

-----------------------------------------------------------------------------
(* Connections and row locks *)

\* The phases in which a goroutine waits for a connection.
Asking == {"prepare", "begin", "recharges", "status"}

\* Slip: the rows of the reads before the transaction are not closed.
BorrowingRows ==
  {"preparing", "begin", "row", "recharges", "summing", "write", "discount", "writing"}

\* The phases in which it has one.  "recharges" is in both.
Borrowing == {"preparing", "row", "recharges", "summing", "write", "discount", "writing"}

\* The phases in which it has the row lock.
Inside == {"recharges", "summing", "write", "discount"}

Phase == {"idle"} \cup Asking \cup Borrowing

Borrowers == {t \in Task : phase[t] \in Borrowing}
Doubling == {t \in Task : phase[t] = "summing"}
WaitingInside == {t \in Task : phase[t] = "recharges"}

Cursor == IF scan = "open" THEN 1 ELSE 0

InUse == Cardinality(Borrowers) + Cardinality(Doubling) + Cursor

Move(t, p) == phase' = [phase EXCEPT ![t] = p]

\* t gets a connection, if there is one, and goes on in phase q.
Borrow(t, p, q) ==
  /\ phase[t] = p /\ InUse < limit
  /\ Move(t, q)
  /\ UNCHANGED <<on, tries, lock, rated, scanning, limit>>

\* Slip: a transaction that is given up without a rollback.
LeaveLocked(t) == UNCHANGED lock

Unlock(t) == lock' = [w \in Row |-> IF lock[w] = t THEN NoTask ELSE lock[w]]

-----------------------------------------------------------------------------
(* The steps of a goroutine *)

\* It begins with a wallet, known to it or found by its reads.
Begins(t) ==
  /\ phase[t] = "idle"
  /\ Move(t, "prepare")
  /\ \E w \in Of[t] : on' = [on EXCEPT ![t] = w]
  /\ UNCHANGED <<lock, rated, limit>>

\* A ticker, a request or a review hands it an order, a request or a wallet.
Start(t) == t \notin Worker /\ Begins(t) /\ UNCHANGED <<tries, scanning>>

\* A worker takes an order from the queue.
TakeJob(t) ==
  /\ t \in Worker /\ jobs > 0
  /\ Begins(t)
  /\ jobs' = jobs - 1
  /\ tries' = [tries EXCEPT ![t] = MaxAttempts]
  /\ UNCHANGED <<scan, rows>>

Prepare(t) == Borrow(t, "prepare", "preparing")

\* Deductions of both kinds have a status to write.
Charging == Deduction \cup Worker

\* The reads are done.  A deduction may be over (no employee, charged before, a
\* failed statement), or the preview or the price sends it straight to its status.
Prepared(t) ==
  /\ phase[t] = "preparing"
  /\ \E p \in {"idle", "begin"} \cup (IF t \in Charging THEN {"status"} ELSE {}) : Move(t, p)
  /\ UNCHANGED <<on, tries, lock, rated, scanning, limit>>

\* BEGIN, or the single update of the refresh, which locks the row like the others.
Begin(t) == Borrow(t, "begin", "row")

\* Slip: the wallet is read in the transaction without FOR UPDATE.
ReadRow(t) ==
  /\ phase[t] = "row"
  /\ lock' = [lock EXCEPT ![on[t]] = t]
  /\ Move(t, IF t \in Deduction /\ on[t] \notin rated THEN "recharges" ELSE "write")
  /\ UNCHANGED <<on, tries, rated, scanning, limit>>

\* SELECT ... FOR UPDATE returns the row; a deduction looks at its rate.
LockRow(t) ==
  /\ phase[t] = "row"
  /\ lock[on[t]] = NoTask
  /\ lock' = [lock EXCEPT ![on[t]] = t]
  /\ Move(t, IF t \in Deduction /\ on[t] \notin rated THEN "recharges" ELSE "write")
  /\ UNCHANGED <<on, tries, rated, scanning, limit>>

\* Slip: a deadline for the whole transaction, the second query included.
Deadline(t) ==
  /\ phase[t] \in {"row", "recharges"}
  /\ Unlock(t)
  /\ Move(t, "idle")
  /\ UNCHANGED <<on, tries, rated, scanning, limit>>

\* Error 1205, or another error of the statement: the transaction rolls back and the
\* goroutine returns the error.
LockFails(t) ==
  /\ phase[t] = "row"
  /\ Move(t, "idle")
  /\ UNCHANGED <<on, tries, lock, rated, scanning, limit>>

\* The second connection.
AskRecharges(t) == Borrow(t, "recharges", "summing")

\* The sum gives a discount, which this transaction locks, or none.
SumRecharges(t) ==
  /\ phase[t] = "summing"
  /\ \E p \in {"write", "discount"} : Move(t, p)
  /\ UNCHANGED <<on, tries, lock, rated, scanning, limit>>

\* COMMIT or ROLLBACK, which gives lock and connection back.  A committed deduction,
\* an insufficient one too, has a status to write.  The refresh sets any rate.
End(t) ==
  /\ phase[t] \in {"write", "discount"}
  /\ Unlock(t)
  /\ \/ /\ Move(t, IF t \in Charging THEN "status" ELSE "idle")
        /\ \/ /\ t \in Refresh
              /\ rated' \in {rated \cup {on[t]}, rated \ {on[t]}}
           \/ /\ t \notin Refresh
              /\ rated' = IF phase[t] = "discount" THEN rated \cup {on[t]} ELSE rated
     \/ Move(t, "idle") /\ UNCHANGED rated
  /\ UNCHANGED <<on, tries, scanning, limit>>

\* A worker's flow number was taken: it rolls back and tries again.
Retry(t) ==
  /\ t \in Worker /\ phase[t] = "write"
  /\ tries[t] > 1
  /\ tries' = [tries EXCEPT ![t] = @ - 1]
  /\ Unlock(t)
  /\ Move(t, "begin")
  /\ UNCHANGED <<on, rated, scanning, limit>>

WriteStatus(t) == Borrow(t, "status", "writing")

StatusWritten(t) ==
  /\ phase[t] = "writing"
  /\ Move(t, "idle")
  /\ UNCHANGED <<on, tries, lock, rated, scanning, limit>>

-----------------------------------------------------------------------------
(* The warehouse scan, one at a time *)

\* The ticker, or the end of the scan before: its workers are done.
StartScan ==
  /\ scan = "idle" /\ jobs = 0 /\ \A t \in Worker : phase[t] = "idle"
  /\ scan' = "ask"
  /\ UNCHANGED <<work, rows, jobs, limit>>

\* The query finds some orders; reading them may break off, after fewer, or none.
OpenCursor ==
  /\ scan = "ask" /\ InUse < limit
  /\ scan' = "open"
  /\ rows' \in 0 .. MaxOrders
  /\ UNCHANGED <<work, jobs, limit>>

\* The next order, if there is room in the queue.
SendJob ==
  /\ scan = "open" /\ rows > 0 /\ jobs < Buffer
  /\ rows' = rows - 1 /\ jobs' = jobs + 1
  /\ UNCHANGED <<work, scan, limit>>

\* The last one was sent.
CloseCursor ==
  /\ scan = "open" /\ rows = 0
  /\ scan' = "idle"
  /\ UNCHANGED <<work, rows, jobs, limit>>

\* The server is restarted, maybe with other settings; MySQL rolls back what was open.
Restart ==
  /\ phase' = [t \in Task |-> "idle"]
  /\ lock' = [w \in Row |-> NoTask]
  /\ scan' = "idle" /\ rows' = 0 /\ jobs' = 0
  /\ limit' \in Limits
  /\ UNCHANGED <<on, tries, rated>>

-----------------------------------------------------------------------------
Init ==
  /\ phase = [t \in Task |-> "idle"]
  /\ on \in [Task -> Row] /\ \A t \in Task : on[t] \in Of[t]
  /\ tries = [t \in Worker |-> MaxAttempts]
  /\ lock = [w \in Row |-> NoTask]
  /\ rated \in SUBSET Wallet
  /\ scan = "idle" /\ rows = 0 /\ jobs = 0
  /\ limit \in Limits

\* What a goroutine does once it is given the connection it waits for.
Served(t) == Prepare(t) \/ Begin(t) \/ AskRecharges(t) \/ WriteStatus(t)

\* What it does on the connections it has, and a worker's next order.
Own(t) ==
  \/ TakeJob(t) \/ Prepared(t) \/ LockRow(t) \/ LockFails(t)
  \/ SumRecharges(t) \/ End(t) \/ Retry(t) \/ StatusWritten(t)

Scan == StartScan \/ OpenCursor \/ SendJob \/ CloseCursor

Next == (\E t \in Task : Start(t) \/ Served(t) \/ Own(t)) \/ Scan \/ Restart

Spec == Init /\ [][Next]_vars

\* A statement ends.  A connection that comes free goes to one of those that wait,
\* chosen at random: whoever waits while connections come free again and again gets one.
Fairness ==
  /\ \A t \in Task : WF_vars(Own(t)) /\ SF_vars(Served(t))
  /\ WF_vars(SendJob \/ CloseCursor) /\ SF_vars(OpenCursor)

FairSpec == Spec /\ Fairness

-----------------------------------------------------------------------------
(* Properties *)

TypeOK ==
  /\ phase \in [Task -> Phase]
  /\ on \in [Task -> Row] /\ \A t \in Task : on[t] \in Of[t]
  /\ tries \in [Worker -> 1 .. MaxAttempts]
  /\ lock \in [Row -> Task \cup {NoTask}]
  /\ rated \in SUBSET Wallet
  /\ scan \in {"idle", "ask", "open"} /\ rows \in 0 .. MaxOrders /\ jobs \in 0 .. Buffer
  /\ limit \in Limits

\* A transaction between FOR UPDATE and its end is the one that has the row lock, and
\* only a deduction of billing sums recharges, on a second connection.
InsideLocks ==
  \A t \in Task :
    /\ phase[t] \in Inside => lock[on[t]] = t
    /\ phase[t] \in {"recharges", "summing", "discount"} => t \in Deduction

\* A row lock is one of a transaction that will end: none is left behind.
LocksAreHeld ==
  \A w \in Row : lock[w] # NoTask => phase[lock[w]] \in Inside /\ on[lock[w]] = w

\* The invariant of the proofs.
IndInv == TypeOK /\ InsideLocks /\ LocksAreHeld

\* The scan has an order for a full queue, and all its workers wait for connections.
ScanWaits ==
  scan = "open" /\ rows > 0 /\ jobs = Buffer /\ \A t \in Worker : phase[t] \in Asking

\* Every connection is with somebody who waits for another to be given back.
Wedged == Cardinality(WaitingInside) + (IF ScanWaits THEN 1 ELSE 0) >= limit

\* More connections than one for every wallet and one for the scan.
Roomy == Cardinality(Wallet) + 1 < limit

\* With so many connections, the second query of the deductions (billing_service.go:357)
\* and the cursor of the warehouse scan (warehouse_service.go:74) never have them all,
\* however many goroutines TriggerDeductionAsync starts: the row lock is taken first.
NeverWedged == Roomy => ~Wedged

\* With fewer it can come to that, and then nothing but a restart of the server ends it:
\* no query has a deadline (GetCurrentMonthRechargeTotal, StreamPendingOrders).
WedgeIsFinal == [][Wedged => Wedged' \/ Restart]_vars

\* With so many connections, whoever was given an order, a request or a wallet gets it
\* done or gives it up, also the deductions of TriggerDeductionAsync that wait for a row
\* or a connection others have; and a warehouse scan comes to its end.
TasksEnd ==
  /\ \A t \in Task : (phase[t] # "idle" /\ Roomy) ~> phase[t] = "idle"
  /\ (scan # "idle" /\ Roomy) ~> scan = "idle"
=============================================================================
