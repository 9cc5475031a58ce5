------------------------------ MODULE Rollback ------------------------------
(***************************************************************************)
(* The repair tool of cmd/billing-rollback, run beside the live server on  *)
(* the books of one account.  Before the wallet row was locked, deductions *)
(* that had read the same balance overwrote each other's; the tool replays *)
(* the records in time order, reverses each deduction the balance does not *)
(* cover, and puts wallet and orders right (plan, apply), or rewrites the  *)
(* balances the records show (rebalance).  Every query outside of the      *)
(* tool's transactions is a step of its own.  Money is counted in 0.001    *)
(* yuan; the tool rounds to 0.01.                                          *)
(*                                                                         *)
(* The server is modelled as Billing and Warehouse show it to behave: a    *)
(* record and its movement are one transaction on the locked wallet.  The  *)
(* read-only reports (detect, verify) are left out.                        *)
(***************************************************************************)
EXTENDS Integers, SequencesExt

CONSTANTS
  MaxOrder,    \* orders of the account, numbered
  OldOrders,   \* the orders 1..OldOrders were charged before the lock
  Price,       \* amounts a deduction can take
  Deposit,     \* amounts a recharge can credit
  Tool,        \* runs of the tool
  Batch,       \* names of plans
  NoBatch,     \* a run of the tool that works on no plan
  MaxRecord    \* bound: records ever written

ASSUME RollbackAssumption ==
  /\ MaxOrder \in Nat /\ OldOrders \in 0 .. MaxOrder
  /\ Price \subseteq Nat /\ Deposit \subseteq Nat
  /\ NoBatch \notin Batch
  /\ MaxRecord \in Nat /\ OldOrders < MaxRecord

VARIABLES
  balance,   \* the wallet row
  book,      \* the success records, in the order of creation
  lastId,    \* the auto-increment of the record table
  status,    \* status[o]: whether order o is to be charged
  price,     \* price[o]: what it takes
  plan,      \* plan[b]: the plan and summary rows of batch b; sound (history): its
             \* two queries saw the same books and no other plan was applied since
  tool,      \* tool[t]: the local state of a run; fresh (history): no other run has
             \* written the books since it started to read
  repaired   \* history: the last apply was that of a sound plan, for the first time

serverVars == <<lastId, price>>
vars == <<balance, book, status, plan, tool, repaired, serverVars>>

Order == 1 .. MaxOrder
NoOrder == 0

Record == [id : Nat, type : {"recharge", "deduct", "refund"}, order : Order \cup {NoOrder},
           amount : Nat, before : Int, after : Int]

Plan == [state : {"none", "written", "executed"}, events : Seq(Record),
         current : Int, sound : BOOLEAN]

NoPlan == [state |-> "none", events |-> <<>>, current |-> 0, sound |-> FALSE]
IdleTool == [pc |-> "idle", batch |-> NoBatch, events |-> <<>>, fresh |-> FALSE]

(* The wallet is never overdrawn, by the server or by a repair. *)
TypeOK ==
  /\ balance \in Nat
  /\ book \in Seq(Record)
  /\ lastId \in 0 .. MaxRecord
  /\ status \in [Order -> {"pending", "success", "refunded"}]
  /\ price \in [Order -> Price]
  /\ plan \in [Batch -> Plan]
  /\ tool \in [Tool -> [pc : {"idle", "balance", "apply", "rebalance"},
                        batch : Batch \cup {NoBatch}, events : Seq(Record), fresh : BOOLEAN]]
  /\ repaired \in BOOLEAN

-----------------------------------------------------------------------------
(* The replay *)

(* Half a cent rounds away from zero. *)
round2(n) == IF n >= 0 THEN 10 * ((n + 5) \div 10) ELSE -10 * ((5 - n) \div 10)

(* What a record does to a running balance when nothing is checked. *)
Moved(n, e) == IF e.type = "deduct" THEN n - e.amount ELSE n + e.amount

(* Slip: any money left covers a deduction. *)
KeepsPositive(n, e) == e.type # "deduct" \/ n > 0

(* A credit is always kept, a deduction if the balance covers it. *)
Keeps(n, e) == e.type # "deduct" \/ n >= e.amount

(* The values a loop over the records has gone through: its variable starts at
   base, and Step says what one record does to it. *)
Running(Step(_, _), base, events) ==
  LET run[i \in 0 .. Len(events)] == IF i = 0 THEN base ELSE Step(run[i - 1], events[i])
  IN  run

Replayed(n, e) == IF Keeps(n, e) THEN round2(Moved(n, e)) ELSE n

(* planAccount: the balances of the replay, the last one, and the records to
   reverse. *)
Replay(events) == Running(Replayed, 0, events)

CorrectBalance(events) == Replay(events)[Len(events)]

Reversed(events) ==
  {events[i].id : i \in {j \in DOMAIN events : ~Keeps(Replay(events)[j - 1], events[j])}}

Rounded(n, e) == round2(Moved(n, e))

(* Slip: the balances a record shows are taken at their word. *)
ShownChain(events) == [i \in 0 .. Len(events) |-> IF i = 0 THEN 0 ELSE events[i].after]

(* rebalanceAccount: the balances of the records that are left, one by one. *)
Chain(events) == Running(Rounded, 0, events)

(* The records without those of the ids gone, after each one. *)
Left(events, gone) ==
  Running(LAMBDA left, e : IF e.id \in gone THEN left ELSE Append(left, e), <<>>, events)

-----------------------------------------------------------------------------
(* The books the code without locks has left: one recharge, then deductions,
   each of which had read the balance some earlier record left. *)

OldBalance(c, base, cost) ==
  LET after[i \in 0 .. OldOrders] == IF i = 0 THEN c ELSE after[base[i]] - cost[i]
  IN  after

OldBook(c, base, cost) ==
  LET after == OldBalance(c, base, cost)
  IN  [i \in 1 .. OldOrders + 1 |->
         IF i = 1 THEN [id |-> 1, type |-> "recharge", order |-> NoOrder, amount |-> c,
                        before |-> 0, after |-> c]
         ELSE [id |-> i, type |-> "deduct", order |-> i - 1, amount |-> cost[i - 1],
               before |-> after[base[i - 1]], after |-> after[i - 1]]]

Init ==
  /\ price \in [Order -> Price]
  /\ \E c \in Deposit, base \in [1 .. OldOrders -> 0 .. OldOrders] :
       /\ \A i \in 1 .. OldOrders : base[i] < i
       /\ \A i \in 1 .. OldOrders : OldBalance(c, base, price)[i] >= 0
       /\ book = OldBook(c, base, price)
       /\ balance = OldBalance(c, base, price)[OldOrders]
  /\ lastId = OldOrders + 1
  /\ status = [o \in Order |-> IF o <= OldOrders THEN "success" ELSE "pending"]
  /\ plan = [b \in Batch |-> NoPlan]
  /\ tool = [t \in Tool |-> IdleTool]
  /\ repaired = FALSE

-----------------------------------------------------------------------------
(* The live server *)

Posted(type, o) == \E i \in DOMAIN book : book[i].type = type /\ book[i].order = o

Post(type, o, n) ==
  LET after == IF type = "deduct" THEN balance - n ELSE balance + n
  IN  /\ lastId < MaxRecord
      /\ lastId' = lastId + 1
      /\ balance' = after
      /\ book' = Append(book, [id |-> lastId + 1, type |-> type, order |-> o, amount |-> n,
                               before |-> balance, after |-> after])
      /\ UNCHANGED <<price, plan, tool, repaired>>

Recharge(n) == Post("recharge", NoOrder, n) /\ UNCHANGED status

Deduct(o) ==
  /\ status[o] = "pending" /\ ~Posted("deduct", o)
  /\ balance >= price[o]
  /\ Post("deduct", o, price[o])
  /\ status' = [status EXCEPT ![o] = "success"]

(* The refund gives back what the order's deduction record says. *)
Refund(o) ==
  /\ status[o] = "success" /\ ~Posted("refund", o)
  /\ \E i \in DOMAIN book :
       /\ book[i].type = "deduct" /\ book[i].order = o
       /\ Post("refund", o, book[i].amount)
  /\ status' = [status EXCEPT ![o] = "refunded"]

LiveStep ==
  \/ \E n \in Deposit : Recharge(n)
  \/ \E o \in Order : Deduct(o) \/ Refund(o)

-----------------------------------------------------------------------------
(* The tool *)

OnlyReads == UNCHANGED <<balance, book, status, serverVars>>

(* Run t ends, after it has written the books: no other run's copy is fresh. *)
Written(t) ==
  [u \in Tool |-> IF u = t THEN IdleTool ELSE [tool[u] EXCEPT !.fresh = FALSE]]

(* plan: under a batch name of its own (the time), the records are read ... *)
LoadEvents(t, b) ==
  /\ tool[t].pc = "idle" /\ plan[b].state = "none"
  /\ \A u \in Tool : tool[u].batch # b
  /\ tool' = [tool EXCEPT ![t] = [pc |-> "balance", batch |-> b, events |-> book, fresh |-> FALSE]]
  /\ UNCHANGED <<plan, repaired>> /\ OnlyReads

(* ... and then the wallet; plan and summary are written, the balance rounded
   to the columns' two decimals. *)
PlanAccount(t) ==
  LET events == tool[t].events
  IN  /\ tool[t].pc = "balance"
      /\ plan' = [plan EXCEPT ![tool[t].batch] =
                   [state |-> "written", events |-> events, current |-> round2(balance),
                    sound |-> events = book]]
      /\ tool' = [tool EXCEPT ![t] = IdleTool]
      /\ UNCHANGED repaired /\ OnlyReads

(* apply: the summaries and plan rows that are not executed yet. *)
LoadPlans(t, b) ==
  /\ tool[t].pc = "idle"
  /\ plan[b].state = "written" /\ Reversed(plan[b].events) # {}
  /\ tool' = [tool EXCEPT ![t] = [pc |-> "apply", batch |-> b, events |-> plan[b].events,
                                       fresh |-> FALSE]]
  /\ UNCHANGED <<plan, repaired>> /\ OnlyReads

(* Slip: the wallet may have moved since the plan. *)
AnyDrift(b) == FALSE

Drifted(b) ==
  balance - plan[b].current > 10 \/ plan[b].current - balance > 10

(* The transaction: lock the wallet, refuse a balance that has moved, delete
   the reversed records, reset their orders, correct the wallet. *)
ApplyAccount(t) ==
  LET b == tool[t].batch
      gone == Reversed(tool[t].events)
      orders == {e.order : e \in {x \in ToSet(tool[t].events) : x.id \in gone}}
  IN  /\ tool[t].pc = "apply"
      /\ \/ /\ Drifted(b)
            /\ tool' = [tool EXCEPT ![t] = IdleTool]
            /\ UNCHANGED <<balance, book, status, plan, repaired>>
         \/ /\ ~Drifted(b)
            /\ book' = Left(book, gone)[Len(book)]
            /\ status' = [o \in Order |-> IF o \in orders THEN "pending" ELSE status[o]]
            /\ balance' = CorrectBalance(tool[t].events)
            /\ plan' = [c \in Batch |->
                         [plan[c] EXCEPT !.state = IF c = b THEN "executed" ELSE @, !.sound = FALSE]]
            /\ repaired' = plan[b].sound
            /\ tool' = Written(t)
      /\ UNCHANGED serverVars

(* rebalance: the records are read before the transaction ... *)
LoadChain(t) ==
  /\ tool[t].pc = "idle"
  /\ tool' = [tool EXCEPT ![t] = [pc |-> "rebalance", batch |-> NoBatch, events |-> book, fresh |-> TRUE]]
  /\ UNCHANGED <<plan, repaired>> /\ OnlyReads

(* ... which updates by id those whose balances differ by more than 0.001. *)
Off(x, y) == x - y > 1 \/ y - x > 1

Rewritten(events, e, i) ==
  /\ events[i].id = e.id
  /\ Off(events[i].before, Chain(events)[i - 1]) \/ Off(events[i].after, Chain(events)[i])

Corrected(events, e) ==
  IF \E i \in DOMAIN events : Rewritten(events, e, i)
  THEN LET i == CHOOSE i \in DOMAIN events : Rewritten(events, e, i)
       IN  [e EXCEPT !.before = Chain(events)[i - 1], !.after = Chain(events)[i]]
  ELSE e

RebalanceAccount(t) ==
  /\ tool[t].pc = "rebalance"
  /\ book' = [j \in DOMAIN book |-> Corrected(tool[t].events, book[j])]
  /\ tool' = Written(t)
  /\ UNCHANGED <<balance, status, plan, repaired, serverVars>>

ToolStep(t) ==
  \/ \E b \in Batch : LoadEvents(t, b) \/ LoadPlans(t, b)
  \/ PlanAccount(t) \/ ApplyAccount(t) \/ LoadChain(t) \/ RebalanceAccount(t)

Next == LiveStep \/ \E t \in Tool : ToolStep(t)

Spec == Init /\ [][Next]_vars

-----------------------------------------------------------------------------
(* Correctness *)

(* The sums of the records, one by one, and of all of them. *)
Totals(events) == Running(Moved, 0, events)

Total(events) == Totals(events)[Len(events)]

Near(x, y, slack) == x - y <= slack /\ y - x <= slack

(* "Zero-risk repair" (the tool's header): once a plan has been applied, the
   wallet is the sum of the records that are left, whatever the server does
   meanwhile. *)
RepairIsExact == (\E b \in Batch : plan[b].state = "executed") => balance = Total(book)

(* The same for a sound plan that is applied for the first time: no transaction
   came between its two queries, and no plan was applied since.  The slack is half
   a cent of rounding for every record replayed and the cent of drift that is
   tolerated.  Traffic between plan and apply is refused by the drift check or
   cancels out.  (A second apply of the plan is not refused when it had read the
   rows before the first one marked them, and undoes what was paid in between.) *)
RepairIsNear == repaired => Near(balance, Total(book), 5 * MaxRecord + 15)

(* If nothing moved between plan and apply, the books that apply leaves were
   never overdrawn: every deduction in them was covered by what came before. *)
RepairIsSolvent ==
  [][\A t \in Tool :
       book' # book /\ tool[t].events = book /\ ApplyAccount(t) =>
         \A i \in DOMAIN book' : Totals(book')[i] >= 0 - 5 * MaxRecord]_vars

(* After a repair, rebalance makes the books readable (its comment: the balance
   shown after a transaction agrees with the wallet), although it reads the
   records before it locks the wallet: each record starts where the one before
   ended, and the last one ends at the wallet, up to rounding.  What the server
   posts between the read and the lock does not spoil it; only another run of the
   tool that writes the books in between can. *)
RebalanceIsContinuous ==
  [][\A t \in Tool :
       repaired /\ tool[t].fresh /\ RebalanceAccount(t) =>
         /\ Near(Last(book').after, balance, 5 * MaxRecord + 15)
         /\ \A i \in 2 .. Len(book') :
              Near(book'[i].before, book'[i - 1].after, 5 * MaxRecord + 15)]_vars
=============================================================================
