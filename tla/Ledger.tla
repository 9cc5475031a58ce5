------------------------------- MODULE Ledger -------------------------------
(***************************************************************************)
(* What the wallet accounting of the supply-chain server promises, apart   *)
(* from how its goroutines, rows and statuses get there: every flow number *)
(* (one deduction and one refund per order, one credit per recharge        *)
(* request) is posted at most once and for good, together with the balance *)
(* movement it documents; a balance never goes below zero; a refund gives  *)
(* back exactly what the order's deduction took.  Billing implements it.   *)
(***************************************************************************)
EXTENDS Integers, FiniteSetsExt

CONSTANTS
  Account,    \* employee accounts, each with at most one wallet
  Order,      \* order_trade rows
  Recharge,   \* recharge_request rows
  NoAccount,  \* the payer of a flow nobody has posted
  Money       \* the amounts a posting can move

VARIABLES
  balance,    \* balance[a]: the money account a can spend
  posted,     \* the flow numbers with a success record
  payer,      \* payer[f]: the account flow f was posted to
  amount      \* amount[f]: the money flow f moved

vars == <<balance, posted, payer, amount>>

Deduction(o) == <<"D", o>>
Refund(o) == <<"R", o>>
Credit(r) == <<"RECHARGE", r>>

Flow == ({"D", "R"} \X Order) \cup ({"RECHARGE"} \X Recharge)

(* What a posted flow adds to its payer's balance. *)
Signed(f, n) == IF f[1] = "D" THEN 0 - n ELSE n

TypeOK ==
  /\ balance \in [Account -> Int]
  /\ posted \in SUBSET Flow
  /\ payer \in [Flow -> Account \cup {NoAccount}]
  /\ amount \in [Flow -> Nat]

Init ==
  /\ balance = [a \in Account |-> 0]
  /\ posted = {}
  /\ payer = [f \in Flow |-> NoAccount]
  /\ amount = [f \in Flow |-> 0]

(* The one way money moves: an unposted flow is posted with its movement. *)
Post(f, a, n) ==
  /\ f \notin posted
  /\ balance[a] + Signed(f, n) >= 0
  /\ balance' = [balance EXCEPT ![a] = @ + Signed(f, n)]
  /\ posted' = posted \cup {f}
  /\ payer' = [payer EXCEPT ![f] = a]
  /\ amount' = [amount EXCEPT ![f] = n]

Deduct(o, a, n) == Post(Deduction(o), a, n)

(* The account credited may differ from the one charged: the code refunds
   whoever owns the order's shop when the refund runs. *)
GiveBack(o, a) ==
  /\ Deduction(o) \in posted
  /\ Post(Refund(o), a, amount[Deduction(o)])

TopUp(r, a, n) == Post(Credit(r), a, n)

Next ==
  \E a \in Account :
    \/ \E o \in Order, n \in Money : Deduct(o, a, n)
    \/ \E o \in Order : GiveBack(o, a)
    \/ \E r \in Recharge, n \in Money : TopUp(r, a, n)

Spec == Init /\ [][Next]_vars

-----------------------------------------------------------------------------

(* No wallet is ever overdrawn: the deduction transaction checks the balance
   again after it has locked the row. *)
NonNegative == \A a \in Account : balance[a] >= 0

(* A refund belongs to a deduction of the same order and gives back exactly
   its actual_amount. *)
RefundMatchesDeduction ==
  \A o \in Order : Refund(o) \in posted =>
    /\ Deduction(o) \in posted
    /\ amount[Refund(o)] = amount[Deduction(o)]

(* A balance is the sum of the account's success records, which is what the
   reconciliation tool replays and compares wallets with. *)
Conservation ==
  \A a \in Account :
    balance[a] = MapThenSumSet(LAMBDA f : Signed(f, amount[f]),
                               {f \in posted : payer[f] = a})

(* What a step may do to the books: a posted flow stays as it is, at most one
   flow is posted, and a balance changes only by the signed amount of the flow
   posted to it in the same step. *)
PostingStep ==
  /\ \A f \in posted :
       f \in posted' /\ payer'[f] = payer[f] /\ amount'[f] = amount[f]
  /\ \A f, g \in posted' \ posted : f = g
  /\ \A f \in posted' \ posted :
       balance'[payer'[f]] = balance[payer'[f]] + Signed(f, amount'[f])
  /\ \A a \in Account :
       (\A f \in posted' \ posted : payer'[f] # a) => balance'[a] = balance[a]

(* Every step of the books is such a step: two goroutines that both read the
   old balance can never overwrite each other's movement. *)
BooksMoveByPosting == [][PostingStep]_vars
=============================================================================
