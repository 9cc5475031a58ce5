-------------------------- MODULE WarehouseProofs --------------------------
(***************************************************************************)
(* Warehouse keeps IndInv, for any accounts, orders, requests and          *)
(* goroutines and any number of faults, and implements Ledger.  The step   *)
(* of a goroutine only reads and moves on (JobStep), or is one of the      *)
(* three that write: DeleteRetryable, Charge and WriteStatus.              *)
(***************************************************************************)
EXTENDS Warehouse, TLAPS

USE WarehouseAssumption

(* Flows of different kinds, orders and requests are different flows. *)
LEMMA Flows ==
  /\ \A o \in Order : Deduction(o) \in Flow
  /\ \A r \in Recharge : Credit(r) \in Flow
  /\ \A o, r : Deduction(o) # Credit(r)
  /\ \A o, p : Deduction(o) = Deduction(p) => o = p
  /\ \A r, s : Credit(r) = Credit(s) => r = s
BY DEF Flow, Deduction, Credit

(* What is moved is an amount of money. *)
LEMMA MoneyNat ==
  /\ Money \subseteq Nat
  /\ \A p \in Postage, n \in Size : Fee(p, n) \in Money
<1>1. ASSUME NEW p \in Postage, NEW n \in Size PROVE Fee(p, n) \in Nat
  <2>1. PackingFee(n) \in Nat
    BY DEF PackingFee
  <2>2. QED
    BY <2>1 DEF Fee
<1>2. QED
  BY <1>1 DEF Money

(* The states of a goroutine. *)
JobType ==
  [pc : {"idle", "account", "wallet", "items", "exists", "delete", "charge", "status"},
   order : Order \cup {NoOrder}, post : Postage \cup {0},
   account : Account \cup {NoAccount}, balance : Int, fee : Nat,
   verdict : Pending .. NoEmployee]

LEMMA IdleTyped == IdleJob \in JobType /\ JobBacked(IdleJob)
BY DEF IdleJob, JobType, JobBacked, Pending, NoEmployee

(* Tables without records and goroutines without work satisfy the invariant. *)
LEMMA InitIndInv == Init => IndInv
<1> SUFFICES ASSUME Init PROVE IndInv
  OBVIOUS
<1>1. TypeOK
  <2>1. job \in [Worker -> JobType]
    BY IdleTyped DEF Init
  <2>2. record \in [Flow -> Record]
    BY DEF Init, Record, NoRecord, OldRecord
  <2>3. wallet \in [Account -> Wallet] /\ request \in [Recharge -> Request]
    BY DEF Init, Wallet, Request
  <2>4. /\ status \in [Order -> Pending .. NoEmployee] /\ sent \in SUBSET Order
        /\ parcel \in [Order -> [post : Postage, size : Size]]
        /\ owner \in [Order -> Account \cup {NoAccount}]
        /\ phase \in {"none", "pending", "retry"} /\ queue \in SUBSET Row /\ faults \in Nat
    BY DEF Init, Pending, NoEmployee
  <2>5. QED
    BY <2>1, <2>2, <2>3, <2>4 DEF TypeOK, JobType
<1>2. RequestBacked
  BY DEF Init, RequestBacked
<1>3. RechargeCreditedIffApproved
  <2>1. \A r \in Recharge : Credit(r) \in Flow /\ Credit(r)[1] = "RECHARGE"
    BY Flows DEF Credit
  <2>2. \A r \in Recharge : ~Posted(Credit(r))
    BY <2>1 DEF Init, Posted, NoRecord, OldRecord
  <2>3. QED
    BY <2>2 DEF Init, RechargeCreditedIffApproved
<1>4. SuccessIsCharged
  BY DEF Init, SuccessIsCharged, Pending, Success
<1>5. \A w \in Worker : JobBacked(job[w])
  BY IdleTyped DEF Init
<1>6. QED
  BY <1>1, <1>2, <1>3, <1>4, <1>5 DEF IndInv

-----------------------------------------------------------------------------
(* Frames *)

(* Counting a fault keeps the counter a number. *)
LEMMA FaultNat == TypeOK /\ (Fault \/ UNCHANGED faults) => faults' \in Nat
BY DEF TypeOK, Fault

(* A step that leaves the money alone, gives well-typed goroutines and rows, and
   writes a success only for an order that is charged. *)
LEMMA OtherStep ==
  ASSUME IndInv, UNCHANGED moneyVars,
         status' \in [Order -> Pending .. NoEmployee],
         \A o \in Order : status'[o] = Success => Charged(o),
         sent' \in SUBSET Order, parcel' \in [Order -> [post : Postage, size : Size]],
         owner' \in [Order -> Account \cup {NoAccount}],
         phase' \in {"none", "pending", "retry"}, queue' \in SUBSET Row,
         job' \in [Worker -> JobType], faults' \in Nat,
         \A w \in Worker : JobBacked(job'[w])
  PROVE  IndInv'
<1>1. TypeOK'
  BY DEF IndInv, TypeOK, JobType, moneyVars
<1>2. RequestBacked' /\ RechargeCreditedIffApproved' /\ SuccessIsCharged'
  BY DEF IndInv, RequestBacked, RechargeCreditedIffApproved, SuccessIsCharged, Charged,
         Posted, moneyVars
<1>3. (\A w \in Worker : JobBacked(job[w]))'
  BY DEF JobBacked, Charged, Posted, moneyVars
<1>4. QED
  BY <1>1, <1>2, <1>3 DEF IndInv

(* A goroutine moves on: all goroutines are as they should be. *)
LEMMA JobMoved ==
  ASSUME IndInv, NEW w \in Worker, NEW j \in JobType, JobBacked(j),
         job' = [job EXCEPT ![w] = j]
  PROVE  job' \in [Worker -> JobType] /\ \A v \in Worker : JobBacked(job'[v])
BY DEF IndInv, TypeOK, JobType

(* A goroutine that only reads keeps the invariant. *)
LEMMA JobStep ==
  ASSUME IndInv, NEW w \in Worker, NEW j \in JobType, JobBacked(j),
         job' = [job EXCEPT ![w] = j], OnlyReads, Fault \/ UNCHANGED faults
  PROVE  IndInv'
<1>1. job' \in [Worker -> JobType] /\ \A v \in Worker : JobBacked(job'[v])
  BY JobMoved
<1>2. faults' \in Nat
  BY FaultNat DEF IndInv
<1>3. \A o \in Order : status'[o] = Success => Charged(o)
  BY DEF OnlyReads, IndInv, SuccessIsCharged
<1>4. QED
  BY <1>1, <1>2, <1>3, OtherStep DEF OnlyReads, envVars, scanVars, IndInv, TypeOK

(* What a goroutine is when all that is left is to write a status. *)
Concluding(w, verdict) ==
  [IdleJob EXCEPT !.pc = "status", !.order = job[w].order, !.verdict = verdict]

LEMMA ConcludingTyped ==
  ASSUME NEW w \in Worker, job[w].order \in Order, NEW v \in Pending .. NoEmployee,
         v = Success => Charged(job[w].order)
  PROVE  Concluding(w, v) \in JobType /\ JobBacked(Concluding(w, v))
<1> DEFINE j == Concluding(w, v)
<1>1. j \in JobType
  BY IdleTyped DEF JobType, Concluding
<1>2. j.pc = "status" /\ j.order = job[w].order /\ j.verdict = v
  BY DEF Concluding, IdleJob
<1> HIDE DEF j
<1>3. JobBacked(j)
  BY <1>2 DEF JobBacked
<1>4. QED
  BY <1>1, <1>3 DEF j

-----------------------------------------------------------------------------
(* The steps of a goroutine that only read *)

(* A goroutine that is under way has what its next statement needs. *)
LEMMA JobHolds ==
  ASSUME IndInv, NEW w \in Worker
  PROVE  job[w] \in JobType /\ JobBacked(job[w])
BY DEF IndInv, TypeOK, JobType

(* A goroutine that gives up, or has only its status left to write. *)
LEMMA ReturnStep ==
  ASSUME IndInv, NEW w \in Worker, Return(w), OnlyReads, Fault \/ UNCHANGED faults
  PROVE  IndInv'
BY IdleTyped, JobStep DEF Return

LEMMA ConcludeStep ==
  ASSUME IndInv, NEW w \in Worker, job[w].order \in Order, NEW v \in Pending .. NoEmployee,
         v = Success => Charged(job[w].order), Conclude(w, v), OnlyReads,
         Fault \/ UNCHANGED faults
  PROVE  IndInv'
<1>1. job' = [job EXCEPT ![w] = Concluding(w, v)]
  BY DEF Conclude, Concluding
<1>2. QED
  BY <1>1, ConcludingTyped, JobStep

(* The statuses are among those of an order. *)
LEMMA Verdicts ==
  /\ Success \in Pending .. NoEmployee /\ Insufficient \in Pending .. NoEmployee
  /\ NoEmployee \in Pending .. NoEmployee
  /\ Insufficient # Success /\ NoEmployee # Success
BY DEF Pending, Success, Insufficient, NoEmployee

(* A preview leaves a goroutine that concludes, or one about to charge. *)
LEMMA PreviewJob ==
  ASSUME IndInv, NEW w \in Worker, At(w, "exists") \/ At(w, "delete"), Preview(w)
  PROVE  \E j \in JobType : JobBacked(j) /\ job' = [job EXCEPT ![w] = j]
<1>1. job[w] \in JobType /\ JobBacked(job[w])
  BY JobHolds
<1>2. CASE job[w].balance < job[w].fee
  <2>1. job' = [job EXCEPT ![w] = Concluding(w, Insufficient)]
    BY <1>2 DEF Preview, Conclude, Concluding
  <2>2. job[w].order \in Order
    BY <1>1 DEF JobBacked, At
  <2>3. QED
    BY <2>1, <2>2, Verdicts, ConcludingTyped
<1>3. CASE ~(job[w].balance < job[w].fee)
  <2> DEFINE j == [job[w] EXCEPT !.pc = "charge", !.balance = 0]
  <2>1. job' = [job EXCEPT ![w] = j]
    BY <1>1, <1>3 DEF Preview, IndInv, TypeOK
  <2>2. 0 \in Int
    OBVIOUS
  <2>3. j \in JobType
    BY <1>1, <2>2 DEF JobType
  <2>4. JobBacked(j)
    BY <1>1 DEF JobBacked, JobType, At
  <2>5. QED
    BY <2>1, <2>3, <2>4
<1>4. QED
  BY <1>2, <1>3

LEMMA TakeKeeps ==
  ASSUME IndInv, NEW w \in Worker, Take(w)
  PROVE  IndInv'
<1>1. PICK row \in queue :
        /\ queue' = queue \ {row}
        /\ job' = [job EXCEPT ![w] = [IdleJob EXCEPT !.pc = "account", !.order = row.order,
                                                     !.post = row.post]]
  BY DEF Take
<1>2. row \in Row /\ queue' \in SUBSET Row
  BY <1>1 DEF IndInv, TypeOK
<1> DEFINE j == [IdleJob EXCEPT !.pc = "account", !.order = row.order, !.post = row.post]
<1>3. j \in JobType
  BY <1>2, IdleTyped DEF Row, JobType
<1>4. j.pc = "account" /\ j.order = row.order /\ j.post = row.post
  BY DEF IdleJob
<1>5. job' = [job EXCEPT ![w] = j]
  BY <1>1
<1> HIDE DEF j
<1>6. JobBacked(j)
  BY <1>2, <1>4 DEF Row, JobBacked
<1>7. job' \in [Worker -> JobType] /\ \A v \in Worker : JobBacked(job'[v])
  BY <1>3, <1>5, <1>6, JobMoved
<1>8. QED
  BY <1>2, <1>7, OtherStep DEF Take, envVars, IndInv, TypeOK, SuccessIsCharged

LEMMA ResolveAccountKeeps ==
  ASSUME IndInv, NEW w \in Worker, ResolveAccount(w)
  PROVE  IndInv'
<1>1. /\ job[w] \in JobType /\ JobBacked(job[w]) /\ job[w].pc = "account"
      /\ job[w].order \in Order
  BY JobHolds DEF ResolveAccount, At, JobBacked
<1>2. CASE Conclude(w, NoEmployee)
  BY <1>1, <1>2, Verdicts, ConcludeStep DEF ResolveAccount
<1>3. CASE ~Conclude(w, NoEmployee)
  <2> DEFINE a == owner[job[w].order]
             j == [job[w] EXCEPT !.pc = "wallet", !.account = a]
  <2>1. a \in Account /\ job' = [job EXCEPT ![w] = j] /\ OnlyReads /\ UNCHANGED faults
    BY <1>1, <1>3 DEF ResolveAccount, IndInv, TypeOK
  <2>2. j \in JobType /\ JobBacked(j)
    BY <1>1, <2>1 DEF JobType, JobBacked
  <2>3. QED
    BY <2>1, <2>2, JobStep
<1>4. QED
  BY <1>2, <1>3

LEMMA ReadWalletKeeps ==
  ASSUME IndInv, NEW w \in Worker, ReadWallet(w)
  PROVE  IndInv'
<1>1. /\ job[w] \in JobType /\ JobBacked(job[w]) /\ job[w].pc = "wallet"
      /\ job[w].account \in Account
  BY JobHolds DEF ReadWallet, At, JobBacked
<1>2. CASE Return(w)
  BY <1>2, ReturnStep DEF ReadWallet
<1>3. CASE ~Return(w)
  <2> DEFINE j == [job[w] EXCEPT !.pc = "items", !.balance = wallet[job[w].account].balance]
  <2>1. job' = [job EXCEPT ![w] = j] /\ OnlyReads /\ UNCHANGED faults
    BY <1>1, <1>3 DEF ReadWallet, IndInv, TypeOK
  <2>2. wallet[job[w].account].balance \in Int
    BY <1>1 DEF IndInv, TypeOK, Wallet
  <2>3. j \in JobType /\ JobBacked(j)
    BY <1>1, <2>2 DEF JobType, JobBacked
  <2>4. QED
    BY <2>1, <2>3, JobStep
<1>4. QED
  BY <1>2, <1>3

LEMMA ReadItemsKeeps ==
  ASSUME IndInv, NEW w \in Worker, ReadItems(w)
  PROVE  IndInv'
<1> DEFINE fee == Fee(job[w].post, parcel[job[w].order].size)
           j == [job[w] EXCEPT !.pc = "exists", !.post = 0, !.fee = fee]
<1>1. /\ job[w] \in JobType /\ JobBacked(job[w]) /\ job[w].pc = "items"
      /\ job[w].order \in Order /\ job[w].post \in Postage
  BY JobHolds DEF ReadItems, At, JobBacked
<1>2. parcel[job[w].order].size \in Size
  BY <1>1 DEF IndInv, TypeOK
<1>3. fee \in Money /\ fee \in Nat
  BY <1>1, <1>2, MoneyNat
<1>4. job' = [job EXCEPT ![w] = j] /\ OnlyReads /\ UNCHANGED faults
  BY <1>1 DEF ReadItems, IndInv, TypeOK
<1> HIDE DEF fee
<1>5. j \in JobType /\ JobBacked(j)
  BY <1>1, <1>3 DEF JobType, JobBacked
<1>6. QED
  BY <1>4, <1>5, JobStep

LEMMA LookupKeeps ==
  ASSUME IndInv, NEW w \in Worker, Lookup(w)
  PROVE  IndInv'
<1>1. /\ job[w] \in JobType /\ JobBacked(job[w]) /\ job[w].pc = "exists"
      /\ job[w].order \in Order /\ OnlyReads /\ (Fault \/ UNCHANGED faults)
  BY JobHolds DEF Lookup, At, JobBacked
<1>2. CASE Preview(w)
  BY <1>1, <1>2, PreviewJob, JobStep DEF At
<1>3. CASE Posted(Deduction(job[w].order)) /\ Conclude(w, Success)
  BY <1>1, <1>3, Verdicts, ConcludeStep DEF Charged
<1>4. CASE job' = [job EXCEPT ![w].pc = "delete"]
  <2> DEFINE j == [job[w] EXCEPT !.pc = "delete"]
  <2>1. job' = [job EXCEPT ![w] = j]
    BY <1>1, <1>4 DEF IndInv, TypeOK
  <2>2. j \in JobType /\ JobBacked(j)
    BY <1>1 DEF JobType, JobBacked
  <2>3. QED
    BY <1>1, <2>1, <2>2, JobStep
<1>5. QED
  BY <1>2, <1>3, <1>4 DEF Lookup

-----------------------------------------------------------------------------
(* The steps of a goroutine that write *)

(* Records and wallets after a step that keeps requests, success records, and
   the goroutines' obligations. *)
LEMMA RecordStep ==
  ASSUME IndInv, NEW w \in Worker,
         UNCHANGED <<request, status, envVars, scanVars>>,
         wallet' \in [Account -> Wallet], record' \in [Flow -> Record],
         \A o \in Order : Charged(o) => Charged(o)',
         \A r \in Recharge : record'[Credit(r)] = record[Credit(r)],
         NEW j \in JobType, JobBacked(j)', job' = [job EXCEPT ![w] = j],
         Fault \/ UNCHANGED faults
  PROVE  IndInv'
<1>1. \A v \in Worker : job'[v] = IF v = w THEN j ELSE job[v]
  BY DEF IndInv, TypeOK
<1>2. \A v \in Worker : JobBacked(job[v])'
  <2>1. ASSUME NEW v \in Worker, v # w PROVE JobBacked(job[v])'
    <3>1. job'[v] = job[v] /\ JobBacked(job[v])
      BY <1>1, <2>1 DEF IndInv
    <3>2. QED
      BY <3>1 DEF JobBacked
  <2>2. JobBacked(job[w])'
    BY <1>1 DEF JobBacked
  <2>3. QED
    BY <2>1, <2>2
<1>3. job' \in [Worker -> JobType] /\ faults' \in Nat
  BY FaultNat DEF IndInv, TypeOK, JobType
<1>4. TypeOK'
  BY <1>3 DEF IndInv, TypeOK, JobType, envVars, scanVars
<1>5. RequestBacked' /\ SuccessIsCharged'
  BY DEF IndInv, RequestBacked, SuccessIsCharged
<1>6. RechargeCreditedIffApproved'
  BY DEF IndInv, RechargeCreditedIffApproved, Posted
<1>7. QED
  BY <1>2, <1>4, <1>5, <1>6 DEF IndInv

LEMMA DeleteRetryableKeeps ==
  ASSUME IndInv, NEW w \in Worker, DeleteRetryable(w)
  PROVE  IndInv'
<1> DEFINE f == Deduction(job[w].order)
<1>1. /\ job[w] \in JobType /\ JobBacked(job[w]) /\ At(w, "delete") /\ Preview(w)
      /\ job[w].order \in Order
  BY JobHolds DEF DeleteRetryable, At, JobBacked
<1>2. PICK j \in JobType : JobBacked(j) /\ job' = [job EXCEPT ![w] = j]
  BY <1>1, PreviewJob
<1>3. record \in [Flow -> Record] /\ NoRecord \in Record /\ f \in Flow
  BY <1>1, Flows DEF IndInv, TypeOK, Record, NoRecord
<1>4. record' = record \/ (~Posted(f) /\ record' = [record EXCEPT ![f] = NoRecord])
  BY DEF DeleteRetryable
<1>5. record' \in [Flow -> Record] /\ \A g \in Flow : Posted(g) => Posted(g)'
  BY <1>3, <1>4 DEF Posted
<1>6. \A o \in Order : Charged(o) => Charged(o)'
  BY <1>5, Flows DEF Charged
<1>7. \A r \in Recharge : record'[Credit(r)] = record[Credit(r)]
  BY <1>3, <1>4, Flows
<1>8. JobBacked(j)'
  BY <1>2, <1>6 DEF JobBacked
<1>9. wallet' \in [Account -> Wallet]
  BY DEF DeleteRetryable, IndInv, TypeOK
<1>10. QED
  BY <1>2, <1>5, <1>6, <1>7, <1>8, <1>9, RecordStep DEF DeleteRetryable

(* What the transaction does when it commits: the record of a flow that had none
   is written, and the fee leaves a balance that covers it. *)
LEMMA ChargeCommits ==
  ASSUME IndInv, NEW w \in Worker, Charge(w)
  PROVE  LET f == Deduction(job[w].order)
             a == job[w].account
             n == job[w].fee
         IN  /\ job[w].order \in Order /\ a \in Account /\ n \in Money
             /\ \/ /\ UNCHANGED <<wallet, record>>
                   /\ Conclude(w, Insufficient) \/ Return(w)
                \/ /\ ~Posted(f) /\ wallet[a].balance >= n
                   /\ record' = [record EXCEPT ![f] =
                                  [status |-> "success", account |-> a, amount |-> n]]
                   /\ wallet' = [wallet EXCEPT ![a].balance = wallet[a].balance - n]
                   /\ Conclude(w, Success)
<1>1. /\ JobBacked(job[w]) /\ job[w].pc = "charge"
  BY JobHolds DEF Charge, At
<1>2. job[w].order \in Order /\ job[w].account \in Account /\ job[w].fee \in Money
  BY <1>1 DEF JobBacked
<1>3. QED
  BY <1>2 DEF Charge, Exists, Posted

LEMMA ChargeKeeps ==
  ASSUME IndInv, NEW w \in Worker, Charge(w)
  PROVE  IndInv'
<1> DEFINE f == Deduction(job[w].order)
           a == job[w].account
           n == job[w].fee
<1>1. job[w].order \in Order /\ a \in Account /\ n \in Nat /\ f \in Flow
  BY ChargeCommits, MoneyNat, Flows
<1>2. CASE UNCHANGED <<wallet, record>> /\ (Conclude(w, Insufficient) \/ Return(w))
  <2>1. OnlyReads /\ UNCHANGED faults
    BY <1>2 DEF Charge, OnlyReads, moneyVars
  <2>2. QED
    BY <1>1, <1>2, <2>1, ReturnStep, ConcludeStep, Verdicts
<1>3. CASE /\ ~Posted(f) /\ wallet[a].balance >= n
           /\ record' = [record EXCEPT ![f] =
                          [status |-> "success", account |-> a, amount |-> n]]
           /\ wallet' = [wallet EXCEPT ![a].balance = wallet[a].balance - n]
           /\ Conclude(w, Success)
  <2>1. [status |-> "success", account |-> a, amount |-> n] \in Record
    BY <1>1 DEF Record
  <2>2. /\ record' \in [Flow -> Record]
        /\ record'[f].status = "success"
        /\ \A g \in Flow : g # f => record'[g] = record[g]
    BY <1>1, <1>3, <2>1 DEF IndInv, TypeOK
  <2>3. wallet' \in [Account -> Wallet]
    <3>1. wallet[a] \in Wallet /\ wallet[a].balance \in Nat
      BY <1>1 DEF IndInv, TypeOK, Wallet
    <3>2. wallet[a].balance - n \in Nat
      BY <1>1, <1>3, <3>1
    <3>3. [wallet[a] EXCEPT !.balance = wallet[a].balance - n] \in Wallet
      BY <3>1, <3>2 DEF Wallet
    <3>4. QED
      BY <1>1, <1>3, <3>3 DEF IndInv, TypeOK
  <2>4. \A o \in Order : Charged(o) => Charged(o)'
    BY <2>2, Flows DEF Charged, Posted
  <2>5. \A r \in Recharge : record'[Credit(r)] = record[Credit(r)]
    BY <2>2, Flows
  <2>6. PICK j \in JobType :
          j.pc = "status" /\ j.order = job[w].order /\ job' = [job EXCEPT ![w] = j]
    <3> DEFINE k == [IdleJob EXCEPT !.pc = "status", !.order = job[w].order,
                                    !.verdict = Success]
    <3>1. k \in JobType
      BY <1>1, IdleTyped, Verdicts DEF JobType
    <3>2. k.pc = "status" /\ k.order = job[w].order
      BY DEF IdleJob
    <3>3. job' = [job EXCEPT ![w] = k]
      BY <1>3 DEF Conclude
    <3> HIDE DEF k
    <3>4. QED
      BY <3>1, <3>2, <3>3
  <2>7. JobBacked(j)'
    <3>1. Charged(j.order)'
      BY <2>2, <2>6 DEF Charged, Posted
    <3>2. QED
      BY <1>1, <2>6, <3>1 DEF JobBacked
  <2>8. QED
    BY <2>2, <2>3, <2>4, <2>5, <2>6, <2>7, RecordStep DEF Charge
<1>4. QED
  BY <1>2, <1>3, ChargeCommits

LEMMA WriteStatusKeeps ==
  ASSUME IndInv, NEW w \in Worker, WriteStatus(w)
  PROVE  IndInv'
<1>1. /\ job[w] \in JobType /\ JobBacked(job[w]) /\ job[w].pc = "status"
      /\ job[w].order \in Order
  BY JobHolds DEF WriteStatus, At, JobBacked
<1>2. job' \in [Worker -> JobType] /\ \A v \in Worker : JobBacked(job'[v])
  BY IdleTyped, JobMoved DEF WriteStatus, Return
<1>3. job[w].verdict \in Pending .. NoEmployee /\ faults' \in Nat
  BY <1>1, FaultNat DEF JobType, WriteStatus, IndInv
<1>4. \A o \in Order : status'[o] = status[o] \/ (o = job[w].order /\ status'[o] = job[w].verdict)
  BY DEF WriteStatus, IndInv, TypeOK
<1>5. \A o \in Order : status'[o] = Success => Charged(o)
  BY <1>1, <1>4 DEF JobBacked, IndInv, SuccessIsCharged
<1>6. status' \in [Order -> Pending .. NoEmployee]
  BY <1>3 DEF WriteStatus, IndInv, TypeOK
<1>7. QED
  BY <1>2, <1>3, <1>5, <1>6, OtherStep DEF WriteStatus, envVars, scanVars, IndInv, TypeOK

(* Every step of a goroutine keeps the invariant. *)
LEMMA DeductStepKeeps ==
  ASSUME IndInv, NEW w \in Worker, DeductStep(w) \/ DeductFault(w)
  PROVE  IndInv'
BY TakeKeeps, ResolveAccountKeeps, ReadWalletKeeps, ReadItemsKeeps, LookupKeeps,
   DeleteRetryableKeeps, ChargeKeeps, WriteStatusKeeps, ReturnStep
   DEF DeductStep, DeductFault, OnlyReads

-----------------------------------------------------------------------------
(* Recharges *)

(* Requests and what they credit, after a step that leaves orders and goroutines
   alone. *)
LEMMA RechargeFrame ==
  ASSUME IndInv, UNCHANGED <<status, envVars, scanVars, job>>,
         request' \in [Recharge -> Request], wallet' \in [Account -> Wallet],
         record' \in [Flow -> Record], RequestBacked', RechargeCreditedIffApproved',
         \A o \in Order : record'[Deduction(o)] = record[Deduction(o)],
         Fault \/ UNCHANGED faults
  PROVE  IndInv'
<1>1. \A o \in Order : Charged(o)' <=> Charged(o)
  BY DEF Charged, Posted
<1>2. \A w \in Worker : JobBacked(job[w])'
  <2>1. ASSUME NEW w \in Worker PROVE JobBacked(job[w])'
    <3>1. JobBacked(job[w]) /\ job'[w] = job[w]
      BY DEF IndInv
    <3>2. QED
      BY <1>1, <3>1 DEF JobBacked
  <2>2. QED
    BY <2>1
<1>3. faults' \in Nat
  BY FaultNat DEF IndInv
<1>4. TypeOK'
  BY <1>3 DEF IndInv, TypeOK, envVars, scanVars
<1>5. SuccessIsCharged'
  BY <1>1 DEF IndInv, SuccessIsCharged
<1>6. QED
  BY <1>2, <1>4, <1>5 DEF IndInv

LEMMA SubmitRechargeKeeps ==
  ASSUME IndInv, NEW r \in Recharge, NEW a \in Account, NEW n \in Deposit,
         SubmitRecharge(r, a, n)
  PROVE  IndInv'
<1>1. wallet' \in [Account -> Wallet]
  <2>1. \A v \in Wallet : [v EXCEPT !.open = TRUE] \in Wallet
    BY DEF Wallet
  <2>2. \/ wallet' = [wallet EXCEPT ![a] = [wallet[a] EXCEPT !.open = TRUE]]
        \/ wallet' = wallet
    BY DEF SubmitRecharge, IndInv, TypeOK
  <2>3. QED
    BY <2>1, <2>2 DEF IndInv, TypeOK
<1>2. request' \in [Recharge -> Request]
  <2>1. [status |-> "pending", account |-> a, amount |-> n] \in Request
    BY DEF Request
  <2>2. QED
    BY <2>1 DEF SubmitRecharge, IndInv, TypeOK
<1>3. \A s \in Recharge : \/ request'[s] = request[s]
                          \/ /\ s = r /\ request[s].status = "none"
                             /\ request'[s].status = "pending"
                             /\ request'[s].account = a /\ request'[s].amount = n
  BY DEF SubmitRecharge, IndInv, TypeOK
<1>4. RequestBacked'
  BY <1>3 DEF IndInv, RequestBacked
<1>5. RechargeCreditedIffApproved'
  BY <1>3 DEF SubmitRecharge, IndInv, RechargeCreditedIffApproved, Posted
<1>6. QED
  BY <1>1, <1>2, <1>4, <1>5, RechargeFrame DEF SubmitRecharge, IndInv, TypeOK

LEMMA RejectRechargeKeeps ==
  ASSUME IndInv, NEW r \in Recharge, RejectRecharge(r)
  PROVE  IndInv'
<1>1. request' \in [Recharge -> Request]
  <2>1. \A q \in Request : [q EXCEPT !.status = "rejected"] \in Request
    BY DEF Request
  <2>2. request' = [request EXCEPT ![r] = [request[r] EXCEPT !.status = "rejected"]]
    BY DEF RejectRecharge, IndInv, TypeOK
  <2>3. QED
    BY <2>1, <2>2 DEF IndInv, TypeOK
<1>2. /\ request[r].status = "pending" /\ request'[r].status = "rejected"
      /\ request'[r].account = request[r].account /\ request'[r].amount = request[r].amount
      /\ \A s \in Recharge : s # r => request'[s] = request[s]
  BY DEF RejectRecharge, IndInv, TypeOK, Request
<1>3. RequestBacked'
  BY <1>2 DEF IndInv, RequestBacked
<1>4. RechargeCreditedIffApproved'
  BY <1>2 DEF RejectRecharge, IndInv, RechargeCreditedIffApproved, Posted
<1>5. QED
  BY <1>1, <1>3, <1>4, RechargeFrame DEF RejectRecharge, IndInv, TypeOK

LEMMA ApproveRechargeKeeps ==
  ASSUME IndInv, NEW r \in Recharge, ApproveRecharge(r)
  PROVE  IndInv'
<1> DEFINE a == request[r].account
           n == request[r].amount
           f == Credit(r)
<1>1. a \in Account /\ n \in Nat /\ f \in Flow
  BY Flows DEF ApproveRecharge, IndInv, RequestBacked
<1>2. request' \in [Recharge -> Request]
  BY DEF ApproveRecharge, IndInv, TypeOK, Request
<1>3. wallet' \in [Account -> Wallet]
  <2>1. wallet[a] \in Wallet
    BY <1>1 DEF IndInv, TypeOK
  <2>2. wallet[a].balance + n \in Nat
    BY <1>1, <2>1 DEF Wallet
  <2>3. wallet' = [wallet EXCEPT ![a] = [open |-> TRUE, balance |-> wallet[a].balance + n]]
    BY <1>1 DEF ApproveRecharge, IndInv, TypeOK
  <2>4. QED
    BY <1>1, <2>2, <2>3 DEF IndInv, TypeOK, Wallet
<1>4. /\ record' \in [Flow -> Record]
      /\ record'[f] = [status |-> "success", account |-> a, amount |-> n]
      /\ \A g \in Flow : g # f => record'[g] = record[g]
  <2>1. [status |-> "success", account |-> a, amount |-> n] \in Record
    BY <1>1 DEF Record
  <2>2. QED
    BY <1>1, <2>1 DEF ApproveRecharge, IndInv, TypeOK
<1>5. /\ request'[r].status = "approved" /\ request'[r].account = a /\ request'[r].amount = n
      /\ \A s \in Recharge : s # r => request'[s] = request[s]
      /\ request[r].status = "pending"
  BY DEF ApproveRecharge, IndInv, TypeOK, Request
<1>6. RequestBacked'
  BY <1>5 DEF IndInv, RequestBacked
<1>7. RechargeCreditedIffApproved'
  <2>1. \A s \in Recharge : s # r => record'[Credit(s)] = record[Credit(s)]
    BY <1>4, Flows
  <2>2. QED
    BY <1>4, <1>5, <2>1 DEF IndInv, RechargeCreditedIffApproved, Posted
<1>8. \A o \in Order : record'[Deduction(o)] = record[Deduction(o)]
  BY <1>4, Flows
<1>9. QED
  BY <1>2, <1>3, <1>4, <1>6, <1>7, <1>8, RechargeFrame DEF ApproveRecharge

-----------------------------------------------------------------------------
(* Orders, the scan, and a crash *)

LEMMA OrderStepKeeps == IndInv /\ OrderStep => IndInv'
<1> SUFFICES ASSUME IndInv, OrderStep PROVE IndInv'
  OBVIOUS
<1>1. job' \in [Worker -> JobType] /\ \A w \in Worker : JobBacked(job'[w])
  BY DEF IndInv, TypeOK, JobType, OrderStep, SyncOrder, AssignShop
<1>2. PICK o \in Order :
        \/ \E shipped \in BOOLEAN, p \in [post : Postage, size : Size] : SyncOrder(o, shipped, p)
        \/ \E a \in Account \cup {NoAccount} : AssignShop(o, a)
  BY DEF OrderStep
<1>3. CASE \E shipped \in BOOLEAN, p \in [post : Postage, size : Size] : SyncOrder(o, shipped, p)
  BY <1>1, <1>3, OtherStep DEF SyncOrder, scanVars, IndInv, TypeOK, SuccessIsCharged
<1>4. CASE \E a \in Account \cup {NoAccount} : AssignShop(o, a)
  BY <1>1, <1>4, OtherStep DEF AssignShop, scanVars, IndInv, TypeOK, SuccessIsCharged
<1>5. QED
  BY <1>2, <1>3, <1>4

(* The rows a stream reads are rows. *)
LEMMA RowsTyped ==
  ASSUME TypeOK, NEW S \in SUBSET Order
  PROVE  Rows(S) \in SUBSET Row
BY DEF TypeOK, Rows, Row

LEMMA ScanStepKeeps == IndInv /\ ScanStep => IndInv'
<1> SUFFICES ASSUME IndInv, ScanStep PROVE IndInv'
  OBVIOUS
<1>1. job' \in [Worker -> JobType] /\ \A w \in Worker : JobBacked(job'[w])
  BY DEF IndInv, TypeOK, JobType, ScanStep, StreamPendingOrders, StreamInsufficientOrders, EndScan
<1>2. queue' \in SUBSET Row
  <2>1. \A S \in SUBSET Order : Rows(S) \in SUBSET Row
    BY RowsTyped DEF IndInv
  <2>2. /\ {o \in sent : status[o] = Pending} \in SUBSET Order
        /\ {o \in Order : status[o] = Insufficient} \in SUBSET Order
    BY DEF IndInv, TypeOK
  <2>3. CASE StreamPendingOrders
    BY <2>1, <2>2, <2>3 DEF StreamPendingOrders
  <2>4. CASE StreamInsufficientOrders
    BY <2>1, <2>2, <2>4 DEF StreamInsufficientOrders
  <2>5. CASE EndScan
    BY <2>5 DEF EndScan, IndInv, TypeOK
  <2>6. QED
    BY <2>3, <2>4, <2>5 DEF ScanStep
<1>3. phase' \in {"none", "pending", "retry"}
  BY DEF ScanStep, StreamPendingOrders, StreamInsufficientOrders, EndScan
<1>4. UNCHANGED <<moneyVars, status, envVars, faults>>
  BY DEF ScanStep, StreamPendingOrders, StreamInsufficientOrders, EndScan
<1>5. QED
  BY <1>1, <1>2, <1>3, <1>4, OtherStep DEF envVars, IndInv, TypeOK, SuccessIsCharged

LEMMA CrashKeeps == IndInv /\ Crash => IndInv'
<1> SUFFICES ASSUME IndInv, Crash PROVE IndInv'
  OBVIOUS
<1>1. job' \in [Worker -> JobType] /\ \A w \in Worker : JobBacked(job'[w])
  BY IdleTyped DEF Crash
<1>2. faults' \in Nat
  BY FaultNat DEF Crash, IndInv
<1>3. QED
  BY <1>1, <1>2, OtherStep DEF Crash, envVars, IndInv, TypeOK, SuccessIsCharged

LEMMA StutterKeeps == IndInv /\ UNCHANGED vars => IndInv'
BY DEF IndInv, TypeOK, RequestBacked, RechargeCreditedIffApproved, SuccessIsCharged, JobBacked,
       Charged, Posted, vars, moneyVars, envVars, scanVars

(* Every step keeps the invariant. *)
LEMMA NextIndInv == IndInv /\ [Next]_vars => IndInv'
<1> SUFFICES ASSUME IndInv, [Next]_vars PROVE IndInv'
  OBVIOUS
<1>1. CASE RechargeStep
  BY <1>1, SubmitRechargeKeeps, ApproveRechargeKeeps, RejectRechargeKeeps DEF RechargeStep
<1>2. CASE OrderStep \/ ScanStep \/ Crash \/ UNCHANGED vars
  BY <1>2, OrderStepKeeps, ScanStepKeeps, CrashKeeps, StutterKeeps
<1>3. CASE \E w \in Worker : DeductStep(w) \/ DeductFault(w)
  BY <1>3, DeductStepKeeps
<1>4. QED
  BY <1>1, <1>2, <1>3 DEF Next

-----------------------------------------------------------------------------
(* What follows *)

(* IndInv holds in every reachable state of the warehouse billing. *)
THEOREM Invariance == Spec => []IndInv
<1>1. Init => IndInv
  BY InitIndInv
<1>2. IndInv /\ [Next]_vars => IndInv'
  BY NextIndInv
<1>3. QED
  BY <1>1, <1>2, PTL DEF Spec

(* RechargeCreditedIffApproved: two administrators at one request, or a fault
   between the statements, never credit it twice or not at all. *)
THEOREM RechargeCorrect == Spec => []RechargeCreditedIffApproved
<1>1. IndInv => RechargeCreditedIffApproved
  BY DEF IndInv
<1>2. QED
  BY <1>1, Invariance, PTL

(* SuccessIsCharged: an order whose warehouse_status says charged has been
   charged, whatever goroutine wrote it, from however old a read. *)
THEOREM StatusCorrect == Spec => []SuccessIsCharged
<1>1. IndInv => SuccessIsCharged
  BY DEF IndInv
<1>2. QED
  BY <1>1, Invariance, PTL

-----------------------------------------------------------------------------
(* Warehouse implements Ledger: of all its steps only ApproveRecharge and Charge
   move money, and each posts one flow. *)

(* The flow numbers of the ledger. *)
LEMMA LedgerFlows ==
  /\ L!Flow = Flow \cup ({"R"} \X Order)
  /\ \A o : L!Deduction(o) = Deduction(o)
  /\ \A r : L!Credit(r) = Credit(r)
BY DEF L!Flow, Flow, L!Deduction, Deduction, L!Credit, Credit

LEMMA InitLedger == Init => L!Init
<1> SUFFICES ASSUME Init PROVE L!Init
  OBVIOUS
<1>1. \A f \in Flow : ~Posted(f)
  BY DEF Init, Posted, NoRecord, OldRecord
<1>2. \A a \in Account : wallet[a].balance = 0
  BY DEF Init
<1>3. {f \in Flow : Posted(f)} = {}
  BY <1>1
<1>4. QED
  BY <1>1, <1>2, <1>3, LedgerFlows DEF L!Init

(* A step keeps the books if it keeps balances and success records. *)
LEMMA BooksKept ==
  ASSUME \A a \in Account : wallet'[a].balance = wallet[a].balance,
         \A f \in Flow : /\ Posted(f)' <=> Posted(f)
                         /\ Posted(f) => record'[f] = record[f]
  PROVE  UNCHANGED L!vars
<1>1. {f \in Flow : Posted(f)}' = {f \in Flow : Posted(f)}
  OBVIOUS
<1>2. [a \in Account |-> wallet[a].balance]' = [a \in Account |-> wallet[a].balance]
  OBVIOUS
<1>3. /\ [f \in Flow \cup ({"R"} \X Order) |->
            IF f \in Flow /\ Posted(f) THEN record[f].account ELSE NoAccount]'
           = [f \in Flow \cup ({"R"} \X Order) |->
               IF f \in Flow /\ Posted(f) THEN record[f].account ELSE NoAccount]
      /\ [f \in Flow \cup ({"R"} \X Order) |->
            IF f \in Flow /\ Posted(f) THEN record[f].amount ELSE 0]'
           = [f \in Flow \cup ({"R"} \X Order) |->
               IF f \in Flow /\ Posted(f) THEN record[f].amount ELSE 0]
  OBVIOUS
<1>4. QED
  BY <1>1, <1>2, <1>3 DEF L!vars

(* A step posts a flow if it writes its success record and moves the balance
   by it. *)
LEMMA PostsFlow ==
  ASSUME TypeOK, NEW f \in Flow, NEW a \in Account, NEW n \in Nat,
         ~Posted(f),
         record' = [record EXCEPT ![f] = [status |-> "success", account |-> a, amount |-> n]],
         wallet'[a].balance = wallet[a].balance + L!Signed(f, n),
         wallet'[a].balance >= 0,
         \A b \in Account : b # a => wallet'[b].balance = wallet[b].balance
  PROVE  L!Post(f, a, n)
<1>1. /\ record'[f].status = "success" /\ record'[f].account = a /\ record'[f].amount = n
      /\ \A g \in Flow : g # f => record'[g] = record[g]
  BY DEF TypeOK
<1>2. Posted(f)' /\ \A g \in Flow : g # f => (Posted(g)' <=> Posted(g))
  BY <1>1 DEF Posted
<1>3. {g \in Flow : Posted(g)}' = {g \in Flow : Posted(g)} \cup {f}
  BY <1>2
<1>4. [b \in Account |-> wallet[b].balance]'
        = [[b \in Account |-> wallet[b].balance] EXCEPT ![a] = @ + L!Signed(f, n)]
  OBVIOUS
<1>5. [g \in Flow \cup ({"R"} \X Order) |->
        IF g \in Flow /\ Posted(g) THEN record[g].account ELSE NoAccount]'
        = [[g \in Flow \cup ({"R"} \X Order) |->
            IF g \in Flow /\ Posted(g) THEN record[g].account ELSE NoAccount] EXCEPT ![f] = a]
  <2>1. \A g \in Flow \cup ({"R"} \X Order) :
          (IF g \in Flow /\ Posted(g) THEN record[g].account ELSE NoAccount)'
          = IF g = f THEN a
            ELSE IF g \in Flow /\ Posted(g) THEN record[g].account ELSE NoAccount
    BY <1>1, <1>2
  <2>2. QED
    BY <2>1
<1>6. [g \in Flow \cup ({"R"} \X Order) |->
        IF g \in Flow /\ Posted(g) THEN record[g].amount ELSE 0]'
        = [[g \in Flow \cup ({"R"} \X Order) |->
            IF g \in Flow /\ Posted(g) THEN record[g].amount ELSE 0] EXCEPT ![f] = n]
  <2>1. \A g \in Flow \cup ({"R"} \X Order) :
          (IF g \in Flow /\ Posted(g) THEN record[g].amount ELSE 0)'
          = IF g = f THEN n ELSE IF g \in Flow /\ Posted(g) THEN record[g].amount ELSE 0
    BY <1>1, <1>2
  <2>2. QED
    BY <2>1
<1>7. [b \in Account |-> wallet[b].balance][a] + L!Signed(f, n) >= 0
  OBVIOUS
<1>8. f \notin {g \in Flow : Posted(g)}
  OBVIOUS
<1>9. QED
  BY <1>3, <1>4, <1>5, <1>6, <1>7, <1>8 DEF L!Post

(* Fees are taken, recharges given. *)
LEMMA SignedAmounts ==
  ASSUME NEW n \in Nat
  PROVE  /\ \A o : L!Signed(Deduction(o), n) = 0 - n
         /\ \A r : L!Signed(Credit(r), n) = n
BY DEF L!Signed, Deduction, Credit

(* Approval posts the request's credit. *)
LEMMA ApproveRechargePosts ==
  ASSUME IndInv, NEW r \in Recharge, ApproveRecharge(r)
  PROVE  L!Next
<1>1. PICK a \in Account : a = request[r].account
  BY DEF ApproveRecharge, IndInv, RequestBacked
<1>2. PICK n \in Deposit : n = request[r].amount
  BY DEF ApproveRecharge, IndInv, RequestBacked
<1>3. n \in Nat /\ n \in Money /\ Credit(r) \in Flow
  BY Flows DEF Money
<1>4. ~Posted(Credit(r))
  BY DEF ApproveRecharge, IndInv, RechargeCreditedIffApproved
<1>5. record' = [record EXCEPT ![Credit(r)] =
                  [status |-> "success", account |-> a, amount |-> n]]
  BY <1>1, <1>2 DEF ApproveRecharge
<1>6. wallet' = [wallet EXCEPT ![a] = [open |-> TRUE, balance |-> wallet[a].balance + n]]
  BY <1>1, <1>2 DEF ApproveRecharge, IndInv, TypeOK
<1>7. wallet[a].balance \in Nat /\ TypeOK
  BY DEF IndInv, TypeOK, Wallet
<1>8. /\ wallet'[a].balance = wallet[a].balance + n
      /\ \A b \in Account : b # a => wallet'[b].balance = wallet[b].balance
  BY <1>6, <1>7 DEF TypeOK
<1>9. /\ wallet'[a].balance = wallet[a].balance + L!Signed(Credit(r), n)
      /\ wallet'[a].balance >= 0
  BY <1>3, <1>7, <1>8, SignedAmounts
<1>10. L!Post(Credit(r), a, n)
  BY <1>3, <1>4, <1>5, <1>7, <1>8, <1>9, PostsFlow
<1>11. L!TopUp(r, a, n)
  BY <1>10, LedgerFlows DEF L!TopUp
<1>12. QED
  BY <1>3, <1>11 DEF L!Next

(* The deduction transaction posts the order's fee or nothing. *)
LEMMA ChargePosts ==
  ASSUME IndInv, NEW w \in Worker, Charge(w)
  PROVE  L!Next \/ UNCHANGED <<wallet, record>>
<1>1. PICK o \in Order : o = job[w].order
  BY ChargeCommits
<1>2. PICK a \in Account : a = job[w].account
  BY ChargeCommits
<1>3. PICK n \in Money : n = job[w].fee
  BY ChargeCommits
<1>4. SUFFICES ASSUME /\ ~Posted(Deduction(o)) /\ wallet[a].balance >= n
                      /\ record' = [record EXCEPT ![Deduction(o)] =
                                     [status |-> "success", account |-> a, amount |-> n]]
                      /\ wallet' = [wallet EXCEPT ![a].balance = wallet[a].balance - n]
               PROVE  L!Next
  BY <1>1, <1>2, <1>3, ChargeCommits
<1>5. n \in Nat /\ Deduction(o) \in Flow
  BY MoneyNat, Flows
<1>6. wallet[a].balance \in Nat /\ TypeOK
  BY DEF IndInv, TypeOK, Wallet
<1>7. /\ wallet'[a].balance = wallet[a].balance - n
      /\ \A b \in Account : b # a => wallet'[b].balance = wallet[b].balance
  BY <1>4, <1>6 DEF TypeOK, Wallet
<1>8. /\ wallet'[a].balance = wallet[a].balance + L!Signed(Deduction(o), n)
      /\ wallet'[a].balance >= 0
  BY <1>4, <1>5, <1>6, <1>7, SignedAmounts
<1>9. L!Post(Deduction(o), a, n)
  BY <1>4, <1>5, <1>6, <1>7, <1>8, PostsFlow
<1>10. L!Deduct(o, a, n)
  BY <1>9, LedgerFlows DEF L!Deduct
<1>11. QED
  BY <1>10 DEF L!Next

(* Deleting an unsuccessful record, or opening a wallet, is nothing to the books. *)
LEMMA DeleteRetryableStutters ==
  ASSUME IndInv, NEW w \in Worker, DeleteRetryable(w)
  PROVE  UNCHANGED L!vars
<1> DEFINE f == Deduction(job[w].order)
<1>1. record' = record \/ (~Posted(f) /\ record' = [record EXCEPT ![f] = NoRecord])
  BY DEF DeleteRetryable
<1>2. f \in Flow
  BY JobHolds, Flows DEF DeleteRetryable, At, JobBacked
<1>3. CASE record' = record
  BY <1>3, BooksKept DEF DeleteRetryable, Posted
<1>4. CASE ~Posted(f) /\ record' = [record EXCEPT ![f] = NoRecord]
  <2>1. /\ record'[f].status = "none"
        /\ \A g \in Flow : g # f => record'[g] = record[g]
    BY <1>2, <1>4 DEF IndInv, TypeOK, NoRecord
  <2>2. \A g \in Flow : /\ Posted(g)' <=> Posted(g)
                        /\ Posted(g) => record'[g] = record[g]
    BY <1>4, <2>1 DEF Posted
  <2>3. QED
    BY <2>2, BooksKept DEF DeleteRetryable
<1>5. QED
  BY <1>1, <1>3, <1>4

LEMMA SubmitRechargeStutters ==
  ASSUME IndInv, NEW r \in Recharge, NEW a \in Account, NEW n \in Deposit,
         SubmitRecharge(r, a, n)
  PROVE  UNCHANGED L!vars
<1>1. \A b \in Account : wallet'[b].balance = wallet[b].balance
  <2>1. wallet' = [wallet EXCEPT ![a].open = TRUE] \/ wallet' = wallet
    BY DEF SubmitRecharge
  <2>2. [wallet EXCEPT ![a].open = TRUE] = [wallet EXCEPT ![a] = [wallet[a] EXCEPT !.open = TRUE]]
    OBVIOUS
  <2>3. [wallet[a] EXCEPT !.open = TRUE].balance = wallet[a].balance
    BY DEF IndInv, TypeOK, Wallet
  <2>4. QED
    BY <2>1, <2>2, <2>3 DEF IndInv, TypeOK
<1>2. UNCHANGED record
  BY DEF SubmitRecharge
<1>3. QED
  BY <1>1, <1>2, BooksKept DEF Posted

(* The same for whatever leaves wallets and records alone. *)
LEMMA MoneyKept == UNCHANGED <<wallet, record>> => UNCHANGED L!vars
BY BooksKept DEF Posted

LEMMA NextPosts == IndInv /\ [Next]_vars => [L!Next]_(L!vars)
<1> SUFFICES ASSUME IndInv, [Next]_vars PROVE L!Next \/ UNCHANGED L!vars
  OBVIOUS
<1>1. CASE RechargeStep
  BY <1>1, SubmitRechargeStutters, ApproveRechargePosts, MoneyKept
     DEF RechargeStep, RejectRecharge
<1>2. CASE OrderStep \/ ScanStep \/ Crash \/ UNCHANGED vars
  BY <1>2, MoneyKept DEF OrderStep, SyncOrder, AssignShop, ScanStep, StreamPendingOrders,
     StreamInsufficientOrders, EndScan, Crash, vars, moneyVars
<1>3. ASSUME NEW w \in Worker, DeductStep(w) \/ DeductFault(w)
      PROVE  L!Next \/ UNCHANGED L!vars
  <2>1. CASE DeleteRetryable(w) \/ Charge(w)
    BY <2>1, DeleteRetryableStutters, ChargePosts, MoneyKept
  <2>2. CASE ~(DeleteRetryable(w) \/ Charge(w))
    BY <1>3, <2>2, MoneyKept DEF DeductStep, DeductFault, Take, ResolveAccount, ReadWallet,
       ReadItems, Lookup, WriteStatus, OnlyReads, moneyVars
  <2>3. QED
    BY <2>1, <2>2
<1>4. QED
  BY <1>1, <1>2, <1>3 DEF Next

(* ImplementsLedger: the warehouse wallets keep the books of the ledger, for any
   number of accounts, orders and goroutines and any number of faults. *)
THEOREM Implementation == Spec => ImplementsLedger
<1>1. Init => L!Init
  BY InitLedger
<1>2. IndInv /\ [Next]_vars => [L!Next]_(L!vars)
  BY NextPosts
<1>3. QED
  BY <1>1, <1>2, Invariance, PTL DEF Spec, ImplementsLedger, L!Spec
=============================================================================
