------------------------------ MODULE OrderSync ------------------------------
(***************************************************************************)
(* The order sync and the after-sale sync of sync_service.go: a window     *)
(* behind a watermark is fetched from the ERP page by page, each order of  *)
(* it is upserted, and the watermark moves.  The ticker and SyncNow may do *)
(* so at the same time, and the ERP goes on changing its orders.           *)
(*                                                                         *)
(* The program runs this twice, for domestic and for foreign trade, on     *)
(* rows and watermarks of their own; a behaviour is about one of the two.  *)
(*                                                                         *)
(* Left out: what an order consists of.  A version number stands for all   *)
(* columns the upsert takes from the ERP, "closed" for process_status 99,  *)
(* which only the after-sale sync writes and every upsert overwrites.      *)
(***************************************************************************)
EXTENDS Integers, Sequences, FiniteSets

CONSTANTS
  Order,       \* numbers of the orders, in the sequence the ERP lists them
  Syncer,      \* the ticker's goroutine and the requests that call SyncNow
  PageSize,    \* maxPageSize
  Overlap,     \* how far a window reaches behind the watermark
  MaxVersion,  \* bound: versions of an order
  MaxTime,     \* bound: the clock
  MaxFaults    \* bound: failed calls and statements, and process crashes

ASSUME OrderSyncAssumption ==
  /\ Order \subseteq Nat /\ IsFiniteSet(Order)
  /\ PageSize \in Nat \ {0}
  /\ Overlap \in Nat
  /\ MaxVersion \in Nat /\ MaxTime \in Nat /\ MaxFaults \in Nat

VARIABLES
  channel,    \* which of the two services this is
  clock,
  erp,        \* erp[o]: the order in the ERP
  bill,       \* bill[o]: its after-sale bill in the fifteen-day window
  row,        \* row[o]: the order_trade row
  watermark,  \* last_sync_time of sync_state, 0 when there is none
  sync,       \* sync[s]: the local state of a running sync
  returns,    \* orders the running after-sale sync has still to mark
  faults,     \* faults so far
  excused     \* history: orders a named event has let slip behind the watermark

erpVars == <<channel, clock, erp, bill>>
vars == <<erpVars, row, watermark, sync, returns, faults, excused>>

-----------------------------------------------------------------------------
(* Data *)

Kind == {"unpaid", "paid", "deleted"}

NoRow == [version |-> 0, closed |-> FALSE]
Idle == [pc |-> "idle", from |-> 0, now |-> 0, page |-> 0, got |-> <<>>]

Fetched == [order : Order, version : 1 .. MaxVersion, kind : Kind]

Init ==
  /\ channel \in {"domestic", "foreign"}
  /\ clock = 1
  /\ erp = [o \in Order |-> [version |-> 0, at |-> 0, kind |-> "unpaid"]]
  /\ bill = [o \in Order |-> "none"]
  /\ row = [o \in Order |-> NoRow]
  /\ watermark = 0
  /\ sync = [s \in Syncer |-> Idle]
  /\ returns = {}
  /\ faults = 0
  /\ excused = {}

Fault == faults < MaxFaults /\ faults' = faults + 1

(* The orders saveOrders and saveForeignOrders leave out. *)
DomesticSkips(kind) == kind = "unpaid"
ForeignSkips(kind) == kind \in {"deleted", "unpaid"}

Skips(kind) ==
  IF channel = "foreign" THEN ForeignSkips(kind) ELSE DomesticSkips(kind)

Storable(o) == erp[o].version > 0 /\ ~Skips(erp[o].kind)
Stored(o) == row[o].version = erp[o].version

Busy(s) == sync[s].pc # "idle"

(* The window is inclusive at both ends. *)
InWindow(s, o) ==
  erp[o].version > 0 /\ erp[o].at >= sync[s].from /\ erp[o].at <= sync[s].now

-----------------------------------------------------------------------------
(* The ERP *)

Tick ==
  /\ clock < MaxTime
  /\ clock' = clock + 1
  /\ UNCHANGED <<channel, erp, bill, row, watermark, sync, returns, faults, excused>>

(* Orders that are still to be fetched when o leaves the window of a sync that
   has fetched a page already: o's place is taken and a page skips one. *)
Displaced(o) ==
  {p \in Order \ {o} : \E s \in Syncer :
     /\ sync[s].pc = "fetch" /\ sync[s].page > 1
     /\ clock > sync[s].now
     /\ InWindow(s, o) /\ InWindow(s, p)
     /\ \A i \in DOMAIN sync[s].got : sync[s].got[i].order # p}

(* An order is placed, paid, deleted (foreign trade), or changed otherwise. *)
Modify(o, kind) ==
  /\ erp[o].version < MaxVersion
  /\ erp[o].kind = "paid" => kind # "unpaid"
  /\ kind = "deleted" => channel = "foreign" /\ erp[o].version > 0
  /\ erp[o].kind # "deleted"
  /\ erp' = [erp EXCEPT ![o] = [version |-> @.version + 1, at |-> clock, kind |-> kind]]
  /\ excused' = (excused \cup Displaced(o)) \ {o}
  /\ UNCHANGED <<channel, clock, bill, row, watermark, sync, returns, faults>>

(* A paid order gets an after-sale bill, which leaves the window in the end. *)
FileBill(o, b) ==
  /\ erp[o].version > 0 /\ erp[o].kind = "paid"
  /\ bill[o] = "none"
  /\ bill' = [bill EXCEPT ![o] = b]
  /\ UNCHANGED <<channel, clock, erp, row, watermark, sync, returns, faults, excused>>

ExpireBill(o) ==
  /\ bill[o] \in {"return", "other"}
  /\ bill' = [bill EXCEPT ![o] = "expired"]
  /\ UNCHANGED <<channel, clock, erp, row, watermark, sync, returns, faults, excused>>

-----------------------------------------------------------------------------
(* Order sync *)

(* The first window covers the last seven days, which is everything here. *)
WindowStart == IF watermark = 0 THEN 0 ELSE watermark - Overlap

(* The end of the window is taken before anything is fetched. *)
Begin(s) ==
  /\ ~Busy(s)
  /\ sync' = [sync EXCEPT ![s] =
       [pc |-> "fetch", from |-> WindowStart, now |-> clock, page |-> 1, got |-> <<>>]]
  /\ UNCHANGED <<erpVars, row, watermark, returns, faults, excused>>

StartSync(s) == channel = "domestic" /\ Begin(s)
StartForeignSync(s) == channel = "foreign" /\ Begin(s)

Window(s) == {o \in Order : InWindow(s, o)}

(* The ERP lists the window by number. *)
Place(s, o) == Cardinality({p \in Window(s) : p <= o})

(* What the ERP answers now: the page of the orders now in the window. *)
Page(s) ==
  LET before == (sync[s].page - 1) * PageSize
      left == Cardinality(Window(s)) - before
      Listed(i) == CHOOSE o \in Window(s) : Place(s, o) = before + i
  IN  [i \in 1 .. (IF left < PageSize THEN left ELSE PageSize) |->
        [order |-> Listed(i), version |-> erp[Listed(i)].version, kind |-> erp[Listed(i)].kind]]

(* A page that is not full is the last one. *)
FetchNext(s) ==
  LET page == Page(s)
      got == sync[s].got \o page
  IN  /\ sync[s].pc = "fetch"
      /\ sync' = [sync EXCEPT
           ![s].got = got,
           ![s].page = @ + 1,
           ![s].pc = IF Len(page) = PageSize THEN "fetch"
                     ELSE IF got = <<>> THEN "advance" ELSE "save"]
      /\ UNCHANGED <<erpVars, row, watermark, returns, faults, excused>>

FetchPage(s) == channel = "domestic" /\ FetchNext(s)
FetchForeignPage(s) == channel = "foreign" /\ FetchNext(s)

(* A page that fails ends the sync; the watermark stays. *)
FetchFault(s) ==
  /\ sync[s].pc = "fetch"
  /\ Fault
  /\ sync' = [sync EXCEPT ![s] = Idle]
  /\ UNCHANGED <<erpVars, row, watermark, returns, excused>>

(* Slip: an insert that leaves a row alone that exists. *)
InsertRow(f) ==
  IF row[f.order] = NoRow
  THEN [row EXCEPT ![f.order] = [version |-> f.version, closed |-> FALSE]]
  ELSE row

(* The upsert overwrites a newer version as well, and process_status. *)
UpsertTrade(f) == [row EXCEPT ![f.order] = [version |-> f.version, closed |-> FALSE]]

(* The next fetched order is skipped, or upserted, or fails to be and is
   passed over.  The stale version of a sync that takes longer than the overlap
   may bury one whose window has gone by. *)
SaveNext(s, skipped) ==
  LET f == Head(sync[s].got)
      o == f.order
      rest == Tail(sync[s].got)
  IN  /\ sync[s].pc = "save"
      /\ sync' = [sync EXCEPT ![s].got = rest,
                              ![s].pc = IF rest = <<>> THEN "advance" ELSE "save"]
      /\ \/ /\ skipped
            /\ UNCHANGED <<row, faults, excused>>
         \/ /\ ~skipped
            /\ row' = UpsertTrade(f)
            /\ excused' = IF f.version = erp[o].version THEN excused \ {o}
                          ELSE IF clock > sync[s].now + Overlap THEN excused \cup {o}
                          ELSE excused
            /\ UNCHANGED faults
         \/ /\ ~skipped
            /\ Fault
            /\ excused' = excused \cup {o}
            /\ UNCHANGED row
      /\ UNCHANGED <<erpVars, watermark, returns>>

SaveOrder(s) ==
  channel = "domestic" /\ SaveNext(s, DomesticSkips(Head(sync[s].got).kind))

SaveForeignOrder(s) ==
  channel = "foreign" /\ SaveNext(s, ForeignSkips(Head(sync[s].got).kind))

(* Slip: the time is taken when the sync is done. *)
AdvanceToClock(s) ==
  /\ sync[s].pc = "advance"
  /\ watermark' = clock
  /\ sync' = [sync EXCEPT ![s] = Idle]
  /\ UNCHANGED <<erpVars, row, returns, faults, excused>>

(* The watermark is written whatever it is by now, and an error is dropped. *)
Advance(s) ==
  /\ sync[s].pc = "advance"
  /\ \/ watermark' = sync[s].now /\ UNCHANGED faults
     \/ Fault /\ UNCHANGED watermark
  /\ sync' = [sync EXCEPT ![s] = Idle]
  /\ UNCHANGED <<erpVars, row, returns, excused>>

-----------------------------------------------------------------------------
(* After-sale sync *)

Returned(o) == bill[o] = "return"

(* Slip: the bills are read behind the order sync's watermark. *)
BeginRecentReturns ==
  /\ returns = {}
  /\ returns' = {o \in Order : Returned(o) /\ erp[o].at >= watermark - Overlap}
  /\ UNCHANGED <<erpVars, row, watermark, sync, faults, excused>>

(* Any failed page ends the round; the list of bills is small and each stays in
   the window for fifteen days, so it is read in one step. *)
BeginReturns ==
  /\ returns = {}
  /\ returns' = {o \in Order : Returned(o)}
  /\ UNCHANGED <<erpVars, row, watermark, sync, faults, excused>>

StartAfterSaleSync == channel = "domestic" /\ BeginReturns
StartForeignAfterSaleSync == channel = "foreign" /\ BeginReturns

(* One conditional update: nothing happens when there is no such order yet. *)
CloseRow(o) == IF row[o] = NoRow THEN row ELSE [row EXCEPT ![o].closed = TRUE]

MarkAfterSaleComplete(o) ==
  /\ o \in returns
  /\ returns' = returns \ {o}
  /\ \/ row' = CloseRow(o) /\ UNCHANGED faults
     \/ Fault /\ UNCHANGED row
  /\ UNCHANGED <<erpVars, watermark, sync, excused>>

-----------------------------------------------------------------------------
(* The process stops and starts again. *)
Restart ==
  /\ Fault
  /\ sync' = [s \in Syncer |-> Idle]
  /\ returns' = {}
  /\ UNCHANGED <<erpVars, row, watermark, excused>>

ErpStep ==
  \/ Tick
  \/ \E o \in Order : \/ \E k \in Kind : Modify(o, k)
                      \/ \E b \in {"return", "other"} : FileBill(o, b)
                      \/ ExpireBill(o)

SyncStep(s) ==
  \/ StartSync(s) \/ StartForeignSync(s)
  \/ FetchPage(s) \/ FetchForeignPage(s)
  \/ SaveOrder(s) \/ SaveForeignOrder(s)
  \/ Advance(s)

AfterSaleStep ==
  \/ StartAfterSaleSync \/ StartForeignAfterSaleSync
  \/ \E o \in Order : MarkAfterSaleComplete(o)

Next ==
  \/ ErpStep
  \/ \E s \in Syncer : SyncStep(s) \/ FetchFault(s)
  \/ AfterSaleStep
  \/ Restart

Spec == Init /\ [][Next]_vars

(* The tickers fire, a sync takes its next step, and time passes.  Nothing is
   assumed of the ERP, nor that anything fails or does not. *)
Fairness ==
  /\ WF_vars(Tick)
  /\ \A s \in Syncer : WF_vars(SyncStep(s))
  /\ WF_vars(AfterSaleStep)

FairSpec == Spec /\ Fairness

-----------------------------------------------------------------------------
(* Properties *)

(* The watermark never leaves a version behind: an order whose newest version
   is not stored lies in the next window, unless its upsert failed, it was
   displaced between two pages, or a sync slower than the overlap stored an
   older version over it.  This is what the five minutes are for: with them,
   two syncs at once and orders that change while they are fetched lose
   nothing. *)
WatermarkCovers ==
  \A o \in Order : Storable(o) /\ ~Stored(o) =>
    \/ watermark = 0
    \/ erp[o].at >= watermark - Overlap
    \/ o \in excused

(* Once the ERP has stopped changing an order, its newest version is stored
   again and again, and with the same exceptions: failed fetches, crashes and
   dropped errors of the watermark only delay it. *)
LatestIsStored ==
  \A o \in Order : []<>(Storable(o) => Stored(o) \/ o \in excused)

(* An order sync undoes the closing of a returned order as long as the order
   lies in its window; when the window has passed, the after-sale sync has the
   last word, and the refund scan finds the order closed. *)
ReturnIsClosed ==
  \A o \in Order :
    <>[](Returned(o) /\ row[o] # NoRow /\ erp[o].at < watermark - Overlap => row[o].closed)

-----------------------------------------------------------------------------
(* What makes WatermarkCovers inductive. *)

TypeOK ==
  /\ channel \in {"domestic", "foreign"}
  /\ clock \in Nat \ {0}
  /\ erp \in [Order -> [version : 0 .. MaxVersion, at : 0 .. clock, kind : Kind]]
  /\ bill \in [Order -> {"none", "return", "other", "expired"}]
  /\ row \in [Order -> [version : 0 .. MaxVersion, closed : BOOLEAN]]
  /\ watermark \in 0 .. clock
  /\ sync \in [Syncer -> [pc : {"idle", "fetch", "save", "advance"}, from : Int,
                          now : 0 .. clock, page : Nat, got : Seq(Fetched)]]
  /\ returns \in SUBSET Order
  /\ faults \in 0 .. MaxFaults
  /\ excused \in SUBSET Order

(* A sync asks for a page that exists, and saves only if it has fetched. *)
SyncFits(s) ==
  /\ sync[s].pc = "fetch" => sync[s].page > 0
  /\ sync[s].pc = "save" => sync[s].got # <<>>

(* What a sync has fetched is what the ERP has, or the ERP has changed it since. *)
FetchedOrChanged(s) ==
  \A i \in DOMAIN sync[s].got :
    LET f == sync[s].got[i]
    IN  \/ f.version = erp[f.order].version /\ f.kind = erp[f.order].kind
        \/ f.version < erp[f.order].version /\ erp[f.order].at >= sync[s].now

Unsaved(o) == Storable(o) /\ ~Stored(o) /\ o \notin excused

Holds(s, o) ==
  \E i \in DOMAIN sync[s].got :
    sync[s].got[i].order = o /\ sync[s].got[i].version = erp[o].version

(* An unsaved order that the watermark of s would leave behind is one s has
   fetched, or will come to in its pages. *)
SyncCovers(s) ==
  \A o \in Order : Unsaved(o) /\ erp[o].at < sync[s].now - Overlap =>
    /\ sync[s].pc = "fetch" =>
         \/ Holds(s, o)
         \/ InWindow(s, o) /\ Place(s, o) > (sync[s].page - 1) * PageSize
    /\ sync[s].pc = "save" => Holds(s, o)
    /\ sync[s].pc # "advance"

IndInv ==
  /\ TypeOK
  /\ WatermarkCovers
  /\ \A s \in Syncer : SyncFits(s) /\ FetchedOrChanged(s) /\ SyncCovers(s)
=============================================================================
