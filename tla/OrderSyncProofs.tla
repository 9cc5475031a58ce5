--------------------------- MODULE OrderSyncProofs ---------------------------
(***************************************************************************)
(* The watermark of OrderSync leaves nothing behind (WatermarkCovers), for *)
(* any orders, page size, overlap and number of syncs, versions and faults. *)
(* First the pages: the places of a window number its orders, so that a    *)
(* full page shows PageSize of them and one that is not full the last.     *)
(* Then one lemma per kind of step.                                        *)
(***************************************************************************)
EXTENDS OrderSync, FiniteSetTheorems, SequenceTheorems, TLAPS

USE OrderSyncAssumption

-----------------------------------------------------------------------------
(* What is in two sequences one after the other. *)
LEMMA ConcatParts ==
  ASSUME NEW S, NEW p \in Seq(S), NEW q \in Seq(S)
  PROVE  /\ p \o q \in Seq(S)
         /\ \A i \in DOMAIN p : i \in DOMAIN (p \o q) /\ (p \o q)[i] = p[i]
         /\ \A j \in DOMAIN q : \E i \in DOMAIN (p \o q) : (p \o q)[i] = q[j]
         /\ \A i \in DOMAIN (p \o q) : \/ i \in DOMAIN p
                                     \/ \E j \in DOMAIN q : (p \o q)[i] = q[j]
<1> DEFINE r == p \o q
<1>1. /\ r \in Seq(S) /\ Len(r) = Len(p) + Len(q)
      /\ \A i \in 1 .. Len(p) + Len(q) : r[i] = IF i <= Len(p) THEN p[i] ELSE q[i - Len(p)]
  BY ConcatProperties
<1>2. /\ DOMAIN p = 1 .. Len(p) /\ Len(p) \in Nat
      /\ DOMAIN q = 1 .. Len(q) /\ Len(q) \in Nat
      /\ DOMAIN r = 1 .. Len(r)
  BY <1>1, LenProperties
<1> HIDE DEF r
<1>3. \A i \in DOMAIN p : i \in DOMAIN r /\ r[i] = p[i]
  BY <1>1, <1>2
<1>4. ASSUME NEW j \in DOMAIN q PROVE \E i \in DOMAIN r : r[i] = q[j]
  <2>1. Len(p) + j \in DOMAIN r /\ r[Len(p) + j] = q[(Len(p) + j) - Len(p)]
    BY <1>1, <1>2
  <2>2. (Len(p) + j) - Len(p) = j
    BY <1>2
  <2>3. QED
    BY <2>1, <2>2
<1>5. ASSUME NEW i \in DOMAIN r, i \notin DOMAIN p PROVE \E j \in DOMAIN q : r[i] = q[j]
  <2>1. i - Len(p) \in DOMAIN q /\ r[i] = q[i - Len(p)]
    BY <1>1, <1>2, <1>5
  <2>2. QED
    BY <2>1
<1>6. QED
  BY <1>1, <1>3, <1>4, <1>5 DEF r

-----------------------------------------------------------------------------
(* Places and pages *)

LEMMA WindowFinite ==
  ASSUME NEW s
  PROVE  /\ IsFiniteSet(Window(s)) /\ Window(s) \subseteq Nat
         /\ Cardinality(Window(s)) \in Nat
<1>1. Window(s) \in SUBSET Order
  BY DEF Window
<1>2. IsFiniteSet(Window(s))
  BY <1>1, FS_Subset
<1>3. QED
  BY <1>1, <1>2, FS_CardinalityType

(* The place of an order counts it and those before it. *)
LEMMA PlaceRange ==
  ASSUME NEW s, NEW o \in Nat
  PROVE  /\ Place(s, o) \in 0 .. Cardinality(Window(s))
         /\ o \in Window(s) => Place(s, o) > 0
<1> DEFINE upto == {p \in Window(s) : p <= o}
<1>1. /\ IsFiniteSet(upto) /\ Cardinality(upto) <= Cardinality(Window(s))
      /\ Cardinality(upto) \in Nat
  <2>1. upto \in SUBSET Window(s)
    OBVIOUS
  <2>2. IsFiniteSet(upto) /\ Cardinality(upto) <= Cardinality(Window(s))
    BY <2>1, WindowFinite, FS_Subset
  <2>3. QED
    BY <2>2, FS_CardinalityType
<1>2. o \in Window(s) => Cardinality(upto) # 0
  <2>1. o \in Window(s) => o \in upto
    OBVIOUS
  <2>2. QED
    BY <2>1, <1>1, FS_EmptySet
<1>3. QED
  BY <1>1, <1>2, WindowFinite DEF Place

LEMMA PlaceTypes ==
  ASSUME NEW s, NEW o \in Order
  PROVE  Place(s, o) \in Int /\ Place(s, o)' \in Int
<1>1. o \in Nat
  OBVIOUS
<1>2. Place(s, o) \in Int
  BY <1>1, PlaceRange, WindowFinite
<1>3. Place(s, o)' \in Int
  <2>1. Window(s)' \in SUBSET Order
    BY DEF Window
  <2>2. {p \in Window(s)' : p <= o} \in SUBSET Order
    BY <2>1
  <2>3. IsFiniteSet({p \in Window(s)' : p <= o})
    BY <2>2, FS_Subset
  <2>4. QED
    BY <2>3, FS_CardinalityType DEF Place
<1>4. QED
  BY <1>2, <1>3

(* Places are in the sequence of the numbers. *)
LEMMA PlaceMonotone ==
  ASSUME NEW s, NEW o \in Window(s), NEW p \in Window(s), p < o
  PROVE  Place(s, p) < Place(s, o)
<1> DEFINE upto(q) == {r \in Window(s) : r <= q}
<1>1. o \in Nat /\ p \in Nat
  BY WindowFinite
<1>2. upto(p) \in SUBSET upto(o) /\ upto(p) # upto(o)
  <2>1. \A r \in Window(s) : r \in Nat
    BY WindowFinite
  <2>2. o \in upto(o) /\ o \notin upto(p)
    BY <1>1
  <2>3. \A r \in upto(p) : r \in upto(o)
    BY <1>1, <2>1
  <2>4. QED
    BY <2>2, <2>3
<1>3. IsFiniteSet(upto(o)) /\ upto(o) \in SUBSET Window(s)
  <2>1. upto(o) \in SUBSET Window(s)
    OBVIOUS
  <2>2. QED
    BY <2>1, WindowFinite, FS_Subset
<1>4. /\ IsFiniteSet(upto(p)) /\ Cardinality(upto(p)) <= Cardinality(upto(o))
      /\ Cardinality(upto(o)) = Cardinality(upto(p)) => upto(o) = upto(p)
  BY <1>2, <1>3, FS_Subset
<1>5. Cardinality(upto(p)) \in Nat /\ Cardinality(upto(o)) \in Nat
  BY <1>3, <1>4, FS_CardinalityType
<1>6. Cardinality(upto(p)) < Cardinality(upto(o))
  BY <1>2, <1>4, <1>5
<1>7. QED
  BY <1>6 DEF Place

(* Every place up to the size of the window is that of one order. *)
LEMMA PlaceTaken ==
  ASSUME NEW s, NEW k \in 1 .. Cardinality(Window(s))
  PROVE  \E o \in Window(s) : Place(s, o) = k
<1> DEFINE n == Cardinality(Window(s))
           f == [o \in Window(s) |-> Place(s, o)]
<1>1. n \in Nat /\ IsFiniteSet(Window(s)) /\ Window(s) \subseteq Nat
  BY WindowFinite
<1>2. \A o \in Window(s) : Place(s, o) \in 1 .. n
  BY <1>1, PlaceRange
<1>3. f \in [Window(s) -> 1 .. n]
  BY <1>2
<1>4. f \in Injection(Window(s), 1 .. n)
  <2>1. \A o, p \in Window(s) : f[o] = f[p] => o = p
    <3> SUFFICES ASSUME NEW o \in Window(s), NEW p \in Window(s), f[o] = f[p], o # p
                 PROVE  FALSE
      OBVIOUS
    <3>1. Place(s, o) = Place(s, p) /\ o \in Nat /\ p \in Nat
      BY <1>1
    <3>2. p < o \/ o < p
      BY <3>1
    <3>3. Place(s, p) < Place(s, o) \/ Place(s, o) < Place(s, p)
      BY <3>2, PlaceMonotone
    <3>4. Place(s, o) \in 1 .. n /\ Place(s, p) \in 1 .. n
      BY <1>2
    <3>5. QED
      BY <3>1, <3>3, <3>4, <1>1
  <2>2. QED
    BY <1>3, <2>1 DEF Injection, IsInjective
<1>5. IsFiniteSet(1 .. n) /\ Cardinality(1 .. n) = n
  BY <1>1, FS_Interval
<1>6. f \in Surjection(Window(s), 1 .. n)
  BY <1>4, <1>5, FS_Injection
<1>7. \E o \in Window(s) : f[o] = k
  BY <1>6, k \in 1 .. n DEF Surjection
<1>8. QED
  BY <1>7

LEMMA ErpTyped ==
  ASSUME TypeOK, NEW o \in Order
  PROVE  /\ erp[o].version \in 0 .. MaxVersion /\ erp[o].version \in Nat /\ erp[o].at \in Nat
         /\ erp[o].at <= clock /\ erp[o].kind \in Kind
BY DEF TypeOK

(* The orders of the pages before the next one. *)
Passed(s) == (sync[s].page - 1) * PageSize

(* A page shows the orders whose places it covers, as the ERP has them now, and
   one that is not full covers the rest of the window. *)
LEMMA PageShows ==
  ASSUME TypeOK, NEW s \in Syncer, sync[s].page > 0
  PROVE  /\ Page(s) \in Seq(Fetched)
         /\ \A i \in DOMAIN Page(s) :
              LET f == Page(s)[i]
              IN  /\ f.order \in Window(s)
                  /\ f.version = erp[f.order].version /\ f.kind = erp[f.order].kind
         /\ \A o \in Window(s) :
              Place(s, o) > Passed(s) /\ Place(s, o) <= Passed(s) + PageSize
                => \E i \in DOMAIN Page(s) : Page(s)[i].order = o
         /\ \/ Len(Page(s)) = PageSize
            \/ \A o \in Window(s) : Place(s, o) <= Passed(s) + PageSize
<1> DEFINE n == Cardinality(Window(s))
           before == Passed(s)
           left == n - before
           Listed(i) == CHOOSE o \in Window(s) : Place(s, o) = before + i
           size == IF left < PageSize THEN left ELSE PageSize
           Entry(i) == [order |-> Listed(i), version |-> erp[Listed(i)].version,
                        kind |-> erp[Listed(i)].kind]
<1>1. n \in Nat /\ before \in Nat /\ PageSize \in Nat \ {0} /\ left \in Int /\ size \in Int
  <2>1. sync[s].page - 1 \in Nat
    BY DEF TypeOK
  <2>2. before \in Nat
    BY <2>1 DEF Passed
  <2>3. QED
    BY <2>2, WindowFinite
<1>2. Page(s) = [i \in 1 .. size |-> Entry(i)]
  BY DEF Page, Passed
<1>3. ASSUME NEW i \in 1 .. size
      PROVE  Listed(i) \in Window(s) /\ Place(s, Listed(i)) = before + i
  <2>1. before + i \in 1 .. n
    BY <1>1
  <2>2. \E o \in Window(s) : Place(s, o) = before + i
    BY <2>1, PlaceTaken
  <2>3. QED
    BY <2>2
<1>4. ASSUME NEW i \in 1 .. size PROVE Entry(i) \in Fetched
  <2>1. Listed(i) \in Order /\ erp[Listed(i)].version > 0
    BY <1>3 DEF Window, InWindow
  <2>2. erp[Listed(i)].version \in 1 .. MaxVersion /\ erp[Listed(i)].kind \in Kind
    <3>1. PICK o \in Order : o = Listed(i)
      BY <2>1, Zenon
    <3>2. erp[o].version \in 0 .. MaxVersion /\ erp[o].kind \in Kind /\ erp[o].version > 0
      BY <2>1, <3>1, ErpTyped
    <3>3. erp[o].version \in 1 .. MaxVersion
      BY <3>2, MaxVersion \in Nat
    <3>4. QED
      BY <3>1, <3>2, <3>3, Zenon
  <2>3. QED
    BY <2>1, <2>2 DEF Fetched
<1>5. /\ Page(s) \in Seq(Fetched) /\ DOMAIN Page(s) = 1 .. size
      /\ Len(Page(s)) = IF size > 0 THEN size ELSE 0
  <2> DEFINE len == IF size > 0 THEN size ELSE 0
  <2>1. len \in Nat /\ 1 .. size = 1 .. len
    BY <1>1
  <2>2. Page(s) \in [1 .. len -> Fetched]
    <3> HIDE DEF Entry
    <3>1. [i \in 1 .. size |-> Entry(i)] \in [1 .. size -> Fetched]
      BY <1>4
    <3>2. QED
      BY <1>2, <2>1, <3>1
  <2>3. Page(s) \in Seq(Fetched)
    BY <2>1, <2>2, SeqDef
  <2>4. DOMAIN Page(s) = 1 .. len
    BY <2>2
  <2>5. Len(Page(s)) \in Nat /\ 1 .. Len(Page(s)) = 1 .. len
    BY <2>3, <2>4, LenProperties
  <2>6. Len(Page(s)) = len
    BY <2>1, <2>5
  <2>7. QED
    BY <2>1, <2>3, <2>4, <2>6
<1>6. \A i \in DOMAIN Page(s) :
        /\ Page(s)[i].order \in Window(s)
        /\ Page(s)[i].version = erp[Page(s)[i].order].version
        /\ Page(s)[i].kind = erp[Page(s)[i].order].kind
  <2> SUFFICES ASSUME NEW i \in 1 .. size
               PROVE  /\ Page(s)[i].order \in Window(s)
                      /\ Page(s)[i].version = erp[Page(s)[i].order].version
                      /\ Page(s)[i].kind = erp[Page(s)[i].order].kind
    BY <1>5
  <2>1. Page(s)[i] = Entry(i)
    BY <1>2
  <2>2. /\ Page(s)[i].order = Listed(i) /\ Page(s)[i].version = erp[Listed(i)].version
        /\ Page(s)[i].kind = erp[Listed(i)].kind
    BY <2>1
  <2>3. QED
    BY <1>3, <2>2
<1>7. ASSUME NEW o \in Window(s), Place(s, o) > before, Place(s, o) <= before + PageSize
      PROVE  \E i \in DOMAIN Page(s) : Page(s)[i].order = o
  <2> DEFINE i == Place(s, o) - before
  <2>1. o \in Nat /\ Place(s, o) \in 0 .. n
    BY PlaceRange, WindowFinite
  <2>2. i \in 1 .. size
    BY <1>1, <1>7, <2>1
  <2>3. Place(s, o) = before + i
    BY <1>1, <2>1
  <2>4. Listed(i) \in Window(s) /\ Place(s, Listed(i)) = Place(s, o)
    BY <1>3, <2>2, <2>3
  <2>5. Listed(i) = o
    <3>1. Listed(i) \in Nat
      BY <2>4, WindowFinite
    <3>2. ~(Place(s, o) < Place(s, o))
      BY <2>1
    <3>3. ~(Listed(i) < o) /\ ~(o < Listed(i))
      BY <2>4, <3>2, PlaceMonotone
    <3>4. QED
      BY <2>1, <3>1, <3>3
  <2>6. Page(s)[i].order = o
    <3>1. Page(s)[i] = Entry(i)
      BY <1>2, <2>2
    <3>2. Entry(i).order = Listed(i)
      OBVIOUS
    <3>3. QED
      BY <2>5, <3>1, <3>2
  <2>7. QED
    BY <1>5, <2>2, <2>6
<1>8. ASSUME Len(Page(s)) # PageSize, NEW o \in Window(s)
      PROVE  Place(s, o) <= before + PageSize
  <2>1. left < PageSize
    BY <1>1, <1>5, <1>8
  <2>2. o \in Nat /\ Place(s, o) \in 0 .. n
    BY PlaceRange, WindowFinite
  <2>3. QED
    BY <1>1, <2>1, <2>2
<1>9. QED
  BY <1>5, <1>6, <1>7, <1>8

-----------------------------------------------------------------------------
(* Syncs that a step leaves alone *)

SyncInv(s) == SyncFits(s) /\ FetchedOrChanged(s) /\ SyncCovers(s)

SyncState == [pc : {"idle", "fetch", "save", "advance"}, from : Int,
              now : 0 .. clock, page : Nat, got : Seq(Fetched)]

LEMMA SyncTyped ==
  ASSUME TypeOK, NEW s \in Syncer
  PROVE  /\ sync[s].pc \in {"idle", "fetch", "save", "advance"}
         /\ sync[s].from \in Int /\ sync[s].now \in Nat /\ sync[s].now <= clock
         /\ sync[s].page \in Nat
         /\ sync[s].got \in Seq(Fetched)
         /\ clock \in Nat /\ watermark \in Nat /\ watermark <= clock /\ Overlap \in Nat
BY DEF TypeOK

(* An entry of a sync is about an order. *)
LEMMA GotTyped ==
  ASSUME TypeOK, NEW s \in Syncer, NEW i \in DOMAIN sync[s].got
  PROVE  sync[s].got[i] \in Fetched /\ sync[s].got[i].order \in Order
<1>1. sync[s].got[i] \in Fetched
  BY SyncTyped, LenProperties, ElementOfSeq
<1>2. QED
  BY <1>1 DEF Fetched

LEMMA PlacesStay ==
  ASSUME NEW s, UNCHANGED erp,
         sync'[s].from = sync[s].from, sync'[s].now = sync[s].now
  PROVE  /\ Window(s)' = Window(s)
         /\ \A o : (InWindow(s, o)' <=> InWindow(s, o)) /\ Place(s, o)' = Place(s, o)
<1>1. \A o : InWindow(s, o)' <=> InWindow(s, o)
  BY DEF InWindow
<1>2. Window(s)' = Window(s)
  BY <1>1 DEF Window
<1>3. QED
  BY <1>1, <1>2 DEF Place

(* A sync is as well off as before when no order has become unsaved that its
   watermark would leave behind. *)
LEMMA SyncStays ==
  ASSUME NEW s \in Syncer, SyncInv(s), sync'[s] = sync[s], UNCHANGED erp,
         \A o \in Order : Unsaved(o)' /\ erp[o].at < sync[s].now - Overlap => Unsaved(o)
  PROVE  SyncInv(s)'
<1>1. SyncFits(s)'
  BY DEF SyncInv, SyncFits
<1>2. FetchedOrChanged(s)'
  BY DEF SyncInv, FetchedOrChanged
<1>3. \A o : Holds(s, o)' <=> Holds(s, o)
  BY DEF Holds
<1>4. SyncCovers(s)'
  BY <1>3, PlacesStay DEF SyncInv, SyncCovers
<1>5. QED
  BY <1>1, <1>2, <1>4 DEF SyncInv

(* A sync that is idle owes nothing. *)
LEMMA IdleOwesNothing ==
  ASSUME NEW s \in Syncer, sync'[s] = Idle
  PROVE  SyncInv(s)'
<1>1. SyncFits(s)' /\ SyncCovers(s)'
  BY DEF SyncFits, SyncCovers, Idle
<1>2. DOMAIN sync'[s].got = {}
  BY DEF Idle
<1>3. FetchedOrChanged(s)'
  BY <1>2 DEF FetchedOrChanged
<1>4. QED
  BY <1>1, <1>3 DEF SyncInv

LEMMA InvParts == IndInv <=> TypeOK /\ WatermarkCovers /\ \A s \in Syncer : SyncInv(s)
BY DEF IndInv, SyncInv

LEMMA CoversMeans ==
  WatermarkCovers <=>
    \A o \in Order : Unsaved(o) => watermark = 0 \/ erp[o].at >= watermark - Overlap
BY DEF WatermarkCovers, Unsaved

LEMMA InitIndInv == Init => IndInv
<1> SUFFICES ASSUME Init PROVE IndInv
  OBVIOUS
<1>1. <<>> \in Seq(Fetched)
  OBVIOUS
<1>2. Idle \in SyncState
  BY <1>1 DEF Init, Idle, SyncState
<1>3. TypeOK
  BY <1>2 DEF Init, TypeOK, SyncState, NoRow, Kind
<1>4. WatermarkCovers
  BY DEF Init, WatermarkCovers
<1>5. ASSUME NEW s \in Syncer PROVE SyncInv(s)
  <2>1. sync[s] = Idle
    BY DEF Init
  <2>2. SyncFits(s) /\ SyncCovers(s)
    BY <2>1 DEF SyncFits, SyncCovers, Idle
  <2>3. FetchedOrChanged(s)
    BY <2>1 DEF FetchedOrChanged, Idle
  <2>4. QED
    BY <2>2, <2>3 DEF SyncInv
<1>6. QED
  BY <1>3, <1>4, <1>5, InvParts

-----------------------------------------------------------------------------
(* The ERP *)

LEMMA TickKeeps == ASSUME IndInv, Tick PROVE IndInv'
<1>1. TypeOK'
  <2>1. clock' \in Nat \ {0} /\ clock <= clock'
    BY DEF IndInv, TypeOK, Tick
  <2>2. 0 .. clock \subseteq 0 .. clock'
    BY <2>1 DEF IndInv, TypeOK
  <2>3. QED
    BY <2>1, <2>2 DEF IndInv, TypeOK, Tick
<1>2. WatermarkCovers'
  BY DEF IndInv, Tick, WatermarkCovers, Storable, Stored, Skips
<1>3. \A o \in Order : Unsaved(o)' <=> Unsaved(o)
  BY DEF Tick, Unsaved, Storable, Stored, Skips
<1>4. \A s \in Syncer : SyncInv(s)'
  BY <1>3, InvParts, SyncStays DEF Tick
<1>5. QED
  BY <1>1, <1>2, <1>4 DEF IndInv, SyncInv

(* What a modification does to the tables. *)
LEMMA ModifyMoves ==
  ASSUME TypeOK, NEW o \in Order, NEW k \in Kind, Modify(o, k)
  PROVE  /\ erp'[o] = [version |-> erp[o].version + 1, at |-> clock, kind |-> k]
         /\ \A p \in Order : p # o => erp'[p] = erp[p]
         /\ \A p \in Order : p # o /\ Unsaved(p)' => Unsaved(p) /\ p \notin Displaced(o)
<1>1. /\ erp'[o] = [version |-> erp[o].version + 1, at |-> clock, kind |-> k]
      /\ \A p \in Order : p # o => erp'[p] = erp[p]
  BY DEF TypeOK, Modify
<1>2. ASSUME NEW p \in Order, p # o, Unsaved(p)'
      PROVE  Unsaved(p) /\ p \notin Displaced(o)
  <2>1. p \notin excused /\ p \notin Displaced(o)
    BY <1>2 DEF Modify, Unsaved
  <2>2. Storable(p) /\ ~Stored(p)
    BY <1>1, <1>2 DEF Modify, Unsaved, Storable, Stored, Skips
  <2>3. QED
    BY <2>1, <2>2 DEF Unsaved
<1>3. QED
  BY <1>1, <1>2

(* An order keeps its place or moves up in the window, unless o leaves it. *)
LEMMA ModifyPlaces ==
  ASSUME TypeOK, NEW o \in Order, NEW k \in Kind, Modify(o, k), NEW s \in Syncer,
         NEW p \in Order, p # o, InWindow(s, p)
  PROVE  /\ InWindow(s, p)'
         /\ Place(s, p)' > 0
         /\ ~(InWindow(s, o) /\ clock > sync[s].now) => Place(s, p)' >= Place(s, p)
<1>1. InWindow(s, p)'
  BY ModifyMoves DEF InWindow, Modify
<1>2. p \in Nat
  OBVIOUS
<1>3. /\ IsFiniteSet(Window(s)') /\ Window(s)' \subseteq Nat
      /\ Cardinality(Window(s)') \in Nat
  <2>1. Window(s)' \in SUBSET Order
    BY DEF Window
  <2>2. IsFiniteSet(Window(s)')
    BY <2>1, FS_Subset
  <2>3. QED
    BY <2>1, <2>2, FS_CardinalityType
<1> DEFINE upto == {q \in Window(s) : q <= p}
           upto2 == {q \in Window(s)' : q <= p}
<1>4. Place(s, p) = Cardinality(upto) /\ Place(s, p)' = Cardinality(upto2)
  BY DEF Place
<1>5. IsFiniteSet(upto2) /\ Cardinality(upto2) \in Nat
  <2>1. upto2 \in SUBSET Window(s)'
    OBVIOUS
  <2>2. IsFiniteSet(upto2)
    BY <2>1, <1>3, FS_Subset
  <2>3. QED
    BY <2>2, FS_CardinalityType
<1>6. p \in upto2
  BY <1>1, <1>2 DEF Window
<1>7. Place(s, p)' > 0
  BY <1>4, <1>5, <1>6, FS_EmptySet
<1>8. ASSUME ~(InWindow(s, o) /\ clock > sync[s].now)
      PROVE  Place(s, p)' >= Place(s, p)
  <2>1. ASSUME NEW q \in Order, InWindow(s, q) PROVE InWindow(s, q)'
    <3>1. CASE q # o
      BY <2>1, <3>1, ModifyMoves DEF InWindow, Modify
    <3>2. CASE q = o
      <4>1. /\ sync[s].now \in Nat /\ sync[s].from \in Int /\ sync[s].now <= clock /\ clock \in Nat
            /\ erp[o].version \in Nat /\ erp[o].at \in Nat /\ erp[o].at <= clock
        BY SyncTyped, ErpTyped
      <4>2. clock = sync[s].now
        BY <1>8, <2>1, <3>2, <4>1
      <4>3. erp[o].at >= sync[s].from
        BY <2>1, <3>2 DEF InWindow
      <4>4. erp'[o].version > 0 /\ erp'[o].at = clock
        <5>1. erp'[o] = [version |-> erp[o].version + 1, at |-> clock, kind |-> k]
          BY ModifyMoves
        <5>2. QED
          BY <4>1, <5>1
      <4>5. QED
        BY <3>2, <4>1, <4>2, <4>3, <4>4 DEF InWindow, Modify
    <3>3. QED
      BY <3>1, <3>2
  <2>2. upto \in SUBSET upto2
    BY <2>1 DEF Window
  <2>3. QED
    BY <1>4, <1>5, <2>2, FS_Subset
<1>9. QED
  BY <1>1, <1>7, <1>8

LEMMA ModifyKeepsSync ==
  ASSUME IndInv, NEW o \in Order, NEW k \in Kind, Modify(o, k), NEW s \in Syncer
  PROVE  SyncInv(s)'
<1>1. TypeOK /\ SyncInv(s)
  BY InvParts
<1>2. sync' = sync /\ clock' = clock
  BY DEF Modify
<1>3. /\ erp'[o].version = erp[o].version + 1 /\ erp'[o].at = clock
      /\ \A p \in Order : p # o => erp'[p] = erp[p]
  <2>1. erp'[o] = [version |-> erp[o].version + 1, at |-> clock, kind |-> k]
    BY <1>1, ModifyMoves
  <2>2. QED
    BY <1>1, <2>1, ModifyMoves
<1>4. erp[o].version \in Nat /\ clock \in Nat /\ sync[s].now \in Nat /\ sync[s].now <= clock
  BY <1>1, ErpTyped, SyncTyped
<1>5. SyncFits(s)'
  BY <1>1, <1>2 DEF SyncInv, SyncFits
<1>6. FetchedOrChanged(s)'
  <2> SUFFICES ASSUME NEW i \in DOMAIN sync[s].got
               PROVE  LET f == sync[s].got[i]
                      IN  \/ f.version = erp'[f.order].version /\ f.kind = erp'[f.order].kind
                          \/ f.version < erp'[f.order].version /\ erp'[f.order].at >= sync[s].now
    BY <1>2 DEF FetchedOrChanged
  <2> DEFINE f == sync[s].got[i]
  <2>1. f.order \in Order /\ f.version \in Nat
    BY <1>1, GotTyped DEF Fetched
  <2>2. f.version <= erp[f.order].version
    <3>1. f.version = erp[f.order].version \/ f.version < erp[f.order].version
      BY <1>1 DEF SyncInv, FetchedOrChanged
    <3>2. erp[f.order].version \in Nat
      BY <1>1, <2>1, ErpTyped
    <3>3. QED
      BY <2>1, <3>1, <3>2
  <2>3. CASE f.order = o
    BY <1>3, <1>4, <2>1, <2>2, <2>3
  <2>4. CASE f.order # o
    BY <1>1, <1>3, <2>1, <2>4 DEF SyncInv, FetchedOrChanged
  <2>5. QED
    BY <2>3, <2>4
<1>7. SyncCovers(s)'
  <2> SUFFICES ASSUME NEW p \in Order, Unsaved(p)', erp'[p].at < sync[s].now - Overlap
               PROVE  /\ sync[s].pc = "fetch" =>
                           \/ Holds(s, p)'
                           \/ InWindow(s, p)' /\ Place(s, p)' > (sync[s].page - 1) * PageSize
                      /\ sync[s].pc = "save" => Holds(s, p)'
                      /\ sync[s].pc # "advance"
    BY <1>2 DEF SyncCovers
  <2>1. p # o /\ erp'[p] = erp[p]
    <3>1. p # o
      BY <1>3, <1>4, Overlap \in Nat
    <3>2. QED
      BY <1>3, <3>1
  <2>2. Unsaved(p) /\ p \notin Displaced(o) /\ erp[p].at < sync[s].now - Overlap
    BY <1>1, <2>1, ModifyMoves
  <2>3. Holds(s, p)' <=> Holds(s, p)
    BY <1>2, <2>1 DEF Holds
  <2>4. CASE sync[s].pc # "fetch" \/ Holds(s, p)
    BY <1>1, <2>2, <2>3, <2>4 DEF SyncInv, SyncCovers
  <2>5. CASE sync[s].pc = "fetch" /\ ~Holds(s, p)
    <3>1. InWindow(s, p) /\ Place(s, p) > (sync[s].page - 1) * PageSize
      BY <1>1, <2>2, <2>5 DEF SyncInv, SyncCovers
    <3>2. InWindow(s, p)' /\ Place(s, p)' > 0
      BY <1>1, <2>1, <3>1, ModifyPlaces
    <3>3. CASE sync[s].page = 1
      <4>1. (sync[s].page - 1) * PageSize = 0
        BY <3>3, PageSize \in Nat
      <4>2. QED
        BY <2>5, <3>2, <4>1
    <3>4. CASE ~(InWindow(s, o) /\ clock > sync[s].now)
      <4>1. Place(s, p)' >= Place(s, p)
        BY <1>1, <2>1, <3>1, <3>4, ModifyPlaces
      <4>2. Place(s, p) \in Int /\ Place(s, p)' \in Int /\ (sync[s].page - 1) * PageSize \in Int
        BY <1>1, PlaceTypes, SyncTyped
      <4>3. Place(s, p)' > (sync[s].page - 1) * PageSize
        BY <3>1, <4>1, <4>2
      <4>4. QED
        BY <2>5, <3>2, <4>3
    <3>5. CASE sync[s].page # 1 /\ InWindow(s, o) /\ clock > sync[s].now
      <4>1. sync[s].page > 1
        BY <1>1, <2>5, <3>5, SyncTyped DEF SyncInv, SyncFits
      <4>2. PICK i \in DOMAIN sync[s].got : sync[s].got[i].order = p
        BY <2>1, <2>2, <2>5, <3>1, <3>5, <4>1 DEF Displaced
      <4>3. sync[s].got[i].version # erp[p].version
        BY <2>5, <4>2 DEF Holds
      <4>4. erp[p].at >= sync[s].now
        BY <1>1, <4>2, <4>3 DEF SyncInv, FetchedOrChanged
      <4>5. erp[p].at \in Nat /\ sync[s].now \in Nat
        BY <1>1, ErpTyped, SyncTyped
      <4>6. FALSE
        BY <1>4, <2>2, <4>4, <4>5, Overlap \in Nat
      <4>7. QED
        BY <4>6
    <3>6. QED
      BY <3>3, <3>4, <3>5
  <2>6. QED
    BY <2>4, <2>5
<1>8. QED
  BY <1>5, <1>6, <1>7 DEF SyncInv

LEMMA ModifyKeeps ==
  ASSUME IndInv, NEW o \in Order, NEW k \in Kind, Modify(o, k)
  PROVE  IndInv'
<1>1. TypeOK /\ WatermarkCovers
  BY DEF IndInv
<1>2. TypeOK'
  <2>1. erp[o].version + 1 \in 0 .. MaxVersion /\ clock \in 0 .. clock
    <3>1. erp[o].version \in Nat /\ clock \in Nat
      BY <1>1, ErpTyped DEF TypeOK
    <3>2. erp[o].version < MaxVersion
      BY DEF Modify
    <3>3. QED
      BY <3>1, <3>2, MaxVersion \in Nat
  <2>2. erp' \in [Order -> [version : 0 .. MaxVersion, at : 0 .. clock, kind : Kind]]
    BY <1>1, <2>1 DEF TypeOK, Modify
  <2>3. excused' \in SUBSET Order
    BY <1>1 DEF TypeOK, Modify, Displaced
  <2>4. QED
    BY <1>1, <2>2, <2>3 DEF TypeOK, Modify
<1>3. WatermarkCovers'
  <2> SUFFICES ASSUME NEW p \in Order, Unsaved(p)', watermark # 0
               PROVE  erp'[p].at >= watermark - Overlap
    BY DEF Modify, WatermarkCovers, Unsaved
  <2>1. CASE p = o
    <3>1. erp'[o] = [version |-> erp[o].version + 1, at |-> clock, kind |-> k]
      BY <1>1, ModifyMoves
    <3>2. clock \in Nat /\ watermark \in Nat /\ watermark <= clock /\ Overlap \in Nat
      BY <1>1 DEF TypeOK
    <3>3. QED
      BY <2>1, <3>1, <3>2
  <2>2. CASE p # o
    BY <1>1, <2>2, ModifyMoves, CoversMeans
  <2>3. QED
    BY <2>1, <2>2
<1>4. \A s \in Syncer : SyncInv(s)'
  BY ModifyKeepsSync
<1>5. QED
  BY <1>2, <1>3, <1>4 DEF IndInv, SyncInv

(* Bills and after-sale syncs change no version. *)
LEMMA BillsKeep ==
  ASSUME IndInv, UNCHANGED <<channel, clock, erp, watermark, sync, excused>>,
         bill' \in [Order -> {"none", "return", "other", "expired"}],
         row' \in [Order -> [version : 0 .. MaxVersion, closed : BOOLEAN]],
         \A o \in Order : row'[o].version = row[o].version,
         returns' \in SUBSET Order,
         Fault \/ UNCHANGED faults
  PROVE  IndInv'
<1>1. TypeOK'
  BY DEF IndInv, TypeOK, Fault
<1>2. \A o \in Order : Unsaved(o)' <=> Unsaved(o)
  BY DEF Unsaved, Storable, Stored, Skips
<1>3. WatermarkCovers'
  BY DEF IndInv, WatermarkCovers, Storable, Stored, Skips
<1>4. \A s \in Syncer : SyncInv(s)'
  BY <1>2, InvParts, SyncStays
<1>5. QED
  BY <1>1, <1>3, <1>4 DEF IndInv, SyncInv

LEMMA BillStepsKeep ==
  ASSUME IndInv,
         \/ \E o \in Order : \/ \E b \in {"return", "other"} : FileBill(o, b)
                            \/ ExpireBill(o)
                            \/ MarkAfterSaleComplete(o)
         \/ BeginReturns
  PROVE  IndInv'
<1>1. ASSUME NEW o \in Order, NEW b \in {"return", "other"}, FileBill(o, b) PROVE IndInv'
  BY <1>1, BillsKeep DEF IndInv, TypeOK, FileBill
<1>2. ASSUME NEW o \in Order, ExpireBill(o) PROVE IndInv'
  BY <1>2, BillsKeep DEF IndInv, TypeOK, ExpireBill
<1>3. ASSUME NEW o \in Order, MarkAfterSaleComplete(o) PROVE IndInv'
  <2>1. /\ row' \in [Order -> [version : 0 .. MaxVersion, closed : BOOLEAN]]
        /\ \A p \in Order : row'[p].version = row[p].version
    <3>1. CASE row' = CloseRow(o)
      <4>1. row' = row \/ row' = [row EXCEPT ![o].closed = TRUE]
        BY <3>1 DEF CloseRow
      <4>2. row \in [Order -> [version : 0 .. MaxVersion, closed : BOOLEAN]]
        BY DEF IndInv, TypeOK
      <4>3. CASE row' = [row EXCEPT ![o].closed = TRUE]
        <5> DEFINE r == [row[o] EXCEPT !.closed = TRUE]
        <5>1. r \in [version : 0 .. MaxVersion, closed : BOOLEAN] /\ r.version = row[o].version
          BY <4>2
        <5>2. row' = [row EXCEPT ![o] = r]
          BY <4>3
        <5> HIDE DEF r
        <5>3. QED
          BY <4>2, <5>1, <5>2
      <4>4. QED
        BY <4>1, <4>2, <4>3
    <3>2. CASE UNCHANGED row
      BY <3>2 DEF IndInv, TypeOK
    <3>3. QED
      BY <1>3, <3>1, <3>2 DEF MarkAfterSaleComplete
  <2>2. QED
    BY <1>3, <2>1, BillsKeep DEF IndInv, TypeOK, MarkAfterSaleComplete, erpVars
<1>4. ASSUME BeginReturns PROVE IndInv'
  BY <1>4, BillsKeep DEF IndInv, TypeOK, BeginReturns, erpVars
<1>5. QED
  BY <1>1, <1>2, <1>3, <1>4

-----------------------------------------------------------------------------
(* The sync *)

LEMMA SyncTypeKept ==
  ASSUME TypeOK, NEW s \in Syncer, NEW x \in SyncState, sync' = [sync EXCEPT ![s] = x]
  PROVE  /\ sync' \in [Syncer -> SyncState]
         /\ sync'[s] = x
         /\ \A u \in Syncer : u # s => sync'[u] = sync[u]
BY DEF TypeOK, SyncState

LEMMA SyncsTyped ==
  ASSUME TypeOK, UNCHANGED <<erpVars, row, watermark, excused>>,
         returns' \in SUBSET Order, Fault \/ UNCHANGED faults,
         sync' \in [Syncer -> SyncState]
  PROVE  TypeOK'
<1>1. faults' \in 0 .. MaxFaults
  BY DEF TypeOK, Fault
<1>2. UNCHANGED <<channel, clock, erp, bill, row, watermark, excused>>
  BY DEF erpVars
<1>3. sync' \in [Syncer -> [pc : {"idle", "fetch", "save", "advance"}, from : Int,
                           now : 0 .. clock', page : Nat, got : Seq(Fetched)]]
  BY <1>2 DEF SyncState
<1>4. QED
  BY <1>1, <1>2, <1>3 DEF TypeOK

(* The rest stays as it is while s begins, fetches or gives up. *)
LEMMA OnlySyncMoves ==
  ASSUME IndInv, NEW s \in Syncer, NEW x \in SyncState,
         sync' = [sync EXCEPT ![s] = x], UNCHANGED <<erpVars, row, watermark, returns, excused>>,
         Fault \/ UNCHANGED faults,
         SyncInv(s)'
  PROVE  IndInv'
<1>1. /\ sync' \in [Syncer -> SyncState]
      /\ \A u \in Syncer : u # s => sync'[u] = sync[u]
  BY SyncTypeKept DEF IndInv
<1>2. TypeOK'
  <2>1. returns' \in SUBSET Order /\ TypeOK
    BY DEF IndInv, TypeOK
  <2>2. QED
    BY <1>1, <2>1, SyncsTyped
<1>3. WatermarkCovers'
  BY DEF IndInv, WatermarkCovers, Storable, Stored, Skips, erpVars
<1>4. \A o \in Order : Unsaved(o)' <=> Unsaved(o)
  BY DEF Unsaved, Storable, Stored, Skips, erpVars
<1>5. ASSUME NEW u \in Syncer, u # s PROVE SyncInv(u)'
  BY <1>1, <1>4, <1>5, InvParts, SyncStays DEF erpVars
<1>6. QED
  BY <1>2, <1>3, <1>5 DEF IndInv, SyncInv

LEMMA BeginKeeps == ASSUME IndInv, NEW s \in Syncer, Begin(s) PROVE IndInv'
<1> DEFINE x == [pc |-> "fetch", from |-> WindowStart, now |-> clock, page |-> 1, got |-> <<>>]
<1>1. TypeOK /\ WatermarkCovers
  BY DEF IndInv
<1>2. /\ clock \in Nat /\ watermark \in Nat /\ Overlap \in Nat
      /\ WindowStart = IF watermark = 0 THEN 0 ELSE watermark - Overlap
  BY <1>1 DEF TypeOK, WindowStart
<1>3. x \in SyncState
  <2>1. WindowStart \in Int
    BY <1>2
  <2>2. <<>> \in Seq(Fetched)
    OBVIOUS
  <2>3. QED
    BY <1>2, <2>1, <2>2 DEF SyncState
<1>4. sync' = [sync EXCEPT ![s] = x] /\ sync'[s] = x
  BY <1>1 DEF Begin, TypeOK
<1>5. SyncFits(s)' /\ FetchedOrChanged(s)'
  BY <1>4 DEF SyncFits, FetchedOrChanged
<1>6. SyncCovers(s)'
  <2> SUFFICES ASSUME NEW o \in Order, Unsaved(o)'
               PROVE  InWindow(s, o)' /\ Place(s, o)' > 0
    BY <1>2, <1>4, PageSize \in Nat DEF SyncCovers
  <2>1. Unsaved(o) /\ erp' = erp
    BY DEF Begin, erpVars, Unsaved, Storable, Stored, Skips
  <2>2. watermark = 0 \/ erp[o].at >= watermark - Overlap
    BY <1>1, <2>1, CoversMeans
  <2>3. erp[o].version > 0 /\ erp[o].at \in Nat /\ erp[o].at <= clock
    BY <1>1, <2>1, ErpTyped DEF Unsaved, Storable
  <2>4. InWindow(s, o)'
    BY <1>2, <1>4, <2>1, <2>2, <2>3 DEF InWindow
  <2>5. Place(s, o)' > 0
    <3>1. Window(s)' \in SUBSET Order /\ o \in Window(s)' /\ o \in Nat
      BY <2>4 DEF Window
    <3>2. {p \in Window(s)' : p <= o} \in SUBSET Order /\ o \in {p \in Window(s)' : p <= o}
      BY <3>1
    <3>3. IsFiniteSet({p \in Window(s)' : p <= o})
      BY <3>2, FS_Subset
    <3>4. /\ Cardinality({p \in Window(s)' : p <= o}) # 0
          /\ Cardinality({p \in Window(s)' : p <= o}) \in Nat
      BY <3>2, <3>3, FS_EmptySet, FS_CardinalityType
    <3>5. QED
      BY <3>4 DEF Place
  <2>6. QED
    BY <2>4, <2>5
<1>7. QED
  BY <1>3, <1>4, <1>5, <1>6, OnlySyncMoves DEF Begin, SyncInv

(* A sync that gives up owes nothing. *)
LEMMA FetchFaultKeeps == ASSUME IndInv, NEW s \in Syncer, FetchFault(s) PROVE IndInv'
<1>1. Idle \in SyncState
  <2>1. <<>> \in Seq(Fetched)
    OBVIOUS
  <2>2. QED
    BY <2>1 DEF Idle, SyncState, IndInv, TypeOK
<1>2. sync'[s] = Idle
  BY DEF FetchFault, IndInv, TypeOK
<1>3. QED
  BY <1>1, <1>2, IdleOwesNothing, OnlySyncMoves DEF FetchFault

LEMMA RestartKeeps == ASSUME IndInv, Restart PROVE IndInv'
<1>1. Idle \in SyncState
  <2>1. <<>> \in Seq(Fetched)
    OBVIOUS
  <2>2. QED
    BY <2>1 DEF Idle, SyncState, IndInv, TypeOK
<1>2. TypeOK'
  <2>1. sync' \in [Syncer -> SyncState] /\ returns' \in SUBSET Order
    BY <1>1 DEF Restart
  <2>2. QED
    BY <2>1, SyncsTyped DEF IndInv, Restart
<1>3. WatermarkCovers'
  BY DEF IndInv, Restart, WatermarkCovers, Storable, Stored, Skips, erpVars
<1>4. \A s \in Syncer : SyncInv(s)'
  BY IdleOwesNothing DEF Restart
<1>5. QED
  BY <1>2, <1>3, <1>4 DEF IndInv, SyncInv

(* A page brings what has been passed over so far, or leaves it to the next. *)
LEMMA FetchCovers ==
  ASSUME IndInv, NEW s \in Syncer, FetchNext(s)
  PROVE  SyncInv(s)'
<1> DEFINE page == Page(s)
           got == sync[s].got \o page
<1>1. TypeOK /\ SyncInv(s) /\ sync[s].pc = "fetch" /\ sync[s].page > 0
  BY InvParts DEF FetchNext, SyncInv, SyncFits
<1>2. /\ sync[s].got \in Seq(Fetched) /\ page \in Seq(Fetched)
      /\ sync[s].page \in Nat /\ PageSize \in Nat
  BY <1>1, SyncTyped, PageShows
<1>3. /\ got \in Seq(Fetched)
      /\ \A i \in DOMAIN sync[s].got : i \in DOMAIN got /\ got[i] = sync[s].got[i]
      /\ \A j \in DOMAIN page : \E i \in DOMAIN got : got[i] = page[j]
      /\ \A i \in DOMAIN got : \/ i \in DOMAIN sync[s].got
                              \/ \E j \in DOMAIN page : got[i] = page[j]
  <2>1. SUFFICES ASSUME NEW p \in Seq(Fetched), NEW q \in Seq(Fetched)
                 PROVE  /\ p \o q \in Seq(Fetched)
                        /\ \A i \in DOMAIN p : i \in DOMAIN (p \o q) /\ (p \o q)[i] = p[i]
                        /\ \A j \in DOMAIN q : \E i \in DOMAIN (p \o q) : (p \o q)[i] = q[j]
                        /\ \A i \in DOMAIN (p \o q) :
                             i \in DOMAIN p \/ \E j \in DOMAIN q : (p \o q)[i] = q[j]
    BY <1>2, Zenon
  <2>2. QED
    BY ConcatParts
<1>4. /\ sync'[s].got = got /\ sync'[s].page = sync[s].page + 1
      /\ sync'[s].from = sync[s].from /\ sync'[s].now = sync[s].now
      /\ sync'[s].pc = IF Len(page) = PageSize THEN "fetch"
                       ELSE IF got = <<>> THEN "advance" ELSE "save"
      /\ UNCHANGED <<channel, erp, row, excused>>
  <2>1. sync \in [Syncer -> SyncState]
    BY <1>1 DEF TypeOK, SyncState
  <2>2. QED
    BY <2>1 DEF FetchNext, erpVars, SyncState
<1> HIDE DEF got, page
<1>5. SyncFits(s)'
  BY <1>2, <1>4 DEF SyncFits
<1>6. FetchedOrChanged(s)'
  <2> SUFFICES ASSUME NEW i \in DOMAIN got
               PROVE  LET f == got[i]
                      IN  \/ f.version = erp[f.order].version /\ f.kind = erp[f.order].kind
                          \/ f.version < erp[f.order].version /\ erp[f.order].at >= sync[s].now
    BY <1>4 DEF FetchedOrChanged
  <2>1. CASE i \in DOMAIN sync[s].got
    BY <1>1, <1>3, <2>1 DEF SyncInv, FetchedOrChanged
  <2>2. CASE i \notin DOMAIN sync[s].got
    <3>1. PICK j \in DOMAIN page : got[i] = page[j]
      BY <1>3, <2>2
    <3>2. QED
      BY <1>1, <3>1, PageShows DEF page
  <2>3. QED
    BY <2>1, <2>2
<1>7. ASSUME NEW o \in Order, Unsaved(o), erp[o].at < sync[s].now - Overlap
      PROVE  \/ Holds(s, o)'
             \/ /\ Len(page) = PageSize
                /\ InWindow(s, o) /\ Place(s, o) > Passed(s) + PageSize
  <2>1. CASE Holds(s, o)
    <3>1. PICK i \in DOMAIN sync[s].got :
            sync[s].got[i].order = o /\ sync[s].got[i].version = erp[o].version
      BY <2>1 DEF Holds
    <3>2. i \in DOMAIN got /\ got[i] = sync[s].got[i]
      BY <1>3
    <3>3. QED
      BY <1>4, <3>1, <3>2 DEF Holds
  <2>2. CASE ~Holds(s, o)
    <3>1. InWindow(s, o) /\ Place(s, o) > Passed(s) /\ o \in Window(s)
      BY <1>1, <1>7, <2>2 DEF SyncInv, SyncCovers, Passed, Window
    <3>2. CASE Place(s, o) <= Passed(s) + PageSize
      <4>1. PICK j \in DOMAIN page : page[j].order = o
        BY <1>1, <3>1, <3>2, PageShows DEF page
      <4>2. page[j].version = erp[o].version
        BY <1>1, <4>1, PageShows DEF page
      <4>3. PICK i \in DOMAIN got : got[i] = page[j]
        BY <1>3
      <4>4. QED
        BY <1>4, <4>1, <4>2, <4>3 DEF Holds
    <3>3. CASE ~(Place(s, o) <= Passed(s) + PageSize)
      <4>1. Place(s, o) \in Int /\ Passed(s) \in Int
        BY <1>2, PlaceTypes DEF Passed
      <4>2. Place(s, o) > Passed(s) + PageSize
        BY <1>2, <3>3, <4>1
      <4>3. Len(page) = PageSize
        BY <1>1, <3>1, <3>3, PageShows DEF page
      <4>4. QED
        BY <3>1, <4>2, <4>3
    <3>4. QED
      BY <3>2, <3>3
  <2>3. QED
    BY <2>1, <2>2
<1>8. SyncCovers(s)'
  <2>1. \A o \in Order : Unsaved(o)' <=> Unsaved(o)
    BY <1>4 DEF Unsaved, Storable, Stored, Skips
  <2>2. \A o : (InWindow(s, o)' <=> InWindow(s, o)) /\ Place(s, o)' = Place(s, o)
    BY <1>4, PlacesStay
  <2>3. (sync'[s].page - 1) * PageSize = Passed(s) + PageSize
    <3>1. sync'[s].page - 1 = (sync[s].page - 1) + 1
      BY <1>2, <1>4
    <3>2. \A n \in Int : (n + 1) * PageSize = n * PageSize + PageSize
      BY <1>2
    <3>3. QED
      BY <1>2, <3>1, <3>2 DEF Passed
  <2>4. ASSUME NEW o \in Order, Holds(s, o)' PROVE got # <<>>
    <3>1. DOMAIN got # {}
      BY <1>4, <2>4 DEF Holds
    <3>2. QED
      BY <3>1
  <2> SUFFICES ASSUME NEW o \in Order, Unsaved(o), erp[o].at < sync[s].now - Overlap
               PROVE  /\ sync'[s].pc = "fetch" =>
                           \/ Holds(s, o)'
                           \/ InWindow(s, o) /\ Place(s, o) > Passed(s) + PageSize
                      /\ sync'[s].pc = "save" => Holds(s, o)'
                      /\ sync'[s].pc # "advance"
    BY <1>4, <2>1, <2>2, <2>3 DEF SyncCovers
  <2>5. QED
    BY <1>4, <1>7, <2>4
<1>9. QED
  BY <1>5, <1>6, <1>8 DEF SyncInv

LEMMA StateUpdated ==
  ASSUME NEW x \in SyncState, NEW got \in Seq(Fetched), NEW page \in Nat,
         NEW pc \in {"idle", "fetch", "save", "advance"}
  PROVE  [x EXCEPT !.got = got, !.page = page, !.pc = pc] \in SyncState
BY DEF SyncState

LEMMA FetchKeeps == ASSUME IndInv, NEW s \in Syncer, FetchNext(s) PROVE IndInv'
<1> DEFINE got == sync[s].got \o Page(s)
           pc == IF Len(Page(s)) = PageSize THEN "fetch"
                 ELSE IF got = <<>> THEN "advance" ELSE "save"
           x == [sync[s] EXCEPT !.got = got, !.page = @ + 1, !.pc = pc]
<1>1. TypeOK /\ SyncInv(s) /\ sync[s].page > 0
  BY InvParts DEF FetchNext, SyncInv, SyncFits
<1>2. got \in Seq(Fetched)
  BY <1>1, SyncTyped, PageShows, ConcatParts
<1>3. pc \in {"idle", "fetch", "save", "advance"}
  OBVIOUS
<1>4. sync' = [sync EXCEPT ![s] = x]
  BY DEF FetchNext
<1> HIDE DEF got, pc
<1>5. sync[s] \in SyncState /\ sync[s].page + 1 \in Nat
  BY <1>1 DEF TypeOK, SyncState
<1>6. x \in SyncState
  BY <1>2, <1>3, <1>5, StateUpdated
<1>7. QED
  BY <1>4, <1>6, FetchCovers, OnlySyncMoves DEF FetchNext

LEMMA TailParts ==
  ASSUME NEW S, NEW p \in Seq(S), p # <<>>
  PROVE  /\ Head(p) \in S /\ Tail(p) \in Seq(S)
         /\ 1 \in DOMAIN p /\ p[1] = Head(p)
         /\ \A j \in DOMAIN Tail(p) : \E i \in DOMAIN p : Tail(p)[j] = p[i]
         /\ \A i \in DOMAIN p : i = 1 \/ \E j \in DOMAIN Tail(p) : Tail(p)[j] = p[i]
<1> DEFINE t == Tail(p)
<1>1. /\ Head(p) \in S /\ t \in Seq(S) /\ Len(t) = Len(p) - 1
      /\ \A i \in 1 .. Len(t) : t[i] = p[i + 1]
  BY HeadTailProperties
<1>2. /\ DOMAIN p = 1 .. Len(p) /\ Len(p) \in Nat \ {0}
      /\ DOMAIN t = 1 .. Len(t)
  BY <1>1, LenProperties, EmptySeq
<1>3. p[1] = Head(p)
  OBVIOUS
<1> HIDE DEF t
<1>4. ASSUME NEW j \in DOMAIN t PROVE \E i \in DOMAIN p : t[j] = p[i]
  <2>1. j + 1 \in DOMAIN p /\ t[j] = p[j + 1]
    BY <1>1, <1>2
  <2>2. QED
    BY <2>1
<1>5. ASSUME NEW i \in DOMAIN p, i # 1 PROVE \E j \in DOMAIN t : t[j] = p[i]
  <2>1. i - 1 \in DOMAIN t /\ t[i - 1] = p[(i - 1) + 1] /\ (i - 1) + 1 = i
    BY <1>1, <1>2, <1>5
  <2>2. QED
    BY <2>1
<1>6. QED
  BY <1>1, <1>2, <1>3, <1>4, <1>5 DEF t

(* What saving the first fetched order may do to it: it is saved then, or was
   not to be, or failed, or a younger version is buried that no window that is
   open has passed. *)
LEMMA SaveMoves ==
  ASSUME IndInv, NEW s \in Syncer, SaveNext(s, Skips(Head(sync[s].got).kind)),
         NEW f, f = Head(sync[s].got), NEW o, o = f.order
  PROVE  /\ \A p \in Order : p # o /\ Unsaved(p)' => Unsaved(p)
         /\ ~(Unsaved(o)' /\ f.version = erp[o].version)
         /\ Unsaved(o)' => Unsaved(o) \/ erp[o].at >= clock - Overlap
<1>1. TypeOK /\ SyncInv(s) /\ sync[s].pc = "save"
  BY InvParts DEF SaveNext
<1>2. /\ sync[s].got \in Seq(Fetched) /\ f \in Fetched
      /\ 1 \in DOMAIN sync[s].got /\ sync[s].got[1] = f
  BY <1>1, SyncTyped, TailParts DEF SyncInv, SyncFits
<1>3. UNCHANGED <<channel, clock, erp>>
  BY DEF SaveNext, erpVars
<1>4. o \in Order /\ f.version \in Nat
  BY <1>2 DEF Fetched
<1> DEFINE e == erp[o]
<1>0. e.version \in Nat /\ e.at \in Nat /\ sync[s].now \in Nat /\ clock \in Nat
  <2>1. \A p \in Order : erp[p].version \in Nat /\ erp[p].at \in Nat
    BY <1>1, ErpTyped
  <2>2. QED
    BY <1>1, <1>4, <2>1, SyncTyped
<1>5. \/ f.version = erp[o].version /\ f.kind = erp[o].kind
      \/ f.version < erp[o].version /\ erp[o].at >= sync[s].now
  BY <1>1, <1>2 DEF SyncInv, FetchedOrChanged
<1>6. \/ Skips(f.kind) /\ UNCHANGED <<row, excused>>
      \/ /\ row' = [row EXCEPT ![o] = [version |-> f.version, closed |-> FALSE]]
         /\ excused' = IF f.version = erp[o].version THEN excused \ {o}
                       ELSE IF clock > sync[s].now + Overlap THEN excused \cup {o}
                       ELSE excused
      \/ excused' = excused \cup {o} /\ UNCHANGED row
  BY DEF SaveNext, UpsertTrade
<1>7. row \in [Order -> [version : 0 .. MaxVersion, closed : BOOLEAN]]
  BY <1>1 DEF TypeOK
<1>8. ASSUME NEW p \in Order, p # o, Unsaved(p)' PROVE Unsaved(p)
  <2>1. row'[p] = row[p]
    BY <1>4, <1>6, <1>7, <1>8
  <2>2. p \in excused => p \in excused'
    BY <1>6, <1>8
  <2>3. QED
    BY <1>3, <1>8, <2>1, <2>2 DEF Unsaved, Storable, Stored, Skips
<1>9. ASSUME Unsaved(o)', f.version = erp[o].version PROVE FALSE
  <2>1. o \notin excused' /\ row'[o].version # erp[o].version /\ ~Skips(erp[o].kind)
    BY <1>3, <1>9 DEF Unsaved, Storable, Stored, Skips
  <2>2. Skips(f.kind) => f.kind # erp[o].kind
    BY <2>1
  <2>3. f.kind = erp[o].kind
    <3>1. ~(f.version < erp[o].version)
      BY <1>4, <1>9
    <3>2. QED
      BY <1>5, <3>1, Zenon
  <2>4. ~Skips(f.kind)
    BY <2>2, <2>3
  <2>5. row' = [row EXCEPT ![o] = [version |-> f.version, closed |-> FALSE]]
    BY <1>6, <2>1, <2>4
  <2>6. QED
    BY <1>4, <1>7, <1>9, <2>1, <2>5
<1>10. ASSUME Unsaved(o)', ~Unsaved(o) PROVE erp[o].at >= clock - Overlap
  <2>1. o \notin excused' /\ Storable(o)
    BY <1>3, <1>10 DEF Unsaved, Storable, Skips
  <2>2. ~(UNCHANGED <<row, excused>>)
    BY <1>3, <1>10 DEF Unsaved, Storable, Stored, Skips
  <2>3. f.version # erp[o].version
    BY <1>9, <1>10
  <2>4. excused' = IF clock > sync[s].now + Overlap THEN excused \cup {o} ELSE excused
    BY <1>6, <2>1, <2>2, <2>3
  <2>5. ~(clock > sync[s].now + Overlap) /\ erp[o].at >= sync[s].now
    BY <1>5, <2>1, <2>3, <2>4
  <2>6. QED
    BY <1>0, <2>5, Overlap \in Nat
<1>11. QED
  BY <1>8, <1>9, <1>10

LEMMA SaveCovers ==
  ASSUME IndInv, NEW s \in Syncer, SaveNext(s, Skips(Head(sync[s].got).kind))
  PROVE  SyncInv(s)'
<1>1. TypeOK /\ SyncInv(s) /\ sync[s].pc = "save"
  BY InvParts DEF SaveNext
<1>2. PICK f : f = Head(sync[s].got)
  OBVIOUS
<1>3. PICK o : o = f.order
  OBVIOUS
<1>4. PICK rest : rest = Tail(sync[s].got)
  OBVIOUS
<1>5. /\ f \in Fetched /\ rest \in Seq(Fetched)
      /\ 1 \in DOMAIN sync[s].got /\ sync[s].got[1] = f
      /\ \A j \in DOMAIN rest : \E i \in DOMAIN sync[s].got : rest[j] = sync[s].got[i]
      /\ \A i \in DOMAIN sync[s].got :
           i = 1 \/ \E j \in DOMAIN rest : rest[j] = sync[s].got[i]
  <2>1. sync[s].got \in Seq(Fetched) /\ sync[s].got # <<>>
    BY <1>1, SyncTyped DEF SyncInv, SyncFits
  <2>2. PICK got \in Seq(Fetched) : got = sync[s].got
    BY <2>1
  <2>3. f = Head(got) /\ rest = Tail(got) /\ got # <<>>
    BY <1>2, <1>4, <2>1, <2>2
  <2>4. /\ f \in Fetched /\ rest \in Seq(Fetched) /\ 1 \in DOMAIN got /\ got[1] = f
        /\ \A j \in DOMAIN rest : \E i \in DOMAIN got : rest[j] = got[i]
        /\ \A i \in DOMAIN got : i = 1 \/ \E j \in DOMAIN rest : rest[j] = got[i]
    BY <2>3, TailParts
  <2>5. QED
    BY <2>2, <2>4
<1>6. /\ sync'[s].got = rest /\ sync'[s].now = sync[s].now
      /\ sync'[s].pc = IF rest = <<>> THEN "advance" ELSE "save"
      /\ UNCHANGED <<channel, clock, erp>>
  <2>1. sync \in [Syncer -> SyncState]
    BY <1>1 DEF TypeOK, SyncState
  <2>2. QED
    BY <1>4, <2>1 DEF SaveNext, erpVars, SyncState
<1>7. SyncFits(s)'
  BY <1>6 DEF SyncFits
<1>8. FetchedOrChanged(s)'
  <2> SUFFICES ASSUME NEW j \in DOMAIN rest
               PROVE  \/ /\ rest[j].version = erp[rest[j].order].version
                         /\ rest[j].kind = erp[rest[j].order].kind
                      \/ /\ rest[j].version < erp[rest[j].order].version
                         /\ erp[rest[j].order].at >= sync[s].now
    BY <1>6 DEF FetchedOrChanged
  <2>1. PICK i \in DOMAIN sync[s].got : rest[j] = sync[s].got[i]
    BY <1>5
  <2>2. QED
    BY <1>1, <2>1 DEF SyncInv, FetchedOrChanged
<1>9. ASSUME NEW p \in Order, Unsaved(p)', erp[p].at < sync[s].now - Overlap
      PROVE  Holds(s, p)'
  <2>1. Unsaved(p) /\ (p = o => f.version # erp[p].version)
    <3>1. CASE p # o
      BY <1>2, <1>3, <1>9, <3>1, SaveMoves
    <3>2. CASE p = o
      <4>1. f.version # erp[p].version
        BY <1>2, <1>3, <1>9, <3>2, SaveMoves
      <4>2. Unsaved(p) \/ erp[p].at >= clock - Overlap
        BY <1>2, <1>3, <1>9, <3>2, SaveMoves
      <4>3. ~(erp[p].at >= clock - Overlap)
        BY <1>1, <1>9, SyncTyped, ErpTyped
      <4>4. QED
        BY <4>1, <4>2, <4>3
    <3>3. QED
      BY <3>1, <3>2
  <2>2. PICK i \in DOMAIN sync[s].got :
          sync[s].got[i].order = p /\ sync[s].got[i].version = erp[p].version
    BY <1>1, <1>9, <2>1 DEF SyncInv, SyncCovers, Holds
  <2>3. i # 1
    BY <1>3, <1>5, <2>1, <2>2
  <2>4. PICK j \in DOMAIN rest : rest[j] = sync[s].got[i]
    BY <1>5, <2>3
  <2>5. QED
    BY <1>6, <2>2, <2>4 DEF Holds
<1>10. SyncCovers(s)'
  <2>1. ASSUME NEW p \in Order, Holds(s, p)' PROVE rest # <<>>
    <3>1. DOMAIN rest # {}
      BY <1>6, <2>1 DEF Holds
    <3>2. QED
      BY <3>1
  <2>2. QED
    BY <1>6, <1>9, <2>1 DEF SyncCovers
<1>11. QED
  BY <1>7, <1>8, <1>10 DEF SyncInv

LEMMA SaveKeeps ==
  ASSUME IndInv, NEW s \in Syncer, SaveNext(s, Skips(Head(sync[s].got).kind))
  PROVE  IndInv'
<1>1. TypeOK /\ SyncInv(s) /\ WatermarkCovers
  BY InvParts
<1>2. PICK f : f = Head(sync[s].got)
  OBVIOUS
<1>3. PICK o : o = f.order
  OBVIOUS
<1>4. UNCHANGED <<erpVars, channel, clock, erp, watermark, returns>>
  BY DEF SaveNext, erpVars
<1>5. /\ sync[s].got \in Seq(Fetched) /\ sync[s].got # <<>>
      /\ f \in Fetched /\ Tail(sync[s].got) \in Seq(Fetched)
  <2>1. sync[s].got \in Seq(Fetched) /\ sync[s].got # <<>>
    BY <1>1, SyncTyped DEF SyncInv, SyncFits, SaveNext
  <2>2. QED
    BY <1>2, <2>1, TailParts
<1>6. /\ o \in Order /\ f.version \in 0 .. MaxVersion
  BY <1>3, <1>5 DEF Fetched
<1>7. /\ sync' \in [Syncer -> SyncState]
      /\ \A u \in Syncer : u # s => sync'[u] = sync[u]
  <2> DEFINE rest == Tail(sync[s].got)
             pc == IF rest = <<>> THEN "advance" ELSE "save"
             x == [sync[s] EXCEPT !.got = rest, !.pc = pc]
  <2>1. sync[s] \in SyncState /\ sync[s].page \in Nat
    BY <1>1 DEF TypeOK, SyncState
  <2>2. pc \in {"idle", "fetch", "save", "advance"}
    OBVIOUS
  <2>3. sync' = [sync EXCEPT ![s] = x]
    BY DEF SaveNext
  <2> HIDE DEF rest, pc
  <2>4. x \in SyncState
    BY <1>5, <2>1, <2>2 DEF SyncState, rest
  <2>5. QED
    BY <1>1, <2>3, <2>4, SyncTypeKept
<1>8. /\ row' \in [Order -> [version : 0 .. MaxVersion, closed : BOOLEAN]]
      /\ excused' \in SUBSET Order
      /\ Fault \/ UNCHANGED faults
  <2>1. /\ row \in [Order -> [version : 0 .. MaxVersion, closed : BOOLEAN]]
        /\ excused \in SUBSET Order
    BY <1>1 DEF TypeOK
  <2>2. UpsertTrade(f) \in [Order -> [version : 0 .. MaxVersion, closed : BOOLEAN]]
    BY <1>3, <1>6, <2>1 DEF UpsertTrade
  <2>3. row' \in {row, UpsertTrade(f)}
    BY <1>2 DEF SaveNext
  <2>4. excused' \in {excused, excused \cup {o}, excused \ {o}}
    BY <1>2, <1>3 DEF SaveNext
  <2>5. Fault \/ UNCHANGED faults
    BY DEF SaveNext
  <2>6. QED
    BY <1>6, <2>1, <2>2, <2>3, <2>4, <2>5
<1>9. TypeOK'
  <2>1. faults' \in 0 .. MaxFaults
    BY <1>1, <1>8 DEF TypeOK, Fault
  <2>2. sync' \in [Syncer -> [pc : {"idle", "fetch", "save", "advance"}, from : Int,
                             now : 0 .. clock', page : Nat, got : Seq(Fetched)]]
    BY <1>4, <1>7 DEF SyncState
  <2>3. UNCHANGED <<channel, clock, erp, bill, watermark, returns>>
    BY <1>4 DEF erpVars
  <2>4. QED
    BY <1>1, <1>8, <2>1, <2>2, <2>3 DEF TypeOK
<1>10. ASSUME NEW p \in Order, Unsaved(p)'
       PROVE  Unsaved(p) \/ erp[p].at >= clock - Overlap
  <2>1. CASE p = o
    BY <1>2, <1>3, <1>10, <2>1, SaveMoves
  <2>2. CASE p # o
    BY <1>2, <1>3, <1>10, <2>2, SaveMoves
  <2>3. QED
    BY <2>1, <2>2
<1>11. WatermarkCovers'
  <2> SUFFICES ASSUME NEW p \in Order, Unsaved(p)', watermark # 0
               PROVE  erp[p].at >= watermark - Overlap
    BY <1>4 DEF WatermarkCovers, Unsaved
  <2>1. CASE Unsaved(p)
    BY <1>1, <2>1, CoversMeans
  <2>2. CASE erp[p].at >= clock - Overlap
    <3>1. /\ clock \in Nat /\ watermark \in Nat /\ watermark <= clock /\ Overlap \in Nat
          /\ erp[p].at \in Nat
      BY <1>1, SyncTyped, ErpTyped
    <3>2. QED
      BY <2>2, <3>1
  <2>3. QED
    BY <1>10, <2>1, <2>2
<1>12. ASSUME NEW u \in Syncer, u # s PROVE SyncInv(u)'
  <2>1. ASSUME NEW p \in Order, Unsaved(p)', erp[p].at < sync[u].now - Overlap
        PROVE  Unsaved(p)
    <3>1. ~(erp[p].at >= clock - Overlap)
      BY <1>1, <2>1, SyncTyped, ErpTyped
    <3>2. QED
      BY <1>10, <2>1, <3>1
  <2>2. QED
    BY <1>4, <1>7, <1>12, <2>1, InvParts, SyncStays
<1>13. QED
  BY <1>9, <1>11, <1>12, SaveCovers DEF IndInv, SyncInv

(* A sync that is done leaves nothing unsaved behind its watermark. *)
LEMMA AdvanceKeeps == ASSUME IndInv, NEW s \in Syncer, Advance(s) PROVE IndInv'
<1>1. TypeOK /\ SyncInv(s) /\ WatermarkCovers
  BY InvParts
<1>2. /\ sync[s].pc = "advance"
      /\ sync' = [sync EXCEPT ![s] = Idle] /\ sync'[s] = Idle
      /\ UNCHANGED <<channel, clock, erp, bill, row, returns, excused>>
      /\ watermark' \in {watermark, sync[s].now}
      /\ Fault \/ UNCHANGED faults
  BY <1>1 DEF TypeOK, Advance, erpVars
<1>3. /\ sync' \in [Syncer -> SyncState]
      /\ \A u \in Syncer : u # s => sync'[u] = sync[u]
  <2>1. <<>> \in Seq(Fetched)
    OBVIOUS
  <2>2. Idle \in SyncState
    BY <1>1, <2>1 DEF Idle, SyncState, TypeOK
  <2>3. QED
    BY <1>1, <1>2, <2>2, SyncTypeKept
<1>4. TypeOK'
  <2>1. faults' \in 0 .. MaxFaults
    BY <1>1, <1>2 DEF TypeOK, Fault
  <2>2. watermark' \in 0 .. clock
    BY <1>1, <1>2, SyncTyped
  <2>3. sync' \in [Syncer -> [pc : {"idle", "fetch", "save", "advance"}, from : Int,
                             now : 0 .. clock', page : Nat, got : Seq(Fetched)]]
    BY <1>2, <1>3 DEF SyncState
  <2>4. QED
    BY <1>1, <1>2, <2>1, <2>2, <2>3 DEF TypeOK
<1>5. \A o \in Order : Unsaved(o)' <=> Unsaved(o)
  BY <1>2 DEF Unsaved, Storable, Stored, Skips
<1>6. WatermarkCovers'
  <2> SUFFICES ASSUME NEW o \in Order, Unsaved(o), watermark' # 0
               PROVE  erp[o].at >= watermark' - Overlap
    BY <1>2, <1>5 DEF WatermarkCovers, Unsaved
  <2>1. CASE watermark' = watermark
    BY <1>1, <2>1, CoversMeans
  <2>2. CASE watermark' = sync[s].now
    <3>1. ~(erp[o].at < sync[s].now - Overlap)
      BY <1>1, <1>2 DEF SyncInv, SyncCovers
    <3>2. QED
      BY <1>1, <2>2, <3>1, SyncTyped, ErpTyped
  <2>3. QED
    BY <1>2, <2>1, <2>2
<1>7. ASSUME NEW u \in Syncer PROVE SyncInv(u)'
  BY <1>2, <1>3, <1>5, InvParts, SyncStays, IdleOwesNothing
<1>8. QED
  BY <1>4, <1>6, <1>7 DEF IndInv, SyncInv

-----------------------------------------------------------------------------
(* The theorems *)

LEMMA SyncStepKeeps == ASSUME IndInv, NEW s \in Syncer, SyncStep(s) PROVE IndInv'
<1>1. CASE StartSync(s) \/ StartForeignSync(s)
  BY <1>1, BeginKeeps DEF StartSync, StartForeignSync
<1>2. CASE FetchPage(s) \/ FetchForeignPage(s)
  BY <1>2, FetchKeeps DEF FetchPage, FetchForeignPage
<1>3. CASE SaveOrder(s) \/ SaveForeignOrder(s)
  <2>1. SaveNext(s, Skips(Head(sync[s].got).kind))
    BY <1>3 DEF SaveOrder, SaveForeignOrder, Skips
  <2>2. QED
    BY <2>1, SaveKeeps
<1>4. CASE Advance(s)
  BY <1>4, AdvanceKeeps
<1>5. QED
  BY <1>1, <1>2, <1>3, <1>4 DEF SyncStep

LEMMA NextKeeps == ASSUME IndInv, [Next]_vars PROVE IndInv'
<1>1. CASE ErpStep
  BY <1>1, TickKeeps, ModifyKeeps, BillStepsKeep DEF ErpStep
<1>2. ASSUME NEW s \in Syncer, SyncStep(s) \/ FetchFault(s) PROVE IndInv'
  BY <1>2, SyncStepKeeps, FetchFaultKeeps
<1>3. CASE AfterSaleStep
  BY <1>3, BillStepsKeep DEF AfterSaleStep, StartAfterSaleSync, StartForeignAfterSaleSync
<1>4. CASE Restart
  BY <1>4, RestartKeeps
<1>5. CASE UNCHANGED vars
  BY <1>5, BillsKeep DEF vars, erpVars, IndInv, TypeOK
<1>6. QED
  BY <1>1, <1>2, <1>3, <1>4, <1>5 DEF Next

(* The inductive invariant holds in every reachable state. *)
THEOREM Invariance == Spec => []IndInv
BY InitIndInv, NextKeeps, PTL DEF Spec

(* The tables keep their types: the watermark never runs ahead of the clock. *)
THEOREM TypeCorrect == Spec => []TypeOK
<1>1. IndInv => TypeOK
  BY DEF IndInv
<1>2. QED
  BY <1>1, Invariance, PTL

(* The watermark never leaves behind a version of an order that has not been
   stored, however syncs overlap with each other, with changes in the ERP, with
   failures and with crashes, but for the orders that are excused by name. *)
THEOREM WatermarkCorrect == Spec => []WatermarkCovers
<1>1. IndInv => WatermarkCovers
  BY DEF IndInv
<1>2. QED
  BY <1>1, Invariance, PTL
=============================================================================
