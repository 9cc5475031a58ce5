--------------------------- MODULE CatalogProofs ---------------------------
(***************************************************************************)
(* Catalog keeps IndInv, for any number of products, workers and rebuilds, *)
(* any batch size and any number of faults, and with it listings and       *)
(* totals are right.  Each action has a lemma; what it says of one product *)
(* depends on whether the product is the one the action is about.          *)
(***************************************************************************)
EXTENDS Catalog, FiniteSetTheorems, TLAPS

USE CatalogAssumption

-----------------------------------------------------------------------------
(* Least and greatest numbers *)

LEMMA LeastExists ==
  ASSUME NEW S \in SUBSET Nat, S # {}
  PROVE  \E m \in S : \A y \in S : m <= y
<1>1. PICK m \in S : \A y \in S : ~(<<y, m>> \in OpToRel(<, Nat))
  BY NatLessThanWellFounded, WFMin
<1>2. \A y \in S : ~(y < m)
  BY <1>1 DEF OpToRel
<1>3. QED
  BY <1>2

LEMMA GreatestExists ==
  ASSUME NEW n \in Nat, NEW S \in SUBSET (0 .. n), S # {}
  PROVE  /\ Max(S) \in S
         /\ \A y \in S : y <= Max(S)
<1> DEFINE T == {i \in 0 .. n : n - i \in S}
<1>1. PICK k \in T : \A j \in T : k <= j
  <2>1. PICK y \in S : TRUE
    OBVIOUS
  <2>2. n - y \in T
    OBVIOUS
  <2>3. T \in SUBSET Nat
    OBVIOUS
  <2> HIDE DEF T
  <2>4. QED
    BY <2>2, <2>3, LeastExists
<1>2. n - k \in S
  BY <1>1
<1>3. \A y \in S : n - k >= y
  <2> SUFFICES ASSUME NEW y \in S PROVE n - k >= y
    OBVIOUS
  <2>1. n - y \in T
    OBVIOUS
  <2>2. k \in 0 .. n /\ k <= n - y /\ y \in 0 .. n
    BY <1>1, <2>1
  <2>3. QED
    BY <2>2
<1>4. \E x \in S : \A y \in S : x >= y
  BY <1>2, <1>3
<1>5. QED
  BY <1>4 DEF Max

LEMMA SomeOf ==
  ASSUME NEW n \in Nat, NEW S \in SUBSET (0 .. n)
  PROVE  IsFiniteSet(S) /\ Cardinality(S) \in Nat
<1>1. IsFiniteSet(0 .. n)
  BY FS_Interval
<1>2. IsFiniteSet(S)
  BY <1>1, FS_Subset
<1>3. QED
  BY <1>2, FS_CardinalityType

-----------------------------------------------------------------------------
(* Types *)

WorkerState == [pc : {"idle", "insert", "read", "index", "remove"},
                product : 0 .. MaxProduct, doc : Supplier \cup {NoDoc}]

ReindexState == [pc : {"idle", "create", "batch", "bulk"},
                 last : 0 .. MaxProduct, docs : Documents]

(* What TypeOK and RebuildsFit say of one rebuild. *)
Fits(r) ==
  /\ r \in ReindexState
  /\ \A p \in DOMAIN r.docs : p > r.last
  /\ Cardinality(DOMAIN r.docs) <= BatchSize
  /\ r.pc \in {"idle", "create"} => r.last = 0
  /\ DOMAIN r.docs # {} <=> r.pc = "bulk"

Ids == drawn \in 0 .. MaxProduct /\ IdsFit

Counters ==
  writes \in 0 .. MaxWrites /\ rebuilds \in 0 .. MaxRebuilds /\ faults \in 0 .. MaxFaults

IndexTyped ==
  /\ doc \in [Product -> Supplier \cup {NoDoc}]
  /\ exists \in BOOLEAN
  /\ ~exists => \A p \in Product : doc[p] = NoDoc

AllParts ==
  /\ row \in [Product -> Supplier \cup {Unborn, Gone}]
  /\ IndexTyped /\ Counters /\ lost \subseteq Product
  /\ worker \in [Worker -> WorkerState]
  /\ reindex \in [Reindexer -> ReindexState]
  /\ \A x \in Reindexer : Fits(reindex[x])
  /\ Ids /\ WorkersFit /\ HeldIsProper /\ WrongIsRepaired

LEMMA Parts == IndInv <=> AllParts
BY DEF AllParts, IndInv, TypeOK, WorkerState, ReindexState, Fits, RebuildsFit, Counters,
       IndexTyped, Ids

LEMMA PartsNext == AllParts' => IndInv'
BY DEF AllParts, IndInv, TypeOK, WorkerState, ReindexState, Fits, RebuildsFit, Counters,
       IndexTyped, Ids

LEMMA DocumentsTyped ==
  ASSUME NEW d \in Documents
  PROVE  /\ DOMAIN d \in SUBSET Product
         /\ \A p \in DOMAIN d : p \in Product /\ d[p] \in Supplier
BY DEF Documents

LEMMA NoDocuments == Resting.docs \in Documents /\ DOMAIN Resting.docs = {}
<1>1. Resting.docs = [p \in {} |-> NoDoc]
  BY DEF Resting
<1>2. [p \in {} |-> NoDoc] \in [{} -> Supplier]
  OBVIOUS
<1>3. QED
  BY <1>1, <1>2 DEF Documents

LEMMA RestingFits == Fits(Resting) /\ Resting.pc = "idle"
<1>1. Resting \in ReindexState
  BY NoDocuments DEF Resting, ReindexState
<1>2. Resting.pc = "idle" /\ Resting.last = 0
  BY DEF Resting
<1>3. Cardinality(DOMAIN Resting.docs) = 0
  BY NoDocuments, FS_EmptySet
<1>4. QED
  BY <1>1, <1>2, <1>3, NoDocuments DEF Fits

LEMMA IdleTyped == Idle \in WorkerState /\ Idle.pc = "idle"
BY DEF Idle, WorkerState

LEMMA InitIndInv == Init => IndInv
<1> SUFFICES ASSUME Init PROVE IndInv
  OBVIOUS
<1>1. /\ row \in [Product -> Supplier \cup {Unborn, Gone}]
      /\ IndexTyped /\ Counters /\ lost \subseteq Product
  BY DEF Init, EmptyDocs, IndexTyped, Counters
<1>2. /\ worker \in [Worker -> WorkerState]
      /\ \A w \in Worker : worker[w].pc = "idle"
  BY IdleTyped DEF Init
<1>3. \A x \in Reindexer : reindex[x] = Resting
  BY DEF Init
<1>4. /\ reindex \in [Reindexer -> ReindexState]
      /\ \A x \in Reindexer : Fits(reindex[x])
  BY <1>3, RestingFits DEF Init, Fits
<1>5. Ids /\ WorkersFit
  BY <1>2 DEF Init, Ids, IdsFit, WorkersFit
<1>6. HeldIsProper
  BY <1>2, <1>3, NoDocuments DEF HeldIsProper
<1>7. WrongIsRepaired
  BY DEF Init, WrongIsRepaired, Proper, Stored, EmptyDocs
<1>8. QED
  BY <1>1, <1>2, <1>4, <1>5, <1>6, <1>7, Parts DEF AllParts

LEMMA FaultCounts == ASSUME Counters, Fault PROVE faults' \in 0 .. MaxFaults
BY DEF Counters, Fault

-----------------------------------------------------------------------------
(* Documents on their way *)

(* Who holds a document of p that is not lost, holds the proper one, and there
   is none of a product without a row. *)
LEMMA HeldProper ==
  ASSUME IndInv, NEW p \in Product \ lost, NEW w, NEW x
  PROVE  /\ Held(p, w, x) \subseteq {Proper(p)}
         /\ ~Stored(p) => Held(p, w, x) = {}
<1>1. Held(p, w, x) \subseteq {Proper(p)}
  BY DEF IndInv, HeldIsProper, Held
<1>2. Held(p, w, x) \subseteq Supplier
  <2>1. \A v \in Worker : worker[v].pc = "index" => worker[v].doc \in Supplier
    BY DEF IndInv, WorkersFit
  <2>2. \A y \in Reindexer : p \in DOMAIN reindex[y].docs => reindex[y].docs[p] \in Supplier
    BY DocumentsTyped, Parts DEF AllParts, ReindexState
  <2>3. QED
    BY <2>1, <2>2 DEF Held
<1>3. ~Stored(p) => Proper(p) \notin Supplier
  BY DEF Proper
<1>4. QED
  BY <1>1, <1>2, <1>3

(* Nobody holds anything of p. *)
LEMMA NoneHeld ==
  ASSUME NEW p, Held(p, Nothing, Nothing) = {}
  PROVE  /\ \A v \in Worker : ~(worker[v].pc = "index" /\ worker[v].product = p)
         /\ \A y \in Reindexer : p \notin DOMAIN reindex[y].docs
BY DEF Held

-----------------------------------------------------------------------------
(* Requests *)

(* The slot of a worker that starts, or goes on, gets state r. *)
LEMMA WorkerMoves ==
  ASSUME IndInv, NEW w \in Worker, NEW r \in WorkerState, worker' = [worker EXCEPT ![w] = r]
  PROVE  /\ worker' \in [Worker -> WorkerState]
         /\ worker'[w] = r
         /\ \A v \in Worker \ {w} : worker'[v] = worker[v]
BY Parts DEF AllParts

LEMMA RebuildsStay ==
  ASSUME IndInv, reindex' = reindex
  PROVE  /\ (reindex \in [Reindexer -> ReindexState])'
         /\ (\A x \in Reindexer : Fits(reindex[x]))'
<1>1. /\ reindex \in [Reindexer -> ReindexState]
      /\ \A x \in Reindexer : Fits(reindex[x])
  BY Parts DEF AllParts
<1>2. QED
  BY <1>1 DEF Fits, ReindexState

(* HeldIsProper and WrongIsRepaired for one product. *)
HeldRight(q) ==
  /\ \A v \in Worker : worker[v].pc = "index" /\ worker[v].product = q
                       => worker[v].doc = Proper(q)
  /\ \A x \in Reindexer : q \in DOMAIN reindex[x].docs => reindex[x].docs[q] = Proper(q)

Repaired(q) ==
  doc[q] # Proper(q) => IF Stored(q) THEN BeingIndexed(q) ELSE BeingRemoved(q)

Right(q) == HeldRight(q) /\ Repaired(q)

LEMMA AllRight == IndInv => \A q \in Product \ lost : Right(q)
BY DEF IndInv, HeldIsProper, WrongIsRepaired, Right, HeldRight, Repaired

LEMMA AllRightNext ==
  (\A q \in Product \ lost : Right(q))' => HeldIsProper' /\ WrongIsRepaired'
BY DEF HeldIsProper, WrongIsRepaired, Right, HeldRight, Repaired

(* Whether rebuild x, which does not move, comes to q. *)
LEMMA StillComing ==
  ASSUME NEW q, NEW x, reindex'[x] = reindex[x]
  PROVE  Coming(x, q)' <=> Coming(x, q)
BY DEF Coming

(* A step of worker w that is not about q, or not yet. *)
LEMMA OtherProduct ==
  ASSUME NEW q \in Product, Right(q),
         row'[q] = row[q], doc'[q] = doc[q], reindex' = reindex,
         NEW w \in Worker,
         \A v \in Worker \ {w} : worker'[v] = worker[v],
         worker[w].pc \in {"idle", "insert"} \/ worker[w].product # q,
         worker'[w].pc \in {"idle", "insert"} \/ worker'[w].product # q
  PROVE  Right(q)'
<1>1. Proper(q)' = Proper(q) /\ Stored(q)' = Stored(q)
  BY DEF Proper, Stored
<1>2. HeldRight(q)'
  BY <1>1 DEF Right, HeldRight
<1>3. (BeingIndexed(q) => BeingIndexed(q)') /\ (BeingRemoved(q) => BeingRemoved(q)')
  BY StillComing DEF BeingIndexed, BeingRemoved
<1>4. Repaired(q)'
  BY <1>1, <1>3 DEF Right, Repaired
<1>5. QED
  BY <1>2, <1>4 DEF Right

WorkerFits(w) ==
  /\ worker[w].pc # "idle" => worker[w].product \in Product
  /\ worker[w].pc \in {"insert", "index"} => worker[w].doc \in Supplier
  /\ worker[w].pc = "remove" => row[worker[w].product] = Gone

(* What a step of a worker has to show. *)
LEMMA WorkerStep ==
  ASSUME IndInv, NEW w \in Worker, NEW r \in WorkerState, worker' = [worker EXCEPT ![w] = r],
         reindex' = reindex,
         row' \in [Product -> Supplier \cup {Unborn, Gone}],
         \A q \in Product : row[q] = Gone => row'[q] = Gone,
         Ids', IndexTyped', Counters', (lost \subseteq Product)',
         WorkerFits(w)',
         \A q \in Product \ lost' : Right(q)'
  PROVE  IndInv'
<1>1. /\ worker' \in [Worker -> WorkerState]
      /\ worker'[w] = r
      /\ \A v \in Worker \ {w} : worker'[v] = worker[v]
  BY WorkerMoves
<1>2. /\ (reindex \in [Reindexer -> ReindexState])'
      /\ (\A x \in Reindexer : Fits(reindex[x]))'
  BY RebuildsStay
<1>3. WorkersFit'
  <2> SUFFICES ASSUME NEW v \in Worker PROVE WorkerFits(v)'
    BY DEF WorkersFit, WorkerFits
  <2>1. WorkerFits(v)
    BY DEF IndInv, WorkersFit, WorkerFits
  <2>2. CASE v # w
    BY <2>1, <2>2, <1>1 DEF WorkerFits
  <2>3. QED
    BY <2>2
<1>4. HeldIsProper' /\ WrongIsRepaired'
  BY AllRightNext
<1>5. QED
  BY <1>1, <1>2, <1>3, <1>4, PartsNext DEF AllParts

(* A step of worker w that draws no id, inserts no row and goes on to insert none. *)
LEMMA IdsKept ==
  ASSUME IndInv, NEW w \in Worker, \A v \in Worker \ {w} : worker'[v] = worker[v],
         worker'[w].pc # "insert", drawn' = drawn,
         \A q \in Product : row'[q] = Unborn <=> row[q] = Unborn
  PROVE  Ids'
<1>1. Ids /\ WorkersFit
  BY Parts DEF AllParts
<1>2. drawn' \in 0 .. MaxProduct /\ \A p \in Product : row'[p] # Unborn => p <= drawn'
  BY <1>1 DEF Ids, IdsFit
<1>3. ASSUME NEW u \in Worker, worker'[u].pc = "insert"
      PROVE  /\ worker'[u].product <= drawn' /\ row'[worker'[u].product] = Unborn
             /\ \A v \in Worker \ {u} : worker'[v].pc = "insert" =>
                  worker'[v].product # worker'[u].product
  <2>1. u # w /\ worker'[u] = worker[u]
    BY <1>3
  <2>2. worker[u].product \in Product
    BY <2>1, <1>1, <1>3 DEF WorkersFit
  <2>3. QED
    BY <2>1, <2>2, <1>1, <1>3 DEF Ids, IdsFit
<1>4. QED
  BY <1>2, <1>3 DEF Ids, IdsFit

(* Changing or deleting a row that is in the table. *)
LEMMA RowKept ==
  ASSUME IndInv, NEW p \in Product, NEW s \in Supplier \cup {Gone},
         row[p] # Unborn, row' = [row EXCEPT ![p] = s]
  PROVE  /\ row' \in [Product -> Supplier \cup {Unborn, Gone}]
         /\ row'[p] = s /\ \A q \in Product \ {p} : row'[q] = row[q]
         /\ \A q \in Product : row'[q] = Unborn <=> row[q] = Unborn
<1>1. row \in [Product -> Supplier \cup {Unborn, Gone}] /\ s # Unborn
  BY Parts DEF AllParts, Unborn, Gone
<1>2. QED
  BY <1>1

(* The id drawn is above those of all rows and of all insertions under way. *)
LEMMA CreateStep ==
  ASSUME IndInv, NEW w \in Worker, NEW s \in Supplier, CreateProduct(w, s)
  PROVE  IndInv'
<1>1. PICK p, r : p = drawn + 1 /\ r = [pc |-> "insert", product |-> p, doc |-> s]
  OBVIOUS
<1>2. /\ drawn < MaxProduct /\ drawn' = p
      /\ worker[w].pc = "idle"
      /\ worker' = [worker EXCEPT ![w] = r]
      /\ UNCHANGED <<row, doc, exists, reindex, writes, rebuilds, faults, lost>>
  BY <1>1 DEF CreateProduct, Start, counters
<1>3. Ids /\ WorkersFit /\ row \in [Product -> Supplier \cup {Unborn, Gone}]
  BY Parts DEF AllParts
<1>4. p \in Product /\ p > drawn /\ drawn \in Nat /\ p <= MaxProduct
  BY <1>1, <1>2, <1>3 DEF Ids, Product
<1>5. r \in WorkerState
  BY <1>1, <1>4 DEF WorkerState, Product
<1>6. /\ worker'[w] = r
      /\ \A v \in Worker \ {w} : worker'[v] = worker[v]
  BY <1>2, <1>5, WorkerMoves
<1>7. Ids'
  <2>1. row[p] = Unborn
    BY <1>3, <1>4 DEF Ids, IdsFit, Product
  <2>2. /\ drawn' \in 0 .. MaxProduct
        /\ \A q \in Product : row'[q] # Unborn => q <= drawn'
    BY <1>1, <1>2, <1>3, <1>4 DEF Ids, IdsFit, Product
  <2>3. ASSUME NEW v \in Worker \ {w}, worker[v].pc = "insert"
        PROVE  worker[v].product < p /\ worker[v].product \in Product
    BY <2>3, <1>1, <1>3, <1>4 DEF Ids, IdsFit, WorkersFit, Product
  <2>4. ASSUME NEW u \in Worker, worker'[u].pc = "insert"
        PROVE  /\ worker'[u].product <= drawn' /\ row'[worker'[u].product] = Unborn
               /\ \A v \in Worker \ {u} : worker'[v].pc = "insert" =>
                    worker'[v].product # worker'[u].product
    <3>1. CASE u = w
      BY <3>1, <2>1, <2>3, <1>1, <1>2, <1>4, <1>6 DEF Product
    <3>2. CASE u # w
      <4>1. /\ worker'[u] = worker[u] /\ worker[u].product < p
            /\ worker[u].product \in Product
        BY <3>2, <2>3, <2>4, <1>6
      <4>2. row[worker[u].product] = Unborn
        BY <4>1, <2>4, <1>3 DEF Ids, IdsFit
      <4>3. ASSUME NEW v \in Worker \ {u}, worker'[v].pc = "insert"
            PROVE  worker'[v].product # worker[u].product
        <5>1. CASE v = w
          BY <5>1, <4>1, <1>1, <1>6 DEF Product
        <5>2. CASE v # w
          BY <5>2, <4>1, <4>3, <2>4, <1>3, <1>6 DEF Ids, IdsFit
        <5>3. QED
          BY <5>1, <5>2
      <4>4. QED
        BY <4>1, <4>2, <4>3, <1>2, <1>4 DEF Product
    <3>3. QED
      BY <3>1, <3>2
  <2>5. QED
    BY <2>2, <2>4 DEF Ids, IdsFit
<1>8. IndexTyped' /\ Counters' /\ (lost \subseteq Product)'
  BY <1>2, Parts DEF AllParts, IndexTyped, Counters
<1>9. WorkerFits(w)'
  BY <1>1, <1>4, <1>6 DEF WorkerFits
<1>10. ASSUME NEW q \in Product \ lost PROVE Right(q)'
  BY <1>1, <1>2, <1>6, AllRight, OtherProduct
<1>11. QED
  BY <1>2, <1>3, <1>5, <1>7, <1>8, <1>9, <1>10, WorkerStep

LEMMA CommitStep ==
  ASSUME IndInv, NEW w \in Worker, CommitProduct(w)
  PROVE  IndInv'
<1>1. PICK p, s : p = worker[w].product /\ s = worker[w].doc
  OBVIOUS
<1>2. PICK r : r = [worker[w] EXCEPT !.pc = "index"]
  OBVIOUS
<1>3. worker[w] \in WorkerState /\ worker \in [Worker -> WorkerState]
  BY Parts DEF AllParts
<1>4. /\ worker[w].pc = "insert"
      /\ row' = [row EXCEPT ![p] = s]
      /\ worker' = [worker EXCEPT ![w] = r]
      /\ UNCHANGED <<drawn, doc, exists, reindex, writes, rebuilds, faults, lost>>
  BY <1>1, <1>2, <1>3 DEF CommitProduct, counters
<1>5. /\ r.pc = "index" /\ r.product = p /\ r.doc = s
      /\ r \in WorkerState
  BY <1>1, <1>2, <1>3 DEF WorkerState
<1>6. Ids /\ WorkersFit /\ row \in [Product -> Supplier \cup {Unborn, Gone}]
  BY Parts DEF AllParts
<1>7. /\ p \in Product /\ s \in Supplier /\ s # Unborn
      /\ row[p] = Unborn /\ p <= drawn
  BY <1>1, <1>4, <1>6 DEF WorkersFit, Ids, IdsFit
<1>8. /\ worker'[w] = r
      /\ \A v \in Worker \ {w} : worker'[v] = worker[v]
  BY <1>4, <1>5, WorkerMoves
<1>9. /\ row' \in [Product -> Supplier \cup {Unborn, Gone}]
      /\ row'[p] = s /\ \A q \in Product \ {p} : row'[q] = row[q]
  BY <1>4, <1>6, <1>7
<1>10. Ids'
  <2>1. /\ drawn' \in 0 .. MaxProduct
        /\ \A q \in Product : row'[q] # Unborn => q <= drawn'
    BY <1>4, <1>6, <1>7, <1>9 DEF Ids, IdsFit
  <2>2. ASSUME NEW u \in Worker, worker'[u].pc = "insert"
        PROVE  /\ worker'[u].product <= drawn' /\ row'[worker'[u].product] = Unborn
               /\ \A v \in Worker \ {u} : worker'[v].pc = "insert" =>
                    worker'[v].product # worker'[u].product
    <3>1. u # w /\ worker'[u] = worker[u]
      BY <2>2, <1>5, <1>8
    <3>2. worker[u].product \in Product /\ worker[u].product # p
      BY <3>1, <2>2, <1>1, <1>4, <1>6 DEF Ids, IdsFit, WorkersFit
    <3>3. ASSUME NEW v \in Worker \ {u}, worker'[v].pc = "insert"
          PROVE  v # w /\ worker'[v] = worker[v]
      BY <3>3, <1>5, <1>8
    <3>4. QED
      BY <3>1, <3>2, <3>3, <2>2, <1>4, <1>6, <1>9 DEF Ids, IdsFit
  <2>3. QED
    BY <2>1, <2>2 DEF Ids, IdsFit
<1>11. IndexTyped' /\ Counters' /\ (lost \subseteq Product)'
  BY <1>4, Parts DEF AllParts, IndexTyped, Counters
<1>12. WorkerFits(w)'
  BY <1>5, <1>7, <1>8 DEF WorkerFits
<1>13. \A q \in Product : row[q] = Gone => row'[q] = Gone
  BY <1>7, <1>9 DEF Unborn, Gone
<1>14. ASSUME NEW q \in Product \ lost PROVE Right(q)'
  <2>1. CASE q # p
    BY <2>1, <1>1, <1>4, <1>5, <1>8, <1>9, AllRight, OtherProduct
  <2>2. CASE q = p
    <3>1. Stored(q)' /\ Proper(q)' = s
      BY <2>2, <1>7, <1>9 DEF Proper, Stored
    <3>2. ~Stored(p)
      BY <1>7 DEF Stored
    <3>3. Held(p, Nothing, Nothing) = {}
      BY <2>2, <3>2, HeldProper
    <3>4. HeldRight(q)'
      BY <2>2, <3>1, <3>3, <1>4, <1>5, <1>8, NoneHeld DEF HeldRight
    <3>5. BeingIndexed(q)'
      BY <2>2, <1>5, <1>8 DEF BeingIndexed
    <3>6. QED
      BY <3>1, <3>4, <3>5 DEF Right, Repaired
  <2>3. QED
    BY <2>1, <2>2
<1>15. QED
  BY <1>4, <1>5, <1>9, <1>10, <1>11, <1>12, <1>13, <1>14, WorkerStep

LEMMA UpdateStep ==
  ASSUME IndInv, NEW w \in Worker, NEW p \in Product, NEW s \in Supplier, UpdateProduct(w, p, s)
  PROVE  IndInv'
<1>1. PICK r : r = [pc |-> "read", product |-> p, doc |-> NoDoc]
  OBVIOUS
<1>2. /\ Stored(p) /\ Write
      /\ row' = [row EXCEPT ![p] = s]
      /\ lost' = IF s = row[p] THEN lost ELSE Overtaken(p)
      /\ worker[w].pc = "idle"
      /\ worker' = [worker EXCEPT ![w] = r]
      /\ UNCHANGED <<drawn, doc, exists, reindex, rebuilds, faults>>
  BY <1>1 DEF UpdateProduct, StartSync, Start
<1>3. r \in WorkerState
  BY <1>1 DEF WorkerState, Product
<1>4. /\ worker'[w] = r
      /\ \A v \in Worker \ {w} : worker'[v] = worker[v]
  BY <1>2, <1>3, WorkerMoves
<1>5. /\ row' \in [Product -> Supplier \cup {Unborn, Gone}]
      /\ row'[p] = s /\ \A q \in Product \ {p} : row'[q] = row[q]
      /\ Ids'
  <2>1. row[p] # Unborn
    BY <1>2 DEF Stored
  <2>2. /\ row' \in [Product -> Supplier \cup {Unborn, Gone}]
        /\ row'[p] = s /\ \A q \in Product \ {p} : row'[q] = row[q]
        /\ \A q \in Product : row'[q] = Unborn <=> row[q] = Unborn
    BY <1>2, <2>1, RowKept
  <2>3. Ids'
    BY <1>1, <1>2, <1>4, <2>2, IdsKept
  <2>4. QED
    BY <2>2, <2>3
<1>6. IndexTyped' /\ Counters' /\ (lost \subseteq Product)' /\ lost \subseteq lost'
  BY <1>2, Parts DEF AllParts, IndexTyped, Counters, Write, Overtaken
<1>7. WorkerFits(w)'
  BY <1>1, <1>4 DEF WorkerFits
<1>8. \A q \in Product : row[q] = Gone => row'[q] = Gone
  BY <1>2, <1>5 DEF Stored
<1>9. ASSUME NEW q \in Product \ lost' PROVE Right(q)'
  <2>1. Right(q)
    BY <1>6, AllRight
  <2>2. CASE q # p
    BY <2>1, <2>2, <1>1, <1>2, <1>4, <1>5, OtherProduct
  <2>3. CASE q = p
    <3>1. Stored(q)' /\ Proper(q)' = s
      BY <2>3, <1>5 DEF Proper, Stored
    <3>2. s = row[p] => HeldRight(q)'
      <4> SUFFICES ASSUME s = row[p] PROVE HeldRight(q)'
        OBVIOUS
      <4>1. Proper(q) = s
        BY <2>3, <1>2 DEF Proper
      <4>2. QED
        BY <2>1, <3>1, <4>1, <1>1, <1>2, <1>4 DEF Right, HeldRight
    <3>3. s # row[p] => HeldRight(q)'
      <4> SUFFICES ASSUME s # row[p] PROVE HeldRight(q)'
        OBVIOUS
      <4>1. Held(p, Nothing, Nothing) = {}
        BY <2>3, <1>2 DEF Overtaken
      <4>2. QED
        BY <2>3, <4>1, <1>1, <1>2, <1>4, NoneHeld DEF HeldRight
    <3>4. HeldRight(q)'
      BY <3>2, <3>3
    <3>5. BeingIndexed(q)'
      BY <2>3, <1>1, <1>4 DEF BeingIndexed
    <3>6. QED
      BY <3>1, <3>4, <3>5 DEF Right, Repaired
  <2>4. QED
    BY <2>2, <2>3
<1>10. QED
  BY <1>2, <1>3, <1>5, <1>6, <1>7, <1>8, <1>9, WorkerStep

LEMMA DeleteStep ==
  ASSUME IndInv, NEW w \in Worker, NEW p \in Product, DeleteProduct(w, p)
  PROVE  IndInv'
<1>1. PICK r : r = [pc |-> "remove", product |-> p, doc |-> NoDoc]
  OBVIOUS
<1>2. /\ row[p] # Unborn /\ Write
      /\ row' = [row EXCEPT ![p] = Gone]
      /\ lost' = IF row[p] = Gone THEN lost ELSE Overtaken(p)
      /\ worker[w].pc = "idle"
      /\ worker' = [worker EXCEPT ![w] = r]
      /\ UNCHANGED <<drawn, doc, exists, reindex, rebuilds, faults>>
  BY <1>1 DEF DeleteProduct, Start
<1>3. r \in WorkerState
  BY <1>1 DEF WorkerState, Product
<1>4. /\ worker'[w] = r
      /\ \A v \in Worker \ {w} : worker'[v] = worker[v]
  BY <1>2, <1>3, WorkerMoves
<1>5. /\ row' \in [Product -> Supplier \cup {Unborn, Gone}]
      /\ row'[p] = Gone /\ \A q \in Product \ {p} : row'[q] = row[q]
      /\ Ids'
  <2>1. /\ row' \in [Product -> Supplier \cup {Unborn, Gone}]
        /\ row'[p] = Gone /\ \A q \in Product \ {p} : row'[q] = row[q]
        /\ \A q \in Product : row'[q] = Unborn <=> row[q] = Unborn
    BY <1>2, RowKept
  <2>2. Ids'
    BY <1>1, <1>2, <1>4, <2>1, IdsKept
  <2>3. QED
    BY <2>1, <2>2
<1>6. IndexTyped' /\ Counters' /\ (lost \subseteq Product)' /\ lost \subseteq lost'
  BY <1>2, Parts DEF AllParts, IndexTyped, Counters, Write, Overtaken
<1>7. WorkerFits(w)'
  BY <1>1, <1>4, <1>5 DEF WorkerFits
<1>8. \A q \in Product : row[q] = Gone => row'[q] = Gone
  BY <1>5
<1>9. ASSUME NEW q \in Product \ lost' PROVE Right(q)'
  <2>1. Right(q)
    BY <1>6, AllRight
  <2>2. CASE q # p
    BY <2>1, <2>2, <1>1, <1>2, <1>4, <1>5, OtherProduct
  <2>3. CASE q = p
    <3>1. ~Stored(q)' /\ Proper(q)' = NoDoc
      BY <2>3, <1>5 DEF Proper, Stored
    <3>2. Held(p, Nothing, Nothing) = {}
      <4>1. CASE row[p] = Gone
        <5>1. ~Stored(p)
          BY <4>1 DEF Stored
        <5>2. QED
          BY <2>3, <5>1, <1>6, HeldProper
      <4>2. CASE row[p] # Gone
        BY <2>3, <4>2, <1>2 DEF Overtaken
      <4>3. QED
        BY <4>1, <4>2
    <3>3. HeldRight(q)'
      BY <2>3, <3>2, <1>1, <1>2, <1>4, NoneHeld DEF HeldRight
    <3>4. BeingRemoved(q)'
      BY <2>3, <1>1, <1>4 DEF BeingRemoved
    <3>5. QED
      BY <3>1, <3>3, <3>4 DEF Right, Repaired
  <2>4. QED
    BY <2>2, <2>3
<1>10. QED
  BY <1>2, <1>3, <1>5, <1>6, <1>7, <1>8, <1>9, WorkerStep

-----------------------------------------------------------------------------
(* Workers going on *)

LEMMA RowsStay ==
  ASSUME IndInv, row' = row
  PROVE  /\ row' \in [Product -> Supplier \cup {Unborn, Gone}]
         /\ \A q \in Product : row[q] = Gone => row'[q] = Gone
         /\ \A q \in Product : row'[q] = Unborn <=> row[q] = Unborn
BY Parts DEF AllParts

LEMMA ReadStep ==
  ASSUME IndInv, NEW w \in Worker, ReadProduct(w)
  PROVE  IndInv'
<1>1. PICK p : p = worker[w].product
  OBVIOUS
<1>2. worker[w] \in WorkerState /\ worker \in [Worker -> WorkerState]
  BY Parts DEF AllParts
<1>3. PICK r : r = IF Stored(p) THEN [worker[w] EXCEPT !.pc = "index", !.doc = row[p]] ELSE Idle
  OBVIOUS
<1>4. /\ worker[w].pc = "read"
      /\ worker' = [worker EXCEPT ![w] = r]
      /\ UNCHANGED <<row, drawn, doc, exists, reindex, writes, rebuilds, faults, lost>>
  BY <1>1, <1>2, <1>3 DEF ReadProduct, Finish, counters
<1>5. p \in Product
  BY <1>1, <1>4 DEF IndInv, WorkersFit
<1>6. r \in WorkerState
  BY <1>2, <1>3, IdleTyped DEF WorkerState, Stored
<1>7. /\ worker'[w] = r
      /\ \A v \in Worker \ {w} : worker'[v] = worker[v]
  BY <1>4, <1>6, WorkerMoves
<1>8. \/ Stored(p) /\ r.pc = "index" /\ r.product = p /\ r.doc = row[p]
      \/ ~Stored(p) /\ r.pc = "idle"
  BY <1>1, <1>2, <1>3, IdleTyped DEF WorkerState
<1>9. IndexTyped' /\ Counters' /\ (lost \subseteq Product)'
  BY <1>4, Parts DEF AllParts, IndexTyped, Counters
<1>10. WorkerFits(w)'
  BY <1>5, <1>7, <1>8 DEF WorkerFits, Stored
<1>11. ASSUME NEW q \in Product \ lost PROVE Right(q)'
  <2>1. Right(q)
    BY AllRight
  <2>2. CASE q # p
    <3>1. worker'[w].pc = "idle" \/ worker'[w].product # q
      BY <2>2, <1>7, <1>8
    <3>2. QED
      BY <2>1, <2>2, <3>1, <1>1, <1>4, <1>7, OtherProduct
  <2>3. CASE q = p
    <3>1. Stored(q)' = Stored(q) /\ Proper(q)' = Proper(q)
      BY <1>4 DEF Proper, Stored
    <3>2. HeldRight(q)'
      <4>1. Stored(q) => Proper(q) = row[q]
        BY DEF Proper
      <4>2. QED
        BY <2>1, <2>3, <3>1, <4>1, <1>4, <1>7, <1>8 DEF Right, HeldRight
    <3>3. Stored(q) => BeingIndexed(q)'
      BY <2>3, <1>7, <1>8 DEF BeingIndexed
    <3>4. BeingRemoved(q) => BeingRemoved(q)'
      BY <1>4, <1>7 DEF BeingRemoved
    <3>5. QED
      BY <2>1, <3>1, <3>2, <3>3, <3>4, <1>4 DEF Right, Repaired
  <2>4. QED
    BY <2>2, <2>3
<1>12. Ids'
  BY <1>4, <1>7, <1>8, RowsStay, IdsKept
<1>13. QED
  BY <1>4, <1>6, <1>9, <1>10, <1>11, <1>12, RowsStay, WorkerStep

(* A worker writes or removes a document and is done. *)
LEMMA WriteStep ==
  ASSUME IndInv, NEW w \in Worker, NEW p \in Product, NEW d \in Supplier \cup {NoDoc},
         worker[w].product = p,
         p \notin lost => d = Proper(p),
         doc' = [doc EXCEPT ![p] = d],
         exists' \in BOOLEAN, d # NoDoc => exists', exists => exists',
         lost' = Written(p, d, w, Nothing),
         Finish(w),
         UNCHANGED <<row, drawn, reindex, counters>>
  PROVE  IndInv'
<1>1. /\ worker' \in [Worker -> WorkerState]
      /\ worker'[w] = Idle
      /\ \A v \in Worker \ {w} : worker'[v] = worker[v]
  BY IdleTyped, WorkerMoves DEF Finish
<1>2. doc \in [Product -> Supplier \cup {NoDoc}] /\ lost \subseteq Product
  BY Parts DEF AllParts, IndexTyped
<1>3. doc'[p] = d /\ \A q \in Product \ {p} : doc'[q] = doc[q]
  BY <1>2
<1>4. IndexTyped'
  <2>1. ~exists => \A q \in Product : doc[q] = NoDoc
    BY Parts DEF AllParts, IndexTyped
  <2>2. doc' \in [Product -> Supplier \cup {NoDoc}]
    BY <1>2
  <2>3. ~exists' => \A q \in Product : doc'[q] = NoDoc
    BY <2>1, <1>3
  <2>4. QED
    BY <2>2, <2>3 DEF IndexTyped
<1>5. Counters' /\ (lost \subseteq Product)'
  BY <1>2, Parts DEF AllParts, Counters, counters, Written
<1>6. WorkerFits(w)'
  BY <1>1, IdleTyped DEF WorkerFits
<1>7. ASSUME NEW q \in Product \ lost' PROVE Right(q)'
  <2>1. CASE q # p
    <3>1. q \notin lost
      BY <2>1 DEF Written
    <3>2. Right(q)
      BY <3>1, AllRight
    <3>3. QED
      BY <2>1, <3>2, <1>1, <1>3, IdleTyped, OtherProduct
  <2>2. CASE q = p
    <3>1. Stored(q)' = Stored(q) /\ Proper(q)' = Proper(q)
      BY DEF Proper, Stored
    <3>2. d = Proper(p) /\ (p \in lost => Held(p, w, Nothing) \subseteq {d})
      BY <2>2 DEF Written
    <3>3. Held(p, w, Nothing) \subseteq {d}
      BY <2>2, <3>2, HeldProper
    <3>4. HeldRight(q)'
      <4>1. /\ \A v \in Worker \ {w} : worker[v].pc = "index" /\ worker[v].product = p
                                         => worker[v].doc = d
            /\ \A y \in Reindexer : p \in DOMAIN reindex[y].docs => reindex[y].docs[p] = d
        <5>1. \A v \in Worker \ {w} : worker[v].pc = "index" /\ worker[v].product = p
                                       => worker[v].doc \in Held(p, w, Nothing)
          BY DEF Held
        <5>2. \A y \in Reindexer : p \in DOMAIN reindex[y].docs
                                   => reindex[y].docs[p] \in Held(p, w, Nothing)
          BY DEF Held
        <5>3. QED
          BY <3>3, <5>1, <5>2
      <4>2. QED
        BY <2>2, <3>1, <3>2, <4>1, <1>1, IdleTyped DEF HeldRight
    <3>5. QED
      BY <2>2, <3>1, <3>2, <3>4, <1>3 DEF Right, Repaired
  <2>3. QED
    BY <2>1, <2>2
<1>8. Ids'
  BY <1>1, IdleTyped, RowsStay, IdsKept
<1>9. QED
  BY <1>4, <1>5, <1>6, <1>7, <1>8, IdleTyped, RowsStay, WorkerStep DEF Finish

LEMMA IndexStep ==
  ASSUME IndInv, NEW w \in Worker, IndexProduct(w)
  PROVE  IndInv'
<1>1. PICK p, d : p = worker[w].product /\ d = worker[w].doc
  OBVIOUS
<1>2. /\ worker[w].pc = "index"
      /\ doc' = [doc EXCEPT ![p] = d]
      /\ exists' = TRUE
      /\ lost' = Written(p, d, w, Nothing)
      /\ Finish(w)
      /\ UNCHANGED <<row, drawn, reindex, counters>>
  BY <1>1 DEF IndexProduct
<1>3. p \in Product /\ d \in Supplier
  BY <1>1, <1>2 DEF IndInv, WorkersFit
<1>4. p \notin lost => d = Proper(p)
  BY <1>1, <1>2, <1>3 DEF IndInv, HeldIsProper
<1>5. QED
  BY <1>1, <1>2, <1>3, <1>4, WriteStep

LEMMA RemoveStep ==
  ASSUME IndInv, NEW w \in Worker, RemoveDocument(w)
  PROVE  IndInv'
<1>1. PICK p : p = worker[w].product
  OBVIOUS
<1>2. /\ worker[w].pc = "remove"
      /\ doc' = [doc EXCEPT ![p] = NoDoc]
      /\ lost' = Written(p, NoDoc, w, Nothing)
      /\ Finish(w)
      /\ UNCHANGED <<row, drawn, exists, reindex, counters>>
  BY <1>1 DEF RemoveDocument
<1>3. p \in Product /\ row[p] = Gone
  BY <1>1, <1>2 DEF IndInv, WorkersFit
<1>4. Proper(p) = NoDoc
  BY <1>3 DEF Proper, Stored
<1>5. exists' \in BOOLEAN
  BY <1>2, Parts DEF AllParts, IndexTyped
<1>6. QED
  BY <1>1, <1>2, <1>3, <1>4, <1>5, WriteStep

LEMMA WorkerFaultStep ==
  ASSUME IndInv, NEW w \in Worker, WorkerFault(w)
  PROVE  IndInv'
<1>1. PICK p : p = worker[w].product
  OBVIOUS
<1>2. /\ worker[w].pc # "idle" /\ Fault /\ Finish(w)
      /\ lost' = lost \cup Leaves(w)
      /\ UNCHANGED <<row, drawn, doc, exists, reindex, writes, rebuilds>>
  BY DEF WorkerFault
<1>3. p \in Product /\ Leaves(w) \subseteq {p}
  BY <1>1, <1>2 DEF IndInv, WorkersFit, Leaves
<1>4. /\ worker'[w] = Idle
      /\ \A v \in Worker \ {w} : worker'[v] = worker[v]
  BY <1>2, IdleTyped, WorkerMoves DEF Finish
<1>5. IndexTyped' /\ Counters' /\ (lost \subseteq Product)'
  BY <1>2, <1>3, FaultCounts, Parts DEF AllParts, IndexTyped, Counters
<1>6. WorkerFits(w)'
  BY <1>4, IdleTyped DEF WorkerFits
<1>7. ASSUME NEW q \in Product \ lost' PROVE Right(q)'
  <2>1. Right(q)
    BY <1>2, AllRight
  <2>2. worker[w].pc \in {"idle", "insert"} \/ worker[w].product # q
    BY <1>2 DEF Leaves
  <2>3. QED
    BY <2>1, <2>2, <1>2, <1>4, IdleTyped, OtherProduct
<1>8. Ids'
  BY <1>2, <1>4, IdleTyped, RowsStay, IdsKept
<1>9. QED
  BY <1>2, <1>5, <1>6, <1>7, <1>8, IdleTyped, RowsStay, WorkerStep DEF Finish

-----------------------------------------------------------------------------
(* Rebuilds *)

LEMMA RebuildMoves ==
  ASSUME IndInv, NEW x \in Reindexer, NEW r \in ReindexState,
         reindex' = [reindex EXCEPT ![x] = r]
  PROVE  /\ reindex' \in [Reindexer -> ReindexState]
         /\ reindex'[x] = r
         /\ \A y \in Reindexer \ {x} : reindex'[y] = reindex[y]
BY Parts DEF AllParts

(* What a step of a rebuild has to show. *)
LEMMA RebuildStep ==
  ASSUME IndInv, NEW x \in Reindexer, NEW r, Fits(r), reindex' = [reindex EXCEPT ![x] = r],
         UNCHANGED <<row, drawn, worker>>,
         IndexTyped', Counters', (lost \subseteq Product)',
         \A q \in Product \ lost' : Right(q)'
  PROVE  IndInv'
<1>1. r \in ReindexState
  BY DEF Fits
<1>2. /\ reindex' \in [Reindexer -> ReindexState]
      /\ reindex'[x] = r
      /\ \A y \in Reindexer \ {x} : reindex'[y] = reindex[y]
  BY <1>1, RebuildMoves
<1>3. ASSUME NEW y \in Reindexer PROVE Fits(reindex[y])'
  <2>1. Fits(reindex[y]) /\ Fits(r)
    BY Parts DEF AllParts
  <2>2. Fits(reindex[y])' <=> Fits(reindex'[y])
    BY DEF Fits, ReindexState
  <2>3. QED
    BY <2>1, <2>2, <1>2
<1>4. (reindex \in [Reindexer -> ReindexState])'
  BY <1>2 DEF ReindexState
<1>5. (worker \in [Worker -> WorkerState])' /\ WorkersFit' /\ Ids'
  BY Parts DEF AllParts, WorkersFit, WorkerState, Ids, IdsFit
<1>6. HeldIsProper' /\ WrongIsRepaired'
  BY AllRightNext
<1>7. QED
  BY <1>3, <1>4, <1>5, <1>6, RowsStay, PartsNext DEF AllParts

(* A step of rebuild x after which q's document is as it was. *)
LEMMA OtherRebuild ==
  ASSUME NEW q \in Product, Right(q), UNCHANGED <<row, worker>>, doc'[q] = doc[q],
         NEW x \in Reindexer, \A y \in Reindexer \ {x} : reindex'[y] = reindex[y],
         q \in DOMAIN reindex'[x].docs => reindex'[x].docs[q] = Proper(q),
         Stored(q) /\ Coming(x, q) => doc[q] = Proper(q) \/ Coming(x, q)'
  PROVE  Right(q)'
<1>1. Proper(q)' = Proper(q) /\ Stored(q)' = Stored(q)
  BY DEF Proper, Stored
<1>2. HeldRight(q)'
  BY <1>1 DEF Right, HeldRight
<1>3. BeingRemoved(q) => BeingRemoved(q)'
  BY DEF BeingRemoved
<1>4. Stored(q) /\ BeingIndexed(q) => BeingIndexed(q)' \/ doc[q] = Proper(q)
  BY StillComing DEF BeingIndexed
<1>5. Repaired(q)'
  BY <1>1, <1>3, <1>4 DEF Right, Repaired
<1>6. QED
  BY <1>2, <1>5 DEF Right

LEMMA AbortStep ==
  ASSUME IndInv, NEW x \in Reindexer, Abort(x), UNCHANGED <<row, drawn, doc, exists, worker>>, Counters'
  PROVE  IndInv'
<1>1. /\ reindex' = [reindex EXCEPT ![x] = Resting]
      /\ lost' = lost \cup Missed(x)
  BY DEF Abort
<1>2. /\ reindex'[x] = Resting
      /\ \A y \in Reindexer \ {x} : reindex'[y] = reindex[y]
  BY <1>1, RestingFits, RebuildMoves DEF Fits
<1>3. IndexTyped' /\ (lost \subseteq Product)'
  BY <1>1, Parts DEF AllParts, IndexTyped, Missed
<1>4. ASSUME NEW q \in Product \ lost' PROVE Right(q)'
  <2>1. Right(q)
    BY <1>1, AllRight
  <2>2. Coming(x, q) => doc[q] = Proper(q)
    BY <1>1 DEF Missed
  <2>3. QED
    BY <2>1, <2>2, <1>2, NoDocuments, OtherRebuild
<1>5. QED
  BY <1>1, <1>3, <1>4, RestingFits, RebuildStep

LEMMA DeleteIndexStep ==
  ASSUME IndInv, NEW x \in Reindexer, DeleteIndex(x)
  PROVE  IndInv'
<1>1. Fits(reindex[x]) /\ reindex[x].pc = "idle"
  BY Parts DEF AllParts, DeleteIndex
<1>2. PICK r : r = [reindex[x] EXCEPT !.pc = "create"]
  OBVIOUS
<1>3. /\ r.pc = "create" /\ r.last = 0 /\ r.docs = reindex[x].docs
      /\ r \in ReindexState
      /\ DOMAIN r.docs = {} /\ reindex[x].last = 0
  BY <1>1, <1>2 DEF Fits, ReindexState
<1>4. Fits(r)
  BY <1>1, <1>3 DEF Fits
<1>5. /\ reindex' = [reindex EXCEPT ![x] = r]
      /\ rebuilds < MaxRebuilds /\ rebuilds' = rebuilds + 1
      /\ UNCHANGED <<row, drawn, worker, writes>>
  <2>1. reindex \in [Reindexer -> ReindexState]
    BY Parts DEF AllParts
  <2>2. QED
    BY <1>2, <2>1 DEF DeleteIndex
<1>6. /\ reindex'[x] = r
      /\ \A y \in Reindexer \ {x} : reindex'[y] = reindex[y]
  BY <1>3, <1>5, RebuildMoves
<1>7. CASE /\ exists' = FALSE
           /\ doc' = EmptyDocs
           /\ lost' = {p \in lost : ~(Held(p, Nothing, x) \subseteq {Proper(p)})}
           /\ UNCHANGED faults
  <2>1. IndexTyped' /\ Counters' /\ (lost \subseteq Product)'
    <3>1. IndexTyped'
      BY <1>7 DEF IndexTyped, EmptyDocs
    <3>2. rebuilds' \in 0 .. MaxRebuilds
      BY <1>5, Parts DEF AllParts, Counters
    <3>3. Counters'
      BY <3>2, <1>5, <1>7, Parts DEF AllParts, Counters
    <3>4. (lost \subseteq Product)'
      BY <1>7, Parts DEF AllParts
    <3>5. QED
      BY <3>1, <3>3, <3>4
  <2>2. ASSUME NEW q \in Product \ lost' PROVE Right(q)'
    <3>1. Held(q, Nothing, x) \subseteq {Proper(q)}
      BY <1>7, HeldProper
    <3>2. \A v \in Worker : worker[v].pc = "index" /\ worker[v].product = q
                            => worker[v].doc \in Held(q, Nothing, x)
      BY DEF Held
    <3>3. \A y \in Reindexer \ {x} : q \in DOMAIN reindex[y].docs
                                     => reindex[y].docs[q] \in Held(q, Nothing, x)
      BY DEF Held
    <3>4. Stored(q)' = Stored(q) /\ Proper(q)' = Proper(q)
      BY <1>5 DEF Stored, Proper
    <3>5. HeldRight(q)'
      BY <3>1, <3>2, <3>3, <3>4, <1>3, <1>5, <1>6 DEF HeldRight
    <3>6. BeingIndexed(q)'
      BY <1>3, <1>6 DEF BeingIndexed, Coming, Product
    <3>7. ~Stored(q) => doc'[q] = Proper(q)
      BY <1>7 DEF Proper, EmptyDocs
    <3>8. QED
      BY <3>4, <3>5, <3>6, <3>7 DEF Right, Repaired
  <2>3. QED
    BY <2>1, <2>2, <1>4, <1>5, RebuildStep
<1>8. CASE Fault /\ UNCHANGED <<exists, doc, lost>>
  <2>1. IndexTyped' /\ Counters' /\ (lost \subseteq Product)'
    <3>1. rebuilds' \in 0 .. MaxRebuilds
      BY <1>5, Parts DEF AllParts, Counters
    <3>2. QED
      BY <3>1, <1>5, <1>8, FaultCounts, Parts DEF AllParts, IndexTyped, Counters
  <2>2. ASSUME NEW q \in Product \ lost' PROVE Right(q)'
    BY <1>1, <1>3, <1>5, <1>6, <1>8, AllRight, OtherRebuild DEF Coming
  <2>3. QED
    BY <2>1, <2>2, <1>4, <1>5, RebuildStep
<1>9. QED
  BY <1>7, <1>8 DEF DeleteIndex

LEMMA CreateIndexStep ==
  ASSUME IndInv, NEW x \in Reindexer, CreateProductIndex(x)
  PROVE  IndInv'
<1>1. /\ UNCHANGED <<row, drawn, doc, worker, counters>>
      /\ Counters'
  BY Parts DEF AllParts, CreateProductIndex, Counters, counters
<1>2. CASE Abort(x) /\ UNCHANGED exists
  BY <1>1, <1>2, AbortStep
<1>3. CASE /\ exists' = TRUE
           /\ reindex' = [reindex EXCEPT ![x].pc = "batch"]
           /\ UNCHANGED lost
  <2>1. Fits(reindex[x]) /\ reindex[x].pc = "create"
    BY Parts DEF AllParts, CreateProductIndex
  <2>2. PICK r : r = [reindex[x] EXCEPT !.pc = "batch"]
    OBVIOUS
  <2>3. /\ r.pc = "batch" /\ r.last = reindex[x].last /\ r.docs = reindex[x].docs
        /\ r \in ReindexState
        /\ DOMAIN r.docs = {} /\ DOMAIN reindex[x].docs = {}
    BY <2>1, <2>2 DEF Fits, ReindexState
  <2>4. Fits(r)
    BY <2>1, <2>3 DEF Fits
  <2>5. reindex' = [reindex EXCEPT ![x] = r]
    BY <1>3, <2>2, Parts DEF AllParts
  <2>6. /\ reindex'[x] = r
        /\ \A y \in Reindexer \ {x} : reindex'[y] = reindex[y]
    BY <2>3, <2>5, RebuildMoves
  <2>7. IndexTyped' /\ (lost \subseteq Product)'
    BY <1>1, <1>3, Parts DEF AllParts, IndexTyped
  <2>8. ASSUME NEW q \in Product \ lost' PROVE Right(q)'
    BY <1>1, <1>3, <2>1, <2>3, <2>6, AllRight, OtherRebuild DEF Coming
  <2>9. QED
    BY <1>1, <2>4, <2>5, <2>7, <2>8, RebuildStep
<1>4. QED
  BY <1>2, <1>3 DEF CreateProductIndex

LEMMA ReindexFaultStep ==
  ASSUME IndInv, NEW x \in Reindexer, ReindexFault(x)
  PROVE  IndInv'
<1>1. Counters'
  BY FaultCounts, Parts DEF AllParts, ReindexFault, Counters
<1>2. QED
  BY <1>1, AbortStep DEF ReindexFault

(* A batch has at most BatchSize of the products above last, none of them when
   there is none, and with one all that come before it. *)
LEMMA Batches ==
  ASSUME NEW last \in 0 .. MaxProduct
  PROVE  LET B == BatchGetForReindex(last)
             A == After(last)
         IN  /\ B \in SUBSET A /\ A \in SUBSET Product
             /\ Cardinality(B) \in 0 .. BatchSize
             /\ B = {} => A = {}
             /\ \A p \in B, q \in A : q < p => q \in B
<1> DEFINE Upto(p) == {q \in After(last) : q <= p}
<1>1. After(last) \in SUBSET Product /\ After(last) \in SUBSET (0 .. MaxProduct)
  BY DEF After, Product
<1>2. \A p : Upto(p) \in SUBSET (0 .. MaxProduct)
  BY <1>1
<1>3. BatchGetForReindex(last) = {p \in After(last) : Cardinality(Upto(p)) <= BatchSize}
  BY DEF BatchGetForReindex
<1>4. MaxProduct \in Nat /\ BatchSize \in Nat \ {0}
  OBVIOUS
<1>5. PICK B : B = BatchGetForReindex(last)
  OBVIOUS
<1>6. B \in SUBSET After(last) /\ B \in SUBSET (0 .. MaxProduct)
  BY <1>1, <1>3, <1>5
<1>7. Cardinality(B) \in 0 .. BatchSize
  <2>1. CASE B = {}
    BY <2>1, <1>4, FS_EmptySet
  <2>2. CASE B # {}
    <3>1. Max(B) \in B /\ \A y \in B : y <= Max(B)
      BY <2>2, <1>4, <1>6, GreatestExists
    <3>2. B \in SUBSET Upto(Max(B)) /\ Cardinality(Upto(Max(B))) <= BatchSize
      BY <3>1, <1>3, <1>5, <1>6
    <3>3. IsFiniteSet(Upto(Max(B))) /\ Cardinality(Upto(Max(B))) \in Nat
      BY <1>2, <1>4, SomeOf
    <3>4. Cardinality(B) <= Cardinality(Upto(Max(B)))
      BY <3>2, <3>3, FS_Subset
    <3>5. Cardinality(B) \in Nat
      BY <1>4, <1>6, SomeOf
    <3>6. QED
      BY <3>2, <3>3, <3>4, <3>5, <1>4
  <2>3. QED
    BY <2>1, <2>2
<1>8. B = {} => After(last) = {}
  <2> SUFFICES ASSUME After(last) # {} PROVE B # {}
    OBVIOUS
  <2>1. PICK m \in After(last) : \A y \in After(last) : m <= y
    BY <1>1, LeastExists
  <2>2. Upto(m) = {m}
    BY <2>1, <1>1
  <2>3. Cardinality(Upto(m)) = 1
    BY <2>2, FS_Singleton
  <2>4. m \in B
    BY <2>1, <2>3, <1>3, <1>4, <1>5
  <2>5. QED
    BY <2>4
<1>9. ASSUME NEW p \in B, NEW q \in After(last), q < p PROVE q \in B
  <2>1. p \in 0 .. MaxProduct /\ q \in 0 .. MaxProduct
    BY <1>1, <1>6
  <2>2. Upto(q) \in SUBSET Upto(p)
    BY <2>1, <1>1, <1>9
  <2>3. /\ IsFiniteSet(Upto(p)) /\ Cardinality(Upto(p)) \in Nat
        /\ Cardinality(Upto(q)) \in Nat
    BY <1>2, <1>4, SomeOf
  <2>4. Cardinality(Upto(q)) <= Cardinality(Upto(p))
    BY <2>2, <2>3, FS_Subset
  <2>5. Cardinality(Upto(p)) <= BatchSize
    BY <1>3, <1>5
  <2>6. Cardinality(Upto(q)) <= BatchSize
    BY <2>3, <2>4, <2>5, <1>4
  <2>7. QED
    BY <2>6, <1>3, <1>5
<1>10. QED
  BY <1>1, <1>5, <1>6, <1>7, <1>8, <1>9

LEMMA FetchStep ==
  ASSUME IndInv, NEW x \in Reindexer, FetchBatch(x)
  PROVE  IndInv'
<1>1. PICK last, B : last = reindex[x].last /\ B = BatchGetForReindex(last)
  OBVIOUS
<1>2. Fits(reindex[x]) /\ reindex[x].pc = "batch"
  BY Parts DEF AllParts, FetchBatch
<1>3. last \in 0 .. MaxProduct
  BY <1>1, <1>2 DEF Fits, ReindexState
<1>4. /\ B \in SUBSET After(last) /\ After(last) \in SUBSET Product
      /\ Cardinality(B) \in 0 .. BatchSize
      /\ B = {} => After(last) = {}
      /\ \A p \in B, q \in After(last) : q < p => q \in B
  BY <1>1, <1>3, Batches
<1>5. PICK r : r = IF B = {} THEN Resting
                   ELSE [reindex[x] EXCEPT !.pc = "bulk", !.docs = [p \in B |-> row[p]]]
  OBVIOUS
<1>6. /\ reindex' = [reindex EXCEPT ![x] = r]
      /\ UNCHANGED <<row, drawn, doc, exists, worker, counters, lost>>
  <2>1. reindex \in [Reindexer -> ReindexState]
    BY Parts DEF AllParts
  <2>2. QED
    BY <2>1, <1>1, <1>5 DEF FetchBatch
<1>7. \A p \in B : Stored(p) /\ p > last /\ p \in Product
  BY <1>4 DEF After
<1>8. B # {} => /\ r.pc = "bulk" /\ r.last = last /\ DOMAIN r.docs = B
                /\ \A p \in B : r.docs[p] = row[p]
                /\ r \in ReindexState
  <2> SUFFICES ASSUME B # {}
               PROVE  /\ r.pc = "bulk" /\ r.last = last /\ DOMAIN r.docs = B
                      /\ \A p \in B : r.docs[p] = row[p]
                      /\ r \in ReindexState
    OBVIOUS
  <2>1. PICK d : d = [p \in B |-> row[p]]
    OBVIOUS
  <2>2. d \in [B -> Supplier] /\ B \in SUBSET Product
    BY <2>1, <1>4, <1>7 DEF Stored
  <2>3. d \in Documents
    BY <2>2 DEF Documents
  <2>4. r = [reindex[x] EXCEPT !.pc = "bulk", !.docs = d]
    BY <2>1, <1>5
  <2>5. r.pc = "bulk" /\ r.last = last /\ r.docs = d /\ r \in ReindexState
    BY <2>3, <2>4, <1>1, <1>2 DEF Fits, ReindexState
  <2>6. QED
    BY <2>1, <2>5
<1>9. Fits(r)
  <2>1. CASE B = {}
    BY <2>1, <1>5, RestingFits
  <2>2. CASE B # {}
    <3>1. Cardinality(B) <= BatchSize
      BY <1>4
    <3>2. QED
      BY <2>2, <3>1, <1>7, <1>8 DEF Fits
  <2>3. QED
    BY <2>1, <2>2
<1>10. /\ reindex'[x] = r
       /\ \A y \in Reindexer \ {x} : reindex'[y] = reindex[y]
  BY <1>6, <1>9, RebuildMoves DEF Fits
<1>11. IndexTyped' /\ Counters' /\ (lost \subseteq Product)'
  BY <1>6, Parts DEF AllParts, IndexTyped, Counters, counters
<1>12. ASSUME NEW q \in Product \ lost PROVE Right(q)'
  <2>1. Right(q)
    BY AllRight
  <2>2. CASE B = {}
    <3>1. ~(Stored(q) /\ last < q)
      BY <2>2, <1>3, <1>4 DEF After, Product
    <3>2. DOMAIN reindex'[x].docs = {}
      BY <2>2, <1>5, <1>10, NoDocuments
    <3>3. QED
      BY <2>1, <3>1, <3>2, <1>1, <1>6, <1>10, OtherRebuild DEF Coming
  <2>3. CASE B # {}
    <3>1. q \in B => row[q] = Proper(q)
      BY <1>7 DEF Proper
    <3>2. Stored(q) /\ Coming(x, q) => Coming(x, q)'
      <4> SUFFICES ASSUME Stored(q), Coming(x, q) PROVE Coming(x, q)'
        OBVIOUS
      <4>1. q \in After(last) /\ last < q
        BY <1>1 DEF Coming, After
      <4>2. q \in B \/ \A p \in B : p < q
        BY <4>1, <1>4, <1>7 DEF Product
      <4>3. QED
        BY <2>3, <4>1, <4>2, <1>8, <1>10 DEF Coming
    <3>3. QED
      BY <2>1, <2>3, <3>1, <3>2, <1>6, <1>8, <1>10, OtherRebuild
  <2>4. QED
    BY <2>2, <2>3
<1>13. QED
  BY <1>6, <1>9, <1>11, <1>12, RebuildStep

LEMMA BulkStep ==
  ASSUME IndInv, NEW x \in Reindexer, NEW skipped \in SUBSET Product, BulkIndex(x, skipped)
  PROVE  IndInv'
<1>1. PICK docs, written, r :
        /\ docs = reindex[x].docs
        /\ written = DOMAIN docs \ skipped
        /\ r = [pc |-> "batch", last |-> Max(DOMAIN docs), docs |-> Resting.docs]
  OBVIOUS
<1>2. /\ reindex[x].pc = "bulk"
      /\ IF skipped = {} THEN UNCHANGED faults ELSE Fault
      /\ doc' = [p \in Product |-> IF p \in written THEN docs[p] ELSE doc[p]]
      /\ exists' = TRUE
      /\ lost' = {p \in Product : IF p \in written
                                  THEN p \in Written(p, docs[p], Nothing, x)
                                  ELSE p \in lost \cup skipped}
      /\ reindex' = [reindex EXCEPT ![x] = r]
      /\ UNCHANGED <<row, drawn, worker, writes, rebuilds>>
  BY <1>1 DEF BulkIndex
<1>3. Fits(reindex[x])
  BY Parts DEF AllParts
<1>4. /\ DOMAIN docs \in SUBSET Product /\ DOMAIN docs # {}
      /\ \A p \in DOMAIN docs : docs[p] \in Supplier
  BY <1>1, <1>2, <1>3, DocumentsTyped DEF Fits, ReindexState
<1>5. /\ Max(DOMAIN docs) \in DOMAIN docs
      /\ \A p \in DOMAIN docs : p <= Max(DOMAIN docs)
  <2>1. MaxProduct \in Nat /\ DOMAIN docs \in SUBSET (0 .. MaxProduct)
    BY <1>4 DEF Product
  <2>2. QED
    BY <2>1, <1>4, GreatestExists
<1>6. /\ r.pc = "batch" /\ r.last = Max(DOMAIN docs) /\ DOMAIN r.docs = {}
      /\ Fits(r)
  <2>1. r \in ReindexState
    BY <1>1, <1>4, <1>5, NoDocuments DEF ReindexState, Product
  <2>2. Cardinality({}) = 0
    BY FS_EmptySet
  <2>3. QED
    BY <2>1, <2>2, <1>1, NoDocuments DEF Fits
<1>7. /\ reindex'[x] = r
      /\ \A y \in Reindexer \ {x} : reindex'[y] = reindex[y]
  BY <1>2, <1>6, RebuildMoves DEF Fits
<1>8. IndexTyped' /\ Counters' /\ (lost \subseteq Product)'
  <2>1. IndexTyped'
    BY <1>1, <1>2, <1>4, Parts DEF AllParts, IndexTyped
  <2>2. Counters'
    BY <1>2, FaultCounts, Parts DEF AllParts, Counters
  <2>3. QED
    BY <2>1, <2>2, <1>2
<1>9. ASSUME NEW q \in Product \ lost' PROVE Right(q)'
  <2>1. CASE q \in written
    <3>1. q \in DOMAIN docs /\ doc'[q] = docs[q] /\ q \notin Written(q, docs[q], Nothing, x)
      BY <2>1, <1>1, <1>2
    <3>2. /\ docs[q] = Proper(q)
          /\ q \in lost => Held(q, Nothing, x) \subseteq {Proper(q)}
      <4>1. q \notin lost => docs[q] = Proper(q)
        BY <3>1, <1>1 DEF IndInv, HeldIsProper
      <4>2. QED
        BY <3>1, <4>1 DEF Written
    <3>3. Held(q, Nothing, x) \subseteq {Proper(q)}
      BY <3>2, HeldProper
    <3>4. \A v \in Worker : worker[v].pc = "index" /\ worker[v].product = q
                            => worker[v].doc \in Held(q, Nothing, x)
      BY DEF Held
    <3>5. \A y \in Reindexer \ {x} : q \in DOMAIN reindex[y].docs
                                     => reindex[y].docs[q] \in Held(q, Nothing, x)
      BY DEF Held
    <3>6. Proper(q)' = Proper(q)
      BY <1>2 DEF Stored, Proper
    <3>7. HeldRight(q)'
      BY <3>3, <3>4, <3>5, <3>6, <1>2, <1>6, <1>7 DEF HeldRight
    <3>8. QED
      BY <3>1, <3>2, <3>6, <3>7 DEF Right, Repaired
  <2>2. CASE q \notin written
    <3>1. q \notin lost /\ q \notin DOMAIN docs /\ doc'[q] = doc[q]
      BY <2>2, <1>1, <1>2
    <3>2. Right(q)
      BY <3>1, AllRight
    <3>3. Coming(x, q) => Coming(x, q)'
      BY <3>1, <1>1, <1>5, <1>6, <1>7 DEF Coming
    <3>4. QED
      BY <3>1, <3>2, <3>3, <1>2, <1>6, <1>7, OtherRebuild
  <2>3. QED
    BY <2>1, <2>2
<1>10. QED
  BY <1>2, <1>6, <1>8, <1>9, RebuildStep

-----------------------------------------------------------------------------
(* Theorems *)

LEMMA CrashStep == ASSUME IndInv, Crash PROVE IndInv'
<1>1. /\ Fault
      /\ worker' = [w \in Worker |-> Idle]
      /\ reindex' = [x \in Reindexer |-> Resting]
      /\ lost \subseteq lost'
      /\ \A w \in Worker : Leaves(w) \subseteq lost'
      /\ \A x \in Reindexer : Missed(x) \subseteq lost'
      /\ UNCHANGED <<row, drawn, doc, exists, writes, rebuilds>>
  BY DEF Crash
<1>2. IndexTyped' /\ Counters'
  BY <1>1, FaultCounts, Parts DEF AllParts, IndexTyped, Counters
<1>3. (lost \subseteq Product)'
  <2>1. lost \subseteq Product
        /\ \A w \in Worker : worker[w].pc # "idle" => worker[w].product \in Product
    BY Parts DEF AllParts, WorkersFit
  <2>2. QED
    BY <2>1 DEF Crash, Missed, Leaves
<1>4. /\ (worker \in [Worker -> WorkerState])'
      /\ \A w \in Worker : worker'[w].pc = "idle"
  BY <1>1, IdleTyped DEF WorkerState
<1>5. WorkersFit' /\ Ids'
  BY <1>1, <1>4, Parts DEF AllParts, WorkersFit, Ids, IdsFit
<1>6. \A x \in Reindexer : reindex'[x] = Resting
  BY <1>1
<1>7. /\ (reindex \in [Reindexer -> ReindexState])'
      /\ (\A x \in Reindexer : Fits(reindex[x]))'
  <2>1. Resting \in ReindexState
    BY RestingFits DEF Fits
  <2>2. (reindex \in [Reindexer -> ReindexState])'
    BY <2>1, <1>1 DEF ReindexState
  <2>3. ASSUME NEW x \in Reindexer PROVE Fits(reindex[x])'
    BY <1>1, <1>6, RestingFits DEF Fits, ReindexState
  <2>4. QED
    BY <2>2, <2>3
<1>8. ASSUME NEW q \in Product \ lost' PROVE Right(q)'
  <2>1. Right(q)
    BY <1>1, AllRight
  <2>2. Stored(q)' = Stored(q) /\ Proper(q)' = Proper(q)
    BY <1>1 DEF Stored, Proper
  <2>3. HeldRight(q)'
    BY <1>4, <1>6, NoDocuments DEF HeldRight
  <2>4. ~BeingRemoved(q)
    BY <1>1 DEF BeingRemoved, Leaves
  <2>5. doc[q] # Proper(q) => ~BeingIndexed(q)
    BY <1>1 DEF BeingIndexed, Leaves, Missed
  <2>6. QED
    BY <2>1, <2>2, <2>3, <2>4, <2>5, <1>1 DEF Right, Repaired
<1>9. HeldIsProper' /\ WrongIsRepaired'
  BY <1>8, AllRightNext
<1>10. QED
  BY <1>1, <1>2, <1>3, <1>4, <1>5, <1>7, <1>9, RowsStay, PartsNext DEF AllParts

LEMMA StutterStep == ASSUME IndInv, UNCHANGED vars PROVE IndInv'
BY DEF IndInv, vars, TypeOK, IdsFit, WorkersFit, RebuildsFit, HeldIsProper,
       WrongIsRepaired, BeingIndexed, Coming, BeingRemoved, Proper, Stored

LEMMA NextIndInv == IndInv /\ [Next]_vars => IndInv'
<1> SUFFICES ASSUME IndInv, [Next]_vars PROVE IndInv'
  OBVIOUS
<1>1. CASE \E w \in Worker : Request(w)
  BY <1>1, CreateStep, UpdateStep, DeleteStep DEF Request
<1>2. CASE \E w \in Worker : Work(w) \/ WorkerFault(w)
  BY <1>2, CommitStep, ReadStep, IndexStep, RemoveStep, WorkerFaultStep DEF Work
<1>3. CASE \E x \in Reindexer : DeleteIndex(x) \/ ReindexFault(x)
  BY <1>3, DeleteIndexStep, ReindexFaultStep
<1>4. CASE \E x \in Reindexer : Rebuild(x) \/ \E p \in Product : BulkIndex(x, {p})
  BY <1>4, CreateIndexStep, FetchStep, BulkStep DEF Rebuild
<1>5. QED
  BY <1>1, <1>2, <1>3, <1>4, CrashStep, StutterStep DEF Next

(* What is on its way to the index, and what is being put right, is so in every
   reachable state, however requests and rebuilds overlap and whatever fails. *)
THEOREM Invariance == Spec => []IndInv
<1>1. QED
  BY InitIndInv, NextIndInv, PTL DEF Spec

(* A settled product has the document that its row asks for. *)
LEMMA SettledRight ==
  ASSUME IndInv, NEW p \in Product \ lost, Settled(p), NEW s \in Supplier
  PROVE  /\ p \in ListProducts(s) <=> row[p] = s
         /\ p \in Found(s) <=> row[p] = s
<1>1. ~BeingRemoved(p) /\ ~BeingIndexed(p)
  <2>1. \A x \in Reindexer : reindex[x].last \in Nat /\ p \in Nat
    BY Parts DEF AllParts, ReindexState, Product
  <2>2. QED
    BY <2>1 DEF Settled, BeingRemoved, BeingIndexed, Coming
<1>2. doc[p] = Proper(p)
  BY <1>1 DEF IndInv, WrongIsRepaired
<1>3. QED
  BY <1>2 DEF ListProducts, Found, Proper, Stored

(* Listings show a settled product under its supplier and no other. *)
THEOREM ListingCorrect == Spec => []ListingIsRight
<1>1. IndInv => ListingIsRight
  <2> SUFFICES ASSUME IndInv, NEW p \in Product \ lost, Settled(p), NEW s \in Supplier
               PROVE  p \in ListProducts(s) <=> row[p] = s
    BY DEF ListingIsRight
  <2>1. QED
    BY SettledRight
<1>2. QED
  BY <1>1, Invariance, PTL

(* The total of a listing, counted in the index, is the number of rows. *)
THEOREM TotalCorrect == Spec => []TotalIsRight
<1>1. IndInv => TotalIsRight
  <2> SUFFICES ASSUME IndInv, \A p \in Product \ lost : Settled(p), lost = {},
                      NEW s \in Supplier
               PROVE  Total(s) = Cardinality({p \in Product : row[p] = s})
    BY DEF TotalIsRight
  <2>1. Found(s) = {p \in Product : row[p] = s}
    <3>1. Found(s) \in SUBSET Product
      BY DEF Found
    <3>2. ASSUME NEW p \in Product PROVE p \in Found(s) <=> row[p] = s
      <4>1. p \in Product \ lost
        OBVIOUS
      <4>2. Settled(p)
        BY <4>1
      <4>3. QED
        BY <4>1, <4>2, SettledRight
    <3>3. QED
      BY <3>1, <3>2
  <2>2. QED
    BY <2>1 DEF Total
<1>2. QED
  BY <1>1, Invariance, PTL
=============================================================================
