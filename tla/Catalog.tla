------------------------------- MODULE Catalog -------------------------------
(***************************************************************************)
(* Products in the table of product_repo.go and in the search index of     *)
(* es.go, kept alike by product_service.go: a goroutine indexes what was   *)
(* created or updated, a deletion removes the document at once, and        *)
(* FullReindex rebuilds the index batch by batch.  Listing finds ids in    *)
(* the index and rows in the table.                                        *)
(*                                                                         *)
(* A product is the one attribute listings filter by, its supplier.  Its    *)
(* id is drawn in the transaction that inserts it, so products may appear  *)
(* in another order than that of their ids.  Left out: specs, prices,      *)
(* SKUs, images and videos of a product, paging, the fields hidden from a  *)
(* caller, and the second that the search engine takes to show what was    *)
(* written to it.                                                          *)
(***************************************************************************)
EXTENDS Integers, FiniteSetsExt

CONSTANTS
  MaxProduct, \* bound: ids ever drawn, which are 1 .. MaxProduct
  Supplier,
  Worker,     \* slots for requests and goroutines between table and index
  Reindexer,  \* slots for full rebuilds
  BatchSize,
  MaxWrites,  \* bound: updates and deletions
  MaxRebuilds,\* bound: full rebuilds
  MaxFaults   \* bound: failed queries and calls, and crashes

Product == 1 .. MaxProduct

Unborn == "unborn"
Gone == "gone"
NoDoc == "none"
Nothing == "nothing" \* neither a worker nor a rebuild

ASSUME CatalogAssumption ==
  /\ {MaxProduct, MaxWrites, MaxRebuilds, MaxFaults} \subseteq Nat
  /\ BatchSize \in Nat \ {0}
  /\ {Unborn, Gone, NoDoc} \cap Supplier = {}
  /\ Nothing \notin Worker \cup Reindexer

VARIABLES
  row,      \* row[p]: the supplier in the table
  drawn,    \* the last id that the table has given out
  doc,      \* doc[p]: the supplier in the index
  exists,   \* there is an index
  worker,   \* worker[w]: where a request or its goroutine is
  reindex,  \* reindex[x]: where a rebuild is
  writes, rebuilds, faults,
  lost      \* history: products whose document may stay wrong, see Held, Fault

vars == <<row, drawn, doc, exists, worker, reindex, writes, rebuilds, faults, lost>>
counters == <<writes, rebuilds, faults>>

Idle == [pc |-> "idle", product |-> 0, doc |-> NoDoc]
Resting == [pc |-> "idle", last |-> 0, docs |-> [p \in {} |-> NoDoc]]

Documents == UNION {[batch -> Supplier] : batch \in SUBSET Product}

TypeOK ==
  /\ row \in [Product -> Supplier \cup {Unborn, Gone}]
  /\ drawn \in 0 .. MaxProduct
  /\ doc \in [Product -> Supplier \cup {NoDoc}]
  /\ exists \in BOOLEAN
  /\ ~exists => \A p \in Product : doc[p] = NoDoc
  /\ worker \in [Worker -> [pc : {"idle", "insert", "read", "index", "remove"},
                            product : 0 .. MaxProduct, doc : Supplier \cup {NoDoc}]]
  /\ reindex \in [Reindexer -> [pc : {"idle", "create", "batch", "bulk"},
                                last : 0 .. MaxProduct, docs : Documents]]
  /\ \A x \in Reindexer :
       /\ \A p \in DOMAIN reindex[x].docs : p > reindex[x].last
       /\ Cardinality(DOMAIN reindex[x].docs) <= BatchSize
  /\ writes \in 0 .. MaxWrites /\ rebuilds \in 0 .. MaxRebuilds /\ faults \in 0 .. MaxFaults
  /\ lost \subseteq Product

(* The documents of a new index; slip: a rebuild that writes over the old. *)
KeptDocs == doc
EmptyDocs == [p \in Product |-> NoDoc]

Stored(p) == row[p] \in Supplier

(* The document that p should have. *)
Proper(p) == IF Stored(p) THEN row[p] ELSE NoDoc

Init ==
  /\ row = [p \in Product |-> Unborn]
  /\ drawn = 0
  /\ doc = EmptyDocs
  /\ exists = TRUE
  /\ worker = [w \in Worker |-> Idle]
  /\ reindex = [x \in Reindexer |-> Resting]
  /\ writes = 0 /\ rebuilds = 0 /\ faults = 0
  /\ lost = {}

-----------------------------------------------------------------------------
(* History *)

(* Documents of p that are read and not yet written, but by w and x. *)
Held(p, w, x) ==
  {worker[v].doc : v \in {v \in Worker \ {w} : worker[v].pc = "index"
                                                /\ worker[v].product = p}}
  \cup {reindex[y].docs[p] : y \in {y \in Reindexer \ {x} : p \in DOMAIN reindex[y].docs}}

(* p's document is written: no longer lost if it is right and nobody is about to
   write another. *)
Written(p, d, w, x) ==
  IF d = Proper(p) /\ Held(p, w, x) \subseteq {d} THEN lost \ {p} ELSE lost

(* p's row changes: a document already read of it is wrong from now on. *)
Overtaken(p) == IF Held(p, Nothing, Nothing) = {} THEN lost ELSE lost \cup {p}

Fault == faults < MaxFaults /\ faults' = faults + 1

-----------------------------------------------------------------------------
(* Requests *)

Write == writes < MaxWrites /\ writes' = writes + 1

Start(w, pc, p, d) ==
  /\ worker[w].pc = "idle"
  /\ worker' = [worker EXCEPT ![w] = [pc |-> pc, product |-> p, doc |-> d]]

(* The first statement of the transaction draws the id; nobody else sees the row. *)
CreateProduct(w, s) ==
  /\ drawn < MaxProduct
  /\ drawn' = drawn + 1
  /\ Start(w, "insert", drawn + 1, s)
  /\ UNCHANGED <<row, doc, exists, reindex, counters, lost>>

(* The others have inserted what belongs to the product.  The goroutine gets the
   product as it was inserted. *)
CommitProduct(w) ==
  /\ worker[w].pc = "insert"
  /\ row' = [row EXCEPT ![worker[w].product] = worker[w].doc]
  /\ worker' = [worker EXCEPT ![w].pc = "index"]
  /\ UNCHANGED <<drawn, doc, exists, reindex, counters, lost>>

(* The goroutine of an update; slip: it gets the row as it was before. *)
StartWithOldRow(w, p) == Start(w, "index", p, row[p])
StartSync(w, p) == Start(w, "read", p, NoDoc)

(* s is the old supplier when other fields are changed. *)
UpdateProduct(w, p, s) ==
  /\ Stored(p)
  /\ Write
  /\ row' = [row EXCEPT ![p] = s]
  /\ lost' = IF s = row[p] THEN lost ELSE Overtaken(p)
  /\ StartSync(w, p)
  /\ UNCHANGED <<drawn, doc, exists, reindex, rebuilds, faults>>

(* Deleting what is gone removes the document as well. *)
DeleteProduct(w, p) ==
  /\ row[p] # Unborn
  /\ Write
  /\ row' = [row EXCEPT ![p] = Gone]
  /\ lost' = IF row[p] = Gone THEN lost ELSE Overtaken(p)
  /\ Start(w, "remove", p, NoDoc)
  /\ UNCHANGED <<drawn, doc, exists, reindex, rebuilds, faults>>

Finish(w) == worker' = [worker EXCEPT ![w] = Idle]

(* The goroutine of an update re-reads the row. *)
ReadProduct(w) ==
  LET p == worker[w].product
  IN  /\ worker[w].pc = "read"
      /\ IF Stored(p)
         THEN worker' = [worker EXCEPT ![w].pc = "index", ![w].doc = row[p]]
         ELSE Finish(w)
      /\ UNCHANGED <<row, drawn, doc, exists, reindex, counters, lost>>

(* Writing a document makes the index when there is none. *)
IndexProduct(w) ==
  LET p == worker[w].product
      d == worker[w].doc
  IN  /\ worker[w].pc = "index"
      /\ doc' = [doc EXCEPT ![p] = d]
      /\ exists' = TRUE
      /\ lost' = Written(p, d, w, Nothing)
      /\ Finish(w)
      /\ UNCHANGED <<row, drawn, reindex, counters>>

RemoveDocument(w) ==
  LET p == worker[w].product
  IN  /\ worker[w].pc = "remove"
      /\ doc' = [doc EXCEPT ![p] = NoDoc]
      /\ lost' = Written(p, NoDoc, w, Nothing)
      /\ Finish(w)
      /\ UNCHANGED <<row, drawn, exists, reindex, counters>>

(* Where the row is in the table and its document may not be written any more. *)
Leaves(w) == IF worker[w].pc \in {"idle", "insert"} THEN {} ELSE {worker[w].product}

(* A query or call of a worker fails, which is logged and forgotten; before the
   commit it rolls the insertion back, and the id stays drawn. *)
WorkerFault(w) ==
  /\ worker[w].pc # "idle"
  /\ Fault
  /\ lost' = lost \cup Leaves(w)
  /\ Finish(w)
  /\ UNCHANGED <<row, drawn, doc, exists, reindex, writes, rebuilds>>

-----------------------------------------------------------------------------
(* FullReindex *)

(* The rebuild x has p before it: in its batch, or above all of it. *)
Coming(x, p) ==
  /\ reindex[x].pc # "idle" /\ reindex[x].last < p
  /\ p \in DOMAIN reindex[x].docs \/ \A q \in DOMAIN reindex[x].docs : q < p

(* A rebuild that stops here leaves these without their document. *)
Missed(x) == {p \in Product : Coming(x, p) /\ doc[p] # Proper(p)}

Abort(x) ==
  /\ reindex' = [reindex EXCEPT ![x] = Resting]
  /\ lost' = lost \cup Missed(x)

(* A failed deletion is ignored. *)
DeleteIndex(x) ==
  /\ reindex[x].pc = "idle"
  /\ rebuilds < MaxRebuilds /\ rebuilds' = rebuilds + 1
  /\ reindex' = [reindex EXCEPT ![x].pc = "create"]
  /\ \/ /\ exists' = FALSE
        /\ doc' = EmptyDocs
        /\ lost' = {p \in lost : ~(Held(p, Nothing, x) \subseteq {Proper(p)})}
        /\ UNCHANGED faults
     \/ /\ Fault
        /\ UNCHANGED <<exists, doc, lost>>
  /\ UNCHANGED <<row, drawn, worker, writes>>

(* An index that is there already ends the rebuild. *)
CreateProductIndex(x) ==
  /\ reindex[x].pc = "create"
  /\ IF exists
     THEN Abort(x) /\ UNCHANGED exists
     ELSE /\ exists' = TRUE
          /\ reindex' = [reindex EXCEPT ![x].pc = "batch"]
          /\ UNCHANGED lost
  /\ UNCHANGED <<row, drawn, doc, worker, counters>>

(* Slip: the last product of a batch begins the next. *)
FromLast(last) == {p \in Product : Stored(p) /\ p >= last}

(* Products with an id above last. *)
After(last) == {p \in Product : Stored(p) /\ p > last}

(* Slip: the order turned round. *)
HighestFirst(last) ==
  {p \in After(last) : Cardinality({q \in After(last) : q >= p}) <= BatchSize}

(* The first BatchSize of them. *)
BatchGetForReindex(last) ==
  {p \in After(last) : Cardinality({q \in After(last) : q <= p}) <= BatchSize}

FetchBatch(x) ==
  LET batch == BatchGetForReindex(reindex[x].last)
  IN  /\ reindex[x].pc = "batch"
      /\ reindex' = IF batch = {}
                    THEN [reindex EXCEPT ![x] = Resting]
                    ELSE [reindex EXCEPT ![x].pc = "bulk",
                                         ![x].docs = [p \in batch |-> row[p]]]
      /\ UNCHANGED <<row, drawn, doc, exists, worker, counters, lost>>

(* The documents of one call are all written, unless the engine refuses some
   (skipped), which the code does not look at. *)
BulkIndex(x, skipped) ==
  LET docs == reindex[x].docs
      written == DOMAIN docs \ skipped
  IN  /\ reindex[x].pc = "bulk"
      /\ skipped \subseteq DOMAIN docs
      /\ IF skipped = {} THEN UNCHANGED faults ELSE Fault
      /\ doc' = [p \in Product |-> IF p \in written THEN docs[p] ELSE doc[p]]
      /\ exists' = TRUE
      /\ lost' = {p \in Product : IF p \in written
                                  THEN p \in Written(p, docs[p], Nothing, x)
                                  ELSE p \in lost \cup skipped}
      /\ reindex' = [reindex EXCEPT ![x] = [pc |-> "batch", last |-> Max(DOMAIN docs),
                                            docs |-> Resting.docs]]
      /\ UNCHANGED <<row, drawn, worker, writes, rebuilds>>

(* A failed call or query ends the rebuild. *)
ReindexFault(x) ==
  /\ reindex[x].pc # "idle"
  /\ Fault
  /\ Abort(x)
  /\ UNCHANGED <<row, drawn, doc, exists, worker, writes, rebuilds>>

(* The process ends with everything it was about to do. *)
Crash ==
  /\ Fault
  /\ worker' = [w \in Worker |-> Idle]
  /\ reindex' = [x \in Reindexer |-> Resting]
  /\ lost' = lost \cup UNION ({Leaves(w) : w \in Worker} \cup {Missed(x) : x \in Reindexer})
  /\ UNCHANGED <<row, drawn, doc, exists, writes, rebuilds>>

-----------------------------------------------------------------------------
Work(w) == CommitProduct(w) \/ ReadProduct(w) \/ IndexProduct(w) \/ RemoveDocument(w)

Rebuild(x) == CreateProductIndex(x) \/ FetchBatch(x) \/ BulkIndex(x, {})

Request(w) ==
  \/ \E s \in Supplier : CreateProduct(w, s) \/ \E p \in Product : UpdateProduct(w, p, s)
  \/ \E p \in Product : DeleteProduct(w, p)

Next ==
  \/ \E w \in Worker : Request(w) \/ Work(w) \/ WorkerFault(w)
  \/ \E x \in Reindexer :
       \/ DeleteIndex(x) \/ Rebuild(x) \/ ReindexFault(x)
       \/ \E p \in Product : BulkIndex(x, {p})
  \/ Crash

(* What has begun goes on: the server runs its goroutines and requests. *)
Fairness ==
  /\ \A w \in Worker : WF_vars(Work(w))
  /\ \A x \in Reindexer : WF_vars(Rebuild(x))

Spec == Init /\ [][Next]_vars /\ Fairness

-----------------------------------------------------------------------------
(* Properties *)

(* ListProducts: ids from the index, rows from the table; and the total that is
   shown with them, from the index alone. *)
Found(s) == {p \in Product : doc[p] = s}
ListProducts(s) == {p \in Found(s) : Stored(p)}
Total(s) == Cardinality(Found(s))

(* Nobody is about to write or remove p's document. *)
Settled(p) ==
  /\ \A w \in Worker : worker[w].pc = "idle" \/ worker[w].product # p
  /\ \A x \in Reindexer : reindex[x].pc = "idle" \/ reindex[x].last >= p

(* Once its goroutines are done a product is listed under its supplier and no
   other, rebuild or not.  Lost are the products with a failed call, and those
   changed while a document of the old row was on its way; the next update or
   rebuild that meets neither repairs them. *)
ListingIsRight ==
  \A p \in Product \ lost :
    Settled(p) => \A s \in Supplier : p \in ListProducts(s) <=> row[p] = s

(* The total of a listing counts the rows, when no product is lost: a document
   outlives its row only when it was on its way as the row was deleted. *)
TotalIsRight ==
  (\A p \in Product \ lost : Settled(p)) /\ lost = {} =>
     \A s \in Supplier : Total(s) = Cardinality({p \in Product : row[p] = s})

(* A rebuild ends, however products come, change and go meanwhile. *)
RebuildEnds == \A x \in Reindexer : (reindex[x].pc # "idle") ~> (reindex[x].pc = "idle")

(* The comment of DeleteProduct: "Sync delete from ES (synchronous for
   consistency)". *)
DeletedIsGone ==
  \A p \in Product : row[p] = Gone /\ Settled(p) => doc[p] = NoDoc

-----------------------------------------------------------------------------
(* ListingIsRight made inductive *)

(* Rows have ids that were drawn; one that is being inserted is not there yet,
   and no other request inserts it. *)
IdsFit ==
  /\ \A p \in Product : row[p] # Unborn => p <= drawn
  /\ \A w \in Worker : worker[w].pc = "insert" =>
       /\ worker[w].product <= drawn /\ row[worker[w].product] = Unborn
       /\ \A v \in Worker \ {w} : worker[v].pc = "insert" =>
            worker[v].product # worker[w].product

(* A worker's product, its document, and the row it has deleted. *)
WorkersFit ==
  \A w \in Worker :
    /\ worker[w].pc # "idle" => worker[w].product \in Product
    /\ worker[w].pc \in {"insert", "index"} => worker[w].doc \in Supplier
    /\ worker[w].pc = "remove" => row[worker[w].product] = Gone

(* A rebuild has documents only between fetching and writing them. *)
RebuildsFit ==
  \A x \in Reindexer :
    /\ reindex[x].pc \in {"idle", "create"} => reindex[x].last = 0
    /\ DOMAIN reindex[x].docs # {} <=> reindex[x].pc = "bulk"

(* Documents on their way show the row. *)
HeldIsProper ==
  \A p \in Product \ lost :
    /\ \A w \in Worker :
         worker[w].pc = "index" /\ worker[w].product = p => worker[w].doc = Proper(p)
    /\ \A x \in Reindexer : p \in DOMAIN reindex[x].docs => reindex[x].docs[p] = Proper(p)

(* Somebody is about to write p's document: a rebuild that passes over a product,
   not committed when the batch was fetched, leaves it to its own goroutine. *)
BeingIndexed(p) ==
  \/ \E w \in Worker : worker[w].pc \in {"read", "index"} /\ worker[w].product = p
  \/ \E x \in Reindexer : Coming(x, p)

BeingRemoved(p) == \E w \in Worker : worker[w].pc = "remove" /\ worker[w].product = p

(* A wrong document is being put right. *)
WrongIsRepaired ==
  \A p \in Product \ lost :
    doc[p] # Proper(p) => IF Stored(p) THEN BeingIndexed(p) ELSE BeingRemoved(p)

IndInv ==
  /\ TypeOK /\ IdsFit /\ WorkersFit /\ RebuildsFit
  /\ HeldIsProper /\ WrongIsRepaired
=============================================================================
