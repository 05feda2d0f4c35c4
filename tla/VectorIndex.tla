---------------------------- MODULE VectorIndex ----------------------------
(***************************************************************************)
(* The paid enrichment of a published catalog: web/lib/voyage-index.ts     *)
(* (indexVoyageBatch, behind the embeddings route) with saveVoyageVectors  *)
(* and activateSearchCatalog of web/lib/store.gcp.ts.                      *)
(*                                                                         *)
(* A vector snapshot is one immutable object that is replaced as a whole:  *)
(* read the head under the lease, combine, upload, and swap the head if    *)
(* its revision is unchanged.  Publications replace the catalog head under *)
(* a lease of their own, so only the revisions order them with activation. *)
(* Publication is the single step that SnapshotStore is proved to make it. *)
(***************************************************************************)
EXTENDS Naturals, FiniteSets

CONSTANTS Indexer,       \* clients of the embeddings route, each repeating its request
          Doc,           \* document hashes
          BatchSize,
          MaxFaults,     \* bound on crashes, expiries, damaged objects and failures
          MaxCatalogs,   \* bound on publications
          None           \* no document, no head, no search catalog

ASSUME BoundsAssumption ==
  /\ {BatchSize, MaxFaults, MaxCatalogs} \subseteq Nat /\ BatchSize > 0 /\ MaxCatalogs > 0
  /\ IsFiniteSet(Indexer)

VARIABLES catalog,    \* head: revision, live and pending search catalog
          published,  \* published[n]: the documents of the n-th search catalog
          vectors,    \* vector head with the content of its object
          lease,      \* voyage_index_lock: holder and whether it is unexpired
          pc, batch, previous, upload, captured,   \* of each indexer
          saved,      \* history: documents whose vectors were committed
          faults

locals == <<pc, batch, previous, upload, captured>>
vars == <<catalog, published, vectors, lease, locals, saved, faults>>

Number == 1 .. MaxCatalogs
CatalogHead == [revision : Nat, live : Number \cup {None}, pending : Number \cup {None}]
VectorHead == [revision : Nat, entries : SUBSET Doc, damaged : BOOLEAN]

ASSUME NoneAssumption ==
  /\ None \notin Nat
  /\ None \notin CatalogHead
  /\ None \notin VectorHead
  /\ None \notin [holder : Indexer, live : BOOLEAN]

TypeOK ==
  /\ catalog \in CatalogHead \cup {None}
  /\ DOMAIN published \subseteq Number /\ \A n \in DOMAIN published : published[n] \subseteq Doc
  /\ vectors \in VectorHead \cup {None}
  /\ lease \in [holder : Indexer, live : BOOLEAN] \cup {None}
  /\ pc \in [Indexer -> {"idle", "documents", "cached", "embed", "save", "combine", "commit",
                         "capture", "activate", "release"}]
  /\ batch \in [Indexer -> SUBSET Doc]
  /\ \A i \in Indexer : pc[i] \in {"embed", "save", "combine", "commit"} => Cardinality(batch[i]) <= BatchSize
  /\ previous \in [Indexer -> VectorHead \cup {None}]
  /\ upload \in [Indexer -> SUBSET Doc]
  /\ captured \in [Indexer -> [head : CatalogHead \cup {None}, vectors : VectorHead \cup {None}]]
  /\ saved \subseteq Doc
  /\ faults \in 0 .. MaxFaults

Nothing == [head |-> None, vectors |-> None]

(* Before the first publication of this release the store is empty, or     *)
(* holds a catalog that an earlier release left pending.                   *)
Init ==
  /\ \/ catalog = None /\ published = <<>>
     \/ /\ catalog = [revision |-> 0, live |-> None, pending |-> 1]
        /\ published \in [{1} -> SUBSET Doc]
  /\ vectors = None
  /\ lease = None
  /\ pc = [i \in Indexer |-> "idle"]
  /\ batch = [i \in Indexer |-> {}]
  /\ previous = [i \in Indexer |-> None]
  /\ upload = [i \in Indexer |-> {}]
  /\ captured = [i \in Indexer |-> Nothing]
  /\ saved = {}
  /\ faults = 0

-----------------------------------------------------------------------------
(* Shared pieces *)

Live == lease # None /\ lease.live

HoldsLive(i) == Live /\ lease.holder = i

Revision(head) == IF head = None THEN None ELSE head.revision

(* A random revision: one that no head in use has.                         *)
InUse == {Revision(h) : h \in {catalog, vectors} \cup
           UNION {{captured[i].head, captured[i].vectors, previous[i]} : i \in Indexer}}
FreshRevision == CHOOSE n \in 0 .. 3 * Cardinality(Indexer) + 2 : n \notin InUse

(* readVectors: a damaged object reads as no entries, except by an         *)
(* instance that still has it in its cache.                                *)
Reads(head) ==
  CASE head = None -> {{}}
    [] head # None /\ head.damaged -> {{}, head.entries}
    [] OTHER -> {head.entries}

Goto(i, target) == pc' = [pc EXCEPT ![i] = target]

SearchNumber == IF catalog = None THEN None
                ELSE IF catalog.pending # None THEN catalog.pending ELSE catalog.live

-----------------------------------------------------------------------------
(* The embeddings route and indexVoyageBatch *)

AcquireLease(i) ==
  /\ pc[i] = "idle"
  /\ ~Live
  /\ lease' = [holder |-> i, live |-> TRUE]
  /\ Goto(i, "documents")
  /\ UNCHANGED <<catalog, published, vectors, batch, previous, upload, captured, saved, faults>>

(* embeddingCandidates: the documents of the pending or the live catalog.  *)
ReadDocuments(i) ==
  /\ pc[i] = "documents"
  /\ batch' = [batch EXCEPT ![i] = IF SearchNumber = None THEN {} ELSE published[SearchNumber]]
  /\ Goto(i, "cached")
  /\ UNCHANGED <<catalog, published, vectors, lease, previous, upload, captured, saved, faults>>

Slices(docs) ==   \* slice(0, batchSize), in any order of the documents
  {b \in SUBSET docs : Cardinality(b) = BatchSize \/ (b = docs /\ Cardinality(docs) <= BatchSize)}

Pending(i, entries) == batch[i] \ entries

(* Documents without a vector, the first BatchSize of them.                *)
ReadCached(i) ==
  /\ pc[i] = "cached"
  /\ \E entries \in Reads(vectors) :
       \E b \in Slices(Pending(i, entries)) :
         /\ batch' = [batch EXCEPT ![i] = b]
         /\ Goto(i, IF b = {} THEN "capture" ELSE "embed")
  /\ UNCHANGED <<catalog, published, vectors, lease, previous, upload, captured, saved, faults>>

Embed(i) ==
  /\ pc[i] = "embed"
  /\ Goto(i, "save")
  /\ UNCHANGED <<catalog, published, vectors, lease, batch, previous, upload, captured, saved, faults>>

-----------------------------------------------------------------------------
(* saveVoyageVectors *)

ReadHead(i) ==
  /\ pc[i] = "save"
  /\ HoldsLive(i)
  /\ previous' = [previous EXCEPT ![i] = vectors]
  /\ Goto(i, "combine")
  /\ UNCHANGED <<catalog, published, vectors, lease, batch, upload, captured, saved, faults>>

BatchOnly(i, entries) == batch[i]
Combined(i, entries) == entries \cup batch[i]

CombineAndUpload(i) ==
  /\ pc[i] = "combine"
  /\ \E entries \in Reads(previous[i]) : upload' = [upload EXCEPT ![i] = Combined(i, entries)]
  /\ Goto(i, "commit")
  /\ UNCHANGED <<catalog, published, vectors, lease, batch, previous, captured, saved, faults>>

Unfenced(i) == TRUE
MayReplace(i) == HoldsLive(i) /\ Revision(vectors) = Revision(previous[i])

SwapHead(i) ==
  /\ pc[i] = "commit"
  /\ MayReplace(i)
  /\ vectors' = [revision |-> FreshRevision, entries |-> upload[i], damaged |-> FALSE]
  /\ saved' = saved \cup batch[i]
  /\ Goto(i, "capture")
  /\ UNCHANGED <<catalog, published, lease, batch, previous, upload, captured, faults>>

-----------------------------------------------------------------------------
(* activateSearchCatalog *)

Capture(i) ==
  /\ pc[i] = "capture"
  /\ HoldsLive(i)
  /\ captured' = [captured EXCEPT ![i] = [head |-> catalog, vectors |-> vectors]]
  /\ Goto(i, IF catalog = None \/ catalog.pending = None THEN "release" ELSE "activate")
  /\ UNCHANGED <<catalog, published, vectors, lease, batch, previous, upload, saved, faults>>

OnlyTheLease(i) == HoldsLive(i)
MayActivate(i) ==
  /\ HoldsLive(i)
  /\ Revision(catalog) = Revision(captured[i].head)
  /\ Revision(vectors) = Revision(captured[i].vectors)

ActivateSearch(i) ==
  /\ pc[i] = "activate"
  /\ MayActivate(i)
  /\ catalog' = [revision |-> FreshRevision, live |-> captured[i].head.pending, pending |-> None]
  /\ Goto(i, "release")
  /\ UNCHANGED <<published, vectors, lease, batch, previous, upload, captured, saved, faults>>

-----------------------------------------------------------------------------
(* The end of a request: the client may send the next one *)

Forget(i) ==
  /\ batch' = [batch EXCEPT ![i] = {}]
  /\ previous' = [previous EXCEPT ![i] = None]
  /\ upload' = [upload EXCEPT ![i] = {}]
  /\ captured' = [captured EXCEPT ![i] = Nothing]

ReleaseLease(i) ==
  /\ pc[i] = "release"
  /\ lease' = IF lease # None /\ lease.holder = i THEN None ELSE lease
  /\ Goto(i, "idle")
  /\ Forget(i)
  /\ UNCHANGED <<catalog, published, vectors, saved, faults>>

(* A transaction finds the lease gone or a revision changed.               *)
Refused(i) ==
  \/ pc[i] \in {"save", "capture"} /\ ~HoldsLive(i)
  \/ pc[i] = "commit" /\ ~MayReplace(i)
  \/ pc[i] = "activate" /\ ~MayActivate(i)

Stop(i) ==
  /\ Refused(i)
  /\ Goto(i, "release")
  /\ UNCHANGED <<catalog, published, vectors, lease, batch, previous, upload, captured, saved, faults>>

-----------------------------------------------------------------------------
(* Faults and the outside world *)

Fault == faults < MaxFaults /\ faults' = faults + 1

(* The provider, the storage or a reply fails: an error on the way out.    *)
Fail(i) ==
  /\ Fault
  /\ pc[i] \notin {"idle", "release"}
  /\ Goto(i, "release")
  /\ UNCHANGED <<catalog, published, vectors, lease, batch, previous, upload, captured, saved>>

Crash(i) ==
  /\ Fault
  /\ pc[i] # "idle"
  /\ Goto(i, "idle")
  /\ Forget(i)
  /\ UNCHANGED <<catalog, published, vectors, lease, saved>>

(* An expired lease: of a request that takes long, or that died.           *)
Abandoned == Live /\ pc[lease.holder] = "idle"

Expire ==
  /\ Live
  /\ IF Abandoned THEN UNCHANGED faults ELSE Fault
  /\ lease' = [lease EXCEPT !.live = FALSE]
  /\ UNCHANGED <<catalog, published, vectors, locals, saved>>

(* The object of the vector head becomes unreadable.                       *)
Damage ==
  /\ Fault
  /\ vectors # None /\ ~vectors.damaged
  /\ vectors' = [vectors EXCEPT !.damaged = TRUE]
  /\ saved' = {}
  /\ UNCHANGED <<catalog, published, lease, locals>>

Publish(docs) ==
  /\ Cardinality(DOMAIN published) < MaxCatalogs
  /\ LET n == Cardinality(DOMAIN published) + 1
     IN  /\ published' = [m \in 1 .. n |-> IF m = n THEN docs ELSE published[m]]
         /\ catalog' = [revision |-> FreshRevision, live |-> n, pending |-> None]
  /\ UNCHANGED <<vectors, lease, locals, saved, faults>>

-----------------------------------------------------------------------------
Step(i) ==
  \/ ReadDocuments(i) \/ ReadCached(i) \/ Embed(i)
  \/ ReadHead(i) \/ CombineAndUpload(i) \/ SwapHead(i)
  \/ Capture(i) \/ ActivateSearch(i) \/ Stop(i) \/ ReleaseLease(i)

Next ==
  \/ \E i \in Indexer : AcquireLease(i) \/ Step(i) \/ Fail(i) \/ Crash(i)
  \/ Expire \/ Damage
  \/ \E docs \in SUBSET Doc : Publish(docs)

Spec == Init /\ [][Next]_vars

(* Requests run on, abandoned leases expire, and clients keep asking: the  *)
(* workflow repeats batches while documents are pending.                   *)
FairSpec ==
  /\ Spec
  /\ \A i \in Indexer : WF_vars(Step(i)) /\ SF_vars(AcquireLease(i))
  /\ WF_vars(Abandoned /\ Expire)

-----------------------------------------------------------------------------
(* Properties *)

Entries == IF vectors = None THEN {} ELSE vectors.entries
Indexed == IF vectors = None \/ vectors.damaged THEN {} ELSE vectors.entries
LiveDocuments == IF catalog = None \/ catalog.live = None THEN {} ELSE published[catalog.live]

(* A vector that was paid for and committed stays in the snapshot, however *)
(* requests whose lease expired under them interleave with their           *)
(* successors, until its object is damaged.                                *)
NoLostVectors == saved \subseteq Indexed

(* Activating a pending catalog never hides a later publication: once this *)
(* release has published, the newest publication is the live one.          *)
LiveIsNewest ==
  catalog # None /\ catalog.live # None => catalog.live = Cardinality(DOMAIN published)

(* Repeated batches reach every document of the live catalog, through      *)
(* refused swaps, crashes, expired leases and damaged snapshots.  (An      *)
(* unreadable object counts while instances serve it from their cache; the *)
(* first one that does not reads no entries and has it indexed anew.)      *)
EverythingIsIndexed == <>[](LiveDocuments \subseteq Entries)
=============================================================================
