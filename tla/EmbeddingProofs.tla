-------------------------- MODULE EmbeddingProofs --------------------------
(***************************************************************************)
(* The two users of the paid embedding service: VectorIndex for any        *)
(* clients, documents, batch size, publications and number of faults, and  *)
(* QueryEmbedder (below) for any searches, texts and limits.               *)
(*                                                                         *)
(* What VectorIndex promises rests on one idea: revisions are random, so a *)
(* head whose revision is still the one an indexer read is the head it     *)
(* read, except that its object may have been damaged since.  RevisionInv  *)
(* says so of every head an indexer holds, and what it combined from one   *)
(* is then a superset of everything saved.                                 *)
(***************************************************************************)
EXTENDS VectorIndex, QueryEmbedder, FiniteSetTheorems, SequenceTheorems, TLAPS

(* Publications are numbered from 1.                                       *)
Numbered == \E n \in 0 .. MaxCatalogs : DOMAIN published = 1 .. n

(* The newest publication is live, or pending with none live.              *)
NewestServed ==
  catalog # None =>
    /\ catalog.live # None => catalog.live = Cardinality(DOMAIN published)
    /\ catalog.pending # None => catalog.pending = Cardinality(DOMAIN published)

(* The snapshot that a head names is the one that was read, unless its     *)
(* object was damaged since.                                               *)
SameSnapshot(head, read) ==
  \/ head = None /\ read = None
  \/ /\ head # None /\ read # None
     /\ head.entries = read.entries
     /\ read.damaged => head.damaged

Faithful(i) ==
  /\ pc[i] = "activate" =>
       /\ captured[i].head # None /\ captured[i].head.pending # None
       /\ Revision(catalog) = Revision(captured[i].head) => catalog = captured[i].head
  /\ pc[i] \in {"combine", "commit"} /\ Revision(vectors) = Revision(previous[i]) =>
       SameSnapshot(vectors, previous[i])
  /\ pc[i] = "commit" =>
       /\ batch[i] \subseteq upload[i]
       /\ Revision(vectors) = Revision(previous[i]) => saved \subseteq upload[i]

RevisionInv == \A i \in Indexer : Faithful(i)

IndexInv == TypeOK /\ Numbered /\ NewestServed /\ NoLostVectors /\ RevisionInv

-----------------------------------------------------------------------------
(* Revisions. *)

HeldHeads ==
  {catalog, vectors} \cup {captured[i].head : i \in Indexer}
    \cup {captured[i].vectors : i \in Indexer} \cup {previous[i] : i \in Indexer}

LEMMA UnionSize ==
  ASSUME NEW S, IsFiniteSet(S), NEW m \in Nat, Cardinality(S) <= m,
         NEW T, IsFiniteSet(T), NEW n \in Nat, Cardinality(T) <= n
  PROVE  IsFiniteSet(S \cup T) /\ Cardinality(S \cup T) <= m + n
<1>1. IsFiniteSet(S \cup T) /\ Cardinality(S \cup T) = Cardinality(S) + Cardinality(T) - Cardinality(S \cap T)
  BY FS_Union
<1>2. IsFiniteSet(S \cap T)
  BY FS_Intersection
<1>3. Cardinality(S) \in Nat /\ Cardinality(T) \in Nat /\ Cardinality(S \cap T) \in Nat
  BY <1>2, FS_CardinalityType
<1> QED
  BY <1>1, <1>3

(* The image of a finite set under a function.                             *)
LEMMA ImageSize ==
  ASSUME NEW S, IsFiniteSet(S), NEW f, f = [x \in S |-> f[x]], NEW T, T = {f[x] : x \in S}
  PROVE  IsFiniteSet(T) /\ Cardinality(T) <= Cardinality(S)
<1>1. f \in Surjection(S, T)
  BY DEF Surjection
<1> QED
  BY <1>1, FS_Surjection

LEMMA RevisionsInUse ==
  /\ InUse = {Revision(h) : h \in HeldHeads}
  /\ IsFiniteSet(InUse)
  /\ Cardinality(InUse) <= 3 * Cardinality(Indexer) + 2
<1> DEFINE n == Cardinality(Indexer)
           C == {captured[i].head : i \in Indexer}
           V == {captured[i].vectors : i \in Indexer}
           P == {previous[i] : i \in Indexer}
           H == {catalog, vectors}
<1>1. InUse = {Revision(h) : h \in HeldHeads}
  BY DEF InUse, HeldHeads
<1>2. IsFiniteSet(Indexer) /\ n \in Nat
  BY BoundsAssumption, FS_CardinalityType
<1>3. IsFiniteSet(H) /\ Cardinality(H) <= 2
  <2> DEFINE A == {catalog}
             B == {vectors}
  <2>1. IsFiniteSet(A) /\ Cardinality(A) <= 1
    <3>1. IsFiniteSet(A) /\ Cardinality(A) = 1
      BY FS_Singleton
    <3> HIDE DEF A
    <3> QED
      BY <3>1
  <2>2. IsFiniteSet(B) /\ Cardinality(B) <= 1
    <3>1. IsFiniteSet(B) /\ Cardinality(B) = 1
      BY FS_Singleton
    <3> HIDE DEF B
    <3> QED
      BY <3>1
  <2>3. H = A \cup B
    OBVIOUS
  <2> HIDE DEF A, B, H
  <2>4. IsFiniteSet(A \cup B) /\ Cardinality(A \cup B) <= 1 + 1
    BY <2>1, <2>2, UnionSize
  <2> QED
    BY <2>3, <2>4
<1>4. IsFiniteSet(C) /\ Cardinality(C) <= n
  <2> DEFINE f == [i \in Indexer |-> captured[i].head]
  <2>1. f = [i \in Indexer |-> f[i]] /\ C = {f[i] : i \in Indexer}
    OBVIOUS
  <2> HIDE DEF f, C
  <2> QED
    BY <1>2, <2>1, ImageSize
<1>5. IsFiniteSet(V) /\ Cardinality(V) <= n
  <2> DEFINE f == [i \in Indexer |-> captured[i].vectors]
  <2>1. f = [i \in Indexer |-> f[i]] /\ V = {f[i] : i \in Indexer}
    OBVIOUS
  <2> HIDE DEF f, V
  <2> QED
    BY <1>2, <2>1, ImageSize
<1>6. IsFiniteSet(P) /\ Cardinality(P) <= n
  <2> DEFINE f == [i \in Indexer |-> previous[i]]
  <2>1. f = [i \in Indexer |-> f[i]] /\ P = {f[i] : i \in Indexer}
    OBVIOUS
  <2> HIDE DEF f, P
  <2> QED
    BY <1>2, <2>1, ImageSize
<1>7. HeldHeads = ((H \cup C) \cup V) \cup P
  BY DEF HeldHeads
<1> HIDE DEF n, C, V, P, H
<1>8. IsFiniteSet(H \cup C) /\ Cardinality(H \cup C) <= 2 + n
  BY <1>2, <1>3, <1>4, UnionSize
<1>9. IsFiniteSet((H \cup C) \cup V) /\ Cardinality((H \cup C) \cup V) <= (2 + n) + n
  <2>1. 2 + n \in Nat
    BY <1>2
  <2> QED
    BY <1>2, <1>5, <1>8, <2>1, UnionSize
<1>10. IsFiniteSet(HeldHeads) /\ Cardinality(HeldHeads) <= ((2 + n) + n) + n
  <2>1. (2 + n) + n \in Nat
    BY <1>2
  <2> QED
    BY <1>2, <1>6, <1>7, <1>9, <2>1, UnionSize
<1>11. IsFiniteSet(InUse) /\ Cardinality(InUse) <= Cardinality(HeldHeads)
  <2> DEFINE f == [h \in HeldHeads |-> Revision(h)]
  <2>1. f = [h \in HeldHeads |-> f[h]] /\ InUse = {f[h] : h \in HeldHeads}
    BY <1>1
  <2> HIDE DEF f
  <2> QED
    BY <1>10, <2>1, ImageSize
<1>12. Cardinality(InUse) \in Nat /\ Cardinality(HeldHeads) \in Nat
  BY <1>10, <1>11, FS_CardinalityType
<1>13. Cardinality(InUse) <= 3 * n + 2
  BY <1>2, <1>10, <1>11, <1>12
<1> QED
  BY <1>1, <1>11, <1>13 DEF n

(* A random revision is a number that no head in use has.                  *)
LEMMA FreshIsUnused ==
  /\ FreshRevision \in Nat
  /\ \A h \in HeldHeads : FreshRevision # Revision(h)
<1> DEFINE m == 3 * Cardinality(Indexer) + 2
<1>1. m \in Nat
  BY BoundsAssumption, FS_CardinalityType
<1>2. Cardinality(InUse) <= m /\ IsFiniteSet(InUse)
  BY RevisionsInUse
<1>3. Cardinality(InUse) \in Nat
  BY <1>2, FS_CardinalityType
<1>4. FreshRevision = CHOOSE n \in 0 .. m : n \notin InUse
  BY DEF FreshRevision
<1> HIDE DEF m
<1>5. \E n \in 0 .. m : n \notin InUse
  <2> SUFFICES ASSUME 0 .. m \subseteq InUse PROVE FALSE
    OBVIOUS
  <2>1. Cardinality(0 .. m) = m + 1
    BY <1>1, FS_Interval
  <2>2. Cardinality(0 .. m) <= Cardinality(InUse)
    BY <1>2, FS_Subset
  <2> QED
    BY <1>1, <1>2, <1>3, <2>1, <2>2
<1>6. FreshRevision \in 0 .. m /\ FreshRevision \notin InUse
  BY <1>4, <1>5
<1> QED
  BY <1>1, <1>6, RevisionsInUse

-----------------------------------------------------------------------------
(* Types. *)

LEMMA HeadTypes ==
  ASSUME TypeOK, NEW i \in Indexer
  PROVE  /\ catalog # None => catalog \in CatalogHead
         /\ vectors # None => vectors \in VectorHead
         /\ previous[i] # None => previous[i] \in VectorHead
         /\ captured[i] \in [head : CatalogHead \cup {None}, vectors : VectorHead \cup {None}]
         /\ {catalog, vectors, previous[i], captured[i].head, captured[i].vectors} \subseteq HeldHeads
BY DEF TypeOK, HeldHeads

LEMMA ReadTypes ==
  ASSUME NEW head \in VectorHead \cup {None}, NEW entries \in Reads(head)
  PROVE  /\ entries \in SUBSET Doc
         /\ head # None /\ ~head.damaged => entries = head.entries
BY DEF Reads, VectorHead

LEMMA InitTypes == Init => TypeOK /\ Numbered
<1> SUFFICES ASSUME Init PROVE TypeOK /\ Numbered
  OBVIOUS
<1>1. 1 \in Number /\ 1 \in 0 .. MaxCatalogs /\ 0 \in 0 .. MaxCatalogs /\ 0 \in 0 .. MaxFaults
  BY BoundsAssumption DEF Number
<1>2. CASE catalog = None /\ published = <<>>
  <2>1. DOMAIN published = 1 .. 0
    BY <1>2
  <2>2. Numbered
    BY <1>1, <2>1 DEF Numbered
  <2>3. \A n \in DOMAIN published : FALSE
    BY <2>1
  <2> QED
    BY <1>1, <1>2, <2>2, <2>3 DEF Init, TypeOK, Nothing
<1>3. CASE /\ catalog = [revision |-> 0, live |-> None, pending |-> 1]
           /\ published \in [{1} -> SUBSET Doc]
  <2>1. DOMAIN published = 1 .. 1 /\ DOMAIN published = {1} /\ published[1] \in SUBSET Doc
    BY <1>3
  <2>2. Numbered
    BY <1>1, <2>1 DEF Numbered
  <2>3. catalog \in CatalogHead
    BY <1>1, <1>3 DEF CatalogHead
  <2> QED
    BY <1>1, <2>1, <2>2, <2>3 DEF Init, TypeOK, Nothing
<1> QED
  BY <1>2, <1>3 DEF Init

LEMMA PublishedSize ==
  ASSUME Numbered
  PROVE  LET n == Cardinality(DOMAIN published)
         IN  n \in 0 .. MaxCatalogs /\ DOMAIN published = 1 .. n
<1>1. PICK n \in 0 .. MaxCatalogs : DOMAIN published = 1 .. n
  BY DEF Numbered
<1>2. n \in Int /\ n >= 0
  BY BoundsAssumption
<1>3. Cardinality(1 .. n) = n
  BY <1>2, FS_Interval
<1> QED
  BY <1>1, <1>3

LEMMA PublishTypes ==
  ASSUME TypeOK, Numbered, NEW docs \in SUBSET Doc, Publish(docs)
  PROVE  /\ TypeOK' /\ Numbered'
         /\ Cardinality(DOMAIN published') = Cardinality(DOMAIN published) + 1
         /\ catalog' = [revision |-> FreshRevision, live |-> Cardinality(DOMAIN published'), pending |-> None]
<1> DEFINE k == Cardinality(DOMAIN published)
           n == k + 1
<1>1. k \in 0 .. MaxCatalogs /\ DOMAIN published = 1 .. k
  BY PublishedSize
<1>2. k < MaxCatalogs
  BY DEF Publish
<1>3. published' = [m \in 1 .. n |-> IF m = n THEN docs ELSE published[m]]
  BY DEF Publish
<1>4. catalog' = [revision |-> FreshRevision, live |-> n, pending |-> None]
  BY DEF Publish
<1> HIDE DEF k
<1>5. n \in Number /\ n \in 0 .. MaxCatalogs /\ n \in Int /\ n >= 1 /\ k \in Nat
  BY <1>1, <1>2, BoundsAssumption DEF Number
<1>6. \A m \in 1 .. n : m \in Number /\ published'[m] \subseteq Doc
  BY <1>1, <1>3, <1>5, BoundsAssumption DEF TypeOK, Number
<1>7. DOMAIN published' = 1 .. n
  BY <1>3
<1>8. catalog' \in CatalogHead
  BY <1>4, <1>5, FreshIsUnused DEF CatalogHead
<1>9. Cardinality(DOMAIN published') = n
  BY <1>5, <1>7, FS_Interval
<1>10. TypeOK'
  BY <1>6, <1>7, <1>8 DEF Publish, TypeOK, locals
<1>11. Numbered'
  BY <1>5, <1>7 DEF Numbered
<1> QED
  BY <1>4, <1>9, <1>10, <1>11 DEF k

LEMMA StepTypes ==
  ASSUME IndexInv, NEW i \in Indexer, AcquireLease(i) \/ Step(i) \/ Fail(i) \/ Crash(i)
  PROVE  TypeOK' /\ UNCHANGED published
<1> USE DEF IndexInv, Goto
<1>0. faults < MaxFaults => faults + 1 \in 0 .. MaxFaults
  BY BoundsAssumption DEF TypeOK
<1>1. CASE AcquireLease(i)
  BY <1>1 DEF AcquireLease, TypeOK
<1>2. CASE ReadDocuments(i)
  <2>1. SearchNumber # None => catalog # None /\ SearchNumber \in Number
    BY HeadTypes DEF SearchNumber, CatalogHead
  <2>2. SearchNumber # None => published[SearchNumber] \subseteq Doc
    <3> SUFFICES ASSUME SearchNumber # None PROVE SearchNumber \in DOMAIN published
      BY DEF TypeOK
    <3>1. SearchNumber = Cardinality(DOMAIN published)
      BY <2>1 DEF SearchNumber, NewestServed
    <3> QED
      BY <2>1, <3>1, PublishedSize DEF Number
  <2> QED
    BY <1>2, <2>2 DEF ReadDocuments, TypeOK
<1>3. CASE ReadCached(i)
  <2>0. PICK entries \in Reads(vectors) : \E b \in Slices(Pending(i, entries)) :
          /\ batch' = [batch EXCEPT ![i] = b]
          /\ Goto(i, IF b = {} THEN "capture" ELSE "embed")
    BY <1>3 DEF ReadCached
  <2>1. PICK b \in Slices(Pending(i, entries)) :
          /\ batch' = [batch EXCEPT ![i] = b]
          /\ Goto(i, IF b = {} THEN "capture" ELSE "embed")
    BY <2>0
  <2>2. b \subseteq Doc
    BY DEF Slices, Pending, TypeOK
  <2>3. b # {} => Cardinality(b) <= BatchSize
    BY BoundsAssumption DEF Slices
  <2> QED
    BY <1>3, <2>1, <2>2, <2>3 DEF ReadCached, TypeOK
<1>4. CASE Embed(i) \/ ReadHead(i)
  <2>1. CASE Embed(i)
    <3>1. pc' = [pc EXCEPT ![i] = "save"] /\ pc[i] = "embed"
      BY <2>1 DEF Embed
    <3>2. \A j \in Indexer : pc'[j] \in {"embed", "save", "combine", "commit"} => pc[j] \in {"embed", "save", "combine", "commit"}
      BY <3>1 DEF TypeOK
    <3> QED
      BY <2>1, <3>1, <3>2 DEF Embed, TypeOK
  <2>2. CASE ReadHead(i)
    <3>1. pc' = [pc EXCEPT ![i] = "combine"] /\ pc[i] = "save"
      BY <2>2 DEF ReadHead
    <3>2. \A j \in Indexer : pc'[j] \in {"embed", "save", "combine", "commit"} => pc[j] \in {"embed", "save", "combine", "commit"}
      BY <3>1 DEF TypeOK
    <3>3. previous' \in [Indexer -> VectorHead \cup {None}]
      BY <2>2 DEF ReadHead, TypeOK
    <3> QED
      BY <2>2, <3>1, <3>2, <3>3 DEF ReadHead, TypeOK
  <2> QED
    BY <1>4, <2>1, <2>2
<1>5. CASE CombineAndUpload(i)
  <2>1. PICK entries \in Reads(previous[i]) : upload' = [upload EXCEPT ![i] = Combined(i, entries)]
    BY <1>5 DEF CombineAndUpload
  <2>2. Combined(i, entries) \in SUBSET Doc
    BY ReadTypes DEF Combined, TypeOK
  <2> QED
    BY <1>5, <2>1, <2>2 DEF CombineAndUpload, TypeOK
<1>6. CASE SwapHead(i)
  <2>1. vectors' \in VectorHead
    BY <1>6, FreshIsUnused DEF SwapHead, VectorHead, TypeOK
  <2> QED
    BY <1>6, <2>1 DEF SwapHead, TypeOK
<1>7. CASE Capture(i)
  BY <1>7 DEF Capture, TypeOK
<1>8. CASE ActivateSearch(i)
  <2>1. captured[i].head \in CatalogHead
    BY <1>8, HeadTypes DEF ActivateSearch, RevisionInv, Faithful
  <2>2. catalog' \in CatalogHead
    BY <1>8, <2>1, FreshIsUnused DEF ActivateSearch, CatalogHead
  <2> QED
    BY <1>8, <2>2 DEF ActivateSearch, TypeOK
<1>9. CASE Stop(i)
  BY <1>9 DEF Stop, TypeOK
<1>10. CASE ReleaseLease(i)
  BY <1>10 DEF ReleaseLease, Forget, Nothing, TypeOK
<1>11. CASE Fail(i)
  BY <1>0, <1>11 DEF Fail, Fault, TypeOK
<1>12. CASE Crash(i)
  BY <1>0, <1>12 DEF Crash, Fault, Forget, Nothing, TypeOK
<1>13. UNCHANGED published
  BY DEF AcquireLease, Step, Fail, Crash, ReadDocuments, ReadCached, Embed, ReadHead, CombineAndUpload,
         SwapHead, Capture, ActivateSearch, Stop, ReleaseLease
<1> QED
  BY <1>1, <1>2, <1>3, <1>4, <1>5, <1>6, <1>7, <1>8, <1>9, <1>10, <1>11, <1>12, <1>13 DEF Step

-----------------------------------------------------------------------------
(* Safety. *)

LEMMA InitEstablishes == Init => IndexInv
<1> SUFFICES ASSUME Init PROVE IndexInv
  OBVIOUS
<1>1. TypeOK /\ Numbered
  BY InitTypes
<1>2. NewestServed
  <2>1. CASE catalog = None
    BY <2>1 DEF NewestServed
  <2>2. CASE /\ catalog = [revision |-> 0, live |-> None, pending |-> 1]
             /\ published \in [{1} -> SUBSET Doc]
    <3>1. Cardinality(DOMAIN published) = 1
      BY <2>2, FS_Singleton
    <3> QED
      BY <2>2, <3>1 DEF NewestServed
  <2> QED
    BY <2>1, <2>2 DEF Init
<1>3. NoLostVectors /\ RevisionInv
  BY DEF Init, NoLostVectors, Indexed, RevisionInv, Faithful
<1> QED
  BY <1>1, <1>2, <1>3 DEF IndexInv

LEMMA OthersKeep ==
  ASSUME NEW j \in Indexer, Faithful(j), UNCHANGED <<catalog, vectors, saved>>,
         pc'[j] = pc[j], batch'[j] = batch[j], previous'[j] = previous[j],
         upload'[j] = upload[j], captured'[j] = captured[j]
  PROVE  Faithful(j)'
BY DEF Faithful, Revision, SameSnapshot

(* Steps that commit nothing.                                              *)
LEMMA QuietStep ==
  ASSUME IndexInv, NEW i \in Indexer,
         AcquireLease(i) \/ ReadDocuments(i) \/ ReadCached(i) \/ Embed(i) \/ ReadHead(i)
           \/ CombineAndUpload(i) \/ Capture(i) \/ Stop(i) \/ ReleaseLease(i) \/ Fail(i) \/ Crash(i)
  PROVE  IndexInv'
<1> USE DEF IndexInv, Goto
<1>1. TypeOK' /\ UNCHANGED published
  BY StepTypes DEF Step
<1>2. UNCHANGED <<catalog, vectors, saved>>
  BY DEF AcquireLease, ReadDocuments, ReadCached, Embed, ReadHead, CombineAndUpload, Capture, Stop,
         ReleaseLease, Fail, Crash
<1>3. Numbered' /\ NewestServed' /\ NoLostVectors'
  BY <1>1, <1>2 DEF Numbered, NewestServed, NoLostVectors, Indexed
<1>4. ASSUME NEW j \in Indexer, j # i PROVE Faithful(j)'
  <2>1. /\ pc'[j] = pc[j] /\ batch'[j] = batch[j] /\ previous'[j] = previous[j]
        /\ upload'[j] = upload[j] /\ captured'[j] = captured[j]
    BY <1>4 DEF AcquireLease, ReadDocuments, ReadCached, Embed, ReadHead, CombineAndUpload, Capture,
                Stop, ReleaseLease, Fail, Crash, Forget, TypeOK
  <2> QED
    BY <1>2, <2>1, OthersKeep DEF RevisionInv
<1>5. Faithful(i)'
  <2>1. CASE ReadHead(i)
    <3>1. pc'[i] = "combine" /\ previous'[i] = vectors /\ vectors' = vectors
      BY <2>1 DEF ReadHead, TypeOK
    <3> QED
      BY <3>1 DEF Faithful, SameSnapshot
  <2>2. CASE CombineAndUpload(i)
    <3>1. PICK entries \in Reads(previous[i]) : upload' = [upload EXCEPT ![i] = Combined(i, entries)]
      BY <2>2 DEF CombineAndUpload
    <3>2. /\ pc[i] = "combine" /\ pc'[i] = "commit" /\ upload'[i] = entries \cup batch[i]
          /\ batch'[i] = batch[i] /\ previous'[i] = previous[i]
      BY <2>2, <3>1 DEF CombineAndUpload, Combined, TypeOK
    <3>3. Revision(vectors) = Revision(previous[i]) => SameSnapshot(vectors, previous[i])
      BY <3>2 DEF RevisionInv, Faithful
    <3>4. previous[i] # None /\ ~previous[i].damaged => entries = previous[i].entries
      BY ReadTypes DEF TypeOK
    <3>5. SameSnapshot(vectors, previous[i]) => saved \subseteq entries
      BY <3>4 DEF SameSnapshot, NoLostVectors, Indexed
    <3> QED
      BY <1>2, <3>2, <3>3, <3>5 DEF Faithful, Revision, SameSnapshot
  <2>3. CASE Capture(i)
    <3>1. captured'[i].head = catalog /\ pc'[i] \in {"release", "activate"}
          /\ (pc'[i] = "activate" => catalog # None /\ catalog.pending # None)
      BY <2>3 DEF Capture, TypeOK
    <3> QED
      BY <1>2, <3>1 DEF Faithful
  <2>4. CASE AcquireLease(i) \/ ReadDocuments(i) \/ ReadCached(i) \/ Embed(i)
               \/ Stop(i) \/ ReleaseLease(i) \/ Fail(i) \/ Crash(i)
    <3>1. pc'[i] \notin {"activate", "combine", "commit"}
      BY <2>4 DEF AcquireLease, ReadDocuments, ReadCached, Embed, Stop, ReleaseLease, Fail, Crash, TypeOK
    <3> QED
      BY <3>1 DEF Faithful
  <2> QED
    BY <2>1, <2>2, <2>3, <2>4
<1> QED
  BY <1>1, <1>3, <1>4, <1>5 DEF RevisionInv

(* Swapping the vector head drops nothing that was saved: the revision is  *)
(* still the one that was read.                                            *)
LEMMA SwapStep ==
  ASSUME IndexInv, NEW i \in Indexer, SwapHead(i)
  PROVE  IndexInv'
<1> USE DEF IndexInv
<1>1. TypeOK' /\ UNCHANGED published
  BY StepTypes DEF Step
<1>2. /\ vectors' = [revision |-> FreshRevision, entries |-> upload[i], damaged |-> FALSE]
      /\ saved' = saved \cup batch[i] /\ pc[i] = "commit"
      /\ pc' = [pc EXCEPT ![i] = "capture"]
      /\ UNCHANGED <<catalog, batch, previous, upload, captured>>
      /\ Revision(vectors) = Revision(previous[i])
  BY DEF SwapHead, MayReplace, Goto
<1>3. saved \subseteq upload[i] /\ batch[i] \subseteq upload[i]
  BY <1>2 DEF RevisionInv, Faithful
<1>4. vectors' \in VectorHead /\ vectors' # None
  <2>1. upload[i] \in SUBSET Doc /\ FreshRevision \in Nat
    BY FreshIsUnused DEF TypeOK
  <2>2. vectors' \in VectorHead
    BY <1>2, <2>1 DEF VectorHead
  <2> QED
    BY <2>2, NoneAssumption
<1>5. NoLostVectors'
  BY <1>2, <1>3, <1>4 DEF NoLostVectors, Indexed
<1>6. Numbered' /\ NewestServed'
  BY <1>1, <1>2 DEF Numbered, NewestServed
<1>7. Revision(vectors)' = FreshRevision
  BY <1>2, <1>4 DEF Revision
<1>8. ASSUME NEW j \in Indexer PROVE Faithful(j)'
  <2>1. Revision(vectors)' # Revision(previous[j])'
    BY <1>2, <1>7, HeadTypes, FreshIsUnused DEF Revision
  <2>2. pc'[j] = "activate" => pc[j] = "activate"
    BY <1>2 DEF TypeOK
  <2>3. pc'[j] = "commit" => batch[j] \subseteq upload[j]
    BY <1>2 DEF TypeOK, RevisionInv, Faithful
  <2>4. Faithful(j)
    BY DEF RevisionInv
  <2> QED
    BY <1>2, <2>1, <2>2, <2>3, <2>4 DEF Faithful, Revision
<1> QED
  BY <1>1, <1>5, <1>6, <1>8 DEF RevisionInv

(* A new catalog head: no capture has its revision.                        *)
LEMMA NewCatalogHead ==
  ASSUME IndexInv, NEW head \in CatalogHead, head.revision = FreshRevision, catalog' = head,
         UNCHANGED <<vectors, batch, previous, upload, captured, saved>>,
         \A j \in Indexer : pc'[j] = pc[j] \/ pc'[j] = "release"
  PROVE  RevisionInv' /\ NoLostVectors'
<1>1. NoLostVectors'
  BY DEF IndexInv, NoLostVectors, Indexed
<1>2. head # None
  BY NoneAssumption
<1>3. Revision(catalog)' = FreshRevision
  BY <1>2 DEF Revision
<1>4. ASSUME NEW j \in Indexer PROVE Faithful(j)'
  <2>1. Revision(catalog)' # Revision(captured[j].head)
    BY <1>3, HeadTypes, FreshIsUnused DEF IndexInv
  <2>2. Faithful(j)
    BY DEF IndexInv, RevisionInv
  <2> QED
    BY <2>1, <2>2 DEF Faithful, Revision, SameSnapshot
<1> QED
  BY <1>1, <1>4 DEF RevisionInv

LEMMA ActivateStep ==
  ASSUME IndexInv, NEW i \in Indexer, ActivateSearch(i)
  PROVE  IndexInv'
<1>1. TypeOK' /\ UNCHANGED published
  BY StepTypes DEF Step
<1> USE DEF IndexInv
<1>2. /\ catalog' = [revision |-> FreshRevision, live |-> captured[i].head.pending, pending |-> None]
      /\ pc' = [pc EXCEPT ![i] = "release"]
      /\ UNCHANGED <<vectors, batch, previous, upload, captured, saved>>
      /\ Revision(catalog) = Revision(captured[i].head) /\ pc[i] = "activate"
  BY DEF ActivateSearch, MayActivate, Goto
<1>3. catalog # None /\ catalog.pending # None /\ captured[i].head = catalog
  BY <1>2 DEF RevisionInv, Faithful
<1>4. catalog.pending = Cardinality(DOMAIN published)
  BY <1>3 DEF NewestServed
<1>5. NewestServed'
  BY <1>1, <1>2, <1>3, <1>4 DEF NewestServed
<1>6. catalog' \in CatalogHead /\ catalog'.revision = FreshRevision
  <2>1. catalog.pending \in Number
    BY <1>3, HeadTypes DEF CatalogHead
  <2> QED
    BY <1>2, <1>3, <2>1, FreshIsUnused DEF CatalogHead
<1>7. \A j \in Indexer : pc'[j] = pc[j] \/ pc'[j] = "release"
  BY <1>2 DEF TypeOK
<1>8. RevisionInv' /\ NoLostVectors'
  BY <1>2, <1>6, <1>7, NewCatalogHead
<1> QED
  BY <1>1, <1>5, <1>8 DEF Numbered

LEMMA PublishStep ==
  ASSUME IndexInv, NEW docs \in SUBSET Doc, Publish(docs)
  PROVE  IndexInv'
<1>1. /\ TypeOK' /\ Numbered'
      /\ catalog' = [revision |-> FreshRevision, live |-> Cardinality(DOMAIN published'), pending |-> None]
  BY PublishTypes DEF IndexInv
<1>2. NewestServed'
  BY <1>1 DEF NewestServed
<1>3. UNCHANGED <<vectors, pc, batch, previous, upload, captured, saved>>
  BY DEF Publish, locals
<1>4. Cardinality(DOMAIN published') \in Number
  <2>1. Cardinality(DOMAIN published) \in 0 .. MaxCatalogs
    BY PublishedSize DEF IndexInv
  <2> QED
    BY <2>1, PublishTypes, BoundsAssumption DEF Publish, Number, IndexInv
<1>5. catalog' \in CatalogHead /\ catalog'.revision = FreshRevision
  BY <1>1, <1>4, FreshIsUnused DEF CatalogHead
<1>6. RevisionInv' /\ NoLostVectors'
  BY <1>3, <1>5, NewCatalogHead
<1> QED
  BY <1>1, <1>2, <1>6 DEF IndexInv

LEMMA ExpireStep == ASSUME IndexInv, Expire PROVE IndexInv'
<1>1. TypeOK'
  <2>1. faults < MaxFaults => faults + 1 \in 0 .. MaxFaults
    BY BoundsAssumption DEF IndexInv, TypeOK
  <2>2. lease' \in [holder : Indexer, live : BOOLEAN] /\ faults' \in 0 .. MaxFaults
    BY <2>1 DEF Expire, Live, Fault, IndexInv, TypeOK
  <2> QED
    BY <2>2 DEF Expire, IndexInv, TypeOK, locals
<1>2. UNCHANGED <<catalog, published, vectors, saved, pc, batch, previous, upload, captured>>
  BY DEF Expire, locals
<1>3. RevisionInv'
  BY <1>2, OthersKeep DEF IndexInv, RevisionInv
<1> QED
  BY <1>1, <1>2, <1>3 DEF IndexInv, Numbered, NewestServed, NoLostVectors, Indexed

LEMMA DamageStep == ASSUME IndexInv, Damage PROVE IndexInv'
<1> USE DEF IndexInv
<1>1. /\ vectors # None /\ vectors' = [vectors EXCEPT !.damaged = TRUE] /\ saved' = {}
      /\ UNCHANGED <<catalog, published, lease, pc, batch, previous, upload, captured>>
  BY DEF Damage, locals
<1>2. vectors \in VectorHead
  BY <1>1 DEF TypeOK
<1>3. /\ vectors' \in VectorHead /\ vectors' # None
      /\ vectors'.revision = vectors.revision /\ vectors'.entries = vectors.entries /\ vectors'.damaged
  BY <1>1, <1>2, NoneAssumption DEF VectorHead
<1>4. TypeOK'
  <2>1. faults' \in 0 .. MaxFaults
    BY BoundsAssumption DEF Damage, Fault, TypeOK
  <2> QED
    BY <1>1, <1>3, <2>1 DEF TypeOK
<1>5. Numbered' /\ NewestServed' /\ NoLostVectors'
  BY <1>1 DEF Numbered, NewestServed, NoLostVectors
<1>6. Revision(vectors)' = Revision(vectors)
  BY <1>1, <1>3 DEF Revision
<1>7. ASSUME NEW j \in Indexer PROVE Faithful(j)'
  <2>1. Faithful(j)
    BY DEF RevisionInv
  <2>2. SameSnapshot(vectors, previous[j]) => SameSnapshot(vectors, previous[j])'
    BY <1>1, <1>3 DEF SameSnapshot
  <2>3. Revision(previous[j])' = Revision(previous[j]) /\ Revision(catalog)' = Revision(catalog)
        /\ Revision(captured[j].head)' = Revision(captured[j].head)
    BY <1>1 DEF Revision
  <2> QED
    BY <1>1, <1>6, <2>1, <2>2, <2>3 DEF Faithful
<1> QED
  BY <1>4, <1>5, <1>7 DEF RevisionInv

LEMMA StepPreserves == IndexInv /\ [Next]_vars => IndexInv'
<1> SUFFICES ASSUME IndexInv, [Next]_vars PROVE IndexInv'
  OBVIOUS
<1>1. ASSUME NEW i \in Indexer, AcquireLease(i) \/ Step(i) \/ Fail(i) \/ Crash(i) PROVE IndexInv'
  BY <1>1, QuietStep, SwapStep, ActivateStep DEF Step
<1>2. CASE Expire \/ Damage
  BY <1>2, ExpireStep, DamageStep
<1>3. ASSUME NEW docs \in SUBSET Doc, Publish(docs) PROVE IndexInv'
  BY <1>3, PublishStep
<1>4. CASE UNCHANGED vars
  <2>1. UNCHANGED <<catalog, published, vectors, lease, pc, batch, previous, upload, captured, saved, faults>>
    BY <1>4 DEF vars, locals
  <2>2. RevisionInv'
    BY <2>1, OthersKeep DEF IndexInv, RevisionInv
  <2> QED
    BY <2>1, <2>2 DEF IndexInv, TypeOK, Numbered, NewestServed, NoLostVectors, Indexed
<1> QED
  BY <1>1, <1>2, <1>3, <1>4 DEF Next

LEMMA Invariance == Spec => []IndexInv
BY InitEstablishes, StepPreserves, PTL DEF Spec

-----------------------------------------------------------------------------
(* The heads and what every indexer holds keep their types, and no request *)
(* embeds more than a batch.                                               *)
THEOREM IndexTypeCorrect == Spec => []TypeOK
<1>1. IndexInv => TypeOK
  BY DEF IndexInv
<1> QED
  BY <1>1, Invariance, PTL

(* saveVoyageVectors never drops a committed vector, whichever indexers    *)
(* outlive their lease and whatever their successors write meanwhile.      *)
THEOREM VectorsStay == Spec => []NoLostVectors
<1>1. IndexInv => NoLostVectors
  BY DEF IndexInv
<1> QED
  BY <1>1, Invariance, PTL

(* activateSearchCatalog never puts an older catalog in front of a         *)
(* publication that came while it ran.                                     *)
THEOREM NewestIsLive == Spec => []LiveIsNewest
<1>1. IndexInv => LiveIsNewest
  BY DEF IndexInv, NewestServed, LiveIsNewest
<1> QED
  BY <1>1, Invariance, PTL

-----------------------------------------------------------------------------
(* QueryEmbedder.  A reserved start that has left the window is forgotten, *)
(* so the list alone does not bound the calls: PaceInv says that the list  *)
(* has every reservation that still counts, and Apart that among more than *)
(* CallsPerWindow reservations, forgotten or not, two are a window apart.  *)

Entry == [text : Text, at : Nat]

(* The Map has a key once; a key that is being paid for it does not have,  *)
(* and the request for it is under way in the name of who pays.            *)
KeysOnce == \A i, j \in DOMAIN cache : cache[i].text = cache[j].text => i = j
PaidInv ==
  \A c \in Caller : Paying(c) => inFlight[text[c]] = c /\ ~IsCached(text[c])

(* Who has reserved, and that the starts kept are theirs.  Those that are  *)
(* not kept are out of every window from now on.                           *)
Reserved == {c \in Caller : doing[c] = "sleeping"} \cup {call[1] : call \in called}
Ascending == \A i, j \in DOMAIN starts : i <= j => starts[i] <= starts[j]
StartsOf(owner) ==
  /\ \A i \in DOMAIN starts : owner[i] \in Reserved /\ starts[i] = wakeAt[owner[i]]
  /\ \A c \in Reserved : wakeAt[c] > clock - WindowMs => \E i \in DOMAIN starts : owner[i] = c
StartsKept == \E owner \in [DOMAIN starts -> Caller] : StartsOf(owner)

(* A call is made at the start of its slot, when its timer fires.          *)
Punctual ==
  /\ \A c \in Caller : doing[c] = "sleeping" => clock <= wakeAt[c]
  /\ \A call \in called : call[2] = wakeAt[call[1]] /\ doing[call[1]] \notin {"idle", "sleeping"}
Apart ==
  \A slots \in SUBSET Reserved :
    Cardinality(slots) > CallsPerWindow => \E a, b \in slots : wakeAt[b] - wakeAt[a] >= WindowMs
PaceInv ==
  /\ Ascending /\ StartsKept /\ Punctual /\ Apart
  /\ IsFiniteSet(called) /\ IsFiniteSet(Reserved)

EmbedderInv == EmbedderTypeOK /\ KeysOnce /\ PaidInv /\ PaceInv

-----------------------------------------------------------------------------
(* Sequences.                                                              *)

LEMMA RemovedAt ==
  ASSUME NEW S, NEW s \in Seq(S), NEW k \in 1 .. Len(s)
  PROVE  /\ RemoveAt(s, k) \in Seq(S) /\ Len(RemoveAt(s, k)) = Len(s) - 1
         /\ \A i \in 1 .. Len(s) - 1 : RemoveAt(s, k)[i] = IF i < k THEN s[i] ELSE s[i + 1]
<1> DEFINE a == SubSeq(s, 1, k - 1)
           b == SubSeq(s, k + 1, Len(s))
<1>1. Len(s) \in Nat /\ \A i \in 1 .. Len(s) : s[i] \in S
  BY ElementOfSeq, LenProperties
<1>2. /\ a \in Seq(S) /\ Len(a) = k - 1
      /\ \A i \in 1 .. k - 1 : a[i] = s[i]
  BY <1>1, SubSeqProperties
<1>3. /\ b \in Seq(S) /\ Len(b) = Len(s) - k
      /\ \A i \in 1 .. Len(s) - k : b[i] = s[k + i]
  BY <1>1, SubSeqProperties
<1>4. RemoveAt(s, k) = a \o b
  BY DEF RemoveAt
<1> HIDE DEF a, b
<1>5. /\ a \o b \in Seq(S) /\ Len(a \o b) = Len(a) + Len(b)
      /\ \A i \in 1 .. Len(a) + Len(b) : (a \o b)[i] = IF i <= Len(a) THEN a[i] ELSE b[i - Len(a)]
  BY <1>2, <1>3, ConcatProperties
<1> DEFINE r == RemoveAt(s, k)
<1>6. /\ r \in Seq(S) /\ Len(r) = Len(s) - 1
      /\ \A i \in 1 .. Len(s) - 1 : r[i] = IF i <= k - 1 THEN a[i] ELSE b[i - (k - 1)]
  BY <1>1, <1>2, <1>3, <1>4, <1>5
<1> HIDE DEF r
<1>7. ASSUME NEW i \in 1 .. Len(s) - 1 PROVE r[i] = IF i < k THEN s[i] ELSE s[i + 1]
  <2>1. CASE i < k
    <3>1. i \in 1 .. k - 1 /\ i <= k - 1
      BY <1>1, <2>1
    <3> QED
      BY <1>2, <1>6, <2>1, <3>1
  <2>2. CASE ~(i < k)
    <3> DEFINE m == i - (k - 1)
    <3>1. m \in 1 .. Len(s) - k /\ k + m = i + 1 /\ ~(i <= k - 1)
      BY <1>1, <2>2
    <3>2. r[i] = b[m]
      BY <1>6, <3>1
    <3> HIDE DEF m
    <3> QED
      BY <1>3, <2>2, <3>1, <3>2
  <2> QED
    BY <2>1, <2>2
<1> QED
  BY <1>6, <1>7 DEF r

LEMMA InsertedAt ==
  ASSUME NEW S, NEW s \in Seq(S), NEW k \in 1 .. Len(s) + 1, NEW e \in S
  PROVE  /\ InsertAt(s, k, e) \in Seq(S) /\ Len(InsertAt(s, k, e)) = Len(s) + 1
         /\ \A i \in 1 .. Len(s) + 1 :
              InsertAt(s, k, e)[i] = IF i < k THEN s[i] ELSE IF i = k THEN e ELSE s[i - 1]
<1> DEFINE a == SubSeq(s, 1, k - 1)
           b == SubSeq(s, k, Len(s))
           c == a \o <<e>>
<1>1. Len(s) \in Nat /\ \A i \in 1 .. Len(s) : s[i] \in S
  BY ElementOfSeq, LenProperties
<1>2. /\ a \in Seq(S) /\ Len(a) = k - 1
      /\ \A i \in 1 .. k - 1 : a[i] = s[i]
  BY <1>1, SubSeqProperties
<1>3. /\ b \in Seq(S) /\ Len(b) = Len(s) - k + 1
      /\ \A i \in 1 .. Len(s) - k + 1 : b[i] = s[k + i - 1]
  BY <1>1, SubSeqProperties
<1>4. InsertAt(s, k, e) = c \o b
  BY DEF InsertAt
<1>5. /\ c \in Seq(S) /\ Len(c) = k
      /\ \A i \in 1 .. k : c[i] = IF i < k THEN s[i] ELSE e
  <2> DEFINE one == <<e>>
  <2>1. one \in Seq(S) /\ Len(one) = 1 /\ one[1] = e
    OBVIOUS
  <2>2. c = a \o one
    OBVIOUS
  <2> HIDE DEF a, c, one
  <2>3. /\ c \in Seq(S) /\ Len(c) = Len(a) + 1
        /\ \A i \in 1 .. Len(a) + 1 : c[i] = IF i <= Len(a) THEN a[i] ELSE one[i - Len(a)]
    <3>1. /\ a \o one \in Seq(S) /\ Len(a \o one) = Len(a) + Len(one)
          /\ \A i \in 1 .. Len(a) + Len(one) : (a \o one)[i] = IF i <= Len(a) THEN a[i] ELSE one[i - Len(a)]
      BY <1>2, <2>1, ConcatProperties
    <3> QED
      BY <2>1, <2>2, <3>1
  <2>4. ASSUME NEW i \in 1 .. k PROVE c[i] = IF i < k THEN s[i] ELSE e
    <3>1. CASE i < k
      <4>1. i \in 1 .. k - 1 /\ i \in 1 .. Len(a) + 1 /\ i <= Len(a)
        BY <1>1, <1>2, <3>1
      <4> QED
        BY <1>2, <2>3, <3>1, <4>1
    <3>2. CASE i = k
      <4>1. i \in 1 .. Len(a) + 1 /\ ~(i <= Len(a)) /\ i - Len(a) = 1
        BY <1>1, <1>2, <3>2
      <4> QED
        BY <2>1, <2>3, <3>2, <4>1
    <3> QED
      BY <1>1, <3>1, <3>2
  <2> QED
    BY <1>1, <1>2, <2>3, <2>4
<1> HIDE DEF a, b, c
<1>6. /\ c \o b \in Seq(S) /\ Len(c \o b) = Len(c) + Len(b)
      /\ \A i \in 1 .. Len(c) + Len(b) : (c \o b)[i] = IF i <= Len(c) THEN c[i] ELSE b[i - Len(c)]
  BY <1>3, <1>5, ConcatProperties
<1> DEFINE r == InsertAt(s, k, e)
<1>7. /\ r \in Seq(S) /\ Len(r) = Len(s) + 1
      /\ \A i \in 1 .. Len(s) + 1 : r[i] = IF i <= k THEN c[i] ELSE b[i - k]
  BY <1>1, <1>3, <1>4, <1>5, <1>6
<1> HIDE DEF r
<1>8. ASSUME NEW i \in 1 .. Len(s) + 1
      PROVE  r[i] = IF i < k THEN s[i] ELSE IF i = k THEN e ELSE s[i - 1]
  <2>1. CASE i <= k
    <3>1. i \in 1 .. k
      BY <1>1, <2>1
    <3>2. r[i] = IF i < k THEN s[i] ELSE e
      BY <1>5, <1>7, <2>1, <3>1
    <3> QED
      BY <1>1, <2>1, <3>2
  <2>2. CASE ~(i <= k)
    <3> DEFINE m == i - k
    <3>1. m \in 1 .. Len(s) - k + 1 /\ k + m - 1 = i - 1 /\ ~(i < k) /\ i # k
      BY <1>1, <2>2
    <3>2. r[i] = b[m]
      BY <1>7, <2>2
    <3> HIDE DEF m
    <3> QED
      BY <1>3, <3>1, <3>2
  <2> QED
    BY <2>1, <2>2
<1> QED
  BY <1>7, <1>8 DEF r

(* A set of positions that begins at the first has them up to its size.    *)
LEMMA Beginning ==
  ASSUME NEW n \in Nat, NEW S \in SUBSET (1 .. n), \A i, j \in 1 .. n : i <= j /\ j \in S => i \in S
  PROVE  Cardinality(S) \in 0 .. n /\ \A i \in 1 .. n : i \in S <=> i <= Cardinality(S)
<1>1. IsFiniteSet(S) /\ Cardinality(S) \in 0 .. n
  <2>1. IsFiniteSet(1 .. n) /\ Cardinality(1 .. n) = n
    BY FS_Interval
  <2>2. IsFiniteSet(S) /\ Cardinality(S) <= n
    BY <2>1, FS_Subset
  <2> QED
    BY <2>2, FS_CardinalityType
<1>2. ASSUME NEW i \in 1 .. n, i \in S PROVE i <= Cardinality(S)
  <2>1. IsFiniteSet(1 .. i) /\ Cardinality(1 .. i) = i
    BY FS_Interval
  <2>2. 1 .. i \in SUBSET S
    BY <1>2
  <2> QED
    BY <1>1, <2>1, <2>2, FS_Subset
<1>3. ASSUME NEW i \in 1 .. n, i \notin S PROVE i > Cardinality(S)
  <2>1. IsFiniteSet(1 .. i - 1) /\ Cardinality(1 .. i - 1) = i - 1
    BY FS_Interval
  <2>2. S \in SUBSET (1 .. i - 1)
    BY <1>3
  <2>3. Cardinality(S) <= Cardinality(1 .. i - 1)
    BY <2>1, <2>2, FS_Subset, Zenon
  <2> QED
    BY <1>1, <2>1, <2>3
<1> QED
  BY <1>1, <1>2, <1>3

-----------------------------------------------------------------------------
(* The cache.                                                              *)

LEMMA PositionIs ==
  ASSUME EmbedderTypeOK, NEW t, IsCached(t)
  PROVE  Position(t) \in 1 .. Len(cache) /\ cache[Position(t)].text = t
BY DEF EmbedderTypeOK, IsCached, Position

LEMMA WithoutIs ==
  ASSUME EmbedderTypeOK, KeysOnce, NEW t
  PROVE  /\ Without(t) \in Seq(Entry) /\ Len(Without(t)) <= Len(cache)
         /\ IsCached(t) => Len(Without(t)) < Len(cache)
         /\ \A i \in 1 .. Len(Without(t)) :
              /\ Without(t)[i].text # t
              /\ \E j \in 1 .. Len(cache) : cache[j] = Without(t)[i]
         /\ \A i, j \in 1 .. Len(Without(t)) : Without(t)[i].text = Without(t)[j].text => i = j
<1>1. cache \in Seq(Entry) /\ Len(cache) \in Nat /\ DOMAIN cache = 1 .. Len(cache)
  BY LenProperties DEF EmbedderTypeOK, Entry
<1>2. CASE ~IsCached(t)
  <2>1. Without(t) = cache
    BY <1>2 DEF Without
  <2> QED
    BY <1>1, <1>2, <2>1 DEF KeysOnce, IsCached
<1>3. CASE IsCached(t)
  <2> DEFINE k == Position(t)
             w == RemoveAt(cache, k)
  <2>1. k \in 1 .. Len(cache) /\ cache[k].text = t
    BY <1>3, PositionIs
  <2>2. Without(t) = w
    BY <1>3 DEF Without
  <2> HIDE DEF k
  <2>3. /\ w \in Seq(Entry) /\ Len(w) = Len(cache) - 1
        /\ \A i \in 1 .. Len(cache) - 1 : w[i] = IF i < k THEN cache[i] ELSE cache[i + 1]
    BY <1>1, <2>1, RemovedAt
  <2> HIDE DEF w
  <2>4. \A i, j \in 1 .. Len(cache) : cache[i].text = cache[j].text => i = j
    BY <1>1 DEF KeysOnce
  <2>5. \A i \in 1 .. Len(w) : \E j \in 1 .. Len(cache) :
          j # k /\ cache[j] = w[i] /\ (j = IF i < k THEN i ELSE i + 1)
    <3> SUFFICES ASSUME NEW i \in 1 .. Len(w)
                 PROVE  \E j \in 1 .. Len(cache) :
                          j # k /\ cache[j] = w[i] /\ (j = IF i < k THEN i ELSE i + 1)
      OBVIOUS
    <3>1. CASE i < k
      <4>1. i \in 1 .. Len(cache) /\ i # k /\ cache[i] = w[i]
        BY <1>1, <2>1, <2>3, <3>1
      <4> QED
        BY <3>1, <4>1
    <3>2. CASE i >= k
      <4>1. i + 1 \in 1 .. Len(cache) /\ i + 1 # k /\ cache[i + 1] = w[i] /\ ~(i < k)
        BY <1>1, <2>1, <2>3, <3>2
      <4> QED
        BY <4>1
    <3> QED
      BY <2>1, <3>1, <3>2
  <2>6. \A i \in 1 .. Len(w) : w[i].text # t /\ \E j \in 1 .. Len(cache) : cache[j] = w[i]
    BY <2>1, <2>4, <2>5
  <2>7. \A i, j \in 1 .. Len(w) : w[i].text = w[j].text => i = j
    <3> SUFFICES ASSUME NEW i \in 1 .. Len(w), NEW j \in 1 .. Len(w), w[i].text = w[j].text PROVE i = j
      OBVIOUS
    <3>1. PICK p \in 1 .. Len(cache) : cache[p] = w[i] /\ (p = IF i < k THEN i ELSE i + 1)
      BY <2>5
    <3>2. PICK q \in 1 .. Len(cache) : cache[q] = w[j] /\ (q = IF j < k THEN j ELSE j + 1)
      BY <2>5
    <3>3. p = q
      BY <2>4, <3>1, <3>2
    <3> QED
      BY <1>1, <2>1, <2>3, <3>1, <3>2, <3>3
  <2> QED
    BY <1>1, <2>2, <2>3, <2>6, <2>7
<1> QED
  BY <1>2, <1>3

(* cached() keeps the Map in shape, adds no key and removes a stale one.   *)
LEMMA TouchedIs ==
  ASSUME EmbedderTypeOK, KeysOnce, NEW t \in Text, cache' = Touched(t)
  PROVE  /\ cache' \in Seq(Entry) /\ Len(cache') <= CacheEntries
         /\ KeysOnce'
         /\ \A u : IsCached(u)' => IsCached(u)
         /\ ~Fresh(t) => ~IsCached(t)'
<1> DEFINE w == Without(t)
           e == EntryOf(t)
<1>0. Len(cache) \in Nat /\ Len(cache) <= CacheEntries /\ CacheEntries \in Nat /\ DOMAIN cache = 1 .. Len(cache)
  BY LimitsAssumption, LenProperties DEF EmbedderTypeOK
<1>1. /\ w \in Seq(Entry) /\ Len(w) \in Nat /\ Len(w) <= Len(cache)
      /\ DOMAIN w = 1 .. Len(w)
      /\ IsCached(t) => Len(w) < Len(cache)
      /\ \A i \in 1 .. Len(w) : w[i].text # t /\ \E j \in 1 .. Len(cache) : cache[j] = w[i]
      /\ \A i, j \in 1 .. Len(w) : w[i].text = w[j].text => i = j
  BY WithoutIs, LenProperties
<1>2. CASE Fresh(t)
  <2>1. /\ e \in Entry /\ e.text = t /\ IsCached(t) /\ cache' = Append(w, e)
        /\ \E j \in 1 .. Len(cache) : cache[j] = e
    <3>1. IsCached(t) /\ cache' = Append(w, e)
      BY <1>2 DEF Touched, Fresh
    <3>2. Position(t) \in 1 .. Len(cache) /\ cache[Position(t)].text = t
      BY <3>1, PositionIs
    <3>3. cache[Position(t)] \in Entry
      BY <3>2, ElementOfSeq DEF EmbedderTypeOK, Entry
    <3> QED
      BY <3>1, <3>2, <3>3 DEF EntryOf
  <2> HIDE DEF w, e
  <2>2. /\ cache' \in Seq(Entry) /\ Len(cache') = Len(w) + 1 /\ DOMAIN cache' = 1 .. Len(w) + 1
        /\ \A i \in 1 .. Len(w) : cache'[i] = w[i]
        /\ cache'[Len(w) + 1] = e
    BY <1>1, <2>1, AppendProperties, LenProperties
  <2>3. \A i \in 1 .. Len(w) + 1 : i \in 1 .. Len(w) \/ i = Len(w) + 1
    BY <1>1
  <2>4. KeysOnce'
    <3> SUFFICES ASSUME NEW i \in 1 .. Len(w) + 1, NEW j \in 1 .. Len(w) + 1, cache'[i].text = cache'[j].text
                 PROVE  i = j
      BY <2>2 DEF KeysOnce
    <3>1. CASE i \in 1 .. Len(w) /\ j \in 1 .. Len(w)
      BY <1>1, <2>2, <3>1
    <3>2. CASE i = Len(w) + 1 /\ j \in 1 .. Len(w)
      BY <1>1, <2>1, <2>2, <3>2
    <3>3. CASE i \in 1 .. Len(w) /\ j = Len(w) + 1
      BY <1>1, <2>1, <2>2, <3>3
    <3> QED
      BY <2>3, <3>1, <3>2, <3>3
  <2>5. ASSUME NEW u, IsCached(u)' PROVE IsCached(u)
    <3>1. PICK i \in 1 .. Len(w) + 1 : cache'[i].text = u
      BY <2>2, <2>5 DEF IsCached
    <3>2. \E j \in 1 .. Len(cache) : cache[j] = cache'[i]
      BY <1>1, <2>1, <2>2, <2>3
    <3> QED
      BY <1>0, <3>1, <3>2 DEF IsCached
  <2> QED
    BY <1>0, <1>1, <1>2, <2>1, <2>2, <2>4, <2>5
<1>3. CASE ~Fresh(t)
  <2>1. cache' = w
    BY <1>3 DEF Touched
  <2> HIDE DEF w
  <2>2. cache' \in Seq(Entry) /\ Len(cache') <= CacheEntries
    BY <1>0, <1>1, <2>1
  <2>3. KeysOnce'
    BY <1>1, <2>1 DEF KeysOnce
  <2>4. ASSUME NEW u, IsCached(u)' PROVE IsCached(u) /\ u # t
    <3>1. PICK i \in 1 .. Len(w) : w[i].text = u
      BY <1>1, <2>1, <2>4 DEF IsCached
    <3> QED
      BY <1>0, <1>1, <3>1 DEF IsCached
  <2> QED
    BY <2>2, <2>3, <2>4
<1> QED
  BY <1>2, <1>3

(* remember() keeps it in shape and adds no key but this.                  *)
LEMMA RememberedIs ==
  ASSUME EmbedderTypeOK, KeysOnce, NEW t \in Text, cache' = Remembered(t)
  PROVE  /\ cache' \in Seq(Entry) /\ Len(cache') <= CacheEntries
         /\ KeysOnce'
         /\ \A u : IsCached(u)' => IsCached(u) \/ u = t
<1> DEFINE e == [text |-> t, at |-> clock]
           full == IF IsCached(t) THEN ReplaceAt(cache, Position(t), e) ELSE Append(cache, e)
<1>0. /\ cache \in Seq(Entry) /\ Len(cache) \in Nat /\ Len(cache) <= CacheEntries
      /\ CacheEntries \in Nat /\ CacheEntries > 0 /\ DOMAIN cache = 1 .. Len(cache)
  BY LimitsAssumption, LenProperties DEF EmbedderTypeOK, Entry
<1>1. e \in Entry /\ e.text = t
  BY DEF EmbedderTypeOK, Entry
<1>2. cache' = IF Len(full) > CacheEntries THEN Tail(full) ELSE full
  BY DEF Remembered
<1>3. /\ full \in Seq(Entry) /\ Len(full) \in Nat /\ Len(full) <= CacheEntries + 1 /\ DOMAIN full = 1 .. Len(full)
      /\ \A i \in 1 .. Len(full) : full[i].text = t \/ \E j \in 1 .. Len(cache) : cache[j] = full[i]
      /\ \A i, j \in 1 .. Len(full) : full[i].text = full[j].text => i = j
  <2>1. CASE IsCached(t)
    <3> DEFINE k == Position(t)
    <3>1. k \in 1 .. Len(cache) /\ cache[k].text = t
      BY <2>1, PositionIs
    <3>2. full = [cache EXCEPT ![k] = e]
      BY <2>1 DEF ReplaceAt
    <3> HIDE DEF k, e, full
    <3>3. /\ full \in Seq(Entry) /\ Len(full) = Len(cache)
          /\ \A j \in 1 .. Len(cache) : full[j] = IF j = k THEN e ELSE cache[j]
      BY <1>0, <1>1, <3>1, <3>2, ExceptSeq
    <3>4. \A j \in 1 .. Len(cache) : full[j].text = cache[j].text
      BY <1>1, <3>1, <3>3
    <3>5. Len(full) \in Nat /\ Len(full) <= CacheEntries + 1 /\ DOMAIN full = 1 .. Len(full)
      BY <1>0, <3>3, LenProperties
    <3>6. \A i \in 1 .. Len(full) : full[i].text = t \/ \E j \in 1 .. Len(cache) : cache[j] = full[i]
      BY <1>1, <3>3
    <3>7. \A i, j \in 1 .. Len(cache) : cache[i].text = cache[j].text => i = j
      BY <1>0 DEF KeysOnce
    <3>8. \A i, j \in 1 .. Len(full) : full[i].text = full[j].text => i = j
      BY <3>3, <3>4, <3>7
    <3> QED
      BY <3>3, <3>5, <3>6, <3>8
  <2>2. CASE ~IsCached(t)
    <3>1. full = Append(cache, e)
      BY <2>2
    <3> HIDE DEF e, full
    <3>2. /\ full \in Seq(Entry) /\ Len(full) = Len(cache) + 1 /\ DOMAIN full = 1 .. Len(cache) + 1
          /\ \A i \in 1 .. Len(cache) : full[i] = cache[i]
          /\ full[Len(cache) + 1] = e
      BY <1>0, <1>1, <3>1, AppendProperties, LenProperties
    <3>3. \A i \in 1 .. Len(cache) + 1 : i \in 1 .. Len(cache) \/ i = Len(cache) + 1
      BY <1>0
    <3>4. \A i \in 1 .. Len(cache) : full[i].text # t
      BY <1>0, <2>2, <3>2 DEF IsCached
    <3>5. \A i, j \in 1 .. Len(cache) : cache[i].text = cache[j].text => i = j
      BY <1>0 DEF KeysOnce
    <3>6. Len(full) \in Nat /\ Len(full) <= CacheEntries + 1 /\ DOMAIN full = 1 .. Len(full)
      BY <1>0, <3>2
    <3>7. \A i \in 1 .. Len(cache) + 1 : full[i].text = t \/ \E j \in 1 .. Len(cache) : cache[j] = full[i]
      BY <1>1, <3>2, <3>3
    <3>8. \A i, j \in 1 .. Len(cache) + 1 : full[i].text = full[j].text => i = j
      BY <1>1, <3>2, <3>3, <3>4, <3>5
    <3> QED
      BY <3>2, <3>6, <3>7, <3>8
  <2> QED
    BY <2>1, <2>2
<1> HIDE DEF full
<1>4. CASE Len(full) > CacheEntries
  <2>1. full # <<>>
    BY <1>0, <1>4, EmptySeq
  <2>2. /\ cache' \in Seq(Entry) /\ Len(cache') = Len(full) - 1 /\ DOMAIN cache' = 1 .. Len(full) - 1
        /\ \A i \in 1 .. Len(full) - 1 : cache'[i] = full[i + 1]
    BY <1>2, <1>3, <1>4, <2>1, HeadTailProperties, LenProperties
  <2>3. \A i \in 1 .. Len(full) - 1 : i + 1 \in 1 .. Len(full)
    BY <1>3
  <2>4. KeysOnce'
    <3>1. ASSUME NEW i \in 1 .. Len(full) - 1, NEW j \in 1 .. Len(full) - 1, cache'[i].text = cache'[j].text
          PROVE  i = j
      <4>1. cache'[i] = full[i + 1] /\ cache'[j] = full[j + 1]
        BY <2>2
      <4>2. i + 1 = j + 1
        BY <1>3, <2>3, <3>1, <4>1
      <4> QED
        BY <4>2
    <3>2. \A i, j \in DOMAIN cache' : cache'[i].text = cache'[j].text => i = j
      BY <2>2, <3>1
    <3> QED
      BY <3>2 DEF KeysOnce
  <2>5. ASSUME NEW u, IsCached(u)' PROVE IsCached(u) \/ u = t
    <3>1. PICK i \in 1 .. Len(full) - 1 : full[i + 1].text = u
      BY <2>2, <2>5 DEF IsCached
    <3> QED
      BY <1>0, <1>3, <2>3, <3>1 DEF IsCached
  <2> QED
    BY <1>0, <1>3, <2>2, <2>4, <2>5
<1>5. CASE ~(Len(full) > CacheEntries)
  <2>1. cache' = full
    BY <1>2, <1>5
  <2>2. Len(full) <= CacheEntries
    BY <1>0, <1>3, <1>5
  <2>3. \A u : IsCached(u)' => IsCached(u) \/ u = t
    BY <1>0, <1>3, <2>1 DEF IsCached
  <2> QED
    BY <1>3, <2>1, <2>2, <2>3 DEF KeysOnce
<1> QED
  BY <1>4, <1>5

-----------------------------------------------------------------------------
(* The pacer.                                                              *)

(* The starts that are not out of the window, and how many are.            *)
LEMMA RecentStartsAre ==
  ASSUME EmbedderTypeOK, Ascending
  PROVE  /\ RecentStarts \in Seq(Nat) /\ DOMAIN RecentStarts = 1 .. Len(RecentStarts)
         /\ \E k \in 0 .. Len(starts) :
              /\ Len(RecentStarts) = Len(starts) - k
              /\ \A i \in 1 .. Len(RecentStarts) :
                   i + k \in DOMAIN starts /\ RecentStarts[i] = starts[i + k] /\ starts[i + k] > clock - WindowMs
              /\ \A i \in DOMAIN starts : starts[i] > clock - WindowMs => i - k \in 1 .. Len(RecentStarts)
<1> DEFINE n == Len(starts)
           k == Cardinality(Outdated)
<1>1. /\ n \in Nat /\ DOMAIN starts = 1 .. n /\ \A i \in 1 .. n : starts[i] \in Nat
      /\ clock \in Nat /\ WindowMs \in Nat
  BY LimitsAssumption, LenProperties, ElementOfSeq DEF EmbedderTypeOK
<1>2. Outdated \in SUBSET (1 .. n)
  BY <1>1 DEF Outdated
<1>3. \A i, j \in 1 .. n : i <= j /\ j \in Outdated => i \in Outdated
  BY <1>1 DEF Outdated, Ascending
<1> HIDE DEF n
<1>4. k \in 0 .. n /\ \A i \in 1 .. n : i \in Outdated <=> i <= k
  BY <1>1, <1>2, <1>3, Beginning
<1> HIDE DEF k
<1>5. RecentStarts = SubSeq(starts, k + 1, n)
  BY DEF RecentStarts, k, n
<1>6. /\ RecentStarts \in Seq(Nat) /\ Len(RecentStarts) = n - k
      /\ \A i \in 1 .. n - k : RecentStarts[i] = starts[k + i]
  <2>1. k + 1 \in Int /\ n \in Int /\ \A i \in k + 1 .. n : starts[i] \in Nat
    BY <1>1, <1>4
  <2> QED
    BY <1>1, <1>4, <1>5, <2>1, SubSeqProperties
<1>7. \A i \in 1 .. n : starts[i] > clock - WindowMs <=> i > k
  BY <1>1, <1>4 DEF Outdated
<1>8. /\ \A i \in 1 .. n - k : i + k \in 1 .. n /\ RecentStarts[i] = starts[i + k] /\ starts[i + k] > clock - WindowMs
      /\ \A i \in 1 .. n : starts[i] > clock - WindowMs => i - k \in 1 .. n - k
  BY <1>1, <1>4, <1>6, <1>7
<1> QED
  BY <1>1, <1>4, <1>6, <1>8, LenProperties DEF n

(* They are a list of starts like the whole one.                           *)
LEMMA RecentAreKept ==
  ASSUME EmbedderTypeOK, Ascending, StartsKept
  PROVE  /\ \A i, j \in 1 .. Len(RecentStarts) : i <= j => RecentStarts[i] <= RecentStarts[j]
         /\ \E owner \in [1 .. Len(RecentStarts) -> Caller] :
              /\ \A i \in 1 .. Len(RecentStarts) :
                   /\ owner[i] \in Reserved /\ RecentStarts[i] = wakeAt[owner[i]]
                   /\ RecentStarts[i] > clock - WindowMs
              /\ \A c \in Reserved : wakeAt[c] > clock - WindowMs =>
                   \E i \in 1 .. Len(RecentStarts) : owner[i] = c
<1> DEFINE m == Len(RecentStarts)
<1>1. PICK k \in 0 .. Len(starts) :
        /\ m = Len(starts) - k
        /\ \A i \in 1 .. m : i + k \in DOMAIN starts /\ RecentStarts[i] = starts[i + k] /\ starts[i + k] > clock - WindowMs
        /\ \A i \in DOMAIN starts : starts[i] > clock - WindowMs => i - k \in 1 .. m
  BY RecentStartsAre
<1>2. PICK owner \in [DOMAIN starts -> Caller] : StartsOf(owner)
  BY DEF StartsKept
<1>3. Len(starts) \in Nat /\ m \in Nat /\ DOMAIN starts = 1 .. Len(starts)
  BY <1>1, LenProperties DEF EmbedderTypeOK
<1> HIDE DEF m
<1> DEFINE shifted == [i \in 1 .. m |-> owner[i + k]]
<1>4. shifted \in [1 .. m -> Caller] /\ \A i \in 1 .. m : shifted[i] = owner[i + k]
  BY <1>1
<1> HIDE DEF shifted
<1>5. \A i, j \in 1 .. m : i <= j => RecentStarts[i] <= RecentStarts[j]
  <2> SUFFICES ASSUME NEW i \in 1 .. m, NEW j \in 1 .. m, i <= j PROVE RecentStarts[i] <= RecentStarts[j]
    OBVIOUS
  <2>1. i + k <= j + k
    BY <1>1, <1>3
  <2> QED
    BY <1>1, <2>1 DEF Ascending
<1>6. \A i \in 1 .. m : /\ shifted[i] \in Reserved /\ RecentStarts[i] = wakeAt[shifted[i]]
                        /\ RecentStarts[i] > clock - WindowMs
  <2> SUFFICES ASSUME NEW i \in 1 .. m
               PROVE  /\ shifted[i] \in Reserved /\ RecentStarts[i] = wakeAt[shifted[i]]
                      /\ RecentStarts[i] > clock - WindowMs
    OBVIOUS
  <2>1. /\ i + k \in DOMAIN starts /\ RecentStarts[i] = starts[i + k]
        /\ starts[i + k] > clock - WindowMs
    BY <1>1
  <2>2. owner[i + k] \in Reserved /\ starts[i + k] = wakeAt[owner[i + k]]
    BY <1>2, <2>1 DEF StartsOf
  <2>3. shifted[i] = owner[i + k]
    BY <1>4
  <2> QED
    BY <2>1, <2>2, <2>3
<1>7. ASSUME NEW c \in Reserved, wakeAt[c] > clock - WindowMs
      PROVE  \E i \in 1 .. m : shifted[i] = c
  <2>1. PICK j \in DOMAIN starts : owner[j] = c
    BY <1>2, <1>7 DEF StartsOf
  <2>2. starts[j] = wakeAt[c]
    BY <1>2, <2>1 DEF StartsOf
  <2>3. j - k \in 1 .. m
    BY <1>1, <1>7, <2>2
  <2>4. (j - k) + k = j
    BY <1>1, <1>3
  <2> QED
    BY <1>4, <2>1, <2>3, <2>4
<1> QED
  BY <1>4, <1>5, <1>6, <1>7 DEF m

(* The heart of the pacer: of CallsPerWindow reservations one lies a       *)
(* window before the slot that is free next.                               *)
LEMMA SlotIsFree ==
  ASSUME EmbedderTypeOK, PaceInv, NEW others \in SUBSET Reserved, Cardinality(others) >= CallsPerWindow
  PROVE  \E a \in others : wakeAt[a] <= StartAt - WindowMs
<1> DEFINE n == Len(RecentStarts)
           first == IF n < CallsPerWindow THEN 1 ELSE n - CallsPerWindow + 2
<1> SUFFICES ASSUME \A a \in others : ~(wakeAt[a] <= StartAt - WindowMs) PROVE FALSE
  OBVIOUS
<1>1. PICK owner \in [1 .. n -> Caller] :
        /\ \A i \in 1 .. n : owner[i] \in Reserved /\ RecentStarts[i] = wakeAt[owner[i]] /\ RecentStarts[i] > clock - WindowMs
        /\ \A c \in Reserved : wakeAt[c] > clock - WindowMs => \E i \in 1 .. n : owner[i] = c
  BY RecentAreKept DEF PaceInv
<1>2. \A i, j \in 1 .. n : i <= j => RecentStarts[i] <= RecentStarts[j]
  BY RecentAreKept DEF PaceInv
<1>3. /\ n \in Nat /\ \A i \in 1 .. n : RecentStarts[i] \in Nat
      /\ CallsPerWindow \in Nat /\ CallsPerWindow > 0 /\ WindowMs \in Nat /\ clock \in Nat
  <2>1. RecentStarts \in Seq(Nat) /\ DOMAIN RecentStarts = 1 .. Len(RecentStarts)
    BY RecentStartsAre DEF PaceInv
  <2>2. n \in Nat /\ \A i \in 1 .. n : RecentStarts[i] \in Nat
    BY <2>1, LenProperties, ElementOfSeq
  <2> QED
    BY <2>2, LimitsAssumption DEF EmbedderTypeOK
<1>4. others \subseteq Caller /\ \A a \in others : wakeAt[a] \in Nat
  BY DEF Reserved, EmbedderTypeOK
<1>5. StartAt = IF n < CallsPerWindow THEN clock ELSE RecentStarts[n - CallsPerWindow + 1] + WindowMs
  BY DEF StartAt
<1> HIDE DEF n
<1>6. \A a \in others : \E i \in first .. n : owner[i] = a
  <2> SUFFICES ASSUME NEW a \in others PROVE \E i \in first .. n : owner[i] = a
    OBVIOUS
  <2>1. CASE n < CallsPerWindow
    <3>1. wakeAt[a] > clock - WindowMs
      BY <1>3, <1>4, <1>5, <2>1
    <3> QED
      BY <1>1, <2>1, <3>1
  <2>2. CASE n >= CallsPerWindow
    <3> DEFINE last == n - CallsPerWindow + 1
    <3>1. last \in 1 .. n /\ first = last + 1
      BY <1>3, <2>2
    <3>2. wakeAt[a] > RecentStarts[last] /\ RecentStarts[last] > clock - WindowMs
      BY <1>1, <1>3, <1>4, <1>5, <2>2, <3>1
    <3> HIDE DEF last, first
    <3>3. wakeAt[a] > clock - WindowMs
      BY <1>3, <1>4, <3>1, <3>2
    <3>4. PICK i \in 1 .. n : owner[i] = a
      BY <1>1, <3>3
    <3>5. RecentStarts[i] > RecentStarts[last]
      BY <1>1, <3>2, <3>4
    <3>6. ~(i <= last)
      BY <1>2, <1>3, <3>1, <3>5
    <3> QED
      BY <1>3, <3>1, <3>4, <3>6
  <2> QED
    BY <1>3, <2>1, <2>2
<1>7. Cardinality(first .. n) < CallsPerWindow /\ IsFiniteSet(first .. n)
  <2>1. first \in Int /\ n \in Int
    BY <1>3
  <2>2. IsFiniteSet(first .. n) /\ Cardinality(first .. n) = IF first > n THEN 0 ELSE n - first + 1
    BY <2>1, FS_Interval
  <2> QED
    BY <1>3, <2>2
<1> HIDE DEF first
<1>8. IsFiniteSet(others) /\ Cardinality(others) \in Nat
  BY FS_Subset, FS_CardinalityType DEF PaceInv
<1> DEFINE place == [a \in others |-> CHOOSE i \in first .. n : owner[i] = a]
<1>9. place \in [others -> first .. n] /\ \A a \in others : owner[place[a]] = a
  BY <1>6
<1> HIDE DEF place
<1>10. Cardinality(first .. n) < Cardinality(others)
  <2>1. Cardinality(first .. n) \in Nat
    BY <1>7, FS_CardinalityType
  <2> QED
    BY <1>3, <1>7, <1>8, <2>1
<1>11. \E x, y \in others : x # y /\ place[x] = place[y]
  <2> DEFINE places == first .. n
  <2>1. IsFiniteSet(others) /\ IsFiniteSet(places) /\ Cardinality(places) < Cardinality(others) /\ place \in [others -> places]
    BY <1>7, <1>8, <1>9, <1>10
  <2> HIDE DEF places
  <2> QED
    BY <2>1, FS_PigeonHole
<1> QED
  BY <1>9, <1>11

(* The next free slot is not in the past.                                  *)
LEMMA StartAtIs ==
  ASSUME EmbedderTypeOK, PaceInv
  PROVE  StartAt \in Nat /\ StartAt >= clock
<1> DEFINE n == Len(RecentStarts)
           last == n - CallsPerWindow + 1
<1>1. clock \in Nat /\ WindowMs \in Nat /\ CallsPerWindow \in Nat /\ CallsPerWindow > 0
  BY LimitsAssumption DEF EmbedderTypeOK
<1>2. RecentStarts \in Seq(Nat) /\ n \in Nat
  BY RecentStartsAre, LenProperties DEF PaceInv
<1>3. \A i \in 1 .. n : RecentStarts[i] \in Nat /\ RecentStarts[i] > clock - WindowMs
  BY <1>2, RecentAreKept, ElementOfSeq DEF PaceInv
<1>4. StartAt = IF n < CallsPerWindow THEN clock ELSE RecentStarts[last] + WindowMs
  BY DEF StartAt
<1> HIDE DEF n
<1>5. n >= CallsPerWindow => last \in 1 .. n
  BY <1>1, <1>2
<1> HIDE DEF last
<1>6. CASE n < CallsPerWindow
  BY <1>1, <1>4, <1>6
<1>7. CASE n >= CallsPerWindow
  <2> DEFINE oldest == RecentStarts[last]
  <2>1. oldest \in Nat /\ oldest > clock - WindowMs
    BY <1>3, <1>5, <1>7
  <2>2. StartAt = oldest + WindowMs
    BY <1>1, <1>2, <1>4, <1>7
  <2> HIDE DEF oldest
  <2> QED
    BY <1>1, <2>1, <2>2
<1> QED
  BY <1>1, <1>2, <1>6, <1>7

(* push() and sort(): the new start stands where it belongs.               *)
LEMMA ReservedStartsAre ==
  ASSUME EmbedderTypeOK, PaceInv
  PROVE  \E p \in 1 .. Len(RecentStarts) + 1 :
           /\ StartsReserved \in Seq(Nat) /\ DOMAIN StartsReserved = 1 .. Len(RecentStarts) + 1
           /\ \A i \in 1 .. Len(RecentStarts) + 1 :
                StartsReserved[i] = IF i < p THEN RecentStarts[i]
                                    ELSE IF i = p THEN StartAt ELSE RecentStarts[i - 1]
           /\ \A i \in 1 .. Len(RecentStarts) : RecentStarts[i] <= StartAt <=> i < p
<1> DEFINE n == Len(RecentStarts)
           k == Cardinality(NotLater)
<1>1. RecentStarts \in Seq(Nat) /\ n \in Nat /\ DOMAIN RecentStarts = 1 .. n
  BY RecentStartsAre, LenProperties DEF PaceInv
<1>2. \A i \in 1 .. n : RecentStarts[i] \in Nat
  BY <1>1, ElementOfSeq
<1>3. \A i, j \in 1 .. n : i <= j => RecentStarts[i] <= RecentStarts[j]
  BY RecentAreKept DEF PaceInv
<1>4. StartAt \in Nat
  BY StartAtIs
<1> HIDE DEF n
<1>5. NotLater = {i \in 1 .. n : RecentStarts[i] <= StartAt}
  BY <1>1 DEF NotLater
<1>6. NotLater \in SUBSET (1 .. n) /\ \A i, j \in 1 .. n : i <= j /\ j \in NotLater => i \in NotLater
  BY <1>1, <1>2, <1>3, <1>4, <1>5
<1>7. k \in 0 .. n /\ \A i \in 1 .. n : i \in NotLater <=> i <= k
  BY <1>1, <1>6, Beginning
<1> HIDE DEF k
<1>8. StartsReserved = InsertAt(RecentStarts, k + 1, StartAt)
  BY DEF StartsReserved, k
<1>9. k + 1 \in 1 .. Len(RecentStarts) + 1
  BY <1>1, <1>7 DEF n
<1>10. /\ StartsReserved \in Seq(Nat) /\ Len(StartsReserved) = Len(RecentStarts) + 1
       /\ \A i \in 1 .. Len(RecentStarts) + 1 :
            StartsReserved[i] = IF i < k + 1 THEN RecentStarts[i]
                                ELSE IF i = k + 1 THEN StartAt ELSE RecentStarts[i - 1]
  <2> DEFINE S == Nat
             place == k + 1
  <2>1. RecentStarts \in Seq(S) /\ place \in 1 .. Len(RecentStarts) + 1 /\ StartAt \in S
    BY <1>1, <1>4, <1>9
  <2> HIDE DEF S, place
  <2>2. /\ InsertAt(RecentStarts, place, StartAt) \in Seq(S)
        /\ Len(InsertAt(RecentStarts, place, StartAt)) = Len(RecentStarts) + 1
        /\ \A i \in 1 .. Len(RecentStarts) + 1 :
             InsertAt(RecentStarts, place, StartAt)[i]
               = IF i < place THEN RecentStarts[i] ELSE IF i = place THEN StartAt ELSE RecentStarts[i - 1]
    BY <2>1, InsertedAt
  <2> QED
    BY <1>8, <2>2 DEF S, place
<1>11. DOMAIN StartsReserved = 1 .. Len(RecentStarts) + 1
  BY <1>10, LenProperties
<1>12. \A i \in 1 .. Len(RecentStarts) : RecentStarts[i] <= StartAt <=> i < k + 1
  BY <1>1, <1>5, <1>7 DEF n
<1> QED
  BY <1>9, <1>10, <1>11, <1>12

(* Steps that reserve nothing: time passes, or a skipped search leaves the *)
(* list filtered.                                                          *)
LEMMA StartsStay ==
  ASSUME EmbedderTypeOK, PaceInv, clock' \in Nat, clock' >= clock,
         wakeAt' = wakeAt, Reserved' = Reserved, starts' = starts
  PROVE  Ascending' /\ StartsKept' /\ Apart' /\ IsFiniteSet(Reserved)'
<1>1. Ascending'
  BY DEF PaceInv, Ascending
<1>2. Apart' /\ IsFiniteSet(Reserved)'
  BY DEF PaceInv, Apart
<1>3. PICK owner \in [DOMAIN starts -> Caller] : StartsOf(owner)
  BY DEF PaceInv, StartsKept
<1>4. \A c \in Reserved : wakeAt[c] \in Nat
  <2>1. Reserved \subseteq Caller
    BY DEF Reserved, EmbedderTypeOK
  <2> QED
    BY <2>1 DEF EmbedderTypeOK
<1>5. \A c \in Reserved : wakeAt[c] > clock' - WindowMs => wakeAt[c] > clock - WindowMs
  <2>1. clock \in Nat /\ WindowMs \in Nat
    BY LimitsAssumption DEF EmbedderTypeOK
  <2> QED
    BY <1>4, <2>1
<1>6. StartsOf(owner)'
  <2>1. \A i \in DOMAIN starts : owner[i] \in Reserved' /\ starts[i] = wakeAt[owner[i]]
    BY <1>3 DEF StartsOf
  <2>2. \A c \in Reserved' : wakeAt[c] > clock' - WindowMs => \E i \in DOMAIN starts : owner[i] = c
    BY <1>3, <1>5 DEF StartsOf
  <2> QED
    BY <2>1, <2>2 DEF StartsOf
<1>7. StartsKept'
  BY <1>3, <1>6 DEF StartsKept
<1> QED
  BY <1>1, <1>2, <1>7

LEMMA StartsFiltered ==
  ASSUME EmbedderTypeOK, PaceInv, clock' = clock,
         wakeAt' = wakeAt, Reserved' = Reserved, starts' = RecentStarts
  PROVE  Ascending' /\ StartsKept' /\ Apart' /\ IsFiniteSet(Reserved)'
<1> DEFINE n == Len(RecentStarts)
<1>1. PICK owner \in [1 .. n -> Caller] :
        /\ \A i \in 1 .. n : owner[i] \in Reserved /\ RecentStarts[i] = wakeAt[owner[i]] /\ RecentStarts[i] > clock - WindowMs
        /\ \A c \in Reserved : wakeAt[c] > clock - WindowMs => \E i \in 1 .. n : owner[i] = c
  BY RecentAreKept DEF PaceInv
<1>2. \A i, j \in 1 .. n : i <= j => RecentStarts[i] <= RecentStarts[j]
  BY RecentAreKept DEF PaceInv
<1>3. DOMAIN starts' = 1 .. n
  BY RecentStartsAre DEF PaceInv
<1> HIDE DEF n
<1>4. Ascending'
  BY <1>2, <1>3 DEF Ascending
<1>5. Apart' /\ IsFiniteSet(Reserved)'
  BY DEF PaceInv, Apart
<1>6. StartsOf(owner)'
  BY <1>1, <1>3 DEF StartsOf
<1>7. StartsKept'
  BY <1>1, <1>3, <1>6 DEF StartsKept
<1> QED
  BY <1>4, <1>5, <1>7

(* A reservation keeps the list one of reservations, and no window gets    *)
(* more slots than it may.                                                 *)
LEMMA SlotIsListed ==
  ASSUME EmbedderTypeOK, PaceInv, NEW c \in Caller, c \notin Reserved, clock' = clock,
         wakeAt' = [wakeAt EXCEPT ![c] = StartAt], Reserved' = Reserved \cup {c}, starts' = StartsReserved
  PROVE  Ascending' /\ StartsKept'
<1> DEFINE n == Len(RecentStarts)
<1>1. PICK owner \in [1 .. n -> Caller] :
        /\ \A i \in 1 .. n : owner[i] \in Reserved /\ RecentStarts[i] = wakeAt[owner[i]] /\ RecentStarts[i] > clock - WindowMs
        /\ \A d \in Reserved : wakeAt[d] > clock - WindowMs => \E i \in 1 .. n : owner[i] = d
  BY RecentAreKept DEF PaceInv
<1>2. \A i, j \in 1 .. n : i <= j => RecentStarts[i] <= RecentStarts[j]
  BY RecentAreKept DEF PaceInv
<1>3. RecentStarts \in Seq(Nat) /\ n \in Nat
  BY RecentStartsAre, LenProperties DEF PaceInv
<1>4. \A i \in 1 .. n : RecentStarts[i] \in Nat
  BY <1>3, ElementOfSeq
<1>5. StartAt \in Nat
  BY StartAtIs
<1>6. PICK p \in 1 .. n + 1 :
        /\ DOMAIN StartsReserved = 1 .. n + 1
        /\ \A i \in 1 .. n + 1 : StartsReserved[i] = IF i < p THEN RecentStarts[i]
                                                     ELSE IF i = p THEN StartAt ELSE RecentStarts[i - 1]
        /\ \A i \in 1 .. n : RecentStarts[i] <= StartAt <=> i < p
  BY ReservedStartsAre
<1> HIDE DEF n
<1>7. DOMAIN starts' = 1 .. n + 1
  BY <1>6
<1>8. /\ \A i \in 1 .. n + 1 : i < p => i \in 1 .. n
      /\ \A i \in 1 .. n + 1 : i > p => i - 1 \in 1 .. n /\ ~(i - 1 < p)
      /\ \A i \in 1 .. n : i < p => i \in 1 .. n + 1
      /\ \A i \in 1 .. n : ~(i < p) => i + 1 \in 1 .. n + 1 /\ i + 1 > p /\ (i + 1) - 1 = i
      /\ \A i \in 1 .. n + 1 : i < p \/ i = p \/ i > p
      /\ \A i \in 1 .. n + 1 : i > p => ~(i < p) /\ i # p
      /\ ~(p < p)
  BY <1>3
<1>9. PICK listed \in [1 .. n + 1 -> Caller] :
        \A i \in 1 .. n + 1 : listed[i] = IF i < p THEN owner[i] ELSE IF i = p THEN c ELSE owner[i - 1]
  <2> DEFINE l == [i \in 1 .. n + 1 |-> IF i < p THEN owner[i] ELSE IF i = p THEN c ELSE owner[i - 1]]
  <2>1. \A i \in 1 .. n + 1 : l[i] = IF i < p THEN owner[i] ELSE IF i = p THEN c ELSE owner[i - 1]
    OBVIOUS
  <2>2. \A i \in 1 .. n + 1 : l[i] \in Caller
    BY <1>1, <1>8
  <2>3. l \in [1 .. n + 1 -> Caller]
    BY <2>2
  <2> HIDE DEF l
  <2> QED
    BY <2>1, <2>3
<1>10. /\ \A i \in 1 .. n + 1 : i < p => listed[i] = owner[i] /\ starts'[i] = RecentStarts[i]
       /\ listed[p] = c /\ starts'[p] = StartAt
       /\ \A i \in 1 .. n + 1 : i > p => listed[i] = owner[i - 1] /\ starts'[i] = RecentStarts[i - 1]
  BY <1>6, <1>8, <1>9
<1>11. Ascending'
  <2> SUFFICES ASSUME NEW i \in 1 .. n + 1, NEW j \in 1 .. n + 1, i <= j PROVE starts'[i] <= starts'[j]
    BY <1>7 DEF Ascending
  <2>1. CASE i < p /\ j < p
    BY <1>2, <1>8, <1>10, <2>1
  <2>2. CASE i < p /\ j = p
    BY <1>6, <1>8, <1>10, <2>2
  <2>3. CASE i < p /\ j > p
    <3>1. i \in 1 .. n /\ j - 1 \in 1 .. n /\ i <= j - 1
      BY <1>3, <1>8, <2>3
    <3> QED
      BY <1>2, <1>10, <2>3, <3>1
  <2>4. CASE i = p /\ j = p
    BY <1>5, <1>10, <2>4
  <2>5. CASE i = p /\ j > p
    <3>1. j - 1 \in 1 .. n /\ ~(RecentStarts[j - 1] <= StartAt)
      BY <1>6, <1>8, <2>5
    <3> QED
      BY <1>4, <1>5, <1>10, <2>5, <3>1
  <2>6. CASE i > p /\ j > p
    <3>1. i - 1 \in 1 .. n /\ j - 1 \in 1 .. n /\ i - 1 <= j - 1
      BY <1>3, <1>8, <2>6
    <3> QED
      BY <1>2, <1>10, <2>6, <3>1
  <2> QED
    BY <1>3, <1>8, <2>1, <2>2, <2>3, <2>4, <2>5, <2>6
<1>12. /\ wakeAt'[c] = StartAt
       /\ \A d \in Reserved : wakeAt'[d] = wakeAt[d] /\ d \in Reserved'
       /\ c \in Reserved'
  <2>1. Reserved \subseteq Caller
    BY DEF Reserved, EmbedderTypeOK
  <2> QED
    BY <2>1 DEF EmbedderTypeOK
<1>13. ASSUME NEW i \in 1 .. n + 1 PROVE listed[i] \in Reserved' /\ starts'[i] = wakeAt'[listed[i]]
  <2>1. CASE i < p
    BY <1>1, <1>8, <1>10, <1>12, <2>1
  <2>2. CASE i = p
    BY <1>10, <1>12, <2>2
  <2>3. CASE i > p
    BY <1>1, <1>8, <1>10, <1>12, <2>3
  <2> QED
    BY <1>8, <2>1, <2>2, <2>3
<1>14. ASSUME NEW d \in Reserved', wakeAt'[d] > clock' - WindowMs
       PROVE  \E i \in 1 .. n + 1 : listed[i] = d
  <2>1. CASE d = c
    BY <1>10, <2>1
  <2>2. CASE d # c
    <3>1. d \in Reserved /\ wakeAt[d] > clock - WindowMs
      BY <1>12, <1>14, <2>2
    <3>2. PICK i \in 1 .. n : owner[i] = d
      BY <1>1, <3>1
    <3>3. CASE i < p
      BY <1>8, <1>10, <3>2, <3>3
    <3>4. CASE ~(i < p)
      <4>1. i + 1 \in 1 .. n + 1 /\ listed[i + 1] = owner[i]
        BY <1>8, <1>10, <3>4
      <4> QED
        BY <3>2, <4>1
    <3> QED
      BY <3>3, <3>4
  <2> QED
    BY <2>1, <2>2
<1>15. StartsOf(listed)'
  <2>1. \A d \in Reserved' : wakeAt'[d] > clock' - WindowMs => \E i \in 1 .. n + 1 : listed[i] = d
    BY <1>14
  <2> QED
    BY <1>7, <1>13, <2>1 DEF StartsOf
<1> QED
  BY <1>7, <1>9, <1>11, <1>15 DEF StartsKept

LEMMA SlotIsApart ==
  ASSUME EmbedderTypeOK, PaceInv, NEW c \in Caller, c \notin Reserved,
         wakeAt' = [wakeAt EXCEPT ![c] = StartAt], Reserved' = Reserved \cup {c}
  PROVE  Apart' /\ IsFiniteSet(Reserved)'
<1>1. IsFiniteSet(Reserved')
  BY FS_AddElement DEF PaceInv
<1>2. /\ wakeAt'[c] = StartAt /\ \A d \in Reserved : wakeAt'[d] = wakeAt[d] /\ wakeAt[d] \in Nat
  <2>1. Reserved \subseteq Caller
    BY DEF Reserved, EmbedderTypeOK
  <2> QED
    BY <2>1 DEF EmbedderTypeOK
<1>3. CallsPerWindow \in Nat /\ WindowMs \in Nat
  BY LimitsAssumption
<1>4. ASSUME NEW slots \in SUBSET Reserved', Cardinality(slots) > CallsPerWindow
      PROVE  \E a, b \in slots : wakeAt'[b] - wakeAt'[a] >= WindowMs
  <2>1. CASE c \notin slots
    <3>1. slots \in SUBSET Reserved
      BY <2>1
    <3>2. PICK a \in slots, b \in slots : wakeAt[b] - wakeAt[a] >= WindowMs
      BY <1>4, <3>1 DEF PaceInv, Apart
    <3>3. wakeAt'[a] = wakeAt[a] /\ wakeAt'[b] = wakeAt[b]
      BY <1>2, <3>1
    <3> QED
      BY <3>2, <3>3
  <2>2. CASE c \in slots
    <3> DEFINE others == slots \ {c}
    <3>1. IsFiniteSet(slots) /\ Cardinality(slots) \in Nat
      BY <1>1, FS_Subset, FS_CardinalityType
    <3>2. Cardinality(others) = Cardinality(slots) - 1
      BY <2>2, <3>1, FS_RemoveElement
    <3>3. Cardinality(others) >= CallsPerWindow
      BY <1>3, <1>4, <3>1, <3>2
    <3>4. others \in SUBSET Reserved
      OBVIOUS
    <3> HIDE DEF others
    <3>5. PICK a \in others : wakeAt[a] <= StartAt - WindowMs
      BY <3>3, <3>4, SlotIsFree
    <3>6. a \in slots /\ wakeAt'[a] = wakeAt[a] /\ wakeAt[a] \in Nat
      BY <1>2, <3>4 DEF others
    <3>7. wakeAt'[c] - wakeAt'[a] >= WindowMs
      BY <1>2, <1>3, <3>5, <3>6, StartAtIs
    <3> QED
      BY <2>2, <3>6, <3>7
  <2> QED
    BY <2>1, <2>2
<1> QED
  BY <1>1, <1>4 DEF Apart

-----------------------------------------------------------------------------
(* The steps.                                                              *)

LEMMA EmbedderStart ==
  EmbedderInit => EmbedderInv
<1> SUFFICES ASSUME EmbedderInit PROVE EmbedderInv
  OBVIOUS
<1>1. EmbedderTypeOK
  <2>1. cache \in Seq([text : Text, at : Nat]) /\ starts \in Seq(Nat)
    BY DEF EmbedderInit
  <2>2. Len(cache) <= CacheEntries
    BY EmptySeq, LimitsAssumption DEF EmbedderInit
  <2> QED
    BY <2>1, <2>2 DEF EmbedderTypeOK, EmbedderInit
<1>2. DOMAIN starts = {} /\ DOMAIN cache = {}
  BY DEF EmbedderInit
<1>3. Reserved = {} /\ called = {}
  BY DEF EmbedderInit, Reserved
<1>4. KeysOnce /\ PaidInv
  BY <1>2 DEF KeysOnce, PaidInv, Paying, EmbedderInit
<1>5. Ascending /\ Punctual
  BY <1>2, <1>3 DEF Ascending, Punctual, EmbedderInit
<1>6. StartsKept
  <2> DEFINE owner == [i \in DOMAIN starts |-> NoCaller]
  <2>1. owner \in [DOMAIN starts -> Caller]
    BY <1>2
  <2>2. StartsOf(owner)
    BY <1>2, <1>3 DEF StartsOf
  <2> QED
    BY <2>1, <2>2 DEF StartsKept
<1>7. Apart
  <2>1. \A slots \in SUBSET Reserved : slots = {}
    BY <1>3
  <2>2. ~(Cardinality({}) > CallsPerWindow)
    BY FS_EmptySet, LimitsAssumption
  <2> QED
    BY <2>1, <2>2 DEF Apart
<1>8. IsFiniteSet(called) /\ IsFiniteSet(Reserved)
  BY <1>3, FS_EmptySet
<1> QED
  BY <1>1, <1>4, <1>5, <1>6, <1>7, <1>8 DEF EmbedderInv, PaceInv

(* A step that neither reserves nor calls leaves the pacer as it was, or   *)
(* its list filtered.                                                      *)
LEMMA PaceStays ==
  ASSUME EmbedderTypeOK, PaceInv, clock' = clock, wakeAt' = wakeAt, called' = called,
         starts' \in {starts, RecentStarts},
         \A c \in Caller : doing'[c] = "sleeping" <=> doing[c] = "sleeping",
         \A c \in Caller : doing[c] # "idle" => doing'[c] # "idle"
  PROVE  PaceInv'
<1>1. Reserved' = Reserved
  BY DEF Reserved
<1>2. Ascending' /\ StartsKept' /\ Apart' /\ IsFiniteSet(Reserved)'
  <2>1. clock' \in Nat /\ clock' >= clock
    BY DEF EmbedderTypeOK
  <2>2. CASE starts' = starts
    BY <1>1, <2>1, <2>2, StartsStay
  <2>3. CASE starts' = RecentStarts
    BY <1>1, <2>3, StartsFiltered
  <2> QED
    BY <2>2, <2>3
<1>3. Punctual'
  <2>1. \A call \in called : call[1] \in Caller
    BY DEF EmbedderTypeOK
  <2> QED
    BY <2>1 DEF Punctual, PaceInv
<1> QED
  BY <1>1, <1>2, <1>3 DEF PaceInv

(* A search that neither reserves nor calls: its caller does not pay.      *)
LEMMA AskedForFree ==
  ASSUME EmbedderInv, NEW c \in Caller, Hit(c) \/ Join(c) \/ Skip(c)
  PROVE  EmbedderInv'
<1> USE DEF EmbedderInv
<1>1. /\ doing[c] = "idle" /\ cache' = Touched(text[c])
      /\ UNCHANGED <<clock, inFlight, blockedUntil, text, wakeAt, called>>
      /\ starts' \in {starts, RecentStarts}
      /\ \E now \in {"joined", "done"} : doing' = [doing EXCEPT ![c] = now]
      /\ \/ reply' = reply
         \/ \E outcome \in {"vector", "busy"} : reply' = [reply EXCEPT ![c] = outcome]
  BY DEF Hit, Join, Skip, Asks, StartsWhenBusy
<1>2. text[c] \in Text
  BY DEF EmbedderTypeOK
<1>3. /\ cache' \in Seq(Entry) /\ Len(cache') <= CacheEntries /\ KeysOnce'
      /\ \A u : IsCached(u)' => IsCached(u)
  BY <1>1, <1>2, TouchedIs
<1>4. starts' \in Seq(Nat)
  BY <1>1, RecentStartsAre DEF EmbedderTypeOK, PaceInv
<1>5. EmbedderTypeOK'
  <2>1. doing' \in [Caller -> {"idle", "sleeping", "calling", "joined", "done"}]
    BY <1>1 DEF EmbedderTypeOK
  <2>2. reply' \in [Caller -> {"none", "vector", "busy", "error"}]
    BY <1>1 DEF EmbedderTypeOK
  <2> QED
    BY <1>1, <1>3, <1>4, <2>1, <2>2 DEF EmbedderTypeOK, Entry
<1>6. \A d \in Caller : /\ doing'[d] = "sleeping" <=> doing[d] = "sleeping"
                        /\ doing'[d] = "calling" <=> doing[d] = "calling"
                        /\ doing[d] # "idle" => doing'[d] # "idle"
  BY <1>1 DEF EmbedderTypeOK
<1>7. PaidInv'
  <2> SUFFICES ASSUME NEW d \in Caller, Paying(d)' PROVE inFlight'[text'[d]] = d /\ ~IsCached(text[d])'
    BY <1>1 DEF PaidInv
  <2>1. Paying(d)
    BY <1>6 DEF Paying
  <2> QED
    BY <1>1, <1>3, <2>1 DEF PaidInv
<1>8. PaceInv'
  BY <1>1, <1>6, PaceStays
<1> QED
  BY <1>3, <1>5, <1>7, <1>8

LEMMA CallersAre ==
  ASSUME NEW c, called' = called \cup {<<c, clock>>}
  PROVE  {call[1] : call \in called'} = {call[1] : call \in called} \cup {c}
<1>1. ASSUME NEW d \in {call[1] : call \in called'} PROVE d \in {call[1] : call \in called} \cup {c}
  <2>1. PICK call \in called' : d = call[1]
    OBVIOUS
  <2>2. call \in called \/ call = <<c, clock>>
    OBVIOUS
  <2> QED
    BY <2>1, <2>2
<1>2. c \in {call[1] : call \in called'}
  <2>1. <<c, clock>> \in called' /\ <<c, clock>>[1] = c
    OBVIOUS
  <2> QED
    BY <2>1
<1>3. {call[1] : call \in called} \subseteq {call[1] : call \in called'}
  OBVIOUS
<1> QED
  BY <1>1, <1>2, <1>3

LEMMA ReserveKeeps ==
  ASSUME EmbedderInv, NEW c \in Caller, Reserve(c)
  PROVE  EmbedderInv'
<1> USE DEF EmbedderInv
<1>1. /\ doing[c] = "idle" /\ ~Fresh(text[c]) /\ inFlight[text[c]] = NoCaller
      /\ cache' = Touched(text[c]) /\ starts' = StartsReserved
      /\ wakeAt' = [wakeAt EXCEPT ![c] = StartAt]
      /\ inFlight' = [inFlight EXCEPT ![text[c]] = c]
      /\ UNCHANGED <<clock, blockedUntil, text, reply>>
  BY DEF Reserve, Asks, Misses
<1>2. \/ /\ StartAt > clock /\ called' = called
         /\ doing' = [doing EXCEPT ![c] = "sleeping"]
      \/ /\ ~(StartAt > clock) /\ called' = called \cup {<<c, clock>>}
         /\ doing' = [doing EXCEPT ![c] = "calling"]
  BY DEF Reserve
<1>3. text[c] \in Text /\ clock \in Nat
  BY DEF EmbedderTypeOK
<1>4. /\ cache' \in Seq(Entry) /\ Len(cache') <= CacheEntries /\ KeysOnce'
      /\ \A u : IsCached(u)' => IsCached(u)
      /\ ~IsCached(text[c])'
  BY <1>1, <1>3, TouchedIs
<1>5. StartAt \in Nat /\ StartAt >= clock
  BY StartAtIs
<1>6. starts' \in Seq(Nat)
  BY <1>1, ReservedStartsAre
<1>7. EmbedderTypeOK'
  <2>1. doing' \in [Caller -> {"idle", "sleeping", "calling", "joined", "done"}]
    BY <1>2 DEF EmbedderTypeOK
  <2>2. called' \in SUBSET (Caller \X Nat)
    BY <1>2, <1>3 DEF EmbedderTypeOK
  <2>3. inFlight' \in [Text -> Caller \cup {NoCaller}]
    BY <1>1 DEF EmbedderTypeOK
  <2>4. wakeAt' \in [Caller -> Nat]
    BY <1>1, <1>5 DEF EmbedderTypeOK
  <2> QED
    BY <1>1, <1>4, <1>6, <2>1, <2>2, <2>3, <2>4 DEF EmbedderTypeOK, Entry
<1>8. \A d \in Caller : d # c => doing'[d] = doing[d] /\ wakeAt'[d] = wakeAt[d]
  BY <1>1, <1>2 DEF EmbedderTypeOK
<1>9. wakeAt'[c] = StartAt /\ (doing'[c] = "sleeping" \/ doing'[c] = "calling")
  BY <1>1, <1>2 DEF EmbedderTypeOK
<1>10. \A call \in called : call[1] \in Caller /\ call[1] # c
  <2>1. \A call \in called : doing[call[1]] # "idle"
    BY DEF PaceInv, Punctual
  <2> QED
    BY <1>1, <2>1 DEF EmbedderTypeOK
<1>11. c \notin Reserved
  BY <1>1, <1>10 DEF Reserved
<1>12. Reserved' = Reserved \cup {c}
  <2>1. CASE called' = called /\ doing' = [doing EXCEPT ![c] = "sleeping"]
    <3>0. \A d \in Caller : doing'[d] = IF d = c THEN "sleeping" ELSE doing[d]
      BY <2>1 DEF EmbedderTypeOK
    <3>1. {d \in Caller : doing'[d] = "sleeping"} = {d \in Caller : doing[d] = "sleeping"} \cup {c}
      BY <3>0
    <3> QED
      BY <2>1, <3>1 DEF Reserved
  <2>2. CASE called' = called \cup {<<c, clock>>} /\ doing' = [doing EXCEPT ![c] = "calling"]
    <3>1. {d \in Caller : doing'[d] = "sleeping"} = {d \in Caller : doing[d] = "sleeping"}
      BY <1>1, <2>2 DEF EmbedderTypeOK
    <3>2. {call[1] : call \in called'} = {call[1] : call \in called} \cup {c}
      BY <2>2, CallersAre
    <3> QED
      BY <3>1, <3>2 DEF Reserved
  <2> QED
    BY <1>2, <2>1, <2>2
<1>13. PaceInv'
  <2>1. Ascending' /\ StartsKept' /\ Apart' /\ IsFiniteSet(Reserved)'
    BY <1>1, <1>11, <1>12, SlotIsListed, SlotIsApart
  <2>2. IsFiniteSet(called')
    BY <1>2, FS_AddElement DEF PaceInv
  <2>3. \A d \in Caller : doing'[d] = "sleeping" => clock' <= wakeAt'[d]
    BY <1>1, <1>5, <1>8, <1>9 DEF PaceInv, Punctual
  <2>4. \A call \in called : call[2] = wakeAt'[call[1]] /\ doing'[call[1]] \notin {"idle", "sleeping"}
    BY <1>8, <1>10 DEF PaceInv, Punctual
  <2>5. CASE called' = called
    BY <2>1, <2>2, <2>3, <2>4, <2>5 DEF PaceInv, Punctual
  <2>6. CASE ~(StartAt > clock) /\ called' = called \cup {<<c, clock>>} /\ doing' = [doing EXCEPT ![c] = "calling"]
    <3>1. clock = wakeAt'[c] /\ doing'[c] = "calling"
      BY <1>3, <1>5, <1>9, <2>6 DEF EmbedderTypeOK
    <3>2. \A call \in called' : call[2] = wakeAt'[call[1]] /\ doing'[call[1]] \notin {"idle", "sleeping"}
      BY <2>4, <2>6, <3>1
    <3> QED
      BY <2>1, <2>2, <2>3, <3>2 DEF PaceInv, Punctual
  <2> QED
    BY <1>2, <2>5, <2>6
<1>14. PaidInv'
  <2> SUFFICES ASSUME NEW d \in Caller, Paying(d)' PROVE inFlight'[text[d]] = d /\ ~IsCached(text[d])'
    BY <1>1 DEF PaidInv
  <2>1. CASE d = c
    BY <1>1, <1>3, <1>4, <2>1 DEF EmbedderTypeOK
  <2>2. CASE d # c
    <3>1. Paying(d)
      BY <1>8, <2>2 DEF Paying
    <3>2. inFlight[text[d]] = d /\ ~IsCached(text[d])
      BY <3>1 DEF PaidInv
    <3>3. text[d] # text[c]
      BY <1>1, <3>2, LimitsAssumption
    <3> QED
      BY <1>1, <1>4, <3>2, <3>3 DEF EmbedderTypeOK
  <2> QED
    BY <2>1, <2>2
<1> QED
  BY <1>4, <1>7, <1>13, <1>14

LEMMA WakeKeeps ==
  ASSUME EmbedderInv, NEW c \in Caller, Wake(c)
  PROVE  EmbedderInv'
<1> USE DEF EmbedderInv
<1>1. /\ doing[c] = "sleeping" /\ clock >= wakeAt[c] /\ called' = called \cup {<<c, clock>>}
      /\ doing' = [doing EXCEPT ![c] = "calling"]
      /\ UNCHANGED <<clock, cache, inFlight, starts, blockedUntil, text, wakeAt, reply>>
  BY DEF Wake
<1>2. clock \in Nat /\ wakeAt[c] \in Nat
  BY DEF EmbedderTypeOK
<1>3. clock = wakeAt[c]
  BY <1>1, <1>2 DEF PaceInv, Punctual
<1>4. EmbedderTypeOK'
  <2>1. doing' \in [Caller -> {"idle", "sleeping", "calling", "joined", "done"}]
    BY <1>1 DEF EmbedderTypeOK
  <2>2. called' \in SUBSET (Caller \X Nat)
    BY <1>1, <1>2 DEF EmbedderTypeOK
  <2> QED
    BY <1>1, <2>1, <2>2 DEF EmbedderTypeOK
<1>5. doing'[c] = "calling" /\ \A d \in Caller : d # c => doing'[d] = doing[d]
  BY <1>1 DEF EmbedderTypeOK
<1>6. Reserved' = Reserved
  <2>1. {d \in Caller : doing'[d] = "sleeping"} = {d \in Caller : doing[d] = "sleeping"} \ {c}
    BY <1>5
  <2>2. {call[1] : call \in called'} = {call[1] : call \in called} \cup {c}
    BY <1>1, CallersAre
  <2>3. c \in {d \in Caller : doing[d] = "sleeping"}
    BY <1>1
  <2> QED
    BY <2>1, <2>2, <2>3 DEF Reserved
<1>7. PaceInv'
  <2>1. Ascending' /\ StartsKept' /\ Apart' /\ IsFiniteSet(Reserved)'
    BY <1>1, <1>2, <1>6, StartsStay
  <2>2. IsFiniteSet(called')
    BY <1>1, FS_AddElement DEF PaceInv
  <2>3. \A d \in Caller : doing'[d] = "sleeping" => clock <= wakeAt[d]
    BY <1>5 DEF PaceInv, Punctual
  <2>4. \A call \in called : call[1] \in Caller
    BY DEF EmbedderTypeOK
  <2>5. \A call \in called : call[2] = wakeAt[call[1]] /\ doing'[call[1]] \notin {"idle", "sleeping"}
    BY <1>5, <2>4 DEF PaceInv, Punctual
  <2>6. \A call \in called' : call[2] = wakeAt[call[1]] /\ doing'[call[1]] \notin {"idle", "sleeping"}
    BY <1>1, <1>3, <1>5, <2>5
  <2> QED
    BY <1>1, <2>1, <2>2, <2>3, <2>6 DEF PaceInv, Punctual
<1>8. PaidInv'
  <2>1. \A d \in Caller : Paying(d)' => Paying(d)
    BY <1>1, <1>5 DEF Paying
  <2>2. \A u : IsCached(u)' <=> IsCached(u)
    BY <1>1 DEF IsCached
  <2> QED
    BY <1>1, <2>1, <2>2 DEF PaidInv
<1>9. KeysOnce'
  BY <1>1 DEF KeysOnce
<1> QED
  BY <1>4, <1>7, <1>8, <1>9

LEMMA AnswerKeeps ==
  ASSUME EmbedderInv, NEW c \in Caller, Answer(c)
  PROVE  EmbedderInv'
<1> USE DEF EmbedderInv
<1>1. PICK outcome \in {"vector", "error"} :
        /\ Settle(c, outcome)
        /\ cache' \in {cache, Remembered(text[c])}
        /\ blockedUntil' \in {blockedUntil, clock + CooldownMs}
  BY DEF Answer, Succeed, Refuse
<1>2. /\ doing[c] = "calling"
      /\ doing' = [d \in Caller |-> IF d \in Waiting(c) THEN "done" ELSE doing[d]]
      /\ reply' = [d \in Caller |-> IF d \in Waiting(c) THEN outcome ELSE reply[d]]
      /\ inFlight' = [inFlight EXCEPT ![text[c]] = NoCaller]
      /\ UNCHANGED <<clock, starts, text, wakeAt, called>>
  BY <1>1 DEF Settle
<1>3. text[c] \in Text /\ clock \in Nat /\ CooldownMs \in Nat /\ blockedUntil \in Nat
  BY LimitsAssumption DEF EmbedderTypeOK
<1>4. /\ cache' \in Seq(Entry) /\ Len(cache') <= CacheEntries /\ KeysOnce'
      /\ \A u : IsCached(u)' => IsCached(u) \/ u = text[c]
  <2>1. CASE cache' = cache
    BY <2>1 DEF EmbedderTypeOK, Entry, KeysOnce, IsCached
  <2>2. CASE cache' = Remembered(text[c])
    BY <1>3, <2>2, RememberedIs
  <2> QED
    BY <1>1, <2>1, <2>2
<1>5. EmbedderTypeOK'
  <2>1. doing' \in [Caller -> {"idle", "sleeping", "calling", "joined", "done"}]
    BY <1>2 DEF EmbedderTypeOK
  <2>2. reply' \in [Caller -> {"none", "vector", "busy", "error"}]
    BY <1>2 DEF EmbedderTypeOK
  <2>3. inFlight' \in [Text -> Caller \cup {NoCaller}]
    BY <1>2 DEF EmbedderTypeOK
  <2>4. blockedUntil' \in Nat
    BY <1>1, <1>3
  <2> QED
    BY <1>2, <1>4, <2>1, <2>2, <2>3, <2>4 DEF EmbedderTypeOK, Entry
<1>6. \A d \in Waiting(c) : doing[d] = "calling" \/ doing[d] = "joined"
  BY <1>2 DEF Waiting
<1>7. \A d \in Caller : doing'[d] = IF d \in Waiting(c) THEN "done" ELSE doing[d]
  BY <1>2
<1>8. c \in Waiting(c)
  BY DEF Waiting
<1>9. PaceInv'
  <2>1. \A d \in Caller : /\ doing'[d] = "sleeping" <=> doing[d] = "sleeping"
                          /\ doing[d] # "idle" => doing'[d] # "idle"
    BY <1>6, <1>7
  <2> QED
    BY <1>2, <2>1, PaceStays
<1>10. PaidInv'
  <2> SUFFICES ASSUME NEW d \in Caller, Paying(d)' PROVE inFlight'[text[d]] = d /\ ~IsCached(text[d])'
    BY <1>2 DEF PaidInv
  <2>1. d # c /\ Paying(d) /\ Paying(c)
    BY <1>2, <1>6, <1>7, <1>8 DEF Paying
  <2>2. inFlight[text[d]] = d /\ ~IsCached(text[d]) /\ inFlight[text[c]] = c
    BY <2>1 DEF PaidInv
  <2>3. text[d] # text[c]
    BY <2>1, <2>2
  <2> QED
    BY <1>2, <1>4, <2>2, <2>3 DEF EmbedderTypeOK
<1> QED
  BY <1>4, <1>5, <1>9, <1>10

LEMMA TimeKeeps ==
  ASSUME EmbedderInv, Tick
  PROVE  EmbedderInv'
<1> USE DEF EmbedderInv
<1>1. /\ clock' = clock + 1
      /\ \A c \in Caller : doing[c] = "sleeping" => clock < wakeAt[c]
      /\ UNCHANGED <<cache, inFlight, starts, blockedUntil, doing, text, wakeAt, reply, called>>
  BY DEF Tick
<1>2. clock \in Nat /\ clock' \in Nat /\ clock' >= clock /\ \A c \in Caller : wakeAt[c] \in Nat
  BY <1>1 DEF EmbedderTypeOK
<1>3. EmbedderTypeOK' /\ KeysOnce'
  BY <1>1, <1>2 DEF EmbedderTypeOK, KeysOnce
<1>4. PaidInv'
  BY <1>1 DEF PaidInv, Paying, IsCached
<1>5. Reserved' = Reserved
  BY <1>1 DEF Reserved
<1>6. Ascending' /\ StartsKept' /\ Apart' /\ IsFiniteSet(Reserved)'
  BY <1>1, <1>2, <1>5, StartsStay
<1>7. Punctual'
  <2>1. \A c \in Caller : doing[c] = "sleeping" => clock' <= wakeAt[c]
    BY <1>1, <1>2
  <2> QED
    BY <1>1, <2>1 DEF Punctual, PaceInv
<1> QED
  BY <1>1, <1>3, <1>4, <1>6, <1>7 DEF PaceInv

LEMMA EmbedderStep ==
  EmbedderInv /\ [EmbedderNext]_embedderVars => EmbedderInv'
<1> SUFFICES ASSUME EmbedderInv, [EmbedderNext]_embedderVars PROVE EmbedderInv'
  OBVIOUS
<1>1. CASE Tick
  BY <1>1, TimeKeeps
<1>2. ASSUME NEW c \in Caller, Ask(c) PROVE EmbedderInv'
  BY <1>2, AskedForFree, ReserveKeeps DEF Ask
<1>3. ASSUME NEW c \in Caller, Wake(c) PROVE EmbedderInv'
  BY <1>3, WakeKeeps
<1>4. ASSUME NEW c \in Caller, Answer(c) PROVE EmbedderInv'
  BY <1>4, AnswerKeeps
<1>5. CASE UNCHANGED embedderVars
  <2>1. UNCHANGED <<clock, cache, inFlight, starts, blockedUntil, doing, text, wakeAt, reply, called>>
    BY <1>5 DEF embedderVars
  <2>2. EmbedderTypeOK'
    BY <2>1 DEF EmbedderInv, EmbedderTypeOK
  <2>3. KeysOnce' /\ PaidInv'
    BY <2>1 DEF EmbedderInv, KeysOnce, PaidInv, Paying, IsCached
  <2>4. PaceInv'
    BY <2>1, PaceStays DEF EmbedderInv
  <2> QED
    BY <2>2, <2>3, <2>4 DEF EmbedderInv
<1> QED
  BY <1>1, <1>2, <1>3, <1>4, <1>5 DEF EmbedderNext

LEMMA EmbedderInvariant ==
  EmbedderSpec => []EmbedderInv
<1> QED
  BY EmbedderStart, EmbedderStep, PTL DEF EmbedderSpec

(* query-embedding.ts:31-134: the cache stays within its entries, and      *)
(* every list and promise has the shape the code gives it.                 *)
THEOREM EmbedderTypes == EmbedderSpec => []EmbedderTypeOK
<1>1. EmbedderInv => EmbedderTypeOK
  BY DEF EmbedderInv
<1> QED
  BY <1>1, EmbedderInvariant, PTL

(* For every number of searches, calls per window and length of it: of     *)
(* more than CallsPerWindow provider calls two are a window apart.         *)
THEOREM WindowIsKept == EmbedderSpec => []RollingWindow
<1>1. EmbedderInv => RollingWindow
  <2> SUFFICES ASSUME EmbedderInv, NEW calls \in SUBSET called, Cardinality(calls) > CallsPerWindow
               PROVE  \E first, last \in calls : last[2] - first[2] >= WindowMs
    BY DEF RollingWindow
  <2> USE DEF EmbedderInv
  <2> DEFINE slots == {call[1] : call \in calls}
             caller == [call \in calls |-> call[1]]
  <2>1. IsFiniteSet(calls)
    BY FS_Subset DEF PaceInv
  <2>2. \A call \in calls : call = <<call[1], call[2]>> /\ call[2] = wakeAt[call[1]]
    BY DEF EmbedderTypeOK, PaceInv, Punctual
  <2>3. caller \in Surjection(calls, slots)
    BY DEF Surjection
  <2>4. caller \in Injection(calls, slots)
    <3>1. \A x, y \in calls : caller[x] = caller[y] => x = y
      BY <2>2
    <3>2. caller \in [calls -> slots]
      OBVIOUS
    <3> QED
      BY <3>1, <3>2 DEF Injection, IsInjective
  <2> HIDE DEF slots, caller
  <2>5. Cardinality(slots) = Cardinality(calls)
    BY <2>1, <2>3, <2>4, FS_Surjection
  <2>6. slots \in SUBSET Reserved
    BY DEF slots, Reserved
  <2>7. PICK a \in slots, b \in slots : wakeAt[b] - wakeAt[a] >= WindowMs
    BY <2>5, <2>6 DEF PaceInv, Apart
  <2>8. PICK first \in calls, last \in calls : first[1] = a /\ last[1] = b
    BY <2>7 DEF slots
  <2> QED
    BY <2>2, <2>7, <2>8
<1> QED
  BY <1>1, EmbedderInvariant, PTL

(* However searches overlap, no text is paid for twice at once, or while   *)
(* its vector is cached.                                                   *)
THEOREM NoTextPaidTwice == EmbedderSpec => []PaidOnce
<1>1. EmbedderInv => PaidOnce
  <2> SUFFICES ASSUME EmbedderInv, NEW c \in Caller, Paying(c)
               PROVE  /\ ~Fresh(text[c])
                      /\ \A d \in Caller : Paying(d) /\ text[d] = text[c] => d = c
    BY DEF PaidOnce
  <2>1. inFlight[text[c]] = c /\ ~IsCached(text[c])
    BY DEF EmbedderInv, PaidInv
  <2>2. ~Fresh(text[c])
    BY <2>1 DEF Fresh
  <2> QED
    BY <2>1, <2>2 DEF EmbedderInv, PaidInv
<1> QED
  BY <1>1, EmbedderInvariant, PTL
=============================================================================
