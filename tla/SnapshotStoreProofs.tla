------------------------ MODULE SnapshotStoreProofs ------------------------
(***************************************************************************)
(* Proofs about SnapshotStore, for every set of sources, pages, requests   *)
(* and jobs, every lease lifetime and every disagreement of the clocks.    *)
(* No step uses Skew: the argument rests on lease tokens alone.            *)
(* At the end, what publishCheckpoint selects of staged events, for any    *)
(* ids, URLs, listings, times and sizes and any list of them.              *)
(***************************************************************************)
EXTENDS SnapshotStore, CheckpointSelection, TLAPS

(* A request asks for what its program counter says it is doing.           *)
JobMatches ==
  \A r \in Request :
    /\ pc[r] \in ImportPc => job[r] \in ImportJob
    /\ pc[r] \in PublishPc => job[r] \in PublishJob
    /\ pc[r] \in {"upload", "commit"} => at[r] <= Len(job[r].pages)

TypeInv == TypeOK /\ JobMatches

USE DEF Pc, ImportPc, PublishPc

LEMMA JobTypes ==
  ASSUME NEW j \in Job
  PROVE  /\ j.kind = "import" => j \in ImportJob
         /\ j.kind # "import" => j \in PublishJob
         /\ j \in ImportJob => j.kind = "import" /\ j.pages \in Seq(Page)
         /\ j \in PublishJob => j.kind = "publish" /\ j.finishedAt \in Stamp /\ j.profile \in Profile
  BY JobAssumption DEF ImportJob, PublishJob

LEMMA PageType ==
  ASSUME TypeInv, NEW r \in Request, pc[r] \in {"upload", "commit"}
  PROVE  /\ PageOf(r) \in Page
         /\ PageOf(r).src \in Source
  <1>1. job[r] \in Job /\ job[r] \in ImportJob /\ at[r] \in Nat \ {0} /\ at[r] <= Len(job[r].pages)
    BY DEF TypeInv, TypeOK, JobMatches
  <1>2. job[r].pages \in Seq(Page) /\ at[r] \in 1 .. Len(job[r].pages)
    BY <1>1, JobTypes
  <1> QED BY <1>2 DEF PageOf, Page

LEMMA NextPhaseType ==
  ASSUME TypeInv, NEW r \in Request
  PROVE  NextPhase(r) \in Phase
  BY DEF TypeInv, TypeOK, NextPhase, PhaseAfter, Phase

LEMMA TypeInit == StoreInit => TypeInv
  BY DEF StoreInit, Init, TypeInv, TypeOK, JobMatches, Heads, Phase

LEMMA TypeStep == TypeInv /\ [StoreNext]_vars => TypeInv'
  <1> SUFFICES ASSUME TypeInv, [StoreNext]_vars PROVE TypeInv'
    OBVIOUS
  <1> USE DEF TypeInv, TypeOK, JobMatches
  <1>1. ASSUME NEW r \in Request, AcquireLease(r) PROVE TypeInv'
    <2>2. lease' \in Lease
      BY <1>1, ClockAssumption DEF AcquireLease, Lease
    <2>3. JobMatches'
      BY <1>1, JobTypes DEF AcquireLease
    <2> QED BY <1>1, <2>2, <2>3 DEF AcquireLease
  <1>2. ASSUME NEW r \in Request, ImportStep(r) PROVE TypeInv'
    <2>1. CASE CheckPage(r)
      <3>1. CASE Superseded(sources[PageOf(r).src], PageOf(r))
        <4>1. at[r] + 1 \in Nat \ {0}
          OBVIOUS
        <4>2. TypeOK'
          BY <2>1, <3>1, <4>1 DEF CheckPage, ImportKeeps
        <4>3. JobMatches'
          BY <2>1, <3>1 DEF CheckPage, ImportKeeps
        <4> QED BY <4>2, <4>3
      <3>2. CASE ~Superseded(sources[PageOf(r).src], PageOf(r))
        BY <2>1, <3>2 DEF CheckPage, ImportKeeps
      <3> QED BY <3>1, <3>2
    <2>2. CASE UploadPage(r)
      BY <2>2, PageType DEF UploadPage, ImportKeeps, Committed, Object
    <2>3. CASE CommitPage(r)
      BY <2>3, PageType DEF CommitPage, ImportKeeps, Committed, Heads
    <2>4. CASE FinishImport(r)
      BY <2>4 DEF FinishImport, ImportKeeps
    <2> QED BY <1>2, <2>1, <2>2, <2>3, <2>4 DEF ImportStep
  <1>3. ASSUME NEW r \in Request, PublishStep(r) PROVE TypeInv'
    <2>1. CASE BeginPublication(r)
      BY <2>1 DEF BeginPublication, PublishKeeps, Committed, Attempt
    <2>2. CASE AnswerPublished(r)
      BY <2>2, NextPhaseType DEF AnswerPublished, PublishKeeps, Record, Attempt
    <2>3. CASE ListSources(r)
      BY <2>3 DEF ListSources, PublishKeeps
    <2>4. CASE EnterPhase(r)
      <3>1. PhaseAfter[pc[r]] \in PublishPc
        BY <2>4 DEF EnterPhase, PhaseAfter
      <3>2. job[r] \in PublishJob
        BY <2>4 DEF EnterPhase, PhaseAfter
      <3> QED BY <2>4, <3>1, <3>2, NextPhaseType DEF EnterPhase, PublishKeeps, Record, Attempt, Committed, PhaseAfter
    <2>5. CASE ReadSources(r)
      BY <2>5 DEF ReadSources, PublishKeeps
    <2>6. CASE PutSearch(r)
      BY <2>6 DEF PutSearch, PublishKeeps, Committed, Object
    <2>7. CASE PutCheckpoint(r)
      BY <2>7 DEF PutCheckpoint, PublishKeeps, Committed, Object
    <2>8. CASE Activate(r)
      <3>1. job[r] \in Job /\ job[r] \in PublishJob
        BY <2>8 DEF Activate
      <3>2. catalog' \in Catalog
        BY <2>8, <3>1, JobTypes, RevisionAssumption DEF Activate, Catalog
      <3> QED BY <2>8, <3>2, NextPhaseType DEF Activate, PublishKeeps, Record, Attempt
    <2> QED BY <1>3, <2>1, <2>2, <2>3, <2>4, <2>5, <2>6, <2>7, <2>8 DEF PublishStep
  <1>4. ASSUME NEW r \in Request, Fail(r) PROVE TypeInv'
    BY <1>4, NextPhaseType DEF Fail
  <1>5. ASSUME NEW r \in Request, AnswerFailure(r) PROVE TypeInv'
    BY <1>5 DEF AnswerFailure, Attempt
  <1>6. ASSUME NEW r \in Request, ReleaseLease(r) PROVE TypeInv'
    BY <1>6 DEF ReleaseLease, Forget, Heads, Phase
  <1>7. ASSUME NEW r \in Request, Crash(r) PROVE TypeInv'
    BY <1>7 DEF Crash, Forget, Heads, Phase
  <1>8. ASSUME Tick PROVE TypeInv'
    BY <1>8 DEF Tick, Lease, requestVars
  <1>9. ASSUME UNCHANGED vars PROVE TypeInv'
    BY <1>9 DEF vars, requestVars
  <1> QED BY <1>1, <1>2, <1>3, <1>4, <1>5, <1>6, <1>7, <1>8, <1>9 DEF StoreNext, ServerStep

(* The store's documents, its bucket and the state of every request keep   *)
(* their types.                                                            *)
THEOREM StoreTypeCorrect == StoreSpec => []TypeOK
  <1>1. StoreSpec => []TypeInv
    BY TypeInit, TypeStep, PTL DEF StoreSpec
  <1> QED BY <1>1, PTL DEF TypeInv

-----------------------------------------------------------------------------
(* Publishers *)

LEMMA ViewStep ==
  TypeInv /\ PublisherSeesPresent /\ [StoreNext]_vars => PublisherSeesPresent'
  <1> SUFFICES ASSUME TypeInv, PublisherSeesPresent, [StoreNext]_vars
               PROVE  PublisherSeesPresent'
    OBVIOUS
  <1> USE DEF PublisherSeesPresent, HoldsToken
  <1> pc \in [Request -> Pc] /\ previous \in [Request -> Catalog \cup {NoCatalog}]
      /\ listed \in [Request -> Heads]
    BY DEF TypeInv, TypeOK
  <1>1. ASSUME NEW r \in Request, AcquireLease(r) PROVE PublisherSeesPresent'
    BY <1>1 DEF AcquireLease
  <1>2. ASSUME NEW r \in Request, ImportStep(r) PROVE PublisherSeesPresent'
    <2>1. CASE CheckPage(r)
      BY <2>1 DEF CheckPage, ImportKeeps, AlreadyPublished
    <2>2. CASE UploadPage(r)
      BY <2>2 DEF UploadPage, ImportKeeps, Committed, AlreadyPublished
    <2>3. CASE CommitPage(r)
      BY <2>3 DEF CommitPage, HoldsLive, ImportKeeps, Committed, AlreadyPublished
    <2>4. CASE FinishImport(r)
      BY <2>4 DEF FinishImport, ImportKeeps, AlreadyPublished
    <2> QED BY <1>2, <2>1, <2>2, <2>3, <2>4 DEF ImportStep
  <1>3. ASSUME NEW r \in Request, PublishStep(r) PROVE PublisherSeesPresent'
    <2>1. CASE BeginPublication(r)
      BY <2>1 DEF BeginPublication, PublishKeeps, Committed, AlreadyPublished
    <2>2. CASE AnswerPublished(r)
      BY <2>2 DEF AnswerPublished, PublishKeeps, AlreadyPublished
    <2>3. CASE ListSources(r)
      BY <2>3 DEF ListSources, PublishKeeps, AlreadyPublished
    <2>4. CASE EnterPhase(r)
      BY <2>4 DEF EnterPhase, PublishKeeps, Committed, PhaseAfter, AlreadyPublished
    <2>5. CASE ReadSources(r)
      BY <2>5 DEF ReadSources, PublishKeeps, AlreadyPublished
    <2>6. CASE PutSearch(r)
      BY <2>6 DEF PutSearch, PublishKeeps, Committed, AlreadyPublished
    <2>7. CASE PutCheckpoint(r)
      BY <2>7 DEF PutCheckpoint, PublishKeeps, Committed, AlreadyPublished
    <2>8. CASE Activate(r)
      BY <2>8 DEF Activate, HoldsLive, PublishKeeps
    <2> QED BY <1>3, <2>1, <2>2, <2>3, <2>4, <2>5, <2>6, <2>7, <2>8 DEF PublishStep
  <1>4. ASSUME NEW r \in Request, Fail(r) PROVE PublisherSeesPresent'
    BY <1>4 DEF Fail, AlreadyPublished
  <1>5. ASSUME NEW r \in Request, AnswerFailure(r) PROVE PublisherSeesPresent'
    BY <1>5 DEF AnswerFailure, AlreadyPublished
  <1>6. ASSUME NEW r \in Request, ReleaseLease(r) PROVE PublisherSeesPresent'
    BY <1>6 DEF ReleaseLease, Forget, AlreadyPublished
  <1>7. ASSUME NEW r \in Request, Crash(r) PROVE PublisherSeesPresent'
    BY <1>7 DEF Crash, Forget, AlreadyPublished
  <1>8. ASSUME Tick PROVE PublisherSeesPresent'
    <2>1. lease' # NoLease => lease # NoLease /\ lease'.token = lease.token
      BY <1>8 DEF Tick, TypeInv, TypeOK, Lease
    <2> QED BY <1>8, <2>1 DEF Tick, requestVars, AlreadyPublished
  <1>9. ASSUME UNCHANGED vars PROVE PublisherSeesPresent'
    BY <1>9 DEF vars, requestVars, AlreadyPublished
  <1> QED BY <1>1, <1>2, <1>3, <1>4, <1>5, <1>6, <1>7, <1>8, <1>9 DEF StoreNext, ServerStep

(* A publisher that still holds its token, even on an expired lease, has   *)
(* read the catalog and the source heads as they are now.                  *)
THEOREM ReadsStayCurrent == StoreSpec => []PublisherSeesPresent
  <1>1. StoreInit => PublisherSeesPresent
    BY DEF StoreInit, PublisherSeesPresent, HoldsToken
  <1>2. StoreSpec => [](TypeInv /\ PublisherSeesPresent)
    BY <1>1, TypeInit, TypeStep, ViewStep, PTL DEF StoreSpec
  <1> QED BY <1>2, PTL

-----------------------------------------------------------------------------
(* Objects *)

AfterRead == {"selected", "materialize", "write_search", "search_put", "write_checkpoint",
              "checkpoint_put", "activate"}
AfterSearchPut == {"search_put", "write_checkpoint", "checkpoint_put", "activate"}
AfterCheckpointPut == {"checkpoint_put", "activate"}

(* What a request has put or read is in the bucket.                        *)
RequestObjects ==
  \A r \in Request :
    /\ pc[r] = "commit" => <<"source", PageOf(r)>> \in blobs
    /\ pc[r] \in AfterRead =>
         /\ NotNewer(listed[r], job[r].finishedAt)
         /\ HasEvents(listed[r])
         /\ \A p \in Staged(listed[r]) : <<"source", p>> \in blobs
    /\ pc[r] \in AfterSearchPut => <<"search", r>> \in blobs
    /\ pc[r] \in AfterCheckpointPut => <<"checkpoint", r>> \in blobs

ObjectInv == RequestObjects /\ ReferencedObjectsExist

(* A step that moves no request into a read or a commit keeps all that.    *)
LEMMA RequestObjectsKept ==
  ASSUME RequestObjects, UNCHANGED <<job, listed, blobs>>,
         \A q \in Request : pc'[q] = "commit" => pc[q] = "commit" /\ PageOf(q)' = PageOf(q),
         \A q \in Request : pc'[q] \in AfterRead => pc'[q] = pc[q]
  PROVE  RequestObjects'
  <1> SUFFICES ASSUME NEW q \in Request
               PROVE  /\ pc'[q] = "commit" => <<"source", PageOf(q)'>> \in blobs
                      /\ pc'[q] \in AfterRead =>
                           /\ NotNewer(listed[q], job[q].finishedAt)'
                           /\ HasEvents(listed[q])'
                           /\ \A p \in Staged(listed[q])' : <<"source", p>> \in blobs
                      /\ pc'[q] \in AfterSearchPut => <<"search", q>> \in blobs
                      /\ pc'[q] \in AfterCheckpointPut => <<"checkpoint", q>> \in blobs
    BY DEF RequestObjects
  <1>1. pc'[q] = "commit" => <<"source", PageOf(q)'>> \in blobs
    BY DEF RequestObjects
  <1>2. CASE pc'[q] \notin AfterRead
    BY <1>1, <1>2 DEF AfterRead, AfterSearchPut, AfterCheckpointPut
  <1>3. CASE pc'[q] \in AfterRead
    <2>1. pc'[q] = pc[q]
      BY <1>3
    <2>2. /\ NotNewer(listed[q], job[q].finishedAt)' = NotNewer(listed[q], job[q].finishedAt)
          /\ HasEvents(listed[q])' = HasEvents(listed[q])
          /\ Staged(listed[q])' = Staged(listed[q])
      BY DEF NotNewer, HasEvents, Staged
    <2> QED BY <1>1, <1>3, <2>1, <2>2 DEF RequestObjects
  <1> QED BY <1>2, <1>3

LEMMA ObjectStep ==
  TypeInv /\ ObjectInv /\ [StoreNext]_vars => ObjectInv'
  <1> SUFFICES ASSUME TypeInv, ObjectInv, [StoreNext]_vars
               PROVE  ObjectInv'
    OBVIOUS
  <1> USE DEF ObjectInv, RequestObjects, ReferencedObjectsExist, AfterRead, AfterSearchPut,
              AfterCheckpointPut
  <1> /\ pc \in [Request -> Pc] /\ at \in [Request -> Nat \ {0}] /\ sources \in Heads
      /\ listed \in [Request -> Heads] /\ previous \in [Request -> Catalog \cup {NoCatalog}]
    BY DEF TypeInv, TypeOK
  <1>1. ASSUME NEW r \in Request, AcquireLease(r) PROVE ObjectInv'
    BY <1>1 DEF AcquireLease, PageOf, NotNewer, HasEvents, Staged
  <1>2. ASSUME NEW r \in Request, ImportStep(r) PROVE ObjectInv'
    <2>1. CASE CheckPage(r)
      <3>1. UNCHANGED <<job, listed, blobs, sources, catalog>>
        BY <2>1 DEF CheckPage, ImportKeeps
      <3>2. pc'[r] # "commit" /\ \A q \in Request : q # r => pc'[q] = pc[q] /\ at'[q] = at[q]
        BY <2>1 DEF CheckPage
      <3>3. \A q \in Request : pc'[q] = "commit" => pc[q] = "commit" /\ PageOf(q)' = PageOf(q)
        BY <3>1, <3>2 DEF PageOf
      <3>4. \A q \in Request : pc'[q] \in AfterRead => pc'[q] = pc[q]
        BY <2>1 DEF CheckPage
      <3>5. ReferencedObjectsExist'
        BY <3>1 DEF Staged
      <3>6. RequestObjects'
        <4> HIDE DEF RequestObjects, AfterRead
        <4> QED BY <3>1, <3>3, <3>4, RequestObjectsKept DEF ObjectInv
      <3> QED BY <3>5, <3>6
    <2>2. CASE UploadPage(r)
      BY <2>2 DEF UploadPage, ImportKeeps, Committed, PageOf, NotNewer, HasEvents, Staged
    <2>3. CASE CommitPage(r)
      <3>1. \A p \in Staged(sources') : p \in Staged(sources) \/ p = PageOf(r)
        BY <2>3, PageType DEF CommitPage, Staged, Heads
      <3>2. \A p \in Staged(sources)' : <<"source", p>> \in blobs'
        BY <2>3, <3>1 DEF CommitPage, Staged
      <3>3. RequestObjects'
        <4>1. UNCHANGED <<job, listed, blobs>>
          BY <2>3 DEF CommitPage, ImportKeeps
        <4>2. pc'[r] \in {"pages", "failing"}
              /\ \A q \in Request : q # r => pc'[q] = pc[q] /\ at'[q] = at[q]
          BY <2>3 DEF CommitPage, Committed
        <4>3. \A q \in Request : pc'[q] = "commit" => pc[q] = "commit" /\ PageOf(q)' = PageOf(q)
          BY <4>1, <4>2 DEF PageOf
        <4>4. \A q \in Request : pc'[q] \in AfterRead => pc'[q] = pc[q]
          BY <4>2
        <4> HIDE DEF RequestObjects, AfterRead
        <4> QED BY <4>1, <4>3, <4>4, RequestObjectsKept DEF ObjectInv
      <3>4. UNCHANGED <<catalog, blobs>>
        BY <2>3 DEF CommitPage, ImportKeeps
      <3>5. ReferencedObjectsExist'
        BY <3>2, <3>4 DEF Staged
      <3> QED BY <3>3, <3>5
    <2>4. CASE FinishImport(r)
      BY <2>4 DEF FinishImport, ImportKeeps, PageOf, NotNewer, HasEvents, Staged
    <2> QED BY <1>2, <2>1, <2>2, <2>3, <2>4 DEF ImportStep
  <1>3. ASSUME NEW r \in Request, PublishStep(r) PROVE ObjectInv'
    <2>1. CASE BeginPublication(r)
      BY <2>1 DEF BeginPublication, PublishKeeps, Committed, PageOf, NotNewer, HasEvents, Staged
    <2>2. CASE AnswerPublished(r)
      BY <2>2 DEF AnswerPublished, PublishKeeps, PageOf, NotNewer, HasEvents, Staged
    <2>3. CASE ListSources(r)
      BY <2>3 DEF ListSources, PublishKeeps, PageOf, NotNewer, HasEvents, Staged
    <2>4. CASE EnterPhase(r)
      BY <2>4 DEF EnterPhase, PublishKeeps, Committed, PhaseAfter, PageOf, NotNewer, HasEvents, Staged
    <2>5. CASE ReadSources(r)
      BY <2>5 DEF ReadSources, PublishKeeps, PageOf, NotNewer, HasEvents, Staged
    <2>6. CASE PutSearch(r)
      BY <2>6 DEF PutSearch, PublishKeeps, Committed, PageOf, NotNewer, HasEvents, Staged
    <2>7. CASE PutCheckpoint(r)
      BY <2>7 DEF PutCheckpoint, PublishKeeps, Committed, PageOf, NotNewer, HasEvents, Staged
    <2>8. CASE Activate(r)
      <3>1. /\ catalog'.revision = r
            /\ catalog'.heads = listed[r]
        BY <2>8 DEF Activate
      <3>2. UNCHANGED <<sources, job, at, listed, blobs>>
        BY <2>8 DEF Activate, PublishKeeps
      <3>3. /\ pc[r] = "activate"
            /\ \A q \in Request : pc'[q] \in AfterRead \cup {"commit"} => pc'[q] = pc[q]
        BY <2>8 DEF Activate
      <3>4. ReferencedObjectsExist'
        <4>1. \A p \in Staged(sources)' : <<"source", p>> \in blobs'
          BY <3>2 DEF Staged
        <4>2. {<<"search", catalog'.revision>>, <<"checkpoint", catalog'.revision>>} \subseteq blobs'
          BY <3>1, <3>2, <3>3
        <4>3. \A p \in Staged(listed[r]) : <<"source", p>> \in blobs
          BY <3>3
        <4>4. \A p \in Staged(catalog'.heads) : <<"source", p>> \in blobs'
          <5> HIDE DEF RequestObjects, ReferencedObjectsExist
          <5> QED BY <3>1, <3>2, <4>3
        <4>5. Staged(catalog.heads)' = Staged(catalog'.heads)
          BY DEF Staged
        <4> QED BY <4>1, <4>2, <4>4, <4>5
      <3>5. RequestObjects'
        <4>1. \A q \in Request : PageOf(q)' = PageOf(q)
          BY <3>2 DEF PageOf
        <4>2. \A q \in Request : pc'[q] = "commit" => pc[q] = "commit" /\ PageOf(q)' = PageOf(q)
          BY <3>3, <4>1
        <4>3. \A q \in Request : pc'[q] \in AfterRead => pc'[q] = pc[q]
          BY <3>3
        <4> HIDE DEF RequestObjects, AfterRead
        <4> QED BY <3>2, <4>2, <4>3, RequestObjectsKept DEF ObjectInv
      <3> QED BY <3>4, <3>5
    <2> QED BY <1>3, <2>1, <2>2, <2>3, <2>4, <2>5, <2>6, <2>7, <2>8 DEF PublishStep
  <1>4. ASSUME NEW r \in Request, Fail(r) PROVE ObjectInv'
    BY <1>4 DEF Fail, PageOf, NotNewer, HasEvents, Staged
  <1>5. ASSUME NEW r \in Request, AnswerFailure(r) PROVE ObjectInv'
    BY <1>5 DEF AnswerFailure, PageOf, NotNewer, HasEvents, Staged
  <1>6. ASSUME NEW r \in Request, ReleaseLease(r) PROVE ObjectInv'
    BY <1>6 DEF ReleaseLease, Forget, PageOf, NotNewer, HasEvents, Staged
  <1>7. ASSUME NEW r \in Request, Crash(r) PROVE ObjectInv'
    BY <1>7 DEF Crash, Forget, PageOf, NotNewer, HasEvents, Staged
  <1>8. ASSUME Tick PROVE ObjectInv'
    BY <1>8 DEF Tick, requestVars, PageOf, NotNewer, HasEvents, Staged
  <1>9. ASSUME UNCHANGED vars PROVE ObjectInv'
    BY <1>9 DEF vars, requestVars, PageOf, NotNewer, HasEvents, Staged
  <1> QED BY <1>1, <1>2, <1>3, <1>4, <1>5, <1>6, <1>7, <1>8, <1>9 DEF StoreNext, ServerStep

(* No head ever names an object that is not in the bucket.                 *)
THEOREM ObjectsExist == StoreSpec => []ReferencedObjectsExist
  <1>1. StoreInit => ObjectInv
    BY DEF StoreInit, Init, ObjectInv, RequestObjects, ReferencedObjectsExist, Staged, AfterRead,
           AfterSearchPut, AfterCheckpointPut
  <1>2. StoreSpec => [](TypeInv /\ ObjectInv)
    BY <1>1, TypeInit, TypeStep, ObjectStep, PTL DEF StoreSpec
  <1> QED BY <1>2, PTL DEF ObjectInv

-----------------------------------------------------------------------------
(* Refinement *)

LEMMA RefinementStep ==
  TypeInv /\ PublisherSeesPresent /\ ObjectInv /\ [StoreNext]_vars => [Next]_absVars
  <1> SUFFICES ASSUME TypeInv, PublisherSeesPresent, ObjectInv, [StoreNext]_vars
               PROVE  [Next]_absVars
    OBVIOUS
  <1>1. ASSUME NEW r \in Request, CommitPage(r) PROVE [Next]_absVars
    <2>1. CASE Superseded(sources[PageOf(r).src], PageOf(r))
      BY <1>1, <2>1 DEF CommitPage, ImportKeeps, absVars
    <2>2. CASE ~Superseded(sources[PageOf(r).src], PageOf(r))
      <3>1. PageOf(r) \in Page
        BY <1>1, PageType DEF CommitPage
      <3>2. StagePage(PageOf(r))
        <4> DEFINE p == PageOf(r)
        <4>1. sources' = [sources EXCEPT ![p.src] = p]
          BY <1>1, <2>2 DEF CommitPage
        <4>2. UNCHANGED catalog
          BY <1>1 DEF CommitPage, ImportKeeps
        <4> QED BY <2>2, <4>1, <4>2 DEF StagePage
      <3> QED BY <3>1, <3>2 DEF Next
    <2> QED BY <2>1, <2>2
  <1>2. ASSUME NEW r \in Request, Activate(r) PROVE [Next]_absVars
    <2>1. job[r] \in Job /\ job[r].finishedAt \in Stamp /\ job[r].profile \in Profile
      BY <1>2, JobTypes DEF Activate, TypeInv, TypeOK, JobMatches
    <2>2. /\ listed[r] = sources
          /\ ~AlreadyPublished(catalog, job[r])
      BY <1>2 DEF Activate, HoldsLive, PublisherSeesPresent, HoldsToken
    <2>3. NotNewer(sources, job[r].finishedAt) /\ HasEvents(sources)
      BY <1>2, <2>2 DEF Activate, ObjectInv, RequestObjects, AfterRead
    <2>4. Supersedes(job[r].finishedAt, job[r].profile)
      <3>1. catalog = NoCatalog \/ (catalog \in Catalog /\ catalog.finishedAt \in Nat)
        BY StampAssumption DEF TypeInv, TypeOK, Catalog
      <3>2. job[r].finishedAt \in Nat
        BY <2>1, StampAssumption
      <3> QED BY <2>2, <3>1, <3>2 DEF Supersedes, AlreadyPublished
    <2>5. Publish(r, job[r].finishedAt, job[r].profile)
      BY <1>2, <2>2, <2>3, <2>4 DEF Activate, PublishKeeps, Publish
    <2> QED BY <2>1, <2>5, RevisionAssumption DEF Next
  <1>3. ASSUME NEW r \in Request,
               AcquireLease(r) \/ CheckPage(r) \/ UploadPage(r) \/ FinishImport(r)
                 \/ ReleaseLease(r) \/ Fail(r) \/ AnswerFailure(r) \/ Crash(r)
        PROVE UNCHANGED absVars
    BY <1>3 DEF AcquireLease, CheckPage, UploadPage, FinishImport, ImportKeeps, ReleaseLease, Fail,
                AnswerFailure, Crash, absVars
  <1>4. ASSUME NEW r \in Request, PublishStep(r), ~Activate(r)
        PROVE UNCHANGED absVars
    BY <1>4 DEF PublishStep, BeginPublication, AnswerPublished, ListSources, EnterPhase, ReadSources,
                PutSearch, PutCheckpoint, PublishKeeps, absVars
  <1>5. ASSUME Tick \/ UNCHANGED vars PROVE UNCHANGED absVars
    BY <1>5 DEF Tick, vars, absVars
  <1> QED BY <1>1, <1>2, <1>3, <1>4, <1>5 DEF StoreNext, ServerStep, ImportStep

(* Publication by phases under expiring leases, crashes and lost replies   *)
(* implements the atomic publication of CatalogPublication.                *)
THEOREM StoreImplementsPublication == StoreSpec => AtomicPublication
  <1>1. StoreInit => Init /\ PublisherSeesPresent
    BY DEF StoreInit, PublisherSeesPresent, HoldsToken
  <1>2. StoreInit => ObjectInv
    BY DEF StoreInit, Init, ObjectInv, RequestObjects, ReferencedObjectsExist, Staged, AfterRead,
           AfterSearchPut, AfterCheckpointPut
  <1>3. StoreSpec => [](TypeInv /\ PublisherSeesPresent /\ ObjectInv)
    BY <1>1, <1>2, TypeInit, TypeStep, ViewStep, ObjectStep, PTL DEF StoreSpec
  <1> QED BY <1>1, <1>3, RefinementStep, PTL DEF StoreSpec, AtomicPublication, Spec

-----------------------------------------------------------------------------
(* Acknowledgements *)

LEMMA CatalogForward ==
  ASSUME TypeInv, PublisherSeesPresent, NEW r \in Request, Activate(r)
  PROVE  /\ job[r].finishedAt \in Nat
         /\ catalog'.finishedAt = job[r].finishedAt /\ catalog' # NoCatalog
         /\ catalog # NoCatalog => catalog.finishedAt \in Nat /\ catalog.finishedAt <= job[r].finishedAt
  <1>1. job[r] \in Job /\ job[r] \in PublishJob
    BY DEF Activate, TypeInv, TypeOK, JobMatches
  <1>2. job[r].finishedAt \in Stamp /\ job[r].profile \in Profile
    BY <1>1, JobTypes
  <1>3. catalog' \in Catalog /\ catalog'.finishedAt = job[r].finishedAt
    BY <1>2, RevisionAssumption DEF Activate, Catalog, TypeInv, TypeOK
  <1>4. ~AlreadyPublished(catalog, job[r])
    BY DEF Activate, HoldsLive, PublisherSeesPresent, HoldsToken
  <1>5. catalog # NoCatalog => catalog.finishedAt \in Nat
    BY StampAssumption DEF TypeInv, TypeOK, Catalog
  <1>6. catalog' # NoCatalog
    BY <1>3, NoCatalogAssumption DEF Catalog
  <1>7. job[r].finishedAt \in Nat
    BY <1>2, StampAssumption
  <1>8. catalog # NoCatalog => catalog.finishedAt <= job[r].finishedAt
    BY <1>4, <1>5, <1>7 DEF AlreadyPublished
  <1> QED BY <1>3, <1>5, <1>6, <1>7, <1>8

LEMMA OnlyActivateMovesCatalog ==
  ASSUME [StoreNext]_vars, catalog' # catalog
  PROVE  \E r \in Request : Activate(r)
  BY DEF StoreNext, ServerStep, ImportStep, PublishStep, AcquireLease, CheckPage, UploadPage,
         CommitPage, FinishImport, ImportKeeps, BeginPublication, AnswerPublished, ListSources,
         EnterPhase, ReadSources, PutSearch, PutCheckpoint, Fail, AnswerFailure, ReleaseLease, Crash,
         Tick, vars

LEMMA PublicStep ==
  ASSUME TypeInv, PublisherSeesPresent, [StoreNext]_vars, NEW f \in Nat, PublicAsOf(f)
  PROVE  PublicAsOf(f)'
  <1>1. CASE catalog' = catalog
    BY <1>1 DEF PublicAsOf
  <1>2. CASE catalog' # catalog
    <2>1. PICK r \in Request : Activate(r)
      BY <1>2, OnlyActivateMovesCatalog
    <2> QED BY <2>1, CatalogForward DEF PublicAsOf
  <1> QED BY <1>1, <1>2

LEMMA OnlyAnswersAcknowledge ==
  ASSUME TypeInv, [StoreNext]_vars, NEW r \in Request, result'[r] = "ok", result[r] # "ok"
  PROVE  AnswerPublished(r) \/ Activate(r) \/ FinishImport(r)
  <1> result \in [Request -> {"none", "ok", "error"}]
    BY DEF TypeInv, TypeOK
  <1>1. ASSUME NEW q \in Request, AcquireLease(q) \/ Fail(q) \/ AnswerFailure(q) \/ ReleaseLease(q) \/ Crash(q)
        PROVE FALSE
    BY <1>1 DEF AcquireLease, Fail, AnswerFailure, ReleaseLease, Crash
  <1>2. ASSUME NEW q \in Request, CheckPage(q) \/ UploadPage(q) \/ CommitPage(q)
        PROVE FALSE
    BY <1>2 DEF CheckPage, UploadPage, CommitPage
  <1>3. ASSUME NEW q \in Request, BeginPublication(q) \/ ListSources(q) \/ EnterPhase(q) \/ ReadSources(q)
                                    \/ PutSearch(q) \/ PutCheckpoint(q)
        PROVE FALSE
    BY <1>3 DEF BeginPublication, ListSources, EnterPhase, ReadSources, PutSearch, PutCheckpoint
  <1>4. ASSUME NEW q \in Request, q # r, AnswerPublished(q) \/ Activate(q) \/ FinishImport(q)
        PROVE FALSE
    BY <1>4 DEF AnswerPublished, Activate, FinishImport
  <1>5. ASSUME Tick \/ UNCHANGED vars PROVE FALSE
    BY <1>5 DEF Tick, vars, requestVars
  <1> QED BY <1>1, <1>2, <1>3, <1>4, <1>5 DEF StoreNext, ServerStep, ImportStep, PublishStep

LEMMA JobFixed == [StoreNext]_vars => job' = job
  BY DEF StoreNext, ServerStep, ImportStep, PublishStep, AcquireLease, CheckPage, UploadPage,
         CommitPage, FinishImport, ImportKeeps, BeginPublication, AnswerPublished, ListSources,
         EnterPhase, ReadSources, PutSearch, PutCheckpoint, Activate, PublishKeeps, Fail,
         AnswerFailure, ReleaseLease, Crash, Tick, vars, requestVars

LEMMA ReportStep ==
  TypeInv /\ PublisherSeesPresent /\ AcknowledgedReportsStay /\ [StoreNext]_vars
    => AcknowledgedReportsStay'
  <1> SUFFICES ASSUME TypeInv, PublisherSeesPresent, AcknowledgedReportsStay, [StoreNext]_vars,
                      NEW r \in Request, job'[r].kind = "publish", result'[r] = "ok"
               PROVE  PublicAsOf(job[r].finishedAt)'
    BY DEF AcknowledgedReportsStay, PublicAsOf
  <1>1. job' = job /\ job[r] \in Job /\ job[r].kind = "publish"
    BY JobFixed DEF TypeInv, TypeOK
  <1>2. job[r].finishedAt \in Nat
    BY <1>1, JobTypes, StampAssumption
  <1>3. CASE result[r] = "ok"
    <2>1. PublicAsOf(job[r].finishedAt)
      BY <1>1, <1>3 DEF AcknowledgedReportsStay
    <2>2. PICK f \in Nat : f = job[r].finishedAt
      BY <1>2
    <2>3. PublicAsOf(f)'
      BY <2>1, <2>2, PublicStep
    <2> QED BY <1>1, <2>2, <2>3 DEF PublicAsOf
  <1>4. CASE AnswerPublished(r)
    <2>1. previous[r] = catalog /\ catalog' = catalog
      BY <1>4 DEF AnswerPublished, HoldsLive, PublisherSeesPresent, HoldsToken, PublishPc
    <2>2. catalog # NoCatalog => catalog.finishedAt \in Nat
      BY StampAssumption DEF TypeInv, TypeOK, Catalog
    <2> QED BY <1>1, <1>2, <1>4, <2>1, <2>2 DEF AnswerPublished, AlreadyPublished, PublicAsOf
  <1>5. CASE Activate(r)
    BY <1>1, <1>5, CatalogForward DEF PublicAsOf
  <1>6. CASE FinishImport(r)
    BY <1>1, <1>6, JobTypes DEF FinishImport, TypeInv, JobMatches, ImportPc
  <1> QED BY <1>3, <1>4, <1>5, <1>6, OnlyAnswersAcknowledge

(* A publication answered with 200 is public for good, or a later one is.  *)
THEOREM ReportsStay == StoreSpec => []AcknowledgedReportsStay
  <1>1. StoreInit => PublisherSeesPresent /\ AcknowledgedReportsStay
    BY DEF StoreInit, PublisherSeesPresent, HoldsToken, AcknowledgedReportsStay
  <1>2. StoreSpec => [](TypeInv /\ PublisherSeesPresent /\ AcknowledgedReportsStay)
    BY <1>1, TypeInit, TypeStep, ViewStep, ReportStep, PTL DEF StoreSpec
  <1> QED BY <1>2, PTL

LEMMA OnlyCommitMovesSources ==
  ASSUME [StoreNext]_vars, sources' # sources
  PROVE  \E r \in Request : CommitPage(r)
  BY DEF StoreNext, ServerStep, ImportStep, PublishStep, AcquireLease, CheckPage, UploadPage,
         FinishImport, BeginPublication, AnswerPublished, ListSources, EnterPhase, ReadSources,
         PutSearch, PutCheckpoint, Activate, PublishKeeps, Fail, AnswerFailure, ReleaseLease, Crash,
         Tick, vars

LEMMA PageStamps ==
  ASSUME NEW p \in Page
  PROVE  p.src \in Source /\ p.oldest \in Nat /\ p.latest \in Nat /\ p.oldest <= p.latest /\ p # NoPage
  BY StampAssumption, NoPageAssumption DEF Page

(* Staging a page covers it and uncovers nothing.                          *)
LEMMA StagingCovers ==
  ASSUME sources \in Heads, NEW q \in Page, NEW p \in Page, Covered(p),
         ~Superseded(sources[q.src], q), sources' = [sources EXCEPT ![q.src] = q]
  PROVE  Covered(p)'
  <1> /\ p.src \in Source /\ q.src \in Source /\ p.oldest \in Nat /\ q.oldest \in Nat
      /\ q.latest \in Nat /\ q.oldest <= q.latest /\ q # NoPage
    BY PageStamps
  <1>1. CASE p.src # q.src
    BY <1>1 DEF Heads, Covered
  <1>2. CASE p.src = q.src
    <2>1. sources[q.src] \in Page /\ sources[q.src].latest \in Nat
      BY <1>2, StampAssumption DEF Heads, Covered, Page
    <2>2. sources[q.src].latest <= q.oldest
      BY <2>1, <1>2 DEF Superseded, Covered
    <2>3. sources'[p.src] = q
      BY <1>2 DEF Heads
    <2> QED BY <1>2, <2>1, <2>2, <2>3 DEF Covered
  <1> QED BY <1>1, <1>2

LEMMA CoveredStep ==
  ASSUME TypeInv, [StoreNext]_vars, NEW p \in Page, Covered(p)
  PROVE  Covered(p)'
  <1>1. CASE sources' = sources
    BY <1>1 DEF Covered
  <1>2. CASE sources' # sources
    <2>1. PICK r \in Request : CommitPage(r)
      BY <1>2, OnlyCommitMovesSources
    <2>2. PICK q \in Page : q = PageOf(r)
      BY <2>1, PageType DEF CommitPage
    <2>3. ~Superseded(sources[q.src], q) /\ sources' = [sources EXCEPT ![q.src] = q]
      BY <1>2, <2>1, <2>2 DEF CommitPage
    <2> QED BY <2>3, StagingCovers DEF TypeInv, TypeOK
  <1> QED BY <1>1, <1>2

(* A page is covered once the store has checked or committed it.           *)
LEMMA SupersededCovers ==
  ASSUME sources \in Heads, NEW p \in Page, Superseded(sources[p.src], p)
  PROVE  Covered(p)
  <1>1. p.src \in Source /\ p.oldest \in Nat
    BY PageStamps
  <1>2. sources[p.src] \in Page /\ sources[p.src].latest \in Nat
    BY <1>1, StampAssumption DEF Heads, Superseded, Page
  <1> QED BY <1>1, <1>2 DEF Superseded, Covered

(* Every page before the one at hand is covered.                           *)
ImportsProgress ==
  \A r \in Request :
    /\ pc[r] = "idle" => at[r] = 1
    /\ pc[r] \in ImportPc =>
         /\ at[r] <= Len(job[r].pages) + 1
         /\ \A i \in 1 .. at[r] - 1 : Covered(job[r].pages[i])

ImportInv == ImportsProgress /\ AcknowledgedImportsStay

LEMMA BatchPages ==
  ASSUME TypeInv, NEW r \in Request, job[r].kind = "import"
  PROVE  /\ Len(job[r].pages) \in Nat
         /\ DOMAIN job[r].pages = 1 .. Len(job[r].pages)
         /\ \A i \in 1 .. Len(job[r].pages) : job[r].pages[i] \in Page
  <1>1. job[r] \in Job
    BY DEF TypeInv, TypeOK
  <1>2. job[r].pages \in Seq(Page)
    BY <1>1, JobTypes, JobAssumption DEF ImportJob, PublishJob
  <1> QED BY <1>2

LEMMA ImportingJob ==
  ASSUME TypeInv, NEW r \in Request, pc[r] \in ImportPc
  PROVE  job[r].kind = "import"
  BY JobTypes DEF TypeInv, TypeOK, JobMatches

(* The page a check or a commit leaves behind is covered.                  *)
LEMMA LeftBehind ==
  ASSUME TypeInv, NEW r \in Request, CheckPage(r) \/ CommitPage(r), at'[r] # at[r],
         NEW p \in Page, p = PageOf(r)
  PROVE  /\ at'[r] = at[r] + 1
         /\ at[r] <= Len(job[r].pages)
         /\ Covered(p)'
  <1>1. at \in [Request -> Nat \ {0}] /\ sources \in Heads
    BY DEF TypeInv, TypeOK
  <1>2. at[r] <= Len(job[r].pages) /\ at'[r] = at[r] + 1
    BY <1>1 DEF CheckPage, CommitPage, TypeInv, JobMatches
  <1>3. CASE Superseded(sources[p.src], p)
    <2>1. sources' = sources
      BY <1>3 DEF CheckPage, CommitPage
    <2> QED BY <1>1, <1>2, <1>3, <2>1, SupersededCovers DEF Covered
  <1>4. CASE ~Superseded(sources[p.src], p)
    <2>1. sources' = [sources EXCEPT ![p.src] = p]
      BY <1>4 DEF CheckPage, CommitPage
    <2>2. sources'[p.src] = p
      BY <1>1, <2>1, PageStamps DEF Heads
    <2> QED BY <1>2, <2>2, PageStamps DEF Covered
  <1> QED BY <1>3, <1>4

(* Who moves a request into or along an import.                            *)
LEMMA ImportMoves ==
  ASSUME TypeInv, [StoreNext]_vars, NEW r \in Request, pc'[r] \in ImportPc
  PROVE  \/ pc[r] = "idle" /\ at'[r] = at[r]
         \/ pc[r] \in ImportPc /\ at'[r] = at[r]
         \/ pc[r] \in ImportPc /\ (CheckPage(r) \/ CommitPage(r))
  <1> pc \in [Request -> Pc] /\ at \in [Request -> Nat \ {0}]
    BY DEF TypeInv, TypeOK
  <1>1. ASSUME NEW q \in Request, AcquireLease(q) \/ Fail(q) \/ AnswerFailure(q)
        PROVE  (pc[r] = "idle" \/ pc[r] \in ImportPc) /\ at'[r] = at[r]
    BY <1>1 DEF AcquireLease, Fail, AnswerFailure
  <1>2. ASSUME NEW q \in Request, ReleaseLease(q) \/ Crash(q)
        PROVE  pc[r] \in ImportPc /\ at'[r] = at[r]
    BY <1>2 DEF ReleaseLease, Crash, Forget
  <1>3. ASSUME NEW q \in Request, ImportStep(q), q = r => ~CheckPage(r) /\ ~CommitPage(r)
        PROVE  pc[r] \in ImportPc /\ at'[r] = at[r]
    BY <1>3 DEF ImportStep, CheckPage, UploadPage, CommitPage, FinishImport, Committed
  <1>4. ASSUME CheckPage(r) \/ CommitPage(r) PROVE pc[r] \in ImportPc
    BY <1>4 DEF CheckPage, CommitPage
  <1>5. ASSUME NEW q \in Request, PublishStep(q)
        PROVE  pc[r] \in ImportPc /\ at'[r] = at[r]
    BY <1>5 DEF PublishStep, BeginPublication, AnswerPublished, ListSources, EnterPhase, ReadSources,
                PutSearch, PutCheckpoint, Activate, Committed, PublishKeeps, PhaseAfter
  <1>6. ASSUME Tick \/ UNCHANGED vars PROVE pc[r] \in ImportPc /\ at'[r] = at[r]
    BY <1>6 DEF Tick, vars, requestVars
  <1> QED BY <1>1, <1>2, <1>3, <1>4, <1>5, <1>6 DEF StoreNext, ServerStep

LEMMA IdleMoves ==
  ASSUME TypeInv, [StoreNext]_vars, NEW r \in Request, pc'[r] = "idle"
  PROVE  pc[r] = "idle" /\ at'[r] = at[r]
  <1> pc \in [Request -> Pc] /\ at \in [Request -> Nat \ {0}]
    BY DEF TypeInv, TypeOK
  <1> USE DEF StoreNext, ServerStep, ImportStep, PublishStep
  <1>1. ASSUME NEW q \in Request, AcquireLease(q) \/ Fail(q) \/ AnswerFailure(q) \/ ReleaseLease(q) \/ Crash(q)
        PROVE  pc[r] = "idle" /\ at'[r] = at[r]
    BY <1>1 DEF AcquireLease, Fail, AnswerFailure, ReleaseLease, Crash, Forget
  <1>2. ASSUME NEW q \in Request, ImportStep(q) PROVE pc[r] = "idle" /\ at'[r] = at[r]
    BY <1>2 DEF CheckPage, UploadPage, CommitPage, FinishImport, Committed
  <1>3. ASSUME NEW q \in Request, PublishStep(q) PROVE pc[r] = "idle" /\ at'[r] = at[r]
    BY <1>3 DEF BeginPublication, AnswerPublished, ListSources, EnterPhase, ReadSources,
                PutSearch, PutCheckpoint, Activate, Committed, PublishKeeps, PhaseAfter
  <1>4. ASSUME Tick \/ UNCHANGED vars PROVE pc[r] = "idle" /\ at'[r] = at[r]
    BY <1>4 DEF Tick, vars, requestVars
  <1> QED BY <1>1, <1>2, <1>3, <1>4

LEMMA ImportInvStep ==
  TypeInv /\ ImportInv /\ [StoreNext]_vars => ImportInv'
  <1> SUFFICES ASSUME TypeInv, ImportInv, [StoreNext]_vars, NEW r \in Request
               PROVE  /\ pc'[r] = "idle" => at'[r] = 1
                      /\ pc'[r] \in ImportPc =>
                           /\ at'[r] <= Len(job'[r].pages) + 1
                           /\ \A i \in 1 .. at'[r] - 1 : Covered(job[r].pages[i])'
                      /\ job'[r].kind = "import" /\ result'[r] = "ok" =>
                           \A i \in DOMAIN job'[r].pages : Covered(job[r].pages[i])'
    BY DEF ImportInv, ImportsProgress, AcknowledgedImportsStay
  <1>1. job' = job /\ at \in [Request -> Nat \ {0}]
    BY JobFixed DEF TypeInv, TypeOK
  <1>2. ASSUME NEW i \in Nat, job[r].kind = "import", i \in 1 .. Len(job[r].pages),
               Covered(job[r].pages[i])
        PROVE  Covered(job[r].pages[i])'
    <2>1. PICK p \in Page : p = job[r].pages[i]
      BY <1>2, BatchPages
    <2>2. Covered(p)'
      BY <1>2, <2>1, CoveredStep
    <2> QED BY <1>1, <2>1, <2>2 DEF Covered
  <1>3. pc'[r] = "idle" => at'[r] = 1
    BY IdleMoves DEF ImportInv, ImportsProgress
  <1>4. ASSUME pc'[r] \in ImportPc
        PROVE  /\ at'[r] <= Len(job[r].pages) + 1
               /\ \A i \in 1 .. at'[r] - 1 : Covered(job[r].pages[i])'
    <2>1. job[r].kind = "import" /\ Len(job[r].pages) \in Nat
      <3>1. TypeInv'
        BY TypeStep
      <3>2. job[r] \in ImportJob
        BY <1>1, <1>4, <3>1 DEF TypeInv, JobMatches
      <3>3. job[r].kind = "import"
        BY <3>2 DEF ImportJob
      <3> QED BY <3>3, BatchPages
    <2>2. CASE pc[r] = "idle" /\ at'[r] = at[r]
      <3>1. at'[r] = 1
        BY <2>2 DEF ImportInv, ImportsProgress
      <3> QED BY <2>1, <3>1
    <2>3. CASE pc[r] \in ImportPc /\ at'[r] = at[r]
      <3>1. /\ at[r] <= Len(job[r].pages) + 1
            /\ \A i \in 1 .. at[r] - 1 : Covered(job[r].pages[i])
        BY <2>3 DEF ImportInv, ImportsProgress
      <3>2. ASSUME NEW i \in 1 .. at[r] - 1 PROVE Covered(job[r].pages[i])'
        <4>1. i \in Nat /\ i \in 1 .. Len(job[r].pages)
          BY <1>1, <2>1, <3>1
        <4> QED BY <1>2, <2>1, <3>1, <4>1
      <3> QED BY <2>3, <3>1, <3>2
    <2>4. CASE pc[r] \in ImportPc /\ (CheckPage(r) \/ CommitPage(r)) /\ at'[r] # at[r]
      <3>1. at[r] <= Len(job[r].pages)
        BY <2>4 DEF CheckPage, CommitPage, TypeInv, JobMatches
      <3>2. PICK p \in Page : p = PageOf(r)
        BY <1>1, <2>1, <3>1, BatchPages DEF PageOf
      <3>3. at'[r] = at[r] + 1 /\ Covered(p)'
        BY <2>4, <3>2, LeftBehind
      <3>4. ASSUME NEW i \in 1 .. at[r] PROVE Covered(job[r].pages[i])'
        <4>1. CASE i = at[r]
          <5>1. p = job'[r].pages[i]
            BY <1>1, <3>2, <4>1 DEF PageOf
          <5> QED BY <3>3, <5>1 DEF Covered
        <4>2. CASE i # at[r]
          BY <1>1, <1>2, <2>1, <2>4, <3>1, <3>4, <4>2 DEF ImportInv, ImportsProgress
        <4> QED BY <4>1, <4>2
      <3> QED BY <1>1, <2>1, <3>1, <3>3, <3>4
    <2> QED BY <1>4, <2>2, <2>3, <2>4, ImportMoves
  <1>5. ASSUME job[r].kind = "import", result'[r] = "ok", NEW i \in DOMAIN job[r].pages
        PROVE  Covered(job[r].pages[i])'
    <2>1. i \in Nat /\ i \in 1 .. Len(job[r].pages)
      BY <1>5, BatchPages
    <2>2. Covered(job[r].pages[i])
      <3>1. CASE result[r] = "ok"
        BY <1>5, <3>1 DEF ImportInv, AcknowledgedImportsStay
      <3>2. CASE FinishImport(r)
        BY <1>1, <1>5, <2>1, <3>2, BatchPages DEF FinishImport, ImportInv, ImportsProgress
      <3>3. ~AnswerPublished(r) /\ ~Activate(r)
        BY <1>5, JobTypes DEF AnswerPublished, Activate, TypeInv, TypeOK, JobMatches
      <3> QED BY <1>5, <3>1, <3>2, <3>3, OnlyAnswersAcknowledge
    <2> QED BY <1>2, <1>5, <2>1, <2>2
  <1> QED BY <1>1, <1>3, <1>4, <1>5

(* A page whose import was answered with 200 is staged for good, or        *)
(* something at least as new is.                                           *)
THEOREM ImportsStay == StoreSpec => []AcknowledgedImportsStay
  <1>1. StoreInit => ImportInv
    BY DEF StoreInit, ImportInv, ImportsProgress, AcknowledgedImportsStay
  <1>2. StoreSpec => [](TypeInv /\ ImportInv)
    BY <1>1, TypeInit, TypeStep, ImportInvStep, PTL DEF StoreSpec
  <1> QED BY <1>2, PTL DEF ImportInv

-----------------------------------------------------------------------------
(* The publication record *)

Ended == {"failing", "releasing", "done", "crashed"}

(* Beside the record itself: a request has entered no phase before it      *)
(* begins, and the publisher of the current head is past all its steps.    *)
RecordInv ==
  /\ RecordTruthful
  /\ attempt # NoAttempt => job[attempt.id] \in PublishJob
  /\ \A r \in Request : pc[r] \in {"idle", "leased"} => phase[r] = "source_heads"
  /\ catalog # NoCatalog =>
       /\ pc[catalog.revision] \in Ended
       /\ pc[catalog.revision] = "failing" => phase[catalog.revision] = "complete"

LEMMA RecordKept ==
  ASSUME TypeInv, RecordInv, UNCHANGED <<attempt, catalog, job>>,
         \A r \in Request :
           /\ HoldsToken(r)' /\ pc'[r] \in PublishPc \ {"leased"} => HoldsToken(r) /\ pc[r] \in PublishPc \ {"leased"}
           /\ pc'[r] \in {"idle", "leased"} => phase'[r] = "source_heads"
           /\ pc[r] \in Ended => /\ pc'[r] \in Ended
                                 /\ pc'[r] = "failing" => pc[r] = "failing" /\ phase'[r] = phase[r]
  PROVE  RecordInv'
<1>1. catalog # NoCatalog => catalog.revision \in Request
  BY RevisionAssumption DEF TypeInv, TypeOK, Catalog
<1>2. RecordTruthful'
  BY DEF RecordInv, RecordTruthful, PublicAsOf
<1> QED
  BY <1>1, <1>2 DEF RecordInv

(* A step that writes the record of its request, and no head.              *)
LEMMA RecordWritten ==
  ASSUME TypeInv, RecordInv, NEW r \in Request, UNCHANGED <<lease, catalog, job>>,
         attempt' \in Attempt, attempt'.id = r, job[r] \in PublishJob,
         HoldsToken(r) \/ (attempt # NoAttempt /\ attempt.id = r),
         \A q \in Request \ {r} : pc'[q] = pc[q] /\ phase'[q] = phase[q],
         pc'[r] \notin {"idle", "leased"},
         catalog # NoCatalog /\ catalog.revision = r =>
           attempt'.phase = "complete" /\ pc'[r] \in Ended \ {"failing"},
         attempt'.outcome = "succeeded" => attempt'.phase = "complete" /\ PublicAsOf(job[r].finishedAt),
         attempt'.outcome = "running" => attempt'.phase # "complete"
  PROVE  RecordInv'
<1>1. catalog # NoCatalog => catalog.revision \in Request
  BY RevisionAssumption DEF TypeInv, TypeOK, Catalog
<1>2. attempt' # NoAttempt
  BY NoAttemptAssumption
<1>3. ASSUME NEW q \in Request, HoldsToken(q)', pc'[q] \in PublishPc \ {"leased"} PROVE attempt'.id = q
  BY <1>3 DEF RecordInv, RecordTruthful, HoldsToken
<1>4. RecordTruthful'
  BY <1>2, <1>3 DEF RecordTruthful, PublicAsOf
<1>5. \A q \in Request : pc'[q] \in {"idle", "leased"} => phase'[q] = "source_heads"
  BY DEF RecordInv
<1>6. catalog' # NoCatalog =>
        /\ pc'[catalog'.revision] \in Ended
        /\ pc'[catalog'.revision] = "failing" => phase'[catalog'.revision] = "complete"
  BY <1>1 DEF RecordInv
<1> QED
  BY <1>4, <1>5, <1>6 DEF RecordInv

LEMMA PublisherTypes ==
  ASSUME TypeInv, NEW r \in Request, pc[r] \in PublishPc
  PROVE  job[r] \in PublishJob /\ job[r].finishedAt \in Nat
BY JobTypes, StampAssumption DEF TypeInv, TypeOK, JobMatches

LEMMA RecordStep ==
  TypeInv /\ PublisherSeesPresent /\ RecordInv /\ [StoreNext]_vars => RecordInv'
<1> SUFFICES ASSUME TypeInv, PublisherSeesPresent, RecordInv, [StoreNext]_vars
             PROVE  RecordInv'
  OBVIOUS
<1> /\ pc \in [Request -> Pc] /\ phase \in [Request -> Phase] /\ attempt \in Attempt \cup {NoAttempt}
    /\ (catalog # NoCatalog => catalog.revision \in Request)
  BY RevisionAssumption DEF TypeInv, TypeOK, Catalog
<1>1. ASSUME NEW r \in Request, AcquireLease(r) PROVE RecordInv'
  <2>1. /\ pc[r] = "idle" /\ pc'[r] \in {"pages", "leased", "done"}
        /\ \A q \in Request \ {r} : pc'[q] = pc[q] /\ ~HoldsToken(q)'
        /\ UNCHANGED <<attempt, catalog, job, phase>>
    BY <1>1 DEF AcquireLease, HoldsToken
  <2> QED
    BY <2>1, RecordKept DEF Ended, RecordInv
<1>2. ASSUME NEW r \in Request, CheckPage(r) \/ UploadPage(r) \/ CommitPage(r) \/ FinishImport(r)
      PROVE  RecordInv'
  <2>1. /\ pc[r] \in ImportPc /\ pc'[r] \in ImportPc \cup {"failing", "releasing"}
        /\ \A q \in Request \ {r} : pc'[q] = pc[q]
        /\ UNCHANGED <<attempt, catalog, job, phase, lease>>
    BY <1>2 DEF CheckPage, UploadPage, CommitPage, FinishImport, ImportKeeps, Committed
  <2> QED
    BY <2>1, RecordKept DEF Ended, RecordInv, HoldsToken
<1>3. ASSUME NEW r \in Request, ListSources(r) \/ ReadSources(r) \/ PutSearch(r) \/ PutCheckpoint(r)
      PROVE  RecordInv'
  <2>1. /\ pc[r] \in PublishPc \ {"leased"} /\ pc'[r] \in (PublishPc \ {"leased"}) \cup {"failing"}
        /\ \A q \in Request \ {r} : pc'[q] = pc[q]
        /\ UNCHANGED <<attempt, catalog, job, phase, lease>>
    BY <1>3 DEF ListSources, ReadSources, PutSearch, PutCheckpoint, PublishKeeps, Committed
  <2> QED
    BY <2>1, RecordKept DEF Ended, RecordInv, HoldsToken
<1>4. ASSUME NEW r \in Request, Fail(r) PROVE RecordInv'
  <2>1. /\ pc[r] \in ImportPc \cup PublishPc /\ pc'[r] = "failing"
        /\ \A q \in Request \ {r} : pc'[q] = pc[q] /\ phase'[q] = phase[q]
        /\ UNCHANGED <<attempt, catalog, job, lease>>
    BY <1>4 DEF Fail
  <2> QED
    BY <2>1, RecordKept DEF Ended, RecordInv, HoldsToken
<1>5. ASSUME NEW r \in Request, ReleaseLease(r) \/ Crash(r) PROVE RecordInv'
  <2>1. /\ pc[r] # "idle" /\ pc'[r] \in {"done", "crashed"}
        /\ \A q \in Request \ {r} : pc'[q] = pc[q] /\ phase'[q] = phase[q]
        /\ UNCHANGED <<attempt, catalog, job>>
        /\ \A q \in Request : HoldsToken(q)' => HoldsToken(q)
    BY <1>5 DEF ReleaseLease, Crash, Forget, HoldsToken
  <2> QED
    BY <2>1, RecordKept DEF Ended, RecordInv
<1>6. ASSUME Tick \/ UNCHANGED vars PROVE RecordInv'
  <2>1. \A q \in Request : HoldsToken(q)' => HoldsToken(q)
    BY <1>6 DEF Tick, vars, HoldsToken, TypeInv, TypeOK, Lease
  <2>2. UNCHANGED <<attempt, catalog, job, pc, phase>>
    BY <1>6 DEF Tick, vars, requestVars
  <2> QED
    BY <2>1, <2>2, RecordKept DEF Ended, RecordInv
<1>7. ASSUME NEW r \in Request, BeginPublication(r) PROVE RecordInv'
  <2>1. /\ pc[r] = "leased" /\ HoldsToken(r) /\ phase[r] = "source_heads" /\ job[r] \in PublishJob
        /\ UNCHANGED <<lease, catalog, job, phase>>
        /\ attempt' = [id |-> r, phase |-> phase[r], outcome |-> "running"]
        /\ pc'[r] \in {"begun", "failing"} /\ \A q \in Request \ {r} : pc'[q] = pc[q]
    BY <1>7, PublisherTypes DEF BeginPublication, HoldsLive, HoldsToken, Committed, PublishKeeps, RecordInv
  <2>2. attempt' \in Attempt /\ attempt'.id = r /\ attempt'.phase = "source_heads" /\ attempt'.outcome = "running"
    BY <2>1 DEF Attempt
  <2>3. ~(catalog # NoCatalog /\ catalog.revision = r)
    BY <2>1 DEF RecordInv, Ended
  <2> QED
    BY <2>1, <2>2, <2>3, RecordWritten
<1>8. ASSUME NEW r \in Request, EnterPhase(r) PROVE RecordInv'
  <2>1. /\ pc[r] \in PublishPc \ {"leased"} /\ HoldsToken(r) /\ job[r] \in PublishJob
        /\ NextPhase(r) \in Phase \ {"complete"}
        /\ UNCHANGED <<lease, catalog, job>>
        /\ attempt' = [id |-> r, phase |-> NextPhase(r), outcome |-> "running"]
        /\ pc'[r] \in PublishPc \cup {"failing"} /\ pc'[r] # "leased"
        /\ \A q \in Request \ {r} : pc'[q] = pc[q] /\ phase'[q] = phase[q]
    BY <1>8, PublisherTypes DEF EnterPhase, PhaseAfter, NextPhase, HoldsLive, HoldsToken, Committed, PublishKeeps,
                                Record, Phase
  <2>2. attempt' \in Attempt /\ attempt'.id = r /\ attempt'.phase # "complete" /\ attempt'.outcome = "running"
    BY <2>1 DEF Attempt
  <2>3. ~(catalog # NoCatalog /\ catalog.revision = r)
    BY <2>1 DEF RecordInv, Ended
  <2> QED
    BY <2>1, <2>2, <2>3, RecordWritten
<1>9. ASSUME NEW r \in Request, AnswerPublished(r) PROVE RecordInv'
  <2>1. /\ pc[r] = "begun" /\ HoldsToken(r) /\ job[r] \in PublishJob /\ job[r].finishedAt \in Nat
        /\ AlreadyPublished(previous[r], job[r]) /\ previous[r] = catalog
        /\ NextPhase(r) = "complete"
        /\ UNCHANGED <<lease, catalog, job>>
        /\ attempt' = [id |-> r, phase |-> NextPhase(r), outcome |-> "succeeded"]
        /\ pc'[r] \in {"releasing", "failing"}
        /\ \A q \in Request \ {r} : pc'[q] = pc[q] /\ phase'[q] = phase[q]
    BY <1>9, PublisherTypes DEF AnswerPublished, PhaseAfter, NextPhase, HoldsLive, HoldsToken, PublishKeeps, Record,
                                PublisherSeesPresent
  <2>2. /\ attempt' \in Attempt /\ attempt'.id = r /\ attempt'.phase = "complete"
        /\ attempt'.outcome = "succeeded"
    BY <2>1 DEF Attempt, Phase
  <2>3. ~(catalog # NoCatalog /\ catalog.revision = r)
    BY <2>1 DEF RecordInv, Ended
  <2>4. PublicAsOf(job[r].finishedAt)
    <3>1. catalog # NoCatalog => catalog.finishedAt \in Nat
      BY StampAssumption DEF TypeInv, TypeOK, Catalog
    <3> QED
      BY <2>1, <3>1 DEF AlreadyPublished, PublicAsOf
  <2> QED
    BY <2>1, <2>2, <2>3, <2>4, RecordWritten
<1>10. ASSUME NEW r \in Request, AnswerFailure(r) PROVE RecordInv'
  <2>1. /\ pc[r] = "failing" /\ pc'[r] = "releasing" /\ \A q \in Request \ {r} : pc'[q] = pc[q]
        /\ UNCHANGED <<lease, catalog, job, phase>>
    BY <1>10 DEF AnswerFailure
  <2>2. CASE attempt' = attempt
    BY <2>1, <2>2, RecordKept DEF Ended, RecordInv, HoldsToken
  <2>3. CASE OwnsAttempt(r) /\ attempt' = [id |-> r, phase |-> phase[r], outcome |-> "failed"]
    <3>1. attempt' \in Attempt /\ attempt'.id = r /\ attempt'.phase = phase[r] /\ attempt'.outcome = "failed"
      BY <2>3 DEF Attempt
    <3>2. attempt # NoAttempt /\ attempt.id = r /\ job[r] \in PublishJob
      BY <2>3 DEF OwnsAttempt, RecordInv
    <3>3. catalog # NoCatalog /\ catalog.revision = r =>
            attempt'.phase = "complete" /\ pc'[r] \in Ended \ {"failing"}
      BY <2>1, <3>1 DEF RecordInv, Ended
    <3> QED
      BY <2>1, <3>1, <3>2, <3>3, RecordWritten
  <2> QED
    BY <1>10, <2>2, <2>3 DEF AnswerFailure
<1>11. ASSUME NEW r \in Request, Activate(r) PROVE RecordInv'
  <2>1. /\ pc[r] = "activate" /\ HoldsToken(r) /\ job[r] \in PublishJob /\ job[r].finishedAt \in Nat
        /\ NextPhase(r) = "complete" /\ UNCHANGED <<lease, job>>
        /\ attempt' = [id |-> r, phase |-> NextPhase(r), outcome |-> "succeeded"]
        /\ catalog'.revision = r
        /\ pc'[r] \in {"releasing", "failing"} /\ phase'[r] = "complete"
        /\ \A q \in Request \ {r} : pc'[q] = pc[q] /\ phase'[q] = phase[q]
    BY <1>11, PublisherTypes DEF Activate, PhaseAfter, NextPhase, HoldsLive, HoldsToken, PublishKeeps, Record
  <2>2. /\ attempt' \in Attempt /\ attempt'.id = r /\ attempt'.phase = "complete"
        /\ attempt'.outcome = "succeeded" /\ attempt' # NoAttempt
    BY <2>1, NoAttemptAssumption DEF Attempt, Phase
  <2>3. catalog' # NoCatalog /\ catalog'.finishedAt = job[r].finishedAt
    BY <1>11, CatalogForward
  <2>4. PublicAsOf(job[r].finishedAt)'
    BY <2>1, <2>3 DEF PublicAsOf
  <2>5. \A q \in Request : HoldsToken(q)' /\ pc'[q] \in PublishPc \ {"leased"} => FALSE
    BY <2>1 DEF HoldsToken
  <2>6. RecordTruthful'
    BY <2>1, <2>2, <2>4, <2>5 DEF RecordTruthful, PublicAsOf
  <2> QED
    BY <2>1, <2>2, <2>3, <2>6 DEF RecordInv, Ended
<1> QED
  BY <1>1, <1>2, <1>3, <1>4, <1>5, <1>6, <1>7, <1>8, <1>9, <1>10, <1>11 DEF StoreNext, ServerStep, ImportStep, PublishStep

(* The publication record is that of the publisher at work, and says       *)
(* "succeeded" only of a report that is public.                            *)
THEOREM RecordStaysTruthful == StoreSpec => []RecordTruthful
<1>1. StoreInit => PublisherSeesPresent /\ RecordInv
  BY DEF StoreInit, Init, PublisherSeesPresent, HoldsToken, RecordInv, RecordTruthful
<1>2. StoreSpec => [](TypeInv /\ PublisherSeesPresent /\ RecordInv)
  BY <1>1, TypeInit, TypeStep, ViewStep, RecordStep, PTL DEF StoreSpec
<1>3. RecordInv => RecordTruthful
  BY DEF RecordInv
<1> QED BY <1>2, <1>3, PTL

-----------------------------------------------------------------------------
(* The events of a checkpoint: CheckpointSelection                         *)
(*                                                                         *)
(* AliasesAgree compares all pairs of events seen, while the code compares *)
(* each event with the selected one only.  The inductive invariant         *)
(* therefore ties every event seen to the event selected for its id.       *)

(* Every event seen is selected, or agrees with the selected one.          *)
TiedToSelected ==
  \A e \in Seen :
    e = selected[e.id] \/ (e.listing = selected[e.id].listing /\ e.listing # NoListing)

SelectionInv == SelectionTypeOK /\ NewestWins /\ TiedToSelected

-----------------------------------------------------------------------------
(* Where the loop stands. *)

LEMMA EventParts ==
  ASSUME NEW e \in Event
  PROVE  e.id \in Id /\ e.at \in Int /\ e.size \in Int
<1>1. e.id \in Id /\ e.at \in ObservedAt /\ e.size \in Size
  BY DEF Event
<1>2. ObservedAt \subseteq Int /\ Size \subseteq Int
  BY SelectionAssumption
<1> QED
  BY <1>1, <1>2

LEMMA CurrentIsEvent ==
  ASSUME SelectionTypeOK, Reading
  PROVE  /\ Current \in Event
         /\ taken + 1 \in 0 .. Len(staged)
BY DEF SelectionTypeOK, Reading, Current

LEMMA SeenGrows ==
  ASSUME SelectionTypeOK, Reading, taken' = taken + 1, UNCHANGED staged
  PROVE  /\ Seen' = Seen \cup {Current}
         /\ Seen \subseteq Event
BY DEF SelectionTypeOK, Reading, Current, Seen

LEMMA SelectedAreEvents ==
  ASSUME SelectionTypeOK, NEW id \in Id, selected[id] # None
  PROVE  selected[id] \in Event
BY DEF SelectionTypeOK

-----------------------------------------------------------------------------

LEMMA SelectionInitEstablishes == SelectionInit => SelectionInv
<1> SUFFICES ASSUME SelectionInit PROVE SelectionInv
  OBVIOUS
<1>1. SelectionTypeOK
  <2>1. PICK n \in 0 .. MaxStaged : staged \in [1 .. n -> Event]
    BY DEF SelectionInit
  <2>2. staged \in Seq(Event)
    BY <2>1, SelectionAssumption
  <2> QED
    BY <2>2, SelectionAssumption DEF SelectionInit, SelectionTypeOK
<1>2. Seen = {}
  BY DEF SelectionInit, Seen
<1> QED
  BY <1>1, <1>2 DEF SelectionInit, SelectionInv, NewestWins, TiedToSelected, Selected

LEMMA SelectionKeepsType ==
  ASSUME SelectionTypeOK, [SelectionNext]_selectionVars
  PROVE  SelectionTypeOK'
<1>1. CASE TakeNew
  <2>1. Current \in Event
    BY <1>1, CurrentIsEvent DEF TakeNew
  <2>2. selected' \in [Id -> Event \cup {None}] /\ \A id \in Id : selected'[id] # None => selected'[id].id = id
    BY <1>1, <2>1 DEF SelectionTypeOK, TakeNew, Select, Event
  <2>3. approximateBytes' \in Int /\ approximateBytes' <= MaxBytes
    <3>1. Prior = None /\ Current.size \in Int
      BY <1>1, <2>1, EventParts DEF TakeNew
    <3> QED
      BY <1>1, <3>1, SelectionAssumption DEF SelectionTypeOK, TakeNew, Select, Fits, BytesAfter
  <2> QED
    BY <1>1, <2>2, <2>3, CurrentIsEvent DEF TakeNew, SelectionTypeOK
<1>2. CASE TakeNewer
  <2>1. Current \in Event /\ Prior \in Event
    BY <1>2, CurrentIsEvent DEF TakeNewer, SelectionTypeOK, Prior, Event
  <2>2. selected' \in [Id -> Event \cup {None}] /\ \A id \in Id : selected'[id] # None => selected'[id].id = id
    BY <1>2, <2>1 DEF SelectionTypeOK, TakeNewer, Select, Event
  <2>3. approximateBytes' \in Int /\ approximateBytes' <= MaxBytes
    <3>1. Prior # None /\ Current.size \in Int /\ Prior.size \in Int
      BY <1>2, <2>1, EventParts DEF TakeNewer
    <3> QED
      BY <1>2, <3>1, SelectionAssumption DEF SelectionTypeOK, TakeNewer, Select, Fits, BytesAfter
  <2> QED
    BY <1>2, <2>2, <2>3, CurrentIsEvent DEF TakeNewer, SelectionTypeOK
<1>3. CASE SkipOlder
  BY <1>3, CurrentIsEvent DEF SkipOlder, SelectionTypeOK
<1>4. CASE Refuse \/ Finish
  BY <1>4 DEF Refuse, Finish, SelectionTypeOK
<1>5. CASE UNCHANGED selectionVars
  BY <1>5 DEF selectionVars, SelectionTypeOK
<1> QED
  BY <1>1, <1>2, <1>3, <1>4, <1>5 DEF SelectionNext

(* What Select does to the events seen, whether the id is new or not.      *)
LEMMA SelectKeeps ==
  ASSUME SelectionTypeOK, NewestWins, TiedToSelected, Reading, Select,
         taken' = taken + 1, UNCHANGED staged,
         Prior # None => Agrees /\ Newer
  PROVE  NewestWins' /\ TiedToSelected'
<1>1. Current \in Event /\ Seen' = Seen \cup {Current} /\ Seen \subseteq Event
  BY CurrentIsEvent, SeenGrows
<1>2. Current.id \in Id /\ Current.at \in Int
  BY <1>1, EventParts
<1>3. selected'[Current.id] = Current
  BY <1>2 DEF Select, SelectionTypeOK
<1>4. \A id \in Id : id # Current.id => selected'[id] = selected[id]
  BY DEF Select, SelectionTypeOK
<1>5. ASSUME NEW e \in Seen'
      PROVE  /\ selected'[e.id] # None /\ e.at <= selected'[e.id].at
             /\ e = selected'[e.id] \/ (e.listing = selected'[e.id].listing /\ e.listing # NoListing)
  <2>1. e.id \in Id /\ e.at \in Int
    BY <1>1, EventParts
  <2>2. CASE e = Current
    BY <2>2, <1>1, <1>2, <1>3, NoneAssumption
  <2>3. CASE e # Current /\ e.id # Current.id
    BY <2>3, <2>1, <1>1, <1>4 DEF NewestWins, TiedToSelected
  <2>4. CASE e # Current /\ e.id = Current.id
    <3>1. e \in Seen
      BY <2>4, <1>1
    <3>2. Prior # None /\ e.at <= Prior.at
      BY <2>4, <3>1 DEF NewestWins, Prior
    <3>3. Prior.at \in Int
      BY <3>2, <1>2, SelectedAreEvents, EventParts DEF Prior
    <3>4. e.at <= Current.at
      BY <3>2, <3>3, <2>1, <1>2 DEF Newer
    <3>5. e.listing = Prior.listing
      BY <2>4, <3>1 DEF TiedToSelected, Prior
    <3>6. e.listing = Current.listing /\ e.listing # NoListing
      BY <3>2, <3>5 DEF Agrees, SameListing
    <3> QED
      BY <3>4, <3>6, <2>4, <1>1, <1>3, NoneAssumption
  <2> QED
    BY <2>2, <2>3, <2>4
<1>6. ASSUME NEW id \in Selected'
      PROVE  selected'[id] \in Seen' /\ selected'[id].id = id
  BY <1>1, <1>3, <1>4 DEF NewestWins, Selected
<1> QED
  BY <1>5, <1>6 DEF NewestWins, TiedToSelected

LEMMA SkipKeeps ==
  ASSUME SelectionTypeOK, NewestWins, TiedToSelected, SkipOlder
  PROVE  NewestWins' /\ TiedToSelected'
<1>1. Current \in Event /\ Seen' = Seen \cup {Current} /\ UNCHANGED selected
  BY CurrentIsEvent, SeenGrows DEF SkipOlder
<1>2. Prior \in Event /\ Prior = selected[Current.id] /\ Prior # None
  BY <1>1, SelectedAreEvents DEF SkipOlder, Prior, Event
<1>3. Current.at <= Prior.at
  BY <1>1, <1>2, EventParts DEF SkipOlder, Newer
<1>4. Current.listing = Prior.listing /\ Current.listing # NoListing
  BY DEF SkipOlder, Agrees, SameListing
<1> QED
  BY <1>1, <1>2, <1>3, <1>4 DEF NewestWins, TiedToSelected, Selected

LEMMA SelectionKeeps == SelectionInv /\ [SelectionNext]_selectionVars => SelectionInv'
<1> SUFFICES ASSUME SelectionInv, [SelectionNext]_selectionVars PROVE SelectionInv'
  OBVIOUS
<1>1. SelectionTypeOK /\ NewestWins /\ TiedToSelected
  BY DEF SelectionInv
<1>2. SelectionTypeOK'
  BY <1>1, SelectionKeepsType
<1>3. CASE TakeNew
  BY <1>1, <1>2, <1>3, SelectKeeps DEF TakeNew, SelectionInv
<1>4. CASE TakeNewer
  BY <1>1, <1>2, <1>4, SelectKeeps DEF TakeNewer, SelectionInv
<1>5. CASE SkipOlder
  BY <1>1, <1>2, <1>5, SkipKeeps DEF SelectionInv
<1>6. CASE Refuse \/ Finish \/ UNCHANGED selectionVars
  <2>1. UNCHANGED <<staged, taken, selected>>
    BY <1>6 DEF Refuse, Finish, selectionVars
  <2> QED
    BY <1>1, <1>2, <2>1 DEF SelectionInv, NewestWins, TiedToSelected, Seen, Selected
<1> QED
  BY <1>3, <1>4, <1>5, <1>6 DEF SelectionNext

LEMMA SelectionInvariant == SelectionSpec => []SelectionInv
BY SelectionInitEstablishes, SelectionKeeps, PTL DEF SelectionSpec

-----------------------------------------------------------------------------

(* The variables keep their types and the size its limit.                  *)
THEOREM SelectionTypeCorrect == SelectionSpec => []SelectionTypeOK
<1>1. SelectionInv => SelectionTypeOK
  BY DEF SelectionInv
<1> QED
  BY <1>1, SelectionInvariant, PTL

(* publishCheckpoint keeps the newest observation of every event, in every *)
(* order of the pages.                                                     *)
THEOREM NewestIsSelected == SelectionSpec => []NewestWins
<1>1. SelectionInv => NewestWins
  BY DEF SelectionInv
<1> QED
  BY <1>1, SelectionInvariant, PTL

(* Although each event is compared with one other only, all observations   *)
(* of an id that go into a checkpoint are of one listing.                  *)
THEOREM AllAliasesAgree == SelectionSpec => []AliasesAgree
<1>1. SelectionInv => AliasesAgree
  <2> SUFFICES ASSUME SelectionInv, NEW d \in Seen, NEW e \in Seen, d.id = e.id
               PROVE  d = e \/ (d.listing = e.listing /\ d.listing # NoListing)
    BY DEF AliasesAgree
  <2> QED
    BY DEF SelectionInv, TiedToSelected
<1> QED
  BY <1>1, SelectionInvariant, PTL
=============================================================================
