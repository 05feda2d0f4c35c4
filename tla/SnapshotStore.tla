--------------------------- MODULE SnapshotStore ---------------------------
(***************************************************************************)
(* web/lib/store.gcp.ts with the import and collection routes that call    *)
(* it: the source heads, catalog head, publication record and sync_lock    *)
(* lease kept in Firestore, and the immutable objects kept in GCS.         *)
(*                                                                         *)
(* Every HTTP request is an actor with a program counter.  One action is   *)
(* one Firestore transaction, one storage call or one read, with the local *)
(* code around it; requests interleave between actions.  The transaction   *)
(* of a request may commit although the request sees an error (its reply   *)
(* is lost), a call may fail without effect, and a request may vanish.     *)
(*                                                                         *)
(* Time is what is left of the lease: left = expiresAt - now().  The       *)
(* instances' clocks differ by at most Skew, so near the expiry one        *)
(* instance may see a live lease and another an expired one.               *)
(***************************************************************************)
EXTENDS CatalogPublication, Integers, Sequences

CONSTANTS Request,   \* HTTP requests; a request's id stands for the random
                     \* token, attempt id and revision it would generate
          Job,       \* what requests ask for
          TTL,       \* lease lifetime in ticks
          Skew,      \* bound on clock differences, in ticks
          NoLease, NoAttempt

ASSUME RevisionAssumption == Revision = Request

ASSUME ClockAssumption == TTL \in Nat /\ Skew \in Nat

ImportJob == [kind : {"import"}, pages : Seq(Page)]
PublishJob == [kind : {"publish"}, finishedAt : Stamp, profile : Profile]

ASSUME JobAssumption == Job \subseteq ImportJob \cup PublishJob

VARIABLES lease,      \* the sync_lock document
          attempt,    \* state/checkpoint-publication
          blobs,      \* objects in the bucket
          pc,         \* where each request is
          job,        \* its arguments
          at,         \* importPages: index of the page being imported
          previous,   \* publishCheckpoint: the catalog head read at the start
          listed,     \* publishCheckpoint: the source heads it listed
          phase,      \* publishCheckpoint: the phase of its own attempt object
          result      \* the HTTP reply

requestVars == <<pc, job, at, previous, listed, phase, result>>
vars == <<sources, catalog, lease, attempt, blobs, requestVars>>

-----------------------------------------------------------------------------
(* Types *)

Lease == [token : Request, left : Int]

Phase == {"source_heads", "source_reads", "materialize", "write_search",
          "write_checkpoint", "activate", "complete"}

Attempt == [id : Request, phase : Phase, outcome : {"running", "succeeded", "failed"}]

ASSUME NoAttemptAssumption == NoAttempt \notin Attempt

(* sources/<digest>/<hash>.json is named by its content, the other two     *)
(* carry a random id.                                                      *)
Object == {<<"source", p>> : p \in Page}
          \cup {<<"search", r>> : r \in Request}
          \cup {<<"checkpoint", r>> : r \in Request}

ImportPc == {"pages", "upload", "commit"}
PublishPc == {"leased", "begun", "listed", "source_reads", "selected", "materialize",
              "write_search", "search_put", "write_checkpoint", "checkpoint_put", "activate"}
Pc == {"idle", "failing", "releasing", "done", "crashed"} \cup ImportPc \cup PublishPc

TypeOK ==
  /\ sources \in Heads
  /\ catalog \in Catalog \cup {NoCatalog}
  /\ lease \in Lease \cup {NoLease}
  /\ attempt \in Attempt \cup {NoAttempt}
  /\ blobs \subseteq Object
  /\ pc \in [Request -> Pc]
  /\ job \in [Request -> Job]
  /\ at \in [Request -> Nat \ {0}]
  /\ previous \in [Request -> Catalog \cup {NoCatalog}]
  /\ listed \in [Request -> Heads]
  /\ phase \in [Request -> Phase]
  /\ result \in [Request -> {"none", "ok", "error"}]

StoreInit ==
  /\ Init
  /\ lease = NoLease
  /\ attempt = NoAttempt
  /\ blobs = {}
  /\ pc = [r \in Request |-> "idle"]
  /\ job \in [Request -> Job]
  /\ at = [r \in Request |-> 1]
  /\ previous = [r \in Request |-> NoCatalog]
  /\ listed = [r \in Request |-> [s \in Source |-> NoPage]]
  /\ phase = [r \in Request |-> "source_heads"]
  /\ result = [r \in Request |-> "none"]

-----------------------------------------------------------------------------
(* The lease *)

MaySeeLive(l) == l # NoLease /\ l.left + Skew > 0
NeverExpires(l) == l = NoLease
MaySeeExpired(l) == l # NoLease => l.left - Skew <= 0

(* liveLease: the request's own token, unexpired on its clock.             *)
HoldsAnyLive(r) == MaySeeLive(lease)
HoldsLive(r) == lease # NoLease /\ lease.token = r /\ MaySeeLive(lease)

(* A committed transaction whose reply arrives, or is lost on the way.     *)
Committed(r, next) ==
  \E target \in {next, "failing"} : pc' = [pc EXCEPT ![r] = target]

(* acquireLease in the route.  A caller refused with 409 has changed       *)
(* nothing and may try again, so refusal is no step.  When the reply is    *)
(* lost the route knows no lease to release.                               *)
AcquireLease(r) ==
  /\ pc[r] = "idle"
  /\ MaySeeExpired(lease)
  /\ lease' = [token |-> r, left |-> TTL]
  /\ \/ /\ pc' = [pc EXCEPT ![r] = IF job[r].kind = "import" THEN "pages" ELSE "leased"]
        /\ UNCHANGED result
     \/ /\ pc' = [pc EXCEPT ![r] = "done"]
        /\ result' = [result EXCEPT ![r] = "error"]
  /\ UNCHANGED <<sources, catalog, attempt, blobs, job, at, previous, listed, phase>>

(* The locals of a request are gone with it.                               *)
Forget(r) ==
  /\ at' = [at EXCEPT ![r] = 1]
  /\ previous' = [previous EXCEPT ![r] = NoCatalog]
  /\ listed' = [listed EXCEPT ![r] = [s \in Source |-> NoPage]]
  /\ phase' = [phase EXCEPT ![r] = "source_heads"]

(* releaseLease in the route's finally.  Its failure is swallowed.         *)
ReleaseLease(r) ==
  /\ pc[r] = "releasing"
  /\ lease' \in {lease, IF lease # NoLease /\ lease.token = r THEN NoLease ELSE lease}
  /\ pc' = [pc EXCEPT ![r] = "done"]
  /\ Forget(r)
  /\ UNCHANGED <<sources, catalog, attempt, blobs, job, result>>

-----------------------------------------------------------------------------
(* importPages, one page of the batch after the other *)

PageOf(r) == job[r].pages[at[r]]

ImportKeeps == UNCHANGED <<catalog, lease, attempt, job, previous, listed, phase>>

(* The untransacted look before the upload.                                *)
CheckPage(r) ==
  /\ pc[r] = "pages"
  /\ at[r] <= Len(job[r].pages)
  /\ IF Superseded(sources[PageOf(r).src], PageOf(r))
     THEN at' = [at EXCEPT ![r] = @ + 1] /\ UNCHANGED pc
     ELSE pc' = [pc EXCEPT ![r] = "upload"] /\ UNCHANGED at
  /\ ImportKeeps /\ UNCHANGED <<sources, blobs, result>>

UploadNotAwaited(r) ==
  /\ pc[r] = "upload"
  /\ blobs' \in {blobs, blobs \cup {<<"source", PageOf(r)>>}}
  /\ Committed(r, "commit")
  /\ ImportKeeps /\ UNCHANGED <<sources, at, result>>
UploadPage(r) ==
  /\ pc[r] = "upload"
  /\ blobs' = blobs \cup {<<"source", PageOf(r)>>}
  /\ Committed(r, "commit")
  /\ ImportKeeps /\ UNCHANGED <<sources, at, result>>

CommitPage(r) ==
  /\ pc[r] = "commit"
  /\ HoldsLive(r)
  /\ sources' = IF Superseded(sources[PageOf(r).src], PageOf(r)) THEN sources
                ELSE [sources EXCEPT ![PageOf(r).src] = PageOf(r)]
  /\ at' = [at EXCEPT ![r] = @ + 1]
  /\ Committed(r, "pages")
  /\ ImportKeeps /\ UNCHANGED <<blobs, result>>

FinishImport(r) ==
  /\ pc[r] = "pages"
  /\ at[r] > Len(job[r].pages)
  /\ pc' = [pc EXCEPT ![r] = "releasing"]
  /\ result' = [result EXCEPT ![r] = "ok"]
  /\ ImportKeeps /\ UNCHANGED <<sources, blobs, at>>

-----------------------------------------------------------------------------
(* publishCheckpoint *)

PublishKeeps == UNCHANGED <<sources, lease, job, at>>

(* The first transaction: read the head to compare with, open the record.  *)
BeginPublication(r) ==
  /\ pc[r] = "leased"
  /\ HoldsLive(r)
  /\ previous' = [previous EXCEPT ![r] = catalog]
  /\ attempt' = [id |-> r, phase |-> phase[r], outcome |-> "running"]
  /\ Committed(r, "begun")
  /\ PublishKeeps /\ UNCHANGED <<catalog, blobs, listed, phase, result>>

(* updateAttempt(): the request still holds the lease and owns the record. *)
OwnsAnyAttempt(r) == attempt # NoAttempt
OwnsAttempt(r) == attempt # NoAttempt /\ attempt.id = r

SameReportPublished(head, j) ==
  head # NoCatalog /\ j.finishedAt = head.finishedAt /\ j.profile \in {NoProfile, head.profile}
AlreadyPublished(head, j) ==
  /\ head # NoCatalog
  /\ \/ j.finishedAt < head.finishedAt
     \/ j.finishedAt = head.finishedAt /\ j.profile \in {NoProfile, head.profile}

PhaseAfterUnlisted ==
  [listed |-> "source_reads", selected |-> "build", build |-> "write_search",
   search_put |-> "write_checkpoint", checkpoint_put |-> "activate"]
PhaseAfter == [listed |-> "source_reads", selected |-> "materialize",
               materialize |-> "write_search", search_put |-> "write_checkpoint",
               checkpoint_put |-> "activate"]

(* The phase that the step at hand enters in the attempt object.           *)
NextPhase(r) ==
  CASE pc[r] \in DOMAIN PhaseAfter -> PhaseAfter[pc[r]]
    [] pc[r] = "activate" -> "complete"
    [] pc[r] = "begun" /\ AlreadyPublished(previous[r], job[r]) -> "complete"
    [] OTHER -> phase[r]

Record(r, outcome) ==
  /\ phase' = [phase EXCEPT ![r] = NextPhase(r)]
  /\ attempt' = [id |-> r, phase |-> NextPhase(r), outcome |-> outcome]

(* A retry of a published report, or an older one, answers with the head.  *)
AnswerPublished(r) ==
  /\ pc[r] = "begun"
  /\ AlreadyPublished(previous[r], job[r])
  /\ HoldsLive(r) /\ OwnsAttempt(r)
  /\ Record(r, "succeeded")
  /\ \/ /\ pc' = [pc EXCEPT ![r] = "releasing"]
        /\ result' = [result EXCEPT ![r] = "ok"]
     \/ /\ pc' = [pc EXCEPT ![r] = "failing"]
        /\ UNCHANGED result
  /\ PublishKeeps /\ UNCHANGED <<catalog, blobs, previous, listed>>

(* control.list is outside any transaction.                                *)
ListSources(r) ==
  /\ pc[r] = "begun"
  /\ ~AlreadyPublished(previous[r], job[r])
  /\ listed' = [listed EXCEPT ![r] = sources]
  /\ pc' = [pc EXCEPT ![r] = "listed"]
  /\ PublishKeeps /\ UNCHANGED <<catalog, attempt, blobs, previous, phase, result>>

(* enter(phase): record the phase under the lease.                         *)
EnterPhase(r) ==
  /\ pc[r] \in DOMAIN PhaseAfter
  /\ HoldsLive(r) /\ OwnsAttempt(r)
  /\ Record(r, "running")
  /\ Committed(r, PhaseAfter[pc[r]])
  /\ PublishKeeps /\ UNCHANGED <<catalog, blobs, previous, listed, result>>

(* Check the listed heads and read their objects.                          *)
ReadSourcesOfAnyTime(r) ==
  /\ pc[r] = "source_reads"
  /\ \A p \in Staged(listed[r]) : <<"source", p>> \in blobs
  /\ HasEvents(listed[r])
  /\ pc' = [pc EXCEPT ![r] = "selected"]
  /\ PublishKeeps /\ UNCHANGED <<catalog, attempt, blobs, previous, listed, phase, result>>
ReadSources(r) ==
  /\ pc[r] = "source_reads"
  /\ NotNewer(listed[r], job[r].finishedAt)
  /\ \A p \in Staged(listed[r]) : <<"source", p>> \in blobs
  /\ HasEvents(listed[r])
  /\ pc' = [pc EXCEPT ![r] = "selected"]
  /\ PublishKeeps /\ UNCHANGED <<catalog, attempt, blobs, previous, listed, phase, result>>

PutSearch(r) ==
  /\ pc[r] = "write_search"
  /\ blobs' = blobs \cup {<<"search", r>>}
  /\ Committed(r, "search_put")
  /\ PublishKeeps /\ UNCHANGED <<catalog, attempt, previous, listed, phase, result>>

PutCheckpoint(r) ==
  /\ pc[r] = "write_checkpoint"
  /\ blobs' = blobs \cup {<<"checkpoint", r>>}
  /\ Committed(r, "checkpoint_put")
  /\ PublishKeeps /\ UNCHANGED <<catalog, attempt, previous, listed, phase, result>>

SameRevision(a, b) ==
  \/ a = NoCatalog /\ b = NoCatalog
  \/ a # NoCatalog /\ b # NoCatalog /\ a.revision = b.revision

(* The last transaction: compare and swap the head, close the record.      *)
Activate(r) ==
  /\ pc[r] = "activate"
  /\ HoldsLive(r) /\ OwnsAttempt(r)
  /\ SameRevision(catalog, previous[r])
  /\ catalog' = [revision |-> r, finishedAt |-> job[r].finishedAt,
                 profile |-> job[r].profile, heads |-> listed[r]]
  /\ Record(r, "succeeded")
  /\ \/ /\ pc' = [pc EXCEPT ![r] = "releasing"]
        /\ result' = [result EXCEPT ![r] = "ok"]
     \/ /\ pc' = [pc EXCEPT ![r] = "failing"]
        /\ UNCHANGED result
  /\ PublishKeeps /\ UNCHANGED <<blobs, previous, listed>>

-----------------------------------------------------------------------------
(* Failures *)

(* A guard sees an abort or the deadline, a transaction finds the lease    *)
(* gone, a check fails, or storage does.  The attempt object may already   *)
(* show the phase that the failed transaction was to record.               *)
Fail(r) ==
  /\ pc[r] \in ImportPc \cup PublishPc
  /\ pc' = [pc EXCEPT ![r] = "failing"]
  /\ \E ph \in {phase[r], NextPhase(r)} : phase' = [phase EXCEPT ![r] = ph]
  /\ UNCHANGED <<sources, catalog, lease, attempt, blobs, job, at, previous, listed, result>>

(* The catch of publishCheckpoint closes its own record, lease or no       *)
(* lease; when that fails too the record is left.  The route answers 503.  *)
AnswerFailure(r) ==
  /\ pc[r] = "failing"
  /\ \/ UNCHANGED attempt
     \/ /\ OwnsAttempt(r)
        /\ attempt' = [id |-> r, phase |-> phase[r], outcome |-> "failed"]
  /\ pc' = [pc EXCEPT ![r] = "releasing"]
  /\ result' = [result EXCEPT ![r] = "error"]
  /\ UNCHANGED <<sources, catalog, lease, blobs, job, at, previous, listed, phase>>

(* The instance dies: nobody releases the lease.                           *)
Crash(r) ==
  /\ pc[r] \notin {"idle", "done", "crashed"}
  /\ pc' = [pc EXCEPT ![r] = "crashed"]
  /\ Forget(r)
  /\ UNCHANGED <<sources, catalog, lease, attempt, blobs, job, result>>

Tick ==
  /\ lease # NoLease
  /\ lease.left > -Skew
  /\ lease' = [lease EXCEPT !.left = @ - 1]
  /\ UNCHANGED <<sources, catalog, attempt, blobs, requestVars>>

-----------------------------------------------------------------------------
ImportStep(r) == CheckPage(r) \/ UploadPage(r) \/ CommitPage(r) \/ FinishImport(r)

PublishStep(r) ==
  \/ BeginPublication(r) \/ AnswerPublished(r) \/ ListSources(r) \/ EnterPhase(r)
  \/ ReadSources(r) \/ PutSearch(r) \/ PutCheckpoint(r) \/ Activate(r)

(* What the server does by itself once a request has its lease.            *)
ServerStep(r) == ImportStep(r) \/ PublishStep(r) \/ Fail(r) \/ AnswerFailure(r) \/ ReleaseLease(r)

StoreNext ==
  \/ \E r \in Request : AcquireLease(r) \/ ServerStep(r) \/ Crash(r)
  \/ Tick

StoreSpec == StoreInit /\ [][StoreNext]_vars

(* Requests run until they answer or die, time passes, and a refused       *)
(* client comes back.                                                      *)
Fairness ==
  /\ \A r \in Request : WF_vars(ServerStep(r)) /\ WF_vars(AcquireLease(r))
  /\ WF_vars(Tick)

FairStoreSpec == StoreSpec /\ Fairness

-----------------------------------------------------------------------------
(* Properties *)

(* Publication by phases, with a source list read outside any transaction, *)
(* expiring leases, crashes and lost replies, is still the atomic          *)
(* publication of CatalogPublication: the head that appears is exactly     *)
(* what is staged at that moment, under the report's conditions.           *)
AtomicPublication == Spec

HoldsToken(r) == lease # NoLease /\ lease.token = r

(* Why the untransacted reads are safe: as long as the lease document      *)
(* still carries a publisher's token, expired or not, what it read is      *)
(* what is there.                                                          *)
PublisherSeesPresent ==
  \A r \in Request : HoldsToken(r) =>
    /\ pc[r] # "idle"
    /\ pc[r] \in PublishPc \ {"leased"} => previous[r] = catalog
    /\ pc[r] \in PublishPc \ {"leased", "begun"} =>
         listed[r] = sources /\ ~AlreadyPublished(catalog, job[r])

Covered(p) ==
  /\ sources[p.src] # NoPage
  /\ p.oldest <= sources[p.src].latest

(* A page whose import was answered with 200 is staged for good, or        *)
(* something at least as new is.                                           *)
AcknowledgedImportsStay ==
  \A r \in Request :
    job[r].kind = "import" /\ result[r] = "ok" =>
      \A i \in DOMAIN job[r].pages : Covered(job[r].pages[i])

PublicAsOf(finishedAt) == catalog # NoCatalog /\ finishedAt <= catalog.finishedAt

(* A report whose publication was answered with 200 is public, or a later  *)
(* one is, whatever older publishers that lost their lease still do.       *)
AcknowledgedReportsStay ==
  \A r \in Request :
    job[r].kind = "publish" /\ result[r] = "ok" => PublicAsOf(job[r].finishedAt)

(* No head ever names an object that is not in the bucket, wherever a      *)
(* request dies between its uploads and its transactions.                  *)
ReferencedObjectsExist ==
  /\ \A p \in Staged(sources) : <<"source", p>> \in blobs
  /\ catalog # NoCatalog =>
       /\ {<<"search", catalog.revision>>, <<"checkpoint", catalog.revision>>} \subseteq blobs
       /\ \A p \in Staged(catalog.heads) : <<"source", p>> \in blobs

(* The publication record says "succeeded" only of a report that is        *)
(* public, its own revision goes public only with phase "complete", and it *)
(* is that of the publisher at work: one that was overtaken, and closes    *)
(* its record long after it lost the lease, never writes over another's.   *)
RecordTruthful ==
  /\ \A r \in Request :
       HoldsToken(r) /\ pc[r] \in PublishPc \ {"leased"} => attempt # NoAttempt /\ attempt.id = r
  /\ attempt # NoAttempt =>
    /\ attempt.outcome = "succeeded" =>
         attempt.phase = "complete" /\ PublicAsOf(job[attempt.id].finishedAt)
    /\ attempt.outcome = "running" => attempt.phase # "complete"
    /\ catalog # NoCatalog /\ catalog.revision = attempt.id => attempt.phase = "complete"

(* No crash, lost reply or failed release locks imports and publications   *)
(* out: a client that keeps asking is served, and its request ends.        *)
EveryRequestIsServed ==
  \A r \in Request : pc[r] = "idle" ~> pc[r] \in {"done", "crashed"}
=============================================================================
