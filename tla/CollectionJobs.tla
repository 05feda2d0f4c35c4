---------------------------- MODULE CollectionJobs ----------------------------
(***************************************************************************)
(* collector/jobs: the pages of a collection become a publication through  *)
(* jobs that are claimed under a lease and completed under a fence.  A job *)
(* is its stage and what it is computed from, so collections with the same *)
(* input share it.  A process is one invocation of run.mjs for one         *)
(* collection; it may stop anywhere and be started again.                  *)
(*                                                                         *)
(* What the stages write (normalized titles, offers, documents) is         *)
(* determined by the job's subject and stands for its completion; only     *)
(* identity depends on who computes it.  A transaction whose reply is lost *)
(* leaves its process as a crash behind the commit does.                   *)
(***************************************************************************)
EXTENDS Naturals, FiniteSets, FiniteSetsExt

CONSTANTS Collection, Process,
          Listing,            \* listing ids, numbers in the order of sessions' names
          Deployment,         \* scenarios: input, target, version and bounds
          Resolve(_, _),      \* what an identity version makes of a set of revisions
          None

(* What the input of any deployment can hold.                              *)
Pages == UNION {d.input[c].pages : d \in Deployment, c \in Collection}
Revisions == UNION {page.listings : page \in Pages}
Head == [revision : Revisions, withheld : BOOLEAN]

(* validateCollection refuses a listing that appears twice, and run.mjs    *)
(* names its collection.                                                   *)
ASSUME InputAssumption ==
  /\ \A r \in Revisions : r.listing \in Listing /\ r.at \in Nat
  /\ \A d \in Deployment, c \in Collection : \A p, q \in d.input[c].pages : \A r \in p.listings, s \in q.listings :
       r.listing = s.listing => r = s
  /\ \A d \in Deployment : d.target \in [Process -> Collection]
  /\ None \notin Head

VARIABLES deployment,                        \* the scenario, fixed at start
          jobs, attached,                    \* jobs, collection_jobs
          collections, sessions,             \* collections, collection_sessions
          heads,                             \* listing_heads
          active, publications,              \* active_publication, publications
          pc, held, found, expected,         \* each process and its locals
          raced,                             \* history: heads replaced unseen
          faults, stops, attempts, rollbacks \* bounds

store == <<jobs, attached, collections, sessions, heads>>
published == <<active, publications>>
process == <<pc, held, found, expected>>
bounds == <<faults, stops, attempts, rollbacks>>
vars == <<deployment, store, published, process, raced, bounds>>

-----------------------------------------------------------------------------
(* Input: a page has its URL, time and status, and the listings read from  *)
(* it; a listing's revision is its id, time, page, start and content.      *)

PagesOf(c) == deployment.input[c].pages
RevisionsOf(c) == UNION {page.listings : page \in PagesOf(c)}
BucketsOf(c) == {{r \in RevisionsOf(c) : r.starts = t} : t \in {r.starts : r \in RevisionsOf(c)}}
Negative(page) == page.status # "verified" \/ page.listings = {}
TargetOf(p) == deployment.target[p]

Init ==
  /\ deployment \in Deployment
  /\ jobs = <<>> /\ attached = [c \in Collection |-> {}]
  /\ collections = [c \in Collection |-> [state |-> "absent", reconcile |-> FALSE]]
  /\ sessions = [c \in Collection |-> {}]
  /\ heads = [l \in Listing |-> None]
  /\ active = None /\ publications = {}
  /\ pc = [p \in Process |-> "idle"] /\ held = [p \in Process |-> None]
  /\ found = [p \in Process |-> None] /\ expected = [p \in Process |-> None]
  /\ raced = {}
  /\ faults = 0 /\ stops = 0 /\ attempts = 0 /\ rollbacks = 0

-----------------------------------------------------------------------------
(* Jobs.                                                                   *)

Queued == [state |-> "queued", fence |-> 0, live |-> FALSE, output |-> {}]
Stages == {"extract", "normalize", "offers", "identity", "search", "publish"}

StageOf(j) == j[1]
SubjectOf(j) == j[2]
JobsAt(c, stage) == {j \in attached[c] : StageOf(j) = stage}
Pending(c, stage) == {j \in JobsAt(c, stage) : jobs[j].state # "completed"}
Enqueued(new, rows) ==
  [j \in DOMAIN rows \cup new |-> IF j \in DOMAIN rows THEN rows[j] ELSE Queued]
Attached(c, new) == [attached EXCEPT ![c] = @ \cup new]

OnlyQueued(j) == jobs[j].state = "queued"
Claimable(j) == jobs[j].state = "queued" \/ (jobs[j].state = "running" /\ ~jobs[j].live)
Holds(p) ==
  /\ held[p] # None
  /\ LET row == jobs[held[p].job] IN row.state = "running" /\ row.live /\ row.fence = held[p].fence
Released(p, state) == [jobs EXCEPT ![held[p].job].state = state, ![held[p].job].live = FALSE]

(* The process ends; whoever held a job does so no longer.                 *)
Ends(p) == pc' = [pc EXCEPT ![p] = "idle"] /\ held' = [held EXCEPT ![p] = None]
           /\ found' = [found EXCEPT ![p] = None] /\ expected' = [expected EXCEPT ![p] = None]
GoesTo(p, stage) == pc' = [pc EXCEPT ![p] = stage] /\ UNCHANGED <<held, expected>>

Claim(p) ==
  /\ pc[p] \in Stages /\ held[p] = None
  /\ \E j \in JobsAt(TargetOf(p), pc[p]) :
       /\ Claimable(j)
       /\ jobs' = [jobs EXCEPT ![j] = [jobs[j] EXCEPT !.state = "running", !.live = TRUE, !.fence = jobs[j].fence + 1]]
       /\ held' = [held EXCEPT ![p] = [job |-> j, fence |-> jobs[j].fence + 1]]
  /\ UNCHANGED <<deployment, attached, collections, sessions, heads, published, pc, found, expected, raced, bounds>>

(* No job to claim: others hold them, or one has failed for good.          *)
Quit(p) ==
  /\ pc[p] \in Stages /\ held[p] = None
  /\ \A j \in JobsAt(TargetOf(p), pc[p]) : ~Claimable(j)
  /\ pc[p] = "publish" \/ Pending(TargetOf(p), pc[p]) # {}
  /\ Ends(p)
  /\ UNCHANGED <<deployment, store, published, raced, bounds>>

Current(revisions) ==
  \A r \in revisions : heads[r.listing] = [revision |-> r, withheld |-> FALSE]

InputOf(j) ==
  CASE StageOf(j) \in {"normalize", "offers"} -> {SubjectOf(j)}
    [] StageOf(j) = "identity" -> SubjectOf(j).listings
    [] StageOf(j) = "search" -> SubjectOf(j)
    [] OTHER -> {}
OutputOf(p, j) ==
  IF StageOf(j) = "identity" THEN Resolve(deployment.version[p], SubjectOf(j).listings) ELSE {}
Dependents(p, j) ==
  IF StageOf(j) = "normalize" THEN {<<"offers", SubjectOf(j)>>}
  ELSE {<<"search", session>> : session \in OutputOf(p, j)}

(* The handler's result and the state of the job in one transaction.       *)
Complete(p) ==
  LET j == held[p].job IN
  /\ Holds(p) /\ pc[p] # "publish" /\ Current(InputOf(j))
  /\ jobs' = Enqueued(Dependents(p, j), [Released(p, "completed") EXCEPT ![j].output = OutputOf(p, j)])
  /\ attached' = Attached(TargetOf(p), Dependents(p, j))
  /\ held' = [held EXCEPT ![p] = None]
  /\ UNCHANGED <<deployment, collections, sessions, heads, published, pc, found, expected, raced, bounds>>

(* An error fails the job for good, unless the process was told to stop.   *)
StaleInput(p) ==
  /\ Holds(p) /\ pc[p] # "publish" /\ ~Current(InputOf(held[p].job))
  /\ jobs' = Released(p, "failed") /\ Ends(p)
  /\ UNCHANGED <<deployment, attached, collections, sessions, heads, published, raced, bounds>>

Break(p) ==
  /\ Holds(p) /\ faults < deployment.faults /\ faults' = faults + 1
  /\ jobs' = Released(p, IF pc[p] = "publish" THEN "queued" ELSE "failed") /\ Ends(p)
  /\ UNCHANGED <<deployment, attached, collections, sessions, heads, published, raced, stops, attempts, rollbacks>>

Interrupt(p) ==
  /\ pc[p] \notin {"idle", "mark"} /\ stops < deployment.stops /\ stops' = stops + 1
  /\ jobs' = IF Holds(p) THEN Released(p, "queued") ELSE jobs
  /\ Ends(p)
  /\ UNCHANGED <<deployment, attached, collections, sessions, heads, published, raced, faults, attempts, rollbacks>>

(* A stale lease or fence: neither the completion nor the failure counts.  *)
LoseJob(p) ==
  /\ held[p] # None /\ ~Holds(p) /\ Ends(p)
  /\ UNCHANGED <<deployment, store, published, raced, bounds>>

Crash(p) ==
  /\ pc[p] # "idle" /\ faults < deployment.faults /\ faults' = faults + 1
  /\ Ends(p)
  /\ UNCHANGED <<deployment, store, published, raced, stops, attempts, rollbacks>>

Abandoned(j) == \A p \in Process : ~(Holds(p) /\ held[p].job = j)
Lapse(j) ==
  /\ jobs[j].state = "running" /\ jobs[j].live
  /\ IF Abandoned(j) THEN UNCHANGED faults ELSE faults < deployment.faults /\ faults' = faults + 1
  /\ jobs' = [jobs EXCEPT ![j].live = FALSE]
  /\ UNCHANGED <<deployment, attached, collections, sessions, heads, published, process, raced, stops, attempts, rollbacks>>

-----------------------------------------------------------------------------
(* A run: extraction of a raw collection, ingestion, four stages, and the  *)
(* publication if it was asked for.                                        *)

Start(p) ==
  LET extractions == {<<"extract", page>> : page \in {page \in PagesOf(TargetOf(p)) : page.status = "verified"}}
      raw == deployment.input[TargetOf(p)].raw
  IN  /\ pc[p] = "idle"
      /\ pc' = [pc EXCEPT ![p] = IF raw THEN "extract" ELSE "ingest"]
      /\ expected' = [expected EXCEPT ![p] = active]
      /\ jobs' = IF raw THEN Enqueued(extractions, jobs) ELSE jobs
      /\ attached' = IF raw THEN Attached(TargetOf(p), extractions) ELSE attached
      /\ UNCHANGED <<deployment, collections, sessions, heads, published, held, found, raced, bounds>>

Drained(p) == held[p] = None /\ Pending(TargetOf(p), pc[p]) = {}

EndExtraction(p) ==
  /\ pc[p] = "extract" /\ Drained(p) /\ GoesTo(p, "ingest")
  /\ UNCHANGED <<deployment, store, published, found, raced, bounds>>

(* Each statement of an ingestion sees the heads of its own moment, and a  *)
(* head that another transaction moves while it waits for the row drops    *)
(* out of its join: what moved since the start may be missed by the lookup *)
(* of a negative page, by the update after it and by that of a listing.    *)
LookAtHeads(p) ==
  /\ pc[p] = "ingest"
  /\ LET fresh == collections[TargetOf(p)].state = "absent" IN
       /\ GoesTo(p, IF fresh THEN "ingesting" ELSE "normalize")
       /\ found' = [found EXCEPT ![p] = IF fresh THEN heads ELSE None]
  /\ UNCHANGED <<deployment, store, published, raced, bounds>>

Known == {l \in Listing : heads[l] # None}
Moved(p) == {l \in Known : found[p][l] = None \/ found[p][l].revision # heads[l].revision}
Linked(p, missed) ==
  {l \in Known \ missed : \E page \in PagesOf(TargetOf(p)) :
     Negative(page) /\ heads[l].revision.url = page.url /\ heads[l].revision.at <= page.at}
Refuses(r) ==
  LET head == heads[r.listing].revision IN head.at > r.at \/ (head.at = r.at /\ head # r)

Ingest(p) ==
  LET c == TargetOf(p)
      revisions == RevisionsOf(c)
      normalizations == {<<"normalize", r>> : r \in revisions}
  IN  /\ pc[p] = "ingesting" /\ collections[c].state = "absent"
      /\ \E first \in SUBSET Moved(p) : \E second \in SUBSET first : \E third \in SUBSET second :
           /\ \A r \in revisions : r.listing \in Known \ third => ~Refuses(r)
           /\ heads' = [l \in Listing |->
                IF \E r \in revisions : r.listing = l
                THEN [revision |-> CHOOSE r \in revisions : r.listing = l, withheld |-> FALSE]
                ELSE IF l \in Linked(p, second) THEN [heads[l] EXCEPT !.withheld = TRUE] ELSE heads[l]]
           /\ raced' = raced \cup (third \cap {r.listing : r \in revisions})
           /\ collections' = [collections EXCEPT ![c] = [state |-> "collected", reconcile |-> Linked(p, first) # {}]]
      /\ jobs' = Enqueued(normalizations, jobs) /\ attached' = Attached(c, normalizations)
      /\ GoesTo(p, "normalize") /\ found' = [found EXCEPT ![p] = None]
      /\ UNCHANGED <<deployment, sessions, published, bounds>>

(* A newer or a contradicting observation is there, or the collection is.  *)
IngestRefused(p) ==
  /\ pc[p] = "ingesting"
  /\ \/ collections[TargetOf(p)].state # "absent"
     \/ \E r \in RevisionsOf(TargetOf(p)) : r.listing \in Known /\ Refuses(r)
  /\ Ends(p)
  /\ UNCHANGED <<deployment, store, published, raced, bounds>>

(* What an earlier run completed is attached before the next stage.        *)
EndNormalization(p) ==
  LET offers == {<<"offers", r>> : r \in RevisionsOf(TargetOf(p))} IN
  /\ pc[p] = "normalize" /\ Drained(p) /\ GoesTo(p, "offers")
  /\ jobs' = Enqueued(offers, jobs) /\ attached' = Attached(TargetOf(p), offers)
  /\ UNCHANGED <<deployment, collections, sessions, heads, published, found, raced, bounds>>

EndOffers(p) ==
  LET identities == {<<"identity", [version |-> deployment.version[p], listings |-> bucket]>> :
                       bucket \in BucketsOf(TargetOf(p))} IN
  /\ pc[p] = "offers" /\ Drained(p) /\ GoesTo(p, "identity")
  /\ jobs' = Enqueued(identities, jobs) /\ attached' = Attached(TargetOf(p), identities)
  /\ UNCHANGED <<deployment, collections, sessions, heads, published, found, raced, bounds>>

(* A session is named after its first listing; one that is there stays.    *)
NameOf(members) == Min({r.listing : r \in members})
EndIdentity(p) ==
  LET c == TargetOf(p)
      resolved == UNION {jobs[j].output : j \in JobsAt(c, "identity")}
      there == {NameOf(session.members) : session \in sessions[c]}
  IN  /\ pc[p] = "identity" /\ Drained(p) /\ GoesTo(p, "search")
      /\ \E new \in SUBSET {members \in resolved : NameOf(members) \notin there} :
           /\ \A members \in resolved : NameOf(members) \in there \cup {NameOf(m) : m \in new}
           /\ \A m, n \in new : m # n => NameOf(m) # NameOf(n)
           /\ sessions' = [sessions EXCEPT ![c] = @ \cup [members : new, document : {FALSE}]]
      /\ jobs' = Enqueued({<<"search", members>> : members \in resolved}, jobs)
      /\ attached' = Attached(c, {<<"search", members>> : members \in resolved})
      /\ UNCHANGED <<deployment, collections, heads, published, found, raced, bounds>>

EndSearch(p) ==
  /\ pc[p] = "search" /\ Drained(p) /\ GoesTo(p, "link")
  /\ UNCHANGED <<deployment, store, published, found, raced, bounds>>

LinkDocuments(p) ==
  LET c == TargetOf(p)
      documented == {j \in JobsAt(c, "search") : jobs[j].state = "completed"}
  IN  /\ pc[p] = "link" /\ GoesTo(p, "mark")
      /\ sessions' = [sessions EXCEPT ![c] =
           {[session EXCEPT !.document = @ \/ <<"search", session.members>> \in documented] : session \in sessions[c]}]
      /\ UNCHANGED <<deployment, jobs, attached, collections, heads, published, found, raced, bounds>>

MarkPrepared(p) ==
  LET c == TargetOf(p) IN
  /\ pc[p] = "mark"
  /\ collections' = [collections EXCEPT ![c].state = IF @ = "published" THEN @ ELSE "prepared"]
  /\ IF attempts < deployment.attempts /\ collections[c].state # "published"
     THEN GoesTo(p, "admit") /\ UNCHANGED found ELSE Ends(p)
  /\ UNCHANGED <<deployment, jobs, attached, sessions, heads, published, raced, bounds>>

-----------------------------------------------------------------------------
(* Publication, and its administration.                                    *)

AdmitPublication(p) ==
  LET publish == {<<"publish", TargetOf(p)>>} IN
  /\ pc[p] = "admit" /\ attempts' = attempts + 1
  /\ IF collections[TargetOf(p)].state = "published" THEN Ends(p) /\ UNCHANGED <<jobs, attached>>
     ELSE /\ GoesTo(p, "publish") /\ UNCHANGED found
          /\ jobs' = Enqueued(publish, jobs) /\ attached' = Attached(TargetOf(p), publish)
  /\ UNCHANGED <<deployment, collections, sessions, heads, published, raced, faults, stops, rollbacks>>

Settled(c) ==
  /\ collections[c].state = "prepared" /\ ~collections[c].reconcile
  /\ \A page \in PagesOf(c) : page.status \in {"verified", "retired"}
  /\ \A stage \in Stages \ {"extract", "publish"} : Pending(c, stage) = {}
DocumentsOnly(c) ==
  /\ \A session \in sessions[c] : session.document
  /\ UNION {session.members : session \in sessions[c]} = RevisionsOf(c)
Whole(c) ==
  /\ \A session \in sessions[c] : session.document
  /\ \A s, t \in sessions[c] : s # t => s.members \cap t.members = {}
  /\ UNION {session.members : session \in sessions[c]} = RevisionsOf(c)
PublicationOf(c) ==
  [pages |-> {[url |-> page.url, at |-> page.at, status |-> page.status] : page \in PagesOf(c)},
   sessions |-> {session.members : session \in sessions[c]}]
PublishableUnlessMoved(p) == Settled(TargetOf(p)) /\ Whole(TargetOf(p)) /\ active = expected[p]
Publishable(p) ==
  LET c == TargetOf(p) IN
  Settled(c) /\ Current(RevisionsOf(c)) /\ Whole(c) /\ active = expected[p]

(* The job of a published collection is completed, so a claimed one is for *)
(* a collection that is not.                                               *)
Publish(p) ==
  LET c == TargetOf(p) IN
  /\ pc[p] = "publish" /\ Holds(p) /\ Publishable(p)
  /\ active' = PublicationOf(c) /\ publications' = publications \cup {PublicationOf(c)}
  /\ collections' = [collections EXCEPT ![c].state = "published"]
  /\ jobs' = Released(p, "completed") /\ Ends(p)
  /\ UNCHANGED <<deployment, attached, sessions, heads, raced, bounds>>

PublicationRefused(p) ==
  /\ pc[p] = "publish" /\ Holds(p) /\ ~Publishable(p)
  /\ jobs' = Released(p, "queued") /\ Ends(p)
  /\ UNCHANGED <<deployment, attached, collections, sessions, heads, published, raced, bounds>>

Rollback ==
  /\ rollbacks < deployment.rollbacks /\ rollbacks' = rollbacks + 1
  /\ \E target \in publications \ {active} : active' = target
  /\ UNCHANGED <<deployment, store, publications, process, raced, faults, stops, attempts>>

-----------------------------------------------------------------------------
RunStep(p) ==
  \/ Start(p) \/ Claim(p) \/ Quit(p) \/ Complete(p) \/ StaleInput(p) \/ LoseJob(p)
  \/ EndExtraction(p) \/ LookAtHeads(p) \/ Ingest(p) \/ IngestRefused(p)
  \/ EndNormalization(p) \/ EndOffers(p) \/ EndIdentity(p) \/ EndSearch(p)
  \/ LinkDocuments(p) \/ MarkPrepared(p) \/ AdmitPublication(p) \/ Publish(p) \/ PublicationRefused(p)

Next ==
  \/ \E p \in Process : RunStep(p) \/ Break(p) \/ Interrupt(p) \/ Crash(p)
  \/ \E j \in DOMAIN jobs : Lapse(j)
  \/ Rollback

(* A process goes on, or is started again, and a lease nobody holds ends.  *)
Spec ==
  /\ Init /\ [][Next]_vars
  /\ \A p \in Process : WF_vars(RunStep(p))
  /\ WF_vars(\E j \in DOMAIN jobs : Abandoned(j) /\ Lapse(j))

-----------------------------------------------------------------------------
(* No publication, except by rollback, brings back an observation that is  *)
(* older than one published before it: while ingestions of the listing did *)
(* not overlap (ingest.mjs:90-92, publication.mjs:50-52).                  *)
PublishedIsNewest ==
  [][active' # active /\ rollbacks' = rollbacks =>
       \A q \in publications : \A r \in UNION active'.sessions, s \in UNION q.sessions :
         r.listing = s.listing => r.at >= s.at \/ r.listing \in raced]_vars

(* Whatever is published has usable pages only, and each listing of some   *)
(* collection exactly once, however runs of several identity versions      *)
(* share its jobs.                                                         *)
PublishedIsWhole ==
  \A q \in publications :
    /\ \A page \in q.pages : page.status \in {"verified", "retired"}
    /\ \A s, t \in q.sessions : s # t => s \cap t = {}
    /\ \E c \in Collection : collections[c].state = "published" /\ UNION q.sessions = RevisionsOf(c)

(* A run that is started again and again prepares its collection, unless   *)
(* a job of it failed or its listings contradict what is known: no job is  *)
(* left with a process that is gone.                                       *)
Refused(c) ==
  /\ collections[c].state = "absent"
  /\ \E r \in RevisionsOf(c) : r.listing \in Known /\ Refuses(r)
FailedFor(c) == \E j \in attached[c] : jobs[j].state = "failed"
EveryCollectionIsPrepared ==
  \A p \in Process :
    <>(collections[TargetOf(p)].state \in {"prepared", "published"} \/ Refused(TargetOf(p)) \/ FailedFor(TargetOf(p)))
=============================================================================
