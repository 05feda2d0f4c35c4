--------------------------- MODULE CollectorRuns ---------------------------
(***************************************************************************)
(* The scheduled collector: collector/run.mjs with coverage.mjs and        *)
(* pipeline.mjs, then collector/publish.mjs, as jobs of                    *)
(* .github/workflows/gcp-collector.yml.  A job restores the published      *)
(* events and the cached coverage file, replays what earlier jobs verified *)
(* and did not publish, fetches a bounded number of pages in a fair order, *)
(* and imports and publishes the result.  It may stop, crash or lose a     *)
(* reply anywhere; the coverage file is cached when the runner survives.   *)
(*                                                                         *)
(* Operators may run jobs under an explicit collection cycle, which ends   *)
(* with a report that claims to be complete (collection-scope.mjs), and    *)
(* may replay the publication of a failed run (replay-publication.mjs).    *)
(*                                                                         *)
(* A page of one source has one session when it is active.  Sources are    *)
(* numbered in the order of their URLs.  The server's side is the staging  *)
(* rule of SourcePages and an atomic publication (see CatalogPublication). *)
(***************************************************************************)
EXTENDS SourcePages, SequencesExt

CONSTANTS Providers,    \* the selected providers in order
          ProviderOf,   \* ProviderOf[s]: the provider of source s
          MaxDetails,   \* details fetched per run
          Fresh,        \* how long an observation counts (72 hours)
          ImportAge,    \* how old an imported observation may be (71 hours)
          Recheck,      \* when a retired page is looked at again (7 days)
          MinForDrop,   \* catalog size from which a large drop is refused
          MaxEvictions, \* bound on losses of the coverage file's cache
          Cycle,        \* ids of collection cycles
          Usage,        \* what is collected and what operators do
          NoEntry, NoCycle, NoArtifact

ASSUME CollectorAssumption ==
  /\ Source \subseteq Nat /\ IsFiniteSet(Source)
  /\ Providers \in Seq(ToSet(Providers)) /\ ProviderOf \in [Source -> ToSet(Providers)]
  /\ MaxDetails >= Len(Providers)
  /\ {MaxDetails, Fresh, ImportAge, Recheck, MinForDrop, MaxEvictions} \subseteq Nat
  /\ ImportAge <= Fresh
  /\ 0 \in Stamp
  /\ Usage \subseteq [sources : SUBSET Source, cycles : SUBSET Cycle, replays : BOOLEAN]

VARIABLES usage,
          clock,
          sources,     \* the server's staged heads
          published,   \* the heads of the published catalog
          reported,    \* finishedAt of its report, 0 for none
          cache,       \* the coverage file of the last job whose runner survived
          cachedCycle, \* and the cycle in it
          file,        \* state/coverage.json on this runner
          coverage,    \* its entries in memory
          cycle,       \* the cycle in both
          pc,          \* where the job is
          startedAt,
          previous,    \* checkedAt of the events known at the start, 0 for none
          pages,       \* report.pages
          queue,       \* details to fetch
          toSend,      \* sources whose page is still to be imported
          replay,      \* this job publishes the artifact
          artifact,    \* the report and import receipt of a failed publication
          waits,       \* history: saved full runs since a source was attempted
          evictions

serverVars == <<sources, published, reported>>
cacheVars == <<cache, cachedCycle, waits, evictions>>
jobVars == <<file, coverage, cycle, startedAt, previous, pages, queue, replay>>
vars == <<usage, clock, serverVars, cacheVars, jobVars, pc, toSend, artifact>>

Now == clock + 1

PageAt(s, at, active) == [src |-> s, oldest |-> at, latest |-> at, active |-> active]

(* attempt and retired are 0 where the code has null.  The page is the     *)
(* checkpoint of the entry's events: active, retired or quarantined.       *)
(* seen is the cycle of the entry's cycleObservation.                      *)
Entry == [attempt : Stamp, retired : Stamp, reactive : BOOLEAN, page : Page \cup {NoPage},
          seen : Cycle \cup {NoCycle}]
Coverage == [Source -> Entry \cup {NoEntry}]
NewEntry == [attempt |-> 0, retired |-> 0, reactive |-> FALSE, page |-> NoPage, seen |-> NoCycle]

(* A cycle has an id; when it was really begun is history.                 *)
CycleOrNone == [id : Cycle, begun : Stamp] \cup {NoCycle}
Id(c) == IF c = NoCycle THEN NoCycle ELSE c.id
Artifact == [pages : Heads, at : Stamp, imported : BOOLEAN]

ASSUME NoneAssumption ==
  /\ NoEntry \notin Entry /\ NoArtifact \notin Artifact
  /\ NoCycle \notin Cycle /\ NoCycle \notin [id : Cycle, begun : Stamp]

TypeOK ==
  /\ usage \in Usage
  /\ clock \in Stamp
  /\ sources \in Heads /\ published \in Heads /\ reported \in Stamp
  /\ {cycle, cachedCycle} \subseteq CycleOrNone
  /\ artifact \in Artifact \cup {NoArtifact} /\ replay \in BOOLEAN
  /\ {cache, file, coverage} \subseteq Coverage
  /\ pc \in {"idle", "listing", "crawl", "stopped", "publish", "published"}
  /\ startedAt \in Stamp
  /\ previous \in [Source -> Stamp]
  /\ pages \in Heads
  /\ queue \in Seq(Source) /\ Len(queue) <= MaxDetails /\ IsInjective(queue)
  /\ toSend \subseteq Source
  /\ waits \in [Source -> Nat]
  /\ evictions \in 0 .. MaxEvictions

Init ==
  /\ usage \in Usage
  /\ clock = 0
  /\ sources = [s \in Source |-> NoPage] /\ published = sources /\ reported = 0
  /\ cycle = NoCycle /\ cachedCycle = NoCycle
  /\ artifact = NoArtifact /\ replay = FALSE
  /\ cache = [s \in Source |-> NoEntry] /\ file = cache /\ coverage = cache
  /\ pc = "idle"
  /\ startedAt = 0 /\ previous = [s \in Source |-> 0] /\ pages = sources
  /\ queue = << >> /\ toSend = {}
  /\ waits = [s \in Source |-> 0]
  /\ evictions = 0

(* What a job holds is gone with its runner.                               *)
Clear ==
  /\ file' = [s \in Source |-> NoEntry] /\ coverage' = file' /\ cycle' = NoCycle
  /\ startedAt' = 0 /\ previous' = [s \in Source |-> 0] /\ queue' = << >>
Forget == Clear /\ pages' = [s \in Source |-> NoPage] /\ replay' = FALSE

-----------------------------------------------------------------------------
(* Restoring *)

IsFresh(at) == clock - at <= Fresh
Row(page) == IF page # NoPage /\ page.active THEN page.latest ELSE 0
Snapshot(s) == Row(published[s])

(* recoverableCoverageEntries                                              *)
Recoverable(s) ==
  /\ cache[s] # NoEntry
  /\ cache[s].page # NoPage
  /\ Snapshot(s) <= cache[s].page.latest
  /\ cache[s].page.active => IsFresh(cache[s].page.latest)

(* recoverCoverageEvents: checkpoints replace rows of the snapshot.        *)
Recovered(s) == IF Recoverable(s) THEN Row(cache[s].page) ELSE Snapshot(s)

(* unpublishedCoveragePages                                                *)
UnpublishedInactive(s) == Recoverable(s) /\ ~cache[s].page.active /\ IsFresh(cache[s].page.latest)
Unpublished(s) ==
  /\ Recoverable(s)
  /\ IF cache[s].page.active THEN cache[s].page.latest # Snapshot(s)
                             ELSE IsFresh(cache[s].page.latest)

(* attachCollectionCycle: a job names the cycle it resumes, or begins one  *)
(* of another id, which forgets what was observed.  A job without a cycle  *)
(* is refused while the coverage has one.                                  *)
Resumes(id) == id = Id(cachedCycle)
Begins(id) == id # NoCycle /\ id # Id(cachedCycle)
Begun(id) == IF Begins(id) THEN [id |-> id, begun |-> clock] ELSE cachedCycle
ForgottenKept(entry, id) == entry
Forgotten(entry, id) ==
  IF entry # NoEntry /\ Begins(id) THEN [entry EXCEPT !.seen = NoCycle] ELSE entry

(* The setup of a run, up to the first saveCoverage.  Sources of known     *)
(* events enter the coverage when they are not there.                      *)
Start(id) ==
  /\ pc \in {"idle", "published"}
  /\ Resumes(id) \/ Begins(id)
  /\ cycle' = Begun(id)
  /\ startedAt' = clock
  /\ previous' = [s \in Source |-> Recovered(s)]
  /\ pages' = [s \in Source |-> IF Unpublished(s) THEN cache[s].page ELSE NoPage]
  /\ coverage' = [s \in Source |-> IF cache[s] = NoEntry /\ Recovered(s) # 0 THEN NewEntry
                                   ELSE Forgotten(cache[s], id)]
  /\ file' = coverage'
  /\ pc' = "listing" /\ replay' = FALSE
  /\ waits' = [s \in Source |-> IF Begins(id) /\ cache[s] # NoEntry /\ cache[s].retired # 0
                                THEN 0 ELSE waits[s]]
  /\ UNCHANGED <<usage, clock, serverVars, cache, cachedCycle, queue, toSend, artifact, evictions>>

-----------------------------------------------------------------------------
(* Crawling *)

(* addCoverageEntries with what the listings advertise.                    *)
Discovered(entry) ==
  CASE entry = NoEntry -> NewEntry
    [] entry # NoEntry /\ entry.retired # 0 -> [entry EXCEPT !.reactive = TRUE]
    [] OTHER -> entry

SeenInCycle(entry) == cycle # NoCycle /\ entry.seen = cycle.id
Due(entry) ==
  entry.retired # 0 =>
    \/ cycle # NoCycle /\ ~SeenInCycle(entry)
    \/ entry.reactive \/ clock - entry.retired >= Recheck

(* In a cycle those it has not seen come first.  Then priority: active     *)
(* pages before retired ones, those never attempted first, then the oldest *)
(* attempt, then by URL.                                                   *)
Rank(cov, s) == <<IF SeenInCycle(cov[s]) THEN 1 ELSE 0,
                  IF cov[s].retired # 0 THEN 1 ELSE 0, cov[s].attempt, s>>
Precedes(a, b) == \E i \in DOMAIN a : a[i] < b[i] /\ \A j \in 1 .. i - 1 : a[j] = b[j]

(* fairCoverageOrder: the i-th entries of all providers before the next.   *)
Candidates(cov) == {s \in Source : cov[s] # NoEntry /\ Due(cov[s])}
Before(cov, t, s) == ProviderOf[t] = ProviderOf[s] /\ Precedes(Rank(cov, t), Rank(cov, s))
Place(cov, s) == Cardinality({t \in Candidates(cov) : Before(cov, t, s)})
Turn(s) == CHOOSE i \in DOMAIN Providers : Providers[i] = ProviderOf[s]
Earlier(cov, s, t) == Precedes(<<Place(cov, s), Turn(s), s>>, <<Place(cov, t), Turn(t), t>>)
FairOrders(cov) ==
  {order \in SetToSeqs(Candidates(cov)) :
     \A i, j \in DOMAIN order : i < j => Earlier(cov, order[i], order[j])}

(* Requests beyond maxRequestsPerCrawl are never started.                  *)
Started(order) == SubSeq(order, 1, IF Len(order) < MaxDetails THEN Len(order) ELSE MaxDetails)

(* The listings are read, then scheduleCoverageDetails.                    *)
Schedule ==
  /\ pc = "listing"
  /\ \E advertised \in SUBSET usage.sources :
       coverage' = [s \in Source |-> IF s \in advertised THEN Discovered(coverage[s]) ELSE coverage[s]]
  /\ \E order \in FairOrders(coverage') : queue' = Started(order)
  /\ pc' = "crawl"
  /\ UNCHANGED <<usage, clock, serverVars, cacheVars, file, cycle, startedAt, previous, pages, replay, toSend, artifact>>

Outcome == {"verified", "retired", "quarantined", "failed"}

(* recordCoverageAttempt, recordCollectionCycleObservation and             *)
(* checkpointCoverageEvents                                                *)
AttemptUnlessFailed(entry, s, outcome) ==
  IF outcome = "failed" THEN entry
  ELSE [attempt |-> Now, retired |-> IF outcome = "retired" THEN Now ELSE 0, reactive |-> FALSE,
        page |-> PageAt(s, Now, outcome = "verified"), seen |-> Id(cycle)]
Attempt(entry, s, outcome) ==
  IF outcome = "failed" THEN [entry EXCEPT !.attempt = Now, !.reactive = FALSE, !.seen = Id(cycle)]
  ELSE [attempt |-> Now, retired |-> IF outcome = "retired" THEN Now ELSE 0, reactive |-> FALSE,
        page |-> PageAt(s, Now, outcome = "verified"), seen |-> Id(cycle)]

(* The request handler of one detail page, retries included.               *)
Fetch(outcome) ==
  /\ pc = "crawl" /\ queue # << >>
  /\ Now \in Stamp
  /\ clock' = Now
  /\ queue' = Tail(queue)
  /\ LET s == Head(queue)
     IN  /\ coverage' = [coverage EXCEPT ![s] = Attempt(@, s, outcome)]
         /\ pages' = IF outcome = "failed" THEN pages ELSE [pages EXCEPT ![s] = coverage'[s].page]
  /\ UNCHANGED <<usage, serverVars, cacheVars, file, cycle, startedAt, previous, pc, replay, toSend, artifact>>

(* serializedCheckpointWriter writes the whole state it finds at its turn. *)
SaveCoverage ==
  /\ pc \in {"crawl", "stopped"} /\ file # coverage
  /\ file' = coverage
  /\ UNCHANGED <<usage, clock, serverVars, cacheVars, pc, coverage, cycle, startedAt, previous, pages, queue, replay, toSend, artifact>>

(* The HTTP, time or raw storage budget aborts the crawl.                  *)
StopCrawl ==
  /\ pc = "crawl" /\ queue # << >>
  /\ pc' = "stopped" /\ queue' = << >>
  /\ UNCHANGED <<usage, clock, serverVars, cacheVars, file, coverage, cycle, startedAt, previous, pages, replay, toSend, artifact>>

(* What the attempts of this cycle, kept with the entry, say of it.        *)
Observed(entry) ==
  CASE entry.page = NoPage \/ entry.page.latest # entry.attempt -> "failed"
    [] entry.page # NoPage /\ entry.page.latest = entry.attempt ->
         IF entry.page.active THEN "verified" ELSE IF entry.retired # 0 THEN "retired" ELSE "quarantined"

(* summary.complete of a full cycle, apart from the listings: the run was  *)
(* not stopped, collectionCycleInventoryComplete, and no active page is    *)
(* stale (coverageBySource).                                               *)
TerminalOrQuarantined(entry) == SeenInCycle(entry) /\ Observed(entry) # "failed"
Terminal(entry) == SeenInCycle(entry) /\ Observed(entry) \in {"verified", "retired"}
ReportsComplete ==
  /\ pc = "crawl" /\ queue = << >> /\ cycle # NoCycle
  /\ \A s \in Source : coverage[s] # NoEntry =>
       /\ Terminal(coverage[s])
       /\ coverage[s].retired = 0 => startedAt - coverage[s].page.latest <= Fresh

-----------------------------------------------------------------------------
(* Publishing *)

(* reconcile                                                               *)
Reconciled(s) ==
  IF pages[s] # NoPage THEN Row(pages[s])
  ELSE IF IsFresh(previous[s]) THEN previous[s] ELSE 0

(* publicationGate                                                         *)
GatePasses ==
  LET old == Cardinality({s \in Source : previous[s] # 0 /\ IsFresh(previous[s])})
      new == Cardinality({s \in Source : Reconciled(s) # 0})
  IN  /\ \E s \in Source : pages[s] # NoPage
      /\ new > 0
      /\ old >= MinForDrop => 10 * new >= 6 * old

(* prepareImportPages                                                      *)
Importable(s) == pages[s] # NoPage /\ clock - pages[s].latest <= ImportAge

Waited(s, full) ==
  CASE coverage[s] = NoEntry \/ coverage[s].attempt > startedAt -> 0
    [] coverage[s] # NoEntry /\ coverage[s].attempt <= startedAt /\ full /\ Due(coverage[s]) -> waits[s] + 1
    [] OTHER -> waits[s]

(* The step that caches the file only warns when it cannot.                *)
SaveCache(waited) ==
  \/ cache' = file /\ cachedCycle' = cycle /\ waits' = waited /\ UNCHANGED evictions
  \/ evictions < MaxEvictions /\ evictions' = evictions + 1 /\ UNCHANGED <<cache, cachedCycle, waits>>

(* The run ends: the workflow saves the coverage file, and publishes when  *)
(* the gate and planImportBatches let it.                                  *)
FinishRun ==
  /\ pc \in {"crawl", "stopped"} /\ queue = << >> /\ file = coverage
  /\ SaveCache([s \in Source |-> Waited(s, pc = "crawl")])
  /\ toSend' = IF GatePasses THEN {s \in Source : Importable(s)} ELSE {}
  /\ pc' = IF toSend' # {} THEN "publish" ELSE "idle"
  /\ IF toSend' # {} THEN UNCHANGED jobVars ELSE Forget
  /\ UNCHANGED <<usage, clock, serverVars, artifact>>

(* The receipt of a replay whose imports all succeeded, now or before.     *)
ImportsProofAlways(importsComplete) == TRUE
ImportsProof(importsComplete) == artifact.imported \/ importsComplete

(* A publication fails.  Its report stays as an artifact, unless a later   *)
(* one replaces it; that of a replay which came as far as the checkpoint   *)
(* proves that its imports were complete.                                  *)
FailPublication(importsComplete) ==
  /\ pc' = "idle" /\ Forget
  /\ IF replay THEN artifact' = [artifact EXCEPT !.imported = ImportsProof(importsComplete)]
     ELSE \/ UNCHANGED artifact
          \/ usage.replays /\ artifact' = [pages |-> pages, at |-> clock, imported |-> FALSE]

(* importPages of the server for one page of a batch.  The request fails   *)
(* before or after the page, and with it the job.                          *)
StagesAny(head, page) == TRUE
Stages(head, page) == ~Superseded(head, page)
SendPage(s) ==
  /\ pc = "publish" /\ s \in toSend
  /\ LET staged == IF Stages(sources[s], pages[s]) THEN [sources EXCEPT ![s] = pages[s]] ELSE sources
     IN  \/ sources' = staged /\ toSend' = toSend \ {s} /\ UNCHANGED <<pc, jobVars>>
            /\ UNCHANGED artifact
         \/ sources' \in {staged, sources} /\ toSend' = {} /\ FailPublication(FALSE)
  /\ UNCHANGED <<usage, clock, published, reported, cacheVars>>

(* saveCheckpoint after all batches: the server publishes what is staged;  *)
(* it refuses, or the client does not hear of it, and the job fails.       *)
FinishedAt == IF replay THEN artifact.at ELSE clock
SaveCheckpoint ==
  /\ pc = "publish" /\ toSend = {}
  /\ \/ /\ NotNewer(sources, FinishedAt) /\ HasEvents(sources)
        /\ published' = sources /\ reported' = FinishedAt
        /\ \/ pc' = "published" /\ UNCHANGED <<jobVars, artifact>>
           \/ FailPublication(TRUE)
     \/ UNCHANGED <<published, reported>> /\ FailPublication(TRUE)
  /\ UNCHANGED <<usage, clock, sources, cacheVars, toSend>>

(* The replay of a failed publication, after preflightReplay: with its     *)
(* imports, or, when an earlier replay proves them, the checkpoint alone.  *)
StartReplay(checkpointOnly) ==
  /\ pc \in {"idle", "published"} /\ artifact # NoArtifact
  /\ reported < artifact.at
  /\ Clear /\ pages' = artifact.pages /\ replay' = TRUE
  /\ LET importable == {s \in Source : pages'[s] # NoPage /\ clock - pages'[s].latest <= ImportAge}
     IN  /\ importable # {}
         /\ checkpointOnly => artifact.imported
         /\ toSend' = IF checkpointOnly THEN {} ELSE importable
  /\ pc' = "publish"
  /\ UNCHANGED <<usage, clock, serverVars, cacheVars, artifact>>

-----------------------------------------------------------------------------
(* Failures, and the time between jobs *)

(* The collector process dies; the workflow still saves the file.          *)
CrashRun ==
  /\ pc \in {"listing", "crawl", "stopped"}
  /\ SaveCache([s \in Source |-> IF file[s] # NoEntry /\ file[s].attempt > startedAt THEN 0 ELSE waits[s]])
  /\ pc' = "idle" /\ Forget
  /\ UNCHANGED <<usage, clock, serverVars, toSend, artifact>>

LoseRunner ==
  /\ pc \in {"listing", "crawl", "stopped", "publish"}
  /\ pc' = "idle" /\ Forget /\ toSend' = {}
  /\ UNCHANGED <<usage, clock, serverVars, cacheVars, artifact>>

EvictCache ==
  /\ pc = "idle" /\ evictions < MaxEvictions
  /\ cache' = [s \in Source |-> NoEntry] /\ cachedCycle' = NoCycle
  /\ evictions' = evictions + 1
  /\ waits' = [s \in Source |-> 0]
  /\ UNCHANGED <<usage, clock, serverVars, jobVars, pc, toSend, artifact>>

Pause ==
  /\ pc \in {"idle", "published"}
  /\ Now \in Stamp
  /\ clock' = Now /\ pc' = "idle" /\ Forget
  /\ UNCHANGED <<usage, serverVars, cacheVars, toSend, artifact>>

Next ==
  \/ \E id \in usage.cycles \cup {NoCycle} : Start(id)
  \/ \E checkpointOnly \in BOOLEAN : StartReplay(checkpointOnly)
  \/ Schedule \/ SaveCoverage \/ StopCrawl \/ FinishRun \/ SaveCheckpoint
  \/ \E outcome \in Outcome : Fetch(outcome)
  \/ \E s \in Source : SendPage(s)
  \/ CrashRun \/ LoseRunner \/ EvictCache \/ Pause

Spec == Init /\ [][Next]_vars

-----------------------------------------------------------------------------
(* Properties *)

(* A successful publication contains what any earlier job verified, also   *)
(* one that crashed, was stopped or failed to publish, as long as its      *)
(* coverage file was kept and the observation is young enough to import.   *)
VerifiedIsPublished ==
  pc = "published" =>
    \A s \in Source :
      (coverage[s] # NoEntry /\ coverage[s].page # NoPage /\ clock - coverage[s].page.latest <= ImportAge) =>
        published[s] # NoPage /\ coverage[s].page.latest <= published[s].latest

(* "Older imports cannot restore removed sessions" (collector/README.md):  *)
(* with an old coverage file or none, and in the replay of an old report,  *)
(* pages never take a source of the published catalog back to an earlier   *)
(* observation, nor the catalog to an earlier report.                      *)
PublicationAdvances ==
  [][/\ reported <= reported'
     /\ \A s \in Source : published[s] # NoPage =>
          published'[s] # NoPage /\ published[s].latest <= published'[s].latest]_vars

(* The gate judges events that the server really publishes: each of them   *)
(* is there in this or a newer observation, although the collector builds  *)
(* its list from the old snapshot and its coverage, and the server from    *)
(* its staged pages.  A replay publishes all pages of its report, those of *)
(* retirements too, also when it asks for the checkpoint only.  (The gate  *)
(* counts replayed pages in the last hour of their 72 as well, which       *)
(* prepareImportPages leaves out.)                                         *)
GateSeesCatalog ==
  pc = "published" =>
    \A s \in Source :
      LET expected == IF replay /\ pages[s] # NoPage THEN pages[s].latest ELSE Reconciled(s)
      IN  expected # 0 /\ (pages[s] # NoPage => Importable(s)) =>
            published[s] # NoPage /\ expected <= published[s].latest

(* A report of a full cycle that claims to be complete is right: every     *)
(* source of the catalog is known, was verified or found retired after     *)
(* this cycle was begun, and no session in the new list is older, whatever *)
(* jobs died, whatever cycles began in between, also under the same id.    *)
CompleteMeansSeen ==
  ReportsComplete =>
    \A s \in Source :
      /\ coverage[s] # NoEntry =>
           coverage[s].page # NoPage /\ coverage[s].page.latest > cycle.begun
           /\ (coverage[s].page.active \/ coverage[s].retired # 0)
      /\ Snapshot(s) # 0 => coverage[s] # NoEntry
      /\ Reconciled(s) # 0 => Reconciled(s) > cycle.begun

Bound(s) ==
  (Cardinality({t \in Source : ProviderOf[t] = ProviderOf[s]}) - 1) \div (MaxDetails \div Len(Providers))

(* "Each run fairly rotates a bounded detail refresh across sources"       *)
(* (run.mjs): an active page is attempted within a bounded number of full  *)
(* runs, whatever fails, is stopped or crashes in between, and so is a     *)
(* retired one that a cycle has not seen.  Runs count when their coverage  *)
(* file is saved, and from anew when the file is evicted.                  *)
ActivePagesRotate ==
  \A s \in Source : cache[s] # NoEntry =>
    LET unseen == cachedCycle # NoCycle /\ cache[s].seen # cachedCycle.id
    IN  cache[s].retired = 0 \/ unseen => waits[s] <= Bound(s)
=============================================================================
