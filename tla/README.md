# Bi' Plan: TLA+ models and proofs

Bi' Plan collects Istanbul events, publishes them as immutable snapshots, enriches them
through paid providers and serves recommendations. This directory models the parts of it in
which several actors share durable state or money: what they read before an `await` and use
after it, what a crash or a lost reply leaves behind, and what a retry does. It also holds the
pure functions those parts lean on, where a mistake would show only in rare combinations.
Paths below are relative to the repository's root (`src/` in `PROJECT.json`).

The system is one Node service on Cloud Run (`web/`), Firestore documents reached through
transactions, immutable objects in Cloud Storage, and jobs of GitHub Actions (`collector/`
and the clients in `web/scripts/`) that call the service's admin routes. A PostgreSQL pipeline
(`collector/preparation`, `collector/jobs`) prepares the same data with durable queues; the
product's v1 does not deploy it (`README.md:11`), its code and its tests are kept.

## 1. Inventory

### Components and the state they keep

| Component | State | Operations | Interacts with |
| --- | --- | --- | --- |
| Snapshot store, `web/lib/store.gcp.ts` with the import and collection routes | Firestore: source heads, catalog head, publication record, `sync_lock`; GCS: source pages, search catalogs, checkpoints | `acquireLease`, `importPages`, `publishCheckpoint`, `releaseLease` | called by the collector's publisher; read by every other component |
| Selection of a checkpoint's events, same file | locals of `publishCheckpoint` | the loop over all staged pages | part of a publication |
| Search catalogs and identity, `materialized-catalog.ts`, `collector/identity/resolve.ts` | none | families of sessions, versions of a family over time | part of a publication; read by `candidates` |
| Vector index, `web/lib/voyage-index.ts`, `saveVoyageVectors`, `activateSearchCatalog` | vector head and object, `voyage_index_lock` | embed a batch, combine, swap, activate | catalog head written by publications |
| Audited index, `web/lib/audited-index.ts` | window and run documents (the budget), evidence objects | reserve, call, check, save, settle, halt | vector index, the embeddings route |
| Event labels, `web/lib/event-label-index.ts` | token ledger, label snapshot, `label_index_lock` | reserve a group, call in parallel, settle, save | the labels route and its client |
| Query embedder, `web/lib/query-embedding.ts` | in one process: cache, calls under way, reserved starts, cooldown | `queryEmbed` | Voyage, every search |
| Request limits, `web/lib/rate-limit.ts`, `consumeLimit` | counters of minute, hour and day buckets | consume a unit | the recommend route |
| Collector job, `collector/run.mjs`, `coverage.mjs`, `collection-scope.mjs`, `pipeline.mjs`, `publish.mjs`, `replay-publication.mjs` | coverage file and cycle proof, cached between jobs; artifact of the last job; report | restore, replay, fetch in fair order, save, gate, import, publish | snapshot store over HTTP, the websites |
| Preparation pipeline, `collector/preparation` | PostgreSQL: offer heads, canonical heads, five leased queues, batches, the active publication | accept, claim, complete, refresh, publish a batch | its own readers, `pipeline-catalog.node.ts` |
| Raw collection jobs, `collector/jobs` | PostgreSQL: collections, listing heads, leased jobs shared by collections, sessions of a collection, publications and the active one | extract, ingest, claim, complete, fail, prepare in four stages, publish, roll back | its command `run.mjs`; the schema's other readers |
| Recommendation, the recommend route, `recommend.ts`, `plan-evidence.ts` | none across requests | admit, pin, interpret, retrieve, rank, fall back, revalidate | limits, embedder, read side, providers |
| Read side, `catalog-reader.ts`, `pipeline-catalog.node.ts`, caches in `store.gcp.ts` | caches of immutable objects, loads under way | `candidates`, `catalogStatus`, `pin`, `finalize` | catalog, vector and label heads, the active publication |

`PROJECT.json` lists all components, also the ones without a module, with the reason.

### What is hard, and what makes each part correct

* **Publication is not one transaction.** `publishCheckpoint` lists the staged heads outside
  any transaction, reads every page, builds and uploads two objects, and only then swaps the
  head. Imports and other publications may run in between when a lease has expired. Correct
  means: what appears is exactly what is staged at the moment of the swap
  (`AtomicPublication`), a page or a report that was acknowledged does not disappear, and no
  head names an object that is not there.
* **Leases expire under their holders**, and each instance judges expiry by its own clock.
* **Every call may take effect and still fail** for its caller; an instance may vanish at any
  step. The publication record must tell the truth after that, and a paid call must not be
  paid for again.
* **Whole objects are replaced** (vectors, labels): a slow writer must not drop what a faster
  one has paid for.
* **Budgets are reserved before and settled after** a call that nobody can take back.
* **Reservations lie in the future** (query embedder): a search that waits must not be
  overtaken, forgotten or paid for twice, and a 429 may arrive while it waits.
* **The collector forgets**: its coverage file is a cache entry that may be old or missing,
  and a run may end between any two steps. What was verified must still be published, removed
  sessions must not come back, and every page must come round.
* **Records arrive late, twice or in contradiction** (preparation pipeline), workers die with a
  leased row, and a refresh reads a publication that moves before it is switched. Readers must
  see heads that only move forward, and no accepted revision may be forgotten.
* **A request outlives what it read** (recommendation): the publication changes after the
  ranking, a shared load fails for those who joined it, interpreter and ranker may answer
  anything. A card must still be current and proven when it is sent.

The hazards are listed in `PROJECT.json` with the line at which each bites and the properties
that cover it.

## 2. Modules

| Module | Models | State and actions in terms of the code |
| --- | --- | --- |
| `SourcePages` | `source-page.ts`, the staging rule of `importPages` | A page is its source, the oldest and newest `checkedAt` of its events, and whether it has events. `Superseded` is the test that skips a page. |
| `CatalogPublication` | what the store promises | Abstract specification: `StagePage` and `Publish` in one step each, no lease, no phases, no failures. |
| `SnapshotStore` | `store.gcp.ts` with both routes | One actor per HTTP request; an action is one transaction, one storage call or one read with the local code around it. `Committed` lets a committed transaction's reply get lost; `Fail` and `Crash` fail a call without effect and kill an instance. `lease.left` is the time left of the lease and a clock may be off by `Skew`. |
| `CheckpointSelection` | the event loop of `publishCheckpoint` | `TakeNew`, `TakeNewer`, `SkipOlder`, `Refuse`: one action per way through the loop's body; `staged` is any list of events grouped by page. |
| `IdentityResolution` | `identity/resolve.ts` | Operators: from events with a title, a venue by hint, district or coordinates, a time and a policy to the edges, components, venues and session ids the code derives. |
| `SearchCatalog` | `materialized-catalog.ts` | Operators on top of it: families, and for each family the list of versions with the moment from which a version is shown; `ShownAt` is what a reader gets. |
| `VectorIndex` | `indexVoyageBatch`, `saveVoyageVectors`, `activateSearchCatalog`, the embeddings route | `ReadHead`, `CombineAndUpload`, `SwapHead` are the three moments of replacing the snapshot, `Capture` and `ActivateSearch` those of an activation. A publication is one step here. |
| `AuditedIndex` | `audited-index.ts` | `Reserve` and `Settle` are the two transactions around `CallProvider`; `Halt` is the attempt of the catch block to record a failure. `window` and `runs` are the durable documents. |
| `LabelLedger` | `event-label-index.ts` | `Reserve`, `CallProvider` (a group of parallel calls), `Settle`, `SaveLabels`. A transaction callback may run twice. |
| `QueryEmbedder` | `query-embedding.ts` | An action is one uninterrupted run of the event loop: `Hit`, `Join`, `Skip`, `Reserve`, `Wake`, `Succeed`, `Refuse`. `cache` is the Map in insertion order. |
| `RequestLimits` | `rate-limit.ts`, `consumeLimit`, the route's order | A bucket is named when the request arrives and used by a later transaction. |
| `CollectorRuns` | the scheduled job, the jobs of a collection cycle, the replay of a publication, and their client of the admin routes | From `Start` (restore and replay of the file) over `Schedule`, `Fetch`, `SaveCoverage`, `FinishRun` to `SendPage` and `SaveCheckpoint`; `StartReplay` enters at the gate with the artifact of an earlier job. `file` is the coverage file on the runner, `cache` the one kept between jobs, `cycle` and `cachedCycle` the proof of a cycle beside them. Uses `SourcePages` for the server's side. |
| `OfferRecords` | the order of revisions, `offer_identities` | `Forward` decides whether a revision replaces a head. |
| `OfferBoard` | what the preparation pipeline promises its readers | Abstract specification: `Accept` moves a head forward, `Publish` brings some sessions to their heads at one instant. |
| `LeasedWork` | the rows of the leased queues | Operators on one row: claimable, claimed under a new attempt, exhausted, released, failed. |
| `OfferPipeline` | `schema.sql`, migrations 002 to 005, workers, sources | An action is one SQL function, that is one transaction, or one step of a worker between two of them. A worker keeps what it read (`ReadRefreshBase`, `ReadCanonicalInput`) until the guarded switch. |
| `BatchPublication` | migration 006, `batch-source.mjs`, `batch-worker.mjs` | Extends `OfferPipeline` by batches: begin, observe, quarantine, seal, prepare, publish, cancel. |
| `PageReceipts` | migrations 007, 008, 012, 013, `collector-page-receipt.mjs`, `page-batch-source.mjs` | Extends `BatchPublication` by batches that bring the pages they read: `BeginPages`, `RecordPage`, `SealPages`, `PublishPages`. `newest` is the head of each URL, `evidence` what the active publication pinned; `OfferUsable` is what `current_publication_offer_status` tells a reader. Where batches have pages, only batch workers run. A full batch speaks for its providers and for the occurrences within its horizon (`InScope`). |
| `CollectionJobs` | `collector/jobs`: `store.mjs`, `extract.mjs`, `ingest.mjs`, `pipeline.mjs`, `publication.mjs`, `run.mjs` | A process is one invocation of `run.mjs` for one collection, which can be started again. An action is one transaction or one claim; `Complete` is the handler's transaction with the fence, the current inputs and the dependents. A job is its stage and what it is computed from, so collections share it. `found` is what an ingestion saw of the heads, `raced` a history of heads replaced unseen. |
| `PlanEvidence` | `plan-evidence.ts` | Operators: a three-valued test of one event against a plan with groups, exclusions and experiences. |
| `Candidates` | `isEligible` of `search.ts`, the exclusions of `recommend.ts` | Operators on one event, a filter and the ids shown before: `Admitted` is what a request may consider. |
| `Ranking` | `retrieval.ts`, `hybrid.ts`, `soft-preferences.ts`, the selection in `recommend.ts` | Operators on lists of events: shortlist and basic order, one place per show, calm supplements, fusion of two rankings, nudges, and the cards behind the ranker's judgements. |
| `Recommendation` | the recommend route, `recommend.ts`, the readers of both stores | An action is one phase of one request; `catalogs` is a cache with its loads. The admission is that of `RequestLimits`, composed step by step. |
| `...Proofs` (eight) | | theorems and their proofs. Those of `CheckpointSelection` are in `SnapshotStoreProofs`, of `VectorIndex` and `QueryEmbedder` in `EmbeddingProofs`, of `RequestLimits` in `RecommendationProofs` |
| `MC...` | | constants, symmetry, scenarios and small inputs for TLC |

How they compose: `SnapshotStore` extends `CatalogPublication`, whose variables are two of its
own, so the refinement mapping is the identity and `AtomicPublication` is the abstract `Spec`
itself. `VectorIndex` and `CollectorRuns` take a publication as one step, which is what
that refinement justifies, and `CollectorRuns` shares the staging rule. `AuditedIndex` and
`LabelLedger` save their snapshots in one step, whose parts are in `VectorIndex`.
`BatchPublication` extends `OfferPipeline`, which instantiates `OfferBoard` with its heads and
its active publication (`BoardPromise`); `PageReceipts` extends `BatchPublication` and has the
specification of the whole, `PageSpec`, which keeps that promise too. `Recommendation` instantiates `RequestLimits` with
the requests' own variables; `RecommendationProofs` shows that this is a refinement, so the
theorem about limits holds in the composed system. `SearchCatalog` extends
`IdentityResolution` and is evaluated on small inputs beside the selection it follows in
`publishCheckpoint`; `PlanEvidence`, `Candidates` and `Ranking` beside the requests that use them: in
`Recommendation` only the time of a check can rule an event out, and a shortlist is any list of admitted events.

Definitions such as `UploadNotAwaited` or `CanTakeInclusive`, next to the one whose name they
resemble, are that definition with a plausible mistake. They are part of no specification:
`PROJECT.json` lists for every property the mistake that violates it.

## 3. What is checked

Numbers are TLC's distinct states; every run takes less than five minutes with two workers.

| Run | Properties | Bounds | States |
| --- | --- | --- | --- |
| `store_requests` | publication by phases implements the atomic one, acknowledged imports and reports stay, heads name existing objects, the record is truthful and that of the publisher at work, every request that keeps asking ends | two requests, two sources, two stamps, the second one also a redeployment with another profile, lease of one tick, clocks one tick apart, a page staged before the start; fair | 0.13M |
| `selection_newest` | newest observation wins; on the way the assumptions about identity and catalogs | up to three events, two ids, three pages, two stamps, two sizes | 0.05M |
| `vectors_requests` | committed vectors stay, the newest publication is live, everything gets indexed | two clients, two documents, two publications, two faults; fair | 0.8M |
| `audited_budget` | no text paid for twice, no call while one is unsettled, spacing and window budget | two requests of two runs, three windows, two publications, one fault | 5.7M |
| `labels_requests` | cap, halts, no document paid for twice without a fault, everything gets labeled | two requests, three documents, groups of two, one fault, one resume; fair | 0.3M |
| `query_searches` | calls per rolling window, one payment per text, every search answered | four searches of two texts, two calls per two ticks, a wait of one tick, cache of one entry; fair | 0.65M |
| `collector_jobs` | a report that claims to be complete has seen every page, verified pages are published, publications and reports advance, the gate sees the catalog also in a replay, active pages rotate | three usages: scheduled jobs over three sources of two providers, two cycles over two sources, jobs and replays over two sources; two details a run, time 0..3, one eviction | 2.2M |
| `preparation_publication` | the pipeline implements `OfferBoard`, no accepted revision is forgotten, a batch is served whole or not at all, a price only from the newest page, a full batch has seen what it covers, attempts and leases agree, all work settles | twenty-one scenarios over two sessions, four offers of two providers, three URLs with eleven pages, two batches, two workers, two attempts; fair | 0.09M |
| `jobs_publication` | what is published has every listing of a collection once and usable pages only, no publication brings an older observation back, every collection is prepared unless a job of it failed | seven scenarios: two processes over two collections of an older and a newer time, of contradicting and of shared listings, one collection by two identity versions, raw pages, a retired and an empty page; two listings, one crash or error, one interruption, one rollback; fair | 0.43M |
| `recommend_requests` | limits, cards are current and proven and of one live catalog, nobody joins a load that is not under way | two requests of one visitor, two sessions, two plans, a cache of one catalog, one change, one fault | 1.2M |
| `query_quiet_after_429` | violated: quiet after HTTP 429 | three searches | |
| `audited_rolling_minute` | violated: bytes of a rolling minute | one request after the other | |

Pure functions are checked by assumptions that TLC evaluates over all small inputs when a run
starts. In `selection_newest`: `VenuesFit`, `SessionsFollowDecisions`, `UnstatedStandsAlone` (what
`resolve.ts` joins and what it must keep apart), `ShowsTheEligible` (at every moment exactly the
eligible events of a family are shown, each once), and the two exhibits of section 5. In
`recommend_requests`: `PlansAreSound` (the three-valued evidence never proves what some reading
of the unknown facts denies), `NoPlaceIsWasted` (a shortlist is full while a show is left, has
each show once, at its first session where the wish orders by time or price, and the basic order
drops nothing of it), `FusionAgrees`, `NudgesAreBounded`, `JudgedCardsAreDistinct` (whatever the
ranker answers), over lists of three events, two of one production or show, and of twenty for the
nudges; `DistrictsNeedEvidence` and `TimesNeedEvidence` against what an event states,
`AlternativesAreNew` (who asks again sees each production once while all that was shown is
remembered, with one to three places to remember), and the exhibits `OldKeysTakeTwoPlaces` and
`GoneSessionsAreForgotten` of section 5.

**Why the bounds are enough.** The bad interleavings of the store need a holder whose lease
ran out, the one that took over, and a page or report that was there before: a third request
whose work is done at the start. Two sources and two stamps give an older and a newer page, an
event page and a retirement, and a report before and after them. `Skew` as long as the lease
makes a lease look alive and expired at once. In the indexers two requests are a holder and its
successor, and there is at least one more document than a batch holds. In the embedder the third
call is the first that does not fit the window, the fourth joins or finds the cache full; the
longest wait is shorter than the window, as in the code, and the last search may start when the
first window, a cooldown and the lifetime of a cache entry are over. In the collector
`MaxDetails` is smaller than the number of sources, one provider has two of them, and the time
spans fresh, too old to import, and recheck. In the preparation pipeline each scenario is one
kind of race with the input that makes it happen: two refreshes of one session, a late and a
clocked record, corrections by two providers, a cancellation before and after a switch, a batch
beside a refresh, a replayed and a blocked item, two publishers, a derivation that two workers
claim; and with pages: one that is withdrawn, comes late, comes again as recovered, is in doubt or
unreadable, a full batch that leaves fewer sessions, a session that moves, a full cycle beside
sources that change what is on sale. Two attempts are the one whose worker dies and the last
one. Two processes of the collection jobs are a run and the one that overtakes it, with the same
collection, a newer one or one that shares jobs; a third attempt to publish comes after a
rollback. In the recommendation two
requests are the one that loads a catalog and the one that joins, a change separates what was
ranked from what is current, and a cache of one catalog evicts.
Where a proof exists (section 4), it holds without bounds.

**Bounds that cut behaviour** are named: `MaxFaults`, `MaxFailures`, `MaxCatalogs`, `MaxChanges`,
`MaxRevision`, `MaxResumes`, `MaxEvictions`, `MaxTime`, `MaxCheckpoint`, `MaxStaged`, `Horizon`.
After `Horizon` nobody starts a search, and the clock runs on until the last slot.

**Deadlock** is checked where clients repeat their requests for ever (`vectors_requests`,
`audited_budget`, `labels_requests`, `jobs_publication`). The other systems come to rest: a store request, a search
and a recommendation end, the selection ends, every offer of a scenario is published, the clock
of limits and jobs stands at its bound.

### Fairness

* `SnapshotStore`: weak fairness of each request's own steps (the event loop runs on, calls
  return or fail), of the passage of time, and of `AcquireLease`: a caller refused with 409 asks
  again, as the next scheduled job does. A refusal changes nothing and is no step. No request
  is promised to live: `Crash` and `Fail` stay possible at every step.
* `VectorIndex`, `LabelLedger`: weak fairness of a request's steps and of the expiry of an
  abandoned lease; strong fairness of `AcquireLease`, because two clients may alternately see
  the lock free and taken, and the workflow repeats its requests. Faults are finite, so
  eventually a client gets through; without that nothing could be promised to a client whose
  every batch fails.
* `QueryEmbedder`: weak fairness of the clock, of timers and of the provider's answer, which
  `voyage.ts` bounds by a timeout. Timers are punctual: the clock does not pass a sleeper.
* `PageReceipts`: workers are invoked again until nothing is left (their runners are loops of a
  scheduled process): the steps of each worker are weakly fair, and so is that it claims
  something, of whatever kind; the expiry of a lease is weakly fair too. The sources may stop
  anywhere, and nobody has to cancel a batch. A worker may lose its lease or break down as often
  as attempts allow; then the row is exhausted, which settles it.
* `CollectionJobs`: weak fairness of the steps of each process, its start among them (an operator
  or a schedule repeats the command until it exits with 0), and of the end of a lease that nobody
  holds any more. Jobs are claimed in the order of their hashes,
  which is left open.
* `Recommendation` states no liveness: a request always ends by its deadline. What a reader
  could wait for in vain is a load, and `JoinedLoadsRun` says as an invariant that it is under way.

## 4. What is proved

TLAPS checks every proof. The assumptions are the `ASSUME`s of the modules: stamps and
limits are natural numbers, model values differ from data, a request's id stands for
the random token it generates, jobs are well-formed, a head imported by migration 002 is no
observation a source submits (it got the id of its offer, `002-offer-revisions.sql:119`), and a
raw collection names each listing once (`collector/jobs/ingest.mjs:16-28` refuses any other).
`PROJECT.json` lists the theorems.

`SnapshotStoreProofs`, for any number of requests, sources, stamps and profiles, any lease
lifetime and any disagreement of clocks:

1. `StoreTypeCorrect`. `TypeInv` adds to `TypeOK` that a request's program counter fits its job
   and that the page it works on exists (`JobMatches`), without which the types of the next step
   do not follow.
2. `ReadsStayCurrent`: `PublisherSeesPresent` is inductive together with `TypeInv`. It says that
   as long as the lease document carries a publisher's token, expired or not, the head it
   compared with and the source heads it listed are what is stored. The heart of the argument:
   whoever changes one of them holds the token, and a token, once replaced, never comes back.
   No step uses clocks. Expiry only decides *who may take over*, never *whether it is safe*.
3. `ObjectsExist`: the invariant `ObjectInv` adds what each request has uploaded so far, by
   position (`RequestObjects`).
4. `StoreImplementsPublication`: each step maps to a step of `CatalogPublication` or to a stutter.
   `CommitPage` stages, `Activate` publishes; the latter needs (2) and (3).
5. `ReportsStay` and `ImportsStay`: the public report and the staged stamps only move forward
   (`CatalogForward`, `CoveredStep`), and an answer of 200 is given only where they have arrived.
6. `RecordStaysTruthful`: `RecordInv` adds to the property that a publisher past its activation is
   past every step that writes the record, except the one that says it succeeded.

The second part of `SnapshotStoreProofs`, `CheckpointSelection` for any number of events and any order of pages:
`SelectionTypeCorrect`, `NewestIsSelected` and `AllAliasesAgree`. Agreement of *all* aliases
does not follow from the code's comparisons one by one; the invariant needs `TiedToSelected`
(every event seen is the selected one or has its listing), which makes the comparison with one
event enough. It is proved, and not among the invariants of `selection_newest`.

`EmbeddingProofs`, first `VectorIndex`: `VectorsStay` and `NewestIsLive`, from `IndexInv` and `RevisionInv`. A swap
compares revisions, so it is safe only if a revision is never used again: the proof shows that
a fresh one always exists and that every stored one was drawn before, hence an unchanged
revision means an unchanged snapshot.

`EmbeddingProofs`, then `QueryEmbedder`, for any searches, texts and limits, from `EmbedderInv`:

1. `NoTextPaidTwice`, from `PaidInv`: whoever holds a slot or waits for the provider is the
   pending request of its text, and the text is not cached. An answer is written to the cache in
   the step that ends the request, an eviction only removes.
2. `WindowIsKept`, from `PaceInv`. `starts` forgets what has left the window, so its length bounds
   no more than the calls still listed. `StartsKept` says what the list stands for: every entry is
   a caller's own reservation, and every reservation that may still share a window with a later
   one is listed. `Apart` is about all reservations there ever were: among more than
   `CallsPerWindow` some two are a window apart. A new one keeps it because of `SlotIsFree`: of any
   `CallsPerWindow` earlier reservations one lies a window before the slot chosen. If none did, all
   would be listed, at places after the one the code counts back to, and those are too few. That
   the list is sorted (`Ascending`) is part of the argument. `Punctual` carries it from
   reservations to calls.

`AuditedIndexProofs`, for any requests, runs, windows, documents and limits:

1. `NothingPaidTwice` and `OneCallOpen`, from `AuditInv`: the unsettled call of the budget is the
   one in flight, whoever holds the lock; the holder of the lease is the only one that can
   reserve; and a settled document has its evidence saved before.
2. `BudgetHolds` and `PacingHolds`, from `LedgerInv`. Both properties speak of all reservations
   there ever were, the ledger only of the last window, so the invariant says what the ledger
   stands for: the window and the time of the latest reservation, and a count of at least every
   call that shares a budget with it. The properties are part of the invariant, since an earlier
   reservation keeps its budget.

`LabelLedgerProofs`: `HaltStays`, `LabeledOnceEach` from `LabelInv` (as long as no fault
occurred, the lease keeps requests apart, and paid labels are saved or held by the request that
paid for them), and `CapIsKept` from `CapInv`: what the provider charged, together with the part
of each reservation that its call has not used, is never more than the ledger has counted. The
theorem is about calls that use no more than they reserve.

`CollectorRunsProofs`, for any sources, providers, limits and ages and any history of jobs, from
`CollectorInv`, and the last one also from `RotationInv`:

1. `VerifiedReachesPublication`. What a job knows and does not have among its pages is at the
   server (`KnownInv`). Restoring establishes it, and only because the server never goes back
   (`ServerInv`): a cached page that is neither replayed nor too old is no newer than the snapshot.
   `PublishInv` carries it through the imports, and to later jobs through the artifact that one of
   them replays.
2. `GateCountsCatalog`, from the same two: the list the gate counted is what is at the server.
3. `PublicationsNeverGoBack`, from `ServerInv` and `ReplayInv`: the staging rule keeps the newest
   page of a source, and a replay begins only with a report newer than the public one.
4. `CompleteReportsAreTrue`. `CycleInv` ties what a cycle has seen to the time it was begun,
   in memory, in the file and in its cache, and `RunInv` the events a run began with to its
   coverage: an event the run did not fetch is no older than its entry, or its entry is stale.
5. `PagesTakeTurns`. `FairShare`: a page that a full run does not reach has at least
   `MaxDetails \div Len(Providers)` pages of its provider ahead of it in the order, all of them
   reached. A counting argument: a place and a turn identify one page, and among those not reached
   one has none ahead of it. Such pages had no turn since that of the page (`AheadWaits`), which
   needs the order of the ranks and, across cycles, that a cycle has seen exactly what was attempted
   after it was begun (`AttemptInv`). So the pages served in between number at least the share times
   the runs waited (`RotationInv`), and they are at most the others of the provider.

`RecommendationProofs` begins with `RequestLimits`: `LimitsAreKept` for any number of visitors and
requests, and `TwoBucketsAtMost`: what fixed buckets promise about a rolling minute, whenever the
transactions run. It rests on a bucket being named at arrival (`LimitsInv`), not when it is counted.
For the pipeline see below.

`PreparationProofs`, all of `PageSpec`, for any offers, pages, batches, workers and deployments:

1. `TypeCorrect` and `AttemptsAgree`, from `PreparationInv`: the types, every row's attempts, and
   that a source between its two calls holds a record of its channel (`AskHolds`).
2. `KeepsBoardPromise`: every function of the pipeline, of the canonical path and of batches maps
   to a step of `OfferBoard` or to a stutter. A revision that is not held is forward in its
   source's order (`NotHeldIsForward`), and every switch is one publication of the board
   (`PublicationRefines`).
3. `EvidenceStaysSound`, from `PageInv`. Evidence is pinned at a switch and judged later, against
   heads that may have moved on, so three facts have to be carried along: the head of a URL is the
   newest page it was given, alone at its time unless it is held (`NewestInv`); evidence names a
   page that lists what it supports (`ListedInv`); and heads are offers' own (`HeadsNamed`). A step
   either touches no page table (`PlainStep`) or belongs to a batch with pages (`StepCases`), so
   the proofs about the pipeline are used unchanged.
4. `NoticesAreKept`, from `NoticeInv` and `BatchPhases`. Most steps are calm: they settle no row of
   a notice and serve nothing new (`Calm`); the rest is `Uncalm`, seven ways in which a row is
   delivered, a session published or a revision taken. A notice that reached its last row must
   not be settled before what it announces is served, for which a switch has to know more than its
   own rows: a revision not accepted has no rows, a request follows its event, a batch prepares
   every session it took, and only one batch is under way.
5. `BatchesAppearWhole`, where batches are the only source of facts (`SoloInv`). What a session
   serves, and what an open batch would replace there, was published by a batch as a whole; a
   reader's pins are those of the active publication, whose id never comes back, because the
   task that made it is done.

`RecommendationProofs`: `ImplementsLimits` and with it `AdmissionIsLimited`; `CardsStayCurrent`,
`OneLiveCatalog`, `CardsStayProven`, `NoLoadIsLost` from `RecommendationInv`, which says by
position what a request holds: the catalog it pinned was live after its arrival, its candidates
are of that catalog, its ranking consists of candidates with evidence for the plan, and a joined
load is one that is pending or done.

`CollectionJobsProofs`, for any collections, processes, versions of the identity rules and input:

1. `WholeIsPublished` and `NewestIsPublished`, from `JobsInv`. The heads are shared by all
   collections, and a publication reads those of its moment. `HeadsRemember`: the head of a
   listing is at least as new as every observation of it that was ingested, unless two
   ingestions overlapped there. `IngestedFirst`: no process gets past the ingestion without it. What
   is published was ingested, so nothing older can follow it, except by a rollback.
2. `JobsAreHeldOnce` and `CompletedJobsStay`, from `LeaseInv`: a claim raises the fence of its job,
   so two processes with one job in hand have different fences, and the row knows only the newer. A
   process whose lease was taken over can still compute, but not complete.

Every safety property that a passing run checks is a theorem for every value of the constants.
Model-checked only are liveness (`EveryRequestIsServed`, `EverythingIsIndexed`,
`EverythingIsLabeled`, `EverySearchIsAnswered`, `NoticesSettle`, `EveryCollectionIsPrepared`) and
anything with `ENABLED`, which the prover does not support, and the pure functions that the `MC...`
modules compare with their references: they are folds over lists, and what a fold computes for
every list needs induction with an operator for a parameter, which no installed prover does.

## 5. Where code and documents disagree

Two runs show a disagreement as a counterexample:

* `query_quiet_after_429`: a search that has reserved its slot calls the provider after another
  one got HTTP 429, although `web/lib/query-embedding.ts:27` and `docs/architecture.md:83` promise
  quiet for a window.
* `audited_rolling_minute`: a settled call is counted by its tokens, about a third of its bytes,
  so two calls of a minute carry more than the 24000 bytes of `docs/gcp-collector.md:204-205`.

Met while modelling, described here without a run of their own:

* The versions of a family are resolved from the events of that family alone, those eligible at
  that moment. A session whose venue is known only through a listing of another family becomes
  two cards, where `web/docs/event-merging.md:9-11` has one. `NeighboursAreForgotten` of
  `MCCheckpointSelection` is such an input.
* Two venues with one reviewed seed and one position but conflicting districts get one venue id,
  and their sessions are joined, although `event-merging.md:29` and `seed-overrides.ts:6-7` make a
  stated conflict decisive. `AliasesShareAnId` is such an input.
* The tag of a listing without a stated policy depends on the order of ids when title matches are
  not transitive (`resolve.ts`).
* `activateSearchCatalog` activates a pending catalog with vectors missing and says so in a
  comment (`store.gcp.ts:558`), while `storage-contract.ts:99` promises activation only once the
  profile is fully indexed. Heads of this release have no pending catalog.
* The transaction callback that reserves tokens clears the resume flag of the request, so a callback
  that the client library repeats finds the halt again and turns the request away
  (`web/lib/event-label-index.ts:173`, `docs/gcp-collector.md:268-269`). `Reserve` has that step.
* A window that is used for the first time after another one lapsed starts with no spacing and
  no rolling minute (`audited-index.ts:321`); `docs/gcp-collector.md:176` speaks of a changed
  window as one that keeps both. `IntervalKept` is therefore about windows that overlap.
  A lapsed window that is extended is refilled as well, with the same start or an earlier one, so
  `WindowBudget` counts the reservations that share a budget (`SameBudget`).
* Labels that were paid for are in memory until the end of the request
  (`event-label-index.ts:224`): a crash has them paid for again, although "unchanged documents
  cost nothing" (`docs/gcp-collector.md:262`). `LabeledOnce` is about requests without faults.
* The user limits are fixed buckets (`rate-limit.ts:32`), which admit up to twice the limit in
  a minute, where `docs/gcp-deployment.md:147` calls them rolling. `TwoBucketsAtMost` is what holds.
* A reactivated page keeps its place behind all active ones in the fair order
  (`coverage.mjs:258`), although `run.mjs:359` sets it apart from the slow recheck of retired pages.
  `ActivePagesRotate` is about pages that are not retired.
* A checkpoint may be refused or accepted depending on the order in which pages with equal
  stamps are read (`store.gcp.ts:852`); what is selected is right in both cases.
* A snapshot asked for its status at a moment before its catalog was materialized throws
  (`materialized-catalog.ts`), where other old moments give an answer.
* The gate of a collector run measures a drop against the list recovered from coverage, which
  earlier unpublished runs have already reduced (`pipeline.mjs:74`); two handlers that finish at
  once write the coverage file through one temporary name (`coverage.mjs:5` orders their writes).
* Where two orders are mixed (`retrieval.ts:495`, `:522`, `:527`) a show is known by the key saved
  with the snapshot before the one of today's rules, although `diverseEvents` says that the saved
  key "must not override today's display identity" (`retrieval.ts:53-54`). With keys of older rules
  one show takes two places of a shortlist: `OldKeysTakeTwoPlaces` of `MCRecommendation`.
* A preference one likes lifts an event over a neutral one that is up to fifteen places better,
  where `soft-preferences.ts:17` has relevance "stay dominant". `NudgesAreBounded` says what holds.
* The productions a request for alternatives excludes are those of eligible events
  (`recommend.ts:531-533`): when a shown session is sold out, its production may be offered again.
  `GoneSessionsAreForgotten` is such an input.
* In the preparation pipeline: observations of a canceled batch stay parked under its topic until
  a newer one of their session; a batch stays collecting when a replayed request is no longer the
  head; the branch of a refresh that is blocked by missing preparation cannot be reached when
  the import published every session; the insert of migration 005 into
  `canonical_preparations` does not tolerate a second row; the adapters send no source clock, so
  the clocked order of revisions is only used by tests and by the contract.
* In the collection jobs: of two ingestions that overlap, the one that waits for the other's row
  finds no head and checks nothing (`ingest.mjs:90-92`), so an older observation may replace a newer
  one and be published; `PublishedIsNewest` is about ingestions that do not overlap. For the same
  reason a negative page may withhold a head without asking for reconciliation (`:77-84`). An
  observation as old as a negative page, or older, lifts its withholding (`:93-94`), where
  `docs/archive/data-pipeline-rebuild-plan.md:242-243` has the offers withheld until somebody
  reconciles them. An identity job of one version may be computed by a process of another and is
  stored under its own key, although `:280-281` counts on the version; and a collection whose
  sessions come from two versions cannot be published. An error that would pass fails a job
  for every collection that shares it (`pipeline.mjs:31`), and nothing queues it again.
* The evidence hash of a page covers the whole report page, `recoveredFromCoverage` included
  (`collector-page-receipt.mjs:104`, `coverage.mjs:146`). A page submitted as current and later as
  recovered has the same time and another hash, which counts as a contradiction and is held
  (scenario `Recovered`). The adapter gives no source clock, so every later page of a URL whose
  head is held is held too (`007-page-receipts.sql:112-116`), and blocks its batch; no document
  says how to reconcile it.

## 6. What is not modelled, and why

* **Data.** Listings, labels, vectors, prompts and evidence are model values. Hashes are
  injective: an object is its key. Byte limits appear where code adds them up
  (`CheckpointSelection`, `AuditedIndex`).
* **In `SnapshotStore`:** damaged objects in the bucket (the read fails, as any call may), the
  elapsed-time diagnostics of the record. The publication deadline is one of the ways to fail.
* **In `CollectorRuns`:** cycles whose scope is not the whole catalog, target URLs, listing
  continuations, batch limits, and the provenance evidence a replay is checked against: an
  artifact is the one an earlier job left.
* **In `LabelLedger`:** a settlement that the Firestore client runs again after a commit whose
  outcome it does not know (`gcp-clients.node.ts:301-323` lets it try five times). The callback
  (`event-label-index.ts:208-220`) subtracts what it settles and would do so twice; in the model a
  settlement counts once. That a reservation runs again is modelled.
* **In `QueryEmbedder`:** timers that fire late. A late timer moves a call behind its reserved
  start, closer to the next one, so `RollingWindow` speaks of punctual timers.
* **In `RequestLimits`:** the single bucket of a search without paid providers and the
  `retryAfter` of a refusal.
* **In the preparation pipeline:** refresh and canonical workers beside batches with pages, with
  the guards 008 adds to them, failed or incomplete pages, an offer that moves to another URL;
  serving artifacts (011), storage admission, the resolution of a record to a session, productions
  shared by sessions, evaluations, the age of a summary.
* **In `CollectionJobs`:** fetch receipts and the verification of raw bytes (both only refuse), the
  cache of paid identity judgments, embeddings of documents, job budgets other than as an
  interruption, and the time reserved for a publication.
* **In `Recommendation`:** the interpreters jev-v1 and rules, whose requests carry requirements in
  place of a plan; the search with dense vectors of Postgres; the request log.
* **Text**: interpretation of requests, normalization of titles, extraction from web pages. Pure
  functions over natural language have no finite model that says something about them.
* **The user interface, scripts, infrastructure, evaluations.**

## 7. Plan

Done, in this order: the store with its abstract specification and proofs, the selection, the
three indexers, the embedder, the limits and the scheduled job, because a mistake in publication
loses what all other parts build on and one in a budget costs money; then the preparation
pipeline with its refinement and the page receipts, the recommendation composed with
the limits, identity and search catalogs, the collection jobs, and the proofs about all of them.

Left, in this order:

1. Requirements of requests without a plan, and the relaxations of a search.
2. Paid identity judgments, whose lease has the shape of `LeasedWork`.

## 8. Running it

```sh
tlc -workers 2 -config SnapshotStoreRequests.cfg MCSnapshotStore
tlapm SnapshotStoreProofs.tla
```

`PROJECT.json` names module and configuration of every run. Configurations give constants their
values and nothing else.
