--------------------------- MODULE PageReceipts ---------------------------
(***************************************************************************)
(* Batches with page receipts (header schemaVersion 2): migrations 007 and *)
(* 008, whose guards 012 and 013 only rewrite for bulk, with               *)
(* collector-page-receipt.mjs and page-batch-source.mjs.                   *)
(*                                                                         *)
(* The collector also submits the detail pages it read.  The newest page   *)
(* of a URL decides which of its offers a publication may support with a   *)
(* price: those the page lists.  Such a publication rebuilds all sessions  *)
(* and pins, for every offer, the page that decided.                       *)
(*                                                                         *)
(* Only batch workers run beside these batches.  An offer has one URL, and *)
(* a record carries the time of its page.                                  *)
(***************************************************************************)
EXTENDS BatchPublication

CONSTANTS Page,     \* submitted page observations
          UrlOf,    \* source_url of each offer
          NoPage

\* current: origin is current_run.  Pages of one URL and time that differ have
\* different evidence hashes: the name of a page is made from all three.
ASSUME PageAssumption ==
    /\ NoPage \notin Page
    /\ \A p \in Page : /\ p.observed \in Nat
                       /\ p.status \in {"verified", "retired", "quarantined"}
                       /\ p.current \in BOOLEAN
                       /\ p.records \subseteq Observation
                       /\ p.status # "verified" => p.records = {}
                       /\ \A r \in p.records : UrlOf[r.offer] = p.url
                                               /\ r.observed = p.observed
    /\ \A d \in Deployment : (\E b \in Batch : d.pages[b] # {}) =>
          /\ \A w \in Worker : d.serves[w] = {"batch"}
          /\ \A b \in Batch : d.batches[b] = UNION {p.records : p \in d.pages[b]}
    \* A full batch declares the providers it covers, and has no others' pages.
    /\ \A d \in Deployment : \A b \in d.full :
          /\ d.pages[b] # {}
          /\ \A r \in d.batches[b] : ProviderOf[r.offer] \in d.scope[b].providers
    /\ \A o, q \in Offer : UrlOf[o] = UrlOf[q] => ProviderOf[o] = ProviderOf[q]

Url == {UrlOf[o] : o \in Offer} \cup {p.url : p \in Page}

VARIABLES receipt,    \* source_page_observations, by decision
          newest,     \* source_page_heads
          inBatch,    \* preparation_batch_pages
          noted,      \* preparation_batch_page_sessions
          evidence,   \* publication_offer_evidence of the active publication
          outdated    \* full batches past freshness.validUntil

pageVars == <<receipt, newest, inBatch, noted, evidence, outdated>>

NoEvidence == [revision |-> NoRevision, page |-> NoPage,
               canonical |-> NoRevision, disposition |-> "none"]

PageTypeOK ==
    /\ receipt \in [Page -> {"none", "accepted", "held", "stale"}]
    /\ newest \in [Url -> Page \cup {NoPage}]
    /\ inBatch \in [Batch -> SUBSET Page]
    /\ noted \in [Batch -> SUBSET (Session \X (Observation \cup {NoRevision}))]
    /\ evidence \in [Offer ->
         [revision : Current, page : Page \cup {NoPage},
          canonical : Observation \cup {NoRevision},
          disposition : {"none", "supported", "unsupported"}]]
    /\ outdated \in SUBSET Batch

Paged(b) == deployment.pages[b] # {}

---------------------------------------------------------------------------
(* Ingestion: every page before the first record.                          *)

BeginPages(b) ==
    /\ batches[b].state = "none"
    /\ \A other \in Batch : ~Unfinished(other)
    /\ batches' = [batches EXCEPT ![b].state = "collecting"]
    /\ UNCHANGED <<vars, pageVars>>

TiesOnly(p) ==
    LET old == newest[p.url] IN
    IF old # NoPage /\ p.observed = old.observed THEN "held" ELSE "accepted"

\* The adapter gives no source clock, so a page after a held one is held too.
Decision(p) ==
    LET old == newest[p.url] IN
    IF old = NoPage THEN "accepted"
    ELSE IF p.observed < old.observed THEN "stale"
    ELSE IF p.observed = old.observed \/ receipt[old] = "held" THEN "held"
    ELSE "accepted"

SessionsUnder(url) ==
    {SessionOf[o] : o \in {o \in Offer : head[o] # NoRevision /\ UrlOf[o] = url}}

\* record_batch_page: a page another batch submitted keeps its first receipt;
\* the batch remembers the canonical revisions it found under the URL first.
RecordPage(b, p) ==
    LET decision == Decision(p)
        found == {s \in SessionsUnder(p.url) : \A note \in noted[b] : note[1] # s}
    IN /\ batches[b].state = "collecting"
       /\ p \in deployment.pages[b] \ inBatch[b]
       /\ inBatch' = [inBatch EXCEPT ![b] = @ \cup {p}]
       /\ noted' = [noted EXCEPT ![b] = @ \cup {<<s, canonical[s]>> : s \in found}]
       /\ IF receipt[p] # "none"
          THEN UNCHANGED <<receipt, newest>>
          ELSE /\ receipt' = [receipt EXCEPT ![p] = decision]
               /\ newest' = IF decision = "stale" THEN newest
                            ELSE [newest EXCEPT ![p.url] = p]
       /\ UNCHANGED <<batchVars, evidence, outdated>>

AskPageRecord(b, r) ==
    /\ inBatch[b] = deployment.pages[b]
    /\ AskItem(b, r)
    /\ UNCHANGED pageVars

---------------------------------------------------------------------------
(* What a page says of an offer.                                           *)

\* derive_offer_page_evidence.
Disposition(r, p) ==
    IF p = NoPage THEN "unsupported"
    ELSE IF \/ receipt[p] # "accepted" \/ p.status = "quarantined"
            \/ \E x \in p.records \cap held : x.offer = r.offer
    THEN "family_hold"
    ELSE IF r \in p.records \cap accepted THEN "supported"
    ELSE "unsupported"

CurrentEvidence(o) == Disposition(head[o], newest[UrlOf[o]])

\* session_projection_integrity.
Integrity(s) ==
    /\ Usable(s, FactsOf(canonical[s]))
    /\ \A o \in OffersOf(s) :
          head[o] # NoRevision => CurrentEvidence(o) # "family_hold"

\* Still the newest page of its URL, and accepted.
Stands(p) == newest[p.url] = p /\ receipt[p] = "accepted" /\ p.status # "quarantined"

\* A full batch speaks for its providers and for the occurrences that start
\* within its horizon.
InScope(b, o, facts) == /\ ProviderOf[o] \in deployment.scope[b].providers
                        /\ facts \in deployment.scope[b].horizon

\* It must account for every offer on sale there, of whatever page.
Covered(b) ==
    \A o \in Offer :
       /\ head[o] # NoRevision /\ head[o].facts # Canceled
       /\ InScope(b, o, FactsOf(canonical[SessionOf[o]]))
       /\ ~CanceledSession(SessionOf[o])
       => LET p == newest[UrlOf[o]]
          IN /\ p \in inBatch[b] /\ Stands(p) /\ p.current
             /\ CurrentEvidence(o) # "family_hold"

Full(b) == b \in deployment.full

\* seal_preparation_batch_v2: a full batch that falls short of its claim raises,
\* any other is blocked.
SealPages(b) ==
    LET sound == /\ batches[b].blocked = {}
                 /\ \A p \in inBatch[b] : Stands(p)
                 /\ \A s \in Session :
                       Heads(s) # {} /\ ~CanceledSession(s) => Integrity(s)
    IN /\ batches[b].state = "collecting"
       /\ inBatch[b] = deployment.pages[b] /\ AllRecorded(b)
       /\ Full(b) => /\ b \notin outdated /\ Covered(b)
                     /\ \A p \in inBatch[b] : Stands(p) /\ p.current
       /\ SealAs(b, IF sound THEN "sealed" ELSE "blocked")
       /\ UNCHANGED pageVars

\* A full batch is fresh for maxSourceAgeMs after its oldest observation.
GrowOld(b) ==
    /\ Spend
    /\ Full(b) /\ Unfinished(b) /\ b \notin outdated
    /\ outdated' = outdated \cup {b}
    /\ UNCHANGED <<recordVars, prepared, work, active, worker, ask, deployment, batches>>
    /\ UNCHANGED <<receipt, newest, inBatch, noted, evidence>>

---------------------------------------------------------------------------
(* Publication.                                                            *)

\* Everything published, prepared or found under a page, but for the canceled.
Targets(b) ==
    {s \in Session : /\ \/ active.pins[s] # {} \/ s \in Affected(b)
                        \/ \E note \in noted[b] : note[1] = s
                     /\ ~CanceledSession(s)}

PagesPublishable(b) ==
    /\ batches[b].blocked = {} /\ b \notin outdated
    /\ \A p \in inBatch[b] : Stands(p)
    /\ Full(b) => Covered(b)
    /\ \A s \in Affected(b) : LET r == batches[b].sessions[s]
                              IN r \in prepared /\ canonical[s] = r
    /\ \A s \in Targets(b) :
          /\ Integrity(s)
          /\ s \in Affected(b) \/ (active.pins[s] # {} /\ canonical[s] = active.canonical[s])
    /\ \A note \in noted[b] : note[1] \in Affected(b) \/ canonical[note[1]] = note[2]

Pinned(o) ==
    [revision |-> head[o], page |-> newest[UrlOf[o]],
     canonical |-> canonical[SessionOf[o]], disposition |-> CurrentEvidence(o)]

\* publish_preparation_batch of 008.
PublishPages(w) ==
    LET b == Task(w)[2] IN
    /\ At(w, "ready", "publish")
    /\ Paged(b)
    /\ \/ /\ worker[w].base # active.id
          /\ GoTo(w, "retrying") /\ UNCHANGED <<batches, evidence>>
       \/ /\ worker[w].base = active.id /\ ~PagesPublishable(b)
          /\ GoTo(w, "failing") /\ UNCHANGED <<batches, evidence>>
       \/ /\ worker[w].base = active.id /\ PagesPublishable(b)
          /\ PublishAs(w, Targets(b))
          /\ evidence' = [o \in Offer |->
                            IF SessionOf[o] \in Targets(b) /\ head[o] # NoRevision
                            THEN Pinned(o) ELSE NoEvidence]
    /\ UNCHANGED <<receipt, newest, inBatch, noted, outdated>>

---------------------------------------------------------------------------
(* What current_publication_offer_status tells a reader.                   *)

\* publication_offer_evidence_current.
EvidenceCurrent(o) ==
    /\ evidence[o] = [Pinned(o) EXCEPT !.disposition = evidence[o].disposition]
    /\ CurrentEvidence(o) # "family_hold"

OfferUsable(o) ==
    LET s == SessionOf[o] IN
    /\ head[o] \in active.pins[s] /\ canonical[s] = active.canonical[s]
    /\ Integrity(s)
    /\ EvidenceCurrent(o) /\ evidence[o].disposition = "supported"

---------------------------------------------------------------------------
PageInit ==
    /\ BatchInit
    /\ receipt = [p \in Page |-> "none"]
    /\ newest = [u \in Url |-> NoPage]
    /\ inBatch = [b \in Batch |-> {}]
    /\ noted = [b \in Batch |-> {}]
    /\ evidence = [o \in Offer |-> NoEvidence]
    /\ outdated = {}

IngestPages(b) ==
    /\ Paged(b)
    /\ \/ BeginPages(b) \/ SealPages(b)
       \/ \E p \in Page : RecordPage(b, p)
       \/ \E r \in Observation : AskPageRecord(b, r)
       \/ AcceptBatchObservation(b) /\ UNCHANGED pageVars
       \/ \E r \in Observation : Quarantine(b, r) /\ inBatch[b] = deployment.pages[b]
                                 /\ UNCHANGED pageVars

IngestAny(b) == IngestPages(b) \/ (~Paged(b) /\ Ingest(b) /\ UNCHANGED pageVars)

PageWorkerStep(w) ==
    \/ PublishPages(w)
    \/ /\ ReadJobInput(w) \/ CompleteJob(w) \/ ReadPublicationBase(w)
          \/ (PublishBatch(w) /\ ~Paged(Task(w)[2]))
       /\ UNCHANGED pageVars

\* What the runners' loops call first: a lease of any kind.
ClaimAny(w) ==
    \/ \E kind \in Kind : Claim(w, kind) /\ UNCHANGED <<batches, pageVars>>
    \/ \E b \in Batch : (ClaimJob(w, b) \/ ClaimPublication(w, b)) /\ UNCHANGED pageVars

PageNext ==
    \/ PipelineStep /\ UNCHANGED <<batches, pageVars>>
    \/ \E b \in Batch : IngestAny(b) \/ GrowOld(b) \/ (CancelBatch(b) /\ UNCHANGED pageVars)
    \/ \E w \in Worker, b \in Batch : (ClaimJob(w, b) \/ ClaimPublication(w, b)) /\ UNCHANGED pageVars
    \/ \E w \in Worker : PageWorkerStep(w)

pageBatchVars == <<batchVars, pageVars>>

\* Workers are invoked again until nothing is left, and a lease nobody holds
\* ends.  Sources may stop anywhere; the operator cancels nothing by duty.
PageFairness ==
    /\ WF_pageBatchVars(\E k \in Key : Expire(k) /\ UNCHANGED <<batches, pageVars>>)
    /\ \A w \in Worker :
          /\ WF_pageBatchVars(\/ WorkerStep(w) /\ UNCHANGED <<batches, pageVars>>
                              \/ PageWorkerStep(w))
          /\ WF_pageBatchVars(ClaimAny(w))

PageSpec == PageInit /\ [][PageNext]_pageBatchVars /\ PageFairness
---------------------------------------------------------------------------
(* Properties.                                                             *)

\* An offer that a reader may take with its price is listed, in exactly this
\* revision, by the one newest page its source has given of that URL: not by a
\* page that a later one contradicts, withdraws or merely omits it from, in
\* whatever order and through whatever batches the pages came.
SupportedIsListed ==
    \A o \in Offer : OfferUsable(o) =>
        LET seen == {p \in Page : p.url = UrlOf[o] /\ receipt[p] # "none"} IN
        \E p \in seen : /\ head[o] \in p.records \cap accepted
                        /\ \A q \in seen \ {p} : q.observed < p.observed

\* What a full batch publishes of its scope, and claims to have refreshed
\* completely, it has seen: each offer on sale there was decided by a page of
\* this collection run.
FullIsCovered ==
    \A b \in Batch : Full(b) /\ active.id = <<"publish", b>> =>
        \A s \in Session : \A r \in active.pins[s] :
            r.facts # Canceled /\ InScope(b, r.offer, FactsOf(active.canonical[s])) =>
                /\ evidence[r.offer].page \in inBatch[b]
                /\ evidence[r.offer].page.current

EvidenceIsSound == SupportedIsListed /\ FullIsCovered
=============================================================================
