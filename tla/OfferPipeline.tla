--------------------------- MODULE OfferPipeline ---------------------------
(***************************************************************************)
(* The PostgreSQL pipeline of collector/preparation (schema.sql and        *)
(* migrations 002 to 005) with the processes that call it: sources that    *)
(* read the current head of an offer and then submit an observation        *)
(* against it, workers that lease derivation jobs, outbox events, refresh  *)
(* requests and canonical preparations, and the one active publication     *)
(* that readers see.                                                       *)
(*                                                                         *)
(* A database function is one transaction and one step here.  Between two  *)
(* calls of a process anything may happen: another process runs, the lease *)
(* runs out, the call fails, the process dies.                             *)
(*                                                                         *)
(* A revision is its whole row.  Identity resolution is left out: a record *)
(* names its offer, an offer its session.                                  *)
(***************************************************************************)
EXTENDS LeasedWork, OfferRecords

CONSTANTS Observation,   \* revisions submitted as canonical observations
          ProviderOf,    \* provider of each offer, the source of its revisions
          LegacyFacts,   \* occurrence of a session before its first canonical revision
          FirstHead,     \* the current revisions the frozen import may leave
          Batch,
          Deployment     \* which processes run, on what input

ASSUME PipelineAssumption ==
    /\ Observation \subseteq Revision
    /\ \A r \in Observation : r.updated = 0   \* canonical-adapter.mjs has no clock
    /\ FirstHead \subseteq [Offer -> Current]
    \* 002 gives an imported revision the id of its offer: it is never submitted.
    /\ \A h \in FirstHead, o \in Offer :
          h[o] # NoRevision => h[o].offer = o /\ h[o] \notin Observation
    /\ LegacyFacts # Canceled
    /\ \A d \in Deployment : d.faults \in Nat

Body == {r.body : r \in Revision}

Kind == {"event", "request", "derive", "base", "batch"}

\* outbox, publication_refresh_requests and the four stages of preparation_jobs.
Key == ({"event", "request"} \X Revision)
       \cup ({"derive"} \X (Offer \X Body))
       \cup ({"base"} \X Observation)
       \cup ({"batch"} \X (Batch \X Observation))
       \cup ({"publish"} \X Batch)

Import == <<"import", NoRevision>>   \* id of the publication of the frozen import

Channel == {"offer", "canonical"} \cup Batch

VARIABLES head,         \* offer_identities.current_revision_id
          canonical,    \* canonical_heads
          accepted,     \* offer_revisions, by decision
          held,
          disputes,     \* canonical_occurrence_disputes
          prepared,     \* canonical_preparations
          work,         \* the leased rows
          active,       \* active_publication with its sessions and offers
          worker,       \* what each worker invocation holds
          ask,          \* the heads a source read, and the record it adapts
          deployment,   \* the scenario, fixed at start
          faults        \* failures that may still happen

recordVars == <<head, canonical, accepted, held, disputes>>
vars == <<recordVars, prepared, work, active, worker, ask, deployment, faults>>

NoAsk == [record |-> NoRevision, head |-> NoRevision, canonical |-> NoRevision]

Idle == [pc |-> "idle", key |-> Import, fence |-> 0,
         base |-> Import, pinned |-> NoRevision, served |-> FALSE]

Invocation == [pc : {"idle", "claimed", "ready", "failing", "retrying"},
               key : Key \cup {Import}, fence : Fence, base : Key \cup {Import},
               pinned : Observation \cup {NoRevision}, served : BOOLEAN]

Question == [record : Current, head : Current,
             canonical : Observation \cup {NoRevision}]

Publication == [id : Key \cup {Import}, pins : [Session -> SUBSET Revision],
                canonical : [Session -> Observation \cup {NoRevision}]]

TypeOK ==
    /\ head \in [Offer -> Current]
    /\ canonical \in [Session -> Observation \cup {NoRevision}]
    /\ accepted \in SUBSET Revision
    /\ held \in SUBSET Revision
    /\ disputes \in SUBSET Observation
    /\ prepared \in SUBSET Observation
    /\ work \in [Key -> Item]
    /\ active \in Publication
    /\ worker \in [Worker -> Invocation]
    /\ ask \in [Channel -> Question]
    /\ faults \in Nat

---------------------------------------------------------------------------
(* Acceptance: migrations 002 and 005.                                     *)

Heads(s) == {head[o] : o \in OffersOf(s)} \ {NoRevision}

SessionAt(r) == SessionOf[r.offer]

FactsOf(revision) == IF revision = NoRevision THEN LegacyFacts ELSE revision.facts

CanceledSession(s) == FactsOf(canonical[s]) = Canceled

HeldByClock(current, new) ==
    /\ current # NoRevision
    /\ current.updated # 0 /\ new.updated < current.updated

\* An observation cannot replace the current one: it has lost its clock, is
\* older, or contradicts it at the same instant.
Held(current, new) ==
    /\ current # NoRevision
    /\ \/ current.updated # 0 /\ new.updated < current.updated
       \/ /\ new.updated = current.updated
          /\ \/ new.observed < current.observed
             \/ /\ new.body # current.body
                /\ new.updated # 0 \/ new.observed = current.observed

SameSource(revision, new) ==
    revision # NoRevision /\ ProviderOf[revision.offer] = ProviderOf[new.offer]

\* The provider has said something newer of the session already.
Stale(revision, new) ==
    SameSource(revision, new) /\ new.observed < revision.observed

\* A canonical observation must also not contradict the canonical revision:
\* never that of another provider, and not its own provider's of that time.
CanonicalHeld(revision, current, new) ==
    \/ Held(current, new)
    \/ Stale(revision, new)
    \/ /\ revision # NoRevision /\ new.facts # revision.facts
       /\ SameSource(revision, new) => new.observed = revision.observed

\* A refused observation disputes the occurrence unless it is stale: older than
\* the offer's own head or, where that head does not refuse it, than the
\* canonical revision of its provider.
Disputes(revision, current, new) ==
    /\ current = NoRevision \/ new.observed >= current.observed
    /\ Stale(revision, new) => Held(current, new)
    /\ new.facts # FactsOf(revision)

Inserted(rows, keys) ==
    [k \in Key |-> IF k \in keys /\ rows[k] = Absent THEN Pending ELSE rows[k]]

NoticeOfNewBody(r) ==
    IF work[<<"derive", <<r.offer, r.body>>>>] = Absent
    THEN {<<"event", r>>, <<"derive", <<r.offer, r.body>>>>} ELSE {}

\* The derivation is content-addressed, the event belongs to the revision.
NoticeOf(r) == {<<"event", r>>, <<"derive", <<r.offer, r.body>>>>}

Decided(r) == r \in accepted \cup held

\* accept_offer_revision of a record that was not decided before.
DecideOffer(r) ==
    /\ IF Held(head[r.offer], r)
       THEN held' = held \cup {r} /\ UNCHANGED <<head, accepted, work>>
       ELSE /\ head' = [head EXCEPT ![r.offer] = r]
            /\ accepted' = accepted \cup {r}
            /\ work' = Inserted(work, NoticeOf(r))
            /\ UNCHANGED held
    /\ UNCHANGED <<canonical, disputes>>

\* accept_canonical_observation; rows is what it leaves of work when accepted.
DecideObservation(r, rows) ==
    LET s == SessionAt(r) IN
    IF CanonicalHeld(canonical[s], head[r.offer], r)
    THEN /\ held' = held \cup {r}
         /\ disputes' = IF Disputes(canonical[s], head[r.offer], r)
                        THEN disputes \cup {r} ELSE disputes
         /\ UNCHANGED <<head, canonical, accepted, work>>
    ELSE /\ head' = [head EXCEPT ![r.offer] = r]
         /\ canonical' = [canonical EXCEPT ![s] = r]
         /\ accepted' = accepted \cup {r}
         /\ work' = rows
         /\ UNCHANGED <<held, disputes>>

\* findExistingOffers and findHeads, then the adapter.
Ask(x, r) ==
    /\ ask[x] = NoAsk
    /\ ask' = [ask EXCEPT ![x] =
                 [record |-> r, head |-> head[r.offer],
                  canonical |-> canonical[SessionAt(r)]]]
    /\ UNCHANGED <<recordVars, prepared, work, active, worker, deployment, faults>>

\* The offer path takes terms only: a record whose occurrence differs from the
\* session's is quarantined by the adapter and goes no further.
AskOffer(r) ==
    /\ r \in deployment.offers /\ ~Decided(r)
    /\ head[r.offer] # NoRevision
    /\ r.facts = Canceled \/ r.facts = FactsOf(canonical[SessionAt(r)])
    /\ Ask("offer", r)

AskCanonical(r) ==
    /\ r \in deployment.canonical /\ ~Decided(r)
    /\ Ask("canonical", r)

\* The compare-and-set on the head the source read.
HeadsAsAsked(x) ==
    /\ ask[x].head = head[ask[x].record.offer]
    /\ x # "offer" => ask[x].canonical = canonical[SessionAt(ask[x].record)]

\* A replayed request returns its first decision; a moved head raises, and the
\* source starts over.
AcceptOfferRevision ==
    /\ ask["offer"] # NoAsk
    /\ ask' = [ask EXCEPT !["offer"] = NoAsk]
    /\ IF Decided(ask["offer"].record) \/ ~HeadsAsAsked("offer")
       THEN UNCHANGED <<recordVars, work>>
       ELSE DecideOffer(ask["offer"].record)
    /\ UNCHANGED <<prepared, active, worker, deployment, faults>>

AcceptCanonicalObservation ==
    LET r == ask["canonical"].record IN
    /\ ask["canonical"] # NoAsk
    /\ ask' = [ask EXCEPT !["canonical"] = NoAsk]
    /\ IF Decided(r) \/ ~HeadsAsAsked("canonical")
       THEN UNCHANGED <<recordVars, work>>
       ELSE DecideObservation(r, Inserted(work, NoticeOf(r) \cup {<<"base", r>>}))
    /\ UNCHANGED <<prepared, active, worker, deployment, faults>>

---------------------------------------------------------------------------
(* Leases: migrations 003 to 005, and the loop every worker runs.          *)

Rows(kind) == {k \in Key : k[1] = kind}

\* batch_limit is 1: at most one exhausted row is swept, one row claimed.
AtMostOne(S) == IF S = {} THEN {{}} ELSE {{x} : x \in S}

ClaimFrom(w, rows) ==
    /\ worker[w].pc = "idle"
    /\ \E swept \in AtMostOne({k \in rows : Exhausted(work[k])}) :
       \E taken \in AtMostOne({k \in rows : Claimable(work[k])}) :
          /\ swept \cup taken # {}
          /\ work' = [k \in Key |->
                        IF k \in swept THEN Released(work[k], "failed")
                        ELSE IF k \in taken THEN Claimed(work[k], w)
                        ELSE work[k]]
          /\ worker' = [worker EXCEPT ![w] =
                          IF taken = {} THEN Idle
                          ELSE LET k == CHOOSE k \in taken : TRUE
                               IN [Idle EXCEPT !.pc = "claimed", !.key = k,
                                               !.fence = work[k].fence + 1]]
    /\ UNCHANGED <<recordVars, prepared, active, ask, deployment, faults>>

Claim(w, kind) ==
    /\ kind \in deployment.serves[w] \ {"batch"}
    /\ ClaimFrom(w, Rows(kind))

Task(w) == worker[w].key

HoldsLease(w) == Holds(work[Task(w)], w, worker[w].fence)

At(w, pc, kind) == worker[w].pc = pc /\ Task(w)[1] = kind /\ HoldsLease(w)

GoTo(w, pc) ==
    /\ worker' = [worker EXCEPT ![w].pc = pc]
    /\ UNCHANGED <<recordVars, prepared, work, active, ask, deployment, faults>>

\* A commit that settles the row ends the task; its reply may be lost, which
\* leaves the worker just as idle.
Settle(w, state) ==
    /\ work' = [work EXCEPT ![Task(w)] = Released(@, state)]
    /\ worker' = [worker EXCEPT ![w] = Idle]
    /\ UNCHANGED <<recordVars, ask, deployment, faults>>

\* Every call of a worker whose lease is gone is refused, the failure report
\* included: the worker gives the task up.
LoseLease(w) ==
    /\ worker[w].pc # "idle" /\ ~HoldsLease(w)
    /\ worker' = [worker EXCEPT ![w] = Idle]
    /\ UNCHANGED <<recordVars, prepared, work, active, ask, deployment, faults>>

\* fail_*: the report of an error the worker caught.
ReportFailure(w) ==
    /\ worker[w].pc \in {"failing", "retrying"} /\ HoldsLease(w)
    /\ work' = [work EXCEPT ![Task(w)] = Failed(@, worker[w].pc = "retrying")]
    /\ worker' = [worker EXCEPT ![w] = Idle]
    /\ UNCHANGED <<recordVars, prepared, active, ask, deployment, faults>>

Spend == faults > 0 /\ faults' = faults - 1

\* A call fails before it commits, or the invocation is interrupted; worker.mjs
\* never retries an outbox event.
Break(w) ==
    /\ Spend
    /\ worker[w].pc \in {"claimed", "ready"}
    /\ \E pc \in {"failing", "retrying"} :
          /\ Task(w)[1] = "event" => pc = "failing"
          /\ worker' = [worker EXCEPT ![w].pc = pc]
    /\ UNCHANGED <<recordVars, prepared, work, active, ask, deployment>>

Crash(w) ==
    /\ Spend
    /\ worker[w].pc # "idle"
    /\ worker' = [worker EXCEPT ![w] = Idle]
    /\ UNCHANGED <<recordVars, prepared, work, active, ask, deployment>>

\* A lease nobody works under runs out in time.
Expire(k) ==
    /\ work[k].state = "leased" /\ work[k].live
    /\ \A w \in Worker : ~(Task(w) = k /\ HoldsLease(w))
    /\ work' = [work EXCEPT ![k].live = FALSE]
    /\ UNCHANGED <<recordVars, prepared, active, worker, ask, deployment, faults>>

\* A worker may be slower than its lease.
Overrun(w) ==
    /\ Spend
    /\ worker[w].pc # "idle" /\ HoldsLease(w)
    /\ work' = [work EXCEPT ![Task(w)].live = FALSE]
    /\ UNCHANGED <<recordVars, prepared, active, worker, ask, deployment>>

---------------------------------------------------------------------------
(* The work itself.                                                        *)

\* deliver_offer_outbox: the event becomes one durable refresh request.
DeliverOutbox(w) ==
    LET r == Task(w)[2] IN
    /\ At(w, "claimed", "event")
    /\ work' = Inserted([work EXCEPT ![Task(w)] = Released(@, "done")],
                        {<<"request", r>>})
    /\ worker' = [worker EXCEPT ![w] = Idle]
    /\ UNCHANGED <<recordVars, prepared, active, ask, deployment, faults>>

\* finish_offer_preparation_job, and the checkpoint before it.
FinishDerivation(w) ==
    /\ At(w, "claimed", "derive")
    /\ Settle(w, "done") /\ UNCHANGED <<prepared, active>>

\* enqueue_missing_offer_preparation_jobs, for heads that never had a job.
EnqueueMissing ==
    LET missing == {<<"derive", <<o, head[o].body>>>> :
                      o \in {o \in Offer : head[o] # NoRevision}}
    IN /\ deployment.enqueues
       /\ \E k \in missing : work[k] = Absent
       /\ work' = Inserted(work, missing)
       /\ UNCHANGED <<recordVars, prepared, active, worker, ask, deployment, faults>>

\* The base publication is read in a transaction of its own before the
\* completion that is guarded by it.
ReadBase(w, pinned, served) ==
    /\ worker' = [worker EXCEPT ![w].pc = "ready", ![w].base = active.id,
                                ![w].pinned = pinned, ![w].served = served]
    /\ UNCHANGED <<recordVars, prepared, work, active, ask, deployment, faults>>

ReadRefreshBase(w) ==
    LET s == SessionAt(Task(w)[2]) IN
    /\ At(w, "claimed", "request")
    /\ ReadBase(w, active.canonical[s], active.pins[s] # {})

\* canonical_preparation_input, then the preparation and the base.
ReadCanonicalInput(w) ==
    LET r == Task(w)[2] IN
    /\ At(w, "claimed", "base")
    /\ IF canonical[SessionAt(r)] = r
       THEN ReadBase(w, NoRevision, FALSE)
       ELSE GoTo(w, "failing")

\* canonical_offer_support: every current offer of the session supports these
\* facts and no observation disputes them that its source has not outdated.
Usable(s, facts) ==
    /\ Heads(s) # {}
    /\ \A r \in Heads(s) : r.facts \in {facts, Canceled}
    /\ \A d \in disputes : SessionAt(d) = s =>
          head[d.offer] # NoRevision /\ head[d.offer].observed > d.observed

\* activate_publication over a candidate that rebuilds the sessions of S,
\* copies the other sessions of the base and prunes the canceled ones.
NextPublication(id, S) ==
    [id |-> id,
     pins |-> [s \in Session |->
                 IF CanceledSession(s) THEN {}
                 ELSE IF s \in S THEN Heads(s) ELSE active.pins[s]],
     canonical |-> [s \in Session |->
                 IF CanceledSession(s) THEN NoRevision
                 ELSE IF s \in S THEN canonical[s] ELSE active.canonical[s]]]

ServesCanceled == \E s \in Session : active.pins[s] # {} /\ CanceledSession(s)

RefreshVerdictUnpinned(w) ==
    LET s == SessionAt(Task(w)[2])
        base == worker[w]
    IN IF base.base # active.id THEN "retrying"
       ELSE IF CanceledSession(s) THEN "failing"
       ELSE IF active.pins[s] = {} THEN "blocked"
       ELSE "publish"

\* What refresh_publication_request decides before it builds a candidate, in
\* the order of its checks; the first two are those of the wrapper of 005.
RefreshVerdict(w) ==
    LET s == SessionAt(Task(w)[2])
        base == worker[w]
    IN IF canonical[s] # base.pinned THEN "failing"
       ELSE IF base.served /\ ~Usable(s, FactsOf(base.pinned)) THEN "failing"
       ELSE IF base.base # active.id THEN "retrying"
       ELSE IF CanceledSession(s) THEN "failing"
       ELSE IF active.pins[s] = {} THEN "blocked"
       ELSE "publish"

\* A session already at its heads needs no new generation, unless its summary
\* has aged.  The candidate copies the other sessions, a canceled one too, and
\* activation then refuses it.
RefreshPublication(w) ==
    LET s == SessionAt(Task(w)[2])
        verdict == RefreshVerdict(w)
    IN /\ At(w, "ready", "request")
       /\ \/ verdict \in {"failing", "retrying"} /\ GoTo(w, verdict)
          \/ /\ \/ verdict = "blocked"
                \/ verdict = "publish" /\ active.pins[s] = Heads(s)
             /\ Settle(w, IF verdict = "blocked" THEN "blocked" ELSE "done")
             /\ UNCHANGED <<prepared, active>>
          \/ /\ verdict = "publish" /\ ~ServesCanceled
             /\ active' = NextPublication(Task(w), {s})
             /\ Settle(w, "done") /\ UNCHANGED prepared
          \/ verdict = "publish" /\ ServesCanceled /\ GoTo(w, "failing")

\* complete_canonical_preparation_job.  canonical_preparations has one row per
\* revision and this insert does not tolerate a second.
CompleteCanonical(w) ==
    LET r == Task(w)[2]
        s == SessionAt(r)
        sound == /\ canonical[s] = r
                 /\ r.facts # Canceled => Usable(s, r.facts)
                 /\ r \notin prepared
    IN /\ At(w, "ready", "base")
       /\ \/ worker[w].base # active.id /\ GoTo(w, "retrying")
          \/ worker[w].base = active.id /\ ~sound /\ GoTo(w, "failing")
          \/ /\ worker[w].base = active.id /\ sound
             /\ prepared' = prepared \cup {r}
             /\ active' = NextPublication(Task(w), {s})
             /\ Settle(w, "done")

---------------------------------------------------------------------------
PipelineInit ==
    /\ head \in FirstHead
    /\ canonical = [s \in Session |-> NoRevision]
    /\ accepted = {} /\ held = {} /\ disputes = {} /\ prepared = {}
    /\ work = [k \in Key |-> Absent]
    /\ active = [id |-> Import, pins |-> [s \in Session |-> Heads(s)],
                 canonical |-> canonical]
    /\ worker = [w \in Worker |-> Idle]
    /\ ask = [x \in Channel |-> NoAsk]
    /\ deployment \in Deployment
    /\ faults = deployment.faults

SourceStep == \/ \E r \in Revision : AskOffer(r)
              \/ \E r \in Observation : AskCanonical(r)
              \/ AcceptOfferRevision \/ AcceptCanonicalObservation

\* One call of a busy worker.
WorkerStep(w) ==
    \/ DeliverOutbox(w) \/ FinishDerivation(w)
    \/ ReadRefreshBase(w) \/ RefreshPublication(w)
    \/ ReadCanonicalInput(w) \/ CompleteCanonical(w)
    \/ ReportFailure(w) \/ LoseLease(w)

Fault(w) == Break(w) \/ Crash(w) \/ Overrun(w)

PipelineStep ==
    \/ SourceStep
    \/ EnqueueMissing
    \/ \E w \in Worker : WorkerStep(w) \/ Fault(w)
    \/ \E w \in Worker, kind \in Kind : Claim(w, kind)
    \/ \E k \in Key : Expire(k)
=============================================================================
