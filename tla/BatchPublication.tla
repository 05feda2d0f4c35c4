------------------------- MODULE BatchPublication -------------------------
(***************************************************************************)
(* The batches of migration 006 over the pipeline, with batch-source.mjs   *)
(* and batch-worker.mjs: the accepted observations of one collection run   *)
(* are prepared one session at a time and published together.  While a     *)
(* batch owns an observation, its event is parked under another topic and  *)
(* its own canonical job is canceled.                                      *)
(*                                                                         *)
(* These are the batches without page receipts (header schemaVersion 1);   *)
(* PageReceipts adds those with them.                                      *)
(***************************************************************************)
EXTENDS OfferPipeline

CONSTANTS Invalid   \* records no adapter accepts

ASSUME BatchAssumption ==
    Invalid \subseteq Observation /\ Batch \cap {"offer", "canonical"} = {}

VARIABLES batches   \* preparation_batches with their items and sessions

batchVars == <<vars, batches>>

BatchState == {"none", "collecting", "sealed", "blocked", "published", "canceled"}

BatchTypeOK ==
    batches \in [Batch ->
        [state : BatchState, done : SUBSET Observation,
         blocked : SUBSET Observation,
         sessions : [Session -> Observation \cup {NoRevision}]]]

Unfinished(b) == batches[b].state \in {"collecting", "sealed", "blocked"}

ItemOf(b, r) == <<"batch", <<b, r>>>>

JobsOf(b) == {ItemOf(b, r) : r \in Observation} \cup {<<"publish", b>>}

\* preparation_batch_sessions, each with its job.
Affected(b) == {s \in Session : batches[b].sessions[s] # NoRevision}

JobOf(b, s) == ItemOf(b, batches[b].sessions[s])

---------------------------------------------------------------------------
(* Ingestion.                                                              *)

BeginBatch(b) ==
    /\ deployment.batches[b] # {}
    /\ batches[b].state = "none"
    /\ \A other \in Batch : ~Unfinished(other)
    /\ batches' = [batches EXCEPT ![b].state = "collecting"]
    /\ UNCHANGED vars

Recorded(b, r) == r \in batches[b].done \cup batches[b].blocked

AskItem(b, r) ==
    /\ batches[b].state = "collecting"
    /\ r \in deployment.batches[b] \ Invalid /\ ~Recorded(b, r)
    /\ Ask(b, r)
    /\ UNCHANGED batches

\* The batch takes the publication of r over from the per-record path.
Adopted(rows, b, r) ==
    [k \in Key |->
        IF k = <<"base", r>> /\ rows[k].state = "pending"
        THEN [rows[k] EXCEPT !.state = "canceled"]
        ELSE IF k = <<"event", r>> /\ rows[k].state = "pending"
        THEN [rows[k] EXCEPT !.state = "owned"]
        ELSE IF k = ItemOf(b, r) /\ rows[k] = Absent THEN Pending
        ELSE rows[k]]

TakeAccepted(b, r) ==
    batches' = [batches EXCEPT ![b].done = @ \cup {r},
                               ![b].sessions[SessionAt(r)] = r]

TakeBlocked(b, r) == batches' = [batches EXCEPT ![b].blocked = @ \cup {r}]

\* accept_batch_observation.  A request that another run already had accepted
\* must still be the head; otherwise the call raises, and raises again.
AcceptBatchObservation(b) ==
    LET r == ask[b].record
        rows == Adopted(Inserted(work, NoticeOf(r) \cup {<<"base", r>>}), b, r)
    IN /\ ask[b] # NoAsk
       /\ batches[b].state = "collecting"
       /\ ask' = [ask EXCEPT ![b] = NoAsk]
       /\ \/ /\ r \in accepted /\ canonical[SessionAt(r)] = r
             /\ work' = Adopted(work, b, r)
             /\ TakeAccepted(b, r) /\ UNCHANGED recordVars
          \/ /\ r \in held /\ TakeBlocked(b, r)
             /\ UNCHANGED <<recordVars, work>>
          \/ /\ ~Decided(r) /\ HeadsAsAsked(b)
             /\ DecideObservation(r, rows)
             /\ IF CanonicalHeld(canonical[SessionAt(r)], head[r.offer], r)
                THEN TakeBlocked(b, r) ELSE TakeAccepted(b, r)
          \/ /\ IF Decided(r) THEN r \in accepted /\ canonical[SessionAt(r)] # r
                ELSE ~HeadsAsAsked(b)
             /\ UNCHANGED <<recordVars, work, batches>>
       /\ UNCHANGED <<prepared, active, worker, deployment, faults>>

\* record_batch_quarantine.
Quarantine(b, r) ==
    /\ batches[b].state = "collecting"
    /\ r \in deployment.batches[b] \cap Invalid /\ ~Recorded(b, r)
    /\ TakeBlocked(b, r)
    /\ UNCHANGED vars

\* A seal queues the publication and cancels the jobs of superseded records.
SealAs(b, state) ==
    /\ batches' = [batches EXCEPT ![b].state = state]
    /\ work' = [k \in Key |->
                  IF k = <<"publish", b>> THEN Pending
                  ELSE IF /\ k \in JobsOf(b) /\ work[k].state = "pending"
                          /\ \A s \in Affected(b) : k # JobOf(b, s)
                  THEN [work[k] EXCEPT !.state = "canceled"]
                  ELSE work[k]]
    /\ UNCHANGED <<recordVars, prepared, active, worker, ask, deployment, faults>>

AllRecorded(b) == \A r \in deployment.batches[b] : Recorded(b, r)

\* seal_preparation_batch, once every input record has an item.
SealBatch(b) ==
    /\ batches[b].state = "collecting" /\ AllRecorded(b)
    /\ SealAs(b, IF batches[b].blocked = {} THEN "sealed" ELSE "blocked")

\* cancel_preparation_batch, by the operator.  Attempts of expired leases stay
\* open.
CancelBatch(b) ==
    /\ Spend
    /\ Unfinished(b)
    /\ \A k \in JobsOf(b) : ~(work[k].state = "leased" /\ work[k].live)
    /\ work' = [k \in Key |->
                  IF k \in JobsOf(b) /\ work[k].state \in {"pending", "leased", "failed"}
                  THEN [work[k] EXCEPT !.state = "canceled", !.owner = Nobody]
                  ELSE work[k]]
    /\ batches' = [batches EXCEPT ![b].state = "canceled"]
    /\ UNCHANGED <<recordVars, prepared, active, worker, ask, deployment>>

---------------------------------------------------------------------------
(* Preparation and publication.                                            *)

ClaimJob(w, b) ==
    /\ "batch" \in deployment.serves[w]
    /\ batches[b].state = "sealed"
    /\ ClaimFrom(w, {ItemOf(b, r) : r \in Observation})
    /\ UNCHANGED batches

Prepared(b) == \A s \in Affected(b) : work[JobOf(b, s)].state = "done"

ClaimPublication(w, b) ==
    /\ "batch" \in deployment.serves[w]
    /\ batches[b].state = "sealed" /\ Prepared(b)
    /\ ClaimFrom(w, {<<"publish", b>>})
    /\ UNCHANGED batches

\* batch_preparation_input: a moved head is reported as retryable here and as
\* final by the completion, through the wording of the two errors.
ReadJobInput(w) ==
    LET b == Task(w)[2][1]
        r == Task(w)[2][2]
    IN /\ At(w, "claimed", "batch")
       /\ GoTo(w, IF canonical[SessionAt(r)] = r /\ batches[b].state = "sealed"
                  THEN "ready" ELSE "retrying")
       /\ UNCHANGED batches

\* complete_batch_preparation_job: a second preparation of one revision is the
\* same text and is accepted.
CompleteJob(w) ==
    LET b == Task(w)[2][1]
        r == Task(w)[2][2]
    IN /\ At(w, "ready", "batch")
       /\ IF batches[b].state = "sealed" /\ canonical[SessionAt(r)] = r
          THEN /\ prepared' = prepared \cup {r}
               /\ Settle(w, "done") /\ UNCHANGED active
          ELSE GoTo(w, "failing")
       /\ UNCHANGED batches

ReadPublicationBase(w) ==
    /\ At(w, "claimed", "publish")
    /\ ReadBase(w, NoRevision, FALSE)
    /\ UNCHANGED batches

\* What publish_preparation_batch asks of every session of the batch.
Publishable(b) ==
    /\ batches[b].state = "sealed" /\ batches[b].blocked = {} /\ Prepared(b)
    /\ \A s \in Affected(b) :
          LET r == batches[b].sessions[s]
          IN /\ r \in prepared /\ canonical[s] = r
             /\ r.facts # Canceled => Usable(s, r.facts)

\* One new generation that rebuilds the sessions of S; the parked events are
\* delivered with it.
PublishAs(w, S) ==
    LET b == Task(w)[2]
        owned == {<<"event", r>> : r \in batches[b].done}
    IN /\ active' = NextPublication(Task(w), S)
       /\ work' = [k \in Key |->
                     IF k = Task(w) THEN Released(work[k], "done")
                     ELSE IF k \in owned /\ work[k].state = "owned"
                     THEN [work[k] EXCEPT !.state = "done"]
                     ELSE work[k]]
       /\ batches' = [batches EXCEPT ![b].state = "published"]
       /\ worker' = [worker EXCEPT ![w] = Idle]
       /\ UNCHANGED <<recordVars, prepared, ask, deployment, faults>>

\* publish_preparation_batch.
PublishBatch(w) ==
    LET b == Task(w)[2] IN
    /\ At(w, "ready", "publish")
    /\ \/ /\ worker[w].base # active.id
          /\ GoTo(w, "retrying") /\ UNCHANGED batches
       \/ /\ worker[w].base = active.id /\ ~Publishable(b)
          /\ GoTo(w, "failing") /\ UNCHANGED batches
       \/ /\ worker[w].base = active.id /\ Publishable(b)
          /\ PublishAs(w, Affected(b))

---------------------------------------------------------------------------
BatchInit ==
    /\ PipelineInit
    /\ batches = [b \in Batch |->
                    [state |-> "none", done |-> {}, blocked |-> {},
                     sessions |-> [s \in Session |-> NoRevision]]]

Ingest(b) == \/ BeginBatch(b) \/ AcceptBatchObservation(b) \/ SealBatch(b)
             \/ \E r \in Observation : AskItem(b, r) \/ Quarantine(b, r)

BatchWorkerStep(w) == \/ ReadJobInput(w) \/ CompleteJob(w)
                      \/ ReadPublicationBase(w) \/ PublishBatch(w)

BatchNext ==
    \/ PipelineStep /\ UNCHANGED batches
    \/ \E b \in Batch : Ingest(b) \/ CancelBatch(b)
    \/ \E w \in Worker, b \in Batch : ClaimJob(w, b) \/ ClaimPublication(w, b)
    \/ \E w \in Worker : BatchWorkerStep(w)

---------------------------------------------------------------------------
(* Properties.                                                             *)

\* The pipeline keeps the promises of OfferBoard: heads move forward in their
\* source's order whatever order observations arrive in, and every publication,
\* of a refresh, a canonical job or a batch, brings sessions to exactly their
\* current revisions at one instant, copies the others unchanged and holds no
\* canceled session.
Board == INSTANCE OfferBoard WITH pins <- active.pins, facts <- active.canonical

BoardPromise == Board!BoardSpec

\* No accepted revision is forgotten: while a published session lacks the
\* current revision of an offer, its event or its refresh request is still to
\* be handled or stands recorded as failed; while it lacks its canonical
\* revision, so does the canonical job or the batch that took it over.  In
\* particular A -> B -> A notifies twice although A is derived once.
Unsettled(k) == work[k].state \in {"pending", "leased", "failed", "blocked"}

InOpenBatch(r) ==
    \E b \in Batch : /\ r \in batches[b].done
                     /\ Unfinished(b) \/ batches[b].state = "canceled"

NoLostNotice ==
    /\ \A o \in Offer :
          LET r == head[o] IN
          r \in accepted /\ active.pins[SessionOf[o]] # {}
            /\ r \notin active.pins[SessionOf[o]]
          => \/ Unsettled(<<"event", r>>) \/ Unsettled(<<"request", r>>)
             \/ work[<<"event", r>>].state = "owned" /\ InOpenBatch(r)
    /\ \A s \in Session :
          LET r == canonical[s] IN
          r # NoRevision /\ r # active.canonical[s]
            /\ ~(CanceledSession(s) /\ active.pins[s] = {})
          => Unsettled(<<"base", r>>) \/ InOpenBatch(r)

\* Attempts and leases agree: an attempt is open exactly while its lease is the
\* row's last, so that a completion always finds its attempt; the rows of a
\* canceled batch are the exception.
AttemptsMatchLeases ==
    \A k \in Key : work[k].state # "canceled" =>
        work[k].open = IF work[k].state = "leased" THEN {work[k].fence} ELSE {}

\* Nothing of a batch is served before the whole batch is: not by the refresh of
\* a session it holds either.  (The per-record publisher of 005, where it runs
\* beside a batch, may serve a session early.)
BatchAtomic ==
    deployment.canonical = {} =>
        \A b \in Batch, r \in Observation :
            Unfinished(b) /\ r \in batches[b].done
              /\ r \in active.pins[SessionAt(r)]
            => \E other \in Batch : /\ batches[other].state = "published"
                                   /\ r \in batches[other].done

\* In the end every row of a queue that workers serve is handled or recorded as
\* failed, however its workers died, and every sealed batch is published,
\* canceled or has a failed job.
AllSettled ==
    /\ \A k \in Key : (\E w \in Worker : k[1] \in deployment.serves[w] \ {"batch"}) =>
          work[k].state \notin {"pending", "leased"}
    /\ \A b \in Batch : batches[b].state = "sealed" =>
          \E k \in JobsOf(b) : work[k].state = "failed"

NoticesSettle == <>[]AllSettled
=============================================================================
