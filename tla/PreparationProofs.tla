------------------------- MODULE PreparationProofs --------------------------
(***************************************************************************)
(* The preparation pipeline for any offers, revisions, pages, batches,     *)
(* workers, deployments and number of failures: its types, the agreement   *)
(* of attempts and leases, that it keeps the promises of OfferBoard, that  *)
(* what it serves with a price is listed by the newest page, that no       *)
(* notice of a revision is lost, and that a batch appears as a whole.      *)
(*                                                                         *)
(* The refinement needs one fact beside the types: a source that is        *)
(* between its two calls holds a revision, and on every channel but the    *)
(* offers' a canonical observation.  The pages need two: the head of a URL *)
(* is the newest page it was given, alone at its time unless it is held;   *)
(* and evidence names a page that lists what it supports.                  *)
(*                                                                         *)
(* For notices and batches the steps fall into the calm ones, which settle *)
(* no row of a notice and serve nothing new, and the seven of Uncalm.      *)
(* NoticeInv adds that a revision not accepted has no rows and that a      *)
(* request follows its event; SoloInv that nobody reads a publication      *)
(* which is not there any more under the same id, and that once the facts  *)
(* of a session are served, whatever an open batch holds of it is too.     *)
(***************************************************************************)
EXTENDS PageReceipts, TLAPS

AskHolds ==
    \A x \in Channel : \/ ask[x] = NoAsk
                       \/ /\ ask[x].record \in Revision
                          /\ x # "offer" => ask[x].record \in Observation

\* What AttemptsMatchLeases says of one row.
Matched(i) ==
    i.state # "canceled" => i.open = IF i.state = "leased" THEN {i.fence} ELSE {}

RecordsOK ==
    /\ head \in [Offer -> Current]
    /\ canonical \in [Session -> Observation \cup {NoRevision}]
    /\ accepted \in SUBSET Revision
    /\ held \in SUBSET Revision
    /\ disputes \in SUBSET Observation

WorkOK == work \in [Key -> Item] /\ \A k \in Key : Matched(work[k])

PublicationOK == prepared \in SUBSET Observation /\ active \in Publication

WorkersOK ==
    /\ worker \in [Worker -> Invocation] /\ faults \in Nat
    /\ \A w \in Worker : worker[w].pc # "idle" => worker[w].key \in Key

AskOK == ask \in [Channel -> Question] /\ AskHolds

PreparationInv ==
    RecordsOK /\ WorkOK /\ PublicationOK /\ WorkersOK /\ AskOK /\ BatchTypeOK

---------------------------------------------------------------------------
(* Rows.                                                                   *)

LEMMA RowTypes ==
    /\ Absent \in Item /\ Matched(Absent)
    /\ Pending \in Item /\ Matched(Pending)
<1>1. 0 \in Fence /\ {} \in SUBSET Fence
    BY WorkAssumption DEF Fence
<1>2. Absent \in Item
    BY <1>1 DEF Absent, Item, ItemState
<1>3. Absent.state = "absent" /\ Absent.open = {}
    BY DEF Absent
<1>4. Pending \in Item /\ Pending.state = "pending" /\ Pending.open = {}
    <2> HIDE DEF Absent
    <2> QED
        BY <1>2, <1>3 DEF Pending, Item, ItemState
<1> QED
    BY <1>2, <1>3, <1>4 DEF Matched

LEMMA ReleasedRow ==
    ASSUME NEW i \in Item, i.state = "leased", Matched(i),
           NEW state \in ItemState \ {"leased"}
    PROVE  Released(i, state) \in Item /\ Matched(Released(i, state))
BY WorkAssumption DEF Item, ItemState, Fence, Matched, Released

LEMMA FailedRow ==
    ASSUME NEW i \in Item, i.state = "leased", Matched(i), NEW retryable
    PROVE  Failed(i, retryable) \in Item /\ Matched(Failed(i, retryable))
BY ReleasedRow DEF Failed, ItemState

LEMMA ClaimedRow ==
    ASSUME NEW i \in Item, Claimable(i), Matched(i), NEW w \in Worker
    PROVE  Claimed(i, w) \in Item /\ Matched(Claimed(i, w))
<1>1. i.fence + 1 \in Fence /\ i.fence \in Nat
    BY WorkAssumption DEF Item, Fence, Claimable
<1>2. i.open \subseteq {i.fence}
    BY DEF Matched, Claimable, Expired
<1>3. Claimed(i, w).open = {i.fence + 1}
    BY <1>2 DEF Claimed
<1>4. Claimed(i, w) \in Item
    BY <1>1, <1>3 DEF Claimed, Item, ItemState
<1> QED
    BY <1>3, <1>4 DEF Claimed, Matched

LEMMA SweptRow ==
    ASSUME NEW i \in Item, Exhausted(i), Matched(i)
    PROVE  Released(i, "failed") \in Item /\ Matched(Released(i, "failed"))
BY ReleasedRow DEF Exhausted, Expired, ItemState

LEMMA InsertedRows ==
    ASSUME NEW rows \in [Key -> Item], \A k \in Key : Matched(rows[k]), NEW keys
    PROVE  /\ Inserted(rows, keys) \in [Key -> Item]
           /\ \A k \in Key : Matched(Inserted(rows, keys)[k])
BY RowTypes DEF Inserted

\* The queue of a key tells what it names.
LEMMA KeyParts ==
    ASSUME NEW k \in Key
    PROVE  /\ k[1] \in {"event", "request"} => k[2] \in Revision
           /\ k[1] = "base" => k[2] \in Observation
           /\ k[1] = "batch" => k[2] \in Batch \X Observation
           /\ k[1] = "publish" => k[2] \in Batch
BY DEF Key

---------------------------------------------------------------------------
(* Sources.                                                                *)

LEMMA SessionOfRevision ==
    ASSUME NEW r \in Revision
    PROVE  r.offer \in Offer /\ SessionAt(r) \in Session
BY RecordAssumption DEF SessionAt

LEMMA IdleTypes == Idle \in Invocation /\ NoAsk \in Question
BY WorkAssumption DEF Idle, Invocation, Fence, Import, NoAsk, Question, Current

LEMMA InitEstablishes == BatchInit => PreparationInv
<1> SUFFICES ASSUME BatchInit PROVE PreparationInv
    OBVIOUS
<1> USE DEF BatchInit, PipelineInit
<1>1. RecordsOK
    BY PipelineAssumption DEF RecordsOK
<1>2. WorkOK
    BY RowTypes DEF WorkOK
<1>3. PublicationOK
    <2>1. \A s \in Session : Heads(s) \in SUBSET Revision
        BY <1>1 DEF RecordsOK, Heads, Current, OffersOf
    <2>2. active \in Publication
        BY <2>1 DEF Publication, Import
    <2> QED
        BY <2>2 DEF PublicationOK
<1>4. WorkersOK
    BY IdleTypes, PipelineAssumption DEF WorkersOK, Idle
<1>5. AskOK
    BY IdleTypes DEF AskOK, AskHolds
<1>6. BatchTypeOK
    BY DEF BatchTypeOK, BatchState
<1> QED
    BY <1>1, <1>2, <1>3, <1>4, <1>5, <1>6 DEF PreparationInv

LEMMA AskPreserves ==
    ASSUME PreparationInv, NEW x \in Channel, NEW r \in Revision,
           x # "offer" => r \in Observation, Ask(x, r), UNCHANGED batches
    PROVE  PreparationInv'
<1> DEFINE q == [record |-> r, head |-> head[r.offer], canonical |-> canonical[SessionAt(r)]]
<1>1. q \in Question
    BY SessionOfRevision DEF PreparationInv, RecordsOK, Question, Current
<1>2. ask' = [ask EXCEPT ![x] = q]
    BY DEF Ask
<1>3. q.record = r
    OBVIOUS
<1> HIDE DEF q
<1>4. AskOK'
    BY <1>1, <1>2, <1>3 DEF PreparationInv, AskOK, AskHolds
<1> QED
    BY <1>4 DEF Ask, PreparationInv, RecordsOK, WorkOK, PublicationOK, WorkersOK,
                BatchTypeOK, recordVars

LEMMA AnswerForgotten ==
    ASSUME AskOK, NEW x \in Channel, ask' = [ask EXCEPT ![x] = NoAsk]
    PROVE  AskOK'
BY IdleTypes DEF AskOK, AskHolds

LEMMA DecideOfferPreserves ==
    ASSUME RecordsOK, WorkOK, NEW r \in Revision, DecideOffer(r)
    PROVE  RecordsOK' /\ WorkOK'
<1>1. r.offer \in Offer
    BY SessionOfRevision
<1>2. RecordsOK'
    BY <1>1 DEF DecideOffer, RecordsOK, Current
<1>3. work' = work \/ work' = Inserted(work, NoticeOf(r))
    BY DEF DecideOffer
<1>4. WorkOK'
    BY <1>3, InsertedRows DEF WorkOK
<1> QED
    BY <1>2, <1>4

LEMMA DecideObservationPreserves ==
    ASSUME RecordsOK, WorkOK, NEW r \in Observation, NEW rows,
           rows \in [Key -> Item], \A k \in Key : Matched(rows[k]),
           DecideObservation(r, rows)
    PROVE  RecordsOK' /\ WorkOK'
<1>1. r \in Revision
    BY PipelineAssumption
<1>2. r.offer \in Offer /\ SessionAt(r) \in Session
    BY <1>1, SessionOfRevision
<1>3. RecordsOK'
    BY <1>1, <1>2 DEF DecideObservation, RecordsOK, Current
<1>4. work' = work \/ work' = rows
    BY DEF DecideObservation
<1>5. WorkOK'
    BY <1>4 DEF WorkOK
<1> QED
    BY <1>3, <1>5

LEMMA SourcesPreserve ==
    ASSUME PreparationInv, SourceStep, UNCHANGED batches
    PROVE  PreparationInv'
<1> USE DEF PreparationInv
<1>0. {"offer", "canonical"} \subseteq Channel
    BY DEF Channel
<1>1. ASSUME NEW r \in Revision, AskOffer(r) PROVE PreparationInv'
    BY <1>0, <1>1, AskPreserves DEF AskOffer
<1>2. ASSUME NEW r \in Observation, AskCanonical(r) PROVE PreparationInv'
    BY <1>0, <1>2, AskPreserves, PipelineAssumption DEF AskCanonical
<1>3. CASE AcceptOfferRevision
    <2>1. ask["offer"].record \in Revision
        BY <1>0, <1>3 DEF AcceptOfferRevision, AskOK, AskHolds
    <2>2. AskOK'
        BY <1>0, <1>3, AnswerForgotten DEF AcceptOfferRevision
    <2>3. RecordsOK' /\ WorkOK'
        <3>1. CASE DecideOffer(ask["offer"].record)
            BY <2>1, <3>1, DecideOfferPreserves
        <3>2. CASE UNCHANGED <<recordVars, work>>
            BY <3>2 DEF RecordsOK, WorkOK, recordVars
        <3> QED
            BY <1>3, <3>1, <3>2 DEF AcceptOfferRevision
    <2> QED
        BY <1>3, <2>2, <2>3 DEF AcceptOfferRevision, PublicationOK, WorkersOK, BatchTypeOK
<1>4. CASE AcceptCanonicalObservation
    <2> DEFINE r == ask["canonical"].record
               rows == Inserted(work, NoticeOf(r) \cup {<<"base", r>>})
    <2>1. r \in Observation
        BY <1>0, <1>4 DEF AcceptCanonicalObservation, AskOK, AskHolds
    <2>2. AskOK'
        BY <1>0, <1>4, AnswerForgotten DEF AcceptCanonicalObservation
    <2>3. rows \in [Key -> Item] /\ \A k \in Key : Matched(rows[k])
        BY InsertedRows DEF WorkOK
    <2>4. RecordsOK' /\ WorkOK'
        <3>1. CASE DecideObservation(r, rows)
            <4> HIDE DEF rows, r
            <4> QED
                BY <2>1, <2>3, <3>1, DecideObservationPreserves
        <3>2. CASE UNCHANGED <<recordVars, work>>
            BY <3>2 DEF RecordsOK, WorkOK, recordVars
        <3> QED
            BY <1>4, <3>1, <3>2 DEF AcceptCanonicalObservation
    <2> QED
        BY <1>4, <2>2, <2>4 DEF AcceptCanonicalObservation, PublicationOK, WorkersOK, BatchTypeOK
<1> QED
    BY <1>1, <1>2, <1>3, <1>4 DEF SourceStep

---------------------------------------------------------------------------
(* Leases.                                                                 *)

LEMMA RowChanged ==
    ASSUME WorkOK, NEW k \in Key, NEW i \in Item, Matched(i),
           work' = [work EXCEPT ![k] = i]
    PROVE  WorkOK'
BY DEF WorkOK

LEMMA TaskRow ==
    ASSUME WorkersOK, WorkOK, NEW w \in Worker, worker[w].pc # "idle"
    PROVE  Task(w) \in Key /\ work[Task(w)] \in Item /\ Matched(work[Task(w)])
BY DEF WorkersOK, WorkOK, Task

LEMMA WorkerReleased ==
    ASSUME WorkersOK, NEW w \in Worker, worker' = [worker EXCEPT ![w] = Idle],
           faults' \in Nat
    PROVE  WorkersOK'
BY IdleTypes DEF WorkersOK, Idle

LEMMA WorkerMoved ==
    ASSUME WorkersOK, NEW w \in Worker, worker[w].pc # "idle",
           NEW pc \in {"claimed", "ready", "failing", "retrying"},
           worker' = [worker EXCEPT ![w].pc = pc], faults' \in Nat
    PROVE  WorkersOK'
<1> DEFINE v == [worker[w] EXCEPT !.pc = pc]
<1>1. v \in Invocation /\ v.key = worker[w].key
    BY DEF WorkersOK, Invocation
<1>2. worker' = [worker EXCEPT ![w] = v]
    OBVIOUS
<1> HIDE DEF v
<1> QED
    BY <1>1, <1>2 DEF WorkersOK

LEMMA ClaimPreserves ==
    ASSUME PreparationInv, NEW w \in Worker, NEW rows, rows \subseteq Key,
           ClaimFrom(w, rows), UNCHANGED batches
    PROVE  PreparationInv'
<1> USE DEF PreparationInv
<1>1. PICK swept \in AtMostOne({k \in rows : Exhausted(work[k])}),
           taken \in AtMostOne({k \in rows : Claimable(work[k])}) :
          /\ work' = [k \in Key |->
                        IF k \in swept THEN Released(work[k], "failed")
                        ELSE IF k \in taken THEN Claimed(work[k], w)
                        ELSE work[k]]
          /\ worker' = [worker EXCEPT ![w] =
                          IF taken = {} THEN Idle
                          ELSE LET k == CHOOSE k \in taken : TRUE
                               IN [Idle EXCEPT !.pc = "claimed", !.key = k,
                                               !.fence = work[k].fence + 1]]
    BY DEF ClaimFrom
<1>2. /\ \A k \in swept : k \in rows /\ Exhausted(work[k])
      /\ \A k \in taken : k \in rows /\ Claimable(work[k])
    BY DEF AtMostOne
<1>3. WorkOK'
    <2> SUFFICES ASSUME NEW k \in Key PROVE work'[k] \in Item /\ Matched(work'[k])
        BY <1>1 DEF WorkOK
    <2>1. work[k] \in Item /\ Matched(work[k])
        BY DEF WorkOK
    <2> QED
        BY <1>1, <1>2, <2>1, SweptRow, ClaimedRow
<1>4. WorkersOK'
    <2>1. CASE taken = {}
        BY <1>1, <2>1, WorkerReleased DEF ClaimFrom, WorkersOK
    <2>2. CASE taken # {}
        <3> DEFINE k == CHOOSE k \in taken : TRUE
                   v == [Idle EXCEPT !.pc = "claimed", !.key = k, !.fence = work[k].fence + 1]
        <3>1. k \in rows /\ Claimable(work[k])
            BY <1>2, <2>2
        <3>2. work[k].fence + 1 \in Fence
            BY <3>1, WorkAssumption DEF Claimable, Fence, WorkOK, Item
        <3> HIDE DEF k
        <3>3. v \in Invocation /\ v.key \in Key
            BY <3>1, <3>2, IdleTypes DEF Invocation, Idle
        <3>4. worker' = [worker EXCEPT ![w] = v]
            BY <1>1, <2>2 DEF k
        <3> HIDE DEF v
        <3> QED
            BY <3>3, <3>4 DEF WorkersOK, ClaimFrom
    <2> QED
        BY <2>1, <2>2
<1> QED
    BY <1>3, <1>4 DEF ClaimFrom, RecordsOK, PublicationOK, AskOK, AskHolds, BatchTypeOK, recordVars

\* What a step of a worker leaves alone when it touches its row and itself only.
LEMMA LeaseStep ==
    ASSUME PreparationInv, WorkOK', WorkersOK',
           UNCHANGED <<recordVars, prepared, active, ask, batches>>
    PROVE  PreparationInv'
BY DEF PreparationInv, RecordsOK, PublicationOK, AskOK, AskHolds, BatchTypeOK, recordVars

LEMMA MovePreserves ==
    ASSUME PreparationInv, NEW w \in Worker, worker[w].pc # "idle",
           NEW pc \in {"claimed", "ready", "failing", "retrying"}, GoTo(w, pc),
           UNCHANGED batches
    PROVE  PreparationInv'
<1>1. WorkersOK'
    BY WorkerMoved DEF PreparationInv, GoTo, WorkersOK
<1>2. WorkOK'
    BY DEF PreparationInv, GoTo, WorkOK
<1> QED
    BY <1>1, <1>2, LeaseStep DEF GoTo

LEMMA SettlePreserves ==
    ASSUME PreparationInv, NEW w \in Worker, worker[w].pc # "idle", HoldsLease(w),
           NEW state \in ItemState \ {"leased"}, Settle(w, state)
    PROVE  WorkOK' /\ WorkersOK'
<1> DEFINE k == Task(w)
           i == Released(work[k], state)
<1>1. k \in Key /\ work[k] \in Item /\ Matched(work[k]) /\ work[k].state = "leased"
    BY TaskRow DEF PreparationInv, HoldsLease, Holds
<1>2. i \in Item /\ Matched(i)
    BY <1>1, ReleasedRow
<1>3. work' = [work EXCEPT ![k] = i]
    BY DEF Settle
<1>4. WorkOK'
    BY <1>1, <1>2, <1>3, RowChanged DEF PreparationInv
<1>5. WorkersOK'
    BY WorkerReleased DEF PreparationInv, Settle, WorkersOK
<1> QED
    BY <1>4, <1>5

LEMMA FaultsPreserve ==
    ASSUME PreparationInv, NEW w \in Worker, UNCHANGED batches,
           LoseLease(w) \/ ReportFailure(w) \/ Fault(w)
    PROVE  PreparationInv'
<1> USE DEF PreparationInv
<1>0. Spend => faults' \in Nat
    BY DEF Spend, WorkersOK
<1>1. CASE LoseLease(w) \/ Crash(w)
    <2>1. WorkersOK'
        BY <1>0, <1>1, WorkerReleased DEF LoseLease, Crash, WorkersOK
    <2> QED
        BY <1>1, <2>1, LeaseStep DEF LoseLease, Crash, WorkOK
<1>2. CASE ReportFailure(w)
    <2> DEFINE k == Task(w)
               i == Failed(work[k], worker[w].pc = "retrying")
    <2>1. k \in Key /\ work[k] \in Item /\ Matched(work[k]) /\ work[k].state = "leased"
        BY <1>2, TaskRow DEF ReportFailure, HoldsLease, Holds
    <2>2. i \in Item /\ Matched(i)
        BY <2>1, FailedRow
    <2>3. work' = [work EXCEPT ![k] = i]
        BY <1>2 DEF ReportFailure
    <2>4. WorkOK'
        BY <2>1, <2>2, <2>3, RowChanged
    <2>5. WorkersOK'
        BY <1>2, WorkerReleased DEF ReportFailure, WorkersOK
    <2> QED
        BY <1>2, <2>4, <2>5, LeaseStep DEF ReportFailure
<1>3. CASE Break(w)
    <2>1. PICK pc \in {"failing", "retrying"} : worker' = [worker EXCEPT ![w].pc = pc]
        BY <1>3 DEF Break
    <2>2. WorkersOK'
        BY <1>0, <1>3, <2>1, WorkerMoved DEF Break
    <2> QED
        BY <1>3, <2>2, LeaseStep DEF Break, WorkOK
<1>4. CASE Overrun(w)
    <2> DEFINE k == Task(w)
               i == [work[k] EXCEPT !.live = FALSE]
    <2>1. k \in Key /\ work[k] \in Item /\ Matched(work[k])
        BY <1>4, TaskRow DEF Overrun
    <2>2. i \in Item /\ Matched(i)
        BY <2>1 DEF Item, Matched
    <2>3. work' = [work EXCEPT ![k] = i]
        BY <1>4 DEF Overrun
    <2> HIDE DEF i
    <2>4. WorkOK'
        BY <2>1, <2>2, <2>3, RowChanged
    <2>5. WorkersOK'
        BY <1>0, <1>4 DEF Overrun, WorkersOK
    <2> QED
        BY <1>4, <2>4, <2>5, LeaseStep DEF Overrun
<1> QED
    BY <1>1, <1>2, <1>3, <1>4 DEF Fault

LEMMA ExpirePreserves ==
    ASSUME PreparationInv, NEW k \in Key, Expire(k), UNCHANGED batches
    PROVE  PreparationInv'
<1> DEFINE i == [work[k] EXCEPT !.live = FALSE]
<1>1. i \in Item /\ Matched(i)
    BY DEF PreparationInv, WorkOK, Item, Matched
<1>2. work' = [work EXCEPT ![k] = i]
    BY DEF Expire
<1> HIDE DEF i
<1>3. WorkOK'
    BY <1>1, <1>2, RowChanged DEF PreparationInv
<1> QED
    BY <1>3, LeaseStep DEF Expire, PreparationInv, WorkersOK

---------------------------------------------------------------------------
(* The work of the pipeline.                                               *)

LEMMA AtTask ==
    ASSUME PreparationInv, NEW w \in Worker, NEW pc, pc # "idle", NEW kind, At(w, pc, kind)
    PROVE  /\ worker[w].pc # "idle" /\ HoldsLease(w)
           /\ Task(w) \in Key /\ Task(w)[1] = kind
           /\ work[Task(w)] \in Item /\ Matched(work[Task(w)])
           /\ work[Task(w)].state = "leased"
BY TaskRow DEF PreparationInv, At, HoldsLease, Holds

LEMMA NextPublicationTypes ==
    ASSUME RecordsOK, PublicationOK, NEW id \in Key, NEW S
    PROVE  NextPublication(id, S) \in Publication
<1>1. \A s \in Session : Heads(s) \in SUBSET Revision
    BY DEF RecordsOK, Heads, Current, OffersOf
<1>2. /\ \A s \in Session : canonical[s] \in Observation \cup {NoRevision}
      /\ active.pins \in [Session -> SUBSET Revision]
      /\ active.canonical \in [Session -> Observation \cup {NoRevision}]
    BY DEF RecordsOK, PublicationOK, Publication
<1> DEFINE pins == [s \in Session |->
                      IF CanceledSession(s) THEN {}
                      ELSE IF s \in S THEN Heads(s) ELSE active.pins[s]]
           facts == [s \in Session |->
                      IF CanceledSession(s) THEN NoRevision
                      ELSE IF s \in S THEN canonical[s] ELSE active.canonical[s]]
<1>3. pins \in [Session -> SUBSET Revision]
    BY <1>1, <1>2
<1>4. facts \in [Session -> Observation \cup {NoRevision}]
    BY <1>2
<1>5. NextPublication(id, S) = [id |-> id, pins |-> pins, canonical |-> facts]
    BY DEF NextPublication
<1> HIDE DEF pins, facts
<1>6. [id |-> id, pins |-> pins, canonical |-> facts] \in Publication
    BY <1>3, <1>4 DEF Publication
<1> QED
    BY <1>5, <1>6

LEMMA ReadPreserves ==
    ASSUME PreparationInv, NEW w \in Worker, worker[w].pc # "idle",
           NEW pinned \in Observation \cup {NoRevision}, NEW served \in BOOLEAN,
           ReadBase(w, pinned, served), UNCHANGED batches
    PROVE  PreparationInv'
<1> DEFINE v == [worker[w] EXCEPT !.pc = "ready", !.base = active.id,
                                  !.pinned = pinned, !.served = served]
<1>1. worker[w] \in Invocation /\ active.id \in Key \cup {Import}
    BY DEF PreparationInv, WorkersOK, PublicationOK, Publication
<1>2. v \in Invocation /\ v.key = worker[w].key
    BY <1>1 DEF Invocation
<1>3. worker' = [worker EXCEPT ![w] = v]
    BY DEF ReadBase
<1> HIDE DEF v
<1>4. WorkersOK'
    <2>1. faults' \in Nat /\ worker \in [Worker -> Invocation]
          /\ \A u \in Worker : worker[u].pc # "idle" => worker[u].key \in Key
        BY DEF PreparationInv, WorkersOK, ReadBase
    <2> QED
        BY <1>2, <1>3, <2>1 DEF WorkersOK
<1>5. WorkOK'
    BY DEF PreparationInv, WorkOK, ReadBase
<1>6. UNCHANGED <<recordVars, prepared, active, ask, batches>>
    BY DEF ReadBase
<1> QED
    BY <1>4, <1>5, <1>6, LeaseStep

LEMMA PublicationStep ==
    ASSUME PreparationInv, PublicationOK', WorkOK', WorkersOK',
           UNCHANGED <<recordVars, ask, batches>>
    PROVE  PreparationInv'
BY DEF PreparationInv, RecordsOK, AskOK, AskHolds, BatchTypeOK, recordVars

LEMMA SettleUnpublished ==
    ASSUME PreparationInv, NEW w \in Worker, worker[w].pc # "idle", HoldsLease(w),
           NEW state \in ItemState \ {"leased"}, Settle(w, state),
           UNCHANGED <<prepared, active, batches>>
    PROVE  PreparationInv'
BY SettlePreserves, LeaseStep DEF Settle

LEMMA WorkersPreserve ==
    ASSUME PreparationInv, NEW w \in Worker, WorkerStep(w), UNCHANGED batches
    PROVE  PreparationInv'
<1> USE DEF PreparationInv
<1> DEFINE k == Task(w)
<1>1. CASE DeliverOutbox(w)
    <2>1. k \in Key /\ work[k] \in Item /\ Matched(work[k]) /\ work[k].state = "leased"
        BY <1>1, AtTask DEF DeliverOutbox
    <2> DEFINE rows == [work EXCEPT ![k] = Released(@, "done")]
    <2>2. Released(work[k], "done") \in Item /\ Matched(Released(work[k], "done"))
        BY <2>1, ReleasedRow DEF ItemState
    <2>3. rows \in [Key -> Item] /\ \A j \in Key : Matched(rows[j])
        BY <2>1, <2>2 DEF WorkOK
    <2>4. work' = Inserted(rows, {<<"request", k[2]>>})
        BY <1>1 DEF DeliverOutbox
    <2> HIDE DEF rows, k
    <2>5. WorkOK'
        BY <2>3, <2>4, InsertedRows DEF WorkOK
    <2>6. WorkersOK'
        BY <1>1, WorkerReleased DEF DeliverOutbox, WorkersOK
    <2> QED
        BY <1>1, <2>5, <2>6, LeaseStep DEF DeliverOutbox
<1>2. CASE FinishDerivation(w)
    <2>1. worker[w].pc # "idle" /\ HoldsLease(w) /\ "done" \in ItemState \ {"leased"}
        BY <1>2, AtTask DEF FinishDerivation, ItemState
    <2> QED
        BY <1>2, <2>1, SettleUnpublished DEF FinishDerivation
<1>3. CASE ReadRefreshBase(w)
    <2> DEFINE s == SessionAt(k[2])
    <2>1. worker[w].pc # "idle" /\ k \in Key /\ k[1] = "request"
        BY <1>3, AtTask DEF ReadRefreshBase
    <2>2. s \in Session
        BY <2>1, KeyParts, SessionOfRevision
    <2>3. active.canonical[s] \in Observation \cup {NoRevision}
        BY <2>2 DEF PublicationOK, Publication
    <2>4. ReadBase(w, active.canonical[s], active.pins[s] # {})
        BY <1>3 DEF ReadRefreshBase
    <2> QED
        BY <2>1, <2>3, <2>4, ReadPreserves
<1>4. CASE RefreshPublication(w)
    <2> DEFINE verdict == RefreshVerdict(w)
    <2>1. /\ worker[w].pc # "idle" /\ HoldsLease(w) /\ k \in Key
          /\ {"done", "blocked"} \subseteq ItemState \ {"leased"}
        BY <1>4, AtTask DEF RefreshPublication, ItemState
    <2>2. CASE verdict \in {"failing", "retrying"} /\ GoTo(w, verdict)
        BY <2>1, <2>2, MovePreserves
    <2>3. CASE /\ Settle(w, IF verdict = "blocked" THEN "blocked" ELSE "done")
               /\ UNCHANGED <<prepared, active>>
        BY <2>1, <2>3, SettleUnpublished
    <2>4. CASE /\ active' = NextPublication(k, {SessionAt(k[2])})
               /\ Settle(w, "done") /\ UNCHANGED prepared
        <3>1. PublicationOK'
            BY <2>1, <2>4, NextPublicationTypes DEF PublicationOK
        <3>2. WorkOK' /\ WorkersOK'
            BY <2>1, <2>4, SettlePreserves
        <3> QED
            BY <2>4, <3>1, <3>2, PublicationStep DEF Settle
    <2>5. CASE GoTo(w, "failing")
        BY <2>1, <2>5, MovePreserves
    <2> QED
        BY <1>4, <2>2, <2>3, <2>4, <2>5 DEF RefreshPublication
<1>5. CASE ReadCanonicalInput(w)
    <2>1. worker[w].pc # "idle"
        BY <1>5, AtTask DEF ReadCanonicalInput
    <2>2. ReadBase(w, NoRevision, FALSE) \/ GoTo(w, "failing")
        BY <1>5 DEF ReadCanonicalInput
    <2> QED
        BY <2>1, <2>2, ReadPreserves, MovePreserves
<1>6. CASE CompleteCanonical(w)
    <2>1. /\ worker[w].pc # "idle" /\ HoldsLease(w) /\ k \in Key /\ k[1] = "base"
          /\ "done" \in ItemState \ {"leased"}
        BY <1>6, AtTask DEF CompleteCanonical, ItemState
    <2>2. CASE GoTo(w, "retrying") \/ GoTo(w, "failing")
        BY <2>1, <2>2, MovePreserves
    <2>3. CASE /\ prepared' = prepared \cup {k[2]}
               /\ active' = NextPublication(k, {SessionAt(k[2])})
               /\ Settle(w, "done")
        <3>1. k[2] \in Observation
            BY <2>1, KeyParts
        <3>2. PublicationOK'
            BY <2>1, <2>3, <3>1, NextPublicationTypes DEF PublicationOK
        <3>3. WorkOK' /\ WorkersOK'
            BY <2>1, <2>3, SettlePreserves
        <3> QED
            BY <2>3, <3>2, <3>3, PublicationStep DEF Settle
    <2> QED
        BY <1>6, <2>2, <2>3 DEF CompleteCanonical
<1>7. CASE ReportFailure(w) \/ LoseLease(w)
    BY <1>7, FaultsPreserve
<1> QED
    BY <1>1, <1>2, <1>3, <1>4, <1>5, <1>6, <1>7 DEF WorkerStep

LEMMA PipelinePreserves ==
    ASSUME PreparationInv, PipelineStep, UNCHANGED batches
    PROVE  PreparationInv'
<1>1. CASE SourceStep
    BY <1>1, SourcesPreserve
<1>2. CASE EnqueueMissing
    <2> DEFINE missing == {<<"derive", <<o, head[o].body>>>> :
                             o \in {o \in Offer : head[o] # NoRevision}}
    <2>1. work' = Inserted(work, missing)
        BY <1>2 DEF EnqueueMissing
    <2>2. WorkOK'
        BY <2>1, InsertedRows DEF PreparationInv, WorkOK
    <2> QED
        BY <1>2, <2>2, LeaseStep DEF EnqueueMissing, PreparationInv, WorkersOK
<1>3. ASSUME NEW w \in Worker, WorkerStep(w) \/ Fault(w) PROVE PreparationInv'
    BY <1>3, WorkersPreserve, FaultsPreserve
<1>4. ASSUME NEW w \in Worker, NEW kind \in Kind, Claim(w, kind) PROVE PreparationInv'
    <2>1. Rows(kind) \subseteq Key
        BY DEF Rows
    <2> QED
        BY <1>4, <2>1, ClaimPreserves DEF Claim
<1>5. ASSUME NEW k \in Key, Expire(k) PROVE PreparationInv'
    BY <1>5, ExpirePreserves
<1> QED
    BY <1>1, <1>2, <1>3, <1>4, <1>5 DEF PipelineStep

---------------------------------------------------------------------------
(* Batches.                                                                *)

\* A step that changes batches and rows only.
LEMMA BatchStep ==
    ASSUME PreparationInv, BatchTypeOK', WorkOK', faults' \in Nat,
           UNCHANGED <<recordVars, prepared, active, worker, ask>>
    PROVE  PreparationInv'
BY DEF PreparationInv, RecordsOK, PublicationOK, WorkersOK, AskOK, AskHolds, recordVars

LEMMA BatchParts ==
    ASSUME BatchTypeOK, NEW b \in Batch
    PROVE  /\ batches[b].state \in BatchState
           /\ batches[b].done \in SUBSET Observation
           /\ batches[b].blocked \in SUBSET Observation
           /\ batches[b].sessions \in [Session -> Observation \cup {NoRevision}]
BY DEF BatchTypeOK

LEMMA StateChanged ==
    ASSUME BatchTypeOK, NEW b \in Batch, NEW state \in BatchState,
           batches' = [batches EXCEPT ![b].state = state]
    PROVE  BatchTypeOK'
BY DEF BatchTypeOK

LEMMA TakenTypes ==
    ASSUME BatchTypeOK, NEW b \in Batch, NEW r \in Observation,
           TakeAccepted(b, r) \/ TakeBlocked(b, r)
    PROVE  BatchTypeOK'
<1> DEFINE before == batches[b]
<1>1. SessionAt(r) \in Session
    BY SessionOfRevision, PipelineAssumption
<1>2. CASE TakeAccepted(b, r)
    <2>1. batches' = [batches EXCEPT ![b] =
             [before EXCEPT !.done = @ \cup {r}, !.sessions = [@ EXCEPT ![SessionAt(r)] = r]]]
        BY <1>2 DEF TakeAccepted
    <2>2. [before.sessions EXCEPT ![SessionAt(r)] = r] \in [Session -> Observation \cup {NoRevision}]
        BY <1>1, BatchParts
    <2> DEFINE Row == [state : BatchState, done : SUBSET Observation, blocked : SUBSET Observation,
                       sessions : [Session -> Observation \cup {NoRevision}]]
               after == [before EXCEPT !.done = @ \cup {r}, !.sessions = [@ EXCEPT ![SessionAt(r)] = r]]
    <2>3. batches \in [Batch -> Row] /\ before \in Row
        BY DEF BatchTypeOK
    <2>4. after \in Row
        BY <2>2, <2>3
    <2>5. batches' = [batches EXCEPT ![b] = after]
        BY <2>1
    <2> HIDE DEF Row, after, before
    <2>6. batches' \in [Batch -> Row]
        BY <2>3, <2>4, <2>5
    <2> QED
        BY <2>6 DEF BatchTypeOK, Row
<1>3. CASE TakeBlocked(b, r)
    BY <1>3 DEF TakeBlocked, BatchTypeOK
<1> QED
    BY <1>2, <1>3

LEMMA AdoptedRows ==
    ASSUME NEW rows \in [Key -> Item], \A k \in Key : Matched(rows[k]), NEW b, NEW r
    PROVE  /\ Adopted(rows, b, r) \in [Key -> Item]
           /\ \A k \in Key : Matched(Adopted(rows, b, r)[k])
<1> SUFFICES ASSUME NEW k \in Key
             PROVE  Adopted(rows, b, r)[k] \in Item /\ Matched(Adopted(rows, b, r)[k])
    BY DEF Adopted
<1>1. rows[k] \in Item /\ Matched(rows[k])
    OBVIOUS
<1>2. rows[k].state = "pending" =>
        /\ [rows[k] EXCEPT !.state = "canceled"] \in Item
        /\ Matched([rows[k] EXCEPT !.state = "canceled"])
        /\ [rows[k] EXCEPT !.state = "owned"] \in Item
        /\ Matched([rows[k] EXCEPT !.state = "owned"])
    BY <1>1 DEF Item, ItemState, Matched
<1> QED
    BY <1>1, <1>2, RowTypes DEF Adopted

LEMMA AcceptBatchPreserves ==
    ASSUME PreparationInv, NEW b \in Batch, AcceptBatchObservation(b)
    PROVE  PreparationInv'
<1> USE DEF PreparationInv
<1> DEFINE r == ask[b].record
           inserted == Inserted(work, NoticeOf(r) \cup {<<"base", r>>})
           rows == Adopted(inserted, b, r)
<1>1. b \in Channel /\ b # "offer"
    BY BatchAssumption DEF Channel
<1>2. r \in Observation
    BY <1>1 DEF AcceptBatchObservation, AskOK, AskHolds
<1>3. AskOK'
    BY <1>1, AnswerForgotten DEF AcceptBatchObservation
<1>4. rows \in [Key -> Item] /\ \A k \in Key : Matched(rows[k])
    <2>1. inserted \in [Key -> Item] /\ \A k \in Key : Matched(inserted[k])
        BY InsertedRows DEF WorkOK
    <2> HIDE DEF inserted, r
    <2> QED
        BY <2>1, AdoptedRows
<1>5. RecordsOK' /\ WorkOK'
    <2>1. CASE work' = Adopted(work, b, r) /\ UNCHANGED recordVars
        <3>1. WorkOK'
            BY <2>1, AdoptedRows DEF WorkOK
        <3> QED
            BY <2>1, <3>1 DEF RecordsOK, recordVars
    <2>2. CASE UNCHANGED <<recordVars, work>>
        BY <2>2 DEF RecordsOK, WorkOK, recordVars
    <2>3. CASE DecideObservation(r, rows)
        <3> HIDE DEF rows, r
        <3> QED
            BY <1>2, <1>4, <2>3, DecideObservationPreserves
    <2> QED
        BY <2>1, <2>2, <2>3 DEF AcceptBatchObservation
<1>6. BatchTypeOK'
    <2>1. TakeAccepted(b, r) \/ TakeBlocked(b, r) \/ UNCHANGED batches
        BY DEF AcceptBatchObservation
    <2> HIDE DEF r
    <2> QED
        BY <1>2, <2>1, TakenTypes DEF BatchTypeOK
<1> QED
    BY <1>3, <1>5, <1>6 DEF AcceptBatchObservation, PublicationOK, WorkersOK

LEMMA SealPreserves ==
    ASSUME PreparationInv, NEW b \in Batch, NEW state \in {"sealed", "blocked"},
           SealAs(b, state)
    PROVE  PreparationInv'
<1> USE DEF PreparationInv
<1>1. BatchTypeOK'
    BY StateChanged DEF SealAs, BatchState
<1>2. WorkOK'
    <2> SUFFICES ASSUME NEW k \in Key PROVE work'[k] \in Item /\ Matched(work'[k])
        BY DEF SealAs, WorkOK
    <2>1. work[k] \in Item /\ Matched(work[k])
        BY DEF WorkOK
    <2>2. \/ work'[k] \in {work[k], Pending}
          \/ /\ work[k].state = "pending"
             /\ work'[k] = [work[k] EXCEPT !.state = "canceled"]
        BY DEF SealAs
    <2> QED
        BY <2>1, <2>2, RowTypes DEF Item, ItemState, Matched
<1> QED
    BY <1>1, <1>2, BatchStep DEF SealAs, WorkersOK

LEMMA IngestPreserves ==
    ASSUME PreparationInv, NEW b \in Batch, Ingest(b) \/ CancelBatch(b)
    PROVE  PreparationInv'
<1> USE DEF PreparationInv
<1>1. CASE BeginBatch(b)
    <2>1. BatchTypeOK'
        BY <1>1, StateChanged DEF BeginBatch, BatchState
    <2> QED
        BY <1>1, <2>1, BatchStep DEF BeginBatch, vars, WorkOK, WorkersOK
<1>2. ASSUME NEW r \in Observation, AskItem(b, r) PROVE PreparationInv'
    <2>1. b \in Channel
        BY DEF Channel
    <2> QED
        BY <1>2, <2>1, AskPreserves, PipelineAssumption DEF AskItem
<1>3. ASSUME NEW r \in Observation, Quarantine(b, r) PROVE PreparationInv'
    <2>1. BatchTypeOK'
        BY <1>3, TakenTypes DEF Quarantine
    <2> QED
        BY <1>3, <2>1, BatchStep DEF Quarantine, vars, WorkOK, WorkersOK
<1>4. CASE AcceptBatchObservation(b)
    BY <1>4, AcceptBatchPreserves
<1>5. CASE SealBatch(b)
    BY <1>5, SealPreserves DEF SealBatch
<1>6. CASE CancelBatch(b)
    <2>1. BatchTypeOK'
        BY <1>6, StateChanged DEF CancelBatch, BatchState
    <2>2. WorkOK'
        <3> SUFFICES ASSUME NEW k \in Key PROVE work'[k] \in Item /\ Matched(work'[k])
            BY <1>6 DEF CancelBatch, WorkOK
        <3>1. work[k] \in Item /\ Matched(work[k])
            BY DEF WorkOK
        <3>2. \/ work'[k] = work[k]
              \/ work'[k] = [work[k] EXCEPT !.state = "canceled", !.owner = Nobody]
            BY <1>6 DEF CancelBatch
        <3> QED
            BY <3>1, <3>2 DEF Item, ItemState, Matched
    <2>3. faults' \in Nat
        <3>1. faults \in Nat /\ faults > 0 /\ faults' = faults - 1
            BY <1>6 DEF CancelBatch, Spend, WorkersOK
        <3> QED
            BY <3>1
    <2> QED
        BY <1>6, <2>1, <2>2, <2>3, BatchStep DEF CancelBatch
<1> QED
    BY <1>1, <1>2, <1>3, <1>4, <1>5, <1>6 DEF Ingest

LEMMA BatchClaimsPreserve ==
    ASSUME PreparationInv, NEW w \in Worker, NEW b \in Batch,
           ClaimJob(w, b) \/ ClaimPublication(w, b)
    PROVE  PreparationInv'
<1>1. {ItemOf(b, r) : r \in Observation} \subseteq Key /\ {<<"publish", b>>} \subseteq Key
    BY DEF ItemOf, Key
<1> QED
    BY <1>1, ClaimPreserves DEF ClaimJob, ClaimPublication

LEMMA PublishPreserves ==
    ASSUME PreparationInv, NEW w \in Worker, At(w, "ready", "publish"),
           NEW S \in SUBSET Session, PublishAs(w, S)
    PROVE  PreparationInv'
<1> USE DEF PreparationInv
<1> DEFINE k == Task(w)
           b == k[2]
<1>1. k \in Key /\ k[1] = "publish" /\ work[k].state = "leased" /\ b \in Batch
    BY AtTask, KeyParts
<1>2. BatchTypeOK'
    BY <1>1, StateChanged DEF BatchState, PublishAs
<1>3. PublicationOK'
    BY <1>1, NextPublicationTypes DEF PublicationOK, PublishAs
<1>4. WorkersOK'
    BY WorkerReleased DEF WorkersOK, PublishAs
<1>5. WorkOK'
    <2> SUFFICES ASSUME NEW j \in Key PROVE work'[j] \in Item /\ Matched(work'[j])
        BY DEF WorkOK, PublishAs
    <2>1. work[j] \in Item /\ Matched(work[j])
        BY DEF WorkOK
    <2>2. CASE j = k
        <3>1. work'[j] = Released(work[j], "done")
            BY <2>2 DEF PublishAs
        <3> QED
            BY <1>1, <2>1, <2>2, <3>1, ReleasedRow DEF ItemState
    <2>3. CASE j # k
        <3>1. \/ work'[j] = work[j]
              \/ work[j].state = "owned" /\ work'[j] = [work[j] EXCEPT !.state = "done"]
            BY <2>3 DEF PublishAs
        <3> QED
            BY <2>1, <3>1 DEF Item, ItemState, Matched
    <2> QED
        BY <2>2, <2>3
<1> QED
    BY <1>2, <1>3, <1>4, <1>5 DEF RecordsOK, AskOK, AskHolds, recordVars, PublishAs

LEMMA BatchWorkersPreserve ==
    ASSUME PreparationInv, NEW w \in Worker, BatchWorkerStep(w)
    PROVE  PreparationInv'
<1> USE DEF PreparationInv
<1> DEFINE k == Task(w)
<1>1. CASE ReadJobInput(w)
    <2>1. worker[w].pc # "idle"
        BY <1>1, AtTask DEF ReadJobInput
    <2>2. GoTo(w, "ready") \/ GoTo(w, "retrying")
        BY <1>1 DEF ReadJobInput
    <2> QED
        BY <1>1, <2>1, <2>2, MovePreserves DEF ReadJobInput
<1>2. CASE CompleteJob(w)
    <2>1. /\ worker[w].pc # "idle" /\ HoldsLease(w) /\ k \in Key /\ k[1] = "batch"
          /\ "done" \in ItemState \ {"leased"}
        BY <1>2, AtTask DEF CompleteJob, ItemState
    <2>2. CASE GoTo(w, "failing")
        BY <1>2, <2>1, <2>2, MovePreserves DEF CompleteJob
    <2>3. CASE prepared' = prepared \cup {k[2][2]} /\ Settle(w, "done") /\ UNCHANGED active
        <3>1. k[2][2] \in Observation
            BY <2>1, KeyParts
        <3>2. PublicationOK'
            BY <2>3, <3>1 DEF PublicationOK
        <3>3. WorkOK' /\ WorkersOK'
            BY <2>1, <2>3, SettlePreserves
        <3> QED
            BY <1>2, <2>3, <3>2, <3>3, PublicationStep DEF Settle, CompleteJob
    <2> QED
        BY <1>2, <2>2, <2>3 DEF CompleteJob
<1>3. CASE ReadPublicationBase(w)
    BY <1>3, AtTask, ReadPreserves DEF ReadPublicationBase
<1>4. CASE PublishBatch(w)
    <2>1. worker[w].pc # "idle"
        BY <1>4, AtTask DEF PublishBatch
    <2>2. CASE (GoTo(w, "retrying") \/ GoTo(w, "failing")) /\ UNCHANGED batches
        BY <2>1, <2>2, MovePreserves
    <2>3. Affected(k[2]) \in SUBSET Session
        BY DEF Affected
    <2> QED
        BY <1>4, <2>2, <2>3, PublishPreserves DEF PublishBatch
<1> QED
    BY <1>1, <1>2, <1>3, <1>4 DEF BatchWorkerStep

LEMMA StepPreserves == PreparationInv /\ [BatchNext]_batchVars => PreparationInv'
<1> SUFFICES ASSUME PreparationInv, [BatchNext]_batchVars PROVE PreparationInv'
    OBVIOUS
<1>1. CASE PipelineStep /\ UNCHANGED batches
    BY <1>1, PipelinePreserves
<1>2. ASSUME NEW b \in Batch, Ingest(b) \/ CancelBatch(b) PROVE PreparationInv'
    BY <1>2, IngestPreserves
<1>3. ASSUME NEW w \in Worker, NEW b \in Batch, ClaimJob(w, b) \/ ClaimPublication(w, b)
      PROVE  PreparationInv'
    BY <1>3, BatchClaimsPreserve
<1>4. ASSUME NEW w \in Worker, BatchWorkerStep(w) PROVE PreparationInv'
    BY <1>4, BatchWorkersPreserve
<1>5. CASE UNCHANGED batchVars
    BY <1>5 DEF batchVars, vars, PreparationInv, RecordsOK, WorkOK, PublicationOK, WorkersOK,
                AskOK, AskHolds, BatchTypeOK, recordVars
<1> QED
    BY <1>1, <1>2, <1>3, <1>4, <1>5 DEF BatchNext

---------------------------------------------------------------------------
(* Refinement of OfferBoard.                                               *)

LEMMA NotHeldIsForward ==
    ASSUME NEW current \in Current, NEW new \in Revision, ~Held(current, new)
    PROVE  Board!Forward(current, new)
<1>1. CASE current = NoRevision
    BY <1>1 DEF Board!Forward
<1>2. CASE current # NoRevision
    <2>1. /\ current.updated \in Nat /\ current.observed \in Nat
          /\ new.updated \in Nat /\ new.observed \in Nat
        BY <1>2, RecordAssumption DEF Current
    <2>2. current.updated = 0 \/ new.updated >= current.updated
        BY <1>2, <2>1 DEF Held
    <2>3. new.updated = current.updated => new.observed >= current.observed
        BY <1>2, <2>1 DEF Held
    <2> QED
        BY <2>1, <2>2, <2>3 DEF Board!Forward
<1> QED
    BY <1>1, <1>2

LEMMA InitRefines == BatchInit => Board!BoardInit
BY DEF BatchInit, PipelineInit, Board!BoardInit, Heads, Board!Heads, OffersOf, Board!OffersOf

LEMMA DecideOfferRefines ==
    ASSUME PreparationInv, NEW r \in Revision, DecideOffer(r), UNCHANGED active
    PROVE  [Board!BoardNext]_(Board!boardVars)
<1>1. CASE Held(head[r.offer], r)
    BY <1>1 DEF DecideOffer, Board!boardVars
<1>2. CASE ~Held(head[r.offer], r)
    <2>1. head[r.offer] \in Current
        BY SessionOfRevision DEF PreparationInv, RecordsOK
    <2>2. Board!Forward(head[r.offer], r)
        BY <1>2, <2>1, NotHeldIsForward
    <2>3. Board!Accept(r)
        BY <1>2, <2>2 DEF DecideOffer, Board!Accept
    <2> QED
        BY <2>3 DEF Board!BoardNext
<1> QED
    BY <1>1, <1>2

LEMMA DecideObservationRefines ==
    ASSUME PreparationInv, NEW r \in Observation, NEW rows, DecideObservation(r, rows),
           UNCHANGED active
    PROVE  [Board!BoardNext]_(Board!boardVars)
<1> DEFINE s == SessionAt(r)
           stays == CanonicalHeld(canonical[s], head[r.offer], r)
<1>1. CASE stays
    BY <1>1 DEF DecideObservation, Board!boardVars
<1>2. CASE ~stays
    <2>0. r \in Revision
        BY PipelineAssumption
    <2>1. head[r.offer] \in Current
        BY <2>0, SessionOfRevision DEF PreparationInv, RecordsOK
    <2>2. Board!Forward(head[r.offer], r)
        BY <1>2, <2>0, <2>1, NotHeldIsForward DEF CanonicalHeld
    <2>3. Board!Accept(r)
        BY <1>2, <2>2 DEF DecideObservation, SessionAt, Board!Accept
    <2> QED
        BY <2>0, <2>3 DEF Board!BoardNext
<1> QED
    BY <1>1, <1>2

\* A publication that rebuilds the sessions of S is one of the board's.
LEMMA PublicationRefines ==
    ASSUME NEW id, NEW S \in SUBSET Session, active' = NextPublication(id, S),
           UNCHANGED recordVars
    PROVE  Board!BoardNext
<1>1. \A s : CanceledSession(s) <=> Board!CanceledSession(s)
    BY PipelineAssumption DEF CanceledSession, FactsOf, Board!CanceledSession
<1>2. \A s : Heads(s) = Board!Heads(s)
    BY DEF Heads, OffersOf, Board!Heads, Board!OffersOf
<1>3. Board!Publish(S)
    BY <1>1, <1>2 DEF NextPublication, Board!Publish, recordVars
<1> QED
    BY <1>3 DEF Board!BoardNext

LEMMA StepRefines ==
    ASSUME PreparationInv, [BatchNext]_batchVars
    PROVE  [Board!BoardNext]_(Board!boardVars)
<1> USE DEF Board!boardVars
<1>1. ASSUME UNCHANGED <<recordVars, active>> PROVE [Board!BoardNext]_(Board!boardVars)
    BY <1>1 DEF recordVars
<1>2. CASE AcceptOfferRevision
    <2>1. ask["offer"].record \in Revision
        BY <1>2 DEF AcceptOfferRevision, PreparationInv, AskOK, AskHolds, Channel
    <2> QED
        BY <1>1, <1>2, <2>1, DecideOfferRefines DEF AcceptOfferRevision
<1>3. CASE AcceptCanonicalObservation
    <2>1. ask["canonical"].record \in Observation
        BY <1>3 DEF AcceptCanonicalObservation, PreparationInv, AskOK, AskHolds, Channel
    <2> QED
        BY <1>1, <1>3, <2>1, DecideObservationRefines DEF AcceptCanonicalObservation
<1>4. ASSUME NEW b \in Batch, AcceptBatchObservation(b)
      PROVE  [Board!BoardNext]_(Board!boardVars)
    <2>1. b \in Channel /\ b # "offer"
        BY BatchAssumption DEF Channel
    <2>2. ask[b].record \in Observation
        BY <1>4, <2>1 DEF AcceptBatchObservation, PreparationInv, AskOK, AskHolds
    <2> QED
        BY <1>1, <1>4, <2>2, DecideObservationRefines DEF AcceptBatchObservation
<1>5. ASSUME NEW w \in Worker, RefreshPublication(w)
      PROVE  [Board!BoardNext]_(Board!boardVars)
    <2> DEFINE s == SessionAt(Task(w)[2])
    <2>1. s \in Session
        BY <1>5, AtTask, KeyParts, SessionOfRevision DEF RefreshPublication
    <2>2. \/ UNCHANGED <<recordVars, active>>
          \/ active' = NextPublication(Task(w), {s}) /\ UNCHANGED recordVars
        BY <1>5 DEF RefreshPublication, GoTo, Settle
    <2> QED
        BY <1>1, <2>1, <2>2, PublicationRefines
<1>6. ASSUME NEW w \in Worker, CompleteCanonical(w)
      PROVE  [Board!BoardNext]_(Board!boardVars)
    <2> DEFINE s == SessionAt(Task(w)[2])
    <2>1. s \in Session
        BY <1>6, AtTask, KeyParts, SessionOfRevision, PipelineAssumption DEF CompleteCanonical
    <2>2. \/ UNCHANGED <<recordVars, active>>
          \/ active' = NextPublication(Task(w), {s}) /\ UNCHANGED recordVars
        BY <1>6 DEF CompleteCanonical, GoTo, Settle
    <2> QED
        BY <1>1, <2>1, <2>2, PublicationRefines
<1>7. ASSUME NEW w \in Worker, PublishBatch(w)
      PROVE  [Board!BoardNext]_(Board!boardVars)
    <2> DEFINE S == Affected(Task(w)[2])
    <2>1. S \in SUBSET Session
        BY DEF Affected
    <2>2. \/ UNCHANGED <<recordVars, active>>
          \/ active' = NextPublication(Task(w), S) /\ UNCHANGED recordVars
        BY <1>7 DEF PublishBatch, PublishAs, GoTo
    <2> QED
        BY <1>1, <2>1, <2>2, PublicationRefines
<1>8. ASSUME \/ \E r \in Revision : AskOffer(r)
             \/ \E r \in Observation : AskCanonical(r)
             \/ EnqueueMissing
             \/ \E w \in Worker : DeliverOutbox(w) \/ FinishDerivation(w) \/ ReadRefreshBase(w)
                                   \/ ReadCanonicalInput(w) \/ ReportFailure(w) \/ LoseLease(w)
                                   \/ Fault(w)
             \/ \E w \in Worker, kind \in Kind : Claim(w, kind)
             \/ \E k \in Key : Expire(k)
      PROVE  UNCHANGED <<recordVars, active>>
    BY <1>8 DEF AskOffer, AskCanonical, Ask, EnqueueMissing, DeliverOutbox, FinishDerivation, Settle,
                ReadRefreshBase, ReadCanonicalInput, ReadBase, GoTo, ReportFailure, LoseLease,
                Fault, Break, Crash, Overrun, Claim, ClaimFrom, Expire
<1>9. ASSUME \/ \E b \in Batch : BeginBatch(b) \/ SealBatch(b) \/ CancelBatch(b)
             \/ \E b \in Batch, r \in Observation : AskItem(b, r) \/ Quarantine(b, r)
             \/ \E w \in Worker, b \in Batch : ClaimJob(w, b) \/ ClaimPublication(w, b)
             \/ \E w \in Worker : ReadJobInput(w) \/ CompleteJob(w) \/ ReadPublicationBase(w)
      PROVE  UNCHANGED <<recordVars, active>>
    BY <1>9 DEF BeginBatch, SealBatch, SealAs, CancelBatch, AskItem, Ask, Quarantine, vars, ClaimJob,
                ClaimPublication, ClaimFrom, ReadJobInput, CompleteJob, Settle, GoTo,
                ReadPublicationBase, ReadBase
<1>10. CASE UNCHANGED batchVars
    BY <1>1, <1>10 DEF batchVars, vars
<1> QED
    BY <1>1, <1>2, <1>3, <1>4, <1>5, <1>6, <1>7, <1>8, <1>9, <1>10
       DEF BatchNext, PipelineStep, SourceStep, WorkerStep, Ingest, BatchWorkerStep

---------------------------------------------------------------------------
(* Pages.                                                                  *)

\* The pages a URL was given.
Given(u) == {p \in Page : p.url = u /\ receipt[p] # "none"}

HeadOfUrl(u) ==
    LET n == newest[u] IN
    /\ n = NoPage => Given(u) = {}
    /\ n # NoPage =>
          /\ n \in Given(u) /\ receipt[n] \in {"accepted", "held"}
          /\ \A q \in Given(u) \ {n} :
                /\ q.observed <= n.observed
                /\ receipt[n] = "accepted" => q.observed < n.observed

NewestInv == \A u \in Url : HeadOfUrl(u)

\* A page lists what it supports.
ListedInv ==
    \A o \in Offer : evidence[o].disposition = "supported" =>
        /\ evidence[o].page \in Page
        /\ evidence[o].revision \in evidence[o].page.records \cap accepted

HeadsNamed == \A o \in Offer : head[o] # NoRevision => head[o].offer = o

PageInv ==
    /\ PreparationInv /\ PageTypeOK /\ deployment \in Deployment
    /\ HeadsNamed /\ NewestInv /\ ListedInv /\ FullIsCovered

\* The publications that only PublishPages makes.
PagedId(id) == \E b \in Batch : Paged(b) /\ id = <<"publish", b>>

LEMMA PageInitEstablishes == PageInit => PageInv
<1> SUFFICES ASSUME PageInit PROVE PageInv
    OBVIOUS
<1> USE DEF PageInit
<1>1. PreparationInv
    BY InitEstablishes
<1>2. PageTypeOK
    BY DEF PageTypeOK, NoEvidence, Current
<1>3. deployment \in Deployment /\ HeadsNamed
    BY PipelineAssumption DEF BatchInit, PipelineInit, HeadsNamed
<1>4. NewestInv
    BY PageAssumption DEF NewestInv, HeadOfUrl, Given
<1>5. ListedInv
    BY DEF ListedInv, NoEvidence
<1>6. FullIsCovered
    BY DEF FullIsCovered, BatchInit, PipelineInit, Import
<1> QED
    BY <1>1, <1>2, <1>3, <1>4, <1>5, <1>6 DEF PageInv

\* What every step of the records keeps.
LEMMA DecisionsKept ==
    ASSUME RecordsOK, HeadsNamed, NEW r \in Revision,
           \/ DecideOffer(r)
           \/ \E rows : DecideObservation(r, rows)
           \/ UNCHANGED recordVars
    PROVE  accepted \subseteq accepted' /\ HeadsNamed'
<1>1. \/ UNCHANGED <<head, accepted>>
      \/ head' = [head EXCEPT ![r.offer] = r] /\ accepted' = accepted \cup {r}
    BY DEF DecideOffer, DecideObservation, recordVars
<1> QED
    BY <1>1 DEF RecordsOK, HeadsNamed

LEMMA PlainFrame ==
    ASSUME PageInv, [BatchNext]_batchVars
    PROVE  /\ accepted \subseteq accepted' /\ HeadsNamed'
           /\ deployment' = deployment
<1> USE DEF PageInv, PreparationInv
<1>0. UNCHANGED recordVars => accepted \subseteq accepted' /\ HeadsNamed'
    BY DEF recordVars, HeadsNamed
<1>1. CASE AcceptOfferRevision
    <2>1. ask["offer"].record \in Revision
        BY <1>1 DEF AcceptOfferRevision, AskOK, AskHolds, Channel
    <2> QED
        BY <1>0, <1>1, <2>1, DecisionsKept DEF AcceptOfferRevision
<1>2. CASE AcceptCanonicalObservation
    <2>1. ask["canonical"].record \in Revision
        BY <1>2, PipelineAssumption
           DEF AcceptCanonicalObservation, AskOK, AskHolds, Channel
    <2> QED
        BY <1>0, <1>2, <2>1, DecisionsKept DEF AcceptCanonicalObservation
<1>3. ASSUME NEW b \in Batch, AcceptBatchObservation(b)
      PROVE  /\ accepted \subseteq accepted' /\ HeadsNamed'
             /\ deployment' = deployment
    <2>1. ask[b].record \in Revision
        BY <1>3, PipelineAssumption DEF AcceptBatchObservation, AskOK, AskHolds, Channel
    <2> QED
        BY <1>0, <1>3, <2>1, DecisionsKept DEF AcceptBatchObservation
<1>4. ASSUME \/ \E r \in Revision : AskOffer(r)
             \/ \E r \in Observation : AskCanonical(r)
             \/ EnqueueMissing
             \/ \E w \in Worker : WorkerStep(w) \/ Fault(w)
             \/ \E w \in Worker, kind \in Kind : Claim(w, kind)
             \/ \E k \in Key : Expire(k)
      PROVE  UNCHANGED recordVars /\ deployment' = deployment
    <2>1. CASE (\E r \in Revision : AskOffer(r)) \/ (\E r \in Observation : AskCanonical(r)) \/ EnqueueMissing
        BY <2>1 DEF AskOffer, AskCanonical, Ask, EnqueueMissing
    <2>2. ASSUME NEW w \in Worker, WorkerStep(w)
          PROVE  UNCHANGED recordVars /\ deployment' = deployment
        <3>1. CASE DeliverOutbox(w) \/ FinishDerivation(w) \/ ReportFailure(w) \/ LoseLease(w)
            BY <3>1 DEF DeliverOutbox, FinishDerivation, ReportFailure, LoseLease, Settle, GoTo
        <3>2. CASE ReadRefreshBase(w) \/ ReadCanonicalInput(w)
            BY <3>2 DEF ReadRefreshBase, ReadCanonicalInput, ReadBase, GoTo
        <3>3. CASE RefreshPublication(w) \/ CompleteCanonical(w)
            BY <3>3 DEF RefreshPublication, CompleteCanonical, Settle, GoTo
        <3> QED
            BY <2>2, <3>1, <3>2, <3>3 DEF WorkerStep
    <2>3. ASSUME NEW w \in Worker, Fault(w)
          PROVE  UNCHANGED recordVars /\ deployment' = deployment
        BY <2>3 DEF Fault, Break, Crash, Overrun, GoTo
    <2>4. CASE (\E w \in Worker, kind \in Kind : Claim(w, kind)) \/ (\E k \in Key : Expire(k))
        BY <2>4 DEF Claim, ClaimFrom, Expire, GoTo
    <2> QED
        BY <1>4, <2>1, <2>2, <2>3, <2>4
<1>5. ASSUME \/ \E b \in Batch : BeginBatch(b) \/ SealBatch(b) \/ CancelBatch(b)
             \/ \E b \in Batch, r \in Observation : AskItem(b, r) \/ Quarantine(b, r)
             \/ \E w \in Worker, b \in Batch : ClaimJob(w, b) \/ ClaimPublication(w, b)
             \/ \E w \in Worker : BatchWorkerStep(w)
      PROVE  UNCHANGED recordVars /\ deployment' = deployment
    BY <1>5 DEF BeginBatch, SealBatch, SealAs, CancelBatch, AskItem, Ask, Quarantine, vars, ClaimJob,
                ClaimPublication, ClaimFrom, BatchWorkerStep, ReadJobInput, CompleteJob, Settle, GoTo,
                ReadPublicationBase, ReadBase, PublishBatch, PublishAs
<1>6. CASE UNCHANGED batchVars
    BY <1>0, <1>6 DEF batchVars, vars
<1>7. AcceptOfferRevision \/ AcceptCanonicalObservation => deployment' = deployment
    BY DEF AcceptOfferRevision, AcceptCanonicalObservation
<1> QED
    BY <1>0, <1>1, <1>2, <1>3, <1>4, <1>5, <1>6, <1>7
       DEF BatchNext, PipelineStep, SourceStep, Ingest

\* A step either touches no page table, or is one of the batches with pages.
PlainStep ==
    /\ [BatchNext]_batchVars /\ UNCHANGED pageVars
    /\ active' = active \/ ~PagedId(active'.id)

LEMMA PlainPublication ==
    ASSUME NEW w \in Worker,
           \/ WorkerStep(w)
           \/ PublishBatch(w) /\ ~Paged(Task(w)[2])
    PROVE  active' = active \/ ~PagedId(active'.id)
<1>1. CASE RefreshPublication(w)
    <2>1. Task(w)[1] = "request"
        BY <1>1 DEF RefreshPublication, At
    <2>2. active' = active \/ active'.id = Task(w)
        BY <1>1 DEF RefreshPublication, GoTo, NextPublication
    <2> QED
        BY <2>1, <2>2 DEF PagedId
<1>2. CASE CompleteCanonical(w)
    <2>1. Task(w)[1] = "base"
        BY <1>2 DEF CompleteCanonical, At
    <2>2. active' = active \/ active'.id = Task(w)
        BY <1>2 DEF CompleteCanonical, GoTo, NextPublication
    <2> QED
        BY <2>1, <2>2 DEF PagedId
<1>3. CASE PublishBatch(w) /\ ~Paged(Task(w)[2])
    <2>1. active' = active \/ active'.id = Task(w)
        BY <1>3 DEF PublishBatch, PublishAs, GoTo, NextPublication
    <2> QED
        BY <1>3, <2>1 DEF PagedId
<1>4. CASE \/ DeliverOutbox(w) \/ FinishDerivation(w) \/ ReadRefreshBase(w)
           \/ ReadCanonicalInput(w) \/ ReportFailure(w) \/ LoseLease(w)
    BY <1>4 DEF DeliverOutbox, FinishDerivation, ReadRefreshBase, ReadCanonicalInput,
                ReadBase, GoTo, ReportFailure, LoseLease
<1> QED
    BY <1>1, <1>2, <1>3, <1>4 DEF WorkerStep

LEMMA StepCases ==
    ASSUME [PageNext]_pageBatchVars
    PROVE  \/ PlainStep
           \/ \E b \in Batch : BeginPages(b) \/ SealPages(b) \/ GrowOld(b)
           \/ \E b \in Batch, p \in Page : RecordPage(b, p)
           \/ \E w \in Worker : PublishPages(w)
<1>1. CASE PipelineStep /\ UNCHANGED <<batches, pageVars>>
    <2>1. BatchNext
        BY <1>1 DEF BatchNext
    <2>2. CASE \E w \in Worker : WorkerStep(w)
        BY <1>1, <2>1, <2>2, PlainPublication DEF PlainStep
    <2>3. CASE \/ SourceStep \/ EnqueueMissing \/ \E w \in Worker : Fault(w)
               \/ \E w \in Worker, kind \in Kind : Claim(w, kind)
               \/ \E k \in Key : Expire(k)
        <3>1. active' = active
            BY <2>3 DEF SourceStep, AskOffer, AskCanonical, Ask, AcceptOfferRevision,
                        AcceptCanonicalObservation, EnqueueMissing, Fault, Break, Crash,
                        Overrun, Claim, ClaimFrom, Expire
        <3> QED
            BY <1>1, <2>1, <3>1 DEF PlainStep
    <2> QED
        BY <1>1, <2>2, <2>3 DEF PipelineStep
<1>2. ASSUME NEW b \in Batch, IngestAny(b)
      PROVE  \/ PlainStep
             \/ BeginPages(b) \/ SealPages(b)
             \/ \E p \in Page : RecordPage(b, p)
    <2>1. CASE BeginPages(b) \/ SealPages(b) \/ \E p \in Page : RecordPage(b, p)
        BY <2>1
    <2>2. CASE Ingest(b) /\ UNCHANGED pageVars
        <3>1. BatchNext
            BY <2>2 DEF BatchNext
        <3>2. active' = active
            BY <2>2 DEF Ingest, BeginBatch, SealBatch, SealAs, AcceptBatchObservation, AskItem,
                        Ask, Quarantine, vars
        <3> QED
            BY <2>2, <3>1, <3>2 DEF PlainStep
    <2>3. ASSUME NEW r \in Observation, AskPageRecord(b, r)
          PROVE  Ingest(b) /\ UNCHANGED pageVars
        BY <2>3 DEF AskPageRecord, Ingest
    <2> QED
        BY <1>2, <2>1, <2>2, <2>3 DEF IngestAny, IngestPages, Ingest
<1>3. ASSUME NEW b \in Batch, CancelBatch(b) /\ UNCHANGED pageVars
      PROVE  PlainStep
    BY <1>3 DEF PlainStep, BatchNext, CancelBatch
<1>4. ASSUME NEW w \in Worker, NEW b \in Batch,
             (ClaimJob(w, b) \/ ClaimPublication(w, b)) /\ UNCHANGED pageVars
      PROVE  PlainStep
    BY <1>4 DEF PlainStep, BatchNext, ClaimJob, ClaimPublication, ClaimFrom
<1>5. ASSUME NEW w \in Worker, PageWorkerStep(w)
      PROVE  PlainStep \/ PublishPages(w)
    <2>1. CASE PublishPages(w)
        BY <2>1
    <2>2. CASE /\ ReadJobInput(w) \/ CompleteJob(w) \/ ReadPublicationBase(w)
               /\ UNCHANGED pageVars
        <3>1. BatchNext
            BY <2>2 DEF BatchNext, BatchWorkerStep
        <3>2. active' = active
            BY <2>2 DEF ReadJobInput, CompleteJob, ReadPublicationBase, ReadBase, GoTo
        <3> QED
            BY <2>2, <3>1, <3>2 DEF PlainStep
    <2>3. CASE PublishBatch(w) /\ ~Paged(Task(w)[2]) /\ UNCHANGED pageVars
        <3>1. BatchNext
            BY <2>3 DEF BatchNext, BatchWorkerStep
        <3> QED
            BY <2>3, <3>1, PlainPublication DEF PlainStep
    <2> QED
        BY <1>5, <2>1, <2>2, <2>3 DEF PageWorkerStep
<1>6. CASE UNCHANGED pageBatchVars
    BY <1>6 DEF PlainStep, pageBatchVars, batchVars, vars
<1> QED
    BY <1>1, <1>2, <1>3, <1>4, <1>5, <1>6 DEF PageNext

LEMMA FullIsPaged ==
    ASSUME deployment \in Deployment, NEW b \in Batch, Full(b)
    PROVE  Paged(b)
BY PageAssumption DEF Full, Paged

LEMMA PlainPreserves ==
    ASSUME PageInv, PlainStep
    PROVE  PageInv'
<1> USE DEF PageInv
<1>1. PreparationInv'
    BY StepPreserves DEF PlainStep
<1>2. accepted \subseteq accepted' /\ HeadsNamed' /\ deployment' = deployment
    BY PlainFrame DEF PlainStep
<1>3. UNCHANGED <<receipt, newest, inBatch, noted, evidence, outdated>>
    BY DEF PlainStep, pageVars
<1>4. PageTypeOK'
    BY <1>3 DEF PageTypeOK
<1>5. NewestInv'
    BY <1>3 DEF NewestInv, HeadOfUrl, Given
<1>6. ListedInv'
    BY <1>2, <1>3 DEF ListedInv
<1>7. FullIsCovered'
    <2>1. CASE active' = active
        BY <1>2, <1>3, <2>1 DEF FullIsCovered, Full, InScope
    <2>2. CASE ~PagedId(active'.id)
        <3> SUFFICES ASSUME NEW b \in Batch, Full(b), active'.id = <<"publish", b>>
                     PROVE  FALSE
            BY <1>2 DEF FullIsCovered, Full
        <3> QED
            BY <2>2, FullIsPaged DEF PagedId
    <2> QED
        BY <2>1, <2>2 DEF PlainStep
<1> QED
    BY <1>1, <1>2, <1>4, <1>5, <1>6, <1>7

\* A step of ingestion that publishes nothing and decides no page.
LEMMA QuietPreserves ==
    ASSUME PageInv, PreparationInv',
           UNCHANGED <<recordVars, active, deployment, receipt, newest, inBatch, noted, evidence>>,
           outdated' \in SUBSET Batch
    PROVE  PageInv'
<1> USE DEF PageInv
<1>1. PageTypeOK'
    BY DEF PageTypeOK
<1>2. HeadsNamed'
    BY DEF HeadsNamed, recordVars
<1>3. NewestInv'
    BY DEF NewestInv, HeadOfUrl, Given
<1>4. ListedInv'
    BY DEF ListedInv, recordVars
<1>5. FullIsCovered'
    BY DEF FullIsCovered, Full, InScope
<1> QED
    BY <1>1, <1>2, <1>3, <1>4, <1>5

LEMMA BatchesOfPagesPreserve ==
    ASSUME PageInv, NEW b \in Batch, BeginPages(b) \/ SealPages(b) \/ GrowOld(b)
    PROVE  PageInv'
<1> USE DEF PageInv, PreparationInv
<1>0. outdated \in SUBSET Batch
    BY DEF PageTypeOK
<1>1. CASE BeginPages(b)
    <2>1. BatchTypeOK'
        BY <1>1, StateChanged DEF BeginPages, BatchState
    <2>2. PreparationInv'
        BY <1>1, <2>1, BatchStep DEF BeginPages, vars, WorkOK, WorkersOK
    <2> QED
        BY <1>0, <1>1, <2>2, QuietPreserves DEF BeginPages, vars, pageVars
<1>2. CASE SealPages(b)
    <2>1. PICK state \in {"sealed", "blocked"} : SealAs(b, state)
        BY <1>2 DEF SealPages
    <2>2. PreparationInv'
        BY <2>1, SealPreserves
    <2> QED
        BY <1>0, <1>2, <2>1, <2>2, QuietPreserves DEF SealPages, SealAs, pageVars
<1>3. CASE GrowOld(b)
    <2>1. faults' \in Nat
        <3>1. faults \in Nat /\ faults > 0 /\ faults' = faults - 1
            BY <1>3 DEF GrowOld, Spend, WorkersOK
        <3> QED
            BY <3>1
    <2>2. PreparationInv'
        BY <1>3, <2>1, LeaseStep DEF GrowOld, WorkOK, WorkersOK
    <2>3. outdated' \in SUBSET Batch
        BY <1>0, <1>3 DEF GrowOld
    <2> QED
        BY <1>3, <2>2, <2>3, QuietPreserves DEF GrowOld
<1> QED
    BY <1>1, <1>2, <1>3

\* The first decision on a page of the same URL keeps the head of that URL.
LEMMA FirstReceipt ==
    ASSUME PageTypeOK, NewestInv, NEW p \in Page, receipt[p] = "none",
           receipt' = [receipt EXCEPT ![p] = Decision(p)],
           newest' = IF Decision(p) = "stale" THEN newest
                     ELSE [newest EXCEPT ![p.url] = p]
    PROVE  NewestInv'
<1> DEFINE u == p.url
           old == newest[u]
<1>1. u \in Url /\ p # NoPage
    BY PageAssumption DEF Url
<1>2. /\ receipt \in [Page -> {"none", "accepted", "held", "stale"}]
      /\ newest \in [Url -> Page \cup {NoPage}]
    BY DEF PageTypeOK
<1>3. Decision(p) \in {"accepted", "held", "stale"}
    BY DEF Decision
<1>4. \A v \in Url \ {u} : HeadOfUrl(v)'
    <2> SUFFICES ASSUME NEW v \in Url \ {u} PROVE HeadOfUrl(v)'
        OBVIOUS
    <2>1. newest'[v] = newest[v]
        BY <1>1, <1>2
    <2>2. \A q \in Page : q.url = v => receipt'[q] = receipt[q]
        BY <1>2
    <2>3. Given(v)' = Given(v)
        BY <2>2 DEF Given
    <2>4. HeadOfUrl(v)
        BY DEF NewestInv
    <2> QED
        BY <2>1, <2>2, <2>3, <2>4 DEF HeadOfUrl, Given
<1>5. Given(u)' = Given(u) \cup {p}
    BY <1>2, <1>3 DEF Given
<1>6. \A q \in Page \ {p} : receipt'[q] = receipt[q]
    BY <1>2
<1>7. receipt'[p] = Decision(p)
    BY <1>2
<1>8. p \notin Given(u)
    BY DEF Given
<1>9. \A q \in Page : q.observed \in Nat
    BY PageAssumption
<1>10. HeadOfUrl(u)
    BY <1>1 DEF NewestInv
<1>11. HeadOfUrl(u)'
    <2>1. CASE old = NoPage
        <3>1. newest'[u] = p /\ receipt'[p] = "accepted"
            BY <1>1, <1>2, <1>7, <2>1 DEF Decision
        <3>2. Given(u)' = {p}
            BY <1>5, <1>10, <2>1 DEF HeadOfUrl
        <3> QED
            BY <1>1, <3>1, <3>2 DEF HeadOfUrl
    <2>2. CASE old # NoPage
        <3>1. /\ old \in Given(u) /\ receipt[old] \in {"accepted", "held"}
              /\ \A q \in Given(u) \ {old} :
                    /\ q.observed <= old.observed
                    /\ receipt[old] = "accepted" => q.observed < old.observed
            BY <1>10, <2>2 DEF HeadOfUrl
        <3>2. old \in Page /\ old # p
            BY <1>8, <3>1 DEF Given
        <3>3. Given(u) \subseteq Page
            BY DEF Given
        <3>4. CASE Decision(p) = "stale"
            <4>1. newest'[u] = old /\ p.observed < old.observed
                BY <2>2, <3>4 DEF Decision
            <4> QED
                BY <1>5, <1>6, <1>9, <2>2, <3>1, <3>2, <4>1 DEF HeadOfUrl
        <3>5. CASE Decision(p) = "held"
            <4>1. newest'[u] = p /\ receipt'[p] = "held" /\ ~(p.observed < old.observed)
                BY <1>1, <1>2, <1>7, <2>2, <3>5 DEF Decision
            <4>2. \A q \in Given(u) : q.observed <= p.observed
                BY <1>9, <3>1, <3>2, <3>3, <4>1
            <4> QED
                BY <1>1, <1>5, <4>1, <4>2 DEF HeadOfUrl
        <3>6. CASE Decision(p) = "accepted"
            <4>1. /\ newest'[u] = p /\ receipt'[p] = "accepted"
                  /\ ~(p.observed < old.observed) /\ p.observed # old.observed
                BY <1>1, <1>2, <1>7, <2>2, <3>6 DEF Decision
            <4>2. \A q \in Given(u) : q.observed < p.observed
                BY <1>9, <3>1, <3>2, <3>3, <4>1
            <4>3. \A q \in Given(u) : q.observed <= p.observed
                BY <1>9, <3>3, <4>2
            <4> QED
                BY <1>1, <1>5, <4>1, <4>2, <4>3 DEF HeadOfUrl
        <3> QED
            BY <1>3, <3>4, <3>5, <3>6
    <2> QED
        BY <2>1, <2>2
<1> QED
    BY <1>4, <1>11 DEF NewestInv

LEMMA RecordPagePreserves ==
    ASSUME PageInv, NEW b \in Batch, NEW p \in Page, RecordPage(b, p)
    PROVE  PageInv'
<1> USE DEF PageInv
<1>1. /\ receipt \in [Page -> {"none", "accepted", "held", "stale"}]
      /\ newest \in [Url -> Page \cup {NoPage}]
      /\ inBatch \in [Batch -> SUBSET Page]
      /\ noted \in [Batch -> SUBSET (Session \X (Observation \cup {NoRevision}))]
    BY DEF PageTypeOK
<1>2. UNCHANGED batchVars /\ UNCHANGED <<evidence, outdated>>
    BY DEF RecordPage
<1>3. UNCHANGED <<recordVars, prepared, work, active, worker, ask, deployment, faults, batches>>
    BY <1>2 DEF batchVars, vars
<1>4. PreparationInv'
    <2>1. [BatchNext]_batchVars
        BY <1>2
    <2> QED
        BY <2>1, StepPreserves
<1>5. inBatch' = [inBatch EXCEPT ![b] = @ \cup {p}]
    BY DEF RecordPage
<1>6. \/ UNCHANGED <<receipt, newest>>
      \/ /\ receipt[p] = "none"
         /\ receipt' = [receipt EXCEPT ![p] = Decision(p)]
         /\ newest' = IF Decision(p) = "stale" THEN newest
                      ELSE [newest EXCEPT ![p.url] = p]
    BY DEF RecordPage
<1>7. PageTypeOK'
    <2>1. noted' \in [Batch -> SUBSET (Session \X (Observation \cup {NoRevision}))]
        <3>1. SessionsUnder(p.url) \subseteq Session
            BY RecordAssumption DEF SessionsUnder
        <3>2. canonical \in [Session -> Observation \cup {NoRevision}]
            BY DEF PreparationInv, RecordsOK
        <3>3. PICK found \in SUBSET Session :
                 noted' = [noted EXCEPT ![b] = @ \cup {<<s, canonical[s]>> : s \in found}]
            <4>1. {s \in SessionsUnder(p.url) : \A note \in noted[b] : note[1] # s} \in SUBSET Session
                BY <3>1
            <4> QED
                BY <4>1 DEF RecordPage
        <3> QED
            BY <1>1, <3>2, <3>3
    <2>2. receipt' \in [Page -> {"none", "accepted", "held", "stale"}]
        BY <1>1, <1>6 DEF Decision
    <2>3. newest' \in [Url -> Page \cup {NoPage}]
        BY <1>1, <1>6
    <2>4. inBatch' \in [Batch -> SUBSET Page]
        BY <1>1, <1>5
    <2> QED
        BY <1>2, <2>1, <2>2, <2>3, <2>4 DEF PageTypeOK
<1>8. NewestInv'
    <2>1. CASE UNCHANGED <<receipt, newest>>
        BY <2>1 DEF NewestInv, HeadOfUrl, Given
    <2> QED
        BY <1>6, <2>1, FirstReceipt
<1>9. HeadsNamed' /\ ListedInv'
    BY <1>2, <1>3 DEF HeadsNamed, ListedInv, recordVars
<1>10. FullIsCovered'
    BY <1>1, <1>2, <1>3, <1>5 DEF FullIsCovered, Full, InScope
<1> QED
    BY <1>3, <1>4, <1>7, <1>8, <1>9, <1>10

\* Whom a publication names as supported, the newest page lists.
LEMMA PinnedTypes ==
    ASSUME RecordsOK, PageTypeOK, NEW o \in Offer, head[o] # NoRevision,
           CurrentEvidence(o) # "family_hold"
    PROVE  /\ Pinned(o) \in [revision : Current, page : Page \cup {NoPage},
                             canonical : Observation \cup {NoRevision},
                             disposition : {"none", "supported", "unsupported"}]
           /\ Pinned(o).disposition = "supported" =>
                /\ Pinned(o).page \in Page
                /\ Pinned(o).revision \in Pinned(o).page.records \cap accepted
<1>1. head[o] \in Current /\ canonical[SessionOf[o]] \in Observation \cup {NoRevision}
    BY RecordAssumption DEF RecordsOK
<1>2. newest[UrlOf[o]] \in Page \cup {NoPage}
    BY DEF PageTypeOK, Url
<1>3. CurrentEvidence(o) \in {"supported", "unsupported"}
    BY DEF CurrentEvidence, Disposition
<1>4. CurrentEvidence(o) = "supported" =>
        newest[UrlOf[o]] # NoPage /\ head[o] \in newest[UrlOf[o]].records \cap accepted
    BY DEF CurrentEvidence, Disposition
<1> QED
    BY <1>1, <1>2, <1>3, <1>4 DEF Pinned

LEMMA PublishPagesPreserves ==
    ASSUME PageInv, NEW w \in Worker, PublishPages(w)
    PROVE  PageInv'
<1> USE DEF PageInv, PreparationInv
<1> DEFINE b == Task(w)[2]
           S == Targets(b)
<1>1. At(w, "ready", "publish") /\ b \in Batch /\ worker[w].pc # "idle"
    BY AtTask, KeyParts DEF PublishPages
<1>2. UNCHANGED <<receipt, newest, inBatch, noted, outdated>>
    BY DEF PublishPages
<1>3. outdated \in SUBSET Batch
    BY DEF PageTypeOK
<1>4. CASE (GoTo(w, "retrying") \/ GoTo(w, "failing")) /\ UNCHANGED <<batches, evidence>>
    <2>1. PreparationInv'
        BY <1>1, <1>4, MovePreserves
    <2> QED
        BY <1>2, <1>3, <1>4, <2>1, QuietPreserves DEF GoTo
<1>5. CASE /\ PagesPublishable(b) /\ PublishAs(w, S)
           /\ evidence' = [o \in Offer |->
                             IF SessionOf[o] \in S /\ head[o] # NoRevision
                             THEN Pinned(o) ELSE NoEvidence]
    <2> HIDE DEF b
    <2>1. S \in SUBSET Session
        BY DEF Targets
    <2>2. PreparationInv'
        BY <1>1, <1>5, <2>1, PublishPreserves DEF b
    <2>3. /\ UNCHANGED recordVars /\ deployment' = deployment
          /\ active' = NextPublication(Task(w), S)
        BY <1>5 DEF PublishAs
    <2>4. ASSUME NEW o \in Offer, SessionOf[o] \in S, head[o] # NoRevision
          PROVE  CurrentEvidence(o) # "family_hold"
        BY <1>5, <2>4 DEF PagesPublishable, Integrity, OffersOf
    <2>5. PageTypeOK'
        <3>1. NoEvidence \in [revision : Current, page : Page \cup {NoPage},
                              canonical : Observation \cup {NoRevision},
                              disposition : {"none", "supported", "unsupported"}]
            BY DEF NoEvidence, Current
        <3> QED
            BY <1>2, <1>5, <2>4, <3>1, PinnedTypes DEF PageTypeOK
    <2>6. HeadsNamed' /\ NewestInv'
        BY <1>2, <2>3 DEF HeadsNamed, NewestInv, HeadOfUrl, Given, recordVars
    <2>7. ListedInv'
        <3> SUFFICES ASSUME NEW o \in Offer, evidence'[o].disposition = "supported"
                     PROVE  /\ evidence'[o].page \in Page
                            /\ evidence'[o].revision \in evidence'[o].page.records \cap accepted
            BY <2>3 DEF ListedInv, recordVars
        <3>1. SessionOf[o] \in S /\ head[o] # NoRevision /\ evidence'[o] = Pinned(o)
            BY <1>5 DEF NoEvidence
        <3> QED
            BY <2>4, <3>1, PinnedTypes
    <2>8. FullIsCovered'
        <3> SUFFICES ASSUME NEW c \in Batch, Full(c), active'.id = <<"publish", c>>,
                            NEW s \in Session, NEW r \in active'.pins[s], r.facts # Canceled,
                            InScope(c, r.offer, FactsOf(active'.canonical[s]))
                     PROVE  /\ evidence'[r.offer].page \in inBatch[c]
                            /\ evidence'[r.offer].page.current
            BY <1>2, <2>3 DEF FullIsCovered, Full, InScope
        <3>1. c = b
            BY <2>3 DEF NextPublication, b
        <3>2. ~CanceledSession(s) /\ r \in IF s \in S THEN Heads(s) ELSE active.pins[s]
            BY <2>3 DEF NextPublication
        <3>3. s \in S /\ r \in Heads(s)
            BY <3>2 DEF Targets
        <3>4. PICK o \in Offer : SessionOf[o] = s /\ r = head[o] /\ r # NoRevision
            BY <3>3 DEF Heads, OffersOf
        <3>5. r.offer = o
            BY <3>4 DEF HeadsNamed
        <3>6. evidence'[o].page = newest[UrlOf[o]]
            BY <1>5, <3>3, <3>4 DEF Pinned
        <3>7. Covered(b)
            BY <1>5, <3>1 DEF PagesPublishable
        <3>8. active'.canonical[s] = canonical[s]
            BY <2>3, <3>2, <3>3 DEF NextPublication
        <3>9. newest[UrlOf[o]] \in inBatch[b] /\ newest[UrlOf[o]].current
            BY <3>1, <3>2, <3>4, <3>5, <3>7, <3>8 DEF Covered
        <3> QED
            BY <3>1, <3>5, <3>6, <3>9
    <2> QED
        BY <2>2, <2>3, <2>5, <2>6, <2>7, <2>8
<1> QED
    BY <1>4, <1>5 DEF PublishPages

LEMMA PageStepPreserves == PageInv /\ [PageNext]_pageBatchVars => PageInv'
BY StepCases, PlainPreserves, BatchesOfPagesPreserve, RecordPagePreserves, PublishPagesPreserves

LEMMA PageInvariance == PageSpec => []PageInv
BY PageInitEstablishes, PageStepPreserves, PTL DEF PageSpec

---------------------------------------------------------------------------
\* The tables keep their types, for any records, pages, batches and workers.
THEOREM TypeCorrect == PageSpec => [](TypeOK /\ BatchTypeOK /\ PageTypeOK)
<1>1. PageInv => TypeOK /\ BatchTypeOK /\ PageTypeOK
    BY DEF PageInv, PreparationInv, RecordsOK, WorkOK, PublicationOK, WorkersOK, AskOK, TypeOK
<1> QED
    BY <1>1, PageInvariance, PTL

\* Whatever workers claim, lose, report or abandon, an attempt is open exactly
\* while it holds its row, so no completion misses its attempt and no two
\* attempts of a row are open at once.
THEOREM AttemptsAgree == PageSpec => []AttemptsMatchLeases
<1>1. PageInv => AttemptsMatchLeases
    BY DEF PageInv, PreparationInv, WorkOK, AttemptsMatchLeases, Matched
<1> QED
    BY <1>1, PageInvariance, PTL

\* Whatever pages come, in whatever order, through however many batches: what a
\* reader may take with a price is listed by the one newest page of its URL, and
\* a full batch has seen every offer that it publishes.
THEOREM EvidenceStaysSound == PageSpec => []EvidenceIsSound
<1>1. ASSUME PageInv, NEW o \in Offer, OfferUsable(o)
      PROVE  \E p \in Given(UrlOf[o]) :
                /\ head[o] \in p.records \cap accepted
                /\ \A q \in Given(UrlOf[o]) \ {p} : q.observed < p.observed
    <2> DEFINE p == newest[UrlOf[o]]
    <2>1. /\ evidence[o].disposition = "supported"
          /\ evidence[o].revision = head[o] /\ evidence[o].page = p
        BY <1>1 DEF OfferUsable, EvidenceCurrent, Pinned
    <2>2. p \in Page /\ head[o] \in p.records \cap accepted
        BY <1>1, <2>1 DEF PageInv, ListedInv
    <2>3. receipt[p] = "accepted"
        BY <1>1, <2>2, PageAssumption DEF OfferUsable, EvidenceCurrent, CurrentEvidence, Disposition
    <2>4. HeadOfUrl(UrlOf[o])
        BY <1>1 DEF PageInv, NewestInv, Url
    <2> QED
        BY <2>2, <2>3, <2>4, PageAssumption DEF HeadOfUrl
<1>2. PageInv => EvidenceIsSound
    BY <1>1 DEF PageInv, EvidenceIsSound, SupportedIsListed, Given
<1> QED
    BY <1>2, PageInvariance, PTL

\* A step of the batches with pages moves the board like any other.
LEMMA PageStepRefines ==
    ASSUME PageInv, [PageNext]_pageBatchVars
    PROVE  [Board!BoardNext]_(Board!boardVars)
<1>1. CASE PlainStep
    BY <1>1, StepRefines DEF PlainStep, PageInv
<1>2. ASSUME NEW b \in Batch,
             \/ BeginPages(b) \/ SealPages(b) \/ GrowOld(b)
             \/ \E p \in Page : RecordPage(b, p)
      PROVE  [Board!BoardNext]_(Board!boardVars)
    BY <1>2 DEF BeginPages, SealPages, SealAs, GrowOld, RecordPage, batchVars, vars, recordVars,
                Board!boardVars
<1>3. ASSUME NEW w \in Worker, PublishPages(w)
      PROVE  [Board!BoardNext]_(Board!boardVars)
    <2> DEFINE S == Targets(Task(w)[2])
    <2>1. S \in SUBSET Session
        BY DEF Targets
    <2>2. \/ UNCHANGED <<recordVars, active>>
          \/ active' = NextPublication(Task(w), S) /\ UNCHANGED recordVars
        BY <1>3 DEF PublishPages, PublishAs, GoTo
    <2> QED
        BY <2>1, <2>2, PublicationRefines DEF recordVars, Board!boardVars
<1> QED
    BY <1>1, <1>2, <1>3, StepCases

\* The pipeline implements OfferBoard, for any offers, revisions, pages, batches
\* and workers, and however often a process fails: the records a reader is
\* served move forward only, and every publication is one consistent cut of
\* them.
THEOREM KeepsBoardPromise == PageSpec => BoardPromise
<1>1. PageInit => Board!BoardInit
    BY InitRefines DEF PageInit
<1>2. PageInv /\ [PageNext]_pageBatchVars => [Board!BoardNext]_(Board!boardVars)
    BY PageStepRefines
<1> QED
    BY <1>1, <1>2, PageInvariance, PTL DEF PageSpec, BoardPromise, Board!BoardSpec

---------------------------------------------------------------------------
(* Notices and batches.                                                    *)

Notice == {"event", "request", "base"}

\* The states in which a row is still to be handled or stands as failed.
Owing == {"pending", "leased", "failed", "blocked"}

\* A calm step decides no record, publishes nothing and takes no record into a
\* batch; of the rows of a notice it settles none.
CalmRows ==
    \A k \in Key : \/ work'[k] = work[k]
                   \/ work[k].state \in Owing /\ work'[k].state \in Owing
                   \/ k[1] \notin Notice /\ work[k].state # "done"

CalmBatches ==
    \A b \in Batch :
        /\ batches'[b].done = batches[b].done
        /\ batches'[b].sessions = batches[b].sessions
        /\ \/ batches'[b].state = batches[b].state
           \/ batches[b].state = "none" /\ batches'[b].state = "collecting"
           \/ Unfinished(b) /\ batches'[b].state \in {"sealed", "blocked", "canceled"}

\* A refresh publishes with what it knew before or reads now.
CalmWorkers ==
    \A w \in Worker :
        /\ worker'[w].base \in {Import, active.id, worker[w].base}
        /\ worker'[w].pc = "ready" /\ worker'[w].key[1] = "request" =>
              \/ worker'[w] = worker[w]
              \/ /\ worker'[w].base = active.id
                 /\ worker'[w].pinned = active.canonical[SessionAt(worker'[w].key[2])]

CalmSources ==
    deployment.canonical = {} /\ ask["canonical"] = NoAsk => ask'["canonical"] = NoAsk

Calm ==
    /\ UNCHANGED <<head, canonical, accepted, active, deployment>>
    /\ CalmRows /\ CalmBatches /\ CalmWorkers /\ CalmSources

\* The phases of a batch, of which only one is under way, and its publication.
Phase(b) ==
    /\ batches[b].state = "none" => batches[b].done = {}
    /\ batches[b].state \in {"none", "collecting"} => work[<<"publish", b>>] = Absent
    /\ work[<<"publish", b>>].state = "leased" => batches[b].state = "sealed"

BatchPhases ==
    \A b \in Batch : /\ Phase(b)
                     /\ \A other \in Batch \ {b} : ~(Unfinished(b) /\ Unfinished(other))

---------------------------------------------------------------------------
LEMMA ClaimIsCalm ==
    ASSUME PreparationInv, NEW w \in Worker, NEW rows, rows \subseteq Key, ClaimFrom(w, rows),
           UNCHANGED batches
    PROVE  /\ Calm
           /\ \A k \in Key \ rows : work'[k] = work[k]
<1>1. PICK swept \in AtMostOne({k \in rows : Exhausted(work[k])}),
           taken \in AtMostOne({k \in rows : Claimable(work[k])}) :
          /\ work' = [k \in Key |->
                        IF k \in swept THEN Released(work[k], "failed")
                        ELSE IF k \in taken THEN Claimed(work[k], w)
                        ELSE work[k]]
          /\ worker' = [worker EXCEPT ![w] =
                          IF taken = {} THEN Idle
                          ELSE LET k == CHOOSE k \in taken : TRUE
                               IN [Idle EXCEPT !.pc = "claimed", !.key = k,
                                               !.fence = work[k].fence + 1]]
    BY DEF ClaimFrom
<1>2. /\ \A k \in swept : k \in rows /\ work[k].state = "leased"
      /\ \A k \in taken : k \in rows /\ work[k].state \in {"pending", "leased"}
    BY DEF AtMostOne, Exhausted, Claimable, Expired
<1>3. /\ \A k \in swept : Released(work[k], "failed").state = "failed"
      /\ \A k \in taken : Claimed(work[k], w).state = "leased"
    <2>1. \A k \in swept : work[k] \in Item
        BY <1>2 DEF PreparationInv, WorkOK
    <2> QED
        BY <2>1 DEF Released, Claimed, Item
<1>4. CalmRows
    BY <1>1, <1>2, <1>3 DEF CalmRows, Owing
<1>5. CalmWorkers
    <2>1. worker'[w].pc \in {"idle", "claimed"} /\ worker'[w].base = Import
        BY <1>1 DEF PreparationInv, WorkersOK, Idle
    <2>2. \A u \in Worker \ {w} : worker'[u] = worker[u]
        BY <1>1 DEF PreparationInv, WorkersOK
    <2> QED
        BY <2>1, <2>2 DEF CalmWorkers
<1>6. CalmBatches /\ CalmSources
    BY DEF CalmBatches, CalmSources, ClaimFrom
<1> QED
    BY <1>1, <1>2, <1>4, <1>5, <1>6 DEF Calm, ClaimFrom, recordVars

\* Only the row of w changes, and w itself.
LEMMA TaskIsCalm ==
    ASSUME PreparationInv, NEW w \in Worker, worker[w].pc # "idle",
           NEW i, work' = [work EXCEPT ![Task(w)] = i],
           \/ i.state \in Owing /\ work[Task(w)].state \in Owing
           \/ Task(w)[1] \notin Notice /\ work[Task(w)].state # "done"
           \/ i = work[Task(w)],
           CalmWorkers, UNCHANGED <<recordVars, active, ask, deployment, batches>>
    PROVE  Calm
<1>1. Task(w) \in Key
    BY DEF PreparationInv, WorkersOK, Task
<1>2. CalmRows
    BY <1>1 DEF CalmRows, PreparationInv, WorkOK
<1> QED
    BY <1>2 DEF Calm, CalmBatches, CalmSources, recordVars

LEMMA WorkerIsCalm ==
    ASSUME PreparationInv, NEW w \in Worker, NEW v, worker' = [worker EXCEPT ![w] = v],
           v.base \in {Import, active.id, worker[w].base},
           v.pc = "ready" /\ v.key[1] = "request" =>
              \/ v = worker[w]
              \/ v.base = active.id /\ v.pinned = active.canonical[SessionAt(v.key[2])]
    PROVE  CalmWorkers
BY DEF CalmWorkers, PreparationInv, WorkersOK

LEMMA IdleIsCalm ==
    ASSUME PreparationInv, NEW w \in Worker, worker' = [worker EXCEPT ![w] = Idle]
    PROVE  CalmWorkers
<1>1. Idle.base = Import /\ Idle.pc = "idle"
    BY DEF Idle
<1> QED
    BY <1>1, WorkerIsCalm

LEMMA MoveIsCalm ==
    ASSUME PreparationInv, NEW w \in Worker, worker[w].pc # "idle",
           NEW pc, pc # "ready" \/ Task(w)[1] = "batch",
           GoTo(w, pc), UNCHANGED batches
    PROVE  Calm
<1> DEFINE v == [worker[w] EXCEPT !.pc = pc]
<1>1. /\ v.base = worker[w].base /\ v.key = Task(w)
      /\ v.pc = pc
    BY DEF PreparationInv, WorkersOK, Invocation, Task
<1>2. worker' = [worker EXCEPT ![w] = v]
    BY DEF GoTo
<1> HIDE DEF v
<1>3. CalmWorkers
    BY <1>1, <1>2, WorkerIsCalm
<1>4. UNCHANGED <<recordVars, work, active, ask, deployment, batches>>
    BY DEF GoTo
<1> QED
    BY <1>3, <1>4 DEF Calm, CalmRows, CalmBatches, CalmSources, recordVars

LEMMA ReadIsCalm ==
    ASSUME PreparationInv, NEW w \in Worker, NEW pinned, NEW served, ReadBase(w, pinned, served),
           Task(w)[1] = "request" => pinned = active.canonical[SessionAt(Task(w)[2])],
           UNCHANGED batches
    PROVE  Calm
<1> DEFINE v == [worker[w] EXCEPT !.pc = "ready", !.base = active.id,
                                  !.pinned = pinned, !.served = served]
<1>1. v.base = active.id /\ v.key = Task(w) /\ v.pinned = pinned
    BY DEF PreparationInv, WorkersOK, Invocation, Task
<1>2. worker' = [worker EXCEPT ![w] = v]
    BY DEF ReadBase
<1> HIDE DEF v
<1>3. CalmWorkers
    BY <1>1, <1>2, WorkerIsCalm
<1>4. UNCHANGED <<recordVars, work, active, ask, deployment, batches>>
    BY DEF ReadBase
<1> QED
    BY <1>3, <1>4 DEF Calm, CalmRows, CalmBatches, CalmSources, recordVars

LEMMA InsertedElsewhere ==
    ASSUME PreparationInv, NEW keys, \A k \in keys : k[1] \notin Notice,
           work' = Inserted(work, keys)
    PROVE  CalmRows
<1>1. Absent.state # "done"
    BY DEF Absent
<1> QED
    BY <1>1 DEF Inserted, CalmRows, PreparationInv, WorkOK

---------------------------------------------------------------------------
(* The steps that are not calm.                                            *)

\* A refresh ends with its session at its heads.
RefreshSettled(w) ==
    LET s == SessionAt(Task(w)[2]) IN
    /\ At(w, "ready", "request") /\ RefreshVerdict(w) = "publish"
    /\ Settle(w, "done") /\ UNCHANGED batches
    /\ \/ active.pins[s] = Heads(s) /\ UNCHANGED active
       \/ active' = NextPublication(Task(w), {s})

CanonicalSettled(w) ==
    LET r == Task(w)[2] IN
    /\ At(w, "ready", "base") /\ canonical[SessionAt(r)] = r
    /\ active' = NextPublication(Task(w), {SessionAt(r)})
    /\ Settle(w, "done") /\ UNCHANGED batches

BatchPublished(w) ==
    LET b == Task(w)[2] IN
    /\ At(w, "ready", "publish")
    /\ \A s \in Affected(b) : canonical[s] = batches[b].sessions[s]
    /\ \E S \in SUBSET Session :
          /\ \A s \in Affected(b) : s \in S \/ CanceledSession(s)
          /\ \A s \in S : s \in Affected(b) \/ canonical[s] = active.canonical[s]
          /\ PublishAs(w, S)

SourcesOnly == CalmSources /\ UNCHANGED <<active, worker, deployment>>

OfferTaken(r) ==
    /\ r \notin accepted
    /\ head' = [head EXCEPT ![r.offer] = r] /\ accepted' = accepted \cup {r}
    /\ UNCHANGED canonical
    /\ work' = Inserted(work, NoticeOf(r))
    /\ SourcesOnly /\ UNCHANGED batches

Fresh(r, rows) ==
    /\ r \notin accepted
    /\ head' = [head EXCEPT ![r.offer] = r] /\ accepted' = accepted \cup {r}
    /\ canonical' = [canonical EXCEPT ![SessionAt(r)] = r]
    /\ work' = rows

NoticeAndBase(r) == Inserted(work, NoticeOf(r) \cup {<<"base", r>>})

ObservationTaken(r) ==
    /\ ask["canonical"] # NoAsk
    /\ Fresh(r, NoticeAndBase(r))
    /\ SourcesOnly /\ UNCHANGED batches

BatchTaken(b, r) ==
    /\ batches[b].state = "collecting" /\ TakeAccepted(b, r)
    /\ \/ Fresh(r, Adopted(NoticeAndBase(r), b, r))
       \/ /\ r \in accepted /\ canonical[SessionAt(r)] = r
          /\ work' = Adopted(work, b, r) /\ UNCHANGED <<head, canonical, accepted>>
    /\ SourcesOnly

Uncalm ==
    \/ \E w \in Worker : DeliverOutbox(w) /\ UNCHANGED batches
    \/ \E w \in Worker : RefreshSettled(w) \/ CanonicalSettled(w) \/ BatchPublished(w)
    \/ \E r \in Revision : OfferTaken(r)
    \/ \E r \in Observation : ObservationTaken(r)
    \/ \E b \in Batch, r \in Observation : BatchTaken(b, r)

LEMMA SourceCases ==
    ASSUME PreparationInv, SourceStep, UNCHANGED batches,
           ask["canonical"] # NoAsk => ask["canonical"].record \in Observation
    PROVE  Calm \/ Uncalm
<1>0. {"offer", "canonical"} \subseteq Channel /\ ask \in [Channel -> Question]
    BY DEF Channel, PreparationInv, AskOK
<1>1. ASSUME UNCHANGED <<head, canonical, accepted, work, active, worker, deployment>>, CalmSources
      PROVE  Calm
    <2>1. CalmWorkers
        BY <1>1 DEF CalmWorkers
    <2> QED
        BY <1>1, <2>1 DEF Calm, CalmRows, CalmBatches
<1>2. ASSUME NEW r \in Revision, AskOffer(r) PROVE Calm
    <2>1. CalmSources
        BY <1>0, <1>2 DEF AskOffer, Ask, CalmSources
    <2> QED
        BY <1>1, <1>2, <2>1 DEF AskOffer, Ask, recordVars
<1>3. ASSUME NEW r \in Observation, AskCanonical(r) PROVE Calm
    <2>1. CalmSources
        BY <1>3 DEF AskCanonical, CalmSources
    <2> QED
        BY <1>1, <1>3, <2>1 DEF AskCanonical, Ask, recordVars
<1>4. CASE AcceptOfferRevision
    <2> DEFINE r == ask["offer"].record
    <2>1. CalmSources
        BY <1>0, <1>4 DEF AcceptOfferRevision, CalmSources
    <2>2. r \in Revision
        BY <1>0, <1>4 DEF AcceptOfferRevision, PreparationInv, AskOK, AskHolds
    <2>3. CASE UNCHANGED <<head, canonical, accepted, work>>
        BY <1>1, <1>4, <2>1, <2>3 DEF AcceptOfferRevision
    <2>4. CASE DecideOffer(r) /\ ~Decided(r) /\ ~UNCHANGED <<head, canonical, accepted, work>>
        <3>1. OfferTaken(r)
            BY <1>4, <2>1, <2>4
               DEF AcceptOfferRevision, DecideOffer, Decided, OfferTaken, SourcesOnly
        <3> QED
            BY <2>2, <3>1 DEF Uncalm
    <2> QED
        BY <1>4, <2>3, <2>4 DEF AcceptOfferRevision, recordVars
<1>5. CASE AcceptCanonicalObservation
    <2> DEFINE r == ask["canonical"].record
    <2>1. CalmSources
        BY <1>0, <1>5 DEF AcceptCanonicalObservation, CalmSources
    <2>2. r \in Observation /\ ask["canonical"] # NoAsk
        BY <1>5 DEF AcceptCanonicalObservation
    <2>3. CASE UNCHANGED <<head, canonical, accepted, work>>
        BY <1>1, <1>5, <2>1, <2>3 DEF AcceptCanonicalObservation
    <2>4. CASE /\ DecideObservation(r, NoticeAndBase(r)) /\ ~Decided(r)
               /\ ~UNCHANGED <<head, canonical, accepted, work>>
        <3>1. Fresh(r, NoticeAndBase(r))
            BY <2>4 DEF DecideObservation, Decided, Fresh
        <3>2. ObservationTaken(r)
            BY <1>5, <2>1, <2>2, <3>1
               DEF AcceptCanonicalObservation, ObservationTaken, SourcesOnly
        <3> QED
            BY <2>2, <3>2 DEF Uncalm
    <2> QED
        BY <1>5, <2>3, <2>4 DEF AcceptCanonicalObservation, NoticeAndBase, recordVars
<1> QED
    BY <1>2, <1>3, <1>4, <1>5 DEF SourceStep

LEMMA WorkerCases ==
    ASSUME PreparationInv, NEW w \in Worker, WorkerStep(w) \/ Fault(w), UNCHANGED batches
    PROVE  Calm \/ Uncalm
<1> DEFINE k == Task(w)
<1>1. CASE FinishDerivation(w)
    <2>1. worker[w].pc # "idle" /\ k[1] \notin Notice /\ work[k].state # "done"
        BY <1>1, AtTask DEF FinishDerivation, Notice
    <2>2. CalmWorkers
        BY <1>1, IdleIsCalm DEF FinishDerivation, Settle
    <2> HIDE DEF k
    <2>3. PICK i : work' = [work EXCEPT ![k] = i]
        BY <1>1 DEF FinishDerivation, Settle, k
    <2> QED
        BY <1>1, <2>1, <2>2, <2>3, TaskIsCalm DEF FinishDerivation, Settle, k
<1>2. CASE ReadRefreshBase(w)
    BY <1>2, ReadIsCalm DEF ReadRefreshBase
<1>3. CASE ReadCanonicalInput(w)
    <2>1. worker[w].pc # "idle" /\ k[1] # "request"
        BY <1>3, AtTask DEF ReadCanonicalInput
    <2> QED
        BY <1>3, <2>1, ReadIsCalm, MoveIsCalm DEF ReadCanonicalInput
<1>4. CASE ReportFailure(w)
    <2>1. k \in Key /\ work[k] \in Item /\ work[k].state = "leased"
        BY <1>4, TaskRow DEF PreparationInv, ReportFailure, HoldsLease, Holds
    <2>2. PICK i : /\ work' = [work EXCEPT ![k] = i]
                   /\ i = Failed(work[k], worker[w].pc = "retrying")
        BY <1>4 DEF ReportFailure
    <2>3. i.state \in {"pending", "failed"}
        BY <2>1, <2>2 DEF Failed, Released, Item
    <2>4. CalmWorkers
        BY <1>4, IdleIsCalm DEF ReportFailure
    <2> HIDE DEF k
    <2> QED
        BY <1>4, <2>1, <2>2, <2>3, <2>4, TaskIsCalm DEF ReportFailure, Owing, k
<1>5. CASE LoseLease(w) \/ Crash(w)
    <2>1. CalmWorkers
        BY <1>5, IdleIsCalm DEF LoseLease, Crash
    <2> QED
        BY <1>5, <2>1 DEF LoseLease, Crash, Calm, CalmRows, CalmBatches, CalmSources, recordVars
<1>6. CASE Break(w)
    <2>1. PICK pc \in {"failing", "retrying"} : worker' = [worker EXCEPT ![w].pc = pc]
        BY <1>6 DEF Break
    <2> DEFINE v == [worker[w] EXCEPT !.pc = pc]
    <2>2. v.base = worker[w].base /\ v.pc # "ready"
        BY DEF PreparationInv, WorkersOK, Invocation
    <2>3. worker' = [worker EXCEPT ![w] = v]
        BY <2>1
    <2> HIDE DEF v
    <2>4. CalmWorkers
        BY <2>2, <2>3, WorkerIsCalm
    <2> QED
        BY <1>6, <2>4 DEF Break, Calm, CalmRows, CalmBatches, CalmSources, recordVars
<1>7. CASE Overrun(w)
    <2>1. k \in Key /\ work[k] \in Item /\ work[k].state = "leased"
        BY <1>7, TaskRow DEF PreparationInv, Overrun, HoldsLease, Holds
    <2>2. PICK i : work' = [work EXCEPT ![k] = i] /\ i = [work[k] EXCEPT !.live = FALSE]
        BY <1>7 DEF Overrun
    <2>3. i.state = "leased"
        BY <2>1, <2>2 DEF Item
    <2>4. CalmWorkers
        BY <1>7 DEF Overrun, CalmWorkers
    <2> HIDE DEF k
    <2> QED
        BY <1>7, <2>1, <2>2, <2>3, <2>4, TaskIsCalm DEF Overrun, Owing, k
<1>8. CASE DeliverOutbox(w)
    BY <1>8 DEF Uncalm
<1>9. CASE RefreshPublication(w)
    <2> DEFINE verdict == RefreshVerdict(w)
               s == SessionAt(k[2])
    <2>1. /\ worker[w].pc # "idle" /\ k \in Key /\ k[1] = "request"
          /\ work[k] \in Item /\ work[k].state = "leased"
        BY <1>9, AtTask DEF RefreshPublication
    <2>2. CASE GoTo(w, "failing") \/ GoTo(w, "retrying")
        BY <2>1, <2>2, MoveIsCalm
    <2>3. CASE verdict = "blocked" /\ Settle(w, "blocked") /\ UNCHANGED active
        <3>1. PICK i : work' = [work EXCEPT ![k] = i] /\ i = Released(work[k], "blocked")
            BY <2>3 DEF Settle
        <3>2. i.state = "blocked"
            BY <2>1, <3>1 DEF Released, Item
        <3>3. CalmWorkers
            BY <2>3, IdleIsCalm DEF Settle
        <3> HIDE DEF k
        <3> QED
            BY <2>1, <2>3, <3>1, <3>2, <3>3, TaskIsCalm DEF Settle, Owing, k
    <2>4. CASE /\ verdict = "publish" /\ Settle(w, "done")
               /\ \/ active.pins[s] = Heads(s) /\ UNCHANGED active
                  \/ active' = NextPublication(k, {s})
        <3>1. RefreshSettled(w)
            BY <1>9, <2>4 DEF RefreshSettled, RefreshPublication
        <3> QED
            BY <3>1 DEF Uncalm
    <2> QED
        BY <1>9, <2>2, <2>3, <2>4 DEF RefreshPublication
<1>10. CASE CompleteCanonical(w)
    <2>1. worker[w].pc # "idle"
        BY <1>10, AtTask DEF CompleteCanonical
    <2>2. CASE GoTo(w, "failing") \/ GoTo(w, "retrying")
        BY <2>1, <2>2, MoveIsCalm
    <2>3. CASE /\ canonical[SessionAt(k[2])] = k[2]
               /\ active' = NextPublication(k, {SessionAt(k[2])})
               /\ Settle(w, "done")
        <3>1. CanonicalSettled(w)
            BY <1>10, <2>3 DEF CanonicalSettled, CompleteCanonical
        <3> QED
            BY <3>1 DEF Uncalm
    <2> QED
        BY <1>10, <2>2, <2>3 DEF CompleteCanonical
<1> QED
    BY <1>1, <1>2, <1>3, <1>4, <1>5, <1>6, <1>7, <1>8, <1>9, <1>10 DEF WorkerStep, Fault

LEMMA PipelineCases ==
    ASSUME PreparationInv, PipelineStep, UNCHANGED batches
    PROVE  Calm \/ Uncalm
<1>1. CASE SourceStep
    <2>1. ask["canonical"] # NoAsk => ask["canonical"].record \in Observation
        BY DEF PreparationInv, AskOK, AskHolds, Channel
    <2> QED
        BY <1>1, <2>1, SourceCases
<1>2. CASE EnqueueMissing
    <2> DEFINE missing == {<<"derive", <<o, head[o].body>>>> :
                             o \in {o \in Offer : head[o] # NoRevision}}
    <2>1. work' = Inserted(work, missing) /\ \A k \in missing : k[1] = "derive"
        BY <1>2 DEF EnqueueMissing
    <2> HIDE DEF missing
    <2>2. CalmRows
        BY <2>1, InsertedElsewhere DEF Notice
    <2> QED
        BY <1>2, <2>2 DEF EnqueueMissing, Calm, CalmBatches, CalmWorkers, CalmSources, recordVars
<1>3. ASSUME NEW w \in Worker, NEW kind \in Kind, Claim(w, kind) PROVE Calm
    <2>1. Rows(kind) \subseteq Key
        BY DEF Rows
    <2> QED
        BY <1>3, <2>1, ClaimIsCalm DEF Claim
<1>4. ASSUME NEW k \in Key, Expire(k) PROVE Calm
    <2>1. PICK i : work' = [work EXCEPT ![k] = i] /\ i = [work[k] EXCEPT !.live = FALSE]
        BY <1>4 DEF Expire
    <2>2. i.state = "leased" /\ work[k].state = "leased"
        BY <1>4, <2>1 DEF Expire, PreparationInv, WorkOK, Item
    <2>3. CalmRows
        BY <2>1, <2>2 DEF CalmRows, Owing, PreparationInv, WorkOK
    <2> QED
        BY <1>4, <2>3 DEF Expire, Calm, CalmBatches, CalmWorkers, CalmSources, recordVars
<1> QED
    BY <1>1, <1>2, <1>3, <1>4, WorkerCases DEF PipelineStep

LEMMA SealIsCalm ==
    ASSUME PreparationInv, NEW b \in Batch, batches[b].state = "collecting",
           work[<<"publish", b>>] = Absent,
           NEW state \in {"sealed", "blocked"}, SealAs(b, state)
    PROVE  Calm
<1>1. CalmRows
    <2> SUFFICES ASSUME NEW k \in Key, work'[k] # work[k]
                 PROVE  k[1] \notin Notice /\ work[k].state # "done"
        BY DEF CalmRows
    <2>1. \/ k = <<"publish", b>>
          \/ k \in JobsOf(b) /\ work[k].state = "pending"
        BY DEF SealAs
    <2>2. Absent.state # "done"
        BY DEF Absent
    <2> QED
        BY <2>1, <2>2 DEF JobsOf, ItemOf, Notice
<1>2. CalmBatches
    BY DEF CalmBatches, SealAs, BatchTypeOK, Unfinished
<1>3. CalmWorkers /\ CalmSources
    BY DEF SealAs, CalmWorkers, CalmSources
<1> QED
    BY <1>1, <1>2, <1>3 DEF SealAs, Calm, recordVars

LEMMA BeginIsCalm ==
    ASSUME PreparationInv, NEW b \in Batch, batches[b].state = "none",
           batches' = [batches EXCEPT ![b].state = "collecting"], UNCHANGED vars
    PROVE  Calm
<1>1. CalmBatches
    BY DEF CalmBatches, BatchTypeOK
<1> QED
    BY <1>1 DEF Calm, CalmRows, CalmWorkers, CalmSources, vars, recordVars

LEMMA IngestCases ==
    ASSUME PreparationInv, BatchPhases, NEW b \in Batch, Ingest(b) \/ CancelBatch(b)
    PROVE  Calm \/ Uncalm
<1>0. b \in Channel /\ b # "canonical" /\ b # "offer"
    BY BatchAssumption DEF Channel
<1>1. CASE BeginBatch(b)
    BY <1>1, BeginIsCalm DEF BeginBatch
<1>2. CASE SealBatch(b)
    BY <1>2, SealIsCalm DEF SealBatch, BatchPhases, Phase
<1>3. CASE CancelBatch(b)
    <2>1. CalmRows
        <3> SUFFICES ASSUME NEW k \in Key, work'[k] # work[k]
                     PROVE  k[1] \notin Notice /\ work[k].state # "done"
            BY DEF CalmRows
        <3>1. k \in JobsOf(b) /\ work[k].state \in {"pending", "leased", "failed"}
            BY <1>3 DEF CancelBatch, PreparationInv, WorkOK
        <3> QED
            BY <3>1 DEF JobsOf, ItemOf, Notice
    <2>2. CalmBatches
        <3>1. Unfinished(b) /\ batches' = [batches EXCEPT ![b].state = "canceled"]
            BY <1>3 DEF CancelBatch
        <3> QED
            BY <3>1 DEF CalmBatches, BatchTypeOK, PreparationInv
    <2>3. CalmWorkers /\ CalmSources
        BY <1>3 DEF CancelBatch, CalmWorkers, CalmSources
    <2> QED
        BY <1>3, <2>1, <2>2, <2>3 DEF CancelBatch, Calm, recordVars
<1>4. ASSUME NEW r \in Observation, AskItem(b, r) PROVE Calm
    <2>1. CalmSources
        BY <1>0, <1>4 DEF AskItem, Ask, CalmSources, PreparationInv, AskOK
    <2> QED
        BY <1>4, <2>1 DEF AskItem, Ask, Calm, CalmRows, CalmBatches, CalmWorkers, recordVars
<1>5. ASSUME NEW r \in Observation, TakeBlocked(b, r), UNCHANGED <<head, canonical, accepted, work>>,
             SourcesOnly
      PROVE  Calm
    <2>1. CalmBatches
        BY <1>5 DEF TakeBlocked, CalmBatches, BatchTypeOK
    <2> QED
        BY <1>5, <2>1 DEF SourcesOnly, Calm, CalmRows, CalmWorkers
<1>6. ASSUME NEW r \in Observation, Quarantine(b, r) PROVE Calm
    BY <1>5, <1>6 DEF Quarantine, SourcesOnly, CalmSources, vars, recordVars
<1>7. CASE AcceptBatchObservation(b)
    <2> DEFINE r == ask[b].record
    <2>1. SourcesOnly
        BY <1>0, <1>7 DEF AcceptBatchObservation, SourcesOnly, CalmSources, PreparationInv, AskOK
    <2>2. r \in Observation
        BY <1>0, <1>7 DEF AcceptBatchObservation, PreparationInv, AskOK, AskHolds
    <2>3. batches[b].state = "collecting"
        BY <1>7 DEF AcceptBatchObservation
    <2>4. CASE /\ r \in accepted /\ canonical[SessionAt(r)] = r
               /\ work' = Adopted(work, b, r)
               /\ TakeAccepted(b, r) /\ UNCHANGED recordVars
        <3>1. BatchTaken(b, r)
            BY <2>1, <2>3, <2>4 DEF BatchTaken, recordVars
        <3> QED
            BY <2>2, <3>1 DEF Uncalm
    <2>5. CASE TakeBlocked(b, r) /\ UNCHANGED <<head, canonical, accepted, work>>
        BY <1>5, <2>1, <2>2, <2>5
    <2>6. CASE UNCHANGED <<head, canonical, accepted, work, batches>>
        BY <2>1, <2>6 DEF SourcesOnly, Calm, CalmRows, CalmBatches, CalmWorkers
    <2>7. CASE /\ ~Decided(r)
               /\ DecideObservation(r, Adopted(NoticeAndBase(r), b, r))
               /\ ~CanonicalHeld(canonical[SessionAt(r)], head[r.offer], r)
               /\ TakeAccepted(b, r)
        <3>1. Fresh(r, Adopted(NoticeAndBase(r), b, r))
            BY <2>7 DEF DecideObservation, Decided, Fresh
        <3>2. BatchTaken(b, r)
            BY <2>1, <2>3, <2>7, <3>1 DEF BatchTaken
        <3> QED
            BY <2>2, <3>2 DEF Uncalm
    <2>8. CASE /\ DecideObservation(r, Adopted(NoticeAndBase(r), b, r))
               /\ CanonicalHeld(canonical[SessionAt(r)], head[r.offer], r)
               /\ TakeBlocked(b, r)
        BY <2>5, <2>8 DEF DecideObservation
    <2> QED
        BY <1>7, <2>4, <2>5, <2>6, <2>7, <2>8 DEF AcceptBatchObservation, NoticeAndBase, recordVars
<1> QED
    BY <1>1, <1>2, <1>3, <1>4, <1>6, <1>7 DEF Ingest

LEMMA BatchClaimCases ==
    ASSUME PreparationInv, NEW w \in Worker, NEW b \in Batch,
           ClaimJob(w, b) \/ ClaimPublication(w, b)
    PROVE  Calm
<1>1. {ItemOf(b, r) : r \in Observation} \subseteq Key /\ {<<"publish", b>>} \subseteq Key
    BY DEF ItemOf, Key
<1> QED
    BY <1>1, ClaimIsCalm DEF ClaimJob, ClaimPublication

LEMMA BatchWorkerCases ==
    ASSUME PreparationInv, NEW w \in Worker, BatchWorkerStep(w)
    PROVE  Calm \/ Uncalm
<1> DEFINE k == Task(w)
<1>1. CASE ReadJobInput(w)
    <2>1. worker[w].pc # "idle" /\ k[1] = "batch"
        BY <1>1, AtTask DEF ReadJobInput
    <2> QED
        BY <1>1, <2>1, MoveIsCalm DEF ReadJobInput
<1>2. CASE CompleteJob(w)
    <2>1. worker[w].pc # "idle" /\ k[1] \notin Notice /\ work[k].state # "done"
        BY <1>2, AtTask DEF CompleteJob, Notice
    <2>2. CASE GoTo(w, "failing")
        BY <1>2, <2>1, <2>2, MoveIsCalm DEF CompleteJob
    <2>3. CASE Settle(w, "done") /\ UNCHANGED active
        <3>1. CalmWorkers
            BY <2>3, IdleIsCalm DEF Settle
        <3> HIDE DEF k
        <3>2. PICK i : work' = [work EXCEPT ![k] = i]
            BY <2>3 DEF Settle, k
        <3> QED
            BY <1>2, <2>1, <2>3, <3>1, <3>2, TaskIsCalm DEF CompleteJob, Settle, k
    <2> QED
        BY <1>2, <2>2, <2>3 DEF CompleteJob
<1>3. CASE ReadPublicationBase(w)
    <2>1. k[1] # "request"
        BY <1>3, AtTask DEF ReadPublicationBase
    <2> QED
        BY <1>3, <2>1, ReadIsCalm DEF ReadPublicationBase
<1>4. CASE PublishBatch(w)
    <2> DEFINE b == k[2]
    <2>1. worker[w].pc # "idle"
        BY <1>4, AtTask DEF PublishBatch
    <2>2. CASE (GoTo(w, "retrying") \/ GoTo(w, "failing")) /\ UNCHANGED batches
        BY <2>1, <2>2, MoveIsCalm
    <2>3. CASE Publishable(b) /\ PublishAs(w, Affected(b))
        <3>1. \A s \in Affected(b) : canonical[s] = batches[b].sessions[s]
            BY <2>3 DEF Publishable
        <3>2. Affected(b) \in SUBSET Session
            BY DEF Affected
        <3>3. BatchPublished(w)
            BY <1>4, <2>3, <3>1, <3>2 DEF PublishBatch, BatchPublished
        <3> QED
            BY <3>3 DEF Uncalm
    <2> QED
        BY <1>4, <2>2, <2>3 DEF PublishBatch
<1> QED
    BY <1>1, <1>2, <1>3, <1>4 DEF BatchWorkerStep

LEMMA BatchCases ==
    ASSUME PreparationInv, BatchPhases, [BatchNext]_batchVars
    PROVE  Calm \/ Uncalm
<1>1. CASE UNCHANGED batchVars
    BY <1>1 DEF batchVars, vars, recordVars, Calm, CalmRows, CalmBatches, CalmWorkers, CalmSources
<1> QED
    BY <1>1, PipelineCases, IngestCases, BatchClaimCases, BatchWorkerCases DEF BatchNext

LEMMA PageCases ==
    ASSUME PreparationInv, BatchPhases, [PageNext]_pageBatchVars
    PROVE  Calm \/ Uncalm
<1>1. CASE PlainStep
    BY <1>1, BatchCases DEF PlainStep
<1>2. ASSUME NEW b \in Batch, BeginPages(b) PROVE Calm
    BY <1>2, BeginIsCalm DEF BeginPages
<1>3. ASSUME NEW b \in Batch, SealPages(b) PROVE Calm
    BY <1>3, SealIsCalm DEF SealPages, BatchPhases, Phase
<1>4. ASSUME NEW b \in Batch, GrowOld(b) PROVE Calm
    BY <1>4 DEF GrowOld, recordVars, Calm, CalmRows, CalmBatches, CalmWorkers, CalmSources
<1>5. ASSUME NEW b \in Batch, NEW p \in Page, RecordPage(b, p) PROVE Calm
    BY <1>5 DEF RecordPage, batchVars, vars, recordVars, Calm, CalmRows, CalmBatches,
                CalmWorkers, CalmSources
<1>6. ASSUME NEW w \in Worker, PublishPages(w) PROVE Calm \/ Uncalm
    <2> DEFINE b == Task(w)[2]
    <2>1. worker[w].pc # "idle"
        BY <1>6, AtTask DEF PublishPages
    <2>2. CASE (GoTo(w, "retrying") \/ GoTo(w, "failing")) /\ UNCHANGED batches
        BY <2>1, <2>2, MoveIsCalm
    <2>3. CASE PagesPublishable(b) /\ PublishAs(w, Targets(b))
        <3>1. \A s \in Affected(b) : canonical[s] = batches[b].sessions[s]
            BY <2>3 DEF PagesPublishable
        <3>2. Targets(b) \in SUBSET Session
            BY DEF Targets
        <3>3. \A s \in Affected(b) : s \in Targets(b) \/ CanceledSession(s)
            BY DEF Targets, Affected
        <3>4. \A s \in Targets(b) : s \in Affected(b) \/ canonical[s] = active.canonical[s]
            BY <2>3 DEF PagesPublishable
        <3>5. BatchPublished(w)
            BY <1>6, <2>3, <3>1, <3>2, <3>3, <3>4 DEF PublishPages, BatchPublished
        <3> QED
            BY <3>5 DEF Uncalm
    <2> QED
        BY <1>6, <2>2, <2>3 DEF PublishPages
<1> QED
    BY <1>1, <1>2, <1>3, <1>4, <1>5, <1>6, StepCases

---------------------------------------------------------------------------
(* The phases of a batch.                                                  *)

\* A step that moves no batch and touches the row of a publication only while
\* its batch is sealed.
LEMMA PhasesKept ==
    ASSUME BatchPhases,
           \A b \in Batch :
              /\ batches'[b].state = batches[b].state
              /\ batches'[b].done = batches[b].done \/ batches[b].state = "collecting"
              /\ \/ work'[<<"publish", b>>] = work[<<"publish", b>>]
                 \/ batches[b].state = "sealed"
    PROVE  BatchPhases'
<1>1. \A b \in Batch : Phase(b)'
    BY DEF BatchPhases, Phase
<1> QED
    BY <1>1 DEF BatchPhases, Unfinished

\* The same for the steps that move no batch.
LEMMA LeasesKeepPhases ==
    ASSUME BatchPhases, UNCHANGED batches,
           \A k \in Key : k[1] = "publish" =>
              work'[k] = work[k] \/ work[k].state = "leased"
    PROVE  BatchPhases'
<1>1. \A b \in Batch : <<"publish", b>> \in Key
    BY DEF Key
<1> QED
    BY <1>1, PhasesKept DEF BatchPhases, Phase

LEMMA PipelineKeepsPhases ==
    ASSUME PreparationInv, BatchPhases, PipelineStep, UNCHANGED batches
    PROVE  BatchPhases'
<1> USE DEF PreparationInv
<1>0. ASSUME UNCHANGED work PROVE BatchPhases'
    BY <1>0, LeasesKeepPhases
<1>1. ASSUME NEW keys, \A k \in keys : k[1] # "publish", work' = Inserted(work, keys)
      PROVE  BatchPhases'
    BY <1>1, LeasesKeepPhases DEF Inserted, WorkOK
<1>2. ASSUME NEW k \in Key, work[k].state = "leased", NEW i, work' = [work EXCEPT ![k] = i]
      PROVE  BatchPhases'
    BY <1>2, LeasesKeepPhases DEF WorkOK
<1>3. CASE SourceStep
    <2>1. CASE work' = work
        BY <1>0, <2>1
    <2>2. ASSUME NEW r, work' = Inserted(work, NoticeOf(r)) PROVE BatchPhases'
        <3>1. \A k \in NoticeOf(r) : k[1] # "publish"
            BY DEF NoticeOf
        <3> QED
            BY <1>1, <2>2, <3>1
    <2>3. ASSUME NEW r, work' = Inserted(work, NoticeOf(r) \cup {<<"base", r>>})
          PROVE  BatchPhases'
        <3>1. \A k \in NoticeOf(r) \cup {<<"base", r>>} : k[1] # "publish"
            BY DEF NoticeOf
        <3> QED
            BY <1>1, <2>3, <3>1
    <2> QED
        BY <1>3, <2>1, <2>2, <2>3
           DEF SourceStep, AskOffer, AskCanonical, Ask, AcceptOfferRevision, DecideOffer,
               AcceptCanonicalObservation, DecideObservation
<1>4. CASE EnqueueMissing
    <2> DEFINE missing == {<<"derive", <<o, head[o].body>>>> :
                             o \in {o \in Offer : head[o] # NoRevision}}
    <2>1. work' = Inserted(work, missing) /\ \A k \in missing : k[1] # "publish"
        BY <1>4 DEF EnqueueMissing
    <2> HIDE DEF missing
    <2> QED
        BY <1>1, <2>1
<1>5. ASSUME NEW w \in Worker, WorkerStep(w) \/ Fault(w) PROVE BatchPhases'
    <2> DEFINE k == Task(w)
    <2>1. \/ UNCHANGED work
          \/ DeliverOutbox(w)
          \/ /\ k \in Key /\ work[k].state = "leased"
             /\ \E i : work' = [work EXCEPT ![k] = i]
        <3>1. worker[w].pc # "idle" => k \in Key
            BY TaskRow
        <3>2. HoldsLease(w) => work[k].state = "leased"
            BY DEF HoldsLease, Holds
        <3>3. ASSUME NEW state, Settle(w, state) PROVE \E i : work' = [work EXCEPT ![k] = i]
            BY <3>3 DEF Settle
        <3>4. CASE FinishDerivation(w)
            BY <3>1, <3>2, <3>3, <3>4 DEF FinishDerivation, At
        <3>5. CASE RefreshPublication(w)
            BY <3>1, <3>2, <3>3, <3>5 DEF RefreshPublication, At, GoTo
        <3>6. CASE CompleteCanonical(w)
            BY <3>1, <3>2, <3>3, <3>6 DEF CompleteCanonical, At, GoTo
        <3>7. CASE ReportFailure(w) \/ Overrun(w)
            BY <3>1, <3>2, <3>7 DEF ReportFailure, Overrun
        <3>8. CASE ReadRefreshBase(w) \/ ReadCanonicalInput(w) \/ LoseLease(w) \/ Break(w) \/ Crash(w)
            BY <3>8 DEF ReadRefreshBase, ReadCanonicalInput, ReadBase, GoTo, LoseLease, Break, Crash
        <3> QED
            BY <1>5, <3>4, <3>5, <3>6, <3>7, <3>8 DEF WorkerStep, Fault
    <2>2. CASE DeliverOutbox(w)
        <3>1. k[1] = "event" /\ k \in Key
            BY <2>2, AtTask DEF DeliverOutbox
        <3>2. \A j \in Key : j[1] = "publish" => work'[j] = work[j]
            BY <2>2, <3>1 DEF DeliverOutbox, Inserted, WorkOK
        <3> QED
            BY <3>2, LeasesKeepPhases
    <2> HIDE DEF k
    <2> QED
        BY <1>0, <1>2, <2>1, <2>2
<1>6. ASSUME NEW w \in Worker, NEW kind \in Kind, Claim(w, kind) PROVE BatchPhases'
    <2>1. \A k \in Key \ Rows(kind) : work'[k] = work[k]
        BY <1>6, ClaimIsCalm DEF Claim, Rows
    <2>2. \A k \in Rows(kind) : k[1] # "publish"
        BY DEF Rows, Kind
    <2> QED
        BY <2>1, <2>2, LeasesKeepPhases
<1>7. ASSUME NEW k \in Key, Expire(k) PROVE BatchPhases'
    BY <1>2, <1>7 DEF Expire
<1> QED
    BY <1>3, <1>4, <1>5, <1>6, <1>7 DEF PipelineStep

LEMMA PhaseEntered ==
    ASSUME PreparationInv, BatchPhases, NEW b \in Batch, NEW state \in BatchState,
           batches' = [batches EXCEPT ![b].state = state],
           state # "none",
           state = "collecting" => UNCHANGED work
                                   /\ batches[b].state = "none"
                                   /\ \A other \in Batch : ~Unfinished(other),
           state # "collecting" => Unfinished(b) \/ state \in {"published", "canceled"},
           work'[<<"publish", b>>].state = "leased" => state = "sealed",
           \A other \in Batch \ {b} : \/ work'[<<"publish", other>>] = work[<<"publish", other>>]
    PROVE  BatchPhases'
<1>1. /\ batches'[b].state = state /\ batches'[b].done = batches[b].done
      /\ \A other \in Batch \ {b} : batches'[other] = batches[other]
    BY DEF PreparationInv, BatchTypeOK
<1>2. Phase(b)'
    BY <1>1 DEF BatchPhases, Phase
<1>3. \A other \in Batch \ {b} : Phase(other)'
    BY <1>1 DEF BatchPhases, Phase
<1>4. \A other \in Batch \ {b} : Unfinished(other)' = Unfinished(other)
    BY <1>1 DEF Unfinished
<1>5. Unfinished(b)' => Unfinished(b) \/ \A other \in Batch : ~Unfinished(other)
    BY <1>1 DEF Unfinished
<1> QED
    BY <1>2, <1>3, <1>4, <1>5 DEF BatchPhases

LEMMA SealKeepsPhases ==
    ASSUME PreparationInv, BatchPhases, NEW b \in Batch, batches[b].state = "collecting",
           NEW state \in {"sealed", "blocked"}, SealAs(b, state)
    PROVE  BatchPhases'
<1>0. \A c \in Batch : <<"publish", c>> \in Key
    BY DEF Key
<1>1. work'[<<"publish", b>>].state # "leased"
    BY <1>0 DEF SealAs, Pending, Absent
<1>2. \A other \in Batch \ {b} : work'[<<"publish", other>>] = work[<<"publish", other>>]
    BY <1>0 DEF SealAs, JobsOf, ItemOf
<1> QED
    BY <1>1, <1>2, PhaseEntered DEF SealAs, BatchState, Unfinished

LEMMA PublishKeepsPhases ==
    ASSUME PreparationInv, BatchPhases, NEW w \in Worker, At(w, "ready", "publish"),
           NEW S, PublishAs(w, S)
    PROVE  BatchPhases'
<1> DEFINE b == Task(w)[2]
<1>0. \A c \in Batch : <<"publish", c>> \in Key
    BY DEF Key
<1>1. b \in Batch /\ Task(w) = <<"publish", b>> /\ work[Task(w)] \in Item
    BY AtTask DEF Key
<1>2. work'[<<"publish", b>>].state # "leased"
    <2>1. work'[Task(w)] = Released(work[Task(w)], "done")
        BY <1>0, <1>1 DEF PublishAs
    <2>2. Released(work[Task(w)], "done").state = "done"
        BY <1>1 DEF Released, Item
    <2> QED
        BY <1>1, <2>1, <2>2
<1>3. \A other \in Batch \ {b} : work'[<<"publish", other>>] = work[<<"publish", other>>]
    <2>1. \A k \in Key \ {Task(w)} : k[1] = "publish" => work'[k] = work[k]
        BY DEF PublishAs
    <2>2. \A other \in Batch \ {b} : <<"publish", other>> # Task(w)
        BY <1>1
    <2> HIDE DEF b
    <2> QED
        BY <1>0, <2>1, <2>2
<1>4. batches' = [batches EXCEPT ![b].state = "published"]
    BY DEF PublishAs
<1> HIDE DEF b
<1> QED
    BY <1>1, <1>2, <1>3, <1>4, PhaseEntered DEF BatchState

LEMMA BatchesKeepPhases ==
    ASSUME PreparationInv, BatchPhases, NEW b \in Batch, Ingest(b) \/ CancelBatch(b)
    PROVE  BatchPhases'
<1>0. \A c \in Batch : <<"publish", c>> \in Key
    BY DEF Key
<1>1. CASE BeginBatch(b)
    <2>1. work'[<<"publish", b>>].state # "leased"
        BY <1>1 DEF BeginBatch, BatchPhases, Phase, Absent, vars
    <2> QED
        BY <1>1, <2>1, PhaseEntered DEF BeginBatch, vars, BatchState
<1>2. CASE SealBatch(b)
    BY <1>2, SealKeepsPhases DEF SealBatch
<1>3. CASE CancelBatch(b)
    <2>1. <<"publish", b>> \in JobsOf(b)
        BY DEF JobsOf
    <2>2. work'[<<"publish", b>>].state # "leased"
        BY <1>0, <1>3, <2>1 DEF CancelBatch, PreparationInv, WorkOK, Item
    <2>3. \A other \in Batch \ {b} : work'[<<"publish", other>>] = work[<<"publish", other>>]
        BY <1>0, <1>3 DEF CancelBatch, JobsOf, ItemOf
    <2> QED
        BY <1>3, <2>2, <2>3, PhaseEntered DEF CancelBatch, BatchState
<1>4. ASSUME NEW r \in Observation, AskItem(b, r) PROVE BatchPhases'
    BY <1>4, LeasesKeepPhases DEF AskItem, Ask
<1>5. ASSUME NEW r \in Observation, TakeAccepted(b, r) \/ TakeBlocked(b, r),
             batches[b].state = "collecting",
             \A c \in Batch : work'[<<"publish", c>>] = work[<<"publish", c>>]
      PROVE  BatchPhases'
    <2>1. \A c \in Batch : /\ batches'[c].state = batches[c].state
                           /\ batches'[c].done = batches[c].done \/ c = b
        BY <1>5 DEF TakeAccepted, TakeBlocked, PreparationInv, BatchTypeOK
    <2> QED
        BY <1>5, <2>1, PhasesKept
<1>6. ASSUME NEW r \in Observation, Quarantine(b, r) PROVE BatchPhases'
    BY <1>5, <1>6 DEF Quarantine, vars
<1>7. CASE AcceptBatchObservation(b)
    <2> DEFINE r == ask[b].record
    <2>1. r \in Observation
        BY <1>7, BatchAssumption
           DEF AcceptBatchObservation, PreparationInv, AskOK, AskHolds, Channel
    <2>2. \A c \in Batch : work'[<<"publish", c>>] = work[<<"publish", c>>]
        <3>1. \/ work' = Adopted(work, b, r)
              \/ work' = Adopted(NoticeAndBase(r), b, r)
              \/ work' = work
            BY <1>7 DEF AcceptBatchObservation, DecideObservation, recordVars, NoticeAndBase
        <3>2. \A c \in Batch : NoticeAndBase(r)[<<"publish", c>>] = work[<<"publish", c>>]
            BY <1>0 DEF NoticeAndBase, NoticeOf, Inserted
        <3>3. ASSUME NEW rows, NEW c \in Batch
              PROVE  Adopted(rows, b, r)[<<"publish", c>>] = rows[<<"publish", c>>]
            BY <1>0 DEF Adopted, ItemOf
        <3> HIDE DEF r
        <3> QED
            BY <3>1, <3>2, <3>3
    <2>3. CASE UNCHANGED batches
        BY <2>2, <2>3, PhasesKept
    <2>4. CASE TakeAccepted(b, r) \/ TakeBlocked(b, r)
        BY <1>5, <1>7, <2>1, <2>2, <2>4 DEF AcceptBatchObservation
    <2> QED
        BY <1>7, <2>3, <2>4 DEF AcceptBatchObservation
<1> QED
    BY <1>1, <1>2, <1>3, <1>4, <1>6, <1>7 DEF Ingest

LEMMA BatchWorkersKeepPhases ==
    ASSUME PreparationInv, BatchPhases, NEW w \in Worker,
           BatchWorkerStep(w) \/ \E b \in Batch : ClaimJob(w, b) \/ ClaimPublication(w, b)
    PROVE  BatchPhases'
<1>0. \A c \in Batch : <<"publish", c>> \in Key
    BY DEF Key
<1>1. ASSUME NEW b \in Batch, ClaimJob(w, b) \/ ClaimPublication(w, b) PROVE BatchPhases'
    <2> DEFINE items == {ItemOf(b, r) : r \in Observation}
    <2>1. items \subseteq Key /\ {<<"publish", b>>} \subseteq Key
        BY DEF ItemOf, Key
    <2>2. \A c \in Batch : \/ work'[<<"publish", c>>] = work[<<"publish", c>>]
                           \/ c = b /\ batches[b].state = "sealed"
        <3>1. CASE ClaimJob(w, b)
            <4>1. \A k \in Key \ items : work'[k] = work[k]
                BY <2>1, <3>1, ClaimIsCalm DEF ClaimJob
            <4>2. \A c \in Batch : <<"publish", c>> \notin items
                BY DEF ItemOf
            <4> QED
                BY <1>0, <4>1, <4>2
        <3>2. CASE ClaimPublication(w, b)
            <4>1. \A k \in Key \ {<<"publish", b>>} : work'[k] = work[k]
                BY <2>1, <3>2, ClaimIsCalm DEF ClaimPublication
            <4> QED
                BY <1>0, <3>2, <4>1 DEF ClaimPublication
        <3> QED
            BY <1>1, <3>1, <3>2
    <2> HIDE DEF items
    <2> QED
        BY <1>1, <2>2, PhasesKept DEF ClaimJob, ClaimPublication
<1>2. CASE ReadJobInput(w) \/ ReadPublicationBase(w)
    BY <1>2, LeasesKeepPhases DEF ReadJobInput, ReadPublicationBase, ReadBase, GoTo
<1>3. CASE CompleteJob(w)
    BY <1>3, AtTask, LeasesKeepPhases DEF CompleteJob, GoTo, Settle, PreparationInv, WorkOK
<1>4. CASE PublishBatch(w)
    <2>1. CASE PublishAs(w, Affected(Task(w)[2]))
        BY <1>4, <2>1, PublishKeepsPhases DEF PublishBatch
    <2>2. CASE UNCHANGED <<work, batches>>
        BY <2>2, LeasesKeepPhases
    <2> QED
        BY <1>4, <2>1, <2>2 DEF PublishBatch, GoTo
<1> QED
    BY <1>1, <1>2, <1>3, <1>4 DEF BatchWorkerStep

LEMMA PhasesPreserved ==
    ASSUME PreparationInv, BatchPhases, [PageNext]_pageBatchVars
    PROVE  BatchPhases'
<1>1. CASE PlainStep
    <2>1. CASE UNCHANGED batchVars
        BY <2>1, LeasesKeepPhases DEF batchVars, vars
    <2> QED
        BY <1>1, <2>1, PipelineKeepsPhases, BatchesKeepPhases, BatchWorkersKeepPhases
           DEF PlainStep, BatchNext
<1>2. ASSUME NEW b \in Batch, BeginPages(b) PROVE BatchPhases'
    <2>1. work'[<<"publish", b>>].state # "leased"
        BY <1>2 DEF BeginPages, BatchPhases, Phase, Absent, vars
    <2> QED
        BY <1>2, <2>1, PhaseEntered DEF BeginPages, vars, BatchState
<1>3. ASSUME NEW b \in Batch, SealPages(b) PROVE BatchPhases'
    BY <1>3, SealKeepsPhases DEF SealPages
<1>4. ASSUME NEW b \in Batch, GrowOld(b) \/ \E p \in Page : RecordPage(b, p) PROVE BatchPhases'
    BY <1>4, LeasesKeepPhases DEF GrowOld, RecordPage, batchVars, vars
<1>5. ASSUME NEW w \in Worker, PublishPages(w) PROVE BatchPhases'
    <2>1. CASE PublishAs(w, Targets(Task(w)[2]))
        BY <1>5, <2>1, PublishKeepsPhases DEF PublishPages
    <2>2. CASE UNCHANGED <<work, batches>>
        BY <2>2, LeasesKeepPhases
    <2> QED
        BY <1>5, <2>1, <2>2 DEF PublishPages, GoTo
<1> QED
    BY <1>1, <1>2, <1>3, <1>4, <1>5, StepCases

---------------------------------------------------------------------------
(* No accepted revision is forgotten.                                      *)

Awaited(r) ==
    \/ Unsettled(<<"event", r>>) \/ Unsettled(<<"request", r>>)
    \/ work[<<"event", r>>].state = "owned" /\ InOpenBatch(r)

AwaitedFacts(r) == Unsettled(<<"base", r>>) \/ InOpenBatch(r)

OffersTold ==
    \A o \in Offer : \A r \in accepted :
        /\ head[o] = r /\ active.pins[SessionOf[o]] # {}
        /\ r \notin active.pins[SessionOf[o]]
        => Awaited(r)

FactsTold ==
    \A s \in Session : \A r \in Observation :
        /\ canonical[s] = r /\ r # active.canonical[s]
        /\ ~(CanceledSession(s) /\ active.pins[s] = {})
        => AwaitedFacts(r)

CanonicalNamed ==
    \A s \in Session : canonical[s] # NoRevision =>
        canonical[s] \in accepted /\ SessionAt(canonical[s]) = s

\* A revision that was never accepted has no rows yet.
UntoldInv ==
    \A r \in Revision \ accepted :
        /\ work[<<"event", r>>] = Absent
        /\ r \in Observation => work[<<"base", r>>] = Absent

\* A request has the event before it delivered.
RequestFollows ==
    \A r \in Revision :
        work[<<"request", r>>] # Absent => work[<<"event", r>>].state = "done"

\* What a batch took, it prepares the session of.
SessionsTaken ==
    \A b \in Batch : \A r \in batches[b].done : batches[b].sessions[SessionAt(r)] # NoRevision

NoticeInv ==
    /\ CanonicalNamed /\ UntoldInv /\ RequestFollows /\ SessionsTaken
    /\ OffersTold /\ FactsTold

LEMMA NoticeKeys ==
    /\ \A r \in Revision : {<<"event", r>>, <<"request", r>>} \subseteq Key
    /\ \A r \in Observation : r \in Revision /\ <<"base", r>> \in Key
BY PipelineAssumption DEF Key

LEMMA AbsentRow == Absent.state = "absent"
BY DEF Absent

LEMMA OwingRows == /\ \A k : Unsettled(k) <=> work[k].state \in Owing
                   /\ Absent.state \notin Owing \cup {"done", "owned"}
BY DEF Unsettled, Owing, Absent

\* A step that accepts nothing keeps what is told, session by session.
LEMMA ToldKept ==
    ASSUME PreparationInv, HeadsNamed, CanonicalNamed, OffersTold, FactsTold,
           UNCHANGED <<head, canonical, accepted>>,
           \A s \in Session :
              \/ active'.pins[s] \in {{}, Heads(s)}
              \/ /\ active'.pins[s] = active.pins[s]
                 /\ \A r \in Revision : SessionAt(r) = s /\ Awaited(r) => Awaited(r)',
           \A s \in Session :
              \/ active'.canonical[s] = canonical[s]
              \/ CanceledSession(s) /\ active'.pins[s] = {}
              \/ /\ active'.canonical[s] = active.canonical[s]
                 /\ CanceledSession(s) => active'.pins[s] = active.pins[s]
                 /\ \A r \in Observation : SessionAt(r) = s /\ AwaitedFacts(r) => AwaitedFacts(r)'
    PROVE  OffersTold' /\ FactsTold'
<1>1. OffersTold'
    <2> SUFFICES ASSUME NEW o \in Offer, NEW r \in accepted', head'[o] = r,
                        active'.pins[SessionOf[o]] # {}, r \notin active'.pins[SessionOf[o]]
                 PROVE  Awaited(r)'
        BY DEF OffersTold
    <2>1. r \in accepted /\ head[o] = r /\ r \in Revision /\ r # NoRevision
        BY RecordAssumption DEF PreparationInv, RecordsOK
    <2>2. SessionAt(r) = SessionOf[o] /\ SessionOf[o] \in Session
        BY <2>1, RecordAssumption DEF HeadsNamed, SessionAt
    <2>3. r \in Heads(SessionOf[o])
        BY <2>1 DEF Heads, OffersOf
    <2>4. /\ active'.pins[SessionOf[o]] = active.pins[SessionOf[o]]
          /\ Awaited(r) => Awaited(r)'
        BY <2>1, <2>2, <2>3
    <2> QED
        BY <2>1, <2>4 DEF OffersTold
<1>2. FactsTold'
    <2> SUFFICES ASSUME NEW s \in Session, NEW r \in Observation, canonical'[s] = r,
                        r # active'.canonical[s], ~(CanceledSession(s)' /\ active'.pins[s] = {})
                 PROVE  AwaitedFacts(r)'
        BY DEF FactsTold
    <2>1. r \in Revision /\ r # NoRevision /\ canonical[s] = r
        BY PipelineAssumption, RecordAssumption
    <2>2. SessionAt(r) = s
        BY <2>1 DEF CanonicalNamed
    <2>3. CanceledSession(s)' = CanceledSession(s)
        BY DEF CanceledSession
    <2>4. /\ r # active.canonical[s] /\ AwaitedFacts(r) => AwaitedFacts(r)'
          /\ CanceledSession(s) => active'.pins[s] = active.pins[s]
          /\ active'.canonical[s] = active.canonical[s]
        BY <2>1, <2>2, <2>3
    <2> QED
        BY <2>1, <2>3, <2>4 DEF FactsTold
<1> QED
    BY <1>1, <1>2

\* Rows that exist stay, and a delivered event stays delivered.
LEMMA RowsStay ==
    ASSUME UntoldInv, RequestFollows, accepted \subseteq accepted',
           \A k \in Key : k[1] \in Notice =>
              \/ work'[k] = work[k]
              \/ work[k] # Absent /\ work[k].state # "done"
    PROVE  UntoldInv' /\ RequestFollows'
<1>1. Absent.state # "done"
    BY DEF Absent
<1>2. \A r \in Revision \ accepted :
         /\ work'[<<"event", r>>] = Absent
         /\ r \in Observation => work'[<<"base", r>>] = Absent
    BY NoticeKeys DEF UntoldInv, Notice
<1>3. ASSUME NEW r \in Revision, work'[<<"request", r>>] # Absent
      PROVE  work'[<<"event", r>>].state = "done"
    <2>1. {<<"event", r>>, <<"request", r>>} \subseteq Key
        BY NoticeKeys
    <2>2. work[<<"request", r>>] # Absent
        BY <1>3, <2>1 DEF Notice
    <2>3. work[<<"event", r>>].state = "done"
        BY <2>2 DEF RequestFollows
    <2> QED
        BY <2>1, <2>3 DEF Notice
<1> QED
    BY <1>2, <1>3 DEF UntoldInv, RequestFollows

LEMMA CalmKeepsNotices ==
    ASSUME PreparationInv, HeadsNamed, NoticeInv, Calm
    PROVE  NoticeInv'
<1> USE DEF NoticeInv
<1>1. CanonicalNamed'
    BY DEF Calm, CanonicalNamed
<1>2. UntoldInv' /\ RequestFollows'
    <2>1. \A k \in Key : k[1] \in Notice =>
             \/ work'[k] = work[k]
             \/ work[k] # Absent /\ work[k].state # "done"
        BY OwingRows DEF Calm, CalmRows, Owing
    <2>2. accepted \subseteq accepted'
        BY DEF Calm
    <2> QED
        BY <2>1, <2>2, RowsStay
<1>3. SessionsTaken'
    BY DEF SessionsTaken, Calm, CalmBatches
<1>4. \A r : InOpenBatch(r) => InOpenBatch(r)'
    BY DEF InOpenBatch, Calm, CalmBatches, Unfinished
<1>5. \A r \in Revision : Awaited(r) => Awaited(r)'
    <2> SUFFICES ASSUME NEW r \in Revision, Awaited(r) PROVE Awaited(r)'
        OBVIOUS
    <2>1. \A k \in {<<"event", r>>, <<"request", r>>} :
             \/ work'[k] = work[k]
             \/ work[k].state \in Owing /\ work'[k].state \in Owing
        BY NoticeKeys DEF Calm, CalmRows, Notice
    <2>2. \A k \in {<<"event", r>>, <<"request", r>>} : Unsettled(k) => Unsettled(k)'
        BY <2>1 DEF Unsettled, Owing
    <2> QED
        BY <1>4, <2>1, <2>2 DEF Awaited, Owing
<1>6. \A r \in Observation : AwaitedFacts(r) => AwaitedFacts(r)'
    <2> SUFFICES ASSUME NEW r \in Observation, AwaitedFacts(r) PROVE AwaitedFacts(r)'
        OBVIOUS
    <2>1. \/ work'[<<"base", r>>] = work[<<"base", r>>]
          \/ work[<<"base", r>>].state \in Owing /\ work'[<<"base", r>>].state \in Owing
        BY NoticeKeys DEF Calm, CalmRows, Notice
    <2>2. Unsettled(<<"base", r>>) => Unsettled(<<"base", r>>)'
        BY <2>1 DEF Unsettled, Owing
    <2> QED
        BY <1>4, <2>2 DEF AwaitedFacts
<1>7. OffersTold' /\ FactsTold'
    BY <1>5, <1>6, ToldKept DEF Calm
<1> QED
    BY <1>1, <1>2, <1>3, <1>7

\* A publication empties a canceled session, brings those of S to their current
\* revisions and copies the others.
LEMMA PublicationSessions ==
    ASSUME NEW id, NEW S, active' = NextPublication(id, S), NEW s \in Session
    PROVE  \/ CanceledSession(s) /\ active'.pins[s] = {} /\ active'.canonical[s] = NoRevision
           \/ /\ ~CanceledSession(s) /\ s \in S
              /\ active'.pins[s] = Heads(s) /\ active'.canonical[s] = canonical[s]
           \/ /\ ~CanceledSession(s) /\ s \notin S
              /\ active'.pins[s] = active.pins[s] /\ active'.canonical[s] = active.canonical[s]
BY DEF NextPublication

\* The rows of a revision that a step leaves alone.
LEMMA SameRows ==
    ASSUME NEW r, work'[<<"event", r>>] = work[<<"event", r>>],
           work'[<<"request", r>>] = work[<<"request", r>>],
           InOpenBatch(r) => InOpenBatch(r)', Awaited(r)
    PROVE  Awaited(r)'
BY DEF Awaited, Unsettled

LEMMA SameFactsRow ==
    ASSUME NEW r, work'[<<"base", r>>] = work[<<"base", r>>],
           InOpenBatch(r) => InOpenBatch(r)', AwaitedFacts(r)
    PROVE  AwaitedFacts(r)'
BY DEF AwaitedFacts, Unsettled

\* The worker of a task of queue kind.
LEMMA TaskIs ==
    ASSUME PreparationInv, NEW w \in Worker, NEW pc, pc # "idle", NEW kind, At(w, pc, kind)
    PROVE  /\ kind \in {"event", "request"} => \E r \in Revision : Task(w) = <<kind, r>>
           /\ kind = "base" => \E r \in Observation : Task(w) = <<kind, r>>
           /\ kind = "publish" => \E b \in Batch : Task(w) = <<kind, b>>
           /\ Task(w) \in Key /\ work[Task(w)] \in Item /\ work[Task(w)].state = "leased"
BY AtTask DEF Key

LEMMA SettledRows ==
    ASSUME PreparationInv, NEW w \in Worker, NEW k, Task(w) = k, k \in Key,
           work[k] \in Item, Settle(w, "done")
    PROVE  /\ work'[k].state = "done"
           /\ \A j \in Key \ {k} : work'[j] = work[j]
<1>1. work' = [work EXCEPT ![k] = Released(work[k], "done")]
    BY DEF Settle
<1>2. Released(work[k], "done").state = "done"
    BY DEF Released, Item
<1> QED
    BY <1>1, <1>2 DEF PreparationInv, WorkOK

LEMMA DeliveryKeepsNotices ==
    ASSUME PreparationInv, HeadsNamed, NoticeInv, NEW w \in Worker, DeliverOutbox(w),
           UNCHANGED batches
    PROVE  NoticeInv'
<1> USE DEF NoticeInv
<1>1. PICK r \in Revision : Task(w) = <<"event", r>>
    BY TaskIs DEF DeliverOutbox
<1> DEFINE e == <<"event", r>>
           q == <<"request", r>>
<1>2. e \in Key /\ q \in Key /\ work[e] \in Item /\ work[e].state = "leased"
    BY <1>1, NoticeKeys, TaskIs DEF DeliverOutbox
<1>3. work[q] = Absent
    BY <1>2 DEF RequestFollows
<1>4. /\ work'[e].state = "done" /\ work'[q] = Pending
      /\ \A k \in Key \ {e, q} : work'[k] = work[k]
    <2> DEFINE rows == [work EXCEPT ![e] = Released(work[e], "done")]
    <2>1. work' = Inserted(rows, {q})
        BY <1>1 DEF DeliverOutbox
    <2>2. Released(work[e], "done").state = "done"
        BY <1>2 DEF Released, Item
    <2>3. /\ rows[e] = Released(work[e], "done") /\ rows[q] = Absent
          /\ \A k \in Key \ {e} : rows[k] = work[k]
        BY <1>2, <1>3 DEF PreparationInv, WorkOK
    <2>4. work'[q] = Pending /\ \A k \in Key \ {q} : work'[k] = rows[k]
        <3>1. \A k \in Key : work'[k] = IF k \in {q} /\ rows[k] = Absent THEN Pending ELSE rows[k]
            BY <2>1 DEF Inserted
        <3> HIDE DEF rows, q
        <3> QED
            BY <1>2, <2>3, <3>1
    <2>5. e # q
        OBVIOUS
    <2> HIDE DEF rows, e, q
    <2> QED
        BY <1>2, <2>2, <2>3, <2>4, <2>5
<1>5. UNCHANGED <<head, canonical, accepted, active>>
    BY DEF DeliverOutbox, recordVars
<1>6. \A p : InOpenBatch(p) => InOpenBatch(p)'
    BY DEF InOpenBatch, Unfinished
<1>7. \A p \in Revision : Awaited(p) => Awaited(p)'
    <2> SUFFICES ASSUME NEW p \in Revision, Awaited(p) PROVE Awaited(p)'
        OBVIOUS
    <2>1. CASE p = r
        <3>1. Unsettled(<<"request", p>>)'
            BY <1>4, <2>1 DEF Unsettled, Pending, Absent
        <3> QED
            BY <3>1 DEF Awaited
    <2>2. CASE p # r
        BY <1>4, <1>6, <2>2, NoticeKeys, SameRows
    <2> QED
        BY <2>1, <2>2
<1>8. \A p \in Observation : AwaitedFacts(p) => AwaitedFacts(p)'
    BY <1>4, <1>6, NoticeKeys, SameFactsRow
<1>9. OffersTold' /\ FactsTold'
    BY <1>5, <1>7, <1>8, ToldKept
<1>10. UntoldInv'
    <2>1. r \in accepted
        BY <1>2, AbsentRow DEF UntoldInv
    <2> QED
        BY <1>4, <1>5, <2>1, NoticeKeys DEF UntoldInv
<1>11. RequestFollows'
    BY <1>4, NoticeKeys DEF RequestFollows
<1> QED
    BY <1>5, <1>9, <1>10, <1>11 DEF CanonicalNamed, SessionsTaken

LEMMA RefreshKeepsNotices ==
    ASSUME PreparationInv, HeadsNamed, NoticeInv, NEW w \in Worker, RefreshSettled(w)
    PROVE  NoticeInv'
<1> USE DEF NoticeInv
<1>1. PICK r \in Revision : Task(w) = <<"request", r>>
    BY TaskIs DEF RefreshSettled
<1> DEFINE q == <<"request", r>>
           s == SessionAt(r)
<1>2. q \in Key /\ work[q] \in Item /\ work[q].state = "leased" /\ s \in Session
    BY <1>1, TaskIs, SessionOfRevision DEF RefreshSettled
<1>3. work'[q].state = "done" /\ \A k \in Key \ {q} : work'[k] = work[k]
    BY <1>1, <1>2, SettledRows DEF RefreshSettled
<1>4. /\ UNCHANGED <<head, canonical, accepted, batches>>
      /\ \/ active.pins[s] = Heads(s) /\ UNCHANGED active
         \/ active' = NextPublication(q, {s})
    BY <1>1 DEF RefreshSettled, Settle, recordVars
<1>5. \A p : InOpenBatch(p) => InOpenBatch(p)'
    BY <1>4 DEF InOpenBatch, Unfinished
<1>6. \A p \in Revision : SessionAt(p) # s /\ Awaited(p) => Awaited(p)'
    <2> SUFFICES ASSUME NEW p \in Revision, SessionAt(p) # s, Awaited(p) PROVE Awaited(p)'
        OBVIOUS
    <2>1. <<"event", p>> # q /\ <<"request", p>> # q
        OBVIOUS
    <2> QED
        BY <1>3, <1>5, <2>1, NoticeKeys, SameRows
<1>7. \A p \in Observation : AwaitedFacts(p) => AwaitedFacts(p)'
    BY <1>3, <1>5, NoticeKeys, SameFactsRow
<1>8. OffersTold' /\ FactsTold'
    <2>1. CASE active.pins[s] = Heads(s) /\ UNCHANGED active
        BY <1>4, <1>6, <1>7, <2>1, ToldKept
    <2>2. CASE active' = NextPublication(q, {s})
        <3>1. \A t \in Session :
                 \/ active'.pins[t] \in {{}, Heads(t)}
                 \/ active'.pins[t] = active.pins[t] /\ t # s
            BY <2>2, PublicationSessions
        <3>2. \A t \in Session :
                 \/ active'.canonical[t] = canonical[t]
                 \/ CanceledSession(t) /\ active'.pins[t] = {}
                 \/ active'.canonical[t] = active.canonical[t] /\ ~CanceledSession(t)
            BY <2>2, PublicationSessions
        <3> QED
            BY <1>4, <1>6, <1>7, <3>1, <3>2, ToldKept
    <2> QED
        BY <1>4, <2>1, <2>2
<1>9. UntoldInv' /\ RequestFollows'
    <2>1. \A k \in Key : work'[k] = work[k] \/ (work[k] # Absent /\ work[k].state # "done")
        <3> HIDE DEF q
        <3>1. work[q] # Absent /\ work[q].state # "done"
            BY <1>2, AbsentRow
        <3> QED
            BY <1>3, <3>1
    <2> QED
        BY <1>4, <2>1, RowsStay
<1> QED
    BY <1>4, <1>8, <1>9 DEF CanonicalNamed, SessionsTaken

LEMMA CanonicalJobKeepsNotices ==
    ASSUME PreparationInv, HeadsNamed, NoticeInv, NEW w \in Worker, CanonicalSettled(w)
    PROVE  NoticeInv'
<1> USE DEF NoticeInv
<1>1. PICK r \in Observation : Task(w) = <<"base", r>>
    BY TaskIs DEF CanonicalSettled
<1> DEFINE q == <<"base", r>>
           s == SessionAt(r)
<1>2. /\ q \in Key /\ work[q] \in Item /\ work[q].state = "leased" /\ s \in Session
      /\ r \in Revision
    BY <1>1, TaskIs, SessionOfRevision, PipelineAssumption DEF CanonicalSettled
<1>3. work'[q].state = "done" /\ \A k \in Key \ {q} : work'[k] = work[k]
    BY <1>1, <1>2, SettledRows DEF CanonicalSettled
<1>4. /\ UNCHANGED <<head, canonical, accepted, batches>>
      /\ active' = NextPublication(q, {s}) /\ canonical[s] = r
    BY <1>1 DEF CanonicalSettled, Settle, recordVars
<1>5. \A p : InOpenBatch(p) => InOpenBatch(p)'
    BY <1>4 DEF InOpenBatch, Unfinished
<1>6. \A p \in Revision : Awaited(p) => Awaited(p)'
    BY <1>3, <1>5, NoticeKeys, SameRows
<1>7. \A p \in Observation : SessionAt(p) # s /\ AwaitedFacts(p) => AwaitedFacts(p)'
    <2> SUFFICES ASSUME NEW p \in Observation, SessionAt(p) # s, AwaitedFacts(p) PROVE AwaitedFacts(p)'
        OBVIOUS
    <2>1. <<"base", p>> # q
        OBVIOUS
    <2> QED
        BY <1>3, <1>5, <2>1, NoticeKeys, SameFactsRow
<1>8. OffersTold' /\ FactsTold'
    <2>1. \A t \in Session : active'.pins[t] \in {{}, Heads(t), active.pins[t]}
        BY <1>4, PublicationSessions
    <2>2. \A t \in Session :
             \/ active'.canonical[t] = canonical[t]
             \/ CanceledSession(t) /\ active'.pins[t] = {}
             \/ active'.canonical[t] = active.canonical[t] /\ ~CanceledSession(t) /\ t # s
        BY <1>4, PublicationSessions
    <2> QED
        BY <1>4, <1>6, <1>7, <2>1, <2>2, ToldKept
<1>9. UntoldInv' /\ RequestFollows'
    <2>1. \A k \in Key : work'[k] = work[k] \/ (work[k] # Absent /\ work[k].state # "done")
        <3> HIDE DEF q
        <3>1. work[q] # Absent /\ work[q].state # "done"
            BY <1>2, AbsentRow
        <3> QED
            BY <1>3, <3>1
    <2> QED
        BY <1>4, <2>1, RowsStay
<1> QED
    BY <1>4, <1>8, <1>9 DEF CanonicalNamed, SessionsTaken

LEMMA BatchKeepsNotices ==
    ASSUME PreparationInv, HeadsNamed, NoticeInv, NEW w \in Worker, BatchPublished(w)
    PROVE  NoticeInv'
<1> USE DEF NoticeInv
<1>1. PICK b \in Batch : Task(w) = <<"publish", b>>
    BY TaskIs DEF BatchPublished
<1>2. PICK S \in SUBSET Session :
         (\A s \in Affected(b) : s \in S \/ CanceledSession(s)) /\ PublishAs(w, S)
    BY <1>1 DEF BatchPublished
<1> DEFINE q == <<"publish", b>>
           taken == batches[b].done
<1>3. q \in Key /\ work[q] \in Item /\ work[q].state = "leased"
    BY <1>1, TaskIs DEF BatchPublished
<1>4. /\ UNCHANGED <<head, canonical, accepted>>
      /\ active' = NextPublication(q, S)
      /\ batches' = [batches EXCEPT ![b].state = "published"]
    BY <1>1, <1>2 DEF PublishAs, recordVars
<1>5. \A k \in Key : k[1] \in Notice =>
         \/ work'[k] = work[k]
         \/ work[k].state = "owned" /\ \E r \in taken : k = <<"event", r>>
    BY <1>1, <1>2 DEF PublishAs, Notice
<1>6. \A r : r \notin taken /\ InOpenBatch(r) => InOpenBatch(r)'
    <2> SUFFICES ASSUME NEW r, r \notin taken, InOpenBatch(r) PROVE InOpenBatch(r)'
        OBVIOUS
    <2>1. PICK c \in Batch : /\ r \in batches[c].done
                             /\ Unfinished(c) \/ batches[c].state = "canceled"
        BY DEF InOpenBatch
    <2>2. c # b /\ batches'[c] = batches[c]
        BY <1>4, <2>1 DEF PreparationInv, BatchTypeOK
    <2> QED
        BY <2>1, <2>2 DEF InOpenBatch, Unfinished
<1>7. \A s \in Session :
         \/ active'.pins[s] \in {{}, Heads(s)}
         \/ active'.pins[s] = active.pins[s] /\ s \notin Affected(b)
    BY <1>2, <1>4, PublicationSessions
<1>8. \A s \in Session :
         \/ active'.canonical[s] = canonical[s]
         \/ CanceledSession(s) /\ active'.pins[s] = {}
         \/ /\ active'.canonical[s] = active.canonical[s] /\ ~CanceledSession(s)
            /\ s \notin Affected(b)
    BY <1>2, <1>4, PublicationSessions
<1>9. \A r \in Revision : SessionAt(r) \notin Affected(b) => r \notin taken
    BY SessionOfRevision DEF SessionsTaken, Affected
<1>10. \A r \in Revision : SessionAt(r) \notin Affected(b) /\ Awaited(r) => Awaited(r)'
    <2> SUFFICES ASSUME NEW r \in Revision, SessionAt(r) \notin Affected(b), Awaited(r)
                 PROVE  Awaited(r)'
        OBVIOUS
    <2>1. r \notin taken
        BY <1>9
    <2>2. /\ work'[<<"event", r>>] = work[<<"event", r>>]
          /\ work'[<<"request", r>>] = work[<<"request", r>>]
        BY <1>5, <2>1, NoticeKeys DEF Notice
    <2> QED
        BY <1>6, <2>1, <2>2, SameRows
<1>11. \A r \in Observation : SessionAt(r) \notin Affected(b) /\ AwaitedFacts(r) => AwaitedFacts(r)'
    <2> SUFFICES ASSUME NEW r \in Observation, SessionAt(r) \notin Affected(b), AwaitedFacts(r)
                 PROVE  AwaitedFacts(r)'
        OBVIOUS
    <2>1. r \notin taken
        BY <1>9, PipelineAssumption
    <2>2. work'[<<"base", r>>] = work[<<"base", r>>]
        BY <1>5, NoticeKeys DEF Notice
    <2> QED
        BY <1>6, <2>1, <2>2, SameFactsRow
<1>12. OffersTold' /\ FactsTold'
    BY <1>4, <1>7, <1>8, <1>10, <1>11, ToldKept
<1>13. UntoldInv' /\ RequestFollows'
    <2>1. \A k \in Key : k[1] \in Notice =>
             work'[k] = work[k] \/ (work[k] # Absent /\ work[k].state # "done")
        <3>1. \A k : work[k].state = "owned" => work[k] # Absent /\ work[k].state # "done"
            BY AbsentRow
        <3> QED
            BY <1>5, <3>1
    <2> QED
        BY <1>4, <2>1, RowsStay
<1>14. SessionsTaken'
    BY <1>4 DEF SessionsTaken, PreparationInv, BatchTypeOK
<1> QED
    BY <1>4, <1>12, <1>13, <1>14 DEF CanonicalNamed

\* A revision accepted now is awaited, and the others as before.
LEMMA AcceptanceKeepsNotices ==
    ASSUME PreparationInv, HeadsNamed, NoticeInv, NEW r \in Revision, r \notin accepted,
           head' = [head EXCEPT ![r.offer] = r], accepted' = accepted \cup {r},
           UNCHANGED active,
           \/ UNCHANGED canonical
           \/ canonical' = [canonical EXCEPT ![SessionAt(r)] = r] /\ AwaitedFacts(r)',
           \A k \in Key : k[1] \in Notice /\ k # <<"event", r>> /\ k # <<"base", r>>
              => work'[k] = work[k],
           \A p : InOpenBatch(p) => InOpenBatch(p)',
           Awaited(r)', SessionsTaken'
    PROVE  NoticeInv'
<1> USE DEF NoticeInv
<1>1. r.offer \in Offer /\ SessionAt(r) \in Session /\ r # NoRevision
    BY SessionOfRevision, RecordAssumption
<1>2. /\ head \in [Offer -> Current] /\ accepted \subseteq Revision
      /\ canonical \in [Session -> Observation \cup {NoRevision}]
    BY DEF PreparationInv, RecordsOK
<1>3. \A p \in Revision : p # r => /\ work'[<<"event", p>>] = work[<<"event", p>>]
                                   /\ work'[<<"request", p>>] = work[<<"request", p>>]
    BY NoticeKeys DEF Notice
<1>4. \A p \in Observation : p # r => work'[<<"base", p>>] = work[<<"base", p>>]
    BY NoticeKeys DEF Notice
<1>5. \A s \in Session : \/ canonical'[s] = canonical[s]
                         \/ s = SessionAt(r) /\ canonical'[s] = r /\ AwaitedFacts(r)'
    BY <1>1, <1>2
<1>6. CanonicalNamed'
    BY <1>5 DEF CanonicalNamed, SessionAt
<1>7. UntoldInv'
    BY <1>3, <1>4 DEF UntoldInv
<1>8. RequestFollows'
    <2> SUFFICES ASSUME NEW p \in Revision, work'[<<"request", p>>] # Absent
                 PROVE  work'[<<"event", p>>].state = "done"
        BY DEF RequestFollows
    <2>1. work'[<<"request", p>>] = work[<<"request", p>>]
        BY NoticeKeys DEF Notice
    <2>2. work[<<"event", p>>].state = "done"
        BY <2>1 DEF RequestFollows
    <2>3. p # r
        BY <2>2, AbsentRow DEF UntoldInv
    <2> QED
        BY <1>3, <2>2, <2>3
<1>9. OffersTold'
    <2> SUFFICES ASSUME NEW o \in Offer, NEW p \in accepted', head'[o] = p,
                        active'.pins[SessionOf[o]] # {}, p \notin active'.pins[SessionOf[o]],
                        p # r
                 PROVE  Awaited(p)'
        BY DEF OffersTold
    <2>1. p \in accepted /\ head[o] = p /\ p \in Revision
        BY <1>1, <1>2
    <2>2. Awaited(p)
        BY <2>1 DEF OffersTold
    <2> QED
        BY <1>3, <2>1, <2>2, SameRows
<1>10. FactsTold'
    <2> SUFFICES ASSUME NEW s \in Session, NEW p \in Observation, canonical'[s] = p,
                        p # active'.canonical[s], ~(CanceledSession(s)' /\ active'.pins[s] = {})
                 PROVE  AwaitedFacts(p)'
        BY DEF FactsTold
    <2>1. CASE canonical'[s] = canonical[s]
        <3>1. CanceledSession(s)' = CanceledSession(s)
            BY <2>1 DEF CanceledSession
        <3>2. AwaitedFacts(p)
            BY <2>1, <3>1 DEF FactsTold
        <3>3. p # r
            BY <1>1, <2>1, PipelineAssumption, RecordAssumption DEF CanonicalNamed
        <3> QED
            BY <1>4, <3>2, <3>3, SameFactsRow
    <2> QED
        BY <1>5, <2>1
<1> QED
    BY <1>6, <1>7, <1>8, <1>9, <1>10

\* The rows that an acceptance adds.
LEMMA AddedRows ==
    ASSUME PreparationInv, UntoldInv, NEW r \in Revision \ accepted, NEW K,
           <<"event", r>> \in K, K \subseteq NoticeOf(r) \cup {<<"base", r>>},
           NEW rows, rows = Inserted(work, K)
    PROVE  /\ rows[<<"event", r>>] = Pending
           /\ r \in Observation /\ <<"base", r>> \in K => rows[<<"base", r>>] = Pending
           /\ \A k \in Key : k[1] \in Notice /\ k # <<"event", r>> /\ k # <<"base", r>>
                 => rows[k] = work[k]
<1>1. \A k \in Key : k[1] \in Notice /\ k \in K => k \in {<<"event", r>>, <<"base", r>>}
    BY DEF NoticeOf, Notice
<1>2. \A k \in Key : rows[k] = IF k \in K /\ work[k] = Absent THEN Pending ELSE work[k]
    BY DEF Inserted
<1>3. \A k \in Key : k[1] \in Notice /\ k # <<"event", r>> /\ k # <<"base", r>> => k \notin K
    BY <1>1
<1>4. /\ <<"event", r>> \in Key /\ work[<<"event", r>>] = Absent
      /\ r \in Observation => <<"base", r>> \in Key /\ work[<<"base", r>>] = Absent
    BY NoticeKeys DEF UntoldInv
<1> QED
    BY <1>2, <1>3, <1>4

LEMMA OfferKeepsNotices ==
    ASSUME PreparationInv, HeadsNamed, NoticeInv, NEW r \in Revision, OfferTaken(r)
    PROVE  NoticeInv'
<1>1. \A p : InOpenBatch(p) => InOpenBatch(p)'
    BY DEF OfferTaken, InOpenBatch, Unfinished
<1>2. /\ work'[<<"event", r>>] = Pending
      /\ \A k \in Key : k[1] \in Notice /\ k # <<"event", r>> /\ k # <<"base", r>>
            => work'[k] = work[k]
    <2>1. <<"event", r>> \in NoticeOf(r)
        BY DEF NoticeOf
    <2> QED
        BY <2>1, AddedRows DEF OfferTaken, NoticeInv
<1>3. Awaited(r)'
    BY <1>2 DEF Awaited, Unsettled, Pending, Absent
<1>4. SessionsTaken'
    BY DEF OfferTaken, SessionsTaken, NoticeInv
<1> QED
    BY <1>1, <1>2, <1>3, <1>4, AcceptanceKeepsNotices DEF OfferTaken, SourcesOnly

LEMMA ObservationKeepsNotices ==
    ASSUME PreparationInv, HeadsNamed, NoticeInv, NEW r \in Observation, ObservationTaken(r)
    PROVE  NoticeInv'
<1>0. r \in Revision
    BY PipelineAssumption
<1>1. \A p : InOpenBatch(p) => InOpenBatch(p)'
    BY DEF ObservationTaken, InOpenBatch, Unfinished
<1>2. /\ work'[<<"event", r>>] = Pending /\ work'[<<"base", r>>] = Pending
      /\ \A k \in Key : k[1] \in Notice /\ k # <<"event", r>> /\ k # <<"base", r>>
            => work'[k] = work[k]
    <2>1. <<"event", r>> \in NoticeOf(r)
        BY DEF NoticeOf
    <2>2. work' = Inserted(work, NoticeOf(r) \cup {<<"base", r>>})
        BY DEF ObservationTaken, Fresh, NoticeAndBase
    <2> QED
        BY <1>0, <2>1, <2>2, AddedRows DEF ObservationTaken, Fresh, NoticeInv
<1>3. Awaited(r)' /\ AwaitedFacts(r)'
    BY <1>2 DEF Awaited, AwaitedFacts, Unsettled, Pending, Absent
<1>4. SessionsTaken'
    BY DEF ObservationTaken, SessionsTaken, NoticeInv
<1> QED
    BY <1>0, <1>1, <1>2, <1>3, <1>4, AcceptanceKeepsNotices
       DEF ObservationTaken, Fresh, SourcesOnly

\* What a batch takes over of the rows of a notice.
LEMMA AdoptedNotices ==
    ASSUME NEW rows, NEW b, NEW r, NEW k \in Key, k[1] \in Notice
    PROVE  \/ Adopted(rows, b, r)[k] = rows[k]
           \/ /\ rows[k].state = "pending" /\ k = <<"base", r>>
           \/ /\ rows[k].state = "pending" /\ k = <<"event", r>>
              /\ Adopted(rows, b, r)[k] = [rows[k] EXCEPT !.state = "owned"]
<1>1. k # ItemOf(b, r)
    BY DEF ItemOf, Notice
<1> QED
    BY <1>1 DEF Adopted

LEMMA TakingOpens ==
    ASSUME PreparationInv, SessionsTaken, NEW b \in Batch, NEW r \in Observation,
           batches[b].state = "collecting", TakeAccepted(b, r)
    PROVE  /\ InOpenBatch(r)' /\ \A p : InOpenBatch(p) => InOpenBatch(p)'
           /\ SessionsTaken'
<1>1. r \in Revision /\ SessionAt(r) \in Session /\ r # NoRevision
    BY PipelineAssumption, SessionOfRevision, RecordAssumption
<1>2. batches \in [Batch -> [state : BatchState, done : SUBSET Observation,
                             blocked : SUBSET Observation,
                             sessions : [Session -> Observation \cup {NoRevision}]]]
    BY DEF PreparationInv, BatchTypeOK
<1>3. /\ batches'[b].done = batches[b].done \cup {r}
      /\ batches'[b].state = batches[b].state
      /\ batches'[b].sessions = [batches[b].sessions EXCEPT ![SessionAt(r)] = r]
      /\ \A c \in Batch \ {b} : batches'[c] = batches[c]
    BY <1>2 DEF TakeAccepted
<1>4. \A p : InOpenBatch(p) => InOpenBatch(p)'
    BY <1>3 DEF InOpenBatch, Unfinished
<1>5. InOpenBatch(r)'
    BY <1>3 DEF InOpenBatch, Unfinished
<1>6. SessionsTaken'
    <2> SUFFICES ASSUME NEW c \in Batch, NEW p \in batches'[c].done
                 PROVE  batches'[c].sessions[SessionAt(p)] # NoRevision
        BY DEF SessionsTaken, SessionAt
    <2>1. CASE c = b
        <3>1. p \in Revision /\ SessionAt(p) \in Session
            BY <1>2, <1>3, <2>1, PipelineAssumption, SessionOfRevision
        <3>2. batches[b].sessions \in [Session -> Observation \cup {NoRevision}]
            BY <1>2
        <3>3. SessionAt(p) = SessionAt(r) \/ p \in batches[b].done
            BY <1>3, <2>1
        <3> QED
            BY <1>1, <1>3, <2>1, <3>1, <3>2, <3>3 DEF SessionsTaken
    <2>2. CASE c # b
        BY <1>3, <2>2 DEF SessionsTaken
    <2> QED
        BY <2>1, <2>2
<1> QED
    BY <1>4, <1>5, <1>6

LEMMA TakingKeepsNotices ==
    ASSUME PreparationInv, HeadsNamed, NoticeInv, NEW b \in Batch, NEW r \in Observation,
           BatchTaken(b, r)
    PROVE  NoticeInv'
<1>0. r \in Revision
    BY PipelineAssumption
<1>1. /\ InOpenBatch(r)' /\ \A p : InOpenBatch(p) => InOpenBatch(p)'
      /\ SessionsTaken'
    BY TakingOpens DEF BatchTaken, NoticeInv
<1> DEFINE e == <<"event", r>>
           f == <<"base", r>>
<1>2. e \in Key /\ f \in Key /\ e[1] \in Notice
    BY <1>0, NoticeKeys DEF Notice
<1>3. AwaitedFacts(r)'
    BY <1>1 DEF AwaitedFacts
<1>4. CASE Fresh(r, Adopted(NoticeAndBase(r), b, r))
    <2>1. PICK rows : rows = NoticeAndBase(r)
        OBVIOUS
    <2>2. /\ rows[e] = Pending
          /\ \A k \in Key : k[1] \in Notice /\ k # e /\ k # f => rows[k] = work[k]
        <3>1. work[e] = Absent
            BY <1>0, <1>4 DEF Fresh, NoticeInv, UntoldInv
        <3>2. e \in NoticeOf(r) /\ \A k \in Key : k[1] \in Notice /\ k \in NoticeOf(r) => k = e
            BY DEF NoticeOf, Notice
        <3>3. \A k \in Key :
                 rows[k] = IF k \in NoticeOf(r) \cup {f} /\ work[k] = Absent THEN Pending ELSE work[k]
            BY <2>1 DEF NoticeAndBase, Inserted
        <3> HIDE DEF e, f
        <3> QED
            BY <1>2, <3>1, <3>2, <3>3
    <2>3. \A k \in Key : k[1] \in Notice /\ k # e /\ k # f => work'[k] = work[k]
        <3> SUFFICES ASSUME NEW k \in Key, k[1] \in Notice, k # e, k # f PROVE work'[k] = work[k]
            OBVIOUS
        <3>1. work'[k] = Adopted(rows, b, r)[k]
            BY <1>4, <2>1 DEF Fresh
        <3>2. Adopted(rows, b, r)[k] = rows[k]
            BY DEF Adopted, ItemOf, Notice
        <3> QED
            BY <2>2, <3>1, <3>2
    <2>4. work'[e].state \in {"pending", "owned"}
        <3>1. work'[e] = Pending \/ work'[e] = [Pending EXCEPT !.state = "owned"]
            <4>1. e # f
                OBVIOUS
            <4> HIDE DEF e, f
            <4> QED
                BY <1>2, <1>4, <2>1, <2>2, <4>1, AdoptedNotices DEF Fresh, e, f
        <3> QED
            BY <3>1 DEF Pending, Absent
    <2>5. Awaited(r)'
        BY <1>1, <2>4 DEF Awaited, Unsettled
    <2> QED
        BY <1>0, <1>1, <1>3, <1>4, <2>3, <2>5, AcceptanceKeepsNotices
           DEF Fresh, BatchTaken, SourcesOnly
<1>5. CASE /\ r \in accepted /\ work' = Adopted(work, b, r)
           /\ UNCHANGED <<head, canonical, accepted>>
    <2>1. UNCHANGED active
        BY DEF BatchTaken, SourcesOnly
    <2>2. \A k \in Key : k[1] \in Notice =>
             \/ work'[k] = work[k]
             \/ work[k].state = "pending" /\ k = f
             \/ /\ work[k].state = "pending" /\ k = e
                /\ work'[k] = [work[k] EXCEPT !.state = "owned"]
        BY <1>5, AdoptedNotices
    <2>3. \A p \in Revision : Awaited(p) => Awaited(p)'
        <3> SUFFICES ASSUME NEW p \in Revision, Awaited(p) PROVE Awaited(p)'
            OBVIOUS
        <3>1. {<<"event", p>>, <<"request", p>>} \subseteq Key
            BY NoticeKeys
        <3>2. work'[<<"request", p>>] = work[<<"request", p>>]
            BY <2>2, <3>1 DEF Notice
        <3>3. CASE work'[<<"event", p>>] = work[<<"event", p>>]
            BY <1>1, <3>2, <3>3, SameRows
        <3>4. CASE work'[<<"event", p>>] # work[<<"event", p>>]
            <4>1. p = r /\ work'[e] = [work[e] EXCEPT !.state = "owned"]
                BY <2>2, <3>1, <3>4 DEF Notice
            <4>2. work'[e].state = "owned"
                BY <1>2, <4>1 DEF PreparationInv, WorkOK, Item
            <4> QED
                BY <1>1, <4>1, <4>2 DEF Awaited
        <3> QED
            BY <3>3, <3>4
    <2>4. \A p \in Observation : AwaitedFacts(p) => AwaitedFacts(p)'
        <3> SUFFICES ASSUME NEW p \in Observation, AwaitedFacts(p), p # r PROVE AwaitedFacts(p)'
            BY <1>3
        <3>1. work'[<<"base", p>>] = work[<<"base", p>>]
            BY <2>2, NoticeKeys DEF Notice
        <3> QED
            BY <1>1, <3>1, SameFactsRow
    <2>5. OffersTold' /\ FactsTold'
        BY <1>5, <2>1, <2>3, <2>4, ToldKept DEF NoticeInv
    <2>6. UntoldInv' /\ RequestFollows'
        <3>1. \A k \in Key : k[1] \in Notice =>
                 work'[k] = work[k] \/ (work[k] # Absent /\ work[k].state # "done")
            BY <2>2, AbsentRow
        <3> QED
            BY <1>5, <3>1, RowsStay DEF NoticeInv
    <2> QED
        BY <1>1, <1>5, <2>5, <2>6 DEF NoticeInv, CanonicalNamed
<1> QED
    BY <1>4, <1>5 DEF BatchTaken

LEMMA NoticesPreserved ==
    ASSUME PreparationInv, HeadsNamed, BatchPhases, NoticeInv, [PageNext]_pageBatchVars
    PROVE  NoticeInv'
BY PageCases, CalmKeepsNotices, DeliveryKeepsNotices, RefreshKeepsNotices,
   CanonicalJobKeepsNotices, BatchKeepsNotices, OfferKeepsNotices,
   ObservationKeepsNotices, TakingKeepsNotices DEF Uncalm

LEMMA PhasesAtInit == BatchInit => BatchPhases
BY DEF BatchInit, PipelineInit, BatchPhases, Phase, Unfinished, Absent, Key

LEMMA NoticesAtInit == BatchInit => NoticeInv
<1> SUFFICES ASSUME BatchInit PROVE NoticeInv
    OBVIOUS
<1>1. \A k \in Key : work[k] = Absent
    BY DEF BatchInit, PipelineInit
<1>2. UntoldInv /\ RequestFollows
    BY <1>1, NoticeKeys DEF UntoldInv, RequestFollows
<1>3. CanonicalNamed /\ SessionsTaken
    BY DEF BatchInit, PipelineInit, CanonicalNamed, SessionsTaken
<1>4. OffersTold
    BY DEF BatchInit, PipelineInit, OffersTold
<1>5. FactsTold
    BY PipelineAssumption, RecordAssumption DEF BatchInit, PipelineInit, FactsTold
<1> QED
    BY <1>2, <1>3, <1>4, <1>5 DEF NoticeInv

LEMMA NoticeInvariance == PageSpec => [](PageInv /\ BatchPhases /\ NoticeInv)
<1>1. PageInit => BatchPhases /\ NoticeInv
    BY PhasesAtInit, NoticesAtInit DEF PageInit
<1>2. /\ PageInv /\ BatchPhases /\ NoticeInv /\ [PageNext]_pageBatchVars
      => BatchPhases' /\ NoticeInv'
    BY PhasesPreserved, NoticesPreserved DEF PageInv
<1> QED
    BY <1>1, <1>2, PageInitEstablishes, PageStepPreserves, PTL DEF PageSpec

\* However sources, workers and batches interleave, fail and take rows over from
\* each other: while readers are not served the current revision of an offer, or
\* the canonical revision of a session, some row that leads there is still to be
\* handled or stands as failed, or an unpublished batch holds it.
THEOREM NoticesAreKept == PageSpec => []NoLostNotice
<1>1. ASSUME PageInv, NoticeInv PROVE NoLostNotice
    <2>1. ASSUME NEW o \in Offer, head[o] \in accepted, active.pins[SessionOf[o]] # {},
                 head[o] \notin active.pins[SessionOf[o]]
          PROVE  Awaited(head[o])
        BY <1>1, <2>1 DEF NoticeInv, OffersTold
    <2>2. ASSUME NEW s \in Session, canonical[s] # NoRevision,
                 canonical[s] # active.canonical[s],
                 ~(CanceledSession(s) /\ active.pins[s] = {})
          PROVE  AwaitedFacts(canonical[s])
        <3>1. canonical[s] \in Observation
            BY <1>1, <2>2 DEF PageInv, PreparationInv, RecordsOK
        <3> QED
            BY <1>1, <2>2, <3>1 DEF NoticeInv, FactsTold
    <2> QED
        BY <2>1, <2>2 DEF NoLostNotice, Awaited, AwaitedFacts
<1> QED
    BY <1>1, NoticeInvariance, PTL

---------------------------------------------------------------------------
(* Nothing of a batch is served before the whole batch.                    *)

Served(r) == \E b \in Batch : batches[b].state = "published" /\ r \in batches[b].done

\* A batch holds accepted records of sessions that have facts, and prepares
\* each session from a record that it holds.
TakenInv ==
    \A b \in Batch :
        /\ \A r \in batches[b].done : r \in accepted /\ canonical[SessionAt(r)] # NoRevision
        /\ \A s \in Affected(b) : batches[b].sessions[s] \in batches[b].done

\* The task that made a publication is done: no other will have its id.
Known(id) == id # Import => work[id].state = "done"

ReadersInv ==
    /\ Known(active.id)
    /\ \A w \in Worker :
          /\ Known(worker[w].base)
          /\ /\ worker[w].pc = "ready" /\ worker[w].key[1] = "request"
             /\ worker[w].base = active.id
             => worker[w].pinned = active.canonical[SessionAt(worker[w].key[2])]

PinsAccepted ==
    /\ \A o \in Offer : head[o] \in Observation => head[o] \in accepted
    /\ \A s \in Session : active.pins[s] \cap Observation \subseteq accepted

\* The per-record publisher has nothing to do.
NoSingles ==
    /\ ask["canonical"] = NoAsk
    /\ \A r \in Observation : work[<<"base", r>>].state \in {"absent", "canceled"}

\* The facts that readers are served come from a published batch, and a record
\* that an open batch holds is not served before it, its successors included.
WholeInv ==
    /\ \A s \in Session : active.canonical[s] # NoRevision => Served(active.canonical[s])
    /\ \A s \in Session : canonical[s] \in active.pins[s] => Served(canonical[s])
    /\ \A b \in Batch : \A r \in batches[b].done : Unfinished(b) =>
          /\ Served(canonical[SessionAt(r)]) => Served(r)
          /\ r \in active.pins[SessionAt(r)] => Served(r)

SoloInv == NoSingles /\ TakenInv /\ ReadersInv /\ PinsAccepted /\ WholeInv

AtomicInv == deployment.canonical = {} => SoloInv

---------------------------------------------------------------------------
LEMMA ServedIsAccepted ==
    ASSUME TakenInv, NEW r, Served(r)
    PROVE  r \in accepted
BY DEF TakenInv, Served

LEMMA PublicationIds ==
    ASSUME PreparationInv
    PROVE  /\ active.id \in Key \cup {Import}
           /\ \A w \in Worker : worker[w].base \in Key \cup {Import}
           /\ \A w \in Worker : worker[w] \in Invocation
BY DEF PreparationInv, PublicationOK, Publication, WorkersOK, Invocation

LEMMA KnownStays ==
    ASSUME NEW id \in Key \cup {Import}, Known(id),
           \A k \in Key : work[k].state = "done" => work'[k].state = "done"
    PROVE  Known(id)'
BY DEF Known

\* A step that publishes nothing keeps what readers know.
LEMMA ReadersStay ==
    ASSUME PreparationInv, ReadersInv, UNCHANGED active, CalmWorkers,
           \A k \in Key : work[k].state = "done" => work'[k].state = "done"
    PROVE  ReadersInv'
<1>1. Known(active.id)'
    BY PublicationIds, KnownStays DEF ReadersInv
<1>2. ASSUME NEW w \in Worker PROVE Known(worker[w].base)'
    <2>1. PICK id : id = worker'[w].base
        OBVIOUS
    <2>2. id \in {Import, active.id, worker[w].base}
        BY <2>1 DEF CalmWorkers
    <2>3. id \in Key \cup {Import} /\ Known(id)
        BY <2>2, PublicationIds DEF ReadersInv, Known
    <2>4. Known(id)'
        BY <2>3, KnownStays
    <2> QED
        BY <2>1, <2>4 DEF Known
<1>3. ASSUME NEW w \in Worker, worker'[w].pc = "ready", worker'[w].key[1] = "request",
             worker'[w].base = active'.id
      PROVE  worker'[w].pinned = active'.canonical[SessionAt(worker'[w].key[2])]
    BY <1>3 DEF CalmWorkers, ReadersInv
<1> QED
    BY <1>1, <1>2, <1>3 DEF ReadersInv, Known, SessionAt

\* After a publication nobody has read it.
LEMMA ReadersOutdated ==
    ASSUME PreparationInv, ReadersInv, NEW w \in Worker,
           worker' = [worker EXCEPT ![w] = Idle],
           NEW k \in Key, active'.id = k, work[k].state = "leased", work'[k].state = "done",
           \A j \in Key : work[j].state = "done" => work'[j].state = "done"
    PROVE  ReadersInv'
<1>1. Known(active.id)'
    BY DEF Known
<1>2. ASSUME NEW v \in Worker PROVE worker'[v] = worker[v] \/ worker'[v] = Idle
    BY DEF PreparationInv, WorkersOK
<1>3. Idle.base = Import /\ Idle.pc = "idle"
    BY DEF Idle
<1>4. ASSUME NEW v \in Worker PROVE Known(worker[v].base)'
    <2>1. CASE worker'[v] = Idle
        BY <1>3, <2>1 DEF Known
    <2>2. CASE worker'[v] = worker[v]
        <3>1. worker[v].base \in Key \cup {Import} /\ Known(worker[v].base)
            BY PublicationIds DEF ReadersInv
        <3> QED
            BY <2>2, <3>1 DEF Known
    <2> QED
        BY <1>2, <2>1, <2>2
<1>5. ASSUME NEW v \in Worker, worker'[v].pc = "ready", worker'[v].base = active'.id PROVE FALSE
    <2>1. worker[v].base = k
        BY <1>2, <1>3, <1>5
    <2>2. k # Import
        BY DEF Key, Import
    <2> QED
        BY <2>1, <2>2 DEF ReadersInv, Known
<1> QED
    BY <1>1, <1>4, <1>5 DEF ReadersInv, Known, SessionAt

\* A step that publishes no batch.
LEMMA ServedStays ==
    ASSUME \A b \in Batch : /\ batches'[b].done = batches[b].done
                            /\ batches'[b].state = "published" <=> batches[b].state = "published"
    PROVE  \A r : Served(r)' <=> Served(r)
BY DEF Served

LEMMA CalmKeepsWhole ==
    ASSUME PreparationInv, BatchPhases, deployment.canonical = {}, SoloInv, Calm
    PROVE  SoloInv'
<1> USE DEF SoloInv
<1>1. UNCHANGED <<head, canonical, accepted, active, deployment>>
    BY DEF Calm
<1>2. \A b \in Batch :
         /\ batches'[b].done = batches[b].done /\ batches'[b].sessions = batches[b].sessions
         /\ batches'[b].state = "published" <=> batches[b].state = "published"
         /\ Unfinished(b)' => Unfinished(b) \/ batches[b].done = {}
    BY DEF Calm, CalmBatches, Unfinished, BatchPhases, Phase
<1>3. NoSingles'
    <2>1. ask'["canonical"] = NoAsk
        BY DEF NoSingles, Calm, CalmSources
    <2>2. ASSUME NEW r \in Observation
          PROVE  work'[<<"base", r>>].state \in {"absent", "canceled"}
        <3>1. work'[<<"base", r>>] = work[<<"base", r>>]
            BY NoticeKeys DEF Calm, CalmRows, NoSingles, Owing, Notice
        <3> QED
            BY <3>1 DEF NoSingles
    <2> QED
        BY <2>1, <2>2 DEF NoSingles
<1>4. TakenInv'
    BY <1>1, <1>2 DEF TakenInv, Affected, SessionAt
<1>5. ReadersInv'
    <2>1. \A k \in Key : work[k].state = "done" => work'[k].state = "done"
        BY DEF Calm, CalmRows, Owing
    <2> QED
        BY <1>1, <2>1, ReadersStay DEF Calm
<1>6. PinsAccepted'
    BY <1>1 DEF PinsAccepted
<1>7. WholeInv'
    <2>1. \A r : Served(r)' <=> Served(r)
        BY <1>2, ServedStays
    <2> QED
        BY <1>1, <1>2, <2>1 DEF WholeInv, SessionAt
<1> QED
    BY <1>3, <1>4, <1>5, <1>6, <1>7

\* The rows of a settled task and the rest.
LEMMA DeliveryKeepsWhole ==
    ASSUME PreparationInv, deployment.canonical = {}, SoloInv, NEW w \in Worker,
           DeliverOutbox(w), UNCHANGED batches
    PROVE  SoloInv'
<1> USE DEF SoloInv
<1>1. PICK r \in Revision : Task(w) = <<"event", r>>
    BY TaskIs DEF DeliverOutbox
<1> DEFINE e == <<"event", r>>
           q == <<"request", r>>
<1>2. e \in Key /\ work[e].state = "leased"
    BY <1>1, TaskIs DEF DeliverOutbox
<1>3. \A k \in Key : k = e \/ (k = q /\ work[k] = Absent) \/ work'[k] = work[k]
    <2> DEFINE rows == [work EXCEPT ![e] = Released(work[e], "done")]
    <2>1. work' = Inserted(rows, {q})
        BY <1>1 DEF DeliverOutbox
    <2>2. \A k \in Key : k # e => rows[k] = work[k]
        BY <1>2 DEF PreparationInv, WorkOK
    <2>3. \A k \in Key : work'[k] = IF k \in {q} /\ rows[k] = Absent THEN Pending ELSE rows[k]
        BY <2>1 DEF Inserted
    <2> HIDE DEF rows, e, q
    <2> QED
        BY <2>2, <2>3
<1>4. /\ UNCHANGED <<head, canonical, accepted, active, ask, deployment>>
      /\ worker' = [worker EXCEPT ![w] = Idle]
    BY DEF DeliverOutbox, recordVars
<1>5. NoSingles'
    BY <1>3, <1>4, NoticeKeys DEF NoSingles
<1>6. ReadersInv'
    <2>1. CalmWorkers
        BY <1>4, IdleIsCalm
    <2>2. \A k \in Key : work[k].state = "done" => work'[k].state = "done"
        BY <1>2, <1>3, AbsentRow
    <2> QED
        BY <1>4, <2>1, <2>2, ReadersStay
<1> QED
    BY <1>4, <1>5, <1>6 DEF TakenInv, Affected, Unfinished, PinsAccepted, WholeInv, Served, SessionAt

LEMMA RefreshKeepsWhole ==
    ASSUME PreparationInv, deployment.canonical = {}, SoloInv, NEW w \in Worker,
           RefreshSettled(w)
    PROVE  SoloInv'
<1> USE DEF SoloInv
<1>1. PICK r \in Revision : Task(w) = <<"request", r>>
    BY TaskIs DEF RefreshSettled
<1> DEFINE q == <<"request", r>>
           s == SessionAt(r)
<1>2. q \in Key /\ work[q] \in Item /\ work[q].state = "leased" /\ s \in Session
    BY <1>1, TaskIs, SessionOfRevision DEF RefreshSettled
<1>3. work'[q].state = "done" /\ \A k \in Key \ {q} : work'[k] = work[k]
    BY <1>1, <1>2, SettledRows DEF RefreshSettled
<1>4. /\ UNCHANGED <<head, canonical, accepted, ask, deployment, batches>>
      /\ worker' = [worker EXCEPT ![w] = Idle]
      /\ \/ active.pins[s] = Heads(s) /\ UNCHANGED active
         \/ active' = NextPublication(q, {s})
    BY <1>1 DEF RefreshSettled, Settle, recordVars
<1>5. canonical[s] = active.canonical[s]
    <2>1. canonical[s] = worker[w].pinned /\ worker[w].base = active.id
        BY <1>1 DEF RefreshSettled, RefreshVerdict
    <2>2. worker[w].pc = "ready" /\ worker[w].key = q
        BY <1>1 DEF RefreshSettled, At, Task
    <2> QED
        BY <2>1, <2>2 DEF ReadersInv
<1>6. NoSingles'
    BY <1>3, <1>4, NoticeKeys DEF NoSingles
<1>7. ReadersInv'
    <2>1. \A k \in Key : work[k].state = "done" => work'[k].state = "done"
        BY <1>3
    <2>2. CASE UNCHANGED active
        BY <1>4, <2>1, <2>2, IdleIsCalm, ReadersStay
    <2>3. CASE active' = NextPublication(q, {s})
        <3>1. active'.id = q
            BY <2>3 DEF NextPublication
        <3> HIDE DEF q
        <3> QED
            BY <1>2, <1>3, <1>4, <2>1, <3>1, ReadersOutdated
    <2> QED
        BY <1>4, <2>2, <2>3
<1>8. \A t \in Session :
         /\ \/ active'.pins[t] = {} \/ active'.pins[t] = active.pins[t]
            \/ t = s /\ active'.pins[t] = Heads(s)
         /\ active'.canonical[t] \in {NoRevision, active.canonical[t]}
    <2>1. CASE UNCHANGED active
        BY <2>1
    <2>2. CASE active' = NextPublication(q, {s})
        <3> HIDE DEF q, s
        <3> SUFFICES ASSUME NEW t \in Session
                     PROVE  /\ \/ active'.pins[t] = {} \/ active'.pins[t] = active.pins[t]
                               \/ t = s /\ active'.pins[t] = Heads(s)
                            /\ active'.canonical[t] \in {NoRevision, active.canonical[t]}
            OBVIOUS
        <3>1. \/ active'.pins[t] = {} /\ active'.canonical[t] = NoRevision
              \/ t \in {s} /\ active'.pins[t] = Heads(t) /\ active'.canonical[t] = canonical[t]
              \/ active'.pins[t] = active.pins[t] /\ active'.canonical[t] = active.canonical[t]
            BY <2>2, PublicationSessions
        <3> QED
            BY <1>5, <3>1
    <2> QED
        BY <1>4, <2>1, <2>2
<1>9. PinsAccepted'
    <2>1. Heads(s) \cap Observation \subseteq accepted
        BY DEF Heads, OffersOf, PinsAccepted
    <2> QED
        BY <1>4, <1>8, <2>1 DEF PinsAccepted
<1>10. NoRevision \notin Heads(s)
    BY DEF Heads
<1>11. WholeInv'
    <2>1. \A p : Served(p)' <=> Served(p)
        BY <1>4 DEF Served
    <2>2. \A t \in Session : active'.canonical[t] # NoRevision => Served(active'.canonical[t])
        BY <1>8 DEF WholeInv
    <2>3. ASSUME NEW t \in Session, canonical[t] \in active'.pins[t] PROVE Served(canonical[t])
        BY <1>5, <1>8, <1>10, <2>3 DEF WholeInv
    <2>4. ASSUME NEW b \in Batch, NEW p \in batches[b].done, Unfinished(b),
                 p \in active'.pins[SessionAt(p)]
          PROVE  Served(p)
        <3>1. p \in Revision /\ SessionAt(p) \in Session /\ canonical[SessionAt(p)] # NoRevision
            BY PipelineAssumption, SessionOfRevision DEF PreparationInv, BatchTypeOK, TakenInv
        <3>2. CASE SessionAt(p) = s
            BY <1>5, <1>2, <2>4, <3>1, <3>2 DEF WholeInv
        <3>3. CASE SessionAt(p) # s
            BY <1>8, <2>4, <3>1, <3>3 DEF WholeInv
        <3> QED
            BY <3>2, <3>3
    <2> QED
        BY <1>4, <2>1, <2>2, <2>3, <2>4 DEF WholeInv, Unfinished, SessionAt
<1> QED
    BY <1>4, <1>6, <1>7, <1>9, <1>11 DEF TakenInv, Affected, SessionAt

LEMMA PublicationKeepsWhole ==
    ASSUME PreparationInv, BatchPhases, deployment.canonical = {}, SoloInv,
           NEW w \in Worker, BatchPublished(w)
    PROVE  SoloInv'
<1> USE DEF SoloInv
<1>1. PICK b \in Batch : Task(w) = <<"publish", b>>
    BY TaskIs DEF BatchPublished
<1>2. /\ \A s \in Affected(b) : canonical[s] = batches[b].sessions[s]
      /\ \E S \in SUBSET Session :
            /\ \A s \in S : s \in Affected(b) \/ canonical[s] = active.canonical[s]
            /\ PublishAs(w, S)
    BY <1>1 DEF BatchPublished
<1>3. PICK S \in SUBSET Session :
            /\ \A s \in S : s \in Affected(b) \/ canonical[s] = active.canonical[s]
            /\ PublishAs(w, S)
    BY <1>2
<1> DEFINE q == <<"publish", b>>
<1>4. q \in Key /\ work[q] \in Item /\ work[q].state = "leased"
    BY <1>1, TaskIs DEF BatchPublished
<1>5. /\ UNCHANGED <<head, canonical, accepted, ask, deployment>>
      /\ active' = NextPublication(q, S)
      /\ worker' = [worker EXCEPT ![w] = Idle]
      /\ batches' = [batches EXCEPT ![b].state = "published"]
    BY <1>1, <1>3 DEF PublishAs, recordVars
<1>6. /\ work'[q].state = "done"
      /\ \A k \in Key : k # q =>
            \/ work'[k] = work[k]
            \/ k[1] = "event" /\ work[k].state = "owned"
    <2>1. Released(work[q], "done").state = "done"
        BY <1>4 DEF Released, Item
    <2>2. work'[q] = Released(work[q], "done")
        BY <1>1, <1>3, <1>4 DEF PublishAs
    <2>3. ASSUME NEW k \in Key, k # q, work'[k] # work[k]
          PROVE  k[1] = "event" /\ work[k].state = "owned"
        BY <1>1, <1>3, <2>3 DEF PublishAs
    <2> QED
        BY <2>1, <2>2, <2>3
<1>7. /\ batches[b].state = "sealed" /\ batches'[b].state = "published"
      /\ \A c \in Batch : /\ batches'[c].done = batches[c].done
                          /\ batches'[c].sessions = batches[c].sessions
                          /\ c # b => batches'[c].state = batches[c].state
                          /\ ~Unfinished(c)'
    <2>1. batches[b].state = "sealed"
        BY <1>4 DEF BatchPhases, Phase
    <2>2. /\ batches'[b].state = "published"
          /\ \A c \in Batch : /\ batches'[c].done = batches[c].done
                              /\ batches'[c].sessions = batches[c].sessions
                              /\ c # b => batches'[c].state = batches[c].state
        BY <1>5 DEF PreparationInv, BatchTypeOK
    <2> QED
        BY <2>1, <2>2 DEF BatchPhases, Unfinished
<1>8. /\ \A r : Served(r) => Served(r)'
      /\ \A r \in batches[b].done : Served(r)'
    BY <1>7 DEF Served
<1>9. NoSingles'
    <2>1. ASSUME NEW r \in Observation PROVE work'[<<"base", r>>] = work[<<"base", r>>]
        BY <1>6, NoticeKeys
    <2> QED
        BY <1>5, <2>1 DEF NoSingles
<1>10. ReadersInv'
    <2>1. \A k \in Key : work[k].state = "done" => work'[k].state = "done"
        BY <1>6
    <2>2. active'.id = q
        BY <1>5 DEF NextPublication
    <2> HIDE DEF q
    <2> QED
        BY <1>4, <1>5, <1>6, <2>1, <2>2, ReadersOutdated
<1>11. \A s \in Session :
         /\ active'.pins[s] \in {{}, Heads(s), active.pins[s]}
         /\ active'.pins[s] = active.pins[s] \/ s \in S \/ active'.pins[s] = {}
         /\ \/ active'.canonical[s] \in {NoRevision, active.canonical[s]}
            \/ s \in S /\ active'.canonical[s] = canonical[s]
    BY <1>5, PublicationSessions
<1>12. PinsAccepted'
    <2>1. \A s \in Session : Heads(s) \cap Observation \subseteq accepted
        BY DEF Heads, OffersOf, PinsAccepted
    <2> QED
        BY <1>5, <1>11, <2>1 DEF PinsAccepted
<1>13. \A s \in S : canonical[s] = NoRevision \/ Served(canonical[s])'
    <2> SUFFICES ASSUME NEW s \in S, canonical[s] # NoRevision PROVE Served(canonical[s])'
        OBVIOUS
    <2>1. CASE s \in Affected(b)
        BY <1>2, <1>5, <1>8, <2>1 DEF TakenInv
    <2>2. CASE canonical[s] = active.canonical[s]
        <3>1. Served(canonical[s])
            BY <2>2 DEF WholeInv
        <3>2. PICK p : p = canonical[s] /\ p = canonical'[s]
            BY <1>5
        <3>3. Served(p)'
            BY <1>8, <3>1, <3>2
        <3> QED
            BY <1>5, <3>2, <3>3 DEF Served
    <2> QED
        BY <1>3, <2>1, <2>2
<1>14. WholeInv'
    <2>1. ASSUME NEW s \in Session, NEW p, p = active'.canonical[s], p # NoRevision
          PROVE  Served(p)'
        <3>1. CASE p = active.canonical[s]
            BY <1>8, <2>1, <3>1 DEF WholeInv
        <3>2. CASE s \in S /\ p = canonical[s]
            BY <1>5, <1>13, <2>1, <3>2 DEF Served
        <3> QED
            BY <1>11, <2>1, <3>1, <3>2
    <2>2. ASSUME NEW s \in Session, NEW p, p = canonical[s], p \in active'.pins[s]
          PROVE  Served(p)'
        <3>1. CASE s \in S
            <4>1. p # NoRevision
                <5>1. active.pins[s] \subseteq Revision /\ NoRevision \notin Heads(s)
                    BY DEF PreparationInv, PublicationOK, Publication, Heads
                <5> QED
                    BY <1>11, <2>2, <5>1, RecordAssumption
            <4> QED
                BY <1>5, <1>13, <2>2, <3>1, <4>1 DEF Served
        <3>2. CASE s \notin S
            BY <1>8, <1>11, <2>2, <3>2 DEF WholeInv
        <3> QED
            BY <3>1, <3>2
    <2> QED
        BY <1>5, <1>7, <2>1, <2>2 DEF WholeInv, Served
<1>15. TakenInv'
    BY <1>5, <1>7 DEF TakenInv, Affected, SessionAt
<1> QED
    BY <1>9, <1>10, <1>12, <1>14, <1>15

LEMMA OfferKeepsWhole ==
    ASSUME PreparationInv, deployment.canonical = {}, SoloInv, NEW r \in Revision,
           OfferTaken(r)
    PROVE  SoloInv'
<1> USE DEF SoloInv
<1>1. /\ UNCHANGED <<canonical, active, worker, batches, deployment>>
      /\ head' = [head EXCEPT ![r.offer] = r] /\ accepted' = accepted \cup {r}
    BY DEF OfferTaken, SourcesOnly
<1>2. \A k \in Key : \/ work'[k] = work[k]
                     \/ work[k] = Absent /\ k[1] # "base"
    BY DEF OfferTaken, Inserted, NoticeOf
<1>3. NoSingles'
    <2>1. ask'["canonical"] = NoAsk
        BY DEF NoSingles, OfferTaken, SourcesOnly, CalmSources
    <2>2. ASSUME NEW p \in Observation PROVE work'[<<"base", p>>] = work[<<"base", p>>]
        BY <1>2, NoticeKeys
    <2> QED
        BY <2>1, <2>2 DEF NoSingles
<1>4. ReadersInv'
    <2>1. \A k \in Key : work[k].state = "done" => work'[k].state = "done"
        BY <1>2, AbsentRow
    <2>2. CalmWorkers
        BY <1>1 DEF CalmWorkers
    <2> QED
        BY <1>1, <2>1, <2>2, ReadersStay
<1>5. PinsAccepted'
    BY <1>1 DEF PinsAccepted, PreparationInv, RecordsOK
<1>6. TakenInv'
    BY <1>1 DEF TakenInv, Affected, SessionAt
<1>7. WholeInv'
    BY <1>1 DEF WholeInv, Served, Unfinished, SessionAt
<1> QED
    BY <1>3, <1>4, <1>5, <1>6, <1>7

\* What an acceptance by a batch does to the rows, of a new record or an old.
LEMMA TakenRows ==
    ASSUME PreparationInv, UntoldInv, NoSingles, NEW b \in Batch, NEW r \in Observation,
           BatchTaken(b, r)
    PROVE  /\ \A k \in Key : work[k].state = "done" => work'[k].state = "done"
           /\ \A p \in Observation : work'[<<"base", p>>].state \in {"absent", "canceled"}
<1>1. PICK rows : rows \in {work, NoticeAndBase(r)} /\ work' = Adopted(rows, b, r)
    BY DEF BatchTaken, Fresh
<1>2. \A k \in Key : rows[k] = work[k] \/ (rows[k] = Pending /\ work[k] = Absent)
    BY <1>1 DEF NoticeAndBase, Inserted
<1>3. ASSUME NEW p \in Observation, p # r PROVE rows[<<"base", p>>] = work[<<"base", p>>]
    <2>1. PICK k \in Key : k = <<"base", p>>
        BY NoticeKeys
    <2>2. k \notin NoticeOf(r) \cup {<<"base", r>>}
        BY <1>3, <2>1 DEF NoticeOf
    <2>3. rows[k] = work[k]
        BY <1>1, <2>2 DEF NoticeAndBase, Inserted
    <2> QED
        BY <2>1, <2>3
<1>4. ASSUME NEW k \in Key, work[k].state = "done" PROVE work'[k].state = "done"
    <2>1. rows[k] = work[k]
        BY <1>2, <1>4, AbsentRow
    <2>2. work'[k] = rows[k]
        BY <1>1, <1>4, <2>1, AbsentRow DEF Adopted
    <2> QED
        BY <1>4, <2>1, <2>2
<1>5. ASSUME NEW p \in Observation PROVE work'[<<"base", p>>].state \in {"absent", "canceled"}
    <2>1. PICK k \in Key : k = <<"base", p>>
        BY NoticeKeys
    <2>2. k # ItemOf(b, r) /\ k # <<"event", r>>
        BY <2>1 DEF ItemOf
    <2>3. work[k].state \in {"absent", "canceled"}
        BY <2>1 DEF NoSingles
    <2>4. CASE p # r
        <3>1. rows[k] = work[k] /\ k # <<"base", r>>
            BY <1>3, <2>1, <2>4
        <3>2. work'[k] = rows[k]
            BY <1>1, <2>2, <3>1 DEF Adopted
        <3> QED
            BY <2>1, <2>3, <3>1, <3>2
    <2>5. CASE p = r
        <3>1. work'[k] = IF rows[k].state = "pending" THEN [rows[k] EXCEPT !.state = "canceled"]
                         ELSE rows[k]
            BY <1>1, <2>1, <2>2, <2>5 DEF Adopted
        <3>2. CASE rows[k] = Pending
            BY <2>1, <3>1, <3>2 DEF Pending, Absent
        <3>3. CASE rows[k] = work[k]
            BY <2>1, <2>3, <3>1, <3>3
        <3> QED
            BY <1>2, <3>2, <3>3
    <2> QED
        BY <2>4, <2>5
<1> QED
    BY <1>4, <1>5

LEMMA TakingKeepsWhole ==
    ASSUME PreparationInv, UntoldInv, deployment.canonical = {}, SoloInv,
           NEW b \in Batch, NEW r \in Observation, BatchTaken(b, r)
    PROVE  SoloInv'
<1> USE DEF SoloInv
<1>1. r \in Revision /\ r # NoRevision /\ SessionAt(r) \in Session
    BY PipelineAssumption, SessionOfRevision, RecordAssumption
<1>2. UNCHANGED <<active, worker, deployment>>
    BY DEF BatchTaken, SourcesOnly
<1>3. /\ batches[b].state = "collecting"
      /\ batches'[b].done = batches[b].done \cup {r}
      /\ batches'[b].state = batches[b].state
      /\ batches'[b].sessions = [batches[b].sessions EXCEPT ![SessionAt(r)] = r]
      /\ \A c \in Batch \ {b} : batches'[c] = batches[c]
    BY DEF BatchTaken, TakeAccepted, PreparationInv, BatchTypeOK
<1>4. /\ accepted \subseteq accepted' /\ r \in accepted' /\ canonical'[SessionAt(r)] = r
      /\ \A s \in Session : \/ canonical'[s] = canonical[s]
                            \/ s = SessionAt(r) /\ r \notin accepted
      /\ \A o \in Offer : head'[o] = head[o] \/ head'[o] = r
    BY <1>1 DEF BatchTaken, Fresh, PreparationInv, RecordsOK
<1>5. \A p : Served(p)' <=> Served(p)
    BY <1>3 DEF Served
<1>6. NoSingles'
    <2>1. ask'["canonical"] = NoAsk
        BY DEF NoSingles, BatchTaken, SourcesOnly, CalmSources
    <2> QED
        BY <2>1, TakenRows DEF NoSingles
<1>7. ReadersInv'
    <2>1. CalmWorkers
        BY <1>2 DEF CalmWorkers
    <2> QED
        BY <1>2, <2>1, TakenRows, ReadersStay
<1>8. PinsAccepted'
    BY <1>2, <1>4 DEF PinsAccepted
<1>9. TakenInv'
    <2>1. ASSUME NEW c \in Batch, NEW p \in batches'[c].done
          PROVE  p \in accepted' /\ canonical'[SessionAt(p)] # NoRevision
        <3>1. CASE p = r
            BY <1>1, <1>4, <3>1
        <3>2. CASE p # r
            <4>1. p \in batches[c].done
                BY <1>3, <2>1, <3>2
            <4>2. p \in accepted /\ canonical[SessionAt(p)] # NoRevision
                BY <4>1 DEF TakenInv
            <4>3. SessionAt(p) \in Session
                BY <4>2, SessionOfRevision DEF PreparationInv, RecordsOK
            <4> QED
                BY <1>1, <1>4, <4>2, <4>3
        <3> QED
            BY <3>1, <3>2
    <2>2. ASSUME NEW c \in Batch, NEW s \in Session, batches'[c].sessions[s] # NoRevision
          PROVE  batches'[c].sessions[s] \in batches'[c].done
        <3>1. CASE c = b
            <4>1. batches[b].sessions \in [Session -> Observation \cup {NoRevision}]
                BY DEF PreparationInv, BatchTypeOK
            <4> QED
                BY <1>1, <1>3, <2>2, <3>1, <4>1 DEF TakenInv, Affected
        <3>2. CASE c # b
            BY <1>3, <2>2, <3>2 DEF TakenInv, Affected
        <3> QED
            BY <3>1, <3>2
    <2> QED
        BY <2>1, <2>2 DEF TakenInv, Affected, SessionAt
<1>10. r \in accepted \/ (\A s \in Session : r \notin active.pins[s])
    BY DEF PinsAccepted
<1>11. WholeInv'
    <2>1. ASSUME NEW s \in Session, NEW p, p = canonical'[s], p \in active.pins[s]
          PROVE  Served(p)
        BY <1>4, <1>10, <2>1 DEF WholeInv
    <2>2. ASSUME NEW c \in Batch, NEW p \in batches'[c].done, Unfinished(c)'
          PROVE  /\ p \in active.pins[SessionAt(p)] => Served(p)
                 /\ Served(canonical'[SessionAt(p)]) => Served(p)
        <3>1. p = r \/ (p \in batches[c].done /\ Unfinished(c))
            BY <1>3, <2>2 DEF Unfinished
        <3>2. CASE p = r
            BY <1>1, <1>4, <2>1, <3>2
        <3>3. CASE p \in batches[c].done /\ Unfinished(c)
            <4>1. SessionAt(p) \in Session
                BY <3>3, SessionOfRevision DEF TakenInv, PreparationInv, RecordsOK
            <4>2. Served(canonical'[SessionAt(p)]) =>
                     canonical'[SessionAt(p)] = canonical[SessionAt(p)]
                BY <1>4, <4>1, ServedIsAccepted
            <4> QED
                BY <3>3, <4>2 DEF WholeInv
        <3> QED
            BY <3>1, <3>2, <3>3
    <2>3. ASSUME NEW c \in Batch, NEW p \in batches'[c].done, NEW q,
                 Unfinished(c)', q = canonical'[SessionAt(p)], Served(q)'
          PROVE  Served(p)'
        BY <1>5, <2>2, <2>3
    <2> QED
        BY <1>2, <1>5, <2>1, <2>2, <2>3 DEF WholeInv, SessionAt
<1> QED
    BY <1>6, <1>7, <1>8, <1>9, <1>11

LEMMA AtomicPreserved ==
    ASSUME PreparationInv, HeadsNamed, BatchPhases, NoticeInv, AtomicInv,
           [PageNext]_pageBatchVars
    PROVE  AtomicInv'
<1> SUFFICES ASSUME deployment'.canonical = {} PROVE SoloInv'
    BY DEF AtomicInv
<1>1. UntoldInv
    BY DEF NoticeInv
<1>2. UNCHANGED deployment
    BY PageCases DEF Calm, Uncalm, SourcesOnly, OfferTaken, ObservationTaken, BatchTaken,
       DeliverOutbox, RefreshSettled, CanonicalSettled, BatchPublished, Settle, PublishAs
<1>3. deployment.canonical = {} /\ SoloInv
    BY <1>2 DEF AtomicInv
<1>4. ASSUME NEW w \in Worker, CanonicalSettled(w) PROVE FALSE
    <2>1. PICK r \in Observation : Task(w) = <<"base", r>> /\ work[Task(w)].state = "leased"
        BY <1>4, TaskIs DEF CanonicalSettled
    <2> QED
        BY <1>3, <2>1 DEF SoloInv, NoSingles
<1>5. ASSUME NEW r \in Observation, ObservationTaken(r) PROVE FALSE
    BY <1>3, <1>5 DEF SoloInv, NoSingles, ObservationTaken
<1> QED
    BY <1>1, <1>3, <1>4, <1>5, PageCases, CalmKeepsWhole, DeliveryKeepsWhole,
       RefreshKeepsWhole, PublicationKeepsWhole, OfferKeepsWhole, TakingKeepsWhole DEF Uncalm

LEMMA AtomicAtInit == BatchInit => AtomicInv
<1> SUFFICES ASSUME BatchInit PROVE SoloInv
    BY DEF AtomicInv
<1>1. NoSingles
    BY AbsentRow, NoticeKeys DEF BatchInit, PipelineInit, NoSingles, Channel
<1>2. TakenInv
    BY DEF BatchInit, PipelineInit, TakenInv, Affected
<1>3. ReadersInv
    BY DEF BatchInit, PipelineInit, ReadersInv, Known, Idle
<1>4. \A o \in Offer : head[o] \notin Observation
    BY PipelineAssumption, RecordAssumption DEF BatchInit, PipelineInit
<1>5. PinsAccepted
    BY <1>4 DEF BatchInit, PipelineInit, PinsAccepted, Heads, OffersOf
<1>6. WholeInv
    <2>1. \A s \in Session : canonical[s] = NoRevision /\ active.canonical[s] = NoRevision
        BY DEF BatchInit, PipelineInit
    <2>2. \A s \in Session : NoRevision \notin active.pins[s]
        BY DEF BatchInit, PipelineInit, Heads
    <2>3. \A b \in Batch : batches[b].done = {}
        BY DEF BatchInit
    <2> QED
        BY <2>1, <2>2, <2>3 DEF WholeInv
<1> QED
    BY <1>1, <1>2, <1>3, <1>5, <1>6 DEF SoloInv

\* Where batches are the only source of facts, a reader meets a record of a batch
\* only once that batch, or an earlier one of the same record, is published as a
\* whole, whatever refreshes, replays and failures come in between.
THEOREM BatchesAppearWhole == PageSpec => []BatchAtomic
<1>1. PageInit => AtomicInv
    BY AtomicAtInit DEF PageInit
<1>2. /\ PageInv /\ BatchPhases /\ NoticeInv /\ AtomicInv /\ [PageNext]_pageBatchVars
      => AtomicInv'
    BY AtomicPreserved DEF PageInv
<1>3. AtomicInv => BatchAtomic
    BY DEF AtomicInv, SoloInv, WholeInv, BatchAtomic, Served
<1> QED
    BY <1>1, <1>2, <1>3, NoticeInvariance, PTL DEF PageSpec
=============================================================================
