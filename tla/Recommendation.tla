---------------------------- MODULE Recommendation ----------------------------
(***************************************************************************)
(* One recommendation request from its arrival to its answer:              *)
(* web/app/api/recommend/route.ts, web/lib/recommend.ts, and the reading   *)
(* of the catalog, which is either the snapshot of web/lib/store.gcp.ts or *)
(* a publication pinned by web/lib/pipeline-catalog.node.ts.  Admission is *)
(* that of RequestLimits.                                                  *)
(*                                                                         *)
(* Requests of one instance share its cache of catalogs and the loads that *)
(* are under way.  Meanwhile catalogs are published, and sources change    *)
(* or withhold the sessions of the catalog that a request has pinned.      *)
(***************************************************************************)
EXTENDS RequestLimits, Sequences

CONSTANTS Session, Plan,
          Supported(_, _),     \* Supported(plan, s): the facts of s support the plan
          Searchable(_),       \* the plan passes validateSearchPlan
          OnMood(_),           \* the plan has preferences only a ranking can judge
          Until,               \* Until[s]: the last tick at which s can be offered
          CacheSize,           \* catalogs a snapshot store keeps
          MaxCatalogs, MaxRevision, MaxChanges, MaxFailures,
          None

ASSUME RecommendationAssumption ==
  /\ Until \in [Session -> Nat]
  /\ {CacheSize, MaxChanges, MaxFailures} \subseteq Nat
  /\ {MaxCatalogs, MaxRevision} \subseteq Nat \ {0}
  /\ None \notin Request \cup {"ready"} /\ "ready" \notin Request
  /\ \A plan \in Plan : /\ Searchable(plan) \in BOOLEAN /\ OnMood(plan) \in BOOLEAN
                        /\ \A s \in Session : Supported(plan, s) \in BOOLEAN

VARIABLES backend,      \* "snapshots" or "pipeline"
          head,         \* head[s]: the current revision of the source of s
          withheld,     \* sessions whose source was not confirmed since
          catalogs,     \* the catalogs published so far; the last one is live
          changes,
          failures,     \* loads that failed
          stage,        \* stage[r]: the place in the code behind pc[r]
          now,          \* now[r]: the time the request measures with
          first,        \* history: the catalog that was live when r arrived
          catalog,      \* catalog[r]: the catalog r is pinned to or reads
          usable,       \* usable[r]: what the last availability check found
          found,        \* found[r]: candidates, then the shortlist, then the cards
          plan,         \* plan[r]
          mode,         \* mode[r]: "jev" if the ranking judged the cards
          shared,       \* shared[c]: what a reader of catalog c finds: nothing, the
                        \* load of a request, or the content
          flight,       \* flight[r]: the catalog that the load of r fetches, or 0
          joined,       \* joined[r]: the request whose load r awaits
          current       \* history: sessions usable at some time since the ranking

catalogVars == <<head, withheld, catalogs, changes, failures>>
cacheVars == <<shared, flight, joined>>
requestVars == <<stage, now, first, catalog, usable, found, plan, mode>>
allVars == <<vars, backend, catalogVars, cacheVars, requestVars, current>>

CatalogId == 1 .. MaxCatalogs
Stage == {"pin", "availability", "status", "assess", "interpret", "recheck",
          "candidates", "project", "vectors", "rank", "finalize",
          "explain", "explained", "answered"}

(* A catalog: the sessions it offers, with the revisions of their sources, *)
(* and when it was made.                                                   *)
Publication ==
  [revision : UNION {[sessions -> 1 .. MaxRevision] : sessions \in SUBSET Session}, since : 0 .. MaxTime]
Live == Len(catalogs)
Content(c) == DOMAIN catalogs[c].revision

(* isEligible for the filters nobody set: not started, checked recently.   *)
Eligible(s, time) == time <= Until[s]

(* PIPELINE_CURRENT_STATUS_SQL and revalidate: what catalog c offers and   *)
(* its sources still say at a time.                                        *)
UsableIn(c, time) ==
  {s \in Content(c) \ withheld : head[s] = catalogs[c].revision[s] /\ Eligible(s, time)}

RecommendationTypeOK ==
  /\ TypeOK
  /\ backend \in {"snapshots", "pipeline"}
  /\ head \in [Session -> 1 .. MaxRevision] /\ withheld \subseteq Session
  /\ catalogs \in Seq(Publication) /\ Live \in CatalogId
  /\ changes \in 0 .. MaxChanges /\ failures \in 0 .. MaxFailures
  /\ stage \in [Request -> Stage] /\ now \in [Request -> 0 .. MaxTime]
  /\ first \in [Request -> 0 .. MaxCatalogs] /\ catalog \in [Request -> 0 .. MaxCatalogs]
  /\ usable \in [Request -> SUBSET Session] /\ found \in [Request -> SUBSET Session]
  /\ plan \in [Request -> Plan \cup {None}] /\ mode \in [Request -> {"filters", "jev"}]
  /\ shared \in [CatalogId -> Request \cup {None, "ready"}]
  /\ flight \in [Request -> 0 .. MaxCatalogs]
  /\ joined \in [Request -> Request \cup {None}]
  /\ current \in [Request -> SUBSET Session]

(* The sources as a catalog published at a time gives them.                *)
Snapshot(sessions, revisions, time) ==
  [revision |-> [s \in sessions |-> revisions[s]], since |-> time]

RecommendationInit ==
  /\ Init
  /\ backend \in {"snapshots", "pipeline"}
  /\ head = [s \in Session |-> 1] /\ withheld = {}
  /\ catalogs = <<Snapshot(Session, [s \in Session |-> 1], 0)>> /\ changes = 0 /\ failures = 0
  /\ stage = [r \in Request |-> "pin"] /\ now = [r \in Request |-> 0]
  /\ first = [r \in Request |-> 0] /\ catalog = [r \in Request |-> 0]
  /\ usable = [r \in Request |-> {}] /\ found = [r \in Request |-> {}]
  /\ plan = [r \in Request |-> None] /\ mode = [r \in Request |-> "filters"]
  /\ shared = [c \in CatalogId |-> None] /\ flight = [r \in Request |-> 0]
  /\ joined = [r \in Request |-> None]
  /\ current = [r \in Request |-> {}]

-----------------------------------------------------------------------------
(* The world around a request.                                             *)

(* What was usable for the requests that are about to revalidate.          *)
Observed ==
  current' = [r \in Request |->
    IF pc[r] = "admitted" /\ stage[r] = "finalize"
    THEN current[r] \cup {s \in Content(catalog[r]) \ withheld' :
                            head'[s] = catalogs[catalog[r]].revision[s] /\ Eligible(s, clock')}
    ELSE current[r]]

(* A source is observed anew: it cannot be confirmed, or it states a newer *)
(* revision or the current one again.                                      *)
ChangeSource ==
  /\ changes < MaxChanges /\ changes' = changes + 1
  /\ \E s \in Session :
       \/ withheld' = withheld \cup {s} /\ UNCHANGED head
       \/ \E revision \in head[s] .. MaxRevision :
            head' = [head EXCEPT ![s] = revision] /\ withheld' = withheld \ {s}
  /\ UNCHANGED <<vars, backend, catalogs, failures, requestVars, cacheVars>>
  /\ Observed

Publish ==
  /\ Live < MaxCatalogs
  /\ catalogs' = Append(catalogs, Snapshot(Session \ withheld, head, clock))
  /\ UNCHANGED <<vars, backend, head, withheld, changes, failures, requestVars, cacheVars, current>>

Pass ==
  /\ Tick
  /\ UNCHANGED <<backend, catalogVars, requestVars, cacheVars>>
  /\ Observed

-----------------------------------------------------------------------------
(* Reading a catalog through the cache of the instance.                    *)

GotoStage(r, next) == stage' = [stage EXCEPT ![r] = next]

(* The stages that read a catalog, and what follows.  The vectors of a     *)
(* snapshot have an object of their own (VectorIndex).                     *)
Reads == {"status", "candidates", "vectors", "explain"}
AfterRead(s) ==
  CASE s = "status" -> "assess" [] s = "candidates" -> "project"
    [] s = "vectors" -> "rank" [] s = "explain" -> "explained"

(* A failed read fails the request, unless only the ranking is the worse.  *)
ReadIsVital(r) == stage[r] # "vectors"

InRead(r) == pc[r] \in {"catalog", "admitted"} /\ stage[r] \in Reads

(* A pinned request reads what it has pinned, another one what is live.    *)
Wanted(r) == IF backend = "pipeline" THEN catalog[r] ELSE Live

(* The single slot of a publication cache, or the map of searchLoads.      *)
StartLoad(r, c) ==
  shared' = IF backend = "pipeline" THEN [x \in CatalogId |-> IF x = c THEN r ELSE None]
            ELSE [shared EXCEPT ![c] = r]

(* The catalog whose entry a reader takes: the one it asked for.           *)
FoundAt(c) == c
FoundInSlot(c) == IF \E x \in CatalogId : shared[x] # None THEN CHOOSE x \in CatalogId : shared[x] # None ELSE c
EntryOf(c) == FoundAt(c)

Read(r) ==
  /\ InRead(r) /\ joined[r] = None
  /\ LET c == EntryOf(Wanted(r)) IN
     /\ catalog' = [catalog EXCEPT ![r] = c]
     /\ \/ /\ shared[c] = "ready"
           /\ GotoStage(r, AfterRead(stage[r]))
           /\ UNCHANGED cacheVars
        \/ /\ shared[c] \in Request
           /\ joined' = [joined EXCEPT ![r] = shared[c]]
           /\ UNCHANGED <<stage, shared, flight>>
        \/ /\ shared[c] = None
           /\ StartLoad(r, c)
           /\ flight' = [flight EXCEPT ![r] = c]
           /\ joined' = [joined EXCEPT ![r] = r]
           /\ UNCHANGED stage
  /\ UNCHANGED <<vars, backend, catalogVars, now, first, usable, found, plan, mode, current>>

(* The load of r ends and everybody who awaits it goes on.                 *)
Deliver(r) ==
  /\ flight' = [flight EXCEPT ![r] = 0]
  /\ joined' = [q \in Request |-> IF joined[q] = r THEN None ELSE joined[q]]

(* A replaced publication is not put back; the map of snapshots is emptied *)
(* before it grows too large.                                              *)
Keep(r) ==
  LET c == flight[r]
      full == Cardinality({x \in CatalogId : shared[x] = "ready"}) >= CacheSize
  IN  IF backend = "pipeline"
      THEN IF shared[c] = r THEN [shared EXCEPT ![c] = "ready"] ELSE shared
      ELSE [x \in CatalogId |-> IF x = c THEN "ready"
                                ELSE IF full /\ shared[x] = "ready" THEN None ELSE shared[x]]

LoadSucceeds(r) ==
  /\ flight[r] # 0
  /\ Deliver(r)
  /\ shared' = Keep(r)
  /\ stage' = [q \in Request |-> IF joined[q] = r THEN AfterRead(stage[q]) ELSE stage[q]]
  /\ UNCHANGED <<vars, backend, catalogVars, now, first, catalog, usable, found, plan, mode, current>>

(* A load that failed is forgotten, so that the next reader tries again.   *)
Forget(r) == [shared EXCEPT ![flight[r]] = None]
ForgetNothing(r) == shared
Forgotten(r) == Forget(r)

LoadFails(r) ==
  /\ flight[r] # 0
  /\ failures < MaxFailures /\ failures' = failures + 1
  /\ Deliver(r)
  /\ shared' = Forgotten(r)
  /\ LET lost == {q \in Request : joined[q] = r /\ ReadIsVital(q)} IN
       IF lost = {} THEN UNCHANGED vars ELSE Abandon(lost)
  /\ stage' = [q \in Request |-> IF joined[q] = r THEN AfterRead(stage[q]) ELSE stage[q]]
  /\ UNCHANGED <<backend, head, withheld, catalogs, changes, now, first, catalog, usable, found, plan, mode, current>>

-----------------------------------------------------------------------------
(* The steps of a request.                                                 *)

Answer(r, cards) == found' = [found EXCEPT ![r] = cards] /\ GotoStage(r, "answered")

Admit(r) ==
  /\ \/ Arrive(r) /\ first' = [first EXCEPT ![r] = Live]
     \/ (Take(r) \/ Refuse(r)) /\ UNCHANGED first
  /\ UNCHANGED <<backend, catalogVars, cacheVars, stage, now, catalog, usable, found, plan, mode, current>>

PinCatalog(r) ==
  /\ pc[r] = "catalog" /\ stage[r] = "pin"
  /\ now' = [now EXCEPT ![r] = clock]
  /\ \/ /\ backend = "pipeline"
        /\ catalog' = [catalog EXCEPT ![r] = Live]
        /\ GotoStage(r, "availability")
     \/ /\ backend = "snapshots"
        /\ GotoStage(r, "status") /\ UNCHANGED catalog
  /\ UNCHANGED <<vars, backend, catalogVars, cacheVars, first, usable, found, plan, mode, current>>

(* A unit of the day is asked for if the catalog has something to offer.   *)
AskDaily(r) ==
  /\ CheckCatalog(r) /\ pc'[r] = "daily"
  /\ GotoStage(r, "interpret")

CheckAvailability(r) ==
  /\ pc[r] = "catalog" /\ stage[r] = "availability"
  /\ usable' = [usable EXCEPT ![r] = UsableIn(catalog[r], now[r])]
  /\ IF usable'[r] # {} THEN AskDaily(r) ELSE GotoStage(r, "explain") /\ UNCHANGED vars
  /\ UNCHANGED <<backend, catalogVars, cacheVars, now, first, catalog, found, plan, mode, current>>

(* catalogStatus of a snapshot throws for a catalog made after "now".      *)
Assess(r) ==
  /\ pc[r] = "catalog" /\ stage[r] = "assess"
  /\ IF /\ catalogs[catalog[r]].since <= now[r]
        /\ \E s \in Content(catalog[r]) : Eligible(s, now[r])
     THEN AskDaily(r)
     ELSE CheckCatalog(r) /\ pc'[r] = "refused" /\ UNCHANGED stage
  /\ UNCHANGED <<backend, catalogVars, cacheVars, now, first, catalog, usable, found, plan, mode, current>>

(* The interpreter understands a plan, or the answer is a question.        *)
Interpret(r) ==
  /\ pc[r] = "admitted" /\ stage[r] = "interpret"
  /\ \/ \E p \in Plan :
          /\ Searchable(p)
          /\ plan' = [plan EXCEPT ![r] = p]
          /\ GotoStage(r, IF backend = "pipeline" THEN "recheck" ELSE "candidates")
          /\ UNCHANGED found
     \/ Answer(r, {}) /\ UNCHANGED plan
  /\ UNCHANGED <<vars, backend, catalogVars, cacheVars, now, first, catalog, usable, mode, current>>

Recheck(r) ==
  /\ pc[r] = "admitted" /\ stage[r] = "recheck"
  /\ usable' = [usable EXCEPT ![r] = UsableIn(catalog[r], now[r])]
  /\ GotoStage(r, IF usable'[r] # {} THEN "candidates" ELSE "explain")
  /\ UNCHANGED <<vars, backend, catalogVars, cacheVars, now, first, catalog, found, plan, mode, current>>

(* The status of an unavailable catalog was read, for the message of the   *)
(* route's refusal or of an answer without cards.                          *)
Explain(r) ==
  /\ stage[r] = "explained"
  /\ \/ pc[r] = "catalog" /\ CheckCatalog(r) /\ pc'[r] = "refused" /\ UNCHANGED <<stage, found>>
     \/ pc[r] = "admitted" /\ Answer(r, {}) /\ UNCHANGED vars
  /\ UNCHANGED <<backend, catalogVars, cacheVars, now, first, catalog, usable, plan, mode, current>>

(* Candidates, hard conditions and the evidence for them; what the wishes  *)
(* and earlier answers exclude may leave nothing.  Nothing looks at the    *)
(* availability or at "now" again.                                         *)
Candidates(r) ==
  IF backend = "pipeline" THEN usable[r] \cap Content(catalog[r])
  ELSE {s \in Content(catalog[r]) : Eligible(s, clock)}

Project(r) ==
  /\ pc[r] = "admitted" /\ stage[r] = "project"
  /\ LET proven == {s \in Candidates(r) : Eligible(s, now[r]) /\ Supported(plan[r], s)} IN
     \/ Answer(r, {})
     \/ /\ proven # {}
        /\ found' = [found EXCEPT ![r] = proven]
        /\ GotoStage(r, IF backend = "pipeline" THEN "vectors" ELSE "rank")
  /\ usable' = [usable EXCEPT ![r] = {}] /\ now' = [now EXCEPT ![r] = 0]
  /\ UNCHANGED <<vars, backend, catalogVars, cacheVars, first, catalog, plan, mode, current>>

(* selectJevEvents: a ranker may name anything and vouch for anything.     *)
SelectKnown(shortlist, judged) == shortlist \cap judged
SelectJudged(shortlist, judged) == judged
SelectJevEvents(shortlist, judged) == SelectKnown(shortlist, judged)

(* Without a ranking the basic order is shown, unless the wishes are such  *)
(* that only a ranking can tell whether an event fits.                     *)
Fallback(p, shortlist) == IF OnMood(p) THEN {} ELSE shortlist

AfterRanking(r, cards, how) ==
  /\ found' = [found EXCEPT ![r] = cards]
  /\ mode' = [mode EXCEPT ![r] = how]
  /\ GotoStage(r, IF backend = "pipeline" THEN "finalize" ELSE "answered")

Rank(r) ==
  /\ pc[r] = "admitted" /\ stage[r] = "rank"
  /\ \E shortlist \in SUBSET found[r] \ {{}} :
       \/ \E judged \in SUBSET Session : AfterRanking(r, SelectJevEvents(shortlist, judged), "jev")
       \/ AfterRanking(r, Fallback(plan[r], shortlist), "filters")
  /\ current' = [current EXCEPT ![r] = IF backend = "pipeline" THEN UsableIn(catalog[r], clock) ELSE {}]
  /\ UNCHANGED <<vars, backend, catalogVars, cacheVars, now, first, catalog, usable, plan>>

(* Only what a fresh look at the sources confirms is shown.                *)
Revalidated(r) == found[r] \cap UsableIn(catalog[r], clock)
NotRevalidated(r) == found[r]
Confirmed(r) == Revalidated(r)

Finalize(r) ==
  /\ pc[r] = "admitted" /\ stage[r] = "finalize"
  /\ Answer(r, Confirmed(r))
  /\ UNCHANGED <<vars, backend, catalogVars, cacheVars, now, first, catalog, usable, plan, mode, current>>

(* The budget of the whole request ends, or it throws outside the places   *)
(* that have a fallback.  What it knew is gone; a load it began goes on.   *)
Abort(r) ==
  /\ stage[r] # "answered"
  /\ Abandon({r})
  /\ joined' = [joined EXCEPT ![r] = None]
  /\ GotoStage(r, "pin")
  /\ now' = [now EXCEPT ![r] = 0]
  /\ first' = [first EXCEPT ![r] = 0]
  /\ catalog' = [catalog EXCEPT ![r] = 0]
  /\ usable' = [usable EXCEPT ![r] = {}]
  /\ found' = [found EXCEPT ![r] = {}]
  /\ plan' = [plan EXCEPT ![r] = None]
  /\ mode' = [mode EXCEPT ![r] = "filters"]
  /\ current' = [current EXCEPT ![r] = {}]
  /\ UNCHANGED <<backend, catalogVars, shared, flight>>

RequestStep(r) ==
  \/ Admit(r) \/ PinCatalog(r) \/ CheckAvailability(r) \/ Assess(r) \/ Interpret(r)
  \/ Recheck(r) \/ Explain(r) \/ Read(r) \/ Project(r) \/ Rank(r) \/ Finalize(r)
LoadEnds(r) == LoadSucceeds(r) \/ LoadFails(r)

RecommendationNext ==
  \/ ChangeSource \/ Publish \/ Pass
  \/ \E r \in Request : RequestStep(r) \/ LoadEnds(r) \/ Abort(r)

RecommendationSpec == RecommendationInit /\ [][RecommendationNext]_allVars

-----------------------------------------------------------------------------
(* Properties *)

Answered(r) == pc[r] = "admitted" /\ stage[r] = "answered"

(* A card of a pinned catalog was still what its sources said at some time *)
(* after the ranking, whatever they did during the request: a session that *)
(* was withheld or changed before is not shown.                            *)
CardsAreCurrent ==
  \A r \in Request : backend = "pipeline" /\ Answered(r) => found[r] \subseteq current[r]

(* All cards come from one catalog that was live at some time during the   *)
(* request, although other requests of the instance read other catalogs.   *)
CatalogWasLive ==
  \A r \in Request :
    Answered(r) /\ found[r] # {} => /\ found[r] \subseteq Content(catalog[r])
                                    /\ catalog[r] \in first[r] .. Live

(* Whatever interpreter, ranker and fallback do, a card is supported by    *)
(* the plan, and an event that only a ranking can vouch for is not shown   *)
(* without one.                                                            *)
CardsAreProven ==
  \A r \in Request :
    Answered(r) => /\ \A s \in found[r] : Supported(plan[r], s)
                   /\ found[r] # {} /\ OnMood(plan[r]) => mode[r] = "jev"

(* A request that awaits the load of another one awaits a load that is     *)
(* under way: also when loads fail, are replaced in the slot, or were      *)
(* begun by a request that gave up.  Otherwise it would wait for its       *)
(* deadline, and so would everybody who reads that catalog later.          *)
JoinedLoadsRun ==
  \A r \in Request : joined[r] # None => /\ flight[joined[r]] # 0
                                         /\ flight[joined[r]] = catalog[r]
=============================================================================
