--------------------------- MODULE RequestLimits ----------------------------
(***************************************************************************)
(* Admission of a recommendation request: web/lib/rate-limit.ts,           *)
(* requestRateLimit and aiDailyRateLimit of web/lib/store.node.ts, and     *)
(* consumeLimit of web/lib/store.gcp.ts, in the order of the recommend     *)
(* route.  A request takes a unit from each bucket of its visitor, then,   *)
(* when the catalog is ready, one of the day's.  A bucket belongs to a     *)
(* stretch of the clock that is named when the request arrives and used    *)
(* by a transaction that may run later.                                    *)
(***************************************************************************)
EXTENDS Naturals, FiniteSets

CONSTANTS Request, Visitor,
          Minute, Hour, Day,              \* the lengths of the buckets in ticks
          PerMinute, PerHour, PerDay,     \* their limits
          MaxTime, MaxFaults

ASSUME LimitsAssumption ==
  /\ {Minute, Hour, Day} \subseteq Nat \ {0}
  /\ {PerMinute, PerHour, PerDay, MaxTime, MaxFaults} \subseteq Nat

VARIABLES clock,
          counters,     \* counters[b]: the stored count of bucket b
          pc,           \* pc[r]
          visitor,      \* visitor[r]
          named,        \* named[r]: the time its buckets were named: its arrival,
                        \* and later the time it asks for a unit of the day
          granted,      \* history: <<bucket, request, time>> of granted units
          faults

vars == <<clock, counters, pc, visitor, named, granted, faults>>

Scope == {"minute", "hour", "daily"}
Bucket == [scope : Scope, of : Visitor \cup {"ai"}, index : 0 .. MaxTime]

Length(scope) == CASE scope = "minute" -> Minute [] scope = "hour" -> Hour [] scope = "daily" -> Day
Limit(scope) == CASE scope = "minute" -> PerMinute [] scope = "hour" -> PerHour [] scope = "daily" -> PerDay

BucketAt(scope, of, time) == [scope |-> scope, of |-> of, index |-> time \div Length(scope)]
ExpiresAt(b) == (b.index + 1) * Length(b.scope)

(* The bucket that a request is about to use.                              *)
BucketOf(r) ==
  BucketAt(pc[r], IF pc[r] = "daily" THEN "ai" ELSE visitor[r], named[r])

TypeOK ==
  /\ clock \in 0 .. MaxTime
  /\ counters \in [Bucket -> Nat]
  /\ \A b \in Bucket : counters[b] <= Limit(b.scope)
  /\ pc \in [Request -> {"new", "minute", "hour", "catalog", "daily", "admitted", "refused"}]
  /\ visitor \in [Request -> Visitor]
  /\ named \in [Request -> 0 .. MaxTime]
  /\ granted \subseteq (Bucket \X Request \X (0 .. MaxTime))
  /\ faults \in 0 .. MaxFaults

Init ==
  /\ clock = 0
  /\ counters = [b \in Bucket |-> 0]
  /\ pc = [r \in Request |-> "new"]
  /\ visitor \in [Request -> Visitor]
  /\ named = [r \in Request |-> 0]
  /\ granted = {} /\ faults = 0

Goto(r, target) == pc' = [pc EXCEPT ![r] = target]
After(step) == CASE step = "minute" -> "hour" [] step = "hour" -> "catalog" [] step = "daily" -> "admitted"

Arrive(r) ==
  /\ pc[r] = "new"
  /\ named' = [named EXCEPT ![r] = clock]
  /\ Goto(r, "minute")
  /\ UNCHANGED <<clock, counters, visitor, granted, faults>>

CanTakeInclusive(b) == clock < ExpiresAt(b) /\ counters[b] <= Limit(b.scope)
CanTake(b) == clock < ExpiresAt(b) /\ counters[b] < Limit(b.scope)

(* consumeLimit commits; its reply may get lost, which fails the request.  *)
Take(r) ==
  /\ pc[r] \in {"minute", "hour", "daily"}
  /\ CanTake(BucketOf(r))
  /\ counters' = [counters EXCEPT ![BucketOf(r)] = @ + 1]
  /\ \/ /\ granted' = granted \cup {<<BucketOf(r), r, clock>>}
        /\ Goto(r, After(pc[r])) /\ UNCHANGED faults
     \/ Goto(r, "refused") /\ faults < MaxFaults /\ faults' = faults + 1 /\ UNCHANGED granted
  /\ UNCHANGED <<clock, visitor, named>>

Refuse(r) ==
  /\ pc[r] \in {"minute", "hour", "daily"}
  /\ ~CanTake(BucketOf(r))
  /\ Goto(r, "refused")
  /\ UNCHANGED <<clock, counters, visitor, named, granted, faults>>

(* The catalog is not available, or the daily unit is asked for.           *)
CheckCatalog(r) ==
  /\ pc[r] = "catalog"
  /\ \/ Goto(r, "refused") /\ UNCHANGED named
     \/ Goto(r, "daily") /\ named' = [named EXCEPT ![r] = clock]
  /\ UNCHANGED <<clock, counters, visitor, granted, faults>>

Tick ==
  /\ clock < MaxTime
  /\ clock' = clock + 1
  /\ UNCHANGED <<counters, pc, visitor, named, granted, faults>>

(* Requests under way end without an answer: one that throws, one that ran *)
(* out of time, or several that relied on one call.                        *)
Abandon(requests) ==
  /\ requests # {} /\ \A r \in requests : pc[r] \notin {"new", "refused"}
  /\ pc' = [r \in Request |-> IF r \in requests THEN "refused" ELSE pc[r]]
  /\ UNCHANGED <<clock, counters, visitor, named, granted, faults>>

Next ==
  \/ Tick
  \/ \E r \in Request : Arrive(r) \/ Take(r) \/ Refuse(r) \/ CheckCatalog(r)
  \/ \E requests \in SUBSET Request : Abandon(requests)

Spec == Init /\ [][Next]_vars

-----------------------------------------------------------------------------
(* Properties *)

(* However the transactions of overlapping requests interleave, no more    *)
(* units are granted from a bucket than its limit.                         *)
GrantsWithinLimit ==
  \A b \in Bucket : Cardinality({g \in granted : g[1] = b}) <= Limit(b.scope)

(* A unit is granted within the stretch of its bucket: a transaction that  *)
(* runs late cannot spend a unit of an earlier minute, hour or day.  So no *)
(* stretch of a minute sees more than two buckets' worth.                  *)
AtMostTwoBuckets ==
  \A t \in 0 .. MaxTime, v \in Visitor :
    Cardinality({g \in granted : g[1].scope = "minute" /\ g[1].of = v
                                   /\ t <= g[3] /\ g[3] < t + Minute}) <= 2 * PerMinute
=============================================================================
