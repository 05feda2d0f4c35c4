------------------------ MODULE RecommendationProofs ------------------------
(***************************************************************************)
(* Recommendation for any requests, sessions, plans and catalogs, any      *)
(* number of failures and any order of the steps of requests, sources and  *)
(* publications.                                                           *)
(*                                                                         *)
(* None of its properties is inductive.  CardsAreCurrent needs that the    *)
(* history "current" holds all that is usable as long as a request is      *)
(* about to revalidate; CatalogWasLive and CardsAreProven need to know in  *)
(* which places of the code a request has candidates, and from where;      *)
(* JoinedLoadsRun needs that the cache offers a load only while it is      *)
(* under way, and that a request begins one only when it has none.         *)
(*                                                                         *)
(* It begins with the proofs of RequestLimits, for any lengths of buckets, *)
(* limits, requests and visitors.  Neither bound is inductive:             *)
(* GrantsWithinLimit counts a history that CanTake never looks at, so the  *)
(* invariant ties that history to the stored count; AtMostTwoBuckets needs *)
(* every grant to lie in the stretch of its bucket, which for the start of *)
(* the stretch rests on buckets being named from the clock.                *)
(***************************************************************************)
EXTENDS Recommendation, FiniteSetTheorems, TLAPS

-----------------------------------------------------------------------------
(* Admission: RequestLimits *)

Grants(b) == {g \in granted : g[1] = b}

(* The stored count is never below the units handed out.                   *)
CountersCover ==
  \A b \in Bucket : IsFiniteSet(Grants(b)) /\ Cardinality(Grants(b)) <= counters[b]

(* A grant lies in the stretch of its bucket.                              *)
InStretch(g) == g[1].index * Length(g[1].scope) <= g[3] /\ g[3] < ExpiresAt(g[1])

LimitsInv ==
  /\ TypeOK
  /\ CountersCover
  /\ \A r \in Request : named[r] <= clock
  /\ \A g \in granted : InStretch(g)

-----------------------------------------------------------------------------
LEMMA ScopeTypes ==
  ASSUME NEW s \in Scope
  PROVE  Length(s) \in Nat \ {0} /\ Limit(s) \in Nat
BY LimitsAssumption DEF Scope, Length, Limit

LEMMA Division ==
  ASSUME NEW t \in Nat, NEW n \in Nat \ {0}
  PROVE  /\ t \div n \in 0 .. t
         /\ (t \div n) * n <= t
         /\ t < (t \div n) * n + n
OBVIOUS

LEMMA Multiples ==
  ASSUME NEW i \in Nat, NEW j \in Nat, NEW n \in Nat \ {0}
  PROVE  /\ i * n \in Nat
         /\ (i + 1) * n = i * n + n
         /\ i * n < j * n => i < j
OBVIOUS

(* The bucket of a request that is about to take a unit.                   *)
LEMMA BucketOfRequest ==
  ASSUME TypeOK, NEW r \in Request, pc[r] \in {"minute", "hour", "daily"}
  PROVE  /\ BucketOf(r) \in Bucket
         /\ BucketOf(r).index * Length(BucketOf(r).scope) <= named[r]
<1> DEFINE s == pc[r]
           index == named[r] \div Length(s)
           of == IF s = "daily" THEN "ai" ELSE visitor[r]
<1>1. s \in Scope /\ named[r] \in 0 .. MaxTime /\ visitor[r] \in Visitor /\ MaxTime \in Nat
  BY LimitsAssumption DEF TypeOK, Scope
<1>2. Length(s) \in Nat \ {0}
  BY <1>1, ScopeTypes
<1>3. index \in 0 .. named[r] /\ index * Length(s) <= named[r]
  <2> HIDE DEF s
  <2>1. named[r] \in Nat
    BY <1>1
  <2> QED
    BY <2>1, <1>2, Division
<1>4. index \in 0 .. MaxTime
  <2> HIDE DEF index, s
  <2> QED
    BY <1>1, <1>3
<1>5. of \in Visitor \cup {"ai"}
  BY <1>1
<1>6. BucketOf(r) = [scope |-> s, of |-> of, index |-> index]
  BY DEF BucketOf, BucketAt
<1> HIDE DEF s, index, of
<1>7. BucketOf(r) \in Bucket
  BY <1>1, <1>4, <1>5, <1>6 DEF Bucket
<1>8. BucketOf(r).index = index /\ BucketOf(r).scope = s
  BY <1>6
<1> QED
  BY <1>3, <1>7, <1>8

LEMMA InitEstablishes == Init => LimitsInv
<1> SUFFICES ASSUME Init PROVE LimitsInv
  OBVIOUS
<1>1. TypeOK
  <2>1. \A b \in Bucket : Limit(b.scope) \in Nat
    BY ScopeTypes DEF Bucket
  <2>2. \A b \in Bucket : counters[b] <= Limit(b.scope)
    BY <2>1 DEF Init
  <2> QED
    BY <2>2, LimitsAssumption DEF Init, TypeOK
<1>2. CountersCover
  <2>1. \A b : Grants(b) = {}
    BY DEF Init, Grants
  <2> QED
    BY <2>1, FS_EmptySet DEF Init, CountersCover
<1>3. \A r \in Request : named[r] <= clock
  BY DEF Init
<1> QED
  BY <1>1, <1>2, <1>3 DEF Init, LimitsInv

(* A step that takes no unit leaves the counters and the grants alone.     *)
LEMMA NoUnitTaken ==
  ASSUME LimitsInv, TypeOK', UNCHANGED <<counters, granted>>,
         \A r \in Request : named'[r] <= clock'
  PROVE  LimitsInv'
BY DEF LimitsInv, CountersCover, Grants, InStretch, ExpiresAt

LEMMA TakePreserves ==
  ASSUME LimitsInv, NEW r \in Request, Take(r)
  PROVE  LimitsInv'
<1> DEFINE b == BucketOf(r)
           g == <<b, r, clock>>
<1> USE DEF LimitsInv
<1>1. b \in Bucket /\ b.index * Length(b.scope) <= named[r]
  BY BucketOfRequest DEF Take
<1>2. clock < ExpiresAt(b) /\ counters[b] < Limit(b.scope)
  BY DEF Take, CanTake
<1>3. counters' = [counters EXCEPT ![b] = @ + 1]
  BY DEF Take
<1>4. \/ granted' = granted \cup {g}
      \/ granted' = granted
  BY DEF Take
<1>5. UNCHANGED <<clock, visitor, named>>
  BY DEF Take
<1>6. pc' \in [Request -> {"new", "minute", "hour", "catalog", "daily", "admitted", "refused"}]
      /\ faults' \in 0 .. MaxFaults
  <2>1. \/ Goto(r, After(pc[r])) /\ UNCHANGED faults
        \/ Goto(r, "refused") /\ faults < MaxFaults /\ faults' = faults + 1
    BY DEF Take
  <2>2. After(pc[r]) \in {"hour", "catalog", "admitted"}
    BY DEF Take, After
  <2> QED
    BY <2>1, <2>2, LimitsAssumption DEF TypeOK, Goto
<1> HIDE DEF b
<1>7. TypeOK'
  <2>1. counters[b] \in Nat /\ Limit(b.scope) \in Nat /\ b.scope \in Scope
    BY <1>1, ScopeTypes DEF TypeOK, Bucket
  <2>2. counters' \in [Bucket -> Nat]
    BY <1>1, <1>3, <2>1 DEF TypeOK
  <2>3. \A c \in Bucket : counters'[c] <= Limit(c.scope)
    BY <1>1, <1>2, <1>3, <2>1 DEF TypeOK
  <2>4. g \in Bucket \X Request \X (0 .. MaxTime)
    BY <1>1 DEF TypeOK
  <2>5. granted' \subseteq Bucket \X Request \X (0 .. MaxTime)
    BY <1>4, <2>4 DEF TypeOK
  <2> QED
    BY <1>5, <1>6, <2>2, <2>3, <2>5 DEF TypeOK
<1>8. CountersCover'
  <2> SUFFICES ASSUME NEW c \in Bucket
               PROVE  IsFiniteSet(Grants(c)') /\ Cardinality(Grants(c)') <= counters'[c]
    BY DEF CountersCover
  <2>1. IsFiniteSet(Grants(c)) /\ Cardinality(Grants(c)) <= counters[c] /\ counters[c] \in Nat
    BY DEF CountersCover, TypeOK
  <2>2. Cardinality(Grants(c)) \in Nat
    BY <2>1, FS_CardinalityType
  <2>3. CASE Grants(c)' = Grants(c)
    <3>1. counters'[c] >= counters[c]
      BY <1>3, <2>1 DEF TypeOK
    <3> QED
      BY <2>1, <2>2, <2>3, <3>1, <1>3 DEF TypeOK
  <2>4. CASE c = b /\ granted' = granted \cup {g}
    <3>1. Grants(c)' = Grants(c) \cup {g}
      BY <2>4 DEF Grants
    <3>2. IsFiniteSet(Grants(c)') /\ Cardinality(Grants(c)') <= Cardinality(Grants(c)) + 1
      <4> DEFINE S == Grants(c)
                 n == Cardinality(S)
      <4>1. IsFiniteSet(S) /\ n \in Nat
        BY <2>1, <2>2
      <4> HIDE DEF S
      <4>2. IsFiniteSet(S \cup {g}) /\ Cardinality(S \cup {g}) = IF g \in S THEN n ELSE n + 1
        BY <4>1, FS_AddElement
      <4>3. Cardinality(S \cup {g}) <= n + 1
        BY <4>1, <4>2
      <4> QED
        BY <3>1, <4>2, <4>3 DEF S
    <3>3. counters'[c] = counters[c] + 1
      BY <1>3, <2>4 DEF TypeOK
    <3>4. Cardinality(Grants(c)') \in Nat
      BY <3>2, FS_CardinalityType
    <3> QED
      BY <2>1, <2>2, <3>2, <3>3, <3>4
  <2>5. Grants(c)' = Grants(c) \/ (c = b /\ granted' = granted \cup {g})
    BY <1>4 DEF Grants
  <2> QED
    BY <2>3, <2>4, <2>5
<1>9. \A h \in granted' : InStretch(h)'
  <2>1. \A h : InStretch(h)' <=> InStretch(h)
    BY DEF InStretch, ExpiresAt
  <2>2. InStretch(g)
    <3>1. Length(b.scope) \in Nat \ {0} /\ b.index \in Nat
      BY <1>1, ScopeTypes DEF Bucket
    <3>2. b.index * Length(b.scope) \in Nat
      BY <3>1, Multiples
    <3>3. b.index * Length(b.scope) <= clock
      BY <1>1, <3>2 DEF TypeOK
    <3> QED
      BY <1>2, <3>3 DEF InStretch
  <2> QED
    BY <1>4, <2>1, <2>2
<1> QED
  BY <1>5, <1>7, <1>8, <1>9

LEMMA StepPreserves == LimitsInv /\ [Next]_vars => LimitsInv'
<1> SUFFICES ASSUME LimitsInv, [Next]_vars PROVE LimitsInv'
  OBVIOUS
<1> USE DEF LimitsInv
<1>1. CASE Tick
  <2>1. TypeOK' /\ \A r \in Request : named'[r] <= clock'
    BY <1>1, LimitsAssumption DEF Tick, TypeOK
  <2> QED
    BY <1>1, <2>1, NoUnitTaken DEF Tick
<1>2. ASSUME NEW r \in Request, Arrive(r) PROVE LimitsInv'
  <2>1. TypeOK' /\ \A q \in Request : named'[q] <= clock'
    BY <1>2 DEF Arrive, Goto, TypeOK
  <2> QED
    BY <1>2, <2>1, NoUnitTaken DEF Arrive
<1>3. ASSUME NEW r \in Request, Take(r) PROVE LimitsInv'
  BY <1>3, TakePreserves
<1>4. ASSUME NEW r \in Request, Refuse(r) PROVE LimitsInv'
  <2>1. TypeOK' /\ \A q \in Request : named'[q] <= clock'
    BY <1>4 DEF Refuse, Goto, TypeOK
  <2> QED
    BY <1>4, <2>1, NoUnitTaken DEF Refuse
<1>5. ASSUME NEW r \in Request, CheckCatalog(r) PROVE LimitsInv'
  <2>1. TypeOK' /\ \A q \in Request : named'[q] <= clock'
    BY <1>5 DEF CheckCatalog, Goto, TypeOK
  <2> QED
    BY <1>5, <2>1, NoUnitTaken DEF CheckCatalog
<1>6. ASSUME NEW who \in SUBSET Request, Abandon(who) PROVE LimitsInv'
  <2>1. TypeOK' /\ \A q \in Request : named'[q] <= clock'
    BY <1>6 DEF Abandon, TypeOK
  <2> QED
    BY <1>6, <2>1, NoUnitTaken DEF Abandon
<1>7. CASE UNCHANGED vars
  BY <1>7, NoUnitTaken DEF vars, TypeOK
<1> QED
  BY <1>1, <1>2, <1>3, <1>4, <1>5, <1>6, <1>7 DEF Next

LEMMA Invariance == Spec => []LimitsInv
BY InitEstablishes, StepPreserves, PTL DEF Spec

-----------------------------------------------------------------------------
(* The variables keep their types and no stored count exceeds its limit,   *)
(* for any lengths and limits.                                             *)
THEOREM TypeCorrect == Spec => []TypeOK
<1>1. LimitsInv => TypeOK
  BY DEF LimitsInv
<1> QED
  BY <1>1, Invariance, PTL

(* consumeLimit never grants more units of a bucket than its limit,        *)
(* however many transactions of however many requests interleave and       *)
(* whichever replies are lost.                                             *)
THEOREM LimitsAreKept == Spec => []GrantsWithinLimit
<1>1. LimitsInv => GrantsWithinLimit
  <2> SUFFICES ASSUME LimitsInv, NEW b \in Bucket
               PROVE  Cardinality(Grants(b)) <= Limit(b.scope)
    BY DEF GrantsWithinLimit, Grants
  <2>1. IsFiniteSet(Grants(b)) /\ Cardinality(Grants(b)) <= counters[b]
        /\ counters[b] <= Limit(b.scope) /\ counters[b] \in Nat
    BY DEF LimitsInv, CountersCover, TypeOK
  <2>2. Cardinality(Grants(b)) \in Nat /\ Limit(b.scope) \in Nat
    BY <2>1, FS_CardinalityType, ScopeTypes DEF Bucket
  <2> QED
    BY <2>1, <2>2
<1> QED
  BY <1>1, Invariance, PTL

(* The grants of a bucket, also of one that lies past the horizon.         *)
LEMMA MinuteBucket ==
  ASSUME LimitsInv, NEW v \in Visitor, NEW q \in Nat
  PROVE  LET b == [scope |-> "minute", of |-> v, index |-> q]
         IN  IsFiniteSet(Grants(b)) /\ Cardinality(Grants(b)) <= PerMinute
<1> DEFINE b == [scope |-> "minute", of |-> v, index |-> q]
<1>1. PerMinute \in Nat
  BY LimitsAssumption
<1>2. CASE b \in Bucket
  <2>1. b.scope = "minute"
    OBVIOUS
  <2> HIDE DEF b
  <2>2. IsFiniteSet(Grants(b)) /\ Cardinality(Grants(b)) <= counters[b]
        /\ counters[b] <= Limit(b.scope) /\ counters[b] \in Nat
    BY <1>2 DEF LimitsInv, CountersCover, TypeOK
  <2>3. Limit(b.scope) = PerMinute
    BY <2>1 DEF Limit
  <2>4. Cardinality(Grants(b)) \in Nat
    BY <2>2, FS_CardinalityType
  <2>5. IsFiniteSet(Grants(b)) /\ Cardinality(Grants(b)) <= PerMinute
    BY <1>1, <2>2, <2>3, <2>4
  <2> QED
    BY <2>5 DEF b
<1>3. CASE b \notin Bucket
  <2> HIDE DEF b
  <2>1. Grants(b) = {}
    BY <1>3 DEF Grants, LimitsInv, TypeOK
  <2>2. IsFiniteSet(Grants(b)) /\ Cardinality(Grants(b)) <= PerMinute
    BY <1>1, <2>1, FS_EmptySet
  <2> QED
    BY <2>2 DEF b
<1> QED
  BY <1>2, <1>3

(* No stretch of a minute, wherever it begins, sees a visitor granted more *)
(* than two buckets' worth: it meets two buckets only, and a unit of a     *)
(* bucket is granted within it.                                            *)
THEOREM TwoBucketsAtMost == Spec => []AtMostTwoBuckets
<1>1. LimitsInv => AtMostTwoBuckets
  <2> SUFFICES ASSUME LimitsInv, NEW t \in 0 .. MaxTime, NEW v \in Visitor
               PROVE  Cardinality({g \in granted : g[1].scope = "minute" /\ g[1].of = v
                                       /\ t <= g[3] /\ g[3] < t + Minute}) <= 2 * PerMinute
    BY DEF AtMostTwoBuckets
  <2> DEFINE G == {g \in granted : g[1].scope = "minute" /\ g[1].of = v
                                       /\ t <= g[3] /\ g[3] < t + Minute}
             q == t \div Minute
             b(i) == [scope |-> "minute", of |-> v, index |-> i]
  <2>1. Minute \in Nat \ {0} /\ PerMinute \in Nat /\ MaxTime \in Nat /\ t \in Nat
    BY LimitsAssumption
  <2>2. q \in Nat /\ q * Minute <= t /\ t < q * Minute + Minute
    BY <2>1, Division
  <2> HIDE DEF q
  <2>3. \A g \in G : g \in Grants(b(q)) \cup Grants(b(q + 1))
    <3> SUFFICES ASSUME NEW g \in G PROVE g[1] = b(q) \/ g[1] = b(q + 1)
      BY DEF Grants
    <3>1. g \in granted /\ g[1] \in Bucket /\ g[1].scope = "minute" /\ g[1].of = v
          /\ t <= g[3] /\ g[3] < t + Minute /\ g[3] \in Nat
      BY <2>1 DEF LimitsInv, TypeOK
    <3> DEFINE i == g[1].index
    <3>2. i \in Nat /\ i * Minute <= g[3] /\ g[3] < (i + 1) * Minute
      BY <3>1 DEF LimitsInv, InStretch, ExpiresAt, Length, Bucket
    <3> HIDE DEF i, G
    <3>3. i * Minute \in Nat /\ q * Minute \in Nat /\ (i + 1) * Minute = i * Minute + Minute
          /\ (q + 1) * Minute = q * Minute + Minute
          /\ (q + 2) * Minute = q * Minute + Minute + Minute
      <4>1. (q + 1) + 1 = q + 2 /\ q + 1 \in Nat
        BY <2>2
      <4> QED
        BY <2>1, <2>2, <3>2, <4>1, Multiples
    <3>4. i * Minute < (q + 2) * Minute
      BY <2>1, <2>2, <3>1, <3>2, <3>3
    <3>5. q * Minute < (i + 1) * Minute
      BY <2>1, <2>2, <3>1, <3>2, <3>3
    <3>6. i < q + 2 /\ q < i + 1
      BY <2>1, <2>2, <3>2, <3>4, <3>5, Multiples
    <3>7. i = q \/ i = q + 1
      BY <2>2, <3>2, <3>6
    <3> QED
      BY <3>1, <3>7 DEF Bucket, i
  <2>4. IsFiniteSet(Grants(b(q))) /\ Cardinality(Grants(b(q))) <= PerMinute
    BY <2>2, MinuteBucket
  <2>5. IsFiniteSet(Grants(b(q + 1))) /\ Cardinality(Grants(b(q + 1))) <= PerMinute
    BY <2>2, MinuteBucket
  <2> DEFINE U == Grants(b(q)) \cup Grants(b(q + 1))
  <2>6. IsFiniteSet(U) /\ Cardinality(U) <= 2 * PerMinute
    <3> HIDE DEF b
    <3>1. IsFiniteSet(Grants(b(q)) \cap Grants(b(q + 1)))
      BY <2>4, FS_Intersection
    <3>2. /\ Cardinality(Grants(b(q))) \in Nat
          /\ Cardinality(Grants(b(q + 1))) \in Nat
          /\ Cardinality(Grants(b(q)) \cap Grants(b(q + 1))) \in Nat
      BY <2>4, <2>5, <3>1, FS_CardinalityType
    <3>3. /\ IsFiniteSet(U)
          /\ Cardinality(U) = Cardinality(Grants(b(q))) + Cardinality(Grants(b(q + 1)))
                                - Cardinality(Grants(b(q)) \cap Grants(b(q + 1)))
      BY <2>4, <2>5, FS_Union
    <3> HIDE DEF U
    <3> QED
      BY <2>1, <2>4, <2>5, <3>2, <3>3
  <2>7. G \in SUBSET U
    BY <2>3
  <2> HIDE DEF G, U, b
  <2>8. IsFiniteSet(G) /\ Cardinality(G) <= Cardinality(U)
    BY <2>6, <2>7, FS_Subset
  <2>9. Cardinality(G) \in Nat /\ Cardinality(U) \in Nat
    BY <2>6, <2>8, FS_CardinalityType
  <2>10. Cardinality(G) <= 2 * PerMinute
    BY <2>1, <2>6, <2>8, <2>9
  <2> QED
    BY <2>10 DEF G
<1> QED
  BY <1>1, Invariance, PTL

-----------------------------------------------------------------------------
(* The pipeline: Recommendation *)


(* The types of the variables that RequestLimits does not have.            *)
OwnTypes ==
  /\ backend \in {"snapshots", "pipeline"}
  /\ head \in [Session -> 1 .. MaxRevision] /\ withheld \subseteq Session
  /\ catalogs \in Seq(Publication) /\ Live \in CatalogId
  /\ changes \in 0 .. MaxChanges /\ failures \in 0 .. MaxFailures

RequestTypes ==
  /\ stage \in [Request -> Stage] /\ now \in [Request -> 0 .. MaxTime]
  /\ first \in [Request -> 0 .. MaxCatalogs] /\ catalog \in [Request -> 0 .. MaxCatalogs]
  /\ usable \in [Request -> SUBSET Session] /\ found \in [Request -> SUBSET Session]
  /\ plan \in [Request -> Plan \cup {None}] /\ mode \in [Request -> {"filters", "jev"}]
  /\ current \in [Request -> SUBSET Session]

CacheTypes ==
  /\ shared \in [CatalogId -> Request \cup {None, "ready"}]
  /\ flight \in [Request -> 0 .. MaxCatalogs]
  /\ joined \in [Request -> Request \cup {None}]

Published(r) == catalog[r] \in 1 .. Live /\ first[r] <= catalog[r]

(* Where a request stands, and what it has read.                           *)
PlaceInv(r) ==
  /\ first[r] <= Live
  /\ pc[r] \in {"new", "minute", "hour"} => stage[r] = "pin"
  /\ pc[r] = "daily" => stage[r] = "interpret"
  /\ stage[r] \in {"status", "assess"} => backend = "snapshots"
  /\ stage[r] \in {"availability", "recheck", "vectors", "finalize", "explain", "explained"}
       => backend = "pipeline"
  /\ pc[r] # "refused" /\ stage[r] \notin {"pin", "status"} => Published(r)

FoundInv(r) ==
  /\ found[r] # {} => stage[r] \in {"vectors", "rank", "finalize", "answered"}
  /\ pc[r] # "refused" =>
       \A s \in found[r] : s \in Content(catalog[r]) /\ Supported(plan[r], s)
  /\ pc[r] # "refused" /\ stage[r] \in {"finalize", "answered"} /\ found[r] # {} /\ OnMood(plan[r])
       => mode[r] = "jev"

CurrentInv(r) ==
  /\ pc[r] = "admitted" /\ stage[r] = "finalize" => UsableIn(catalog[r], clock) \subseteq current[r]
  /\ backend = "pipeline" /\ pc[r] # "refused" /\ stage[r] = "answered" => found[r] \subseteq current[r]

LoadInv ==
  /\ \A r \in Request : flight[r] # 0 => joined[r] = r \/ pc[r] = "refused"
  /\ \A c \in CatalogId : shared[c] \in Request => flight[shared[c]] = c
  /\ \A r \in Request : joined[r] # None =>
       /\ pc[r] \in {"catalog", "admitted"} /\ stage[r] \in Reads
       /\ flight[joined[r]] # 0 /\ flight[joined[r]] = catalog[r]
       /\ Published(r)

RecommendationInv ==
  /\ OwnTypes /\ RequestTypes /\ CacheTypes
  /\ \A r \in Request : PlaceInv(r) /\ FoundInv(r) /\ CurrentInv(r)
  /\ LoadInv

-----------------------------------------------------------------------------
(* A step of a request is a step of its admission, or none of it.          *)
LEMMA StepsAdmit == RecommendationNext => [Next]_vars
<1> SUFFICES ASSUME RecommendationNext PROVE [Next]_vars
  OBVIOUS
<1>1. CASE ChangeSource \/ Publish \/ Pass
  BY <1>1 DEF ChangeSource, Publish, Pass, Next
<1>2. ASSUME NEW r \in Request, RequestStep(r) PROVE [Next]_vars
  <2>1. CASE Admit(r)
    BY <2>1 DEF Admit, Next
  <2>2. CASE CheckAvailability(r) \/ Assess(r) \/ Explain(r)
    BY <2>2 DEF CheckAvailability, Assess, Explain, AskDaily, Next
  <2>3. CASE PinCatalog(r) \/ Interpret(r) \/ Recheck(r) \/ Read(r) \/ Project(r) \/ Rank(r) \/ Finalize(r)
    BY <2>3 DEF PinCatalog, Interpret, Recheck, Read, Project, Rank, Finalize
  <2> QED
    BY <1>2, <2>1, <2>2, <2>3 DEF RequestStep
<1>3. ASSUME NEW r \in Request, LoadEnds(r) \/ Abort(r) PROVE [Next]_vars
  <2>1. CASE LoadSucceeds(r)
    BY <2>1 DEF LoadSucceeds
  <2>2. CASE LoadFails(r)
    <3> DEFINE lost == {q \in Request : joined[q] = r /\ ReadIsVital(q)}
    <3>1. lost \in SUBSET Request /\ (UNCHANGED vars \/ Abandon(lost))
      BY <2>2 DEF LoadFails
    <3> QED
      BY <3>1 DEF Next
  <2>3. CASE Abort(r)
    BY <2>3 DEF Abort, Next
  <2> QED
    BY <1>3, <2>1, <2>2, <2>3 DEF LoadEnds
<1> QED
  BY <1>1, <1>2, <1>3 DEF RecommendationNext

(* Admission is as in RequestLimits, whatever else a request does.         *)
THEOREM ImplementsLimits == RecommendationSpec => Spec
<1>1. RecommendationInit => Init
  BY DEF RecommendationInit
<1>2. [RecommendationNext]_allVars => [Next]_vars
  BY StepsAdmit DEF allVars
<1> QED
  BY <1>1, <1>2, PTL DEF RecommendationSpec, Spec

-----------------------------------------------------------------------------
(* A step of a request r that leaves alone the cache, the world and all    *)
(* other requests.                                                         *)
Alone(r) ==
  /\ UNCHANGED <<clock, backend, catalogVars, cacheVars>>
  /\ \A q \in Request \ {r} :
       /\ pc'[q] = pc[q] /\ stage'[q] = stage[q] /\ first'[q] = first[q] /\ catalog'[q] = catalog[q]
       /\ found'[q] = found[q] /\ plan'[q] = plan[q] /\ mode'[q] = mode[q] /\ current'[q] = current[q]

RequestInv(r) == PlaceInv(r) /\ FoundInv(r) /\ CurrentInv(r)

(* Such a step has to be looked at for r only.                             *)
LEMMA AloneKeeps ==
  ASSUME RecommendationInv, NEW r \in Request, Alone(r), RequestTypes', RequestInv(r)',
         pc[r] # "refused", pc[r] \in {"catalog", "admitted"} => stage[r] \notin Reads
  PROVE  RecommendationInv'
<1>1. OwnTypes' /\ CacheTypes'
  BY DEF RecommendationInv, OwnTypes, CacheTypes, Alone, catalogVars, cacheVars, Live, Content
<1>2. ASSUME NEW q \in Request PROVE RequestInv(q)'
  <2>1. CASE q = r
    BY <2>1
  <2>2. CASE q # r
    BY <2>2 DEF RecommendationInv, RequestInv, PlaceInv, FoundInv, CurrentInv, Published, UsableIn, Content,
                Live, Alone, catalogVars
  <2> QED
    BY <2>1, <2>2
<1>3. joined[r] = None /\ flight[r] = 0
  <2>1. joined[r] = None
    BY DEF RecommendationInv, LoadInv
  <2> QED
    BY <2>1, RecommendationAssumption DEF RecommendationInv, LoadInv
<1>4. LoadInv'
  BY <1>3 DEF RecommendationInv, LoadInv, Alone, cacheVars, catalogVars, Published, Live
<1> QED
  BY <1>1, <1>2, <1>4 DEF RecommendationInv, RequestInv

(* What availability finds is in the catalog, and that in the sessions.    *)
LEMMA PublishedContent ==
  ASSUME RecommendationInv, NEW c \in 1 .. Live
  PROVE  /\ Content(c) \subseteq Session
         /\ \A time : UsableIn(c, time) \subseteq Session
<1>1. catalogs[c] \in Publication
  BY DEF RecommendationInv, OwnTypes, Live
<1>2. Content(c) \subseteq Session
  BY <1>1 DEF Publication, Content
<1> QED
  BY <1>2 DEF UsableIn

LEMMA AdmitPreserves ==
  ASSUME TypeOK, RecommendationInv, NEW r \in Request, Admit(r)
  PROVE  RecommendationInv'
<1>1. pc[r] \in {"new", "minute", "hour", "daily"}
  BY DEF Admit, Arrive, Take, Refuse
<1>2. Alone(r)
  BY DEF Admit, Arrive, Take, Refuse, Goto, Alone, TypeOK, RecommendationInv, RequestTypes
<1>3. Live \in 0 .. MaxCatalogs
  BY RecommendationAssumption DEF RecommendationInv, OwnTypes, CatalogId
<1>4. RequestTypes'
  BY <1>3 DEF Admit, RecommendationInv, RequestTypes
<1>5. pc'[r] \in {"minute", "hour", "catalog", "admitted", "refused"}
      /\ (pc[r] = "daily" => pc'[r] \in {"admitted", "refused"})
      /\ (pc'[r] = "admitted" => pc[r] = "daily")
  BY DEF Admit, Arrive, Take, Refuse, Goto, After, TypeOK
<1>6. stage'[r] = stage[r] /\ stage[r] \in {"pin", "interpret"} /\ (stage[r] = "interpret" => pc[r] = "daily")
  BY <1>1 DEF Admit, RecommendationInv, PlaceInv
<1>7. first'[r] \in {first[r], Live} /\ (pc[r] = "daily" => first'[r] = first[r])
  BY DEF Admit, Arrive, RecommendationInv, RequestTypes
<1>8. found[r] = {} /\ found'[r] = {}
  BY <1>6 DEF Admit, RecommendationInv, FoundInv
<1>9. PlaceInv(r)'
  BY <1>3, <1>5, <1>6, <1>7 DEF Admit, RecommendationInv, PlaceInv, Published, Live, catalogVars
<1> QED
  BY <1>1, <1>2, <1>4, <1>6, <1>8, <1>9, AloneKeeps DEF RequestInv, FoundInv, CurrentInv, Reads

(* Every step before the answer is of a request that has been admitted to  *)
(* the place it is at.                                                     *)
LEMMA PinPreserves ==
  ASSUME TypeOK, RecommendationInv, NEW r \in Request, PinCatalog(r)
  PROVE  RecommendationInv'
<1>1. Alone(r) /\ pc[r] = "catalog" /\ stage[r] = "pin"
  BY DEF PinCatalog, GotoStage, Alone, vars, TypeOK, RecommendationInv, RequestTypes
<1>2. Live \in 1 .. MaxCatalogs /\ Live \in 0 .. MaxCatalogs
  BY RecommendationAssumption DEF RecommendationInv, OwnTypes, CatalogId
<1>3. RequestTypes'
  BY <1>2 DEF PinCatalog, GotoStage, TypeOK, RecommendationInv, RequestTypes, Stage
<1>4. found[r] = {} /\ found'[r] = {}
  BY <1>1 DEF PinCatalog, RecommendationInv, FoundInv
<1>5. PlaceInv(r)'
  BY <1>1, <1>2 DEF PinCatalog, GotoStage, vars, RecommendationInv, RequestTypes, PlaceInv, Published, Live, catalogVars
<1>6. stage'[r] \in {"availability", "status"}
  BY DEF PinCatalog, GotoStage, RecommendationInv, RequestTypes
<1> QED
  BY <1>1, <1>3, <1>4, <1>5, <1>6, AloneKeeps DEF RequestInv, FoundInv, CurrentInv, Reads

LEMMA CheckAvailabilityPreserves ==
  ASSUME TypeOK, RecommendationInv, NEW r \in Request, CheckAvailability(r)
  PROVE  RecommendationInv'
<1>1. pc[r] = "catalog" /\ stage[r] = "availability"
  BY DEF CheckAvailability
<1>2. Alone(r)
  BY DEF CheckAvailability, AskDaily, CheckCatalog, Goto, GotoStage, Alone, vars, TypeOK, RecommendationInv, RequestTypes
<1>3. catalog[r] \in 1 .. Live /\ backend = "pipeline"
  BY <1>1 DEF RecommendationInv, PlaceInv, Published
<1>4. stage' \in [Request -> Stage] /\ stage'[r] \in {"interpret", "explain"}
      /\ pc'[r] = (IF stage'[r] = "interpret" THEN "daily" ELSE "catalog")
  BY <1>1 DEF CheckAvailability, AskDaily, GotoStage, Stage, vars, RecommendationInv, RequestTypes
<1>5. usable' \in [Request -> SUBSET Session]
  BY <1>3, PublishedContent DEF CheckAvailability, RecommendationInv, RequestTypes
<1>6. RequestTypes'
  BY <1>4, <1>5 DEF CheckAvailability, RecommendationInv, RequestTypes
<1>7. found[r] = {} /\ found'[r] = {}
  BY <1>1 DEF CheckAvailability, RecommendationInv, FoundInv
<1>8. PlaceInv(r)'
  BY <1>1, <1>3, <1>4 DEF CheckAvailability, RecommendationInv, PlaceInv, Published, Live, catalogVars
<1> QED
  BY <1>1, <1>2, <1>4, <1>6, <1>7, <1>8, AloneKeeps DEF RequestInv, FoundInv, CurrentInv, Reads

LEMMA AssessPreserves ==
  ASSUME TypeOK, RecommendationInv, NEW r \in Request, Assess(r)
  PROVE  RecommendationInv'
<1>1. pc[r] = "catalog" /\ stage[r] = "assess"
  BY DEF Assess
<1>2. Alone(r)
  BY DEF Assess, AskDaily, CheckCatalog, Goto, GotoStage, Alone, TypeOK, RecommendationInv, RequestTypes
<1>3. /\ stage' \in [Request -> Stage]
      /\ \/ stage'[r] = "interpret" /\ pc'[r] = "daily"
         \/ stage'[r] = "assess" /\ pc'[r] = "refused"
  BY <1>1 DEF Assess, AskDaily, GotoStage, Stage, RecommendationInv, RequestTypes
<1>4. RequestTypes'
  BY <1>3 DEF Assess, RecommendationInv, RequestTypes
<1>5. found[r] = {} /\ found'[r] = {}
  BY <1>1 DEF Assess, RecommendationInv, FoundInv
<1>6. PlaceInv(r)'
  BY <1>1, <1>3 DEF Assess, RecommendationInv, PlaceInv, Published, Live, catalogVars
<1> QED
  BY <1>1, <1>2, <1>3, <1>4, <1>5, <1>6, AloneKeeps DEF RequestInv, FoundInv, CurrentInv, Reads

LEMMA InterpretPreserves ==
  ASSUME TypeOK, RecommendationInv, NEW r \in Request, Interpret(r)
  PROVE  RecommendationInv'
<1>1. pc[r] = "admitted" /\ stage[r] = "interpret" /\ pc'[r] = "admitted"
  BY DEF Interpret, vars
<1>2. Alone(r)
  BY DEF Interpret, Answer, GotoStage, Alone, vars, TypeOK, RecommendationInv, RequestTypes
<1>3. stage' \in [Request -> Stage] /\ stage'[r] \in {"recheck", "candidates", "answered"}
      /\ (stage'[r] = "recheck" => backend = "pipeline")
  BY DEF Interpret, Answer, GotoStage, Stage, RecommendationInv, RequestTypes
<1>4. found[r] = {}
  BY <1>1 DEF RecommendationInv, FoundInv
<1>5. found'[r] = {} /\ found' \in [Request -> SUBSET Session] /\ plan' \in [Request -> Plan \cup {None}]
  BY <1>4 DEF Interpret, Answer, RecommendationInv, RequestTypes
<1>6. RequestTypes'
  BY <1>3, <1>5 DEF Interpret, RecommendationInv, RequestTypes
<1>7. PlaceInv(r)'
  BY <1>1, <1>3 DEF Interpret, RecommendationInv, PlaceInv, Published, Live, catalogVars
<1> QED
  BY <1>1, <1>2, <1>3, <1>5, <1>6, <1>7, AloneKeeps DEF RequestInv, FoundInv, CurrentInv, Reads

LEMMA RecheckPreserves ==
  ASSUME TypeOK, RecommendationInv, NEW r \in Request, Recheck(r)
  PROVE  RecommendationInv'
<1>1. pc[r] = "admitted" /\ stage[r] = "recheck" /\ pc'[r] = "admitted"
  BY DEF Recheck, vars
<1>2. Alone(r)
  BY DEF Recheck, GotoStage, Alone, vars, TypeOK, RecommendationInv, RequestTypes
<1>3. catalog[r] \in 1 .. Live /\ backend = "pipeline"
  BY <1>1 DEF RecommendationInv, PlaceInv, Published
<1>4. stage' \in [Request -> Stage] /\ stage'[r] \in {"candidates", "explain"}
  BY DEF Recheck, GotoStage, Stage, RecommendationInv, RequestTypes
<1>5. usable' \in [Request -> SUBSET Session]
  BY <1>3, PublishedContent DEF Recheck, RecommendationInv, RequestTypes
<1>6. RequestTypes'
  BY <1>4, <1>5 DEF Recheck, RecommendationInv, RequestTypes
<1>7. found[r] = {} /\ found'[r] = {}
  BY <1>1 DEF Recheck, RecommendationInv, FoundInv
<1>8. PlaceInv(r)'
  BY <1>1, <1>3, <1>4 DEF Recheck, RecommendationInv, PlaceInv, Published, Live, catalogVars
<1> QED
  BY <1>1, <1>2, <1>4, <1>6, <1>7, <1>8, AloneKeeps DEF RequestInv, FoundInv, CurrentInv, Reads

LEMMA ExplainPreserves ==
  ASSUME TypeOK, RecommendationInv, NEW r \in Request, Explain(r)
  PROVE  RecommendationInv'
<1>1. pc[r] \in {"catalog", "admitted"} /\ stage[r] = "explained"
  BY DEF Explain
<1>2. Alone(r)
  BY DEF Explain, CheckCatalog, Answer, Goto, GotoStage, Alone, vars, TypeOK, RecommendationInv, RequestTypes
<1>3. /\ stage' \in [Request -> Stage]
      /\ \/ stage'[r] = "explained" /\ pc'[r] = "refused"
         \/ stage'[r] = "answered" /\ pc'[r] = "admitted"
  BY <1>1 DEF Explain, Answer, GotoStage, Stage, vars, RecommendationInv, RequestTypes
<1>4. found[r] = {}
  BY <1>1 DEF RecommendationInv, FoundInv
<1>5. found'[r] = {} /\ found' \in [Request -> SUBSET Session]
  BY <1>4 DEF Explain, Answer, RecommendationInv, RequestTypes
<1>6. RequestTypes'
  BY <1>3, <1>5 DEF Explain, RecommendationInv, RequestTypes
<1>7. PlaceInv(r)'
  BY <1>1, <1>3 DEF Explain, RecommendationInv, PlaceInv, Published, Live, catalogVars
<1> QED
  BY <1>1, <1>2, <1>3, <1>5, <1>6, <1>7, AloneKeeps DEF RequestInv, FoundInv, CurrentInv, Reads

LEMMA ProjectPreserves ==
  ASSUME TypeOK, RecommendationInv, NEW r \in Request, Project(r)
  PROVE  RecommendationInv'
<1>1. pc[r] = "admitted" /\ stage[r] = "project" /\ pc'[r] = "admitted"
  BY DEF Project, vars
<1>2. Alone(r)
  BY DEF Project, Answer, GotoStage, Alone, vars, TypeOK, RecommendationInv, RequestTypes
<1>3. catalog[r] \in 1 .. Live
  BY <1>1 DEF RecommendationInv, PlaceInv, Published
<1>4. /\ stage' \in [Request -> Stage] /\ stage'[r] \in {"vectors", "rank", "answered"}
      /\ stage'[r] = "vectors" => backend = "pipeline"
      /\ stage'[r] = "answered" => found'[r] = {}
  BY DEF Project, Answer, GotoStage, Stage, RecommendationInv, RequestTypes
<1>5. Candidates(r) \subseteq Content(catalog[r])
  BY DEF Candidates
<1>6. /\ found' \in [Request -> SUBSET Session]
      /\ \A s \in found'[r] : s \in Content(catalog[r]) /\ Supported(plan[r], s)
  <2> DEFINE proven == {s \in Candidates(r) : Eligible(s, now[r]) /\ Supported(plan[r], s)}
  <2>1. proven \subseteq Session
    BY <1>3, <1>5, PublishedContent
  <2>2. found' = [found EXCEPT ![r] = proven] \/ found' = [found EXCEPT ![r] = {}]
    BY DEF Project, Answer
  <2> QED
    BY <1>5, <2>1, <2>2 DEF RecommendationInv, RequestTypes
<1>7. RequestTypes'
  <2>1. usable' \in [Request -> SUBSET Session] /\ now' \in [Request -> 0 .. MaxTime]
    BY LimitsAssumption DEF Project, RecommendationInv, RequestTypes
  <2> QED
    BY <1>4, <1>6, <2>1 DEF Project, RecommendationInv, RequestTypes
<1>8. PlaceInv(r)'
  BY <1>1, <1>4 DEF Project, RecommendationInv, PlaceInv, Published, Live, catalogVars
<1>9. FoundInv(r)'
  BY <1>4, <1>6 DEF Project, FoundInv, Content, catalogVars
<1>10. CurrentInv(r)'
  BY <1>4 DEF CurrentInv
<1> QED
  BY <1>1, <1>2, <1>7, <1>8, <1>9, <1>10, AloneKeeps DEF RequestInv, Reads

(* Ranking adds nothing to what it was given.                              *)
LEMMA RankPreserves ==
  ASSUME TypeOK, RecommendationInv, NEW r \in Request, Rank(r)
  PROVE  RecommendationInv'
<1>1. pc[r] = "admitted" /\ stage[r] = "rank" /\ pc'[r] = "admitted"
  BY DEF Rank, vars
<1>2. PICK cards, how :
         /\ AfterRanking(r, cards, how) /\ how \in {"jev", "filters"} /\ cards \subseteq found[r]
         /\ how = "filters" /\ OnMood(plan[r]) => cards = {}
  <2>1. PICK shortlist \in SUBSET found[r] :
           \/ \E judged \in SUBSET Session : AfterRanking(r, SelectJevEvents(shortlist, judged), "jev")
           \/ AfterRanking(r, Fallback(plan[r], shortlist), "filters")
    BY DEF Rank
  <2>2. CASE \E judged \in SUBSET Session : AfterRanking(r, SelectJevEvents(shortlist, judged), "jev")
    <3>1. PICK judged \in SUBSET Session : AfterRanking(r, SelectJevEvents(shortlist, judged), "jev")
      BY <2>2
    <3>2. SelectJevEvents(shortlist, judged) \subseteq found[r]
      BY DEF SelectJevEvents, SelectKnown
    <3> QED
      BY <3>1, <3>2
  <2>3. CASE AfterRanking(r, Fallback(plan[r], shortlist), "filters")
    <3>1. /\ Fallback(plan[r], shortlist) \subseteq found[r]
          /\ OnMood(plan[r]) => Fallback(plan[r], shortlist) = {}
      BY DEF Fallback
    <3> QED
      BY <2>3, <3>1
  <2> QED
    BY <2>1, <2>2, <2>3
<1>3. Alone(r)
  BY <1>2 DEF Rank, AfterRanking, GotoStage, Alone, vars, TypeOK, RecommendationInv, RequestTypes
<1>4. catalog[r] \in 1 .. Live
  BY <1>1 DEF RecommendationInv, PlaceInv, Published
<1>5. /\ stage' \in [Request -> Stage]
      /\ stage'[r] = IF backend = "pipeline" THEN "finalize" ELSE "answered"
  BY <1>2 DEF AfterRanking, GotoStage, Stage, RecommendationInv, RequestTypes
<1>6. /\ found' \in [Request -> SUBSET Session] /\ found'[r] = cards
      /\ mode' \in [Request -> {"filters", "jev"}] /\ mode'[r] = how
  BY <1>2 DEF AfterRanking, RecommendationInv, RequestTypes
<1>7. /\ current' \in [Request -> SUBSET Session]
      /\ backend = "pipeline" => current'[r] = UsableIn(catalog[r], clock)
  BY <1>4, PublishedContent DEF Rank, RecommendationInv, RequestTypes
<1>8. RequestTypes'
  BY <1>5, <1>6, <1>7 DEF Rank, RecommendationInv, RequestTypes
<1>9. PlaceInv(r)'
  BY <1>1, <1>5 DEF Rank, RecommendationInv, PlaceInv, Published, Live, catalogVars
<1>10. FoundInv(r)'
  <2>1. \A s \in cards : s \in Content(catalog[r]) /\ Supported(plan[r], s)
    BY <1>1, <1>2 DEF RecommendationInv, FoundInv
  <2> QED
    BY <1>2, <1>5, <1>6, <2>1 DEF Rank, FoundInv, Content, catalogVars
<1>11. CurrentInv(r)'
  BY <1>5, <1>7 DEF Rank, CurrentInv, UsableIn, Content, catalogVars, vars
<1> QED
  BY <1>1, <1>3, <1>8, <1>9, <1>10, <1>11, AloneKeeps DEF RequestInv, Reads

LEMMA FinalizePreserves ==
  ASSUME TypeOK, RecommendationInv, NEW r \in Request, Finalize(r)
  PROVE  RecommendationInv'
<1>1. pc[r] = "admitted" /\ stage[r] = "finalize" /\ pc'[r] = "admitted"
  BY DEF Finalize, vars
<1>2. Alone(r)
  BY DEF Finalize, Answer, GotoStage, Alone, vars, TypeOK, RecommendationInv, RequestTypes
<1>3. stage' \in [Request -> Stage] /\ stage'[r] = "answered"
  BY DEF Finalize, Answer, GotoStage, Stage, RecommendationInv, RequestTypes
<1>4. /\ found' \in [Request -> SUBSET Session] /\ found'[r] \subseteq found[r]
      /\ found'[r] \subseteq UsableIn(catalog[r], clock)
  BY DEF Finalize, Answer, Confirmed, Revalidated, RecommendationInv, RequestTypes
<1>5. RequestTypes'
  BY <1>3, <1>4 DEF Finalize, RecommendationInv, RequestTypes
<1>6. PlaceInv(r)'
  BY <1>1, <1>3 DEF Finalize, RecommendationInv, PlaceInv, Published, Live, catalogVars
<1>7. FoundInv(r)'
  BY <1>1, <1>3, <1>4 DEF Finalize, RecommendationInv, FoundInv, Content, catalogVars
<1>8. CurrentInv(r)'
  BY <1>1, <1>3, <1>4 DEF Finalize, RecommendationInv, CurrentInv
<1> QED
  BY <1>1, <1>2, <1>3, <1>5, <1>6, <1>7, <1>8, AloneKeeps DEF RequestInv, Reads

-----------------------------------------------------------------------------
(* Steps of the world and of the cache.                                    *)

LEMMA ChangeSourcePreserves ==
  ASSUME TypeOK, RecommendationInv, ChangeSource
  PROVE  RecommendationInv'
<1>1. UNCHANGED <<vars, backend, catalogs, failures, requestVars, cacheVars>> /\ Observed
  BY DEF ChangeSource
<1>2. OwnTypes'
  <2>1. OwnTypes /\ changes' \in 0 .. MaxChanges
    BY RecommendationAssumption DEF ChangeSource, RecommendationInv, OwnTypes
  <2>2. head' \in [Session -> 1 .. MaxRevision] /\ withheld' \subseteq Session
    <3>1. PICK s \in Session :
            \/ withheld' = withheld \cup {s} /\ UNCHANGED head
            \/ \E revision \in head[s] .. MaxRevision :
                 head' = [head EXCEPT ![s] = revision] /\ withheld' = withheld \ {s}
      BY DEF ChangeSource
    <3>2. head[s] \in 1 .. MaxRevision /\ MaxRevision \in Nat
      BY <2>1, RecommendationAssumption DEF OwnTypes
    <3> QED
      BY <2>1, <3>1, <3>2 DEF OwnTypes
  <2> QED
    BY <1>1, <2>1, <2>2 DEF OwnTypes, Live
<1>3. ASSUME NEW q \in Request PROVE /\ PlaceInv(q)' /\ FoundInv(q)' /\ CurrentInv(q)'
                                    /\ current'[q] \subseteq Session
  <2>1. PlaceInv(q)' /\ FoundInv(q)'
    BY <1>1 DEF vars, requestVars, RecommendationInv, PlaceInv, FoundInv, Published, Live, Content
  <2>2. CASE pc[q] = "admitted" /\ stage[q] = "finalize"
    <3>1. current'[q] = current[q] \cup UsableIn(catalog[q], clock)'
      BY <1>1, <2>2 DEF Observed, vars, requestVars, UsableIn, Content
    <3>2. catalog[q] \in 1 .. Live
      BY <2>2 DEF RecommendationInv, PlaceInv, Published
    <3>3. UsableIn(catalog[q], clock)' \subseteq Session
      BY <1>1, <3>2, PublishedContent DEF requestVars, UsableIn, Content
    <3> QED
      BY <1>1, <2>1, <2>2, <3>1, <3>3 DEF vars, requestVars, CurrentInv, RecommendationInv, RequestTypes
  <2>3. CASE ~(pc[q] = "admitted" /\ stage[q] = "finalize")
    <3>1. current'[q] = current[q]
      BY <1>1, <2>3 DEF Observed
    <3> QED
      BY <1>1, <2>1, <2>3, <3>1 DEF vars, requestVars, CurrentInv, RecommendationInv, RequestTypes
  <2> QED
    BY <2>2, <2>3
<1>4. RequestTypes'
  <2>1. current' \in [Request -> SUBSET Session]
    BY <1>1, <1>3 DEF Observed
  <2> QED
    BY <1>1, <2>1 DEF requestVars, RecommendationInv, RequestTypes
<1>5. CacheTypes' /\ LoadInv'
  BY <1>1 DEF vars, requestVars, cacheVars, RecommendationInv, CacheTypes, LoadInv, Published, Live
<1> QED
  BY <1>2, <1>3, <1>4, <1>5 DEF RecommendationInv

LEMMA PassPreserves ==
  ASSUME TypeOK, RecommendationInv, Pass
  PROVE  RecommendationInv'
<1>1. UNCHANGED <<pc, backend, catalogVars, requestVars, cacheVars>> /\ Observed
  BY DEF Pass, Tick
<1>2. OwnTypes'
  BY <1>1 DEF catalogVars, RecommendationInv, OwnTypes, Live, Content
<1>3. ASSUME NEW q \in Request PROVE /\ PlaceInv(q)' /\ FoundInv(q)' /\ CurrentInv(q)'
                                    /\ current'[q] \subseteq Session
  <2>1. PlaceInv(q)' /\ FoundInv(q)'
    BY <1>1 DEF catalogVars, requestVars, RecommendationInv, PlaceInv, FoundInv, Published, Live, Content
  <2>2. CASE pc[q] = "admitted" /\ stage[q] = "finalize"
    <3>1. current'[q] = current[q] \cup UsableIn(catalog[q], clock)'
      BY <1>1, <2>2 DEF Observed, catalogVars, requestVars, UsableIn, Content
    <3>2. catalog[q] \in 1 .. Live
      BY <2>2 DEF RecommendationInv, PlaceInv, Published
    <3>3. UsableIn(catalog[q], clock)' \subseteq Session
      BY <1>1, <3>2, PublishedContent DEF catalogVars, requestVars, UsableIn, Content
    <3> QED
      BY <1>1, <2>1, <2>2, <3>1, <3>3 DEF requestVars, CurrentInv, RecommendationInv, RequestTypes
  <2>3. CASE ~(pc[q] = "admitted" /\ stage[q] = "finalize")
    <3>1. current'[q] = current[q]
      BY <1>1, <2>3 DEF Observed
    <3> QED
      BY <1>1, <2>1, <2>3, <3>1 DEF requestVars, CurrentInv, RecommendationInv, RequestTypes
  <2> QED
    BY <2>2, <2>3
<1>4. RequestTypes'
  <2>1. current' \in [Request -> SUBSET Session]
    BY <1>1, <1>3 DEF Observed
  <2> QED
    BY <1>1, <2>1 DEF requestVars, RecommendationInv, RequestTypes
<1>5. CacheTypes' /\ LoadInv'
  BY <1>1 DEF catalogVars, requestVars, cacheVars, RecommendationInv, CacheTypes, LoadInv, Published, Live
<1> QED
  BY <1>2, <1>3, <1>4, <1>5 DEF RecommendationInv

(* A publication is added; those that requests have read stay as they are. *)
LEMMA SnapshotType ==
  ASSUME NEW sessions \in SUBSET Session, NEW revisions \in [Session -> 1 .. MaxRevision],
         NEW time \in 0 .. MaxTime
  PROVE  Snapshot(sessions, revisions, time) \in Publication
<1> DEFINE f == [s \in sessions |-> revisions[s]]
<1>1. f \in [sessions -> 1 .. MaxRevision]
  OBVIOUS
<1>2. Snapshot(sessions, revisions, time) = [revision |-> f, since |-> time]
  BY DEF Snapshot
<1> HIDE DEF f
<1>3. f \in UNION {[kept -> 1 .. MaxRevision] : kept \in SUBSET Session}
  BY <1>1
<1> QED
  BY <1>2, <1>3 DEF Publication

LEMMA PublishPreserves ==
  ASSUME TypeOK, RecommendationInv, Publish
  PROVE  RecommendationInv'
<1> DEFINE s == Snapshot(Session \ withheld, head, clock)
<1>1. s \in Publication
  BY SnapshotType DEF TypeOK, RecommendationInv, OwnTypes
<1>2. catalogs \in Seq(Publication) /\ Live \in Nat /\ catalogs' = Append(catalogs, s)
  BY RecommendationAssumption DEF Publish, RecommendationInv, OwnTypes, Live
<1> HIDE DEF s
<1>3. catalogs' \in Seq(Publication) /\ Live' = Live + 1 /\ \A c \in 1 .. Live : catalogs'[c] = catalogs[c]
  BY <1>1, <1>2 DEF Live
<1>4. UNCHANGED <<vars, backend, head, withheld, changes, failures, requestVars, cacheVars, current>> /\ Live < MaxCatalogs
  BY DEF Publish
<1>5. OwnTypes'
  BY <1>2, <1>3, <1>4, RecommendationAssumption DEF RecommendationInv, OwnTypes, CatalogId
<1>6. ASSUME NEW q \in Request PROVE PlaceInv(q)' /\ FoundInv(q)' /\ CurrentInv(q)'
  <2>1. PlaceInv(q) /\ FoundInv(q) /\ CurrentInv(q) /\ first[q] \in 0 .. MaxCatalogs
    BY DEF RecommendationInv, RequestTypes
  <2>2. PlaceInv(q)'
    BY <1>2, <1>3, <1>4, <2>1, RecommendationAssumption DEF vars, requestVars, PlaceInv, Published
  <2>3. CASE pc[q] # "refused" /\ stage[q] \notin {"pin", "status"}
    <3>1. catalog[q] \in 1 .. Live
      BY <2>1, <2>3 DEF PlaceInv, Published
    <3>2. Content(catalog[q])' = Content(catalog[q])
      BY <1>3, <1>4, <3>1 DEF requestVars, Content
    <3>3. UsableIn(catalog[q], clock)' = UsableIn(catalog[q], clock)
      BY <1>3, <1>4, <3>1, <3>2 DEF vars, requestVars, UsableIn, Eligible
    <3> QED
      BY <1>4, <2>1, <2>2, <3>2, <3>3 DEF vars, requestVars, FoundInv, CurrentInv
  <2>4. CASE ~(pc[q] # "refused" /\ stage[q] \notin {"pin", "status"})
    BY <1>4, <2>1, <2>2, <2>4 DEF vars, requestVars, FoundInv, CurrentInv
  <2> QED
    BY <2>3, <2>4
<1>7. RequestTypes' /\ CacheTypes'
  BY <1>4 DEF requestVars, cacheVars, RecommendationInv, RequestTypes, CacheTypes
<1>8. LoadInv'
  BY <1>2, <1>3, <1>4 DEF vars, requestVars, cacheVars, RecommendationInv, LoadInv, Published
<1> QED
  BY <1>5, <1>6, <1>7, <1>8 DEF RecommendationInv

(* A reader asks for what it has pinned, or for what is live.              *)
LEMMA WantedIsPublished ==
  ASSUME RecommendationInv, NEW r \in Request, InRead(r)
  PROVE  EntryOf(Wanted(r)) \in 1 .. Live /\ first[r] <= EntryOf(Wanted(r))
<1>1. PlaceInv(r) /\ pc[r] # "refused" /\ stage[r] \in Reads /\ Live \in 1 .. MaxCatalogs
  BY DEF InRead, RecommendationInv, OwnTypes, CatalogId
<1>2. CASE backend = "pipeline"
  BY <1>1, <1>2 DEF EntryOf, FoundAt, Wanted, PlaceInv, Published, Reads
<1>3. CASE backend # "pipeline"
  BY <1>1, <1>3, RecommendationAssumption DEF EntryOf, FoundAt, Wanted, PlaceInv
<1> QED
  BY <1>2, <1>3

LEMMA ReadPreserves ==
  ASSUME TypeOK, RecommendationInv, NEW r \in Request, Read(r)
  PROVE  RecommendationInv'
<1> DEFINE c == EntryOf(Wanted(r))
<1>1. /\ c \in 1 .. Live /\ first[r] <= c /\ Live \in 1 .. MaxCatalogs
      /\ c \in CatalogId /\ c \in 0 .. MaxCatalogs /\ c # 0
  BY WantedIsPublished, RecommendationAssumption DEF Read, RecommendationInv, OwnTypes, CatalogId
<1>2. /\ pc[r] \in {"catalog", "admitted"} /\ stage[r] \in Reads /\ joined[r] = None
      /\ stage[r] \in {"explain", "vectors"} => c = catalog[r]
  BY DEF Read, InRead, EntryOf, FoundAt, Wanted, RecommendationInv, PlaceInv
<1>3. flight[r] = 0
  BY <1>2, RecommendationAssumption DEF RecommendationInv, LoadInv
<1>4. /\ UNCHANGED <<vars, backend, catalogVars, now, first, usable, found, plan, mode, current>>
      /\ catalog' = [catalog EXCEPT ![r] = c]
      /\ \/ stage' = [stage EXCEPT ![r] = AfterRead(stage[r])] /\ UNCHANGED cacheVars
         \/ /\ shared[c] \in Request /\ joined' = [joined EXCEPT ![r] = shared[c]]
            /\ UNCHANGED <<stage, shared, flight>>
         \/ /\ StartLoad(r, c) /\ flight' = [flight EXCEPT ![r] = c]
            /\ joined' = [joined EXCEPT ![r] = r] /\ UNCHANGED stage
  BY DEF Read, GotoStage
<1> HIDE DEF c
<1>5. OwnTypes'
  BY <1>4 DEF catalogVars, RecommendationInv, OwnTypes, Live
<1>6. stage' \in [Request -> Stage] /\ stage'[r] \in {stage[r], AfterRead(stage[r])}
      /\ \A q \in Request \ {r} : stage'[q] = stage[q]
  BY <1>2, <1>4 DEF RecommendationInv, RequestTypes, Reads, AfterRead, Stage
<1>7. RequestTypes'
  BY <1>1, <1>4, <1>6 DEF RecommendationInv, RequestTypes
<1>8. CacheTypes'
  <2>1. shared' \in [CatalogId -> Request \cup {None, "ready"}]
    BY <1>1, <1>4 DEF StartLoad, cacheVars, RecommendationInv, CacheTypes
  <2> QED
    BY <1>1, <1>4, <2>1 DEF cacheVars, RecommendationInv, CacheTypes
<1>9. ASSUME NEW q \in Request PROVE PlaceInv(q)' /\ FoundInv(q)' /\ CurrentInv(q)'
  <2>1. PlaceInv(q) /\ FoundInv(q) /\ CurrentInv(q) /\ catalog \in [Request -> 0 .. MaxCatalogs]
    BY DEF RecommendationInv, RequestTypes
  <2>2. CASE q # r
    BY <1>4, <1>6, <2>1, <2>2 DEF vars, catalogVars, PlaceInv, FoundInv, CurrentInv, Published, UsableIn, Content, Live
  <2>3. CASE q = r
    <3>1. catalog'[r] = c /\ pc'[r] = pc[r] /\ found'[r] = found[r]
      BY <1>4, <2>1 DEF vars
    <3>2. PlaceInv(r)'
      BY <1>1, <1>2, <1>4, <1>6, <2>1, <2>3, <3>1 DEF catalogVars, PlaceInv, Published, Live, Reads, AfterRead
    <3>3. FoundInv(r)'
      BY <1>2, <1>4, <1>6, <2>1, <2>3, <3>1 DEF catalogVars, FoundInv, Content, Reads, AfterRead
    <3>4. CurrentInv(r)'
      BY <1>2, <1>6 DEF CurrentInv, Reads, AfterRead
    <3> QED
      BY <2>3, <3>2, <3>3, <3>4
  <2> QED
    BY <2>2, <2>3
<1>10. LoadInv'
  <2>1. LoadInv /\ joined \in [Request -> Request \cup {None}] /\ flight \in [Request -> 0 .. MaxCatalogs]
        /\ shared \in [CatalogId -> Request \cup {None, "ready"}] /\ catalog \in [Request -> 0 .. MaxCatalogs]
    BY DEF RecommendationInv, CacheTypes, RequestTypes
  <2>2. CASE stage' = [stage EXCEPT ![r] = AfterRead(stage[r])] /\ UNCHANGED cacheVars
    BY <1>2, <1>3, <1>4, <1>6, <2>1, <2>2 DEF vars, catalogVars, cacheVars, LoadInv, Published, Live
  <2>3. CASE /\ shared[c] \in Request /\ joined' = [joined EXCEPT ![r] = shared[c]]
             /\ UNCHANGED <<stage, shared, flight>>
    <3>1. flight[shared[c]] = c
      BY <1>1, <2>1, <2>3 DEF LoadInv
    <3> QED
      BY <1>1, <1>2, <1>3, <1>4, <2>1, <2>3, <3>1 DEF vars, catalogVars, LoadInv, Published, Live
  <2>4. CASE /\ StartLoad(r, c) /\ flight' = [flight EXCEPT ![r] = c]
             /\ joined' = [joined EXCEPT ![r] = r] /\ UNCHANGED stage
    <3>1. \A x \in CatalogId :
            shared'[x] \in Request => (x = c /\ shared'[x] = r) \/ (x # c /\ shared'[x] = shared[x])
      BY <1>1, <2>1, <2>4, RecommendationAssumption DEF StartLoad
    <3>2. \A x \in CatalogId : shared'[x] \in Request => flight'[shared'[x]] = x
      BY <1>1, <1>3, <2>1, <2>4, <3>1 DEF LoadInv, CatalogId
    <3>3. \A q \in Request : flight'[q] # 0 => joined'[q] = q \/ pc'[q] = "refused"
      BY <1>4, <2>1, <2>4 DEF vars, LoadInv
    <3>4. ASSUME NEW q \in Request, joined'[q] # None
          PROVE  /\ pc'[q] \in {"catalog", "admitted"} /\ stage'[q] \in Reads
                 /\ flight'[joined'[q]] # 0 /\ flight'[joined'[q]] = catalog'[q]
                 /\ Published(q)'
      <4>1. CASE q = r
        BY <1>1, <1>2, <1>4, <2>1, <2>4, <4>1 DEF vars, catalogVars, Published, Live
      <4>2. CASE q # r
        BY <1>3, <1>4, <2>1, <2>4, <3>4, <4>2 DEF vars, catalogVars, LoadInv, Published, Live
      <4> QED
        BY <4>1, <4>2
    <3> QED
      BY <3>2, <3>3, <3>4 DEF LoadInv
  <2> QED
    BY <1>4, <2>2, <2>3, <2>4
<1> QED
  BY <1>5, <1>7, <1>8, <1>9, <1>10 DEF RecommendationInv

(* A load ends: its entry is gone, and those who waited for it go on, or   *)
(* are given up when they cannot do without.                               *)
LEMMA DeliveryPreserves ==
  ASSUME RecommendationInv, NEW r \in Request, NEW lost \in SUBSET {q \in Request : joined[q] = r},
         flight[r] # 0, Deliver(r), OwnTypes',
         shared' \in [CatalogId -> Request \cup {None, "ready"}],
         \A c \in CatalogId : shared'[c] \in Request => shared'[c] = shared[c] /\ shared[c] # r,
         stage' = [q \in Request |-> IF joined[q] = r THEN AfterRead(stage[q]) ELSE stage[q]],
         pc' = [q \in Request |-> IF q \in lost THEN "refused" ELSE pc[q]],
         UNCHANGED <<clock, backend, head, withheld, catalogs, now, first, catalog, usable, found, plan, mode, current>>
  PROVE  RecommendationInv'
<1>1. flight' = [flight EXCEPT ![r] = 0] /\ joined' = [q \in Request |-> IF joined[q] = r THEN None ELSE joined[q]]
  BY DEF Deliver
<1>2. /\ LoadInv /\ RequestTypes /\ CacheTypes /\ None \notin Request
      /\ \A q \in Request : PlaceInv(q) /\ FoundInv(q) /\ CurrentInv(q)
  BY RecommendationAssumption DEF RecommendationInv
<1>3. ASSUME NEW q \in Request
      PROVE  /\ joined[q] = r => /\ stage[q] \in Reads /\ stage'[q] = AfterRead(stage[q])
                                /\ pc[q] \in {"catalog", "admitted"} /\ Published(q)
                                /\ pc'[q] \in {pc[q], "refused"}
             /\ joined[q] # r => stage'[q] = stage[q] /\ pc'[q] = pc[q]
  BY <1>2 DEF LoadInv
<1>4. RequestTypes'
  <2>1. \A q \in Request : stage'[q] \in Stage
    BY <1>2, <1>3 DEF RequestTypes, Reads, AfterRead, Stage
  <2> QED
    BY <1>2, <2>1 DEF RequestTypes
<1>5. CacheTypes'
  <2>1. 0 \in 0 .. MaxCatalogs
    BY RecommendationAssumption
  <2> QED
    BY <1>1, <1>2, <2>1 DEF CacheTypes
<1>6. ASSUME NEW q \in Request PROVE PlaceInv(q)' /\ FoundInv(q)' /\ CurrentInv(q)'
  <2>1. Published(q)' = Published(q) /\ UsableIn(catalog[q], clock)' = UsableIn(catalog[q], clock)
        /\ Content(catalog[q])' = Content(catalog[q])
    BY DEF Published, UsableIn, Content, Live
  <2>2. CASE joined[q] # r
    BY <1>2, <1>3, <2>1, <2>2 DEF PlaceInv, FoundInv, CurrentInv, Live
  <2>3. CASE joined[q] = r
    <3>1. PlaceInv(q)'
      BY <1>2, <1>3, <2>1, <2>3 DEF PlaceInv, Reads, AfterRead, Live
    <3>2. FoundInv(q)' /\ CurrentInv(q)'
      BY <1>2, <1>3, <2>1, <2>3 DEF FoundInv, CurrentInv, Reads, AfterRead
    <3> QED
      BY <3>1, <3>2
  <2> QED
    BY <2>2, <2>3
<1>7. LoadInv'
  <2>1. \A q \in Request : flight'[q] # 0 => joined'[q] = q \/ pc'[q] = "refused"
    BY <1>1, <1>2, <1>3 DEF LoadInv, CacheTypes
  <2>2. \A c \in CatalogId : shared'[c] \in Request => flight'[shared'[c]] = c
    BY <1>1, <1>2 DEF LoadInv, CacheTypes
  <2>3. ASSUME NEW q \in Request, joined'[q] # None
        PROVE  /\ pc'[q] \in {"catalog", "admitted"} /\ stage'[q] \in Reads
               /\ flight'[joined'[q]] # 0 /\ flight'[joined'[q]] = catalog'[q]
               /\ Published(q)'
    <3>1. joined[q] # r /\ joined'[q] = joined[q] /\ joined[q] \in Request
      BY <1>1, <1>2, <2>3 DEF CacheTypes
    <3>2. flight'[joined[q]] = flight[joined[q]]
      BY <1>1, <1>2, <3>1 DEF CacheTypes
    <3> QED
      BY <1>2, <1>3, <2>3, <3>1, <3>2 DEF LoadInv, Published, Live
  <2> QED
    BY <2>1, <2>2, <2>3 DEF LoadInv
<1> QED
  BY <1>4, <1>5, <1>6, <1>7 DEF RecommendationInv

LEMMA LoadSucceedsPreserves ==
  ASSUME TypeOK, RecommendationInv, NEW r \in Request, LoadSucceeds(r)
  PROVE  RecommendationInv'
<1>1. /\ flight[r] \in CatalogId
      /\ shared \in [CatalogId -> Request \cup {None, "ready"}] /\ None \notin Request /\ "ready" \notin Request
      /\ \A c \in CatalogId : shared[c] = r => c = flight[r]
  BY RecommendationAssumption DEF LoadSucceeds, RecommendationInv, CacheTypes, LoadInv, CatalogId
<1>2. shared' \in [CatalogId -> Request \cup {None, "ready"}]
  BY <1>1 DEF LoadSucceeds, Keep
<1>3. \A c \in CatalogId : shared'[c] \in Request => shared'[c] = shared[c] /\ shared[c] # r
  BY <1>1 DEF LoadSucceeds, Keep
<1>4. OwnTypes'
  BY DEF LoadSucceeds, catalogVars, RecommendationInv, OwnTypes, Live
<1>5. pc' = [q \in Request |-> IF q \in {} THEN "refused" ELSE pc[q]]
  BY DEF LoadSucceeds, vars, TypeOK
<1> DEFINE nobody == {}
<1>6. nobody \in SUBSET {q \in Request : joined[q] = r}
  OBVIOUS
<1> QED
  BY <1>2, <1>3, <1>4, <1>5, <1>6, DeliveryPreserves DEF LoadSucceeds, vars, catalogVars

LEMMA LoadFailsPreserves ==
  ASSUME TypeOK, RecommendationInv, NEW r \in Request, LoadFails(r)
  PROVE  RecommendationInv'
<1> DEFINE lost == {q \in Request : joined[q] = r /\ ReadIsVital(q)}
<1>1. /\ flight[r] \in CatalogId
      /\ shared \in [CatalogId -> Request \cup {None, "ready"}] /\ None \notin Request
      /\ \A c \in CatalogId : shared[c] = r => c = flight[r]
  BY RecommendationAssumption DEF LoadFails, RecommendationInv, CacheTypes, LoadInv, CatalogId
<1>2. shared' = [shared EXCEPT ![flight[r]] = None]
  BY DEF LoadFails, Forgotten, Forget
<1>3. /\ shared' \in [CatalogId -> Request \cup {None, "ready"}]
      /\ \A c \in CatalogId : shared'[c] \in Request => shared'[c] = shared[c] /\ shared[c] # r
  BY <1>1, <1>2
<1>4. OwnTypes'
  BY RecommendationAssumption DEF LoadFails, RecommendationInv, OwnTypes, Live
<1>5. /\ pc' = [q \in Request |-> IF q \in lost THEN "refused" ELSE pc[q]]
      /\ clock' = clock
  <2>1. CASE lost = {}
    BY <2>1 DEF LoadFails, vars, TypeOK
  <2>2. CASE lost # {}
    BY <2>2 DEF LoadFails, Abandon
  <2> QED
    BY <2>1, <2>2
<1>6. lost \in SUBSET {q \in Request : joined[q] = r}
  OBVIOUS
<1> HIDE DEF lost
<1> QED
  BY <1>3, <1>4, <1>5, <1>6, DeliveryPreserves DEF LoadFails

(* What a request knew is gone with it; its load goes on.                  *)
LEMMA AbortPreserves ==
  ASSUME TypeOK, RecommendationInv, NEW r \in Request, Abort(r)
  PROVE  RecommendationInv'
<1>1. /\ pc' = [pc EXCEPT ![r] = "refused"] /\ clock' = clock
      /\ joined' = [joined EXCEPT ![r] = None]
  BY DEF Abort, Abandon, TypeOK
<1>2. stage'[r] = "pin" /\ found'[r] = {} /\ first'[r] = 0
  BY DEF Abort, GotoStage, RecommendationInv, RequestTypes
<1>3. OwnTypes' /\ CacheTypes'
  BY <1>1 DEF Abort, catalogVars, RecommendationInv, OwnTypes, CacheTypes, Live
<1>4. RequestTypes'
  <2>1. 0 \in 0 .. MaxTime /\ 0 \in 0 .. MaxCatalogs /\ "pin" \in Stage /\ {} \in SUBSET Session
    BY LimitsAssumption, RecommendationAssumption DEF Stage
  <2> QED
    BY <2>1 DEF Abort, GotoStage, RecommendationInv, RequestTypes
<1>5. ASSUME NEW q \in Request PROVE PlaceInv(q)' /\ FoundInv(q)' /\ CurrentInv(q)'
  <2>1. CASE q = r
    <3>1. pc'[r] = "refused" /\ 0 <= Live' /\ Live' = Live
      BY <1>1, RecommendationAssumption DEF Abort, catalogVars, TypeOK, RecommendationInv, OwnTypes, CatalogId, Live
    <3> QED
      BY <1>2, <2>1, <3>1 DEF PlaceInv, FoundInv, CurrentInv
  <2>2. CASE q # r
    <3>1. /\ pc'[q] = pc[q] /\ stage'[q] = stage[q] /\ first'[q] = first[q] /\ catalog'[q] = catalog[q]
          /\ found'[q] = found[q] /\ plan'[q] = plan[q] /\ mode'[q] = mode[q] /\ current'[q] = current[q]
      BY <1>1, <2>2 DEF Abort, GotoStage, TypeOK, RecommendationInv, RequestTypes
    <3> QED
      BY <1>1, <3>1 DEF Abort, catalogVars, RecommendationInv, PlaceInv, FoundInv, CurrentInv, Published, UsableIn, Content, Live
  <2> QED
    BY <2>1, <2>2
<1>6. LoadInv'
  <2>1. \A q \in Request \ {r} : /\ pc'[q] = pc[q] /\ stage'[q] = stage[q] /\ first'[q] = first[q]
                                 /\ catalog'[q] = catalog[q] /\ joined'[q] = joined[q]
    BY <1>1 DEF Abort, GotoStage, TypeOK, RecommendationInv, RequestTypes, CacheTypes
  <2>2. pc'[r] = "refused" /\ joined'[r] = None /\ UNCHANGED <<shared, flight, catalogs>>
    BY <1>1 DEF Abort, catalogVars, TypeOK, RecommendationInv, CacheTypes
  <2> QED
    BY <2>1, <2>2 DEF RecommendationInv, LoadInv, Published, Live
<1> QED
  BY <1>3, <1>4, <1>5, <1>6 DEF RecommendationInv

-----------------------------------------------------------------------------
LEMMA RecommendationInitial == RecommendationInit => RecommendationInv
<1> SUFFICES ASSUME RecommendationInit PROVE RecommendationInv
  OBVIOUS
<1> DEFINE all == [s \in Session |-> 1]
           c == Snapshot(Session, all, 0)
<1>1. c \in Publication
  <2>1. 1 \in 1 .. MaxRevision /\ 0 \in 0 .. MaxTime
    BY RecommendationAssumption, LimitsAssumption
  <2>2. all \in [Session -> 1 .. MaxRevision]
    BY <2>1
  <2> QED
    BY <2>1, <2>2, SnapshotType
<1>2. catalogs = <<c>> /\ backend \in {"snapshots", "pipeline"} /\ head = all /\ withheld = {}
  BY DEF RecommendationInit
<1> HIDE DEF c
<1>3. catalogs \in Seq(Publication) /\ Live = 1
  BY <1>1, <1>2 DEF Live
<1>4. 0 \in 0 .. MaxTime /\ 0 \in 0 .. MaxCatalogs /\ 1 \in 1 .. MaxCatalogs /\ 1 \in 1 .. MaxRevision
      /\ 0 \in 0 .. MaxChanges /\ 0 \in 0 .. MaxFailures /\ None \notin Request /\ None # "ready"
  BY RecommendationAssumption, LimitsAssumption
<1>5. OwnTypes
  BY <1>2, <1>3, <1>4 DEF RecommendationInit, OwnTypes, CatalogId
<1>6. RequestTypes /\ CacheTypes
  BY <1>4 DEF RecommendationInit, RequestTypes, CacheTypes, Stage
<1>7. \A r \in Request : PlaceInv(r) /\ FoundInv(r) /\ CurrentInv(r)
  BY <1>3 DEF RecommendationInit, Init, PlaceInv, FoundInv, CurrentInv
<1>8. LoadInv
  BY <1>4 DEF RecommendationInit, LoadInv
<1> QED
  BY <1>5, <1>6, <1>7, <1>8 DEF RecommendationInv

LEMMA RecommendationStep ==
  ASSUME TypeOK, RecommendationInv, [RecommendationNext]_allVars
  PROVE  RecommendationInv'
<1>1. CASE UNCHANGED allVars
  BY <1>1 DEF allVars, vars, catalogVars, cacheVars, requestVars, RecommendationInv, OwnTypes, RequestTypes, CacheTypes,
              PlaceInv, FoundInv, CurrentInv, LoadInv, Published, UsableIn, Content, Live
<1>2. CASE ChangeSource \/ Publish \/ Pass
  BY <1>2, ChangeSourcePreserves, PublishPreserves, PassPreserves
<1>3. ASSUME NEW r \in Request, RequestStep(r) PROVE RecommendationInv'
  BY <1>3, AdmitPreserves, PinPreserves, CheckAvailabilityPreserves, AssessPreserves, InterpretPreserves,
     RecheckPreserves, ExplainPreserves, ReadPreserves, ProjectPreserves, RankPreserves, FinalizePreserves
     DEF RequestStep
<1>4. ASSUME NEW r \in Request, LoadEnds(r) \/ Abort(r) PROVE RecommendationInv'
  BY <1>4, LoadSucceedsPreserves, LoadFailsPreserves, AbortPreserves DEF LoadEnds
<1> QED
  BY <1>1, <1>2, <1>3, <1>4 DEF RecommendationNext

LEMMA RecommendationInductive == RecommendationSpec => [](TypeOK /\ RecommendationInv)
<1>1. RecommendationSpec => []TypeOK
  BY ImplementsLimits, TypeCorrect, PTL
<1>2. TypeOK /\ RecommendationInv /\ [RecommendationNext]_allVars => RecommendationInv'
  BY RecommendationStep
<1> QED
  BY <1>1, <1>2, RecommendationInitial, PTL DEF RecommendationSpec

(* Every variable keeps its type.                                          *)
THEOREM RecommendationTypes == RecommendationSpec => []RecommendationTypeOK
<1>1. TypeOK /\ RecommendationInv => RecommendationTypeOK
  BY DEF RecommendationInv, OwnTypes, RequestTypes, CacheTypes, RecommendationTypeOK
<1> QED
  BY <1>1, RecommendationInductive, PTL

(* Whatever requests do besides, no bucket grants more than its limit.     *)
THEOREM AdmissionIsLimited == RecommendationSpec => []GrantsWithinLimit
BY ImplementsLimits, LimitsAreKept, PTL

(* However the sources of a pinned catalog change while a request runs,    *)
(* what it shows was current at some time after its ranking.               *)
THEOREM CardsStayCurrent == RecommendationSpec => []CardsAreCurrent
<1>1. RecommendationInv => CardsAreCurrent
  BY DEF RecommendationInv, CurrentInv, CardsAreCurrent, Answered
<1> QED
  BY <1>1, RecommendationInductive, PTL

(* Whatever the instance has in its cache, and whatever is published while *)
(* a request runs, its cards come from one catalog that was live meanwhile.*)
THEOREM OneLiveCatalog == RecommendationSpec => []CatalogWasLive
<1>1. ASSUME RecommendationInv, NEW r \in Request, Answered(r)
      PROVE  found[r] \subseteq Content(catalog[r]) /\ catalog[r] \in first[r] .. Live
  <2>1. PlaceInv(r) /\ FoundInv(r) /\ first[r] \in 0 .. MaxCatalogs /\ Live \in 1 .. MaxCatalogs
    <3>1. PlaceInv(r) /\ FoundInv(r)
      BY <1>1 DEF RecommendationInv
    <3>2. first[r] \in 0 .. MaxCatalogs
      BY <1>1 DEF RecommendationInv, RequestTypes
    <3>3. Live \in 1 .. MaxCatalogs
      BY <1>1 DEF RecommendationInv, OwnTypes, CatalogId
    <3> QED
      BY <3>1, <3>2, <3>3
  <2>2. catalog[r] \in 1 .. Live /\ first[r] <= catalog[r]
    BY <1>1, <2>1 DEF PlaceInv, Published, Answered
  <2>3. catalog[r] \in first[r] .. Live
    BY <2>1, <2>2
  <2> QED
    BY <1>1, <2>1, <2>3 DEF FoundInv, Answered
<1>2. RecommendationInv => CatalogWasLive
  BY <1>1 DEF CatalogWasLive
<1> QED
  BY <1>2, RecommendationInductive, PTL

(* No interpreter, ranker or fallback brings a card that the plan does not *)
(* support.                                                                *)
THEOREM CardsStayProven == RecommendationSpec => []CardsAreProven
<1>1. RecommendationInv => CardsAreProven
  BY DEF RecommendationInv, FoundInv, CardsAreProven, Answered
<1> QED
  BY <1>1, RecommendationInductive, PTL

(* Nobody waits for a load that is not under way.                          *)
THEOREM NoLoadIsLost == RecommendationSpec => []JoinedLoadsRun
<1>1. RecommendationInv => JoinedLoadsRun
  BY DEF RecommendationInv, LoadInv, JoinedLoadsRun
<1> QED
  BY <1>1, RecommendationInductive, PTL
=============================================================================
