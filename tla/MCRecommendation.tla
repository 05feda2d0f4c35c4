--------------------------- MODULE MCRecommendation ---------------------------
(* Two requests of one visitor, and plans as PlanEvidence judges them.      *)
EXTENDS Recommendation, PlanEvidence

CONSTANTS r1, r2, v, s1, s2

Topic == [kind |-> "topic", name |-> "jazz"]
Fact == [kind |-> "fact", name |-> "saturday"]
GroupBudget == [kind |-> "group_budget", amount |-> 2]
Party(n) == [kind |-> "party", count |-> n]
Mood == [kind |-> "mood", name |-> "calm"]

Leaf(atom) == [type |-> "atom", atom |-> atom]
Not(condition) == [type |-> "not", child |-> condition]
AllOf(conditions) == [type |-> "all", children |-> conditions]
AnyOf(conditions) == [type |-> "any", children |-> conditions]

PlanOf(hard, preferences) == [hard |-> hard, preferences |-> preferences]

Symmetries == Permutations(Request)

(* A Saturday without jazz, and a calm evening for two within a budget.     *)
Plans == {PlanOf(AllOf(<<Leaf(Fact), Not(Leaf(Topic))>>), {}),
          PlanOf(AllOf(<<Leaf(Party(2)), Leaf(GroupBudget)>>), {Leaf(Mood)})}

Known(f, t, price) == [facts |-> (Fact :> f @@ Topic :> t), price |-> price, elsewhere |-> FALSE]
Sources == (s1 :> Known("supported", "unknown", 1)) @@ (s2 :> Known("supported", "unknown", 2))
PlanSupports(p, s) == PlanSupported(p, Sources[s])
LastTick == (s1 :> 0) @@ (s2 :> 1)

(* What counts as supported holds, however the unknown turns out: for all   *)
(* conditions of two levels over these atoms, and all that may be known.    *)
Literals == {Leaf(a) : a \in {Topic, Fact, GroupBudget, Party(1), Party(2)}}
Grown(conditions, few) ==
  conditions \cup {Not(c) : c \in conditions}
    \cup UNION {{AllOf(<<c, d>>), AnyOf(<<c, d>>)} : c \in conditions, d \in few}
ASSUME PlansAreSound ==
  \A hard \in Grown(Grown(Literals, Literals), {Leaf(Topic), Leaf(Party(2))}) :
    LET p == PlanOf(hard, {}) IN
    ValidPlan(p) =>
      \A f \in {"supported", "unknown"}, t \in {"supported", "unknown", "hinted"}, price \in {1, 2} :
        PlanSupported(p, Known(f, t, price)) => PlanHolds(p, Known(f, t, price))

(* Small lists of events, two of them sessions of one production or of one  *)
(* show of two productions; titles read as they were when the catalog was   *)
(* prepared, or were not read then.                                         *)
Cards == INSTANCE Ranking
Shown(production, display, saved, start, calm) ==
  [production |-> production, display |-> display, saved |-> saved, start |-> start, calm |-> calm,
   price |-> IF start = 1 THEN None ELSE start, category |-> "concert", child |-> FALSE,
   mentions |-> {}, side |-> None, district |-> None]
Titles == {[p \in 1..3 |-> IF p = 3 THEN 30 ELSE 10], [p \in 1..3 |-> IF p = 2 THEN None ELSE 10 * p]}
Lists ==
  {[i \in 1..3 |-> Shown(ps[i], title[ps[i]], IF read THEN title[ps[i]] ELSE None, starts[i], calm[i])] :
     ps \in {<<1, 1, 2>>, <<1, 2, 1>>, <<1, 2, 3>>, <<2, 2, 1>>}, title \in Titles, read \in BOOLEAN,
     starts \in [1..3 -> 1..2],
     calm \in {<< <<>>, <<>>, <<>> >>, << <<>>, <<"acoustic">>, <<"acoustic", "candle">> >>,
               << <<"candle">>, <<"candle">>, <<>> >>}}
Everything == <<1, 2, 3>>

Wish(reading, order, calm) ==
  [reading |-> reading, order |-> order, calm |-> calm, children |-> FALSE, partner |-> TRUE,
   category |-> None, rejected |-> {}, soft |-> [preferences |-> <<>>, partyCount |-> None]]
Wishes == {Wish("plan", order, calm) : order \in {"none", "soonest", "cheapest"}, calm \in BOOLEAN}
            \cup {Wish("intent", "soonest", FALSE), Wish("rules", "none", FALSE)}
Relevances ==
  {[semantic |-> dense # <<>>, hits |-> [i \in 1..3 |-> i % 2], lexical |-> <<3>>, dense |-> dense] :
     dense \in {<<>>, <<1>>} \cup {<<p[1], p[2], p[3]>> : p \in Permutations(1..3)}}

Together(E, i, j) ==
  Cards!ShowToday(E[i]) = Cards!ShowToday(E[j]) \/ Cards!ProductionIdentity(E[i]) = Cards!ProductionIdentity(E[j])
FirstOfItsShow(E, wish, i) ==
  \A j \in DOMAIN E : Together(E, i, j) =>
    CASE wish.order = "soonest" -> ~Cards!SoonerById(E, j, i)
      [] wish.order = "cheapest" -> ~Cards!Cheaper(E, j, i)
      [] OTHER -> TRUE

(* No place of a shortlist is wasted on a second session of a show, and     *)
(* none stays empty while a show is left; an ordered wish gets the first    *)
(* session of each; the basic order drops nothing of the shortlist; and a   *)
(* calm evening has a calm program to be judged, if there is one.           *)
ASSUME NoPlaceIsWasted ==
  \A E \in Lists, wish \in Wishes, relevance \in Relevances, limit \in 1..3 :
    LET s == Cards!ShortlistEvents(E, Everything, wish, relevance, limit)
        shows == Cardinality({Cards!ShowToday(E[i]) : i \in 1..3})
    IN  /\ Len(s) = IF shows < limit THEN shows ELSE limit
        /\ \A i, j \in ToSet(s) : i # j => Cards!ShowToday(E[i]) # Cards!ShowToday(E[j])
        /\ \A i \in ToSet(s) : FirstOfItsShow(E, wish, i)
        /\ ToSet(Cards!FallbackEvents(E, s, wish, relevance)) = ToSet(s)
        /\ wish.calm /\ relevance.semantic /\ limit >= 2 /\ wish.order = "none"
             /\ (\E i \in ToSet(Cards!OnePerShow(E, Cards!HybridRank(E, Everything, relevance))) : E[i].calm # <<>>)
           => \E i \in ToSet(s) : E[i].calm # <<>>

(* A show saved under two keys by older rules takes two places, and the     *)
(* ranker may then choose its later session: the code that mixes two        *)
(* orders goes by the saved key, diverseEvents by today's.                  *)
ASSUME OldKeysTakeTwoPlaces ==
  LET E == <<Shown(1, 10, 11, 1, <<>>), Shown(2, 10, 12, 2, <<>>), Shown(3, 30, 30, 2, <<>>)>>
      wish == Wish("plan", "soonest", FALSE)
      relevance == [semantic |-> TRUE, hits |-> <<0, 0, 0>>, lexical |-> <<2>>, dense |-> <<2, 1, 3>>]
      s == Cards!ShortlistEvents(E, Everything, wish, relevance, 2)
      judged == <<[event |-> 2, score |-> 3, supported |-> TRUE], [event |-> 1, score |-> 2, supported |-> TRUE]>>
  IN  s = <<1, 2>> /\ Cards!SelectJevEvents(E, s, judged, wish) = <<2>>

(* What both rankings prefer the fused one prefers, and what neither has    *)
(* found comes last.                                                        *)
ASSUME FusionAgrees ==
  \A lexical \in UNION {{SubSeq(<<p[1], p[2], p[3]>>, 1, n) : p \in Permutations(1..3)} : n \in 0..3},
     dense \in {SubSeq(<<p[1], p[2], p[3]>>, 1, n) : p \in Permutations(1..3), n \in 1..3} :
    LET E == [i \in 1..3 |-> Shown(i, None, None, 1, <<>>)]
        fused == Cards!HybridRank(E, Everything, [semantic |-> TRUE, hits |-> <<0, 0, 0>>, lexical |-> lexical, dense |-> dense])
        In(ranking, i) == IF i \in ToSet(ranking) THEN CHOOSE k \in DOMAIN ranking : ranking[k] = i ELSE 4
        Before(ranking, i, j) == In(ranking, i) < In(ranking, j)
        NoLater(ranking, i, j) == In(ranking, i) <= In(ranking, j)
    IN  \A i, j \in 1..3 :
          NoLater(lexical, i, j) /\ NoLater(dense, i, j) /\ (Before(lexical, i, j) \/ Before(dense, i, j))
            => Before(fused, i, j)

(* A nudge moves an event by a bounded number of places: one that is liked  *)
(* passes a neutral one at place k only from a place before 15 + 5k/4.  At  *)
(* the head of the list that is the last place of a shortlist of sixteen.   *)
ASSUME NudgesAreBounded ==
  LET place(liked) == [i \in 1..20 |-> [Shown(i, None, None, 1, <<>>) EXCEPT !.side = IF i = liked THEN "asia" ELSE None]]
      asia == [type |-> "atom", atom |-> [kind |-> "location", precision |-> "side", side |-> "asia"]]
      soft == [preferences |-> <<asia>>, partyCount |-> None]
      ranked == [i \in 1..20 |-> i]
  IN  \A liked \in 2..20 :
        LET nudged == Cards!ApplySoftPreferences(place(liked), ranked, soft) IN
        \A k \in 1..20 :
          k < liked => ((CHOOSE n \in 1..20 : nudged[n] = liked) <= k) = (4 * liked < 60 + 5 * k)

(* However the ranker scores and repeats itself, the cards are supported    *)
(* events of the shortlist, one of each show: the best scored one, unless   *)
(* the wish orders them by time or price.                                   *)
Judgements == [event : 1..4, score : 0..1, supported : BOOLEAN]
ASSUME JudgedCardsAreDistinct ==
  \A titled \in BOOLEAN, j1, j2, j3 \in Judgements, order \in {"none", "soonest", "cheapest"} :
    LET E == [i \in 1..3 |-> Shown(i, IF titled /\ i < 3 THEN 10 ELSE None, None, 3 - i, <<>>)]
        judged == <<j1, j2, j3>>
        cards == Cards!SelectJevEvents(E, Everything, judged, Wish("plan", order, FALSE))
        Best(i) == Max({j.score : j \in {j \in ToSet(judged) : j.event = i /\ j.supported}})
    IN  /\ \A k \in DOMAIN cards : \E j \in ToSet(judged) : j.event = cards[k] /\ j.supported
        /\ \A k, l \in DOMAIN cards : k # l => ~Together(E, cards[k], cards[l])
        /\ \A j \in ToSet(judged) : j.supported /\ j.event \in 1..3
             => \E k \in DOMAIN cards : Together(E, cards[k], j.event) /\ Best(cards[k]) >= j.score
        /\ order = "soonest" => \A k, l \in DOMAIN cards : k < l => ~Cards!Sooner(E, cards[l], cards[k])

(* What a catalog may say of an event, and what may be asked for.           *)
Pool == INSTANCE Candidates WITH Districts <- {"kadikoy", "besiktas"}, MaxAge <- 3, MaxAhead <- 1
Told(id, production) ==
  [id |-> id, production |-> production, show |-> None, merged |-> {}, start |-> 5, day |-> 1, minute |-> 20,
   checked |-> 5, available |-> TRUE, price |-> 2, category |-> "concert", district |-> "istanbul",
   address |-> None, venueNames |-> {}, timing |-> [kind |-> None], doorsOnly |-> FALSE]
AnyFilter ==
  [category |-> None, categories |-> None, excludedCategories |-> {}, maxPrice |-> None, priceExclusive |-> FALSE,
   dateFrom |-> None, dateTo |-> None, timeFrom |-> None, timeTo |-> None, fromExclusive |-> FALSE,
   toExclusive |-> FALSE, district |-> None]

(* A district is admitted by what states it: listing and address must not   *)
(* contradict each other, and a venue's name only counts where both are     *)
(* silent.                                                                  *)
ASSUME DistrictsNeedEvidence ==
  \A listed \in {"istanbul", "kadikoy", "besiktas"}, address \in {None, "kadikoy", "besiktas"},
     names \in SUBSET {"kadikoy", "besiktas"}, wanted \in {"kadikoy", "besiktas"} :
    LET e == [Told(1, 10) EXCEPT !.district = listed, !.address = address, !.venueNames = names]
        stated == {listed, address} \ {"istanbul", None}
    IN  Pool!IsEligible(e, [AnyFilter EXCEPT !.district = wanted], 5)
          = (stated = {wanted} \/ (stated = {} /\ wanted \in names))

(* Days and times admit an event if it is then: some day it is open is a    *)
(* day asked for, and a stated start lies between the times, if any.        *)
Bounds == {None} \cup 0..2
ASSUME TimesNeedEvidence ==
  \A from, to, timeFrom, timeTo \in Bounds, fromExclusive, toExclusive, doors \in BOOLEAN,
     timing \in {[kind |-> None], [kind |-> "timed_session"], [kind |-> "unresolved"]}
                 \cup {[kind |-> "admission_window", from |-> a, to |-> b] : a \in 0..1, b \in 1..2} :
    LET e == [Told(1, 10) EXCEPT !.timing = timing, !.doorsOnly = doors, !.minute = 1]
        open == IF timing.kind = "admission_window" THEN timing.from..timing.to ELSE {1}
        asked == {day \in 0..2 : (from # None => day >= from) /\ (to # None => day <= to)}
        between == {m \in 0..2 : /\ timeFrom # None => m >= timeFrom /\ ~(fromExclusive /\ m = timeFrom)
                                 /\ timeTo # None => m <= timeTo /\ ~(toExclusive /\ m = timeTo)}
        starts == timing.kind \in {None, "timed_session"} /\ ~doors
    IN  (from # None /\ to # None => from <= to) =>
          Pool!IsEligible(e, [AnyFilter EXCEPT !.dateFrom = from, !.dateTo = to, !.timeFrom = timeFrom, !.timeTo = timeTo,
                                               !.fromExclusive = fromExclusive, !.toExclusive = toExclusive], 5)
            = /\ open \cap asked # {}
              /\ (timeFrom # None \/ timeTo # None) => starts /\ 1 \in between

(* Who asks for alternatives again and again gets each production once, one *)
(* at a time here, as long as no more was shown than is remembered; then    *)
(* what was shown first returns.                                            *)
RECURSIVE AskAgain(_, _, _, _)
AskAgain(events, excluded, limit, times) ==
  LET rest == Pool!Admitted(events, AnyFilter, ToSet(excluded), 5)
      card == CHOOSE e \in rest : \A o \in rest : e.id <= o.id
  IN  IF times = 0 \/ rest = {} THEN <<>>
      ELSE <<card>> \o AskAgain(events, Pool!Remembered(excluded, <<card.id>>, limit), limit, times - 1)
ASSUME AlternativesAreNew ==
  \A productions \in [1..4 -> {10, 20, 30}], limit \in 1..3 :
    LET shown == AskAgain({Told(i, productions[i]) : i \in 1..4}, <<>>, limit, 4)
        distinct == Cardinality(ToSet(productions))
    IN  /\ \A k, l \in DOMAIN shown : k < l /\ l <= k + limit => shown[k].production # shown[l].production
        /\ Len(shown) = IF limit < distinct THEN 4 ELSE distinct
        /\ limit < distinct => shown[limit + 1].production # shown[1].production

(* A shown session that is no longer eligible takes its production out of   *)
(* the exclusion: another session of it counts as an alternative.           *)
ASSUME GoneSessionsAreForgotten ==
  LET gone == [Told(1, 10) EXCEPT !.available = FALSE]
  IN  Pool!Admitted({gone, Told(2, 10)}, AnyFilter, {1}, 5) = {Told(2, 10)}
=============================================================================
