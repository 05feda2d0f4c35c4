------------------------------- MODULE Ranking -------------------------------
(***************************************************************************)
(* From the admitted events of a request to its cards: the shortlist and   *)
(* the basic order of web/lib/retrieval.ts, the fusion of rankings of      *)
(* hybrid.ts, the nudges of soft-preferences.ts, and the selection behind  *)
(* the ranker of recommend.ts.                                             *)
(*                                                                         *)
(* Events are a function E from ids, numbers in the order the code         *)
(* compares them by, to records: start, price, category, the keys          *)
(* "production", "display" (what today's rules make of the title) and      *)
(* "saved" (what the snapshot was prepared with), whether the text is      *)
(* directed at children, its calm formats, and its place.                  *)
(*                                                                         *)
(* A wish says how it was read ("plan", "intent" or "rules"), its order,   *)
(* and what the ranking takes from it.  Relevance is what texts and        *)
(* vectors say: the words found per event, and two rankings.               *)
(***************************************************************************)
EXTENDS Integers, Sequences, FiniteSets, SequencesExt

CONSTANT None

-----------------------------------------------------------------------------
(* Sequences of events.                                                    *)

Sorted(s, Less(_, _)) ==
  LET Before(i, j) == Less(s[i], s[j]) \/ (~Less(s[j], s[i]) /\ i < j)
  IN  [k \in DOMAIN s |->
         s[CHOOSE i \in DOMAIN s : Cardinality({j \in DOMAIN s : Before(j, i)}) = k - 1]]

FirstOfEach(s, Key(_)) ==
  FoldLeft(LAMBDA kept, i : IF \E k \in ToSet(kept) : Key(k) = Key(i) THEN kept ELSE Append(kept, i), <<>>, s)

Take(s, limit) == IF Len(s) <= limit THEN s ELSE SubSeq(s, 1, limit)

Sooner(E, i, j) == E[i].start < E[j].start
SoonerById(E, i, j) == Sooner(E, i, j) \/ (E[i].start = E[j].start /\ i < j)
Cheaper(E, i, j) ==
  \/ E[i].price # None /\ (E[j].price = None \/ E[i].price < E[j].price)
  \/ E[i].price = E[j].price /\ Sooner(E, i, j)

-----------------------------------------------------------------------------
(* One card per production, and per show whose title says so.  The saved   *)
(* key of a show goes before the one of today in the code that mixes two   *)
(* orders, and behind it everywhere else.                                  *)

ProductionIdentity(e) == <<"production", e.production>>
ShowToday(e) ==
  IF e.display # None THEN <<"display", e.display>>
  ELSE IF e.saved # None THEN <<"saved", e.saved>> ELSE ProductionIdentity(e)
ShowSaved(e) ==
  IF e.saved # None THEN <<"saved", e.saved>>
  ELSE IF e.display # None THEN <<"display", e.display>> ELSE ProductionIdentity(e)

UniqueEvents(E, s) == FirstOfEach(s, LAMBDA i : ProductionIdentity(E[i]))
DiverseEvents(E, s) == FirstOfEach(s, LAMBDA i : ShowToday(E[i]))
OnePerShow(E, s) == DiverseEvents(E, UniqueEvents(E, s))

-----------------------------------------------------------------------------
(* Fractions, for scores and signals.                                      *)

Minus(q) == <<-q[1], q[2]>>
Plus(p, q) == <<p[1] * q[2] + q[1] * p[2], p[2] * q[2]>>
LessThan(p, q) == p[1] * q[2] < q[1] * p[2]
Larger(p, q) == IF LessThan(p, q) THEN q ELSE p
Smaller(p, q) == IF LessThan(p, q) THEN p ELSE q
Zero == <<0, 1>>
One == <<1, 1>>
Mean(signals) ==
  LET sum == FoldLeft(Plus, Zero, signals) IN <<sum[1], sum[2] * Len(signals)>>

-----------------------------------------------------------------------------
(* hybrid.ts: reciprocal ranks of the words and of the vectors are added,  *)
(* so that the two kinds of score are never compared.                      *)

RANK_K == 60

RankEvents(E, s, relevance) ==
  Sorted(s, LAMBDA i, j :
    \/ relevance.hits[i] > relevance.hits[j]
    \/ relevance.hits[i] = relevance.hits[j] /\ Sooner(E, i, j))

PlaceIn(ranking, i) == IF i \in ToSet(ranking) THEN <<1, RANK_K + CHOOSE k \in DOMAIN ranking : ranking[k] = i>> ELSE Zero

HybridRank(E, s, relevance) ==
  LET dense == FirstOfEach(SelectSeq(relevance.dense, LAMBDA i : i \in ToSet(s)), LAMBDA i : i)
      Score(i) == Plus(PlaceIn(relevance.lexical, i), PlaceIn(dense, i))
  IN  IF dense = <<>> THEN RankEvents(E, s, relevance)
      ELSE Sorted(s, LAMBDA i, j : \/ LessThan(Score(j), Score(i))
                                   \/ ~LessThan(Score(i), Score(j)) /\ SoonerById(E, i, j))

-----------------------------------------------------------------------------
(* soft-preferences.ts: places and budgets one would like.  A condition    *)
(* gives one signal between -1 and 1, or none; an atom whose place or      *)
(* currency is not understood is of another kind and gives none.           *)

LocationSignal(e, atom) ==
  CASE e.side = None -> Zero
    [] e.side # atom.side -> <<-1, 2>>
    [] atom.precision = "side" -> One
    [] atom.district # None /\ e.district = atom.district ->
         IF atom.precision = "neighborhood" THEN <<3, 4>> ELSE One
    [] OTHER -> <<1, 4>>

BudgetSignal(e, atom, partyCount) ==
  IF e.price = None \/ (atom.basis = "group_total" /\ partyCount = None) THEN Zero
  ELSE LET price == IF atom.basis = "group_total" THEN e.price * partyCount ELSE e.price
           over == <<price - atom.amount, atom.amount>>
           distance == Larger(over, Minus(over))
       IN  CASE atom.comparison \in {"lt", "lte"} ->
                  IF price < atom.amount \/ (price = atom.amount /\ atom.comparison = "lte") THEN One
                  ELSE Minus(Smaller(One, <<2 * over[1], over[2]>>))
             [] atom.comparison \in {"gt", "gte"} ->
                  IF price > atom.amount \/ (price = atom.amount /\ atom.comparison = "gte") THEN One ELSE <<-1, 2>>
             [] atom.comparison = "approx" ->
                  IF ~LessThan(<<1, 5>>, distance) THEN One ELSE Minus(Smaller(One, distance))

RECURSIVE ConditionSignal(_, _, _)
ConditionSignal(e, condition, partyCount) ==
  CASE condition.type = "atom" ->
         CASE condition.atom.kind = "location" -> <<LocationSignal(e, condition.atom)>>
           [] condition.atom.kind = "budget" -> <<BudgetSignal(e, condition.atom, partyCount)>>
           [] OTHER -> <<>>
    [] condition.type = "not" -> <<>>
    [] OTHER ->
         LET signals == FoldLeft(LAMBDA found, child : found \o ConditionSignal(e, child, partyCount),
                                 <<>>, condition.children)
         IN  IF signals = <<>> THEN <<>>
             ELSE IF condition.type = "any" THEN <<FoldLeft(Larger, Head(signals), signals)>>
             ELSE <<Mean(signals)>>

SoftPreferenceSignal(e, soft) ==
  LET signals == FoldLeft(LAMBDA found, condition : found \o ConditionSignal(e, condition, soft.partyCount),
                          <<>>, soft.preferences)
  IN  IF signals = <<>> THEN Zero ELSE Larger(Minus(One), Smaller(One, Mean(signals)))

(* (1 + signal / 4) / (RANK_K + rank), ties in the order of relevance.     *)
ApplySoftPreferences(E, ranked, soft) ==
  LET Nudged(k) == LET signal == SoftPreferenceSignal(E[ranked[k]], soft)
                   IN  <<4 * signal[2] + signal[1], 4 * signal[2] * (RANK_K + k)>>
      places == Sorted([k \in DOMAIN ranked |-> k], LAMBDA k, l : LessThan(Nudged(l), Nudged(k)))
  IN  IF soft.preferences = <<>> THEN ranked ELSE [k \in DOMAIN ranked |-> ranked[places[k]]]

-----------------------------------------------------------------------------
(* retrieval.ts: the shortlist.                                            *)

(* What the rules read of earlier wishes and refusals; a plan or an intent *)
(* was applied before.                                                     *)
Rejects(e, term) ==
  CASE term = "children" -> e.child
    [] OTHER -> e.category = term \/ term \in e.mentions
EligibleForContext(e, wish) ==
  /\ wish.category \in {None, e.category}
  /\ \A term \in wish.rejected : ~Rejects(e, term)

Allowed(E, s, wish) ==
  IF wish.reading = "rules" THEN SelectSeq(s, LAMBDA i : EligibleForContext(E[i], wish)) ELSE s

(* For an outing with a partner, programs for children come last.          *)
DemoteChildDirected(E, s, wish) ==
  IF wish.reading = "intent" /\ wish.partner /\ ~wish.children
  THEN SelectSeq(s, LAMBDA i : ~E[i].child) \o SelectSeq(s, LAMBDA i : E[i].child)
  ELSE s

RankedCandidates(E, s, wish, relevance) ==
  LET allowed == Allowed(E, s, wish)
      relevant == IF relevance.semantic THEN HybridRank(E, allowed, relevance)
                  ELSE RankEvents(E, allowed, relevance)
      nudged == IF wish.reading = "plan" THEN ApplySoftPreferences(E, relevant, wish.soft) ELSE relevant
  IN  UniqueEvents(E, DemoteChildDirected(E, nudged, wish))

(* For a calm evening, up to four events of different calm formats take    *)
(* the last places of the shortlist; the order stays that of relevance.    *)
Supplements(E, ranked, wish, limit) ==
  FoldLeft(LAMBDA taken, i :
             LET news == {tag \in ToSet(E[i].calm) : tag \notin taken.tags} IN
             IF (E[i].child /\ ~wish.children) \/ news = {}
                  \/ Cardinality(taken.events) = IF limit < 4 THEN limit ELSE 4
             THEN taken
             ELSE [events |-> taken.events \cup {i},
                   tags |-> taken.tags \cup {Head(SelectSeq(E[i].calm, LAMBDA tag : tag \in news))}],
           [events |-> {}, tags |-> {}], ranked).events

CalmCoverage(E, ranked, wish, limit) ==
  LET supplements == IF wish.calm /\ limit >= 2 THEN Supplements(E, ranked, wish, limit) ELSE {}
      others == SelectSeq(ranked, LAMBDA i : i \notin supplements)
      selected == supplements \cup ToSet(Take(others, limit - Cardinality(supplements)))
  IN  IF supplements = {} THEN None ELSE SelectSeq(ranked, LAMBDA i : i \in selected)

SoonestRepresentatives(E, s, wish) ==
  OnePerShow(E, DemoteChildDirected(E, Sorted(s, LAMBDA i, j : SoonerById(E, i, j)), wish))
CheapestRepresentatives(E, s) == OnePerShow(E, Sorted(s, LAMBDA i, j : Cheaper(E, i, j)))

(* The first of an order, the first of the other, and so on.               *)
Alternately(s, t) ==
  FoldLeft(LAMBDA mixed, k : mixed \o (IF k <= Len(s) THEN <<s[k]>> ELSE <<>>)
                                   \o (IF k <= Len(t) THEN <<t[k]>> ELSE <<>>),
           <<>>, [k \in 1 .. Len(s) + Len(t) |-> k])

MixedOrder(E, s, t, limit) ==
  FoldLeft(LAMBDA kept, i :
             IF \/ Len(kept) = limit
                \/ \E k \in ToSet(kept) : \/ ProductionIdentity(E[k]) = ProductionIdentity(E[i])
                                          \/ ShowSaved(E[k]) = ShowSaved(E[i])
             THEN kept ELSE Append(kept, i),
           <<>>, Alternately(s, t))

(* A relevant event is replaced by the first session of its production or  *)
(* show in the order of the wish.                                          *)
MapToFirst(E, relevant, representatives) ==
  LET Of(i, Key(_)) == {k \in ToSet(representatives) : Key(E[k]) = Key(E[i])}
      Titled(e) == e.saved # None \/ e.display # None
      LastOf(events) == CHOOSE k \in events : \A l \in events :
        (CHOOSE n \in DOMAIN representatives : representatives[n] = l)
          <= (CHOOSE n \in DOMAIN representatives : representatives[n] = k)
  IN  [n \in DOMAIN relevant |->
         LET i == relevant[n] IN
         IF Of(i, ProductionIdentity) # {} THEN LastOf(Of(i, ProductionIdentity))
         ELSE IF Titled(E[i]) /\ Of(i, ShowSaved) # {} THEN LastOf(Of(i, ShowSaved)) ELSE i]

(* Without vectors, the best of each category and then the rest.           *)
ByCategory(E, ranked, limit) ==
  LET best == FirstOfEach(ranked, LAMBDA i : E[i].category)
  IN  Take(best \o SelectSeq(ranked, LAMBDA i : i \notin ToSet(best)), limit)

ShortlistEvents(E, s, wish, relevance, limit) ==
  LET allowed == Allowed(E, s, wish)
      ranked == DiverseEvents(E, RankedCandidates(E, s, wish, relevance))
      calm == IF relevance.semantic THEN CalmCoverage(E, ranked, wish, limit) ELSE None
      covered == IF calm # None THEN calm
                 ELSE IF relevance.semantic /\ wish.reading # "plan" THEN Take(ranked, limit) ELSE ranked
      InOrder(representatives) ==
        MixedOrder(E, representatives, MapToFirst(E, covered, representatives), limit)
  IN  CASE wish.order = "cheapest" /\ wish.reading = "plan" -> InOrder(CheapestRepresentatives(E, allowed))
        [] wish.order = "soonest" /\ wish.reading # "rules" -> InOrder(SoonestRepresentatives(E, allowed, wish))
        [] OTHER -> IF relevance.semantic THEN Take(covered, limit) ELSE ByCategory(E, ranked, limit)

(* The basic order, of the shortlist only, when nothing else ranks it.     *)
FallbackEvents(E, s, wish, relevance) ==
  LET allowed == Allowed(E, s, wish)
  IN  CASE wish.order = "cheapest" /\ wish.reading = "plan" -> CheapestRepresentatives(E, allowed)
        [] wish.order = "soonest" /\ wish.reading # "rules" -> SoonestRepresentatives(E, allowed, wish)
        [] OTHER -> DiverseEvents(E, RankedCandidates(E, s, wish, relevance))

-----------------------------------------------------------------------------
(* recommend.ts: the cards behind a ranking.  A judgement names an event,  *)
(* a score, and whether score and probabilities are sound and the support  *)
(* (and the fit, where it is needed) is probable enough.                   *)
Supporting(shortlist, judged) ==
  SelectSeq(judged, LAMBDA judgement : judgement.event \in ToSet(shortlist) /\ judgement.supported)

SelectJevEvents(E, shortlist, judged, wish) ==
  LET supported == Sorted(Supporting(shortlist, judged), LAMBDA a, b : a.score > b.score)
      selected == OnePerShow(E, [k \in DOMAIN supported |-> supported[k].event])
  IN  CASE wish.order = "soonest" /\ wish.reading # "rules" -> Sorted(selected, LAMBDA i, j : SoonerById(E, i, j))
        [] wish.order = "cheapest" /\ wish.reading = "plan" -> Sorted(selected, LAMBDA i, j : Cheaper(E, i, j))
        [] OTHER -> selected
=============================================================================
