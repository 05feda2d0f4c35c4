-------------------------- MODULE IdentityResolution --------------------------
(***************************************************************************)
(* Which listings of several providers are one session, as                 *)
(* collector/identity/resolve.ts decides it: first the venues, then the    *)
(* sessions at one venue and instant.  Both join listings greedily, in a   *)
(* fixed order of their evidence, and a join is refused when any two       *)
(* members would contradict each other.                                    *)
(*                                                                         *)
(* Listings are a function L from ids, natural numbers in the order the    *)
(* code sorts by, to records of what the normalisation of                  *)
(* collector/normalize/identity.ts leaves of the texts: names, words,      *)
(* seeds and districts are numbers in alphabetical order.  A title has its *)
(* raw text, its key without a generic suffix, and the raw titles it       *)
(* begins or ends with.                                                    *)
(***************************************************************************)
EXTENDS Integers, Sequences, FiniteSets, FiniteSetsExt, SequencesExt

CONSTANTS Weak,  \* words that describe many venues and identify none
          None

-----------------------------------------------------------------------------
(* Disjoint sets, each named by its least member.                          *)

Apart(ids) == [i \in ids |-> i]
MembersOf(root, i) == {j \in DOMAIN root : root[j] = root[i]}
Union(root, i, j) ==
  LET joined == {root[i], root[j]} IN
  [k \in DOMAIN root |-> IF root[k] \in joined THEN Min(joined) ELSE root[k]]
PartsOf(root) == {MembersOf(root, i) : i \in DOMAIN root}

(* Sets of tuples of numbers of one length, in their order.                *)
Before(s, t) == \E n \in DOMAIN s : s[n] < t[n] /\ \A m \in 1 .. n - 1 : s[m] = t[m]
First(tuples) == CHOOSE s \in tuples : \A t \in tuples \ {s} : Before(s, t)

PairsOf(ids) == {p \in ids \X ids : p[1] < p[2]}

-----------------------------------------------------------------------------
(* Venues *)

SIDE_ONLY == 0

Disjoint(s, t) == s # {} /\ t # {} /\ s \cap t = {}
LocationConflict(v, w) == Disjoint(v.districts, w.districts) \/ Disjoint(v.sides, w.sides)

GEO_RADIUS == 1
GEO_CONFLICT == 3
Distance(v, w) == IF v.geo > w.geo THEN v.geo - w.geo ELSE w.geo - v.geo
BothLocated(v, w) == v.geo # None /\ w.geo # None

VenueConflict(a, b) ==
  \/ LocationConflict(a.venue, b.venue)
  \/ BothLocated(a.venue, b.venue) /\ Distance(a.venue, b.venue) > GEO_CONFLICT
  \/ a.provider = b.provider /\ None \notin {a.venue.pid, b.venue.pid} /\ a.venue.pid # b.venue.pid

SameProviderVenue(a, b) ==
  a.provider = b.provider /\ a.venue.pid # None /\ a.venue.pid = b.venue.pid /\ a.city = b.city
SameSeed(a, b) == a.venue.seed # None /\ a.venue.seed = b.venue.seed /\ a.city = b.city
SameName(a, b) == a.venue.name = b.venue.name /\ a.city = b.city

ByProviderId(L) ==
  {p \in PairsOf(DOMAIN L) :
     SameProviderVenue(L[p[1]], L[p[2]]) /\ \A k \in DOMAIN L : SameProviderVenue(L[k], L[p[1]]) => p[1] <= k}
BySeed(L) ==
  {p \in PairsOf(DOMAIN L) :
     SameSeed(L[p[1]], L[p[2]]) /\ ~LocationConflict(L[p[1]].venue, L[p[2]].venue)}

(* Each listing of a name with the first and with the one before it.       *)
ByName(L) ==
  {p \in PairsOf(DOMAIN L) :
     /\ SameName(L[p[1]], L[p[2]])
     /\ LET earlier == {k \in DOMAIN L : k < p[2] /\ SameName(L[k], L[p[2]])}
        IN  p[1] \in {Min(earlier), Max(earlier)}}

ByPlace(L) ==
  {p \in PairsOf(DOMAIN L) :
     LET a == L[p[1]].venue  b == L[p[2]].venue IN
     /\ L[p[1]].city = L[p[2]].city
     /\ BothLocated(a, b) /\ Distance(a, b) <= GEO_RADIUS
     /\ a.words \cap b.words # {}}

(* Names that differ in descriptions only, or by one word that exactly one *)
(* other name adds.                                                        *)
Distinctive(l) == l.venue.words \ Weak # {}
Extends(other, l) ==
  /\ other.city = l.city /\ Distinctive(other)
  /\ l.venue.words \subseteq other.venue.words
  /\ Cardinality(other.venue.words) = Cardinality(l.venue.words) + 1
  /\ Cardinality(l.venue.words \ Weak) < 2 \/ other.venue.words \ l.venue.words \subseteq Weak
ExtensionsOf(L, l) == {L[k].venue.words : k \in {k \in DOMAIN L : Extends(L[k], l)}}

ByWords(L) ==
  {p \in PairsOf(DOMAIN L) :
     LET a == L[p[1]]  b == L[p[2]] IN
     a.city = b.city /\ Distinctive(a) /\ a.venue.words = b.venue.words}
ByExtension(L) ==
  {p \in PairsOf(DOMAIN L) :
     \E q \in {p, <<p[2], p[1]>>} :
       LET a == L[q[1]]  b == L[q[2]] IN
       Distinctive(a) /\ Extends(b, a) /\ Cardinality(ExtensionsOf(L, a)) = 1}

(* All pairs with some evidence, the strongest of it deciding the order.   *)
VenueEdges(L) ==
  LET kinds == <<ByProviderId(L), BySeed(L), ByName(L), ByPlace(L), ByWords(L), ByExtension(L)>>
      Rank(p) == <<Min({k \in DOMAIN kinds : p \in kinds[k]}), p[1], p[2]>>
  IN  SetToSortSeq(UNION {kinds[k] : k \in DOMAIN kinds}, LAMBDA p, q : Before(Rank(p), Rank(q)))

JoinVenues(L, root, p) ==
  IF \E a \in MembersOf(root, p[1]), b \in MembersOf(root, p[2]) : VenueConflict(L[a], L[b])
    THEN root ELSE Union(root, p[1], p[2])

VenueRoots(L) == FoldLeft(LAMBDA root, p : JoinVenues(L, root, p), Apart(DOMAIN L), VenueEdges(L))

(* The id of a venue is made of its most telling evidence, so that it      *)
(* stays when listings come and go.                                        *)
SeedsOf(L, venue) == {L[k].venue.seed : k \in venue} \ {None}
NamesOf(L, venue) == {L[k].venue.name : k \in venue}
ProviderIdsOf(L, venue) == {<<L[k].provider, L[k].venue.pid>> : k \in {k \in venue : L[k].venue.pid # None}}
DistrictsOf(L, venue) == {Min(L[k].venue.districts) : k \in {k \in venue : L[k].venue.districts # {}}}
Placed(L, venue) == {k \in venue : L[k].venue.geo # None}

AnchorOf(L, venue) ==
  IF SeedsOf(L, venue) # {} THEN <<"seed", Min(SeedsOf(L, venue))>>
  ELSE IF Cardinality(NamesOf(L, venue)) = 1 /\ \E k \in venue : L[k].venue.sides # {}
    THEN <<"name", Min(NamesOf(L, venue)),
           IF DistrictsOf(L, venue) = {} THEN SIDE_ONLY ELSE Min(DistrictsOf(L, venue))>>
  ELSE IF ProviderIdsOf(L, venue) # {} THEN <<"pid">> \o First(ProviderIdsOf(L, venue))
  ELSE IF Placed(L, venue) # {} THEN <<"geo", L[Min(Placed(L, venue))].venue.geo, Min(NamesOf(L, venue))>>
  ELSE <<"listing", Min(venue)>>

DisambiguatorOf(L, venue) ==
  IF Placed(L, venue) # {} THEN <<"geo", L[Min(Placed(L, venue))].venue.geo>>
  ELSE IF ProviderIdsOf(L, venue) # {} THEN <<"pid">> \o First(ProviderIdsOf(L, venue))
  ELSE IF DistrictsOf(L, venue) # {} THEN <<"district", Min(DistrictsOf(L, venue))>>
  ELSE <<"listing", Min(venue)>>

VenueId(L, venue, venues) ==
  IF \E other \in venues \ {venue} : AnchorOf(L, other) = AnchorOf(L, venue)
    THEN <<AnchorOf(L, venue), DisambiguatorOf(L, venue)>> ELSE <<AnchorOf(L, venue)>>

VenueIds(L) ==
  LET root == VenueRoots(L) IN
  [i \in DOMAIN L |-> VenueId(L, MembersOf(root, i), PartsOf(root))]

-----------------------------------------------------------------------------
(* Two listings at one instant: the first rule that applies decides.       *)

Merges == {"title", "seed", "containment"}
Vetoes == {"provider", "venue", "timing", "policy"}
Rejected == {"graph-provider", "graph-pairs"}

TitlesMatch(a, b) == a.title.key = b.title.key \/ a.title.raw = b.title.raw
TitleContains(a, b) == a.title.raw \in b.title.parts \/ b.title.raw \in a.title.parts
TitleSeeds(a, b) == a.title.seed # None /\ a.title.seed = b.title.seed
SameShow(a, b) == TitlesMatch(a, b) \/ TitleContains(a, b) \/ TitleSeeds(a, b)

(* The timing of an admission is None when it is unknown.                  *)
TimingConflict(a, b) == None \notin {a.timing, b.timing} /\ a.timing # b.timing

Audience == <<"child", "adult">>
Format == <<"workshop", "performance">>
Adaptations(policies) == policies \ (ToSet(Audience) \cup ToSet(Format))

Split(scale, s, t) == \E n \in {1, 2} : scale[n] \in s /\ scale[3 - n] \in t
PolicyConflict(a, b) ==
  \/ Split(Audience, a.policies, b.policies)
  \/ Split(Format, a.policies, b.policies)
  \/ Disjoint(Adaptations(a.policies), Adaptations(b.policies))

Assess(a, b, sameVenue) ==
  IF a.provider = b.provider THEN "provider"
  ELSE IF ~sameVenue THEN "venue"
  ELSE IF TimingConflict(a, b) THEN "timing"
  ELSE IF PolicyConflict(a, b) THEN "policy"
  ELSE IF TitlesMatch(a, b) THEN "title"
  ELSE IF TitleSeeds(a, b) THEN "seed"
  ELSE IF TitleContains(a, b) THEN "containment"
  ELSE "ambiguous"

(* Where listings of one show disagree on a policy, each is tagged with    *)
(* what it states of it; one that states nothing stands alone.             *)
Disputed(policies) ==
  IF ToSet(Audience) \subseteq policies THEN Audience
  ELSE IF ToSet(Format) \subseteq policies THEN Format
  ELSE IF Cardinality(Adaptations(policies)) > 1 THEN SetToSeq(Adaptations(policies))
  ELSE <<>>

NoTag == [stated |-> {}, by |-> 0]
PolicyTag(L, i, family) ==
  LET disputed == Disputed(UNION {L[k].policies : k \in family})
      stated == SelectSeq(disputed, LAMBDA policy : policy \in L[i].policies)
  IN  IF disputed = <<>> THEN NoTag
      ELSE IF stated # <<>> THEN [stated |-> {Head(stated)}, by |-> 0]
      ELSE [stated |-> {}, by |-> i]

-----------------------------------------------------------------------------
(* Sessions *)

SameInstant(a, b) == a.start # None /\ a.start = b.start /\ a.city = b.city

FamilyOf(L, venueOf, i) ==
  {k \in DOMAIN L : SameInstant(L[k], L[i]) /\ venueOf[k] = venueOf[i] /\ SameShow(L[k], L[i])}

Considered(L, venueOf) ==
  {p \in PairsOf(DOMAIN L) :
     /\ SameInstant(L[p[1]], L[p[2]])
     /\ venueOf[p[1]] = venueOf[p[2]] \/ SameShow(L[p[1]], L[p[2]])}

RuleOf(L, venueOf, p) ==
  LET a == L[p[1]]
      b == L[p[2]]
      rule == Assess(a, b, venueOf[p[1]] = venueOf[p[2]])
      Tag(i) == PolicyTag(L, i, FamilyOf(L, venueOf, p[1]))
  IN  IF rule \notin Vetoes /\ SameShow(a, b) /\ Tag(p[1]) # NoTag /\ Tag(p[1]) # Tag(p[2])
        THEN "policy" ELSE rule

MayMerge(decisions, i, j) ==
  \E p \in {<<i, j>>, <<j, i>>} \cap DOMAIN decisions : decisions[p] \in Merges

(* Joins one accepted pair, or records why its sets stay apart.            *)
JoinSessions(L, resolved, p) ==
  LET left == MembersOf(resolved.root, p[1])
      right == MembersOf(resolved.root, p[2])
      Reject(rule) == [resolved EXCEPT !.decisions[p] = rule]
  IN  IF left = right THEN resolved
      ELSE IF \E a \in left, b \in right : L[a].provider = L[b].provider THEN Reject("graph-provider")
      ELSE IF \E a \in left, b \in right : ~MayMerge(resolved.decisions, a, b) THEN Reject("graph-pairs")
      ELSE [resolved EXCEPT !.root = Union(@, p[1], p[2])]

(* Exact and reviewed titles join before contained ones.                   *)
AcceptedPairs(decisions) ==
  LET Rank(p) == <<IF decisions[p] = "containment" THEN 1 ELSE 0, p[1], p[2]>>
  IN  SetToSortSeq({p \in DOMAIN decisions : decisions[p] \in Merges},
                   LAMBDA p, q : Before(Rank(p), Rank(q)))

ResolveIdentity(L) ==
  LET venueOf == VenueIds(L)
      decisions == [p \in Considered(L, venueOf) |-> RuleOf(L, venueOf, p)]
  IN  FoldLeft(LAMBDA resolved, p : JoinSessions(L, resolved, p),
               [root |-> Apart(DOMAIN L), decisions |-> decisions],
               AcceptedPairs(decisions))

Sessions(L) == PartsOf(ResolveIdentity(L).root)
=============================================================================
