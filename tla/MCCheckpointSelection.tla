----------------------- MODULE MCCheckpointSelection -----------------------
(* The selection of a checkpoint's events, and the search catalog that is   *)
(* built of them, on all combinations of a few listings.                    *)
EXTENDS CheckpointSelection, TLC

CONSTANTS e1, e2, u1, u2, u3, l1, l2

Symmetries == Permutations(Id) \cup Permutations(Url) \cup Permutations(Listing)

-----------------------------------------------------------------------------
Catalog == INSTANCE SearchCatalog WITH Weak <- {9}, Fresh <- 3, Early <- 1, None <- None

(* Venues that a name, a place, an id or a reviewed alias may join, and     *)
(* that districts, sides, places or ids keep apart.                         *)
Unlocated(name, words, pid) ==
  [name |-> name, words |-> words, pid |-> pid, seed |-> None, geo |-> None, districts |-> {}, sides |-> {}]
Hall == Unlocated(1, {1}, None)
AsianHall == [Hall EXCEPT !.districts = {1}, !.sides = {"asia"}]
EuropeanHall == [Hall EXCEPT !.districts = {2}, !.sides = {"europe"}]
HallById == Unlocated(1, {1}, 1)
Annex == Unlocated(2, {5}, None)
AnnexById == Unlocated(2, {5}, 1)
SmallHall == Unlocated(3, {1, 9}, None)
Alias(hall, name) == [hall EXCEPT !.name = name, !.seed = 7, !.geo = 5]

Title(raw, key, parts) == [raw |-> raw, key |-> key, seed |-> None, parts |-> parts]
Show == Title(1, 1, {3})
ShowWithSuffix == Title(2, 1, {})
OtherGenre == Title(2, 2, {})
ShortTitle == Title(3, 3, {})

ListingOf(provider, venue, title, policies) ==
  [provider |-> provider, city |-> 1, start |-> 3, venue |-> venue, title |-> title,
   policies |-> policies, timing |-> None, checked |-> 0, available |-> TRUE, price |-> provider,
   currency |-> "TRY", category |-> "theatre", standUp |-> FALSE, disputed |-> FALSE]

Triples(S) == [1 .. 3 -> S]

(* No venue holds two listings that contradict each other, however long the *)
(* chain of evidence between them.                                          *)
ASSUME VenuesFit ==
  \A L \in Triples({ListingOf(p, v, Show, {}) : p \in {1, 2},
                       v \in {Hall, AsianHall, EuropeanHall, HallById, AnnexById, SmallHall,
                              [SmallHall EXCEPT !.geo = 1], [Hall EXCEPT !.geo = 5]}}) :
    LET root == Catalog!VenueRoots(L) IN
    \A i, j \in DOMAIN L : i # j /\ root[i] = root[j] => ~Catalog!VenueConflict(L[i], L[j])

(* Listings of one venue and instant, of two providers at least.            *)
AtOneHall ==
  {L \in [1 .. 3 -> {ListingOf(p, Hall, title, policies) : p \in 1 .. 3,
                        title \in {Show, ShowWithSuffix, OtherGenre, ShortTitle},
                        policies \in {{}, {"child"}, {"adult"}}}] :
     <<L[1].provider, L[2].provider, L[3].provider>> \in {<<1, 1, 2>>, <<1, 2, 1>>, <<1, 2, 2>>, <<1, 2, 3>>}}

(* What the decisions say in the end is what the sessions are: a session    *)
(* has one listing of a provider, all of its pairs may merge, and no pair   *)
(* that may merge is left apart.                                            *)
ASSUME SessionsFollowDecisions ==
  \A L \in AtOneHall :
    LET resolved == Catalog!ResolveIdentity(L) IN
    \A i, j \in DOMAIN L : i < j =>
      /\ resolved.root[i] = resolved.root[j] <=> Catalog!MayMerge(resolved.decisions, i, j)
      /\ resolved.root[i] = resolved.root[j] =>
           L[i].provider # L[j].provider /\ ~Catalog!PolicyConflict(L[i], L[j])

(* Where a show is sold for children and for adults, a listing that states  *)
(* neither joins no other: for listings whose titles match pairwise.        *)
ASSUME UnstatedStandsAlone ==
  \A L \in AtOneHall :
    (\A i, j \in DOMAIN L : Catalog!SameShow(L[i], L[j])) =>
      LET root == Catalog!ResolveIdentity(L).root IN
      {"child", "adult"} \subseteq UNION {L[i].policies : i \in DOMAIN L} =>
        \A i, j \in DOMAIN L : i # j /\ root[i] = root[j] => L[i].policies = L[j].policies /\ L[i].policies # {}

(* At every moment after its publication a catalog shows each event that is *)
(* eligible then, once, and no other, although its versions were built      *)
(* before: of events that expire, start, or are checked ahead of the clock. *)
Published == 2
OfCheck(listing, start, checked, disputed) ==
  [listing EXCEPT !.start = start, !.checked = checked, !.disputed = disputed]
Dated ==
  {<<OfCheck(ListingOf(1, Hall, Show, {}), start, c1, FALSE),
     OfCheck(ListingOf(p, Hall, Show, policies), start, c2, FALSE),
     OfCheck(ListingOf(3, Hall, Show, {"child"}), 6, c3, disputed)>> :
       p \in {1, 2}, policies \in {{}, {"adult"}}, start \in {3, 6},
       c1 \in {0, 2, 4}, c2 \in {0, 2, 4}, c3 \in {0, 4}, disputed \in BOOLEAN}
ASSUME ShowsTheEligible ==
  \A L \in Dated :
    LET catalog == Catalog!BuildSearchCatalog(L, Published) IN
    \A t \in Published .. 8 :
      LET shown == Catalog!SearchCatalogCandidates(catalog, t, None) IN
      /\ UNION {card.events : card \in shown} =
           {i \in DOMAIN L \ Catalog!Ambiguous(L) : Catalog!Eligible(L[i], t)}
      /\ \A c, d \in shown : c # d => c.events \cap d.events = {}

(* What is not so: a session whose venue is only known through a listing of *)
(* another session is shown as two cards (a version is resolved without its *)
(* neighbours), and two halls of one reviewed alias at one place are one    *)
(* venue although their districts differ (their ids are equal).             *)
ASSUME NeighboursAreForgotten ==
  LET L == <<ListingOf(1, HallById, Show, {}), ListingOf(2, Annex, Show, {}),
             [ListingOf(1, AnnexById, Show, {}) EXCEPT !.start = 5]>>
      shown == Catalog!SearchCatalogCandidates(Catalog!BuildSearchCatalog(L, Published), Published, None)
  IN  {1, 2} \in Catalog!Sessions(L) /\ {card.events : card \in shown} = {{1}, {2}, {3}}

ASSUME AliasesShareAnId ==
  LET L == <<ListingOf(1, Alias(AsianHall, 1), Show, {}), ListingOf(2, Alias(EuropeanHall, 4), Show, {})>>
  IN  Catalog!VenueConflict(L[1], L[2]) /\ Catalog!Sessions(L) = {{1, 2}}
=============================================================================
