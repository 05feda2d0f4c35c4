---------------------------- MODULE SearchCatalog ----------------------------
(***************************************************************************)
(* The search catalog of a publication, web/lib/materialized-catalog.ts:   *)
(* every change that time alone will bring is computed when the catalog is *)
(* built, so that a request only picks the version of each group that      *)
(* holds at its moment.                                                    *)
(*                                                                         *)
(* An event is a listing of IdentityResolution with the time of its check, *)
(* its availability, price, currency and category, whether its text says   *)
(* stand-up, and whether the text contradicts its own facts.  A tick is    *)
(* the millisecond that the code adds to the end of an interval.           *)
(***************************************************************************)
EXTENDS IdentityResolution

CONSTANTS Fresh,   \* how long after its check an event is shown
          Early    \* how far the clock of a check may be ahead

Only(E, ids) == [i \in ids |-> E[i]]

(* isEligible without filters, and with a limit of the price.              *)
Eligible(e, t) ==
  /\ e.start # None /\ e.start >= t
  /\ e.checked >= t - Fresh /\ e.checked <= t + Early
  /\ e.available

Affordable(e, maxPrice) ==
  maxPrice = None \/ (e.price # None /\ e.currency = "TRY" /\ e.price <= maxPrice)

-----------------------------------------------------------------------------
(* Cards *)

StandUp == "stand-up"

(* The events of a session that may stand for it, the first by source, URL *)
(* and id; ids are in that order.                                          *)
Representatives(E, session) ==
  LET evidenced == {i \in session : E[i].standUp}
      categorized == {i \in session : E[i].category = StandUp}
  IN  IF evidenced = {} THEN session
      ELSE IF evidenced \cap categorized # {} THEN evidenced \cap categorized
      ELSE IF categorized # {} THEN categorized
      ELSE evidenced

(* All events of a card are available; the cheapest offer in the currency  *)
(* of the representative is shown.                                         *)
SelectedOffer(E, session, representative) ==
  LET comparable == {i \in session : E[i].currency = E[representative].currency /\ E[i].price # None}
  IN  IF comparable = {} THEN representative
      ELSE First({<<E[i].price, i>> : i \in comparable})[2]

Card(E, session) ==
  LET representative == Min(Representatives(E, session))
      offer == SelectedOffer(E, session, representative)
  IN  [events |-> session, start |-> E[representative].start, category |-> E[representative].category,
       offer |-> offer, price |-> E[offer].price, currency |-> E[offer].currency,
       checked |-> E[offer].checked, available |-> E[offer].available]

Cards(E) == {Card(E, session) : session \in Sessions(E)}

-----------------------------------------------------------------------------
(* Publication *)

(* A contradicted event takes the whole session it belongs to with it.     *)
Ambiguous(E) ==
  UNION {session \in Sessions(E) : \E i \in session : E[i].disputed}

(* Sessions, and what a policy or the graph keeps apart, change together.  *)
JoinFamilies(E) ==
  LET resolved == ResolveIdentity(E)
      linked == {p \in PairsOf(DOMAIN E) : resolved.root[p[1]] = resolved.root[p[2]]}
                  \cup {p \in DOMAIN resolved.decisions : resolved.decisions[p] \in {"policy"} \cup Rejected}
  IN  PartsOf(FoldSet(LAMBDA p, root : Union(root, p[1], p[2]), Apart(DOMAIN E), linked))

Boundaries(E, at) ==
  {at} \cup {t \in UNION {{E[i].checked - Early, E[i].checked + Fresh + 1, E[i].start + 1} : i \in DOMAIN E} : t > at}

CardsAt(E, t) == Cards(Only(E, {i \in DOMAIN E : Eligible(E[i], t)}))

AddVersion(E, versions, t) ==
  IF versions # <<>> /\ Last(versions).cards = CardsAt(E, t)
    THEN versions ELSE Append(versions, [from |-> t, cards |-> CardsAt(E, t)])

Versions(E, at) ==
  FoldLeft(LAMBDA versions, t : AddVersion(E, versions, t), <<>>, SetToSortSeq(Boundaries(E, at), <))

Materialized(E, at) ==
  {i \in DOMAIN E \ Ambiguous(E) : Eligible(E[i], Max({at, E[i].checked - Early}))}

BuildSearchCatalog(E, at) ==
  {Versions(Only(E, family), at) : family \in JoinFamilies(Only(E, Materialized(E, at)))}

-----------------------------------------------------------------------------
(* Requests *)

VersionAt(versions, t) ==
  LET current == SelectSeq(versions, LAMBDA version : version.from <= t)
  IN  IF current = <<>> THEN {} ELSE Last(current).cards

SearchCatalogCandidates(catalog, t, maxPrice) ==
  {card \in UNION {VersionAt(versions, t) : versions \in catalog} :
     Eligible(card, t) /\ Affordable(card, maxPrice)}
=============================================================================
