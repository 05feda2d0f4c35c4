------------------------------ MODULE Candidates ------------------------------
(***************************************************************************)
(* Which events of a catalog a request may consider: isEligible of         *)
(* web/lib/search.ts, and the exclusion of what was shown before, of       *)
(* recommend.ts.                                                           *)
(*                                                                         *)
(* An event says its time (start, its day and minute), when it was         *)
(* checked, its price, category, "district" as listed, the one its         *)
(* address ends in and the ones its venue names, its timing, and its       *)
(* identities.  A filter has None for what was not asked for.              *)
(***************************************************************************)
EXTENDS Integers, Sequences, FiniteSets, SequencesExt

CONSTANTS None, Districts, MaxAge, MaxAhead

-----------------------------------------------------------------------------
Fresh(e, now) ==
  /\ e.start >= now
  /\ now - MaxAge <= e.checked
  /\ e.checked <= now + MaxAhead
  /\ e.available

Affordable(e, f) ==
  f.maxPrice # None =>
    e.price # None /\ (e.price < f.maxPrice \/ (e.price = f.maxPrice /\ ~f.priceExclusive))

InCategories(e, f) ==
  /\ f.category \in {None, e.category}
  /\ f.categories # None => e.category \in f.categories
  /\ e.category \notin f.excludedCategories

(* A place that is open for a while counts on every day of it.             *)
OnDays(e, f) ==
  LET first == IF e.timing.kind = "admission_window" THEN e.timing.from ELSE e.day
      last == IF e.timing.kind = "admission_window" THEN e.timing.to ELSE e.day
  IN  /\ f.dateFrom # None => last >= f.dateFrom
      /\ f.dateTo # None => first <= f.dateTo

(* Doors and the bounds of a window are no evidence of a start.            *)
AtTimes(e, f) ==
  f.timeFrom # None \/ f.timeTo # None =>
    /\ e.timing.kind \in {None, "timed_session"}
    /\ ~e.doorsOnly
    /\ f.timeFrom # None => e.minute > f.timeFrom \/ (e.minute = f.timeFrom /\ ~f.fromExclusive)
    /\ f.timeTo # None => e.minute < f.timeTo \/ (e.minute = f.timeTo /\ ~f.toExclusive)

InDistrict(e, f) ==
  LET specific == e.district \in Districts IN
  f.district # None =>
    /\ ~(specific /\ e.address # None /\ e.address # e.district)
    /\ \/ e.district = f.district
       \/ /\ ~specific
          /\ IF e.address # None THEN e.address = f.district ELSE f.district \in e.venueNames

IsEligible(e, f, now) ==
  Fresh(e, now) /\ InCategories(e, f) /\ Affordable(e, f) /\ OnDays(e, f) /\ AtTimes(e, f) /\ InDistrict(e, f)

-----------------------------------------------------------------------------
(* What was shown before stays away when alternatives are asked for, and   *)
(* with it every session of its production that is eligible.               *)

IsExcluded(e, excluded) == ({e.id, e.production, e.show} \cup e.merged) \cap excluded # {}

Admitted(events, f, excluded, now) ==
  LET eligible == {e \in events : IsEligible(e, f, now)}
      productions == {e.production : e \in {e \in eligible : IsExcluded(e, excluded)}}
  IN  {e \in eligible : ~IsExcluded(e, excluded) /\ e.production \notin productions}

(* The ids a following request excludes, the newest of them.               *)
Remembered(excluded, shown, limit) ==
  LET ids == FoldLeft(LAMBDA kept, id : IF id \in ToSet(kept) THEN kept ELSE Append(kept, id),
                      <<>>, excluded \o shown)
  IN  IF Len(ids) <= limit THEN ids ELSE SubSeq(ids, Len(ids) - limit + 1, Len(ids))
=============================================================================
