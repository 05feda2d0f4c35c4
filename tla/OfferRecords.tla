--------------------------- MODULE OfferRecords ---------------------------
(***************************************************************************)
(* The accepted observations of collector/preparation, shared by what the  *)
(* pipeline does and what it promises.                                     *)
(*                                                                         *)
(* A revision is one immutable observation of an offer.  updated is        *)
(* source_updated_at, 0 when the source gives none; observed is            *)
(* observed_at; body the whole content; facts the occurrence it supports   *)
(* (title, venue, time, status).                                           *)
(***************************************************************************)
EXTENDS Naturals

CONSTANTS Session, Offer, SessionOf, Revision, NoRevision,
          Canceled       \* the facts of a canceled occurrence

ASSUME RecordAssumption ==
    /\ SessionOf \in [Offer -> Session]
    /\ NoRevision \notin Revision
    /\ \A r \in Revision : /\ r.offer \in Offer
                           /\ r.updated \in Nat
                           /\ r.observed \in Nat

Current == Revision \cup {NoRevision}

OffersOf(s) == {o \in Offer : SessionOf[o] = s}

\* The order of one source: its own clock first, then the time of observation.
Forward(current, new) ==
    \/ current = NoRevision
    \/ current.updated < new.updated
    \/ current.updated = new.updated /\ current.observed <= new.observed
=============================================================================
