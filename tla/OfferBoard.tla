---------------------------- MODULE OfferBoard ----------------------------
(***************************************************************************)
(* What the preparation pipeline promises a reader of the active           *)
(* publication: sources move the current revision of an offer, and the     *)
(* canonical facts of its session with it, forward in the source's own     *)
(* clock and never back; a publication brings some sessions to exactly     *)
(* their current revisions at one instant, leaves the others as they are,  *)
(* and holds no canceled session.                                          *)
(***************************************************************************)
EXTENDS OfferRecords

CONSTANTS FirstHead      \* the current revisions the frozen import may leave

VARIABLES head,          \* current revision of each offer
          canonical,     \* current canonical revision of each session
          pins,          \* revisions the active publication serves
          facts          \* canonical revisions it serves

boardVars == <<head, canonical, pins, facts>>

Heads(s) == {head[o] : o \in OffersOf(s)} \ {NoRevision}

CanceledSession(s) ==
    canonical[s] # NoRevision /\ canonical[s].facts = Canceled

\* The frozen import publishes every session it knows, without canonical facts.
BoardInit ==
    /\ head \in FirstHead
    /\ canonical = [s \in Session |-> NoRevision]
    /\ facts = canonical
    /\ pins = [s \in Session |-> Heads(s)]

Accept(r) ==
    /\ Forward(head[r.offer], r)
    /\ head' = [head EXCEPT ![r.offer] = r]
    /\ \/ UNCHANGED canonical
       \/ canonical' = [canonical EXCEPT ![SessionOf[r.offer]] = r]
    /\ UNCHANGED <<pins, facts>>

Publish(S) ==
    /\ pins' = [s \in Session |->
                  IF CanceledSession(s) THEN {}
                  ELSE IF s \in S THEN Heads(s) ELSE pins[s]]
    /\ facts' = [s \in Session |->
                  IF CanceledSession(s) THEN NoRevision
                  ELSE IF s \in S THEN canonical[s] ELSE facts[s]]
    /\ UNCHANGED <<head, canonical>>

BoardNext == \/ \E r \in Revision : Accept(r)
             \/ \E S \in SUBSET Session : Publish(S)

BoardSpec == BoardInit /\ [][BoardNext]_boardVars
=============================================================================
