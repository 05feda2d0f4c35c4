------------------------ MODULE CollectionJobsProofs -------------------------
(***************************************************************************)
(* CollectionJobs for any collections, processes, listings and input, and  *)
(* whatever an identity version resolves.                                  *)
(*                                                                         *)
(* PublishedIsNewest rests on HeadsRemember: the head of a listing is at   *)
(* least as new as every observation of it that was ingested, unless one   *)
(* was replaced unseen.  A publication's listings are the heads of its     *)
(* moment, and what was published before had been ingested.                *)
(***************************************************************************)
EXTENDS CollectionJobs, TLAPS

States == {"absent", "collected", "prepared", "published"}
Ingested == {"normalize", "offers", "identity", "search", "link", "mark"}
Places == Stages \cup {"idle", "ingest", "ingesting", "link", "mark", "admit"}

JobsTypeOK ==
  /\ deployment \in Deployment
  /\ collections \in [Collection -> [state : States, reconcile : BOOLEAN]]
  /\ heads \in [Listing -> Head \cup {None}]
  /\ pc \in [Process -> Places]
  /\ rollbacks \in Nat

(* A process is past the ingestion only of what is ingested.               *)
IngestedFirst ==
  \A p \in Process : pc[p] \in Ingested => collections[TargetOf(p)].state # "absent"

HeadsRemember ==
  \A c \in Collection : collections[c].state # "absent" =>
    \A s \in RevisionsOf(c) :
      /\ heads[s.listing] # None
      /\ heads[s.listing].revision.at >= s.at \/ s.listing \in raced

JobsInv == JobsTypeOK /\ IngestedFirst /\ HeadsRemember /\ PublishedIsWhole

-----------------------------------------------------------------------------
(* The input.                                                              *)

LEMMA InputIs ==
  ASSUME JobsTypeOK, NEW c \in Collection
  PROVE  /\ RevisionsOf(c) \subseteq Revisions
         /\ \A r \in RevisionsOf(c) : r.listing \in Listing /\ r.at \in Nat
         /\ \A r, s \in RevisionsOf(c) : r.listing = s.listing => r = s
<1>1. deployment \in Deployment
  BY DEF JobsTypeOK
<1>2. PagesOf(c) \subseteq Pages
  BY <1>1 DEF PagesOf, Pages
<1>3. RevisionsOf(c) \subseteq Revisions
  BY <1>2 DEF RevisionsOf, Revisions
<1>4. \A p, q \in PagesOf(c) : \A r \in p.listings, s \in q.listings : r.listing = s.listing => r = s
  BY <1>1, InputAssumption DEF PagesOf
<1>5. \A r, s \in RevisionsOf(c) : r.listing = s.listing => r = s
  BY <1>4 DEF RevisionsOf
<1> QED
  BY <1>3, <1>5, InputAssumption

LEMMA TargetIs ==
  ASSUME JobsTypeOK, NEW p \in Process
  PROVE  TargetOf(p) \in Collection
BY InputAssumption DEF JobsTypeOK, TargetOf

-----------------------------------------------------------------------------
(* The steps.  Most leave the heads, what is published and the states of   *)
(* collections alone and move one process.                                 *)

LEMMA MovesAlong ==
  ASSUME JobsInv, NEW p \in Process, NEW place \in Places,
         pc' = [pc EXCEPT ![p] = place],
         place \in Ingested => collections[TargetOf(p)].state # "absent",
         UNCHANGED <<deployment, collections, heads, publications, raced>>, rollbacks' \in Nat
  PROVE  JobsInv'
<1> USE DEF JobsInv
<1>1. JobsTypeOK'
  BY DEF JobsTypeOK
<1>2. \A c \in Collection : RevisionsOf(c)' = RevisionsOf(c)
  BY DEF RevisionsOf, PagesOf
<1>3. IngestedFirst'
  <2> SUFFICES ASSUME NEW q \in Process, pc'[q] \in Ingested PROVE collections[TargetOf(q)].state # "absent"
    BY DEF IngestedFirst, TargetOf
  <2>1. CASE q = p
    BY <2>1 DEF JobsTypeOK
  <2>2. CASE q # p
    BY <2>2 DEF JobsTypeOK, IngestedFirst
  <2> QED
    BY <2>1, <2>2
<1>4. HeadsRemember'
  BY <1>2 DEF HeadsRemember
<1>5. PublishedIsWhole'
  BY <1>2 DEF PublishedIsWhole
<1> QED
  BY <1>1, <1>3, <1>4, <1>5

LEMMA EndKeeps ==
  ASSUME JobsInv, NEW p \in Process, Ends(p),
         UNCHANGED <<deployment, collections, heads, publications, raced, rollbacks>>
  PROVE  JobsInv'
<1>1. "idle" \in Places /\ "idle" \notin Ingested
  BY DEF Places, Ingested
<1>2. pc' = [pc EXCEPT ![p] = "idle"] /\ rollbacks' \in Nat
  BY DEF Ends, JobsInv, JobsTypeOK
<1> QED
  BY <1>1, <1>2, MovesAlong

(* Those that move none.                                                   *)
LEMMA StaysPut ==
  ASSUME JobsInv, UNCHANGED <<deployment, collections, heads, publications, raced, pc>>, rollbacks' \in Nat
  PROVE  JobsInv'
<1> USE DEF JobsInv
<1>1. \A c \in Collection : RevisionsOf(c)' = RevisionsOf(c)
  BY DEF RevisionsOf, PagesOf
<1>2. JobsTypeOK'
  BY DEF JobsTypeOK
<1>3. IngestedFirst'
  BY DEF IngestedFirst, TargetOf
<1>4. HeadsRemember'
  BY <1>1 DEF HeadsRemember
<1>5. PublishedIsWhole'
  BY <1>1 DEF PublishedIsWhole
<1> QED
  BY <1>2, <1>3, <1>4, <1>5

(* A step that advances the state of the process' own collection.          *)
LEMMA Advances ==
  ASSUME JobsInv, NEW p \in Process, NEW place \in Places \ Ingested, NEW state \in States \ {"absent"},
         collections[TargetOf(p)].state # "absent",
         collections[TargetOf(p)].state = "published" => state = "published",
         pc' = [pc EXCEPT ![p] = place],
         collections' = [collections EXCEPT ![TargetOf(p)].state = state],
         UNCHANGED <<deployment, heads, raced, rollbacks>>
  PROVE  /\ JobsTypeOK' /\ IngestedFirst' /\ HeadsRemember'
         /\ \A c \in Collection : collections[c].state = "published" => collections'[c].state = "published"
         /\ collections'[TargetOf(p)].state = state
<1> USE DEF JobsInv
<1> DEFINE t == TargetOf(p)
<1>0. t \in Collection
  BY TargetIs
<1>1. \A c \in Collection :
        /\ collections'[c].state = IF c = t THEN state ELSE collections[c].state
        /\ collections'[c].reconcile = collections[c].reconcile
        /\ collections'[c] \in [state : States, reconcile : BOOLEAN]
  BY <1>0 DEF JobsTypeOK
<1>2. JobsTypeOK'
  <2>1. collections' \in [Collection -> [state : States, reconcile : BOOLEAN]]
    BY <1>1 DEF JobsTypeOK
  <2>2. pc' \in [Process -> Places]
    BY DEF JobsTypeOK
  <2> QED
    BY <2>1, <2>2 DEF JobsTypeOK
<1>3. \A c \in Collection : collections[c].state # "absent" <=> collections'[c].state # "absent"
  BY <1>1
<1>4. IngestedFirst'
  <2> SUFFICES ASSUME NEW q \in Process, pc'[q] \in Ingested PROVE collections'[TargetOf(q)].state # "absent"
    BY DEF IngestedFirst, TargetOf
  <2>1. q # p /\ pc[q] \in Ingested
    BY DEF JobsTypeOK
  <2>2. TargetOf(q) \in Collection
    BY TargetIs
  <2> QED
    BY <1>3, <2>1, <2>2 DEF IngestedFirst
<1>5. \A c \in Collection : RevisionsOf(c)' = RevisionsOf(c)
  BY DEF RevisionsOf, PagesOf
<1>6. HeadsRemember'
  BY <1>3, <1>5 DEF HeadsRemember
<1> QED
  BY <1>0, <1>1, <1>2, <1>4, <1>6

(* What was published before stays whole when states advance.              *)
LEMMA PublicationsStay ==
  ASSUME JobsInv, UNCHANGED <<deployment, publications>>,
         \A c \in Collection : collections[c].state = "published" => collections'[c].state = "published"
  PROVE  PublishedIsWhole'
<1>1. \A c \in Collection : RevisionsOf(c)' = RevisionsOf(c)
  BY DEF RevisionsOf, PagesOf
<1> QED
  BY <1>1 DEF JobsInv, PublishedIsWhole

(* The check of an observation against the head: what becomes the head is  *)
(* not older than it, unless the head was not seen.                        *)
LEMMA IngestKeeps ==
  ASSUME JobsInv, NEW p \in Process, Ingest(p)
  PROVE  JobsInv'
<1> USE DEF JobsInv
<1> DEFINE t == TargetOf(p)
           own == RevisionsOf(t)
           listings == {r.listing : r \in own}
<1>0. None \notin Head
  BY InputAssumption
<1>1. PICK second \in SUBSET Known, third \in SUBSET Known :
        /\ \A r \in own : r.listing \in Known \ third => ~Refuses(r)
        /\ heads' = [l \in Listing |->
             IF \E r \in own : r.listing = l
             THEN [revision |-> CHOOSE r \in own : r.listing = l, withheld |-> FALSE]
             ELSE IF l \in Linked(p, second) THEN [heads[l] EXCEPT !.withheld = TRUE] ELSE heads[l]]
        /\ raced' = raced \cup (third \cap listings)
        /\ \E flag \in BOOLEAN : collections' = [collections EXCEPT ![t] = [state |-> "collected", reconcile |-> flag]]
  <2>1. Moved(p) \subseteq Known
    BY DEF Moved
  <2> QED
    BY <2>1 DEF Ingest
<1>2. /\ pc' = [pc EXCEPT ![p] = "normalize"] /\ collections[t].state = "absent"
      /\ UNCHANGED <<deployment, publications, rollbacks>>
  BY DEF Ingest, GoesTo, published, bounds
<1>3. t \in Collection
  BY TargetIs
<1>4. /\ own \subseteq Revisions
      /\ \A r \in own : r.listing \in Listing /\ r.at \in Nat
      /\ \A r, s \in own : r.listing = s.listing => r = s
  BY <1>3, InputIs
<1>5. \A c \in Collection : RevisionsOf(c)' = RevisionsOf(c)
  BY <1>2 DEF RevisionsOf, PagesOf
<1>6. \A c \in Collection :
        /\ collections'[c] \in [state : States, reconcile : BOOLEAN]
        /\ c # t => collections'[c] = collections[c]
        /\ c = t => collections'[c].state = "collected"
  BY <1>1, <1>3 DEF JobsTypeOK, States
<1>7. collections' \in [Collection -> [state : States, reconcile : BOOLEAN]]
  BY <1>1, <1>6 DEF JobsTypeOK
<1>8. \A r \in own : heads'[r.listing] = [revision |-> r, withheld |-> FALSE]
  BY <1>1, <1>4
<1> HIDE DEF t, own
<1>9. ASSUME NEW l \in Listing, l \notin listings
      PROVE  /\ heads'[l] \in Head \cup {None}
             /\ heads[l] # None => heads'[l] # None /\ heads'[l].revision = heads[l].revision
  <2>1. heads'[l] = IF l \in Linked(p, second) THEN [heads[l] EXCEPT !.withheld = TRUE] ELSE heads[l]
    BY <1>1, <1>9
  <2>2. heads[l] \in Head \cup {None}
    BY DEF JobsTypeOK
  <2>3. CASE l \in Linked(p, second)
    <3>1. heads[l] # None
      BY <2>3 DEF Linked, Known
    <3>2. heads[l] \in Head
      BY <2>2, <3>1
    <3>3. [heads[l] EXCEPT !.withheld = TRUE] \in Head /\ [heads[l] EXCEPT !.withheld = TRUE].revision = heads[l].revision
      BY <3>2 DEF Head
    <3>4. heads'[l] = [heads[l] EXCEPT !.withheld = TRUE]
      BY <2>1, <2>3
    <3> QED
      BY <1>0, <3>3, <3>4
  <2>4. CASE l \notin Linked(p, second)
    BY <2>1, <2>2, <2>4
  <2> QED
    BY <2>3, <2>4
<1>10. \A r \in own : heads'[r.listing] \in Head
  <2>1. \A r \in own : [revision |-> r, withheld |-> FALSE] \in Head
    BY <1>4 DEF Head
  <2> QED
    BY <1>8, <2>1
<1>11. JobsTypeOK'
  <2>1. \A l \in Listing : heads'[l] \in Head \cup {None}
    BY <1>9, <1>10
  <2>2. heads' \in [Listing -> Head \cup {None}]
    BY <1>1, <2>1
  <2>3. pc' \in [Process -> Places]
    BY <1>2 DEF JobsTypeOK, Places, Stages
  <2> QED
    BY <1>2, <1>7, <2>2, <2>3 DEF JobsTypeOK
<1>12. IngestedFirst'
  <2> SUFFICES ASSUME NEW q \in Process, pc'[q] \in Ingested PROVE collections'[TargetOf(q)].state # "absent"
    BY <1>2 DEF IngestedFirst, TargetOf
  <2>1. CASE q = p
    BY <1>3, <1>6, <2>1 DEF t
  <2>2. CASE q # p
    <3>1. TargetOf(q) \in Collection
      BY TargetIs
    <3>2. pc[q] \in Ingested
      BY <1>2, <2>2 DEF JobsTypeOK
    <3>3. collections[TargetOf(q)].state # "absent"
      BY <3>2 DEF IngestedFirst
    <3> QED
      BY <1>6, <3>1, <3>3
  <2> QED
    BY <2>1, <2>2
<1>13. ASSUME NEW c \in Collection, collections'[c].state # "absent", NEW s \in RevisionsOf(c)
       PROVE  /\ heads'[s.listing] # None
              /\ heads'[s.listing].revision.at >= s.at \/ s.listing \in raced'
  <2>0. s.listing \in Listing /\ s.at \in Nat
    BY InputIs
  <2>1. CASE c = t
    <3>1. s \in own
      BY <2>1 DEF own
    <3>2. heads'[s.listing] = [revision |-> s, withheld |-> FALSE] /\ heads'[s.listing] \in Head
      BY <1>8, <1>10, <3>1
    <3>3. heads'[s.listing] # None
      BY <1>0, <3>2
    <3>4. heads'[s.listing].revision = s
      BY <3>2
    <3> QED
      BY <2>0, <3>3, <3>4
  <2>2. CASE c # t
    <3> DEFINE l == s.listing
    <3>1. heads[l] # None /\ (heads[l].revision.at >= s.at \/ l \in raced)
      BY <1>6, <1>13, <2>2 DEF HeadsRemember
    <3>2. heads[l] \in Head /\ heads[l].revision \in Revisions /\ heads[l].revision.at \in Nat
      <4>1. heads[l] \in Head
        BY <2>0, <3>1 DEF JobsTypeOK
      <4>2. heads[l].revision \in Revisions
        BY <4>1 DEF Head
      <4> QED
        BY <4>1, <4>2, InputAssumption
    <3> HIDE DEF l
    <3>3. CASE l \notin listings
      <4>1. heads'[l] # None /\ heads'[l].revision = heads[l].revision
        BY <1>9, <2>0, <3>1, <3>3 DEF l
      <4>2. l \in raced => l \in raced'
        BY <1>1
      <4> QED
        BY <3>1, <4>1, <4>2 DEF l
    <3>4. CASE l \in listings
      <4>1. PICK r \in own : r.listing = l
        BY <3>4
      <4>2. heads'[l] = [revision |-> r, withheld |-> FALSE] /\ heads'[l] \in Head
        BY <1>8, <1>10, <4>1
      <4>3. heads'[l] # None /\ heads'[l].revision = r /\ r.at \in Nat
        <5>1. heads'[l] # None
          BY <1>0, <4>2
        <5>2. heads'[l].revision = r
          BY <4>2
        <5> QED
          BY <1>4, <5>1, <5>2
      <4>4. l \in Known
        BY <2>0, <3>1 DEF Known, l
      <4>5. CASE l \in third \/ l \in raced
        <5>1. l \in raced'
          BY <1>1, <3>4, <4>5
        <5> QED
          BY <4>3, <5>1 DEF l
      <4>6. CASE l \notin third /\ l \notin raced
        <5>1. ~Refuses(r)
          BY <1>1, <4>1, <4>4, <4>6
        <5>2. ~(heads[l].revision.at > r.at)
          BY <4>1, <5>1 DEF Refuses
        <5>3. heads[l].revision.at >= s.at
          BY <3>1, <4>6
        <5>4. r.at >= s.at
          BY <2>0, <3>2, <4>3, <5>2, <5>3
        <5> QED
          BY <4>3, <5>4 DEF l
      <4> QED
        BY <4>5, <4>6
    <3> QED
      BY <3>3, <3>4
  <2> QED
    BY <2>1, <2>2
<1>14. HeadsRemember'
  BY <1>5, <1>13 DEF HeadsRemember
<1>15. PublishedIsWhole'
  <2>1. \A c \in Collection : collections[c].state = "published" => collections'[c].state = "published"
    BY <1>2, <1>6
  <2> QED
    BY <1>2, <2>1, PublicationsStay
<1> QED
  BY <1>11, <1>12, <1>14, <1>15

LEMMA PublishKeeps ==
  ASSUME JobsInv, NEW p \in Process, Publish(p)
  PROVE  JobsInv'
<1> DEFINE t == TargetOf(p)
           new == PublicationOf(t)
<1>1. /\ pc' = [pc EXCEPT ![p] = "idle"] /\ Settled(t) /\ Whole(t)
      /\ publications' = publications \cup {new}
      /\ collections' = [collections EXCEPT ![t].state = "published"]
      /\ UNCHANGED <<deployment, heads, raced, rollbacks>>
  BY DEF Publish, Publishable, Ends, bounds
<1>2. t \in Collection
  BY TargetIs DEF JobsInv
<1>3. /\ JobsTypeOK' /\ IngestedFirst' /\ HeadsRemember'
      /\ \A c \in Collection : collections[c].state = "published" => collections'[c].state = "published"
      /\ collections'[t].state = "published"
  <2>1. "idle" \in Places \ Ingested /\ "published" \in States \ {"absent"}
    BY DEF Places, Ingested, States
  <2>2. collections[t].state # "absent"
    BY <1>1 DEF Settled
  <2> QED
    BY <1>1, <2>1, <2>2, Advances
<1>4. \A c \in Collection : RevisionsOf(c)' = RevisionsOf(c)
  BY <1>1 DEF RevisionsOf, PagesOf
<1>5. \A page \in new.pages : page.status \in {"verified", "retired"}
  BY <1>1 DEF Settled, PublicationOf
<1>6. \A x, y \in new.sessions : x # y => x \cap y = {}
  BY <1>1 DEF Whole, PublicationOf
<1>7. UNION new.sessions = RevisionsOf(t)
  <2>1. new.sessions = {session.members : session \in sessions[t]}
    BY DEF PublicationOf
  <2> QED
    BY <1>1, <2>1 DEF Whole
<1> HIDE DEF new, t
<1>8. PublishedIsWhole'
  <2> SUFFICES ASSUME NEW q \in publications'
               PROVE  /\ \A page \in q.pages : page.status \in {"verified", "retired"}
                      /\ \A x, y \in q.sessions : x # y => x \cap y = {}
                      /\ \E c \in Collection : collections'[c].state = "published" /\ UNION q.sessions = RevisionsOf(c)
    BY <1>4 DEF PublishedIsWhole
  <2>1. CASE q = new
    BY <1>2, <1>3, <1>5, <1>6, <1>7, <2>1
  <2>2. CASE q \in publications
    BY <1>3, <2>2 DEF JobsInv, PublishedIsWhole
  <2> QED
    BY <1>1, <2>1, <2>2
<1> QED
  BY <1>3, <1>8 DEF JobsInv

LEMMA MarkPreparedKeeps ==
  ASSUME JobsInv, NEW p \in Process, MarkPrepared(p)
  PROVE  JobsInv'
<1> DEFINE t == TargetOf(p)
           state == IF collections[t].state = "published" THEN "published" ELSE "prepared"
<1>1. PICK place \in {"admit", "idle"} : pc' = [pc EXCEPT ![p] = place]
  BY DEF MarkPrepared, GoesTo, Ends
<1>2. /\ pc[p] = "mark"
      /\ collections' = [collections EXCEPT ![t].state = IF @ = "published" THEN @ ELSE "prepared"]
      /\ UNCHANGED <<deployment, heads, raced, rollbacks, publications>>
  BY DEF MarkPrepared, published, bounds
<1>3. t \in Collection
  BY TargetIs DEF JobsInv
<1>4. collections' = [collections EXCEPT ![t].state = state]
  BY <1>2, <1>3 DEF JobsInv, JobsTypeOK
<1>5. collections[t].state # "absent"
  BY <1>2 DEF JobsInv, IngestedFirst, Ingested
<1>6. place \in Places \ Ingested /\ state \in States \ {"absent"} /\ (collections[t].state = "published" => state = "published")
  BY DEF Places, Ingested, States
<1> HIDE DEF state
<1>7. /\ JobsTypeOK' /\ IngestedFirst' /\ HeadsRemember'
      /\ \A c \in Collection : collections[c].state = "published" => collections'[c].state = "published"
  BY <1>1, <1>2, <1>4, <1>5, <1>6, Advances
<1>8. PublishedIsWhole'
  BY <1>2, <1>7, PublicationsStay
<1> QED
  BY <1>7, <1>8 DEF JobsInv

LEMMA RunStepKeeps ==
  ASSUME JobsInv, NEW p \in Process, RunStep(p)
  PROVE  JobsInv'
<1>0. rollbacks \in Nat
  BY DEF JobsInv, JobsTypeOK
<1>1. CASE Start(p)
  <2>1. PICK place \in {"extract", "ingest"} : pc' = [pc EXCEPT ![p] = place]
    BY <1>1 DEF Start
  <2>2. UNCHANGED <<deployment, collections, heads, publications, raced, rollbacks>>
    BY <1>1 DEF Start, published, bounds
  <2>3. place \in Places /\ place \notin Ingested
    BY DEF Places, Stages, Ingested
  <2> QED
    BY <1>0, <2>1, <2>2, <2>3, MovesAlong
<1>2. CASE Claim(p) \/ Complete(p)
  <2>1. UNCHANGED <<deployment, collections, heads, publications, raced, pc, rollbacks>>
    BY <1>2 DEF Claim, Complete, published, bounds
  <2> QED
    BY <1>0, <2>1, StaysPut
<1>3. CASE Quit(p) \/ StaleInput(p) \/ LoseJob(p) \/ IngestRefused(p) \/ PublicationRefused(p)
  <2>1. Ends(p) /\ UNCHANGED <<deployment, collections, heads, publications, raced, rollbacks>>
    BY <1>3 DEF Quit, StaleInput, LoseJob, IngestRefused, PublicationRefused, store, published, bounds
  <2> QED
    BY <1>0, <2>1, EndKeeps
<1>4. CASE EndExtraction(p)
  <2>1. pc' = [pc EXCEPT ![p] = "ingest"] /\ UNCHANGED <<deployment, collections, heads, publications, raced, rollbacks>>
    BY <1>4 DEF EndExtraction, GoesTo, store, published, bounds
  <2>2. "ingest" \in Places /\ "ingest" \notin Ingested
    BY DEF Places, Ingested
  <2> QED
    BY <1>0, <2>1, <2>2, MovesAlong
<1>5. CASE LookAtHeads(p)
  <2> DEFINE fresh == collections[TargetOf(p)].state = "absent"
             place == IF fresh THEN "ingesting" ELSE "normalize"
  <2>1. pc' = [pc EXCEPT ![p] = place] /\ UNCHANGED <<deployment, collections, heads, publications, raced, rollbacks>>
    BY <1>5 DEF LookAtHeads, GoesTo, store, published, bounds
  <2>2. place \in Places /\ (place \in Ingested => ~fresh)
    BY DEF Places, Stages, Ingested
  <2> HIDE DEF place
  <2> QED
    BY <1>0, <2>1, <2>2, MovesAlong
<1>6. CASE Ingest(p)
  BY <1>6, IngestKeeps
<1>7. CASE EndNormalization(p) \/ EndOffers(p) \/ EndIdentity(p) \/ EndSearch(p) \/ LinkDocuments(p)
  <2>1. PICK place \in {"offers", "identity", "search", "link", "mark"} : pc' = [pc EXCEPT ![p] = place]
    BY <1>7 DEF EndNormalization, EndOffers, EndIdentity, EndSearch, LinkDocuments, GoesTo
  <2>2. UNCHANGED <<deployment, collections, heads, publications, raced, rollbacks>>
    BY <1>7 DEF EndNormalization, EndOffers, EndIdentity, EndSearch, LinkDocuments, store, published, bounds
  <2>3. pc[p] \in Ingested
    BY <1>7 DEF EndNormalization, EndOffers, EndIdentity, EndSearch, LinkDocuments, Ingested
  <2>4. place \in Places /\ collections[TargetOf(p)].state # "absent"
    BY <2>3 DEF Places, Stages, JobsInv, IngestedFirst
  <2> QED
    BY <1>0, <2>1, <2>2, <2>4, MovesAlong
<1>8. CASE MarkPrepared(p)
  BY <1>8, MarkPreparedKeeps
<1>9. CASE AdmitPublication(p)
  <2>1. PICK place \in {"idle", "publish"} : pc' = [pc EXCEPT ![p] = place]
    BY <1>9 DEF AdmitPublication, GoesTo, Ends
  <2>2. UNCHANGED <<deployment, collections, heads, publications, raced, rollbacks>>
    BY <1>9 DEF AdmitPublication, published
  <2>3. place \in Places /\ place \notin Ingested
    BY DEF Places, Stages, Ingested
  <2> QED
    BY <1>0, <2>1, <2>2, <2>3, MovesAlong
<1>10. CASE Publish(p)
  BY <1>10, PublishKeeps
<1> QED
  BY <1>1, <1>2, <1>3, <1>4, <1>5, <1>6, <1>7, <1>8, <1>9, <1>10 DEF RunStep

LEMMA JobsStep ==
  JobsInv /\ [Next]_vars => JobsInv'
<1> SUFFICES ASSUME JobsInv, [Next]_vars PROVE JobsInv'
  OBVIOUS
<1>0. rollbacks \in Nat
  BY DEF JobsInv, JobsTypeOK
<1>1. ASSUME NEW p \in Process, RunStep(p) PROVE JobsInv'
  BY <1>1, RunStepKeeps
<1>2. ASSUME NEW p \in Process, Break(p) \/ Interrupt(p) \/ Crash(p) PROVE JobsInv'
  <2>1. Ends(p) /\ UNCHANGED <<deployment, collections, heads, publications, raced, rollbacks>>
    BY <1>2 DEF Break, Interrupt, Crash, store, published
  <2> QED
    BY <1>0, <2>1, EndKeeps
<1>3. ASSUME NEW j \in DOMAIN jobs, Lapse(j) PROVE JobsInv'
  <2>1. UNCHANGED <<deployment, collections, heads, publications, raced, pc, rollbacks>>
    BY <1>3 DEF Lapse, published, process
  <2> QED
    BY <1>0, <2>1, StaysPut
<1>4. CASE Rollback
  <2>1. rollbacks' \in Nat /\ UNCHANGED <<deployment, collections, heads, publications, raced, pc>>
    BY <1>0, <1>4 DEF Rollback, store, process
  <2> QED
    BY <2>1, StaysPut
<1>5. CASE UNCHANGED vars
  <2>1. UNCHANGED <<deployment, collections, heads, publications, raced, pc, rollbacks>>
    BY <1>5 DEF vars, store, published, process, bounds
  <2> QED
    BY <1>0, <2>1, StaysPut
<1> QED
  BY <1>1, <1>2, <1>3, <1>4, <1>5 DEF Next

LEMMA JobsStart ==
  Init => JobsInv
<1> SUFFICES ASSUME Init PROVE JobsInv
  OBVIOUS
<1>1. JobsTypeOK
  BY DEF Init, JobsTypeOK, States, Places
<1>2. IngestedFirst
  BY DEF Init, IngestedFirst, Ingested
<1>3. HeadsRemember
  BY DEF Init, HeadsRemember
<1>4. PublishedIsWhole
  BY DEF Init, PublishedIsWhole
<1> QED
  BY <1>1, <1>2, <1>3, <1>4 DEF JobsInv

LEMMA JobsInvariant ==
  Spec => []JobsInv
<1> QED
  BY JobsStart, JobsStep, PTL DEF Spec

-----------------------------------------------------------------------------
(* publication.mjs:41-80: whatever is published has usable pages only and  *)
(* each listing of some published collection exactly once.                 *)
THEOREM WholeIsPublished == Spec => []PublishedIsWhole
<1>1. JobsInv => PublishedIsWhole
  BY DEF JobsInv
<1> QED
  BY <1>1, JobsInvariant, PTL

(* ingest.mjs:90-94 with publication.mjs:50-52: no publication but a       *)
(* rollback brings back an older observation than one published before,    *)
(* unless its head was replaced unseen by an overlapping ingestion.        *)
THEOREM NewestIsPublished == Spec => PublishedIsNewest
<1> DEFINE Newest ==
      active' # active /\ rollbacks' = rollbacks =>
        \A q \in publications : \A r \in UNION active'.sessions, s \in UNION q.sessions :
          r.listing = s.listing => r.at >= s.at \/ r.listing \in raced
<1>1. JobsInv /\ [Next]_vars => [Newest]_vars
  <2> SUFFICES ASSUME JobsInv, [Next]_vars, active' # active, rollbacks' = rollbacks,
                      NEW q \in publications, NEW r \in UNION active'.sessions, NEW s \in UNION q.sessions,
                      r.listing = s.listing
               PROVE  r.at >= s.at \/ r.listing \in raced
    OBVIOUS
  <2>1. ~Rollback
    BY DEF Rollback, JobsInv, JobsTypeOK
  <2>2. PICK p \in Process : Publish(p)
    <3>1. ASSUME NEW p \in Process, RunStep(p) PROVE Publish(p)
      BY <3>1 DEF RunStep, Start, Claim, Quit, Complete, StaleInput, LoseJob, EndExtraction, LookAtHeads, Ingest,
           IngestRefused, EndNormalization, EndOffers, EndIdentity, EndSearch, LinkDocuments, MarkPrepared,
           AdmitPublication, PublicationRefused, store, published
    <3>2. ASSUME NEW p \in Process, Break(p) \/ Interrupt(p) \/ Crash(p) PROVE FALSE
      BY <3>2 DEF Break, Interrupt, Crash, published
    <3>3. ASSUME NEW j \in DOMAIN jobs, Lapse(j) PROVE FALSE
      BY <3>3 DEF Lapse, published
    <3>4. ~UNCHANGED vars
      BY DEF vars, published
    <3> QED
      BY <2>1, <3>1, <3>2, <3>3, <3>4 DEF Next
  <2> DEFINE t == TargetOf(p)
  <2>3. t \in Collection
    BY TargetIs DEF JobsInv
  <2>4. Current(RevisionsOf(t)) /\ Whole(t) /\ active' = PublicationOf(t)
    BY <2>2 DEF Publish, Publishable
  <2>5. UNION active'.sessions = RevisionsOf(t)
    <3>1. active'.sessions = {session.members : session \in sessions[t]}
      BY <2>4 DEF PublicationOf
    <3> QED
      BY <2>4, <3>1 DEF Whole
  <2>6. heads[r.listing] = [revision |-> r, withheld |-> FALSE]
    BY <2>4, <2>5 DEF Current
  <2>7. PICK c \in Collection : collections[c].state = "published" /\ UNION q.sessions = RevisionsOf(c)
    BY DEF JobsInv, PublishedIsWhole
  <2>8. heads[s.listing].revision.at >= s.at \/ s.listing \in raced
    <3>1. s \in RevisionsOf(c) /\ collections[c].state # "absent"
      BY <2>7
    <3> QED
      BY <3>1 DEF JobsInv, HeadsRemember
  <2>9. heads[r.listing].revision = r
    BY <2>6
  <2> QED
    BY <2>8, <2>9
<1>2. [][Newest]_vars => PublishedIsNewest
  BY PTL DEF PublishedIsNewest
<1> QED
  BY <1>1, <1>2, JobsInvariant, PTL DEF Spec

-----------------------------------------------------------------------------
(* Leases and fences.  A claim raises the fence of its job, so two that    *)
(* hold one job hold it under different fences, and only the newer counts. *)

IsRow(row) ==
  row = [state |-> row.state, fence |-> row.fence, live |-> row.live, output |-> row.output]

LeaseInv ==
  /\ jobs = [j \in DOMAIN jobs |-> jobs[j]]
  /\ \A j \in DOMAIN jobs : IsRow(jobs[j]) /\ jobs[j].fence \in Nat
  /\ attached = [c \in Collection |-> attached[c]]
  /\ \A c \in Collection : attached[c] \subseteq DOMAIN jobs
  /\ held = [p \in Process |-> held[p]]
  /\ \A p \in Process : held[p] # None =>
       held[p].job \in DOMAIN jobs /\ held[p].fence \in Nat /\ held[p].fence <= jobs[held[p].job].fence
  /\ \A p, q \in Process :
       p # q /\ held[p] # None /\ held[q] # None /\ held[p].job = held[q].job => held[p].fence # held[q].fence

(* Rows whose fences nobody raised, and of which the completed are as they *)
(* were.                                                                   *)
SameFences(rows) ==
  /\ rows = [j \in DOMAIN jobs |-> rows[j]]
  /\ \A j \in DOMAIN jobs :
       IsRow(rows[j]) /\ rows[j].fence = jobs[j].fence /\ (jobs[j].state = "completed" => rows[j] = jobs[j])

LEMMA ReleasedIs ==
  ASSUME LeaseInv, NEW p \in Process, Holds(p), NEW state
  PROVE  /\ held[p].job \in DOMAIN jobs /\ SameFences(Released(p, state))
         /\ jobs[held[p].job].state = "running"
<1> DEFINE h == held[p].job
           rows == Released(p, state)
<1>1. h \in DOMAIN jobs /\ jobs[h].state = "running"
  BY DEF LeaseInv, Holds
<1>2. jobs = [j \in DOMAIN jobs |-> jobs[j]] /\ \A j \in DOMAIN jobs : IsRow(jobs[j])
  BY DEF LeaseInv
<1>3. rows = [jobs EXCEPT ![h] = [[jobs[h] EXCEPT !.state = state] EXCEPT !.live = FALSE]]
  BY <1>1, <1>2 DEF Released
<1> HIDE DEF h, rows
<1>4. /\ rows = [j \in DOMAIN jobs |-> rows[j]]
      /\ \A j \in DOMAIN jobs : j # h => rows[j] = jobs[j]
      /\ rows[h] = [[jobs[h] EXCEPT !.state = state] EXCEPT !.live = FALSE]
  BY <1>1, <1>2, <1>3
<1>5. rows[h] = [state |-> state, fence |-> jobs[h].fence, live |-> FALSE, output |-> jobs[h].output]
  BY <1>1, <1>2, <1>4 DEF IsRow
<1>6. IsRow(rows[h]) /\ rows[h].fence = jobs[h].fence
  BY <1>5 DEF IsRow
<1>7. SameFences(rows)
  BY <1>1, <1>2, <1>4, <1>6 DEF SameFences
<1> QED
  BY <1>1, <1>7 DEF h, rows

CompletedStay ==
  \A j \in DOMAIN jobs : jobs[j].state = "completed" => j \in DOMAIN jobs' /\ jobs'[j] = jobs[j]

(* Enqueueing adds rows and attaches them; processes let go of jobs.       *)
LEMMA RowsStep ==
  ASSUME LeaseInv, NEW rows, SameFences(rows), NEW new, jobs' = Enqueued(new, rows),
         attached' = [c \in Collection |-> attached'[c]],
         \A c \in Collection : attached'[c] \subseteq attached[c] \cup new,
         held' = [p \in Process |-> held'[p]], \A p \in Process : held'[p] \in {held[p], None}
  PROVE  LeaseInv' /\ CompletedStay
<1>1. /\ DOMAIN rows = DOMAIN jobs
      /\ \A j \in DOMAIN jobs : IsRow(rows[j]) /\ rows[j].fence = jobs[j].fence /\ (jobs[j].state = "completed" => rows[j] = jobs[j])
      /\ \A j \in DOMAIN jobs : jobs[j].fence \in Nat
  BY DEF LeaseInv, SameFences
<1>2. jobs' = [j \in DOMAIN jobs \cup new |-> IF j \in DOMAIN jobs THEN rows[j] ELSE Queued]
  BY <1>1 DEF Enqueued
<1>3. /\ DOMAIN jobs' = DOMAIN jobs \cup new /\ jobs' = [j \in DOMAIN jobs' |-> jobs'[j]]
      /\ \A j \in DOMAIN jobs : jobs'[j] = rows[j]
      /\ \A j \in new : j \notin DOMAIN jobs => jobs'[j] = Queued
  BY <1>2
<1>4. IsRow(Queued) /\ Queued.fence \in Nat
  BY DEF IsRow, Queued
<1>5. \A j \in DOMAIN jobs' : IsRow(jobs'[j]) /\ jobs'[j].fence \in Nat
  BY <1>1, <1>3, <1>4
<1>6. \A c \in Collection : attached'[c] \subseteq DOMAIN jobs'
  BY <1>3 DEF LeaseInv
<1>7. \A j \in DOMAIN jobs : j \in DOMAIN jobs' /\ jobs'[j].fence = jobs[j].fence
  BY <1>1, <1>3
<1>8. ASSUME NEW p \in Process, held'[p] # None
      PROVE  held'[p].job \in DOMAIN jobs' /\ held'[p].fence \in Nat /\ held'[p].fence <= jobs'[held'[p].job].fence
  <2>1. held'[p] = held[p]
    BY <1>8
  <2> QED
    BY <1>7, <1>8, <2>1 DEF LeaseInv
<1>9. ASSUME NEW p \in Process, NEW q \in Process,
             p # q, held'[p] # None, held'[q] # None, held'[p].job = held'[q].job
      PROVE  held'[p].fence # held'[q].fence
  <2>1. held'[p] = held[p] /\ held'[q] = held[q]
    BY <1>9
  <2> QED
    BY <1>9, <2>1 DEF LeaseInv
<1>10. LeaseInv'
  BY <1>3, <1>5, <1>6, <1>8, <1>9 DEF LeaseInv
<1>11. CompletedStay
  BY <1>1, <1>3 DEF CompletedStay
<1> QED
  BY <1>10, <1>11

LEMMA JobsAreSame ==
  ASSUME LeaseInv
  PROVE  SameFences(jobs)
BY DEF LeaseInv, SameFences

LEMMA NothingEnqueued ==
  ASSUME NEW rows, SameFences(rows)
  PROVE  rows = Enqueued({}, rows)
<1>1. rows = [j \in DOMAIN jobs |-> rows[j]] /\ DOMAIN rows = DOMAIN jobs
  BY DEF SameFences
<1>2. Enqueued({}, rows) = [j \in DOMAIN jobs |-> rows[j]]
  BY <1>1 DEF Enqueued
<1> QED
  BY <1>1, <1>2

(* The steps that end a process, with what becomes of the job it holds.    *)
LEMMA LeaseEnds ==
  ASSUME LeaseInv, NEW p \in Process, Ends(p), attached' = attached,
         jobs' = jobs \/ (Holds(p) /\ \E state : jobs' = Released(p, state))
  PROVE  LeaseInv' /\ CompletedStay
<1>1. held' = [held EXCEPT ![p] = None]
  BY DEF Ends
<1>2. held' = [q \in Process |-> held'[q]] /\ \A q \in Process : held'[q] \in {held[q], None}
  BY <1>1 DEF LeaseInv
<1>3. SameFences(jobs')
  BY ReleasedIs, JobsAreSame
<1>4. PICK rows : SameFences(rows) /\ jobs' = rows
  BY <1>3
<1>5. jobs' = Enqueued({}, rows)
  BY <1>4, NothingEnqueued
<1>6. attached' = [c \in Collection |-> attached'[c]] /\ \A c \in Collection : attached'[c] \subseteq attached[c] \cup {}
  BY DEF LeaseInv
<1> QED
  BY <1>2, <1>4, <1>5, <1>6, RowsStep

(* The steps that enqueue.                                                 *)
LEMMA LeaseEnqueues ==
  ASSUME LeaseInv, NEW rows, SameFences(rows), NEW c, NEW new,
         jobs' = Enqueued(new, rows), attached' = Attached(c, new), NEW p \in Process,
         held' = held \/ held' = [held EXCEPT ![p] = None]
  PROVE  LeaseInv' /\ CompletedStay
<1>1. held' = [q \in Process |-> held'[q]] /\ \A q \in Process : held'[q] \in {held[q], None}
  BY DEF LeaseInv
<1>2. attached' = [d \in Collection |-> attached'[d]] /\ \A d \in Collection : attached'[d] \subseteq attached[d] \cup new
  BY DEF LeaseInv, Attached
<1> QED
  BY <1>1, <1>2, RowsStep

LEMMA NothingLeased ==
  ASSUME LeaseInv, UNCHANGED <<jobs, attached, held>>
  PROVE  LeaseInv' /\ CompletedStay
BY DEF LeaseInv, CompletedStay

(* A claim.                                                                *)
LEMMA ClaimKeeps ==
  ASSUME JobsTypeOK, LeaseInv, NEW p \in Process, Claim(p)
  PROVE  LeaseInv' /\ CompletedStay
<1>1. PICK j \in JobsAt(TargetOf(p), pc[p]) :
        /\ Claimable(j)
        /\ jobs' = [jobs EXCEPT ![j] = [jobs[j] EXCEPT !.state = "running", !.live = TRUE, !.fence = jobs[j].fence + 1]]
        /\ held' = [held EXCEPT ![p] = [job |-> j, fence |-> jobs[j].fence + 1]]
  BY DEF Claim
<1>2. attached' = attached
  BY DEF Claim
<1>3. j \in DOMAIN jobs
  BY TargetIs DEF JobsAt, LeaseInv
<1>4. jobs[j].fence \in Nat /\ IsRow(jobs[j]) /\ jobs[j].state # "completed"
  BY <1>1, <1>3 DEF LeaseInv, Claimable
<1>5. /\ DOMAIN jobs' = DOMAIN jobs /\ jobs' = [i \in DOMAIN jobs' |-> jobs'[i]]
      /\ \A i \in DOMAIN jobs : i # j => jobs'[i] = jobs[i]
  BY <1>1 DEF LeaseInv
<1>6. jobs'[j] = [jobs[j] EXCEPT !.state = "running", !.live = TRUE, !.fence = jobs[j].fence + 1]
  <2> DEFINE row == [jobs[j] EXCEPT !.state = "running", !.live = TRUE, !.fence = jobs[j].fence + 1]
  <2>1. jobs' = [jobs EXCEPT ![j] = row]
    BY <1>1
  <2>2. jobs = [i \in DOMAIN jobs |-> jobs[i]]
    BY DEF LeaseInv
  <2> HIDE DEF row
  <2>3. jobs'[j] = row
    BY <1>3, <2>1, <2>2
  <2> QED
    BY <2>3 DEF row
<1>7. jobs'[j] = [state |-> "running", fence |-> jobs[j].fence + 1, live |-> TRUE, output |-> jobs[j].output]
  BY <1>4, <1>6 DEF IsRow
<1>8. IsRow(jobs'[j]) /\ jobs'[j].fence = jobs[j].fence + 1
  BY <1>7 DEF IsRow
<1>9. \A i \in DOMAIN jobs' : IsRow(jobs'[i]) /\ jobs'[i].fence \in Nat
  BY <1>4, <1>5, <1>8 DEF LeaseInv
<1>10. \A i \in DOMAIN jobs : jobs'[i].fence \in Nat /\ jobs[i].fence <= jobs'[i].fence
  BY <1>4, <1>5, <1>8 DEF LeaseInv
<1>11. /\ held' = [q \in Process |-> held'[q]]
       /\ held'[p].job = j /\ held'[p].fence = jobs[j].fence + 1
       /\ \A q \in Process : q # p => held'[q] = held[q]
  BY <1>1 DEF LeaseInv
<1>12. ASSUME NEW q \in Process, held'[q] # None
       PROVE  held'[q].job \in DOMAIN jobs' /\ held'[q].fence \in Nat /\ held'[q].fence <= jobs'[held'[q].job].fence
  <2>1. CASE q = p
    BY <1>3, <1>4, <1>5, <1>8, <1>11, <2>1
  <2>2. CASE q # p
    <3>1. held[q].job \in DOMAIN jobs /\ held[q].fence \in Nat /\ held[q].fence <= jobs[held[q].job].fence
      BY <1>11, <1>12, <2>2 DEF LeaseInv
    <3>2. jobs[held[q].job].fence \in Nat /\ jobs'[held[q].job].fence \in Nat
          /\ jobs[held[q].job].fence <= jobs'[held[q].job].fence
      BY <1>10, <3>1 DEF LeaseInv
    <3>3. held[q].fence <= jobs'[held[q].job].fence
      BY <3>1, <3>2
    <3> QED
      BY <1>5, <1>11, <2>2, <3>1, <3>3
  <2> QED
    BY <2>1, <2>2
<1>13. ASSUME NEW q \in Process, q # p, held[q] # None, held[q].job = j
       PROVE  held[q].fence # jobs[j].fence + 1
  <2>1. held[q].fence \in Nat /\ held[q].fence <= jobs[j].fence
    BY <1>13 DEF LeaseInv
  <2> QED
    BY <1>4, <2>1
<1>14. ASSUME NEW q \in Process, NEW r \in Process,
              q # r, held'[q] # None, held'[r] # None, held'[q].job = held'[r].job
       PROVE  held'[q].fence # held'[r].fence
  <2>1. CASE q = p
    BY <1>11, <1>13, <1>14, <2>1
  <2>2. CASE r = p
    BY <1>11, <1>13, <1>14, <2>2
  <2>3. CASE q # p /\ r # p
    BY <1>11, <1>14, <2>3 DEF LeaseInv
  <2> QED
    BY <2>1, <2>2, <2>3
<1>15. LeaseInv'
  <2>1. attached' = [c \in Collection |-> attached'[c]] /\ \A c \in Collection : attached'[c] \subseteq DOMAIN jobs'
    BY <1>2, <1>5 DEF LeaseInv
  <2> QED
    BY <1>5, <1>9, <1>11, <1>12, <1>14, <2>1 DEF LeaseInv
<1>16. CompletedStay
  BY <1>4, <1>5 DEF CompletedStay
<1> QED
  BY <1>15, <1>16

LEMMA CompleteKeeps ==
  ASSUME LeaseInv, NEW p \in Process, Complete(p)
  PROVE  LeaseInv' /\ CompletedStay
<1> DEFINE j == held[p].job
           new == Dependents(p, j)
           released == Released(p, "completed")
           rows == [released EXCEPT ![j].output = OutputOf(p, j)]
<1>1. /\ Holds(p) /\ jobs' = Enqueued(new, rows)
      /\ attached' = Attached(TargetOf(p), new) /\ held' = [held EXCEPT ![p] = None]
  BY DEF Complete
<1>2. j \in DOMAIN jobs /\ SameFences(released) /\ jobs[j].state = "running"
  BY <1>1, ReleasedIs
<1>3. SameFences(rows)
  <2> HIDE DEF j, released
  <2> DEFINE output == OutputOf(p, j)
  <2>1. /\ DOMAIN released = DOMAIN jobs /\ IsRow(released[j]) /\ released[j].fence = jobs[j].fence
        /\ \A i \in DOMAIN jobs : IsRow(released[i]) /\ released[i].fence = jobs[i].fence
                                  /\ (jobs[i].state = "completed" => released[i] = jobs[i])
    BY <1>2 DEF SameFences
  <2> HIDE DEF output
  <2>2. /\ rows = [i \in DOMAIN jobs |-> rows[i]]
        /\ \A i \in DOMAIN jobs : i # j => rows[i] = released[i]
        /\ rows[j] = [released[j] EXCEPT !.output = output]
    BY <1>2, <2>1 DEF output
  <2>3. rows[j] = [state |-> released[j].state, fence |-> jobs[j].fence, live |-> released[j].live, output |-> output]
    BY <2>1, <2>2 DEF IsRow
  <2> HIDE DEF rows
  <2>4. IsRow(rows[j]) /\ rows[j].fence = jobs[j].fence
    BY <2>3 DEF IsRow
  <2> QED
    BY <1>2, <2>1, <2>2, <2>4 DEF SameFences
<1> HIDE DEF rows, new, released, j
<1> QED
  BY <1>1, <1>3, LeaseEnqueues

LEMMA LeaseStep ==
  ASSUME JobsTypeOK, LeaseInv, Next
  PROVE  LeaseInv' /\ CompletedStay
<1>1. ASSUME NEW p \in Process, Claim(p) PROVE LeaseInv' /\ CompletedStay
  BY <1>1, ClaimKeeps
<1>2. ASSUME NEW p \in Process, Complete(p) PROVE LeaseInv' /\ CompletedStay
  BY <1>2, CompleteKeeps
<1>3. ASSUME NEW p \in Process, Quit(p) \/ LoseJob(p) \/ IngestRefused(p) \/ Crash(p)
      PROVE  LeaseInv' /\ CompletedStay
  <2>1. Ends(p) /\ attached' = attached /\ jobs' = jobs
    BY <1>3 DEF Quit, LoseJob, IngestRefused, Crash, store
  <2> QED
    BY <2>1, LeaseEnds
<1>4. ASSUME NEW p \in Process, StaleInput(p) \/ Break(p) \/ Interrupt(p) \/ Publish(p) \/ PublicationRefused(p)
      PROVE  LeaseInv' /\ CompletedStay
  <2>1. Ends(p) /\ attached' = attached
    BY <1>4 DEF StaleInput, Break, Interrupt, Publish, PublicationRefused
  <2>2. jobs' = jobs \/ (Holds(p) /\ \E state : jobs' = Released(p, state))
    <3>1. CASE StaleInput(p)
      BY <3>1 DEF StaleInput
    <3>2. CASE Break(p)
      BY <3>2 DEF Break
    <3>3. CASE Interrupt(p)
      BY <3>3 DEF Interrupt
    <3>4. CASE Publish(p)
      BY <3>4 DEF Publish
    <3>5. CASE PublicationRefused(p)
      BY <3>5 DEF PublicationRefused
    <3> QED
      BY <1>4, <3>1, <3>2, <3>3, <3>4, <3>5
  <2> QED
    BY <2>1, <2>2, LeaseEnds
<1>5. ASSUME NEW p \in Process, EndExtraction(p) \/ LookAtHeads(p) \/ EndSearch(p) \/ LinkDocuments(p)
      PROVE  LeaseInv' /\ CompletedStay
  <2>1. UNCHANGED <<jobs, attached, held>>
    BY <1>5 DEF EndExtraction, LookAtHeads, EndSearch, LinkDocuments, GoesTo, store
  <2> QED
    BY <2>1, NothingLeased
<1>6. ASSUME NEW p \in Process, MarkPrepared(p) PROVE LeaseInv' /\ CompletedStay
  <2>1. CASE GoesTo(p, "admit")
    <3>1. UNCHANGED <<jobs, attached, held>>
      BY <1>6, <2>1 DEF MarkPrepared, GoesTo
    <3> QED
      BY <3>1, NothingLeased
  <2>2. CASE Ends(p)
    <3>1. UNCHANGED <<jobs, attached>>
      BY <1>6 DEF MarkPrepared
    <3> QED
      BY <2>2, <3>1, LeaseEnds
  <2> QED
    BY <1>6, <2>1, <2>2 DEF MarkPrepared
<1>7. ASSUME NEW p \in Process,
             Start(p) \/ Ingest(p) \/ EndNormalization(p) \/ EndOffers(p) \/ EndIdentity(p) \/ AdmitPublication(p)
      PROVE  LeaseInv' /\ CompletedStay
  <2>1. \/ UNCHANGED <<jobs, attached>>
        \/ \E new : jobs' = Enqueued(new, jobs) /\ attached' = Attached(TargetOf(p), new)
    <3>1. CASE Start(p)
      BY <3>1 DEF Start
    <3>2. CASE Ingest(p)
      BY <3>2 DEF Ingest
    <3>3. CASE EndNormalization(p)
      BY <3>3 DEF EndNormalization
    <3>4. CASE EndOffers(p)
      BY <3>4 DEF EndOffers
    <3>5. CASE EndIdentity(p)
      BY <3>5 DEF EndIdentity
    <3>6. CASE AdmitPublication(p)
      BY <3>6 DEF AdmitPublication
    <3> QED
      BY <1>7, <3>1, <3>2, <3>3, <3>4, <3>5, <3>6
  <2>2. held' = held \/ Ends(p)
    BY <1>7 DEF Start, Ingest, EndNormalization, EndOffers, EndIdentity, AdmitPublication, GoesTo
  <2>3. held' = held \/ held' = [held EXCEPT ![p] = None]
    BY <2>2 DEF Ends
  <2>4. CASE UNCHANGED <<jobs, attached>>
    BY <2>2, <2>4, NothingLeased, LeaseEnds
  <2>5. CASE \E new : jobs' = Enqueued(new, jobs) /\ attached' = Attached(TargetOf(p), new)
    <3>1. PICK new : jobs' = Enqueued(new, jobs) /\ attached' = Attached(TargetOf(p), new)
      BY <2>5
    <3> QED
      BY <2>3, <3>1, JobsAreSame, LeaseEnqueues
  <2> QED
    BY <2>1, <2>4, <2>5
<1>8. ASSUME NEW j \in DOMAIN jobs, Lapse(j) PROVE LeaseInv' /\ CompletedStay
  <2> DEFINE rows == [jobs EXCEPT ![j].live = FALSE]
  <2>1. /\ jobs[j].state = "running" /\ jobs' = rows /\ UNCHANGED <<attached, held>>
    BY <1>8 DEF Lapse, process
  <2>2. jobs = [i \in DOMAIN jobs |-> jobs[i]] /\ IsRow(jobs[j])
    BY DEF LeaseInv
  <2>3. /\ rows = [i \in DOMAIN jobs |-> rows[i]]
        /\ \A i \in DOMAIN jobs : i # j => rows[i] = jobs[i]
        /\ rows[j] = [jobs[j] EXCEPT !.live = FALSE]
    BY <2>2
  <2> HIDE DEF rows
  <2>4. rows[j] = [state |-> jobs[j].state, fence |-> jobs[j].fence, live |-> FALSE, output |-> jobs[j].output]
    BY <2>2, <2>3 DEF IsRow
  <2>5. IsRow(rows[j]) /\ rows[j].fence = jobs[j].fence
    BY <2>4 DEF IsRow
  <2>6. SameFences(rows)
    BY <2>1, <2>3, <2>5 DEF SameFences, LeaseInv
  <2>7. rows = Enqueued({}, rows)
    BY <2>6, NothingEnqueued
  <2>8. /\ attached' = [c \in Collection |-> attached'[c]] /\ \A c \in Collection : attached'[c] \subseteq attached[c] \cup {}
        /\ held' = [p \in Process |-> held'[p]] /\ \A p \in Process : held'[p] \in {held[p], None}
    BY <2>1 DEF LeaseInv
  <2> QED
    BY <2>1, <2>6, <2>7, <2>8, RowsStep
<1>9. CASE Rollback
  <2>1. UNCHANGED <<jobs, attached, held>>
    BY <1>9 DEF Rollback, store, process
  <2> QED
    BY <2>1, NothingLeased
<1> QED
  BY <1>1, <1>2, <1>3, <1>4, <1>5, <1>6, <1>7, <1>8, <1>9 DEF Next, RunStep

LEMMA LeaseInvariant ==
  Spec => [](JobsInv /\ LeaseInv)
<1>1. Init => LeaseInv
  BY DEF Init, LeaseInv
<1>2. JobsInv /\ LeaseInv /\ [Next]_vars => LeaseInv'
  <2>1. CASE UNCHANGED vars
    BY <2>1, NothingLeased DEF vars, store, process
  <2>2. CASE Next
    BY <2>2, LeaseStep DEF JobsInv
  <2> QED
    BY <2>1, <2>2
<1> QED
  BY <1>1, <1>2, JobsInvariant, PTL DEF Spec

(* store.mjs:20-38: whatever expires, crashes or is taken over, of the     *)
(* processes that hold a job under any fence at most one may complete it.  *)
FencedOnce ==
  \A p, q \in Process : Holds(p) /\ Holds(q) /\ held[p].job = held[q].job => p = q

THEOREM JobsAreHeldOnce == Spec => []FencedOnce
<1>1. LeaseInv => FencedOnce
  BY DEF LeaseInv, FencedOnce, Holds
<1> QED
  BY <1>1, LeaseInvariant, PTL

(* store.mjs:7, 20, 43, 54: a completed job is never claimed, failed,      *)
(* enqueued or computed again, so collections that share it read one       *)
(* output.                                                                 *)
THEOREM CompletedJobsStay == Spec => [][CompletedStay]_vars
<1>1. JobsInv /\ LeaseInv /\ [Next]_vars => [CompletedStay]_vars
  BY LeaseStep DEF JobsInv
<1> QED
  BY <1>1, LeaseInvariant, PTL DEF Spec
=============================================================================
