---------------------------- MODULE SourcePages ----------------------------
(***************************************************************************)
(* The data the snapshot store keeps about one collected source page, and  *)
(* the rule that decides whether an arriving page replaces the staged one  *)
(* (web/lib/source-page.ts, web/lib/store.gcp.ts importPages).             *)
(*                                                                         *)
(* A page is abstracted to what the store compares: the source it was      *)
(* collected from, the oldest and the newest checkedAt of its events, and  *)
(* whether it has events at all.  An empty page is a retirement or a       *)
(* quarantine and carries one stamp.  The staged head holds the page's     *)
(* content hash, newest stamp and event count, hence is that page.         *)
(***************************************************************************)
EXTENDS Naturals

CONSTANTS Source,   \* listing URLs
          Stamp,    \* checkedAt and finishedAt stamps
          NoPage    \* "no document" under a source's path

ASSUME StampAssumption == Stamp \subseteq Nat

Page ==
  {p \in [src : Source, oldest : Stamp, latest : Stamp, active : BOOLEAN] :
     /\ p.oldest <= p.latest
     /\ p.active \/ p.oldest = p.latest}

ASSUME NoPageAssumption == NoPage \notin Page

Heads == [Source -> Page \cup {NoPage}]

(* importPages: the staged head is newer than the oldest stamp of the page,*)
(* or as old and a retirement that events may not revive.                  *)
SupersededByRetirement(head, p) ==
  head # NoPage /\ head.latest = p.oldest /\ ~head.active /\ p.active
Superseded(head, p) ==
  /\ head # NoPage
  /\ \/ head.latest > p.oldest
     \/ head.latest = p.oldest /\ ~head.active /\ p.active

(* publishCheckpoint: no staged source may be newer than the report.       *)
NotNewer(heads, finishedAt) ==
  \A s \in Source : heads[s] # NoPage => heads[s].latest <= finishedAt

(* publishCheckpoint refuses a catalog without events.                     *)
HasEvents(heads) ==
  \E s \in Source : heads[s] # NoPage /\ heads[s].active

Staged(heads) == {heads[s] : s \in Source} \ {NoPage}
=============================================================================
