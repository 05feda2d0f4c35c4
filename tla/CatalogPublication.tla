------------------------- MODULE CatalogPublication -------------------------
(***************************************************************************)
(* What the snapshot store promises its callers: a source page is staged   *)
(* in one step, and a publication replaces the public catalog in one step  *)
(* by everything that is staged at that very moment.  No lease, no phases, *)
(* no crashes.  SnapshotStore is shown to implement this module.           *)
(***************************************************************************)
EXTENDS SourcePages

CONSTANTS Revision,    \* random UUIDs of published heads
          Profile,     \* embedding profiles of the deployed instances
          NoProfile,   \* an instance that was given none
          NoCatalog    \* nothing was ever published

VARIABLES sources,     \* sources[s]: the staged page of s
          catalog      \* the public catalog head

absVars == <<sources, catalog>>

ASSUME NoCatalogAssumption == NoCatalog \notin [revision : Revision, finishedAt : Stamp,
                                             profile : Profile, heads : Heads]

Catalog == [revision : Revision, finishedAt : Stamp, profile : Profile, heads : Heads]

Init ==
  /\ sources = [s \in Source |-> NoPage]
  /\ catalog = NoCatalog

StagePage(p) ==
  /\ ~Superseded(sources[p.src], p)
  /\ sources' = [sources EXCEPT ![p.src] = p]
  /\ UNCHANGED catalog

(* A report publishes when it is newer than the published one, or as old   *)
(* but prepared for another embedding profile.                             *)
Supersedes(finishedAt, profile) ==
  \/ catalog = NoCatalog
  \/ catalog.finishedAt < finishedAt
  \/ catalog.finishedAt = finishedAt /\ profile \notin {NoProfile, catalog.profile}

Publish(rev, finishedAt, profile) ==
  /\ Supersedes(finishedAt, profile)
  /\ NotNewer(sources, finishedAt)
  /\ HasEvents(sources)
  /\ catalog' = [revision |-> rev, finishedAt |-> finishedAt,
                 profile |-> profile, heads |-> sources]
  /\ UNCHANGED sources

Next ==
  \/ \E p \in Page : StagePage(p)
  \/ \E rev \in Revision, f \in Stamp, pr \in Profile : Publish(rev, f, pr)

Spec == Init /\ [][Next]_absVars
=============================================================================
