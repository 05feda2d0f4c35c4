--------------------------- MODULE MCCollectionJobs ---------------------------
(* Two runs over two collections: of an older and a newer time, of shared   *)
(* listings, of a page that is gone, of raw pages, of two identity versions.*)
EXTENDS CollectionJobs

CONSTANTS A, B, p1, p2

Rev(listing, at, starts) == [listing |-> listing, at |-> at, starts |-> starts, url |-> listing, body |-> 0]
Page(url, at, status, listings) == [url |-> url, at |-> at, status |-> status, listings |-> listings]
Sells(r) == Page(r.url, r.at, "verified", {r})

(* The first version joins what starts together, the second one does not.   *)
MCResolve(version, revisions) == IF version = 1 THEN {revisions} ELSE {{r} : r \in revisions}

Scenario(pagesA, pagesB, raw, second, version, faultCount, stopCount, attemptCount, rollbackCount) ==
  [input |-> [c \in {A, B} |-> [pages |-> IF c = A THEN pagesA ELSE pagesB, raw |-> raw]],
   target |-> [p \in {p1, p2} |-> IF p = p1 THEN A ELSE second],
   version |-> [p \in {p1, p2} |-> IF p = p1 THEN 1 ELSE version],
   faults |-> faultCount, stops |-> stopCount, attempts |-> attemptCount, rollbacks |-> rollbackCount]

Old == Rev(1, 1, 1)
New == Rev(1, 2, 1)
Other == Rev(2, 1, 1)
Odd == [New EXCEPT !.body = 1]

MCDeployment ==
  {Scenario({Sells(Old)}, {Sells(New)}, FALSE, B, 1, 1, 0, 3, 1),
   Scenario({Sells(Odd)}, {Sells(New)}, FALSE, B, 1, 0, 0, 2, 0),
   Scenario({Sells(Old), Sells(Other)}, {Sells(Old)}, FALSE, B, 1, 1, 0, 2, 1),
   Scenario({Sells(Old), Sells(Other)}, {}, FALSE, A, 2, 1, 0, 1, 0),
   Scenario({Sells(Old), Sells(Other)}, {}, TRUE, A, 1, 1, 1, 1, 0),
   Scenario({Sells(Old)}, {Page(1, 2, "retired", {})}, FALSE, B, 1, 1, 0, 2, 0),
   Scenario({Sells(Old)}, {Page(1, 2, "verified", {}), Page(3, 1, "failed", {})}, TRUE, B, 1, 0, 0, 2, 0)}
=============================================================================
