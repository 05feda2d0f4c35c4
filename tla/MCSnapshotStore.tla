-------------------------- MODULE MCSnapshotStore --------------------------
(* A small instance of SnapshotStore: two sources, stamps 1..2, batches of *)
(* one or two pages, reports at either stamp, three embedding profiles.    *)
EXTENDS SnapshotStore, TLC

CONSTANTS s1, s2, r1, r2, r3, voyage, other

MCSource == {s1, s2}
MCStamp == 1 .. 2
MCProfile == {voyage, other, NoProfile}
MCRequests == {r1, r2, r3}

active(s, o, l) == [src |-> s, oldest |-> o, latest |-> l, active |-> TRUE]
retired(s, t) == [src |-> s, oldest |-> t, latest |-> t, active |-> FALSE]

import(pages) == [kind |-> "import", pages |-> pages]
publish(f, p) == [kind |-> "publish", finishedAt |-> f, profile |-> p]

older == import(<<active(s2, 1, 1)>>)
newer == import(<<active(s1, 1, 2), retired(s2, 2)>>)

(* A first request stages a page without a failure before two others take  *)
(* over from one another: a newer batch, an older and a newer report, and  *)
(* a redeployment with another embedding profile.                          *)
JobsOf == (r1 :> {older}) @@ (r2 :> {newer, publish(2, voyage)})
          @@ (r3 :> {older, publish(1, voyage), publish(2, other)})
MCJob == UNION {JobsOf[r] : r \in MCRequests}

MCInit == StoreInit /\ \A r \in Request : job[r] \in JobsOf[r]

FirstIsStaged == pc[r1] = "done"
FirstGoesOn == pc'[r1] \notin {"failing", "crashed"} /\ result'[r1] # "error"
MCNext == /\ StoreNext
          /\ FirstGoesOn
          /\ ~FirstIsStaged => \A r \in {r2, r3} : pc'[r] = pc[r]

MCSpec == MCInit /\ [][MCNext]_vars /\ Fairness
=============================================================================
