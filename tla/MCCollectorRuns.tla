-------------------------- MODULE MCCollectorRuns --------------------------
(* Source 1 belongs to the first provider, the others to the second.       *)
EXTENDS CollectorRuns

CONSTANTS MaxTime, p1, p2, c1, c2

MCProviders == <<p1, p2>>
MCProviderOf == [s \in Source |-> IF s = 1 THEN p1 ELSE p2]
MCStamp == 0 .. MaxTime

(* The scheduled jobs alone, with cycles, and with replays.                *)
Scheduled == [sources |-> Source, cycles |-> {}, replays |-> FALSE]
Cycles == [sources |-> {2, 3}, cycles |-> {c1, c2}, replays |-> FALSE]
Replays == [sources |-> {1, 2}, cycles |-> {}, replays |-> TRUE]
MCUsage == {Scheduled, Cycles, Replays}
=============================================================================
