--------------------------- MODULE MCAuditedIndex ---------------------------
(* Units: a third of the rolling minute is the pacing interval; a call may *)
(* carry 3 of the 4 bytes of a minute; a byte costs a third of a token.    *)
EXTENDS AuditedIndex, TLC

CONSTANTS r1, r2, a1, a2, d1, d2, d3

BytesOfDocs(docs) == MapThenSumSet(LAMBDA d : 3, docs)
Observed3(size) == {size \div 3}
ObservedOr(size) == {size \div 3, 10}

(* A window, its replacements while it is active, and the next window.     *)
Reviewed == {[startedAt |-> 0, until |-> 3, maxCalls |-> 2], [startedAt |-> 0, until |-> 3, maxCalls |-> 1],
             [startedAt |-> 3, until |-> 6, maxCalls |-> 2]}
OneWindow == {[startedAt |-> 0, until |-> 6, maxCalls |-> 3]}

Symmetries == Permutations(Doc) \cup Permutations(RunId)
=============================================================================
