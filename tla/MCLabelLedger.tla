--------------------------- MODULE MCLabelLedger ---------------------------
(* A call reserves two tokens and uses one or two of them.                 *)
EXTENDS LabelLedger, TLC

CONSTANTS r1, r2, d1, d2, d3

Symmetries == Permutations(Doc) \cup Permutations(Request)
=============================================================================
