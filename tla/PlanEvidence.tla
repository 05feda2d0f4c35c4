----------------------------- MODULE PlanEvidence -----------------------------
(***************************************************************************)
(* Whether the facts known of a session support a plan, as                 *)
(* web/lib/plan-evidence.ts evaluates it.  A plan is a tree of conditions  *)
(* over atoms; what is known of an atom is "supported", "contradicted" or  *)
(* "unknown".  A topic that the source does not mention is unknown, except *)
(* under a negation, where its absence is meant: an odd number of "not"    *)
(* above it makes it contradicted.  A budget for a group depends on the    *)
(* number of people that another atom of the plan states.                  *)
(*                                                                         *)
(* A session is a record of what its source states: facts, a function of   *)
(* the atoms of kind "topic" and "fact" ("hinted": the source speaks of    *)
(* it and settles nothing), its price, and whether it is elsewhere.        *)
(***************************************************************************)
EXTENDS Naturals, Sequences, FiniteSets, SequencesExt

Status == {"supported", "contradicted", "unknown"}

RECURSIVE AtomsOf(_, _), Parties(_), Evaluate(_, _, _, _), HoldsIn(_, _, _, _)

(* The atoms of a condition, each with whether only "all" is above it.     *)
AtomsOf(condition, unconditional) ==
  CASE condition.type = "atom" -> {<<condition.atom, unconditional>>}
    [] condition.type = "not" -> AtomsOf(condition.child, FALSE)
    [] OTHER -> UNION {AtomsOf(child, unconditional /\ condition.type = "all") :
                         child \in ToSet(condition.children)}

(* The counts of the parties that hold unconditionally, one per atom.      *)
Parties(condition) ==
  CASE condition.type = "atom" -> IF condition.atom.kind = "party" THEN <<condition.atom.count>> ELSE <<>>
    [] condition.type = "all" -> FoldLeft(LAMBDA found, child : found \o Parties(child), <<>>, condition.children)
    [] OTHER -> <<>>

NoCount == 0
PlanPartyCount(plan) ==
  LET counts == Parties(plan.hard) IN IF Len(counts) = 1 THEN counts[1] ELSE NoCount

AtomResult(session, atom, partyCount) ==
  CASE atom.kind \in {"topic", "fact"} -> session.facts[atom]
    [] atom.kind = "group_budget" ->
         IF partyCount = NoCount THEN "unknown"
         ELSE IF session.price * partyCount <= atom.amount THEN "supported" ELSE "contradicted"
    [] atom.kind = "party" -> "supported"
    [] atom.kind = "mood" -> "unknown"

(* The absence of a topic, read under an even or an odd number of "not".   *)
Absence(atom, status, negated) ==
  CASE status = "hinted" -> "unknown"
    [] status = "unknown" /\ negated /\ atom.kind = "topic" -> "contradicted"
    [] OTHER -> status

Opposite(status) ==
  CASE status = "unknown" -> "unknown"
    [] status = "supported" -> "contradicted"
    [] status = "contradicted" -> "supported"

Evaluate(session, condition, partyCount, negated) ==
  CASE condition.type = "atom" ->
         Absence(condition.atom, AtomResult(session, condition.atom, partyCount), negated)
    [] condition.type = "not" ->
         Opposite(Evaluate(session, condition.child, partyCount, ~negated))
    [] OTHER ->
         LET children == {Evaluate(session, child, partyCount, negated) : child \in ToSet(condition.children)}
             decides == IF condition.type = "all" THEN "contradicted" ELSE "supported"
         IN  IF decides \in children THEN decides
             ELSE IF children \subseteq {Opposite(decides)} THEN Opposite(decides)
             ELSE "unknown"

(* evaluatePlan: only what is supported becomes a candidate.               *)
PlanSupported(plan, session) ==
  /\ ~session.elsewhere
  /\ Evaluate(session, plan.hard, PlanPartyCount(plan), FALSE) = "supported"

(* validateSearchPlan: the plans that a search accepts.                    *)
ValidPlan(plan) ==
  LET atoms == AtomsOf(plan.hard, TRUE)
      parties == {a \in atoms : a[1].kind = "party"}
  IN  /\ \A a \in atoms : a[1].kind # "mood"
      /\ \A a \in parties : a[2]
      /\ Cardinality({a[1].count : a \in parties}) <= 1
      /\ (\E a \in atoms : a[1].kind = "group_budget") => Len(Parties(plan.hard)) = 1

HasMoodPreferences(plan) ==
  \E p \in plan.preferences : \E a \in AtomsOf(p, TRUE) : a[1].kind = "mood"

-----------------------------------------------------------------------------
(* What a plan means: in two-valued logic, for every way in which what is  *)
(* unknown may turn out.  "truth" gives the unknown atoms their values;    *)
(* a topic that nothing mentions is false where it is to be excluded.      *)

TruthOf(session, atom, count, negated, truth) ==
  CASE atom.kind = "party" -> TRUE
    [] atom.kind = "group_budget" -> session.price * count <= atom.amount
    [] atom.kind = "mood" -> truth[atom]
    [] OTHER -> CASE session.facts[atom] = "supported" -> TRUE
                  [] session.facts[atom] = "contradicted" -> FALSE
                  [] session.facts[atom] = "hinted" -> truth[atom]
                  [] OTHER -> truth[atom] /\ ~(negated /\ atom.kind = "topic")

HoldsIn(session, condition, negated, context) ==
  CASE condition.type = "atom" ->
         TruthOf(session, condition.atom, context.count, negated, context.truth)
    [] condition.type = "not" -> ~HoldsIn(session, condition.child, ~negated, context)
    [] condition.type = "all" -> \A child \in ToSet(condition.children) : HoldsIn(session, child, negated, context)
    [] condition.type = "any" -> \E child \in ToSet(condition.children) : HoldsIn(session, child, negated, context)

(* The plan holds of the session whatever is not known, for the number of  *)
(* people it speaks of.                                                    *)
PlanHolds(plan, session) ==
  LET atoms == {a[1] : a \in AtomsOf(plan.hard, TRUE)}
      counts == {a.count : a \in {b \in atoms : b.kind = "party"}}
  IN  /\ ~session.elsewhere
      /\ \A truth \in [atoms -> BOOLEAN], count \in (IF counts = {} THEN {NoCount} ELSE counts) :
           HoldsIn(session, plan.hard, FALSE, [count |-> count, truth |-> truth])
=============================================================================
