---------------------------- MODULE LabelLedger -----------------------------
(***************************************************************************)
(* Event labeling: labelEventBatch of web/lib/event-label-index.ts behind  *)
(* the labels route.  A request works through a queue of documents in      *)
(* groups of parallel paid calls.  A durable ledger charges a fixed number *)
(* of tokens per call before the calls and settles the reported usage      *)
(* after them; labels are saved once, at the end of the request.           *)
(*                                                                         *)
(* saveEventLabels is one step (VectorIndex models the same protocol in    *)
(* parts) and so is each group of calls.                                   *)
(***************************************************************************)
EXTENDS Integers, FiniteSets, FiniteSetsExt

CONSTANTS Request,          \* concurrent clients of the labels route
          Doc,              \* label hashes of the pending documents
          Concurrency, MaxCalls, TokensPerCall,
          TokenCap,
          Usage,            \* the tokens a call may use
          MaxFaults,        \* bound on crashes, failures and repeated callbacks
          MaxResumes,       \* bound on resume requests
          None

ASSUME LimitsAssumption ==
  /\ {Concurrency, MaxCalls, TokensPerCall, TokenCap, MaxFaults, MaxResumes} \subseteq Nat
  /\ Concurrency > 0 /\ Usage \subseteq Nat /\ IsFiniteSet(Doc)

VARIABLES ledger,   \* the durable ledger
          labels,   \* documents with saved labels
          lease,    \* label_index_lock: holder and whether it is unexpired
          pc, req,  \* each request: queue, batch, saved, resume, calls' outcome
          used,     \* history: tokens the provider has charged
          paid,     \* history: documents whose labels were paid for
          halts,    \* history: a failure was settled and nobody resumed since
          faults, resumes

history == <<used, paid, halts>>
bounds == <<faults, resumes>>
vars == <<ledger, labels, lease, pc, req, history, bounds>>

Local == [queue : SUBSET Doc, batch : SUBSET Doc, saved : SUBSET Doc,
          resume : BOOLEAN, ok : SUBSET Doc, used : Nat,
          stop : {"none", "bounded", "halted", "budget", "provider"}]

ASSUME NoneAssumption == None \notin Local \cup [holder : Request, live : BOOLEAN]

TypeOK ==
  /\ ledger \in [calls : Nat, failedCalls : Nat, used : Nat, charged : Int, halted : BOOLEAN]
  /\ labels \subseteq Doc
  /\ lease \in [holder : Request, live : BOOLEAN] \cup {None}
  /\ pc \in [Request -> {"idle", "pending", "reserve", "call", "settle", "save", "release"}]
  /\ req \in [Request -> Local \cup {None}]
  /\ \A r \in Request : req[r] # None => Cardinality(req[r].batch) <= Concurrency
  /\ used \in Nat /\ paid \subseteq Doc /\ halts \in BOOLEAN
  /\ faults \in 0 .. MaxFaults /\ resumes \in 0 .. MaxResumes

Init ==
  /\ ledger = [calls |-> 0, failedCalls |-> 0, used |-> 0, charged |-> 0, halted |-> FALSE]
  /\ labels = {} /\ lease = None
  /\ pc = [r \in Request |-> "idle"] /\ req = [r \in Request |-> None]
  /\ used = 0 /\ paid = {} /\ halts = FALSE
  /\ faults = 0 /\ resumes = 0

-----------------------------------------------------------------------------
(* The route and the queue *)

Goto(r, target) == pc' = [pc EXCEPT ![r] = target]
HoldsLive(r) == lease # None /\ lease.holder = r /\ lease.live
Fault == faults < MaxFaults /\ faults' = faults + 1
AtMost(a, b) == IF a < b THEN a ELSE b
Slices(docs, size) == {b \in SUBSET docs : Cardinality(b) = AtMost(Cardinality(docs), size)}

AcquireLease(r, resume) ==
  /\ pc[r] = "idle"
  /\ lease # None => ~lease.live
  /\ resume => resumes < MaxResumes
  /\ resumes' = IF resume THEN resumes + 1 ELSE resumes
  /\ lease' = [holder |-> r, live |-> TRUE]
  /\ req' = [req EXCEPT ![r] = [queue |-> {}, batch |-> {}, saved |-> {}, resume |-> resume,
                               ok |-> {}, used |-> 0, stop |-> "none"]]
  /\ Goto(r, "pending")
  /\ UNCHANGED <<ledger, labels, history, faults>>

AllDocuments == Doc
Pending == Doc \ labels

ReadPending(r) ==
  /\ pc[r] = "pending"
  /\ \E queue \in Slices(Pending, MaxCalls) :
       /\ req' = [req EXCEPT ![r].queue = queue]
       /\ Goto(r, IF queue = {} THEN "release" ELSE "reserve")
  /\ UNCHANGED <<ledger, labels, lease, history, bounds>>

SaveOrRelease(r, saved) == Goto(r, IF saved = {} THEN "release" ELSE "save")

Stop(r, reason) ==
  /\ req' = [req EXCEPT ![r].stop = reason, ![r].batch = {}]
  /\ SaveOrRelease(r, req[r].saved)

(* The time budget or the lease runs short before the next group.          *)
BoundedStop(r) ==
  /\ pc[r] = "reserve"
  /\ IF HoldsLive(r) THEN Fault ELSE UNCHANGED faults
  /\ Stop(r, "bounded")
  /\ UNCHANGED <<ledger, labels, lease, history, resumes>>

-----------------------------------------------------------------------------
(* The ledger *)

Spent == ledger.used + ledger.charged

(* The transaction callback with the resume flag it finds.                 *)
Callback(r, resume) ==
  \E batch \in Slices(req[r].queue, Concurrency) :
    LET charge == Cardinality(batch) * TokensPerCall
    IN  IF ledger.halted /\ ~resume
        THEN Stop(r, "halted") /\ UNCHANGED <<ledger, halts>>
        ELSE IF Spent + charge > TokenCap
        THEN Stop(r, "budget") /\ UNCHANGED <<ledger, halts>>
        ELSE /\ ledger' = [ledger EXCEPT !.halted = FALSE, !.calls = @ + Cardinality(batch), !.charged = @ + charge]
             /\ req' = [req EXCEPT ![r].batch = batch, ![r].queue = @ \ batch, ![r].resume = FALSE]
             /\ halts' = FALSE
             /\ Goto(r, "call")

(* The client library may run the callback again; the flag that the first  *)
(* run cleared stays cleared.                                              *)
Reserve(r) ==
  /\ pc[r] = "reserve"
  /\ HoldsLive(r)
  /\ \/ Callback(r, req[r].resume) /\ UNCHANGED faults
     \/ Callback(r, FALSE) /\ Fault
  /\ UNCHANGED <<labels, lease, used, paid, resumes>>

-----------------------------------------------------------------------------
(* The paid calls *)

(* Calls either report their usage or fail, failed ones maybe after they   *)
(* were charged.  A group uses the same tokens per call here.              *)
CallProvider(r) ==
  /\ pc[r] = "call"
  /\ \E ok \in SUBSET req[r].batch, tokens \in Usage :
       /\ req' = [req EXCEPT ![r].ok = ok, ![r].used = tokens * Cardinality(ok)]
       /\ used' = used + tokens * Cardinality(req[r].batch)
       /\ paid' = paid \cup ok
  /\ Goto(r, "settle")
  /\ UNCHANGED <<ledger, labels, lease, halts, bounds>>

Failures(r) == Cardinality(req[r].batch \ req[r].ok)

HaltedByOwn(r) == Failures(r) > 0
HaltedAfter(r) == ledger.halted \/ Failures(r) > 0

ChargeReleased(r) == ledger.charged - Cardinality(req[r].batch) * TokensPerCall
ChargeAfter(r) == ledger.charged - Cardinality(req[r].ok) * TokensPerCall

Settle(r) ==
  /\ pc[r] = "settle"
  /\ ledger' = [ledger EXCEPT !.failedCalls = @ + Failures(r), !.used = @ + req[r].used,
                              !.charged = ChargeAfter(r), !.halted = HaltedAfter(r)]
  /\ halts' = (halts \/ Failures(r) > 0)
  /\ req' = [req EXCEPT ![r].saved = @ \cup req[r].ok, ![r].batch = {}, ![r].ok = {}, ![r].used = 0,
                        ![r].stop = IF Failures(r) > 0 THEN "provider" ELSE @]
  /\ IF Failures(r) > 0 \/ req[r].queue = {} THEN SaveOrRelease(r, req[r].saved \cup req[r].ok)
     ELSE Goto(r, "reserve")
  /\ UNCHANGED <<labels, lease, used, paid, bounds>>

SavesFirst(r) == IF req[r].stop = "none" THEN req[r].saved ELSE {}
Saves(r) == req[r].saved

SaveLabels(r) ==
  /\ pc[r] = "save"
  /\ HoldsLive(r)
  /\ labels' = labels \cup Saves(r)
  /\ Goto(r, "release")
  /\ UNCHANGED <<ledger, lease, req, history, bounds>>

(* A storage call fails: the request ends with an error.                   *)
Fail(r) ==
  /\ \/ pc[r] = "save" /\ ~HoldsLive(r) /\ UNCHANGED faults
     \/ pc[r] \in {"pending", "reserve", "settle", "save"} /\ Fault
  /\ Goto(r, "release")
  /\ UNCHANGED <<ledger, labels, lease, req, history, resumes>>

ReleaseLease(r) ==
  /\ pc[r] = "release"
  /\ lease' = IF lease # None /\ lease.holder = r THEN None ELSE lease
  /\ Goto(r, "idle") /\ req' = [req EXCEPT ![r] = None]
  /\ UNCHANGED <<ledger, labels, history, bounds>>

Crash(r) ==
  /\ pc[r] # "idle"
  /\ Fault
  /\ Goto(r, "idle") /\ req' = [req EXCEPT ![r] = None]
  /\ UNCHANGED <<ledger, labels, lease, history, resumes>>

Abandoned == lease # None /\ lease.live /\ pc[lease.holder] = "idle"

Expire ==
  /\ lease # None /\ lease.live
  /\ IF Abandoned THEN UNCHANGED faults ELSE Fault
  /\ lease' = [lease EXCEPT !.live = FALSE]
  /\ UNCHANGED <<ledger, labels, pc, req, history, resumes>>

-----------------------------------------------------------------------------
Step(r) ==
  \/ ReadPending(r) \/ BoundedStop(r) \/ Reserve(r) \/ CallProvider(r) \/ Settle(r)
  \/ SaveLabels(r) \/ Fail(r) \/ ReleaseLease(r)

Next ==
  \/ \E r \in Request, resume \in BOOLEAN : AcquireLease(r, resume)
  \/ \E r \in Request : Step(r) \/ Crash(r)
  \/ Expire

Spec == Init /\ [][Next]_vars

(* Requests run on, abandoned leases expire, and the client repeats its    *)
(* request until nothing is pending.                                       *)
FairSpec ==
  /\ Spec
  /\ \A r \in Request : WF_vars(Step(r)) /\ SF_vars(AcquireLease(r, FALSE))
  /\ WF_vars(Abandoned /\ Expire)

-----------------------------------------------------------------------------
(* Properties *)

(* The durable cap bounds what the provider really charges, across         *)
(* overlapping requests, crashes and calls that fail after being charged,  *)
(* as long as a call stays within its reservation.                         *)
CapHolds == used <= TokenCap

(* A settled failure stays in force until somebody resumes, also when a    *)
(* slower request settles a successful group after it.                     *)
HaltIsKept == halts => ledger.halted

(* "Unchanged documents cost nothing": as long as no request dies, loses   *)
(* its lease or fails to store its labels, no document with paid labels is *)
(* sent again, whatever calls of its group fail and whoever resumes.       *)
LabeledOnce ==
  [][\A r \in Request : faults = 0 /\ CallProvider(r) => req[r].batch \cap paid = {}]_vars

(* Repeated requests label every document, or stop for a failure that      *)
(* somebody has to review, or because the cap has no room for a group.     *)
NoRoom ==
  LET group == AtMost(Concurrency, AtMost(MaxCalls, Cardinality(Doc \ labels)))
  IN  Spent + group * TokensPerCall > TokenCap
EverythingIsLabeled == <>[](Doc \subseteq labels \/ ledger.halted \/ NoRoom)
=============================================================================
