---------------------------- MODULE AuditedIndex ----------------------------
(***************************************************************************)
(* The audited variant of the embeddings route: indexAuditedBatch of       *)
(* web/lib/audited-index.ts.  Each request makes at most one paid call,    *)
(* between two transactions on a durable budget: one that reserves the     *)
(* call and one that settles it.  A call that is not settled blocks all    *)
(* later ones until somebody has reviewed the evidence.                    *)
(*                                                                         *)
(* saveVoyageVectors is one step here; VectorIndex has its parts.  The     *)
(* evidence objects are written along with the steps they record, and a    *)
(* failed write is a failure of that step.                                 *)
(***************************************************************************)
EXTENDS Naturals, FiniteSets, FiniteSetsExt

CONSTANTS Request,            \* concurrent HTTP requests of the collector CLI
          RunId,              \* workflow runs
          Window,             \* reviewed windows: [startedAt, until, maxCalls]
          Doc, BytesOf(_),    \* document hashes, and the bytes of the texts of a set of them
          TokensOf(_),        \* the tokens a provider may report for a size
          CallsPerRun, InputBytesPerCall, RollingInputBytes, IntervalMs, MinuteMs,
          MaxTime, MaxCheckpoint, MaxFaults,   \* bounds of the model
          None

Limits == {CallsPerRun, InputBytesPerCall, RollingInputBytes, IntervalMs, MinuteMs,
           MaxTime, MaxCheckpoint, MaxFaults}
ASSUME LimitsAssumption == Limits \subseteq Nat /\ MaxCheckpoint > 0
ASSUME BytesAssumption ==
  \A docs \in SUBSET Doc : BytesOf(docs) \in Nat /\ TokensOf(BytesOf(docs)) \subseteq Nat
ASSUME WindowAssumption == Window \subseteq [startedAt : Nat, until : Nat, maxCalls : Nat]

VARIABLES clock, checkpoint, documents,   \* published catalog and its documents
          vectors,                        \* documents with a saved vector
          lease,                          \* voyage_index_lock
          window, runs,                   \* the durable budget
          pc, req,                        \* each request and its locals
          starts, paid, settled,          \* history: reservations, calls, settlements
          faults

store == <<checkpoint, documents, vectors>>
budget == <<window, runs>>
history == <<starts, paid, settled>>
vars == <<clock, store, lease, budget, pc, req, history, faults>>

Flight == RunId \X (1 .. CallsPerRun)
Ledger == [id : Window, calls : Nat, tokens : Nat, halted : BOOLEAN, inFlight : Flight \cup {None},
           lastStartAt : Nat \cup {None}, recent : SUBSET [flight : Flight, at : Nat, tokens : Nat]]
RunState == [windowId : Window, checkpoint : Nat, calls : 0 .. CallsPerRun, inputBytes : Nat,
             tokens : Nat, accountedAttempt : 0 .. CallsPerRun]
Local == [runId : RunId, window : Window, checkpoint : Nat, batch : SUBSET Doc,
          attempt : 0 .. CallsPerRun, tokens : Nat]
ASSUME NoneAssumption == None \notin Ledger \cup RunState \cup Local \cup Flight \cup Nat

Start == [n : Nat, flight : Flight, window : Window, docs : SUBSET Doc, at : Nat]

TypeOK ==
  /\ clock \in 0 .. MaxTime
  /\ checkpoint \in 1 .. MaxCheckpoint /\ documents \subseteq Doc /\ vectors \subseteq Doc
  /\ lease \in [holder : Request, live : BOOLEAN] \cup {None}
  /\ window \in Ledger \cup {None}
  /\ window # None => window.calls <= window.id.maxCalls
  /\ runs \in [RunId -> RunState \cup {None}]
  /\ \A id \in RunId : runs[id] # None => runs[id].accountedAttempt <= runs[id].calls
  /\ pc \in [Request -> {"idle", "pending", "window", "admit", "reserve", "request",
                         "receipt", "save", "settle", "halt", "release"}]
  /\ req \in [Request -> Local \cup {None}]
  /\ starts \subseteq Start /\ paid \subseteq Flight /\ settled \subseteq paid
  /\ faults \in 0 .. MaxFaults

Init ==
  /\ clock = 0
  /\ checkpoint = 1 /\ documents \in SUBSET Doc /\ vectors = {}
  /\ lease = None
  /\ window = None /\ runs = [id \in RunId |-> None]
  /\ pc = [r \in Request |-> "idle"] /\ req = [r \in Request |-> None]
  /\ starts = {} /\ paid = {} /\ settled = {}
  /\ faults = 0

-----------------------------------------------------------------------------
(* Before the reservation *)

Goto(r, target) == pc' = [pc EXCEPT ![r] = target]
HoldsLive(r) == lease # None /\ lease.holder = r /\ lease.live
Blocked == window # None /\ (window.halted \/ window.inFlight # None)

(* parseAuditedIndexInput.                                                 *)
Acceptable(w) == w.startedAt <= clock /\ clock < w.until

(* The request carries the checkpoint that the client read before; one     *)
(* that is no longer current by now is refused without effect (pin).       *)
AcquireLease(r) ==
  /\ pc[r] = "idle"
  /\ lease # None => ~lease.live
  /\ lease' = [holder |-> r, live |-> TRUE]
  /\ \E id \in RunId, w \in Window :
       /\ Acceptable(w)
       /\ req' = [req EXCEPT ![r] = [runId |-> id, window |-> w, checkpoint |-> checkpoint,
                                     batch |-> {}, attempt |-> 0, tokens |-> 0]]
  /\ Goto(r, "pending")
  /\ UNCHANGED <<clock, store, budget, history, faults>>

(* The filling order is that of the hashes: any order.                     *)
Batches(pending) ==
  LET fitting == {d \in pending : BytesOf({d}) <= InputBytesPerCall}
  IN  {b \in SUBSET fitting :
         /\ BytesOf(b) <= InputBytesPerCall
         /\ b = fitting \/ \E d \in fitting \ b : BytesOf(b \cup {d}) > InputBytesPerCall}

ReadPending(r) ==
  /\ pc[r] = "pending"
  /\ \E b \in Batches(documents \ vectors) : req' = [req EXCEPT ![r].batch = b]
  /\ Goto(r, "window")
  /\ UNCHANGED <<clock, store, lease, budget, history, faults>>

(* A blocked budget is an error; an empty batch answers without a call.    *)
CheckWindow(r) ==
  /\ pc[r] = "window"
  /\ Goto(r, IF Blocked \/ req[r].batch = {} THEN "release" ELSE "admit")
  /\ UNCHANGED <<clock, store, lease, budget, req, history, faults>>

Admit(r) ==
  /\ pc[r] = "admit"
  /\ Goto(r, IF HoldsLive(r) /\ checkpoint = req[r].checkpoint THEN "reserve" ELSE "release")
  /\ UNCHANGED <<clock, store, lease, budget, req, history, faults>>

-----------------------------------------------------------------------------
(* The reservation *)

Active == window # None /\ window.id.until > clock

AtMost(a, b) == IF a < b THEN a ELSE b

RefilledFor(r) ==
  [id |-> req[r].window, calls |-> 0, tokens |-> 0, halted |-> FALSE, inFlight |-> None,
   lastStartAt |-> None, recent |-> {}]

WindowAlwaysNew(r) ==
  IF window # None /\ window.id = req[r].window THEN window ELSE RefilledFor(r)
WindowFor(r) ==
  CASE window # None /\ window.id = req[r].window -> window
    [] Active /\ window.id # req[r].window ->
         [window EXCEPT !.id = req[r].window, !.calls = AtMost(window.calls, req[r].window.maxCalls)]
    [] OTHER -> RefilledFor(r)

RunFor(r) ==
  IF runs[req[r].runId] # None THEN runs[req[r].runId]
  ELSE [windowId |-> req[r].window, checkpoint |-> req[r].checkpoint, calls |-> 0,
        inputBytes |-> 0, tokens |-> 0, accountedAttempt |-> 0]

WithinBudget(w, run, bytes) ==
  /\ w.calls < w.id.maxCalls
  /\ run.calls < CallsPerRun
  /\ run.inputBytes + bytes <= CallsPerRun * InputBytesPerCall
  /\ run.tokens + bytes <= CallsPerRun * InputBytesPerCall
  /\ w.tokens + bytes <= w.id.maxCalls * InputBytesPerCall

Recent(w) == {s \in w.recent : s.at + MinuteMs > clock}

BytesOnly(w, bytes) == MapThenSumSet(LAMBDA s : s.tokens, Recent(w)) + bytes <= RollingInputBytes
Paced(w, bytes) ==
  /\ w.lastStartAt # None => clock >= w.lastStartAt + IntervalMs
  /\ MapThenSumSet(LAMBDA s : s.tokens, Recent(w)) + bytes <= RollingInputBytes

MayReserve(r) ==
  /\ ~Blocked
  /\ RunFor(r).windowId = req[r].window /\ RunFor(r).checkpoint = req[r].checkpoint
  /\ req[r].window.until > clock
  /\ WithinBudget(WindowFor(r), RunFor(r), BytesOf(req[r].batch))
  /\ Paced(WindowFor(r), BytesOf(req[r].batch))

(* The reply to the committing transaction may get lost.                   *)
Reserve(r) ==
  LET w == WindowFor(r)
      run == RunFor(r)
      bytes == BytesOf(req[r].batch)
      flight == <<req[r].runId, run.calls + 1>>
  IN  /\ pc[r] = "reserve"
      /\ MayReserve(r)
      /\ window' = [w EXCEPT !.calls = @ + 1, !.inFlight = flight, !.lastStartAt = clock,
                             !.recent = Recent(w) \cup {[flight |-> flight, at |-> clock, tokens |-> bytes]}]
      /\ runs' = [runs EXCEPT ![req[r].runId] =
                    [run EXCEPT !.calls = @ + 1, !.inputBytes = @ + bytes]]
      /\ req' = [req EXCEPT ![r].attempt = run.calls + 1]
      /\ starts' = starts \cup {[n |-> Cardinality(starts) + 1, flight |-> flight,
                                 window |-> req[r].window, docs |-> req[r].batch, at |-> clock]}
      /\ \/ Goto(r, "request") /\ UNCHANGED faults
         \/ Goto(r, "release") /\ faults < MaxFaults /\ faults' = faults + 1
      /\ UNCHANGED <<clock, store, lease, paid, settled>>

Refuse(r) ==
  /\ pc[r] = "reserve"
  /\ ~MayReserve(r)
  /\ Goto(r, "release")
  /\ UNCHANGED <<clock, store, lease, budget, req, history, faults>>

-----------------------------------------------------------------------------
(* The paid call and its settlement *)

FlightOf(r) == <<req[r].runId, req[r].attempt>>
InFlight(r) == window # None /\ window.inFlight = FlightOf(r)
Fault == faults < MaxFaults /\ faults' = faults + 1

InTime(r) == HoldsLive(r) /\ clock < req[r].window.until

CallProvider(r) ==
  /\ pc[r] = "request"
  /\ InTime(r)
  /\ paid' = paid \cup {FlightOf(r)}
  /\ \/ /\ \E tokens \in TokensOf(BytesOf(req[r].batch)) : req' = [req EXCEPT ![r].tokens = tokens]
        /\ Goto(r, "receipt") /\ UNCHANGED faults
     \/ Goto(r, "halt") /\ Fault /\ UNCHANGED req
  /\ UNCHANGED <<clock, store, lease, budget, starts, settled>>

Overshoots(r) ==
  \/ runs[req[r].runId].tokens + req[r].tokens > CallsPerRun * InputBytesPerCall
  \/ window.tokens + req[r].tokens > req[r].window.maxCalls * InputBytesPerCall

CheckReceipt(r) ==
  /\ pc[r] = "receipt"
  /\ Goto(r, IF Overshoots(r) \/ checkpoint # req[r].checkpoint THEN "halt" ELSE "save")
  /\ UNCHANGED <<clock, store, lease, budget, req, history, faults>>

SaveVectors(r) ==
  /\ pc[r] = "save"
  /\ HoldsLive(r)
  /\ vectors' = vectors \cup req[r].batch
  /\ \/ Goto(r, "settle") /\ UNCHANGED faults
     \/ Goto(r, "halt") /\ Fault
  /\ UNCHANGED <<clock, checkpoint, documents, lease, budget, req, history>>

Observed(r) ==
  {IF s.flight = FlightOf(r) THEN [s EXCEPT !.tokens = req[r].tokens] ELSE s : s \in window.recent}

AccountClears(r, halted) ==
  /\ window' = [window EXCEPT !.tokens = @ + req[r].tokens, !.inFlight = None, !.recent = Observed(r)]
  /\ runs' = [runs EXCEPT ![req[r].runId].tokens = @ + req[r].tokens,
                          ![req[r].runId].accountedAttempt = req[r].attempt]

Additional(r) == IF runs[req[r].runId].accountedAttempt < req[r].attempt THEN req[r].tokens ELSE 0

Account(r, halted) ==
  /\ window' = [window EXCEPT !.tokens = @ + Additional(r),
                              !.halted = @ \/ halted,
                              !.inFlight = IF halted THEN @ ELSE None,
                              !.recent = Observed(r)]
  /\ runs' = [runs EXCEPT ![req[r].runId].tokens = @ + Additional(r),
                          ![req[r].runId].accountedAttempt = req[r].attempt]

Settle(r) ==
  /\ pc[r] = "settle"
  /\ InFlight(r)
  /\ Account(r, FALSE)
  /\ settled' = settled \cup {FlightOf(r)}
  /\ \/ Goto(r, "release") /\ UNCHANGED faults
     \/ Goto(r, "halt") /\ Fault
  /\ UNCHANGED <<clock, store, lease, req, starts, paid>>

(* settle(true): also when the halt itself cannot be written, the flight   *)
(* stays in the ledger.                                                    *)
Halt(r) ==
  /\ pc[r] = "halt"
  /\ \/ InFlight(r) /\ Account(r, TRUE) /\ UNCHANGED faults
     \/ ~InFlight(r) /\ UNCHANGED <<budget, faults>>
     \/ Fault /\ UNCHANGED budget
  /\ Goto(r, "release")
  /\ UNCHANGED <<clock, store, lease, req, history>>

(* A step of the request fails: before the reservation an error, after it  *)
(* a halt.                                                                 *)
Stopped(r) ==
  \/ pc[r] = "request" /\ ~InTime(r)
  \/ pc[r] = "save" /\ ~HoldsLive(r)
  \/ pc[r] = "settle" /\ ~InFlight(r)

Fail(r) ==
  /\ \/ Stopped(r) /\ UNCHANGED faults
     \/ ~Stopped(r) /\ pc[r] \in {"pending", "window", "admit", "reserve", "request", "receipt", "save", "settle"} /\ Fault
  /\ Goto(r, IF pc[r] \in {"request", "receipt", "save", "settle"} THEN "halt" ELSE "release")
  /\ UNCHANGED <<clock, store, lease, budget, req, history>>

ReleaseLease(r) ==
  /\ pc[r] = "release"
  /\ lease' = IF lease # None /\ lease.holder = r THEN None ELSE lease
  /\ Goto(r, "idle") /\ req' = [req EXCEPT ![r] = None]
  /\ UNCHANGED <<clock, store, budget, history, faults>>

-----------------------------------------------------------------------------
(* The outside world *)

Crash(r) ==
  /\ pc[r] # "idle"
  /\ Fault
  /\ Goto(r, "idle") /\ req' = [req EXCEPT ![r] = None]
  /\ UNCHANGED <<clock, store, lease, budget, history>>

Expire ==
  /\ lease # None /\ lease.live
  /\ IF pc[lease.holder] = "idle" THEN UNCHANGED faults ELSE Fault
  /\ lease' = [lease EXCEPT !.live = FALSE]
  /\ UNCHANGED <<clock, store, budget, pc, req, history>>

Publish(docs) ==
  /\ checkpoint < MaxCheckpoint
  /\ checkpoint' = checkpoint + 1 /\ documents' = docs
  /\ UNCHANGED <<clock, vectors, lease, budget, pc, req, history, faults>>

Tick ==
  /\ clock < MaxTime
  /\ clock' = clock + 1
  /\ UNCHANGED <<store, lease, budget, pc, req, history, faults>>

Step(r) ==
  \/ ReadPending(r) \/ CheckWindow(r) \/ Admit(r) \/ Reserve(r) \/ Refuse(r)
  \/ CallProvider(r) \/ CheckReceipt(r) \/ SaveVectors(r) \/ Settle(r) \/ Halt(r)
  \/ Fail(r) \/ ReleaseLease(r)

Next ==
  \/ \E r \in Request : AcquireLease(r) \/ Step(r) \/ Crash(r)
  \/ Expire \/ Tick
  \/ \E docs \in SUBSET Doc : Publish(docs)

Spec == Init /\ [][Next]_vars

-----------------------------------------------------------------------------
(* Properties *)

(* No document text is sent to the provider twice: after any paid call     *)
(* whose vectors may be missing, nothing is sent until somebody reviews    *)
(* the ledger ("no automatic provider retry").                             *)
PaidOnce ==
  \A s, t \in starts :
    s.flight \in paid /\ t.flight \in paid /\ s # t => s.docs \cap t.docs = {}

(* A call starts only when every earlier paid call has been settled, also  *)
(* the ones of requests that crashed or lost their lease.                  *)
OneUnsettledCall == Cardinality(paid \ settled) <= 1

(* Reservations keep the distance of intervalMs, across runs and changed   *)
(* windows, until a window has run out.                                    *)
IntervalKept ==
  \A s, t \in starts :
    s.n < t.n /\ t.at < s.window.until => t.at >= s.at + IntervalMs

(* "24000 input bytes per rolling minute", of docs/gcp-collector.md.       *)
RollingBytes ==
  \A s \in starts :
    MapThenSumSet(LAMBDA t : BytesOf(t.docs),
                  {t \in starts : t.n <= s.n /\ t.at + MinuteMs > s.at}) <= RollingInputBytes

(* A reservation counts against the budget of an earlier one unless a      *)
(* window between them had run out, which alone refills it.                *)
SameBudget(s, t) ==
  \A u, v \in starts : s.n <= u.n /\ v.n = u.n + 1 /\ v.n <= t.n => v.at < u.window.until

BudgetOf(t) == {s \in starts : s.n <= t.n /\ SameBudget(s, t)}

(* The call limit is that of "the entire window, across all runs", and     *)
(* "changing variables cannot refill a spent budget": no admitted call     *)
(* exceeds the limit of its window, counting also the calls of the windows *)
(* that it replaced while they were active.                                *)
WindowBudget == \A t \in starts : Cardinality(BudgetOf(t)) <= t.window.maxCalls
=============================================================================
