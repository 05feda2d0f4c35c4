------------------------- MODULE AuditedIndexProofs -------------------------
(***************************************************************************)
(* AuditedIndex for any requests, runs, windows, documents and limits, any *)
(* number of crashes, lost replies and expired leases.                     *)
(*                                                                         *)
(* That no text is paid for twice rests on two locks that hold for         *)
(* different times.  While a call is under way, and for ever if it is not  *)
(* settled, the ledger names it as "inFlight" and admits no other.  Once   *)
(* it is settled its vectors are saved, and a request that still has the   *)
(* same batch from before no longer holds a live lease, so it may reserve  *)
(* a call but never make it.                                               *)
(***************************************************************************)
EXTENDS AuditedIndex, FiniteSetTheorems, TLAPS

InCall == {"request", "receipt", "save", "settle"}
HasCall(r) == pc[r] \in InCall \cup {"halt"}

(* Every reservation has a flight of its own, counted by its run.          *)
FlightsInv ==
  /\ IsFiniteSet(starts)
  /\ \A s \in starts : runs[s.flight[1]] # None /\ s.flight[2] <= runs[s.flight[1]].calls
  /\ \A s, t \in starts : s.flight = t.flight => s = t

(* A call that was paid for and not settled is the one in the ledger; what *)
(* was settled has its vectors.                                            *)
SettledInv ==
  /\ \A f \in paid : \E s \in starts : s.flight = f
  /\ \A f \in paid \ settled : window # None /\ window.inFlight = f
  /\ \A s \in starts : s.flight \in settled => s.docs \subseteq vectors

RequestInv(r) ==
  /\ pc[r] # "idle" => req[r] # None
  /\ HasCall(r) => \E s \in starts : s.flight = FlightOf(r) /\ s.docs = req[r].batch
  /\ pc[r] \in InCall => InFlight(r)
  /\ pc[r] = "request" => FlightOf(r) \notin paid
  /\ pc[r] \in {"receipt", "save", "settle"} => FlightOf(r) \in paid
  /\ pc[r] = "settle" => req[r].batch \subseteq vectors
  /\ HoldsLive(r) /\ pc[r] \in {"window", "admit", "reserve", "request"} => req[r].batch \cap vectors = {}

OneCallEach == \A r, q \in Request : HasCall(r) /\ HasCall(q) /\ FlightOf(r) = FlightOf(q) => r = q

AuditInv ==
  /\ TypeOK
  /\ FlightsInv /\ SettledInv /\ OneCallEach /\ PaidOnce
  /\ \A r \in Request : RequestInv(r)

-----------------------------------------------------------------------------
LEMMA AuditInitial == Init => AuditInv
<1> SUFFICES ASSUME Init PROVE AuditInv
  OBVIOUS
<1>1. TypeOK
  BY LimitsAssumption DEF Limits, Init, TypeOK
<1>2. FlightsInv /\ SettledInv /\ PaidOnce
  BY FS_EmptySet DEF Init, FlightsInv, SettledInv, PaidOnce
<1>3. OneCallEach /\ \A r \in Request : RequestInv(r)
  BY DEF Init, OneCallEach, RequestInv, HasCall, InCall, HoldsLive
<1> QED
  BY <1>1, <1>2, <1>3 DEF AuditInv

-----------------------------------------------------------------------------
(* A step of a request r that touches neither the ledger nor the history,  *)
(* saves nothing and leaves the other requests alone.                      *)
Alone(r) ==
  /\ UNCHANGED <<budget, history, vectors>>
  /\ \A q \in Request \ {r} : pc'[q] = pc[q] /\ req'[q] = req[q] /\ (HoldsLive(q)' => HoldsLive(q))

LEMMA AloneKeeps ==
  ASSUME AuditInv, NEW r \in Request, Alone(r), TypeOK', RequestInv(r)',
         HasCall(r)' => HasCall(r) /\ FlightOf(r)' = FlightOf(r)
  PROVE  AuditInv'
<1>1. FlightsInv' /\ SettledInv' /\ PaidOnce'
  BY DEF AuditInv, Alone, budget, history, FlightsInv, SettledInv, PaidOnce
<1>2. ASSUME NEW q \in Request \ {r} PROVE RequestInv(q)' /\ HasCall(q)' = HasCall(q) /\ FlightOf(q)' = FlightOf(q)
  BY DEF AuditInv, Alone, budget, history, RequestInv, HasCall, FlightOf, InFlight
<1>3. \A q \in Request : RequestInv(q)'
  BY <1>2
<1>4. OneCallEach'
  BY <1>2 DEF AuditInv, OneCallEach
<1> QED
  BY <1>1, <1>3, <1>4 DEF AuditInv

(* The ends of a request: nothing of it is left.                           *)
LEMMA AcquirePreserves ==
  ASSUME AuditInv, NEW r \in Request, AcquireLease(r)
  PROVE  AuditInv'
<1>1. PICK id \in RunId, w \in Window :
         req' = [req EXCEPT ![r] = [runId |-> id, window |-> w, checkpoint |-> checkpoint,
                                    batch |-> {}, attempt |-> 0, tokens |-> 0]]
  BY DEF AcquireLease
<1> DEFINE local == [runId |-> id, window |-> w, checkpoint |-> checkpoint, batch |-> {}, attempt |-> 0, tokens |-> 0]
<1>2. local \in Local
  BY LimitsAssumption DEF AuditInv, TypeOK, Local, Limits
<1>3. lease' \in [holder : Request, live : BOOLEAN] /\ pc' = [pc EXCEPT ![r] = "pending"]
  BY DEF AcquireLease, Goto
<1> HIDE DEF local
<1>4. TypeOK'
  <2>1. pc' \in [Request -> {"idle", "pending", "window", "admit", "reserve", "request",
                             "receipt", "save", "settle", "halt", "release"}]
        /\ req' \in [Request -> Local \cup {None}]
    BY <1>1, <1>2, <1>3 DEF AuditInv, TypeOK, local
  <2> QED
    BY <1>3, <2>1 DEF AcquireLease, store, budget, history, AuditInv, TypeOK
<1>5. pc'[r] = "pending" /\ req'[r] = local
  BY <1>1, <1>3 DEF AuditInv, TypeOK, local
<1>6. Alone(r)
  BY <1>1, <1>3 DEF AcquireLease, store, budget, history, AuditInv, TypeOK, Alone, HoldsLive
<1>7. RequestInv(r)' /\ ~HasCall(r)'
  BY <1>2, <1>5, NoneAssumption DEF RequestInv, HasCall, InCall
<1> QED
  BY <1>4, <1>6, <1>7, AloneKeeps

LEMMA EndPreserves ==
  ASSUME AuditInv, NEW r \in Request, ReleaseLease(r) \/ Crash(r)
  PROVE  AuditInv'
<1>1. /\ pc' = [pc EXCEPT ![r] = "idle"] /\ req' = [req EXCEPT ![r] = None]
      /\ lease' \in {lease, None} /\ faults' \in 0 .. MaxFaults
      /\ UNCHANGED <<clock, store, budget, history>>
  BY LimitsAssumption DEF ReleaseLease, Crash, Goto, Fault, AuditInv, TypeOK, Limits
<1>2. TypeOK'
  <2>1. pc' \in [Request -> {"idle", "pending", "window", "admit", "reserve", "request",
                             "receipt", "save", "settle", "halt", "release"}]
        /\ req' \in [Request -> Local \cup {None}]
    BY <1>1 DEF AuditInv, TypeOK
  <2> QED
    BY <1>1, <2>1 DEF store, budget, history, AuditInv, TypeOK
<1>3. pc'[r] = "idle" /\ Alone(r)
  BY <1>1 DEF store, AuditInv, TypeOK, Alone, HoldsLive
<1>4. RequestInv(r)' /\ ~HasCall(r)'
  BY <1>3 DEF RequestInv, HasCall, InCall
<1> QED
  BY <1>2, <1>3, <1>4, AloneKeeps

Place == {"idle", "pending", "window", "admit", "reserve", "request", "receipt", "save", "settle", "halt", "release"}

(* Steps that only move a request on, or let it fail.                      *)
MayMove(r, target) ==
  \/ target = "release"
  \/ target = "halt" /\ HasCall(r)
  \/ target = "admit" /\ pc[r] = "window"
  \/ target = "reserve" /\ pc[r] = "admit"
  \/ target = "save" /\ pc[r] = "receipt"

LEMMA MovePreserves ==
  ASSUME AuditInv, NEW r \in Request, NEW target,
         UNCHANGED <<clock, store, lease, budget, req, history>>, faults' \in 0 .. MaxFaults,
         pc' = [pc EXCEPT ![r] = target], pc[r] # "idle",
         MayMove(r, target)
  PROVE  AuditInv'
<1>1. pc'[r] = target /\ target \in Place /\ \A q \in Request \ {r} : pc'[q] = pc[q]
  BY DEF AuditInv, TypeOK, Place, MayMove
<1>2. TypeOK'
  <2>1. pc' \in [Request -> Place]
    BY <1>1 DEF AuditInv, TypeOK, Place
  <2> QED
    BY <2>1 DEF store, budget, history, AuditInv, TypeOK, Place
<1>3. Alone(r)
  BY <1>1 DEF store, Alone, HoldsLive
<1>4. RequestInv(r) /\ (target # "release" => target = "halt" \/ pc[r] \in {"window", "admit", "receipt"})
  BY DEF AuditInv, MayMove
<1>5. RequestInv(r)'
  BY <1>1, <1>4 DEF store, budget, history, RequestInv, MayMove, HasCall, InCall, HoldsLive, InFlight, FlightOf
<1>6. HasCall(r)' => HasCall(r) /\ FlightOf(r)' = FlightOf(r)
  BY <1>1 DEF HasCall, InCall, FlightOf, MayMove
<1> QED
  BY <1>2, <1>3, <1>5, <1>6, AloneKeeps

LEMMA ReadPreserves ==
  ASSUME AuditInv, NEW r \in Request, ReadPending(r)
  PROVE  AuditInv'
<1>1. PICK b \in Batches(documents \ vectors) : req' = [req EXCEPT ![r].batch = b]
  BY DEF ReadPending
<1>2. b \subseteq Doc /\ b \cap vectors = {}
  BY DEF Batches, AuditInv, TypeOK
<1>3. req[r] \in Local /\ pc[r] = "pending" /\ pc' = [pc EXCEPT ![r] = "window"]
  BY DEF ReadPending, Goto, AuditInv, TypeOK, RequestInv
<1>4. req' \in [Request -> Local \cup {None}] /\ req'[r] \in Local /\ req'[r].batch = b
      /\ pc' \in [Request -> Place] /\ pc'[r] = "window"
  BY <1>1, <1>2, <1>3 DEF AuditInv, TypeOK, Local, Place
<1>5. TypeOK'
  BY <1>4 DEF ReadPending, store, budget, history, AuditInv, TypeOK, Place
<1>6. Alone(r)
  BY <1>1, <1>3 DEF ReadPending, store, AuditInv, TypeOK, Alone, HoldsLive
<1>7. RequestInv(r)' /\ ~HasCall(r)'
  BY <1>2, <1>4, NoneAssumption DEF ReadPending, store, RequestInv, HasCall, InCall
<1> QED
  BY <1>5, <1>6, <1>7, AloneKeeps

(* The clock, the catalog and the lease move on without a request.         *)
LEMMA WorldPreserves ==
  ASSUME AuditInv, Expire \/ Tick \/ \E docs \in SUBSET Doc : Publish(docs)
  PROVE  AuditInv'
<1>1. /\ UNCHANGED <<vectors, budget, pc, req, history>>
      /\ \A q \in Request : HoldsLive(q)' => HoldsLive(q)
  BY DEF Expire, Tick, Publish, store, HoldsLive, AuditInv, TypeOK
<1>2. TypeOK'
  <2>1. CASE Expire
    <3>1. lease' \in [holder : Request, live : BOOLEAN] \cup {None} /\ faults' \in 0 .. MaxFaults
      <4>1. lease \in [holder : Request, live : BOOLEAN] /\ lease' = [lease EXCEPT !.live = FALSE]
        BY <2>1 DEF Expire, AuditInv, TypeOK
      <4>2. faults' \in 0 .. MaxFaults
        BY <2>1, LimitsAssumption DEF Expire, Fault, AuditInv, TypeOK, Limits
      <4> QED
        BY <4>1, <4>2
    <3> QED
      BY <1>1, <2>1, <3>1 DEF Expire, store, budget, history, AuditInv, TypeOK
  <2>2. CASE Tick
    BY <2>2, LimitsAssumption DEF Tick, store, budget, history, AuditInv, TypeOK, Limits
  <2>3. CASE \E docs \in SUBSET Doc : Publish(docs)
    BY <2>3, LimitsAssumption DEF Publish, budget, history, AuditInv, TypeOK, Limits
  <2> QED
    BY <2>1, <2>2, <2>3
<1>3. FlightsInv' /\ SettledInv' /\ PaidOnce' /\ OneCallEach'
  BY <1>1 DEF AuditInv, budget, history, FlightsInv, SettledInv, PaidOnce, OneCallEach, HasCall, FlightOf
<1>4. \A q \in Request : RequestInv(q)'
  BY <1>1 DEF AuditInv, budget, history, RequestInv, HasCall, FlightOf, InFlight
<1> QED
  BY <1>2, <1>3, <1>4 DEF AuditInv

LEMMA SavePreserves ==
  ASSUME AuditInv, NEW r \in Request, SaveVectors(r)
  PROVE  AuditInv'
<1>1. /\ pc[r] = "save" /\ HoldsLive(r) /\ vectors' = vectors \cup req[r].batch
      /\ UNCHANGED <<clock, checkpoint, documents, lease, budget, req, history>>
      /\ faults' \in 0 .. MaxFaults
  BY LimitsAssumption DEF SaveVectors, Fault, AuditInv, TypeOK, Limits
<1>2. pc' \in [Request -> Place] /\ pc'[r] \in {"settle", "halt"} /\ \A q \in Request \ {r} : pc'[q] = pc[q]
  BY DEF SaveVectors, Goto, AuditInv, TypeOK, Place
<1>3. req[r] \in Local /\ req[r].batch \subseteq Doc
  BY <1>1 DEF AuditInv, TypeOK, RequestInv, Local
<1>4. TypeOK'
  BY <1>1, <1>2, <1>3 DEF budget, history, AuditInv, TypeOK, Place
<1>5. FlightsInv' /\ SettledInv' /\ PaidOnce'
  BY <1>1 DEF budget, history, AuditInv, FlightsInv, SettledInv, PaidOnce
<1>6. \A q \in Request : HasCall(q)' = HasCall(q) /\ FlightOf(q)' = FlightOf(q)
  BY <1>1, <1>2 DEF HasCall, InCall, FlightOf
<1>7. OneCallEach'
  BY <1>6 DEF AuditInv, OneCallEach
<1>8. ASSUME NEW q \in Request PROVE RequestInv(q)'
  <2>1. CASE q = r
    BY <1>1, <1>2, <2>1 DEF budget, history, AuditInv, RequestInv, HasCall, InCall, FlightOf, InFlight
  <2>2. CASE q # r
    BY <1>1, <1>2, <2>2 DEF budget, history, AuditInv, RequestInv, HasCall, InCall, FlightOf, InFlight, HoldsLive
  <2> QED
    BY <2>1, <2>2
<1> QED
  BY <1>4, <1>5, <1>7, <1>8 DEF AuditInv

(* The call is the only one in the ledger, so all others are settled, and  *)
(* what they paid for is not in the batch of a holder of the lease.        *)
LEMMA CallPreserves ==
  ASSUME AuditInv, NEW r \in Request, CallProvider(r)
  PROVE  AuditInv'
<1> DEFINE f == FlightOf(r)
<1>1. /\ pc[r] = "request" /\ HoldsLive(r) /\ paid' = paid \cup {f}
      /\ UNCHANGED <<clock, store, lease, budget, starts, settled>> /\ faults' \in 0 .. MaxFaults
      /\ pc' \in [Request -> Place] /\ pc'[r] \in {"receipt", "halt"} /\ \A q \in Request \ {r} : pc'[q] = pc[q]
  BY LimitsAssumption DEF CallProvider, InTime, Fault, Goto, AuditInv, TypeOK, Limits, Place
<1>2. req[r] \in Local /\ BytesOf(req[r].batch) \in Nat /\ TokensOf(BytesOf(req[r].batch)) \subseteq Nat
  <2>1. req[r] \in Local
    BY <1>1 DEF AuditInv, TypeOK, RequestInv
  <2>2. req[r].batch \in SUBSET Doc
    BY <2>1 DEF Local
  <2> QED
    BY <2>1, <2>2, BytesAssumption
<1>3. /\ req' \in [Request -> Local \cup {None}] /\ req'[r] \in Local /\ \A q \in Request \ {r} : req'[q] = req[q]
      /\ req'[r].batch = req[r].batch /\ req'[r].runId = req[r].runId /\ req'[r].attempt = req[r].attempt
  <2>1. CASE req' = req
    BY <1>2, <2>1 DEF AuditInv, TypeOK
  <2>2. CASE \E tokens \in TokensOf(BytesOf(req[r].batch)) : req' = [req EXCEPT ![r].tokens = tokens]
    <3>1. PICK tokens \in Nat : req' = [req EXCEPT ![r].tokens = tokens]
      BY <1>2, <2>2
    <3> QED
      BY <1>2, <3>1 DEF AuditInv, TypeOK, Local
  <2> QED
    BY <2>1, <2>2 DEF CallProvider
<1>4. PICK s \in starts : s.flight = f /\ s.docs = req[r].batch
  BY <1>1 DEF AuditInv, RequestInv, HasCall, InCall
<1>5. InFlight(r) /\ f \notin paid /\ req[r].batch \cap vectors = {}
  BY <1>1 DEF AuditInv, RequestInv, InCall
<1>6. f \in Flight
  BY <1>4 DEF AuditInv, TypeOK, Start
<1>7. TypeOK'
  BY <1>1, <1>3, <1>6 DEF store, budget, AuditInv, TypeOK, Place
<1>8. FlightsInv' /\ SettledInv'
  BY <1>1, <1>4, <1>5 DEF store, budget, AuditInv, FlightsInv, SettledInv, InFlight
<1>9. PaidOnce'
  <2>1. ASSUME NEW t \in starts, t.flight \in paid PROVE t.docs \cap s.docs = {}
    <3>1. t.flight \in settled
      BY <1>5, <2>1 DEF AuditInv, SettledInv, InFlight
    <3> QED
      BY <1>4, <1>5, <3>1 DEF AuditInv, SettledInv
  <2>2. ASSUME NEW t \in starts, t.flight = f PROVE t = s
    BY <1>4, <2>2 DEF AuditInv, FlightsInv
  <2> QED
    BY <1>1, <2>1, <2>2 DEF AuditInv, PaidOnce
<1>10. \A q \in Request : HasCall(q)' = HasCall(q) /\ FlightOf(q)' = FlightOf(q)
  BY <1>1, <1>3 DEF HasCall, InCall, FlightOf
<1>11. OneCallEach'
  BY <1>10 DEF AuditInv, OneCallEach
<1>12. ASSUME NEW q \in Request PROVE RequestInv(q)'
  <2>1. CASE q = r
    BY <1>1, <1>3, <1>4, <1>5, <2>1, NoneAssumption DEF store, budget, RequestInv, HasCall, InCall, FlightOf, InFlight
  <2>2. CASE q # r
    <3>1. pc[q] = "request" => FlightOf(q) # f
      BY <1>1, <2>2 DEF AuditInv, OneCallEach, HasCall, InCall
    <3>2. RequestInv(q) /\ pc'[q] = pc[q] /\ req'[q] = req[q] /\ HoldsLive(q)' = HoldsLive(q)
          /\ InFlight(q)' = InFlight(q) /\ FlightOf(q)' = FlightOf(q) /\ starts' = starts /\ vectors' = vectors
      BY <1>1, <1>3, <1>10, <2>2 DEF store, budget, AuditInv, HoldsLive, InFlight
    <3> QED
      BY <1>1, <1>10, <3>1, <3>2 DEF RequestInv
  <2> QED
    BY <2>1, <2>2
<1> QED
  BY <1>7, <1>8, <1>9, <1>11, <1>12 DEF AuditInv

(* The ledger and the run that a reservation starts from.                  *)
LEMMA WindowForType ==
  ASSUME TypeOK, NEW r \in Request, req[r] \in Local
  PROVE  WindowFor(r) \in Ledger
<1>1. req[r].window \in Window /\ req[r].window.maxCalls \in Nat
  BY WindowAssumption DEF Local
<1>2. RefilledFor(r) \in Ledger
  BY <1>1 DEF RefilledFor, Ledger
<1>3. window # None => window \in Ledger /\ [window EXCEPT !.id = req[r].window, !.calls = AtMost(window.calls, req[r].window.maxCalls)] \in Ledger
  <2> SUFFICES ASSUME window # None
               PROVE  window \in Ledger /\ [window EXCEPT !.id = req[r].window, !.calls = AtMost(window.calls, req[r].window.maxCalls)] \in Ledger
    OBVIOUS
  <2>1. window \in Ledger
    BY DEF TypeOK
  <2>2. AtMost(window.calls, req[r].window.maxCalls) \in Nat
    BY <1>1, <2>1 DEF AtMost, Ledger
  <2> QED
    BY <1>1, <2>1, <2>2 DEF Ledger
<1> QED
  BY <1>2, <1>3 DEF WindowFor, Active

LEMMA RunForType ==
  ASSUME TypeOK, NEW r \in Request, req[r] \in Local
  PROVE  RunFor(r) \in RunState /\ RunFor(r).accountedAttempt <= RunFor(r).calls
<1>1. CASE runs[req[r].runId] # None
  BY <1>1 DEF RunFor, TypeOK, Local
<1>2. CASE runs[req[r].runId] = None
  BY <1>2, LimitsAssumption DEF RunFor, Local, RunState, Limits
<1> QED
  BY <1>1, <1>2

(* What a reservation leaves in the ledger.                                *)
LEMMA DebitedLedger ==
  ASSUME AuditInv, NEW r \in Request, Reserve(r)
  PROVE  /\ window' \in Ledger /\ window'.calls <= window'.id.maxCalls
         /\ window'.calls = WindowFor(r).calls + 1 /\ window'.id = WindowFor(r).id
         /\ window'.inFlight = <<req[r].runId, RunFor(r).calls + 1>> /\ window'.lastStartAt = clock
<1> DEFINE w == WindowFor(r)
           run == RunFor(r)
           id == req[r].runId
           bytes == BytesOf(req[r].batch)
           flight == <<id, run.calls + 1>>
           entry == [flight |-> flight, at |-> clock, tokens |-> bytes]
           debited == [w EXCEPT !.calls = @ + 1, !.inFlight = flight, !.lastStartAt = clock,
                                !.recent = Recent(w) \cup {entry}]
<1>1. pc[r] = "reserve" /\ MayReserve(r) /\ window' = debited
  BY DEF Reserve
<1>2. req[r] \in Local /\ id \in RunId /\ req[r].window \in Window /\ bytes \in Nat /\ clock \in Nat
  <2>1. req[r] \in Local
    BY <1>1 DEF AuditInv, TypeOK, RequestInv
  <2>2. req[r].batch \in SUBSET Doc
    BY <2>1 DEF Local
  <2> QED
    BY <2>1, <2>2, BytesAssumption, LimitsAssumption DEF Local, AuditInv, TypeOK, Limits
<1>3. w \in Ledger /\ run \in RunState
  BY <1>2, WindowForType, RunForType DEF AuditInv
<1>4. run.calls + 1 \in 1 .. CallsPerRun /\ w.calls < w.id.maxCalls
  BY <1>1, <1>3, LimitsAssumption DEF MayReserve, WithinBudget, RunState, Limits
<1>5. flight \in Flight
  BY <1>2, <1>4 DEF Flight
<1>6. /\ debited \in Ledger /\ debited.calls <= debited.id.maxCalls
      /\ debited.calls = w.calls + 1 /\ debited.id = w.id /\ debited.inFlight = flight /\ debited.lastStartAt = clock
  <2>1. entry \in [flight : Flight, at : Nat, tokens : Nat]
    BY <1>2, <1>5
  <2>2. Recent(w) \cup {entry} \subseteq [flight : Flight, at : Nat, tokens : Nat]
    BY <1>3, <2>1 DEF Recent, Ledger
  <2>3. w.id.maxCalls \in Nat /\ w.calls \in Nat
    BY <1>3, WindowAssumption DEF Ledger
  <2> DEFINE kept == Recent(w) \cup {entry}
  <2>4. debited = [w EXCEPT !.calls = w.calls + 1, !.inFlight = flight, !.lastStartAt = clock, !.recent = kept]
    BY <1>3 DEF Ledger
  <2>5. w.calls + 1 \in Nat /\ w.calls + 1 <= w.id.maxCalls
    <3> HIDE DEF w
    <3> QED
      BY <1>4, <2>3
  <2> HIDE DEF w, flight, entry, kept, debited
  <2>6. debited \in Ledger
    BY <1>2, <1>3, <1>5, <2>2, <2>4, <2>5 DEF Ledger, kept
  <2>7. debited.calls = w.calls + 1 /\ debited.id = w.id /\ debited.inFlight = flight /\ debited.lastStartAt = clock
    BY <1>3, <2>4 DEF Ledger
  <2> QED
    BY <2>5, <2>6, <2>7
<1> QED
  BY <1>1, <1>6

(* The reservation, with the history that it adds to.                      *)
LEMMA ReservePreserves ==
  ASSUME AuditInv, NEW r \in Request, Reserve(r)
  PROVE  AuditInv'
<1> DEFINE w == WindowFor(r)
           run == RunFor(r)
           id == req[r].runId
           bytes == BytesOf(req[r].batch)
           flight == <<id, run.calls + 1>>
           entry == [flight |-> flight, at |-> clock, tokens |-> bytes]
           new == [n |-> Cardinality(starts) + 1, flight |-> flight,
                   window |-> req[r].window, docs |-> req[r].batch, at |-> clock]
           debited == [w EXCEPT !.calls = @ + 1, !.inFlight = flight, !.lastStartAt = clock,
                                !.recent = Recent(w) \cup {entry}]
           begun == [run EXCEPT !.calls = @ + 1, !.inputBytes = @ + bytes]
<1>1. /\ pc[r] = "reserve" /\ MayReserve(r)
      /\ window' = debited /\ runs' = [runs EXCEPT ![id] = begun]
      /\ req' = [req EXCEPT ![r].attempt = run.calls + 1]
      /\ starts' = starts \cup {new}
      /\ UNCHANGED <<clock, store, lease, paid, settled>>
  BY DEF Reserve
<1>2. req[r] \in Local /\ id \in RunId /\ req[r].window \in Window /\ req[r].batch \in SUBSET Doc
      /\ bytes \in Nat /\ clock \in Nat
  <2>1. req[r] \in Local
    BY <1>1 DEF AuditInv, TypeOK, RequestInv
  <2>2. req[r].batch \in SUBSET Doc
    BY <2>1 DEF Local
  <2> QED
    BY <2>1, <2>2, BytesAssumption, LimitsAssumption DEF Local, AuditInv, TypeOK, Limits
<1>3. w \in Ledger /\ run \in RunState /\ run.accountedAttempt <= run.calls
  BY <1>2, WindowForType, RunForType DEF AuditInv
<1>4. run.calls \in 0 .. CallsPerRun /\ run.calls + 1 \in 1 .. CallsPerRun /\ w.calls < w.id.maxCalls
      /\ CallsPerRun \in Nat
  BY <1>1, <1>3, LimitsAssumption DEF MayReserve, WithinBudget, RunState, Limits
<1>5. flight \in Flight
  BY <1>2, <1>4 DEF Flight
<1>6. debited \in Ledger /\ debited.calls <= debited.id.maxCalls /\ debited.inFlight = flight
  BY <1>1, DebitedLedger
<1>7. begun \in RunState /\ begun.calls = run.calls + 1 /\ begun.accountedAttempt <= begun.calls
  <2>1. begun = [run EXCEPT !.calls = run.calls + 1, !.inputBytes = run.inputBytes + bytes]
    BY <1>3 DEF RunState
  <2> HIDE DEF run, bytes, begun
  <2>2. run.calls + 1 \in 0 .. CallsPerRun /\ run.inputBytes + bytes \in Nat /\ run.accountedAttempt \in Nat
    BY <1>2, <1>3, <1>4 DEF RunState
  <2>3. begun \in RunState
    BY <1>3, <2>1, <2>2 DEF RunState
  <2>4. begun.calls = run.calls + 1 /\ begun.accountedAttempt = run.accountedAttempt
    BY <1>3, <2>1 DEF RunState
  <2> QED
    BY <1>3, <1>4, <2>2, <2>3, <2>4
<1>8. IsFiniteSet(starts) /\ new \in Start /\ IsFiniteSet(starts')
  <2>1. IsFiniteSet(starts) /\ Cardinality(starts) \in Nat
    BY FS_CardinalityType DEF AuditInv, FlightsInv
  <2>2. new \in Start
    BY <1>2, <1>5, <2>1 DEF Start
  <2> HIDE DEF new
  <2> QED
    BY <1>1, <2>1, <2>2, FS_AddElement
<1>9. \A s \in starts : s.flight # flight
  <2>1. ASSUME NEW s \in starts, s.flight = flight PROVE FALSE
    <3>1. s.flight[1] = id /\ s.flight[2] = run.calls + 1
      BY <2>1
    <3>2. runs[id] # None /\ run.calls + 1 <= runs[id].calls
      BY <3>1 DEF AuditInv, FlightsInv
    <3>3. run = runs[id]
      BY <3>2 DEF RunFor
    <3> HIDE DEF run
    <3> QED
      BY <1>4, <3>2, <3>3
  <2> QED
    BY <2>1
<1>10. /\ faults' \in 0 .. MaxFaults
       /\ pc' \in [Request -> Place] /\ pc'[r] \in {"request", "release"} /\ \A q \in Request \ {r} : pc'[q] = pc[q]
  BY LimitsAssumption DEF Reserve, Goto, AuditInv, TypeOK, Limits, Place
<1>11. /\ req' \in [Request -> Local \cup {None}] /\ req'[r] \in Local /\ \A q \in Request \ {r} : req'[q] = req[q]
       /\ req'[r].batch = req[r].batch /\ req'[r].runId = id /\ req'[r].attempt = run.calls + 1
  <2> HIDE DEF run
  <2>1. run.calls + 1 \in 0 .. CallsPerRun
    BY <1>4
  <2> QED
    BY <1>1, <1>2, <2>1 DEF AuditInv, TypeOK, Local
<1>12. FlightOf(r)' = flight
  BY <1>11 DEF FlightOf
<1>13. \A i \in RunId : runs'[i] = IF i = id THEN begun ELSE runs[i]
  BY <1>1 DEF AuditInv, TypeOK
<1>14. new.flight = flight /\ new.docs = req[r].batch
  OBVIOUS
<1> HIDE DEF debited, begun, new, w, run, id, flight, bytes, entry
<1>15. TypeOK'
  <2>1. runs' \in [RunId -> RunState \cup {None}]
        /\ \A i \in RunId : runs'[i] # None => runs'[i].accountedAttempt <= runs'[i].calls
    BY <1>1, <1>7, <1>13 DEF AuditInv, TypeOK
  <2> QED
    BY <1>1, <1>6, <1>8, <1>10, <1>11, <2>1 DEF store, AuditInv, TypeOK, Place
<1>16. window' # None /\ begun # None /\ req'[r] # None /\ ~Blocked
  BY <1>1, <1>6, <1>7, <1>11, NoneAssumption DEF MayReserve
<1>17. FlightsInv'
  <2>1. ASSUME NEW s \in starts' PROVE runs'[s.flight[1]] # None /\ s.flight[2] <= runs'[s.flight[1]].calls
    <3>1. CASE s = new
      <4>1. s.flight[1] = id /\ s.flight[2] = run.calls + 1
        BY <1>14, <3>1 DEF flight
      <4> QED
        BY <1>2, <1>4, <1>7, <1>13, <1>16, <4>1
    <3>2. CASE s \in starts /\ s.flight[1] # id
      <4>1. s.flight[1] \in RunId
        BY <3>2 DEF AuditInv, TypeOK, Start, Flight
      <4> QED
        BY <1>13, <3>2, <4>1 DEF AuditInv, FlightsInv
    <3>3. CASE s \in starts /\ s.flight[1] = id
      <4>1. runs[id] # None /\ s.flight[2] <= runs[id].calls /\ s.flight[2] \in Nat
        BY <3>3, <1>4 DEF AuditInv, FlightsInv, TypeOK, Start, Flight
      <4>2. run = runs[id]
        BY <4>1 DEF RunFor, run, id
      <4> QED
        BY <1>2, <1>4, <1>7, <1>13, <1>16, <3>3, <4>1, <4>2
    <3> QED
      BY <1>1, <3>1, <3>2, <3>3
  <2>2. ASSUME NEW s \in starts', NEW t \in starts', s.flight = t.flight PROVE s = t
    BY <1>1, <1>9, <1>14, <2>2 DEF AuditInv, FlightsInv
  <2> QED
    BY <1>8, <2>1, <2>2 DEF FlightsInv
<1>18. flight \notin paid /\ flight \notin settled
  BY <1>9 DEF AuditInv, SettledInv, TypeOK
<1>19. SettledInv'
  <2>1. \A f \in paid \ settled : FALSE
    BY <1>16, NoneAssumption DEF AuditInv, SettledInv, Blocked, TypeOK
  <2> QED
    BY <1>1, <1>14, <1>18, <2>1 DEF store, AuditInv, SettledInv
<1>20. PaidOnce'
  BY <1>1, <1>14, <1>18 DEF AuditInv, PaidOnce
<1>21. ASSUME NEW q \in Request \ {r}
       PROVE  FlightOf(q)' = FlightOf(q) /\ HasCall(q)' = HasCall(q) /\ (HasCall(q) => FlightOf(q) # flight)
  <2>1. FlightOf(q)' = FlightOf(q) /\ HasCall(q)' = HasCall(q)
    BY <1>10, <1>11 DEF FlightOf, HasCall
  <2>2. HasCall(q) => FlightOf(q) # flight
    BY <1>9 DEF AuditInv, RequestInv
  <2> QED
    BY <2>1, <2>2
<1>22. OneCallEach'
  BY <1>12, <1>21 DEF AuditInv, OneCallEach
<1>23. ASSUME NEW q \in Request PROVE RequestInv(q)'
  <2>1. CASE q = r
    BY <1>1, <1>2, <1>6, <1>10, <1>11, <1>12, <1>14, <1>16, <1>18, <2>1
       DEF store, AuditInv, RequestInv, HasCall, InCall, InFlight, HoldsLive
  <2>2. CASE q # r
    <3>1. pc[q] \notin InCall
      <4>1. HasCall(q) => FlightOf(q) \in Flight
        BY DEF AuditInv, RequestInv, TypeOK, Start
      <4>2. pc[q] \in InCall => HasCall(q) /\ window # None /\ window.inFlight = FlightOf(q)
        BY DEF AuditInv, RequestInv, HasCall, InFlight
      <4> QED
        BY <1>16, <4>1, <4>2, NoneAssumption DEF Blocked
    <3> QED
      BY <1>1, <1>10, <1>11, <1>21, <2>2, <3>1 DEF store, AuditInv, RequestInv, HasCall, InCall, HoldsLive
  <2> QED
    BY <2>1, <2>2
<1> QED
  BY <1>15, <1>17, <1>19, <1>20, <1>22, <1>23 DEF AuditInv

-----------------------------------------------------------------------------
(* The settlement of a call, or its halt: the ledger keeps its shape, and  *)
(* the counts of calls stay.                                               *)
LEMMA AccountShape ==
  ASSUME AuditInv, NEW r \in Request, HasCall(r), InFlight(r), NEW halted \in BOOLEAN, Account(r, halted)
  PROVE  /\ window' \in Ledger /\ window'.calls <= window'.id.maxCalls
         /\ window'.inFlight = IF halted THEN window.inFlight ELSE None
         /\ runs' \in [RunId -> RunState \cup {None}]
         /\ \A i \in RunId : /\ runs'[i] # None <=> runs[i] # None
                             /\ runs'[i] # None => /\ runs'[i].calls = runs[i].calls
                                                   /\ runs'[i].accountedAttempt <= runs'[i].calls
<1> DEFINE id == req[r].runId
           attempt == req[r].attempt
<1>1. req[r] \in Local /\ req[r].tokens \in Nat /\ id \in RunId /\ attempt \in 0 .. CallsPerRun
  BY DEF AuditInv, TypeOK, RequestInv, HasCall, InCall, Local
<1>2. PICK s \in starts : s.flight = <<id, attempt>>
  BY DEF AuditInv, RequestInv, FlightOf
<1>3. runs[id] \in RunState /\ runs[id] # None /\ attempt <= runs[id].calls
  <2>1. s.flight[1] = id /\ s.flight[2] = attempt
    BY <1>2
  <2> QED
    BY <1>1, <1>2, <2>1 DEF AuditInv, FlightsInv, TypeOK
<1>4. window \in Ledger /\ window.calls <= window.id.maxCalls
  BY DEF InFlight, AuditInv, TypeOK
<1>5. Additional(r) \in Nat
  BY <1>1 DEF Additional
<1>6. Observed(r) \subseteq [flight : Flight, at : Nat, tokens : Nat]
  BY <1>1, <1>4 DEF Observed, Ledger
<1>7. /\ window' \in Ledger /\ window'.calls = window.calls /\ window'.id = window.id
      /\ window'.inFlight = IF halted THEN window.inFlight ELSE None
  <2> DEFINE tokens == window.tokens + Additional(r)
             stop == window.halted \/ halted
             flight == IF halted THEN window.inFlight ELSE None
  <2>1. window' = [window EXCEPT !.tokens = tokens, !.halted = stop, !.inFlight = flight, !.recent = Observed(r)]
    BY <1>4 DEF Account, Ledger
  <2>2. tokens \in Nat /\ stop \in BOOLEAN /\ flight \in Flight \cup {None}
    BY <1>4, <1>5 DEF Ledger
  <2> HIDE DEF tokens, stop, flight
  <2>3. window' \in Ledger
    BY <1>4, <1>6, <2>1, <2>2 DEF Ledger
  <2>4. window'.calls = window.calls /\ window'.id = window.id /\ window'.inFlight = flight
    BY <1>4, <2>1 DEF Ledger
  <2> QED
    BY <2>3, <2>4 DEF flight
<1>8. PICK run :
         /\ runs' = [runs EXCEPT ![id] = run] /\ run \in RunState
         /\ run.calls = runs[id].calls /\ run.accountedAttempt = attempt
  <2> DEFINE tokens == runs[id].tokens + Additional(r)
             run == [runs[id] EXCEPT !.tokens = tokens, !.accountedAttempt = attempt]
  <2>1. tokens \in Nat
    BY <1>3, <1>5 DEF RunState
  <2>2. runs' = [runs EXCEPT ![id] = run]
    BY <1>1, <1>3 DEF Account, AuditInv, TypeOK, RunState
  <2> HIDE DEF tokens
  <2>3. run \in RunState /\ run.calls = runs[id].calls /\ run.accountedAttempt = attempt
    BY <1>1, <1>3, <2>1 DEF RunState
  <2> QED
    BY <2>2, <2>3
<1>9. \A i \in RunId : runs'[i] = IF i = id THEN run ELSE runs[i]
  BY <1>8 DEF AuditInv, TypeOK
<1>10. run # None
  BY <1>8, NoneAssumption
<1> HIDE DEF id, attempt
<1>11. runs' \in [RunId -> RunState \cup {None}]
  BY <1>1, <1>8 DEF AuditInv, TypeOK
<1>12. ASSUME NEW i \in RunId
       PROVE  /\ runs'[i] # None <=> runs[i] # None
              /\ runs'[i] # None => /\ runs'[i].calls = runs[i].calls
                                    /\ runs'[i].accountedAttempt <= runs'[i].calls
  <2>1. CASE i = id
    BY <1>3, <1>8, <1>9, <1>10, <2>1
  <2>2. CASE i # id
    BY <1>9, <2>2 DEF AuditInv, TypeOK
  <2> QED
    BY <2>1, <2>2
<1> QED
  BY <1>4, <1>7, <1>11, <1>12

LEMMA SettlePreserves ==
  ASSUME AuditInv, NEW r \in Request, Settle(r)
  PROVE  AuditInv'
<1> DEFINE f == FlightOf(r)
<1>1. /\ pc[r] = "settle" /\ InFlight(r) /\ Account(r, FALSE) /\ settled' = settled \cup {f}
      /\ UNCHANGED <<clock, store, lease, req, starts, paid>> /\ faults' \in 0 .. MaxFaults
      /\ pc' \in [Request -> Place] /\ pc'[r] \in {"release", "halt"} /\ \A q \in Request \ {r} : pc'[q] = pc[q]
  <2>1. /\ pc[r] = "settle" /\ InFlight(r) /\ Account(r, FALSE) /\ settled' = settled \cup {f}
        /\ UNCHANGED <<clock, store, lease, req, starts, paid>>
        /\ faults' = faults \/ Fault
        /\ pc' = [pc EXCEPT ![r] = "release"] \/ pc' = [pc EXCEPT ![r] = "halt"]
    BY DEF Settle, Goto
  <2>2. faults' \in 0 .. MaxFaults
    BY <2>1, LimitsAssumption DEF Fault, AuditInv, TypeOK, Limits
  <2>3. pc' \in [Request -> Place] /\ pc'[r] \in {"release", "halt"} /\ \A q \in Request \ {r} : pc'[q] = pc[q]
    BY <2>1 DEF AuditInv, TypeOK, Place
  <2> QED
    BY <2>1, <2>2, <2>3
<1>2. HasCall(r) /\ f \in paid /\ req[r].batch \subseteq vectors
  BY <1>1 DEF AuditInv, RequestInv, HasCall, InCall
<1>3. /\ window' \in Ledger /\ window'.calls <= window'.id.maxCalls /\ window'.inFlight = None
      /\ runs' \in [RunId -> RunState \cup {None}]
      /\ \A i \in RunId : /\ runs'[i] # None <=> runs[i] # None
                          /\ runs'[i] # None => /\ runs'[i].calls = runs[i].calls
                                                /\ runs'[i].accountedAttempt <= runs'[i].calls
  BY <1>1, <1>2, AccountShape
<1>4. TypeOK'
  BY <1>1, <1>2, <1>3 DEF store, AuditInv, TypeOK, Place
<1>5. FlightsInv'
  <2>1. \A s \in starts : s.flight[1] \in RunId
    BY DEF AuditInv, TypeOK, Start, Flight
  <2> QED
    BY <1>1, <1>3, <2>1 DEF AuditInv, FlightsInv
<1>6. SettledInv'
  <2>1. \A g \in paid : g \in settled'
    BY <1>1 DEF AuditInv, SettledInv, InFlight
  <2>2. PICK s \in starts : s.flight = f /\ s.docs = req[r].batch
    BY <1>2 DEF AuditInv, RequestInv
  <2>3. \A t \in starts : t.flight = f => t.docs \subseteq vectors
    BY <1>2, <2>2 DEF AuditInv, FlightsInv
  <2> QED
    BY <1>1, <2>1, <2>3 DEF store, AuditInv, SettledInv
<1>7. PaidOnce'
  BY <1>1 DEF AuditInv, PaidOnce
<1>8. \A q \in Request : (HasCall(q)' => HasCall(q)) /\ FlightOf(q)' = FlightOf(q)
  BY <1>1, <1>2 DEF HasCall, InCall, FlightOf
<1>9. OneCallEach'
  BY <1>8 DEF AuditInv, OneCallEach
<1>10. ASSUME NEW q \in Request PROVE RequestInv(q)'
  <2>1. CASE q = r
    BY <1>1, <1>2, <1>8, <2>1 DEF AuditInv, RequestInv, HasCall, InCall
  <2>2. CASE q # r
    <3>1. pc[q] \notin InCall
      <4>1. pc[q] \in InCall => HasCall(q) /\ window.inFlight = FlightOf(q)
        BY DEF AuditInv, RequestInv, HasCall, InFlight
      <4> QED
        BY <1>1, <1>2, <2>2, <4>1 DEF AuditInv, OneCallEach, InFlight
    <3> QED
      BY <1>1, <1>8, <2>2, <3>1 DEF store, AuditInv, RequestInv, HasCall, InCall, HoldsLive
  <2> QED
    BY <2>1, <2>2
<1> QED
  BY <1>4, <1>5, <1>6, <1>7, <1>9, <1>10 DEF AuditInv

(* A halt leaves the call in the ledger.                                   *)
LEMMA HaltPreserves ==
  ASSUME AuditInv, NEW r \in Request, Halt(r)
  PROVE  AuditInv'
<1>1. /\ pc[r] = "halt" /\ UNCHANGED <<clock, store, lease, req, history>> /\ faults' \in 0 .. MaxFaults
      /\ pc' = [pc EXCEPT ![r] = "release"]
  <2>1. /\ pc[r] = "halt" /\ UNCHANGED <<clock, store, lease, req, history>>
        /\ pc' = [pc EXCEPT ![r] = "release"]
        /\ faults' = faults \/ Fault
    BY DEF Halt, Goto
  <2>2. faults' \in 0 .. MaxFaults
    BY <2>1, LimitsAssumption DEF Fault, AuditInv, TypeOK, Limits
  <2> QED
    BY <2>1, <2>2
<1>2. CASE InFlight(r) /\ Account(r, TRUE)
  <2>1. HasCall(r)
    BY <1>1 DEF HasCall
  <2>2. /\ window' \in Ledger /\ window'.calls <= window'.id.maxCalls /\ window'.inFlight = window.inFlight
        /\ runs' \in [RunId -> RunState \cup {None}]
        /\ \A i \in RunId : /\ runs'[i] # None <=> runs[i] # None
                            /\ runs'[i] # None => /\ runs'[i].calls = runs[i].calls
                                                  /\ runs'[i].accountedAttempt <= runs'[i].calls
    BY <1>2, <2>1, AccountShape
  <2>3. pc' \in [Request -> Place] /\ pc'[r] = "release" /\ \A q \in Request \ {r} : pc'[q] = pc[q]
    BY <1>1 DEF AuditInv, TypeOK, Place
  <2>4. TypeOK'
    BY <1>1, <2>2, <2>3 DEF store, history, AuditInv, TypeOK, Place
  <2>5. FlightsInv'
    <3>1. \A s \in starts : s.flight[1] \in RunId
      BY DEF AuditInv, TypeOK, Start, Flight
    <3> QED
      BY <1>1, <2>2, <3>1 DEF history, AuditInv, FlightsInv
  <2>6. window # None /\ window' # None
    BY <1>2, <2>2, NoneAssumption DEF InFlight
  <2>7. SettledInv' /\ PaidOnce'
    BY <1>1, <2>2, <2>6 DEF store, history, AuditInv, SettledInv, PaidOnce
  <2>8. \A q \in Request : /\ HasCall(q)' => HasCall(q) /\ q # r
                           /\ FlightOf(q)' = FlightOf(q) /\ InFlight(q)' = InFlight(q)
    BY <1>1, <2>2, <2>3, <2>6 DEF HasCall, InCall, FlightOf, InFlight
  <2>9. OneCallEach'
    BY <2>8 DEF AuditInv, OneCallEach
  <2>10. ASSUME NEW q \in Request PROVE RequestInv(q)'
    BY <1>1, <2>3, <2>8 DEF store, history, AuditInv, RequestInv, HasCall, InCall, HoldsLive
  <2> QED
    BY <2>4, <2>5, <2>7, <2>9, <2>10 DEF AuditInv
<1>3. CASE UNCHANGED budget
  <2>1. UNCHANGED <<clock, store, lease, budget, req, history>> /\ pc[r] # "idle"
    BY <1>1, <1>3
  <2>2. MayMove(r, "release")
    BY DEF MayMove
  <2> QED
    BY <1>1, <2>1, <2>2, MovePreserves
<1> QED
  BY <1>2, <1>3 DEF Halt

LEMMA FailPreserves ==
  ASSUME AuditInv, NEW r \in Request, Fail(r)
  PROVE  AuditInv'
<1>1. pc[r] # "idle" /\ UNCHANGED <<clock, store, lease, budget, req, history>>
      /\ pc' = [pc EXCEPT ![r] = IF pc[r] \in InCall THEN "halt" ELSE "release"]
  BY DEF Fail, Goto, Stopped, InCall
<1>2. faults' \in 0 .. MaxFaults
  BY LimitsAssumption DEF Fail, Fault, AuditInv, TypeOK, Limits
<1>3. CASE pc[r] \in InCall
  <2>1. MayMove(r, "halt") /\ pc' = [pc EXCEPT ![r] = "halt"]
    BY <1>1, <1>3 DEF HasCall, MayMove
  <2> QED
    BY <1>1, <1>2, <2>1, MovePreserves
<1>4. CASE pc[r] \notin InCall
  <2>1. MayMove(r, "release") /\ pc' = [pc EXCEPT ![r] = "release"]
    BY <1>1, <1>4 DEF MayMove
  <2> QED
    BY <1>1, <1>2, <2>1, MovePreserves
<1> QED
  BY <1>3, <1>4

LEMMA CheckPreserves ==
  ASSUME AuditInv, NEW r \in Request, CheckWindow(r) \/ Admit(r) \/ Refuse(r) \/ CheckReceipt(r)
  PROVE  AuditInv'
<1>1. pc[r] # "idle" /\ UNCHANGED <<clock, store, lease, budget, req, history>> /\ faults' \in 0 .. MaxFaults
  BY DEF CheckWindow, Admit, Refuse, CheckReceipt, AuditInv, TypeOK
<1>2. \/ pc' = [pc EXCEPT ![r] = "release"]
      \/ MayMove(r, "admit") /\ pc' = [pc EXCEPT ![r] = "admit"]
      \/ MayMove(r, "reserve") /\ pc' = [pc EXCEPT ![r] = "reserve"]
      \/ MayMove(r, "halt") /\ pc' = [pc EXCEPT ![r] = "halt"]
      \/ MayMove(r, "save") /\ pc' = [pc EXCEPT ![r] = "save"]
  <2>1. CASE CheckWindow(r)
    BY <2>1 DEF CheckWindow, Goto, MayMove
  <2>2. CASE Admit(r)
    BY <2>2 DEF Admit, Goto, MayMove
  <2>3. CASE Refuse(r)
    BY <2>3 DEF Refuse, Goto, MayMove
  <2>4. CASE CheckReceipt(r)
    BY <2>4 DEF CheckReceipt, Goto, MayMove, HasCall, InCall
  <2> QED
    BY <2>1, <2>2, <2>3, <2>4
<1>3. MayMove(r, "release")
  BY DEF MayMove
<1> QED
  BY <1>1, <1>2, <1>3, MovePreserves

-----------------------------------------------------------------------------
LEMMA AuditStep ==
  ASSUME AuditInv, [Next]_vars
  PROVE  AuditInv'
<1>1. CASE UNCHANGED vars
  BY <1>1 DEF vars, store, budget, history, AuditInv, TypeOK, FlightsInv, SettledInv, OneCallEach, PaidOnce,
              RequestInv, HasCall, FlightOf, InFlight, HoldsLive
<1>2. ASSUME NEW r \in Request, AcquireLease(r) \/ Step(r) \/ Crash(r) PROVE AuditInv'
  BY <1>2, AcquirePreserves, ReadPreserves, CheckPreserves, ReservePreserves, CallPreserves, SavePreserves,
     SettlePreserves, HaltPreserves, FailPreserves, EndPreserves DEF Step
<1>3. CASE Expire \/ Tick \/ \E docs \in SUBSET Doc : Publish(docs)
  BY <1>3, WorldPreserves
<1> QED
  BY <1>1, <1>2, <1>3 DEF Next

LEMMA AuditInvariance == Spec => []AuditInv
BY AuditInitial, AuditStep, PTL DEF Spec

(* Every variable keeps its type: no window and no run counts more calls   *)
(* than it was given.                                                      *)
THEOREM AuditTypes == Spec => []TypeOK
<1>1. AuditInv => TypeOK
  BY DEF AuditInv
<1> QED
  BY <1>1, AuditInvariance, PTL

(* No text is paid for twice, whatever crashes, expires or gets lost.      *)
THEOREM NothingPaidTwice == Spec => []PaidOnce
<1>1. AuditInv => PaidOnce
  BY DEF AuditInv
<1> QED
  BY <1>1, AuditInvariance, PTL

(* At most one paid call is not settled, and it is the one in the ledger.  *)
THEOREM OneCallOpen == Spec => []OneUnsettledCall
<1>1. ASSUME AuditInv PROVE OneUnsettledCall
  <2>1. paid \ settled \subseteq {window.inFlight}
    BY <1>1 DEF AuditInv, SettledInv
  <2>2. IsFiniteSet({window.inFlight}) /\ Cardinality({window.inFlight}) = 1
    BY FS_Singleton
  <2>3. Cardinality(paid \ settled) <= 1
    BY <2>1, <2>2, FS_Subset
  <2> QED
    BY <2>3 DEF OneUnsettledCall
<1> QED
  BY <1>1, AuditInvariance, PTL
-----------------------------------------------------------------------------
(* The ledger against the reservations that it stands for: it names the    *)
(* window and the time of the latest one, and has counted every call that  *)
(* the latest one shares a budget with.                                    *)
LatestIs(u) ==
  /\ u \in starts /\ u.n = Cardinality(starts)
  /\ window.id = u.window /\ window.lastStartAt = u.at
  /\ Cardinality(BudgetOf(u)) <= window.calls

LedgerInv ==
  /\ \A s \in starts : s.n \in 1 .. Cardinality(starts) /\ s.at <= clock
  /\ \A s, t \in starts : s.n <= t.n => s.at <= t.at /\ (s.n = t.n => s = t)
  /\ window = None => starts = {}
  /\ window # None => \E u \in starts : LatestIs(u)

BudgetInv == LedgerInv /\ IntervalKept /\ WindowBudget

LEMMA BudgetInitial == Init => BudgetInv
BY FS_EmptySet DEF Init, BudgetInv, LedgerInv, IntervalKept, WindowBudget

(* A step that reserves nothing leaves the counts of the ledger alone.     *)
SameLedger ==
  /\ starts' = starts /\ clock' >= clock
  /\ window' = None <=> window = None
  /\ window # None => /\ window'.id = window.id /\ window'.calls = window.calls
                      /\ window'.lastStartAt = window.lastStartAt

LEMMA SameLedgerKeeps ==
  ASSUME AuditInv, AuditInv', BudgetInv, SameLedger
  PROVE  BudgetInv'
<1>1. clock \in Nat /\ clock' \in Nat /\ \A s \in starts : s.at \in Nat
  BY LimitsAssumption DEF AuditInv, TypeOK, Start, Limits
<1>2. IntervalKept' /\ WindowBudget'
  BY DEF SameLedger, BudgetInv, IntervalKept, WindowBudget, BudgetOf, SameBudget
<1>3. \A u \in starts : BudgetOf(u)' = BudgetOf(u)
  BY DEF SameLedger, BudgetOf, SameBudget
<1>4. \A s \in starts : s.at <= clock'
  BY <1>1 DEF SameLedger, BudgetInv, LedgerInv
<1>5. ASSUME window # None PROVE \E u \in starts : LatestIs(u)'
  BY <1>3, <1>5 DEF SameLedger, BudgetInv, LedgerInv, LatestIs
<1> QED
  BY <1>2, <1>4, <1>5 DEF SameLedger, BudgetInv, LedgerInv

LEMMA AccountSame ==
  ASSUME AuditInv, NEW r \in Request, HasCall(r), InFlight(r), NEW halted \in BOOLEAN, Account(r, halted),
         UNCHANGED <<clock, starts>>
  PROVE  SameLedger
<1>1. window \in Ledger /\ window # None
  BY DEF AuditInv, TypeOK, InFlight
<1>2. window'.id = window.id /\ window'.calls = window.calls /\ window'.lastStartAt = window.lastStartAt
  BY <1>1 DEF Account, Ledger
<1>3. window' # None
  BY AccountShape, NoneAssumption
<1>4. clock \in Nat
  BY LimitsAssumption DEF AuditInv, TypeOK, Limits
<1> QED
  BY <1>1, <1>2, <1>3, <1>4 DEF SameLedger

LEMMA OtherStepsSame ==
  ASSUME AuditInv, AuditInv', [Next]_vars, ~ \E r \in Request : Reserve(r)
  PROVE  SameLedger
<1>1. clock \in Nat
  BY LimitsAssumption DEF AuditInv, TypeOK, Limits
<1>2. CASE UNCHANGED <<starts, window>> /\ clock' \in {clock, clock + 1}
  BY <1>1, <1>2 DEF SameLedger
<1>3. CASE UNCHANGED vars
  BY <1>2, <1>3 DEF vars, budget, history
<1>4. ASSUME NEW r \in Request, AcquireLease(r) \/ Step(r) \/ Crash(r) PROVE SameLedger
  <2>1. CASE Settle(r)
    BY <2>1, AccountSame DEF Settle, HasCall, InCall
  <2>2. CASE Halt(r)
    <3>1. CASE InFlight(r) /\ Account(r, TRUE)
      BY <2>2, <3>1, AccountSame DEF Halt, HasCall, history
    <3> QED
      BY <1>2, <2>2, <3>1 DEF Halt, history, budget
  <2>3. CASE AcquireLease(r) \/ ReadPending(r) \/ CheckWindow(r) \/ Admit(r) \/ Refuse(r) \/ CheckReceipt(r)
             \/ SaveVectors(r) \/ Fail(r) \/ ReleaseLease(r) \/ Crash(r) \/ CallProvider(r)
    BY <1>2, <2>3 DEF AcquireLease, ReadPending, CheckWindow, Admit, Refuse, CheckReceipt, SaveVectors, Fail,
                      ReleaseLease, Crash, CallProvider, history, budget
  <2> QED
    BY <1>4, <2>1, <2>2, <2>3 DEF Step
<1>5. CASE Expire \/ Tick \/ \E docs \in SUBSET Doc : Publish(docs)
  BY <1>2, <1>5 DEF Expire, Tick, Publish, history, budget
<1> QED
  BY <1>3, <1>4, <1>5 DEF Next

(* A reservation follows the latest one in the same budget unless the      *)
(* window of that one has run out.                                         *)
LEMMA ReserveKeepsLedger ==
  ASSUME AuditInv, AuditInv', BudgetInv, NEW r \in Request, Reserve(r)
  PROVE  BudgetInv'
<1> DEFINE w == WindowFor(r)
           N == Cardinality(starts)
<1>1. PICK new :
        /\ new = [n |-> N + 1, flight |-> <<req[r].runId, RunFor(r).calls + 1>>,
                  window |-> req[r].window, docs |-> req[r].batch, at |-> clock]
        /\ pc[r] = "reserve" /\ MayReserve(r) /\ clock' = clock /\ starts' = starts \cup {new}
  BY DEF Reserve
<1>2. req[r] \in Local /\ req[r].window \in Window /\ w \in Ledger
  <2>1. req[r] \in Local
    BY <1>1 DEF AuditInv, TypeOK, RequestInv
  <2> QED
    BY <2>1, WindowForType DEF Local, AuditInv
<1>3. /\ IsFiniteSet(starts) /\ N \in Nat /\ clock \in Nat /\ IntervalMs \in Nat
      /\ \A s \in starts : s.n \in 1 .. N /\ s.at \in Nat /\ s.at <= clock /\ s.window.until \in Nat
  <2>1. IsFiniteSet(starts) /\ N \in Nat
    BY FS_CardinalityType DEF AuditInv, FlightsInv
  <2>2. clock \in Nat /\ IntervalMs \in Nat
    BY LimitsAssumption DEF AuditInv, TypeOK, Limits
  <2>3. ASSUME NEW s \in starts PROVE s.at \in Nat /\ s.window \in Window
    BY DEF AuditInv, TypeOK, Start
  <2> QED
    BY <2>1, <2>2, <2>3, WindowAssumption DEF BudgetInv, LedgerInv
<1>4. /\ new.n = N + 1 /\ new.at = clock /\ new.window = req[r].window /\ new \notin starts
      /\ new.window.until \in Nat
  BY <1>1, <1>2, <1>3, WindowAssumption
<1>5. /\ window' \in Ledger /\ window'.id = w.id /\ window'.calls = w.calls + 1 /\ window'.lastStartAt = clock
      /\ w.calls \in Nat /\ w.id.maxCalls \in Nat /\ w.calls < w.id.maxCalls
  <2> HIDE DEF w
  <2>1. w.id \in Window
    BY <1>2 DEF Ledger
  <2> QED
    BY <1>1, <1>2, <2>1, WindowAssumption, DebitedLedger DEF Ledger, MayReserve, WithinBudget, w
<1>6. w.id = new.window
  BY <1>1, <1>2, <1>4 DEF WindowFor, RefilledFor, AuditInv, TypeOK, Ledger
<1>7. Cardinality(starts') = N + 1 /\ IsFiniteSet(starts')
  BY <1>1, <1>3, <1>4, FS_AddElement
(* Nothing changes for the earlier reservations.                           *)
<1>8. ASSUME NEW t \in starts PROVE BudgetOf(t)' = BudgetOf(t)
  <2>1. \A s \in starts : SameBudget(s, t)' <=> SameBudget(s, t)
    <3> QED
      BY <1>1, <1>3, <1>4 DEF SameBudget
  <2> QED
    BY <1>1, <1>3, <1>4, <2>1 DEF BudgetOf
(* The window that the reservation was counted in.                         *)
<1>9. ASSUME window # None, NEW u, LatestIs(u), clock < u.window.until
      PROVE  w.calls = window.calls /\ w.lastStartAt = u.at
  <2>1. window.id = u.window /\ window.lastStartAt = u.at /\ window \in Ledger
    BY <1>9 DEF LatestIs, AuditInv, TypeOK
  <2>2. CASE window.id = req[r].window
    BY <1>9, <2>1, <2>2 DEF WindowFor
  <2>3. CASE window.id # req[r].window
    <3>1. Active
      BY <1>9, <2>1, <1>3 DEF Active, LatestIs
    <3>2. w = [window EXCEPT !.id = req[r].window, !.calls = AtMost(window.calls, req[r].window.maxCalls)]
      BY <1>9, <2>3, <3>1 DEF WindowFor
    <3>3. w.calls = AtMost(window.calls, req[r].window.maxCalls) /\ w.id = req[r].window
          /\ w.lastStartAt = window.lastStartAt
      BY <2>1, <3>2 DEF Ledger
    <3> HIDE DEF w
    <3> QED
      BY <1>5, <2>1, <3>3 DEF AtMost, Ledger
  <2> QED
    BY <2>2, <2>3
<1>10. SameBudget(new, new)'
  <2> QED
    BY <1>1, <1>3, <1>4 DEF SameBudget
<1>11. Cardinality(BudgetOf(new)') <= w.calls + 1
  <2>1. CASE window # None /\ \E u \in starts : LatestIs(u) /\ clock < u.window.until
    <3>1. PICK u \in starts : LatestIs(u) /\ clock < u.window.until
      BY <2>1
    <3>2. BudgetOf(new)' \subseteq BudgetOf(u) \cup {new}
      <4>1. ASSUME NEW s \in starts, SameBudget(s, new)' PROVE SameBudget(s, u)
        <5> QED
          BY <1>1, <1>3, <1>4, <3>1, <4>1 DEF SameBudget, LatestIs
      <4> QED
        BY <1>1, <1>3, <3>1, <4>1 DEF BudgetOf, LatestIs
    <3>3. IsFiniteSet(BudgetOf(u)) /\ Cardinality(BudgetOf(u)) \in Nat
      <4>1. BudgetOf(u) \in SUBSET starts
        BY DEF BudgetOf
      <4>2. IsFiniteSet(BudgetOf(u))
        BY <1>3, <4>1, FS_Subset
      <4> QED
        BY <4>2, FS_CardinalityType
    <3>4. IsFiniteSet(BudgetOf(u) \cup {new}) /\ Cardinality(BudgetOf(u) \cup {new}) <= Cardinality(BudgetOf(u)) + 1
          /\ Cardinality(BudgetOf(u) \cup {new}) \in Nat
      <4>1. IsFiniteSet(BudgetOf(u) \cup {new})
            /\ Cardinality(BudgetOf(u) \cup {new}) =
                 IF new \in BudgetOf(u) THEN Cardinality(BudgetOf(u)) ELSE Cardinality(BudgetOf(u)) + 1
        BY <3>3, FS_AddElement
      <4> QED
        BY <3>3, <4>1
    <3>5. IsFiniteSet(BudgetOf(new)') /\ Cardinality(BudgetOf(new)') <= Cardinality(BudgetOf(u) \cup {new})
      <4> QED
        BY <3>2, <3>4, FS_Subset
    <3>6. Cardinality(BudgetOf(new)') \in Nat
      BY <3>5, FS_CardinalityType
    <3>7. Cardinality(BudgetOf(u)) <= window.calls /\ window.calls = w.calls
      BY <1>9, <2>1, <3>1 DEF LatestIs
    <3> HIDE DEF w
    <3> QED
      BY <1>5, <3>3, <3>4, <3>5, <3>6, <3>7
  <2>2. CASE ~(window # None /\ \E u \in starts : LatestIs(u) /\ clock < u.window.until)
    <3>1. ASSUME NEW s \in starts PROVE ~SameBudget(s, new)'
      <4>1. PICK u \in starts : LatestIs(u) /\ ~(clock < u.window.until)
        BY <2>2, <3>1 DEF BudgetInv, LedgerInv
      <4> QED
        BY <1>1, <1>3, <1>4, <4>1 DEF SameBudget, LatestIs
    <3>2. BudgetOf(new)' = {new}
      <4> QED
        BY <1>1, <1>10, <3>1, <1>4, <1>3 DEF BudgetOf
    <3>3. Cardinality(BudgetOf(new)') = 1
      <4> QED
        BY <3>2, FS_Singleton
    <3> HIDE DEF w
    <3> QED
      BY <1>5, <3>3
  <2> QED
    BY <2>1, <2>2
<1>12. Cardinality(BudgetOf(new)') \in Nat
  <2>1. BudgetOf(new)' \in SUBSET starts'
    BY DEF BudgetOf
  <2>2. IsFiniteSet(BudgetOf(new)')
    <3> QED
      BY <1>7, <2>1, FS_Subset
  <2> QED
    BY <2>2, FS_CardinalityType
<1>13. WindowBudget'
  <2>1. Cardinality(BudgetOf(new)') <= new.window.maxCalls
    <3> HIDE DEF w
    <3> QED
      BY <1>5, <1>6, <1>11, <1>12
  <2>2. \A t \in starts : Cardinality(BudgetOf(t)') <= t.window.maxCalls
    BY <1>8 DEF BudgetInv, WindowBudget
  <2> QED
    BY <1>1, <2>1, <2>2 DEF WindowBudget
<1>14. ASSUME NEW s \in starts, clock < s.window.until PROVE clock >= s.at + IntervalMs
  <2>1. window # None
    BY <1>14 DEF BudgetInv, LedgerInv
  <2>2. PICK u \in starts : LatestIs(u)
    BY <2>1 DEF BudgetInv, LedgerInv
  <2>3. s.n <= u.n /\ s.at <= u.at /\ (s.n = u.n => s = u)
    BY <1>3, <2>2 DEF LatestIs, BudgetInv, LedgerInv
  <2>4. CASE clock < u.window.until
    <3>1. w.lastStartAt = u.at /\ u.at \in Nat
      BY <1>3, <1>9, <2>1, <2>2, <2>4
    <3>2. clock >= u.at + IntervalMs
      <4> HIDE DEF w
      <4> QED
        BY <1>1, <3>1, NoneAssumption DEF MayReserve, Paced, w
    <3> QED
      BY <1>3, <2>3, <3>2
  <2>5. CASE ~(clock < u.window.until)
    <3>1. s.n < u.n
      BY <1>3, <1>14, <2>3, <2>5
    <3>2. u.at < s.window.until
      BY <1>3, <1>14
    <3>3. u.at >= s.at + IntervalMs
      BY <3>1, <3>2 DEF BudgetInv, IntervalKept
    <3> QED
      BY <1>3, <3>3
  <2> QED
    BY <2>4, <2>5
<1>15. IntervalKept'
  <2> QED
    BY <1>1, <1>3, <1>4, <1>14 DEF BudgetInv, IntervalKept
<1>16. window' # None /\ LatestIs(new)'
  <2>1. window' # None
    BY <1>5, NoneAssumption
  <2> HIDE DEF w
  <2> QED
    BY <1>1, <1>4, <1>5, <1>6, <1>7, <1>11, <2>1 DEF LatestIs
<1>17. \A s \in starts' : s.n \in 1 .. Cardinality(starts') /\ s.at <= clock'
  <2> QED
    BY <1>1, <1>3, <1>4, <1>7
<1>18. \A s, t \in starts' : s.n <= t.n => s.at <= t.at /\ (s.n = t.n => s = t)
  <2> QED
    BY <1>1, <1>3, <1>4 DEF BudgetInv, LedgerInv
<1>19. LedgerInv'
  BY <1>1, <1>16, <1>17, <1>18 DEF LedgerInv
<1> QED
  BY <1>13, <1>15, <1>19 DEF BudgetInv

LEMMA BudgetStep ==
  ASSUME AuditInv, AuditInv', BudgetInv, [Next]_vars
  PROVE  BudgetInv'
BY ReserveKeepsLedger, OtherStepsSame, SameLedgerKeeps

LEMMA BudgetInvariance == Spec => []BudgetInv
BY BudgetInitial, BudgetStep, AuditInvariance, PTL DEF Spec

(* No admitted call exceeds the limit of its window, counting the calls of *)
(* the windows that it replaced while they were active.                    *)
THEOREM BudgetHolds == Spec => []WindowBudget
<1>1. BudgetInv => WindowBudget
  BY DEF BudgetInv
<1> QED
  BY <1>1, BudgetInvariance, PTL

(* Reservations keep their distance until the window of the earlier one    *)
(* has run out.                                                            *)
THEOREM PacingHolds == Spec => []IntervalKept
<1>1. BudgetInv => IntervalKept
  BY DEF BudgetInv
<1> QED
  BY <1>1, BudgetInvariance, PTL
=============================================================================
