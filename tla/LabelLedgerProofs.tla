------------------------- MODULE LabelLedgerProofs --------------------------
(***************************************************************************)
(* LabelLedger for any requests, documents, sizes of groups and caps.      *)
(*                                                                         *)
(* As long as nothing fails, the lease keeps requests apart, and a paid    *)
(* label is either saved or held by the request that works: a request      *)
(* comes to its end only after it has saved what it holds.                 *)
(*                                                                         *)
(* The cap holds whatever fails, because the ledger is never below what    *)
(* the provider has charged plus what the calls under way may still give   *)
(* back: tokens that nobody used are counted as the elements of a set.     *)
(***************************************************************************)
EXTENDS LabelLedger, FiniteSetTheorems, TLAPS

Place == {"idle", "pending", "reserve", "call", "settle", "save", "release"}

(* The lease keeps requests apart.                                         *)
Alone(r) == lease # None /\ lease.holder = r /\ lease.live

(* What a request has still to do, and what it holds.                      *)
WorkInv(r) ==
  /\ Alone(r)
  /\ pc[r] = "pending" => req[r].saved = {} /\ req[r].batch = {}
  /\ pc[r] # "settle" => req[r].ok = {}
  /\ req[r].ok \subseteq req[r].batch /\ req[r].batch \cap req[r].queue = {}
  /\ pc[r] \in {"reserve", "call", "settle"} => req[r].queue \cap paid = {}
  /\ pc[r] = "call" => req[r].batch \cap paid = {}
  /\ pc[r] = "release" => req[r].saved \subseteq labels

HeldInv ==
  \A d \in paid :
    d \in labels \/ \E r \in Request : pc[r] # "idle" /\ d \in req[r].saved \cup req[r].ok

LabelInv ==
  /\ TypeOK /\ HaltIsKept
  /\ \A r \in Request : pc[r] # "idle" => req[r] # None
  /\ faults = 0 => HeldInv /\ \A r \in Request : pc[r] # "idle" => WorkInv(r)

-----------------------------------------------------------------------------
LEMMA LabelInitial == Init => LabelInv
<1> SUFFICES ASSUME Init PROVE LabelInv
  OBVIOUS
<1>1. TypeOK
  <2>1. 0 \in 0 .. MaxFaults /\ 0 \in 0 .. MaxResumes
    BY LimitsAssumption
  <2>2. ledger \in [calls : Nat, failedCalls : Nat, used : Nat, charged : Int, halted : BOOLEAN]
    BY DEF Init
  <2> QED
    BY <2>1, <2>2 DEF Init, TypeOK
<1>2. HaltIsKept /\ HeldInv /\ \A r \in Request : pc[r] = "idle"
  BY DEF Init, HaltIsKept, HeldInv
<1> QED
  BY <1>1, <1>2 DEF LabelInv

(* The sets of documents that are counted are finite.                      *)
LEMMA Counted ==
  ASSUME NEW docs \in SUBSET Doc
  PROVE  Cardinality(docs) \in Nat
BY LimitsAssumption, FS_Subset, FS_CardinalityType

LEMMA SliceTypes ==
  ASSUME NEW docs \in SUBSET Doc, NEW size \in Nat, NEW b \in Slices(docs, size)
  PROVE  b \in SUBSET Doc /\ b \subseteq docs /\ Cardinality(b) \in Nat /\ Cardinality(b) <= size
BY Counted DEF Slices, AtMost

(* As long as nothing failed, nobody else is at work while r is.           *)
LEMMA OneMoves ==
  ASSUME LabelInv, NEW r \in Request, pc[r] # "idle", TypeOK', HaltIsKept',
         \A q \in Request \ {r} : pc'[q] = pc[q] /\ req'[q] = req[q],
         pc'[r] = "idle" \/ req'[r] # None,
         faults' = 0 => faults = 0 /\ HeldInv' /\ (pc'[r] # "idle" => WorkInv(r)')
  PROVE  LabelInv'
<1>1. \A q \in Request : pc'[q] # "idle" => req'[q] # None
  BY DEF LabelInv
<1>2. ASSUME faults' = 0 PROVE HeldInv' /\ \A q \in Request : pc'[q] # "idle" => WorkInv(q)'
  <2>1. \A q \in Request : pc[q] # "idle" => q = r
    BY <1>2 DEF LabelInv, WorkInv, Alone
  <2> QED
    BY <1>2, <2>1
<1> QED
  BY <1>1, <1>2 DEF LabelInv

(* A failure: all that is left to show is the types and the halt.          *)
LEMMA FaultsMove ==
  ASSUME LabelInv, Fault
  PROVE  faults' \in 0 .. MaxFaults /\ faults' # 0
BY LimitsAssumption DEF Fault, LabelInv, TypeOK

LEMMA AcquirePreserves ==
  ASSUME LabelInv, NEW r \in Request, NEW resume \in BOOLEAN, AcquireLease(r, resume)
  PROVE  LabelInv'
<1> DEFINE local == [queue |-> {}, batch |-> {}, saved |-> {}, resume |-> resume,
                     ok |-> {}, used |-> 0, stop |-> "none"]
<1>1. /\ pc[r] = "idle" /\ (lease # None => ~lease.live) /\ pc' = [pc EXCEPT ![r] = "pending"]
      /\ lease' = [holder |-> r, live |-> TRUE] /\ req' = [req EXCEPT ![r] = local]
      /\ UNCHANGED <<ledger, labels, history, faults>>
  BY DEF AcquireLease, Goto
<1>2. resumes' \in 0 .. MaxResumes
  BY LimitsAssumption DEF AcquireLease, LabelInv, TypeOK
<1>3. local \in Local /\ Cardinality(local.batch) <= Concurrency
  BY LimitsAssumption, FS_EmptySet DEF Local
<1>4. /\ pc' \in [Request -> Place] /\ pc'[r] = "pending" /\ \A q \in Request \ {r} : pc'[q] = pc[q]
      /\ req'[r] = local /\ \A q \in Request \ {r} : req'[q] = req[q]
  BY <1>1 DEF LabelInv, TypeOK, Place
<1>5. local # None /\ local.saved = {} /\ local.ok = {} /\ local.batch = {} /\ local.queue = {}
  BY <1>3, NoneAssumption
<1> HIDE DEF local
<1>6. req' \in [Request -> Local \cup {None}]
  BY <1>1, <1>3 DEF LabelInv, TypeOK
<1>7. \A q \in Request : req'[q] # None => Cardinality(req'[q].batch) <= Concurrency
  BY <1>3, <1>4 DEF LabelInv, TypeOK
<1>8. TypeOK'
  BY <1>1, <1>2, <1>4, <1>6, <1>7 DEF history, LabelInv, TypeOK, Place
<1>9. HaltIsKept'
  BY <1>1 DEF history, LabelInv, HaltIsKept
<1>10. ASSUME faults' = 0 PROVE HeldInv' /\ \A q \in Request : pc'[q] # "idle" => WorkInv(q)'
  <2>1. \A q \in Request : pc[q] = "idle"
    BY <1>1, <1>10 DEF LabelInv, WorkInv, Alone
  <2>2. paid \subseteq labels
    BY <1>1, <1>10, <2>1 DEF LabelInv, HeldInv
  <2>3. lease' # None /\ lease'.holder = r /\ lease'.live
    <3>1. [holder |-> r, live |-> TRUE] \in [holder : Request, live : BOOLEAN]
      OBVIOUS
    <3> QED
      BY <1>1, <3>1, NoneAssumption
  <2> QED
    BY <1>1, <1>4, <1>5, <2>1, <2>2, <2>3 DEF history, HeldInv, WorkInv, Alone
<1>11. \A q \in Request : pc'[q] # "idle" => req'[q] # None
  BY <1>4, <1>5 DEF LabelInv
<1> QED
  BY <1>8, <1>9, <1>10, <1>11 DEF LabelInv

(* The end of a request, or of its lease.                                  *)
LEMMA ReleasePreserves ==
  ASSUME LabelInv, NEW r \in Request, ReleaseLease(r)
  PROVE  LabelInv'
<1>1. /\ pc[r] = "release" /\ pc' = [pc EXCEPT ![r] = "idle"] /\ req' = [req EXCEPT ![r] = None]
      /\ lease' \in {lease, None} /\ UNCHANGED <<ledger, labels, history, bounds>>
  BY DEF ReleaseLease, Goto
<1>2. /\ pc' \in [Request -> Place] /\ pc'[r] = "idle" /\ req'[r] = None
      /\ req' \in [Request -> Local \cup {None}]
      /\ \A q \in Request \ {r} : pc'[q] = pc[q] /\ req'[q] = req[q]
  BY <1>1 DEF LabelInv, TypeOK, Place
<1>3. TypeOK' /\ HaltIsKept'
  BY <1>1, <1>2 DEF history, bounds, LabelInv, TypeOK, HaltIsKept, Place
<1>4. faults' = 0 => faults = 0 /\ HeldInv'
  <2> SUFFICES ASSUME faults' = 0 PROVE faults = 0 /\ HeldInv'
    OBVIOUS
  <2>1. faults = 0 /\ HeldInv /\ WorkInv(r)
    BY <1>1 DEF bounds, LabelInv
  <2>2. req[r].saved \subseteq labels /\ req[r].ok = {}
    BY <1>1, <2>1 DEF WorkInv
  <2> QED
    BY <1>1, <1>2, <2>1, <2>2 DEF history, HeldInv
<1> QED
  BY <1>1, <1>2, <1>3, <1>4, OneMoves

LEMMA CrashPreserves ==
  ASSUME LabelInv, NEW r \in Request, Crash(r)
  PROVE  LabelInv'
<1>1. /\ pc[r] # "idle" /\ pc' = [pc EXCEPT ![r] = "idle"] /\ req' = [req EXCEPT ![r] = None]
      /\ UNCHANGED <<ledger, labels, lease, history, resumes>>
      /\ faults' \in 0 .. MaxFaults /\ faults' # 0
  BY FaultsMove DEF Crash, Goto
<1>2. /\ pc' \in [Request -> Place] /\ pc'[r] = "idle" /\ req'[r] = None
      /\ req' \in [Request -> Local \cup {None}]
      /\ \A q \in Request \ {r} : pc'[q] = pc[q] /\ req'[q] = req[q]
  BY <1>1 DEF LabelInv, TypeOK, Place
<1>3. TypeOK' /\ HaltIsKept'
  BY <1>1, <1>2 DEF history, LabelInv, TypeOK, HaltIsKept, Place
<1> QED
  BY <1>1, <1>2, <1>3, OneMoves

LEMMA ExpirePreserves ==
  ASSUME LabelInv, Expire
  PROVE  LabelInv'
<1>1. /\ lease \in [holder : Request, live : BOOLEAN] /\ lease' = [lease EXCEPT !.live = FALSE]
      /\ UNCHANGED <<ledger, labels, pc, req, history, resumes>>
  BY DEF Expire, LabelInv, TypeOK
<1>2. faults' \in 0 .. MaxFaults /\ (faults' = 0 => faults = 0 /\ pc[lease.holder] = "idle")
  BY FaultsMove DEF Expire, Abandoned, LabelInv, TypeOK
<1>3. TypeOK' /\ HaltIsKept'
  BY <1>1, <1>2 DEF history, LabelInv, TypeOK, HaltIsKept
<1>4. ASSUME faults' = 0 PROVE HeldInv' /\ \A q \in Request : pc'[q] # "idle" => WorkInv(q)'
  <2>1. \A q \in Request : pc[q] = "idle"
    BY <1>2, <1>4 DEF LabelInv, WorkInv, Alone
  <2> QED
    BY <1>1, <1>2, <1>4, <2>1 DEF history, LabelInv, HeldInv
<1> QED
  BY <1>1, <1>3, <1>4 DEF LabelInv

(* A request that fails or stops between two groups.                       *)
LEMMA FailPreserves ==
  ASSUME LabelInv, NEW r \in Request, Fail(r)
  PROVE  LabelInv'
<1>1. /\ pc[r] # "idle" /\ pc' = [pc EXCEPT ![r] = "release"]
      /\ UNCHANGED <<ledger, labels, lease, req, history, resumes>>
      /\ faults' \in 0 .. MaxFaults
  BY FaultsMove DEF Fail, Goto, LabelInv, TypeOK
<1>2. faults' = 0 => faults = 0 /\ pc[r] = "save" /\ ~HoldsLive(r)
  BY FaultsMove DEF Fail
<1>3. faults' # 0
  BY <1>2 DEF LabelInv, WorkInv, Alone, HoldsLive
<1>4. pc' \in [Request -> Place] /\ pc'[r] = "release" /\ \A q \in Request \ {r} : pc'[q] = pc[q]
  BY <1>1 DEF LabelInv, TypeOK, Place
<1>5. TypeOK' /\ HaltIsKept'
  BY <1>1, <1>4 DEF history, LabelInv, TypeOK, HaltIsKept, Place
<1>6. req'[r] # None /\ \A q \in Request \ {r} : req'[q] = req[q]
  BY <1>1 DEF LabelInv
<1> QED
  BY <1>1, <1>3, <1>4, <1>5, <1>6, OneMoves

(* What a step of a request that is at work has to keep of the types.      *)
LEMMA OneWorks ==
  ASSUME LabelInv, NEW r \in Request, pc[r] # "idle",
         NEW place \in Place, NEW local \in Local, Cardinality(local.batch) <= Concurrency,
         pc' = [pc EXCEPT ![r] = place], req' = [req EXCEPT ![r] = local],
         ledger' \in [calls : Nat, failedCalls : Nat, used : Nat, charged : Int, halted : BOOLEAN],
         labels' \subseteq Doc, lease' = lease, used' \in Nat, paid' \subseteq Doc, halts' \in BOOLEAN,
         faults' \in 0 .. MaxFaults, resumes' \in 0 .. MaxResumes,
         HaltIsKept',
         faults' = 0 => faults = 0 /\ HeldInv' /\ (pc'[r] # "idle" => WorkInv(r)')
  PROVE  LabelInv'
<1>1. /\ pc' \in [Request -> Place] /\ pc'[r] = place /\ req'[r] = local
      /\ req' \in [Request -> Local \cup {None}]
      /\ \A q \in Request \ {r} : pc'[q] = pc[q] /\ req'[q] = req[q]
  BY DEF LabelInv, TypeOK, Place
<1>2. local # None
  BY NoneAssumption
<1>3. \A q \in Request : req'[q] # None => Cardinality(req'[q].batch) <= Concurrency
  BY <1>1 DEF LabelInv, TypeOK
<1>4. TypeOK'
  BY <1>1, <1>3 DEF LabelInv, TypeOK, Place
<1> QED
  BY <1>1, <1>2, <1>4, OneMoves

LEMMA AtWork ==
  ASSUME LabelInv, NEW r \in Request, pc[r] # "idle"
  PROVE  /\ req[r] \in Local /\ Cardinality(req[r].batch) <= Concurrency
         /\ faults = 0 => HeldInv /\ WorkInv(r) /\ \A q \in Request \ {r} : pc[q] = "idle"
BY DEF LabelInv, TypeOK, WorkInv, Alone

LEMMA ReadPendingPreserves ==
  ASSUME LabelInv, NEW r \in Request, ReadPending(r)
  PROVE  LabelInv'
<1>1. PICK queue \in Slices(Pending, MaxCalls) :
        /\ pc[r] = "pending" /\ req' = [req EXCEPT ![r].queue = queue]
        /\ pc' = [pc EXCEPT ![r] = IF queue = {} THEN "release" ELSE "reserve"]
        /\ UNCHANGED <<ledger, labels, lease, history, bounds>>
  BY DEF ReadPending, Goto
<1> DEFINE local == [req[r] EXCEPT !.queue = queue]
           place == IF queue = {} THEN "release" ELSE "reserve"
<1>2. queue \subseteq Doc \ labels
  BY <1>1, SliceTypes, LimitsAssumption DEF Pending
<1>3. req[r] \in Local /\ Cardinality(req[r].batch) <= Concurrency
  BY <1>1, AtWork
<1>4. /\ local \in Local /\ local.queue = queue /\ local.batch = req[r].batch /\ local.saved = req[r].saved
      /\ local.ok = req[r].ok /\ place \in Place
  BY <1>2, <1>3 DEF Local, Place
<1>5. req' = [req EXCEPT ![r] = local] /\ pc' = [pc EXCEPT ![r] = place]
  BY <1>1
<1> HIDE DEF local, place
<1>6. pc'[r] = place /\ req'[r] = local /\ \A q \in Request \ {r} : pc'[q] = pc[q] /\ req'[q] = req[q]
  BY <1>5 DEF LabelInv, TypeOK
<1>7. ASSUME faults' = 0 PROVE faults = 0 /\ HeldInv' /\ WorkInv(r)'
  <2>1. /\ faults = 0 /\ HeldInv /\ Alone(r) /\ \A q \in Request \ {r} : pc[q] = "idle"
        /\ req[r].saved = {} /\ req[r].batch = {} /\ req[r].ok = {}
    BY <1>1, <1>7, AtWork DEF bounds, WorkInv
  <2>2. paid \subseteq labels
    BY <2>1 DEF HeldInv
  <2>3. HeldInv'
    BY <1>1, <2>2 DEF history, HeldInv
  <2>4. place \in {"release", "reserve"}
    BY DEF place
  <2>5. WorkInv(r)'
    BY <1>1, <1>2, <1>4, <1>6, <2>1, <2>2, <2>4 DEF history, WorkInv, Alone
  <2> QED
    BY <2>1, <2>3, <2>5
<1>8. HaltIsKept' /\ UNCHANGED <<ledger, labels, lease, used, paid, halts, faults, resumes>>
  BY <1>1 DEF history, bounds, LabelInv, HaltIsKept
<1>9. /\ ledger' \in [calls : Nat, failedCalls : Nat, used : Nat, charged : Int, halted : BOOLEAN]
      /\ labels' \subseteq Doc /\ used' \in Nat /\ paid' \subseteq Doc /\ halts' \in BOOLEAN
      /\ faults' \in 0 .. MaxFaults /\ resumes' \in 0 .. MaxResumes
  BY <1>8 DEF LabelInv, TypeOK
<1>10. pc[r] # "idle" /\ lease' = lease /\ Cardinality(local.batch) <= Concurrency
  BY <1>1, <1>3, <1>4
<1> QED
  BY <1>4, <1>5, <1>7, <1>8, <1>9, <1>10, OneWorks

(* A request that stops between two groups.                                *)
LEMMA StopPreserves ==
  ASSUME LabelInv, NEW r \in Request, pc[r] = "reserve",
         NEW reason \in {"bounded", "halted", "budget"}, Stop(r, reason),
         UNCHANGED <<ledger, labels, lease, history, resumes>>,
         faults' \in 0 .. MaxFaults, faults' = 0 => faults = 0
  PROVE  LabelInv'
<1> DEFINE local == [req[r] EXCEPT !.stop = reason, !.batch = {}]
           place == IF req[r].saved = {} THEN "release" ELSE "save"
<1>1. req[r] \in Local
  BY AtWork
<1>2. /\ local \in Local /\ local.queue = req[r].queue /\ local.batch = {} /\ local.saved = req[r].saved
      /\ local.ok = req[r].ok /\ place \in Place
  BY <1>1 DEF Local, Place
<1>3. req' = [req EXCEPT ![r] = local] /\ pc' = [pc EXCEPT ![r] = place]
  BY <1>1 DEF Stop, SaveOrRelease, Goto, LabelInv, TypeOK, Local
<1>4. place \in {"release", "save"} /\ (place = "release" => req[r].saved = {})
  OBVIOUS
<1>5. Cardinality(local.batch) <= Concurrency
  BY <1>2, FS_EmptySet, LimitsAssumption
<1> HIDE DEF local, place
<1>6. pc'[r] = place /\ req'[r] = local /\ \A q \in Request \ {r} : pc'[q] = pc[q] /\ req'[q] = req[q]
  BY <1>3 DEF LabelInv, TypeOK
<1>7. ASSUME faults' = 0 PROVE faults = 0 /\ HeldInv' /\ WorkInv(r)'
  <2>1. faults = 0 /\ HeldInv /\ WorkInv(r) /\ req[r].ok = {}
    BY <1>7, AtWork DEF WorkInv
  <2>2. HeldInv'
    BY <1>2, <1>4, <1>6, <2>1 DEF history, HeldInv
  <2>3. WorkInv(r)'
    BY <1>2, <1>4, <1>6, <2>1 DEF history, WorkInv, Alone
  <2> QED
    BY <2>1, <2>2, <2>3
<1>8. HaltIsKept' /\ UNCHANGED <<ledger, labels, lease, used, paid, halts, resumes>>
  BY DEF history, LabelInv, HaltIsKept
<1> QED
  BY <1>2, <1>3, <1>5, <1>7, <1>8, OneWorks DEF LabelInv, TypeOK

LEMMA BoundedStopPreserves ==
  ASSUME LabelInv, NEW r \in Request, BoundedStop(r)
  PROVE  LabelInv'
<1>1. faults' \in 0 .. MaxFaults /\ (faults' = 0 => faults = 0)
  BY FaultsMove DEF BoundedStop, LabelInv, TypeOK
<1> QED
  BY <1>1, StopPreserves DEF BoundedStop

(* The transaction: it stops the request, or charges a group and clears    *)
(* the halt, which is why nothing is halted after it.                      *)
LEMMA ReservePreserves ==
  ASSUME LabelInv, NEW r \in Request, Reserve(r)
  PROVE  LabelInv'
<1>1. PICK resume \in BOOLEAN : Callback(r, resume)
  BY AtWork DEF Reserve, Local
<1>2. /\ pc[r] = "reserve" /\ UNCHANGED <<labels, lease, used, paid, resumes>>
      /\ faults' \in 0 .. MaxFaults /\ (faults' = 0 => faults = 0)
  BY FaultsMove DEF Reserve, LabelInv, TypeOK
<1>3. req[r] \in Local /\ Cardinality(req[r].batch) <= Concurrency
  BY <1>2, AtWork
<1>4. PICK batch \in Slices(req[r].queue, Concurrency) :
        LET charge == Cardinality(batch) * TokensPerCall
        IN  \/ /\ \E reason \in {"halted", "budget"} : Stop(r, reason)
               /\ UNCHANGED <<ledger, halts>>
            \/ /\ ledger' = [ledger EXCEPT !.halted = FALSE, !.calls = @ + Cardinality(batch), !.charged = @ + charge]
               /\ req' = [req EXCEPT ![r].batch = batch, ![r].queue = @ \ batch, ![r].resume = FALSE]
               /\ halts' = FALSE
               /\ Goto(r, "call")
  BY <1>1 DEF Callback
<1>5. CASE /\ \E reason \in {"halted", "budget"} : Stop(r, reason)
           /\ UNCHANGED <<ledger, halts>>
  <2>1. PICK reason \in {"halted", "budget"} : Stop(r, reason)
    BY <1>5
  <2> QED
    BY <1>2, <1>5, <2>1, StopPreserves DEF history
<1>6. CASE /\ ledger' = [ledger EXCEPT !.halted = FALSE, !.calls = @ + Cardinality(batch),
                                       !.charged = @ + Cardinality(batch) * TokensPerCall]
           /\ req' = [req EXCEPT ![r].batch = batch, ![r].queue = @ \ batch, ![r].resume = FALSE]
           /\ halts' = FALSE
           /\ Goto(r, "call")
  <2> DEFINE local == [req[r] EXCEPT !.batch = batch, !.queue = @ \ batch, !.resume = FALSE]
  <2>1. batch \in SUBSET Doc /\ batch \subseteq req[r].queue /\ Cardinality(batch) \in Nat
        /\ Cardinality(batch) <= Concurrency
    BY <1>3, SliceTypes, LimitsAssumption DEF Local
  <2>2. /\ local \in Local /\ local.queue = req[r].queue \ batch /\ local.batch = batch
        /\ local.saved = req[r].saved /\ local.ok = req[r].ok
    BY <1>3, <2>1 DEF Local
  <2>3. req' = [req EXCEPT ![r] = local] /\ pc' = [pc EXCEPT ![r] = "call"]
    BY <1>3, <1>6 DEF Goto, LabelInv, TypeOK, Local
  <2>4. ledger' \in [calls : Nat, failedCalls : Nat, used : Nat, charged : Int, halted : BOOLEAN]
    <3>1. Cardinality(batch) * TokensPerCall \in Int
      BY <2>1, LimitsAssumption
    <3>2. ledger \in [calls : Nat, failedCalls : Nat, used : Nat, charged : Int, halted : BOOLEAN]
      BY DEF LabelInv, TypeOK
    <3>3. ledger.calls + Cardinality(batch) \in Nat
      BY <2>1, <3>2
    <3>4. ledger.charged + Cardinality(batch) * TokensPerCall \in Int
      BY <3>1, <3>2
    <3> QED
      BY <1>6, <3>2, <3>3, <3>4
  <2> HIDE DEF local
  <2>5. pc'[r] = "call" /\ req'[r] = local /\ \A q \in Request \ {r} : pc'[q] = pc[q] /\ req'[q] = req[q]
    BY <2>3 DEF LabelInv, TypeOK
  <2>6. ASSUME faults' = 0 PROVE faults = 0 /\ HeldInv' /\ WorkInv(r)'
    <3>1. faults = 0 /\ HeldInv /\ WorkInv(r) /\ req[r].ok = {} /\ req[r].queue \cap paid = {}
      BY <1>2, <2>6, AtWork DEF WorkInv
    <3>2. HeldInv'
      BY <1>2, <2>2, <2>5, <3>1 DEF HeldInv
    <3>3. WorkInv(r)'
      BY <1>2, <2>1, <2>2, <2>5, <3>1 DEF WorkInv, Alone
    <3> QED
      BY <3>1, <3>2, <3>3
  <2>7. HaltIsKept' /\ halts' \in BOOLEAN
    BY <1>6 DEF HaltIsKept
  <2> QED
    BY <1>2, <2>1, <2>2, <2>3, <2>4, <2>6, <2>7, OneWorks DEF LabelInv, TypeOK, Place
<1> QED
  BY <1>4, <1>5, <1>6

LEMMA CallPreserves ==
  ASSUME LabelInv, NEW r \in Request, CallProvider(r)
  PROVE  LabelInv'
<1>1. PICK ok \in SUBSET req[r].batch, tokens \in Usage :
        /\ pc[r] = "call" /\ req' = [req EXCEPT ![r].ok = ok, ![r].used = tokens * Cardinality(ok)]
        /\ used' = used + tokens * Cardinality(req[r].batch) /\ paid' = paid \cup ok
        /\ pc' = [pc EXCEPT ![r] = "settle"] /\ UNCHANGED <<ledger, labels, lease, halts, bounds>>
  BY DEF CallProvider, Goto
<1> DEFINE local == [req[r] EXCEPT !.ok = ok, !.used = tokens * Cardinality(ok)]
<1>2. req[r] \in Local /\ Cardinality(req[r].batch) <= Concurrency
  BY <1>1, AtWork
<1>3. /\ ok \in SUBSET Doc /\ tokens \in Nat /\ Cardinality(ok) \in Nat /\ Cardinality(req[r].batch) \in Nat
      /\ tokens * Cardinality(ok) \in Nat /\ tokens * Cardinality(req[r].batch) \in Nat
  <2>1. ok \in SUBSET Doc /\ req[r].batch \in SUBSET Doc /\ tokens \in Nat
    BY <1>1, <1>2, LimitsAssumption DEF Local
  <2>2. Cardinality(ok) \in Nat /\ Cardinality(req[r].batch) \in Nat
    BY <2>1, Counted
  <2>3. \A a \in Nat, b \in Nat : a * b \in Nat
    OBVIOUS
  <2> QED
    BY <2>1, <2>2, <2>3
<1>4. /\ local \in Local /\ local.queue = req[r].queue /\ local.batch = req[r].batch
      /\ local.saved = req[r].saved /\ local.ok = ok
  BY <1>2, <1>3 DEF Local
<1>5. req' = [req EXCEPT ![r] = local]
  BY <1>1, <1>2 DEF LabelInv, TypeOK, Local
<1> HIDE DEF local
<1>6. pc'[r] = "settle" /\ req'[r] = local /\ \A q \in Request \ {r} : pc'[q] = pc[q] /\ req'[q] = req[q]
  BY <1>1, <1>5 DEF LabelInv, TypeOK
<1>7. ASSUME faults' = 0 PROVE faults = 0 /\ HeldInv' /\ WorkInv(r)'
  <2>1. faults = 0 /\ HeldInv /\ WorkInv(r) /\ req[r].ok = {}
    BY <1>1, <1>7, AtWork DEF bounds, WorkInv
  <2>2. paid' = paid \cup ok /\ labels' = labels /\ local.saved = req[r].saved
    BY <1>1, <1>4
  <2>3. \A d \in paid : d \in labels \/ \E q \in Request : pc'[q] # "idle" /\ d \in req'[q].saved \cup req'[q].ok
    <3> SUFFICES ASSUME NEW d \in paid, d \notin labels
                 PROVE  \E q \in Request : pc'[q] # "idle" /\ d \in req'[q].saved \cup req'[q].ok
      OBVIOUS
    <3>1. PICK q \in Request : pc[q] # "idle" /\ d \in req[q].saved \cup req[q].ok
      BY <2>1 DEF HeldInv
    <3>2. CASE q = r
      BY <1>6, <2>1, <2>2, <3>1, <3>2
    <3>3. CASE q # r
      BY <1>6, <3>1, <3>3
    <3> QED
      BY <3>2, <3>3
  <2>4. HeldInv'
    <3>1. pc'[r] # "idle" /\ req'[r].ok = ok
      BY <1>4, <1>6
    <3>2. \A d \in ok : \E q \in Request : pc'[q] # "idle" /\ d \in req'[q].saved \cup req'[q].ok
      BY <3>1
    <3> QED
      BY <2>2, <2>3, <3>2 DEF HeldInv
  <2>5. WorkInv(r)'
    BY <1>1, <1>4, <1>6, <2>1 DEF WorkInv, Alone
  <2> QED
    BY <2>1, <2>4, <2>5
<1>8. /\ HaltIsKept' /\ UNCHANGED <<ledger, labels, lease, halts, faults, resumes>>
      /\ used' \in Nat /\ paid' \subseteq Doc
  BY <1>1, <1>3 DEF bounds, LabelInv, TypeOK, HaltIsKept
<1>9. /\ ledger' \in [calls : Nat, failedCalls : Nat, used : Nat, charged : Int, halted : BOOLEAN]
      /\ labels' \subseteq Doc /\ halts' \in BOOLEAN
      /\ faults' \in 0 .. MaxFaults /\ resumes' \in 0 .. MaxResumes
  BY <1>8 DEF LabelInv, TypeOK
<1>10. "settle" \in Place
  BY DEF Place
<1> QED
  BY <1>1, <1>2, <1>4, <1>5, <1>7, <1>8, <1>9, <1>10, OneWorks

LEMMA SettlePreserves ==
  ASSUME LabelInv, NEW r \in Request, Settle(r)
  PROVE  LabelInv'
<1> DEFINE failed == Failures(r) > 0
           saved == req[r].saved \cup req[r].ok
           local == [req[r] EXCEPT !.saved = @ \cup req[r].ok, !.batch = {}, !.ok = {}, !.used = 0,
                                   !.stop = IF failed THEN "provider" ELSE @]
           place == IF failed \/ req[r].queue = {}
                    THEN IF saved = {} THEN "release" ELSE "save"
                    ELSE "reserve"
<1>1. /\ pc[r] = "settle"
      /\ ledger' = [ledger EXCEPT !.failedCalls = @ + Failures(r), !.used = @ + req[r].used,
                                  !.charged = ChargeAfter(r), !.halted = HaltedAfter(r)]
      /\ halts' = (halts \/ failed)
      /\ UNCHANGED <<labels, lease, used, paid, bounds>>
  BY DEF Settle
<1>2. req[r] \in Local
  BY <1>1, AtWork
<1>3. req[r].ok \in SUBSET Doc /\ req[r].batch \ req[r].ok \in SUBSET Doc /\ req[r].used \in Nat
  BY <1>2 DEF Local
<1>4. Failures(r) \in Nat /\ Cardinality(req[r].ok) \in Nat
  BY <1>3, Counted DEF Failures
<1>5. /\ local \in Local /\ local.queue = req[r].queue /\ local.batch = {} /\ local.saved = saved
      /\ local.ok = {} /\ place \in Place
  BY <1>2 DEF Local, Place
<1>6. req' = [req EXCEPT ![r] = local]
  BY <1>2 DEF Settle, LabelInv, TypeOK, Local
<1>7. pc' = [pc EXCEPT ![r] = place]
  BY DEF Settle, SaveOrRelease, Goto
<1>8. ledger' \in [calls : Nat, failedCalls : Nat, used : Nat, charged : Int, halted : BOOLEAN]
  <2>1. ledger \in [calls : Nat, failedCalls : Nat, used : Nat, charged : Int, halted : BOOLEAN]
    BY DEF LabelInv, TypeOK
  <2>2. ledger.failedCalls + Failures(r) \in Nat /\ ledger.used + req[r].used \in Nat
    BY <1>3, <1>4, <2>1
  <2>3. Cardinality(req[r].ok) * TokensPerCall \in Int
    BY <1>4, LimitsAssumption
  <2>4. ChargeAfter(r) \in Int
    BY <2>1, <2>3 DEF ChargeAfter
  <2>5. HaltedAfter(r) \in BOOLEAN
    BY <2>1 DEF HaltedAfter
  <2> QED
    BY <1>1, <2>1, <2>2, <2>4, <2>5
<1>9. HaltIsKept' /\ halts' \in BOOLEAN
  <2>1. ledger'.halted = HaltedAfter(r)
    BY <1>1 DEF LabelInv, TypeOK
  <2> QED
    BY <1>1, <2>1 DEF HaltedAfter, HaltIsKept, LabelInv, TypeOK
<1>10. /\ place = "release" => saved = {}
       /\ place = "reserve" \/ place = "release" \/ place = "save"
  OBVIOUS
<1>11. saved = req[r].saved \cup req[r].ok
  OBVIOUS
<1> HIDE DEF local, place, saved, failed
<1>12. pc'[r] = place /\ req'[r] = local /\ \A q \in Request \ {r} : pc'[q] = pc[q] /\ req'[q] = req[q]
  BY <1>6, <1>7 DEF LabelInv, TypeOK
<1>13. ASSUME faults' = 0 PROVE faults = 0 /\ HeldInv' /\ WorkInv(r)'
  <2>1. faults = 0 /\ HeldInv /\ WorkInv(r)
    BY <1>1, <1>13, AtWork DEF bounds
  <2>2. HeldInv'
    BY <1>1, <1>5, <1>10, <1>11, <1>12, <2>1 DEF HeldInv
  <2>3. WorkInv(r)'
    BY <1>1, <1>5, <1>10, <1>11, <1>12, <2>1 DEF WorkInv, Alone
  <2> QED
    BY <2>1, <2>2, <2>3
<1>14. Cardinality(local.batch) <= Concurrency
  BY <1>5, FS_EmptySet, LimitsAssumption
<1>15. /\ lease' = lease /\ labels' \subseteq Doc /\ used' \in Nat /\ paid' \subseteq Doc
       /\ faults' \in 0 .. MaxFaults /\ resumes' \in 0 .. MaxResumes
  BY <1>1 DEF bounds, LabelInv, TypeOK
<1> QED
  BY <1>1, <1>5, <1>6, <1>7, <1>8, <1>9, <1>13, <1>14, <1>15, OneWorks

LEMMA SavePreserves ==
  ASSUME LabelInv, NEW r \in Request, SaveLabels(r)
  PROVE  LabelInv'
<1>1. /\ pc[r] = "save" /\ labels' = labels \cup req[r].saved /\ pc' = [pc EXCEPT ![r] = "release"]
      /\ UNCHANGED <<ledger, lease, req, history, bounds>>
  BY DEF SaveLabels, Saves, Goto
<1>2. req[r] \in Local /\ Cardinality(req[r].batch) <= Concurrency
  BY <1>1, AtWork
<1>3. labels' \subseteq Doc
  BY <1>1, <1>2 DEF Local, LabelInv, TypeOK
<1>4. /\ pc' \in [Request -> Place] /\ pc'[r] = "release" /\ \A q \in Request \ {r} : pc'[q] = pc[q]
  BY <1>1 DEF LabelInv, TypeOK, Place
<1>5. TypeOK' /\ HaltIsKept'
  BY <1>1, <1>3, <1>4 DEF history, bounds, LabelInv, TypeOK, HaltIsKept, Place
<1>6. ASSUME faults' = 0 PROVE faults = 0 /\ HeldInv' /\ WorkInv(r)'
  <2>1. faults = 0 /\ HeldInv /\ WorkInv(r)
    BY <1>1, <1>6, AtWork DEF bounds
  <2>2. HeldInv'
    BY <1>1, <1>4, <2>1 DEF history, HeldInv
  <2>3. WorkInv(r)'
    BY <1>1, <1>4, <2>1 DEF history, WorkInv, Alone
  <2> QED
    BY <2>1, <2>2, <2>3
<1>7. req'[r] # None /\ \A q \in Request \ {r} : req'[q] = req[q]
  BY <1>1, <1>2, NoneAssumption
<1> QED
  BY <1>1, <1>4, <1>5, <1>6, <1>7, OneMoves

LEMMA LabelStep == LabelInv /\ [Next]_vars => LabelInv'
<1> SUFFICES ASSUME LabelInv, [Next]_vars PROVE LabelInv'
  OBVIOUS
<1>1. CASE UNCHANGED vars
  <2>1. TypeOK' /\ HaltIsKept' /\ (HeldInv => HeldInv') /\ \A r \in Request : WorkInv(r) => WorkInv(r)'
    BY <1>1 DEF vars, history, bounds, LabelInv, TypeOK, HaltIsKept, HeldInv, WorkInv, Alone
  <2> QED
    BY <1>1, <2>1 DEF vars, bounds, LabelInv
<1>2. CASE Expire
  BY <1>2, ExpirePreserves
<1>3. CASE \E r \in Request, resume \in BOOLEAN : AcquireLease(r, resume)
  BY <1>3, AcquirePreserves
<1>4. CASE \E r \in Request : Step(r) \/ Crash(r)
  BY <1>4, ReadPendingPreserves, BoundedStopPreserves, ReservePreserves, CallPreserves, SettlePreserves,
     SavePreserves, FailPreserves, ReleasePreserves, CrashPreserves DEF Step
<1> QED
  BY <1>1, <1>2, <1>3, <1>4 DEF Next

LEMMA LabelInvariance == Spec => []LabelInv
BY LabelInitial, LabelStep, PTL DEF Spec

-----------------------------------------------------------------------------
(* The state of labelEventBatch keeps its types: no group is larger than   *)
(* Concurrency, and the reported usage and the counts are numbers whatever *)
(* fails.                                                                  *)
THEOREM LabelTypes == Spec => []TypeOK
<1>1. LabelInv => TypeOK
  BY DEF LabelInv
<1> QED
  BY <1>1, LabelInvariance, PTL

(* A halt that a request settled is in force until some request resumes,   *)
(* whatever other requests settle meanwhile and whoever lost its lease.    *)
THEOREM HaltStays == Spec => []HaltIsKept
<1>1. LabelInv => HaltIsKept
  BY DEF LabelInv
<1> QED
  BY <1>1, LabelInvariance, PTL

(* As long as no request is disturbed, no document with paid labels is     *)
(* sent again.                                                             *)
THEOREM LabeledOnceEach == Spec => LabeledOnce
<1>1. ASSUME LabelInv, NEW r \in Request, faults = 0, CallProvider(r) PROVE req[r].batch \cap paid = {}
  BY <1>1 DEF CallProvider, LabelInv, WorkInv
<1>2. LabelInv => [\A r \in Request : faults = 0 /\ CallProvider(r) => req[r].batch \cap paid = {}]_vars
  BY <1>1
<1> QED
  BY <1>2, LabelInvariance, PTL DEF LabeledOnce

-----------------------------------------------------------------------------
(* The reserved tokens that a request may still use, or has not used: one  *)
(* element for each call and token.                                        *)
Unused(r) ==
  CASE pc[r] = "call" -> req[r].batch \X (1 .. TokensPerCall)
    [] pc[r] = "settle" -> {x \in req[r].ok \X (1 .. TokensPerCall) : x[2] * Cardinality(req[r].ok) > req[r].used}
    [] OTHER -> {}
AllUnused == UNION {{r} \X Unused(r) : r \in Request}

Reported(r) ==
  pc[r] = "settle" => /\ req[r].ok \subseteq req[r].batch
                      /\ \E tokens \in Usage : req[r].used = tokens * Cardinality(req[r].ok)

CapInv ==
  /\ IsFiniteSet(AllUnused)
  /\ used + Cardinality(AllUnused) <= Spent
  /\ Spent <= TokenCap
  /\ \A r \in Request : Reported(r)

LEMMA DisjointUnion ==
  ASSUME NEW S, NEW T, IsFiniteSet(S), IsFiniteSet(T), S \cap T = {}
  PROVE  /\ IsFiniteSet(S \cup T) /\ Cardinality(S \cup T) = Cardinality(S) + Cardinality(T)
         /\ Cardinality(S) \in Nat /\ Cardinality(T) \in Nat /\ Cardinality(S \cup T) \in Nat
<1>1. Cardinality(S) \in Nat /\ Cardinality(T) \in Nat
  BY FS_CardinalityType
<1>2. IsFiniteSet(S \cup T) /\ Cardinality(S \cup T) = Cardinality(S) + Cardinality(T) - Cardinality(S \cap T)
  BY FS_Union
<1>3. Cardinality(S \cap T) = 0
  BY FS_EmptySet
<1> QED
  BY <1>1, <1>2, <1>3

LEMMA Tagged ==
  ASSUME NEW r, NEW S, IsFiniteSet(S)
  PROVE  IsFiniteSet({r} \X S) /\ Cardinality({r} \X S) = Cardinality(S) /\ Cardinality(S) \in Nat
<1>1. IsFiniteSet({r}) /\ Cardinality({r}) = 1
  BY FS_Singleton
<1>2. IsFiniteSet({r} \X S) /\ Cardinality({r} \X S) = Cardinality({r}) * Cardinality(S)
  BY <1>1, FS_Product
<1>3. Cardinality(S) \in Nat
  BY FS_CardinalityType
<1> QED
  BY <1>1, <1>2, <1>3

(* A step that changes the tokens of one request.                          *)
LEMMA UnusedMoves ==
  ASSUME NEW r \in Request, IsFiniteSet(AllUnused), IsFiniteSet(Unused(r)), IsFiniteSet(Unused(r)'),
         \A q \in Request \ {r} : Unused(q)' = Unused(q)
  PROVE  /\ IsFiniteSet(AllUnused')
         /\ Cardinality(AllUnused') + Cardinality(Unused(r)) = Cardinality(AllUnused) + Cardinality(Unused(r)')
         /\ {Cardinality(AllUnused'), Cardinality(Unused(r)), Cardinality(AllUnused), Cardinality(Unused(r)')} \subseteq Nat
<1> DEFINE rest == UNION {{q} \X Unused(q) : q \in Request \ {r}}
           mine == {r} \X Unused(r)
           next == {r} \X Unused(r)'
<1>1. AllUnused = rest \cup mine
  BY DEF AllUnused
<1>2. AllUnused' = rest \cup next
  <2>1. AllUnused' = UNION {{q} \X Unused(q)' : q \in Request}
    BY DEF AllUnused
  <2>2. \A x : x \in UNION {{q} \X Unused(q)' : q \in Request} <=> x \in rest \cup next
    OBVIOUS
  <2> QED
    BY <2>1, <2>2
<1>3. rest \cap mine = {} /\ rest \cap next = {}
  OBVIOUS
<1>4. IsFiniteSet(rest) /\ IsFiniteSet(mine)
  BY <1>1, FS_Subset
<1>5. /\ Cardinality(mine) = Cardinality(Unused(r)) /\ Cardinality(Unused(r)) \in Nat
      /\ IsFiniteSet(next) /\ Cardinality(next) = Cardinality(Unused(r)') /\ Cardinality(Unused(r)') \in Nat
  BY Tagged
<1> HIDE DEF rest, mine, next
<1>6. /\ Cardinality(AllUnused) = Cardinality(rest) + Cardinality(mine)
      /\ IsFiniteSet(AllUnused') /\ Cardinality(AllUnused') = Cardinality(rest) + Cardinality(next)
      /\ Cardinality(rest) \in Nat
  BY <1>1, <1>2, <1>3, <1>4, <1>5, DisjointUnion
<1> QED
  BY <1>5, <1>6

LEMMA TokenCount ==
  ASSUME NEW docs, IsFiniteSet(docs), NEW tokens \in Nat, tokens <= TokensPerCall
  PROVE  /\ IsFiniteSet(docs \X (tokens + 1 .. TokensPerCall))
         /\ Cardinality(docs \X (tokens + 1 .. TokensPerCall)) = Cardinality(docs) * (TokensPerCall - tokens)
         /\ Cardinality(docs) \in Nat /\ TokensPerCall \in Nat
<1>1. TokensPerCall \in Nat /\ Cardinality(docs) \in Nat
  BY LimitsAssumption, FS_CardinalityType
<1>2. IsFiniteSet(tokens + 1 .. TokensPerCall) /\ Cardinality(tokens + 1 .. TokensPerCall) = TokensPerCall - tokens
  <2>1. tokens + 1 \in Int /\ TokensPerCall \in Int
    BY <1>1
  <2>2. /\ IsFiniteSet(tokens + 1 .. TokensPerCall)
        /\ Cardinality(tokens + 1 .. TokensPerCall) =
             IF tokens + 1 > TokensPerCall THEN 0 ELSE TokensPerCall - (tokens + 1) + 1
    BY <2>1, FS_Interval
  <2> QED
    BY <1>1, <2>2
<1> QED
  BY <1>1, <1>2, FS_Product

LEMMA Scaled ==
  ASSUME NEW a \in Nat, NEW b \in Nat, NEW c \in Nat, c > 0
  PROVE  a * c > b * c <=> a > b
<1>1. a > b => a * c > b * c
  <2> SUFFICES ASSUME a > b PROVE a * c > b * c
    OBVIOUS
  <2>1. a * c - b * c = (a - b) * c
    OBVIOUS
  <2>2. \A m \in Nat : m > 0 => m * c > 0
    OBVIOUS
  <2> QED
    BY <2>1, <2>2
<1>2. a <= b => a * c <= b * c
  <2> SUFFICES ASSUME a <= b PROVE a * c <= b * c
    OBVIOUS
  <2>1. b * c - a * c = (b - a) * c
    OBVIOUS
  <2>2. \A m \in Nat : m * c >= 0
    OBVIOUS
  <2> QED
    BY <2>1, <2>2
<1> QED
  BY <1>1, <1>2

(* What a group that used some tokens per call has left.                   *)
LEMMA LeftOver ==
  ASSUME NEW docs, IsFiniteSet(docs), NEW tokens \in Nat
  PROVE  {x \in docs \X (1 .. TokensPerCall) : x[2] * Cardinality(docs) > tokens * Cardinality(docs)}
           = docs \X (tokens + 1 .. TokensPerCall)
<1> DEFINE size == Cardinality(docs)
<1>1. size \in Nat /\ TokensPerCall \in Nat /\ (docs # {} => size > 0)
  BY FS_CardinalityType, FS_EmptySet, LimitsAssumption
<1>2. ASSUME NEW d \in docs, NEW k \in 1 .. TokensPerCall
      PROVE  k * size > tokens * size <=> k > tokens
  <2> HIDE DEF size
  <2> QED
    BY <1>1, <1>2, Scaled
<1> HIDE DEF size
<1>3. \A x \in docs \X (1 .. TokensPerCall) : x[2] * size > tokens * size <=> x[2] > tokens
  BY <1>2
<1>4. \A k : k \in tokens + 1 .. TokensPerCall <=> k \in 1 .. TokensPerCall /\ k > tokens
  BY <1>1
<1> QED
  BY <1>3, <1>4 DEF size

(* The tokens of a request that is about to call, and of one that has.     *)
LEMMA FiniteDocs ==
  ASSUME LabelInv, NEW r \in Request, pc[r] # "idle"
  PROVE  /\ IsFiniteSet(req[r].batch) /\ Cardinality(req[r].batch) \in Nat
         /\ IsFiniteSet(req[r].ok) /\ Cardinality(req[r].ok) \in Nat
         /\ req[r].used \in Nat
BY AtWork, LimitsAssumption, FS_Subset, FS_CardinalityType DEF Local

LEMMA CallUnused ==
  ASSUME LabelInv, NEW r \in Request, pc[r] = "call"
  PROVE  IsFiniteSet(Unused(r)) /\ Cardinality(Unused(r)) = Cardinality(req[r].batch) * TokensPerCall
<1>1. IsFiniteSet(req[r].batch)
  BY FiniteDocs
<1>2. Unused(r) = req[r].batch \X (0 + 1 .. TokensPerCall)
  BY DEF Unused
<1>3. TokensPerCall - 0 = TokensPerCall /\ 0 <= TokensPerCall
  BY LimitsAssumption
<1> QED
  BY <1>1, <1>2, <1>3, TokenCount

LEMMA SettleUnused ==
  ASSUME LabelInv, NEW r \in Request, pc[r] = "settle", NEW tokens \in Nat, tokens <= TokensPerCall,
         req[r].used = tokens * Cardinality(req[r].ok)
  PROVE  IsFiniteSet(Unused(r)) /\ Cardinality(Unused(r)) = Cardinality(req[r].ok) * (TokensPerCall - tokens)
<1>1. IsFiniteSet(req[r].ok)
  BY FiniteDocs
<1>2. Unused(r) = req[r].ok \X (tokens + 1 .. TokensPerCall)
  BY <1>1, LeftOver DEF Unused
<1> QED
  BY <1>1, <1>2, TokenCount

-----------------------------------------------------------------------------
LEMMA CapInitial == Init => CapInv
<1> SUFFICES ASSUME Init PROVE CapInv
  OBVIOUS
<1>1. AllUnused = {}
  BY DEF Init, AllUnused, Unused
<1>2. used = 0 /\ Spent = 0 /\ TokenCap \in Nat
  BY LimitsAssumption DEF Init, Spent
<1>3. \A r \in Request : Reported(r)
  BY DEF Init, Reported
<1> QED
  BY <1>1, <1>2, <1>3, FS_EmptySet DEF CapInv

(* Most steps spend nothing: no call begins, and none that is under way    *)
(* changes, except that it may come to nothing.                            *)
LEMMA NothingSpent ==
  ASSUME LabelInv, LabelInv', CapInv, UNCHANGED <<ledger, used>>,
         \A q \in Request : pc'[q] \in {"call", "settle"} => pc'[q] = pc[q] /\ req'[q] = req[q]
  PROVE  CapInv'
<1>1. \A q \in Request : Unused(q)' \subseteq Unused(q)
  BY DEF Unused
<1>2. AllUnused' \subseteq AllUnused
  BY <1>1 DEF AllUnused
<1>3. /\ IsFiniteSet(AllUnused') /\ Cardinality(AllUnused') <= Cardinality(AllUnused)
      /\ Cardinality(AllUnused) \in Nat /\ Cardinality(AllUnused') \in Nat
  BY <1>2, FS_Subset, FS_CardinalityType DEF CapInv
<1>4. Spent' = Spent /\ Spent \in Int /\ used' = used /\ used \in Nat
  BY DEF Spent, LabelInv, TypeOK
<1>5. \A q \in Request : Reported(q)'
  BY DEF CapInv, Reported
<1> QED
  BY <1>3, <1>4, <1>5 DEF CapInv

LEMMA ReserveKeepsCap ==
  ASSUME LabelInv, LabelInv', CapInv, NEW r \in Request, Reserve(r)
  PROVE  CapInv'
<1>1. /\ pc[r] = "reserve" /\ UNCHANGED <<labels, lease, used, paid, resumes>>
      /\ \E resume \in BOOLEAN : Callback(r, resume)
  BY AtWork DEF Reserve, Local
<1>2. PICK batch \in Slices(req[r].queue, Concurrency) :
        LET charge == Cardinality(batch) * TokensPerCall
        IN  \/ /\ \E reason \in {"halted", "budget"} : Stop(r, reason)
               /\ UNCHANGED ledger
            \/ /\ ~(Spent + charge > TokenCap)
               /\ ledger' = [ledger EXCEPT !.halted = FALSE, !.calls = @ + Cardinality(batch), !.charged = @ + charge]
               /\ req' = [req EXCEPT ![r].batch = batch, ![r].queue = @ \ batch, ![r].resume = FALSE]
               /\ Goto(r, "call")
  BY <1>1 DEF Callback
<1>3. CASE (\E reason \in {"halted", "budget"} : Stop(r, reason)) /\ UNCHANGED ledger
  <2>1. \A q \in Request : pc'[q] \in {"call", "settle"} => pc'[q] = pc[q] /\ req'[q] = req[q]
    BY <1>1, <1>3 DEF Stop, SaveOrRelease, Goto, LabelInv, TypeOK
  <2> QED
    BY <1>1, <1>3, <2>1, NothingSpent
<1>4. CASE /\ ~(Spent + Cardinality(batch) * TokensPerCall > TokenCap)
           /\ ledger' = [ledger EXCEPT !.halted = FALSE, !.calls = @ + Cardinality(batch),
                                       !.charged = @ + Cardinality(batch) * TokensPerCall]
           /\ req' = [req EXCEPT ![r].batch = batch, ![r].queue = @ \ batch, ![r].resume = FALSE]
           /\ Goto(r, "call")
  <2>1. req[r] \in Local /\ Cardinality(batch) \in Nat
    BY <1>1, AtWork, SliceTypes, LimitsAssumption DEF Local
  <2>2. /\ pc'[r] = "call" /\ req'[r].batch = batch
        /\ \A q \in Request \ {r} : pc'[q] = pc[q] /\ req'[q] = req[q]
    BY <1>4, <2>1 DEF Goto, LabelInv, TypeOK, Local
  <2>3. IsFiniteSet(Unused(r)') /\ Cardinality(Unused(r)') = Cardinality(batch) * TokensPerCall
    <3>1. IsFiniteSet(req'[r].batch)
      BY <2>2, FiniteDocs, LimitsAssumption, FS_Subset DEF LabelInv, TypeOK, Local
    <3>2. Unused(r)' = batch \X (0 + 1 .. TokensPerCall)
      BY <2>2 DEF Unused
    <3>3. TokensPerCall - 0 = TokensPerCall /\ 0 <= TokensPerCall
      BY LimitsAssumption
    <3> QED
      BY <2>2, <3>1, <3>2, <3>3, TokenCount
  <2>4. IsFiniteSet(Unused(r)) /\ Cardinality(Unused(r)) = 0
    BY <1>1, FS_EmptySet DEF Unused
  <2>5. \A q \in Request \ {r} : Unused(q)' = Unused(q)
    BY <2>2 DEF Unused
  <2>6. /\ IsFiniteSet(AllUnused')
        /\ Cardinality(AllUnused') + Cardinality(Unused(r)) = Cardinality(AllUnused) + Cardinality(Unused(r)')
        /\ {Cardinality(AllUnused'), Cardinality(Unused(r)), Cardinality(AllUnused), Cardinality(Unused(r)')} \subseteq Nat
    BY <2>3, <2>4, <2>5, UnusedMoves DEF CapInv
  <2> DEFINE charge == Cardinality(batch) * TokensPerCall
  <2>7. charge = Cardinality(Unused(r)') /\ Spent + charge <= TokenCap /\ TokenCap \in Nat /\ charge \in Nat
    BY <1>4, <2>3, <2>6, LimitsAssumption DEF Spent, LabelInv, TypeOK
  <2>8. ledger'.used = ledger.used /\ ledger'.charged = ledger.charged + charge
        /\ ledger.used \in Nat /\ ledger.charged \in Int /\ used \in Nat /\ used' = used
    BY <1>1, <1>4 DEF LabelInv, TypeOK
  <2> HIDE DEF charge
  <2>9. Spent' = Spent + charge /\ Spent \in Int
    BY <2>7, <2>8 DEF Spent
  <2>10. \A q \in Request : Reported(q)'
    BY <2>2 DEF CapInv, Reported
  <2>11. used' + Cardinality(AllUnused') <= Spent' /\ Spent' <= TokenCap
    BY <2>4, <2>6, <2>7, <2>8, <2>9 DEF CapInv
  <2> QED
    BY <2>6, <2>10, <2>11 DEF CapInv
<1> QED
  BY <1>2, <1>3, <1>4

WithinReservation == \A tokens \in Usage : tokens <= TokensPerCall

(* A group of n calls of which m report: what the others have used is no   *)
(* more than what they had reserved.                                       *)
LEMMA GroupFits ==
  ASSUME NEW n \in Nat, NEW m \in Nat, m <= n, NEW tokens \in Nat, NEW limit \in Nat, tokens <= limit
  PROVE  /\ tokens * n + m * (limit - tokens) <= n * limit
         /\ tokens * n \in Nat /\ m * (limit - tokens) \in Nat /\ n * limit \in Nat
<1>1. \A a \in Nat, b \in Nat : a * b \in Nat
  OBVIOUS
<1>2. limit - tokens \in Nat /\ n - m \in Nat
  OBVIOUS
<1>3. (n - m) * (limit - tokens) \in Nat
  BY <1>1, <1>2
<1>4. n * limit - (tokens * n + m * (limit - tokens)) = (n - m) * (limit - tokens)
  OBVIOUS
<1> QED
  BY <1>1, <1>2, <1>3, <1>4

LEMMA CallKeepsCap ==
  ASSUME LabelInv, LabelInv', CapInv, WithinReservation, NEW r \in Request, CallProvider(r)
  PROVE  CapInv'
<1>1. PICK ok \in SUBSET req[r].batch, tokens \in Usage :
        /\ pc[r] = "call" /\ req' = [req EXCEPT ![r].ok = ok, ![r].used = tokens * Cardinality(ok)]
        /\ used' = used + tokens * Cardinality(req[r].batch)
        /\ pc' = [pc EXCEPT ![r] = "settle"] /\ UNCHANGED ledger
  BY DEF CallProvider, Goto
<1> DEFINE n == Cardinality(req[r].batch)
           m == Cardinality(ok)
<1>2. req[r] \in Local /\ tokens \in Nat /\ tokens <= TokensPerCall /\ TokensPerCall \in Nat
  BY <1>1, AtWork, LimitsAssumption DEF WithinReservation
<1>3. n \in Nat /\ m \in Nat /\ m <= n
  BY <1>1, FiniteDocs, FS_Subset, FS_CardinalityType
<1>4. /\ pc'[r] = "settle" /\ req'[r].ok = ok /\ req'[r].batch = req[r].batch /\ req'[r].used = tokens * m
      /\ \A q \in Request \ {r} : pc'[q] = pc[q] /\ req'[q] = req[q]
  BY <1>1, <1>2 DEF LabelInv, TypeOK, Local
<1>5. IsFiniteSet(Unused(r)) /\ Cardinality(Unused(r)) = n * TokensPerCall
  BY <1>1, CallUnused
<1>6. IsFiniteSet(Unused(r)') /\ Cardinality(Unused(r)') = m * (TokensPerCall - tokens)
  <2>1. IsFiniteSet(ok)
    BY <1>1, FiniteDocs, FS_Subset
  <2>2. Unused(r)' = ok \X (tokens + 1 .. TokensPerCall)
    <3>1. Unused(r)' = {x \in ok \X (1 .. TokensPerCall) : x[2] * Cardinality(ok) > tokens * Cardinality(ok)}
      BY <1>4 DEF Unused
    <3> QED
      BY <1>2, <2>1, <3>1, LeftOver
  <2> QED
    BY <1>2, <2>1, <2>2, TokenCount
<1>7. \A q \in Request \ {r} : Unused(q)' = Unused(q)
  BY <1>4 DEF Unused
<1>8. /\ IsFiniteSet(AllUnused')
      /\ Cardinality(AllUnused') + Cardinality(Unused(r)) = Cardinality(AllUnused) + Cardinality(Unused(r)')
      /\ {Cardinality(AllUnused'), Cardinality(Unused(r)), Cardinality(AllUnused), Cardinality(Unused(r)')} \subseteq Nat
  BY <1>5, <1>6, <1>7, UnusedMoves DEF CapInv
<1>9. tokens * n + m * (TokensPerCall - tokens) <= n * TokensPerCall /\ tokens * n \in Nat
  <2> HIDE DEF n, m
  <2> QED
    BY <1>2, <1>3, GroupFits
<1>10. Spent' = Spent /\ Spent \in Int /\ used \in Nat /\ used' = used + tokens * n
  BY <1>1 DEF Spent, LabelInv, TypeOK
<1>11. \A q \in Request : Reported(q)'
  BY <1>1, <1>4 DEF CapInv, Reported
<1> DEFINE spend == tokens * n
           before == n * TokensPerCall
           after == m * (TokensPerCall - tokens)
<1>12. spend + after <= before /\ spend \in Nat /\ used' = used + spend
       /\ Cardinality(Unused(r)) = before /\ Cardinality(Unused(r)') = after
  BY <1>5, <1>6, <1>9, <1>10
<1> HIDE DEF spend, before, after
<1>13. used' + Cardinality(AllUnused') <= Spent' /\ Spent' <= TokenCap
  BY <1>8, <1>10, <1>12 DEF CapInv
<1> QED
  BY <1>8, <1>11, <1>13 DEF CapInv

LEMMA SettleKeepsCap ==
  ASSUME LabelInv, LabelInv', CapInv, WithinReservation, NEW r \in Request, Settle(r)
  PROVE  CapInv'
<1>1. /\ pc[r] = "settle" /\ UNCHANGED used
      /\ ledger' = [ledger EXCEPT !.failedCalls = @ + Failures(r), !.used = @ + req[r].used,
                                  !.charged = ChargeAfter(r), !.halted = HaltedAfter(r)]
  BY DEF Settle
<1>2. PICK tokens \in Usage : req[r].used = tokens * Cardinality(req[r].ok)
  BY <1>1 DEF CapInv, Reported
<1> DEFINE m == Cardinality(req[r].ok)
<1>3. tokens \in Nat /\ tokens <= TokensPerCall /\ TokensPerCall \in Nat /\ m \in Nat
  <2>1. m \in Nat
    BY <1>1, FiniteDocs
  <2> QED
    BY <2>1, LimitsAssumption DEF WithinReservation
<1>4. IsFiniteSet(Unused(r)) /\ Cardinality(Unused(r)) = m * (TokensPerCall - tokens)
  <2>1. pc[r] = "settle" /\ LabelInv
    BY <1>1
  <2>2. tokens \in Nat /\ tokens <= TokensPerCall
    BY <1>3
  <2> QED
    BY <1>2, <2>1, <2>2, SettleUnused, Zenon
<1>5. pc'[r] \in {"save", "release", "reserve"} /\ \A q \in Request \ {r} : pc'[q] = pc[q] /\ req'[q] = req[q]
  <2>1. \E target \in {"save", "release", "reserve"} : pc' = [pc EXCEPT ![r] = target]
    BY DEF Settle, SaveOrRelease, Goto
  <2>2. \A q \in Request \ {r} : req'[q] = req[q]
    BY DEF Settle, LabelInv, TypeOK
  <2> QED
    BY <2>1, <2>2 DEF LabelInv, TypeOK
<1>6. Unused(r)' = {} /\ \A q \in Request \ {r} : Unused(q)' = Unused(q)
  BY <1>5 DEF Unused
<1>7. IsFiniteSet(Unused(r)') /\ Cardinality(Unused(r)') = 0
  BY <1>6, FS_EmptySet
<1>8. /\ IsFiniteSet(AllUnused')
      /\ Cardinality(AllUnused') + Cardinality(Unused(r)) = Cardinality(AllUnused) + Cardinality(Unused(r)')
      /\ {Cardinality(AllUnused'), Cardinality(Unused(r)), Cardinality(AllUnused), Cardinality(Unused(r)')} \subseteq Nat
  BY <1>4, <1>6, <1>7, UnusedMoves DEF CapInv
<1> DEFINE free == m * (TokensPerCall - tokens)
<1>9. tokens * m - m * TokensPerCall = 0 - free
  <2> HIDE DEF m
  <2> QED
    BY <1>3
<1>10. ledger'.used = ledger.used + tokens * m /\ ledger'.charged = ledger.charged - m * TokensPerCall
       /\ ledger.used \in Nat /\ ledger.charged \in Int /\ used \in Nat /\ used' = used
  BY <1>1, <1>2 DEF ChargeAfter, LabelInv, TypeOK
<1>11. free \in Nat /\ Cardinality(Unused(r)) = free
  BY <1>4, <1>8
<1>12. Spent' = Spent - free /\ Spent \in Int
  <2> DEFINE back == tokens * m
             charge == m * TokensPerCall
  <2>1. back \in Int /\ charge \in Int /\ back - charge = 0 - free
    <3> HIDE DEF m
    <3> QED
      BY <1>3, <1>9
  <2>2. ledger'.used = ledger.used + back /\ ledger'.charged = ledger.charged - charge
    BY <1>10
  <2> HIDE DEF back, charge, free
  <2> QED
    BY <1>10, <1>11, <2>1, <2>2 DEF Spent
<1> HIDE DEF free
<1>13. \A q \in Request : Reported(q)'
  BY <1>5 DEF CapInv, Reported
<1>14. used' + Cardinality(AllUnused') <= Spent' /\ Spent' <= TokenCap
  BY <1>7, <1>8, <1>10, <1>11, <1>12, LimitsAssumption DEF CapInv
<1> QED
  BY <1>8, <1>13, <1>14 DEF CapInv

LEMMA CapStep ==
  ASSUME LabelInv, LabelInv', CapInv, WithinReservation, [Next]_vars
  PROVE  CapInv'
<1>1. ASSUME NEW r \in Request, ReadPending(r) \/ BoundedStop(r) \/ SaveLabels(r) \/ Fail(r) \/ ReleaseLease(r) \/ Crash(r)
      PROVE  CapInv'
  <2>1. UNCHANGED <<ledger, used>>
    BY <1>1 DEF ReadPending, BoundedStop, SaveLabels, Fail, ReleaseLease, Crash, history
  <2>2. /\ pc'[r] \notin {"call", "settle"}
        /\ \A q \in Request \ {r} : pc'[q] = pc[q] /\ req'[q] = req[q]
    BY <1>1 DEF ReadPending, BoundedStop, Stop, SaveOrRelease, SaveLabels, Fail, ReleaseLease, Crash, Goto,
                LabelInv, TypeOK
  <2> QED
    BY <2>1, <2>2, NothingSpent
<1>2. ASSUME NEW r \in Request, NEW resume \in BOOLEAN, AcquireLease(r, resume) PROVE CapInv'
  <2>1. \A q \in Request : pc'[q] \in {"call", "settle"} => pc'[q] = pc[q] /\ req'[q] = req[q]
    BY <1>2 DEF AcquireLease, Goto, LabelInv, TypeOK
  <2> QED
    BY <1>2, <2>1, NothingSpent DEF AcquireLease, history
<1>3. CASE Expire \/ UNCHANGED vars
  <2>1. UNCHANGED <<ledger, used, pc, req>>
    BY <1>3 DEF Expire, vars, history
  <2> QED
    BY <2>1, NothingSpent
<1> QED
  BY <1>1, <1>2, <1>3, ReserveKeepsCap, CallKeepsCap, SettleKeepsCap DEF Next, Step

(* What the provider has charged stays within the cap, for any requests    *)
(* that overlap, crash, lose their lease or fail after a call was charged, *)
(* as long as no single call uses more than it reserved.                   *)
THEOREM CapIsKept ==
  ASSUME WithinReservation
  PROVE  Spec => []CapHolds
<1>1. LabelInv /\ LabelInv' /\ CapInv /\ [Next]_vars => CapInv'
  BY CapStep
<1>2. LabelInv /\ CapInv => CapHolds
  <2> SUFFICES ASSUME LabelInv, CapInv PROVE CapHolds
    OBVIOUS
  <2>1. used \in Nat /\ Spent \in Int /\ TokenCap \in Nat /\ Cardinality(AllUnused) \in Nat
    BY LimitsAssumption, FS_CardinalityType DEF LabelInv, TypeOK, Spent, CapInv
  <2> QED
    BY <2>1 DEF CapInv, CapHolds
<1> QED
  BY <1>1, <1>2, CapInitial, LabelInvariance, PTL DEF Spec
=============================================================================
