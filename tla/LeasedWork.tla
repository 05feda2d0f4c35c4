---------------------------- MODULE LeasedWork ----------------------------
(***************************************************************************)
(* The leased queue that collector/preparation keeps in PostgreSQL four    *)
(* times over: preparation_jobs, outbox, publication_refresh_requests and  *)
(* the attempt rows beside them.  A claim raises the fencing token and     *)
(* attempt_count together, so one number stands for both.                  *)
(*                                                                         *)
(* Leases are wall-clock intervals: live says whether this one still runs. *)
(* A claim that meets an expired lease on its last attempt fails the row   *)
(* instead of handing it out.                                              *)
(***************************************************************************)
EXTENDS Naturals

CONSTANTS Worker,       \* worker invocations, by worker_id
          Nobody,       \* lease_owner IS NULL
          MaxAttempts   \* max_attempts

ASSUME WorkAssumption == MaxAttempts \in Nat \ {0} /\ Nobody \notin Worker

\* "owned" is an outbox row in state pending under the batch's topic.
ItemState == {"absent", "pending", "leased", "done", "failed", "blocked",
              "canceled", "owned"}

Fence == 0 .. MaxAttempts

Item == [state : ItemState, owner : Worker \cup {Nobody}, live : BOOLEAN,
         fence : Fence,         \* fencing_token, attempt_count
         open : SUBSET Fence]   \* attempts with no finished_at

Absent == [state |-> "absent", owner |-> Nobody, live |-> FALSE,
           fence |-> 0, open |-> {}]

Pending == [Absent EXCEPT !.state = "pending"]

Expired(i) == i.state = "leased" /\ ~i.live

Claimable(i) == (i.state = "pending" \/ Expired(i)) /\ i.fence < MaxAttempts

ExhaustedPast(i) == Expired(i) /\ i.fence > MaxAttempts

Exhausted(i) == Expired(i) /\ i.fence >= MaxAttempts

\* The state a completion, a failure or a sweep leaves: no lease, and the
\* attempt of the current fence closed.
Released(i, state) == [i EXCEPT !.state = state, !.owner = Nobody,
                                !.live = FALSE, !.open = @ \ {i.fence}]

ClaimedOver(i, w) == [state |-> "leased", owner |-> w, live |-> TRUE,
                      fence |-> i.fence + 1, open |-> i.open \cup {i.fence + 1}]

\* A claim closes the attempt of the lease it takes over as stale.
Claimed(i, w) == [state |-> "leased", owner |-> w, live |-> TRUE,
                  fence |-> i.fence + 1,
                  open |-> (i.open \ {i.fence}) \cup {i.fence + 1}]

\* The guard of every checkpoint, completion and failure.
Holds(i, w, fence) ==
    i.state = "leased" /\ i.owner = w /\ i.fence = fence /\ i.live

Failed(i, retryable) ==
    Released(i, IF retryable /\ i.fence < MaxAttempts THEN "pending"
                ELSE "failed")
=============================================================================
