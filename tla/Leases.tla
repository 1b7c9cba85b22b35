-------------------------------- MODULE Leases --------------------------------
(***************************************************************************)
(* Leased work.  Evaluation runs, registry operations and schedule runs    *)
(* share the columns status, attempt_count, lease_owner, lease_expires_at, *)
(* and the worker's claim, completion and dead-letter queries share their  *)
(* conditions on them.  worker/service.py.                                 *)
(*                                                                         *)
(* A slot nobody created yet has status NONE.  The lease is NONE when the  *)
(* column is NULL, LIVE before its deadline and EXPIRED after it.          *)
(***************************************************************************)
EXTENDS Integers

CONSTANTS
    Worker,       \* worker processes
    WorkerId,     \* the values of settings.worker_id
    IdOf,         \* the worker_id each process runs under
    NoOwner,      \* a NULL lease_owner
    MaxAttempts   \* max_attempts of every row

ASSUME WorkerAssumption == IdOf \in [Worker -> WorkerId] /\ NoOwner \notin WorkerId
ASSUME AttemptsAssumption == MaxAttempts \in Nat \ {0}

WorkStatus == {"NONE", "QUEUED", "RUNNING", "SUCCEEDED", "FAILED"}
Unfinished == {"QUEUED", "RUNNING"}
LeaseState == {"NONE", "LIVE", "EXPIRED"}

Absent == [status |-> "NONE", attempts |-> 0, owner |-> NoOwner, lease |-> "NONE"]
Queued == [Absent EXCEPT !.status = "QUEUED"]

\* The claim query with the comparison off by one.
ClaimableOnceMore(w) ==
    w.status \in Unfinished /\ w.attempts <= MaxAttempts /\ w.lease # "LIVE"

\* The WHERE clause of the claim queries.
Claimable(w) ==
    w.status \in Unfinished /\ w.attempts < MaxAttempts /\ w.lease # "LIVE"

\* A dead-letter query that waits for one attempt more than there can be.
ExhaustedTooLate(w) ==
    w.status \in Unfinished /\ w.attempts > MaxAttempts /\ w.lease # "LIVE"

\* The WHERE clause of dead_letter_exhausted_work.
Exhausted(w) ==
    w.status \in Unfinished /\ w.attempts >= MaxAttempts /\ w.lease # "LIVE"

Claimed(w, id) ==
    [w EXCEPT !.status = "RUNNING", !.attempts = @ + 1, !.owner = id, !.lease = "LIVE"]

\* An attempt that ends without giving up its row.
ReleasedOwned(w, status) == [w EXCEPT !.status = status, !.lease = "NONE"]

\* The end of an attempt: the new status, with the lease given up.
Released(w, status) == [w EXCEPT !.status = status, !.owner = NoOwner, !.lease = "NONE"]

\* An operator's retry that leaves the attempts counted.
RestartedSpent(w) == Released(w, "QUEUED")

\* An operator's retry: queued again, with all its attempts.
Restarted(w) == [Released(w, "QUEUED") EXCEPT !.attempts = 0]

\* What the heartbeat writes: the deadline, and nothing else of the row.
Renewed(w) == [w EXCEPT !.lease = "LIVE"]

WorkRow == [status : WorkStatus, attempts : 0..MaxAttempts,
            owner : WorkerId \cup {NoOwner}, lease : LeaseState]

\* A completion that trusts its claim and does not look at the row again.
HoldsAnyway(w, p) == TRUE

\* The check `lease_owner != worker_id: return`: by identity, not by attempt.
Holds(w, p) == w.owner = IdOf[p]

\* Owned exactly while it runs, with a deadline then and an attempt counted; while
\* it waits, another attempt is left.
OwnedRow(w) ==
    /\ w.status = "RUNNING" <=> w.owner # NoOwner
    /\ w.status = "RUNNING" => w.lease # "NONE" /\ w.attempts \in 1..MaxAttempts
    /\ w.status = "QUEUED" => w.attempts < MaxAttempts
===============================================================================
