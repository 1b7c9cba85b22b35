---------------------------- MODULE RegistryRows ----------------------------
(***************************************************************************)
(* Registry operations and their candidates as if nobody were ever in the  *)
(* way: each transaction of worker/service.py and application/promotion.py *)
(* that touches them is one step, decided on the rows as they are in that  *)
(* step.  Locks, the order they are asked for in, waiting and deadlocks do *)
(* not exist here.                                                         *)
(***************************************************************************)
EXTENDS Leases

CONSTANT Candidate

VARIABLES
    operation,   \* the newest operation of each candidate
    candidate,   \* where each candidate stands
    attempt      \* the operation a worker is attempting: one candidate or none

rvars == << operation, candidate, attempt >>

Init ==
    /\ \E id \in WorkerId : \A c \in Candidate :
          \/ operation[c] = Queued
          \/ operation[c] = [status |-> "RUNNING", attempts |-> MaxAttempts,
                             owner |-> id, lease |-> "EXPIRED"]
    /\ \A c \in Candidate : candidate[c] \in {"ELIGIBLE", "PROMOTION_PENDING"}
    /\ attempt = [p \in Worker |-> {}]

Becomes(c, row, standing) ==
    /\ operation' = [operation EXCEPT ![c] = row]
    /\ candidate' = [candidate EXCEPT ![c] = standing]

Claim(p, c) ==
    /\ attempt[p] = {}
    /\ operation[c].status \in Unfinished /\ operation[c].lease # "LIVE"
    /\ operation[c].attempts < MaxAttempts
    /\ Becomes(c, Claimed(operation[c], IdOf[p]), candidate[c])
    /\ attempt' = [attempt EXCEPT ![p] = {c}]

\* A worker ends an attempt only while the row still names it.
Ends(p, c) ==
    /\ attempt[p] = {c}
    /\ operation[c].status = "RUNNING" /\ operation[c].owner = IdOf[p]
    /\ attempt' = [attempt EXCEPT ![p] = {}]

Succeed(p, c) ==
    /\ Ends(p, c)
    /\ candidate[c] = "PROMOTION_PENDING"
    /\ Becomes(c, Released(operation[c], "SUCCEEDED"), "PROMOTED")

\* A publication confirmed for a candidate that has moved on.
ComeTooLate(p, c) ==
    /\ Ends(p, c)
    /\ candidate[c] # "PROMOTION_PENDING"
    /\ Becomes(c, Released(operation[c], "FAILED"),
               IF candidate[c] = "EVALUATING" THEN "EVALUATING" ELSE "BLOCKED")

FailForGood(p, c) ==
    /\ Ends(p, c)
    /\ Becomes(c, Released(operation[c], "FAILED"), "BLOCKED")

TryAgain(p, c) ==
    /\ Ends(p, c)
    /\ operation[c].attempts < MaxAttempts
    /\ Becomes(c, Released(operation[c], "QUEUED"), candidate[c])

\* The worker is lost, its transaction is aborted, or the row is not its own.
GiveUp(p) ==
    /\ attempt' = [attempt EXCEPT ![p] = {}]
    /\ UNCHANGED << operation, candidate >>

DeadLetter(S) ==
    /\ \A c \in S : /\ operation[c].status \in Unfinished /\ operation[c].lease # "LIVE"
                    /\ operation[c].attempts >= MaxAttempts
    /\ operation' = [c \in Candidate |->
          IF c \in S THEN Released(operation[c], "FAILED") ELSE operation[c]]
    /\ candidate' = [c \in Candidate |-> IF c \in S THEN "BLOCKED" ELSE candidate[c]]
    /\ UNCHANGED attempt

Retry(c) ==
    /\ operation[c].status = "FAILED" /\ candidate[c] = "BLOCKED"
    /\ Becomes(c, [Released(operation[c], "QUEUED") EXCEPT !.attempts = 0],
               "PROMOTION_PENDING")
    /\ UNCHANGED attempt

Promote(c) ==
    /\ candidate[c] = "ELIGIBLE" /\ operation[c].status \notin Unfinished
    /\ Becomes(c, Queued, "PROMOTION_PENDING")
    /\ UNCHANGED attempt

\* promotion-check neither disturbs a pending promotion nor a promoted candidate.
Check(c) ==
    /\ candidate[c] \notin {"PROMOTION_PENDING", "PROMOTED"}
    /\ Becomes(c, operation[c],
               IF operation[c].status = "FAILED" THEN "BLOCKED" ELSE "ELIGIBLE")
    /\ UNCHANGED attempt

\* An evaluation that makes its candidate eligible may ask for the promotion at once.
EvaluationPromotes(c) ==
    /\ candidate[c] \notin {"PROMOTION_PENDING", "PROMOTED"}
    /\ operation[c].status \notin Unfinished \cup {"FAILED"}
    /\ Becomes(c, Queued, "PROMOTION_PENDING")
    /\ UNCHANGED attempt

EvaluationFails(c) ==
    /\ Becomes(c, operation[c], "EVALUATING")
    /\ UNCHANGED attempt

\* A heartbeat, possibly a late one, or the deadline: only the lease changes.
LeaseBecomes(c, lease) ==
    /\ Becomes(c, [operation[c] EXCEPT !.lease = lease], candidate[c])
    /\ UNCHANGED attempt

Next ==
    \/ \E p \in Worker : GiveUp(p)
    \/ \E p \in Worker, c \in Candidate :
          Claim(p, c) \/ Succeed(p, c) \/ ComeTooLate(p, c) \/ FailForGood(p, c) \/ TryAgain(p, c)
    \/ \E S \in SUBSET Candidate : DeadLetter(S)
    \/ \E c \in Candidate :
          \/ Retry(c) \/ Promote(c) \/ Check(c)
          \/ EvaluationPromotes(c) \/ EvaluationFails(c)
          \/ LeaseBecomes(c, "LIVE") \/ LeaseBecomes(c, "EXPIRED")

Spec == Init /\ [][Next]_rvars
=============================================================================
