---------------------------- MODULE ControlPlane ----------------------------
(***************************************************************************)
(* The promotion control plane: the PostgreSQL rows that carry a candidate *)
(* from evaluation to a registry version, the API commands that change     *)
(* them, and the worker processes that lease evaluation runs and registry  *)
(* operations.  One action is one committed transaction, or one step       *)
(* outside the database: a call of the external registry, the passing of a *)
(* lease deadline, the loss of a worker process.                           *)
(*                                                                         *)
(* Data is abstracted to what the code compares.  A snapshot hash is the   *)
(* set of SUCCEEDED runs it was computed from; the identity of an ELIGIBLE *)
(* decision is the candidate revision that recorded it; a publication      *)
(* token is the pair of candidate and decision it is the hash of.          *)
(***************************************************************************)
EXTENDS Lifecycle, Leases, FiniteSets

CONSTANTS
    Candidate,          \* candidates, each with an active plan of its policy
    Autonomous,         \* those whose source_metadata carries autonomous_cycle
    Seeds,              \* the states the bootstrap may leave the others in
    LifecycleStages,    \* policy.lifecycle_stages
    RequiredApprovals,  \* policy.required_lifecycle_approvals
    MaxRuns, MaxOperations, MaxApprovals,  \* bounds: rows per candidate
    MaxRevision,        \* bound: no command is sent at or past this revision
    MaxBeats            \* bound: heartbeat writes on their way at a time

Run == 1..MaxRuns
Operation == 1..MaxOperations
Approval == 1..MaxApprovals
SeedName == {"CANDIDATE", "SAMPLES", "LATENCY", "ELIGIBLE"}
Verdict == {"ELIGIBLE", "FAILED", "INCOMPLETE"}

ASSUME SeedAssumption == Autonomous \subseteq Candidate /\ Seeds \subseteq SeedName
ASSUME BoundAssumption ==
    /\ RequiredApprovals \in Nat
    /\ MaxRuns \in Nat /\ MaxOperations \in Nat /\ MaxApprovals \in Nat
    /\ MaxRevision \in Nat /\ MaxBeats \in Nat

VARIABLES
    candidate,   \* stage, status, revision and current snapshot of each row
    gate,        \* what calculate_candidate_readiness says of its evidence
    blockers,    \* its blockers that are not cleared
    run,         \* its evaluation runs
    decision,    \* its latest ELIGIBLE decision; id 0 when it has none
    approval,    \* its lifecycle approvals; decision 0 in an unused slot
    operation,   \* its registry operations
    version,     \* the agent versions published for it
    selected,    \* the version number its agent selects; 0 when none
    published,   \* tokens the external registry has published
    worker,      \* what each worker process is in the middle of
    beats        \* the attempts whose heartbeat is about to write its row

rows == << candidate, gate, blockers, decision >>
vars == << candidate, gate, blockers, run, decision, approval, operation,
           version, selected, published, worker, beats >>

\* The slot the next row of a candidate goes to.
NextFree(slots, i) ==
    /\ slots[i].status = "NONE"
    /\ \A j \in DOMAIN slots : j < i => slots[j].status # "NONE"

(***************************************************************************)
(* Candidate rows and blockers.                                            *)
(***************************************************************************)
\* A change of the row that forgets candidate.revision += 1.
MovedUnnoticed(row, stage, status) == [row EXCEPT !.stage = stage, !.status = status]

\* Every change of a candidate row also increments its revision.
Moved(row, stage, status) ==
    [row EXCEPT !.stage = stage, !.status = status, !.revision = @ + 1]

\* A registry blocker names the operation that raised it; others name none.
Blocked(bs, code, o) ==
    IF \E b \in bs : b.code = code THEN bs
    ELSE bs \cup {[code |-> code, operation |-> o]}

\* The SUCCEEDED runs, whose results and artifacts the snapshot hash covers.
Evidence(c) == {r \in Run : run[c][r].status = "SUCCEEDED"}

Idle == [task |-> "IDLE"]
Busy(task, c, w) == [task |-> task, candidate |-> c, work |-> w]
Tasks == {"EVALUATING", "PUBLISHING", "PUBLISHED"}
NoDecision == [id |-> 0, snapshot |-> {}]
NoApproval == [decision |-> 0, snapshot |-> {}, revoked |-> FALSE, consumed |-> FALSE]
NoOperation == [status |-> "NONE", attempts |-> 0, owner |-> NoOwner, lease |-> "NONE",
                decision |-> 0, snapshot |-> {}, approvals |-> {}]

(***************************************************************************)
(* The rows the bootstrap and the autonomous cycle leave behind: a planned *)
(* candidate, two that a fixture blocker stops, one whose seeded evidence  *)
(* is already eligible, and a discovered candidate whose autonomous        *)
(* evaluation is queued.                                                   *)
(***************************************************************************)
SeedRow(seed) ==
    [stage |-> CASE seed = "CANDIDATE" -> "CANDIDATE"
                 [] seed = "ELIGIBLE" -> "ELIGIBLE"
                 [] OTHER -> "EVALUATING",
     status |-> IF seed \in {"SAMPLES", "LATENCY"} THEN "BLOCKED" ELSE "ACTIVE",
     revision |-> 1,
     snapshot |-> {}]

SeedBlockers(seed) ==
    CASE seed = "SAMPLES" -> {[code |-> "EVALUATION_SAMPLES_INCOMPLETE", operation |-> 0]}
      [] seed = "LATENCY" -> {[code |-> "HARD_GATE_P95_LATENCY_FAILED", operation |-> 0]}
      [] OTHER -> {}

Init ==
    \E seed \in [Candidate -> Seeds \cup {"AUTONOMOUS"}] :
        /\ \A c \in Candidate : seed[c] = "AUTONOMOUS" <=> c \in Autonomous
        /\ candidate = [c \in Candidate |-> SeedRow(seed[c])]
        /\ gate = [c \in Candidate |->
                      CASE seed[c] = "ELIGIBLE" -> "ELIGIBLE"
                        [] seed[c] = "LATENCY" -> "FAILED"
                        [] OTHER -> "INCOMPLETE"]
        /\ blockers = [c \in Candidate |-> SeedBlockers(seed[c])]
        /\ run = [c \in Candidate |-> [r \in Run |->
                     IF c \in Autonomous /\ r = 1 THEN Queued ELSE Absent]]
        /\ decision = [c \in Candidate |->
                          IF seed[c] = "ELIGIBLE"
                          THEN [id |-> 1, snapshot |-> {}] ELSE NoDecision]
        /\ approval = [c \in Candidate |-> [a \in Approval |-> NoApproval]]
        /\ operation = [c \in Candidate |-> [o \in Operation |-> NoOperation]]
        /\ version = [c \in Candidate |-> {}]
        /\ selected = [c \in Candidate |-> 0]
        /\ published = {}
        /\ worker = [p \in Worker |-> Idle]
        /\ beats = {}

(***************************************************************************)
(* Evidence commands of the API.  A command carries the revision its       *)
(* sender read and is refused unless the row still has it, so the ones     *)
(* that take effect are the ones sent from the current row.                *)
(***************************************************************************)
\* (The bound of the model: whatever is queued by then still runs to its end.)
CommandAllowed(c) == candidate[c].revision < MaxRevision

\* POST /candidates/{id}/evaluate.
Evaluate(c) ==
    /\ CommandAllowed(c)
    /\ EvaluationMutable(candidate[c].stage, candidate[c].status)
    /\ IsTransition(LifecycleStages, candidate[c].stage, "EVALUATING")
    /\ \E r \in Run :
          /\ NextFree(run[c], r)
          /\ run' = [run EXCEPT ![c][r] = Queued]
    /\ candidate' = [candidate EXCEPT ![c] = Moved(@, "EVALUATING", "ACTIVE")]
    /\ UNCHANGED << gate, blockers, decision, approval, operation,
                    version, selected, published, worker, beats >>

\* Where the gate engine puts a candidate, given what it computed (g) and
\* the blockers that stay active.
GatedStage(g) == IF g = "ELIGIBLE" THEN "ELIGIBLE" ELSE "EVALUATING"

\* A status that forgets the blockers which stay active.
GatedStatusByGate(g, bs) == IF g = "ELIGIBLE" THEN "ACTIVE" ELSE "BLOCKED"

GatedStatus(g, bs) == IF g = "ELIGIBLE" /\ bs = {} THEN "ACTIVE" ELSE "BLOCKED"

\* A recomputation that also clears the registry's blockers.
RegatedClearingAll(bs, g) ==
    CASE g = "ELIGIBLE" -> {}
      [] g = "FAILED" -> {[code |-> "HARD_GATE_FAILED", operation |-> 0]}
      [] OTHER -> {[code |-> "EVALUATION_REQUIREMENTS_INCOMPLETE", operation |-> 0]}

\* A recomputation that raises a blocker for a failing gate only.
RegatedUnnamed(bs, g) ==
    LET kept == {b \in bs : b.code \notin DerivedBlockerCodes}
    IN  IF g = "FAILED" THEN Blocked(kept, "HARD_GATE_FAILED", 0) ELSE kept

\* The derived blockers are cleared; a failing gate raises a fresh one.
Regated(bs, g) ==
    LET kept == {b \in bs : b.code \notin DerivedBlockerCodes}
    IN  CASE g = "ELIGIBLE" -> kept
          [] g = "FAILED" -> Blocked(kept, "HARD_GATE_FAILED", 0)
          [] OTHER -> Blocked(kept, "EVALUATION_REQUIREMENTS_INCOMPLETE", 0)

\* The row, blockers and decision after the gate engine looked at evidence e.
GatedRow(row, bs, g, e) ==
    [Moved(row, GatedStage(g), GatedStatus(g, Regated(bs, g))) EXCEPT !.snapshot = e]
GatedDecision(dec, row, g, e) ==
    IF g = "ELIGIBLE" THEN [id |-> row.revision + 1, snapshot |-> e] ELSE dec

\* POST /candidates/{id}/promotion-check: recompute the gate, no new evidence.
PromotionCheck(c) ==
    /\ CommandAllowed(c)
    /\ EvaluationMutable(candidate[c].stage, candidate[c].status)
    /\ IsTransition(LifecycleStages, candidate[c].stage, GatedStage(gate[c]))
    /\ candidate' = [candidate EXCEPT ![c] =
                        GatedRow(@, blockers[c], gate[c], Evidence(c))]
    /\ blockers' = [blockers EXCEPT ![c] = Regated(@, gate[c])]
    /\ decision' = [decision EXCEPT ![c] =
                        GatedDecision(@, candidate[c], gate[c], Evidence(c))]
    /\ UNCHANGED << gate, run, approval, operation, version, selected,
                    published, worker, beats >>

(***************************************************************************)
(* Lifecycle approvals.                                                    *)
(***************************************************************************)
HasCurrentDecision(row, dec) == dec.id # 0 /\ dec.snapshot = row.snapshot

\* POST /candidates/{id}/approvals: binds the latest decision and snapshot.
CreateApproval(c) ==
    /\ CommandAllowed(c)
    /\ HasCurrentDecision(candidate[c], decision[c])
    /\ \E a \in Approval :
          /\ approval[c][a].decision = 0
          /\ \A b \in Approval : b < a => approval[c][b].decision # 0
          /\ approval' = [approval EXCEPT ![c][a] =
                            [NoApproval EXCEPT !.decision = decision[c].id,
                                               !.snapshot = candidate[c].snapshot]]
    /\ candidate' = [candidate EXCEPT ![c].revision = @ + 1]
    /\ UNCHANGED << gate, blockers, run, decision, operation, version,
                    selected, published, worker, beats >>

\* revoke_lifecycle_approval without its consumed_at check.
RevocableEvenConsumed(ap) == ap.decision # 0
Revocable(ap) == ap.decision # 0 /\ ~ap.consumed

\* DELETE /approvals/{id}: a repeated revocation only bumps the revision.
RevokeApproval(c, a) ==
    /\ CommandAllowed(c)
    /\ Revocable(approval[c][a])
    /\ approval' = [approval EXCEPT ![c][a].revoked = TRUE]
    /\ candidate' = [candidate EXCEPT ![c].revision = @ + 1]
    /\ UNCHANGED << gate, blockers, run, decision, operation, version,
                    selected, published, worker, beats >>

(***************************************************************************)
(* Queuing a promotion.  The operators take the values the transaction     *)
(* sees, because a finished autonomous evaluation queues its promotion in  *)
(* the transaction that has just changed them.                             *)
(***************************************************************************)
\* An approval counts whatever snapshot and decision it was given for.
UsableForAnyDecision(aps, row, dec) ==
    {a \in Approval : aps[a].decision # 0 /\ ~aps[a].revoked /\ ~aps[a].consumed}

\* Approvals of exactly this decision and snapshot, not revoked, not consumed.
Usable(aps, row, dec) ==
    {a \in Approval : /\ aps[a].decision = dec.id
                      /\ aps[a].snapshot = row.snapshot
                      /\ ~aps[a].revoked
                      /\ ~aps[a].consumed}

\* The oldest RequiredApprovals of a set of approvals.
Oldest(S) == {a \in S : Cardinality({b \in S : b < a}) < RequiredApprovals}

\* queue_promotion without its look at the active blockers.
MayQueueBlocked(row, ops, bs, dec, evidence, usable) ==
    /\ row.stage \in {"ELIGIBLE", "SHADOW"}
    /\ row.status # "PROMOTION_PENDING"
    /\ \A o \in Operation : ops[o].status \notin Unfinished
    /\ HasCurrentDecision(row, dec)
    /\ row.snapshot = evidence
    /\ Cardinality(usable) >= RequiredApprovals

\* Every check of queue_promotion passes.
MayQueue(row, ops, bs, dec, evidence, usable) ==
    /\ row.stage \in {"ELIGIBLE", "SHADOW"}
    /\ row.status # "PROMOTION_PENDING"
    /\ \A o \in Operation : ops[o].status \notin Unfinished
    /\ HasCurrentDecision(row, dec)
    /\ row.snapshot = evidence
    /\ bs = {}
    /\ Cardinality(usable) >= RequiredApprovals

NewOperation(row, dec, used) ==
    [NoOperation EXCEPT !.status = "QUEUED", !.decision = dec.id,
                        !.snapshot = row.snapshot, !.approvals = used]

\* The approvals a queued promotion took are locked for good.
Consumed(aps, used) ==
    [a \in Approval |-> IF a \in used THEN [aps[a] EXCEPT !.consumed = TRUE] ELSE aps[a]]

\* POST /candidates/{id}/promote.
Promote(c) ==
    LET usable == Usable(approval[c], candidate[c], decision[c])
    IN  /\ CommandAllowed(c)
        /\ MayQueue(candidate[c], operation[c], blockers[c], decision[c],
                    Evidence(c), usable)
        /\ \E o \in Operation :
              /\ NextFree(operation[c], o)
              /\ operation' = [operation EXCEPT ![c][o] =
                    NewOperation(candidate[c], decision[c], Oldest(usable))]
        /\ approval' = [approval EXCEPT ![c] = Consumed(@, Oldest(usable))]
        /\ candidate' = [candidate EXCEPT ![c] = Moved(@, "ELIGIBLE", "PROMOTION_PENDING")]
        /\ UNCHANGED << gate, blockers, run, decision, version, selected,
                        published, worker, beats >>

\* Every check of retry_registry_operation passes.
MayRetry(row, op, o, bs, evidence) ==
    /\ op.status = "FAILED"
    /\ row.snapshot = op.snapshot
    /\ evidence = op.snapshot
    /\ row.stage = "ELIGIBLE" /\ row.status = "BLOCKED"
    /\ \A b \in bs : b.code \in RegistryBlockerCodes /\ b.operation = o

\* A retry that leaves the failure's blocker standing.
ClearedNone(bs, o) == bs

\* Without the registry blockers that name operation o.
Cleared(bs, o) == {b \in bs : ~(b.code \in RegistryBlockerCodes /\ b.operation = o)}

\* POST /promotion-operations/{id}/retry: the same operation, and so the same
\* token, starts over with no attempts; its blockers are cleared.
RetryOperation(c, o) ==
    /\ CommandAllowed(c)
    /\ MayRetry(candidate[c], operation[c][o], o, blockers[c], Evidence(c))
    /\ operation' = [operation EXCEPT ![c][o] = Restarted(@)]
    /\ candidate' = [candidate EXCEPT ![c] = Moved(@, "ELIGIBLE", "PROMOTION_PENDING")]
    /\ blockers' = [blockers EXCEPT ![c] = Cleared(@, o)]
    /\ UNCHANGED << gate, run, decision, approval, version, selected,
                    published, worker, beats >>

(***************************************************************************)
(* A worker's evaluation attempt: claim, measure outside the database, and *)
(* one completing transaction.  Every completing transaction first locks   *)
(* the row and gives up unless the row still names its worker_id.          *)
(***************************************************************************)
ClaimRun(p, c, r) ==
    /\ worker[p] = Idle
    /\ Claimable(run[c][r])
    /\ run' = [run EXCEPT ![c][r] = Claimed(@, IdOf[p])]
    /\ worker' = [worker EXCEPT ![p] = Busy("EVALUATING", c, r)]
    /\ UNCHANGED << candidate, gate, blockers, decision, approval, operation,
                    version, selected, published, beats >>

\* A provider raised: back to the queue, or FAILED on the last attempt, which
\* also moves the candidate, whatever it is doing now.
EvaluationAttemptFails(p, c, r) ==
    /\ worker[p] = Busy("EVALUATING", c, r)
    /\ Holds(run[c][r], p)
    /\ IF run[c][r].attempts >= MaxAttempts
       THEN /\ run' = [run EXCEPT ![c][r] = Released(@, "FAILED")]
            /\ candidate' = [candidate EXCEPT ![c] = Moved(@, "EVALUATING", "BLOCKED")]
            /\ blockers' = [blockers EXCEPT ![c] =
                               Blocked(@, "EVALUATION_PROVIDER_FAILED", 0)]
       ELSE /\ run' = [run EXCEPT ![c][r] = Released(@, "QUEUED")]
            /\ UNCHANGED << candidate, blockers >>
    /\ worker' = [worker EXCEPT ![p] = Idle]
    /\ UNCHANGED << gate, decision, approval, operation, version, selected, published, beats >>

\* The completing transaction may still take the results.
AcceptsEvidence(row) ==
    row.stage = "EVALUATING" /\ row.status \notin MutationStopStatuses

\* A late answer whose results are stored before the lifecycle is looked at.
LateAnswerStored(p, c, r) ==
    /\ worker[p] = Busy("EVALUATING", c, r)
    /\ Holds(run[c][r], p)
    /\ ~AcceptsEvidence(candidate[c])
    /\ run' = [run EXCEPT ![c][r] = Released(@, "SUCCEEDED")]
    /\ candidate' = [candidate EXCEPT ![c].snapshot = Evidence(c) \cup {r},
                                     ![c].revision = @ + 1]
    /\ worker' = [worker EXCEPT ![p] = Idle]
    /\ UNCHANGED << gate, blockers, decision, approval, operation,
                    version, selected, published, beats >>

\* The results came too late: the run is recorded as failed, nothing else.
EvaluationAnswerRejected(p, c, r) ==
    /\ worker[p] = Busy("EVALUATING", c, r)
    /\ Holds(run[c][r], p)
    /\ ~AcceptsEvidence(candidate[c])
    /\ run' = [run EXCEPT ![c][r] = Released(@, "FAILED")]
    /\ worker' = [worker EXCEPT ![p] = Idle]
    /\ UNCHANGED << candidate, gate, blockers, decision, approval, operation,
                    version, selected, published, beats >>

\* The results are stored with what the gate engine made of them.
StoreResults(c, r, g, bs, dec) ==
    /\ run' = [run EXCEPT ![c][r] = Released(@, "SUCCEEDED")]
    /\ gate' = [gate EXCEPT ![c] = g]
    /\ blockers' = [blockers EXCEPT ![c] = bs]
    /\ decision' = [decision EXCEPT ![c] = dec]

\* The gate engine says g of the evidence.  An autonomous candidate that became
\* ELIGIBLE and ACTIVE is promoted in the same transaction, and a refused
\* promotion undoes all of it: the run stays RUNNING under its lease.
CompletesWith(c, r, g) ==
    LET evidence == Evidence(c) \cup {r}
        row == GatedRow(candidate[c], blockers[c], g, evidence)
        bs == Regated(blockers[c], g)
        dec == GatedDecision(decision[c], candidate[c], g, evidence)
        usable == Usable(approval[c], row, dec)
        queues == c \in Autonomous /\ g = "ELIGIBLE" /\ row.status = "ACTIVE"
        mayQueue == MayQueue(row, operation[c], bs, dec, evidence, usable)
    IN  \/ /\ ~queues
           /\ StoreResults(c, r, g, bs, dec)
           /\ candidate' = [candidate EXCEPT ![c] = row]
           /\ UNCHANGED << operation, approval >>
        \/ /\ queues /\ ~mayQueue
           /\ UNCHANGED << rows, run, operation, approval >>
        \/ /\ queues /\ mayQueue
           /\ StoreResults(c, r, g, bs, dec)
           /\ \E o \in Operation :
                 /\ NextFree(operation[c], o)
                 /\ operation' = [operation EXCEPT ![c][o] =
                                     NewOperation(row, dec, Oldest(usable))]
           /\ approval' = [approval EXCEPT ![c] = Consumed(@, Oldest(usable))]
           /\ candidate' = [candidate EXCEPT ![c] =
                               Moved(row, "ELIGIBLE", "PROMOTION_PENDING")]

\* The completing transaction of an attempt that measured something.
EvaluationCompletes(p, c, r) ==
    /\ worker[p] = Busy("EVALUATING", c, r)
    /\ Holds(run[c][r], p)
    /\ AcceptsEvidence(candidate[c])
    /\ \E g \in Verdict : CompletesWith(c, r, g)
    /\ worker' = [worker EXCEPT ![p] = Idle]
    /\ UNCHANGED << version, selected, published, beats >>

\* The run was taken over, retried or dead-lettered meanwhile.
EvaluationAnswerIgnored(p, c, r) ==
    /\ worker[p] = Busy("EVALUATING", c, r)
    /\ ~Holds(run[c][r], p)
    /\ worker' = [worker EXCEPT ![p] = Idle]
    /\ UNCHANGED << candidate, gate, blockers, run, decision, approval,
                    operation, version, selected, published, beats >>

(***************************************************************************)
(* A worker's registry attempt: claim, publish outside the database, and   *)
(* one completing transaction.                                             *)
(***************************************************************************)
Token(c, o) == << c, operation[c][o].decision >>

ClaimOperation(p, c, o) ==
    /\ worker[p] = Idle
    /\ Claimable(operation[c][o])
    /\ operation' = [operation EXCEPT ![c][o] = Claimed(@, IdOf[p])]
    /\ worker' = [worker EXCEPT ![p] = Busy("PUBLISHING", c, o)]
    /\ UNCHANGED << candidate, gate, blockers, run, decision, approval,
                    version, selected, published, beats >>

\* The external registry answers: it holds the token, published now or before.
Publish(p, c, o) ==
    /\ worker[p] = Busy("PUBLISHING", c, o)
    /\ published' = published \cup {Token(c, o)}
    /\ worker' = [worker EXCEPT ![p] = Busy("PUBLISHED", c, o)]
    /\ UNCHANGED << candidate, gate, blockers, run, decision, approval,
                    operation, version, selected, beats >>

\* It published the token, but the worker sees an error instead of the answer.
PublicationAnswerLost(p, c, o) ==
    /\ worker[p] = Busy("PUBLISHING", c, o)
    /\ Token(c, o) \notin published
    /\ published' = published \cup {Token(c, o)}
    /\ UNCHANGED << candidate, gate, blockers, run, decision, approval,
                    operation, version, selected, worker, beats >>

\* A completion that does not look at the candidate at all.
ActivationAlways(row, op) == TRUE

\* state_matches: the row still is what the promotion approved.
ActivationMatches(row, op) ==
    /\ row.stage = "ELIGIBLE"
    /\ row.status = "PROMOTION_PENDING"
    /\ row.snapshot = op.snapshot
    /\ IsTransition(LifecycleStages, row.stage, "PROMOTED")

\* A version numbered by how many there are.
NewVersionUnnumbered(c, o) ==
    [number |-> Cardinality(version[c]), decision |-> operation[c][o].decision, operation |-> o,
     snapshot |-> operation[c][o].snapshot]

\* The version this operation creates, and those its token already has.
NewVersion(c, o) ==
    [number |-> Cardinality(version[c]) + 1,
     decision |-> operation[c][o].decision,
     operation |-> o,
     snapshot |-> operation[c][o].snapshot]
VersionsOfToken(c, o) == {v \in version[c] : v.decision = operation[c][o].decision}

\* Activation: the version is created unless the token has one, the agent
\* selects it, the candidate is PROMOTED and, if autonomous, MONITORED.
ActivationSucceeds(p, c, o) ==
    /\ worker[p] = Busy("PUBLISHED", c, o)
    /\ Holds(operation[c][o], p)
    /\ ActivationMatches(candidate[c], operation[c][o])
    /\ operation' = [operation EXCEPT ![c][o] = Released(@, "SUCCEEDED")]
    /\ \E v \in IF VersionsOfToken(c, o) # {} THEN VersionsOfToken(c, o)
                ELSE {NewVersion(c, o)} :
          /\ version' = [version EXCEPT ![c] = @ \cup {v}]
          /\ selected' = [selected EXCEPT ![c] = v.number]
    /\ candidate' = [candidate EXCEPT ![c] =
                        IF c \in Autonomous
                        THEN Moved(Moved(@, "PROMOTED", "ACTIVE"), "MONITORED", "ACTIVE")
                        ELSE Moved(@, "PROMOTED", "ACTIVE")]
    /\ worker' = [worker EXCEPT ![p] = Idle]
    /\ UNCHANGED << gate, blockers, run, decision, approval, published, beats >>

\* The registry succeeded but the approved state is gone: nothing is promoted.
ActivationRejected(p, c, o) ==
    /\ worker[p] = Busy("PUBLISHED", c, o)
    /\ Holds(operation[c][o], p)
    /\ ~ActivationMatches(candidate[c], operation[c][o])
    /\ operation' = [operation EXCEPT ![c][o] = Released(@, "FAILED")]
    /\ candidate' = [candidate EXCEPT ![c] =
          Moved(@, IF @.stage \in {"ELIGIBLE", "SHADOW"} THEN "ELIGIBLE" ELSE @.stage,
                "BLOCKED")]
    /\ blockers' = [blockers EXCEPT ![c] =
                       Blocked(@, "REGISTRY_COMPLETION_STATE_MISMATCH", o)]
    /\ worker' = [worker EXCEPT ![p] = Idle]
    /\ UNCHANGED << gate, run, decision, approval, version, selected, published, beats >>

\* publish raised.  Terminal errors and the last attempt end the operation.
ActivationFails(p, c, o) ==
    /\ worker[p] = Busy("PUBLISHING", c, o)
    /\ Holds(operation[c][o], p)
    /\ \/ /\ operation' = [operation EXCEPT ![c][o] = Released(@, "FAILED")]
          /\ candidate' = [candidate EXCEPT ![c] = Moved(@, "ELIGIBLE", "BLOCKED")]
          /\ blockers' = [blockers EXCEPT ![c] =
                             Blocked(@, "REGISTRY_OPERATION_FAILED", o)]
       \/ /\ operation[c][o].attempts < MaxAttempts
          /\ operation' = [operation EXCEPT ![c][o] = Released(@, "QUEUED")]
          /\ UNCHANGED << candidate, blockers >>
    /\ worker' = [worker EXCEPT ![p] = Idle]
    /\ UNCHANGED << gate, run, decision, approval, version, selected, published, beats >>

\* The operation succeeded, was taken over, retried or dead-lettered meanwhile.
ActivationAnswerIgnored(p, c, o) ==
    /\ worker[p] \in {Busy("PUBLISHING", c, o), Busy("PUBLISHED", c, o)}
    /\ ~Holds(operation[c][o], p)
    /\ worker' = [worker EXCEPT ![p] = Idle]
    /\ UNCHANGED << candidate, gate, blockers, run, decision, approval,
                    operation, version, selected, published, beats >>

(***************************************************************************)
(* Dead letters: one transaction fails exhausted runs R, then exhausted    *)
(* operations O (rows another transaction holds are skipped, so any of     *)
(* them), and moves their candidates wherever they are.                    *)
(***************************************************************************)
ExhaustedRuns == {x \in Candidate \X Run : Exhausted(run[x[1]][x[2]])}
ExhaustedOperations == {x \in Candidate \X Operation : Exhausted(operation[x[1]][x[2]])}

\* The rows of R or O that belong to candidate c.
Of(R, c) == {x[2] : x \in {y \in R : y[1] = c}}

DeadLetteredRow(row, Rs, Os) ==
    IF Rs = {} /\ Os = {} THEN row
    ELSE [row EXCEPT !.stage = IF Os # {} THEN "ELIGIBLE" ELSE "EVALUATING",
                     !.status = "BLOCKED",
                     !.revision = @ + Cardinality(Rs) + Cardinality(Os)]

DeadLetteredBlockers(bs, Rs, Os) ==
    LET afterRuns == IF Rs = {} THEN bs
                     ELSE Blocked(bs, "EVALUATION_RETRIES_EXHAUSTED", 0)
    IN  IF Os = {} THEN afterRuns
        ELSE Blocked(afterRuns, "REGISTRY_RETRIES_EXHAUSTED", CHOOSE o \in Os : TRUE)

DeadLetter(p) ==
    /\ worker[p] = Idle
    /\ \E R \in SUBSET ExhaustedRuns, O \in SUBSET ExhaustedOperations :
          /\ R \cup O # {}
          /\ run' = [c \in Candidate |-> [r \in Run |->
                IF r \in Of(R, c) THEN Released(run[c][r], "FAILED") ELSE run[c][r]]]
          /\ operation' = [c \in Candidate |-> [o \in Operation |->
                IF o \in Of(O, c) THEN Released(operation[c][o], "FAILED")
                ELSE operation[c][o]]]
          /\ candidate' = [c \in Candidate |->
                DeadLetteredRow(candidate[c], Of(R, c), Of(O, c))]
          /\ blockers' = [c \in Candidate |->
                DeadLetteredBlockers(blockers[c], Of(R, c), Of(O, c))]
    /\ UNCHANGED << gate, decision, approval, version, selected, published, worker, beats >>

(***************************************************************************)
(* Time and failures.  Nothing compares the deadline of a finished row, so *)
(* only that of an unfinished one passes.                                  *)
(***************************************************************************)
RunLeaseExpires(c, r) ==
    /\ run[c][r].status \in Unfinished /\ run[c][r].lease = "LIVE"
    /\ run' = [run EXCEPT ![c][r].lease = "EXPIRED"]
    /\ UNCHANGED << rows, approval, operation, version, selected, published, worker, beats >>

OperationLeaseExpires(c, o) ==
    /\ operation[c][o].status \in Unfinished /\ operation[c][o].lease = "LIVE"
    /\ operation' = [operation EXCEPT ![c][o].lease = "EXPIRED"]
    /\ UNCHANGED << rows, approval, run, version, selected, published, worker, beats >>

LeaseExpires(c) ==
    \/ \E r \in Run : RunLeaseExpires(c, r)
    \/ \E o \in Operation : OperationLeaseExpires(c, o)

(***************************************************************************)
(* LeaseHeartbeat, a thread beside the attempt.  It reads the row without  *)
(* a lock and decides by what it reads; then it writes the deadline,       *)
(* whatever the row has become.  The worker waits two seconds for it, so   *)
(* the write may find the row released, claimed again, or finished.        *)
(***************************************************************************)
BeatReadsRun(p, c, r) ==
    /\ worker[p] = Busy("EVALUATING", c, r)
    /\ run[c][r].status = "RUNNING" /\ Holds(run[c][r], p)
    /\ Cardinality(beats) < MaxBeats
    /\ beats' = beats \cup {Busy("EVALUATING", c, r)}
    /\ UNCHANGED << rows, run, approval, operation, version, selected, published, worker >>

BeatReadsOperation(p, c, o) ==
    /\ worker[p] \in {Busy("PUBLISHING", c, o), Busy("PUBLISHED", c, o)}
    /\ operation[c][o].status = "RUNNING" /\ Holds(operation[c][o], p)
    /\ Cardinality(beats) < MaxBeats
    /\ beats' = beats \cup {Busy("PUBLISHING", c, o)}
    /\ UNCHANGED << rows, run, approval, operation, version, selected, published, worker >>

BeatWritesRun(c, r) ==
    /\ Busy("EVALUATING", c, r) \in beats
    /\ run' = [run EXCEPT ![c][r] = Renewed(@)]
    /\ beats' = beats \ {Busy("EVALUATING", c, r)}
    /\ UNCHANGED << rows, approval, operation, version, selected, published, worker >>

BeatWritesOperation(c, o) ==
    /\ Busy("PUBLISHING", c, o) \in beats
    /\ operation' = [operation EXCEPT ![c][o] = Renewed(@)]
    /\ beats' = beats \ {Busy("PUBLISHING", c, o)}
    /\ UNCHANGED << rows, run, approval, version, selected, published, worker >>

\* The thread ends without its write: with its process, or by a lost connection.
BeatLost(b) ==
    /\ b \in beats
    /\ beats' = beats \ {b}
    /\ UNCHANGED << rows, run, approval, operation, version, selected, published, worker >>

\* The process dies, or an iteration of its loop fails: its work is forgotten.
WorkerCrash(p) ==
    /\ worker[p] # Idle
    /\ worker' = [worker EXCEPT ![p] = Idle]
    /\ UNCHANGED << candidate, gate, blockers, run, decision, approval,
                    operation, version, selected, published, beats >>

(***************************************************************************)
(* The read side.  GET /candidates/{id} shows whether a candidate could be *)
(* promoted; project_promotion_eligibility computes it with queries of its *)
(* own, apart from queue_promotion's.  The candidate row is the first      *)
(* thing a request reads, so the operators take the row it has read.       *)
(***************************************************************************)
SnapshotCurrent(row, c) ==
    /\ decision[c].id # 0
    /\ decision[c].snapshot = Evidence(c)
    /\ row.snapshot = Evidence(c)

AvailableApprovals(row, c) ==
    IF SnapshotCurrent(row, c)
    THEN {a \in Approval : /\ approval[c][a].decision = decision[c].id
                           /\ approval[c][a].snapshot = Evidence(c)
                           /\ ~approval[c][a].revoked /\ ~approval[c][a].consumed}
    ELSE {}

ProjectedEligible(row, c) ==
    /\ gate[c] = "ELIGIBLE"
    /\ SnapshotCurrent(row, c)
    /\ blockers[c] = {}
    /\ row.stage \in {"ELIGIBLE", "SHADOW"}
    /\ row.status # "PROMOTION_PENDING"
    /\ \A o \in Operation : operation[c][o].status \notin Unfinished
    /\ RequiredApprovals = 0 \/ Cardinality(AvailableApprovals(row, c)) >= RequiredApprovals

(***************************************************************************)
(* The specification.                                                      *)
(***************************************************************************)
Command(c) ==
    \/ Evaluate(c) \/ PromotionCheck(c) \/ CreateApproval(c) \/ Promote(c)
    \/ \E a \in Approval : RevokeApproval(c, a)
    \/ \E o \in Operation : RetryOperation(c, o)

\* The transaction that ends an attempt, or the registry's answer to it.
EvaluationStep(p, c, r) ==
    \/ EvaluationAttemptFails(p, c, r) \/ EvaluationAnswerRejected(p, c, r)
    \/ EvaluationCompletes(p, c, r) \/ EvaluationAnswerIgnored(p, c, r)

ActivationStep(p, c, o) ==
    \/ Publish(p, c, o) \/ ActivationSucceeds(p, c, o) \/ ActivationRejected(p, c, o)
    \/ ActivationFails(p, c, o) \/ ActivationAnswerIgnored(p, c, o)

AttemptStep(p) ==
    \E c \in Candidate :
        \/ \E r \in Run : EvaluationStep(p, c, r)
        \/ \E o \in Operation : ActivationStep(p, c, o)

Claim(p) ==
    \E c \in Candidate :
        \/ \E r \in Run : ClaimRun(p, c, r)
        \/ \E o \in Operation : ClaimOperation(p, c, o)

Heartbeat ==
    \/ \E p \in Worker, c \in Candidate :
          \/ \E r \in Run : BeatReadsRun(p, c, r)
          \/ \E o \in Operation : BeatReadsOperation(p, c, o)
    \/ \E c \in Candidate :
          \/ \E r \in Run : BeatWritesRun(c, r)
          \/ \E o \in Operation : BeatWritesOperation(c, o)
    \/ \E b \in beats : BeatLost(b)

Environment ==
    \/ \E c \in Candidate : LeaseExpires(c)
    \/ \E p \in Worker : WorkerCrash(p)
    \/ \E p \in Worker, c \in Candidate, o \in Operation : PublicationAnswerLost(p, c, o)
    \/ Heartbeat

Next ==
    \/ \E c \in Candidate : Command(c)
    \/ \E p \in Worker : Claim(p) \/ AttemptStep(p) \/ DeadLetter(p)
    \/ Environment

Spec == Init /\ [][Next]_vars

\* The worker loop runs dead letters, then one evaluation, then one registry
\* operation, for ever; its provider calls return; deadlines pass.  Nobody is
\* obliged to send a command, and a crash is never obliged to happen.
Fairness ==
    /\ \A p \in Worker : WF_vars(AttemptStep(p))
    /\ WF_vars(\E p \in Worker : DeadLetter(p))
    /\ WF_vars(\E p \in Worker : Claim(p))
    /\ \A c \in Candidate : WF_vars(LeaseExpires(c))

FairSpec == Spec /\ Fairness

(***************************************************************************)
(* Properties.                                                             *)
(***************************************************************************)
OperationRow == [status : WorkStatus, attempts : 0..MaxAttempts,
                 owner : WorkerId \cup {NoOwner}, lease : LeaseState,
                 decision : Nat, snapshot : SUBSET Run, approvals : SUBSET Approval]
CandidateRow == [stage : StageName, status : StatusName,
                 revision : Nat, snapshot : SUBSET Run]
BlockerRow == [code : BlockerCode, operation : Nat]
DecisionRow == [id : Nat, snapshot : SUBSET Run]
ApprovalRow == [decision : Nat, snapshot : SUBSET Run,
                revoked : BOOLEAN, consumed : BOOLEAN]
VersionRow == [number : Nat, decision : Nat, operation : Operation, snapshot : SUBSET Run]

TypeOK ==
    /\ candidate \in [Candidate -> CandidateRow]
    /\ gate \in [Candidate -> Verdict]
    /\ blockers \in [Candidate -> SUBSET BlockerRow]
    /\ run \in [Candidate -> [Run -> WorkRow]]
    /\ decision \in [Candidate -> DecisionRow]
    /\ approval \in [Candidate -> [Approval -> ApprovalRow]]
    /\ operation \in [Candidate -> [Operation -> OperationRow]]
    /\ version \in [Candidate -> SUBSET VersionRow]
    /\ selected \in [Candidate -> Nat]
    /\ published \subseteq Candidate \X Nat
    /\ worker \in [Worker -> {Idle} \cup
          [task : Tasks, candidate : Candidate, work : Run \cup Operation]]
    /\ beats \subseteq [task : Tasks, candidate : Candidate, work : Run \cup Operation]

Unresolved(c) == {o \in Operation :
                    operation[c][o].status \in {"QUEUED", "RUNNING", "FAILED"}}

\* A candidate never has two registry operations that may still publish: not
\* two active ones, and none beside a failed one that a retry may revive.
\* retry_registry_operation does not look for another active operation, so
\* this rests on the blocker a failure leaves and queue_promotion's guards.
OneUnresolvedOperation ==
    \A c \in Candidate : \A o1, o2 \in Unresolved(c) : o1 = o2

\* While an operation is failed its candidate keeps a registry blocker naming
\* it, through every later evaluation, promotion check and dead letter: the
\* blocker is what keeps queue_promotion from a second operation.
FailedOperationBlocks ==
    \A c \in Candidate : \A o \in Operation :
        operation[c][o].status = "FAILED" =>
            \E b \in blockers[c] : b.code \in RegistryBlockerCodes /\ b.operation = o

\* A registry blocker never outlives the failure it is about: the operation it
\* names exists and is still failed, whatever was retried, claimed again or
\* dead-lettered since.  (A stale one would stop the next failure of another
\* operation from being recorded, since a code is only raised once.)
RegistryBlockersAreCurrent ==
    \A c \in Candidate : \A b \in blockers[c] :
        b.code \in RegistryBlockerCodes =>
            /\ b.operation \in Operation
            /\ operation[c][b.operation].status = "FAILED"

\* A pending candidate is never left without an operation that will decide it,
\* and the evidence the operation was approved on stays the current evidence
\* and stays eligible until then (complete_registry_success compares neither
\* the evidence nor the readiness again, only the stored hash).
PendingIsBacked ==
    \A c \in Candidate :
        candidate[c].status = "PROMOTION_PENDING" =>
            /\ candidate[c].stage = "ELIGIBLE"
            /\ gate[c] = "ELIGIBLE"
            /\ \E o \in Operation :
                  /\ operation[c][o].status \in Unfinished
                  /\ operation[c][o].snapshot = candidate[c].snapshot
                  /\ operation[c][o].snapshot = Evidence(c)
            /\ HasCurrentDecision(candidate[c], decision[c])

\* A candidate shown ELIGIBLE and ACTIVE rests on evidence: it passes, nothing
\* blocks it, and the latest decision is about the evidence it has now.  (That
\* is not all queue_promotion asks: it still wants the approvals, and no
\* unfinished operation.  There is one when a stale run failed under a queued
\* operation and a promotion check then found the candidate eligible again.)
EligibleRestsOnEvidence ==
    \A c \in Candidate :
        candidate[c].stage = "ELIGIBLE" /\ candidate[c].status = "ACTIVE" =>
            /\ gate[c] = "ELIGIBLE"
            /\ blockers[c] = {}
            /\ HasCurrentDecision(candidate[c], decision[c])
            /\ candidate[c].snapshot = Evidence(c)

\* queue_promotion never reuses a publication token: when all its checks pass
\* no operation was made for the same decision.  (The token column is unique,
\* so a reuse would be an unhandled database error.)
PromotionTokenIsFresh ==
    \A c \in Candidate :
        MayQueue(candidate[c], operation[c], blockers[c], decision[c], Evidence(c),
                 Usable(approval[c], candidate[c], decision[c])) =>
            \A o \in Operation :
                operation[c][o].status # "NONE" =>
                    operation[c][o].decision # decision[c].id

\* The detail page shows a candidate as promotable exactly when the promote
\* command would accept it ("the same exact snapshot, approval, blocker, and
\* lease rules as promotion", application/promotion.py:80).  The page computes
\* the readiness again, the command relies on the decision that recorded it.
ProjectionAgrees ==
    \A c \in Candidate :
        ProjectedEligible(candidate[c], c) <=>
            MayQueue(candidate[c], operation[c], blockers[c], decision[c], Evidence(c),
                     Usable(approval[c], candidate[c], decision[c]))

\* Every version comes from a succeeded operation whose token the external
\* registry holds, carries that operation's approved snapshot, and spent
\* exactly the required approvals, each of that decision and none revoked.
VersionsAreEarned ==
    \A c \in Candidate : \A v \in version[c] :
        LET op == operation[c][v.operation]
        IN  /\ op.status = "SUCCEEDED"
            /\ v.decision = op.decision
            /\ v.snapshot = op.snapshot
            /\ << c, v.decision >> \in published
            /\ Cardinality(op.approvals) = RequiredApprovals
            /\ \A a \in op.approvals :
                  /\ approval[c][a].decision = op.decision
                  /\ approval[c][a].snapshot = op.snapshot
                  /\ approval[c][a].consumed
                  /\ ~approval[c][a].revoked

\* However often a publication is reclaimed or retried, its token yields one
\* version: versions and succeeded operations correspond one to one, versions
\* are numbered without gap or repetition, the agent selects the newest one.
OneVersionPerToken ==
    \A c \in Candidate :
        /\ \A v, w \in version[c] :
              v.decision = w.decision \/ v.operation = w.operation => v = w
        /\ \A o \in Operation :
              operation[c][o].status = "SUCCEEDED" =>
                  \E v \in version[c] : v.operation = o
        /\ {v.number : v \in version[c]} = 1..Cardinality(version[c])
        /\ selected[c] = Cardinality(version[c])

\* PROMOTED and MONITORED are reached through the registry only: the agent then
\* selects a version, made of the snapshot the candidate row still carries.
PromotedIsSelected ==
    \A c \in Candidate :
        candidate[c].stage \in MutationStopStages =>
            \E v \in version[c] :
                v.number = selected[c] /\ v.snapshot = candidate[c].snapshot

\* An approval is spent by one operation at most, and a spent approval is never
\* a revoked one, in whichever order reviewer and promotion arrive.
ApprovalsSpentOnce ==
    \A c \in Candidate : \A a \in Approval :
        LET spenders == {o \in Operation : a \in operation[c][o].approvals}
        IN  /\ \A o1, o2 \in spenders : o1 = o2
            /\ approval[c][a].consumed <=> spenders # {}
            /\ ~(approval[c][a].consumed /\ approval[c][a].revoked)

\* A row has an owner exactly while it is RUNNING, so the owner alone tells a
\* late completion that its attempt is over; a RUNNING row has a deadline, so
\* nobody else claims it at once; a QUEUED row has an attempt left, so a retry
\* is never dead-lettered untried.  Late heartbeats change none of it.
OwnedWhileRunning ==
    \A c \in Candidate :
        /\ \A r \in Run : OwnedRow(run[c][r])
        /\ \A o \in Operation : OwnedRow(operation[c][o])

\* What a reviewer decides on (row, blockers, decision, approvals) never
\* changes without the revision growing, whoever changes it: a command sent
\* from an outdated view cannot find the revision it expects.
RevisionSeesEveryChange ==
    [][\A c \in Candidate :
          \/ candidate'[c].revision > candidate[c].revision
          \/ UNCHANGED << candidate[c], blockers[c], decision[c], approval[c] >>]_vars

\* What was published, promoted, consumed or revoked stays so: a succeeded
\* operation and a finished run keep everything but the deadline, which a late
\* heartbeat may still write; versions are only added; an approval that was
\* consumed or revoked is never usable again.
HistoryIsPermanent ==
    [][/\ published \subseteq published'
       /\ \A c \in Candidate :
            /\ version[c] \subseteq version'[c]
            /\ \A o \in Operation :
                  operation[c][o].status = "SUCCEEDED" =>
                      operation'[c][o] \in {operation[c][o], Renewed(operation[c][o])}
            /\ \A r \in Run :
                  run[c][r].status \in {"SUCCEEDED", "FAILED"} =>
                      run'[c][r] \in {run[c][r], Renewed(run[c][r])}
            /\ \A a \in Approval :
                  approval[c][a].consumed \/ approval[c][a].revoked =>
                      UNCHANGED approval[c][a]]_vars

\* A version appears only in the step that ends a pending promotion of the
\* candidate, on evidence that step did not change.
VersionEndsPendingPromotion ==
    [][\A c \in Candidate :
          version'[c] # version[c] =>
              /\ candidate[c].status = "PROMOTION_PENDING"
              /\ candidate'[c].stage \in MutationStopStages
              /\ \A v \in version'[c] \ version[c] :
                    gate[c] = "ELIGIBLE" /\ v.snapshot = Evidence(c)]_vars

\* A pending promotion is decided, through any crashes, lease expiries and
\* lost answers: attempts are bounded and dead letters end the last one.
PendingIsDecided ==
    \A c \in Candidate :
        candidate[c].status = "PROMOTION_PENDING" ~>
            candidate[c].status # "PROMOTION_PENDING"

\* Every queued evaluation run ends.
RunsEnd ==
    \A c \in Candidate, r \in Run :
        run[c][r].status \in Unfinished ~> run[c][r].status \in {"SUCCEEDED", "FAILED"}

(***************************************************************************)
(* What the documents say and the code does not keep.                      *)
(***************************************************************************)
\* docs/PROMOTION_MODEL.md, the note on Pending: while the publication is
\* queued or running the stage remains ELIGIBLE, the status PROMOTION_PENDING.
QueuedPublicationKeepsPending ==
    \A c \in Candidate : \A o \in Operation :
        operation[c][o].status \in Unfinished =>
            candidate[c].stage = "ELIGIBLE" /\ candidate[c].status = "PROMOTION_PENDING"

\* The recovery texts of the fixtures' blockers: "Run thirteen more quality
\* cases", "Reduce latency and rerun the active plan" (infrastructure/seed.py:670
\* and 697).  Once a rerun has made the evidence eligible, none is left.
RerunLiftsFixtureBlocker ==
    [][\A c \in Candidate :
          gate'[c] = "ELIGIBLE" /\ Evidence(c)' # Evidence(c) =>
              \A b \in blockers'[c] : b.code \notin FixtureBlockerCodes]_vars

\* What the code does instead: a fixture's blocker is for good.  It clears derived
\* and registry blockers only, so no rerun, promotion check, retry or dead letter
\* lifts this one, and its candidate is never queued for promotion.
FixtureBlockersStay ==
    [][\A c \in Candidate : \A b \in blockers[c] :
          b.code \in FixtureBlockerCodes =>
              /\ b \in blockers'[c]
              /\ \A o \in Operation :
                    operation[c][o].status = "NONE" => operation'[c][o].status = "NONE"]_vars
=============================================================================
