----------------------------- MODULE Transactions -----------------------------
(***************************************************************************)
(* The transactions on registry operations, lock by lock: claims,          *)
(* completions, dead letters and the lease heartbeat (worker/service.py),  *)
(* promotion and retry (application/promotion.py), under READ COMMITTED.   *)
(* ControlPlane takes each of them as one step; here they wait for each    *)
(* other's rows, in orders that are not always the same, and PostgreSQL    *)
(* aborts one of those that wait in a circle.                              *)
(*                                                                         *)
(* One candidate has one operation, the newest.  Not here: locks nobody    *)
(* can wait for out of order, which are the idempotency key (first of a    *)
(* request), approvals, blockers and the agent (under the candidate's      *)
(* lock), an evaluation run (its worker's alone); and the maintenance lock *)
(* (DemoCycle).                                                            *)
(***************************************************************************)
EXTENDS Leases, Sequences

CONSTANTS
    Candidate,
    Abandoned,     \* those whose last attempt lost its worker
    EligibleAgain, \* those an evaluation has made ELIGIBLE meanwhile
    Session,      \* connections of API requests and of evaluation work
    Free,         \* a lock nobody holds
    MaxCommands   \* bound: transactions of the sessions

Process == Worker \cup Session

ASSUME ProcessAssumption == Worker \cap Session = {} /\ Free \notin Process
ASSUME StartAssumption ==
    Abandoned \subseteq Candidate /\ EligibleAgain \subseteq Candidate
ASSUME CommandAssumption == MaxCommands \in Nat

VARIABLES
    operation,   \* the committed row of each candidate's operation
    candidate,   \* where each candidate stands
    lock,        \* who holds each row's lock, and the event log's
    txn,         \* what each process is in the middle of
    beats,       \* candidates whose operation a heartbeat is about to update
    commands     \* how many transactions the sessions have begun

vars == << operation, candidate, lock, txn, beats, commands >>

OperationOf(c) == << "OPERATION", c >>
Row(c) == << "CANDIDATE", c >>
EventLog == << "EVENTS" >>
Lock == {OperationOf(c) : c \in Candidate} \cup {Row(c) : c \in Candidate} \cup {EventLog}

\* ELIGIBLE is ACTIVE, BLOCKED is an eligible candidate with a registry blocker,
\* EVALUATING is blocked by evidence.
Standing == {"ELIGIBLE", "PROMOTION_PENDING", "BLOCKED", "EVALUATING", "PROMOTED"}

\* A promotion is asked for by a command, or by an autonomous candidate's evaluation.
Promotion == {"PROMOTE", "EVALUATION_PROMOTES"}
SessionKind == Promotion \cup {"RETRY", "CHECK", "EVALUATION_FAILS"}
WorkerKind == {"CLAIM", "PUBLISHING", "COMPLETE", "DEAD_LETTER"}

\* The transaction's kind, the candidates it is about, the locks it still has to
\* ask for, the candidates a dead letter turns to after that, and the registry's
\* answer.  Between two transactions a worker may be at the external registry.
NoTxn == [kind |-> "NONE", on |-> {}, wants |-> << >>, rest |-> {}, answer |-> "NONE"]
InTransaction(p) == txn[p].kind \notin {"NONE", "PUBLISHING"}
Begin(kind, cs, wants) == [NoTxn EXCEPT !.kind = kind, !.on = cs, !.wants = wants]

\* Operations are queued, or their last attempt was abandoned.  A candidate is
\* ELIGIBLE again in spite of that when an evaluation failed meanwhile and a
\* promotion check found the old evidence eligible.
Init ==
    /\ \E p \in Worker :
          operation = [c \in Candidate |->
             IF c \in Abandoned
             THEN [status |-> "RUNNING", attempts |-> MaxAttempts, owner |-> IdOf[p],
                   lease |-> "EXPIRED"]
             ELSE Queued]
    /\ candidate = [c \in Candidate |->
                       IF c \in EligibleAgain THEN "ELIGIBLE" ELSE "PROMOTION_PENDING"]
    /\ lock = [l \in Lock |-> Free]
    /\ txn = [p \in Process |-> NoTxn]
    /\ beats = {}
    /\ commands = 0

(***************************************************************************)
(* Beginning a transaction, and the locks it goes on to ask for, in order. *)
(***************************************************************************)
\* claim_registry_operation: SKIP LOCKED passes over a row that is locked.
PickClaimable(p) ==
    /\ txn[p] = NoTxn
    /\ \E c \in Candidate :
          /\ Claimable(operation[c])
          /\ lock[OperationOf(c)] = Free
          /\ lock' = [lock EXCEPT ![OperationOf(c)] = p]
          /\ txn' = [txn EXCEPT ![p] = Begin("CLAIM", {c}, << EventLog >>)]
    /\ UNCHANGED << operation, candidate, beats, commands >>

\* dead_letter_exhausted_work: every exhausted row that is not locked, then, for
\* one after the other, the candidate and the events.
PickExhausted(p) ==
    LET cs == {c \in Candidate : Exhausted(operation[c]) /\ lock[OperationOf(c)] = Free}
    IN  /\ txn[p] = NoTxn
        /\ cs # {}
        /\ lock' = [l \in Lock |-> IF l \in {OperationOf(c) : c \in cs} THEN p ELSE lock[l]]
        /\ \E c \in cs :
              txn' = [txn EXCEPT ![p] =
                 [Begin("DEAD_LETTER", cs, << Row(c), EventLog >>) EXCEPT !.rest = cs \ {c}]]
        /\ UNCHANGED << operation, candidate, beats, commands >>

\* The registry answers or raises; complete_registry_success or _failure begins.
PublishReturns(p) ==
    /\ txn[p].kind = "PUBLISHING"
    /\ \E c \in txn[p].on, answer \in {"PUBLISHED", "TRANSIENT", "TERMINAL"} :
          txn' = [txn EXCEPT ![p] =
             [Begin("COMPLETE", {c}, << OperationOf(c), Row(c), EventLog >>)
                EXCEPT !.answer = answer]]
    /\ UNCHANGED << operation, candidate, lock, beats, commands >>

\* A retry that locks the candidate before its operation, as a promotion does.
CandidateFirst(kind, c) ==
    CASE kind \in {"RETRY", "PROMOTE"} -> << Row(c), OperationOf(c), EventLog >>
      [] kind = "EVALUATION_PROMOTES" -> << Row(c), EventLog, OperationOf(c) >>
      [] OTHER -> << Row(c), EventLog >>

\* A retry locks the operation first, a promotion the candidate; an evaluation has
\* told of its result by the time it asks for the promotion.
WantedBy(kind, c) ==
    CASE kind = "RETRY" -> << OperationOf(c), Row(c), EventLog >>
      [] kind = "PROMOTE" -> << Row(c), OperationOf(c), EventLog >>
      [] kind = "EVALUATION_PROMOTES" -> << Row(c), EventLog, OperationOf(c) >>
      [] OTHER -> << Row(c), EventLog >>

\* queue_promotion, retry_registry_operation, promotion-check, the failure of an
\* evaluation run's last attempt, and an autonomous one's eligible end.
Request(s) ==
    /\ txn[s] = NoTxn
    /\ commands < MaxCommands
    /\ commands' = commands + 1
    /\ \E kind \in SessionKind, c \in Candidate :
          txn' = [txn EXCEPT ![s] = Begin(kind, {c}, WantedBy(kind, c))]
    /\ UNCHANGED << operation, candidate, lock, beats >>

(***************************************************************************)
(* Locks.                                                                  *)
(***************************************************************************)
Wanted(p) == Head(txn[p].wants)
Asks(p) == txn[p].wants # << >>
Waits(p) == Asks(p) /\ lock[Wanted(p)] \notin {Free, p}
Unlocked(p) == [l \in Lock |-> IF lock[l] = p THEN Free ELSE lock[l]]

\* The early returns of a handler, decided on the row it has just locked; a retry
\* decides when it has both.
Refuses(p, c) ==
    CASE txn[p].kind = "COMPLETE" /\ Wanted(p) = OperationOf(c) -> ~Holds(operation[c], p)
      [] txn[p].kind = "PROMOTE" /\ Wanted(p) = Row(c) -> candidate[c] # "ELIGIBLE"
      [] txn[p].kind \in Promotion /\ Wanted(p) = OperationOf(c) ->
            operation[c].status \in Unfinished
      [] txn[p].kind = "RETRY" /\ Tail(txn[p].wants) = << EventLog >> ->
            ~(operation[c].status = "FAILED" /\ candidate[c] = "BLOCKED")
      [] txn[p].kind \in {"CHECK", "EVALUATION_PROMOTES"} /\ Wanted(p) = Row(c) ->
            candidate[c] \in {"PROMOTION_PENDING", "PROMOTED"}
      [] OTHER -> FALSE

\* The query of queue_promotion locks an unfinished operation only.
Passes(p, c) ==
    /\ \/ txn[p].kind = "PROMOTE" /\ Wanted(p) = Row(c)
       \/ txn[p].kind = "EVALUATION_PROMOTES" /\ Wanted(p) = EventLog
    /\ operation[c].status \notin Unfinished

\* A lock is granted, and the handler goes on; a dead letter to its next candidate.
Acquire(p) ==
    /\ Asks(p) /\ ~Waits(p)
    /\ \A c \in txn[p].on : ~Refuses(p, c)
    /\ lock' = [lock EXCEPT ![Wanted(p)] = p]
    /\ \/ /\ \E c \in txn[p].on : Passes(p, c)
          /\ txn' = [txn EXCEPT ![p].wants = Tail(Tail(@))]
       \/ /\ \A c \in txn[p].on : ~Passes(p, c)
          /\ Tail(txn[p].wants) = << >> => txn[p].rest = {}
          /\ txn' = [txn EXCEPT ![p].wants = Tail(@)]
       \/ /\ Tail(txn[p].wants) = << >>
          /\ \E c \in txn[p].rest :
                txn' = [txn EXCEPT ![p].wants = << Row(c), EventLog >>, ![p].rest = @ \ {c}]
    /\ UNCHANGED << operation, candidate, beats, commands >>

\* An early return that leaves its session open, idle in its transaction.
LeftOpen(p) == lock

\* The session of an early return is closed, which rolls it back.
Closed(p) == Unlocked(p)

Return(p) ==
    /\ Asks(p) /\ ~Waits(p)
    /\ \E c \in txn[p].on : Refuses(p, c)
    /\ lock' = Closed(p)
    /\ txn' = [txn EXCEPT ![p] = NoTxn]
    /\ UNCHANGED << operation, candidate, beats, commands >>

\* The transaction is undone.  The worker loop logs the exception and goes on; a
\* request is answered with an error.
Rollback(p) ==
    /\ lock' = Unlocked(p)
    /\ txn' = [txn EXCEPT ![p] = NoTxn]
    /\ UNCHANGED << operation, candidate, beats, commands >>

\* Each of S waits for another of S.
Circle(S) ==
    /\ S # {}
    /\ \A p \in S : Waits(p)
    /\ {lock[Wanted(p)] : p \in S} = S

\* PostgreSQL aborts one of them, any of them.
Abort(p) ==
    /\ \E S \in SUBSET Process : Circle(S) /\ p \in S
    /\ Rollback(p)

\* A worker process is lost in an attempt.  (One lost in a claim or among dead
\* letters leaves nothing behind; a deadlock there is enough of that.)
WorkerLost(p) ==
    /\ txn[p].kind \in {"PUBLISHING", "COMPLETE"}
    /\ Rollback(p)

(***************************************************************************)
(* Commits.                                                                *)
(***************************************************************************)
Terminal(p, op) == txn[p].answer = "TERMINAL" \/ op.attempts >= MaxAttempts

Completed(p, op, standing) ==
    IF txn[p].answer = "PUBLISHED"
    THEN IF standing = "PROMOTION_PENDING"
         THEN [operation |-> Released(op, "SUCCEEDED"), candidate |-> "PROMOTED"]
         ELSE [operation |-> Released(op, "FAILED"),
               candidate |-> IF standing = "EVALUATING" THEN standing ELSE "BLOCKED"]
    ELSE IF Terminal(p, op)
         THEN [operation |-> Released(op, "FAILED"), candidate |-> "BLOCKED"]
         ELSE [operation |-> Released(op, "QUEUED"), candidate |-> standing]

\* What the transaction of p leaves of an operation and its candidate.
Left(p, op, standing) ==
    CASE txn[p].kind = "CLAIM" ->
            [operation |-> Claimed(op, IdOf[p]), candidate |-> standing]
      [] txn[p].kind = "COMPLETE" -> Completed(p, op, standing)
      [] txn[p].kind = "DEAD_LETTER" ->
            [operation |-> Released(op, "FAILED"), candidate |-> "BLOCKED"]
      [] txn[p].kind = "RETRY" ->
            [operation |-> [Released(op, "QUEUED") EXCEPT !.attempts = 0],
             candidate |-> "PROMOTION_PENDING"]
      [] \/ txn[p].kind = "CHECK"
         \/ txn[p].kind = "EVALUATION_PROMOTES" /\ op.status = "FAILED" ->
            [operation |-> op,
             candidate |-> IF op.status = "FAILED" THEN "BLOCKED" ELSE "ELIGIBLE"]
      [] \/ txn[p].kind = "PROMOTE"
         \/ txn[p].kind = "EVALUATION_PROMOTES" /\ op.status # "FAILED" ->
            [operation |-> Queued, candidate |-> "PROMOTION_PENDING"]
      [] txn[p].kind = "EVALUATION_FAILS" -> [operation |-> op, candidate |-> "EVALUATING"]

Commit(p) ==
    /\ InTransaction(p) /\ ~Asks(p)
    /\ operation' = [c \in Candidate |->
          IF c \in txn[p].on THEN Left(p, operation[c], candidate[c]).operation
          ELSE operation[c]]
    /\ candidate' = [c \in Candidate |->
          IF c \in txn[p].on THEN Left(p, operation[c], candidate[c]).candidate
          ELSE candidate[c]]
    /\ lock' = Unlocked(p)
    /\ txn' = [txn EXCEPT ![p] =
          IF @.kind = "CLAIM" THEN Begin("PUBLISHING", @.on, << >>) ELSE NoTxn]
    /\ UNCHANGED << beats, commands >>

(***************************************************************************)
(* The lease heartbeat, a thread beside the publishing worker.  It reads   *)
(* the row without a lock and decides; the write waits for the row's lock, *)
(* and the worker for the thread no more than two seconds.  So the write   *)
(* may come when the attempt is over, and then it is unconditional.        *)
(***************************************************************************)
BeatReads(p) ==
    /\ txn[p].kind = "PUBLISHING"
    /\ \E c \in txn[p].on :
          /\ c \notin beats
          /\ operation[c].status = "RUNNING" /\ Holds(operation[c], p)
          /\ beats' = beats \cup {c}
    /\ UNCHANGED << operation, candidate, lock, txn, commands >>

BeatWrites(c) ==
    /\ c \in beats
    /\ lock[OperationOf(c)] = Free
    /\ operation' = [operation EXCEPT ![c].lease = "LIVE"]
    /\ beats' = beats \ {c}
    /\ UNCHANGED << candidate, lock, txn, commands >>

LeaseExpires(c) ==
    /\ operation[c].lease = "LIVE"
    /\ operation' = [operation EXCEPT ![c].lease = "EXPIRED"]
    /\ UNCHANGED << candidate, lock, txn, beats, commands >>

(***************************************************************************)
(* The specification.                                                      *)
(***************************************************************************)
Statement(p) == Acquire(p) \/ Return(p) \/ Commit(p)

Next ==
    \/ \E p \in Worker : PickClaimable(p) \/ PickExhausted(p) \/ PublishReturns(p)
                         \/ BeatReads(p) \/ WorkerLost(p)
    \/ \E s \in Session : Request(s)
    \/ \E p \in Process : Statement(p) \/ Abort(p)
    \/ \E c \in Candidate : BeatWrites(c) \/ LeaseExpires(c)

Spec == Init /\ [][Next]_vars

\* Locks are queued for, so a lock that is released again and again is granted; a
\* circle is found, provider calls return, workers poll, deadlines pass.  Nobody
\* is obliged to send a request.
FairSpec ==
    /\ Spec
    /\ \A p \in Process : SF_vars(Statement(p))
    /\ WF_vars(\E p \in Process : Abort(p))
    /\ \A p \in Worker : WF_vars(PublishReturns(p))
    /\ WF_vars(\E p \in Worker : PickClaimable(p))
    /\ WF_vars(\E p \in Worker : PickExhausted(p))
    /\ \A c \in Candidate : WF_vars(LeaseExpires(c))

(***************************************************************************)
(* Properties.                                                             *)
(***************************************************************************)
TypeOK ==
    /\ operation \in [Candidate -> WorkRow]
    /\ candidate \in [Candidate -> Standing]
    /\ lock \in [Lock -> Process \cup {Free}]
    /\ \A p \in Process :
          /\ txn[p].kind \in {"NONE"} \cup WorkerKind \cup SessionKind
          /\ txn[p].on \subseteq Candidate /\ txn[p].rest \subseteq Candidate
    /\ beats \subseteq Candidate
    /\ commands \in 0..MaxCommands

\* An attempt is ended by the worker whose lease names it, or by a dead letter
\* when the lease has run out, and by nobody else: whatever is committed while
\* a completion waits for the row, it looks at the row again when it has it.
AttemptEndsOnce ==
    [][\A c \in Candidate :
          operation[c].status = "RUNNING" /\ operation'[c].status # "RUNNING" =>
            \E p \in Worker :
               /\ c \in txn[p].on /\ lock[OperationOf(c)] = p
               /\ \/ txn[p].kind = "COMPLETE" /\ operation[c].owner = IdOf[p]
                  \/ txn[p].kind = "DEAD_LETTER" /\ operation[c].lease # "LIVE"]_vars

\* The operation a worker attempts, from its claim's commit to its own end.
Attempting == [p \in Worker |->
    IF txn[p].kind \in {"PUBLISHING", "COMPLETE"} THEN txn[p].on ELSE {}]

Rows == INSTANCE RegistryRows WITH attempt <- Attempting

\* However the transactions wait for each other, interleave and are aborted, each
\* one that commits does so as if it were alone: what it decided on a row it read
\* earlier is still true, and nothing another one wrote is overwritten.
RowsChangeAtomically == Rows!Spec

\* Operations, candidates, events: two kinds of transaction break this order, a
\* dead letter that goes on to its next candidate with the event log's lock, and
\* a promotion that meets an unfinished operation.  Every deadlock has one.
DeadlocksAreKnown ==
    \A S \in SUBSET Process : Circle(S) =>
        \E p \in S : \/ txn[p].kind = "DEAD_LETTER" /\ lock[EventLog] = p
                     \/ /\ txn[p].kind \in Promotion
                        /\ Wanted(p) \in {OperationOf(c) : c \in Candidate}

\* Every operation ends, whatever is aborted to break a deadlock, however late a
\* heartbeat's write, and whoever is lost.
OperationsEnd ==
    \A c \in Candidate :
        operation[c].status \in Unfinished ~> operation[c].status \notin Unfinished
===============================================================================
