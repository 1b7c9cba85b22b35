------------------------------ MODULE DemoCycle ------------------------------
(***************************************************************************)
(* Schedule runs, the autonomous cycle and the demo reset.  API requests   *)
(* enqueue schedule runs under an idempotency receipt, workers lease them  *)
(* and discover and plan one autonomous candidate in two commits, and a    *)
(* reset rebuilds every mutable table under all of it.                     *)
(* application/idempotency.py, schedules.py, demo.py, worker/service.py,   *)
(* infrastructure/seed.py, api/router.py.                                  *)
(*                                                                         *)
(* A schedule run is named by its key and by the epoch it was made in: its *)
(* job and trigger_idempotency_key are unique, its id is a fresh UUID.  A  *)
(* transaction that is still open shows where it holds table locks or an   *)
(* advisory lock another one waits for.                                    *)
(***************************************************************************)
EXTENDS Leases, FiniteSets

CONSTANTS
    CycleKey,    \* idempotency keys of demo cycles
    TriggerKey,  \* idempotency keys of plain schedule triggers
    ResetKey     \* idempotency keys of demo resets

ASSUME KeyAssumption == CycleKey \cap TriggerKey = {}

Key == CycleKey \cup TriggerKey

VARIABLES
    epoch,      \* resets committed so far
    run,        \* the schedule run of each key in this epoch
    receipt,    \* receipts of enqueuing requests: the epoch of the run they name
    resetDone,  \* reset keys with a receipt
    request,    \* how far the open request of each key is
    reset,      \* the open reset, and the receipts its DELETE saw
    candidate,  \* the autonomous candidate
    worker,     \* the schedule run each worker process is busy with
    beats       \* keys whose run a heartbeat has read and is about to write

vars == << epoch, run, receipt, resetDone, request, reset, candidate, worker,
           beats >>

Idle == [phase |-> "IDLE"]
Busy(phase, k, e) == [phase |-> phase, key |-> k, epoch |-> e]
NoReceipt == -1
NoReset == [open |-> FALSE, doomed |-> {}]

Init ==
    /\ epoch = 0
    /\ run = [k \in Key |-> Absent]
    /\ receipt = [k \in Key |-> NoReceipt]
    /\ resetDone = {}
    /\ request = [k \in Key |-> "NONE"]
    /\ reset = [x \in ResetKey |-> NoReset]
    /\ candidate = "NONE"
    /\ worker = [p \in Worker |-> Idle]
    /\ beats = {}

ResetOpen == \E x \in ResetKey : reset[x].open

(***************************************************************************)
(* Enqueuing requests.  prior_response locks the key first, so one request *)
(* of a key is open at a time; one that finds a receipt replays it and     *)
(* changes nothing.                                                        *)
(***************************************************************************)
Lookup(k) ==
    /\ request[k] = "NONE"
    /\ receipt[k] = NoReceipt
    /\ request' = [request EXCEPT ![k] = "CHECKED"]
    /\ UNCHANGED << epoch, run, receipt, resetDone, reset, candidate, worker, beats >>

\* The run, its event and the receipt are written, not yet committed.
Enqueue(k) ==
    /\ request[k] = "CHECKED"
    /\ request' = [request EXCEPT ![k] = "WRITTEN"]
    /\ UNCHANGED << epoch, run, receipt, resetDone, reset, candidate, worker, beats >>

\* A cycle takes over the run the command line may have made for its key.
CommitRequest(k) ==
    /\ request[k] = "WRITTEN"
    /\ run' = [run EXCEPT ![k] = IF @ = Absent THEN Queued ELSE @]
    /\ receipt' = [receipt EXCEPT ![k] = epoch]
    /\ request' = [request EXCEPT ![k] = "NONE"]
    /\ UNCHANGED << epoch, resetDone, reset, candidate, worker, beats >>

\* A lost connection, a deadlock victim, a unique violation.
AbortRequest(k) ==
    /\ request[k] # "NONE"
    /\ request' = [request EXCEPT ![k] = "NONE"]
    /\ UNCHANGED << epoch, run, receipt, resetDone, reset, candidate, worker, beats >>

\* `demo cycle` on the command line: the same run keys, no receipt.
CommandLineCycle(k) ==
    /\ k \in CycleKey
    /\ run[k] = Absent
    /\ request[k] # "WRITTEN"
    /\ run' = [run EXCEPT ![k] = Queued]
    /\ UNCHANGED << epoch, receipt, resetDone, request, reset, candidate, worker, beats >>

(***************************************************************************)
(* Demo reset: one transaction under the exclusive maintenance lock, which *)
(* deletes receipts, waits for every open transaction that touched one of  *)
(* the tables it truncates, and rebuilds the fixtures.                     *)
(***************************************************************************)
\* A reset that also forgets that earlier resets were done.
ForgetsResets(x) == {x}
RemembersResets(x) == resetDone \cup {x}

\* The receipts of rebuilt resources, as far as the DELETE can see them.
Doomed == {k \in Key : receipt[k] # NoReceipt}

DeleteReceipts(x) ==
    /\ x \notin resetDone
    /\ ~ResetOpen
    /\ reset' = [reset EXCEPT ![x] = [open |-> TRUE, doomed |-> Doomed]]
    /\ UNCHANGED << epoch, run, receipt, resetDone, request, candidate, worker, beats >>

\* Open transactions that hold a lock on a truncated table: a plain trigger
\* read its job first, a worker the candidate, a heartbeat its run.
HoldsTables(k) ==
    request[k] = "WRITTEN" \/ (k \in TriggerKey /\ request[k] = "CHECKED")
ReadsCandidate(p) == worker[p].phase \in {"DISCOVERING", "RESUMING"}

CommitReset(x) ==
    /\ reset[x].open
    /\ \A k \in Key : ~HoldsTables(k)
    /\ \A p \in Worker : ~ReadsCandidate(p)
    /\ beats = {}
    /\ epoch' = epoch + 1
    /\ run' = [k \in Key |-> Absent]
    /\ receipt' = [k \in Key |-> IF k \in reset[x].doomed THEN NoReceipt ELSE receipt[k]]
    /\ resetDone' = RemembersResets(x)
    /\ reset' = [reset EXCEPT ![x] = NoReset]
    /\ candidate' = "NONE"
    /\ UNCHANGED << request, worker, beats >>

AbortReset(x) ==
    /\ reset[x].open
    /\ reset' = [reset EXCEPT ![x] = NoReset]
    /\ UNCHANGED << epoch, run, receipt, resetDone, request, candidate, worker, beats >>

(***************************************************************************)
(* Workers.  A claim takes the maintenance lock shared, so none commits    *)
(* under an open reset; what was claimed before goes on.                   *)
(***************************************************************************)
ClaimSchedule(p, k) ==
    /\ worker[p] = Idle
    /\ ~ResetOpen
    /\ Claimable(run[k])
    /\ run' = [run EXCEPT ![k] = Claimed(@, IdOf[p])]
    /\ worker' = [worker EXCEPT ![p] = Busy("CLAIMED", k, epoch)]
    /\ UNCHANGED << epoch, receipt, resetDone, request, reset, candidate, beats >>

Continues(p, phase) == worker' = [worker EXCEPT ![p].phase = phase]

\* A look that takes any existing candidate for a finished one.
FoundExisting(c) == CASE c = "NONE" -> "DISCOVERING" [] OTHER -> "DONE"

\* What advance_autonomous_cycle does about the candidate it found.
Found(c) ==
    CASE c = "NONE" -> "DISCOVERING"
      [] c = "DISCOVERED" -> "RESUMING"
      [] c = "PLANNED" -> "DONE"

\* The work starts: only a cycle's run has any.
Look(p) ==
    /\ worker[p].phase = "CLAIMED"
    /\ Continues(p, IF worker[p].key \in CycleKey THEN Found(candidate) ELSE "DONE")
    /\ UNCHANGED << epoch, run, receipt, resetDone, request, reset, candidate, beats >>

\* The first commit.  The candidate's slug is unique, so the second of two
\* discoveries fails.
Discover(p) ==
    /\ worker[p].phase = "DISCOVERING"
    /\ IF candidate = "NONE"
       THEN candidate' = "DISCOVERED" /\ Continues(p, "BETWEEN")
       ELSE UNCHANGED candidate /\ Continues(p, "RAISED")
    /\ UNCHANGED << epoch, run, receipt, resetDone, request, reset, beats >>

\* The second commit writes the candidate row and inserts its plan, whose id
\* is fixed: it fails if a reset removed the one or somebody made the other.
Plan(p) ==
    /\ worker[p].phase \in {"BETWEEN", "RESUMING"}
    /\ IF candidate = "DISCOVERED"
       THEN candidate' = "PLANNED" /\ Continues(p, "DONE")
       ELSE UNCHANGED candidate /\ Continues(p, "RAISED")
    /\ UNCHANGED << epoch, run, receipt, resetDone, request, reset, beats >>

\* A lost connection or a deadlock victim.
WorkRaises(p) ==
    /\ worker[p].phase \in {"CLAIMED", "DISCOVERING", "BETWEEN", "RESUMING"}
    /\ Continues(p, "RAISED")
    /\ UNCHANGED << epoch, run, receipt, resetDone, request, reset, candidate, beats >>

\* The claimed row still exists and still names this worker's id.
StillHeld(p) == worker[p].epoch = epoch /\ Holds(run[worker[p].key], p)

RunSucceeds(p) ==
    /\ worker[p].phase = "DONE"
    /\ StillHeld(p)
    /\ run' = [run EXCEPT ![worker[p].key] = Released(@, "SUCCEEDED")]
    /\ worker' = [worker EXCEPT ![p] = Idle]
    /\ UNCHANGED << epoch, receipt, resetDone, request, reset, candidate, beats >>

RunAttemptFails(p) ==
    /\ worker[p].phase = "RAISED"
    /\ StillHeld(p)
    /\ run' = [run EXCEPT ![worker[p].key] =
                  Released(@, IF @.attempts >= MaxAttempts THEN "FAILED" ELSE "QUEUED")]
    /\ worker' = [worker EXCEPT ![p] = Idle]
    /\ UNCHANGED << epoch, receipt, resetDone, request, reset, candidate, beats >>

RunAnswerIgnored(p) ==
    /\ worker[p].phase \in {"DONE", "RAISED"}
    /\ ~StillHeld(p)
    /\ worker' = [worker EXCEPT ![p] = Idle]
    /\ UNCHANGED << epoch, run, receipt, resetDone, request, reset, candidate, beats >>

\* The dead letter takes the maintenance lock as a claim does.
DeadLetterSchedule(k) ==
    /\ ~ResetOpen
    /\ Exhausted(run[k])
    /\ run' = [run EXCEPT ![k] = Released(@, "FAILED")]
    /\ UNCHANGED << epoch, receipt, resetDone, request, reset, candidate, worker, beats >>

\* Nothing compares the deadline of a finished run.
LeaseExpires(k) ==
    /\ run[k].status \in Unfinished /\ run[k].lease = "LIVE"
    /\ run' = [run EXCEPT ![k].lease = "EXPIRED"]
    /\ UNCHANGED << epoch, receipt, resetDone, request, reset, candidate, worker, beats >>

\* LeaseHeartbeat: one transaction that reads the run without a lock, decides by
\* what it reads, and writes the deadline whatever the run has become by then.
BeatReads(p) ==
    /\ worker[p] # Idle
    /\ StillHeld(p)
    /\ run[worker[p].key].status = "RUNNING"
    /\ beats' = beats \cup {worker[p].key}
    /\ UNCHANGED << epoch, run, receipt, resetDone, request, reset, candidate, worker >>

BeatWrites(k) ==
    /\ k \in beats
    /\ run' = [run EXCEPT ![k] = Renewed(@)]
    /\ beats' = beats \ {k}
    /\ UNCHANGED << epoch, receipt, resetDone, request, reset, candidate, worker >>

\* The thread ends without its write.
BeatLost(k) ==
    /\ k \in beats
    /\ beats' = beats \ {k}
    /\ UNCHANGED << epoch, run, receipt, resetDone, request, reset, candidate, worker >>

WorkerCrash(p) ==
    /\ worker[p] # Idle
    /\ worker' = [worker EXCEPT ![p] = Idle]
    /\ UNCHANGED << epoch, run, receipt, resetDone, request, reset, candidate, beats >>

(***************************************************************************)
(* The specification.                                                      *)
(***************************************************************************)
RequestStep(k) == Enqueue(k) \/ CommitRequest(k)
ResetStep(x) == CommitReset(x)
WorkStep(p) ==
    \/ Look(p) \/ Discover(p) \/ Plan(p)
    \/ RunSucceeds(p) \/ RunAttemptFails(p) \/ RunAnswerIgnored(p)

Next ==
    \/ \E k \in Key :
          \/ Lookup(k) \/ RequestStep(k) \/ AbortRequest(k) \/ CommandLineCycle(k)
          \/ DeadLetterSchedule(k) \/ LeaseExpires(k)
          \/ BeatWrites(k) \/ BeatLost(k)
    \/ \E x \in ResetKey : DeleteReceipts(x) \/ ResetStep(x) \/ AbortReset(x)
    \/ \E p \in Worker :
          \/ \E k \in Key : ClaimSchedule(p, k)
          \/ WorkStep(p) \/ WorkRaises(p) \/ BeatReads(p) \/ WorkerCrash(p)

Spec == Init /\ [][Next]_vars

\* Open requests and resets end, the worker loop runs, deadlines pass.  A claim
\* or a dead letter that waits for the maintenance lock gets it after the reset it
\* waits for, however many resets are tried: PostgreSQL queues lock requests.
Fairness ==
    /\ \A k \in Key :
          /\ WF_vars(RequestStep(k) \/ AbortRequest(k))
          /\ SF_vars(\E p \in Worker : ClaimSchedule(p, k))
          /\ SF_vars(DeadLetterSchedule(k))
          /\ WF_vars(LeaseExpires(k))
    /\ \A x \in ResetKey : WF_vars(ResetStep(x) \/ AbortReset(x))
    /\ \A p \in Worker : WF_vars(WorkStep(p))

FairSpec == Spec /\ Fairness

(***************************************************************************)
(* Properties.                                                             *)
(***************************************************************************)
Phase == {"CLAIMED", "DISCOVERING", "RESUMING", "BETWEEN", "DONE", "RAISED"}

TypeOK ==
    /\ epoch \in Nat
    /\ run \in [Key -> WorkRow]
    /\ receipt \in [Key -> Nat \cup {NoReceipt}]
    /\ resetDone \subseteq ResetKey
    /\ request \in [Key -> {"NONE", "CHECKED", "WRITTEN"}]
    /\ reset \in [ResetKey -> [open : BOOLEAN, doomed : SUBSET Key]]
    /\ candidate \in {"NONE", "DISCOVERED", "PLANNED"}
    /\ worker \in [Worker -> {Idle} \cup [phase : Phase, key : Key, epoch : Nat]]
    /\ beats \subseteq Key

\* A cycle that is reported as succeeded has left the candidate planned, with
\* its evaluation queued, whoever crashed between the two commits, however
\* many workers shared the work, and whatever a reset removed meanwhile.
SucceededCycleIsPlanned ==
    \A k \in CycleKey : run[k].status = "SUCCEEDED" => candidate = "PLANNED"

\* A reset request that is sent again, also after other resets, never wipes
\* what was done since it was answered.
OneResetPerKey == epoch = Cardinality(resetDone)

\* Every schedule run ends, or is removed by a reset.
ScheduleRunsEnd ==
    \A k \in Key : run[k].status \in Unfinished ~> run[k].status \notin Unfinished

\* docs/OPERATIONS.md:46, "receipts for rebuilt mutable resources expire so
\* they cannot replay dangling identifiers": a receipt names a run there is.
ReceiptsNameRows ==
    \A k \in Key : receipt[k] # NoReceipt => receipt[k] = epoch /\ run[k] # Absent
=============================================================================
