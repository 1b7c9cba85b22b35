--------------------------- MODULE DemoCycleProofs ---------------------------
(***************************************************************************)
(* Safety of the demo cycle and its resets, for any numbers of workers,    *)
(* keys and attempts.                                                      *)
(***************************************************************************)
EXTENDS DemoCycle, LeasesProofs, FiniteSetTheorems

-----------------------------------------------------------------------------
(***************************************************************************)
(* A succeeded cycle left a planned candidate.  The work that found or     *)
(* planned it is remembered by the worker until it completes the run; only *)
(* a reset unplans the candidate, and it moves the epoch beyond that of    *)
(* every worker that was busy.                                             *)
(***************************************************************************)
Progress == {"NONE", "DISCOVERED", "PLANNED"}

BusyType ==
    /\ candidate \in Progress
    /\ epoch \in Nat
    /\ worker \in [Worker -> {Idle} \cup [phase : Phase, key : Key, epoch : Nat]]

BusyInThePast == \A p \in Worker : worker[p] # Idle => worker[p].epoch <= epoch

DoneIsPlanned ==
    \A p \in Worker :
        /\ worker[p].phase = "DONE"
        /\ worker[p].epoch = epoch
        /\ worker[p].key \in CycleKey
        => candidate = "PLANNED"

CycleInv ==
    /\ run \in [Key -> WorkRow]
    /\ BusyType /\ BusyInThePast /\ DoneIsPlanned /\ SucceededCycleIsPlanned

LEMMA CycleInvInit == Init => CycleInv
BY NewRowType DEF Init, CycleInv, BusyType, BusyInThePast, DoneIsPlanned,
       SucceededCycleIsPlanned, Progress, Key, Idle, Absent

\* A step that leaves workers, epoch and candidate alone, and completes no run.
LEMMA QuietKeepsCycleInv ==
    ASSUME CycleInv, UNCHANGED << epoch, candidate, worker >>,
           run' \in [Key -> WorkRow],
           \A k \in CycleKey : run'[k].status = "SUCCEEDED" => run[k].status = "SUCCEEDED"
    PROVE  CycleInv'
BY DEF CycleInv, BusyType, BusyInThePast, DoneIsPlanned, SucceededCycleIsPlanned

\* A step of one worker that goes on with its work, completes no run, never
\* unplans the candidate, and is done with a cycle only once it is planned.
LEMMA WorkKeepsCycleInv ==
    ASSUME CycleInv, NEW p \in Worker, NEW phase \in Phase, worker[p] # Idle,
           Continues(p, phase), UNCHANGED << epoch, run >>,
           candidate' \in Progress, candidate = "PLANNED" => candidate' = "PLANNED",
           phase = "DONE" /\ worker[p].key \in CycleKey => candidate' = "PLANNED"
    PROVE  CycleInv'
<1>1. /\ worker' = [worker EXCEPT ![p] = worker'[p]]
      /\ worker[p] \in [phase : Phase, key : Key, epoch : Nat]
      /\ worker'[p] \in [phase : Phase, key : Key, epoch : Nat]
      /\ worker'[p].phase = phase /\ worker'[p].key = worker[p].key
      /\ worker'[p].epoch = worker[p].epoch
  BY DEF CycleInv, BusyType, Continues
<1>2. \A q \in Worker : q # p => worker'[q] = worker[q]
  BY <1>1 DEF CycleInv, BusyType
<1>3. BusyType' /\ BusyInThePast'
  BY <1>1, <1>2 DEF CycleInv, BusyType, BusyInThePast
<1>4. DoneIsPlanned'
  BY <1>1, <1>2 DEF CycleInv, DoneIsPlanned
<1>5. SucceededCycleIsPlanned'
  BY DEF CycleInv, SucceededCycleIsPlanned
<1> QED
  BY <1>3, <1>4, <1>5 DEF CycleInv

\* A worker that gives up its run, or is relieved of it.
LEMMA IdleKeepsCycleInv ==
    ASSUME CycleInv, NEW p \in Worker, worker' = [worker EXCEPT ![p] = Idle],
           UNCHANGED << epoch, candidate >>,
           run' \in [Key -> WorkRow],
           \A k \in CycleKey : run'[k].status = "SUCCEEDED" =>
                                   run[k].status = "SUCCEEDED" \/ candidate = "PLANNED"
    PROVE  CycleInv'
<1>1. /\ worker'[p] = Idle
      /\ \A q \in Worker : q # p => worker'[q] = worker[q]
  BY DEF CycleInv, BusyType
<1>2. BusyType' /\ BusyInThePast'
  BY <1>1 DEF CycleInv, BusyType, BusyInThePast
<1>3. DoneIsPlanned'
  BY <1>1 DEF CycleInv, DoneIsPlanned, Idle
<1>4. SucceededCycleIsPlanned'
  BY DEF CycleInv, SucceededCycleIsPlanned
<1> QED
  BY <1>2, <1>3, <1>4 DEF CycleInv

LEMMA RequestKeepsCycleInv ==
    ASSUME CycleInv, NEW k \in Key,
           \/ Lookup(k) \/ RequestStep(k) \/ AbortRequest(k) \/ CommandLineCycle(k)
           \/ DeadLetterSchedule(k) \/ LeaseExpires(k) \/ BeatWrites(k) \/ BeatLost(k)
    PROVE  CycleInv'
<1>1. CASE UNCHANGED run /\ UNCHANGED << epoch, candidate, worker >>
  BY <1>1, QuietKeepsCycleInv DEF CycleInv
<1>2. ASSUME NEW row \in WorkRow, run' = [run EXCEPT ![k] = row],
             row.status = "SUCCEEDED" => run[k].status = "SUCCEEDED",
             UNCHANGED << epoch, candidate, worker >>
      PROVE  CycleInv'
  <2>1. /\ run' \in [Key -> WorkRow]
        /\ \A j \in Key : run'[j] = IF j = k THEN row ELSE run[j]
    BY <1>2 DEF CycleInv
  <2> QED
    BY <1>2, <2>1, QuietKeepsCycleInv DEF Key
<1>7. run[k] \in WorkRow
  BY DEF CycleInv
<1>3. CASE CommitRequest(k)
  <2>1. run' = [run EXCEPT ![k] = IF run[k] = Absent THEN Queued ELSE run[k]]
    BY <1>3 DEF CommitRequest
  <2>2. Queued.status # "SUCCEEDED"
    BY DEF Queued, Absent
  <2> QED
    BY <1>2, <1>3, <1>7, <2>1, <2>2, NewRowType DEF CommitRequest
<1>4. CASE CommandLineCycle(k)
  <2>1. Queued.status # "SUCCEEDED"
    BY DEF Queued, Absent
  <2> QED
    BY <1>2, <1>4, <2>1, NewRowType DEF CommandLineCycle
<1>5. CASE DeadLetterSchedule(k)
  <2>1. Released(run[k], "FAILED") \in WorkRow
    BY <1>7, ReleasedType DEF WorkStatus
  <2>2. Released(run[k], "FAILED").status # "SUCCEEDED"
    BY <1>7 DEF Released, WorkRow
  <2> QED
    BY <1>2, <1>5, <2>1, <2>2 DEF DeadLetterSchedule
<1>6. CASE LeaseExpires(k)
  <2>1. run' = [run EXCEPT ![k] = [run[k] EXCEPT !.lease = "EXPIRED"]]
    BY <1>6 DEF LeaseExpires
  <2> QED
    BY <1>2, <1>6, <1>7, <2>1, LeaseChangeType DEF LeaseExpires, LeaseState
<1>8. CASE BeatWrites(k)
  <2>1. /\ UNCHANGED << epoch, candidate, worker >>
        /\ run' = [run EXCEPT ![k] = [run[k] EXCEPT !.lease = "LIVE"]]
    BY <1>8 DEF BeatWrites, Renewed
  <2>2. /\ [run[k] EXCEPT !.lease = "LIVE"] \in WorkRow
        /\ [run[k] EXCEPT !.lease = "LIVE"].status = run[k].status
    BY <1>7, LeaseChangeType DEF LeaseState
  <2> QED
    BY <1>2, <2>1, <2>2
<1> QED
  BY <1>1, <1>3, <1>4, <1>5, <1>6, <1>8 DEF Lookup, RequestStep, Enqueue, AbortRequest, BeatLost

LEMMA ResetKeepsCycleInv ==
    ASSUME CycleInv, NEW x \in ResetKey, DeleteReceipts(x) \/ ResetStep(x) \/ AbortReset(x)
    PROVE  CycleInv'
<1>1. CASE DeleteReceipts(x) \/ AbortReset(x)
  BY <1>1, QuietKeepsCycleInv DEF DeleteReceipts, AbortReset, CycleInv
<1>2. CASE CommitReset(x)
  <2>1. /\ epoch' = epoch + 1 /\ run' = [k \in Key |-> Absent]
        /\ worker' = worker
    BY <1>2 DEF CommitReset
  <2>2. BusyType' /\ BusyInThePast'
    BY <1>2, <2>1 DEF CommitReset, CycleInv, BusyType, BusyInThePast, Progress
  <2>3. \A p \in Worker : worker[p] # Idle => worker[p].epoch # epoch'
    BY <2>1 DEF CycleInv, BusyType, BusyInThePast
  <2>4. DoneIsPlanned'
    BY <2>1, <2>3 DEF DoneIsPlanned, Idle
  <2>5. SucceededCycleIsPlanned'
    BY <2>1 DEF SucceededCycleIsPlanned, Key, Absent
  <2> QED
    BY <2>1, <2>2, <2>4, <2>5, NewRowType DEF CycleInv
<1> QED
  BY <1>1, <1>2 DEF ResetStep

LEMMA WorkerKeepsCycleInv ==
    ASSUME CycleInv, NEW p \in Worker,
           WorkStep(p) \/ WorkRaises(p) \/ BeatReads(p) \/ WorkerCrash(p)
    PROVE  CycleInv'
<1> DEFINE k == worker[p].key
<1>1. ASSUME worker[p] # Idle
      PROVE  k \in Key /\ run[k] \in WorkRow /\ worker[p].epoch \in Nat
  BY <1>1 DEF CycleInv, BusyType
<1>2. CASE Look(p)
  <2> DEFINE phase == IF k \in CycleKey THEN Found(candidate) ELSE "DONE"
  <2>1. worker[p] # Idle /\ Continues(p, phase) /\ UNCHANGED << epoch, run, candidate >>
    BY <1>2 DEF Look, Idle
  <2>2. candidate \in Progress
    BY DEF CycleInv, BusyType
  <2>3. phase \in Phase /\ (phase = "DONE" /\ k \in CycleKey => candidate = "PLANNED")
    BY <2>2 DEF Found, Phase, Progress
  <2> QED
    BY <2>1, <2>2, <2>3, WorkKeepsCycleInv
<1>3. CASE Discover(p)
  <2>1. worker[p] # Idle /\ UNCHANGED << epoch, run >>
    BY <1>3 DEF Discover, Idle
  <2>2. CASE candidate = "NONE"
    BY <1>3, <2>1, <2>2, WorkKeepsCycleInv DEF Discover, Phase, Progress
  <2>3. CASE candidate # "NONE"
    BY <1>3, <2>1, <2>3, WorkKeepsCycleInv DEF Discover, Phase, CycleInv, BusyType
  <2> QED
    BY <2>2, <2>3
<1>4. CASE Plan(p)
  <2>1. worker[p] # Idle /\ UNCHANGED << epoch, run >>
    BY <1>4 DEF Plan, Idle
  <2>2. CASE candidate = "DISCOVERED"
    BY <1>4, <2>1, <2>2, WorkKeepsCycleInv DEF Plan, Phase, Progress
  <2>3. CASE candidate # "DISCOVERED"
    BY <1>4, <2>1, <2>3, WorkKeepsCycleInv DEF Plan, Phase, CycleInv, BusyType
  <2> QED
    BY <2>2, <2>3
<1>5. CASE WorkRaises(p)
  BY <1>5, WorkKeepsCycleInv DEF WorkRaises, Phase, Idle, CycleInv, BusyType
<1>6. ASSUME NEW status \in WorkStatus, worker[p] # Idle,
             run' = [run EXCEPT ![k] = Released(run[k], status)],
             worker' = [worker EXCEPT ![p] = Idle], UNCHANGED << epoch, candidate >>,
             status = "SUCCEEDED" /\ k \in CycleKey => candidate = "PLANNED"
      PROVE  CycleInv'
  <2>1. Released(run[k], status) \in WorkRow /\ Released(run[k], status).status = status
    BY <1>1, <1>6, ReleasedType DEF Released, WorkRow
  <2>2. /\ run' \in [Key -> WorkRow]
        /\ \A j \in Key : run'[j] = IF j = k THEN Released(run[k], status) ELSE run[j]
    BY <1>1, <1>6, <2>1 DEF CycleInv
  <2>3. \A j \in CycleKey : run'[j].status = "SUCCEEDED" =>
                                 run[j].status = "SUCCEEDED" \/ candidate = "PLANNED"
    BY <1>6, <2>1, <2>2 DEF Key
  <2> QED
    BY <1>6, <2>2, <2>3, IdleKeepsCycleInv
<1>7. CASE RunSucceeds(p)
  <2>1. worker[p] # Idle
    BY <1>7 DEF RunSucceeds, Idle
  <2>2. k \in CycleKey => candidate = "PLANNED"
    BY <1>7 DEF RunSucceeds, StillHeld, CycleInv, DoneIsPlanned
  <2> QED
    BY <1>6, <1>7, <2>1, <2>2 DEF RunSucceeds, WorkStatus
<1>8. CASE RunAttemptFails(p)
  <2> DEFINE status == IF run[k].attempts >= MaxAttempts THEN "FAILED" ELSE "QUEUED"
  <2>1. worker[p] # Idle /\ status \in WorkStatus /\ status # "SUCCEEDED"
    BY <1>8 DEF RunAttemptFails, Idle, WorkStatus
  <2>2. run' = [run EXCEPT ![k] = Released(run[k], status)]
    BY <1>8 DEF RunAttemptFails
  <2> QED
    BY <1>6, <1>8, <2>1, <2>2 DEF RunAttemptFails
<1>9. CASE RunAnswerIgnored(p) \/ WorkerCrash(p)
  BY <1>9, IdleKeepsCycleInv DEF RunAnswerIgnored, WorkerCrash, CycleInv
<1>10. CASE BeatReads(p)
  BY <1>10, QuietKeepsCycleInv DEF BeatReads, CycleInv
<1> QED
  BY <1>2, <1>3, <1>4, <1>5, <1>7, <1>8, <1>9, <1>10 DEF WorkStep

LEMMA ClaimKeepsCycleInv ==
    ASSUME CycleInv, NEW p \in Worker, NEW k \in Key, ClaimSchedule(p, k)
    PROVE  CycleInv'
<1>1. /\ run' = [run EXCEPT ![k] = Claimed(run[k], IdOf[p])]
      /\ worker' = [worker EXCEPT ![p] = Busy("CLAIMED", k, epoch)]
      /\ UNCHANGED << epoch, candidate >> /\ Claimable(run[k]) /\ run[k] \in WorkRow
  BY DEF ClaimSchedule, CycleInv
<1>2. Claimed(run[k], IdOf[p]) \in WorkRow /\ Claimed(run[k], IdOf[p]).status = "RUNNING"
  <2>1. Claimed(run[k], IdOf[p]) \in WorkRow
    BY <1>1, ClaimedType, WorkerAssumption
  <2> QED
    BY <1>1, <2>1 DEF Claimed, WorkRow
<1>3. /\ run' \in [Key -> WorkRow]
      /\ \A j \in Key : run'[j].status = "SUCCEEDED" => run[j].status = "SUCCEEDED"
  BY <1>1, <1>2 DEF CycleInv
<1>4. /\ Busy("CLAIMED", k, epoch) \in [phase : Phase, key : Key, epoch : Nat]
      /\ Busy("CLAIMED", k, epoch).phase = "CLAIMED" /\ Busy("CLAIMED", k, epoch).epoch = epoch
  BY DEF Busy, Phase, CycleInv, BusyType
<1>5. /\ worker'[p] = Busy("CLAIMED", k, epoch)
      /\ \A q \in Worker : q # p => worker'[q] = worker[q]
  BY <1>1 DEF CycleInv, BusyType
<1>6. BusyType' /\ BusyInThePast'
  BY <1>1, <1>4, <1>5 DEF CycleInv, BusyType, BusyInThePast
<1>7. DoneIsPlanned'
  BY <1>1, <1>4, <1>5 DEF CycleInv, DoneIsPlanned
<1>8. SucceededCycleIsPlanned'
  BY <1>1, <1>3 DEF CycleInv, SucceededCycleIsPlanned, Key
<1> QED
  BY <1>3, <1>6, <1>7, <1>8 DEF CycleInv

LEMMA CycleInvStep == CycleInv /\ [Next]_vars => CycleInv'
<1> SUFFICES ASSUME CycleInv, [Next]_vars PROVE CycleInv'
  OBVIOUS
<1>1. CASE UNCHANGED vars
  BY <1>1, QuietKeepsCycleInv DEF vars, CycleInv
<1> QED
  BY <1>1, RequestKeepsCycleInv, ResetKeepsCycleInv, WorkerKeepsCycleInv, ClaimKeepsCycleInv
  DEF Next

\* A demo cycle reported as succeeded left the autonomous candidate planned
\* (seed.py, advance_autonomous_cycle): through crashes between its two
\* commits, shared leases and resets, for any number of each.
THEOREM CyclesFinishTheirWork == Spec => []SucceededCycleIsPlanned
<1>1. CycleInv => SucceededCycleIsPlanned
  BY DEF CycleInv
<1> QED
  BY <1>1, CycleInvInit, CycleInvStep, PTL DEF Spec
-----------------------------------------------------------------------------
(***************************************************************************)
(* Every reset counts once: the receipt of a reset is written by the       *)
(* transaction that counts it, under a lock that leaves no other reset     *)
(* open, and prior_response keeps a key with a receipt from starting.      *)
(***************************************************************************)
ResetInv ==
    /\ reset \in [ResetKey -> [open : BOOLEAN, doomed : SUBSET Key]]
    /\ epoch \in Nat
    /\ IsFiniteSet(resetDone)
    /\ \A x \in ResetKey : reset[x].open => x \notin resetDone
    /\ \A x, y \in ResetKey : reset[x].open /\ reset[y].open => x = y
    /\ OneResetPerKey

LEMMA ResetInvInit == Init => ResetInv
<1> SUFFICES ASSUME Init PROVE ResetInv
  OBVIOUS
<1>1. IsFiniteSet({}) /\ Cardinality({}) = 0
  BY FS_EmptySet
<1> QED
  BY <1>1 DEF Init, ResetInv, OneResetPerKey, NoReset

LEMMA ResetInvStep == ResetInv /\ [Next]_vars => ResetInv'
<1> SUFFICES ASSUME ResetInv, [Next]_vars PROVE ResetInv'
  OBVIOUS
<1>1. CASE UNCHANGED << epoch, reset, resetDone >>
  BY <1>1 DEF ResetInv, OneResetPerKey
<1>2. ASSUME NEW x \in ResetKey, DeleteReceipts(x) PROVE ResetInv'
  <2> DEFINE opened == [open |-> TRUE, doomed |-> Doomed]
  <2>1. /\ reset' = [reset EXCEPT ![x] = opened] /\ UNCHANGED << epoch, resetDone >>
        /\ x \notin resetDone /\ \A y \in ResetKey : ~reset[y].open
    BY <1>2 DEF DeleteReceipts, ResetOpen
  <2>2. opened \in [open : BOOLEAN, doomed : SUBSET Key]
    BY DEF Doomed
  <2>3. /\ reset' \in [ResetKey -> [open : BOOLEAN, doomed : SUBSET Key]]
        /\ \A y \in ResetKey : reset'[y].open => y = x
    BY <2>1, <2>2 DEF ResetInv
  <2> QED
    BY <2>1, <2>3 DEF ResetInv, OneResetPerKey
<1>3. ASSUME NEW x \in ResetKey, CommitReset(x) \/ AbortReset(x)
      PROVE  /\ reset' \in [ResetKey -> [open : BOOLEAN, doomed : SUBSET Key]]
             /\ reset[x].open /\ \A y \in ResetKey : ~reset'[y].open
  <2>1. reset' = [reset EXCEPT ![x] = NoReset] /\ reset[x].open
    BY <1>3 DEF CommitReset, AbortReset
  <2>2. NoReset \in [open : BOOLEAN, doomed : SUBSET Key] /\ ~NoReset.open
    BY DEF NoReset
  <2> QED
    BY <2>1, <2>2 DEF ResetInv
<1>4. ASSUME NEW x \in ResetKey, CommitReset(x) PROVE ResetInv'
  <2>1. epoch' = epoch + 1 /\ resetDone' = resetDone \cup {x} /\ x \notin resetDone
    BY <1>3, <1>4 DEF CommitReset, RemembersResets, ResetInv
  <2>2. IsFiniteSet(resetDone') /\ Cardinality(resetDone') = Cardinality(resetDone) + 1
    BY <2>1, FS_AddElement DEF ResetInv
  <2> QED
    BY <1>3, <1>4, <2>1, <2>2 DEF ResetInv, OneResetPerKey
<1>5. ASSUME NEW x \in ResetKey, AbortReset(x) PROVE ResetInv'
  BY <1>3, <1>5 DEF AbortReset, ResetInv, OneResetPerKey
<1>6. ASSUME NEW k \in Key,
             \/ Lookup(k) \/ RequestStep(k) \/ AbortRequest(k) \/ CommandLineCycle(k)
             \/ DeadLetterSchedule(k) \/ LeaseExpires(k) \/ BeatWrites(k) \/ BeatLost(k)
      PROVE  ResetInv'
  BY <1>1, <1>6 DEF Lookup, RequestStep, Enqueue, CommitRequest, AbortRequest,
                    CommandLineCycle, DeadLetterSchedule, LeaseExpires, BeatWrites, BeatLost
<1>7. ASSUME NEW p \in Worker,
             \/ \E k \in Key : ClaimSchedule(p, k)
             \/ WorkStep(p) \/ WorkRaises(p) \/ BeatReads(p) \/ WorkerCrash(p)
      PROVE  ResetInv'
  BY <1>1, <1>7 DEF ClaimSchedule, WorkStep, Look, Discover, Plan, RunSucceeds,
                    RunAttemptFails, RunAnswerIgnored, WorkRaises, BeatReads, WorkerCrash
<1>8. CASE UNCHANGED vars
  BY <1>1, <1>8 DEF vars
<1> QED
  BY <1>2, <1>4, <1>5, <1>6, <1>7, <1>8 DEF Next, ResetStep

\* A reset request that is sent again, in whatever order and after however
\* many aborted tries, is answered from its receipt and wipes nothing.
THEOREM ResetsHappenOnce == Spec => []OneResetPerKey
<1>1. ResetInv => OneResetPerKey
  BY DEF ResetInv
<1> QED
  BY <1>1, ResetInvInit, ResetInvStep, PTL DEF Spec
=============================================================================
