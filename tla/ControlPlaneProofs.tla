-------------------------- MODULE ControlPlaneProofs --------------------------
(***************************************************************************)
(* Safety of the control plane, for any sets of candidates and workers and *)
(* any bounds: types, leases, one open operation, and last the effects a   *)
(* transaction can have on a candidate, from which ControlPlaneDecisions   *)
(* argues.  The proofs follow the transactions: one step per action.       *)
(***************************************************************************)
EXTENDS ControlPlane, LeasesProofs, FiniteSetTheorems

\* The versions of a candidate can be counted; TypeOK alone does not say so.
FiniteVersions == \A c \in Candidate : IsFiniteSet(version[c])

TypeInv == TypeOK /\ FiniteVersions

-----------------------------------------------------------------------------
\* The row operators keep a row well formed.

LEMMA ClaimedOperationType ==
    ASSUME NEW op \in OperationRow, Claimable(op), NEW id \in WorkerId
    PROVE  Claimed(op, id) \in OperationRow
<1>1. op.attempts + 1 \in 0..MaxAttempts
  BY BoundAssumption, AttemptsAssumption DEF OperationRow, Claimable
<1> QED
  BY <1>1 DEF OperationRow, Claimed, WorkStatus, LeaseState

LEMMA ReleasedOperationType ==
    ASSUME NEW op \in OperationRow, NEW status \in WorkStatus
    PROVE  Released(op, status) \in OperationRow
BY DEF OperationRow, Released, LeaseState

LEMMA RestartedOperationType ==
    ASSUME NEW op \in OperationRow
    PROVE  Restarted(op) \in OperationRow
<1>1. Released(op, "QUEUED") \in OperationRow
  BY ReleasedOperationType DEF WorkStatus
<1>2. 0 \in 0..MaxAttempts
  BY AttemptsAssumption
<1> QED
  BY <1>1, <1>2 DEF OperationRow, Restarted

LEMMA MovedType ==
    ASSUME NEW row \in CandidateRow, NEW stage \in StageName, NEW status \in StatusName
    PROVE  Moved(row, stage, status) \in CandidateRow
<1>1. row.revision + 1 \in Nat
  BY DEF CandidateRow
<1> QED
  BY <1>1 DEF CandidateRow, Moved

LEMMA BlockedType ==
    ASSUME NEW bs \in SUBSET BlockerRow, NEW code \in BlockerCode, NEW o \in Nat
    PROVE  Blocked(bs, code, o) \in SUBSET BlockerRow
BY DEF Blocked, BlockerRow

LEMMA RegatedType ==
    ASSUME NEW bs \in SUBSET BlockerRow, NEW g \in Verdict
    PROVE  Regated(bs, g) \in SUBSET BlockerRow
<1> DEFINE kept == {b \in bs : b.code \notin DerivedBlockerCodes}
<1>1. kept \in SUBSET BlockerRow
  OBVIOUS
<1>2. Blocked(kept, "HARD_GATE_FAILED", 0) \in SUBSET BlockerRow
  BY <1>1, BlockedType DEF BlockerCode, DerivedBlockerCodes
<1>3. Blocked(kept, "EVALUATION_REQUIREMENTS_INCOMPLETE", 0) \in SUBSET BlockerRow
  BY <1>1, BlockedType DEF BlockerCode, DerivedBlockerCodes
<1> QED
  BY <1>1, <1>2, <1>3 DEF Regated

LEMMA GatedRowType ==
    ASSUME NEW row \in CandidateRow, NEW bs \in SUBSET BlockerRow,
           NEW g \in Verdict, NEW e \in SUBSET Run
    PROVE  GatedRow(row, bs, g, e) \in CandidateRow
<1>1. GatedStage(g) \in StageName /\ GatedStatus(g, Regated(bs, g)) \in StatusName
  BY DEF GatedStage, GatedStatus, StageName, StatusName
<1>2. Moved(row, GatedStage(g), GatedStatus(g, Regated(bs, g))) \in CandidateRow
  BY <1>1, MovedType
<1> QED
  BY <1>2 DEF GatedRow, CandidateRow

LEMMA GatedDecisionType ==
    ASSUME NEW dec \in DecisionRow, NEW row \in CandidateRow,
           NEW g \in Verdict, NEW e \in SUBSET Run
    PROVE  GatedDecision(dec, row, g, e) \in DecisionRow
BY DEF GatedDecision, DecisionRow, CandidateRow

LEMMA UsableType ==
    ASSUME NEW aps, NEW row, NEW dec
    PROVE  Oldest(Usable(aps, row, dec)) \in SUBSET Approval
BY DEF Oldest, Usable

LEMMA NewOperationType ==
    ASSUME NEW row \in CandidateRow, NEW dec \in DecisionRow, NEW used \in SUBSET Approval
    PROVE  NewOperation(row, dec, used) \in OperationRow
<1>1. 0 \in 0..MaxAttempts
  BY BoundAssumption, AttemptsAssumption
<1>2. NoOperation \in OperationRow
  BY <1>1 DEF NoOperation, OperationRow, WorkStatus, LeaseState
<1>3. dec.id \in Nat /\ row.snapshot \in SUBSET Run
  BY DEF DecisionRow, CandidateRow
<1> QED
  BY <1>2, <1>3 DEF NewOperation, OperationRow, WorkStatus

LEMMA ConsumedType ==
    ASSUME NEW aps \in [Approval -> ApprovalRow], NEW used \in SUBSET Approval
    PROVE  Consumed(aps, used) \in [Approval -> ApprovalRow]
BY DEF Consumed, ApprovalRow

LEMMA EvidenceType ==
    ASSUME NEW c PROVE Evidence(c) \in SUBSET Run
BY DEF Evidence

LEMMA NewVersionType ==
    ASSUME TypeInv, NEW c \in Candidate, NEW o \in Operation
    PROVE  NewVersion(c, o) \in VersionRow
<1>1. Cardinality(version[c]) \in Nat
  BY FS_CardinalityType DEF TypeInv, FiniteVersions
<1>2. operation[c][o] \in OperationRow
  BY DEF TypeInv, TypeOK
<1> QED
  BY <1>1, <1>2 DEF NewVersion, VersionRow, OperationRow

LEMMA OfFinite ==
    ASSUME NEW R \in SUBSET (Candidate \X (1..MaxRuns)), NEW c
    PROVE  Cardinality(Of(R, c)) \in Nat
<1>1. Of(R, c) \subseteq 1..MaxRuns
  BY DEF Of
<1>2. IsFiniteSet(1..MaxRuns)
  BY FS_Interval, BoundAssumption, AttemptsAssumption
<1> QED
  BY <1>1, <1>2, FS_Subset, FS_CardinalityType

-----------------------------------------------------------------------------
\* What the steps of the proofs below may assume of a reachable state.

LEMMA SeedRowType ==
    ASSUME NEW seed PROVE SeedRow(seed) \in CandidateRow
BY DEF SeedRow, CandidateRow, StageName, StatusName

LEMMA SeedBlockersType ==
    ASSUME NEW seed PROVE SeedBlockers(seed) \in SUBSET BlockerRow
BY DEF SeedBlockers, BlockerRow, BlockerCode, FixtureBlockerCodes

LEMMA TypeInit == Init => TypeInv
<1> SUFFICES ASSUME Init PROVE TypeInv
  OBVIOUS
<1>1. candidate \in [Candidate -> CandidateRow]
  BY SeedRowType DEF Init
<1>2. gate \in [Candidate -> Verdict]
  BY DEF Init, Verdict
<1>3. blockers \in [Candidate -> SUBSET BlockerRow]
  BY SeedBlockersType DEF Init
<1>4. Queued \in WorkRow /\ Absent \in WorkRow
  BY BoundAssumption, AttemptsAssumption DEF Queued, Absent, WorkRow, WorkStatus, LeaseState
<1>5. run \in [Candidate -> [Run -> WorkRow]]
  BY <1>4 DEF Init
<1>6. decision \in [Candidate -> DecisionRow]
  BY DEF Init, NoDecision, DecisionRow
<1>7. approval \in [Candidate -> [Approval -> ApprovalRow]]
  BY DEF Init, NoApproval, ApprovalRow
<1>8. NoOperation \in OperationRow
  BY BoundAssumption, AttemptsAssumption DEF NoOperation, OperationRow, WorkStatus, LeaseState
<1>9. operation \in [Candidate -> [Operation -> OperationRow]]
  BY <1>8 DEF Init
<1>10. /\ version \in [Candidate -> SUBSET VersionRow] /\ FiniteVersions
       /\ selected \in [Candidate -> Nat] /\ published \subseteq Candidate \X Nat
  BY FS_EmptySet DEF Init, FiniteVersions
<1>11. worker \in [Worker -> {Idle} \cup
          [task : Tasks, candidate : Candidate, work : Run \cup Operation]]
  BY DEF Init
<1>12. beats \subseteq [task : Tasks, candidate : Candidate, work : Run \cup Operation]
  BY DEF Init
<1> QED
  BY <1>1, <1>2, <1>3, <1>5, <1>6, <1>7, <1>9, <1>10, <1>11, <1>12 DEF TypeInv, TypeOK

-----------------------------------------------------------------------------
\* Each action keeps the rows well formed.

LEMMA EvaluateType ==
    ASSUME TypeInv, NEW c \in Candidate, Evaluate(c) PROVE TypeInv'
<1>1. candidate' \in [Candidate -> CandidateRow]
  BY MovedType DEF TypeInv, TypeOK, Evaluate, StageName, StatusName
<1>2. Queued \in WorkRow
  BY BoundAssumption, AttemptsAssumption DEF Queued, Absent, WorkRow, WorkStatus, LeaseState
<1>3. run' \in [Candidate -> [Run -> WorkRow]]
  BY <1>2 DEF TypeInv, TypeOK, Evaluate
<1> QED
  BY <1>1, <1>3 DEF TypeInv, TypeOK, FiniteVersions, Evaluate

LEMMA PromotionCheckType ==
    ASSUME TypeInv, NEW c \in Candidate, PromotionCheck(c) PROVE TypeInv'
<1>0. candidate[c] \in CandidateRow /\ decision[c] \in DecisionRow
      /\ blockers[c] \in SUBSET BlockerRow /\ gate[c] \in Verdict
      /\ Evidence(c) \in SUBSET Run
  BY EvidenceType DEF TypeInv, TypeOK
<1>1. candidate' \in [Candidate -> CandidateRow]
  BY <1>0, GatedRowType DEF TypeInv, TypeOK, PromotionCheck
<1>2. blockers' \in [Candidate -> SUBSET BlockerRow]
  BY <1>0, RegatedType DEF TypeInv, TypeOK, PromotionCheck
<1>3. decision' \in [Candidate -> DecisionRow]
  BY <1>0, GatedDecisionType DEF TypeInv, TypeOK, PromotionCheck
<1> QED
  BY <1>1, <1>2, <1>3 DEF TypeInv, TypeOK, FiniteVersions, PromotionCheck

LEMMA RetryOperationType ==
    ASSUME TypeInv, NEW c \in Candidate, NEW o \in Operation, RetryOperation(c, o)
    PROVE  TypeInv'
<1>0. candidate[c] \in CandidateRow /\ operation[c][o] \in OperationRow
      /\ blockers[c] \in SUBSET BlockerRow
  BY DEF TypeInv, TypeOK
<1>1. Moved(candidate[c], "ELIGIBLE", "PROMOTION_PENDING") \in CandidateRow
  BY <1>0, MovedType DEF StageName, StatusName
<1>3. Restarted(operation[c][o]) \in OperationRow
  BY <1>0, RestartedOperationType
<1>4. Cleared(blockers[c], o) \in SUBSET BlockerRow
  BY <1>0 DEF Cleared
<1> QED
  BY <1>1, <1>3, <1>4 DEF TypeInv, TypeOK, FiniteVersions, RetryOperation

LEMMA CreateApprovalType ==
    ASSUME TypeInv, NEW c \in Candidate, CreateApproval(c) PROVE TypeInv'
<1>0. candidate[c] \in CandidateRow /\ decision[c] \in DecisionRow
  BY DEF TypeInv, TypeOK
<1>1. [candidate[c] EXCEPT !.revision = @ + 1] \in CandidateRow
  BY <1>0 DEF CandidateRow
<1>2. [NoApproval EXCEPT !.decision = decision[c].id, !.snapshot = candidate[c].snapshot]
         \in ApprovalRow
  BY <1>0 DEF NoApproval, ApprovalRow, CandidateRow, DecisionRow
<1>3. candidate' \in [Candidate -> CandidateRow]
  BY <1>1 DEF TypeInv, TypeOK, CreateApproval
<1>4. approval' \in [Candidate -> [Approval -> ApprovalRow]]
  BY <1>2 DEF TypeInv, TypeOK, CreateApproval
<1> QED
  BY <1>3, <1>4 DEF TypeInv, TypeOK, FiniteVersions, CreateApproval

LEMMA RevokeApprovalType ==
    ASSUME TypeInv, NEW c \in Candidate, NEW a \in Approval, RevokeApproval(c, a)
    PROVE  TypeInv'
<1>0. candidate[c] \in CandidateRow /\ approval[c][a] \in ApprovalRow
  BY DEF TypeInv, TypeOK
<1>1. [candidate[c] EXCEPT !.revision = @ + 1] \in CandidateRow
  BY <1>0 DEF CandidateRow
<1>2. [approval[c][a] EXCEPT !.revoked = TRUE] \in ApprovalRow
  BY <1>0 DEF ApprovalRow
<1>3. candidate' \in [Candidate -> CandidateRow]
  BY <1>1 DEF TypeInv, TypeOK, RevokeApproval
<1>4. approval' \in [Candidate -> [Approval -> ApprovalRow]]
  BY <1>2 DEF TypeInv, TypeOK, RevokeApproval
<1> QED
  BY <1>3, <1>4 DEF TypeInv, TypeOK, FiniteVersions, RevokeApproval

LEMMA PromoteType ==
    ASSUME TypeInv, NEW c \in Candidate, Promote(c) PROVE TypeInv'
<1> DEFINE used == Oldest(Usable(approval[c], candidate[c], decision[c]))
<1>0. /\ candidate[c] \in CandidateRow /\ decision[c] \in DecisionRow
      /\ approval[c] \in [Approval -> ApprovalRow] /\ used \in SUBSET Approval
  BY UsableType DEF TypeInv, TypeOK
<1>1. Moved(candidate[c], "ELIGIBLE", "PROMOTION_PENDING") \in CandidateRow
  BY <1>0, MovedType DEF StageName, StatusName
<1>2. NewOperation(candidate[c], decision[c], used) \in OperationRow
  BY <1>0, NewOperationType
<1>3. Consumed(approval[c], used) \in [Approval -> ApprovalRow]
  BY <1>0, ConsumedType
<1>4. operation' \in [Candidate -> [Operation -> OperationRow]]
  BY <1>2 DEF TypeInv, TypeOK, Promote
<1> QED
  BY <1>1, <1>3, <1>4 DEF TypeInv, TypeOK, FiniteVersions, Promote

\* The work of a claim or of an attempt's end.
LEMMA BusyType ==
    ASSUME NEW task \in Tasks, NEW c \in Candidate, NEW w \in Run \cup Operation
    PROVE  Busy(task, c, w) \in
              [task : Tasks, candidate : Candidate, work : Run \cup Operation]
BY DEF Busy

LEMMA ClaimRunType ==
    ASSUME TypeInv, NEW p \in Worker, NEW c \in Candidate, NEW r \in Run, ClaimRun(p, c, r)
    PROVE  TypeInv'
<1>1. run[c][r] \in WorkRow /\ IdOf[p] \in WorkerId
  BY WorkerAssumption DEF TypeInv, TypeOK
<1>2. Claimed(run[c][r], IdOf[p]) \in WorkRow
  BY <1>1, ClaimedType DEF ClaimRun
<1>3. run' \in [Candidate -> [Run -> WorkRow]]
  BY <1>2 DEF TypeInv, TypeOK, ClaimRun
<1> QED
  BY <1>3, BusyType DEF TypeInv, TypeOK, FiniteVersions, ClaimRun, Tasks

LEMMA ClaimOperationType ==
    ASSUME TypeInv, NEW p \in Worker, NEW c \in Candidate, NEW o \in Operation,
           ClaimOperation(p, c, o)
    PROVE  TypeInv'
<1>1. operation[c][o] \in OperationRow /\ IdOf[p] \in WorkerId
  BY WorkerAssumption DEF TypeInv, TypeOK
<1>2. Claimed(operation[c][o], IdOf[p]) \in OperationRow
  BY <1>1, ClaimedOperationType DEF ClaimOperation
<1>3. operation' \in [Candidate -> [Operation -> OperationRow]]
  BY <1>2 DEF TypeInv, TypeOK, ClaimOperation
<1> QED
  BY <1>3, BusyType DEF TypeInv, TypeOK, FiniteVersions, ClaimOperation, Tasks

LEMMA EvaluationAttemptFailsType ==
    ASSUME TypeInv, NEW p \in Worker, NEW c \in Candidate, NEW r \in Run,
           EvaluationAttemptFails(p, c, r)
    PROVE  TypeInv'
<1>0. /\ candidate[c] \in CandidateRow /\ run[c][r] \in WorkRow
      /\ blockers[c] \in SUBSET BlockerRow
  BY DEF TypeInv, TypeOK
<1>1. /\ Released(run[c][r], "FAILED") \in WorkRow
      /\ Released(run[c][r], "QUEUED") \in WorkRow
  BY <1>0, ReleasedType DEF WorkStatus
<1>2. Moved(candidate[c], "EVALUATING", "BLOCKED") \in CandidateRow
  BY <1>0, MovedType DEF StageName, StatusName
<1>3. Blocked(blockers[c], "EVALUATION_PROVIDER_FAILED", 0) \in SUBSET BlockerRow
  BY <1>0, BlockedType DEF BlockerCode, DerivedBlockerCodes
<1>4. CASE run[c][r].attempts >= MaxAttempts
  <2>1. /\ run' = [run EXCEPT ![c][r] = Released(run[c][r], "FAILED")]
        /\ candidate' = [candidate EXCEPT ![c] = Moved(candidate[c], "EVALUATING", "BLOCKED")]
        /\ blockers' = [blockers EXCEPT ![c] =
                           Blocked(blockers[c], "EVALUATION_PROVIDER_FAILED", 0)]
    BY <1>4 DEF EvaluationAttemptFails
  <2>2. run' \in [Candidate -> [Run -> WorkRow]]
    BY <2>1, <1>1 DEF TypeInv, TypeOK
  <2> QED
    BY <2>1, <2>2, <1>2, <1>3 DEF TypeInv, TypeOK, FiniteVersions, EvaluationAttemptFails
<1>5. CASE ~(run[c][r].attempts >= MaxAttempts)
  <2>1. /\ run' = [run EXCEPT ![c][r] = Released(run[c][r], "QUEUED")]
        /\ UNCHANGED << candidate, blockers >>
    BY <1>5 DEF EvaluationAttemptFails
  <2>2. run' \in [Candidate -> [Run -> WorkRow]]
    BY <2>1, <1>1 DEF TypeInv, TypeOK
  <2> QED
    BY <2>1, <2>2 DEF TypeInv, TypeOK, FiniteVersions, EvaluationAttemptFails
<1> QED
  BY <1>4, <1>5

LEMMA EvaluationAnswerRejectedType ==
    ASSUME TypeInv, NEW p \in Worker, NEW c \in Candidate, NEW r \in Run,
           EvaluationAnswerRejected(p, c, r)
    PROVE  TypeInv'
<1>1. Released(run[c][r], "FAILED") \in WorkRow
  BY ReleasedType DEF TypeInv, TypeOK, WorkStatus
<1>2. run' \in [Candidate -> [Run -> WorkRow]]
  BY <1>1 DEF TypeInv, TypeOK, EvaluationAnswerRejected
<1> QED
  BY <1>2 DEF TypeInv, TypeOK, FiniteVersions, EvaluationAnswerRejected

LEMMA EvaluationCompletesType ==
    ASSUME TypeInv, NEW p \in Worker, NEW c \in Candidate, NEW r \in Run,
           EvaluationCompletes(p, c, r)
    PROVE  TypeInv'
<1>0. PICK g \in Verdict : CompletesWith(c, r, g)
  BY DEF EvaluationCompletes
<1> DEFINE evidence == Evidence(c) \cup {r}
           row == GatedRow(candidate[c], blockers[c], g, evidence)
           bs == Regated(blockers[c], g)
           dec == GatedDecision(decision[c], candidate[c], g, evidence)
           used == Oldest(Usable(approval[c], row, dec))
<1>1. /\ candidate[c] \in CandidateRow /\ blockers[c] \in SUBSET BlockerRow
      /\ decision[c] \in DecisionRow /\ run[c][r] \in WorkRow
      /\ approval[c] \in [Approval -> ApprovalRow] /\ evidence \in SUBSET Run
  BY EvidenceType DEF TypeInv, TypeOK
<1>2. row \in CandidateRow /\ bs \in SUBSET BlockerRow /\ dec \in DecisionRow
  BY <1>1, GatedRowType, RegatedType, GatedDecisionType
<1>3. Released(run[c][r], "SUCCEEDED") \in WorkRow
  BY <1>1, ReleasedType DEF WorkStatus
<1>4. used \in SUBSET Approval
  BY UsableType
<1>5. /\ Moved(row, "ELIGIBLE", "PROMOTION_PENDING") \in CandidateRow
      /\ NewOperation(row, dec, used) \in OperationRow
      /\ Consumed(approval[c], used) \in [Approval -> ApprovalRow]
  BY <1>1, <1>2, <1>4, MovedType, NewOperationType, ConsumedType DEF StageName, StatusName
<1>6. /\ worker' = [worker EXCEPT ![p] = Idle]
      /\ UNCHANGED << version, selected, published, beats >>
  BY DEF EvaluationCompletes
<1>7. /\ \/ UNCHANGED << rows, run >>
         \/ StoreResults(c, r, g, bs, dec)
      /\ \/ candidate' = [candidate EXCEPT ![c] = row]
         \/ candidate' = [candidate EXCEPT ![c] = Moved(row, "ELIGIBLE", "PROMOTION_PENDING")]
         \/ UNCHANGED candidate
      /\ \/ UNCHANGED << operation, approval >>
         \/ /\ \E o \in Operation : operation' = [operation EXCEPT ![c][o] =
                                                     NewOperation(row, dec, used)]
            /\ approval' = [approval EXCEPT ![c] = Consumed(approval[c], used)]
  BY <1>0 DEF CompletesWith, rows
<1> HIDE DEF row, bs, dec, used, evidence
<1>8. candidate' \in [Candidate -> CandidateRow]
  BY <1>2, <1>5, <1>7 DEF TypeInv, TypeOK
<1>9. /\ run' \in [Candidate -> [Run -> WorkRow]] /\ gate' \in [Candidate -> Verdict]
      /\ blockers' \in [Candidate -> SUBSET BlockerRow] /\ decision' \in [Candidate -> DecisionRow]
  <2>1. CASE UNCHANGED << rows, run >>
    BY <2>1 DEF TypeInv, TypeOK, rows
  <2>2. CASE StoreResults(c, r, g, bs, dec)
    <3>1. run' \in [Candidate -> [Run -> WorkRow]]
      BY <2>2, <1>3 DEF TypeInv, TypeOK, StoreResults
    <3> QED
      BY <2>2, <3>1, <1>2 DEF TypeInv, TypeOK, StoreResults
  <2> QED
    BY <1>7, <2>1, <2>2
<1>10. /\ operation' \in [Candidate -> [Operation -> OperationRow]]
       /\ approval' \in [Candidate -> [Approval -> ApprovalRow]]
  <2>1. CASE UNCHANGED << operation, approval >>
    BY <2>1 DEF TypeInv, TypeOK
  <2>2. CASE /\ \E o \in Operation : operation' = [operation EXCEPT ![c][o] =
                                                     NewOperation(row, dec, used)]
             /\ approval' = [approval EXCEPT ![c] = Consumed(approval[c], used)]
    <3>1. PICK o \in Operation : operation' = [operation EXCEPT ![c][o] =
                                                  NewOperation(row, dec, used)]
      BY <2>2
    <3>2. operation' \in [Candidate -> [Operation -> OperationRow]]
      BY <3>1, <1>5 DEF TypeInv, TypeOK
    <3>3. approval' \in [Candidate -> [Approval -> ApprovalRow]]
      BY <2>2, <1>5 DEF TypeInv, TypeOK
    <3> QED
      BY <3>2, <3>3
  <2> QED
    BY <1>7, <2>1, <2>2
<1> QED
  BY <1>6, <1>8, <1>9, <1>10 DEF TypeInv, TypeOK, FiniteVersions

LEMMA PublishType ==
    ASSUME TypeInv, NEW p \in Worker, NEW c \in Candidate, NEW o \in Operation,
           Publish(p, c, o) \/ PublicationAnswerLost(p, c, o)
    PROVE  TypeInv'
<1>1. operation[c][o] \in OperationRow
  BY DEF TypeInv, TypeOK
<1>2. Token(c, o) \in Candidate \X Nat
  BY <1>1 DEF Token, OperationRow
<1>3. published' \subseteq Candidate \X Nat
  BY <1>2 DEF TypeInv, TypeOK, Publish, PublicationAnswerLost
<1>4. Busy("PUBLISHED", c, o) \in
         [task : Tasks, candidate : Candidate, work : Run \cup Operation]
  BY BusyType DEF Tasks
<1>5. worker' \in [Worker -> {Idle} \cup
         [task : Tasks, candidate : Candidate, work : Run \cup Operation]]
  BY <1>4 DEF TypeInv, TypeOK, Publish, PublicationAnswerLost
<1> QED
  BY <1>3, <1>5 DEF TypeInv, TypeOK, FiniteVersions, Publish, PublicationAnswerLost

LEMMA ActivationSucceedsType ==
    ASSUME TypeInv, NEW p \in Worker, NEW c \in Candidate, NEW o \in Operation,
           ActivationSucceeds(p, c, o)
    PROVE  TypeInv'
<1>0. PICK v \in IF VersionsOfToken(c, o) # {} THEN VersionsOfToken(c, o)
                 ELSE {NewVersion(c, o)} :
         /\ version' = [version EXCEPT ![c] = @ \cup {v}]
         /\ selected' = [selected EXCEPT ![c] = v.number]
  BY DEF ActivationSucceeds
<1>1. candidate[c] \in CandidateRow /\ operation[c][o] \in OperationRow
  BY DEF TypeInv, TypeOK
<1>2. v \in VersionRow
  BY <1>0, NewVersionType DEF VersionsOfToken, TypeInv, TypeOK
<1>3. Released(operation[c][o], "SUCCEEDED") \in OperationRow
  BY <1>1, ReleasedOperationType DEF WorkStatus
<1>4. /\ Moved(candidate[c], "PROMOTED", "ACTIVE") \in CandidateRow
      /\ Moved(Moved(candidate[c], "PROMOTED", "ACTIVE"), "MONITORED", "ACTIVE") \in CandidateRow
  BY <1>1, MovedType DEF StageName, StatusName
<1>5. candidate' \in [Candidate -> CandidateRow]
  BY <1>4 DEF TypeInv, TypeOK, ActivationSucceeds
<1>6. operation' \in [Candidate -> [Operation -> OperationRow]]
  BY <1>3 DEF TypeInv, TypeOK, ActivationSucceeds
<1>7. version' \in [Candidate -> SUBSET VersionRow] /\ selected' \in [Candidate -> Nat]
  BY <1>0, <1>2 DEF TypeInv, TypeOK, VersionRow
<1>8. FiniteVersions'
  BY <1>0, FS_AddElement DEF TypeInv, TypeOK, FiniteVersions
<1> QED
  BY <1>5, <1>6, <1>7, <1>8 DEF TypeInv, TypeOK, ActivationSucceeds

LEMMA ActivationRejectedType ==
    ASSUME TypeInv, NEW p \in Worker, NEW c \in Candidate, NEW o \in Operation,
           ActivationRejected(p, c, o)
    PROVE  TypeInv'
<1>1. /\ candidate[c] \in CandidateRow /\ operation[c][o] \in OperationRow
      /\ blockers[c] \in SUBSET BlockerRow
  BY DEF TypeInv, TypeOK
<1>2. Released(operation[c][o], "FAILED") \in OperationRow
  BY <1>1, ReleasedOperationType DEF WorkStatus
<1>3. candidate[c].stage \in StageName
  BY <1>1 DEF CandidateRow
<1>4. \A stage \in StageName : Moved(candidate[c], stage, "BLOCKED") \in CandidateRow
  BY <1>1, MovedType DEF StatusName
<1>5. Blocked(blockers[c], "REGISTRY_COMPLETION_STATE_MISMATCH", o) \in SUBSET BlockerRow
  BY <1>1, BlockedType DEF BlockerCode, RegistryBlockerCodes, Operation
<1>6. candidate' \in [Candidate -> CandidateRow]
  BY <1>3, <1>4 DEF TypeInv, TypeOK, ActivationRejected, StageName
<1>7. operation' \in [Candidate -> [Operation -> OperationRow]]
  BY <1>2 DEF TypeInv, TypeOK, ActivationRejected
<1> QED
  BY <1>5, <1>6, <1>7 DEF TypeInv, TypeOK, FiniteVersions, ActivationRejected

LEMMA ActivationFailsType ==
    ASSUME TypeInv, NEW p \in Worker, NEW c \in Candidate, NEW o \in Operation,
           ActivationFails(p, c, o)
    PROVE  TypeInv'
<1>1. /\ candidate[c] \in CandidateRow /\ operation[c][o] \in OperationRow
      /\ blockers[c] \in SUBSET BlockerRow
  BY DEF TypeInv, TypeOK
<1>2. /\ Released(operation[c][o], "FAILED") \in OperationRow
      /\ Released(operation[c][o], "QUEUED") \in OperationRow
  BY <1>1, ReleasedOperationType DEF WorkStatus
<1>3. Moved(candidate[c], "ELIGIBLE", "BLOCKED") \in CandidateRow
  BY <1>1, MovedType DEF StageName, StatusName
<1>4. Blocked(blockers[c], "REGISTRY_OPERATION_FAILED", o) \in SUBSET BlockerRow
  BY <1>1, BlockedType DEF BlockerCode, RegistryBlockerCodes, Operation
<1>5. CASE /\ operation' = [operation EXCEPT ![c][o] = Released(operation[c][o], "FAILED")]
           /\ candidate' = [candidate EXCEPT ![c] = Moved(candidate[c], "ELIGIBLE", "BLOCKED")]
           /\ blockers' = [blockers EXCEPT ![c] =
                              Blocked(blockers[c], "REGISTRY_OPERATION_FAILED", o)]
  <2>1. operation' \in [Candidate -> [Operation -> OperationRow]]
    BY <1>5, <1>2 DEF TypeInv, TypeOK
  <2> QED
    BY <1>5, <2>1, <1>3, <1>4 DEF TypeInv, TypeOK, FiniteVersions, ActivationFails
<1>6. CASE /\ operation' = [operation EXCEPT ![c][o] = Released(operation[c][o], "QUEUED")]
           /\ UNCHANGED << candidate, blockers >>
  <2>1. operation' \in [Candidate -> [Operation -> OperationRow]]
    BY <1>6, <1>2 DEF TypeInv, TypeOK
  <2> QED
    BY <1>6, <2>1 DEF TypeInv, TypeOK, FiniteVersions, ActivationFails
<1> QED
  BY <1>5, <1>6 DEF ActivationFails

\* A worker that drops its work, or finds it belongs to nobody of its name.
LEMMA DropType ==
    ASSUME TypeInv, NEW p \in Worker, worker' = [worker EXCEPT ![p] = Idle],
           UNCHANGED << candidate, gate, blockers, run, decision, approval,
                        operation, version, selected, published, beats >>
    PROVE  TypeInv'
BY DEF TypeInv, TypeOK, FiniteVersions

LEMMA DeadLetterType ==
    ASSUME TypeInv, NEW p \in Worker, DeadLetter(p) PROVE TypeInv'
<1>0. PICK R \in SUBSET ExhaustedRuns, O \in SUBSET ExhaustedOperations :
          /\ run' = [c \in Candidate |-> [r \in Run |->
                IF r \in Of(R, c) THEN Released(run[c][r], "FAILED") ELSE run[c][r]]]
          /\ operation' = [c \in Candidate |-> [o \in Operation |->
                IF o \in Of(O, c) THEN Released(operation[c][o], "FAILED")
                ELSE operation[c][o]]]
          /\ candidate' = [c \in Candidate |->
                DeadLetteredRow(candidate[c], Of(R, c), Of(O, c))]
          /\ blockers' = [c \in Candidate |->
                DeadLetteredBlockers(blockers[c], Of(R, c), Of(O, c))]
  BY DEF DeadLetter
<1>1. /\ R \in SUBSET (Candidate \X Run) /\ O \in SUBSET (Candidate \X Operation)
      /\ \A c \in Candidate : Of(O, c) \subseteq Operation
  BY DEF ExhaustedRuns, ExhaustedOperations, Of
<1>2. ASSUME NEW c \in Candidate
      PROVE  DeadLetteredRow(candidate[c], Of(R, c), Of(O, c)) \in CandidateRow
  <2>1. Cardinality(Of(R, c)) \in Nat /\ Cardinality(Of(O, c)) \in Nat
    <3>1. IsFiniteSet(Run) /\ IsFiniteSet(Operation)
      BY BoundAssumption, AttemptsAssumption, FS_Interval DEF Run, Operation
    <3>2. Of(R, c) \in SUBSET Run /\ Of(O, c) \in SUBSET Operation
      BY <1>1 DEF Of
    <3> QED
      BY <3>1, <3>2, FS_Subset, FS_CardinalityType
  <2>2. candidate[c] \in CandidateRow
    BY DEF TypeInv, TypeOK
  <2>3. candidate[c].revision + Cardinality(Of(R, c)) + Cardinality(Of(O, c)) \in Nat
    BY <2>1, <2>2 DEF CandidateRow
  <2> QED
    BY <2>2, <2>3 DEF DeadLetteredRow, CandidateRow, StageName, StatusName
<1>3. ASSUME NEW c \in Candidate
      PROVE  DeadLetteredBlockers(blockers[c], Of(R, c), Of(O, c)) \in SUBSET BlockerRow
  <2>1. blockers[c] \in SUBSET BlockerRow
    BY DEF TypeInv, TypeOK
  <2>2. Blocked(blockers[c], "EVALUATION_RETRIES_EXHAUSTED", 0) \in SUBSET BlockerRow
    BY <2>1, BlockedType DEF BlockerCode, DerivedBlockerCodes
  <2>3. ASSUME NEW bs \in SUBSET BlockerRow, Of(O, c) # {}
        PROVE  Blocked(bs, "REGISTRY_RETRIES_EXHAUSTED", CHOOSE o \in Of(O, c) : TRUE)
                  \in SUBSET BlockerRow
    <3>1. (CHOOSE o \in Of(O, c) : TRUE) \in Nat
      BY <1>1, <2>3 DEF Operation
    <3> QED
      BY <3>1, BlockedType DEF BlockerCode, RegistryBlockerCodes
  <2> QED
    BY <2>1, <2>2, <2>3 DEF DeadLetteredBlockers
<1>4. \A c \in Candidate : \A r \in Run :
         run[c][r] \in WorkRow /\ Released(run[c][r], "FAILED") \in WorkRow
  BY ReleasedType DEF TypeInv, TypeOK, WorkStatus
<1>5. \A c \in Candidate : \A o \in Operation :
         /\ operation[c][o] \in OperationRow
         /\ Released(operation[c][o], "FAILED") \in OperationRow
  BY ReleasedOperationType DEF TypeInv, TypeOK, WorkStatus
<1>6. candidate' \in [Candidate -> CandidateRow] /\ blockers' \in [Candidate -> SUBSET BlockerRow]
  BY <1>0, <1>2, <1>3
<1>7. run' \in [Candidate -> [Run -> WorkRow]]
  BY <1>0, <1>4
<1>8. operation' \in [Candidate -> [Operation -> OperationRow]]
  BY <1>0, <1>5
<1> QED
  BY <1>6, <1>7, <1>8 DEF TypeInv, TypeOK, FiniteVersions, DeadLetter

LEMMA LeaseType ==
    ASSUME NEW lease \in LeaseState
    PROVE  /\ \A w \in WorkRow : [w EXCEPT !.lease = lease] \in WorkRow
           /\ \A op \in OperationRow : [op EXCEPT !.lease = lease] \in OperationRow
BY DEF WorkRow, OperationRow

\* The heartbeats on their way, after one of them read, wrote or was lost.
LEMMA BeatsType ==
    ASSUME TypeInv, Heartbeat
    PROVE  beats' \subseteq [task : Tasks, candidate : Candidate, work : Run \cup Operation]
<1>1. "EVALUATING" \in Tasks /\ "PUBLISHING" \in Tasks
  BY DEF Tasks
<1>2. \A c \in Candidate :
         /\ \A r \in Run : Busy("EVALUATING", c, r) \in
               [task : Tasks, candidate : Candidate, work : Run \cup Operation]
         /\ \A o \in Operation : Busy("PUBLISHING", c, o) \in
               [task : Tasks, candidate : Candidate, work : Run \cup Operation]
  BY <1>1, BusyType
<1> QED
  BY <1>2 DEF TypeInv, TypeOK, Heartbeat, BeatReadsRun, BeatReadsOperation,
     BeatWritesRun, BeatWritesOperation, BeatLost

LEMMA RunLeaseType ==
    ASSUME TypeInv, NEW c \in Candidate, NEW r \in Run, NEW lease \in LeaseState,
           run' = [run EXCEPT ![c][r] = [run[c][r] EXCEPT !.lease = lease]],
           UNCHANGED << rows, approval, operation, version, selected, published, worker >>,
           beats' \subseteq [task : Tasks, candidate : Candidate, work : Run \cup Operation]
    PROVE  TypeInv'
<1>1. [run[c][r] EXCEPT !.lease = lease] \in WorkRow
  BY LeaseType DEF TypeInv, TypeOK
<1>2. run' \in [Candidate -> [Run -> WorkRow]]
  BY <1>1 DEF TypeInv, TypeOK
<1> QED
  BY <1>2 DEF TypeInv, TypeOK, FiniteVersions, rows

LEMMA OperationLeaseType ==
    ASSUME TypeInv, NEW c \in Candidate, NEW o \in Operation, NEW lease \in LeaseState,
           operation' = [operation EXCEPT ![c][o] = [operation[c][o] EXCEPT !.lease = lease]],
           UNCHANGED << rows, approval, run, version, selected, published, worker >>,
           beats' \subseteq [task : Tasks, candidate : Candidate, work : Run \cup Operation]
    PROVE  TypeInv'
<1>1. [operation[c][o] EXCEPT !.lease = lease] \in OperationRow
  BY LeaseType DEF TypeInv, TypeOK
<1>2. operation' \in [Candidate -> [Operation -> OperationRow]]
  BY <1>1 DEF TypeInv, TypeOK
<1> QED
  BY <1>2 DEF TypeInv, TypeOK, FiniteVersions, rows

\* Every step of a deadline or of a heartbeat is one of these four.
LEMMA LeaseSteps ==
    ASSUME TypeInv, Heartbeat \/ \E c \in Candidate : LeaseExpires(c)
    PROVE  /\ UNCHANGED << rows, approval, version, selected, published, worker >>
           /\ \/ UNCHANGED << run, operation >>
              \/ /\ UNCHANGED operation
                 /\ \E c \in Candidate : \E r \in Run : \E lease \in {"LIVE", "EXPIRED"} :
                       /\ lease = "EXPIRED" => run[c][r].status \in Unfinished
                       /\ run' = [run EXCEPT ![c][r] = [run[c][r] EXCEPT !.lease = lease]]
              \/ /\ UNCHANGED run
                 /\ \E c \in Candidate : \E o \in Operation : \E lease \in {"LIVE", "EXPIRED"} :
                       /\ lease = "EXPIRED" => operation[c][o].status \in Unfinished
                       /\ operation' = [operation EXCEPT ![c][o] =
                                           [operation[c][o] EXCEPT !.lease = lease]]
<1>1. ASSUME NEW c \in Candidate, NEW r \in Run, BeatWritesRun(c, r)
      PROVE  /\ UNCHANGED << rows, operation, approval, version, selected, published, worker >>
             /\ run' = [run EXCEPT ![c][r] = [run[c][r] EXCEPT !.lease = "LIVE"]]
  BY <1>1 DEF BeatWritesRun, Renewed, TypeInv, TypeOK
<1>2. ASSUME NEW c \in Candidate, NEW o \in Operation, BeatWritesOperation(c, o)
      PROVE  /\ UNCHANGED << rows, run, approval, version, selected, published, worker >>
             /\ operation' = [operation EXCEPT ![c][o] =
                                 [operation[c][o] EXCEPT !.lease = "LIVE"]]
  BY <1>2 DEF BeatWritesOperation, Renewed, TypeInv, TypeOK
<1>3. ASSUME NEW c \in Candidate, NEW r \in Run, RunLeaseExpires(c, r)
      PROVE  /\ UNCHANGED << rows, operation, approval, version, selected, published, worker >>
             /\ run[c][r].status \in Unfinished
             /\ run' = [run EXCEPT ![c][r] = [run[c][r] EXCEPT !.lease = "EXPIRED"]]
  BY <1>3 DEF RunLeaseExpires, TypeInv, TypeOK
<1>4. ASSUME NEW c \in Candidate, NEW o \in Operation, OperationLeaseExpires(c, o)
      PROVE  /\ UNCHANGED << rows, run, approval, version, selected, published, worker >>
             /\ operation[c][o].status \in Unfinished
             /\ operation' = [operation EXCEPT ![c][o] =
                                 [operation[c][o] EXCEPT !.lease = "EXPIRED"]]
  BY <1>4 DEF OperationLeaseExpires, TypeInv, TypeOK
<1>5. ASSUME \/ \E p \in Worker, c \in Candidate :
                   \/ \E r \in Run : BeatReadsRun(p, c, r)
                   \/ \E o \in Operation : BeatReadsOperation(p, c, o)
             \/ \E b \in beats : BeatLost(b)
      PROVE  UNCHANGED << rows, run, operation, approval, version, selected, published, worker >>
  BY <1>5 DEF BeatReadsRun, BeatReadsOperation, BeatLost
<1>6. CASE \E c \in Candidate : LeaseExpires(c)
  BY <1>3, <1>4, <1>6 DEF LeaseExpires
<1>7. CASE Heartbeat
  <2>1. CASE \E c \in Candidate :
                \/ \E r \in Run : BeatWritesRun(c, r)
                \/ \E o \in Operation : BeatWritesOperation(c, o)
    <3>1. "LIVE" # "EXPIRED"
      OBVIOUS
    <3> QED
      BY <2>1, <1>1, <1>2, <3>1
  <2> QED
    BY <1>5, <1>7, <2>1 DEF Heartbeat
<1> QED
  BY <1>6, <1>7

LEMMA LeaseStepsType ==
    ASSUME TypeInv, Heartbeat \/ \E c \in Candidate : LeaseExpires(c)
    PROVE  TypeInv'
<1>1. beats' \subseteq [task : Tasks, candidate : Candidate, work : Run \cup Operation]
  <2>1. CASE Heartbeat
    BY <2>1, BeatsType
  <2>2. CASE \E c \in Candidate : LeaseExpires(c)
    BY <2>2 DEF LeaseExpires, RunLeaseExpires, OperationLeaseExpires, TypeInv, TypeOK
  <2> QED
    BY <2>1, <2>2
<1>2. UNCHANGED << rows, approval, version, selected, published, worker >>
  BY LeaseSteps
<1>3. CASE UNCHANGED << run, operation >>
  BY <1>1, <1>2, <1>3 DEF TypeInv, TypeOK, FiniteVersions, rows
<1>4. {"LIVE", "EXPIRED"} \subseteq LeaseState
  BY DEF LeaseState
<1>5. ASSUME NEW c \in Candidate, NEW r \in Run, NEW lease \in {"LIVE", "EXPIRED"},
             UNCHANGED operation,
             run' = [run EXCEPT ![c][r] = [run[c][r] EXCEPT !.lease = lease]]
      PROVE  TypeInv'
  <2>1. UNCHANGED << rows, approval, operation, version, selected, published, worker >>
    BY <1>2, <1>5
  <2> QED
    BY <1>1, <1>4, <1>5, <2>1, RunLeaseType
<1>6. ASSUME NEW c \in Candidate, NEW o \in Operation, NEW lease \in {"LIVE", "EXPIRED"},
             UNCHANGED run,
             operation' = [operation EXCEPT ![c][o] = [operation[c][o] EXCEPT !.lease = lease]]
      PROVE  TypeInv'
  <2>1. UNCHANGED << rows, approval, run, version, selected, published, worker >>
    BY <1>2, <1>6
  <2> QED
    BY <1>1, <1>4, <1>6, <2>1, OperationLeaseType
<1> QED
  BY <1>3, <1>5, <1>6, LeaseSteps

LEMMA StutterType == TypeInv /\ UNCHANGED vars => TypeInv'
BY DEF TypeInv, TypeOK, FiniteVersions, vars

LEMMA TypeNext == TypeInv /\ [Next]_vars => TypeInv'
<1> SUFFICES ASSUME TypeInv, [Next]_vars PROVE TypeInv'
  OBVIOUS
<1>1. ASSUME NEW c \in Candidate, Command(c) PROVE TypeInv'
  BY <1>1, EvaluateType, PromotionCheckType, CreateApprovalType, PromoteType,
     RevokeApprovalType, RetryOperationType DEF Command
<1>2. ASSUME NEW p \in Worker, Claim(p) PROVE TypeInv'
  BY <1>2, ClaimRunType, ClaimOperationType DEF Claim
<1>3. ASSUME NEW p \in Worker, NEW c \in Candidate, NEW r \in Run, EvaluationStep(p, c, r)
      PROVE  TypeInv'
  <2>1. CASE EvaluationAnswerIgnored(p, c, r)
    BY <2>1, DropType DEF EvaluationAnswerIgnored
  <2> QED
    BY <1>3, <2>1, EvaluationAttemptFailsType, EvaluationAnswerRejectedType,
       EvaluationCompletesType DEF EvaluationStep
<1>4. ASSUME NEW p \in Worker, NEW c \in Candidate, NEW o \in Operation, ActivationStep(p, c, o)
      PROVE  TypeInv'
  <2>1. CASE ActivationAnswerIgnored(p, c, o)
    BY <2>1, DropType DEF ActivationAnswerIgnored
  <2> QED
    BY <1>4, <2>1, PublishType, ActivationSucceedsType, ActivationRejectedType,
       ActivationFailsType DEF ActivationStep
<1>5. ASSUME NEW p \in Worker, WorkerCrash(p) PROVE TypeInv'
  BY <1>5, DropType DEF WorkerCrash
<1>6. CASE Environment
  BY <1>5, <1>6, LeaseStepsType, PublishType DEF Environment
<1> QED
  BY <1>1, <1>2, <1>3, <1>4, <1>6, DeadLetterType, StutterType DEF Next, AttemptStep

\* Type correctness: whatever the commands, crashes and late answers, every row
\* keeps to its columns' types, no attempt counter passes max_attempts and no
\* revision, version number or token leaves its range.
THEOREM TypeCorrect == Spec => []TypeOK
<1>1. Init => TypeInv
  BY TypeInit
<1>2. TypeInv /\ [Next]_vars => TypeInv'
  BY TypeNext
<1>3. TypeInv => TypeOK
  BY DEF TypeInv
<1> QED
  BY <1>1, <1>2, <1>3, PTL DEF Spec

(***************************************************************************)
(* Leases and failed operations.                                           *)
(*                                                                         *)
(* A lease is a matter of one row: every action changes a row of work by   *)
(* one of a few row steps, and each of them keeps leases and statuses      *)
(* together.  That a candidate never has two operations which may still    *)
(* publish is not inductive: it needs that a failure leaves a blocker      *)
(* naming it, which in turn needs that no older failure's blocker is left. *)
(***************************************************************************)

\* How an action may change a row of leased work.
RowStep(w, x) ==
    \/ x = w
    \/ \E id \in WorkerId : Claimable(w) /\ x = Claimed(w, id)
    \/ \E status \in {"SUCCEEDED", "FAILED"} : x = Released(w, status)
    \/ w.attempts < MaxAttempts /\ x = Released(w, "QUEUED")
    \/ \E lease \in {"LIVE", "EXPIRED"} : x = [w EXCEPT !.lease = lease]

RunStep(w, x) == RowStep(w, x) \/ x = Queued

OperationStep(w, x) ==
    \/ RowStep(w, x)
    \/ x = Restarted(w)
    \/ \E row \in CandidateRow, dec \in DecisionRow, used \in SUBSET Approval :
          x = NewOperation(row, dec, used)

LEMMA RowStepOwned ==
    ASSUME NEW w \in WorkRow \cup OperationRow, OwnedRow(w), NEW x, RowStep(w, x)
    PROVE  OwnedRow(x)
<1>1. w.attempts \in 0..MaxAttempts /\ NoOwner \notin WorkerId
  BY WorkerAssumption DEF WorkRow, OperationRow
<1>2. ASSUME NEW id \in WorkerId, Claimable(w), x = Claimed(w, id) PROVE OwnedRow(x)
  <2>1. x.status = "RUNNING" /\ x.owner = id /\ x.lease = "LIVE" /\ x.attempts = w.attempts + 1
    BY <1>2 DEF Claimed, WorkRow, OperationRow
  <2>2. w.attempts + 1 \in 1..MaxAttempts
    BY <1>1, <1>2, BoundAssumption, AttemptsAssumption DEF Claimable
  <2> QED
    BY <1>1, <2>1, <2>2 DEF OwnedRow
<1>3. ASSUME NEW status \in {"QUEUED", "SUCCEEDED", "FAILED"}, x = Released(w, status),
             status = "QUEUED" => w.attempts < MaxAttempts
      PROVE  OwnedRow(x)
  <2>1. x.status = status /\ x.owner = NoOwner /\ x.attempts = w.attempts
    BY <1>3 DEF Released, WorkRow, OperationRow
  <2> QED
    BY <1>3, <2>1 DEF OwnedRow
<1>4. ASSUME NEW lease \in {"LIVE", "EXPIRED"}, x = [w EXCEPT !.lease = lease]
      PROVE  OwnedRow(x)
  <2>1. x.status = w.status /\ x.owner = w.owner /\ x.lease = lease /\ x.attempts = w.attempts
    BY <1>4 DEF WorkRow, OperationRow
  <2>2. lease # "NONE"
    OBVIOUS
  <2> QED
    BY <2>1, <2>2 DEF OwnedRow
<1>5. "QUEUED" # "SUCCEEDED" /\ "QUEUED" # "FAILED"
  OBVIOUS
<1> QED
  BY <1>2, <1>3, <1>4, <1>5 DEF RowStep

LEMMA RunStepOwned ==
    ASSUME NEW w \in WorkRow, OwnedRow(w), NEW x, RunStep(w, x)
    PROVE  OwnedRow(x)
<1>1. OwnedRow(Queued)
  BY AttemptsAssumption DEF OwnedRow, Queued, Absent
<1> QED
  BY <1>1, RowStepOwned DEF RunStep

LEMMA OperationStepOwned ==
    ASSUME NEW w \in OperationRow, OwnedRow(w), NEW x, OperationStep(w, x)
    PROVE  OwnedRow(x)
<1>1. OwnedRow(Restarted(w))
  <2>1. Restarted(w).status = "QUEUED" /\ Restarted(w).owner = NoOwner /\ Restarted(w).attempts = 0
    BY DEF Restarted, Released, OperationRow
  <2> QED
    BY <2>1, AttemptsAssumption DEF OwnedRow
<1>2. \A row, dec, used : OwnedRow(NewOperation(row, dec, used))
  BY AttemptsAssumption DEF OwnedRow, NewOperation, NoOperation
<1> QED
  BY <1>1, <1>2, RowStepOwned DEF OperationStep

\* A change of one slot is a step of that row and leaves the others alone.
LEMMA RunUpdate ==
    ASSUME TypeInv, NEW c \in Candidate, NEW r \in Run, NEW x, RunStep(run[c][r], x),
           run' = [run EXCEPT ![c][r] = x]
    PROVE  \A d \in Candidate : \A s \in Run : RunStep(run[d][s], run'[d][s])
BY DEF TypeInv, TypeOK, RunStep, RowStep

LEMMA OperationUpdate ==
    ASSUME TypeInv, NEW c \in Candidate, NEW o \in Operation, NEW x,
           OperationStep(operation[c][o], x),
           operation' = [operation EXCEPT ![c][o] = x]
    PROVE  \A d \in Candidate : \A i \in Operation :
              OperationStep(operation[d][i], operation'[d][i])
BY DEF TypeInv, TypeOK, OperationStep, RowStep

LEMMA RunSteps ==
    TypeInv /\ [Next]_vars =>
        \A d \in Candidate : \A s \in Run : RunStep(run[d][s], run'[d][s])
<1> DEFINE Goal == \A d \in Candidate : \A s \in Run : RunStep(run[d][s], run'[d][s])
<1> SUFFICES ASSUME TypeInv, [Next]_vars PROVE Goal
  OBVIOUS
<1>1. ASSUME UNCHANGED run PROVE Goal
  BY <1>1 DEF RunStep, RowStep
<1>2. ASSUME NEW c \in Candidate, NEW r \in Run, NEW status \in {"QUEUED", "SUCCEEDED", "FAILED"},
             status = "QUEUED" => run[c][r].attempts < MaxAttempts,
             run' = [run EXCEPT ![c][r] = Released(run[c][r], status)]
      PROVE  Goal
  <2>1. RunStep(run[c][r], Released(run[c][r], status))
    BY <1>2 DEF RunStep, RowStep
  <2> QED
    BY <1>2, <2>1, RunUpdate
<1>3. ASSUME NEW c \in Candidate, NEW r \in Run, NEW lease \in {"LIVE", "EXPIRED"},
             run' = [run EXCEPT ![c][r] = [run[c][r] EXCEPT !.lease = lease]]
      PROVE  Goal
  <2>1. RunStep(run[c][r], [run[c][r] EXCEPT !.lease = lease])
    BY DEF RunStep, RowStep
  <2> QED
    BY <1>3, <2>1, RunUpdate
<1>4. ASSUME NEW c \in Candidate, Command(c) PROVE Goal
  <2>1. CASE Evaluate(c)
    <3>1. PICK r \in Run : run' = [run EXCEPT ![c][r] = Queued]
      BY <2>1 DEF Evaluate
    <3>2. RunStep(run[c][r], Queued)
      BY DEF RunStep
    <3> QED
      BY <3>1, <3>2, RunUpdate
  <2> QED
    BY <1>1, <1>4, <2>1 DEF Command, PromotionCheck, CreateApproval, Promote,
       RevokeApproval, RetryOperation
<1>5. ASSUME NEW p \in Worker, Claim(p) PROVE Goal
  <2>1. ASSUME NEW c \in Candidate, NEW r \in Run, ClaimRun(p, c, r) PROVE Goal
    <3>1. RunStep(run[c][r], Claimed(run[c][r], IdOf[p]))
      BY <2>1, WorkerAssumption DEF RunStep, RowStep, ClaimRun
    <3>2. run' = [run EXCEPT ![c][r] = Claimed(run[c][r], IdOf[p])]
      BY <2>1 DEF ClaimRun, TypeInv, TypeOK
    <3> QED
      BY <3>1, <3>2, RunUpdate
  <2> QED
    BY <1>1, <1>5, <2>1 DEF Claim, ClaimOperation
<1>6. ASSUME NEW p \in Worker, NEW c \in Candidate, NEW r \in Run, EvaluationStep(p, c, r)
      PROVE  Goal
  <2>1. CASE EvaluationAttemptFails(p, c, r)
    <3>1. PICK status \in {"QUEUED", "FAILED"} :
             /\ status = "QUEUED" => ~(run[c][r].attempts >= MaxAttempts)
             /\ run' = [run EXCEPT ![c][r] = Released(run[c][r], status)]
      BY <2>1 DEF EvaluationAttemptFails, TypeInv, TypeOK
    <3>2. run[c][r] \in WorkRow
      BY DEF TypeInv, TypeOK
    <3>3. status = "QUEUED" => run[c][r].attempts < MaxAttempts
      BY <3>1, <3>2, AttemptsAssumption DEF WorkRow
    <3> QED
      BY <3>1, <3>3, <1>2
  <2>2. CASE EvaluationAnswerRejected(p, c, r)
    <3>1. run' = [run EXCEPT ![c][r] = Released(run[c][r], "FAILED")]
      BY <2>2 DEF EvaluationAnswerRejected, TypeInv, TypeOK
    <3> QED
      BY <3>1, <1>2
  <2>3. CASE EvaluationCompletes(p, c, r)
    <3>1. PICK g \in Verdict : CompletesWith(c, r, g)
      BY <2>3 DEF EvaluationCompletes
    <3>2. \/ UNCHANGED run
          \/ run' = [run EXCEPT ![c][r] = Released(run[c][r], "SUCCEEDED")]
      BY <3>1 DEF CompletesWith, StoreResults, TypeInv, TypeOK
    <3> QED
      BY <3>2, <1>1, <1>2
  <2>4. CASE EvaluationAnswerIgnored(p, c, r)
    BY <2>4, <1>1 DEF EvaluationAnswerIgnored
  <2> QED
    BY <1>6, <2>1, <2>2, <2>3, <2>4 DEF EvaluationStep
<1>7. ASSUME NEW p \in Worker, NEW c \in Candidate, NEW o \in Operation, ActivationStep(p, c, o)
      PROVE  Goal
  BY <1>1, <1>7 DEF ActivationStep, Publish, ActivationSucceeds, ActivationRejected,
     ActivationFails, ActivationAnswerIgnored
<1>8. ASSUME NEW p \in Worker, DeadLetter(p) PROVE Goal
  <2>1. \A d \in Candidate : \A s \in Run :
           run'[d][s] = run[d][s] \/ run'[d][s] = Released(run[d][s], "FAILED")
    BY <1>8 DEF DeadLetter
  <2> QED
    BY <2>1 DEF RunStep, RowStep
<1>9. CASE Environment
  <2>1. CASE Heartbeat \/ \E c \in Candidate : LeaseExpires(c)
    BY <1>1, <1>3, <2>1, LeaseSteps
  <2> QED
    BY <1>1, <1>9, <2>1 DEF Environment, WorkerCrash, PublicationAnswerLost
<1> QED
  BY <1>1, <1>4, <1>5, <1>6, <1>7, <1>8, <1>9 DEF Next, AttemptStep, vars

LEMMA OperationSteps ==
    TypeInv /\ [Next]_vars =>
        \A d \in Candidate : \A i \in Operation : OperationStep(operation[d][i], operation'[d][i])
<1> DEFINE Goal == \A d \in Candidate : \A i \in Operation :
                      OperationStep(operation[d][i], operation'[d][i])
<1> SUFFICES ASSUME TypeInv, [Next]_vars PROVE Goal
  OBVIOUS
<1>1. ASSUME UNCHANGED operation PROVE Goal
  BY <1>1 DEF OperationStep, RowStep
<1>2. ASSUME NEW c \in Candidate, NEW o \in Operation,
             NEW status \in {"QUEUED", "SUCCEEDED", "FAILED"},
             status = "QUEUED" => operation[c][o].attempts < MaxAttempts,
             operation' = [operation EXCEPT ![c][o] = Released(operation[c][o], status)]
      PROVE  Goal
  <2>1. OperationStep(operation[c][o], Released(operation[c][o], status))
    BY <1>2 DEF OperationStep, RowStep
  <2> QED
    BY <1>2, <2>1, OperationUpdate
<1>3. ASSUME NEW c \in Candidate, NEW o \in Operation, NEW lease \in {"LIVE", "EXPIRED"},
             operation' = [operation EXCEPT ![c][o] = [operation[c][o] EXCEPT !.lease = lease]]
      PROVE  Goal
  <2>1. OperationStep(operation[c][o], [operation[c][o] EXCEPT !.lease = lease])
    BY DEF OperationStep, RowStep
  <2> QED
    BY <1>3, <2>1, OperationUpdate
<1>4. ASSUME NEW c \in Candidate, NEW o \in Operation, NEW row \in CandidateRow,
             NEW dec \in DecisionRow, NEW used \in SUBSET Approval,
             operation' = [operation EXCEPT ![c][o] = NewOperation(row, dec, used)]
      PROVE  Goal
  <2>1. OperationStep(operation[c][o], NewOperation(row, dec, used))
    BY DEF OperationStep
  <2> QED
    BY <1>4, <2>1, OperationUpdate
<1>5. ASSUME NEW c \in Candidate, Command(c) PROVE Goal
  <2>1. CASE Promote(c)
    <3> DEFINE used == Oldest(Usable(approval[c], candidate[c], decision[c]))
    <3>1. candidate[c] \in CandidateRow /\ decision[c] \in DecisionRow /\ used \in SUBSET Approval
      BY UsableType DEF TypeInv, TypeOK
    <3>2. \E o \in Operation : operation' = [operation EXCEPT ![c][o] =
                                  NewOperation(candidate[c], decision[c], used)]
      BY <2>1 DEF Promote
    <3> HIDE DEF used
    <3> QED
      BY <3>1, <3>2, <1>4
  <2>2. ASSUME NEW o \in Operation, RetryOperation(c, o) PROVE Goal
    <3>1. operation' = [operation EXCEPT ![c][o] = Restarted(operation[c][o])]
      BY <2>2 DEF RetryOperation, TypeInv, TypeOK
    <3>2. OperationStep(operation[c][o], Restarted(operation[c][o]))
      BY DEF OperationStep
    <3> QED
      BY <3>1, <3>2, OperationUpdate
  <2> QED
    BY <1>1, <1>5, <2>1, <2>2 DEF Command, Evaluate, PromotionCheck, CreateApproval,
       RevokeApproval
<1>6. ASSUME NEW p \in Worker, Claim(p) PROVE Goal
  <2>1. ASSUME NEW c \in Candidate, NEW o \in Operation, ClaimOperation(p, c, o) PROVE Goal
    <3>1. OperationStep(operation[c][o], Claimed(operation[c][o], IdOf[p]))
      BY <2>1, WorkerAssumption DEF OperationStep, RowStep, ClaimOperation
    <3>2. operation' = [operation EXCEPT ![c][o] = Claimed(operation[c][o], IdOf[p])]
      BY <2>1 DEF ClaimOperation, TypeInv, TypeOK
    <3> QED
      BY <3>1, <3>2, OperationUpdate
  <2> QED
    BY <1>1, <1>6, <2>1 DEF Claim, ClaimRun
<1>7. ASSUME NEW p \in Worker, NEW c \in Candidate, NEW r \in Run, EvaluationStep(p, c, r)
      PROVE  Goal
  <2>1. CASE EvaluationCompletes(p, c, r)
    <3>1. PICK g \in Verdict : CompletesWith(c, r, g)
      BY <2>1 DEF EvaluationCompletes
    <3> DEFINE evidence == Evidence(c) \cup {r}
               row == GatedRow(candidate[c], blockers[c], g, evidence)
               dec == GatedDecision(decision[c], candidate[c], g, evidence)
               used == Oldest(Usable(approval[c], row, dec))
    <3>2. \/ UNCHANGED operation
          \/ \E o \in Operation :
                operation' = [operation EXCEPT ![c][o] = NewOperation(row, dec, used)]
      BY <3>1 DEF CompletesWith
    <3>3. row \in CandidateRow /\ dec \in DecisionRow /\ used \in SUBSET Approval
      <4>1. /\ candidate[c] \in CandidateRow /\ blockers[c] \in SUBSET BlockerRow
            /\ decision[c] \in DecisionRow /\ evidence \in SUBSET Run
        BY EvidenceType DEF TypeInv, TypeOK
      <4> HIDE DEF evidence
      <4> QED
        BY <4>1, GatedRowType, GatedDecisionType, UsableType
    <3> QED
      BY <3>2, <3>3, <1>1, <1>4
  <2> QED
    BY <1>1, <1>7, <2>1 DEF EvaluationStep, EvaluationAttemptFails,
       EvaluationAnswerRejected, EvaluationAnswerIgnored
<1>8. ASSUME NEW p \in Worker, NEW c \in Candidate, NEW o \in Operation, ActivationStep(p, c, o)
      PROVE  Goal
  <2>1. CASE ActivationFails(p, c, o)
    <3>1. \E status \in {"QUEUED", "FAILED"} :
             /\ status = "QUEUED" => operation[c][o].attempts < MaxAttempts
             /\ operation' = [operation EXCEPT ![c][o] = Released(operation[c][o], status)]
      BY <2>1 DEF ActivationFails, TypeInv, TypeOK
    <3> QED
      BY <3>1, <1>2
  <2>2. CASE ActivationSucceeds(p, c, o)
    <3>1. operation' = [operation EXCEPT ![c][o] = Released(operation[c][o], "SUCCEEDED")]
      BY <2>2 DEF ActivationSucceeds, TypeInv, TypeOK
    <3> QED
      BY <3>1, <1>2
  <2>3. CASE ActivationRejected(p, c, o)
    <3>1. operation' = [operation EXCEPT ![c][o] = Released(operation[c][o], "FAILED")]
      BY <2>3 DEF ActivationRejected, TypeInv, TypeOK
    <3> QED
      BY <3>1, <1>2
  <2> QED
    BY <1>1, <1>8, <2>1, <2>2, <2>3 DEF ActivationStep, Publish, ActivationAnswerIgnored
<1>9. ASSUME NEW p \in Worker, DeadLetter(p) PROVE Goal
  <2>1. \A d \in Candidate : \A i \in Operation :
           \/ operation'[d][i] = operation[d][i]
           \/ operation'[d][i] = Released(operation[d][i], "FAILED")
    BY <1>9 DEF DeadLetter
  <2> QED
    BY <2>1 DEF OperationStep, RowStep
<1>10. CASE Environment
  <2>1. CASE Heartbeat \/ \E c \in Candidate : LeaseExpires(c)
    BY <1>1, <1>3, <2>1, LeaseSteps
  <2> QED
    BY <1>1, <1>10, <2>1 DEF Environment, WorkerCrash, PublicationAnswerLost
<1> QED
  BY <1>1, <1>5, <1>6, <1>7, <1>8, <1>9, <1>10 DEF Next, AttemptStep, vars

LEMMA OwnedInit == Init => OwnedWhileRunning
<1>1. OwnedRow(Queued) /\ OwnedRow(Absent) /\ OwnedRow(NoOperation)
  BY AttemptsAssumption DEF OwnedRow, Queued, Absent, NoOperation
<1> QED
  BY <1>1 DEF Init, OwnedWhileRunning

LEMMA OwnedNext ==
    TypeInv /\ OwnedWhileRunning /\ [Next]_vars => OwnedWhileRunning'
<1> SUFFICES ASSUME TypeInv, OwnedWhileRunning, [Next]_vars PROVE OwnedWhileRunning'
  OBVIOUS
<1>1. ASSUME NEW c \in Candidate, NEW r \in Run PROVE OwnedRow(run'[c][r])
  <2>1. run[c][r] \in WorkRow /\ OwnedRow(run[c][r])
    BY DEF TypeInv, TypeOK, OwnedWhileRunning
  <2>2. RunStep(run[c][r], run'[c][r])
    BY RunSteps
  <2> QED
    BY <2>1, <2>2, RunStepOwned
<1>2. ASSUME NEW c \in Candidate, NEW o \in Operation PROVE OwnedRow(operation'[c][o])
  <2>1. operation[c][o] \in OperationRow /\ OwnedRow(operation[c][o])
    BY DEF TypeInv, TypeOK, OwnedWhileRunning
  <2>2. OperationStep(operation[c][o], operation'[c][o])
    BY OperationSteps
  <2> QED
    BY <2>1, <2>2, OperationStepOwned
<1> QED
  BY <1>1, <1>2 DEF OwnedWhileRunning

\* A row has an owner exactly while it runs, with a deadline and within its
\* attempts, and what is queued has one left: whatever completes, is retried, or is
\* dead-lettered, and however late a heartbeat's write arrives (LeaseHeartbeat).
THEOREM OwnershipFollowsWork == Spec => []OwnedWhileRunning
<1>1. Init => TypeInv /\ OwnedWhileRunning
  BY TypeInit, OwnedInit
<1>2. TypeInv /\ OwnedWhileRunning /\ [Next]_vars => (TypeInv /\ OwnedWhileRunning)'
  BY TypeNext, OwnedNext
<1> QED
  BY <1>1, <1>2, PTL DEF Spec

-----------------------------------------------------------------------------
(***************************************************************************)
(* At most one operation that may still publish.  What an action does to   *)
(* the operations of a candidate and to its registry blockers is one of    *)
(* four things: nothing that matters, a new operation, a failure, a retry. *)
(***************************************************************************)
RegistryBlockers(bs) == {b \in bs : b.code \in RegistryBlockerCodes}

SameStatus(c, i) == operation'[c][i].status = operation[c][i].status

Quiet(c) ==
    /\ \A i \in Operation :
          \/ SameStatus(c, i)
          \/ /\ operation[c][i].status \in Unfinished
             /\ operation'[c][i].status \in Unfinished \cup {"SUCCEEDED"}
    /\ RegistryBlockers(blockers'[c]) = RegistryBlockers(blockers[c])

Queues(c) ==
    /\ \A i \in Operation : operation[c][i].status \notin Unfinished
    /\ RegistryBlockers(blockers[c]) = {}
    /\ RegistryBlockers(blockers'[c]) = {}
    /\ \E o \in Operation :
          /\ operation'[c][o].status = "QUEUED"
          /\ \A i \in Operation : i # o => SameStatus(c, i)

Fails(c) ==
    \E o \in Operation, code \in RegistryBlockerCodes :
        /\ operation[c][o].status \in Unfinished
        /\ operation'[c][o].status = "FAILED"
        /\ \A i \in Operation : i # o => SameStatus(c, i)
        /\ RegistryBlockers(blockers'[c]) =
              Blocked(RegistryBlockers(blockers[c]), code, o)

Retries(c) ==
    \E o \in Operation :
        /\ operation[c][o].status = "FAILED"
        /\ operation'[c][o].status = "QUEUED"
        /\ \A i \in Operation : i # o => SameStatus(c, i)
        /\ RegistryBlockers(blockers'[c]) =
              Cleared(RegistryBlockers(blockers[c]), o)

\* One unresolved operation, a blocker for a failed one, and no other registry
\* blocker: inductive together, not apart.
OneUnresolvedInv ==
    OneUnresolvedOperation /\ FailedOperationBlocks /\ RegistryBlockersAreCurrent

InvOf(c) ==
    /\ \A o1, o2 \in Unresolved(c) : o1 = o2
    /\ \A o \in Operation :
          operation[c][o].status = "FAILED" =>
              \E b \in RegistryBlockers(blockers[c]) : b.operation = o
    /\ \A b \in RegistryBlockers(blockers[c]) :
          b.operation \in Operation /\ operation[c][b.operation].status = "FAILED"

LEMMA InvOfAll == OneUnresolvedInv <=> \A c \in Candidate : InvOf(c)
BY DEF OneUnresolvedInv, OneUnresolvedOperation, FailedOperationBlocks,
   RegistryBlockersAreCurrent, InvOf, RegistryBlockers

LEMMA QuietKeeps ==
    ASSUME NEW c \in Candidate, InvOf(c), Quiet(c) PROVE InvOf(c)'
BY DEF InvOf, Quiet, SameStatus, Unresolved, Unfinished

LEMMA QueuesKeeps ==
    ASSUME NEW c \in Candidate, InvOf(c), Queues(c) PROVE InvOf(c)'
<1>1. PICK o \in Operation :
          /\ operation'[c][o].status = "QUEUED"
          /\ \A i \in Operation : i # o => SameStatus(c, i)
  BY DEF Queues
<1>2. Unresolved(c) = {}
  BY DEF InvOf, Queues, Unresolved, Unfinished
<1>3. Unresolved(c)' \subseteq {o}
  BY <1>1, <1>2 DEF Unresolved, SameStatus
<1> QED
  BY <1>1, <1>2, <1>3 DEF InvOf, Queues, Unresolved, SameStatus

LEMMA FailsKeeps ==
    ASSUME NEW c \in Candidate, InvOf(c), Fails(c) PROVE InvOf(c)'
<1>1. PICK o \in Operation, code \in RegistryBlockerCodes :
        /\ operation[c][o].status \in Unfinished
        /\ operation'[c][o].status = "FAILED"
        /\ \A i \in Operation : i # o => SameStatus(c, i)
        /\ RegistryBlockers(blockers'[c]) =
              Blocked(RegistryBlockers(blockers[c]), code, o)
  BY DEF Fails
<1>2. Unresolved(c) = {o}
  BY <1>1 DEF InvOf, Unresolved, Unfinished
<1>3. RegistryBlockers(blockers[c]) = {}
  BY <1>1, <1>2 DEF InvOf, Unresolved, Unfinished
<1>4. RegistryBlockers(blockers'[c]) = {[code |-> code, operation |-> o]}
  BY <1>1, <1>3 DEF Blocked
<1>5. Unresolved(c)' \subseteq {o}
  BY <1>1, <1>2 DEF Unresolved, SameStatus
<1> QED
  BY <1>1, <1>4, <1>5 DEF InvOf, Unresolved

LEMMA RetriesKeeps ==
    ASSUME NEW c \in Candidate, InvOf(c), Retries(c) PROVE InvOf(c)'
<1>1. PICK o \in Operation :
        /\ operation[c][o].status = "FAILED"
        /\ operation'[c][o].status = "QUEUED"
        /\ \A i \in Operation : i # o => SameStatus(c, i)
        /\ RegistryBlockers(blockers'[c]) =
              Cleared(RegistryBlockers(blockers[c]), o)
  BY DEF Retries
<1>2. Unresolved(c) = {o}
  BY <1>1 DEF InvOf, Unresolved
<1>3. \A b \in RegistryBlockers(blockers[c]) : b.operation = o
  BY <1>2 DEF InvOf, Unresolved
<1>4. RegistryBlockers(blockers'[c]) = {}
  BY <1>1, <1>3 DEF Cleared, RegistryBlockers
<1>5. Unresolved(c)' \subseteq {o}
  BY <1>1, <1>2 DEF Unresolved, SameStatus
<1> QED
  BY <1>1, <1>4, <1>5 DEF InvOf, Unresolved

LEMMA BlockedDerived ==
    ASSUME NEW bs, NEW code, code \notin RegistryBlockerCodes, NEW o
    PROVE  RegistryBlockers(Blocked(bs, code, o)) = RegistryBlockers(bs)
BY DEF Blocked, RegistryBlockers

LEMMA BlockedRegistry ==
    ASSUME NEW bs, NEW code \in RegistryBlockerCodes, NEW o
    PROVE  RegistryBlockers(Blocked(bs, code, o)) = Blocked(RegistryBlockers(bs), code, o)
BY DEF Blocked, RegistryBlockers

LEMMA ClearedRegistry ==
    ASSUME NEW bs, NEW o
    PROVE  RegistryBlockers(Cleared(bs, o)) = Cleared(RegistryBlockers(bs), o)
BY DEF Cleared, RegistryBlockers

LEMMA RegatedRegistry ==
    ASSUME NEW bs, NEW g
    PROVE  RegistryBlockers(Regated(bs, g)) = RegistryBlockers(bs)
<1> DEFINE kept == {b \in bs : b.code \notin DerivedBlockerCodes}
<1>1. RegistryBlockers(kept) = RegistryBlockers(bs)
  BY DEF RegistryBlockers, DerivedBlockerCodes, RegistryBlockerCodes
<1>2. /\ RegistryBlockers(Blocked(kept, "HARD_GATE_FAILED", 0)) = RegistryBlockers(kept)
      /\ RegistryBlockers(Blocked(kept, "EVALUATION_REQUIREMENTS_INCOMPLETE", 0))
            = RegistryBlockers(kept)
  BY BlockedDerived DEF RegistryBlockerCodes
<1> QED
  BY <1>1, <1>2 DEF Regated

\* The step leaves candidate d alone, or what it does is one of the four.
Classified(d) == Quiet(d) \/ Queues(d) \/ Fails(d) \/ Retries(d)

LEMMA QuietStatuses ==
    ASSUME NEW d,
           \A i \in Operation : SameStatus(d, i),
           RegistryBlockers(blockers'[d]) = RegistryBlockers(blockers[d])
    PROVE  Quiet(d)
BY DEF Quiet

\* Whoever holds the operation finds it running.
LEMMA HeldIsRunning ==
    ASSUME OwnedWhileRunning, NEW p \in Worker, NEW c \in Candidate, NEW o \in Operation,
           Holds(operation[c][o], p)
    PROVE  operation[c][o].status = "RUNNING"
BY WorkerAssumption DEF OwnedWhileRunning, OwnedRow, Holds

LEMMA CommandClassified ==
    ASSUME TypeInv, OneUnresolvedInv, NEW c \in Candidate, Command(c),
           NEW d \in Candidate
    PROVE  Classified(d)
<1>1. CASE Evaluate(c)
  BY <1>1, QuietStatuses DEF Evaluate, Classified, SameStatus
<1>2. CASE PromotionCheck(c)
  <2>1. RegistryBlockers(blockers'[d]) = RegistryBlockers(blockers[d])
    BY <1>2, RegatedRegistry DEF PromotionCheck, TypeInv, TypeOK
  <2> QED
    BY <1>2, <2>1, QuietStatuses DEF PromotionCheck, Classified, SameStatus
<1>3. CASE CreateApproval(c)
  BY <1>3, QuietStatuses DEF CreateApproval, Classified, SameStatus
<1>4. ASSUME NEW a \in Approval, RevokeApproval(c, a) PROVE Classified(d)
  BY <1>4, QuietStatuses DEF RevokeApproval, Classified, SameStatus
<1>5. CASE Promote(c)
  <2> DEFINE op == NewOperation(candidate[c], decision[c],
                                Oldest(Usable(approval[c], candidate[c], decision[c])))
  <2>1. op.status = "QUEUED"
    BY DEF NewOperation, NoOperation
  <2>2. /\ \A i \in Operation : operation[c][i].status \notin Unfinished
        /\ blockers[c] = {} /\ UNCHANGED blockers
        /\ \E o \in Operation : operation' = [operation EXCEPT ![c][o] = op]
    BY <1>5 DEF Promote, MayQueue
  <2> HIDE DEF op
  <2>3. CASE d = c
    <3>1. PICK o \in Operation : operation' = [operation EXCEPT ![c][o] = op]
      BY <2>2
    <3>2. operation'[c][o].status = "QUEUED" /\ \A i \in Operation : i # o => SameStatus(c, i)
      BY <3>1, <2>1 DEF SameStatus, TypeInv, TypeOK
    <3>3. RegistryBlockers(blockers[c]) = {} /\ RegistryBlockers(blockers'[c]) = {}
      BY <2>2 DEF RegistryBlockers
    <3> QED
      BY <2>2, <2>3, <3>2, <3>3 DEF Classified, Queues
  <2>4. CASE d # c
    BY <2>2, <2>4, QuietStatuses DEF Classified, SameStatus, TypeInv, TypeOK
  <2> QED
    BY <2>3, <2>4
<1>6. ASSUME NEW o \in Operation, RetryOperation(c, o) PROVE Classified(d)
  <2> DEFINE op == Restarted(operation[c][o])
  <2>1. op.status = "QUEUED"
    BY DEF Restarted, Released, TypeInv, TypeOK, OperationRow
  <2>2. /\ operation[c][o].status = "FAILED"
        /\ operation' = [operation EXCEPT ![c][o] = op]
        /\ blockers' = [blockers EXCEPT ![c] = Cleared(blockers[c], o)]
    BY <1>6 DEF RetryOperation, MayRetry, TypeInv, TypeOK
  <2> HIDE DEF op
  <2>3. CASE d = c
    <3>1. operation'[c][o].status = "QUEUED" /\ \A i \in Operation : i # o => SameStatus(c, i)
      BY <2>1, <2>2 DEF SameStatus, TypeInv, TypeOK
    <3>2. RegistryBlockers(blockers'[c]) = Cleared(RegistryBlockers(blockers[c]), o)
      BY <2>2, ClearedRegistry DEF TypeInv, TypeOK
    <3> QED
      BY <2>2, <2>3, <3>1, <3>2 DEF Classified, Retries
  <2>4. CASE d # c
    BY <2>2, <2>4, QuietStatuses DEF Classified, SameStatus, TypeInv, TypeOK
  <2> QED
    BY <2>3, <2>4
<1> QED
  BY <1>1, <1>2, <1>3, <1>4, <1>5, <1>6 DEF Command

LEMMA EvaluationClassified ==
    ASSUME TypeInv, OneUnresolvedInv, NEW p \in Worker, NEW c \in Candidate, NEW r \in Run,
           EvaluationStep(p, c, r), NEW d \in Candidate
    PROVE  Classified(d)
<1>1. CASE EvaluationAttemptFails(p, c, r)
  <2>1. RegistryBlockers(blockers'[d]) = RegistryBlockers(blockers[d])
    <3>1. RegistryBlockers(Blocked(blockers[c], "EVALUATION_PROVIDER_FAILED", 0))
             = RegistryBlockers(blockers[c])
      BY BlockedDerived DEF RegistryBlockerCodes
    <3>2. \/ UNCHANGED blockers
          \/ blockers' = [blockers EXCEPT ![c] =
                             Blocked(blockers[c], "EVALUATION_PROVIDER_FAILED", 0)]
      BY <1>1 DEF EvaluationAttemptFails
    <3> QED
      BY <3>1, <3>2 DEF TypeInv, TypeOK
  <2> QED
    BY <1>1, <2>1, QuietStatuses DEF EvaluationAttemptFails, Classified, SameStatus
<1>2. CASE EvaluationAnswerRejected(p, c, r) \/ EvaluationAnswerIgnored(p, c, r)
  BY <1>2, QuietStatuses DEF EvaluationAnswerRejected, EvaluationAnswerIgnored,
     Classified, SameStatus
<1>3. CASE EvaluationCompletes(p, c, r)
  <2>1. PICK g \in Verdict : CompletesWith(c, r, g)
    BY <1>3 DEF EvaluationCompletes
  <2> DEFINE evidence == Evidence(c) \cup {r}
             row == GatedRow(candidate[c], blockers[c], g, evidence)
             bs == Regated(blockers[c], g)
             dec == GatedDecision(decision[c], candidate[c], g, evidence)
             op == NewOperation(row, dec, Oldest(Usable(approval[c], row, dec)))
  <2>2. RegistryBlockers(bs) = RegistryBlockers(blockers[c])
    BY RegatedRegistry
  <2>3. op.status = "QUEUED"
    BY DEF NewOperation, NoOperation
  <2>4. \/ UNCHANGED << operation, blockers >>
        \/ UNCHANGED operation /\ blockers' = [blockers EXCEPT ![c] = bs]
        \/ /\ \A i \in Operation : operation[c][i].status \notin Unfinished
           /\ bs = {}
           /\ blockers' = [blockers EXCEPT ![c] = bs]
           /\ \E o \in Operation : operation' = [operation EXCEPT ![c][o] = op]
    BY <2>1 DEF CompletesWith, StoreResults, MayQueue, rows
  <2> HIDE DEF op, dec, bs, row, evidence
  <2>5. CASE UNCHANGED << operation, blockers >>
    BY <2>5, QuietStatuses DEF Classified, SameStatus
  <2>6. CASE UNCHANGED operation /\ blockers' = [blockers EXCEPT ![c] = bs]
    <3>1. RegistryBlockers(blockers'[d]) = RegistryBlockers(blockers[d])
      BY <2>2, <2>6 DEF TypeInv, TypeOK
    <3> QED
      BY <2>6, <3>1, QuietStatuses DEF Classified, SameStatus
  <2>7. CASE /\ \A i \in Operation : operation[c][i].status \notin Unfinished
             /\ bs = {}
             /\ blockers' = [blockers EXCEPT ![c] = bs]
             /\ \E o \in Operation : operation' = [operation EXCEPT ![c][o] = op]
    <3>1. PICK o \in Operation : operation' = [operation EXCEPT ![c][o] = op]
      BY <2>7
    <3>2. CASE d = c
      <4>1. operation'[c][o].status = "QUEUED" /\ \A i \in Operation : i # o => SameStatus(c, i)
        BY <3>1, <2>3 DEF SameStatus, TypeInv, TypeOK
      <4>2. RegistryBlockers(blockers[c]) = {} /\ RegistryBlockers(blockers'[c]) = {}
        BY <2>2, <2>7 DEF RegistryBlockers, TypeInv, TypeOK
      <4> QED
        BY <2>7, <3>2, <4>1, <4>2 DEF Classified, Queues
    <3>3. CASE d # c
      BY <2>7, <3>1, <3>3, QuietStatuses DEF Classified, SameStatus, TypeInv, TypeOK
    <3> QED
      BY <3>2, <3>3
  <2> QED
    BY <2>4, <2>5, <2>6, <2>7
<1> QED
  BY <1>1, <1>2, <1>3 DEF EvaluationStep

\* The end of a failed operation: this one fails, under a registry blocker.
LEMMA FailureClassified ==
    ASSUME TypeInv, NEW c \in Candidate, NEW o \in Operation, NEW d \in Candidate,
           NEW code \in RegistryBlockerCodes,
           operation[c][o].status \in Unfinished,
           operation' = [operation EXCEPT ![c][o] = Released(operation[c][o], "FAILED")],
           blockers' = [blockers EXCEPT ![c] = Blocked(blockers[c], code, o)]
    PROVE  Classified(d)
<1>1. Released(operation[c][o], "FAILED").status = "FAILED"
  BY DEF Released, TypeInv, TypeOK, OperationRow
<1>2. CASE d = c
  <2>1. operation'[c][o].status = "FAILED" /\ \A i \in Operation : i # o => SameStatus(c, i)
    BY <1>1 DEF SameStatus, TypeInv, TypeOK
  <2>2. RegistryBlockers(blockers'[c]) = Blocked(RegistryBlockers(blockers[c]), code, o)
    BY BlockedRegistry DEF TypeInv, TypeOK
  <2> QED
    BY <1>2, <2>1, <2>2 DEF Classified, Fails
<1>3. CASE d # c
  BY <1>3, QuietStatuses DEF Classified, SameStatus, TypeInv, TypeOK
<1> QED
  BY <1>2, <1>3

\* A running operation is queued again or succeeds, its candidate's blockers stay.
LEMMA ProgressClassified ==
    ASSUME TypeInv, NEW c \in Candidate, NEW o \in Operation, NEW d \in Candidate,
           NEW op, op.status \in Unfinished \cup {"SUCCEEDED"},
           operation[c][o].status \in Unfinished,
           operation' = [operation EXCEPT ![c][o] = op],
           UNCHANGED blockers
    PROVE  Classified(d)
BY DEF Classified, Quiet, SameStatus, TypeInv, TypeOK

LEMMA ActivationClassified ==
    ASSUME TypeInv, OwnedWhileRunning, NEW p \in Worker, NEW c \in Candidate,
           NEW o \in Operation, ActivationStep(p, c, o), NEW d \in Candidate
    PROVE  Classified(d)
<1>1. /\ Released(operation[c][o], "QUEUED").status = "QUEUED"
      /\ Released(operation[c][o], "SUCCEEDED").status = "SUCCEEDED"
  BY DEF Released, TypeInv, TypeOK, OperationRow
<1>2. Holds(operation[c][o], p) => operation[c][o].status \in Unfinished
  BY HeldIsRunning DEF Unfinished
<1>3. CASE Publish(p, c, o) \/ ActivationAnswerIgnored(p, c, o)
  BY <1>3, QuietStatuses DEF Publish, ActivationAnswerIgnored, Classified, SameStatus
<1>4. CASE ActivationSucceeds(p, c, o)
  <2>1. /\ Holds(operation[c][o], p) /\ UNCHANGED blockers
        /\ operation' = [operation EXCEPT ![c][o] = Released(operation[c][o], "SUCCEEDED")]
    BY <1>4 DEF ActivationSucceeds, TypeInv, TypeOK
  <2> QED
    BY <1>1, <1>2, <2>1, ProgressClassified
<1>5. CASE ActivationRejected(p, c, o)
  <2>1. /\ Holds(operation[c][o], p)
        /\ operation' = [operation EXCEPT ![c][o] = Released(operation[c][o], "FAILED")]
        /\ blockers' = [blockers EXCEPT ![c] =
                           Blocked(blockers[c], "REGISTRY_COMPLETION_STATE_MISMATCH", o)]
    BY <1>5 DEF ActivationRejected, TypeInv, TypeOK
  <2> QED
    BY <1>2, <2>1, FailureClassified DEF RegistryBlockerCodes
<1>6. CASE ActivationFails(p, c, o)
  <2>1. /\ Holds(operation[c][o], p)
        /\ \/ /\ operation' = [operation EXCEPT ![c][o] = Released(operation[c][o], "FAILED")]
              /\ blockers' = [blockers EXCEPT ![c] =
                                 Blocked(blockers[c], "REGISTRY_OPERATION_FAILED", o)]
           \/ /\ operation' = [operation EXCEPT ![c][o] = Released(operation[c][o], "QUEUED")]
              /\ UNCHANGED blockers
    BY <1>6 DEF ActivationFails, TypeInv, TypeOK
  <2> QED
    BY <1>1, <1>2, <2>1, FailureClassified, ProgressClassified
       DEF RegistryBlockerCodes, Unfinished
<1> QED
  BY <1>3, <1>4, <1>5, <1>6 DEF ActivationStep

LEMMA DeadLetterClassified ==
    ASSUME TypeInv, OneUnresolvedInv, NEW p \in Worker, DeadLetter(p), NEW d \in Candidate
    PROVE  Classified(d)
<1>1. PICK R \in SUBSET ExhaustedRuns, O \in SUBSET ExhaustedOperations :
          /\ operation' = [c \in Candidate |-> [o \in Operation |->
                IF o \in Of(O, c) THEN Released(operation[c][o], "FAILED")
                ELSE operation[c][o]]]
          /\ blockers' = [c \in Candidate |->
                DeadLetteredBlockers(blockers[c], Of(R, c), Of(O, c))]
  BY DEF DeadLetter
<1> DEFINE afterRuns == IF Of(R, d) = {} THEN blockers[d]
                        ELSE Blocked(blockers[d], "EVALUATION_RETRIES_EXHAUSTED", 0)
<1>2. RegistryBlockers(afterRuns) = RegistryBlockers(blockers[d])
  <2>1. RegistryBlockers(Blocked(blockers[d], "EVALUATION_RETRIES_EXHAUSTED", 0))
           = RegistryBlockers(blockers[d])
    BY BlockedDerived DEF RegistryBlockerCodes
  <2> QED
    BY <2>1
<1>3. blockers'[d] = IF Of(O, d) = {} THEN afterRuns
                     ELSE Blocked(afterRuns, "REGISTRY_RETRIES_EXHAUSTED",
                                  CHOOSE o \in Of(O, d) : TRUE)
  BY <1>1 DEF DeadLetteredBlockers
<1>4. \A o \in Of(O, d) : o \in Operation /\ operation[d][o].status \in Unfinished
  BY DEF Of, ExhaustedOperations, Exhausted
<1>5. \A o \in Operation :
         operation'[d][o] = IF o \in Of(O, d) THEN Released(operation[d][o], "FAILED")
                            ELSE operation[d][o]
  BY <1>1
<1> HIDE DEF afterRuns
<1>6. CASE Of(O, d) = {}
  BY <1>2, <1>3, <1>5, <1>6, QuietStatuses DEF Classified, SameStatus
<1>7. CASE Of(O, d) # {}
  <2>1. PICK o \in Of(O, d) : o = CHOOSE i \in Of(O, d) : TRUE
    BY <1>7
  <2>2. \A i \in Of(O, d) : i = o
    BY <1>4, <2>1 DEF OneUnresolvedInv, OneUnresolvedOperation, Unresolved, Unfinished
  <2>3. operation'[d][o].status = "FAILED"
    <3>1. operation[d][o] \in OperationRow /\ operation'[d][o] = Released(operation[d][o], "FAILED")
      BY <1>4, <1>5, <2>1 DEF TypeInv, TypeOK
    <3> QED
      BY <3>1 DEF Released, OperationRow
  <2>4. \A i \in Operation : i # o => SameStatus(d, i)
    BY <1>5, <2>2 DEF SameStatus
  <2>5. RegistryBlockers(blockers'[d])
           = Blocked(RegistryBlockers(blockers[d]), "REGISTRY_RETRIES_EXHAUSTED", o)
    BY <1>2, <1>3, <1>7, <2>1, BlockedRegistry DEF RegistryBlockerCodes
  <2> QED
    BY <1>4, <2>1, <2>3, <2>4, <2>5 DEF Classified, Fails, RegistryBlockerCodes
<1> QED
  BY <1>6, <1>7

LEMMA EnvironmentClassified ==
    ASSUME TypeInv, Environment, NEW d \in Candidate PROVE Classified(d)
<1>1. ASSUME NEW c \in Candidate, NEW o \in Operation, NEW lease,
             operation' = [operation EXCEPT ![c][o] = [operation[c][o] EXCEPT !.lease = lease]]
      PROVE  \A i \in Operation : SameStatus(d, i)
  BY <1>1 DEF SameStatus, TypeInv, TypeOK, OperationRow
<1>2. ASSUME UNCHANGED operation PROVE \A i \in Operation : SameStatus(d, i)
  BY <1>2 DEF SameStatus
<1>3. CASE Heartbeat \/ \E c \in Candidate : LeaseExpires(c)
  <2>1. UNCHANGED blockers
    BY <1>3, LeaseSteps DEF rows
  <2>2. \A i \in Operation : SameStatus(d, i)
    BY <1>1, <1>2, <1>3, LeaseSteps
  <2> QED
    BY <2>1, <2>2, QuietStatuses DEF Classified
<1>4. CASE ~(Heartbeat \/ \E c \in Candidate : LeaseExpires(c))
  <2>1. UNCHANGED << operation, blockers >>
    BY <1>4 DEF Environment, WorkerCrash, PublicationAnswerLost
  <2> QED
    BY <1>2, <2>1, QuietStatuses DEF Classified
<1> QED
  BY <1>3, <1>4

LEMMA OneUnresolvedNext ==
    TypeInv /\ OwnedWhileRunning /\ OneUnresolvedInv /\ [Next]_vars => OneUnresolvedInv'
<1> SUFFICES ASSUME TypeInv, OwnedWhileRunning, OneUnresolvedInv, [Next]_vars,
                    NEW d \in Candidate
             PROVE  InvOf(d)'
  BY DEF OneUnresolvedInv, OneUnresolvedOperation, FailedOperationBlocks,
     RegistryBlockersAreCurrent, InvOf, RegistryBlockers
<1>1. Classified(d)
  <2>1. ASSUME NEW p \in Worker, Claim(p) PROVE Classified(d)
    <3>1. ASSUME NEW c \in Candidate, NEW o \in Operation, ClaimOperation(p, c, o)
          PROVE  Classified(d)
      <4>1. Claimed(operation[c][o], IdOf[p]).status = "RUNNING"
        BY DEF Claimed, TypeInv, TypeOK, OperationRow
      <4>2. /\ operation[c][o].status \in Unfinished /\ UNCHANGED blockers
            /\ operation' = [operation EXCEPT ![c][o] = Claimed(operation[c][o], IdOf[p])]
        BY <3>1 DEF ClaimOperation, Claimable, TypeInv, TypeOK
      <4> QED
        BY <4>1, <4>2, ProgressClassified DEF Unfinished
    <3>2. ASSUME NEW c \in Candidate, NEW r \in Run, ClaimRun(p, c, r) PROVE Classified(d)
      BY <3>2, QuietStatuses DEF ClaimRun, Classified, SameStatus
    <3> QED
      BY <2>1, <3>1, <3>2 DEF Claim
  <2>2. CASE UNCHANGED vars
    BY <2>2, QuietStatuses DEF Classified, SameStatus, vars
  <2> QED
    BY <2>1, <2>2, CommandClassified, EvaluationClassified, ActivationClassified,
       DeadLetterClassified, EnvironmentClassified DEF Next, AttemptStep
<1>2. InvOf(d)
  BY InvOfAll
<1> QED
  BY <1>1, <1>2, QuietKeeps, QueuesKeeps, FailsKeeps, RetriesKeeps DEF Classified

LEMMA OneUnresolvedInit == Init => OneUnresolvedInv
<1> SUFFICES ASSUME Init, NEW c \in Candidate PROVE InvOf(c)
  BY InvOfAll
<1>1. \A o \in Operation : operation[c][o].status = "NONE"
  BY DEF Init, NoOperation
<1>2. ASSUME NEW seed PROVE \A b \in SeedBlockers(seed) : b.code \notin RegistryBlockerCodes
  BY DEF SeedBlockers, RegistryBlockerCodes
<1>3. RegistryBlockers(blockers[c]) = {}
  BY <1>2 DEF Init, RegistryBlockers
<1> QED
  BY <1>1, <1>3 DEF InvOf, Unresolved

LEMMA OneUnresolvedAlways == Spec => []OneUnresolvedInv
<1> DEFINE IInv == TypeInv /\ OwnedWhileRunning /\ OneUnresolvedInv
<1>1. Init => IInv
  BY TypeInit, OwnedInit, OneUnresolvedInit
<1>2. IInv /\ [Next]_vars => IInv'
  BY TypeNext, OwnedNext, OneUnresolvedNext
<1> QED
  BY <1>1, <1>2, PTL DEF Spec

\* A candidate never has two registry operations that may still publish
\* (queue_promotion, retry_registry_operation): for any number of candidates,
\* workers under shared or distinct ids, attempts, crashes, retries and dead
\* letters.
THEOREM OperationsStaySingle == Spec => []OneUnresolvedOperation
<1> QED
  BY OneUnresolvedAlways, PTL DEF OneUnresolvedInv

\* A failed operation always keeps a blocker that names it, so the candidate is
\* not decided again before the failure is resolved (complete_registry_failure,
\* dead_letter_exhausted_work).
THEOREM FailuresStayBlocked == Spec => []FailedOperationBlocks
<1> QED
  BY OneUnresolvedAlways, PTL DEF OneUnresolvedInv

\* No registry blocker outlives the failure it names (retry_registry_operation,
\* complete_registry_success).
THEOREM RegistryBlockersEnd == Spec => []RegistryBlockersAreCurrent
<1> QED
  BY OneUnresolvedAlways, PTL DEF OneUnresolvedInv

(***************************************************************************)
(* What one transaction does to one candidate.                             *)
(*                                                                         *)
(* Next has some twenty actions, but a reviewer's decision can be touched  *)
(* in eight ways only: it rests, an evaluation starts, its gates are       *)
(* evaluated again, its blockers are reviewed, a publication is requested, *)
(* or revived after a failure, or stopped, or it activates a version.      *)
(* Lemma Effects says so once for all actions; ControlPlaneDecisions       *)
(* argues from the eight effects and never returns to the actions.         *)
(***************************************************************************)
SameRequest(w, x) ==
    w.decision = x.decision /\ w.snapshot = x.snapshot /\ w.approvals = x.approvals

SameOrder(c, i) == SameRequest(operation'[c][i], operation[c][i])

\* Work in progress goes on, and the rest keeps all but its deadline.
OperationsGoOn(c) ==
    \A i \in Operation :
        /\ SameOrder(c, i)
        /\ operation[c][i].status \notin Unfinished =>
              /\ SameStatus(c, i)
              /\ operation'[c][i] \in {operation[c][i], Renewed(operation[c][i])}
        /\ operation[c][i].status \in Unfinished => operation'[c][i].status \in Unfinished

FinishedRunsStay(c) ==
    \A r \in Run : run[c][r].status \in {"SUCCEEDED", "FAILED"} =>
                       run'[c][r] \in {run[c][r], Renewed(run[c][r])}

SameEvidence(c) == Evidence(c)' = Evidence(c)
SameVersions(c) == UNCHANGED << version[c], selected[c] >>

\* Nothing a reviewer decides on changes.
Rests(c) ==
    /\ UNCHANGED << candidate[c], gate[c], blockers[c], decision[c], approval[c] >>
    /\ SameEvidence(c) /\ SameVersions(c) /\ OperationsGoOn(c)

\* A new evaluation is asked for.
Starts(c) ==
    /\ EvaluationMutable(candidate[c].stage, candidate[c].status)
    /\ candidate'[c] = Moved(candidate[c], "EVALUATING", "ACTIVE")
    /\ UNCHANGED << gate[c], blockers[c], decision[c], approval[c], operation[c] >>
    /\ SameEvidence(c) /\ SameVersions(c)

\* The gate engine looks at the evidence there is now.
Regates(c) ==
    /\ EvaluationMutable(candidate[c].stage, candidate[c].status)
    /\ gate'[c] \in Verdict
    /\ candidate'[c] = GatedRow(candidate[c], blockers[c], gate'[c], Evidence(c)')
    /\ blockers'[c] = Regated(blockers[c], gate'[c])
    /\ decision'[c] = GatedDecision(decision[c], candidate[c], gate'[c], Evidence(c)')
    /\ UNCHANGED << approval[c], operation[c] >> /\ SameVersions(c)

\* An approval is given or taken back.
Reviews(c) ==
    /\ candidate'[c] = [candidate[c] EXCEPT !.revision = @ + 1]
    /\ UNCHANGED << gate[c], blockers[c], decision[c], operation[c] >>
    /\ SameEvidence(c) /\ SameVersions(c)
    /\ \E a \in Approval :
          \/ /\ approval[c][a].decision = 0 /\ HasCurrentDecision(candidate[c], decision[c])
             /\ approval'[c] = [approval[c] EXCEPT ![a] =
                   [NoApproval EXCEPT !.decision = decision[c].id,
                                      !.snapshot = candidate[c].snapshot]]
          \/ /\ Revocable(approval[c][a])
             /\ approval'[c] = [approval[c] EXCEPT ![a].revoked = TRUE]

\* A promotion is queued, by a command or at the end of an evaluation.
Requests(c) ==
    \E row \in CandidateRow, dec \in DecisionRow, o \in Operation :
        LET usable == Usable(approval[c], row, dec)
        IN  /\ MayQueue(row, operation[c], {}, dec, Evidence(c)', usable)
            /\ \A b \in blockers[c] : b.code \in DerivedBlockerCodes
            /\ \/ /\ gate'[c] = "ELIGIBLE"
                  /\ row.revision = candidate[c].revision + 1 /\ dec.id = row.revision
               \/ row = candidate[c] /\ UNCHANGED << gate[c], decision[c], blockers[c] >>
            /\ candidate'[c] = Moved(row, "ELIGIBLE", "PROMOTION_PENDING")
            /\ blockers'[c] = {} /\ decision'[c] = dec
            /\ NextFree(operation[c], o)
            /\ operation'[c] = [operation[c] EXCEPT ![o] =
                                   NewOperation(row, dec, Oldest(usable))]
            /\ approval'[c] = Consumed(approval[c], Oldest(usable))
            /\ SameVersions(c)

\* A failed operation is retried.
Revives(c) ==
    \E o \in Operation :
        /\ MayRetry(candidate[c], operation[c][o], o, blockers[c], Evidence(c))
        /\ operation'[c] = [operation[c] EXCEPT ![o] = Restarted(operation[c][o])]
        /\ candidate'[c] = Moved(candidate[c], "ELIGIBLE", "PROMOTION_PENDING")
        /\ blockers'[c] = Cleared(blockers[c], o)
        /\ UNCHANGED << gate[c], decision[c], approval[c] >>
        /\ SameEvidence(c) /\ SameVersions(c)

\* An attempt that was the last one, a rejected publication, dead letters.
Stops(c) ==
    /\ candidate'[c].status = "BLOCKED" /\ candidate'[c].snapshot = candidate[c].snapshot
    /\ candidate'[c].revision > candidate[c].revision
    /\ \/ candidate'[c].stage \in {"EVALUATING", candidate[c].stage}
       \/ /\ candidate'[c].stage = "ELIGIBLE"
          /\ \E i \in Operation : operation[c][i].status \in Unfinished
    /\ blockers[c] \subseteq blockers'[c] /\ blockers'[c] # {}
    /\ \A b \in blockers'[c] \ blockers[c] : b.code \notin FixtureBlockerCodes
    /\ \A i \in Operation :
          /\ operation[c][i].status \notin Unfinished => UNCHANGED operation[c][i]
          /\ operation[c][i].status \in Unfinished =>
                operation'[c][i].status \in Unfinished \cup {"FAILED"} /\ SameOrder(c, i)
    /\ UNCHANGED << gate[c], decision[c], approval[c] >>
    /\ SameEvidence(c) /\ SameVersions(c)

\* The registry's success is recorded.
Activates(c) ==
    \E o \in Operation :
        /\ operation[c][o].status = "RUNNING"
        /\ ActivationMatches(candidate[c], operation[c][o])
        /\ \E p \in Worker : worker[p] = Busy("PUBLISHED", c, o)
        /\ operation'[c] = [operation[c] EXCEPT ![o] = Released(operation[c][o], "SUCCEEDED")]
        /\ candidate'[c].status = "ACTIVE" /\ candidate'[c].stage \in MutationStopStages
        /\ candidate'[c].snapshot = candidate[c].snapshot
        /\ candidate'[c].revision > candidate[c].revision
        /\ \E v \in IF VersionsOfToken(c, o) # {} THEN VersionsOfToken(c, o)
                    ELSE {NewVersion(c, o)} :
              version'[c] = version[c] \cup {v} /\ selected'[c] = v.number
        /\ UNCHANGED << gate[c], blockers[c], decision[c], approval[c] >>
        /\ SameEvidence(c)

Effect(c) ==
    /\ FinishedRunsStay(c)
    /\ \/ Rests(c) \/ Starts(c) \/ Regates(c) \/ Reviews(c)
       \/ Requests(c) \/ Revives(c) \/ Stops(c) \/ Activates(c)

(***************************************************************************)
(* Every step has one of these effects.                                    *)
(***************************************************************************)
Apart(d) ==
    UNCHANGED << candidate[d], gate[d], blockers[d], run[d], decision[d], approval[d],
                 operation[d], version[d], selected[d] >>

LEMMA ApartRests ==
    ASSUME NEW d \in Candidate, Apart(d)
    PROVE  Effect(d)
<1>1. SameEvidence(d) /\ FinishedRunsStay(d)
  BY DEF Apart, SameEvidence, Evidence, FinishedRunsStay
<1>2. OperationsGoOn(d)
  BY DEF Apart, OperationsGoOn, SameOrder, SameRequest, SameStatus
<1> QED
  BY <1>1, <1>2 DEF Apart, Effect, Rests, SameVersions

LEMMA SameRuns ==
    ASSUME NEW c \in Candidate, UNCHANGED run[c]
    PROVE  SameEvidence(c) /\ FinishedRunsStay(c)
BY DEF SameEvidence, Evidence, FinishedRunsStay

\* A run that was not finished ends without a success, or starts.
LEMMA RunMoves ==
    ASSUME TypeInv, NEW c \in Candidate, NEW r \in Run, NEW w,
           run[c][r].status \notin {"SUCCEEDED", "FAILED"}, w.status # "SUCCEEDED",
           run' = [run EXCEPT ![c][r] = w]
    PROVE  SameEvidence(c) /\ FinishedRunsStay(c)
<1>1. run'[c][r] = w /\ \A s \in Run \ {r} : run'[c][s] = run[c][s]
  BY DEF TypeInv, TypeOK
<1>2. FinishedRunsStay(c)
  BY <1>1 DEF FinishedRunsStay
<1>3. \A s \in Run : run'[c][s].status = "SUCCEEDED" <=> run[c][s].status = "SUCCEEDED"
  BY <1>1
<1> QED
  BY <1>2, <1>3 DEF SameEvidence, Evidence

LEMMA HeldRunIsRunning ==
    ASSUME OwnedWhileRunning, NEW p \in Worker, NEW c \in Candidate, NEW r \in Run,
           Holds(run[c][r], p)
    PROVE  run[c][r].status = "RUNNING"
BY WorkerAssumption DEF OwnedWhileRunning, OwnedRow, Holds

LEMMA ReleasedFacts ==
    ASSUME NEW w \in WorkRow \cup OperationRow, NEW status \in WorkStatus
    PROVE  Released(w, status).status = status
BY DEF Released, WorkRow, OperationRow

LEMMA ReleasedOrder ==
    ASSUME NEW op \in OperationRow, NEW status \in WorkStatus
    PROVE  Released(op, status).status = status /\ SameRequest(Released(op, status), op)
BY DEF Released, OperationRow, SameRequest

LEMMA EvaluateEffect ==
    ASSUME TypeInv, NEW c \in Candidate, Evaluate(c), NEW d \in Candidate
    PROVE  Effect(d)
<1>1. PICK r \in Run : NextFree(run[c], r) /\ run' = [run EXCEPT ![c][r] = Queued]
  BY DEF Evaluate
<1>2. run[c][r].status = "NONE" /\ Queued.status = "QUEUED"
  BY <1>1 DEF NextFree, Queued, Absent
<1>3. SameEvidence(c) /\ FinishedRunsStay(c)
  BY <1>1, <1>2, RunMoves
<1>4. Starts(c)
  BY <1>3 DEF Evaluate, Starts, SameVersions, TypeInv, TypeOK
<1>5. d # c => Apart(d)
  BY <1>1 DEF Evaluate, Apart, TypeInv, TypeOK
<1> QED
  BY <1>3, <1>4, <1>5, ApartRests DEF Effect

LEMMA PromotionCheckEffect ==
    ASSUME TypeInv, NEW c \in Candidate, PromotionCheck(c), NEW d \in Candidate
    PROVE  Effect(d)
<1>1. SameEvidence(c) /\ FinishedRunsStay(c)
  BY SameRuns DEF PromotionCheck
<1>2. Evidence(c)' = Evidence(c)
  BY <1>1 DEF SameEvidence
<1>3. Regates(c)
  <2>1. /\ candidate'[c] = GatedRow(candidate[c], blockers[c], gate[c], Evidence(c))
        /\ blockers'[c] = Regated(blockers[c], gate[c])
        /\ decision'[c] = GatedDecision(decision[c], candidate[c], gate[c], Evidence(c))
        /\ gate[c] \in Verdict
    BY DEF PromotionCheck, TypeInv, TypeOK
  <2> QED
    BY <1>2, <2>1 DEF PromotionCheck, Regates, SameVersions
<1>4. d # c => Apart(d)
  BY DEF PromotionCheck, Apart, TypeInv, TypeOK
<1> QED
  BY <1>1, <1>3, <1>4, ApartRests DEF Effect

LEMMA ReviewEffect ==
    ASSUME TypeInv, NEW c \in Candidate,
           CreateApproval(c) \/ \E a \in Approval : RevokeApproval(c, a), NEW d \in Candidate
    PROVE  Effect(d)
<1>1. /\ UNCHANGED << gate, blockers, run, decision, operation, version, selected >>
      /\ candidate' = [candidate EXCEPT ![c].revision = @ + 1]
  BY DEF CreateApproval, RevokeApproval
<1>2. SameEvidence(c) /\ FinishedRunsStay(c)
  BY <1>1, SameRuns
<1>3. candidate'[c] = [candidate[c] EXCEPT !.revision = @ + 1]
  BY <1>1 DEF TypeInv, TypeOK
<1>4. \E a \in Approval :
         \/ /\ approval[c][a].decision = 0 /\ HasCurrentDecision(candidate[c], decision[c])
            /\ approval'[c] = [approval[c] EXCEPT ![a] =
                  [NoApproval EXCEPT !.decision = decision[c].id,
                                     !.snapshot = candidate[c].snapshot]]
         \/ /\ Revocable(approval[c][a])
            /\ approval'[c] = [approval[c] EXCEPT ![a].revoked = TRUE]
  BY DEF CreateApproval, RevokeApproval, TypeInv, TypeOK
<1>5. Reviews(c)
  BY <1>1, <1>2, <1>3, <1>4 DEF Reviews, SameVersions
<1>6. d # c => Apart(d)
  BY <1>1 DEF CreateApproval, RevokeApproval, Apart, TypeInv, TypeOK
<1> QED
  BY <1>2, <1>5, <1>6, ApartRests DEF Effect

LEMMA PromoteEffect ==
    ASSUME TypeInv, NEW c \in Candidate, Promote(c), NEW d \in Candidate
    PROVE  Effect(d)
<1> DEFINE usable == Usable(approval[c], candidate[c], decision[c])
           used == Oldest(usable)
<1>1. PICK o \in Operation :
         /\ NextFree(operation[c], o)
         /\ operation' = [operation EXCEPT ![c][o] =
                             NewOperation(candidate[c], decision[c], used)]
  BY DEF Promote
<1>2. /\ MayQueue(candidate[c], operation[c], blockers[c], decision[c], Evidence(c), usable)
      /\ approval' = [approval EXCEPT ![c] = Consumed(approval[c], used)]
      /\ candidate' = [candidate EXCEPT ![c] =
                          Moved(candidate[c], "ELIGIBLE", "PROMOTION_PENDING")]
      /\ UNCHANGED << gate, blockers, run, decision, version, selected >>
  BY DEF Promote
<1>3. SameEvidence(c) /\ FinishedRunsStay(c)
  BY <1>2, SameRuns
<1>4. /\ NextFree(operation[c], o) /\ blockers[c] = {}
      /\ Evidence(c)' = Evidence(c)
      /\ candidate[c] \in CandidateRow /\ decision[c] \in DecisionRow
  BY <1>1, <1>2, <1>3 DEF MayQueue, SameEvidence, TypeInv, TypeOK
<1> HIDE DEF used, usable
<1>5. /\ operation'[c] = [operation[c] EXCEPT ![o] =
                             NewOperation(candidate[c], decision[c], used)]
      /\ approval'[c] = Consumed(approval[c], used)
      /\ candidate'[c] = Moved(candidate[c], "ELIGIBLE", "PROMOTION_PENDING")
  BY <1>1, <1>2 DEF TypeInv, TypeOK
<1>6. Requests(c)
  <2>1. MayQueue(candidate[c], operation[c], {}, decision[c], Evidence(c)', usable)
    BY <1>2, <1>4
  <2> QED
    BY <1>2, <1>4, <1>5, <2>1 DEF Requests, SameVersions, usable, used
<1>7. d # c => Apart(d)
  BY <1>1, <1>2 DEF Apart, TypeInv, TypeOK
<1> QED
  BY <1>3, <1>6, <1>7, ApartRests DEF Effect

LEMMA RetryEffect ==
    ASSUME TypeInv, NEW c \in Candidate, NEW o \in Operation, RetryOperation(c, o),
           NEW d \in Candidate
    PROVE  Effect(d)
<1>1. SameEvidence(c) /\ FinishedRunsStay(c)
  BY SameRuns DEF RetryOperation
<1>2. /\ operation'[c] = [operation[c] EXCEPT ![o] = Restarted(operation[c][o])]
      /\ candidate'[c] = Moved(candidate[c], "ELIGIBLE", "PROMOTION_PENDING")
      /\ blockers'[c] = Cleared(blockers[c], o)
  BY DEF RetryOperation, TypeInv, TypeOK
<1>3. Revives(c)
  BY <1>1, <1>2 DEF RetryOperation, Revives, SameVersions
<1>4. d # c => Apart(d)
  BY DEF RetryOperation, Apart, TypeInv, TypeOK
<1> QED
  BY <1>1, <1>3, <1>4, ApartRests DEF Effect

(***************************************************************************)
(* Steps that change one row of work and nothing a reviewer decides on.    *)
(***************************************************************************)
LEMMA RunOnly ==
    ASSUME TypeInv, NEW c \in Candidate, NEW r \in Run, NEW w,
           run[c][r].status \notin {"SUCCEEDED", "FAILED"}, w.status # "SUCCEEDED",
           run' = [run EXCEPT ![c][r] = w],
           UNCHANGED << candidate, gate, blockers, decision, approval, operation, version,
                        selected >>,
           NEW d \in Candidate
    PROVE  Effect(d)
<1>1. SameEvidence(c) /\ FinishedRunsStay(c)
  BY RunMoves
<1>2. Rests(c)
  BY <1>1 DEF Rests, SameVersions, OperationsGoOn, SameOrder, SameRequest, SameStatus
<1>3. d # c => Apart(d)
  BY DEF Apart, TypeInv, TypeOK
<1> QED
  BY <1>1, <1>2, <1>3, ApartRests DEF Effect

LEMMA OperationOnly ==
    ASSUME TypeInv, NEW c \in Candidate, NEW o \in Operation, NEW op,
           operation[c][o].status \in Unfinished, op.status \in Unfinished,
           SameRequest(op, operation[c][o]),
           operation' = [operation EXCEPT ![c][o] = op],
           UNCHANGED << candidate, gate, blockers, run, decision, approval, version, selected >>,
           NEW d \in Candidate
    PROVE  Effect(d)
<1>1. SameEvidence(c) /\ FinishedRunsStay(c)
  BY SameRuns
<1>2. operation'[c][o] = op /\ \A i \in Operation \ {o} : operation'[c][i] = operation[c][i]
  BY DEF TypeInv, TypeOK
<1>3. OperationsGoOn(c)
  BY <1>2 DEF OperationsGoOn, SameOrder, SameRequest, SameStatus
<1>4. Rests(c)
  BY <1>1, <1>3 DEF Rests, SameVersions
<1>5. d # c => Apart(d)
  BY DEF Apart, TypeInv, TypeOK
<1> QED
  BY <1>1, <1>4, <1>5, ApartRests DEF Effect

LEMMA ClaimEffect ==
    ASSUME TypeInv, NEW p \in Worker, Claim(p), NEW d \in Candidate
    PROVE  Effect(d)
<1>1. ASSUME NEW c \in Candidate, NEW r \in Run, ClaimRun(p, c, r) PROVE Effect(d)
  <2>1. Claimed(run[c][r], IdOf[p]).status = "RUNNING"
    BY DEF Claimed, TypeInv, TypeOK, WorkRow
  <2>2. /\ run' = [run EXCEPT ![c][r] = Claimed(run[c][r], IdOf[p])]
        /\ run[c][r].status \in Unfinished
        /\ UNCHANGED << candidate, gate, blockers, decision, approval, operation, version,
                        selected >>
    BY <1>1 DEF ClaimRun, Claimable, TypeInv, TypeOK
  <2>3. run[c][r].status \notin {"SUCCEEDED", "FAILED"}
    BY <2>2 DEF Unfinished
  <2> QED
    BY <2>1, <2>2, <2>3, RunOnly
<1>2. ASSUME NEW c \in Candidate, NEW o \in Operation, ClaimOperation(p, c, o)
      PROVE  Effect(d)
  <2> DEFINE op == Claimed(operation[c][o], IdOf[p])
  <2>1. operation[c][o] \in OperationRow
    BY DEF TypeInv, TypeOK
  <2>2. op.status \in Unfinished /\ SameRequest(op, operation[c][o])
    BY <2>1 DEF Claimed, OperationRow, Unfinished, SameRequest
  <2>3. /\ operation' = [operation EXCEPT ![c][o] = op]
        /\ operation[c][o].status \in Unfinished
        /\ UNCHANGED << candidate, gate, blockers, run, decision, approval, version,
                        selected >>
    BY <1>2 DEF ClaimOperation, Claimable, TypeInv, TypeOK
  <2> QED
    BY <2>2, <2>3, OperationOnly
<1> QED
  BY <1>1, <1>2 DEF Claim

LEMMA BlockedGrows ==
    ASSUME NEW bs, NEW code, NEW o
    PROVE  /\ bs \subseteq Blocked(bs, code, o) /\ Blocked(bs, code, o) # {}
           /\ \A b \in Blocked(bs, code, o) \ bs : b.code = code
<1>1. CASE \E b \in bs : b.code = code
  BY <1>1 DEF Blocked
<1>2. CASE ~\E b \in bs : b.code = code
  <2> DEFINE raised == [code |-> code, operation |-> o]
  <2>1. Blocked(bs, code, o) = bs \cup {raised}
    BY <1>2 DEF Blocked
  <2>2. raised.code = code
    OBVIOUS
  <2> HIDE DEF raised
  <2> QED
    BY <2>1, <2>2
<1> QED
  BY <1>1, <1>2

LEMMA EvaluationAttemptFailsEffect ==
    ASSUME TypeInv, OwnedWhileRunning, NEW p \in Worker, NEW c \in Candidate, NEW r \in Run,
           EvaluationAttemptFails(p, c, r), NEW d \in Candidate
    PROVE  Effect(d)
<1>1. run[c][r].status = "RUNNING"
  BY HeldRunIsRunning DEF EvaluationAttemptFails
<1>2. /\ Released(run[c][r], "FAILED").status = "FAILED"
      /\ Released(run[c][r], "QUEUED").status = "QUEUED"
  BY DEF Released, TypeInv, TypeOK, WorkRow
<1>3. CASE run[c][r].attempts >= MaxAttempts
  <2>1. /\ run' = [run EXCEPT ![c][r] = Released(run[c][r], "FAILED")]
        /\ candidate' = [candidate EXCEPT ![c] = Moved(candidate[c], "EVALUATING", "BLOCKED")]
        /\ blockers' = [blockers EXCEPT ![c] =
                           Blocked(blockers[c], "EVALUATION_PROVIDER_FAILED", 0)]
        /\ UNCHANGED << gate, decision, approval, operation, version, selected >>
    BY <1>3 DEF EvaluationAttemptFails, TypeInv, TypeOK
  <2>2. SameEvidence(c) /\ FinishedRunsStay(c)
    BY <1>1, <1>2, <2>1, RunMoves
  <2>3. candidate[c] \in CandidateRow
    BY DEF TypeInv, TypeOK
  <2>4. candidate'[c] = Moved(candidate[c], "EVALUATING", "BLOCKED")
    BY <2>1 DEF TypeInv, TypeOK
  <2>5. /\ candidate'[c].status = "BLOCKED" /\ candidate'[c].stage = "EVALUATING"
        /\ candidate'[c].snapshot = candidate[c].snapshot
        /\ candidate'[c].revision > candidate[c].revision
    BY <2>3, <2>4 DEF Moved, CandidateRow
  <2>6. blockers'[c] = Blocked(blockers[c], "EVALUATION_PROVIDER_FAILED", 0)
    BY <2>1 DEF TypeInv, TypeOK
  <2>7. /\ blockers[c] \subseteq blockers'[c] /\ blockers'[c] # {}
        /\ \A b \in blockers'[c] \ blockers[c] : b.code \notin FixtureBlockerCodes
    BY <2>6, BlockedGrows DEF FixtureBlockerCodes
  <2>8. Stops(c)
    BY <2>1, <2>2, <2>5, <2>7 DEF Stops, SameVersions, SameOrder, SameRequest
  <2>9. d # c => Apart(d)
    BY <2>1 DEF Apart, TypeInv, TypeOK
  <2> QED
    BY <2>2, <2>8, <2>9, ApartRests DEF Effect
<1>4. CASE ~(run[c][r].attempts >= MaxAttempts)
  <2>1. /\ run' = [run EXCEPT ![c][r] = Released(run[c][r], "QUEUED")]
        /\ UNCHANGED << candidate, gate, blockers, decision, approval, operation, version,
                        selected >>
    BY <1>4 DEF EvaluationAttemptFails, TypeInv, TypeOK
  <2> QED
    BY <1>1, <1>2, <2>1, RunOnly
<1> QED
  BY <1>3, <1>4

LEMMA EvaluationAnswerEffect ==
    ASSUME TypeInv, OwnedWhileRunning, NEW p \in Worker, NEW c \in Candidate, NEW r \in Run,
           EvaluationAnswerRejected(p, c, r) \/ EvaluationAnswerIgnored(p, c, r),
           NEW d \in Candidate
    PROVE  Effect(d)
<1>1. CASE EvaluationAnswerRejected(p, c, r)
  <2>1. run[c][r].status = "RUNNING"
    BY <1>1, HeldRunIsRunning DEF EvaluationAnswerRejected
  <2>2. Released(run[c][r], "FAILED").status = "FAILED"
    BY DEF Released, TypeInv, TypeOK, WorkRow
  <2>3. /\ run' = [run EXCEPT ![c][r] = Released(run[c][r], "FAILED")]
        /\ UNCHANGED << candidate, gate, blockers, decision, approval, operation, version,
                        selected >>
    BY <1>1 DEF EvaluationAnswerRejected, TypeInv, TypeOK
  <2> QED
    BY <2>1, <2>2, <2>3, RunOnly
<1>2. CASE EvaluationAnswerIgnored(p, c, r)
  BY <1>2, ApartRests DEF EvaluationAnswerIgnored, Apart
<1> QED
  BY <1>1, <1>2

LEMMA RegatedDerived ==
    ASSUME NEW bs, NEW g, Regated(bs, g) = {}
    PROVE  g = "ELIGIBLE" /\ \A b \in bs : b.code \in DerivedBlockerCodes
<1> DEFINE kept == {b \in bs : b.code \notin DerivedBlockerCodes}
<1>1. \A code : Blocked(kept, code, 0) # {}
  BY BlockedGrows
<1> HIDE DEF kept
<1>2. g = "ELIGIBLE" /\ kept = {}
  BY <1>1 DEF Regated, kept
<1> QED
  BY <1>2 DEF kept

LEMMA EvaluationCompletesEffect ==
    ASSUME TypeInv, OwnedWhileRunning, NEW p \in Worker, NEW c \in Candidate, NEW r \in Run,
           EvaluationCompletes(p, c, r), NEW d \in Candidate
    PROVE  Effect(d)
<1>1. PICK g \in Verdict : CompletesWith(c, r, g)
  BY DEF EvaluationCompletes
<1> DEFINE evidence == Evidence(c) \cup {r}
           row == GatedRow(candidate[c], blockers[c], g, evidence)
           bs == Regated(blockers[c], g)
           dec == GatedDecision(decision[c], candidate[c], g, evidence)
           usable == Usable(approval[c], row, dec)
           stored == StoreResults(c, r, g, bs, dec)
<1>2. /\ candidate[c] \in CandidateRow /\ blockers[c] \in SUBSET BlockerRow
      /\ decision[c] \in DecisionRow /\ evidence \in SUBSET Run
      /\ UNCHANGED << version, selected >>
      /\ EvaluationMutable(candidate[c].stage, candidate[c].status)
  BY EvidenceType DEF TypeInv, TypeOK, EvaluationCompletes, AcceptsEvidence,
     EvaluationMutable, MutationStopStages, MutationStopStatuses
<1>3. row \in CandidateRow /\ dec \in DecisionRow
  BY <1>2, GatedRowType, GatedDecisionType
<1>4. run[c][r].status = "RUNNING" /\ Released(run[c][r], "SUCCEEDED").status = "SUCCEEDED"
  BY HeldRunIsRunning DEF EvaluationCompletes, Released, TypeInv, TypeOK, WorkRow
<1>5. \/ /\ stored /\ candidate' = [candidate EXCEPT ![c] = row]
         /\ UNCHANGED << operation, approval >>
      \/ UNCHANGED << rows, run, operation, approval >>
      \/ /\ stored /\ g = "ELIGIBLE" /\ MayQueue(row, operation[c], bs, dec, evidence, usable)
         /\ \E o \in Operation :
               /\ NextFree(operation[c], o)
               /\ operation' = [operation EXCEPT ![c][o] =
                                   NewOperation(row, dec, Oldest(usable))]
         /\ approval' = [approval EXCEPT ![c] = Consumed(approval[c], Oldest(usable))]
         /\ candidate' = [candidate EXCEPT ![c] = Moved(row, "ELIGIBLE", "PROMOTION_PENDING")]
  BY <1>1 DEF CompletesWith
<1>6. /\ bs = Regated(blockers[c], g) /\ row.revision = candidate[c].revision + 1
      /\ g = "ELIGIBLE" => dec.id = row.revision
  BY <1>2 DEF GatedRow, GatedDecision, Moved, CandidateRow
<1>7. ASSUME stored PROVE Evidence(c)' = evidence /\ FinishedRunsStay(c)
  <2>1. /\ run'[c][r] = Released(run[c][r], "SUCCEEDED")
        /\ \A s \in Run \ {r} : run'[c][s] = run[c][s]
    BY <1>7 DEF StoreResults, TypeInv, TypeOK
  <2> QED
    BY <1>4, <2>1 DEF Evidence, FinishedRunsStay
<1>8. CASE /\ stored /\ candidate' = [candidate EXCEPT ![c] = row]
           /\ UNCHANGED << operation, approval >>
  <2>1. /\ candidate'[c] = row /\ gate'[c] = g /\ blockers'[c] = bs /\ decision'[c] = dec
    BY <1>8 DEF StoreResults, TypeInv, TypeOK
  <2>2. Evidence(c)' = evidence
    BY <1>7, <1>8
  <2>3. Regates(c)
    BY <1>2, <1>8, <2>1, <2>2 DEF Regates, SameVersions
  <2>4. d # c => Apart(d)
    BY <1>2, <1>8 DEF StoreResults, Apart, TypeInv, TypeOK
  <2> QED
    BY <1>7, <1>8, <2>3, <2>4, ApartRests DEF Effect
<1>9. CASE UNCHANGED << rows, run, operation, approval >>
  BY <1>2, <1>9, ApartRests DEF Apart, rows
<1>10. CASE /\ stored /\ g = "ELIGIBLE"
            /\ MayQueue(row, operation[c], bs, dec, evidence, usable)
            /\ \E o \in Operation :
                  /\ NextFree(operation[c], o)
                  /\ operation' = [operation EXCEPT ![c][o] =
                                      NewOperation(row, dec, Oldest(usable))]
            /\ approval' = [approval EXCEPT ![c] = Consumed(approval[c], Oldest(usable))]
            /\ candidate' = [candidate EXCEPT ![c] = Moved(row, "ELIGIBLE", "PROMOTION_PENDING")]
  <2>1. PICK o \in Operation :
               /\ NextFree(operation[c], o)
               /\ operation' = [operation EXCEPT ![c][o] =
                                   NewOperation(row, dec, Oldest(usable))]
    BY <1>10
  <2>2. NextFree(operation[c], o) /\ bs = {}
    BY <1>10, <2>1 DEF MayQueue
  <2>3. \A b \in blockers[c] : b.code \in DerivedBlockerCodes
    BY <1>6, <2>2, RegatedDerived
  <2>4. Evidence(c)' = evidence
    BY <1>7, <1>10
  <2>5. MayQueue(row, operation[c], {}, dec, Evidence(c)', usable)
    BY <1>10, <2>2, <2>4
  <2>6. /\ gate'[c] = "ELIGIBLE" /\ blockers'[c] = {} /\ decision'[c] = dec
        /\ row.revision = candidate[c].revision + 1 /\ dec.id = row.revision
    BY <1>6, <1>10, <2>2 DEF StoreResults, TypeInv, TypeOK
  <2> HIDE DEF row, dec, bs, evidence, stored
  <2> DEFINE used == Oldest(usable)
  <2>7. /\ operation' = [operation EXCEPT ![c][o] = NewOperation(row, dec, used)]
        /\ approval' = [approval EXCEPT ![c] = Consumed(approval[c], used)]
        /\ candidate' = [candidate EXCEPT ![c] = Moved(row, "ELIGIBLE", "PROMOTION_PENDING")]
    BY <1>10, <2>1
  <2> HIDE DEF usable, used
  <2>8. /\ operation'[c] = [operation[c] EXCEPT ![o] = NewOperation(row, dec, used)]
        /\ approval'[c] = Consumed(approval[c], used)
        /\ candidate'[c] = Moved(row, "ELIGIBLE", "PROMOTION_PENDING")
    BY <2>7 DEF TypeInv, TypeOK
  <2>9. Requests(c)
    BY <1>2, <1>3, <2>2, <2>3, <2>5, <2>6, <2>8 DEF Requests, SameVersions, usable, used
  <2>10. d # c => Apart(d)
    <3>1. d # c => /\ UNCHANGED << candidate[d], operation[d], approval[d], version[d],
                                   selected[d] >>
      BY <1>2, <2>7 DEF TypeInv, TypeOK
    <3>2. d # c => UNCHANGED << gate[d], blockers[d], run[d], decision[d] >>
      BY <1>10 DEF stored, StoreResults, TypeInv, TypeOK
    <3> QED
      BY <3>1, <3>2 DEF Apart
  <2> QED
    BY <1>7, <1>10, <2>9, <2>10, ApartRests DEF Effect
<1> QED
  BY <1>5, <1>8, <1>9, <1>10

LEMMA MovedFacts ==
    ASSUME NEW row \in CandidateRow, NEW stage \in StageName, NEW status \in StatusName
    PROVE  /\ Moved(row, stage, status).stage = stage
           /\ Moved(row, stage, status).status = status
           /\ Moved(row, stage, status).snapshot = row.snapshot
           /\ Moved(row, stage, status).revision = row.revision + 1
           /\ row.revision + 1 > row.revision
BY DEF Moved, CandidateRow

\* An operation ends as failed and the candidate is blocked with a registry code.
LEMMA FailureEffect ==
    ASSUME TypeInv, NEW c \in Candidate, NEW o \in Operation,
           NEW code \in RegistryBlockerCodes, NEW stage \in {"ELIGIBLE", candidate[c].stage},
           operation[c][o].status \in Unfinished,
           operation' = [operation EXCEPT ![c][o] = Released(operation[c][o], "FAILED")],
           candidate' = [candidate EXCEPT ![c] = Moved(candidate[c], stage, "BLOCKED")],
           blockers' = [blockers EXCEPT ![c] = Blocked(blockers[c], code, o)],
           UNCHANGED << gate, run, decision, approval, version, selected >>,
           NEW d \in Candidate
    PROVE  Effect(d)
<1>1. SameEvidence(c) /\ FinishedRunsStay(c)
  BY SameRuns
<1>2. candidate[c] \in CandidateRow /\ operation[c][o] \in OperationRow
  BY DEF TypeInv, TypeOK
<1>3. candidate'[c] = Moved(candidate[c], stage, "BLOCKED")
  BY DEF TypeInv, TypeOK
<1>4. /\ candidate'[c].status = "BLOCKED" /\ candidate'[c].stage = stage
      /\ candidate'[c].snapshot = candidate[c].snapshot
      /\ candidate'[c].revision > candidate[c].revision
  <2>1. stage \in StageName /\ "BLOCKED" \in StatusName
    BY <1>2 DEF CandidateRow, StageName, StatusName
  <2> QED
    BY <1>2, <1>3, <2>1, MovedFacts
<1>5. blockers'[c] = Blocked(blockers[c], code, o)
  BY DEF TypeInv, TypeOK
<1>6. /\ blockers[c] \subseteq blockers'[c] /\ blockers'[c] # {}
      /\ \A b \in blockers'[c] \ blockers[c] : b.code \notin FixtureBlockerCodes
  BY <1>5, BlockedGrows DEF FixtureBlockerCodes, RegistryBlockerCodes
<1>7. /\ operation'[c][o] = Released(operation[c][o], "FAILED")
      /\ \A i \in Operation \ {o} : operation'[c][i] = operation[c][i]
  BY DEF TypeInv, TypeOK
<1>8. operation'[c][o].status = "FAILED" /\ SameOrder(c, o)
  BY <1>2, <1>7, ReleasedOrder DEF SameOrder, WorkStatus
<1>9. \A i \in Operation :
          /\ operation[c][i].status \notin Unfinished => UNCHANGED operation[c][i]
          /\ operation[c][i].status \in Unfinished =>
                operation'[c][i].status \in Unfinished \cup {"FAILED"} /\ SameOrder(c, i)
  BY <1>7, <1>8 DEF SameOrder, SameRequest
<1>10. Stops(c)
  BY <1>1, <1>4, <1>6, <1>9 DEF Stops, SameVersions
<1>11. d # c => Apart(d)
  BY DEF Apart, TypeInv, TypeOK
<1> QED
  BY <1>1, <1>10, <1>11, ApartRests DEF Effect

LEMMA ActivationSucceedsEffect ==
    ASSUME TypeInv, OwnedWhileRunning, NEW p \in Worker, NEW c \in Candidate,
           NEW o \in Operation, ActivationSucceeds(p, c, o), NEW d \in Candidate
    PROVE  Effect(d)
<1>1. SameEvidence(c) /\ FinishedRunsStay(c)
  BY SameRuns DEF ActivationSucceeds
<1>2. candidate[c] \in CandidateRow
  BY DEF TypeInv, TypeOK
<1>3. /\ operation[c][o].status = "RUNNING" /\ ActivationMatches(candidate[c], operation[c][o])
      /\ worker[p] = Busy("PUBLISHED", c, o)
  BY HeldIsRunning DEF ActivationSucceeds
<1>4. /\ operation'[c] = [operation[c] EXCEPT ![o] = Released(operation[c][o], "SUCCEEDED")]
      /\ \/ candidate'[c] = Moved(candidate[c], "PROMOTED", "ACTIVE")
         \/ candidate'[c] = Moved(Moved(candidate[c], "PROMOTED", "ACTIVE"), "MONITORED", "ACTIVE")
  BY DEF ActivationSucceeds, TypeInv, TypeOK
<1>5. /\ candidate'[c].status = "ACTIVE" /\ candidate'[c].stage \in MutationStopStages
      /\ candidate'[c].snapshot = candidate[c].snapshot
      /\ candidate'[c].revision > candidate[c].revision
  <2> DEFINE row == Moved(candidate[c], "PROMOTED", "ACTIVE")
  <2>1. "PROMOTED" \in StageName /\ "MONITORED" \in StageName /\ "ACTIVE" \in StatusName
    BY DEF StageName, StatusName
  <2>2. /\ row.stage = "PROMOTED" /\ row.status = "ACTIVE" /\ row.snapshot = candidate[c].snapshot
        /\ row.revision = candidate[c].revision + 1
    BY <1>2, <2>1, MovedFacts
  <2>3. row \in CandidateRow
    BY <1>2, <2>1, MovedType
  <2>4. LET last == Moved(row, "MONITORED", "ACTIVE")
        IN  /\ last.stage = "MONITORED" /\ last.status = "ACTIVE"
            /\ last.snapshot = candidate[c].snapshot /\ last.revision = candidate[c].revision + 2
    <3> HIDE DEF row
    <3>1. /\ Moved(row, "MONITORED", "ACTIVE").stage = "MONITORED"
          /\ Moved(row, "MONITORED", "ACTIVE").status = "ACTIVE"
          /\ Moved(row, "MONITORED", "ACTIVE").snapshot = row.snapshot
          /\ Moved(row, "MONITORED", "ACTIVE").revision = row.revision + 1
      BY <2>1, <2>3, MovedFacts
    <3>2. candidate[c].revision \in Nat
      BY <1>2 DEF CandidateRow
    <3> QED
      BY <2>2, <3>1, <3>2
  <2>5. candidate[c].revision \in Nat
    BY <1>2 DEF CandidateRow
  <2> QED
    BY <1>4, <2>2, <2>4, <2>5 DEF MutationStopStages
<1>6. \E v \in IF VersionsOfToken(c, o) # {} THEN VersionsOfToken(c, o)
               ELSE {NewVersion(c, o)} :
              version'[c] = version[c] \cup {v} /\ selected'[c] = v.number
  BY DEF ActivationSucceeds, TypeInv, TypeOK
<1>7. UNCHANGED << gate, blockers, decision, approval >>
  BY DEF ActivationSucceeds
<1>8. Activates(c)
  BY <1>1, <1>3, <1>4, <1>5, <1>6, <1>7 DEF Activates
<1>9. d # c => Apart(d)
  BY DEF ActivationSucceeds, Apart, TypeInv, TypeOK
<1> QED
  BY <1>1, <1>8, <1>9, ApartRests DEF Effect

LEMMA ActivationEffect ==
    ASSUME TypeInv, OwnedWhileRunning, NEW p \in Worker, NEW c \in Candidate,
           NEW o \in Operation, ActivationStep(p, c, o), NEW d \in Candidate
    PROVE  Effect(d)
<1>1. Holds(operation[c][o], p) => operation[c][o].status \in Unfinished
  BY HeldIsRunning DEF Unfinished
<1>2. CASE Publish(p, c, o) \/ ActivationAnswerIgnored(p, c, o)
  BY <1>2, ApartRests DEF Publish, ActivationAnswerIgnored, Apart
<1>3. CASE ActivationRejected(p, c, o)
  <2> DEFINE stage == IF candidate[c].stage \in {"ELIGIBLE", "SHADOW"} THEN "ELIGIBLE"
                      ELSE candidate[c].stage
  <2>1. /\ Holds(operation[c][o], p)
        /\ operation' = [operation EXCEPT ![c][o] = Released(operation[c][o], "FAILED")]
        /\ candidate' = [candidate EXCEPT ![c] = Moved(candidate[c], stage, "BLOCKED")]
        /\ blockers' = [blockers EXCEPT ![c] =
                           Blocked(blockers[c], "REGISTRY_COMPLETION_STATE_MISMATCH", o)]
        /\ UNCHANGED << gate, run, decision, approval, version, selected >>
    BY <1>3 DEF ActivationRejected, TypeInv, TypeOK
  <2>2. stage \in {"ELIGIBLE", candidate[c].stage}
    OBVIOUS
  <2>3. "REGISTRY_COMPLETION_STATE_MISMATCH" \in RegistryBlockerCodes
    BY DEF RegistryBlockerCodes
  <2> HIDE DEF stage
  <2> QED
    BY <1>1, <2>1, <2>2, <2>3, FailureEffect
<1>4. CASE ActivationFails(p, c, o)
  <2>1. Holds(operation[c][o], p) /\ UNCHANGED << gate, run, decision, approval, version, selected >>
    BY <1>4 DEF ActivationFails
  <2>2. CASE /\ operation' = [operation EXCEPT ![c][o] = Released(operation[c][o], "FAILED")]
             /\ candidate' = [candidate EXCEPT ![c] = Moved(candidate[c], "ELIGIBLE", "BLOCKED")]
             /\ blockers' = [blockers EXCEPT ![c] =
                                Blocked(blockers[c], "REGISTRY_OPERATION_FAILED", o)]
    <3>1. "REGISTRY_OPERATION_FAILED" \in RegistryBlockerCodes
      BY DEF RegistryBlockerCodes
    <3> QED
      BY <1>1, <2>1, <2>2, <3>1, FailureEffect
  <2>3. CASE /\ operation' = [operation EXCEPT ![c][o] = Released(operation[c][o], "QUEUED")]
             /\ UNCHANGED << candidate, blockers >>
    <3>1. operation[c][o] \in OperationRow
      BY DEF TypeInv, TypeOK
    <3>2. /\ Released(operation[c][o], "QUEUED").status \in Unfinished
          /\ SameRequest(Released(operation[c][o], "QUEUED"), operation[c][o])
      BY <3>1, ReleasedOrder DEF WorkStatus, Unfinished
    <3> QED
      BY <1>1, <2>1, <2>3, <3>2, OperationOnly
  <2> QED
    BY <1>4, <2>2, <2>3 DEF ActivationFails, TypeInv, TypeOK
<1> QED
  BY <1>2, <1>3, <1>4, ActivationSucceedsEffect DEF ActivationStep

LEMMA CardinalityPositive ==
    ASSUME NEW n \in Nat, NEW S \in SUBSET (1..n)
    PROVE  Cardinality(S) \in Nat /\ (S # {} => Cardinality(S) > 0)
<1>1. IsFiniteSet(S)
  <2>1. IsFiniteSet(1..n)
    BY FS_Interval
  <2> QED
    BY <2>1, FS_Subset
<1> QED
  BY <1>1, FS_CardinalityType, FS_EmptySet

LEMMA DeadLetterEffect ==
    ASSUME TypeInv, NEW p \in Worker, DeadLetter(p), NEW d \in Candidate
    PROVE  Effect(d)
<1>1. PICK R \in SUBSET ExhaustedRuns, O \in SUBSET ExhaustedOperations :
          /\ run' = [c \in Candidate |-> [r \in Run |->
                IF r \in Of(R, c) THEN Released(run[c][r], "FAILED") ELSE run[c][r]]]
          /\ operation' = [c \in Candidate |-> [o \in Operation |->
                IF o \in Of(O, c) THEN Released(operation[c][o], "FAILED")
                ELSE operation[c][o]]]
          /\ candidate' = [c \in Candidate |->
                DeadLetteredRow(candidate[c], Of(R, c), Of(O, c))]
          /\ blockers' = [c \in Candidate |->
                DeadLetteredBlockers(blockers[c], Of(R, c), Of(O, c))]
  BY DEF DeadLetter
<1>2. UNCHANGED << gate, decision, approval, version, selected >>
  BY DEF DeadLetter
<1> DEFINE Rs == Of(R, d)
           Os == Of(O, d)
<1>3. /\ run'[d] = [r \in Run |-> IF r \in Rs THEN Released(run[d][r], "FAILED") ELSE run[d][r]]
      /\ operation'[d] = [o \in Operation |->
            IF o \in Os THEN Released(operation[d][o], "FAILED") ELSE operation[d][o]]
      /\ candidate'[d] = DeadLetteredRow(candidate[d], Rs, Os)
      /\ blockers'[d] = DeadLetteredBlockers(blockers[d], Rs, Os)
  BY <1>1
<1>4. /\ \A r \in Rs : r \in Run /\ run[d][r].status \in Unfinished
      /\ \A o \in Os : o \in Operation /\ operation[d][o].status \in Unfinished
  BY DEF Of, ExhaustedRuns, ExhaustedOperations, Exhausted
<1> HIDE DEF Rs, Os
<1>5. /\ candidate[d] \in CandidateRow
      /\ \A r \in Run : run[d][r] \in WorkRow
      /\ \A o \in Operation : operation[d][o] \in OperationRow
      /\ run[d] = [r \in Run |-> run[d][r]]
      /\ operation[d] = [o \in Operation |-> operation[d][o]]
  BY DEF TypeInv, TypeOK
<1>6. SameEvidence(d) /\ FinishedRunsStay(d)
  <2>1. ASSUME NEW r \in Run
        PROVE  /\ run[d][r].status = "SUCCEEDED" <=> run'[d][r].status = "SUCCEEDED"
               /\ run[d][r].status \in {"SUCCEEDED", "FAILED"} => run'[d][r] = run[d][r]
    <3>1. r \in Rs => run'[d][r].status = "FAILED" /\ run[d][r].status \in Unfinished
      <4>1. Released(run[d][r], "FAILED").status = "FAILED"
        BY <1>5 DEF Released, WorkRow
      <4> QED
        BY <1>3, <1>4, <4>1
    <3>2. r \notin Rs => run'[d][r] = run[d][r]
      BY <1>3
    <3> QED
      BY <3>1, <3>2 DEF Unfinished
  <2> QED
    BY <2>1 DEF SameEvidence, Evidence, FinishedRunsStay
<1>7. CASE Rs = {} /\ Os = {}
  <2>1. /\ candidate'[d] = candidate[d] /\ blockers'[d] = blockers[d]
    BY <1>3, <1>7 DEF DeadLetteredRow, DeadLetteredBlockers
  <2>2. run'[d] = run[d] /\ operation'[d] = operation[d]
    BY <1>3, <1>5, <1>7
  <2>3. Apart(d)
    BY <1>2, <2>1, <2>2 DEF Apart
  <2> QED
    BY <2>3, ApartRests
<1>8. CASE ~(Rs = {} /\ Os = {})
  <2>1. /\ Cardinality(Rs) \in Nat /\ Cardinality(Os) \in Nat
        /\ Cardinality(Rs) + Cardinality(Os) > 0
    <3>1. Rs \in SUBSET (1..MaxRuns) /\ Os \in SUBSET (1..MaxOperations)
      BY <1>4 DEF Run, Operation
    <3>2. MaxRuns \in Nat /\ MaxOperations \in Nat
      BY BoundAssumption, AttemptsAssumption
    <3>3. /\ Cardinality(Rs) \in Nat /\ (Rs # {} => Cardinality(Rs) > 0)
      BY <3>1, <3>2, CardinalityPositive
    <3>4. /\ Cardinality(Os) \in Nat /\ (Os # {} => Cardinality(Os) > 0)
      BY <3>1, <3>2, CardinalityPositive
    <3> QED
      BY <1>8, <3>3, <3>4
  <2>2. /\ candidate'[d].status = "BLOCKED"
        /\ candidate'[d].stage = IF Os # {} THEN "ELIGIBLE" ELSE "EVALUATING"
        /\ candidate'[d].snapshot = candidate[d].snapshot
        /\ candidate'[d].revision = candidate[d].revision + Cardinality(Rs) + Cardinality(Os)
    BY <1>3, <1>5, <1>8 DEF DeadLetteredRow, CandidateRow
  <2>3. candidate'[d].revision > candidate[d].revision
    BY <1>5, <2>1, <2>2 DEF CandidateRow
  <2>4. /\ blockers[d] \subseteq blockers'[d] /\ blockers'[d] # {}
        /\ \A b \in blockers'[d] \ blockers[d] : b.code \notin FixtureBlockerCodes
    <3> DEFINE chosen == CHOOSE o \in Os : TRUE
               afterRuns == Blocked(blockers[d], "EVALUATION_RETRIES_EXHAUSTED", 0)
    <3>1. /\ blockers[d] \subseteq afterRuns /\ afterRuns # {}
          /\ \A b \in afterRuns \ blockers[d] : b.code \notin FixtureBlockerCodes
      BY BlockedGrows DEF FixtureBlockerCodes
    <3>2. \A bs : /\ bs \subseteq Blocked(bs, "REGISTRY_RETRIES_EXHAUSTED", chosen)
                  /\ Blocked(bs, "REGISTRY_RETRIES_EXHAUSTED", chosen) # {}
                  /\ \A b \in Blocked(bs, "REGISTRY_RETRIES_EXHAUSTED", chosen) \ bs :
                        b.code \notin FixtureBlockerCodes
      BY BlockedGrows DEF FixtureBlockerCodes
    <3> HIDE DEF chosen, afterRuns
    <3>3. blockers'[d] = IF Os = {} THEN (IF Rs = {} THEN blockers[d] ELSE afterRuns)
                         ELSE Blocked(IF Rs = {} THEN blockers[d] ELSE afterRuns,
                                      "REGISTRY_RETRIES_EXHAUSTED", chosen)
      BY <1>3 DEF DeadLetteredBlockers, chosen, afterRuns
    <3>4. CASE Os = {}
      BY <1>8, <3>1, <3>3, <3>4
    <3>5. CASE Os # {} /\ Rs = {}
      BY <3>2, <3>3, <3>5
    <3>6. CASE Os # {} /\ Rs # {}
      BY <3>1, <3>2, <3>3, <3>6
    <3> QED
      BY <3>4, <3>5, <3>6
  <2>5. ASSUME NEW i \in Operation
        PROVE  /\ operation[d][i].status \notin Unfinished => UNCHANGED operation[d][i]
               /\ operation[d][i].status \in Unfinished =>
                     operation'[d][i].status \in Unfinished \cup {"FAILED"} /\ SameOrder(d, i)
    <3>1. CASE i \in Os
      <4>1. operation'[d][i] = Released(operation[d][i], "FAILED")
        BY <1>3, <3>1
      <4>2. operation'[d][i].status = "FAILED" /\ SameOrder(d, i)
        BY <1>5, <4>1, ReleasedOrder DEF SameOrder, WorkStatus
      <4> QED
        BY <1>4, <3>1, <4>2
    <3>2. CASE i \notin Os
      <4>1. operation'[d][i] = operation[d][i]
        BY <1>3, <3>2
      <4> QED
        BY <4>1 DEF SameOrder, SameRequest
    <3> QED
      BY <3>1, <3>2
  <2>6. Stops(d)
    BY <1>2, <1>4, <1>6, <2>2, <2>3, <2>4, <2>5 DEF Stops, SameVersions
  <2> QED
    BY <1>6, <2>6 DEF Effect
<1> QED
  BY <1>7, <1>8

LEMMA EnvironmentEffect ==
    ASSUME TypeInv, OwnedWhileRunning, Environment, NEW d \in Candidate
    PROVE  Effect(d)
<1>1. ASSUME NEW c \in Candidate, NEW r \in Run, NEW lease \in {"LIVE", "EXPIRED"},
             lease = "EXPIRED" => run[c][r].status \in Unfinished,
             run' = [run EXCEPT ![c][r] = [run[c][r] EXCEPT !.lease = lease]],
             UNCHANGED << rows, operation, approval, version, selected >>
      PROVE  Effect(d)
  <2> DEFINE w == [run[c][r] EXCEPT !.lease = lease]
  <2>1. w.status = run[c][r].status
    BY DEF WorkRow, TypeInv, TypeOK
  <2>2. lease = "LIVE" => w = Renewed(run[c][r])
    BY DEF Renewed
  <2> HIDE DEF w
  <2>3. run'[c][r] = w /\ \A s \in Run \ {r} : run'[c][s] = run[c][s]
    BY <1>1 DEF w, TypeInv, TypeOK
  <2>4. \A s \in Run : run'[c][s].status = run[c][s].status
    BY <2>1, <2>3
  <2>5. SameEvidence(c)
    BY <2>4 DEF SameEvidence, Evidence
  <2>6. run[c][r].status \in {"SUCCEEDED", "FAILED"} => w = Renewed(run[c][r])
    BY <1>1, <2>2 DEF Unfinished
  <2>7. FinishedRunsStay(c)
    BY <2>3, <2>6 DEF FinishedRunsStay
  <2>8. d # c => UNCHANGED run[d]
    BY <1>1 DEF TypeInv, TypeOK
  <2>9. SameEvidence(d) /\ FinishedRunsStay(d)
    BY <2>5, <2>7, <2>8, SameRuns
  <2> QED
    BY <1>1, <2>9 DEF Effect, Rests, SameVersions, OperationsGoOn, SameOrder, SameRequest,
       SameStatus, rows
<1>2. ASSUME NEW c \in Candidate, NEW o \in Operation, NEW lease \in {"LIVE", "EXPIRED"},
             lease = "EXPIRED" => operation[c][o].status \in Unfinished,
             operation' = [operation EXCEPT ![c][o] = [operation[c][o] EXCEPT !.lease = lease]],
             UNCHANGED << rows, run, approval, version, selected >>
      PROVE  Effect(d)
  <2> DEFINE w == [operation[c][o] EXCEPT !.lease = lease]
  <2>1. w.status = operation[c][o].status /\ SameRequest(w, operation[c][o])
    BY DEF OperationRow, SameRequest, TypeInv, TypeOK
  <2>2. lease = "LIVE" => w = Renewed(operation[c][o])
    BY DEF Renewed
  <2> HIDE DEF w
  <2>3. operation[c][o].status \notin Unfinished => w = Renewed(operation[c][o])
    BY <1>2, <2>2
  <2>4. /\ operation'[c][o] = w /\ \A i \in Operation \ {o} : UNCHANGED operation[c][i]
        /\ d # c => UNCHANGED operation[d]
    BY <1>2 DEF w, TypeInv, TypeOK
  <2>5. ASSUME NEW i \in Operation, UNCHANGED operation[d][i]
        PROVE  /\ SameOrder(d, i) /\ SameStatus(d, i)
               /\ operation'[d][i] \in {operation[d][i], Renewed(operation[d][i])}
               /\ operation[d][i].status \in Unfinished => operation'[d][i].status \in Unfinished
    BY <2>5 DEF SameOrder, SameRequest, SameStatus
  <2>6. d = c => /\ SameOrder(d, o) /\ SameStatus(d, o)
                 /\ operation[d][o].status \notin Unfinished =>
                       operation'[d][o] \in {operation[d][o], Renewed(operation[d][o])}
    BY <2>1, <2>3, <2>4 DEF SameOrder, SameStatus
  <2>7. OperationsGoOn(d)
    BY <2>4, <2>5, <2>6 DEF OperationsGoOn, SameStatus
  <2>8. SameEvidence(d) /\ FinishedRunsStay(d)
    BY <1>2, SameRuns
  <2> QED
    BY <1>2, <2>7, <2>8 DEF Effect, Rests, SameVersions, rows
<1>3. CASE Heartbeat \/ \E c \in Candidate : LeaseExpires(c)
  <2>1. UNCHANGED << rows, approval, version, selected >>
    BY <1>3, LeaseSteps
  <2>2. CASE UNCHANGED << run, operation >>
    BY <2>1, <2>2, ApartRests DEF Apart, rows
  <2> QED
    BY <1>1, <1>2, <1>3, <2>1, <2>2, LeaseSteps
<1>6. ASSUME UNCHANGED << candidate, gate, blockers, run, decision, approval, operation,
                          version, selected >>
      PROVE  Effect(d)
  BY <1>6, ApartRests DEF Apart
<1> QED
  BY <1>3, <1>6 DEF Environment, WorkerCrash, PublicationAnswerLost

LEMMA Effects ==
    ASSUME TypeInv, OwnedWhileRunning, [Next]_vars, NEW d \in Candidate
    PROVE  Effect(d)
<1>1. ASSUME NEW c \in Candidate, Command(c) PROVE Effect(d)
  BY <1>1, EvaluateEffect, PromotionCheckEffect, ReviewEffect, PromoteEffect, RetryEffect
     DEF Command
<1>2. ASSUME NEW p \in Worker, AttemptStep(p) PROVE Effect(d)
  BY <1>2, EvaluationAttemptFailsEffect, EvaluationAnswerEffect, EvaluationCompletesEffect,
     ActivationEffect DEF AttemptStep, EvaluationStep
<1>3. CASE UNCHANGED vars
  BY <1>3, ApartRests DEF vars, Apart
<1> QED
  BY <1>1, <1>2, <1>3, ClaimEffect, DeadLetterEffect, EnvironmentEffect DEF Next
===============================================================================
