---------------------------- MODULE CandidateView ----------------------------
(***************************************************************************)
(* What a reviewer is shown of a candidate and offered to do with it: the  *)
(* answers of GET /candidates and GET /candidates/{id}, the view model the *)
(* web application makes of them, and the buttons and hints of the views.  *)
(* api/router.py, apps/web/src/lib/api.ts, packages/promotion-ui.          *)
(*                                                                         *)
(* An answer has the fields the decision depends on.  The candidate row is *)
(* the first thing a request reads, everything else is computed later, so  *)
(* the answers take the row the request has read.                          *)
(***************************************************************************)
EXTENDS ControlPlane

\* registryOperationId and blocker summary of a candidate that has none, and
\* the snapshot hash shown when the answer carries none.
NoOperationId == 0
UnavailableSnapshot == {0}

ActivationStates == {"NOT_REQUESTED", "PENDING", "SUCCEEDED", "FAILED"}
ApprovalStates == {"NOT_REQUIRED", "REQUIRED", "APPROVED", "CONSUMED"}

(***************************************************************************)
(* The answers.                                                            *)
(***************************************************************************)
Made(c) == {o \in Operation : operation[c][o].status # "NONE"}

\* registry_operation: the newest one, whatever became of it.
LatestOperation(c) ==
    IF Made(c) = {} THEN NoOperationId
    ELSE CHOOSE o \in Made(c) : \A i \in Made(c) : i <= o

\* The approvals of the current decision that a promotion has consumed.
ConsumedApprovals(row, c) ==
    IF SnapshotCurrent(row, c)
    THEN {a \in Approval : /\ approval[c][a].decision = decision[c].id
                           /\ approval[c][a].snapshot = Evidence(c)
                           /\ ~approval[c][a].revoked /\ approval[c][a].consumed}
    ELSE {}

ApprovalState(row, c) ==
    CASE RequiredApprovals = 0 -> "NOT_REQUIRED"
      [] RequiredApprovals # 0 /\ Cardinality(ConsumedApprovals(row, c)) >= RequiredApprovals ->
            "CONSUMED"
      [] OTHER -> IF Cardinality(AvailableApprovals(row, c)) >= RequiredApprovals
                  THEN "APPROVED" ELSE "REQUIRED"

\* An operation in progress is what counts, else the newest one.
ActivationState(c) ==
    CASE \E o \in Operation : operation[c][o].status \in Unfinished -> "PENDING"
      [] Made(c) = {} -> "NOT_REQUESTED"
      [] OTHER -> operation[c][LatestOperation(c)].status

PromotionEligibilityView ==
    [eligible : BOOLEAN, lifecycle_approval_state : ApprovalStates,
     registry_activation_state : ActivationStates]

CandidateDetail ==
    [stage : StageName, status : StatusName, revision : Nat,
     evaluation_snapshot_hash : SUBSET Run, blockers : SUBSET BlockerCode,
     promotion_eligibility : PromotionEligibilityView,
     registry_operation : Operation \cup {NoOperationId}]

\* GET /candidates/{id}.
DetailAnswer(row, c) ==
    [stage |-> row.stage, status |-> row.status, revision |-> row.revision,
     evaluation_snapshot_hash |-> Evidence(c),
     blockers |-> {b.code : b \in blockers[c]},
     promotion_eligibility |->
        [eligible |-> ProjectedEligible(row, c),
         lifecycle_approval_state |-> ApprovalState(row, c),
         registry_activation_state |-> ActivationState(c)],
     registry_operation |-> LatestOperation(c)]

\* GET /candidates: no snapshot, no activation state, no operation.
CandidateSummary ==
    [stage : StageName, status : StatusName, revision : Nat,
     promotion_eligible : BOOLEAN, lifecycle_approval_state : ApprovalStates,
     blocker_titles : SUBSET BlockerCode]

ListAnswer(row, c) ==
    [stage |-> row.stage, status |-> row.status, revision |-> row.revision,
     promotion_eligible |-> ProjectedEligible(row, c),
     lifecycle_approval_state |-> ApprovalState(row, c),
     blocker_titles |-> {b.code : b \in blockers[c]}]

(***************************************************************************)
(* The view model.                                                         *)
(***************************************************************************)
CandidateViewModel ==
    [stage : StageName, status : StatusName, revision : Nat,
     evaluationSnapshotHash : (SUBSET Run) \cup {UnavailableSnapshot},
     promotionEligible : BOOLEAN, lifecycleApprovalState : ApprovalStates,
     activationState : ActivationStates, hasBlocker : BOOLEAN,
     registryOperationId : Operation \cup {NoOperationId}]

\* A field of an answer, or what stands for it when the answer lacks it.
Field(answer, name, fallback) == IF name \in DOMAIN answer THEN answer[name] ELSE fallback

\* normalizeCandidate reads both answers.
NormalizeCandidate(answer) ==
    LET eligibility == Field(answer, "promotion_eligibility", << >>)
    IN  [stage |-> answer.stage, status |-> answer.status, revision |-> answer.revision,
         evaluationSnapshotHash |->
            Field(answer, "evaluation_snapshot_hash", UnavailableSnapshot),
         promotionEligible |->
            Field(eligibility, "eligible", Field(answer, "promotion_eligible", FALSE)),
         lifecycleApprovalState |->
            Field(eligibility, "lifecycle_approval_state",
                  Field(answer, "lifecycle_approval_state", "NOT_REQUIRED")),
         activationState |->
            Field(eligibility, "registry_activation_state", "NOT_REQUESTED"),
         hasBlocker |->
            Field(answer, "blockers", {}) \cup Field(answer, "blocker_titles", {}) # {},
         registryOperationId |-> Field(answer, "registry_operation", NoOperationId)]

DetailView(c) == NormalizeCandidate(DetailAnswer(candidate[c], c))
ListView(c) == NormalizeCandidate(ListAnswer(candidate[c], c))

(***************************************************************************)
(* What the views offer.                                                   *)
(***************************************************************************)
\* A detail view that offers the decision whatever became of the activation.
CanPromoteAgain(v) ==
    /\ v.promotionEligible
    /\ v.lifecycleApprovalState \in {"NOT_REQUIRED", "APPROVED"}
    /\ ~v.hasBlocker

CanPromote(v) ==
    /\ v.promotionEligible
    /\ v.lifecycleApprovalState \in {"NOT_REQUIRED", "APPROVED"}
    /\ ~v.hasBlocker
    /\ v.activationState = "NOT_REQUESTED"

\* A retry button that hides while the candidate has a blocker.
RetryIfUnblocked(v) ==
    CASE CanPromote(v) -> "PROMOTE"
      [] ~CanPromote(v) /\ v.activationState = "FAILED" /\ ~v.hasBlocker -> "RETRY"
      [] OTHER -> "NONE"

\* The button of the detail view: the lifecycle decision, the retry, or none.
PrimaryAction(v) ==
    CASE CanPromote(v) -> "PROMOTE"
      [] ~CanPromote(v) /\ v.activationState = "FAILED" -> "RETRY"
      [] OTHER -> "NONE"

\* The hint of the inventory.
NextAction(v) ==
    IF v.status = "BLOCKED" THEN "RESOLVE_BLOCKER"
    ELSE IF v.activationState = "PENDING" THEN "WAIT_FOR_REGISTRY"
    ELSE IF v.promotionEligible /\ v.activationState = "NOT_REQUESTED" THEN "RECORD_DECISION"
    ELSE IF v.stage = "EVALUATING" THEN "COMPLETE_PLAN"
    ELSE IF v.activationState = "SUCCEEDED" THEN "REVIEW_MONITORING"
    ELSE "INSPECT"

\* The inventory's filter and the overview's count of waiting decisions.
AwaitsDecision(v) == v.promotionEligible /\ v.activationState = "NOT_REQUESTED"

(***************************************************************************)
(* Properties.                                                             *)
(***************************************************************************)
Promotable(c) ==
    MayQueue(candidate[c], operation[c], blockers[c], decision[c], Evidence(c),
             Usable(approval[c], candidate[c], decision[c]))

ViewTypeOK ==
    \A c \in Candidate :
        /\ DetailAnswer(candidate[c], c) \in CandidateDetail
        /\ ListAnswer(candidate[c], c) \in CandidateSummary
        /\ DetailView(c) \in CandidateViewModel /\ ListView(c) \in CandidateViewModel

\* The inventory names a decision as due exactly when the promote command would
\* take one, and the detail view offers it then, unless the candidate already
\* has a registry version: a second promotion is listed as due and accepted by
\* the API, but its button is disabled ("Promotion unavailable").
OfferMatchesCommand ==
    \A c \in Candidate :
        LET listed == ListView(c)
            due == Promotable(c)
        IN  /\ NextAction(listed) = "RECORD_DECISION" <=> due
            /\ AwaitsDecision(listed) <=> due
            /\ PrimaryAction(DetailView(c)) = "PROMOTE" <=> due /\ Made(c) = {}

\* A registry operation the retry command would accept is the one the detail
\* view offers to retry: the newest one, in spite of the blocker it left.
RetryOfferMatchesCommand ==
    \A c \in Candidate : \A o \in Operation :
        MayRetry(candidate[c], operation[c][o], o, blockers[c], Evidence(c)) =>
            /\ PrimaryAction(DetailView(c)) = "RETRY"
            /\ DetailView(c).registryOperationId = o

\* A candidate listed as blocked has a blocker to resolve: the status is not
\* stored with the blockers and outlives none of them.
BlockedNamesItsBlocker ==
    \A c \in Candidate :
        candidate[c].status = "BLOCKED" => ListView(c).hasBlocker
=============================================================================
