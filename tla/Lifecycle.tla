------------------------------ MODULE Lifecycle ------------------------------
(***************************************************************************)
(* The vocabulary of a candidate's lifecycle: its stages and statuses, the *)
(* transition validator every stage change of the API goes through, the    *)
(* guard that locks evaluation out, and the two families of blocker codes. *)
(* domain/lifecycle.py, domain/enums.py, application/lifecycle.py.         *)
(***************************************************************************)
EXTENDS Integers, Sequences

DefaultStages == << "DISCOVERED", "CANDIDATE", "EVALUATING", "ELIGIBLE",
                    "SHADOW", "PROMOTED", "MONITORED" >>

StageName == {"DISCOVERED", "CANDIDATE", "EVALUATING", "ELIGIBLE",
              "SHADOW", "PROMOTED", "MONITORED"}

StatusName == {"ACTIVE", "BLOCKED", "PROMOTION_PENDING",
               "SUSPENDED", "RETIRED", "REJECTED"}

\* A policy may leave these two stages out, so a move may pass over them.
OptionalStages == {"CANDIDATE", "SHADOW"}

\* A policy's configured stages name each stage at most once.
DistinctStages(stages) ==
    \A i, j \in DOMAIN stages : stages[i] = stages[j] => i = j

\* validate_lifecycle_transition accepts current -> target: both stages are
\* configured, the move is not backward and passes over optional stages only.
\* Standing still is accepted (an empty range is passed over).
IsTransition(stages, current, target) ==
    /\ DistinctStages(stages)
    /\ \E i, j \in DOMAIN stages :
          /\ stages[i] = current
          /\ stages[j] = target
          /\ i <= j
          /\ \A k \in (i + 1)..(j - 1) : stages[k] \in OptionalStages

MutationStopStatuses == {"PROMOTION_PENDING", "SUSPENDED", "RETIRED", "REJECTED"}
MutationStopStages == {"PROMOTED", "MONITORED"}

\* require_evaluation_mutable lets the command through.
EvaluationMutable(stage, status) ==
    /\ status \notin MutationStopStatuses
    /\ stage \notin MutationStopStages

\* Blockers that a finished evaluation or a promotion check recomputes.
DerivedBlockerCodes ==
    {"HARD_GATE_FAILED", "EVALUATION_REQUIREMENTS_INCOMPLETE",
     "EVALUATION_PROVIDER_FAILED", "ACTIVE_PLAN_POLICY_MISMATCH",
     "EVALUATION_RETRIES_EXHAUSTED"}

\* Blockers that only an explicit retry of the named operation clears.
RegistryBlockerCodes ==
    {"REGISTRY_OPERATION_FAILED", "REGISTRY_RETRIES_EXHAUSTED",
     "REGISTRY_COMPLETION_STATE_MISMATCH"}

\* Blockers the bootstrap writes for its fixtures.
FixtureBlockerCodes ==
    {"EVALUATION_SAMPLES_INCOMPLETE", "HARD_GATE_P95_LATENCY_FAILED"}

BlockerCode == DerivedBlockerCodes \cup RegistryBlockerCodes \cup FixtureBlockerCodes
=============================================================================
