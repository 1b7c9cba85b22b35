------------------------------ MODULE Readiness ------------------------------
(***************************************************************************)
(* How evidence becomes readiness: the results of every succeeded run of   *)
(* the active plan are aggregated per criterion, judged by the criterion,  *)
(* and summed up into a percentage and into promotion_evidence_eligible.   *)
(* domain/readiness.py, application/readiness.py.                          *)
(*                                                                         *)
(* Numbers are exact rationals, as Decimal is for the sizes that occur.    *)
(* results that are invalid or stale do not exist: no code makes one.      *)
(***************************************************************************)
EXTENDS Integers, Sequences, FiniteSets

CONSTANTS
    PlanSize,  \* criteria of the active plan
    Policies,  \* policies that validate_weight_configuration accepts
    Result,    \* results an evaluator can deliver for a criterion
    MaxRuns    \* bound on succeeded runs

VARIABLES
    policy,  \* the policy of the active plan
    results  \* of each criterion, by succeeded runs in the order they succeeded

vars == << policy, results >>

\* The criteria by their ordinal.
Criterion == 1..PlanSize

Rules == {"sample_weighted_mean", "mean", "minimum", "maximum"}
Operators == {"gte", "gt", "lte", "lt", "eq"}

(***************************************************************************)
(* Rationals with a positive denominator.                                  *)
(***************************************************************************)
Rational == [n : Int, d : Nat \ {0}]
Q(n, d) == [n |-> n, d |-> d]
Zero == Q(0, 1)
One == Q(1, 1)
Plus(a, b) == Q(a.n * b.d + b.n * a.d, a.d * b.d)
Times(a, b) == Q(a.n * b.n, a.d * b.d)
Leq(a, b) == a.n * b.d <= b.n * a.d
Same(a, b) == Leq(a, b) /\ Leq(b, a)
Lesser(a, b) == IF Leq(a, b) THEN a ELSE b
Total(values) ==
    LET sum[i \in 0..Len(values)] == IF i = 0 THEN Zero ELSE Plus(sum[i - 1], values[i])
    IN  sum[Len(values)]

\* What Measurement, CriterionDefinition and calculate_readiness refuse to be built
\* without, and the database's types.
ASSUME PlanAssumption == PlanSize \in Nat
ASSUME ResultAssumption ==
    \A r \in Result :
        /\ r.score \in Rational /\ Leq(Zero, r.score)
        /\ r.value \in Rational /\ r.samples \in Nat
ASSUME PolicyAssumption ==
    \A p \in Policies :
        /\ p.minimumScore \in Rational /\ Leq(Zero, p.minimumScore)
        /\ \A c \in Criterion :
              /\ p.criteria[c].weight \in Rational /\ Leq(Zero, p.criteria[c].weight)
              /\ p.criteria[c].threshold \in Rational /\ p.criteria[c].minimumSamples \in Nat
              /\ p.criteria[c].rule \in Rules /\ p.criteria[c].operator \in Operators

\* A requirement with nothing to meet is met, not unmet.
RatioOrZero(n, d) == IF d = 0 THEN Zero ELSE Q(n, d)
SafeRatio(n, d) == IF d = 0 THEN One ELSE Q(n, d)

SafeMean(values) ==
    IF values = << >> THEN One
    ELSE Times(Total(values), Q(1, Len(values)))

(***************************************************************************)
(* Aggregation of the results rs of one criterion; field is the one that   *)
(* is aggregated, the normalized score or the raw value.                   *)
(***************************************************************************)
Field(rs, field) == [i \in DOMAIN rs |-> rs[i][field]]

\* Samples of all runs, and a count of the newest run's only.
LatestSampleCount(rs) == IF rs = << >> THEN 0 ELSE rs[Len(rs)].samples
SampleCount(rs) ==
    LET count[i \in 0..Len(rs)] == IF i = 0 THEN 0 ELSE count[i - 1] + rs[i].samples
    IN  count[Len(rs)]

WeightedTotal(rs, field) ==
    Total([i \in DOMAIN rs |-> Times(rs[i][field], Q(rs[i].samples, 1))])

\* The mean, and one that forgets that all its weights may be zero.
UnguardedMean(rs, field) ==
    Times(WeightedTotal(rs, field), Q(1, IF SampleCount(rs) = 0 THEN 1 ELSE SampleCount(rs)))
SampleWeightedMean(rs, field) ==
    IF SampleCount(rs) = 0 THEN SafeMean(Field(rs, field))
    ELSE Times(WeightedTotal(rs, field), Q(1, SampleCount(rs)))

Among(values) == {values[i] : i \in DOMAIN values}
Lowest(values) == CHOOSE v \in Among(values) : \A w \in Among(values) : Leq(v, w)
Highest(values) == CHOOSE v \in Among(values) : \A w \in Among(values) : Leq(w, v)

\* Aggregation of at least one result.
Aggregate(rule, rs, field) ==
    CASE rule = "sample_weighted_mean" -> SampleWeightedMean(rs, field)
      [] rule = "mean" -> SafeMean(Field(rs, field))
      [] rule = "minimum" -> Lowest(Field(rs, field))
      [] rule = "maximum" -> Highest(Field(rs, field))

(***************************************************************************)
(* One criterion, judged by all its results.                               *)
(***************************************************************************)
\* The results of a run beside those of the earlier ones, by criterion; it may have
\* measured only some.
Grouped(rr, r) ==
    [c \in Criterion |-> IF c \in DOMAIN r THEN Append(rr[c], r[c]) ELSE rr[c]]

Def(c) == policy.criteria[c]
EnoughSamples(c, rr) == SampleCount(rr[c]) >= Def(c).minimumSamples
RequiredEvidence(c, rr) ==
    Def(c).requiredEvidence \subseteq UNION {rr[c][i].evidence : i \in DOMAIN rr[c]}

Complete(c, rr) ==
    /\ rr[c] # << >>
    /\ EnoughSamples(c, rr)
    /\ RequiredEvidence(c, rr)

Score(c, rr) == Aggregate(Def(c).rule, rr[c], "score")
Measured(c, rr) == Aggregate(Def(c).rule, rr[c], "value")

Compares(operator, value, threshold) ==
    CASE operator = "gte" -> Leq(threshold, value)
      [] operator = "gt" -> ~Leq(value, threshold)
      [] operator = "lte" -> Leq(value, threshold)
      [] operator = "lt" -> ~Leq(threshold, value)
      [] operator = "eq" -> Same(value, threshold)

Verdict(c, rr) ==
    CASE ~Complete(c, rr) -> "REMAINING"
      [] OTHER -> IF Compares(Def(c).operator, Measured(c, rr), Def(c).threshold)
                  THEN "PASSED" ELSE "FAILED"

(***************************************************************************)
(* calculate_readiness.                                                    *)
(***************************************************************************)
HardGates == {c \in Criterion : Def(c).hardGate}
Weighted == {c \in Criterion : Def(c).weighted}

HardGateReadiness(rr) ==
    SafeRatio(Cardinality({c \in HardGates : Verdict(c, rr) = "PASSED"}),
              Cardinality(HardGates))

\* As a fraction of one; an incomplete criterion scores nothing.
WeightedScore(rr) ==
    Total([c \in Criterion |->
              IF c \in Weighted /\ Complete(c, rr)
              THEN Times(Def(c).weight, Score(c, rr)) ELSE Zero])

WeightedReadiness(rr) ==
    IF Weighted = {} \/ Same(policy.minimumScore, Zero) THEN One
    ELSE Lesser(Times(WeightedScore(rr), Q(policy.minimumScore.d, policy.minimumScore.n)), One)

SampleCompleteness(rr) ==
    SafeMean([c \in Criterion |->
                 IF Def(c).minimumSamples = 0 THEN One
                 ELSE Lesser(SafeRatio(SampleCount(rr[c]), Def(c).minimumSamples), One)])

EvaluationCompleteness(rr) ==
    SafeRatio(Cardinality({c \in Criterion : Complete(c, rr)}), Cardinality(Criterion))

ReadinessPercentage(rr) ==
    Times(Q(25, 1), Plus(Plus(HardGateReadiness(rr), WeightedReadiness(rr)),
                         Plus(SampleCompleteness(rr), EvaluationCompleteness(rr))))

EvidenceEligible(rr) ==
    /\ \A c \in HardGates : Verdict(c, rr) = "PASSED"
    /\ Weighted = {} \/ Leq(policy.minimumScore, WeightedScore(rr))
    /\ Same(EvaluationCompleteness(rr), One)
    /\ Same(SampleCompleteness(rr), One)

(***************************************************************************)
(* Runs succeed.  A fixture may be seeded with one run that measured some  *)
(* criteria; a run of the worker measures them all.                        *)
(***************************************************************************)
Init ==
    /\ policy \in Policies
    /\ \E measured \in SUBSET Criterion : \E r \in [measured -> Result] :
          results = Grouped([c \in Criterion |-> << >>], r)

RunSucceeds(r) ==
    /\ \A c \in Criterion : Len(results[c]) < MaxRuns
    /\ results' = Grouped(results, r)
    /\ UNCHANGED policy

Next == \E r \in [Criterion -> Result] : RunSucceeds(r)

Spec == Init /\ [][Next]_vars

(***************************************************************************)
(* Properties.                                                             *)
(***************************************************************************)
\* The percentage the pages show and the flag the gate acts on agree: it is
\* 100 exactly when the evidence is eligible, also for policies that require
\* nothing, where every denominator is zero.
FullIsEligible ==
    Same(ReadinessPercentage(results), Q(100, 1)) <=> EvidenceEligible(results)

\* What runs have measured is kept: another run never makes a decided gate
\* undecided again, and completeness never falls.
ProgressIsKept ==
    [][/\ \A c \in HardGates :
             Verdict(c, results) # "REMAINING" => Verdict(c, results') # "REMAINING"
       /\ Leq(SampleCompleteness(results), SampleCompleteness(results'))
       /\ Leq(EvaluationCompleteness(results), EvaluationCompleteness(results'))]_vars

\* Whatever the rule and the sample counts, zero ones included, the score of
\* a criterion lies between its worst and its best result.
ScoreWithinResults ==
    \A c \in Criterion :
        LET scores == Field(results[c], "score")
        IN scores # << >> =>
              /\ \E i \in DOMAIN scores : Leq(scores[i], Score(c, results))
              /\ \E i \in DOMAIN scores : Leq(Score(c, results), scores[i])

\* Under the minimum rule the worst result decides: no later run makes up for
\* one that failed a gate that asks for at least its threshold.
WorstResultDecides ==
    [][\A c \in HardGates :
          /\ Def(c).rule = "minimum" /\ Def(c).operator \in {"gte", "gt"}
          /\ Verdict(c, results) = "FAILED"
          => Verdict(c, results') = "FAILED"]_vars
=============================================================================
