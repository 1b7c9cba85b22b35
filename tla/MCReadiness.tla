---------------------------- MODULE MCReadiness ----------------------------
EXTENDS Readiness

\* Scores of 0 and 1 average to 1/2; a run may have taken no samples at all.
MCResult ==
    {[score |-> Q(s, 1), value |-> Q(s, 1), samples |-> n, evidence |-> e] :
        s \in 0..1, n \in 0..2, e \in {{}, {"log"}}}

\* A gate of any rule and some operators, beside a weighted criterion, and
\* policies that have only one of the two or none.
Gate(rule, operator, minimum) ==
    [hardGate |-> TRUE, weighted |-> FALSE, weight |-> Zero, rule |-> rule,
     operator |-> operator, threshold |-> Q(1, 2), minimumSamples |-> minimum,
     requiredEvidence |-> {"log"}]
Weight(rule, minimum) ==
    [hardGate |-> FALSE, weighted |-> TRUE, weight |-> One, rule |-> rule,
     operator |-> "gte", threshold |-> One, minimumSamples |-> minimum,
     requiredEvidence |-> {}]
Watched == [Weight("mean", 0) EXCEPT !.weighted = FALSE, !.weight = Zero]

MCPolicies ==
    {[minimumScore |-> s, criteria |-> << g, w >>] :
        s \in {Zero, Q(1, 2)},
        g \in {Gate("minimum", "gte", 2), Gate("sample_weighted_mean", "gt", 1),
               Gate("maximum", "lte", 0), Gate("mean", "eq", 3)},
        w \in {Weight("sample_weighted_mean", 2)}}
    \cup {[minimumScore |-> Q(1, 2), criteria |-> << Watched, Weight("mean", 0) >>],
          [minimumScore |-> Zero, criteria |-> << Watched, Watched >>],
          [minimumScore |-> Zero,
           criteria |-> << Watched, Gate("minimum", "lt", 1) >>]}
=============================================================================
