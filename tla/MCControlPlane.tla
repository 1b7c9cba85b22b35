--------------------------- MODULE MCControlPlane ---------------------------
EXTENDS ControlPlaneActivation, CandidateView, TLC
CONSTANTS c1, c2, p1, p2, w1, w2
MCShared == p1 :> w1 @@ p2 :> w1
MCDistinct == p1 :> w1 @@ p2 :> w2
\* Processes that run under one id are interchangeable.
MCWorkers == Permutations({p1, p2})
=============================================================================
