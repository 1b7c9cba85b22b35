----------------------------- MODULE MCDemoCycle -----------------------------
EXTENDS DemoCycle
\* Every process runs under the default worker_id.
MCShared == [p \in Worker |-> CHOOSE id \in WorkerId : TRUE]
=============================================================================
