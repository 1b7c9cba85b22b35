----------------------------- MODULE LeasesProofs -----------------------------
(***************************************************************************)
(* The row operators of leased work keep a row well formed.                *)
(***************************************************************************)
EXTENDS Leases, TLAPS

\* A claim counts an attempt only while one is left.
LEMMA ClaimedType ==
    ASSUME NEW w \in WorkRow, Claimable(w), NEW id \in WorkerId
    PROVE  Claimed(w, id) \in WorkRow
<1>1. w.attempts + 1 \in 0..MaxAttempts
  BY AttemptsAssumption DEF WorkRow, Claimable
<1> QED
  BY <1>1 DEF WorkRow, Claimed, WorkStatus, LeaseState

\* The end of an attempt only changes the status and gives the lease up.
LEMMA ReleasedType ==
    ASSUME NEW w \in WorkRow, NEW status \in WorkStatus
    PROVE  Released(w, status) \in WorkRow
BY DEF WorkRow, Released, LeaseState

\* A deadline passes, or the heartbeat moves it.
LEMMA LeaseChangeType ==
    ASSUME NEW w \in WorkRow, NEW lease \in LeaseState
    PROVE  /\ [w EXCEPT !.lease = lease] \in WorkRow
           /\ [w EXCEPT !.lease = lease].status = w.status
BY DEF WorkRow

LEMMA NewRowType == Absent \in WorkRow /\ Queued \in WorkRow
BY AttemptsAssumption DEF Absent, Queued, WorkRow, WorkStatus, LeaseState
===============================================================================
