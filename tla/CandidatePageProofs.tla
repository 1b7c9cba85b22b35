------------------------- MODULE CandidatePageProofs -------------------------
(***************************************************************************)
(* What a reviewer's page shows and sends, for any candidates, workers and *)
(* bounds, any history of loads and events, and whatever the control plane *)
(* does meanwhile.                                                         *)
(*                                                                         *)
(* Both theorems rest on the order in which a load of the candidate page   *)
(* reads: events, candidate row, the rest.  Evidence never changes under   *)
(* an unchanged revision (RestsOrGrows), so a view that was read after its *)
(* revision is no older than it claims; and a change without an event      *)
(* changes nothing that is shown (SilentStep), so a view that was read     *)
(* after the last event is current.                                        *)
(***************************************************************************)
EXTENDS CandidatePage, ControlPlaneDecisions, WellFoundedInduction

BaseInv == TypeInv /\ OwnedWhileRunning

(***************************************************************************)
(* The initial states have the types of the control plane's rows.          *)
(***************************************************************************)
Ended(p, status) == Released(Claimed(Queued, IdOf[p]), status)

LEMMA EmptyRowsType ==
    /\ Absent \in WorkRow /\ OwnedRow(Absent) /\ Queued \in WorkRow /\ OwnedRow(Queued)
    /\ NoOperation \in OperationRow /\ OwnedRow(NoOperation) /\ NoApproval \in ApprovalRow
BY WorkerAssumption, AttemptsAssumption
   DEF Queued, Absent, NoOperation, NoApproval, WorkRow, OperationRow, ApprovalRow,
       WorkStatus, LeaseState, OwnedRow

LEMMA EndedType ==
    ASSUME NEW p \in Worker, NEW status \in {"SUCCEEDED", "FAILED"}
    PROVE  /\ Ended(p, status) \in WorkRow /\ OwnedRow(Ended(p, status))
           /\ [Ended(p, status) EXCEPT !.attempts = MaxAttempts] \in WorkRow
           /\ OwnedRow([Ended(p, status) EXCEPT !.attempts = MaxAttempts])
<1>1. Queued \in WorkRow /\ Claimable(Queued) /\ IdOf[p] \in WorkerId
  BY EmptyRowsType, WorkerAssumption, AttemptsAssumption
     DEF Queued, Absent, Claimable, Unfinished
<1> DEFINE w == Claimed(Queued, IdOf[p])
<1>2. w \in WorkRow
  BY <1>1, ClaimedType
<1> HIDE DEF w
<1>3. Released(w, status) \in WorkRow
  BY <1>2, ReleasedType DEF WorkStatus
<1>4. OwnedRow(Released(w, status))
  BY <1>2 DEF WorkRow, Released, OwnedRow
<1>5. MaxAttempts \in 0..MaxAttempts
  BY AttemptsAssumption
<1> DEFINE x == Released(w, status)
<1>6. x.status = status
  BY <1>2 DEF WorkRow, Released
<1> HIDE DEF x
<1>7. x \in WorkRow /\ OwnedRow(x)
  BY <1>3, <1>4 DEF x
<1>8. [x EXCEPT !.attempts = MaxAttempts] \in WorkRow
  BY <1>5, <1>7 DEF WorkRow
<1>9. OwnedRow([x EXCEPT !.attempts = MaxAttempts])
  BY <1>6, <1>7 DEF WorkRow, OwnedRow
<1> QED
  BY <1>7, <1>8, <1>9 DEF Ended, x, w

FailedPublication(p) ==
    Released(Claimed(NewOperation([snapshot |-> {1}], [id |-> 3], {}), IdOf[p]), "FAILED")

LEMMA FailedPublicationType ==
    ASSUME NEW p \in Worker
    PROVE  FailedPublication(p) \in OperationRow /\ OwnedRow(FailedPublication(p))
<1> DEFINE op == NewOperation([snapshot |-> {1}], [id |-> 3], {})
           w == Claimed(op, IdOf[p])
<1>1. {1} \in SUBSET Run
  BY HistoryAssumption, BoundAssumption DEF Run
<1>2. op \in OperationRow
  BY <1>1, EmptyRowsType DEF NewOperation, OperationRow, WorkStatus
<1>3. op.status = "QUEUED" /\ op.attempts = 0 /\ op.lease = "NONE"
  BY DEF NewOperation, NoOperation
<1>4. Claimable(op) /\ IdOf[p] \in WorkerId
  BY <1>3, WorkerAssumption, AttemptsAssumption DEF Claimable, Unfinished
<1> HIDE DEF op
<1>5. w \in OperationRow
  BY <1>2, <1>4, ClaimedOperationType
<1> HIDE DEF w
<1>6. Released(w, "FAILED") \in OperationRow
  BY <1>5, ReleasedOperationType DEF WorkStatus
<1>7. OwnedRow(Released(w, "FAILED"))
  BY <1>5 DEF OperationRow, Released, OwnedRow
<1> QED
  BY <1>6, <1>7 DEF FailedPublication, w, op

LEMMA PageBaseInit == PageInit => BaseInv
<1> SUFFICES ASSUME PageInit PROVE BaseInv
  OBVIOUS
<1>0. 1 \in Run /\ 2 \in Run /\ 3 \in Run /\ 1 \in Operation
  BY HistoryAssumption, BoundAssumption DEF Run, Operation
<1>1. /\ gate \in [Candidate -> Verdict]
      /\ approval \in [Candidate -> [Approval -> ApprovalRow]]
      /\ version \in [Candidate -> SUBSET VersionRow]
      /\ selected \in [Candidate -> Nat]
      /\ published \subseteq Candidate \X Nat
      /\ worker \in [Worker -> {Idle} \cup
            [task : Tasks, candidate : Candidate, work : Run \cup Operation]]
      /\ beats \subseteq [task : Tasks, candidate : Candidate, work : Run \cup Operation]
  BY EmptyRowsType DEF PageInit, Verdict
<1>2. \A c \in Candidate : IsFiniteSet(version[c])
  BY FS_EmptySet DEF PageInit
<1>3. /\ candidate \in [Candidate -> CandidateRow]
      /\ decision \in [Candidate -> DecisionRow]
  BY <1>0 DEF PageInit, DecisionDue, PublicationFailed, CandidateRow, DecisionRow,
     StageName, StatusName
<1>4. blockers \in [Candidate -> SUBSET BlockerRow]
  <2>1. ASSUME NEW code \in BlockerCode, NEW o \in Nat
        PROVE  Blocked({}, code, o) \in SUBSET BlockerRow
    <3>1. Blocked({}, code, o) = {[code |-> code, operation |-> o]}
      BY DEF Blocked
    <3> QED
      BY <3>1 DEF BlockerRow
  <2>2. /\ Blocked({}, "EVALUATION_PROVIDER_FAILED", 0) \in SUBSET BlockerRow
        /\ Blocked({}, "REGISTRY_OPERATION_FAILED", 1) \in SUBSET BlockerRow
    BY <2>1 DEF BlockerCode, DerivedBlockerCodes, RegistryBlockerCodes
  <2> QED
    BY <2>2 DEF PageInit, DecisionDue, PublicationFailed
<1>5. /\ run \in [Candidate -> [Run -> WorkRow]]
      /\ \A c \in Candidate, r \in Run : OwnedRow(run[c][r])
  <2>1. CASE DecisionDue
    <3>1. PICK p \in Worker :
            run = [c \in Candidate |-> [r \in Run |->
                      CASE r = 1 -> Ended(p, "SUCCEEDED")
                        [] r = 2 -> [Ended(p, "FAILED") EXCEPT !.attempts = MaxAttempts]
                        [] r = 3 -> Queued
                        [] OTHER -> Absent]]
      BY <2>1 DEF DecisionDue, Ended
    <3> QED
      BY <3>1, EndedType, EmptyRowsType
  <2>2. CASE PublicationFailed
    <3>1. PICK p \in Worker :
            run = [c \in Candidate |-> [r \in Run |->
                      IF r = 1 THEN Ended(p, "SUCCEEDED") ELSE Absent]]
      BY <2>2 DEF PublicationFailed, Ended
    <3> QED
      BY <3>1, EndedType, EmptyRowsType
  <2> QED
    BY <2>1, <2>2 DEF PageInit
<1>6. /\ operation \in [Candidate -> [Operation -> OperationRow]]
      /\ \A c \in Candidate, o \in Operation : OwnedRow(operation[c][o])
  <2>1. CASE DecisionDue
    BY <2>1, EmptyRowsType DEF DecisionDue
  <2>2. CASE PublicationFailed
    <3>1. PICK p \in Worker :
            operation = [c \in Candidate |-> [o \in Operation |->
                            IF o = 1 THEN FailedPublication(p) ELSE NoOperation]]
      BY <2>2 DEF PublicationFailed, FailedPublication
    <3> QED
      BY <3>1, FailedPublicationType, EmptyRowsType
  <2> QED
    BY <2>1, <2>2 DEF PageInit
<1> QED
  BY <1>1, <1>2, <1>3, <1>4, <1>5, <1>6 DEF BaseInv, TypeInv, TypeOK, FiniteVersions,
     OwnedWhileRunning

\* Whatever the browser does, the control plane makes its own steps.
LEMMA PageNextIsNext == [PageNext]_allVars => [Next]_vars
<1>1. ASSUME ServerStep PROVE Next
  BY <1>1 DEF ServerStep
<1>2. ASSUME NEW m \in sent, CommandAccepted(m) PROVE Next
  <2>1. Shown \in Candidate
    BY PageAssumption
  <2>2. CASE m.kind = "PROMOTE" /\ Promote(Shown)
    BY <2>1, <2>2 DEF Next, Command
  <2>3. CASE m.kind = "RETRY" /\ RetryOperation(Shown, m.operation)
    <3>1. m.operation \in Operation
      BY <1>2, <2>3 DEF CommandAccepted, Acceptable
    <3> QED
      BY <2>1, <2>3, <3>1 DEF Next, Command
  <2> QED
    BY <1>2, <2>2, <2>3 DEF CommandAccepted
<1> QED
  BY <1>1, <1>2 DEF PageNext, PageStep, ReadEvents, ReadRow, ReadAnswer, FinishLoad, Deliver,
     Refresh, OpenDialog, Cancel, Submit, CommandRefused, allVars

LEMMA PageBaseNext == BaseInv /\ [PageNext]_allVars => BaseInv'
BY PageNextIsNext, TypeNext, OwnedNext DEF BaseInv


(***************************************************************************)
(* A decision sent at rest.  The revision tells the evidence: whatever was *)
(* read with or after a revision is the evidence of that revision as long  *)
(* as the candidate still has it.                                          *)
(***************************************************************************)
Tells(revision, evidence) ==
    /\ revision \in Nat /\ revision <= candidate[Shown].revision
    /\ revision = candidate[Shown].revision => evidence = Evidence(Shown)

\* Evidence changes only with the revision, and revisions grow.
LEMMA TellsKept ==
    ASSUME BaseInv, [Next]_vars, NEW n, NEW e, Tells(n, e)
    PROVE  Tells(n, e)'
<1>0. /\ Shown \in Candidate /\ candidate[Shown].revision \in Nat
      /\ candidate'[Shown].revision \in Nat
  BY PageAssumption, TypeNext DEF BaseInv, TypeInv, TypeOK, CandidateRow
<1>1. Effect(Shown)
  BY <1>0, Effects DEF BaseInv
<1>2. CASE Rests(Shown)
  BY <1>2 DEF Rests, SameEvidence, Tells
<1>3. CASE candidate'[Shown].revision > candidate[Shown].revision
  BY <1>0, <1>3 DEF Tells
<1> QED
  BY <1>0, <1>1, <1>2, <1>3, RestsOrGrows DEF BaseInv

LoadShape == DOMAIN load = {"open", "cursor", "row", "view"}

\* The list pages offer no decision.
OnlyDetailDecides == Route # "CANDIDATE" => dialog = "NONE" /\ sent = {}

RowKnown ==
    \A row \in load.row :
        row.revision \in Nat /\ row.revision <= candidate[Shown].revision

ViewTells(views) == \A v \in views : Tells(v.revision, v.evaluationSnapshotHash)

SentTells ==
    \A m \in sent : m.rested => Tells(m.expected_candidate_revision, m.seen)

\* A load in progress, a page at rest and a decision sent from such a page: none
\* carries evidence that its revision does not tell.
TellsInv ==
    /\ LoadShape /\ OnlyDetailDecides
    /\ Route = "CANDIDATE" =>
          /\ RowKnown /\ ViewTells(load.view) /\ SentTells
          /\ AtRest => ViewTells(page.view)

LEMMA TellsInit == PageInit => TellsInv
<1> SUFFICES ASSUME PageInit PROVE TellsInv
  OBVIOUS
<1>1. LoadShape /\ OnlyDetailDecides /\ RowKnown /\ ViewTells(load.view) /\ SentTells
  BY DEF PageInit, LoadShape, OnlyDetailDecides, RowKnown, ViewTells, SentTells, NoLoad, NotRead
<1>2. ASSUME Route = "CANDIDATE" PROVE ViewTells(page.view)
  <2> DEFINE now == DetailView(Shown)
  <2>1. /\ now.revision = candidate[Shown].revision
        /\ now.evaluationSnapshotHash = Evidence(Shown)
        /\ "revision" \in DOMAIN now
    BY PageAssumption, DetailFields
  <2>2. ShownNow = now
    BY <1>2 DEF ShownNow
  <2> HIDE DEF now
  <2>3. CASE DecisionDue
    <3>1. candidate[Shown].revision = 6
      BY <2>3, PageAssumption DEF DecisionDue
    <3>2. \A v \in page.view : v.revision = 5
      BY <2>1, <2>2, <2>3 DEF DecisionDue
    <3> QED
      BY <3>1, <3>2 DEF ViewTells, Tells
  <2>4. CASE PublicationFailed
    <3>1. candidate[Shown].revision = 5
      BY <2>4, PageAssumption DEF PublicationFailed
    <3>2. page.view = {now}
      BY <2>2, <2>4 DEF PublicationFailed
    <3> QED
      BY <2>1, <3>1, <3>2 DEF ViewTells, Tells
  <2> QED
    BY <2>3, <2>4 DEF PageInit
<1> QED
  BY <1>1, <1>2 DEF TellsInv

\* The control plane goes on while the browser keeps what it has.
LEMMA TellsServer ==
    ASSUME BaseInv, TellsInv, [Next]_vars, UNCHANGED << load, page, timer >>,
           sent' \subseteq sent, dialog' \in {dialog, "NONE"}
    PROVE  TellsInv'
<1>1. \A n, e : Tells(n, e) => Tells(n, e)'
  BY TellsKept
<1>2. LoadShape' /\ OnlyDetailDecides'
  BY DEF TellsInv, LoadShape, OnlyDetailDecides
<1>3. \A views : ViewTells(views) => ViewTells(views)'
  BY <1>1 DEF ViewTells
<1>4. ASSUME SentTells PROVE SentTells'
  BY <1>1, <1>4 DEF SentTells
<1>5. ASSUME RowKnown PROVE RowKnown'
  <2>1. candidate[Shown].revision \in Nat /\ Tells(candidate[Shown].revision, Evidence(Shown))
    BY PageAssumption DEF BaseInv, TypeInv, TypeOK, CandidateRow, Tells
  <2>2. candidate'[Shown].revision \in Nat
    BY PageAssumption, TypeNext DEF BaseInv, TypeInv, TypeOK, CandidateRow
  <2>3. candidate[Shown].revision <= candidate'[Shown].revision
    BY <2>1, TellsKept DEF Tells
  <2> QED
    BY <1>5, <2>1, <2>2, <2>3 DEF RowKnown
<1>6. AtRest' <=> AtRest
  BY DEF AtRest
<1> QED
  BY <1>2, <1>3, <1>4, <1>5, <1>6 DEF TellsInv

\* A step of the browser leaves the candidate as it is.
LEMMA TellsStable ==
    ASSUME UNCHANGED vars
    PROVE  /\ \A n, e : Tells(n, e)' <=> Tells(n, e)
           /\ \A views : ViewTells(views)' <=> ViewTells(views)
           /\ UNCHANGED << candidate, Evidence(Shown) >>
BY DEF vars, Tells, ViewTells, Evidence

LEMMA TellsLoad ==
    ASSUME BaseInv, TellsInv, ReadEvents \/ ReadRow \/ ReadAnswer
    PROVE  TellsInv'
<1>0. UNCHANGED vars /\ UNCHANGED << page, timer, dialog, sent >>
  BY DEF ReadEvents, ReadRow, ReadAnswer
<1>1. /\ LoadShape /\ LoadShape' /\ load'.open = load.open
      /\ load'.row \in {load.row, {candidate[Shown]}}
  BY DEF ReadEvents, ReadRow, ReadAnswer, LoadShape, TellsInv
<1>2. OnlyDetailDecides' /\ (AtRest' <=> AtRest) /\ (SentTells => SentTells')
  BY <1>0, <1>1, TellsStable DEF TellsInv, OnlyDetailDecides, AtRest, SentTells
<1>3. candidate[Shown].revision \in Nat
  BY PageAssumption DEF BaseInv, TypeInv, TypeOK, CandidateRow
<1>4. RowKnown => RowKnown'
  BY <1>0, <1>1, <1>3, TellsStable DEF RowKnown
<1>5. ASSUME RowKnown, ViewTells(load.view), Route = "CANDIDATE" PROVE ViewTells(load'.view)
  <2>1. CASE ReadEvents \/ ReadRow
    BY <1>1, <1>5, <2>1 DEF ReadEvents, ReadRow, LoadShape
  <2>2. CASE ReadAnswer
    <3>1. PICK row \in load.row :
            load' = [load EXCEPT !.view = {NormalizeCandidate(DetailAnswer(row, Shown))}]
      BY <1>5, <2>2 DEF ReadAnswer
    <3>2. load'.view = {NormalizeCandidate(DetailAnswer(row, Shown))}
      BY <1>1, <3>1 DEF LoadShape
    <3>3. /\ NormalizeCandidate(DetailAnswer(row, Shown)).revision = row.revision
          /\ NormalizeCandidate(DetailAnswer(row, Shown)).evaluationSnapshotHash =
                Evidence(Shown)
      BY DetailFieldsOf
    <3>4. Tells(row.revision, Evidence(Shown))
      BY <1>5 DEF RowKnown, Tells
    <3> QED
      BY <3>2, <3>3, <3>4 DEF ViewTells
  <2> QED
    BY <2>1, <2>2
<1>6. ViewTells(load'.view) => ViewTells(load.view)'
  BY <1>0, TellsStable DEF ViewTells
<1>7. ViewTells(page.view) => ViewTells(page.view)'
  BY <1>0, TellsStable DEF ViewTells
<1> QED
  BY <1>1, <1>2, <1>4, <1>5, <1>6, <1>7 DEF TellsInv

LEMMA TellsPage ==
    ASSUME TellsInv, FinishLoad \/ Deliver \/ Refresh
    PROVE  TellsInv'
<1>0. UNCHANGED vars /\ UNCHANGED << dialog, sent >>
  BY DEF FinishLoad, Deliver, Refresh
<1>1. OnlyDetailDecides' /\ (SentTells => SentTells')
  BY <1>0, TellsStable DEF TellsInv, OnlyDetailDecides, SentTells
<1>2. CASE FinishLoad
  <2>1. load' = NoLoad /\ page'.view = load.view
    BY <1>2 DEF FinishLoad
  <2>2. LoadShape' /\ RowKnown' /\ ViewTells(load.view)'
    BY <2>1 DEF NoLoad, NotRead, LoadShape, RowKnown, ViewTells
  <2>3. ViewTells(load.view) => ViewTells(page.view)'
    BY <1>0, <2>1, TellsStable DEF ViewTells
  <2> QED
    BY <1>1, <2>2, <2>3 DEF TellsInv
<1>3. CASE Deliver
  <2>1. load' = load /\ timer'
    BY <1>3 DEF Deliver, Material
  <2>2. LoadShape' /\ (RowKnown => RowKnown') /\ (ViewTells(load.view) => ViewTells(load.view)')
    BY <1>0, <2>1, TellsStable DEF TellsInv, LoadShape, RowKnown, ViewTells
  <2> QED
    BY <1>1, <2>1, <2>2 DEF TellsInv, AtRest
<1>4. CASE Refresh
  <2>1. load' = NewLoad
    BY <1>4 DEF Refresh
  <2>2. LoadShape' /\ RowKnown' /\ ViewTells(load.view)' /\ load'.open
    BY <2>1 DEF NewLoad, NoLoad, NotRead, LoadShape, RowKnown, ViewTells
  <2> QED
    BY <1>1, <2>2 DEF TellsInv, AtRest
<1> QED
  BY <1>2, <1>3, <1>4

LEMMA TellsReviewer ==
    ASSUME TellsInv, OpenDialog \/ Cancel \/ Submit
    PROVE  TellsInv'
<1>0. UNCHANGED vars /\ UNCHANGED << load, page, timer >>
  BY DEF OpenDialog, Cancel, Submit
<1>1. LoadShape' /\ (RowKnown => RowKnown') /\ (ViewTells(load.view) => ViewTells(load.view)')
  BY <1>0, TellsStable DEF TellsInv, LoadShape, RowKnown, ViewTells
<1>2. (AtRest' <=> AtRest) /\ (ViewTells(page.view) => ViewTells(page.view)')
  BY <1>0, TellsStable DEF AtRest, ViewTells
<1>3. OnlyDetailDecides'
  BY DEF TellsInv, OnlyDetailDecides, OpenDialog, Cancel, Submit
<1>4. ASSUME SentTells, AtRest => ViewTells(page.view) PROVE SentTells'
  <2>1. CASE OpenDialog \/ Cancel
    BY <1>0, <1>4, <2>1, TellsStable DEF SentTells, OpenDialog, Cancel
  <2>2. CASE Submit
    <3>1. PICK v \in page.view :
            sent' = sent \cup {[key |-> submitted', kind |-> dialog,
                                expected_candidate_revision |-> v.revision,
                                operation |-> IF dialog = "RETRY" THEN v.registryOperationId
                                              ELSE NoOperationId,
                                seen |-> v.evaluationSnapshotHash, rested |-> AtRest]}
      BY <2>2 DEF Submit
    <3>2. AtRest => Tells(v.revision, v.evaluationSnapshotHash)
      BY <1>4 DEF ViewTells
    <3>3. \A m \in sent' : m.rested => Tells(m.expected_candidate_revision, m.seen)
      BY <1>4, <3>1, <3>2 DEF SentTells
    <3> QED
      BY <1>0, <3>3, TellsStable DEF SentTells
  <2> QED
    BY <2>1, <2>2
<1> QED
  BY <1>1, <1>2, <1>3, <1>4 DEF TellsInv

LEMMA TellsNext == BaseInv /\ TellsInv /\ [PageNext]_allVars => TellsInv'
<1> SUFFICES ASSUME BaseInv, TellsInv, [PageNext]_allVars PROVE TellsInv'
  OBVIOUS
<1>0. [Next]_vars
  BY PageNextIsNext
<1>1. CASE ServerStep
  BY <1>0, <1>1, TellsServer DEF ServerStep
<1>2. CASE PageStep
  BY <1>2, TellsLoad, TellsPage DEF PageStep
<1>3. CASE OpenDialog \/ Cancel \/ Submit
  BY <1>3, TellsReviewer
<1>4. ASSUME NEW m \in sent, CommandAccepted(m) \/ CommandRefused(m) PROVE TellsInv'
  <2>1. /\ UNCHANGED << load, page, timer >>
        /\ sent' \subseteq sent /\ dialog' \in {dialog, "NONE"}
    BY <1>4 DEF CommandAccepted, CommandRefused
  <2> QED
    BY <1>0, <2>1, TellsServer
<1>5. CASE UNCHANGED allVars
  BY <1>0, <1>5, TellsServer DEF allVars, browser
<1> QED
  BY <1>1, <1>2, <1>3, <1>4, <1>5 DEF PageNext

\* Only an accepted command takes effect, and it is accepted at its revision.
LEMMA DecisionSees ==
    ASSUME TellsInv, [PageNext]_allVars, NEW m \in sent, m.rested, TakesEffect(m)
    PROVE  m.seen = Evidence(Shown)
<1>1. PICK n \in sent : (CommandAccepted(n) \/ CommandRefused(n)) /\ m \notin sent'
  BY DEF PageNext, ServerStep, PageStep, ReadEvents, ReadRow, ReadAnswer, FinishLoad, Deliver,
     Refresh, OpenDialog, Cancel, Submit, allVars, browser, TakesEffect
<1>2. CommandAccepted(n)
  BY <1>1 DEF CommandRefused, TakesEffect, vars
<1>3. m = n
  BY <1>1, <1>2 DEF CommandAccepted
<1>4. m.expected_candidate_revision = candidate[Shown].revision
  BY <1>2, <1>3 DEF CommandAccepted, Acceptable
<1>5. Tells(m.expected_candidate_revision, m.seen)
  BY DEF TellsInv, OnlyDetailDecides, SentTells
<1> QED
  BY <1>4, <1>5 DEF Tells

\* However many loads, events, evaluations and other reviewers' decisions come
\* between: a decision sent while the page is at rest takes effect only on the
\* evidence its reviewer saw (submitDecision in apps/web, read order of
\* getCandidateDetail, the revision check of queue_promotion).
THEOREM RestedDecisionsSee == PageSpec => DecisionAtRestSeesItsEvidence
<1>1. PageInit => BaseInv /\ TellsInv
  BY PageBaseInit, TellsInit
<1>2. BaseInv /\ TellsInv /\ [PageNext]_allVars => (BaseInv /\ TellsInv)'
  BY PageBaseNext, TellsNext
<1>3. BaseInv /\ TellsInv /\ [PageNext]_allVars =>
         [\A m \in sent : m.rested /\ TakesEffect(m) => m.seen = Evidence(Shown)]_allVars
  BY DecisionSees
<1> QED
  BY <1>1, <1>2, <1>3, PTL DEF PageSpec, DecisionAtRestSeesItsEvidence


(***************************************************************************)
(* A page that has been handed everything.  What leaves no event changes   *)
(* nothing that is shown, so what was read after the last event is what    *)
(* there is to show.                                                       *)
(***************************************************************************)
Newest(S) == IF S = {} THEN NoOperationId ELSE CHOOSE o \in S : \A i \in S : i <= o

LEMMA LatestIs ==
    /\ LatestOperation(Shown) = Newest(Made(Shown))
    /\ LatestOperation(Shown)' = Newest(Made(Shown)')
BY Zenon DEF LatestOperation, Newest

\* A set of naturals has a least one.
LEMMA LeastNatural ==
    ASSUME NEW T, T \subseteq Nat, T # {}
    PROVE  \E x \in T : \A y \in T : x <= y
<1> DEFINE R == OpToRel(<, Nat)
<1>1. IsWellFoundedOn(R, Nat)
  BY NatLessThanWellFounded
<1>2. \A x, y \in Nat : << x, y >> \in R <=> x < y
  BY DEF OpToRel
<1> HIDE DEF R
<1>3. PICK x \in T : \A y \in T : ~(<< y, x >> \in R)
  BY <1>1, WFMin
<1>4. \A y \in T : ~(y < x)
  BY <1>2, <1>3
<1>5. \A y \in T : x <= y
  BY <1>4
<1> QED
  BY <1>5

LEMMA MadeHasNewest ==
    ASSUME Made(Shown) # {}
    PROVE  \E o \in Made(Shown) : \A i \in Made(Shown) : i <= o
<1> DEFINE T == {MaxOperations - i : i \in Made(Shown)}
<1>1. MaxOperations \in Nat /\ \A i \in Made(Shown) : i \in 1..MaxOperations
  BY BoundAssumption DEF Made, Operation
<1>2. T \subseteq Nat /\ T # {}
  BY <1>1
<1> HIDE DEF T
<1>3. PICK x \in T : \A y \in T : x <= y
  BY <1>2, LeastNatural
<1>4. PICK o \in Made(Shown) : x = MaxOperations - o
  BY DEF T
<1>5. ASSUME NEW i \in Made(Shown) PROVE i <= o
  <2>1. MaxOperations - i \in T
    BY DEF T
  <2>2. x <= MaxOperations - i
    BY <1>3, <2>1
  <2> QED
    BY <1>1, <1>4, <2>2
<1> QED
  BY <1>5

\* The same rows give the same answer.
LEMMA SameAnswer ==
    ASSUME TypeInv, TypeInv',
           UNCHANGED << candidate[Shown], gate[Shown], blockers[Shown], decision[Shown],
                        approval[Shown] >>,
           SameEvidence(Shown), \A o \in Operation : SameStatus(Shown, o)
    PROVE  DetailView(Shown)' = DetailView(Shown)
<1>1. Evidence(Shown)' = Evidence(Shown)
  BY DEF SameEvidence
<1>2. \A o \in Operation : operation'[Shown][o].status = operation[Shown][o].status
  BY DEF SameStatus
<1>3. Made(Shown)' = Made(Shown)
  BY <1>2 DEF Made
<1>4. LatestOperation(Shown)' = LatestOperation(Shown)
  BY <1>3, LatestIs
<1>5. SnapshotCurrent(candidate[Shown], Shown)' <=> SnapshotCurrent(candidate[Shown], Shown)
  BY <1>1 DEF SnapshotCurrent
<1>6. /\ AvailableApprovals(candidate[Shown], Shown)' = AvailableApprovals(candidate[Shown], Shown)
      /\ ConsumedApprovals(candidate[Shown], Shown)' = ConsumedApprovals(candidate[Shown], Shown)
  BY <1>1, <1>5 DEF AvailableApprovals, ConsumedApprovals
<1>7. ApprovalState(candidate[Shown], Shown)' = ApprovalState(candidate[Shown], Shown)
  BY <1>6 DEF ApprovalState
<1>8. ProjectedEligible(candidate[Shown], Shown)' = ProjectedEligible(candidate[Shown], Shown)
  BY <1>2, <1>5, <1>6 DEF ProjectedEligible
<1>9. ActivationState(Shown)' = ActivationState(Shown)
  <2>1. (\E o \in Operation : operation'[Shown][o].status \in Unfinished) <=>
        (\E o \in Operation : operation[Shown][o].status \in Unfinished)
    BY <1>2
  <2>2. ASSUME Made(Shown) # {}, \A o \in Operation : operation[Shown][o].status \notin Unfinished
        PROVE  operation'[Shown][LatestOperation(Shown)'].status =
                  operation[Shown][LatestOperation(Shown)].status
    <3>1. PICK o \in Made(Shown) : \A i \in Made(Shown) : i <= o
      BY <2>2, MadeHasNewest
    <3>2. LatestOperation(Shown) \in Operation
      BY <2>2, <3>1, LatestIs DEF Newest, Made
    <3> QED
      BY <1>2, <1>4, <3>2
  <2> QED
    BY <1>3, <2>1, <2>2 DEF ActivationState
<1>10. DetailAnswer(candidate[Shown], Shown)' = DetailAnswer(candidate[Shown], Shown)
  BY <1>1, <1>4, <1>7, <1>8, <1>9 DEF DetailAnswer
<1> QED
  BY <1>10, Zenon DEF DetailView

\* Only leases, owners and versions change without an event, and work that goes
\* on: nothing a reviewer is shown.
LEMMA SilentStep ==
    ASSUME BaseInv, [Next]_vars, ~LeavesEvent
    PROVE  /\ candidate'[Shown] = candidate[Shown]
           /\ DetailView(Shown)' = DetailView(Shown)
<1>0. Shown \in Candidate /\ TypeInv /\ TypeInv' /\ candidate[Shown].revision \in Nat
  BY PageAssumption, TypeNext DEF BaseInv, TypeInv, TypeOK, CandidateRow
<1>1. candidate'[Shown] = candidate[Shown]
  BY DEF LeavesEvent
<1>2. Rests(Shown)
  <2>1. Effect(Shown)
    BY <1>0, Effects DEF BaseInv
  <2> QED
    BY <1>0, <1>1, <2>1, RestsOrGrows
<1>3. \A o \in Operation : SameStatus(Shown, o)
  <2>1. DOMAIN operation[Shown] = Operation /\ DOMAIN operation'[Shown] = Operation
    BY <1>0 DEF TypeInv, TypeOK
  <2>2. Progress(operation[Shown])' = Progress(operation[Shown])
    BY DEF LeavesEvent
  <2>3. ASSUME NEW o \in Operation PROVE SameStatus(Shown, o)
    <3>1. /\ Progress(operation[Shown])[o] =
                << operation[Shown][o].status, operation[Shown][o].attempts >>
          /\ Progress(operation[Shown])'[o] =
                << operation'[Shown][o].status, operation'[Shown][o].attempts >>
      BY <2>1 DEF Progress
    <3> QED
      BY <2>2, <3>1 DEF SameStatus
  <2> QED
    BY <2>3
<1> QED
  BY <1>0, <1>1, <1>2, <1>3, SameAnswer DEF Rests


OutcomeSaid == {"PENDING", "SUCCEEDED", "FAILED"}

Event == [row : SUBSET [stage : StageName, status : StatusName, revision : Nat],
          activation_state : SUBSET OutcomeSaid, registry_operation_id : SUBSET Operation]

\* A load and the page have been handed events that there are.
CursorsInLog == \A n \in load.cursor \cup page.cursor : n \in 0..Len(log)

\* The candidate page reads events, candidate row and the rest in this order ...
ReadInOrder ==
    /\ load.view # {} => load.row # {}
    /\ load.row # {} => load.cursor # {}

\* ... so what it has read since the last event is what there is.
LoadIsCurrent ==
    \A n \in load.cursor :
        n = Len(log) =>
            load.row \subseteq {candidate[Shown]} /\ load.view \subseteq {DetailView(Shown)}

PageIsCurrent == page.cursor = {Len(log)} => page.view = {DetailView(Shown)}

FreshInv ==
    /\ LoadShape /\ log \in Seq(Event) /\ CursorsInLog
    /\ Route = "CANDIDATE" => ReadInOrder /\ LoadIsCurrent /\ (AtRest => PageIsCurrent)

LEMMA NewEventType == ASSUME TypeInv' PROVE NewEvent \in Event
<1>1. SaidOfRow \in SUBSET [stage : StageName, status : StatusName, revision : Nat]
  <2>1. candidate'[Shown] \in CandidateRow
    BY PageAssumption DEF TypeInv, TypeOK
  <2>2. [stage |-> candidate'[Shown].stage, status |-> candidate'[Shown].status,
         revision |-> candidate'[Shown].revision]
           \in [stage : StageName, status : StatusName, revision : Nat]
    BY <2>1 DEF CandidateRow
  <2> QED
    BY <2>2 DEF SaidOfRow, NotRead
<1>2. SaidOfActivation \in SUBSET OutcomeSaid /\ Touched \in SUBSET Operation
  BY DEF SaidOfActivation, Touched, OutcomeSaid
<1> QED
  BY <1>1, <1>2 DEF NewEvent, Event

LEMMA FreshInit == PageInit => FreshInv
<1> SUFFICES ASSUME PageInit PROVE FreshInv
  OBVIOUS
<1>1. /\ LoadShape /\ ReadInOrder /\ LoadIsCurrent
      /\ load.cursor = {}
  BY DEF PageInit, LoadShape, NoLoad, NotRead, ReadInOrder, LoadIsCurrent
<1>2. CASE DecisionDue
  <2>1. [row |-> {[stage |-> "EVALUATING", status |-> "BLOCKED", revision |-> 6]},
         activation_state |-> NotRead, registry_operation_id |-> NotRead] \in Event
    BY DEF Event, NotRead, StageName, StatusName
  <2>2. log \in Seq(Event) /\ Len(log) = 1 /\ page.cursor = {0}
    BY <1>2, <2>1 DEF DecisionDue
  <2>3. page.cursor # {Len(log)}
    BY <2>2
  <2> QED
    BY <1>1, <2>2, <2>3 DEF FreshInv, CursorsInLog, PageIsCurrent
<1>3. CASE PublicationFailed
  <2>1. log = << >> /\ page.cursor = {0} /\ page.view = {ShownNow}
    BY <1>3 DEF PublicationFailed
  <2>2. log \in Seq(Event) /\ Len(log) = 0
    BY <2>1
  <2> QED
    BY <1>1, <2>1, <2>2 DEF FreshInv, CursorsInLog, PageIsCurrent, ShownNow
<1> QED
  BY <1>2, <1>3 DEF PageInit

\* An event puts everybody behind; without one there is nothing new to show.
LEMMA FreshServer ==
    ASSUME BaseInv, FreshInv, [Next]_vars, UNCHANGED << load, page, timer >>,
           Logged \/ (UNCHANGED << vars, log >>)
    PROVE  FreshInv'
<1>0. TypeInv' /\ LoadShape' /\ (ReadInOrder => ReadInOrder') /\ (AtRest' <=> AtRest)
  BY TypeNext DEF BaseInv, FreshInv, LoadShape, ReadInOrder, AtRest
<1>1. log \in Seq(Event) /\ CursorsInLog /\ Len(log) \in Nat
  BY DEF FreshInv
<1>2. CASE log' = Append(log, NewEvent)
  <2>1. log' \in Seq(Event) /\ Len(log') = Len(log) + 1
    BY <1>0, <1>1, <1>2, NewEventType
  <2>2. CursorsInLog'
    BY <1>1, <2>1 DEF CursorsInLog
  <2>3. \A n \in load.cursor \cup page.cursor : n # Len(log')
    BY <1>1, <2>1 DEF CursorsInLog
  <2>4. LoadIsCurrent'
    BY <2>3 DEF LoadIsCurrent
  <2>5. PageIsCurrent'
    BY <2>3 DEF PageIsCurrent
  <2> QED
    BY <1>0, <2>1, <2>2, <2>4, <2>5 DEF FreshInv
<1>3. CASE log' = log /\ ~LeavesEvent
  <2>1. candidate'[Shown] = candidate[Shown] /\ DetailView(Shown)' = DetailView(Shown)
    BY <1>3, SilentStep
  <2>2. CursorsInLog' /\ (log \in Seq(Event))'
    BY <1>1, <1>3 DEF CursorsInLog
  <2>3. (LoadIsCurrent => LoadIsCurrent') /\ (PageIsCurrent => PageIsCurrent')
    BY <1>3, <2>1 DEF LoadIsCurrent, PageIsCurrent
  <2> QED
    BY <1>0, <2>2, <2>3 DEF FreshInv
<1>4. (UNCHANGED << vars, log >>) => log' = log /\ ~LeavesEvent
  BY DEF vars, LeavesEvent, Progress
<1> QED
  BY <1>2, <1>3, <1>4 DEF Logged

LEMMA SameView ==
    ASSUME UNCHANGED vars
    PROVE  candidate' = candidate /\ DetailView(Shown)' = DetailView(Shown)
<1>1. /\ DetailAnswer(candidate[Shown], Shown)' = DetailAnswer(candidate[Shown], Shown)
  <2>1. LatestOperation(Shown)' = LatestOperation(Shown)
    BY LatestIs DEF vars, Made
  <2> QED
    BY <2>1 DEF vars, DetailAnswer, ProjectedEligible, ApprovalState, ActivationState, Evidence,
       SnapshotCurrent, AvailableApprovals, ConsumedApprovals, Made
<1> QED
  BY <1>1, Zenon DEF DetailView, vars

LEMMA FreshLoad ==
    ASSUME FreshInv, ReadEvents \/ ReadRow \/ ReadAnswer
    PROVE  FreshInv'
<1>0. UNCHANGED << vars, log, page, timer >>
  BY DEF ReadEvents, ReadRow, ReadAnswer
<1>1. /\ LoadShape /\ LoadShape' /\ load'.open = load.open /\ log \in Seq(Event)
      /\ Len(log) \in Nat
  BY DEF ReadEvents, ReadRow, ReadAnswer, LoadShape, FreshInv
<1>2. load'.cursor \subseteq load.cursor \cup {LastOfPage}
  BY <1>1 DEF LoadShape, ReadEvents, ReadRow, ReadAnswer
<1>3. LastOfPage \in 0..Len(log)
  BY <1>1, PageAssumption DEF LastOfPage
<1>4. CursorsInLog' /\ (log \in Seq(Event))'
  BY <1>0, <1>1, <1>2, <1>3 DEF CursorsInLog, FreshInv
<1>5. (AtRest' <=> AtRest) /\ (PageIsCurrent => PageIsCurrent')
  BY <1>0, <1>1, SameView DEF AtRest, PageIsCurrent
<1>6. ASSUME Route = "CANDIDATE", ReadInOrder, LoadIsCurrent
      PROVE  ReadInOrder' /\ LoadIsCurrent'
  <2>1. CASE ReadEvents
    <3>1. load'.row = {} /\ load'.view = {} /\ load'.cursor # {}
      BY <1>1, <1>6, <2>1 DEF ReadEvents, LoadShape, NotRead, ReadInOrder
    <3> QED
      BY <3>1 DEF ReadInOrder, LoadIsCurrent
  <2>2. CASE ReadRow
    <3>1. /\ load'.row = {candidate[Shown]} /\ load'.view = load.view
          /\ load'.cursor = load.cursor /\ load.cursor # {}
      BY <1>1, <1>6, <2>2 DEF ReadRow, LoadShape, NotRead, MayReadRow
    <3>2. ReadInOrder'
      BY <3>1 DEF ReadInOrder
    <3> QED
      BY <1>0, <1>6, <3>1, <3>2, SameView DEF LoadIsCurrent
  <2>3. CASE ReadAnswer
    <3>1. PICK row \in load.row :
            load' = [load EXCEPT !.view = {NormalizeCandidate(DetailAnswer(row, Shown))}]
      BY <1>6, <2>3 DEF ReadAnswer
    <3>2. /\ load'.row = load.row /\ load'.cursor = load.cursor
          /\ load'.view = {NormalizeCandidate(DetailAnswer(row, Shown))}
      BY <1>1, <3>1 DEF LoadShape
    <3>3. ReadInOrder'
      BY <1>6, <3>1, <3>2 DEF ReadInOrder
    <3>4. ASSUME row = candidate[Shown]
          PROVE  NormalizeCandidate(DetailAnswer(row, Shown)) = DetailView(Shown)
      BY <3>4 DEF DetailView
    <3>5. LoadIsCurrent'
      BY <1>0, <1>6, <3>2, <3>4, SameView DEF LoadIsCurrent
    <3> QED
      BY <3>3, <3>5
  <2> QED
    BY <2>1, <2>2, <2>3
<1> QED
  BY <1>1, <1>4, <1>5, <1>6 DEF FreshInv

LEMMA FreshPage ==
    ASSUME FreshInv, FinishLoad \/ Deliver \/ Refresh
    PROVE  FreshInv'
<1>0. UNCHANGED << vars, log >> /\ log \in Seq(Event) /\ Len(log) \in Nat
  BY DEF FinishLoad, Deliver, Refresh, FreshInv
<1>1. CASE FinishLoad
  <2>1. /\ load' = NoLoad /\ page'.view = load.view /\ page'.cursor = load.cursor
        /\ load.view # {}
    BY <1>1 DEF FinishLoad, NotRead
  <2>2. LoadShape' /\ ReadInOrder' /\ LoadIsCurrent' /\ load'.cursor = {}
    BY <2>1 DEF NoLoad, NotRead, LoadShape, ReadInOrder, LoadIsCurrent
  <2>3. CursorsInLog'
    BY <1>0, <2>1, <2>2 DEF CursorsInLog, FreshInv
  <2>4. ASSUME Route = "CANDIDATE" PROVE PageIsCurrent'
    <3>1. ASSUME load.cursor = {Len(log)} PROVE load.view = {DetailView(Shown)}
      BY <2>1, <2>4, <3>1 DEF FreshInv, LoadIsCurrent
    <3> QED
      BY <1>0, <2>1, <3>1, SameView DEF PageIsCurrent
  <2> QED
    BY <1>0, <2>2, <2>3, <2>4 DEF FreshInv
<1>2. CASE Deliver
  <2>1. PICK v \in page.view, n \in page.cursor :
          /\ n < Len(log)
          /\ page' = [view |-> {ApplyPromotionEvent(v, log[n + 1])}, cursor |-> {n + 1}]
          /\ load' = load /\ timer'
    BY <1>2 DEF Deliver, Material
  <2>2. page'.cursor = {n + 1} /\ n + 1 \in 0..Len(log)
    BY <1>0, <2>1 DEF FreshInv, CursorsInLog
  <2>3. CursorsInLog' /\ LoadShape' /\ (ReadInOrder => ReadInOrder') /\ ~AtRest'
    BY <1>0, <2>1, <2>2 DEF FreshInv, CursorsInLog, LoadShape, ReadInOrder, AtRest
  <2>4. LoadIsCurrent => LoadIsCurrent'
    BY <1>0, <2>1, SameView DEF LoadIsCurrent
  <2> QED
    BY <1>0, <2>3, <2>4 DEF FreshInv
<1>3. CASE Refresh
  <2>1. load' = NewLoad /\ page' = page
    BY <1>3 DEF Refresh
  <2>2. /\ LoadShape' /\ ReadInOrder' /\ LoadIsCurrent' /\ ~AtRest' /\ load'.cursor = {}
    BY <2>1 DEF NewLoad, NoLoad, NotRead, LoadShape, ReadInOrder, LoadIsCurrent, AtRest
  <2> QED
    BY <1>0, <2>1, <2>2 DEF FreshInv, CursorsInLog
<1> QED
  BY <1>1, <1>2, <1>3

LEMMA FreshNext == BaseInv /\ FreshInv /\ [PageNext]_allVars => FreshInv'
<1> SUFFICES ASSUME BaseInv, FreshInv, [PageNext]_allVars PROVE FreshInv'
  OBVIOUS
<1>0. [Next]_vars
  BY PageNextIsNext
<1>1. CASE ServerStep
  BY <1>0, <1>1, FreshServer DEF ServerStep
<1>2. CASE PageStep
  BY <1>2, FreshLoad, FreshPage DEF PageStep
<1>3. CASE OpenDialog \/ Cancel \/ Submit
  BY <1>0, <1>3, FreshServer DEF OpenDialog, Cancel, Submit
<1>4. ASSUME NEW m \in sent, CommandAccepted(m) \/ CommandRefused(m) PROVE FreshInv'
  BY <1>0, <1>4, FreshServer DEF CommandAccepted, CommandRefused
<1>5. CASE UNCHANGED allVars
  BY <1>0, <1>5, FreshServer DEF allVars, browser
<1> QED
  BY <1>1, <1>2, <1>3, <1>4, <1>5 DEF PageNext

\* For a log of any length and however loads, events and the 150 milliseconds
\* of the refresh timer interleave: a candidate page at rest that has been
\* handed every event shows the candidate as it is, with the eligibility, the
\* blockers and the evidence no event carries (getCandidateDetail awaits the
\* events before it asks for the candidate, live.ts reloads after each event).
THEOREM RestedPageIsCurrent == PageSpec => []DetailAtRestIsCurrent
<1>1. PageInit => BaseInv /\ FreshInv
  BY PageBaseInit, FreshInit
<1>2. BaseInv /\ FreshInv /\ [PageNext]_allVars => (BaseInv /\ FreshInv)'
  BY PageBaseNext, FreshNext
<1>3. FreshInv => DetailAtRestIsCurrent
  BY DEF FreshInv, PageIsCurrent, DetailAtRestIsCurrent, ShownNow
<1> QED
  BY <1>1, <1>2, <1>3, PTL DEF PageSpec
===============================================================================
