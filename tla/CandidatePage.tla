---------------------------- MODULE CandidatePage ----------------------------
(***************************************************************************)
(* A reviewer's browser in front of the control plane: the page loads, is  *)
(* handed events and reloads, while the reviewer decides on what it shows  *)
(* and the control plane goes on.  apps/web (api.ts, promotion-client.tsx, *)
(* actions.ts) and packages/promotion-ui (PromotionShell.tsx, live.ts,     *)
(* candidate-detail.tsx), composed with ControlPlane.                      *)
(*                                                                         *)
(* The events of one transaction are one entry of the log: they are read   *)
(* and delivered together and say the same of the row; the log begins when *)
(* the page is opened, as the first load takes in what was committed       *)
(* before.  The stream is in order and without gaps (EventLog).  A load is *)
(* server-side rendering: it reads, and only when it has everything does   *)
(* the page change.                                                        *)
(***************************************************************************)
EXTENDS CandidateView, Sequences

CONSTANTS
    Shown,          \* the candidate on the page
    Route,          \* the page: CANDIDATE, or a list of candidates
    PageLimit,      \* events one load asks for (limit=80)
    MaxEvents,      \* bound: events committed since the page is open
    MaxSubmissions  \* bound: commands the reviewer sends

ASSUME PageAssumption ==
    /\ Shown \in Candidate
    /\ Route \in {"CANDIDATE", "INVENTORY"}
    /\ PageLimit \in Nat \ {0} /\ MaxEvents \in Nat /\ MaxSubmissions \in Nat
ASSUME HistoryAssumption == MaxRuns >= 3 /\ MaxOperations >= 1  \* rows of PageInit

VARIABLES
    log,      \* what the committed events say of the candidate, in order
    load,     \* the load in progress, with what it has read so far
    page,     \* the view shown, and the last event handed to the page
    timer,    \* the refresh timer is running
    dialog,   \* the dialog that is open
    sent,     \* the reviewer's commands that have not reached the API
    submitted \* how many commands the reviewer has sent

browser == << log, load, page, timer, dialog, sent, submitted >>
allVars == << vars, browser >>

\* Something not read yet is an empty set, something read a singleton.
NotRead == {}
NoLoad == [open |-> FALSE, cursor |-> NotRead, row |-> NotRead, view |-> NotRead]
NewLoad == [NoLoad EXCEPT !.open = TRUE]

\* What a load without interruption shows.
ShownNow == IF Route = "CANDIDATE" THEN DetailView(Shown) ELSE ListView(Shown)

\* The page as the reviewer finds it, loaded and at rest.  Three evaluations were
\* requested and the first made the candidate ELIGIBLE; the second has just
\* failed on its last attempt, which the page has not heard of.
DecisionDue ==
    /\ candidate = [c \in Candidate |-> [stage |-> "EVALUATING", status |-> "BLOCKED",
                                        revision |-> 6, snapshot |-> {1}]]
    /\ blockers = [c \in Candidate |-> Blocked({}, "EVALUATION_PROVIDER_FAILED", 0)]
    /\ decision = [c \in Candidate |-> [id |-> 5, snapshot |-> {1}]]
    /\ operation = [c \in Candidate |-> [o \in Operation |-> NoOperation]]
    /\ \E p \in Worker :
          LET Ended(status) == Released(Claimed(Queued, IdOf[p]), status)
          IN  run = [c \in Candidate |-> [r \in Run |->
                        CASE r = 1 -> Ended("SUCCEEDED")
                          [] r = 2 -> [Ended("FAILED") EXCEPT !.attempts = MaxAttempts]
                          [] r = 3 -> Queued
                          [] OTHER -> Absent]]
    /\ log = << [row |-> {[stage |-> "EVALUATING", status |-> "BLOCKED", revision |-> 6]},
                 activation_state |-> NotRead, registry_operation_id |-> NotRead] >>
    /\ page = [view |-> {[ShownNow EXCEPT
                            !.stage = "ELIGIBLE", !.status = "ACTIVE", !.revision = 5,
                            !.promotionEligible = TRUE, !.hasBlocker = FALSE]},
               cursor |-> {0}]

\* One evaluation made the candidate ELIGIBLE, and its promotion, for which no
\* approval was required, failed at the registry.
PublicationFailed ==
    /\ RequiredApprovals = 0
    /\ candidate = [c \in Candidate |-> [stage |-> "ELIGIBLE", status |-> "BLOCKED",
                                        revision |-> 5, snapshot |-> {1}]]
    /\ blockers = [c \in Candidate |-> Blocked({}, "REGISTRY_OPERATION_FAILED", 1)]
    /\ decision = [c \in Candidate |-> [id |-> 3, snapshot |-> {1}]]
    /\ \E p \in Worker :
          /\ run = [c \in Candidate |-> [r \in Run |->
                IF r = 1 THEN Released(Claimed(Queued, IdOf[p]), "SUCCEEDED") ELSE Absent]]
          /\ operation = [c \in Candidate |-> [o \in Operation |->
                IF o = 1
                THEN Released(Claimed(NewOperation([snapshot |-> {1}], [id |-> 3], {}), IdOf[p]),
                              "FAILED")
                ELSE NoOperation]]
    /\ log = << >>
    /\ page = [view |-> {ShownNow}, cursor |-> {0}]

PageInit ==
    /\ gate = [c \in Candidate |-> "ELIGIBLE"]
    /\ approval = [c \in Candidate |-> [a \in Approval |-> NoApproval]]
    /\ version = [c \in Candidate |-> {}]
    /\ selected = [c \in Candidate |-> 0]
    /\ published = {}
    /\ worker = [p \in Worker |-> Idle]
    /\ beats = {}
    /\ DecisionDue \/ PublicationFailed
    /\ load = NoLoad
    /\ timer = FALSE
    /\ dialog = "NONE"
    /\ sent = {}
    /\ submitted = 0

(***************************************************************************)
(* The control plane's steps and the event each transaction leaves.        *)
(***************************************************************************)
\* Attempts and statuses of leased work; leases and owners leave no event.
Progress(slots) == [i \in DOMAIN slots |-> << slots[i].status, slots[i].attempts >>]

Touched == {o \in Operation : Progress(operation[Shown])[o] # Progress(operation[Shown])'[o]}

\* The row in the payload, which a scheduled evaluation retry does not carry.
SaidOfRow ==
    IF \E r \in Run : run[Shown][r].status = "RUNNING" /\ run'[Shown][r].status = "QUEUED"
    THEN NotRead
    ELSE {[stage |-> candidate'[Shown].stage, status |-> candidate'[Shown].status,
           revision |-> candidate'[Shown].revision]}

\* The activation state in the payload: a queued, retried or started publication
\* is PENDING, a finished one SUCCEEDED or FAILED; a scheduled retry, a rejected
\* completion and a dead letter say nothing.
SaidOfActivation ==
    {"PENDING" : o \in {i \in Touched : operation'[Shown][i].status = "RUNNING"
                           \/ /\ operation'[Shown][i].status = "QUEUED"
                              /\ operation[Shown][i].status \in {"NONE", "FAILED"}}}
    \cup {"SUCCEEDED" : o \in {i \in Touched : operation'[Shown][i].status = "SUCCEEDED"}}
    \cup {"FAILED" : b \in {x \in blockers'[Shown] \ blockers[Shown] :
                               x.code = "REGISTRY_OPERATION_FAILED"}}

NewEvent == [row |-> SaidOfRow, activation_state |-> SaidOfActivation,
             registry_operation_id |-> Touched]

LeavesEvent ==
    \/ candidate'[Shown] # candidate[Shown]
    \/ Progress(run[Shown])' # Progress(run[Shown])
    \/ Progress(operation[Shown])' # Progress(operation[Shown])

Logged ==
    log' = IF LeavesEvent THEN Append(log, NewEvent) ELSE log

\* Whatever workers, other reviewers and the environment do.
ServerStep ==
    /\ Next
    /\ Logged
    /\ Len(log') <= MaxEvents
    /\ UNCHANGED << load, page, timer, dialog, sent, submitted >>

(***************************************************************************)
(* A load.                                                                 *)
(***************************************************************************)
\* A page that subscribes without the last event it loaded.
FromTheStart == 0

\* GET /events?limit=80 answers with the oldest events: the cursor the page
\* subscribes after is the last of those.
LastOfPage == IF Len(log) < PageLimit THEN Len(log) ELSE PageLimit

ReadEvents ==
    /\ load.open
    /\ load.cursor = NotRead
    /\ load' = [load EXCEPT !.cursor = {LastOfPage}]
    /\ UNCHANGED << vars, log, page, timer, dialog, sent, submitted >>

\* A candidate page that asks for everything in parallel.
InAnyOrder == TRUE

\* The lists read the candidates beside the events; the candidate page asks for
\* its candidate when the other answers, the events among them, are there.
MayReadRow == Route = "CANDIDATE" => load.cursor # NotRead

\* The request reads the candidate row first ...
ReadRow ==
    /\ load.open
    /\ load.row = NotRead
    /\ MayReadRow
    /\ load' = [load EXCEPT !.row = {candidate[Shown]}]
    /\ UNCHANGED << vars, log, page, timer, dialog, sent, submitted >>

\* ... and everything else in queries of their own, each of which sees what is
\* committed by then.
ReadAnswer ==
    /\ load.view = NotRead
    /\ \E row \in load.row :
          load' = [load EXCEPT !.view =
             {NormalizeCandidate(IF Route = "CANDIDATE" THEN DetailAnswer(row, Shown)
                                 ELSE ListAnswer(row, Shown))}]
    /\ UNCHANGED << vars, log, page, timer, dialog, sent, submitted >>

\* initialData replaces the page's data, and the page subscribes again, after
\* the load's last event.  An open dialog stays open.
FinishLoad ==
    /\ load.view # NotRead /\ load.cursor # NotRead
    /\ page' = [view |-> load.view, cursor |-> load.cursor]
    /\ load' = NoLoad
    /\ UNCHANGED << vars, log, timer, dialog, sent, submitted >>

(***************************************************************************)
(* Events.                                                                 *)
(***************************************************************************)
Said(set, default) == IF set = {} THEN default ELSE CHOOSE x \in set : TRUE

\* applyPromotionEvent: what the event says replaces what the page shows, with
\* no look at either sequence or revision; no event says anything of blockers,
\* eligibility or the evidence snapshot.
ApplyPromotionEvent(v, e) ==
    LET row == Said(e.row, v)
    IN  [v EXCEPT !.stage = row.stage, !.status = row.status, !.revision = row.revision,
                  !.activationState = Said(e.activation_state, @),
                  !.registryOperationId = Said(e.registry_operation_id, @)]

\* A page that reloads for registry events only.
MaterialIfActivation(e) == e.activation_state # {}

\* onMaterialEvent is called for every event.
Material(e) == TRUE

\* The stream hands the page the next event, which restarts the refresh timer.
Deliver ==
    /\ \E v \in page.view, n \in page.cursor :
          /\ n < Len(log)
          /\ page' = [view |-> {ApplyPromotionEvent(v, log[n + 1])}, cursor |-> {n + 1}]
          /\ timer' = (timer \/ Material(log[n + 1]))
    /\ UNCHANGED << vars, log, load, dialog, sent, submitted >>

\* router.refresh() after 150 quiet milliseconds: a new load, which supersedes
\* one still in progress.
Refresh ==
    /\ timer
    /\ timer' = FALSE
    /\ load' = NewLoad
    /\ UNCHANGED << vars, log, page, dialog, sent, submitted >>

(***************************************************************************)
(* The reviewer.                                                           *)
(***************************************************************************)
AtRest == ~timer /\ ~load.open

\* The button of the detail view opens its dialog; nothing closes it when the
\* candidate behind it changes.
OpenDialog ==
    /\ Route = "CANDIDATE"
    /\ dialog = "NONE"
    /\ \E v \in page.view : PrimaryAction(v) # "NONE" /\ dialog' = PrimaryAction(v)
    /\ UNCHANGED << vars, log, load, page, timer, sent, submitted >>

\* The buttons of the dialog wait for the answer of a command, which may be lost;
\* then the reviewer may go on while the command is still on its way.
Cancel ==
    /\ dialog # "NONE"
    /\ dialog' = "NONE"
    /\ UNCHANGED << vars, log, load, page, timer, sent, submitted >>

\* submitDecision and retryRegistry: the revision shown now, under a new
\* idempotency key.  The snapshot shown is not part of the command; it is kept
\* here to say what the reviewer saw.
Submit ==
    /\ dialog # "NONE"
    /\ submitted < MaxSubmissions
    /\ submitted' = submitted + 1
    /\ \E v \in page.view :
          sent' = sent \cup {[key |-> submitted', kind |-> dialog,
                              expected_candidate_revision |-> v.revision,
                              operation |-> IF dialog = "RETRY" THEN v.registryOperationId
                                            ELSE NoOperationId,
                              seen |-> v.evaluationSnapshotHash, rested |-> AtRest]}
    /\ UNCHANGED << vars, log, load, page, timer, dialog >>

Acceptable(m) ==
    /\ m.expected_candidate_revision = candidate[Shown].revision
    /\ CASE m.kind = "PROMOTE" -> Promotable(Shown)
         [] m.kind = "RETRY" ->
              /\ m.operation \in Operation
              /\ MayRetry(candidate[Shown], operation[Shown][m.operation], m.operation,
                          blockers[Shown], Evidence(Shown))

\* The command takes effect.  The answer, if it arrives, closes the retry dialog;
\* the other one stays and says so.
CommandAccepted(m) ==
    /\ Acceptable(m)
    /\ \/ m.kind = "PROMOTE" /\ Promote(Shown)
       \/ m.kind = "RETRY" /\ RetryOperation(Shown, m.operation)
    /\ Logged
    /\ Len(log') <= MaxEvents
    /\ sent' = sent \ {m}
    /\ dialog' \in {dialog, IF m.kind = "RETRY" THEN "NONE" ELSE dialog}
    /\ UNCHANGED << load, page, timer, submitted >>

CommandRefused(m) ==
    /\ ~Acceptable(m)
    /\ sent' = sent \ {m}
    /\ UNCHANGED << vars, log, load, page, timer, dialog, submitted >>

PageStep == ReadEvents \/ ReadRow \/ ReadAnswer \/ FinishLoad \/ Deliver \/ Refresh

PageNext ==
    \/ ServerStep
    \/ PageStep
    \/ OpenDialog \/ Cancel \/ Submit
    \/ \E m \in sent : CommandAccepted(m) \/ CommandRefused(m)

PageSpec == PageInit /\ [][PageNext]_allVars

\* Requests are answered, the stream delivers and the timer fires.  Nothing
\* obliges the control plane to move or the reviewer to decide.
FairPageSpec ==
    /\ PageSpec
    /\ WF_allVars(ReadEvents) /\ WF_allVars(ReadRow) /\ WF_allVars(ReadAnswer)
    /\ WF_allVars(FinishLoad) /\ WF_allVars(Deliver) /\ WF_allVars(Refresh)

(***************************************************************************)
(* Properties.                                                             *)
(***************************************************************************)
\* The candidate page ends up showing the candidate as it is, whatever changed
\* while it was loading: the events are read before the candidate, so a change
\* the load missed is an event the stream still delivers.
DetailCatchesUp == <>[](page.view = {ShownNow})

\* A page whose log fits one load comes to rest: every commit costs a bounded
\* number of reloads.  (A longer log never rests: each load subscribes after
\* event 80 again, is handed the rest again, and reloads because of it.)
PageSettles == <>[]AtRest

\* The command submitted in this step's past takes effect in this step.
TakesEffect(m) == m \notin sent' /\ operation' # operation

\* A decision sent while the page is at rest takes effect only on the evidence
\* its reviewer saw, however much the candidate changes on the command's way:
\* the row, and with it the revision, is read before the evidence, and a reload
\* replaces everything an event has changed.
DecisionAtRestSeesItsEvidence ==
    [][\A m \in sent : m.rested /\ TakesEffect(m) => m.seen = Evidence(Shown)]_allVars

\* A candidate page at rest that has been handed every event shows all of the
\* candidate as it is now: eligibility, blockers and evidence too, of which no
\* event says anything.
DetailAtRestIsCurrent ==
    Route = "CANDIDATE" /\ AtRest /\ page.cursor = {Len(log)} => page.view = {ShownNow}

(***************************************************************************)
(* What the documents say and the code does not keep.                      *)
(***************************************************************************)
\* docs/ARCHITECTURE.md:72, "PostgreSQL fills disconnects or gaps", and
\* docs/INTEGRATION_GUIDE.md:26, "replay from PostgreSQL closes gaps": a page
\* at rest that has been handed every event shows the row the last one left.
ReplayClosesGaps ==
    page.cursor = {Len(log)} /\ AtRest =>
        \A v \in page.view : v.revision = candidate[Shown].revision

\* docs/ARCHITECTURE.md:64, "Optimistic candidate revisions protect reviewers
\* from acting on stale evidence": a decision that takes effect is about the
\* evidence its reviewer saw.
DecisionsSeeTheirEvidence ==
    [][\A m \in sent : TakesEffect(m) => m.seen = Evidence(Shown)]_allVars
=============================================================================
