# Verification of the agent promotion control plane

TLA+ models of the control plane in `src/`, the TLC runs that check them on small
instances, and theorems about them that the TLA+ proof system checks for every
instance. This file says what the system is made of, which module stands for which
code, what each run and proof shows, what the bounds are, and what is left out.

Shorthand: `worker/service.py`, `application/...`, `api/...`, `infrastructure/...` and
`domain/...` are under `src/services/api/src/promotion_control_plane/`;
`promotion-ui` is `src/packages/promotion-ui/src`, `web` is `src/apps/web/src`.

## 1. The system

A candidate (a proposed agent, skill or workflow) is evaluated against a versioned
policy, becomes eligible when its evidence passes the gates, is approved by reviewers,
and is then published to an external registry by a background worker. PostgreSQL holds
all state. The API and any number of worker processes never talk to each other: they
share rows, under row locks, advisory locks and leases.

| component | state | operations | talks to |
| --- | --- | --- | --- |
| promotion commands (`api/router.py`, `application/promotion.py`) | `candidates`, `blockers`, `decisions`, `promotion_lifecycle_approvals`, `registry_operations` | evaluate, promotion-check, approve, revoke, promote, retry; the read-side projection | queues rows for the workers |
| evaluation worker (`worker/service.py`) | `evaluation_runs`, `evaluation_results` | claim, evaluate, complete and gate, fail, retry, dead-letter | evaluators; queues promotions of autonomous candidates |
| registry worker (`worker/service.py`) | `registry_operations`, `promoted_agents`, `agent_versions` | claim, publish, complete, reject, fail, retry, dead-letter | the external registry |
| leases (`worker/service.py`) | `status`, `attempt_count`, `lease_owner`, `lease_expires_at` of the three kinds of work | claim, heartbeat, release | the clock |
| idempotency and schedules (`application/idempotency.py`, `schedules.py`) | `idempotency_receipts`, `scheduled_job_runs` | look up, enqueue, record | schedule worker |
| demo cycle and reset (`application/demo.py`, `infrastructure/seed.py`) | every mutable table | discover, plan, reset | schedule worker, workers that are busy |
| readiness (`domain/readiness.py`, `application/readiness.py`) | none of its own | aggregate, judge, sum up | called by the gates |
| event log (`application/events.py`, `api/sse.py`) | `promotion_events` | emit in a transaction, poll, stream | browsers |
| view model and offers (`web/lib/api.ts`, `promotion-ui/views`) | none of its own | normalize an answer, offer a decision, a retry or a hint | API reads |
| live page (`web`, `promotion-ui`) | the view shown, cursor, refresh timer, load in progress | load, apply an event, reload | API, stream |
| reviewer (`candidate-detail.tsx`, `actions.ts`) | the open dialog, commands on their way | open, cancel, submit | live page, promotion commands |
| database transactions (all of the above API side) | row locks, the event log's lock | begin, lock, commit, abort | each other |

Everything else (configuration import, detectors and evaluators, copy certification,
schemas and serialization, the command line, the other views) is listed in `PROJECT.json`
with the reason it is not modelled or only in part.

What is hard here, and what a unit test would hardly reach:

* a process that lost its lease and answers late, while every process runs under the
  same default `worker_id`, so the owner check cannot tell it from its successor;
* a worker that dies between the external publication and the commit that records it,
  or a publication whose answer is lost;
* an evaluation queued before a promotion that ends after it, successfully or not;
* two kinds of exhausted work of one candidate swept by one dead-letter transaction;
* reviewers and workers changing one candidate in every order, with decisions,
  snapshots and approvals that must belong together;
* events whose sequence values are allocated long before they become visible, and
  browsers that lose the connection in the middle of a batch;
* a page that reads candidates and events in parallel, lays events over what it has
  loaded, and sends decisions in between;
* transactions that take the same locks in different orders, a heartbeat that decides
  without a lock and writes when the attempt may be over;
* a reset that rebuilds all tables under open requests and busy workers;
* a discovery whose two phases commit separately.

`PROJECT.json` lists each of these hazards at its line with the properties that cover it.

## 2. Modules

| module | stands for |
| --- | --- |
| `Lifecycle` | stages, statuses, transitions and blocker codes (`domain/lifecycle.py`, `application/lifecycle.py`) |
| `Leases` | one row of leased work: the conditions of the claim, completion and dead-letter queries |
| `ControlPlane` | commands, evaluation worker and registry worker over shared rows; extends the two above |
| `Activation` | the abstract promise of the registry side (ADR 0001): one activation at a time, served only by what was published, success is final |
| `ControlPlaneActivation` | the mapping under which `ControlPlane` implements `Activation` |
| `DemoCycle` | schedule runs, receipts, the autonomous cycle and the reset; extends `Leases` |
| `EventLog` | transactions that emit events, and the streams that replay them |
| `CandidateView` | the two candidate answers, the view model made of them, and what the views offer; extends `ControlPlane` |
| `CandidatePage` | a reviewer's page in front of the control plane: loads, events, reloads, dialogs, commands; extends `CandidateView` |
| `Transactions` | the transactions on registry operations lock by lock, and the heartbeat; extends `Leases` |
| `RegistryRows` | the abstract rows that `Transactions` implements: each transaction one step on the rows as they are; extends `Leases` |
| `Readiness` | results, aggregation, verdicts, percentage and eligibility |
| `MC...` | values of the constants for TLC |
| `LeasesProofs` | what a row of work keeps in each of its steps: lemmas for the other proofs |
| `ControlPlaneProofs` | types, leases, operations and their blockers; what a step does to a candidate, as one of eight effects |
| `ControlPlaneDecisions` | decisions, tokens, versions and history; the refinement of `Activation`; the offers of `CandidateView` |
| `CandidatePageProofs` | the reviewer's page at rest |
| `TransactionsProofs`, `DemoCycleProofs`, `EventLogProofs`, `ReadinessProofs` | the theorems about the module of that name |

`CandidatePage` composes the browser with the whole of `ControlPlane`: every step of the
control plane is a step of the page's specification and leaves the event its transaction
emits. `DemoCycle`, `EventLog`, `Readiness` and `Transactions` meet the others at narrow
interfaces, which is why they are separate: a committed transaction is a writer's
transaction in `EventLog`; the log of `EventLog`, which both the proofs and the runs show
to reach a browser complete and in order, is the log of `CandidatePage`; the verdict of
`Readiness` is the value of `gate` in `ControlPlane`; and a step of `ControlPlane` on a
registry operation is a transaction that `Transactions` takes apart. That taking it as
one step is right is what the refinement of `RegistryRows` says.

### ControlPlane

One action is one committed transaction, or one step outside the database: the
registry publishing, a lease deadline passing, a process dying. That is what the code's
locking gives: every transaction locks the work row or the candidate row first and
checks its conditions under the lock. An aborted transaction is a step not taken.

The exception is `LeaseHeartbeat`, which locks nothing. It is two steps: `BeatReadsRun` and
`BeatReadsOperation` look at status and owner while the attempt is under way, and
`BeatWritesRun` and `BeatWritesOperation` set the deadline whatever the row has become by
then. `beats` is the set of rows about to be written, `MaxBeats` its bound. So a row that is
queued again, or finished, may carry a deadline; no condition of the code looks at the
deadline of a finished row, so `LeaseExpires` lets only the others pass.

| code | model |
| --- | --- |
| `candidates.stage`, `status`, `revision`, `current_evaluation_snapshot_hash` | `candidate` |
| evaluation snapshot hash | the set of SUCCEEDED runs it covers, `Evidence` |
| latest ELIGIBLE decision | `decision`; its id is the candidate revision that recorded it |
| publication token, a hash of candidate and decision | the pair `<<candidate, decision>>` |
| result of `calculate_candidate_readiness` | `gate`: any verdict whenever evidence grows, and kept until it grows again |
| active blockers | `blockers`, with the operation that raised a registry blocker |
| registry versions and the agent's selection | `version`, `selected`; the external side is `published` |
| a process between its claim and its answer | `worker` |

`expected_candidate_revision` is modelled by commands that carry the current revision; one
that carries an older one is refused and changes nothing. That this refusal catches
everything is itself a property (`RevisionSeesEveryChange`). `available_at`, back-off and
the order of claims become nondeterminism. Policy and plan are fixed: no code under `src/`
changes them at run time. For the same reason SHADOW, SUSPENDED, RETIRED and REJECTED occur
only in the lifecycle rules and not in any behaviour. Initial states are the fixtures
`seed_if_empty` leaves: a planned candidate, the two behind a fixture blocker (too few
samples, too much latency), one whose evidence is already eligible, and an autonomous one
whose run is queued. The fixtures nothing can move (promoted, monitored, a run scheduled ten
years ahead) are left out.

### DemoCycle

A run is named by its key and by the epoch (number of resets) it was made in, because its id
is a fresh UUID. A request is CHECKED once `prior_response` found no receipt under the key's
advisory lock and WRITTEN once it holds rows in tables a reset truncates; a reset deletes
the receipts it can see, then waits for such transactions, then commits. A claim and a dead
letter take the maintenance lock shared, so none commits while a reset is open; work claimed
before goes on and meets an empty table. A heartbeat that has read its run keeps the table
from being truncated until it has written or is lost. The autonomous cycle is two commits,
`Discover` and `Plan`, with a candidate of fixed id: a second discovery fails on the unique
slug, a second plan on its fixed id. The command line makes the same runs without a receipt.
Only the run of a demo cycle has work to do; other schedule runs are done at once. A
replayed request and one with a different body change nothing and are not actions.

### EventLog

`EmitEvent` takes the transaction's advisory lock before it allocates a sequence value;
a rollback burns the value. A stream polls a bounded batch after its cursor, sends
event by event, and starts over at the larger of the URL's `after` and the browser's
`Last-Event-ID`.

### CandidateView and CandidatePage

An answer of the API is a record of the fields a decision depends on, under the names of
`generated/api.ts`; `NormalizeCandidate` reads the list answer and the detail answer with
one definition, as `normalizeCandidate` does, so a field the list lacks falls back to its
default there and here. `PrimaryAction`, `NextAction` and `AwaitsDecision` are the
conditions of the detail view's button, the inventory's hint, and its filter. They are
checked against the guards of the commands themselves.

The state of a page is what it shows, the last event it was handed, whether the refresh
timer runs, and how far the load in progress is. A load reads the
events, the candidate row and the rest of the answer in separate steps, because each of
the queries of `GET /candidates/{id}` sees what is committed by then; the candidate page
asks for its candidate after the events, the lists in parallel. The events of one
transaction are one entry of the log. `ApplyPromotionEvent` replaces what the payload
carries (row, activation, operation) and leaves evidence, eligibility and blockers, which
no payload carries. A command takes the revision the page shows when it is sent, whatever
the dialog was opened on; its answer may be lost, and then the reviewer goes on. That a
new refresh supersedes a load in progress is behaviour of Next.js. The promotion that
failed before the page was opened is one that needed no approval, so that state exists
only where none is required; the other one is there for any number of approvals.

### Transactions

A transaction is its kind, the candidates it is about, and the locks it has still to ask
for, in the order its statements take them. `Acquire` grants the next one when it is
free, `Return` is an early return decided under the locks held by then, `Commit` writes
and releases everything. `Abort` rolls back any member of a circle of waiting
transactions, `WorkerLost` one of a process that dies. `PickClaimable` and
`PickExhausted` are the queries with SKIP LOCKED; the dead letter goes on from candidate
to candidate with the event log's lock. The heartbeat is two steps: `BeatReads` looks at
the row without a lock, `BeatWrites` sets the deadline when it gets the lock, whatever the
row has become. `__exit__` joins the thread for two seconds only, so the write can be that
late. Locks nobody can wait for out of order are left out: the idempotency key, which is
the first lock of a request, approvals and blockers, taken under the candidate's lock, and
an evaluation run, which only its worker locks. `promotion_events` has no foreign keys,
so an event locks no other row. A promotion is asked for by a command, `PROMOTE`, or by the
evaluation of an autonomous candidate that completes, `EVALUATION_PROMOTES`; the evaluation
has emitted its events, and so holds the event log's lock, before `queue_promotion` asks
for an unfinished operation.

`RegistryRows` has no locks. Its variables are the rows and, for each worker, the
operation it is attempting; `Attempting` reads that from the transactions. The guards of
its steps are the conditions the code looks at, some when a lock is granted and long
before the commit, some without the row's own lock: `queue_promotion` does not lock a
finished operation. `RowsChangeAtomically` says that all of them still hold in the commit.

### Readiness

Exact rationals stand for `Decimal`. A criterion has a rule, an operator, a threshold, a
minimum of samples and required evidence, and is named by its ordinal in the plan. What
the code groups from the rows of all succeeded runs, `results_by_criterion`, is the state:
a list of results for each criterion, to which a run adds. Policies are the ones
`validate_weight_configuration` accepts, scores and weights are not negative, as
`Measurement` and `CriterionDefinition` demand. The rounding of the stored percentage is
left out.

## 3. Runs

| run | what it asks | instance |
| --- | --- | --- |
| `core` | the lifecycle with approvals, blockers, retries, tokens, versions, history and what is offered of them: sixteen invariants, three action properties; `ControlPlane` implements `Activation` | 1 candidate (planned, eligible or behind the latency blocker), 2 workers sharing an id, 2 attempts, 2 runs, operations and approvals, no heartbeat, commands up to revision 11, far enough for a promoted candidate to be promoted again (about 660,000 states) |
| `live` | pending promotions are decided, runs end; what a late heartbeat leaves alone | 1 autonomous candidate, 2 workers with their own ids, 2 attempts, 2 runs, 1 operation, one heartbeat on its way (about 280,000 states) |
| `transactions` | deadlocks are of two shapes, what commits is `RegistryRows`, operations end | 2 candidates, 2 workers, 1 session, 2 attempts; one operation may be abandoned on its last attempt at the start (about 230,000 states) |
| `candidate_page` | decisions at rest see their evidence, a page at rest is current, it catches up and settles | 1 candidate, 1 worker, 3 runs, 1 command of the reviewer, 4 events, loads that cover them (about 340,000 states) |
| `demo_cycle` | cycles, resets, the end of schedule runs | 1 cycle key, 2 reset keys, 2 workers sharing an id, 2 attempts, a heartbeat (about 98,000 states) |
| `event_log` | order, completeness, arrival | 2 writers, 2 candidates, 4 events, batches of 2, one lost connection for each of 2 browsers |
| `readiness` | percentage, eligibility, progress, aggregation | 2 criteria, 2 runs, 11 policies that use all rules and operators, scores 0 and 1, 0 to 2 samples |
| `pending_stage`, `fixture_recovery`, `stale_decision`, `stale_page`, `dangling_receipt` | one documented statement each, which the code does not keep | see section 6 |

Bounds. `MaxRevision` stops commands, never workers (`CommandAllowed` is this bound and
nothing of the code), so everything queued can still finish and no behaviour is cut short in
the middle. `MaxBeats` is the number of heartbeat writes on their way at a time: one is
enough for a row to be given a deadline after its attempt. `live` has it; in `core` it would
multiply the states several times, and of what `core` checks only `OwnedWhileRunning` and
`HistoryIsPermanent` are about rows a heartbeat writes, so `live` checks these two as well.
Two attempts are enough for a row to be claimed, lost, claimed by another process and
exhausted; two processes under one id are the smallest case in which an owner check can be
fooled. Two operations of one candidate are needed for a failed one to be followed by
another; two runs for a stale run to reopen a promoted candidate. Two approvals with one
required make one of them spare, stale or revoked. One candidate is enough for safety
because no transaction touches two candidates except the dead letter, whose steps are per
candidate; it is enough for `live` because claims are asked of all workers and rows
together, and the run and the operation of one candidate already compete for them. In
`event_log` four events make two batches, so a connection can be lost inside the first and
the second can be behind it. `demo_cycle` leaves out plain triggers, whose runs the cycle's
key covers except for the table locks; an instance with one of each passes as well, but
takes longer.

`candidate_page` starts where a reviewer has something to decide, since the way there is
what `core` explores: `DecisionDue` is a candidate made eligible by the first of three
evaluations, whose second has just failed without the page having heard of it, and
`PublicationFailed` one whose publication the registry refused. Both are states the control
plane reaches from a planned candidate where no approval is required, spelled out.
`MaxEvents` bounds the log, so it does stop the control plane, at a commit and never inside
one; `DecisionDue` needs three further events for evidence to change, be found eligible
again and be reported. In `transactions` two candidates make the dead letter go on with the
event log's lock held, two workers and a session make circles of two and of three.

`core` uses symmetry of the two workers, which run under one id and are told apart by
nothing; it checks no liveness. `CHECK_DEADLOCK FALSE` is in every configuration because the
system does come to rest: nothing obliges anybody to send another command.

Each property of a passing run has a mutant in `PROJECT.json`, a plausible slip in the
code such as a dropped guard or a comparison off by one, under which TLC refutes it.

### Fairness

Assumed of the worker: its loop runs, because `worker/main.py` catches every exception, does
all four kinds of work in each iteration, and compose restarts it (`restart:
unless-stopped`). So a claimable row is claimed, a claimed one answered or lost, a lease
deadline passes, and exhausted work is dead-lettered. A crash is always possible and never
assumed. In `ControlPlane` weak fairness is enough for that: claims are fair together, and
what is claimable stays so until some worker takes it. A late heartbeat can put a claim off,
but not for ever: each needs a read while an attempt is under way, and attempts are bounded.
In `DemoCycle` the claims and dead letters of a schedule run are strongly fair: a reset that
is open is in their way, and a transaction waiting for the maintenance lock gets it in the
order PostgreSQL queues lock requests. Assumed of streams: the generator loops, the network
delivers, and `EventSource` reconnects (`retry: 3000`). Nothing is assumed of reviewers, and
no transaction is obliged to commit. Attempts are bounded by the code and lost connections
by `MaxDrops`, otherwise an endless series of losses would defeat any promise of arrival.
Assumed of the page: requests are answered, the stream delivers, the timer fires. In
`Transactions` a statement is strongly fair: PostgreSQL queues lock requests, so a lock that
is released again and again is granted to whoever waits for it; that one member of a
deadlock is aborted is PostgreSQL's `deadlock_timeout`. Losing a worker and a heartbeat are
never assumed, and a beat needs a read by its thread while the attempt is publishing, so
beats cannot keep a finished attempt's lease alive.

## 4. What is proved

All theorems are about the specification without fairness and hold for any sets of
candidates, workers, keys and streams and any bounds. Assumptions on the constants are
named where they are declared and evaluated by TLC: a worker runs under an id other than
NULL, at least one attempt is allowed, bounds are natural numbers, a batch has a row,
numbers of the plan and of results are in the ranges their constructors demand, and a
page's initial history fits the bounds (three runs, one operation).

| theorem | states | argument |
| --- | --- | --- |
| `TypeCorrect` | `ControlPlane` is type correct | inductive with the finiteness of `version`, so versions can be counted |
| `OwnershipFollowsWork` | `OwnedWhileRunning` | every action changes a row by one of a few row steps (`RowStep`), each of which keeps owner, status and attempts together; the heartbeat's write is one of them |
| `OperationsStaySingle`, `FailuresStayBlocked`, `RegistryBlockersEnd` | `OneUnresolvedOperation`, `FailedOperationBlocks`, `RegistryBlockersAreCurrent` | inductive only together: a second operation is prevented by the blocker a failure leaves, and a failure leaves one only if none of an older failure is left, since a code already present is not raised again |
| `EligibleStandsOnEvidence`, `PendingStaysBacked`, `ProjectionMatchesCommand`, `ApprovalsAreSpentOnce`, `PromotedSelectsVersion`, `VersionsWereEarned`, `TokensAreFresh`, `TokensMakeOneVersion` | `EligibleRestsOnEvidence`, `PendingIsBacked`, `ProjectionAgrees`, `ApprovalsSpentOnce`, `PromotedIsSelected`, `VersionsAreEarned`, `PromotionTokenIsFresh`, `OneVersionPerToken` | each a part or a consequence of `DecisionsInv`, below |
| `RevisionsTell`, `HistoryStays`, `FixturesStayBlocked`, `VersionsEndPromotions` | `RevisionSeesEveryChange`, `HistoryIsPermanent`, `FixtureBlockersStay` (not run: it is what stands against the text `fixture_recovery` quotes), `VersionEndsPendingPromotion` | each effect of a step keeps them, given `DecisionsInv` before it |
| `BlockedHasBlocker`, `RetriesAreOffered`, `DecisionsAreOffered`, `ViewsHaveTypes` | `BlockedNamesItsBlocker`, `RetryOfferMatchesCommand`, `OfferMatchesCommand`, `ViewTypeOK` | `DetailFields` and `ListFields` read the two answers field by field; then an offer and the guard of the command are conditions on the same rows, equal under `DecisionsInv` |
| `ActivationImplemented` | `ImplementsActivation` | by the eight effects: each is one step of the promise (request, release, reject, revive, activate) or leaves its variables alone. What it takes is that a success belongs to the newest operation, whose token no version has (`DecisionsInv`), and that whatever the registry has published was requested (`PublishedMade`) |
| `RestedDecisionsSee` | `DecisionAtRestSeesItsEvidence` | a view shows no evidence older than its revision (`TellsInv`): a load reads the row first, and evidence never changes under an unchanged revision (`RestsOrGrows`) |
| `RestedPageIsCurrent` | `DetailAtRestIsCurrent` | a view whose cursor is the end of the log is current, on a page at rest and in a load alike (`FreshInv`): a load asks for the events first, and a step that leaves no event changes nothing a page shows (`SilentStep`) |
| `DeadlocksNeedOneOfTwo` | `DeadlocksAreKnown` | locks are ranked operations, candidates, event log; apart from the two kinds named, a transaction asks upwards (`Disciplined`), so a circle of waits without them would need a lock ranked above itself |
| `AttemptsEndByTheirOwner` | `AttemptEndsOnce` | while a completion holds its operation's lock, owner and attempt are the ones it checked (`Undisturbed`); a heartbeat writes nothing but the deadline |
| `TransactionsAreAtomic` | `RowsChangeAtomically` | who changes a candidate has its row's lock (`CommitMovesItsOwn`), so what a transaction decided on that row stands until it commits (`CheckedInv`), and so does what it checked of the operation, under the operation's lock or, once it is finished, the candidate's; each commit is then one step of `RegistryRows`, the loss of an attempt its `GiveUp` |
| `VisibleInOrder` | `CommitsInOrder` | whoever has uncommitted values holds the advisory lock, so one transaction at most has them, and they are above the whole log |
| `BrowsersReadTheLog` | `ReceivedIsTheLog` | what was sent is the log up to the cursor and the cursor is a sent event or the start; a batch has no gaps because it is the oldest rows; a commit adds only above all that, by the previous invariant; a lost wire is a suffix that is asked for again |
| `CyclesFinishTheirWork` | `SucceededCycleIsPlanned` | a worker that is done with a cycle of the current epoch has seen or made the plan; only a reset unplans a candidate, and it leaves every busy worker in an older epoch |
| `ResetsHappenOnce` | `OneResetPerKey` | an open reset has no receipt and is the only one open, so each commit counts a new key |
| `FullMeansEligible` | `FullIsEligible` | each of the four parts is at most one (a mean, a share of a finite set, a minimum), and a sum of numbers reaches the sum of their limits only if each reaches its own (`FullSum`); a minimum score of zero is reached because no weight or score is negative |
| `ScoresWithinResults` | `ScoreWithinResults` | a sum of multiples of the lowest result bounds the sum of the results (`TotalBetween`), for counts of ones and for sample counts alike |
| `ProgressStays`, `WorstResultStands` | `ProgressIsKept`, `WorstResultDecides` | another result adds samples and evidence and takes none away (`SampleCountGrows`, `CompleteStays`), a sum grows with its terms (`TotalGrows`), the lowest of more results is no higher (`LowestFalls`) |

The proof about decisions has two halves. `ControlPlaneProofs` ends by forgetting which
action a step is and keeps what it does to one candidate, one of eight things: nothing,
start an evaluation, look at the evidence again, give or take back an approval, queue a
promotion, retry a failed one, stop with a blocker, or record the registry's success
(lemma `Effects`, the only place where every action is opened). `ControlPlaneDecisions`
has an invariant with one named formula per question and candidate: what a blocked, an
eligible, a pending and a promoted candidate is, when an approval counts, where an
operation's number comes from. Each effect keeps each formula, which is a table of small
proofs instead of one large one. Two formulas tie candidates together, through the tokens
held and the versions published. A promotion spends
exactly the required approvals because `Oldest` picks that many (`OldestCount`, by an
injection). That operations are numbered in order and an unresolved one is the newest
(`OrderOf`) makes the operation a view names the one the retry command would take.

Every invariant and every action property that a passing run checks is the statement of a
theorem, and so are the two refinements. Proved and not run are `AttemptEndsOnce` (TLC
checks the refinement of `RegistryRows`, whose steps end an attempt in the same two ways),
`FixtureBlockersStay`, `WorstResultDecides` and `ViewTypeOK`.
Only model-checked is liveness: `PendingIsDecided`, `RunsEnd`, `OperationsEnd`,
`EveryEventArrives`, `ScheduleRunsEnd`, `DetailCatchesUp` and `PageSettles`. Liveness under
fairness and ENABLED are beyond the proof system.

Induction. The library's induction theorems take an operator as a parameter, which no
prover installed can instantiate. Where a proof needs induction it uses a set instead: a
nonempty set of naturals has a least element (`LeastNatural`, from the well-foundedness of
`<`), hence a set that holds 0 and every successor holds every natural number
(`Naturals`). That is how `ReadinessProofs` shows what the recursive sums of `Readiness`
compute, prefix by prefix, starting with the fact that there is a function that satisfies
their recursion (`SumsExist`, `CountsExist`). Rationals are pairs, so a law such as
`PlusGrows` or `Quotient` is a polynomial inequality over the integers, proved once.

## 5. Not modelled, and not shown

* `ControlPlane` takes each transaction as one step, and only the heartbeat as two. That
  this hides nothing of registry operations is what `Transactions` shows; evaluation and
  schedule runs are not taken apart lock by lock.
* The deadline of a finished row: nothing reads it, and it is not followed.
* In `Transactions` the dead letter starts at the exhausted operations. The real one sweeps
  exhausted evaluation runs and schedule runs in the same transaction before, and may come
  to the operations with the event log's lock already held; the waits that adds are those
  of a dead letter with that lock, which `DeadlocksAreKnown` already names.
* Transaction clocks. "Latest decision" is chosen by `created_at`, the start of the
  transaction; here it is the last one committed.
* Approvals for a target stage other than production, which nothing uses.
* A log longer than one load (`PageLimit < MaxEvents`): a load returns the oldest 80 events,
  so once the log is longer every load subscribes after event 80, is handed the rest and
  reloads again. `PageSettles` and `DetailCatchesUp` fail for such an instance.
* Fields of the view models that no offer depends on: scores, gates, evidence lists,
  timelines, labels. Most lines of the web application are such fields, and most of
  `generated/api.ts` is the type of endpoints that only display; neither has behaviour to
  model, which is why a large share of those lines is outside the models.
* Embedding. The shell can be embedded in a host page with its own callbacks; only the
  standalone application is modelled.
* Configuration import: it upserts policies, detectors and schedules by version in one
  transaction before the system starts, and no command reaches it.

## 6. Disagreements found

* `pending_stage`: a run queued before a promotion that fails while the publication is
  queued moves the candidate to EVALUATING/BLOCKED; the documents say a pending
  candidate stays ELIGIBLE and PROMOTION_PENDING.
* `fixture_recovery`: the recovery texts of two seeded blockers tell the operator to evaluate
  again (`infrastructure/seed.py:670` "Run thirteen more quality cases.", `:697` "Reduce latency
  and rerun the active plan."). No evaluation clears either, whatever it finds: a gate
  recomputation clears by `DERIVED_EVALUATION_BLOCKER_CODES`, which lacks both codes
  (`FixtureBlockersStay`, proved). The model lets a new run lead to any verdict; that a
  weighted mean needs several runs to fall below a threshold is not counted.
* `stale_decision`: the page lays the revision of an event over the evidence of its last
  load, and the API compares revisions only, so a decision sent before the reload is
  accepted on evidence its reviewer never saw; the documents say revisions protect from
  that. They do once the page is at rest (`DecisionAtRestSeesItsEvidence`).
* `stale_page`: an event committed between the two reads of a load is never replayed,
  so a list page stays stale until another event; the documents say replay closes gaps.
* `dangling_receipt`: a request open while a reset deletes the receipts leaves a receipt
  that names a run the reset removed; the documents and the code's comment say none does.

Met while modelling and not a contradiction of anything written:

* `revoke_approval` reads the approval before it locks the candidate, and is safe only
  because every promotion bumps the revision that is checked under the lock
  (`RevisionSeesEveryChange`).
* A candidate that already has a registry version and is eligible again is listed as due
  for a decision, and the API accepts one, but the detail view shows a disabled button
  (`OfferMatchesCommand` says when the two agree).
* The candidate page lists recent events twice:
  `normalizeCandidate` joins the answer's timeline and the load's linked events
  (`apps/web/src/lib/api.ts:330`) without the comparison of sequence values that
  `applyPromotionEvent` makes (`live.ts:194`). Timelines are not modelled.
* Lock orders differ (`DeadlocksAreKnown`). Nothing is lost by it but the aborted attempt.

## 7. Left for later

1. Decisions chosen by transaction start times, and whether a decision can be hidden.
2. The evaluation and schedule parts of the dead letter in `Transactions`.
3. `ControlPlane` itself as an implementation of `RegistryRows`, which would join the two
   refinements.
