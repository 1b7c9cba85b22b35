------------------------- MODULE ControlPlaneDecisions -------------------------
(***************************************************************************)
(* Decisions, approvals, pending promotions and versions, for any          *)
(* candidates, workers and bounds; and that the control plane keeps the    *)
(* registry's promise (Activation).                                        *)
(*                                                                         *)
(* The inductive invariant is a conjunction of one formula per question    *)
(* (CandidateInv), all about a single candidate, with two about several:   *)
(* no two versions share a token, and every version is one of a            *)
(* publication that ended.  Each of the eight effects keeps each formula.  *)
(***************************************************************************)
EXTENDS ControlPlaneProofs, ControlPlaneActivation, CandidateView

(***************************************************************************)
(* What two of the effects say, field by field.                            *)
(***************************************************************************)
LEMMA RegatedFacts ==
    ASSUME NEW bs \in SUBSET BlockerRow, NEW g \in Verdict
    PROVE  /\ g = "ELIGIBLE" => Regated(bs, g) = {b \in bs : b.code \notin DerivedBlockerCodes}
           /\ g # "ELIGIBLE" => \E b \in Regated(bs, g) : b.code \in DerivedBlockerCodes
           /\ \A b \in Regated(bs, g) \ bs : b.code \in DerivedBlockerCodes
           /\ \A b \in bs : b.code \notin DerivedBlockerCodes => b \in Regated(bs, g)
<1> DEFINE kept == {b \in bs : b.code \notin DerivedBlockerCodes}
<1>1. ASSUME NEW code \in DerivedBlockerCodes
      PROVE  /\ \E b \in Blocked(kept, code, 0) : b.code \in DerivedBlockerCodes
             /\ \A b \in Blocked(kept, code, 0) \ bs : b.code \in DerivedBlockerCodes
             /\ kept \subseteq Blocked(kept, code, 0)
  <2>1. ~\E b \in kept : b.code = code
    OBVIOUS
  <2> DEFINE raised == [code |-> code, operation |-> 0]
  <2>2. Blocked(kept, code, 0) = kept \cup {raised}
    BY <2>1 DEF Blocked
  <2>3. raised.code = code
    OBVIOUS
  <2> HIDE DEF raised
  <2> QED
    BY <2>2, <2>3
<1>2. {"HARD_GATE_FAILED", "EVALUATION_REQUIREMENTS_INCOMPLETE"} \subseteq DerivedBlockerCodes
  BY DEF DerivedBlockerCodes
<1>3. \/ g = "ELIGIBLE" /\ Regated(bs, g) = kept
      \/ g # "ELIGIBLE" /\ \E code \in DerivedBlockerCodes : Regated(bs, g) = Blocked(kept, code, 0)
  BY <1>2 DEF Regated, Verdict
<1>4. \A b \in bs : b.code \notin DerivedBlockerCodes <=> b \in kept
  OBVIOUS
<1>5. kept \subseteq bs /\ (g = "ELIGIBLE" => Regated(bs, g) = {b \in bs : b.code \notin DerivedBlockerCodes})
  BY <1>3
<1> HIDE DEF kept
<1> QED
  BY <1>1, <1>3, <1>4, <1>5

LEMMA GatedRowFacts ==
    ASSUME NEW row \in CandidateRow, NEW bs, NEW g, NEW e
    PROVE  /\ GatedRow(row, bs, g, e).stage = GatedStage(g)
           /\ GatedRow(row, bs, g, e).status = GatedStatus(g, Regated(bs, g))
           /\ GatedRow(row, bs, g, e).snapshot = e
           /\ GatedRow(row, bs, g, e).revision = row.revision + 1
BY DEF GatedRow, Moved, CandidateRow

LEMMA RegatesFacts ==
    ASSUME TypeInv, NEW c \in Candidate, Regates(c)
    PROVE  /\ EvaluationMutable(candidate[c].stage, candidate[c].status)
           /\ candidate'[c].stage = IF gate'[c] = "ELIGIBLE" THEN "ELIGIBLE" ELSE "EVALUATING"
           /\ candidate'[c].status = IF gate'[c] = "ELIGIBLE" /\ blockers'[c] = {}
                                     THEN "ACTIVE" ELSE "BLOCKED"
           /\ candidate'[c].snapshot = Evidence(c)'
           /\ candidate'[c].revision = candidate[c].revision + 1
           /\ gate'[c] = "ELIGIBLE" =>
                 decision'[c].id = candidate[c].revision + 1 /\ decision'[c].snapshot = Evidence(c)'
           /\ gate'[c] # "ELIGIBLE" =>
                 /\ decision'[c] = decision[c]
                 /\ \E b \in blockers'[c] : b.code \in DerivedBlockerCodes
           /\ \A b \in blockers'[c] \ blockers[c] : b.code \in DerivedBlockerCodes
           /\ \A b \in blockers[c] : b.code \notin DerivedBlockerCodes => b \in blockers'[c]
<1>1. PICK e : e = Evidence(c)'
  OBVIOUS
<1>2. PICK g \in Verdict : g = gate'[c]
  BY DEF Regates
<1>3. /\ candidate[c] \in CandidateRow /\ blockers[c] \in SUBSET BlockerRow
  BY DEF TypeInv, TypeOK
<1>4. /\ EvaluationMutable(candidate[c].stage, candidate[c].status)
      /\ candidate'[c] = GatedRow(candidate[c], blockers[c], g, e)
      /\ blockers'[c] = Regated(blockers[c], g)
      /\ decision'[c] = GatedDecision(decision[c], candidate[c], g, e)
  BY <1>1, <1>2 DEF Regates
<1>5. /\ candidate'[c].stage = GatedStage(g)
      /\ candidate'[c].status = GatedStatus(g, blockers'[c])
      /\ candidate'[c].snapshot = e
      /\ candidate'[c].revision = candidate[c].revision + 1
  BY <1>3, <1>4, GatedRowFacts
<1>6. /\ g = "ELIGIBLE" => decision'[c].id = candidate[c].revision + 1 /\ decision'[c].snapshot = e
      /\ g # "ELIGIBLE" => decision'[c] = decision[c]
  BY <1>4 DEF GatedDecision
<1>7. /\ g # "ELIGIBLE" => \E b \in blockers'[c] : b.code \in DerivedBlockerCodes
      /\ \A b \in blockers'[c] \ blockers[c] : b.code \in DerivedBlockerCodes
      /\ \A b \in blockers[c] : b.code \notin DerivedBlockerCodes => b \in blockers'[c]
  BY <1>3, <1>4, RegatedFacts
<1> QED
  BY <1>1, <1>2, <1>4, <1>5, <1>6, <1>7 DEF GatedStage, GatedStatus

\* The operation o a request makes, and the approvals it uses up.
RequestMakes(c, o, used) ==
    /\ operation[c][o].status = "NONE"
    /\ \A i \in Operation : i < o => operation[c][i].status # "NONE"
    /\ operation'[c][o].status = "QUEUED"
    /\ operation'[c][o].decision = decision'[c].id
    /\ operation'[c][o].snapshot = candidate'[c].snapshot
    /\ operation'[c][o].approvals = used
    /\ \A i \in Operation \ {o} : operation'[c][i] = operation[c][i]
    /\ \A a \in used :
          /\ approval[c][a].decision = decision'[c].id
          /\ approval[c][a].snapshot = candidate'[c].snapshot
          /\ ~approval[c][a].revoked /\ ~approval[c][a].consumed
          /\ approval'[c][a] = [approval[c][a] EXCEPT !.consumed = TRUE]
    /\ \A a \in Approval \ used : approval'[c][a] = approval[c][a]
    /\ \E usable \in SUBSET Approval :
          used = Oldest(usable) /\ Cardinality(usable) >= RequiredApprovals

LEMMA RequestsFacts ==
    ASSUME TypeInv, NEW c \in Candidate, Requests(c)
    PROVE  /\ candidate'[c].stage = "ELIGIBLE" /\ candidate'[c].status = "PROMOTION_PENDING"
           /\ candidate'[c].snapshot = Evidence(c)'
           /\ decision'[c].id # 0 /\ decision'[c].snapshot = Evidence(c)'
           /\ blockers'[c] = {}
           /\ \A b \in blockers[c] : b.code \in DerivedBlockerCodes
           /\ \A i \in Operation : operation[c][i].status \notin Unfinished
           /\ \/ /\ gate'[c] = "ELIGIBLE"
                 /\ decision'[c].id = candidate[c].revision + 1
                 /\ candidate'[c].revision = candidate[c].revision + 2
              \/ /\ blockers[c] = {} /\ UNCHANGED << gate[c], decision[c] >>
                 /\ candidate[c].stage \in {"ELIGIBLE", "SHADOW"}
                 /\ candidate'[c].revision = candidate[c].revision + 1
           /\ \E o \in Operation, used \in SUBSET Approval : RequestMakes(c, o, used)
<1>1. PICK row \in CandidateRow, dec \in DecisionRow, o \in Operation :
        LET usable == Usable(approval[c], row, dec)
        IN  /\ MayQueue(row, operation[c], {}, dec, Evidence(c)', usable)
            /\ \A b \in blockers[c] : b.code \in DerivedBlockerCodes
            /\ \/ /\ gate'[c] = "ELIGIBLE"
                  /\ row.revision = candidate[c].revision + 1 /\ dec.id = row.revision
               \/ row = candidate[c] /\ UNCHANGED << gate[c], decision[c], blockers[c] >>
            /\ candidate'[c] = Moved(row, "ELIGIBLE", "PROMOTION_PENDING")
            /\ blockers'[c] = {} /\ decision'[c] = dec
            /\ NextFree(operation[c], o)
            /\ operation'[c] = [operation[c] EXCEPT ![o] =
                                   NewOperation(row, dec, Oldest(usable))]
            /\ approval'[c] = Consumed(approval[c], Oldest(usable))
            /\ SameVersions(c)
  BY DEF Requests
<1> DEFINE usable == Usable(approval[c], row, dec)
           used == Oldest(usable)
<1>2. /\ candidate'[c].stage = "ELIGIBLE" /\ candidate'[c].status = "PROMOTION_PENDING"
      /\ candidate'[c].snapshot = row.snapshot /\ candidate'[c].revision = row.revision + 1
  BY <1>1, MovedFacts DEF StageName, StatusName
<1>3. /\ row.snapshot = Evidence(c)' /\ dec.id # 0 /\ dec.snapshot = row.snapshot
      /\ \A i \in Operation : operation[c][i].status \notin Unfinished
      /\ row.stage \in {"ELIGIBLE", "SHADOW"}
      /\ Cardinality(usable) >= RequiredApprovals
  BY <1>1 DEF MayQueue, HasCurrentDecision
<1>4. usable \in SUBSET Approval /\ used \subseteq usable
  BY DEF Usable, Oldest
<1>5. \A a \in usable : /\ approval[c][a].decision = dec.id /\ approval[c][a].snapshot = row.snapshot
                        /\ ~approval[c][a].revoked /\ ~approval[c][a].consumed
  BY DEF Usable
<1>6. /\ operation'[c] = [operation[c] EXCEPT ![o] = NewOperation(row, dec, used)]
      /\ approval'[c] = Consumed(approval[c], used)
      /\ operation[c][o].status = "NONE" /\ decision'[c] = dec
      /\ \A i \in Operation : i < o => operation[c][i].status # "NONE"
  BY <1>1 DEF NextFree, TypeInv, TypeOK
<1> HIDE DEF used, usable
<1>7. /\ operation'[c][o] = NewOperation(row, dec, used)
      /\ \A i \in Operation \ {o} : operation'[c][i] = operation[c][i]
  BY <1>6 DEF TypeInv, TypeOK
<1>8. /\ operation'[c][o].status = "QUEUED" /\ operation'[c][o].decision = dec.id
      /\ operation'[c][o].snapshot = row.snapshot /\ operation'[c][o].approvals = used
  BY <1>7 DEF NewOperation, NoOperation
<1>9. /\ \A a \in used : approval'[c][a] = [approval[c][a] EXCEPT !.consumed = TRUE]
      /\ \A a \in Approval \ used : approval'[c][a] = approval[c][a]
  BY <1>4, <1>6 DEF Consumed
<1>10. RequestMakes(c, o, used)
  <2>1. \E u \in SUBSET Approval : used = Oldest(u) /\ Cardinality(u) >= RequiredApprovals
    BY <1>3, <1>4 DEF used
  <2> QED
    BY <1>2, <1>4, <1>5, <1>6, <1>7, <1>8, <1>9, <2>1 DEF RequestMakes
<1>11. used \in SUBSET Approval
  BY <1>4
<1>12. \/ /\ gate'[c] = "ELIGIBLE"
          /\ decision'[c].id = candidate[c].revision + 1
          /\ candidate'[c].revision = candidate[c].revision + 2
       \/ /\ blockers[c] = {} /\ UNCHANGED << gate[c], decision[c] >>
          /\ candidate[c].stage \in {"ELIGIBLE", "SHADOW"}
          /\ candidate'[c].revision = candidate[c].revision + 1
  <2>1. candidate[c].revision \in Nat
    BY DEF TypeInv, TypeOK, CandidateRow
  <2>2. CASE /\ gate'[c] = "ELIGIBLE"
             /\ row.revision = candidate[c].revision + 1 /\ dec.id = row.revision
    BY <1>2, <1>6, <2>1, <2>2
  <2>3. CASE row = candidate[c] /\ UNCHANGED << gate[c], decision[c], blockers[c] >>
    BY <1>1, <1>2, <1>3, <2>3
  <2> QED
    BY <1>1, <2>2, <2>3
<1>13. /\ blockers'[c] = {} /\ \A b \in blockers[c] : b.code \in DerivedBlockerCodes
  BY <1>1
<1> QED
  BY <1>2, <1>3, <1>6, <1>10, <1>11, <1>12, <1>13

(***************************************************************************)
(* The parts of the invariant, for one candidate.                          *)
(***************************************************************************)
Requested(c) == {o \in Operation : operation[c][o].status # "NONE"}

\* Eligible evidence has a decision about it; evidence that is not eligible
\* leaves a blocker which no retry clears.
GateOf(c) ==
    /\ gate[c] = "ELIGIBLE" => decision[c].id # 0 /\ decision[c].snapshot = Evidence(c)
    /\ gate[c] # "ELIGIBLE" =>
          decision[c].id = 0 \/ \E b \in blockers[c] : b.code \notin RegistryBlockerCodes

DecidedOf(c) == Requested(c) # {} => decision[c].id # 0

EligibleOf(c) ==
    candidate[c].stage = "ELIGIBLE" /\ candidate[c].status = "ACTIVE" =>
        /\ gate[c] = "ELIGIBLE"
        /\ blockers[c] = {}
        /\ HasCurrentDecision(candidate[c], decision[c])
        /\ candidate[c].snapshot = Evidence(c)

PendingOf(c) ==
    candidate[c].status = "PROMOTION_PENDING" =>
        /\ candidate[c].stage = "ELIGIBLE"
        /\ gate[c] = "ELIGIBLE"
        /\ \E o \in Operation :
              /\ operation[c][o].status \in Unfinished
              /\ operation[c][o].snapshot = candidate[c].snapshot
              /\ operation[c][o].snapshot = Evidence(c)
        /\ HasCurrentDecision(candidate[c], decision[c])

FixtureOf(c) ==
    (\E b \in blockers[c] : b.code \in FixtureBlockerCodes) => Requested(c) = {}

BlockedOf(c) == candidate[c].status = "BLOCKED" => blockers[c] # {}

CodesApart ==
    /\ DerivedBlockerCodes \cap RegistryBlockerCodes = {}
    /\ DerivedBlockerCodes \cap FixtureBlockerCodes = {}
    /\ RegistryBlockerCodes \cap FixtureBlockerCodes = {}

LEMMA CodesAreApart == CodesApart
BY DEF CodesApart, DerivedBlockerCodes, RegistryBlockerCodes, FixtureBlockerCodes

LEMMA RevivesFacts ==
    ASSUME TypeInv, NEW c \in Candidate, Revives(c)
    PROVE  \E o \in Operation :
              /\ operation[c][o].status = "FAILED" /\ operation'[c][o].status = "QUEUED"
              /\ SameOrder(c, o)
              /\ \A i \in Operation \ {o} : operation'[c][i] = operation[c][i]
              /\ candidate[c].snapshot = operation[c][o].snapshot
              /\ Evidence(c)' = operation[c][o].snapshot
              /\ candidate[c].stage = "ELIGIBLE"
              /\ \A b \in blockers[c] : b.code \in RegistryBlockerCodes
              /\ candidate'[c].stage = "ELIGIBLE" /\ candidate'[c].status = "PROMOTION_PENDING"
              /\ candidate'[c].snapshot = candidate[c].snapshot
              /\ candidate'[c].revision = candidate[c].revision + 1
              /\ blockers'[c] = Cleared(blockers[c], o)
              /\ UNCHANGED << gate[c], decision[c], approval[c] >>
              /\ SameEvidence(c) /\ SameVersions(c)
<1>1. PICK o \in Operation :
        /\ MayRetry(candidate[c], operation[c][o], o, blockers[c], Evidence(c))
        /\ operation'[c] = [operation[c] EXCEPT ![o] = Restarted(operation[c][o])]
        /\ candidate'[c] = Moved(candidate[c], "ELIGIBLE", "PROMOTION_PENDING")
        /\ blockers'[c] = Cleared(blockers[c], o)
        /\ UNCHANGED << gate[c], decision[c], approval[c] >>
        /\ SameEvidence(c) /\ SameVersions(c)
  BY DEF Revives
<1>2. candidate[c] \in CandidateRow /\ operation[c][o] \in OperationRow
      /\ operation[c] \in [Operation -> OperationRow]
  BY DEF TypeInv, TypeOK
<1>3. /\ operation'[c][o] = Restarted(operation[c][o])
      /\ \A i \in Operation \ {o} : operation'[c][i] = operation[c][i]
  BY <1>1, <1>2
<1>4. operation'[c][o].status = "QUEUED" /\ SameOrder(c, o)
  BY <1>2, <1>3 DEF Restarted, Released, OperationRow, SameOrder, SameRequest
<1>5. /\ candidate'[c].stage = "ELIGIBLE" /\ candidate'[c].status = "PROMOTION_PENDING"
      /\ candidate'[c].snapshot = candidate[c].snapshot
      /\ candidate'[c].revision = candidate[c].revision + 1
  BY <1>1, <1>2, MovedFacts DEF StageName, StatusName
<1>6. /\ operation[c][o].status = "FAILED" /\ candidate[c].snapshot = operation[c][o].snapshot
      /\ Evidence(c)' = operation[c][o].snapshot /\ candidate[c].stage = "ELIGIBLE"
      /\ \A b \in blockers[c] : b.code \in RegistryBlockerCodes
  BY <1>1 DEF MayRetry, SameEvidence
<1> QED
  BY <1>1, <1>3, <1>4, <1>5, <1>6

LEMMA ActivatesFacts ==
    ASSUME TypeInv, NEW c \in Candidate, Activates(c)
    PROVE  \E o \in Operation :
              /\ operation[c][o].status = "RUNNING" /\ operation'[c][o].status = "SUCCEEDED"
              /\ SameOrder(c, o)
              /\ \A i \in Operation \ {o} : operation'[c][i] = operation[c][i]
              /\ candidate[c].status = "PROMOTION_PENDING"
              /\ candidate[c].snapshot = operation[c][o].snapshot
              /\ \E p \in Worker : worker[p] = Busy("PUBLISHED", c, o)
              /\ \E v \in IF VersionsOfToken(c, o) # {} THEN VersionsOfToken(c, o)
                          ELSE {NewVersion(c, o)} :
                    version'[c] = version[c] \cup {v} /\ selected'[c] = v.number
<1>1. PICK o \in Operation :
        /\ operation[c][o].status = "RUNNING"
        /\ ActivationMatches(candidate[c], operation[c][o])
        /\ \E p \in Worker : worker[p] = Busy("PUBLISHED", c, o)
        /\ operation'[c] = [operation[c] EXCEPT ![o] = Released(operation[c][o], "SUCCEEDED")]
        /\ \E v \in IF VersionsOfToken(c, o) # {} THEN VersionsOfToken(c, o)
                    ELSE {NewVersion(c, o)} :
              version'[c] = version[c] \cup {v} /\ selected'[c] = v.number
  BY DEF Activates
<1>2. operation[c][o] \in OperationRow /\ operation[c] \in [Operation -> OperationRow]
  BY DEF TypeInv, TypeOK
<1>3. /\ operation'[c][o] = Released(operation[c][o], "SUCCEEDED")
      /\ \A i \in Operation \ {o} : operation'[c][i] = operation[c][i]
  BY <1>1, <1>2
<1>4. operation'[c][o].status = "SUCCEEDED" /\ SameOrder(c, o)
  BY <1>2, <1>3, ReleasedOrder DEF SameOrder, WorkStatus
<1> QED
  BY <1>1, <1>3, <1>4 DEF ActivationMatches

LEMMA RequestedStays ==
    ASSUME TypeInv, NEW c \in Candidate, Effect(c)
    PROVE  Requests(c) \/ Requested(c)' = Requested(c)
<1>1. CASE Rests(c)
  BY <1>1 DEF Rests, OperationsGoOn, SameStatus, Requested, Unfinished
<1>2. CASE Starts(c) \/ Regates(c) \/ Reviews(c)
  BY <1>2 DEF Starts, Regates, Reviews, Requested
<1>3. CASE Revives(c)
  <2>1. PICK o \in Operation :
           /\ operation[c][o].status = "FAILED" /\ operation'[c][o].status = "QUEUED"
           /\ \A i \in Operation \ {o} : operation'[c][i] = operation[c][i]
    BY <1>3, RevivesFacts
  <2> QED
    BY <2>1 DEF Requested
<1>4. CASE Stops(c)
  BY <1>4 DEF Stops, Requested, Unfinished
<1>5. CASE Activates(c)
  <2>1. PICK o \in Operation :
           /\ operation[c][o].status = "RUNNING" /\ operation'[c][o].status = "SUCCEEDED"
           /\ \A i \in Operation \ {o} : operation'[c][i] = operation[c][i]
    BY <1>5, ActivatesFacts
  <2> QED
    BY <2>1 DEF Requested
<1> QED
  BY <1>1, <1>2, <1>3, <1>4, <1>5 DEF Effect

LEMMA GateKeeps ==
    ASSUME TypeInv, NEW c \in Candidate, GateOf(c), Effect(c) PROVE GateOf(c)'
<1>1. CASE Rests(c) \/ Starts(c) \/ Reviews(c) \/ Activates(c)
  BY <1>1 DEF Rests, Starts, Reviews, Activates, SameEvidence, GateOf
<1>2. CASE Regates(c)
  <2>1. candidate[c].revision \in Nat
    BY DEF TypeInv, TypeOK, CandidateRow
  <2> QED
    BY <1>2, <2>1, RegatesFacts, CodesAreApart DEF GateOf, CodesApart
<1>3. CASE Requests(c)
  BY <1>3, RequestsFacts DEF GateOf
<1>4. CASE Revives(c)
  <2>1. PICK o : /\ blockers'[c] = Cleared(blockers[c], o)
                 /\ UNCHANGED << gate[c], decision[c] >> /\ SameEvidence(c)
    BY <1>4, RevivesFacts
  <2> QED
    BY <2>1 DEF GateOf, Cleared, SameEvidence
<1>5. CASE Stops(c)
  BY <1>5 DEF Stops, SameEvidence, GateOf
<1> QED
  BY <1>1, <1>2, <1>3, <1>4, <1>5 DEF Effect

LEMMA DecidedKeeps ==
    ASSUME TypeInv, NEW c \in Candidate, DecidedOf(c), Effect(c) PROVE DecidedOf(c)'
<1>1. CASE Requests(c)
  BY <1>1, RequestsFacts DEF DecidedOf
<1>2. CASE Regates(c)
  <2>1. candidate[c].revision \in Nat
    BY DEF TypeInv, TypeOK, CandidateRow
  <2>2. /\ gate'[c] = "ELIGIBLE" => decision'[c].id = candidate[c].revision + 1
        /\ gate'[c] # "ELIGIBLE" => decision'[c] = decision[c]
    BY <1>2, RegatesFacts
  <2>3. Requested(c)' = Requested(c)
    BY <1>2 DEF Regates, Requested
  <2> QED
    BY <2>1, <2>2, <2>3 DEF DecidedOf
<1>3. CASE ~Requests(c) /\ ~Regates(c)
  <2>1. UNCHANGED decision[c]
    BY <1>3, RevivesFacts DEF Effect, Rests, Starts, Reviews, Revives, Stops, Activates
  <2> QED
    BY <1>3, <2>1, RequestedStays DEF DecidedOf
<1> QED
  BY <1>1, <1>2, <1>3

LEMMA EligibleKeeps ==
    ASSUME TypeInv, NEW c \in Candidate, EligibleOf(c), Effect(c) PROVE EligibleOf(c)'
<1>0. candidate[c] \in CandidateRow
  BY DEF TypeInv, TypeOK
<1>1. CASE Rests(c)
  BY <1>1 DEF Rests, SameEvidence, EligibleOf
<1>2. CASE Starts(c)
  <2>1. candidate'[c].stage = "EVALUATING"
    BY <1>0, <1>2 DEF Starts, Moved, CandidateRow
  <2> QED
    BY <2>1 DEF EligibleOf
<1>3. CASE Regates(c)
  <2>1. candidate[c].revision \in Nat
    BY <1>0 DEF CandidateRow
  <2> QED
    BY <1>3, <2>1, RegatesFacts DEF EligibleOf, HasCurrentDecision
<1>4. CASE Reviews(c)
  <2>1. /\ candidate'[c].stage = candidate[c].stage /\ candidate'[c].status = candidate[c].status
        /\ candidate'[c].snapshot = candidate[c].snapshot
    BY <1>0, <1>4 DEF Reviews, CandidateRow
  <2> QED
    BY <1>4, <2>1 DEF Reviews, SameEvidence, EligibleOf, HasCurrentDecision
<1>5. CASE Requests(c) \/ Revives(c)
  BY <1>5, RequestsFacts, RevivesFacts DEF EligibleOf
<1>6. CASE Stops(c) \/ Activates(c)
  BY <1>6 DEF Stops, Activates, EligibleOf, MutationStopStages
<1> QED
  BY <1>1, <1>2, <1>3, <1>4, <1>5, <1>6 DEF Effect

LEMMA PendingKeeps ==
    ASSUME TypeInv, NEW c \in Candidate, PendingOf(c), GateOf(c), DecidedOf(c), Effect(c)
    PROVE  PendingOf(c)'
<1>0. candidate[c] \in CandidateRow
  BY DEF TypeInv, TypeOK
<1>1. CASE Rests(c)
  BY <1>1 DEF Rests, SameEvidence, OperationsGoOn, SameOrder, SameRequest, PendingOf,
     HasCurrentDecision
<1>2. CASE Starts(c)
  <2>1. candidate'[c].status = "ACTIVE"
    BY <1>0, <1>2 DEF Starts, Moved, CandidateRow
  <2> QED
    BY <2>1 DEF PendingOf
<1>3. CASE Regates(c)
  BY <1>3, RegatesFacts DEF PendingOf
<1>4. CASE Reviews(c)
  <2>1. /\ candidate'[c].stage = candidate[c].stage /\ candidate'[c].status = candidate[c].status
        /\ candidate'[c].snapshot = candidate[c].snapshot
    BY <1>0, <1>4 DEF Reviews, CandidateRow
  <2> QED
    BY <1>4, <2>1 DEF Reviews, SameEvidence, PendingOf, HasCurrentDecision
<1>5. CASE Requests(c)
  <2>1. gate'[c] = "ELIGIBLE"
    BY <1>5, RequestsFacts DEF GateOf
  <2>2. PICK o \in Operation : /\ operation'[c][o].status = "QUEUED"
                               /\ operation'[c][o].snapshot = candidate'[c].snapshot
    BY <1>5, RequestsFacts DEF RequestMakes
  <2> QED
    BY <1>5, <2>1, <2>2, RequestsFacts DEF PendingOf, Unfinished, HasCurrentDecision
<1>6. CASE Revives(c)
  <2>1. PICK o \in Operation :
              /\ operation[c][o].status = "FAILED" /\ operation'[c][o].status = "QUEUED"
              /\ SameOrder(c, o)
              /\ candidate[c].snapshot = operation[c][o].snapshot
              /\ Evidence(c)' = operation[c][o].snapshot
              /\ \A b \in blockers[c] : b.code \in RegistryBlockerCodes
              /\ candidate'[c].stage = "ELIGIBLE" /\ candidate'[c].status = "PROMOTION_PENDING"
              /\ candidate'[c].snapshot = candidate[c].snapshot
              /\ UNCHANGED << gate[c], decision[c] >> /\ SameEvidence(c)
    BY <1>6, RevivesFacts
  <2>2. decision[c].id # 0
    BY <2>1 DEF DecidedOf, Requested
  <2>3. gate[c] = "ELIGIBLE" /\ gate'[c] = "ELIGIBLE"
    BY <2>1, <2>2 DEF GateOf
  <2>4. HasCurrentDecision(candidate'[c], decision'[c])
    BY <2>1, <2>3 DEF GateOf, SameEvidence, HasCurrentDecision
  <2> QED
    BY <2>1, <2>3, <2>4 DEF PendingOf, Unfinished, SameOrder, SameRequest, HasCurrentDecision
<1>7. CASE Stops(c) \/ Activates(c)
  BY <1>7 DEF Stops, Activates, PendingOf
<1> QED
  BY <1>1, <1>2, <1>3, <1>4, <1>5, <1>6, <1>7 DEF Effect

LEMMA FixtureKeeps ==
    ASSUME TypeInv, NEW c \in Candidate, FixtureOf(c), Effect(c) PROVE FixtureOf(c)'
<1>1. CASE Requests(c)
  BY <1>1, RequestsFacts DEF FixtureOf
<1>2. CASE ~Requests(c)
  <2>1. Requested(c)' = Requested(c)
    BY <1>2, RequestedStays
  <2>2. ASSUME NEW b \in blockers'[c], b.code \in FixtureBlockerCodes
        PROVE  b \in blockers[c]
    <3>1. CASE Rests(c) \/ Starts(c) \/ Reviews(c) \/ Activates(c)
      BY <2>2, <3>1 DEF Rests, Starts, Reviews, Activates
    <3>2. CASE Regates(c)
      BY <2>2, <3>2, RegatesFacts, CodesAreApart DEF CodesApart
    <3>3. CASE Revives(c)
      BY <2>2, <3>3, RevivesFacts DEF Cleared
    <3>4. CASE Stops(c)
      BY <2>2, <3>4 DEF Stops
    <3> QED
      BY <1>2, <3>1, <3>2, <3>3, <3>4 DEF Effect
  <2> QED
    BY <2>1, <2>2 DEF FixtureOf
<1> QED
  BY <1>1, <1>2

LEMMA BlockedKeeps ==
    ASSUME TypeInv, NEW c \in Candidate, BlockedOf(c), Effect(c) PROVE BlockedOf(c)'
<1>0. candidate[c] \in CandidateRow
  BY DEF TypeInv, TypeOK
<1>1. CASE Rests(c) \/ Stops(c) \/ Activates(c)
  BY <1>1 DEF Rests, Stops, Activates, BlockedOf
<1>2. CASE Starts(c)
  <2>1. candidate'[c].status = "ACTIVE"
    BY <1>0, <1>2 DEF Starts, Moved, CandidateRow
  <2> QED
    BY <2>1 DEF BlockedOf
<1>3. CASE Regates(c)
  BY <1>3, RegatesFacts DEF BlockedOf
<1>4. CASE Reviews(c)
  BY <1>0, <1>4 DEF Reviews, CandidateRow, BlockedOf
<1>5. CASE Requests(c) \/ Revives(c)
  BY <1>5, RequestsFacts, RevivesFacts DEF BlockedOf
<1> QED
  BY <1>1, <1>2, <1>3, <1>4, <1>5 DEF Effect

(***************************************************************************)
(* Approvals.  What an approval was spent on is never taken back.          *)
(***************************************************************************)
Spenders(c, a) == {o \in Operation : a \in operation[c][o].approvals}

ApprovalOf(c) ==
    /\ \A o \in Operation : operation[c][o].status = "NONE" => operation[c][o].approvals = {}
    /\ \A a \in Approval :
          /\ \A o1, o2 \in Spenders(c, a) : o1 = o2
          /\ approval[c][a].consumed <=> Spenders(c, a) # {}
          /\ ~(approval[c][a].consumed /\ approval[c][a].revoked)
          /\ approval[c][a].consumed \/ approval[c][a].revoked => approval[c][a].decision # 0

\* Only a request gives an operation approvals.
LEMMA SpentBefore ==
    ASSUME TypeInv, NEW c \in Candidate, Effect(c), ~Requests(c)
    PROVE  \A o \in Operation : /\ operation'[c][o].approvals = operation[c][o].approvals
                                /\ operation'[c][o].status = "NONE" <=> operation[c][o].status = "NONE"
<1>1. Requested(c)' = Requested(c)
  BY RequestedStays
<1>2. \A o \in Operation : operation'[c][o].status = "NONE" <=> operation[c][o].status = "NONE"
  BY <1>1 DEF Requested
<1>3. CASE Rests(c)
  BY <1>2, <1>3 DEF Rests, OperationsGoOn, SameOrder, SameRequest
<1>4. CASE Starts(c) \/ Regates(c) \/ Reviews(c)
  BY <1>4 DEF Starts, Regates, Reviews
<1>5. CASE Revives(c)
  BY <1>2, <1>5, RevivesFacts DEF SameOrder, SameRequest
<1>6. CASE Stops(c)
  BY <1>2, <1>6 DEF Stops, SameOrder, SameRequest
<1>7. CASE Activates(c)
  BY <1>2, <1>7, ActivatesFacts DEF SameOrder, SameRequest
<1> QED
  BY <1>3, <1>4, <1>5, <1>6, <1>7 DEF Effect

LEMMA ReviewsFacts ==
    ASSUME TypeInv, NEW c \in Candidate, Reviews(c)
    PROVE  \E a \in Approval :
              /\ \A b \in Approval \ {a} : approval'[c][b] = approval[c][b]
              /\ ~approval'[c][a].consumed /\ approval'[c][a].decision # 0
              /\ \/ approval[c][a].decision = 0
                 \/ /\ ~approval[c][a].consumed
                    /\ approval[c][a].revoked => approval'[c][a] = approval[c][a]
<1>1. PICK a \in Approval :
          \/ /\ approval[c][a].decision = 0 /\ HasCurrentDecision(candidate[c], decision[c])
             /\ approval'[c] = [approval[c] EXCEPT ![a] =
                   [NoApproval EXCEPT !.decision = decision[c].id,
                                      !.snapshot = candidate[c].snapshot]]
          \/ /\ Revocable(approval[c][a])
             /\ approval'[c] = [approval[c] EXCEPT ![a].revoked = TRUE]
  BY DEF Reviews
<1>2. approval[c] \in [Approval -> ApprovalRow] /\ approval[c][a] \in ApprovalRow
  BY DEF TypeInv, TypeOK
<1>3. CASE /\ approval[c][a].decision = 0 /\ HasCurrentDecision(candidate[c], decision[c])
           /\ approval'[c] = [approval[c] EXCEPT ![a] =
                   [NoApproval EXCEPT !.decision = decision[c].id,
                                      !.snapshot = candidate[c].snapshot]]
  <2>1. /\ approval'[c][a] = [NoApproval EXCEPT !.decision = decision[c].id,
                                                !.snapshot = candidate[c].snapshot]
        /\ \A b \in Approval \ {a} : approval'[c][b] = approval[c][b]
    BY <1>2, <1>3
  <2>2. approval'[c][a].consumed = FALSE /\ approval'[c][a].decision # 0
    BY <1>3, <2>1 DEF NoApproval, HasCurrentDecision
  <2> QED
    BY <1>3, <2>1, <2>2
<1>4. CASE /\ Revocable(approval[c][a])
           /\ approval'[c] = [approval[c] EXCEPT ![a].revoked = TRUE]
  <2>1. /\ approval'[c][a] = [approval[c][a] EXCEPT !.revoked = TRUE]
        /\ \A b \in Approval \ {a} : approval'[c][b] = approval[c][b]
    BY <1>2, <1>4
  <2>2. /\ approval'[c][a].consumed = approval[c][a].consumed
        /\ approval'[c][a].decision = approval[c][a].decision
    BY <1>2, <2>1 DEF ApprovalRow
  <2>3. approval[c][a].revoked => approval'[c][a] = approval[c][a]
    BY <1>2, <2>1 DEF ApprovalRow
  <2> QED
    BY <1>4, <2>1, <2>2, <2>3 DEF Revocable
<1> QED
  BY <1>1, <1>3, <1>4

LEMMA ApprovalKeeps ==
    ASSUME TypeInv, NEW c \in Candidate, ApprovalOf(c), Effect(c)
    PROVE  /\ ApprovalOf(c)'
           /\ \A a \in Approval : approval[c][a].consumed \/ approval[c][a].revoked =>
                 approval'[c][a] = approval[c][a]
<1>1. CASE Requests(c)
  <2>1. PICK o \in Operation, used \in SUBSET Approval : RequestMakes(c, o, used)
    BY <1>1, RequestsFacts
  <2>2. decision'[c].id # 0
    BY <1>1, RequestsFacts
  <2>3. ASSUME NEW a \in used
        PROVE  /\ approval'[c][a].consumed /\ ~approval'[c][a].revoked
               /\ approval'[c][a].decision # 0
               /\ Spenders(c, a) = {}
               /\ ~approval[c][a].consumed /\ ~approval[c][a].revoked
    <3>1. approval[c][a] \in ApprovalRow
      BY DEF TypeInv, TypeOK
    <3>2. approval'[c][a] = [approval[c][a] EXCEPT !.consumed = TRUE]
      BY <2>1 DEF RequestMakes
    <3>3. /\ approval'[c][a].consumed = TRUE /\ approval'[c][a].revoked = approval[c][a].revoked
          /\ approval'[c][a].decision = approval[c][a].decision
      BY <3>1, <3>2 DEF ApprovalRow
    <3>4. /\ approval[c][a].decision = decision'[c].id
          /\ ~approval[c][a].revoked /\ ~approval[c][a].consumed
      BY <2>1 DEF RequestMakes
    <3> QED
      BY <2>2, <3>3, <3>4 DEF ApprovalOf
  <2>4. \A a \in used : Spenders(c, a)' = {o}
    BY <2>1, <2>3 DEF RequestMakes, Spenders
  <2>5. \A a \in Approval \ used : Spenders(c, a)' = Spenders(c, a)
    BY <2>1 DEF RequestMakes, Spenders, ApprovalOf
  <2>6. \A i \in Operation : operation'[c][i].status = "NONE" => operation'[c][i].approvals = {}
    BY <2>1 DEF RequestMakes, ApprovalOf
  <2>7. \A a \in Approval \ used : approval'[c][a] = approval[c][a]
    BY <2>1 DEF RequestMakes
  <2>8. ASSUME NEW a \in Approval
        PROVE  /\ \A o1, o2 \in Spenders(c, a)' : o1 = o2
               /\ approval'[c][a].consumed <=> Spenders(c, a)' # {}
               /\ ~(approval'[c][a].consumed /\ approval'[c][a].revoked)
               /\ approval'[c][a].consumed \/ approval'[c][a].revoked =>
                     approval'[c][a].decision # 0
    <3>1. CASE a \in used
      BY <2>3, <2>4, <3>1
    <3>2. CASE a \notin used
      BY <2>5, <2>7, <3>2 DEF ApprovalOf
    <3> QED
      BY <3>1, <3>2
  <2>9. ApprovalOf(c)'
    BY <2>6, <2>8 DEF ApprovalOf
  <2> QED
    BY <2>3, <2>7, <2>9
<1>2. CASE ~Requests(c)
  <2>1. /\ \A a \in Approval : Spenders(c, a)' = Spenders(c, a)
        /\ \A o \in Operation : operation'[c][o].status = "NONE" => operation'[c][o].approvals = {}
    BY <1>2, SpentBefore DEF Spenders, ApprovalOf
  <2>2. CASE Reviews(c)
    <3>1. PICK a \in Approval :
              /\ \A b \in Approval \ {a} : approval'[c][b] = approval[c][b]
              /\ ~approval'[c][a].consumed /\ approval'[c][a].decision # 0
              /\ \/ approval[c][a].decision = 0
                 \/ /\ ~approval[c][a].consumed
                    /\ approval[c][a].revoked => approval'[c][a] = approval[c][a]
      BY <2>2, ReviewsFacts
    <3>2. /\ ~approval[c][a].consumed /\ Spenders(c, a) = {}
          /\ approval[c][a].revoked => approval'[c][a] = approval[c][a]
      BY <3>1 DEF ApprovalOf
    <3> QED
      BY <2>1, <3>1, <3>2 DEF ApprovalOf
  <2>3. CASE ~Reviews(c)
    <3>1. approval'[c] = approval[c]
      BY <1>2, <2>3, RevivesFacts DEF Effect, Rests, Starts, Regates, Revives, Stops, Activates
    <3> QED
      BY <2>1, <3>1 DEF ApprovalOf
  <2> QED
    BY <2>2, <2>3
<1> QED
  BY <1>1, <1>2

(***************************************************************************)
(* Tokens and versions.  A decision is named by the revision that recorded *)
(* it, so an operation's decision is never newer than the latest one, and  *)
(* while the latest one has been used no second operation can be queued.   *)
(***************************************************************************)
TokenOf(c) ==
    /\ decision[c].id <= candidate[c].revision
    /\ \A o \in Requested(c) : operation[c][o].decision <= decision[c].id
    /\ \A o1, o2 \in Requested(c) :
          operation[c][o1].decision = operation[c][o2].decision => o1 = o2
    /\ \A o \in Operation :
          operation[c][o].status = "SUCCEEDED" /\ operation[c][o].decision = decision[c].id =>
              /\ Unresolved(c) = {}
              /\ candidate[c].stage \notin {"ELIGIBLE", "SHADOW"}

\* A request finds no operation made for the decision it uses.
LEMMA RequestIsFresh ==
    ASSUME TypeInv, NEW c \in Candidate, TokenOf(c), InvOf(c), Requests(c),
           NEW o \in Requested(c)
    PROVE  operation[c][o].decision < decision'[c].id
<1>1. o \in Operation /\ operation[c][o] \in OperationRow /\ operation[c][o].status # "NONE"
  BY DEF Requested, TypeInv, TypeOK
<1>2. /\ candidate[c].revision \in Nat /\ decision[c].id \in Nat /\ operation[c][o].decision \in Nat
  BY <1>1 DEF TypeInv, TypeOK, CandidateRow, DecisionRow, OperationRow
<1>3. operation[c][o].decision <= decision[c].id /\ decision[c].id <= candidate[c].revision
  BY DEF TokenOf
<1>4. CASE decision'[c].id = candidate[c].revision + 1
  BY <1>2, <1>3, <1>4
<1>5. CASE /\ blockers[c] = {} /\ UNCHANGED << gate[c], decision[c] >>
           /\ candidate[c].stage \in {"ELIGIBLE", "SHADOW"}
  <2>1. operation[c][o].status \notin Unfinished
    BY <1>1, RequestsFacts
  <2>2. operation[c][o].status # "FAILED"
    BY <1>1, <1>5 DEF InvOf, RegistryBlockers
  <2>3. operation[c][o].status = "SUCCEEDED"
    BY <1>1, <2>1, <2>2 DEF OperationRow, WorkStatus, Unfinished
  <2>4. operation[c][o].decision # decision[c].id
    BY <1>1, <1>5, <2>3 DEF TokenOf
  <2>5. decision'[c].id = decision[c].id
    BY <1>5
  <2> QED
    BY <1>2, <1>3, <2>4, <2>5
<1> QED
  BY <1>4, <1>5, RequestsFacts

LEMMA OrdersStay ==
    ASSUME TypeInv, NEW c \in Candidate, Effect(c), ~Requests(c), NEW o \in Requested(c)
    PROVE  operation'[c][o].decision = operation[c][o].decision
           /\ operation'[c][o].snapshot = operation[c][o].snapshot
<1>1. o \in Operation
  BY DEF Requested
<1>2. CASE Rests(c)
  BY <1>1, <1>2 DEF Rests, OperationsGoOn, SameOrder, SameRequest
<1>3. CASE Starts(c) \/ Regates(c) \/ Reviews(c)
  BY <1>3 DEF Starts, Regates, Reviews
<1>4. CASE Revives(c)
  BY <1>1, <1>4, RevivesFacts DEF SameOrder, SameRequest
<1>5. CASE Stops(c)
  BY <1>1, <1>5 DEF Stops, SameOrder, SameRequest
<1>6. CASE Activates(c)
  BY <1>1, <1>6, ActivatesFacts DEF SameOrder, SameRequest
<1> QED
  BY <1>2, <1>3, <1>4, <1>5, <1>6 DEF Effect

\* Whatever does not leave a candidate at rest raises its revision.
LEMMA RestsOrGrows ==
    ASSUME TypeInv, NEW c \in Candidate, Effect(c)
    PROVE  Rests(c) \/ candidate'[c].revision > candidate[c].revision
<1>0. candidate[c] \in CandidateRow /\ candidate[c].revision \in Nat
  BY DEF TypeInv, TypeOK, CandidateRow
<1>1. CASE Starts(c)
  BY <1>0, <1>1 DEF Starts, Moved, CandidateRow
<1>2. CASE Regates(c)
  BY <1>0, <1>2, RegatesFacts
<1>3. CASE Reviews(c)
  BY <1>0, <1>3 DEF Reviews, CandidateRow
<1>4. CASE Requests(c)
  BY <1>0, <1>4, RequestsFacts
<1>5. CASE Revives(c)
  BY <1>0, <1>5, RevivesFacts
<1>6. CASE Stops(c) \/ Activates(c)
  BY <1>6 DEF Stops, Activates
<1> QED
  BY <1>1, <1>2, <1>3, <1>4, <1>5, <1>6 DEF Effect

LEMMA RevisionGrows ==
    ASSUME TypeInv, NEW c \in Candidate, Effect(c)
    PROVE  \/ candidate'[c].revision > candidate[c].revision
           \/ UNCHANGED << candidate[c], blockers[c], decision[c], approval[c] >>
BY RestsOrGrows DEF Rests

LEMMA TokenKeeps ==
    ASSUME TypeInv, TypeInv', NEW c \in Candidate, TokenOf(c), InvOf(c), Effect(c)
    PROVE  TokenOf(c)'
<1>0. /\ candidate[c].revision \in Nat /\ candidate'[c].revision \in Nat
      /\ decision[c].id \in Nat /\ decision'[c].id \in Nat
      /\ \A o \in Operation : operation[c][o].decision \in Nat /\ operation'[c][o].decision \in Nat
  BY DEF TypeInv, TypeOK, CandidateRow, DecisionRow, OperationRow
<1>1. decision[c].id <= candidate[c].revision
      /\ \A o \in Requested(c) : operation[c][o].decision <= decision[c].id
  BY DEF TokenOf
<1>2. CASE Requests(c)
  <2>1. PICK o \in Operation, used \in SUBSET Approval : RequestMakes(c, o, used)
    BY <1>2, RequestsFacts
  <2>2. /\ \A i \in Requested(c) : operation[c][i].decision < decision'[c].id
        /\ decision'[c].id <= candidate'[c].revision
    <3>1. decision'[c].id <= candidate'[c].revision
      BY <1>0, <1>1, <1>2, RequestsFacts
    <3> QED
      BY <1>2, <3>1, RequestIsFresh
  <2>3. /\ Requested(c)' = Requested(c) \cup {o} /\ o \notin Requested(c)
        /\ \A i \in Requested(c) : operation'[c][i] = operation[c][i]
        /\ operation'[c][o].decision = decision'[c].id /\ operation'[c][o].status = "QUEUED"
    BY <2>1 DEF RequestMakes, Requested
  <2>4. \A i \in Requested(c)' : operation'[c][i].decision <= decision'[c].id
    <3>1. ASSUME NEW i \in Requested(c) PROVE operation'[c][i].decision <= decision'[c].id
      <4>1. i \in Operation /\ operation[c][i].decision < decision'[c].id
        BY <2>2 DEF Requested
      <4> QED
        BY <1>0, <2>3, <4>1
    <3> QED
      BY <1>0, <2>3, <3>1
  <2>5. \A i \in Requested(c) : operation'[c][i].decision # decision'[c].id
    <3>1. ASSUME NEW i \in Requested(c) PROVE operation'[c][i].decision # decision'[c].id
      <4>1. i \in Operation /\ operation[c][i].decision < decision'[c].id
        BY <2>2 DEF Requested
      <4> QED
        BY <1>0, <2>3, <4>1
    <3> QED
      BY <3>1
  <2>6. \A o1, o2 \in Requested(c)' :
           operation'[c][o1].decision = operation'[c][o2].decision => o1 = o2
    BY <2>3, <2>5 DEF TokenOf
  <2>7. ASSUME NEW i \in Operation, operation'[c][i].status = "SUCCEEDED"
        PROVE  operation'[c][i].decision # decision'[c].id
    BY <2>3, <2>5, <2>7 DEF Requested
  <2> QED
    BY <2>2, <2>4, <2>6, <2>7 DEF TokenOf
<1>3. CASE ~Requests(c)
  <2>1. /\ Requested(c)' = Requested(c)
        /\ \A o \in Requested(c) : operation'[c][o].decision = operation[c][o].decision
    BY <1>3, RequestedStays, OrdersStay
  <2>2. \A o1, o2 \in Requested(c)' :
           operation'[c][o1].decision = operation'[c][o2].decision => o1 = o2
    BY <2>1 DEF TokenOf
  <2>3. /\ decision'[c].id <= candidate'[c].revision
        /\ \/ UNCHANGED decision[c]
           \/ Regates(c) /\ gate'[c] = "ELIGIBLE" /\ decision'[c].id = candidate[c].revision + 1
    <3>1. CASE Regates(c)
      BY <1>0, <1>1, <3>1, RegatesFacts
    <3>2. CASE ~Regates(c)
      <4>1. UNCHANGED decision[c]
        BY <1>3, <3>2, RevivesFacts DEF Effect, Rests, Starts, Reviews, Stops, Activates
      <4>2. candidate'[c].revision >= candidate[c].revision
        BY <1>0, RevisionGrows
      <4> QED
        BY <1>0, <1>1, <4>1, <4>2
    <3> QED
      BY <3>1, <3>2
  <2>4. decision'[c].id >= decision[c].id
    BY <1>0, <1>1, <2>3
  <2>5. \A o \in Requested(c)' : operation'[c][o].decision <= decision'[c].id
    <3>1. ASSUME NEW o \in Requested(c) PROVE operation'[c][o].decision <= decision'[c].id
      <4>1. o \in Operation /\ operation'[c][o].decision = operation[c][o].decision
            /\ operation[c][o].decision <= decision[c].id
        BY <1>1, <2>1 DEF Requested
      <4> QED
        BY <1>0, <2>4, <4>1
    <3> QED
      BY <2>1, <3>1
  <2>6. ASSUME NEW o \in Operation, operation'[c][o].status = "SUCCEEDED",
               operation'[c][o].decision = decision'[c].id
        PROVE  Unresolved(c)' = {} /\ candidate'[c].stage \notin {"ELIGIBLE", "SHADOW"}
    <3>1. /\ o \in Requested(c) /\ operation[c][o].decision = decision'[c].id
      BY <2>1, <2>6 DEF Requested
    <3>2. UNCHANGED decision[c]
      <4>1. operation[c][o].decision <= decision[c].id
        BY <1>1, <3>1
      <4> QED
        BY <1>0, <1>1, <2>3, <3>1, <4>1
    <3>3. CASE Activates(c)
      <4>1. PICK i \in Operation :
              /\ operation[c][i].status = "RUNNING" /\ operation'[c][i].status = "SUCCEEDED"
              /\ \A j \in Operation \ {i} : operation'[c][j] = operation[c][j]
        BY <3>3, ActivatesFacts
      <4>2. i \in Unresolved(c) /\ \A j \in Unresolved(c) : j = i
        BY <4>1 DEF InvOf, Unresolved
      <4>3. Unresolved(c)' = {}
        BY <4>1, <4>2 DEF Unresolved
      <4>4. candidate'[c].stage \notin {"ELIGIBLE", "SHADOW"}
        BY <3>3 DEF Activates, MutationStopStages
      <4> QED
        BY <4>3, <4>4
    <3>4. CASE ~Activates(c)
      <4>1. operation[c][o].status = "SUCCEEDED"
        <5>1. CASE Rests(c)
          BY <2>6, <5>1 DEF Rests, OperationsGoOn, SameStatus, Unfinished
        <5>2. CASE Starts(c) \/ Regates(c) \/ Reviews(c)
          BY <2>6, <5>2 DEF Starts, Regates, Reviews
        <5>3. CASE Revives(c)
          <6>1. PICK i \in Operation :
                   /\ operation'[c][i].status = "QUEUED"
                   /\ \A j \in Operation \ {i} : operation'[c][j] = operation[c][j]
            BY <5>3, RevivesFacts
          <6> QED
            BY <2>6, <6>1
        <5>4. CASE Stops(c)
          BY <2>6, <5>4 DEF Stops, Unfinished
        <5> QED
          BY <1>3, <3>4, <5>1, <5>2, <5>3, <5>4 DEF Effect
      <4>2. Unresolved(c) = {} /\ candidate[c].stage \notin {"ELIGIBLE", "SHADOW"}
        BY <3>1, <3>2, <4>1 DEF TokenOf
      <4>3. \A i \in Operation : operation[c][i].status \notin {"QUEUED", "RUNNING", "FAILED"}
        BY <4>2 DEF Unresolved
      <4>4. ~Revives(c)
        BY <4>3, RevivesFacts
      <4>5. \A i \in Operation : operation'[c][i].status = operation[c][i].status
        BY <1>3, <3>4, <4>3, <4>4 DEF Effect, Rests, OperationsGoOn, SameStatus, Starts,
           Regates, Reviews, Stops, Unfinished
      <4>6. Unresolved(c)' = {}
        BY <4>3, <4>5 DEF Unresolved
      <4>7. candidate'[c].stage \notin {"ELIGIBLE", "SHADOW"}
        <5>1. candidate[c] \in CandidateRow
          BY DEF TypeInv, TypeOK
        <5>2. CASE Rests(c) \/ Reviews(c)
          BY <4>2, <5>1, <5>2 DEF Rests, Reviews, CandidateRow
        <5>3. CASE Starts(c)
          BY <5>1, <5>3 DEF Starts, Moved, CandidateRow
        <5>4. CASE Regates(c)
          <6>1. gate'[c] # "ELIGIBLE"
            BY <1>0, <1>1, <3>2, <5>4, RegatesFacts
          <6> QED
            BY <5>4, <6>1, RegatesFacts
        <5>5. CASE Stops(c)
          BY <4>2, <4>3, <5>5 DEF Stops, Unfinished
        <5> QED
          BY <1>3, <3>4, <4>4, <5>2, <5>3, <5>4, <5>5 DEF Effect
      <4> QED
        BY <4>6, <4>7
    <3> QED
      BY <3>3, <3>4
  <2> QED
    BY <2>2, <2>3, <2>5, <2>6 DEF TokenOf
<1> QED
  BY <1>2, <1>3

(***************************************************************************)
(* The oldest approvals of a large enough set are exactly as many as are   *)
(* required: the number of older members maps the set one to one onto the  *)
(* numbers below its size, and the oldest ones onto those below the bound. *)
(***************************************************************************)
LEMMA OldestCount ==
    ASSUME NEW S \in SUBSET Approval, Cardinality(S) >= RequiredApprovals
    PROVE  Cardinality(Oldest(S)) = RequiredApprovals
<1>1. /\ RequiredApprovals \in Nat /\ MaxApprovals \in Nat
      /\ \A a \in Approval : a \in Int
  BY BoundAssumption DEF Approval
<1>2. IsFiniteSet(S) /\ Cardinality(S) \in Nat
  <2>1. IsFiniteSet(1..MaxApprovals)
    BY <1>1, FS_Interval
  <2>2. IsFiniteSet(S)
    BY <2>1, FS_Subset DEF Approval
  <2> QED
    BY <2>2, FS_CardinalityType
<1> DEFINE n == Cardinality(S)
           older(a) == {b \in S : b < a}
           f == [a \in S |-> Cardinality(older(a))]
<1>3. ASSUME NEW a \in S
      PROVE  /\ IsFiniteSet(older(a)) /\ Cardinality(older(a)) \in Nat
             /\ Cardinality(older(a)) < n
  <2>1. older(a) \in SUBSET S /\ a \notin older(a)
    BY <1>1
  <2>2. IsFiniteSet(older(a)) /\ Cardinality(older(a)) <= n /\ Cardinality(older(a)) # n
    BY <1>2, <2>1, FS_Subset
  <2> QED
    BY <1>2, <2>2, FS_CardinalityType
<1>4. ASSUME NEW a \in S, NEW b \in S, a < b
      PROVE  Cardinality(older(a)) < Cardinality(older(b))
  <2>1. a \in older(b) /\ a \notin older(a)
    BY <1>1, <1>4
  <2>2. older(a) \in SUBSET older(b)
    <3>1. ASSUME NEW x \in older(a) PROVE x \in older(b)
      <4>1. x \in S /\ x < a /\ x \in Int /\ a \in Int /\ b \in Int
        BY <1>1
      <4> QED
        BY <1>4, <4>1
    <3> QED
      BY <3>1
  <2>3. IsFiniteSet(older(b)) /\ Cardinality(older(b)) \in Nat /\ Cardinality(older(a)) \in Nat
    BY <1>3
  <2>4. older(a) # older(b)
    BY <2>1
  <2> HIDE DEF older
  <2>5. /\ Cardinality(older(a)) <= Cardinality(older(b))
        /\ Cardinality(older(a)) # Cardinality(older(b))
    BY <2>2, <2>3, <2>4, FS_Subset
  <2> QED
    BY <2>3, <2>5
<1>5. \A a, b \in S : a # b => Cardinality(older(a)) # Cardinality(older(b))
  <2>1. ASSUME NEW a \in S, NEW b \in S, a # b
        PROVE  Cardinality(older(a)) # Cardinality(older(b))
    <3>1. a \in Int /\ b \in Int
      BY <1>1
    <3>2. a < b \/ b < a
      BY <2>1, <3>1
    <3>3. Cardinality(older(a)) \in Nat /\ Cardinality(older(b)) \in Nat
      BY <1>3
    <3>4. \/ Cardinality(older(a)) < Cardinality(older(b))
          \/ Cardinality(older(b)) < Cardinality(older(a))
      BY <1>4, <3>2
    <3> HIDE DEF older
    <3> QED
      BY <3>3, <3>4
  <2> QED
    BY <2>1
<1> HIDE DEF older
<1>6. f \in Injection(S, 0..(n - 1))
  <2>1. \A a \in S : f[a] \in 0..(n - 1)
    BY <1>2, <1>3
  <2>2. f \in [S -> 0..(n - 1)]
    BY <2>1
  <2>3. \A a, b \in S : f[a] = f[b] => a = b
    BY <1>5
  <2> HIDE DEF f, n
  <2> QED
    BY <2>2, <2>3 DEF Injection, IsInjective
<1>7. IsFiniteSet(0..(n - 1)) /\ Cardinality(0..(n - 1)) = n
  <2>1. 0 \in Int /\ n - 1 \in Int /\ (IF 0 > n - 1 THEN 0 ELSE n - 1 - 0 + 1) = n
    BY <1>2
  <2> QED
    BY <2>1, FS_Interval
<1>8. f \in Surjection(S, 0..(n - 1))
  BY <1>6, <1>7, FS_Injection
<1>9. \A k \in 0..(n - 1) : \E a \in S : f[a] = k
  BY <1>8 DEF Surjection
<1> DEFINE T == Oldest(S)
           g == [a \in T |-> Cardinality(older(a))]
           last == RequiredApprovals - 1
<1>10. T = {a \in S : Cardinality(older(a)) < RequiredApprovals}
  BY DEF Oldest, older
<1>11. IsFiniteSet(0..last) /\ Cardinality(0..last) = RequiredApprovals
  <2>1. 0 \in Int /\ last \in Int /\ (IF 0 > last THEN 0 ELSE last - 0 + 1) = RequiredApprovals
    BY <1>1
  <2> QED
    BY <2>1, FS_Interval
<1>12. g \in [T -> 0..last] /\ \A a, b \in T : g[a] = g[b] => a = b
  <2>1. ASSUME NEW a \in T PROVE Cardinality(older(a)) \in 0..last
    <3>1. a \in S /\ Cardinality(older(a)) < RequiredApprovals
      BY <1>10
    <3>2. Cardinality(older(a)) \in Nat
      BY <1>3, <3>1
    <3> QED
      BY <1>1, <3>1, <3>2
  <2>2. T \subseteq S
    BY <1>10
  <2> HIDE DEF T
  <2> QED
    BY <1>5, <2>1, <2>2
<1>13. \A k \in 0..last : \E a \in T : g[a] = k
  <2>1. ASSUME NEW k \in 0..last PROVE \E a \in T : g[a] = k
    <3>1. k \in 0..(n - 1) /\ k < RequiredApprovals
      BY <1>1, <1>2
    <3>2. PICK a \in S : f[a] = k
      BY <1>9, <3>1
    <3>3. a \in T /\ Cardinality(older(a)) = k
      BY <1>10, <3>1, <3>2
    <3> QED
      BY <3>3
  <2> QED
    BY <2>1
<1> HIDE DEF T, g, last
<1>14. g \in Injection(T, 0..last) /\ g \in Surjection(T, 0..last)
  BY <1>12, <1>13 DEF Injection, IsInjective, Surjection
<1>15. Cardinality(T) = Cardinality(0..last)
  BY <1>11, <1>14, FS_Injection
<1> QED
  BY <1>11, <1>15 DEF T

(***************************************************************************)
(* Versions.                                                               *)
(***************************************************************************)
Numbered(V, n) ==
    /\ \A v \in V : v.number \in 1..Cardinality(V)
    /\ \A k \in 1..Cardinality(V) : \E v \in V : v.number = k
    /\ n = Cardinality(V)

VersionOf(c) ==
    /\ \A v \in version[c] :
          /\ operation[c][v.operation].status = "SUCCEEDED"
          /\ v.decision = operation[c][v.operation].decision
          /\ v.snapshot = operation[c][v.operation].snapshot
    /\ \A v, w \in version[c] : v.operation = w.operation => v = w
    /\ \A o \in Operation :
          operation[c][o].status = "SUCCEEDED" => \E v \in version[c] : v.operation = o
    /\ Numbered(version[c], selected[c])

PromotedOf(c) ==
    candidate[c].stage \in MutationStopStages =>
        \E v \in version[c] : v.number = selected[c] /\ v.snapshot = candidate[c].snapshot

\* What a made operation was approved with, for good.
EarnedOf(c) ==
    \A o \in Requested(c) :
        /\ Cardinality(operation[c][o].approvals) = RequiredApprovals
        /\ \A a \in operation[c][o].approvals :
              /\ approval[c][a].decision = operation[c][o].decision
              /\ approval[c][a].snapshot = operation[c][o].snapshot
              /\ approval[c][a].consumed

\* A success yields a version of its own.
LEMMA SuccessIsNew ==
    ASSUME TypeInv, NEW c \in Candidate, TokenOf(c), VersionOf(c), NEW o \in Operation,
           operation[c][o].status = "RUNNING"
    PROVE  VersionsOfToken(c, o) = {}
<1> SUFFICES ASSUME NEW v \in VersionsOfToken(c, o) PROVE FALSE
  OBVIOUS
<1>1. v \in version[c] /\ v.decision = operation[c][o].decision
  BY DEF VersionsOfToken
<1>2. v \in VersionRow /\ v.operation \in Operation
  BY <1>1 DEF TypeInv, TypeOK, VersionRow
<1>3. /\ operation[c][v.operation].status = "SUCCEEDED"
      /\ operation[c][v.operation].decision = operation[c][o].decision
  BY <1>1 DEF VersionOf
<1>4. v.operation \in Requested(c) /\ o \in Requested(c)
  BY <1>2, <1>3 DEF Requested
<1>5. v.operation = o
  BY <1>3, <1>4 DEF TokenOf
<1> QED
  BY <1>3, <1>5

\* A success adds the version after the last one; nothing else adds any.
LEMMA VersionsGrow ==
    ASSUME TypeInv, NEW c \in Candidate, TokenOf(c), VersionOf(c), Effect(c)
    PROVE  \/ ~Activates(c) /\ SameVersions(c)
           \/ /\ Activates(c)
              /\ \E o \in Operation :
                    /\ operation[c][o].status = "RUNNING"
                    /\ operation'[c][o].status = "SUCCEEDED" /\ SameOrder(c, o)
                    /\ \A i \in Operation \ {o} : operation'[c][i] = operation[c][i]
                    /\ candidate[c].status = "PROMOTION_PENDING"
                    /\ candidate[c].snapshot = operation[c][o].snapshot
                    /\ \E p \in Worker : worker[p] = Busy("PUBLISHED", c, o)
                    /\ version'[c] = version[c] \cup {NewVersion(c, o)}
                    /\ selected'[c] = Cardinality(version[c]) + 1
<1>1. CASE Activates(c)
  <2>1. PICK o \in Operation :
              /\ operation[c][o].status = "RUNNING" /\ operation'[c][o].status = "SUCCEEDED"
              /\ SameOrder(c, o)
              /\ \A i \in Operation \ {o} : operation'[c][i] = operation[c][i]
              /\ candidate[c].status = "PROMOTION_PENDING"
              /\ candidate[c].snapshot = operation[c][o].snapshot
              /\ \E p \in Worker : worker[p] = Busy("PUBLISHED", c, o)
              /\ \E v \in IF VersionsOfToken(c, o) # {} THEN VersionsOfToken(c, o)
                          ELSE {NewVersion(c, o)} :
                    version'[c] = version[c] \cup {v} /\ selected'[c] = v.number
    BY <1>1, ActivatesFacts
  <2>2. VersionsOfToken(c, o) = {}
    BY <2>1, SuccessIsNew
  <2>3. /\ version'[c] = version[c] \cup {NewVersion(c, o)}
        /\ selected'[c] = NewVersion(c, o).number
    BY <2>1, <2>2
  <2>4. NewVersion(c, o).number = Cardinality(version[c]) + 1
    BY DEF NewVersion
  <2> QED
    BY <1>1, <2>1, <2>3, <2>4
<1>2. CASE ~Activates(c)
  BY <1>2, RequestsFacts, RevivesFacts
     DEF Effect, Rests, Starts, Regates, Reviews, Requests, Revives, Stops
<1> QED
  BY <1>1, <1>2

LEMMA NumberedGrows ==
    ASSUME NEW V, IsFiniteSet(V), NEW n, Numbered(V, n), NEW w,
           w.number = Cardinality(V) + 1
    PROVE  Numbered(V \cup {w}, w.number)
<1>1. Cardinality(V) \in Nat
  BY FS_CardinalityType
<1>2. w \notin V
  BY <1>1 DEF Numbered
<1>3. Cardinality(V \cup {w}) = Cardinality(V) + 1
  BY <1>2, FS_AddElement
<1>4. \A v \in V \cup {w} : v.number \in 1..(Cardinality(V) + 1)
  BY <1>1 DEF Numbered
<1>5. \A k \in 1..(Cardinality(V) + 1) : \E v \in V \cup {w} : v.number = k
  <2>1. ASSUME NEW k \in 1..(Cardinality(V) + 1) PROVE \E v \in V \cup {w} : v.number = k
    <3>1. CASE k = Cardinality(V) + 1
      BY <3>1
    <3>2. CASE k # Cardinality(V) + 1
      <4>1. k \in 1..Cardinality(V)
        BY <1>1, <3>2
      <4> QED
        BY <4>1 DEF Numbered
    <3> QED
      BY <3>1, <3>2
  <2> QED
    BY <2>1
<1> QED
  BY <1>3, <1>4, <1>5 DEF Numbered

\* Of a succeeded operation only the deadline may still be written.
LEMMA SucceededStay ==
    ASSUME TypeInv, NEW c \in Candidate, Effect(c), NEW o \in Operation,
           operation[c][o].status = "SUCCEEDED"
    PROVE  /\ operation'[c][o] \in {operation[c][o], Renewed(operation[c][o])}
           /\ operation'[c][o].status = "SUCCEEDED" /\ SameOrder(c, o)
<1>0. UNCHANGED operation[c][o] =>
        /\ operation'[c][o] \in {operation[c][o], Renewed(operation[c][o])}
        /\ operation'[c][o].status = "SUCCEEDED" /\ SameOrder(c, o)
  BY DEF SameOrder, SameRequest
<1>1. CASE Rests(c)
  BY <1>1 DEF Rests, OperationsGoOn, SameStatus, Unfinished
<1>2. CASE Starts(c) \/ Regates(c) \/ Reviews(c)
  BY <1>0, <1>2 DEF Starts, Regates, Reviews
<1>3. CASE Requests(c)
  <2>1. PICK i \in Operation :
           /\ operation[c][i].status = "NONE"
           /\ \A j \in Operation \ {i} : operation'[c][j] = operation[c][j]
    BY <1>3, RequestsFacts DEF RequestMakes
  <2> QED
    BY <1>0, <2>1
<1>4. CASE Revives(c)
  <2>1. PICK i \in Operation :
           /\ operation[c][i].status = "FAILED"
           /\ \A j \in Operation \ {i} : operation'[c][j] = operation[c][j]
    BY <1>4, RevivesFacts
  <2> QED
    BY <1>0, <2>1
<1>5. CASE Stops(c)
  BY <1>0, <1>5 DEF Stops, Unfinished
<1>6. CASE Activates(c)
  <2>1. PICK i \in Operation :
           /\ operation[c][i].status = "RUNNING"
           /\ \A j \in Operation \ {i} : operation'[c][j] = operation[c][j]
    BY <1>6, ActivatesFacts
  <2> QED
    BY <1>0, <2>1
<1> QED
  BY <1>1, <1>2, <1>3, <1>4, <1>5, <1>6 DEF Effect

\* Only an activation makes an operation succeed.
LEMMA SuccessIsActivation ==
    ASSUME TypeInv, NEW c \in Candidate, Effect(c), ~Activates(c), NEW o \in Operation,
           operation'[c][o].status = "SUCCEEDED"
    PROVE  operation[c][o].status = "SUCCEEDED"
<1>1. CASE Rests(c)
  BY <1>1 DEF Rests, OperationsGoOn, SameStatus, Unfinished
<1>2. CASE Starts(c) \/ Regates(c) \/ Reviews(c)
  BY <1>2 DEF Starts, Regates, Reviews
<1>3. CASE Requests(c)
  <2>1. PICK i \in Operation : /\ operation'[c][i].status = "QUEUED"
                               /\ \A j \in Operation \ {i} : operation'[c][j] = operation[c][j]
    BY <1>3, RequestsFacts DEF RequestMakes
  <2> QED
    BY <2>1
<1>4. CASE Revives(c)
  <2>1. PICK i \in Operation : /\ operation'[c][i].status = "QUEUED"
                               /\ \A j \in Operation \ {i} : operation'[c][j] = operation[c][j]
    BY <1>4, RevivesFacts
  <2> QED
    BY <2>1
<1>5. CASE Stops(c)
  BY <1>5 DEF Stops, Unfinished
<1> QED
  BY <1>1, <1>2, <1>3, <1>4, <1>5 DEF Effect

LEMMA VersionKeeps ==
    ASSUME TypeInv, TypeInv', NEW c \in Candidate, TokenOf(c), VersionOf(c), Effect(c)
    PROVE  VersionOf(c)'
<1>0. \A v \in version[c] : v \in VersionRow /\ v.operation \in Operation
  BY DEF TypeInv, TypeOK, VersionRow
<1>1. CASE ~Activates(c)
  <2>1. UNCHANGED << version[c], selected[c] >>
    BY <1>1, VersionsGrow DEF SameVersions
  <2>2. \A v \in version[c] :
           /\ operation'[c][v.operation].status = "SUCCEEDED"
           /\ operation'[c][v.operation].decision = operation[c][v.operation].decision
           /\ operation'[c][v.operation].snapshot = operation[c][v.operation].snapshot
    BY <1>0, SucceededStay DEF VersionOf, SameOrder, SameRequest
  <2>3. \A o \in Operation :
           operation'[c][o].status = "SUCCEEDED" => operation[c][o].status = "SUCCEEDED"
    BY <1>1, SuccessIsActivation
  <2>4. Numbered(version'[c], selected'[c])
    BY <2>1 DEF VersionOf
  <2> QED
    BY <2>1, <2>2, <2>3, <2>4 DEF VersionOf
<1>2. CASE Activates(c)
  <2>1. PICK o \in Operation :
            /\ operation[c][o].status = "RUNNING"
            /\ operation'[c][o].status = "SUCCEEDED" /\ SameOrder(c, o)
            /\ \A i \in Operation \ {o} : operation'[c][i] = operation[c][i]
            /\ version'[c] = version[c] \cup {NewVersion(c, o)}
            /\ selected'[c] = Cardinality(version[c]) + 1
    BY <1>2, VersionsGrow
  <2> DEFINE w == NewVersion(c, o)
  <2>2. /\ w.number = Cardinality(version[c]) + 1 /\ w.operation = o
        /\ w.decision = operation'[c][o].decision /\ w.snapshot = operation'[c][o].snapshot
    BY <2>1 DEF NewVersion, SameOrder, SameRequest
  <2>3. version'[c] = version[c] \cup {w} /\ selected'[c] = w.number
    BY <2>1, <2>2
  <2> HIDE DEF w
  <2>4. \A v \in version[c] : v.operation # o
    BY <2>1 DEF VersionOf
  <2>5. \A v \in version[c] : operation'[c][v.operation] = operation[c][v.operation]
    BY <1>0, <2>1, <2>4
  <2>6. \A v \in version'[c] :
          /\ operation'[c][v.operation].status = "SUCCEEDED"
          /\ v.decision = operation'[c][v.operation].decision
          /\ v.snapshot = operation'[c][v.operation].snapshot
    BY <2>1, <2>2, <2>3, <2>5 DEF VersionOf
  <2>7. \A v, x \in version'[c] : v.operation = x.operation => v = x
    BY <2>2, <2>3, <2>4 DEF VersionOf
  <2>8. \A i \in Operation :
          operation'[c][i].status = "SUCCEEDED" => \E v \in version'[c] : v.operation = i
    BY <2>1, <2>2, <2>3 DEF VersionOf
  <2>9. Numbered(version'[c], selected'[c])
    <3>1. IsFiniteSet(version[c]) /\ Numbered(version[c], selected[c])
      BY DEF TypeInv, FiniteVersions, VersionOf
    <3>2. Numbered(version[c] \cup {w}, w.number)
      BY <2>2, <3>1, NumberedGrows
    <3> QED
      BY <2>3, <3>2
  <2> QED
    BY <2>6, <2>7, <2>8, <2>9 DEF VersionOf
<1> QED
  BY <1>1, <1>2

LEMMA PromotedKeeps ==
    ASSUME TypeInv, NEW c \in Candidate, TokenOf(c), VersionOf(c), PromotedOf(c), Effect(c)
    PROVE  PromotedOf(c)'
<1>0. candidate[c] \in CandidateRow
  BY DEF TypeInv, TypeOK
<1>1. CASE Rests(c)
  BY <1>1 DEF Rests, SameVersions, PromotedOf
<1>2. CASE Starts(c)
  <2>1. candidate'[c].stage = "EVALUATING"
    BY <1>0, <1>2 DEF Starts, Moved, CandidateRow
  <2> QED
    BY <2>1 DEF PromotedOf, MutationStopStages
<1>3. CASE Regates(c) \/ Requests(c) \/ Revives(c)
  <2>1. candidate'[c].stage \in {"EVALUATING", "ELIGIBLE"}
    BY <1>3, RegatesFacts, RequestsFacts, RevivesFacts
  <2> QED
    BY <2>1 DEF PromotedOf, MutationStopStages
<1>4. CASE Reviews(c)
  <2>1. candidate'[c].stage = candidate[c].stage /\ candidate'[c].snapshot = candidate[c].snapshot
    BY <1>0, <1>4 DEF Reviews, CandidateRow
  <2> QED
    BY <1>4, <2>1 DEF Reviews, SameVersions, PromotedOf
<1>5. CASE Stops(c)
  BY <1>5 DEF Stops, SameVersions, PromotedOf, MutationStopStages
<1>6. CASE Activates(c)
  <2>1. PICK o \in Operation :
            /\ candidate[c].snapshot = operation[c][o].snapshot
            /\ version'[c] = version[c] \cup {NewVersion(c, o)}
            /\ selected'[c] = Cardinality(version[c]) + 1
    BY <1>6, VersionsGrow
  <2>2. /\ NewVersion(c, o).number = Cardinality(version[c]) + 1
        /\ NewVersion(c, o).snapshot = operation[c][o].snapshot
    BY DEF NewVersion
  <2>3. candidate'[c].snapshot = candidate[c].snapshot
    BY <1>6 DEF Activates
  <2> QED
    BY <2>1, <2>2, <2>3 DEF PromotedOf
<1> QED
  BY <1>1, <1>2, <1>3, <1>4, <1>5, <1>6 DEF Effect

LEMMA EarnedKeeps ==
    ASSUME TypeInv, NEW c \in Candidate, ApprovalOf(c), EarnedOf(c), Effect(c)
    PROVE  EarnedOf(c)'
<1>0. \A o \in Operation : operation[c][o].approvals \in SUBSET Approval
  BY DEF TypeInv, TypeOK, OperationRow
<1>1. \A a \in Approval : approval[c][a].consumed => approval'[c][a] = approval[c][a]
  BY ApprovalKeeps
<1>2. CASE ~Requests(c)
  <2>1. \A o \in Requested(c) :
          /\ operation'[c][o].approvals = operation[c][o].approvals
          /\ operation'[c][o].decision = operation[c][o].decision
          /\ operation'[c][o].snapshot = operation[c][o].snapshot
    BY <1>2, SpentBefore, OrdersStay DEF Requested
  <2>2. Requested(c)' = Requested(c)
    BY <1>2, RequestedStays
  <2>3. \A o \in Requested(c) : \A a \in operation[c][o].approvals :
           approval[c][a].consumed /\ approval'[c][a] = approval[c][a]
    BY <1>0, <1>1 DEF EarnedOf, Requested
  <2> QED
    BY <2>1, <2>2, <2>3 DEF EarnedOf
<1>3. CASE Requests(c)
  <2>1. PICK o \in Operation, used \in SUBSET Approval : RequestMakes(c, o, used)
    BY <1>3, RequestsFacts
  <2>2. /\ Requested(c)' = Requested(c) \cup {o} /\ o \notin Requested(c)
        /\ \A i \in Requested(c) : operation'[c][i] = operation[c][i]
        /\ operation'[c][o].decision = decision'[c].id
        /\ operation'[c][o].snapshot = candidate'[c].snapshot
        /\ operation'[c][o].approvals = used
    BY <2>1 DEF RequestMakes, Requested
  <2>3. Cardinality(used) = RequiredApprovals
    BY <2>1, OldestCount DEF RequestMakes
  <2>4. \A a \in used : /\ approval'[c][a].decision = decision'[c].id
                        /\ approval'[c][a].snapshot = candidate'[c].snapshot
                        /\ approval'[c][a].consumed
    <3>1. ASSUME NEW a \in used
          PROVE  /\ approval'[c][a].decision = decision'[c].id
                 /\ approval'[c][a].snapshot = candidate'[c].snapshot
                 /\ approval'[c][a].consumed
      <4>1. approval[c][a] \in ApprovalRow
        BY DEF TypeInv, TypeOK
      <4>2. /\ approval[c][a].decision = decision'[c].id
            /\ approval[c][a].snapshot = candidate'[c].snapshot
            /\ approval'[c][a] = [approval[c][a] EXCEPT !.consumed = TRUE]
        BY <2>1 DEF RequestMakes
      <4> QED
        BY <4>1, <4>2 DEF ApprovalRow
    <3> QED
      BY <3>1
  <2>5. \A i \in Requested(c) : \A a \in operation[c][i].approvals :
           approval[c][a].consumed /\ approval'[c][a] = approval[c][a]
    BY <1>0, <1>1 DEF EarnedOf, Requested
  <2>6. ASSUME NEW i \in Requested(c)'
        PROVE  /\ Cardinality(operation'[c][i].approvals) = RequiredApprovals
               /\ \A a \in operation'[c][i].approvals :
                     /\ approval'[c][a].decision = operation'[c][i].decision
                     /\ approval'[c][a].snapshot = operation'[c][i].snapshot
                     /\ approval'[c][a].consumed
    <3>1. CASE i = o
      BY <2>2, <2>3, <2>4, <3>1
    <3>2. CASE i \in Requested(c)
      BY <2>2, <2>5, <3>2 DEF EarnedOf
    <3> QED
      BY <2>2, <3>1, <3>2
  <2> QED
    BY <2>6 DEF EarnedOf
<1> QED
  BY <1>2, <1>3

(***************************************************************************)
(* The order of requests.  Operations are numbered as they are requested,  *)
(* and one that is not resolved is the newest: nothing is requested over   *)
(* it.                                                                     *)
(***************************************************************************)
OrderOf(c) ==
    /\ \A o \in Requested(c) : \A i \in Operation : i < o => i \in Requested(c)
    /\ \A o \in Unresolved(c) : \A i \in Requested(c) : i <= o

LEMMA UnresolvedStays ==
    ASSUME TypeInv, NEW c \in Candidate, Effect(c), ~Requests(c)
    PROVE  Unresolved(c)' \subseteq Unresolved(c)
<1>1. CASE Rests(c)
  BY <1>1 DEF Rests, OperationsGoOn, SameStatus, Unresolved, Unfinished
<1>2. CASE Starts(c) \/ Regates(c) \/ Reviews(c)
  BY <1>2 DEF Starts, Regates, Reviews, Unresolved
<1>3. CASE Revives(c)
  <2>1. PICK o \in Operation :
           /\ operation[c][o].status = "FAILED" /\ operation'[c][o].status = "QUEUED"
           /\ \A i \in Operation \ {o} : operation'[c][i] = operation[c][i]
    BY <1>3, RevivesFacts
  <2> QED
    BY <2>1 DEF Unresolved
<1>4. CASE Stops(c)
  BY <1>4 DEF Stops, Unresolved, Unfinished
<1>5. CASE Activates(c)
  <2>1. PICK o \in Operation :
           /\ operation[c][o].status = "RUNNING" /\ operation'[c][o].status = "SUCCEEDED"
           /\ \A i \in Operation \ {o} : operation'[c][i] = operation[c][i]
    BY <1>5, ActivatesFacts
  <2> QED
    BY <2>1 DEF Unresolved
<1> QED
  BY <1>1, <1>2, <1>3, <1>4, <1>5 DEF Effect

LEMMA OrderKeeps ==
    ASSUME TypeInv, NEW c \in Candidate, InvOf(c), OrderOf(c), Effect(c)
    PROVE  OrderOf(c)'
<1>1. CASE ~Requests(c)
  BY <1>1, RequestedStays, UnresolvedStays DEF OrderOf
<1>2. CASE Requests(c)
  <2>1. PICK o \in Operation, used \in SUBSET Approval : RequestMakes(c, o, used)
    BY <1>2, RequestsFacts
  <2>2. /\ o \notin Requested(c) /\ \A i \in Operation : i < o => i \in Requested(c)
        /\ Requested(c)' = Requested(c) \cup {o}
    BY <2>1 DEF RequestMakes, Requested
  <2>3. Unresolved(c) = {}
    <3>1. \A i \in Operation : operation[c][i].status \notin Unfinished
      BY <1>2, RequestsFacts
    <3>2. \A b \in blockers[c] : b.code \notin RegistryBlockerCodes
      BY <1>2, RequestsFacts, CodesAreApart DEF CodesApart
    <3>3. RegistryBlockers(blockers[c]) = {}
      BY <3>2 DEF RegistryBlockers
    <3>4. \A i \in Operation : operation[c][i].status # "FAILED"
      BY <3>3 DEF InvOf
    <3> QED
      BY <3>1, <3>4 DEF Unresolved, Unfinished
  <2>4. Unresolved(c)' \subseteq {o}
    BY <2>1, <2>3 DEF RequestMakes, Unresolved
  <2>5. \A i \in Requested(c) : i <= o
    <3>1. ASSUME NEW i \in Requested(c), ~(i <= o) PROVE FALSE
      <4>1. i \in Operation /\ i \in Int /\ o \in Int
        BY DEF Requested, Operation
      <4>2. o < i
        BY <3>1, <4>1
      <4>3. o \in Requested(c)
        BY <4>2, <4>1 DEF OrderOf
      <4> QED
        BY <2>2, <4>3
    <3> QED
      BY <3>1
  <2>6. \A i \in Requested(c) \cup {o} : i <= o
    BY <2>5 DEF Operation
  <2> QED
    BY <2>2, <2>4, <2>6 DEF OrderOf
<1> QED
  BY <1>1, <1>2

(***************************************************************************)
(* What a worker publishes is an operation that was made, and what it has  *)
(* published the registry holds.                                           *)
(***************************************************************************)
HeldTokens ==
    \A p \in Worker, c \in Candidate, o \in Operation :
        /\ worker[p] \in {Busy("PUBLISHING", c, o), Busy("PUBLISHED", c, o)} => o \in Requested(c)
        /\ worker[p] = Busy("PUBLISHED", c, o) => Token(c, o) \in published

VersionsPublished ==
    \A c \in Candidate : \A v \in version[c] : << c, v.decision >> \in published

\* How a worker may come to what it is doing.
WorkerStep(p) ==
    \/ worker'[p] = worker[p]
    \/ worker'[p].task \notin {"PUBLISHING", "PUBLISHED"}
    \/ \E c \in Candidate, o \in Operation :
          \/ worker'[p] = Busy("PUBLISHING", c, o) /\ o \in Requested(c)
          \/ /\ worker[p] = Busy("PUBLISHING", c, o)
             /\ worker'[p] = Busy("PUBLISHED", c, o)
             /\ UNCHANGED operation /\ Token(c, o) \in published'

LEMMA WorkerSteps ==
    ASSUME TypeInv, [Next]_vars
    PROVE  published \subseteq published' /\ \A q \in Worker : WorkerStep(q)
<1> DEFINE Goal == published \subseteq published' /\ \A q \in Worker : WorkerStep(q)
<1>0. Idle.task \notin {"PUBLISHING", "PUBLISHED"}
  BY DEF Idle
<1>1. ASSUME UNCHANGED << published, worker >> PROVE Goal
  BY <1>1 DEF WorkerStep
<1>2. ASSUME NEW p \in Worker, NEW w,
             UNCHANGED published, worker' = [worker EXCEPT ![p] = w],
             \/ w.task \notin {"PUBLISHING", "PUBLISHED"}
             \/ \E c \in Candidate, o \in Operation :
                   w = Busy("PUBLISHING", c, o) /\ o \in Requested(c)
      PROVE  Goal
  <2>1. worker'[p] = w /\ \A q \in Worker \ {p} : worker'[q] = worker[q]
    BY <1>2 DEF TypeInv, TypeOK
  <2> QED
    BY <1>2, <2>1 DEF WorkerStep
<1>3. ASSUME NEW c \in Candidate, Command(c) PROVE Goal
  BY <1>1, <1>3 DEF Command, Evaluate, PromotionCheck, CreateApproval, Promote,
     RevokeApproval, RetryOperation
<1>4. ASSUME NEW p \in Worker, NEW c \in Candidate, NEW r \in Run, ClaimRun(p, c, r)
      PROVE  Goal
  <2>1. Busy("EVALUATING", c, r).task \notin {"PUBLISHING", "PUBLISHED"}
    BY DEF Busy
  <2>2. worker' = [worker EXCEPT ![p] = Busy("EVALUATING", c, r)] /\ UNCHANGED published
    BY <1>4 DEF ClaimRun
  <2> QED
    BY <1>2, <2>1, <2>2
<1>5. ASSUME NEW p \in Worker, NEW c \in Candidate, NEW o \in Operation, ClaimOperation(p, c, o)
      PROVE  Goal
  <2>1. o \in Requested(c)
    BY <1>5 DEF ClaimOperation, Claimable, Requested, Unfinished
  <2>2. worker' = [worker EXCEPT ![p] = Busy("PUBLISHING", c, o)] /\ UNCHANGED published
    BY <1>5 DEF ClaimOperation
  <2> QED
    BY <1>2, <2>1, <2>2
<1>6. ASSUME NEW p \in Worker, NEW c \in Candidate, NEW o \in Operation, Publish(p, c, o)
      PROVE  Goal
  <2>1. /\ worker[p] = Busy("PUBLISHING", c, o) /\ UNCHANGED operation
        /\ published' = published \cup {Token(c, o)}
        /\ worker'[p] = Busy("PUBLISHED", c, o)
        /\ \A q \in Worker \ {p} : worker'[q] = worker[q]
    BY <1>6 DEF Publish, TypeInv, TypeOK
  <2> QED
    BY <2>1 DEF WorkerStep
<1>7. ASSUME NEW p \in Worker, worker' = [worker EXCEPT ![p] = Idle], UNCHANGED published
      PROVE  Goal
  BY <1>0, <1>2, <1>7
<1>8. ASSUME NEW p \in Worker, AttemptStep(p) PROVE Goal
  BY <1>6, <1>7, <1>8 DEF AttemptStep, EvaluationStep, EvaluationAttemptFails,
     EvaluationAnswerRejected, EvaluationCompletes, EvaluationAnswerIgnored, ActivationStep,
     ActivationSucceeds, ActivationRejected, ActivationFails, ActivationAnswerIgnored
<1>9. ASSUME NEW p \in Worker, DeadLetter(p) PROVE Goal
  BY <1>1, <1>9 DEF DeadLetter
<1>10. CASE Environment
  <2>1. ASSUME NEW p \in Worker, NEW c \in Candidate, NEW o \in Operation,
               PublicationAnswerLost(p, c, o)
        PROVE  Goal
    BY <2>1 DEF PublicationAnswerLost, WorkerStep
  <2>2. CASE Heartbeat \/ \E c \in Candidate : LeaseExpires(c)
    BY <1>1, <2>2, LeaseSteps
  <2> QED
    BY <1>7, <1>10, <2>1, <2>2 DEF Environment, WorkerCrash
<1>11. CASE UNCHANGED vars
  BY <1>1, <1>11 DEF vars
<1> QED
  BY <1>3, <1>4, <1>5, <1>8, <1>9, <1>10, <1>11 DEF Next, Claim

\* An operation that was made stays made, for the same decision.
LEMMA RequestedKept ==
    ASSUME TypeInv, NEW c \in Candidate, Effect(c), NEW o \in Requested(c)
    PROVE  o \in Requested(c)' /\ operation'[c][o].decision = operation[c][o].decision
<1>1. CASE Requests(c)
  <2>1. PICK i \in Operation, used \in SUBSET Approval : RequestMakes(c, i, used)
    BY <1>1, RequestsFacts
  <2> QED
    BY <2>1 DEF RequestMakes, Requested
<1>2. CASE ~Requests(c)
  BY <1>2, RequestedStays, OrdersStay
<1> QED
  BY <1>1, <1>2

LEMMA HeldTokensNext ==
    ASSUME TypeInv, OwnedWhileRunning, HeldTokens, [Next]_vars
    PROVE  HeldTokens'
<1> SUFFICES ASSUME NEW p \in Worker, NEW c \in Candidate, NEW o \in Operation
             PROVE  /\ worker'[p] \in {Busy("PUBLISHING", c, o), Busy("PUBLISHED", c, o)}
                          => o \in Requested(c)'
                    /\ worker'[p] = Busy("PUBLISHED", c, o) => Token(c, o)' \in published'
  BY DEF HeldTokens
<1>1. Effect(c) /\ WorkerStep(p) /\ published \subseteq published'
  BY Effects, WorkerSteps
<1>2. o \in Requested(c) => o \in Requested(c)' /\ Token(c, o)' = Token(c, o)
  BY <1>1, RequestedKept DEF Token
<1>3. CASE worker'[p] = worker[p]
  BY <1>1, <1>2, <1>3 DEF HeldTokens
<1>4. CASE worker'[p].task \notin {"PUBLISHING", "PUBLISHED"}
  BY <1>4 DEF Busy
<1>5. ASSUME NEW d \in Candidate, NEW i \in Operation,
             worker'[p] = Busy("PUBLISHING", d, i), i \in Requested(d)
      PROVE  /\ worker'[p] \in {Busy("PUBLISHING", c, o), Busy("PUBLISHED", c, o)}
                   => o \in Requested(c)'
             /\ worker'[p] # Busy("PUBLISHED", c, o)
  <2>1. worker'[p] # Busy("PUBLISHED", c, o)
    BY <1>5 DEF Busy
  <2>2. worker'[p] = Busy("PUBLISHING", c, o) => d = c /\ i = o
    BY <1>5 DEF Busy
  <2> QED
    BY <1>2, <1>5, <2>1, <2>2
<1>6. ASSUME NEW d \in Candidate, NEW i \in Operation,
             worker[p] = Busy("PUBLISHING", d, i), worker'[p] = Busy("PUBLISHED", d, i),
             UNCHANGED operation, Token(d, i) \in published'
      PROVE  /\ worker'[p] \in {Busy("PUBLISHING", c, o), Busy("PUBLISHED", c, o)}
                   => o \in Requested(c)'
             /\ worker'[p] = Busy("PUBLISHED", c, o) => Token(c, o)' \in published'
  <2>1. worker'[p] # Busy("PUBLISHING", c, o)
    BY <1>6 DEF Busy
  <2>2. worker'[p] = Busy("PUBLISHED", c, o) => d = c /\ i = o
    BY <1>6 DEF Busy
  <2>3. i \in Requested(d)
    BY <1>6 DEF HeldTokens
  <2>4. Token(d, i)' = Token(d, i)
    BY <1>6 DEF Token
  <2> QED
    BY <1>2, <1>6, <2>1, <2>2, <2>3, <2>4
<1> QED
  BY <1>1, <1>3, <1>4, <1>5, <1>6 DEF WorkerStep

LEMMA VersionsPublishedNext ==
    ASSUME TypeInv, OwnedWhileRunning, HeldTokens, VersionsPublished,
           \A c \in Candidate : TokenOf(c) /\ VersionOf(c), [Next]_vars
    PROVE  VersionsPublished'
<1> SUFFICES ASSUME NEW c \in Candidate, NEW v \in version'[c]
             PROVE  << c, v.decision >> \in published'
  BY DEF VersionsPublished
<1>1. Effect(c) /\ published \subseteq published'
  BY Effects, WorkerSteps
<1>2. CASE v \in version[c]
  BY <1>1, <1>2 DEF VersionsPublished
<1>3. CASE v \notin version[c]
  <2>1. PICK o \in Operation :
           /\ \E p \in Worker : worker[p] = Busy("PUBLISHED", c, o)
           /\ version'[c] = version[c] \cup {NewVersion(c, o)}
    BY <1>1, <1>3, VersionsGrow DEF SameVersions
  <2>2. v = NewVersion(c, o)
    BY <1>3, <2>1
  <2>3. v.decision = operation[c][o].decision
    BY <2>2 DEF NewVersion
  <2>4. Token(c, o) \in published
    BY <2>1 DEF HeldTokens
  <2> QED
    BY <1>1, <2>3, <2>4 DEF Token
<1> QED
  BY <1>2, <1>3

(***************************************************************************)
(* The inductive invariant.                                                *)
(***************************************************************************)
CandidateInv(c) ==
    /\ GateOf(c) /\ DecidedOf(c) /\ EligibleOf(c) /\ PendingOf(c)
    /\ FixtureOf(c) /\ BlockedOf(c) /\ ApprovalOf(c)
    /\ TokenOf(c) /\ VersionOf(c) /\ PromotedOf(c) /\ EarnedOf(c) /\ OrderOf(c)

DecisionsInv ==
    /\ TypeInv /\ OwnedWhileRunning /\ OneUnresolvedInv
    /\ HeldTokens /\ VersionsPublished
    /\ \A c \in Candidate : CandidateInv(c)

LEMMA DecisionsInit == Init => DecisionsInv
<1> SUFFICES ASSUME Init PROVE DecisionsInv
  OBVIOUS
<1>1. TypeInv /\ OwnedWhileRunning /\ OneUnresolvedInv
  BY TypeInit, OwnedInit, OneUnresolvedInit
<1>2. HeldTokens /\ VersionsPublished
  <2>1. \A p \in Worker : worker[p].task = "IDLE"
    BY DEF Init, Idle
  <2>2. \A task, c, o : Busy(task, c, o).task = task
    BY DEF Busy
  <2>3. \A c \in Candidate : version[c] = {}
    BY DEF Init
  <2> QED
    BY <2>1, <2>2, <2>3 DEF HeldTokens, VersionsPublished
<1>3. ASSUME NEW c \in Candidate PROVE CandidateInv(c)
  <2>1. PICK seed \in Seeds \cup {"AUTONOMOUS"} :
           /\ candidate[c] = SeedRow(seed)
           /\ gate[c] = CASE seed = "ELIGIBLE" -> "ELIGIBLE"
                          [] seed = "LATENCY" -> "FAILED"
                          [] OTHER -> "INCOMPLETE"
           /\ blockers[c] = SeedBlockers(seed)
           /\ decision[c] = IF seed = "ELIGIBLE" THEN [id |-> 1, snapshot |-> {}]
                            ELSE NoDecision
    BY DEF Init
  <2>2. /\ \A o \in Operation : operation[c][o] = NoOperation
        /\ \A a \in Approval : approval[c][a] = NoApproval
        /\ version[c] = {} /\ selected[c] = 0
    BY DEF Init
  <2>3. /\ \A o \in Operation : operation[c][o].status = "NONE" /\ operation[c][o].approvals = {}
        /\ \A a \in Approval : approval[c][a].consumed = FALSE /\ approval[c][a].revoked = FALSE
    BY <2>2 DEF NoOperation, NoApproval
  <2>4. Evidence(c) = {}
    BY DEF Init, Evidence, Queued, Absent
  <2>5. Requested(c) = {}
    BY <2>3 DEF Requested
  <2>6. /\ candidate[c].stage = IF seed = "CANDIDATE" THEN "CANDIDATE"
                                ELSE IF seed = "ELIGIBLE" THEN "ELIGIBLE" ELSE "EVALUATING"
        /\ candidate[c].status = IF seed \in {"SAMPLES", "LATENCY"} THEN "BLOCKED" ELSE "ACTIVE"
        /\ candidate[c].revision = 1 /\ candidate[c].snapshot = {}
    BY <2>1 DEF SeedRow
  <2>7. gate[c] = "ELIGIBLE" <=> seed = "ELIGIBLE"
    BY <2>1
  <2>8. decision[c].id = (IF seed = "ELIGIBLE" THEN 1 ELSE 0) /\ decision[c].snapshot = {}
    BY <2>1 DEF NoDecision
  <2>9. blockers[c] = {} <=> seed \notin {"SAMPLES", "LATENCY"}
    BY <2>1 DEF SeedBlockers
  <2>10. GateOf(c) /\ DecidedOf(c) /\ PendingOf(c) /\ FixtureOf(c) /\ BlockedOf(c)
    BY <2>4, <2>5, <2>6, <2>7, <2>8, <2>9 DEF GateOf, DecidedOf, PendingOf, FixtureOf, BlockedOf
  <2>11. EligibleOf(c)
    BY <2>4, <2>6, <2>7, <2>8, <2>9 DEF EligibleOf, HasCurrentDecision
  <2>12. ApprovalOf(c) /\ EarnedOf(c)
    BY <2>3, <2>5 DEF ApprovalOf, EarnedOf, Spenders
  <2>13. TokenOf(c)
    BY <2>3, <2>5, <2>6, <2>8 DEF TokenOf
  <2>14. VersionOf(c) /\ PromotedOf(c)
    <3>1. Cardinality({}) = 0
      BY FS_EmptySet
    <3> QED
      BY <2>2, <2>3, <2>6, <3>1 DEF VersionOf, Numbered, PromotedOf, MutationStopStages
  <2>15. OrderOf(c)
    BY <2>3, <2>5 DEF OrderOf, Unresolved
  <2> QED
    BY <2>10, <2>11, <2>12, <2>13, <2>14, <2>15 DEF CandidateInv
<1> QED
  BY <1>1, <1>2, <1>3 DEF DecisionsInv

LEMMA DecisionsNext == DecisionsInv /\ [Next]_vars => DecisionsInv'
<1> SUFFICES ASSUME DecisionsInv, [Next]_vars PROVE DecisionsInv'
  OBVIOUS
<1>1. TypeInv /\ OwnedWhileRunning /\ OneUnresolvedInv /\ TypeInv'
  BY TypeNext DEF DecisionsInv
<1>2. OwnedWhileRunning' /\ OneUnresolvedInv'
  BY <1>1, OwnedNext, OneUnresolvedNext
<1>3. HeldTokens' /\ VersionsPublished'
  BY <1>1, HeldTokensNext, VersionsPublishedNext DEF DecisionsInv, CandidateInv
<1>4. ASSUME NEW c \in Candidate PROVE CandidateInv(c)'
  <2>1. CandidateInv(c) /\ Effect(c) /\ InvOf(c)
    BY <1>1, Effects, InvOfAll DEF DecisionsInv
  <2>2. GateOf(c)' /\ DecidedOf(c)' /\ EligibleOf(c)' /\ PendingOf(c)'
    BY <1>1, <2>1, GateKeeps, DecidedKeeps, EligibleKeeps, PendingKeeps DEF CandidateInv
  <2>3. FixtureOf(c)' /\ BlockedOf(c)' /\ ApprovalOf(c)'
    BY <1>1, <2>1, FixtureKeeps, BlockedKeeps, ApprovalKeeps DEF CandidateInv
  <2>4. TokenOf(c)' /\ VersionOf(c)' /\ PromotedOf(c)' /\ EarnedOf(c)' /\ OrderOf(c)'
    BY <1>1, <2>1, TokenKeeps, VersionKeeps, PromotedKeeps, EarnedKeeps, OrderKeeps
       DEF CandidateInv
  <2> QED
    BY <2>2, <2>3, <2>4 DEF CandidateInv
<1> QED
  BY <1>1, <1>2, <1>3, <1>4 DEF DecisionsInv

LEMMA DecisionsHold == Spec => []DecisionsInv
BY DecisionsInit, DecisionsNext, PTL DEF Spec

(***************************************************************************)
(* The theorems.                                                           *)
(***************************************************************************)
\* A candidate shown ELIGIBLE and ACTIVE has passing evidence, a decision about
\* it and no blocker.  Approvals, and an operation still unfinished after a
\* stale run failed under it, are what queue_promotion looks at besides.
THEOREM EligibleStandsOnEvidence == Spec => []EligibleRestsOnEvidence
<1>1. DecisionsInv => EligibleRestsOnEvidence
  BY DEF DecisionsInv, CandidateInv, EligibleOf, EligibleRestsOnEvidence
<1> QED
  BY <1>1, DecisionsHold, PTL

\* A pending candidate is in stage ELIGIBLE, and has an unfinished operation of
\* its snapshot, which is that of its evidence; the evidence still passes, and
\* the latest decision is about it.
THEOREM PendingStaysBacked == Spec => []PendingIsBacked
<1>1. DecisionsInv => PendingIsBacked
  BY DEF DecisionsInv, CandidateInv, PendingOf, PendingIsBacked
<1> QED
  BY <1>1, DecisionsHold, PTL

LEMMA AvailableAreUsable ==
    ASSUME NEW c \in Candidate, SnapshotCurrent(candidate[c], c)
    PROVE  AvailableApprovals(candidate[c], c) = Usable(approval[c], candidate[c], decision[c])
BY DEF SnapshotCurrent, AvailableApprovals, Usable

LEMMA ProjectionAgreesOf ==
    ASSUME TypeInv, NEW c \in Candidate, GateOf(c)
    PROVE  ProjectedEligible(candidate[c], c) <=>
              MayQueue(candidate[c], operation[c], blockers[c], decision[c], Evidence(c),
                       Usable(approval[c], candidate[c], decision[c]))
<1> DEFINE usable == Usable(approval[c], candidate[c], decision[c])
           rest == /\ blockers[c] = {}
                   /\ candidate[c].stage \in {"ELIGIBLE", "SHADOW"}
                   /\ candidate[c].status # "PROMOTION_PENDING"
                   /\ \A o \in Operation : operation[c][o].status \notin Unfinished
<1>1. Cardinality(usable) \in Nat /\ RequiredApprovals \in Nat
  <2>1. IsFiniteSet(1..MaxApprovals)
    BY BoundAssumption, FS_Interval
  <2>2. usable \in SUBSET (1..MaxApprovals)
    BY DEF Usable, Approval
  <2>3. IsFiniteSet(usable)
    BY <2>1, <2>2, FS_Subset
  <2> QED
    BY <2>3, BoundAssumption, FS_CardinalityType
<1>2. SnapshotCurrent(candidate[c], c) <=>
         HasCurrentDecision(candidate[c], decision[c]) /\ candidate[c].snapshot = Evidence(c)
  BY DEF SnapshotCurrent, HasCurrentDecision
<1>3. HasCurrentDecision(candidate[c], decision[c]) /\ rest => gate[c] = "ELIGIBLE"
  BY DEF HasCurrentDecision, GateOf
<1>4. SnapshotCurrent(candidate[c], c) =>
         (Cardinality(AvailableApprovals(candidate[c], c)) >= RequiredApprovals
             <=> Cardinality(usable) >= RequiredApprovals)
  BY AvailableAreUsable
<1>5. RequiredApprovals = 0 => Cardinality(usable) >= RequiredApprovals
  BY <1>1
<1>6. ProjectedEligible(candidate[c], c) <=>
         /\ gate[c] = "ELIGIBLE" /\ SnapshotCurrent(candidate[c], c) /\ rest
         /\ \/ RequiredApprovals = 0
            \/ Cardinality(AvailableApprovals(candidate[c], c)) >= RequiredApprovals
  BY DEF ProjectedEligible
<1>7. MayQueue(candidate[c], operation[c], blockers[c], decision[c], Evidence(c), usable) <=>
         /\ HasCurrentDecision(candidate[c], decision[c]) /\ candidate[c].snapshot = Evidence(c)
         /\ rest /\ Cardinality(usable) >= RequiredApprovals
  BY DEF MayQueue
<1> HIDE DEF usable, rest
<1>8. ProjectedEligible(candidate[c], c) <=>
         MayQueue(candidate[c], operation[c], blockers[c], decision[c], Evidence(c), usable)
  BY <1>2, <1>3, <1>4, <1>5, <1>6, <1>7
<1> QED
  BY <1>8 DEF usable

\* The page offers a promotion exactly when the command would accept it: the
\* readiness the page computes again and the decision the command relies on
\* never part, because evidence that fails its gates leaves a derived blocker.
THEOREM ProjectionMatchesCommand == Spec => []ProjectionAgrees
<1>1. DecisionsInv => ProjectionAgrees
  BY ProjectionAgreesOf DEF DecisionsInv, CandidateInv, ProjectionAgrees
<1> QED
  BY <1>1, DecisionsHold, PTL

\* No approval is spent twice, and none is both spent and revoked.
THEOREM ApprovalsAreSpentOnce == Spec => []ApprovalsSpentOnce
<1>1. DecisionsInv => ApprovalsSpentOnce
  BY DEF DecisionsInv, CandidateInv, ApprovalOf, Spenders, ApprovalsSpentOnce
<1> QED
  BY <1>1, DecisionsHold, PTL

\* A promotion that passes its checks gets a token no operation ever had.
THEOREM TokensAreFresh == Spec => []PromotionTokenIsFresh
<1>1. ASSUME DecisionsInv, NEW c \in Candidate, NEW o \in Operation,
             MayQueue(candidate[c], operation[c], blockers[c], decision[c], Evidence(c),
                      Usable(approval[c], candidate[c], decision[c])),
             operation[c][o].status # "NONE"
      PROVE  operation[c][o].decision # decision[c].id
  <2>1. /\ candidate[c].stage \in {"ELIGIBLE", "SHADOW"} /\ blockers[c] = {}
        /\ operation[c][o].status \notin Unfinished
    BY <1>1 DEF MayQueue
  <2>2. TypeInv /\ TokenOf(c) /\ InvOf(c)
    BY <1>1, InvOfAll DEF DecisionsInv, CandidateInv
  <2>3. operation[c][o].status # "FAILED"
    BY <2>1, <2>2 DEF InvOf, RegistryBlockers
  <2>4. operation[c][o].status = "SUCCEEDED"
    BY <1>1, <2>1, <2>2, <2>3 DEF TypeInv, TypeOK, OperationRow, WorkStatus, Unfinished
  <2> QED
    BY <2>1, <2>2, <2>4 DEF TokenOf
<1>2. DecisionsInv => PromotionTokenIsFresh
  BY <1>1 DEF PromotionTokenIsFresh
<1> QED
  BY <1>2, DecisionsHold, PTL

\* However often a publication is reclaimed, retried or dead-lettered, its
\* token yields one version, numbered next, and the agent selects the newest.
THEOREM TokensMakeOneVersion == Spec => []OneVersionPerToken
<1>1. ASSUME DecisionsInv, NEW c \in Candidate
      PROVE  /\ \A v, w \in version[c] :
                    v.decision = w.decision \/ v.operation = w.operation => v = w
             /\ \A o \in Operation :
                   operation[c][o].status = "SUCCEEDED" =>
                       \E v \in version[c] : v.operation = o
             /\ {v.number : v \in version[c]} = 1..Cardinality(version[c])
             /\ selected[c] = Cardinality(version[c])
  <2>1. TypeInv /\ TokenOf(c) /\ VersionOf(c)
    BY <1>1 DEF DecisionsInv, CandidateInv
  <2>2. \A v \in version[c] : v.operation \in Operation
    BY <2>1 DEF TypeInv, TypeOK, VersionRow
  <2>3. \A v, w \in version[c] : v.decision = w.decision => v.operation = w.operation
    BY <2>1, <2>2 DEF VersionOf, TokenOf, Requested
  <2>4. \A v, w \in version[c] : v.operation = w.operation => v = w
    BY <2>1 DEF VersionOf
  <2>5. {v.number : v \in version[c]} = 1..Cardinality(version[c])
    BY <2>1 DEF VersionOf, Numbered
  <2>6. selected[c] = Cardinality(version[c])
    BY <2>1 DEF VersionOf, Numbered
  <2>7. \A o \in Operation :
           operation[c][o].status = "SUCCEEDED" => \E v \in version[c] : v.operation = o
    BY <2>1 DEF VersionOf
  <2> QED
    BY <2>3, <2>4, <2>5, <2>6, <2>7
<1>2. DecisionsInv => OneVersionPerToken
  BY <1>1 DEF OneVersionPerToken
<1> QED
  BY <1>2, DecisionsHold, PTL

\* A version spent exactly the required approvals of its own decision and
\* evidence, none of them revoked, and the external registry holds its token.
THEOREM VersionsWereEarned == Spec => []VersionsAreEarned
<1>1. ASSUME DecisionsInv, NEW c \in Candidate, NEW v \in version[c]
      PROVE  LET op == operation[c][v.operation]
             IN  /\ op.status = "SUCCEEDED"
                 /\ v.decision = op.decision
                 /\ v.snapshot = op.snapshot
                 /\ << c, v.decision >> \in published
                 /\ Cardinality(op.approvals) = RequiredApprovals
                 /\ \A a \in op.approvals :
                       /\ approval[c][a].decision = op.decision
                       /\ approval[c][a].snapshot = op.snapshot
                       /\ approval[c][a].consumed
                       /\ ~approval[c][a].revoked
  <2>1. TypeInv /\ VersionOf(c) /\ EarnedOf(c) /\ ApprovalOf(c) /\ VersionsPublished
    BY <1>1 DEF DecisionsInv, CandidateInv
  <2>2. /\ v.operation \in Operation
        /\ operation[c][v.operation].approvals \in SUBSET Approval
    BY <2>1 DEF TypeInv, TypeOK, VersionRow, OperationRow
  <2>3. /\ operation[c][v.operation].status = "SUCCEEDED"
        /\ v.decision = operation[c][v.operation].decision
        /\ v.snapshot = operation[c][v.operation].snapshot
    BY <2>1 DEF VersionOf
  <2>4. v.operation \in Requested(c)
    BY <2>2, <2>3 DEF Requested
  <2> QED
    BY <2>1, <2>2, <2>3, <2>4 DEF EarnedOf, ApprovalOf, VersionsPublished
<1>2. DecisionsInv => VersionsAreEarned
  BY <1>1 DEF VersionsAreEarned
<1> QED
  BY <1>2, DecisionsHold, PTL

\* PROMOTED and MONITORED candidates have a version, selected by their agent
\* and made of the snapshot their row still carries.
THEOREM PromotedSelectsVersion == Spec => []PromotedIsSelected
<1>1. DecisionsInv => PromotedIsSelected
  BY DEF DecisionsInv, CandidateInv, PromotedOf, PromotedIsSelected
<1> QED
  BY <1>1, DecisionsHold, PTL

\* Nothing a reviewer decides on changes under an unchanged revision.
THEOREM RevisionsTell == Spec => RevisionSeesEveryChange
<1>1. DecisionsInv /\ [Next]_vars =>
        [\A c \in Candidate :
            \/ candidate'[c].revision > candidate[c].revision
            \/ UNCHANGED << candidate[c], blockers[c], decision[c], approval[c] >>]_vars
  BY Effects, RevisionGrows DEF DecisionsInv
<1> QED
  BY <1>1, DecisionsHold, PTL DEF Spec, RevisionSeesEveryChange

\* What was published, promoted, measured, spent or revoked stays so, whatever a
\* late heartbeat writes into the deadline of a finished row.
THEOREM HistoryStays == Spec => HistoryIsPermanent
<1>1. ASSUME DecisionsInv, [Next]_vars, NEW c \in Candidate
      PROVE  /\ version[c] \subseteq version'[c]
             /\ \A o \in Operation :
                   operation[c][o].status = "SUCCEEDED" =>
                       operation'[c][o] \in {operation[c][o], Renewed(operation[c][o])}
             /\ \A r \in Run :
                   run[c][r].status \in {"SUCCEEDED", "FAILED"} =>
                       run'[c][r] \in {run[c][r], Renewed(run[c][r])}
             /\ \A a \in Approval :
                   approval[c][a].consumed \/ approval[c][a].revoked =>
                       UNCHANGED approval[c][a]
  <2>1. TypeInv /\ CandidateInv(c) /\ Effect(c)
    BY <1>1, Effects DEF DecisionsInv
  <2>2. version[c] \subseteq version'[c]
    BY <2>1, VersionsGrow DEF CandidateInv, SameVersions
  <2>3. \A o \in Operation :
           operation[c][o].status = "SUCCEEDED" =>
                       operation'[c][o] \in {operation[c][o], Renewed(operation[c][o])}
    BY <2>1, SucceededStay
  <2>4. \A r \in Run :
           run[c][r].status \in {"SUCCEEDED", "FAILED"} =>
                       run'[c][r] \in {run[c][r], Renewed(run[c][r])}
    BY <2>1 DEF Effect, FinishedRunsStay, Unfinished
  <2>5. \A a \in Approval : approval[c][a].consumed \/ approval[c][a].revoked =>
                       UNCHANGED approval[c][a]
    BY <2>1, ApprovalKeeps DEF CandidateInv
  <2> QED
    BY <2>2, <2>3, <2>4, <2>5
<1>2. DecisionsInv /\ [Next]_vars => published \subseteq published'
  BY WorkerSteps DEF DecisionsInv
<1>3. DecisionsInv /\ [Next]_vars =>
        [/\ published \subseteq published'
         /\ \A c \in Candidate :
              /\ version[c] \subseteq version'[c]
              /\ \A o \in Operation :
                    operation[c][o].status = "SUCCEEDED" =>
                       operation'[c][o] \in {operation[c][o], Renewed(operation[c][o])}
              /\ \A r \in Run :
                    run[c][r].status \in {"SUCCEEDED", "FAILED"} =>
                       run'[c][r] \in {run[c][r], Renewed(run[c][r])}
              /\ \A a \in Approval :
                    approval[c][a].consumed \/ approval[c][a].revoked =>
                       UNCHANGED approval[c][a]]_vars
  BY <1>1, <1>2
<1> QED
  BY <1>3, DecisionsHold, PTL DEF Spec, HistoryIsPermanent

LEMMA FixtureStep ==
    ASSUME TypeInv, NEW c \in Candidate, FixtureOf(c), Effect(c),
           NEW b \in blockers[c], b.code \in FixtureBlockerCodes
    PROVE  /\ b \in blockers'[c]
           /\ \A o \in Operation :
                 operation[c][o].status = "NONE" => operation'[c][o].status = "NONE"
<1>1. Requested(c) = {} /\ \A o \in Operation : operation[c][o].status = "NONE"
  BY DEF FixtureOf, Requested
<1>2. ~Requests(c) /\ ~Revives(c) /\ ~Activates(c)
  <2>1. b.code \notin DerivedBlockerCodes
    BY CodesAreApart DEF CodesApart
  <2> QED
    BY <1>1, <2>1, RequestsFacts, RevivesFacts, ActivatesFacts
<1>3. b \in blockers'[c]
  <2>1. b.code \notin DerivedBlockerCodes
    BY CodesAreApart DEF CodesApart
  <2>2. CASE Regates(c)
    BY <2>1, <2>2, RegatesFacts
  <2>3. CASE ~Regates(c)
    BY <1>2, <2>3 DEF Effect, Rests, Starts, Reviews, Stops
  <2> QED
    BY <2>2, <2>3
<1>4. Requested(c)' = Requested(c)
  BY <1>2, RequestedStays
<1> QED
  BY <1>3, <1>4 DEF Requested

\* A fixture's blocker is never cleared and its candidate never queued.
THEOREM FixturesStayBlocked == Spec => FixtureBlockersStay
<1>1. ASSUME DecisionsInv, [Next]_vars, NEW c \in Candidate, NEW b \in blockers[c],
             b.code \in FixtureBlockerCodes
      PROVE  /\ b \in blockers'[c]
             /\ \A o \in Operation :
                   operation[c][o].status = "NONE" => operation'[c][o].status = "NONE"
  <2>1. TypeInv /\ FixtureOf(c) /\ Effect(c)
    BY <1>1, Effects DEF DecisionsInv, CandidateInv
  <2> QED
    BY <1>1, <2>1, FixtureStep
<1>2. DecisionsInv /\ [Next]_vars =>
        [\A c \in Candidate : \A b \in blockers[c] :
            b.code \in FixtureBlockerCodes =>
                /\ b \in blockers'[c]
                /\ \A o \in Operation :
                      operation[c][o].status = "NONE" => operation'[c][o].status = "NONE"]_vars
  BY <1>1
<1> QED
  BY <1>2, DecisionsHold, PTL DEF Spec, FixtureBlockersStay

LEMMA VersionStep ==
    ASSUME TypeInv, NEW c \in Candidate, TokenOf(c), VersionOf(c), PendingOf(c), Effect(c),
           version'[c] # version[c]
    PROVE  /\ candidate[c].status = "PROMOTION_PENDING"
           /\ candidate'[c].stage \in MutationStopStages
           /\ \A v \in version'[c] \ version[c] :
                 gate[c] = "ELIGIBLE" /\ v.snapshot = Evidence(c)
<1>1. Activates(c)
  BY VersionsGrow DEF SameVersions
<1>2. PICK o \in Operation :
         /\ candidate[c].status = "PROMOTION_PENDING"
         /\ candidate[c].snapshot = operation[c][o].snapshot
         /\ version'[c] = version[c] \cup {NewVersion(c, o)}
  BY <1>1, VersionsGrow
<1>3. NewVersion(c, o).snapshot = operation[c][o].snapshot
  BY DEF NewVersion
<1>4. gate[c] = "ELIGIBLE" /\ candidate[c].snapshot = Evidence(c)
  BY <1>2 DEF PendingOf
<1> QED
  BY <1>1, <1>2, <1>3, <1>4 DEF Activates

\* A version appears only where a pending promotion ends, on current evidence.
THEOREM VersionsEndPromotions == Spec => VersionEndsPendingPromotion
<1>1. ASSUME DecisionsInv, [Next]_vars, NEW c \in Candidate, version'[c] # version[c]
      PROVE  /\ candidate[c].status = "PROMOTION_PENDING"
             /\ candidate'[c].stage \in MutationStopStages
             /\ \A v \in version'[c] \ version[c] :
                   gate[c] = "ELIGIBLE" /\ v.snapshot = Evidence(c)
  <2>1. TypeInv /\ TokenOf(c) /\ VersionOf(c) /\ PendingOf(c) /\ Effect(c)
    BY <1>1, Effects DEF DecisionsInv, CandidateInv
  <2> QED
    BY <1>1, <2>1, VersionStep
<1>2. DecisionsInv /\ [Next]_vars =>
        [\A c \in Candidate :
            version'[c] # version[c] =>
                /\ candidate[c].status = "PROMOTION_PENDING"
                /\ candidate'[c].stage \in MutationStopStages
                /\ \A v \in version'[c] \ version[c] :
                      gate[c] = "ELIGIBLE" /\ v.snapshot = Evidence(c)]_vars
  BY <1>1
<1> QED
  BY <1>2, DecisionsHold, PTL DEF Spec, VersionEndsPendingPromotion

(***************************************************************************)
(* The control plane implements the registry's promise.                    *)
(*                                                                         *)
(* A step of the control plane moves the activations of one candidate at   *)
(* most, except that dead letters may fail those of several; it publishes  *)
(* a token, or moves activations, never both.  So every step is one action *)
(* of Activation, or changes nothing Activation sees.                      *)
(***************************************************************************)
\* A published token is the token of an operation that was made.
PublishedMade ==
    \A x \in published : \E c \in Candidate, o \in Operation :
        o \in Requested(c) /\ x = Token(c, o)

\* What the external registry may learn in a step.
Publishes(c, o) ==
    /\ o \in Requested(c)
    /\ published' = published \cup {Token(c, o)}
    /\ UNCHANGED << operation, version, selected >>

LEMMA Publications ==
    ASSUME TypeInv, HeldTokens, [Next]_vars
    PROVE  published' = published \/ \E c \in Candidate, o \in Operation : Publishes(c, o)
<1>1. ASSUME NEW c \in Candidate, Command(c) PROVE published' = published
  BY <1>1 DEF Command, Evaluate, PromotionCheck, CreateApproval, Promote,
     RevokeApproval, RetryOperation
<1>2. ASSUME NEW p \in Worker, Claim(p) \/ DeadLetter(p) PROVE published' = published
  BY <1>2 DEF Claim, ClaimRun, ClaimOperation, DeadLetter
<1>3. ASSUME NEW p \in Worker, NEW c \in Candidate, NEW o \in Operation,
             Publish(p, c, o) \/ PublicationAnswerLost(p, c, o)
      PROVE  Publishes(c, o)
  BY <1>3 DEF Publish, PublicationAnswerLost, Publishes, HeldTokens
<1>4. ASSUME NEW p \in Worker, AttemptStep(p)
      PROVE  published' = published \/ \E c \in Candidate, o \in Operation : Publishes(c, o)
  BY <1>3, <1>4 DEF AttemptStep, EvaluationStep, EvaluationAttemptFails,
     EvaluationAnswerRejected, EvaluationCompletes, EvaluationAnswerIgnored, ActivationStep,
     ActivationSucceeds, ActivationRejected, ActivationFails, ActivationAnswerIgnored
<1>5. CASE Environment
  <2>1. CASE Heartbeat \/ \E c \in Candidate : LeaseExpires(c)
    BY <2>1, LeaseSteps
  <2> QED
    BY <1>3, <1>5, <2>1 DEF Environment, WorkerCrash
<1>6. CASE UNCHANGED vars
  BY <1>6 DEF vars
<1> QED
  BY <1>1, <1>2, <1>4, <1>5, <1>6 DEF Next

LEMMA PublishedMadeNext ==
    ASSUME TypeInv, OwnedWhileRunning, HeldTokens, PublishedMade, [Next]_vars
    PROVE  PublishedMade'
<1> SUFFICES ASSUME NEW x \in published'
             PROVE  \E c \in Candidate, o \in Operation :
                       (o \in Requested(c))' /\ x = Token(c, o)'
  BY DEF PublishedMade
<1>1. PICK c \in Candidate, o \in Operation : o \in Requested(c) /\ x = Token(c, o)
  BY Publications DEF PublishedMade, Publishes
<1>2. (o \in Requested(c))' /\ Token(c, o)' = Token(c, o)
  BY <1>1, Effects, RequestedKept DEF Token
<1> QED
  BY <1>1, <1>2

\* Activations of other candidates stay as they are.
OthersStay(c) ==
    \A d \in Candidate \ {c} : UNCHANGED << operation[d], version[d], selected[d] >>

\* Operations fail, of any candidates.
OnlyFails ==
    /\ UNCHANGED << version, selected >>
    /\ \A c \in Candidate, o \in Operation :
          \/ UNCHANGED operation[c][o]
          \/ operation[c][o].status \in Unfinished /\ operation'[c][o].status = "FAILED"

LEMMA OneAtATime ==
    ASSUME TypeInv, OwnedWhileRunning, [Next]_vars
    PROVE  OnlyFails \/ \E c \in Candidate : OthersStay(c)
<1>1. ASSUME NEW c \in Candidate, Command(c) PROVE OthersStay(c)
  BY <1>1 DEF Command, Evaluate, PromotionCheck, CreateApproval, Promote,
     RevokeApproval, RetryOperation, OthersStay, TypeInv, TypeOK
<1>2. ASSUME NEW p \in Worker, NEW c \in Candidate, NEW r \in Run,
             ClaimRun(p, c, r) \/ EvaluationStep(p, c, r)
      PROVE  OthersStay(c)
  BY <1>2 DEF ClaimRun, EvaluationStep, EvaluationAttemptFails, EvaluationAnswerRejected,
     EvaluationCompletes, CompletesWith, EvaluationAnswerIgnored, OthersStay, TypeInv, TypeOK
<1>3. ASSUME NEW p \in Worker, NEW c \in Candidate, NEW o \in Operation,
             ClaimOperation(p, c, o) \/ ActivationStep(p, c, o)
      PROVE  OthersStay(c)
  BY <1>3 DEF ClaimOperation, ActivationStep, Publish, ActivationSucceeds, ActivationRejected,
     ActivationFails, ActivationAnswerIgnored, OthersStay, TypeInv, TypeOK
<1>4. ASSUME UNCHANGED << operation, version, selected >> PROVE OnlyFails
  BY <1>4 DEF OnlyFails
<1>5. ASSUME NEW c \in Candidate, NEW o \in Operation, NEW w, UNCHANGED << version, selected >>,
             operation' = [operation EXCEPT ![c][o] = w]
      PROVE  OthersStay(c)
  BY <1>5 DEF OthersStay, TypeInv, TypeOK
<1>6. CASE Heartbeat \/ \E c \in Candidate : LeaseExpires(c)
  <2>1. UNCHANGED << version, selected >>
    BY <1>6, LeaseSteps
  <2>2. \/ UNCHANGED operation
        \/ \E c \in Candidate, o \in Operation, lease \in {"LIVE", "EXPIRED"} :
              operation' = [operation EXCEPT ![c][o] = [operation[c][o] EXCEPT !.lease = lease]]
    BY <1>6, LeaseSteps
  <2> QED
    BY <1>4, <1>5, <2>1, <2>2
<1>7. ASSUME NEW p \in Worker, DeadLetter(p) PROVE OnlyFails
  <2>1. PICK O \in SUBSET ExhaustedOperations :
           operation' = [c \in Candidate |-> [o \in Operation |->
                IF o \in Of(O, c) THEN Released(operation[c][o], "FAILED")
                ELSE operation[c][o]]]
    BY <1>7 DEF DeadLetter
  <2>2. ASSUME NEW c \in Candidate, NEW o \in Operation
        PROVE  \/ UNCHANGED operation[c][o]
               \/ operation[c][o].status \in Unfinished /\ operation'[c][o].status = "FAILED"
    <3>1. CASE o \in Of(O, c)
      <4>1. Exhausted(operation[c][o])
        BY <3>1 DEF Of, ExhaustedOperations
      <4>2. operation[c][o] \in OperationRow
        BY DEF TypeInv, TypeOK
      <4>3. operation'[c][o].status = "FAILED"
        BY <2>1, <3>1, <4>2, ReleasedFacts DEF WorkStatus
      <4> QED
        BY <4>1, <4>3 DEF Exhausted
    <3>2. CASE o \notin Of(O, c)
      BY <2>1, <3>2
    <3> QED
      BY <3>1, <3>2
  <2> QED
    BY <1>7, <2>2 DEF OnlyFails, DeadLetter
<1>8. CASE Environment
  BY <1>4, <1>6, <1>8 DEF Environment, WorkerCrash, PublicationAnswerLost
<1>9. CASE UNCHANGED vars
  BY <1>4, <1>9 DEF vars
<1> QED
  BY <1>1, <1>2, <1>3, <1>7, <1>8, <1>9 DEF Next, Claim, AttemptStep

(***************************************************************************)
(* What an effect does to the activations of its candidate.                *)
(***************************************************************************)
SameActivation(c, o) == ActivationOf(operation'[c][o]) = ActivationOf(operation[c][o])

\* One activation of c moves, and the others of c stay.
Moves(c, o, from, to) ==
    /\ ActivationOf(operation[c][o]) = from /\ ActivationOf(operation'[c][o]) = to
    /\ \A i \in Operation \ {o} : SameActivation(c, i)

RejectsSome(c) ==
    /\ SameVersions(c)
    /\ \A o \in Operation :
          \/ SameActivation(c, o)
          \/ ActivationOf(operation[c][o]) = "PENDING" /\ ActivationOf(operation'[c][o]) = "FAILED"

RequestsOne(c) ==
    /\ SameVersions(c)
    /\ \A i \in Operation : ActivationOf(operation[c][i]) \in {"NONE", "SUCCEEDED"}
    /\ \E o \in Operation : Moves(c, o, "NONE", "PENDING")

RevivesOne(c) ==
    SameVersions(c) /\ \E o \in Operation : Moves(c, o, "FAILED", "PENDING")

ActivatesOne(c) ==
    \E o \in Operation :
        /\ Moves(c, o, "PENDING", "SUCCEEDED")
        /\ << c, o >> \in PublishedOperations
        /\ Serving'[c] = o

LEMMA EffectRequestsOne ==
    ASSUME TypeInv, NEW c \in Candidate, InvOf(c), Requests(c)
    PROVE  RequestsOne(c)
<1>1. PICK o \in Operation, used \in SUBSET Approval : RequestMakes(c, o, used)
  BY RequestsFacts
<1>2. Moves(c, o, "NONE", "PENDING")
  BY <1>1 DEF RequestMakes, Moves, ActivationOf, SameActivation, Unfinished
<1>3. \A i \in Operation : operation[c][i].status \notin Unfinished
  BY RequestsFacts
<1>4. \A i \in Operation : operation[c][i].status # "FAILED"
  <2>1. \A b \in blockers[c] : b.code \in DerivedBlockerCodes
    BY RequestsFacts
  <2> QED
    BY <2>1, CodesAreApart DEF InvOf, RegistryBlockers, CodesApart
<1>5. \A i \in Operation : operation[c][i].status \in WorkStatus
  BY DEF TypeInv, TypeOK, OperationRow
<1>6. \A i \in Operation : ActivationOf(operation[c][i]) \in {"NONE", "SUCCEEDED"}
  BY <1>3, <1>4, <1>5 DEF ActivationOf, WorkStatus, Unfinished
<1> QED
  BY <1>2, <1>6 DEF RequestsOne, Requests

LEMMA EffectRevivesOne ==
    ASSUME TypeInv, NEW c \in Candidate, Revives(c)
    PROVE  RevivesOne(c)
<1>1. PICK o \in Operation :
           /\ operation[c][o].status = "FAILED" /\ operation'[c][o].status = "QUEUED"
           /\ \A i \in Operation \ {o} : operation'[c][i] = operation[c][i]
           /\ SameVersions(c)
  BY RevivesFacts
<1> QED
  BY <1>1 DEF RevivesOne, Moves, ActivationOf, SameActivation, Unfinished

\* The version an activation adds is the one its agent selects, and it stands
\* for the operation: the numbers of the others are lower.
LEMMA EffectActivatesOne ==
    ASSUME TypeInv, HeldTokens, NEW c \in Candidate, TokenOf(c), VersionOf(c),
           Effect(c), Activates(c)
    PROVE  ActivatesOne(c)
<1>1. PICK o \in Operation :
           /\ operation[c][o].status = "RUNNING" /\ operation'[c][o].status = "SUCCEEDED"
           /\ \A i \in Operation \ {o} : operation'[c][i] = operation[c][i]
           /\ \E p \in Worker : worker[p] = Busy("PUBLISHED", c, o)
           /\ version'[c] = version[c] \cup {NewVersion(c, o)}
           /\ selected'[c] = Cardinality(version[c]) + 1
  BY VersionsGrow
<1>2. Moves(c, o, "PENDING", "SUCCEEDED")
  BY <1>1 DEF Moves, ActivationOf, SameActivation, Unfinished
<1>3. << c, o >> \in PublishedOperations
  BY <1>1 DEF HeldTokens, PublishedOperations
<1>4. /\ NewVersion(c, o).number = Cardinality(version[c]) + 1
      /\ NewVersion(c, o).operation = o
  BY DEF NewVersion
<1>5. Cardinality(version[c]) \in Nat
  BY FS_CardinalityType DEF TypeInv, FiniteVersions
<1>6. \A v \in version[c] : v.number # Cardinality(version[c]) + 1
  BY <1>5 DEF VersionOf, Numbered
<1>7. \A v \in version'[c] : v.number = selected'[c] <=> v = NewVersion(c, o)
  BY <1>1, <1>4, <1>6
<1>8. (CHOOSE v \in version'[c] : v.number = selected'[c]) = NewVersion(c, o)
  BY <1>1, <1>7
<1>9. selected'[c] # 0
  BY <1>1, <1>5
<1>10. Serving'[c] = o
  BY <1>4, <1>8, <1>9 DEF Serving
<1> QED
  BY <1>2, <1>3, <1>10 DEF ActivatesOne

LEMMA EffectMoves ==
    ASSUME TypeInv, HeldTokens, NEW c \in Candidate, InvOf(c), TokenOf(c), VersionOf(c), Effect(c)
    PROVE  RejectsSome(c) \/ RequestsOne(c) \/ RevivesOne(c) \/ ActivatesOne(c)
<1>1. CASE Rests(c)
  BY <1>1 DEF Rests, OperationsGoOn, SameStatus, RejectsSome, SameActivation, ActivationOf
<1>2. CASE Starts(c) \/ Regates(c) \/ Reviews(c)
  BY <1>2 DEF Starts, Regates, Reviews, RejectsSome, SameActivation
<1>3. CASE Stops(c)
  BY <1>3 DEF Stops, RejectsSome, SameActivation, ActivationOf, Unfinished
<1> QED
  BY <1>1, <1>2, <1>3, EffectRequestsOne, EffectRevivesOne, EffectActivatesOne DEF Effect

(***************************************************************************)
(* What the abstract state becomes.                                        *)
(***************************************************************************)
LEMMA ActivationsMove ==
    ASSUME NEW c \in Candidate, NEW o \in Operation, NEW from, NEW to,
           Moves(c, o, from, to), OthersStay(c)
    PROVE  Activations' = [Activations EXCEPT ![c][o] = to]
<1>1. \A d \in Candidate, i \in Operation :
         ActivationOf(operation'[d][i]) =
             IF d = c /\ i = o THEN to ELSE ActivationOf(operation[d][i])
  BY DEF Moves, OthersStay, SameActivation
<1>2. [Activations EXCEPT ![c][o] = to] =
         [d \in Candidate |-> [i \in Operation |->
             IF d = c /\ i = o THEN to ELSE ActivationOf(operation[d][i])]]
  BY DEF Activations
<1> QED
  BY <1>1, <1>2 DEF Activations

\* The activation a candidate with versions V, of which n is selected, is served by.
Served(V, n) == IF n = 0 THEN 0 ELSE (CHOOSE v \in V : v.number = n).operation

LEMMA ServingIs ==
    /\ Serving = [c \in Candidate |-> Served(version[c], selected[c])]
    /\ Serving' = [c \in Candidate |-> Served(version'[c], selected'[c])]
BY Zenon DEF Serving, Served

LEMMA ServingStays ==
    ASSUME \A c \in Candidate : SameVersions(c)
    PROVE  UNCHANGED Serving
BY ServingIs DEF SameVersions

LEMMA ServingMoves ==
    ASSUME NEW c \in Candidate, OthersStay(c), NEW o, Serving'[c] = o
    PROVE  Serving' = [Serving EXCEPT ![c] = o]
<1>1. Serving' = [d \in Candidate |-> Served(version'[d], selected'[d])]
  BY ServingIs
<1>2. \A d \in Candidate \ {c} : version'[d] = version[d] /\ selected'[d] = selected[d]
  BY DEF OthersStay
<1> QED
  BY <1>1, <1>2, ServingIs

\* Without a publication nothing is published for another operation: a request
\* takes a token no operation had, so none that is published already.
LEMMA ExternalStays ==
    ASSUME TypeInv, OwnedWhileRunning, PublishedMade, [Next]_vars,
           \A c \in Candidate : TokenOf(c) /\ InvOf(c), published' = published
    PROVE  UNCHANGED PublishedOperations
<1> SUFFICES ASSUME NEW c \in Candidate, NEW o \in Operation
             PROVE  (o \in Requested(c))' /\ Token(c, o)' \in published
                        <=> o \in Requested(c) /\ Token(c, o) \in published
  BY DEF PublishedOperations, Requested
<1>1. Effect(c)
  BY Effects
<1>2. CASE o \in Requested(c)
  BY <1>1, <1>2, RequestedKept DEF Token
<1>3. CASE o \notin Requested(c) /\ (o \in Requested(c))'
  <2>1. Requests(c)
    BY <1>1, <1>3, RequestedStays
  <2>2. PICK i \in Operation, used \in SUBSET Approval : RequestMakes(c, i, used)
    BY <2>1, RequestsFacts
  <2>3. i = o /\ operation'[c][o].decision = decision'[c].id
    BY <1>3, <2>2 DEF RequestMakes, Requested
  <2>4. ASSUME Token(c, o)' \in published PROVE FALSE
    <3>1. PICK j \in Requested(c) : operation[c][j].decision = decision'[c].id
      BY <2>3, <2>4 DEF PublishedMade, Token
    <3>2. operation[c][j].decision < decision'[c].id
      BY <2>1, <3>1, RequestIsFresh
    <3>3. decision'[c].id \in Nat
      BY <3>1 DEF TypeInv, TypeOK, OperationRow, Requested
    <3> QED
      BY <3>1, <3>2, <3>3
  <2> QED
    BY <1>3, <2>4
<1>4. CASE o \notin Requested(c) /\ ~(o \in Requested(c))'
  BY <1>4
<1> QED
  BY <1>2, <1>3, <1>4

LEMMA ExternalGrows ==
    ASSUME TypeInv, NEW c \in Candidate, NEW o \in Operation, Publishes(c, o), TokenOf(c)
    PROVE  PublishedOperations' = PublishedOperations \cup {<< c, o >>}
<1> SUFFICES ASSUME NEW d \in Candidate, NEW i \in Operation
             PROVE  (i \in Requested(d))' /\ Token(d, i)' \in published'
                        <=> \/ i \in Requested(d) /\ Token(d, i) \in published
                            \/ d = c /\ i = o
  BY DEF PublishedOperations, Requested
<1>1. (i \in Requested(d))' <=> i \in Requested(d)
  BY DEF Publishes, Requested
<1>2. Token(d, i)' = Token(d, i) /\ published' = published \cup {Token(c, o)} /\ o \in Requested(c)
  BY DEF Publishes, Token
<1>3. i \in Requested(d) /\ Token(d, i) = Token(c, o) => d = c /\ i = o
  BY <1>2 DEF Token, TokenOf
<1> QED
  BY <1>1, <1>2, <1>3


LEMMA RejectStep ==
    ASSUME \A c \in Candidate : RejectsSome(c), UNCHANGED PublishedOperations
    PROVE  \E S \in SUBSET (Candidate \X Operation) : Promise!Reject(S)
<1> DEFINE Fell(c, o) == /\ ActivationOf(operation[c][o]) = "PENDING"
                         /\ ActivationOf(operation'[c][o]) = "FAILED"
           S == {x \in Candidate \X Operation : Fell(x[1], x[2])}
<1>1. \A x \in S : Activations[x[1]][x[2]] = "PENDING"
  BY DEF Activations
<1>2. ASSUME NEW c \in Candidate, NEW o \in Operation
      PROVE  ActivationOf(operation'[c][o]) =
                IF << c, o >> \in S THEN "FAILED" ELSE Activations[c][o]
  <2>1. << c, o >> \in S <=> Fell(c, o)
    OBVIOUS
  <2>2. SameActivation(c, o) \/ Fell(c, o)
    BY DEF RejectsSome
  <2>3. Activations[c][o] = ActivationOf(operation[c][o])
    BY DEF Activations
  <2> HIDE DEF S
  <2> QED
    BY <2>1, <2>2, <2>3 DEF SameActivation
<1> HIDE DEF S
<1>3. Activations' = [c \in Candidate |-> [o \in Operation |->
                          IF << c, o >> \in S THEN "FAILED" ELSE Activations[c][o]]]
  BY <1>2 DEF Activations
<1>4. UNCHANGED Serving
  BY ServingStays DEF RejectsSome
<1>5. S \in SUBSET (Candidate \X Operation)
  BY DEF S
<1> QED
  BY <1>1, <1>3, <1>4, <1>5 DEF Promise!Reject

LEMMA ReleaseStep ==
    ASSUME TypeInv, NEW c \in Candidate, NEW o \in Operation, Publishes(c, o), TokenOf(c)
    PROVE  Promise!Release(c, o)
<1>1. Activations[c][o] # "NONE"
  BY DEF Publishes, Requested, Activations, ActivationOf
<1>2. UNCHANGED << Activations, Serving >>
  BY DEF Publishes, Activations, Serving
<1> QED
  BY <1>1, <1>2, ExternalGrows DEF Promise!Release

LEMMA MoveStep ==
    ASSUME NEW c \in Candidate, OthersStay(c), UNCHANGED PublishedOperations,
           RequestsOne(c) \/ RevivesOne(c) \/ ActivatesOne(c)
    PROVE  Promise!Next
<1>1. ASSUME NEW o \in Operation PROVE Activations[c][o] = ActivationOf(operation[c][o])
  BY DEF Activations
<1>2. ASSUME SameVersions(c) PROVE UNCHANGED Serving
  BY <1>2, ServingStays DEF OthersStay, SameVersions
<1>3. CASE RequestsOne(c)
  <2>1. PICK o \in Operation : Moves(c, o, "NONE", "PENDING")
    BY <1>3 DEF RequestsOne
  <2>2. Activations' = [Activations EXCEPT ![c][o] = "PENDING"]
    BY <2>1, ActivationsMove
  <2>3. Promise!Request(c, o)
    BY <1>1, <1>2, <1>3, <2>1, <2>2 DEF Promise!Request, RequestsOne, Moves
  <2> QED
    BY <2>3 DEF Promise!Next
<1>4. CASE RevivesOne(c)
  <2>1. PICK o \in Operation : Moves(c, o, "FAILED", "PENDING")
    BY <1>4 DEF RevivesOne
  <2>2. Activations' = [Activations EXCEPT ![c][o] = "PENDING"]
    BY <2>1, ActivationsMove
  <2>3. Promise!Revive(c, o)
    BY <1>1, <1>2, <1>4, <2>1, <2>2 DEF Promise!Revive, RevivesOne, Moves
  <2> QED
    BY <2>3 DEF Promise!Next
<1>5. CASE ActivatesOne(c)
  <2>1. PICK o \in Operation : /\ Moves(c, o, "PENDING", "SUCCEEDED")
                               /\ << c, o >> \in PublishedOperations /\ Serving'[c] = o
    BY <1>5 DEF ActivatesOne
  <2>2. /\ Activations' = [Activations EXCEPT ![c][o] = "SUCCEEDED"]
        /\ Serving' = [Serving EXCEPT ![c] = o]
    BY <2>1, ActivationsMove, ServingMoves
  <2>3. Promise!Activate(c, o)
    BY <1>1, <2>1, <2>2 DEF Promise!Activate, Moves
  <2> QED
    BY <2>3 DEF Promise!Next
<1> QED
  BY <1>3, <1>4, <1>5

LEMMA StepIsPromised ==
    ASSUME DecisionsInv, PublishedMade, [Next]_vars
    PROVE  [Promise!Next]_(Promise!avars)
<1>1. /\ TypeInv /\ OwnedWhileRunning /\ HeldTokens
      /\ \A c \in Candidate : TokenOf(c) /\ VersionOf(c) /\ InvOf(c) /\ Effect(c)
  BY Effects, InvOfAll DEF DecisionsInv, CandidateInv
<1>2. CASE published' # published
  <2>1. PICK c \in Candidate, o \in Operation : Publishes(c, o)
    BY <1>1, <1>2, Publications
  <2> QED
    BY <1>1, <2>1, ReleaseStep DEF Promise!Next
<1>3. CASE published' = published
  <2>1. UNCHANGED PublishedOperations
    BY <1>1, <1>3, ExternalStays
  <2>2. ASSUME \A c \in Candidate : RejectsSome(c) PROVE Promise!Next
    BY <2>1, <2>2, RejectStep DEF Promise!Next
  <2>3. CASE OnlyFails
    BY <2>2, <2>3 DEF OnlyFails, RejectsSome, SameVersions, SameActivation, ActivationOf, Unfinished
  <2>4. ASSUME NEW c \in Candidate, OthersStay(c) PROVE Promise!Next
    <3>1. \A d \in Candidate \ {c} : RejectsSome(d)
      BY <2>4 DEF OthersStay, RejectsSome, SameVersions, SameActivation
    <3>2. CASE RejectsSome(c)
      BY <2>2, <3>1, <3>2
    <3> QED
      BY <1>1, <2>1, <2>4, <3>2, EffectMoves, MoveStep
  <2> QED
    BY <1>1, <2>3, <2>4, OneAtATime
<1> QED
  BY <1>2, <1>3

LEMMA InitIsPromised == Init => Promise!Init
<1> SUFFICES ASSUME Init PROVE Promise!Init
  OBVIOUS
<1>1. Activations = [c \in Candidate |-> [o \in Operation |-> "NONE"]]
  BY DEF Init, NoOperation, Activations, ActivationOf, Unfinished
<1>2. PublishedOperations = {}
  BY DEF Init, PublishedOperations
<1>3. Serving = [c \in Candidate |-> 0]
  BY DEF Init, Serving
<1> QED
  BY <1>1, <1>2, <1>3 DEF Promise!Init

\* However many candidates, workers, attempts and evaluations there are and
\* however they interleave, crash and retry: the control plane asks for one
\* activation at a time, serves only what the external registry published and
\* never takes back a success (docs/adrs/0001-asynchronous-promotion.md).
THEOREM ActivationImplemented == Spec => ImplementsActivation
<1> DEFINE IInv == DecisionsInv /\ PublishedMade
<1>1. Init => IInv
  BY DecisionsInit DEF Init, PublishedMade
<1>2. IInv /\ [Next]_vars => IInv'
  BY DecisionsNext, PublishedMadeNext DEF DecisionsInv
<1>3. IInv /\ [Next]_vars => [Promise!Next]_(Promise!avars)
  BY StepIsPromised
<1> HIDE DEF IInv
<1> QED
  BY <1>1, <1>2, <1>3, InitIsPromised, PTL DEF Spec, ImplementsActivation, Promise!Spec

(***************************************************************************)
(* What a reviewer is offered agrees with what the commands accept, for    *)
(* any candidates, workers and bounds.                                     *)
(*                                                                         *)
(* Each property compares the view model of a candidate with the guard of  *)
(* a command over the same rows, so all of them follow from DecisionsInv   *)
(* once the answers and the view model are read field by field             *)
(* (DetailFields, ListFields).                                             *)
(***************************************************************************)
\* What the page makes of an answer to which an earlier row was read.
LEMMA DetailFieldsOf ==
    ASSUME NEW c, NEW row
    PROVE  NormalizeCandidate(DetailAnswer(row, c)) =
             [stage |-> row.stage, status |-> row.status,
              revision |-> row.revision,
              evaluationSnapshotHash |-> Evidence(c),
              promotionEligible |-> ProjectedEligible(row, c),
              lifecycleApprovalState |-> ApprovalState(row, c),
              activationState |-> ActivationState(c),
              hasBlocker |-> {b.code : b \in blockers[c]} # {},
              registryOperationId |-> LatestOperation(c)]
<1> DEFINE answer == DetailAnswer(row, c)
           eligibility ==
             [eligible |-> ProjectedEligible(row, c),
              lifecycle_approval_state |-> ApprovalState(row, c),
              registry_activation_state |-> ActivationState(c)]
<1>1. DOMAIN answer = {"stage", "status", "revision", "evaluation_snapshot_hash", "blockers",
                       "promotion_eligibility", "registry_operation"}
  BY DEF DetailAnswer
<1>2. /\ answer.stage = row.stage /\ answer.status = row.status
      /\ answer.revision = row.revision
      /\ answer["evaluation_snapshot_hash"] = Evidence(c)
      /\ answer["blockers"] = {b.code : b \in blockers[c]}
      /\ answer["promotion_eligibility"] = eligibility
      /\ answer["registry_operation"] = LatestOperation(c)
  BY DEF DetailAnswer
<1>3. DOMAIN eligibility =
        {"eligible", "lifecycle_approval_state", "registry_activation_state"}
  OBVIOUS
<1>4. /\ eligibility["eligible"] = ProjectedEligible(row, c)
      /\ eligibility["lifecycle_approval_state"] = ApprovalState(row, c)
      /\ eligibility["registry_activation_state"] = ActivationState(c)
  OBVIOUS
<1> HIDE DEF answer, eligibility
<1>5. /\ Field(answer, "evaluation_snapshot_hash", UnavailableSnapshot) = Evidence(c)
      /\ Field(answer, "blockers", {}) = {b.code : b \in blockers[c]}
      /\ Field(answer, "blocker_titles", {}) = {}
      /\ Field(answer, "registry_operation", NoOperationId) = LatestOperation(c)
      /\ Field(answer, "promotion_eligibility", << >>) = eligibility
  BY <1>1, <1>2 DEF Field
<1>6. /\ \A x : Field(eligibility, "eligible", x) = ProjectedEligible(row, c)
      /\ \A x : Field(eligibility, "lifecycle_approval_state", x) =
                   ApprovalState(row, c)
      /\ \A x : Field(eligibility, "registry_activation_state", x) = ActivationState(c)
  BY <1>3, <1>4 DEF Field
<1>7. NormalizeCandidate(answer) =
         [stage |-> row.stage, status |-> row.status, revision |-> row.revision,
          evaluationSnapshotHash |-> Evidence(c),
          promotionEligible |-> ProjectedEligible(row, c),
          lifecycleApprovalState |-> ApprovalState(row, c),
          activationState |-> ActivationState(c),
          hasBlocker |-> {b.code : b \in blockers[c]} # {},
          registryOperationId |-> LatestOperation(c)]
  BY <1>2, <1>5, <1>6 DEF NormalizeCandidate
<1> QED
  BY <1>7 DEF answer

LEMMA DetailFields ==
    ASSUME NEW c \in Candidate
    PROVE  DetailView(c) =
             [stage |-> candidate[c].stage, status |-> candidate[c].status,
              revision |-> candidate[c].revision,
              evaluationSnapshotHash |-> Evidence(c),
              promotionEligible |-> ProjectedEligible(candidate[c], c),
              lifecycleApprovalState |-> ApprovalState(candidate[c], c),
              activationState |-> ActivationState(c),
              hasBlocker |-> {b.code : b \in blockers[c]} # {},
              registryOperationId |-> LatestOperation(c)]
BY DetailFieldsOf DEF DetailView

LEMMA ListFields ==
    ASSUME NEW c \in Candidate
    PROVE  ListView(c) =
             [stage |-> candidate[c].stage, status |-> candidate[c].status,
              revision |-> candidate[c].revision,
              evaluationSnapshotHash |-> UnavailableSnapshot,
              promotionEligible |-> ProjectedEligible(candidate[c], c),
              lifecycleApprovalState |-> ApprovalState(candidate[c], c),
              activationState |-> "NOT_REQUESTED",
              hasBlocker |-> {b.code : b \in blockers[c]} # {},
              registryOperationId |-> NoOperationId]
<1> DEFINE answer == ListAnswer(candidate[c], c)
<1>1. DOMAIN answer = {"stage", "status", "revision", "promotion_eligible",
                       "lifecycle_approval_state", "blocker_titles"}
  BY DEF ListAnswer
<1>2. /\ answer.stage = candidate[c].stage /\ answer.status = candidate[c].status
      /\ answer.revision = candidate[c].revision
      /\ answer["promotion_eligible"] = ProjectedEligible(candidate[c], c)
      /\ answer["lifecycle_approval_state"] = ApprovalState(candidate[c], c)
      /\ answer["blocker_titles"] = {b.code : b \in blockers[c]}
  BY DEF ListAnswer
<1> HIDE DEF answer
<1>3. /\ Field(answer, "promotion_eligibility", << >>) = << >>
      /\ Field(answer, "evaluation_snapshot_hash", UnavailableSnapshot) = UnavailableSnapshot
      /\ Field(answer, "promotion_eligible", FALSE) = ProjectedEligible(candidate[c], c)
      /\ Field(answer, "lifecycle_approval_state", "NOT_REQUIRED") =
            ApprovalState(candidate[c], c)
      /\ Field(answer, "blockers", {}) = {}
      /\ Field(answer, "blocker_titles", {}) = {b.code : b \in blockers[c]}
      /\ Field(answer, "registry_operation", NoOperationId) = NoOperationId
  BY <1>1, <1>2 DEF Field
<1>4. \A name, x : Field(<< >>, name, x) = x
  <2>1. DOMAIN << >> = {}
    OBVIOUS
  <2> QED
    BY <2>1 DEF Field
<1>5. ListView(c) = NormalizeCandidate(answer)
  BY DEF ListView, answer
<1> DEFINE eligibility == Field(answer, "promotion_eligibility", << >>)
<1>6. /\ Field(eligibility, "eligible", Field(answer, "promotion_eligible", FALSE)) =
            ProjectedEligible(candidate[c], c)
      /\ Field(eligibility, "lifecycle_approval_state",
               Field(answer, "lifecycle_approval_state", "NOT_REQUIRED")) =
            ApprovalState(candidate[c], c)
      /\ Field(eligibility, "registry_activation_state", "NOT_REQUESTED") = "NOT_REQUESTED"
  BY <1>3, <1>4
<1>7. Field(answer, "blockers", {}) \cup Field(answer, "blocker_titles", {}) =
         {b.code : b \in blockers[c]}
  BY <1>3
<1>8. /\ Field(answer, "evaluation_snapshot_hash", UnavailableSnapshot) = UnavailableSnapshot
      /\ Field(answer, "registry_operation", NoOperationId) = NoOperationId
  BY <1>3
<1> QED
  BY <1>2, <1>5, <1>6, <1>7, <1>8 DEF NormalizeCandidate

(***************************************************************************)
(* The newest operation is there whenever there is one: operations are     *)
(* numbered without gaps, so their number is the number of the newest.     *)
(***************************************************************************)
LEMMA LatestIsNewest ==
    ASSUME TypeInv, NEW c \in Candidate, OrderOf(c), Made(c) # {}
    PROVE  LatestOperation(c) \in Made(c) /\ \A i \in Made(c) : i <= LatestOperation(c)
<1> DEFINE S == Made(c)
           n == Cardinality(S)
<1>1. S \subseteq Operation /\ Operation = 1..MaxOperations /\ MaxOperations \in Nat
  BY BoundAssumption DEF Made, Operation
<1>2. \A i \in S : 1..i \subseteq S
  <2>1. Requested(c) = S
    BY DEF Requested, Made
  <2> QED
    BY <1>1, <2>1 DEF OrderOf
<1> HIDE DEF S
<1>3. IsFiniteSet(S) /\ n \in Nat
  <2>1. IsFiniteSet(1..MaxOperations)
    BY <1>1, FS_Interval
  <2>2. IsFiniteSet(S)
    BY <1>1, <2>1, FS_Subset
  <2> QED
    BY <2>2, FS_CardinalityType
<1>4. \A i \in S : i \in Nat \ {0} /\ i <= n
  <2>1. ASSUME NEW i \in S PROVE i \in Nat \ {0} /\ i <= n
    <3>1. i \in Nat \ {0} /\ 1..i \subseteq S
      BY <1>1, <1>2
    <3>2. Cardinality(1..i) = i
      BY <3>1, FS_Interval
    <3> QED
      BY <1>3, <3>1, <3>2, FS_Subset
  <2> QED
    BY <2>1
<1>5. n # 0
  BY <1>3, <1>4 DEF S
<1>6. n \in S
  <2>1. SUFFICES ASSUME n \notin S PROVE FALSE
    OBVIOUS
  <2>2. ASSUME NEW i \in S PROVE i \in 1..(n-1)
    <3>1. i \in Nat \ {0} /\ i <= n /\ i # n
      BY <1>4, <2>1
    <3> HIDE DEF n
    <3> QED
      BY <1>3, <3>1
  <2>3. IsFiniteSet(1..(n-1)) /\ Cardinality(1..(n-1)) = n - 1
    <3>1. n - 1 \in Nat
      <4> HIDE DEF n
      <4> QED
        BY <1>3, <1>5
    <3> DEFINE m == n - 1
    <3> HIDE DEF m
    <3>2. IsFiniteSet(1..m) /\ Cardinality(1..m) = m
      BY <3>1, FS_Interval DEF m
    <3> QED
      BY <3>2 DEF m
  <2>4. n <= n - 1
    BY <2>2, <2>3, FS_Subset
  <2> QED
    BY <1>3, <2>4
<1>7. \E o \in S : \A i \in S : i <= o
  BY <1>4, <1>6
<1>8. LatestOperation(c) = CHOOSE o \in S : \A i \in S : i <= o
  BY DEF LatestOperation, S
<1> QED
  BY <1>7, <1>8 DEF S

LEMMA NewestIsLatest ==
    ASSUME TypeInv, NEW c \in Candidate, NEW o \in Made(c), \A i \in Made(c) : i <= o
    PROVE  LatestOperation(c) = o
<1>1. \A i \in Made(c) : i \in Int
  BY DEF Made, Operation
<1>2. \A x \in Made(c) : (\A i \in Made(c) : i <= x) => x = o
  BY <1>1
<1> QED
  BY <1>2 DEF LatestOperation

(***************************************************************************)
(* The theorems.                                                           *)
(***************************************************************************)
\* A candidate listed as blocked has a blocker to resolve, because nothing sets
\* the status without leaving one and nothing clears the last one without
\* another status.
THEOREM BlockedHasBlocker == Spec => []BlockedNamesItsBlocker
<1>1. DecisionsInv => BlockedNamesItsBlocker
  <2>1. ASSUME DecisionsInv, NEW c \in Candidate, candidate[c].status = "BLOCKED"
        PROVE  ListView(c).hasBlocker
    <3>1. blockers[c] # {}
      BY <2>1 DEF DecisionsInv, CandidateInv, BlockedOf
    <3>2. PICK b \in blockers[c] : TRUE
      BY <3>1
    <3>3. b.code \in {x.code : x \in blockers[c]}
      OBVIOUS
    <3>4. {x.code : x \in blockers[c]} # {}
      BY <3>3
    <3>5. ListView(c).hasBlocker = ({x.code : x \in blockers[c]} # {})
      BY ListFields
    <3> QED
      BY <3>4, <3>5
  <2> QED
    BY <2>1 DEF BlockedNamesItsBlocker
<1> QED
  BY <1>1, DecisionsHold, PTL

\* What a retry needs, and what is shown then.
LEMMA RetryIsOffered ==
    ASSUME DecisionsInv, NEW c \in Candidate, NEW o \in Operation,
           MayRetry(candidate[c], operation[c][o], o, blockers[c], Evidence(c))
    PROVE  PrimaryAction(DetailView(c)) = "RETRY" /\ DetailView(c).registryOperationId = o
<1>1. /\ TypeInv /\ InvOf(c) /\ OrderOf(c)
      /\ operation[c][o].status = "FAILED"
  BY InvOfAll DEF DecisionsInv, CandidateInv, MayRetry
<1>2. o \in Unresolved(c) /\ o \in Made(c)
  BY <1>1 DEF Unresolved, Made
<1>3. \A i \in Made(c) : i <= o
  BY <1>1, <1>2 DEF OrderOf, Requested, Made
<1>4. LatestOperation(c) = o
  BY <1>1, <1>2, <1>3, NewestIsLatest
<1>5. \A i \in Operation : operation[c][i].status \notin Unfinished
  BY <1>1, <1>2 DEF InvOf, Unresolved, Unfinished
<1>6. ActivationState(c) = "FAILED"
  BY <1>1, <1>2, <1>4, <1>5 DEF ActivationState
<1>7. DetailView(c).activationState = "FAILED" /\ DetailView(c).registryOperationId = o
  BY <1>4, <1>6, DetailFields
<1>8. ~CanPromote(DetailView(c))
  BY <1>7 DEF CanPromote
<1> QED
  BY <1>7, <1>8 DEF PrimaryAction

\* Whatever the retry command would accept is offered: a failed operation that
\* can be retried is the newest one and the only one unresolved.
THEOREM RetriesAreOffered == Spec => []RetryOfferMatchesCommand
<1>1. DecisionsInv => RetryOfferMatchesCommand
  BY RetryIsOffered DEF RetryOfferMatchesCommand
<1> QED
  BY <1>1, DecisionsHold, PTL

\* The detail view offers a decision exactly to a promotable candidate without
\* a publication behind it.
LEMMA DecisionIsOffered ==
    ASSUME DecisionsInv, NEW c \in Candidate, ProjectedEligible(candidate[c], c) <=> Promotable(c)
    PROVE  CanPromote(DetailView(c)) <=> Promotable(c) /\ Made(c) = {}
<1> DEFINE v == DetailView(c)
<1>1. /\ v.promotionEligible = ProjectedEligible(candidate[c], c)
      /\ v.lifecycleApprovalState = ApprovalState(candidate[c], c)
      /\ v.activationState = ActivationState(c)
      /\ v.hasBlocker = ({b.code : b \in blockers[c]} # {})
  BY DetailFields
<1>2. TypeInv /\ ApprovalOf(c) /\ OrderOf(c)
  BY DEF DecisionsInv, CandidateInv
<1>3. ASSUME Promotable(c), Made(c) = {} PROVE CanPromote(v)
  <2>1. ProjectedEligible(candidate[c], c)
    BY <1>3
  <2>2. {b.code : b \in blockers[c]} = {}
    BY <2>1 DEF ProjectedEligible
  <2>3. ActivationState(c) = "NOT_REQUESTED"
    BY <1>3 DEF ActivationState, Made, Unfinished
  <2>4. \A a \in Approval : ~approval[c][a].consumed
    BY <1>2, <1>3 DEF ApprovalOf, Spenders, Made
  <2>5. ConsumedApprovals(candidate[c], c) = {}
    BY <2>4 DEF ConsumedApprovals
  <2>6. Cardinality(ConsumedApprovals(candidate[c], c)) = 0
    BY <2>5, FS_EmptySet
  <2>7. ApprovalState(candidate[c], c) \in {"NOT_REQUIRED", "APPROVED"}
    BY <2>1, <2>6, BoundAssumption DEF ApprovalState, ProjectedEligible
  <2> HIDE DEF v
  <2> QED
    BY <1>1, <2>1, <2>2, <2>3, <2>7 DEF CanPromote
<1>4. ASSUME CanPromote(v) PROVE Promotable(c) /\ Made(c) = {}
  <2>1. ProjectedEligible(candidate[c], c) /\ ActivationState(c) = "NOT_REQUESTED"
    BY <1>1, <1>4 DEF CanPromote
  <2>2. ASSUME Made(c) # {} PROVE FALSE
    <3>1. LatestOperation(c) \in Made(c)
      BY <1>2, <2>2, LatestIsNewest
    <3>2. operation[c][LatestOperation(c)].status \in WorkStatus \cup {"NONE"}
      BY <3>1, <1>2 DEF Made, TypeInv, TypeOK, OperationRow
    <3>3. ActivationState(c) = operation[c][LatestOperation(c)].status
      BY <2>1, <2>2 DEF ActivationState
    <3> QED
      BY <2>1, <3>2, <3>3 DEF WorkStatus
  <2> QED
    BY <2>1, <2>2
<1> QED
  BY <1>3, <1>4

\* A decision is listed as due and offered exactly when the promote command
\* would take it, a second promotion apart, which is not offered.
THEOREM DecisionsAreOffered == Spec => []OfferMatchesCommand
<1>1. ASSUME DecisionsInv, NEW c \in Candidate
      PROVE  /\ NextAction(ListView(c)) = "RECORD_DECISION" <=> Promotable(c)
             /\ AwaitsDecision(ListView(c)) <=> Promotable(c)
             /\ PrimaryAction(DetailView(c)) = "PROMOTE" <=> Promotable(c) /\ Made(c) = {}
  <2>1. ProjectedEligible(candidate[c], c) <=> Promotable(c)
    BY <1>1, ProjectionAgreesOf DEF DecisionsInv, CandidateInv, Promotable
  <2> DEFINE v == ListView(c)
  <2>2. /\ v.promotionEligible = ProjectedEligible(candidate[c], c)
        /\ v.activationState = "NOT_REQUESTED" /\ v.status = candidate[c].status
    BY ListFields
  <2>3. ProjectedEligible(candidate[c], c) => candidate[c].status # "BLOCKED"
    BY <1>1 DEF DecisionsInv, CandidateInv, BlockedOf, ProjectedEligible
  <2> HIDE DEF v
  <2>4. AwaitsDecision(v) <=> Promotable(c)
    BY <2>1, <2>2 DEF AwaitsDecision
  <2>5. NextAction(v) = "RECORD_DECISION" <=> Promotable(c)
    BY <2>1, <2>2, <2>3 DEF NextAction
  <2>6. PrimaryAction(DetailView(c)) = "PROMOTE" <=> CanPromote(DetailView(c))
    BY DEF PrimaryAction
  <2> QED
    BY <1>1, <2>1, <2>4, <2>5, <2>6, DecisionIsOffered DEF v
<1>2. DecisionsInv => OfferMatchesCommand
  BY <1>1 DEF OfferMatchesCommand
<1> QED
  BY <1>2, DecisionsHold, PTL

LEMMA ViewTypes ==
    ASSUME TypeInv, NEW c \in Candidate, OrderOf(c)
    PROVE  /\ DetailAnswer(candidate[c], c) \in CandidateDetail
           /\ ListAnswer(candidate[c], c) \in CandidateSummary
           /\ DetailView(c) \in CandidateViewModel
           /\ ListView(c) \in CandidateViewModel
<1>1. /\ candidate[c].stage \in StageName /\ candidate[c].status \in StatusName
      /\ candidate[c].revision \in Nat
  BY DEF TypeInv, TypeOK, CandidateRow
<1>2. ProjectedEligible(candidate[c], c) \in BOOLEAN
  BY DEF ProjectedEligible
<1>3. ApprovalState(candidate[c], c) \in ApprovalStates
  BY DEF ApprovalState, ApprovalStates
<1>4. LatestOperation(c) \in Operation \cup {NoOperationId}
  <2>1. CASE Made(c) = {}
    BY <2>1 DEF LatestOperation
  <2>2. CASE Made(c) # {}
    BY <2>2, LatestIsNewest DEF Made
  <2> QED
    BY <2>1, <2>2
<1>5. ActivationState(c) \in ActivationStates
  <2>1. CASE \E o \in Operation : operation[c][o].status \in Unfinished
    BY <2>1 DEF ActivationState, ActivationStates
  <2>2. CASE Made(c) = {} /\ ~\E o \in Operation : operation[c][o].status \in Unfinished
    BY <2>2 DEF ActivationState, ActivationStates
  <2>3. CASE Made(c) # {} /\ ~\E o \in Operation : operation[c][o].status \in Unfinished
    <3>1. LatestOperation(c) \in Operation /\ operation[c][LatestOperation(c)].status # "NONE"
      BY <2>3, LatestIsNewest DEF Made
    <3>2. operation[c][LatestOperation(c)].status \in {"SUCCEEDED", "FAILED"}
      BY <2>3, <3>1 DEF TypeInv, TypeOK, OperationRow, WorkStatus, Unfinished
    <3>3. ActivationState(c) = operation[c][LatestOperation(c)].status
      BY <2>3 DEF ActivationState
    <3> QED
      BY <3>2, <3>3 DEF ActivationStates
  <2> QED
    BY <2>1, <2>2, <2>3
<1>6. Evidence(c) \in SUBSET Run
  BY DEF Evidence
<1>7. {b.code : b \in blockers[c]} \in SUBSET BlockerCode
  <2>1. \A b \in blockers[c] : b.code \in BlockerCode
    BY DEF TypeInv, TypeOK, BlockerRow
  <2> QED
    BY <2>1
<1>8. DetailAnswer(candidate[c], c) \in CandidateDetail
  BY <1>1, <1>2, <1>3, <1>4, <1>5, <1>6, <1>7
     DEF DetailAnswer, CandidateDetail, PromotionEligibilityView
<1>9. ListAnswer(candidate[c], c) \in CandidateSummary
  BY <1>1, <1>2, <1>3, <1>7 DEF ListAnswer, CandidateSummary
<1>10. DetailView(c) \in CandidateViewModel
  <2> DEFINE codes == {b.code : b \in blockers[c]}
  <2>1. (codes # {}) \in BOOLEAN
    OBVIOUS
  <2>2. Evidence(c) \in (SUBSET Run) \cup {UnavailableSnapshot}
    BY <1>6
  <2>3. DetailView(c) =
             [stage |-> candidate[c].stage, status |-> candidate[c].status,
              revision |-> candidate[c].revision,
              evaluationSnapshotHash |-> Evidence(c),
              promotionEligible |-> ProjectedEligible(candidate[c], c),
              lifecycleApprovalState |-> ApprovalState(candidate[c], c),
              activationState |-> ActivationState(c),
              hasBlocker |-> codes # {},
              registryOperationId |-> LatestOperation(c)]
    BY DetailFields
  <2> HIDE DEF codes
  <2> QED
    BY <1>1, <1>2, <1>3, <1>4, <1>5, <2>1, <2>2, <2>3 DEF CandidateViewModel
<1>11. ListView(c) \in CandidateViewModel
  <2> DEFINE codes == {b.code : b \in blockers[c]}
  <2>1. (codes # {}) \in BOOLEAN
    OBVIOUS
  <2>2. ListView(c) =
             [stage |-> candidate[c].stage, status |-> candidate[c].status,
              revision |-> candidate[c].revision,
              evaluationSnapshotHash |-> UnavailableSnapshot,
              promotionEligible |-> ProjectedEligible(candidate[c], c),
              lifecycleApprovalState |-> ApprovalState(candidate[c], c),
              activationState |-> "NOT_REQUESTED",
              hasBlocker |-> codes # {},
              registryOperationId |-> NoOperationId]
    BY ListFields
  <2> HIDE DEF codes
  <2> QED
    BY <1>1, <1>2, <1>3, <2>1, <2>2 DEF CandidateViewModel, ActivationStates
<1> QED
  BY <1>8, <1>9, <1>10, <1>11

\* The answers and the view model always have the types the web application
\* declares for them: an operation a view names is one that was made.
THEOREM ViewsHaveTypes == Spec => []ViewTypeOK
<1>1. DecisionsInv => ViewTypeOK
  BY ViewTypes DEF DecisionsInv, CandidateInv, ViewTypeOK
<1> QED
  BY <1>1, DecisionsHold, PTL
================================================================================
