-------------------------- MODULE TransactionsProofs --------------------------
(***************************************************************************)
(* Proofs about Transactions: the types, who may end an attempt, which     *)
(* transactions a deadlock needs, and that they implement RegistryRows.    *)
(*                                                                         *)
(* The inductive invariant says of each process how far it is and which    *)
(* locks it has by then (Disciplined).  Another process can neither take a *)
(* lock of its nor change what it has checked under one: that is lemma     *)
(* Undisturbed, whose conditions each action meets.                        *)
(***************************************************************************)
EXTENDS Transactions, LeasesProofs

Kind == {"NONE"} \cup WorkerKind \cup SessionKind
Txn == [kind : Kind, on : SUBSET Candidate, wants : Seq(Lock), rest : SUBSET Candidate,
        answer : {"NONE", "PUBLISHED", "TRANSIENT", "TERMINAL"}]

TypeInv ==
    /\ operation \in [Candidate -> WorkRow] /\ candidate \in [Candidate -> Standing]
    /\ lock \in [Lock -> Process \cup {Free}]
    /\ beats \subseteq Candidate /\ commands \in 0..MaxCommands
    /\ txn \in [Process -> Txn]
    /\ \A p \in Process : txn[p].kind \in WorkerKind => p \in Worker

OwnedInv == \A c \in Candidate : operation[c].owner # NoOwner => operation[c].status = "RUNNING"

Has(p, l) == l \in Lock /\ lock[l] = p
HasNone(p) == \A l \in Lock : lock[l] # p
HasOnly(p, k) == \A l \in Lock : lock[l] = p <=> l = k

Claiming(p, c) ==
    /\ txn[p].on = {c} /\ Has(p, OperationOf(c)) /\ Claimable(operation[c])
    /\ \/ txn[p].wants = << EventLog >> /\ ~Has(p, EventLog)
       \/ txn[p].wants = << >>

Completing(p, c) ==
    /\ txn[p].on = {c}
    /\ \/ txn[p].wants = << OperationOf(c), Row(c), EventLog >> /\ HasNone(p)
       \/ /\ Has(p, OperationOf(c))
          /\ operation[c].status = "RUNNING" /\ operation[c].owner = IdOf[p]
          /\ \/ txn[p].wants = << Row(c), EventLog >> /\ HasOnly(p, OperationOf(c))
             \/ txn[p].wants = << EventLog >> /\ ~Has(p, EventLog)
             \/ txn[p].wants = << >>

Retrying(p, c) ==
    /\ txn[p].on = {c}
    /\ \/ txn[p].wants = << OperationOf(c), Row(c), EventLog >> /\ HasNone(p)
       \/ txn[p].wants = << Row(c), EventLog >> /\ HasOnly(p, OperationOf(c))
       \/ /\ Has(p, Row(c)) /\ Has(p, OperationOf(c)) /\ operation[c].status = "FAILED"
          /\ \/ txn[p].wants = << EventLog >> /\ ~Has(p, EventLog)
             \/ txn[p].wants = << >>

Promoting(p, c) ==
    /\ txn[p].on = {c}
    /\ \/ txn[p].wants = << Row(c), OperationOf(c), EventLog >> /\ HasNone(p)
       \/ txn[p].wants = << OperationOf(c), EventLog >> /\ HasOnly(p, Row(c))
       \/ /\ Has(p, Row(c)) /\ operation[c].status \notin Unfinished
          /\ \/ txn[p].wants = << EventLog >> /\ ~Has(p, EventLog)
             \/ txn[p].wants = << >>

\* An evaluation's own promotion: no lock on a finished operation, so its last lock
\* may be the event log's.
Following(p, c) ==
    /\ txn[p].on = {c}
    /\ \/ txn[p].wants = << Row(c), EventLog, OperationOf(c) >> /\ HasNone(p)
       \/ txn[p].wants = << EventLog, OperationOf(c) >> /\ HasOnly(p, Row(c))
       \/ txn[p].wants = << OperationOf(c) >> /\ Has(p, Row(c))
       \/ /\ txn[p].wants = << >>
          /\ Has(p, Row(c)) /\ operation[c].status \notin Unfinished

Moving(p, c) ==
    /\ txn[p].on = {c}
    /\ \/ txn[p].wants = << Row(c), EventLog >> /\ HasNone(p)
       \/ txn[p].wants = << EventLog >> /\ ~Has(p, EventLog)
       \/ txn[p].wants = << >>

DeadLettering(p) ==
    /\ \A c \in txn[p].on : Has(p, OperationOf(c)) /\ Exhausted(operation[c])
    /\ txn[p].rest \subseteq txn[p].on
    /\ \/ \E c \in txn[p].on :
             /\ txn[p].wants = << Row(c), EventLog >>
             /\ \/ Has(p, EventLog)
                \/ \A d \in Candidate : ~Has(p, Row(d))
       \/ txn[p].wants = << EventLog >>
       \/ txn[p].wants = << >>

\* How far a process is, by the kind of its transaction.
Disciplined(p) ==
    /\ txn[p].kind # "DEAD_LETTER" => txn[p].rest = {}
    /\ txn[p].kind \in {"NONE", "PUBLISHING"} => txn[p].wants = << >> /\ HasNone(p)
    /\ txn[p].kind = "PUBLISHING" => \E c \in Candidate : txn[p].on = {c}
    /\ txn[p].kind = "CLAIM" => \E c \in Candidate : Claiming(p, c)
    /\ txn[p].kind = "COMPLETE" => \E c \in Candidate : Completing(p, c)
    /\ txn[p].kind = "RETRY" => \E c \in Candidate : Retrying(p, c)
    /\ txn[p].kind = "PROMOTE" => \E c \in Candidate : Promoting(p, c)
    /\ txn[p].kind = "EVALUATION_PROMOTES" => \E c \in Candidate : Following(p, c)
    /\ txn[p].kind \in {"CHECK", "EVALUATION_FAILS"} => \E c \in Candidate : Moving(p, c)
    /\ txn[p].kind = "DEAD_LETTER" => DeadLettering(p)

IInv == TypeInv /\ OwnedInv /\ \A p \in Process : Disciplined(p)

\* What keeps a process where it is: nobody changes what it has checked.
Keeps(q) ==
    \A c \in Candidate :
        /\ lock[OperationOf(c)] = q /\ operation[c].status \in Unfinished =>
              operation'[c] \in {operation[c], [operation[c] EXCEPT !.lease = "EXPIRED"]}
        /\ lock[Row(c)] = q /\ operation[c].status \notin Unfinished =>
              operation'[c].status = operation[c].status

(***************************************************************************)
(* Locks and what is left to ask for.                                      *)
(***************************************************************************)
LEMMA LockFacts ==
    /\ EventLog \in Lock
    /\ \A c \in Candidate :
          /\ OperationOf(c) \in Lock /\ Row(c) \in Lock
          /\ OperationOf(c) # EventLog /\ Row(c) # EventLog
          /\ \A d \in Candidate :
                /\ OperationOf(c) # Row(d)
                /\ OperationOf(c) = OperationOf(d) => c = d
                /\ Row(c) = Row(d) => c = d
    /\ \A l \in Lock : l = EventLog \/ \E c \in Candidate : l \in {OperationOf(c), Row(c)}
BY DEF Lock, OperationOf, Row, EventLog

LEMMA TupleFacts ==
    ASSUME NEW a, NEW b, NEW c
    PROVE  /\ << a >> # << >> /\ Head(<< a >>) = a /\ Tail(<< a >>) = << >>
           /\ << a, b >> # << >> /\ Head(<< a, b >>) = a /\ Tail(<< a, b >>) = << b >>
           /\ << a, b, c >> # << >> /\ Head(<< a, b, c >>) = a
           /\ Tail(<< a, b, c >>) = << b, c >>
OBVIOUS

LEMMA WantsFacts ==
    ASSUME NEW a \in Lock, NEW b \in Lock, NEW c \in Lock
    PROVE  /\ << >> \in Seq(Lock) /\ << a >> \in Seq(Lock)
           /\ << a, b >> \in Seq(Lock) /\ << a, b, c >> \in Seq(Lock)
OBVIOUS

LEMMA BeginFacts ==
    ASSUME NEW kind \in Kind, NEW cs \in SUBSET Candidate, NEW wants \in Seq(Lock)
    PROVE  /\ Begin(kind, cs, wants) \in Txn
           /\ Begin(kind, cs, wants).kind = kind /\ Begin(kind, cs, wants).on = cs
           /\ Begin(kind, cs, wants).wants = wants /\ Begin(kind, cs, wants).rest = {}
BY DEF Begin, NoTxn, Txn

LEMMA NoTxnFacts ==
    NoTxn \in Txn /\ NoTxn.kind = "NONE" /\ NoTxn.wants = << >> /\ NoTxn.rest = {}
BY DEF NoTxn, Txn, Kind

(***************************************************************************)
(* A process that is left alone stays where it is.                         *)
(***************************************************************************)
LEMMA KeptRow ==
    ASSUME TypeInv, NEW q \in Process, Keeps(q), NEW c \in Candidate, lock[OperationOf(c)] = q
    PROVE  /\ Claimable(operation[c]) => Claimable(operation[c])'
           /\ Exhausted(operation[c]) => Exhausted(operation[c])'
           /\ operation[c].status = "RUNNING" =>
                 /\ operation'[c].status = "RUNNING" /\ operation'[c].owner = operation[c].owner
<1>1. operation[c] \in WorkRow
  BY DEF TypeInv
<1>2. SUFFICES ASSUME operation[c].status \in Unfinished,
                      operation'[c] = [operation[c] EXCEPT !.lease = "EXPIRED"]
               PROVE  /\ Claimable(operation[c]) => Claimable(operation[c])'
                      /\ Exhausted(operation[c]) => Exhausted(operation[c])'
                      /\ operation[c].status = "RUNNING" =>
                            /\ operation'[c].status = "RUNNING"
                            /\ operation'[c].owner = operation[c].owner
  BY DEF Keeps, Claimable, Exhausted, Unfinished
<1>3. /\ operation'[c].status = operation[c].status
      /\ operation'[c].attempts = operation[c].attempts
      /\ operation'[c].lease = "EXPIRED" /\ operation'[c].owner = operation[c].owner
  BY <1>1, <1>2 DEF WorkRow
<1> QED
  BY <1>3 DEF Claimable, Exhausted

LEMMA Undisturbed ==
    ASSUME TypeInv, NEW q \in Process, Disciplined(q), Keeps(q), txn'[q] = txn[q],
           \A l \in Lock : lock'[l] = q <=> lock[l] = q
    PROVE  Disciplined(q)'
<1> USE LockFacts
<1>1. ASSUME NEW c \in Candidate, Claiming(q, c)
      PROVE  Claiming(q, c)'
  BY <1>1, KeptRow DEF Claiming, Has
<1>2. ASSUME NEW c \in Candidate, Completing(q, c)
      PROVE  Completing(q, c)'
  BY <1>2, KeptRow DEF Completing, Has, HasNone, HasOnly
<1>3. ASSUME NEW c \in Candidate, Retrying(q, c)
      PROVE  Retrying(q, c)'
  BY <1>3 DEF Retrying, Has, HasNone, HasOnly, Keeps, Unfinished
<1>4. ASSUME NEW c \in Candidate, Promoting(q, c)
      PROVE  Promoting(q, c)'
  BY <1>4 DEF Promoting, Has, HasNone, HasOnly, Keeps
<1>5. ASSUME NEW c \in Candidate, Moving(q, c)
      PROVE  Moving(q, c)'
  BY <1>5 DEF Moving, Has, HasNone
<1>6. ASSUME DeadLettering(q)
      PROVE  DeadLettering(q)'
  BY <1>6, KeptRow DEF DeadLettering, Has, TypeInv, Txn
<1>7. HasNone(q) => HasNone(q)'
  BY DEF HasNone
<1>8. ASSUME NEW c \in Candidate, Following(q, c)
      PROVE  Following(q, c)'
  BY <1>8 DEF Following, Has, HasNone, HasOnly, Keeps
<1> QED
  BY <1>1, <1>2, <1>3, <1>4, <1>5, <1>6, <1>7, <1>8 DEF Disciplined

LEMMA ProcessFacts ==
    /\ Worker \subseteq Process /\ Session \subseteq Process
    /\ \A p \in Process : p # Free
BY ProcessAssumption DEF Process

LEMMA TxnMoves ==
    ASSUME TypeInv, NEW p \in Process, NEW t \in Txn, txn' = [txn EXCEPT ![p] = t]
    PROVE  /\ txn'[p] = t /\ txn' \in [Process -> Txn]
           /\ \A q \in Process \ {p} : txn'[q] = txn[q]
BY DEF TypeInv

\* A step of one process keeps the invariant when it keeps the types, leaves the
\* others alone and takes the process where it may be.
LEMMA OneMoves ==
    ASSUME IInv, NEW p \in Process, NEW t \in Txn, txn' = [txn EXCEPT ![p] = t],
           t.kind \in WorkerKind => p \in Worker,
           operation' \in [Candidate -> WorkRow], candidate' \in [Candidate -> Standing],
           lock' \in [Lock -> Process \cup {Free}],
           beats' \subseteq Candidate, commands' \in 0..MaxCommands, OwnedInv',
           \A q \in Process \ {p} :
              Keeps(q) /\ \A l \in Lock : lock'[l] = q <=> lock[l] = q,
           Disciplined(p)'
    PROVE  IInv'
<1>1. TypeInv /\ \A q \in Process : Disciplined(q)
  BY DEF IInv
<1>2. /\ txn'[p] = t /\ txn' \in [Process -> Txn]
      /\ \A q \in Process \ {p} : txn'[q] = txn[q]
  BY <1>1, TxnMoves
<1>3. \A q \in Process : txn'[q].kind \in WorkerKind => q \in Worker
  BY <1>1, <1>2 DEF TypeInv
<1>4. TypeInv'
  BY <1>2, <1>3 DEF TypeInv
<1>5. \A q \in Process \ {p} : Disciplined(q)'
  BY <1>1, <1>2, Undisturbed
<1> QED
  BY <1>4, <1>5 DEF IInv

LEMMA LockTaken ==
    ASSUME TypeInv, NEW p \in Process, NEW k \in Lock, lock[k] \in {Free, p},
           lock' = [lock EXCEPT ![k] = p]
    PROVE  /\ lock' \in [Lock -> Process \cup {Free}]
           /\ \A l \in Lock : lock'[l] = p <=> lock[l] = p \/ l = k
           /\ \A q \in Process \ {p} : \A l \in Lock : lock'[l] = q <=> lock[l] = q
BY ProcessFacts DEF TypeInv

LEMMA LocksReleased ==
    ASSUME TypeInv, NEW p \in Process, lock' = Unlocked(p)
    PROVE  /\ lock' \in [Lock -> Process \cup {Free}]
           /\ HasNone(p)'
           /\ \A q \in Process \ {p} : \A l \in Lock : lock'[l] = q <=> lock[l] = q
BY ProcessFacts DEF TypeInv, Unlocked, HasNone

LEMMA SameRows ==
    ASSUME operation' = operation, NEW q
    PROVE  Keeps(q)
BY DEF Keeps

LEMMA WorkRowFacts ==
    ASSUME NEW w \in WorkRow
    PROVE  /\ Queued \in WorkRow /\ Queued.status = "QUEUED" /\ Queued.owner = NoOwner
           /\ \A status \in WorkStatus :
                 /\ Released(w, status) \in WorkRow
                 /\ Released(w, status).status = status /\ Released(w, status).owner = NoOwner
                 /\ [Released(w, status) EXCEPT !.attempts = 0] \in WorkRow
                 /\ [Released(w, status) EXCEPT !.attempts = 0].status = status
                 /\ [Released(w, status) EXCEPT !.attempts = 0].owner = NoOwner
           /\ \A id \in WorkerId : Claimable(w) =>
                 Claimed(w, id) \in WorkRow /\ Claimed(w, id).status = "RUNNING"
           /\ \A lease \in LeaseState :
                 /\ [w EXCEPT !.lease = lease] \in WorkRow
                 /\ [w EXCEPT !.lease = lease].status = w.status
                 /\ [w EXCEPT !.lease = lease].owner = w.owner
<1>1. Queued \in WorkRow /\ Queued.status = "QUEUED" /\ Queued.owner = NoOwner
  BY NewRowType DEF Queued, Absent
<1>2. ASSUME NEW status \in WorkStatus
      PROVE  /\ Released(w, status) \in WorkRow
             /\ Released(w, status).status = status /\ Released(w, status).owner = NoOwner
  <2>1. Released(w, status) \in WorkRow
    BY ReleasedType
  <2> QED
    BY <2>1 DEF Released, WorkRow
<1>3. ASSUME NEW r \in WorkRow
      PROVE  LET z == [r EXCEPT !.attempts = 0]
             IN  z \in WorkRow /\ z.status = r.status /\ z.owner = r.owner
  BY AttemptsAssumption DEF WorkRow
<1>4. ASSUME NEW id \in WorkerId, Claimable(w)
      PROVE  Claimed(w, id) \in WorkRow /\ Claimed(w, id).status = "RUNNING"
  <2>1. Claimed(w, id) \in WorkRow
    BY <1>4, ClaimedType
  <2> QED
    BY <2>1 DEF Claimed, WorkRow
<1>5. ASSUME NEW lease \in LeaseState
      PROVE  LET z == [w EXCEPT !.lease = lease]
             IN  z \in WorkRow /\ z.status = w.status /\ z.owner = w.owner
  BY DEF WorkRow
<1>6. \A status \in WorkStatus :
         /\ [Released(w, status) EXCEPT !.attempts = 0] \in WorkRow
         /\ [Released(w, status) EXCEPT !.attempts = 0].status = status
         /\ [Released(w, status) EXCEPT !.attempts = 0].owner = NoOwner
  BY <1>2, <1>3
<1> QED
  BY <1>1, <1>2, <1>4, <1>5, <1>6

(***************************************************************************)
(* Beginning a transaction.                                                *)
(***************************************************************************)
LEMMA ClaimShape ==
    ASSUME NEW p \in Process, PickClaimable(p)
    PROVE  \E c \in Candidate, t \in Txn :
              /\ Claimable(operation[c]) /\ lock[OperationOf(c)] = Free
              /\ lock' = [lock EXCEPT ![OperationOf(c)] = p]
              /\ txn' = [txn EXCEPT ![p] = t]
              /\ t.kind = "CLAIM" /\ t.on = {c} /\ t.wants = << EventLog >> /\ t.rest = {}
<1>1. "CLAIM" \in Kind /\ << EventLog >> \in Seq(Lock)
  BY LockFacts DEF Kind, WorkerKind
<1>2. ASSUME NEW c \in Candidate
      PROVE  LET t == Begin("CLAIM", {c}, << EventLog >>)
             IN  /\ t \in Txn /\ t.kind = "CLAIM" /\ t.on = {c}
                 /\ t.wants = << EventLog >> /\ t.rest = {}
  BY <1>1 DEF Begin, NoTxn, Txn
<1> QED
  BY <1>2 DEF PickClaimable

Unheld == {c \in Candidate : Exhausted(operation[c]) /\ lock[OperationOf(c)] = Free}

LEMMA DeadLetterShape ==
    ASSUME NEW p \in Process, PickExhausted(p)
    PROVE  \E c \in Unheld, t \in Txn :
              /\ lock' = [l \in Lock |->
                    IF l \in {OperationOf(d) : d \in Unheld} THEN p ELSE lock[l]]
              /\ txn' = [txn EXCEPT ![p] = t]
              /\ t.kind = "DEAD_LETTER" /\ t.on = Unheld
              /\ t.wants = << Row(c), EventLog >> /\ t.rest = Unheld \ {c}
<1>1. ASSUME NEW c \in Unheld
      PROVE  LET t == [Begin("DEAD_LETTER", Unheld, << Row(c), EventLog >>)
                         EXCEPT !.rest = Unheld \ {c}]
             IN  /\ t \in Txn /\ t.kind = "DEAD_LETTER" /\ t.on = Unheld
                 /\ t.wants = << Row(c), EventLog >> /\ t.rest = Unheld \ {c}
  <2>1. /\ << Row(c), EventLog >> \in Seq(Lock) /\ "DEAD_LETTER" \in Kind
        /\ Unheld \in SUBSET Candidate
    BY WantsFacts, LockFacts DEF Kind, WorkerKind, Unheld
  <2> QED
    BY <2>1 DEF Begin, NoTxn, Txn
<1> QED
  BY <1>1 DEF PickExhausted, Unheld

LEMMA AnswerShape ==
    ASSUME TypeInv, NEW p \in Process, PublishReturns(p)
    PROVE  \E c \in txn[p].on, t \in Txn :
              /\ c \in Candidate /\ txn' = [txn EXCEPT ![p] = t]
              /\ t.kind = "COMPLETE" /\ t.on = {c}
              /\ t.wants = << OperationOf(c), Row(c), EventLog >> /\ t.rest = {}
<1>1. txn[p].on \subseteq Candidate
  BY DEF TypeInv, Txn
<1>2. PICK c \in txn[p].on, answer \in {"PUBLISHED", "TRANSIENT", "TERMINAL"} :
         txn' = [txn EXCEPT ![p] =
            [Begin("COMPLETE", {c}, << OperationOf(c), Row(c), EventLog >>)
               EXCEPT !.answer = answer]]
  BY DEF PublishReturns
<1>3. << OperationOf(c), Row(c), EventLog >> \in Seq(Lock)
  BY <1>1, WantsFacts, LockFacts
<1>4. LET t == [Begin("COMPLETE", {c}, << OperationOf(c), Row(c), EventLog >>)
                  EXCEPT !.answer = answer]
      IN  /\ t \in Txn /\ t.kind = "COMPLETE" /\ t.on = {c}
          /\ t.wants = << OperationOf(c), Row(c), EventLog >> /\ t.rest = {}
  BY <1>1, <1>3 DEF Begin, NoTxn, Txn, Kind, WorkerKind
<1> QED
  BY <1>1, <1>2, <1>4

LEMMA RequestShape ==
    ASSUME NEW s \in Process, Request(s)
    PROVE  \E kind \in SessionKind, c \in Candidate, t \in Txn :
              /\ txn' = [txn EXCEPT ![s] = t] /\ t.kind = kind /\ t.on = {c}
              /\ t.wants = WantedBy(kind, c) /\ t.rest = {}
<1>1. PICK kind \in SessionKind, c \in Candidate :
         txn' = [txn EXCEPT ![s] = Begin(kind, {c}, WantedBy(kind, c))]
  BY DEF Request
<1>2. WantedBy(kind, c) \in Seq(Lock)
  BY WantsFacts, LockFacts DEF WantedBy
<1>3. kind \in Kind /\ {c} \in SUBSET Candidate
  BY DEF Kind
<1>4. LET t == Begin(kind, {c}, WantedBy(kind, c))
      IN  /\ t \in Txn /\ t.kind = kind /\ t.on = {c}
          /\ t.wants = WantedBy(kind, c) /\ t.rest = {}
  BY <1>2, <1>3 DEF Begin, NoTxn, Txn
<1> QED
  BY <1>1, <1>4

LEMMA PickClaimableStep ==
    ASSUME IInv, NEW p \in Worker, PickClaimable(p)
    PROVE  IInv'
<1>1. PICK c \in Candidate, t \in Txn :
         /\ Claimable(operation[c]) /\ lock[OperationOf(c)] = Free
         /\ lock' = [lock EXCEPT ![OperationOf(c)] = p]
         /\ txn' = [txn EXCEPT ![p] = t]
         /\ t.kind = "CLAIM" /\ t.on = {c} /\ t.wants = << EventLog >> /\ t.rest = {}
  BY ProcessFacts, ClaimShape
<1>2. /\ UNCHANGED << operation, candidate, beats, commands >>
      /\ TypeInv /\ OwnedInv /\ HasNone(p) /\ p \in Process
  BY ProcessFacts, NoTxnFacts DEF PickClaimable, IInv, Disciplined
<1>3. OperationOf(c) \in Lock
  BY LockFacts
<1>4. /\ lock' \in [Lock -> Process \cup {Free}]
      /\ \A l \in Lock : lock'[l] = p <=> lock[l] = p \/ l = OperationOf(c)
      /\ \A q \in Process \ {p} : \A l \in Lock : lock'[l] = q <=> lock[l] = q
  BY <1>1, <1>2, <1>3, LockTaken
<1>5. txn'[p] = t
  BY <1>1, <1>2, TxnMoves
<1>6. Claiming(p, c)'
  BY <1>1, <1>2, <1>4, <1>5, LockFacts DEF Claiming, Has, HasNone
<1>7. Disciplined(p)'
  BY <1>1, <1>5, <1>6 DEF Disciplined
<1>8. OwnedInv' /\ \A q \in Process \ {p} : Keeps(q)
  BY <1>2, SameRows DEF OwnedInv
<1> QED
  BY <1>1, <1>2, <1>4, <1>7, <1>8, OneMoves DEF TypeInv

LEMMA PickExhaustedStep ==
    ASSUME IInv, NEW p \in Worker, PickExhausted(p)
    PROVE  IInv'
<1> DEFINE taken == {OperationOf(c) : c \in Unheld}
<1>1. PICK c \in Unheld, t \in Txn :
         /\ lock' = [l \in Lock |-> IF l \in taken THEN p ELSE lock[l]]
         /\ txn' = [txn EXCEPT ![p] = t]
         /\ t.kind = "DEAD_LETTER" /\ t.on = Unheld
         /\ t.wants = << Row(c), EventLog >> /\ t.rest = Unheld \ {c}
  BY ProcessFacts, DeadLetterShape
<1>2. /\ UNCHANGED << operation, candidate, beats, commands >>
      /\ TypeInv /\ OwnedInv /\ HasNone(p) /\ p \in Process
  BY ProcessFacts, NoTxnFacts DEF PickExhausted, IInv, Disciplined
<1>3. taken \in SUBSET Lock /\ \A l \in taken : lock[l] = Free
  BY LockFacts DEF Unheld
<1>4. /\ lock' \in [Lock -> Process \cup {Free}]
      /\ \A l \in Lock : lock'[l] = p <=> lock[l] = p \/ l \in taken
      /\ \A q \in Process \ {p} : \A l \in Lock : lock'[l] = q <=> lock[l] = q
  <2> HIDE DEF taken
  <2> QED
    BY <1>1, <1>2, <1>3, ProcessFacts DEF TypeInv
<1>5. txn'[p] = t
  BY <1>1, <1>2, TxnMoves
<1>6. DeadLettering(p)'
  <2>1. \A d \in Unheld : Has(p, OperationOf(d))' /\ Exhausted(operation[d])'
    BY <1>2, <1>4, LockFacts DEF Has, Unheld
  <2>2. \A d \in Candidate : ~Has(p, Row(d))'
    BY <1>2, <1>4, LockFacts DEF Has, HasNone, Unheld
  <2> QED
    BY <1>1, <1>5, <2>1, <2>2 DEF DeadLettering
<1>7. Disciplined(p)'
  BY <1>1, <1>5, <1>6 DEF Disciplined
<1>8. OwnedInv' /\ \A q \in Process \ {p} : Keeps(q)
  BY <1>2, SameRows DEF OwnedInv
<1> QED
  BY <1>1, <1>2, <1>4, <1>7, <1>8, OneMoves DEF TypeInv

LEMMA PublishReturnsStep ==
    ASSUME IInv, NEW p \in Worker, PublishReturns(p)
    PROVE  IInv'
<1>1. /\ UNCHANGED << operation, candidate, lock, beats, commands >>
      /\ TypeInv /\ OwnedInv /\ HasNone(p) /\ p \in Process /\ txn[p] \in Txn
  BY ProcessFacts DEF PublishReturns, IInv, Disciplined, TypeInv
<1>2. PICK c \in Candidate, t \in Txn :
         /\ txn' = [txn EXCEPT ![p] = t] /\ t.kind = "COMPLETE" /\ t.on = {c}
         /\ t.wants = << OperationOf(c), Row(c), EventLog >> /\ t.rest = {}
  BY <1>1, AnswerShape
<1>3. txn'[p] = t
  BY <1>1, <1>2, TxnMoves
<1>4. Completing(p, c)'
  BY <1>1, <1>2, <1>3 DEF Completing, HasNone
<1>5. Disciplined(p)'
  BY <1>2, <1>3, <1>4 DEF Disciplined
<1>6. OwnedInv' /\ \A q \in Process \ {p} : Keeps(q)
  BY <1>1, SameRows DEF OwnedInv
<1> QED
  BY <1>1, <1>2, <1>5, <1>6, OneMoves DEF TypeInv

LEMMA RequestStep ==
    ASSUME IInv, NEW s \in Session, Request(s)
    PROVE  IInv'
<1>1. /\ UNCHANGED << operation, candidate, lock, beats >>
      /\ commands < MaxCommands /\ commands' = commands + 1
      /\ TypeInv /\ OwnedInv /\ HasNone(s) /\ s \in Process
  BY ProcessFacts, NoTxnFacts DEF Request, IInv, Disciplined
<1>2. PICK kind \in SessionKind, c \in Candidate, t \in Txn :
         /\ txn' = [txn EXCEPT ![s] = t] /\ t.kind = kind /\ t.on = {c}
         /\ t.wants = WantedBy(kind, c) /\ t.rest = {}
  BY <1>1, RequestShape
<1>3. txn'[s] = t
  BY <1>1, <1>2, TxnMoves
<1>4. HasNone(s)'
  BY <1>1 DEF HasNone
<1>5. Disciplined(s)'
  <2>1. CASE kind = "RETRY"
    BY <1>2, <1>3, <1>4, <2>1 DEF Disciplined, Retrying, WantedBy
  <2>2. CASE kind = "PROMOTE"
    BY <1>2, <1>3, <1>4, <2>2 DEF Disciplined, Promoting, WantedBy
  <2>3. CASE kind \in {"CHECK", "EVALUATION_FAILS"}
    BY <1>2, <1>3, <1>4, <2>3 DEF Disciplined, Moving, WantedBy
  <2>4. CASE kind = "EVALUATION_PROMOTES"
    BY <1>2, <1>3, <1>4, <2>4 DEF Disciplined, Following, WantedBy
  <2> QED
    BY <1>2, <2>1, <2>2, <2>3, <2>4 DEF SessionKind, Promotion
<1>6. OwnedInv' /\ \A q \in Process \ {s} : Keeps(q)
  BY <1>1, SameRows DEF OwnedInv
<1>7. commands' \in 0..MaxCommands
  BY <1>1, CommandAssumption DEF TypeInv
<1>8. t.kind \notin WorkerKind
  BY <1>2 DEF SessionKind, Promotion, WorkerKind
<1> QED
  BY <1>1, <1>2, <1>5, <1>6, <1>7, <1>8, OneMoves DEF TypeInv

(***************************************************************************)
(* A lock is granted.                                                      *)
(***************************************************************************)
\* What is left to ask for: the rest of it, the rest without an operation that
\* needs no lock, or a dead letter's next candidate.
LEMMA AcquireShape ==
    ASSUME IInv, NEW p \in Process, Acquire(p)
    PROVE  /\ Asks(p) /\ Wanted(p) \in Lock /\ lock[Wanted(p)] \in {Free, p}
           /\ \A c \in txn[p].on : ~Refuses(p, c)
           /\ \E t \in Txn :
                 /\ txn' = [txn EXCEPT ![p] = t]
                 /\ t.kind = txn[p].kind /\ t.on = txn[p].on
                 /\ \/ /\ t.wants = Tail(Tail(txn[p].wants)) /\ t.rest = txn[p].rest
                       /\ \E c \in txn[p].on : Passes(p, c)
                    \/ /\ t.wants = Tail(txn[p].wants) /\ t.rest = txn[p].rest
                       /\ t.wants = << >> => t.rest = {}
                       /\ \A c \in txn[p].on : ~Passes(p, c)
                    \/ /\ Tail(txn[p].wants) = << >>
                       /\ \E c \in txn[p].rest :
                             t.wants = << Row(c), EventLog >> /\ t.rest = txn[p].rest \ {c}
<1>1. txn[p] \in Txn /\ TypeInv
  BY DEF IInv, TypeInv
<1>2. txn[p].wants \in Seq(Lock) /\ txn[p].wants # << >>
  BY <1>1 DEF Acquire, Asks, Txn
<1>3. Head(txn[p].wants) \in Lock /\ Tail(txn[p].wants) \in Seq(Lock)
  BY <1>2
<1>4. Asks(p) /\ Wanted(p) \in Lock /\ lock[Wanted(p)] \in {Free, p}
  BY <1>3 DEF Acquire, Wanted, Waits
<1>5. ASSUME NEW wants \in Seq(Lock), NEW rest \in SUBSET Candidate
      PROVE  LET t == [txn[p] EXCEPT !.wants = wants, !.rest = rest]
             IN  /\ t \in Txn /\ t.kind = txn[p].kind /\ t.on = txn[p].on
                 /\ t.wants = wants /\ t.rest = rest
  BY <1>1 DEF Txn
<1>6. txn[p].rest \in SUBSET Candidate
  BY <1>1 DEF Txn
<1>7. CASE /\ \E c \in txn[p].on : Passes(p, c)
           /\ txn' = [txn EXCEPT ![p].wants = Tail(Tail(@))]
  <2>1. Tail(Tail(txn[p].wants)) \in Seq(Lock)
    <3>1. PICK c \in Candidate : c \in txn[p].on /\ Passes(p, c)
      BY <1>1, <1>7 DEF Txn
    <3>2. CASE txn[p].kind = "PROMOTE"
      <4>1. Promoting(p, c) /\ Head(txn[p].wants) = Row(c)
        BY <1>1, <3>1, <3>2 DEF IInv, Disciplined, Passes, Promoting, Wanted
      <4>2. txn[p].wants = << Row(c), OperationOf(c), EventLog >>
        BY <1>2, <4>1, LockFacts DEF Promoting
      <4> QED
        BY <4>2, LockFacts, WantsFacts
    <3>3. CASE txn[p].kind = "EVALUATION_PROMOTES"
      <4>1. Following(p, c) /\ Head(txn[p].wants) = EventLog
        BY <1>1, <3>1, <3>3 DEF IInv, Disciplined, Passes, Following, Wanted
      <4>2. txn[p].wants = << EventLog, OperationOf(c) >>
        BY <1>2, <4>1, LockFacts DEF Following
      <4> QED
        BY <4>2, LockFacts, WantsFacts
    <3> QED
      BY <3>1, <3>2, <3>3 DEF Passes
  <2>2. txn' = [txn EXCEPT ![p] = [txn[p] EXCEPT !.wants = Tail(Tail(txn[p].wants)),
                                                 !.rest = txn[p].rest]]
    BY <1>1, <1>7 DEF TypeInv, Txn
  <2>3. PICK t \in Txn :
           /\ txn' = [txn EXCEPT ![p] = t] /\ t.kind = txn[p].kind /\ t.on = txn[p].on
           /\ t.wants = Tail(Tail(txn[p].wants)) /\ t.rest = txn[p].rest
    <3> DEFINE u == [txn[p] EXCEPT !.wants = Tail(Tail(txn[p].wants)), !.rest = txn[p].rest]
    <3>1. /\ u \in Txn /\ u.kind = txn[p].kind /\ u.on = txn[p].on
          /\ u.wants = Tail(Tail(txn[p].wants)) /\ u.rest = txn[p].rest
      BY <1>5, <1>6, <2>1
    <3>2. txn' = [txn EXCEPT ![p] = u]
      BY <2>2
    <3> QED
      BY <3>1, <3>2
  <2> QED
    BY <1>4, <1>7, <2>3 DEF Acquire
<1>8. CASE /\ \A c \in txn[p].on : ~Passes(p, c)
           /\ Tail(txn[p].wants) = << >> => txn[p].rest = {}
           /\ txn' = [txn EXCEPT ![p].wants = Tail(@)]
  <2>1. txn' = [txn EXCEPT ![p] = [txn[p] EXCEPT !.wants = Tail(txn[p].wants),
                                                 !.rest = txn[p].rest]]
    BY <1>1, <1>8 DEF TypeInv, Txn
  <2>2. PICK t \in Txn :
           /\ txn' = [txn EXCEPT ![p] = t] /\ t.kind = txn[p].kind /\ t.on = txn[p].on
           /\ t.wants = Tail(txn[p].wants) /\ t.rest = txn[p].rest
    <3> DEFINE u == [txn[p] EXCEPT !.wants = Tail(txn[p].wants), !.rest = txn[p].rest]
    <3>1. /\ u \in Txn /\ u.kind = txn[p].kind /\ u.on = txn[p].on
          /\ u.wants = Tail(txn[p].wants) /\ u.rest = txn[p].rest
      BY <1>3, <1>5, <1>6
    <3>2. txn' = [txn EXCEPT ![p] = u]
      BY <2>1
    <3> QED
      BY <3>1, <3>2
  <2> QED
    BY <1>4, <1>8, <2>2 DEF Acquire
<1>9. ASSUME NEW c \in txn[p].rest, Tail(txn[p].wants) = << >>,
             txn' = [txn EXCEPT ![p].wants = << Row(c), EventLog >>, ![p].rest = @ \ {c}]
      PROVE  \E t \in Txn :
                /\ txn' = [txn EXCEPT ![p] = t]
                /\ t.kind = txn[p].kind /\ t.on = txn[p].on
                /\ t.rest = txn[p].rest \ {c} /\ t.wants = << Row(c), EventLog >>
  <2>1. << Row(c), EventLog >> \in Seq(Lock) /\ txn[p].rest \ {c} \in SUBSET Candidate
    BY <1>6, LockFacts, WantsFacts
  <2>2. txn' = [txn EXCEPT ![p] = [txn[p] EXCEPT !.wants = << Row(c), EventLog >>,
                                                 !.rest = txn[p].rest \ {c}]]
    BY <1>1, <1>9 DEF TypeInv, Txn
  <2> QED
    BY <1>5, <2>1, <2>2
<1>10. CASE /\ Tail(txn[p].wants) = << >>
            /\ \E c \in txn[p].rest :
                  txn' = [txn EXCEPT ![p].wants = << Row(c), EventLog >>, ![p].rest = @ \ {c}]
  <2>1. PICK c \in txn[p].rest :
           txn' = [txn EXCEPT ![p].wants = << Row(c), EventLog >>, ![p].rest = @ \ {c}]
    BY <1>10
  <2>2. PICK t \in Txn :
           /\ txn' = [txn EXCEPT ![p] = t]
           /\ t.kind = txn[p].kind /\ t.on = txn[p].on
           /\ t.rest = txn[p].rest \ {c} /\ t.wants = << Row(c), EventLog >>
    BY <1>9, <1>10, <2>1
  <2> QED
    BY <1>4, <1>10, <2>2 DEF Acquire
<1> QED
  BY <1>7, <1>8, <1>10 DEF Acquire

LEMMA AcquireStep ==
    ASSUME IInv, NEW p \in Process, Acquire(p)
    PROVE  IInv'
<1>1. /\ UNCHANGED << operation, candidate, beats, commands >>
      /\ lock' = [lock EXCEPT ![Wanted(p)] = p]
      /\ TypeInv /\ OwnedInv /\ Disciplined(p) /\ Asks(p) /\ Wanted(p) \in Lock
      /\ lock[Wanted(p)] \in {Free, p} /\ \A c \in txn[p].on : ~Refuses(p, c)
  BY AcquireShape DEF Acquire, IInv
<1>2. PICK t \in Txn :
         /\ txn' = [txn EXCEPT ![p] = t]
         /\ t.kind = txn[p].kind /\ t.on = txn[p].on
         /\ \/ /\ t.wants = Tail(Tail(txn[p].wants)) /\ t.rest = txn[p].rest
               /\ \E c \in txn[p].on : Passes(p, c)
            \/ /\ t.wants = Tail(txn[p].wants) /\ t.rest = txn[p].rest
               /\ \A c \in txn[p].on : ~Passes(p, c)
            \/ /\ t.rest \subseteq txn[p].rest /\ Tail(txn[p].wants) = << >>
               /\ \E c \in txn[p].rest : t.wants = << Row(c), EventLog >>
  BY AcquireShape
<1>3. /\ lock' \in [Lock -> Process \cup {Free}]
      /\ \A l \in Lock : lock'[l] = p <=> lock[l] = p \/ l = Wanted(p)
      /\ \A q \in Process \ {p} : \A l \in Lock : lock'[l] = q <=> lock[l] = q
  BY <1>1, LockTaken
<1>4. txn'[p] = t
  BY <1>1, <1>2, TxnMoves
<1>5. t.kind \notin {"PROMOTE", "EVALUATION_PROMOTES", "DEAD_LETTER"} =>
         t.wants = Tail(txn[p].wants) /\ t.rest = {}
  BY <1>1, <1>2 DEF Disciplined, Passes
<1>6. txn[p].kind \notin {"NONE", "PUBLISHING"}
  BY <1>1 DEF Disciplined, Asks
<1>7. ASSUME txn[p].kind = "CLAIM"
      PROVE  Disciplined(p)'
  <2>1. PICK c \in Candidate : Claiming(p, c)
    BY <1>1, <1>7 DEF Disciplined
  <2>2. Claiming(p, c)'
    <3>1. txn[p].wants = << EventLog >> /\ t.wants = << >>
      <4>1. txn[p].wants = << EventLog >>
        BY <1>1, <2>1 DEF Claiming, Asks
      <4> QED
        BY <1>2, <1>5, <1>7, <4>1
    <3> QED
      BY <1>1, <1>2, <1>3, <1>4, <2>1, <3>1 DEF Claiming, Has
  <2> QED
    BY <1>2, <1>4, <1>5, <1>7, <2>2 DEF Disciplined
<1>8. ASSUME txn[p].kind = "COMPLETE"
      PROVE  Disciplined(p)'
  <2>1. PICK c \in Candidate : Completing(p, c)
    BY <1>1, <1>8 DEF Disciplined
  <2>2. Completing(p, c)'
    <3>1. CASE /\ txn[p].wants = << OperationOf(c), Row(c), EventLog >> /\ HasNone(p)
      <4>1. Wanted(p) = OperationOf(c) /\ t.wants = << Row(c), EventLog >>
        BY <1>2, <1>5, <1>8, <3>1 DEF Wanted
      <4>2. Holds(operation[c], p)
        BY <1>1, <1>8, <2>1, <4>1 DEF Refuses, Promotion, Completing
      <4>3. operation[c].owner = IdOf[p] /\ operation[c].status = "RUNNING"
        BY <1>1, <1>8, <4>2, WorkerAssumption DEF Holds, OwnedInv, TypeInv, WorkerKind
      <4> QED
        BY <1>1, <1>2, <1>3, <1>4, <2>1, <3>1, <4>1, <4>3
           DEF Completing, Has, HasNone, HasOnly
    <3>2. CASE /\ Has(p, OperationOf(c)) /\ operation[c].status = "RUNNING"
               /\ operation[c].owner = IdOf[p] /\ HasOnly(p, OperationOf(c))
               /\ txn[p].wants = << Row(c), EventLog >>
      <4>1. Wanted(p) = Row(c) /\ t.wants = << EventLog >>
        BY <1>2, <1>5, <1>8, <3>2 DEF Wanted
      <4> QED
        BY LockFacts, <1>1, <1>2, <1>3, <1>4, <2>1, <3>2, <4>1 DEF Completing, Has, HasOnly
    <3>3. CASE /\ Has(p, OperationOf(c)) /\ operation[c].status = "RUNNING"
               /\ operation[c].owner = IdOf[p] /\ txn[p].wants = << EventLog >>
      <4>1. t.wants = << >>
        BY <1>2, <1>5, <1>8, <3>3
      <4> QED
        BY <1>1, <1>2, <1>3, <1>4, <2>1, <3>3, <4>1 DEF Completing, Has
    <3> QED
      BY <1>1, <2>1, <3>1, <3>2, <3>3 DEF Completing, Asks
  <2> QED
    BY <1>2, <1>4, <1>5, <1>8, <2>2 DEF Disciplined
<1>9. ASSUME txn[p].kind = "RETRY"
      PROVE  Disciplined(p)'
  <2>1. PICK c \in Candidate : Retrying(p, c)
    BY <1>1, <1>9 DEF Disciplined
  <2>2. Retrying(p, c)'
    <3>1. CASE /\ txn[p].wants = << OperationOf(c), Row(c), EventLog >> /\ HasNone(p)
      <4>1. Wanted(p) = OperationOf(c) /\ t.wants = << Row(c), EventLog >>
        BY <1>2, <1>5, <1>9, <3>1 DEF Wanted
      <4> QED
        BY <1>1, <1>2, <1>3, <1>4, <2>1, <3>1, <4>1 DEF Retrying, HasNone, HasOnly
    <3>2. CASE txn[p].wants = << Row(c), EventLog >> /\ HasOnly(p, OperationOf(c))
      <4>1. Wanted(p) = Row(c) /\ t.wants = << EventLog >>
        BY <1>2, <1>5, <1>9, <3>2 DEF Wanted
      <4>2. operation[c].status = "FAILED"
        BY <1>1, <1>9, <2>1, <3>2 DEF Refuses, Retrying
      <4> QED
        BY LockFacts, <1>1, <1>2, <1>3, <1>4, <2>1, <3>2, <4>1, <4>2 DEF Retrying, Has, HasOnly
    <3>3. CASE /\ Has(p, Row(c)) /\ Has(p, OperationOf(c)) /\ operation[c].status = "FAILED"
               /\ txn[p].wants = << EventLog >>
      <4>1. t.wants = << >>
        BY <1>2, <1>5, <1>9, <3>3
      <4> QED
        BY <1>1, <1>2, <1>3, <1>4, <2>1, <3>3, <4>1 DEF Retrying, Has
    <3> QED
      BY <1>1, <2>1, <3>1, <3>2, <3>3 DEF Retrying, Asks
  <2> QED
    BY <1>2, <1>4, <1>5, <1>9, <2>2 DEF Disciplined
<1>10. ASSUME txn[p].kind = "PROMOTE"
       PROVE  Disciplined(p)'
  <2>1. PICK c \in Candidate : Promoting(p, c)
    BY <1>1, <1>10 DEF Disciplined
  <2>2. /\ t.rest = {}
        /\ \/ t.wants = Tail(Tail(txn[p].wants)) /\ Passes(p, c)
           \/ t.wants = Tail(txn[p].wants) /\ ~Passes(p, c)
    BY <1>1, <1>2, <1>10, <2>1 DEF Disciplined, Promoting
  <2>3. Promoting(p, c)'
    <3>1. CASE /\ txn[p].wants = << Row(c), OperationOf(c), EventLog >> /\ HasNone(p)
      <4>1. Wanted(p) = Row(c) /\ Tail(txn[p].wants) = << OperationOf(c), EventLog >>
        BY <3>1 DEF Wanted
      <4>2. CASE Passes(p, c)
        <5>1. operation[c].status \notin Unfinished /\ t.wants = << EventLog >>
          <6>1. t.wants = Tail(<< OperationOf(c), EventLog >>)
            BY <2>2, <4>1, <4>2
          <6> QED
            BY <4>2, <6>1 DEF Passes
        <5> QED
          BY LockFacts, <1>1, <1>2, <1>3, <1>4, <2>1, <3>1, <4>1, <5>1
             DEF Promoting, Has, HasNone
      <4>3. CASE ~Passes(p, c)
        BY <1>1, <1>2, <1>3, <1>4, <2>1, <2>2, <3>1, <4>1, <4>3
           DEF Promoting, HasNone, HasOnly
      <4> QED
        BY <4>2, <4>3
    <3>2. CASE txn[p].wants = << OperationOf(c), EventLog >> /\ HasOnly(p, Row(c))
      <4>1. Wanted(p) = OperationOf(c) /\ Tail(txn[p].wants) = << EventLog >>
        BY <3>2 DEF Wanted
      <4>2. t.wants = << EventLog >>
        BY LockFacts, <2>2, <4>1 DEF Passes
      <4>3. operation[c].status \notin Unfinished
        BY LockFacts, <1>1, <1>10, <2>1, <4>1 DEF Refuses, Promoting, Promotion
      <4> QED
        BY LockFacts, <1>1, <1>2, <1>3, <1>4, <2>1, <3>2, <4>1, <4>2, <4>3
           DEF Promoting, Has, HasOnly
    <3>3. CASE /\ Has(p, Row(c)) /\ operation[c].status \notin Unfinished
               /\ txn[p].wants = << EventLog >>
      <4>1. t.wants = << >>
        BY <2>2, <3>3 DEF Passes, Wanted
      <4> QED
        BY <1>1, <1>2, <1>3, <1>4, <2>1, <3>3, <4>1 DEF Promoting, Has
    <3> QED
      BY <1>1, <2>1, <3>1, <3>2, <3>3 DEF Promoting, Asks
  <2> QED
    BY <1>2, <1>4, <1>10, <2>2, <2>3 DEF Disciplined
<1>11. ASSUME txn[p].kind \in {"CHECK", "EVALUATION_FAILS"}
       PROVE  Disciplined(p)'
  <2>1. PICK c \in Candidate : Moving(p, c)
    BY <1>1, <1>11 DEF Disciplined
  <2>2. Moving(p, c)'
    <3>1. CASE txn[p].wants = << Row(c), EventLog >> /\ HasNone(p)
      <4>1. Wanted(p) = Row(c) /\ t.wants = << EventLog >>
        BY <1>2, <1>5, <1>11, <3>1 DEF Wanted
      <4> QED
        BY LockFacts, <1>1, <1>2, <1>3, <1>4, <2>1, <3>1, <4>1 DEF Moving, Has, HasNone
    <3>2. CASE txn[p].wants = << EventLog >>
      <4>1. t.wants = << >>
        BY <1>2, <1>5, <1>11, <3>2
      <4> QED
        BY <1>1, <1>2, <1>3, <1>4, <2>1, <3>2, <4>1 DEF Moving
    <3> QED
      BY <1>1, <2>1, <3>1, <3>2 DEF Moving, Asks
  <2> QED
    BY <1>2, <1>4, <1>5, <1>11, <2>2 DEF Disciplined
<1>12. ASSUME txn[p].kind = "DEAD_LETTER"
       PROVE  Disciplined(p)'
  <2>1. DeadLettering(p) /\ ~\E c \in txn[p].on : Passes(p, c)
    BY <1>1, <1>12 DEF Disciplined, Passes
  <2>2. /\ \A c \in txn[p].on : Has(p, OperationOf(c))' /\ Exhausted(operation[c])'
        /\ t.rest \subseteq txn[p].on
    BY <1>1, <1>2, <1>3, <2>1 DEF DeadLettering, Has
  <2>3. ASSUME t.wants = Tail(txn[p].wants)
        PROVE  DeadLettering(p)'
    <3>1. t.wants \in {<< EventLog >>, << >>}
      <4>1. \/ \E c \in txn[p].on : txn[p].wants = << Row(c), EventLog >>
            \/ txn[p].wants = << EventLog >>
        BY <1>1, <2>1 DEF DeadLettering, Asks
      <4>2. ASSUME NEW d \in txn[p].on, txn[p].wants = << Row(d), EventLog >>
            PROVE  t.wants = << EventLog >>
        BY <2>3, <4>2
      <4>3. txn[p].wants = << EventLog >> => t.wants = << >>
        BY <2>3
      <4> QED
        BY <4>1, <4>2, <4>3
    <3> QED
      BY <1>2, <1>4, <2>2, <3>1 DEF DeadLettering
  <2>4. ASSUME NEW c \in txn[p].rest, t.wants = << Row(c), EventLog >>,
               Tail(txn[p].wants) = << >>
        PROVE  DeadLettering(p)'
    <3>1. Wanted(p) = EventLog
      <4>1. \/ \E d \in txn[p].on : txn[p].wants = << Row(d), EventLog >>
            \/ txn[p].wants = << EventLog >>
        BY <1>1, <2>1 DEF DeadLettering, Asks
      <4>2. txn[p].wants = << EventLog >>
        <5>1. ASSUME NEW d \in txn[p].on, txn[p].wants = << Row(d), EventLog >>
              PROVE  FALSE
          BY <2>4, <5>1
        <5> QED
          BY <4>1, <5>1
      <4> QED
        BY <4>2 DEF Wanted
    <3>2. Has(p, EventLog)' /\ c \in txn[p].on
      BY LockFacts, <1>3, <2>1, <3>1 DEF Has, DeadLettering
    <3> QED
      BY <1>2, <1>4, <2>2, <2>4, <3>2 DEF DeadLettering
  <2>5. DeadLettering(p)'
    BY <1>2, <2>1, <2>3, <2>4
  <2> QED
    BY <1>2, <1>4, <1>12, <2>5 DEF Disciplined
<1>13. ASSUME txn[p].kind = "EVALUATION_PROMOTES"
       PROVE  Disciplined(p)'
  <2>1. PICK c \in Candidate : Following(p, c)
    BY <1>1, <1>13 DEF Disciplined
  <2>2. /\ t.rest = {}
        /\ \/ t.wants = Tail(Tail(txn[p].wants)) /\ Passes(p, c)
           \/ t.wants = Tail(txn[p].wants) /\ ~Passes(p, c)
    BY <1>1, <1>2, <1>13, <2>1 DEF Disciplined, Following
  <2>3. Following(p, c)'
    <3>1. CASE txn[p].wants = << Row(c), EventLog, OperationOf(c) >> /\ HasNone(p)
      <4>1. Wanted(p) = Row(c) /\ Tail(txn[p].wants) = << EventLog, OperationOf(c) >>
        BY <3>1 DEF Wanted
      <4>2. t.wants = << EventLog, OperationOf(c) >>
        BY LockFacts, <1>13, <2>2, <4>1 DEF Passes
      <4> QED
        BY LockFacts, <1>1, <1>2, <1>3, <1>4, <2>1, <3>1, <4>1, <4>2
           DEF Following, HasNone, HasOnly
    <3>2. CASE txn[p].wants = << EventLog, OperationOf(c) >> /\ HasOnly(p, Row(c))
      <4>1. Wanted(p) = EventLog /\ Tail(txn[p].wants) = << OperationOf(c) >>
        BY <3>2 DEF Wanted
      <4>2. Has(p, Row(c))' /\ txn'[p].on = {c}
        BY LockFacts, <1>2, <1>3, <1>4, <2>1, <3>2 DEF Following, Has, HasOnly
      <4>3. CASE Passes(p, c)
        <5>1. t.wants = Tail(<< OperationOf(c) >>)
          BY <2>2, <4>1, <4>3
        <5>2. t.wants = << >> /\ operation'[c].status \notin Unfinished
          BY <1>1, <4>3, <5>1 DEF Passes
        <5> QED
          BY <1>4, <4>2, <5>2 DEF Following
      <4>4. CASE ~Passes(p, c)
        BY <1>4, <2>2, <4>1, <4>2, <4>4 DEF Following
      <4> QED
        BY <4>3, <4>4
    <3>3. CASE txn[p].wants = << OperationOf(c) >> /\ Has(p, Row(c))
      <4>1. Wanted(p) = OperationOf(c) /\ Tail(txn[p].wants) = << >>
        BY <3>3 DEF Wanted
      <4>2. t.wants = << >>
        BY LockFacts, <1>13, <2>2, <4>1 DEF Passes
      <4>3. operation[c].status \notin Unfinished
        BY LockFacts, <1>1, <1>13, <2>1, <4>1 DEF Refuses, Following, Promotion
      <4> QED
        BY LockFacts, <1>1, <1>2, <1>3, <1>4, <2>1, <3>3, <4>2, <4>3 DEF Following, Has
    <3> QED
      BY <1>1, <2>1, <3>1, <3>2, <3>3 DEF Following, Asks
  <2> QED
    BY <1>2, <1>4, <1>13, <2>2, <2>3 DEF Disciplined
<1>14. Disciplined(p)'
  <2>1. txn[p].kind \in Kind
    BY <1>1 DEF TypeInv, Txn
  <2> QED
    BY <1>6, <1>7, <1>8, <1>9, <1>10, <1>11, <1>12, <1>13, <2>1
       DEF Kind, WorkerKind, SessionKind, Promotion
<1>15. OwnedInv' /\ \A q \in Process \ {p} : Keeps(q)
  BY <1>1, SameRows DEF OwnedInv
<1>16. t.kind \in WorkerKind => p \in Worker
  BY <1>1, <1>2 DEF TypeInv
<1> QED
  BY <1>1, <1>2, <1>3, <1>14, <1>15, <1>16, OneMoves DEF TypeInv

(***************************************************************************)
(* A transaction ends.                                                     *)
(***************************************************************************)
LEMMA RollbackStep ==
    ASSUME IInv, NEW p \in Process, lock' = Unlocked(p), txn' = [txn EXCEPT ![p] = NoTxn],
           UNCHANGED << operation, candidate, beats, commands >>
    PROVE  IInv'
<1>1. TypeInv /\ OwnedInv
  BY DEF IInv
<1>2. /\ lock' \in [Lock -> Process \cup {Free}]
      /\ HasNone(p)'
      /\ \A q \in Process \ {p} : \A l \in Lock : lock'[l] = q <=> lock[l] = q
  BY <1>1, LocksReleased
<1>3. /\ NoTxn \in Txn /\ txn'[p].kind = "NONE" /\ txn'[p].wants = << >>
      /\ txn'[p].rest = {} /\ NoTxn.kind \notin WorkerKind
  BY <1>1, TxnMoves, NoTxnFacts DEF WorkerKind
<1>4. Disciplined(p)'
  BY <1>2, <1>3 DEF Disciplined
<1>5. OwnedInv' /\ \A q \in Process \ {p} : Keeps(q)
  BY <1>1, SameRows DEF OwnedInv
<1> QED
  BY <1>1, <1>2, <1>3, <1>4, <1>5, OneMoves DEF TypeInv

\* What a commit leaves is well formed, is under locks of its own where others
\* rely on it, and ends an attempt only for the worker that may.
LEMMA LeftFacts ==
    ASSUME IInv, NEW p \in Process, InTransaction(p), ~Asks(p), NEW c \in txn[p].on
    PROVE  LET left == Left(p, operation[c], candidate[c])
           IN  /\ c \in Candidate /\ left.operation \in WorkRow /\ left.candidate \in Standing
               /\ left.operation.owner # NoOwner => left.operation.status = "RUNNING"
               /\ \/ left.operation = operation[c]
                  \/ /\ lock[OperationOf(c)] = p \/ operation[c].status \notin Unfinished
                     /\ lock[Row(c)] = p \/ operation[c].status \in Unfinished
               /\ operation[c].status = "RUNNING" /\ left.operation.status # "RUNNING" =>
                     /\ p \in Worker /\ lock[OperationOf(c)] = p
                     /\ \/ txn[p].kind = "COMPLETE" /\ operation[c].owner = IdOf[p]
                        \/ txn[p].kind = "DEAD_LETTER" /\ operation[c].lease # "LIVE"
<1> DEFINE left == Left(p, operation[c], candidate[c])
           op == operation[c]
<1>1. /\ TypeInv /\ OwnedInv /\ Disciplined(p) /\ txn[p] \in Txn /\ txn[p].wants = << >>
      /\ c \in Candidate /\ op \in WorkRow /\ candidate[c] \in Standing
      /\ op.owner # NoOwner => op.status = "RUNNING"
  BY DEF IInv, TypeInv, OwnedInv, Txn, Asks
<1>2. /\ txn[p].kind \in Kind /\ txn[p].kind \notin {"NONE", "PUBLISHING"}
      /\ txn[p].kind \in WorkerKind => p \in Worker
  BY <1>1 DEF Txn, TypeInv, InTransaction
<1>3. /\ \A status \in WorkStatus :
            /\ Released(op, status) \in WorkRow
            /\ Released(op, status).status = status /\ Released(op, status).owner = NoOwner
            /\ [Released(op, status) EXCEPT !.attempts = 0] \in WorkRow
            /\ [Released(op, status) EXCEPT !.attempts = 0].owner = NoOwner
      /\ Queued \in WorkRow /\ Queued.owner = NoOwner
      /\ \A id \in WorkerId : Claimable(op) =>
            Claimed(op, id) \in WorkRow /\ Claimed(op, id).status = "RUNNING"
  BY <1>1, WorkRowFacts
<1>4. CASE txn[p].kind = "CLAIM"
  <2>1. Claimable(op) /\ lock[OperationOf(c)] = p /\ op.status \in Unfinished
    BY <1>1, <1>4 DEF Disciplined, Claiming, Has, Claimable
  <2>2. left = [operation |-> Claimed(op, IdOf[p]), candidate |-> candidate[c]]
    BY <1>4 DEF Left
  <2>3. IdOf[p] \in WorkerId
    BY <1>2, <1>4, WorkerAssumption DEF WorkerKind
  <2> HIDE DEF left, op
  <2> QED
    BY <1>1, <1>3, <2>1, <2>2, <2>3 DEF left, op
<1>5. CASE txn[p].kind = "COMPLETE"
  <2>1. /\ lock[OperationOf(c)] = p /\ op.status = "RUNNING" /\ op.owner = IdOf[p]
        /\ p \in Worker
    BY <1>1, <1>2, <1>5, TupleFacts DEF Disciplined, Completing, Has, WorkerKind
  <2>2. /\ left.operation \in {Released(op, "SUCCEEDED"), Released(op, "FAILED"),
                                Released(op, "QUEUED")}
        /\ left.candidate \in {"PROMOTED", "BLOCKED", candidate[c]}
    BY <1>5 DEF Left, Completed
  <2>3. left.operation \in WorkRow /\ left.operation.owner = NoOwner
    BY <1>3, <2>2 DEF WorkStatus
  <2>4. left.candidate \in Standing
    BY <1>1, <2>2 DEF Standing
  <2> QED
    BY <1>1, <1>5, <2>1, <2>3, <2>4 DEF Unfinished
<1>6. CASE txn[p].kind = "DEAD_LETTER"
  <2>1. Exhausted(op) /\ lock[OperationOf(c)] = p /\ p \in Worker
    BY <1>1, <1>2, <1>6 DEF Disciplined, DeadLettering, Has, WorkerKind
  <2>2. left = [operation |-> Released(op, "FAILED"), candidate |-> "BLOCKED"]
    BY <1>6 DEF Left
  <2>3. left.operation \in WorkRow /\ left.operation.owner = NoOwner
    BY <1>3, <2>2 DEF WorkStatus
  <2>4. left.candidate \in Standing
    BY <2>2 DEF Standing
  <2> QED
    BY <1>1, <1>6, <2>1, <2>3, <2>4 DEF Exhausted
<1>7. CASE txn[p].kind = "RETRY"
  <2>1. lock[OperationOf(c)] = p /\ lock[Row(c)] = p /\ op.status = "FAILED"
    BY <1>1, <1>7, TupleFacts DEF Disciplined, Retrying, Has
  <2>2. left = [operation |-> [Released(op, "QUEUED") EXCEPT !.attempts = 0],
                candidate |-> "PROMOTION_PENDING"]
    BY <1>7 DEF Left
  <2>3. left.operation \in WorkRow /\ left.operation.owner = NoOwner
    <3>1. "QUEUED" \in WorkStatus
      BY DEF WorkStatus
    <3>2. left.operation = [Released(op, "QUEUED") EXCEPT !.attempts = 0]
      BY <2>2
    <3> HIDE DEF left, op
    <3> QED
      BY <1>3, <3>1, <3>2
  <2>4. left.candidate \in Standing
    BY <2>2 DEF Standing
  <2> QED
    BY <1>1, <2>1, <2>3, <2>4
<1>8. CASE txn[p].kind = "PROMOTE"
  <2>1. lock[Row(c)] = p /\ op.status \notin Unfinished
    BY <1>1, <1>8, TupleFacts DEF Disciplined, Promoting, Has
  <2>2. left = [operation |-> Queued, candidate |-> "PROMOTION_PENDING"]
    BY <1>8 DEF Left
  <2>3. left.operation \in WorkRow /\ left.operation.owner = NoOwner
    BY <1>3, <2>2
  <2>4. left.candidate \in Standing
    BY <2>2 DEF Standing
  <2> QED
    BY <1>1, <2>1, <2>3, <2>4 DEF Unfinished
<1>9. CASE txn[p].kind \in {"CHECK", "EVALUATION_FAILS"}
  <2>1. left.operation = op /\ left.candidate \in {"BLOCKED", "ELIGIBLE", "EVALUATING"}
    BY <1>9 DEF Left
  <2>2. left.candidate \in Standing
    BY <2>1 DEF Standing
  <2> QED
    BY <1>1, <2>1, <2>2
<1>10. CASE txn[p].kind = "EVALUATION_PROMOTES"
  <2>1. lock[Row(c)] = p /\ op.status \notin Unfinished
    BY <1>1, <1>10, TupleFacts DEF Disciplined, Following, Has
  <2>2. \/ left.operation = op /\ left.candidate \in {"BLOCKED", "ELIGIBLE"}
        \/ left.operation = Queued /\ left.candidate = "PROMOTION_PENDING"
    BY <1>10 DEF Left
  <2>3. left.candidate \in Standing
    BY <2>2 DEF Standing
  <2> QED
    BY <1>1, <1>3, <2>1, <2>2, <2>3 DEF Unfinished
<1> QED
  BY <1>2, <1>4, <1>5, <1>6, <1>7, <1>8, <1>9, <1>10
     DEF Kind, WorkerKind, SessionKind, Promotion

LEMMA CommitStep ==
    ASSUME IInv, NEW p \in Process, Commit(p)
    PROVE  IInv'
<1>1. /\ TypeInv /\ OwnedInv /\ Disciplined(p) /\ txn[p] \in Txn
      /\ InTransaction(p) /\ ~Asks(p) /\ lock' = Unlocked(p)
      /\ UNCHANGED << beats, commands >>
  BY DEF Commit, IInv, TypeInv
<1>2. \A c \in Candidate \ txn[p].on :
         operation'[c] = operation[c] /\ candidate'[c] = candidate[c]
  BY DEF Commit
<1>3. ASSUME NEW c \in txn[p].on
      PROVE  /\ c \in Candidate
             /\ operation'[c] \in WorkRow /\ candidate'[c] \in Standing
             /\ operation'[c].owner # NoOwner => operation'[c].status = "RUNNING"
             /\ \/ operation'[c] = operation[c]
                \/ /\ lock[OperationOf(c)] = p \/ operation[c].status \notin Unfinished
                   /\ lock[Row(c)] = p \/ operation[c].status \in Unfinished
  <2>1. c \in Candidate
    BY <1>1 DEF Txn
  <2>2. /\ operation'[c] = Left(p, operation[c], candidate[c]).operation
        /\ candidate'[c] = Left(p, operation[c], candidate[c]).candidate
    BY <2>1 DEF Commit
  <2> QED
    BY <1>1, <2>1, <2>2, LeftFacts
<1>4. operation' \in [Candidate -> WorkRow] /\ candidate' \in [Candidate -> Standing]
  <2>1. /\ operation' = [c \in Candidate |-> operation'[c]]
        /\ candidate' = [c \in Candidate |-> candidate'[c]]
    BY DEF Commit
  <2>2. \A c \in Candidate : operation'[c] \in WorkRow /\ candidate'[c] \in Standing
    BY <1>1, <1>2, <1>3 DEF TypeInv
  <2> QED
    BY <2>1, <2>2
<1>5. OwnedInv'
  BY <1>1, <1>2, <1>3 DEF OwnedInv
<1>6. ASSUME NEW q \in Process \ {p}
      PROVE  Keeps(q)
  BY <1>2, <1>3 DEF Keeps
<1>7. /\ lock' \in [Lock -> Process \cup {Free}]
      /\ HasNone(p)'
      /\ \A q \in Process \ {p} : \A l \in Lock : lock'[l] = q <=> lock[l] = q
  BY <1>1, LocksReleased
<1>8. PICK t \in Txn :
         /\ txn' = [txn EXCEPT ![p] = t] /\ t.wants = << >> /\ t.rest = {}
         /\ \/ t.kind = "NONE"
            \/ t.kind = "PUBLISHING" /\ txn[p].kind = "CLAIM" /\ t.on = txn[p].on
  <2>1. LET t == Begin("PUBLISHING", txn[p].on, << >>)
        IN  /\ t \in Txn /\ t.kind = "PUBLISHING" /\ t.on = txn[p].on
            /\ t.wants = << >> /\ t.rest = {}
    <3>1. /\ txn[p].on \in SUBSET Candidate /\ << >> \in Seq(Lock)
          /\ "PUBLISHING" \in Kind
      BY <1>1 DEF Txn, Kind, WorkerKind
    <3> QED
      BY <3>1 DEF Begin, NoTxn, Txn
  <2>2. CASE txn[p].kind = "CLAIM"
    <3>1. txn' = [txn EXCEPT ![p] = Begin("PUBLISHING", txn[p].on, << >>)]
      BY <1>1, <2>2 DEF Commit, TypeInv
    <3> QED
      BY <2>1, <2>2, <3>1
  <2>3. CASE txn[p].kind # "CLAIM"
    <3>1. txn' = [txn EXCEPT ![p] = NoTxn]
      BY <1>1, <2>3 DEF Commit, TypeInv
    <3> QED
      BY <3>1, NoTxnFacts
  <2> QED
    BY <2>2, <2>3
<1>9. txn'[p] = t
  BY <1>1, <1>8, TxnMoves
<1>10. Disciplined(p)'
  <2>1. CASE t.kind = "NONE"
    BY <1>7, <1>8, <1>9, <2>1 DEF Disciplined
  <2>2. CASE t.kind = "PUBLISHING"
    <3>1. PICK c \in Candidate : txn[p].on = {c}
      BY <1>1, <1>8, <2>2 DEF Disciplined, Claiming
    <3> QED
      BY <1>7, <1>8, <1>9, <2>2, <3>1 DEF Disciplined
  <2> QED
    BY <1>8, <2>1, <2>2
<1>11. t.kind \in WorkerKind => p \in Worker
  BY <1>1, <1>8 DEF TypeInv, WorkerKind
<1> QED
  BY <1>1, <1>4, <1>5, <1>6, <1>7, <1>8, <1>10, <1>11, OneMoves DEF TypeInv

(***************************************************************************)
(* The heartbeat and the clock: nobody's transaction moves.                *)
(***************************************************************************)
LEMMA NobodyMoves ==
    ASSUME IInv, UNCHANGED << candidate, lock, txn, commands >>,
           operation' \in [Candidate -> WorkRow], beats' \subseteq Candidate,
           \A c \in Candidate : /\ operation'[c].status = operation[c].status
                               /\ operation'[c].owner = operation[c].owner,
           \A q \in Process : Keeps(q)
    PROVE  IInv'
<1>1. TypeInv'
  BY DEF IInv, TypeInv
<1>2. OwnedInv'
  BY DEF IInv, OwnedInv
<1>3. ASSUME NEW q \in Process
      PROVE  Disciplined(q)'
  BY Undisturbed DEF IInv
<1> QED
  BY <1>1, <1>2, <1>3 DEF IInv

LEMMA LeaseMoves ==
    ASSUME IInv, NEW c \in Candidate, NEW lease \in LeaseState,
           operation' = [operation EXCEPT ![c].lease = lease]
    PROVE  /\ operation' \in [Candidate -> WorkRow]
           /\ operation'[c] = [operation[c] EXCEPT !.lease = lease]
           /\ \A d \in Candidate \ {c} : operation'[d] = operation[d]
           /\ \A d \in Candidate : /\ operation'[d].status = operation[d].status
                                  /\ operation'[d].owner = operation[d].owner
<1>1. operation \in [Candidate -> WorkRow] /\ operation[c] \in WorkRow
  BY DEF IInv, TypeInv
<1>2. LET row == [operation[c] EXCEPT !.lease = lease]
      IN  row \in WorkRow /\ row.status = operation[c].status /\ row.owner = operation[c].owner
  BY <1>1, WorkRowFacts
<1>3. operation' = [operation EXCEPT ![c] = [operation[c] EXCEPT !.lease = lease]]
  BY <1>1
<1> QED
  BY <1>1, <1>2, <1>3

LEMMA HeartbeatStep ==
    ASSUME IInv, \/ \E p \in Worker : BeatReads(p)
                 \/ \E c \in Candidate : BeatWrites(c) \/ LeaseExpires(c)
    PROVE  IInv'
<1>1. TypeInv
  BY DEF IInv
<1>2. ASSUME NEW p \in Worker, BeatReads(p)
      PROVE  IInv'
  <2>1. txn[p].on \subseteq Candidate
    BY <1>1, ProcessFacts DEF TypeInv, Txn
  <2>2. beats' \subseteq Candidate /\ UNCHANGED << operation, candidate, lock, txn, commands >>
    BY <1>1, <1>2, <2>1 DEF BeatReads, TypeInv
  <2> QED
    BY <1>1, <2>2, SameRows, NobodyMoves DEF TypeInv
<1>3. ASSUME NEW c \in Candidate, BeatWrites(c)
      PROVE  IInv'
  <2>1. /\ UNCHANGED << candidate, lock, txn, commands >> /\ beats' \subseteq Candidate
        /\ lock[OperationOf(c)] = Free
        /\ operation' = [operation EXCEPT ![c].lease = "LIVE"] /\ "LIVE" \in LeaseState
    BY <1>1, <1>3 DEF BeatWrites, TypeInv, LeaseState
  <2>2. \A q \in Process : Keeps(q)
    BY <2>1, LeaseMoves, ProcessFacts DEF Keeps
  <2> QED
    BY <2>1, <2>2, LeaseMoves, NobodyMoves
<1>4. ASSUME NEW c \in Candidate, LeaseExpires(c)
      PROVE  IInv'
  <2>1. /\ UNCHANGED << candidate, lock, txn, beats, commands >> /\ beats \subseteq Candidate
        /\ operation' = [operation EXCEPT ![c].lease = "EXPIRED"] /\ "EXPIRED" \in LeaseState
    BY <1>1, <1>4 DEF LeaseExpires, TypeInv, LeaseState
  <2>2. \A q \in Process : Keeps(q)
    BY <2>1, LeaseMoves DEF Keeps
  <2> QED
    BY <2>1, <2>2, LeaseMoves, NobodyMoves
<1> QED
  BY <1>2, <1>3, <1>4

(***************************************************************************)
(* The invariant, and what follows from it.                                *)
(***************************************************************************)
LEMMA IInvInit == Init => IInv
<1> SUFFICES ASSUME Init PROVE IInv
  OBVIOUS
<1>1. PICK p \in Worker :
         operation = [c \in Candidate |->
            IF c \in Abandoned
            THEN [status |-> "RUNNING", attempts |-> MaxAttempts, owner |-> IdOf[p],
                  lease |-> "EXPIRED"]
            ELSE Queued]
  BY DEF Init
<1>2. /\ Queued \in WorkRow /\ Queued.owner = NoOwner
      /\ [status |-> "RUNNING", attempts |-> MaxAttempts, owner |-> IdOf[p],
          lease |-> "EXPIRED"] \in WorkRow
  <2>1. Queued \in WorkRow /\ Queued.owner = NoOwner
    BY NewRowType DEF Queued, Absent
  <2> QED
    BY <2>1, WorkerAssumption, AttemptsAssumption DEF WorkRow, WorkStatus, LeaseState
<1>3. operation \in [Candidate -> WorkRow] /\ OwnedInv
  BY <1>1, <1>2 DEF OwnedInv
<1>4. \A p_1 \in Process : txn[p_1] = NoTxn
  BY DEF Init
<1>5. TypeInv
  <2>1. candidate \in [Candidate -> Standing]
    BY DEF Init, Standing
  <2>2. lock \in [Lock -> Process \cup {Free}] /\ beats \subseteq Candidate
    BY DEF Init
  <2>3. commands \in 0..MaxCommands
    BY CommandAssumption DEF Init
  <2>4. txn \in [Process -> Txn]
    BY NoTxnFacts DEF Init
  <2> QED
    BY <1>3, <1>4, <2>1, <2>2, <2>3, <2>4, NoTxnFacts DEF TypeInv, WorkerKind
<1>6. \A p_1 \in Process : Disciplined(p_1)
  <2>1. \A q \in Process : HasNone(q)
    BY ProcessFacts DEF Init, HasNone
  <2> QED
    BY <1>4, <2>1, NoTxnFacts DEF Disciplined
<1> QED
  BY <1>3, <1>5, <1>6 DEF IInv

LEMMA IInvNext == IInv /\ [Next]_vars => IInv'
<1> SUFFICES ASSUME IInv, [Next]_vars PROVE IInv'
  OBVIOUS
<1>1. ASSUME NEW p \in Worker, WorkerLost(p) PROVE IInv'
  BY <1>1, RollbackStep, ProcessFacts DEF WorkerLost, Rollback
<1>2. ASSUME NEW p \in Process, Abort(p) PROVE IInv'
  BY <1>2, RollbackStep DEF Abort, Rollback
<1>3. ASSUME NEW p \in Process, Return(p) PROVE IInv'
  BY <1>3, RollbackStep DEF Return, Closed
<1>4. CASE UNCHANGED vars
  <2>1. UNCHANGED << operation, candidate, lock, txn, beats, commands >>
    BY <1>4 DEF vars
  <2> QED
    BY <2>1, NobodyMoves, SameRows DEF IInv, TypeInv
<1> QED
  BY <1>1, <1>2, <1>3, <1>4, PickClaimableStep, PickExhaustedStep, PublishReturnsStep,
     RequestStep, AcquireStep, CommitStep, HeartbeatStep DEF Next, Statement

\* A lock's place in the order operations, candidates, events.
Rank(l) == CASE l \in {OperationOf(c) : c \in Candidate} -> 1
             [] l \in {Row(c) : c \in Candidate} -> 2
             [] OTHER -> 3

OutOfOrder(p) ==
    \/ txn[p].kind = "DEAD_LETTER" /\ lock[EventLog] = p
    \/ txn[p].kind \in Promotion /\ Wanted(p) \in {OperationOf(c) : c \in Candidate}

LEMMA RankFacts ==
    /\ Rank(EventLog) = 3
    /\ \A c \in Candidate : Rank(OperationOf(c)) = 1 /\ Rank(Row(c)) = 2
    /\ \A l \in Lock : Rank(l) \in 1..3
BY LockFacts DEF Rank

\* Whoever waits in order has only locks that come before the one he waits for.
LEMMA WaitsInOrder ==
    ASSUME IInv, NEW p \in Process, Waits(p), ~OutOfOrder(p)
    PROVE  /\ Wanted(p) \in Lock
           /\ \A l \in Lock : lock[l] = p => Rank(l) < Rank(Wanted(p))
<1> DEFINE InOrder == /\ Wanted(p) \in Lock
                      /\ \A l \in Lock : lock[l] = p => Rank(l) < Rank(Wanted(p))
<1>1. /\ Disciplined(p) /\ txn[p].kind \in Kind /\ txn[p].wants # << >>
      /\ lock[Wanted(p)] # p
  BY DEF IInv, TypeInv, Txn, Waits, Asks
<1>2. ASSUME NEW c \in Candidate, Wanted(p) = OperationOf(c), HasNone(p)
      PROVE  InOrder
  BY <1>2, LockFacts DEF HasNone
<1>3. ASSUME NEW c \in Candidate, Wanted(p) = Row(c),
             \A l \in Lock : lock[l] = p => \E d \in Candidate : l = OperationOf(d)
      PROVE  InOrder
  BY <1>3, LockFacts, RankFacts
<1>4. ASSUME Wanted(p) = EventLog
      PROVE  InOrder
  <2>1. lock[EventLog] # p
    BY <1>1, <1>4
  <2>2. ASSUME NEW l \in Lock, lock[l] = p
        PROVE  Rank(l) < 3
    BY <2>1, <2>2, LockFacts, RankFacts
  <2> QED
    BY <1>4, <2>2, LockFacts, RankFacts
<1>5. CASE txn[p].kind = "CLAIM"
  BY <1>1, <1>4, <1>5 DEF Disciplined, Claiming, Wanted
<1>6. CASE txn[p].kind = "COMPLETE"
  <2>1. PICK c \in Candidate : Completing(p, c)
    BY <1>1, <1>6 DEF Disciplined
  <2>2. CASE txn[p].wants = << OperationOf(c), Row(c), EventLog >> /\ HasNone(p)
    BY <1>2, <2>2 DEF Wanted
  <2>3. CASE txn[p].wants = << Row(c), EventLog >> /\ HasOnly(p, OperationOf(c))
    BY <1>3, <2>3 DEF Wanted, HasOnly
  <2>4. CASE txn[p].wants = << EventLog >>
    BY <1>4, <2>4 DEF Wanted
  <2> QED
    BY <1>1, <2>1, <2>2, <2>3, <2>4 DEF Completing
<1>7. CASE txn[p].kind = "RETRY"
  <2>1. PICK c \in Candidate : Retrying(p, c)
    BY <1>1, <1>7 DEF Disciplined
  <2>2. CASE txn[p].wants = << OperationOf(c), Row(c), EventLog >> /\ HasNone(p)
    BY <1>2, <2>2 DEF Wanted
  <2>3. CASE txn[p].wants = << Row(c), EventLog >> /\ HasOnly(p, OperationOf(c))
    BY <1>3, <2>3 DEF Wanted, HasOnly
  <2>4. CASE txn[p].wants = << EventLog >>
    BY <1>4, <2>4 DEF Wanted
  <2> QED
    BY <1>1, <2>1, <2>2, <2>3, <2>4 DEF Retrying
<1>8. CASE txn[p].kind = "PROMOTE"
  <2>1. PICK c \in Candidate : Promoting(p, c)
    BY <1>1, <1>8 DEF Disciplined
  <2>2. CASE txn[p].wants = << Row(c), OperationOf(c), EventLog >> /\ HasNone(p)
    BY <1>3, <2>2 DEF Wanted, HasNone
  <2>3. txn[p].wants # << OperationOf(c), EventLog >>
    BY <1>8 DEF OutOfOrder, Wanted, Promotion
  <2>4. CASE txn[p].wants = << EventLog >>
    BY <1>4, <2>4 DEF Wanted
  <2> QED
    BY <1>1, <2>1, <2>2, <2>3, <2>4 DEF Promoting
<1>9. CASE txn[p].kind \in {"CHECK", "EVALUATION_FAILS"}
  <2>1. PICK c \in Candidate : Moving(p, c)
    BY <1>1, <1>9 DEF Disciplined
  <2>2. CASE txn[p].wants = << Row(c), EventLog >> /\ HasNone(p)
    BY <1>3, <2>2 DEF Wanted, HasNone
  <2>3. CASE txn[p].wants = << EventLog >>
    BY <1>4, <2>3 DEF Wanted
  <2> QED
    BY <1>1, <2>1, <2>2, <2>3 DEF Moving
<1>10. CASE txn[p].kind = "DEAD_LETTER"
  <2>1. DeadLettering(p) /\ lock[EventLog] # p
    BY <1>1, <1>10 DEF Disciplined, OutOfOrder
  <2>2. ASSUME NEW c \in txn[p].on, txn[p].wants = << Row(c), EventLog >>,
               \A d \in Candidate : ~Has(p, Row(d))
        PROVE  InOrder
    <3>1. c \in Candidate /\ Wanted(p) = Row(c)
      BY <2>2 DEF IInv, TypeInv, Txn, Wanted
    <3>2. \A l \in Lock : lock[l] = p => \E d \in Candidate : l = OperationOf(d)
      BY <2>1, <2>2, LockFacts DEF Has
    <3> QED
      BY <1>3, <3>1, <3>2
  <2>3. CASE txn[p].wants = << EventLog >>
    BY <1>4, <2>3 DEF Wanted
  <2> QED
    BY <1>1, <2>1, <2>2, <2>3 DEF DeadLettering, Has
<1>11. CASE txn[p].kind = "EVALUATION_PROMOTES"
  <2>1. PICK c \in Candidate : Following(p, c)
    BY <1>1, <1>11 DEF Disciplined
  <2>2. CASE txn[p].wants = << Row(c), EventLog, OperationOf(c) >> /\ HasNone(p)
    BY <1>3, <2>2 DEF Wanted, HasNone
  <2>3. CASE txn[p].wants = << EventLog, OperationOf(c) >>
    BY <1>4, <2>3 DEF Wanted
  <2>4. txn[p].wants # << OperationOf(c) >>
    BY <1>11 DEF OutOfOrder, Wanted, Promotion
  <2> QED
    BY <1>1, <2>1, <2>2, <2>3, <2>4 DEF Following
<1> QED
  BY <1>1, <1>5, <1>6, <1>7, <1>8, <1>9, <1>10, <1>11
     DEF Kind, WorkerKind, SessionKind, Promotion, Disciplined

\* From one process of a circle to the one it waits for, three times: each waits
\* for a lock that comes later, and there are only three places.
LEMMA CirclesBreakOrder == IInv => DeadlocksAreKnown
<1> SUFFICES ASSUME IInv, NEW S \in SUBSET Process, Circle(S), \A p \in S : ~OutOfOrder(p)
             PROVE  FALSE
  BY DEF DeadlocksAreKnown, OutOfOrder
<1>1. \A p \in S : /\ Wanted(p) \in Lock /\ Rank(Wanted(p)) \in 1..3
                   /\ \A l \in Lock : lock[l] = p => Rank(l) < Rank(Wanted(p))
                   /\ lock[Wanted(p)] \in S
  BY WaitsInOrder, RankFacts DEF Circle
<1>2. \A p \in S : \E q \in S : Rank(Wanted(p)) < Rank(Wanted(q))
  BY <1>1
<1>3. PICK p \in S : TRUE
  BY DEF Circle
<1>4. PICK q \in S : Rank(Wanted(p)) < Rank(Wanted(q))
  BY <1>2
<1>5. PICK r \in S : Rank(Wanted(q)) < Rank(Wanted(r))
  BY <1>2
<1>6. PICK u \in S : Rank(Wanted(r)) < Rank(Wanted(u))
  BY <1>2
<1> QED
  BY <1>1, <1>4, <1>5, <1>6

\* Rows, locks and transactions keep their types.
THEOREM TypesHold == Spec => []TypeOK
<1>1. IInv => TypeOK
  <2> SUFFICES ASSUME TypeInv PROVE TypeOK
    BY DEF IInv
  <2>1. \A p \in Process : txn[p] \in Txn
    BY DEF TypeInv
  <2> QED
    BY <2>1 DEF TypeInv, TypeOK, Txn, Kind
<1> QED
  BY <1>1, IInvInit, IInvNext, PTL DEF Spec

\* Every deadlock among the transactions on registry operations has one of two
\* kinds in it, a dead letter that goes on with the event log's lock or a
\* promotion that meets an unfinished operation: for any number of candidates,
\* workers and sessions, crashes and heartbeats.
THEOREM DeadlocksNeedOneOfTwo == Spec => []DeadlocksAreKnown
<1> QED
  BY IInvInit, IInvNext, CirclesBreakOrder, PTL DEF Spec

\* An attempt is ended once, by the worker its lease names or, after the lease
\* ran out, by a dead letter, however transactions, late heartbeats and lost
\* workers interleave.
THEOREM AttemptsEndByTheirOwner == Spec => AttemptEndsOnce
<1> DEFINE Ended(c) == operation[c].status = "RUNNING" /\ operation'[c].status # "RUNNING"
           May(p, c) == /\ c \in txn[p].on /\ lock[OperationOf(c)] = p
                        /\ \/ txn[p].kind = "COMPLETE" /\ operation[c].owner = IdOf[p]
                           \/ txn[p].kind = "DEAD_LETTER" /\ operation[c].lease # "LIVE"
<1>1. IInv /\ [Next]_vars => [\A c \in Candidate : Ended(c) => \E p \in Worker : May(p, c)]_vars
  <2> SUFFICES ASSUME IInv, Next, NEW c \in Candidate, Ended(c)
               PROVE  \E p \in Worker : May(p, c)
    OBVIOUS
  <2>1. ASSUME NEW p \in Process, Commit(p)
        PROVE  \E w \in Worker : May(w, c)
    <3>1. InTransaction(p) /\ ~Asks(p) /\ c \in txn[p].on
      BY <2>1 DEF Commit
    <3>2. operation'[c] = Left(p, operation[c], candidate[c]).operation
      BY <2>1, <3>1 DEF Commit
    <3> QED
      BY <3>1, <3>2, LeftFacts
  <2>2. ASSUME NEW d \in Candidate, BeatWrites(d) \/ LeaseExpires(d)
        PROVE  operation'[c].status = operation[c].status
    BY <2>2, LeaseMoves DEF BeatWrites, LeaseExpires, LeaseState
  <2> QED
    BY <2>1, <2>2 DEF Next, Statement, PickClaimable, PickExhausted, PublishReturns,
       BeatReads, WorkerLost, Request, Acquire, Return, Abort, Rollback
<1>2. Spec => []IInv
  BY IInvInit, IInvNext, PTL DEF Spec
<1> QED
  BY <1>1, <1>2, PTL DEF Spec, AttemptEndsOnce


(***************************************************************************)
(* What a process has decided about a candidate when it has its row: who   *)
(* changes a candidate has the row's lock, so it stays decided.            *)
(***************************************************************************)
ToAsk(p, c) ==
    \/ c \in txn[p].rest
    \/ txn[p].wants \in {<< OperationOf(c), Row(c), EventLog >>,
                         << Row(c), OperationOf(c), EventLog >>, << Row(c), EventLog >>,
                         << Row(c), EventLog, OperationOf(c) >>}

Decided(p, c) ==
    /\ txn[p].kind = "RETRY" => candidate[c] = "BLOCKED"
    /\ txn[p].kind = "PROMOTE" => candidate[c] = "ELIGIBLE"
    /\ txn[p].kind \in {"CHECK", "EVALUATION_PROMOTES"} =>
          candidate[c] \notin {"PROMOTION_PENDING", "PROMOTED"}

Checked(p) == txn[p].kind \notin {"NONE", "PUBLISHING", "CLAIM"} =>
    /\ txn[p].wants = << >> => txn[p].rest = {}
    /\ \A c \in txn[p].on : ToAsk(p, c) \/ (Has(p, Row(c)) /\ Decided(p, c))

CheckedInv == \A p \in Process : Checked(p)

LEMMA StaysChecked ==
    ASSUME TypeInv, NEW q \in Process, Checked(q), txn'[q] = txn[q],
           \A l \in Lock : lock'[l] = q <=> lock[l] = q,
           \A c \in Candidate : lock[Row(c)] = q => candidate'[c] = candidate[c]
    PROVE  Checked(q)'
<1>1. txn[q].on \subseteq Candidate
  BY DEF TypeInv, Txn
<1>2. ASSUME NEW c \in txn[q].on
      PROVE  /\ ToAsk(q, c) => ToAsk(q, c)'
             /\ Has(q, Row(c)) /\ Decided(q, c) => Has(q, Row(c))' /\ Decided(q, c)'
  BY <1>1 DEF ToAsk, Has, Decided
<1> QED
  BY <1>1, <1>2 DEF Checked

LEMMA OneChecks ==
    ASSUME TypeInv, CheckedInv, NEW p \in Process, NEW t \in Txn,
           txn' = [txn EXCEPT ![p] = t], Checked(p)',
           \A q \in Process \ {p} :
              /\ \A l \in Lock : lock'[l] = q <=> lock[l] = q
              /\ \A c \in Candidate : lock[Row(c)] = q => candidate'[c] = candidate[c]
    PROVE  CheckedInv'
<1>1. \A q \in Process \ {p} : Checked(q)'
  BY TxnMoves, StaysChecked DEF CheckedInv
<1> QED
  BY <1>1 DEF CheckedInv

LEMMA BeginsChecked ==
    ASSUME IInv, CheckedInv, NEW p \in Process,
           \/ PickClaimable(p) \/ PickExhausted(p) \/ PublishReturns(p) \/ Request(p)
    PROVE  CheckedInv'
<1>1. TypeInv /\ UNCHANGED candidate
  BY DEF IInv, PickClaimable, PickExhausted, PublishReturns, Request
<1>2. CASE PickClaimable(p)
  <2>1. PICK c \in Candidate, t \in Txn :
           /\ lock[OperationOf(c)] = Free
           /\ lock' = [lock EXCEPT ![OperationOf(c)] = p]
           /\ txn' = [txn EXCEPT ![p] = t] /\ t.kind = "CLAIM"
    BY <1>2, ClaimShape
  <2>2. Checked(p)'
    BY <1>1, <2>1, TxnMoves DEF Checked
  <2>3. \A q \in Process \ {p} : \A l \in Lock : lock'[l] = q <=> lock[l] = q
    BY <1>1, <2>1, LockFacts, LockTaken
  <2> QED
    BY <1>1, <2>1, <2>2, <2>3, OneChecks
<1>3. CASE PickExhausted(p)
  <2> DEFINE taken == {OperationOf(c) : c \in Unheld}
  <2>1. PICK c \in Unheld, t \in Txn :
           /\ lock' = [l \in Lock |-> IF l \in taken THEN p ELSE lock[l]]
           /\ txn' = [txn EXCEPT ![p] = t] /\ t.on = Unheld
           /\ t.wants = << Row(c), EventLog >> /\ t.rest = Unheld \ {c}
    BY <1>3, DeadLetterShape
  <2>2. \A l \in taken : lock[l] = Free
    BY DEF Unheld
  <2>3. \A q \in Process \ {p} : \A l \in Lock : lock'[l] = q <=> lock[l] = q
    <3> HIDE DEF taken
    <3> QED
      BY <2>1, <2>2, ProcessFacts
  <2>4. txn'[p] = t /\ << Row(c), EventLog >> # << >>
    BY <1>1, <2>1, TxnMoves
  <2>5. Checked(p)'
    BY <2>1, <2>4 DEF Checked, ToAsk
  <2> QED
    BY <1>1, <2>1, <2>3, <2>5, OneChecks
<1>4. CASE PublishReturns(p)
  <2>1. PICK c \in Candidate, t \in Txn :
           /\ txn' = [txn EXCEPT ![p] = t] /\ t.on = {c}
           /\ t.wants = << OperationOf(c), Row(c), EventLog >>
    BY <1>1, <1>4, AnswerShape
  <2>2. txn'[p] = t /\ << OperationOf(c), Row(c), EventLog >> # << >>
    BY <1>1, <2>1, TxnMoves
  <2>3. Checked(p)' /\ UNCHANGED lock
    BY <1>4, <2>1, <2>2 DEF Checked, ToAsk, PublishReturns
  <2> QED
    BY <1>1, <2>1, <2>3, OneChecks
<1>5. CASE Request(p)
  <2>1. PICK kind \in SessionKind, c \in Candidate, t \in Txn :
           txn' = [txn EXCEPT ![p] = t] /\ t.on = {c} /\ t.wants = WantedBy(kind, c)
    BY <1>5, RequestShape
  <2>2. WantedBy(kind, c) \in {<< OperationOf(c), Row(c), EventLog >>,
                               << Row(c), OperationOf(c), EventLog >>,
                               << Row(c), EventLog >>,
                               << Row(c), EventLog, OperationOf(c) >>}
    BY DEF WantedBy
  <2>3. txn'[p] = t
    BY <1>1, <2>1, TxnMoves
  <2>4. t.wants # << >>
    BY <2>1, <2>2
  <2>5. Checked(p)' /\ UNCHANGED lock
    BY <1>5, <2>1, <2>2, <2>3, <2>4 DEF Checked, ToAsk, Request
  <2> QED
    BY <1>1, <2>1, <2>5, OneChecks
<1> QED
  BY <1>2, <1>3, <1>4, <1>5

LEMMA RollbackChecked ==
    ASSUME IInv, CheckedInv, NEW p \in Process, lock' = Unlocked(p),
           txn' = [txn EXCEPT ![p] = NoTxn], UNCHANGED candidate
    PROVE  CheckedInv'
<1>1. TypeInv
  BY DEF IInv
<1>2. Checked(p)'
  BY <1>1, TxnMoves, NoTxnFacts DEF Checked
<1> QED
  BY <1>1, <1>2, LocksReleased, NoTxnFacts, OneChecks

LEMMA CommitMovesItsOwn ==
    ASSUME IInv, CheckedInv, NEW p \in Process, Commit(p), NEW c \in Candidate,
           candidate'[c] # candidate[c]
    PROVE  lock[Row(c)] = p
<1>1. /\ c \in txn[p].on /\ InTransaction(p) /\ txn[p].wants = << >>
      /\ candidate'[c] = Left(p, operation[c], candidate[c]).candidate
  BY DEF Commit, Asks
<1>2. txn[p].kind # "CLAIM"
  BY <1>1 DEF Left
<1>3. Has(p, Row(c))
  BY <1>1, <1>2, TupleFacts DEF CheckedInv, Checked, InTransaction, ToAsk
<1> QED
  BY <1>3 DEF Has

LEMMA CommitChecked ==
    ASSUME IInv, CheckedInv, NEW p \in Process, Commit(p)
    PROVE  CheckedInv'
<1>1. TypeInv /\ lock' = Unlocked(p) /\ txn[p] \in Txn
  BY DEF IInv, TypeInv, Commit
<1>2. PICK t \in Txn : txn' = [txn EXCEPT ![p] = t] /\ t.kind \in {"NONE", "PUBLISHING"}
  <2>1. LET t == Begin("PUBLISHING", txn[p].on, << >>) IN t \in Txn /\ t.kind = "PUBLISHING"
    <3>1. txn[p].on \in SUBSET Candidate /\ << >> \in Seq(Lock) /\ "PUBLISHING" \in Kind
      BY <1>1 DEF Txn, Kind, WorkerKind
    <3> QED
      BY <3>1 DEF Begin, NoTxn, Txn
  <2>2. txn' \in {[txn EXCEPT ![p] = Begin("PUBLISHING", txn[p].on, << >>)],
                  [txn EXCEPT ![p] = NoTxn]}
    BY <1>1 DEF Commit, TypeInv
  <2> QED
    BY <2>1, <2>2, NoTxnFacts
<1>3. Checked(p)'
  BY <1>1, <1>2, TxnMoves DEF Checked
<1>4. \A q \in Process \ {p} :
         /\ \A l \in Lock : lock'[l] = q <=> lock[l] = q
         /\ \A c \in Candidate : lock[Row(c)] = q => candidate'[c] = candidate[c]
  BY <1>1, LocksReleased, CommitMovesItsOwn
<1> QED
  BY <1>1, <1>2, <1>3, <1>4, OneChecks

LEMMA AcquireChecked ==
    ASSUME IInv, CheckedInv, NEW p \in Process, Acquire(p)
    PROVE  CheckedInv'
<1>1. /\ TypeInv /\ Disciplined(p) /\ Checked(p) /\ txn[p] \in Txn
      /\ UNCHANGED candidate /\ lock' = [lock EXCEPT ![Wanted(p)] = p]
  BY DEF IInv, CheckedInv, Acquire, TypeInv
<1>2. /\ Asks(p) /\ Wanted(p) \in Lock /\ lock[Wanted(p)] \in {Free, p}
      /\ \A c \in txn[p].on : ~Refuses(p, c)
  BY AcquireShape
<1>3. PICK t \in Txn :
         /\ txn' = [txn EXCEPT ![p] = t]
         /\ t.kind = txn[p].kind /\ t.on = txn[p].on
         /\ \/ /\ t.wants = Tail(Tail(txn[p].wants)) /\ t.rest = txn[p].rest
               /\ \E c \in txn[p].on : Passes(p, c)
            \/ /\ t.wants = Tail(txn[p].wants) /\ t.rest = txn[p].rest
               /\ t.wants = << >> => t.rest = {}
               /\ \A c \in txn[p].on : ~Passes(p, c)
            \/ /\ Tail(txn[p].wants) = << >>
               /\ \E c \in txn[p].rest :
                     t.wants = << Row(c), EventLog >> /\ t.rest = txn[p].rest \ {c}
  BY AcquireShape
<1>4. /\ \A l \in Lock : lock'[l] = p <=> lock[l] = p \/ l = Wanted(p)
      /\ \A q \in Process \ {p} : \A l \in Lock : lock'[l] = q <=> lock[l] = q
  BY <1>1, <1>2, LockTaken
<1>5. txn'[p] = t
  BY <1>1, <1>3, TxnMoves
<1>6. txn[p].on \subseteq Candidate /\ txn[p].kind \notin {"NONE", "PUBLISHING"}
  BY <1>1, <1>2 DEF Txn, Disciplined, Asks
<1>7. ASSUME NEW c \in txn[p].on, Has(p, Row(c)), Decided(p, c)
      PROVE  Has(p, Row(c))' /\ Decided(p, c)'
  BY <1>1, <1>3, <1>4, <1>5, <1>7 DEF Has, Decided
<1>8. ASSUME NEW c \in txn[p].on, Wanted(p) = Row(c), txn[p].kind # "RETRY"
      PROVE  Has(p, Row(c))' /\ Decided(p, c)'
  <2>1. Has(p, Row(c))'
    BY <1>2, <1>4, <1>8 DEF Has
  <2>2. Decided(p, c)
    BY <1>2, <1>6, <1>8, LockFacts DEF Refuses, Decided
  <2> QED
    BY <1>1, <1>3, <1>5, <2>1, <2>2 DEF Decided
<1>9. CASE txn[p].kind = "CLAIM"
  <2>1. Checked(p)'
    BY <1>3, <1>5, <1>9 DEF Checked
  <2> QED
    BY <1>1, <1>3, <1>4, <2>1, OneChecks
<1>10. CASE txn[p].kind # "CLAIM"
  <2>1. ASSUME NEW c \in txn[p].on, txn[p].wants = << OperationOf(c), Row(c), EventLog >>
        PROVE  ToAsk(p, c)'
    <3>1. Tail(txn[p].wants) = << Row(c), EventLog >> /\ Wanted(p) = OperationOf(c)
      BY <2>1 DEF Wanted
    <3>2. \A d \in txn[p].on : ~Passes(p, d)
      BY <1>6, <3>1, LockFacts DEF Passes
    <3>3. t.wants = << Row(c), EventLog >>
      <4>1. Tail(txn[p].wants) # << >>
        <5>1. << Row(c), EventLog >> # << >>
          OBVIOUS
        <5> QED
          BY <3>1, <5>1
      <4> QED
        BY <1>3, <3>1, <3>2, <4>1
    <3> QED
      BY <1>5, <3>3 DEF ToAsk
  <2>2. ASSUME NEW c \in txn[p].on, txn[p].wants = << Row(c), EventLog >>
        PROVE  Has(p, Row(c))' /\ Decided(p, c)'
    <3>1. Tail(txn[p].wants) = << EventLog >> /\ Wanted(p) = Row(c)
      BY <2>2 DEF Wanted
    <3>2. CASE txn[p].kind = "RETRY"
      <4>1. candidate[c] = "BLOCKED"
        BY <1>2, <3>1, <3>2 DEF Refuses
      <4> QED
        BY <1>1, <1>2, <1>3, <1>4, <1>5, <3>1, <3>2, <4>1 DEF Has, Decided
    <3> QED
      BY <1>8, <3>1, <3>2
  <2>3. ASSUME NEW c \in txn[p].on, NEW a, NEW b, txn[p].wants = << Row(c), a, b >>
        PROVE  Has(p, Row(c))' /\ Decided(p, c)'
    <3>1. Wanted(p) = Row(c)
      BY <2>3 DEF Wanted
    <3>2. txn[p].kind # "RETRY"
      <4>1. ASSUME NEW d \in Candidate, Retrying(p, d)
            PROVE  FALSE
        <5> DEFINE w == txn[p].wants
        <5>1. /\ w # << >> /\ Head(w) = Row(c)
              /\ Tail(w) # << EventLog >>
          <6>1. Tail(w) = << a, b >>
            BY <2>3
          <6>2. << a, b >> # << EventLog >>
            OBVIOUS
          <6> QED
            BY <2>3, <6>1, <6>2
        <5>2. Row(c) # OperationOf(d) /\ Row(c) # EventLog
          BY <1>6, LockFacts
        <5>3. /\ w # << OperationOf(d), Row(d), EventLog >> /\ w # << EventLog >>
              /\ w # << Row(d), EventLog >>
          <6>1. Head(<< OperationOf(d), Row(d), EventLog >>) = OperationOf(d)
            OBVIOUS
          <6>2. Head(<< EventLog >>) = EventLog
            OBVIOUS
          <6>3. Tail(<< Row(d), EventLog >>) = << EventLog >>
            OBVIOUS
          <6> HIDE DEF w
          <6> QED
            BY <5>1, <5>2, <6>1, <6>2, <6>3
        <5> QED
          BY <4>1, <5>1, <5>3 DEF Retrying
      <4> QED
        BY <1>1, <4>1 DEF Disciplined
    <3> QED
      BY <1>8, <3>1, <3>2
  <2>4. ASSUME NEW c \in txn[p].rest
        PROVE  ToAsk(p, c)'
    <3>1. ~\E d \in txn[p].on : Passes(p, d)
      BY <1>1, <2>4 DEF Disciplined, Passes
    <3> QED
      BY <1>3, <1>5, <2>4, <3>1 DEF ToAsk
  <2>5. t.wants = << >> => t.rest = {}
    <3>1. (\E d \in txn[p].on : Passes(p, d)) => txn[p].rest = {}
      BY <1>1 DEF Disciplined, Passes
    <3> QED
      BY <1>3, <3>1, TupleFacts
  <2>6. ASSUME NEW c \in txn[p].on, ToAsk(p, c), c \notin txn[p].rest
        PROVE  ToAsk(p, c)' \/ (Has(p, Row(c)) /\ Decided(p, c))'
    BY <2>1, <2>2, <2>3, <2>6 DEF ToAsk
  <2>7. Checked(p)'
    BY <1>1, <1>3, <1>5, <1>6, <1>7, <1>10, <2>4, <2>5, <2>6 DEF Checked
  <2> QED
    BY <1>1, <1>3, <1>4, <2>7, OneChecks
<1> QED
  BY <1>9, <1>10

LEMMA CheckedInit == Init => CheckedInv
<1> SUFFICES ASSUME Init, NEW p \in Process PROVE Checked(p)
  BY DEF CheckedInv
<1>1. txn[p] = NoTxn
  BY DEF Init
<1> QED
  BY <1>1, NoTxnFacts DEF Checked

LEMMA CheckedNext == IInv /\ CheckedInv /\ [Next]_vars => CheckedInv'
<1> SUFFICES ASSUME IInv, CheckedInv, [Next]_vars PROVE CheckedInv'
  OBVIOUS
<1>1. ASSUME UNCHANGED << candidate, lock, txn >>
      PROVE  CheckedInv'
  <2>1. ASSUME NEW q \in Process
        PROVE  Checked(q)'
    BY <1>1, StaysChecked DEF IInv, CheckedInv
  <2> QED
    BY <2>1 DEF CheckedInv
<1>2. ASSUME NEW p \in Process, Rollback(p) \/ Return(p)
      PROVE  CheckedInv'
  BY <1>2, RollbackChecked DEF Rollback, Return, Closed
<1>3. ASSUME NEW p \in Worker,
             PickClaimable(p) \/ PickExhausted(p) \/ PublishReturns(p) \/ BeatReads(p)
               \/ WorkerLost(p)
      PROVE  CheckedInv'
  BY <1>1, <1>2, <1>3, BeginsChecked, ProcessFacts DEF BeatReads, WorkerLost
<1>4. ASSUME NEW s \in Session, Request(s)
      PROVE  CheckedInv'
  BY <1>4, BeginsChecked, ProcessFacts
<1>5. ASSUME NEW p \in Process, Statement(p) \/ Abort(p)
      PROVE  CheckedInv'
  BY <1>2, <1>5, AcquireChecked, CommitChecked DEF Statement, Abort
<1>6. ASSUME NEW c \in Candidate, BeatWrites(c) \/ LeaseExpires(c)
      PROVE  CheckedInv'
  BY <1>1, <1>6 DEF BeatWrites, LeaseExpires
<1> QED
  BY <1>1, <1>3, <1>4, <1>5, <1>6 DEF Next, vars

(***************************************************************************)
(* The transactions implement RegistryRows.  A commit is one of its steps, *)
(* the loss of an attempt is GiveUp, and the rest it does not see.         *)
(***************************************************************************)
AttemptOf(t) == IF t.kind \in {"PUBLISHING", "COMPLETE"} THEN t.on ELSE {}

LEMMA AttemptingMoves ==
    ASSUME TypeInv, NEW p \in Process, NEW t \in Txn, txn' = [txn EXCEPT ![p] = t]
    PROVE  /\ p \in Worker => Attempting' = [Attempting EXCEPT ![p] = AttemptOf(t)]
           /\ p \notin Worker => Attempting' = Attempting
           /\ AttemptOf(t) = AttemptOf(txn[p]) => Attempting' = Attempting
<1>1. Attempting = [q \in Worker |-> AttemptOf(txn[q])]
  BY DEF Attempting, AttemptOf
<1>2. Attempting' = [q \in Worker |-> AttemptOf(txn'[q])]
  BY DEF Attempting, AttemptOf
<1>3. \A q \in Worker : txn'[q] = IF q = p THEN t ELSE txn[q]
  BY TxnMoves, ProcessFacts
<1> QED
  BY <1>1, <1>2, <1>3

LEMMA NothingSeen ==
    ASSUME UNCHANGED << operation, candidate >>, Attempting' = Attempting
    PROVE  [Rows!Next]_Rows!rvars
BY DEF Rows!rvars

LEMMA BeginsUnseen ==
    ASSUME IInv, NEW p \in Process,
           PickClaimable(p) \/ PickExhausted(p) \/ PublishReturns(p) \/ Request(p) \/ Acquire(p)
    PROVE  [Rows!Next]_Rows!rvars
<1>1. TypeInv /\ txn[p] \in Txn /\ Disciplined(p) /\ UNCHANGED << operation, candidate >>
  BY DEF IInv, TypeInv, PickClaimable, PickExhausted, PublishReturns, Request, Acquire
<1> SUFFICES \E t \in Txn : txn' = [txn EXCEPT ![p] = t] /\ AttemptOf(t) = AttemptOf(txn[p])
  BY <1>1, AttemptingMoves, NothingSeen
<1>2. CASE PickClaimable(p)
  BY <1>2, ClaimShape, NoTxnFacts DEF PickClaimable, AttemptOf
<1>3. CASE PickExhausted(p)
  BY <1>3, DeadLetterShape, NoTxnFacts DEF PickExhausted, AttemptOf
<1>4. CASE PublishReturns(p)
  <2>1. txn[p].kind = "PUBLISHING" /\ \A c \in txn[p].on : txn[p].on = {c}
    BY <1>1, <1>4 DEF PublishReturns, Disciplined
  <2> QED
    BY <1>1, <1>4, <2>1, AnswerShape DEF AttemptOf
<1>5. CASE Request(p)
  BY <1>5, RequestShape, NoTxnFacts DEF Request, SessionKind, Promotion, AttemptOf
<1>6. CASE Acquire(p)
  <2>1. PICK t \in Txn : /\ txn' = [txn EXCEPT ![p] = t]
                         /\ t.kind = txn[p].kind /\ t.on = txn[p].on
    BY <1>6, AcquireShape
  <2> QED
    BY <2>1 DEF AttemptOf
<1> QED
  BY <1>2, <1>3, <1>4, <1>5, <1>6

LEMMA GivesUp ==
    ASSUME IInv, NEW p \in Process, txn' = [txn EXCEPT ![p] = NoTxn],
           UNCHANGED << operation, candidate >>
    PROVE  [Rows!Next]_Rows!rvars
<1>1. TypeInv /\ NoTxn \in Txn /\ AttemptOf(NoTxn) = {}
  BY NoTxnFacts DEF IInv, AttemptOf
<1>2. CASE p \notin Worker
  BY <1>1, <1>2, AttemptingMoves, NothingSeen
<1>3. CASE p \in Worker
  <2>1. Rows!GiveUp(p)
    BY <1>1, <1>3, AttemptingMoves DEF Rows!GiveUp
  <2> QED
    BY <1>3, <2>1 DEF Rows!Next
<1> QED
  BY <1>2, <1>3

LEMMA LeaseSeen ==
    ASSUME IInv, NEW c \in Candidate, BeatWrites(c) \/ LeaseExpires(c)
    PROVE  [Rows!Next]_Rows!rvars
<1>1. UNCHANGED << candidate, txn >> /\ TypeInv
  BY DEF BeatWrites, LeaseExpires, IInv
<1>2. Attempting' = Attempting /\ candidate' = [candidate EXCEPT ![c] = candidate[c]]
  BY <1>1 DEF Attempting, TypeInv
<1>3. PICK lease \in {"LIVE", "EXPIRED"} : operation' = [operation EXCEPT ![c].lease = lease]
  BY DEF BeatWrites, LeaseExpires
<1>4. operation' = [operation EXCEPT ![c] = [operation[c] EXCEPT !.lease = lease]]
  BY <1>1, <1>3 DEF TypeInv
<1>5. Rows!LeaseBecomes(c, lease)
  BY <1>2, <1>4 DEF Rows!LeaseBecomes, Rows!Becomes
<1> QED
  BY <1>5 DEF Rows!Next

LEMMA SameHelpers ==
    /\ Rows!Unfinished = Unfinished /\ Rows!Queued = Queued
    /\ \A w, id : Rows!Claimed(w, id) = Claimed(w, id)
    /\ \A w, status : Rows!Released(w, status) = Released(w, status)
BY DEF Rows!Unfinished, Unfinished, Rows!Queued, Queued, Rows!Absent, Absent,
   Rows!Claimed, Claimed, Rows!Released, Released

LEMMA CommitOnOne ==
    ASSUME IInv, NEW p \in Process, Commit(p), NEW c \in Candidate, txn[p].on = {c}
    PROVE  LET left == Left(p, operation[c], candidate[c])
           IN  Rows!Becomes(c, left.operation, left.candidate)
BY DEF Commit, Rows!Becomes, IInv, TypeInv

LEMMA CommitSeen ==
    ASSUME IInv, CheckedInv, NEW p \in Process, Commit(p)
    PROVE  [Rows!Next]_Rows!rvars
<1> DEFINE kind == txn[p].kind
<1>1. /\ TypeInv /\ Disciplined(p) /\ Checked(p) /\ txn[p] \in Txn
      /\ txn[p].on \subseteq Candidate /\ txn[p].wants = << >>
      /\ kind \in Kind \ {"NONE", "PUBLISHING"}
      /\ kind \in WorkerKind => p \in Worker
  BY DEF IInv, CheckedInv, TypeInv, Commit, Txn, InTransaction, Asks
<1>2. kind # "CLAIM" => \A c \in txn[p].on : Has(p, Row(c)) /\ Decided(p, c)
  <2>1. \A c \in Candidate : /\ << >> # << OperationOf(c), Row(c), EventLog >>
                             /\ << >> # << Row(c), OperationOf(c), EventLog >>
                             /\ << >> # << Row(c), EventLog >>
                             /\ << >> # << Row(c), EventLog, OperationOf(c) >>
    OBVIOUS
  <2> QED
    BY <1>1, <2>1 DEF Checked, ToAsk
<1>3. kind # "CLAIM" => txn' = [txn EXCEPT ![p] = NoTxn] /\ NoTxn \in Txn /\ AttemptOf(NoTxn) = {}
  BY <1>1, NoTxnFacts DEF Commit, TypeInv, AttemptOf
<1>4. CASE kind = "CLAIM"
  <2>1. PICK c \in Candidate : txn[p].on = {c} /\ Claimable(operation[c])
    BY <1>1, <1>4 DEF Disciplined, Claiming
  <2>2. Rows!Becomes(c, Claimed(operation[c], IdOf[p]), candidate[c])
    BY <1>4, <2>1, CommitOnOne DEF Left
  <2>3. PICK t \in Txn : txn' = [txn EXCEPT ![p] = t] /\ AttemptOf(t) = {c}
    <3>1. txn' = [txn EXCEPT ![p] = Begin("PUBLISHING", {c}, << >>)]
      BY <1>1, <1>4, <2>1 DEF Commit, TypeInv
    <3>2. LET t == Begin("PUBLISHING", {c}, << >>) IN t \in Txn /\ AttemptOf(t) = {c}
      <4>1. {c} \in SUBSET Candidate /\ << >> \in Seq(Lock) /\ "PUBLISHING" \in Kind
        BY DEF Kind, WorkerKind
      <4> QED
        BY <4>1 DEF Begin, NoTxn, Txn, AttemptOf
    <3> QED
      BY <3>1, <3>2
  <2>4. /\ p \in Worker /\ Attempting[p] = {}
        /\ Attempting' = [Attempting EXCEPT ![p] = {c}]
    BY <1>1, <1>4, <2>3, AttemptingMoves DEF Attempting, WorkerKind
  <2>5. Rows!Claim(p, c)
    BY <2>1, <2>2, <2>4, SameHelpers DEF Rows!Claim, Claimable
  <2> QED
    BY <2>4, <2>5 DEF Rows!Next
<1>5. CASE kind = "COMPLETE"
  <2>1. PICK c \in Candidate : /\ txn[p].on = {c}
                              /\ operation[c].status = "RUNNING" /\ operation[c].owner = IdOf[p]
    BY <1>1, <1>5, TupleFacts DEF Disciplined, Completing
  <2>2. p \in Worker /\ Rows!Ends(p, c)
    <3>1. p \in Worker /\ Attempting[p] = {c}
      BY <1>1, <1>5, <2>1 DEF Attempting, WorkerKind
    <3>2. Attempting' = [Attempting EXCEPT ![p] = {}]
      BY <1>1, <1>3, <1>5, <3>1, AttemptingMoves
    <3> QED
      BY <2>1, <3>1, <3>2 DEF Rows!Ends
  <2> DEFINE op == operation[c]
             left == Completed(p, op, candidate[c])
  <2>3. Rows!Becomes(c, left.operation, left.candidate)
    BY <1>5, <2>1, CommitOnOne DEF Left
  <2>4. CASE txn[p].answer = "PUBLISHED" /\ candidate[c] = "PROMOTION_PENDING"
    <3>1. Rows!Becomes(c, Released(op, "SUCCEEDED"), "PROMOTED")
      BY <2>3, <2>4 DEF Completed
    <3>2. Rows!Succeed(p, c)
      BY <2>2, <2>4, <3>1, SameHelpers DEF Rows!Succeed
    <3> QED
      BY <2>2, <3>2 DEF Rows!Next
  <2>5. CASE txn[p].answer = "PUBLISHED" /\ candidate[c] # "PROMOTION_PENDING"
    <3>1. Rows!Becomes(c, Released(op, "FAILED"),
                       IF candidate[c] = "EVALUATING" THEN "EVALUATING" ELSE "BLOCKED")
      BY <2>3, <2>5 DEF Completed
    <3>2. Rows!ComeTooLate(p, c)
      BY <2>2, <2>5, <3>1, SameHelpers DEF Rows!ComeTooLate
    <3> QED
      BY <2>2, <3>2 DEF Rows!Next
  <2>6. CASE txn[p].answer # "PUBLISHED" /\ Terminal(p, op)
    <3>1. Rows!Becomes(c, Released(op, "FAILED"), "BLOCKED")
      BY <2>3, <2>6 DEF Completed
    <3>2. Rows!FailForGood(p, c)
      BY <2>2, <3>1, SameHelpers DEF Rows!FailForGood
    <3> QED
      BY <2>2, <3>2 DEF Rows!Next
  <2>7. CASE txn[p].answer # "PUBLISHED" /\ ~Terminal(p, op)
    <3>1. Rows!Becomes(c, Released(op, "QUEUED"), candidate[c])
      BY <2>3, <2>7 DEF Completed
    <3>2. op.attempts < MaxAttempts
      <4>1. op.attempts \in Int
        BY <1>1, AttemptsAssumption DEF TypeInv, WorkRow
      <4> QED
        BY <2>7, <4>1, AttemptsAssumption DEF Terminal
    <3>3. Rows!TryAgain(p, c)
      BY <2>2, <3>1, <3>2, SameHelpers DEF Rows!TryAgain
    <3> QED
      BY <2>2, <3>3 DEF Rows!Next
  <2> QED
    BY <2>4, <2>5, <2>6, <2>7
<1>6. CASE kind = "DEAD_LETTER"
  <2> DEFINE S == txn[p].on
  <2>1. \A c \in S : Exhausted(operation[c])
    BY <1>1, <1>6 DEF Disciplined, DeadLettering
  <2>2. /\ operation' = [c \in Candidate |->
               IF c \in S THEN Released(operation[c], "FAILED") ELSE operation[c]]
        /\ candidate' = [c \in Candidate |-> IF c \in S THEN "BLOCKED" ELSE candidate[c]]
    BY <1>6 DEF Commit, Left
  <2>3. Attempting' = Attempting
    BY <1>1, <1>3, <1>6, AttemptingMoves DEF AttemptOf
  <2>4. Rows!DeadLetter(S)
    <3> HIDE DEF S
    <3> QED
      BY <2>1, <2>2, <2>3, SameHelpers DEF Rows!DeadLetter, Exhausted
  <2>5. S \in SUBSET Candidate
    BY <1>1
  <2> QED
    BY <2>4, <2>5 DEF Rows!Next
<1>7. CASE kind \in SessionKind
  <2>1. Attempting' = Attempting
    BY <1>1, <1>3, <1>7, AttemptingMoves DEF AttemptOf, SessionKind, Promotion
  <2>2. PICK c \in Candidate : txn[p].on = {c}
    BY <1>1, <1>7 DEF Disciplined, SessionKind, Promotion, Retrying, Promoting, Following, Moving
  <2>3. Decided(p, c) /\ kind # "CLAIM"
    BY <1>2, <1>7, <2>2 DEF SessionKind, Promotion
  <2>4. CASE kind = "RETRY"
    <3>1. operation[c].status = "FAILED" /\ candidate[c] = "BLOCKED"
      <4>1. PICK d \in Candidate : Retrying(p, d)
        BY <1>1, <2>4 DEF Disciplined
      <4>2. d = c /\ operation[d].status = "FAILED"
        BY <1>1, <2>2, <4>1, TupleFacts DEF Retrying
      <4> QED
        BY <2>3, <2>4, <4>2 DEF Decided
    <3>2. Rows!Becomes(c, [Released(operation[c], "QUEUED") EXCEPT !.attempts = 0],
                       "PROMOTION_PENDING")
      BY <2>2, <2>4, CommitOnOne DEF Left
    <3>3. Rows!Retry(c)
      BY <2>1, <3>1, <3>2, SameHelpers DEF Rows!Retry
    <3> QED
      BY <3>3 DEF Rows!Next
  <2>5. CASE kind = "PROMOTE"
    <3>1. operation[c].status \notin Unfinished /\ candidate[c] = "ELIGIBLE"
      <4>1. PICK d \in Candidate : Promoting(p, d)
        BY <1>1, <2>5 DEF Disciplined
      <4>2. d = c /\ operation[d].status \notin Unfinished
        BY <1>1, <2>2, <4>1, TupleFacts DEF Promoting
      <4> QED
        BY <2>3, <2>5, <4>2 DEF Decided
    <3>2. Rows!Becomes(c, Queued, "PROMOTION_PENDING")
      BY <2>2, <2>5, CommitOnOne DEF Left
    <3>3. Rows!Promote(c)
      BY <2>1, <3>1, <3>2, SameHelpers DEF Rows!Promote
    <3> QED
      BY <3>3 DEF Rows!Next
  <2>6. CASE kind = "CHECK"
    <3>1. candidate[c] \notin {"PROMOTION_PENDING", "PROMOTED"}
      BY <2>3, <2>6 DEF Decided
    <3>2. Rows!Becomes(c, operation[c],
                       IF operation[c].status = "FAILED" THEN "BLOCKED" ELSE "ELIGIBLE")
      BY <2>2, <2>6, CommitOnOne DEF Left
    <3>3. Rows!Check(c)
      BY <2>1, <3>1, <3>2 DEF Rows!Check
    <3> QED
      BY <3>3 DEF Rows!Next
  <2>7. CASE kind = "EVALUATION_FAILS"
    <3>1. Rows!EvaluationFails(c)
      BY <2>1, <2>2, <2>7, CommitOnOne DEF Left, Rows!EvaluationFails
    <3> QED
      BY <3>1 DEF Rows!Next
  <2>8. CASE kind = "EVALUATION_PROMOTES"
    <3>1. /\ operation[c].status \notin Unfinished
          /\ candidate[c] \notin {"PROMOTION_PENDING", "PROMOTED"}
      <4>1. PICK d \in Candidate : Following(p, d)
        BY <1>1, <2>8 DEF Disciplined
      <4>2. d = c /\ operation[d].status \notin Unfinished
        BY <1>1, <2>2, <4>1, TupleFacts DEF Following
      <4> QED
        BY <2>3, <2>8, <4>2 DEF Decided
    <3>2. CASE operation[c].status = "FAILED"
      <4>1. /\ Left(p, operation[c], candidate[c]).operation = operation[c]
            /\ Left(p, operation[c], candidate[c]).candidate = "BLOCKED"
        BY <2>8, <3>2 DEF Left
      <4>2. Rows!Becomes(c, operation[c], "BLOCKED")
        BY <2>2, <4>1, CommitOnOne DEF Rows!Becomes
      <4>3. Rows!Check(c)
        BY <2>1, <3>1, <3>2, <4>2 DEF Rows!Check
      <4> QED
        BY <4>3 DEF Rows!Next
    <3>3. CASE operation[c].status # "FAILED"
      <4>1. Rows!Becomes(c, Queued, "PROMOTION_PENDING")
        BY <2>2, <2>8, <3>3, CommitOnOne DEF Left
      <4>2. Rows!EvaluationPromotes(c)
        BY <2>1, <3>1, <3>3, <4>1, SameHelpers DEF Rows!EvaluationPromotes
      <4> QED
        BY <4>2 DEF Rows!Next
    <3> QED
      BY <3>2, <3>3
  <2> QED
    BY <1>7, <2>4, <2>5, <2>6, <2>7, <2>8 DEF SessionKind, Promotion
<1> QED
  BY <1>1, <1>4, <1>5, <1>6, <1>7 DEF Kind, WorkerKind

LEMMA RowsInit == Init => Rows!Init
<1> SUFFICES ASSUME Init PROVE Rows!Init
  OBVIOUS
<1>1. PICK p \in Worker :
         operation = [c \in Candidate |->
            IF c \in Abandoned
            THEN [status |-> "RUNNING", attempts |-> MaxAttempts, owner |-> IdOf[p],
                  lease |-> "EXPIRED"]
            ELSE Queued]
  BY DEF Init
<1>2. IdOf[p] \in WorkerId
  BY WorkerAssumption
<1>3. \A c \in Candidate : candidate[c] \in {"ELIGIBLE", "PROMOTION_PENDING"}
  BY DEF Init
<1>4. Attempting = [q \in Worker |-> {}]
  BY ProcessFacts, NoTxnFacts DEF Init, Attempting
<1> QED
  BY <1>1, <1>2, <1>3, <1>4, SameHelpers DEF Rows!Init

LEMMA RowsNext == IInv /\ CheckedInv /\ [Next]_vars => [Rows!Next]_Rows!rvars
<1> SUFFICES ASSUME IInv, CheckedInv, [Next]_vars PROVE [Rows!Next]_Rows!rvars
  OBVIOUS
<1>1. ASSUME NEW p \in Process, Rollback(p) \/ Return(p)
      PROVE  [Rows!Next]_Rows!rvars
  BY <1>1, GivesUp DEF Rollback, Return
<1>2. ASSUME UNCHANGED << operation, candidate, txn >>
      PROVE  [Rows!Next]_Rows!rvars
  BY <1>2, NothingSeen DEF Attempting
<1>3. ASSUME NEW p \in Worker,
             PickClaimable(p) \/ PickExhausted(p) \/ PublishReturns(p) \/ BeatReads(p)
               \/ WorkerLost(p)
      PROVE  [Rows!Next]_Rows!rvars
  BY <1>1, <1>2, <1>3, BeginsUnseen, ProcessFacts DEF BeatReads, WorkerLost
<1>4. ASSUME NEW s \in Session, Request(s)
      PROVE  [Rows!Next]_Rows!rvars
  BY <1>4, BeginsUnseen, ProcessFacts
<1>5. ASSUME NEW p \in Process, Statement(p) \/ Abort(p)
      PROVE  [Rows!Next]_Rows!rvars
  BY <1>1, <1>5, BeginsUnseen, CommitSeen DEF Statement, Abort
<1> QED
  BY <1>2, <1>3, <1>4, <1>5, LeaseSeen DEF Next, vars

\* The transactions on registry operations, with their locks asked for in orders
\* that differ, waiting, deadlocks, aborts, lost workers and late heartbeats, look
\* from outside like a sequence of whole transactions that never meet.
THEOREM TransactionsAreAtomic == Spec => RowsChangeAtomically
<1>1. Spec => [](IInv /\ CheckedInv)
  BY IInvInit, IInvNext, CheckedInit, CheckedNext, PTL DEF Spec
<1> QED
  BY <1>1, RowsInit, RowsNext, PTL DEF Spec, RowsChangeAtomically, Rows!Spec
===============================================================================
