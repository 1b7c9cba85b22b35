------------------------------- MODULE EventLog -------------------------------
(***************************************************************************)
(* The promotion event log and its replay.  Transactions append events     *)
(* under a transaction-scoped advisory lock; a sequence value is allocated *)
(* when an event is written and is not given back by a rollback.  The      *)
(* server-sent event stream polls the committed rows after its cursor, and *)
(* a browser that loses the connection asks again with the last id it saw. *)
(* application/events.py, api/sse.py.                                      *)
(***************************************************************************)
EXTENDS Integers, Sequences, FiniteSets

CONSTANTS
    Writer,       \* database sessions that write events
    NoWriter,     \* nobody holds the advisory lock
    Candidate,    \* the candidates events are about
    Stream,       \* browsers
    Watched,      \* the candidates each stream's candidate_id filter lets pass
    After,        \* the `after` of each stream's URL
    BatchLimit,   \* rows one poll reads
    MaxSequence,  \* bound: events ever written
    MaxDrops      \* bound: lost connections per stream

ASSUME WriterAssumption == NoWriter \notin Writer
ASSUME StreamAssumption ==
    /\ Watched \in [Stream -> SUBSET Candidate]
    /\ After \in [Stream -> Nat]
    /\ BatchLimit \in Nat \ {0}
    /\ MaxSequence \in Nat /\ MaxDrops \in Nat

VARIABLES
    log,       \* committed events
    pending,   \* what each writer's open transaction has written
    sequence,  \* the next value of promotion_events.sequence
    holder,    \* who holds the advisory lock
    stream,    \* the server's end of each connection, and the wire
    received,  \* what each browser was handed, in order
    drops      \* connections each stream has lost

logVars == << log, pending, sequence, holder >>
vars == << log, pending, sequence, holder, stream, received, drops >>

Event == [sequence : Nat, candidate : Candidate]

Closed == [open |-> FALSE, cursor |-> 0, batch |-> {}, wire |-> << >>]

Init ==
    /\ log = {}
    /\ pending = [w \in Writer |-> {}]
    /\ sequence = 1
    /\ holder = NoWriter
    /\ stream = [s \in Stream |-> Closed]
    /\ received = [s \in Stream |-> << >>]
    /\ drops = [s \in Stream |-> 0]

(***************************************************************************)
(* Transactions.                                                           *)
(***************************************************************************)
\* emit_event without the advisory lock.
WritesUnlocked(w) == TRUE

\* pg_advisory_xact_lock returns: nobody else is writing events.
HoldsLock(w) == holder \in {NoWriter, w}

\* emit_event: the lock, then the row with a freshly allocated sequence.
EmitEvent(w) ==
    /\ sequence <= MaxSequence
    /\ HoldsLock(w)
    /\ \E c \in Candidate :
          pending' = [pending EXCEPT ![w] = @ \cup {[sequence |-> sequence, candidate |-> c]}]
    /\ sequence' = sequence + 1
    /\ holder' = w
    /\ UNCHANGED << log, stream, received, drops >>

Commit(w) ==
    /\ pending[w] # {}
    /\ log' = log \cup pending[w]
    /\ pending' = [pending EXCEPT ![w] = {}]
    /\ holder' = NoWriter
    /\ UNCHANGED << sequence, stream, received, drops >>

\* The transaction is refused, fails or its process dies: its sequence values
\* are burnt.
Rollback(w) ==
    /\ pending[w] # {}
    /\ pending' = [pending EXCEPT ![w] = {}]
    /\ holder' = NoWriter
    /\ UNCHANGED << log, sequence, stream, received, drops >>

(***************************************************************************)
(* Streams.                                                                *)
(***************************************************************************)
LastEventId(s) == IF received[s] = << >> THEN 0 ELSE received[s][Len(received[s])]

\* A stream that starts over at the `after` of its URL.
CursorFromUrl(s) == After[s]

\* cursor = max(after, Last-Event-ID); a browser repeats the URL it first used.
StartCursor(s) == IF LastEventId(s) > After[s] THEN LastEventId(s) ELSE After[s]

Connect(s) ==
    /\ ~stream[s].open
    /\ stream' = [stream EXCEPT ![s] = [Closed EXCEPT !.open = TRUE, !.cursor = StartCursor(s)]]
    /\ UNCHANGED << logVars, received, drops >>

\* The committed events the stream's filter lets pass, as sequence numbers.
Wanted(s) == {e.sequence : e \in {x \in log : x.candidate \in Watched[s]}}

\* The newest BatchLimit rows instead of the oldest.
NewestBatch(s) ==
    LET rows == {n \in Wanted(s) : n > stream[s].cursor}
    IN  {n \in rows : Cardinality({m \in rows : m > n}) < BatchLimit}

\* _read_events: the oldest BatchLimit rows after the cursor.
Batch(s) ==
    LET rows == {n \in Wanted(s) : n > stream[s].cursor}
    IN  {n \in rows : Cardinality({m \in rows : m < n}) < BatchLimit}

\* One poll; the generator polls again only when the batch is sent.
Poll(s) ==
    /\ stream[s].open
    /\ stream[s].batch = {}
    /\ Batch(s) # {}
    /\ stream' = [stream EXCEPT ![s].batch = Batch(s)]
    /\ UNCHANGED << logVars, received, drops >>

\* `cursor = event.sequence` and the yield of its frame.
Send(s) ==
    /\ stream[s].open
    /\ \E n \in stream[s].batch :
          /\ \A m \in stream[s].batch : n <= m
          /\ stream' = [stream EXCEPT ![s].batch = @ \ {n},
                                      ![s].cursor = n,
                                      ![s].wire = Append(@, n)]
    /\ UNCHANGED << logVars, received, drops >>

Deliver(s) ==
    /\ stream[s].wire # << >>
    /\ received' = [received EXCEPT ![s] = Append(@, Head(stream[s].wire))]
    /\ stream' = [stream EXCEPT ![s].wire = Tail(@)]
    /\ UNCHANGED << logVars, drops >>

\* The connection breaks: the generator ends, what is on the wire is lost.
Drop(s) ==
    /\ stream[s].open
    /\ drops[s] < MaxDrops
    /\ drops' = [drops EXCEPT ![s] = @ + 1]
    /\ stream' = [stream EXCEPT ![s] = Closed]
    /\ UNCHANGED << logVars, received >>

WriterStep(w) == EmitEvent(w) \/ Commit(w) \/ Rollback(w)
StreamStep(s) == Connect(s) \/ Poll(s) \/ Send(s) \/ Deliver(s)

Next ==
    \/ \E w \in Writer : WriterStep(w)
    \/ \E s \in Stream : StreamStep(s) \/ Drop(s)

Spec == Init /\ [][Next]_vars

\* The generator loops, the network delivers, EventSource reconnects.  No
\* transaction is obliged to write or to commit.
FairSpec == Spec /\ \A s \in Stream : WF_vars(StreamStep(s))

(***************************************************************************)
(* Properties.                                                             *)
(***************************************************************************)
TypeOK ==
    /\ log \subseteq Event
    /\ pending \in [Writer -> SUBSET Event]
    /\ sequence \in Nat \ {0}
    /\ holder \in Writer \cup {NoWriter}
    /\ stream \in [Stream -> [open : BOOLEAN, cursor : Nat, batch : SUBSET Nat,
                              wire : Seq(Nat)]]
    /\ received \in [Stream -> Seq(Nat)]
    /\ drops \in [Stream -> 0..MaxDrops]

\* Events become visible in the order of their sequence values, though the
\* values are allocated long before the commit: nothing a commit adds sorts
\* before anything a reader could already have seen ("a replay cursor can never
\* observe N+1 and later miss a transaction that commits N", events.py).
CommitsInOrder ==
    [][\A new \in log' \ log : \A old \in log : old.sequence < new.sequence]_vars

\* A browser's list is the log, through any lost connections: exactly the
\* committed events it watches after the point it started from, up to the last
\* one it was handed, each once and in order.
ReceivedIsTheLog ==
    \A s \in Stream :
        LET got == received[s]
        IN  /\ \A i, j \in DOMAIN got : i < j => got[i] < got[j]
            /\ {got[i] : i \in DOMAIN got} =
                  {n \in Wanted(s) : After[s] < n /\ n <= LastEventId(s)}

\* Every committed event a stream watches reaches its browser.
EveryEventArrives ==
    \A s \in Stream, n \in 1..MaxSequence :
        n \in Wanted(s) /\ After[s] < n ~> \E i \in DOMAIN received[s] : received[s][i] = n
=============================================================================
