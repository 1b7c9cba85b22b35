---------------------------- MODULE EventLogProofs ----------------------------
(***************************************************************************)
(* The order in which events become visible, for any number of writers,    *)
(* candidates and events.  Streams only read the log, so the argument is   *)
(* about the transactions alone: whoever has written an event holds the    *)
(* advisory lock until its transaction ends, so at most one open           *)
(* transaction holds sequence values and all of them are above the log.    *)
(* On that order rests what a browser is handed: a commit adds nothing     *)
(* below a cursor, so what was sent stays exactly the log up to the cursor.*)
(***************************************************************************)
EXTENDS EventLog, FiniteSetTheorems, TLAPS

\* The part of the type invariant the transactions need.
LogType ==
    /\ log \subseteq Event
    /\ pending \in [Writer -> SUBSET Event]
    /\ sequence \in Nat \ {0}
    /\ holder \in Writer \cup {NoWriter}

\* An open transaction that wrote an event holds the lock.
WritersHoldLock == \A w \in Writer : pending[w] # {} => holder = w

\* Values are allocated in order, and those of an open transaction after
\* everything committed.
ValuesAreAllocated ==
    /\ \A e \in log : e.sequence < sequence
    /\ \A w \in Writer : \A e \in pending[w] : e.sequence < sequence
PendingIsNewer ==
    \A w \in Writer : \A e \in pending[w], old \in log : old.sequence < e.sequence

LogInv == LogType /\ WritersHoldLock /\ ValuesAreAllocated /\ PendingIsNewer

LEMMA LogInvInit == Init => LogInv
<1> SUFFICES ASSUME Init PROVE LogInv
  OBVIOUS
<1> QED
  BY DEF Init, LogInv, LogType, WritersHoldLock, ValuesAreAllocated, PendingIsNewer

LEMMA EmitKeepsLogInv ==
    ASSUME LogInv, NEW w \in Writer, EmitEvent(w)
    PROVE  LogInv'
<1>1. PICK c \in Candidate :
        pending' = [pending EXCEPT ![w] = @ \cup {[sequence |-> sequence, candidate |-> c]}]
  BY DEF EmitEvent
<1> DEFINE e0 == [sequence |-> sequence, candidate |-> c]
<1>2. /\ log' = log /\ sequence' = sequence + 1 /\ holder' = w /\ sequence \in Nat \ {0}
      /\ e0 \in Event
  BY DEF EmitEvent, LogInv, LogType, Event
<1>3. /\ pending'[w] = pending[w] \cup {e0}
      /\ \A v \in Writer \ {w} : pending'[v] = pending[v]
  BY <1>1 DEF LogInv, LogType
<1>4. \A v \in Writer \ {w} : pending[v] = {}
  BY WriterAssumption DEF EmitEvent, HoldsLock, LogInv, WritersHoldLock
<1>5. LogType'
  BY <1>1, <1>2 DEF LogInv, LogType
<1>6. WritersHoldLock'
  BY <1>2, <1>3, <1>4 DEF WritersHoldLock
<1>7. ValuesAreAllocated'
  <2>1. \A e \in log' : e.sequence < sequence'
    BY <1>2 DEF LogInv, LogType, ValuesAreAllocated, Event
  <2>2. ASSUME NEW v \in Writer, NEW e \in pending'[v] PROVE e.sequence < sequence'
    <3>1. e \in pending[w] \/ e = e0
      BY <1>3, <1>4
    <3>2. CASE e = e0
      BY <3>2, <1>2
    <3>3. CASE e \in pending[w]
      <4>1. e.sequence \in Nat /\ e.sequence < sequence
        BY <3>3 DEF LogInv, LogType, ValuesAreAllocated, Event
      <4> QED
        BY <4>1, <1>2
    <3> QED
      BY <3>1, <3>2, <3>3
  <2> QED
    BY <2>1, <2>2 DEF ValuesAreAllocated
<1>8. PendingIsNewer'
  <2> SUFFICES ASSUME NEW v \in Writer, NEW e \in pending'[v], NEW old \in log
               PROVE  old.sequence < e.sequence
    BY <1>2 DEF PendingIsNewer
  <2>1. CASE e = e0
    BY <2>1 DEF LogInv, ValuesAreAllocated
  <2>2. CASE e \in pending[w]
    BY <2>2 DEF LogInv, PendingIsNewer
  <2> QED
    BY <2>1, <2>2, <1>3, <1>4
<1> QED
  BY <1>5, <1>6, <1>7, <1>8 DEF LogInv

LEMMA CommitKeepsLogInv ==
    ASSUME LogInv, NEW w \in Writer, Commit(w)
    PROVE  LogInv'
<1>1. /\ log' = log \cup pending[w] /\ sequence' = sequence /\ holder' = NoWriter
      /\ pending' = [pending EXCEPT ![w] = {}]
  BY DEF Commit
<1>2. \A v \in Writer : pending'[v] = {}
  BY <1>1, WriterAssumption DEF Commit, LogInv, LogType, WritersHoldLock
<1>3. LogType'
  BY <1>1 DEF LogInv, LogType
<1> QED
  BY <1>1, <1>2, <1>3 DEF LogInv, WritersHoldLock, ValuesAreAllocated, PendingIsNewer

LEMMA RollbackKeepsLogInv ==
    ASSUME LogInv, NEW w \in Writer, Rollback(w)
    PROVE  LogInv'
<1>1. /\ log' = log /\ sequence' = sequence /\ holder' = NoWriter
      /\ pending' = [pending EXCEPT ![w] = {}]
  BY DEF Rollback
<1>2. \A v \in Writer : pending'[v] = {}
  BY <1>1 DEF Rollback, LogInv, LogType, WritersHoldLock
<1>3. LogType'
  BY <1>1 DEF LogInv, LogType
<1> QED
  BY <1>1, <1>2, <1>3 DEF LogInv, WritersHoldLock, ValuesAreAllocated, PendingIsNewer

\* Streams and idle steps leave the transactions alone.
LEMMA OthersKeepLogInv ==
    ASSUME LogInv, UNCHANGED logVars
    PROVE  LogInv'
BY DEF LogInv, logVars, LogType, WritersHoldLock, ValuesAreAllocated, PendingIsNewer

LEMMA StreamsOnlyRead ==
    ASSUME NEW s \in Stream, StreamStep(s) \/ Drop(s)
    PROVE  UNCHANGED logVars
BY DEF StreamStep, Connect, Poll, Send, Deliver, Drop

LEMMA LogInvStep == LogInv /\ [Next]_vars => LogInv'
<1> SUFFICES ASSUME LogInv, [Next]_vars PROVE LogInv'
  OBVIOUS
<1>1. CASE UNCHANGED vars
  <2>1. UNCHANGED logVars
    BY <1>1 DEF vars, logVars
  <2> QED
    BY <2>1, OthersKeepLogInv
<1>2. ASSUME NEW w \in Writer, WriterStep(w) PROVE LogInv'
  BY <1>2, EmitKeepsLogInv, CommitKeepsLogInv, RollbackKeepsLogInv DEF WriterStep
<1>3. ASSUME NEW s \in Stream, StreamStep(s) \/ Drop(s) PROVE LogInv'
  BY <1>3, StreamsOnlyRead, OthersKeepLogInv
<1> QED
  BY <1>1, <1>2, <1>3 DEF Next

\* What a commit adds was pending, and the invariant puts it above the log.
LEMMA StepCommitsInOrder ==
    ASSUME LogInv, [Next]_vars
    PROVE  \A new \in log' \ log : \A old \in log : old.sequence < new.sequence
<1>1. CASE UNCHANGED logVars
  BY <1>1 DEF logVars
<1>2. ASSUME NEW w \in Writer, WriterStep(w)
      PROVE  \A new \in log' \ log : \A old \in log : old.sequence < new.sequence
  <2>1. log' = log \/ log' = log \cup pending[w]
    BY <1>2 DEF WriterStep, EmitEvent, Commit, Rollback
  <2> QED
    BY <2>1 DEF LogInv, PendingIsNewer
<1> QED
  BY <1>1, <1>2, StreamsOnlyRead DEF Next, vars, logVars

\* Events become visible in the order of their sequence values, whoever
\* writes and whatever is rolled back: the guarantee events.py gives readers.
THEOREM VisibleInOrder == Spec => CommitsInOrder
<1>1. Spec => []LogInv
  BY LogInvInit, LogInvStep, PTL DEF Spec
<1>2. LogInv /\ [Next]_vars =>
        [\A new \in log' \ log : \A old \in log : old.sequence < new.sequence]_vars
  BY StepCommitsInOrder
<1> QED
  BY <1>1, <1>2, PTL DEF Spec, CommitsInOrder
-----------------------------------------------------------------------------
(***************************************************************************)
(* What a browser is handed.                                               *)
(***************************************************************************)
Got(s) == {received[s][i] : i \in DOMAIN received[s]}
OnTheWire(s) == {stream[s].wire[i] : i \in DOMAIN stream[s].wire}
Sent(s) == Got(s) \cup OnTheWire(s)

Connection == [open : BOOLEAN, cursor : Nat, batch : SUBSET Nat, wire : Seq(Nat)]
StreamType(s) == stream[s] \in Connection /\ received[s] \in Seq(Nat)

\* Frames are handed over, and wait on the wire, in increasing order.
Increasing(q) == \A i, j \in DOMAIN q : i < j => q[i] < q[j]
InOrder(s) ==
    /\ Increasing(received[s])
    /\ Increasing(stream[s].wire)
    /\ \A m \in Got(s), n \in OnTheWire(s) : m < n

\* How far the stream has got.
Reach(s) == IF stream[s].open THEN stream[s].cursor ELSE StartCursor(s)

\* What was sent is the log up to there, and there is a sent event or the start.
SentIsTheLog(s) ==
    \A n \in Nat : n \in Sent(s) <=> n \in Wanted(s) /\ After[s] < n /\ n <= Reach(s)
ReachIsSent(s) == Reach(s) = After[s] \/ Reach(s) \in Sent(s)

\* A batch is the log from the cursor on, without gaps, and only an open
\* connection has one or a wire.
BatchHasNoGaps(s) ==
    /\ \A n \in stream[s].batch : n \in Wanted(s) /\ stream[s].cursor < n
    /\ \A b \in stream[s].batch, n \in Wanted(s) :
          stream[s].cursor < n /\ n <= b => n \in stream[s].batch
ClosedIsEmpty(s) == ~stream[s].open => stream[s].wire = << >> /\ stream[s].batch = {}

StreamInv(s) ==
    /\ StreamType(s) /\ InOrder(s) /\ SentIsTheLog(s) /\ ReachIsSent(s)
    /\ BatchHasNoGaps(s) /\ ClosedIsEmpty(s)

StreamsInv ==
    /\ stream \in [Stream -> Connection]
    /\ received \in [Stream -> Seq(Nat)]
    /\ \A s \in Stream : StreamInv(s)

FullInv == LogInv /\ StreamsInv

LEMMA WantedNat ==
    ASSUME LogInv, NEW s \in Stream
    PROVE  Wanted(s) \subseteq Nat
BY DEF Wanted, LogInv, LogType, Event

\* A sequence that is sorted ends with its largest element.
LEMMA LastIsLargest ==
    ASSUME NEW s \in Stream, StreamType(s), InOrder(s)
    PROVE  /\ LastEventId(s) \in Nat
           /\ \A n \in Got(s) : n <= LastEventId(s)
           /\ received[s] # << >> => LastEventId(s) \in Got(s)
           /\ received[s] = << >> => LastEventId(s) = 0 /\ Got(s) = {}
<1>1. CASE received[s] = << >>
  BY <1>1 DEF LastEventId, Got
<1>2. CASE received[s] # << >>
  <2> DEFINE last == Len(received[s])
  <2>1. /\ last \in DOMAIN received[s]
        /\ \A i \in DOMAIN received[s] : i <= last /\ i \in Nat /\ received[s][i] \in Nat
    BY <1>2 DEF StreamType, Connection
  <2>2. LastEventId(s) = received[s][last]
    BY <1>2 DEF LastEventId
  <2>3. \A i \in DOMAIN received[s] : received[s][i] <= received[s][last]
    BY <2>1 DEF InOrder, Increasing
  <2> QED
    BY <1>2, <2>1, <2>2, <2>3 DEF Got
<1> QED
  BY <1>1, <1>2

\* What was handed over is the log up to the last event handed over, also
\* while more is on the wire.
LEMMA GotIsTheLog ==
    ASSUME LogInv, NEW s \in Stream, StreamInv(s), NEW n \in Nat
    PROVE  n \in Got(s) <=> n \in Wanted(s) /\ After[s] < n /\ n <= LastEventId(s)
<1>1. /\ LastEventId(s) \in Nat
      /\ \A k \in Got(s) : k <= LastEventId(s)
      /\ received[s] # << >> => LastEventId(s) \in Got(s)
      /\ received[s] = << >> => LastEventId(s) = 0 /\ Got(s) = {}
  BY LastIsLargest DEF StreamInv
<1>2. After[s] \in Nat /\ Reach(s) \in Nat
  BY <1>1, StreamAssumption DEF StreamInv, StreamType, Connection, Reach, StartCursor
<1>3. ASSUME n \in Got(s)
      PROVE  n \in Wanted(s) /\ After[s] < n /\ n <= LastEventId(s)
  BY <1>1, <1>3 DEF StreamInv, SentIsTheLog, Sent
<1>4. ASSUME n \in Wanted(s), After[s] < n, n <= LastEventId(s)
      PROVE  n \in Got(s)
  <2>1. LastEventId(s) \in Got(s)
    BY <1>1, <1>2, <1>4
  <2>2. LastEventId(s) <= Reach(s)
    BY <2>1, <1>1 DEF StreamInv, SentIsTheLog, Sent
  <2>3. n \in Sent(s)
    BY <1>1, <1>2, <1>4, <2>2 DEF StreamInv, SentIsTheLog
  <2>4. \A k \in OnTheWire(s) : LastEventId(s) < k /\ k \in Nat
    BY <2>1 DEF StreamInv, InOrder, OnTheWire, StreamType, Connection
  <2> QED
    BY <1>1, <1>4, <2>3, <2>4 DEF Sent
<1> QED
  BY <1>3, <1>4
-----------------------------------------------------------------------------
LEMMA FullInvInit == Init => FullInv
<1> SUFFICES ASSUME Init PROVE FullInv
  OBVIOUS
<1>1. LogInv
  BY LogInvInit
<1>2. /\ stream \in [Stream -> Connection]
      /\ received \in [Stream -> Seq(Nat)]
  BY DEF Init, Connection, Closed
<1>3. ASSUME NEW s \in Stream PROVE StreamInv(s)
  <2>1. stream[s] = Closed /\ received[s] = << >> /\ Wanted(s) = {} /\ After[s] \in Nat
    BY StreamAssumption DEF Init, Wanted
  <2>2. StreamType(s) /\ ClosedIsEmpty(s) /\ BatchHasNoGaps(s)
    <3>1. stream[s] \in Connection /\ received[s] \in Seq(Nat)
      BY <1>2
    <3>2. stream[s].batch = {} /\ stream[s].wire = << >>
      BY <2>1 DEF Closed
    <3> QED
      BY <3>1, <3>2 DEF StreamType, ClosedIsEmpty, BatchHasNoGaps
  <2>3. Got(s) = {} /\ OnTheWire(s) = {} /\ InOrder(s)
    BY <2>1 DEF Got, OnTheWire, InOrder, Increasing, Closed
  <2>4. Reach(s) = After[s]
    BY <2>1 DEF Reach, StartCursor, LastEventId, Closed
  <2>5. SentIsTheLog(s) /\ ReachIsSent(s)
    BY <2>1, <2>3, <2>4 DEF SentIsTheLog, ReachIsSent, Sent
  <2> QED
    BY <2>2, <2>3, <2>5 DEF StreamInv
<1> QED
  BY <1>1, <1>2, <1>3 DEF FullInv, StreamsInv

\* A stream that a step does not touch, while the log stays the same.
LEMMA SameStream ==
    ASSUME NEW s \in Stream, StreamInv(s), log' = log,
           stream'[s] = stream[s], received'[s] = received[s]
    PROVE  StreamInv(s)'
BY DEF StreamInv, StreamType, InOrder, SentIsTheLog, ReachIsSent, BatchHasNoGaps,
       ClosedIsEmpty, Increasing, Got, OnTheWire, Sent, Reach, StartCursor, LastEventId, Wanted

\* A commit adds to what a stream wants only above all it could want before.
LEMMA WritersKeepStreams ==
    ASSUME LogInv, NEW w \in Writer, WriterStep(w), NEW s \in Stream, StreamInv(s)
    PROVE  StreamInv(s)'
<1>1. UNCHANGED << stream, received >>
  BY DEF WriterStep, EmitEvent, Commit, Rollback
<1>2. log \subseteq log' /\ \A new \in log' \ log : \A old \in log : old.sequence < new.sequence
  <2>1. log \subseteq log'
    BY DEF WriterStep, EmitEvent, Commit, Rollback
  <2> QED
    BY <2>1, StepCommitsInOrder DEF Next
<1>3. Wanted(s) \subseteq Wanted(s)'
  BY <1>2 DEF Wanted
<1>4. \A n \in Wanted(s)' \ Wanted(s), m \in Wanted(s) : m < n
  BY <1>2 DEF Wanted
<1>5. Wanted(s) \subseteq Nat /\ Wanted(s)' \subseteq Nat
  <2>1. LogInv'
    BY LogInvStep DEF Next
  <2> QED
    BY <2>1, WantedNat DEF Wanted, LogInv, LogType, Event
<1>6. StreamType(s)' /\ InOrder(s)' /\ ClosedIsEmpty(s)' /\ ReachIsSent(s)'
  BY <1>1 DEF StreamInv, StreamType, InOrder, ClosedIsEmpty, ReachIsSent, Increasing, Got,
              OnTheWire, Sent, Reach, StartCursor, LastEventId
<1>7. Reach(s)' = Reach(s) /\ Sent(s)' = Sent(s) /\ Reach(s) \in Nat /\ After[s] \in Nat
  <2>1. LastEventId(s) \in Nat
    BY LastIsLargest DEF StreamInv
  <2> QED
    BY <1>1, <2>1, StreamAssumption
    DEF StreamInv, StreamType, Connection, Got, OnTheWire, Sent, Reach, StartCursor, LastEventId
<1>8. SentIsTheLog(s)'
  <2>1. ASSUME NEW n \in Nat
        PROVE  n \in Sent(s) <=> n \in Wanted(s)' /\ After[s] < n /\ n <= Reach(s)
    <3>1. ASSUME n \in Wanted(s)' \ Wanted(s), After[s] < n, n <= Reach(s) PROVE FALSE
      <4>1. Reach(s) \in Wanted(s)
        BY <1>7, <3>1 DEF StreamInv, ReachIsSent, SentIsTheLog
      <4> QED
        BY <1>4, <1>7, <3>1, <4>1
    <3> QED
      BY <1>3, <3>1 DEF StreamInv, SentIsTheLog
  <2> QED
    BY <1>7, <2>1 DEF SentIsTheLog
<1>9. BatchHasNoGaps(s)'
  <2>1. \A b \in stream[s].batch, n \in Wanted(s)' : n <= b => n \in Wanted(s)
    BY <1>4, <1>5 DEF StreamInv, BatchHasNoGaps
  <2> QED
    BY <1>1, <1>3, <2>1 DEF StreamInv, BatchHasNoGaps
<1> QED
  BY <1>6, <1>8, <1>9 DEF StreamInv
-----------------------------------------------------------------------------
\* The steps of a connection.

LEMMA ConnectKeepsStream ==
    ASSUME LogInv, NEW s \in Stream, StreamsInv, Connect(s)
    PROVE  StreamInv(s)'
<1> DEFINE new == [Closed EXCEPT !.open = TRUE, !.cursor = StartCursor(s)]
<1>1. /\ StreamInv(s) /\ ~stream[s].open
      /\ stream'[s] = new /\ received'[s] = received[s] /\ log' = log
  BY DEF Connect, StreamsInv, logVars
<1>2. /\ new.open = TRUE /\ new.cursor = StartCursor(s) /\ new.batch = {} /\ new.wire = << >>
  BY DEF Closed
<1>3. StartCursor(s) \in Nat /\ new \in Connection
  <2>1. LastEventId(s) \in Nat
    BY <1>1, LastIsLargest DEF StreamInv
  <2>2. StartCursor(s) \in Nat
    BY <2>1, StreamAssumption DEF StartCursor
  <2>3. Closed \in Connection
    BY DEF Closed, Connection
  <2> QED
    BY <2>2, <2>3 DEF Connection
<1>4. stream[s].wire = << >> /\ stream[s].batch = {}
  BY <1>1 DEF StreamInv, ClosedIsEmpty
<1>5. /\ Got(s)' = Got(s) /\ OnTheWire(s)' = OnTheWire(s) /\ Sent(s)' = Sent(s)
      /\ Reach(s)' = Reach(s) /\ Wanted(s)' = Wanted(s)
  BY <1>1, <1>2, <1>4 DEF Got, OnTheWire, Sent, Reach, Wanted
<1>6. StreamType(s)' /\ ClosedIsEmpty(s)' /\ BatchHasNoGaps(s)'
  BY <1>1, <1>2, <1>3 DEF StreamInv, StreamType, ClosedIsEmpty, BatchHasNoGaps
<1>7. InOrder(s)'
  <2>1. stream'[s].wire = stream[s].wire
    BY <1>1, <1>2, <1>4
  <2> QED
    BY <1>1, <1>5, <2>1 DEF StreamInv, InOrder, Increasing
<1>8. SentIsTheLog(s)' /\ ReachIsSent(s)'
  BY <1>1, <1>5 DEF StreamInv, SentIsTheLog, ReachIsSent
<1> QED
  BY <1>6, <1>7, <1>8 DEF StreamInv

\* A batch of the oldest rows leaves none out before its last one.
LEMMA OldestRowsHaveNoGaps ==
    ASSUME LogInv, NEW s \in Stream, StreamType(s)
    PROVE  \A b \in Batch(s), n \in Wanted(s) :
              stream[s].cursor < n /\ n <= b => n \in Batch(s)
<1> SUFFICES ASSUME NEW b \in Batch(s), NEW n \in Wanted(s), stream[s].cursor < n, n <= b
             PROVE  n \in Batch(s)
  OBVIOUS
<1> DEFINE rows == {k \in Wanted(s) : k > stream[s].cursor}
           below(k) == {m \in rows : m < k}
<1>1. Wanted(s) \subseteq Nat /\ stream[s].cursor \in Nat /\ BatchLimit \in Nat
  BY WantedNat, StreamAssumption DEF StreamType, Connection
<1>2. b \in rows /\ Cardinality(below(b)) < BatchLimit
  BY DEF Batch
<1>3. n \in rows /\ below(n) \subseteq below(b) /\ below(b) \subseteq 0..b
  BY <1>1, <1>2
<1>4. IsFiniteSet(below(b))
  <2>1. IsFiniteSet(0..b)
    BY <1>1, <1>2, FS_Interval
  <2> QED
    BY <1>3, <2>1, FS_Subset
<1>5. /\ Cardinality(below(n)) <= Cardinality(below(b))
      /\ Cardinality(below(n)) \in Nat /\ Cardinality(below(b)) \in Nat
  BY <1>3, <1>4, FS_Subset, FS_CardinalityType
<1>6. Cardinality(below(n)) < BatchLimit
  BY <1>1, <1>2, <1>5
<1> QED
  BY <1>3, <1>6 DEF Batch

LEMMA PollKeepsStream ==
    ASSUME LogInv, NEW s \in Stream, StreamsInv, Poll(s)
    PROVE  StreamInv(s)'
<1>1. /\ StreamInv(s) /\ stream[s].open
      /\ stream'[s] = [stream[s] EXCEPT !.batch = Batch(s)]
      /\ received'[s] = received[s] /\ log' = log
  BY DEF Poll, StreamsInv, logVars
<1>2. Batch(s) \subseteq Wanted(s) /\ Wanted(s) \subseteq Nat
  BY WantedNat DEF Batch
<1>3. /\ stream'[s].open = stream[s].open /\ stream'[s].cursor = stream[s].cursor
      /\ stream'[s].wire = stream[s].wire /\ stream'[s].batch = Batch(s)
      /\ stream'[s] \in Connection
  BY <1>1, <1>2 DEF StreamInv, StreamType, Connection
<1>4. /\ Got(s)' = Got(s) /\ OnTheWire(s)' = OnTheWire(s) /\ Sent(s)' = Sent(s)
      /\ Reach(s)' = Reach(s) /\ Wanted(s)' = Wanted(s)
  BY <1>1, <1>3 DEF Got, OnTheWire, Sent, Reach, StartCursor, LastEventId, Wanted
<1>5. StreamType(s)' /\ ClosedIsEmpty(s)' /\ InOrder(s)'
  BY <1>1, <1>3, <1>4 DEF StreamInv, StreamType, ClosedIsEmpty, InOrder, Increasing
<1>6. SentIsTheLog(s)' /\ ReachIsSent(s)'
  BY <1>1, <1>4 DEF StreamInv, SentIsTheLog, ReachIsSent
<1>7. \A n \in Batch(s) : n \in Wanted(s) /\ stream[s].cursor < n
  BY <1>1, <1>2 DEF Batch, StreamInv, StreamType, Connection
<1>8. BatchHasNoGaps(s)'
  BY <1>1, <1>3, <1>4, <1>7, OldestRowsHaveNoGaps DEF BatchHasNoGaps, StreamInv
<1> QED
  BY <1>5, <1>6, <1>8 DEF StreamInv
LEMMA SendKeepsStream ==
    ASSUME LogInv, NEW s \in Stream, StreamsInv, Send(s)
    PROVE  StreamInv(s)'
<1>1. PICK n \in stream[s].batch :
        /\ \A m \in stream[s].batch : n <= m
        /\ stream' = [stream EXCEPT ![s].batch = @ \ {n}, ![s].cursor = n, ![s].wire = Append(@, n)]
  BY DEF Send
<1>2. /\ StreamInv(s) /\ stream[s].open /\ stream[s] \in Connection
      /\ received'[s] = received[s] /\ log' = log /\ n \in Nat
  BY DEF Send, StreamsInv, logVars, Connection
<1> DEFINE wire == stream[s].wire
<1>3. /\ stream'[s].open /\ stream'[s].cursor = n /\ stream'[s].batch = stream[s].batch \ {n}
      /\ stream'[s].wire = Append(wire, n) /\ stream'[s] \in Connection
      /\ wire \in Seq(Nat)
  <2>1. stream'[s] = [stream[s] EXCEPT !.batch = @ \ {n}, !.cursor = n, !.wire = Append(@, n)]
    BY <1>1 DEF StreamsInv
  <2>2. wire \in Seq(Nat) /\ Append(wire, n) \in Seq(Nat) /\ stream[s].batch \ {n} \in SUBSET Nat
    BY <1>2 DEF Connection
  <2> QED
    BY <1>2, <2>1, <2>2 DEF Connection
<1>4. n \in Wanted(s) /\ stream[s].cursor < n /\ stream[s].cursor \in Nat /\ After[s] \in Nat
  BY <1>2, StreamAssumption DEF StreamInv, BatchHasNoGaps, Connection
<1>5. Reach(s) = stream[s].cursor /\ Reach(s)' = n /\ Wanted(s)' = Wanted(s) /\ After[s] <= Reach(s)
  <2>1. Reach(s) = stream[s].cursor /\ Reach(s)' = n /\ Wanted(s)' = Wanted(s)
    BY <1>2, <1>3 DEF Reach, Wanted
  <2>2. Reach(s) = After[s] \/ After[s] < Reach(s)
    BY <1>2, <1>4, <2>1 DEF StreamInv, ReachIsSent, SentIsTheLog
  <2> QED
    BY <2>1, <2>2, <1>4
<1>12. /\ Len(wire) \in Nat /\ DOMAIN wire = 1..Len(wire)
       /\ DOMAIN Append(wire, n) = 1..Len(wire) + 1
       /\ \A i \in DOMAIN wire : Append(wire, n)[i] = wire[i]
       /\ Append(wire, n)[Len(wire) + 1] = n
  BY <1>2, <1>3
<1>6. OnTheWire(s)' = OnTheWire(s) \cup {n} /\ Got(s)' = Got(s) /\ Sent(s)' = Sent(s) \cup {n}
  <2>1. OnTheWire(s)' = OnTheWire(s) \cup {n}
    BY <1>3, <1>12 DEF OnTheWire
  <2> QED
    BY <1>2, <2>1 DEF Got, Sent
<1>7. \A m \in Sent(s) : m \in Nat /\ m < n
  <2>1. \A m \in Sent(s) : m \in Nat
    BY <1>2, <1>3 DEF StreamInv, StreamType, Sent, Got, OnTheWire
  <2> QED
    BY <1>2, <1>4, <1>5, <2>1 DEF StreamInv, SentIsTheLog
<1>8. InOrder(s)'
  <2>1. \A i \in DOMAIN wire : wire[i] < n
    BY <1>7 DEF Sent, OnTheWire
  <2>2. Increasing(Append(wire, n))
    <3>1. Increasing(wire)
      BY <1>2 DEF StreamInv, InOrder
    <3> QED
      BY <1>12, <2>1, <3>1 DEF Increasing
  <2> QED
    BY <1>2, <1>3, <1>6, <1>7, <2>2 DEF StreamInv, InOrder, Increasing, Sent
<1>9. SentIsTheLog(s)' /\ ReachIsSent(s)'
  <2>1. ASSUME NEW k \in Nat
        PROVE  k \in Sent(s) \cup {n} <=> k \in Wanted(s) /\ After[s] < k /\ k <= n
    <3>1. ASSUME k \in Wanted(s), Reach(s) < k, k <= n PROVE k = n
      BY <1>1, <1>2, <1>5, <3>1 DEF StreamInv, BatchHasNoGaps
    <3> QED
      BY <1>2, <1>4, <1>5, <1>7, <3>1 DEF StreamInv, SentIsTheLog
  <2> QED
    BY <1>5, <1>6, <2>1 DEF SentIsTheLog, ReachIsSent
<1>10. StreamType(s)' /\ ClosedIsEmpty(s)'
  BY <1>2, <1>3 DEF StreamInv, StreamType, ClosedIsEmpty
<1>11. BatchHasNoGaps(s)'
  <2>1. \A m \in stream[s].batch : m \in Nat /\ m \in Wanted(s) /\ (m # n => n < m)
    BY <1>1, <1>2 DEF StreamInv, BatchHasNoGaps, Connection
  <2>2. \A m \in Wanted(s) : m \in Nat
    BY WantedNat
  <2>3. ASSUME NEW b \in stream[s].batch, NEW k \in Wanted(s), n < k, k <= b
        PROVE  k \in stream[s].batch \ {n}
    <3>2. n \in Nat /\ stream[s].cursor \in Nat /\ stream[s].cursor < n
      BY <1>2, <1>4
    <3>3. k \in Nat /\ n < k
      BY <2>2, <2>3
    <3>1. stream[s].cursor < k
      BY <3>2, <3>3
    <3> QED
      BY <1>2, <2>2, <2>3, <3>1 DEF StreamInv, BatchHasNoGaps
  <2> QED
    BY <1>2, <1>3, <1>5, <2>1, <2>3 DEF BatchHasNoGaps
<1> QED
  BY <1>8, <1>9, <1>10, <1>11 DEF StreamInv

LEMMA DeliverKeepsStream ==
    ASSUME LogInv, NEW s \in Stream, StreamsInv, Deliver(s)
    PROVE  StreamInv(s)'
<1> DEFINE got == received[s]
           wire == stream[s].wire
<1>1. /\ StreamInv(s) /\ stream[s] \in Connection /\ log' = log
      /\ got \in Seq(Nat) /\ wire \in Seq(Nat) /\ wire # << >>
      /\ received'[s] = Append(got, Head(wire))
      /\ stream'[s] = [stream[s] EXCEPT !.wire = Tail(@)]
  BY DEF Deliver, StreamsInv, logVars, Connection
<1>2. /\ stream'[s].open = stream[s].open /\ stream'[s].cursor = stream[s].cursor
      /\ stream'[s].batch = stream[s].batch /\ stream'[s].wire = Tail(wire)
      /\ stream'[s] \in Connection /\ stream[s].open
      /\ Append(got, Head(wire)) \in Seq(Nat)
  <2>1. Tail(wire) \in Seq(Nat) /\ Head(wire) \in Nat
    BY <1>1
  <2>2. Append(got, Head(wire)) \in Seq(Nat)
    BY <1>1, <2>1
  <2>3. stream[s].open
    BY <1>1 DEF StreamInv, ClosedIsEmpty, Connection
  <2> QED
    BY <1>1, <2>1, <2>2, <2>3 DEF Connection
<1>3. /\ Len(got) \in Nat /\ DOMAIN got = 1..Len(got)
      /\ DOMAIN Append(got, Head(wire)) = 1..Len(got) + 1
      /\ \A i \in DOMAIN got : Append(got, Head(wire))[i] = got[i]
      /\ Append(got, Head(wire))[Len(got) + 1] = wire[1]
  BY <1>1
<1>4. /\ Len(wire) \in Nat \ {0} /\ DOMAIN wire = 1..Len(wire)
      /\ DOMAIN Tail(wire) = 1..Len(wire) - 1
      /\ \A i \in DOMAIN Tail(wire) : Tail(wire)[i] = wire[i + 1]
  BY <1>1
<1>5. Got(s)' = Got(s) \cup {wire[1]}
  BY <1>1, <1>3 DEF Got
<1>6. OnTheWire(s) = OnTheWire(s)' \cup {wire[1]}
  <2>1. \A i \in DOMAIN wire : i = 1 \/ (i - 1 \in DOMAIN Tail(wire) /\ wire[i] = Tail(wire)[i - 1])
    BY <1>4
  <2>2. 1 \in DOMAIN wire /\ \A i \in DOMAIN Tail(wire) : i + 1 \in DOMAIN wire
    BY <1>4
  <2>3. OnTheWire(s)' = {Tail(wire)[i] : i \in DOMAIN Tail(wire)}
    BY <1>2 DEF OnTheWire
  <2>4. OnTheWire(s)' \cup {wire[1]} \subseteq OnTheWire(s)
    BY <1>4, <2>2, <2>3 DEF OnTheWire
  <2>5. OnTheWire(s) \subseteq OnTheWire(s)' \cup {wire[1]}
    BY <2>1, <2>3 DEF OnTheWire
  <2> QED
    BY <2>4, <2>5
<1>7. Sent(s)' = Sent(s) /\ Reach(s)' = Reach(s) /\ Wanted(s)' = Wanted(s)
  BY <1>1, <1>2, <1>5, <1>6 DEF Sent, Reach, Wanted
<1>8. InOrder(s)'
  <2>1. \A i \in DOMAIN got : got[i] < wire[1]
    <3>1. wire[1] \in OnTheWire(s)
      BY <1>4 DEF OnTheWire
    <3> QED
      BY <1>1, <3>1 DEF StreamInv, InOrder, Got
  <2>2. Increasing(Append(got, Head(wire)))
    BY <1>1, <1>3, <2>1 DEF StreamInv, InOrder, Increasing
  <2>6. Increasing(wire)
    BY <1>1 DEF StreamInv, InOrder
  <2>3. Increasing(Tail(wire))
    <3> SUFFICES ASSUME NEW i \in DOMAIN Tail(wire), NEW j \in DOMAIN Tail(wire), i < j
                 PROVE  Tail(wire)[i] < Tail(wire)[j]
      BY DEF Increasing
    <3>1. i + 1 \in DOMAIN wire /\ j + 1 \in DOMAIN wire /\ i + 1 < j + 1
      BY <1>4
    <3> QED
      BY <1>4, <2>6, <3>1 DEF Increasing
  <2>4. \A n \in OnTheWire(s)' : wire[1] < n
    <3> SUFFICES ASSUME NEW i \in DOMAIN Tail(wire) PROVE wire[1] < Tail(wire)[i]
      BY <1>2 DEF OnTheWire
    <3>1. 1 \in DOMAIN wire /\ i + 1 \in DOMAIN wire /\ 1 < i + 1
      BY <1>4
    <3> QED
      BY <1>4, <2>6, <3>1 DEF Increasing
  <2>5. \A m \in Got(s)', n \in OnTheWire(s)' : m < n
    BY <1>1, <1>5, <1>6, <2>4 DEF StreamInv, InOrder
  <2> QED
    BY <1>1, <1>2, <2>2, <2>3, <2>5 DEF InOrder
<1>9. SentIsTheLog(s)' /\ ReachIsSent(s)'
  BY <1>1, <1>7 DEF StreamInv, SentIsTheLog, ReachIsSent
<1>10. StreamType(s)' /\ ClosedIsEmpty(s)' /\ BatchHasNoGaps(s)'
  BY <1>1, <1>2, <1>7 DEF StreamInv, StreamType, ClosedIsEmpty, BatchHasNoGaps
<1> QED
  BY <1>8, <1>9, <1>10 DEF StreamInv

\* What was on the wire is lost, and asked for again.
LEMMA DropKeepsStream ==
    ASSUME LogInv, NEW s \in Stream, StreamsInv, Drop(s)
    PROVE  StreamInv(s)'
<1>1. StreamInv(s) /\ stream'[s] = Closed /\ received'[s] = received[s] /\ log' = log
  BY DEF Drop, StreamsInv, logVars
<1>2. ~Closed.open /\ Closed.wire = << >> /\ Closed.batch = {} /\ Closed \in Connection
  BY DEF Closed, Connection
<1>3. OnTheWire(s)' = {} /\ Got(s)' = Got(s) /\ Sent(s)' = Got(s)
  BY <1>1, <1>2 DEF OnTheWire, Got, Sent
<1>4. Reach(s)' = StartCursor(s) /\ LastEventId(s)' = LastEventId(s) /\ Wanted(s)' = Wanted(s)
  BY <1>1, <1>2 DEF Reach, StartCursor, LastEventId, Wanted
<1>5. /\ LastEventId(s) \in Nat /\ After[s] \in Nat
      /\ received[s] # << >> => LastEventId(s) \in Got(s)
      /\ received[s] = << >> => LastEventId(s) = 0
  BY <1>1, LastIsLargest, StreamAssumption DEF StreamInv
<1>6. SentIsTheLog(s)'
  <2>1. \A n \in Nat : n \in Got(s) <=> n \in Wanted(s) /\ After[s] < n /\ n <= LastEventId(s)
    BY <1>1, GotIsTheLog
  <2>2. \A n \in Nat : After[s] < n => (n <= LastEventId(s) <=> n <= StartCursor(s))
    BY <1>5 DEF StartCursor
  <2> QED
    BY <1>3, <1>4, <2>1, <2>2 DEF SentIsTheLog
<1>7. ReachIsSent(s)'
  BY <1>3, <1>4, <1>5 DEF ReachIsSent, StartCursor
<1>8. StreamType(s)' /\ ClosedIsEmpty(s)' /\ BatchHasNoGaps(s)'
  BY <1>1, <1>2 DEF StreamInv, StreamType, ClosedIsEmpty, BatchHasNoGaps
<1>9. InOrder(s)'
  <2>1. Increasing(stream'[s].wire)
    BY <1>1, <1>2 DEF Increasing
  <2> QED
    BY <1>1, <1>3, <2>1 DEF StreamInv, InOrder, Increasing
<1> QED
  BY <1>6, <1>7, <1>8, <1>9 DEF StreamInv

-----------------------------------------------------------------------------
LEMMA StreamKeepsFullInv ==
    ASSUME FullInv, NEW s \in Stream, StreamStep(s) \/ Drop(s)
    PROVE  FullInv'
<1>1. LogInv /\ StreamsInv /\ StreamInv(s)
  BY DEF FullInv, StreamsInv
<1>2. StreamInv(s)'
  BY <1>1, ConnectKeepsStream, PollKeepsStream, SendKeepsStream, DeliverKeepsStream,
     DropKeepsStream DEF StreamStep
<1>3. log' = log /\ LogInv'
  BY <1>1, StreamsOnlyRead, OthersKeepLogInv DEF logVars
<1>4. /\ stream' = [stream EXCEPT ![s] = stream'[s]]
      /\ received' = [received EXCEPT ![s] = received'[s]]
  BY <1>1 DEF StreamsInv, StreamStep, Connect, Poll, Send, Deliver, Drop
<1>5. /\ stream' \in [Stream -> Connection]
      /\ received' \in [Stream -> Seq(Nat)]
  BY <1>1, <1>2, <1>4 DEF StreamsInv, StreamInv, StreamType
<1>6. ASSUME NEW q \in Stream, q # s PROVE StreamInv(q)'
  <2>1. stream'[q] = stream[q] /\ received'[q] = received[q]
    BY <1>1, <1>4, <1>6 DEF StreamsInv
  <2> QED
    BY <1>1, <1>3, <2>1, SameStream DEF StreamsInv
<1> QED
  BY <1>2, <1>3, <1>5, <1>6 DEF FullInv, StreamsInv

LEMMA FullInvStep == FullInv /\ [Next]_vars => FullInv'
<1> SUFFICES ASSUME FullInv, [Next]_vars PROVE FullInv'
  OBVIOUS
<1>1. CASE UNCHANGED vars
  <2>1. UNCHANGED << log, stream, received >> /\ UNCHANGED logVars
    BY <1>1 DEF vars, logVars
  <2>2. LogInv'
    BY <2>1, OthersKeepLogInv DEF FullInv
  <2> QED
    BY <2>1, <2>2, SameStream DEF FullInv, StreamsInv
<1>2. ASSUME NEW w \in Writer, WriterStep(w) PROVE FullInv'
  <2>1. UNCHANGED << stream, received >>
    BY <1>2 DEF WriterStep, EmitEvent, Commit, Rollback
  <2>2. LogInv'
    BY <1>2, LogInvStep DEF FullInv, Next
  <2>3. \A s \in Stream : StreamInv(s)'
    BY <1>2, WritersKeepStreams DEF FullInv, StreamsInv
  <2> QED
    BY <2>1, <2>2, <2>3 DEF FullInv, StreamsInv
<1>3. ASSUME NEW s \in Stream, StreamStep(s) \/ Drop(s) PROVE FullInv'
  BY <1>3, StreamKeepsFullInv
<1> QED
  BY <1>1, <1>2, <1>3 DEF Next

LEMMA FullInvGivesLog == FullInv => ReceivedIsTheLog
<1> SUFFICES ASSUME FullInv, NEW s \in Stream
             PROVE  /\ \A i, j \in DOMAIN received[s] : i < j => received[s][i] < received[s][j]
                    /\ Got(s) = {n \in Wanted(s) : After[s] < n /\ n <= LastEventId(s)}
  BY DEF ReceivedIsTheLog, Got
<1>1. LogInv /\ StreamInv(s)
  BY DEF FullInv, StreamsInv
<1>2. Got(s) \subseteq Nat /\ Wanted(s) \subseteq Nat
  BY <1>1, WantedNat DEF StreamInv, StreamType, Got
<1>3. \A n \in Nat : n \in Got(s) <=> n \in Wanted(s) /\ After[s] < n /\ n <= LastEventId(s)
  BY <1>1, GotIsTheLog
<1> QED
  BY <1>1, <1>2, <1>3 DEF StreamInv, InOrder, Increasing

\* Through any lost connections, batch sizes and filters, what a browser was
\* handed is the log it watches, without gap, repetition or disorder.
THEOREM BrowsersReadTheLog == Spec => []ReceivedIsTheLog
<1> QED
  BY FullInvInit, FullInvStep, FullInvGivesLog, PTL DEF Spec
===============================================================================
