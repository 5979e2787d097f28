--------------------------- MODULE LiveFeedProofs ---------------------------
(* Proofs about LiveFeed. *)
EXTENDS LiveFeed, FiniteSetTheorems, SequenceTheorems, TLAPS

\* A reading is in hand whenever one is being sent or inserted.
HandInv == \A s \in Subscribers : pc[s] = "sending" => hand[s] # 0

\* A loop that a handler awaits in _stop no longer polls, and nobody else awaits it.
StopsInv ==
  \A c \in Clients : pc[c] = "stopping" =>
    /\ stops[c] \in Loops /\ loop[stops[c]] \in {"cancelled", "ended"}
    /\ \A d \in Clients : pc[d] = "stopping" /\ stops[d] = stops[c] => c = d

-----------------------------------------------------------------------------
(* Types *)

LEMMA TypeInit == Init => TypeOK /\ HandInv /\ StopsInv
<1> SUFFICES ASSUME Init
             PROVE  TypeOK /\ HandInv /\ StopsInv
  OBVIOUS
<1>1. Len(<<>>) = 0 /\ 0 <= QueueSize /\ <<>> \in Seq(Readings)
  BY FeedConstantsOK, EmptySeq
<1>2. queue \in [Subscribers -> Seq(Readings)] /\ \A s \in Subscribers : Len(queue[s]) <= QueueSize
  BY <1>1 DEF Init
<1> QED BY <1>2 DEF Init, TypeOK, HandInv, StopsInv, Subscribers

LEMMA PublishTyped ==
  ASSUME TypeOK, NEW n \in Readings, Publish(n)
  PROVE  /\ queue' \in [Subscribers -> Seq(Readings)]
         /\ \A s \in Subscribers : Len(queue'[s]) <= QueueSize
         /\ missed' \in [Subscribers -> SUBSET Readings]
         /\ newest' \in Readings \cup {0} /\ registered' \subseteq Subscribers
<1>1. ASSUME NEW s \in Subscribers
      PROVE  queue'[s] \in Seq(Readings) /\ Len(queue'[s]) <= QueueSize
  <2>1. queue[s] \in Seq(Readings) /\ Len(queue[s]) \in Nat /\ Len(queue[s]) <= QueueSize
    BY LenProperties DEF TypeOK
  <2>2. CASE s \in registered /\ ~Full(s)
    <3>1. queue'[s] = Append(queue[s], n)
      BY <2>2 DEF Publish
    <3>2. Append(queue[s], n) \in Seq(Readings) /\ Len(Append(queue[s], n)) = Len(queue[s]) + 1
      BY <2>1, AppendProperties
    <3>3. Len(queue[s]) # QueueSize
      BY <2>2 DEF Full
    <3> QED BY <2>1, <3>1, <3>2, <3>3, FeedConstantsOK
  <2>3. CASE ~(s \in registered /\ ~Full(s))
    BY <2>1, <2>3 DEF Publish
  <2> QED BY <2>2, <2>3
<1>2. queue' \in [Subscribers -> Seq(Readings)]
  <2> DEFINE f(s) == IF s \in registered /\ ~Full(s) THEN Append(queue[s], n) ELSE queue[s]
  <2>1. queue' = [s \in Subscribers |-> f(s)]
    BY DEF Publish
  <2>2. \A s \in Subscribers : f(s) \in Seq(Readings)
    BY <1>1, <2>1
  <2> HIDE DEF f
  <2> QED BY <2>1, <2>2
<1> QED BY <1>1, <1>2 DEF Publish, TypeOK

LEMMA TakeTyped ==
  ASSUME TypeOK, HandInv, NEW s \in Subscribers, Take(s)
  PROVE  TypeOK' /\ HandInv'
<1>1. queue[s] \in Seq(Readings) /\ Len(queue[s]) \in Nat /\ Len(queue[s]) <= QueueSize
  BY LenProperties DEF TypeOK
<1>2. /\ Head(queue[s]) \in Readings /\ Tail(queue[s]) \in Seq(Readings)
      /\ Len(Tail(queue[s])) = Len(queue[s]) - 1
  BY <1>1, HeadTailProperties DEF Take
<1>3. /\ queue' \in [Subscribers -> Seq(Readings)]
      /\ \A u \in Subscribers : Len(queue'[u]) <= QueueSize
  BY <1>1, <1>2, FeedConstantsOK DEF Take, TypeOK
<1>4. 0 \notin Readings
  BY DEF Readings
<1> QED BY <1>2, <1>3, <1>4 DEF Take, TypeOK, HandInv, Subscribers, pollVars

LEMMA UnregisterTyped ==
  ASSUME TypeOK, NEW s \in Subscribers, Unregister(s)
  PROVE  /\ queue' \in [Subscribers -> Seq(Readings)]
         /\ \A u \in Subscribers : Len(queue'[u]) <= QueueSize
         /\ missed' \in [Subscribers -> SUBSET Readings]
         /\ hand' \in [Subscribers -> Readings \cup {0}]
         /\ seen' \in [Subscribers -> Readings \cup {0}]
         /\ newest' \in Readings \cup {0} /\ registered' \subseteq Subscribers
<1>1. Len(<<>>) = 0 /\ 0 <= QueueSize /\ <<>> \in Seq(Readings)
  BY FeedConstantsOK, EmptySeq
<1> QED BY <1>1 DEF Unregister, TypeOK

\* A subscribed handler is counted.
LEMMA WatcherCounted ==
  ASSUME RunningIffWatched, NEW c \in Watching
  PROVE  subscribers \in Nat /\ subscribers > 0 /\ IsFiniteSet(Watching)
<1>1. IsFiniteSet(Watching)
  BY FeedConstantsOK, FS_Subset DEF Watching
<1>2. Cardinality(Watching) \in Nat /\ Cardinality(Watching) # 0
  BY <1>1, FS_CardinalityType, FS_EmptySet
<1> QED BY <1>1, <1>2 DEF RunningIffWatched

LEMMA TypeStep ==
  ASSUME TypeOK, HandInv, RunningIffWatched, [Next]_vars
  PROVE  TypeOK' /\ HandInv'
<1> USE DEF feedVars, pollVars
<1>1. ASSUME NEW c \in Clients, Connect(c) \/ Disconnect(c)
      PROVE  TypeOK' /\ HandInv'
  <2>1. CASE Connect(c)
    BY <2>1 DEF Connect, TypeOK, HandInv, Subscribers
  <2>2. CASE Disconnect(c)
    BY <2>2 DEF Disconnect, TypeOK, HandInv
  <2> QED BY <1>1, <2>1, <2>2
<1>2. ASSUME NEW c \in Clients, Subscribe(c)
      PROVE  TypeOK' /\ HandInv'
  <2>1. task' \in Loops \cup {None}
        /\ loop' \in [Loops -> {"none", "polling", "sleeping", "cancelled", "ended"}]
    BY <1>2 DEF Subscribe, EnsureRunning, TypeOK
  <2>2. /\ pc' = [pc EXCEPT ![c] = "waiting"] /\ seen' = [seen EXCEPT ![c] = newest]
        /\ registered' = registered \cup {c} /\ subscribers' = subscribers + 1
        /\ UNCHANGED <<link, stops, queue, hand, newest, missed>>
    BY <1>2 DEF Subscribe, Register
  <2>3. c \in Subscribers
    BY DEF Subscribers
  <2> QED BY <2>1, <2>2, <2>3 DEF TypeOK, HandInv
<1>3. ASSUME NEW s \in Subscribers, Take(s)
      PROVE  TypeOK' /\ HandInv'
  BY <1>3, TakeTyped
<1>4. ASSUME NEW s \in Subscribers, Delivered(s)
      PROVE  TypeOK' /\ HandInv'
  BY <1>4 DEF Delivered, TypeOK, HandInv, Subscribers
<1>5. ASSUME NEW c \in Clients, SendFailed(c)
      PROVE  TypeOK' /\ HandInv'
  <2>1. c \in Subscribers /\ Leave(c) /\ Unregister(c) /\ link' = link
    BY <1>5 DEF SendFailed, Leave, Subscribers
  <2>2. subscribers' \in Nat
    <3>1. c \in Watching /\ subscribers' = subscribers - 1
      BY <1>5, <2>1 DEF SendFailed, Leave, Watching
    <3> QED BY <3>1, WatcherCounted
  <2>3. /\ task' \in Loops \cup {None} /\ stops' \in [Clients -> Loops \cup {None}]
        /\ loop' \in [Loops -> {"none", "polling", "sleeping", "cancelled", "ended"}]
        /\ pc' \in [Subscribers -> {"out", "accepting", "waiting", "sending", "stopping"}]
        /\ \A s \in Subscribers : pc'[s] = "sending" => pc[s] = "sending" /\ s # c
    <3>1. CASE subscribers = 1 /\ task # None
      <4>1. /\ loop' = [loop EXCEPT ![task] = "cancelled"] /\ task' = None
            /\ stops' = [stops EXCEPT ![c] = task] /\ pc' = [pc EXCEPT ![c] = "stopping"]
        BY <2>1, <3>1 DEF Leave
      <4>2. task \in Loops
        BY <3>1 DEF TypeOK
      <4>3. loop' \in [Loops -> {"none", "polling", "sleeping", "cancelled", "ended"}]
        BY <4>1, <4>2 DEF TypeOK
      <4>4. stops' \in [Clients -> Loops \cup {None}]
        BY <4>1, <4>2 DEF TypeOK
      <4>5. /\ pc' \in [Subscribers -> {"out", "accepting", "waiting", "sending", "stopping"}]
            /\ \A s \in Subscribers : pc'[s] = "sending" => pc[s] = "sending" /\ s # c
        BY <4>1, <2>1 DEF TypeOK
      <4> QED BY <4>1, <4>3, <4>4, <4>5
    <3>2. CASE ~(subscribers = 1 /\ task # None)
      <4>1. pc' = [pc EXCEPT ![c] = "out"] /\ UNCHANGED <<task, loop, stops>>
        BY <2>1, <3>2 DEF Leave
      <4>2. /\ pc' \in [Subscribers -> {"out", "accepting", "waiting", "sending", "stopping"}]
            /\ \A s \in Subscribers : pc'[s] = "sending" => pc[s] = "sending" /\ s # c
        BY <4>1, <2>1 DEF TypeOK
      <4> QED BY <4>1, <4>2 DEF TypeOK
    <3> QED BY <3>1, <3>2
  <2>4. \A s \in Subscribers : s # c => hand'[s] = hand[s]
    BY <2>1 DEF Unregister, TypeOK
  <2> QED BY <2>1, <2>2, <2>3, <2>4, UnregisterTyped DEF TypeOK, HandInv
<1>6. ASSUME NEW c \in Clients, Stopped(c)
      PROVE  TypeOK' /\ HandInv'
  BY <1>6 DEF Stopped, TypeOK, HandInv, Subscribers
<1>7. ASSUME NEW l \in Loops, PollSucceeds(l)
      PROVE  TypeOK' /\ HandInv'
  <2>1. (IF newest < MaxReading THEN newest + 1 ELSE MaxReading) \in Readings
    BY FeedConstantsOK DEF TypeOK, Readings
  <2>2. PICK n \in Readings : Publish(n)
    BY <1>7, <2>1 DEF PollSucceeds
  <2> QED BY <1>7, <2>2, PublishTyped DEF PollSucceeds, TypeOK, HandInv
<1>8. ASSUME NEW l \in Loops, PollFails(l) \/ Wake(l) \/ Unwind(l)
      PROVE  TypeOK' /\ HandInv'
  BY <1>8 DEF PollFails, Wake, Unwind, TypeOK, HandInv
<1>9. CASE BeginRecording \/ InsertFailed
  <2>1. CASE BeginRecording
    BY <2>1 DEF BeginRecording, Register, TypeOK, HandInv, Subscribers
  <2>2. CASE InsertFailed
    <3>1. Recorder \in Subscribers /\ hand[Recorder] \in Readings
      BY <2>2 DEF InsertFailed, HandInv, TypeOK, Subscribers
    <3>2. missed' \in [Subscribers -> SUBSET Readings]
      BY <2>2, <3>1 DEF InsertFailed, TypeOK
    <3> QED BY <2>2, <3>1, <3>2 DEF InsertFailed, TypeOK, HandInv
  <2> QED BY <1>9, <2>1, <2>2
<1>10. CASE UNCHANGED vars
  BY <1>10 DEF vars, TypeOK, HandInv
<1>11. Clients \subseteq Subscribers /\ Recorder \in Subscribers
  BY DEF Subscribers
<1> QED BY <1>1, <1>2, <1>3, <1>4, <1>5, <1>6, <1>7, <1>8, <1>9, <1>10, <1>11
        DEF Next, Handle, Sent, Poll, Record

-----------------------------------------------------------------------------
(* The reference count of the poller *)

\* Steps that leave the places of the handlers and the loops that poll alone.
LEMMA CountKept ==
  ASSUME RunningIffWatched, Watching' = Watching,
         registered' = registered \/ registered' = registered \cup {Recorder},
         UNCHANGED <<subscribers, task>>,
         {l \in Loops : loop'[l] \in {"polling", "sleeping"}} =
           {l \in Loops : loop[l] \in {"polling", "sleeping"}}
  PROVE  RunningIffWatched'
<1>1. registered' \cap Clients = registered \cap Clients
  BY FeedConstantsOK
<1> QED BY <1>1 DEF RunningIffWatched

LEMMA SubscribeCounts ==
  ASSUME TypeOK, StopsInv, RunningIffWatched, NEW c \in Clients, Subscribe(c)
  PROVE  RunningIffWatched' /\ StopsInv'
<1>1. /\ pc' = [pc EXCEPT ![c] = "waiting"] /\ registered' = registered \cup {c}
      /\ subscribers' = subscribers + 1 /\ stops' = stops /\ EnsureRunning /\ pc[c] = "accepting"
  BY DEF Subscribe, Register
<1>2. Watching' = Watching \cup {c} /\ c \notin Watching
  BY <1>1 DEF Watching, TypeOK, Subscribers
<1>3. Cardinality(Watching') = Cardinality(Watching) + 1
  <2>1. IsFiniteSet(Watching)
    BY FeedConstantsOK, FS_Subset DEF Watching
  <2> QED BY <1>2, <2>1, FS_AddElement
<1>4. task' # None /\ {l \in Loops : loop'[l] \in {"polling", "sleeping"}} = {task'}
  <2>1. CASE task # None
    BY <1>1, <2>1 DEF EnsureRunning, RunningIffWatched
  <2>2. CASE task = None
    <3>1. PICK l \in Loops : loop[l] = "none" /\ task' = l /\ loop' = [loop EXCEPT ![l] = "polling"]
      BY <1>1, <2>2 DEF EnsureRunning
    <3>2. \A k \in Loops : loop[k] \notin {"polling", "sleeping"}
      BY <2>2 DEF RunningIffWatched
    <3> QED BY <3>1, <3>2, FeedConstantsOK DEF TypeOK
  <2> QED BY <2>1, <2>2
<1>5. RunningIffWatched'
  BY <1>1, <1>2, <1>3, <1>4 DEF RunningIffWatched
<1>6. \A d \in Clients : pc'[d] = "stopping" => pc[d] = "stopping"
  BY <1>1 DEF TypeOK, Subscribers
<1>7. \A l \in Loops : loop[l] \in {"cancelled", "ended"} => loop'[l] = loop[l]
  BY <1>1 DEF EnsureRunning, TypeOK
<1> QED BY <1>1, <1>5, <1>6, <1>7 DEF StopsInv

LEMMA LeaveCounts ==
  ASSUME TypeOK, StopsInv, RunningIffWatched, NEW c \in Clients, SendFailed(c)
  PROVE  RunningIffWatched' /\ StopsInv'
<1>1. /\ pc[c] = "sending" /\ registered' = registered \ {c} /\ subscribers' = subscribers - 1
      /\ Leave(c)
  BY DEF SendFailed, Leave, Unregister
<1>2. c \in Watching
  BY <1>1 DEF Watching
<1>3. subscribers \in Nat /\ subscribers > 0 /\ IsFiniteSet(Watching)
  BY <1>2, WatcherCounted
<1>4. Watching' = Watching \ {c}
  BY <1>1 DEF Leave, Watching, TypeOK, Subscribers
<1>5. Cardinality(Watching') = subscribers' /\ IsFiniteSet(Watching')
  BY <1>1, <1>2, <1>3, <1>4, FS_RemoveElement DEF RunningIffWatched
<1>6. Watching' = {} <=> subscribers = 1
  BY <1>1, <1>3, <1>5, FS_EmptySet
<1>7. task # None /\ task \in Loops /\ loop[task] \in {"polling", "sleeping"}
  BY <1>2 DEF RunningIffWatched, TypeOK
<1>8. CASE subscribers = 1
  <2>1. /\ loop' = [loop EXCEPT ![task] = "cancelled"] /\ stops' = [stops EXCEPT ![c] = task]
        /\ task' = None /\ pc' = [pc EXCEPT ![c] = "stopping"]
    BY <1>1, <1>7, <1>8 DEF Leave
  <2>2. {l \in Loops : loop'[l] \in {"polling", "sleeping"}} = {}
    BY <1>7, <2>1 DEF RunningIffWatched, TypeOK
  <2>3. RunningIffWatched'
    BY <1>1, <1>4, <1>5, <1>6, <1>8, <2>1, <2>2 DEF RunningIffWatched
  <2>4. StopsInv'
    BY <1>7, <2>1 DEF StopsInv, TypeOK, Subscribers
  <2> QED BY <2>3, <2>4
<1>9. CASE subscribers # 1
  <2>1. UNCHANGED <<task, loop, stops>> /\ pc' = [pc EXCEPT ![c] = "out"]
    BY <1>1, <1>9 DEF Leave
  <2>2. RunningIffWatched'
    BY <1>1, <1>4, <1>5, <1>6, <1>7, <1>9, <2>1 DEF RunningIffWatched
  <2>3. StopsInv'
    BY <2>1 DEF StopsInv, TypeOK, Subscribers
  <2> QED BY <2>2, <2>3
<1> QED BY <1>8, <1>9

LEMMA CountStep ==
  ASSUME TypeOK, StopsInv, RunningIffWatched, [Next]_vars
  PROVE  RunningIffWatched' /\ StopsInv'
<1> USE DEF feedVars, pollVars
<1>1. ASSUME NEW c \in Clients, Connect(c) \/ Disconnect(c)
      PROVE  RunningIffWatched' /\ StopsInv'
  <2>1. Watching' = Watching /\ \A d \in Clients : pc'[d] = "stopping" => pc[d] = "stopping"
    BY <1>1 DEF Connect, Disconnect, Watching, TypeOK, Subscribers
  <2> QED BY <1>1, <2>1, CountKept DEF Connect, Disconnect, StopsInv
<1>2. ASSUME NEW s \in Subscribers, Take(s) \/ Delivered(s)
      PROVE  RunningIffWatched' /\ StopsInv'
  <2>1. Watching' = Watching /\ \A d \in Clients : pc'[d] = "stopping" => pc[d] = "stopping"
    BY <1>2 DEF Take, Delivered, Watching, TypeOK, Subscribers
  <2> QED BY <1>2, <2>1, CountKept DEF Take, Delivered, StopsInv
<1>3. ASSUME NEW c \in Clients, Stopped(c)
      PROVE  RunningIffWatched' /\ StopsInv'
  <2>1. /\ pc[c] = "stopping" /\ loop[stops[c]] = "ended" /\ stops[c] \in Loops
        /\ loop' = [loop EXCEPT ![stops[c]] = "none"] /\ stops' = [stops EXCEPT ![c] = None]
        /\ pc' = [pc EXCEPT ![c] = "out"] /\ UNCHANGED <<registered, subscribers, task>>
    BY <1>3 DEF Stopped, StopsInv
  <2>2. Watching' = Watching
    BY <2>1 DEF Watching, TypeOK, Subscribers
  <2>3. {l \in Loops : loop'[l] \in {"polling", "sleeping"}} =
          {l \in Loops : loop[l] \in {"polling", "sleeping"}}
    BY <2>1 DEF TypeOK
  <2>4. RunningIffWatched'
    BY <2>1, <2>2, <2>3, CountKept
  <2>5. \A d \in Clients : pc'[d] = "stopping" => d # c /\ pc[d] = "stopping" /\ stops'[d] = stops[d]
    BY <2>1 DEF TypeOK, Subscribers
  <2>6. \A d \in Clients : pc'[d] = "stopping" =>
          stops'[d] \in Loops /\ loop'[stops'[d]] \in {"cancelled", "ended"}
    BY <2>1, <2>5 DEF StopsInv, TypeOK
  <2>7. StopsInv'
    BY <2>5, <2>6 DEF StopsInv
  <2> QED BY <2>4, <2>7
<1>4. ASSUME NEW l \in Loops, PollSucceeds(l) \/ PollFails(l) \/ Wake(l) \/ Unwind(l)
      PROVE  RunningIffWatched' /\ StopsInv'
  <2>1. UNCHANGED <<pc, registered, subscribers, task, stops>>
    BY <1>4 DEF PollSucceeds, PollFails, Wake, Unwind, Publish
  <2>2. \A k \in Loops :
          /\ loop'[k] \in {"polling", "sleeping"} <=> loop[k] \in {"polling", "sleeping"}
          /\ loop[k] \in {"cancelled", "ended"} => loop'[k] \in {"cancelled", "ended"}
    BY <1>4 DEF PollSucceeds, PollFails, Wake, Unwind, TypeOK
  <2>3. Watching' = Watching
    BY <2>1 DEF Watching
  <2> QED BY <2>1, <2>2, <2>3, CountKept DEF StopsInv
<1>5. CASE BeginRecording \/ InsertFailed
  <2>1. Watching' = Watching /\ \A d \in Clients : pc'[d] = pc[d]
    BY <1>5, FeedConstantsOK DEF BeginRecording, Register, InsertFailed, Watching, TypeOK, Subscribers
  <2>2. registered' = registered \/ registered' = registered \cup {Recorder}
    BY <1>5 DEF BeginRecording, Register, InsertFailed
  <2>3. UNCHANGED <<subscribers, task, stops, loop>>
    BY <1>5 DEF BeginRecording, InsertFailed
  <2> QED BY <2>1, <2>2, <2>3, CountKept DEF StopsInv
<1>6. CASE UNCHANGED vars
  BY <1>6 DEF vars, RunningIffWatched, StopsInv, Watching
<1>7. Clients \subseteq Subscribers /\ Recorder \in Subscribers
  BY DEF Subscribers
<1> QED BY <1>1, <1>2, <1>3, <1>4, <1>5, <1>6, <1>7, SubscribeCounts, LeaveCounts
        DEF Next, Handle, Sent, Poll, Record

LEMMA CountInit == Init => RunningIffWatched
BY FS_EmptySet, FeedConstantsOK DEF Init, RunningIffWatched, Watching, Subscribers

\* For any finite set of clients, any queue size and any number of loops: the
\* count is the number of subscribed handlers and exactly self._task polls,
\* and only while there is one.
THEOREM ReferenceCounted == Spec => []RunningIffWatched
<1> DEFINE Inv == TypeOK /\ HandInv /\ StopsInv /\ RunningIffWatched
<1>1. Init => Inv
  BY TypeInit, CountInit
<1>2. Inv /\ [Next]_vars => Inv'
  BY TypeStep, CountStep
<1>3. Inv => RunningIffWatched
  OBVIOUS
<1> QED BY <1>1, <1>2, <1>3, PTL DEF Spec

\* The types of the feed's variables, the bound of the queues included.
THEOREM FeedTypeCorrect == Spec => []TypeOK
<1> DEFINE Inv == TypeOK /\ HandInv /\ StopsInv /\ RunningIffWatched
<1>1. Init => Inv
  BY TypeInit, CountInit
<1>2. Inv /\ [Next]_vars => Inv'
  BY TypeStep, CountStep
<1>3. Inv => TypeOK
  OBVIOUS
<1> QED BY <1>1, <1>2, <1>3, PTL DEF Spec

-----------------------------------------------------------------------------
(* No subscriber loses a reading that was not counted *)

Holds(s, n) == n = hand[s] \/ \E i \in 1 .. Len(queue[s]) : queue[s][i] = n

Before(s, i) ==
  IF i > 1 THEN queue[s][i - 1] ELSE IF hand[s] # 0 THEN hand[s] ELSE seen[s]

\* Nothing after the last reading delivered is lost unseen.
Covered(s) == \A n \in Readings : seen[s] < n /\ n <= newest => n \in missed[s] \/ Holds(s, n)

InOrder(s) ==
  /\ hand[s] # 0 => hand[s] > seen[s] \/ hand[s] = MaxReading
  /\ \A i \in 1 .. Len(queue[s]) : queue[s][i] > Before(s, i) \/ queue[s][i] = MaxReading

Published(s) ==
  /\ seen[s] <= newest /\ hand[s] <= newest
  /\ \A i \in 1 .. Len(queue[s]) : queue[s][i] <= newest

\* Who is not registered has nothing on its way.
Flow(s) ==
  /\ pc[s] # "sending" => hand[s] = 0
  /\ s \in registered => pc[s] \in {"waiting", "sending"}
  /\ s \notin registered => queue[s] = <<>> /\ hand[s] = 0
  /\ s \in registered => Covered(s) /\ InOrder(s) /\ Published(s)

FlowInv == \A s \in Subscribers : Flow(s)

LEMMA ValuesOf ==
  ASSUME TypeOK, NEW s \in Subscribers
  PROVE  /\ queue[s] \in Seq(Readings) /\ Len(queue[s]) \in Nat
         /\ \A i \in 1 .. Len(queue[s]) : queue[s][i] \in Readings
         /\ hand[s] \in 0 .. MaxReading /\ seen[s] \in 0 .. MaxReading
         /\ newest \in 0 .. MaxReading /\ MaxReading \in Nat \ {0}
         /\ Readings = 1 .. MaxReading
<1>1. queue[s] \in Seq(Readings)
  BY DEF TypeOK
<1>2. Len(queue[s]) \in Nat /\ \A i \in 1 .. Len(queue[s]) : queue[s][i] \in Readings
  BY <1>1
<1> QED
  BY <1>1, <1>2, FeedConstantsOK DEF TypeOK, Readings

\* The readings on their way, one by one.
LEMMA PendingOf ==
  ASSUME TypeOK, NEW s \in Subscribers
  PROVE  /\ hand[s] = 0 => Pending(s) = queue[s]
         /\ hand[s] # 0 =>
              /\ Len(Pending(s)) = Len(queue[s]) + 1
              /\ Pending(s)[1] = hand[s]
              /\ \A i \in 1 .. Len(queue[s]) : Pending(s)[i + 1] = queue[s][i]
<1>1. queue[s] \in Seq(Readings) /\ Len(queue[s]) \in Nat
  BY ValuesOf
<1>2. CASE hand[s] = 0
  BY <1>1, <1>2 DEF Pending
<1>3. CASE hand[s] # 0
  <2>1. hand[s] \in Readings
    BY <1>3, ValuesOf
  <2>2. Pending(s) = <<hand[s]>> \o queue[s]
    BY <1>3 DEF Pending
  <2> QED
    BY <1>1, <1>3, <2>1, <2>2
<1> QED
  BY <1>2, <1>3

LEMMA FlowImplies == TypeOK /\ FlowInv => NoSilentGap
<1> SUFFICES ASSUME TypeOK, FlowInv, NEW s \in registered
             PROVE  LET p == Pending(s) IN
      /\ \A n \in seen[s] + 1 .. newest : n \in missed[s] \/ \E i \in 1 .. Len(p) : p[i] = n
      /\ \A i \in 1 .. Len(p) :
           p[i] > (IF i = 1 THEN seen[s] ELSE p[i - 1]) \/ p[i] = MaxReading
  BY DEF NoSilentGap
<1> DEFINE p == Pending(s)
<1>0. s \in Subscribers
  BY DEF TypeOK
<1>1. Covered(s) /\ InOrder(s)
  BY <1>0 DEF FlowInv, Flow
<1>2. ASSUME NEW n \in seen[s] + 1 .. newest
      PROVE  n \in missed[s] \/ \E i \in 1 .. Len(p) : p[i] = n
  <2>1. n \in Readings /\ n # 0 /\ seen[s] < n /\ n <= newest
    BY <1>0, ValuesOf
  <2>2. CASE n = hand[s]
    <3>1. 1 \in 1 .. Len(p) /\ p[1] = n
      BY <1>0, <2>1, <2>2, PendingOf, ValuesOf
    <3> QED
      BY <3>1
  <2>3. ASSUME NEW i \in 1 .. Len(queue[s]), queue[s][i] = n
        PROVE  \E j \in 1 .. Len(p) : p[j] = n
    <3>1. CASE hand[s] = 0
      BY <1>0, <2>3, <3>1, PendingOf
    <3>2. CASE hand[s] # 0
      <4>1. i + 1 \in 1 .. Len(p) /\ p[i + 1] = n
        BY <1>0, <2>3, <3>2, PendingOf, ValuesOf
      <4> QED
        BY <4>1
    <3> QED
      BY <3>1, <3>2
  <2> QED
    BY <1>1, <2>1, <2>2, <2>3 DEF Covered, Holds
<1>3. ASSUME NEW i \in 1 .. Len(p)
      PROVE  p[i] > (IF i = 1 THEN seen[s] ELSE p[i - 1]) \/ p[i] = MaxReading
  <2>1. CASE hand[s] = 0
    BY <1>0, <1>1, <2>1, PendingOf, ValuesOf DEF InOrder, Before
  <2>2. CASE hand[s] # 0 /\ i = 1
    BY <1>0, <1>1, <2>2, PendingOf DEF InOrder
  <2>3. CASE hand[s] # 0 /\ i # 1
    <3>1. i - 1 \in 1 .. Len(queue[s]) /\ p[i] = queue[s][i - 1]
      BY <1>0, <2>3, PendingOf, ValuesOf
    <3>2. p[i - 1] = Before(s, i - 1)
      <4>1. CASE i - 1 = 1
        BY <1>0, <2>3, <4>1, PendingOf DEF Before
      <4>2. CASE i - 1 > 1
        <5>1. i - 2 \in 1 .. Len(queue[s]) /\ (i - 2) + 1 = i - 1 /\ (i - 1) - 1 = i - 2
          BY <1>0, <3>1, <4>2, ValuesOf
        <5>2. p[i - 1] = queue[s][i - 2]
          BY <1>0, <2>3, <5>1, PendingOf
        <5> QED
          BY <4>2, <5>1, <5>2 DEF Before
      <4> QED
        BY <3>1, <4>1, <4>2
    <3> QED
      BY <1>1, <2>3, <3>1, <3>2 DEF InOrder
  <2> QED
    BY <2>1, <2>2, <2>3
<1> QED
  BY <1>2, <1>3

\* A step of somebody else, or one that only moves a handler that is not subscribed.
LEMMA FlowStays ==
  ASSUME NEW s \in Subscribers, Flow(s),
         queue'[s] = queue[s], hand'[s] = hand[s], seen'[s] = seen[s],
         missed'[s] = missed[s], newest' = newest, s \in registered' <=> s \in registered,
         pc'[s] = pc[s] \/ (pc'[s] # "sending" /\ pc[s] \in {"out", "accepting", "stopping"})
  PROVE  Flow(s)'
<1>1. Covered(s)' <=> Covered(s)
  BY DEF Covered, Holds
<1>2. InOrder(s)' <=> InOrder(s)
  BY DEF InOrder, Before
<1>3. Published(s)' <=> Published(s)
  BY DEF Published
<1> QED
  BY <1>1, <1>2, <1>3 DEF Flow

\* A new subscriber has seen everything that was published before it.
LEMMA FlowRegisters ==
  ASSUME TypeOK, NEW s \in Subscribers, Flow(s), pc[s] = "accepting", Register(s)
  PROVE  Flow(s)'
<1>1. /\ seen'[s] = newest /\ pc'[s] = "waiting" /\ newest' = newest
      /\ queue' = queue /\ hand' = hand /\ s \in registered'
  BY DEF Register, TypeOK
<1>2. queue[s] = <<>> /\ hand[s] = 0
  BY DEF Flow
<1>3. Covered(s)'
  BY <1>1, ValuesOf DEF Covered
<1>4. InOrder(s)' /\ Published(s)'
  BY <1>1, <1>2, ValuesOf DEF InOrder, Published
<1> QED
  BY <1>1, <1>2, <1>3, <1>4 DEF Flow

\* The first reading of the queue goes to the hand: what is on its way stays.
LEMMA FlowTakes ==
  ASSUME TypeOK, NEW s \in Subscribers, Flow(s), Take(s)
  PROVE  Flow(s)'
<1>1. /\ pc[s] = "waiting" /\ queue[s] # <<>> /\ hand[s] = 0
      /\ hand'[s] = Head(queue[s]) /\ queue'[s] = Tail(queue[s]) /\ pc'[s] = "sending"
      /\ UNCHANGED <<seen, registered, newest, missed>>
  BY DEF Take, TypeOK, Flow
<1>2. /\ Len(queue[s]) \in Nat \ {0} /\ Head(queue[s]) = queue[s][1]
      /\ Len(queue'[s]) = Len(queue[s]) - 1
      /\ \A i \in 1 .. Len(queue[s]) - 1 : queue'[s][i] = queue[s][i + 1]
      /\ queue[s][1] \in Readings
  BY <1>1, ValuesOf
<1>3. s \in registered /\ Covered(s) /\ InOrder(s) /\ Published(s)
  BY <1>1 DEF Flow
<1>4. ASSUME NEW n, Holds(s, n), n # 0 PROVE Holds(s, n)'
  <2>1. PICK i \in 1 .. Len(queue[s]) : queue[s][i] = n
    BY <1>1, <1>4 DEF Holds
  <2>2. CASE i = 1
    BY <1>1, <1>2, <2>1, <2>2 DEF Holds
  <2>3. CASE i # 1
    <3>1. i - 1 \in 1 .. Len(queue'[s]) /\ queue'[s][i - 1] = n
      BY <1>2, <2>1, <2>3
    <3> QED
      BY <3>1 DEF Holds
  <2> QED
    BY <2>2, <2>3
<1>5. Covered(s)'
  BY <1>1, <1>3, <1>4, ValuesOf DEF Covered
<1>6. InOrder(s)'
  <2>1. hand'[s] > seen'[s] \/ hand'[s] = MaxReading
    BY <1>1, <1>2, <1>3 DEF InOrder, Before
  <2>2. ASSUME NEW i \in 1 .. Len(queue'[s])
        PROVE  queue'[s][i] > Before(s, i)' \/ queue'[s][i] = MaxReading
    <3>1. /\ i + 1 \in 1 .. Len(queue[s]) /\ queue'[s][i] = queue[s][i + 1]
          /\ Before(s, i + 1) = queue[s][i]
      <4>1. /\ i \in 1 .. Len(queue[s]) - 1 /\ i + 1 \in 1 .. Len(queue[s])
            /\ i + 1 > 1 /\ (i + 1) - 1 = i
        BY <1>2
      <4>2. queue'[s][i] = queue[s][i + 1]
        BY <1>2, <4>1
      <4>3. Before(s, i + 1) = queue[s][i]
        BY <4>1 DEF Before
      <4> QED
        BY <4>1, <4>2, <4>3
    <3>2. Before(s, i)' = queue[s][i]
      <4>1. CASE i = 1
        BY <1>1, <1>2, <4>1, ValuesOf DEF Before
      <4>2. CASE i > 1
        <5>1. i - 1 \in 1 .. Len(queue[s]) - 1 /\ (i - 1) + 1 = i
          BY <1>2, <4>2
        <5> QED
          BY <1>2, <4>2, <5>1 DEF Before
      <4> QED
        BY <4>1, <4>2
    <3> QED
      BY <1>3, <3>1, <3>2 DEF InOrder
  <2> QED
    BY <2>1, <2>2 DEF InOrder
<1>7. Published(s)'
  BY <1>1, <1>2, <1>3 DEF Published
<1> QED
  BY <1>1, <1>3, <1>5, <1>6, <1>7 DEF Flow

\* The reading in hand is delivered, or the database refused it.
LEMMA FlowDelivers ==
  ASSUME TypeOK, HandInv, NEW s \in Subscribers, Flow(s), pc[s] = "sending",
         hand'[s] = 0, pc'[s] = "waiting",
         UNCHANGED <<queue, registered, newest>>,
         \/ seen'[s] = hand[s] /\ missed'[s] = {n \in missed[s] : n > hand[s]}
         \/ seen'[s] = seen[s] /\ missed'[s] = missed[s] \cup {hand[s]}
  PROVE  Flow(s)'
<1>1. hand[s] # 0 /\ s \in registered /\ Covered(s) /\ InOrder(s) /\ Published(s)
  BY DEF HandInv, Flow
<1>2. seen[s] <= hand[s]
  BY <1>1, ValuesOf DEF InOrder
<1>3. \A n : Holds(s, n) => n = hand[s] \/ Holds(s, n)'
  BY DEF Holds
<1>4. Covered(s)'
  BY <1>1, <1>2, <1>3, ValuesOf DEF Covered
<1>5. InOrder(s)'
  <2> SUFFICES ASSUME NEW i \in 1 .. Len(queue[s])
               PROVE  queue[s][i] > Before(s, i)' \/ queue[s][i] = MaxReading
    BY DEF InOrder
  <2>1. CASE i = 1
    <3>1. queue[s][1] > hand[s] \/ queue[s][1] = MaxReading
      BY <1>1, <2>1 DEF InOrder, Before
    <3>2. Before(s, i)' = seen'[s] /\ seen'[s] <= hand[s] /\ seen'[s] \in Nat
      BY <1>2, <2>1, ValuesOf DEF Before
    <3> QED
      BY <2>1, <3>1, <3>2, ValuesOf
  <2>2. CASE i > 1
    BY <1>1, <2>2 DEF InOrder, Before
  <2> QED
    BY <2>1, <2>2
<1>6. Published(s)'
  BY <1>1, <1>2, ValuesOf DEF Published
<1> QED
  BY <1>1, <1>4, <1>5, <1>6 DEF Flow

\* A reading is published: it is queued, or counted as missed.
LEMMA FlowPublishes ==
  ASSUME TypeOK, NEW s \in Subscribers, Flow(s), NEW n \in Readings, Publish(n),
         n = (IF newest < MaxReading THEN newest + 1 ELSE MaxReading),
         UNCHANGED <<pc, hand, seen>>
  PROVE  Flow(s)'
<1>0. /\ newest' = n /\ registered' = registered /\ newest <= n /\ n \in 1 .. MaxReading
      /\ n > newest \/ n = MaxReading
      /\ pc'[s] = pc[s] /\ hand'[s] = hand[s] /\ seen'[s] = seen[s]
  BY ValuesOf DEF Publish
<1>1. CASE s \notin registered
  BY <1>0, <1>1 DEF Publish, Flow, TypeOK
<1>2. CASE s \in registered /\ Full(s)
  <2>1. queue'[s] = queue[s] /\ missed'[s] = missed[s] \cup {n}
    BY <1>2 DEF Publish
  <2>2. Covered(s) /\ InOrder(s) /\ Published(s)
    BY <1>2 DEF Flow
  <2>3. \A k : Holds(s, k)' <=> Holds(s, k)
    BY <2>1 DEF Holds
  <2>4. Covered(s)'
    BY <1>0, <2>1, <2>2, <2>3, ValuesOf DEF Covered
  <2>5. InOrder(s)'
    BY <2>1, <2>2 DEF InOrder, Before
  <2>6. Published(s)'
    BY <1>0, <2>1, <2>2, ValuesOf DEF Published
  <2> QED
    BY <1>0, <1>2, <2>4, <2>5, <2>6 DEF Flow
<1>3. CASE s \in registered /\ ~Full(s)
  <2>1. queue'[s] = Append(queue[s], n) /\ missed'[s] = missed[s]
    BY <1>3 DEF Publish
  <2>2. Covered(s) /\ InOrder(s) /\ Published(s)
    BY <1>3 DEF Flow
  <2>3. /\ Len(queue[s]) \in Nat /\ Len(queue'[s]) = Len(queue[s]) + 1
        /\ queue'[s][Len(queue[s]) + 1] = n
        /\ \A i \in 1 .. Len(queue[s]) : queue'[s][i] = queue[s][i]
    BY <2>1, ValuesOf
  <2>4. Holds(s, n)' /\ \A k : Holds(s, k) => Holds(s, k)'
    BY <2>3 DEF Holds
  <2>5. Covered(s)'
    BY <1>0, <2>1, <2>2, <2>4, ValuesOf DEF Covered
  <2>6. InOrder(s)'
    <3> SUFFICES ASSUME NEW i \in 1 .. Len(queue[s]) + 1
                 PROVE  queue'[s][i] > Before(s, i)' \/ queue'[s][i] = MaxReading
      BY <2>2, <2>3 DEF InOrder
    <3>1. CASE i \in 1 .. Len(queue[s])
      <4>1. i > 1 => i - 1 \in 1 .. Len(queue[s])
        BY <2>3, <3>1
      <4>2. Before(s, i)' = Before(s, i)
        BY <2>3, <4>1 DEF Before
      <4> QED
        BY <2>2, <2>3, <3>1, <4>2 DEF InOrder
    <3>2. CASE i = Len(queue[s]) + 1
      <4>1. i > 1 => i - 1 \in 1 .. Len(queue[s])
        BY <2>3, <3>2
      <4>2. Before(s, i)' <= newest /\ Before(s, i)' \in Nat
        <5>1. Before(s, i)' = Before(s, i)
          BY <1>0, <2>3, <4>1 DEF Before
        <5>2. Before(s, i) <= newest /\ Before(s, i) \in Nat
          <6>1. CASE i > 1
            <7>1. queue[s][i - 1] <= newest /\ queue[s][i - 1] \in Nat
              <8>1. i - 1 \in 1 .. Len(queue[s])
                BY <4>1, <6>1
              <8>2. queue[s][i - 1] \in Nat
                BY <8>1, ValuesOf
              <8>3. queue[s][i - 1] <= newest
                BY <2>2, <8>1 DEF Published
              <8> QED
                BY <8>2, <8>3
            <7> QED
              BY <6>1, <7>1 DEF Before
          <6>2. CASE ~(i > 1)
            BY <2>2, <6>2, ValuesOf DEF Before, Published
          <6> QED
            BY <6>1, <6>2
        <5> QED
          BY <5>1, <5>2
      <4>3. queue'[s][i] = n
        BY <2>3, <3>2
      <4> QED
        BY <1>0, <4>2, <4>3, ValuesOf
    <3> QED
      BY <2>3, <3>1, <3>2
  <2>7. Published(s)'
    <3>1. ASSUME NEW i \in 1 .. Len(queue[s]) + 1 PROVE queue'[s][i] <= newest'
      <4>1. CASE i \in 1 .. Len(queue[s])
        <5>1. queue[s][i] <= newest /\ queue[s][i] \in Nat /\ queue'[s][i] = queue[s][i]
          BY <2>2, <2>3, <4>1, ValuesOf DEF Published
        <5> QED
          BY <1>0, <5>1, ValuesOf
      <4>2. CASE i = Len(queue[s]) + 1
        BY <1>0, <2>3, <4>2
      <4> QED
        BY <2>3, <4>1, <4>2
    <3> QED
      BY <1>0, <2>2, <2>3, <3>1, ValuesOf DEF Published
  <2> QED
    BY <1>0, <1>3, <2>5, <2>6, <2>7 DEF Flow
<1> QED
  BY <1>1, <1>2, <1>3

LEMMA FlowInit == Init => FlowInv
<1> SUFFICES ASSUME Init, NEW s \in Subscribers PROVE Flow(s)
  BY DEF FlowInv
<1>1. registered = {} /\ queue[s] = <<>> /\ hand[s] = 0
  BY DEF Init
<1> QED
  BY <1>1 DEF Flow

\* What a step does to one subscriber.
LEMMA FlowStep ==
  ASSUME TypeOK, HandInv, FlowInv, [Next]_vars
  PROVE  FlowInv'
<1> USE DEF feedVars, pollVars
<1> SUFFICES ASSUME NEW s \in Subscribers PROVE Flow(s)'
  BY DEF FlowInv
<1>0. Flow(s) /\ Recorder \in Subscribers /\ \A c \in Clients : c \in Subscribers /\ c # Recorder
  BY FeedConstantsOK DEF FlowInv, Subscribers
<1>1. ASSUME NEW c \in Clients, Connect(c) \/ Disconnect(c) \/ Stopped(c)
      PROVE  Flow(s)'
  <2>1. UNCHANGED <<queue, hand, seen, missed, newest, registered>>
    BY <1>1 DEF Connect, Disconnect, Stopped
  <2>2. pc'[s] = pc[s] \/ (pc'[s] # "sending" /\ pc[s] \in {"out", "stopping"})
    BY <1>1 DEF Connect, Disconnect, Stopped, TypeOK
  <2> QED
    BY <1>0, <2>1, <2>2, FlowStays
<1>2. ASSUME NEW u \in Subscribers, pc[u] = "accepting", Register(u) PROVE Flow(s)'
  <2>1. CASE s = u
    BY <1>0, <1>2, <2>1, FlowRegisters
  <2>2. CASE s # u
    <3>1. /\ queue'[s] = queue[s] /\ hand'[s] = hand[s] /\ seen'[s] = seen[s]
          /\ missed'[s] = missed[s] /\ newest' = newest /\ pc'[s] = pc[s]
          /\ s \in registered' <=> s \in registered
      BY <1>2, <2>2 DEF Register, TypeOK
    <3> QED
      BY <1>0, <3>1, FlowStays
  <2> QED
    BY <2>1, <2>2
<1>3. ASSUME NEW u \in Subscribers, Take(u) \/ Delivered(u) PROVE Flow(s)'
  <2>1. CASE s = u /\ Take(u)
    BY <1>0, <2>1, FlowTakes
  <2>2. CASE s = u /\ Delivered(u)
    BY <1>0, <2>2, FlowDelivers DEF Delivered, TypeOK
  <2>3. CASE s # u
    <3>1. /\ queue'[s] = queue[s] /\ hand'[s] = hand[s] /\ seen'[s] = seen[s]
          /\ missed'[s] = missed[s] /\ newest' = newest /\ pc'[s] = pc[s]
          /\ registered' = registered
      BY <1>3, <2>3 DEF Take, Delivered, TypeOK
    <3> QED
      BY <1>0, <3>1, FlowStays
  <2> QED
    BY <1>3, <2>1, <2>2, <2>3
<1>4. ASSUME NEW c \in Clients, SendFailed(c) PROVE Flow(s)'
  <2>0. Unregister(c) /\ Leave(c)
    BY <1>4 DEF SendFailed, Leave
  <2>1. CASE s = c
    <3>1. s \notin registered' /\ queue'[s] = <<>> /\ hand'[s] = 0
      BY <2>0, <2>1 DEF Unregister, TypeOK
    <3> QED
      BY <3>1 DEF Flow
  <2>2. CASE s # c
    <3>1. /\ queue'[s] = queue[s] /\ hand'[s] = hand[s] /\ seen'[s] = seen[s]
          /\ missed'[s] = missed[s] /\ newest' = newest
          /\ s \in registered' <=> s \in registered
      BY <2>0, <2>2 DEF Unregister, TypeOK
    <3>2. pc'[s] = pc[s]
      BY <2>0, <2>2 DEF Leave, TypeOK
    <3> QED
      BY <1>0, <3>1, <3>2, FlowStays
  <2> QED
    BY <2>1, <2>2
<1>5. ASSUME NEW l \in Loops, PollSucceeds(l) PROVE Flow(s)'
  <2> DEFINE n == IF newest < MaxReading THEN newest + 1 ELSE MaxReading
  <2>1. n \in Readings
    BY ValuesOf
  <2>2. Publish(n) /\ UNCHANGED <<pc, hand, seen>>
    BY <1>5 DEF PollSucceeds
  <2> QED
    BY <1>0, <2>1, <2>2, FlowPublishes
<1>6. CASE InsertFailed
  <2>1. CASE s = Recorder
    BY <1>0, <1>6, <2>1, FlowDelivers DEF InsertFailed, TypeOK
  <2>2. CASE s # Recorder
    BY <1>0, <1>6, <2>2, FlowStays DEF InsertFailed, TypeOK
  <2> QED
    BY <2>1, <2>2
<1>7. ASSUME NEW l \in Loops, PollFails(l) \/ Wake(l) \/ Unwind(l) PROVE Flow(s)'
  BY <1>0, <1>7, FlowStays DEF PollFails, Wake, Unwind
<1>8. CASE UNCHANGED vars
  BY <1>0, <1>8, FlowStays DEF vars
<1> QED
  BY <1>0, <1>1, <1>2, <1>3, <1>4, <1>5, <1>6, <1>7, <1>8
  DEF Next, Handle, Subscribe, Sent, Poll, Record, BeginRecording

\* For any number of clients and any queue size: a subscriber gets the readings in
\* order, and misses only those its own full queue, or the database, refused.
THEOREM GapsCounted == Spec => []NoSilentGap
<1> DEFINE Inv == TypeOK /\ HandInv /\ StopsInv /\ RunningIffWatched /\ FlowInv
<1>1. Init => Inv
  BY TypeInit, CountInit, FlowInit
<1>2. Inv /\ [Next]_vars => Inv'
  BY TypeStep, CountStep, FlowStep
<1>3. Inv => NoSilentGap
  BY FlowImplies
<1> QED
  BY <1>1, <1>2, <1>3, PTL DEF Spec

-----------------------------------------------------------------------------
(* The refinement of OnDemand *)

\* The last reading each client was sent.
ClientsSaw == [c \in Clients |-> seen[c]]

streamVars == <<Watching, task # None, newest, ClientsSaw>>

\* What changes for the viewers is up to the watchers, self._task and the readings.
LEMMA StreamStutters ==
  ASSUME Watching' = Watching, (task' # None) = (task # None), newest' = newest,
         \A c \in Clients : seen'[c] = seen[c]
  PROVE  UNCHANGED streamVars
<1>1. ClientsSaw' = ClientsSaw
  BY DEF ClientsSaw
<1> QED BY <1>1 DEF streamVars

LEMMA ViewersSee ==
  ASSUME TypeOK, NEW c \in Clients, NEW n, seen' = [seen EXCEPT ![c] = n]
  PROVE  ClientsSaw' = [ClientsSaw EXCEPT ![c] = n] /\ ClientsSaw[c] = seen[c]
  BY DEF ClientsSaw, TypeOK, Subscribers

LEMMA SubscribeJoins ==
  ASSUME TypeOK, RunningIffWatched, NEW c \in Clients, Subscribe(c)
  PROVE  Stream!Join(c)
<1>1. /\ pc[c] = "accepting" /\ pc' = [pc EXCEPT ![c] = "waiting"] /\ EnsureRunning
      /\ seen' = [seen EXCEPT ![c] = newest] /\ newest' = newest
  BY DEF Subscribe, Register
<1>2. c \notin Watching /\ Watching' = Watching \cup {c}
  BY <1>1 DEF Watching, TypeOK, Subscribers
<1>3. task' # None
  BY <1>1, FeedConstantsOK DEF EnsureRunning
<1> QED BY <1>1, <1>2, <1>3, ViewersSee DEF Stream!Join, ClientsSaw

LEMMA SendFailedLeaves ==
  ASSUME TypeOK, StopsInv, RunningIffWatched, NEW c \in Clients, SendFailed(c)
  PROVE  Stream!Leave(c)
<1>1. /\ pc[c] = "sending" /\ pc'[c] \in {"out", "stopping"}
      /\ \A d \in Clients \ {c} : pc'[d] = pc[d]
      /\ seen' = [seen EXCEPT ![c] = 0] /\ newest' = newest
  BY DEF SendFailed, Leave, Unregister, TypeOK, Subscribers
<1>2. c \in Watching /\ Watching' = Watching \ {c}
  BY <1>1 DEF Watching
<1>3. task' # None <=> Watching' # {}
  BY LeaveCounts DEF RunningIffWatched
<1> QED BY <1>1, <1>2, <1>3, ViewersSee DEF Stream!Leave, ClientsSaw

LEMMA SentReceives ==
  ASSUME TypeOK, HandInv, FlowInv, RunningIffWatched, NEW c \in Clients, Sent(c)
  PROVE  Stream!Receive(c) \/ UNCHANGED streamVars
<1>0. c \in Subscribers
  BY DEF Subscribers
<1>1. /\ pc[c] = "sending" /\ pc' = [pc EXCEPT ![c] = "waiting"]
      /\ seen' = [seen EXCEPT ![c] = hand[c]] /\ newest' = newest /\ task' = task
  BY DEF Sent, Delivered, pollVars
<1>2. c \in Watching /\ Watching' = Watching
  BY <1>1 DEF Watching, TypeOK, Subscribers
<1>3. hand[c] # 0 /\ c \in registered /\ InOrder(c) /\ Published(c)
  BY <1>0, <1>1, <1>2 DEF HandInv, FlowInv, Flow, RunningIffWatched
<1>4. CASE hand[c] > seen[c]
  <2>1. hand[c] \in seen[c] + 1 .. newest
    BY <1>0, <1>3, <1>4, ValuesOf DEF Published
  <2> QED BY <1>1, <1>2, <2>1, ViewersSee DEF Stream!Receive, ClientsSaw
<1>5. CASE ~(hand[c] > seen[c])
  <2>1. hand[c] = seen[c]
    BY <1>0, <1>3, <1>5, ValuesOf DEF InOrder
  <2>2. \A d \in Clients : seen'[d] = seen[d]
    BY <1>1, <2>1 DEF TypeOK, Subscribers
  <2> QED BY <1>1, <1>2, <2>2, StreamStutters
<1> QED BY <1>4, <1>5

LEMMA PollSamples ==
  ASSUME TypeOK, RunningIffWatched, NEW l \in Loops, PollSucceeds(l)
  PROVE  Stream!Sample \/ UNCHANGED streamVars
<1>1. /\ loop[l] = "polling" /\ UNCHANGED <<pc, seen, task>>
      /\ newest' = IF newest < MaxReading THEN newest + 1 ELSE MaxReading
  BY DEF PollSucceeds, Publish, pollVars
<1>2. task # None
  BY <1>1 DEF RunningIffWatched
<1>3. Watching' = Watching /\ ClientsSaw' = ClientsSaw
  BY <1>1 DEF Watching, ClientsSaw
<1>4. newest' = newest + 1 \/ newest' = newest
  BY <1>1, FeedConstantsOK DEF TypeOK, Readings
<1> QED BY <1>1, <1>2, <1>3, <1>4 DEF Stream!Sample, ClientsSaw, streamVars

LEMMA StreamStep ==
  ASSUME TypeOK, HandInv, StopsInv, RunningIffWatched, FlowInv, [Next]_vars
  PROVE  [Stream!Next]_streamVars
<1> USE DEF feedVars, pollVars
<1>0. \A c \in Clients : c \in Subscribers /\ c # Recorder
  BY FeedConstantsOK DEF Subscribers
<1>1. ASSUME NEW c \in Clients, Connect(c) \/ Disconnect(c) \/ Take(c) \/ Stopped(c)
      PROVE  UNCHANGED streamVars
  <2>1. Watching' = Watching
    BY <1>1 DEF Connect, Disconnect, Take, Stopped, Watching, TypeOK, Subscribers
  <2> QED BY <1>1, <2>1, StreamStutters DEF Connect, Disconnect, Take, Stopped
<1>2. ASSUME NEW l \in Loops, PollFails(l) \/ Wake(l) \/ Unwind(l)
      PROVE  UNCHANGED streamVars
  BY <1>2, StreamStutters DEF PollFails, Wake, Unwind, Watching
<1>3. CASE Record
  <2>1. Watching' = Watching /\ task' = task /\ newest' = newest
    BY <1>0, <1>3 DEF Record, BeginRecording, Register, Take, Delivered, InsertFailed, Watching, TypeOK
  <2>2. \A c \in Clients : seen'[c] = seen[c]
    BY <1>0, <1>3 DEF Record, BeginRecording, Register, Take, Delivered, InsertFailed, TypeOK
  <2> QED BY <2>1, <2>2, StreamStutters
<1>4. CASE UNCHANGED vars
  BY <1>4, StreamStutters DEF vars, Watching
<1> QED BY <1>1, <1>2, <1>3, <1>4, SubscribeJoins, SendFailedLeaves, SentReceives, PollSamples
        DEF Next, Handle, Poll, Stream!Next

\* poller.py: it "starts when the first subscriber arrives and stops when the last
\* one leaves", for any finite set of clients and any queue size: the meter is
\* sampled exactly while somebody watches, and a viewer gets samples taken after it
\* came, in order and none twice.
THEOREM ImplementsOnDemand == Spec => StreamsOnDemand
<1> DEFINE Inv == TypeOK /\ HandInv /\ StopsInv /\ RunningIffWatched /\ FlowInv
<1>1. Init => Inv
  BY TypeInit, CountInit, FlowInit
<1>2. Inv /\ [Next]_vars => Inv'
  BY TypeStep, CountStep, FlowStep
<1>3. Init => Stream!Init
  BY FeedConstantsOK DEF Init, Stream!Init, Watching, Subscribers
<1>4. Inv /\ [Next]_vars => [Stream!Next]_(Stream!vars)
  BY StreamStep DEF streamVars, ClientsSaw, Stream!vars
<1> QED BY <1>1, <1>2, <1>3, <1>4, PTL DEF Spec, StreamsOnDemand, Stream!Spec

=============================================================================
