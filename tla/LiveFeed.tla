------------------------------ MODULE LiveFeed ------------------------------
(***************************************************************************)
(* The live stream: Poller, Broadcaster, the handlers of /ws/live and the  *)
(* Recorder, all tasks of one event loop.  An action is what the loop runs *)
(* between two awaits.                                                     *)
(*                                                                         *)
(* Readings are numbered as they are published; MaxReading stands for the  *)
(* reading of that number and all later ones.                              *)
(***************************************************************************)
EXTENDS Naturals, Sequences, FiniteSets

CONSTANTS
  Clients,     \* WebSocket connections
  Recorder,    \* the recorder, a subscriber of the broadcaster but not of the poller
  Loops,       \* poll-loop tasks
  QueueSize,   \* maxsize of a subscription's queue, 100 in the code
  MaxReading,  \* bound: readings told apart
  None         \* no task

ASSUME FeedConstantsOK ==
  /\ IsFiniteSet(Clients) /\ Recorder \notin Clients
  /\ None \notin Loops
  /\ QueueSize \in Nat \ {0} /\ MaxReading \in Nat \ {0}

Subscribers == Clients \cup {Recorder}

VARIABLES
  link,         \* the connection of a client, as the server's protocol layer knows it
  pc,           \* where each handler is, and the recorder's _run
  queue,        \* Subscription._queue
  hand,         \* the reading being sent or inserted
  registered,   \* Broadcaster._subscriptions
  subscribers,  \* Poller._subscribers
  task,         \* Poller._task
  loop,         \* the state of each poll-loop task
  stops,        \* the poll loop the _stop of a handler awaits
  newest,       \* number of the last published reading
  seen,         \* the last reading delivered: sent to the client, stored by the recorder
  missed        \* readings after the last one delivered that a subscription dropped
                \* or the recorder failed to store

feedVars == <<queue, registered, newest, missed>>
pollVars == <<subscribers, task, stops>>
vars == <<link, pc, hand, loop, seen, feedVars, pollVars>>

-----------------------------------------------------------------------------
(* Broadcaster *)

Register(s) ==
  /\ registered' = registered \cup {s}
  /\ seen' = [seen EXCEPT ![s] = newest]
  /\ pc' = [pc EXCEPT ![s] = "waiting"]
  /\ UNCHANGED <<queue, hand, newest, missed>>

\* the Subscription is gone, with what its queue still held
Unregister(s) ==
  /\ registered' = registered \ {s}
  /\ queue' = [queue EXCEPT ![s] = <<>>]
  /\ hand' = [hand EXCEPT ![s] = 0]
  /\ missed' = [missed EXCEPT ![s] = {}]
  /\ seen' = [seen EXCEPT ![s] = 0]
  /\ UNCHANGED newest

\* Mutant: the queue takes one reading more than its maxsize.
FullOneLate(s) == Len(queue[s]) > QueueSize

Full(s) == Len(queue[s]) = QueueSize

\* Mutant: the first full queue ends the publication.
PublishUntilFull(n) ==
  /\ newest' = n
  /\ queue' = [s \in Subscribers |->
       IF s \in registered /\ \A u \in registered : ~Full(u)
         THEN Append(queue[s], n) ELSE queue[s]]
  /\ missed' = [s \in Subscribers |->
       IF s \in registered /\ Full(s) THEN missed[s] \cup {n} ELSE missed[s]]
  /\ UNCHANGED registered

Publish(n) ==
  /\ newest' = n
  /\ queue' = [s \in Subscribers |->
       IF s \in registered /\ ~Full(s) THEN Append(queue[s], n) ELSE queue[s]]
  /\ missed' = [s \in Subscribers |->
       IF s \in registered /\ Full(s) THEN missed[s] \cup {n} ELSE missed[s]]
  /\ UNCHANGED registered

\* "async for reading in subscription", up to the await of its body
Take(s) ==
  /\ pc[s] = "waiting" /\ queue[s] # <<>>
  /\ hand' = [hand EXCEPT ![s] = Head(queue[s])]
  /\ queue' = [queue EXCEPT ![s] = Tail(@)]
  /\ pc' = [pc EXCEPT ![s] = "sending"]
  /\ UNCHANGED <<link, loop, seen, registered, newest, missed, pollVars>>

\* the reading is delivered; what was missed before it no longer matters
Delivered(s) ==
  /\ pc[s] = "sending"
  /\ seen' = [seen EXCEPT ![s] = hand[s]]
  /\ missed' = [missed EXCEPT ![s] = {n \in @ : n > hand[s]}]
  /\ hand' = [hand EXCEPT ![s] = 0]
  /\ pc' = [pc EXCEPT ![s] = "waiting"]
  /\ UNCHANGED <<link, loop, queue, registered, newest, pollVars>>

-----------------------------------------------------------------------------
(* The handler of /ws/live *)

Connect(c) ==
  /\ pc[c] = "out"
  /\ link' = [link EXCEPT ![c] = "up"]
  /\ pc' = [pc EXCEPT ![c] = "accepting"]
  /\ UNCHANGED <<hand, loop, seen, feedVars, pollVars>>

Disconnect(c) ==
  /\ link[c] = "up"
  /\ link' = [link EXCEPT ![c] = "down"]
  /\ UNCHANGED <<pc, hand, loop, seen, feedVars, pollVars>>

\* Poller._ensure_running
EnsureRunning ==
  \/ task # None /\ UNCHANGED <<task, loop>>
  \/ /\ task = None
     /\ \E l \in Loops : /\ loop[l] = "none"
                         /\ task' = l
                         /\ loop' = [loop EXCEPT ![l] = "polling"]

Subscribe(c) ==
  /\ pc[c] = "accepting"
  /\ subscribers' = subscribers + 1
  /\ EnsureRunning
  /\ Register(c)
  /\ UNCHANGED <<link, stops>>

Sent(c) == link[c] = "up" /\ Delivered(c)

\* Subscription.__aexit__, then the finally clause of Poller.subscribe with
\* the first half of _stop
Leave(c) ==
  /\ Unregister(c)
  /\ subscribers' = subscribers - 1
  /\ IF subscribers = 1 /\ task # None
       THEN /\ loop' = [loop EXCEPT ![task] = "cancelled"]
            /\ stops' = [stops EXCEPT ![c] = task]
            /\ task' = None
            /\ pc' = [pc EXCEPT ![c] = "stopping"]
       ELSE /\ pc' = [pc EXCEPT ![c] = "out"]
            /\ UNCHANGED <<task, loop, stops>>

\* send_json raises WebSocketDisconnect
SendFailed(c) ==
  /\ pc[c] = "sending" /\ link[c] = "down"
  /\ Leave(c)
  /\ UNCHANGED link

\* Mutant: _stop clears self._task after the await instead of before it.
StoppedClearsTask(c) ==
  /\ pc[c] = "stopping" /\ loop[stops[c]] = "ended"
  /\ loop' = [loop EXCEPT ![stops[c]] = "none"]
  /\ stops' = [stops EXCEPT ![c] = None]
  /\ pc' = [pc EXCEPT ![c] = "out"]
  /\ task' = None
  /\ UNCHANGED <<link, hand, seen, feedVars, subscribers>>

\* the second half of _stop: the cancelled task has ended
Stopped(c) ==
  /\ pc[c] = "stopping" /\ loop[stops[c]] = "ended"
  /\ loop' = [loop EXCEPT ![stops[c]] = "none"]
  /\ stops' = [stops EXCEPT ![c] = None]
  /\ pc' = [pc EXCEPT ![c] = "out"]
  /\ UNCHANGED <<link, hand, seen, feedVars, subscribers, task>>

Handle(c) == Subscribe(c) \/ Take(c) \/ Sent(c) \/ SendFailed(c) \/ Stopped(c)

-----------------------------------------------------------------------------
(* Poller._loop *)

\* Mutant: a cancelled loop still publishes the reading it was waiting for.
PollSucceedsLate(l) ==
  /\ loop[l] \in {"polling", "cancelled"}
  /\ loop' = [loop EXCEPT ![l] = IF @ = "polling" THEN "sleeping" ELSE "ended"]
  /\ Publish(IF newest < MaxReading THEN newest + 1 ELSE MaxReading)
  /\ UNCHANGED <<link, pc, hand, seen, pollVars>>

\* Mutant: the reading is returned and not published.
PollUnpublished(l) ==
  /\ loop[l] = "polling"
  /\ loop' = [loop EXCEPT ![l] = "sleeping"]
  /\ UNCHANGED <<link, pc, hand, seen, feedVars, pollVars>>

PollSucceeds(l) ==
  /\ loop[l] = "polling"
  /\ loop' = [loop EXCEPT ![l] = "sleeping"]
  /\ Publish(IF newest < MaxReading THEN newest + 1 ELSE MaxReading)
  /\ UNCHANGED <<link, pc, hand, seen, pollVars>>

\* Mutant: an exception that is not a DeviceError ends the loop.
PollFailsForGood(l) ==
  /\ loop[l] = "polling"
  /\ loop' = [loop EXCEPT ![l] = "ended"]
  /\ UNCHANGED <<link, pc, hand, seen, feedVars, pollVars>>

PollFails(l) ==
  /\ loop[l] = "polling"
  /\ loop' = [loop EXCEPT ![l] = "sleeping"]
  /\ UNCHANGED <<link, pc, hand, seen, feedVars, pollVars>>

Wake(l) ==
  /\ loop[l] = "sleeping"
  /\ loop' = [loop EXCEPT ![l] = "polling"]
  /\ UNCHANGED <<link, pc, hand, seen, feedVars, pollVars>>

\* CancelledError at the await the loop is suspended in
Unwind(l) ==
  /\ loop[l] = "cancelled"
  /\ loop' = [loop EXCEPT ![l] = "ended"]
  /\ UNCHANGED <<link, pc, hand, seen, feedVars, pollVars>>

Poll(l) == PollSucceeds(l) \/ PollFails(l) \/ Wake(l) \/ Unwind(l)

-----------------------------------------------------------------------------
(* Recorder._run; pc "accepting" is the task start() created *)

BeginRecording ==
  /\ pc[Recorder] = "accepting"
  /\ Register(Recorder)
  /\ UNCHANGED <<link, loop, pollVars>>

\* insert_reading raised: logged, the reading is gone
InsertFailed ==
  /\ pc[Recorder] = "sending"
  /\ missed' = [missed EXCEPT ![Recorder] = @ \cup {hand[Recorder]}]
  /\ hand' = [hand EXCEPT ![Recorder] = 0]
  /\ pc' = [pc EXCEPT ![Recorder] = "waiting"]
  /\ UNCHANGED <<link, loop, seen, queue, registered, newest, pollVars>>

Record == BeginRecording \/ Take(Recorder) \/ Delivered(Recorder) \/ InsertFailed

-----------------------------------------------------------------------------

Init ==
  /\ link = [c \in Clients |-> "down"]
  /\ pc = [s \in Subscribers |-> IF s = Recorder THEN "accepting" ELSE "out"]
  /\ queue = [s \in Subscribers |-> <<>>]
  /\ hand = [s \in Subscribers |-> 0]
  /\ registered = {}
  /\ subscribers = 0 /\ task = None
  /\ loop = [l \in Loops |-> "none"]
  /\ stops = [c \in Clients |-> None]
  /\ newest = 0
  /\ seen = [s \in Subscribers |-> 0]
  /\ missed = [s \in Subscribers |-> {}]

Next ==
  \/ \E c \in Clients : Connect(c) \/ Disconnect(c) \/ Handle(c)
  \/ \E l \in Loops : Poll(l)
  \/ Record

Spec == Init /\ [][Next]_vars

\* The loop runs every task that is ready, and every read of the meter ends
\* (DeviceManager, EveryCallReturns), with or without a reading.
Fairness ==
  /\ \A c \in Clients : WF_vars(Handle(c))
  /\ \A l \in Loops : WF_vars(Poll(l))
  /\ WF_vars(Record)

FairSpec == Spec /\ Fairness

\* ... and a meter that is polled again and again answers again and again
LiveSpec == FairSpec /\ SF_vars(\E l \in Loops : PollSucceeds(l))

-----------------------------------------------------------------------------
(* Properties *)

Readings == 1 .. MaxReading

\* The values the variables take.
TypeOK ==
  /\ link \in [Clients -> {"up", "down"}]
  /\ pc \in [Subscribers -> {"out", "accepting", "waiting", "sending", "stopping"}]
  /\ queue \in [Subscribers -> Seq(Readings)]
  /\ \A s \in Subscribers : Len(queue[s]) <= QueueSize
  /\ hand \in [Subscribers -> Readings \cup {0}]
  /\ registered \subseteq Subscribers
  /\ subscribers \in Nat
  /\ task \in Loops \cup {None}
  /\ loop \in [Loops -> {"none", "polling", "sleeping", "cancelled", "ended"}]
  /\ stops \in [Clients -> Loops \cup {None}]
  /\ newest \in Readings \cup {0}
  /\ seen \in [Subscribers -> Readings \cup {0}]
  /\ missed \in [Subscribers -> SUBSET Readings]

\* the clients a handler is subscribed for
Watching == {c \in Clients : pc[c] \in {"waiting", "sending"}}

\* Reference counting survives every interleaving of handlers that leave, the
\* await in _stop and handlers that come: the count is the number of subscribed
\* handlers, the one loop that polls is self._task, and it polls exactly while
\* somebody is subscribed.
RunningIffWatched ==
  /\ subscribers = Cardinality(Watching)
  /\ registered \cap Clients = Watching
  /\ task = None <=> Watching = {}
  /\ {l \in Loops : loop[l] \in {"polling", "sleeping"}} = {task} \ {None}

\* the readings on their way to s
Pending(s) == (IF hand[s] = 0 THEN <<>> ELSE <<hand[s]>>) \o queue[s]

\* "the newest reading is dropped for that subscriber rather than blocking the
\* publisher": every subscriber, the recorder included, gets the readings in
\* order, and all of them but those its own full queue, or the database, refused.
NoSilentGap ==
  \A s \in registered :
    LET p == Pending(s) IN
      /\ \A n \in seen[s] + 1 .. newest : n \in missed[s] \/ \E i \in 1 .. Len(p) : p[i] = n
      /\ \A i \in 1 .. Len(p) :
           p[i] > (IF i = 1 THEN seen[s] ELSE p[i - 1]) \/ p[i] = MaxReading

\* Live clients never silently go dark: a client that stays connected goes on
\* receiving readings, whatever polls fail and whoever comes and goes.
LiveClientsFed ==
  \A c \in Clients :
    <>[](link[c] = "up") => []<><<Sent(c)>>_vars

\* DESIGN.md: polling "stops when the last one disconnects, so the meter/bus is
\* idle when nobody is watching".
Connected == {c \in Clients : link[c] = "up"}
IdleWhenUnwatched == Connected = {} ~> (task = None \/ Connected # {})

\* The stream as its viewers see it.
Stream == INSTANCE OnDemand
  WITH Viewers <- Clients, watchers <- Watching, sampling <- (task # None),
       newest <- newest, seen <- [c \in Clients |-> seen[c]]
StreamsOnDemand == Stream!Spec

=============================================================================
