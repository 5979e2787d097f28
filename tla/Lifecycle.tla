------------------------------ MODULE Lifecycle ------------------------------
(***************************************************************************)
(* One run of "owon-xdm1041-server serve": runner.serve, the web server    *)
(* with the lifespan of its application, the recorder and the database,    *)
(* the SCPI server and the one manager they share, from the first await to *)
(* the end of the process.                                                 *)
(*                                                                         *)
(* uvicorn (0.29 or later) and asyncio.run (Python 3.12.1 or later) are    *)
(* external: what they do at a signal, at a failed start-up and at the end *)
(* of the main task is stated where it is used.                            *)
(***************************************************************************)
EXTENDS ScpiServer

CONSTANTS
  Requests,  \* HTTP requests that take a reading and store it
  Viewers,   \* clients of /ws/live
  Poller,    \* the poll loop
  Main       \* the task of runner.serve

ASSUME LifecycleConstantsOK ==
  /\ Others = Requests \cup {Poller, Main}
  /\ Poller # Main /\ {Poller, Main} \cap Requests = {}

VARIABLES
  main,      \* where runner.serve is
  signal,    \* the signal the process has received
  web,       \* uvicorn's Server.serve; "abandoned": it returned and its listener is open
  lifespan,  \* the application's lifespan
  recorder,  \* the task of the Recorder
  request,   \* where each request is
  live,      \* the live streams; "gone": its connection is closed, its handler does not know
  poll       \* the poll loop

webVars == <<web, lifespan, recorder, request, live, poll>>
vars == <<scpiVars, main, signal, webVars>>

\* what is queued behind Database.close fails
DatabaseOpen == lifespan \in {"up", "stopping"}

-----------------------------------------------------------------------------
(* runner.serve *)

\* scpi.start, then gather starts uvicorn, whose lifespan begins with database.connect
Start ==
  /\ main = "starting"
  /\ main' = "serving" /\ listening' = TRUE
  /\ web' = "starting" /\ lifespan' = "connecting"
  /\ UNCHANGED <<signal, clientVars, handlerVars, managerVars, recorder, request, live, poll>>

\* the port of the SCPI server is taken: nothing has been started
BindFails ==
  /\ main = "starting" /\ main' = "exited"
  /\ UNCHANGED <<scpiVars, signal, webVars>>

\* SIGINT or SIGTERM.  uvicorn's handler shuts its server down: it closes the
\* live streams' connections and waits for all handlers.
Signal ==
  /\ main = "serving" /\ signal = "none"
  /\ signal' \in {"INT", "TERM"}
  /\ web' = IF web = "serving" THEN "draining" ELSE web
  /\ live' = [v \in Viewers |-> IF web = "serving" /\ live[v] = "up" THEN "gone" ELSE live[v]]
  /\ UNCHANGED <<scpiVars, main, lifespan, recorder, request, poll>>

\* uvicorn has returned: it raises the signal it had caught again
Returned == main = "serving" /\ web \in {"ended", "abandoned"}

\* SIGINT cancels the main task: serve_forever closes the listener and waits for
\* its clients
Cancel ==
  /\ Returned /\ signal = "INT"
  /\ main' = "stopping" /\ listening' = FALSE
  /\ UNCHANGED <<signal, clientVars, handlerVars, managerVars, webVars>>

\* the tasks of the handlers, the requests, the live streams and the poll loop end,
\* with what they and their connections held
Gone ==
  /\ link' = [c \in Clients |-> "closed"] /\ pc' = [c \in Clients |-> "done"]
  /\ sent' = [c \in Clients |-> <<>>] /\ taken' = [c \in Clients |-> 0]
  /\ replies' = [c \in Clients |-> <<>>] /\ received' = [c \in Clients |-> 0]
  /\ unanswered' = [c \in Clients |-> {}]
  /\ served' = Nobody /\ line' = <<>> /\ ending' = [t \in Tasks |-> "none"]
  /\ request' = [h \in Requests |-> "none"] /\ live' = [v \in Viewers |-> "none"]
  /\ poll' = "idle"
  /\ UNCHANGED signal

\* SIGTERM kills: neither the "finally" of serve nor any handler runs
Kill ==
  /\ Returned /\ signal = "TERM"
  /\ main' = "killed" /\ web' = "ended" /\ listening' = FALSE
  /\ lifespan' = IF lifespan = "failed" THEN "failed" ELSE "down"
  /\ recorder' = IF recorder = "off" THEN "off" ELSE "ended"
  /\ Gone

\* Mutant: serve_forever and stop close the listener and do not wait for clients.
StopAtOnce ==
  /\ main = "stopping" /\ main' = "closing"
  /\ Call(Main)
  /\ UNCHANGED <<listening, clientVars, handlerVars, signal, webVars>>

\* wait_closed returned; manager.stop
StopManager ==
  /\ main = "stopping" /\ \A c \in Clients : ~Attached(c)
  /\ main' = "closing"
  /\ Call(Main)
  /\ UNCHANGED <<listening, clientVars, handlerVars, signal, webVars>>

\* serve returns; asyncio.run then cancels the tasks that are left.  What the
\* lifespan and the recorder do then is below.
Exit ==
  /\ main = "closing" /\ ~InCall(Main)
  /\ main' = "exited"
  /\ Gone
  /\ UNCHANGED <<listening, web, lifespan, recorder>>

Run == Start \/ BindFails \/ Cancel \/ Kill \/ StopManager \/ Exit

-----------------------------------------------------------------------------
(* The application: lifespan, Database.connect and close, Recorder.stop *)

\* uvicorn binds its port and serves.  After a signal it returns without a shutdown:
\* the listener it has just bound goes on accepting, unless SIGTERM kills at once.
Connected ==
  /\ lifespan = "connecting"
  /\ lifespan' = "up" /\ recorder' = "waiting"
  /\ web' = [none |-> "serving", INT |-> "abandoned", TERM |-> "ended"][signal]
  /\ UNCHANGED <<scpiVars, main, signal, request, live, poll>>

\* database.connect raises: uvicorn logs it and returns
ConnectFails ==
  /\ lifespan = "connecting"
  /\ lifespan' = "failed" /\ web' = "ended"
  /\ UNCHANGED <<scpiVars, main, signal, recorder, request, live, poll>>

Handlers == {h \in Requests : request[h] # "none"} \cup {v \in Viewers : live[v] # "none"}

\* uvicorn's handlers are over, or asyncio.run cancels the lifespan
ShutDown == (web = "draining" /\ Handlers = {}) \/ main = "exited"

\* the "finally" of lifespan: Recorder.stop cancels its task
StopRecorder ==
  /\ lifespan = "up" /\ ShutDown
  /\ lifespan' = "stopping" /\ recorder' = "cancelled"
  /\ UNCHANGED <<scpiVars, main, signal, web, request, live, poll>>

\* Mutant: stop cancels the task and does not await it.
CloseUnawaited ==
  /\ lifespan = "stopping"
  /\ lifespan' = "closing"
  /\ UNCHANGED <<scpiVars, main, signal, web, recorder, request, live, poll>>

\* "await task" returned; Database.close
CloseDatabase ==
  /\ lifespan = "stopping" /\ recorder = "ended"
  /\ lifespan' = "closing"
  /\ UNCHANGED <<scpiVars, main, signal, web, recorder, request, live, poll>>

\* the database is closed; after Exit this is the end of the process
Closedown ==
  /\ lifespan = "closing"
  /\ lifespan' = "down" /\ web' = "ended"
  /\ \/ main = "exited" /\ Gone /\ UNCHANGED listening
     \/ main # "exited" /\ UNCHANGED <<scpiVars, signal, request, live, poll>>
  /\ UNCHANGED <<main, recorder>>

Lifespan == Connected \/ ConnectFails \/ StopRecorder \/ CloseDatabase \/ Closedown

\* Mutant: "except BaseException" in _run swallows the cancellation.
RecorderGoesOn ==
  /\ recorder \in {"inserting", "cancelled"}
  /\ recorder' = "waiting"
  /\ UNCHANGED <<scpiVars, main, signal, web, lifespan, request, live, poll>>

\* insert_reading is over, or CancelledError is raised at the await
RecorderGoes ==
  /\ recorder \in {"inserting", "cancelled"}
  /\ recorder' = IF recorder = "inserting" THEN "waiting" ELSE "ended"
  /\ UNCHANGED <<scpiVars, main, signal, web, lifespan, request, live, poll>>

-----------------------------------------------------------------------------
(* What the web server serves *)

\* the loop runs the cancellation of the main task before it accepts at a new listener
Accepting == web = "serving" \/ (web = "abandoned" /\ main # "serving")

Arrive(h) ==
  /\ Accepting /\ request[h] = "none"
  /\ request' = [request EXCEPT ![h] = "calling"]
  /\ Call(h)
  /\ UNCHANGED <<listening, clientVars, handlerVars>>
  /\ UNCHANGED <<main, signal, web, lifespan, recorder, live, poll>>

\* a reading is stored; a call that failed ends the request
Measured(h) ==
  /\ request[h] = "calling" /\ Return(h)
  /\ request' = [request EXCEPT ![h] = IF ending[h] = "own" THEN "storing" ELSE "none"]
  /\ UNCHANGED <<listening, clientVars, handlerVars>>
  /\ UNCHANGED <<main, signal, web, lifespan, recorder, live, poll>>

Stored(h) ==
  /\ request[h] = "storing"
  /\ request' = [request EXCEPT ![h] = "none"]
  /\ UNCHANGED <<scpiVars, main, signal, web, lifespan, recorder, live, poll>>

Watch(v) ==
  /\ Accepting /\ live[v] = "none"
  /\ live' = [live EXCEPT ![v] = "up"]
  /\ UNCHANGED <<scpiVars, main, signal, web, lifespan, recorder, request, poll>>

Unwatch(v) ==
  /\ live[v] = "up"
  /\ live' = [live EXCEPT ![v] = "gone"]
  /\ UNCHANGED <<scpiVars, main, signal, web, lifespan, recorder, request, poll>>

PollBegins ==
  /\ poll = "idle" /\ \E v \in Viewers : live[v] # "none"
  /\ poll' = "calling"
  /\ Call(Poller)
  /\ UNCHANGED <<listening, clientVars, handlerVars>>
  /\ UNCHANGED <<main, signal, web, lifespan, recorder, request, live>>

Polled ==
  /\ poll = "calling" /\ Return(Poller)
  /\ poll' = "idle"

\* the reading goes to the recorder and the handlers; those whose connection is closed end
PollSucceeds ==
  /\ Polled /\ ending[Poller] = "own"
  /\ recorder' = IF recorder = "waiting" THEN "inserting" ELSE recorder
  /\ live' = [v \in Viewers |-> IF live[v] = "gone" THEN "none" ELSE live[v]]
  /\ UNCHANGED <<listening, clientVars, handlerVars, main, signal, web, lifespan, request>>

PollFails ==
  /\ Polled /\ ending[Poller] # "own"
  /\ UNCHANGED <<listening, clientVars, handlerVars>>
  /\ UNCHANGED <<main, signal, web, lifespan, recorder, request, live>>

Web ==
  \/ \E h \in Requests : Arrive(h) \/ Measured(h) \/ Stored(h)
  \/ \E v \in Viewers : Watch(v) \/ Unwatch(v)
  \/ PollBegins \/ PollSucceeds \/ PollFails

-----------------------------------------------------------------------------

Init ==
  /\ ScpiInit
  /\ main = "starting" /\ signal = "none"
  /\ web = "off" /\ lifespan = "off" /\ recorder = "off"
  /\ request = [h \in Requests |-> "none"] /\ live = [v \in Viewers |-> "none"]
  /\ poll = "idle"

Scpi == ScpiNext /\ UNCHANGED <<main, signal, webVars>>

Next == Scpi \/ Run \/ Signal \/ Lifespan \/ RecorderGoes \/ Web

Spec == Init /\ [][Next]_vars

\* The loop runs every task that is ready, a call that is served ends
\* (DeviceManager, EveryCallReturns) and database.connect returns or raises.
\* Nobody has to connect, send, read, hang up or watch, and no signal has to come.
Fairness ==
  /\ WF_vars(Take /\ UNCHANGED <<main, signal, webVars>>)
  /\ WF_vars(Leave /\ UNCHANGED <<main, signal, webVars>>)
  /\ \A c \in Clients : WF_vars(Handle(c) /\ UNCHANGED <<main, signal, webVars>>)
  /\ WF_vars(Run) /\ WF_vars(Lifespan) /\ WF_vars(RecorderGoes)
  /\ \A h \in Requests : WF_vars(Measured(h) \/ Stored(h))
  /\ WF_vars(PollBegins) /\ WF_vars(PollSucceeds \/ PollFails)

\* ... and a meter that is polled again and again answers again and again
PollAnswered == Leave /\ served = Poller /\ ending'[Poller] = "own"
LiveSpec ==
  Spec /\ Fairness /\ SF_vars(PollAnswered /\ UNCHANGED <<main, signal, webVars>>)

-----------------------------------------------------------------------------
(* Properties *)

\* The values the variables take.
TypeOK ==
  /\ ScpiTypeOK
  /\ main \in {"starting", "serving", "stopping", "closing", "exited", "killed"}
  /\ signal \in {"none", "INT", "TERM"}
  /\ web \in {"off", "starting", "serving", "draining", "abandoned", "ended"}
  /\ lifespan \in {"off", "connecting", "up", "stopping", "closing", "down", "failed"}
  /\ recorder \in {"off", "waiting", "inserting", "cancelled", "ended"}
  /\ request \in [Requests -> {"none", "calling", "storing"}]
  /\ live \in [Viewers -> {"none", "up", "gone"}]
  /\ poll \in {"idle", "calling"}

\* "this runner owns ... the shared manager's shutdown": manager.stop is the last
\* call.  Nobody queues behind it and nobody calls after it, so no command opens
\* the port again.  The exception is a start-up that a signal interrupts: what
\* arrives at the listener left open calls whenever it likes.
StopIsLast ==
  web # "abandoned" =>
    /\ \A i \in 1 .. Len(line) : line[i] = Main => i = Len(line)
    /\ served = Main => line = <<>>
    /\ main = "exited" => served = Nobody /\ line = <<>>

\* "The web app's lifespan owns the database and recorder": whoever inserts a
\* reading finds the database open, whatever a shutdown interrupts.  The exception is
\* a request at the abandoned listener that arrives when asyncio.run is ending.
DatabaseOutlivesWriters ==
  /\ recorder \in {"off", "ended"} \/ DatabaseOpen
  /\ \A h \in Requests :
       request[h] = "storing" => DatabaseOpen \/ (web = "abandoned" /\ main = "exited")

\* "one bad command can't take the server or other clients down": whatever the
\* meter and one client do, a SCPI client that never reads its answers included,
\* everybody else's lines and requests are served.
EverybodyServed ==
  /\ LinesServed
  /\ \A h \in Requests : []<>(request[h] # "calling")

\* A signal ends the process, and the lifespan with it, whatever it interrupts: a
\* start-up, requests, a live stream, calls of SCPI clients; provided the meter
\* answers and the SCPI clients go away.
Over == main \in {"exited", "killed"} /\ lifespan \in {"off", "failed", "down"}
ShutdownEnds == (signal # "none" ~> Over) \/ []<>(\E c \in Clients : Attached(c))

=============================================================================
