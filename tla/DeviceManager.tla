--------------------------- MODULE DeviceManager ---------------------------
(***************************************************************************)
(* The DeviceManager over the SerialTransport: every asyncio task that     *)
(* wants the meter takes one asyncio.Lock, and the lock holder runs each   *)
(* blocking pyserial call in an executor thread (asyncio.to_thread).       *)
(*                                                                         *)
(* Loop actions are what the event loop runs between two awaits.  Thread   *)
(* actions are the blocking calls of one job.  Cancelling a task ends its  *)
(* await and releases the lock, but never stops a thread that has started. *)
(***************************************************************************)
EXTENDS Naturals, Sequences

CONSTANTS
  Tasks,        \* asyncio tasks that call the manager: HTTP requests, SCPI clients, the poll loop
  Cancellable,  \* the tasks something cancels (Poller._stop cancels the poll loop)
  Workers,      \* threads of the loop's executor
  Handles,      \* serial.Serial objects
  Queries,      \* commands the meter answers
  Writes,       \* commands it does not answer, as clients send them
  Unencodable,  \* commands with a non-ASCII character
  SystLoc,      \* SYST:LOC
  SystRem,      \* SYST:REM
  Rest,         \* the rest of an answer the meter has begun to send
  Ops,          \* the operations the tasks call
  Faults,       \* what the environment may do, a subset of FaultKinds
  MaxWire,      \* bound: commands the meter has received and not yet executed
  None          \* no task, no thread, no Serial, no command

FaultKinds ==
  { "io",       \* a pyserial call raises SerialException or OSError
    "silent",   \* the meter ignores a query
    "late",     \* an answer may arrive after the port was opened again
    "partial",  \* an answer may arrive in two pieces
    "close",    \* Serial.close raises OSError
    "wedge" }   \* Serial.flush never returns

ASSUME ConstantsOK ==
  /\ Cancellable \subseteq Tasks
  /\ None \notin Tasks \cup Workers \cup Handles \cup Queries
  /\ SystLoc \notin Queries \cup Unencodable
  /\ Rest \notin Queries \cup Writes \cup {SystLoc, SystRem, None}
  /\ Queries \cap Writes = {} /\ Unencodable \subseteq Queries \cup Writes
  /\ Ops \subseteq {"query", "write", "start", "stop"}
  /\ Faults \subseteq FaultKinds
  /\ MaxWire \in Nat

VARIABLES
  pc,           \* where each task is inside the manager
  call,         \* the operation it is in
  result,       \* how its last call ended
  holder,       \* owner of DeviceManager._lock
  waiters,      \* tasks queued on the lock, first come first served
  serial,       \* SerialTransport._serial
  opened,       \* the Serial objects whose is_open is true
  queued,       \* the job handed to the executor and not yet started
  awaited,      \* the thread the lock holder is awaiting
  thread,       \* the job of each thread
  wire,         \* what the meter has to do: the commands written to it and not executed yet
  input,        \* whole and cut lines in the port's input buffer
  panel         \* "remote" locks the front panel

loopVars == <<pc, call, result, holder, waiters, serial, queued, awaited>>
portVars == <<opened, wire, input>>
vars == <<loopVars, thread, portVars, panel>>

Calls == [op: {"query"} \cap Ops, cmd: Queries]
           \cup [op: {"write"} \cap Ops, cmd: Writes]
           \cup [op: {"start", "stop"} \cap Ops, cmd: {None}]

NoCall == [op |-> "none", cmd |-> None]
Commands == Queries \cup Writes \cup {SystLoc}

\* "own": the whole line the meter sent in answer to this call's command;
\* "fragment": part of it; "foreign": any other line.
Responses == {"own", "fragment", "foreign"}
Outcomes == Responses \cup {"none", "ok", "DeviceError", "TransportError",
                            "OSError", "ValueError", "cancelled"}

-----------------------------------------------------------------------------
(* Jobs for the executor *)

Job(step, cmd, reply, handle) ==
  [step |-> step, cmd |-> cmd, reply |-> reply, handle |-> handle, result |-> "none"]

Idle       == Job("idle", None, FALSE, None)
OpenJob    == Job("open", None, FALSE, None)
CloseJob   == Job("close", None, FALSE, serial)
LocalJob   == Job("reset", SystLoc, FALSE, None)
CommandJob(c) == Job("reset", c.cmd, c.op = "query", None)

-----------------------------------------------------------------------------
(* The event loop *)

Inside(t, c, at) ==
  /\ pc' = [pc EXCEPT ![t] = at]
  /\ call' = [call EXCEPT ![t] = c]
  /\ result' = [result EXCEPT ![t] = "none"]

Left(t, r) ==
  /\ pc' = [pc EXCEPT ![t] = "idle"]
  /\ call' = [call EXCEPT ![t] = NoCall]
  /\ result' = [result EXCEPT ![t] = r]

Await(t, c, job, at) ==
  /\ Inside(t, c, at)
  /\ holder' = t
  /\ queued' = job
  /\ awaited' = None

Return(t, r) ==
  /\ Left(t, r)
  /\ holder' = None
  /\ queued' = Idle
  /\ awaited' = None

\* Mutant: close leaves self._serial as it is.
CloseKeepsReference(t, c, r) ==
  IF serial = None
    THEN Return(t, r) /\ UNCHANGED serial
    ELSE Await(t, c, CloseJob, "closing") /\ UNCHANGED serial

\* Mutant: close forgets the Serial object and never closes it.
CloseForgets(t, c, r) == Return(t, r) /\ serial' = None

\* SerialTransport.close, then the end r of the call
Close(t, c, r) ==
  IF serial = None
    THEN Return(t, r) /\ UNCHANGED serial
    ELSE Await(t, c, CloseJob, "closing") /\ serial' = None

\* the body of "async with self._lock"
Enter(t, c) ==
  \/ c.op = "stop" /\ Close(t, c, "ok")
  \/ c.op # "stop" /\ serial = None /\ Await(t, c, OpenJob, "opening") /\ UNCHANGED serial
  \/ c.op = "start" /\ serial # None /\ Await(t, c, LocalJob, "greeting") /\ UNCHANGED serial
  \/ /\ c.op \in {"query", "write"} /\ serial # None
     /\ Await(t, c, CommandJob(c), "transacting") /\ UNCHANGED serial

Request(t) ==
  /\ pc[t] = "idle"
  /\ \E c \in Calls :
       \/ /\ holder = None /\ waiters = <<>>
          /\ Enter(t, c)
          /\ UNCHANGED waiters
       \/ /\ holder # None \/ waiters # <<>>
          /\ Inside(t, c, "waiting")
          /\ waiters' = Append(waiters, t)
          /\ UNCHANGED <<holder, serial, queued, awaited>>
  /\ UNCHANGED <<thread, portVars, panel>>

\* t leaves the queue of the lock
Unqueue(t) ==
  \E i \in 1 .. Len(waiters) :
    /\ waiters[i] = t
    /\ waiters' = [j \in 1 .. Len(waiters) - 1 |-> waiters[IF j < i THEN j ELSE j + 1]]

\* Mutant: the lock wakes any waiter.
AcquireAny(t) ==
  /\ holder = None /\ pc[t] = "waiting"
  /\ Unqueue(t)
  /\ Enter(t, call[t])
  /\ UNCHANGED <<thread, portVars, panel>>

Acquire(t) ==
  /\ holder = None /\ waiters # <<>> /\ Head(waiters) = t
  /\ waiters' = Tail(waiters)
  /\ Enter(t, call[t])
  /\ UNCHANGED <<thread, portVars, panel>>

\* the awaited thread of the lock holder t has ended with r
Ended(t, at, r) ==
  /\ holder = t /\ pc[t] \in at
  /\ awaited # None /\ thread[awaited].step = "done" /\ thread[awaited].result \in r
  /\ thread' = [thread EXCEPT ![awaited] = Idle]
  /\ UNCHANGED <<waiters, portVars, panel>>

\* Mutant: _connect opens the port and sends no SYST:LOC.
OpenedUngreeted(t) ==
  /\ Ended(t, {"opening"}, {"ok"})
  /\ serial' = thread[awaited].handle
  /\ IF call[t].op = "start" THEN Return(t, "ok")
                             ELSE Await(t, call[t], CommandJob(call[t]), "transacting")

Opened(t) ==
  /\ Ended(t, {"opening"}, {"ok"})
  /\ serial' = thread[awaited].handle
  /\ Await(t, call[t], LocalJob, "greeting")

Greeted(t) ==
  /\ Ended(t, {"greeting"}, {"ok"})
  /\ IF call[t].op = "start" THEN Return(t, "ok")
                             ELSE Await(t, call[t], CommandJob(call[t]), "transacting")
  /\ UNCHANGED serial

ConnectFailed(t) ==
  /\ Ended(t, {"opening", "greeting"}, {"error"})
  /\ IF call[t].op = "start" THEN Return(t, "TransportError") /\ UNCHANGED serial
                             ELSE Close(t, call[t], "DeviceError")

\* Mutant: the transport's error is returned as if it were an answer.
AnsweredUnchecked(t) ==
  /\ Ended(t, {"transacting"}, Responses \cup {"ok", "ValueError", "error"})
  /\ Return(t, thread[awaited].result)
  /\ UNCHANGED serial

Answered(t) ==
  /\ Ended(t, {"transacting"}, Responses \cup {"ok", "ValueError"})
  /\ Return(t, thread[awaited].result)
  /\ UNCHANGED serial

\* Mutant: a failed transaction keeps the connection.
TransactFailedKeepsPort(t) ==
  /\ Ended(t, {"transacting"}, {"error"})
  /\ Return(t, "DeviceError")
  /\ UNCHANGED serial

TransactFailed(t) ==
  /\ Ended(t, {"transacting"}, {"error"})
  /\ Close(t, call[t], "DeviceError")

Closed(t) ==
  /\ Ended(t, {"closing"}, {"ok", "OSError"})
  /\ Return(t, IF thread[awaited].result = "OSError" THEN "OSError"
               ELSE IF call[t].op = "stop" THEN "ok" ELSE "DeviceError")
  /\ UNCHANGED serial

Resume(t) == Opened(t) \/ Greeted(t) \/ ConnectFailed(t) \/ Answered(t)
               \/ TransactFailed(t) \/ Closed(t)

\* CancelledError at the await the task is suspended in.  A job that has not
\* started is dropped, one that has started runs on, and a Serial object that
\* only the cancelled await referred to is closed by its finalizer.
Interrupt(t) ==
  /\ \/ /\ pc[t] = "waiting"
        /\ Unqueue(t)
        /\ UNCHANGED <<holder, queued, awaited, thread, opened>>
     \/ /\ holder = t
        /\ holder' = None /\ queued' = Idle /\ awaited' = None
        /\ LET ended == awaited # None /\ thread[awaited].step = "done" IN
             /\ thread' = IF ended THEN [thread EXCEPT ![awaited] = Idle] ELSE thread
             /\ opened' = opened \ (IF ended /\ pc[t] = "opening" THEN {thread[awaited].handle}
                                    ELSE {queued.handle})
        /\ UNCHANGED waiters
  /\ Left(t, "cancelled")
  /\ UNCHANGED <<serial, wire, input, panel>>

\* Mutant: a cancelled waiter keeps its place in the queue of the lock.
CancelKeepsPlace(t) ==
  /\ t \in Cancellable /\ pc[t] = "waiting"
  /\ Left(t, "cancelled")
  /\ UNCHANGED <<waiters, holder, queued, awaited, serial, thread, portVars, panel>>

\* Poller._stop: task.cancel().  (Mutant of it: Interrupt itself, every call
\* given up by an asyncio.wait_for.)
Cancel(t) == t \in Cancellable /\ Interrupt(t)

-----------------------------------------------------------------------------
(* The executor's threads *)

\* nobody waits any more for the answers to what w wrote
Forget(w, lines) ==
  [i \in 1 .. Len(lines) |->
     IF lines[i].to = w THEN [lines[i] EXCEPT !.to = None] ELSE lines[i]]

Finish(w, r, h) ==
  thread' = [thread EXCEPT ![w] =
               IF w = awaited THEN [@ EXCEPT !.step = "done", !.result = r, !.handle = h]
                              ELSE Idle]

\* _transact_blocking reads self._serial as its first step
Port(w) == IF thread[w].step = "reset" THEN serial ELSE thread[w].handle

\* a thread at this step of a job on a Serial object that is still open
At(w, step) == thread[w].step = step /\ Port(w) \in opened

Advance(w, step) == thread' = [thread EXCEPT ![w].step = step]

\* what makes the meter send something
Answerable == Queries \cup {Rest}

\* every query the meter got has been answered or ignored
Settled == \A i \in 1 .. Len(wire) : wire[i].cmd \notin Answerable

\* what the meter still had to send never arrives
Lost(commands) ==
  [i \in 1 .. Len(commands) |->
     IF commands[i].cmd \in Answerable THEN [commands[i] EXCEPT !.cmd = None] ELSE commands[i]]

Start(w) ==
  /\ queued.step # "idle" /\ thread[w].step = "idle"
  /\ thread' = [thread EXCEPT ![w] = queued]
  /\ awaited' = w
  /\ queued' = Idle
  /\ UNCHANGED <<pc, call, result, holder, waiters, serial, portVars, panel>>

\* serial.Serial(port) opens the port and flushes its input.  An answer that
\* arrives after that is a "late" one.
OpenPort(w) ==
  /\ thread[w].step = "open"
  /\ \E h \in Handles \ (opened \cup {thread[v].handle : v \in Workers}) :
       /\ Finish(w, "ok", h)
       /\ opened' = IF w = awaited THEN opened \cup {h} ELSE opened
  /\ input' = <<>>
  /\ wire' = IF "late" \in Faults THEN wire ELSE Lost(wire)
  /\ UNCHANGED <<loopVars, panel>>

ResetInput(w) ==
  /\ At(w, "reset")
  /\ input' = <<>>
  /\ IF thread[w].cmd \in Unencodable
       THEN Finish(w, "ValueError", None)
       ELSE thread' = [thread EXCEPT ![w].step = "write", ![w].handle = serial]
  /\ UNCHANGED <<loopVars, opened, wire, panel>>

Message(w) == [cmd |-> thread[w].cmd, to |-> IF thread[w].reply THEN w ELSE None]

WriteCommand(w) ==
  /\ At(w, "write") /\ Len(wire) < MaxWire
  /\ wire' = Append(wire, Message(w))
  /\ IF thread[w].reply THEN Advance(w, "read") ELSE Finish(w, "ok", None)
  /\ UNCHANGED <<loopVars, opened, input, panel>>

Wedge(w) ==
  /\ "wedge" \in Faults /\ At(w, "write")
  /\ Advance(w, "wedged")
  /\ UNCHANGED <<loopVars, portVars, panel>>

\* readline finds the end of a line
ReadLine(w) ==
  /\ At(w, "read") /\ input # <<>> /\ Head(input).part # "begin"
  /\ Finish(w, IF Head(input).to # w THEN "foreign"
               ELSE IF Head(input).part = "all" THEN "own" ELSE "fragment", None)
  /\ input' = Forget(w, Tail(input))
  /\ wire' = Forget(w, wire)
  /\ UNCHANGED <<loopVars, opened, panel>>

\* readline times out in the middle of a line and returns what it has
ReadFragment(w) ==
  /\ At(w, "read") /\ input # <<>> /\ Head(input).part = "begin"
  /\ Finish(w, IF Head(input).to = w THEN "fragment" ELSE "foreign", None)
  /\ input' = Forget(w, Tail(input))
  /\ wire' = Forget(w, wire)
  /\ UNCHANGED <<loopVars, opened, panel>>

\* another reader of the same port takes the rest of the line
TornLine(w) ==
  /\ At(w, "read") /\ input # <<>> /\ Head(input).part = "all"
  /\ \E v \in Workers \ {w} : At(v, "read")
  /\ Finish(w, IF Head(input).to = w THEN "fragment" ELSE "foreign", None)
  /\ input' = Forget(w, [input EXCEPT ![1].part = "rest"])
  /\ wire' = Forget(w, wire)
  /\ UNCHANGED <<loopVars, opened, panel>>

\* Mutant: ser.timeout stays None, readline waits for ever.
TimeoutNever(w) == FALSE

\* Mutant: an empty read is returned as a response.
TimeoutAnswers(w) ==
  /\ At(w, "read") /\ input = <<>>
  /\ Finish(w, "fragment", None)
  /\ wire' = Forget(w, wire)
  /\ UNCHANGED <<loopVars, opened, input, panel>>

Timeout(w) ==
  /\ At(w, "read") /\ input = <<>>
  /\ Finish(w, "error", None)
  /\ wire' = Forget(w, wire)
  /\ UNCHANGED <<loopVars, opened, input, panel>>

\* a pyserial call raises, always so once the Serial object was closed
IoError(w) ==
  /\ thread[w].step \in {"open", "reset", "write", "read"}
  /\ "io" \in Faults \/ (thread[w].step # "open" /\ Port(w) \notin opened)
  /\ Finish(w, "error", None)
  /\ \/ wire' = Forget(w, wire)
     \/ /\ At(w, "write") /\ Len(wire) < MaxWire   \* flush raised, the command is out
        /\ wire' = Append(wire, [cmd |-> thread[w].cmd, to |-> None])
  /\ input' = Forget(w, input)
  /\ UNCHANGED <<loopVars, opened, panel>>

ClosePort(w) ==
  /\ thread[w].step = "close"
  /\ opened' = opened \ {thread[w].handle}
  /\ \/ Finish(w, "ok", None)
     \/ "close" \in Faults /\ Finish(w, "OSError", None)
  /\ UNCHANGED <<loopVars, wire, input, panel>>

Step(w) == Start(w) \/ OpenPort(w) \/ ResetInput(w) \/ WriteCommand(w) \/ ReadLine(w)
             \/ ReadFragment(w) \/ TornLine(w) \/ Timeout(w) \/ IoError(w) \/ ClosePort(w)

-----------------------------------------------------------------------------
(* The meter, as commands.py describes it *)

\* what is in the buffer when the rest of an answer to w has come: the line,
\* unless its beginning is no longer there
Completed(w) ==
  IF input # <<>> /\ input[Len(input)].part = "begin"
    THEN [input EXCEPT ![Len(input)].part = "all"]
    ELSE Append(input, [to |-> w, part |-> "rest"])

\* It executes what it received in order; what it sends to a closed port is lost.
Execute ==
  /\ wire # <<>>
  /\ LET m == Head(wire) IN
       /\ panel' = CASE m.cmd = SystLoc -> "local"
                     [] m.cmd = SystRem -> "remote"
                     [] OTHER -> panel
       /\ \/ /\ m.cmd \in Queries /\ opened # {}
             /\ input' = Append(input, [to |-> m.to, part |-> "all"])
             /\ wire' = Tail(wire)
          \/ /\ "partial" \in Faults /\ m.cmd \in Queries /\ opened # {}
             /\ input' = Append(input, [to |-> m.to, part |-> "begin"])
             /\ wire' = [wire EXCEPT ![1].cmd = Rest]
          \/ /\ m.cmd = Rest /\ opened # {}
             /\ input' = Completed(m.to)
             /\ wire' = Tail(wire)
          \/ /\ m.cmd \notin Answerable \/ opened = {} \/ "silent" \in Faults
             /\ wire' = Tail(wire)
             /\ UNCHANGED input
  /\ UNCHANGED <<loopVars, thread, opened>>

-----------------------------------------------------------------------------

Init ==
  /\ pc = [t \in Tasks |-> "idle"]
  /\ call = [t \in Tasks |-> NoCall]
  /\ result = [t \in Tasks |-> "none"]
  /\ holder = None /\ waiters = <<>>
  /\ serial = None /\ opened = {}
  /\ queued = Idle /\ awaited = None
  /\ thread = [w \in Workers |-> Idle]
  /\ wire = <<>> /\ input = <<>>
  /\ panel \in {"local", "remote"}

Next ==
  \/ \E t \in Tasks : Request(t) \/ Acquire(t) \/ Resume(t) \/ Cancel(t)
  \/ \E w \in Workers : Step(w) \/ Wedge(w)
  \/ Execute

Spec == Init /\ [][Next]_vars

\* What a thread does when nothing fails; on a closed Serial object every
\* call raises.
Run(w) ==
  \/ Start(w) \/ OpenPort(w) \/ ResetInput(w) \/ WriteCommand(w) \/ ReadLine(w)
  \/ ReadFragment(w) \/ Timeout(w) \/ ClosePort(w)
  \/ thread[w].step # "open" /\ Port(w) \notin opened /\ IoError(w)

\* The loop runs every task that is ready, the OS runs every thread, and the
\* meter goes on executing commands; nobody has to call, cancel, wedge or fail.
Fairness ==
  /\ \A t \in Tasks : WF_vars(Acquire(t) \/ Resume(t))
  /\ \A w \in Workers : WF_vars(Run(w))
  /\ WF_vars(Execute)

FairSpec == Spec /\ Fairness

-----------------------------------------------------------------------------
(* Properties *)

Jobs == [step : {"idle", "open", "close", "reset", "write", "wedged", "read", "done"},
         cmd : Commands \cup {None}, reply : BOOLEAN, handle : Handles \cup {None},
         result : Responses \cup {"none", "ok", "error", "ValueError", "OSError"}]

Places == {"idle", "waiting", "opening", "greeting", "transacting", "closing"}

TasksOK ==
  /\ pc \in [Tasks -> Places]
  /\ call \in [Tasks -> Calls \cup {NoCall}]
  /\ result \in [Tasks -> Outcomes]
  /\ holder \in Tasks \cup {None}
  /\ queued \in Jobs
  /\ awaited \in Workers \cup {None}

Messages == [cmd : Commands \cup {Rest, None}, to : Workers \cup {None}]
Lines    == [to : Workers \cup {None}, part : {"all", "begin", "rest"}]

PortOK ==
  /\ opened \subseteq Handles
  /\ wire \in Seq(Messages)
  /\ input \in Seq(Lines)

\* The values the variables take.
TypeOK ==
  /\ TasksOK
  /\ waiters \in Seq(Tasks)
  /\ serial \in Handles \cup {None}
  /\ thread \in [Workers -> Jobs]
  /\ PortOK
  /\ panel \in {"local", "remote"}

\* transport.py: "a single underlying serial.Serial is only ever touched by
\* one thread at a time".
Busy(w) == thread[w].step \in {"reset", "write", "wedged", "read", "close"}
OneThreadPerPort ==
  \A v, w \in Workers :
    Busy(v) /\ Busy(w) /\ Port(v) = Port(w) /\ Port(v) # None => v = w

\* manager.py: "each command is a single-flight transaction - no interleaved
\* responses on the shared serial line": no call returns a line the meter
\* sent in answer to another call.
NoInterleavedResponses == \A t \in Tasks : result[t] # "foreign"

\* transport.py: "read one response line": what a query returns is the whole
\* line the meter sent.
CompleteLines == \A t \in Tasks : result[t] # "fragment"

\* A task that waits for the lock has one place in its queue, and only such
\* tasks have one: no cancelled or served task holds up the others, no waiting
\* one is forgotten.
WaitersInLine ==
  /\ \A i, j \in 1 .. Len(waiters) : waiters[i] = waiters[j] => i = j
  /\ \A t \in Tasks : pc[t] = "waiting" <=> \E i \in 1 .. Len(waiters) : waiters[i] = t

\* Every open serial.Serial is the manager's current one or in the hands of
\* a thread: no cancelled, failed or stopped connection stays open unseen,
\* which would keep the port busy for the next open.
NoLeakedPort ==
  opened \subseteq {serial, queued.handle} \cup {thread[w].handle : w \in Workers}

\* "Drop the connection so the next call reconnects from scratch": a call
\* that ends with DeviceError leaves no connection behind, and neither does a
\* stop that was not cancelled.
FailureDropsConnection ==
  [][\A t \in Tasks :
       /\ pc[t] # "idle" /\ pc'[t] = "idle" /\ result'[t] # "cancelled"
       /\ result'[t] = "DeviceError" \/ call[t].op = "stop"
       => serial' = None]_vars

\* The front panel is never locked out: when a query has been answered, the
\* meter is in LOCAL mode, however often the connection was lost before.
FrontPanelFreed ==
  [][\A t \in Tasks : pc[t] = "transacting" /\ pc'[t] = "idle" /\ result'[t] = "own"
       => panel = "local"]_vars

\* Every call returns: per-command timeouts and the first-come lock let no
\* task wait for ever, whatever fails and whoever is cancelled, as long as the
\* call being served, or every thread of the executor, is not in a flush that
\* never returns.
Stuck(w) == thread[w].step = "wedged"
EveryCallReturns ==
  \A t \in Tasks :
    pc[t] # "idle" ~> \/ pc[t] = "idle"
                      \/ awaited # None /\ Stuck(awaited)
                      \/ \A w \in Workers : Stuck(w)

\* What the module SingleFlight promises: first come first served, one at a
\* time, and every call ends with its own answer, whole, or an error.
Service == INSTANCE SingleFlight
  WITH Endings <- Outcomes \ {"none", "foreign", "fragment", "cancelled"}, Nobody <- None,
       served <- holder, line <- waiters, ending <- result
ServedInTurn == Service!FairSpec

-----------------------------------------------------------------------------
(* The inductive invariant behind OneThreadPerPort and NoInterleavedResponses *)
(* when nothing is cancelled, no answer is late and none comes in two pieces   *)

HasLock == {"opening", "greeting", "transacting", "closing"}

\* The lock: one task inside, waiting for one job.
LockInv ==
  /\ \A t \in Tasks : pc[t] \in HasLock <=> holder = t
  /\ holder = None => queued = Idle /\ awaited = None
  /\ queued.step # "idle" => awaited = None

\* A task that connects or closes has no connection, and stop only closes.
PlaceInv ==
  \A t \in Tasks :
    /\ pc[t] \in {"opening", "closing"} => serial = None
    /\ pc[t] \in {"opening", "greeting", "transacting"} => call[t].op # "stop"

\* Nobody but the lock holder's thread has a job.
NoOrphans == \A w \in Workers : thread[w].step # "idle" => w = awaited

\* A job of the lock holder at pc `at`.
JobAt(at, j) ==
  /\ j.step = "open" => at = "opening"
  /\ j.step = "close" => at = "closing"
  /\ j.step \in {"reset", "write", "wedged", "read"} =>
       /\ at \in {"greeting", "transacting"}
       /\ at = "greeting" => j.cmd = SystLoc
       /\ j.reply <=> j.cmd \in Queries
  /\ j.step \in {"write", "wedged", "read"} => j.handle = serial
  /\ j.step = "read" => j.reply
  /\ j.step = "done" /\ at = "opening" /\ j.result = "ok" => j.handle # None

JobInv ==
  /\ queued.step \in {"idle", "open", "close", "reset"} /\ queued.result = "none"
  /\ \A t \in Tasks : pc[t] # "idle" => call[t] \in Calls
  /\ \A t \in Tasks : pc[t] \in HasLock =>
       /\ pc[t] \in {"greeting", "transacting"} => serial # None
       /\ JobAt(pc[t], queued)
       /\ \A w \in Workers : JobAt(pc[t], thread[w])

\* The reading thread, when there is one.
Reading(w) == thread[w].step = "read"

\* A connection is usable: no transaction on it has failed.
Usable ==
  /\ serial # None
  /\ \A t \in Tasks, w \in Workers :
       pc[t] = "transacting" /\ thread[w].step = "done" => thread[w].result # "error"

IsQuery(i) == wire[i].cmd \in Answerable

\* On a usable connection the meter owes at most the answer the reading
\* thread waits for, and the buffer holds no other line when it is read.
Owed ==
  /\ Usable => \A i \in 1 .. Len(wire) : IsQuery(i) =>
       /\ \E w \in Workers : Reading(w) /\ wire[i].to = w
       /\ \A j \in 1 .. Len(wire) : IsQuery(j) => i = j
  /\ \A w \in Workers :
       /\ thread[w].step = "write" => input = <<>>
       /\ Reading(w) => \A i \in 1 .. Len(input) : input[i].to = w
       /\ Reading(w) /\ input # <<>> => Settled
  /\ \A t \in Tasks, w \in Workers :
       pc[t] = "opening" /\ thread[w].step = "done" /\ thread[w].result = "ok" => Settled

NoForeignLine == \A w \in Workers : thread[w].result # "foreign"

\* Inductive when nothing is cancelled and every answer is in time and whole.
IInv ==
  /\ LockInv /\ PlaceInv /\ NoOrphans /\ JobInv
  /\ Owed /\ NoForeignLine /\ NoInterleavedResponses

=============================================================================
