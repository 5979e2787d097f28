------------------------------ MODULE PortProofs ------------------------------
(***************************************************************************)
(* NoLeakedPort for any tasks, threads, Serial objects and commands, with  *)
(* cancellation and all faults.                                            *)
(*                                                                         *)
(* The threads that use a port do not count: a Serial object that is still *)
(* open is the manager's, is about to be closed, is being closed by a      *)
(* thread, or has been opened for the task that waits for it.  What a      *)
(* cancelled task leaves behind is one of these or was never handed over.  *)
(***************************************************************************)
EXTENDS DeviceManagerProofs

\* the lock holder waits for its port to be opened
Opening == holder # None /\ pc[holder] = "opening"

Held(h) ==
  \/ h = serial
  \/ queued.step = "close" /\ h = queued.handle
  \/ \E v \in Workers : thread[v].step \in {"close", "done"} /\ h = thread[v].handle

JobsInv ==
  /\ \A v \in Workers : thread[v].step = "done" =>
       v = awaited /\ (thread[v].handle # None => thread[v].result = "ok" /\ Opening)
  /\ \A v \in Workers : thread[v].step = "open" /\ v = awaited => Opening
  /\ queued.step = "open" => Opening
  /\ queued.step # "close" => queued.handle = None

PortInv == JobsInv /\ \A h \in opened : Held(h)

Base == TypeOK /\ LockInv /\ PlaceInv

\* Nothing is open.
LEMMA InitPort == Init => PortInv
  BY DEF Init, PortInv, JobsInv, Idle, Job

\* Whatever is held is the manager's or some thread's.
LEMMA PortImplies == PortInv => NoLeakedPort
  BY DEF PortInv, Held, NoLeakedPort

-----------------------------------------------------------------------------
(* The event loop: its steps leave no thread done, except an await that     *)
(* has not ended                                                            *)

\* What a step of the lock holder does with the connection: it keeps it or
\* has it closed.
Handled ==
  \/ serial' = serial
  \/ serial # None /\ serial' = None /\ queued'.step = "close" /\ queued'.handle = serial

\* A job that is handed over fits the place the task waits in.
LEMMA AwaitPort ==
  ASSUME Base, NEW t \in Tasks, NEW c, NEW job, NEW at, Await(t, c, job, at),
         job.step = "open" => at = "opening", job.step # "close" => job.handle = None,
         \A v \in Workers : thread'[v].step # "done"
  PROVE  JobsInv'
<1>1. holder' = t /\ pc'[t] = at /\ queued' = job /\ awaited' = None /\ t # None
  BY ConstantsOK DEF Await, Inside, Base, TypeOK, TasksOK
<1>2. \A v \in Workers : v # awaited'
  BY <1>1, ConstantsOK
<1> QED BY <1>1, <1>2 DEF JobsInv, Opening

\* A task that leaves takes its job with it.
LEMMA ReturnPort ==
  ASSUME NEW t \in Tasks, NEW r, Return(t, r), \A v \in Workers : thread'[v].step # "done"
  PROVE  JobsInv' /\ queued' = Idle
<1>1. queued' = Idle /\ awaited' = None
  BY DEF Return
<1>2. \A v \in Workers : v # awaited'
  BY <1>1, ConstantsOK
<1> QED BY <1>1, <1>2 DEF JobsInv, Idle, Job

LEMMA ClosePorts ==
  ASSUME Base, NEW t \in Tasks, NEW c, NEW r, Close(t, c, r),
         \A v \in Workers : thread'[v].step # "done"
  PROVE  JobsInv' /\ Handled
<1>1. CASE serial = None
  BY <1>1, ReturnPort DEF Close, Handled
<1>2. CASE serial # None
  <2>1. Await(t, c, CloseJob, "closing") /\ serial' = None
    BY <1>2 DEF Close
  <2>2. CloseJob.step = "close" /\ CloseJob.handle = serial
    BY DEF CloseJob, Job
  <2>3. queued' = CloseJob
    BY <2>1 DEF Await
  <2> QED BY <1>2, <2>1, <2>2, <2>3, AwaitPort DEF Handled
<1> QED BY <1>1, <1>2

LEMMA EnterPort ==
  ASSUME Base, NEW t \in Tasks, NEW c, Enter(t, c),
         \A v \in Workers : thread'[v].step # "done"
  PROVE  JobsInv' /\ Handled
<1>1. /\ OpenJob.step = "open" /\ OpenJob.handle = None
      /\ LocalJob.step = "reset" /\ LocalJob.handle = None
      /\ CommandJob(c).step = "reset" /\ CommandJob(c).handle = None
  BY DEF OpenJob, LocalJob, CommandJob, Job
<1>2. \/ Close(t, c, "ok")
      \/ Await(t, c, OpenJob, "opening") /\ serial' = serial
      \/ Await(t, c, LocalJob, "greeting") /\ serial' = serial
      \/ Await(t, c, CommandJob(c), "transacting") /\ serial' = serial
  BY DEF Enter
<1> HIDE DEF Handled
<1>3. CASE Close(t, c, "ok")
  BY <1>3, ClosePorts
<1>4. CASE Await(t, c, OpenJob, "opening") /\ serial' = serial
  BY <1>1, <1>4, AwaitPort DEF Handled
<1>5. CASE Await(t, c, LocalJob, "greeting") /\ serial' = serial
  BY <1>1, <1>5, AwaitPort DEF Handled
<1>6. CASE Await(t, c, CommandJob(c), "transacting") /\ serial' = serial
  BY <1>1, <1>6, AwaitPort DEF Handled
<1> QED BY <1>2, <1>3, <1>4, <1>5, <1>6

\* No thread is done when no task holds the lock.
LEMMA NoneDone ==
  ASSUME Base, PortInv, holder = None
  PROVE  /\ \A v \in Workers : thread[v].step # "done"
         /\ queued.step # "close"
<1>1. queued = Idle /\ awaited = None
  BY DEF Base, LockInv
<1>2. \A v \in Workers : v # awaited
  BY <1>1, ConstantsOK
<1> QED BY <1>1, <1>2 DEF PortInv, JobsInv, Idle, Job

\* A task enters the manager, at once or from the queue.
LEMMA EntersPort ==
  ASSUME Base, PortInv, NEW t \in Tasks, NEW c, holder = None, Enter(t, c),
         thread' = thread, opened' = opened
  PROVE  PortInv'
<1>1. JobsInv' /\ Handled
  BY NoneDone, EnterPort
<1>2. ASSUME NEW h \in opened PROVE Held(h)'
  BY <1>1, NoneDone DEF PortInv, Held, Handled
<1> QED BY <1>1, <1>2 DEF PortInv

\* A thread that has ended and whose Serial object is nobody's business.
LEMMA EndedPort ==
  ASSUME Base, PortInv, NEW t \in Tasks, NEW at, NEW r, Ended(t, at, r)
  PROVE  /\ \A v \in Workers : thread'[v].step # "done"
         /\ \A v \in Workers \ {awaited} : thread'[v] = thread[v]
         /\ opened' = opened /\ queued.step # "close" /\ holder = t
         /\ awaited \in Workers /\ thread[awaited].step = "done"
         /\ thread[awaited].handle # None => thread[awaited].result = "ok" /\ pc[t] = "opening"
<1>1. /\ holder = t /\ awaited # None /\ thread[awaited].step = "done"
      /\ thread' = [thread EXCEPT ![awaited] = Idle] /\ opened' = opened
  BY DEF Ended, portVars
<1>2. awaited \in Workers /\ thread \in [Workers -> Jobs]
  BY <1>1 DEF Base, TypeOK, TasksOK
<1>3. \A v \in Workers : thread[v].step = "done" => v = awaited
  BY DEF PortInv, JobsInv
<1>4. Idle.step = "idle"
  BY DEF Idle, Job
<1>5. queued.step = "idle"
  <2>1. queued.step # "idle" => awaited = None
    BY DEF Base, LockInv
  <2> QED BY <1>1, <2>1
<1>6. thread[awaited].handle # None => thread[awaited].result = "ok" /\ pc[t] = "opening"
  BY <1>1, <1>2 DEF PortInv, JobsInv, Opening
<1> QED BY <1>1, <1>2, <1>3, <1>4, <1>5, <1>6

\* The holder goes on after an end that opened no port.
LEMMA GoesOnPort ==
  ASSUME Base, PortInv, NEW t \in Tasks, NEW at, NEW r, Ended(t, at, r),
         "ok" \notin r \/ "opening" \notin at, JobsInv', Handled
  PROVE  PortInv'
<1>1. thread[awaited].handle = None
  <2>1. thread[awaited].result \in r /\ pc[t] \in at
    BY DEF Ended
  <2> QED BY <2>1, EndedPort
<1>2. ASSUME NEW h \in opened PROVE Held(h)'
  <2>1. h # None
    BY <1>2, ConstantsOK DEF Base, TypeOK, PortOK
  <2>2. CASE h = serial
    BY <2>2 DEF Held, Handled
  <2>3. CASE \E v \in Workers : thread[v].step \in {"close", "done"} /\ h = thread[v].handle
    <3>1. PICK v \in Workers : thread[v].step \in {"close", "done"} /\ h = thread[v].handle
      BY <2>3
    <3>2. v # awaited
      BY <1>1, <2>1, <3>1
    <3> QED BY <3>1, <3>2, EndedPort DEF Held
  <2> QED BY <1>2, <2>2, <2>3, EndedPort DEF PortInv, Held
<1> QED BY <1>2, EndedPort DEF PortInv

\* The holder's thread has ended.
LEMMA ResumePort ==
  ASSUME Base, PortInv, NEW t \in Tasks, Resume(t)
  PROVE  PortInv'
<1>0. /\ LocalJob.step = "reset" /\ LocalJob.handle = None
      /\ \A c : CommandJob(c).step = "reset" /\ CommandJob(c).handle = None
  BY DEF LocalJob, CommandJob, Job
<1>1. CASE Opened(t)
  <2>1. /\ Ended(t, {"opening"}, {"ok"}) /\ serial' = thread[awaited].handle
        /\ Await(t, call[t], LocalJob, "greeting")
    BY <1>1 DEF Opened
  <2>2. JobsInv'
    BY <1>0, <2>1, EndedPort, AwaitPort
  <2>3. serial = None
    BY <2>1 DEF Base, PlaceInv, Ended
  <2>4. ASSUME NEW h \in opened PROVE Held(h)'
    <3>1. h # None
      BY <2>4, ConstantsOK DEF Base, TypeOK, PortOK
    <3>2. PICK v \in Workers : thread[v].step \in {"close", "done"} /\ h = thread[v].handle
      BY <2>1, <2>3, <2>4, <3>1, EndedPort DEF PortInv, Held
    <3>3. CASE v = awaited
      BY <2>1, <3>2, <3>3 DEF Held
    <3>4. CASE v # awaited
      BY <2>1, <3>2, <3>4, EndedPort DEF Held
    <3> QED BY <3>3, <3>4
  <2> QED BY <2>1, <2>2, <2>4, EndedPort DEF PortInv
<1>2. CASE Greeted(t)
  <2>1. /\ Ended(t, {"greeting"}, {"ok"}) /\ serial' = serial
        /\ Return(t, "ok") \/ Await(t, call[t], CommandJob(call[t]), "transacting")
    BY <1>2 DEF Greeted
  <2>2. \A v \in Workers : thread'[v].step # "done"
    BY <2>1, EndedPort
  <2>3. JobsInv' /\ Handled
    BY <1>0, <2>1, <2>2, AwaitPort, ReturnPort DEF Handled
  <2> QED BY <2>1, <2>3, GoesOnPort
<1>3. CASE ConnectFailed(t)
  <2>1. /\ Ended(t, {"opening", "greeting"}, {"error"})
        /\ (Return(t, "TransportError") /\ serial' = serial) \/ Close(t, call[t], "DeviceError")
    BY <1>3 DEF ConnectFailed
  <2>2. \A v \in Workers : thread'[v].step # "done"
    BY <2>1, EndedPort
  <2>3. JobsInv' /\ Handled
    BY <2>1, <2>2, ClosePorts, ReturnPort DEF Handled
  <2> QED BY <2>1, <2>3, GoesOnPort
<1>4. CASE Answered(t)
  <2>1. /\ Ended(t, {"transacting"}, Responses \cup {"ok", "ValueError"})
        /\ Return(t, thread[awaited].result) /\ serial' = serial
    BY <1>4 DEF Answered
  <2>2. JobsInv' /\ Handled
    BY <2>1, EndedPort, ReturnPort DEF Handled
  <2> QED BY <2>1, <2>2, GoesOnPort
<1>5. CASE TransactFailed(t)
  <2>1. Ended(t, {"transacting"}, {"error"}) /\ Close(t, call[t], "DeviceError")
    BY <1>5 DEF TransactFailed
  <2>2. JobsInv' /\ Handled
    BY <2>1, EndedPort, ClosePorts
  <2> QED BY <2>1, <2>2, GoesOnPort
<1>6. CASE Closed(t)
  <2>1. /\ Ended(t, {"closing"}, {"ok", "OSError"}) /\ serial' = serial
        /\ \E r : Return(t, r)
    BY <1>6 DEF Closed
  <2>2. JobsInv' /\ Handled
    BY <2>1, EndedPort, ReturnPort DEF Handled
  <2> QED BY <2>1, <2>2, GoesOnPort
<1> QED BY <1>1, <1>2, <1>3, <1>4, <1>5, <1>6 DEF Resume

\* A task that is not the holder changes its place.
LEMMA OutsidePort ==
  ASSUME PortInv, NEW t \in Tasks, holder # t,
         pc' = [pc EXCEPT ![t] = pc'[t]], holder \in Tasks \cup {None}, pc \in [Tasks -> Places],
         UNCHANGED <<holder, queued, awaited, serial, thread, opened>>
  PROVE  PortInv'
<1>1. Opening => Opening'
  BY DEF Opening
<1>2. JobsInv'
  BY <1>1 DEF PortInv, JobsInv
<1>3. \A h \in opened : Held(h)'
  BY DEF PortInv, Held
<1> QED BY <1>2, <1>3 DEF PortInv

\* A cancelled task: the job it gave is dropped with its Serial object, or
\* runs on in its thread, or has opened a port that nobody has seen.
LEMMA CancelPort ==
  ASSUME Base, PortInv, NEW t \in Tasks, Cancel(t)
  PROVE  PortInv'
<1>1. Interrupt(t) /\ Left(t, "cancelled") /\ serial' = serial
  BY DEF Cancel, Interrupt
<1>2. CASE pc[t] = "waiting" /\ UNCHANGED <<holder, queued, awaited, thread, opened>>
  <2>1. holder # t
    BY <1>2 DEF Base, LockInv, HasLock
  <2>2. pc' = [pc EXCEPT ![t] = pc'[t]] /\ pc \in [Tasks -> Places] /\ holder \in Tasks \cup {None}
    BY <1>1 DEF Left, Base, TypeOK, TasksOK
  <2> QED BY <1>1, <1>2, <2>1, <2>2, OutsidePort
<1>3. CASE /\ holder = t /\ holder' = None /\ queued' = Idle /\ awaited' = None
           /\ LET ended == awaited # None /\ thread[awaited].step = "done" IN
                /\ thread' = IF ended THEN [thread EXCEPT ![awaited] = Idle] ELSE thread
                /\ opened' = opened \ (IF ended /\ pc[t] = "opening" THEN {thread[awaited].handle}
                                       ELSE {queued.handle})
  <2> DEFINE ended == awaited # None /\ thread[awaited].step = "done"
  <2>1. Idle.step = "idle" /\ Idle.handle = None
    BY DEF Idle, Job
  <2>2. \A v \in Workers : v # awaited'
    BY <1>3, ConstantsOK
  <2>3. \A v \in Workers : thread[v].step = "done" => v = awaited /\ ended
    BY ConstantsOK DEF PortInv, JobsInv
  <2>4. \A v \in Workers : thread'[v].step # "done" /\ (thread'[v] = thread[v] \/ (ended /\ v = awaited))
    <3>1. CASE ended
      <4>1. thread' = [thread EXCEPT ![awaited] = Idle] /\ thread \in [Workers -> Jobs]
        BY <1>3, <3>1 DEF Base, TypeOK
      <4> QED BY <2>1, <2>3, <3>1, <4>1
    <3>2. CASE ~ended
      <4>1. thread' = thread
        BY <1>3, <3>2
      <4> QED BY <2>3, <3>2, <4>1
    <3> QED BY <3>1, <3>2
  <2>5. JobsInv'
    BY <1>3, <2>1, <2>2, <2>4 DEF JobsInv
  <2>6. ASSUME NEW h \in opened' PROVE Held(h)'
    <3>1. h \in opened /\ h # None
      BY <1>3, <2>6, ConstantsOK DEF Base, TypeOK, PortOK
    <3>2. ended => queued.step = "idle" /\ awaited \in Workers
      BY DEF Base, LockInv, TypeOK, TasksOK
    <3>3. CASE h = serial
      BY <1>1, <3>3 DEF Held
    <3>4. CASE queued.step = "close" /\ h = queued.handle
      <4>1. ~ended
        BY <3>2, <3>4
      <4>2. h \notin opened'
        BY <1>3, <3>4, <4>1
      <4> QED BY <2>6, <4>2
    <3>5. CASE \E v \in Workers : thread[v].step \in {"close", "done"} /\ h = thread[v].handle
      <4>1. PICK v \in Workers : thread[v].step \in {"close", "done"} /\ h = thread[v].handle
        BY <3>5
      <4>2. CASE ended /\ v = awaited
        <5>1. Opening
          BY <3>1, <4>1, <4>2 DEF PortInv, JobsInv
        <5>2. pc[t] = "opening"
          BY <1>3, <5>1 DEF Opening
        <5>3. h \notin opened'
          BY <1>3, <4>1, <4>2, <5>2
        <5> QED BY <2>6, <5>3
      <4>3. CASE ~(ended /\ v = awaited)
        <5>1. thread'[v] = thread[v]
          BY <2>4, <4>3
        <5> QED BY <4>1, <5>1 DEF Held
      <4> QED BY <4>2, <4>3
    <3> QED BY <3>1, <3>3, <3>4, <3>5 DEF PortInv, Held
  <2> QED BY <2>5, <2>6 DEF PortInv
<1> QED BY <1>1, <1>2, <1>3 DEF Interrupt

-----------------------------------------------------------------------------
(* The threads *)

\* A thread takes the next step of its job, and no port was opened or is
\* forgotten.
LEMMA WorkPort ==
  ASSUME Base, PortInv, NEW w \in Workers, NEW j, thread' = [thread EXCEPT ![w] = j],
         UNCHANGED loopVars, NEW gone, opened' = opened \ gone,
         thread[w].step \in {"close", "done"} => thread[w].handle \in gone \cup {None},
         j.step # "open", j.step = "done" => w = awaited /\ j.handle = None
  PROVE  PortInv'
<1>1. /\ thread'[w] = j /\ \A v \in Workers \ {w} : thread'[v] = thread[v]
      /\ holder' = holder /\ pc' = pc /\ queued' = queued /\ awaited' = awaited /\ serial' = serial
  BY DEF Base, TypeOK, loopVars
<1>2. JobsInv'
  BY <1>1 DEF PortInv, JobsInv, Opening
<1>3. ASSUME NEW h \in opened' PROVE Held(h)'
  <2>1. h \in opened /\ h \notin gone /\ h # None
    BY <1>3, ConstantsOK DEF Base, TypeOK, PortOK
  <2>2. CASE \E v \in Workers : thread[v].step \in {"close", "done"} /\ h = thread[v].handle
    <3>1. PICK v \in Workers : thread[v].step \in {"close", "done"} /\ h = thread[v].handle
      BY <2>2
    <3>2. v # w
      BY <2>1, <3>1
    <3> QED BY <1>1, <3>1, <3>2 DEF Held
  <2> QED BY <1>1, <2>1, <2>2 DEF PortInv, Held
<1> QED BY <1>2, <1>3 DEF PortInv

\* A thread ends its job and has opened nothing.
LEMMA FinishPort ==
  ASSUME Base, PortInv, NEW w \in Workers, NEW r, Finish(w, r, None), UNCHANGED loopVars,
         NEW gone, opened' = opened \ gone,
         thread[w].step \in {"close", "done"} => thread[w].handle \in gone \cup {None}
  PROVE  PortInv'
<1> DEFINE over == [thread[w] EXCEPT !.step = "done", !.result = r, !.handle = None]
           j    == IF w = awaited THEN over ELSE Idle
<1>1. thread[w] \in Jobs
  BY DEF Base, TypeOK
<1>2. over.step = "done" /\ over.handle = None /\ Idle.step = "idle"
  BY <1>1 DEF Idle, Job, Jobs
<1>3. thread' = [thread EXCEPT ![w] = j]
  BY DEF Finish
<1> HIDE DEF over
<1>4. j.step # "open" /\ (j.step = "done" => w = awaited /\ j.handle = None)
  BY <1>2
<1> HIDE DEF j
<1> QED BY <1>3, <1>4, WorkPort

\* The steps of the threads.
LEMMA ThreadPort ==
  ASSUME Base, PortInv, NEW w \in Workers, Step(w) \/ Wedge(w)
  PROVE  PortInv'
<1>0. thread[w] \in Jobs /\ opened = opened \ {}
  BY DEF Base, TypeOK
<1>1. CASE Start(w)
  <2>1. /\ queued.step # "idle" /\ thread[w].step = "idle" /\ awaited = None
        /\ thread' = [thread EXCEPT ![w] = queued] /\ awaited' = w /\ queued' = Idle
        /\ holder' = holder /\ pc' = pc /\ serial' = serial /\ opened' = opened
    BY <1>1 DEF Start, Base, LockInv, portVars
  <2>2. /\ thread'[w] = queued /\ \A v \in Workers \ {w} : thread'[v] = thread[v]
        /\ Idle.step = "idle" /\ Idle.handle = None
    BY <2>1 DEF Base, TypeOK, Idle, Job
  <2>3. \A v \in Workers : thread[v].step # "done"
    BY <2>1, ConstantsOK DEF PortInv, JobsInv
  <2>4. JobsInv'
    BY <2>1, <2>2, <2>3 DEF PortInv, JobsInv, Opening
  <2>5. ASSUME NEW h \in opened PROVE Held(h)'
    BY <2>1, <2>2 DEF PortInv, Held
  <2> QED BY <2>1, <2>4, <2>5 DEF PortInv
<1>2. CASE OpenPort(w)
  <2>1. PICK g \in Handles :
          /\ Finish(w, "ok", g) /\ thread[w].step = "open" /\ UNCHANGED loopVars
          /\ opened' = IF w = awaited THEN opened \cup {g} ELSE opened
    BY <1>2 DEF OpenPort
  <2>2. CASE w # awaited
    <3>1. thread' = [thread EXCEPT ![w] = Idle] /\ Idle.step = "idle"
      BY <2>1, <2>2 DEF Finish, Idle, Job
    <3> QED BY <1>0, <2>1, <2>2, <3>1, WorkPort
  <2>3. CASE w = awaited
    <3> DEFINE j == [thread[w] EXCEPT !.step = "done", !.result = "ok", !.handle = g]
    <3>1. j.step = "done" /\ j.result = "ok" /\ j.handle = g
      BY <1>0 DEF Jobs
    <3>2. /\ thread' = [thread EXCEPT ![w] = j]
          /\ opened' = opened \cup {g}
      BY <2>1, <2>3 DEF Finish
    <3>3. Opening
      BY <2>1, <2>3 DEF PortInv, JobsInv
    <3> HIDE DEF j
    <3>4. /\ thread'[w] = j /\ \A v \in Workers \ {w} : thread'[v] = thread[v]
          /\ holder' = holder /\ pc' = pc /\ queued' = queued /\ awaited' = awaited
          /\ serial' = serial
      BY <2>1, <3>2 DEF Base, TypeOK, loopVars
    <3>5. JobsInv'
      BY <2>3, <3>1, <3>3, <3>4 DEF PortInv, JobsInv, Opening
    <3>6. ASSUME NEW h \in opened' PROVE Held(h)'
      <4>1. CASE h = g
        BY <3>1, <3>4, <4>1 DEF Held
      <4>2. CASE h \in opened
        BY <2>1, <3>4, <4>2 DEF PortInv, Held
      <4> QED BY <3>2, <3>6, <4>1, <4>2
    <3> QED BY <3>5, <3>6 DEF PortInv
  <2> QED BY <2>2, <2>3
<1>3. CASE ResetInput(w)
  <2>1. /\ thread[w].step = "reset" /\ UNCHANGED loopVars /\ opened' = opened \ {}
        /\ \/ Finish(w, "ValueError", None)
           \/ thread' = [thread EXCEPT ![w].step = "write", ![w].handle = serial]
    BY <1>0, <1>3 DEF ResetInput, At
  <2>2. CASE thread' = [thread EXCEPT ![w].step = "write", ![w].handle = serial]
    <3> DEFINE j == [thread[w] EXCEPT !.step = "write", !.handle = serial]
    <3>1. thread' = [thread EXCEPT ![w] = j] /\ j.step = "write"
      BY <1>0, <2>2 DEF Base, TypeOK, Jobs
    <3> HIDE DEF j
    <3> QED BY <2>1, <3>1, WorkPort
  <2> QED BY <2>1, <2>2, FinishPort
<1>4. ASSUME NEW step \in {"read", "wedged"}, Advance(w, step), UNCHANGED loopVars,
             opened' = opened, thread[w].step = "write"
      PROVE  PortInv'
  <2> DEFINE j == [thread[w] EXCEPT !.step = step]
  <2>1. thread' = [thread EXCEPT ![w] = j] /\ j.step = step
    BY <1>0, <1>4 DEF Advance, Jobs
  <2> HIDE DEF j
  <2> QED BY <1>0, <1>4, <2>1, WorkPort
<1>5. CASE WriteCommand(w)
  <2>1. /\ thread[w].step = "write" /\ UNCHANGED loopVars /\ opened' = opened
        /\ Advance(w, "read") \/ Finish(w, "ok", None)
    BY <1>5 DEF WriteCommand, At
  <2> QED BY <1>0, <1>4, <2>1, FinishPort
<1>6. CASE Wedge(w)
  BY <1>4, <1>6 DEF Wedge, At, portVars
<1>7. CASE ReadLine(w) \/ ReadFragment(w) \/ TornLine(w) \/ Timeout(w) \/ IoError(w)
  <2>1. /\ thread[w].step \in {"open", "reset", "write", "read"} /\ UNCHANGED loopVars
        /\ opened' = opened /\ \E r : Finish(w, r, None)
    BY <1>7 DEF ReadLine, ReadFragment, TornLine, Timeout, IoError, At
  <2> QED BY <1>0, <2>1, FinishPort
<1>8. CASE ClosePort(w)
  <2>1. /\ UNCHANGED loopVars /\ opened' = opened \ {thread[w].handle}
        /\ \E r : Finish(w, r, None)
    BY <1>8 DEF ClosePort
  <2> QED BY <2>1, FinishPort
<1> QED BY <1>1, <1>2, <1>3, <1>5, <1>6, <1>7, <1>8 DEF Step

\* Every step preserves the invariant.
LEMMA NextPort == Base /\ PortInv /\ [Next]_vars => PortInv'
<1> SUFFICES ASSUME Base, PortInv, [Next]_vars PROVE PortInv'
  OBVIOUS
<1>1. ASSUME NEW t \in Tasks, Request(t) PROVE PortInv'
  <2>1. thread' = thread /\ opened' = opened /\ pc[t] = "idle"
    BY <1>1 DEF Request, portVars
  <2>2. PICK c : \/ holder = None /\ Enter(t, c)
                 \/ Inside(t, c, "waiting") /\ UNCHANGED <<holder, serial, queued, awaited>>
    BY <1>1 DEF Request
  <2>3. CASE Inside(t, c, "waiting") /\ UNCHANGED <<holder, serial, queued, awaited>>
    <3>1. holder # t /\ holder \in Tasks \cup {None} /\ pc \in [Tasks -> Places]
      BY <2>1 DEF Base, LockInv, HasLock, TypeOK, TasksOK
    <3>2. pc' = [pc EXCEPT ![t] = pc'[t]]
      BY <2>3, <3>1 DEF Inside
    <3> QED BY <2>1, <2>3, <3>1, <3>2, OutsidePort
  <2> QED BY <2>1, <2>2, <2>3, EntersPort
<1>2. ASSUME NEW t \in Tasks, Acquire(t) PROVE PortInv'
  BY <1>2, EntersPort DEF Acquire, portVars
<1>3. ASSUME NEW t \in Tasks, Resume(t) \/ Cancel(t) PROVE PortInv'
  BY <1>3, ResumePort, CancelPort
<1>4. ASSUME NEW w \in Workers, Step(w) \/ Wedge(w) PROVE PortInv'
  BY <1>4, ThreadPort
<1>5. CASE Execute \/ UNCHANGED vars
  <2>1. UNCHANGED <<pc, holder, queued, awaited, serial, thread, opened>>
    BY <1>5 DEF Execute, vars, loopVars, portVars
  <2>2. JobsInv'
    BY <2>1 DEF PortInv, JobsInv, Opening
  <2>3. \A h \in opened : Held(h)'
    BY <2>1 DEF PortInv, Held
  <2> QED BY <2>1, <2>2, <2>3 DEF PortInv
<1> QED BY <1>1, <1>2, <1>3, <1>4, <1>5 DEF Next

\* No serial.Serial stays open unseen, which would keep the port busy for the
\* next open: whoever is cancelled while it opens, transacts or closes, and
\* whatever fails, an open port is the manager's or some thread's.
THEOREM NoPortLeaks == Spec => []NoLeakedPort
<1>1. Init => Base /\ PortInv
  BY TypeInit, LockInit, InitPort DEF Base
<1>2. Base /\ PortInv /\ [Next]_vars => (Base /\ PortInv)'
  <2> SUFFICES ASSUME Base, PortInv, [Next]_vars PROVE (Base /\ PortInv)'
    OBVIOUS
  <2>1. TypeOK' /\ LockInv' /\ PlaceInv'
    BY TypeStep, LockStep DEF Base
  <2> QED BY <2>1, NextPort DEF Base
<1> QED BY <1>1, <1>2, PortImplies, PTL DEF Spec

=============================================================================
