------------------------ MODULE DeviceManagerProofs ------------------------
(***************************************************************************)
(* Theorems about DeviceManager, for every value of its constants.         *)
(***************************************************************************)
EXTENDS DeviceManager, SequenceTheorems, TLAPS

-----------------------------------------------------------------------------
(* Type correctness *)

\* Taking one element out of a sequence leaves a sequence over the same set.
LEMMA CutSeq ==
  ASSUME NEW S, NEW s \in Seq(S), NEW i \in 1 .. Len(s)
  PROVE  /\ [j \in 1 .. Len(s) - 1 |-> s[IF j < i THEN j ELSE j + 1]] \in Seq(S)
         /\ Len([j \in 1 .. Len(s) - 1 |-> s[IF j < i THEN j ELSE j + 1]]) = Len(s) - 1
<1> DEFINE z == [j \in 1 .. Len(s) - 1 |-> s[IF j < i THEN j ELSE j + 1]]
<1>1. Len(s) \in Nat /\ Len(s) - 1 \in Nat /\ \A j \in 1 .. Len(s) : s[j] \in S
  BY LenProperties, ElementOfSeq
<1>2. z \in [1 .. Len(s) - 1 -> S]
  BY <1>1
<1>3. z \in Seq(S)
  BY <1>1, <1>2, SeqDef
<1>4. Len(z) = Len(s) - 1
  BY <1>1, <1>2, <1>3, LenProperties
<1> QED BY <1>3, <1>4

\* Forgetting an addressee keeps the type of the wire and of the buffer.
LEMMA ForgetWire ==
  ASSUME NEW w, NEW s \in Seq(Messages)
  PROVE  Forget(w, s) \in Seq(Messages)
<1>1. Len(s) \in Nat /\ \A i \in 1 .. Len(s) : s[i] \in Messages
  BY LenProperties, ElementOfSeq
<1>2. Forget(w, s) \in [1 .. Len(s) -> Messages]
  BY <1>1 DEF Forget, Messages
<1> QED BY <1>1, <1>2, SeqDef

LEMMA ForgetInput ==
  ASSUME NEW w, NEW s \in Seq(Lines)
  PROVE  Forget(w, s) \in Seq(Lines)
<1>1. Len(s) \in Nat /\ \A i \in 1 .. Len(s) : s[i] \in Lines
  BY LenProperties, ElementOfSeq
<1>2. Forget(w, s) \in [1 .. Len(s) -> Lines]
  BY <1>1 DEF Forget, Lines
<1> QED BY <1>1, <1>2, SeqDef

LEMMA LostWire ==
  ASSUME NEW s \in Seq(Messages)
  PROVE  Lost(s) \in Seq(Messages)
<1>1. Len(s) \in Nat /\ \A i \in 1 .. Len(s) : s[i] \in Messages
  BY LenProperties, ElementOfSeq
<1>2. Lost(s) \in [1 .. Len(s) -> Messages]
  BY <1>1 DEF Lost, Messages
<1> QED BY <1>1, <1>2, SeqDef

\* The rest of a line joins its beginning or stays alone.
LEMMA CompletedInput ==
  ASSUME input \in Seq(Lines), NEW w \in Workers \cup {None}
  PROVE  Completed(w) \in Seq(Lines)
<1>1. CASE input # <<>> /\ input[Len(input)].part = "begin"
  <2> DEFINE n == Len(input)
             m == [input[n] EXCEPT !.part = "all"]
  <2>1. n \in 1 .. n /\ input[n] \in Lines /\ input \in [1 .. n -> Lines]
    BY <1>1, LenProperties, EmptySeq, ElementOfSeq
  <2>2. m \in Lines
    BY <2>1 DEF Lines
  <2>3. [input EXCEPT ![n] = m] \in Seq(Lines)
    BY <2>1, <2>2, ExceptSeq
  <2>4. Completed(w) = [input EXCEPT ![n] = m]
    BY <1>1 DEF Completed
  <2> QED BY <2>3, <2>4
<1>2. CASE ~(input # <<>> /\ input[Len(input)].part = "begin")
  <2>1. [to |-> w, part |-> "rest"] \in Lines
    BY DEF Lines
  <2>2. Completed(w) = Append(input, [to |-> w, part |-> "rest"])
    BY <1>2 DEF Completed
  <2> QED BY <2>1, <2>2, AppendProperties
<1> QED BY <1>1, <1>2

LEMMA JobsTyped ==
  ASSUME TypeOK
  PROVE  /\ Idle \in Jobs /\ OpenJob \in Jobs /\ CloseJob \in Jobs /\ LocalJob \in Jobs
         /\ \A c \in Calls \cup {NoCall} : CommandJob(c) \in Jobs
<1>1. \A c \in Calls \cup {NoCall} : c.cmd \in Commands \cup {None}
  BY DEF Calls, NoCall, Commands
<1>2. SystLoc \in Commands
  BY DEF Commands
<1> QED BY <1>1, <1>2 DEF TypeOK, Idle, OpenJob, CloseJob, LocalJob, CommandJob, Job, Jobs

\* A task that awaits a job, and one that leaves the manager.
LEMMA AwaitTyped ==
  ASSUME TypeOK, NEW t \in Tasks, NEW c \in Calls \cup {NoCall}, NEW job \in Jobs,
         NEW at \in Places, Await(t, c, job, at)
  PROVE  TasksOK'
<1>1. "none" \in Outcomes
  BY DEF Outcomes
<1> QED BY <1>1 DEF TypeOK, TasksOK, Await, Inside

LEMMA ReturnTyped ==
  ASSUME TypeOK, NEW t \in Tasks, NEW r \in Outcomes, Return(t, r)
  PROVE  TasksOK'
<1>1. "idle" \in Places /\ NoCall \in Calls \cup {NoCall}
  BY DEF Places
<1> QED BY <1>1, JobsTyped DEF TypeOK, TasksOK, Return, Left

LEMMA CloseTyped ==
  ASSUME TypeOK, NEW t \in Tasks, NEW c \in Calls \cup {NoCall}, NEW r \in Outcomes,
         Close(t, c, r)
  PROVE  TasksOK' /\ serial' \in Handles \cup {None}
<1>1. "closing" \in Places
  BY DEF Places
<1>2. CASE serial = None
  BY <1>2, ReturnTyped DEF Close, TypeOK
<1>3. CASE serial # None
  <2>1. Await(t, c, CloseJob, "closing") /\ serial' = None
    BY <1>3 DEF Close
  <2> QED BY <2>1, <1>1, JobsTyped, AwaitTyped
<1> QED BY <1>2, <1>3

LEMMA EnterTyped ==
  ASSUME TypeOK, NEW t \in Tasks, NEW c \in Calls \cup {NoCall}, Enter(t, c)
  PROVE  TasksOK' /\ serial' \in Handles \cup {None}
<1>1. {"opening", "greeting", "transacting"} \subseteq Places /\ "ok" \in Outcomes
  BY DEF Places, Outcomes
<1>2. CASE Close(t, c, "ok")
  BY <1>1, <1>2, CloseTyped
<1>3. CASE \E job \in Jobs, at \in Places : Await(t, c, job, at) /\ UNCHANGED serial
  BY <1>3, AwaitTyped DEF TypeOK
<1>4. Close(t, c, "ok") \/ \E job \in Jobs, at \in Places : Await(t, c, job, at) /\ UNCHANGED serial
  BY <1>1, JobsTyped DEF Enter
<1> QED BY <1>2, <1>3, <1>4

LEMMA EndedTyped ==
  ASSUME TypeOK, NEW t \in Tasks, NEW at, NEW r, Ended(t, at, r)
  PROVE  /\ thread' \in [Workers -> Jobs]
         /\ waiters' \in Seq(Tasks) /\ PortOK' /\ panel' \in {"local", "remote"}
         /\ thread[awaited] \in Jobs /\ thread[awaited].result \in r
         /\ call[t] \in Calls \cup {NoCall}
<1>1. awaited \in Workers
  BY DEF Ended, TypeOK, TasksOK
<1> QED BY <1>1, JobsTyped DEF Ended, TypeOK, TasksOK, PortOK, portVars

\* A thread that ends its job.
LEMMA FinishTyped ==
  ASSUME TypeOK, NEW w \in Workers, NEW h \in Handles \cup {None},
         NEW r \in Responses \cup {"none", "ok", "error", "ValueError", "OSError"},
         Finish(w, r, h)
  PROVE  thread' \in [Workers -> Jobs]
<1>1. thread[w] \in Jobs /\ [thread[w] EXCEPT !.step = "done", !.result = r, !.handle = h] \in Jobs
  BY DEF TypeOK, Jobs
<1> QED BY <1>1, JobsTyped DEF Finish, TypeOK

LEMMA TypeStep ==
  ASSUME TypeOK, [Next]_vars
  PROVE  TypeOK'
<1> USE DEF portVars, loopVars
<1>1. ASSUME NEW t \in Tasks, Request(t)
      PROVE  TypeOK'
  <2>1. PICK c \in Calls :
          \/ holder = None /\ waiters = <<>> /\ Enter(t, c) /\ UNCHANGED waiters
          \/ /\ Inside(t, c, "waiting") /\ waiters' = Append(waiters, t)
             /\ UNCHANGED <<holder, serial, queued, awaited>>
    BY <1>1 DEF Request
  <2>2. CASE Enter(t, c) /\ UNCHANGED waiters
    BY <1>1, <2>2, EnterTyped DEF TypeOK, Request, PortOK
  <2>3. CASE /\ Inside(t, c, "waiting") /\ waiters' = Append(waiters, t)
             /\ UNCHANGED <<holder, serial, queued, awaited>>
    <3>1. TasksOK'
      BY <2>3 DEF TypeOK, TasksOK, Inside, Places, Outcomes
    <3>2. waiters' \in Seq(Tasks)
      BY <2>3, AppendProperties DEF TypeOK
    <3> QED BY <1>1, <2>3, <3>1, <3>2 DEF TypeOK, Request, PortOK
  <2> QED BY <2>1, <2>2, <2>3
<1>2. ASSUME NEW t \in Tasks, Acquire(t)
      PROVE  TypeOK'
  <2>1. Enter(t, call[t]) /\ call[t] \in Calls \cup {NoCall}
    BY <1>2 DEF Acquire, TypeOK, TasksOK
  <2>2. waiters' \in Seq(Tasks)
    BY <1>2, HeadTailProperties DEF Acquire, TypeOK
  <2> QED BY <1>2, <2>1, <2>2, EnterTyped DEF TypeOK, Acquire, PortOK
<1>3. ASSUME NEW t \in Tasks, Resume(t)
      PROVE  TypeOK'
  <2> {"opening", "greeting", "transacting", "closing"} \subseteq Places
    BY DEF Places
  <2> {"ok", "OSError", "DeviceError", "TransportError", "ValueError"} \cup Responses \subseteq Outcomes
    BY DEF Outcomes
  <2> call[t] \in Calls \cup {NoCall} /\ CommandJob(call[t]) \in Jobs /\ LocalJob \in Jobs
    BY JobsTyped DEF TypeOK, TasksOK
  <2>1. CASE Opened(t)
    <3>1. Ended(t, {"opening"}, {"ok"}) /\ Await(t, call[t], LocalJob, "greeting")
      BY <2>1 DEF Opened
    <3>2. serial' \in Handles \cup {None}
      BY <2>1, <3>1, EndedTyped DEF Opened, Jobs
    <3> QED BY <3>1, <3>2, EndedTyped, AwaitTyped DEF TypeOK
  <2>2. CASE Greeted(t)
    <3>1. Ended(t, {"greeting"}, {"ok"}) /\ serial' = serial
      BY <2>2 DEF Greeted
    <3>2. TasksOK'
      BY <2>2, ReturnTyped, AwaitTyped DEF Greeted
    <3> QED BY <3>1, <3>2, EndedTyped DEF TypeOK
  <2>3. CASE ConnectFailed(t)
    <3>1. Ended(t, {"opening", "greeting"}, {"error"})
      BY <2>3 DEF ConnectFailed
    <3>2. TasksOK' /\ serial' \in Handles \cup {None}
      BY <2>3, ReturnTyped, CloseTyped DEF ConnectFailed, TypeOK
    <3> QED BY <3>1, <3>2, EndedTyped DEF TypeOK
  <2>4. CASE Answered(t)
    <3>1. Ended(t, {"transacting"}, Responses \cup {"ok", "ValueError"}) /\ serial' = serial
      BY <2>4 DEF Answered
    <3>2. thread[awaited].result \in Outcomes /\ Return(t, thread[awaited].result)
      BY <2>4, <3>1, EndedTyped DEF Answered
    <3> QED BY <3>1, <3>2, EndedTyped, ReturnTyped DEF TypeOK
  <2>5. CASE TransactFailed(t)
    <3>1. Ended(t, {"transacting"}, {"error"}) /\ Close(t, call[t], "DeviceError")
      BY <2>5 DEF TransactFailed
    <3> QED BY <3>1, EndedTyped, CloseTyped DEF TypeOK
  <2>6. CASE Closed(t)
    <3>1. Ended(t, {"closing"}, {"ok", "OSError"}) /\ serial' = serial
      BY <2>6 DEF Closed
    <3>2. TasksOK'
      BY <2>6, ReturnTyped DEF Closed
    <3> QED BY <3>1, <3>2, EndedTyped DEF TypeOK
  <2> QED BY <1>3, <2>1, <2>2, <2>3, <2>4, <2>5, <2>6 DEF Resume
<1>4. ASSUME NEW t \in Tasks, Cancel(t)
      PROVE  TypeOK'
  <2>1. Interrupt(t) /\ Left(t, "cancelled")
    BY <1>4 DEF Cancel, Interrupt
  <2>2. /\ pc' \in [Tasks -> Places] /\ call' \in [Tasks -> Calls \cup {NoCall}]
        /\ result' \in [Tasks -> Outcomes]
    BY <2>1 DEF Left, TypeOK, TasksOK, Places, Outcomes
  <2>3. /\ holder' \in Tasks \cup {None} /\ queued' \in Jobs /\ awaited' \in Workers \cup {None}
        /\ opened' \subseteq Handles
    BY <2>1, JobsTyped DEF Interrupt, TypeOK, TasksOK, PortOK
  <2>4. waiters' \in Seq(Tasks)
    BY <2>1, CutSeq DEF Interrupt, Unqueue, TypeOK
  <2>5. thread' \in [Workers -> Jobs]
    BY <2>1, JobsTyped DEF Interrupt, TypeOK
  <2> QED BY <2>1, <2>2, <2>3, <2>4, <2>5 DEF Interrupt, TypeOK, TasksOK, PortOK
<1>5. ASSUME NEW w \in Workers, Start(w)
      PROVE  TypeOK'
  BY <1>5, JobsTyped DEF Start, TypeOK, TasksOK, PortOK
<1>6. ASSUME NEW w \in Workers, OpenPort(w)
      PROVE  TypeOK'
  <2>1. PICK h \in Handles : Finish(w, "ok", h)
                             /\ opened' = IF w = awaited THEN opened \cup {h} ELSE opened
    BY <1>6 DEF OpenPort
  <2>2. thread' \in [Workers -> Jobs]
    BY <2>1, FinishTyped
  <2>3. input' \in Seq(Lines)
    BY <1>6, EmptySeq DEF OpenPort
  <2>4. wire' \in Seq(Messages)
    BY <1>6, LostWire DEF OpenPort, TypeOK, PortOK
  <2> QED BY <1>6, <2>1, <2>2, <2>3, <2>4 DEF OpenPort, TypeOK, TasksOK, PortOK
<1>7. ASSUME NEW w \in Workers, ResetInput(w)
      PROVE  TypeOK'
  <2>1. thread' \in [Workers -> Jobs]
    <3>1. CASE Finish(w, "ValueError", None)
      BY <3>1, FinishTyped
    <3>2. CASE thread' = [thread EXCEPT ![w].step = "write", ![w].handle = serial]
      BY <3>2 DEF TypeOK, Jobs
    <3> QED BY <1>7, <3>1, <3>2 DEF ResetInput
  <2>2. input' \in Seq(Lines)
    BY <1>7, EmptySeq DEF ResetInput
  <2> QED BY <1>7, <2>1, <2>2 DEF ResetInput, TypeOK, TasksOK, PortOK
<1>8. ASSUME NEW w \in Workers, WriteCommand(w)
      PROVE  TypeOK'
  <2>1. thread' \in [Workers -> Jobs]
    <3>1. CASE Finish(w, "ok", None)
      BY <3>1, FinishTyped
    <3>2. CASE Advance(w, "read")
      BY <3>2 DEF Advance, TypeOK, Jobs
    <3> QED BY <1>8, <3>1, <3>2 DEF WriteCommand
  <2>2. Message(w) \in Messages
    BY DEF Message, TypeOK, Jobs, Messages
  <2>3. wire' \in Seq(Messages)
    BY <1>8, <2>2, AppendProperties DEF WriteCommand, TypeOK, PortOK
  <2> QED BY <1>8, <2>1, <2>3 DEF WriteCommand, TypeOK, TasksOK, PortOK
<1>9. ASSUME NEW w \in Workers, Wedge(w)
      PROVE  TypeOK'
  <2>1. thread' \in [Workers -> Jobs]
    BY <1>9 DEF Wedge, Advance, TypeOK, Jobs
  <2> QED BY <1>9, <2>1 DEF Wedge, TypeOK, TasksOK, PortOK
<1>10. ASSUME NEW w \in Workers, ReadLine(w)
       PROVE  TypeOK'
  <2>1. thread' \in [Workers -> Jobs]
    BY <1>10, FinishTyped DEF ReadLine, Responses
  <2>2. Tail(input) \in Seq(Lines)
    BY <1>10, HeadTailProperties DEF ReadLine, TypeOK, PortOK
  <2>3. PortOK'
    BY <1>10, <2>2, ForgetInput, ForgetWire DEF ReadLine, TypeOK, PortOK
  <2> QED BY <1>10, <2>1, <2>3 DEF ReadLine, TypeOK, TasksOK
<1>11. ASSUME NEW w \in Workers, ReadFragment(w)
       PROVE  TypeOK'
  <2>1. thread' \in [Workers -> Jobs]
    BY <1>11, FinishTyped DEF ReadFragment, Responses
  <2>2. Tail(input) \in Seq(Lines)
    BY <1>11, HeadTailProperties DEF ReadFragment, TypeOK, PortOK
  <2>3. PortOK'
    BY <1>11, <2>2, ForgetInput, ForgetWire DEF ReadFragment, TypeOK, PortOK
  <2> QED BY <1>11, <2>1, <2>3 DEF ReadFragment, TypeOK, TasksOK
<1>17. ASSUME NEW w \in Workers, TornLine(w)
       PROVE  TypeOK'
  <2>1. thread' \in [Workers -> Jobs]
    BY <1>17, FinishTyped DEF TornLine, Responses
  <2>2. /\ 1 \in 1 .. Len(input) /\ Head(input) = input[1]
        /\ input[1] \in Lines
    BY <1>17, LenProperties, ElementOfSeq, EmptySeq DEF TornLine, TypeOK, PortOK
  <2>3. [input[1] EXCEPT !.part = "rest"] \in Lines
    BY <2>2 DEF Lines
  <2>4. [input EXCEPT ![1].part = "rest"] = [input EXCEPT ![1] = [input[1] EXCEPT !.part = "rest"]]
    OBVIOUS
  <2>5. [input EXCEPT ![1].part = "rest"] \in Seq(Lines)
    BY <2>2, <2>3, <2>4, ExceptSeq DEF TypeOK, PortOK
  <2>6. PortOK'
    BY <1>17, <2>5, ForgetInput, ForgetWire DEF TornLine, TypeOK, PortOK
  <2> QED BY <1>17, <2>1, <2>6 DEF TornLine, TypeOK, TasksOK
<1>12. ASSUME NEW w \in Workers, Timeout(w)
       PROVE  TypeOK'
  <2>1. thread' \in [Workers -> Jobs]
    BY <1>12, FinishTyped DEF Timeout
  <2> QED BY <1>12, <2>1, ForgetWire DEF Timeout, TypeOK, TasksOK, PortOK
<1>13. ASSUME NEW w \in Workers, IoError(w)
       PROVE  TypeOK'
  <2>1. thread' \in [Workers -> Jobs]
    BY <1>13, FinishTyped DEF IoError
  <2>2. [cmd |-> thread[w].cmd, to |-> None] \in Messages
    BY DEF TypeOK, Jobs, Messages
  <2>3. wire' \in Seq(Messages)
    <3>1. Append(wire, [cmd |-> thread[w].cmd, to |-> None]) \in Seq(Messages)
      BY <2>2, AppendProperties DEF TypeOK, PortOK
    <3>2. Forget(w, wire) \in Seq(Messages)
      BY ForgetWire DEF TypeOK, PortOK
    <3> QED BY <1>13, <3>1, <3>2 DEF IoError
  <2>4. input' \in Seq(Lines)
    BY <1>13, ForgetInput DEF IoError, TypeOK, PortOK
  <2> QED BY <1>13, <2>1, <2>3, <2>4 DEF IoError, TypeOK, TasksOK, PortOK
<1>14. ASSUME NEW w \in Workers, ClosePort(w)
       PROVE  TypeOK'
  <2>1. thread' \in [Workers -> Jobs]
    BY <1>14, FinishTyped DEF ClosePort
  <2> QED BY <1>14, <2>1 DEF ClosePort, TypeOK, TasksOK, PortOK
<1>15. CASE Execute
  <2>1. /\ Tail(wire) \in Seq(Messages) /\ Head(wire) \in Messages
        /\ 1 \in 1 .. Len(wire) /\ wire[1] \in Messages
    BY <1>15, HeadTailProperties, LenProperties, ElementOfSeq, EmptySeq DEF Execute, TypeOK, PortOK
  <2>2. [wire EXCEPT ![1].cmd = Rest] \in Seq(Messages)
    <3>1. [wire[1] EXCEPT !.cmd = Rest] \in Messages
      BY <2>1 DEF Messages
    <3>2. [wire EXCEPT ![1].cmd = Rest] = [wire EXCEPT ![1] = [wire[1] EXCEPT !.cmd = Rest]]
      OBVIOUS
    <3> QED BY <2>1, <3>1, <3>2, ExceptSeq DEF TypeOK, PortOK
  <2>3. wire' \in Seq(Messages)
    BY <1>15, <2>1, <2>2 DEF Execute
  <2>4. /\ Append(input, [to |-> Head(wire).to, part |-> "all"]) \in Seq(Lines)
        /\ Append(input, [to |-> Head(wire).to, part |-> "begin"]) \in Seq(Lines)
    <3>1. /\ [to |-> Head(wire).to, part |-> "all"] \in Lines
          /\ [to |-> Head(wire).to, part |-> "begin"] \in Lines
      BY <2>1 DEF Messages, Lines
    <3> QED BY <3>1, AppendProperties DEF TypeOK, PortOK
  <2>5. Completed(Head(wire).to) \in Seq(Lines)
    BY <2>1, CompletedInput DEF Messages, TypeOK, PortOK
  <2>6. input' \in Seq(Lines)
    BY <1>15, <2>4, <2>5 DEF Execute, TypeOK, PortOK
  <2>7. panel' \in {"local", "remote"}
    BY <1>15 DEF Execute, TypeOK
  <2> QED BY <1>15, <2>3, <2>6, <2>7 DEF Execute, TypeOK, TasksOK, PortOK
<1>16. CASE UNCHANGED vars
  BY <1>16 DEF vars, TypeOK, TasksOK, PortOK
<1> QED
  BY <1>1, <1>2, <1>3, <1>4, <1>5, <1>6, <1>7, <1>8, <1>9, <1>10, <1>11, <1>12, <1>13,
     <1>14, <1>15, <1>16, <1>17 DEF Next, Step

LEMMA TypeInit == Init => TypeOK
BY EmptySeq DEF Init, TypeOK, TasksOK, PortOK, Places, Outcomes, Idle, Job, Jobs, NoCall

\* The variables keep their types whatever the environment does: no line, job
\* or answer of one kind is ever taken for one of another kind.
THEOREM TypeCorrect == Spec => []TypeOK
<1>1. Init => TypeOK
  BY TypeInit
<1>2. TypeOK /\ [Next]_vars => TypeOK'
  BY TypeStep
<1> QED BY <1>1, <1>2, PTL DEF Spec

-----------------------------------------------------------------------------
(* The lock *)

LEMMA AwaitLock ==
  ASSUME TypeOK, LockInv, NEW t \in Tasks, NEW c, NEW job, NEW at \in HasLock,
         holder \in {None, t}, Await(t, c, job, at)
  PROVE  LockInv'
BY ConstantsOK DEF TypeOK, TasksOK, LockInv, Await, Inside

LEMMA ReturnLock ==
  ASSUME TypeOK, LockInv, NEW t \in Tasks, NEW r, holder \in {None, t}, Return(t, r)
  PROVE  LockInv'
BY ConstantsOK DEF TypeOK, TasksOK, LockInv, Return, Left, HasLock, Idle, Job

LEMMA CloseLock ==
  ASSUME TypeOK, LockInv, PlaceInv, NEW t \in Tasks, NEW c, NEW r, holder \in {None, t},
         Close(t, c, r)
  PROVE  LockInv' /\ PlaceInv' /\ serial' = None
<1>1. serial' = None
  BY DEF Close
<1>2. LockInv'
  <2>1. CASE Return(t, r)
    BY <2>1, ReturnLock
  <2>2. CASE Await(t, c, CloseJob, "closing")
    BY <2>2, AwaitLock DEF HasLock
  <2> QED BY <2>1, <2>2 DEF Close
<1>3. \A u \in Tasks : pc'[u] \in {"opening", "greeting", "transacting"} =>
        pc'[u] = pc[u] /\ call'[u] = call[u]
  BY DEF Close, Await, Inside, Return, Left, TypeOK, TasksOK
<1> QED BY <1>1, <1>2, <1>3 DEF PlaceInv

LEMMA EnterLock ==
  ASSUME TypeOK, LockInv, PlaceInv, NEW t \in Tasks, NEW c \in Calls \cup {NoCall},
         holder = None, Enter(t, c)
  PROVE  LockInv' /\ PlaceInv'
<1>1. CASE Close(t, c, "ok")
  BY <1>1, CloseLock
<1>2. ASSUME c.op # "stop", NEW job, NEW at \in {"opening", "greeting", "transacting"},
             Await(t, c, job, at), UNCHANGED serial, at = "opening" => serial = None
      PROVE  LockInv' /\ PlaceInv'
  <2>1. LockInv'
    BY <1>2, AwaitLock DEF HasLock
  <2>2. \A u \in Tasks : pc[u] \notin HasLock
    BY ConstantsOK DEF LockInv
  <2>3. \A u \in Tasks \ {t} : pc'[u] \notin HasLock
    BY <1>2, <2>2 DEF Await, Inside, TypeOK, TasksOK
  <2>4. pc'[t] = at /\ call'[t] = c
    BY <1>2 DEF Await, Inside, TypeOK, TasksOK
  <2> QED BY <1>2, <2>1, <2>3, <2>4 DEF PlaceInv, HasLock
<1>3. c.op # "stop" \/ Close(t, c, "ok")
  BY DEF Enter
<1>4. Close(t, c, "ok") \/ \E job : \E at \in {"opening", "greeting", "transacting"} :
        Await(t, c, job, at) /\ UNCHANGED serial /\ (at = "opening" => serial = None)
  BY DEF Enter
<1> QED BY <1>1, <1>2, <1>3, <1>4

LEMMA LockStep ==
  ASSUME TypeOK, LockInv, PlaceInv, [Next]_vars
  PROVE  LockInv' /\ PlaceInv'
<1> USE DEF loopVars, portVars
<1>1. ASSUME NEW t \in Tasks, Request(t)
      PROVE  LockInv' /\ PlaceInv'
  <2>1. PICK c \in Calls :
          \/ holder = None /\ Enter(t, c)
          \/ Inside(t, c, "waiting") /\ UNCHANGED <<holder, serial, queued, awaited>>
    BY <1>1 DEF Request
  <2>2. CASE Inside(t, c, "waiting") /\ UNCHANGED <<holder, serial, queued, awaited>>
    <3>1. pc[t] \notin HasLock
      BY <1>1 DEF Request, HasLock
    <3>2. LockInv'
      BY <2>2, <3>1 DEF LockInv, Inside, TypeOK, TasksOK, HasLock
    <3>3. PlaceInv'
      BY <2>2 DEF PlaceInv, Inside, TypeOK, TasksOK
    <3> QED BY <3>2, <3>3
  <2> QED BY <2>1, <2>2, EnterLock
<1>2. ASSUME NEW t \in Tasks, Acquire(t)
      PROVE  LockInv' /\ PlaceInv'
  BY <1>2, EnterLock DEF Acquire, TypeOK, TasksOK
<1>3. ASSUME NEW t \in Tasks, Resume(t)
      PROVE  LockInv' /\ PlaceInv'
  <2>1. holder = t /\ pc[t] \in HasLock
    BY <1>3 DEF Resume, Opened, Greeted, ConnectFailed, Answered, TransactFailed, Closed,
                Ended, LockInv, HasLock
  <2>2. \A u \in Tasks \ {t} : pc[u] \notin HasLock
    BY <2>1 DEF LockInv, HasLock
  <2>3. ASSUME NEW job, NEW at \in {"greeting", "transacting"}, Await(t, call[t], job, at),
               pc[t] \in {"opening", "greeting"}
        PROVE  LockInv' /\ PlaceInv'
    <3>1. LockInv'
      BY <2>1, <2>3, AwaitLock DEF HasLock
    <3>2. call' = call
      BY <2>3 DEF Await, Inside, TypeOK, TasksOK
    <3> QED BY <2>2, <2>3, <3>1, <3>2 DEF PlaceInv, Await, Inside, TypeOK, TasksOK, HasLock
  <2>4. ASSUME NEW r, Return(t, r)
        PROVE  LockInv' /\ PlaceInv'
    <3>1. LockInv'
      BY <2>1, <2>4, ReturnLock
    <3> QED BY <2>2, <2>4, <3>1 DEF PlaceInv, Return, Left, TypeOK, TasksOK, HasLock
  <2>5. \/ pc[t] \in {"opening", "greeting"} /\ \E job :
             \E at \in {"greeting", "transacting"} : Await(t, call[t], job, at)
        \/ \E r : Return(t, r)
        \/ \E c, r : Close(t, c, r)
    BY <1>3 DEF Resume, Opened, Greeted, ConnectFailed, Answered, TransactFailed, Closed, Ended
  <2> QED BY <2>1, <2>3, <2>4, <2>5, CloseLock
<1>4. ASSUME NEW t \in Tasks, Cancel(t)
      PROVE  LockInv' /\ PlaceInv'
  <2>1. Interrupt(t) /\ Left(t, "cancelled") /\ serial' = serial
    BY <1>4 DEF Cancel, Interrupt
  <2>2. PlaceInv'
    BY <2>1 DEF PlaceInv, Left, TypeOK, TasksOK
  <2>3. CASE pc[t] = "waiting" /\ UNCHANGED <<holder, queued, awaited>>
    <3>1. holder # t
      BY <2>3 DEF LockInv, HasLock
    <3>2. \A u \in Tasks : pc'[u] \in HasLock <=> holder' = u
      BY <2>1, <2>3, <3>1 DEF LockInv, Left, TypeOK, TasksOK, HasLock
    <3>3. holder' = holder /\ queued' = queued /\ awaited' = awaited
      BY <2>3
    <3>4. holder' = None => queued' = Idle /\ awaited' = None
      BY <3>3 DEF LockInv
    <3>5. queued'.step # "idle" => awaited' = None
      BY <3>3 DEF LockInv
    <3> QED BY <2>2, <3>2, <3>4, <3>5 DEF LockInv
  <2>4. CASE holder = t /\ holder' = None /\ queued' = Idle /\ awaited' = None
    <3>1. \A u \in Tasks : pc'[u] \notin HasLock
      BY <2>1, <2>4 DEF LockInv, Left, TypeOK, TasksOK, HasLock
    <3>2. \A u \in Tasks : holder' # u
      BY <2>4, ConstantsOK
    <3>3. queued'.step # "idle" => awaited' = None
      BY <2>4
    <3> QED BY <2>2, <2>4, <3>1, <3>2, <3>3 DEF LockInv
  <2> QED BY <2>1, <2>2, <2>3, <2>4 DEF Interrupt
<1>5. ASSUME NEW w \in Workers, Start(w)
      PROVE  LockInv' /\ PlaceInv'
  BY <1>5 DEF Start, LockInv, PlaceInv, Idle, Job
<1>6. CASE UNCHANGED loopVars
  BY <1>6 DEF LockInv, PlaceInv, HasLock, Idle, Job
<1>7. ASSUME NEW w \in Workers, Step(w) \/ Wedge(w), ~Start(w)
      PROVE  UNCHANGED loopVars
  BY <1>7 DEF Step, Wedge, OpenPort, ResetInput, WriteCommand, ReadLine, ReadFragment,
              TornLine, Timeout, IoError, ClosePort
<1>8. Execute \/ UNCHANGED vars => UNCHANGED loopVars
  BY DEF Execute, vars
<1> QED BY <1>1, <1>2, <1>3, <1>4, <1>5, <1>6, <1>7, <1>8 DEF Next, Step

\* What WaitersInLine says of a queue q.
InLine(q, p) ==
  /\ \A i, j \in 1 .. Len(q) : q[i] = q[j] => i = j
  /\ \A t \in Tasks : p[t] = "waiting" <=> \E i \in 1 .. Len(q) : q[i] = t

\* A task that leaves the queue leaves everybody else in it, once.
LEMMA InLineCut ==
  ASSUME NEW q \in Seq(Tasks), NEW p, InLine(q, p), NEW i \in 1 .. Len(q), NEW z,
         z = [j \in 1 .. Len(q) - 1 |-> q[IF j < i THEN j ELSE j + 1]],
         NEW r, \A t \in Tasks : r[t] = "waiting" <=> p[t] = "waiting" /\ t # q[i]
  PROVE  InLine(z, r)
<1>1. /\ Len(q) \in Nat /\ Len(z) = Len(q) - 1
      /\ \A j \in 1 .. Len(z) : z[j] = q[IF j < i THEN j ELSE j + 1]
  BY CutSeq, LenProperties
<1>2. ASSUME NEW j \in 1 .. Len(z), NEW k \in 1 .. Len(z), z[j] = z[k]
      PROVE  j = k
  <2>1. (IF j < i THEN j ELSE j + 1) = (IF k < i THEN k ELSE k + 1)
    BY <1>1, <1>2 DEF InLine
  <2> QED BY <1>1, <2>1
<1>3. ASSUME NEW t \in Tasks, r[t] = "waiting"
      PROVE  \E j \in 1 .. Len(z) : z[j] = t
  <2>1. p[t] = "waiting" /\ t # q[i]
    BY <1>3
  <2>2. PICK k \in 1 .. Len(q) : q[k] = t
    BY <2>1 DEF InLine
  <2>3. PICK j \in 1 .. Len(z) : k = IF j < i THEN j ELSE j + 1
    <3>1. k # i
      BY <2>1, <2>2
    <3>2. CASE k < i
      BY <1>1, <3>2
    <3>3. CASE k > i
      <4>1. k - 1 \in 1 .. Len(z) /\ ~(k - 1 < i) /\ k = (k - 1) + 1
        BY <1>1, <3>3
      <4> QED BY <4>1
    <3> QED BY <3>1, <3>2, <3>3
  <2> QED BY <1>1, <2>2, <2>3
<1>4. ASSUME NEW t \in Tasks, NEW j \in 1 .. Len(z), z[j] = t
      PROVE  r[t] = "waiting"
  <2>1. PICK k \in 1 .. Len(q) : k # i /\ q[k] = t
    BY <1>1, <1>4
  <2>2. p[t] = "waiting"
    BY <2>1 DEF InLine
  <2>3. t # q[i]
    BY <2>1 DEF InLine
  <2> QED BY <2>2, <2>3
<1> QED BY <1>2, <1>3, <1>4 DEF InLine

LEMMA InLineTail ==
  ASSUME NEW q \in Seq(Tasks), NEW p, InLine(q, p), q # <<>>,
         NEW r, \A t \in Tasks : r[t] = "waiting" <=> p[t] = "waiting" /\ t # Head(q)
  PROVE  InLine(Tail(q), r)
<1>1. /\ Len(q) \in Nat /\ Len(q) > 0 /\ Head(q) = q[1]
      /\ Len(Tail(q)) = Len(q) - 1 /\ \A j \in 1 .. Len(Tail(q)) : Tail(q)[j] = q[j + 1]
  BY HeadTailProperties, LenProperties, EmptySeq
<1>2. \A j, k \in 1 .. Len(Tail(q)) : Tail(q)[j] = Tail(q)[k] => j = k
  BY <1>1 DEF InLine
<1>3. ASSUME NEW t \in Tasks, r[t] = "waiting"
      PROVE  \E j \in 1 .. Len(Tail(q)) : Tail(q)[j] = t
  <2>1. PICK k \in 1 .. Len(q) : q[k] = t /\ k # 1
    BY <1>1, <1>3 DEF InLine
  <2>2. k - 1 \in 1 .. Len(Tail(q)) /\ k - 1 + 1 = k
    BY <1>1, <2>1
  <2>3. Tail(q)[k - 1] = q[k]
    BY <1>1, <2>2
  <2> QED BY <2>1, <2>2, <2>3
<1>4. ASSUME NEW t \in Tasks, NEW j \in 1 .. Len(Tail(q)), Tail(q)[j] = t
      PROVE  r[t] = "waiting"
  <2>1. j + 1 \in 1 .. Len(q) /\ j + 1 # 1 /\ q[j + 1] = t
    BY <1>1, <1>4
  <2> QED BY <1>1, <2>1 DEF InLine
<1> QED BY <1>2, <1>3, <1>4 DEF InLine

LEMMA InLineAppend ==
  ASSUME NEW q \in Seq(Tasks), NEW p, InLine(q, p), NEW u \in Tasks, p[u] # "waiting",
         NEW r, \A t \in Tasks : r[t] = "waiting" <=> p[t] = "waiting" \/ t = u
  PROVE  InLine(Append(q, u), r)
<1>1. /\ Len(q) \in Nat /\ Len(Append(q, u)) = Len(q) + 1 /\ Append(q, u)[Len(q) + 1] = u
      /\ \A j \in 1 .. Len(q) : Append(q, u)[j] = q[j]
  BY AppendProperties, LenProperties
<1>2. \A j \in 1 .. Len(q) : q[j] # u
  BY DEF InLine
<1>3. \A j, k \in 1 .. Len(Append(q, u)) : Append(q, u)[j] = Append(q, u)[k] => j = k
  BY <1>1, <1>2 DEF InLine
<1>4. ASSUME NEW t \in Tasks
      PROVE  r[t] = "waiting" <=> \E j \in 1 .. Len(Append(q, u)) : Append(q, u)[j] = t
  <2>1. p[t] = "waiting" <=> \E j \in 1 .. Len(q) : q[j] = t
    BY DEF InLine
  <2>2. Len(q) + 1 \in 1 .. Len(Append(q, u)) /\ 1 .. Len(q) \subseteq 1 .. Len(Append(q, u))
    BY <1>1
  <2>3. \A j \in 1 .. Len(Append(q, u)) : j \in 1 .. Len(q) \/ j = Len(q) + 1
    BY <1>1
  <2> QED BY <1>1, <2>1, <2>2, <2>3
<1> QED BY <1>3, <1>4 DEF InLine

LEMMA WaitersStep ==
  ASSUME TypeOK, LockInv, WaitersInLine, [Next]_vars
  PROVE  WaitersInLine'
<1> USE DEF loopVars
<1>1. InLine(waiters, pc) /\ (InLine(waiters', pc') => WaitersInLine')
  BY DEF InLine, WaitersInLine
<1>2. ASSUME NEW t \in Tasks, NEW c, Enter(t, c)
      PROVE  \A u \in Tasks : pc'[u] = "waiting" <=> pc[u] = "waiting" /\ u # t
  BY <1>2 DEF Enter, Close, Await, Return, Inside, Left, TypeOK, TasksOK
<1>3. ASSUME NEW t \in Tasks, Request(t)
      PROVE  WaitersInLine'
  <2>1. PICK c \in Calls :
          \/ Enter(t, c) /\ UNCHANGED waiters
          \/ Inside(t, c, "waiting") /\ waiters' = Append(waiters, t)
    BY <1>3 DEF Request
  <2>2. CASE Enter(t, c) /\ UNCHANGED waiters
    <3>1. \A u \in Tasks : pc'[u] = "waiting" <=> pc[u] = "waiting"
      BY <1>2, <1>3, <2>2 DEF Request
    <3> QED BY <1>1, <2>2, <3>1 DEF InLine
  <2>3. CASE Inside(t, c, "waiting") /\ waiters' = Append(waiters, t)
    <3>1. \A u \in Tasks : pc'[u] = "waiting" <=> pc[u] = "waiting" \/ u = t
      BY <2>3 DEF Inside, TypeOK, TasksOK
    <3> QED BY <1>1, <1>3, <2>3, <3>1, InLineAppend DEF Request, TypeOK
  <2> QED BY <2>1, <2>2, <2>3
<1>4. ASSUME NEW t \in Tasks, Acquire(t)
      PROVE  WaitersInLine'
  <2>1. /\ waiters # <<>> /\ Head(waiters) = t /\ waiters' = Tail(waiters)
        /\ \A u \in Tasks : pc'[u] = "waiting" <=> pc[u] = "waiting" /\ u # t
    BY <1>2, <1>4 DEF Acquire
  <2> QED BY <1>1, <2>1, InLineTail DEF TypeOK
<1>5. ASSUME NEW t \in Tasks, Resume(t)
      PROVE  WaitersInLine'
  <2>1. /\ waiters' = waiters
        /\ \A u \in Tasks : pc'[u] = "waiting" <=> pc[u] = "waiting"
    BY <1>5 DEF Resume, Opened, Greeted, ConnectFailed, Answered, TransactFailed, Closed, Ended,
                Close, Await, Return, Inside, Left, TypeOK, TasksOK
  <2> QED BY <1>1, <2>1 DEF InLine
<1>6. ASSUME NEW t \in Tasks, Cancel(t)
      PROVE  WaitersInLine'
  <2>1. \A u \in Tasks : pc'[u] = "waiting" <=> pc[u] = "waiting" /\ u # t
    BY <1>6 DEF Cancel, Interrupt, Left, TypeOK, TasksOK
  <2>2. CASE Unqueue(t)
    <3>1. PICK i \in 1 .. Len(waiters) :
            /\ waiters[i] = t
            /\ waiters' = [j \in 1 .. Len(waiters) - 1 |-> waiters[IF j < i THEN j ELSE j + 1]]
      BY <2>2 DEF Unqueue
    <3>2. waiters \in Seq(Tasks)
      BY DEF TypeOK
    <3>3. \A u \in Tasks : pc'[u] = "waiting" <=> pc[u] = "waiting" /\ u # waiters[i]
      BY <2>1, <3>1
    <3>4. PICK z, r : z = waiters' /\ r = pc'
      OBVIOUS
    <3>5. z = [j \in 1 .. Len(waiters) - 1 |-> waiters[IF j < i THEN j ELSE j + 1]]
      BY <3>1, <3>4
    <3>6. \A u \in Tasks : r[u] = "waiting" <=> pc[u] = "waiting" /\ u # waiters[i]
      BY <3>3, <3>4
    <3>7. InLine(z, r)
      BY <1>1, <3>2, <3>5, <3>6, InLineCut
    <3> QED BY <1>1, <3>4, <3>7
  <2>3. CASE holder = t /\ UNCHANGED waiters
    <3>1. pc[t] # "waiting"
      BY <2>3 DEF LockInv, HasLock
    <3> QED BY <1>1, <2>1, <2>3, <3>1 DEF InLine
  <2>4. Unqueue(t) \/ (holder = t /\ UNCHANGED waiters)
    BY <1>6 DEF Cancel, Interrupt
  <2> QED BY <2>2, <2>3, <2>4
<1>7. ASSUME NEW w \in Workers, Step(w) \/ Wedge(w)
      PROVE  UNCHANGED <<pc, waiters>>
  BY <1>7 DEF Step, Start, Wedge, OpenPort, ResetInput, WriteCommand, ReadLine, ReadFragment,
              TornLine, Timeout, IoError, ClosePort
<1>8. Execute \/ UNCHANGED vars => UNCHANGED <<pc, waiters>>
  BY DEF Execute, vars
<1>9. UNCHANGED <<pc, waiters>> => WaitersInLine'
  BY DEF WaitersInLine
<1> QED BY <1>3, <1>4, <1>5, <1>6, <1>7, <1>8, <1>9 DEF Next

LEMMA LockInit == Init => LockInv /\ PlaceInv
BY ConstantsOK DEF Init, LockInv, PlaceInv, HasLock, Idle, Job

LEMMA WaitersInit == Init => WaitersInLine
BY EmptySeq DEF Init, WaitersInLine

\* Whoever is cancelled while it waits, while it is woken or while it holds
\* the lock, the queue of the lock stays the set of the tasks that wait.
THEOREM NoWaiterLost == Spec => []WaitersInLine
<1>1. Init => TypeOK /\ LockInv /\ PlaceInv /\ WaitersInLine
  BY TypeInit, LockInit, WaitersInit
<1>2. TypeOK /\ LockInv /\ PlaceInv /\ WaitersInLine /\ [Next]_vars
        => (TypeOK /\ LockInv /\ PlaceInv /\ WaitersInLine)'
  BY TypeStep, LockStep, WaitersStep
<1> QED BY <1>1, <1>2, PTL DEF Spec

\* Whoever is cancelled and whatever fails, a call that ends with DeviceError,
\* and a stop, leaves no connection that the next call would take for good.
THEOREM DropsConnection == Spec => FailureDropsConnection
<1> DEFINE Drops == \A t \in Tasks :
       /\ pc[t] # "idle" /\ pc'[t] = "idle" /\ result'[t] # "cancelled"
       /\ result'[t] = "DeviceError" \/ call[t].op = "stop"
       => serial' = None
<1>1. Init => TypeOK /\ LockInv /\ PlaceInv
  BY LockInit, TypeInit
<1>2. TypeOK /\ LockInv /\ PlaceInv /\ [Next]_vars => (TypeOK /\ LockInv /\ PlaceInv)'
  BY TypeStep, LockStep
<1>3. TypeOK /\ LockInv /\ PlaceInv /\ [Next]_vars => [Drops]_vars
  <2> SUFFICES ASSUME TypeOK, LockInv, PlaceInv, Next, NEW t \in Tasks,
                      pc[t] # "idle", pc'[t] = "idle", result'[t] # "cancelled",
                      result'[t] = "DeviceError" \/ call[t].op = "stop"
               PROVE  serial' = None
    OBVIOUS
  <2>1. ASSUME NEW u \in Tasks, Request(u)
        PROVE  FALSE
    BY <2>1, u = t \/ u # t DEF Request, Enter, Close, Await, Return, Inside, Left, TypeOK, TasksOK
  <2>2. ASSUME NEW u \in Tasks, Acquire(u)
        PROVE  serial' = None
    <3>1. u = t
      BY <2>2 DEF Acquire, Enter, Close, Await, Return, Inside, Left, TypeOK, TasksOK
    <3>2. CASE Close(t, call[t], "ok")
      BY <3>2 DEF Close
    <3>3. ~ \E c, job : \E at \in {"opening", "greeting", "transacting"} : Await(t, c, job, at)
      BY DEF Await, Inside, TypeOK, TasksOK
    <3> QED BY <2>2, <3>1, <3>2, <3>3 DEF Acquire, Enter
  <2>3. ASSUME NEW u \in Tasks, Resume(u)
        PROVE  serial' = None
    <3>1. u = t /\ pc[t] \in HasLock
      BY <2>3 DEF Resume, Opened, Greeted, ConnectFailed, Answered, TransactFailed, Closed,
                  Close, Ended, Await, Return, Inside, Left, TypeOK, TasksOK, HasLock
    <3>2. CASE Opened(t)
      BY <3>2 DEF Opened, Await, Inside, TypeOK, TasksOK
    <3>3. CASE Greeted(t)
      BY <3>3 DEF Greeted, Await, Inside, Return, Left, TypeOK, TasksOK, PlaceInv
    <3>4. CASE ConnectFailed(t) \/ TransactFailed(t)
      BY <3>4 DEF ConnectFailed, TransactFailed, Close, Return, Left, TypeOK, TasksOK
    <3>5. CASE Answered(t)
      BY <3>5 DEF Answered, Ended, Return, Left, TypeOK, TasksOK, PlaceInv, Responses
    <3>6. CASE Closed(t)
      BY <3>6 DEF Closed, Ended, PlaceInv
    <3> QED BY <2>3, <3>1, <3>2, <3>3, <3>4, <3>5, <3>6 DEF Resume
  <2>4. ASSUME NEW u \in Tasks, Cancel(u)
        PROVE  FALSE
    BY <2>4 DEF Cancel, Interrupt, Left, TypeOK, TasksOK
  <2>5. ASSUME NEW w \in Workers, Step(w) \/ Wedge(w)
        PROVE  FALSE
    BY <2>5 DEF loopVars, Step, Start, Wedge, OpenPort, ResetInput, WriteCommand, ReadLine,
                ReadFragment, TornLine, Timeout, IoError, ClosePort
  <2>6. ~Execute
    BY DEF Execute, loopVars
  <2> QED BY <2>1, <2>2, <2>3, <2>4, <2>5, <2>6 DEF Next
<1> QED BY <1>1, <1>2, <1>3, PTL DEF Spec, FailureDropsConnection

-----------------------------------------------------------------------------
(* One thread per port, as long as nothing is cancelled *)

\* A task takes the result of the one thread that had a job.
LEMMA EndedFreesThreads ==
  ASSUME TypeOK, NoOrphans, NEW t \in Tasks, NEW at, NEW r, Ended(t, at, r)
  PROVE  \A w \in Workers : thread'[w].step = "idle"
BY DEF Ended, NoOrphans, TypeOK, TasksOK, Idle, Job

LEMMA FinishKeepsNoOrphans ==
  ASSUME TypeOK, NoOrphans, NEW w \in Workers, thread[w].step # "idle", NEW r, NEW h,
         Finish(w, r, h), awaited' = awaited
  PROVE  NoOrphans'
<1>1. w = awaited
  BY DEF NoOrphans
<1> QED BY <1>1 DEF Finish, NoOrphans, TypeOK

LEMMA NoOrphansStep ==
  ASSUME TypeOK, LockInv, NoOrphans, Cancellable = {}, [Next]_vars
  PROVE  NoOrphans'
<1> USE DEF loopVars, portVars
<1>1. ASSUME NEW t \in Tasks, Request(t) \/ Acquire(t)
      PROVE  NoOrphans'
  <2>1. CASE holder = None
    <3>1. \A w \in Workers : thread[w].step = "idle"
      BY <2>1, ConstantsOK DEF LockInv, NoOrphans
    <3> QED BY <1>1, <3>1 DEF Request, Acquire, NoOrphans
  <2>2. CASE holder # None
    BY <1>1, <2>2 DEF Request, Acquire, NoOrphans
  <2> QED BY <2>1, <2>2
<1>2. ASSUME NEW t \in Tasks, Resume(t)
      PROVE  NoOrphans'
  <2>1. \E at, r : Ended(t, at, r)
    BY <1>2 DEF Resume, Opened, Greeted, ConnectFailed, Answered, TransactFailed, Closed
  <2> QED BY <2>1, EndedFreesThreads DEF NoOrphans
<1>3. ASSUME NEW w \in Workers, Start(w)
      PROVE  NoOrphans'
  <2>1. \A v \in Workers : thread[v].step = "idle"
    BY <1>3, ConstantsOK DEF Start, LockInv, NoOrphans
  <2> QED BY <1>3, <2>1 DEF Start, NoOrphans, TypeOK
<1>5. ASSUME NEW w \in Workers, Step(w) \/ Wedge(w), ~Start(w)
      PROVE  NoOrphans'
  <2>1. thread[w].step # "idle" /\ UNCHANGED loopVars
    BY <1>5 DEF Step, Wedge, OpenPort, ResetInput, WriteCommand, ReadLine, ReadFragment, TornLine,
                Timeout, IoError, ClosePort, At
  <2>2. \/ \E r, h : Finish(w, r, h)
        \/ \E j : thread' = [thread EXCEPT ![w] = j]
    BY <1>5 DEF Step, Wedge, OpenPort, ResetInput, WriteCommand, ReadLine, ReadFragment, TornLine,
                Timeout, IoError, ClosePort, Advance
  <2>3. CASE \E j : thread' = [thread EXCEPT ![w] = j]
    BY <2>1, <2>3 DEF NoOrphans, TypeOK
  <2> QED BY <2>1, <2>2, <2>3, FinishKeepsNoOrphans
<1>6. ASSUME NEW t \in Tasks, Cancel(t)
      PROVE  FALSE
  BY <1>6 DEF Cancel
<1>7. CASE Execute \/ UNCHANGED vars
  BY <1>7 DEF Execute, vars, NoOrphans
<1> QED BY <1>1, <1>2, <1>3, <1>5, <1>6, <1>7 DEF Next, Step

\* transport.py's claim, "a single underlying serial.Serial is only ever
\* touched by one thread at a time", holds of every build in which nothing
\* cancels a task inside the manager.
THEOREM SingleThread ==
  ASSUME Cancellable = {}
  PROVE  Spec => []OneThreadPerPort
<1> DEFINE Inv == TypeOK /\ LockInv /\ PlaceInv /\ NoOrphans
<1>1. Init => Inv
  BY TypeInit, LockInit DEF Init, NoOrphans, Idle, Job
<1>2. Inv /\ [Next]_vars => Inv'
  BY TypeStep, LockStep, NoOrphansStep
<1>3. Inv => OneThreadPerPort
  BY DEF NoOrphans, OneThreadPerPort, Busy
<1> QED BY <1>1, <1>2, <1>3, PTL DEF Spec

-----------------------------------------------------------------------------
(* The job of the lock holder fits the place it is in *)

LEMMA JobInit == Init => NoOrphans /\ JobInv /\ Owed /\ NoForeignLine /\ NoInterleavedResponses
BY EmptySeq DEF Init, NoOrphans, JobInv, HasLock, Owed, Usable, Reading, Settled, NoForeignLine,
                NoInterleavedResponses, Idle, Job

\* The jobs the loop hands to the executor.
LEMMA NewJobs ==
  \A j \in {Idle, OpenJob, CloseJob, LocalJob} \cup {CommandJob(c) : c \in Calls} :
    j.step \in {"idle", "open", "close", "reset"} /\ j.result = "none"
BY DEF Idle, OpenJob, CloseJob, LocalJob, CommandJob, Job

\* With every thread idle the lock holder's place fits all of them.
LEMMA AwaitJob ==
  ASSUME TypeOK, LockInv, JobInv, NEW t \in Tasks, NEW c \in Calls, NEW at \in HasLock,
         NEW job \in {OpenJob, CloseJob, LocalJob} \cup {CommandJob(d) : d \in Calls},
         JobAt(at, job)', JobAt(at, job),
         holder \in {None, t}, \A w \in Workers : thread'[w].step = "idle",
         at \in {"greeting", "transacting"} => serial' # None,
         Await(t, c, job, at)
  PROVE  JobInv'
<1>1. \A u \in Tasks \ {t} : pc'[u] \notin HasLock /\ pc'[u] = pc[u] /\ call'[u] = call[u]
  BY ConstantsOK DEF Await, Inside, LockInv, TypeOK, TasksOK
<1>2. pc'[t] = at /\ call'[t] = c /\ queued' = job
  BY DEF Await, Inside, TypeOK, TasksOK
<1>3. queued'.step \in {"idle", "open", "close", "reset"} /\ queued'.result = "none"
  BY <1>2, NewJobs
<1>4. JobAt(at, queued)' /\ \A w \in Workers : JobAt(at, thread[w])'
  BY <1>2 DEF JobAt
<1> QED BY <1>1, <1>2, <1>3, <1>4 DEF JobInv

LEMMA ReturnJob ==
  ASSUME TypeOK, LockInv, JobInv, NEW t \in Tasks, NEW r, holder \in {None, t}, Return(t, r)
  PROVE  JobInv'
<1>1. \A u \in Tasks \ {t} : pc'[u] \notin HasLock /\ pc'[u] = pc[u] /\ call'[u] = call[u]
  BY ConstantsOK DEF Return, Left, LockInv, TypeOK, TasksOK
<1>2. pc'[t] = "idle" /\ queued' = Idle
  BY DEF Return, Left, TypeOK, TasksOK
<1> QED BY <1>1, <1>2, NewJobs DEF JobInv, HasLock

LEMMA CloseJobs ==
  ASSUME TypeOK, LockInv, JobInv, NEW t \in Tasks, NEW c \in Calls, NEW r, holder \in {None, t},
         \A w \in Workers : thread'[w].step = "idle", Close(t, c, r)
  PROVE  JobInv'
<1>1. CASE Return(t, r)
  BY <1>1, ReturnJob
<1>2. CASE Await(t, c, CloseJob, "closing")
  <2>1. PICK j : j = CloseJob
    OBVIOUS
  <2>2. JobAt("closing", j) /\ JobAt("closing", j)'
    BY <2>1 DEF JobAt, CloseJob, Job
  <2> QED BY <1>2, <2>1, <2>2, AwaitJob DEF HasLock
<1> QED BY <1>1, <1>2 DEF Close

LEMMA EnterJobs ==
  ASSUME TypeOK, LockInv, JobInv, NEW t \in Tasks, NEW c \in Calls, holder = None,
         \A w \in Workers : thread'[w].step = "idle", Enter(t, c)
  PROVE  JobInv'
<1>1. CASE Close(t, c, "ok")
  BY <1>1, CloseJobs
<1>2. CASE Await(t, c, OpenJob, "opening")
  <2>1. JobAt("opening", OpenJob) /\ JobAt("opening", OpenJob)'
    BY DEF JobAt, OpenJob, Job
  <2> QED BY <1>2, <2>1, AwaitJob DEF HasLock
<1>3. CASE serial # None /\ Await(t, c, LocalJob, "greeting") /\ UNCHANGED serial
  <2>1. JobAt("greeting", LocalJob) /\ JobAt("greeting", LocalJob)'
    BY ConstantsOK DEF JobAt, LocalJob, Job
  <2> QED BY <1>3, <2>1, AwaitJob DEF HasLock
<1>4. CASE /\ c.op \in {"query", "write"} /\ serial # None
           /\ Await(t, c, CommandJob(c), "transacting") /\ UNCHANGED serial
  <2>1. c.op = "query" <=> c.cmd \in Queries
    BY <1>4, ConstantsOK DEF Calls
  <2>2. JobAt("transacting", CommandJob(c)) /\ JobAt("transacting", CommandJob(c))'
    BY <2>1 DEF JobAt, CommandJob, Job
  <2> QED BY <1>4, <2>2, AwaitJob DEF HasLock
<1> QED BY <1>1, <1>2, <1>3, <1>4 DEF Enter

\* A step of a thread, to a job that fits as well.
LEMMA ThreadJobs ==
  ASSUME TypeOK, JobInv, NEW w \in Workers, NEW j, thread' = [thread EXCEPT ![w] = j],
         UNCHANGED loopVars, \A t \in Tasks : pc[t] \in HasLock => JobAt(pc[t], j)
  PROVE  JobInv'
<1>1. ASSUME NEW t \in Tasks, pc'[t] \in HasLock
      PROVE  /\ pc'[t] \in {"greeting", "transacting"} => serial' # None
             /\ JobAt(pc[t], queued)'
             /\ \A v \in Workers : JobAt(pc[t], thread[v])'
  <2>1. pc' = pc /\ serial' = serial /\ queued' = queued
    BY DEF loopVars
  <2>2. \A v \in Workers : thread'[v] = IF v = w THEN j ELSE thread[v]
    BY DEF TypeOK
  <2>3. JobAt(pc[t], j) /\ JobAt(pc[t], queued) /\ \A v \in Workers : JobAt(pc[t], thread[v])
    BY <1>1, <2>1 DEF JobInv
  <2>4. \A v \in Workers : JobAt(pc[t], thread[v])'
    BY <2>1, <2>2, <2>3 DEF JobAt
  <2>5. JobAt(pc[t], queued)'
    BY <2>1, <2>3 DEF JobAt
  <2> QED BY <1>1, <2>1, <2>4, <2>5 DEF JobInv
<1> QED BY <1>1 DEF JobInv, loopVars

LEMMA FinishJobs ==
  ASSUME TypeOK, JobInv, NEW w \in Workers, NEW r, NEW h, Finish(w, r, h), UNCHANGED loopVars,
         r = "ok" /\ h = None => \A t \in Tasks : pc[t] # "opening"
  PROVE  JobInv'
<1>1. PICK j : /\ thread' = [thread EXCEPT ![w] = j]
               /\ \/ j.step = "done" /\ j.result = r /\ j.handle = h
                  \/ j.step = "idle"
  <2> DEFINE d == [thread[w] EXCEPT !.step = "done", !.result = r, !.handle = h]
  <2>1. thread[w] \in Jobs
    BY DEF TypeOK
  <2>2. d.step = "done" /\ d.result = r /\ d.handle = h
    BY <2>1 DEF Jobs
  <2>3. Idle.step = "idle"
    BY DEF Idle, Job
  <2>4. thread' = [thread EXCEPT ![w] = IF w = awaited THEN d ELSE Idle]
    BY DEF Finish
  <2> HIDE DEF d
  <2> QED BY <2>2, <2>3, <2>4
<1>2. \A t \in Tasks : pc[t] \in HasLock => JobAt(pc[t], j)
  BY <1>1 DEF JobAt
<1> QED BY <1>1, <1>2, ThreadJobs

LEMMA JobStep ==
  ASSUME TypeOK, LockInv, WaitersInLine, PlaceInv, NoOrphans, JobInv, Cancellable = {},
         [Next]_vars
  PROVE  JobInv'
<1>1. ASSUME NEW t \in Tasks, Request(t)
      PROVE  JobInv'
  <2>1. PICK c \in Calls :
          \/ holder = None /\ Enter(t, c)
          \/ Inside(t, c, "waiting") /\ UNCHANGED <<holder, serial, queued, awaited>>
    BY <1>1 DEF Request
  <2>2. thread' = thread
    BY <1>1 DEF Request
  <2>3. CASE holder = None /\ Enter(t, c)
    BY <2>2, <2>3, EnterJobs, ConstantsOK DEF LockInv, NoOrphans
  <2>4. CASE Inside(t, c, "waiting") /\ UNCHANGED <<holder, serial, queued, awaited>>
    <3>1. \A u \in Tasks : pc'[u] = (IF u = t THEN "waiting" ELSE pc[u])
                           /\ call'[u] = (IF u = t THEN c ELSE call[u])
      BY <2>4 DEF Inside, TypeOK, TasksOK
    <3>2. queued' = queued /\ serial' = serial
      BY <2>4
    <3>3. ASSUME NEW u \in Tasks, pc'[u] \in HasLock
          PROVE  /\ pc'[u] \in {"greeting", "transacting"} => serial' # None
                 /\ JobAt(pc[u], queued)' /\ \A w \in Workers : JobAt(pc[u], thread[w])'
      <4>1. pc'[u] = pc[u]
        BY <3>1, <3>3 DEF HasLock
      <4> QED BY <2>2, <3>2, <3>3, <4>1 DEF JobInv, JobAt
    <3> QED BY <3>1, <3>2, <3>3 DEF JobInv
  <2> QED BY <2>1, <2>3, <2>4
<1>2. ASSUME NEW t \in Tasks, Acquire(t)
      PROVE  JobInv'
  <2>1. 1 \in 1 .. Len(waiters) /\ waiters[1] = t
    BY <1>2, LenProperties, EmptySeq DEF Acquire, TypeOK
  <2>2. call[t] \in Calls
    BY <2>1 DEF WaitersInLine, JobInv
  <2> QED BY <1>2, <2>2, EnterJobs, ConstantsOK DEF Acquire, LockInv, NoOrphans
<1>3. ASSUME NEW t \in Tasks, Resume(t)
      PROVE  JobInv'
  <2>1. PICK at, r : Ended(t, at, r)
    BY <1>3 DEF Resume, Opened, Greeted, ConnectFailed, Answered, TransactFailed, Closed
  <2>2. /\ \A w \in Workers : thread'[w].step = "idle"
        /\ holder = t /\ pc[t] \in HasLock /\ call[t] \in Calls /\ awaited \in Workers
    BY <2>1, EndedFreesThreads DEF Ended, LockInv, JobInv, HasLock, TypeOK, TasksOK
  <2>3. CASE Opened(t)
    <3>1. JobAt("opening", thread[awaited])
      BY <2>2, <2>3 DEF Opened, Ended, JobInv
    <3>2. serial' # None
      BY <2>3, <3>1 DEF Opened, Ended, JobAt
    <3>3. JobAt("greeting", LocalJob) /\ JobAt("greeting", LocalJob)'
      BY ConstantsOK DEF JobAt, LocalJob, Job
    <3> QED BY <2>2, <2>3, <3>2, <3>3, AwaitJob DEF Opened, HasLock
  <2>4. CASE Greeted(t)
    <3>1. CASE Return(t, "ok")
      BY <2>2, <3>1, ReturnJob
    <3>2. CASE call[t].op # "start" /\ Await(t, call[t], CommandJob(call[t]), "transacting")
      <4>1. serial' # None
        BY <2>2, <2>4 DEF Greeted, Ended, JobInv
      <4>2. call[t].op \in {"query", "write"}
        BY <2>2, <2>4, <3>2 DEF Greeted, Ended, PlaceInv, Calls
      <4>3. call[t].op = "query" <=> call[t].cmd \in Queries
        BY <2>2, <4>2, ConstantsOK DEF Calls
      <4>4. PICK c \in Calls : c = call[t]
        BY <2>2
      <4>5. JobAt("transacting", CommandJob(c)) /\ JobAt("transacting", CommandJob(c))'
        BY <4>3, <4>4 DEF JobAt, CommandJob, Job
      <4> QED BY <2>2, <3>2, <4>1, <4>4, <4>5, AwaitJob DEF HasLock
    <3> QED BY <2>4, <3>1, <3>2 DEF Greeted
  <2>5. CASE ConnectFailed(t)
    BY <2>2, <2>5, ReturnJob, CloseJobs DEF ConnectFailed
  <2>6. CASE Answered(t)
    BY <2>2, <2>6, ReturnJob DEF Answered
  <2>7. CASE TransactFailed(t)
    BY <2>2, <2>7, CloseJobs DEF TransactFailed
  <2>8. CASE Closed(t)
    BY <2>2, <2>8, ReturnJob DEF Closed
  <2> QED BY <1>3, <2>3, <2>4, <2>5, <2>6, <2>7, <2>8 DEF Resume
<1>4. ASSUME NEW w \in Workers, Start(w)
      PROVE  JobInv'
  <2>1. /\ pc' = pc /\ call' = call /\ serial' = serial /\ queued' = Idle
        /\ \A v \in Workers : thread'[v] = IF v = w THEN queued ELSE thread[v]
    BY <1>4 DEF Start, TypeOK
  <2>2. Idle.step = "idle" /\ Idle.result = "none"
    BY DEF Idle, Job
  <2>3. ASSUME NEW t \in Tasks, pc'[t] \in HasLock
        PROVE  /\ pc'[t] \in {"greeting", "transacting"} => serial' # None
               /\ JobAt(pc[t], queued)' /\ \A v \in Workers : JobAt(pc[t], thread[v])'
    <3>1. /\ pc[t] \in {"greeting", "transacting"} => serial # None
          /\ JobAt(pc[t], queued) /\ \A v \in Workers : JobAt(pc[t], thread[v])
      BY <2>1, <2>3 DEF JobInv
    <3>2. JobAt(pc[t], queued)'
      BY <2>1, <2>2 DEF JobAt
    <3>3. \A v \in Workers : JobAt(pc[t], thread[v])'
      BY <2>1, <3>1 DEF JobAt
    <3> QED BY <2>1, <3>1, <3>2, <3>3
  <2> QED BY <2>1, <2>2, <2>3 DEF JobInv
<1>5. ASSUME NEW w \in Workers, OpenPort(w)
      PROVE  JobInv'
  <2>1. PICK h \in Handles : Finish(w, "ok", h)
    BY <1>5 DEF OpenPort
  <2> QED BY <1>5, <2>1, FinishJobs, ConstantsOK DEF OpenPort
<1>6. ASSUME NEW w \in Workers, ResetInput(w)
      PROVE  JobInv'
  <2>1. CASE Finish(w, "ValueError", None)
    BY <1>6, <2>1, FinishJobs DEF ResetInput
  <2>2. CASE thread' = [thread EXCEPT ![w].step = "write", ![w].handle = serial]
    <3>1. PICK j : /\ thread' = [thread EXCEPT ![w] = j]
                   /\ j = [thread[w] EXCEPT !.step = "write", !.handle = serial]
      BY <2>2 DEF TypeOK, Jobs
    <3>2. /\ j.step = "write" /\ j.handle = serial
          /\ j.cmd = thread[w].cmd /\ j.reply = thread[w].reply
      BY <3>1 DEF TypeOK, Jobs
    <3>3. \A t \in Tasks : pc[t] \in HasLock => JobAt(pc[t], j)
      BY <1>6, <3>2 DEF ResetInput, At, JobInv, JobAt
    <3> QED BY <1>6, <3>1, <3>3, ThreadJobs DEF ResetInput
  <2> QED BY <1>6, <2>1, <2>2 DEF ResetInput
<1>7. ASSUME NEW w \in Workers, NEW step \in {"read", "wedged"}, thread[w].step = "write",
             step = "read" => thread[w].reply, Advance(w, step), UNCHANGED loopVars
      PROVE  JobInv'
  <2>1. PICK j : thread' = [thread EXCEPT ![w] = j] /\ j = [thread[w] EXCEPT !.step = step]
    BY <1>7 DEF Advance, TypeOK, Jobs
  <2>2. /\ j.step = step /\ j.handle = thread[w].handle
        /\ j.cmd = thread[w].cmd /\ j.reply = thread[w].reply
    BY <2>1 DEF TypeOK, Jobs
  <2>3. \A t \in Tasks : pc[t] \in HasLock => JobAt(pc[t], j)
    BY <1>7, <2>2 DEF JobInv, JobAt
  <2> QED BY <1>7, <2>1, <2>3, ThreadJobs
<1>8. ASSUME NEW w \in Workers, WriteCommand(w)
      PROVE  JobInv'
  <2>1. CASE Finish(w, "ok", None)
    <3>1. \A t \in Tasks : pc[t] # "opening"
      BY <1>8 DEF WriteCommand, At, JobInv, JobAt, HasLock
    <3> QED BY <1>8, <2>1, <3>1, FinishJobs DEF WriteCommand
  <2>2. CASE thread[w].reply /\ Advance(w, "read")
    BY <1>7, <1>8, <2>2 DEF WriteCommand, At
  <2> QED BY <1>8, <2>1, <2>2 DEF WriteCommand
<1>9. ASSUME NEW w \in Workers, Wedge(w)
      PROVE  JobInv'
  BY <1>7, <1>9 DEF Wedge, At
<1>10. ASSUME NEW w \in Workers,
              ReadLine(w) \/ ReadFragment(w) \/ TornLine(w) \/ Timeout(w) \/ IoError(w)
       PROVE  JobInv'
  <2>1. /\ UNCHANGED loopVars
        /\ \E r \in {"own", "fragment", "foreign", "error"} : Finish(w, r, None)
    BY <1>10 DEF ReadLine, ReadFragment, TornLine, Timeout, IoError
  <2> QED BY <2>1, FinishJobs
<1>11. ASSUME NEW w \in Workers, ClosePort(w)
       PROVE  JobInv'
  <2>1. \A t \in Tasks : pc[t] # "opening"
    BY <1>11 DEF ClosePort, JobInv, JobAt, HasLock
  <2> QED BY <1>11, <2>1, FinishJobs DEF ClosePort
<1>12. ASSUME NEW t \in Tasks, Cancel(t)
       PROVE  FALSE
  BY <1>12 DEF Cancel
<1>13. CASE Execute \/ UNCHANGED vars
  <2>1. UNCHANGED <<loopVars, thread>>
    BY <1>13 DEF Execute, vars
  <2> QED BY <2>1 DEF JobInv, JobAt, loopVars
<1> QED BY <1>1, <1>2, <1>3, <1>4, <1>5, <1>6, <1>8, <1>9, <1>10, <1>11, <1>12, <1>13
        DEF Next, Step

-----------------------------------------------------------------------------
(* The meter owes at most the answer the reading thread waits for *)

LEMMA SettledWhenQuiet ==
  ASSUME Owed, Usable, \A w \in Workers : ~Reading(w)
  PROVE  Settled
BY DEF Owed, Settled, IsQuery

LEMMA QuietOwes ==
  ASSUME Usable' => Settled', \A w \in Workers : thread'[w].step \notin {"write", "read"},
         \A t \in Tasks, w \in Workers :
           pc'[t] = "opening" /\ thread'[w].step = "done" /\ thread'[w].result = "ok" => Settled'
  PROVE  Owed'
BY DEF Owed, Settled, IsQuery, Reading

LEMMA LoopOwes ==
  ASSUME \A w \in Workers : thread'[w].step = "idle", wire' = wire, serial' = None \/ Settled
  PROVE  Owed'
<1>1. Usable' => Settled'
  BY DEF Usable, Settled
<1> QED BY <1>1, QuietOwes

\* Nothing is owed on a connection no thread works on.
LEMMA RestSettled ==
  ASSUME Owed, \A w \in Workers : thread[w].step = "idle", serial # None
  PROVE  Settled
BY SettledWhenQuiet DEF Usable, Reading

\* ... nor when a thread has ended other than with an error of a transaction.
LEMMA DoneSettled ==
  ASSUME TypeOK, LockInv, NoOrphans, JobInv, Owed, NEW t \in Tasks, NEW at, NEW r, Ended(t, at, r),
         pc[t] \in {"greeting", "transacting"}, pc[t] = "greeting" \/ "error" \notin r
  PROVE  Settled
<1>1. \A w \in Workers : ~Reading(w)
  BY DEF Ended, NoOrphans, Reading
<1>2. serial # None
  BY DEF JobInv, HasLock
<1>3. \A u \in Tasks : pc[u] = "transacting" => u = t
  BY DEF Ended, LockInv, HasLock
<1>4. Usable
  BY <1>2, <1>3 DEF Usable, Ended, NoOrphans
<1> QED BY <1>1, <1>4, SettledWhenQuiet

LEMMA EnterOwes ==
  ASSUME Owed, NEW t, NEW c, \A w \in Workers : thread[w].step = "idle", thread' = thread,
         wire' = wire, Enter(t, c)
  PROVE  Owed'
<1>1. serial' = None \/ serial' = serial
  BY DEF Enter, Close
<1>2. serial = None \/ Settled
  BY RestSettled
<1> QED BY <1>1, <1>2, LoopOwes

LEMMA LoopOwesStep ==
  ASSUME TypeOK, LockInv, PlaceInv, NoOrphans, JobInv, Owed, NEW t \in Tasks,
         Request(t) \/ Acquire(t) \/ Resume(t)
  PROVE  Owed'
<1> USE DEF portVars
<1>1. CASE Request(t)
  <2>1. PICK c \in Calls :
          \/ holder = None /\ Enter(t, c)
          \/ Inside(t, c, "waiting") /\ serial' = serial
    BY <1>1 DEF Request
  <2>2. CASE holder = None /\ Enter(t, c)
    BY <1>1, <2>2, EnterOwes, ConstantsOK DEF Request, LockInv, NoOrphans
  <2>3. CASE Inside(t, c, "waiting") /\ serial' = serial
    <3>1. thread' = thread /\ wire' = wire /\ input' = input
      BY <1>1 DEF Request
    <3>3. \A u \in Tasks : (pc'[u] = "transacting" <=> pc[u] = "transacting")
                           /\ (pc'[u] = "opening" <=> pc[u] = "opening")
      BY <1>1, <2>3 DEF Request, Inside, TypeOK, TasksOK
    <3>4. Usable' <=> Usable
      BY <2>3, <3>1, <3>3 DEF Usable
    <3>5. Settled' <=> Settled
      BY <3>1 DEF Settled
    <3> QED BY <3>1, <3>3, <3>4, <3>5 DEF Owed, IsQuery, Reading
  <2> QED BY <2>1, <2>2, <2>3
<1>2. CASE Acquire(t)
  BY <1>2, EnterOwes, ConstantsOK DEF Acquire, LockInv, NoOrphans
<1>3. CASE Resume(t)
  <2>1. wire' = wire /\ \A w \in Workers : thread'[w].step = "idle"
    BY <1>3, EndedFreesThreads DEF Resume, Opened, Greeted, ConnectFailed, Answered, TransactFailed,
                                   Closed, Ended
  <2>2. CASE Opened(t)
    <3>1. Settled
      BY <2>2 DEF Opened, Ended, Owed, TypeOK, TasksOK
    <3> QED BY <2>1, <3>1, LoopOwes
  <2>3. CASE Greeted(t)
    <3>1. Ended(t, {"greeting"}, {"ok"}) /\ pc[t] = "greeting"
      BY <2>3 DEF Greeted, Ended
    <3> QED BY <2>1, <3>1, DoneSettled, LoopOwes
  <2>4. CASE ConnectFailed(t)
    <3>1. Ended(t, {"opening", "greeting"}, {"error"}) /\ pc[t] \in {"opening", "greeting"}
      BY <2>4 DEF ConnectFailed, Ended
    <3>2. pc[t] = "opening" => serial = None
      BY DEF PlaceInv
    <3>3. serial' = serial \/ serial' = None
      BY <2>4 DEF ConnectFailed, Close
    <3>4. pc[t] = "greeting" => Settled
      BY <3>1, DoneSettled
    <3> QED BY <2>1, <3>1, <3>2, <3>3, <3>4, LoopOwes
  <2>5. CASE Answered(t)
    <3>1. Ended(t, {"transacting"}, Responses \cup {"ok", "ValueError"}) /\ pc[t] = "transacting"
      BY <2>5 DEF Answered, Ended
    <3>2. "error" \notin Responses \cup {"ok", "ValueError"}
      BY DEF Responses
    <3> QED BY <2>1, <3>1, <3>2, DoneSettled, LoopOwes
  <2>6. CASE TransactFailed(t)
    BY <2>1, <2>6, LoopOwes DEF TransactFailed, Close
  <2>7. CASE Closed(t)
    <3>1. serial' = None
      BY <2>7 DEF Closed, Ended, PlaceInv
    <3> QED BY <2>1, <3>1, LoopOwes
  <2> QED BY <1>3, <2>2, <2>3, <2>4, <2>5, <2>6, <2>7 DEF Resume
<1> QED BY <1>1, <1>2, <1>3

\* A thread that works does so for the lock holder, and alone.
LEMMA AtWork ==
  ASSUME TypeOK, LockInv, NoOrphans, JobInv, NEW w \in Workers, thread[w].step # "idle"
  PROVE  /\ holder \in Tasks /\ pc[holder] \in HasLock /\ JobAt(pc[holder], thread[w])
         /\ \A t \in Tasks : pc[t] \in HasLock => t = holder
         /\ \A v \in Workers \ {w} : thread[v].step = "idle"
<1>1. w = awaited /\ holder # None
  BY ConstantsOK DEF NoOrphans, LockInv
<1> QED BY <1>1 DEF LockInv, NoOrphans, JobInv, TypeOK, TasksOK

\* A thread that has not read yet: nothing is owed on its connection.
LEMMA WorkSettled ==
  ASSUME TypeOK, LockInv, NoOrphans, JobInv, Owed, NEW w \in Workers,
         thread[w].step \in {"reset", "write", "wedged"}
  PROVE  Settled
<1>1. serial # None
  BY AtWork DEF JobAt, JobInv
<1>2. Usable /\ \A v \in Workers : ~Reading(v)
  BY <1>1, AtWork DEF Usable, Reading
<1> QED BY <1>2, SettledWhenQuiet

\* A thread that reads does so in a transaction, for the line it is owed.
LEMMA ReaderOwed ==
  ASSUME TypeOK, LockInv, NoOrphans, JobInv, Owed, NEW w \in Workers, Reading(w)
  PROVE  /\ Usable /\ pc[holder] = "transacting"
         /\ \A i \in 1 .. Len(wire) : IsQuery(i) =>
              wire[i].to = w /\ \A j \in 1 .. Len(wire) : IsQuery(j) => i = j
<1>1. pc[holder] = "transacting" /\ serial # None
  BY AtWork, ConstantsOK DEF Reading, JobAt, JobInv
<1>2. Usable /\ \A v \in Workers : Reading(v) => v = w
  BY <1>1, AtWork DEF Usable, Reading
<1> QED BY <1>1, <1>2 DEF Owed

LEMMA ForgetSettled ==
  ASSUME NEW w, Settled, wire \in Seq(Messages), wire' = Forget(w, wire)
  PROVE  Settled'
<1>1. Len(wire) \in Nat
  BY LenProperties
<1>2. Len(wire') = Len(wire)
  <2> DEFINE f == [i \in 1 .. Len(wire) |->
                     IF wire[i].to = w THEN [wire[i] EXCEPT !.to = None] ELSE wire[i]]
  <2>1. wire' = f /\ DOMAIN f = 1 .. Len(wire)
    BY DEF Forget
  <2>2. f \in [1 .. Len(wire) -> {f[i] : i \in 1 .. Len(wire)}]
    OBVIOUS
  <2>3. f \in Seq({f[i] : i \in 1 .. Len(wire)})
    BY <1>1, <2>2, SeqDef
  <2>4. DOMAIN f = 1 .. Len(f) /\ Len(f) \in Nat
    BY <2>3, LenProperties
  <2> QED BY <1>1, <2>1, <2>4
<1>3. \A i \in 1 .. Len(wire) : wire[i] \in Messages
  BY ElementOfSeq
<1>4. \A i \in 1 .. Len(wire) : wire'[i].cmd = wire[i].cmd
  BY <1>3 DEF Forget, Messages
<1> QED BY <1>2, <1>4 DEF Settled

LEMMA AppendSettled ==
  ASSUME NEW m, m.cmd \notin Answerable, m \in Messages, Settled, wire \in Seq(Messages),
         wire' = Append(wire, m)
  PROVE  Settled'
<1>1. /\ Len(wire) \in Nat /\ Len(wire') = Len(wire) + 1 /\ wire'[Len(wire) + 1] = m
      /\ \A i \in 1 .. Len(wire) : wire'[i] = wire[i]
  BY AppendProperties, LenProperties
<1> QED BY <1>1 DEF Settled

\* After the port was opened the meter owes nothing, unless an answer may be late.
LEMMA LostSettled ==
  ASSUME wire \in Seq(Messages), wire' = Lost(wire)
  PROVE  Settled'
<1>1. Len(wire) \in Nat /\ \A i \in 1 .. Len(wire) : wire[i] \in Messages
  BY LenProperties, ElementOfSeq
<1>2. None \notin Answerable
  BY ConstantsOK DEF Answerable
<1>3. \A i \in 1 .. Len(wire) : Lost(wire)[i].cmd \notin Answerable
  BY <1>1, <1>2 DEF Lost, Messages
<1>4. Len(Lost(wire)) = Len(wire)
  <2>1. DOMAIN Lost(wire) = 1 .. Len(wire)
    BY DEF Lost
  <2> QED BY <1>1, <2>1, LostWire, LenProperties
<1> QED BY <1>3, <1>4 DEF Settled

\* What a thread that is done leaves behind.
LEMMA FinishOwes ==
  ASSUME TypeOK, LockInv, NoOrphans, JobInv, NEW w \in Workers, thread[w].step # "idle",
         NEW r, NEW h, Finish(w, r, h), UNCHANGED loopVars,
         Settled' \/ (r = "error" /\ pc[holder] = "transacting")
                  \/ (serial = None /\ (pc[holder] # "opening" \/ r # "ok"))
  PROVE  Owed'
<1>1. \A v \in Workers : thread'[v].step \in {"idle", "done"}
                         /\ (thread'[v].step = "done" => v = w /\ thread'[v].result = r)
  <2> DEFINE d == [thread[w] EXCEPT !.step = "done", !.result = r, !.handle = h]
  <2>1. d.step = "done" /\ d.result = r
    BY DEF Jobs, TypeOK
  <2>2. Idle.step = "idle"
    BY DEF Idle, Job
  <2>3. thread' = [thread EXCEPT ![w] = IF w = awaited THEN d ELSE Idle]
    BY DEF Finish
  <2> HIDE DEF d
  <2> QED BY <2>1, <2>2, <2>3, AtWork DEF TypeOK
<1>2. w = awaited /\ thread'[w].step = "done" /\ thread'[w].result = r
  <2>1. w = awaited
    BY DEF NoOrphans
  <2> QED BY <2>1 DEF Finish, TypeOK, Jobs
<1>3. pc' = pc /\ serial' = serial
  BY DEF loopVars
<1>4. Usable' => Settled'
  BY <1>2, <1>3, AtWork DEF Usable
<1>5. \A t \in Tasks, v \in Workers :
        pc'[t] = "opening" /\ thread'[v].step = "done" /\ thread'[v].result = "ok" => Settled'
  BY <1>1, <1>3, AtWork DEF HasLock
<1> QED BY <1>1, <1>4, <1>5, QuietOwes

LEMMA ThreadOwesStep ==
  ASSUME TypeOK, LockInv, PlaceInv, NoOrphans, JobInv, Owed, "late" \notin Faults,
         NEW w \in Workers, Step(w) \/ Wedge(w)
  PROVE  Owed'
<1> USE DEF portVars
<1>a. wire \in Seq(Messages) /\ input \in Seq(Lines) /\ thread \in [Workers -> Jobs]
  BY DEF TypeOK, PortOK
<1>1. CASE Start(w)
  <2>1. \A v \in Workers : thread[v].step = "idle"
    BY <1>1, ConstantsOK DEF Start, LockInv, NoOrphans
  <2>2. \A v \in Workers : thread'[v].step \notin {"write", "read", "done"}
    BY <1>1, <1>a, <2>1 DEF Start, JobInv
  <2>3. serial' = serial /\ (serial # None => Settled) /\ (Settled <=> Settled')
    BY <1>1, <2>1, RestSettled DEF Start, Settled
  <2> QED BY <2>2, <2>3, QuietOwes DEF Usable
<1>2. CASE OpenPort(w)
  <2>1. PICK h : Finish(w, "ok", h)
    BY <1>2 DEF OpenPort
  <2>2. Settled' /\ UNCHANGED loopVars /\ thread[w].step # "idle"
    BY <1>2, <1>a, LostSettled DEF OpenPort
  <2> QED BY <2>1, <2>2, FinishOwes
<1>3. CASE ResetInput(w)
  <2>1. Settled' /\ UNCHANGED loopVars /\ thread[w].step = "reset" /\ input' = <<>>
    BY <1>3, WorkSettled DEF ResetInput, At, Settled
  <2>2. CASE Finish(w, "ValueError", None)
    BY <2>1, <2>2, FinishOwes
  <2>3. CASE thread' = [thread EXCEPT ![w].step = "write", ![w].handle = serial]
    <3>1. \A v \in Workers : thread'[v].step \notin {"read", "done"}
      BY <1>a, <2>1, <2>3, AtWork DEF Jobs
    <3> QED BY <2>1, <3>1 DEF Owed, Settled, IsQuery, Reading
  <2> QED BY <1>3, <2>2, <2>3 DEF ResetInput
<1>4. CASE WriteCommand(w)
  <2>1. /\ UNCHANGED loopVars /\ thread[w].step = "write" /\ wire' = Append(wire, Message(w))
        /\ input' = input
    BY <1>4 DEF WriteCommand, At
  <2>2. Settled /\ Message(w) \in Messages
    BY <1>a, <2>1, WorkSettled DEF Message, Jobs, Messages
  <2>3. thread[w].reply <=> Message(w).cmd \in Answerable
    BY <1>a, <2>1, AtWork, ConstantsOK DEF JobAt, Message, Answerable, Jobs, Commands
  <2>4. CASE ~thread[w].reply
    <3>1. Settled'
      BY <1>a, <2>1, <2>2, <2>3, <2>4, AppendSettled
    <3> QED BY <1>4, <2>1, <2>4, <3>1, FinishOwes DEF WriteCommand
  <2>5. CASE thread[w].reply
    <3>1. Message(w).to = w
      BY <2>5 DEF Message
    <3>2. /\ Len(wire) \in Nat /\ Len(wire') = Len(wire) + 1 /\ wire'[Len(wire) + 1] = Message(w)
          /\ \A i \in 1 .. Len(wire) : wire'[i] = wire[i]
      BY <1>a, <2>1, <2>2, AppendProperties, LenProperties
    <3>3. \A i \in 1 .. Len(wire') : wire'[i].cmd \in Answerable => i = Len(wire) + 1
      BY <2>2, <3>2 DEF Settled
    <3>4. /\ thread'[w].step = "read"
          /\ \A v \in Workers \ {w} : thread'[v].step = "idle"
      BY <1>4, <1>a, <2>1, <2>5, AtWork DEF WriteCommand, Advance, Jobs
    <3>5. input' = <<>>
      BY <2>1 DEF Owed
    <3>6. Len(input') = 0
      BY <3>5, EmptySeq
    <3> QED BY <3>1, <3>2, <3>3, <3>4, <3>5, <3>6 DEF Owed, IsQuery, Reading
  <2> QED BY <2>4, <2>5
<1>5. CASE Wedge(w)
  <2>1. /\ UNCHANGED <<loopVars, portVars>> /\ thread[w].step = "write"
        /\ thread' = [thread EXCEPT ![w].step = "wedged"]
    BY <1>5 DEF Wedge, At, Advance
  <2>2. Settled'
    BY <2>1, WorkSettled DEF Settled
  <2>3. \A v \in Workers : thread'[v].step \notin {"write", "read", "done"}
    BY <1>a, <2>1, AtWork DEF Jobs
  <2> QED BY <2>2, <2>3, QuietOwes
<1>6. CASE ReadLine(w) \/ ReadFragment(w) \/ TornLine(w)
  <2>1. /\ Reading(w) /\ UNCHANGED loopVars /\ input # <<>> /\ wire' = Forget(w, wire)
        /\ \E r : Finish(w, r, None)
    BY <1>6 DEF ReadLine, ReadFragment, TornLine, At, Reading
  <2>2. Settled'
    BY <1>a, <2>1, ForgetSettled DEF Owed
  <2> QED BY <2>1, <2>2, FinishOwes DEF Reading
<1>7. CASE Timeout(w)
  <2>1. /\ Reading(w) /\ UNCHANGED loopVars /\ Finish(w, "error", None)
    BY <1>7 DEF Timeout, At, Reading
  <2> QED BY <2>1, ReaderOwed, FinishOwes DEF Reading
<1>8. CASE IoError(w)
  <2>1. /\ thread[w].step \in {"open", "reset", "write", "read"} /\ UNCHANGED loopVars
        /\ Finish(w, "error", None)
        /\ \/ wire' = Forget(w, wire)
           \/ /\ thread[w].step = "write"
              /\ wire' = Append(wire, [cmd |-> thread[w].cmd, to |-> None])
    BY <1>8 DEF IoError, At
  <2>2. CASE thread[w].step = "open"
    <3>1. serial = None
      BY <2>2, AtWork DEF JobAt, PlaceInv
    <3> QED BY <2>1, <3>1, FinishOwes
  <2>3. CASE pc[holder] = "transacting"
    BY <2>1, <2>3, FinishOwes
  <2>4. CASE thread[w].step # "open" /\ pc[holder] = "greeting"
    <3>1. thread[w].step \in {"reset", "write"} /\ Settled /\ thread[w].cmd = SystLoc
      BY <2>1, <2>4, AtWork, WorkSettled, ReaderOwed DEF JobAt, Reading
    <3>2. /\ [cmd |-> thread[w].cmd, to |-> None] \in Messages
          /\ [cmd |-> thread[w].cmd, to |-> None].cmd \notin Answerable
      BY <1>a, <3>1, ConstantsOK DEF Jobs, Messages, Answerable
    <3>3. Settled'
      BY <1>a, <2>1, <3>1, <3>2, ForgetSettled, AppendSettled
    <3> QED BY <2>1, <3>3, FinishOwes
  <2> QED BY <2>1, <2>2, <2>3, <2>4, AtWork DEF JobAt
<1>9. CASE ClosePort(w)
  <2>1. /\ thread[w].step = "close" /\ UNCHANGED loopVars /\ \E r : Finish(w, r, None)
    BY <1>9 DEF ClosePort
  <2>2. serial = None /\ pc[holder] = "closing"
    BY <2>1, AtWork DEF JobAt, PlaceInv
  <2> QED BY <2>1, <2>2, FinishOwes
<1> QED BY <1>1, <1>2, <1>3, <1>4, <1>5, <1>6, <1>7, <1>8, <1>9 DEF Step

LEMMA ExecuteOwes ==
  ASSUME TypeOK, LockInv, NoOrphans, JobInv, Owed, "partial" \notin Faults, Execute
  PROVE  Owed'
<1>1. /\ wire # <<>> /\ wire' = Tail(wire) /\ UNCHANGED <<loopVars, thread>>
      /\ wire \in Seq(Messages) /\ input \in Seq(Lines)
  BY DEF Execute, TypeOK, PortOK
<1>2. /\ Len(wire) \in Nat /\ Len(wire) > 0 /\ Head(wire) = wire[1] /\ wire[1] \in Messages
      /\ Len(wire') = Len(wire) - 1 /\ \A i \in 1 .. Len(wire') : wire'[i] = wire[i + 1]
  BY <1>1, HeadTailProperties, LenProperties, EmptySeq, ElementOfSeq
<1>3. /\ pc' = pc /\ serial' = serial /\ thread' = thread
      /\ Usable' <=> Usable
  BY <1>1 DEF loopVars, Usable
<1>4. Settled => Settled' /\ input' = input
  <2>1. Settled => Head(wire).cmd \notin Answerable
    BY <1>2 DEF Settled
  <2>2. Settled => input' = input
    BY <2>1 DEF Execute, Answerable
  <2> QED BY <1>2, <2>2 DEF Settled
<1>5. ASSUME Usable, NEW i \in 1 .. Len(wire'), wire'[i].cmd \in Answerable
      PROVE  /\ \E w \in Workers : Reading(w)' /\ wire'[i].to = w
             /\ \A j \in 1 .. Len(wire') : wire'[j].cmd \in Answerable => i = j
  <2>1. i + 1 \in 1 .. Len(wire) /\ wire'[i] = wire[i + 1] /\ IsQuery(i + 1)
    BY <1>2, <1>5 DEF IsQuery
  <2>2. \A j \in 1 .. Len(wire') : wire'[j].cmd \in Answerable =>
          j + 1 \in 1 .. Len(wire) /\ IsQuery(j + 1)
    BY <1>2 DEF IsQuery
  <2>3. \A j \in 1 .. Len(wire') : wire'[j].cmd \in Answerable => i + 1 = j + 1
    BY <1>5, <2>1, <2>2 DEF Owed
  <2>4. \E w \in Workers : Reading(w) /\ wire[i + 1].to = w
    BY <1>5, <2>1 DEF Owed
  <2> QED BY <1>2, <1>3, <2>1, <2>3, <2>4 DEF Reading
<1>6. ASSUME NEW w \in Workers, thread'[w].step = "write"
      PROVE  input' = <<>>
  <2>1. Settled /\ input = <<>>
    BY <1>3, <1>6, WorkSettled DEF Owed
  <2> QED BY <1>4, <2>1
<1>7. ASSUME NEW w \in Workers, Reading(w)'
      PROVE  /\ \A i \in 1 .. Len(input') : input'[i].to = w
             /\ input' # <<>> => Settled'
  <2>1. Reading(w)
    BY <1>3, <1>7 DEF Reading
  <2>2. CASE Settled
    BY <1>4, <2>1, <2>2 DEF Owed
  <2>3. CASE ~Settled
    <3>1. input = <<>>
      BY <2>1, <2>3 DEF Owed
    <3>2. CASE Head(wire).cmd \notin Answerable
      BY <1>1, <3>1, <3>2, EmptySeq DEF Execute, Answerable
    <3>3. CASE Head(wire).cmd \in Answerable
      <4>1. IsQuery(1) /\ 1 \in 1 .. Len(wire)
        BY <1>2, <3>3 DEF IsQuery
      <4>2. wire[1].to = w /\ \A j \in 1 .. Len(wire) : IsQuery(j) => j = 1
        BY <2>1, <4>1, ReaderOwed
      <4>3. Settled'
        BY <1>2, <4>2 DEF Settled, IsQuery
      <4>4. input' = input \/ \E p \in {"all", "rest"} : input' = <<[to |-> w, part |-> p]>>
        <5>1. \A p : Append(input, [to |-> w, part |-> p]) = <<[to |-> w, part |-> p]>>
          BY <3>1
        <5>2. Completed(w) = Append(input, [to |-> w, part |-> "rest"])
          BY <3>1 DEF Completed
        <5> QED BY <1>2, <4>2, <5>1, <5>2 DEF Execute
      <4>5. \A i \in 1 .. Len(input') : input'[i].to = w
        BY <3>1, <4>4, EmptySeq
      <4> QED BY <4>3, <4>5
    <3> QED BY <3>2, <3>3
  <2> QED BY <2>2, <2>3
<1>8. ASSUME NEW t \in Tasks, NEW w \in Workers, pc'[t] = "opening",
             thread'[w].step = "done", thread'[w].result = "ok"
      PROVE  Settled'
  BY <1>3, <1>4, <1>8 DEF Owed
<1> QED BY <1>3, <1>5, <1>6, <1>7, <1>8 DEF Owed, IsQuery

LEMMA OwedStep ==
  ASSUME TypeOK, LockInv, PlaceInv, NoOrphans, JobInv, Owed, Cancellable = {},
         "late" \notin Faults, "partial" \notin Faults, [Next]_vars
  PROVE  Owed'
<1>1. ASSUME NEW t \in Tasks, Request(t) \/ Acquire(t) \/ Resume(t)
      PROVE  Owed'
  BY <1>1, LoopOwesStep
<1>2. ASSUME NEW w \in Workers, Step(w) \/ Wedge(w)
      PROVE  Owed'
  BY <1>2, ThreadOwesStep
<1>3. CASE Execute
  BY <1>3, ExecuteOwes
<1>4. CASE UNCHANGED vars
  BY <1>4 DEF vars, loopVars, portVars, Owed, Usable, Settled, Reading, IsQuery
<1>5. \A t \in Tasks : ~Cancel(t)
  BY DEF Cancel
<1> QED BY <1>1, <1>2, <1>3, <1>4, <1>5 DEF Next

-----------------------------------------------------------------------------
(* No call returns a line that answers another one *)

LEMMA FinishOwn ==
  ASSUME TypeOK, NoForeignLine, NEW w \in Workers, NEW r, r # "foreign", NEW h, Finish(w, r, h)
  PROVE  NoForeignLine'
<1> DEFINE d == [thread[w] EXCEPT !.step = "done", !.result = r, !.handle = h]
<1>1. d.result = r /\ Idle.result = "none"
  BY DEF Jobs, TypeOK, Idle, Job
<1>2. thread' = [thread EXCEPT ![w] = IF w = awaited THEN d ELSE Idle]
  BY DEF Finish
<1> HIDE DEF d
<1> QED BY <1>1, <1>2 DEF TypeOK, NoForeignLine

LEMMA EndedOwn ==
  ASSUME TypeOK, NoForeignLine, NEW t, NEW at, NEW r, Ended(t, at, r)
  PROVE  NoForeignLine'
<1>1. Idle.result = "none"
  BY DEF Idle, Job
<1> QED BY <1>1 DEF Ended, TypeOK, NoForeignLine

LEMMA NoForeignLineStep ==
  ASSUME TypeOK, NoOrphans, JobInv, Owed, NoForeignLine, Cancellable = {}, [Next]_vars
  PROVE  NoForeignLine'
<1>a. thread \in [Workers -> Jobs]
  BY DEF TypeOK
<1>1. ASSUME NEW t \in Tasks, Request(t) \/ Acquire(t)
      PROVE  NoForeignLine'
  BY <1>1 DEF Request, Acquire, NoForeignLine
<1>2. ASSUME NEW t \in Tasks, Resume(t)
      PROVE  NoForeignLine'
  BY <1>2, EndedOwn DEF Resume, Opened, Greeted, ConnectFailed, Answered, TransactFailed, Closed
<1>3. ASSUME NEW w \in Workers, Step(w) \/ Wedge(w)
      PROVE  NoForeignLine'
  <2>1. CASE Start(w)
    BY <1>a, <2>1 DEF Start, NoForeignLine, JobInv
  <2>2. CASE OpenPort(w)
    BY <2>2, FinishOwn DEF OpenPort
  <2>3. CASE ResetInput(w)
    <3>1. CASE Finish(w, "ValueError", None)
      BY <3>1, FinishOwn
    <3>2. CASE thread' = [thread EXCEPT ![w].step = "write", ![w].handle = serial]
      BY <1>a, <3>2 DEF NoForeignLine, Jobs
    <3> QED BY <2>3, <3>1, <3>2 DEF ResetInput
  <2>4. CASE WriteCommand(w)
    <3>1. CASE Finish(w, "ok", None)
      BY <3>1, FinishOwn
    <3>2. CASE Advance(w, "read")
      BY <1>a, <3>2 DEF Advance, NoForeignLine, Jobs
    <3> QED BY <2>4, <3>1, <3>2 DEF WriteCommand
  <2>5. CASE ReadLine(w) \/ ReadFragment(w) \/ TornLine(w)
    <3>1. Reading(w) /\ input # <<>> /\ input \in Seq(Lines)
      BY <2>5 DEF ReadLine, ReadFragment, TornLine, At, Reading, TypeOK, PortOK
    <3>2. Head(input).to = w
      BY <3>1, HeadTailProperties, LenProperties, EmptySeq DEF Owed
    <3>3. Finish(w, "own", None) \/ Finish(w, "fragment", None)
      BY <2>5, <3>2 DEF ReadLine, ReadFragment, TornLine
    <3> QED BY <3>3, FinishOwn
  <2>6. CASE Timeout(w)
    BY <2>6, FinishOwn DEF Timeout
  <2>7. CASE IoError(w)
    BY <2>7, FinishOwn DEF IoError
  <2>8. CASE ClosePort(w)
    BY <2>8, FinishOwn DEF ClosePort
  <2>9. CASE Wedge(w)
    BY <1>a, <2>9 DEF Wedge, Advance, NoForeignLine, Jobs
  <2> QED BY <1>3, <2>1, <2>2, <2>3, <2>4, <2>5, <2>6, <2>7, <2>8, <2>9 DEF Step
<1>4. CASE Execute \/ UNCHANGED vars
  BY <1>4 DEF Execute, vars, NoForeignLine
<1>5. \A t \in Tasks : ~Cancel(t)
  BY DEF Cancel
<1> QED BY <1>1, <1>2, <1>3, <1>4, <1>5 DEF Next

LEMMA OwnLinesStep ==
  ASSUME TypeOK, NoForeignLine, NoInterleavedResponses, Cancellable = {}, [Next]_vars
  PROVE  NoInterleavedResponses'
<1>1. ASSUME NEW t \in Tasks, Request(t) \/ Acquire(t) \/ Resume(t)
      PROVE  \E r : result' = [result EXCEPT ![t] = r] /\ r # "foreign"
  <2>1. CASE Request(t) \/ Acquire(t)
    BY <2>1 DEF Request, Acquire, Enter, Close, Await, Inside, Return, Left
  <2>2. CASE Answered(t)
    <3>1. awaited \in Workers /\ Return(t, thread[awaited].result)
      BY <2>2, ConstantsOK DEF Answered, Ended, TypeOK, TasksOK
    <3> QED BY <3>1 DEF Return, Left, NoForeignLine
  <2>3. CASE Opened(t) \/ Greeted(t) \/ ConnectFailed(t) \/ TransactFailed(t) \/ Closed(t)
    BY <2>3 DEF Opened, Greeted, ConnectFailed, TransactFailed, Closed, Close, Await, Inside,
                Return, Left
  <2> QED BY <1>1, <2>1, <2>2, <2>3 DEF Resume
<1>2. ASSUME NEW w \in Workers, Step(w) \/ Wedge(w)
      PROVE  result' = result
  BY <1>2 DEF Step, Wedge, Start, OpenPort, ResetInput, WriteCommand, ReadLine, ReadFragment,
              TornLine, Timeout, IoError, ClosePort, loopVars
<1>3. CASE Execute \/ UNCHANGED vars
  BY <1>3 DEF Execute, vars, loopVars, NoInterleavedResponses
<1>4. \A t \in Tasks : ~Cancel(t)
  BY DEF Cancel
<1> QED BY <1>1, <1>2, <1>3, <1>4 DEF Next, NoInterleavedResponses, TypeOK, TasksOK

\* Everything IInv says holds for any number of tasks, threads and commands,
\* when nothing is cancelled, no answer arrives after the port was opened again
\* and none comes in two pieces.
THEOREM Invariance ==
  ASSUME Cancellable = {}, "late" \notin Faults, "partial" \notin Faults
  PROVE  Spec => []IInv
<1> DEFINE Inv == TypeOK /\ WaitersInLine /\ IInv
<1>1. Init => Inv
  BY TypeInit, WaitersInit, LockInit, JobInit DEF IInv
<1>2. Inv /\ [Next]_vars => Inv'
  BY TypeStep, WaitersStep, LockStep, NoOrphansStep, JobStep, OwedStep, NoForeignLineStep,
     OwnLinesStep DEF IInv
<1>3. Inv => IInv
  OBVIOUS
<1> QED BY <1>1, <1>2, <1>3, PTL DEF Spec

\* Under the same conditions no call returns the answer to another call, however
\* often the connection fails and is dropped: "no interleaved responses".
THEOREM OwnAnswers ==
  ASSUME Cancellable = {}, "late" \notin Faults, "partial" \notin Faults
  PROVE  Spec => []NoInterleavedResponses
<1>1. IInv => NoInterleavedResponses
  BY DEF IInv
<1> QED BY <1>1, Invariance, PTL

=============================================================================
