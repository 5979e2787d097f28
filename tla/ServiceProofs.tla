--------------------------- MODULE ServiceProofs ---------------------------
(***************************************************************************)
(* What the DeviceManager does for its callers when none of them is        *)
(* cancelled: it implements SingleFlight, the lines it returns are whole   *)
(* if the meter sends them in time, and it frees the front panel.          *)
(***************************************************************************)
EXTENDS DeviceManagerProofs

-----------------------------------------------------------------------------
(* The invariants of DeviceManagerProofs that need no more than this *)

Calm == TypeOK /\ WaitersInLine /\ LockInv /\ PlaceInv /\ NoOrphans /\ JobInv

LEMMA CalmInit == Init => Calm
  BY TypeInit, WaitersInit, LockInit, JobInit DEF Calm

LEMMA CalmStep ==
  ASSUME Cancellable = {}, Calm, [Next]_vars
  PROVE  Calm'
  BY TypeStep, WaitersStep, LockStep, NoOrphansStep, JobStep DEF Calm

LEMMA CalmAlways ==
  ASSUME Cancellable = {}
  PROVE  Spec => []Calm
<1>1. Calm /\ [Next]_vars => Calm'
  BY CalmStep
<1> QED BY CalmInit, <1>1, PTL DEF Spec

\* Steps of threads and of the meter leave the callers alone.
LEMMA OutsideSteps ==
  ASSUME NEW w \in Workers, Step(w) \/ Wedge(w) \/ Execute
  PROVE  UNCHANGED <<pc, call, result, holder, waiters, serial>>
  BY DEF Step, Wedge, Execute, Start, OpenPort, ResetInput, WriteCommand, ReadLine, ReadFragment,
         TornLine, Timeout, IoError, ClosePort, loopVars

-----------------------------------------------------------------------------
(* Whole lines, as long as no answer comes in two pieces *)

LEMMA Addresses ==
  ASSUME TypeOK
  PROVE  /\ wire \in Seq(Messages) /\ Len(wire) \in Nat
         /\ input \in Seq(Lines) /\ Len(input) \in Nat
         /\ \A i \in 1 .. Len(wire) : wire[i] \in Messages /\ wire[i].to \in Workers \cup {None}
         /\ \A i \in 1 .. Len(input) : input[i] \in Lines /\ input[i].to \in Workers \cup {None}
<1>1. wire \in Seq(Messages) /\ input \in Seq(Lines)
  BY DEF TypeOK, PortOK
<1>2. /\ Len(wire) \in Nat /\ Len(input) \in Nat
      /\ \A i \in 1 .. Len(wire) : wire[i] \in Messages
      /\ \A i \in 1 .. Len(input) : input[i] \in Lines
  BY <1>1, ElementOfSeq, LenProperties
<1>3. /\ \A m \in Messages : m.to \in Workers \cup {None}
      /\ \A m \in Lines : m.to \in Workers \cup {None}
  BY DEF Messages, Lines
<1> QED BY <1>1, <1>2, <1>3

\* No line is cut in two, nor has any been returned cut.
WholeLines ==
  /\ \A i \in 1 .. Len(wire) : wire[i].cmd # Rest
  /\ \A i \in 1 .. Len(input) : input[i].part = "all"
  /\ \A w \in Workers : thread[w].result # "fragment"
  /\ CompleteLines

\* Forgetting changes the addresses of lines and messages, nothing else.
LEMMA ForgetLength ==
  ASSUME NEW w, NEW S, NEW s \in Seq(S), Forget(w, s) \in Seq(S)
  PROVE  Len(Forget(w, s)) = Len(s)
<1> DEFINE f == [i \in 1 .. Len(s) |-> IF s[i].to = w THEN [s[i] EXCEPT !.to = None] ELSE s[i]]
<1>1. Forget(w, s) = f /\ DOMAIN f = 1 .. Len(s) /\ Len(s) \in Nat
  BY LenProperties DEF Forget
<1>2. DOMAIN f = 1 .. Len(f) /\ Len(f) \in Nat
  BY <1>1, LenProperties
<1> HIDE DEF f
<1> QED BY <1>1, <1>2

LEMMA ForgetLines ==
  ASSUME NEW w \in Workers, NEW s \in Seq(Lines)
  PROVE  /\ Len(Forget(w, s)) = Len(s) /\ Len(s) \in Nat
         /\ \A i \in 1 .. Len(s) : /\ s[i] \in Lines
                                   /\ Forget(w, s)[i].to \in {None, s[i].to} \ {w}
                                   /\ Forget(w, s)[i].part = s[i].part
<1>1. Len(s) \in Nat /\ \A i \in 1 .. Len(s) : s[i] \in Lines
  BY LenProperties, ElementOfSeq
<1>2. \A i \in 1 .. Len(s) : /\ Forget(w, s)[i].to \in {None, s[i].to} \ {w}
                             /\ Forget(w, s)[i].part = s[i].part
  BY <1>1, ConstantsOK DEF Forget, Lines
<1> QED BY <1>1, <1>2, ForgetInput, ForgetLength

LEMMA ForgetMessages ==
  ASSUME NEW w \in Workers, NEW s \in Seq(Messages)
  PROVE  /\ Len(Forget(w, s)) = Len(s) /\ Len(s) \in Nat
         /\ \A i \in 1 .. Len(s) : /\ s[i] \in Messages
                                   /\ Forget(w, s)[i].to \in {None, s[i].to} \ {w}
                                   /\ Forget(w, s)[i].cmd = s[i].cmd
<1>1. Len(s) \in Nat /\ \A i \in 1 .. Len(s) : s[i] \in Messages
  BY LenProperties, ElementOfSeq
<1>2. \A i \in 1 .. Len(s) : /\ Forget(w, s)[i].to \in {None, s[i].to} \ {w}
                             /\ Forget(w, s)[i].cmd = s[i].cmd
  BY <1>1, ConstantsOK DEF Forget, Messages
<1> QED BY <1>1, <1>2, ForgetWire, ForgetLength

\* The rest of the input buffer, and what is forgotten in it.
LEMMA RestOfInput ==
  ASSUME NEW w \in Workers, NEW s \in Seq(Lines), s # <<>>
  PROVE  /\ Head(s) = s[1] /\ 1 \in 1 .. Len(s)
         /\ \A i \in 1 .. Len(Forget(w, Tail(s))) :
              /\ i + 1 \in 1 .. Len(s)
              /\ Forget(w, Tail(s))[i].to \in {None, s[i + 1].to} \ {w}
              /\ Forget(w, Tail(s))[i].part = s[i + 1].part
<1> DEFINE q == Tail(s)
<1>1. /\ q \in Seq(Lines) /\ Len(s) \in Nat /\ Len(s) > 0 /\ Head(s) = s[1]
      /\ Len(q) = Len(s) - 1 /\ \A i \in 1 .. Len(q) : q[i] = s[i + 1]
  BY HeadTailProperties, LenProperties, EmptySeq
<1> HIDE DEF q
<1>2. /\ Len(Forget(w, q)) = Len(q)
      /\ \A i \in 1 .. Len(q) : /\ Forget(w, q)[i].to \in {None, q[i].to} \ {w}
                                /\ Forget(w, q)[i].part = q[i].part
  BY <1>1, ForgetLines
<1>3. \A i \in 1 .. Len(q) : i + 1 \in 1 .. Len(s)
  BY <1>1
<1>4. /\ Head(s) = s[1] /\ 1 \in 1 .. Len(s)
      /\ \A i \in 1 .. Len(Forget(w, q)) :
           /\ i + 1 \in 1 .. Len(s)
           /\ Forget(w, q)[i].to \in {None, s[i + 1].to} \ {w}
           /\ Forget(w, q)[i].part = s[i + 1].part
  BY <1>1, <1>2, <1>3
<1> QED BY <1>4 DEF q

LEMMA FinishWhole ==
  ASSUME TypeOK, WholeLines, NEW w \in Workers, NEW r, r # "fragment", NEW h, Finish(w, r, h)
  PROVE  \A v \in Workers : thread'[v].result # "fragment"
<1> DEFINE d == [thread[w] EXCEPT !.step = "done", !.result = r, !.handle = h]
<1>1. d.result = r /\ Idle.result = "none"
  BY DEF Jobs, TypeOK, Idle, Job
<1>2. thread' = [thread EXCEPT ![w] = IF w = awaited THEN d ELSE Idle]
  BY DEF Finish
<1> HIDE DEF d
<1> QED BY <1>1, <1>2 DEF TypeOK, WholeLines

LEMMA LostMessages ==
  ASSUME NEW s \in Seq(Messages)
  PROVE  /\ Len(Lost(s)) = Len(s) /\ Len(s) \in Nat
         /\ \A i \in 1 .. Len(s) : /\ Lost(s)[i].to = s[i].to
                                   /\ Lost(s)[i].cmd \in {None, s[i].cmd}
                                   /\ s[i].cmd \notin Answerable => Lost(s)[i].cmd = s[i].cmd
<1>1. Len(s) \in Nat /\ \A i \in 1 .. Len(s) : s[i] \in Messages
  BY LenProperties, ElementOfSeq
<1>2. Len(Lost(s)) = Len(s)
  <2>1. DOMAIN Lost(s) = 1 .. Len(s)
    BY DEF Lost
  <2> QED BY <1>1, <2>1, LostWire, LenProperties
<1>3. \A i \in 1 .. Len(s) : /\ Lost(s)[i].to = s[i].to
                             /\ Lost(s)[i].cmd \in {None, s[i].cmd}
                             /\ s[i].cmd \notin Answerable => Lost(s)[i].cmd = s[i].cmd
  <2> SUFFICES ASSUME NEW i \in 1 .. Len(s)
               PROVE  /\ Lost(s)[i].to = s[i].to
                      /\ Lost(s)[i].cmd \in {None, s[i].cmd}
                      /\ s[i].cmd \notin Answerable => Lost(s)[i].cmd = s[i].cmd
    OBVIOUS
  <2>1. CASE s[i].cmd \in Answerable
    <3>1. s[i] \in Messages
      BY <1>1
    <3>2. Lost(s)[i] = [s[i] EXCEPT !.cmd = None]
      BY <2>1 DEF Lost
    <3> QED BY <2>1, <3>1, <3>2 DEF Messages
  <2>2. CASE s[i].cmd \notin Answerable
    <3>1. Lost(s)[i] = s[i]
      BY <2>2 DEF Lost
    <3> QED BY <3>1
  <2> QED BY <2>1, <2>2
<1> QED BY <1>1, <1>2, <1>3

LEMMA WholeWire ==
  ASSUME TypeOK, WholeLines, NEW w \in Workers, Step(w) \/ Wedge(w)
  PROVE  \A i \in 1 .. Len(wire') : wire'[i].cmd # Rest
<1>1. wire \in Seq(Messages) /\ Rest # None
  BY ConstantsOK DEF TypeOK, PortOK
<1>2. CASE wire' = wire
  BY <1>2 DEF WholeLines
<1>3. CASE wire' = Forget(w, wire)
  BY <1>1, <1>3, ForgetMessages DEF WholeLines
<1>4. CASE wire' = Lost(wire)
  BY <1>1, <1>4, LostMessages DEF WholeLines
<1>5. ASSUME NEW m, wire' = Append(wire, m), m.cmd = thread[w].cmd
      PROVE  \A i \in 1 .. Len(wire') : wire'[i].cmd # Rest
  <2>1. m.cmd # Rest
    BY <1>5, ConstantsOK DEF TypeOK, Jobs, Commands
  <2>2. /\ Len(wire) \in Nat /\ Len(wire') = Len(wire) + 1 /\ wire'[Len(wire) + 1] = m
        /\ \A i \in 1 .. Len(wire) : wire'[i] = wire[i]
    BY <1>1, <1>5
  <2> QED BY <2>1, <2>2 DEF WholeLines
<1>6. CASE WriteCommand(w)
  <2>1. wire' = Append(wire, Message(w)) /\ Message(w).cmd = thread[w].cmd
    BY <1>6 DEF WriteCommand, Message
  <2> QED BY <1>5, <2>1
<1>7. CASE IoError(w)
  <2>1. [cmd |-> thread[w].cmd, to |-> None].cmd = thread[w].cmd
    OBVIOUS
  <2>2. wire' = Forget(w, wire) \/ wire' = Append(wire, [cmd |-> thread[w].cmd, to |-> None])
    BY <1>7 DEF IoError
  <2> QED BY <1>3, <1>5, <2>1, <2>2
<1> QED BY <1>2, <1>3, <1>4, <1>6, <1>7
        DEF Step, Start, OpenPort, ResetInput, ReadLine, ReadFragment, TornLine, Timeout, ClosePort,
            Wedge, portVars

LEMMA WholeInput ==
  ASSUME TypeOK, WholeLines, NEW w \in Workers, Step(w) \/ Wedge(w),
         ~ReadFragment(w), ~TornLine(w)
  PROVE  \A i \in 1 .. Len(input') : input'[i].part = "all"
<1>1. input \in Seq(Lines)
  BY DEF TypeOK, PortOK
<1>2. CASE input' = input
  BY <1>2 DEF WholeLines
<1>3. CASE input' = <<>>
  BY <1>3, EmptySeq
<1>4. CASE input' = Forget(w, input)
  BY <1>1, <1>4, ForgetLines DEF WholeLines
<1>5. CASE input # <<>> /\ input' = Forget(w, Tail(input))
  BY <1>1, <1>5, RestOfInput DEF WholeLines
<1> QED BY <1>2, <1>3, <1>4, <1>5
        DEF Step, Start, OpenPort, ResetInput, WriteCommand, ReadLine, Timeout, IoError, ClosePort,
            Wedge, portVars

LEMMA WholeStep ==
  ASSUME Calm, WholeLines, Cancellable = {}, "partial" \notin Faults, [Next]_vars
  PROVE  WholeLines'
<1> USE DEF Calm
<1>a. thread \in [Workers -> Jobs] /\ input \in Seq(Lines)
  BY DEF TypeOK, PortOK
<1>1. ASSUME NEW t \in Tasks, Request(t) \/ Acquire(t) \/ Resume(t)
      PROVE  WholeLines'
  <2>1. \E r : result' = [result EXCEPT ![t] = r] /\ r # "fragment"
    <3>1. CASE Request(t) \/ Acquire(t)
      BY <3>1 DEF Request, Acquire, Enter, Close, Await, Inside, Return, Left
    <3>2. CASE Answered(t)
      BY <3>2, ConstantsOK DEF Answered, Ended, Return, Left, WholeLines, TypeOK, TasksOK
    <3>3. CASE Opened(t) \/ Greeted(t) \/ ConnectFailed(t) \/ TransactFailed(t) \/ Closed(t)
      BY <3>3 DEF Opened, Greeted, ConnectFailed, TransactFailed, Closed, Close, Await, Inside,
                  Return, Left
    <3> QED BY <1>1, <3>1, <3>2, <3>3 DEF Resume
  <2>2. /\ input' = input /\ wire' = wire
        /\ thread' = thread \/ thread' = [thread EXCEPT ![awaited] = Idle]
    BY <1>1 DEF Request, Acquire, Resume, Opened, Greeted, ConnectFailed, Answered, TransactFailed,
                Closed, Ended, portVars
  <2>3. \A w \in Workers : thread'[w].result # "fragment"
    BY <1>a, <2>2 DEF WholeLines, Idle, Job
  <2>4. CompleteLines'
    BY <2>1 DEF CompleteLines, WholeLines, TypeOK, TasksOK
  <2> QED BY <2>2, <2>3, <2>4 DEF WholeLines
<1>2. ASSUME NEW w \in Workers, Step(w) \/ Wedge(w)
      PROVE  WholeLines'
  <2>1. ~ReadFragment(w)
    BY <1>a, RestOfInput DEF ReadFragment, WholeLines
  <2>a. ~TornLine(w)
    <3> SUFFICES ASSUME TornLine(w) PROVE FALSE
      OBVIOUS
    <3>1. PICK v \in Workers \ {w} : At(v, "read")
      BY DEF TornLine
    <3> QED BY <3>1 DEF TornLine, At, NoOrphans
  <2>2. \A v \in Workers : thread'[v].result # "fragment"
    <3>1. CASE Start(w)
      BY <1>a, <3>1 DEF Start, WholeLines, JobInv
    <3>2. ASSUME NEW r, NEW h, Finish(w, r, h), r # "fragment"
          PROVE  \A v \in Workers : thread'[v].result # "fragment"
      BY <3>2, FinishWhole
    <3>3. CASE OpenPort(w) \/ Timeout(w) \/ IoError(w) \/ ClosePort(w)
      BY <3>2, <3>3 DEF OpenPort, Timeout, IoError, ClosePort
    <3>4. CASE ResetInput(w)
      <4>1. CASE thread' = [thread EXCEPT ![w].step = "write", ![w].handle = serial]
        BY <1>a, <4>1 DEF WholeLines, Jobs
      <4> QED BY <3>2, <3>4, <4>1 DEF ResetInput
    <3>5. CASE WriteCommand(w) \/ Wedge(w)
      <4>1. ASSUME NEW step, Advance(w, step)
            PROVE  \A v \in Workers : thread'[v].result # "fragment"
        BY <1>a, <4>1 DEF Advance, WholeLines, Jobs
      <4> QED BY <3>2, <3>5, <4>1 DEF WriteCommand, Wedge
    <3>6. CASE ReadLine(w)
      <4>1. Head(input).part = "all"
        BY <1>a, <3>6, RestOfInput DEF ReadLine, WholeLines
      <4> QED BY <3>2, <3>6, <4>1 DEF ReadLine
    <3> QED BY <1>2, <2>1, <2>a, <3>1, <3>3, <3>4, <3>5, <3>6 DEF Step
  <2>3. CompleteLines'
    BY <1>2, OutsideSteps DEF WholeLines, CompleteLines
  <2> QED BY <1>2, <2>1, <2>a, <2>2, <2>3, WholeInput, WholeWire DEF WholeLines
<1>3. CASE Execute
  <2>1. /\ thread' = thread /\ result' = result /\ wire # <<>>
    BY <1>3 DEF Execute, loopVars
  <2>2. /\ wire \in Seq(Messages) /\ Head(wire) = wire[1] /\ 1 \in 1 .. Len(wire)
        /\ Len(Tail(wire)) = Len(wire) - 1 /\ Len(wire) \in Nat
        /\ \A i \in 1 .. Len(Tail(wire)) : Tail(wire)[i] = wire[i + 1]
    BY <2>1, HeadTailProperties, LenProperties, EmptySeq DEF TypeOK, PortOK
  <2>3. Head(wire).cmd # Rest
    BY <2>2 DEF WholeLines
  <2>4. /\ wire' = Tail(wire)
        /\ input' = input \/ \E a : input' = Append(input, [to |-> a, part |-> "all"])
    BY <1>3, <2>3 DEF Execute
  <2>5. \A i \in 1 .. Len(wire') : wire'[i].cmd # Rest
    BY <2>2, <2>4 DEF WholeLines
  <2>6. ASSUME NEW a, input' = Append(input, [to |-> a, part |-> "all"])
        PROVE  \A i \in 1 .. Len(input') : input'[i].part = "all"
    <3> DEFINE m == [to |-> a, part |-> "all"]
    <3>1. /\ Len(input) \in Nat /\ Len(input') = Len(input) + 1 /\ input'[Len(input) + 1] = m
          /\ \A i \in 1 .. Len(input) : input'[i] = input[i]
      BY <1>a, <2>6
    <3>2. m.part = "all"
      OBVIOUS
    <3> HIDE DEF m
    <3> QED BY <3>1, <3>2 DEF WholeLines
  <2> QED BY <2>1, <2>4, <2>5, <2>6 DEF WholeLines, CompleteLines
<1>4. CASE UNCHANGED vars
  BY <1>4 DEF vars, loopVars, portVars, WholeLines, CompleteLines
<1>5. \A t \in Tasks : ~Cancel(t)
  BY DEF Cancel
<1> QED BY <1>1, <1>2, <1>3, <1>4, <1>5 DEF Next

\* "read one response line": lines are cut only where an answer came in two pieces.
\* When the meter sends every answer in one piece no other reader can take a part of
\* it, even if answers to queries that were given up come late.
THEOREM WholeLinesReturned ==
  ASSUME Cancellable = {}, "partial" \notin Faults
  PROVE  Spec => []CompleteLines
<1>1. Init => WholeLines
  BY EmptySeq DEF Init, WholeLines, CompleteLines, Idle, Job
<1>2. Calm /\ WholeLines /\ [Next]_vars => WholeLines'
  BY WholeStep
<1>3. WholeLines => CompleteLines
  BY DEF WholeLines
<1> QED BY <1>1, <1>2, <1>3, CalmAlways, PTL DEF Spec

-----------------------------------------------------------------------------
(* The refinement of SingleFlight *)

\* Whoever is in a call has no result yet.
NoResultYet == \A t \in Tasks : pc[t] # "idle" => result[t] = "none"

LEMMA NoResultYetStep ==
  ASSUME TypeOK, NoResultYet, Cancellable = {}, [Next]_vars
  PROVE  NoResultYet'
<1>1. ASSUME NEW t \in Tasks, NEW c, NEW at, Inside(t, c, at)
      PROVE  NoResultYet'
  BY <1>1 DEF Inside, NoResultYet, TypeOK, TasksOK
<1>2. ASSUME NEW t \in Tasks, NEW r, Left(t, r)
      PROVE  NoResultYet'
  BY <1>2 DEF Left, NoResultYet, TypeOK, TasksOK
<1>3. ASSUME NEW t \in Tasks, NEW c, NEW r, Close(t, c, r)
      PROVE  NoResultYet'
  BY <1>1, <1>2, <1>3 DEF Close, Await, Return
<1>4. ASSUME NEW t \in Tasks, NEW c, Enter(t, c)
      PROVE  NoResultYet'
  BY <1>1, <1>3, <1>4 DEF Enter, Await
<1>5. ASSUME NEW t \in Tasks, Request(t) \/ Acquire(t)
      PROVE  NoResultYet'
  BY <1>1, <1>4, <1>5 DEF Request, Acquire
<1>6. ASSUME NEW t \in Tasks, Resume(t)
      PROVE  NoResultYet'
  BY <1>1, <1>2, <1>3, <1>6 DEF Resume, Opened, Greeted, ConnectFailed, Answered, TransactFailed,
     Closed, Await, Return
<1>7. ASSUME NEW w \in Workers, Step(w) \/ Wedge(w)
      PROVE  NoResultYet'
  BY <1>7, OutsideSteps DEF NoResultYet
<1>8. CASE Execute \/ UNCHANGED vars
  BY <1>8 DEF Execute, vars, loopVars, NoResultYet
<1>9. \A t \in Tasks : ~Cancel(t)
  BY DEF Cancel
<1> QED BY <1>5, <1>6, <1>7, <1>8, <1>9 DEF Next

\* The endings of a call, as SingleFlight knows them.
ServiceEndings == Outcomes \ {"none", "foreign", "fragment", "cancelled"}

\* A task that holds the lock goes on, and nobody sees it.
LEMMA AwaitServes ==
  ASSUME TypeOK, NoResultYet, NEW t \in Tasks, NEW c, NEW job, NEW at, holder = t,
         pc[t] # "idle", Await(t, c, job, at)
  PROVE  holder' = holder /\ result' = result
  BY DEF Await, Inside, NoResultYet, TypeOK, TasksOK

\* A task that returns ends what it was served.
LEMMA ReturnServes ==
  ASSUME ConstantsOK, NEW t \in Tasks, NEW r \in ServiceEndings, holder = t, Return(t, r),
         waiters' = waiters
  PROVE  Service!Leave
<1>1. holder # None /\ holder' = None /\ result' = [result EXCEPT ![t] = r]
  BY ConstantsOK DEF Return, Left
<1> QED BY <1>1 DEF Service!Leave, Service!Ends, ServiceEndings

LEMMA CloseServes ==
  ASSUME TypeOK, NoResultYet, NEW t \in Tasks, NEW c, NEW r \in ServiceEndings, holder = t,
         pc[t] # "idle", Close(t, c, r), waiters' = waiters
  PROVE  [Service!Next]_<<holder, waiters, result>>
<1>1. CASE Return(t, r)
  BY <1>1, ConstantsOK, ReturnServes DEF Service!Next
<1>2. CASE Await(t, c, CloseJob, "closing")
  BY <1>2, AwaitServes
<1> QED BY <1>1, <1>2 DEF Close

\* A task that enters is served, or over and done with at once.
LEMMA EnterServes ==
  ASSUME NEW t \in Tasks, NEW c, holder = None, Enter(t, c)
  PROVE  \/ holder' = t /\ result' = [result EXCEPT ![t] = "none"]
         \/ holder' = None /\ \E r \in ServiceEndings : result' = [result EXCEPT ![t] = r]
<1>1. "ok" \in ServiceEndings
  BY DEF ServiceEndings, Outcomes
<1>2. ASSUME NEW job, NEW at, Await(t, c, job, at)
      PROVE  holder' = t /\ result' = [result EXCEPT ![t] = "none"]
  BY <1>2 DEF Await, Inside
<1>3. CASE Return(t, "ok")
  BY <1>1, <1>3 DEF Return, Left
<1> QED BY <1>2, <1>3 DEF Enter, Close

LEMMA ServiceStep ==
  ASSUME Calm, NoForeignLine, WholeLines, NoResultYet, Cancellable = {}, [Next]_vars
  PROVE  [Service!Next]_<<holder, waiters, result>>
<1> USE DEF Calm
<1>1. ASSUME NEW t \in Tasks, Request(t)
      PROVE  Service!Next
  <2>1. PICK c \in Calls :
          \/ holder = None /\ waiters = <<>> /\ Enter(t, c) /\ waiters' = waiters
          \/ /\ Inside(t, c, "waiting") /\ waiters' = Append(waiters, t)
             /\ holder' = holder
    BY <1>1 DEF Request
  <2>2. CASE holder = None /\ waiters = <<>> /\ Enter(t, c) /\ waiters' = waiters
    <3>1. Service!Enter(t)
      BY <2>2, EnterServes DEF Service!Enter, Service!Begins, Service!Ends, ServiceEndings
    <3> QED BY <3>1 DEF Service!Next
  <2>3. CASE Inside(t, c, "waiting") /\ waiters' = Append(waiters, t) /\ holder' = holder
    <3>1. pc[t] = "idle" /\ holder # t
      BY <1>1 DEF Request, LockInv, HasLock
    <3>2. ~Service!Waiting(t)
      BY <3>1 DEF WaitersInLine, Service!Waiting
    <3>3. Service!Join(t)
      BY <2>3, <3>1, <3>2 DEF Service!Join, Service!Begins, Inside
    <3> QED BY <3>3 DEF Service!Next
  <2> QED BY <2>1, <2>2, <2>3
<1>2. ASSUME NEW t \in Tasks, Acquire(t)
      PROVE  Service!Next
  <2>1. /\ holder = None /\ waiters # <<>> /\ Head(waiters) = t /\ waiters' = Tail(waiters)
        /\ Enter(t, call[t])
    BY <1>2 DEF Acquire
  <2>2. Service!Take
    BY <2>1, EnterServes DEF Service!Take, Service!Begins, Service!Ends, ServiceEndings
  <2> QED BY <2>2 DEF Service!Next
<1>3. ASSUME NEW t \in Tasks, Resume(t)
      PROVE  [Service!Next]_<<holder, waiters, result>>
  <2>1. /\ holder = t /\ pc[t] # "idle" /\ waiters' = waiters
        /\ thread[awaited].result \notin {"foreign", "fragment"} /\ awaited \in Workers
    BY <1>3, ConstantsOK DEF Resume, Opened, Greeted, ConnectFailed, Answered, TransactFailed,
       Closed, Ended, NoForeignLine, WholeLines, TypeOK, TasksOK
  <2>2. {"ok", "DeviceError", "TransportError", "OSError"} \subseteq ServiceEndings
    BY DEF ServiceEndings, Outcomes
  <2>3. ASSUME NEW c, NEW job, NEW at, Await(t, c, job, at)
        PROVE  [Service!Next]_<<holder, waiters, result>>
    BY <2>1, <2>3, AwaitServes
  <2>4. ASSUME NEW r \in ServiceEndings, Return(t, r)
        PROVE  [Service!Next]_<<holder, waiters, result>>
    BY <2>1, <2>4, ConstantsOK, ReturnServes DEF Service!Next
  <2>5. CASE Opened(t)
    BY <2>3, <2>5 DEF Opened
  <2>6. CASE Greeted(t)
    BY <2>2, <2>3, <2>4, <2>6 DEF Greeted
  <2>7. CASE ConnectFailed(t) \/ TransactFailed(t)
    BY <2>1, <2>2, <2>4, <2>7, CloseServes DEF ConnectFailed, TransactFailed
  <2>8. CASE Answered(t)
    <3>1. thread[awaited].result \in ServiceEndings
      BY <2>1, <2>8 DEF Answered, Ended, ServiceEndings, Outcomes, Responses
    <3> QED BY <2>4, <2>8, <3>1 DEF Answered
  <2>9. CASE Closed(t)
    BY <2>2, <2>4, <2>9 DEF Closed
  <2> QED BY <1>3, <2>5, <2>6, <2>7, <2>8, <2>9 DEF Resume
<1>4. ASSUME NEW w \in Workers, Step(w) \/ Wedge(w)
      PROVE  UNCHANGED <<holder, waiters, result>>
  BY <1>4, OutsideSteps
<1>5. CASE Execute \/ UNCHANGED vars
  BY <1>5 DEF Execute, vars, loopVars
<1>6. \A t \in Tasks : ~Cancel(t)
  BY DEF Cancel
<1> QED BY <1>1, <1>2, <1>3, <1>4, <1>5, <1>6 DEF Next

\* What the callers rely on, "each command is a single-flight transaction", for
\* any number of them: one at a time, first come first served, and every call
\* ends with its own whole answer or an error, as long as no call is cancelled, no
\* answer arrives after its connection was given up and none comes in two pieces.
THEOREM ImplementsSingleFlight ==
  ASSUME Cancellable = {}, "late" \notin Faults, "partial" \notin Faults
  PROVE  Spec => Service!Spec
<1> DEFINE Inv == Calm /\ IInv /\ NoResultYet /\ WholeLines
<1>1. Spec => []Inv
  <2>1. Init => NoResultYet
    BY DEF Init, NoResultYet
  <2>2. TypeOK /\ NoResultYet /\ [Next]_vars => NoResultYet'
    BY NoResultYetStep
  <2>3. Calm => TypeOK
    BY DEF Calm
  <2>4. Init => WholeLines
    BY EmptySeq DEF Init, WholeLines, CompleteLines, Idle, Job
  <2>5. Calm /\ WholeLines /\ [Next]_vars => WholeLines'
    BY WholeStep
  <2> QED BY <2>1, <2>2, <2>3, <2>4, <2>5, CalmAlways, Invariance, PTL DEF Spec
<1>2. Init => Service!Init
  BY DEF Init, Service!Init
<1>3. Inv /\ [Next]_vars => [Service!Next]_(Service!vars)
  BY ServiceStep DEF IInv, Service!vars
<1> QED BY <1>1, <1>2, <1>3, PTL DEF Spec, Service!Spec

-----------------------------------------------------------------------------
(* The front panel: the meter executes SYST:LOC before any query *)

\* Whoever a line or a command is for reads at this moment.
Awaited(s, th) == \A i \in 1 .. Len(s) : s[i].to # None => th[s[i].to].step = "read"
Addressed == Awaited(wire, thread) /\ Awaited(input, thread)

\* Steps that give up nothing keep every reader.
LEMMA AddressedKept ==
  ASSUME TypeOK, Addressed, wire' \in {wire, Lost(wire)}, input' \in {input, <<>>},
         \A v \in Workers : thread[v].step = "read" => thread'[v].step = "read"
  PROVE  Addressed'
<1>1. /\ \A i \in 1 .. Len(wire) : wire[i].to \in Workers \cup {None}
      /\ \A i \in 1 .. Len(input) : input[i].to \in Workers \cup {None}
  BY Addresses
<1>2. Awaited(wire', thread')
  <2>1. CASE wire' = wire
    BY <1>1, <2>1 DEF Addressed, Awaited
  <2>2. CASE wire' = Lost(wire)
    <3>1. Len(wire') = Len(wire) /\ \A i \in 1 .. Len(wire) : wire'[i].to = wire[i].to
      BY <2>2, Addresses, LostMessages
    <3> QED BY <1>1, <3>1 DEF Addressed, Awaited
  <2> QED BY <2>1, <2>2
<1>3. Awaited(input', thread')
  <2>1. CASE input' = input
    BY <1>1, <2>1 DEF Addressed, Awaited
  <2>2. CASE input' = <<>>
    BY <2>2, EmptySeq DEF Awaited
  <2> QED BY <2>1, <2>2
<1> QED BY <1>2, <1>3 DEF Addressed

\* A line that is cut stays for the one it is for.
LEMMA CutLine ==
  ASSUME NEW s \in Seq(Lines), s # <<>>
  PROVE  /\ [s EXCEPT ![1].part = "rest"] \in Seq(Lines)
         /\ Len([s EXCEPT ![1].part = "rest"]) = Len(s)
         /\ \A i \in 1 .. Len(s) : [s EXCEPT ![1].part = "rest"][i].to = s[i].to
<1> DEFINE z == [s EXCEPT ![1].part = "rest"]
<1>1. /\ Len(s) \in Nat /\ Len(s) > 0 /\ \A i \in 1 .. Len(s) : s[i] \in Lines
      /\ s \in [1 .. Len(s) -> Lines]
  BY ElementOfSeq, LenProperties, EmptySeq
<1> DEFINE x == [s[1] EXCEPT !.part = "rest"]
<1>2. x \in Lines /\ x.to = s[1].to /\ z = [s EXCEPT ![1] = x]
  <2>1. s[1] \in Lines
    BY <1>1
  <2>2. x \in Lines /\ x.to = s[1].to
    BY <2>1 DEF Lines
  <2>3. z = [s EXCEPT ![1] = x]
    OBVIOUS
  <2> QED BY <2>2, <2>3
<1> HIDE DEF x
<1>3. z \in [1 .. Len(s) -> Lines] /\ \A i \in 1 .. Len(s) : z[i].to = s[i].to
  BY <1>1, <1>2
<1>4. z \in Seq(Lines) /\ Len(z) = Len(s)
  BY <1>1, <1>3, SeqDef, LenProperties
<1> QED BY <1>3, <1>4

\* The same of a command the meter has begun to answer.
LEMMA BegunMessage ==
  ASSUME NEW s \in Seq(Messages), s # <<>>
  PROVE  /\ Len([s EXCEPT ![1].cmd = Rest]) = Len(s)
         /\ \A i \in 1 .. Len(s) : /\ [s EXCEPT ![1].cmd = Rest][i].to = s[i].to
                                   /\ i # 1 => [s EXCEPT ![1].cmd = Rest][i].cmd = s[i].cmd
<1> DEFINE z == [s EXCEPT ![1].cmd = Rest]
<1>1. /\ Len(s) \in Nat /\ Len(s) > 0 /\ \A i \in 1 .. Len(s) : s[i] \in Messages
      /\ s \in [1 .. Len(s) -> Messages]
  BY ElementOfSeq, LenProperties, EmptySeq
<1> DEFINE x == [s[1] EXCEPT !.cmd = Rest]
<1>2. x \in Messages /\ x.to = s[1].to /\ z = [s EXCEPT ![1] = x]
  <2>1. s[1] \in Messages
    BY <1>1
  <2>2. x \in Messages /\ x.to = s[1].to
    BY <2>1 DEF Messages
  <2>3. z = [s EXCEPT ![1] = x]
    OBVIOUS
  <2> QED BY <2>2, <2>3
<1> HIDE DEF x
<1>3. /\ z \in [1 .. Len(s) -> Messages]
      /\ \A i \in 1 .. Len(s) : z[i].to = s[i].to /\ (i # 1 => z[i] = s[i])
  BY <1>1, <1>2
<1>4. Len(z) = Len(s)
  BY <1>1, <1>3, SeqDef, LenProperties
<1> QED BY <1>3, <1>4

\* The rest of an answer is for whoever its beginning is for, or for a.
LEMMA CompletedLines ==
  ASSUME TypeOK, NEW a, input' = Completed(a)
  PROVE  \A i \in 1 .. Len(input') :
           (i \in 1 .. Len(input) /\ input'[i].to = input[i].to) \/ input'[i].to = a
<1>1. input \in Seq(Lines) /\ Len(input) \in Nat
  BY LenProperties DEF TypeOK, PortOK
<1>2. CASE input # <<>> /\ input[Len(input)].part = "begin"
  <2> DEFINE n == Len(input)
             m == [input[n] EXCEPT !.part = "all"]
  <2>1. n \in 1 .. n /\ input[n] \in Lines /\ input \in [1 .. n -> Lines]
    BY <1>1, <1>2, LenProperties, EmptySeq, ElementOfSeq
  <2>2. m \in Lines /\ m.to = input[n].to
    BY <2>1 DEF Lines
  <2>3. input' = [input EXCEPT ![n] = m]
    BY <1>2 DEF Completed
  <2> HIDE DEF m
  <2>4. input' \in [1 .. n -> Lines] /\ \A i \in 1 .. n : input'[i].to = input[i].to
    BY <2>1, <2>2, <2>3
  <2>5. Len(input') = n
    BY <1>1, <2>4, SeqDef, LenProperties
  <2> QED BY <2>4, <2>5
<1>3. CASE ~(input # <<>> /\ input[Len(input)].part = "begin")
  <2> DEFINE m == [to |-> a, part |-> "rest"]
  <2>1. input' = Append(input, m) /\ m.to = a
    BY <1>3 DEF Completed
  <2> HIDE DEF m
  <2>2. /\ Len(input') = Len(input) + 1 /\ input'[Len(input) + 1] = m
        /\ \A i \in 1 .. Len(input) : input'[i] = input[i]
    BY <1>1, <2>1
  <2> QED BY <1>1, <2>1, <2>2
<1> QED BY <1>2, <1>3

\* What a step of the meter leaves in the buffer and on the wire: the line it
\* answers with is for whoever the command was for.
LEMMA ExecuteAddresses ==
  ASSUME TypeOK, Execute
  PROVE  /\ Len(wire) \in Nat /\ 1 \in 1 .. Len(wire) /\ wire[1] \in Messages
         /\ \/ /\ Len(wire') = Len(wire) - 1
               /\ \A i \in 1 .. Len(wire') : wire'[i] = wire[i + 1]
            \/ /\ Len(wire') = Len(wire) /\ wire[1].cmd \in Queries
               /\ \A i \in 1 .. Len(wire) : /\ wire'[i].to = wire[i].to
                                            /\ i # 1 => wire'[i].cmd = wire[i].cmd
         /\ \A i \in 1 .. Len(input') :
              \/ i \in 1 .. Len(input) /\ input'[i].to = input[i].to
              \/ wire[1].cmd \in Answerable /\ input'[i].to = wire[1].to
<1>1. /\ wire # <<>> /\ wire \in Seq(Messages) /\ input \in Seq(Lines)
      /\ wire[1] \in Messages /\ 1 \in 1 .. Len(wire) /\ Head(wire) = wire[1]
      /\ Len(wire) \in Nat /\ Len(input) \in Nat
      /\ Len(Tail(wire)) = Len(wire) - 1
      /\ \A i \in 1 .. Len(Tail(wire)) : Tail(wire)[i] = wire[i + 1]
  BY Addresses, HeadTailProperties, LenProperties, EmptySeq DEF Execute
<1>2. ASSUME NEW p, input' = Append(input, [to |-> wire[1].to, part |-> p])
      PROVE  \A i \in 1 .. Len(input') :
               (i \in 1 .. Len(input) /\ input'[i].to = input[i].to) \/ input'[i].to = wire[1].to
  <2> DEFINE m == [to |-> wire[1].to, part |-> p]
  <2>1. m.to = wire[1].to
    OBVIOUS
  <2> HIDE DEF m
  <2>2. /\ Len(input') = Len(input) + 1 /\ input'[Len(input) + 1] = m
        /\ \A i \in 1 .. Len(input) : input'[i] = input[i]
    BY <1>1, <1>2 DEF m
  <2> QED BY <1>1, <2>1, <2>2
<1>3. CASE wire' = Tail(wire) /\ input' = input
  BY <1>1, <1>3
<1>4. CASE /\ wire[1].cmd \in Queries /\ wire' = Tail(wire)
           /\ input' = Append(input, [to |-> wire[1].to, part |-> "all"])
  BY <1>1, <1>2, <1>4 DEF Answerable
<1>5. CASE /\ wire[1].cmd \in Queries /\ wire' = [wire EXCEPT ![1].cmd = Rest]
           /\ input' = Append(input, [to |-> wire[1].to, part |-> "begin"])
  BY <1>1, <1>2, <1>5, BegunMessage DEF Answerable
<1>6. CASE wire[1].cmd = Rest /\ wire' = Tail(wire) /\ input' = Completed(wire[1].to)
  BY <1>1, <1>6, CompletedLines DEF Answerable
<1> QED BY <1>1, <1>3, <1>4, <1>5, <1>6 DEF Execute

\* A reader that gives up is forgotten.
LEMMA AddressedForgotten ==
  ASSUME TypeOK, Addressed, NEW w \in Workers, \A v \in Workers \ {w} : thread'[v] = thread[v]
  PROVE  /\ Awaited(Forget(w, wire), thread')
         /\ Awaited(Forget(w, input), thread')
         /\ input # <<>> => /\ Awaited(Forget(w, Tail(input)), thread')
                            /\ Awaited(Forget(w, [input EXCEPT ![1].part = "rest"]), thread')
<1>1. wire \in Seq(Messages) /\ input \in Seq(Lines)
  BY DEF TypeOK, PortOK
<1>2. /\ \A i \in 1 .. Len(wire) : wire[i].to \in Workers \cup {None}
      /\ \A i \in 1 .. Len(input) : input[i].to \in Workers \cup {None}
  BY Addresses
<1>3. Awaited(Forget(w, wire), thread')
  BY <1>1, <1>2, ForgetMessages DEF Addressed, Awaited
<1>4. Awaited(Forget(w, input), thread')
  BY <1>1, <1>2, ForgetLines DEF Addressed, Awaited
<1>5. ASSUME input # <<>>
      PROVE  Awaited(Forget(w, Tail(input)), thread')
  BY <1>1, <1>2, <1>5, RestOfInput DEF Addressed, Awaited
<1>6. ASSUME input # <<>>
      PROVE  Awaited(Forget(w, [input EXCEPT ![1].part = "rest"]), thread')
  <2> DEFINE z == [input EXCEPT ![1].part = "rest"]
  <2>1. z \in Seq(Lines) /\ Len(z) = Len(input) /\ \A i \in 1 .. Len(input) : z[i].to = input[i].to
    BY <1>1, <1>6, CutLine
  <2> HIDE DEF z
  <2>2. Awaited(Forget(w, z), thread')
    BY <1>2, <2>1, ForgetLines DEF Addressed, Awaited
  <2> QED BY <2>2 DEF z
<1> QED BY <1>3, <1>4, <1>5, <1>6

LEMMA AddressedAppend ==
  ASSUME TypeOK, Addressed, NEW m, wire' = Append(wire, m),
         m.to # None => thread'[m.to].step = "read",
         \A v \in Workers : thread[v].step = "read" => thread'[v].step = "read"
  PROVE  Awaited(wire', thread')
<1>1. wire \in Seq(Messages) /\ \A i \in 1 .. Len(wire) : wire[i].to \in Workers \cup {None}
  BY Addresses
<1>2. /\ Len(wire) \in Nat /\ Len(wire') = Len(wire) + 1 /\ wire'[Len(wire) + 1] = m
      /\ \A i \in 1 .. Len(wire) : wire'[i] = wire[i]
  BY <1>1
<1> QED BY <1>1, <1>2 DEF Addressed, Awaited

LEMMA AddressedStep ==
  ASSUME TypeOK, Addressed, [Next]_vars
  PROVE  Addressed'
<1>a. thread \in [Workers -> Jobs] /\ awaited \in Workers \cup {None} /\ None \notin Workers
  BY ConstantsOK DEF TypeOK, TasksOK
<1>b. ASSUME thread' = [thread EXCEPT ![awaited] = Idle], awaited # None,
             thread[awaited].step = "done"
      PROVE  \A v \in Workers : thread[v].step = "read" => thread'[v].step = "read"
  BY <1>a, <1>b
<1>1. ASSUME NEW t \in Tasks, Request(t) \/ Acquire(t) \/ Resume(t) \/ Cancel(t)
      PROVE  Addressed'
  <2>1. /\ wire' = wire /\ input' = input
        /\ \/ thread' = thread
           \/ /\ thread' = [thread EXCEPT ![awaited] = Idle] /\ awaited # None
              /\ thread[awaited].step = "done"
    BY <1>1 DEF Request, Acquire, Resume, Opened, Greeted, ConnectFailed, Answered, TransactFailed,
                Closed, Ended, Cancel, Interrupt, portVars
  <2>2. \A v \in Workers : thread[v].step = "read" => thread'[v].step = "read"
    BY <1>b, <2>1
  <2> QED BY <2>1, <2>2, AddressedKept
<1>2. ASSUME NEW w \in Workers, Step(w) \/ Wedge(w)
      PROVE  Addressed'
  <2>1. \A v \in Workers \ {w} : thread'[v] = thread[v]
    BY <1>a, <1>2 DEF Step, Wedge, Start, OpenPort, ResetInput, WriteCommand, ReadLine,
                ReadFragment, TornLine, Timeout, IoError, ClosePort, Finish, Advance
  <2>2. CASE thread[w].step # "read" /\ wire' \in {wire, Lost(wire)} /\ input' \in {input, <<>>}
    BY <2>1, <2>2, AddressedKept
  <2>3. CASE /\ wire' = Forget(w, wire)
             /\ \/ input' = Forget(w, input)
                \/ /\ input # <<>>
                   /\ input' \in {Forget(w, Tail(input)),
                                  Forget(w, [input EXCEPT ![1].part = "rest"])}
    BY <2>1, <2>3, AddressedForgotten DEF Addressed
  <2>4. CASE Timeout(w)
    <3>1. wire' = Forget(w, wire) /\ input' = <<>>
      BY <2>4 DEF Timeout
    <3>2. Awaited(wire', thread')
      BY <2>1, <3>1, AddressedForgotten
    <3> QED BY <3>1, <3>2, EmptySeq DEF Addressed, Awaited
  <2>5. CASE /\ thread[w].step = "write" /\ input' \in {input, Forget(w, input)}
             /\ \E m : /\ wire' = Append(wire, m)
                       /\ m.to # None => m.to = w /\ thread'[w].step = "read"
    <3>1. PICK m : wire' = Append(wire, m) /\ (m.to # None => m.to = w /\ thread'[w].step = "read")
      BY <2>5
    <3>2. \A v \in Workers : thread[v].step = "read" => thread'[v].step = "read"
      BY <2>1, <2>5
    <3>3. Awaited(wire', thread')
      BY <3>1, <3>2, AddressedAppend
    <3>4. Awaited(input', thread')
      <4>1. CASE input' = input
        BY <3>2, <4>1, Addresses DEF Addressed, Awaited
      <4>2. CASE input' = Forget(w, input)
        BY <2>1, <4>2, AddressedForgotten
      <4> QED BY <2>5, <4>1, <4>2
    <3> QED BY <3>3, <3>4 DEF Addressed
  <2>6. CASE Start(w) \/ OpenPort(w) \/ ResetInput(w) \/ Wedge(w) \/ ClosePort(w)
    BY <2>2, <2>6 DEF Start, OpenPort, ResetInput, Wedge, ClosePort, At, portVars
  <2>7. CASE WriteCommand(w)
    <3>1. Message(w).to = IF thread[w].reply THEN w ELSE None
      BY DEF Message
    <3>2. thread[w].reply => thread'[w].step = "read"
      BY <1>a, <2>7 DEF WriteCommand, Advance, Jobs
    <3> QED BY <2>5, <2>7, <3>1, <3>2 DEF WriteCommand, At
  <2>8. CASE ReadLine(w) \/ ReadFragment(w) \/ TornLine(w)
    BY <2>3, <2>8 DEF ReadLine, ReadFragment, TornLine
  <2>9. CASE IoError(w)
    <3>1. CASE wire' = Forget(w, wire)
      BY <2>3, <2>9, <3>1 DEF IoError
    <3>2. CASE At(w, "write") /\ wire' = Append(wire, [cmd |-> thread[w].cmd, to |-> None])
      BY <2>5, <2>9, <3>2 DEF IoError, At
    <3> QED BY <2>9, <3>1, <3>2 DEF IoError
  <2> QED BY <1>2, <2>4, <2>6, <2>7, <2>8, <2>9 DEF Step
<1>3. CASE Execute
  <2>1. thread' = thread
    BY <1>3 DEF Execute
  <2>2. Awaited(wire', thread')
    BY <1>3, <2>1, ExecuteAddresses DEF Addressed, Awaited
  <2>3. Awaited(input', thread')
    BY <1>3, <2>1, ExecuteAddresses DEF Addressed, Awaited
  <2> QED BY <2>2, <2>3 DEF Addressed
<1>4. CASE UNCHANGED vars
  BY <1>4 DEF vars, portVars, Addressed, Awaited
<1> QED BY <1>1, <1>2, <1>3, <1>4 DEF Next

-----------------------------------------------------------------------------
\* The panel is usable, or SYST:LOC is ahead of every query anybody waits for.
Freed ==
  \/ panel = "local"
  \/ \E i \in 1 .. Len(wire) : /\ wire[i].cmd = SystLoc
                               /\ \A j \in 1 .. i : wire[j].to = None

\* Every connection that has been greeted is freed, and every answer to a query
\* was sent after that.
PanelInv ==
  /\ Addressed
  /\ serial # None => Freed \/ \E t \in Tasks : pc[t] = "greeting"
  /\ \A t \in Tasks, w \in Workers :
       pc[t] = "greeting" /\ thread[w].step = "done" /\ thread[w].result = "ok" => Freed
  /\ \A i \in 1 .. Len(input) : input[i].to # None => panel = "local"
  /\ \A w \in Workers : thread[w].result = "own" => panel = "local"

\* Nobody but the manager itself puts the meter in LOCAL or REMOTE mode.
LocalOnly == "start" \notin Ops /\ SystRem \notin Commands \cup {None}

LEMMA FreedKept ==
  ASSUME TypeOK, Freed, panel' = panel,
         \/ wire' = wire
         \/ wire' = Lost(wire)
         \/ \E w \in Workers : wire' = Forget(w, wire)
         \/ \E m : wire' = Append(wire, m)
  PROVE  Freed'
<1>1. CASE panel = "local"
  BY <1>1 DEF Freed
<1>2. CASE panel # "local"
  <2>1. PICK i \in 1 .. Len(wire) : wire[i].cmd = SystLoc /\ \A j \in 1 .. i : wire[j].to = None
    BY <1>2 DEF Freed
  <2>2. CASE wire' = wire
    BY <2>1, <2>2 DEF Freed
  <2>3. ASSUME NEW w \in Workers, wire' = Forget(w, wire)
        PROVE  Freed'
    <3>1. i \in 1 .. Len(wire') /\ wire'[i].cmd = SystLoc
      BY <2>1, <2>3, Addresses, ForgetMessages
    <3>2. \A j \in 1 .. i : wire'[j].to = None
      BY <2>1, <2>3, Addresses, ForgetMessages
    <3> QED BY <3>1, <3>2 DEF Freed
  <2>4. ASSUME NEW m, wire' = Append(wire, m)
        PROVE  Freed'
    <3>1. /\ Len(wire) \in Nat /\ Len(wire') = Len(wire) + 1
          /\ \A j \in 1 .. Len(wire) : wire'[j] = wire[j]
      BY <2>4, Addresses
    <3> QED BY <2>1, <3>1 DEF Freed
  <2>5. CASE wire' = Lost(wire)
    <3>1. SystLoc \notin Answerable
      BY ConstantsOK DEF Answerable
    <3>2. i \in 1 .. Len(wire') /\ wire'[i].cmd = SystLoc
      BY <2>1, <2>5, <3>1, Addresses, LostMessages
    <3>3. \A j \in 1 .. i : wire'[j].to = None
      BY <2>1, <2>5, Addresses, LostMessages
    <3> QED BY <3>2, <3>3 DEF Freed
  <2> QED BY <2>2, <2>3, <2>4, <2>5
<1> QED BY <1>1, <1>2

\* Only threads of the lock holder work, and it is the only one that greets.
LEMMA NobodyGreets ==
  ASSUME Calm, PanelInv, serial # None, \A t \in Tasks : holder = t => pc[t] # "greeting"
  PROVE  Freed
  BY DEF Calm, LockInv, HasLock, PanelInv

LEMMA LoopPanel ==
  ASSUME Calm, PanelInv, Addressed', LocalOnly, NEW t \in Tasks,
         Request(t) \/ Acquire(t) \/ Resume(t)
  PROVE  PanelInv'
<1> USE DEF Calm
<1>1. /\ wire' = wire /\ input' = input /\ panel' = panel /\ (Freed => Freed')
      /\ pc' \in [Tasks -> Places] /\ \A u \in Tasks \ {t} : pc'[u] = pc[u]
  <2>1. wire' = wire /\ input' = input /\ panel' = panel
    BY DEF Request, Acquire, Resume, Opened, Greeted, ConnectFailed, Answered, TransactFailed,
           Closed, Ended, portVars
  <2>2. Freed => Freed'
    BY <2>1 DEF Freed
  <2>3. \E at \in Places : pc' = [pc EXCEPT ![t] = at]
    BY DEF Request, Acquire, Resume, Opened, Greeted, ConnectFailed, Answered, TransactFailed,
           Closed, Enter, Close, Await, Return, Inside, Left, Places
  <2> QED BY <2>1, <2>2, <2>3 DEF TypeOK, TasksOK
<1>2. ASSUME NEW c \in Calls, holder = None, Enter(t, c), thread' = thread
      PROVE  PanelInv'
  <2>1. \A w \in Workers : thread[w].step = "idle"
    BY <1>2, ConstantsOK DEF LockInv, NoOrphans
  <2>2. serial' \in {serial, None}
    BY <1>2 DEF Enter, Close
  <2>3. serial' # None => Freed'
    BY <1>1, <1>2, <2>2, NobodyGreets, ConstantsOK
  <2> QED BY <1>1, <1>2, <2>1, <2>3 DEF PanelInv
<1>3. CASE Request(t)
  <2>1. PICK c \in Calls :
          \/ holder = None /\ Enter(t, c)
          \/ Inside(t, c, "waiting") /\ serial' = serial
    BY <1>3 DEF Request
  <2>2. thread' = thread /\ pc[t] = "idle"
    BY <1>3 DEF Request
  <2>3. CASE Inside(t, c, "waiting") /\ serial' = serial
    <3>1. pc'[t] = "waiting"
      BY <2>3 DEF Inside, TypeOK, TasksOK
    <3> QED BY <1>1, <2>2, <2>3, <3>1 DEF PanelInv
  <2> QED BY <1>2, <2>1, <2>2, <2>3
<1>4. CASE Acquire(t)
  <2>1. waiters # <<>> /\ Head(waiters) = t
    BY <1>4 DEF Acquire
  <2>2. pc[t] = "waiting"
    BY <2>1, HeadTailProperties, LenProperties, EmptySeq DEF WaitersInLine, TypeOK
  <2>3. call[t] \in Calls
    BY <2>2 DEF JobInv
  <2> QED BY <1>2, <1>4, <2>3 DEF Acquire
<1>5. CASE Resume(t)
  <2>1. /\ holder = t /\ pc[t] \in HasLock /\ awaited \in Workers /\ thread[awaited].step = "done"
        /\ \A u \in Tasks : pc[u] \in HasLock => u = t
    BY <1>5, ConstantsOK DEF Resume, Opened, Greeted, ConnectFailed, Answered, TransactFailed,
       Closed, Ended, HasLock, LockInv, TypeOK, TasksOK
  <2>2. thread' = [thread EXCEPT ![awaited] = Idle]
    BY <1>5 DEF Resume, Opened, Greeted, ConnectFailed, Answered, TransactFailed, Closed, Ended
  <2>3. \A w \in Workers : thread'[w].step = "idle" /\ (thread'[w].result = "own" => panel = "local")
    <3>1. Idle.step = "idle" /\ Idle.result = "none"
      BY DEF Idle, Job
    <3>2. thread \in [Workers -> Jobs] /\ thread'[awaited] = Idle
          /\ \A w \in Workers \ {awaited} : thread'[w] = thread[w]
      BY <2>1, <2>2 DEF TypeOK
    <3> QED BY <3>1, <3>2 DEF NoOrphans, PanelInv
  <2>4. call[t] \in Calls /\ call[t].op # "start"
    BY <2>1 DEF JobInv, HasLock, Calls, LocalOnly
  <2>5. ASSUME NEW r, Close(t, call[t], r)
        PROVE  serial' = None
    BY <2>5 DEF Close
  <2>6. serial' # None => Freed' \/ \E u \in Tasks : pc'[u] = "greeting"
    <3>1. CASE Opened(t)
      BY <3>1 DEF Opened, Await, Inside, TypeOK, TasksOK
    <3>2. CASE Greeted(t)
      <4>1. Freed
        BY <2>1, <3>2 DEF Greeted, Ended, PanelInv
      <4> QED BY <1>1, <4>1
    <3>3. CASE ConnectFailed(t) \/ TransactFailed(t)
      BY <2>4, <2>5, <3>3 DEF ConnectFailed, TransactFailed
    <3>4. CASE Answered(t)
      <4>1. serial' = serial /\ pc[t] = "transacting"
        BY <3>4 DEF Answered, Ended
      <4> QED BY <1>1, <2>1, <4>1, NobodyGreets
    <3>5. CASE Closed(t)
      BY <3>5 DEF Closed, Ended, PlaceInv
    <3> QED BY <1>5, <3>1, <3>2, <3>3, <3>4, <3>5 DEF Resume
  <2> QED BY <1>1, <2>3, <2>6 DEF PanelInv
<1> QED BY <1>3, <1>4, <1>5

\* What a thread ends with, while no line in the buffer is for it.
LEMMA FinishPanel ==
  ASSUME TypeOK, NoOrphans, PanelInv, NEW w \in Workers, thread[w].step # "idle", NEW r, NEW h,
         Finish(w, r, h), r = "own" => panel = "local"
  PROVE  /\ \A v \in Workers : thread'[v].result = "own" => panel = "local"
         /\ \A v \in Workers \ {w} : thread'[v] = thread[v]
         /\ thread'[w].step = "done" /\ thread'[w].result = r
<1> DEFINE d == [thread[w] EXCEPT !.step = "done", !.result = r, !.handle = h]
<1>1. d.result = r /\ d.step = "done"
  BY DEF Jobs, TypeOK
<1>2. thread' = [thread EXCEPT ![w] = d]
  BY DEF Finish, NoOrphans
<1> HIDE DEF d
<1> QED BY <1>1, <1>2 DEF TypeOK, PanelInv

\* The lines a thread leaves in the buffer are old ones, or nobody's.
LEMMA InputPanel ==
  ASSUME TypeOK, PanelInv, NEW w \in Workers, Step(w) \/ Wedge(w)
  PROVE  \A i \in 1 .. Len(input') : input'[i].to # None => panel = "local"
<1>a. input \in Seq(Lines)
  BY DEF TypeOK, PortOK
<1>1. CASE input' \in {input, <<>>}
  BY <1>1, EmptySeq DEF PanelInv
<1>2. CASE input' = Forget(w, input)
  BY <1>a, <1>2, ForgetLines DEF PanelInv
<1>3. CASE input # <<>> /\ input' = Forget(w, Tail(input))
  BY <1>a, <1>3, RestOfInput DEF PanelInv
<1>4. CASE input # <<>> /\ input' = Forget(w, [input EXCEPT ![1].part = "rest"])
  <2> DEFINE z == [input EXCEPT ![1].part = "rest"]
  <2>1. z \in Seq(Lines) /\ Len(z) = Len(input) /\ \A i \in 1 .. Len(input) : z[i].to = input[i].to
    BY <1>a, <1>4, CutLine
  <2> HIDE DEF z
  <2>2. input' = Forget(w, z)
    BY <1>4 DEF z
  <2> QED BY <2>1, <2>2, ForgetLines DEF PanelInv
<1> QED BY <1>1, <1>2, <1>3, <1>4
        DEF Step, Start, OpenPort, ResetInput, WriteCommand, ReadLine, ReadFragment, TornLine,
            Timeout, IoError, ClosePort, Wedge, portVars

LEMMA ThreadPanel ==
  ASSUME Calm, PanelInv, Addressed', NEW w \in Workers, Step(w) \/ Wedge(w)
  PROVE  PanelInv'
<1> USE DEF Calm
<1>a. thread \in [Workers -> Jobs] /\ ConstantsOK
  BY ConstantsOK DEF TypeOK
<1>1. pc' = pc /\ serial' = serial /\ panel' = panel
  BY OutsideSteps DEF Step, Wedge, Start, OpenPort, ResetInput, WriteCommand, ReadLine,
     ReadFragment, TornLine, Timeout, IoError, ClosePort
<1>2. Freed => Freed'
  <2>1. \/ wire' = wire
        \/ wire' = Lost(wire)
        \/ wire' = Forget(w, wire)
        \/ \E m : wire' = Append(wire, m)
    BY DEF Step, Wedge, Start, OpenPort, ResetInput, WriteCommand, ReadLine, ReadFragment, TornLine,
           Timeout, IoError, ClosePort, portVars
  <2> QED BY <1>1, <2>1, FreedKept
<1>3. ASSUME NEW r, NEW h, Finish(w, r, h), thread[w].step # "idle", r = "own" => panel = "local",
             r = "ok" => Freed' \/ pc[holder] # "greeting"
      PROVE  PanelInv'
  <2>1. \A v \in Workers : thread'[v].step = "done" => v = w
    BY <1>3, FinishPanel, AtWork
  <2>2. \A t \in Tasks : pc[t] = "greeting" => t = holder
    BY <1>3, AtWork DEF HasLock
  <2> QED BY <1>1, <1>2, <1>3, <2>1, <2>2, FinishPanel, InputPanel DEF PanelInv
<1>4. ASSUME \A v \in Workers \ {w} : thread'[v] = thread[v],
             thread'[w].step # "done", thread'[w].result \in {"none", thread[w].result}
      PROVE  PanelInv'
  BY <1>1, <1>2, <1>4, InputPanel DEF PanelInv
<1>5. CASE Start(w)
  BY <1>a, <1>4, <1>5 DEF Start, JobInv
<1>6. ASSUME NEW step, step # "done", Advance(w, step)
      PROVE  PanelInv'
  BY <1>a, <1>4, <1>6 DEF Advance, Jobs
<1>7. CASE OpenPort(w) \/ ClosePort(w)
  <2>1. pc[holder] # "greeting" /\ thread[w].step # "idle"
    BY <1>7, AtWork DEF OpenPort, ClosePort, JobAt
  <2> QED BY <1>3, <1>7, <2>1 DEF OpenPort, ClosePort
<1>8. CASE Timeout(w) \/ IoError(w)
  BY <1>3, <1>8 DEF Timeout, IoError, At
<1>9. CASE ResetInput(w)
  <2>1. CASE thread' = [thread EXCEPT ![w].step = "write", ![w].handle = serial]
    BY <1>a, <1>4, <2>1 DEF Jobs
  <2> QED BY <1>3, <1>9, <2>1 DEF ResetInput, At
<1>10. CASE ReadLine(w) \/ ReadFragment(w) \/ TornLine(w)
  <2>1. thread[w].step # "idle" /\ input # <<>> /\ input \in Seq(Lines)
    BY <1>10 DEF ReadLine, ReadFragment, TornLine, At, TypeOK, PortOK
  <2>2. Head(input).to = w => panel = "local"
    BY <1>a, <2>1, RestOfInput DEF PanelInv, ConstantsOK
  <2> QED BY <1>3, <1>10, <2>1, <2>2 DEF ReadLine, ReadFragment, TornLine
<1>11. CASE Wedge(w)
  BY <1>6, <1>11 DEF Wedge
<1>12. CASE WriteCommand(w)
  <2>1. CASE Advance(w, "read")
    BY <1>6, <2>1
  <2>2. CASE Finish(w, "ok", None) /\ pc[holder] = "greeting"
    <3>1. thread[w].step = "write" /\ wire' = Append(wire, Message(w))
      BY <1>12 DEF WriteCommand, At
    <3>2. Message(w).cmd = SystLoc /\ Message(w).to = None
      BY <1>a, <2>2, <3>1, AtWork DEF JobAt, Message, ConstantsOK
    <3>3. /\ Len(wire) \in Nat /\ Len(wire') = Len(wire) + 1 /\ wire'[Len(wire) + 1] = Message(w)
          /\ \A j \in 1 .. Len(wire) : wire'[j] = wire[j] /\ wire[j].to \in Workers \cup {None}
      BY <3>1, Addresses
    <3>4. \A v \in Workers : thread[v].step # "read"
      BY <3>1, AtWork
    <3>5. \A j \in 1 .. Len(wire) : wire[j].to = None
      BY <3>3, <3>4 DEF PanelInv, Addressed, Awaited
    <3>6. Freed'
      BY <3>2, <3>3, <3>5 DEF Freed
    <3> QED BY <1>3, <2>2, <3>1, <3>6
  <2>3. CASE Finish(w, "ok", None) /\ pc[holder] # "greeting"
    BY <1>3, <1>12, <2>3 DEF WriteCommand, At
  <2> QED BY <1>12, <2>1, <2>2, <2>3 DEF WriteCommand
<1> QED BY <1>5, <1>7, <1>8, <1>9, <1>10, <1>11, <1>12 DEF Step

\* The meter does what it was told: an answer comes after SYST:LOC.
LEMMA ExecutePanel ==
  ASSUME Calm, PanelInv, Addressed', LocalOnly, Execute
  PROVE  PanelInv'
<1> USE DEF Calm
<1>1. /\ pc' = pc /\ serial' = serial /\ thread' = thread /\ Head(wire) = wire[1]
      /\ Len(wire) \in Nat /\ 1 \in 1 .. Len(wire) /\ wire[1] \in Messages
  BY ExecuteAddresses, Addresses, HeadTailProperties DEF Execute, loopVars
<1>2. /\ panel' \in {panel, "local"}
      /\ wire[1].cmd = SystLoc => panel' = "local"
  BY <1>1, ConstantsOK DEF Execute, LocalOnly, Messages
<1>3. Freed => Freed'
  <2>1. CASE panel' = "local"
    BY <2>1 DEF Freed
  <2>2. ASSUME panel' # "local", NEW i \in 1 .. Len(wire), wire[i].cmd = SystLoc,
               \A j \in 1 .. i : wire[j].to = None
        PROVE  Freed'
    <3>1. i # 1
      BY <1>2, <2>2
    <3>2. CASE /\ Len(wire') = Len(wire) - 1
               /\ \A j \in 1 .. Len(wire') : wire'[j] = wire[j + 1]
      <4>1. i - 1 \in 1 .. Len(wire') /\ wire'[i - 1].cmd = SystLoc
        BY <1>1, <2>2, <3>1, <3>2
      <4>2. \A j \in 1 .. i - 1 : wire'[j].to = None
        BY <1>1, <2>2, <3>2, <4>1
      <4> QED BY <4>1, <4>2 DEF Freed
    <3>3. CASE /\ Len(wire') = Len(wire)
               /\ \A j \in 1 .. Len(wire) : /\ wire'[j].to = wire[j].to
                                            /\ j # 1 => wire'[j].cmd = wire[j].cmd
      <4>1. i \in 1 .. Len(wire') /\ wire'[i].cmd = SystLoc
        BY <1>1, <2>2, <3>1, <3>3
      <4>2. \A j \in 1 .. i : wire'[j].to = None
        BY <1>1, <2>2, <3>3
      <4> QED BY <4>1, <4>2 DEF Freed
    <3> QED BY <3>2, <3>3, ExecuteAddresses
  <2> QED BY <1>2, <2>1, <2>2 DEF Freed
<1>4. ASSUME wire[1].cmd \in Answerable, wire[1].to # None
      PROVE  panel = "local"
  <2>1. wire[1].to \in Workers /\ thread[wire[1].to].step = "read"
    BY <1>1, <1>4 DEF PanelInv, Addressed, Awaited, Messages
  <2>2. serial # None /\ pc[holder] # "greeting"
    BY <2>1, AtWork, ConstantsOK DEF JobAt, JobInv
  <2>3. Freed
    BY <2>2, NobodyGreets
  <2> QED BY <1>1, <1>4, <2>3 DEF Freed
<1>5. \A i \in 1 .. Len(input') : input'[i].to # None => panel' = "local"
  BY <1>2, <1>4, ExecuteAddresses DEF PanelInv
<1> QED BY <1>1, <1>2, <1>3, <1>5 DEF PanelInv

LEMMA PanelStep ==
  ASSUME Calm, PanelInv, LocalOnly, Cancellable = {}, [Next]_vars
  PROVE  PanelInv'
<1>1. Addressed'
  BY AddressedStep DEF Calm, PanelInv
<1>2. CASE UNCHANGED vars
  BY <1>1, <1>2 DEF vars, loopVars, portVars, PanelInv, Freed
<1>3. \A t \in Tasks : ~Cancel(t)
  BY DEF Cancel
<1> QED BY <1>1, <1>2, <1>3, LoopPanel, ThreadPanel, ExecutePanel DEF Next

\* "so someone at the bench is never locked out": when a query is answered, the
\* meter has executed the SYST:LOC of its connection, however many connections
\* failed before, whatever the faults, and however late or torn their answers.
THEOREM PanelFreed ==
  ASSUME Cancellable = {}, LocalOnly
  PROVE  Spec => FrontPanelFreed
<1> DEFINE Free == \A t \in Tasks : pc[t] = "transacting" /\ pc'[t] = "idle" /\ result'[t] = "own"
                                      => panel = "local"
<1>1. Init => PanelInv
  <2>1. SUFFICES ASSUME Init PROVE PanelInv
    OBVIOUS
  <2>2. /\ serial = None /\ wire = <<>> /\ input = <<>>
        /\ \A t \in Tasks : pc[t] = "idle"
        /\ \A w \in Workers : thread[w].result = "none"
    BY <2>1 DEF Init, Idle, Job
  <2> QED BY <2>2, EmptySeq DEF PanelInv, Addressed, Awaited
<1>2. Calm /\ PanelInv /\ [Next]_vars => PanelInv'
  BY PanelStep
<1>3. Calm /\ PanelInv /\ [Next]_vars => [Free]_vars
  <2> SUFFICES ASSUME Calm, PanelInv, Next, NEW t \in Tasks,
                      pc[t] = "transacting", pc'[t] = "idle", result'[t] = "own"
               PROVE  panel = "local"
    OBVIOUS
  <2> USE DEF Calm
  <2>1. ASSUME NEW u \in Tasks, Request(u)
        PROVE  FALSE
    BY <2>1, u = t \/ u # t DEF Request, Enter, Close, Await, Return, Inside, Left, TypeOK, TasksOK
  <2>2. ASSUME NEW u \in Tasks, Acquire(u)
        PROVE  FALSE
    <3>1. u = t /\ holder = None
      BY <2>2 DEF Acquire, Enter, Close, Await, Return, Inside, Left, TypeOK, TasksOK
    <3> QED BY <3>1, ConstantsOK DEF LockInv, HasLock
  <2>3. ASSUME NEW u \in Tasks, Resume(u)
        PROVE  panel = "local"
    <3>1. u = t
      BY <2>3 DEF Resume, Opened, Greeted, ConnectFailed, Answered, TransactFailed, Closed,
                  Close, Ended, Await, Return, Inside, Left, TypeOK, TasksOK
    <3>2. CASE Answered(t)
      BY <3>2, ConstantsOK DEF Answered, Ended, Return, Left, TypeOK, TasksOK, PanelInv
    <3>3. CASE TransactFailed(t)
      BY <3>3 DEF TransactFailed, Close, Await, Inside, Return, Left, TypeOK, TasksOK
    <3>4. CASE Opened(t) \/ Greeted(t) \/ ConnectFailed(t) \/ Closed(t)
      BY <3>4 DEF Opened, Greeted, ConnectFailed, Closed, Ended
    <3> QED BY <2>3, <3>1, <3>2, <3>3, <3>4 DEF Resume
  <2>4. ASSUME NEW u \in Tasks, Cancel(u)
        PROVE  FALSE
    BY <2>4 DEF Cancel
  <2>5. ASSUME NEW w \in Workers, Step(w) \/ Wedge(w)
        PROVE  FALSE
    BY <2>5, OutsideSteps
  <2>6. ~Execute
    BY DEF Execute, loopVars
  <2> QED BY <2>1, <2>2, <2>3, <2>5, <2>4, <2>6 DEF Next
<1> QED BY <1>1, <1>2, <1>3, CalmAlways, PTL DEF Spec, FrontPanelFreed

=============================================================================
