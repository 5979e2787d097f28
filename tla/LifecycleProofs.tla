--------------------------- MODULE LifecycleProofs ---------------------------
(***************************************************************************)
(* For any sets of SCPI clients, requests and live streams: the answers of *)
(* a client are paired with its queries, manager.stop is the last call and *)
(* the database outlives its writers.                                      *)
(***************************************************************************)
EXTENDS Lifecycle, TLAPS

ManagerTypeOK ==
  /\ served \in Tasks \cup {Nobody}
  /\ line \in Seq(Tasks)
  /\ ending \in [Tasks -> Endings \cup {"none"}]

\* Nobody is not a task, and every caller is one.
LEMMA TaskSets ==
  /\ Nobody \notin Tasks /\ Main \in Tasks /\ Poller \in Tasks
  /\ Requests \subseteq Tasks /\ Clients \subseteq Tasks
  /\ Clients \cap Requests = {} /\ Main \notin Clients \cup Requests \cup {Poller}
  /\ Poller \notin Clients \cup Requests
<1> QED
  BY ScpiConstantsOK, LifecycleConstantsOK DEF ScpiConstantsOK, LifecycleConstantsOK, Tasks

-----------------------------------------------------------------------------
(* The manager: what a step of it does to those inside *)

\* A caller that begins is inside, and nobody else comes or goes.
LEMMA CallEnters ==
  ASSUME ManagerTypeOK, NEW t \in Tasks, Call(t)
  PROVE  /\ ManagerTypeOK'
         /\ \A u \in Tasks : InCall(u)' <=> InCall(u) \/ u = t
         /\ \A u \in Tasks : u = t \/ ending'[u] = ending[u]
         /\ \/ served = Nobody /\ line = <<>> /\ served' = t /\ line' = <<>>
            \/ served' = served /\ line' = Append(line, t) /\ served # t
               /\ (served # Nobody \/ line # <<>>)
<1>1. CASE Manager!Enter(t) /\ served' = t
  <2>1. served = Nobody /\ line = <<>> /\ line' = line
    BY <1>1 DEF Manager!Enter
  <2>2. Manager!Begins(t)
    BY <1>1, <2>1, TaskSets DEF Manager!Enter
  <2>3. ManagerTypeOK'
    BY <1>1, <2>1, <2>2 DEF ManagerTypeOK, Manager!Begins
  <2>4. \A u \in Tasks : InCall(u)' <=> InCall(u) \/ u = t
    BY <1>1, <2>1, TaskSets DEF InCall, Manager!Waiting
  <2>5. \A u \in Tasks : u = t \/ ending'[u] = ending[u]
    BY <2>2 DEF Manager!Begins, ManagerTypeOK
  <2> QED
    BY <1>1, <2>1, <2>3, <2>4, <2>5
<1>2. CASE (served # Nobody \/ line # <<>>) /\ Manager!Join(t)
  <2>1. served' = served /\ line' = Append(line, t) /\ served # t
    BY <1>2 DEF Manager!Join
  <2>2. ManagerTypeOK'
    BY <1>2, <2>1 DEF ManagerTypeOK, Manager!Begins, Manager!Join
  <2>3. ASSUME NEW u \in Tasks PROVE Manager!Waiting(u)' <=> Manager!Waiting(u) \/ u = t
    <3>1. /\ Len(line') = Len(line) + 1 /\ Len(line) \in Nat
          /\ \A i \in 1 .. Len(line) : line'[i] = line[i]
          /\ line'[Len(line) + 1] = t
      BY <2>1 DEF ManagerTypeOK
    <3> QED
      BY <3>1 DEF Manager!Waiting
  <2>4. \A u \in Tasks : u = t \/ ending'[u] = ending[u]
    BY <1>2 DEF Manager!Begins, Manager!Join, ManagerTypeOK
  <2> QED
    BY <1>2, <2>1, <2>2, <2>3, <2>4 DEF InCall
<1> QED
  BY <1>1, <1>2 DEF Call

\* Serving the first in line lets nobody in or out.
LEMMA TakeServes ==
  ASSUME ManagerTypeOK, Take
  PROVE  /\ ManagerTypeOK'
         /\ \A u \in Tasks : InCall(u)' <=> InCall(u)
         /\ served = Nobody /\ line # <<>> /\ served' = Head(line) /\ line' = Tail(line)
         /\ \A u \in Tasks : InCall(u) \/ ending'[u] = ending[u]
<1>1. served = Nobody /\ line # <<>> /\ served' = Head(line) /\ line' = Tail(line)
      /\ Manager!Begins(Head(line))
  BY DEF Take, Manager!Take
<1>2. Head(line) \in Tasks /\ Len(line) \in Nat \ {0} /\ Head(line) = line[1]
  BY <1>1 DEF ManagerTypeOK
<1>3. ManagerTypeOK'
  BY <1>1, <1>2 DEF ManagerTypeOK, Manager!Begins
<1>4. Len(line') = Len(line) - 1 /\ \A i \in 1 .. Len(line) - 1 : line'[i] = line[i + 1]
  BY <1>1, <1>2 DEF ManagerTypeOK
<1>5. ASSUME NEW u \in Tasks PROVE InCall(u)' <=> InCall(u)
  <2>1. ASSUME InCall(u) PROVE InCall(u)'
    <3>1. PICK i \in 1 .. Len(line) : line[i] = u
      BY <1>1, <2>1, TaskSets DEF InCall, Manager!Waiting
    <3>2. CASE i = 1
      BY <1>1, <1>2, <3>1, <3>2 DEF InCall
    <3>3. CASE i # 1
      <4>1. i - 1 \in 1 .. Len(line') /\ line'[i - 1] = u
        BY <1>2, <1>4, <3>1, <3>3
      <4> QED
        BY <4>1 DEF InCall, Manager!Waiting
    <3> QED
      BY <3>2, <3>3
  <2>2. ASSUME InCall(u)' PROVE InCall(u)
    <3>1. CASE served' = u
      <4>1. 1 \in 1 .. Len(line) /\ line[1] = u
        BY <1>1, <1>2, <3>1
      <4> QED
        BY <4>1 DEF InCall, Manager!Waiting
    <3>2. CASE Manager!Waiting(u)'
      <4>1. PICK i \in 1 .. Len(line') : line'[i] = u
        BY <3>2 DEF Manager!Waiting
      <4>2. i + 1 \in 1 .. Len(line) /\ line[i + 1] = u
        BY <1>2, <1>4, <4>1
      <4> QED
        BY <4>2 DEF InCall, Manager!Waiting
    <3> QED
      BY <2>2, <3>1, <3>2 DEF InCall
  <2> QED
    BY <2>1, <2>2
<1>6. ASSUME NEW u \in Tasks PROVE InCall(u) \/ ending'[u] = ending[u]
  <2>1. CASE u = Head(line)
    <3>1. 1 \in 1 .. Len(line) /\ line[1] = u
      BY <1>2, <2>1
    <3> QED
      BY <3>1 DEF InCall, Manager!Waiting
  <2>2. CASE u # Head(line)
    BY <1>1, <2>2 DEF Manager!Begins, ManagerTypeOK
  <2> QED
    BY <2>1, <2>2
<1> QED
  BY <1>1, <1>3, <1>5, <1>6

\* A call that ends lets out the one that was served, with an ending it may have.
LEMMA LeaveFrees ==
  ASSUME ManagerTypeOK, Leave
  PROVE  /\ ManagerTypeOK'
         /\ served # Nobody /\ served' = Nobody /\ line' = line
         /\ \A u \in Tasks : /\ InCall(u)' => InCall(u)
                             /\ u # served => (InCall(u)' <=> InCall(u)) /\ ending'[u] = ending[u]
         /\ ending'[served] \in Possible(served)
<1>1. served # Nobody /\ served' = Nobody /\ line' = line /\ Manager!Ends(served)
      /\ ending'[served] \in Possible(served)
  BY DEF Leave, Manager!Leave
<1>2. PICK r \in Endings : ending' = [ending EXCEPT ![served] = r]
  BY <1>1 DEF Manager!Ends
<1>3. ManagerTypeOK'
  BY <1>1, <1>2 DEF ManagerTypeOK
<1>4. \A u \in Tasks : Manager!Waiting(u)' <=> Manager!Waiting(u)
  BY <1>1 DEF Manager!Waiting
<1> QED
  BY <1>1, <1>2, <1>3, <1>4, TaskSets DEF InCall, ManagerTypeOK

\* A caller that takes its ending is outside, and nobody comes or goes.
LEMMA ReturnForgets ==
  ASSUME ManagerTypeOK, NEW t \in Tasks, Return(t)
  PROVE  /\ ManagerTypeOK' /\ ~InCall(t)
         /\ UNCHANGED <<served, line>>
         /\ \A u \in Tasks : InCall(u)' <=> InCall(u)
         /\ \A u \in Tasks : u = t \/ ending'[u] = ending[u]
<1>1. /\ ~InCall(t) /\ UNCHANGED <<served, line>>
      /\ ending' = [ending EXCEPT ![t] = "none"]
  BY DEF Return
<1>2. ManagerTypeOK'
  BY <1>1 DEF ManagerTypeOK
<1>3. \A u \in Tasks : InCall(u)' <=> InCall(u)
  BY <1>1 DEF InCall, Manager!Waiting
<1>4. \A u \in Tasks : u = t \/ ending'[u] = ending[u]
  BY <1>1 DEF ManagerTypeOK
<1> QED
  BY <1>1, <1>2, <1>3, <1>4

\* Everybody is out at once when all the tasks end.
LEMMA GoneEmpties ==
  ASSUME Gone
  PROVE  /\ served' = Nobody /\ line' = <<>> /\ ManagerTypeOK'
         /\ \A u \in Tasks : ~InCall(u)'
<1>1. served' = Nobody /\ line' = <<>> /\ ending' = [t \in Tasks |-> "none"]
  BY DEF Gone
<1>2. ManagerTypeOK'
  BY <1>1 DEF ManagerTypeOK
<1>3. \A u \in Tasks : ~InCall(u)'
  BY <1>1, TaskSets DEF InCall, Manager!Waiting
<1> QED
  BY <1>1, <1>2, <1>3

-----------------------------------------------------------------------------
(* Type correctness *)

\* The type invariant of the SCPI server, by the variables that change together.
LinkOK ==
  /\ link \in [Clients -> {"none", "up", "eof", "lost", "closed"}]
  /\ pc \in [Clients -> {"none", "reading", "calling", "draining", "closing", "done"}]
  /\ \A c \in Clients : /\ pc[c] = "none" <=> link[c] = "none"
                        /\ pc[c] = "done" <=> link[c] = "closed"

SentOK ==
  /\ sent \in [Clients -> Seq(Lines)] /\ taken \in [Clients -> Nat]
  /\ \A c \in Clients : taken[c] <= Len(sent[c])

RepliesOK ==
  /\ replies \in [Clients -> Seq(Nat)] /\ received \in [Clients -> Nat]
  /\ \A c \in Clients : received[c] <= Len(replies[c])

RestOK == listening \in BOOLEAN /\ unanswered \in [Clients -> SUBSET Nat]

ClientsOK == LinkOK /\ SentOK /\ RepliesOK /\ RestOK

LEMMA TypeParts == ScpiTypeOK <=> ClientsOK /\ ManagerTypeOK
<1>1. ScpiTypeOK => LinkOK /\ SentOK
  BY DEF ScpiTypeOK, LinkOK, SentOK
<1>2. ScpiTypeOK => RepliesOK /\ RestOK /\ ManagerTypeOK
  BY DEF ScpiTypeOK, RepliesOK, RestOK, ManagerTypeOK
<1>3. ClientsOK /\ ManagerTypeOK => ScpiTypeOK
  BY DEF ScpiTypeOK, LinkOK, SentOK, RepliesOK, RestOK, ManagerTypeOK, ClientsOK
<1> QED
  BY <1>1, <1>2, <1>3 DEF ClientsOK

LEMMA TypePartsNext ==
  LinkOK' /\ SentOK' /\ RepliesOK' /\ RestOK' /\ ManagerTypeOK' => ScpiTypeOK'
<1> QED
  BY DEF ScpiTypeOK, LinkOK, SentOK, RepliesOK, RestOK, ManagerTypeOK

LEMMA InitTypeOK == Init => TypeOK
<1> SUFFICES ASSUME Init PROVE TypeOK
  OBVIOUS
<1>1. LinkOK
  BY DEF Init, ScpiInit, LinkOK
<1>2. SentOK
  BY DEF Init, ScpiInit, SentOK
<1>3. RepliesOK
  BY DEF Init, ScpiInit, RepliesOK
<1>4. RestOK
  BY DEF Init, ScpiInit, RestOK
<1>5. ManagerTypeOK
  BY DEF Init, ScpiInit, Manager!Init, ManagerTypeOK
<1> QED
  <2>1. ScpiTypeOK
    BY <1>1, <1>2, <1>3, <1>4, <1>5, TypeParts DEF ClientsOK
  <2>2. /\ main = "starting" /\ signal = "none"
        /\ web = "off" /\ lifespan = "off" /\ recorder = "off" /\ poll = "idle"
    BY DEF Init
  <2>3. /\ request \in [Requests -> {"none", "calling", "storing"}]
        /\ live \in [Viewers -> {"none", "up", "gone"}]
    BY DEF Init
  <2> QED
    BY <2>1, <2>2, <2>3 DEF TypeOK

\* What a step leaves alone keeps its type.
LEMMA Untouched ==
  /\ LinkOK /\ UNCHANGED <<link, pc>> => LinkOK'
  /\ SentOK /\ UNCHANGED <<sent, taken>> => SentOK'
  /\ RepliesOK /\ UNCHANGED <<replies, received>> => RepliesOK'
  /\ RestOK /\ UNCHANGED <<listening, unanswered>> => RestOK'
  /\ ManagerTypeOK /\ UNCHANGED managerVars => ManagerTypeOK'
<1>1. LinkOK /\ UNCHANGED <<link, pc>> => LinkOK'
  BY DEF LinkOK
<1>2. SentOK /\ UNCHANGED <<sent, taken>> => SentOK'
  BY DEF SentOK
<1>3. RepliesOK /\ UNCHANGED <<replies, received>> => RepliesOK'
  BY DEF RepliesOK
<1>4. RestOK /\ UNCHANGED <<listening, unanswered>> => RestOK'
  BY DEF RestOK
<1>5. ManagerTypeOK /\ UNCHANGED managerVars => ManagerTypeOK'
  BY DEF ManagerTypeOK, managerVars
<1> QED
  BY <1>1, <1>2, <1>3, <1>4, <1>5

\* Every step of a handler, a client or the manager keeps the types.
LEMMA ScpiTypes == ASSUME ScpiTypeOK, ScpiNext PROVE ScpiTypeOK'
<1>0. LinkOK /\ SentOK /\ RepliesOK /\ RestOK /\ ManagerTypeOK
  BY TypeParts DEF ClientsOK
<1> SUFFICES LinkOK' /\ SentOK' /\ RepliesOK' /\ RestOK' /\ ManagerTypeOK'
  BY TypePartsNext
<1> USE DEF clientVars, handlerVars
<1>1. CASE Take \/ Leave
  <2>1. ManagerTypeOK'
    BY <1>0, <1>1, TakeServes, LeaveFrees
  <2> QED
    BY <1>0, <1>1, <2>1, Untouched DEF Take, Leave
<1>2. ASSUME NEW c \in Clients, Accept(c)
      PROVE  LinkOK' /\ SentOK' /\ RepliesOK' /\ RestOK' /\ ManagerTypeOK'
  <2>1. LinkOK'
    BY <1>0, <1>2 DEF LinkOK, Accept
  <2> QED
    BY <1>0, <1>2, <2>1, Untouched DEF Accept
<1>3. ASSUME NEW c \in Clients, Send(c)
      PROVE  LinkOK' /\ SentOK' /\ RepliesOK' /\ RestOK' /\ ManagerTypeOK'
  <2>1. PICK kind \in Lines : sent' = [sent EXCEPT ![c] = Append(@, kind)]
    BY <1>3 DEF Send
  <2>2. taken' = taken
    BY <1>3 DEF Send
  <2>3. SentOK'
    BY <1>0, <2>1, <2>2 DEF SentOK
  <2> QED
    BY <1>0, <1>3, <2>3, Untouched DEF Send
<1>4. ASSUME NEW c \in Clients, HangUp(c) \/ Reset(c)
      PROVE  LinkOK' /\ SentOK' /\ RepliesOK' /\ RestOK' /\ ManagerTypeOK'
  <2>1. LinkOK'
    BY <1>0, <1>4 DEF LinkOK, HangUp, Reset, Attached
  <2> QED
    BY <1>0, <1>4, <2>1, Untouched DEF HangUp, Reset
<1>5. ASSUME NEW c \in Clients, Receive(c)
      PROVE  LinkOK' /\ SentOK' /\ RepliesOK' /\ RestOK' /\ ManagerTypeOK'
  <2>1. RepliesOK'
    BY <1>0, <1>5 DEF RepliesOK, Receive, Unread
  <2> QED
    BY <1>0, <1>5, <2>1, Untouched DEF Receive
<1>6. ASSUME NEW c \in Clients, ReadLine(c)
      PROVE  LinkOK' /\ SentOK' /\ RepliesOK' /\ RestOK' /\ ManagerTypeOK'
  <2>1. ManagerTypeOK'
    BY <1>0, <1>6, CallEnters, TaskSets, Untouched DEF ReadLine
  <2>2. pc' \in {pc, [pc EXCEPT ![c] = "calling"]} /\ pc[c] = "reading" /\ link' = link
    BY <1>6 DEF ReadLine, At
  <2>3. LinkOK'
    BY <1>0, <2>2 DEF LinkOK
  <2>4. SentOK'
    BY <1>0, <1>6 DEF ReadLine, SentOK
  <2> QED
    BY <1>0, <1>6, <2>1, <2>3, <2>4, Untouched DEF ReadLine
<1>7. ASSUME NEW c \in Clients, ReadFails(c) \/ Drained(c) \/ Closed(c)
      PROVE  LinkOK' /\ SentOK' /\ RepliesOK' /\ RestOK' /\ ManagerTypeOK'
  <2>1. LinkOK'
    BY <1>0, <1>7 DEF ReadFails, Drained, Closed, At, LinkOK
  <2> QED
    BY <1>0, <1>7, <2>1, Untouched DEF ReadFails, Drained, Closed
<1>8. ASSUME NEW c \in Clients, Resume(c)
      PROVE  LinkOK' /\ SentOK' /\ RepliesOK' /\ RestOK' /\ ManagerTypeOK'
  <2>1. /\ pc' \in {[pc EXCEPT ![c] = "reading"], [pc EXCEPT ![c] = "draining"],
                  [pc EXCEPT ![c] = "closing"]}
        /\ pc[c] = "calling"
        /\ replies' \in {replies, [replies EXCEPT ![c] = Append(@, taken[c])]}
        /\ unanswered' \in {unanswered, [unanswered EXCEPT ![c] = @ \cup {taken[c]}]}
        /\ UNCHANGED <<listening, link, sent, received, taken>>
    BY <1>8 DEF Resume, At
  <2>2. LinkOK'
    BY <1>0, <2>1 DEF LinkOK
  <2>3. taken[c] \in Nat
    BY <1>0 DEF SentOK
  <2>4. RepliesOK'
    <3>1. CASE replies' = replies
      BY <1>0, <2>1, <3>1, Untouched
    <3>2. CASE replies' = [replies EXCEPT ![c] = Append(@, taken[c])]
      BY <1>0, <2>1, <2>3, <3>2 DEF RepliesOK
    <3> QED
      BY <2>1, <3>1, <3>2
  <2>5. RestOK'
    BY <1>0, <2>1, <2>3 DEF RestOK
  <2>6. ManagerTypeOK'
    BY <1>0, <1>8, ReturnForgets, TaskSets DEF Resume
  <2> QED
    BY <1>0, <1>8, <2>2, <2>4, <2>5, <2>6, Untouched DEF Resume
<1> QED
  BY <1>1, <1>2, <1>3, <1>4, <1>5, <1>6, <1>7, <1>8 DEF ScpiNext, Handle

\* ... and so does every other step of the process.
LEMMA StepTypeOK == TypeOK /\ [Next]_vars => TypeOK'
<1> SUFFICES ASSUME TypeOK, [Next]_vars PROVE TypeOK'
  OBVIOUS
<1> USE DEF TypeOK
<1>0. LinkOK /\ SentOK /\ RepliesOK /\ RestOK /\ ManagerTypeOK
  BY TypeParts DEF ClientsOK
<1>1. CASE Scpi
  BY <1>1, ScpiTypes DEF Scpi, webVars
<1>2. ASSUME NEW t \in Tasks, Call(t), UNCHANGED <<listening, clientVars, handlerVars>>
      PROVE  ScpiTypeOK'
  <2>1. ManagerTypeOK'
    BY <1>0, <1>2, CallEnters
  <2> QED
    BY <1>0, <1>2, <2>1, Untouched, TypePartsNext DEF clientVars, handlerVars
<1>3. ASSUME UNCHANGED scpiVars PROVE ScpiTypeOK'
  BY <1>0, <1>3, Untouched, TypePartsNext DEF scpiVars, clientVars, handlerVars
<1>4. CASE Start \/ Cancel
  <2>1. ScpiTypeOK'
    <3>1. RestOK'
      BY <1>0, <1>4 DEF Start, Cancel, handlerVars, RestOK
    <3> QED
      BY <1>0, <1>4, <3>1, Untouched, TypePartsNext DEF Start, Cancel, clientVars, handlerVars
  <2> QED
    BY <1>4, <2>1 DEF Start, Cancel, webVars
<1>5. ASSUME Gone, UNCHANGED listening \/ listening' = FALSE PROVE ScpiTypeOK'
  <2>1. LinkOK'
    BY <1>5 DEF Gone, LinkOK
  <2>2. SentOK'
    BY <1>5 DEF Gone, SentOK
  <2>3. RepliesOK'
    BY <1>5 DEF Gone, RepliesOK
  <2>4. RestOK'
    BY <1>0, <1>5 DEF Gone, RestOK
  <2>5. ManagerTypeOK'
    BY <1>5, GoneEmpties
  <2> QED
    BY <2>1, <2>2, <2>3, <2>4, <2>5, TypePartsNext
<1>6. CASE StopManager
  BY <1>2, <1>6, TaskSets DEF StopManager, webVars
<1>7. ASSUME NEW h \in Requests, Arrive(h) PROVE TypeOK'
  BY <1>2, <1>7, TaskSets DEF Arrive
<1>8. CASE PollBegins
  BY <1>2, <1>8, TaskSets DEF PollBegins
<1>9. CASE BindFails \/ Signal
  BY <1>3, <1>9 DEF BindFails, Signal, webVars
<1>10. CASE Connected
  <2>1. ScpiTypeOK' /\ UNCHANGED <<main, signal, request, live, poll>>
    BY <1>3, <1>10 DEF Connected
  <2>2. web' \in {"serving", "abandoned", "ended"}
    BY <1>10 DEF Connected
  <2>3. lifespan' = "up" /\ recorder' = "waiting"
    BY <1>10 DEF Connected
  <2> QED
    BY <2>1, <2>2, <2>3
<1>11. CASE ConnectFails \/ StopRecorder \/ CloseDatabase \/ RecorderGoes
  BY <1>3, <1>11 DEF ConnectFails, StopRecorder, CloseDatabase, RecorderGoes
<1>12. CASE Exit \/ Kill
  <2>1. ScpiTypeOK' /\ Gone
    BY <1>5, <1>12 DEF Exit, Kill
  <2>2. /\ request' \in [Requests -> {"none"}] /\ live' \in [Viewers -> {"none"}]
        /\ poll' = "idle" /\ signal' = signal
    BY <2>1 DEF Gone
  <2> QED
    BY <1>12, <2>1, <2>2 DEF Exit, Kill
<1>13. CASE Closedown
  <2>1. CASE Gone /\ UNCHANGED listening
    <3>1. ScpiTypeOK'
      BY <1>5, <2>1
    <3>2. /\ request' \in [Requests -> {"none"}] /\ live' \in [Viewers -> {"none"}]
          /\ poll' = "idle" /\ signal' = signal
      BY <2>1 DEF Gone
    <3> QED
      BY <1>13, <3>1, <3>2 DEF Closedown
  <2>2. CASE UNCHANGED <<scpiVars, signal, request, live, poll>>
    BY <1>3, <1>13, <2>2 DEF Closedown
  <2> QED
    BY <1>13, <2>1, <2>2 DEF Closedown
<1>14. ASSUME NEW t \in Tasks, Return(t), UNCHANGED <<listening, clientVars, handlerVars>>
       PROVE  ScpiTypeOK'
  <2>1. ManagerTypeOK'
    BY <1>0, <1>14, ReturnForgets
  <2> QED
    BY <1>0, <1>14, <2>1, Untouched, TypePartsNext DEF clientVars, handlerVars
<1>15. ASSUME NEW h \in Requests, Measured(h) PROVE TypeOK'
  BY <1>14, <1>15, TaskSets DEF Measured
<1>16. ASSUME NEW h \in Requests, Stored(h) PROVE TypeOK'
  BY <1>3, <1>16 DEF Stored
<1>17. ASSUME NEW v \in Viewers, Watch(v) \/ Unwatch(v) PROVE TypeOK'
  BY <1>3, <1>17 DEF Watch, Unwatch
<1>18. CASE PollSucceeds \/ PollFails
  BY <1>14, <1>18, TaskSets DEF PollSucceeds, PollFails, Polled
<1>19. CASE UNCHANGED vars
  BY <1>3, <1>19 DEF vars, webVars
<1> QED
  BY <1>1, <1>4, <1>6, <1>7, <1>8, <1>9, <1>10, <1>11, <1>12, <1>13, <1>15, <1>16, <1>17,
     <1>18, <1>19
  DEF Next, Run, Lifespan, Web

\* Every variable of the process keeps its type, whatever is connected, requested,
\* reset, signalled or killed.
THEOREM ServerTypeCorrect == Spec => []TypeOK
<1> QED
  BY InitTypeOK, StepTypeOK, PTL DEF Spec

-----------------------------------------------------------------------------
(* Answers and queries *)

Answered(c) == {replies[c][i] : i \in 1 .. Len(replies[c])}
Due(c) == {n \in Handled(c) : sent[c][n] = "query"} \ unanswered[c]
Open(c) == pc[c] \notin {"closing", "done"}
Increasing(c) == \A i, j \in 1 .. Len(replies[c]) : i < j => replies[c][i] < replies[c][j]

\* AnswersPaired for one client, and why it lasts: a handler that waits for the
\* manager waits for the line it has taken, and gets an ending of that line's kind.
ClientOK(c) ==
  /\ pc[c] = "calling" => taken[c] >= 1 /\ (InCall(c) \/ ending[c] \in Possible(c))
  /\ unanswered[c] \subseteq Handled(c)
  /\ Increasing(c)
  /\ Open(c) => Answered(c) = Due(c)

Paired == \A c \in Clients : ClientOK(c)

LEMMA PairedAnswers == Paired => AnswersPaired
<1> SUFFICES ASSUME Paired, NEW c \in Clients
             PROVE  /\ Increasing(c)
                    /\ pc[c] \in {"reading", "calling", "draining"} => Answered(c) = Due(c)
  BY DEF AnswersPaired, Increasing, Answered, Due
<1> QED
  BY DEF Paired, ClientOK, Open

\* A step that is nothing to c, or only ends its call.
LEMMA ClientStays ==
  ASSUME NEW c \in Clients, ClientOK(c),
         pc'[c] = pc[c], taken'[c] = taken[c], sent'[c] = sent[c],
         replies'[c] = replies[c], unanswered'[c] = unanswered[c],
         pc[c] = "calling" => InCall(c)' \/ ending'[c] \in Possible(c)
  PROVE  ClientOK(c)'
<1>1. Handled(c)' = Handled(c) /\ Possible(c)' = Possible(c) /\ Open(c)' = Open(c)
  BY DEF Handled, Possible, Kind, Open
<1>2. Increasing(c)' = Increasing(c) /\ Answered(c)' = Answered(c)
  BY DEF Increasing, Answered
<1>3. Due(c)' = Due(c)
  BY <1>1 DEF Due
<1> QED
  BY <1>1, <1>2, <1>3 DEF ClientOK

\* The handler of c closes the connection.
LEMMA ClientCloses ==
  ASSUME NEW c \in Clients, TypeOK, ClientOK(c),
         pc'[c] \in {"closing", "done"}, taken'[c] = taken[c],
         replies'[c] = replies[c], unanswered'[c] = unanswered[c]
  PROVE  ClientOK(c)'
<1>1. taken[c] \in Nat
  BY DEF TypeOK, ScpiTypeOK
<1>2. Handled(c)' = 1 .. taken[c] /\ Handled(c) \subseteq 1 .. taken[c]
  BY <1>1 DEF Handled
<1>3. ~Open(c)' /\ pc'[c] # "calling"
  BY DEF Open
<1>4. Increasing(c)'
  BY DEF ClientOK, Increasing
<1> QED
  BY <1>2, <1>3, <1>4 DEF ClientOK

\* The handler of c takes a line: a blank one is never due, the next of another
\* kind is due when its call is over.
LEMMA ClientReads ==
  ASSUME TypeOK, Paired, NEW c \in Clients, ReadLine(c)
  PROVE  ClientOK(c)'
<1>1. /\ pc[c] = "reading" /\ taken' = [taken EXCEPT ![c] = @ + 1]
      /\ taken[c] < Len(sent[c])
      /\ UNCHANGED <<sent, replies, unanswered>>
  BY DEF ReadLine, clientVars
<1>2. taken[c] \in Nat /\ taken'[c] = taken[c] + 1
  BY <1>1 DEF TypeOK, ScpiTypeOK
<1>3. Handled(c) = 1 .. taken[c] /\ ClientOK(c) /\ Open(c)
  BY <1>1 DEF Handled, Paired, Open
<1>4. Increasing(c)' /\ Answered(c)' = Answered(c)
  BY <1>1, <1>3 DEF Increasing, Answered, ClientOK
<1>5. CASE sent[c][taken[c] + 1] = "blank" /\ UNCHANGED pc
  <2>1. Handled(c)' = 1 .. taken[c] + 1
    BY <1>1, <1>2, <1>5 DEF Handled
  <2>2. Due(c)' = Due(c)
    BY <1>1, <1>2, <1>3, <1>5, <2>1 DEF Due
  <2>3. Handled(c) \subseteq Handled(c)'
    BY <1>2, <1>3, <2>1
  <2> QED
    BY <1>1, <1>3, <1>4, <1>5, <2>2, <2>3 DEF ClientOK
<1>6. CASE At(c, "calling") /\ Call(c)
  <2>1. pc'[c] = "calling"
    BY <1>6 DEF At, TypeOK, ScpiTypeOK
  <2>2. InCall(c)'
    BY <1>6, CallEnters, TaskSets, TypeParts DEF TypeOK
  <2>3. Handled(c)' = Handled(c)
    BY <1>2, <1>3, <2>1 DEF Handled
  <2>4. Due(c)' = Due(c)
    BY <1>1, <2>3 DEF Due
  <2> QED
    BY <1>1, <1>2, <1>3, <1>4, <2>1, <2>2, <2>3, <2>4 DEF ClientOK
<1> QED
  BY <1>5, <1>6 DEF ReadLine

\* A line that is sent is due later.
LEMMA ClientSends ==
  ASSUME TypeOK, Paired, NEW c \in Clients, Send(c)
  PROVE  ClientOK(c)'
<1>1. PICK kind \in Lines : sent' = [sent EXCEPT ![c] = Append(@, kind)]
  BY DEF Send
<1>2. UNCHANGED <<taken, pc, replies, unanswered, served, line, ending>>
  BY DEF Send, handlerVars, managerVars
<1>3. taken[c] \in Nat /\ taken[c] <= Len(sent[c]) /\ sent[c] \in Seq(Lines)
  BY DEF TypeOK, ScpiTypeOK
<1>4. \A n \in 1 .. taken[c] : sent'[c][n] = sent[c][n]
  BY <1>1, <1>3 DEF TypeOK, ScpiTypeOK
<1>5. ClientOK(c)
  BY DEF Paired
<1>6. Handled(c)' = Handled(c) /\ Handled(c) \subseteq 1 .. taken[c]
  BY <1>2, <1>3 DEF Handled
<1>7. Due(c)' = Due(c) /\ Increasing(c)' = Increasing(c) /\ Answered(c)' = Answered(c)
  BY <1>2, <1>4, <1>6 DEF Due, Increasing, Answered
<1>8. pc[c] = "calling" => Possible(c)' = Possible(c)
  <2> SUFFICES ASSUME pc[c] = "calling" PROVE Possible(c)' = Possible(c)
    OBVIOUS
  <2>1. taken[c] \in 1 .. taken[c]
    BY <1>3, <1>5 DEF ClientOK
  <2>2. Kind(c)' = Kind(c)
    BY <1>2, <1>4, <2>1 DEF Kind
  <2> QED
    BY <2>2 DEF Possible
<1>9. InCall(c)' = InCall(c) /\ Open(c)' = Open(c)
  BY <1>2 DEF InCall, Manager!Waiting, Open
<1> QED
  BY <1>2, <1>5, <1>6, <1>7, <1>8, <1>9 DEF ClientOK

\* The call is over: an answer is that of the line taken, which is a query.
LEMMA ClientResumes ==
  ASSUME TypeOK, Paired, NEW c \in Clients, Resume(c)
  PROVE  ClientOK(c)'
<1>1. /\ pc[c] = "calling" /\ ~InCall(c) /\ ClientOK(c)
      /\ UNCHANGED <<sent, taken>>
  BY DEF Resume, Return, clientVars, Paired
<1>2. /\ taken[c] \in Nat /\ taken[c] >= 1 /\ ending[c] \in Possible(c)
      /\ replies[c] \in Seq(Nat) /\ pc = [d \in Clients |-> pc[d]]
  BY <1>1 DEF ClientOK, TypeOK, ScpiTypeOK
<1>3. Handled(c) = 1 .. taken[c] - 1 /\ Open(c)
  BY <1>1 DEF Handled, Open
<1>4. /\ unanswered[c] \subseteq 1 .. taken[c] - 1 /\ Increasing(c)
      /\ Answered(c) = Due(c)
  BY <1>1, <1>3 DEF ClientOK
<1>5. ending[c] = "own" => Kind(c) = "query"
  BY <1>2, ScpiConstantsOK DEF Possible, ScpiConstantsOK
<1>6. ending[c] = "ok" => Kind(c) # "query"
  BY <1>2, ScpiConstantsOK DEF Possible, ScpiConstantsOK
<1>7. CASE ending[c] = "ok" /\ At(c, "reading") /\ UNCHANGED <<replies, unanswered>>
  <2>1. pc'[c] = "reading" /\ Handled(c)' = 1 .. taken[c]
    BY <1>1, <1>2, <1>7 DEF At, Handled
  <2>2. Due(c)' = Due(c)
    BY <1>1, <1>2, <1>3, <1>6, <1>7, <2>1 DEF Due, Kind
  <2>3. Increasing(c)' /\ Answered(c)' = Answered(c)
    BY <1>4, <1>7 DEF Increasing, Answered
  <2>4. unanswered'[c] \subseteq Handled(c)'
    BY <1>2, <1>4, <1>7, <2>1
  <2> QED
    BY <1>4, <2>1, <2>2, <2>3, <2>4 DEF ClientOK
<1>8. CASE /\ ending[c] = "DeviceError" /\ At(c, "reading") /\ UNCHANGED replies
           /\ unanswered' = [unanswered EXCEPT ![c] = @ \cup {taken[c]}]
  <2>1. pc'[c] = "reading" /\ Handled(c)' = 1 .. taken[c]
    BY <1>1, <1>2, <1>8 DEF At, Handled
  <2>2. unanswered'[c] = unanswered[c] \cup {taken[c]}
    BY <1>8 DEF TypeOK, ScpiTypeOK
  <2>3. Due(c)' = Due(c)
    BY <1>1, <1>2, <1>3, <2>1, <2>2 DEF Due
  <2>4. Increasing(c)' /\ Answered(c)' = Answered(c)
    BY <1>4, <1>8 DEF Increasing, Answered
  <2>5. unanswered'[c] \subseteq Handled(c)'
    BY <1>2, <1>4, <2>1, <2>2
  <2> QED
    BY <1>4, <2>1, <2>3, <2>4, <2>5 DEF ClientOK
<1>9. CASE /\ ending[c] = "own" /\ At(c, "draining") /\ UNCHANGED unanswered
           /\ replies' = [replies EXCEPT ![c] = Append(@, taken[c])]
  <2>1. pc'[c] = "draining" /\ Handled(c)' = 1 .. taken[c]
    BY <1>1, <1>2, <1>9 DEF At, Handled
  <2>2. replies'[c] = Append(replies[c], taken[c])
    BY <1>9 DEF TypeOK, ScpiTypeOK
  <2>3. /\ Len(replies'[c]) = Len(replies[c]) + 1 /\ Len(replies[c]) \in Nat
        /\ replies'[c][Len(replies[c]) + 1] = taken[c]
        /\ \A i \in 1 .. Len(replies[c]) :
             replies'[c][i] = replies[c][i] /\ replies[c][i] \in Nat
    BY <1>2, <2>2
  <2>4. ASSUME NEW i \in 1 .. Len(replies[c]) PROVE replies[c][i] < taken[c]
    <3>1. replies[c][i] \in Due(c)
      BY <1>4 DEF Answered
    <3>2. replies[c][i] \in 1 .. taken[c] - 1
      BY <1>3, <3>1 DEF Due
    <3> QED
      BY <1>2, <3>2
  <2>5. Increasing(c)'
    <3> SUFFICES ASSUME NEW i \in 1 .. Len(replies[c]) + 1, NEW j \in 1 .. Len(replies[c]) + 1,
                        i < j
                 PROVE  replies'[c][i] < replies'[c][j]
      BY <2>3 DEF Increasing
    <3>1. i \in 1 .. Len(replies[c])
      BY <2>3
    <3>2. CASE j \in 1 .. Len(replies[c])
      BY <1>4, <2>3, <3>1, <3>2 DEF Increasing
    <3>3. CASE j = Len(replies[c]) + 1
      BY <2>3, <2>4, <3>1, <3>3
    <3> QED
      BY <2>3, <3>2, <3>3
  <2>6. Answered(c)' = Answered(c) \cup {taken[c]}
    BY <2>3 DEF Answered
  <2>7. sent[c][taken[c]] = "query" /\ taken[c] \notin unanswered[c]
    BY <1>2, <1>4, <1>5, <1>9 DEF Kind
  <2>8. Due(c)' = Due(c) \cup {taken[c]}
    BY <1>1, <1>2, <1>3, <1>9, <2>1, <2>7 DEF Due
  <2>9. unanswered'[c] \subseteq Handled(c)'
    BY <1>2, <1>4, <1>9, <2>1
  <2> QED
    BY <1>4, <2>1, <2>5, <2>6, <2>8, <2>9 DEF ClientOK
<1>10. CASE /\ ending[c] \in {"odd", "Exception"} /\ At(c, "closing")
            /\ UNCHANGED <<replies, unanswered>>
  <2>1. pc'[c] = "closing"
    BY <1>2, <1>10 DEF At
  <2> QED
    BY <1>1, <1>10, <2>1, ClientCloses
<1> QED
  BY <1>7, <1>8, <1>9, <1>10 DEF Resume

\* What the manager does never takes an answer from a client that waits.
LEMMA ManagerKeeps ==
  ASSUME TypeOK, Paired,
         NEW c \in Clients, pc[c] = "calling",
         \/ UNCHANGED managerVars \/ Take \/ Leave
         \/ \E t \in Tasks : Call(t)
         \/ \E t \in Tasks \ {c} : Return(t)
  PROVE  InCall(c)' \/ ending'[c] \in Possible(c)
<1>1. c \in Tasks /\ ManagerTypeOK /\ (InCall(c) \/ ending[c] \in Possible(c))
  BY TaskSets, TypeParts DEF TypeOK, Paired, ClientOK
<1>2. CASE UNCHANGED managerVars
  BY <1>1, <1>2 DEF managerVars, InCall, Manager!Waiting
<1>3. CASE Take
  BY <1>1, <1>3, TakeServes
<1>4. CASE Leave
  <2>1. CASE c = served
    BY <1>1, <1>4, <2>1, LeaveFrees
  <2>2. CASE c # served
    BY <1>1, <1>4, <2>2, LeaveFrees
  <2> QED
    BY <2>1, <2>2
<1>5. ASSUME NEW t \in Tasks, Call(t) PROVE InCall(c)' \/ ending'[c] \in Possible(c)
  BY <1>1, <1>5, CallEnters
<1>6. ASSUME NEW t \in Tasks \ {c}, Return(t) PROVE InCall(c)' \/ ending'[c] \in Possible(c)
  BY <1>1, <1>6, ReturnForgets
<1> QED
  BY <1>2, <1>3, <1>4, <1>5, <1>6

\* A step that leaves the handlers and what was sent to them alone.
LEMMA HandlersIdle ==
  ASSUME TypeOK, Paired, UNCHANGED <<handlerVars, sent>>,
         \/ UNCHANGED managerVars \/ Take \/ Leave
         \/ \E t \in Tasks : Call(t)
         \/ \E t \in Tasks \ Clients : Return(t)
  PROVE  Paired'
<1> SUFFICES ASSUME NEW c \in Clients PROVE ClientOK(c)'
  BY DEF Paired
<1>1. UNCHANGED <<taken, pc, replies, unanswered, sent>> /\ ClientOK(c)
  BY DEF handlerVars, Paired
<1>2. pc[c] = "calling" => InCall(c)' \/ ending'[c] \in Possible(c)
  BY ManagerKeeps
<1> QED
  BY <1>1, <1>2, ClientStays

\* A step of the handler of c, or a line from c, is nothing to another client.
LEMMA OthersStay ==
  ASSUME TypeOK, Paired, NEW c \in Clients, NEW d \in Clients, c # d,
         Send(c) \/ Accept(c) \/ Handle(c)
  PROVE  ClientOK(d)'
<1>1. /\ pc'[d] = pc[d] /\ taken'[d] = taken[d] /\ sent'[d] = sent[d]
      /\ replies'[d] = replies[d] /\ unanswered'[d] = unanswered[d]
  BY DEF Send, Accept, Handle, ReadLine, ReadFails, Resume, Drained, Closed, At,
         clientVars, handlerVars, TypeOK, ScpiTypeOK
<1>2. UNCHANGED managerVars \/ Call(c) \/ Return(c)
  BY DEF Send, Accept, Handle, ReadLine, ReadFails, Resume, Drained, Closed
<1>3. pc[d] = "calling" => InCall(d)' \/ ending'[d] \in Possible(d)
  BY <1>2, ManagerKeeps, TaskSets
<1> QED
  BY <1>1, <1>3, ClientStays DEF Paired

LEMMA InitPaired == Init => Paired
<1> SUFFICES ASSUME Init, NEW c \in Clients PROVE ClientOK(c)
  BY DEF Paired
<1>1. /\ pc[c] = "none" /\ taken[c] = 0 /\ replies[c] = <<>> /\ unanswered[c] = {}
  BY DEF Init, ScpiInit
<1>2. Handled(c) = {} /\ Answered(c) = {}
  BY <1>1 DEF Handled, Answered
<1> QED
  BY <1>1, <1>2 DEF ClientOK, Increasing, Due

\* Every step keeps the answers paired with the queries.
LEMMA StepPaired == TypeOK /\ Paired /\ [Next]_vars => Paired'
<1> SUFFICES ASSUME TypeOK, Paired, [Next]_vars PROVE Paired'
  OBVIOUS
<1>1. ASSUME NEW c \in Clients, Send(c) \/ Accept(c) \/ Handle(c) PROVE Paired'
  <2> SUFFICES ClientOK(c)'
    BY <1>1, OthersStay DEF Paired
  <2>0. ClientOK(c)
    BY DEF Paired
  <2>1. CASE Send(c)
    BY <2>1, ClientSends
  <2>2. CASE ReadLine(c)
    BY <2>2, ClientReads
  <2>3. CASE Resume(c)
    BY <2>3, ClientResumes
  <2>4. CASE Accept(c) \/ (Drained(c) /\ At(c, "reading"))
    <3>1. /\ pc[c] \in {"none", "draining"} /\ pc'[c] = "reading"
          /\ UNCHANGED <<sent, taken, replies, unanswered>>
      BY <2>4 DEF Accept, Drained, At, Attached, clientVars, TypeOK, ScpiTypeOK
    <3>2. Handled(c)' = Handled(c)
      BY <3>1 DEF Handled
    <3>3. Due(c)' = Due(c) /\ Increasing(c)' = Increasing(c) /\ Answered(c)' = Answered(c)
      BY <3>1, <3>2 DEF Due, Increasing, Answered
    <3> QED
      BY <2>0, <3>1, <3>2, <3>3 DEF ClientOK, Open
  <2>5. CASE ReadFails(c) \/ Closed(c) \/ (Drained(c) /\ At(c, "closing"))
    <3>1. /\ pc'[c] \in {"closing", "done"}
          /\ UNCHANGED <<taken, replies, unanswered>>
      BY <2>5 DEF ReadFails, Closed, Drained, At, TypeOK, ScpiTypeOK
    <3> QED
      BY <2>0, <3>1, ClientCloses
  <2> QED
    BY <1>1, <2>1, <2>2, <2>3, <2>4, <2>5 DEF Handle, Drained
<1>2. CASE Gone
  <2> SUFFICES ASSUME NEW c \in Clients PROVE ClientOK(c)'
    BY DEF Paired
  <2>1. pc'[c] = "done" /\ replies'[c] = <<>> /\ unanswered'[c] = {}
    BY <1>2 DEF Gone
  <2> QED
    BY <2>1 DEF ClientOK, Open, Increasing
<1>3. CASE Take \/ Leave
  BY <1>3, HandlersIdle DEF Take, Leave, clientVars
<1>4. ASSUME NEW c \in Clients, HangUp(c) \/ Reset(c) \/ Receive(c) PROVE Paired'
  BY <1>4, HandlersIdle DEF HangUp, Reset, Receive
<1>5. CASE Scpi
  BY <1>1, <1>3, <1>4, <1>5 DEF Scpi, ScpiNext
<1>6. CASE Start \/ Cancel
  BY <1>6, HandlersIdle DEF Start, Cancel, clientVars
<1>7. CASE StopManager
  BY <1>7, HandlersIdle, TaskSets DEF StopManager, clientVars
<1>8. CASE Web
  <2>1. UNCHANGED <<handlerVars, sent>>
    BY <1>8 DEF Web, Arrive, Measured, Stored, Watch, Unwatch, PollBegins, PollSucceeds,
                PollFails, scpiVars, clientVars
  <2>2. \/ UNCHANGED managerVars
        \/ \E t \in Tasks : Call(t)
        \/ \E t \in Tasks \ Clients : Return(t)
    BY <1>8, TaskSets DEF Web, Arrive, Measured, Stored, Watch, Unwatch, PollBegins,
                          PollSucceeds, PollFails, Polled, scpiVars
  <2> QED
    BY <2>1, <2>2, HandlersIdle
<1>9. CASE UNCHANGED scpiVars
  BY <1>9, HandlersIdle DEF scpiVars, clientVars
<1>10. CASE BindFails \/ Signal \/ Lifespan \/ RecorderGoes \/ UNCHANGED vars
  <2>1. UNCHANGED scpiVars \/ Gone
    BY <1>10 DEF BindFails, Signal, Lifespan, RecorderGoes, Connected, ConnectFails,
                 StopRecorder, CloseDatabase, Closedown, vars
  <2> QED
    BY <1>2, <1>9, <2>1
<1>11. CASE Exit \/ Kill
  BY <1>2, <1>11 DEF Exit, Kill
<1> QED
  BY <1>5, <1>6, <1>7, <1>8, <1>10, <1>11 DEF Next, Run

\* The answers of a client that pipelines its lines are those of its queries, one
\* each and in order, however many clients the server has and however the calls end.
THEOREM AnswersAlwaysPaired == Spec => []AnswersPaired
<1>1. Init => TypeOK /\ Paired
  BY InitTypeOK, InitPaired
<1>2. (TypeOK /\ Paired) /\ [Next]_vars => (TypeOK /\ Paired)'
  BY StepTypeOK, StepPaired
<1> QED
  BY <1>1, <1>2, PairedAnswers, PTL DEF Spec

-----------------------------------------------------------------------------
(* The order of a shutdown *)

\* Whoever is inside the manager is where its code called it.
Callers ==
  /\ \A c \in Clients : InCall(c) => pc[c] = "calling"
  /\ \A h \in Requests : InCall(h) => request[h] = "calling"
  /\ InCall(Poller) => poll = "calling"
  /\ InCall(Main) => main = "closing"

\* What there is at each stage of the run.
Stage ==
  /\ main = "starting" =>
       /\ web = "off" /\ lifespan = "off" /\ recorder = "off"
       /\ served = Nobody /\ line = <<>>
  /\ main \in {"starting", "closing", "exited", "killed"} => \A c \in Clients : ~Attached(c)
  /\ listening => main = "serving"
  /\ web \in {"starting", "serving", "draining"} => main = "serving"

\* Handlers and the poll loop run only between start-up and the end of uvicorn's
\* wait for them, or for an abandoned listener.
Busy ==
  \/ \E h \in Requests : request[h] # "none"
  \/ \E v \in Viewers : live[v] # "none"
  \/ poll = "calling"

Up == lifespan = "up" \/ (web = "abandoned" /\ main = "exited")

WebOK ==
  /\ Busy => web \in {"serving", "draining", "abandoned"} /\ Up
  /\ web \in {"serving", "abandoned"} => Up
  /\ poll = "calling" => \E v \in Viewers : live[v] # "none"
  /\ lifespan = "connecting" => web = "starting"
  /\ lifespan \in {"off", "connecting", "failed"} => recorder = "off"
  /\ lifespan \in {"closing", "down"} => recorder \in {"off", "ended"}

\* Nobody comes after the call of manager.stop, and nobody is left when it is over,
\* unless a listener was abandoned.
MainLast ==
  /\ \A i \in 1 .. Len(line) : line[i] = Main => i = Len(line)
  /\ served = Main => line = <<>>
  /\ (main = "closing" /\ ~InCall(Main)) \/ main = "exited" => served = Nobody /\ line = <<>>

LastCall == web # "abandoned" => MainLast

ServerInv == Callers /\ Stage /\ WebOK /\ LastCall

LEMMA ServerInvImplies == TypeOK /\ ServerInv => StopIsLast /\ DatabaseOutlivesWriters
<1> SUFFICES ASSUME TypeOK, ServerInv PROVE StopIsLast /\ DatabaseOutlivesWriters
  OBVIOUS
<1>1. StopIsLast
  BY DEF ServerInv, LastCall, MainLast, StopIsLast
<1>2. ASSUME ~DatabaseOpen PROVE recorder \in {"off", "ended"}
  BY <1>2 DEF ServerInv, WebOK, DatabaseOpen, TypeOK
<1>3. ASSUME NEW h \in Requests, request[h] = "storing"
      PROVE  DatabaseOpen \/ (web = "abandoned" /\ main = "exited")
  BY <1>3 DEF ServerInv, WebOK, Busy, Up, DatabaseOpen
<1> QED
  BY <1>1, <1>2, <1>3 DEF DatabaseOutlivesWriters

LEMMA InitServerInv == Init => ServerInv
<1> SUFFICES ASSUME Init PROVE ServerInv
  OBVIOUS
<1>1. /\ served = Nobody /\ line = <<>> /\ listening = FALSE
      /\ \A c \in Clients : link[c] = "none"
  BY DEF Init, ScpiInit, Manager!Init
<1>2. /\ main = "starting" /\ web = "off" /\ lifespan = "off" /\ recorder = "off"
      /\ poll = "idle"
      /\ \A h \in Requests : request[h] = "none"
      /\ \A v \in Viewers : live[v] = "none"
  BY DEF Init
<1>3. \A t \in Tasks : ~InCall(t)
  BY <1>1, TaskSets DEF InCall, Manager!Waiting
<1>4. Callers
  BY <1>3, TaskSets DEF Callers
<1>5. Stage
  BY <1>1, <1>2 DEF Stage, Attached
<1>6. WebOK
  BY <1>2 DEF WebOK, Busy
<1>7. LastCall
  BY <1>1, <1>2, TaskSets DEF LastCall, MainLast
<1> QED
  BY <1>4, <1>5, <1>6, <1>7 DEF ServerInv

\* What ends the tasks leaves nothing busy.
LEMMA GoneIdle == Gone => ~Busy'
<1> QED
  BY DEF Gone, Busy

\* Nothing is busy before uvicorn serves, nor when its lifespan is on its way down.
LEMMA StepWebOK == TypeOK /\ Stage /\ WebOK /\ [Next]_vars => WebOK'
<1> SUFFICES ASSUME TypeOK, Stage, WebOK, [Next]_vars PROVE WebOK'
  OBVIOUS
<1>1. ASSUME UNCHANGED <<main, webVars>> PROVE WebOK'
  BY <1>1 DEF webVars, WebOK, Busy, Up
<1>2. CASE Scpi \/ UNCHANGED vars
  <2>1. UNCHANGED <<main, webVars>>
    BY <1>2 DEF Scpi, vars
  <2> QED
    BY <1>1, <2>1
<1>3. CASE Start
  BY <1>3 DEF Start, Stage, WebOK, Busy, Up
<1>4. CASE BindFails \/ Cancel \/ StopManager
  <2>1. UNCHANGED webVars /\ (main = "starting" \/ main' # "exited") /\ main # "exited"
    BY <1>4 DEF BindFails, Cancel, Returned, StopManager
  <2>2. lifespan = "up" \/ (~Busy /\ web \notin {"serving", "abandoned"})
    BY <2>1 DEF WebOK, Up
  <2> QED
    BY <2>1, <2>2 DEF webVars, WebOK, Busy, Up
<1>5. CASE Kill
  <2>1. ~Busy' /\ poll' # "calling"
    BY <1>5, GoneIdle DEF Kill, Gone
  <2> QED
    BY <1>5, <2>1 DEF Kill, WebOK
<1>6. CASE Exit
  <2>1. ~Busy' /\ poll' # "calling" /\ main' = "exited" /\ UNCHANGED <<web, lifespan, recorder>>
    BY <1>6, GoneIdle DEF Exit, Gone
  <2>2. web' # "serving"
    BY <1>6, <2>1 DEF Exit, Stage
  <2> QED
    BY <2>1, <2>2 DEF WebOK, Up
<1>7. CASE Signal
  <2>1. \A v \in Viewers : (live'[v] = "none") <=> (live[v] = "none")
    BY <1>7 DEF Signal
  <2>2. web' = web \/ (web = "serving" /\ web' = "draining")
    BY <1>7 DEF Signal
  <2>3. UNCHANGED <<main, lifespan, recorder, request, poll>> /\ main # "exited"
    BY <1>7 DEF Signal
  <2> QED
    BY <2>1, <2>2, <2>3 DEF WebOK, Busy, Up
<1>8. CASE Connected
  BY <1>8 DEF Connected, WebOK, Busy, Up
<1>9. CASE ConnectFails
  BY <1>9 DEF ConnectFails, WebOK, Busy, Up
<1>10. CASE StopRecorder
  <2>1. UNCHANGED <<main, web, request, live, poll>> /\ lifespan' = "stopping"
        /\ recorder' = "cancelled"
    BY <1>10 DEF StopRecorder
  <2>2. web # "serving"
    BY <1>10 DEF StopRecorder, ShutDown, Stage
  <2>3. CASE main = "exited"
    BY <2>1, <2>2, <2>3 DEF WebOK, Busy, Up, Stage
  <2>4. CASE main # "exited" /\ web = "draining" /\ Handlers = {}
    <3>1. ~Busy
      BY <2>4 DEF Handlers, Busy, WebOK
    <3> QED
      BY <2>1, <2>4, <3>1 DEF WebOK, Busy, Up
  <2> QED
    BY <1>10, <2>3, <2>4 DEF StopRecorder, ShutDown
<1>11. CASE CloseDatabase
  BY <1>11 DEF CloseDatabase, WebOK, Busy, Up
<1>12. CASE Closedown
  <2>1. ~Busy' /\ poll' # "calling"
    <3>1. CASE Gone
      BY <3>1, GoneIdle DEF Gone
    <3>2. CASE main # "exited" /\ UNCHANGED <<request, live, poll>>
      BY <1>12, <3>2 DEF Closedown, WebOK, Busy, Up
    <3> QED
      BY <1>12, <3>1, <3>2 DEF Closedown
  <2> QED
    BY <1>12, <2>1 DEF Closedown, WebOK
<1>13. CASE RecorderGoes
  BY <1>13 DEF RecorderGoes, WebOK, Busy, Up
<1>14. ASSUME NEW h \in Requests, Arrive(h) \/ Measured(h) \/ Stored(h) PROVE WebOK'
  <2>1. Busy' => Busy \/ web \in {"serving", "abandoned"}
    BY <1>14 DEF Arrive, Accepting, Measured, Stored, Busy, TypeOK
  <2> QED
    BY <1>14, <2>1 DEF Arrive, Measured, Stored, WebOK, Up
<1>15. ASSUME NEW v \in Viewers, Watch(v) \/ Unwatch(v) PROVE WebOK'
  <2>1. Busy' => Busy \/ web \in {"serving", "abandoned"}
    BY <1>15 DEF Watch, Accepting, Unwatch, Busy, TypeOK
  <2>2. \A w \in Viewers : live[w] # "none" => live'[w] # "none"
    BY <1>15 DEF Watch, Unwatch, TypeOK
  <2> QED
    BY <1>15, <2>1, <2>2 DEF Watch, Unwatch, WebOK, Up
<1>16. CASE PollBegins
  BY <1>16 DEF PollBegins, WebOK, Busy, Up
<1>17. CASE PollSucceeds \/ PollFails
  <2>1. poll' = "idle" /\ UNCHANGED <<main, web, lifespan, request>>
    BY <1>17 DEF PollSucceeds, PollFails, Polled
  <2>2. \A v \in Viewers : live'[v] # "none" => live[v] # "none"
    BY <1>17 DEF PollSucceeds, PollFails
  <2>3. recorder' = recorder \/ recorder = "waiting"
    BY <1>17 DEF PollSucceeds, PollFails
  <2> QED
    BY <2>1, <2>2, <2>3 DEF WebOK, Busy, Up
<1> QED
  BY <1>2, <1>3, <1>4, <1>5, <1>6, <1>7, <1>8, <1>9, <1>10, <1>11, <1>12, <1>13, <1>14,
     <1>15, <1>16, <1>17
  DEF Next, Run, Lifespan, Web

\* A call begins only while the server serves, or at an abandoned listener; the last
\* one is that of the main task.
LEMMA WhoCalls ==
  ASSUME TypeOK, Stage, WebOK, Next
  PROVE  \/ UNCHANGED <<served, line>> /\ \A u \in Tasks : InCall(u)' <=> InCall(u)
         \/ Take /\ UNCHANGED <<main, pc, webVars>>
         \/ Leave /\ UNCHANGED <<main, pc, webVars>>
         \/ Gone
         \/ StopManager
         \/ /\ main' = main /\ web' = web
            /\ main \in {"serving", "stopping"} \/ web = "abandoned"
            /\ \E t \in Tasks \ {Main} : Call(t)
<1>0. ManagerTypeOK
  BY TypeParts DEF TypeOK
<1>1. ASSUME UNCHANGED managerVars
      PROVE  UNCHANGED <<served, line>> /\ \A u \in Tasks : InCall(u)' <=> InCall(u)
  BY <1>1 DEF managerVars, InCall, Manager!Waiting
<1>2. ASSUME NEW t \in Tasks, Return(t)
      PROVE  UNCHANGED <<served, line>> /\ \A u \in Tasks : InCall(u)' <=> InCall(u)
  BY <1>0, <1>2, ReturnForgets
<1>3. CASE Scpi
  <2>1. CASE Take \/ Leave
    BY <1>3, <2>1 DEF Scpi, Take, Leave, handlerVars
  <2>2. ASSUME NEW c \in Clients, ReadLine(c), Call(c)
        PROVE  /\ main' = main /\ web' = web /\ main \in {"serving", "stopping"}
               /\ \E t \in Tasks \ {Main} : Call(t)
    <3>1. Attached(c) /\ c \in Tasks \ {Main}
      BY <2>2, TaskSets DEF ReadLine
    <3>2. main \in {"serving", "stopping"}
      BY <3>1 DEF Stage, TypeOK
    <3> QED
      BY <1>3, <2>2, <3>1, <3>2 DEF Scpi, webVars
  <2>3. ASSUME NEW c \in Clients, \/ Accept(c) \/ Send(c) \/ HangUp(c) \/ Reset(c) \/ Receive(c)
                                  \/ ReadLine(c) /\ ~Call(c)
                                  \/ ReadFails(c) \/ Drained(c) \/ Closed(c)
        PROVE  UNCHANGED managerVars
    BY <2>3 DEF Accept, Send, HangUp, Reset, Receive, ReadLine, ReadFails, Drained, Closed
  <2>4. ASSUME NEW c \in Clients, Resume(c) PROVE Return(c) /\ c \in Tasks
    BY <2>4, TaskSets DEF Resume
  <2> QED
    BY <1>1, <1>2, <1>3, <2>1, <2>2, <2>3, <2>4 DEF Scpi, ScpiNext, Handle
<1>4. CASE Kill \/ Exit \/ StopManager
  BY <1>4 DEF Kill, Exit
<1>5. CASE Start \/ BindFails \/ Cancel \/ Signal \/ Lifespan \/ RecorderGoes
  <2>1. UNCHANGED managerVars \/ Gone
    BY <1>5 DEF Start, BindFails, Cancel, Signal, Lifespan, RecorderGoes, Connected,
                ConnectFails, StopRecorder, CloseDatabase, Closedown, scpiVars
  <2> QED
    BY <1>1, <2>1
<1>6. CASE Web
  <2>1. CASE (\E h \in Requests : Arrive(h)) \/ PollBegins
    <3>1. UNCHANGED <<main, web>> /\ \E t \in Tasks \ {Main} : Call(t)
      BY <2>1, TaskSets, LifecycleConstantsOK DEF Arrive, PollBegins, LifecycleConstantsOK
    <3>2. web \in {"serving", "draining", "abandoned"}
      BY <2>1 DEF Arrive, Accepting, PollBegins, WebOK, Busy
    <3> QED
      BY <3>1, <3>2 DEF Stage
  <2>2. CASE (\E h \in Requests : Measured(h)) \/ PollSucceeds \/ PollFails
    <3>1. \E t \in Tasks : Return(t)
      BY <2>2, TaskSets DEF Measured, PollSucceeds, PollFails, Polled
    <3> QED
      BY <1>2, <3>1
  <2>3. CASE \/ \E h \in Requests : Stored(h)
             \/ \E v \in Viewers : Watch(v) \/ Unwatch(v)
    <3>1. UNCHANGED managerVars
      BY <2>3 DEF Stored, Watch, Unwatch, scpiVars
    <3> QED
      BY <1>1, <3>1
  <2> QED
    BY <1>6, <2>1, <2>2, <2>3 DEF Web
<1> QED
  BY <1>3, <1>4, <1>5, <1>6 DEF Next, Run

LEMMA StepStage == TypeOK /\ Stage /\ WebOK /\ [Next]_vars => Stage'
<1> SUFFICES ASSUME TypeOK, Stage, WebOK, [Next]_vars PROVE Stage'
  OBVIOUS
<1>1. CASE UNCHANGED vars
  BY <1>1 DEF vars, scpiVars, clientVars, managerVars, webVars, Stage, Attached
<1>2. CASE Scpi
  <2>1. UNCHANGED <<main, web, lifespan, recorder, listening>>
    BY <1>2 DEF Scpi, ScpiNext, webVars, Take, Leave, Accept, Send, HangUp, Reset, Receive,
                Handle, ReadLine, ReadFails, Resume, Drained, Closed
  <2>2. ASSUME NEW c \in Clients, Attached(c)' PROVE Attached(c) \/ main = "serving"
    <3>1. CASE \E d \in Clients : Accept(d)
      BY <3>1 DEF Accept, Stage
    <3>2. CASE link' = link
      BY <2>2, <3>2 DEF Attached
    <3>3. ASSUME NEW d \in Clients, HangUp(d) \/ Reset(d) \/ Closed(d) PROVE Attached(c)
      BY <2>2, <3>3 DEF HangUp, Reset, Closed, Attached, TypeOK, ScpiTypeOK
    <3> QED
      BY <1>2, <3>1, <3>2, <3>3 DEF Scpi, ScpiNext, Take, Leave, Send, Receive, Handle,
                ReadLine, ReadFails, Resume, Drained, clientVars
  <2>3. main = "starting" => served' = Nobody /\ line' = <<>>
    <3> SUFFICES ASSUME main = "starting" PROVE served' = Nobody /\ line' = <<>>
      OBVIOUS
    <3>1. served = Nobody /\ line = <<>> /\ main \notin {"serving", "stopping"} /\ web = "off"
      BY DEF Stage
    <3>2. ~StopManager
      BY DEF StopManager
    <3>3. ~Take /\ ~Leave
      BY <3>1 DEF Take, Leave, Manager!Take, Manager!Leave
    <3> QED
      BY <1>2, <3>1, <3>2, <3>3, WhoCalls, GoneEmpties DEF Next
  <2> QED
    BY <2>1, <2>2, <2>3 DEF Stage
<1>3. CASE Run
  <2>1. CASE Start
    BY <2>1 DEF Start, Stage
  <2>2. CASE BindFails
    BY <2>2 DEF BindFails, scpiVars, clientVars, webVars, Stage, Attached
  <2>3. CASE Cancel
    BY <2>3 DEF Cancel, Returned, webVars, Stage
  <2>4. CASE Kill \/ Exit
    <3>1. /\ main' \in {"killed", "exited"} /\ \A c \in Clients : ~Attached(c)'
          /\ listening' = FALSE \/ (listening' = listening /\ main = "closing")
          /\ web' = "ended" \/ (web' = web /\ main = "closing")
      BY <2>4 DEF Kill, Exit, Gone, Attached
    <3> QED
      BY <3>1 DEF Stage, TypeOK, ScpiTypeOK
  <2>5. CASE StopManager
    BY <2>5 DEF StopManager, clientVars, webVars, Stage, Attached
  <2> QED
    BY <1>3, <2>1, <2>2, <2>3, <2>4, <2>5 DEF Run
<1>4. CASE Signal \/ Lifespan \/ RecorderGoes \/ Web
  <2>1. main # "starting" /\ main' = main
    BY <1>4 DEF Signal, Lifespan, RecorderGoes, Connected, ConnectFails, StopRecorder,
                CloseDatabase, Closedown, Web, Arrive, Accepting, Measured, Stored, Watch,
                Unwatch, PollBegins, PollSucceeds, PollFails, Polled, Stage, WebOK, Busy
  <2>2. UNCHANGED listening
    BY <1>4 DEF Signal, Lifespan, RecorderGoes, Connected, ConnectFails, StopRecorder,
                CloseDatabase, Closedown, Web, Arrive, Measured, Stored, Watch, Unwatch,
                PollBegins, PollSucceeds, PollFails, Polled, scpiVars
  <2>3. \A c \in Clients : Attached(c)' => Attached(c)
    <3>1. CASE UNCHANGED link
      BY <3>1 DEF Attached
    <3>2. CASE Gone
      BY <3>2 DEF Gone, Attached
    <3> QED
      BY <1>4, <3>1, <3>2 DEF Signal, Lifespan, RecorderGoes, Connected, ConnectFails,
                StopRecorder, CloseDatabase, Closedown, Web, Arrive, Measured, Stored, Watch,
                Unwatch, PollBegins, PollSucceeds, PollFails, Polled, scpiVars, clientVars
  <2>4. \/ web' = web \/ web \in {"starting", "serving", "draining"}
        \/ web' \in {"abandoned", "ended"}
    BY <1>4 DEF Signal, Lifespan, RecorderGoes, Connected, ConnectFails, StopRecorder,
                CloseDatabase, Closedown, Web, Arrive, Measured, Stored, Watch, Unwatch,
                PollBegins, PollSucceeds, PollFails, Polled, WebOK
  <2> QED
    BY <2>1, <2>2, <2>3, <2>4 DEF Stage
<1> QED
  BY <1>1, <1>2, <1>3, <1>4 DEF Next

\* A caller that is inside stays where it called; only its own code moves it on.
LEMMA StepCallers == TypeOK /\ Callers /\ Stage /\ WebOK /\ [Next]_vars => Callers'
<1> SUFFICES ASSUME TypeOK, Callers, Stage, WebOK, [Next]_vars PROVE Callers'
  OBVIOUS
<1>0. ManagerTypeOK
  BY TypeParts DEF TypeOK
<1>1. CASE UNCHANGED vars
  BY <1>1 DEF vars, scpiVars, handlerVars, managerVars, webVars, Callers, InCall,
              Manager!Waiting
<1>2. CASE Gone
  BY <1>2, GoneEmpties, TaskSets DEF Callers
<1>3. ASSUME \A u \in Tasks : InCall(u)' => InCall(u),
             UNCHANGED <<main, pc, request, poll>>
      PROVE  Callers'
  BY <1>3, TaskSets DEF Callers
<1>4. CASE Scpi
  <2>1. CASE Take \/ Leave
    <3>1. \A u \in Tasks : InCall(u)' => InCall(u)
      BY <1>0, <2>1, TakeServes, LeaveFrees
    <3> QED
      BY <1>3, <1>4, <2>1, <3>1 DEF Scpi, webVars, Take, Leave, handlerVars
  <2>2. ASSUME NEW c \in Clients, Accept(c) \/ Send(c) \/ HangUp(c) \/ Reset(c) \/ Receive(c)
                                  \/ Handle(c)
        PROVE  Callers'
    <3>1. UNCHANGED <<main, request, poll>>
      BY <1>4 DEF Scpi, webVars
    <3>2. \A d \in Clients : d # c => pc'[d] = pc[d]
      BY <2>2 DEF Accept, Send, HangUp, Reset, Receive, Handle, ReadLine, ReadFails, Resume,
                  Drained, Closed, At, handlerVars, TypeOK, ScpiTypeOK
    <3>3. CASE pc'[c] = "calling" /\ Call(c)
      BY <1>0, <3>1, <3>2, <3>3, CallEnters, TaskSets DEF Callers
    <3>4. CASE /\ UNCHANGED <<served, line>>
               /\ pc'[c] = pc[c] \/ pc[c] # "calling" \/ ~InCall(c)
      <4>1. \A u \in Tasks : InCall(u)' <=> InCall(u)
        BY <3>4 DEF InCall, Manager!Waiting
      <4> QED
        BY <3>1, <3>2, <3>4, <4>1, TaskSets DEF Callers
    <3>5. ReadLine(c) => \/ pc'[c] = "calling" /\ Call(c)
                         \/ UNCHANGED <<served, line>> /\ pc'[c] = pc[c]
      BY DEF ReadLine, At, managerVars, TypeOK, ScpiTypeOK
    <3>6. Resume(c) => UNCHANGED <<served, line>> /\ ~InCall(c)
      BY DEF Resume, Return
    <3> QED
      BY <2>2, <3>3, <3>4, <3>5, <3>6 DEF Accept, Send, HangUp, Reset, Receive, Handle,
             ReadFails, Drained, Closed, handlerVars, managerVars, TypeOK, ScpiTypeOK
  <2> QED
    BY <1>4, <2>1, <2>2 DEF Scpi, ScpiNext
<1>5. CASE StopManager
  BY <1>0, <1>5, CallEnters, TaskSets DEF StopManager, handlerVars, webVars, Callers
<1>6. ASSUME NEW h \in Requests, Arrive(h) PROVE Callers'
  BY <1>0, <1>6, CallEnters, TaskSets DEF Arrive, handlerVars, Callers, TypeOK
<1>7. CASE PollBegins
  BY <1>0, <1>7, CallEnters, TaskSets DEF PollBegins, handlerVars, Callers
<1>8. ASSUME NEW h \in Requests, Measured(h) \/ Stored(h) PROVE Callers'
  <2>1. ~InCall(h) /\ UNCHANGED <<main, pc, poll, served, line>>
        /\ \A g \in Requests : g # h => request'[g] = request[g]
    BY <1>8 DEF Measured, Stored, Return, Callers, scpiVars, handlerVars, managerVars, TypeOK
  <2>2. \A u \in Tasks : InCall(u)' <=> InCall(u)
    BY <2>1 DEF InCall, Manager!Waiting
  <2> QED
    BY <2>1, <2>2, TaskSets DEF Callers
<1>9. CASE \/ Start \/ BindFails \/ Cancel
           \/ Signal \/ (Lifespan /\ ~Gone) \/ RecorderGoes
           \/ \E v \in Viewers : Watch(v) \/ Unwatch(v)
           \/ PollSucceeds \/ PollFails
  <2>1. UNCHANGED <<pc, request, served, line>>
    BY <1>9 DEF Start, BindFails, Cancel, Signal, Lifespan, RecorderGoes, Connected,
                ConnectFails, StopRecorder, CloseDatabase, Closedown, Watch, Unwatch,
                PollSucceeds, PollFails, Polled, Return, scpiVars, handlerVars, managerVars,
                webVars
  <2>2. \A u \in Tasks : InCall(u)' <=> InCall(u)
    BY <2>1 DEF InCall, Manager!Waiting
  <2>3. main' = main \/ ~InCall(Main)
    BY <1>9 DEF Start, BindFails, Cancel, Returned, Signal, Lifespan, RecorderGoes, Connected,
                ConnectFails, StopRecorder, CloseDatabase, Closedown, Watch, Unwatch,
                PollSucceeds, PollFails, Polled, Callers
  <2>4. poll' = poll \/ ~InCall(Poller)
    BY <1>9 DEF Start, BindFails, Cancel, Signal, Lifespan, RecorderGoes, Connected,
                ConnectFails, StopRecorder, CloseDatabase, Closedown, Watch, Unwatch,
                PollSucceeds, PollFails, Polled, Return, webVars
  <2> QED
    BY <2>1, <2>2, <2>3, <2>4, TaskSets DEF Callers
<1>10. CASE Kill \/ Exit
  BY <1>2, <1>10 DEF Kill, Exit
<1> QED
  BY <1>1, <1>2, <1>4, <1>5, <1>6, <1>7, <1>8, <1>9, <1>10 DEF Next, Run, Web

\* The manager serves whoever is left in front of the main task, and nobody joins
\* behind it.
LEMMA StepLastCall ==
  TypeOK /\ ServerInv /\ [Next]_vars => LastCall'
<1> SUFFICES ASSUME TypeOK, ServerInv, [Next]_vars PROVE LastCall'
  OBVIOUS
<1> USE DEF ServerInv
<1>0. ManagerTypeOK /\ Main \in Tasks /\ Main # Nobody
  BY TypeParts, TaskSets DEF TypeOK
<1> SUFFICES ASSUME web' # "abandoned" PROVE MainLast'
  BY DEF LastCall
<1>1. CASE Gone
  BY <1>0, <1>1, GoneEmpties DEF MainLast
<1> SUFFICES ASSUME ~Gone PROVE MainLast'
  BY <1>1
<1>2. web # "abandoned" /\ MainLast
  <2>1. web # "abandoned"
    BY DEF Next, vars, webVars, Scpi, Run, Start, BindFails, Cancel, Kill, StopManager, Exit,
           Signal, Lifespan, Connected, ConnectFails, StopRecorder, CloseDatabase, Closedown,
           RecorderGoes, Web, Arrive, Measured, Stored, Watch, Unwatch, PollBegins,
           PollSucceeds, PollFails, Polled, Stage, WebOK, Up
  <2> QED
    BY <2>1 DEF LastCall
<1>3. ASSUME UNCHANGED <<served, line>>, \A u \in Tasks : InCall(u)' <=> InCall(u)
      PROVE  MainLast'
  <2>1. ~StopManager
    <3> SUFFICES ASSUME StopManager PROVE FALSE
      OBVIOUS
    <3>1. InCall(Main)' /\ ~InCall(Main)
      BY <1>0, CallEnters DEF StopManager, Callers
    <3> QED
      BY <1>0, <1>3, <3>1
  <2>2. \/ main' = main
        \/ main' \notin {"closing", "exited"}
        \/ main' = "exited" /\ main = "starting"
    BY <2>1 DEF Next, vars, Scpi, Run, Start, BindFails, Cancel, Kill, Exit, Signal,
           Lifespan, Connected, ConnectFails, StopRecorder, CloseDatabase, Closedown,
           RecorderGoes, Web, Arrive, Measured, Stored, Watch, Unwatch, PollBegins,
           PollSucceeds, PollFails, Polled
  <2> QED
    BY <1>0, <1>2, <1>3, <2>2 DEF MainLast, Stage
<1>4. CASE Take /\ UNCHANGED <<main, pc, webVars>>
  <2>1. served = Nobody /\ line # <<>> /\ served' = Head(line) /\ line' = Tail(line)
        /\ (InCall(Main)' <=> InCall(Main))
    BY <1>0, <1>4, TakeServes
  <2>2. /\ Len(line) \in Nat \ {0} /\ Head(line) = line[1] /\ Len(line') = Len(line) - 1
        /\ \A i \in 1 .. Len(line) - 1 : line'[i] = line[i + 1]
    BY <1>0, <2>1 DEF ManagerTypeOK
  <2>3. \A i \in 1 .. Len(line') : line'[i] = Main => i = Len(line')
    <3> SUFFICES ASSUME NEW i \in 1 .. Len(line'), line'[i] = Main PROVE i = Len(line')
      OBVIOUS
    <3>1. i + 1 \in 1 .. Len(line) /\ line[i + 1] = Main
      BY <2>2
    <3>2. i + 1 = Len(line)
      BY <1>2, <3>1 DEF MainLast
    <3> QED
      BY <2>2, <3>2
  <2>4. served' = Main => line' = <<>>
    <3> SUFFICES ASSUME served' = Main PROVE line' = <<>>
      OBVIOUS
    <3>1. 1 \in 1 .. Len(line) /\ line[1] = Main
      BY <2>1, <2>2
    <3>2. Len(line) = 1
      BY <1>2, <3>1 DEF MainLast
    <3> QED
      BY <1>0, <2>1, <3>2 DEF ManagerTypeOK
  <2>5. ~((main = "closing" /\ ~InCall(Main)) \/ main = "exited")
    BY <1>2, <2>1 DEF MainLast
  <2> QED
    BY <1>4, <2>1, <2>3, <2>4, <2>5 DEF MainLast
<1>5. CASE Leave /\ UNCHANGED <<main, pc, webVars>>
  <2>1. /\ served # Nobody /\ served' = Nobody /\ line' = line
        /\ Main # served => (InCall(Main)' <=> InCall(Main))
    BY <1>0, <1>5, LeaveFrees
  <2> QED
    BY <1>0, <1>2, <1>5, <2>1 DEF MainLast
<1>6. CASE StopManager
  <2>1. main' = "closing" /\ ~InCall(Main) /\ Call(Main)
    BY <1>6 DEF StopManager, Callers
  <2>2. InCall(Main)' /\ (\/ served' = Main /\ line' = <<>>
                          \/ served' # Main /\ line' = Append(line, Main))
    BY <1>0, <2>1, CallEnters
  <2>3. \A i \in 1 .. Len(line) : line[i] # Main
    BY <2>1 DEF InCall, Manager!Waiting
  <2>4. \A i \in 1 .. Len(line') : line'[i] = Main => i = Len(line')
    BY <1>0, <2>2, <2>3 DEF ManagerTypeOK
  <2> QED
    BY <2>1, <2>2, <2>4 DEF MainLast
<1>7. ASSUME main \in {"serving", "stopping"}, main' = main, NEW t \in Tasks \ {Main}, Call(t)
      PROVE  MainLast'
  <2>1. ~InCall(Main)'
    BY <1>0, <1>7, CallEnters DEF Callers
  <2>2. served' # Main /\ \A i \in 1 .. Len(line') : line'[i] # Main
    BY <2>1 DEF InCall, Manager!Waiting
  <2> QED
    BY <1>7, <2>2 DEF MainLast
<1>8. CASE UNCHANGED vars
  BY <1>3, <1>8 DEF vars, scpiVars, managerVars, InCall, Manager!Waiting
<1> QED
  BY <1>3, <1>4, <1>5, <1>6, <1>7, <1>8, WhoCalls

LEMMA StepServerInv == TypeOK /\ ServerInv /\ [Next]_vars => ServerInv'
<1> QED
  BY StepCallers, StepStage, StepWebOK, StepLastCall DEF ServerInv

LEMMA ServerInvAlways == Spec => [](TypeOK /\ ServerInv)
<1>1. Init => TypeOK /\ ServerInv
  BY InitTypeOK, InitServerInv
<1>2. (TypeOK /\ ServerInv) /\ [Next]_vars => (TypeOK /\ ServerInv)'
  BY StepTypeOK, StepServerInv
<1> QED
  BY <1>1, <1>2, PTL DEF Spec

\* manager.stop is the last call of a run, whatever is in the line when it begins,
\* unless a signal interrupted the start-up and left the web listener open.
THEOREM StopIsAlwaysLast == Spec => []StopIsLast
<1> QED
  BY ServerInvAlways, ServerInvImplies, PTL

\* The database is open whenever a reading is inserted, by the recorder or by a
\* request, whatever a shutdown interrupts; but for a request that arrives at an
\* abandoned listener when asyncio.run is ending.
THEOREM DatabaseAlwaysOutlives == Spec => []DatabaseOutlivesWriters
<1> QED
  BY ServerInvAlways, ServerInvImplies, PTL

=============================================================================
