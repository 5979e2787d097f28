----------------------------- MODULE ScpiServer -----------------------------
(***************************************************************************)
(* The raw SCPI socket: one handler task per client, which reads a line,   *)
(* calls the manager, writes the answer of a query and waits until the     *)
(* client's socket takes it.  The manager is used by what it promises, the *)
(* module SingleFlight.  A module that EXTENDS this one adds the manager's *)
(* other callers.                                                          *)
(*                                                                         *)
(* asyncio.Server counts a connection from accept to connection_lost, not  *)
(* to the end of its handler (Attached).                                   *)
(***************************************************************************)
EXTENDS Naturals, Sequences

CONSTANTS
  Clients,   \* connections to the SCPI socket
  Others,    \* the other callers of the manager
  Nobody,    \* no caller
  Lines,     \* the lines clients send, a subset of LineKinds
  MaxLines,  \* bound: lines of one client
  Window     \* answers a socket holds for a client that does not read

LineKinds == {"query", "write", "blank"}

ASSUME ScpiConstantsOK ==
  /\ Clients \cap Others = {} /\ Nobody \notin Clients \cup Others
  /\ Lines \subseteq LineKinds
  /\ MaxLines \in Nat /\ Window \in Nat

VARIABLES
  listening,   \* ScpiServer._server accepts
  link,        \* the connection of a client; "eof": it sends no more, "lost": it was reset
  sent,        \* the lines the client has sent
  taken,       \* how many of them the handler has read
  pc,          \* where the handler is
  replies,     \* the numbers of the lines answered, in the order of the answers
  received,    \* how many answers the client has read
  unanswered,  \* the lines whose DeviceError was swallowed
  served, line, ending   \* the manager

managerVars == <<served, line, ending>>
clientVars == <<link, sent, received>>
handlerVars == <<taken, pc, replies, unanswered>>
scpiVars == <<listening, clientVars, handlerVars, managerVars>>

-----------------------------------------------------------------------------
(* The manager and its callers *)

Tasks == Clients \cup Others

\* "own": a response; "odd": a response with a character that is not ASCII;
\* "Exception": any exception but DeviceError, UnicodeEncodeError for one
Endings == {"own", "odd", "ok", "DeviceError", "Exception"}

Manager == INSTANCE SingleFlight

\* t is the manager's only caller and is served, or it queues
Call(t) ==
  \/ Manager!Enter(t) /\ served' = t
  \/ (served # Nobody \/ line # <<>>) /\ Manager!Join(t)

InCall(t) == served = t \/ Manager!Waiting(t)

\* the call of t is over, and t takes its ending
Return(t) ==
  /\ ~InCall(t)
  /\ ending' = [ending EXCEPT ![t] = "none"]
  /\ UNCHANGED <<served, line>>

Kind(c) == sent[c][taken[c]]

\* how the call of t may end: only a query has a response.  The others ask for
\* a response and get it, or do not.
Possible(t) ==
  CASE t \in Others        -> {"own", "Exception"}
    [] Kind(t) = "query"   -> Endings \ {"ok"}
    [] OTHER               -> Endings \ {"own", "odd"}

\* the first in line is served: no command is over at once
Take ==
  /\ Manager!Take /\ served' # Nobody
  /\ UNCHANGED <<listening, clientVars, handlerVars>>

\* Mutant: the answer is written with the lock held.
LeaveAfterDrain ==
  /\ Manager!Leave /\ ending'[served] \in Possible(served)
  /\ \A c \in Clients : pc[c] # "draining"
  /\ UNCHANGED <<listening, clientVars, handlerVars>>

Leave ==
  /\ Manager!Leave /\ ending'[served] \in Possible(served)
  /\ UNCHANGED <<listening, clientVars, handlerVars>>

-----------------------------------------------------------------------------
(* Clients *)

Attached(c) == link[c] \in {"up", "eof"}
Unread(c) == Len(replies[c]) - received[c]

Accept(c) ==
  /\ listening /\ link[c] = "none"
  /\ link' = [link EXCEPT ![c] = "up"]
  /\ pc' = [pc EXCEPT ![c] = "reading"]
  /\ UNCHANGED <<listening, sent, received, taken, replies, unanswered, managerVars>>

Send(c) ==
  /\ link[c] = "up" /\ Len(sent[c]) < MaxLines
  /\ \E kind \in Lines : sent' = [sent EXCEPT ![c] = Append(@, kind)]
  /\ UNCHANGED <<listening, link, received, handlerVars, managerVars>>

\* the client closes its side; a last line without its newline counts as sent
HangUp(c) ==
  /\ link[c] = "up"
  /\ link' = [link EXCEPT ![c] = "eof"]
  /\ UNCHANGED <<listening, sent, received, handlerVars, managerVars>>

\* connection_lost: what the handler had not read is gone
Reset(c) ==
  /\ Attached(c)
  /\ link' = [link EXCEPT ![c] = "lost"]
  /\ UNCHANGED <<listening, sent, received, handlerVars, managerVars>>

Receive(c) ==
  /\ Attached(c) /\ Unread(c) > 0
  /\ received' = [received EXCEPT ![c] = @ + 1]
  /\ UNCHANGED <<listening, link, sent, handlerVars, managerVars>>

-----------------------------------------------------------------------------
(* _handle_client *)

At(c, place) == pc' = [pc EXCEPT ![c] = place]

\* readline returns a line; handle_command ignores a blank one
ReadLine(c) ==
  /\ pc[c] = "reading" /\ Attached(c) /\ taken[c] < Len(sent[c])
  /\ taken' = [taken EXCEPT ![c] = @ + 1]
  /\ LET kind == sent[c][taken[c] + 1] IN
       \/ kind = "blank" /\ UNCHANGED <<pc, managerVars>>
       \/ kind # "blank" /\ At(c, "calling") /\ Call(c)
  /\ UNCHANGED <<listening, clientVars, replies, unanswered>>

\* readline returns b"" at the end, or raises: ConnectionError, or ValueError when
\* the next line is beyond its limit
ReadFails(c) ==
  /\ pc[c] = "reading"
  /\ \/ link[c] = "eof" /\ taken[c] = Len(sent[c])
     \/ link[c] = "lost"
     \/ taken[c] < Len(sent[c])
  /\ At(c, "closing")
  /\ UNCHANGED <<listening, clientVars, taken, replies, unanswered, managerVars>>

\* Mutant: a response that is not ASCII is dropped, and the client kept.
ResumeWithoutOdd(c) ==
  /\ pc[c] = "calling" /\ Return(c)
  /\ \/ ending[c] \in {"ok", "odd"} /\ At(c, "reading") /\ UNCHANGED <<replies, unanswered>>
     \/ /\ ending[c] = "DeviceError" /\ At(c, "reading") /\ UNCHANGED replies
        /\ unanswered' = [unanswered EXCEPT ![c] = @ \cup {taken[c]}]
     \/ /\ ending[c] = "own" /\ At(c, "draining") /\ UNCHANGED unanswered
        /\ replies' = [replies EXCEPT ![c] = Append(@, taken[c])]
     \/ ending[c] = "Exception" /\ At(c, "closing") /\ UNCHANGED <<replies, unanswered>>
  /\ UNCHANGED <<listening, clientVars, taken>>

\* handle_command returned or raised; encode("ascii") raises on an odd response
Resume(c) ==
  /\ pc[c] = "calling" /\ Return(c)
  /\ \/ ending[c] = "ok" /\ At(c, "reading") /\ UNCHANGED <<replies, unanswered>>
     \/ /\ ending[c] = "DeviceError" /\ At(c, "reading") /\ UNCHANGED replies
        /\ unanswered' = [unanswered EXCEPT ![c] = @ \cup {taken[c]}]
     \/ /\ ending[c] = "own" /\ At(c, "draining") /\ UNCHANGED unanswered
        /\ replies' = [replies EXCEPT ![c] = Append(@, taken[c])]
     \/ ending[c] \in {"odd", "Exception"} /\ At(c, "closing") /\ UNCHANGED <<replies, unanswered>>
  /\ UNCHANGED <<listening, clientVars, taken>>

\* drain returns when the socket has room, and raises ConnectionError when it is lost
Drained(c) ==
  /\ pc[c] = "draining"
  /\ \/ Attached(c) /\ Unread(c) <= Window /\ At(c, "reading")
     \/ link[c] = "lost" /\ At(c, "closing")
  /\ UNCHANGED <<listening, clientVars, taken, replies, unanswered, managerVars>>

\* Mutant: the handler ends and leaves the connection open.
HandlerEndsOnly(c) ==
  /\ pc[c] = "closing" /\ (Attached(c) => Unread(c) <= Window)
  /\ At(c, "done")
  /\ UNCHANGED <<listening, clientVars, taken, replies, unanswered, managerVars>>

\* writer.close sends what is buffered first; wait_closed
Closed(c) ==
  /\ pc[c] = "closing" /\ (Attached(c) => Unread(c) <= Window)
  /\ At(c, "done")
  /\ link' = [link EXCEPT ![c] = "closed"]
  /\ UNCHANGED <<listening, sent, received, taken, replies, unanswered, managerVars>>

Handle(c) == ReadLine(c) \/ ReadFails(c) \/ Resume(c) \/ Drained(c) \/ Closed(c)

-----------------------------------------------------------------------------

ScpiInit ==
  /\ listening = FALSE
  /\ link = [c \in Clients |-> "none"]
  /\ sent = [c \in Clients |-> <<>>]
  /\ taken = [c \in Clients |-> 0]
  /\ pc = [c \in Clients |-> "none"]
  /\ replies = [c \in Clients |-> <<>>]
  /\ received = [c \in Clients |-> 0]
  /\ unanswered = [c \in Clients |-> {}]
  /\ Manager!Init

ScpiNext ==
  \/ Take \/ Leave
  \/ \E c \in Clients :
       Accept(c) \/ Send(c) \/ HangUp(c) \/ Reset(c) \/ Receive(c) \/ Handle(c)

-----------------------------------------------------------------------------
(* Properties *)

\* The values the variables take, and how link and pc go together.
ScpiTypeOK ==
  /\ listening \in BOOLEAN
  /\ link \in [Clients -> {"none", "up", "eof", "lost", "closed"}]
  /\ pc \in [Clients -> {"none", "reading", "calling", "draining", "closing", "done"}]
  /\ sent \in [Clients -> Seq(Lines)]
  /\ taken \in [Clients -> Nat] /\ received \in [Clients -> Nat]
  /\ replies \in [Clients -> Seq(Nat)]
  /\ unanswered \in [Clients -> SUBSET Nat]
  /\ \A c \in Clients :
       /\ taken[c] <= Len(sent[c]) /\ received[c] <= Len(replies[c])
       /\ pc[c] = "none" <=> link[c] = "none"
       /\ pc[c] = "done" <=> link[c] = "closed"
  /\ served \in Tasks \cup {Nobody}
  /\ line \in Seq(Tasks)
  /\ ending \in [Tasks -> Endings \cup {"none"}]

\* the lines of c the handler is done with
Handled(c) == 1 .. (IF pc[c] = "calling" THEN taken[c] - 1 ELSE taken[c])

\* "a line containing ? is treated as a query and its response is written back":
\* the answers of a client that pipelines its lines are those of its queries, one
\* each and in order; missing are only the queries that failed with a DeviceError,
\* and whatever the handler was at when it closed the connection.
AnswersPaired ==
  \A c \in Clients :
    LET answered == {replies[c][i] : i \in 1 .. Len(replies[c])} IN
      /\ \A i, j \in 1 .. Len(replies[c]) : i < j => replies[c][i] < replies[c][j]
      /\ pc[c] \in {"reading", "calling", "draining"} =>
           answered = {n \in Handled(c) : sent[c][n] = "query"} \ unanswered[c]

\* A handler catches up with the lines of its client in the end, unless that client
\* does not read its answers, resets or was hung up on.
CaughtUp(c) == taken[c] = Len(sent[c]) /\ pc[c] # "calling"
LinesServed ==
  \A c \in Clients :
    []<>(CaughtUp(c) \/ pc[c] = "closing" \/ link[c] \in {"lost", "closed"} \/ Unread(c) > Window)

=============================================================================
