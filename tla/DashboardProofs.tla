--------------------------- MODULE DashboardProofs ---------------------------
(***************************************************************************)
(* The page has one connection and a truthful badge, for any number of     *)
(* WebSocket and timer objects and any two delays.                         *)
(***************************************************************************)
EXTENDS Dashboard, TLAPS

\* the one timer that may call the watchdog is staleTimer, of a connection that was
\* opened, and it is due when the feed has been silent for StaleMs
Watchdog ==
  \A t \in Timers :
    /\ timer[t].calls = "stale" =>
         /\ t = staleTimer
         /\ timer[t].left + silence >= StaleMs
         /\ \E s \in Sockets : socket[s] \in {"open", "lost"}
    /\ timer[t].calls = "connect" => t # staleTimer

IInv == TypeOK /\ OneConnection /\ BadgeTruthful /\ Watchdog

\* The pages start with one WebSocket and no timer.
LEMMA InitIInv == Init => IInv
<1> SUFFICES ASSUME Init PROVE IInv
  OBVIOUS
<1> USE DashboardConstantsOK DEF DashboardConstantsOK
<1>1. PICK s \in Sockets : socket = [u \in Sockets |-> IF u = s THEN "connecting" ELSE "unused"]
  BY DEF Init
<1>2. TypeOK
  BY <1>1 DEF Init, TypeOK, NoTimer
<1>3. Live = {s}
  BY <1>1 DEF Live
<1>4. OneConnection
  BY <1>3 DEF OneConnection, Pending, Init, NoTimer
<1>5. BadgeTruthful /\ Watchdog
  BY <1>1 DEF BadgeTruthful, Watchdog, Init, NoTimer
<1> QED
  BY <1>2, <1>4, <1>5 DEF IInv

\* Arming the watchdog leaves it the only one, and the reconnect timer alone.
LEMMA Armed ==
  ASSUME IInv, ArmStaleTimer, silence' = 0, badge' = "live", inbox' \in [Sockets -> BOOLEAN],
         NEW s \in Sockets, socket[s] # "unused",
         socket' \in {socket, [socket EXCEPT ![s] = "open"]}, socket'[s] \in {"open", "lost"}
  PROVE  IInv'
<1> USE DashboardConstantsOK DEF IInv, DashboardConstantsOK
<1>1. PICK t \in Timers :
        /\ timer[t].calls = "nothing" \/ t = staleTimer
        /\ timer' = [u \in Timers |->
             IF u = t THEN [calls |-> "stale", left |-> StaleMs]
             ELSE IF u = staleTimer THEN NoTimer ELSE timer[u]]
        /\ staleTimer' = t
  BY DEF ArmStaleTimer
<1>2. TypeOK'
  BY <1>1 DEF TypeOK, NoTimer
<1>3. Live' = Live
  BY DEF Live, TypeOK
<1>4. \A u \in Timers : timer'[u].calls = "connect" <=> timer[u].calls = "connect"
  BY <1>1 DEF Watchdog, NoTimer
<1>5. OneConnection'
  BY <1>3, <1>4 DEF OneConnection, Pending
<1>6. BadgeTruthful'
  BY DEF BadgeTruthful
<1>7. \A u \in Timers : timer'[u].calls = "stale" => u = t
  BY <1>1 DEF Watchdog, NoTimer
<1>8. Watchdog'
  BY <1>1, <1>4, <1>7 DEF Watchdog, TypeOK
<1> QED
  BY <1>2, <1>5, <1>6, <1>8

LEMMA OnOpenStep == ASSUME IInv, NEW s \in Sockets, OnOpen(s) PROVE IInv'
<1>1. socket' = [socket EXCEPT ![s] = "open"] /\ socket'[s] = "open"
  BY DEF OnOpen, IInv, TypeOK
<1> QED
  BY <1>1, Armed DEF OnOpen, IInv, TypeOK

LEMMA OnMessageStep == ASSUME IInv, NEW s \in Sockets, OnMessage(s) PROVE IInv'
<1>1. inbox' \in [Sockets -> BOOLEAN]
  BY DEF OnMessage, IInv, TypeOK
<1> QED
  BY <1>1, Armed DEF OnMessage

\* The close event leaves no WebSocket and one reconnect timer.
LEMMA OnCloseStep == ASSUME IInv, NEW s \in Sockets, OnClose(s) PROVE IInv'
<1> USE DashboardConstantsOK DEF IInv, DashboardConstantsOK
<1>1. PICK t \in Timers :
        /\ timer[t].calls = "nothing" \/ t = staleTimer
        /\ timer' = [u \in Timers |->
             IF u = t THEN [calls |-> "connect", left |-> RetryMs]
             ELSE IF u = staleTimer THEN NoTimer ELSE timer[u]]
  BY DEF OnClose
<1>2. TypeOK'
  BY <1>1 DEF OnClose, TypeOK, NoTimer
<1>3. Live = {s}
  BY DEF OnClose, OneConnection, Live
<1>4. \A u \in Sockets : socket'[u] = "unused"
  BY <1>3 DEF OnClose, Live, TypeOK
<1>5. \A u \in Timers : timer[u].calls # "connect"
  BY <1>3 DEF OneConnection, Pending
<1>6. \A u \in Timers : timer'[u].calls = "connect" <=> u = t
  BY <1>1, <1>5 DEF NoTimer
<1>7. OneConnection'
  BY <1>4, <1>6 DEF OneConnection, Pending, Live
<1>8. BadgeTruthful'
  BY <1>4 DEF BadgeTruthful, OnClose
<1>9. \A u \in Timers : timer'[u].calls # "stale"
  BY <1>1 DEF Watchdog, NoTimer
<1>10. Watchdog'
  BY <1>9 DEF Watchdog, OnClose
<1> QED
  BY <1>2, <1>7, <1>8, <1>10

\* A watchdog that is due watches a connection that has been silent.
LEMMA StaleStep == ASSUME IInv, NEW t \in Timers, Stale(t) PROVE IInv'
<1> USE DashboardConstantsOK DEF IInv, DashboardConstantsOK
<1>1. timer[t].calls = "stale" /\ timer[t].left = 0
  BY DEF Stale, Due
<1>2. TypeOK'
  BY DEF Stale, TypeOK, NoTimer
<1>3. silence = StaleMs /\ \E s \in Sockets : socket[s] \in {"open", "lost"}
  BY <1>1 DEF Watchdog, TypeOK
<1>4. \A u \in Timers : timer'[u] = IF u = t THEN NoTimer ELSE timer[u]
  BY DEF Stale, TypeOK
<1>5. OneConnection'
  <2>1. Live' = Live
    BY DEF Stale, Live
  <2>2. Pending("connect")' = Pending("connect")
    BY <1>1, <1>4 DEF Pending, NoTimer
  <2> QED
    BY <2>1, <2>2 DEF OneConnection
<1>6. BadgeTruthful'
  BY <1>3 DEF BadgeTruthful, Stale
<1>7. Watchdog'
  BY <1>4 DEF Watchdog, Stale, NoTimer
<1> QED
  BY <1>2, <1>5, <1>6, <1>7

\* The reconnect timer is due only while there is no WebSocket.
LEMMA ReconnectStep == ASSUME IInv, NEW t \in Timers, Reconnect(t) PROVE IInv'
<1> USE DashboardConstantsOK DEF IInv, DashboardConstantsOK
<1>1. timer[t].calls = "connect"
  BY DEF Reconnect, Due
<1>2. Live = {}
  BY <1>1 DEF OneConnection, Pending
<1>3. PICK s \in Sockets : socket' = [socket EXCEPT ![s] = "connecting"]
  BY DEF Reconnect, Connect
<1>4. TypeOK'
  BY <1>3 DEF Reconnect, TypeOK, NoTimer
<1>5. \A u \in Timers : timer'[u] = IF u = t THEN NoTimer ELSE timer[u]
  BY DEF Reconnect, TypeOK
<1>6. OneConnection'
  <2>1. Live' = {s}
    BY <1>2, <1>3 DEF Live, TypeOK
  <2>2. Pending("connect")' = {}
    BY <1>1, <1>5 DEF Pending, NoTimer, OneConnection
  <2> QED
    BY <2>1, <2>2 DEF OneConnection
<1>7. \A u \in Sockets : socket[u] = "unused"
  BY <1>2 DEF Live
<1>8. BadgeTruthful'
  BY <1>3, <1>7 DEF BadgeTruthful, Reconnect, TypeOK
<1>9. Watchdog'
  BY <1>5, <1>7 DEF Watchdog, Reconnect, NoTimer
<1> QED
  BY <1>4, <1>6, <1>8, <1>9

\* A WebSocket is lost before it was opened, or after.
LEMMA LoseStep ==
  ASSUME IInv, NEW s \in Sockets, socket[s] \in {"connecting", "open"}, Lose(s)
  PROVE  IInv'
<1> USE DEF IInv
<1>1. TypeOK'
  BY DEF Lose, TypeOK
<1>2. Live' = Live
  BY DEF Lose, Live, TypeOK
<1>3. OneConnection'
  BY <1>2 DEF OneConnection, Pending, Lose
<1>4. \A u \in Sockets : /\ socket[u] \in {"open", "lost"} => socket'[u] \in {"open", "lost"}
                         /\ socket'[u] = "open" => socket[u] = "open"
  BY DEF Lose, TypeOK
<1>5. BadgeTruthful'
  BY <1>4 DEF BadgeTruthful, Lose
<1>6. Watchdog'
  BY <1>4 DEF Watchdog, Lose
<1> QED
  BY <1>1, <1>3, <1>5, <1>6

LEMMA DeliverStep == ASSUME IInv, NEW s \in Sockets, Deliver(s) PROVE IInv'
<1>1. TypeOK'
  BY DEF Deliver, IInv, TypeOK
<1> QED
  BY <1>1 DEF Deliver, IInv, OneConnection, BadgeTruthful, Watchdog, Live, Pending

\* A tick brings the watchdog as much nearer as it makes the silence longer.
LEMMA TickStep == ASSUME IInv, Tick PROVE IInv'
<1> USE DashboardConstantsOK DEF IInv, DashboardConstantsOK
<1>1. \A t \in Timers :
        /\ timer'[t].calls = timer[t].calls
        /\ timer[t].left > 0 => timer'[t].left = timer[t].left - 1
        /\ timer[t].left = 0 => timer'[t].left = 0
  BY DEF Tick, TypeOK
<1>2. TypeOK'
  <2>1. timer' \in [Timers -> [calls : {"nothing", "stale", "connect"}, left : Nat]]
    BY DEF Tick, TypeOK
  <2>2. \A t \in Timers : timer'[t].left <= StaleMs + RetryMs
    BY <1>1, <2>1 DEF TypeOK
  <2> QED
    BY <2>1, <2>2 DEF Tick, TypeOK
<1>3. OneConnection'
  BY <1>1 DEF OneConnection, Pending, Live, Tick
<1>4. BadgeTruthful'
  BY DEF BadgeTruthful, Tick, TypeOK
<1>5. Watchdog'
  <2> SUFFICES ASSUME NEW t \in Timers, timer'[t].calls = "stale"
               PROVE  timer'[t].left + silence' >= StaleMs
    BY <1>1 DEF Watchdog, Tick
  <2>1. timer[t].left + silence >= StaleMs
    BY <1>1 DEF Watchdog
  <2>2. silence \in 0 .. StaleMs /\ timer[t].left \in Nat /\ timer'[t].left \in Nat
    BY <1>2 DEF TypeOK
  <2> QED
    BY <1>1, <2>1, <2>2 DEF Tick
<1> QED
  BY <1>2, <1>3, <1>4, <1>5

LEMMA StepIInv == IInv /\ [Next]_vars => IInv'
<1> SUFFICES ASSUME IInv, [Next]_vars PROVE IInv'
  OBVIOUS
<1>1. ASSUME NEW s \in Sockets,
             OnMessage(s) \/ OnClose(s) \/ OnOpen(s) \/ Refused(s) \/ Deliver(s) \/ Dropped(s)
      PROVE  IInv'
  BY <1>1, OnMessageStep, OnCloseStep, OnOpenStep, LoseStep, DeliverStep DEF Refused, Dropped
<1>2. ASSUME NEW t \in Timers, Stale(t) \/ Reconnect(t) PROVE IInv'
  BY <1>2, StaleStep, ReconnectStep
<1>3. CASE Tick
  BY <1>3, TickStep
<1>4. CASE UNCHANGED vars
  BY <1>4 DEF vars, IInv, TypeOK, OneConnection, BadgeTruthful, Watchdog, Live, Pending
<1> QED
  BY <1>1, <1>2, <1>3, <1>4 DEF Next, Callback

LEMMA PageInvariant == Spec => []IInv
<1> QED
  BY InitIInv, StepIInv, PTL DEF Spec

\* The variables of dashboard.js keep their types.
THEOREM PageTypeCorrect == Spec => []TypeOK
<1>1. IInv => TypeOK
  BY DEF IInv
<1> QED
  BY <1>1, PageInvariant, PTL

\* A page always has exactly one WebSocket or one pending reconnect.
THEOREM OneConnectionAlways == Spec => []OneConnection
<1>1. IInv => OneConnection
  BY DEF IInv
<1> QED
  BY <1>1, PageInvariant, PTL

\* The badge tells the state of the connection: no watchdog fires over a live feed
\* or over a closed one.
THEOREM BadgeAlwaysTruthful == Spec => []BadgeTruthful
<1>1. IInv => BadgeTruthful
  BY DEF IInv
<1> QED
  BY <1>1, PageInvariant, PTL

=============================================================================
