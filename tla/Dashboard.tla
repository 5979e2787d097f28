------------------------------ MODULE Dashboard ------------------------------
(***************************************************************************)
(* dashboard.js, one page of one browser: the WebSocket, the badge, the    *)
(* watchdog for a silent feed and the reconnect timer.  An action is one   *)
(* callback of the browser's event loop, or something its network or its   *)
(* clock does.  A timer that is due may run late, behind other callbacks.  *)
(***************************************************************************)
EXTENDS Naturals

CONSTANTS
  Sockets,   \* WebSocket objects
  Timers,    \* pending calls of setTimeout
  StaleMs,   \* STALE_MS, in ticks of the clock
  RetryMs,   \* the delay of the reconnect
  None       \* no timer

ASSUME DashboardConstantsOK ==
  /\ None \notin Timers
  /\ StaleMs \in Nat \ {0} /\ RetryMs \in Nat \ {0}

VARIABLES
  socket,      \* the state of each WebSocket; "lost": its close event is not dispatched yet
  inbox,       \* whether a message of the socket waits to be dispatched
  timer,       \* what each pending timer will call, and in how many ticks
  staleTimer,  \* the variable of that name
  badge,       \* the status element; "stale" reads "live - no data"
  silence      \* history: ticks since the last onopen or onmessage, StaleMs for more

vars == <<socket, inbox, timer, staleTimer, badge, silence>>

NoTimer == [calls |-> "nothing", left |-> 0]
Pending(calls) == {t \in Timers : timer[t].calls = calls}
Live == {s \in Sockets : socket[s] # "unused"}

-----------------------------------------------------------------------------

\* setTimeout: a timer that is not pending
SetTimeout(t, calls, delay) ==
  /\ timer[t].calls = "nothing"
  /\ timer' = [timer EXCEPT ![t] = [calls |-> calls, left |-> delay]]

\* Mutant: armStaleTimer without clearStaleTimer.
ArmAnother ==
  \E t \in Timers : SetTimeout(t, "stale", StaleMs) /\ staleTimer' = t

\* armStaleTimer: the earlier timer is cleared, a new one is set
ArmStaleTimer ==
  \E t \in Timers :
    /\ timer[t].calls = "nothing" \/ t = staleTimer
    /\ timer' = [u \in Timers |->
         IF u = t THEN [calls |-> "stale", left |-> StaleMs]
         ELSE IF u = staleTimer THEN NoTimer ELSE timer[u]]
    /\ staleTimer' = t

\* connect: a new WebSocket
Connect == \E s \in Sockets \ Live : socket' = [socket EXCEPT ![s] = "connecting"]

\* Mutant: the watchdog starts with the first reading.
OnOpenUnwatched(s) ==
  /\ socket[s] = "connecting"
  /\ socket' = [socket EXCEPT ![s] = "open"]
  /\ badge' = "live" /\ silence' = 0
  /\ UNCHANGED <<inbox, timer, staleTimer>>

OnOpen(s) ==
  /\ socket[s] = "connecting"
  /\ socket' = [socket EXCEPT ![s] = "open"]
  /\ badge' = "live" /\ silence' = 0
  /\ ArmStaleTimer
  /\ UNCHANGED inbox

OnMessage(s) ==
  /\ inbox[s] /\ socket[s] \in {"open", "lost"}
  /\ inbox' = [inbox EXCEPT ![s] = FALSE]
  /\ badge' = "live" /\ silence' = 0
  /\ ArmStaleTimer
  /\ UNCHANGED socket

\* Mutant: the page is left as it is.
OnCloseForGood(s) ==
  /\ socket[s] = "lost" /\ ~inbox[s]
  /\ socket' = [socket EXCEPT ![s] = "unused"]
  /\ badge' = "disconnected"
  /\ timer' = [t \in Timers |-> IF t = staleTimer THEN NoTimer ELSE timer[t]]
  /\ staleTimer' = None
  /\ UNCHANGED <<inbox, silence>>

\* the close event: the socket was refused, closed or lost
OnClose(s) ==
  /\ socket[s] = "lost" /\ ~inbox[s]
  /\ socket' = [socket EXCEPT ![s] = "unused"]
  /\ badge' = "disconnected"
  /\ \E t \in Timers :
       /\ timer[t].calls = "nothing" \/ t = staleTimer
       /\ timer' = [u \in Timers |->
            IF u = t THEN [calls |-> "connect", left |-> RetryMs]
            ELSE IF u = staleTimer THEN NoTimer ELSE timer[u]]
  /\ staleTimer' = None
  /\ UNCHANGED <<inbox, silence>>

Due(t, calls) == timer[t] = [calls |-> calls, left |-> 0]

\* the watchdog's callback; staleTimer keeps the number of a timer that is gone
Stale(t) ==
  /\ Due(t, "stale")
  /\ timer' = [timer EXCEPT ![t] = NoTimer]
  /\ badge' = "stale"
  /\ UNCHANGED <<socket, inbox, staleTimer, silence>>

\* Mutant: setInterval for setTimeout.
ReconnectAgain(t) ==
  /\ Due(t, "connect")
  /\ timer' = [timer EXCEPT ![t].left = RetryMs]
  /\ Connect
  /\ UNCHANGED <<inbox, staleTimer, badge, silence>>

Reconnect(t) ==
  /\ Due(t, "connect")
  /\ timer' = [timer EXCEPT ![t] = NoTimer]
  /\ Connect
  /\ UNCHANGED <<inbox, staleTimer, badge, silence>>

-----------------------------------------------------------------------------
(* The network and the clock *)

Deliver(s) ==
  /\ socket[s] = "open" /\ ~inbox[s]
  /\ inbox' = [inbox EXCEPT ![s] = TRUE]
  /\ UNCHANGED <<socket, timer, staleTimer, badge, silence>>

Lose(s) ==
  /\ socket' = [socket EXCEPT ![s] = "lost"]
  /\ UNCHANGED <<inbox, timer, staleTimer, badge, silence>>

Refused(s) == socket[s] = "connecting" /\ Lose(s)

\* the connection is closed; a dead network never says so
Dropped(s) == socket[s] = "open" /\ Lose(s)

Tick ==
  /\ timer' = [t \in Timers |->
       IF timer[t].left > 0 THEN [timer[t] EXCEPT !.left = @ - 1] ELSE timer[t]]
  /\ silence' = IF silence < StaleMs THEN silence + 1 ELSE silence
  /\ UNCHANGED <<socket, inbox, staleTimer, badge>>

-----------------------------------------------------------------------------

Init ==
  /\ \E s \in Sockets : socket = [u \in Sockets |-> IF u = s THEN "connecting" ELSE "unused"]
  /\ inbox = [s \in Sockets |-> FALSE]
  /\ timer = [t \in Timers |-> NoTimer]
  /\ staleTimer = None
  /\ badge = "connecting" /\ silence = 0

Callback ==
  \/ \E s \in Sockets : OnMessage(s) \/ OnClose(s)
  \/ \E t \in Timers : Stale(t) \/ Reconnect(t)

Next ==
  \/ Callback \/ Tick
  \/ \E s \in Sockets : OnOpen(s) \/ Refused(s) \/ Deliver(s) \/ Dropped(s)

Spec == Init /\ [][Next]_vars

\* The clock goes on and the browser runs every callback that is due.  An attempt
\* to connect ends, one way or the other; no reading has to arrive.
Fairness ==
  /\ WF_vars(Tick)
  /\ \A s \in Sockets :
       WF_vars(OnMessage(s)) /\ WF_vars(OnClose(s)) /\ WF_vars(OnOpen(s) \/ Refused(s))
  /\ \A t \in Timers : WF_vars(Stale(t)) /\ WF_vars(Reconnect(t))

FairSpec == Spec /\ Fairness

-----------------------------------------------------------------------------
(* Properties *)

\* The values the variables take.
TypeOK ==
  /\ socket \in [Sockets -> {"unused", "connecting", "open", "lost"}]
  /\ inbox \in [Sockets -> BOOLEAN]
  /\ timer \in [Timers -> [calls : {"nothing", "stale", "connect"}, left : Nat]]
  /\ \A t \in Timers : timer[t].left <= StaleMs + RetryMs
  /\ staleTimer \in Timers \cup {None}
  /\ badge \in {"connecting", "live", "stale", "disconnected"}
  /\ silence \in 0 .. StaleMs

\* A page always has exactly one WebSocket or one pending reconnect: it neither
\* gives up nor opens a second stream, which would keep the poll loop alive twice.
OneConnection ==
  /\ \A s, u \in Live : s = u
  /\ \A t, u \in Pending("connect") : t = u
  /\ Live = {} <=> Pending("connect") # {}

\* "a stalled feed is visible at a glance rather than looking healthy": the badge
\* tells the state of the current connection.  No watchdog of an earlier reading or
\* an earlier socket shows "no data" over a live feed or over "disconnected".
BadgeTruthful ==
  /\ badge = "live" => \E s \in Sockets : socket[s] \in {"open", "lost"}
  /\ badge = "stale" =>
       silence = StaleMs /\ \E s \in Sockets : socket[s] \in {"open", "lost"}
  /\ badge \in {"connecting", "disconnected"} => \A s \in Sockets : socket[s] # "open"

\* A connection that stays up without a reading is shown as such, for good.
SilenceShown ==
  \A s \in Sockets :
    <>[](socket[s] = "open" /\ ~inbox[s]) => <>[](badge = "stale")

\* "Auto-reconnects with a short backoff so the page recovers from drops".
Reconnects == []<>(\E s \in Sockets : socket[s] \in {"connecting", "open"})

=============================================================================
