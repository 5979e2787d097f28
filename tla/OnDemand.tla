------------------------------ MODULE OnDemand ------------------------------
(***************************************************************************)
(* What poller.py and DESIGN.md promise of the live stream: the meter is   *)
(* sampled exactly while somebody watches, and a watcher receives samples  *)
(* taken after it came, in order and none twice.                           *)
(***************************************************************************)
EXTENDS Naturals

CONSTANT Viewers

VARIABLES
  watchers,   \* who watches
  sampling,   \* whether the meter is sampled
  newest,     \* number of the last sample
  seen        \* number of the last sample each viewer received

vars == <<watchers, sampling, newest, seen>>

Join(v) ==
  /\ v \notin watchers
  /\ watchers' = watchers \cup {v}
  /\ sampling' = TRUE
  /\ seen' = [seen EXCEPT ![v] = newest]
  /\ UNCHANGED newest

Leave(v) ==
  /\ v \in watchers
  /\ watchers' = watchers \ {v}
  /\ sampling' = (watchers' # {})
  /\ seen' = [seen EXCEPT ![v] = 0]
  /\ UNCHANGED newest

Sample ==
  /\ sampling
  /\ newest' = newest + 1
  /\ UNCHANGED <<watchers, sampling, seen>>

Receive(v) ==
  /\ v \in watchers
  /\ \E n \in seen[v] + 1 .. newest : seen' = [seen EXCEPT ![v] = n]
  /\ UNCHANGED <<watchers, sampling, newest>>

Init == watchers = {} /\ ~sampling /\ newest = 0 /\ seen = [v \in Viewers |-> 0]

Next == Sample \/ \E v \in Viewers : Join(v) \/ Leave(v) \/ Receive(v)

Spec == Init /\ [][Next]_vars
=============================================================================
