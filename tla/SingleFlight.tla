---------------------------- MODULE SingleFlight ----------------------------
(***************************************************************************)
(* What manager.py promises: one call is served at a time, the others      *)
(* stand in line and are served in the order they came, and a call ends    *)
(* with its own answer or an error, never with somebody else's.            *)
(***************************************************************************)
EXTENDS Naturals, Sequences

CONSTANTS
  Tasks,     \* the callers
  Endings,   \* how a call may end
  Nobody     \* no caller

VARIABLES served, line, ending

vars == <<served, line, ending>>

Waiting(t) == \E i \in 1 .. Len(line) : line[i] = t

Ends(t) == \E r \in Endings : ending' = [ending EXCEPT ![t] = r]
Begins(t) == ending' = [ending EXCEPT ![t] = "none"]

\* t finds nobody there: it is served, or over and done with at once
Enter(t) ==
  /\ served = Nobody /\ line = <<>>
  /\ \/ served' = t /\ Begins(t)
     \/ served' = served /\ Ends(t)
  /\ UNCHANGED line

Join(t) ==
  /\ served # t /\ ~Waiting(t)
  /\ line' = Append(line, t)
  /\ Begins(t)
  /\ UNCHANGED served

\* the first in line is served, or over and done with at once
Take ==
  /\ served = Nobody /\ line # <<>>
  /\ line' = Tail(line)
  /\ \/ served' = Head(line) /\ Begins(Head(line))
     \/ served' = served /\ Ends(Head(line))

Leave ==
  /\ served # Nobody
  /\ served' = Nobody
  /\ Ends(served)
  /\ UNCHANGED line

Init == served = Nobody /\ line = <<>> /\ ending = [t \in Tasks |-> "none"]

Next == Take \/ Leave \/ \E t \in Tasks : Enter(t) \/ Join(t)

Spec == Init /\ [][Next]_vars

\* whoever is served gets done, and the line moves on
FairSpec == Spec /\ WF_vars(Take) /\ WF_vars(Leave)
=============================================================================
