----------------------------- MODULE MCLiveFeed -----------------------------
(* Small instances of LiveFeed for TLC. *)
EXTENDS LiveFeed, TLC

\* Connections are interchangeable, and so are the tasks that poll.
Symmetry == Permutations(Clients) \cup Permutations(Loops)

=============================================================================
