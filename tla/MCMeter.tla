------------------------------- MODULE MCMeter -------------------------------
(* Small instances of Meter for TLC. *)
EXTENDS Meter

\* The clients are interchangeable.
Symmetry == Permutations(Clients)

==============================================================================
