--------------------------- MODULE MCDeviceManager ---------------------------
(* Small instances of DeviceManager for TLC. *)
EXTENDS DeviceManager, TLC

\* The threads of the pool and the Serial objects are interchangeable.
Symmetry == Permutations(Workers) \cup Permutations(Handles)

=============================================================================
