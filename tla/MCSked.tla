-------------------------------- MODULE MCSked --------------------------------
(* Small instances of Sked.tla for TLC. *)
EXTENDS Sked, TLC

\* The clients are interchangeable (safety runs only).
ClientSymmetry == Permutations(Clients)
==============================================================================
