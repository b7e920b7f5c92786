------------------------------ MODULE MCPollers ------------------------------
(* Instances of Pollers.tla. *)
EXTENDS Pollers

\* Each descriptor has a client of its own.
OneEach == [fd \in Fds |-> {<<"c1", "c2", "c3">>[fd]}]

===============================================================================
