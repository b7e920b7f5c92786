----------------------------- MODULE MCCorbaBench -----------------------------
(* Small instances of CorbaBench.tla for TLC. *)
EXTENDS CorbaBench

\* An earlier run left no server running, or the first one: what its users have
\* done since then is up to it.
LeftRunning == [P!None EXCEPT !.running = TRUE, !.target = Users]

FreshOrRunning ==
    {[s \in Servers |-> IF s \in left THEN LeftRunning ELSE P!None] : left \in {{}, {1}}}
==============================================================================
