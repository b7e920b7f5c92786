------------------------------ MODULE PlatoonAbs ------------------------------
(***************************************************************************)
(* What a platoon promises to those who only see what getStatus counts     *)
(* (Platoon.h, CorbaPlatoon.idl): a platoon is a record of its targets and *)
(* of the numbers of its users, and a call or a change is an operator from *)
(* a platoon to the set of platoons it may become. Platoon.tla implements  *)
(* this specification; CorbaBench.tla has several such platoons.           *)
(*                                                                         *)
(* init() on a running platoon forgets its users: they are in no slot any  *)
(* more and their sockets belong to a poller that nobody asks, but what    *)
(* the scheduler has for them still happens, and then they are counted out *)
(* of counters that no longer count them (lost and drift).                 *)
(***************************************************************************)
EXTENDS Integers

CONSTANTS
    Targets,            \* values given to set_nuserTarget
    ConnectingTargets   \* values given to set_nconnectingTarget

VARIABLE platoon

\* The states robouser_t::state_t as far as getStatus tells them apart.
States == {"CONNECT", "CONNECTING"}

\* The living users are in state CONNECT, in CONNECTING, or after it.
Alive == {"connect", "connecting", "up"}
Nobody == [s \in Alive \cup {"dead"} |-> 0]

\* As the constructor leaves it: no init() yet. Besides its own users it has
\* those forgotten by init() (lost) and what they have done to the counters
\* since then (drift).
None == [running |-> FALSE, target |-> 0, ctarget |-> 1, last |-> "CONNECTING",
         connect |-> 0, connecting |-> 0, up |-> 0, dead |-> 0,
         lost |-> Nobody, drift |-> Nobody]

\* What getStatus tells.
nconnecting(p) ==
    p.connect + p.drift["connect"]
      + (IF p.last = "CONNECTING" THEN p.connecting + p.drift["connecting"] ELSE 0)
nalive(p) ==
    p.connect + p.connecting + p.up
      + (p.drift["connect"] + p.drift["connecting"] + p.drift["up"])
ndead(p) == p.dead + p.drift["dead"]

\* Mutant: a running platoon's users are gone.
initAfresh(p) == {[None EXCEPT !.running = TRUE]}

\* The counters start anew, the users of a running platoon go on; also the dead
\* may still have something scheduled.
init(p) ==
    {[None EXCEPT !.running = TRUE,
                  !.lost = IF p.running THEN [s \in DOMAIN Nobody |-> p[s] + p.lost[s]]
                           ELSE Nobody]}

set_nuserTarget(p, t) == {[p EXCEPT !.target = t]}
set_nconnectingTarget(p, t) == {[p EXCEPT !.ctarget = t]}
set_lastConnectingState(p, s) == {[p EXCEPT !.last = s]}

\* All users go, but the counters stay until the next init(). Forgotten users
\* must have nothing scheduled any more, nor users from whose slots they were
\* reaped, or the assertion at its end fails.
reset(p) == {[p EXCEPT !.running = FALSE, !.lost = Nobody]}
Tangled(p) == p.lost # Nobody \/ p.drift # Nobody

\* One more user is started.
Start(p) ==
    {q \in {[p EXCEPT !.connect = @ + 1]} :
        /\ p.running
        /\ ndead(p) = 0
        /\ nalive(p) < p.target
        /\ nconnecting(p) < p.ctarget}

\* A user gets on: it connects, or it has logged in.
GetOn(p) ==
    IF ~p.running THEN {}
    ELSE {[p EXCEPT !.connect = @ - 1, !.connecting = @ + 1] : n \in 1..p.connect}
         \cup {[p EXCEPT !.connecting = @ - 1, !.up = @ + 1] : n \in 1..p.connecting}

\* A user dies.
Die(p) ==
    IF ~p.running THEN {}
    ELSE {[p EXCEPT !.connect = @ - 1, !.dead = @ + 1] : n \in 1..p.connect}
         \cup {[p EXCEPT !.connecting = @ - 1, !.dead = @ + 1] : n \in 1..p.connecting}
         \cup {[p EXCEPT !.up = @ - 1, !.dead = @ + 1] : n \in 1..p.up}

\* The scheduler calls a forgotten user: it connects, fails to, or runs into
\* the timeout of its session. No reply reaches it, so it never logs in. It is
\* counted as its platoon's own users are.
Moves == {<<"connect", "connecting">>} \cup {<<s, "dead">> : s \in Alive}

Moved(f, m) == [f EXCEPT ![m[1]] = @ - 1, ![m[2]] = @ + 1]

Stray(p) ==
    {[p EXCEPT !.lost = Moved(@, m), !.drift = Moved(@, m)] :
        m \in {m \in Moves : p.running /\ p.lost[m[1]] > 0}}

\* What a platoon does by itself.
Progress(p) == Start(p) \cup GetOn(p) \cup Die(p) \cup Stray(p)

\* What it does because it is called.
Called(p) ==
    init(p)
    \cup (IF p.running THEN reset(p) ELSE {})
    \cup (UNION {set_nuserTarget(p, t) : t \in Targets})
    \cup (UNION {set_nconnectingTarget(p, t) : t \in ConnectingTargets})
    \cup (UNION {set_lastConnectingState(p, s) : s \in States})

\* After init(), with the targets it left or others.
Init ==
    \E t \in Targets \cup {0}, c \in ConnectingTargets \cup {1}, s \in States :
        platoon = [None EXCEPT !.running = TRUE, !.target = t, !.ctarget = c, !.last = s]

Next == platoon' \in Progress(platoon) \cup Called(platoon)

Spec == Init /\ [][Next]_platoon
===============================================================================
