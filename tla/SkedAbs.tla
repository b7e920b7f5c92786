------------------------------- MODULE SkedAbs -------------------------------
(***************************************************************************)
(* What the event scheduler of Sked.h promises its clients, without the    *)
(* heap: at most one pending event per client; runAll(now) calls back the  *)
(* pending clients whose time has come, always an earliest one, lets the   *)
(* callback add and delete events, and returns only when nothing is due.   *)
(***************************************************************************)
EXTENDS Integers

CONSTANTS
    Clients,        \* the SkedClient objects
    NoClient,       \* the null SkedClient pointer
    NotPending,     \* "no event is outstanding for this client"
    MaxTime         \* bound: the latest time named

VARIABLES
    pending,        \* the time each client is scheduled at, or NotPending
    running,        \* TRUE while runAll is on the call stack
    runNow,         \* the clock runAll was last called with
    current         \* the client whose skedCallback is on the stack

absVars == <<pending, running, runNow, current>>

IsPending(c) == pending[c] # NotPending

\* No event is pending at or before t.
NothingDue(t) == \A c \in Clients : IsPending(c) => pending[c] > t

Init ==
    /\ pending = [c \in Clients |-> NotPending]
    /\ running = FALSE
    /\ runNow = 0
    /\ current = NoClient

\* The application, or a running callback, calls addClient(c, w).
Add(c, w) ==
    /\ running => current # NoClient
    /\ ~IsPending(c)
    /\ pending' = [pending EXCEPT ![c] = w]
    /\ UNCHANGED <<running, runNow, current>>

\* ... or delClient(c).
Del(c) ==
    /\ running => current # NoClient
    /\ pending' = [pending EXCEPT ![c] = NotPending]
    /\ UNCHANGED <<running, runNow, current>>

\* runAll(t) is entered; the clock never goes back.
Begin(t) ==
    /\ ~running
    /\ t >= runNow
    /\ running' = TRUE
    /\ runNow' = t
    /\ UNCHANGED <<pending, current>>

\* An earliest due client is taken off the schedule and called back.
Fire(c) ==
    /\ running /\ current = NoClient
    /\ IsPending(c) /\ pending[c] <= runNow
    /\ \A d \in Clients : IsPending(d) => pending[c] <= pending[d]
    /\ pending' = [pending EXCEPT ![c] = NotPending]
    /\ current' = c
    /\ UNCHANGED <<running, runNow>>

\* The callback returns to runAll.
CallbackReturn ==
    /\ running /\ current # NoClient
    /\ current' = NoClient
    /\ UNCHANGED <<pending, running, runNow>>

\* runAll returns to the application.
End ==
    /\ running /\ current = NoClient
    /\ NothingDue(runNow)
    /\ running' = FALSE
    /\ UNCHANGED <<pending, runNow, current>>

Next ==
    \/ \E c \in Clients : \E w \in 0..MaxTime : Add(c, w)
    \/ \E c \in Clients : Del(c)
    \/ \E t \in 0..MaxTime : Begin(t)
    \/ \E c \in Clients : Fire(c)
    \/ CallbackReturn
    \/ End

Spec == Init /\ [][Next]_absVars
==============================================================================
