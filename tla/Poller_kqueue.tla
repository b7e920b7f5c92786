----------------------------- MODULE Poller_kqueue -----------------------------
(***************************************************************************)
(* class Poller_kqueue (Poller_kqueue.cc, Poller_kqueue.h): readiness      *)
(* notification with kqueue(). The client of a descriptor is known to the  *)
(* kernel only, as the udata of one event per descriptor and bit.          *)
(*                                                                         *)
(* The changes are collected in mChanges and made at the next kevent().    *)
(* Nothing looks at the events before that, and a descriptor is deleted    *)
(* before it is closed, so that here they are made at once. The kernel     *)
(* (external, see configure.in and Poller_kqueue.h on the patch it needs)  *)
(* is the one the code counts on: it ignores the deletion of an event that *)
(* it has not, and a null udata leaves the one that an event has.          *)
(* Objects and methods are as in Poller_poll.tla.                          *)
(***************************************************************************)
EXTENDS Integers, FiniteSets, Sequences

CONSTANTS Fds, Events, NoClient

\* The kernel has no event for a descriptor and a bit.
Absent == "absent"

NoEvent == [fd |-> -1, revents |-> {}, client |-> NoClient]

init ==
    {[class |-> "kqueue", failed |-> FALSE,
      mNumFds |-> 0,
      mResults |-> <<>>,
      mNumResults |-> 0,
      mCurResult |-> 0,
      kernel |-> [fd \in Fds |-> [b \in Events |-> Absent]]]}

setMaskInternal(p, fd, eventmask, client) ==
    LET udata(b) == IF client = NoClient /\ p.kernel[fd][b] # Absent
                    THEN p.kernel[fd][b] ELSE client
    IN  [p EXCEPT !.kernel[fd] = [b \in Events |->
                        IF b \in eventmask THEN udata(b) ELSE @[b]]]

clearMaskInternal(p, fd, eventmask) ==
    [p EXCEPT !.kernel[fd] = [b \in Events |-> IF b \in eventmask THEN @[b] ELSE Absent]]

add(p, fd, client, eventmask) ==
    setMaskInternal([p EXCEPT !.mNumFds = @ + 1], fd, eventmask, client)

\* The code does not test whether fd is one of its descriptors.
del(p, fd) ==
    IF p.mNumFds = 0 THEN p
    ELSE [clearMaskInternal(p, fd, {}) EXCEPT !.mNumFds = @ - 1]

setMask(p, fd, mask) == clearMaskInternal(setMaskInternal(p, fd, mask, NoClient), fd, mask)

orMask(p, fd, mask) == setMaskInternal(p, fd, mask, NoClient)

andMask(p, fd, mask) == clearMaskInternal(p, fd, mask)

\* The bits that the kernel watches a descriptor for.
watched(p, fd) == {b \in Events : p.kernel[fd][b] # Absent}

\* One result per descriptor and bit, in an order of the kernel's.
waitForEvents(p, ready) ==
    LET place(fd, b) == 2 * fd - (IF b = "IN" THEN 1 ELSE 0)
        found == {x \in Fds \X Events : x[2] \in watched(p, x[1]) \cap ready[x[1]]}
        result(k) ==
            LET x == CHOOSE y \in found : k = Cardinality(
                        {z \in found : place(z[1], z[2]) <= place(y[1], y[2])})
            IN  [fd |-> x[1], filter |-> x[2], udata |-> p.kernel[x[1]][x[2]]]
        n == Cardinality(found)
    IN  [p EXCEPT !.mResults = [k \in 1..n |-> result(k)],
                  !.mNumResults = n, !.mCurResult = 0]

\* kevent() failed: it leaves the results as they were.
waitFails(p) == [p EXCEPT !.mNumResults = -1, !.mCurResult = 0]

\* After a failure nothing stops it at the end of what kevent() wrote.
getNextEvent(p) ==
    LET ke == p.mResults[p.mCurResult + 1]
        q == [p EXCEPT !.mCurResult = @ + 1]
    IN  IF p.mCurResult = p.mNumResults THEN [p |-> p, e |-> NoEvent]
        ELSE IF p.mCurResult >= Len(p.mResults)
             THEN [p |-> [p EXCEPT !.failed = TRUE], e |-> NoEvent]
        ELSE [p |-> q, e |-> [fd |-> ke.fd, revents |-> {ke.filter}, client |-> ke.udata]]

\* The descriptors with results not given out yet.
left(p) == {p.mResults[k].fd : k \in p.mCurResult + 1 .. p.mNumResults}

===============================================================================
