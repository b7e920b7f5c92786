------------------------------ MODULE Poller_poll ------------------------------
(***************************************************************************)
(* class Poller_poll (Poller_poll.cc, Poller_poll.h): readiness            *)
(* notification with poll(). An object is a record of its data members; a  *)
(* method is an operator that takes the object and returns it changed.     *)
(* m_pfds and m_clients have as many slots as there are descriptors: how   *)
(* the arrays grow, and the lack of memory to do so, is left out. A slot   *)
(* that is not in use keeps the revents of its last user, as in the code.  *)
(* failed says that an assert() has failed.                                *)
(***************************************************************************)
EXTENDS Integers, FiniteSets

CONSTANTS
    Fds,            \* the descriptors, 1..n
    Events,         \* POLLIN, POLLOUT
    NoClient

Slots == 0..(Cardinality(Fds) - 1)

NoEvent == [fd |-> -1, revents |-> {}, client |-> NoClient]

\* malloc() leaves anything in m_fd2pfdnum: -1, or something else. init() does
\* not set m_rfds, which the first getNextEvent reads before any wait: it is 0
\* because the programs create the object with "new Poller_poll()", which, from
\* C++03 on, sets all members to zero.
init ==
    {[class |-> "poll", failed |-> FALSE,
      m_fd2client_used |-> 0,
      m_fd2pfdnum |-> [fd \in Fds |-> garbage],
      m_pfds_used |-> 0,
      m_clients |-> [i \in Slots |-> NoClient],
      m_pfds |-> [i \in Slots |-> [fd |-> -1, events |-> {}, revents |-> {}]],
      m_rfds |-> 0,
      m_cur_pfdnum |-> -1] : garbage \in {-1, Cardinality(Fds)}}

add(p, fd, client, eventmask) ==
    LET n == p.m_pfds_used
    IN  [p EXCEPT !.m_clients[n] = client,
                  !.m_pfds[n] = [@ EXCEPT !.fd = fd, !.events = eventmask],
                  !.m_fd2pfdnum[fd] = n,
                  !.m_fd2client_used = IF fd >= @ THEN fd + 1 ELSE @,
                  !.m_pfds_used = n + 1]

\* The largest used <= bound such that used - 1 is in use; 0 if there is none.
UsedBelow(table, bound) ==
    LET used == {fd \in Fds : fd < bound /\ table[fd] # -1}
    IN  IF used = {} THEN 0 ELSE 1 + CHOOSE fd \in used : \A g \in used : g <= fd

\* The slot of a deleted descriptor is closed by moving the last one into it.
Unlinked(p, fd) ==
    LET n == p.m_fd2pfdnum[fd]
        last == p.m_pfds_used - 1
        table == [p.m_fd2pfdnum EXCEPT ![p.m_pfds[last].fd] = n, ![fd] = -1]
    IN  [p EXCEPT !.m_clients = [@ EXCEPT ![n] = p.m_clients[last], ![last] = NoClient],
                  !.m_pfds = [@ EXCEPT ![n] = p.m_pfds[last], ![last].fd = -1],
                  !.m_fd2pfdnum = table,
                  !.m_fd2client_used = UsedBelow(table, @),
                  !.m_pfds_used = last]

del(p, fd) ==
    IF fd >= p.m_fd2client_used \/ p.m_fd2pfdnum[fd] = -1 THEN p
    ELSE IF p.m_fd2pfdnum[fd] \in 0..(p.m_pfds_used - 1) THEN Unlinked(p, fd)
    ELSE [p EXCEPT !.failed = TRUE]

\* setMask puts up with a descriptor that is not registered, orMask and andMask
\* assert that it is.
setMask(p, fd, mask) ==
    IF p.m_fd2pfdnum[fd] = -1 THEN p
    ELSE IF p.m_fd2pfdnum[fd] < p.m_pfds_used
         THEN [p EXCEPT !.m_pfds[p.m_fd2pfdnum[fd]].events = mask]
         ELSE [p EXCEPT !.failed = TRUE]

getMask(p, fd) == p.m_pfds[p.m_fd2pfdnum[fd]].events

orMask(p, fd, mask) ==
    IF p.m_fd2pfdnum[fd] = -1 THEN [p EXCEPT !.failed = TRUE]
    ELSE setMask(p, fd, getMask(p, fd) \cup mask)

andMask(p, fd, mask) ==
    IF p.m_fd2pfdnum[fd] = -1 THEN [p EXCEPT !.failed = TRUE]
    ELSE setMask(p, fd, getMask(p, fd) \cap mask)

\* poll() has found what is ready of what the slots in use ask for.
waitForEvents(p, ready) ==
    LET revents(i) == p.m_pfds[i].events \cap ready[p.m_pfds[i].fd]
        inUse == 0..(p.m_pfds_used - 1)
    IN  [p EXCEPT !.m_pfds = [i \in Slots |->
                        IF i \in inUse THEN [@[i] EXCEPT !.revents = revents(i)]
                        ELSE @[i]],
                  !.m_rfds = Cardinality({i \in inUse : revents(i) # {}}),
                  !.m_cur_pfdnum = p.m_pfds_used]

\* poll() failed.
waitFails(p) == [p EXCEPT !.m_rfds = -1, !.m_cur_pfdnum = -1]

\* The object after the call, and the event it returns (NoEvent: EWOULDBLOCK).
getNextEvent(p) ==
    LET from == IF p.m_cur_pfdnum > p.m_pfds_used THEN p.m_pfds_used
                ELSE p.m_cur_pfdnum
        found == {i \in Slots : i < from /\ p.m_pfds[i].revents # {}}
        i == CHOOSE j \in found : \A k \in found : k <= j
        fd == p.m_pfds[i].fd
    IN  IF p.m_rfds < 1 THEN [p |-> p, e |-> NoEvent]
        ELSE IF found = {} THEN [p |-> [p EXCEPT !.m_cur_pfdnum = -1], e |-> NoEvent]
        ELSE IF fd \notin Fds \/ fd >= p.m_fd2client_used \/ p.m_fd2pfdnum[fd] # i
             THEN [p |-> [p EXCEPT !.failed = TRUE], e |-> NoEvent]
        ELSE [p |-> [p EXCEPT !.m_cur_pfdnum = i, !.m_rfds = @ - 1],
              e |-> [fd |-> fd, revents |-> p.m_pfds[i].revents,
                     client |-> p.m_clients[i]]]

===============================================================================
