----------------------------- MODULE Poller_select -----------------------------
(***************************************************************************)
(* class Poller_select (Poller_select.cc, Poller_select.h): readiness      *)
(* notification with select(). An fd_set is a set; Poller_URGENT is not    *)
(* defined. Objects and methods are as in Poller_poll.tla.                 *)
(***************************************************************************)
EXTENDS Integers, FiniteSets

CONSTANTS Fds, Events, NoClient

NoEvent == [fd |-> -1, revents |-> {}, client |-> NoClient]

init ==
    {[class |-> "select", failed |-> FALSE,
      m_clients |-> [fd \in Fds |-> NoClient],
      m_max_fd |-> -1,
      m_cur_fd |-> -1,
      m_rbits |-> 0,
      m_readfds |-> {}, m_writefds |-> {},
      m_testrfds |-> {}, m_testwfds |-> {}]}

With(set, fd, b) == IF b THEN set \cup {fd} ELSE set \ {fd}

\* The tests that setMask, orMask, andMask and del begin with; fd is in range.
Monitored(p, fd, q) ==
    IF p.m_clients[fd] = NoClient THEN p
    ELSE IF p.m_max_fd < fd THEN [p EXCEPT !.failed = TRUE]
    ELSE q

setMask(p, fd, mask) ==
    Monitored(p, fd, [p EXCEPT !.m_readfds = With(@, fd, "IN" \in mask),
                               !.m_writefds = With(@, fd, "OUT" \in mask)])

orMask(p, fd, mask) ==
    Monitored(p, fd, [p EXCEPT !.m_readfds = @ \cup {g \in {fd} : "IN" \in mask},
                               !.m_writefds = @ \cup {g \in {fd} : "OUT" \in mask}])

andMask(p, fd, mask) ==
    Monitored(p, fd, [p EXCEPT !.m_readfds = @ \ {g \in {fd} : "IN" \notin mask},
                               !.m_writefds = @ \ {g \in {fd} : "OUT" \notin mask}])

add(p, fd, client, eventmask) ==
    IF p.m_clients[fd] # NoClient THEN p
    ELSE setMask([p EXCEPT !.m_max_fd = IF fd > @ THEN fd ELSE @,
                           !.m_clients[fd] = client], fd, eventmask)

MaxFd(clients) ==
    LET used == {fd \in Fds : clients[fd] # NoClient}
    IN  IF used = {} THEN -1 ELSE CHOOSE fd \in used : \A g \in used : g <= fd

Cleared(p, fd) ==
    LET q == setMask(p, fd, {})
        clients == [p.m_clients EXCEPT ![fd] = NoClient]
    IN  [q EXCEPT !.m_clients = clients, !.m_max_fd = MaxFd(clients)]

\* Mutant: what select() said of the descriptor is kept (the bug Jeon reported).
delKeepsTestBits(p, fd) == Monitored(p, fd, Cleared(p, fd))

del(p, fd) ==
    Monitored(p, fd, [Cleared(p, fd) EXCEPT !.m_testrfds = @ \ {fd},
                                            !.m_testwfds = @ \ {fd}])

Selected(p, ready) ==
    LET r == {fd \in p.m_readfds : "IN" \in ready[fd]}
        w == {fd \in p.m_writefds : "OUT" \in ready[fd]}
    IN  [p EXCEPT !.m_testrfds = r, !.m_testwfds = w,
                  !.m_rbits = Cardinality(r) + Cardinality(w)]

\* Mutant: the search goes on where the last one ended.
waitKeepsPlace(p, ready) == Selected(p, ready)

\* select() leaves the bits of the descriptors that are ready.
waitForEvents(p, ready) == [Selected(p, ready) EXCEPT !.m_cur_fd = -1]

\* select() failed: it leaves the sets as they were passed.
waitFails(p) ==
    [p EXCEPT !.m_testrfds = p.m_readfds, !.m_testwfds = p.m_writefds,
              !.m_rbits = -1]

getNextEvent(p) ==
    LET revents(fd) == {b \in Events : \/ b = "IN" /\ fd \in p.m_testrfds
                                       \/ b = "OUT" /\ fd \in p.m_testwfds}
        found == {fd \in Fds : /\ fd > p.m_cur_fd /\ fd <= p.m_max_fd
                               /\ revents(fd) # {}}
        fd == CHOOSE f \in found : \A g \in found : f <= g
    IN  IF p.m_rbits < 1 THEN [p |-> p, e |-> NoEvent]
        ELSE IF found = {}
             THEN [p |-> [p EXCEPT !.m_cur_fd = 1 + IF @ < p.m_max_fd
                                                    THEN p.m_max_fd ELSE @],
                   e |-> NoEvent]
        ELSE [p |-> [p EXCEPT !.m_cur_fd = fd,
                              !.m_rbits = @ - Cardinality(revents(fd))],
              e |-> [fd |-> fd, revents |-> revents(fd),
                     client |-> p.m_clients[fd]]]

===============================================================================
