----------------------------- MODULE Poller_sigio -----------------------------
(***************************************************************************)
(* class Poller_sigio (Poller_sigio.cc, Poller_sigio.h): readiness         *)
(* notification with one queued real-time signal per change, and poll()    *)
(* when the queue of signals has overflowed. The descriptors believed to   *)
(* be ready form a doubly linked ring through m_fds. Objects and methods   *)
(* are as in Poller_poll.tla; m_backup is an object of that class.         *)
(***************************************************************************)
EXTENDS Integers, FiniteSets, Sequences

CONSTANTS Fds, Events, NoClient

Backup == INSTANCE Poller_poll

NoEvent == Backup!NoEvent

\* fdstate_t::clear(). m_readybits is -1, all bits.
clear == [m_client |-> NoClient, m_next |-> -1, m_prev |-> -2,
          m_mask |-> {}, m_readybits |-> Events]

init ==
    {[class |-> "sigio", failed |-> FALSE,
      m_fds |-> [fd \in Fds |-> clear],
      m_fds_used |-> 0,
      m_ready_head |-> -1,
      m_ready_next |-> -1,
      m_ready_count |-> 0,
      m_backup |-> backup] : backup \in Backup!init}

isClear(p, fd) == p.m_fds[fd].m_prev = -2

isReady(p, fd) == p.m_fds[fd].m_mask \cap p.m_fds[fd].m_readybits # {}

isOnReadyList(p, fd) == p.m_fds[fd].m_next >= 0

Failed(p) == [p EXCEPT !.failed = TRUE]

\* At the end of the ring; head and last are the same node if it is empty.
readyListAdd(p, fd) ==
    LET head == IF p.m_ready_count = 0 THEN fd ELSE p.m_ready_head
        last == IF p.m_ready_count = 0 THEN fd ELSE p.m_fds[head].m_prev
    IN  IF p.m_fds[fd].m_next >= 0 \/ p.m_fds[fd].m_prev >= 0 THEN Failed(p)
        ELSE [p EXCEPT
                !.m_fds = [@ EXCEPT ![fd].m_prev = last, ![fd].m_next = head,
                                    ![last].m_next = fd, ![head].m_prev = fd],
                !.m_ready_head = head,
                !.m_ready_count = @ + 1,
                !.m_ready_next = IF @ = -1 THEN fd ELSE @]

\* The last node leaves the ring.
Emptied(p, fd) ==
    IF fd # p.m_ready_head \/ p.m_fds[fd].m_next # p.m_fds[fd].m_prev THEN Failed(p)
    ELSE [p EXCEPT !.m_ready_head = -1, !.m_ready_next = -1]

\* A node leaves, others stay.
Spliced(p, fd) ==
    LET next == p.m_fds[fd].m_next
        prev == p.m_fds[fd].m_prev
    IN  [p EXCEPT !.m_ready_head = IF @ = fd THEN next ELSE @,
                  !.m_ready_next = IF @ = fd THEN next ELSE @,
                  !.m_fds = [@ EXCEPT ![prev].m_next = next, ![next].m_prev = prev]]

readyListDel(p, fd) ==
    IF \/ p.m_fds[fd].m_next < 0 \/ p.m_fds[fd].m_prev < 0
       \/ p.m_ready_count <= 0 \/ p.m_ready_head < 0
    THEN Failed(p)
    ELSE LET q == IF p.m_ready_count = 1 THEN Emptied(p, fd) ELSE Spliced(p, fd)
         IN  [q EXCEPT !.m_fds = [@ EXCEPT ![fd].m_next = -1, ![fd].m_prev = -1],
                       !.m_ready_count = @ - 1]

readyListUpdate(p, fd) ==
    IF isOnReadyList(p, fd) = isReady(p, fd) THEN p
    ELSE IF isReady(p, fd) THEN readyListAdd(p, fd)
    ELSE readyListDel(p, fd)

Registered(p, fd, client, eventmask, readybits) ==
    LET fresh == [m_client |-> client, m_next |-> -1, m_prev |-> -1,
                  m_mask |-> eventmask, m_readybits |-> readybits]
    IN  readyListUpdate([p EXCEPT !.m_fds_used = @ + 1, !.m_fds[fd] = fresh,
                                  !.m_backup = Backup!add(@, fd, client, Events)],
                        fd)

\* Mutant: a new descriptor is taken not to be ready for anything.
addNotReady(p, fd, client, eventmask) == Registered(p, fd, client, eventmask, {})

\* A new descriptor is taken to be ready for everything.
add(p, fd, client, eventmask) == Registered(p, fd, client, eventmask, Events)

Removed(p, fd) ==
    LET q == IF isOnReadyList(p, fd) THEN readyListDel(p, fd) ELSE p
    IN  [q EXCEPT !.m_fds[fd] = clear, !.m_backup = Backup!del(@, fd)]

\* Mutant: the number of descriptors only grows.
delKeepsCount(p, fd) == IF p.m_fds_used = 0 THEN p ELSE Removed(p, fd)

\* The code does not test whether fd is one of its descriptors.
del(p, fd) ==
    IF p.m_fds_used = 0 THEN p
    ELSE [Removed(p, fd) EXCEPT !.m_fds_used = @ - 1]

\* Mutant: a new mask does not move the descriptor on or off the ring.
setMaskOnly(p, fd, mask) ==
    IF p.m_fds_used = 0 \/ isClear(p, fd) THEN p
    ELSE [p EXCEPT !.m_fds[fd].m_mask = mask]

setMask(p, fd, mask) ==
    IF p.m_fds_used = 0 \/ isClear(p, fd) THEN p
    ELSE readyListUpdate([p EXCEPT !.m_fds[fd].m_mask = mask], fd)

orMask(p, fd, mask) == setMask(p, fd, p.m_fds[fd].m_mask \cup mask)

andMask(p, fd, mask) == setMask(p, fd, p.m_fds[fd].m_mask \cap mask)

SetReadybits(p, fd, bits) ==
    IF p.m_fds_used = 0 \/ isClear(p, fd) THEN p
    ELSE readyListUpdate([p EXCEPT !.m_fds[fd].m_readybits = bits], fd)

clearReadiness(p, fd, mask) == SetReadybits(p, fd, p.m_fds[fd].m_readybits \ mask)

\* sigtimedwait() has returned a signal with si_fd and si_band.
Signalled(p, info) ==
    SetReadybits(p, info.fd, p.m_fds[info.fd].m_readybits \cup info.band)

\* The loop over the signals: the object after i of them.
AfterSignals(p, signals) ==
    LET after[i \in 0..Len(signals)] ==
            IF i = 0 THEN [p EXCEPT !.m_ready_next = p.m_ready_head]
            ELSE Signalled(after[i - 1], signals[i])
    IN  after

\* One event of m_backup, if there is one left.
FromBackup(p) ==
    LET r == Backup!getNextEvent(p.m_backup)
        q == [p EXCEPT !.m_backup = r.p]
    IN  IF r.e = NoEvent THEN q ELSE SetReadybits(q, r.e.fd, r.e.revents)

\* The queue has overflowed and is emptied; poll() says what is ready. The
\* object after i events; there is no more than one for each descriptor.
AfterEvents(p, ready) ==
    LET after[i \in 0..Cardinality(Fds)] ==
            IF i = 0 THEN [p EXCEPT !.m_backup = Backup!waitForEvents(@, ready)]
            ELSE FromBackup(after[i - 1])
    IN  after

Overflowed(p, ready) == FromBackup(AfterEvents(p, ready)[Cardinality(Fds)])

\* The signals that sigtimedwait() returned; then the queue was empty, or it
\* returned SIGIO because signals had been lost.
waitForEvents(p, signals, overflowed, ready) ==
    LET q == AfterSignals(p, signals)[Len(signals)]
    IN  IF overflowed THEN Overflowed(q, ready) ELSE q

\* A descriptor 0 would not be reported: the code tests m_ready_next < 1.
getNextEvent(p) ==
    LET fd == p.m_ready_next
        state == p.m_fds[fd]
    IN  IF fd < 1 THEN [p |-> p, e |-> NoEvent]
        ELSE [p |-> [p EXCEPT !.m_ready_next =
                        IF state.m_next = p.m_ready_head THEN -1 ELSE state.m_next],
              e |-> [fd |-> fd, revents |-> state.m_readybits \cap state.m_mask,
                     client |-> state.m_client]]

===============================================================================
