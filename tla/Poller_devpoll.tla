---------------------------- MODULE Poller_devpoll ----------------------------
(***************************************************************************)
(* class Poller_devpoll (Poller_devpoll.cc, Poller_devpoll.h): readiness   *)
(* notification with /dev/poll. kernel is the driver's set of masks        *)
(* (external), which the object writes to; a write() may fail, and every   *)
(* method then stops where the code does. Objects and methods are as in    *)
(* Poller_poll.tla; the growth of the arrays is left out.                  *)
(***************************************************************************)
EXTENDS Integers, FiniteSets, Sequences

CONSTANTS Fds, Events, NoClient

\* The driver does not watch a descriptor.
Unwatched == {"REMOVED"}

NoEvent == [fd |-> -1, revents |-> {}, client |-> NoClient]

init ==
    {[class |-> "devpoll", failed |-> FALSE,
      m_clivents |-> [fd \in Fds |-> [client |-> NoClient, events |-> {}]],
      m_pfds_used |-> 0,
      m_pfds |-> <<>>,      \* what the driver reported: the m_rfds not given out yet
      kernel |-> [fd \in Fds |-> Unwatched]]}

\* write() of the descriptor's mask to the driver.
Written(p, fd, written) ==
    IF written THEN [p EXCEPT !.kernel[fd] = p.m_clivents[fd].events] ELSE p

add(p, fd, client, eventmask, written) ==
    LET q == [p EXCEPT !.m_clivents[fd] = [client |-> client, events |-> eventmask]]
    IN  IF p.m_clivents[fd].client # NoClient THEN p
        ELSE IF written
             THEN [Written(q, fd, TRUE) EXCEPT !.m_pfds_used = @ + 1]
             ELSE q

del(p, fd, written) ==
    IF p.m_clivents[fd].client = NoClient THEN p
    ELSE IF p.m_pfds_used = 0 THEN [p EXCEPT !.failed = TRUE]
    ELSE IF written
         THEN [p EXCEPT !.kernel[fd] = Unwatched,
                        !.m_clivents[fd].client = NoClient,
                        !.m_pfds_used = @ - 1]
         ELSE p

setMask(p, fd, mask, written) ==
    IF p.m_clivents[fd].client = NoClient THEN p
    ELSE Written([p EXCEPT !.m_clivents[fd].events = mask], fd, written)

orMask(p, fd, mask, written) ==
    setMask(p, fd, p.m_clivents[fd].events \cup mask, written)

andMask(p, fd, mask, written) ==
    setMask(p, fd, p.m_clivents[fd].events \cap mask, written)

\* The descriptors of a set in rising order.
InOrder(set) ==
    [i \in 1..Cardinality(set) |->
        CHOOSE fd \in set : Cardinality({g \in set : g <= fd}) = i]

\* DP_POLL reports at most m_pfds_used descriptors, in rising order.
waitForEvents(p, ready) ==
    LET revents(fd) == p.kernel[fd] \cap ready[fd]
        all == InOrder({fd \in Fds : revents(fd) # {}})
        n == IF Len(all) > p.m_pfds_used THEN p.m_pfds_used ELSE Len(all)
    IN  [p EXCEPT !.m_pfds = [i \in 1..n |->
                        [fd |-> all[i], revents |-> revents(all[i])]]]

\* The ioctl() failed.
waitFails(p) == [p EXCEPT !.m_pfds = <<>>]

Event(p, i) ==
    [p |-> [p EXCEPT !.m_pfds = SubSeq(@, 1, i - 1)],
     e |-> [fd |-> p.m_pfds[i].fd, revents |-> p.m_pfds[i].revents,
            client |-> p.m_clivents[p.m_pfds[i].fd].client]]

\* Mutant: descriptors deleted since the wait are not skipped.
getNextEventUnchecked(p) ==
    IF p.m_pfds = <<>> THEN [p |-> p, e |-> NoEvent] ELSE Event(p, Len(p.m_pfds))

\* From the last to the first, without those that have been deleted.
getNextEvent(p) ==
    LET kept == {i \in DOMAIN p.m_pfds :
                    p.m_clivents[p.m_pfds[i].fd].client # NoClient}
    IN  IF kept = {} THEN [p |-> [p EXCEPT !.m_pfds = <<>>], e |-> NoEvent]
        ELSE Event(p, CHOOSE i \in kept : \A j \in kept : j <= i)

===============================================================================
