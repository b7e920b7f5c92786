-------------------------------- MODULE Pollers --------------------------------
(***************************************************************************)
(* The interface Poller (Poller.h), used as the benchmark's main loop uses *)
(* it, on an object of one of the classes; the class is chosen at the      *)
(* start, as bench.cc's -s option does. Between two calls of getNextEvent, *)
(* and between waitForEvents and the first of them, the application's code *)
(* (handlers, and events of the scheduler) adds, deletes and masks any     *)
(* descriptors it likes.                                                   *)
(*                                                                         *)
(* The operating system (external) says what is ready at each wait. For    *)
(* the signals of Poller_sigio it keeps what is ready and a bounded queue. *)
(***************************************************************************)
EXTENDS Integers, FiniteSets, Sequences

CONSTANTS
    Classes,        \* the classes to choose from
    Fds,            \* the descriptors, 1..n: a closed one's number is used again
    Events,         \* the bits of an event mask: "IN" and "OUT", or one of them
    SelectEvents,   \* the same for Poller_select and Poller_kqueue, which count single bits
    Clients, NoClient,
    ClientsOf,      \* bound: the clients that may register each descriptor
    MaxSignals,     \* length of the queue of real-time signals
    MaxOpen,        \* bound: descriptors a Poller_sigio or Poller_kqueue has at a time
    Interrupted     \* the classes whose waits may fail

ASSUME PollersAssumption ==
    /\ Classes \subseteq {"poll", "select", "devpoll", "kqueue", "sigio"}
    /\ IsFiniteSet(Fds) /\ Fds = 1..Cardinality(Fds)
    /\ Events \subseteq {"IN", "OUT"} /\ SelectEvents \subseteq {"IN", "OUT"}
    /\ NoClient \notin Clients
    /\ "absent" \notin Clients \cup {NoClient}    \* Poller_kqueue's Absent
    /\ ClientsOf \in [Fds -> SUBSET Clients]
    /\ MaxSignals \in Nat /\ MaxOpen \in Nat
    /\ Interrupted \subseteq {"poll", "select", "devpoll", "kqueue"}

Poll == INSTANCE Poller_poll
Select == INSTANCE Poller_select WITH Events <- SelectEvents
Devpoll == INSTANCE Poller_devpoll
Kqueue == INSTANCE Poller_kqueue WITH Events <- SelectEvents
Sigio == INSTANCE Poller_sigio

VARIABLES
    p,              \* the Poller
    reg,            \* the client each descriptor is registered with, to the application
    phase,          \* "events": calling getNextEvent; "wait": about to wait
    handling,       \* the descriptor whose event is being handled, or -1
    due,            \* descriptors the last wait reported and that are still to be handled
    foreign,        \* since the wait, a descriptor not being handled was deleted, or any
                    \* descriptor of a Poller_kqueue
    ready,          \* Poller_sigio: what each descriptor is ready for
    signals,        \* Poller_sigio: the queue of signals
    overflow,       \* Poller_sigio: SIGIO is pending, a signal was lost
    owed            \* Poller_sigio: I/O on <<fd, bit>> has just returned EWOULDBLOCK

ghosts == <<due, foreign>>
kernel == <<ready, signals, overflow, owed>>
vars == <<p, reg, phase, handling, ghosts, kernel>>

Masks == SUBSET IF p.class \in {"select", "kqueue"} THEN SelectEvents ELSE Events

Level == p.class # "sigio"

------------------------------------------------------------------------------
Init ==
    /\ p \in UNION {CASE c = "poll" -> Poll!init [] c = "select" -> Select!init
                      [] c = "devpoll" -> Devpoll!init [] c = "kqueue" -> Kqueue!init
                      [] c = "sigio" -> Sigio!init :
                    c \in Classes}
    /\ reg = [fd \in Fds |-> NoClient]
    /\ phase = "events"
    /\ handling = -1
    /\ due = {}
    /\ foreign = FALSE
    /\ ready = [fd \in Fds |-> {}]
    /\ signals = <<>>
    /\ overflow = FALSE
    /\ owed = {}

\* The application's code runs.
Running == phase = "events" /\ owed = {}

\* The virtual calls. written: the write() to /dev/poll succeeds.
add(fd, client, mask, written) ==
    CASE p.class = "poll" -> Poll!add(p, fd, client, mask)
      [] p.class = "select" -> Select!add(p, fd, client, mask)
      [] p.class = "devpoll" -> Devpoll!add(p, fd, client, mask, written)
      [] p.class = "kqueue" -> Kqueue!add(p, fd, client, mask)
      [] p.class = "sigio" -> Sigio!add(p, fd, client, mask)

del(fd, written) ==
    CASE p.class = "poll" -> Poll!del(p, fd)
      [] p.class = "select" -> Select!del(p, fd)
      [] p.class = "devpoll" -> Devpoll!del(p, fd, written)
      [] p.class = "kqueue" -> Kqueue!del(p, fd)
      [] p.class = "sigio" -> Sigio!del(p, fd)

setMask(fd, mask, written) ==
    CASE p.class = "poll" -> Poll!setMask(p, fd, mask)
      [] p.class = "select" -> Select!setMask(p, fd, mask)
      [] p.class = "devpoll" -> Devpoll!setMask(p, fd, mask, written)
      [] p.class = "kqueue" -> Kqueue!setMask(p, fd, mask)
      [] p.class = "sigio" -> Sigio!setMask(p, fd, mask)

orMask(fd, mask, written) ==
    CASE p.class = "poll" -> Poll!orMask(p, fd, mask)
      [] p.class = "select" -> Select!orMask(p, fd, mask)
      [] p.class = "devpoll" -> Devpoll!orMask(p, fd, mask, written)
      [] p.class = "kqueue" -> Kqueue!orMask(p, fd, mask)
      [] p.class = "sigio" -> Sigio!orMask(p, fd, mask)

andMask(fd, mask, written) ==
    CASE p.class = "poll" -> Poll!andMask(p, fd, mask)
      [] p.class = "select" -> Select!andMask(p, fd, mask)
      [] p.class = "devpoll" -> Devpoll!andMask(p, fd, mask, written)
      [] p.class = "kqueue" -> Kqueue!andMask(p, fd, mask)
      [] p.class = "sigio" -> Sigio!andMask(p, fd, mask)

getNextEvent ==
    CASE p.class = "poll" -> Poll!getNextEvent(p)
      [] p.class = "select" -> Select!getNextEvent(p)
      [] p.class = "devpoll" -> Devpoll!getNextEvent(p)
      [] p.class = "kqueue" -> Kqueue!getNextEvent(p)
      [] p.class = "sigio" -> Sigio!getNextEvent(p)

\* r is what the system finds ready.
waitForEvents(r) ==
    CASE p.class = "poll" -> Poll!waitForEvents(p, r)
      [] p.class = "select" -> Select!waitForEvents(p, r)
      [] p.class = "devpoll" -> Devpoll!waitForEvents(p, r)
      [] p.class = "kqueue" -> Kqueue!waitForEvents(p, r)

waitFails ==
    CASE p.class = "poll" -> Poll!waitFails(p)
      [] p.class = "select" -> Select!waitFails(p)
      [] p.class = "devpoll" -> Devpoll!waitFails(p)
      [] p.class = "kqueue" -> Kqueue!waitFails(p)

\* The answers of write(): only Poller_devpoll calls it.
Writes == IF p.class = "devpoll" THEN BOOLEAN ELSE {TRUE}

------------------------------------------------------------------------------
\* A new socket is registered; if that fails it is closed again. It may be
\* ready for something from the start.
Add(fd, client, mask, written) ==
    /\ Running
    /\ reg[fd] = NoClient
    /\ p.class = "sigio" => Cardinality({g \in Fds : reg[g] # NoClient}) < MaxOpen
    /\ p.class = "kqueue" => fd <= MaxOpen
    /\ p' = add(fd, client, mask, written)
    /\ IF written /\ (p.class = "devpoll" => p.m_clivents[fd].client = NoClient)
       THEN reg' = [reg EXCEPT ![fd] = client]
       ELSE UNCHANGED reg
    /\ IF Level THEN UNCHANGED ready
       ELSE \E r \in Masks : ready' = [ready EXCEPT ![fd] = r]
    /\ UNCHANGED <<phase, handling, ghosts, signals, overflow, owed>>

\* A descriptor is deleted and closed; if the write() fails it stays.
Del(fd, written) ==
    /\ Running
    /\ reg[fd] # NoClient
    /\ p' = del(fd, written)
    /\ IF written
       THEN /\ reg' = [reg EXCEPT ![fd] = NoClient]
            /\ ready' = [ready EXCEPT ![fd] = {}]
            /\ due' = due \ {fd}
            /\ foreign' = (Level /\ (foreign \/ fd # handling \/ p.class = "kqueue"))
       ELSE UNCHANGED <<reg, ready, due, foreign>>
    /\ UNCHANGED <<phase, handling, signals, overflow, owed>>

Masking(q) ==
    /\ Running
    /\ p' = q
    /\ UNCHANGED <<reg, phase, handling, ghosts, kernel>>

SetMask(fd, mask, written) == reg[fd] # NoClient /\ Masking(setMask(fd, mask, written))

OrMask(fd, mask, written) == reg[fd] # NoClient /\ Masking(orMask(fd, mask, written))

AndMask(fd, mask, written) == reg[fd] # NoClient /\ Masking(andMask(fd, mask, written))

\* The main loop asks for the next event, and stops when there is none.
GetNextEvent ==
    LET r == getNextEvent
    IN  /\ Running
        /\ p' = r.p
        /\ handling' = IF Level THEN r.e.fd ELSE -1
        /\ phase' = IF r.e.fd = -1 THEN "wait" ELSE "events"
        /\ due' = due \ ({r.e.fd} \ (IF p.class = "kqueue" THEN Kqueue!left(r.p) ELSE {}))
        /\ UNCHANGED <<reg, foreign, kernel>>

\* A wait has returned, and the main loop goes on to the events.
Waited(q, reported) ==
    /\ phase = "wait"
    /\ p' = q
    /\ phase' = "events"
    /\ handling' = -1
    /\ due' = reported
    /\ foreign' = FALSE
    /\ UNCHANGED <<reg, ready, owed>>

\* What the object asks the system to watch for.
Wanted(fd) ==
    CASE p.class = "poll" -> Poll!getMask(p, fd)
      [] p.class = "select" -> {b \in {"IN"} : fd \in p.m_readfds}
                               \cup {b \in {"OUT"} : fd \in p.m_writefds}
      [] p.class = "devpoll" -> p.kernel[fd]
      [] p.class = "kqueue" -> Kqueue!watched(p, fd)

\* poll(), select() or DP_POLL: r is ready, all of it wanted.
WaitForEvents(r) ==
    /\ Level
    /\ \A fd \in Fds : r[fd] \subseteq (IF reg[fd] = NoClient THEN {} ELSE Wanted(fd))
    /\ Waited(waitForEvents(r), {fd \in Fds : r[fd] # {}})
    /\ UNCHANGED <<signals, overflow>>

\* It fails, with EINTR.
WaitFails ==
    /\ p.class \in Interrupted
    /\ Waited(waitFails, {})
    /\ UNCHANGED <<signals, overflow>>

\* sigtimedwait() returns all signals or, after n of them, SIGIO.
WaitForSignals(n) ==
    /\ p.class = "sigio"
    /\ ~overflow => n = Len(signals)
    /\ Waited(Sigio!waitForEvents(p, SubSeq(signals, 1, n), overflow, ready), {})
    /\ signals' = <<>>
    /\ overflow' = FALSE

------------------------------------------------------------------------------
\* A descriptor becomes ready for b, and the system queues a signal.
BecomesReady(fd, b) ==
    /\ p.class = "sigio"
    /\ reg[fd] # NoClient
    /\ b \notin ready[fd]
    /\ ready' = [ready EXCEPT ![fd] = @ \cup {b}]
    /\ IF Len(signals) < MaxSignals
       THEN signals' = Append(signals, [fd |-> fd, band |-> {b}]) /\ UNCHANGED overflow
       ELSE overflow' = TRUE /\ UNCHANGED signals
    /\ UNCHANGED <<p, reg, phase, handling, ghosts, owed>>

\* The application reads or writes until EWOULDBLOCK, and then says so. The
\* descriptor may become ready again in between.
WouldBlock(fd, b) ==
    /\ p.class = "sigio"
    /\ Running
    /\ reg[fd] # NoClient
    /\ ready' = [ready EXCEPT ![fd] = @ \ {b}]
    /\ owed' = {<<fd, b>>}
    /\ UNCHANGED <<p, reg, phase, handling, ghosts, signals, overflow>>

ClearReadiness(fd, b) ==
    /\ <<fd, b>> \in owed
    /\ p' = Sigio!clearReadiness(p, fd, {b})
    /\ owed' = {}
    /\ UNCHANGED <<reg, phase, handling, ghosts, ready, signals, overflow>>

Next ==
    \/ \E fd \in Fds, m \in Masks, w \in Writes :
        \/ \E c \in ClientsOf[fd] : Add(fd, c, m, w)
        \/ SetMask(fd, m, w)
        \/ OrMask(fd, m, w)
        \/ AndMask(fd, m, w)
    \/ \E fd \in Fds, w \in Writes : Del(fd, w)
    \/ GetNextEvent
    \/ \E r \in [Fds -> Masks] : WaitForEvents(r)
    \/ WaitFails
    \/ \E n \in 0..Len(signals) : WaitForSignals(n)
    \/ \E fd \in Fds, b \in Events :
        \/ BecomesReady(fd, b)
        \/ WouldBlock(fd, b)
        \/ ClearReadiness(fd, b)

Spec == Init /\ [][Next]_vars

------------------------------------------------------------------------------
registered == {fd \in Fds : reg[fd] # NoClient}

\* Type invariant.
TypeOK ==
    /\ reg \in [Fds -> Clients \cup {NoClient}]
    /\ phase \in {"events", "wait"}
    /\ handling \in Fds \cup {-1}
    /\ due \subseteq Fds
    /\ foreign \in BOOLEAN /\ overflow \in BOOLEAN
    /\ ready \in [Fds -> SUBSET Events]
    /\ Len(signals) <= MaxSignals
    /\ owed \subseteq Fds \X Events
    /\ CASE p.class = "poll" ->
                /\ p.m_pfds_used \in 0..Cardinality(Fds)
                /\ p.m_rfds \in -1..Cardinality(Fds)
                /\ p.m_cur_pfdnum \in -1..Cardinality(Fds)
         [] p.class = "select" ->
                /\ p.m_max_fd \in Fds \cup {-1}
                /\ p.m_rbits \in -1..(2 * Cardinality(Fds))
                /\ p.m_cur_fd \in -1..(Cardinality(Fds) + 1)
         [] p.class = "devpoll" ->
                /\ p.m_pfds_used \in 0..Cardinality(Fds)
                /\ p.kernel \in [Fds -> (SUBSET Events) \cup {Devpoll!Unwatched}]
         [] p.class = "kqueue" ->
                /\ p.mNumFds \in 0..Cardinality(Fds)
                /\ p.mNumResults \in -1..Len(p.mResults)
                /\ p.mCurResult \in 0..Len(p.mResults)
         [] p.class = "sigio" ->
                /\ p.m_fds_used \in 0..Cardinality(Fds)
                /\ p.m_ready_count \in 0..Cardinality(Fds)
                /\ {p.m_ready_head, p.m_ready_next} \subseteq Fds \cup {-1}

\* The tables of a Poller_poll say what the application registered.
PollTablesAgree(q) ==
    /\ q.m_pfds_used = Cardinality(registered)
    /\ \A fd \in registered :
        LET i == q.m_fd2pfdnum[fd]
        IN  /\ fd < q.m_fd2client_used
            /\ i \in 0..(q.m_pfds_used - 1)
            /\ q.m_pfds[i].fd = fd
            /\ q.m_clients[i] = reg[fd]

\* The ring of Poller_sigio consists of the descriptors that are ready for
\* something in their mask, linked in both directions, and is one ring: whoever
\* follows the links from any of them meets all of them. head and next point
\* into it (readyListAdd, readyListDel, readyListUpdate).
ReadyListInv ==
    LET ring == {fd \in registered : Sigio!isReady(p, fd)}
    IN  /\ ring = {fd \in Fds : Sigio!isOnReadyList(p, fd)}
        /\ p.m_ready_count = Cardinality(ring)
        /\ p.m_ready_next \in ring \cup {-1}
        /\ p.m_ready_head \in IF ring = {} THEN {-1} ELSE ring
        /\ \A fd \in ring : /\ p.m_fds[fd].m_next \in ring
                           /\ p.m_fds[p.m_fds[fd].m_next].m_prev = fd
        /\ \A part \in SUBSET ring :
             part # {} /\ (\A fd \in part : p.m_fds[fd].m_next \in part) => part = ring

\* The tables of every class, and the ring of Poller_sigio, agree with each
\* other and with what the application registered, while entries move, numbers
\* are used again and a write() to /dev/poll fails, and no assert() fails (add,
\* del, setMask of the five classes). An event of a Poller_kqueue has lost its
\* client if its bit was set by setMask or orMask.
TablesAgree ==
    /\ ~p.failed
    /\ CASE p.class = "poll" -> PollTablesAgree(p)
         [] p.class = "select" ->
               /\ p.m_clients = reg
               /\ \A fd \in registered : fd <= p.m_max_fd
               /\ p.m_max_fd # -1 => p.m_max_fd \in registered
               /\ p.m_readfds \cup p.m_writefds \subseteq registered
               /\ p.m_testrfds \cup p.m_testwfds \subseteq registered
         [] p.class = "devpoll" ->
               /\ p.m_pfds_used = Cardinality(registered)
               /\ \A fd \in registered : p.m_clivents[fd].client = reg[fd]
               /\ \A fd \in Fds : p.kernel[fd] # Devpoll!Unwatched <=> fd \in registered
         [] p.class = "kqueue" ->
               /\ p.mNumFds = Cardinality(registered)
               /\ \A fd \in Fds : \A b \in Kqueue!watched(p, fd) :
                    fd \in registered /\ p.kernel[fd][b] \in {reg[fd], NoClient}
         [] p.class = "sigio" ->
               /\ p.m_fds_used = Cardinality(registered)
               /\ \A fd \in Fds : p.m_fds[fd].m_client = reg[fd]
               /\ \A fd \in Fds : ~Sigio!isClear(p, fd) <=> fd \in registered
               /\ ReadyListInv
               /\ PollTablesAgree(p.m_backup)

\* The event that getNextEvent would give next.
upcoming == getNextEvent.e

\* getNextEvent gives every event to the client that its descriptor has at
\* that moment, never to one that was deleted, and never an event of nothing.
\* Poller_devpoll may give one to a client whose add() failed at its write(),
\* if the number was that of another descriptor deleted since the wait.
\* Poller_kqueue may give one to nobody, and one of a descriptor deleted since
\* the wait to the client it had.
GivenToOwner ==
    Running /\ upcoming.fd # -1 =>
        /\ upcoming.revents # {}
        /\ upcoming.client # NoClient \/ p.class = "kqueue"
        /\ \/ upcoming.client = reg[upcoming.fd]
           \/ p.class = "devpoll" /\ foreign /\ reg[upcoming.fd] = NoClient
           \/ p.class = "kqueue" /\ (upcoming.client = NoClient \/ upcoming.fd \notin due)

\* An event given out is one that the last wait reported for this registration
\* of the descriptor, and is given once. Poller_poll and Poller_devpoll break
\* this if another descriptor than the one being handled was deleted since,
\* Poller_kqueue if any was.
OnlyReported ==
    Level /\ Running /\ upcoming.fd # -1 /\ upcoming.fd \notin due =>
        foreign /\ p.class # "select"

\* What the wait reported and has not been deleted is given before the next
\* wait. Poller_poll may leave some for the next wait, if another descriptor
\* than the one being handled was deleted: m_rfds also counts repeated events.
NoneSkipped == phase = "wait" /\ due # {} => foreign /\ p.class = "poll"

\* Poller_sigio forgets no readiness: what a descriptor is ready for is among
\* its m_readybits, or a signal about it is in the queue, or the overflow is
\* still to be seen (add, waitForEvents, clearReadiness).
NothingLost ==
    p.class = "sigio" =>
        \A fd \in registered : \A b \in ready[fd] :
            \/ b \in p.m_fds[fd].m_readybits
            \/ overflow
            \/ \E i \in DOMAIN signals : signals[i].fd = fd /\ b \in signals[i].band

\* Poller_poll.cc:234-236: events are read downwards because otherwise "we
\* might skip an fd or process one that hasn't been through poll() yet".
AllThroughPoll ==
    p.class = "poll" /\ Running /\ upcoming.fd # -1 => upcoming.fd \in due

\* Poller.h, PollEvent: client is "the object to call to handle I/O on this fd".
HasClient == Running /\ upcoming.fd # -1 => upcoming.client # NoClient

===============================================================================
