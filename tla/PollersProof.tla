------------------------------ MODULE PollersProof ------------------------------
(***************************************************************************)
(* The five classes give every event to the client that its descriptor     *)
(* has, for any number of descriptors and clients, however the application *)
(* adds and deletes descriptors between two calls of getNextEvent; and     *)
(* Poller_sigio forgets no readiness, however long the queue of signals is *)
(* and whenever it overflows.                                              *)
(***************************************************************************)
EXTENDS Pollers, FiniteSetTheorems, TLAPS

\* The number of descriptors.
N == Cardinality(Fds)

\* The descriptors are the numbers 1..N.
LEMMA FdsType == N \in Nat /\ IsFiniteSet(Fds) /\ Fds = 1..N /\ -1 \notin Fds
<1>1. N \in Nat
    BY PollersAssumption, FS_CardinalityType DEF N
<1>2. Fds = 1..N
    BY PollersAssumption DEF N
<1> QED
    BY <1>1, <1>2, PollersAssumption

\* The classes' modules count with the same Cardinality.
LEMMA PollCardinality == \A S : Poll!Cardinality(S) = Cardinality(S)
<1> QED BY Zenon DEF Cardinality, Poll!Cardinality

\* The same for Poller_select.
LEMMA SelectCardinality == \A S : Select!Cardinality(S) = Cardinality(S)
<1> QED BY Zenon DEF Cardinality, Select!Cardinality

\* The same for Poller_devpoll.
LEMMA DevpollCardinality == \A S : Devpoll!Cardinality(S) = Cardinality(S)
<1> QED BY Zenon DEF Cardinality, Devpoll!Cardinality

\* The same for Poller_kqueue.
LEMMA KqueueCardinality == \A S : Kqueue!Cardinality(S) = Cardinality(S)
<1> QED BY Zenon DEF Cardinality, Kqueue!Cardinality

(***************************************************************************)
(* The searches through a table end at its least or its greatest entry.    *)
(***************************************************************************)
LEMMA HasMinimum ==
    ASSUME NEW S \in SUBSET Nat, S # {}
    PROVE  \E x \in S : \A y \in S : x <= y
<1>1. PICK n \in S : \A m \in S : ~(<<m, n>> \in OpToRel(<, Nat))
    BY NatLessThanWellFounded, WFMin
<1>2. ASSUME NEW m \in S PROVE n <= m
    <2>1. m \in Nat /\ n \in Nat
        OBVIOUS
    <2>2. ~(m < n)
        BY <1>1, <2>1 DEF OpToRel
    <2> QED BY <2>1, <2>2
<1> QED
    BY <1>1, <1>2

\* A set of descriptors that is not empty has a greatest.
LEMMA HasMaximum ==
    ASSUME NEW n \in Nat, NEW S \in SUBSET (0..n), S # {}
    PROVE  \E x \in S : \A y \in S : y <= x
<1> DEFINE T == {n - x : x \in S}
<1>1. T \in SUBSET Nat /\ T # {}
    <2>1. PICK x \in S : TRUE
        OBVIOUS
    <2>2. n - x \in T
        BY <2>1
    <2>3. \A x1 \in S : n - x1 \in Nat
        OBVIOUS
    <2> QED BY <2>2, <2>3
<1>2. PICK t \in T : \A u \in T : t <= u
    <2> HIDE DEF T
    <2> QED BY <1>1, HasMinimum
<1>3. PICK x \in S : t = n - x
    OBVIOUS
<1>4. ASSUME NEW y \in S PROVE y <= x
    <2>1. n - y \in T
        OBVIOUS
    <2>2. t <= n - y
        BY <1>2, <2>1
    <2> QED BY <1>3, <2>2
<1> QED
    BY <1>3, <1>4

(***************************************************************************)
(* Registering and deleting a descriptor change the number of those that   *)
(* are registered by one.                                                  *)
(***************************************************************************)
LEMMA RegisteredCount ==
    /\ IsFiniteSet(registered)
    /\ Cardinality(registered) \in 0..N
    /\ \A fd \in Fds \ registered : Cardinality(registered) < N
<1>1. IsFiniteSet(registered) /\ Cardinality(registered) <= N
      /\ (Cardinality(registered) = N => registered = Fds)
    BY FdsType, FS_Subset DEF registered, N
<1>2. Cardinality(registered) \in Nat
    BY <1>1, FS_CardinalityType
<1> QED
    BY <1>1, <1>2, FdsType

\* Registering a descriptor counts one more.
LEMMA RegisterOne ==
    ASSUME reg \in [Fds -> Clients \cup {NoClient}],
           NEW fd \in Fds, NEW c \in Clients, fd \notin registered,
           reg' = [reg EXCEPT ![fd] = c]
    PROVE  /\ registered' = registered \cup {fd}
           /\ Cardinality(registered') = Cardinality(registered) + 1
           /\ reg' \in [Fds -> Clients \cup {NoClient}]
<1>1. registered' = registered \cup {fd}
    BY PollersAssumption DEF registered
<1>2. Cardinality(registered \cup {fd}) = Cardinality(registered) + 1
    BY RegisteredCount, FS_AddElement
<1> QED
    BY <1>1, <1>2

\* Deregistering one counts one less.
LEMMA DeregisterOne ==
    ASSUME reg \in [Fds -> Clients \cup {NoClient}],
           NEW fd \in registered, reg' = [reg EXCEPT ![fd] = NoClient]
    PROVE  /\ registered' = registered \ {fd}
           /\ Cardinality(registered') = Cardinality(registered) - 1
           /\ Cardinality(registered) > 0
           /\ reg' \in [Fds -> Clients \cup {NoClient}]
<1>1. registered' = registered \ {fd} /\ fd \in Fds
    BY DEF registered
<1>2. Cardinality(registered \ {fd}) = Cardinality(registered) - 1
    BY RegisteredCount, FS_RemoveElement
<1>3. Cardinality(registered) # 0
    BY RegisteredCount, FS_EmptySet
<1> QED
    BY <1>1, <1>2, <1>3, RegisteredCount

------------------------------------------------------------------------------
\* What the steps of all classes but Poller_sigio keep.
Common ==
    /\ p.class \in {"poll", "select", "devpoll", "kqueue"}
    /\ reg \in [Fds -> Clients \cup {NoClient}]
    /\ phase \in {"events", "wait"}
    /\ handling \in Fds \cup {-1}
    /\ due \subseteq registered
    /\ foreign \in BOOLEAN
    /\ ready \in [Fds -> SUBSET Events]
    /\ signals = <<>> /\ overflow = FALSE /\ owed = {}

\* The steps, without the object.
Registers(fd, c) ==
    /\ phase = "events" /\ fd \in Fds \ registered /\ c \in Clients
    /\ reg' = [reg EXCEPT ![fd] = c]
    /\ UNCHANGED <<phase, handling, due, foreign>>

Deregisters(fd) ==
    /\ phase = "events" /\ fd \in registered
    /\ reg' = [reg EXCEPT ![fd] = NoClient]
    /\ due' = due \ {fd}
    /\ foreign' = (foreign \/ fd # handling \/ p.class = "kqueue")
    /\ UNCHANGED <<phase, handling>>

Stays == phase = "events" /\ UNCHANGED <<reg, phase, handling, due, foreign>>

Gets(r, kept) ==
    /\ phase = "events"
    /\ p' = r.p
    /\ handling' = r.e.fd
    /\ phase' = IF r.e.fd = -1 THEN "wait" ELSE "events"
    /\ due' = due \ ({r.e.fd} \ kept)
    /\ UNCHANGED <<reg, foreign>>

Reports(q, r) ==
    /\ phase = "wait" /\ phase' = "events"
    /\ p' = q
    /\ handling' = -1
    /\ due' = {fd \in Fds : r[fd] # {}}
    /\ foreign' = FALSE
    /\ UNCHANGED reg

Nothing == [fd \in Fds |-> {}]

(***************************************************************************)
(* What a step does to everything but the object. written: the write() to  *)
(* /dev/poll succeeds; the other classes make none.                        *)
(***************************************************************************)
LEMMA Steps ==
    ASSUME Common, Next
    PROVE  \/ \E fd \in Fds \ registered, c \in Clients, m \in Masks, w \in Writes :
                /\ p' = add(fd, c, m, w)
                /\ IF w /\ (p.class = "devpoll" => p.m_clivents[fd].client = NoClient)
                   THEN Registers(fd, c) ELSE Stays
           \/ \E fd \in registered, w \in Writes :
                p' = del(fd, w) /\ IF w THEN Deregisters(fd) ELSE Stays
           \/ \E fd \in registered, m \in Masks, w \in Writes :
                Stays /\ p' \in {setMask(fd, m, w), orMask(fd, m, w), andMask(fd, m, w)}
           \/ Gets(getNextEvent, IF p.class = "kqueue" THEN Kqueue!left(getNextEvent.p) ELSE {})
           \/ \E r \in [Fds -> Masks] :
                /\ \A fd \in Fds : r[fd] \subseteq IF fd \in registered THEN Wanted(fd) ELSE {}
                /\ Reports(waitForEvents(r), r)
           \/ p.class \in Interrupted /\ Reports(waitFails, Nothing)
<1>0. Level
    BY DEF Common, Level
<1>1. ASSUME NEW fd \in Fds, NEW m \in Masks, NEW w \in Writes, NEW c \in ClientsOf[fd],
             Add(fd, c, m, w)
      PROVE  /\ fd \in Fds \ registered /\ c \in Clients /\ p' = add(fd, c, m, w)
             /\ IF w /\ (p.class = "devpoll" => p.m_clivents[fd].client = NoClient)
                THEN Registers(fd, c) ELSE Stays
    <2>1. fd \in Fds \ registered /\ c \in Clients /\ p' = add(fd, c, m, w)
        BY <1>1, PollersAssumption DEF Add, registered
    <2>2. phase = "events" /\ UNCHANGED <<phase, handling, due, foreign>>
        BY <1>1 DEF Add, Running, ghosts
    <2>3. CASE w /\ (p.class = "devpoll" => p.m_clivents[fd].client = NoClient)
        <3>1. reg' = [reg EXCEPT ![fd] = c]
            BY <1>1, <2>3, Zenon DEF Add
        <3> QED BY <2>1, <2>2, <2>3, <3>1, Zenon DEF Registers
    <2>4. CASE ~(w /\ (p.class = "devpoll" => p.m_clivents[fd].client = NoClient))
        <3>1. reg' = reg
            BY <1>1, <2>4, Zenon DEF Add
        <3> QED BY <2>1, <2>2, <2>4, <3>1, Zenon DEF Stays
    <2> QED BY <2>3, <2>4
<1>2. ASSUME NEW fd \in Fds, NEW w \in Writes, Del(fd, w)
      PROVE  /\ fd \in registered /\ p' = del(fd, w)
             /\ IF w THEN Deregisters(fd) ELSE Stays
    <2>1. /\ fd \in registered /\ p' = del(fd, w)
          /\ phase = "events" /\ UNCHANGED <<phase, handling>>
        BY <1>2 DEF Del, registered, Running
    <2>2. CASE w
        <3>1. /\ foreign' = (Level /\ (foreign \/ fd # handling \/ p.class = "kqueue"))
              /\ reg' = [reg EXCEPT ![fd] = NoClient] /\ due' = due \ {fd}
            BY <1>2, <2>2, Zenon DEF Del
        <3>2. foreign' = (foreign \/ fd # handling \/ p.class = "kqueue")
            BY <1>0, <3>1, Zenon
        <3> QED BY <2>1, <2>2, <3>1, <3>2, Zenon DEF Deregisters
    <2>3. CASE ~w
        <3>1. UNCHANGED <<reg, due, foreign>>
            BY <1>2, <2>3, Zenon DEF Del
        <3> QED BY <2>1, <2>3, <3>1, Zenon DEF Stays
    <2> QED BY <2>2, <2>3
<1>3. ASSUME NEW fd \in Fds, NEW m \in Masks, NEW w \in Writes,
             SetMask(fd, m, w) \/ OrMask(fd, m, w) \/ AndMask(fd, m, w)
      PROVE  /\ Stays /\ fd \in registered
             /\ p' \in {setMask(fd, m, w), orMask(fd, m, w), andMask(fd, m, w)}
    BY <1>3 DEF SetMask, OrMask, AndMask, Masking, Stays, registered, Running, ghosts
<1>4. ASSUME GetNextEvent
      PROVE  Gets(getNextEvent, IF p.class = "kqueue" THEN Kqueue!left(getNextEvent.p) ELSE {})
    BY <1>0, <1>4, Zenon DEF GetNextEvent, Gets, Running
<1>5. ASSUME NEW r \in [Fds -> Masks], WaitForEvents(r)
      PROVE  /\ \A fd \in Fds : r[fd] \subseteq IF fd \in registered THEN Wanted(fd) ELSE {}
             /\ Reports(waitForEvents(r), r)
    BY <1>5 DEF WaitForEvents, Waited, Reports, registered
<1>6. ASSUME WaitFails PROVE p.class \in Interrupted /\ Reports(waitFails, Nothing)
    <2>1. {fd \in Fds : Nothing[fd] # {}} = {}
        BY DEF Nothing
    <2> QED BY <1>6, <2>1 DEF WaitFails, Waited, Reports
<1>7. ~ (\E n \in 0..Len(signals) : WaitForSignals(n))
    BY <1>0 DEF WaitForSignals, Level
<1>8. ASSUME NEW fd \in Fds, NEW b \in Events
      PROVE  ~BecomesReady(fd, b) /\ ~WouldBlock(fd, b) /\ ~ClearReadiness(fd, b)
    BY <1>0 DEF BecomesReady, WouldBlock, ClearReadiness, Common, Level
<1> QED
    BY <1>1, <1>2, <1>3, <1>4, <1>5, <1>6, <1>7, <1>8 DEF Next

(***************************************************************************)
(* Whatever the class, the rest of the state keeps its types, and what is  *)
(* still to be handled is registered.                                      *)
(***************************************************************************)
LEMMA CommonStays ==
    ASSUME Common, [Next]_vars, p'.class = p.class, handling' \in Fds \cup {-1}
    PROVE  Common'
<1> USE DEF Common
<1>1. CASE UNCHANGED vars
    BY <1>1 DEF vars, ghosts, kernel, registered
<1>2. CASE Next
    <2>1. ready' \in [Fds -> SUBSET Events] /\ UNCHANGED <<signals, overflow, owed>>
        <3>0. Level
            BY DEF Level
        <3>1. ASSUME NEW fd \in Fds, NEW m, NEW w, NEW c,
                     \/ Add(fd, c, m, w) \/ Del(fd, w)
                     \/ SetMask(fd, m, w) \/ OrMask(fd, m, w) \/ AndMask(fd, m, w)
              PROVE  ready' \in [Fds -> SUBSET Events] /\ UNCHANGED <<signals, overflow, owed>>
            BY <3>0, <3>1 DEF Add, Del, SetMask, OrMask, AndMask, Masking, kernel
        <3>2. ASSUME NEW r, GetNextEvent \/ WaitForEvents(r) \/ WaitFails
              PROVE  ready' \in [Fds -> SUBSET Events] /\ UNCHANGED <<signals, overflow, owed>>
            BY <3>2 DEF GetNextEvent, WaitForEvents, WaitFails, Waited, kernel
        <3>3. ASSUME NEW fd \in Fds, NEW b \in Events
              PROVE  ~BecomesReady(fd, b) /\ ~WouldBlock(fd, b) /\ ~ClearReadiness(fd, b)
            BY DEF BecomesReady, WouldBlock, ClearReadiness
        <3>4. ~ (\E n \in 0..Len(signals) : WaitForSignals(n))
            BY DEF WaitForSignals
        <3> QED BY <1>2, <3>1, <3>2, <3>3, <3>4 DEF Next
    <2>2. ASSUME NEW fd \in Fds \ registered, NEW c \in Clients, Registers(fd, c) PROVE Common'
        BY <2>1, <2>2, RegisterOne DEF Registers
    <2>3. ASSUME NEW fd \in registered, Deregisters(fd) PROVE Common'
        <3>1. foreign' \in BOOLEAN
            BY <2>3, Zenon DEF Deregisters
        <3>2. /\ reg' = [reg EXCEPT ![fd] = NoClient] /\ due' = due \ {fd}
              /\ UNCHANGED <<phase, handling>>
            BY <2>3 DEF Deregisters
        <3> QED BY <2>1, <3>1, <3>2, DeregisterOne
    <2>4. ASSUME Stays PROVE Common'
        BY <2>1, <2>4 DEF Stays, registered
    <2>5. ASSUME NEW r, NEW k, Gets(r, k) PROVE Common'
        <3>1. phase' \in {"events", "wait"} /\ due' \subseteq registered /\ UNCHANGED <<reg, foreign>>
            BY <2>5 DEF Gets
        <3> QED BY <2>1, <3>1 DEF registered
    <2>6. ASSUME NEW q, NEW r,
                 \A fd \in Fds \ registered : r[fd] = {}, Reports(q, r)
          PROVE  Common'
        BY <2>1, <2>6 DEF Reports, registered
    <2>7. \A fd \in Fds : Nothing[fd] = {}
        BY DEF Nothing
    <2> QED BY <1>2, <2>2, <2>3, <2>4, <2>5, <2>6, <2>7, Steps
<1> QED
    BY <1>1, <1>2

------------------------------------------------------------------------------
(***************************************************************************)
(* The virtual calls of an object of each class.                           *)
(***************************************************************************)
LEMMA PollDispatch ==
    ASSUME p.class = "poll"
    PROVE  /\ \A fd, c, m, w : add(fd, c, m, w) = Poll!add(p, fd, c, m)
           /\ \A fd, w : del(fd, w) = Poll!del(p, fd)
           /\ \A fd, m, w : setMask(fd, m, w) = Poll!setMask(p, fd, m)
           /\ \A fd, m, w : orMask(fd, m, w) = Poll!orMask(p, fd, m)
           /\ \A fd, m, w : andMask(fd, m, w) = Poll!andMask(p, fd, m)
           /\ getNextEvent = Poll!getNextEvent(p)
           /\ \A r : waitForEvents(r) = Poll!waitForEvents(p, r)
           /\ waitFails = Poll!waitFails(p)
           /\ \A fd : Wanted(fd) = Poll!getMask(p, fd)
           /\ Masks = SUBSET Events
           /\ Writes = {TRUE}
<1> QED
    BY Zenon DEF add, del, setMask, orMask, andMask, getNextEvent, waitForEvents, waitFails,
                 Wanted, Writes, Masks

\* The same for Poller_select.
LEMMA SelectDispatch ==
    ASSUME p.class = "select"
    PROVE  /\ \A fd, c, m, w : add(fd, c, m, w) = Select!add(p, fd, c, m)
           /\ \A fd, w : del(fd, w) = Select!del(p, fd)
           /\ \A fd, m, w : setMask(fd, m, w) = Select!setMask(p, fd, m)
           /\ \A fd, m, w : orMask(fd, m, w) = Select!orMask(p, fd, m)
           /\ \A fd, m, w : andMask(fd, m, w) = Select!andMask(p, fd, m)
           /\ getNextEvent = Select!getNextEvent(p)
           /\ \A r : waitForEvents(r) = Select!waitForEvents(p, r)
           /\ waitFails = Select!waitFails(p)
           /\ \A fd : Wanted(fd) = {b \in {"IN"} : fd \in p.m_readfds}
                                  \cup {b \in {"OUT"} : fd \in p.m_writefds}
           /\ Masks = SUBSET SelectEvents
           /\ Writes = {TRUE}
<1> QED
    BY Zenon DEF add, del, setMask, orMask, andMask, getNextEvent, waitForEvents, waitFails,
                 Wanted, Writes, Masks

\* The same for Poller_devpoll.
LEMMA DevpollDispatch ==
    ASSUME p.class = "devpoll"
    PROVE  /\ \A fd, c, m, w : add(fd, c, m, w) = Devpoll!add(p, fd, c, m, w)
           /\ \A fd, w : del(fd, w) = Devpoll!del(p, fd, w)
           /\ \A fd, m, w : setMask(fd, m, w) = Devpoll!setMask(p, fd, m, w)
           /\ \A fd, m, w : orMask(fd, m, w) = Devpoll!orMask(p, fd, m, w)
           /\ \A fd, m, w : andMask(fd, m, w) = Devpoll!andMask(p, fd, m, w)
           /\ getNextEvent = Devpoll!getNextEvent(p)
           /\ \A r : waitForEvents(r) = Devpoll!waitForEvents(p, r)
           /\ waitFails = Devpoll!waitFails(p)
           /\ \A fd : Wanted(fd) = p.kernel[fd]
           /\ Masks = SUBSET Events
           /\ Writes = BOOLEAN
<1> QED
    BY Zenon DEF add, del, setMask, orMask, andMask, getNextEvent, waitForEvents, waitFails,
                 Wanted, Writes, Masks

\* The same for Poller_kqueue.
LEMMA KqueueDispatch ==
    ASSUME p.class = "kqueue"
    PROVE  /\ \A fd, c, m, w : add(fd, c, m, w) = Kqueue!add(p, fd, c, m)
           /\ \A fd, w : del(fd, w) = Kqueue!del(p, fd)
           /\ \A fd, m, w : setMask(fd, m, w) = Kqueue!setMask(p, fd, m)
           /\ \A fd, m, w : orMask(fd, m, w) = Kqueue!orMask(p, fd, m)
           /\ \A fd, m, w : andMask(fd, m, w) = Kqueue!andMask(p, fd, m)
           /\ getNextEvent = Kqueue!getNextEvent(p)
           /\ \A r : waitForEvents(r) = Kqueue!waitForEvents(p, r)
           /\ waitFails = Kqueue!waitFails(p)
           /\ \A fd : Wanted(fd) = Kqueue!watched(p, fd)
           /\ Masks = SUBSET SelectEvents
           /\ Writes = {TRUE}
<1> QED
    BY Zenon DEF add, del, setMask, orMask, andMask, getNextEvent, waitForEvents, waitFails,
                 Wanted, Writes, Masks

------------------------------------------------------------------------------
\* A slot of m_pfds, and an object of Poller_poll.
PollSlot == [fd : Fds \cup {-1}, events : SUBSET Events, revents : SUBSET Events]

PollRecord ==
    [class : {"poll"}, failed : {FALSE},
     m_fd2client_used : Nat,
     m_fd2pfdnum : [Fds -> Int],
     m_pfds_used : 0..N,
     m_clients : [0..N - 1 -> Clients \cup {NoClient}],
     m_pfds : [0..N - 1 -> PollSlot],
     m_rfds : -1..N,
     m_cur_pfdnum : -1..N]

\* The slots in use and the descriptors registered belong to each other.
PollTables(b) ==
    /\ PollTablesAgree(b)
    /\ \A i \in 0..(b.m_pfds_used - 1) :
        b.m_pfds[i].fd \in registered /\ b.m_fd2pfdnum[b.m_pfds[i].fd] = i

\* The slots that getNextEvent has not come to yet, with something to give out.
Coming(b) == {i \in 0..N - 1 : i < b.m_cur_pfdnum /\ b.m_pfds[i].revents # {}}

\* As long as nothing but the descriptor being handled was deleted, these are
\* what the wait reported, m_rfds is their number, and the slot of the one
\* being handled is not among them: closing it moves none of them.
PollFresh ==
    /\ p.m_cur_pfdnum <= p.m_pfds_used
    /\ handling \in registered => p.m_fd2pfdnum[handling] >= p.m_cur_pfdnum
    /\ due = {p.m_pfds[i].fd : i \in Coming(p)}
    /\ p.m_rfds = Cardinality(due) \/ (p.m_rfds = -1 /\ due = {})

PollInv ==
    /\ p \in PollRecord
    /\ PollTables(p)
    /\ ~foreign => PollFresh
    /\ phase = "wait" /\ ~foreign => due = {}

\* There are as many slots as descriptors.
LEMMA PollSlots == Poll!Slots = 0..N - 1
<1> QED BY PollCardinality DEF Poll!Slots, N

\* add() fills the first slot not in use.
LEMMA PollAdded ==
    ASSUME NEW b \in PollRecord, b.m_pfds_used < N, NEW fd \in Fds, NEW c \in Clients,
           NEW m \in SUBSET Events, NEW q, q = Poll!add(b, fd, c, m)
    PROVE  LET n == b.m_pfds_used
           IN  /\ q \in PollRecord
               /\ q.m_pfds_used = n + 1
               /\ q.m_fd2client_used >= b.m_fd2client_used /\ q.m_fd2client_used > fd
               /\ q.m_fd2pfdnum = [b.m_fd2pfdnum EXCEPT ![fd] = n]
               /\ q.m_clients = [b.m_clients EXCEPT ![n] = c]
               /\ q.m_pfds[n].fd = fd
               /\ \A i \in 0..N - 1 : i # n => q.m_pfds[i] = b.m_pfds[i]
               /\ q.m_rfds = b.m_rfds /\ q.m_cur_pfdnum = b.m_cur_pfdnum
<1> DEFINE n == b.m_pfds_used
           s == [b.m_pfds[n] EXCEPT !.fd = fd, !.events = m]
           pfds == [b.m_pfds EXCEPT ![n] = s]
<1>0. n \in 0..N - 1 /\ N \in Nat /\ fd \in Nat
    BY FdsType DEF PollRecord
<1>1. s \in PollSlot /\ s.fd = fd
    <2>1. b.m_pfds[n] \in PollSlot
        BY <1>0 DEF PollRecord
    <2> QED BY <2>1 DEF PollSlot
<1> HIDE DEF s
<1>2. /\ pfds \in [0..N - 1 -> PollSlot]
      /\ pfds[n] = s
      /\ \A i \in 0..N - 1 : i # n => pfds[i] = b.m_pfds[i]
    BY <1>0, <1>1 DEF PollRecord
<1>3. q = [b EXCEPT !.m_clients = [@ EXCEPT ![n] = c],
                    !.m_pfds = pfds,
                    !.m_fd2pfdnum = [@ EXCEPT ![fd] = n],
                    !.m_fd2client_used = IF fd >= @ THEN fd + 1 ELSE @,
                    !.m_pfds_used = n + 1]
    BY <1>0 DEF Poll!add, PollRecord, s
<1> DEFINE U == IF fd >= b.m_fd2client_used THEN fd + 1 ELSE b.m_fd2client_used
           T == [b.m_fd2pfdnum EXCEPT ![fd] = n]
           C == [b.m_clients EXCEPT ![n] = c]
<1>4. /\ n + 1 \in 0..N /\ T \in [Fds -> Int]
      /\ C \in [0..N - 1 -> Clients \cup {NoClient}]
      /\ U \in Nat /\ U >= b.m_fd2client_used /\ U > fd
    BY <1>0 DEF PollRecord
<1>5. q = [b EXCEPT !.m_clients = C, !.m_pfds = pfds, !.m_fd2pfdnum = T,
                    !.m_fd2client_used = U, !.m_pfds_used = n + 1]
    BY <1>3
<1> HIDE DEF pfds, U, T, C
<1>6. /\ q \in PollRecord
      /\ q.m_clients = C /\ q.m_pfds = pfds /\ q.m_fd2pfdnum = T
      /\ q.m_fd2client_used = U /\ q.m_pfds_used = n + 1
      /\ q.m_rfds = b.m_rfds /\ q.m_cur_pfdnum = b.m_cur_pfdnum
    <2> DEFINE k == n + 1
    <2>1. k \in 0..N
        BY <1>4
    <2> HIDE DEF k
    <2>2. q = [b EXCEPT !.m_clients = C, !.m_pfds = pfds, !.m_fd2pfdnum = T,
                        !.m_fd2client_used = U, !.m_pfds_used = k]
        BY <1>5, Zenon DEF k
    <2>3. /\ q \in PollRecord
          /\ q.m_clients = C /\ q.m_pfds = pfds /\ q.m_fd2pfdnum = T
          /\ q.m_fd2client_used = U /\ q.m_pfds_used = k
          /\ q.m_rfds = b.m_rfds /\ q.m_cur_pfdnum = b.m_cur_pfdnum
        BY <1>2, <1>4, <2>1, <2>2 DEF PollRecord
    <2> QED BY <2>3 DEF k
<1> QED
    BY <1>1, <1>2, <1>4, <1>6 DEF T, C

\* del() of a registered descriptor: the last slot moves into its slot.
LEMMA PollDeleted ==
    ASSUME NEW b \in PollRecord, PollTables(b), NEW fd \in registered, NEW q, q = Poll!del(b, fd)
    PROVE  LET n == b.m_fd2pfdnum[fd]
               last == b.m_pfds_used - 1
           IN  /\ q \in PollRecord
               /\ n \in 0..last /\ last \in 0..N - 1
               /\ q.m_pfds_used = last
               /\ b.m_pfds[last].fd # fd => q.m_fd2pfdnum[b.m_pfds[last].fd] = n
               /\ \A g \in Fds : g # fd /\ g # b.m_pfds[last].fd
                                    => q.m_fd2pfdnum[g] = b.m_fd2pfdnum[g]
               /\ \A g \in Fds : q.m_fd2pfdnum[g] # -1 /\ g < b.m_fd2client_used
                                    => g < q.m_fd2client_used
               /\ \A i \in 0..N - 1 : i # last =>
                    /\ q.m_clients[i] = b.m_clients[IF i = n THEN last ELSE i]
                    /\ q.m_pfds[i] = b.m_pfds[IF i = n THEN last ELSE i]
               /\ q.m_rfds = b.m_rfds /\ q.m_cur_pfdnum = b.m_cur_pfdnum
<1> DEFINE n == b.m_fd2pfdnum[fd]
           last == b.m_pfds_used - 1
           T == [b.m_fd2pfdnum EXCEPT ![b.m_pfds[last].fd] = n, ![fd] = -1]
           C == [b.m_clients EXCEPT ![n] = b.m_clients[last], ![last] = NoClient]
           S == [b.m_pfds EXCEPT ![n] = b.m_pfds[last], ![last].fd = -1]
           U == Poll!UsedBelow(T, b.m_fd2client_used)
<1>0. N \in Nat /\ Fds = 1..N /\ fd \in Fds
    BY FdsType DEF registered
<1>1. /\ fd < b.m_fd2client_used /\ n \in 0..last /\ b.m_pfds_used \in 0..N
      /\ n # -1
    BY DEF PollTables, PollTablesAgree, PollRecord
<1>2. last \in 0..N - 1 /\ n \in 0..N - 1
    BY <1>0, <1>1
<1>3. q = Poll!Unlinked(b, fd)
    <2>1. ~(fd >= b.m_fd2client_used)
        BY <1>0, <1>1 DEF PollRecord
    <2> QED BY <1>1, <2>1 DEF Poll!del
<1>4. q = [b EXCEPT !.m_clients = C, !.m_pfds = S, !.m_fd2pfdnum = T,
                    !.m_fd2client_used = U, !.m_pfds_used = last]
    BY <1>3, Zenon DEF Poll!Unlinked
<1>5. b.m_pfds[last].fd \in Fds
    BY <1>1, <1>2 DEF PollTables, registered
<1>6. T \in [Fds -> Int]
    <2>1. b.m_fd2pfdnum \in [Fds -> Int] /\ n \in Int /\ -1 \in Int
        BY <1>2 DEF PollRecord
    <2> QED BY <1>0, <1>5, <2>1
<1>7. C \in [0..N - 1 -> Clients \cup {NoClient}]
    BY <1>2 DEF PollRecord
<1>8. \A i \in 0..N - 1 : i # last => C[i] = b.m_clients[IF i = n THEN last ELSE i]
    BY <1>2 DEF PollRecord
<1>9. S \in [0..N - 1 -> PollSlot]
    <2>1. b.m_pfds[last] \in PollSlot /\ b.m_pfds[n] \in PollSlot
        BY <1>2 DEF PollRecord
    <2>2. \A x \in PollSlot : [x EXCEPT !.fd = -1] \in PollSlot
        BY DEF PollSlot
    <2> QED BY <1>2, <2>1, <2>2 DEF PollRecord
<1>10. \A i \in 0..N - 1 : i # last => S[i] = b.m_pfds[IF i = n THEN last ELSE i]
    BY <1>2 DEF PollRecord
<1>11. /\ U \in Nat
       /\ \A g \in Fds : T[g] # -1 /\ g < b.m_fd2client_used => g < U
    <2> DEFINE used == {g \in Fds : g < b.m_fd2client_used /\ T[g] # -1}
    <2> HIDE DEF T
    <2>1. U = IF used = {} THEN 0 ELSE 1 + CHOOSE g \in used : \A h \in used : h <= g
        BY DEF Poll!UsedBelow
    <2>2. used \in SUBSET (0..N)
        BY <1>0
    <2>3. CASE used = {}
        BY <2>1, <2>3
    <2>4. CASE used # {}
        <3> HIDE DEF used
        <3>1. \E g \in used : \A h \in used : h <= g
            BY <1>0, <2>2, <2>4, HasMaximum
        <3> DEFINE max == CHOOSE g \in used : \A h \in used : h <= g
        <3>2. max \in used /\ \A h \in used : h <= max
            BY <3>1, Zenon
        <3>3. U = 1 + max
            BY <2>1, <2>4, Zenon
        <3> HIDE DEF max, U
        <3>4. max \in Nat
            BY <1>0, <2>2, <3>2
        <3> QED BY <1>0, <3>2, <3>3, <3>4 DEF used
    <2> QED BY <2>3, <2>4
<1>12. /\ b.m_pfds[last].fd # fd => T[b.m_pfds[last].fd] = n
       /\ \A g \in Fds : g # fd /\ g # b.m_pfds[last].fd => T[g] = b.m_fd2pfdnum[g]
    <2>1. b.m_fd2pfdnum \in [Fds -> Int]
        BY DEF PollRecord
    <2> QED BY <1>0, <1>5, <2>1
<1> HIDE DEF T, C, S, U
<1>13. /\ q \in PollRecord
       /\ q.m_clients = C /\ q.m_pfds = S /\ q.m_fd2pfdnum = T
       /\ q.m_fd2client_used = U /\ q.m_pfds_used = last
       /\ q.m_rfds = b.m_rfds /\ q.m_cur_pfdnum = b.m_cur_pfdnum
    <2>1. last \in 0..N
        BY <1>0, <1>2
    <2> HIDE DEF last
    <2> QED BY <1>4, <1>6, <1>7, <1>9, <1>11, <2>1 DEF PollRecord
<1> QED
    BY <1>1, <1>2, <1>8, <1>10, <1>11, <1>12, <1>13

\* The masks change no more than the events of the slot.
LEMMA PollMasked ==
    ASSUME NEW b \in PollRecord, PollTables(b), NEW fd \in registered, NEW m \in SUBSET Events,
           NEW q, q \in {Poll!setMask(b, fd, m), Poll!orMask(b, fd, m), Poll!andMask(b, fd, m)}
    PROVE  /\ q \in PollRecord
           /\ q.m_pfds_used = b.m_pfds_used /\ q.m_fd2client_used = b.m_fd2client_used
           /\ q.m_fd2pfdnum = b.m_fd2pfdnum /\ q.m_clients = b.m_clients
           /\ q.m_rfds = b.m_rfds /\ q.m_cur_pfdnum = b.m_cur_pfdnum
           /\ \A i \in 0..N - 1 : /\ q.m_pfds[i].fd = b.m_pfds[i].fd
                                  /\ q.m_pfds[i].revents = b.m_pfds[i].revents
<1> DEFINE n == b.m_fd2pfdnum[fd]
<1>1. /\ n \in 0..b.m_pfds_used - 1 /\ n # -1 /\ n < b.m_pfds_used
      /\ b.m_pfds_used \in 0..N /\ N \in Nat
    BY FdsType DEF PollTables, PollTablesAgree, PollRecord
<1>2. n \in 0..N - 1
    BY <1>1
<1>3. b.m_pfds[n] \in PollSlot
    BY <1>2 DEF PollRecord
<1>4. Poll!getMask(b, fd) \in SUBSET Events
    BY <1>3 DEF Poll!getMask, PollSlot
<1>5. PICK k \in SUBSET Events : q = Poll!setMask(b, fd, k)
    BY <1>1, <1>4 DEF Poll!orMask, Poll!andMask
<1> DEFINE s == [b.m_pfds[n] EXCEPT !.events = k]
           S == [b.m_pfds EXCEPT ![n] = s]
<1>6. s \in PollSlot /\ s.fd = b.m_pfds[n].fd /\ s.revents = b.m_pfds[n].revents
    BY <1>3, <1>5 DEF PollSlot
<1>7. q = [b EXCEPT !.m_pfds = S]
    BY <1>1, <1>5 DEF Poll!setMask
<1> HIDE DEF s
<1>8. /\ S \in [0..N - 1 -> PollSlot]
      /\ \A i \in 0..N - 1 : S[i].fd = b.m_pfds[i].fd /\ S[i].revents = b.m_pfds[i].revents
    BY <1>2, <1>6 DEF PollRecord
<1> HIDE DEF S
<1> QED
    BY <1>7, <1>8 DEF PollRecord

\* getNextEvent gives out the last of the slots before m_cur_pfdnum that has
\* something, and finds its tables in order.
LEMMA PollGiven ==
    ASSUME NEW b \in PollRecord, PollTables(b), NEW r, r = Poll!getNextEvent(b)
    PROVE  \/ /\ b.m_rfds < 1 /\ r.p = b /\ r.e = Poll!NoEvent
           \/ /\ b.m_rfds >= 1 /\ r.e = Poll!NoEvent
              /\ r.p = [b EXCEPT !.m_cur_pfdnum = -1]
              /\ b.m_cur_pfdnum <= b.m_pfds_used => Coming(b) = {}
           \/ \E i \in 0..b.m_pfds_used - 1 :
                /\ b.m_rfds >= 1
                /\ r.p = [b EXCEPT !.m_cur_pfdnum = i, !.m_rfds = @ - 1]
                /\ r.e = [fd |-> b.m_pfds[i].fd, revents |-> b.m_pfds[i].revents,
                          client |-> b.m_clients[i]]
                /\ b.m_pfds[i].revents # {}
                /\ i < b.m_cur_pfdnum
                /\ b.m_cur_pfdnum <= b.m_pfds_used => \A k \in Coming(b) : k <= i
<1> DEFINE from == IF b.m_cur_pfdnum > b.m_pfds_used THEN b.m_pfds_used ELSE b.m_cur_pfdnum
           found == {i \in 0..N - 1 : i < from /\ b.m_pfds[i].revents # {}}
           i == CHOOSE j \in found : \A k \in found : k <= j
           fd == b.m_pfds[i].fd
<1>0. N \in Nat /\ Fds = 1..N /\ b.m_rfds \in Int
      /\ b.m_cur_pfdnum \in -1..N /\ b.m_pfds_used \in 0..N
    BY FdsType DEF PollRecord
<1>1. r = IF b.m_rfds < 1 THEN [p |-> b, e |-> Poll!NoEvent]
          ELSE IF found = {} THEN [p |-> [b EXCEPT !.m_cur_pfdnum = -1], e |-> Poll!NoEvent]
          ELSE IF fd \notin Fds \/ fd >= b.m_fd2client_used \/ b.m_fd2pfdnum[fd] # i
               THEN [p |-> [b EXCEPT !.failed = TRUE], e |-> Poll!NoEvent]
          ELSE [p |-> [b EXCEPT !.m_cur_pfdnum = i, !.m_rfds = @ - 1],
                e |-> [fd |-> fd, revents |-> b.m_pfds[i].revents, client |-> b.m_clients[i]]]
    BY PollSlots, Zenon DEF Poll!getNextEvent
<1>2. b.m_cur_pfdnum <= b.m_pfds_used => found = Coming(b)
    BY <1>0 DEF Coming
<1> HIDE DEF found
<1>a. \A x, y : [p |-> x, e |-> y].p = x /\ [p |-> x, e |-> y].e = y
    OBVIOUS
<1>3. CASE b.m_rfds < 1
    <2>1. r = [p |-> b, e |-> Poll!NoEvent]
        BY <1>1, <1>3, Zenon
    <2> QED BY <1>3, <1>a, <2>1, Zenon
<1>4. CASE b.m_rfds >= 1 /\ found = {}
    <2>1. ~(b.m_rfds < 1)
        BY <1>0, <1>4
    <2>2. r = [p |-> [b EXCEPT !.m_cur_pfdnum = -1], e |-> Poll!NoEvent]
        BY <1>1, <1>4, <2>1, Zenon
    <2> DEFINE o == [b EXCEPT !.m_cur_pfdnum = -1]
    <2>3. r = [p |-> o, e |-> Poll!NoEvent]
        BY <2>2
    <2> HIDE DEF o
    <2>4. r.p = o /\ r.e = Poll!NoEvent
        BY <1>a, <2>3
    <2> QED BY <1>2, <1>4, <2>4, Zenon DEF o
<1>5. CASE b.m_rfds >= 1 /\ found # {}
    <2>1. found \in SUBSET (0..N)
        BY <1>0 DEF found
    <2>2. \E j \in found : \A k \in found : k <= j
        BY <1>0, <1>5, <2>1, HasMaximum
    <2>3. i \in found /\ \A k \in found : k <= i
        BY <2>2, Zenon
    <2> HIDE DEF i
    <2>4. /\ i \in 0..b.m_pfds_used - 1 /\ i < b.m_cur_pfdnum /\ b.m_pfds[i].revents # {}
        BY <1>0, <2>3 DEF found
    <2>5. fd \in registered /\ b.m_fd2pfdnum[fd] = i
        BY <2>4 DEF PollTables
    <2>6. fd \in Fds /\ fd < b.m_fd2client_used /\ fd \in Nat /\ b.m_fd2client_used \in Nat
        <3>1. fd \in Fds /\ fd \in Nat
            BY <1>0, <2>5 DEF registered
        <3>2. fd < b.m_fd2client_used
            BY <2>5 DEF PollTables, PollTablesAgree
        <3>3. b.m_fd2client_used \in Nat
            BY DEF PollRecord
        <3> QED BY <3>1, <3>2, <3>3
    <2>7. ~(fd \notin Fds \/ fd >= b.m_fd2client_used \/ b.m_fd2pfdnum[fd] # i)
        BY <2>5, <2>6
    <2>8. ~(b.m_rfds < 1) /\ found # {}
        BY <1>0, <1>5
    <2>9. r = [p |-> [b EXCEPT !.m_cur_pfdnum = i, !.m_rfds = @ - 1],
               e |-> [fd |-> fd, revents |-> b.m_pfds[i].revents, client |-> b.m_clients[i]]]
        BY <1>1, <2>7, <2>8, Zenon
    <2>10. /\ r.p = [b EXCEPT !.m_cur_pfdnum = i, !.m_rfds = @ - 1]
           /\ r.e = [fd |-> fd, revents |-> b.m_pfds[i].revents, client |-> b.m_clients[i]]
        <3> DEFINE o == [b EXCEPT !.m_cur_pfdnum = i, !.m_rfds = @ - 1]
                   e == [fd |-> fd, revents |-> b.m_pfds[i].revents, client |-> b.m_clients[i]]
        <3>1. r = [p |-> o, e |-> e]
            BY <2>9, Zenon
        <3> HIDE DEF o, e
        <3>2. r.p = o /\ r.e = e
            BY <1>a, <3>1
        <3> QED BY <3>2, Zenon DEF o, e
    <2> QED BY <1>2, <1>5, <2>3, <2>4, <2>10, Zenon
<1>6. b.m_rfds < 1 \/ b.m_rfds >= 1
    BY <1>0
<1> QED
    BY <1>3, <1>4, <1>5, <1>6, Zenon

\* q is the object after poll() has found R ready.
PollFound(b, q, R) ==
    /\ q \in PollRecord
    /\ q.m_pfds_used = b.m_pfds_used /\ q.m_fd2client_used = b.m_fd2client_used
    /\ q.m_fd2pfdnum = b.m_fd2pfdnum /\ q.m_clients = b.m_clients
    /\ \A i \in 0..N - 1 : q.m_pfds[i].fd = b.m_pfds[i].fd
    /\ q.m_cur_pfdnum = b.m_pfds_used
    /\ \A i \in 0..N - 1 :
         i < b.m_pfds_used /\ q.m_pfds[i].revents # {} => q.m_pfds[i].fd \in R
    /\ \A fd \in R : \E i \in 0..N - 1 :
         i < b.m_pfds_used /\ q.m_pfds[i].revents # {} /\ q.m_pfds[i].fd = fd
    /\ q.m_rfds = Cardinality(R)

\* What poll() finds is what the registered descriptors are ready for.
LEMMA PollWaited ==
    ASSUME NEW b \in PollRecord, PollTables(b), NEW r \in [Fds -> SUBSET Events],
           \A fd \in Fds : r[fd] \subseteq IF fd \in registered THEN Poll!getMask(b, fd) ELSE {}
    PROVE  PollFound(b, Poll!waitForEvents(b, r), {fd \in Fds : r[fd] # {}})
<1> DEFINE inUse == 0..(b.m_pfds_used - 1)
           rev(i) == b.m_pfds[i].events \cap r[b.m_pfds[i].fd]
           S == [i \in 0..N - 1 |-> IF i \in inUse THEN [b.m_pfds[i] EXCEPT !.revents = rev(i)]
                                    ELSE b.m_pfds[i]]
           A == {i \in inUse : rev(i) # {}}
           reported == {fd \in Fds : r[fd] # {}}
           q == Poll!waitForEvents(b, r)
           R == {fd \in Fds : r[fd] # {}}
<1>0. N \in Nat /\ Fds = 1..N /\ b.m_pfds_used \in 0..N /\ inUse \subseteq 0..N - 1
    BY FdsType DEF PollRecord
<1>1. q = [b EXCEPT !.m_pfds = S, !.m_rfds = Cardinality(A), !.m_cur_pfdnum = b.m_pfds_used]
    BY PollSlots, PollCardinality, Zenon DEF Poll!waitForEvents
<1>2. ASSUME NEW i \in inUse
      PROVE  /\ b.m_pfds[i].fd \in registered /\ b.m_fd2pfdnum[b.m_pfds[i].fd] = i
             /\ b.m_pfds[i].fd \in Fds
             /\ rev(i) = r[b.m_pfds[i].fd]
    <2>1. b.m_pfds[i].fd \in registered /\ b.m_fd2pfdnum[b.m_pfds[i].fd] = i
        BY DEF PollTables
    <2>2. b.m_pfds[i].fd \in Fds /\ r[b.m_pfds[i].fd] \subseteq b.m_pfds[i].events
        BY <2>1 DEF Poll!getMask, registered
    <2> QED BY <2>1, <2>2
<1>3. ASSUME NEW fd \in reported
      PROVE  b.m_fd2pfdnum[fd] \in A /\ b.m_pfds[b.m_fd2pfdnum[fd]].fd = fd
    <2>1. fd \in registered
        OBVIOUS
    <2>2. b.m_fd2pfdnum[fd] \in inUse /\ b.m_pfds[b.m_fd2pfdnum[fd]].fd = fd
        BY <2>1 DEF PollTables, PollTablesAgree
    <2>3. rev(b.m_fd2pfdnum[fd]) = r[fd]
        BY <1>2, <2>2
    <2> HIDE DEF rev
    <2> QED BY <2>2, <2>3
<1>4. reported = {b.m_pfds[i].fd : i \in A}
    <2> HIDE DEF rev
    <2> QED BY <1>2, <1>3
<1>5. IsFiniteSet(A) /\ Cardinality(A) \in 0..N
    <2>1. IsFiniteSet(0..N - 1) /\ Cardinality(0..N - 1) = N
        <3>1. N - 1 \in Int /\ 0 \in Int
            BY <1>0
        <3>2. /\ IsFiniteSet(0..N - 1)
              /\ Cardinality(0..N - 1) = IF 0 > N - 1 THEN 0 ELSE N - 1 - 0 + 1
            BY <3>1, FS_Interval
        <3> QED BY <1>0, <3>2
    <2>2. A \in SUBSET (0..N - 1)
        BY <1>0
    <2> HIDE DEF A
    <2>3. IsFiniteSet(A) /\ Cardinality(A) <= N
        BY <2>1, <2>2, FS_Subset
    <2> QED BY <1>0, <2>3, FS_CardinalityType
<1>6. Cardinality(A) = Cardinality(reported)
    <2> DEFINE f == [i \in A |-> b.m_pfds[i].fd]
    <2>1. A \subseteq inUse
        OBVIOUS
    <2> HIDE DEF A, reported, rev, inUse
    <2>2. f \in [A -> reported]
        BY <1>4
    <2>3. \A i, j \in A : f[i] = f[j] => i = j
        BY <1>2, <2>1
    <2>4. \A t \in reported : \E i \in A : f[i] = t
        BY <1>4
    <2> HIDE DEF f
    <2>5. f \in Bijection(A, reported)
        BY <2>2, <2>3, <2>4 DEF Bijection, Injection, Surjection, IsInjective
    <2>6. ExistsBijection(A, reported)
        BY <2>5 DEF ExistsBijection
    <2> QED BY <1>5, <2>6, FS_Bijection
<1>7. S \in [0..N - 1 -> PollSlot]
    <2>1. \A i \in 0..N - 1 : b.m_pfds[i] \in PollSlot
        BY DEF PollRecord
    <2>2. \A i \in 0..N - 1 : rev(i) \in SUBSET Events
        BY <2>1 DEF PollSlot
    <2> HIDE DEF rev, inUse
    <2>3. \A x \in PollSlot, e \in SUBSET Events : [x EXCEPT !.revents = e] \in PollSlot
        BY DEF PollSlot
    <2> QED BY <2>1, <2>2, <2>3
<1>8. ASSUME NEW i \in 0..N - 1
      PROVE  /\ S[i].fd = b.m_pfds[i].fd
             /\ i \in inUse => S[i].revents = rev(i)
    <2>1. b.m_pfds[i] \in PollSlot
        BY DEF PollRecord
    <2> HIDE DEF rev, inUse
    <2> QED BY <2>1 DEF PollSlot
<1>9. {i \in 0..N - 1 : i < b.m_pfds_used /\ S[i].revents # {}} = A
    <2> HIDE DEF S, rev
    <2> QED BY <1>0, <1>8
<1> DEFINE u == b.m_pfds_used
           n == Cardinality(A)
<1>10. u \in 0..N /\ n \in 0..N
    BY <1>0, <1>5
<1> HIDE DEF S, A, reported, rev, u, n, q
<1>11. q = [b EXCEPT !.m_pfds = S, !.m_rfds = n, !.m_cur_pfdnum = u]
    BY <1>1, Zenon DEF u, n
<1>12. /\ q \in PollRecord
       /\ q.m_pfds_used = b.m_pfds_used /\ q.m_fd2client_used = b.m_fd2client_used
       /\ q.m_fd2pfdnum = b.m_fd2pfdnum /\ q.m_clients = b.m_clients
       /\ q.m_pfds = S /\ q.m_rfds = n /\ q.m_cur_pfdnum = u
    <2>1. -1..N = -1..N /\ \A x \in 0..N : x \in -1..N
        BY <1>0
    <2> QED BY <1>7, <1>10, <1>11, <2>1 DEF PollRecord
<1>13. {S[i].fd : i \in A} = reported
    <2>1. \A i \in A : i \in 0..N - 1
        BY <1>9
    <2> QED BY <1>4, <1>8, <2>1
<1>14. \A i \in 0..N - 1 : q.m_pfds[i].fd = b.m_pfds[i].fd
    BY <1>8, <1>12
<1>15. {i \in 0..N - 1 : i < b.m_pfds_used /\ q.m_pfds[i].revents # {}} = A
    BY <1>9, <1>12, Zenon
<1>16. R = {q.m_pfds[i].fd : i \in A}
    BY <1>12, <1>13, Zenon DEF reported
<1>17. q.m_rfds = Cardinality(R) /\ q.m_cur_pfdnum = b.m_pfds_used
    BY <1>6, <1>12, Zenon DEF u, n, reported
<1>18. /\ \A i \in 0..N - 1 :
            i < b.m_pfds_used /\ q.m_pfds[i].revents # {} => q.m_pfds[i].fd \in R
       /\ \A fd \in R : \E i \in 0..N - 1 :
            i < b.m_pfds_used /\ q.m_pfds[i].revents # {} /\ q.m_pfds[i].fd = fd
    BY <1>15, <1>16, Zenon
<1> QED
    BY <1>12, <1>14, <1>17, <1>18, Zenon DEF PollFound, q

\* A registered descriptor other than the one being deleted keeps its place or
\* moves to the slot that became free.
LEMMA PollTablesStay ==
    ASSUME reg \in [Fds -> Clients \cup {NoClient}], NEW b \in PollRecord, PollTables(b), NEW d
    PROVE  /\ \A fd \in Fds \ registered, c \in Clients, m \in SUBSET Events :
                reg' = [reg EXCEPT ![fd] = c] /\ d = Poll!add(b, fd, c, m) => d \in PollRecord /\ PollTables(d)'
           /\ \A fd \in registered :
                reg' = [reg EXCEPT ![fd] = NoClient] /\ d = Poll!del(b, fd) => d \in PollRecord /\ PollTables(d)'
<1>0. N \in Nat /\ Fds = 1..N /\ reg \in [Fds -> Clients \cup {NoClient}]
    BY FdsType
<1>1. ASSUME NEW fd \in Fds \ registered, NEW c \in Clients, NEW m \in SUBSET Events,
             reg' = [reg EXCEPT ![fd] = c], d = Poll!add(b, fd, c, m)
      PROVE  d \in PollRecord /\ PollTables(d)'
    <2> DEFINE n == b.m_pfds_used
    <2>1. n = Cardinality(registered) /\ n < N /\ n \in Nat
        BY <1>0, RegisteredCount DEF PollTables, PollTablesAgree
    <2>2. /\ d \in PollRecord
          /\ d.m_pfds_used = n + 1
          /\ d.m_fd2client_used >= b.m_fd2client_used /\ d.m_fd2client_used > fd
          /\ d.m_fd2pfdnum = [b.m_fd2pfdnum EXCEPT ![fd] = n]
          /\ d.m_clients = [b.m_clients EXCEPT ![n] = c]
          /\ d.m_pfds[n].fd = fd
          /\ \A i \in 0..N - 1 : i # n => d.m_pfds[i] = b.m_pfds[i]
        BY <1>1, <2>1, PollAdded
    <2>3. /\ reg' = [reg EXCEPT ![fd] = c]
          /\ registered' = registered \cup {fd}
          /\ Cardinality(registered') = Cardinality(registered) + 1
        BY <1>0, <1>1, RegisterOne
    <2>4. /\ d.m_fd2pfdnum[fd] = n /\ d.m_clients[n] = c
          /\ \A g \in Fds : g # fd => d.m_fd2pfdnum[g] = b.m_fd2pfdnum[g]
          /\ \A i \in 0..N - 1 : i # n => d.m_clients[i] = b.m_clients[i]
        <3>1. /\ b.m_fd2pfdnum \in [Fds -> Int]
              /\ b.m_clients \in [0..N - 1 -> Clients \cup {NoClient}] /\ n \in 0..N - 1
            BY <1>0, <2>1 DEF PollRecord
        <3> HIDE DEF n
        <3> QED BY <2>2, <3>1
    <2>5. reg'[fd] = c /\ \A g \in Fds : g # fd => reg'[g] = reg[g]
        BY <1>0, <2>3
    <2>6. ASSUME NEW g \in registered'
          PROVE  LET i == d.m_fd2pfdnum[g]
                 IN  /\ g < d.m_fd2client_used
                     /\ i \in 0..n
                     /\ d.m_pfds[i].fd = g
                     /\ d.m_clients[i] = reg'[g]
        <3>1. CASE g = fd
            BY <2>1, <2>2, <2>4, <2>5, <3>1
        <3>2. CASE g # fd
            <4> DEFINE i == b.m_fd2pfdnum[g]
            <4>1. g \in registered /\ g \in Fds
                BY <2>3, <3>2 DEF registered
            <4>2. /\ g < b.m_fd2client_used /\ i \in 0..(n - 1)
                  /\ b.m_pfds[i].fd = g /\ b.m_clients[i] = reg[g]
                BY <4>1 DEF PollTables, PollTablesAgree
            <4>3. d.m_fd2pfdnum[g] = i /\ i # n /\ i \in 0..N - 1
                BY <1>0, <2>1, <2>4, <3>2, <4>1, <4>2
            <4>4. g < d.m_fd2client_used
                BY <1>0, <2>2, <4>1, <4>2 DEF PollRecord
            <4> QED BY <2>1, <2>2, <2>4, <2>5, <3>2, <4>1, <4>2, <4>3, <4>4
        <3> QED BY <3>1, <3>2
    <2>7. ASSUME NEW i \in 0..n
          PROVE  d.m_pfds[i].fd \in registered' /\ d.m_fd2pfdnum[d.m_pfds[i].fd] = i
        <3>1. CASE i = n
            BY <2>2, <2>3, <2>4, <3>1
        <3>2. CASE i # n
            <4>1. i \in 0..(n - 1) /\ i \in 0..N - 1
                BY <1>0, <2>1, <3>2
            <4>2. b.m_pfds[i].fd \in registered /\ b.m_fd2pfdnum[b.m_pfds[i].fd] = i
                BY <4>1 DEF PollTables
            <4> QED BY <2>2, <2>3, <2>4, <3>2, <4>1, <4>2 DEF registered
        <3> QED BY <3>1, <3>2
    <2>8. d.m_pfds_used - 1 = n /\ d.m_pfds_used = Cardinality(registered')
        BY <2>1, <2>2, <2>3
    <2> HIDE DEF n
    <2> QED BY <2>2, <2>6, <2>7, <2>8 DEF PollTables, PollTablesAgree
<1>2. ASSUME NEW fd \in registered, reg' = [reg EXCEPT ![fd] = NoClient], d = Poll!del(b, fd)
      PROVE  d \in PollRecord /\ PollTables(d)'
    <2> DEFINE n == b.m_fd2pfdnum[fd]
               last == b.m_pfds_used - 1
               l == b.m_pfds[last].fd
    <2>1. /\ d \in PollRecord
          /\ n \in 0..last /\ last \in 0..N - 1
          /\ d.m_pfds_used = last
          /\ l # fd => d.m_fd2pfdnum[l] = n
          /\ \A g \in Fds : g # fd /\ g # l => d.m_fd2pfdnum[g] = b.m_fd2pfdnum[g]
          /\ \A g \in Fds : d.m_fd2pfdnum[g] # -1 /\ g < b.m_fd2client_used
                               => g < d.m_fd2client_used
          /\ \A i \in 0..N - 1 : i # last =>
               /\ d.m_clients[i] = b.m_clients[IF i = n THEN last ELSE i]
               /\ d.m_pfds[i] = b.m_pfds[IF i = n THEN last ELSE i]
        BY <1>2, PollDeleted
    <2>2. /\ reg' = [reg EXCEPT ![fd] = NoClient]
          /\ registered' = registered \ {fd}
          /\ Cardinality(registered') = Cardinality(registered) - 1
        BY <1>0, <1>2, DeregisterOne
    <2>3. l \in registered /\ b.m_fd2pfdnum[l] = last /\ l \in Fds /\ fd \in Fds
        BY <2>1 DEF PollTables, registered
    <2>4. b.m_pfds[n].fd = fd
        BY DEF PollTables, PollTablesAgree
    <2>5. /\ l # fd => d.m_fd2pfdnum[l] = n
          /\ \A g \in Fds : g # fd /\ g # l => d.m_fd2pfdnum[g] = b.m_fd2pfdnum[g]
        BY <2>1
    <2>6. \A g \in Fds : g # fd => reg'[g] = reg[g]
        BY <1>0, <2>2
    <2>7. ASSUME NEW g \in registered'
          PROVE  LET i == d.m_fd2pfdnum[g]
                 IN  /\ g < d.m_fd2client_used
                     /\ i \in 0..(last - 1)
                     /\ d.m_pfds[i].fd = g
                     /\ d.m_clients[i] = reg'[g]
        <3> DEFINE j == b.m_fd2pfdnum[g]
        <3>1. g \in registered /\ g # fd /\ g \in Fds
            BY <2>2 DEF registered
        <3>2. /\ g < b.m_fd2client_used /\ j \in 0..last
              /\ b.m_pfds[j].fd = g /\ b.m_clients[j] = reg[g]
            BY <3>1 DEF PollTables, PollTablesAgree
        <3>3. j # n
            BY <2>4, <3>1, <3>2
        <3>4. CASE g = l
            <4>1. d.m_fd2pfdnum[g] = n /\ j = last
                BY <2>3, <2>5, <3>1, <3>4
            <4>2. n \in 0..(last - 1) /\ n # last /\ n # -1 /\ n \in 0..N - 1
                BY <1>0, <2>1, <3>3, <4>1
            <4>3. g < d.m_fd2client_used
                BY <2>1, <3>1, <3>2, <4>1, <4>2
            <4> QED BY <2>1, <2>6, <3>1, <3>2, <4>1, <4>2, <4>3
        <3>5. CASE g # l
            <4>1. d.m_fd2pfdnum[g] = j
                BY <2>5, <3>1, <3>5
            <4>2. j # last
                BY <3>2, <3>5
            <4>3. j \in 0..(last - 1) /\ j # -1 /\ j \in 0..N - 1
                BY <1>0, <2>1, <3>2, <4>2
            <4>4. g < d.m_fd2client_used
                BY <2>1, <3>1, <3>2, <4>1, <4>3
            <4> QED BY <2>1, <2>6, <3>1, <3>2, <3>3, <4>1, <4>2, <4>3, <4>4
        <3> QED BY <3>4, <3>5
    <2>8. ASSUME NEW i \in 0..(last - 1)
          PROVE  d.m_pfds[i].fd \in registered' /\ d.m_fd2pfdnum[d.m_pfds[i].fd] = i
        <3>0. i \in 0..N - 1 /\ i # last /\ i \in 0..last
            BY <1>0, <2>1
        <3>1. CASE i = n
            <4>1. l # fd
                BY <2>3, <3>0, <3>1
            <4> QED BY <2>1, <2>2, <2>3, <2>5, <3>0, <3>1, <4>1
        <3>2. CASE i # n
            <4> DEFINE g == b.m_pfds[i].fd
            <4>1. g \in registered /\ b.m_fd2pfdnum[g] = i /\ g \in Fds
                BY <3>0 DEF PollTables, registered
            <4>2. g # fd /\ g # l
                BY <2>3, <3>0, <3>2, <4>1
            <4>3. d.m_pfds[i].fd = g
                BY <2>1, <3>0, <3>2
            <4> QED BY <2>2, <2>5, <4>1, <4>2, <4>3
        <3> QED BY <3>1, <3>2
    <2>9. last = Cardinality(registered')
        BY <2>2 DEF PollTables, PollTablesAgree
    <2> HIDE DEF last
    <2> QED BY <2>1, <2>7, <2>8, <2>9 DEF PollTables, PollTablesAgree
<1> QED
    BY <1>1, <1>2

\* Every step keeps the invariant of Poller_poll.
LEMMA PollStays ==
    ASSUME Common, PollInv, p.class = "poll", [Next]_vars
    PROVE  PollInv' /\ handling' \in Fds \cup {-1}
<1> USE DEF PollInv
<1>0. N \in Nat /\ Fds = 1..N /\ -1 \notin Fds /\ IsFiniteSet(Fds)
    BY FdsType
<1>a. registered \subseteq Fds /\ due \subseteq registered /\ handling \in Fds \cup {-1}
    BY DEF registered, Common
<1>1. CASE UNCHANGED vars
    BY <1>1, <1>a DEF vars, ghosts, PollTables, PollTablesAgree, PollFresh, Coming, registered
<1>2. ASSUME NEW fd \in Fds \ registered, NEW c \in Clients, NEW m \in SUBSET Events,
             Registers(fd, c), p' = Poll!add(p, fd, c, m)
      PROVE  PollInv' /\ handling' \in Fds \cup {-1}
    <2> DEFINE n == p.m_pfds_used
    <2>1. p' \in PollRecord /\ PollTables(p)'
        BY <1>2, PollTablesStay DEF Registers, Common
    <2>2. n < N /\ n \in Nat
        BY <1>0, RegisteredCount DEF PollTables, PollTablesAgree
    <2>3. /\ p' \in PollRecord
          /\ p'.m_pfds_used = n + 1
          /\ p'.m_fd2client_used >= p.m_fd2client_used /\ p'.m_fd2client_used > fd
          /\ p'.m_fd2pfdnum = [p.m_fd2pfdnum EXCEPT ![fd] = n]
          /\ p'.m_clients = [p.m_clients EXCEPT ![n] = c]
          /\ p'.m_pfds[n].fd = fd
          /\ \A i \in 0..N - 1 : i # n => p'.m_pfds[i] = p.m_pfds[i]
          /\ p'.m_rfds = p.m_rfds /\ p'.m_cur_pfdnum = p.m_cur_pfdnum
        BY <1>2, <2>2, PollAdded
    <2>4. phase' = phase /\ phase = "events" /\ handling' = handling /\ due' = due /\ foreign' = foreign
        BY <1>2 DEF Registers
    <2>5. registered' = registered \cup {fd}
        BY <1>2, RegisterOne DEF Registers, Common
    <2>6. ASSUME ~foreign PROVE PollFresh'
        <3>1. PollFresh
            BY <2>6
        <3>2. p.m_cur_pfdnum \in Int /\ p.m_cur_pfdnum <= n
            BY <3>1 DEF PollFresh, PollRecord
        <3>3. \A i \in 0..N - 1 : i < p.m_cur_pfdnum => p'.m_pfds[i] = p.m_pfds[i]
            BY <2>2, <2>3, <3>2
        <3>4. Coming(p)' = Coming(p)
            BY <2>3, <3>3 DEF Coming
        <3>5. due' = {p'.m_pfds[i].fd : i \in Coming(p)'}
            BY <2>4, <3>1, <3>3, <3>4 DEF PollFresh, Coming
        <3>6. handling \in registered' => p'.m_fd2pfdnum[handling] >= p.m_cur_pfdnum
            <4>1. CASE handling = fd
                BY <1>0, <2>2, <2>3, <3>2, <4>1 DEF PollRecord
            <4>2. CASE handling # fd
                <5>1. handling \in registered => p.m_fd2pfdnum[handling] >= p.m_cur_pfdnum
                    BY <3>1 DEF PollFresh
                <5>2. handling \in registered => p'.m_fd2pfdnum[handling] = p.m_fd2pfdnum[handling]
                    BY <1>a, <2>3, <4>2 DEF PollRecord
                <5> QED BY <2>5, <4>2, <5>1, <5>2
            <4> QED BY <4>1, <4>2
        <3>7. p'.m_cur_pfdnum <= p'.m_pfds_used
            BY <2>2, <2>3, <3>2
        <3>8. p'.m_rfds = Cardinality(due') \/ (p'.m_rfds = -1 /\ due' = {})
            BY <2>3, <2>4, <3>1 DEF PollFresh
        <3> QED BY <2>3, <2>4, <3>5, <3>6, <3>7, <3>8 DEF PollFresh
    <2> QED BY <1>a, <2>1, <2>4, <2>6
<1>3. ASSUME NEW fd \in registered, Deregisters(fd), p' = Poll!del(p, fd)
      PROVE  PollInv' /\ handling' \in Fds \cup {-1}
    <2> DEFINE n == p.m_fd2pfdnum[fd]
               last == p.m_pfds_used - 1
    <2>1. p' \in PollRecord /\ PollTables(p)'
        BY <1>3, PollTablesStay DEF Deregisters, Common
    <2>2. /\ n \in 0..last /\ last \in 0..N - 1
          /\ p'.m_pfds_used = last
          /\ \A i \in 0..N - 1 : i # last => p'.m_pfds[i] = p.m_pfds[IF i = n THEN last ELSE i]
          /\ p'.m_rfds = p.m_rfds /\ p'.m_cur_pfdnum = p.m_cur_pfdnum
        BY <1>3, PollDeleted
    <2>3. /\ phase' = phase /\ phase = "events" /\ handling' = handling /\ due' = due \ {fd}
          /\ registered' = registered \ {fd}
        BY <1>3, DeregisterOne DEF Deregisters, Common
    <2>4. ~foreign' => ~foreign /\ fd = handling
        BY <1>3, Zenon DEF Deregisters
    <2>5. ASSUME ~foreign' PROVE PollFresh'
        <3>1. PollFresh /\ fd = handling
            BY <2>4, <2>5
        <3>2. p.m_cur_pfdnum \in Int /\ p.m_cur_pfdnum <= n
            BY <3>1 DEF PollFresh, PollRecord
        <3>3. \A i \in 0..N - 1 : i < p.m_cur_pfdnum => p'.m_pfds[i] = p.m_pfds[i]
            BY <2>2, <3>2
        <3>4. Coming(p)' = Coming(p)
            BY <2>2, <3>3 DEF Coming
        <3>5. fd \notin due
            <4> SUFFICES ASSUME fd \in due PROVE FALSE
                OBVIOUS
            <4>1. PICK i \in Coming(p) : fd = p.m_pfds[i].fd
                BY <3>1 DEF PollFresh
            <4>2. i \in 0..last /\ i < n
                BY <2>2, <3>2, <4>1 DEF Coming
            <4>3. p.m_fd2pfdnum[fd] = i
                BY <4>1, <4>2 DEF PollTables
            <4> QED BY <2>2, <4>2, <4>3
        <3>6. due' = {p'.m_pfds[i].fd : i \in Coming(p)'} /\ due' = due
            BY <2>3, <3>1, <3>3, <3>4, <3>5 DEF PollFresh, Coming
        <3>7. p'.m_cur_pfdnum <= p'.m_pfds_used
            BY <2>2, <3>2
        <3>8. p'.m_rfds = Cardinality(due') \/ (p'.m_rfds = -1 /\ due' = {})
            BY <2>2, <3>1, <3>6 DEF PollFresh
        <3>9. handling' \notin registered'
            BY <2>3, <3>1
        <3> QED BY <3>6, <3>7, <3>8, <3>9 DEF PollFresh
    <2> QED BY <1>a, <2>1, <2>3, <2>5
<1>4. ASSUME NEW fd \in registered, NEW m \in SUBSET Events, Stays,
             p' \in {Poll!setMask(p, fd, m), Poll!orMask(p, fd, m), Poll!andMask(p, fd, m)}
      PROVE  PollInv' /\ handling' \in Fds \cup {-1}
    <2>1. /\ p' \in PollRecord
          /\ p'.m_pfds_used = p.m_pfds_used /\ p'.m_fd2client_used = p.m_fd2client_used
          /\ p'.m_fd2pfdnum = p.m_fd2pfdnum /\ p'.m_clients = p.m_clients
          /\ p'.m_rfds = p.m_rfds /\ p'.m_cur_pfdnum = p.m_cur_pfdnum
          /\ \A i \in 0..N - 1 : /\ p'.m_pfds[i].fd = p.m_pfds[i].fd
                                 /\ p'.m_pfds[i].revents = p.m_pfds[i].revents
        BY <1>4, PollMasked
    <2>2. UNCHANGED <<reg, phase, handling, due, foreign>> /\ registered' = registered
        BY <1>4 DEF Stays, registered
    <2>3. p.m_pfds_used \in 0..N
        BY DEF PollRecord
    <2>4. \A i \in 0..(p.m_pfds_used - 1) : i \in 0..N - 1
        BY <1>0, <2>3
    <2>5. PollTables(p)'
        BY <2>1, <2>2, <2>4 DEF PollTables, PollTablesAgree
    <2>6. Coming(p)' = Coming(p)
        BY <2>1 DEF Coming
    <2>7. {p'.m_pfds[i].fd : i \in Coming(p)} = {p.m_pfds[i].fd : i \in Coming(p)}
        BY <2>1 DEF Coming
    <2>8. PollFresh => PollFresh'
        BY <2>1, <2>2, <2>6, <2>7 DEF PollFresh
    <2> QED BY <1>a, <2>1, <2>2, <2>5, <2>8
<1>5. ASSUME Gets(Poll!getNextEvent(p), {})
      PROVE  PollInv' /\ handling' \in Fds \cup {-1}
    <2> DEFINE r == Poll!getNextEvent(p)
    <2>1. /\ phase = "events" /\ p' = r.p /\ handling' = r.e.fd
          /\ phase' = IF r.e.fd = -1 THEN "wait" ELSE "events"
          /\ due' = due \ {r.e.fd} /\ reg' = reg /\ foreign' = foreign
          /\ registered' = registered
        BY <1>5 DEF Gets, registered
    <2>2. Poll!NoEvent.fd = -1
        BY DEF Poll!NoEvent
    <2>3. p.m_pfds_used \in 0..N /\ p.m_rfds \in -1..N /\ p.m_cur_pfdnum \in -1..N
        BY DEF PollRecord
    <2>4. \A i \in 0..(p.m_pfds_used - 1) : i \in 0..N - 1
        BY <1>0, <2>3
    <2>5. CASE p.m_rfds < 1 /\ r.p = p /\ r.e = Poll!NoEvent
        <3>1. p' = p /\ handling' = -1 /\ due' = due
            BY <1>0, <1>a, <2>1, <2>2, <2>5
        <3>2. PollTables(p)'
            BY <2>1, <3>1 DEF PollTables, PollTablesAgree
        <3>3. ~foreign => PollFresh'
            BY <1>0, <1>a, <2>1, <3>1 DEF PollFresh, Coming
        <3>4. ~foreign => due = {}
            <4> SUFFICES ASSUME PollFresh PROVE due = {}
                OBVIOUS
            <4>1. IsFiniteSet(due)
                BY <1>0, <1>a, FS_Subset
            <4>2. Cardinality(due) \in Nat /\ (Cardinality(due) = 0 <=> due = {})
                BY <4>1, FS_CardinalityType, FS_EmptySet
            <4> DEFINE c == Cardinality(due)
            <4>3. p.m_rfds = c \/ due = {}
                BY Zenon DEF PollFresh
            <4> HIDE DEF c
            <4>4. c \in Nat /\ (c = 0 <=> due = {})
                BY <4>2, Zenon DEF c
            <4> QED BY <2>3, <2>5, <4>3, <4>4
        <3> QED BY <2>1, <3>1, <3>2, <3>3, <3>4
    <2>6. CASE /\ p.m_rfds >= 1 /\ r.e = Poll!NoEvent
               /\ r.p = [p EXCEPT !.m_cur_pfdnum = -1]
               /\ p.m_cur_pfdnum <= p.m_pfds_used => Coming(p) = {}
        <3>1. handling' = -1 /\ due' = due
            BY <1>0, <1>a, <2>1, <2>2, <2>6
        <3>2. p' = [p EXCEPT !.m_cur_pfdnum = -1]
            BY <2>1, <2>6
        <3>3. /\ p' \in PollRecord
              /\ p'.m_pfds_used = p.m_pfds_used /\ p'.m_fd2client_used = p.m_fd2client_used
              /\ p'.m_fd2pfdnum = p.m_fd2pfdnum /\ p'.m_clients = p.m_clients
              /\ p'.m_pfds = p.m_pfds /\ p'.m_rfds = p.m_rfds /\ p'.m_cur_pfdnum = -1
            <4> DEFINE k == -1
            <4>1. k \in -1..N
                BY <1>0
            <4>2. p' = [p EXCEPT !.m_cur_pfdnum = k]
                BY <3>2
            <4> HIDE DEF k
            <4>3. /\ p' \in PollRecord
                  /\ p'.m_pfds_used = p.m_pfds_used /\ p'.m_fd2client_used = p.m_fd2client_used
                  /\ p'.m_fd2pfdnum = p.m_fd2pfdnum /\ p'.m_clients = p.m_clients
                  /\ p'.m_pfds = p.m_pfds /\ p'.m_rfds = p.m_rfds /\ p'.m_cur_pfdnum = k
                BY <4>1, <4>2 DEF PollRecord
            <4> QED BY <4>3 DEF k
        <3>4. PollTables(p)'
            BY <2>1, <3>3 DEF PollTables, PollTablesAgree
        <3>5. ~foreign => due = {}
            BY <2>6 DEF PollFresh
        <3>6. Coming(p)' = {}
            BY <3>3 DEF Coming
        <3>7. ASSUME ~foreign PROVE PollFresh'
            <4>1. due' = {} /\ {p'.m_pfds[i].fd : i \in Coming(p)'} = {}
                BY <3>1, <3>5, <3>6, <3>7
            <4>2. p'.m_rfds = Cardinality(due') \/ (p'.m_rfds = -1 /\ due' = {})
                BY <3>1, <3>3, <3>7, Zenon DEF PollFresh
            <4>3. p'.m_cur_pfdnum <= p'.m_pfds_used /\ handling' \notin registered'
                BY <1>0, <1>a, <2>1, <2>3, <3>1, <3>3
            <4> QED BY <4>1, <4>2, <4>3, Zenon DEF PollFresh
        <3> QED BY <2>1, <3>1, <3>3, <3>4, <3>5, <3>7
    <2>7. ASSUME NEW i \in 0..p.m_pfds_used - 1,
                 /\ p.m_rfds >= 1
                 /\ r.p = [p EXCEPT !.m_cur_pfdnum = i, !.m_rfds = @ - 1]
                 /\ r.e = [fd |-> p.m_pfds[i].fd, revents |-> p.m_pfds[i].revents,
                           client |-> p.m_clients[i]]
                 /\ p.m_pfds[i].revents # {}
                 /\ i < p.m_cur_pfdnum
                 /\ p.m_cur_pfdnum <= p.m_pfds_used => \A k \in Coming(p) : k <= i
          PROVE  PollInv' /\ handling' \in Fds \cup {-1}
        <3> DEFINE fd == p.m_pfds[i].fd
        <3>0. i \in 0..N - 1 /\ i \in -1..N
            BY <1>0, <2>3
        <3>1. fd \in registered /\ p.m_fd2pfdnum[fd] = i /\ fd \in Fds /\ fd # -1
            BY <1>0, <1>a DEF PollTables
        <3>2. r.e.fd = fd
            BY <2>7
        <3>3. handling' = fd /\ phase' = "events" /\ due' = due \ {fd}
            BY <2>1, <3>1, <3>2
        <3>4. p' = [p EXCEPT !.m_cur_pfdnum = i, !.m_rfds = @ - 1]
            BY <2>1, <2>7
        <3>5. /\ p'.m_pfds_used = p.m_pfds_used /\ p'.m_fd2client_used = p.m_fd2client_used
              /\ p'.m_fd2pfdnum = p.m_fd2pfdnum /\ p'.m_clients = p.m_clients
              /\ p'.m_pfds = p.m_pfds /\ p'.m_rfds = p.m_rfds - 1 /\ p'.m_cur_pfdnum = i
            BY <3>4 DEF PollRecord
        <3>6. p' \in PollRecord
            <4>1. p.m_rfds - 1 \in -1..N
                BY <1>0, <2>3, <2>7
            <4> QED BY <3>0, <3>4, <4>1 DEF PollRecord
        <3>7. PollTables(p)'
            BY <2>1, <3>5 DEF PollTables, PollTablesAgree
        <3>8. ASSUME ~foreign PROVE PollFresh'
            <4>1. PollFresh
                BY <3>8
            <4>2. i \in Coming(p)
                BY <2>7, <3>0 DEF Coming
            <4>3. \A k \in Coming(p) : k <= i
                BY <2>7, <4>1 DEF PollFresh
            <4>4. Coming(p)' = Coming(p) \ {i}
                BY <2>3, <2>7, <3>0, <3>5, <4>3 DEF Coming
            <4>5. \A k \in Coming(p) : p.m_pfds[k].fd = fd => k = i
                <5> SUFFICES ASSUME NEW k \in Coming(p), p.m_pfds[k].fd = fd PROVE k = i
                    OBVIOUS
                <5>1. k \in 0..(p.m_pfds_used - 1)
                    BY <2>3, <4>1 DEF PollFresh, Coming
                <5> QED BY <3>1, <5>1 DEF PollTables
            <4>6. due' = {p'.m_pfds[k].fd : k \in Coming(p)'}
                BY <3>3, <3>5, <4>1, <4>4, <4>5 DEF PollFresh
            <4>7. fd \in due
                BY <4>1, <4>2 DEF PollFresh
            <4>8. p'.m_rfds = Cardinality(due')
                <5>1. IsFiniteSet(due)
                    BY <1>0, <1>a, FS_Subset
                <5>2. Cardinality(due \ {fd}) = Cardinality(due) - 1
                    BY <4>7, <5>1, FS_RemoveElement
                <5>3. p.m_rfds = Cardinality(due)
                    BY <4>1, <4>7 DEF PollFresh
                <5> QED BY <3>3, <3>5, <5>2, <5>3
            <4>9. p'.m_cur_pfdnum <= p'.m_pfds_used /\ p'.m_fd2pfdnum[fd] >= p'.m_cur_pfdnum
                BY <2>3, <3>0, <3>1, <3>5
            <4> QED BY <3>3, <4>6, <4>8, <4>9 DEF PollFresh
        <3> QED BY <2>1, <3>1, <3>3, <3>6, <3>7, <3>8
    <2> HIDE DEF r
    <2>8. r = Poll!getNextEvent(p)
        BY DEF r
    <2> QED BY <2>5, <2>6, <2>7, <2>8, PollGiven
<1>6. ASSUME NEW r \in [Fds -> SUBSET Events],
             \A fd \in Fds : r[fd] \subseteq IF fd \in registered THEN Poll!getMask(p, fd) ELSE {},
             Reports(Poll!waitForEvents(p, r), r)
      PROVE  PollInv' /\ handling' \in Fds \cup {-1}
    <2> DEFINE found == {i \in 0..N - 1 : i < p.m_pfds_used /\ p'.m_pfds[i].revents # {}}
               reported == {fd \in Fds : r[fd] # {}}
    <2>0. p' = Poll!waitForEvents(p, r)
        BY <1>6 DEF Reports
    <2>1. /\ p' \in PollRecord
          /\ p'.m_pfds_used = p.m_pfds_used /\ p'.m_fd2client_used = p.m_fd2client_used
          /\ p'.m_fd2pfdnum = p.m_fd2pfdnum /\ p'.m_clients = p.m_clients
          /\ \A i \in 0..N - 1 : p'.m_pfds[i].fd = p.m_pfds[i].fd
          /\ p'.m_cur_pfdnum = p.m_pfds_used
          /\ \A i \in found : p'.m_pfds[i].fd \in reported
          /\ \A fd \in reported : \E i \in found : p'.m_pfds[i].fd = fd
          /\ p'.m_rfds = Cardinality(reported)
        <3>1. PollFound(p, p', reported)
            BY <1>6, <2>0, PollWaited
        <3> HIDE DEF reported
        <3> QED BY <3>1 DEF PollFound
    <2>2. /\ phase' = "events" /\ handling' = -1 /\ due' = reported /\ foreign' = FALSE
          /\ reg' = reg /\ registered' = registered
        BY <1>6 DEF Reports, registered
    <2>3. p.m_pfds_used \in 0..N
        BY DEF PollRecord
    <2>4. \A i \in 0..(p.m_pfds_used - 1) : i \in 0..N - 1
        BY <1>0, <2>3
    <2>5. PollTables(p)'
        BY <2>1, <2>2, <2>4 DEF PollTables, PollTablesAgree
    <2>6. Coming(p)' = found
        BY <2>1 DEF Coming
    <2>7. PollFresh'
        <3> HIDE DEF found, reported
        <3>1. reported = {p'.m_pfds[i].fd : i \in found}
            BY <2>1
        <3>2. p'.m_rfds = Cardinality(due')
            BY <2>1, <2>2, Zenon
        <3>3. due' = {p'.m_pfds[i].fd : i \in Coming(p)'}
            BY <2>2, <2>6, <3>1, Zenon
        <3> QED BY <1>0, <1>a, <2>1, <2>2, <2>3, <3>2, <3>3 DEF PollFresh
    <2> QED BY <2>1, <2>2, <2>5, <2>7
<1>7. ASSUME Reports(Poll!waitFails(p), Nothing)
      PROVE  PollInv' /\ handling' \in Fds \cup {-1}
    <2>1. p' = [p EXCEPT !.m_rfds = -1, !.m_cur_pfdnum = -1]
        BY <1>7 DEF Reports, Poll!waitFails
    <2>2. /\ p' \in PollRecord
          /\ p'.m_pfds_used = p.m_pfds_used /\ p'.m_fd2client_used = p.m_fd2client_used
          /\ p'.m_fd2pfdnum = p.m_fd2pfdnum /\ p'.m_clients = p.m_clients
          /\ p'.m_pfds = p.m_pfds /\ p'.m_rfds = -1 /\ p'.m_cur_pfdnum = -1
        <3> DEFINE k == -1
        <3>1. k \in -1..N
            BY <1>0
        <3>2. p' = [p EXCEPT !.m_rfds = k, !.m_cur_pfdnum = k]
            BY <2>1
        <3> HIDE DEF k
        <3>3. /\ p' \in PollRecord
              /\ p'.m_pfds_used = p.m_pfds_used /\ p'.m_fd2client_used = p.m_fd2client_used
              /\ p'.m_fd2pfdnum = p.m_fd2pfdnum /\ p'.m_clients = p.m_clients
              /\ p'.m_pfds = p.m_pfds /\ p'.m_rfds = k /\ p'.m_cur_pfdnum = k
            BY <3>1, <3>2 DEF PollRecord
        <3> QED BY <3>3 DEF k
    <2>3. /\ phase' = "events" /\ handling' = -1 /\ due' = {} /\ foreign' = FALSE
          /\ reg' = reg /\ registered' = registered
        BY <1>7 DEF Reports, registered, Nothing
    <2>4. PollTables(p)'
        BY <2>2, <2>3 DEF PollTables, PollTablesAgree
    <2>5. Coming(p)' = {}
        BY <2>2 DEF Coming
    <2>6. PollFresh'
        BY <1>0, <1>a, <2>2, <2>3, <2>5 DEF PollFresh, PollRecord
    <2> QED BY <2>2, <2>3, <2>4, <2>6
<1> HIDE DEF PollInv
<1>8. CASE Next
    <2>1. ASSUME NEW fd \in Fds \ registered, NEW c \in Clients, NEW m \in Masks, NEW w \in Writes,
                 p' = add(fd, c, m, w),
                 IF w /\ (p.class = "devpoll" => p.m_clivents[fd].client = NoClient)
                 THEN Registers(fd, c) ELSE Stays
          PROVE  PollInv' /\ handling' \in Fds \cup {-1}
        <3>0. w = TRUE /\ p.class # "devpoll"
            BY PollDispatch, Zenon
        <3>1. m \in SUBSET Events /\ p' = Poll!add(p, fd, c, m)
            BY <2>1, PollDispatch, Zenon
        <3>2. Registers(fd, c)
            BY <2>1, <3>0, Zenon
        <3> QED BY <1>2, <3>1, <3>2
    <2>2. ASSUME NEW fd \in registered, NEW w \in Writes,
                 p' = del(fd, w), IF w THEN Deregisters(fd) ELSE Stays
          PROVE  PollInv' /\ handling' \in Fds \cup {-1}
        <3>1. w = TRUE /\ p' = Poll!del(p, fd)
            BY <2>2, PollDispatch, Zenon
        <3> QED BY <1>3, <2>2, <3>1, Zenon
    <2>3. ASSUME NEW fd \in registered, NEW m \in Masks, NEW w \in Writes, Stays,
                 p' \in {setMask(fd, m, w), orMask(fd, m, w), andMask(fd, m, w)}
          PROVE  PollInv' /\ handling' \in Fds \cup {-1}
        <3>1. m \in SUBSET Events
            BY PollDispatch
        <3>2. p' \in {Poll!setMask(p, fd, m), Poll!orMask(p, fd, m), Poll!andMask(p, fd, m)}
            BY <2>3, PollDispatch, Zenon
        <3> QED BY <1>4, <2>3, <3>1, <3>2
    <2>4. ASSUME Gets(getNextEvent, IF p.class = "kqueue" THEN Kqueue!left(getNextEvent.p) ELSE {})
          PROVE  PollInv' /\ handling' \in Fds \cup {-1}
        <3>1. p.class # "kqueue" /\ getNextEvent = Poll!getNextEvent(p)
            BY PollDispatch
        <3>2. Gets(Poll!getNextEvent(p), {})
            BY <2>4, <3>1, Zenon
        <3> QED BY <1>5, <3>2
    <2>5. ASSUME NEW r \in [Fds -> Masks],
                 \A fd \in Fds : r[fd] \subseteq IF fd \in registered THEN Wanted(fd) ELSE {},
                 Reports(waitForEvents(r), r)
          PROVE  PollInv' /\ handling' \in Fds \cup {-1}
        <3>1. r \in [Fds -> SUBSET Events]
            BY PollDispatch, Zenon
        <3>2. \A fd \in Fds : r[fd] \subseteq IF fd \in registered THEN Poll!getMask(p, fd) ELSE {}
            BY <2>5, PollDispatch, Zenon
        <3>3. Reports(Poll!waitForEvents(p, r), r)
            BY <2>5, PollDispatch, Zenon
        <3> QED BY <1>6, <3>1, <3>2, <3>3
    <2>6. ASSUME Reports(waitFails, Nothing)
          PROVE  PollInv' /\ handling' \in Fds \cup {-1}
        BY <1>7, <2>6, PollDispatch, Zenon
    <2> QED BY <1>8, <2>1, <2>2, <2>3, <2>4, <2>5, <2>6, Steps, Zenon
<1> QED
    BY <1>1, <1>8 DEF PollInv

\* A new object, and the state at the start.
LEMMA InitClass ==
    ASSUME Init
    PROVE  \/ p \in Poll!init \/ p \in Select!init \/ p \in Devpoll!init
           \/ p \in Kqueue!init \/ p \in Sigio!init
<1>1. PICK c \in Classes :
        p \in CASE c = "poll" -> Poll!init [] c = "select" -> Select!init
                [] c = "devpoll" -> Devpoll!init [] c = "kqueue" -> Kqueue!init
                [] c = "sigio" -> Sigio!init
    BY Zenon DEF Init
<1>2. c \in {"poll", "select", "devpoll", "kqueue", "sigio"}
    BY PollersAssumption
<1>3. CASE c = "poll"
    BY <1>1, <1>3, Zenon
<1>4. CASE c = "select"
    BY <1>1, <1>4, Zenon
<1>5. CASE c = "devpoll"
    BY <1>1, <1>5, Zenon
<1>6. CASE c = "kqueue"
    BY <1>1, <1>6, Zenon
<1>7. CASE c = "sigio"
    BY <1>1, <1>7, Zenon
<1> QED
    BY <1>2, <1>3, <1>4, <1>5, <1>6, <1>7

\* What the classes have in common holds at the start.
LEMMA CommonInit ==
    ASSUME Init, p.class \in {"poll", "select", "devpoll", "kqueue"}
    PROVE  Common /\ registered = {}
<1> QED
    BY DEF Init, Common, registered

\* A new Poller_poll, while nothing is registered.
LEMMA PollNew ==
    ASSUME registered = {}, NEW b \in Poll!init
    PROVE  /\ b \in PollRecord /\ b.class = "poll" /\ PollTables(b)
           /\ b.m_pfds_used = 0 /\ b.m_rfds = 0 /\ b.m_cur_pfdnum = -1
<1>0. N \in Nat /\ Fds = 1..N /\ Poll!Cardinality(Fds) = N
    BY FdsType, PollCardinality DEF N
<1>1. PICK garbage \in {-1, N} :
        b = [class |-> "poll", failed |-> FALSE,
             m_fd2client_used |-> 0,
             m_fd2pfdnum |-> [fd \in Fds |-> garbage],
             m_pfds_used |-> 0,
             m_clients |-> [i \in 0..N - 1 |-> NoClient],
             m_pfds |-> [i \in 0..N - 1 |-> [fd |-> -1, events |-> {}, revents |-> {}]],
             m_rfds |-> 0,
             m_cur_pfdnum |-> -1]
    BY <1>0, PollSlots, Zenon DEF Poll!init
<1> DEFINE T == [fd \in Fds |-> garbage]
           C == [i \in 0..N - 1 |-> NoClient]
           s == [fd |-> -1, events |-> {}, revents |-> {}]
           S == [i \in 0..N - 1 |-> s]
           k == -1
<1>2. T \in [Fds -> Int] /\ C \in [0..N - 1 -> Clients \cup {NoClient}]
      /\ s \in PollSlot /\ 0 \in 0..N /\ 0 \in -1..N /\ k \in -1..N
    BY <1>0 DEF PollSlot
<1>3. S \in [0..N - 1 -> PollSlot]
    BY <1>2
<1>4. b = [class |-> "poll", failed |-> FALSE, m_fd2client_used |-> 0, m_fd2pfdnum |-> T,
           m_pfds_used |-> 0, m_clients |-> C, m_pfds |-> S, m_rfds |-> 0, m_cur_pfdnum |-> k]
    BY <1>1, Zenon
<1> HIDE DEF T, C, S, k
<1>5. /\ b \in PollRecord /\ b.class = "poll"
      /\ b.m_pfds_used = 0 /\ b.m_rfds = 0 /\ b.m_cur_pfdnum = k
    BY <1>2, <1>3, <1>4 DEF PollRecord
<1>6. PollTables(b)
    BY <1>0, <1>5, FS_EmptySet DEF PollTables, PollTablesAgree
<1> QED
    BY <1>5, <1>6 DEF k

\* The object starts empty.
LEMMA PollInit ==
    ASSUME Init, p \in Poll!init
    PROVE  p.class = "poll" /\ PollInv
<1>0. N \in Nat /\ registered = {} /\ due = {} /\ phase = "events" /\ Cardinality({}) = 0
    BY FdsType, FS_EmptySet DEF Init, registered
<1>1. /\ p \in PollRecord /\ p.class = "poll" /\ PollTables(p)
      /\ p.m_pfds_used = 0 /\ p.m_rfds = 0 /\ p.m_cur_pfdnum = -1
    BY <1>0, PollNew
<1>2. Coming(p) = {}
    BY <1>1 DEF Coming
<1>3. PollFresh
    BY <1>0, <1>1, <1>2 DEF PollFresh
<1> QED
    BY <1>0, <1>1, <1>3 DEF PollInv

\* What the project's runs check of the objects of these classes.
Shown == TypeOK /\ TablesAgree /\ GivenToOwner /\ OnlyReported /\ NoneSkipped

\* The part of the type invariant that does not depend on the class.
LEMMA CommonTypes ==
    ASSUME Common
    PROVE  /\ reg \in [Fds -> Clients \cup {NoClient}]
           /\ phase \in {"events", "wait"}
           /\ handling \in Fds \cup {-1}
           /\ due \subseteq Fds
           /\ foreign \in BOOLEAN /\ overflow \in BOOLEAN
           /\ ready \in [Fds -> SUBSET Events]
           /\ Len(signals) <= MaxSignals
           /\ owed \subseteq Fds \X Events
<1> USE DEF Common
<1>1. /\ reg \in [Fds -> Clients \cup {NoClient}]
      /\ phase \in {"events", "wait"}
      /\ handling \in Fds \cup {-1}
      /\ due \subseteq Fds
      /\ ready \in [Fds -> SUBSET Events]
      /\ owed \subseteq Fds \X Events
    BY DEF registered
<1>2. foreign \in BOOLEAN /\ overflow \in BOOLEAN
    BY Zenon
<1>3. Len(signals) <= MaxSignals
    <2>1. signals = <<>>
        OBVIOUS
    <2>2. Len(signals) = 0
        BY <2>1
    <2> QED BY <2>2, PollersAssumption
<1> QED
    BY <1>1, <1>2, <1>3, Zenon

\* The invariant of Poller_poll implies the properties.
LEMMA PollShows ==
    ASSUME Common, PollInv, p.class = "poll"
    PROVE  Shown
<1> USE DEF PollInv
<1>0. N \in Nat /\ Fds = 1..N /\ -1 \notin Fds /\ registered \subseteq Fds
    BY FdsType DEF registered
<1>1. TypeOK
    <2>1. /\ p.m_pfds_used \in 0..Cardinality(Fds) /\ p.m_rfds \in -1..Cardinality(Fds)
          /\ p.m_cur_pfdnum \in -1..Cardinality(Fds)
        BY DEF PollRecord, N
    <2> QED BY <2>1, CommonTypes, Zenon DEF TypeOK
<1>2. TablesAgree
    <2>1. ~p.failed /\ PollTablesAgree(p)
        BY DEF PollRecord, PollTables
    <2> QED BY <2>1, Zenon DEF TablesAgree
<1>3. upcoming = Poll!getNextEvent(p).e /\ Poll!NoEvent.fd = -1
    BY PollDispatch DEF upcoming, Poll!NoEvent
<1>4. CASE upcoming.fd = -1
    BY <1>1, <1>2, <1>4 DEF Shown, GivenToOwner, OnlyReported, NoneSkipped
<1>5. CASE upcoming.fd # -1
    <2> DEFINE r == Poll!getNextEvent(p)
    <2>1. PICK i \in 0..p.m_pfds_used - 1 :
            /\ p.m_rfds >= 1
            /\ r.e = [fd |-> p.m_pfds[i].fd, revents |-> p.m_pfds[i].revents,
                      client |-> p.m_clients[i]]
            /\ p.m_pfds[i].revents # {}
            /\ i < p.m_cur_pfdnum
        <3> HIDE DEF r, PollInv
        <3>1. p \in PollRecord /\ PollTables(p) /\ r = Poll!getNextEvent(p)
            BY DEF PollInv, r
        <3>2. r.e.fd # -1
            BY <1>3, <1>5, <3>1, Zenon
        <3> QED BY <1>3, <3>1, <3>2, PollGiven, Zenon
    <2> DEFINE fd == p.m_pfds[i].fd
    <2>2. upcoming.fd = fd /\ upcoming.revents # {} /\ upcoming.client = p.m_clients[i]
        BY <1>3, <2>1
    <2>3. fd \in registered /\ p.m_fd2pfdnum[fd] = i
        BY DEF PollTables
    <2>4. p.m_clients[i] = reg[fd] /\ reg[fd] # NoClient
        <3>1. PollTablesAgree(p)
            BY DEF PollTables
        <3> QED BY <2>3, <3>1 DEF PollTablesAgree, registered
    <2>5. ~foreign => fd \in due
        <3>1. i \in 0..N - 1
            BY <1>0 DEF PollRecord
        <3>2. i \in Coming(p)
            BY <2>1, <3>1 DEF Coming
        <3> QED BY <3>2 DEF PollFresh
    <2> QED BY <1>1, <1>2, <2>2, <2>4, <2>5 DEF Shown, GivenToOwner, OnlyReported, NoneSkipped
<1> QED
    BY <1>4, <1>5

------------------------------------------------------------------------------
\* An object of Poller_select.
SelectRecord ==
    [class : {"select"}, failed : {FALSE},
     m_clients : [Fds -> Clients \cup {NoClient}],
     m_max_fd : Fds \cup {-1},
     m_cur_fd : -1..N + 1,
     m_rbits : -1..2 * N,
     m_readfds : SUBSET Fds, m_writefds : SUBSET Fds,
     m_testrfds : SUBSET Fds, m_testwfds : SUBSET Fds]

\* Descriptors for reading and for writing, all of them registered.
SelectSets(R, W) ==
    /\ R \subseteq registered /\ W \subseteq registered
    /\ "IN" \notin SelectEvents => R = {}
    /\ "OUT" \notin SelectEvents => W = {}

SelectTables ==
    /\ p.m_clients = reg
    /\ \A fd \in registered : fd <= p.m_max_fd
    /\ p.m_max_fd # -1 => p.m_max_fd \in registered
    /\ SelectSets(p.m_readfds, p.m_writefds)
    /\ SelectSets(p.m_testrfds, p.m_testwfds)

\* The descriptors of a set that the search at cur has still to come to.
After(cur, set) == {fd \in set : fd > cur}

\* What is still to be given out is what select() reported and the search has
\* not come to; m_rbits counts at least the bits of these.
SelectFresh ==
    /\ p.m_rbits = -1 => due = {}
    /\ p.m_rbits # -1 =>
        /\ due = After(p.m_cur_fd, p.m_testrfds) \cup After(p.m_cur_fd, p.m_testwfds)
        /\ p.m_rbits >= Cardinality(After(p.m_cur_fd, p.m_testrfds))
                            + Cardinality(After(p.m_cur_fd, p.m_testwfds))
        /\ phase = "events" => p.m_cur_fd <= N
    /\ phase = "wait" => due = {}

SelectInv == p \in SelectRecord /\ SelectTables /\ SelectFresh

\* q is the object with other clients and other sets to watch.
SelectOther(q, C, x, R, W) ==
    /\ q \in SelectRecord
    /\ q.m_clients = C /\ q.m_max_fd = x /\ q.m_readfds = R /\ q.m_writefds = W
    /\ q.m_cur_fd = p.m_cur_fd /\ q.m_rbits = p.m_rbits

\* The masks change only the two sets to watch.
LEMMA SelectMasked ==
    ASSUME Common, p \in SelectRecord, SelectTables, NEW fd \in registered, NEW m \in SUBSET SelectEvents,
           NEW q, q \in {Select!setMask(p, fd, m), Select!orMask(p, fd, m), Select!andMask(p, fd, m)}
    PROVE  \E R, W \in SUBSET registered :
            /\ SelectSets(R, W)
            /\ SelectOther(q, p.m_clients, p.m_max_fd, R, W)
            /\ q.m_testrfds = p.m_testrfds /\ q.m_testwfds = p.m_testwfds
<1>0. fd \in Fds /\ N \in Nat /\ Fds = 1..N /\ registered \subseteq Fds
    BY FdsType DEF registered
<1>1. p.m_clients[fd] # NoClient
    BY DEF SelectTables, registered
<1>2. ~(p.m_max_fd < fd)
    BY <1>0 DEF SelectTables, SelectRecord
<1>3. \A x : Select!Monitored(p, fd, x) = x
    BY <1>1, <1>2, Zenon DEF Select!Monitored
<1>4. ASSUME NEW R \in SUBSET registered, NEW W \in SUBSET registered, SelectSets(R, W),
             q = [p EXCEPT !.m_readfds = R, !.m_writefds = W]
      PROVE  /\ SelectOther(q, p.m_clients, p.m_max_fd, R, W)
             /\ q.m_testrfds = p.m_testrfds /\ q.m_testwfds = p.m_testwfds
    BY <1>0, <1>4 DEF SelectOther, SelectRecord
<1>5. CASE q = Select!setMask(p, fd, m)
    <2> DEFINE R == Select!With(p.m_readfds, fd, "IN" \in m)
               W == Select!With(p.m_writefds, fd, "OUT" \in m)
    <2>1. q = [p EXCEPT !.m_readfds = R, !.m_writefds = W]
        BY <1>3, <1>5, Zenon DEF Select!setMask
    <2>2. SelectSets(R, W)
        BY DEF SelectSets, SelectTables, Select!With
    <2>3. R \in SUBSET registered /\ W \in SUBSET registered
        BY <2>2 DEF SelectSets
    <2> HIDE DEF R, W
    <2> QED BY <1>4, <2>1, <2>2, <2>3
<1>6. CASE q = Select!orMask(p, fd, m)
    <2> DEFINE R == p.m_readfds \cup {g \in {fd} : "IN" \in m}
               W == p.m_writefds \cup {g \in {fd} : "OUT" \in m}
    <2>1. q = [p EXCEPT !.m_readfds = R, !.m_writefds = W]
        BY <1>3, <1>6, Zenon DEF Select!orMask
    <2>2. SelectSets(R, W)
        BY DEF SelectSets, SelectTables
    <2>3. R \in SUBSET registered /\ W \in SUBSET registered
        BY <2>2 DEF SelectSets
    <2> HIDE DEF R, W
    <2> QED BY <1>4, <2>1, <2>2, <2>3
<1>7. CASE q = Select!andMask(p, fd, m)
    <2> DEFINE R == p.m_readfds \ {g \in {fd} : "IN" \notin m}
               W == p.m_writefds \ {g \in {fd} : "OUT" \notin m}
    <2>1. q = [p EXCEPT !.m_readfds = R, !.m_writefds = W]
        BY <1>3, <1>7, Zenon DEF Select!andMask
    <2>2. SelectSets(R, W)
        BY DEF SelectSets, SelectTables
    <2>3. R \in SUBSET registered /\ W \in SUBSET registered
        BY <2>2 DEF SelectSets
    <2> HIDE DEF R, W
    <2> QED BY <1>4, <2>1, <2>2, <2>3
<1> QED
    BY <1>5, <1>6, <1>7

\* add() enters the client, and raises m_max_fd to the new descriptor.
LEMMA SelectAdded ==
    ASSUME Common, p \in SelectRecord, SelectTables,
           NEW fd \in Fds \ registered, NEW c \in Clients, NEW m \in SUBSET SelectEvents,
           NEW q, q = Select!add(p, fd, c, m)
    PROVE  \E R, W \in SUBSET Fds :
            /\ R \subseteq registered \cup {fd} /\ W \subseteq registered \cup {fd}
            /\ "IN" \notin SelectEvents => R = {}
            /\ "OUT" \notin SelectEvents => W = {}
            /\ SelectOther(q, [reg EXCEPT ![fd] = c],
                           IF fd > p.m_max_fd THEN fd ELSE p.m_max_fd, R, W)
            /\ q.m_testrfds = p.m_testrfds /\ q.m_testwfds = p.m_testwfds
<1> DEFINE x == IF fd > p.m_max_fd THEN fd ELSE p.m_max_fd
           C == [p.m_clients EXCEPT ![fd] = c]
           o == [p EXCEPT !.m_max_fd = x, !.m_clients = C]
           R == Select!With(p.m_readfds, fd, "IN" \in m)
           W == Select!With(p.m_writefds, fd, "OUT" \in m)
<1>0. N \in Nat /\ Fds = 1..N /\ registered \subseteq Fds /\ fd \in Fds
    BY FdsType DEF registered
<1>1. p.m_clients[fd] = NoClient /\ c # NoClient
    BY <1>0, PollersAssumption DEF SelectTables, registered
<1>2. C \in [Fds -> Clients \cup {NoClient}] /\ C[fd] = c
    BY <1>0 DEF SelectRecord
<1>3. x \in Fds \cup {-1} /\ ~(x < fd)
    BY <1>0 DEF SelectRecord
<1>4. q = Select!setMask(o, fd, m)
    <2>1. ~(p.m_clients[fd] # NoClient)
        BY <1>1
    <2>2. q = Select!setMask([p EXCEPT !.m_max_fd = IF fd > @ THEN fd ELSE @,
                                       !.m_clients[fd] = c], fd, m)
        BY <2>1, Zenon DEF Select!add
    <2>3. [p EXCEPT !.m_max_fd = IF fd > @ THEN fd ELSE @, !.m_clients[fd] = c] = o
        BY DEF SelectRecord
    <2> QED BY <2>2, <2>3, Zenon
<1> HIDE DEF x, C
<1>5. /\ o \in SelectRecord /\ o.m_clients = C /\ o.m_max_fd = x
      /\ o.m_readfds = p.m_readfds /\ o.m_writefds = p.m_writefds
      /\ o.m_cur_fd = p.m_cur_fd /\ o.m_rbits = p.m_rbits
      /\ o.m_testrfds = p.m_testrfds /\ o.m_testwfds = p.m_testwfds
    BY <1>2, <1>3 DEF SelectRecord
<1> HIDE DEF o
<1>6. q = [o EXCEPT !.m_readfds = R, !.m_writefds = W]
    <2>1. o.m_clients[fd] # NoClient /\ ~(o.m_max_fd < fd)
        BY <1>1, <1>2, <1>3, <1>5
    <2>2. q = Select!Monitored(o, fd, [o EXCEPT !.m_readfds = R, !.m_writefds = W])
        BY <1>4, <1>5, Zenon DEF Select!setMask
    <2> QED BY <2>1, <2>2, Zenon DEF Select!Monitored
<1>7. /\ R \in SUBSET Fds /\ W \in SUBSET Fds
      /\ R \subseteq registered \cup {fd} /\ W \subseteq registered \cup {fd}
      /\ "IN" \notin SelectEvents => R = {}
      /\ "OUT" \notin SelectEvents => W = {}
    BY <1>0 DEF SelectSets, SelectTables, Select!With
<1> HIDE DEF R, W
<1>8. /\ q \in SelectRecord
      /\ q.m_clients = C /\ q.m_max_fd = x /\ q.m_readfds = R /\ q.m_writefds = W
      /\ q.m_cur_fd = p.m_cur_fd /\ q.m_rbits = p.m_rbits
      /\ q.m_testrfds = p.m_testrfds /\ q.m_testwfds = p.m_testwfds
    BY <1>5, <1>6, <1>7 DEF SelectRecord
<1>9. C = [reg EXCEPT ![fd] = c]
    BY Zenon DEF C, SelectTables
<1>10. SelectOther(q, [reg EXCEPT ![fd] = c], IF fd > p.m_max_fd THEN fd ELSE p.m_max_fd, R, W)
    BY <1>8, <1>9, Zenon DEF SelectOther, x
<1> QED
    BY <1>7, <1>8, <1>10

\* del() takes the descriptor out of the sets, also those that select() filled,
\* and looks for the next lower m_max_fd.
LEMMA SelectDeleted ==
    ASSUME Common, p \in SelectRecord, SelectTables, NEW fd \in registered,
           NEW q, q = Select!del(p, fd)
    PROVE  \E x \in Fds \cup {-1} :
            /\ \A g \in registered \ {fd} : g <= x
            /\ x # -1 => x \in registered \ {fd}
            /\ SelectOther(q, [reg EXCEPT ![fd] = NoClient], x,
                           p.m_readfds \ {fd}, p.m_writefds \ {fd})
            /\ q.m_testrfds = p.m_testrfds \ {fd} /\ q.m_testwfds = p.m_testwfds \ {fd}
<1> DEFINE R == p.m_readfds \ {fd}
           W == p.m_writefds \ {fd}
           TR == p.m_testrfds \ {fd}
           TW == p.m_testwfds \ {fd}
           C == [p.m_clients EXCEPT ![fd] = NoClient]
           x == Select!MaxFd(C)
           o == [p EXCEPT !.m_readfds = R, !.m_writefds = W]
<1>0. N \in Nat /\ Fds = 1..N /\ registered \subseteq Fds /\ fd \in Fds
    BY FdsType DEF registered
<1>1. \A y : Select!Monitored(p, fd, y) = y
    <2>1. p.m_clients[fd] # NoClient
        BY DEF SelectTables, registered
    <2>2. ~(p.m_max_fd < fd)
        BY <1>0 DEF SelectTables, SelectRecord
    <2> QED BY <2>1, <2>2, Zenon DEF Select!Monitored
<1>2. Select!setMask(p, fd, {}) = o
    <2>1. Select!With(p.m_readfds, fd, "IN" \in {}) = R /\ Select!With(p.m_writefds, fd, "OUT" \in {}) = W
        BY DEF Select!With
    <2>2. Select!setMask(p, fd, {}) =
            [p EXCEPT !.m_readfds = Select!With(p.m_readfds, fd, "IN" \in {}),
                      !.m_writefds = Select!With(p.m_writefds, fd, "OUT" \in {})]
        BY <1>1, Zenon DEF Select!setMask
    <2> QED BY <2>1, <2>2, Zenon
<1>3. C \in [Fds -> Clients \cup {NoClient}] /\ C = [reg EXCEPT ![fd] = NoClient]
      /\ \A g \in Fds : C[g] # NoClient <=> g \in registered \ {fd}
    BY <1>0 DEF SelectRecord, SelectTables, registered
<1>4. /\ x \in Fds \cup {-1}
      /\ \A g \in registered \ {fd} : g <= x
      /\ x # -1 => x \in registered \ {fd}
    <2> DEFINE used == {g \in Fds : C[g] # NoClient}
    <2>1. used = registered \ {fd} /\ used \in SUBSET (0..N)
        <3>1. \A g \in Fds : C[g] # NoClient <=> g \in registered \ {fd}
            BY <1>3
        <3> HIDE DEF C
        <3>2. used = registered \ {fd}
            BY <1>0, <3>1
        <3>3. \A g \in registered \ {fd} : g \in 0..N
            BY <1>0
        <3> QED BY <3>2, <3>3
    <2>2. x = IF used = {} THEN -1 ELSE CHOOSE g \in used : \A h \in used : h <= g
        BY Zenon DEF Select!MaxFd
    <2> HIDE DEF used, x
    <2>3. CASE used = {}
        BY <2>1, <2>2, <2>3
    <2>4. CASE used # {}
        <3>1. \E g \in used : \A h \in used : h <= g
            BY <1>0, <2>1, <2>4, HasMaximum
        <3>2. x = CHOOSE g \in used : \A h \in used : h <= g
            BY <2>2, <2>4, Zenon
        <3>3. x \in used /\ \A h \in used : h <= x
            BY <3>1, <3>2, Zenon
        <3> QED BY <1>0, <2>1, <3>3
    <2> QED BY <2>3, <2>4
<1>5. q = [[o EXCEPT !.m_clients = C, !.m_max_fd = x] EXCEPT !.m_testrfds = @ \ {fd}, !.m_testwfds = @ \ {fd}]
    BY <1>1, <1>2, Zenon DEF Select!del, Select!Cleared
<1>6. /\ R \in SUBSET Fds /\ W \in SUBSET Fds /\ TR \in SUBSET Fds /\ TW \in SUBSET Fds
    BY DEF SelectRecord
<1> HIDE DEF C, x, R, W
<1> DEFINE o2 == [o EXCEPT !.m_clients = C, !.m_max_fd = x]
<1>7. /\ o2 \in SelectRecord
      /\ o2.m_clients = C /\ o2.m_max_fd = x /\ o2.m_readfds = R /\ o2.m_writefds = W
      /\ o2.m_cur_fd = p.m_cur_fd /\ o2.m_rbits = p.m_rbits
      /\ o2.m_testrfds = p.m_testrfds /\ o2.m_testwfds = p.m_testwfds
    <2>1. o \in SelectRecord /\ o.m_readfds = R /\ o.m_writefds = W
          /\ o.m_cur_fd = p.m_cur_fd /\ o.m_rbits = p.m_rbits
          /\ o.m_testrfds = p.m_testrfds /\ o.m_testwfds = p.m_testwfds
        BY <1>6 DEF SelectRecord
    <2> HIDE DEF o
    <2> QED BY <1>3, <1>4, <2>1 DEF SelectRecord
<1>8. q = [o2 EXCEPT !.m_testrfds = TR, !.m_testwfds = TW]
    <2>1. q = [o2 EXCEPT !.m_testrfds = o2.m_testrfds \ {fd}, !.m_testwfds = o2.m_testwfds \ {fd}]
        BY <1>5, Zenon
    <2> HIDE DEF o2
    <2> QED BY <1>7, <2>1, Zenon
<1> HIDE DEF o2, TR, TW
<1>9. /\ q \in SelectRecord
      /\ q.m_clients = C /\ q.m_max_fd = x /\ q.m_readfds = R /\ q.m_writefds = W
      /\ q.m_cur_fd = p.m_cur_fd /\ q.m_rbits = p.m_rbits
      /\ q.m_testrfds = TR /\ q.m_testwfds = TW
    BY <1>6, <1>7, <1>8 DEF SelectRecord
<1>10. SelectOther(q, [reg EXCEPT ![fd] = NoClient], x, p.m_readfds \ {fd}, p.m_writefds \ {fd})
    BY <1>3, <1>9, Zenon DEF SelectOther, R, W
<1> QED
    BY <1>4, <1>9, <1>10, Zenon DEF TR, TW

\* The bits that select() left for a descriptor.
SelectBits(fd) == {b \in SelectEvents : \/ b = "IN" /\ fd \in p.m_testrfds
                                        \/ b = "OUT" /\ fd \in p.m_testwfds}

\* getNextEvent gives out the first of what is still to come, if m_rbits says
\* that there is something.
LEMMA SelectGiven ==
    ASSUME p \in SelectRecord, SelectTables, NEW r, r = Select!getNextEvent(p)
    PROVE  \/ p.m_rbits < 1 /\ r.p = p /\ r.e = Select!NoEvent
           \/ /\ p.m_rbits >= 1 /\ r.e = Select!NoEvent
              /\ \A fd \in p.m_testrfds \cup p.m_testwfds : fd <= p.m_cur_fd
              /\ r.p = [p EXCEPT !.m_cur_fd = 1 + IF @ < p.m_max_fd THEN p.m_max_fd ELSE @]
           \/ \E fd \in p.m_testrfds \cup p.m_testwfds :
                /\ p.m_rbits >= 1 /\ fd > p.m_cur_fd
                /\ \A g \in p.m_testrfds \cup p.m_testwfds : g > p.m_cur_fd => g >= fd
                /\ r.p = [p EXCEPT !.m_cur_fd = fd, !.m_rbits = @ - Cardinality(SelectBits(fd))]
                /\ r.e = [fd |-> fd, revents |-> SelectBits(fd), client |-> p.m_clients[fd]]
                /\ SelectBits(fd) # {}
<1> DEFINE found == {fd \in Fds : /\ fd > p.m_cur_fd /\ fd <= p.m_max_fd
                                  /\ SelectBits(fd) # {}}
           fd == CHOOSE f \in found : \A g \in found : f <= g
<1>0. N \in Nat /\ Fds = 1..N /\ registered \subseteq Fds /\ p.m_rbits \in Int
      /\ p.m_cur_fd \in Int
    BY FdsType DEF registered, SelectRecord
<1>1. r = IF p.m_rbits < 1 THEN [p |-> p, e |-> Select!NoEvent]
          ELSE IF found = {}
               THEN [p |-> [p EXCEPT !.m_cur_fd = 1 + IF @ < p.m_max_fd
                                                      THEN p.m_max_fd ELSE @],
                     e |-> Select!NoEvent]
          ELSE [p |-> [p EXCEPT !.m_cur_fd = fd,
                                !.m_rbits = @ - Cardinality(SelectBits(fd))],
                e |-> [fd |-> fd, revents |-> SelectBits(fd), client |-> p.m_clients[fd]]]
    BY SelectCardinality, Zenon DEF Select!getNextEvent, SelectBits
<1>2. \A g \in Fds : SelectBits(g) # {} <=> g \in p.m_testrfds \cup p.m_testwfds
    BY DEF SelectBits, SelectTables, SelectSets
<1>3. \A g : g \in found <=> g \in p.m_testrfds \cup p.m_testwfds /\ g > p.m_cur_fd
    <2>1. \A g \in p.m_testrfds \cup p.m_testwfds : g \in Fds /\ g <= p.m_max_fd
        BY <1>0 DEF SelectTables, SelectSets
    <2> QED BY <1>2, <2>1
<1> HIDE DEF found
<1>a. \A x, y : [p |-> x, e |-> y].p = x /\ [p |-> x, e |-> y].e = y
    OBVIOUS
<1>4. CASE p.m_rbits < 1
    <2>1. r = [p |-> p, e |-> Select!NoEvent]
        BY <1>1, <1>4, Zenon
    <2> QED BY <1>4, <1>a, <2>1, Zenon
<1>5. CASE p.m_rbits >= 1 /\ found = {}
    <2> DEFINE o == [p EXCEPT !.m_cur_fd = 1 + IF @ < p.m_max_fd THEN p.m_max_fd ELSE @]
    <2>1. ~(p.m_rbits < 1)
        BY <1>0, <1>5
    <2>2. r = [p |-> o, e |-> Select!NoEvent]
        BY <1>1, <1>5, <2>1, Zenon
    <2> HIDE DEF o
    <2>3. r.p = o /\ r.e = Select!NoEvent
        BY <1>a, <2>2
    <2>4. \A g \in p.m_testrfds \cup p.m_testwfds : g <= p.m_cur_fd
        <3> SUFFICES ASSUME NEW g \in p.m_testrfds \cup p.m_testwfds PROVE g <= p.m_cur_fd
            OBVIOUS
        <3>1. ~(g > p.m_cur_fd)
            BY <1>3, <1>5, Zenon
        <3>2. g \in registered
            BY DEF SelectTables, SelectSets
        <3>3. g \in Int
            BY <1>0, <3>2
        <3> QED BY <1>0, <3>1, <3>3
    <2> QED BY <1>5, <2>3, <2>4, Zenon DEF o
<1>6. CASE p.m_rbits >= 1 /\ found # {}
    <2>1. found \in SUBSET Nat
        BY <1>0 DEF found
    <2>2. \E f \in found : \A g \in found : f <= g
        BY <1>6, <2>1, HasMinimum
    <2>3. fd \in found /\ \A g \in found : fd <= g
        BY <2>2, Zenon
    <2>4. ~(p.m_rbits < 1) /\ found # {}
        BY <1>0, <1>6
    <2>5. r = [p |-> [p EXCEPT !.m_cur_fd = fd, !.m_rbits = @ - Cardinality(SelectBits(fd))],
               e |-> [fd |-> fd, revents |-> SelectBits(fd), client |-> p.m_clients[fd]]]
        BY <1>1, <2>4, Zenon
    <2> HIDE DEF fd
    <2>6. /\ r.p = [p EXCEPT !.m_cur_fd = fd, !.m_rbits = @ - Cardinality(SelectBits(fd))]
          /\ r.e = [fd |-> fd, revents |-> SelectBits(fd), client |-> p.m_clients[fd]]
        <3> DEFINE o == [p EXCEPT !.m_cur_fd = fd, !.m_rbits = @ - Cardinality(SelectBits(fd))]
                   e == [fd |-> fd, revents |-> SelectBits(fd), client |-> p.m_clients[fd]]
        <3>1. r = [p |-> o, e |-> e]
            BY <2>5, Zenon
        <3> HIDE DEF o, e
        <3>2. r.p = o /\ r.e = e
            BY <1>a, <3>1
        <3> QED BY <3>2, Zenon DEF o, e
    <2>7. fd \in p.m_testrfds \cup p.m_testwfds /\ fd > p.m_cur_fd /\ SelectBits(fd) # {}
        BY <1>3, <2>3 DEF found
    <2>8. \A g \in p.m_testrfds \cup p.m_testwfds : g > p.m_cur_fd => g >= fd
        BY <1>0, <1>3, <2>1, <2>3
    <2> QED BY <1>6, <2>6, <2>7, <2>8, Zenon
<1>7. p.m_rbits < 1 \/ p.m_rbits >= 1
    BY <1>0
<1> QED
    BY <1>4, <1>5, <1>6, <1>7, Zenon

\* What is still to come, and how much of it there is.
LEMMA AfterCount ==
    ASSUME NEW T \in SUBSET Fds, NEW cur \in Int
    PROVE  /\ IsFiniteSet(After(cur, T)) /\ Cardinality(After(cur, T)) \in 0..N
           /\ Cardinality(After(cur, T)) = 0 => After(cur, T) = {}
<1>1. After(cur, T) \in SUBSET Fds
    BY DEF After
<1>2. IsFiniteSet(After(cur, T)) /\ Cardinality(After(cur, T)) <= N
    BY <1>1, FdsType, FS_Subset DEF N
<1> QED
    BY <1>2, FdsType, FS_CardinalityType, FS_EmptySet

\* Going on to the first element after cur leaves the others.
LEMMA AfterFirst ==
    ASSUME NEW T \in SUBSET Fds, NEW cur \in Int, NEW fd \in Fds, fd > cur,
           \A g \in T : g > cur => g >= fd
    PROVE  /\ After(fd, T) = After(cur, T) \ {fd}
           /\ Cardinality(After(fd, T)) = Cardinality(After(cur, T)) - IF fd \in T THEN 1 ELSE 0
<1>0. Fds \subseteq Int
    BY FdsType
<1>1. After(fd, T) = After(cur, T) \ {fd}
    <2>1. ASSUME NEW g \in T PROVE g > fd <=> g > cur /\ g # fd
        <3>1. g \in Int /\ fd \in Int
            BY <1>0
        <3> QED BY <3>1
    <2> QED BY <2>1 DEF After
<1>2. fd \in After(cur, T) <=> fd \in T
    BY DEF After
<1>3. CASE fd \in T
    BY <1>1, <1>2, <1>3, AfterCount, FS_RemoveElement
<1>4. CASE fd \notin T
    <2>1. After(fd, T) = After(cur, T)
        BY <1>1, <1>2, <1>4
    <2>2. Cardinality(After(cur, T)) \in Int
        <3> DEFINE c == Cardinality(After(cur, T))
        <3>1. c \in 0..N
            BY AfterCount
        <3> HIDE DEF c
        <3>2. c \in Int
            BY <3>1, FdsType
        <3> QED BY <3>2 DEF c
    <2>3. \A c \in Int : c = c - 0
        OBVIOUS
    <2>4. (IF fd \in T THEN 1 ELSE 0) = 0
        BY <1>4
    <2>5. Cardinality(After(fd, T)) = Cardinality(After(cur, T)) - 0
        BY <2>1, <2>2, <2>3, Zenon
    <2> QED BY <1>1, <2>4, <2>5, Zenon
<1> QED
    BY <1>3, <1>4

\* A deleted descriptor is no longer to come.
LEMMA AfterDeleted ==
    ASSUME NEW T \in SUBSET Fds, NEW cur \in Int, NEW fd
    PROVE  /\ After(cur, T \ {fd}) = After(cur, T) \ {fd}
           /\ Cardinality(After(cur, T \ {fd})) <= Cardinality(After(cur, T))
<1>1. After(cur, T \ {fd}) = After(cur, T) \ {fd}
    BY DEF After
<1>2. After(cur, T \ {fd}) \subseteq After(cur, T)
    BY <1>1
<1> QED
    BY <1>1, <1>2, AfterCount, FS_Subset

\* getNextEvent counts off the bits it gives out.
LEMMA SelectBitsCount ==
    ASSUME SelectTables, NEW fd
    PROVE  Cardinality(SelectBits(fd)) = (IF fd \in p.m_testrfds THEN 1 ELSE 0)
                                           + (IF fd \in p.m_testwfds THEN 1 ELSE 0)
<1>1. (fd \in p.m_testrfds => "IN" \in SelectEvents) /\ (fd \in p.m_testwfds => "OUT" \in SelectEvents)
    BY DEF SelectTables, SelectSets
<1>2. CASE fd \in p.m_testrfds /\ fd \in p.m_testwfds
    <2>1. SelectBits(fd) = {"IN"} \cup {"OUT"}
        BY <1>1, <1>2 DEF SelectBits
    <2>2. IsFiniteSet({"IN"}) /\ Cardinality({"IN"}) = 1
        BY FS_Singleton
    <2>3. Cardinality({"IN"} \cup {"OUT"}) = 2
        BY <2>2, FS_AddElement
    <2> QED BY <1>2, <2>1, <2>3
<1>3. CASE fd \in p.m_testrfds /\ fd \notin p.m_testwfds
    <2>1. SelectBits(fd) = {"IN"}
        BY <1>1, <1>3 DEF SelectBits
    <2> QED BY <1>3, <2>1, FS_Singleton
<1>4. CASE fd \notin p.m_testrfds /\ fd \in p.m_testwfds
    <2>1. SelectBits(fd) = {"OUT"}
        BY <1>1, <1>4 DEF SelectBits
    <2>2. Cardinality({"OUT"}) = 1
        BY FS_Singleton
    <2> QED BY <1>4, <2>1, <2>2
<1>5. CASE fd \notin p.m_testrfds /\ fd \notin p.m_testwfds
    <2>1. SelectBits(fd) = {}
        BY <1>5 DEF SelectBits
    <2> QED BY <1>5, <2>1, FS_EmptySet
<1> QED
    BY <1>2, <1>3, <1>4, <1>5

\* q is the object after select() has found the set found ready.
SelectFound(q, found) ==
    /\ q \in SelectRecord
    /\ q.m_clients = p.m_clients /\ q.m_max_fd = p.m_max_fd
    /\ q.m_readfds = p.m_readfds /\ q.m_writefds = p.m_writefds
    /\ SelectSets(q.m_testrfds, q.m_testwfds)
    /\ q.m_testrfds \cup q.m_testwfds = found
    /\ q.m_cur_fd = -1
    /\ q.m_rbits = Cardinality(q.m_testrfds) + Cardinality(q.m_testwfds)

\* select() leaves in the two sets what is ready.
LEMMA SelectWaited ==
    ASSUME p \in SelectRecord, SelectTables, NEW r \in [Fds -> SUBSET SelectEvents],
           \A fd \in Fds : r[fd] \subseteq
                IF fd \in registered
                THEN {b \in {"IN"} : fd \in p.m_readfds} \cup {b \in {"OUT"} : fd \in p.m_writefds}
                ELSE {}
    PROVE  SelectFound(Select!waitForEvents(p, r), {fd \in Fds : r[fd] # {}})
<1> DEFINE R == {fd \in p.m_readfds : "IN" \in r[fd]}
           W == {fd \in p.m_writefds : "OUT" \in r[fd]}
           n == Cardinality(R) + Cardinality(W)
           k == -1
           q == Select!waitForEvents(p, r)
<1>0. N \in Nat /\ IsFiniteSet(Fds) /\ registered \subseteq Fds
    BY FdsType DEF registered
<1>1. q = [[p EXCEPT !.m_testrfds = R, !.m_testwfds = W, !.m_rbits = n] EXCEPT !.m_cur_fd = k]
    BY SelectCardinality, Zenon DEF Select!waitForEvents, Select!Selected
<1>2. SelectSets(R, W) /\ R \in SUBSET Fds /\ W \in SUBSET Fds
    BY <1>0 DEF SelectTables, SelectSets
<1>3. \A fd \in Fds : r[fd] # {} <=> fd \in R \cup W
    <2> SUFFICES ASSUME NEW fd \in Fds PROVE r[fd] # {} <=> fd \in R \cup W
        OBVIOUS
    <2>1. r[fd] \subseteq {b \in {"IN"} : fd \in p.m_readfds} \cup {b \in {"OUT"} : fd \in p.m_writefds}
        OBVIOUS
    <2> QED BY <2>1
<1>4. {fd \in Fds : r[fd] # {}} = R \cup W
    <2> HIDE DEF R, W
    <2> QED BY <1>2, <1>3
<1>5. n \in -1..2 * N /\ k \in -1..N + 1
    <2> HIDE DEF R, W
    <2>1. Cardinality(R) <= N /\ Cardinality(W) <= N /\ IsFiniteSet(R) /\ IsFiniteSet(W)
        BY <1>0, <1>2, FS_Subset DEF N
    <2>2. Cardinality(R) \in Nat /\ Cardinality(W) \in Nat
        BY <2>1, FS_CardinalityType
    <2> QED BY <1>0, <2>1, <2>2
<1> HIDE DEF R, W, n, k, q
<1>6. /\ q \in SelectRecord
      /\ q.m_clients = p.m_clients /\ q.m_max_fd = p.m_max_fd
      /\ q.m_readfds = p.m_readfds /\ q.m_writefds = p.m_writefds
      /\ q.m_testrfds = R /\ q.m_testwfds = W /\ q.m_cur_fd = k /\ q.m_rbits = n
    <2> DEFINE o == [p EXCEPT !.m_testrfds = R, !.m_testwfds = W, !.m_rbits = n]
    <2>1. /\ o \in SelectRecord
          /\ o.m_clients = p.m_clients /\ o.m_max_fd = p.m_max_fd
          /\ o.m_readfds = p.m_readfds /\ o.m_writefds = p.m_writefds
          /\ o.m_testrfds = R /\ o.m_testwfds = W /\ o.m_rbits = n
        BY <1>2, <1>5 DEF SelectRecord
    <2>2. q = [o EXCEPT !.m_cur_fd = k]
        BY <1>1, Zenon
    <2> HIDE DEF o
    <2> QED BY <1>5, <2>1, <2>2 DEF SelectRecord
<1>7. SelectFound(q, R \cup W)
    BY <1>2, <1>6, Zenon DEF SelectFound, n, k
<1> QED
    BY <1>4, <1>7, Zenon DEF q

\* Every step keeps the invariant of Poller_select.
LEMMA SelectStays ==
    ASSUME Common, SelectInv, p.class = "select", [Next]_vars
    PROVE  SelectInv' /\ handling' \in Fds \cup {-1}
<1> USE DEF SelectInv
<1>0. N \in Nat /\ Fds = 1..N /\ -1 \notin Fds /\ registered \subseteq Fds
      /\ reg \in [Fds -> Clients \cup {NoClient}]
    BY FdsType DEF registered, Common
<1>a. due \subseteq registered /\ handling \in Fds \cup {-1}
    BY DEF Common
<1>b. /\ p.m_testrfds \in SUBSET Fds /\ p.m_testwfds \in SUBSET Fds
      /\ p.m_cur_fd \in -1..N + 1 /\ p.m_rbits \in -1..2 * N
    BY DEF SelectRecord
<1>c. p.m_cur_fd \in Int /\ p.m_rbits \in Int
    BY <1>0, <1>b
<1>1. CASE UNCHANGED vars
    BY <1>1, <1>a DEF vars, ghosts, SelectTables, SelectSets, SelectFresh, registered
<1>2. ASSUME NEW fd \in Fds \ registered, NEW c \in Clients, NEW m \in SUBSET SelectEvents,
             Registers(fd, c), p' = Select!add(p, fd, c, m)
      PROVE  SelectInv' /\ handling' \in Fds \cup {-1}
    <2> DEFINE x == IF fd > p.m_max_fd THEN fd ELSE p.m_max_fd
    <2>1. PICK R, W \in SUBSET Fds :
            /\ R \subseteq registered \cup {fd} /\ W \subseteq registered \cup {fd}
            /\ "IN" \notin SelectEvents => R = {}
            /\ "OUT" \notin SelectEvents => W = {}
            /\ SelectOther(p', [reg EXCEPT ![fd] = c], x, R, W)
            /\ p'.m_testrfds = p.m_testrfds /\ p'.m_testwfds = p.m_testwfds
        BY <1>2, SelectAdded
    <2>2. /\ reg' = [reg EXCEPT ![fd] = c] /\ UNCHANGED <<phase, handling, due, foreign>>
        BY <1>2 DEF Registers
    <2>3. registered' = registered \cup {fd}
        BY <1>0, <2>2, RegisterOne
    <2>4. p'.m_clients = reg'
        BY <2>1, <2>2, Zenon DEF SelectOther
    <2>5. p'.m_max_fd = x /\ x \in registered' /\ \A g \in registered' : g <= x
        <3>1. p.m_max_fd \in Fds \cup {-1} /\ \A g \in registered : g <= p.m_max_fd
            BY DEF SelectRecord, SelectTables
        <3>2. p.m_max_fd # -1 => p.m_max_fd \in registered
            BY DEF SelectTables
        <3>3. p'.m_max_fd = x
            BY <2>1, Zenon DEF SelectOther
        <3>4. x \in registered'
            BY <1>0, <2>3, <3>1, <3>2
        <3>5. ASSUME NEW g \in registered' PROVE g <= x
            BY <1>0, <2>3, <3>1
        <3> QED BY <3>3, <3>4, <3>5
    <2> HIDE DEF x
    <2>6. SelectSets(p.m_readfds, p.m_writefds)'
        <3>1. p'.m_readfds = R /\ p'.m_writefds = W
            BY <2>1 DEF SelectOther
        <3> QED BY <2>1, <2>3, <3>1 DEF SelectSets
    <2>7. SelectSets(p.m_testrfds, p.m_testwfds)'
        BY <2>1, <2>3 DEF SelectSets, SelectTables
    <2>8. SelectTables'
        BY <2>4, <2>5, <2>6, <2>7 DEF SelectTables
    <2>9. SelectFresh'
        <3>1. p'.m_cur_fd = p.m_cur_fd /\ p'.m_rbits = p.m_rbits
            BY <2>1 DEF SelectOther
        <3> QED BY <2>1, <2>2, <3>1, Zenon DEF SelectFresh
    <2>10. p' \in SelectRecord
        BY <2>1 DEF SelectOther
    <2> QED BY <1>a, <2>2, <2>8, <2>9, <2>10
<1>3. ASSUME NEW fd \in registered, Deregisters(fd), p' = Select!del(p, fd)
      PROVE  SelectInv' /\ handling' \in Fds \cup {-1}
    <2>1. PICK x \in Fds \cup {-1} :
            /\ \A g \in registered \ {fd} : g <= x
            /\ x # -1 => x \in registered \ {fd}
            /\ SelectOther(p', [reg EXCEPT ![fd] = NoClient], x,
                           p.m_readfds \ {fd}, p.m_writefds \ {fd})
            /\ p'.m_testrfds = p.m_testrfds \ {fd} /\ p'.m_testwfds = p.m_testwfds \ {fd}
        BY <1>3, SelectDeleted
    <2>2. /\ reg' = [reg EXCEPT ![fd] = NoClient] /\ due' = due \ {fd}
          /\ UNCHANGED <<phase, handling>>
        BY <1>3 DEF Deregisters
    <2>3. registered' = registered \ {fd}
        BY <1>0, <2>2, DeregisterOne
    <2>4. p'.m_clients = reg'
        BY <2>1, <2>2, Zenon DEF SelectOther
    <2>5. /\ p'.m_max_fd = x
          /\ p'.m_readfds = p.m_readfds \ {fd} /\ p'.m_writefds = p.m_writefds \ {fd}
          /\ p'.m_cur_fd = p.m_cur_fd /\ p'.m_rbits = p.m_rbits /\ p' \in SelectRecord
        BY <2>1, Zenon DEF SelectOther
    <2>6. SelectSets(p.m_readfds, p.m_writefds)'
        BY <2>3, <2>5 DEF SelectSets, SelectTables
    <2>7. SelectSets(p.m_testrfds, p.m_testwfds)'
        BY <2>1, <2>3 DEF SelectSets, SelectTables
    <2>8. SelectTables'
        BY <2>1, <2>3, <2>4, <2>5, <2>6, <2>7 DEF SelectTables
    <2> DEFINE A(T) == After(p.m_cur_fd, T)
               tr == p.m_testrfds
               tw == p.m_testwfds
    <2>9. /\ A(tr \ {fd}) = A(tr) \ {fd} /\ A(tw \ {fd}) = A(tw) \ {fd}
          /\ Cardinality(A(tr \ {fd})) <= Cardinality(A(tr))
          /\ Cardinality(A(tw \ {fd})) <= Cardinality(A(tw))
        BY <1>b, <1>c, AfterDeleted
    <2>10. /\ Cardinality(A(tr)) \in Int /\ Cardinality(A(tw)) \in Int
           /\ Cardinality(A(tr \ {fd})) \in Int /\ Cardinality(A(tw \ {fd})) \in Int
        <3>1. \A T \in SUBSET Fds : Cardinality(A(T)) \in 0..N
            BY <1>c, AfterCount
        <3>2. \A n \in 0..N : n \in Int
            BY <1>0
        <3>3. tr \ {fd} \in SUBSET Fds /\ tw \ {fd} \in SUBSET Fds
            BY <1>b
        <3> QED BY <1>b, <3>1, <3>2, <3>3, Zenon
    <2>11. SelectFresh'
        <3>1. p'.m_rbits = -1 => due' = {}
            BY <2>2, <2>5 DEF SelectFresh
        <3>2. phase' = "wait" => due' = {}
            BY <2>2 DEF SelectFresh
        <3>3. ASSUME p'.m_rbits # -1
              PROVE  /\ due' = After(p'.m_cur_fd, p'.m_testrfds) \cup After(p'.m_cur_fd, p'.m_testwfds)
                     /\ p'.m_rbits >= Cardinality(After(p'.m_cur_fd, p'.m_testrfds))
                                         + Cardinality(After(p'.m_cur_fd, p'.m_testwfds))
                     /\ phase' = "events" => p'.m_cur_fd <= N
            <4>1. /\ due = A(tr) \cup A(tw)
                  /\ p.m_rbits >= Cardinality(A(tr)) + Cardinality(A(tw))
                  /\ phase = "events" => p.m_cur_fd <= N
                BY <2>5, <3>3 DEF SelectFresh
            <4>2. /\ After(p'.m_cur_fd, p'.m_testrfds) = A(tr \ {fd})
                  /\ After(p'.m_cur_fd, p'.m_testwfds) = A(tw \ {fd})
                BY <2>1, <2>5, Zenon
            <4>3. due' = A(tr \ {fd}) \cup A(tw \ {fd})
                <5> HIDE DEF A
                <5> QED BY <2>2, <2>9, <4>1
            <4>4. p.m_rbits >= Cardinality(A(tr \ {fd})) + Cardinality(A(tw \ {fd}))
                <5> HIDE DEF A
                <5> QED BY <1>c, <2>9, <2>10, <4>1
            <4> QED BY <2>2, <2>5, <4>1, <4>2, <4>3, <4>4, Zenon
        <3> QED BY <3>1, <3>2, <3>3, Zenon DEF SelectFresh
    <2> QED BY <1>a, <2>2, <2>5, <2>8, <2>11
<1>4. ASSUME NEW fd \in registered, NEW m \in SUBSET SelectEvents, Stays,
             p' \in {Select!setMask(p, fd, m), Select!orMask(p, fd, m), Select!andMask(p, fd, m)}
      PROVE  SelectInv' /\ handling' \in Fds \cup {-1}
    <2>1. PICK R, W \in SUBSET registered :
            /\ SelectSets(R, W)
            /\ SelectOther(p', p.m_clients, p.m_max_fd, R, W)
            /\ p'.m_testrfds = p.m_testrfds /\ p'.m_testwfds = p.m_testwfds
        BY <1>4, SelectMasked
    <2>2. UNCHANGED <<reg, phase, handling, due, foreign>> /\ registered' = registered
        BY <1>4 DEF Stays, registered
    <2>3. /\ p' \in SelectRecord
          /\ p'.m_clients = p.m_clients /\ p'.m_max_fd = p.m_max_fd
          /\ p'.m_readfds = R /\ p'.m_writefds = W
          /\ p'.m_cur_fd = p.m_cur_fd /\ p'.m_rbits = p.m_rbits
        BY <2>1 DEF SelectOther
    <2>4. SelectSets(p.m_readfds, p.m_writefds)' /\ SelectSets(p.m_testrfds, p.m_testwfds)'
        BY <2>1, <2>2, <2>3 DEF SelectSets, SelectTables
    <2>5. SelectTables'
        BY <2>2, <2>3, <2>4 DEF SelectTables
    <2>6. SelectFresh'
        BY <2>1, <2>2, <2>3, Zenon DEF SelectFresh
    <2> QED BY <1>a, <2>2, <2>3, <2>5, <2>6
<1>5. ASSUME Gets(Select!getNextEvent(p), {})
      PROVE  SelectInv' /\ handling' \in Fds \cup {-1}
    <2> DEFINE r == Select!getNextEvent(p)
               tr == p.m_testrfds
               tw == p.m_testwfds
    <2>1. /\ phase = "events" /\ p' = r.p /\ handling' = r.e.fd
          /\ phase' = IF r.e.fd = -1 THEN "wait" ELSE "events"
          /\ due' = due \ {r.e.fd} /\ reg' = reg
          /\ registered' = registered
        BY <1>5 DEF Gets, registered
    <2>2. Select!NoEvent.fd = -1
        BY DEF Select!NoEvent
    <2>3. \A T \in SUBSET Fds, k \in Int :
            Cardinality(After(k, T)) \in Int /\ Cardinality(After(k, T)) >= 0
        <3> SUFFICES ASSUME NEW T \in SUBSET Fds, NEW k \in Int
                     PROVE  Cardinality(After(k, T)) \in Int /\ Cardinality(After(k, T)) >= 0
            OBVIOUS
        <3> DEFINE c == Cardinality(After(k, T))
        <3>1. c \in 0..N
            BY AfterCount
        <3> HIDE DEF c
        <3>2. c \in Int /\ c >= 0
            BY <1>0, <3>1
        <3> QED BY <3>2 DEF c
    <2>4. /\ Cardinality(After(p.m_cur_fd, tr)) \in Int /\ Cardinality(After(p.m_cur_fd, tr)) >= 0
          /\ Cardinality(After(p.m_cur_fd, tw)) \in Int /\ Cardinality(After(p.m_cur_fd, tw)) >= 0
        BY <1>b, <1>c, <2>3
    <2>5. CASE p.m_rbits < 1 /\ r.p = p /\ r.e = Select!NoEvent
        <3>1. p' = p /\ handling' = -1 /\ due' = due /\ phase' = "wait"
            BY <1>0, <1>a, <2>1, <2>2, <2>5
        <3>2. due = {}
            <4>1. CASE p.m_rbits = -1
                BY <4>1 DEF SelectFresh
            <4>2. CASE p.m_rbits # -1
                <5>1. /\ due = After(p.m_cur_fd, tr) \cup After(p.m_cur_fd, tw)
                      /\ p.m_rbits >= Cardinality(After(p.m_cur_fd, tr))
                                        + Cardinality(After(p.m_cur_fd, tw))
                    BY <4>2 DEF SelectFresh
                <5>2. Cardinality(After(p.m_cur_fd, tr)) = 0 /\ Cardinality(After(p.m_cur_fd, tw)) = 0
                    BY <1>c, <2>4, <2>5, <5>1
                <5>3. After(p.m_cur_fd, tr) = {} /\ After(p.m_cur_fd, tw) = {}
                    BY <1>b, <1>c, <5>2, AfterCount
                <5> QED BY <5>1, <5>3
            <4> QED BY <4>1, <4>2
        <3>3. SelectTables'
            BY <2>1, <3>1 DEF SelectTables, SelectSets
        <3>4. SelectFresh'
            BY <2>1, <3>1, <3>2 DEF SelectFresh
        <3> QED BY <3>1, <3>3, <3>4
    <2>6. CASE /\ p.m_rbits >= 1 /\ r.e = Select!NoEvent
               /\ \A fd \in p.m_testrfds \cup p.m_testwfds : fd <= p.m_cur_fd
               /\ r.p = [p EXCEPT !.m_cur_fd = 1 + IF @ < p.m_max_fd THEN p.m_max_fd ELSE @]
        <3>1. handling' = -1 /\ due' = due /\ phase' = "wait"
            BY <1>0, <1>a, <2>1, <2>2, <2>6
        <3> DEFINE k == 1 + IF p.m_cur_fd < p.m_max_fd THEN p.m_max_fd ELSE p.m_cur_fd
        <3>2. p.m_rbits # -1 /\ p.m_cur_fd <= N
            BY <1>c, <2>1, <2>6 DEF SelectFresh
        <3>3. k \in -1..N + 1 /\ k > p.m_cur_fd
            <4>1. p.m_max_fd \in Fds \cup {-1}
                BY DEF SelectRecord
            <4> QED BY <1>0, <1>b, <3>2, <4>1
        <3>4. p' = [p EXCEPT !.m_cur_fd = k]
            BY <2>1, <2>6, Zenon
        <3> HIDE DEF k
        <3>5. /\ p' \in SelectRecord
              /\ p'.m_clients = p.m_clients /\ p'.m_max_fd = p.m_max_fd
              /\ p'.m_readfds = p.m_readfds /\ p'.m_writefds = p.m_writefds
              /\ p'.m_testrfds = tr /\ p'.m_testwfds = tw
              /\ p'.m_cur_fd = k /\ p'.m_rbits = p.m_rbits
            BY <3>3, <3>4 DEF SelectRecord
        <3>6. /\ After(p.m_cur_fd, tr) = {} /\ After(p.m_cur_fd, tw) = {}
              /\ After(k, tr) = {} /\ After(k, tw) = {}
            <4>1. ASSUME NEW fd \in tr \cup tw PROVE ~(fd > p.m_cur_fd) /\ ~(fd > k)
                <5>1. fd \in Int /\ k \in Int /\ fd <= p.m_cur_fd
                    BY <1>0, <1>b, <2>6, <3>3
                <5> QED BY <1>c, <3>3, <5>1
            <4> QED BY <4>1 DEF After
        <3>7. due = {}
            BY <3>2, <3>6 DEF SelectFresh
        <3>8. Cardinality({}) = 0
            BY FS_EmptySet
        <3>9. SelectTables'
            BY <2>1, <3>5 DEF SelectTables, SelectSets
        <3>10. SelectFresh'
            BY <1>c, <2>6, <3>1, <3>5, <3>6, <3>7, <3>8 DEF SelectFresh
        <3> QED BY <3>1, <3>5, <3>9, <3>10
    <2>7. ASSUME NEW fd \in p.m_testrfds \cup p.m_testwfds,
                 /\ p.m_rbits >= 1 /\ fd > p.m_cur_fd
                 /\ \A g \in p.m_testrfds \cup p.m_testwfds : g > p.m_cur_fd => g >= fd
                 /\ r.p = [p EXCEPT !.m_cur_fd = fd, !.m_rbits = @ - Cardinality(SelectBits(fd))]
                 /\ r.e = [fd |-> fd, revents |-> SelectBits(fd), client |-> p.m_clients[fd]]
          PROVE  SelectInv' /\ handling' \in Fds \cup {-1}
        <3>1. fd \in Fds /\ fd \in Int /\ fd # -1 /\ fd \in -1..N + 1
            BY <1>0, <1>b
        <3>2. r.e.fd = fd
            BY <2>7
        <3>3. handling' = fd /\ phase' = "events" /\ due' = due \ {fd}
            BY <2>1, <3>1, <3>2
        <3> DEFINE cr == Cardinality(After(p.m_cur_fd, tr))
                   cw == Cardinality(After(p.m_cur_fd, tw))
                   br == IF fd \in tr THEN 1 ELSE 0
                   bw == IF fd \in tw THEN 1 ELSE 0
                   n == p.m_rbits - Cardinality(SelectBits(fd))
        <3>4. /\ due = After(p.m_cur_fd, tr) \cup After(p.m_cur_fd, tw)
              /\ p.m_rbits >= cr + cw
            BY <1>c, <2>7 DEF SelectFresh
        <3>5. /\ After(fd, tr) = After(p.m_cur_fd, tr) \ {fd} /\ After(fd, tw) = After(p.m_cur_fd, tw) \ {fd}
              /\ Cardinality(After(fd, tr)) = cr - br /\ Cardinality(After(fd, tw)) = cw - bw
            BY <1>b, <1>c, <2>7, <3>1, AfterFirst, ZenonT(60)
        <3>6. Cardinality(SelectBits(fd)) = br + bw
            BY SelectBitsCount
        <3>7. /\ Cardinality(After(fd, tr)) \in Int /\ Cardinality(After(fd, tr)) >= 0
              /\ Cardinality(After(fd, tw)) \in Int /\ Cardinality(After(fd, tw)) >= 0
            BY <1>b, <2>3, <3>1
        <3>8. n >= Cardinality(After(fd, tr)) + Cardinality(After(fd, tw)) /\ n \in -1..2 * N /\ n # -1
            <4>1. br \in 0..1 /\ bw \in 0..1 /\ cr \in Int /\ cw \in Int
                BY <2>4
            <4>2. n = p.m_rbits - (br + bw)
                BY <3>6, Zenon
            <4> HIDE DEF br, bw, cr, cw, n
            <4>3. n >= (cr - br) + (cw - bw) /\ cr - br >= 0 /\ cw - bw >= 0
                BY <1>c, <3>4, <3>5, <3>7, <4>1, <4>2
            <4>4. n \in Int /\ n >= 0 /\ n <= p.m_rbits
                BY <1>c, <4>1, <4>2, <4>3
            <4> QED BY <1>0, <1>b, <3>5, <4>3, <4>4
        <3>9. p' = [p EXCEPT !.m_cur_fd = fd, !.m_rbits = n]
            BY <2>1, <2>7, Zenon
        <3> HIDE DEF n
        <3>10. /\ p' \in SelectRecord
               /\ p'.m_clients = p.m_clients /\ p'.m_max_fd = p.m_max_fd
               /\ p'.m_readfds = p.m_readfds /\ p'.m_writefds = p.m_writefds
               /\ p'.m_testrfds = tr /\ p'.m_testwfds = tw
               /\ p'.m_cur_fd = fd /\ p'.m_rbits = n
            BY <3>1, <3>8, <3>9 DEF SelectRecord
        <3>11. SelectTables'
            BY <2>1, <3>10 DEF SelectTables, SelectSets
        <3>12. due' = After(fd, tr) \cup After(fd, tw)
            BY <3>3, <3>4, <3>5
        <3>13. fd <= N
            BY <1>0, <3>1
        <3>14. SelectFresh'
            BY <3>3, <3>8, <3>10, <3>12, <3>13, Zenon DEF SelectFresh
        <3> QED BY <3>1, <3>3, <3>10, <3>11, <3>14
    <2> HIDE DEF r
    <2>8. r = Select!getNextEvent(p)
        BY DEF r
    <2> QED BY <2>5, <2>6, <2>7, <2>8, SelectGiven
<1>6. ASSUME NEW r \in [Fds -> SUBSET SelectEvents],
             \A fd \in Fds : r[fd] \subseteq
                IF fd \in registered
                THEN {b \in {"IN"} : fd \in p.m_readfds} \cup {b \in {"OUT"} : fd \in p.m_writefds}
                ELSE {},
             Reports(Select!waitForEvents(p, r), r)
      PROVE  SelectInv' /\ handling' \in Fds \cup {-1}
    <2> DEFINE reported == {fd \in Fds : r[fd] # {}}
    <2>1. SelectFound(p', reported)
        <3>1. p' = Select!waitForEvents(p, r)
            BY <1>6 DEF Reports
        <3> QED BY <1>6, <3>1, SelectWaited
    <2>2. /\ phase' = "events" /\ handling' = -1 /\ due' = reported /\ foreign' = FALSE
          /\ reg' = reg /\ registered' = registered
        BY <1>6 DEF Reports, registered
    <2> HIDE DEF reported
    <2>3. /\ p' \in SelectRecord
          /\ p'.m_clients = p.m_clients /\ p'.m_max_fd = p.m_max_fd
          /\ p'.m_readfds = p.m_readfds /\ p'.m_writefds = p.m_writefds
          /\ SelectSets(p'.m_testrfds, p'.m_testwfds)
          /\ p'.m_testrfds \cup p'.m_testwfds = due'
          /\ p'.m_cur_fd = -1
          /\ p'.m_rbits = Cardinality(p'.m_testrfds) + Cardinality(p'.m_testwfds)
        BY <2>1, <2>2 DEF SelectFound
    <2>4. SelectTables'
        BY <2>2, <2>3 DEF SelectTables, SelectSets
    <2>5. p'.m_testrfds \in SUBSET Fds /\ p'.m_testwfds \in SUBSET Fds /\ p'.m_rbits \in Int
        BY <1>0, <2>3 DEF SelectRecord
    <2>6. After(-1, p'.m_testrfds) = p'.m_testrfds /\ After(-1, p'.m_testwfds) = p'.m_testwfds
        <3>1. \A fd \in Fds : fd > -1
            BY <1>0
        <3> QED BY <2>5, <3>1 DEF After
    <2>7. p'.m_rbits >= Cardinality(p'.m_testrfds) + Cardinality(p'.m_testwfds) /\ p'.m_rbits # -1
        <3>1. Cardinality(p'.m_testrfds) \in Nat /\ Cardinality(p'.m_testwfds) \in Nat
            BY <2>5, FdsType, FS_Subset, FS_CardinalityType
        <3> QED BY <2>3, <3>1
    <2>8. -1 <= N
        BY <1>0
    <2>9. SelectFresh'
        BY <2>2, <2>3, <2>6, <2>7, <2>8, Zenon DEF SelectFresh
    <2> QED BY <2>2, <2>3, <2>4, <2>9
<1>7. ASSUME Reports(Select!waitFails(p), Nothing)
      PROVE  SelectInv' /\ handling' \in Fds \cup {-1}
    <2> DEFINE k == -1
    <2>1. p' = [p EXCEPT !.m_testrfds = p.m_readfds, !.m_testwfds = p.m_writefds, !.m_rbits = k]
        BY <1>7 DEF Reports, Select!waitFails
    <2>2. k \in -1..2 * N
        BY <1>0
    <2>3. /\ phase' = "events" /\ handling' = -1 /\ due' = {}
          /\ reg' = reg /\ registered' = registered
        BY <1>7 DEF Reports, registered, Nothing
    <2> HIDE DEF k
    <2>4. /\ p' \in SelectRecord
          /\ p'.m_clients = p.m_clients /\ p'.m_max_fd = p.m_max_fd
          /\ p'.m_readfds = p.m_readfds /\ p'.m_writefds = p.m_writefds
          /\ p'.m_testrfds = p.m_readfds /\ p'.m_testwfds = p.m_writefds /\ p'.m_rbits = k
        BY <2>1, <2>2 DEF SelectRecord
    <2>5. SelectTables'
        BY <2>3, <2>4 DEF SelectTables, SelectSets
    <2>6. SelectFresh'
        BY <2>3, <2>4 DEF SelectFresh, k
    <2> QED BY <2>3, <2>4, <2>5, <2>6
<1> HIDE DEF SelectInv
<1>8. CASE Next
    <2>1. ASSUME NEW fd \in Fds \ registered, NEW c \in Clients, NEW m \in Masks, NEW w \in Writes,
                 p' = add(fd, c, m, w),
                 IF w /\ (p.class = "devpoll" => p.m_clivents[fd].client = NoClient)
                 THEN Registers(fd, c) ELSE Stays
          PROVE  SelectInv' /\ handling' \in Fds \cup {-1}
        <3>0. w = TRUE /\ p.class # "devpoll"
            BY SelectDispatch, Zenon
        <3>1. m \in SUBSET SelectEvents /\ p' = Select!add(p, fd, c, m)
            BY <2>1, SelectDispatch, Zenon
        <3>2. Registers(fd, c)
            BY <2>1, <3>0, Zenon
        <3> QED BY <1>2, <3>1, <3>2
    <2>2. ASSUME NEW fd \in registered, NEW w \in Writes,
                 p' = del(fd, w), IF w THEN Deregisters(fd) ELSE Stays
          PROVE  SelectInv' /\ handling' \in Fds \cup {-1}
        <3>1. w = TRUE /\ p' = Select!del(p, fd)
            BY <2>2, SelectDispatch, Zenon
        <3> QED BY <1>3, <2>2, <3>1, Zenon
    <2>3. ASSUME NEW fd \in registered, NEW m \in Masks, NEW w \in Writes, Stays,
                 p' \in {setMask(fd, m, w), orMask(fd, m, w), andMask(fd, m, w)}
          PROVE  SelectInv' /\ handling' \in Fds \cup {-1}
        <3>1. m \in SUBSET SelectEvents
            BY SelectDispatch
        <3>2. p' \in {Select!setMask(p, fd, m), Select!orMask(p, fd, m), Select!andMask(p, fd, m)}
            BY <2>3, SelectDispatch, Zenon
        <3> QED BY <1>4, <2>3, <3>1, <3>2
    <2>4. ASSUME Gets(getNextEvent, IF p.class = "kqueue" THEN Kqueue!left(getNextEvent.p) ELSE {})
          PROVE  SelectInv' /\ handling' \in Fds \cup {-1}
        <3>1. p.class # "kqueue" /\ getNextEvent = Select!getNextEvent(p)
            BY SelectDispatch
        <3>2. Gets(Select!getNextEvent(p), {})
            BY <2>4, <3>1, Zenon
        <3> QED BY <1>5, <3>2
    <2>5. ASSUME NEW r \in [Fds -> Masks],
                 \A fd \in Fds : r[fd] \subseteq IF fd \in registered THEN Wanted(fd) ELSE {},
                 Reports(waitForEvents(r), r)
          PROVE  SelectInv' /\ handling' \in Fds \cup {-1}
        <3>1. r \in [Fds -> SUBSET SelectEvents]
            BY SelectDispatch, Zenon
        <3>2. \A fd \in Fds : r[fd] \subseteq
                IF fd \in registered
                THEN {b \in {"IN"} : fd \in p.m_readfds} \cup {b \in {"OUT"} : fd \in p.m_writefds}
                ELSE {}
            BY <2>5, SelectDispatch, Zenon
        <3>3. Reports(Select!waitForEvents(p, r), r)
            BY <2>5, SelectDispatch, Zenon
        <3> QED BY <1>6, <3>1, <3>2, <3>3, Zenon
    <2>6. ASSUME Reports(waitFails, Nothing)
          PROVE  SelectInv' /\ handling' \in Fds \cup {-1}
        BY <1>7, <2>6, SelectDispatch, Zenon
    <2> QED BY <1>8, <2>1, <2>2, <2>3, <2>4, <2>5, <2>6, Steps, Zenon
<1> QED
    BY <1>1, <1>8 DEF SelectInv

\* The object starts empty.
LEMMA SelectInit ==
    ASSUME Init, p \in Select!init
    PROVE  p.class = "select" /\ SelectInv
<1>0. N \in Nat /\ Fds = 1..N /\ registered = {} /\ due = {} /\ phase = "events"
      /\ reg = [fd \in Fds |-> NoClient]
    BY FdsType DEF Init, registered
<1> DEFINE k == -1
<1>1. k \in -1..N + 1 /\ 0 \in -1..2 * N /\ k \in Fds \cup {-1} /\ k <= N
    BY <1>0
<1>2. reg \in [Fds -> Clients \cup {NoClient}]
    BY <1>0
<1>3. p = [class |-> "select", failed |-> FALSE, m_clients |-> reg,
           m_max_fd |-> k, m_cur_fd |-> k, m_rbits |-> 0,
           m_readfds |-> {}, m_writefds |-> {}, m_testrfds |-> {}, m_testwfds |-> {}]
    BY <1>0, Zenon DEF Select!init
<1> HIDE DEF k
<1>4. /\ p \in SelectRecord /\ p.class = "select" /\ p.m_clients = reg
      /\ p.m_max_fd = k /\ p.m_cur_fd = k /\ p.m_rbits = 0
      /\ p.m_readfds = {} /\ p.m_writefds = {} /\ p.m_testrfds = {} /\ p.m_testwfds = {}
    BY <1>1, <1>2, <1>3 DEF SelectRecord
<1>5. SelectTables
    BY <1>0, <1>4 DEF SelectTables, SelectSets, k
<1>6. After(k, {}) = {} /\ Cardinality({}) = 0
    BY FS_EmptySet DEF After
<1>7. After(k, {}) \cup After(k, {}) = {} /\ 0 >= 0 + 0 /\ 0 # -1
    BY <1>6
<1>8. SelectFresh
    BY <1>0, <1>1, <1>4, <1>6, <1>7, Zenon DEF SelectFresh
<1> QED
    BY <1>4, <1>5, <1>8 DEF SelectInv

\* The invariant of Poller_select implies the properties.
LEMMA SelectShows ==
    ASSUME Common, SelectInv, p.class = "select"
    PROVE  Shown
<1> USE DEF SelectInv
<1>0. N \in Nat /\ Fds = 1..N /\ -1 \notin Fds /\ registered \subseteq Fds
    BY FdsType DEF registered
<1>1. TypeOK
    <2>1. /\ p.m_max_fd \in Fds \cup {-1}
          /\ p.m_rbits \in -1..(2 * Cardinality(Fds))
          /\ p.m_cur_fd \in -1..(Cardinality(Fds) + 1)
        BY DEF SelectRecord, N
    <2> QED BY <2>1, CommonTypes, Zenon DEF TypeOK
<1>2. TablesAgree
    <2>1. /\ ~p.failed
          /\ p.m_clients = reg
          /\ \A fd \in registered : fd <= p.m_max_fd
          /\ p.m_max_fd # -1 => p.m_max_fd \in registered
          /\ p.m_readfds \cup p.m_writefds \subseteq registered
          /\ p.m_testrfds \cup p.m_testwfds \subseteq registered
        BY DEF SelectRecord, SelectTables, SelectSets
    <2> QED BY <2>1, Zenon DEF TablesAgree
<1>3. upcoming = Select!getNextEvent(p).e /\ Select!NoEvent.fd = -1
    BY SelectDispatch DEF upcoming, Select!NoEvent
<1>4. NoneSkipped
    BY DEF NoneSkipped, SelectFresh
<1>5. CASE upcoming.fd = -1
    BY <1>1, <1>2, <1>4, <1>5 DEF Shown, GivenToOwner, OnlyReported
<1>6. CASE upcoming.fd # -1
    <2> DEFINE r == Select!getNextEvent(p)
    <2>1. PICK fd \in p.m_testrfds \cup p.m_testwfds :
            /\ p.m_rbits >= 1 /\ fd > p.m_cur_fd
            /\ r.e = [fd |-> fd, revents |-> SelectBits(fd), client |-> p.m_clients[fd]]
            /\ SelectBits(fd) # {}
        <3> HIDE DEF r, SelectInv
        <3>1. p \in SelectRecord /\ SelectTables /\ r = Select!getNextEvent(p)
            BY DEF SelectInv, r
        <3>2. r.e.fd # -1
            BY <1>3, <1>6, <3>1, Zenon
        <3> QED BY <1>3, <3>1, <3>2, SelectGiven, Zenon
    <2>2. upcoming.fd = fd /\ upcoming.revents # {} /\ upcoming.client = p.m_clients[fd]
        BY <1>3, <2>1
    <2>3. fd \in registered
        BY DEF SelectTables, SelectSets
    <2>4. p.m_clients[fd] = reg[fd] /\ reg[fd] # NoClient
        BY <2>3 DEF SelectTables, registered
    <2>5. fd \in due
        <3>1. fd \in After(p.m_cur_fd, p.m_testrfds) \cup After(p.m_cur_fd, p.m_testwfds)
            BY <2>1 DEF After
        <3>2. p.m_rbits # -1
            BY <2>1
        <3> QED BY <3>1, <3>2 DEF SelectFresh
    <2> QED BY <1>1, <1>2, <1>4, <2>2, <2>4, <2>5 DEF Shown, GivenToOwner, OnlyReported
<1> QED
    BY <1>5, <1>6

------------------------------------------------------------------------------
(***************************************************************************)
(* What a driver reports it reports in an order: the place of an element   *)
(* is the number of elements that come no later, so that every place up to *)
(* the number of elements has one.                                         *)
(***************************************************************************)
Rank(S, key, x) == Cardinality({z \in S : key[z] <= key[x]})

Ranked(S, key) ==
    /\ \A x \in S : Rank(S, key, x) \in 1..Cardinality(S)
    /\ \A x, y \in S : Rank(S, key, x) = Rank(S, key, y) => x = y
    /\ \A i \in 1..Cardinality(S) : \E x \in S : Rank(S, key, x) = i

\* If no two elements have the same key, every place is that of exactly one
\* element.
LEMMA Ranks ==
    ASSUME NEW S, IsFiniteSet(S), NEW key \in [S -> Int],
           \A x, y \in S : key[x] = key[y] => x = y
    PROVE  Ranked(S, key)
<1> DEFINE upTo(x) == {z \in S : key[z] <= key[x]}
           R == [x \in S |-> Rank(S, key, x)]
           n == Cardinality(S)
<1>0. n \in Nat
    BY FS_CardinalityType
<1>1. ASSUME NEW x \in S
      PROVE  /\ upTo(x) \in SUBSET S /\ IsFiniteSet(upTo(x))
             /\ Cardinality(upTo(x)) \in 1..n
    <2>1. upTo(x) \in SUBSET S /\ x \in upTo(x)
        OBVIOUS
    <2> HIDE DEF upTo
    <2>2. IsFiniteSet(upTo(x)) /\ Cardinality(upTo(x)) <= n
        BY <2>1, FS_Subset
    <2>3. Cardinality(upTo(x)) \in Nat /\ Cardinality(upTo(x)) # 0
        BY <2>1, <2>2, FS_CardinalityType, FS_EmptySet
    <2> QED BY <1>0, <2>1, <2>2, <2>3
<1>2. \A x \in S : Rank(S, key, x) = Cardinality(upTo(x))
    BY Zenon DEF Rank
<1>3. ASSUME NEW x \in S, NEW y \in S, key[x] < key[y]
      PROVE  Cardinality(upTo(x)) < Cardinality(upTo(y))
    <2>1. upTo(x) \in SUBSET upTo(y) /\ y \in upTo(y) /\ y \notin upTo(x)
        BY <1>3
    <2>2. IsFiniteSet(upTo(y)) /\ Cardinality(upTo(x)) \in 1..n /\ Cardinality(upTo(y)) \in 1..n
        BY <1>1
    <2> HIDE DEF upTo, n
    <2>3. /\ Cardinality(upTo(x)) <= Cardinality(upTo(y))
          /\ Cardinality(upTo(y)) = Cardinality(upTo(x)) => upTo(y) = upTo(x)
        BY <2>1, <2>2, FS_Subset
    <2>4. Cardinality(upTo(y)) # Cardinality(upTo(x))
        BY <2>1, <2>3
    <2> QED BY <1>0, <2>2, <2>3, <2>4 DEF n
<1>4. \A x \in S : Rank(S, key, x) \in 1..n
    BY <1>1, <1>2, Zenon
<1>5. ASSUME NEW x \in S, NEW y \in S, Rank(S, key, x) = Rank(S, key, y) PROVE x = y
    <2> HIDE DEF upTo, n
    <2>1. Cardinality(upTo(x)) = Cardinality(upTo(y)) /\ Cardinality(upTo(x)) \in 1..n
        BY <1>1, <1>2, <1>5, Zenon
    <2>2. ~(key[x] < key[y]) /\ ~(key[y] < key[x])
        <3>1. Cardinality(upTo(x)) \in Int
            BY <1>0, <2>1 DEF n
        <3> QED BY <1>3, <2>1, <3>1
    <2>3. key[x] = key[y]
        BY <2>2
    <2> QED BY <2>3
<1>6. R \in Injection(S, 1..n)
    <2>1. R \in [S -> 1..n]
        BY <1>4
    <2>2. \A x, y \in S : R[x] = R[y] => x = y
        BY <1>5
    <2> HIDE DEF R, n
    <2> QED BY <2>1, <2>2 DEF Injection, IsInjective
<1>7. IsFiniteSet(1..n) /\ Cardinality(1..n) = n
    <2>1. 1 \in Int /\ n \in Int /\ n >= 0
        BY <1>0
    <2> HIDE DEF n
    <2>2. IsFiniteSet(1..n) /\ Cardinality(1..n) = IF 1 > n THEN 0 ELSE n - 1 + 1
        BY <2>1, FS_Interval
    <2> QED BY <2>1, <2>2
<1>8. R \in Surjection(S, 1..n)
    <2>1. Cardinality(S) = Cardinality(1..n)
        BY <1>7
    <2> HIDE DEF R, n
    <2> QED BY <1>6, <1>7, <2>1, FS_Injection
<1>9. \A i \in 1..n : \E x \in S : R[x] = i
    <2> HIDE DEF R
    <2> QED BY <1>8 DEF Surjection
<1> QED
    BY <1>4, <1>5, <1>9 DEF Ranked

\* The descriptors of a set in rising order are all of them, each once.
LEMMA InOrderIs ==
    ASSUME NEW S \in SUBSET Fds
    PROVE  /\ Devpoll!InOrder(S) \in [1..Cardinality(S) -> S]
           /\ \A i, j \in 1..Cardinality(S) :
                Devpoll!InOrder(S)[i] = Devpoll!InOrder(S)[j] => i = j
           /\ \A x \in S : \E i \in 1..Cardinality(S) : Devpoll!InOrder(S)[i] = x
<1> DEFINE key == [x \in S |-> x]
           n == Cardinality(S)
           o == Devpoll!InOrder(S)
<1>0. S \subseteq Int
    BY FdsType
<1>a. IsFiniteSet(S)
    BY FdsType, FS_Subset
<1>1. key \in [S -> Int] /\ \A x, y \in S : key[x] = key[y] => x = y
    BY <1>0
<1>2. \A x \in S : Devpoll!Cardinality({g \in S : g <= x}) = Rank(S, key, x)
    <2> SUFFICES ASSUME NEW x \in S
                 PROVE  Devpoll!Cardinality({g \in S : g <= x}) = Rank(S, key, x)
        OBVIOUS
    <2>1. {g \in S : g <= x} = {z \in S : key[z] <= key[x]}
        OBVIOUS
    <2> QED BY <2>1, DevpollCardinality, Zenon DEF Rank
<1> DEFINE at(i) == CHOOSE x \in S : Devpoll!Cardinality({g \in S : g <= x}) = i
<1>3. o = [i \in 1..n |-> at(i)]
    <2>1. o = [i \in 1..Devpoll!Cardinality(S) |-> at(i)]
        BY Zenon DEF Devpoll!InOrder
    <2>2. Devpoll!Cardinality(S) = n
        BY DevpollCardinality, Zenon
    <2> HIDE DEF at, n, o
    <2> QED BY <2>1, <2>2, Zenon
<1> HIDE DEF key
<1>4. /\ \A x \in S : Rank(S, key, x) \in 1..n
      /\ \A x, y \in S : Rank(S, key, x) = Rank(S, key, y) => x = y
      /\ \A i \in 1..n : \E x \in S : Rank(S, key, x) = i
    <2>1. Ranked(S, key)
        BY <1>a, <1>1, Ranks
    <2> QED BY <2>1, Zenon DEF Ranked
<1> HIDE DEF n, o
<1>5. ASSUME NEW i \in 1..n PROVE o[i] \in S /\ Rank(S, key, o[i]) = i
    <2>1. \E x \in S : Devpoll!Cardinality({g \in S : g <= x}) = i
        BY <1>2, <1>4, Zenon
    <2>2. at(i) \in S /\ Devpoll!Cardinality({g \in S : g <= at(i)}) = i
        BY <2>1, Zenon
    <2> HIDE DEF at
    <2>3. o[i] = at(i)
        BY <1>3
    <2> QED BY <1>2, <2>2, <2>3, Zenon
<1> HIDE DEF at
<1>6. o \in [1..n -> S]
    <2>1. DOMAIN o = 1..n /\ o = [i \in 1..n |-> o[i]]
        BY <1>3, Zenon
    <2> QED BY <1>5, <2>1, Zenon
<1>7. \A i, j \in 1..n : o[i] = o[j] => i = j
    BY <1>5, Zenon
<1>8. \A x \in S : \E i \in 1..n : o[i] = x
    BY <1>4, <1>5, Zenon
<1> QED
    BY <1>6, <1>7, <1>8, Zenon DEF o, n

\* An object of Poller_devpoll.
DevSlot == [fd : Fds, revents : SUBSET Events]

DevRecord ==
    [class : {"devpoll"}, failed : {FALSE},
     m_clivents : [Fds -> [client : Clients \cup {NoClient}, events : SUBSET Events]],
     m_pfds_used : 0..N,
     m_pfds : Seq(DevSlot),
     kernel : [Fds -> (SUBSET Events) \cup {Devpoll!Unwatched}]]

DevTables ==
    /\ p.m_pfds_used = Cardinality(registered)
    /\ \A fd \in registered : p.m_clivents[fd].client = reg[fd]
    /\ \A fd \in Fds : p.kernel[fd] # Devpoll!Unwatched <=> fd \in registered

\* What is still to be handled is among what is still to be given out, and is
\* all of it, each once, as long as nothing but the descriptor being handled
\* was deleted.
DevFresh ==
    /\ \A i \in 1..Len(p.m_pfds) : p.m_pfds[i].revents # {}
    /\ \A fd \in due : \E i \in 1..Len(p.m_pfds) : p.m_pfds[i].fd = fd
    /\ ~foreign =>
        /\ \A i \in 1..Len(p.m_pfds) : p.m_pfds[i].fd \in due \ {handling}
        /\ \A i, j \in 1..Len(p.m_pfds) : p.m_pfds[i].fd = p.m_pfds[j].fd => i = j
    /\ phase = "wait" => due = {}

DevInv == p \in DevRecord /\ DevTables /\ DevFresh

\* q is the object with other clients and masks.
DevOther(q, C, u, K) ==
    /\ q \in DevRecord
    /\ q.m_clivents = C /\ q.m_pfds_used = u /\ q.kernel = K /\ q.m_pfds = p.m_pfds

\* A descriptor that the driver does not know has no mask, not even the empty
\* one.
LEMMA UnwatchedIsNoMask == Devpoll!Unwatched \notin SUBSET Events
<1> QED
    BY PollersAssumption DEF Devpoll!Unwatched

\* add() does nothing for a number in use; otherwise it enters the client, also
\* if the write() fails.
LEMMA DevAdded ==
    ASSUME p \in DevRecord, p.m_pfds_used < N, NEW fd \in Fds, NEW c \in Clients,
           NEW m \in SUBSET Events, NEW w \in BOOLEAN,
           NEW q, q = Devpoll!add(p, fd, c, m, w)
    PROVE  LET C == [p.m_clivents EXCEPT ![fd] = [client |-> c, events |-> m]]
           IN  IF p.m_clivents[fd].client # NoClient THEN q = p
               ELSE IF w
               THEN DevOther(q, C, p.m_pfds_used + 1, [p.kernel EXCEPT ![fd] = m])
               ELSE DevOther(q, C, p.m_pfds_used, p.kernel)
<1> DEFINE s == [client |-> c, events |-> m]
           C == [p.m_clivents EXCEPT ![fd] = s]
           K == [p.kernel EXCEPT ![fd] = m]
           o == [p EXCEPT !.m_clivents = C]
           u == p.m_pfds_used + 1
<1>1. /\ C \in [Fds -> [client : Clients \cup {NoClient}, events : SUBSET Events]]
      /\ C[fd] = s /\ s.events = m
    BY DEF DevRecord
<1>2. K \in [Fds -> (SUBSET Events) \cup {Devpoll!Unwatched}]
    BY DEF DevRecord
<1>3. u \in 0..N
    BY FdsType DEF DevRecord
<1>4. [p EXCEPT !.m_clivents[fd] = s] = o
    BY DEF DevRecord
<1>5. CASE p.m_clivents[fd].client # NoClient
    <2>1. q = p
        BY <1>5, Zenon DEF Devpoll!add
    <2> QED BY <1>5, <2>1, Zenon
<1>6. CASE ~(p.m_clivents[fd].client # NoClient) /\ w
    <2>1. q = [Devpoll!Written(o, fd, TRUE) EXCEPT !.m_pfds_used = @ + 1]
        BY <1>4, <1>6, Zenon DEF Devpoll!add
    <2> HIDE DEF C, s
    <2>2. /\ o \in DevRecord /\ o.m_clivents = C /\ o.m_pfds_used = p.m_pfds_used
          /\ o.kernel = p.kernel /\ o.m_pfds = p.m_pfds
        BY <1>1 DEF DevRecord
    <2> DEFINE o2 == [o EXCEPT !.kernel = K]
    <2>3. Devpoll!Written(o, fd, TRUE) = o2
        <3>1. Devpoll!Written(o, fd, TRUE) = [o EXCEPT !.kernel[fd] = o.m_clivents[fd].events]
            BY Zenon DEF Devpoll!Written
        <3>2. o.m_clivents[fd].events = m
            BY <1>1, <2>2
        <3> HIDE DEF o
        <3>3. [o EXCEPT !.kernel[fd] = m] = [o EXCEPT !.kernel = K]
            BY <2>2 DEF DevRecord
        <3> QED BY <3>1, <3>2, <3>3, Zenon
    <2> HIDE DEF o, K
    <2>4. /\ o2 \in DevRecord /\ o2.m_clivents = C /\ o2.m_pfds_used = p.m_pfds_used
          /\ o2.kernel = K /\ o2.m_pfds = p.m_pfds
        BY <1>2, <2>2 DEF DevRecord
    <2>5. q = [o2 EXCEPT !.m_pfds_used = u]
        <3>1. q = [o2 EXCEPT !.m_pfds_used = o2.m_pfds_used + 1]
            BY <2>1, <2>3, Zenon
        <3> HIDE DEF o2
        <3> QED BY <2>4, <3>1, Zenon
    <2> HIDE DEF o2, u
    <2>6. /\ q \in DevRecord /\ q.m_clivents = C /\ q.m_pfds_used = u
          /\ q.kernel = K /\ q.m_pfds = p.m_pfds
        BY <1>3, <2>4, <2>5 DEF DevRecord
    <2>7. DevOther(q, C, u, K)
        BY <2>6, Zenon DEF DevOther
    <2> QED BY <1>6, <2>7, Zenon DEF C, K, u, s
<1>7. CASE ~(p.m_clivents[fd].client # NoClient) /\ ~w
    <2>1. q = o
        BY <1>4, <1>7, Zenon DEF Devpoll!add
    <2> HIDE DEF C, s
    <2>2. /\ o \in DevRecord /\ o.m_clivents = C /\ o.m_pfds_used = p.m_pfds_used
          /\ o.kernel = p.kernel /\ o.m_pfds = p.m_pfds
        BY <1>1 DEF DevRecord
    <2>3. DevOther(q, C, p.m_pfds_used, p.kernel)
        BY <2>1, <2>2, Zenon DEF DevOther
    <2> QED BY <1>7, <2>3, Zenon DEF C, s
<1> QED
    BY <1>5, <1>6, <1>7, Zenon

\* del() does nothing if the write() fails.
LEMMA DevDeleted ==
    ASSUME p \in DevRecord, DevTables, NEW fd \in registered, NEW q
    PROVE  /\ q = Devpoll!del(p, fd, FALSE) => q = p
           /\ q = Devpoll!del(p, fd, TRUE) =>
                DevOther(q, [p.m_clivents EXCEPT ![fd].client = NoClient], p.m_pfds_used - 1,
                         [p.kernel EXCEPT ![fd] = Devpoll!Unwatched])
<1> DEFINE C == [p.m_clivents EXCEPT ![fd].client = NoClient]
           K == [p.kernel EXCEPT ![fd] = Devpoll!Unwatched]
           u == p.m_pfds_used - 1
<1>0. fd \in Fds /\ p.m_clivents[fd].client # NoClient
    BY DEF registered, DevTables
<1>1. p.m_pfds_used # 0
    BY RegisteredCount, FS_EmptySet DEF DevTables
<1>2. Devpoll!del(p, fd, FALSE) = p
    BY <1>0, <1>1, Zenon DEF Devpoll!del
<1>3. ASSUME q = Devpoll!del(p, fd, TRUE) PROVE DevOther(q, C, u, K)
    <2>1. q = [p EXCEPT !.kernel[fd] = Devpoll!Unwatched,
                        !.m_clivents[fd].client = NoClient,
                        !.m_pfds_used = @ - 1]
        BY <1>0, <1>1, <1>3, Zenon DEF Devpoll!del
    <2>2. q = [p EXCEPT !.kernel = K, !.m_clivents = C, !.m_pfds_used = u]
        BY <2>1 DEF DevRecord
    <2>3. C \in [Fds -> [client : Clients \cup {NoClient}, events : SUBSET Events]]
        BY <1>0 DEF DevRecord
    <2>4. K \in [Fds -> (SUBSET Events) \cup {Devpoll!Unwatched}]
        BY <1>0 DEF DevRecord
    <2>5. u \in 0..N
        BY <1>1, FdsType DEF DevRecord
    <2> HIDE DEF C, K, u
    <2> QED BY <2>2, <2>3, <2>4, <2>5 DEF DevRecord, DevOther
<1> QED
    BY <1>2, <1>3, Zenon

\* q is the object with another mask for fd.
DevMaskIs(q, fd, k, w) ==
    DevOther(q, [p.m_clivents EXCEPT ![fd].events = k], p.m_pfds_used,
             IF w THEN [p.kernel EXCEPT ![fd] = k] ELSE p.kernel)

\* The masks change the events of the client, and what the driver watches if
\* the write() succeeds.
LEMMA DevMasked ==
    ASSUME p \in DevRecord, DevTables, NEW fd \in registered, NEW m \in SUBSET Events,
           NEW w \in BOOLEAN, NEW q,
           q \in {Devpoll!setMask(p, fd, m, w), Devpoll!orMask(p, fd, m, w), Devpoll!andMask(p, fd, m, w)}
    PROVE  \E k \in SUBSET Events : DevMaskIs(q, fd, k, w)
<1>0. fd \in Fds /\ p.m_clivents[fd].client # NoClient
    BY DEF registered, DevTables
<1>1. p.m_clivents[fd].events \in SUBSET Events
    BY <1>0 DEF DevRecord
<1>2. PICK k \in SUBSET Events : q = Devpoll!setMask(p, fd, k, w)
    BY <1>1 DEF Devpoll!orMask, Devpoll!andMask
<1> DEFINE C == [p.m_clivents EXCEPT ![fd].events = k]
           K == [p.kernel EXCEPT ![fd] = k]
           o == [p EXCEPT !.m_clivents = C]
<1>3. /\ C \in [Fds -> [client : Clients \cup {NoClient}, events : SUBSET Events]]
      /\ C[fd].events = k
    BY <1>0, <1>2 DEF DevRecord
<1>4. K \in [Fds -> (SUBSET Events) \cup {Devpoll!Unwatched}]
    BY <1>0, <1>2 DEF DevRecord
<1>5. [p EXCEPT !.m_clivents[fd].events = k] = o
    BY DEF DevRecord
<1>6. q = Devpoll!Written(o, fd, w)
    BY <1>0, <1>2, <1>5, Zenon DEF Devpoll!setMask
<1> HIDE DEF C
<1>7. /\ o \in DevRecord /\ o.m_clivents = C /\ o.m_pfds_used = p.m_pfds_used
      /\ o.kernel = p.kernel /\ o.m_pfds = p.m_pfds
    BY <1>3 DEF DevRecord
<1> HIDE DEF o
<1>8. CASE w
    <2>1. q = [o EXCEPT !.kernel[fd] = o.m_clivents[fd].events]
        BY <1>6, <1>8, Zenon DEF Devpoll!Written
    <2>2. o.m_clivents[fd].events = k
        BY <1>3, <1>7
    <2>3. [o EXCEPT !.kernel[fd] = k] = [o EXCEPT !.kernel = K]
        BY <1>7 DEF DevRecord
    <2>4. q = [o EXCEPT !.kernel = K]
        BY <2>1, <2>2, <2>3, Zenon
    <2> HIDE DEF K
    <2>5. DevOther(q, C, p.m_pfds_used, K)
        BY <1>4, <1>7, <2>4 DEF DevRecord, DevOther
    <2> QED BY <1>2, <1>8, <2>5, Zenon DEF C, K, DevMaskIs
<1>9. CASE ~w
    <2>1. q = o
        BY <1>6, <1>9, Zenon DEF Devpoll!Written
    <2>2. DevOther(q, C, p.m_pfds_used, p.kernel)
        BY <1>7, <2>1, Zenon DEF DevOther
    <2> QED BY <1>2, <1>9, <2>2, Zenon DEF C, DevMaskIs
<1> QED
    BY <1>8, <1>9

\* getNextEvent gives out the last event whose descriptor has a client, and
\* drops those behind it.
LEMMA DevGiven ==
    ASSUME p \in DevRecord, NEW r, r = Devpoll!getNextEvent(p)
    PROVE  \/ /\ \A i \in 1..Len(p.m_pfds) : p.m_clivents[p.m_pfds[i].fd].client = NoClient
              /\ r.p = [p EXCEPT !.m_pfds = <<>>] /\ r.e = Devpoll!NoEvent
           \/ \E i \in 1..Len(p.m_pfds) :
                /\ p.m_clivents[p.m_pfds[i].fd].client # NoClient
                /\ \A j \in 1..Len(p.m_pfds) :
                    p.m_clivents[p.m_pfds[j].fd].client # NoClient => j <= i
                /\ r.p = [p EXCEPT !.m_pfds = SubSeq(@, 1, i - 1)]
                /\ r.e = [fd |-> p.m_pfds[i].fd, revents |-> p.m_pfds[i].revents,
                          client |-> p.m_clivents[p.m_pfds[i].fd].client]
<1> DEFINE kept == {i \in DOMAIN p.m_pfds : p.m_clivents[p.m_pfds[i].fd].client # NoClient}
           i == CHOOSE j \in kept : \A k \in kept : k <= j
<1>0. p.m_pfds \in Seq(DevSlot)
    BY DEF DevRecord
<1>1. DOMAIN p.m_pfds = 1..Len(p.m_pfds) /\ Len(p.m_pfds) \in Nat
    BY <1>0
<1>a. \A x, y : [p |-> x, e |-> y].p = x /\ [p |-> x, e |-> y].e = y
    OBVIOUS
<1>2. CASE kept = {}
    <2> DEFINE o == [p EXCEPT !.m_pfds = <<>>]
    <2>1. r = [p |-> o, e |-> Devpoll!NoEvent]
        BY <1>2, Zenon DEF Devpoll!getNextEvent
    <2>2. \A j \in 1..Len(p.m_pfds) : p.m_clivents[p.m_pfds[j].fd].client = NoClient
        BY <1>1, <1>2
    <2> HIDE DEF o
    <2>3. r.p = o /\ r.e = Devpoll!NoEvent
        BY <1>a, <2>1
    <2> QED BY <2>2, <2>3, Zenon DEF o
<1>3. CASE kept # {}
    <2>0. kept \in SUBSET (0..Len(p.m_pfds))
        BY <1>1
    <2> HIDE DEF kept
    <2>1. \E j \in kept : \A k \in kept : k <= j
        BY <1>1, <1>3, <2>0, HasMaximum
    <2>2. i \in kept /\ \A k \in kept : k <= i
        BY <2>1, Zenon
    <2>3. r = Devpoll!Event(p, i)
        BY <1>3, Zenon DEF Devpoll!getNextEvent, kept
    <2> HIDE DEF i
    <2> DEFINE o == [p EXCEPT !.m_pfds = SubSeq(@, 1, i - 1)]
               e == [fd |-> p.m_pfds[i].fd, revents |-> p.m_pfds[i].revents,
                     client |-> p.m_clivents[p.m_pfds[i].fd].client]
    <2>4. r = [p |-> o, e |-> e]
        BY <2>3, Zenon DEF Devpoll!Event
    <2> HIDE DEF o, e
    <2>5. r.p = o /\ r.e = e
        BY <1>a, <2>4
    <2>6. i \in 1..Len(p.m_pfds) /\ p.m_clivents[p.m_pfds[i].fd].client # NoClient
        BY <1>1, <2>2 DEF kept
    <2>7. \A j \in 1..Len(p.m_pfds) : p.m_clivents[p.m_pfds[j].fd].client # NoClient => j <= i
        BY <1>1, <2>2 DEF kept
    <2> QED BY <2>5, <2>6, <2>7, Zenon DEF o, e
<1> QED
    BY <1>2, <1>3

\* q is the object after the driver has reported the set found.
DevFound(q, found) ==
    /\ q \in DevRecord
    /\ q.m_clivents = p.m_clivents /\ q.m_pfds_used = p.m_pfds_used /\ q.kernel = p.kernel
    /\ \A i \in 1..Len(q.m_pfds) : q.m_pfds[i].fd \in found /\ q.m_pfds[i].revents # {}
    /\ \A i, j \in 1..Len(q.m_pfds) : q.m_pfds[i].fd = q.m_pfds[j].fd => i = j
    /\ \A fd \in found : \E i \in 1..Len(q.m_pfds) : q.m_pfds[i].fd = fd

\* DP_POLL reports every descriptor that is ready, once.
LEMMA DevWaited ==
    ASSUME p \in DevRecord, DevTables, NEW r \in [Fds -> SUBSET Events],
           \A fd \in Fds : r[fd] \subseteq IF fd \in registered THEN p.kernel[fd] ELSE {}
    PROVE  DevFound(Devpoll!waitForEvents(p, r), {fd \in Fds : r[fd] # {}})
<1> DEFINE S == {fd \in Fds : r[fd] # {}}
           n == Cardinality(S)
           o == Devpoll!InOrder(S)
           rev(fd) == p.kernel[fd] \cap r[fd]
           L == [i \in 1..n |-> [fd |-> o[i], revents |-> rev(o[i])]]
           q == Devpoll!waitForEvents(p, r)
<1>0. registered \subseteq Fds
    BY DEF registered
<1>1. \A fd \in Fds : rev(fd) = r[fd]
    <2> SUFFICES ASSUME NEW fd \in Fds PROVE p.kernel[fd] \cap r[fd] = r[fd]
        OBVIOUS
    <2>1. r[fd] \subseteq p.kernel[fd]
        OBVIOUS
    <2> QED BY <2>1
<1>2. {fd \in Fds : rev(fd) # {}} = S
    <2> HIDE DEF rev
    <2> QED BY <1>1
<1>3. S \subseteq registered /\ S \in SUBSET Fds
    OBVIOUS
<1>4. n \in Nat /\ n <= p.m_pfds_used /\ p.m_pfds_used \in Nat
    <2> HIDE DEF S
    <2>1. Cardinality(S) <= Cardinality(registered) /\ IsFiniteSet(S)
        BY <1>3, RegisteredCount, FS_Subset
    <2>2. Cardinality(S) \in Nat /\ Cardinality(registered) \in Nat
        BY <2>1, RegisteredCount, FS_CardinalityType
    <2> QED BY <2>1, <2>2 DEF DevTables
<1> HIDE DEF S
<1>5. /\ o \in [1..n -> S]
      /\ \A i, j \in 1..n : o[i] = o[j] => i = j
      /\ \A x \in S : \E i \in 1..n : o[i] = x
    BY <1>3, InOrderIs
<1>6. Len(o) = n
    <2> HIDE DEF n, o
    <2>1. o \in Seq(S)
        BY <1>4, <1>5
    <2>2. DOMAIN o = 1..n
        BY <1>5
    <2> QED BY <1>4, <2>1, <2>2
<1>7. q = [p EXCEPT !.m_pfds = L]
    <2> DEFINE all == Devpoll!InOrder({fd \in Fds : p.kernel[fd] \cap r[fd] # {}})
               m == IF Len(all) > p.m_pfds_used THEN p.m_pfds_used ELSE Len(all)
               L0 == [i \in 1..m |-> [fd |-> all[i], revents |-> p.kernel[all[i]] \cap r[all[i]]]]
    <2>1. q = [p EXCEPT !.m_pfds = L0]
        BY Zenon DEF Devpoll!waitForEvents
    <2>2. all = o
        BY <1>2, Zenon
    <2>3. ~(n > p.m_pfds_used)
        <3> HIDE DEF n
        <3> QED BY <1>4
    <2>4. m = n
        BY <1>6, <2>2, <2>3, Zenon
    <2>5. L0 = L
        BY <2>2, <2>4, Zenon
    <2> QED BY <2>1, <2>5, Zenon
<1>8. \A fd \in S : fd \in Fds /\ rev(fd) \in SUBSET Events /\ rev(fd) # {}
    <2> HIDE DEF rev
    <2> QED BY <1>1 DEF S
<1> HIDE DEF n, o, rev
<1>9. /\ L \in Seq(DevSlot) /\ Len(L) = n
      /\ \A i \in 1..n : L[i].fd = o[i] /\ L[i].revents # {}
    <2>1. \A i \in 1..n : L[i].fd = o[i] /\ L[i].revents # {} /\ L[i] \in DevSlot
        <3> SUFFICES ASSUME NEW i \in 1..n
                     PROVE  L[i].fd = o[i] /\ L[i].revents # {} /\ L[i] \in DevSlot
            OBVIOUS
        <3>1. L[i] = [fd |-> o[i], revents |-> rev(o[i])] /\ o[i] \in S
            BY <1>5
        <3> HIDE DEF L
        <3> QED BY <1>8, <3>1 DEF DevSlot
    <2>2. L \in [1..n -> DevSlot]
        BY <2>1
    <2> HIDE DEF L
    <2>3. L \in Seq(DevSlot)
        BY <1>4, <2>2
    <2>4. Len(L) = n
        BY <1>4, <2>2, <2>3
    <2> QED BY <2>1, <2>3, <2>4
<1> HIDE DEF L, q
<1>10. /\ q \in DevRecord /\ q.m_pfds = L
       /\ q.m_clivents = p.m_clivents /\ q.m_pfds_used = p.m_pfds_used /\ q.kernel = p.kernel
    BY <1>7, <1>9 DEF DevRecord
<1>11. DevFound(q, S)
    <2>1. \A i \in 1..n : L[i].fd \in S /\ L[i].revents # {}
        BY <1>5, <1>9
    <2>2. \A i, j \in 1..n : L[i].fd = L[j].fd => i = j
        BY <1>5, <1>9
    <2>3. \A x \in S : \E i \in 1..n : L[i].fd = x
        BY <1>5, <1>9
    <2> QED BY <1>9, <1>10, <2>1, <2>2, <2>3, Zenon DEF DevFound
<1> QED
    BY <1>11 DEF q, S

\* Every step keeps the invariant of Poller_devpoll.
LEMMA DevStays ==
    ASSUME Common, DevInv, p.class = "devpoll", [Next]_vars
    PROVE  DevInv' /\ handling' \in Fds \cup {-1}
<1> USE DEF DevInv
<1>0. N \in Nat /\ Fds = 1..N /\ -1 \notin Fds /\ registered \subseteq Fds
      /\ reg \in [Fds -> Clients \cup {NoClient}]
    BY FdsType DEF registered, Common
<1>a. due \subseteq registered /\ handling \in Fds \cup {-1}
    BY DEF Common
<1>b. /\ p.m_clivents \in [Fds -> [client : Clients \cup {NoClient}, events : SUBSET Events]]
      /\ p.kernel \in [Fds -> (SUBSET Events) \cup {Devpoll!Unwatched}]
    BY DEF DevRecord
<1>1. CASE UNCHANGED vars
    BY <1>1, <1>a DEF vars, ghosts, DevTables, DevFresh, registered
<1>c. ASSUME p'.m_pfds = p.m_pfds, Stays PROVE DevFresh' /\ handling' \in Fds \cup {-1}
    BY <1>a, <1>c DEF Stays, DevFresh
<1>2. ASSUME NEW fd \in Fds \ registered, NEW c \in Clients, NEW m \in SUBSET Events, NEW w \in BOOLEAN,
             p' = Devpoll!add(p, fd, c, m, w),
             IF w /\ p.m_clivents[fd].client = NoClient THEN Registers(fd, c) ELSE Stays
      PROVE  DevInv' /\ handling' \in Fds \cup {-1}
    <2> DEFINE C == [p.m_clivents EXCEPT ![fd] = [client |-> c, events |-> m]]
               K == [p.kernel EXCEPT ![fd] = m]
    <2>1. p.m_pfds_used < N
        BY <1>0, RegisteredCount DEF DevTables
    <2>2. IF p.m_clivents[fd].client # NoClient THEN p' = p
          ELSE IF w THEN DevOther(p', C, p.m_pfds_used + 1, K)
          ELSE DevOther(p', C, p.m_pfds_used, p.kernel)
        BY <1>2, <2>1, DevAdded
    <2>3. C[fd].client = c /\ \A g \in Fds : g # fd => C[g] = p.m_clivents[g]
        BY <1>b
    <2>4. K[fd] # Devpoll!Unwatched /\ \A g \in Fds : g # fd => K[g] = p.kernel[g]
        BY <1>b, UnwatchedIsNoMask
    <2> HIDE DEF C, K
    <2>5. CASE p.m_clivents[fd].client # NoClient
        <3>1. p' = p /\ Stays
            BY <1>2, <2>2, <2>5, Zenon
        <3>2. DevTables'
            BY <3>1 DEF Stays, DevTables, registered
        <3> QED BY <1>c, <3>1, <3>2
    <2>6. CASE p.m_clivents[fd].client = NoClient /\ w
        <3>1. Registers(fd, c) /\ DevOther(p', C, p.m_pfds_used + 1, K)
            BY <1>2, <2>2, <2>6, Zenon
        <3>2. /\ p' \in DevRecord /\ p'.m_clivents = C /\ p'.m_pfds_used = p.m_pfds_used + 1
              /\ p'.kernel = K /\ p'.m_pfds = p.m_pfds
            BY <3>1, Zenon DEF DevOther
        <3>3. /\ reg' = [reg EXCEPT ![fd] = c] /\ UNCHANGED <<phase, handling, due, foreign>>
            BY <3>1 DEF Registers
        <3>4. registered' = registered \cup {fd} /\ Cardinality(registered') = Cardinality(registered) + 1
            BY <1>0, <3>3, RegisterOne
        <3>5. DevTables'
            <4>1. p'.m_pfds_used = Cardinality(registered')
                BY <3>2, <3>4 DEF DevTables
            <4>2. ASSUME NEW g \in registered' PROVE p'.m_clivents[g].client = reg'[g]
                <5>1. CASE g = fd
                    BY <1>0, <2>3, <3>2, <3>3, <5>1
                <5>2. CASE g # fd
                    <6>1. g \in registered /\ g \in Fds /\ reg'[g] = reg[g]
                        BY <1>0, <3>3, <3>4, <5>2
                    <6> QED BY <2>3, <3>2, <5>2, <6>1 DEF DevTables
                <5> QED BY <5>1, <5>2
            <4>3. ASSUME NEW g \in Fds
                  PROVE  p'.kernel[g] # Devpoll!Unwatched <=> g \in registered'
                BY <2>4, <3>2, <3>4 DEF DevTables
            <4> QED BY <4>1, <4>2, <4>3 DEF DevTables
        <3>6. DevFresh'
            BY <3>2, <3>3 DEF DevFresh
        <3> QED BY <1>a, <3>2, <3>3, <3>5, <3>6
    <2>7. CASE p.m_clivents[fd].client = NoClient /\ ~w
        <3>1. Stays /\ DevOther(p', C, p.m_pfds_used, p.kernel)
            BY <1>2, <2>2, <2>7, Zenon
        <3>2. /\ p' \in DevRecord /\ p'.m_clivents = C /\ p'.m_pfds_used = p.m_pfds_used
              /\ p'.kernel = p.kernel /\ p'.m_pfds = p.m_pfds
            BY <3>1, Zenon DEF DevOther
        <3>3. reg' = reg /\ registered' = registered
            BY <3>1 DEF Stays, registered
        <3>4. DevTables'
            BY <1>0, <2>3, <3>2, <3>3 DEF DevTables
        <3> QED BY <1>c, <3>1, <3>2, <3>4
    <2> QED BY <2>5, <2>6, <2>7
<1>3. ASSUME NEW fd \in registered, NEW w \in BOOLEAN,
             p' = Devpoll!del(p, fd, w), IF w THEN Deregisters(fd) ELSE Stays
      PROVE  DevInv' /\ handling' \in Fds \cup {-1}
    <2>1. CASE ~w
        <3>1. w = FALSE /\ Stays
            BY <1>3, <2>1, Zenon
        <3>2. p' = p
            BY <1>3, <3>1, DevDeleted
        <3>3. DevTables'
            BY <3>1, <3>2 DEF Stays, DevTables, registered
        <3> QED BY <1>c, <3>1, <3>2, <3>3
    <2>2. CASE w
        <3> DEFINE C == [p.m_clivents EXCEPT ![fd].client = NoClient]
                   K == [p.kernel EXCEPT ![fd] = Devpoll!Unwatched]
        <3>1. w = TRUE /\ Deregisters(fd)
            BY <1>3, <2>2, Zenon
        <3>2. DevOther(p', C, p.m_pfds_used - 1, K)
            BY <1>3, <3>1, DevDeleted
        <3>3. \A g \in Fds : g # fd => C[g] = p.m_clivents[g]
            BY <1>0, <1>b
        <3>4. K[fd] = Devpoll!Unwatched /\ \A g \in Fds : g # fd => K[g] = p.kernel[g]
            BY <1>0, <1>b
        <3> HIDE DEF C, K
        <3>5. /\ p' \in DevRecord /\ p'.m_clivents = C /\ p'.m_pfds_used = p.m_pfds_used - 1
              /\ p'.kernel = K /\ p'.m_pfds = p.m_pfds
            BY <3>2, Zenon DEF DevOther
        <3>6. /\ reg' = [reg EXCEPT ![fd] = NoClient] /\ due' = due \ {fd}
              /\ UNCHANGED <<phase, handling>> /\ (~foreign' => ~foreign /\ fd = handling)
            BY <3>1 DEF Deregisters
        <3>7. registered' = registered \ {fd} /\ Cardinality(registered') = Cardinality(registered) - 1
            BY <1>0, <3>6, DeregisterOne
        <3>8. DevTables'
            <4>1. p'.m_pfds_used = Cardinality(registered')
                BY <3>5, <3>7 DEF DevTables
            <4>2. ASSUME NEW g \in registered' PROVE p'.m_clivents[g].client = reg'[g]
                <5>1. g \in registered /\ g \in Fds /\ reg'[g] = reg[g] /\ g # fd
                    BY <1>0, <3>6, <3>7
                <5> QED BY <3>3, <3>5, <5>1 DEF DevTables
            <4>3. ASSUME NEW g \in Fds
                  PROVE  p'.kernel[g] # Devpoll!Unwatched <=> g \in registered'
                BY <3>4, <3>5, <3>7 DEF DevTables
            <4> QED BY <4>1, <4>2, <4>3 DEF DevTables
        <3>9. DevFresh'
            BY <3>5, <3>6 DEF DevFresh
        <3> QED BY <1>a, <3>5, <3>6, <3>8, <3>9
    <2> QED BY <2>1, <2>2
<1>4. ASSUME NEW fd \in registered, NEW m \in SUBSET Events, NEW w \in BOOLEAN, Stays,
             p' \in {Devpoll!setMask(p, fd, m, w), Devpoll!orMask(p, fd, m, w),
                     Devpoll!andMask(p, fd, m, w)}
      PROVE  DevInv' /\ handling' \in Fds \cup {-1}
    <2>1. PICK k \in SUBSET Events : DevMaskIs(p', fd, k, w)
        BY <1>4, DevMasked, Zenon
    <2> DEFINE C == [p.m_clivents EXCEPT ![fd].events = k]
               K == IF w THEN [p.kernel EXCEPT ![fd] = k] ELSE p.kernel
    <2>2. \A g \in Fds : C[g].client = p.m_clivents[g].client
        BY <1>0, <1>b
    <2>3. p.kernel[fd] # Devpoll!Unwatched
        BY <1>0 DEF DevTables
    <2>4. \A g \in Fds : K[g] # Devpoll!Unwatched <=> p.kernel[g] # Devpoll!Unwatched
        BY <1>0, <1>b, <2>1, <2>3, UnwatchedIsNoMask
    <2>5. /\ p' \in DevRecord /\ p'.m_clivents = C /\ p'.m_pfds_used = p.m_pfds_used
          /\ p'.kernel = K /\ p'.m_pfds = p.m_pfds
        BY <2>1, Zenon DEF DevOther, DevMaskIs
    <2> HIDE DEF C, K
    <2>6. reg' = reg /\ registered' = registered
        BY <1>4 DEF Stays, registered
    <2>7. DevTables'
        BY <1>0, <2>2, <2>4, <2>5, <2>6 DEF DevTables
    <2> QED BY <1>c, <1>4, <2>5, <2>7
<1>5. ASSUME Gets(Devpoll!getNextEvent(p), {})
      PROVE  DevInv' /\ handling' \in Fds \cup {-1}
    <2> DEFINE r == Devpoll!getNextEvent(p)
               n == Len(p.m_pfds)
               client(i) == p.m_clivents[p.m_pfds[i].fd].client
    <2>1. /\ phase = "events" /\ p' = r.p /\ handling' = r.e.fd
          /\ phase' = IF r.e.fd = -1 THEN "wait" ELSE "events"
          /\ due' = due \ {r.e.fd} /\ reg' = reg /\ foreign' = foreign
          /\ registered' = registered
        BY <1>5 DEF Gets, registered
    <2>2. Devpoll!NoEvent.fd = -1
        BY DEF Devpoll!NoEvent
    <2>3. p.m_pfds \in Seq(DevSlot)
        BY DEF DevRecord
    <2>4. n \in Nat /\ \A i \in 1..n : p.m_pfds[i].fd \in Fds /\ p.m_pfds[i] \in DevSlot
        <3>1. n \in Nat /\ \A i \in 1..n : p.m_pfds[i] \in DevSlot
            BY <2>3
        <3> QED BY <3>1 DEF DevSlot
    <2>5. \A i \in 1..n : p.m_pfds[i].fd \in registered => client(i) # NoClient
        BY DEF DevTables, registered
    <2>6. CASE /\ \A i \in 1..n : client(i) = NoClient
               /\ r.p = [p EXCEPT !.m_pfds = <<>>] /\ r.e = Devpoll!NoEvent
        <3>1. handling' = -1 /\ due' = due /\ phase' = "wait"
            BY <1>0, <1>a, <2>1, <2>2, <2>6
        <3> DEFINE s == <<>>
        <3>2. s \in Seq(DevSlot) /\ Len(s) = 0
            OBVIOUS
        <3>3. p' = [p EXCEPT !.m_pfds = s]
            BY <2>1, <2>6, Zenon
        <3> HIDE DEF s
        <3>4. /\ p' \in DevRecord /\ p'.m_clivents = p.m_clivents
              /\ p'.m_pfds_used = p.m_pfds_used /\ p'.kernel = p.kernel /\ p'.m_pfds = s
            BY <3>2, <3>3 DEF DevRecord
        <3>5. due = {}
            <4> SUFFICES ASSUME NEW fd \in due PROVE FALSE
                OBVIOUS
            <4>1. PICK i \in 1..n : p.m_pfds[i].fd = fd
                BY DEF DevFresh
            <4> QED BY <1>a, <2>5, <2>6, <4>1
        <3>6. DevTables'
            BY <2>1, <3>4 DEF DevTables
        <3>7. Len(p'.m_pfds) = 0
            BY <3>2, <3>4
        <3>8. DevFresh'
            BY <3>1, <3>5, <3>7 DEF DevFresh
        <3> QED BY <3>1, <3>4, <3>6, <3>8
    <2>7. ASSUME NEW i \in 1..n,
                 /\ client(i) # NoClient
                 /\ \A j \in 1..n : client(j) # NoClient => j <= i
                 /\ r.p = [p EXCEPT !.m_pfds = SubSeq(@, 1, i - 1)]
                 /\ r.e = [fd |-> p.m_pfds[i].fd, revents |-> p.m_pfds[i].revents,
                           client |-> client(i)]
          PROVE  DevInv' /\ handling' \in Fds \cup {-1}
        <3> DEFINE fd == p.m_pfds[i].fd
                   s == SubSeq(p.m_pfds, 1, i - 1)
        <3>1. fd \in Fds /\ fd # -1 /\ r.e.fd = fd
            BY <1>0, <2>4, <2>7
        <3>2. handling' = fd /\ due' = due \ {fd} /\ phase' = "events"
            BY <2>1, <3>1
        <3>3. s \in Seq(DevSlot) /\ Len(s) = i - 1 /\ \A j \in 1..(i - 1) : s[j] = p.m_pfds[j]
            BY <2>3, <2>4
        <3>4. p' = [p EXCEPT !.m_pfds = s]
            BY <2>1, <2>7, Zenon
        <3> HIDE DEF s
        <3>5. /\ p' \in DevRecord /\ p'.m_clivents = p.m_clivents
              /\ p'.m_pfds_used = p.m_pfds_used /\ p'.kernel = p.kernel /\ p'.m_pfds = s
            BY <3>3, <3>4 DEF DevRecord
        <3>6. DevTables'
            BY <2>1, <3>5 DEF DevTables
        <3>7. \A j \in 1..(i - 1) : j \in 1..n /\ j # i
            BY <2>4
        <3>8. ASSUME NEW j \in 1..(i - 1) PROVE p'.m_pfds[j].revents # {}
            BY <3>3, <3>5, <3>7 DEF DevFresh
        <3>9. ASSUME NEW g \in due' PROVE \E j \in 1..(i - 1) : p'.m_pfds[j].fd = g
            <4>1. g \in due /\ g # fd
                BY <3>2
            <4>2. PICK j \in 1..n : p.m_pfds[j].fd = g
                BY <4>1 DEF DevFresh
            <4>3. client(j) # NoClient
                BY <1>a, <2>5, <4>1, <4>2
            <4>4. j <= i /\ j # i
                BY <2>7, <4>1, <4>2, <4>3
            <4>5. j \in 1..(i - 1)
                BY <2>4, <4>4
            <4> QED BY <3>3, <3>5, <4>2, <4>5
        <3>10. ASSUME ~foreign
               PROVE  /\ \A j \in 1..(i - 1) : p'.m_pfds[j].fd \in due' \ {handling'}
                      /\ \A j, k \in 1..(i - 1) : p'.m_pfds[j].fd = p'.m_pfds[k].fd => j = k
            <4>1. /\ \A j \in 1..n : p.m_pfds[j].fd \in due
                  /\ \A j, k \in 1..n : p.m_pfds[j].fd = p.m_pfds[k].fd => j = k
                BY <3>10 DEF DevFresh
            <4>2. ASSUME NEW j \in 1..(i - 1) PROVE p'.m_pfds[j].fd = p.m_pfds[j].fd
                BY <3>3, <3>5
            <4>3. ASSUME NEW j \in 1..(i - 1) PROVE p'.m_pfds[j].fd \in due' \ {handling'}
                <5>1. p.m_pfds[j].fd # fd /\ p.m_pfds[j].fd \in due
                    BY <3>7, <4>1
                <5> QED BY <3>2, <4>2, <5>1
            <4> QED BY <3>7, <4>1, <4>2, <4>3
        <3>11. Len(p'.m_pfds) = i - 1
            BY <3>3, <3>5
        <3>12. DevFresh'
            BY <2>1, <3>2, <3>8, <3>9, <3>10, <3>11, Zenon DEF DevFresh
        <3> QED BY <3>1, <3>2, <3>5, <3>6, <3>12
    <2> HIDE DEF r
    <2>8. r = Devpoll!getNextEvent(p)
        BY DEF r
    <2> QED BY <2>6, <2>7, <2>8, DevGiven, Zenon
<1>6. ASSUME NEW r \in [Fds -> SUBSET Events],
             \A fd \in Fds : r[fd] \subseteq IF fd \in registered THEN p.kernel[fd] ELSE {},
             Reports(Devpoll!waitForEvents(p, r), r)
      PROVE  DevInv' /\ handling' \in Fds \cup {-1}
    <2> DEFINE reported == {fd \in Fds : r[fd] # {}}
    <2>1. DevFound(p', reported)
        <3>1. p' = Devpoll!waitForEvents(p, r)
            BY <1>6 DEF Reports
        <3> QED BY <1>6, <3>1, DevWaited
    <2>2. /\ phase' = "events" /\ handling' = -1 /\ due' = reported /\ foreign' = FALSE
          /\ reg' = reg /\ registered' = registered /\ reported \subseteq Fds
        BY <1>6 DEF Reports, registered
    <2> HIDE DEF reported
    <2>3. DevTables'
        BY <2>1, <2>2 DEF DevTables, DevFound
    <2>4. DevFresh'
        BY <1>0, <2>1, <2>2 DEF DevFresh, DevFound
    <2>5. p' \in DevRecord
        BY <2>1 DEF DevFound
    <2> QED BY <2>2, <2>3, <2>4, <2>5
<1>7. ASSUME Reports(Devpoll!waitFails(p), Nothing)
      PROVE  DevInv' /\ handling' \in Fds \cup {-1}
    <2> DEFINE s == <<>>
    <2>1. p' = [p EXCEPT !.m_pfds = s]
        BY <1>7, Zenon DEF Reports, Devpoll!waitFails
    <2>2. s \in Seq(DevSlot) /\ Len(s) = 0
        OBVIOUS
    <2>3. /\ phase' = "events" /\ handling' = -1 /\ due' = {}
          /\ reg' = reg /\ registered' = registered
        BY <1>7 DEF Reports, registered, Nothing
    <2> HIDE DEF s
    <2>4. /\ p' \in DevRecord /\ p'.m_clivents = p.m_clivents
          /\ p'.m_pfds_used = p.m_pfds_used /\ p'.kernel = p.kernel /\ p'.m_pfds = s
        BY <2>1, <2>2 DEF DevRecord
    <2>5. DevTables'
        BY <2>3, <2>4 DEF DevTables
    <2>6. Len(p'.m_pfds) = 0
        BY <2>2, <2>4
    <2>7. DevFresh'
        BY <2>3, <2>6 DEF DevFresh
    <2> QED BY <2>3, <2>4, <2>5, <2>7
<1> HIDE DEF DevInv
<1>8. CASE Next
    <2>1. ASSUME NEW fd \in Fds \ registered, NEW c \in Clients, NEW m \in Masks, NEW w \in Writes,
                 p' = add(fd, c, m, w),
                 IF w /\ (p.class = "devpoll" => p.m_clivents[fd].client = NoClient)
                 THEN Registers(fd, c) ELSE Stays
          PROVE  DevInv' /\ handling' \in Fds \cup {-1}
        <3>1. m \in SUBSET Events /\ w \in BOOLEAN /\ p' = Devpoll!add(p, fd, c, m, w)
            BY <2>1, DevpollDispatch, Zenon
        <3>2. IF w /\ p.m_clivents[fd].client = NoClient THEN Registers(fd, c) ELSE Stays
            BY <2>1, Zenon
        <3> QED BY <1>2, <3>1, <3>2, Zenon
    <2>2. ASSUME NEW fd \in registered, NEW w \in Writes,
                 p' = del(fd, w), IF w THEN Deregisters(fd) ELSE Stays
          PROVE  DevInv' /\ handling' \in Fds \cup {-1}
        <3>1. w \in BOOLEAN /\ p' = Devpoll!del(p, fd, w)
            BY <2>2, DevpollDispatch, Zenon
        <3> QED BY <1>3, <2>2, <3>1, Zenon
    <2>3. ASSUME NEW fd \in registered, NEW m \in Masks, NEW w \in Writes, Stays,
                 p' \in {setMask(fd, m, w), orMask(fd, m, w), andMask(fd, m, w)}
          PROVE  DevInv' /\ handling' \in Fds \cup {-1}
        <3>1. m \in SUBSET Events /\ w \in BOOLEAN
            BY DevpollDispatch, Zenon
        <3>2. p' \in {Devpoll!setMask(p, fd, m, w), Devpoll!orMask(p, fd, m, w),
                      Devpoll!andMask(p, fd, m, w)}
            BY <2>3, DevpollDispatch, Zenon
        <3> QED BY <1>4, <2>3, <3>1, <3>2, Zenon
    <2>4. ASSUME Gets(getNextEvent, IF p.class = "kqueue" THEN Kqueue!left(getNextEvent.p) ELSE {})
          PROVE  DevInv' /\ handling' \in Fds \cup {-1}
        <3>1. p.class # "kqueue" /\ getNextEvent = Devpoll!getNextEvent(p)
            BY DevpollDispatch
        <3>2. Gets(Devpoll!getNextEvent(p), {})
            BY <2>4, <3>1, Zenon
        <3> QED BY <1>5, <3>2
    <2>5. ASSUME NEW r \in [Fds -> Masks],
                 \A fd \in Fds : r[fd] \subseteq IF fd \in registered THEN Wanted(fd) ELSE {},
                 Reports(waitForEvents(r), r)
          PROVE  DevInv' /\ handling' \in Fds \cup {-1}
        <3>1. r \in [Fds -> SUBSET Events]
            BY DevpollDispatch, Zenon
        <3>2. \A fd \in Fds : r[fd] \subseteq IF fd \in registered THEN p.kernel[fd] ELSE {}
            BY <2>5, DevpollDispatch, Zenon
        <3>3. Reports(Devpoll!waitForEvents(p, r), r)
            BY <2>5, DevpollDispatch, Zenon
        <3> QED BY <1>6, <3>1, <3>2, <3>3, Zenon
    <2>6. ASSUME Reports(waitFails, Nothing)
          PROVE  DevInv' /\ handling' \in Fds \cup {-1}
        BY <1>7, <2>6, DevpollDispatch, Zenon
    <2> QED BY <1>8, <2>1, <2>2, <2>3, <2>4, <2>5, <2>6, Steps, Zenon
<1> QED
    BY <1>1, <1>8 DEF DevInv

\* The object starts empty.
LEMMA DevInit ==
    ASSUME Init, p \in Devpoll!init
    PROVE  p.class = "devpoll" /\ DevInv
<1>0. N \in Nat /\ registered = {} /\ due = {} /\ phase = "events"
    BY FdsType DEF Init, registered
<1> DEFINE C == [fd \in Fds |-> [client |-> NoClient, events |-> {}]]
           K == [fd \in Fds |-> Devpoll!Unwatched]
           s == <<>>
<1>1. /\ C \in [Fds -> [client : Clients \cup {NoClient}, events : SUBSET Events]]
      /\ K \in [Fds -> (SUBSET Events) \cup {Devpoll!Unwatched}]
      /\ s \in Seq(DevSlot) /\ Len(s) = 0 /\ 0 \in 0..N
      /\ \A fd \in Fds : K[fd] = Devpoll!Unwatched
    BY <1>0
<1>2. p = [class |-> "devpoll", failed |-> FALSE, m_clivents |-> C, m_pfds_used |-> 0,
           m_pfds |-> s, kernel |-> K]
    BY Zenon DEF Devpoll!init
<1> HIDE DEF C, K, s
<1>3. /\ p \in DevRecord /\ p.class = "devpoll" /\ p.m_pfds_used = 0
      /\ p.m_pfds = s /\ p.kernel = K
    BY <1>1, <1>2 DEF DevRecord
<1>4. DevTables
    BY <1>0, <1>1, <1>3, FS_EmptySet DEF DevTables
<1>5. Len(p.m_pfds) = 0
    BY <1>1, <1>3
<1>6. DevFresh
    BY <1>0, <1>5 DEF DevFresh
<1> QED
    BY <1>3, <1>4, <1>6 DEF DevInv

\* The invariant of Poller_devpoll implies the properties.
LEMMA DevShows ==
    ASSUME Common, DevInv, p.class = "devpoll"
    PROVE  Shown
<1> USE DEF DevInv
<1>0. -1 \notin Fds /\ due \subseteq registered
    BY FdsType DEF Common
<1>1. TypeOK
    <2>1. /\ p.m_pfds_used \in 0..Cardinality(Fds)
          /\ p.kernel \in [Fds -> (SUBSET Events) \cup {Devpoll!Unwatched}]
        BY DEF DevRecord, N
    <2> QED BY <2>1, CommonTypes, Zenon DEF TypeOK
<1>2. TablesAgree
    <2>1. /\ ~p.failed
          /\ p.m_pfds_used = Cardinality(registered)
          /\ \A fd \in registered : p.m_clivents[fd].client = reg[fd]
          /\ \A fd \in Fds : p.kernel[fd] # Devpoll!Unwatched <=> fd \in registered
        BY DEF DevRecord, DevTables
    <2> QED BY <2>1, Zenon DEF TablesAgree
<1>3. upcoming = Devpoll!getNextEvent(p).e /\ Devpoll!NoEvent.fd = -1
    BY DevpollDispatch DEF upcoming, Devpoll!NoEvent
<1>4. NoneSkipped
    BY DEF NoneSkipped, DevFresh
<1>5. CASE upcoming.fd = -1
    BY <1>1, <1>2, <1>4, <1>5 DEF Shown, GivenToOwner, OnlyReported
<1>6. CASE upcoming.fd # -1
    <2> DEFINE r == Devpoll!getNextEvent(p)
    <2>1. PICK i \in 1..Len(p.m_pfds) :
            /\ p.m_clivents[p.m_pfds[i].fd].client # NoClient
            /\ r.e = [fd |-> p.m_pfds[i].fd, revents |-> p.m_pfds[i].revents,
                      client |-> p.m_clivents[p.m_pfds[i].fd].client]
        <3> HIDE DEF r, DevInv
        <3>1. p \in DevRecord /\ r = Devpoll!getNextEvent(p)
            BY DEF DevInv, r
        <3>2. r.e.fd # -1
            BY <1>3, <1>6, <3>1, Zenon
        <3> QED BY <1>3, <3>1, <3>2, DevGiven, ZenonT(60)
    <2> DEFINE fd == p.m_pfds[i].fd
    <2>2. /\ upcoming.fd = fd /\ upcoming.client = p.m_clivents[fd].client
          /\ upcoming.revents = p.m_pfds[i].revents
        BY <1>3, <2>1
    <2>3. p.m_pfds[i].revents # {}
        BY DEF DevFresh
    <2>4. ~foreign => fd \in due
        BY DEF DevFresh
    <2>5. fd \in Fds
        <3>1. p.m_pfds \in Seq(DevSlot)
            BY DEF DevRecord
        <3>2. p.m_pfds[i] \in DevSlot
            BY <3>1
        <3> QED BY <3>2 DEF DevSlot
    <2>6. fd \in registered => p.m_clivents[fd].client = reg[fd]
        BY DEF DevTables
    <2>7. fd \notin registered => reg[fd] = NoClient
        BY <2>5 DEF registered
    <2> QED BY <1>0, <1>1, <1>2, <1>4, <2>1, <2>2, <2>3, <2>4, <2>6, <2>7
            DEF Shown, GivenToOwner, OnlyReported
<1> QED
    BY <1>5, <1>6

------------------------------------------------------------------------------
\* An object of Poller_kqueue, and what the kernel has for a descriptor.
Udata == Clients \cup {NoClient}

KqResult == [fd : Fds, filter : SelectEvents, udata : Udata]

KqKernel == [Fds -> [SelectEvents -> Udata \cup {"absent"}]]

KqRecord ==
    [class : {"kqueue"}, failed : {FALSE},
     mNumFds : 0..N,
     mResults : Seq(KqResult),
     mNumResults : Nat,
     mCurResult : Nat,
     kernel : KqKernel]

\* The events of a kernel belong to descriptors that are registered.
KqOwned(K) ==
    \A fd \in Fds, b \in SelectEvents :
        K[fd][b] # "absent" => fd \in registered /\ K[fd][b] \in {reg[fd], NoClient}

KqTables == p.mNumFds = Cardinality(registered) /\ KqOwned(p.kernel)

\* The results still to be given out.
KqLeft == (p.mCurResult + 1)..Len(p.mResults)

\* What is still to be handled has a result left, and its results name its
\* client or nobody; as long as nothing was deleted, all results that are left
\* are still to be handled.
KqFresh ==
    /\ p.mNumResults = Len(p.mResults) /\ p.mCurResult \in 0..Len(p.mResults)
    /\ \A k \in KqLeft : p.mResults[k].fd \in due =>
            p.mResults[k].udata \in {NoClient, reg[p.mResults[k].fd]}
    /\ \A fd \in due : \E k \in KqLeft : p.mResults[k].fd = fd
    /\ ~foreign => \A k \in KqLeft : p.mResults[k].fd \in due
    /\ phase = "wait" => due = {}

KqInv == p \in KqRecord /\ KqTables /\ KqFresh

\* No client is taken for the absence of an event.
LEMMA AbsentIsNobody == Kqueue!Absent = "absent" /\ "absent" \notin Udata
<1> QED
    BY PollersAssumption DEF Kqueue!Absent, Udata

\* q is o with another kernel.
KqOther(o, q, K) ==
    /\ q \in KqRecord
    /\ q.kernel = K /\ q.mNumFds = o.mNumFds /\ q.mResults = o.mResults
    /\ q.mNumResults = o.mNumResults /\ q.mCurResult = o.mCurResult

\* The two ways to change the events of a descriptor.
KqAdds(K, L, fd, mask, c) ==
    /\ \A g \in Fds : g # fd => L[g] = K[g]
    /\ \A b \in SelectEvents :
        L[fd][b] = IF b \in mask /\ ~(c = NoClient /\ K[fd][b] # "absent") THEN c ELSE K[fd][b]

KqDrops(K, L, fd, mask) ==
    /\ \A g \in Fds : g # fd => L[g] = K[g]
    /\ \A b \in SelectEvents : L[fd][b] = IF b \in mask THEN K[fd][b] ELSE "absent"

\* setMaskInternal adds events; a null udata leaves those that exist.
LEMMA KqSet ==
    ASSUME NEW o \in KqRecord, NEW fd \in Fds, NEW mask \in SUBSET SelectEvents, NEW c \in Udata,
           NEW q, q = Kqueue!setMaskInternal(o, fd, mask, c)
    PROVE  \E L \in KqKernel : KqOther(o, q, L) /\ KqAdds(o.kernel, L, fd, mask, c)
<1> DEFINE e == [b \in SelectEvents |->
                    IF b \in mask
                    THEN IF c = NoClient /\ o.kernel[fd][b] # "absent" THEN o.kernel[fd][b] ELSE c
                    ELSE o.kernel[fd][b]]
           L == [o.kernel EXCEPT ![fd] = e]
<1>0. o.kernel \in KqKernel
    BY DEF KqRecord
<1>1. e \in [SelectEvents -> Udata \cup {"absent"}]
    BY <1>0 DEF KqKernel
<1>2. \A b \in SelectEvents :
        e[b] = IF b \in mask /\ ~(c = NoClient /\ o.kernel[fd][b] # "absent") THEN c
               ELSE o.kernel[fd][b]
    BY <1>0
<1>3. q = [o EXCEPT !.kernel[fd] = e]
    BY AbsentIsNobody DEF Kqueue!setMaskInternal
<1> HIDE DEF e
<1>4. L \in KqKernel /\ L[fd] = e /\ \A g \in Fds : g # fd => L[g] = o.kernel[g]
    BY <1>0, <1>1 DEF KqKernel
<1>5. q = [o EXCEPT !.kernel = L]
    BY <1>3 DEF KqRecord
<1> HIDE DEF L
<1>6. KqOther(o, q, L)
    BY <1>4, <1>5 DEF KqOther, KqRecord
<1>7. KqAdds(o.kernel, L, fd, mask, c)
    BY <1>2, <1>4 DEF KqAdds
<1> QED
    BY <1>4, <1>6, <1>7

\* clearMaskInternal drops the events that are not in the mask.
LEMMA KqClear ==
    ASSUME NEW o \in KqRecord, NEW fd \in Fds, NEW mask \in SUBSET SelectEvents,
           NEW q, q = Kqueue!clearMaskInternal(o, fd, mask)
    PROVE  \E L \in KqKernel : KqOther(o, q, L) /\ KqDrops(o.kernel, L, fd, mask)
<1> DEFINE e == [b \in SelectEvents |-> IF b \in mask THEN o.kernel[fd][b] ELSE "absent"]
           L == [o.kernel EXCEPT ![fd] = e]
<1>0. o.kernel \in KqKernel
    BY DEF KqRecord
<1>1. e \in [SelectEvents -> Udata \cup {"absent"}]
    BY <1>0 DEF KqKernel
<1>2. \A b \in SelectEvents : e[b] = IF b \in mask THEN o.kernel[fd][b] ELSE "absent"
    BY <1>0
<1>3. q = [o EXCEPT !.kernel[fd] = e]
    BY AbsentIsNobody DEF Kqueue!clearMaskInternal
<1> HIDE DEF e
<1>4. L \in KqKernel /\ L[fd] = e /\ \A g \in Fds : g # fd => L[g] = o.kernel[g]
    BY <1>0, <1>1 DEF KqKernel
<1>5. q = [o EXCEPT !.kernel = L]
    BY <1>3 DEF KqRecord
<1> HIDE DEF L
<1>6. KqOther(o, q, L)
    BY <1>4, <1>5 DEF KqOther, KqRecord
<1>7. KqDrops(o.kernel, L, fd, mask)
    BY <1>2, <1>4 DEF KqDrops
<1> QED
    BY <1>4, <1>6, <1>7

\* Neither gives an event to anybody but the owner.
LEMMA KqMasked ==
    ASSUME p \in KqRecord, KqTables, NEW fd \in registered, NEW m \in SUBSET SelectEvents,
           NEW q, q \in {Kqueue!setMask(p, fd, m), Kqueue!orMask(p, fd, m), Kqueue!andMask(p, fd, m)}
    PROVE  \E L \in KqKernel : KqOther(p, q, L) /\ KqOwned(L)
<1>0. fd \in Fds /\ NoClient \in Udata
    BY DEF registered, Udata
<1>1. \A K, L : KqOwned(K) /\ KqAdds(K, L, fd, m, NoClient) => KqOwned(L)
    <2> SUFFICES ASSUME NEW K, NEW L, KqOwned(K), KqAdds(K, L, fd, m, NoClient),
                        NEW g \in Fds, NEW b \in SelectEvents, L[g][b] # "absent"
                 PROVE  g \in registered /\ L[g][b] \in {reg[g], NoClient}
        BY DEF KqOwned
    <2>1. CASE g = fd
        BY <2>1 DEF KqOwned, KqAdds
    <2>2. CASE g # fd
        BY <2>2 DEF KqOwned, KqAdds
    <2> QED BY <2>1, <2>2
<1>2. \A K, L : KqOwned(K) /\ KqDrops(K, L, fd, m) => KqOwned(L)
    <2> SUFFICES ASSUME NEW K, NEW L, KqOwned(K), KqDrops(K, L, fd, m),
                        NEW g \in Fds, NEW b \in SelectEvents, L[g][b] # "absent"
                 PROVE  g \in registered /\ L[g][b] \in {reg[g], NoClient}
        BY DEF KqOwned
    <2>1. CASE g = fd
        BY <2>1 DEF KqOwned, KqDrops
    <2>2. CASE g # fd
        BY <2>2 DEF KqOwned, KqDrops
    <2> QED BY <2>1, <2>2
<1>3. KqOwned(p.kernel)
    BY DEF KqTables
<1>4. CASE q = Kqueue!orMask(p, fd, m)
    <2>1. q = Kqueue!setMaskInternal(p, fd, m, NoClient)
        BY <1>4, Zenon DEF Kqueue!orMask
    <2> QED BY <1>0, <1>1, <1>3, <2>1, KqSet
<1>5. CASE q = Kqueue!andMask(p, fd, m)
    <2>1. q = Kqueue!clearMaskInternal(p, fd, m)
        BY <1>5, Zenon DEF Kqueue!andMask
    <2> QED BY <1>0, <1>2, <1>3, <2>1, KqClear
<1>6. CASE q = Kqueue!setMask(p, fd, m)
    <2> DEFINE o == Kqueue!setMaskInternal(p, fd, m, NoClient)
    <2>1. q = Kqueue!clearMaskInternal(o, fd, m)
        BY <1>6, Zenon DEF Kqueue!setMask
    <2>2. PICK K \in KqKernel : KqOther(p, o, K) /\ KqAdds(p.kernel, K, fd, m, NoClient)
        BY <1>0, KqSet
    <2> HIDE DEF o
    <2>3. o \in KqRecord /\ o.kernel = K /\ KqOwned(K)
        BY <1>1, <1>3, <2>2 DEF KqOther
    <2>4. PICK L \in KqKernel : KqOther(o, q, L) /\ KqDrops(o.kernel, L, fd, m)
        BY <1>0, <2>1, <2>3, KqClear
    <2>5. KqOwned(L)
        BY <1>2, <2>3, <2>4
    <2>6. KqOther(p, q, L)
        BY <2>2, <2>4 DEF KqOther
    <2> QED BY <2>5, <2>6
<1> QED
    BY <1>4, <1>5, <1>6

\* The counter goes along with add() and del().
LEMMA KqCounted ==
    ASSUME NEW o \in KqRecord, NEW n \in 0..N, NEW q, q = [o EXCEPT !.mNumFds = n]
    PROVE  /\ q \in KqRecord
           /\ q.kernel = o.kernel /\ q.mNumFds = n /\ q.mResults = o.mResults
           /\ q.mNumResults = o.mNumResults /\ q.mCurResult = o.mCurResult
<1> QED
    BY DEF KqRecord

\* q has n descriptors, and the results of p.
KqKeeps(q, n) ==
    /\ q \in KqRecord /\ q.mNumFds = n
    /\ q.mResults = p.mResults /\ q.mNumResults = p.mNumResults /\ q.mCurResult = p.mCurResult

\* add() makes events for the new descriptor only.
LEMMA KqAdded ==
    ASSUME p \in KqRecord, p.mNumFds < N, NEW fd \in Fds, NEW c \in Clients,
           NEW m \in SUBSET SelectEvents, NEW q, q = Kqueue!add(p, fd, c, m)
    PROVE  KqKeeps(q, p.mNumFds + 1) /\ KqAdds(p.kernel, q.kernel, fd, m, c)
<1> DEFINE n == p.mNumFds + 1
           o == [p EXCEPT !.mNumFds = n]
<1>0. n \in 0..N /\ c \in Udata
    BY FdsType DEF KqRecord, Udata
<1>1. q = Kqueue!setMaskInternal(o, fd, m, c)
    BY Zenon DEF Kqueue!add
<1> HIDE DEF n
<1>2. /\ o \in KqRecord
      /\ o.kernel = p.kernel /\ o.mNumFds = n /\ o.mResults = p.mResults
      /\ o.mNumResults = p.mNumResults /\ o.mCurResult = p.mCurResult
    BY <1>0, KqCounted
<1> HIDE DEF o
<1>3. PICK L \in KqKernel : KqOther(o, q, L) /\ KqAdds(o.kernel, L, fd, m, c)
    BY <1>0, <1>1, <1>2, KqSet, Zenon
<1>4. q.kernel = L /\ KqKeeps(q, n)
    BY <1>2, <1>3, Zenon DEF KqOther, KqKeeps
<1>5. KqAdds(p.kernel, q.kernel, fd, m, c)
    BY <1>2, <1>3, <1>4, Zenon
<1> QED
    BY <1>4, <1>5, Zenon DEF n

\* del() takes all events of the descriptor away.
LEMMA KqDeleted ==
    ASSUME p \in KqRecord, p.mNumFds # 0, NEW fd \in Fds, NEW q, q = Kqueue!del(p, fd)
    PROVE  KqKeeps(q, p.mNumFds - 1) /\ KqDrops(p.kernel, q.kernel, fd, {})
<1> DEFINE o == Kqueue!clearMaskInternal(p, fd, {})
           n == p.mNumFds - 1
<1>0. n \in 0..N
    BY FdsType DEF KqRecord
<1>1. q = [o EXCEPT !.mNumFds = o.mNumFds - 1]
    BY Zenon DEF Kqueue!del
<1>2. PICK L \in KqKernel : KqOther(p, o, L) /\ KqDrops(p.kernel, L, fd, {})
    <2>1. {} \in SUBSET SelectEvents
        OBVIOUS
    <2> QED BY <2>1, KqClear
<1> HIDE DEF o
<1>3. o \in KqRecord /\ o.kernel = L /\ o.mNumFds = p.mNumFds
    BY <1>2, Zenon DEF KqOther
<1>4. q = [o EXCEPT !.mNumFds = n]
    BY <1>1, <1>3, Zenon
<1> HIDE DEF n
<1>5. /\ q \in KqRecord
      /\ q.kernel = o.kernel /\ q.mNumFds = n /\ q.mResults = o.mResults
      /\ q.mNumResults = o.mNumResults /\ q.mCurResult = o.mCurResult
    BY <1>0, <1>3, <1>4, KqCounted
<1>6. KqKeeps(q, n)
    BY <1>2, <1>5, Zenon DEF KqOther, KqKeeps
<1>7. KqDrops(p.kernel, q.kernel, fd, {})
    BY <1>2, <1>3, <1>5, Zenon
<1> QED
    BY <1>6, <1>7, Zenon DEF n


\* The next result, if there is one, is given out.
KqGives(r) ==
    IF p.mCurResult = Len(p.mResults) THEN r.p = p /\ r.e.fd = -1
    ELSE LET k == p.mCurResult + 1
         IN  /\ r.p \in KqRecord
             /\ r.p.kernel = p.kernel /\ r.p.mNumFds = p.mNumFds
             /\ r.p.mResults = p.mResults /\ r.p.mNumResults = p.mNumResults
             /\ r.p.mCurResult = k
             /\ k \in KqLeft
             /\ r.e.fd = p.mResults[k].fd /\ r.e.client = p.mResults[k].udata
             /\ r.e.revents # {}

\* getNextEvent does so, when the results are those of a wait that did not
\* fail.
LEMMA KqGiven ==
    ASSUME p \in KqRecord, p.mNumResults = Len(p.mResults), p.mCurResult \in 0..Len(p.mResults),
           NEW r, r = Kqueue!getNextEvent(p)
    PROVE  KqGives(r)
<1>0. Len(p.mResults) \in Nat
    BY DEF KqRecord
<1>1. CASE p.mCurResult = Len(p.mResults)
    <2>1. r = [p |-> p, e |-> Kqueue!NoEvent]
        BY <1>1, Zenon DEF Kqueue!getNextEvent
    <2>2. r.p = p /\ r.e.fd = -1
        BY <2>1 DEF Kqueue!NoEvent
    <2> QED BY <1>1, <2>2, Zenon DEF KqGives
<1>2. CASE p.mCurResult # Len(p.mResults)
    <2> DEFINE k == p.mCurResult + 1
               o == [p EXCEPT !.mCurResult = k]
               ke == p.mResults[k]
               e == [fd |-> ke.fd, revents |-> {ke.filter}, client |-> ke.udata]
    <2>1. ~(p.mCurResult >= Len(p.mResults)) /\ k \in KqLeft /\ k \in Nat
        BY <1>0, <1>2 DEF KqLeft
    <2>2. r = [p |-> o, e |-> e]
        BY <1>2, <2>1, Zenon DEF Kqueue!getNextEvent
    <2>3. r.p = o /\ r.e = e
        <3> HIDE DEF o, e
        <3> QED BY <2>2
    <2>4. e.fd = ke.fd /\ e.client = ke.udata /\ e.revents # {}
        OBVIOUS
    <2> HIDE DEF k, e
    <2>5. /\ o \in KqRecord
          /\ o.kernel = p.kernel /\ o.mNumFds = p.mNumFds
          /\ o.mResults = p.mResults /\ o.mNumResults = p.mNumResults
          /\ o.mCurResult = k
        BY <2>1 DEF KqRecord
    <2> HIDE DEF o
    <2> QED BY <1>2, <2>1, <2>3, <2>4, <2>5, Zenon DEF KqGives, k
<1> QED
    BY <1>1, <1>2

\* q is the object after kevent() has found r: a result for every descriptor
\* and bit, with the client that the kernel has for it.
KqFound(q, r) ==
    /\ q \in KqRecord
    /\ q.kernel = p.kernel /\ q.mNumFds = p.mNumFds
    /\ q.mNumResults = Len(q.mResults) /\ q.mCurResult = 0
    /\ \A k \in 1..Len(q.mResults) :
        LET x == q.mResults[k]
        IN  x.filter \in r[x.fd] /\ x.udata = p.kernel[x.fd][x.filter]
    /\ \A fd \in Fds : r[fd] # {} => \E k \in 1..Len(q.mResults) : q.mResults[k].fd = fd

\* kevent() answers with what it found.
LEMMA KqWaited ==
    ASSUME p \in KqRecord, NEW r \in [Fds -> SUBSET SelectEvents],
           \A fd \in Fds : r[fd] \subseteq Kqueue!watched(p, fd)
    PROVE  KqFound(Kqueue!waitForEvents(p, r), r)
<1> DEFINE found == {x \in Fds \X SelectEvents : x[2] \in Kqueue!watched(p, x[1]) \cap r[x[1]]}
           place(fd, b) == 2 * fd - (IF b = "IN" THEN 1 ELSE 0)
           upTo(y) == {z \in found : place(z[1], z[2]) <= place(y[1], y[2])}
           at(k) == CHOOSE y \in found : k = Kqueue!Cardinality(upTo(y))
           result(k) == [fd |-> at(k)[1], filter |-> at(k)[2], udata |-> p.kernel[at(k)[1]][at(k)[2]]]
           n == Cardinality(found)
           L == [k \in 1..n |-> result(k)]
           key == [x \in found |-> place(x[1], x[2])]
           q == Kqueue!waitForEvents(p, r)
<1>1. q = [p EXCEPT !.mResults = L, !.mNumResults = n, !.mCurResult = 0]
    <2> DEFINE M == [k \in 1..Kqueue!Cardinality(found) |-> result(k)]
    <2>1. q = [p EXCEPT !.mResults = M, !.mNumResults = Kqueue!Cardinality(found),
                        !.mCurResult = 0]
        BY Zenon DEF Kqueue!waitForEvents
    <2>2. Kqueue!Cardinality(found) = n
        BY KqueueCardinality, Zenon
    <2> HIDE DEF found, result
    <2>3. M = L
        BY <2>2, Zenon
    <2> QED BY <2>1, <2>2, <2>3, Zenon
<1>2. ASSUME NEW x \in found
      PROVE  /\ x[1] \in Fds /\ x[2] \in SelectEvents /\ x[2] \in r[x[1]]
             /\ p.kernel[x[1]][x[2]] # "absent" /\ x = <<x[1], x[2]>>
    BY AbsentIsNobody DEF Kqueue!watched
<1>3. \A fd \in Fds : \A b \in r[fd] : <<fd, b>> \in found
    BY DEF Kqueue!watched
<1>4. IsFiniteSet(found)
    <2>1. IsFiniteSet(SelectEvents)
        <3>1. IsFiniteSet({"IN", "OUT"})
            <4>1. IsFiniteSet({} \cup {"IN"})
                BY FS_EmptySet, FS_AddElement
            <4>2. IsFiniteSet(({} \cup {"IN"}) \cup {"OUT"})
                BY <4>1, FS_AddElement
            <4>3. ({} \cup {"IN"}) \cup {"OUT"} = {"IN", "OUT"}
                OBVIOUS
            <4> QED BY <4>2, <4>3, Zenon
        <3> QED BY <3>1, FS_Subset, PollersAssumption
    <2>2. IsFiniteSet(Fds \X SelectEvents)
        BY <2>1, FdsType, FS_Product
    <2>3. found \in SUBSET (Fds \X SelectEvents)
        OBVIOUS
    <2> HIDE DEF found
    <2> QED BY <2>2, <2>3, FS_Subset
<1> HIDE DEF found
<1>5. key \in [found -> Int] /\ \A x \in found : key[x] = place(x[1], x[2])
    <2>1. \A x \in found : place(x[1], x[2]) \in Int
        BY <1>2, FdsType
    <2> HIDE DEF place
    <2> QED BY <2>1
<1>6. ASSUME NEW x \in found, NEW y \in found, key[x] = key[y] PROVE x = y
    <2>1. x[2] \in {"IN", "OUT"} /\ y[2] \in {"IN", "OUT"} /\ x[1] \in Int /\ y[1] \in Int
        BY <1>2, FdsType, PollersAssumption
    <2>2. place(x[1], x[2]) = place(y[1], y[2])
        BY <1>5, <1>6
    <2>3. x[1] = y[1] /\ x[2] = y[2]
        <3>1. ASSUME NEW a \in Int, NEW b \in Int, NEW s \in {"IN", "OUT"}, NEW t \in {"IN", "OUT"},
                     place(a, s) = place(b, t)
              PROVE  a = b /\ s = t
            BY <3>1
        <3> HIDE DEF place
        <3> QED BY <2>1, <2>2, <3>1
    <2> QED BY <1>2, <2>3
<1>7. \A x \in found : Kqueue!Cardinality(upTo(x)) = Rank(found, key, x)
    <2> SUFFICES ASSUME NEW x \in found PROVE Kqueue!Cardinality(upTo(x)) = Rank(found, key, x)
        OBVIOUS
    <2>1. upTo(x) = {z \in found : key[z] <= key[x]}
        <3> HIDE DEF place, key
        <3> QED BY <1>5
    <2> HIDE DEF upTo
    <2> QED BY <2>1, KqueueCardinality, Zenon DEF Rank
<1> HIDE DEF key
<1>8. Ranked(found, key)
    BY <1>4, <1>5, <1>6, Ranks
<1> HIDE DEF upTo
<1>9. ASSUME NEW k \in 1..n PROVE at(k) \in found /\ Rank(found, key, at(k)) = k
    <2>1. \E x \in found : Rank(found, key, x) = k
        BY <1>8, Zenon DEF Ranked
    <2>2. \E x \in found : k = Kqueue!Cardinality(upTo(x))
        BY <1>7, <2>1, Zenon
    <2>3. at(k) \in found /\ k = Kqueue!Cardinality(upTo(at(k)))
        BY <2>2, Zenon
    <2> HIDE DEF at
    <2> QED BY <1>7, <2>3, Zenon
<1>10. ASSUME NEW x \in found PROVE \E k \in 1..n : at(k) = x
    <2>1. Rank(found, key, x) \in 1..n
        BY <1>8, Zenon DEF Ranked
    <2>2. at(Rank(found, key, x)) \in found
          /\ Rank(found, key, at(Rank(found, key, x))) = Rank(found, key, x)
        BY <1>9, <2>1
    <2> HIDE DEF at
    <2> QED BY <1>8, <2>1, <2>2, Zenon DEF Ranked
<1> HIDE DEF at
<1>11. n \in Nat
    BY <1>4, FS_CardinalityType
<1> HIDE DEF n
<1>12. \A k \in 1..n :
        /\ L[k].fd = at(k)[1] /\ L[k].filter = at(k)[2]
        /\ L[k].udata = p.kernel[at(k)[1]][at(k)[2]] /\ L[k] \in KqResult
    <2> SUFFICES ASSUME NEW k \in 1..n
                 PROVE  /\ L[k].fd = at(k)[1] /\ L[k].filter = at(k)[2]
                        /\ L[k].udata = p.kernel[at(k)[1]][at(k)[2]] /\ L[k] \in KqResult
        OBVIOUS
    <2> DEFINE fd == at(k)[1]
               b == at(k)[2]
               u == p.kernel[fd][b]
    <2>1. fd \in Fds /\ b \in SelectEvents /\ u # "absent"
        BY <1>2, <1>9
    <2>2. p.kernel \in KqKernel
        BY DEF KqRecord
    <2>3. u \in Udata
        BY <2>1, <2>2 DEF KqKernel
    <2>4. L[k] = [fd |-> fd, filter |-> b, udata |-> u]
        OBVIOUS
    <2> HIDE DEF L, fd, b, u
    <2>5. L[k].fd = fd /\ L[k].filter = b /\ L[k].udata = u /\ L[k] \in KqResult
        BY <2>1, <2>3, <2>4 DEF KqResult
    <2> QED BY <2>5 DEF fd, b, u
<1>13. L \in Seq(KqResult) /\ Len(L) = n
    <2>1. L \in [1..n -> KqResult]
        <3>1. DOMAIN L = 1..n /\ L = [k \in 1..n |-> L[k]]
            BY Zenon
        <3> HIDE DEF L
        <3> QED BY <1>12, <3>1, Zenon
    <2> HIDE DEF L
    <2>2. L \in Seq(KqResult)
        BY <1>11, <2>1
    <2>3. Len(L) = n
        BY <1>11, <2>1, <2>2
    <2> QED BY <2>2, <2>3
<1> HIDE DEF L, q
<1>14. /\ q \in KqRecord /\ q.kernel = p.kernel /\ q.mNumFds = p.mNumFds
       /\ q.mResults = L /\ q.mNumResults = n /\ q.mCurResult = 0
    BY <1>1, <1>11, <1>13 DEF KqRecord
<1>15. ASSUME NEW k \in 1..n
       PROVE  L[k].filter \in r[L[k].fd] /\ L[k].udata = p.kernel[L[k].fd][L[k].filter]
    BY <1>2, <1>9, <1>12, Zenon
<1>16. ASSUME NEW fd \in Fds, r[fd] # {} PROVE \E k \in 1..n : L[k].fd = fd
    <2>1. PICK b \in r[fd] : TRUE
        BY <1>16
    <2>2. PICK k \in 1..n : at(k) = <<fd, b>>
        BY <1>3, <1>10
    <2> QED BY <1>12, <2>2
<1>17. KqFound(q, r)
    BY <1>13, <1>14, <1>15, <1>16, Zenon DEF KqFound
<1> QED
    BY <1>17 DEF q

(***************************************************************************)
(* Every step keeps the invariant of Poller_kqueue. A wait that fails is   *)
(* left out: mNumResults is -1 after it, and the results before it are     *)
(* given out again.                                                        *)
(***************************************************************************)
LEMMA KqStays ==
    ASSUME Common, KqInv, p.class = "kqueue", "kqueue" \notin Interrupted, [Next]_vars
    PROVE  KqInv' /\ handling' \in Fds \cup {-1}
<1> USE DEF KqInv
<1>0. N \in Nat /\ Fds = 1..N /\ -1 \notin Fds /\ registered \subseteq Fds
      /\ reg \in [Fds -> Clients \cup {NoClient}]
    BY FdsType DEF registered, Common
<1>a. due \subseteq registered /\ handling \in Fds \cup {-1}
    BY DEF Common
<1>b. p.kernel \in KqKernel /\ p.mResults \in Seq(KqResult) /\ KqOwned(p.kernel)
    BY DEF KqRecord, KqTables
<1>c. Len(p.mResults) \in Nat /\ \A k \in 1..Len(p.mResults) : p.mResults[k].fd \in Fds
    <2>1. Len(p.mResults) \in Nat /\ \A k \in 1..Len(p.mResults) : p.mResults[k] \in KqResult
        BY <1>b
    <2> QED BY <2>1 DEF KqResult
<1>d. KqLeft \subseteq 1..Len(p.mResults)
    BY <1>c DEF KqLeft, KqFresh
<1>1. CASE UNCHANGED vars
    BY <1>1, <1>a DEF vars, ghosts, KqTables, KqOwned, KqFresh, KqLeft, registered
<1>2. ASSUME NEW fd \in Fds \ registered, NEW c \in Clients, NEW m \in SUBSET SelectEvents,
             p' = Kqueue!add(p, fd, c, m), Registers(fd, c)
      PROVE  KqInv' /\ handling' \in Fds \cup {-1}
    <2>1. p.mNumFds < N
        BY <1>0, RegisteredCount DEF KqTables
    <2>2. KqKeeps(p', p.mNumFds + 1) /\ KqAdds(p.kernel, p'.kernel, fd, m, c)
        BY <1>2, <2>1, KqAdded
    <2>3. reg' = [reg EXCEPT ![fd] = c] /\ UNCHANGED <<phase, handling, due, foreign>>
        BY <1>2 DEF Registers
    <2>4. registered' = registered \cup {fd} /\ Cardinality(registered') = Cardinality(registered) + 1
        BY <1>0, <2>3, RegisterOne
    <2>5. reg'[fd] = c /\ \A g \in Fds : g # fd => reg'[g] = reg[g]
        BY <1>0, <2>3
    <2>6. ASSUME NEW g \in Fds, NEW b \in SelectEvents, p'.kernel[g][b] # "absent"
          PROVE  g \in registered' /\ p'.kernel[g][b] \in {reg'[g], NoClient}
        <3>1. CASE g = fd
            <4>1. p.kernel[fd][b] = "absent"
                BY <1>b DEF KqOwned
            <4>2. p'.kernel[fd][b] = IF b \in m THEN c ELSE "absent"
                BY <2>2, <4>1 DEF KqAdds
            <4> QED BY <2>4, <2>5, <2>6, <3>1, <4>2
        <3>2. CASE g # fd
            <4>1. p'.kernel[g] = p.kernel[g]
                BY <2>2, <3>2 DEF KqAdds
            <4>2. g \in registered /\ p.kernel[g][b] \in {reg[g], NoClient}
                BY <1>b, <2>6, <4>1 DEF KqOwned
            <4> QED BY <2>4, <2>5, <3>2, <4>1, <4>2
        <3> QED BY <3>1, <3>2
    <2>7. p' \in KqRecord /\ KqTables'
        BY <2>2, <2>4, <2>6 DEF KqKeeps, KqTables, KqOwned
    <2>8. \A g \in due : g # fd /\ reg'[g] = reg[g]
        BY <1>0, <1>a, <2>5
    <2>9. /\ p'.mResults = p.mResults /\ p'.mNumResults = p.mNumResults
          /\ p'.mCurResult = p.mCurResult /\ KqLeft' = KqLeft
        BY <2>2 DEF KqKeeps, KqLeft
    <2>10. KqFresh'
        BY <2>3, <2>8, <2>9 DEF KqFresh
    <2> QED BY <1>a, <2>3, <2>7, <2>10
<1>3. ASSUME NEW fd \in registered, p' = Kqueue!del(p, fd), Deregisters(fd)
      PROVE  KqInv' /\ handling' \in Fds \cup {-1}
    <2>1. p.mNumFds # 0 /\ fd \in Fds
        BY <1>0, RegisteredCount, FS_EmptySet DEF KqTables
    <2>2. KqKeeps(p', p.mNumFds - 1) /\ KqDrops(p.kernel, p'.kernel, fd, {})
        BY <1>3, <2>1, KqDeleted
    <2>3. /\ reg' = [reg EXCEPT ![fd] = NoClient] /\ due' = due \ {fd} /\ foreign'
          /\ UNCHANGED <<phase, handling>>
        BY <1>3 DEF Deregisters
    <2>4. registered' = registered \ {fd} /\ Cardinality(registered') = Cardinality(registered) - 1
        BY <1>0, <2>3, DeregisterOne
    <2>5. \A g \in Fds : g # fd => reg'[g] = reg[g]
        BY <1>0, <2>3
    <2>6. ASSUME NEW g \in Fds, NEW b \in SelectEvents, p'.kernel[g][b] # "absent"
          PROVE  g \in registered' /\ p'.kernel[g][b] \in {reg'[g], NoClient}
        <3>1. g # fd /\ p'.kernel[g] = p.kernel[g]
            BY <2>2, <2>6 DEF KqDrops
        <3>2. g \in registered /\ p.kernel[g][b] \in {reg[g], NoClient}
            BY <1>b, <2>6, <3>1 DEF KqOwned
        <3> QED BY <2>4, <2>5, <3>1, <3>2
    <2>7. p' \in KqRecord /\ KqTables'
        BY <2>2, <2>4, <2>6 DEF KqKeeps, KqTables, KqOwned
    <2>8. \A g \in due' : g \in due /\ reg'[g] = reg[g]
        BY <1>0, <1>a, <2>3, <2>5
    <2>9. /\ p'.mResults = p.mResults /\ p'.mNumResults = p.mNumResults
          /\ p'.mCurResult = p.mCurResult /\ KqLeft' = KqLeft
        BY <2>2 DEF KqKeeps, KqLeft
    <2>10. KqFresh'
        BY <2>3, <2>8, <2>9 DEF KqFresh
    <2> QED BY <1>a, <2>3, <2>7, <2>10
<1>4. ASSUME NEW fd \in registered, NEW m \in SUBSET SelectEvents, Stays,
             p' \in {Kqueue!setMask(p, fd, m), Kqueue!orMask(p, fd, m), Kqueue!andMask(p, fd, m)}
      PROVE  KqInv' /\ handling' \in Fds \cup {-1}
    <2>1. PICK L \in KqKernel : KqOther(p, p', L) /\ KqOwned(L)
        BY <1>4, KqMasked
    <2>2. UNCHANGED <<reg, phase, handling, due, foreign, registered>>
        BY <1>4 DEF Stays, registered
    <2>3. /\ p' \in KqRecord /\ p'.kernel = L /\ p'.mNumFds = p.mNumFds
          /\ p'.mResults = p.mResults /\ p'.mNumResults = p.mNumResults
          /\ p'.mCurResult = p.mCurResult
        BY <2>1 DEF KqOther
    <2>4. KqTables'
        BY <2>1, <2>2, <2>3 DEF KqTables, KqOwned
    <2>5. KqFresh'
        BY <2>2, <2>3 DEF KqFresh, KqLeft
    <2> QED BY <1>a, <2>2, <2>3, <2>4, <2>5
<1>5. ASSUME NEW r, r = Kqueue!getNextEvent(p), Gets(r, Kqueue!left(r.p))
      PROVE  KqInv' /\ handling' \in Fds \cup {-1}
    <2>1. KqGives(r)
        BY <1>5, KqGiven DEF KqFresh
    <2>2. /\ p' = r.p /\ handling' = r.e.fd
          /\ phase' = IF r.e.fd = -1 THEN "wait" ELSE "events"
          /\ due' = due \ ({r.e.fd} \ Kqueue!left(p')) /\ reg' = reg /\ foreign' = foreign
          /\ registered' = registered
        BY <1>5 DEF Gets, registered
    <2>3. CASE p.mCurResult = Len(p.mResults)
        <3>1. p' = p /\ r.e.fd = -1
            BY <2>1, <2>2, <2>3, Zenon DEF KqGives
        <3>2. KqLeft = {}
            BY <1>c, <2>3 DEF KqLeft
        <3>3. due = {}
            BY <3>2 DEF KqFresh
        <3>4. due' = {} /\ handling' = -1
            BY <2>2, <3>1, <3>3
        <3>5. KqTables'
            BY <2>2, <3>1 DEF KqTables, KqOwned
        <3>6. KqLeft' = {}
            BY <3>1, <3>2 DEF KqLeft
        <3>7. KqFresh'
            BY <3>1, <3>4, <3>6 DEF KqFresh
        <3> QED BY <3>1, <3>4, <3>5, <3>7
    <2>4. CASE p.mCurResult # Len(p.mResults)
        <3> DEFINE k == p.mCurResult + 1
                   fd == p.mResults[k].fd
        <3>1. /\ p' \in KqRecord /\ p'.kernel = p.kernel /\ p'.mNumFds = p.mNumFds
              /\ p'.mResults = p.mResults /\ p'.mNumResults = p.mNumResults
              /\ p'.mCurResult = k /\ k \in KqLeft /\ r.e.fd = fd
            BY <2>1, <2>2, <2>4, Zenon DEF KqGives
        <3>2. fd \in Fds /\ fd # -1
            BY <1>0, <1>c, <1>d, <3>1
        <3>3. KqLeft' = KqLeft \ {k} /\ KqLeft' = (k + 1)..Len(p.mResults)
            BY <1>c, <3>1 DEF KqLeft, KqFresh
        <3>4. Kqueue!left(p') = {p.mResults[j].fd : j \in KqLeft'}
            <4>1. KqLeft' = p'.mCurResult + 1 .. p'.mNumResults
                BY <3>1 DEF KqLeft, KqFresh
            <4> QED BY <3>1, <4>1, Zenon DEF Kqueue!left
        <3>5. handling' = fd /\ phase' = "events"
            BY <2>2, <3>1, <3>2
        <3>6. \A g \in due' : g \in due /\ \E j \in KqLeft' : p.mResults[j].fd = g
            <4> SUFFICES ASSUME NEW g \in due'
                         PROVE  g \in due /\ \E j \in KqLeft' : p.mResults[j].fd = g
                OBVIOUS
            <4>1. g \in due /\ (g = fd => g \in Kqueue!left(p'))
                BY <2>2, <3>1
            <4>2. CASE g = fd
                BY <3>4, <4>1, <4>2
            <4>3. CASE g # fd
                <5>1. PICK j \in KqLeft : p.mResults[j].fd = g
                    BY <4>1 DEF KqFresh
                <5>2. j # k
                    BY <4>3, <5>1
                <5> QED BY <3>3, <4>1, <5>1, <5>2
            <4> QED BY <4>2, <4>3
        <3>7. ASSUME NEW j \in KqLeft', p.mResults[j].fd \in due PROVE p.mResults[j].fd \in due'
            BY <2>2, <3>1, <3>4, <3>7
        <3>8. k \in 0..Len(p.mResults)
            BY <1>c, <3>1 DEF KqLeft, KqFresh
        <3>9. \A j \in KqLeft' : j \in KqLeft
            BY <3>3
        <3>10. KqTables'
            BY <2>2, <3>1 DEF KqTables, KqOwned
        <3> HIDE DEF k, fd
        <3>11. KqFresh'
            <4>1. p'.mNumResults = Len(p'.mResults) /\ p'.mCurResult \in 0..Len(p'.mResults)
                BY <3>1, <3>8 DEF KqFresh
            <4>2. ASSUME NEW j \in KqLeft', p'.mResults[j].fd \in due'
                  PROVE  p'.mResults[j].udata \in {NoClient, reg'[p'.mResults[j].fd]}
                <5>1. j \in KqLeft /\ p.mResults[j].fd \in due
                    BY <3>1, <3>6, <3>9, <4>2
                <5>2. p.mResults[j].udata \in {NoClient, reg[p.mResults[j].fd]}
                    BY <5>1 DEF KqFresh
                <5> QED BY <2>2, <3>1, <5>2
            <4>3. ASSUME NEW g \in due' PROVE \E j \in KqLeft' : p'.mResults[j].fd = g
                BY <3>1, <3>6
            <4>4. ASSUME ~foreign', NEW j \in KqLeft' PROVE p'.mResults[j].fd \in due'
                <5>1. ~foreign /\ j \in KqLeft
                    BY <2>2, <3>9, <4>4
                <5>2. p.mResults[j].fd \in due
                    BY <5>1 DEF KqFresh
                <5> QED BY <3>1, <3>7, <5>2
            <4>5. phase' # "wait"
                BY <3>5
            <4> QED BY <4>1, <4>2, <4>3, <4>4, <4>5, Zenon DEF KqFresh
        <3> QED BY <3>1, <3>2, <3>5, <3>10, <3>11
    <2> QED BY <2>3, <2>4
<1>6. ASSUME NEW r \in [Fds -> SUBSET SelectEvents],
             \A fd \in Fds : r[fd] \subseteq IF fd \in registered THEN Kqueue!watched(p, fd) ELSE {},
             Reports(Kqueue!waitForEvents(p, r), r)
      PROVE  KqInv' /\ handling' \in Fds \cup {-1}
    <2>1. \A fd \in Fds : r[fd] \subseteq Kqueue!watched(p, fd)
        BY <1>6
    <2>2. KqFound(p', r)
        <3>1. p' = Kqueue!waitForEvents(p, r)
            BY <1>6 DEF Reports
        <3> QED BY <2>1, <3>1, KqWaited, Zenon
    <2>3. /\ phase' = "events" /\ handling' = -1 /\ due' = {fd \in Fds : r[fd] # {}}
          /\ foreign' = FALSE /\ reg' = reg /\ registered' = registered
        BY <1>6 DEF Reports, registered
    <2>4. /\ p' \in KqRecord /\ p'.kernel = p.kernel /\ p'.mNumFds = p.mNumFds
          /\ p'.mNumResults = Len(p'.mResults) /\ p'.mCurResult = 0
        BY <2>2, Zenon DEF KqFound
    <2>5. KqTables'
        BY <2>3, <2>4 DEF KqTables, KqOwned
    <2>6. /\ Len(p'.mResults) \in Nat
          /\ \A k \in 1..Len(p'.mResults) :
                p'.mResults[k].fd \in Fds /\ p'.mResults[k].filter \in SelectEvents
                /\ p'.mResults[k].udata # "absent"
        <3>1. p'.mResults \in Seq(KqResult)
            BY <2>4 DEF KqRecord
        <3>2. Len(p'.mResults) \in Nat /\ \A k \in 1..Len(p'.mResults) : p'.mResults[k] \in KqResult
            BY <3>1
        <3> QED BY <3>2, AbsentIsNobody DEF KqResult
    <2>7. KqLeft' = 1..Len(p'.mResults)
        BY <2>4, <2>6 DEF KqLeft
    <2>8. ASSUME NEW k \in 1..Len(p'.mResults)
          PROVE  /\ p'.mResults[k].fd \in due'
                 /\ p'.mResults[k].udata \in {NoClient, reg'[p'.mResults[k].fd]}
        <3> DEFINE fd == p'.mResults[k].fd
                   b == p'.mResults[k].filter
                   u == p'.mResults[k].udata
        <3>1. b \in r[fd] /\ u = p.kernel[fd][b]
            BY <2>2, Zenon DEF KqFound
        <3>2. fd \in Fds /\ b \in SelectEvents /\ u # "absent"
            BY <2>6
        <3> HIDE DEF fd, b, u
        <3>3. u \in {reg[fd], NoClient}
            BY <1>b, <3>1, <3>2 DEF KqOwned
        <3>4. fd \in due'
            BY <2>3, <3>1, <3>2
        <3> QED BY <2>3, <3>3, <3>4 DEF fd, u
    <2>9. \A fd \in due' : \E k \in 1..Len(p'.mResults) : p'.mResults[k].fd = fd
        BY <2>2, <2>3 DEF KqFound
    <2>10. 0 \in 0..Len(p'.mResults)
        BY <2>6
    <2>11. KqFresh'
        BY <2>3, <2>4, <2>7, <2>8, <2>9, <2>10 DEF KqFresh
    <2> QED BY <2>3, <2>4, <2>5, <2>11
<1> HIDE DEF KqInv
<1>7. CASE Next
    <2>1. ASSUME NEW fd \in Fds \ registered, NEW c \in Clients, NEW m \in Masks, NEW w \in Writes,
                 p' = add(fd, c, m, w),
                 IF w /\ (p.class = "devpoll" => p.m_clivents[fd].client = NoClient)
                 THEN Registers(fd, c) ELSE Stays
          PROVE  KqInv' /\ handling' \in Fds \cup {-1}
        <3>1. m \in SUBSET SelectEvents /\ w = TRUE /\ p' = Kqueue!add(p, fd, c, m)
            BY <2>1, KqueueDispatch, Zenon
        <3>2. p.class # "devpoll"
            OBVIOUS
        <3>3. Registers(fd, c)
            BY <2>1, <3>1, <3>2, Zenon
        <3> QED BY <1>2, <3>1, <3>3, Zenon
    <2>2. ASSUME NEW fd \in registered, NEW w \in Writes,
                 p' = del(fd, w), IF w THEN Deregisters(fd) ELSE Stays
          PROVE  KqInv' /\ handling' \in Fds \cup {-1}
        <3>1. w = TRUE /\ p' = Kqueue!del(p, fd)
            BY <2>2, KqueueDispatch, Zenon
        <3> QED BY <1>3, <2>2, <3>1, Zenon
    <2>3. ASSUME NEW fd \in registered, NEW m \in Masks, NEW w \in Writes, Stays,
                 p' \in {setMask(fd, m, w), orMask(fd, m, w), andMask(fd, m, w)}
          PROVE  KqInv' /\ handling' \in Fds \cup {-1}
        <3>1. m \in SUBSET SelectEvents
            BY KqueueDispatch, Zenon
        <3>2. p' \in {Kqueue!setMask(p, fd, m), Kqueue!orMask(p, fd, m), Kqueue!andMask(p, fd, m)}
            BY <2>3, KqueueDispatch, Zenon
        <3> QED BY <1>4, <2>3, <3>1, <3>2, Zenon
    <2>4. ASSUME Gets(getNextEvent, IF p.class = "kqueue" THEN Kqueue!left(getNextEvent.p) ELSE {})
          PROVE  KqInv' /\ handling' \in Fds \cup {-1}
        <3>1. getNextEvent = Kqueue!getNextEvent(p)
            BY KqueueDispatch
        <3>2. Gets(Kqueue!getNextEvent(p), Kqueue!left(Kqueue!getNextEvent(p).p))
            BY <2>4, <3>1, Zenon
        <3> QED BY <1>5, <3>2, Zenon
    <2>5. ASSUME NEW r \in [Fds -> Masks],
                 \A fd \in Fds : r[fd] \subseteq IF fd \in registered THEN Wanted(fd) ELSE {},
                 Reports(waitForEvents(r), r)
          PROVE  KqInv' /\ handling' \in Fds \cup {-1}
        <3>1. r \in [Fds -> SUBSET SelectEvents]
            BY KqueueDispatch, Zenon
        <3>2. \A fd \in Fds : r[fd] \subseteq IF fd \in registered THEN Kqueue!watched(p, fd) ELSE {}
            BY <2>5, KqueueDispatch, Zenon
        <3>3. Reports(Kqueue!waitForEvents(p, r), r)
            BY <2>5, KqueueDispatch, Zenon
        <3> QED BY <1>6, <3>1, <3>2, <3>3, Zenon
    <2>6. ~(p.class \in Interrupted)
        OBVIOUS
    <2> QED BY <1>7, <2>1, <2>2, <2>3, <2>4, <2>5, <2>6, Steps, Zenon
<1> QED
    BY <1>1, <1>7 DEF KqInv

\* The object starts empty.
LEMMA KqInit ==
    ASSUME Init, p \in Kqueue!init
    PROVE  p.class = "kqueue" /\ KqInv
<1>0. N \in Nat /\ registered = {} /\ due = {} /\ phase = "events"
    BY FdsType DEF Init, registered
<1> DEFINE K == [fd \in Fds |-> [b \in SelectEvents |-> "absent"]]
           s == <<>>
<1>1. /\ K \in KqKernel /\ s \in Seq(KqResult) /\ Len(s) = 0 /\ 0 \in 0..N /\ 0 \in Nat
      /\ \A fd \in Fds, b \in SelectEvents : K[fd][b] = "absent"
    BY <1>0 DEF KqKernel
<1>2. p = [class |-> "kqueue", failed |-> FALSE, mNumFds |-> 0, mResults |-> s,
           mNumResults |-> 0, mCurResult |-> 0, kernel |-> K]
    BY Zenon DEF Kqueue!init, Kqueue!Absent
<1> HIDE DEF K, s
<1>3. /\ p \in KqRecord /\ p.class = "kqueue" /\ p.mNumFds = 0 /\ p.mNumResults = 0
      /\ p.mResults = s /\ p.mCurResult = 0 /\ p.kernel = K
    BY <1>1, <1>2 DEF KqRecord
<1>4. KqTables
    BY <1>0, <1>1, <1>3, FS_EmptySet DEF KqTables, KqOwned
<1>5. Len(p.mResults) = 0
    BY <1>1, <1>3
<1>6. KqLeft = {}
    BY <1>3, <1>5 DEF KqLeft
<1>7. KqFresh
    BY <1>0, <1>3, <1>5, <1>6 DEF KqFresh
<1> QED
    BY <1>3, <1>4, <1>7 DEF KqInv

\* The invariant of Poller_kqueue implies the properties.
LEMMA KqShows ==
    ASSUME Common, KqInv, p.class = "kqueue"
    PROVE  Shown
<1> USE DEF KqInv
<1>0. -1 \notin Fds /\ due \subseteq registered
    BY FdsType DEF Common
<1>1. TypeOK
    <2>1. Len(p.mResults) \in Nat
        BY DEF KqRecord
    <2>2. /\ p.mNumFds \in 0..Cardinality(Fds)
          /\ p.mNumResults \in -1..Len(p.mResults)
          /\ p.mCurResult \in 0..Len(p.mResults)
        BY <2>1 DEF KqRecord, KqFresh, N
    <2> QED BY <2>2, CommonTypes, Zenon DEF TypeOK
<1>2. TablesAgree
    <2>1. \A fd \in Fds : \A b \in Kqueue!watched(p, fd) :
            fd \in registered /\ p.kernel[fd][b] \in {reg[fd], NoClient}
        BY AbsentIsNobody DEF KqTables, KqOwned, Kqueue!watched
    <2>2. ~p.failed /\ p.mNumFds = Cardinality(registered)
        BY DEF KqRecord, KqTables
    <2> QED BY <2>1, <2>2, Zenon DEF TablesAgree
<1>3. upcoming = Kqueue!getNextEvent(p).e
    BY KqueueDispatch, Zenon DEF upcoming
<1>4. NoneSkipped
    BY DEF NoneSkipped, KqFresh
<1>5. CASE upcoming.fd = -1
    BY <1>1, <1>2, <1>4, <1>5 DEF Shown, GivenToOwner, OnlyReported
<1>6. CASE upcoming.fd # -1
    <2> DEFINE k == p.mCurResult + 1
               fd == p.mResults[k].fd
    <2>1. PICK r : r = Kqueue!getNextEvent(p) /\ KqGives(r)
        BY KqGiven DEF KqFresh
    <2>2. r.e = upcoming
        BY <1>3, <2>1, Zenon
    <2>3. /\ k \in KqLeft /\ upcoming.fd = fd /\ upcoming.client = p.mResults[k].udata
          /\ upcoming.revents # {}
        BY <1>6, <2>1, <2>2, Zenon DEF KqGives
    <2>4. fd \in due => upcoming.client \in {NoClient, reg[fd]}
        BY <2>3 DEF KqFresh
    <2>5. ~foreign => fd \in due
        BY <2>3 DEF KqFresh
    <2> HIDE DEF fd, k
    <2> QED BY <1>1, <1>2, <1>4, <2>3, <2>4, <2>5 DEF Shown, GivenToOwner, OnlyReported
<1> QED
    BY <1>5, <1>6

------------------------------------------------------------------------------
(***************************************************************************)
(* Rings: nx and pv link the members of L in both directions, and there is *)
(* one ring only, for no part of L is closed under nx but L itself.        *)
(***************************************************************************)
Ring(L, nx, pv) ==
    /\ \A x \in L : nx[x] \in L /\ pv[x] \in L /\ pv[nx[x]] = x /\ nx[pv[x]] = x
    /\ \A S \in SUBSET L : S # {} /\ (\A x \in S : nx[x] \in S) => S = L

\* A ring of one.
LEMMA RingOfOne ==
    ASSUME NEW f, NEW nx, NEW pv, nx[f] = f, pv[f] = f
    PROVE  Ring({f}, nx, pv)
<1> QED
    BY DEF Ring

\* f goes in before the member h.
LEMMA RingGrows ==
    ASSUME NEW L, NEW nx, NEW pv, Ring(L, nx, pv),
           NEW h \in L, NEW f, f \notin L, NEW nx2, NEW pv2,
           nx2[f] = h, pv2[f] = pv[h], nx2[pv[h]] = f, pv2[h] = f,
           \A x \in L : x # pv[h] => nx2[x] = nx[x],
           \A x \in L : x # h => pv2[x] = pv[x]
    PROVE  Ring(L \cup {f}, nx2, pv2)
<1> DEFINE M == L \cup {f}
           last == pv[h]
<1>0. /\ \A x \in L : nx[x] \in L /\ pv[x] \in L /\ pv[nx[x]] = x /\ nx[pv[x]] = x
      /\ last \in L /\ nx[last] = h
    BY DEF Ring
<1>1. ASSUME NEW x \in M
      PROVE  nx2[x] \in M /\ pv2[x] \in M /\ pv2[nx2[x]] = x /\ nx2[pv2[x]] = x
    <2>1. CASE x = f
        BY <1>0, <2>1
    <2>2. CASE x \in L
        <3>1. x # f
            BY <2>2
        <3>2. nx2[x] \in M /\ pv2[nx2[x]] = x
            <4>1. CASE x = last
                BY <4>1
            <4>2. CASE x # last
                <5>1. nx[x] # h /\ nx[x] \in L
                    BY <1>0, <2>2, <4>2
                <5> QED BY <1>0, <2>2, <4>2, <5>1
            <4> QED BY <4>1, <4>2
        <3>3. pv2[x] \in M /\ nx2[pv2[x]] = x
            <4>1. CASE x = h
                BY <4>1
            <4>2. CASE x # h
                <5>1. pv[x] # last /\ pv[x] \in L
                    BY <1>0, <2>2, <4>2
                <5> QED BY <1>0, <2>2, <4>2, <5>1
            <4> QED BY <4>1, <4>2
        <3> QED BY <3>2, <3>3
    <2> QED BY <2>1, <2>2
<1>2. ASSUME NEW S \in SUBSET M, S # {}, \A x \in S : nx2[x] \in S
      PROVE  S = M
    <2>1. CASE f \in S
        <3> DEFINE T == S \ {f}
        <3>1. T \in SUBSET L /\ h \in T
            BY <1>2, <2>1
        <3>2. ASSUME NEW x \in T PROVE nx[x] \in T
            <4>1. x \in L /\ nx[x] \in L /\ nx2[x] \in S
                BY <1>0, <1>2, <3>1
            <4>2. CASE x = last
                BY <1>0, <3>1, <4>2
            <4>3. CASE x # last
                BY <4>1, <4>3
            <4> QED BY <4>2, <4>3
        <3>3. T = L
            <4> HIDE DEF T
            <4> QED BY <3>1, <3>2 DEF Ring
        <3> QED BY <2>1, <3>3
    <2>2. CASE f \notin S
        <3>1. S \in SUBSET L /\ last \notin S
            BY <1>2, <2>2
        <3>2. \A x \in S : nx[x] \in S
            BY <1>2, <3>1
        <3>3. S = L
            BY <1>2, <3>1, <3>2 DEF Ring
        <3> QED BY <1>0, <3>1, <3>3
    <2> QED BY <2>1, <2>2
<1> QED
    BY <1>1, <1>2 DEF Ring

\* f leaves; it is not the last one.
LEMMA RingShrinks ==
    ASSUME NEW L, NEW nx, NEW pv, Ring(L, nx, pv),
           NEW f \in L, L # {f}, NEW nx2, NEW pv2,
           nx2[pv[f]] = nx[f], pv2[nx[f]] = pv[f],
           \A x \in L \ {f} : x # pv[f] => nx2[x] = nx[x],
           \A x \in L \ {f} : x # nx[f] => pv2[x] = pv[x]
    PROVE  Ring(L \ {f}, nx2, pv2) /\ nx[f] \in L \ {f} /\ pv[f] \in L \ {f}
<1> DEFINE M == L \ {f}
<1>0. \A x \in L : nx[x] \in L /\ pv[x] \in L /\ pv[nx[x]] = x /\ nx[pv[x]] = x
    BY DEF Ring
<1>1. nx[f] # f /\ pv[f] # f
    <2>1. {f} \in SUBSET L /\ {f} # {}
        OBVIOUS
    <2>2. nx[f] # f
        <3> SUFFICES ASSUME nx[f] = f PROVE FALSE
            OBVIOUS
        <3>1. \A x \in {f} : nx[x] \in {f}
            OBVIOUS
        <3> QED BY <2>1, <3>1 DEF Ring
    <2> QED BY <1>0, <2>2
<1>2. nx[f] \in M /\ pv[f] \in M
    BY <1>0, <1>1
<1>3. ASSUME NEW x \in M
      PROVE  nx2[x] \in M /\ pv2[x] \in M /\ pv2[nx2[x]] = x /\ nx2[pv2[x]] = x
    <2>1. nx2[x] \in M /\ pv2[nx2[x]] = x
        <3>1. CASE x = pv[f]
            BY <1>2, <3>1
        <3>2. CASE x # pv[f]
            <4>1. nx[x] # f /\ nx[x] # nx[f] /\ nx[x] \in L
                BY <1>0, <3>2
            <4> QED BY <1>0, <3>2, <4>1
        <3> QED BY <3>1, <3>2
    <2>2. pv2[x] \in M /\ nx2[pv2[x]] = x
        <3>1. CASE x = nx[f]
            BY <1>2, <3>1
        <3>2. CASE x # nx[f]
            <4>1. pv[x] # f /\ pv[x] # pv[f] /\ pv[x] \in L
                BY <1>0, <3>2
            <4> QED BY <1>0, <3>2, <4>1
        <3> QED BY <3>1, <3>2
    <2> QED BY <2>1, <2>2
<1>4. ASSUME NEW S \in SUBSET M, S # {}, \A x \in S : nx2[x] \in S
      PROVE  S = M
    <2>1. CASE pv[f] \in S
        <3> DEFINE T == S \cup {f}
        <3>1. T \in SUBSET L /\ T # {} /\ nx[f] \in T
            BY <1>4, <2>1
        <3>2. ASSUME NEW x \in T PROVE nx[x] \in T
            BY <1>0, <1>4, <3>1
        <3>3. T = L
            <4> HIDE DEF T
            <4> QED BY <3>1, <3>2 DEF Ring
        <3> QED BY <3>3
    <2>2. CASE pv[f] \notin S
        <3>1. S \in SUBSET L /\ \A x \in S : nx[x] \in S
            BY <1>4, <2>2
        <3>2. S = L
            BY <1>4, <3>1 DEF Ring
        <3> QED BY <3>2
    <2> QED BY <2>1, <2>2
<1> QED
    BY <1>2, <1>3, <1>4 DEF Ring

------------------------------------------------------------------------------
\* A node of m_fds, and an object of Poller_sigio.
SigNode ==
    [m_client : Clients \cup {NoClient}, m_next : Fds \cup {-1}, m_prev : Fds \cup {-1, -2},
     m_mask : SUBSET Events, m_readybits : SUBSET Events]

SigRecord ==
    [class : {"sigio"}, failed : {FALSE},
     m_fds : [Fds -> SigNode],
     m_fds_used : 0..N,
     m_ready_head : Fds \cup {-1},
     m_ready_next : Fds \cup {-1},
     m_ready_count : 0..N,
     m_backup : PollRecord]

\* The links, and the nodes that have one.
Nexts(F) == [fd \in Fds |-> F[fd].m_next]

Prevs(F) == [fd \in Fds |-> F[fd].m_prev]

OnRing(q) == {fd \in Fds : Sigio!isOnReadyList(q, fd)}

\* They form one ring, and head, next and count are right.
RingRight(q) ==
    /\ Ring(OnRing(q), Nexts(q.m_fds), Prevs(q.m_fds))
    /\ \A fd \in Fds \ OnRing(q) : q.m_fds[fd].m_next = -1 /\ q.m_fds[fd].m_prev \in {-1, -2}
    /\ q.m_ready_count = Cardinality(OnRing(q))
    /\ q.m_ready_head \in IF OnRing(q) = {} THEN {-1} ELSE OnRing(q)
    /\ q.m_ready_next \in OnRing(q) \cup {-1}

\* What the ring does not change.
SameNode(F, G, fd) ==
    /\ G[fd].m_client = F[fd].m_client
    /\ G[fd].m_mask = F[fd].m_mask
    /\ G[fd].m_readybits = F[fd].m_readybits
    /\ G[fd].m_prev = -2 <=> F[fd].m_prev = -2

\* From q to o the ring alone has changed, and has L now.
Relinked(q, o, L) ==
    /\ o \in SigRecord /\ RingRight(o) /\ OnRing(o) = L
    /\ o.m_fds_used = q.m_fds_used /\ o.m_backup = q.m_backup
    /\ \A fd \in Fds : SameNode(q.m_fds, o.m_fds, fd)

\* One link is set.
LEMMA NextSet ==
    ASSUME NEW F \in [Fds -> SigNode], NEW x \in Fds, NEW v \in Fds \cup {-1},
           NEW G, G = [F EXCEPT ![x].m_next = v]
    PROVE  /\ G \in [Fds -> SigNode]
           /\ \A fd \in Fds : /\ G[fd].m_next = IF fd = x THEN v ELSE F[fd].m_next
                              /\ G[fd].m_prev = F[fd].m_prev
                              /\ SameNode(F, G, fd)
<1>1. \A s \in SigNode : [s EXCEPT !.m_next = v] \in SigNode
    BY DEF SigNode
<1>2. \A s \in SigNode : LET t == [s EXCEPT !.m_next = v]
                         IN  /\ t.m_next = v /\ t.m_prev = s.m_prev /\ t.m_client = s.m_client
                             /\ t.m_mask = s.m_mask /\ t.m_readybits = s.m_readybits
    BY DEF SigNode
<1>3. G = [F EXCEPT ![x] = [F[x] EXCEPT !.m_next = v]]
    OBVIOUS
<1>4. /\ G \in [Fds -> SigNode]
      /\ G[x] = [F[x] EXCEPT !.m_next = v]
      /\ \A fd \in Fds : fd # x => G[fd] = F[fd]
    BY <1>1, <1>3
<1> QED
    BY <1>2, <1>4 DEF SameNode

\* The same for the other direction.
LEMMA PrevSet ==
    ASSUME NEW F \in [Fds -> SigNode], NEW x \in Fds, NEW v \in Fds \cup {-1}, F[x].m_prev # -2,
           NEW G, G = [F EXCEPT ![x].m_prev = v]
    PROVE  /\ G \in [Fds -> SigNode]
           /\ \A fd \in Fds : /\ G[fd].m_prev = IF fd = x THEN v ELSE F[fd].m_prev
                              /\ G[fd].m_next = F[fd].m_next
                              /\ SameNode(F, G, fd)
<1>0. v # -2
    BY FdsType
<1>1. \A s \in SigNode : [s EXCEPT !.m_prev = v] \in SigNode
    BY DEF SigNode
<1>2. \A s \in SigNode : LET t == [s EXCEPT !.m_prev = v]
                         IN  /\ t.m_prev = v /\ t.m_next = s.m_next /\ t.m_client = s.m_client
                             /\ t.m_mask = s.m_mask /\ t.m_readybits = s.m_readybits
    BY DEF SigNode
<1>3. G = [F EXCEPT ![x] = [F[x] EXCEPT !.m_prev = v]]
    OBVIOUS
<1>4. /\ G \in [Fds -> SigNode]
      /\ G[x] = [F[x] EXCEPT !.m_prev = v]
      /\ \A fd \in Fds : fd # x => G[fd] = F[fd]
    BY <1>1, <1>3
<1> QED
    BY <1>0, <1>2, <1>4 DEF SameNode

\* A descriptor is on the ring if it has a next one.
LEMMA OnRingIs ==
    ASSUME NEW q \in SigRecord
    PROVE  OnRing(q) = {fd \in Fds : q.m_fds[fd].m_next # -1}
<1>1. \A fd \in Fds : fd >= 0 /\ fd # -1 /\ fd \in Int
    BY FdsType
<1>2. \A fd \in Fds : q.m_fds[fd].m_next \in Fds \cup {-1}
    BY DEF SigRecord, SigNode
<1>3. \A fd \in Fds : q.m_fds[fd].m_next >= 0 <=> q.m_fds[fd].m_next # -1
    BY <1>1, <1>2
<1> QED
    BY <1>3 DEF OnRing, Sigio!isOnReadyList

\* The ring of q is what it was in the old links where they are the same.
LEMMA RingAs ==
    ASSUME NEW q \in SigRecord, RingRight(q), NEW fd \in OnRing(q)
    PROVE  /\ q.m_fds[fd].m_next \in OnRing(q) /\ q.m_fds[fd].m_prev \in OnRing(q)
           /\ q.m_fds[q.m_fds[fd].m_next].m_prev = fd
           /\ q.m_fds[q.m_fds[fd].m_prev].m_next = fd
<1>1. OnRing(q) \subseteq Fds
    BY DEF OnRing
<1> QED
    BY <1>1 DEF RingRight, Ring, Nexts, Prevs

\* The descriptors on the ring are some of the descriptors.
LEMMA RingCount ==
    ASSUME NEW L \in SUBSET Fds
    PROVE  /\ IsFiniteSet(L) /\ Cardinality(L) \in 0..N
           /\ Cardinality(L) = 0 <=> L = {}
           /\ \A fd \in Fds \ L : Cardinality(L \cup {fd}) = Cardinality(L) + 1
           /\ \A fd \in L : Cardinality(L \ {fd}) = Cardinality(L) - 1
<1>1. IsFiniteSet(L) /\ Cardinality(L) <= N
    BY FdsType, FS_Subset DEF N
<1>2. Cardinality(L) \in Nat /\ (Cardinality(L) = 0 <=> L = {})
    BY <1>1, FS_CardinalityType, FS_EmptySet
<1> QED
    BY <1>1, <1>2, FdsType, FS_AddElement, FS_RemoveElement

\* readyListAdd puts a descriptor at the end of the ring, before the head.
LEMMA RingAdds ==
    ASSUME NEW q \in SigRecord, RingRight(q), NEW fd \in Fds \ OnRing(q),
           q.m_fds[fd].m_prev # -2
    PROVE  Relinked(q, Sigio!readyListAdd(q, fd), OnRing(q) \cup {fd})
<1> DEFINE L == OnRing(q)
           F == q.m_fds
           head == IF q.m_ready_count = 0 THEN fd ELSE q.m_ready_head
           last == IF q.m_ready_count = 0 THEN fd ELSE F[head].m_prev
           F1 == [F EXCEPT ![fd].m_prev = last]
           F2 == [F1 EXCEPT ![fd].m_next = head]
           F3 == [F2 EXCEPT ![last].m_next = fd]
           G == [F3 EXCEPT ![head].m_prev = fd]
           o == Sigio!readyListAdd(q, fd)
           h == head
           n == IF q.m_ready_next = -1 THEN fd ELSE q.m_ready_next
           k == q.m_ready_count + 1
<1>0. /\ F \in [Fds -> SigNode] /\ L \in SUBSET Fds /\ fd \notin L
      /\ F[fd].m_next = -1 /\ F[fd].m_prev = -1
    BY DEF SigRecord, OnRing, RingRight
<1>1. /\ q.m_ready_count = Cardinality(L)
      /\ L = {} => head = fd /\ last = fd
      /\ L # {} => head \in L /\ last \in L /\ head # fd /\ last # fd /\ head = q.m_ready_head
                   /\ last = F[head].m_prev /\ F[head].m_prev \in Fds
    <2>1. q.m_ready_count = Cardinality(L) /\ (Cardinality(L) = 0 <=> L = {})
        BY <1>0, RingCount DEF RingRight
    <2>2. L # {} => q.m_ready_head \in L
        BY DEF RingRight
    <2>3. \A x \in L : F[x].m_prev \in L
        BY RingAs
    <2> QED BY <1>0, <2>1, <2>2, <2>3
<1>2. head \in Fds /\ last \in Fds
    BY <1>0, <1>1
<1> HIDE DEF head, last
<1>3. o = [q EXCEPT !.m_fds = G, !.m_ready_head = h, !.m_ready_count = k, !.m_ready_next = n]
    <2>1. ~(F[fd].m_next >= 0 \/ F[fd].m_prev >= 0)
        BY <1>0
    <2>2. o = [q EXCEPT
                !.m_fds = [@ EXCEPT ![fd].m_prev = last, ![fd].m_next = head,
                                    ![last].m_next = fd, ![head].m_prev = fd],
                !.m_ready_head = head,
                !.m_ready_count = @ + 1,
                !.m_ready_next = IF @ = -1 THEN fd ELSE @]
        BY <2>1, Zenon DEF Sigio!readyListAdd, head, last
    <2> QED BY <2>2
<1> HIDE DEF F1, F2, F3, G
<1>4. /\ F1 \in [Fds -> SigNode]
      /\ \A x \in Fds : /\ F1[x].m_prev = IF x = fd THEN last ELSE F[x].m_prev
                        /\ F1[x].m_next = F[x].m_next /\ SameNode(F, F1, x)
    BY <1>0, <1>2, PrevSet DEF F1
<1>5. /\ F2 \in [Fds -> SigNode]
      /\ \A x \in Fds : /\ F2[x].m_next = IF x = fd THEN head ELSE F1[x].m_next
                        /\ F2[x].m_prev = F1[x].m_prev /\ SameNode(F1, F2, x)
    BY <1>2, <1>4, NextSet DEF F2
<1>6. /\ F3 \in [Fds -> SigNode]
      /\ \A x \in Fds : /\ F3[x].m_next = IF x = last THEN fd ELSE F2[x].m_next
                        /\ F3[x].m_prev = F2[x].m_prev /\ SameNode(F2, F3, x)
    BY <1>2, <1>5, NextSet DEF F3
<1>7. F3[head].m_prev # -2
    <2>1. last # -2 /\ \A x \in Fds : x # -2
        BY <1>2, FdsType
    <2> QED BY <1>1, <1>2, <1>4, <1>5, <1>6, <2>1
<1>8. /\ G \in [Fds -> SigNode]
      /\ \A x \in Fds : /\ G[x].m_prev = IF x = head THEN fd ELSE F3[x].m_prev
                        /\ G[x].m_next = F3[x].m_next /\ SameNode(F3, G, x)
    BY <1>2, <1>6, <1>7, PrevSet DEF G
<1>9. \A x \in Fds : SameNode(F, G, x)
    BY <1>4, <1>5, <1>6, <1>8 DEF SameNode
<1>10. \A x \in Fds : /\ G[x].m_next = IF x = last THEN fd ELSE IF x = fd THEN head ELSE F[x].m_next
                      /\ G[x].m_prev = IF x = head THEN fd ELSE IF x = fd THEN last ELSE F[x].m_prev
    <2> SUFFICES ASSUME NEW x \in Fds
                 PROVE  /\ G[x].m_next = IF x = last THEN fd ELSE IF x = fd THEN head ELSE F[x].m_next
                        /\ G[x].m_prev = IF x = head THEN fd ELSE IF x = fd THEN last ELSE F[x].m_prev
        OBVIOUS
    <2>1. G[x].m_prev = IF x = head THEN fd ELSE F3[x].m_prev
        BY <1>8, Zenon
    <2>2. F3[x].m_prev = F2[x].m_prev /\ F2[x].m_prev = F1[x].m_prev
        BY <1>5, <1>6, Zenon
    <2>3. F1[x].m_prev = IF x = fd THEN last ELSE F[x].m_prev
        BY <1>4, Zenon
    <2>4. G[x].m_next = F3[x].m_next /\ F1[x].m_next = F[x].m_next
        BY <1>4, <1>8, Zenon
    <2>5. F3[x].m_next = IF x = last THEN fd ELSE F2[x].m_next
        BY <1>6, Zenon
    <2>6. F2[x].m_next = IF x = fd THEN head ELSE F1[x].m_next
        BY <1>5, Zenon
    <2> QED BY <2>1, <2>2, <2>3, <2>4, <2>5, <2>6
<1>11. /\ h \in Fds \cup {-1} /\ n \in Fds \cup {-1} /\ k = Cardinality(L \cup {fd}) /\ k \in 0..N
    <2>1. n \in Fds \cup {-1}
        BY DEF SigRecord
    <2>2. k = Cardinality(L \cup {fd}) /\ Cardinality(L \cup {fd}) \in 0..N
        BY <1>0, <1>1, RingCount
    <2> QED BY <1>2, <2>1, <2>2
<1>12. n \in L \cup {fd}
    BY DEF RingRight
<1> HIDE DEF h, n, k, o
<1>13. /\ o \in SigRecord
       /\ o.m_fds = G /\ o.m_ready_head = h /\ o.m_ready_count = k /\ o.m_ready_next = n
       /\ o.m_fds_used = q.m_fds_used /\ o.m_backup = q.m_backup
    <2>1. G \in [Fds -> SigNode] /\ h \in Fds \cup {-1} /\ n \in Fds \cup {-1} /\ k \in 0..N
        BY <1>8, <1>11, Zenon
    <2> QED BY <1>3, <2>1 DEF SigRecord
<1> HIDE DEF L, F
<1>14. \A x \in L : F[x].m_next \in L /\ F[x].m_prev \in L /\ F[F[x].m_prev].m_next = x
    BY RingAs DEF L, F
<1>15. OnRing(o) = L \cup {fd}
    <2>1. \A x \in Fds : x # -1
        BY FdsType
    <2>2. OnRing(o) = {x \in Fds : G[x].m_next # -1}
        BY <1>13, OnRingIs
    <2>3. L = {x \in Fds : F[x].m_next # -1}
        BY OnRingIs DEF L, F
    <2>4. last \in L \cup {fd}
        BY <1>1
    <2> QED BY <1>2, <1>10, <2>1, <2>2, <2>3, <2>4
<1>16. Ring(L \cup {fd}, Nexts(G), Prevs(G))
    <2> DEFINE nx == Nexts(F)
               pv == Prevs(F)
               nx2 == Nexts(G)
               pv2 == Prevs(G)
    <2>1. \A x \in Fds : /\ nx[x] = F[x].m_next /\ pv[x] = F[x].m_prev
                         /\ nx2[x] = G[x].m_next /\ pv2[x] = G[x].m_prev
        BY DEF Nexts, Prevs
    <2> HIDE DEF nx, pv, nx2, pv2
    <2>2. CASE L = {}
        <3>1. nx2[fd] = fd /\ pv2[fd] = fd
            BY <1>1, <1>10, <2>1, <2>2
        <3>2. Ring({fd}, nx2, pv2)
            BY <3>1, RingOfOne
        <3> QED BY <2>2, <3>2 DEF nx2, pv2
    <2>3. CASE L # {}
        <3>1. Ring(L, nx, pv)
            BY DEF RingRight, L, F, nx, pv
        <3>2. head \in L /\ last = pv[head] /\ head # fd /\ last # fd /\ last \in L
            BY <1>1, <1>2, <2>1, <2>3
        <3>3. /\ nx2[fd] = head /\ pv2[fd] = last /\ nx2[last] = fd /\ pv2[head] = fd
            BY <1>2, <1>10, <2>1, <3>2
        <3>4. \A x \in L : (x # last => nx2[x] = nx[x]) /\ (x # head => pv2[x] = pv[x])
            BY <1>0, <1>10, <2>1 DEF L, F
        <3>5. fd \notin L
            BY DEF L
        <3>6. Ring(L \cup {fd}, nx2, pv2)
            BY <3>1, <3>2, <3>3, <3>4, <3>5, RingGrows
        <3> QED BY <3>6 DEF nx2, pv2
    <2> QED BY <2>2, <2>3
<1>17. RingRight(o)
    <2>1. \A x \in Fds \ (L \cup {fd}) : G[x].m_next = -1 /\ G[x].m_prev \in {-1, -2}
        <3>1. \A x \in Fds \ L : F[x].m_next = -1 /\ F[x].m_prev \in {-1, -2}
            BY DEF RingRight, L, F
        <3> QED BY <1>1, <1>10, <3>1
    <2>2. h \in L \cup {fd}
        BY <1>1 DEF h
    <2> QED BY <1>11, <1>12, <1>13, <1>15, <1>16, <2>1, <2>2 DEF RingRight
<1>18. Relinked(q, o, L \cup {fd})
    BY <1>9, <1>13, <1>15, <1>17 DEF Relinked, F
<1> QED
    BY <1>18 DEF o, L

\* A node is unlinked.
LEMMA NodeUnlinked ==
    ASSUME NEW E \in [Fds -> SigNode], NEW x \in Fds, E[x].m_prev # -2,
           NEW G, G = [E EXCEPT ![x].m_next = -1, ![x].m_prev = -1]
    PROVE  /\ G \in [Fds -> SigNode]
           /\ \A fd \in Fds : /\ G[fd].m_next = (IF fd = x THEN -1 ELSE E[fd].m_next)
                              /\ G[fd].m_prev = (IF fd = x THEN -1 ELSE E[fd].m_prev)
                              /\ SameNode(E, G, fd)
<1> DEFINE F == [E EXCEPT ![x].m_next = -1]
           H == [F EXCEPT ![x].m_prev = -1]
<1>1. /\ F \in [Fds -> SigNode]
      /\ \A fd \in Fds : /\ F[fd].m_next = (IF fd = x THEN -1 ELSE E[fd].m_next)
                         /\ F[fd].m_prev = E[fd].m_prev
                         /\ SameNode(E, F, fd)
    BY NextSet
<1>2. G = H
    OBVIOUS
<1> HIDE DEF F
<1>3. /\ H \in [Fds -> SigNode]
      /\ \A fd \in Fds : /\ H[fd].m_prev = (IF fd = x THEN -1 ELSE F[fd].m_prev)
                         /\ H[fd].m_next = F[fd].m_next
                         /\ SameNode(F, H, fd)
    <2>1. -1 \in Fds \cup {-1} /\ F[x].m_prev # -2
        BY <1>1
    <2> QED BY <1>1, <2>1, PrevSet
<1> HIDE DEF H
<1>4. ASSUME NEW fd \in Fds PROVE SameNode(E, H, fd)
    <2>1. SameNode(E, F, fd) /\ SameNode(F, H, fd)
        BY <1>1, <1>3, Zenon
    <2> QED BY <2>1 DEF SameNode
<1>5. ASSUME NEW fd \in Fds
      PROVE  /\ H[fd].m_next = (IF fd = x THEN -1 ELSE E[fd].m_next)
             /\ H[fd].m_prev = (IF fd = x THEN -1 ELSE E[fd].m_prev)
    BY <1>1, <1>3
<1> QED
    BY <1>2, <1>3, <1>4, <1>5

\* readyListDel takes a descriptor out of the ring, and finds its checks met.
LEMMA RingDeletes ==
    ASSUME NEW q \in SigRecord, RingRight(q), NEW fd \in OnRing(q)
    PROVE  Relinked(q, Sigio!readyListDel(q, fd), OnRing(q) \ {fd})
<1> DEFINE L == OnRing(q)
           F == q.m_fds
           next == F[fd].m_next
           prev == F[fd].m_prev
           o == Sigio!readyListDel(q, fd)
           k == q.m_ready_count - 1
           M == L \ {fd}
<1>0. /\ F \in [Fds -> SigNode] /\ L \in SUBSET Fds /\ fd \in L /\ fd \in Fds
      /\ next \in L /\ prev \in L /\ F[next].m_prev = fd /\ F[prev].m_next = fd
      /\ q.m_ready_head \in L /\ q.m_ready_next \in L \cup {-1}
      /\ q.m_ready_count = Cardinality(L)
    <2>1. F \in [Fds -> SigNode] /\ L \in SUBSET Fds /\ fd \in L /\ fd \in Fds
        BY DEF SigRecord, OnRing
    <2>2. next \in L /\ prev \in L /\ F[next].m_prev = fd /\ F[prev].m_next = fd
        BY RingAs
    <2>3. /\ q.m_ready_head \in L /\ q.m_ready_next \in L \cup {-1}
          /\ q.m_ready_count = Cardinality(L)
        BY DEF RingRight
    <2> QED BY <2>1, <2>2, <2>3
<1>1. k = Cardinality(M) /\ k \in 0..N /\ k + 1 = q.m_ready_count /\ (k = 0 <=> M = {})
    BY <1>0, RingCount
<1>2. \A x \in Fds : x >= 0 /\ x # -1 /\ x # -2 /\ x \in Int
    BY FdsType
<1>3. o = LET r == IF q.m_ready_count = 1 THEN Sigio!Emptied(q, fd) ELSE Sigio!Spliced(q, fd)
          IN  [r EXCEPT !.m_fds = [@ EXCEPT ![fd].m_next = -1, ![fd].m_prev = -1],
                        !.m_ready_count = @ - 1]
    <2>1. ~(\/ F[fd].m_next < 0 \/ F[fd].m_prev < 0
            \/ q.m_ready_count <= 0 \/ q.m_ready_head < 0)
        BY <1>0, <1>1, <1>2
    <2> QED BY <2>1, Zenon DEF Sigio!readyListDel
<1> DEFINE Leaves(E, H, h, n) ==
               /\ E \in [Fds -> SigNode] /\ H \in [Fds -> SigNode]
               /\ \A x \in Fds : SameNode(F, E, x)
               /\ \A x \in M : E[x].m_next \in Fds /\ E[x].m_prev \in Fds
               /\ \A x \in Fds \ L : E[x].m_next = F[x].m_next /\ E[x].m_prev = F[x].m_prev
               /\ Ring(M, Nexts(E), Prevs(E))
               /\ \A x \in Fds : /\ H[x].m_next = (IF x = fd THEN -1 ELSE E[x].m_next)
                                 /\ H[x].m_prev = (IF x = fd THEN -1 ELSE E[x].m_prev)
                                 /\ SameNode(E, H, x)
               /\ h \in M \cup {-1} /\ n \in M \cup {-1} /\ (h = -1 <=> M = {})
               /\ o \in SigRecord
               /\ o.m_fds = H /\ o.m_ready_head = h /\ o.m_ready_count = k /\ o.m_ready_next = n
               /\ o.m_fds_used = q.m_fds_used /\ o.m_backup = q.m_backup
<1> HIDE DEF Leaves
<1>4. PICK E, G, h, n : Leaves(E, G, h, n)
    <2> DEFINE G(E) == [E EXCEPT ![fd].m_next = -1, ![fd].m_prev = -1]
    <2>0. M = L \ {fd} /\ \A x \in L : F[x].m_next \in L /\ F[x].m_prev \in L
        BY RingAs
    <2>1. CASE q.m_ready_count = 1
        <3>1. M = {} /\ L = {fd} /\ next = fd /\ prev = fd /\ q.m_ready_head = fd
            <4> HIDE DEF L, M, F, k, next, prev
            <4>1. k = 0
                BY <1>1, <2>1, FdsType
            <4> QED BY <1>0, <1>1, <2>0, <4>1
        <3>2. Sigio!Emptied(q, fd) = [q EXCEPT !.m_ready_head = -1, !.m_ready_next = -1]
            BY <3>1, Zenon DEF Sigio!Emptied
        <3>3. o = [[q EXCEPT !.m_ready_head = -1, !.m_ready_next = -1]
                       EXCEPT !.m_fds = G(@), !.m_ready_count = @ - 1]
            BY <1>3, <2>1, <3>2, Zenon
        <3>4. Ring(M, Nexts(F), Prevs(F))
            BY <3>1 DEF Ring
        <3>5. \A x \in Fds : SameNode(F, F, x)
            BY DEF SameNode
        <3> HIDE DEF o, G
        <3>6. o = [q EXCEPT !.m_fds = G(F), !.m_ready_head = -1, !.m_ready_count = k,
                            !.m_ready_next = -1]
            BY <3>3 DEF SigRecord
        <3> HIDE DEF F, M, L, k, next, prev
        <3>7. \A x \in M : F[x].m_next \in Fds /\ F[x].m_prev \in Fds
            BY <3>1
        <3>8. /\ o.m_fds = G(F) /\ o.m_ready_head = -1 /\ o.m_ready_count = k
              /\ o.m_ready_next = -1 /\ o.m_fds_used = q.m_fds_used /\ o.m_backup = q.m_backup
              /\ G(F) \in [Fds -> SigNode] => o \in SigRecord
            BY <1>1, <3>6 DEF SigRecord
        <3>9. -1 \in M \cup {-1}
            OBVIOUS
        <3>10. /\ G(F) \in [Fds -> SigNode]
               /\ \A x \in Fds : /\ G(F)[x].m_next = (IF x = fd THEN -1 ELSE F[x].m_next)
                                 /\ G(F)[x].m_prev = (IF x = fd THEN -1 ELSE F[x].m_prev)
                                 /\ SameNode(F, G(F), x)
            <4>1. F[fd].m_prev # -2 /\ F \in [Fds -> SigNode] /\ fd \in Fds
                BY <1>0, <1>2 DEF prev
            <4>2. G(F) = [F EXCEPT ![fd].m_next = -1, ![fd].m_prev = -1]
                BY DEF G
            <4> HIDE DEF G
            <4> QED BY <4>1, <4>2, NodeUnlinked
        <3>11. \A x \in Fds \ L : F[x].m_next = F[x].m_next /\ F[x].m_prev = F[x].m_prev
            OBVIOUS
        <3> DEFINE H == G(F)
        <3>12. H \in [Fds -> SigNode] /\ o \in SigRecord /\ o.m_fds = H
            BY <3>8, <3>10
        <3>13. \A x \in Fds : /\ H[x].m_next = (IF x = fd THEN -1 ELSE F[x].m_next)
                              /\ H[x].m_prev = (IF x = fd THEN -1 ELSE F[x].m_prev)
                              /\ SameNode(F, H, x)
            BY <3>10
        <3> HIDE DEF H
        <3>14. Leaves(F, H, -1, -1)
            BY <1>0, <3>1, <3>4, <3>5, <3>7, <3>8, <3>9, <3>11, <3>12, <3>13 DEF Leaves
        <3> QED BY <3>14
    <2>2. CASE q.m_ready_count # 1
        <3> DEFINE F1 == [F EXCEPT ![prev].m_next = next]
                   E == [F1 EXCEPT ![next].m_prev = prev]
                   h == IF q.m_ready_head = fd THEN next ELSE q.m_ready_head
                   n == IF q.m_ready_next = fd THEN next ELSE q.m_ready_next
        <3>7. Sigio!Spliced(q, fd) = [q EXCEPT !.m_ready_head = h, !.m_ready_next = n, !.m_fds = E]
            BY DEF Sigio!Spliced
        <3>8. o = [q EXCEPT !.m_fds = G(E), !.m_ready_head = h, !.m_ready_count = k,
                            !.m_ready_next = n]
            <4> HIDE DEF E, h, n, G
            <4>1. o = [[q EXCEPT !.m_ready_head = h, !.m_ready_next = n, !.m_fds = E]
                           EXCEPT !.m_fds = G(@), !.m_ready_count = @ - 1]
                BY <1>3, <2>2, <3>7, Zenon DEF G
            <4> HIDE DEF o
            <4> QED BY <4>1 DEF SigRecord
        <3>1. M # {} /\ L # {fd}
            <4> HIDE DEF L, M, F, k, next, prev
            <4>1. k # 0
                BY <1>1, <2>2, FdsType
            <4> QED BY <1>1, <2>0, <4>1
        <3> HIDE DEF o, F, L, M, k, next, prev, G
        <3>2. /\ F1 \in [Fds -> SigNode]
              /\ \A x \in Fds : /\ F1[x].m_next = (IF x = prev THEN next ELSE F[x].m_next)
                                /\ F1[x].m_prev = F[x].m_prev /\ SameNode(F, F1, x)
            <4>1. prev \in Fds /\ next \in Fds
                BY <1>0
            <4> QED BY <1>0, <4>1, NextSet
        <3> HIDE DEF F1
        <3>3. F1[next].m_prev # -2
            BY <1>0, <1>2, <3>2
        <3>4. /\ E \in [Fds -> SigNode]
              /\ \A x \in Fds : /\ E[x].m_prev = (IF x = next THEN prev ELSE F1[x].m_prev)
                                /\ E[x].m_next = F1[x].m_next /\ SameNode(F1, E, x)
            <4>1. prev \in Fds /\ next \in Fds
                BY <1>0
            <4> QED BY <3>2, <3>3, <4>1, PrevSet
        <3> HIDE DEF E
        <3>5. \A x \in Fds : /\ E[x].m_next = (IF x = prev THEN next ELSE F[x].m_next)
                             /\ E[x].m_prev = (IF x = next THEN prev ELSE F[x].m_prev)
                             /\ SameNode(F, E, x)
            <4> SUFFICES ASSUME NEW x \in Fds
                         PROVE  /\ E[x].m_next = (IF x = prev THEN next ELSE F[x].m_next)
                                /\ E[x].m_prev = (IF x = next THEN prev ELSE F[x].m_prev)
                                /\ SameNode(F, E, x)
                OBVIOUS
            <4>1. SameNode(F, F1, x) /\ SameNode(F1, E, x)
                BY <3>2, <3>4, Zenon
            <4>2. SameNode(F, E, x)
                BY <4>1 DEF SameNode
            <4> QED BY <3>2, <3>4, <4>2
        <3>6. Ring(M, Nexts(E), Prevs(E)) /\ next \in M /\ prev \in M
            <4> DEFINE nx == Nexts(F)
                       pv == Prevs(F)
                       nx2 == Nexts(E)
                       pv2 == Prevs(E)
            <4>1. \A x \in Fds : /\ nx[x] = F[x].m_next /\ pv[x] = F[x].m_prev
                                 /\ nx2[x] = E[x].m_next /\ pv2[x] = E[x].m_prev
                BY DEF Nexts, Prevs
            <4>2. Ring(L, nx, pv)
                BY DEF RingRight, L, F
            <4> HIDE DEF nx, pv, nx2, pv2
            <4>3. next = nx[fd] /\ prev = pv[fd]
                BY <1>0, <4>1 DEF next, prev
            <4>4. nx2[prev] = next /\ pv2[next] = prev
                BY <1>0, <3>5, <4>1
            <4>5. \A x \in L \ {fd} : (x # prev => nx2[x] = nx[x]) /\ (x # next => pv2[x] = pv[x])
                <5> SUFFICES ASSUME NEW x \in L \ {fd}
                             PROVE  (x # prev => nx2[x] = nx[x]) /\ (x # next => pv2[x] = pv[x])
                    OBVIOUS
                <5>1. x \in Fds
                    BY <1>0
                <5>2. /\ E[x].m_next = (IF x = prev THEN next ELSE F[x].m_next)
                      /\ E[x].m_prev = (IF x = next THEN prev ELSE F[x].m_prev)
                    BY <3>5, <5>1
                <5> QED BY <4>1, <5>1, <5>2
            <4>6. Ring(L \ {fd}, nx2, pv2) /\ nx[fd] \in L \ {fd} /\ pv[fd] \in L \ {fd}
                <5>1. /\ nx2[pv[fd]] = nx[fd] /\ pv2[nx[fd]] = pv[fd] /\ fd \in L
                      /\ \A x \in L \ {fd} : x # pv[fd] => nx2[x] = nx[x]
                      /\ \A x \in L \ {fd} : x # nx[fd] => pv2[x] = pv[x]
                    BY <1>0, <4>3, <4>4, <4>5, Zenon
                <5> QED BY <3>1, <4>2, <5>1, RingShrinks
            <4> QED BY <2>0, <4>3, <4>6 DEF nx2, pv2
        <3>9. h \in M /\ n \in M \cup {-1} /\ h # -1
            BY <1>0, <1>2, <2>0, <3>6
        <3>10. \A x \in M : E[x].m_next \in Fds /\ E[x].m_prev \in Fds
            BY <1>0, <2>0, <3>5
        <3>11. \A x \in Fds \ L : E[x].m_next = F[x].m_next /\ E[x].m_prev = F[x].m_prev
            BY <1>0, <3>5
        <3> HIDE DEF h, n
        <3>12. /\ h \in M \cup {-1} /\ n \in M \cup {-1} /\ (h = -1 <=> M = {})
               /\ \A x \in Fds : SameNode(F, E, x)
            BY <3>1, <3>5, <3>9
        <3>13. /\ o.m_fds = G(E) /\ o.m_ready_head = h /\ o.m_ready_count = k
               /\ o.m_ready_next = n /\ o.m_fds_used = q.m_fds_used /\ o.m_backup = q.m_backup
               /\ G(E) \in [Fds -> SigNode] => o \in SigRecord
            <4>1. h \in Fds \cup {-1} /\ n \in Fds \cup {-1}
                BY <1>0, <2>0, <3>12
            <4> QED BY <1>1, <3>8, <4>1 DEF SigRecord
        <3> DEFINE H == G(E)
        <3> HIDE DEF H
        <3>15. E[fd].m_prev # -2
            BY <1>0, <1>2, <3>12 DEF SameNode, prev
        <3>16. /\ H \in [Fds -> SigNode]
               /\ \A x \in Fds : /\ H[x].m_next = (IF x = fd THEN -1 ELSE E[x].m_next)
                                 /\ H[x].m_prev = (IF x = fd THEN -1 ELSE E[x].m_prev)
                                 /\ SameNode(E, H, x)
            BY <1>0, <3>4, <3>15, NodeUnlinked DEF H, G
        <3>17. /\ o \in SigRecord /\ o.m_fds = H /\ o.m_ready_head = h /\ o.m_ready_count = k
               /\ o.m_ready_next = n /\ o.m_fds_used = q.m_fds_used /\ o.m_backup = q.m_backup
            BY <3>13, <3>16 DEF H
        <3>18. Leaves(E, H, h, n)
            BY <3>4, <3>6, <3>10, <3>11, <3>12, <3>16, <3>17 DEF Leaves
        <3> QED BY <3>18
    <2> QED BY <2>1, <2>2
<1> HIDE DEF o, k, M
<1>8. \A x \in Fds : /\ G[x].m_next = (IF x = fd THEN -1 ELSE E[x].m_next)
                     /\ G[x].m_prev = (IF x = fd THEN -1 ELSE E[x].m_prev)
    BY <1>4 DEF Leaves
<1>10. M \in SUBSET Fds
    BY <1>0 DEF M
<1>11. /\ o \in SigRecord
       /\ o.m_fds = G /\ o.m_ready_head = h /\ o.m_ready_count = k /\ o.m_ready_next = n
       /\ o.m_fds_used = q.m_fds_used /\ o.m_backup = q.m_backup
    BY <1>4 DEF Leaves
<1>12. OnRing(o) = M
    <2>1. OnRing(o) = {x \in Fds : G[x].m_next # -1}
        BY <1>11, OnRingIs
    <2>2. \A x \in Fds \ L : E[x].m_next = -1
        BY <1>4 DEF RingRight, Leaves
    <2>3. \A x \in M : E[x].m_next # -1
        BY <1>2, <1>4 DEF Leaves
    <2>4. M = L \ {fd}
        BY DEF M
    <2> HIDE DEF L
    <2> QED BY <1>8, <1>10, <2>1, <2>2, <2>3, <2>4
<1>13. Ring(M, Nexts(G), Prevs(G))
    <2>1. \A x \in M : /\ Nexts(G)[x] = Nexts(E)[x] /\ Prevs(G)[x] = Prevs(E)[x]
                      /\ Nexts(E)[x] \in M /\ Prevs(E)[x] \in M
        <3>1. \A x \in M : Nexts(E)[x] \in M /\ Prevs(E)[x] \in M
            BY <1>4 DEF Ring, Leaves
        <3>2. \A x \in M : x \in Fds /\ x # fd
            BY <1>10 DEF M
        <3> QED BY <1>8, <3>1, <3>2 DEF Nexts, Prevs
    <2>2. Ring(M, Nexts(E), Prevs(E))
        BY <1>4 DEF Leaves
    <2> QED BY <2>1, <2>2 DEF Ring
<1>14. RingRight(o)
    <2>1. \A x \in Fds \ M : G[x].m_next = -1 /\ G[x].m_prev \in {-1, -2}
        <3>1. \A x \in Fds \ L : F[x].m_next = -1 /\ F[x].m_prev \in {-1, -2}
            BY DEF RingRight
        <3> HIDE DEF L, F
        <3> QED BY <1>4, <1>8, <3>1 DEF M, Leaves
    <2>2. h \in (IF M = {} THEN {-1} ELSE M) /\ n \in M \cup {-1}
        BY <1>4 DEF Leaves
    <2> QED BY <1>1, <1>11, <1>12, <1>13, <2>1, <2>2 DEF RingRight
<1>15. ASSUME NEW x \in Fds PROVE SameNode(F, G, x)
    <2>1. SameNode(F, E, x) /\ SameNode(E, G, x)
        BY <1>4, Zenon DEF Leaves
    <2> QED BY <2>1 DEF SameNode
<1>16. Relinked(q, o, M)
    <2> HIDE DEF L
    <2> QED BY <1>11, <1>12, <1>14, <1>15 DEF Relinked
<1> QED
    BY <1>16 DEF o, M

\* readyListUpdate: afterwards the descriptor is on the ring if it is ready for
\* something.
LEMMA RingUpdated ==
    ASSUME NEW q \in SigRecord, RingRight(q), NEW fd \in Fds, q.m_fds[fd].m_prev # -2
    PROVE  Relinked(q, Sigio!readyListUpdate(q, fd),
                    IF Sigio!isReady(q, fd) THEN OnRing(q) \cup {fd} ELSE OnRing(q) \ {fd})
<1>1. Sigio!isOnReadyList(q, fd) <=> fd \in OnRing(q)
    BY DEF OnRing
<1>2. CASE Sigio!isOnReadyList(q, fd) = Sigio!isReady(q, fd)
    <2>1. Sigio!readyListUpdate(q, fd) = q
        BY <1>2, Zenon DEF Sigio!readyListUpdate
    <2>2. OnRing(q) = IF Sigio!isReady(q, fd) THEN OnRing(q) \cup {fd} ELSE OnRing(q) \ {fd}
        BY <1>1, <1>2
    <2>3. Relinked(q, q, OnRing(q))
        BY DEF Relinked, SameNode
    <2> QED BY <2>1, <2>2, <2>3
<1>3. CASE Sigio!isOnReadyList(q, fd) # Sigio!isReady(q, fd) /\ Sigio!isReady(q, fd)
    <2>1. Sigio!readyListUpdate(q, fd) = Sigio!readyListAdd(q, fd)
        BY <1>3, Zenon DEF Sigio!readyListUpdate
    <2>2. fd \notin OnRing(q)
        BY <1>1, <1>3 DEF Sigio!isOnReadyList, Sigio!isReady
    <2> QED BY <1>3, <2>1, <2>2, RingAdds
<1>4. CASE Sigio!isOnReadyList(q, fd) # Sigio!isReady(q, fd) /\ ~Sigio!isReady(q, fd)
    <2>1. Sigio!readyListUpdate(q, fd) = Sigio!readyListDel(q, fd)
        BY <1>4, Zenon DEF Sigio!readyListUpdate
    <2>2. fd \in OnRing(q)
        BY <1>1, <1>4 DEF Sigio!isOnReadyList, Sigio!isReady
    <2> QED BY <1>4, <2>1, <2>2, RingDeletes
<1> QED
    BY <1>2, <1>3, <1>4

\* What is on the ring stays so while its links do.
LEMMA RingKept ==
    ASSUME NEW q \in SigRecord, RingRight(q), NEW o \in SigRecord,
           o.m_ready_head = q.m_ready_head, o.m_ready_next = q.m_ready_next,
           o.m_ready_count = q.m_ready_count,
           \A x \in Fds : /\ o.m_fds[x].m_next = q.m_fds[x].m_next
                          /\ \/ o.m_fds[x].m_prev = q.m_fds[x].m_prev
                             \/ x \notin OnRing(q) /\ o.m_fds[x].m_prev \in {-1, -2}
    PROVE  RingRight(o) /\ OnRing(o) = OnRing(q)
<1> DEFINE F == q.m_fds
           G == o.m_fds
           L == OnRing(q)
<1>1. OnRing(o) = L
    BY OnRingIs
<1>2. L \subseteq Fds
    BY DEF OnRing
<1>3. Ring(L, Nexts(F), Prevs(F)) /\ \A x \in Fds \ L : F[x].m_next = -1 /\ F[x].m_prev \in {-1, -2}
    BY DEF RingRight
<1>4. /\ q.m_ready_count = Cardinality(L)
      /\ q.m_ready_head \in (IF L = {} THEN {-1} ELSE L)
      /\ q.m_ready_next \in L \cup {-1}
    BY DEF RingRight
<1>5. \A x \in Fds \ L : G[x].m_next = -1 /\ G[x].m_prev \in {-1, -2}
    BY <1>3
<1>6. \A x \in L : G[x].m_next = F[x].m_next /\ G[x].m_prev = F[x].m_prev
    BY <1>2
<1> HIDE DEF F, G, L
<1>7. \A x \in L : Nexts(G)[x] = Nexts(F)[x] /\ Prevs(G)[x] = Prevs(F)[x]
    BY <1>2, <1>6 DEF Nexts, Prevs
<1>8. Ring(L, Nexts(G), Prevs(G))
    <2>1. \A x \in L : Nexts(F)[x] \in L /\ Prevs(F)[x] \in L
        BY <1>3 DEF Ring
    <2> QED BY <1>3, <1>7, <2>1 DEF Ring
<1> QED
    BY <1>1, <1>4, <1>5, <1>8 DEF RingRight, G, L

------------------------------------------------------------------------------
\* The nodes agree with what the application registered, and on the ring are
\* those that are ready for something.
SigAgrees(q) ==
    /\ q.m_fds_used = Cardinality(registered)
    /\ \A fd \in Fds : /\ q.m_fds[fd].m_client = reg[fd]
                       /\ q.m_fds[fd].m_prev = -2 <=> fd \notin registered
    /\ OnRing(q) = {fd \in registered : Sigio!isReady(q, fd)}

SigRight(q) == q \in SigRecord /\ RingRight(q) /\ SigAgrees(q)

\* The mask and the bits of a registered descriptor change, and then
\* readyListUpdate is called.
LEMMA NodeChanged ==
    ASSUME NEW q, SigRight(q), NEW fd \in registered, NEW s \in SigNode,
           s.m_client = q.m_fds[fd].m_client, s.m_next = q.m_fds[fd].m_next,
           s.m_prev = q.m_fds[fd].m_prev,
           NEW o, o = Sigio!readyListUpdate([q EXCEPT !.m_fds[fd] = s], fd)
    PROVE  /\ SigRight(o) /\ o.m_backup = q.m_backup
           /\ o.m_fds[fd].m_mask = s.m_mask /\ o.m_fds[fd].m_readybits = s.m_readybits
           /\ \A g \in Fds : g # fd => /\ o.m_fds[g].m_mask = q.m_fds[g].m_mask
                                       /\ o.m_fds[g].m_readybits = q.m_fds[g].m_readybits
<1> DEFINE F == q.m_fds
           G == [F EXCEPT ![fd] = s]
           z == [q EXCEPT !.m_fds = G]
           L == IF Sigio!isReady(z, fd) THEN OnRing(z) \cup {fd} ELSE OnRing(z) \ {fd}
<1>0. fd \in Fds /\ q \in SigRecord /\ RingRight(q) /\ F \in [Fds -> SigNode]
    BY DEF registered, SigRight, SigRecord
<1>1. /\ G \in [Fds -> SigNode] /\ G[fd] = s
      /\ \A x \in Fds : x # fd => G[x] = F[x]
    BY <1>0
<1>2. o = Sigio!readyListUpdate(z, fd)
    OBVIOUS
<1> HIDE DEF G
<1>3. /\ z \in SigRecord /\ z.m_fds = G /\ z.m_ready_head = q.m_ready_head
      /\ z.m_ready_next = q.m_ready_next /\ z.m_ready_count = q.m_ready_count
      /\ z.m_fds_used = q.m_fds_used /\ z.m_backup = q.m_backup
    BY <1>0, <1>1 DEF SigRecord
<1> HIDE DEF z
<1>4. \A x \in Fds : /\ G[x].m_next = F[x].m_next /\ G[x].m_prev = F[x].m_prev
                     /\ G[x].m_client = F[x].m_client
    BY <1>1
<1>5. RingRight(z) /\ OnRing(z) = OnRing(q)
    BY <1>0, <1>3, <1>4, RingKept
<1>6. F[fd].m_prev # -2
    BY <1>0 DEF SigRight, SigAgrees
<1>7. Relinked(z, o, L)
    <2>1. z.m_fds[fd].m_prev # -2
        BY <1>0, <1>3, <1>4, <1>6
    <2> QED BY <1>0, <1>2, <1>3, <1>5, <2>1, RingUpdated
<1>8. /\ o \in SigRecord /\ RingRight(o) /\ OnRing(o) = L
      /\ o.m_fds_used = q.m_fds_used /\ o.m_backup = q.m_backup
    BY <1>3, <1>7 DEF Relinked
<1>9. \A x \in Fds : /\ o.m_fds[x].m_client = F[x].m_client
                     /\ o.m_fds[x].m_prev = -2 <=> F[x].m_prev = -2
                     /\ o.m_fds[x].m_mask = G[x].m_mask /\ o.m_fds[x].m_readybits = G[x].m_readybits
    <2>1. \A x \in Fds : SameNode(G, o.m_fds, x)
        BY <1>3, <1>7 DEF Relinked
    <2> QED BY <1>4, <2>1 DEF SameNode
<1>10. /\ Sigio!isReady(o, fd) <=> Sigio!isReady(z, fd)
       /\ \A x \in Fds : x # fd => (Sigio!isReady(o, x) <=> Sigio!isReady(q, x))
    BY <1>0, <1>1, <1>3, <1>9 DEF Sigio!isReady
<1>11. OnRing(q) = {x \in registered : Sigio!isReady(q, x)} /\ registered \subseteq Fds
    BY DEF SigRight, SigAgrees, registered
<1>12. OnRing(o) = {x \in registered : Sigio!isReady(o, x)}
    BY <1>5, <1>8, <1>10, <1>11
<1>13. SigAgrees(o)
    BY <1>8, <1>9, <1>12 DEF SigRight, SigAgrees
<1> QED
    BY <1>0, <1>1, <1>8, <1>9, <1>13 DEF SigRight

\* m_fds_used is not 0 if a descriptor is registered, and its node is not clear.
LEMMA SigTests ==
    ASSUME NEW q, SigRight(q), NEW fd \in Fds
    PROVE  /\ q.m_fds_used = 0 \/ Sigio!isClear(q, fd) <=> fd \notin registered
           /\ q.m_fds[fd] \in SigNode
<1>1. q.m_fds_used = 0 <=> registered = {}
    BY RegisteredCount, FS_EmptySet DEF SigRight, SigAgrees
<1>2. Sigio!isClear(q, fd) <=> fd \notin registered
    BY DEF SigRight, SigAgrees, Sigio!isClear
<1>3. q.m_fds[fd] \in SigNode
    BY DEF SigRight, SigRecord
<1> QED
    BY <1>1, <1>2, <1>3

\* The bits of a descriptor are set: nothing happens if it is not registered.
LEMMA BitsSet ==
    ASSUME NEW q, SigRight(q), NEW fd \in Fds, NEW bits \in SUBSET Events,
           NEW o, o = Sigio!SetReadybits(q, fd, bits)
    PROVE  /\ SigRight(o) /\ o.m_backup = q.m_backup
           /\ fd \in registered => o.m_fds[fd].m_readybits = bits
           /\ \A g \in registered : g # fd => o.m_fds[g].m_readybits = q.m_fds[g].m_readybits
<1>1. CASE fd \notin registered
    <2>1. o = q
        BY <1>1, SigTests DEF Sigio!SetReadybits
    <2> QED BY <1>1, <2>1
<1>2. CASE fd \in registered
    <2> DEFINE s == [q.m_fds[fd] EXCEPT !.m_readybits = bits]
    <2>1. /\ s \in SigNode /\ s.m_client = q.m_fds[fd].m_client /\ s.m_next = q.m_fds[fd].m_next
          /\ s.m_prev = q.m_fds[fd].m_prev /\ s.m_readybits = bits
        BY SigTests DEF SigNode
    <2>2. o = Sigio!readyListUpdate([q EXCEPT !.m_fds[fd] = s], fd)
        BY <1>2, SigTests DEF Sigio!SetReadybits
    <2> HIDE DEF s
    <2>3. registered \subseteq Fds
        BY DEF registered
    <2>4. /\ SigRight(o) /\ o.m_backup = q.m_backup /\ o.m_fds[fd].m_readybits = s.m_readybits
          /\ \A g \in Fds : g # fd => o.m_fds[g].m_readybits = q.m_fds[g].m_readybits
        BY <1>2, <2>1, <2>2, NodeChanged
    <2> QED BY <2>1, <2>3, <2>4
<1> QED
    BY <1>1, <1>2

\* The masks change the mask of the descriptor's node.
LEMMA SigMasked ==
    ASSUME NEW q, SigRight(q), NEW fd \in registered, NEW m \in SUBSET Events,
           NEW o, o \in {Sigio!setMask(q, fd, m), Sigio!orMask(q, fd, m), Sigio!andMask(q, fd, m)}
    PROVE  /\ SigRight(o) /\ o.m_backup = q.m_backup
           /\ \A g \in registered : o.m_fds[g].m_readybits = q.m_fds[g].m_readybits
<1>0. fd \in Fds /\ registered \subseteq Fds
    BY DEF registered
<1>1. q.m_fds[fd].m_mask \in SUBSET Events
    BY <1>0, SigTests DEF SigNode
<1>2. PICK k \in SUBSET Events : o = Sigio!setMask(q, fd, k)
    BY <1>1 DEF Sigio!orMask, Sigio!andMask
<1> DEFINE s == [q.m_fds[fd] EXCEPT !.m_mask = k]
<1>3. /\ s \in SigNode /\ s.m_client = q.m_fds[fd].m_client /\ s.m_next = q.m_fds[fd].m_next
      /\ s.m_prev = q.m_fds[fd].m_prev /\ s.m_readybits = q.m_fds[fd].m_readybits
    BY <1>0, SigTests DEF SigNode
<1>4. o = Sigio!readyListUpdate([q EXCEPT !.m_fds[fd] = s], fd)
    BY <1>0, <1>2, SigTests DEF Sigio!setMask
<1> HIDE DEF s
<1>5. /\ SigRight(o) /\ o.m_backup = q.m_backup /\ o.m_fds[fd].m_readybits = s.m_readybits
      /\ \A g \in Fds : g # fd => o.m_fds[g].m_readybits = q.m_fds[g].m_readybits
    BY <1>3, <1>4, NodeChanged
<1> QED
    BY <1>0, <1>3, <1>5

------------------------------------------------------------------------------
(***************************************************************************)
(* m_backup is a Poller_poll.                                              *)
(***************************************************************************)
LEMMA BackupIsPoll ==
    /\ \A b, fd, c, m : Sigio!Backup!add(b, fd, c, m) = Poll!add(b, fd, c, m)
    /\ \A b, fd : Sigio!Backup!del(b, fd) = Poll!del(b, fd)
    /\ \A b, r : Sigio!Backup!waitForEvents(b, r) = Poll!waitForEvents(b, r)
    /\ \A b : Sigio!Backup!getNextEvent(b) = Poll!getNextEvent(b)
    /\ Sigio!NoEvent = Poll!NoEvent
    /\ Sigio!Backup!init = Poll!init
<1>1. Sigio!Backup!Cardinality(Fds) = Poll!Cardinality(Fds)
    BY Zenon DEF Sigio!Backup!Cardinality, Poll!Cardinality
<1>2. Sigio!Backup!Slots = Poll!Slots
    BY <1>1, Zenon DEF Sigio!Backup!Slots, Poll!Slots
<1>3. Sigio!Backup!NoEvent = Poll!NoEvent
    BY Zenon DEF Sigio!Backup!NoEvent, Poll!NoEvent
<1>4. ASSUME NEW b, NEW fd, NEW c, NEW m
      PROVE  Sigio!Backup!add(b, fd, c, m) = Poll!add(b, fd, c, m)
    BY Zenon DEF Sigio!Backup!add, Poll!add
<1>5. ASSUME NEW b, NEW fd
      PROVE  Sigio!Backup!del(b, fd) = Poll!del(b, fd)
    BY Zenon DEF Sigio!Backup!del, Poll!del, Sigio!Backup!Unlinked, Poll!Unlinked,
                 Sigio!Backup!UsedBelow, Poll!UsedBelow
<1>6. ASSUME NEW b, NEW r
      PROVE  Sigio!Backup!waitForEvents(b, r) = Poll!waitForEvents(b, r)
    BY <1>2, Zenon DEF Sigio!Backup!waitForEvents, Poll!waitForEvents,
                       Sigio!Backup!Cardinality, Poll!Cardinality
<1>7. ASSUME NEW b PROVE Sigio!Backup!getNextEvent(b) = Poll!getNextEvent(b)
    BY <1>2, <1>3 DEF Sigio!Backup!getNextEvent, Poll!getNextEvent
<1>8. Sigio!Backup!init = Poll!init
    BY <1>1, <1>2, Zenon DEF Sigio!Backup!init, Poll!init
<1>9. Sigio!NoEvent = Poll!NoEvent
    BY <1>3, Zenon DEF Sigio!NoEvent
<1> QED
    BY <1>4, <1>5, <1>6, <1>7, <1>8, <1>9, Zenon

\* The virtual calls of a Poller_sigio.
LEMMA SigioDispatch ==
    ASSUME p.class = "sigio"
    PROVE  /\ \A fd, c, m, w : add(fd, c, m, w) = Sigio!add(p, fd, c, m)
           /\ \A fd, w : del(fd, w) = Sigio!del(p, fd)
           /\ \A fd, m, w : setMask(fd, m, w) = Sigio!setMask(p, fd, m)
           /\ \A fd, m, w : orMask(fd, m, w) = Sigio!orMask(p, fd, m)
           /\ \A fd, m, w : andMask(fd, m, w) = Sigio!andMask(p, fd, m)
           /\ getNextEvent = Sigio!getNextEvent(p)
           /\ Masks = SUBSET Events
           /\ Writes = {TRUE}
<1> QED
    BY Zenon DEF add, del, setMask, orMask, andMask, getNextEvent, Writes, Masks

\* m_backup watches for everything.
BackRight(b) ==
    /\ b \in PollRecord /\ PollTables(b)
    /\ \A i \in 0..N - 1 : i < b.m_pfds_used => b.m_pfds[i].events = Events

\* poll() has said what is ready, and the slots before m_cur_pfdnum are still
\* to be asked for.
BackWaiting(b) ==
    /\ BackRight(b)
    /\ b.m_cur_pfdnum <= b.m_pfds_used
    /\ b.m_rfds = Cardinality(Coming(b))
    /\ \A i \in Coming(b) : b.m_pfds[i].revents = ready[b.m_pfds[i].fd]

\* The system's side of a Poller_sigio: a descriptor that is not registered is
\* ready for nothing.
SigReady ==
    /\ ready \in [Fds -> SUBSET Events]
    /\ \A fd \in Fds \ registered : ready[fd] = {}

\* poll() tells everything that is ready.
LEMMA BackWaited ==
    ASSUME NEW b, BackRight(b), SigReady, NEW q, q = Poll!waitForEvents(b, ready)
    PROVE  /\ BackWaiting(q)
           /\ \A fd \in registered : ready[fd] # {} => \E i \in Coming(q) : q.m_pfds[i].fd = fd
<1> DEFINE inUse == 0..(b.m_pfds_used - 1)
           rev(i) == b.m_pfds[i].events \cap ready[b.m_pfds[i].fd]
           S == [i \in 0..N - 1 |-> IF i \in inUse THEN [b.m_pfds[i] EXCEPT !.revents = rev(i)]
                                    ELSE b.m_pfds[i]]
           A == {i \in inUse : rev(i) # {}}
           R == {fd \in Fds : ready[fd] # {}}
<1>0. N \in Nat /\ b \in PollRecord /\ PollTables(b) /\ b.m_pfds_used \in 0..N
      /\ inUse \subseteq 0..N - 1
    <2>1. N \in Nat /\ b \in PollRecord /\ PollTables(b)
        BY FdsType DEF BackRight
    <2>2. b.m_pfds_used \in 0..N
        BY <2>1 DEF PollRecord
    <2> QED BY <2>1, <2>2
<1>1. \A fd \in Fds : ready[fd] \subseteq IF fd \in registered THEN Poll!getMask(b, fd) ELSE {}
    <2> SUFFICES ASSUME NEW fd \in registered PROVE ready[fd] \subseteq Poll!getMask(b, fd)
        BY DEF SigReady
    <2>1. b.m_fd2pfdnum[fd] \in inUse /\ fd \in Fds
        BY <1>0 DEF PollTables, PollTablesAgree, registered
    <2>2. Poll!getMask(b, fd) = Events
        BY <1>0, <2>1 DEF BackRight, Poll!getMask
    <2> QED BY <2>1, <2>2 DEF SigReady
<1>2. PollFound(b, q, R)
    <2>1. ready \in [Fds -> SUBSET Events]
        BY DEF SigReady
    <2> QED BY <1>0, <1>1, <2>1, PollWaited
<1>3. q = [b EXCEPT !.m_pfds = S, !.m_rfds = Cardinality(A), !.m_cur_pfdnum = b.m_pfds_used]
    BY PollSlots, PollCardinality, Zenon DEF Poll!waitForEvents
<1>4. ASSUME NEW i \in 0..N - 1
      PROVE  /\ S[i].fd = b.m_pfds[i].fd /\ S[i].events = b.m_pfds[i].events
             /\ i \in inUse => S[i].revents = rev(i)
    <2>1. b.m_pfds[i] \in PollSlot
        BY <1>0 DEF PollRecord
    <2> HIDE DEF rev, inUse
    <2> QED BY <2>1 DEF PollSlot
<1>5. ASSUME NEW i \in inUse PROVE rev(i) = ready[b.m_pfds[i].fd]
    <2>1. b.m_pfds[i].events = Events /\ b.m_pfds[i].fd \in Fds
        BY <1>0 DEF BackRight, PollTables, registered
    <2> QED BY <2>1 DEF SigReady
<1> HIDE DEF S, A, rev
<1>6. q.m_pfds = S /\ q.m_rfds = Cardinality(A) /\ q.m_cur_pfdnum = b.m_pfds_used
    <2> DEFINE n == Cardinality(A)
               k == b.m_pfds_used
    <2> HIDE DEF n, k
    <2>1. q = [b EXCEPT !.m_pfds = S, !.m_rfds = n, !.m_cur_pfdnum = k]
        BY <1>3 DEF n, k
    <2>2. q.m_pfds = S /\ q.m_rfds = n /\ q.m_cur_pfdnum = k
        BY <1>0, <2>1 DEF PollRecord
    <2> QED BY <2>2 DEF n, k
<1>7. Coming(q) = A
    BY <1>0, <1>4, <1>6 DEF Coming, A
<1>8. \A i \in Coming(q) : q.m_pfds[i].revents = ready[q.m_pfds[i].fd]
    BY <1>0, <1>4, <1>5, <1>6, <1>7 DEF A
<1>9. /\ q \in PollRecord /\ q.m_pfds_used = b.m_pfds_used
      /\ q.m_fd2client_used = b.m_fd2client_used /\ q.m_fd2pfdnum = b.m_fd2pfdnum
      /\ q.m_clients = b.m_clients /\ \A i \in 0..N - 1 : q.m_pfds[i].fd = b.m_pfds[i].fd
    BY <1>2 DEF PollFound
<1>10. PollTables(q)
    BY <1>0, <1>9 DEF PollTables, PollTablesAgree
<1>11. \A i \in 0..N - 1 : i < q.m_pfds_used => q.m_pfds[i].events = Events
    BY <1>4, <1>6, <1>9 DEF BackRight
<1>12. BackWaiting(q)
    <2>1. b.m_pfds_used <= b.m_pfds_used
        BY <1>0
    <2> QED BY <1>6, <1>7, <1>8, <1>9, <1>10, <1>11, <2>1 DEF BackWaiting, BackRight
<1>13. ASSUME NEW fd \in registered, ready[fd] # {}
       PROVE  \E i \in Coming(q) : q.m_pfds[i].fd = fd
    <2>1. fd \in R
        BY <1>13 DEF registered
    <2> QED BY <1>2, <1>6, <2>1 DEF PollFound, Coming
<1> QED
    BY <1>12, <1>13

\* Each call of getNextEvent tells of one more.
LEMMA BackGiven ==
    ASSUME NEW b, BackWaiting(b), NEW r, r = Poll!getNextEvent(b)
    PROVE  \/ r.p = b /\ r.e = Poll!NoEvent /\ Coming(b) = {}
           \/ \E i \in Coming(b) :
                /\ r.e # Poll!NoEvent
                /\ r.e.fd = b.m_pfds[i].fd /\ r.e.fd \in registered
                /\ r.e.revents = ready[r.e.fd]
                /\ BackWaiting(r.p) /\ Coming(r.p) = Coming(b) \ {i} /\ r.p.m_pfds = b.m_pfds
<1>0. /\ b \in PollRecord /\ PollTables(b) /\ N \in Nat
      /\ b.m_pfds_used \in 0..N /\ b.m_cur_pfdnum \in -1..N /\ b.m_cur_pfdnum <= b.m_pfds_used
      /\ b.m_rfds = Cardinality(Coming(b)) /\ b.m_rfds \in -1..N
    BY FdsType DEF BackWaiting, BackRight, PollRecord
<1>1. IsFiniteSet(Coming(b)) /\ (Cardinality(Coming(b)) = 0 <=> Coming(b) = {})
      /\ Cardinality(Coming(b)) \in Nat
    <2>1. Coming(b) \subseteq 0..N - 1
        BY DEF Coming
    <2>2. IsFiniteSet(0..N - 1)
        BY <1>0, FS_Interval
    <2>3. IsFiniteSet(Coming(b))
        BY <2>1, <2>2, FS_Subset
    <2> QED BY <2>3, FS_CardinalityType, FS_EmptySet
<1> DEFINE n == Cardinality(Coming(b))
<1>2. CASE b.m_rfds < 1 /\ r.p = b /\ r.e = Poll!NoEvent
    BY <1>0, <1>1, <1>2
<1>3. CASE b.m_rfds >= 1 /\ (b.m_cur_pfdnum <= b.m_pfds_used => Coming(b) = {})
    BY <1>0, <1>1, <1>3
<1>4. ASSUME NEW i \in 0..b.m_pfds_used - 1,
             b.m_rfds >= 1,
             r.p = [b EXCEPT !.m_cur_pfdnum = i, !.m_rfds = @ - 1],
             r.e = [fd |-> b.m_pfds[i].fd, revents |-> b.m_pfds[i].revents,
                    client |-> b.m_clients[i]],
             b.m_pfds[i].revents # {},
             i < b.m_cur_pfdnum,
             b.m_cur_pfdnum <= b.m_pfds_used => \A k \in Coming(b) : k <= i
      PROVE  \E k \in Coming(b) :
                /\ r.e # Poll!NoEvent
                /\ r.e.fd = b.m_pfds[k].fd /\ r.e.fd \in registered
                /\ r.e.revents = ready[r.e.fd]
                /\ BackWaiting(r.p) /\ Coming(r.p) = Coming(b) \ {k} /\ r.p.m_pfds = b.m_pfds
    <2>1. i \in 0..N - 1 /\ i \in Coming(b) /\ i \in -1..N
        BY <1>0, <1>4 DEF Coming
    <2>2. b.m_pfds[i].fd \in registered /\ b.m_pfds[i].fd # -1
        BY <1>0, FdsType DEF PollTables, registered
    <2>3. /\ r.e.fd = b.m_pfds[i].fd /\ r.e.revents = b.m_pfds[i].revents
          /\ r.e # Poll!NoEvent
        <3>1. r.e.fd = b.m_pfds[i].fd /\ r.e.revents = b.m_pfds[i].revents
            BY <1>4
        <3>2. Poll!NoEvent.fd = -1
            BY DEF Poll!NoEvent
        <3> QED BY <2>2, <3>1, <3>2
    <2> DEFINE k == b.m_rfds - 1
               q == r.p
    <2>4. k \in -1..N
        BY <1>0, <1>4
    <2>5. q = [b EXCEPT !.m_cur_pfdnum = i, !.m_rfds = k]
        BY <1>4
    <2> HIDE DEF k, q
    <2>6. /\ q \in PollRecord /\ q.m_cur_pfdnum = i /\ q.m_rfds = k
          /\ q.m_pfds_used = b.m_pfds_used /\ q.m_fd2client_used = b.m_fd2client_used
          /\ q.m_fd2pfdnum = b.m_fd2pfdnum /\ q.m_clients = b.m_clients
          /\ q.m_pfds = b.m_pfds
        BY <1>0, <2>1, <2>4, <2>5 DEF PollRecord
    <2>7. Coming(q) = Coming(b) \ {i}
        <3>1. \A j \in Coming(b) : j <= i
            BY <1>0, <1>4
        <3>2. \A j \in 0..N - 1 : j < i <=> (j < b.m_cur_pfdnum /\ j <= i /\ j # i)
            BY <1>0, <1>4, <2>1
        <3> QED BY <2>6, <3>1, <3>2 DEF Coming
    <2>8. q.m_rfds = Cardinality(Coming(q))
        <3>1. Cardinality(Coming(b) \ {i}) = Cardinality(Coming(b)) - 1
            BY <1>1, <2>1, FS_RemoveElement
        <3> QED BY <1>0, <2>6, <2>7, <3>1 DEF k
    <2>9. PollTables(q)
        BY <1>0, <2>6 DEF PollTables, PollTablesAgree
    <2>10. BackWaiting(q)
        <3>1. q.m_cur_pfdnum <= q.m_pfds_used
            BY <1>0, <2>6
        <3>2. \A j \in Coming(q) : q.m_pfds[j].revents = ready[q.m_pfds[j].fd]
            BY <2>6, <2>7 DEF BackWaiting
        <3>3. BackRight(q)
            BY <2>6, <2>9 DEF BackWaiting, BackRight
        <3> QED BY <2>8, <3>1, <3>2, <3>3 DEF BackWaiting
    <2>11. b.m_pfds[i].revents = ready[b.m_pfds[i].fd]
        BY <2>1 DEF BackWaiting
    <2> QED BY <2>1, <2>2, <2>3, <2>6, <2>7, <2>10, <2>11 DEF q
<1> QED
    BY <1>0, <1>2, <1>3, <1>4, PollGiven, Zenon

------------------------------------------------------------------------------
\* A descriptor that is not registered is not on the ring.
LEMMA OffRing ==
    ASSUME NEW q, SigRight(q), NEW fd \in Fds, fd \notin registered
    PROVE  fd \notin OnRing(q) /\ q.m_fds[fd].m_next = -1
<1>1. fd \notin OnRing(q)
    BY DEF SigRight, SigAgrees
<1> QED
    BY <1>1 DEF SigRight, RingRight

\* add() and del() of m_backup.
LEMMA BackAdded ==
    ASSUME reg \in [Fds -> Clients \cup {NoClient}], NEW b \in PollRecord, BackRight(b),
           NEW fd \in Fds \ registered, NEW c \in Clients,
           reg' = [reg EXCEPT ![fd] = c], NEW d, d = Poll!add(b, fd, c, Events)
    PROVE  d \in PollRecord /\ BackRight(d)'
<1> DEFINE n == b.m_pfds_used
<1>0. b \in PollRecord /\ PollTables(b) /\ fd \in Fds /\ N \in Nat
    BY FdsType DEF BackRight
<1>1. PICK e \in SUBSET Events : e = Events
    OBVIOUS
<1>2. d = Poll!add(b, fd, c, e)
    BY <1>1
<1>3. d \in PollRecord /\ PollTables(d)'
    BY <1>0, <1>2, PollTablesStay
<1>4. n < N /\ n \in 0..N
    BY <1>0, RegisteredCount DEF PollTables, PollTablesAgree
<1>5. /\ d.m_pfds_used = n + 1
      /\ \A i \in 0..N - 1 : i # n => d.m_pfds[i] = b.m_pfds[i]
    <2>1. \A m \in SUBSET Events : d = Poll!add(b, fd, c, m) =>
            /\ d.m_pfds_used = n + 1
            /\ \A i \in 0..N - 1 : i # n => d.m_pfds[i] = b.m_pfds[i]
        <3> SUFFICES ASSUME NEW m \in SUBSET Events, d = Poll!add(b, fd, c, m)
                     PROVE  /\ d.m_pfds_used = n + 1
                            /\ \A i \in 0..N - 1 : i # n => d.m_pfds[i] = b.m_pfds[i]
            OBVIOUS
        <3>1. b.m_pfds_used < N /\ fd \in Fds
            BY <1>0, <1>4
        <3>2. /\ d \in PollRecord
              /\ d.m_pfds_used = n + 1
              /\ d.m_fd2client_used >= b.m_fd2client_used /\ d.m_fd2client_used > fd
              /\ d.m_fd2pfdnum = [b.m_fd2pfdnum EXCEPT ![fd] = n]
              /\ d.m_clients = [b.m_clients EXCEPT ![n] = c]
              /\ d.m_pfds[n].fd = fd
              /\ \A i \in 0..N - 1 : i # n => d.m_pfds[i] = b.m_pfds[i]
            BY <3>1, PollAdded
        <3> QED BY <3>2
    <2> QED BY <1>2, <2>1
<1>8. d.m_pfds[n].events = Events
    <2>1. n \in 0..N - 1
        BY <1>0, <1>4
    <2>2. b.m_pfds[n] \in PollSlot
        BY <1>0, <2>1 DEF PollRecord
    <2> DEFINE s == [b.m_pfds[n] EXCEPT !.fd = fd, !.events = Events]
               S == [b.m_pfds EXCEPT ![n] = s]
    <2>3. s.events = Events
        BY <2>2 DEF PollSlot
    <2> HIDE DEF s
    <2>4. S[n] = s
        BY <1>0, <2>1 DEF PollRecord
    <2> HIDE DEF S
    <2>5. d.m_pfds = S
        BY <1>0 DEF Poll!add, PollRecord, S, s
    <2> QED BY <2>3, <2>4, <2>5
<1>6. \A i \in 0..N - 1 : i < n => b.m_pfds[i].events = Events
    BY DEF BackRight
<1>7. \A i \in 0..N - 1 : i < d.m_pfds_used => d.m_pfds[i].events = Events
    BY <1>4, <1>5, <1>6, <1>8
<1> QED
    BY <1>3, <1>7 DEF BackRight

\* The same for del().
LEMMA BackDeleted ==
    ASSUME reg \in [Fds -> Clients \cup {NoClient}], NEW b \in PollRecord, BackRight(b),
           NEW fd \in registered, reg' = [reg EXCEPT ![fd] = NoClient],
           NEW d, d = Poll!del(b, fd)
    PROVE  d \in PollRecord /\ BackRight(d)'
<1> DEFINE n == b.m_fd2pfdnum[fd]
           last == b.m_pfds_used - 1
<1>0. b \in PollRecord /\ PollTables(b) /\ N \in Nat /\ b.m_pfds_used \in 0..N
    BY FdsType DEF BackRight, PollRecord
<1>1. d \in PollRecord /\ PollTables(d)'
    BY <1>0, PollTablesStay
<1>2. /\ n \in 0..last /\ last \in 0..N - 1 /\ d.m_pfds_used = last
      /\ \A i \in 0..N - 1 : i # last => d.m_pfds[i] = b.m_pfds[IF i = n THEN last ELSE i]
    BY <1>0, PollDeleted
<1>3. \A i \in 0..last : b.m_pfds[i].events = Events
    <2>1. \A i \in 0..last : i \in 0..N - 1 /\ i < b.m_pfds_used
        BY <1>0
    <2> QED BY <2>1 DEF BackRight
<1> HIDE DEF n, last
<1>4. \A i \in 0..N - 1 : i < last => d.m_pfds[i].events = Events
    BY <1>0, <1>2, <1>3
<1> QED
    BY <1>1, <1>2, <1>4 DEF BackRight

\* fd is registered with c.
NewClient(fd, c) == reg' = [reg EXCEPT ![fd] = c]

\* add(): a descriptor that is new is taken to be ready for everything.
LEMMA SigAdded ==
    ASSUME reg \in [Fds -> Clients \cup {NoClient}], NEW q, SigRight(q), BackRight(q.m_backup),
           NEW fd \in Fds, fd \notin registered, NEW c \in Clients, NEW m \in SUBSET Events,
           NewClient(fd, c), NEW o, o = Sigio!add(q, fd, c, m)
    PROVE  /\ SigRight(o)' /\ BackRight(o.m_backup)'
           /\ o.m_fds[fd].m_readybits = Events
           /\ \A g \in Fds : g # fd => o.m_fds[g].m_readybits = q.m_fds[g].m_readybits
<1> DEFINE F == q.m_fds
           b == q.m_backup
           d == Poll!add(b, fd, c, Events)
           s == [m_client |-> c, m_next |-> -1, m_prev |-> -1, m_mask |-> m, m_readybits |-> Events]
           G == [F EXCEPT ![fd] = s]
           k == q.m_fds_used + 1
           z == [q EXCEPT !.m_fds_used = k, !.m_fds = G, !.m_backup = d]
           L == IF Sigio!isReady(z, fd) THEN OnRing(z) \cup {fd} ELSE OnRing(z) \ {fd}
<1>0. /\ q \in SigRecord /\ RingRight(q) /\ SigAgrees(q) /\ F \in [Fds -> SigNode]
      /\ b \in PollRecord /\ PollTables(b) /\ N \in Nat /\ fd \in Fds /\ fd \notin registered
    BY FdsType DEF SigRight, SigRecord, BackRight
<1>1. /\ registered' = registered \cup {fd} /\ Cardinality(registered') = Cardinality(registered) + 1
      /\ Cardinality(registered) < N /\ Cardinality(registered) \in 0..N
      /\ reg'[fd] = c /\ \A x \in Fds : x # fd => reg'[x] = reg[x]
    BY RegisterOne, RegisteredCount DEF NewClient
<1>2. o = Sigio!readyListUpdate(z, fd)
    <2>1. Sigio!Backup!add(b, fd, c, Events) = d
        BY BackupIsPoll, Zenon
    <2> QED BY <2>1, Zenon DEF Sigio!add, Sigio!Registered
<1>3. d \in PollRecord /\ BackRight(d)'
    BY <1>0, BackAdded DEF NewClient
<1>4. s \in SigNode /\ s.m_next = -1 /\ s.m_prev = -1 /\ s.m_client = c /\ s.m_readybits = Events
    BY <1>0 DEF SigNode
<1>5. k \in 0..N /\ k = Cardinality(registered')
    BY <1>0, <1>1 DEF SigAgrees
<1> HIDE DEF s, d, k
<1>6. G \in [Fds -> SigNode] /\ G[fd] = s /\ \A x \in Fds : x # fd => G[x] = F[x]
    BY <1>0, <1>4
<1> HIDE DEF G
<1>7. /\ z \in SigRecord /\ z.m_fds = G /\ z.m_ready_head = q.m_ready_head
      /\ z.m_ready_next = q.m_ready_next /\ z.m_ready_count = q.m_ready_count
      /\ z.m_fds_used = k /\ z.m_backup = d
    BY <1>0, <1>3, <1>5, <1>6 DEF SigRecord
<1> HIDE DEF z
<1>8. fd \notin OnRing(q) /\ F[fd].m_next = -1
    BY <1>0, OffRing
<1>9. RingRight(z) /\ OnRing(z) = OnRing(q)
    <2>1. \A x \in Fds : /\ G[x].m_next = F[x].m_next
                         /\ \/ G[x].m_prev = F[x].m_prev
                            \/ x \notin OnRing(q) /\ G[x].m_prev \in {-1, -2}
        BY <1>4, <1>6, <1>8
    <2> QED BY <1>0, <1>7, <2>1, RingKept
<1>10. Relinked(z, o, L)
    <2>1. z.m_fds[fd].m_prev # -2
        BY <1>4, <1>6, <1>7
    <2> QED BY <1>0, <1>2, <1>7, <1>9, <2>1, RingUpdated
<1>11. /\ o \in SigRecord /\ RingRight(o) /\ OnRing(o) = L
       /\ o.m_fds_used = k /\ o.m_backup = d
    BY <1>7, <1>10 DEF Relinked
<1>12. \A x \in Fds : /\ o.m_fds[x].m_client = G[x].m_client
                      /\ o.m_fds[x].m_prev = -2 <=> G[x].m_prev = -2
                      /\ o.m_fds[x].m_mask = G[x].m_mask /\ o.m_fds[x].m_readybits = G[x].m_readybits
    <2>1. \A x \in Fds : SameNode(G, o.m_fds, x)
        BY <1>7, <1>10 DEF Relinked
    <2> QED BY <2>1 DEF SameNode
<1>13. /\ Sigio!isReady(o, fd) <=> Sigio!isReady(z, fd)
       /\ \A x \in Fds : x # fd => (Sigio!isReady(o, x) <=> Sigio!isReady(q, x))
    BY <1>0, <1>6, <1>7, <1>12 DEF Sigio!isReady
<1>14. OnRing(o) = {x \in registered' : Sigio!isReady(o, x)}
    <2>1. OnRing(q) = {x \in registered : Sigio!isReady(q, x)} /\ registered \subseteq Fds
        BY <1>0 DEF SigAgrees, registered
    <2> QED BY <1>0, <1>1, <1>9, <1>11, <1>13, <2>1
<1>15. \A x \in Fds : /\ o.m_fds[x].m_client = reg'[x]
                      /\ o.m_fds[x].m_prev = -2 <=> x \notin registered'
    <2>1. \A x \in Fds : /\ F[x].m_client = reg[x]
                         /\ F[x].m_prev = -2 <=> x \notin registered
        BY <1>0 DEF SigAgrees
    <2> QED BY <1>1, <1>4, <1>6, <1>12, <2>1
<1>16. SigAgrees(o)'
    BY <1>5, <1>11, <1>14, <1>15 DEF SigAgrees
<1> QED
    BY <1>3, <1>4, <1>6, <1>11, <1>12, <1>16 DEF SigRight

\* del(): the descriptor leaves the ring and its node is clear.
LEMMA SigDeleted ==
    ASSUME reg \in [Fds -> Clients \cup {NoClient}], NEW q, SigRight(q), BackRight(q.m_backup),
           NEW fd \in registered, reg' = [reg EXCEPT ![fd] = NoClient],
           NEW o, o = Sigio!del(q, fd)
    PROVE  /\ SigRight(o)' /\ BackRight(o.m_backup)'
           /\ \A g \in Fds : g # fd => o.m_fds[g].m_readybits = q.m_fds[g].m_readybits
<1> DEFINE F == q.m_fds
           b == q.m_backup
           d == Poll!del(b, fd)
           M == OnRing(q) \ {fd}
           z == IF Sigio!isOnReadyList(q, fd) THEN Sigio!readyListDel(q, fd) ELSE q
           G == [z.m_fds EXCEPT ![fd] = Sigio!clear]
           k == q.m_fds_used - 1
<1>0. /\ q \in SigRecord /\ RingRight(q) /\ SigAgrees(q) /\ F \in [Fds -> SigNode]
      /\ b \in PollRecord /\ PollTables(b) /\ N \in Nat /\ fd \in Fds /\ registered \subseteq Fds
    BY FdsType DEF SigRight, SigRecord, BackRight, registered
<1>1. /\ registered' = registered \ {fd} /\ Cardinality(registered') = Cardinality(registered) - 1
      /\ Cardinality(registered) > 0 /\ Cardinality(registered) \in 0..N
      /\ reg'[fd] = NoClient /\ \A x \in Fds : x # fd => reg'[x] = reg[x]
    BY <1>0, DeregisterOne, RegisteredCount
<1>2. o = [z EXCEPT !.m_fds = G, !.m_backup = Sigio!Backup!del(@, fd), !.m_fds_used = @ - 1]
    <2>1. q.m_fds_used # 0
        BY <1>0, <1>1 DEF SigAgrees
    <2>2. o = [Sigio!Removed(q, fd) EXCEPT !.m_fds_used = @ - 1]
        BY <2>1, Zenon DEF Sigio!del
    <2> QED BY <2>2 DEF Sigio!Removed
<1>3. Relinked(q, z, M)
    <2>1. Sigio!isOnReadyList(q, fd) <=> fd \in OnRing(q)
        BY <1>0 DEF OnRing
    <2>2. CASE Sigio!isOnReadyList(q, fd)
        <3>1. z = Sigio!readyListDel(q, fd)
            BY <2>2
        <3> QED BY <1>0, <2>1, <2>2, <3>1, RingDeletes
    <2>3. CASE ~Sigio!isOnReadyList(q, fd)
        <3>1. z = q /\ M = OnRing(q)
            BY <2>1, <2>3
        <3>2. Relinked(q, q, OnRing(q))
            BY <1>0 DEF Relinked, SameNode
        <3> QED BY <3>1, <3>2
    <2> QED BY <2>2, <2>3
<1> HIDE DEF z
<1>4. /\ z \in SigRecord /\ RingRight(z) /\ OnRing(z) = M /\ z.m_fds \in [Fds -> SigNode]
      /\ z.m_fds_used = q.m_fds_used /\ z.m_backup = b
      /\ \A x \in Fds : SameNode(F, z.m_fds, x)
    BY <1>3 DEF Relinked, SigRecord
<1>5. k \in 0..N /\ k = Cardinality(registered')
    BY <1>0, <1>1 DEF SigAgrees
<1>6. d \in PollRecord /\ BackRight(d)'
    BY <1>0, BackDeleted
<1>7. o = [z EXCEPT !.m_fds = G, !.m_backup = d, !.m_fds_used = k]
    <2>1. Sigio!Backup!del(b, fd) = d
        BY BackupIsPoll, Zenon
    <2> HIDE DEF G, d, k
    <2>2. o = [z EXCEPT !.m_fds = G, !.m_backup = d, !.m_fds_used = q.m_fds_used - 1]
        BY <1>2, <1>4, <2>1 DEF SigRecord
    <2> QED BY <2>2 DEF k
<1>8. /\ Sigio!clear \in SigNode /\ Sigio!clear.m_next = -1 /\ Sigio!clear.m_prev = -2
      /\ Sigio!clear.m_client = NoClient
    BY DEF Sigio!clear, SigNode
<1>9. G \in [Fds -> SigNode] /\ G[fd] = Sigio!clear /\ \A x \in Fds : x # fd => G[x] = z.m_fds[x]
    BY <1>0, <1>4, <1>8
<1> HIDE DEF G, d, k
<1>10. /\ o \in SigRecord /\ o.m_fds = G /\ o.m_ready_head = z.m_ready_head
       /\ o.m_ready_next = z.m_ready_next /\ o.m_ready_count = z.m_ready_count
       /\ o.m_fds_used = k /\ o.m_backup = d
    BY <1>4, <1>5, <1>6, <1>7, <1>9 DEF SigRecord
<1>11. RingRight(o) /\ OnRing(o) = M
    <2>1. fd \notin OnRing(z) /\ z.m_fds[fd].m_next = -1
        BY <1>0, <1>4 DEF RingRight
    <2>2. \A x \in Fds : /\ G[x].m_next = z.m_fds[x].m_next
                         /\ \/ G[x].m_prev = z.m_fds[x].m_prev
                            \/ x \notin OnRing(z) /\ G[x].m_prev \in {-1, -2}
        BY <1>8, <1>9, <2>1
    <2> QED BY <1>4, <1>10, <2>2, RingKept
<1>12. \A x \in Fds : x # fd =>
                 /\ G[x].m_client = F[x].m_client
                 /\ G[x].m_prev = -2 <=> F[x].m_prev = -2
                 /\ G[x].m_mask = F[x].m_mask /\ G[x].m_readybits = F[x].m_readybits
    BY <1>4, <1>9 DEF SameNode
<1>13. \A x \in Fds : x # fd => (Sigio!isReady(o, x) <=> Sigio!isReady(q, x))
    BY <1>10, <1>12 DEF Sigio!isReady
<1>14. OnRing(o) = {x \in registered' : Sigio!isReady(o, x)}
    <2>1. OnRing(q) = {x \in registered : Sigio!isReady(q, x)}
        BY <1>0 DEF SigAgrees
    <2> QED BY <1>0, <1>1, <1>11, <1>13, <2>1
<1>15. \A x \in Fds : /\ o.m_fds[x].m_client = reg'[x]
                      /\ o.m_fds[x].m_prev = -2 <=> x \notin registered'
    <2>1. \A x \in Fds : /\ F[x].m_client = reg[x]
                         /\ F[x].m_prev = -2 <=> x \notin registered
        BY <1>0 DEF SigAgrees
    <2> QED BY <1>1, <1>8, <1>9, <1>10, <1>12, <2>1
<1>16. SigAgrees(o)'
    BY <1>5, <1>10, <1>14, <1>15 DEF SigAgrees
<1> QED
    BY <1>6, <1>10, <1>11, <1>12, <1>16 DEF SigRight

------------------------------------------------------------------------------
(***************************************************************************)
(* The loops of waitForEvents are functions of the number of rounds.       *)
(***************************************************************************)
LEMMA UpTo ==
    ASSUME NEW n \in Nat, NEW P, 0 \in P, \A i \in 1..n : i - 1 \in P => i \in P
    PROVE  \A i \in 0..n : i \in P
<1> DEFINE Bad == {i \in 0..n : i \notin P}
<1>1. ASSUME Bad # {} PROVE FALSE
    <2>1. Bad \in SUBSET Nat
        OBVIOUS
    <2>2. PICK k \in Bad : \A m \in Bad : k <= m
        BY <1>1, <2>1, HasMinimum
    <2>3. k \in 1..n /\ k - 1 \in 0..n
        BY <2>2
    <2>4. k - 1 \notin Bad
        BY <2>2, <2>3
    <2> QED BY <2>2, <2>3, <2>4
<1> QED
    BY <1>1

\* g takes n steps from start.
Iteration(g, n, S, start, step) ==
    g \in [0..n -> S] /\ g[0] = start /\ \A i \in 1..n : g[i] = step[i][g[i - 1]]

\* A number of steps, each of which leads from S into S, can be taken.
LEMMA Iterates ==
    ASSUME NEW n \in Nat, NEW S, NEW start \in S, NEW step \in [1..n -> [S -> S]]
    PROVE  \E g : Iteration(g, n, S, start, step)
<1> DEFINE Fine(g, k) == Iteration(g, k, S, start, step)
           P == {k \in 0..n : \E g : Fine(g, k)}
<1>1. 0 \in P
    <2> DEFINE g0 == [i \in 0..0 |-> start]
    <2>1. g0 \in [0..0 -> S] /\ g0[0] = start
        OBVIOUS
    <2> HIDE DEF g0
    <2>2. Fine(g0, 0)
        BY <2>1 DEF Iteration
    <2> QED BY <2>2
<1>2. ASSUME NEW k \in 1..n, k - 1 \in P PROVE k \in P
    <2>1. PICK f : Fine(f, k - 1)
        BY <1>2
    <2> DEFINE t == step[k][f[k - 1]]
               g == [i \in 0..k |-> IF i = k THEN t ELSE f[i]]
    <2>2. k - 1 \in 0..(k - 1) /\ k \in Nat
        OBVIOUS
    <2>3. t \in S
        BY <2>1, <2>2 DEF Iteration
    <2> HIDE DEF t
    <2>4. /\ g \in [0..k -> S] /\ g[0] = start /\ g[k] = t
          /\ \A i \in 0..(k - 1) : g[i] = f[i]
        BY <2>1, <2>2, <2>3 DEF Iteration
    <2> HIDE DEF g
    <2>5. ASSUME NEW i \in 1..k PROVE g[i] = step[i][g[i - 1]]
        <3>1. i - 1 \in 0..(k - 1) /\ (i = k \/ (i \in 1..(k - 1) /\ i \in 0..(k - 1)))
            BY <2>2
        <3>2. g[i - 1] = f[i - 1]
            BY <2>4, <3>1
        <3>3. CASE i = k
            BY <2>4, <3>2, <3>3 DEF t
        <3>4. CASE i \in 1..(k - 1) /\ i \in 0..(k - 1)
            BY <2>1, <2>4, <3>2, <3>4 DEF Iteration
        <3> QED BY <3>1, <3>3, <3>4
    <2>6. Fine(g, k)
        BY <2>4, <2>5 DEF Iteration
    <2> HIDE DEF Fine
    <2> QED BY <2>2, <2>6
<1> HIDE DEF Fine
<1>3. n \in P
    <2> HIDE DEF P
    <2>1. \A i \in 1..n : i - 1 \in P => i \in P
        BY <1>2
    <2>2. \A i \in 0..n : i \in P
        BY <1>1, <2>1, UpTo
    <2> QED BY <2>2
<1> QED
    BY <1>3 DEF Fine

\* The signals, and what the loop over them has done to q after i of them.
SigInfo == [fd : Fds, band : SUBSET Events]

Taken(q, s, o, i) ==
    /\ SigRight(o) /\ o.m_backup = q.m_backup
    /\ \A fd \in registered : q.m_fds[fd].m_readybits \subseteq o.m_fds[fd].m_readybits
    /\ \A j \in 1..i : s[j].fd \in registered => s[j].band \subseteq o.m_fds[s[j].fd].m_readybits

\* One signal adds its bits.
LEMMA SignalTaken ==
    ASSUME NEW q, SigRight(q), NEW info \in SigInfo, NEW o, o = Sigio!Signalled(q, info)
    PROVE  /\ SigRight(o) /\ o.m_backup = q.m_backup
           /\ \A fd \in registered : q.m_fds[fd].m_readybits \subseteq o.m_fds[fd].m_readybits
           /\ info.fd \in registered => info.band \subseteq o.m_fds[info.fd].m_readybits
<1> DEFINE bits == q.m_fds[info.fd].m_readybits \cup info.band
<1>1. info.fd \in Fds /\ info.band \in SUBSET Events
    BY DEF SigInfo
<1>2. q.m_fds[info.fd].m_readybits \in SUBSET Events
    BY <1>1, SigTests DEF SigNode
<1>3. bits \in SUBSET Events
    BY <1>1, <1>2
<1>4. o = Sigio!SetReadybits(q, info.fd, bits)
    BY DEF Sigio!Signalled
<1> HIDE DEF bits
<1>5. /\ SigRight(o) /\ o.m_backup = q.m_backup
      /\ info.fd \in registered => o.m_fds[info.fd].m_readybits = bits
      /\ \A g \in registered : g # info.fd => o.m_fds[g].m_readybits = q.m_fds[g].m_readybits
    BY <1>1, <1>3, <1>4, BitsSet
<1> QED
    BY <1>5 DEF bits

\* The loop over the signals.
LEMMA SignalsTaken ==
    ASSUME NEW q, SigRight(q), NEW s \in Seq(SigInfo), NEW o, o = Sigio!AfterSignals(q, s)[Len(s)]
    PROVE  Taken(q, s, o, Len(s))
<1> DEFINE n == Len(s)
           start == [q EXCEPT !.m_ready_next = q.m_ready_head]
           f == Sigio!AfterSignals(q, s)
           S == {x \in SigRecord : SigRight(x)}
           step == [i \in 1..n |-> [x \in S |-> Sigio!Signalled(x, s[i])]]
           P == {i \in 0..n : Taken(q, s, f[i], i)}
<1>0. n \in Nat /\ \A i \in 1..n : s[i] \in SigInfo
    OBVIOUS
<1>1. SigRight(start) /\ start.m_fds = q.m_fds /\ start.m_backup = q.m_backup
    <2> DEFINE h == q.m_ready_head
    <2>1. q \in SigRecord /\ h \in Fds \cup {-1} /\ h \in OnRing(q) \cup {-1}
        BY DEF SigRight, SigRecord, RingRight
    <2>2. start = [q EXCEPT !.m_ready_next = h]
        OBVIOUS
    <2> HIDE DEF h, start
    <2>3. /\ start \in SigRecord /\ start.m_fds = q.m_fds /\ start.m_backup = q.m_backup
          /\ start.m_fds_used = q.m_fds_used /\ start.m_ready_head = q.m_ready_head
          /\ start.m_ready_count = q.m_ready_count /\ start.m_ready_next = h
        BY <2>1, <2>2 DEF SigRecord
    <2>4. OnRing(start) = OnRing(q)
        BY <2>1, <2>3, OnRingIs
    <2>5. \A fd \in Fds : Sigio!isReady(start, fd) <=> Sigio!isReady(q, fd)
        BY <2>3 DEF Sigio!isReady
    <2>6. SigAgrees(start)
        BY <2>3, <2>4, <2>5 DEF SigRight, SigAgrees, registered
    <2>7. RingRight(start)
        BY <2>1, <2>3, <2>4 DEF SigRight, RingRight
    <2> QED BY <2>3, <2>6, <2>7 DEF SigRight
<1>2. f = CHOOSE h : h = [i \in 0..n |-> IF i = 0 THEN start ELSE Sigio!Signalled(h[i - 1], s[i])]
    BY DEF Sigio!AfterSignals
<1> HIDE DEF n, start, f
<1>3. PICK g : g \in [0..n -> S] /\ g[0] = start /\ \A i \in 1..n : g[i] = step[i][g[i - 1]]
    <2>1. start \in S
        BY <1>1 DEF SigRight
    <2>2. step \in [1..n -> [S -> S]]
        <3>1. ASSUME NEW i \in 1..n, NEW x \in S PROVE Sigio!Signalled(x, s[i]) \in S
            BY <1>0, SignalTaken DEF SigRight
        <3> HIDE DEF S
        <3> QED BY <3>1
    <2> HIDE DEF S, step
    <2>3. \E g : Iteration(g, n, S, start, step)
        BY <1>0, <2>1, <2>2, Iterates
    <2> QED BY <2>3 DEF Iteration
<1>4. g = [i \in 0..n |-> IF i = 0 THEN start ELSE Sigio!Signalled(g[i - 1], s[i])]
    <2>1. ASSUME NEW i \in 1..n PROVE g[i] = Sigio!Signalled(g[i - 1], s[i])
        <3>1. i - 1 \in 0..n
            BY <1>0
        <3> HIDE DEF S
        <3> QED BY <1>3, <3>1
    <2>2. \A i \in 0..n : i = 0 \/ i \in 1..n
        BY <1>0
    <2> HIDE DEF S, step
    <2> QED BY <1>3, <2>1, <2>2
<1>5. f = [i \in 0..n |-> IF i = 0 THEN start ELSE Sigio!Signalled(f[i - 1], s[i])]
    BY <1>2, <1>4
<1>6. f[0] = start /\ \A i \in 1..n : f[i] = Sigio!Signalled(f[i - 1], s[i])
    BY <1>0, <1>5
<1>7. 0 \in P
    BY <1>0, <1>1, <1>6 DEF Taken
<1>8. ASSUME NEW i \in 1..n, i - 1 \in P PROVE i \in P
    <2>1. i - 1 \in 0..n /\ i \in 0..n /\ Taken(q, s, f[i - 1], i - 1)
        BY <1>0, <1>8
    <2>2. f[i] = Sigio!Signalled(f[i - 1], s[i]) /\ s[i] \in SigInfo
        BY <1>0, <1>6
    <2> DEFINE x == f[i - 1]
               y == f[i]
    <2> HIDE DEF x, y
    <2>3. /\ SigRight(y) /\ y.m_backup = x.m_backup
          /\ \A fd \in registered : x.m_fds[fd].m_readybits \subseteq y.m_fds[fd].m_readybits
          /\ s[i].fd \in registered => s[i].band \subseteq y.m_fds[s[i].fd].m_readybits
        <3>1. SigRight(x) /\ y = Sigio!Signalled(x, s[i]) /\ s[i] \in SigInfo
            BY <2>1, <2>2 DEF Taken, x, y
        <3> QED BY <3>1, SignalTaken
    <2>4. Taken(q, s, x, i - 1)
        BY <2>1 DEF x
    <2>5. \A j \in 1..i : j = i \/ j \in 1..(i - 1)
        BY <1>0
    <2>6. Taken(q, s, y, i)
        BY <2>3, <2>4, <2>5 DEF Taken
    <2> QED BY <2>1, <2>6 DEF y
<1>9. n \in P
    <2> HIDE DEF P
    <2>1. \A i \in 1..n : i - 1 \in P => i \in P
        BY <1>8
    <2>2. \A i \in 0..n : i \in P
        BY <1>0, <1>7, <2>1, UpTo
    <2> QED BY <1>0, <2>2
<1> QED
    BY <1>9 DEF n, f

\* What a registered descriptor is ready for is in its bits, or m_backup is
\* still to tell of it.
Heard(o) ==
    /\ SigRight(o) /\ BackWaiting(o.m_backup)
    /\ \A fd \in registered :
        \/ ready[fd] \subseteq o.m_fds[fd].m_readybits
        \/ \E i \in Coming(o.m_backup) : o.m_backup.m_pfds[i].fd = fd

\* One event of m_backup replaces the bits of its descriptor.
LEMMA EventTaken ==
    ASSUME NEW q, Heard(q), SigReady, NEW o, o = Sigio!FromBackup(q)
    PROVE  /\ Heard(o)
           /\ \/ Coming(q.m_backup) = {} /\ Coming(o.m_backup) = {}
              \/ \E i \in Coming(q.m_backup) : Coming(o.m_backup) = Coming(q.m_backup) \ {i}
<1> DEFINE b == q.m_backup
           r == Poll!getNextEvent(b)
           z == [q EXCEPT !.m_backup = r.p]
<1>0. /\ SigRight(q) /\ q \in SigRecord /\ BackWaiting(b) /\ b \in PollRecord
      /\ registered \subseteq Fds
    BY DEF Heard, SigRight, SigRecord, registered
<1>1. o = IF r.e = Poll!NoEvent THEN z ELSE Sigio!SetReadybits(z, r.e.fd, r.e.revents)
    <2>1. Sigio!Backup!getNextEvent(b) = r /\ Sigio!NoEvent = Poll!NoEvent
        BY BackupIsPoll, Zenon
    <2> QED BY <2>1, Zenon DEF Sigio!FromBackup
<1> HIDE DEF b, r, z
<1>2. CASE r.p = b /\ r.e = Poll!NoEvent /\ Coming(b) = {}
    <2>1. z = q
        BY <1>0, <1>2 DEF z, b, SigRecord
    <2>2. o = q
        BY <1>1, <1>2, <2>1
    <2> QED BY <1>2, <2>2 DEF b
<1>3. ASSUME NEW i \in Coming(b),
             r.e # Poll!NoEvent,
             r.e.fd = b.m_pfds[i].fd, r.e.fd \in registered,
             r.e.revents = ready[r.e.fd],
             BackWaiting(r.p), Coming(r.p) = Coming(b) \ {i}, r.p.m_pfds = b.m_pfds
      PROVE  Heard(o) /\ Coming(o.m_backup) = Coming(b) \ {i}
    <2> DEFINE d == r.p
               fd == r.e.fd
               bits == ready[fd]
    <2>1. o = Sigio!SetReadybits(z, fd, bits) /\ fd \in Fds /\ bits \in SUBSET Events
        BY <1>0, <1>1, <1>3 DEF SigReady
    <2>2. d \in PollRecord
        BY <1>3 DEF BackWaiting, BackRight
    <2>3. z = [q EXCEPT !.m_backup = d]
        BY DEF z
    <2> HIDE DEF d, fd, bits
    <2>4. /\ z \in SigRecord /\ z.m_fds = q.m_fds /\ z.m_backup = d
          /\ z.m_fds_used = q.m_fds_used /\ z.m_ready_head = q.m_ready_head
          /\ z.m_ready_count = q.m_ready_count /\ z.m_ready_next = q.m_ready_next
        BY <1>0, <2>2, <2>3 DEF SigRecord
    <2>5. SigRight(z)
        <3>1. RingRight(z) /\ OnRing(z) = OnRing(q)
            BY <1>0, <2>4, RingKept DEF SigRight
        <3>2. \A x \in Fds : Sigio!isReady(z, x) <=> Sigio!isReady(q, x)
            BY <2>4 DEF Sigio!isReady
        <3>3. SigAgrees(z)
            BY <1>0, <2>4, <3>1, <3>2 DEF SigRight, SigAgrees
        <3> QED BY <2>4, <3>1, <3>3 DEF SigRight
    <2>6. /\ SigRight(o) /\ o.m_backup = z.m_backup
          /\ fd \in registered => o.m_fds[fd].m_readybits = bits
          /\ \A g \in registered : g # fd => o.m_fds[g].m_readybits = z.m_fds[g].m_readybits
        BY <2>1, <2>5, BitsSet
    <2>7. /\ o.m_backup = d /\ o.m_fds[fd].m_readybits = ready[fd]
          /\ \A g \in registered : g # fd => o.m_fds[g].m_readybits = q.m_fds[g].m_readybits
        BY <1>3, <2>4, <2>6 DEF fd, bits
    <2>8. BackWaiting(d) /\ Coming(d) = Coming(b) \ {i} /\ d.m_pfds = b.m_pfds /\ b.m_pfds[i].fd = fd
        BY <1>3 DEF d, fd
    <2>9. ASSUME NEW g \in registered
          PROVE  \/ ready[g] \subseteq o.m_fds[g].m_readybits
                 \/ \E j \in Coming(d) : d.m_pfds[j].fd = g
        <3>1. CASE g = fd
            BY <2>7, <3>1
        <3>2. CASE g # fd
            <4>1. \/ ready[g] \subseteq q.m_fds[g].m_readybits
                  \/ \E j \in Coming(b) : b.m_pfds[j].fd = g
                BY DEF Heard, b
            <4>2. \A j \in Coming(b) : b.m_pfds[j].fd = g => j \in Coming(d) /\ d.m_pfds[j].fd = g
                BY <2>8, <3>2
            <4> QED BY <2>7, <3>2, <4>1, <4>2
        <3> QED BY <3>1, <3>2
    <2> QED BY <2>6, <2>7, <2>8, <2>9 DEF Heard
<1>4. \/ r.p = b /\ r.e = Poll!NoEvent /\ Coming(b) = {}
      \/ \E i \in Coming(b) :
           /\ r.e # Poll!NoEvent
           /\ r.e.fd = b.m_pfds[i].fd /\ r.e.fd \in registered
           /\ r.e.revents = ready[r.e.fd]
           /\ BackWaiting(r.p) /\ Coming(r.p) = Coming(b) \ {i} /\ r.p.m_pfds = b.m_pfds
    <2> DEFINE s == r
    <2>1. s = Poll!getNextEvent(b)
        BY DEF r
    <2> HIDE DEF s
    <2> QED BY <1>0, BackGiven, Zenon DEF r
<1> QED
    BY <1>2, <1>3, <1>4 DEF b

\* The classes' modules count with the same Cardinality.
LEMMA SigioCardinality == \A S : Sigio!Cardinality(S) = Cardinality(S)
<1> QED BY Zenon DEF Cardinality, Sigio!Cardinality

\* After an overflow every registered descriptor has the bits it is ready for.
LEMMA OverflowTaken ==
    ASSUME NEW q, SigRight(q), BackRight(q.m_backup), SigReady,
           NEW o, o = Sigio!Overflowed(q, ready)
    PROVE  /\ SigRight(o) /\ BackRight(o.m_backup)
           /\ \A fd \in registered : ready[fd] \subseteq o.m_fds[fd].m_readybits
<1> DEFINE d == Poll!waitForEvents(q.m_backup, ready)
           start == [q EXCEPT !.m_backup = d]
           f == Sigio!AfterEvents(q, ready)
           S == {x \in SigRecord : Heard(x)}
           step == [i \in 1..N |-> [x \in S |-> Sigio!FromBackup(x)]]
           Left(x) == Cardinality(Coming(x.m_backup))
           P == {i \in 0..N : Heard(f[i]) /\ Left(f[i]) <= N - i}
<1>0. N \in Nat
    BY FdsType
<1>a. \A x : Heard(x) => /\ x.m_backup \in PollRecord
                         /\ IsFiniteSet(Coming(x.m_backup)) /\ Left(x) \in 0..N
    <2>1. IsFiniteSet(0..N - 1) /\ Cardinality(0..N - 1) = N
        <3>1. N - 1 \in Int /\ 0 \in Int
            BY <1>0
        <3>2. /\ IsFiniteSet(0..N - 1)
              /\ Cardinality(0..N - 1) = IF 0 > N - 1 THEN 0 ELSE N - 1 - 0 + 1
            BY <3>1, FS_Interval
        <3> QED BY <1>0, <3>2
    <2>2. ASSUME NEW x PROVE IsFiniteSet(Coming(x.m_backup)) /\ Left(x) <= N /\ Left(x) \in Nat
        <3>1. Coming(x.m_backup) \in SUBSET (0..N - 1)
            BY DEF Coming
        <3>2. IsFiniteSet(Coming(x.m_backup)) /\ Cardinality(Coming(x.m_backup)) <= N
            BY <2>1, <3>1, FS_Subset
        <3> QED BY <3>2, FS_CardinalityType
    <2>3. \A x : Heard(x) => x.m_backup \in PollRecord
        BY DEF Heard, BackWaiting, BackRight
    <2> HIDE DEF Left
    <2> QED BY <1>0, <2>2, <2>3
<1>1. Heard(start)
    <2>1. /\ BackWaiting(d)
          /\ \A fd \in registered : ready[fd] # {} => \E i \in Coming(d) : d.m_pfds[i].fd = fd
        <3> HIDE DEF d
        <3>1. d = Poll!waitForEvents(q.m_backup, ready)
            BY DEF d
        <3> QED BY <3>1, BackWaited
    <2> HIDE DEF d, start
    <2>2. d \in PollRecord /\ q \in SigRecord
        BY <2>1 DEF BackWaiting, BackRight, SigRight
    <2>3. /\ start \in SigRecord /\ start.m_fds = q.m_fds /\ start.m_backup = d
          /\ start.m_fds_used = q.m_fds_used /\ start.m_ready_head = q.m_ready_head
          /\ start.m_ready_count = q.m_ready_count /\ start.m_ready_next = q.m_ready_next
        BY <2>2 DEF SigRecord, start
    <2>4. SigRight(start)
        <3>1. RingRight(start) /\ OnRing(start) = OnRing(q)
            BY <2>2, <2>3, RingKept DEF SigRight
        <3>2. \A x \in Fds : Sigio!isReady(start, x) <=> Sigio!isReady(q, x)
            BY <2>3 DEF Sigio!isReady
        <3>3. SigAgrees(start)
            BY <2>3, <3>1, <3>2 DEF SigRight, SigAgrees, registered
        <3> QED BY <2>3, <3>1, <3>3 DEF SigRight
    <2> QED BY <2>1, <2>3, <2>4 DEF Heard
<1>2. f = CHOOSE h : h = [i \in 0..N |-> IF i = 0 THEN start ELSE Sigio!FromBackup(h[i - 1])]
    <2>1. Sigio!Cardinality(Fds) = N
        BY SigioCardinality DEF N
    <2>2. Sigio!Backup!waitForEvents(q.m_backup, ready) = d
        BY BackupIsPoll, Zenon
    <2> QED BY <2>1, <2>2, Zenon DEF Sigio!AfterEvents
<1>3. o = Sigio!FromBackup(f[N])
    BY SigioCardinality, Zenon DEF Sigio!Overflowed, N
<1> HIDE DEF d, start, f, Left
<1>4. PICK g : Iteration(g, N, S, start, step)
    <2>1. start \in S
        BY <1>1 DEF Heard, SigRight
    <2>2. step \in [1..N -> [S -> S]]
        <3>1. ASSUME NEW x \in S PROVE Sigio!FromBackup(x) \in S
            BY EventTaken DEF Heard, SigRight
        <3> HIDE DEF S
        <3> QED BY <3>1
    <2> HIDE DEF S, step
    <2> QED BY <1>0, <2>1, <2>2, Iterates
<1>5. g = [i \in 0..N |-> IF i = 0 THEN start ELSE Sigio!FromBackup(g[i - 1])]
    <2>1. ASSUME NEW i \in 1..N PROVE g[i] = Sigio!FromBackup(g[i - 1])
        <3>1. i - 1 \in 0..N
            BY <1>0
        <3> HIDE DEF S
        <3> QED BY <1>4, <3>1 DEF Iteration
    <2>2. \A i \in 0..N : i = 0 \/ i \in 1..N
        BY <1>0
    <2> HIDE DEF S, step
    <2> QED BY <1>4, <2>1, <2>2 DEF Iteration
<1>6. f = [i \in 0..N |-> IF i = 0 THEN start ELSE Sigio!FromBackup(f[i - 1])]
    BY <1>2, <1>5
<1>7. f[0] = start /\ \A i \in 1..N : f[i] = Sigio!FromBackup(f[i - 1])
    BY <1>0, <1>6
<1>8. 0 \in P
    BY <1>0, <1>1, <1>7, <1>a
<1>9. ASSUME NEW i \in 1..N, i - 1 \in P PROVE i \in P
    <2> DEFINE x == f[i - 1]
               y == f[i]
    <2>1. i - 1 \in 0..N /\ i \in 0..N /\ Heard(x) /\ Left(x) <= N - (i - 1)
        BY <1>0, <1>9
    <2>2. y = Sigio!FromBackup(x)
        BY <1>7
    <2> HIDE DEF x, y
    <2>3. /\ Heard(y)
          /\ \/ Coming(x.m_backup) = {} /\ Coming(y.m_backup) = {}
             \/ \E j \in Coming(x.m_backup) : Coming(y.m_backup) = Coming(x.m_backup) \ {j}
        BY <2>1, <2>2, EventTaken
    <2>4. Left(y) <= N - i
        <3>1. CASE Coming(y.m_backup) = {}
            <4>1. Left(y) = 0
                BY <3>1, FS_EmptySet DEF Left
            <4> QED BY <1>0, <4>1
        <3>2. ASSUME NEW j \in Coming(x.m_backup), Coming(y.m_backup) = Coming(x.m_backup) \ {j}
              PROVE  Left(y) <= N - i
            <4>1. Left(y) = Left(x) - 1
                BY <1>a, <2>1, <3>2, FS_RemoveElement DEF Left
            <4>2. Left(x) \in 0..N
                BY <1>a, <2>1
            <4> QED BY <1>0, <2>1, <4>1, <4>2
        <3> QED BY <2>3, <3>1, <3>2
    <2> QED BY <2>1, <2>3, <2>4 DEF y
<1>10. Heard(f[N]) /\ Left(f[N]) <= N - N
    <2> HIDE DEF P
    <2>1. \A i \in 1..N : i - 1 \in P => i \in P
        BY <1>9
    <2>2. \A i \in 0..N : i \in P
        BY <1>0, <1>8, <2>1, UpTo
    <2> QED BY <1>0, <2>2 DEF P
<1>11. Coming(f[N].m_backup) = {}
    <2>1. Left(f[N]) = 0 /\ IsFiniteSet(Coming(f[N].m_backup))
        BY <1>0, <1>10, <1>a
    <2> QED BY <2>1, FS_EmptySet DEF Left
<1>12. Heard(o) /\ Coming(o.m_backup) = {}
    <2> DEFINE x == f[N]
    <2> HIDE DEF x
    <2>1. o = Sigio!FromBackup(x) /\ Heard(x) /\ Coming(x.m_backup) = {}
        BY <1>3, <1>10, <1>11 DEF x
    <2> QED BY <2>1, EventTaken
<1> QED
    BY <1>12 DEF Heard, BackWaiting

------------------------------------------------------------------------------
\* The system has still to tell that fd is ready for b.
Queued(fd, b) ==
    overflow \/ \E i \in DOMAIN signals : signals[i].fd = fd /\ b \in signals[i].band

\* What a registered descriptor is ready for is in its bits or queued; in the
\* queue, if clearReadiness is about to take it out of the bits.
SigKnown(q) ==
    \A fd \in registered : \A b \in ready[fd] :
        /\ b \in q.m_fds[fd].m_readybits \/ Queued(fd, b)
        /\ <<fd, b>> \in owed => Queued(fd, b)

SigKernel ==
    /\ SigReady
    /\ signals \in Seq(SigInfo) /\ Len(signals) <= MaxSignals
    /\ overflow \in BOOLEAN
    /\ owed \subseteq Fds \X Events
    /\ owed # {} => phase = "events"

SigCommon ==
    /\ reg \in [Fds -> Clients \cup {NoClient}]
    /\ phase \in {"events", "wait"}
    /\ handling = -1 /\ due = {} /\ foreign = FALSE

SigInv ==
    /\ SigCommon
    /\ SigRight(p) /\ BackRight(p.m_backup)
    /\ SigKernel
    /\ SigKnown(p)

\* While reg stays, so does what depends on nothing else.
LEMMA SigKept ==
    ASSUME UNCHANGED reg, NEW q, SigRight(q), BackRight(q.m_backup)
    PROVE  SigRight(q)' /\ BackRight(q.m_backup)' /\ registered' = registered
<1>1. registered' = registered
    BY DEF registered
<1>2. SigAgrees(q)'
    BY <1>1 DEF SigRight, SigAgrees
<1>3. PollTables(q.m_backup)'
    BY <1>1 DEF BackRight, PollTables, PollTablesAgree
<1> QED
    BY <1>1, <1>2, <1>3 DEF SigRight, BackRight

\* add(), at the level of the specification.
LEMMA SigAdd ==
    ASSUME SigInv, NEW fd \in Fds, NEW m \in Masks, NEW w \in Writes, NEW c \in ClientsOf[fd],
           Add(fd, c, m, w)
    PROVE  SigInv'
<1> USE DEF SigInv
<1>0. /\ p.class = "sigio" /\ ~Level /\ Masks = SUBSET Events /\ w = TRUE
      /\ fd \in Fds \ registered /\ c \in Clients /\ phase = "events" /\ owed = {}
    <2>1. p.class = "sigio"
        BY DEF SigRight, SigRecord
    <2>2. Masks = SUBSET Events /\ w = TRUE
        BY <2>1, SigioDispatch
    <2> QED BY <2>1, <2>2, PollersAssumption DEF Level, Add, Running, registered
<1>1. p' = Sigio!add(p, fd, c, m)
    BY <1>0, SigioDispatch DEF Add
<1>2. reg' = [reg EXCEPT ![fd] = c]
    BY <1>0 DEF Add
<1>3. PICK r \in SUBSET Events : ready' = [ready EXCEPT ![fd] = r]
    BY <1>0 DEF Add
<1>4. UNCHANGED <<phase, handling, due, foreign, signals, overflow, owed>>
    BY DEF Add, ghosts
<1>5. /\ registered' = registered \cup {fd} /\ reg' \in [Fds -> Clients \cup {NoClient}]
      /\ registered \subseteq Fds
    BY <1>0, <1>2, RegisterOne DEF SigCommon, registered
<1>6. /\ SigRight(p)' /\ BackRight(p.m_backup)'
      /\ p'.m_fds[fd].m_readybits = Events
      /\ \A g \in Fds : g # fd => p'.m_fds[g].m_readybits = p.m_fds[g].m_readybits
    <2>1. reg \in [Fds -> Clients \cup {NoClient}] /\ m \in SUBSET Events /\ fd \notin registered
        BY <1>0 DEF SigCommon
    <2>2. NewClient(fd, c)
        BY <1>2 DEF NewClient
    <2> QED BY <1>0, <1>1, <2>1, <2>2, SigAdded
<1>7. SigKernel'
    BY <1>0, <1>3, <1>4, <1>5 DEF SigKernel, SigReady
<1>8. SigKnown(p)'
    <2>1. ASSUME NEW g \in registered', NEW b \in ready'[g]
          PROVE  b \in p'.m_fds[g].m_readybits \/ Queued(g, b)
        <3>1. CASE g = fd
            BY <1>0, <1>3, <1>5, <1>6, <2>1, <3>1 DEF SigKernel, SigReady
        <3>2. CASE g # fd
            <4>1. g \in registered /\ g \in Fds /\ b \in ready[g]
                BY <1>3, <1>5, <3>2 DEF SigKernel, SigReady
            <4> QED BY <1>6, <3>2, <4>1 DEF SigKnown
        <3> QED BY <3>1, <3>2
    <2>2. \A g, b : Queued(g, b)' <=> Queued(g, b)
        BY <1>4 DEF Queued
    <2> QED BY <1>0, <1>4, <2>1, <2>2 DEF SigKnown
<1> QED
    BY <1>4, <1>5, <1>6, <1>7, <1>8 DEF SigCommon

\* del().
LEMMA SigDel ==
    ASSUME SigInv, NEW fd \in Fds, NEW w \in Writes, Del(fd, w)
    PROVE  SigInv'
<1> USE DEF SigInv
<1>0. /\ p.class = "sigio" /\ ~Level /\ w = TRUE
      /\ fd \in registered /\ phase = "events" /\ owed = {}
    <2>1. p.class = "sigio"
        BY DEF SigRight, SigRecord
    <2>2. w = TRUE
        BY <2>1, SigioDispatch
    <2> QED BY <2>1, <2>2 DEF Level, Del, Running, registered
<1>1. p' = Sigio!del(p, fd)
    BY <1>0, SigioDispatch DEF Del
<1>2. /\ reg' = [reg EXCEPT ![fd] = NoClient] /\ ready' = [ready EXCEPT ![fd] = {}]
      /\ due' = due \ {fd} /\ foreign' = FALSE
    BY <1>0 DEF Del
<1>4. UNCHANGED <<phase, handling, signals, overflow, owed>>
    BY DEF Del
<1>5. /\ registered' = registered \ {fd} /\ reg' \in [Fds -> Clients \cup {NoClient}]
      /\ registered \subseteq Fds
    BY <1>0, <1>2, DeregisterOne DEF SigCommon, registered
<1>6. /\ SigRight(p)' /\ BackRight(p.m_backup)'
      /\ \A g \in Fds : g # fd => p'.m_fds[g].m_readybits = p.m_fds[g].m_readybits
    BY <1>0, <1>1, <1>2, SigDeleted DEF SigCommon
<1>7. SigKernel'
    BY <1>0, <1>2, <1>4, <1>5 DEF SigKernel, SigReady
<1>8. SigKnown(p)'
    <2>1. ASSUME NEW g \in registered', NEW b \in ready'[g]
          PROVE  b \in p'.m_fds[g].m_readybits \/ Queued(g, b)
        <3>1. g # fd /\ g \in registered /\ g \in Fds /\ b \in ready[g]
            BY <1>2, <1>5 DEF SigKernel, SigReady
        <3> QED BY <1>6, <3>1 DEF SigKnown
    <2>2. \A g, b : Queued(g, b)' <=> Queued(g, b)
        BY <1>4 DEF Queued
    <2> QED BY <1>0, <1>4, <2>1, <2>2 DEF SigKnown
<1> QED
    BY <1>2, <1>4, <1>5, <1>6, <1>7, <1>8 DEF SigCommon

\* The masks.
LEMMA SigMask ==
    ASSUME SigInv, NEW fd \in Fds, NEW m \in Masks, NEW w \in Writes,
           SetMask(fd, m, w) \/ OrMask(fd, m, w) \/ AndMask(fd, m, w)
    PROVE  SigInv'
<1> USE DEF SigInv
<1>0. p.class = "sigio" /\ m \in SUBSET Events /\ fd \in registered
    <2>1. p.class = "sigio"
        BY DEF SigRight, SigRecord
    <2> QED BY <2>1, SigioDispatch DEF SetMask, OrMask, AndMask, registered
<1>1. p' \in {Sigio!setMask(p, fd, m), Sigio!orMask(p, fd, m), Sigio!andMask(p, fd, m)}
    BY <1>0, SigioDispatch DEF SetMask, OrMask, AndMask, Masking
<1>2. UNCHANGED <<reg, phase, handling, due, foreign, ready, signals, overflow, owed>>
    BY DEF SetMask, OrMask, AndMask, Masking, ghosts, kernel
<1>3. /\ SigRight(p') /\ p'.m_backup = p.m_backup
      /\ \A g \in registered : p'.m_fds[g].m_readybits = p.m_fds[g].m_readybits
    BY <1>0, <1>1, SigMasked
<1>4. SigRight(p)' /\ BackRight(p.m_backup)' /\ registered' = registered
    <2>1. BackRight(p'.m_backup)
        BY <1>3
    <2> QED BY <1>2, <1>3, <2>1, SigKept
<1>5. SigKernel'
    BY <1>2, <1>4 DEF SigKernel, SigReady
<1>6. SigKnown(p)'
    BY <1>2, <1>3, <1>4 DEF SigKnown, Queued
<1> QED
    BY <1>2, <1>4, <1>5, <1>6 DEF SigCommon

\* A getNextEvent of a Poller_sigio moves m_ready_next along the ring.
LEMMA SigGiven ==
    ASSUME NEW q, SigRight(q), NEW r, r = Sigio!getNextEvent(q)
    PROVE  /\ SigRight(r.p) /\ r.p.m_backup = q.m_backup /\ r.p.m_fds = q.m_fds
           /\ r.e.fd # -1 => /\ r.e.fd \in registered /\ r.e.client = reg[r.e.fd]
                             /\ r.e.revents # {}
<1> DEFINE fd == q.m_ready_next
           n == IF q.m_fds[fd].m_next = q.m_ready_head THEN -1 ELSE q.m_fds[fd].m_next
           o == [q EXCEPT !.m_ready_next = n]
<1>0. /\ q \in SigRecord /\ RingRight(q) /\ SigAgrees(q)
      /\ fd \in OnRing(q) \cup {-1} /\ OnRing(q) \subseteq Fds
    BY DEF SigRight, RingRight, OnRing
<1>1. CASE fd = -1
    <2>1. r.p = q /\ r.e.fd = -1
        BY <1>1 DEF Sigio!getNextEvent, Sigio!NoEvent, Sigio!Backup!NoEvent
    <2> QED BY <2>1
<1>2. CASE fd # -1
    <2>1. fd \in OnRing(q) /\ fd \in Fds /\ ~(fd < 1)
        BY <1>0, <1>2, FdsType
    <2>2. /\ r.p = o /\ r.e.fd = fd
          /\ r.e.revents = q.m_fds[fd].m_readybits \cap q.m_fds[fd].m_mask
          /\ r.e.client = q.m_fds[fd].m_client
        BY <2>1 DEF Sigio!getNextEvent
    <2>3. n \in OnRing(q) \cup {-1} /\ n \in Fds \cup {-1}
        BY <1>0, <2>1, RingAs
    <2> HIDE DEF n
    <2>4. /\ o \in SigRecord /\ o.m_fds = q.m_fds /\ o.m_backup = q.m_backup
          /\ o.m_fds_used = q.m_fds_used /\ o.m_ready_head = q.m_ready_head
          /\ o.m_ready_count = q.m_ready_count /\ o.m_ready_next = n
        BY <1>0, <2>3 DEF SigRecord
    <2> HIDE DEF o
    <2>5. OnRing(o) = OnRing(q)
        BY <1>0, <2>4, OnRingIs
    <2>6. RingRight(o)
        BY <1>0, <2>3, <2>4, <2>5 DEF RingRight
    <2>7. \A x \in Fds : Sigio!isReady(o, x) <=> Sigio!isReady(q, x)
        BY <2>4 DEF Sigio!isReady
    <2>8. SigAgrees(o)
        BY <1>0, <2>4, <2>5, <2>7 DEF SigAgrees, registered
    <2>9. fd \in registered /\ Sigio!isReady(q, fd) /\ q.m_fds[fd].m_client = reg[fd]
        BY <1>0, <2>1 DEF SigAgrees
    <2> QED BY <2>2, <2>4, <2>6, <2>8, <2>9 DEF SigRight, Sigio!isReady
<1> QED
    BY <1>1, <1>2

\* getNextEvent(), at the level of the specification.
LEMMA SigGetNext ==
    ASSUME SigInv, GetNextEvent
    PROVE  SigInv'
<1> USE DEF SigInv
<1>0. p.class = "sigio" /\ ~Level /\ phase = "events"
    <2>1. p.class = "sigio"
        BY DEF SigRight, SigRecord
    <2> QED BY <2>1 DEF Level, GetNextEvent, Running
<1>1. p' = Sigio!getNextEvent(p).p
    BY <1>0, SigioDispatch DEF GetNextEvent
<1>2. /\ UNCHANGED <<reg, foreign, ready, signals, overflow, owed>>
      /\ handling' = -1 /\ due' = {} /\ phase' \in {"events", "wait"} /\ owed = {}
    BY <1>0 DEF GetNextEvent, SigCommon, kernel, Running
<1>3. /\ SigRight(p') /\ p'.m_backup = p.m_backup /\ p'.m_fds = p.m_fds
    BY <1>1, SigGiven
<1>4. SigRight(p)' /\ BackRight(p.m_backup)' /\ registered' = registered
    <2>1. BackRight(p'.m_backup)
        BY <1>3
    <2> QED BY <1>2, <1>3, <2>1, SigKept
<1>5. SigKernel'
    BY <1>2, <1>4 DEF SigKernel, SigReady
<1>6. SigKnown(p)'
    BY <1>2, <1>3, <1>4 DEF SigKnown, Queued
<1> QED
    BY <1>2, <1>4, <1>5, <1>6 DEF SigCommon

\* A wait takes all that the system had to tell.
LEMMA SigWait ==
    ASSUME SigInv, NEW n \in 0..Len(signals), WaitForSignals(n)
    PROVE  SigInv'
<1> USE DEF SigInv
<1> DEFINE s == SubSeq(signals, 1, n)
           q == Sigio!AfterSignals(p, s)[Len(s)]
           o == Sigio!Overflowed(q, ready)
<1>0. phase = "wait" /\ owed = {} /\ (~overflow => n = Len(signals))
    BY DEF WaitForSignals, Waited, SigKernel
<1>1. p' = IF overflow THEN o ELSE q
    BY DEF WaitForSignals, Waited, Sigio!waitForEvents
<1>2. /\ UNCHANGED <<reg, ready, owed>>
      /\ phase' = "events" /\ handling' = -1 /\ due' = {} /\ foreign' = FALSE
      /\ signals' = <<>> /\ overflow' = FALSE
    BY DEF WaitForSignals, Waited
<1>3. /\ s \in Seq(SigInfo) /\ Len(s) = n /\ n \in Nat
      /\ \A i \in 1..n : s[i] = signals[i]
    BY DEF SigKernel
<1>4. SigRight(q) /\ q.m_backup = p.m_backup
      /\ \A fd \in registered : p.m_fds[fd].m_readybits \subseteq q.m_fds[fd].m_readybits
      /\ \A j \in 1..n : s[j].fd \in registered => s[j].band \subseteq q.m_fds[s[j].fd].m_readybits
    <2>1. Taken(p, s, q, Len(s))
        <3> HIDE DEF s, q
        <3>1. q = Sigio!AfterSignals(p, s)[Len(s)]
            BY DEF q
        <3> QED BY <1>3, <3>1, SignalsTaken
    <2> QED BY <1>3, <2>1 DEF Taken
<1> HIDE DEF s, q
<1>5. /\ SigRight(p') /\ BackRight(p'.m_backup)
      /\ \A fd \in registered : ready[fd] \subseteq p'.m_fds[fd].m_readybits
    <2>1. CASE overflow
        <3>1. BackRight(q.m_backup) /\ SigReady
            BY <1>4 DEF SigKernel
        <3>2. o = Sigio!Overflowed(q, ready)
            OBVIOUS
        <3> HIDE DEF o
        <3> QED BY <1>1, <1>4, <2>1, <3>1, <3>2, OverflowTaken
    <2>2. CASE ~overflow
        <3>1. p' = q
            BY <1>1, <2>2
        <3>2. ASSUME NEW fd \in registered, NEW b \in ready[fd]
              PROVE  b \in q.m_fds[fd].m_readybits
            <4>1. b \in p.m_fds[fd].m_readybits \/ Queued(fd, b)
                BY DEF SigKnown
            <4>2. CASE b \in p.m_fds[fd].m_readybits
                BY <1>4, <4>2
            <4>3. CASE Queued(fd, b)
                <5>1. PICK i \in DOMAIN signals : signals[i].fd = fd /\ b \in signals[i].band
                    BY <2>2, <4>3 DEF Queued
                <5>2. i \in 1..n
                    BY <1>0, <2>2 DEF SigKernel
                <5> QED BY <1>3, <1>4, <5>1, <5>2
            <4> QED BY <4>1, <4>2, <4>3
        <3> QED BY <1>4, <3>1, <3>2
    <2> QED BY <2>1, <2>2
<1>6. SigRight(p)' /\ BackRight(p.m_backup)' /\ registered' = registered
    BY <1>2, <1>5, SigKept
<1>7. SigKernel'
    <2>1. MaxSignals \in Nat /\ 0 <= MaxSignals
        BY PollersAssumption
    <2>2. signals' \in Seq(SigInfo) /\ Len(signals') <= MaxSignals
        BY <1>2, <2>1
    <2>3. SigReady'
        BY <1>2, <1>6 DEF SigKernel, SigReady
    <2>4. owed' = {} /\ overflow' \in BOOLEAN /\ owed' \subseteq Fds \X Events
        BY <1>0, <1>2
    <2> QED BY <2>2, <2>3, <2>4 DEF SigKernel
<1>8. SigKnown(p)'
    BY <1>0, <1>2, <1>5, <1>6 DEF SigKnown
<1> QED
    BY <1>2, <1>6, <1>7, <1>8 DEF SigCommon

\* A descriptor becomes ready for one more bit: it is queued, or the queue has
\* overflowed.
LEMMA SigBecomes ==
    ASSUME SigInv, NEW fd \in Fds, NEW b \in Events, BecomesReady(fd, b)
    PROVE  SigInv'
<1> USE DEF SigInv
<1>1. /\ UNCHANGED <<p, reg, phase, handling, due, foreign, owed>> /\ fd \in registered
      /\ ready' = [ready EXCEPT ![fd] = @ \cup {b}]
    BY DEF BecomesReady, ghosts, registered
<1> DEFINE info == [fd |-> fd, band |-> {b}]
<1>2. \/ signals' = Append(signals, info) /\ Len(signals) < MaxSignals /\ overflow' = overflow
      \/ signals' = signals /\ overflow' = TRUE
    BY DEF BecomesReady
<1>3. info \in SigInfo /\ info.fd = fd /\ info.band = {b}
    BY DEF SigInfo
<1> HIDE DEF info
<1>4. SigRight(p)' /\ BackRight(p.m_backup)' /\ registered' = registered
    <2>1. SigRight(p') /\ BackRight(p'.m_backup)
        BY <1>1
    <2> QED BY <1>1, <2>1, SigKept
<1>5. /\ signals' \in Seq(SigInfo) /\ Len(signals') <= MaxSignals /\ overflow' \in BOOLEAN
      /\ \A g, k : Queued(g, k) => Queued(g, k)'
      /\ Queued(fd, b)'
    <2>0. signals \in Seq(SigInfo) /\ overflow \in BOOLEAN /\ Len(signals) <= MaxSignals
        BY DEF SigKernel
    <2>a. MaxSignals \in Nat
        BY PollersAssumption
    <2>1. CASE signals' = signals /\ overflow' = TRUE
        BY <2>0, <2>1 DEF Queued
    <2>2. CASE signals' = Append(signals, info) /\ Len(signals) < MaxSignals /\ overflow' = overflow
        <3>1. /\ signals' \in Seq(SigInfo) /\ Len(signals') = Len(signals) + 1
              /\ signals'[Len(signals) + 1] = info
              /\ \A i \in 1..Len(signals) : signals'[i] = signals[i]
            BY <1>3, <2>0, <2>2
        <3>2. Len(signals) \in Nat /\ DOMAIN signals = 1..Len(signals)
              /\ DOMAIN signals' = 1..(Len(signals) + 1)
            BY <2>0, <3>1
        <3>3. \A g, k : Queued(g, k) => Queued(g, k)'
            BY <2>2, <3>1, <3>2 DEF Queued
        <3>4. Queued(fd, b)'
            BY <1>3, <3>1, <3>2 DEF Queued
        <3> QED BY <2>0, <2>a, <2>2, <3>1, <3>2, <3>3, <3>4
    <2> QED BY <1>2, <2>1, <2>2
<1>6. SigReady'
    BY <1>1, <1>4 DEF SigKernel, SigReady, registered
<1>7. SigKernel'
    BY <1>1, <1>5, <1>6 DEF SigKernel
<1>8. SigKnown(p)'
    <2>1. ASSUME NEW g \in registered, NEW k \in ready'[g]
          PROVE  /\ k \in p.m_fds[g].m_readybits \/ Queued(g, k)'
                 /\ <<g, k>> \in owed => Queued(g, k)'
        <3>1. k \in ready[g] \/ (g = fd /\ k = b)
            BY <1>1, <2>1 DEF SigKernel, SigReady, registered
        <3>2. CASE k \in ready[g]
            BY <1>5, <3>2 DEF SigKnown
        <3>3. CASE g = fd /\ k = b
            BY <1>5, <3>3
        <3> QED BY <3>1, <3>2, <3>3
    <2> QED BY <1>1, <1>4, <2>1 DEF SigKnown
<1> QED
    BY <1>1, <1>4, <1>7, <1>8 DEF SigCommon

\* I/O has returned EWOULDBLOCK, and clearReadiness() is still to be called.
LEMMA SigWouldBlock ==
    ASSUME SigInv, NEW fd \in Fds, NEW b \in Events, WouldBlock(fd, b)
    PROVE  SigInv'
<1> USE DEF SigInv
<1>1. /\ UNCHANGED <<p, reg, phase, handling, due, foreign, signals, overflow>>
      /\ fd \in registered /\ phase = "events"
      /\ ready' = [ready EXCEPT ![fd] = @ \ {b}] /\ owed' = {<<fd, b>>}
    BY DEF WouldBlock, Running, ghosts, registered
<1>2. SigRight(p)' /\ BackRight(p.m_backup)' /\ registered' = registered
    <2>1. SigRight(p') /\ BackRight(p'.m_backup)
        BY <1>1
    <2> QED BY <1>1, <2>1, SigKept
<1>3. SigReady'
    BY <1>1, <1>2 DEF SigKernel, SigReady, registered
<1>4. SigKernel'
    BY <1>1, <1>3 DEF SigKernel
<1>5. SigKnown(p)'
    <2>1. ASSUME NEW g \in registered, NEW k \in ready'[g]
          PROVE  /\ k \in p.m_fds[g].m_readybits \/ Queued(g, k)
                 /\ <<g, k>> # <<fd, b>>
        BY <1>1 DEF SigKernel, SigReady, SigKnown, registered
    <2> QED BY <1>1, <1>2, <2>1 DEF SigKnown, Queued
<1> QED
    BY <1>1, <1>2, <1>4, <1>5 DEF SigCommon

\* clearReadiness(): what has become ready since EWOULDBLOCK is queued.
LEMMA SigCleared ==
    ASSUME SigInv, NEW fd \in Fds, NEW b \in Events, ClearReadiness(fd, b)
    PROVE  SigInv'
<1> USE DEF SigInv
<1>1. /\ UNCHANGED <<reg, phase, handling, due, foreign, ready, signals, overflow>>
      /\ <<fd, b>> \in owed /\ owed' = {}
      /\ p' = Sigio!clearReadiness(p, fd, {b})
    BY DEF ClearReadiness, ghosts
<1> DEFINE bits == p.m_fds[fd].m_readybits \ {b}
<1>2. bits \in SUBSET Events
    BY SigTests DEF SigNode
<1>3. p' = Sigio!SetReadybits(p, fd, bits)
    BY <1>1 DEF Sigio!clearReadiness
<1>4. /\ SigRight(p') /\ p'.m_backup = p.m_backup
      /\ fd \in registered => p'.m_fds[fd].m_readybits = bits
      /\ \A g \in registered : g # fd => p'.m_fds[g].m_readybits = p.m_fds[g].m_readybits
    <2> HIDE DEF bits
    <2> QED BY <1>2, <1>3, BitsSet
<1>5. SigRight(p)' /\ BackRight(p.m_backup)' /\ registered' = registered
    <2>1. BackRight(p'.m_backup)
        BY <1>4
    <2> QED BY <1>1, <1>4, <2>1, SigKept
<1>6. SigKernel'
    BY <1>1, <1>5 DEF SigKernel, SigReady
<1>7. SigKnown(p)'
    <2>1. ASSUME NEW g \in registered, NEW k \in ready[g]
          PROVE  k \in p'.m_fds[g].m_readybits \/ Queued(g, k)
        <3>1. /\ k \in p.m_fds[g].m_readybits \/ Queued(g, k)
              /\ <<g, k>> \in owed => Queued(g, k)
            BY DEF SigKnown
        <3>2. CASE g = fd /\ k = b
            BY <1>1, <3>1, <3>2
        <3>3. CASE g = fd /\ k # b
            BY <1>4, <3>1, <3>3
        <3>4. CASE g # fd
            BY <1>4, <3>1, <3>4
        <3> QED BY <3>2, <3>3, <3>4
    <2> QED BY <1>1, <1>5, <2>1 DEF SigKnown, Queued
<1> QED
    BY <1>1, <1>5, <1>6, <1>7 DEF SigCommon

\* Every step of a Poller_sigio.
LEMMA SigStays ==
    ASSUME SigInv, [Next]_vars
    PROVE  SigInv'
<1>0. p.class = "sigio"
    BY DEF SigInv, SigRight, SigRecord
<1>1. CASE UNCHANGED vars
    <2>1. UNCHANGED <<p, reg, phase, handling, due, foreign, ready, signals, overflow, owed>>
        BY <1>1 DEF vars, ghosts, kernel
    <2>2. SigRight(p') /\ BackRight(p'.m_backup)
        BY <2>1 DEF SigInv
    <2>3. SigRight(p)' /\ BackRight(p.m_backup)' /\ registered' = registered
        BY <2>1, <2>2, SigKept
    <2>4. SigKernel' /\ SigKnown(p)'
        BY <2>1, <2>3 DEF SigInv, SigKernel, SigReady, SigKnown, Queued
    <2> QED BY <2>1, <2>3, <2>4 DEF SigInv, SigCommon
<1>2. ASSUME NEW fd \in Fds, NEW m \in Masks, NEW w \in Writes,
             \/ \E c \in ClientsOf[fd] : Add(fd, c, m, w)
             \/ SetMask(fd, m, w) \/ OrMask(fd, m, w) \/ AndMask(fd, m, w)
      PROVE  SigInv'
    BY <1>2, SigAdd, SigMask
<1>3. ASSUME NEW fd \in Fds, NEW w \in Writes, Del(fd, w)
      PROVE  SigInv'
    BY <1>3, SigDel
<1>4. CASE GetNextEvent
    BY <1>4, SigGetNext
<1>5. ASSUME NEW n \in 0..Len(signals), WaitForSignals(n)
      PROVE  SigInv'
    BY <1>5, SigWait
<1>6. ASSUME NEW fd \in Fds, NEW b \in Events,
             BecomesReady(fd, b) \/ WouldBlock(fd, b) \/ ClearReadiness(fd, b)
      PROVE  SigInv'
    BY <1>6, SigBecomes, SigWouldBlock, SigCleared
<1>7. ~WaitFails /\ \A r : ~WaitForEvents(r)
    <2>1. "sigio" \notin Interrupted
        BY PollersAssumption
    <2> QED BY <1>0, <2>1 DEF WaitFails, WaitForEvents, Level
<1> QED
    BY <1>1, <1>2, <1>3, <1>4, <1>5, <1>6, <1>7 DEF Next

\* The object starts with an empty ring.
LEMMA SigInit ==
    ASSUME Init, p \in Sigio!init
    PROVE  p.class = "sigio" /\ SigInv
<1>0. /\ N \in Nat /\ Fds = 1..N /\ registered = {} /\ Cardinality({}) = 0
      /\ \A fd \in Fds : reg[fd] = NoClient
    BY FdsType, FS_EmptySet DEF Init, registered
<1> DEFINE F == [fd \in Fds |-> Sigio!clear]
           s == Sigio!clear
           k == -1
<1>1. PICK b \in Poll!init :
        p = [class |-> "sigio", failed |-> FALSE, m_fds |-> F, m_fds_used |-> 0,
             m_ready_head |-> k, m_ready_next |-> k, m_ready_count |-> 0, m_backup |-> b]
    BY BackupIsPoll, Zenon DEF Sigio!init
<1>2. /\ s \in SigNode /\ s.m_client = NoClient /\ s.m_next = -1 /\ s.m_prev = -2
    BY DEF Sigio!clear, SigNode
<1> HIDE DEF s
<1>3. F \in [Fds -> SigNode] /\ \A fd \in Fds : F[fd] = s
    BY <1>2 DEF s
<1>4. /\ b \in PollRecord /\ PollTables(b) /\ b.m_pfds_used = 0
    BY <1>0, PollNew
<1>5. k \in Fds \cup {-1} /\ k = -1 /\ 0 \in 0..N
    BY <1>0
<1> HIDE DEF F, k
<1>6. /\ p \in SigRecord /\ p.class = "sigio" /\ p.m_fds = F /\ p.m_fds_used = 0
      /\ p.m_ready_head = k /\ p.m_ready_next = k /\ p.m_ready_count = 0 /\ p.m_backup = b
    BY <1>1, <1>3, <1>4, <1>5 DEF SigRecord
<1>7. OnRing(p) = {}
    BY <1>2, <1>3, <1>6, OnRingIs
<1>8. RingRight(p)
    <2>1. Ring({}, Nexts(F), Prevs(F))
        BY DEF Ring
    <2> QED BY <1>0, <1>2, <1>3, <1>5, <1>6, <1>7, <2>1 DEF RingRight
<1>9. SigAgrees(p)
    BY <1>0, <1>2, <1>3, <1>6, <1>7 DEF SigAgrees
<1>10. BackRight(p.m_backup)
    BY <1>0, <1>4, <1>6 DEF BackRight
<1>11. SigCommon /\ SigKernel
    <2>1. MaxSignals \in Nat /\ 0 <= MaxSignals
        BY PollersAssumption
    <2>2. SigCommon
        BY DEF Init, SigCommon
    <2>3. /\ signals = <<>> /\ overflow = FALSE /\ owed = {}
          /\ ready = [fd \in Fds |-> {}]
        BY DEF Init
    <2>4. SigReady
        BY <2>3 DEF SigReady
    <2>5. signals \in Seq(SigInfo) /\ Len(signals) <= MaxSignals
        BY <2>1, <2>3
    <2> QED BY <2>2, <2>3, <2>4, <2>5 DEF SigKernel
<1> QED
    BY <1>0, <1>6, <1>8, <1>9, <1>10, <1>11 DEF SigInv, SigRight, SigKnown

\* The invariant of Poller_sigio implies the properties.
LEMMA SigShows ==
    ASSUME SigInv
    PROVE  Shown /\ NothingLost
<1> USE DEF SigInv
<1>0. /\ p.class = "sigio" /\ ~Level /\ p \in SigRecord /\ RingRight(p) /\ SigAgrees(p)
      /\ registered \subseteq Fds
    BY DEF SigRight, SigRecord, Level, registered
<1>1. TypeOK
    <2>1. /\ p.m_fds_used \in 0..Cardinality(Fds) /\ p.m_ready_count \in 0..Cardinality(Fds)
          /\ {p.m_ready_head, p.m_ready_next} \subseteq Fds \cup {-1}
        BY <1>0 DEF SigRecord, N
    <2>2. /\ reg \in [Fds -> Clients \cup {NoClient}]
          /\ phase \in {"events", "wait"}
          /\ handling \in Fds \cup {-1}
          /\ due \subseteq Fds
          /\ ready \in [Fds -> SUBSET Events]
          /\ Len(signals) <= MaxSignals
          /\ owed \subseteq Fds \X Events
        BY DEF SigCommon, SigKernel, SigReady
    <2>3. foreign \in BOOLEAN /\ overflow \in BOOLEAN
        BY Zenon DEF SigCommon, SigKernel
    <2> QED BY <1>0, <2>1, <2>2, <2>3, Zenon DEF TypeOK
<1>2. TablesAgree
    <2> DEFINE ring == {fd \in registered : Sigio!isReady(p, fd)}
    <2>1. ring = OnRing(p) /\ OnRing(p) \subseteq Fds
        BY <1>0 DEF SigAgrees, OnRing
    <2> HIDE DEF ring
    <2>2. /\ p.m_ready_count = Cardinality(ring)
          /\ p.m_ready_next \in ring \cup {-1}
          /\ p.m_ready_head \in (IF ring = {} THEN {-1} ELSE ring)
        BY <1>0, <2>1 DEF RingRight
    <2>3. \A fd \in ring : /\ p.m_fds[fd].m_next \in ring
                           /\ p.m_fds[p.m_fds[fd].m_next].m_prev = fd
        BY <1>0, <2>1, RingAs
    <2>4. \A part \in SUBSET ring :
            part # {} /\ (\A fd \in part : p.m_fds[fd].m_next \in part) => part = ring
        <3>1. ASSUME NEW part \in SUBSET ring, part # {},
                     \A fd \in part : p.m_fds[fd].m_next \in part
              PROVE  part = ring
            <4>1. \A fd \in part : Nexts(p.m_fds)[fd] \in part
                BY <2>1, <3>1 DEF Nexts
            <4> QED BY <1>0, <2>1, <3>1, <4>1 DEF RingRight, Ring
        <3> QED BY <3>1
    <2>5. ReadyListInv
        <3>1. ring = {fd \in Fds : Sigio!isOnReadyList(p, fd)}
            BY <2>1 DEF OnRing
        <3> QED BY <2>2, <2>3, <2>4, <3>1, Zenon DEF ReadyListInv, ring
    <2>6. /\ p.m_fds_used = Cardinality(registered)
          /\ \A fd \in Fds : p.m_fds[fd].m_client = reg[fd]
          /\ \A fd \in Fds : ~Sigio!isClear(p, fd) <=> fd \in registered
        BY <1>0 DEF SigAgrees, Sigio!isClear
    <2>7. PollTablesAgree(p.m_backup)
        BY DEF BackRight, PollTables
    <2>8. ~p.failed
        BY <1>0 DEF SigRecord
    <2> QED BY <1>0, <2>5, <2>6, <2>7, <2>8, Zenon DEF TablesAgree
<1>3. GivenToOwner
    <2>1. upcoming = Sigio!getNextEvent(p).e
        BY <1>0, SigioDispatch DEF upcoming
    <2>2. upcoming.fd # -1 => /\ upcoming.fd \in registered /\ upcoming.client = reg[upcoming.fd]
                              /\ upcoming.revents # {}
        BY <2>1, SigGiven
    <2> QED BY <2>2 DEF GivenToOwner, registered
<1>4. OnlyReported /\ NoneSkipped
    BY <1>0 DEF OnlyReported, NoneSkipped, SigCommon
<1>5. NothingLost
    BY DEF NothingLost, SigKnown, Queued
<1> QED
    BY <1>1, <1>2, <1>3, <1>4, <1>5 DEF Shown

------------------------------------------------------------------------------
(***************************************************************************)
(* The inductive invariant: the object keeps the invariant of its class.   *)
(***************************************************************************)
LevelInv ==
    /\ Common
    /\ p.class = "poll" => PollInv
    /\ p.class = "select" => SelectInv
    /\ p.class = "devpoll" => DevInv
    /\ p.class = "kqueue" => KqInv

IInv == LevelInv \/ SigInv

\* The invariant holds at the start, for each of the classes.
LEMMA InitIInv ==
    ASSUME Init
    PROVE  IInv
<1>1. CASE p \in Poll!init
    BY <1>1, PollInit, CommonInit DEF IInv, LevelInv
<1>2. CASE p \in Select!init
    BY <1>2, SelectInit, CommonInit DEF IInv, LevelInv
<1>3. CASE p \in Devpoll!init
    BY <1>3, DevInit, CommonInit DEF IInv, LevelInv
<1>4. CASE p \in Kqueue!init
    BY <1>4, KqInit, CommonInit DEF IInv, LevelInv
<1>5. CASE p \in Sigio!init
    BY <1>5, SigInit DEF IInv
<1> QED
    BY <1>1, <1>2, <1>3, <1>4, <1>5, InitClass

\* Every step of the classes but Poller_sigio keeps it.
LEMMA LevelStays ==
    ASSUME "kqueue" \notin Interrupted, LevelInv, [Next]_vars
    PROVE  LevelInv'
<1>0. Common
    BY DEF LevelInv
<1>1. CASE p.class = "poll"
    <2>1. PollInv' /\ handling' \in Fds \cup {-1}
        BY <1>0, <1>1, PollStays DEF LevelInv
    <2>2. p'.class = "poll"
        BY <2>1 DEF PollInv, PollRecord
    <2>3. Common'
        BY <1>0, <1>1, <2>1, <2>2, CommonStays
    <2> QED BY <2>1, <2>2, <2>3 DEF LevelInv
<1>2. CASE p.class = "select"
    <2>1. SelectInv' /\ handling' \in Fds \cup {-1}
        BY <1>0, <1>2, SelectStays DEF LevelInv
    <2>2. p'.class = "select"
        BY <2>1 DEF SelectInv, SelectRecord
    <2>3. Common'
        BY <1>0, <1>2, <2>1, <2>2, CommonStays
    <2> QED BY <2>1, <2>2, <2>3 DEF LevelInv
<1>3. CASE p.class = "devpoll"
    <2>1. DevInv' /\ handling' \in Fds \cup {-1}
        BY <1>0, <1>3, DevStays DEF LevelInv
    <2>2. p'.class = "devpoll"
        BY <2>1 DEF DevInv, DevRecord
    <2>3. Common'
        BY <1>0, <1>3, <2>1, <2>2, CommonStays
    <2> QED BY <2>1, <2>2, <2>3 DEF LevelInv
<1>4. CASE p.class = "kqueue"
    <2>1. KqInv' /\ handling' \in Fds \cup {-1}
        BY <1>0, <1>4, KqStays DEF LevelInv
    <2>2. p'.class = "kqueue"
        BY <2>1 DEF KqInv, KqRecord
    <2>3. Common'
        BY <1>0, <1>4, <2>1, <2>2, CommonStays
    <2> QED BY <2>1, <2>2, <2>3 DEF LevelInv
<1> QED
    BY <1>0, <1>1, <1>2, <1>3, <1>4 DEF Common

\* Every step keeps it.
LEMMA NextIInv ==
    ASSUME "kqueue" \notin Interrupted, IInv, [Next]_vars
    PROVE  IInv'
<1> QED
    BY LevelStays, SigStays DEF IInv

\* And it implies the properties.
LEMMA IInvShows ==
    ASSUME IInv
    PROVE  Shown /\ NothingLost
<1>1. CASE LevelInv
    <2>1. Shown
        BY <1>1, PollShows, SelectShows, DevShows, KqShows DEF LevelInv, Common
    <2>2. NothingLost
        BY <1>1 DEF LevelInv, Common, NothingLost
    <2> QED BY <2>1, <2>2
<1>2. CASE SigInv
    BY <1>2, SigShows
<1> QED
    BY <1>1, <1>2 DEF IInv

(***************************************************************************)
(* All of it, for any number of descriptors and clients, any length of the *)
(* queue of signals, and for each of the five classes.                     *)
(***************************************************************************)
LEMMA AllShown ==
    ASSUME "kqueue" \notin Interrupted
    PROVE  Spec => [](Shown /\ NothingLost)
<1>1. Init => IInv
    BY InitIInv
<1>2. IInv /\ [Next]_vars => IInv'
    BY NextIInv
<1>3. IInv => Shown /\ NothingLost
    BY IInvShows
<1> QED
    BY <1>1, <1>2, <1>3, PTL DEF Spec

(***************************************************************************)
(* The counters and positions of an object stay within its tables, and     *)
(* handling is a descriptor or -1 (all operations of the five classes).    *)
(***************************************************************************)
THEOREM PollerTypes ==
    ASSUME "kqueue" \notin Interrupted
    PROVE  Spec => []TypeOK
<1>1. Shown /\ NothingLost => TypeOK
    BY DEF Shown
<1> QED
    BY <1>1, AllShown, PTL

(***************************************************************************)
(* The tables agree with each other and with what the application          *)
(* registered, while add() and del() move entries, descriptor numbers are  *)
(* used again and writes to /dev/poll fail; the nodes of Poller_sigio that *)
(* are ready form one ring; no assert() fails.                             *)
(***************************************************************************)
THEOREM TablesStayRight ==
    ASSUME "kqueue" \notin Interrupted
    PROVE  Spec => []TablesAgree
<1>1. Shown /\ NothingLost => TablesAgree
    BY DEF Shown
<1> QED
    BY <1>1, AllShown, PTL

(***************************************************************************)
(* getNextEvent() gives an event to the client that its descriptor has at  *)
(* that moment, with the exceptions for Poller_devpoll and Poller_kqueue   *)
(* that GivenToOwner names.                                                *)
(***************************************************************************)
THEOREM EventsFindTheirOwner ==
    ASSUME "kqueue" \notin Interrupted
    PROVE  Spec => []GivenToOwner
<1>1. Shown /\ NothingLost => GivenToOwner
    BY DEF Shown
<1> QED
    BY <1>1, AllShown, PTL

(***************************************************************************)
(* getNextEvent() gives out what the last waitForEvents() reported for     *)
(* this registration of the descriptor and did not give out yet, as long   *)
(* as the application deletes only what it is handling; Poller_select      *)
(* whatever the application deletes.                                       *)
(***************************************************************************)
THEOREM NothingInvented ==
    ASSUME "kqueue" \notin Interrupted
    PROVE  Spec => []OnlyReported
<1>1. Shown /\ NothingLost => OnlyReported
    BY DEF Shown
<1> QED
    BY <1>1, AllShown, PTL

(***************************************************************************)
(* When getNextEvent() says that there are no more events, everything that *)
(* the wait reported has been given out or deleted, except with a          *)
(* Poller_poll from which another descriptor was deleted.                  *)
(***************************************************************************)
THEOREM NothingForgotten ==
    ASSUME "kqueue" \notin Interrupted
    PROVE  Spec => []NoneSkipped
<1>1. Shown /\ NothingLost => NoneSkipped
    BY DEF Shown
<1> QED
    BY <1>1, AllShown, PTL

(***************************************************************************)
(* Poller_sigio forgets no readiness: a descriptor that is ready has the   *)
(* bit in its m_readybits, or a signal about it is in the queue, or the    *)
(* queue has overflowed and poll() is still to be asked.                   *)
(***************************************************************************)
THEOREM ReadinessIsKept ==
    ASSUME "kqueue" \notin Interrupted
    PROVE  Spec => []NothingLost
<1>1. Shown /\ NothingLost => NothingLost
    OBVIOUS
<1> QED
    BY <1>1, AllShown, PTL
===============================================================================
