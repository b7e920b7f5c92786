-------------------------------- MODULE Platoon --------------------------------
(***************************************************************************)
(* The simulated users (robouser.cc), the container that ramps them up and *)
(* buries them (Platoon.cc), and the loop that drives both: that of the    *)
(* benchmark (bench.cc), or that of the server a remote controller calls   *)
(* (CorbaPlatoon_impl.cc).                                                 *)
(*                                                                         *)
(* One thread drives the platoon. An iteration of either loop lets         *)
(* Sked::runAll make the calls that are due, gives out the events the last *)
(* waitForEvents found, reaping after each, and waits. So a user stopped   *)
(* by runAll is still there when its own events come, and events exist     *)
(* only for connections open at the last wait (polled). The benchmark also *)
(* reaps at the top of its loop. The server does so only when it is asked  *)
(* for its status; its calls have threads of their own, take the mutex     *)
(* that an iteration holds, and so come between iterations.                *)
(*                                                                         *)
(* The FTP session of a user is represented by what it may report to its   *)
(* user; FtpPipe.tla has its inside.                                       *)
(***************************************************************************)
EXTENDS Integers, Sequences, FiniteSets

CONSTANTS
    MAXUSERS,           \* Platoon_MAXUSERS
    UserTargets,        \* values given to set_nuserTarget
    ConnectingTargets,  \* values given to set_nconnectingTarget
    Failures,           \* TRUE: connections fail, servers refuse, users are slow
    Limited,            \* TRUE: the test has a duration (arg_duration)
    Loops,              \* the loops to choose from
    Situations          \* the situations to choose from

ASSUME PlatoonAssumption ==
    /\ MAXUSERS \in Nat \ {0}
    /\ UserTargets \subseteq Nat
    /\ ConnectingTargets \subseteq Nat
    /\ {Failures, Limited} \subseteq BOOLEAN
    /\ Loops \subseteq {"bench", "corba"}
    /\ Situations \subseteq {"calm", "wake", "early", "slow"}

VARIABLES
    users,              \* m_users: NULL or the state of the user in a slot
    nInState,           \* count of users in each state
    deadlist,           \* stopped users waiting to be reaped
    nuserTarget, nconnectingTarget, lastConnecting,
    userDue,            \* users whose own first event is scheduled
    wake,               \* the platoon's own event is scheduled
    pc,                 \* where the thread is (below)
    polled,             \* <<user, socket>>: may have an event waiting in the poller
    oldDead,            \* main's old_ndead
    poller,             \* the server has a poller: between init and reset
    loop,               \* "bench" or "corba"
    situation           \* what may happen besides (below)

platoonVars == <<users, nInState, deadlist>>
targetVars == <<nuserTarget, nconnectingTarget, lastConnecting>>
setting == <<loop, situation>>
mainVars == <<polled, oldDead, poller, setting>>
vars == <<platoonVars, targetVars, userDue, wake, pc, mainVars>>

\* In runAll; in the loop of Platoon::skedCallback; giving out events; about
\* to reap after an event; the server between two iterations, and in a wait
\* without end; ended. "crashed" stands for what follows when the same user is
\* deleted twice, or one is put outside m_users.
Places == {"run", "starting", "drain", "reap", "unlocked", "blocked",
           "failed", "over", "crashed"}

\* Nothing special; the read of a session that just woke up may stop its user
\* ("wake"); connect() may succeed at once and the next write fail ("early");
\* handlers may take so long that something is overdue when the server waits
\* ("slow"). A session stopped by such a read keeps its control connection
\* until it is reaped, which "bench" does before it waits again; for "corba"
\* that case is left out.
Wake == situation = "wake"
EarlyConnect == situation = "early"

Slots == 0 .. MAXUSERS - 1
NULL == "NULL"
AliveStates == {"CONNECT", "CONNECTING", "START_TYPE", "FINISH_TYPE", "GET", "GETTING"}
States == AliveStates \cup {"STOPPED"}

\* States in which a user has an open control connection and waits for it.
Waiting == {"CONNECTING", "FINISH_TYPE", "GETTING"}

------------------------------------------------------------------------------
\* sumInState over the ranges the code asks for.
nconnecting ==
    nInState["CONNECT"] + (IF lastConnecting = "CONNECTING" THEN nInState["CONNECTING"] ELSE 0)

nalive ==
    nInState["CONNECT"] + nInState["CONNECTING"] + nInState["START_TYPE"]
       + nInState["FINISH_TYPE"] + nInState["GET"] + nInState["GETTING"]

ndead == nInState["STOPPED"]

\* Platoon::init and, for the benchmark, the targets that main sets before
\* its loop: no more users than there are slots (bench.cc:111). A server waits
\* for calls, which may ask for more.
Init ==
    /\ users = [u \in Slots |-> NULL]
    /\ nInState = [s \in States |-> 0]
    /\ deadlist = <<>>
    /\ loop \in Loops
    /\ situation \in Situations
    /\ loop = "corba" => ~Wake
    /\ IF loop = "bench"
       THEN /\ nuserTarget \in {t \in UserTargets : t <= MAXUSERS}
            /\ nconnectingTarget \in ConnectingTargets
            /\ lastConnecting \in {"CONNECT", "CONNECTING"}
       ELSE /\ nuserTarget = 0
            /\ nconnectingTarget = 1
            /\ lastConnecting = "CONNECTING"
    /\ userDue = {}
    /\ wake = (loop = "bench")
    /\ pc = IF loop = "bench" THEN "run" ELSE "unlocked"
    /\ polled = {}
    /\ oldDead = 0
    /\ poller = TRUE

------------------------------------------------------------------------------
\* Remote calls come between two iterations of the server's loop.
set_nuserTarget(t) ==
    /\ pc = "unlocked"
    /\ nuserTarget' = t
    /\ wake' = TRUE
    /\ UNCHANGED <<platoonVars, nconnectingTarget, lastConnecting, userDue, pc, mainVars>>

set_nconnectingTarget(t) ==
    /\ pc = "unlocked"
    /\ nconnectingTarget' = t
    /\ wake' = TRUE
    /\ UNCHANGED <<platoonVars, nuserTarget, lastConnecting, userDue, pc, mainVars>>

\* The remote names: CONNECT_START makes the last state CONNECTING, and
\* CONNECT_FINISH makes it CONNECT.
set_lastConnectingState(name) ==
    /\ pc = "unlocked"
    /\ lastConnecting' = CASE name = "CONNECT_START" -> "CONNECTING"
                           [] name = "CONNECT_FINISH" -> "CONNECT"
    /\ wake' = TRUE
    /\ UNCHANGED <<platoonVars, nuserTarget, nconnectingTarget, userDue, pc, mainVars>>

\* Mutants: the new state is counted twice over; nobody wakes the platoon.
countStateChangeAddOnly(old, new) ==
    /\ nInState' = [nInState EXCEPT ![new] = @ + 1]
    /\ wake' = TRUE

countStateChangeNoWake(old, new) ==
    /\ nInState' = IF old = NULL THEN [nInState EXCEPT ![new] = @ + 1]
                   ELSE [nInState EXCEPT ![old] = @ - 1, ![new] = @ + 1]
    /\ wake' = wake

\* countStateChange: the states a user only passes through (START_TYPE, GET)
\* are counted and uncounted in the same call.
countStateChange(old, new) ==
    /\ nInState' = IF old = NULL THEN [nInState EXCEPT ![new] = @ + 1]
                   ELSE [nInState EXCEPT ![old] = @ - 1, ![new] = @ + 1]
    /\ wake' = TRUE

------------------------------------------------------------------------------
\* Platoon::skedCallback starts users one after the other.
SkedCallback ==
    /\ pc = "run"
    /\ wake
    /\ wake' = FALSE
    /\ pc' = "starting"
    /\ UNCHANGED <<platoonVars, targetVars, userDue, mainVars>>

\* Mutant: dead users are no reason to stop.
MayStartDespiteDead ==
    /\ nalive < nuserTarget
    /\ nconnecting < nconnectingTarget

MayStart ==
    /\ ndead = 0
    /\ nalive < nuserTarget
    /\ nconnecting < nconnectingTarget

FreeSlots == {u \in Slots : users[u] = NULL}

\* Mutant: off by one.
NextSlot == nalive + 1

\* The search begins at the number of living users, and goes back to the first
\* slot where it meets the end of m_users. If it begins beyond the end it never
\* does.
BeginsInside == nalive <= MAXUSERS

\* So the slot that one that begins inside finds is the first free one round.
FirstFreeSlot ==
    LET at(n) == (nalive + n) % MAXUSERS
        n == CHOOSE k \in Slots : at(k) \in FreeSlots /\ \A j \in 0 .. k - 1 : at(j) \notin FreeSlots
    IN  at(n)

\* startUser() and robouser_t::start().
StartUser ==
    /\ pc = "starting"
    /\ MayStart
    /\ BeginsInside
    /\ FreeSlots # {}
    /\ users' = [users EXCEPT ![FirstFreeSlot] = "CONNECT"]
    /\ countStateChange(NULL, "CONNECT")
    /\ userDue' = userDue \cup {FirstFreeSlot}
    /\ UNCHANGED <<deadlist, targetVars, pc, mainVars>>

\* What lies beyond m_users holds a null: the new user goes there.
StartUserOutside ==
    /\ pc = "starting"
    /\ MayStart
    /\ ~BeginsInside
    /\ pc' = "crashed"
    /\ UNCHANGED <<platoonVars, targetVars, userDue, wake, mainVars>>

\* EALREADY ends the loop too: no slot is free, or no null lies beyond them.
SkedCallbackReturn ==
    /\ pc = "starting"
    /\ ~MayStart \/ ~BeginsInside \/ FreeSlots = {}
    /\ pc' = "run"
    /\ UNCHANGED <<platoonVars, targetVars, userDue, wake, mainVars>>

------------------------------------------------------------------------------
\* gotoState(s)
Goto(u, s) ==
    /\ users' = [users EXCEPT ![u] = s]
    /\ countStateChange(users[u], s)
    /\ UNCHANGED deadlist

\* stop()
Stop(u) ==
    /\ users' = [users EXCEPT ![u] = "STOPPED"]
    /\ countStateChange(users[u], "STOPPED")
    /\ deadlist' = Append(deadlist, u)

Buried(list) == {list[i] : i \in 1..Len(list)}

\* The users without the stopped ones, given the users and the list at hand.
Reaped(us, list) == [u \in Slots |-> IF u \in Buried(list) THEN NULL ELSE us[u]]

\* A user listed twice is deleted twice.
AfterReap(next) == IF Cardinality(Buried(deadlist)) = Len(deadlist) THEN next ELSE "crashed"

\* reap(): the dead lose their slot, their scheduled events and their sockets.
Bury(next) ==
    /\ pc' = AfterReap(next)
    /\ users' = Reaped(users, deadlist)
    /\ deadlist' = <<>>
    /\ userDue' = userDue \ Buried(deadlist)

\* Mutant: the poller is not told.
WithoutNobody(us) == polled

\* Events of the sockets of users us are forgotten when the sockets close.
Without(us) == {e \in polled : e[1] \notin us}

\* Steps of runAll: robouser_t::skedCallback connects and logs in.
UserConnects(u) ==
    /\ Goto(u, "CONNECTING")

UserConnectFails(u) ==
    /\ Failures
    /\ Stop(u)

\* login() writes on a connection that is already established; the write
\* fails, the session calls ftpCmdDone, which stops the user, and login
\* returns 0: the user goes on to CONNECTING.
UserLoginFails(u) ==
    /\ EarlyConnect
    /\ users' = [users EXCEPT ![u] = "CONNECTING"]
    /\ countStateChange(users[u], "CONNECTING")
    /\ deadlist' = Append(deadlist, u)

UserCallback(u) ==
    /\ pc = "run"
    /\ u \in userDue
    /\ userDue' = userDue \ {u}
    /\ UserConnects(u) \/ UserConnectFails(u) \/ UserLoginFails(u)
    /\ UNCHANGED <<targetVars, pc, mainVars>>

\* Mutant: the session reports the timeout and leaves its sockets open.
PipeTimeoutOpen(u) ==
    /\ pc = "run"
    /\ Failures
    /\ users[u] \in {"CONNECTING", "GETTING"}
    /\ Stop(u)
    /\ UNCHANGED <<targetVars, userDue, pc, mainVars>>

\* The session's five seconds are over: it shuts down, and its user stops.
PipeTimeout(u) ==
    /\ pc = "run"
    /\ Failures
    /\ users[u] \in {"CONNECTING", "GETTING"}
    /\ loop = "bench" => u \notin Buried(deadlist)  \* reaped before five seconds pass
    /\ Stop(u)
    /\ polled' = Without({u})
    /\ UNCHANGED <<targetVars, userDue, pc, oldDead, poller, setting>>

\* A session wakes up and reads: handle_data_io reaps the users stopped so far.
PipeWakeReads(u) ==
    /\ pc = "run"
    /\ users[u] = "GETTING"
    /\ Bury("run")
    /\ polled' = Without(Buried(deadlist))
    /\ UNCHANGED <<nInState, targetVars, wake, oldDead, poller, setting>>

\* It wakes up, reads the end of the file, and the server has said so too.
PipeWakeFinishes(u) ==
    /\ pc = "run"
    /\ users[u] = "GETTING"
    /\ Goto(u, "GETTING")
    /\ UNCHANGED <<targetVars, userDue, pc, mainVars>>

\* It wakes up and the read fails, or the transfer proves too slow.
PipeWakeStops(u) ==
    /\ pc = "run"
    /\ Wake
    /\ users[u] = "GETTING"
    /\ Stop(u)
    /\ UNCHANGED <<targetVars, userDue, pc, mainVars>>

\* Sked::runAll makes the calls that were due when it began; any of those that
\* are scheduled may be left for the next time.
RunAllReturn ==
    /\ pc = "run"
    /\ pc' = "drain"
    /\ UNCHANGED <<platoonVars, targetVars, userDue, wake, mainVars>>

------------------------------------------------------------------------------
\* Events given out by the main loop, one at most for each socket.
TakeEvent(u, fd) ==
    /\ pc = "drain"
    /\ <<u, fd>> \in polled
    /\ polled' = polled \ {<<u, fd>>}
    /\ pc' = "reap"

\* One that finishes no command: part of a file or of a reply, or anything
\* but an error for a user who is stopped.
EventIgnored(u, fd) ==
    /\ TakeEvent(u, fd)
    /\ UNCHANGED <<platoonVars, targetVars, userDue, wake, oldDead, poller, setting>>

\* ftpCmdDone(0, 2xx): the user goes on until it waits again.
AfterSuccess(s) ==
    CASE s = "CONNECTING"  -> "FINISH_TYPE"
      [] s = "FINISH_TYPE" -> "GETTING"
      [] s = "GETTING"     -> "GETTING"

CommandSucceeds(u, fd) ==
    /\ TakeEvent(u, fd)
    /\ users[u] \in Waiting
    /\ u \notin Buried(deadlist)      \* whose connection is broken
    /\ Goto(u, AfterSuccess(users[u]))
    /\ UNCHANGED <<targetVars, userDue, oldDead, poller, setting>>

\* ftpCmdDone(xerr or a bad status), a command that is refused, or a transfer
\* found too slow. An error stops a user whatever its state.
CommandFails(u, fd) ==
    /\ Failures
    /\ TakeEvent(u, fd)
    /\ Stop(u)
    /\ UNCHANGED <<targetVars, userDue, oldDead, poller, setting>>

ReapAfterEvent ==
    /\ pc = "reap"
    /\ Bury("drain")
    /\ polled' = Without(Buried(deadlist))
    /\ UNCHANGED <<nInState, targetVars, wake, oldDead, poller, setting>>

\* Mutant: only the first death is looked at.
TestFailedOnce == oldDead = 0 /\ ndead # oldDead /\ nalive = 0 /\ nconnecting = 0

\* "All users dead.  Test failed."
TestFailed == ndead # oldDead /\ nalive = 0 /\ nconnecting = 0

\* The sockets that are open, and may have an event at the next wait.
Open(us) ==
    {e \in Slots \X {"cfd", "dfd"} :
        us[e[1]] \in IF e[2] = "cfd" THEN Waiting ELSE {"GETTING"}}

\* The benchmark: waitForEvents, and the top of the next iteration: getStatus,
\* which reaps, and the end of the test when the last user has died.
Iterate ==
    /\ loop = "bench"
    /\ pc = "drain"
    /\ Bury(IF TestFailed THEN "failed" ELSE "run")
    /\ polled' = Open(Reaped(users, deadlist))
    /\ oldDead' = ndead
    /\ UNCHANGED <<nInState, targetVars, wake, poller, setting>>

\* It ends when nothing has changed for arg_duration; CorbaBench.tla has the
\* clock.
TestOver ==
    /\ loop = "bench"
    /\ Limited
    /\ pc = "drain"
    /\ pc' = "over"
    /\ UNCHANGED <<platoonVars, targetVars, userDue, wake, mainVars>>

\* The server's perform_work: with a poller it takes the mutex and goes on.
PerformWork ==
    /\ pc = "unlocked"
    /\ poller
    /\ pc' = "run"
    /\ UNCHANGED <<platoonVars, targetVars, userDue, wake, mainVars>>

\* Something the scheduler has was due some time ago. Then the timeout that
\* perform_work computes is negative, which means for ever.
Overdue == situation = "slow" /\ (wake \/ userDue # {})

WaitForEvents ==
    /\ loop = "corba"
    /\ pc = "drain"
    /\ polled' = Open(users)
    /\ pc' = IF Overdue THEN "blocked" ELSE "unlocked"
    /\ UNCHANGED <<platoonVars, targetVars, userDue, wake, oldDead, poller, setting>>

\* Only a socket can end such a wait.
EventAtLast ==
    /\ pc = "blocked"
    /\ polled # {}
    /\ pc' = "unlocked"
    /\ UNCHANGED <<platoonVars, targetVars, userDue, wake, mainVars>>

\* The remote call getStatus, which reaps.
GetStatus ==
    /\ pc = "unlocked"
    /\ Bury("unlocked")
    /\ polled' = Without(Buried(deadlist))
    /\ UNCHANGED <<nInState, targetVars, wake, oldDead, poller, setting>>

\* Platoon::reset(): every user goes, with what it and the platoon scheduled;
\* then the poller goes. The counters and targets keep their values.
Reset ==
    /\ pc = "unlocked"
    /\ poller
    /\ users' = [u \in Slots |-> NULL]
    /\ deadlist' = <<>>
    /\ userDue' = userDue \ (Buried(deadlist) \cup {u \in Slots : users[u] # NULL})
    /\ wake' = FALSE
    /\ polled' = {}
    /\ pc' = IF userDue' = {} THEN AfterReap("unlocked") ELSE "crashed"  \* assert(empty())
    /\ poller' = FALSE
    /\ UNCHANGED <<nInState, targetVars, oldDead, setting>>

\* "After this call, you may call init again." Before it the code does not
\* refuse init() either, but leaves the users of before in the scheduler:
\* PlatoonAbs.tla has what that does to the counts.
InitAgain ==
    /\ pc = "unlocked"
    /\ ~poller
    /\ nInState' = [s \in States |-> 0]
    /\ nuserTarget' = 0
    /\ nconnectingTarget' = 1
    /\ lastConnecting' = "CONNECTING"
    /\ poller' = TRUE
    /\ UNCHANGED <<users, deadlist, userDue, wake, pc, polled, oldDead, setting>>

Ended ==
    /\ pc \in {"failed", "over", "crashed"} \/ (pc = "blocked" /\ polled = {})
    /\ UNCHANGED vars

Next ==
    \/ \E t \in UserTargets : set_nuserTarget(t)
    \/ \E t \in ConnectingTargets : set_nconnectingTarget(t)
    \/ \E s \in {"CONNECT_START", "CONNECT_FINISH"} : set_lastConnectingState(s)
    \/ SkedCallback \/ StartUser \/ StartUserOutside \/ SkedCallbackReturn
    \/ \E u \in Slots :
          \/ UserCallback(u) \/ PipeTimeout(u)
          \/ PipeWakeReads(u) \/ PipeWakeFinishes(u) \/ PipeWakeStops(u)
          \/ \E fd \in {"cfd", "dfd"} :
                EventIgnored(u, fd) \/ CommandSucceeds(u, fd) \/ CommandFails(u, fd)
    \/ RunAllReturn \/ ReapAfterEvent
    \/ Iterate \/ TestOver
    \/ PerformWork \/ WaitForEvents \/ EventAtLast
    \/ GetStatus \/ Reset \/ InitAgain
    \/ Ended

Spec == Init /\ [][Next]_vars

\* The loop goes round; what is scheduled is run (Sked.tla: DueIsServed) and
\* the server answers, each often enough although the loop is elsewhere in
\* between.
Fairness ==
    /\ WF_vars(StartUser) /\ WF_vars(SkedCallbackReturn)
    /\ SF_vars(RunAllReturn) /\ WF_vars(ReapAfterEvent)
    /\ SF_vars(Iterate) /\ SF_vars(PerformWork) /\ SF_vars(WaitForEvents)
    /\ SF_vars(SkedCallback)
    /\ \A u \in Slots : SF_vars(UserCallback(u)) /\ SF_vars(CommandSucceeds(u, "cfd"))

FairSpec == Spec /\ Fairness

------------------------------------------------------------------------------
\* The users that exist and are not stopped.
Living == {u \in Slots : users[u] \in AliveStates}

\* Type invariant: every variable has its type, and the thread is at a place
\* of its loop.
TypeOK ==
    /\ users \in [Slots -> States \cup {NULL}]
    /\ nInState \in [States -> Int]
    /\ deadlist \in Seq(Slots)
    /\ nuserTarget \in Nat /\ nconnectingTarget \in Nat
    /\ lastConnecting \in {"CONNECT", "CONNECTING"}
    /\ userDue \subseteq Slots /\ polled \subseteq Slots \X {"cfd", "dfd"}
    /\ {wake, poller} \subseteq BOOLEAN /\ pc \in Places /\ oldDead \in Int
    /\ setting \in Loops \X Situations

\* "Find an empty slot" (startUser): the search begins, and so stays, inside
\* m_users. The users counted as living must not be more than there are slots.
SearchIsInside == (pc = "starting" /\ MayStart) => BeginsInside

\* It does, whatever has happened, as long as the counters are right or the
\* target is no greater than the table: failing logins leave users counted
\* that have no slot, and only a controller's target lets their number grow.
SearchStaysInside == (EarlyConnect /\ nuserTarget > MAXUSERS) \/ SearchIsInside

\* "Count of users in each state" (Platoon.h).
CountsAgreeAlways ==
    \A s \in AliveStates : nInState[s] = Cardinality({u \in Slots : users[u] = s})

\* countStateChange keeps the counter of every living state equal to the number
\* of users in it, through stops and reaps. Two things break that: reset()
\* empties the platoon without touching the counters, and a user whose login
\* fails at once is counted as CONNECTING for good.
CountsAgree == poller /\ ~EarlyConnect => CountsAgreeAlways

\* No user is on the list of the dead twice, so reap() deletes no object twice.
ReapedOnce == \A i, j \in 1..Len(deadlist) : deadlist[i] = deadlist[j] => i = j

\* The list of the dead holds the stopped users, all of them and nobody else,
\* each once: reap() deletes every user that stop() gave up, and no living one.
\* A user whose login fails at once is on the list and in state CONNECTING; in
\* the server's loop it may get there twice, since nothing reaps it before its
\* next event, and so may one stopped by the read of a session that woke up.
DeadlistIsStopped ==
    /\ IF EarlyConnect
       THEN Buried(deadlist) \subseteq {u \in Slots : users[u] \in {"STOPPED", "CONNECTING"}}
       ELSE Buried(deadlist) = {u \in Slots : users[u] = "STOPPED"}
    /\ ~ReapedOnce => Wake \/ (EarlyConnect /\ loop = "corba")

\* No call reaches a user that was deleted, or its successor in the slot: the
\* scheduler holds events only of users about to connect, the poller only of
\* users whose connection is open or not closed yet, and when reset() has
\* deleted everybody nothing is left in the scheduler (its assertion).
NoCallAfterDeath ==
    /\ \A u \in userDue : users[u] = "CONNECT"
    /\ \A e \in polled : users[e[1]] \in Waiting \cup {"STOPPED"}
    /\ ~poller => userDue = {} /\ polled = {}

\* What getStatus tells of the platoon, whose users none is forgotten of: init()
\* comes after reset().
Forgotten == [s \in {"connect", "connecting", "up", "dead"} |-> 0]
platoonBar ==
    [running |-> poller, target |-> nuserTarget, ctarget |-> nconnectingTarget,
     last |-> lastConnecting, connect |-> nInState["CONNECT"],
     connecting |-> nInState["CONNECTING"],
     up |-> nalive - nInState["CONNECT"] - nInState["CONNECTING"], dead |-> ndead,
     lost |-> Forgotten, drift |-> Forgotten]

Abs == INSTANCE PlatoonAbs WITH platoon <- platoonBar, Targets <- UserTargets

\* What getStatus tells of a platoon changes as PlatoonAbs.tla says: users go
\* forward or die, one by one, nobody is started beyond the targets or after a
\* death, and only init() starts over. Here for both loops and every situation.
ImplementsAbs == Abs!Spec

\* If every user that was started has died, main notices.
AllDeadIsNoticed ==
    (loop = "bench" /\ ndead > 0 /\ Living = {}) ~> (pc = "failed")

\* "Platoon will ramp up to this": with a server that answers, and while no user
\* has died, the number of living users reaches the target.
RampUpReachesTarget ==
    \A t \in UserTargets :
       (poller /\ nuserTarget = t)
          ~> (nuserTarget # t \/ Cardinality(Living) >= t \/ ndead > 0 \/ ~poller)

\* CorbaPlatoon_impl.cc:319, where the timeout is computed: "Don't sleep too
\* long here".
SleepsUntilDue == pc = "blocked" => ~wake /\ userDue = {}
==============================================================================
