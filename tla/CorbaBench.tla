------------------------------ MODULE CorbaBench ------------------------------
(***************************************************************************)
(* The remote benchmark: the controller (corbaftpbench.cc) and the servers *)
(* that each run a platoon for it (CorbaPlatoon_impl.cc). What a server    *)
(* does inside is in Platoon.tla; here a platoon is what the controller    *)
(* sees of it (PlatoonAbs.tla), and changes by itself between the calls.   *)
(*                                                                         *)
(* A call may fail: the server may have crashed, or the connection, before *)
(* the call was executed or after. The clock (Eclock.tla) ticks in seconds *)
(* and wraps. The servers stay when the controller ends, and it is started *)
(* again: here is one such start, on what those before it have left.       *)
(***************************************************************************)
EXTENDS Eclock, Sequences, FiniteSets

CONSTANTS
    NServers,           \* number of servers that the name service lists
    Users,              \* arg_users
    Duration,           \* arg_duration, 0 for no limit
    Faults,             \* exceptions that a call may end in
    MaxLag,             \* bound: seconds that pass during one call of getStatus
    Before              \* the servers' platoons as earlier runs may have left them

ASSUME CorbaBenchAssumption ==
    /\ NServers \in Nat /\ Users \in Nat \ {0} /\ Duration \in Nat
    /\ Faults \subseteq {"COMM_FAILURE", "other"}
    /\ MaxLag \in Nat

VARIABLES
    platoons,           \* the platoon of each server
    up,                 \* the server is running
    clock,              \* eclock()
    pc,                 \* where the controller is
    i,                  \* index of its loops
    mine,               \* its array platoons[]: servers that took part in the setup
    sums,               \* nconnecting, nalive, ndead
    old,                \* old_nalive, old_ndead
    now, test_end,
    sinceNow,           \* ghost: time since now was read
    sinceChange,        \* ghost: time since the now to which test_end belongs was read
    alive,              \* ghost: platoons with living users when this round began
    deserted            \* ghost: servers whose last init() found the platoon running

servers == <<platoons, up>>
ghosts == <<sinceNow, sinceChange, alive, deserted>>
counts == <<sums, old>>
vars == <<servers, clock, pc, i, mine, counts, now, test_end, ghosts>>

Servers == 1 .. NServers

P == INSTANCE PlatoonAbs WITH
    platoon <- platoons[1], Targets <- {Users}, ConnectingTargets <- {1}

\* A platoon has at most as many users of its own as it was told to have, the
\* dead included. Users it has forgotten take from its counts of the living,
\* which may fall below zero, what they add to that of the dead; none comes
\* back from CONNECTING.
Kinds == {"connect", "connecting", "up", "dead"}

Drifted(d) ==
    /\ d["connect"] <= 0 /\ d["connect"] + d["connecting"] <= 0 /\ d["up"] <= 0
    /\ d["connect"] + d["connecting"] + d["up"] + d["dead"] = 0

PlatoonRecords ==
    [running : BOOLEAN, target : {0, Users}, ctarget : Nat, last : P!States,
     connect : Nat, connecting : Nat, up : Nat, dead : Nat,
     lost : [Kinds -> Nat], drift : [Kinds -> Int]]

WithinTarget(p) ==
    Drifted(p.drift) /\ p.connect + p.connecting + p.up + p.dead <= Users

ASSUME BeforeAssumption ==
    /\ Before \subseteq [Servers -> PlatoonRecords]
    /\ \A b \in Before : \A s \in Servers : WithinTarget(b[s])

\* resolve and _narrow; the three calls of the setup; the main loop: its top,
\* a call of getStatus, what follows the calls, sleep(1); the calls of reset.
Setup == {"resolve", "init", "set_nuserTarget", "set_verbosity"}
Rounds == {"top", "getStatus", "tally", "sleep"}
Ended == {"nobody", "failed", "over", "aborted"}

NoSums == [nconnecting |-> 0, nalive |-> 0, ndead |-> 0]

Init ==
    /\ platoons \in Before
    /\ up = [s \in Servers |-> TRUE]
    /\ clock = 0                       \* as good as any: it wraps
    /\ pc = "resolve"
    /\ i = 1
    /\ mine = <<>>
    /\ sums = NoSums
    /\ old = [nalive |-> 0, ndead |-> 0]
    /\ now = 0 /\ test_end = 0
    /\ sinceNow = 0 /\ sinceChange = 0
    /\ alive = {} /\ deserted = {s \in Servers : P!Tangled(platoons[s])}

------------------------------------------------------------------------------
\* A server works on its own, or crashes.
Progress(s) ==
    /\ up[s]
    /\ \E q \in P!Progress(platoons[s]) : platoons' = [platoons EXCEPT ![s] = q]
    /\ UNCHANGED <<up, clock, pc, i, mine, counts, now, test_end, ghosts>>

Crash(s) ==
    /\ Faults # {}
    /\ up[s]
    /\ up' = [up EXCEPT ![s] = FALSE]
    /\ platoons' = [platoons EXCEPT ![s] = P!None]
    /\ UNCHANGED <<clock, pc, i, mine, counts, now, test_end, ghosts>>

\* Time passes. With a Duration a round never begins after Longest seconds; the
\* ghosts go no further than that.
Longest == Duration + NServers * MaxLag + 1

Later(t, n) == IF t + n > Longest THEN Longest + 1 ELSE t + n

Passes(n) ==
    /\ clock' = eclock(clock + n)
    /\ sinceNow' = Later(sinceNow, n)
    /\ sinceChange' = Later(sinceChange, n)

\* Only while the test lasts does it matter how long a call takes.
Lags == IF pc \in Rounds THEN 0..MaxLag ELSE {0}

\* A call to server s that returns; after are the states it may leave.
Returns(s, after) ==
    /\ up[s]
    /\ \E q \in after : platoons' = [platoons EXCEPT ![s] = q]
    /\ UNCHANGED up
    /\ \E n \in Lags : Passes(n)

\* One that throws: it was executed or not.
Throws(s, after, fault) ==
    /\ fault \in Faults
    /\ \/ UNCHANGED platoons
       \/ up[s] /\ \E q \in after : platoons' = [platoons EXCEPT ![s] = q]
    /\ UNCHANGED up
    /\ \E n \in Lags : Passes(n)

\* Every exception that is not caught in the setup ends the program.
Abort ==
    /\ pc' = "aborted"
    /\ UNCHANGED <<i, mine, counts, now, test_end, alive>>

------------------------------------------------------------------------------
\* The setup goes through the names.
Resolve ==
    /\ pc = "resolve"
    /\ i <= NServers
    /\ \/ Returns(i, {platoons[i]}) /\ pc' = "init"
          /\ UNCHANGED <<i, mine, counts, now, test_end, alive, deserted>>
       \/ \E f \in Faults : Throws(i, {platoons[i]}, f) /\ Abort /\ UNCHANGED deserted

\* COMM_FAILURE in one of its three calls: the server is left out.
LeaveOut ==
    /\ pc' = "resolve"
    /\ i' = i + 1
    /\ UNCHANGED <<mine, counts, now, test_end, alive>>

SetupCall(after) ==
    \/ Throws(i, after, "COMM_FAILURE") /\ LeaveOut
    \/ Throws(i, after, "other") /\ Abort

CallInit ==
    /\ pc = "init"
    /\ \/ SetupCall(P!init(platoons[i]))
       \/ Returns(i, P!init(platoons[i])) /\ pc' = "set_nuserTarget"
          /\ UNCHANGED <<i, mine, counts, now, test_end, alive>>
    /\ deserted' = CASE platoons' = platoons -> deserted
                     [] platoons' # platoons /\ platoons[i].running -> deserted \cup {i}
                     [] platoons' # platoons /\ ~platoons[i].running -> deserted \ {i}

Call_set_nuserTarget ==
    /\ pc = "set_nuserTarget"
    /\ \/ SetupCall(P!set_nuserTarget(platoons[i], Users))
       \/ Returns(i, P!set_nuserTarget(platoons[i], Users)) /\ pc' = "set_verbosity"
          /\ UNCHANGED <<i, mine, counts, now, test_end, alive>>
    /\ UNCHANGED deserted

Call_set_verbosity ==
    /\ pc = "set_verbosity"
    /\ \/ SetupCall({platoons[i]})
       \/ Returns(i, {platoons[i]}) /\ pc' = "resolve"
          /\ mine' = Append(mine, i)
          /\ i' = i + 1
          /\ UNCHANGED <<counts, now, test_end, alive>>
    /\ UNCHANGED deserted

\* "No references alive.  Aborting.", or the test begins. The first deadline is
\* a sum of two int, which a build may wrap or compute in the width of clock_t.
StartTest ==
    /\ pc = "resolve"
    /\ i > NServers
    /\ IF mine = <<>>
       THEN pc' = "nobody" /\ UNCHANGED <<test_end, sinceChange>>
       ELSE /\ pc' = "top"
            /\ test_end' \in {Plus(clock, Duration), eclock(clock + Duration)}
            /\ sinceChange' = 0
    /\ UNCHANGED <<servers, clock, i, mine, counts, now, sinceNow, alive, deserted>>

------------------------------------------------------------------------------
\* The users of its own that live.
Living(p) == p.connect + p.connecting + p.up

\* Time is up, or the next round of getStatus begins.
TimeIsUp == Duration # 0 /\ eclock_after(clock, test_end)

Top ==
    /\ pc = "top"
    /\ now' = clock
    /\ sinceNow' = 0
    /\ i' = 1
    /\ IF TimeIsUp
       THEN pc' = "reset" /\ UNCHANGED alive
       ELSE /\ pc' = "getStatus"
            /\ alive' = {s \in Servers : Living(platoons[s]) > 0}
    /\ UNCHANGED <<servers, clock, mine, counts, test_end, sinceChange, deserted>>

\* Mutant: each platoon's numbers take the place of the last one's.
AddedLast(p) ==
    [nconnecting |-> P!nconnecting(p), nalive |-> P!nalive(p), ndead |-> P!ndead(p)]

\* Mutant: whoever connects is counted as alive once more.
AddedTwice(p) ==
    [AddedLast(p) EXCEPT !.nalive = sums.nalive + P!nalive(p) + P!nconnecting(p)]

Added(p) ==
    [nconnecting |-> sums.nconnecting + P!nconnecting(p),
     nalive |-> sums.nalive + P!nalive(p),
     ndead |-> sums.ndead + P!ndead(p)]

CallGetStatus ==
    /\ pc = "getStatus"
    /\ LET s == mine[i]
       IN  \/ /\ Returns(s, {platoons[s]})
              /\ sums' = Added(platoons[s])
              /\ pc' = IF i = Len(mine) THEN "tally" ELSE "getStatus"
              /\ i' = i + 1
              /\ UNCHANGED <<mine, old, now, test_end, alive>>
           \/ \E f \in Faults : Throws(s, {platoons[s]}, f) /\ Abort
    /\ UNCHANGED deserted

AllUsersDead == sums.ndead # old.ndead /\ sums.nalive = 0 /\ sums.nconnecting = 0

\* Mutant: the dead are not compared with the last round's.
SomeDead == sums.nalive # old.nalive \/ sums.ndead # 0

Changed == sums.nalive # old.nalive \/ sums.ndead # old.ndead

\* A change puts off the end of the test, unless all users are dead.
Tally ==
    /\ pc = "tally"
    /\ IF AllUsersDead
       THEN pc' = "failed" /\ UNCHANGED alive
       ELSE pc' = "sleep" /\ alive' = {}
    /\ IF Changed /\ ~AllUsersDead
       THEN /\ test_end' = Plus(now, Duration)
            /\ sinceChange' = sinceNow
            /\ old' = [nalive |-> sums.nalive, ndead |-> sums.ndead]
       ELSE UNCHANGED <<test_end, sinceChange, old>>
    /\ sums' = NoSums                  \* these and now go out of scope
    /\ now' = 0 /\ sinceNow' = 0
    /\ UNCHANGED <<servers, clock, i, mine, deserted>>

Sleep ==
    /\ pc = "sleep"
    /\ pc' = "top"
    /\ Passes(1)
    /\ UNCHANGED <<servers, i, mine, counts, now, test_end, alive, deserted>>

NoMoreToReset == i >= Len(mine)

\* Platoon::reset asserts that nothing is left in the scheduler: a server that
\* forgot users may end there, and its call in COMM_FAILURE.
ResetAsserts(s) ==
    /\ up[s]
    /\ P!Tangled(platoons[s])
    /\ up' = [up EXCEPT ![s] = FALSE]
    /\ platoons' = [platoons EXCEPT ![s] = P!None]
    /\ Passes(0)

\* "don't leave the sourcerer's apprentice fetching files forever"
CallReset ==
    /\ pc = "reset"
    /\ LET s == mine[i]
       IN  \/ /\ Returns(s, P!reset(platoons[s]))
              /\ pc' = IF NoMoreToReset THEN "over" ELSE "reset"
              /\ i' = i + 1
              /\ UNCHANGED <<mine, counts, now, test_end, alive>>
           \/ ResetAsserts(s) /\ Abort
           \/ \E f \in Faults : Throws(s, P!reset(platoons[s]), f) /\ Abort
    /\ UNCHANGED deserted

Finished == pc \in Ended /\ UNCHANGED vars

Controller ==
    \/ Resolve \/ CallInit \/ Call_set_nuserTarget \/ Call_set_verbosity
    \/ StartTest \/ Top \/ CallGetStatus \/ Tally \/ Sleep \/ CallReset

Next ==
    \/ Controller
    \/ \E s \in Servers : Progress(s) \/ Crash(s)
    \/ Finished

Spec == Init /\ [][Next]_vars

\* Calls come back, and sleep ends.
FairSpec == Spec /\ WF_vars(Controller)

------------------------------------------------------------------------------
\* What getStatus counts is right about the platoons of this test: none of them
\* was initialised while it was running.
Untangled == \A n \in DOMAIN mine : mine[n] \notin deserted

\* Type invariant: of the platoons, and of the controller's variables.
TypeOK ==
    /\ platoons \in [Servers -> PlatoonRecords]
    /\ \A s \in Servers :
        WithinTarget(platoons[s]) /\ (s \in deserted \/ ~P!Tangled(platoons[s]))
    /\ up \in [Servers -> BOOLEAN]
    /\ {clock, now} \subseteq Times
    /\ test_end \in -LongHalf .. LongHalf - 1
    /\ pc \in Setup \cup Rounds \cup {"reset"} \cup Ended
    /\ pc \in {"getStatus", "reset"} => i \in 1..Len(mine)
    /\ mine \in Seq(Servers)
    /\ {sums.nconnecting, sums.nalive, sums.ndead} \subseteq Int
    /\ sums.nconnecting <= NServers * Users /\ sums.nalive <= NServers * Users
    /\ Untangled => {sums.nconnecting, sums.nalive, sums.ndead} \subseteq 0..(NServers * Users)
    /\ {sinceNow, sinceChange} \subseteq Nat
    /\ alive \subseteq Servers /\ deserted \subseteq Servers

\* The platoon has no users of its own that live, and starts none.
Extinct(p) == Living(p) = 0 /\ P!Start(p) = {}

\* "All users dead.  Test failed.": the answers come one after the other while
\* the platoons go on, but whoever had a living user when the round began has
\* none any more, and will have none; provided that no server of this test was
\* initialised without a reset. (A server that was asked early in the round may
\* have started its first user since.)
FailedMeansDead ==
    (pc = "failed" /\ Untangled) =>
        \A n \in DOMAIN mine : mine[n] \in alive => Extinct(platoons[mine[n]])

\* The same on any server: "All users dead." is said only when they are.
FailedIsDead ==
    pc = "failed" => \A n \in DOMAIN mine : mine[n] \in alive => Extinct(platoons[mine[n]])

\* "at least %d seconds to end of test": the test ends at the first look at the
\* clock later than Duration after the last look before a change, on a clock
\* that wraps.
TestLasts ==
    [][pc = "top" /\ pc' # pc => (pc' = "reset" <=> Duration # 0 /\ sinceChange > Duration)]_vars

\* "don't leave the sourcerer's apprentice fetching files forever": after the
\* end of the test no platoon runs but those left out of it by COMM_FAILURE.
NobodyLeftRunning ==
    pc = "over" => \A n \in DOMAIN mine : ~platoons[mine[n]].running

\* The same without exception: nobody fetches files, or will.
NobodyLeftFetching ==
    pc = "over" => \A s \in Servers : ~platoons[s].running \/ Extinct(platoons[s])

\* With a duration the test ends, because users cannot change for ever.
TestEnds == (pc = "top") ~> (pc \in Ended)
===============================================================================
