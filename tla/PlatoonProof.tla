----------------------------- MODULE PlatoonProof -----------------------------
(***************************************************************************)
(* The platoon is right about its users, for any number of slots and any   *)
(* targets: its counters count them, its list of the dead holds those that *)
(* stopped, and no call reaches one that is gone. It implements            *)
(* PlatoonAbs.tla.                                                         *)
(***************************************************************************)
EXTENDS Platoon, FiniteSetTheorems, FunctionTheorems, WellFoundedInduction, TLAPS

\* Those of the users us in state s.
InState(us, s) == {u \in Slots : us[u] = s}

\* Where a user may be on the list of the dead twice.
MayDieTwice == Wake \/ (EarlyConnect /\ loop = "corba")

\* The counters are never less than the number of users, and too large only
\* where logins fail at once.
Counted ==
    poller => \A s \in AliveStates :
                 /\ nInState[s] >= Cardinality(InState(users, s))
                 /\ EarlyConnect \/ nInState[s] = Cardinality(InState(users, s))

\* Between events, the poller knows of no user that is on the list of the dead:
\* so the next event cannot put one there again.
DeadAreSilent ==
    MayDieTwice \/ pc = "reap" \/ \A e \in polled : e[1] \notin Buried(deadlist)

\* Without a poller there are no users, and the loop stands still.
EmptyAfterReset ==
    ~poller => /\ pc \in {"unlocked", "crashed"}
               /\ \A u \in Slots : users[u] = NULL

\* Nothing is deleted twice, and nothing is left in the scheduler that is
\* deleted.
NoCrash == pc = "crashed" => MayDieTwice

\* The benchmark takes no more users than there are slots, and no remote calls.
BenchTargets == loop = "bench" => nuserTarget <= MAXUSERS /\ pc \notin {"unlocked", "blocked"}

\* The inductive invariant.
IInv ==
    /\ TypeOK
    /\ NoCallAfterDeath
    /\ DeadlistIsStopped
    /\ DeadAreSilent
    /\ EmptyAfterReset
    /\ Counted
    /\ NoCrash
    /\ loop = "corba" => ~Wake

------------------------------------------------------------------------------
(***************************************************************************)
(* The search of startUser goes through all slots, wherever it begins, and *)
(* so finds a free one if there is one.                                    *)
(***************************************************************************)
LEMMA SearchMeetsAll ==
  ASSUME NEW a \in Int, NEW f \in Slots
  PROVE  \E k \in Slots : (a + k) % MAXUSERS = f
<1> USE PlatoonAssumption DEF Slots
<1> DEFINE k == (f - a) % MAXUSERS
           q == (f - a) \div MAXUSERS
<1>1. k \in Slots /\ q \in Int /\ f - a = MAXUSERS * q + k
    OBVIOUS
<1>2. a + k = MAXUSERS * (0 - q) + f
    BY <1>1
<1> HIDE DEF k, q
<1>3. (a + k) % MAXUSERS = f
    <2> DEFINE r == (a + k) % MAXUSERS
               d == ((a + k) \div MAXUSERS) + q
    <2>1. r \in 0 .. MAXUSERS - 1 /\ d \in Int
        BY <1>1
    <2>2. a + k = MAXUSERS * ((a + k) \div MAXUSERS) + r
        BY <1>1
    <2>3. f - r = MAXUSERS * d
        BY <1>1, <1>2, <2>2
    <2> HIDE DEF r, d
    <2>4. d <= 0
        BY <1>1, <2>1, <2>3
    <2>5. d >= 0
        BY <1>1, <2>1, <2>3
    <2>6. d = 0
        BY <2>1, <2>4, <2>5
    <2> QED BY <2>1, <2>3, <2>6 DEF r
<1> QED BY <1>1, <1>3

\* A nonempty set of natural numbers has a least element.
LEMMA LeastNatural ==
  ASSUME NEW T, T \subseteq Nat, T # {}
  PROVE  \E x \in T : \A y \in T : x <= y
<1>1. PICK x \in T : \A y \in T : ~(<<y, x>> \in OpToRel(<, Nat))
    BY NatLessThanWellFounded, WFMin
<1>2. \A y \in T : ~(y < x)
    BY <1>1 DEF OpToRel
<1> QED BY <1>2

\* The search for a free slot, from nalive on and around, finds one if there is
\* one.
LEMMA FirstFreeSlotIsFree ==
  ASSUME nalive \in Int, FreeSlots # {}
  PROVE  FirstFreeSlot \in FreeSlots
<1> DEFINE at(n) == (nalive + n) % MAXUSERS
           Hits == {k \in Slots : at(k) \in FreeSlots}
           First(k) == at(k) \in FreeSlots /\ \A j \in 0 .. k - 1 : at(j) \notin FreeSlots
<1>1. Hits # {} /\ Hits \subseteq Nat
    <2>1. PICK f \in FreeSlots : f \in Slots
        BY DEF FreeSlots
    <2>2. PICK k \in Slots : at(k) = f
        BY <2>1, SearchMeetsAll
    <2>3. k \in Hits
        BY <2>1, <2>2
    <2>4. Slots \subseteq Nat
        BY PlatoonAssumption DEF Slots
    <2> QED BY <2>3, <2>4
<1>2. PICK k \in Hits : \A y \in Hits : k <= y
    BY <1>1, LeastNatural
<1>3. k \in Slots /\ First(k)
    <2>1. k \in Slots /\ at(k) \in FreeSlots
        OBVIOUS
    <2>2. ASSUME NEW j \in 0 .. k - 1 PROVE at(j) \notin FreeSlots
        <3>1. j \in Slots /\ j < k
            BY <2>1, PlatoonAssumption DEF Slots
        <3>2. j \notin Hits
            BY <1>2, <2>1, <3>1, PlatoonAssumption DEF Slots
        <3> QED BY <3>1, <3>2
    <2> QED BY <2>1, <2>2
<1>4. First(CHOOSE n \in Slots : First(n))
    BY <1>3
<1> QED BY <1>4 DEF FirstFreeSlot

------------------------------------------------------------------------------
(***************************************************************************)
(* The list of the dead.                                                   *)
(***************************************************************************)
LEMMA BuriedNobody == Buried(<<>>) = {}
BY DEF Buried

\* Putting a user on the deadlist buries that user and no other.
LEMMA BuriedAppend ==
  ASSUME NEW list \in Seq(Slots), NEW u \in Slots
  PROVE  Buried(Append(list, u)) = Buried(list) \cup {u}
BY DEF Buried

\* Those on the deadlist are users.
LEMMA BuriedSlots ==
  ASSUME deadlist \in Seq(Slots)
  PROVE  Buried(deadlist) \subseteq Slots
BY DEF Buried

\* A list without repetitions is as long as the set of its elements is large.
LEMMA OnceCounts ==
  ASSUME deadlist \in Seq(Slots), ReapedOnce
  PROVE  Cardinality(Buried(deadlist)) = Len(deadlist)
<1> DEFINE n == Len(deadlist)
           f == [i \in 1..n |-> deadlist[i]]
<1>1. n \in Nat
    OBVIOUS
<1>2. f \in Bijection(1..n, Buried(deadlist))
    <2>1. f \in [1..n -> Buried(deadlist)]
        BY DEF Buried
    <2>2. \A i, j \in 1..n : f[i] = f[j] => i = j
        BY DEF ReapedOnce
    <2>3. \A u \in Buried(deadlist) : \E i \in 1..n : f[i] = u
        BY DEF Buried
    <2> HIDE DEF n, f
    <2> QED BY <2>1, <2>2, <2>3, Fun_IsBij
<1> HIDE DEF n, f
<1>3. ExistsBijection(1..n, Buried(deadlist))
    BY <1>2 DEF ExistsBijection
<1>4. Cardinality(Buried(deadlist)) = n
    BY <1>1, <1>3, FS_CountingElements
<1> QED BY <1>4 DEF n

\* Adding somebody who is not listed.
LEMMA OnceAppend ==
  ASSUME deadlist \in Seq(Slots), ReapedOnce, NEW u \in Slots, u \notin Buried(deadlist),
         deadlist' = Append(deadlist, u)
  PROVE  ReapedOnce'
<1>1. ASSUME NEW i \in 1..Len(deadlist)', NEW j \in 1..Len(deadlist)',
             deadlist'[i] = deadlist'[j]
      PROVE  i = j
    <2>1. Len(deadlist)' = Len(deadlist) + 1 /\ Len(deadlist) \in Nat
        OBVIOUS
    <2>2. \A k \in 1..Len(deadlist) : deadlist'[k] = deadlist[k] /\ deadlist[k] # u
        BY DEF Buried
    <2>3. deadlist'[Len(deadlist) + 1] = u
        OBVIOUS
    <2> QED BY <1>1, <2>1, <2>2, <2>3 DEF ReapedOnce
<1> QED BY <1>1 DEF ReapedOnce

------------------------------------------------------------------------------
(***************************************************************************)
(* The counters.                                                           *)
(***************************************************************************)
LEMMA InStateFinite ==
  ASSUME NEW us, NEW s
  PROVE  IsFiniteSet(InState(us, s)) /\ Cardinality(InState(us, s)) \in Nat
<1>1. IsFiniteSet(Slots)
    BY FS_Interval, PlatoonAssumption DEF Slots
<1>2. InState(us, s) \in SUBSET Slots
    BY DEF InState
<1>3. IsFiniteSet(InState(us, s))
    BY <1>1, <1>2, FS_Subset
<1> QED BY <1>3, FS_CardinalityType

Moves(u, new) == users' = [users EXCEPT ![u] = new]

\* What one user's move does to the numbers of users in each state.
LEMMA MoveCounts ==
  ASSUME TypeOK, NEW u \in Slots, NEW new, Moves(u, new), NEW s
  PROVE  Cardinality(InState(users', s)) =
            Cardinality(InState(users, s)) + (IF s = new THEN 1 ELSE 0)
                                        - (IF s = users[u] THEN 1 ELSE 0)
<1> USE DEF Moves, TypeOK
<1>0. IsFiniteSet(InState(users, s)) /\ Cardinality(InState(users, s)) \in Nat
    BY InStateFinite
<1>1. CASE s = new /\ s = users[u]
    <2>1. InState(users', s) = InState(users, s)
        BY <1>1 DEF InState
    <2> QED BY <1>0, <1>1, <2>1
<1>2. CASE s = new /\ s # users[u]
    <2>1. InState(users', s) = InState(users, s) \cup {u} /\ u \notin InState(users, s)
        BY <1>2 DEF InState
    <2>2. Cardinality(InState(users, s) \cup {u}) = Cardinality(InState(users, s)) + 1
        BY <1>0, <2>1, FS_AddElement
    <2>3. Cardinality(InState(users', s)) = Cardinality(InState(users, s) \cup {u})
        BY <2>1, Zenon
    <2> QED BY <1>0, <1>2, <2>2, <2>3
<1>3. CASE s # new /\ s = users[u]
    <2>1. InState(users', s) = InState(users, s) \ {u} /\ u \in InState(users, s)
        BY <1>3 DEF InState
    <2>2. Cardinality(InState(users, s) \ {u}) = Cardinality(InState(users, s)) - 1
        BY <1>0, <2>1, FS_RemoveElement
    <2>3. Cardinality(InState(users', s)) = Cardinality(InState(users, s) \ {u})
        BY <2>1, Zenon
    <2> QED BY <1>0, <1>3, <2>2, <2>3
<1>4. CASE s # new /\ s # users[u]
    <2>1. InState(users', s) = InState(users, s)
        BY <1>4 DEF InState
    <2> QED BY <1>0, <1>4, <2>1
<1> QED BY <1>1, <1>2, <1>3, <1>4

\* countStateChange keeps up with a user that moves.
LEMMA MoveCounted ==
  ASSUME TypeOK, Counted, NEW u \in Slots, NEW new \in States,
         Moves(u, new), countStateChange(users[u], new),
         UNCHANGED <<poller, setting>>
  PROVE  Counted'
<1>1. users \in [Slots -> States \cup {NULL}] /\ nInState \in [States -> Int]
    BY DEF TypeOK
<1>2. NULL \notin States /\ AliveStates \subseteq States
    BY DEF NULL, States, AliveStates
<1>3. \A s \in AliveStates :
        nInState'[s] = nInState[s] + (IF s = new THEN 1 ELSE 0)
                                   - (IF s = users[u] THEN 1 ELSE 0)
    BY <1>1, <1>2 DEF countStateChange
<1>4. SUFFICES ASSUME poller, NEW s \in AliveStates
               PROVE  /\ nInState'[s] >= Cardinality(InState(users', s))
                      /\ EarlyConnect \/ nInState'[s] = Cardinality(InState(users', s))
    BY DEF Counted, EarlyConnect, setting
<1>5. Cardinality(InState(users', s)) = Cardinality(InState(users, s))
            + (IF s = new THEN 1 ELSE 0) - (IF s = users[u] THEN 1 ELSE 0)
    BY MoveCounts
<1>6. nInState[s] \in Int /\ Cardinality(InState(users, s)) \in Nat
    BY <1>1, <1>2, InStateFinite
<1>7. nInState[s] >= Cardinality(InState(users, s))
      /\ (EarlyConnect \/ nInState[s] = Cardinality(InState(users, s)))
    BY <1>4 DEF Counted
<1> QED BY <1>3, <1>5, <1>6, <1>7

------------------------------------------------------------------------------
(***************************************************************************)
(* What happens to one user: it goes on, or it stops. Whoever moves is no  *)
(* longer about to connect.                                                *)
(***************************************************************************)
LEMMA GoingOnKeeps ==
  ASSUME IInv, poller, pc # "reap",
         NEW u \in Slots, NEW s \in Waiting, users[u] \in AliveStates, Goto(u, s),
         u \notin Buried(deadlist),
         userDue' \subseteq userDue, u \notin userDue', polled' \subseteq polled,
         pc' \in Places \ {"crashed"},
         UNCHANGED <<targetVars, oldDead, poller, setting>>
  PROVE  IInv'
<1> USE DEF setting, Wake, EarlyConnect, MayDieTwice
<1>1. /\ users' = [users EXCEPT ![u] = s] /\ deadlist' = deadlist
      /\ countStateChange(users[u], s)
      /\ users \in [Slots -> States \cup {NULL}] /\ users' \in [Slots -> States \cup {NULL}]
      /\ s \in States \ {"STOPPED", "CONNECT"} /\ NULL \notin States
    BY DEF IInv, TypeOK, Goto, Waiting, States, AliveStates, NULL
<1>2. TypeOK'
    BY <1>1 DEF IInv, TypeOK, countStateChange, targetVars
<1>3. NoCallAfterDeath'
    BY <1>1 DEF IInv, NoCallAfterDeath, TypeOK, Waiting
<1>4. DeadlistIsStopped'
    <2>1. CASE EarlyConnect
        BY <1>1, <2>1, BuriedSlots DEF IInv, DeadlistIsStopped, ReapedOnce, TypeOK
    <2>2. CASE ~EarlyConnect
        BY <1>1, <2>2 DEF IInv, DeadlistIsStopped, ReapedOnce, AliveStates
    <2> QED BY <2>1, <2>2
<1>5. DeadAreSilent'
    BY <1>1 DEF IInv, DeadAreSilent
<1>6. EmptyAfterReset' /\ NoCrash' /\ (loop = "corba" => ~Wake)'
    BY DEF EmptyAfterReset, NoCrash, IInv
<1>7. Counted'
    BY <1>1, MoveCounted DEF IInv, Moves
<1> QED BY <1>2, <1>3, <1>4, <1>5, <1>6, <1>7 DEF IInv

\* Stopping a user once keeps the invariant: the counters, the deadlist and
\* what is still to be called.
LEMMA StoppingKeeps ==
  ASSUME IInv, poller, pc # "reap",
         NEW u \in Slots, users[u] \in States, Stop(u),
         userDue' \subseteq userDue, u \notin userDue', polled' \subseteq polled,
         pc' \in Places \ {"crashed"},
         MayDieTwice \/ u \notin Buried(deadlist),
         MayDieTwice \/ pc' = "reap" \/ \A e \in polled' : e[1] # u,
         UNCHANGED <<targetVars, oldDead, poller, setting>>
  PROVE  IInv'
<1> USE DEF setting, Wake, EarlyConnect, MayDieTwice
<1>1. /\ users' = [users EXCEPT ![u] = "STOPPED"] /\ deadlist' = Append(deadlist, u)
      /\ countStateChange(users[u], "STOPPED")
      /\ users \in [Slots -> States \cup {NULL}] /\ users' \in [Slots -> States \cup {NULL}]
      /\ "STOPPED" \in States /\ NULL \notin States
      /\ deadlist \in Seq(Slots) /\ deadlist' \in Seq(Slots)
    BY DEF IInv, TypeOK, Stop, States, AliveStates, NULL
<1>2. TypeOK'
    BY <1>1 DEF IInv, TypeOK, countStateChange, targetVars
<1>3. NoCallAfterDeath'
    BY <1>1 DEF IInv, NoCallAfterDeath, TypeOK
<1>4. Buried(deadlist') = Buried(deadlist) \cup {u}
    BY <1>1, BuriedAppend
<1>5. DeadlistIsStopped'
    <2>1. (IF EarlyConnect
           THEN Buried(deadlist) \subseteq {v \in Slots : users[v] \in {"STOPPED", "CONNECTING"}}
           ELSE Buried(deadlist) = {v \in Slots : users[v] = "STOPPED"})'
        BY <1>1, <1>4 DEF IInv, DeadlistIsStopped
    <2>2. MayDieTwice \/ ReapedOnce
        BY DEF IInv, DeadlistIsStopped
    <2>3. MayDieTwice \/ ReapedOnce'
        BY <1>1, <2>2, OnceAppend
    <2> QED BY <2>1, <2>3 DEF DeadlistIsStopped
<1>6. DeadAreSilent'
    BY <1>4 DEF IInv, DeadAreSilent
<1>7. EmptyAfterReset' /\ NoCrash' /\ (loop = "corba" => ~Wake)'
    BY DEF EmptyAfterReset, NoCrash, IInv
<1>8. Counted'
    BY <1>1, MoveCounted DEF IInv, Moves
<1> QED BY <1>2, <1>3, <1>5, <1>6, <1>7, <1>8 DEF IInv

------------------------------------------------------------------------------
(***************************************************************************)
(* Reaping.                                                                *)
(***************************************************************************)
\* Only users that are counted as dead, or counted for good, are reaped.
LEMMA ReapCounted ==
  ASSUME IInv, users' = Reaped(users, deadlist), nInState' = nInState,
         UNCHANGED <<poller, setting>>
  PROVE  Counted'
<1> USE DEF setting, EarlyConnect
<1>1. SUFFICES ASSUME poller, NEW s \in AliveStates
               PROVE  /\ nInState[s] >= Cardinality(InState(users', s))
                      /\ EarlyConnect \/ nInState[s] = Cardinality(InState(users', s))
    BY DEF Counted
<1>2. NULL \notin AliveStates /\ "STOPPED" \notin AliveStates
    BY DEF NULL, AliveStates
<1>3. /\ nInState[s] \in Int
      /\ nInState[s] >= Cardinality(InState(users, s))
      /\ EarlyConnect \/ nInState[s] = Cardinality(InState(users, s))
    BY <1>1 DEF IInv, TypeOK, Counted, States
<1>4. CASE ~EarlyConnect
    <2>1. InState(users', s) = InState(users, s)
        BY <1>2, <1>4 DEF IInv, DeadlistIsStopped, InState, Reaped
    <2> QED BY <1>3, <1>4, <2>1, Zenon
<1>5. CASE EarlyConnect
    <2>1. InState(users', s) \in SUBSET InState(users, s)
        BY <1>2 DEF InState, Reaped
    <2>2. Cardinality(InState(users', s)) <= Cardinality(InState(users, s))
        BY <2>1, InStateFinite, FS_Subset
    <2>3. Cardinality(InState(users', s)) \in Nat /\ Cardinality(InState(users, s)) \in Nat
        BY InStateFinite
    <2> QED BY <1>3, <1>5, <2>2, <2>3
<1> QED BY <1>4, <1>5

\* Emptying the deadlist keeps the invariant.
LEMMA BuryKeeps ==
  ASSUME IInv, NEW next \in Places \ {"crashed"}, Bury(next),
         polled' \subseteq Slots \X {"cfd", "dfd"},
         \A e \in polled' : users'[e[1]] \in Waiting \cup {"STOPPED"},
         ~poller => polled' = {} /\ next = "unlocked",
         oldDead' \in Int,
         UNCHANGED <<nInState, targetVars, wake, poller, setting>>
  PROVE  IInv'
<1> USE DEF setting, Wake, EarlyConnect, MayDieTwice
<1>1. /\ users' = Reaped(users, deadlist) /\ deadlist' = <<>>
      /\ userDue' = userDue \ Buried(deadlist)
      /\ users \in [Slots -> States \cup {NULL}] /\ users' \in [Slots -> States \cup {NULL}]
      /\ deadlist \in Seq(Slots)
      /\ Buried(deadlist') = {}
    BY BuriedNobody DEF IInv, TypeOK, Bury, Reaped
<1>2. MayDieTwice \/ pc' = next
    BY <1>1, OnceCounts DEF IInv, DeadlistIsStopped, Bury, AfterReap
<1>3. pc' \in {next, "crashed"}
    BY DEF Bury, AfterReap
<1>4. TypeOK'
    BY <1>1, <1>3 DEF IInv, TypeOK, targetVars, Places
<1>5. NoCallAfterDeath'
    BY <1>1 DEF IInv, NoCallAfterDeath, TypeOK, Reaped
<1>6. DeadlistIsStopped'
    BY <1>1 DEF IInv, DeadlistIsStopped, ReapedOnce, Reaped, NULL
<1>7. DeadAreSilent'
    BY <1>1 DEF DeadAreSilent
<1>8. EmptyAfterReset' /\ NoCrash' /\ (loop = "corba" => ~Wake)'
    BY <1>1, <1>2, <1>3 DEF IInv, EmptyAfterReset, NoCrash, Reaped
<1>9. Counted'
    BY <1>1, ReapCounted
<1> QED BY <1>4, <1>5, <1>6, <1>7, <1>8, <1>9 DEF IInv

------------------------------------------------------------------------------
(***************************************************************************)
(* Steps that move nobody: the place of the thread, the targets, the wake  *)
(* up call and the events of the poller may change.                        *)
(***************************************************************************)
LEMMA OthersKeep ==
  ASSUME IInv, UNCHANGED <<platoonVars, userDue, oldDead, poller, setting>>,
         {nuserTarget', nconnectingTarget'} \subseteq Nat,
         lastConnecting' \in {"CONNECT", "CONNECTING"}, wake' \in BOOLEAN,
         pc' \in Places \ {"crashed"},
         ~poller => pc' = "unlocked",
         polled' \subseteq polled \/ (poller /\ loop = "corba" /\ polled' = Open(users)),
         pc = "reap" => pc' = "reap"
  PROVE  IInv'
<1> USE DEF setting, Wake, EarlyConnect, MayDieTwice, platoonVars
<1>1. polled' \subseteq Slots \X {"cfd", "dfd"}
    BY DEF IInv, TypeOK, Open
<1>2. TypeOK'
    BY <1>1 DEF IInv, TypeOK
<1>3. \A e \in Open(users) : users[e[1]] \in Waiting
    BY DEF Open, Waiting
<1>4. NoCallAfterDeath'
    BY <1>3 DEF IInv, NoCallAfterDeath
<1>5. DeadlistIsStopped'
    BY DEF IInv, DeadlistIsStopped, ReapedOnce
<1>6. DeadAreSilent'
    <2>1. CASE polled' \subseteq polled
        BY <2>1 DEF IInv, DeadAreSilent
    <2>2. CASE polled' = Open(users) /\ ~EarlyConnect
        BY <1>3, <2>2 DEF IInv, DeadAreSilent, DeadlistIsStopped, Waiting
    <2>3. CASE polled' = Open(users) /\ EarlyConnect /\ loop = "corba"
        BY <2>3 DEF DeadAreSilent
    <2> QED BY <2>1, <2>2, <2>3
<1>7. EmptyAfterReset' /\ NoCrash' /\ (loop = "corba" => ~Wake)'
    BY DEF IInv, EmptyAfterReset, NoCrash
<1>8. Counted'
    BY DEF IInv, Counted
<1> QED BY <1>2, <1>4, <1>5, <1>6, <1>7, <1>8 DEF IInv

------------------------------------------------------------------------------
(***************************************************************************)
(* Where the search for a slot begins.                                     *)
(***************************************************************************)
LEMMA DisjointSum ==
  ASSUME NEW S, NEW T, IsFiniteSet(S), IsFiniteSet(T), S \cap T = {}
  PROVE  /\ IsFiniteSet(S \cup T)
         /\ Cardinality(S \cup T) = Cardinality(S) + Cardinality(T)
<1>1. /\ IsFiniteSet(S \cup T)
      /\ Cardinality(S \cup T) = Cardinality(S) + Cardinality(T) - Cardinality(S \cap T)
    BY FS_Union
<1>2. Cardinality(S \cap T) = Cardinality({})
    BY Zenon
<1>3. Cardinality({}) = 0
    BY FS_EmptySet
<1>4. Cardinality(S) \in Nat /\ Cardinality(T) \in Nat
    BY FS_CardinalityType
<1> QED BY <1>1, <1>2, <1>3, <1>4

\* Where the counters are right, they do not count more users than there are
\* slots.
LEMMA CountedFit ==
  ASSUME IInv, poller, ~EarlyConnect
  PROVE  nalive <= MAXUSERS
<1> DEFINE In(s) == InState(users, s)
           A == In("CONNECT") \cup In("CONNECTING")
           B == In("START_TYPE") \cup In("FINISH_TYPE")
           C == In("GET") \cup In("GETTING")
<1>1. \A s : IsFiniteSet(In(s)) /\ Cardinality(In(s)) \in Nat
    BY InStateFinite
<1>2. IsFiniteSet(A) /\ Cardinality(A) = Cardinality(In("CONNECT")) + Cardinality(In("CONNECTING"))
    <2>1. In("CONNECT") \cap In("CONNECTING") = {}
        BY DEF InState
    <2> HIDE DEF In
    <2> QED BY <1>1, <2>1, DisjointSum
<1>3. IsFiniteSet(B) /\ Cardinality(B) = Cardinality(In("START_TYPE")) + Cardinality(In("FINISH_TYPE"))
    <2>1. In("START_TYPE") \cap In("FINISH_TYPE") = {}
        BY DEF InState
    <2> HIDE DEF In
    <2> QED BY <1>1, <2>1, DisjointSum
<1>4. IsFiniteSet(C) /\ Cardinality(C) = Cardinality(In("GET")) + Cardinality(In("GETTING"))
    <2>1. In("GET") \cap In("GETTING") = {}
        BY DEF InState
    <2> HIDE DEF In
    <2> QED BY <1>1, <2>1, DisjointSum
<1>5. A \cap B = {} /\ (A \cup B) \cap C = {} /\ (A \cup B) \cup C \in SUBSET Slots
    BY DEF InState
<1>6. \A s \in AliveStates : nInState[s] = Cardinality(In(s))
    BY DEF IInv, Counted
<1> HIDE DEF A, B, C, In
<1>7. /\ IsFiniteSet(A \cup B)
      /\ Cardinality(A \cup B) = Cardinality(A) + Cardinality(B)
    BY <1>2, <1>3, <1>5, DisjointSum
<1>8. Cardinality((A \cup B) \cup C) = Cardinality(A \cup B) + Cardinality(C)
    BY <1>4, <1>5, <1>7, DisjointSum
<1>9. IsFiniteSet(Slots) /\ Cardinality(Slots) = MAXUSERS
    BY FS_Interval, PlatoonAssumption DEF Slots
<1>10. Cardinality((A \cup B) \cup C) <= Cardinality(Slots)
    BY <1>5, <1>9, FS_Subset
<1>11. nalive = Cardinality((A \cup B) \cup C)
    BY <1>1, <1>2, <1>3, <1>4, <1>6, <1>7, <1>8 DEF nalive, AliveStates
<1> QED BY <1>9, <1>10, <1>11

\* Only failing logins and a target that is greater than the table can take
\* the search out of it.
LEMMA SearchStays ==
  ASSUME IInv
  PROVE  SearchStaysInside
<1> SUFFICES ASSUME pc = "starting", MayStart, ~(EarlyConnect /\ nuserTarget > MAXUSERS)
             PROVE  nalive <= MAXUSERS
    BY DEF SearchStaysInside, SearchIsInside, BeginsInside
<1>1. poller /\ nuserTarget \in Nat /\ nalive < nuserTarget /\ nalive \in Int
    BY DEF IInv, EmptyAfterReset, TypeOK, MayStart, nalive, States, AliveStates
<1>2. CASE EarlyConnect
    BY <1>1, <1>2, PlatoonAssumption
<1>3. CASE ~EarlyConnect
    BY <1>1, <1>3, CountedFit
<1> QED BY <1>2, <1>3

\* The benchmark's target stays what it was.
LEMMA InitBenchTargets == Init => BenchTargets
<1> SUFFICES ASSUME Init, loop = "bench" PROVE nuserTarget <= MAXUSERS /\ pc \notin {"unlocked", "blocked"}
    BY DEF BenchTargets
<1>1. nuserTarget \in {t \in UserTargets : t <= MAXUSERS} /\ pc = "run"
    BY Zenon DEF Init
<1> QED BY <1>1

LEMMA NextBenchTargets == BenchTargets /\ [Next]_vars => BenchTargets'
<1> SUFFICES ASSUME BenchTargets, [Next]_vars, loop' = "bench"
             PROVE  nuserTarget' <= MAXUSERS /\ pc' \notin {"unlocked", "blocked"}
    BY DEF BenchTargets
<1>1. loop' = loop
    BY DEF Next, vars, mainVars, setting, set_nuserTarget, set_nconnectingTarget,
           set_lastConnectingState, SkedCallback, StartUser, StartUserOutside,
           SkedCallbackReturn, UserCallback, PipeTimeout, PipeWakeReads, PipeWakeFinishes,
           PipeWakeStops, EventIgnored, CommandSucceeds, CommandFails, RunAllReturn,
           ReapAfterEvent, Iterate, TestOver, PerformWork, WaitForEvents, EventAtLast,
           GetStatus, Reset, InitAgain, Ended
<1>2. nuserTarget <= MAXUSERS /\ pc \notin {"unlocked", "blocked"} /\ loop = "bench"
    BY <1>1 DEF BenchTargets
<1>3. nuserTarget' = nuserTarget
    BY <1>2 DEF Next, vars, targetVars, set_nuserTarget, set_nconnectingTarget,
           set_lastConnectingState, SkedCallback, StartUser, StartUserOutside,
           SkedCallbackReturn, UserCallback, PipeTimeout, PipeWakeReads, PipeWakeFinishes,
           PipeWakeStops, EventIgnored, CommandSucceeds, CommandFails, RunAllReturn,
           ReapAfterEvent, Iterate, TestOver, PerformWork, WaitForEvents, EventAtLast,
           GetStatus, Reset, InitAgain, Ended
<1>4. pc' \notin {"unlocked", "blocked"}
    <2>2. ASSUME NEW next, Bury(next), next \notin {"unlocked", "blocked"}
          PROVE  pc' \notin {"unlocked", "blocked"}
        BY <2>2 DEF Bury, AfterReap
    <2>3. CASE \/ ReapAfterEvent \/ Iterate \/ \E u \in Slots : PipeWakeReads(u)
        BY <2>2, <2>3 DEF ReapAfterEvent, Iterate, PipeWakeReads
    <2>4. CASE ~(\/ ReapAfterEvent \/ Iterate \/ \E u \in Slots : PipeWakeReads(u))
        BY <1>2, <2>4 DEF Next, vars, WaitForEvents, set_nuserTarget, set_nconnectingTarget,
           set_lastConnectingState, SkedCallback, StartUser, StartUserOutside,
           SkedCallbackReturn, UserCallback, PipeTimeout, PipeWakeFinishes,
           PipeWakeStops, EventIgnored, CommandSucceeds, CommandFails, TakeEvent, RunAllReturn,
           TestOver, PerformWork, EventAtLast, GetStatus, Reset, InitAgain, Ended
    <2> QED BY <2>3, <2>4
<1> QED BY <1>2, <1>3, <1>4

------------------------------------------------------------------------------
(***************************************************************************)
(* The invariant is inductive.                                             *)
(***************************************************************************)
LEMMA InitIInv == Init => IInv
<1> SUFFICES ASSUME Init PROVE IInv
    OBVIOUS
<1> USE PlatoonAssumption DEF Init, setting, Wake, EarlyConnect, MayDieTwice
<1>1. TypeOK
    <2>1. users \in [Slots -> States \cup {NULL}] /\ nInState \in [States -> Int]
        BY DEF States
    <2>5. deadlist \in Seq(Slots)
        OBVIOUS
    <2>2. /\ nuserTarget \in Nat /\ nconnectingTarget \in Nat
          /\ lastConnecting \in {"CONNECT", "CONNECTING"}
        <3>1. /\ nuserTarget \in UserTargets \cup {0}
              /\ nconnectingTarget \in ConnectingTargets \cup {1}
              /\ lastConnecting \in {"CONNECT", "CONNECTING"}
            BY Zenon
        <3>2. UserTargets \subseteq Nat /\ ConnectingTargets \subseteq Nat
            BY PlatoonAssumption
        <3> QED BY ONLY <3>1, <3>2
    <2>3. wake \in BOOLEAN /\ poller \in BOOLEAN
        BY Zenon
    <2>4. pc \in Places /\ oldDead \in Int /\ setting \in Loops \X Situations
        BY DEF Places
    <2> QED BY <2>1, <2>2, <2>3, <2>4, <2>5 DEF TypeOK
<1>2. Buried(deadlist) = {}
    BY BuriedNobody
<1>3. NoCallAfterDeath /\ DeadlistIsStopped /\ DeadAreSilent /\ EmptyAfterReset /\ NoCrash
    BY <1>2 DEF NoCallAfterDeath, DeadlistIsStopped, ReapedOnce, DeadAreSilent,
                EmptyAfterReset, NoCrash, NULL
<1>4. Counted
    <2>1. ASSUME NEW s \in AliveStates
          PROVE  nInState[s] = 0 /\ Cardinality(InState(users, s)) = 0
        <3>1. InState(users, s) = {}
            BY DEF InState, AliveStates, NULL
        <3>2. Cardinality(InState(users, s)) = Cardinality({})
            BY <3>1, Zenon
        <3> QED BY <3>2, FS_EmptySet DEF States
    <2> QED BY <2>1 DEF Counted
<1> QED BY <1>1, <1>3, <1>4 DEF IInv

\* A user is started in a free slot.
LEMMA StartKeeps ==
  ASSUME IInv, StartUser
  PROVE  IInv'
<1> USE DEF setting, Wake, EarlyConnect, MayDieTwice, mainVars
<1> DEFINE u == FirstFreeSlot
<1>0. nalive \in Int
    BY DEF IInv, TypeOK, nalive, States, AliveStates
<1>1. u \in Slots /\ users[u] = NULL
    BY <1>0, FirstFreeSlotIsFree DEF StartUser, FreeSlots
<1>2. /\ users' = [users EXCEPT ![u] = "CONNECT"] /\ countStateChange(NULL, "CONNECT")
      /\ userDue' = userDue \cup {u} /\ pc' = "starting" /\ poller
      /\ UNCHANGED <<deadlist, targetVars, mainVars>>
    BY DEF StartUser, IInv, EmptyAfterReset
<1> HIDE DEF u
<1>3. /\ users \in [Slots -> States \cup {NULL}] /\ users' \in [Slots -> States \cup {NULL}]
      /\ "CONNECT" \in States
    BY <1>1, <1>2 DEF IInv, TypeOK, States, AliveStates
<1>4. TypeOK'
    BY <1>1, <1>2, <1>3 DEF IInv, TypeOK, countStateChange, targetVars, Places
<1>5. NoCallAfterDeath'
    BY <1>1, <1>2, <1>3 DEF IInv, NoCallAfterDeath, TypeOK, Waiting, NULL
<1>6. DeadlistIsStopped'
    BY <1>1, <1>2, <1>3 DEF IInv, DeadlistIsStopped, ReapedOnce, NULL
<1>7. DeadAreSilent'
    BY <1>2 DEF IInv, DeadAreSilent, StartUser
<1>8. EmptyAfterReset' /\ NoCrash' /\ (loop = "corba" => ~Wake)'
    BY <1>2 DEF IInv, EmptyAfterReset, NoCrash
<1>9. Counted'
    BY <1>1, <1>2, <1>3, MoveCounted DEF IInv, Moves
<1> QED BY <1>4, <1>5, <1>6, <1>7, <1>8, <1>9 DEF IInv

\* robouser_t::skedCallback, with its three outcomes.
LEMMA CallbackKeeps ==
  ASSUME IInv, NEW u \in Slots, UserCallback(u)
  PROVE  IInv'
<1> USE DEF mainVars
<1>1. /\ pc = "run" /\ pc' = "run" /\ poller
      /\ users[u] = "CONNECT" /\ u \notin Buried(deadlist)
      /\ userDue' = userDue \ {u}
      /\ \A e \in polled : e[1] # u
      /\ UNCHANGED <<targetVars, mainVars>>
    BY DEF UserCallback, IInv, NoCallAfterDeath, DeadlistIsStopped, EmptyAfterReset, Waiting
<1>2. CASE UserConnects(u)
    BY <1>1, <1>2, GoingOnKeeps DEF UserConnects, Waiting, AliveStates, Places
<1>3. CASE UserConnectFails(u)
    BY <1>1, <1>3, StoppingKeeps DEF UserConnectFails, States, AliveStates, Places
<1>4. CASE UserLoginFails(u)
    <2> USE DEF setting, Wake, EarlyConnect, MayDieTwice
    <2>1. /\ users' = [users EXCEPT ![u] = "CONNECTING"] /\ deadlist' = Append(deadlist, u)
          /\ countStateChange(users[u], "CONNECTING") /\ EarlyConnect
          /\ users \in [Slots -> States \cup {NULL}] /\ users' \in [Slots -> States \cup {NULL}]
          /\ "CONNECTING" \in States /\ NULL \notin States
          /\ deadlist \in Seq(Slots) /\ deadlist' \in Seq(Slots)
        BY <1>4 DEF UserLoginFails, IInv, TypeOK, States, AliveStates, NULL
    <2>2. TypeOK'
        BY <1>1, <2>1 DEF IInv, TypeOK, countStateChange, targetVars
    <2>3. NoCallAfterDeath'
        BY <1>1, <2>1 DEF IInv, NoCallAfterDeath, TypeOK
    <2>4. Buried(deadlist') = Buried(deadlist) \cup {u}
        BY <2>1, BuriedAppend
    <2>5. MayDieTwice \/ ReapedOnce'
        BY <1>1, <2>1, OnceAppend DEF IInv, DeadlistIsStopped
    <2>6. DeadlistIsStopped'
        BY <1>1, <2>1, <2>4, <2>5 DEF IInv, DeadlistIsStopped
    <2>7. DeadAreSilent'
        BY <1>1, <2>4 DEF IInv, DeadAreSilent
    <2>8. EmptyAfterReset' /\ NoCrash' /\ (loop = "corba" => ~Wake)'
        BY <1>1 DEF IInv, EmptyAfterReset, NoCrash
    <2>9. Counted'
        BY <1>1, <2>1, MoveCounted DEF IInv, Moves
    <2> QED BY <2>2, <2>3, <2>6, <2>7, <2>8, <2>9 DEF IInv
<1> QED BY <1>2, <1>3, <1>4 DEF UserCallback

\* Reaping in the middle of the loop.
LEMMA ReapKeeps ==
  ASSUME IInv, NEW next \in Places \ {"crashed"}, Bury(next),
         ~poller => next = "unlocked", polled' = Without(Buried(deadlist)),
         UNCHANGED <<nInState, targetVars, wake, oldDead, poller, setting>>
  PROVE  IInv'
<1>1. polled' \subseteq polled /\ polled' \subseteq Slots \X {"cfd", "dfd"} /\ oldDead' \in Int
    BY DEF Without, IInv, TypeOK
<1>2. ASSUME NEW e \in polled'
      PROVE  users'[e[1]] \in Waiting \cup {"STOPPED"}
    BY <1>1 DEF Without, Bury, Reaped, IInv, NoCallAfterDeath
<1>3. ~poller => polled' = {}
    BY <1>1 DEF IInv, NoCallAfterDeath
<1> QED BY <1>1, <1>2, <1>3, BuryKeeps

\* Reaping at the top of the benchmark's loop.
LEMMA IterateKeeps ==
  ASSUME IInv, Iterate
  PROVE  IInv'
<1> DEFINE next == IF TestFailed THEN "failed" ELSE "run"
<1>1. /\ poller /\ Bury(next) /\ polled' = Open(users') /\ oldDead' = ndead
      /\ UNCHANGED <<nInState, targetVars, wake, poller, setting>>
    BY DEF Iterate, Bury, IInv, EmptyAfterReset
<1>2. next \in Places \ {"crashed"}
    BY DEF Places
<1>3. oldDead' \in Int
    BY <1>1 DEF ndead, IInv, TypeOK, States
<1>4. polled' \subseteq Slots \X {"cfd", "dfd"}
      /\ \A e \in polled' : users'[e[1]] \in Waiting \cup {"STOPPED"}
    BY <1>1 DEF Open, Waiting
<1> HIDE DEF next
<1> QED BY <1>1, <1>2, <1>3, <1>4, BuryKeeps

\* The events of the users.
LEMMA EventKeeps ==
  ASSUME IInv, NEW u \in Slots, NEW fd \in {"cfd", "dfd"},
         EventIgnored(u, fd) \/ CommandSucceeds(u, fd) \/ CommandFails(u, fd)
  PROVE  IInv'
<1>1. /\ pc = "drain" /\ pc' = "reap" /\ poller /\ <<u, fd>> \in polled
      /\ polled' \subseteq polled /\ users[u] \in Waiting \cup {"STOPPED"} /\ u \notin userDue
      /\ UNCHANGED <<targetVars, userDue, oldDead, poller, setting>>
    BY DEF EventIgnored, CommandSucceeds, CommandFails, TakeEvent, IInv, EmptyAfterReset,
           NoCallAfterDeath, Waiting
<1>2. CASE EventIgnored(u, fd)
    BY <1>1, <1>2, OthersKeep DEF EventIgnored, TakeEvent, IInv, TypeOK, Places, targetVars
<1>3. CASE CommandSucceeds(u, fd)
    <2>1. AfterSuccess(users[u]) \in Waiting
        BY <1>3 DEF CommandSucceeds, AfterSuccess, Waiting
    <2> QED BY <1>1, <1>3, <2>1, GoingOnKeeps
            DEF CommandSucceeds, Waiting, AliveStates, Places
<1>4. CASE CommandFails(u, fd)
    <2>1. MayDieTwice \/ u \notin Buried(deadlist)
        BY <1>1 DEF IInv, DeadAreSilent
    <2> QED BY <1>1, <1>4, <2>1, StoppingKeeps
            DEF CommandFails, Waiting, States, AliveStates, Places
<1> QED BY <1>2, <1>3, <1>4

\* reset() and init().
LEMMA ResetKeeps ==
  ASSUME IInv, Reset \/ InitAgain
  PROVE  IInv'
<1> USE DEF setting, Wake, EarlyConnect, MayDieTwice, mainVars
<1>1. CASE Reset
    <2>1. userDue' = {}
        BY <1>1 DEF Reset, IInv, NoCallAfterDeath, TypeOK, NULL
    <2>2. /\ users' = [u \in Slots |-> NULL] /\ deadlist' = <<>> /\ Buried(deadlist') = {}
          /\ wake' = FALSE /\ polled' = {} /\ poller' = FALSE
          /\ pc' = AfterReap("unlocked")
          /\ UNCHANGED <<nInState, targetVars, oldDead, setting>>
        BY <1>1, <2>1, BuriedNobody DEF Reset
    <2>3. pc' \in {"unlocked", "crashed"} /\ (MayDieTwice \/ pc' = "unlocked")
        BY <2>2, OnceCounts DEF IInv, TypeOK, DeadlistIsStopped, AfterReap
    <2>4. TypeOK'
        <3>1. users' \in [Slots -> States \cup {NULL}] /\ deadlist' \in Seq(Slots)
            BY <2>2
        <3> QED BY <2>1, <2>2, <2>3, <3>1 DEF IInv, TypeOK, targetVars, Places
    <2> QED BY <2>1, <2>2, <2>3, <2>4
            DEF IInv, NoCallAfterDeath, DeadlistIsStopped, ReapedOnce, DeadAreSilent,
                EmptyAfterReset, Counted, NoCrash, NULL
<1>2. CASE InitAgain
    <2>1. TypeOK'
        BY <1>2 DEF InitAgain, IInv, TypeOK
    <2>2. NoCallAfterDeath' /\ DeadlistIsStopped' /\ DeadAreSilent' /\ EmptyAfterReset' /\ NoCrash'
          /\ (loop = "corba" => ~Wake)'
        BY <1>2 DEF InitAgain, IInv, NoCallAfterDeath, DeadlistIsStopped, ReapedOnce,
                    DeadAreSilent, EmptyAfterReset, NoCrash
    <2>3. ASSUME NEW s \in AliveStates
          PROVE  nInState'[s] = 0 /\ Cardinality(InState(users', s)) = 0
        <3>1. InState(users', s) = {}
            BY <1>2 DEF InitAgain, IInv, EmptyAfterReset, InState, AliveStates, NULL
        <3>2. Cardinality(InState(users', s)) = Cardinality({})
            BY <3>1, Zenon
        <3> QED BY <1>2, <3>2, FS_EmptySet DEF InitAgain, States
    <2>4. Counted'
        BY <2>3 DEF Counted
    <2> QED BY <2>1, <2>2, <2>4 DEF IInv
<1> QED BY <1>1, <1>2

\* Every step keeps the invariant.
LEMMA NextIInv == IInv /\ BenchTargets /\ [Next]_vars => IInv'
<1> SUFFICES ASSUME IInv, BenchTargets, [Next]_vars PROVE IInv'
    OBVIOUS
<1> USE DEF mainVars
<1>0. /\ TypeOK /\ NoCallAfterDeath /\ DeadlistIsStopped /\ EmptyAfterReset /\ DeadAreSilent
    BY DEF IInv
<1>1. CASE UNCHANGED vars
    BY <1>1 DEF vars, platoonVars, targetVars, setting, IInv, TypeOK, NoCallAfterDeath,
           DeadlistIsStopped, ReapedOnce, DeadAreSilent, EmptyAfterReset, Counted, NoCrash,
           MayDieTwice, Wake, EarlyConnect
<1>2. ASSUME NEW t \in UserTargets, set_nuserTarget(t) PROVE IInv'
    BY <1>0, <1>2, OthersKeep, PlatoonAssumption DEF set_nuserTarget, TypeOK, Places
<1>3. ASSUME NEW t \in ConnectingTargets, set_nconnectingTarget(t) PROVE IInv'
    BY <1>0, <1>3, OthersKeep, PlatoonAssumption DEF set_nconnectingTarget, TypeOK, Places
<1>4. ASSUME NEW s \in {"CONNECT_START", "CONNECT_FINISH"}, set_lastConnectingState(s)
      PROVE  IInv'
    BY <1>0, <1>4, OthersKeep DEF set_lastConnectingState, TypeOK, Places
<1>5. CASE SkedCallback
    BY <1>0, <1>5, OthersKeep DEF SkedCallback, TypeOK, Places, targetVars, EmptyAfterReset
<1>6. CASE StartUser
    BY <1>6, StartKeeps
<1>7. CASE SkedCallbackReturn
    BY <1>0, <1>7, OthersKeep DEF SkedCallbackReturn, TypeOK, Places, targetVars, EmptyAfterReset
<1>8. ASSUME NEW u \in Slots, UserCallback(u) PROVE IInv'
    BY <1>8, CallbackKeeps
<1>9. ASSUME NEW u \in Slots, PipeTimeout(u) PROVE IInv'
    <2>1. /\ poller /\ pc = "run" /\ pc' = "run" /\ Stop(u)
          /\ users[u] \in {"CONNECTING", "GETTING"} /\ u \notin userDue
          /\ polled' = Without({u})
          /\ UNCHANGED <<targetVars, userDue, oldDead, poller, setting>>
        BY <1>0, <1>9 DEF PipeTimeout, EmptyAfterReset, NoCallAfterDeath
    <2>2. MayDieTwice \/ u \notin Buried(deadlist)
        <3>1. loop \in {"bench", "corba"}
            BY <1>0, PlatoonAssumption DEF TypeOK, setting
        <3>2. CASE EarlyConnect
            BY <1>9, <3>1, <3>2 DEF PipeTimeout, MayDieTwice
        <3>3. CASE ~EarlyConnect
            BY <1>0, <2>1, <3>3 DEF DeadlistIsStopped
        <3> QED BY <3>2, <3>3
    <2> QED BY <2>1, <2>2, StoppingKeeps DEF Without, States, AliveStates, Places
<1>10. ASSUME NEW u \in Slots, PipeWakeReads(u) PROVE IInv'
    BY <1>0, <1>10, ReapKeeps DEF PipeWakeReads, Places, EmptyAfterReset
<1>11. ASSUME NEW u \in Slots, PipeWakeFinishes(u) PROVE IInv'
    BY <1>0, <1>11, GoingOnKeeps
       DEF PipeWakeFinishes, EmptyAfterReset, NoCallAfterDeath, DeadlistIsStopped, Waiting,
           AliveStates, Places
<1>12. ASSUME NEW u \in Slots, PipeWakeStops(u) PROVE IInv'
    BY <1>0, <1>12, StoppingKeeps
       DEF PipeWakeStops, EmptyAfterReset, NoCallAfterDeath, MayDieTwice, States, AliveStates,
           Places
<1>13. ASSUME NEW u \in Slots, NEW fd \in {"cfd", "dfd"}, EventIgnored(u, fd) PROVE IInv'
    BY <1>13, EventKeeps
<1>14. ASSUME NEW u \in Slots, NEW fd \in {"cfd", "dfd"}, CommandSucceeds(u, fd) PROVE IInv'
    BY <1>14, EventKeeps
<1>15. ASSUME NEW u \in Slots, NEW fd \in {"cfd", "dfd"}, CommandFails(u, fd) PROVE IInv'
    BY <1>15, EventKeeps
<1>16. CASE RunAllReturn
    BY <1>0, <1>16, OthersKeep DEF RunAllReturn, TypeOK, Places, targetVars, EmptyAfterReset
<1>17. CASE ReapAfterEvent
    BY <1>0, <1>17, ReapKeeps DEF ReapAfterEvent, Places, EmptyAfterReset
<1>18. CASE Iterate
    BY <1>18, IterateKeeps
<1>19. CASE TestOver
    BY <1>0, <1>19, OthersKeep DEF TestOver, TypeOK, Places, targetVars, EmptyAfterReset
<1>20. CASE PerformWork
    BY <1>0, <1>20, OthersKeep DEF PerformWork, TypeOK, Places, targetVars, EmptyAfterReset
<1>21. CASE WaitForEvents
    BY <1>0, <1>21, OthersKeep DEF WaitForEvents, TypeOK, Places, targetVars, EmptyAfterReset
<1>22. CASE EventAtLast
    BY <1>0, <1>22, OthersKeep DEF EventAtLast, TypeOK, Places, targetVars, EmptyAfterReset
<1>23. CASE GetStatus
    BY <1>0, <1>23, ReapKeeps DEF GetStatus, Places
<1>24. CASE Reset
    BY <1>24, ResetKeeps
<1>25. CASE InitAgain
    BY <1>25, ResetKeeps
<1>26. CASE Ended
    BY <1>1, <1>26 DEF Ended
<1>27. CASE StartUserOutside
    <2>1. EarlyConnect /\ nuserTarget > MAXUSERS /\ nuserTarget \in Nat
        BY <1>0, <1>27, SearchStays
           DEF StartUserOutside, SearchStaysInside, SearchIsInside, TypeOK
    <2>2. loop = "corba"
        <3>1. loop \in {"bench", "corba"}
            BY <1>0, PlatoonAssumption DEF TypeOK, setting
        <3>2. loop # "bench"
            BY <2>1, PlatoonAssumption DEF BenchTargets
        <3> QED BY <3>1, <3>2
    <2>3. MayDieTwice
        BY <2>1, <2>2 DEF MayDieTwice
    <2> QED BY <1>27, <2>3
            DEF StartUserOutside, platoonVars, targetVars, setting, IInv, TypeOK, Places,
                NoCallAfterDeath, DeadlistIsStopped, ReapedOnce, DeadAreSilent,
                EmptyAfterReset, Counted, NoCrash, MayDieTwice, Wake, EarlyConnect
<1> QED
    BY <1>1, <1>2, <1>3, <1>4, <1>5, <1>6, <1>7, <1>8, <1>9, <1>10, <1>11, <1>12, <1>13,
       <1>14, <1>15, <1>16, <1>17, <1>18, <1>19, <1>20, <1>21, <1>22, <1>23, <1>24, <1>25,
       <1>26, <1>27 DEF Next

(***************************************************************************)
(* For any number of slots and any targets, in both loops:                 *)
(***************************************************************************)
\* The invariant holds.
LEMMA Invariance == Spec => [](IInv /\ BenchTargets)
    BY InitIInv, NextIInv, InitBenchTargets, NextBenchTargets, PTL DEF Spec

\* every variable has its type;
THEOREM PlatoonTypes == Spec => []TypeOK
<1>1. IInv => TypeOK
    BY DEF IInv
<1> QED BY <1>1, Invariance, PTL

\* the search for a slot does not leave m_users, unless logins fail at once and
\* the controller asks for more users than there are slots (startUser);
THEOREM SearchesStayInside == Spec => []SearchStaysInside
    BY SearchStays, Invariance, PTL

\* the counters that getStatus adds up agree with the users there are
\* (countStateChange, through starts, stops and reaps; Platoon.cc);
THEOREM CountersAreRight == Spec => []CountsAgree
<1>1. IInv => CountsAgree
    BY DEF IInv, Counted, CountsAgree, CountsAgreeAlways, InState
<1> QED BY <1>1, Invariance, PTL

\* reap() deletes the users that stop() gave up, all of them, nobody else, and
\* each once;
THEOREM TheDeadAreBuried == Spec => []DeadlistIsStopped
<1>1. IInv => DeadlistIsStopped
    BY DEF IInv
<1> QED BY <1>1, Invariance, PTL

\* neither the scheduler nor the poller calls a user that was deleted;
THEOREM TheDeadAreNotCalled == Spec => []NoCallAfterDeath
<1>1. IInv => NoCallAfterDeath
    BY DEF IInv
<1> QED BY <1>1, Invariance, PTL

\* and no user is deleted twice, nor does reset() find anything left in the
\* scheduler, unless a user may be stopped twice before it is reaped.
THEOREM NobodyDiesTwice == Spec => []NoCrash
<1>1. IInv => NoCrash
    BY DEF IInv
<1> QED BY <1>1, Invariance, PTL

------------------------------------------------------------------------------
(***************************************************************************)
(* The refinement. What getStatus tells depends on the counters, the       *)
(* targets and whether the platoon is running.                             *)
(***************************************************************************)
LEMMA SameBar ==
  ASSUME UNCHANGED <<nInState, targetVars, poller>>
  PROVE  platoonBar' = platoonBar
BY DEF targetVars, platoonBar, nalive, ndead

\* A state some user is in is counted.
LEMMA CountedOnce ==
  ASSUME IInv, poller, NEW u \in Slots, users[u] \in AliveStates
  PROVE  nInState[users[u]] >= 1
<1> DEFINE s == users[u]
           S == InState(users, s)
<1>1. IsFiniteSet(S) /\ Cardinality(S) \in Nat
    BY InStateFinite
<1>2. S # {}
    BY DEF InState
<1>3. Cardinality(S) # 0
    BY <1>1, <1>2, FS_EmptySet
<1>4. nInState[s] >= Cardinality(S) /\ nInState[s] \in Int
    BY DEF IInv, Counted, TypeOK, States
<1> QED BY <1>1, <1>3, <1>4

\* No counter of users alive is negative while the poller exists.
LEMMA CountersNatural ==
  ASSUME IInv, poller, NEW s \in AliveStates
  PROVE  nInState[s] \in Nat
<1>1. nInState[s] >= Cardinality(InState(users, s)) /\ nInState[s] \in Int
    BY DEF IInv, Counted, TypeOK, States
<1> QED BY <1>1, InStateFinite

\* The records PlatoonAbs.tla is about.
PlatoonRecords ==
    [running : BOOLEAN, target : Nat, ctarget : Nat, last : {"CONNECT", "CONNECTING"},
     connect : Int, connecting : Int, up : Int, dead : Int,
     lost : {Forgotten}, drift : {Forgotten}]

\* Nobody is forgotten by a platoon whose init() comes after its reset().
LEMMA NobodyForgotten == Abs!Nobody = Forgotten
<1>1. Abs!Alive \cup {"dead"} = {"connect", "connecting", "up", "dead"}
    BY DEF Abs!Alive
<1> QED BY <1>1 DEF Abs!Nobody, Forgotten

LEMMA NoneForgotten ==
  /\ Abs!None \in PlatoonRecords
  /\ Abs!None.connect = 0 /\ Abs!None.connecting = 0
  /\ Abs!None.up = 0 /\ Abs!None.dead = 0
  /\ Abs!None.target = 0 /\ Abs!None.ctarget = 1
  /\ Abs!None.last = "CONNECTING"
BY NobodyForgotten DEF Abs!None, PlatoonRecords

\* The counters have not drifted.
LEMMA NoDrift ==
  ASSUME NEW p \in PlatoonRecords
  PROVE  /\ Abs!nconnecting(p) = p.connect + (IF p.last = "CONNECTING" THEN p.connecting ELSE 0)
         /\ Abs!nalive(p) = p.connect + p.connecting + p.up
         /\ Abs!ndead(p) = p.dead
<1>1. /\ p.drift["connect"] = 0 /\ p.drift["connecting"] = 0
      /\ p.drift["up"] = 0 /\ p.drift["dead"] = 0
    BY DEF PlatoonRecords, Forgotten
<1>2. /\ p.connect \in Int /\ p.connecting \in Int /\ p.up \in Int /\ p.dead \in Int
    BY DEF PlatoonRecords
<1> QED BY <1>1, <1>2 DEF Abs!nconnecting, Abs!nalive, Abs!ndead

\* The abstract platoon is one.
LEMMA BarType ==
  ASSUME TypeOK
  PROVE  platoonBar \in PlatoonRecords
BY SMTT(40) DEF TypeOK, platoonBar, PlatoonRecords, nalive, ndead, States, AliveStates

\* And so it is after a step.
LEMMA BarTypeNext ==
  ASSUME TypeOK'
  PROVE  platoonBar' \in PlatoonRecords
BY SMTT(40) DEF TypeOK, platoonBar, PlatoonRecords, nalive, ndead, States, AliveStates

\* Two records with the same fields are the same.
LEMMA SameFields ==
  ASSUME NEW p \in PlatoonRecords, NEW q \in PlatoonRecords,
         /\ q.running = p.running /\ q.target = p.target /\ q.ctarget = p.ctarget
         /\ q.last = p.last /\ q.connect = p.connect /\ q.connecting = p.connecting
         /\ q.up = p.up /\ q.dead = p.dead
  PROVE  q = p
BY DEF PlatoonRecords

\* The steps of PlatoonAbs.tla, field by field.
LEMMA GetOnFields ==
  ASSUME NEW p \in PlatoonRecords, NEW q \in PlatoonRecords, p.running = TRUE,
         /\ q.running = p.running /\ q.target = p.target /\ q.ctarget = p.ctarget
         /\ q.last = p.last /\ q.dead = p.dead,
         \/ /\ p.connect >= 1 /\ q.connect = p.connect - 1
            /\ q.connecting = p.connecting + 1 /\ q.up = p.up
         \/ /\ p.connecting >= 1 /\ q.connecting = p.connecting - 1
            /\ q.up = p.up + 1 /\ q.connect = p.connect
  PROVE  q \in Abs!GetOn(p)
<1> DEFINE A == [p EXCEPT !.connect = @ - 1, !.connecting = @ + 1]
           B == [p EXCEPT !.connecting = @ - 1, !.up = @ + 1]
<1>1. Abs!GetOn(p) = {A : n \in 1..p.connect} \cup {B : n \in 1..p.connecting}
    BY DEF Abs!GetOn
<1>3. CASE /\ p.connect >= 1 /\ q.connect = p.connect - 1
           /\ q.connecting = p.connecting + 1 /\ q.up = p.up
    <2>1. q = A
        <3>1. A \in PlatoonRecords
            BY <1>3 DEF PlatoonRecords
        <3>2. /\ q.running = A.running /\ q.target = A.target /\ q.ctarget = A.ctarget
              /\ q.last = A.last /\ q.connect = A.connect /\ q.connecting = A.connecting
              /\ q.up = A.up /\ q.dead = A.dead
            BY <1>3 DEF PlatoonRecords
        <3> HIDE DEF A
        <3> QED BY <3>1, <3>2, SameFields
    <2>2. 1 \in 1..p.connect
        BY <1>3 DEF PlatoonRecords
    <2> HIDE DEF A, B
    <2> QED BY <1>1, <2>1, <2>2
<1>4. CASE /\ p.connecting >= 1 /\ q.connecting = p.connecting - 1
           /\ q.up = p.up + 1 /\ q.connect = p.connect
    <2>1. q = B
        <3>1. B \in PlatoonRecords
            BY <1>4 DEF PlatoonRecords
        <3>2. /\ q.running = B.running /\ q.target = B.target /\ q.ctarget = B.ctarget
              /\ q.last = B.last /\ q.connect = B.connect /\ q.connecting = B.connecting
              /\ q.up = B.up /\ q.dead = B.dead
            BY <1>4 DEF PlatoonRecords
        <3> HIDE DEF B
        <3> QED BY <3>1, <3>2, SameFields
    <2>2. 1 \in 1..p.connecting
        BY <1>4 DEF PlatoonRecords
    <2> HIDE DEF A, B
    <2> QED BY <1>1, <2>1, <2>2
<1> QED BY <1>3, <1>4

\* A user moving from one of the counters of the living to that of the dead is
\* a Die of the abstract platoon.
LEMMA DieFields ==
  ASSUME NEW p \in PlatoonRecords, NEW q \in PlatoonRecords, p.running = TRUE,
         /\ q.running = p.running /\ q.target = p.target /\ q.ctarget = p.ctarget
         /\ q.last = p.last /\ q.dead = p.dead + 1,
         \/ /\ p.connect >= 1 /\ q.connect = p.connect - 1
            /\ q.connecting = p.connecting /\ q.up = p.up
         \/ /\ p.connecting >= 1 /\ q.connecting = p.connecting - 1
            /\ q.connect = p.connect /\ q.up = p.up
         \/ /\ p.up >= 1 /\ q.up = p.up - 1
            /\ q.connect = p.connect /\ q.connecting = p.connecting
  PROVE  q \in Abs!Die(p)
<1> DEFINE A == [p EXCEPT !.connect = @ - 1, !.dead = @ + 1]
           B == [p EXCEPT !.connecting = @ - 1, !.dead = @ + 1]
           C == [p EXCEPT !.up = @ - 1, !.dead = @ + 1]
<1>1. Abs!Die(p) = {A : n \in 1..p.connect} \cup {B : n \in 1..p.connecting}
                   \cup {C : n \in 1..p.up}
    BY DEF Abs!Die
<1>3. CASE /\ p.connect >= 1 /\ q.connect = p.connect - 1
           /\ q.connecting = p.connecting /\ q.up = p.up
    <2>1. q = A
        <3>1. A \in PlatoonRecords
            BY <1>3 DEF PlatoonRecords
        <3>2. /\ q.running = A.running /\ q.target = A.target /\ q.ctarget = A.ctarget
              /\ q.last = A.last /\ q.connect = A.connect /\ q.connecting = A.connecting
              /\ q.up = A.up /\ q.dead = A.dead
            BY <1>3 DEF PlatoonRecords
        <3> HIDE DEF A
        <3> QED BY <3>1, <3>2, SameFields
    <2>2. 1 \in 1..p.connect
        BY <1>3 DEF PlatoonRecords
    <2> HIDE DEF A, B, C
    <2> QED BY <1>1, <2>1, <2>2
<1>4. CASE /\ p.connecting >= 1 /\ q.connecting = p.connecting - 1
           /\ q.connect = p.connect /\ q.up = p.up
    <2>1. q = B
        <3>1. B \in PlatoonRecords
            BY <1>4 DEF PlatoonRecords
        <3>2. /\ q.running = B.running /\ q.target = B.target /\ q.ctarget = B.ctarget
              /\ q.last = B.last /\ q.connect = B.connect /\ q.connecting = B.connecting
              /\ q.up = B.up /\ q.dead = B.dead
            BY <1>4 DEF PlatoonRecords
        <3> HIDE DEF B
        <3> QED BY <3>1, <3>2, SameFields
    <2>2. 1 \in 1..p.connecting
        BY <1>4 DEF PlatoonRecords
    <2> HIDE DEF A, B, C
    <2> QED BY <1>1, <2>1, <2>2
<1>5. CASE /\ p.up >= 1 /\ q.up = p.up - 1
           /\ q.connect = p.connect /\ q.connecting = p.connecting
    <2>1. q = C
        <3>1. C \in PlatoonRecords
            BY <1>5 DEF PlatoonRecords
        <3>2. /\ q.running = C.running /\ q.target = C.target /\ q.ctarget = C.ctarget
              /\ q.last = C.last /\ q.connect = C.connect /\ q.connecting = C.connecting
              /\ q.up = C.up /\ q.dead = C.dead
            BY <1>5 DEF PlatoonRecords
        <3> HIDE DEF C
        <3> QED BY <3>1, <3>2, SameFields
    <2>2. 1 \in 1..p.up
        BY <1>5 DEF PlatoonRecords
    <2> HIDE DEF A, B, C
    <2> QED BY <1>1, <2>1, <2>2
<1> QED BY <1>3, <1>4, <1>5

\* A user that is counted in another state gets on, dies, or stays where
\* getStatus sees it.
LEMMA ChangeRefines ==
  ASSUME IInv, poller, UNCHANGED <<poller, targetVars>>,
         NEW u \in Slots, NEW new, countStateChange(users[u], new),
         \/ users[u] = "CONNECT" /\ new \in {"CONNECTING", "STOPPED"}
         \/ users[u] = "CONNECTING" /\ new \in {"FINISH_TYPE", "STOPPED"}
         \/ users[u] \in {"FINISH_TYPE", "GETTING"} /\ new \in {"GETTING", "STOPPED"}
         \/ users[u] = "STOPPED" /\ new = "STOPPED"
  PROVE  platoonBar' \in Abs!GetOn(platoonBar) \cup Abs!Die(platoonBar) \cup {platoonBar}
<1> DEFINE p == platoonBar
           q == platoonBar'
           old == users[u]
<1>1. nInState \in [States -> Int]
    BY DEF IInv, TypeOK
<1>2. nInState' = [nInState EXCEPT ![old] = @ - 1, ![new] = @ + 1]
    BY DEF countStateChange, NULL
<1>3. \A s \in States :
        nInState'[s] = nInState[s] + (IF s = new THEN 1 ELSE 0) - (IF s = old THEN 1 ELSE 0)
    BY <1>1, <1>2
<1>4. \A s \in AliveStates : nInState[s] \in Nat
    BY CountersNatural
<1>5. old \in AliveStates => nInState[old] >= 1
    BY CountedOnce
<1>6. p \in PlatoonRecords /\ q \in PlatoonRecords
    <2>1. nInState' \in [States -> Int] /\ lastConnecting' = lastConnecting
          /\ nuserTarget' = nuserTarget /\ nconnectingTarget' = nconnectingTarget
        <3>1. old \in States /\ new \in States
            BY DEF States, AliveStates
        <3> QED BY <1>1, <1>2, <3>1 DEF targetVars
    <2>2. q \in PlatoonRecords
        <3>1. /\ poller' \in BOOLEAN /\ nuserTarget' \in Nat /\ nconnectingTarget' \in Nat
              /\ lastConnecting' \in {"CONNECT", "CONNECTING"}
            BY <2>1 DEF IInv, TypeOK
        <3>2. \A s \in States : nInState'[s] \in Int
            BY <2>1
        <3> QED BY ONLY <3>1, <3>2
                DEF q, platoonBar, PlatoonRecords, nalive, ndead, States, AliveStates
    <2> QED BY <2>2, BarType DEF IInv
<1>7. /\ p.running = TRUE /\ q.running = p.running /\ q.target = p.target /\ q.ctarget = p.ctarget
      /\ q.last = p.last
    BY DEF platoonBar, targetVars
<1> DEFINE Change(s) == (IF s = new THEN 1 ELSE 0) - (IF s = old THEN 1 ELSE 0)
<1>8. /\ p.connect = nInState["CONNECT"] /\ q.connect = p.connect + Change("CONNECT")
      /\ p.connecting = nInState["CONNECTING"]
      /\ q.connecting = p.connecting + Change("CONNECTING")
      /\ p.up = nInState["START_TYPE"] + nInState["FINISH_TYPE"] + nInState["GET"]
                + nInState["GETTING"]
      /\ q.up = p.up + Change("START_TYPE") + Change("FINISH_TYPE") + Change("GET")
                + Change("GETTING")
      /\ q.dead = p.dead + Change("STOPPED")
    BY <1>1, <1>3 DEF platoonBar, nalive, ndead, States, AliveStates
<1> HIDE DEF p, q
<1> USE DEF PlatoonRecords, AliveStates
<1>9. CASE new = "STOPPED" /\ old # "STOPPED"
    <2>1. q.dead = p.dead + 1
        BY <1>6, <1>8, <1>9
    <2>2. \/ /\ p.connect >= 1 /\ q.connect = p.connect - 1
             /\ q.connecting = p.connecting /\ q.up = p.up
          \/ /\ p.connecting >= 1 /\ q.connecting = p.connecting - 1
             /\ q.connect = p.connect /\ q.up = p.up
          \/ /\ p.up >= 1 /\ q.up = p.up - 1
             /\ q.connect = p.connect /\ q.connecting = p.connecting
        BY <1>4, <1>5, <1>6, <1>8, <1>9
    <2>3. q \in Abs!Die(p)
        BY <1>6, <1>7, <2>1, <2>2, DieFields
    <2> QED BY <2>3 DEF p, q
<1>10. CASE \/ old = "CONNECT" /\ new = "CONNECTING"
            \/ old = "CONNECTING" /\ new = "FINISH_TYPE"
    <2>1. q.dead = p.dead
        BY <1>6, <1>8, <1>10
    <2>2. \/ /\ p.connect >= 1 /\ q.connect = p.connect - 1
             /\ q.connecting = p.connecting + 1 /\ q.up = p.up
          \/ /\ p.connecting >= 1 /\ q.connecting = p.connecting - 1
             /\ q.up = p.up + 1 /\ q.connect = p.connect
        BY <1>4, <1>5, <1>6, <1>8, <1>10
    <2>3. q \in Abs!GetOn(p)
        BY <1>6, <1>7, <2>1, <2>2, GetOnFields
    <2> QED BY <2>3 DEF p, q
<1>11. CASE \/ old \in {"FINISH_TYPE", "GETTING"} /\ new = "GETTING"
            \/ old = "STOPPED" /\ new = "STOPPED"
    <2>1. q.dead = p.dead /\ q.connect = p.connect /\ q.connecting = p.connecting /\ q.up = p.up
        BY <1>6, <1>8, <1>11
    <2>2. q = p
        BY <1>6, <1>7, <2>1, SameFields
    <2> QED BY <2>2 DEF p, q
<1> QED BY <1>9, <1>10, <1>11

\* The calls set the targets, and init() and reset() start and stop.
LEMMA CallRefines ==
  ASSUME IInv, BenchTargets,
         \/ \E t \in UserTargets : set_nuserTarget(t)
         \/ \E t \in ConnectingTargets : set_nconnectingTarget(t)
         \/ \E s \in {"CONNECT_START", "CONNECT_FINISH"} : set_lastConnectingState(s)
         \/ Reset \/ InitAgain
  PROVE  platoonBar' \in Abs!Called(platoonBar)
<1> DEFINE p == platoonBar
           q == platoonBar'
<1>0. p \in PlatoonRecords /\ q \in PlatoonRecords
    <2>1. TypeOK /\ TypeOK'
        BY NextIInv DEF IInv, Next
    <2> QED BY <2>1, BarType, BarTypeNext
<1>1. ASSUME NEW t \in UserTargets, set_nuserTarget(t) PROVE q \in Abs!Called(p)
    <2>1. q = [p EXCEPT !.target = t]
        BY <1>1 DEF set_nuserTarget, platoonVars, mainVars, platoonBar, nalive, ndead
    <2> HIDE DEF p, q
    <2>2. q \in UNION {Abs!set_nuserTarget(p, x) : x \in UserTargets}
        BY <2>1 DEF Abs!set_nuserTarget
    <2> QED BY <2>2 DEF Abs!Called
<1>2. ASSUME NEW t \in ConnectingTargets, set_nconnectingTarget(t) PROVE q \in Abs!Called(p)
    <2>1. q = [p EXCEPT !.ctarget = t]
        BY <1>2 DEF set_nconnectingTarget, platoonVars, mainVars, platoonBar, nalive, ndead
    <2> HIDE DEF p, q
    <2>2. q \in UNION {Abs!set_nconnectingTarget(p, x) : x \in ConnectingTargets}
        BY <2>1 DEF Abs!set_nconnectingTarget
    <2> QED BY <2>2 DEF Abs!Called
<1>3. ASSUME NEW s \in {"CONNECT_START", "CONNECT_FINISH"}, set_lastConnectingState(s)
      PROVE  q \in Abs!Called(p)
    <2>1. lastConnecting' \in Abs!States
        BY <1>3 DEF set_lastConnectingState, Abs!States
    <2>2. q = [p EXCEPT !.last = lastConnecting']
        BY <1>3 DEF set_lastConnectingState, platoonVars, mainVars, platoonBar, nalive, ndead
    <2> HIDE DEF p, q
    <2>3. q \in UNION {Abs!set_lastConnectingState(p, x) : x \in Abs!States}
        BY <2>1, <2>2 DEF Abs!set_lastConnectingState
    <2> QED BY <2>3 DEF Abs!Called
<1>4. CASE Reset
    <2>1. /\ p.running = TRUE /\ q.running = FALSE /\ q.target = p.target /\ q.ctarget = p.ctarget
          /\ q.last = p.last /\ q.connect = p.connect /\ q.connecting = p.connecting
          /\ q.up = p.up /\ q.dead = p.dead
        BY <1>4 DEF Reset, targetVars, platoonBar, nalive, ndead, IInv, TypeOK
    <2> HIDE DEF p, q
    <2>2. q = [p EXCEPT !.running = FALSE, !.lost = Abs!Nobody]
        BY <1>0, <2>1, NobodyForgotten DEF PlatoonRecords
    <2>3. q \in Abs!reset(p)
        BY <2>2 DEF Abs!reset
    <2>4. p.running
        BY <2>1
    <2>5. q \in Abs!Called(p)
        BY <2>3, <2>4 DEF Abs!Called
    <2> QED BY <2>5 DEF p, q
<1>5. CASE InitAgain
    <2>1. /\ p.running = FALSE /\ q.running = TRUE /\ q.target = 0 /\ q.ctarget = 1
          /\ q.last = "CONNECTING" /\ q.connect = 0 /\ q.connecting = 0
          /\ q.up = 0 /\ q.dead = 0
        BY <1>5 DEF InitAgain, platoonBar, nalive, ndead, IInv, TypeOK, States, AliveStates
    <2> HIDE DEF p, q
    <2> DEFINE n == Abs!None
    <2>2. q = [n EXCEPT !.running = TRUE, !.lost = Abs!Nobody]
        <3>1. /\ n \in PlatoonRecords
              /\ n.connect = 0 /\ n.connecting = 0 /\ n.up = 0 /\ n.dead = 0
              /\ n.target = 0 /\ n.ctarget = 1 /\ n.last = "CONNECTING"
            BY NoneForgotten
        <3> HIDE DEF n
        <3> QED BY <1>0, <2>1, <3>1, NobodyForgotten DEF PlatoonRecords
    <2>3. ~p.running
        BY <2>1
    <2>4. q \in Abs!init(p)
        BY <2>2, <2>3 DEF Abs!init
    <2>5. q \in Abs!Called(p)
        BY <2>4 DEF Abs!Called
    <2> QED BY <2>5 DEF p, q
<1> QED BY <1>1, <1>2, <1>3, <1>4, <1>5

\* Users are started one by one, within the targets, while nobody has died.
LEMMA StartRefines ==
  ASSUME IInv, StartUser
  PROVE  platoonBar' \in Abs!Start(platoonBar)
<1> DEFINE p == platoonBar
           q == platoonBar'
<1>1. /\ nInState \in [States -> Int] /\ poller
      /\ nInState' = [nInState EXCEPT !["CONNECT"] = @ + 1]
      /\ UNCHANGED <<targetVars, poller>>
    BY DEF IInv, TypeOK, EmptyAfterReset, StartUser, countStateChange, mainVars
<1>2. q = [p EXCEPT !.connect = @ + 1]
    <2>1. p \in PlatoonRecords /\ q \in PlatoonRecords
        BY StartKeeps, BarType, BarTypeNext DEF IInv
    <2>2. /\ q.running = p.running /\ q.target = p.target /\ q.ctarget = p.ctarget
          /\ q.last = p.last /\ q.connect = p.connect + 1 /\ q.connecting = p.connecting
          /\ q.up = p.up /\ q.dead = p.dead
        BY <1>1 DEF platoonBar, nalive, ndead, targetVars, States, AliveStates
    <2> HIDE DEF p, q
    <2> QED BY <2>1, <2>2 DEF PlatoonRecords
<1>3. p.running /\ Abs!ndead(p) = 0 /\ Abs!nalive(p) < p.target /\ Abs!nconnecting(p) < p.ctarget
    <2>1. p \in PlatoonRecords
        BY BarType DEF IInv
    <2>2. /\ Abs!nconnecting(p)
               = p.connect + (IF p.last = "CONNECTING" THEN p.connecting ELSE 0)
          /\ Abs!nalive(p) = p.connect + p.connecting + p.up
          /\ Abs!ndead(p) = p.dead
        BY <2>1, NoDrift
    <2> QED BY <1>1, <2>2 DEF StartUser, MayStart, platoonBar, nalive, ndead, nconnecting,
                              States, AliveStates
<1> HIDE DEF p, q
<1> QED BY <1>2, <1>3 DEF Abs!Start, p, q

(***************************************************************************)
(* What getStatus tells of a platoon changes as PlatoonAbs.tla says.       *)
(***************************************************************************)
THEOREM PlatoonImplementsAbs == Spec => ImplementsAbs
<1>1. Init => Abs!Init
    <2> SUFFICES ASSUME Init PROVE Abs!Init
        OBVIOUS
    <2>1. /\ nuserTarget \in UserTargets \cup {0}
          /\ nconnectingTarget \in ConnectingTargets \cup {1}
          /\ lastConnecting \in Abs!States
          /\ poller = TRUE /\ nInState = [s \in States |-> 0]
        BY Zenon DEF Init, Abs!States
    <2>2. platoonBar = [Abs!None EXCEPT !.running = TRUE, !.target = nuserTarget,
                                        !.ctarget = nconnectingTarget, !.last = lastConnecting]
        <3> DEFINE p == platoonBar
        <3>1. p \in PlatoonRecords
            BY InitIInv, BarType DEF IInv
        <3>2. /\ p.running = TRUE /\ p.target = nuserTarget /\ p.ctarget = nconnectingTarget
              /\ p.last = lastConnecting /\ p.connect = 0 /\ p.connecting = 0 /\ p.up = 0
              /\ p.dead = 0
            BY <2>1 DEF platoonBar, nalive, ndead, States, AliveStates
        <3> HIDE DEF p
        <3> DEFINE n == Abs!None
        <3>3. /\ n \in PlatoonRecords
              /\ n.connect = 0 /\ n.connecting = 0 /\ n.up = 0 /\ n.dead = 0
            BY NoneForgotten
        <3> HIDE DEF n
        <3>4. p = [n EXCEPT !.running = TRUE, !.target = nuserTarget,
                            !.ctarget = nconnectingTarget, !.last = lastConnecting]
            BY <3>1, <3>2, <3>3, ZenonT(60) DEF PlatoonRecords
        <3> QED BY <3>4 DEF p, n
    <2> QED BY <2>1, <2>2 DEF Abs!Init
<1>2. IInv /\ BenchTargets /\ [Next]_vars => [Abs!Next]_platoonBar
    <2> SUFFICES ASSUME IInv, BenchTargets, [Next]_vars
                 PROVE  \/ platoonBar' = platoonBar
                        \/ platoonBar' \in Abs!Progress(platoonBar) \cup Abs!Called(platoonBar)
        BY DEF Abs!Next
    <2> USE DEF Abs!Progress, mainVars
    <2>1. CASE UNCHANGED vars
        BY <2>1, SameBar DEF vars, platoonVars
    <2>2. CASE \/ \E t \in UserTargets : set_nuserTarget(t)
               \/ \E t \in ConnectingTargets : set_nconnectingTarget(t)
               \/ \E s \in {"CONNECT_START", "CONNECT_FINISH"} : set_lastConnectingState(s)
               \/ Reset \/ InitAgain
        BY <2>2, CallRefines
    <2>3. CASE StartUser
        BY <2>3, StartRefines
    <2>4. ASSUME NEW u \in Slots, UserCallback(u) \/ PipeTimeout(u) \/ PipeWakeStops(u)
          PROVE  platoonBar' = platoonBar \/ platoonBar' \in Abs!Progress(platoonBar)
        <3>1. pc = "run" /\ poller /\ UNCHANGED <<poller, targetVars>>
            BY <2>4 DEF UserCallback, PipeTimeout, PipeWakeStops, IInv, EmptyAfterReset
        <3>2. CASE UserCallback(u)
            <4>1. users[u] = "CONNECT"
                BY <3>2 DEF UserCallback, IInv, NoCallAfterDeath
            <4>2. \E new \in {"CONNECTING", "STOPPED"} : countStateChange(users[u], new)
                BY <3>2 DEF UserCallback, UserConnects, UserConnectFails, UserLoginFails, Goto, Stop
            <4> QED BY <3>1, <4>1, <4>2, ChangeRefines
        <3>3. CASE PipeTimeout(u)
            BY <3>1, <3>3, ChangeRefines DEF PipeTimeout, Stop
        <3>4. CASE PipeWakeStops(u)
            BY <3>1, <3>4, ChangeRefines DEF PipeWakeStops, Stop
        <3> QED BY <2>4, <3>2, <3>3, <3>4
    <2>5. ASSUME NEW u \in Slots, NEW fd \in {"cfd", "dfd"},
                 CommandSucceeds(u, fd) \/ CommandFails(u, fd)
          PROVE  platoonBar' = platoonBar \/ platoonBar' \in Abs!Progress(platoonBar)
        <3>1. /\ poller /\ UNCHANGED <<poller, targetVars>>
              /\ users[u] \in Waiting \cup {"STOPPED"}
            BY <2>5 DEF CommandSucceeds, CommandFails, TakeEvent, IInv, NoCallAfterDeath
        <3>2. CASE CommandSucceeds(u, fd)
            <4>1. countStateChange(users[u], AfterSuccess(users[u]))
                  /\ users[u] \in Waiting
                BY <3>2 DEF CommandSucceeds, Goto
            <4>2. \/ users[u] = "CONNECTING" /\ AfterSuccess(users[u]) = "FINISH_TYPE"
                  \/ users[u] \in {"FINISH_TYPE", "GETTING"} /\ AfterSuccess(users[u]) = "GETTING"
                BY <4>1 DEF AfterSuccess, Waiting
            <4> QED BY <3>1, <4>1, <4>2, ChangeRefines
        <3>3. CASE CommandFails(u, fd)
            <4>1. countStateChange(users[u], "STOPPED")
                BY <3>3 DEF CommandFails, Stop
            <4> QED BY <3>1, <4>1, ChangeRefines DEF Waiting
        <3> QED BY <2>5, <3>2, <3>3
    <2>6. ASSUME NEW u \in Slots, PipeWakeFinishes(u) PROVE platoonBar' = platoonBar
        <3>1. nInState' = nInState
            BY <2>6 DEF PipeWakeFinishes, Goto, countStateChange, IInv, TypeOK, States,
                        AliveStates, NULL
        <3> QED BY <2>6, <3>1, SameBar DEF PipeWakeFinishes
    <2>7. CASE \/ SkedCallback \/ StartUserOutside \/ SkedCallbackReturn \/ RunAllReturn \/ ReapAfterEvent
               \/ Iterate \/ TestOver \/ PerformWork \/ WaitForEvents \/ EventAtLast
               \/ GetStatus \/ Ended
               \/ \E u \in Slots : PipeWakeReads(u)
               \/ \E u \in Slots, fd \in {"cfd", "dfd"} : EventIgnored(u, fd)
        <3>1. UNCHANGED <<nInState, targetVars, poller>>
            BY <2>7 DEF SkedCallback, StartUserOutside, SkedCallbackReturn, RunAllReturn, ReapAfterEvent, Iterate,
                TestOver, PerformWork, WaitForEvents, EventAtLast, GetStatus, Ended,
                PipeWakeReads, EventIgnored, vars, platoonVars
        <3> QED BY <3>1, SameBar
    <2> QED BY <2>1, <2>2, <2>3, <2>4, <2>5, <2>6, <2>7 DEF Next
<1> QED BY <1>1, <1>2, Invariance, PTL DEF Spec, ImplementsAbs, Abs!Spec
==============================================================================
