--------------------------------- MODULE Sked ---------------------------------
(***************************************************************************)
(* The event scheduler Sked.cc / Sked.h: a priority queue of (client,      *)
(* time) records kept as an implicit binary heap in m_records[1..m_used],  *)
(* with each client remembering its own position in skedIndex so that it   *)
(* can be deleted from the middle.                                         *)
(*                                                                         *)
(* The code is single-threaded, but its loops call back into it: runAll    *)
(* pops a client, calls it, and the callback adds and deletes events. The  *)
(* model takes one step per loop iteration, so that the loop invariants    *)
(* the source states in comments are invariants of the model, and pc says  *)
(* which loop is on top of the stack:                                      *)
(*   "app"      the caller's code (the application, or a callback)         *)
(*   "siftUp"   the loop of Sked::siftUp, called by push                   *)
(*   "removeUp" the first loop of Sked::remove                             *)
(*   "siftDown" the loop of Sked::siftDown, called by remove or pop        *)
(*   "runAll"   the head of the loop of Sked::runAll                       *)
(* Times are natural numbers here: clock_t does not wrap in this model.    *)
(* The time of day goes on by itself (Tick), also while runAll is busy:    *)
(* the program's callbacks read it with eclock() and schedule for that     *)
(* very tick (Platoon.h:93, robouser.cc:92, which may be the one runAll is *)
(* serving) or for one after it (ftp_client_pipe.cc:225, 329, 843).        *)
(***************************************************************************)
EXTENDS Integers

CONSTANTS
    Clients,            \* the SkedClient objects
    NoClient,           \* the null pointer
    NotPending,         \* "not scheduled", for the abstract view
    InitAlloc,          \* records malloc'ed by init() (256 in the code)
    MaxTime,            \* bound: the latest time the clock or an event shows
    CallbacksReadClock  \* TRUE: callbacks schedule as the program's do

ASSUME SkedAssumption ==
    /\ NoClient \notin Clients
    /\ NotPending \notin Nat
    /\ InitAlloc \in Nat /\ InitAlloc >= 2
    /\ MaxTime \in Nat
    /\ CallbacksReadClock \in BOOLEAN

VARIABLES
    m_records,          \* the heap array, 1-based; slot 0 is never used
    m_allocated,        \* allocated records, slot 0 included
    m_used,             \* highest index in use
    skedIndex,          \* each client's index in m_records, 0 if not queued
    pc,                 \* the loop on top of the stack (see above)
    index,              \* that loop's variable
    victim,             \* the client delClient is removing
    current,            \* the client whose skedCallback is running
    clock,              \* what eclock() reads
    runNow,             \* runAll's argument
    ret                 \* what the last finished call returned

heapVars == <<m_records, m_allocated, m_used, skedIndex>>
vars == <<m_records, m_allocated, m_used, skedIndex, pc, index, victim,
          current, clock, runNow, ret>>

SkedRecord == [skc : Clients \cup {NoClient}, when : Nat]

\* What malloc or realloc leaves in a record nobody has stored yet.
Garbage == [skc |-> NoClient, when |-> 0]

\* eclock_after(a, b), on clocks that do not wrap.
after(a, b) == a - b > 0

when(i) == m_records[i].when

\* TRUE while runAll is on the stack.
InRunAll == pc = "runAll" \/ current # NoClient

------------------------------------------------------------------------------
Init ==
    /\ m_records = [i \in 1..(InitAlloc - 1) |-> Garbage]
    /\ m_allocated = InitAlloc
    /\ m_used = 0
    /\ skedIndex = [c \in Clients |-> 0]
    /\ pc = "app"
    /\ index = 0
    /\ victim = NoClient
    /\ current = NoClient
    /\ clock = 0
    /\ runNow = 0
    /\ ret = "ok"

\* Mutant: the record that moves to i keeps its old back pointer.
SwapForgetsOne(i, j) ==
    /\ m_records' = [m_records EXCEPT ![i] = m_records[j],
                                      ![j] = m_records[i]]
    /\ skedIndex' = [skedIndex EXCEPT ![m_records[i].skc] = j]
    /\ UNCHANGED <<m_allocated, m_used>>

\* storeAt twice: every loop swaps two records and their owners' indices.
Swap(i, j) ==
    /\ m_records' = [m_records EXCEPT ![i] = m_records[j],
                                      ![j] = m_records[i]]
    /\ skedIndex' = [skedIndex EXCEPT ![m_records[j].skc] = i,
                                      ![m_records[i].skc] = j]
    /\ UNCHANGED <<m_allocated, m_used>>

\* Mutant: callbacks schedule at the time runAll passes them.
CallbackAsksAtNow(w) == current # NoClient => w >= runNow

\* What a callback asks for is eclock() as it reads now, or a later tick than
\* the one runAll is serving.
CallbackAsks(w) ==
    CallbacksReadClock /\ current # NoClient => w >= clock \/ w > runNow

\* addClient up to the loop of siftUp: push grows the array when full.
AddClient(c, w) ==
    /\ pc = "app"
    /\ skedIndex[c] = 0
    /\ CallbackAsks(w)
    /\ LET full == m_used + 1 = m_allocated
           size == IF full THEN 2 * m_allocated ELSE m_allocated
       IN  /\ m_allocated' = size
           /\ m_records' =
                [i \in 1..(size - 1) |->
                    IF i = m_used + 1 THEN [skc |-> c, when |-> w]
                    ELSE IF i < m_allocated THEN m_records[i] ELSE Garbage]
    /\ m_used' = m_used + 1
    /\ skedIndex' = [skedIndex EXCEPT ![c] = m_used + 1]
    /\ pc' = "siftUp"
    /\ index' = m_used + 1
    /\ UNCHANGED <<victim, current, clock, runNow, ret>>

\* push fails in realloc, having changed nothing.
AddClientNoMemory(c) ==
    /\ pc = "app"
    /\ skedIndex[c] = 0
    /\ m_used + 1 = m_allocated
    /\ ret' = "ENOMEM"
    /\ UNCHANGED <<heapVars, pc, index, victim, current, clock, runNow>>

\* siftUp: one iteration swaps the new record with a parent not before it.
SiftUpStep ==
    /\ pc = "siftUp"
    /\ index > 1
    /\ ~after(when(index), when(index \div 2))
    /\ Swap(index \div 2, index)
    /\ index' = index \div 2
    /\ UNCHANGED <<pc, victim, current, clock, runNow, ret>>

\* siftUp, push and addClient return.
SiftUpDone ==
    /\ pc = "siftUp"
    /\ index > 1 => after(when(index), when(index \div 2))
    /\ pc' = "app"
    /\ index' = 0
    /\ ret' = "ok"
    /\ UNCHANGED <<heapVars, victim, current, clock, runNow>>

\* delClient of a client that is not queued returns at once.
DelClientIdle(c) ==
    /\ pc = "app"
    /\ skedIndex[c] = 0
    /\ ret' = "ok"
    /\ UNCHANGED <<heapVars, pc, index, victim, current, clock, runNow>>

\* Mutant: delClient does not check that the client is queued.
DelClientLastUnchecked(c) ==
    /\ pc = "app"
    /\ m_used <= 1
    /\ m_used' = m_used - 1
    /\ skedIndex' = [skedIndex EXCEPT ![c] = 0]
    /\ ret' = "ok"
    /\ UNCHANGED <<m_records, m_allocated, pc, index, victim, current, clock, runNow>>

\* delClient of the only queued client: remove just decrements m_used.
DelClientLast(c) ==
    /\ pc = "app"
    /\ skedIndex[c] # 0
    /\ m_used <= 1
    /\ m_used' = m_used - 1
    /\ skedIndex' = [skedIndex EXCEPT ![c] = 0]
    /\ ret' = "ok"
    /\ UNCHANGED <<m_records, m_allocated, pc, index, victim, current, clock, runNow>>

\* delClient of one of several: remove(skedIndex[c]) up to its first loop.
DelClient(c) ==
    /\ pc = "app"
    /\ skedIndex[c] # 0
    /\ m_used > 1
    /\ m_used' = m_used - 1
    /\ pc' = "removeUp"
    /\ index' = skedIndex[c]
    /\ victim' = c
    /\ UNCHANGED <<m_records, m_allocated, skedIndex, current, clock, runNow, ret>>

\* remove: the victim is swapped with its parent until it is the root.
RemoveUpStep ==
    /\ pc = "removeUp"
    /\ index > 1
    /\ Swap(index \div 2, index)
    /\ index' = index \div 2
    /\ UNCHANGED <<pc, victim, current, clock, runNow, ret>>

\* What storeAt(1, m_records[last]) does to the records.
LastToRoot(last) == [m_records EXCEPT ![1] = m_records[last]]

\* remove: the last record overwrites the victim at the root and is sifted
\* down, or, when it is alone, delClient unmarks the victim and returns.
RemoveMoveLast ==
    /\ pc = "removeUp"
    /\ index <= 1
    /\ m_records' = LastToRoot(m_used + 1)
    /\ LET moved == [skedIndex EXCEPT ![m_records[m_used + 1].skc] = 1]
       IN  \/ /\ m_used > 1
              /\ skedIndex' = moved
              /\ pc' = "siftDown"
              /\ index' = 1
              /\ UNCHANGED <<victim, ret>>
           \/ /\ m_used <= 1
              /\ skedIndex' = [moved EXCEPT ![victim] = 0]
              /\ pc' = "app"
              /\ index' = 0
              /\ victim' = NoClient
              /\ ret' = "ok"
    /\ UNCHANGED <<m_allocated, m_used, current, clock, runNow>>

\* Mutant: the right child is never considered.
LeftChild(i) == 2 * i

\* The child siftDown compares with: the right one unless it is later.
LeastChild(i) ==
    IF 2 * i < m_used /\ ~after(when(2 * i + 1), when(2 * i))
    THEN 2 * i + 1
    ELSE 2 * i

\* siftDown: one iteration swaps the record with a child not after it.
SiftDownStep ==
    /\ pc = "siftDown"
    /\ 2 * index <= m_used
    /\ ~after(when(LeastChild(index)), when(index))
    /\ Swap(LeastChild(index), index)
    /\ index' = LeastChild(index)
    /\ UNCHANGED <<pc, victim, current, clock, runNow, ret>>

\* siftDown returns: to remove, and delClient unmarks its victim, or to pop,
\* and runAll calls the popped client's skedCallback.
SiftDownDone ==
    /\ pc = "siftDown"
    /\ 2 * index <= m_used => after(when(LeastChild(index)), when(index))
    /\ pc' = "app"
    /\ index' = 0
    /\ IF victim # NoClient
       THEN /\ skedIndex' = [skedIndex EXCEPT ![victim] = 0]
            /\ victim' = NoClient
            /\ ret' = "ok"
       ELSE UNCHANGED <<skedIndex, victim, ret>>
    /\ UNCHANGED <<m_records, m_allocated, m_used, current, clock, runNow>>

------------------------------------------------------------------------------
\* Time passes, whatever the code is doing.
Tick ==
    /\ clock < MaxTime
    /\ clock' = clock + 1
    /\ UNCHANGED <<heapVars, pc, index, victim, current, runNow, ret>>

\* The main loop calls runAll(t) with its latest reading of the clock, which
\* may be stale.  At the bound MaxTime the clock would stand still, so runAll
\* is not called for that time.
RunAll(t) ==
    /\ pc = "app" /\ current = NoClient
    /\ runNow <= t /\ t <= clock /\ t < MaxTime
    /\ pc' = "runAll"
    /\ runNow' = t
    /\ UNCHANGED <<heapVars, index, victim, current, clock, ret>>

\* runAll's check of the top record's back pointer.
TopIsValid ==
    LET i == skedIndex[m_records[1].skc]
    IN  i >= 1 /\ i <= m_used /\ m_records[i].skc = m_records[1].skc

\* Mutants: the time is not looked at; an event due right now is not due.
TopIsQueued == m_used > 0
TopIsOverdue == m_used > 0 /\ after(runNow, when(1))

TopIsDue == m_used > 0 /\ ~after(when(1), runNow)

\* runAll takes the due top client off the heap (pop) and calls it.
RunTop ==
    /\ pc = "runAll"
    /\ TopIsDue /\ TopIsValid
    /\ current' = m_records[1].skc
    /\ m_used' = m_used - 1
    /\ LET popped == [skedIndex EXCEPT ![m_records[1].skc] = 0]
       IN  IF m_used > 1
           THEN /\ m_records' = LastToRoot(m_used)
                /\ skedIndex' = [popped EXCEPT ![m_records[m_used].skc] = 1]
           ELSE /\ skedIndex' = popped
                /\ UNCHANGED m_records
    /\ IF m_used > 2 THEN pc' = "siftDown" /\ index' = 1
                     ELSE pc' = "app" /\ UNCHANGED index
    /\ UNCHANGED <<m_allocated, victim, clock, runNow, ret>>

\* The callback returns to the loop of runAll.
CallbackReturn ==
    /\ pc = "app" /\ current # NoClient
    /\ pc' = "runAll"
    /\ current' = NoClient
    /\ UNCHANGED <<heapVars, index, victim, clock, runNow, ret>>

\* runAll returns: nothing is due, or the top record is inconsistent.
RunAllReturn ==
    /\ pc = "runAll"
    /\ TopIsDue => ~TopIsValid
    /\ ret' = IF TopIsDue THEN "EINVAL" ELSE "ok"
    /\ pc' = "app"
    /\ UNCHANGED <<heapVars, index, victim, current, clock, runNow>>

\* nextTime(defval): the time the main loop may sleep until.
nextTime(defval) == IF m_used = 0 THEN defval ELSE when(1)

Next ==
    \/ \E c \in Clients : \E w \in 0..MaxTime : AddClient(c, w)
    \/ \E c \in Clients : AddClientNoMemory(c)
    \/ SiftUpStep
    \/ SiftUpDone
    \/ \E c \in Clients : DelClientIdle(c)
    \/ \E c \in Clients : DelClientLast(c)
    \/ \E c \in Clients : DelClient(c)
    \/ RemoveUpStep
    \/ RemoveMoveLast
    \/ SiftDownStep
    \/ SiftDownDone
    \/ Tick
    \/ \E t \in 0..MaxTime : RunAll(t)
    \/ RunTop
    \/ CallbackReturn
    \/ RunAllReturn

Spec == Init /\ [][Next]_vars

\* Time passes; the loops inside Sked run to their end; every callback
\* returns; and the main loop of bench.cc calls runAll in every iteration,
\* whatever else the application does in between.
Fairness ==
    /\ WF_vars(Tick)
    /\ WF_vars(SiftUpStep \/ SiftUpDone)
    /\ WF_vars(RemoveUpStep \/ RemoveMoveLast)
    /\ WF_vars(SiftDownStep \/ SiftDownDone)
    /\ WF_vars(RunTop \/ RunAllReturn)
    /\ SF_vars(CallbackReturn)
    /\ SF_vars(\E t \in 0..MaxTime : RunAll(t))

FairSpec == Spec /\ Fairness

------------------------------------------------------------------------------
\* Every variable has its type; the array is as long as m_allocated says.
TypeOK ==
    /\ m_allocated \in Nat /\ m_allocated >= 2
    /\ m_records \in [1..(m_allocated - 1) -> SkedRecord]
    /\ m_used \in Nat
    /\ skedIndex \in [Clients -> Nat]
    /\ pc \in {"app", "siftUp", "removeUp", "siftDown", "runAll"}
    /\ index \in Nat
    /\ victim \in Clients \cup {NoClient}
    /\ current \in Clients \cup {NoClient}
    /\ clock \in Nat
    /\ runNow \in Nat
    /\ ret \in {"ok", "ENOMEM", "EINVAL"}

\* The last slot holding a queued record: while remove moves its victim up,
\* the record at m_used + 1 still belongs to the heap.
HeapEnd == IF pc = "removeUp" THEN m_used + 1 ELSE m_used

\* The back pointers of the queued records: the record at i belongs to a
\* client whose skedIndex is i (so no client is queued twice), in all the
\* intermediate states of push, pop and remove; the array has room for them.
IndexInv ==
    /\ HeapEnd < m_allocated
    /\ \A i \in 1..HeapEnd :
          m_records[i].skc \in Clients /\ skedIndex[m_records[i].skc] = i
    /\ \A c \in Clients :
          skedIndex[c] # 0 /\ ~(pc = "siftDown" /\ c = victim) =>
             skedIndex[c] \in 1..HeapEnd /\ m_records[skedIndex[c]].skc = c

\* The loops' own bookkeeping: where index points and who the victim is.
LoopInv ==
    /\ pc \in {"siftUp", "siftDown"} => index \in 1..m_used
    /\ pc = "removeUp" => /\ m_used >= 1 /\ index \in 1..(m_used + 1)
                          /\ victim \in Clients
                          /\ m_records[index].skc = victim
    /\ pc \in {"app", "siftUp", "runAll"} => victim = NoClient
    /\ pc = "runAll" => current = NoClient
    /\ pc = "siftDown" => victim # NoClient \/ current # NoClient
    /\ pc = "siftDown" /\ victim # NoClient =>
          /\ skedIndex[victim] # 0
          /\ \A i \in 1..m_used : m_records[i].skc # victim

\* The edges of the implicit tree that the loop on top of the stack has not
\* put in order yet.
Loose(i) ==
    \/ pc = "siftUp" /\ i = index
    \/ pc = "siftDown" /\ i \div 2 = index
    \/ pc = "removeUp" /\ (i = index \/ i \div 2 = index)

\* The heap property with the exception each loop's comment allows: every
\* record is no earlier than its parent except along the loop's loose edges,
\* and the record at index may be taken out without breaking the order.
HeapInv ==
    /\ \A i \in 2..HeapEnd : ~Loose(i) => when(i \div 2) <= when(i)
    /\ pc \in {"siftUp", "siftDown", "removeUp"} /\ index > 1 =>
          \A i \in 2..HeapEnd :
             i \div 2 = index => when(index \div 2) <= when(i)

\* nextTime, which the main loop sleeps until, is the time of an earliest
\* pending event whenever the caller's code runs.
NextTimeIsEarliest ==
    pc = "app" =>
       \A c \in Clients :
          skedIndex[c] # 0 => nextTime(0) <= when(skedIndex[c])

\* runAll's consistency check never fails: it never returns EINVAL.
NeverEINVAL == ret # "EINVAL"

\* The abstract view: an event stops pending when its deletion starts.
pendingBar ==
    [c \in Clients |->
        IF skedIndex[c] = 0 \/ c = victim THEN NotPending
        ELSE when(skedIndex[c])]

Abs == INSTANCE SkedAbs WITH pending <- pendingBar, running <- InRunAll

\* The heap implements the schedule SkedAbs promises: whatever the callbacks
\* add and delete, runAll calls an earliest due client first and returns only
\* when nothing is due.
ImplementsAbs == Abs!Spec

\* No starvation: a client whose time has come when runAll is called is
\* called back or deleted, although callbacks put themselves and others back
\* on the heap for the tick runAll is serving, as long as the clock shows it.
DueIsServed ==
    \A c \in Clients :
       (skedIndex[c] # 0 /\ when(skedIndex[c]) <= runNow) ~> skedIndex[c] = 0

\* runAll always returns: the events its callbacks add for the tick it is
\* serving are served in the same call, but the clock moves on meanwhile, and
\* what they add then is no longer due.
RunAllReturns == (pc = "runAll") ~> ~InRunAll
==============================================================================
