------------------------------ MODULE SkedProof ------------------------------
(***************************************************************************)
(* Proofs about the scheduler of Sked.tla, for any set of clients, any     *)
(* initial allocation and any times: its heap is right, and it implements  *)
(* the schedule of SkedAbs.tla.                                            *)
(***************************************************************************)
EXTENDS Sked, WellFoundedInduction, TLAPS

\* The inductive invariant: types, back pointers, loop bookkeeping and the
\* heap order with its loose edges.
IInv == TypeOK /\ IndexInv /\ LoopInv /\ HeapInv

------------------------------------------------------------------------------
\* A freshly initialised scheduler satisfies the invariant.
LEMMA InitIInv == Init => IInv
  BY SkedAssumption DEF Init, IInv, TypeOK, IndexInv, LoopInv, HeapInv, HeapEnd,
     Loose, when, SkedRecord, Garbage

\* A parent's index is a smaller one.
LEMMA Half ==
  \A i \in Nat : i >= 2 => /\ i \div 2 \in Nat /\ i \div 2 >= 1
                          /\ i \div 2 < i
  OBVIOUS

\* Queued records carry times.
LEMMA WhenType ==
  ASSUME TypeOK, IndexInv
  PROVE  HeapEnd \in Nat /\ \A k \in 1..HeapEnd : when(k) \in Nat
  BY DEF TypeOK, IndexInv, HeapEnd, when, SkedRecord

\* Swapping two queued records exchanges their times.
LEMMA SwapWhen ==
  ASSUME TypeOK, IndexInv, NEW i \in 1..HeapEnd, NEW j \in 1..HeapEnd,
         Swap(i, j)
  PROVE  \A k \in 1..HeapEnd :
            when(k)' = IF k = i THEN when(j) ELSE IF k = j THEN when(i)
                       ELSE when(k)
  BY DEF TypeOK, IndexInv, HeapEnd, when, Swap

\* Swapping two queued records keeps the types and the back pointers.
LEMMA SwapIndex ==
  ASSUME TypeOK, IndexInv, NEW i \in 1..HeapEnd, NEW j \in 1..HeapEnd, i # j,
         Swap(i, j), pc' = pc, victim' = victim
  PROVE  /\ m_records' \in [1..(m_allocated - 1) -> SkedRecord]
         /\ skedIndex' \in [Clients -> Nat]
         /\ IndexInv'
  <1>0. m_records[i].skc \in Clients /\ m_records[j].skc \in Clients
        /\ skedIndex[m_records[i].skc] = i /\ skedIndex[m_records[j].skc] = j
        /\ HeapEnd \in Nat /\ HeapEnd' = HeapEnd /\ m_allocated' = m_allocated
    BY DEF TypeOK, IndexInv, Swap, HeapEnd
  <1>1. m_records' \in [1..(m_allocated - 1) -> SkedRecord]
    BY DEF TypeOK, IndexInv, Swap, HeapEnd
  <1>2. skedIndex' \in [Clients -> Nat]
    BY <1>0 DEF TypeOK, IndexInv, Swap, HeapEnd
  <1>3. \A k \in 1..HeapEnd :
           m_records'[k].skc \in Clients /\ skedIndex'[m_records'[k].skc] = k
    BY <1>0 DEF TypeOK, IndexInv, Swap
  <1>4. \A c \in Clients :
          skedIndex'[c] # 0 /\ ~(pc = "siftDown" /\ c = victim') =>
             skedIndex'[c] \in 1..HeapEnd /\ m_records'[skedIndex'[c]].skc = c
    BY <1>0 DEF TypeOK, IndexInv, Swap
  <1> QED BY <1>0, <1>1, <1>2, <1>3, <1>4 DEF IndexInv

------------------------------------------------------------------------------
\* addClient: the new record is queued at the end, its only loose edge being
\* the one to its parent.
LEMMA AddClientStep ==
  ASSUME IInv, NEW c \in Clients, NEW w \in Nat, AddClient(c, w)
  PROVE  IInv'
  <1> USE SkedAssumption DEF IInv, AddClient, HeapEnd
  <1>1. TypeOK'
    BY DEF TypeOK, IndexInv, SkedRecord, Garbage
  <1>2. IndexInv'
    BY DEF TypeOK, IndexInv
  <1>3. LoopInv'
    BY DEF TypeOK, IndexInv, LoopInv
  <1>4. HeapInv'
    <2>1. /\ m_used \in Nat /\ HeapEnd = m_used /\ HeapEnd' = m_used + 1
          /\ pc = "app" /\ pc' = "siftUp" /\ index' = m_used + 1
      BY DEF TypeOK
    <2>2. \A i \in 1..m_used : when(i)' = when(i)
      BY DEF TypeOK, IndexInv, when
    <2>3. ASSUME NEW i \in 2..m_used PROVE when(i \div 2)' <= when(i)'
      BY <2>1, <2>2, Half DEF HeapInv, Loose
    <2>4. \A i \in 2..(m_used + 1) : i \div 2 # m_used + 1
      BY <2>1
    <2> QED BY <2>1, <2>3, <2>4 DEF HeapInv, Loose
  <1> QED BY <1>1, <1>2, <1>3, <1>4

\* The steps that leave the heap alone.
LEMMA QuietStep ==
  ASSUME IInv,
         \/ \E c \in Clients : AddClientNoMemory(c)
         \/ SiftUpDone
         \/ \E c \in Clients : DelClientIdle(c)
         \/ Tick
         \/ \E t \in 0..MaxTime : RunAll(t)
         \/ CallbackReturn
         \/ RunAllReturn
  PROVE  IInv'
  <1> USE SkedAssumption DEF IInv, HeapEnd, heapVars
  <1>1. CASE \E c \in Clients : AddClientNoMemory(c)
    BY <1>1 DEF AddClientNoMemory, TypeOK, IndexInv, LoopInv, HeapInv, Loose, when
  <1>2. CASE SiftUpDone
    <2>1. TypeOK' /\ IndexInv' /\ LoopInv'
      BY <1>2 DEF SiftUpDone, TypeOK, IndexInv, LoopInv
    <2>2. HeapInv'
      BY <1>2 DEF SiftUpDone, TypeOK, IndexInv, LoopInv, HeapInv, Loose, when,
                  after, SkedRecord
    <2> QED BY <2>1, <2>2
  <1>3. CASE \E c \in Clients : DelClientIdle(c)
    BY <1>3 DEF DelClientIdle, TypeOK, IndexInv, LoopInv, HeapInv, Loose, when
  <1>4. CASE \E t \in 0..MaxTime : RunAll(t)
    BY <1>4 DEF RunAll, TypeOK, IndexInv, LoopInv, HeapInv, Loose, when
  <1>5. CASE CallbackReturn
    BY <1>5 DEF CallbackReturn, TypeOK, IndexInv, LoopInv, HeapInv, Loose, when
  <1>6. CASE RunAllReturn
    BY <1>6 DEF RunAllReturn, TypeOK, IndexInv, LoopInv, HeapInv, Loose, when
  <1>7. CASE Tick
    BY <1>7 DEF Tick, TypeOK, IndexInv, LoopInv, HeapInv, Loose, when
  <1> QED BY <1>1, <1>2, <1>3, <1>4, <1>5, <1>6, <1>7

\* siftUp's iteration: the loose edge moves up one level.
LEMMA SiftUpStepInv ==
  ASSUME IInv, SiftUpStep
  PROVE  IInv'
  <1> USE DEF IInv, HeapEnd
  <1>0. /\ index \in 1..HeapEnd /\ index \div 2 \in 1..HeapEnd
        /\ index # index \div 2 /\ index > 1
    BY DEF SiftUpStep, LoopInv, TypeOK
  <1>1. /\ m_records' \in [1..(m_allocated - 1) -> SkedRecord]
        /\ skedIndex' \in [Clients -> Nat]
        /\ IndexInv'
    BY <1>0, SwapIndex DEF SiftUpStep
  <1>2. TypeOK' /\ LoopInv'
    <2>1. TypeOK'
      <3>1. index \div 2 \in Nat
        BY DEF TypeOK
      <3> QED BY <1>1, <3>1 DEF SiftUpStep, Swap, TypeOK
    <2>2. LoopInv'
      BY <1>0 DEF SiftUpStep, Swap, TypeOK, LoopInv
    <2> QED BY <2>1, <2>2
  <1>3. HeapInv'
    <2>0. PICK p \in Nat : p = index \div 2
      BY <1>0
    <2>1. /\ HeapEnd = m_used /\ HeapEnd' = m_used /\ m_used \in Nat
          /\ index' = p /\ index \in Nat /\ p \in Nat /\ pc = "siftUp" /\ pc' = pc
      BY <1>0, <2>0 DEF SiftUpStep, Swap, TypeOK
    <2>2. /\ \A k \in 1..m_used : when(k) \in Nat
          /\ \A k \in 1..m_used : when(k)' = IF k = p THEN when(index)
                     ELSE IF k = index THEN when(p) ELSE when(k)
      BY <1>0, <2>0, <2>1, WhenType, SwapWhen DEF SiftUpStep
    <2>3. when(index) <= when(p)
      BY <1>0, <2>0, <2>1, <2>2 DEF SiftUpStep, after
    <2>4. ASSUME NEW i \in 2..m_used, i # p PROVE when(i \div 2)' <= when(i)'
      <3>1. i # index => when(i \div 2) <= when(i)
        BY <2>0, <2>1 DEF HeapInv, Loose
      <3>2. i \div 2 = index => when(p) <= when(i)
        BY <1>0, <2>0, <2>1 DEF HeapInv
      <3>3. i \div 2 \in 1..m_used /\ i \div 2 # i
        BY <2>0, <2>1, <2>4, Half
      <3> QED BY <1>0, <2>0, <2>1, <2>2, <2>3, <2>4, <3>1, <3>2, <3>3
    <2>5. ASSUME NEW i \in 2..m_used, p > 1, i \div 2 = p
          PROVE  when(p \div 2)' <= when(i)'
      <3>1. when(p \div 2) <= when(p)
        BY <1>0, <2>0, <2>1, <2>5 DEF HeapInv, Loose
      <3>2. i # index => when(p) <= when(i)
        BY <2>0, <2>1, <2>5 DEF HeapInv, Loose
      <3>3. /\ p \div 2 \in 1..m_used /\ p \div 2 # p /\ p \div 2 # index
            /\ i # p
        BY <1>0, <2>0, <2>1, <2>5
      <3> QED BY <1>0, <2>0, <2>1, <2>2, <2>3, <3>1, <3>2, <3>3
    <2> QED BY <2>0, <2>1, <2>4, <2>5 DEF HeapInv, Loose
  <1> QED BY <1>1, <1>2, <1>3

\* remove's iteration: the victim moves up one level.
LEMMA RemoveUpStepInv ==
  ASSUME IInv, RemoveUpStep
  PROVE  IInv'
  <1> USE DEF IInv, HeapEnd
  <1>0. /\ index \in 1..HeapEnd /\ index \div 2 \in 1..HeapEnd
        /\ index # index \div 2 /\ index > 1
    BY DEF RemoveUpStep, LoopInv, TypeOK
  <1>1. /\ m_records' \in [1..(m_allocated - 1) -> SkedRecord]
        /\ skedIndex' \in [Clients -> Nat]
        /\ IndexInv'
    BY <1>0, SwapIndex DEF RemoveUpStep
  <1>2. TypeOK' /\ LoopInv'
    <2>1. /\ index \in 1..(m_used + 1) /\ index \div 2 \in 1..(m_used + 1)
          /\ victim \in Clients /\ m_records[index].skc = victim
          /\ index' = index \div 2 /\ UNCHANGED <<m_allocated, m_used>>
      BY <1>0 DEF RemoveUpStep, Swap, LoopInv, TypeOK
    <2>2. m_records'[index \div 2] = m_records[index]
      BY <1>0, <2>1 DEF RemoveUpStep, Swap, TypeOK, IndexInv
    <2>3. TypeOK'
      BY <1>1, <2>1 DEF RemoveUpStep, TypeOK
    <2>4. LoopInv'
      BY <2>1, <2>2 DEF RemoveUpStep, LoopInv
    <2> QED BY <2>3, <2>4
  <1>3. HeapInv'
    <2>0. PICK p \in Nat : p = index \div 2
      BY <1>0
    <2>1. /\ HeapEnd' = HeapEnd /\ HeapEnd \in Nat /\ index \in Nat /\ p \in Nat
          /\ index' = p /\ pc = "removeUp" /\ pc' = pc
      BY <1>0, <2>0 DEF RemoveUpStep, Swap, TypeOK
    <2>2. /\ \A k \in 1..HeapEnd : when(k) \in Nat
          /\ \A k \in 1..HeapEnd : when(k)' = IF k = p THEN when(index)
                     ELSE IF k = index THEN when(p) ELSE when(k)
      BY <1>0, <2>0, <2>1, WhenType, SwapWhen DEF RemoveUpStep
    <2>3. /\ \A i \in 2..HeapEnd : i # index /\ i \div 2 # index =>
                when(i \div 2) <= when(i)
          /\ \A i \in 2..HeapEnd : i \div 2 = index => when(p) <= when(i)
      BY <1>0, <2>0, <2>1 DEF HeapInv, Loose
    <2>4. ASSUME NEW i \in 2..HeapEnd, i # p, i \div 2 # p
          PROVE  when(i \div 2)' <= when(i)'
      <3>1. i \div 2 \in 1..HeapEnd /\ i \div 2 # i
        BY <2>0, <2>1, Half
      <3> QED BY <1>0, <2>0, <2>1, <2>2, <2>3, <2>4, <3>1
    <2>5. ASSUME NEW i \in 2..HeapEnd, p > 1, i \div 2 = p
          PROVE  when(p \div 2)' <= when(i)'
      <3>1. /\ p \div 2 \in 1..HeapEnd /\ p \div 2 # p /\ p \div 2 # index
            /\ i # p /\ p \in 2..HeapEnd
        BY <1>0, <2>0, <2>1, <2>5
      <3>2. when(p \div 2) <= when(p)
        BY <1>0, <2>0, <2>1, <2>3, <3>1
      <3>3. i # index => when(p) <= when(i)
        BY <1>0, <2>0, <2>1, <2>3, <2>5
      <3> QED BY <1>0, <2>0, <2>1, <2>2, <3>1, <3>2, <3>3
    <2> QED BY <2>0, <2>1, <2>4, <2>5 DEF HeapInv, Loose
  <1> QED BY <1>1, <1>2, <1>3

\* siftDown's iteration: the loose edges move down one level.
LEMMA SiftDownStepInv ==
  ASSUME IInv, SiftDownStep
  PROVE  IInv'
  <1> USE DEF IInv, HeapEnd
  <1>k. PICK k : k = LeastChild(index)
    OBVIOUS
  <1>0. /\ index \in 1..HeapEnd /\ k \in 1..HeapEnd
        /\ index # k /\ k \div 2 = index
        /\ \A i \in 2..m_used : i \div 2 = index => when(k) <= when(i)
    <2>1. /\ index \in 1..m_used /\ m_used \in Nat /\ HeapEnd = m_used
          /\ 2 * index <= m_used
      BY DEF SiftDownStep, LoopInv, TypeOK
    <2>2. \A i \in 1..m_used : when(i) \in Nat
      BY <2>1, WhenType
    <2>3. \A i \in 2..m_used : i \div 2 = index => i = 2 * index \/ i = 2 * index + 1
      BY <2>1
    <2>4. k \in 1..m_used /\ index # k /\ k \div 2 = index
      BY <1>k, <2>1 DEF LeastChild
    <2>5. \A i \in 2..m_used : i \div 2 = index => when(k) <= when(i)
      BY <1>k, <2>1, <2>2, <2>3 DEF LeastChild, after
    <2> QED BY <2>1, <2>4, <2>5
  <1>1. /\ m_records' \in [1..(m_allocated - 1) -> SkedRecord]
        /\ skedIndex' \in [Clients -> Nat]
        /\ IndexInv'
    BY <1>k, <1>0, SwapIndex DEF SiftDownStep
  <1>2. /\ pc = "siftDown" /\ Swap(k, index) /\ index' = k
        /\ ~after(when(k), when(index))
        /\ UNCHANGED <<pc, victim, current, clock, runNow, ret>>
    BY <1>k DEF SiftDownStep
  <1>3. TypeOK' /\ LoopInv'
    <2>1. TypeOK'
      BY <1>0, <1>1, <1>2 DEF Swap, TypeOK
    <2>2. ASSUME victim # NoClient
          PROVE  /\ skedIndex'[victim] # 0
                 /\ \A i \in 1..m_used : m_records'[i].skc # victim
      <3>1. /\ victim \in Clients /\ skedIndex[victim] # 0
            /\ \A i \in 1..m_used : m_records[i].skc # victim
        BY <1>2, <2>2 DEF LoopInv, TypeOK
      <3>2. HeapEnd = m_used /\ m_used < m_allocated /\ m_used \in Nat
        BY <1>2 DEF TypeOK, IndexInv
      <3>3. skedIndex'[victim] = skedIndex[victim]
        BY <1>0, <1>2, <3>1, <3>2 DEF Swap, TypeOK
      <3>4. \A i \in 1..m_used :
               m_records'[i] = IF i = k THEN m_records[index] ELSE
                               IF i = index THEN m_records[k] ELSE m_records[i]
        BY <1>0, <1>2, <3>2 DEF Swap, TypeOK
      <3>5. \A i \in 1..m_used : m_records'[i].skc # victim
        BY <1>0, <3>1, <3>2, <3>4
      <3> QED BY <3>1, <3>3, <3>5
    <2>3. LoopInv'
      BY <1>0, <1>2, <2>2 DEF Swap, TypeOK, LoopInv
    <2> QED BY <2>1, <2>3
  <1>4. HeapInv'
    <2>1. /\ HeapEnd = m_used /\ HeapEnd' = m_used /\ m_used \in Nat
          /\ index \in Nat /\ k \in Nat
      BY <1>0, <1>2 DEF Swap, TypeOK
    <2>2. /\ \A i \in 1..m_used : when(i) \in Nat
          /\ \A i \in 1..m_used : when(i)' = IF i = k THEN when(index)
                     ELSE IF i = index THEN when(k) ELSE when(i)
      BY <1>0, <1>2, <2>1, WhenType, SwapWhen
    <2>3. /\ \A i \in 2..m_used : i \div 2 # index => when(i \div 2) <= when(i)
          /\ index > 1 => \A i \in 2..m_used :
                i \div 2 = index => when(index \div 2) <= when(i)
      BY <1>2, <2>1 DEF HeapInv, Loose
    <2>4. when(k) <= when(index)
      BY <1>0, <1>2, <2>1, <2>2 DEF after
    <2>5. ASSUME NEW i \in 2..m_used, i \div 2 # k
          PROVE  when(i \div 2)' <= when(i)'
      <3>1. i \div 2 \in 1..m_used /\ i \div 2 # i
        BY <2>1, Half
      <3>2. CASE i \div 2 = index
        BY <1>0, <2>1, <2>2, <2>4, <2>5, <3>1, <3>2
      <3>3. CASE i \div 2 # index
        BY <1>0, <2>1, <2>2, <2>3, <2>5, <3>1, <3>3
      <3> QED BY <3>2, <3>3
    <2>6. ASSUME NEW i \in 2..m_used, k > 1, i \div 2 = k
          PROVE  when(k \div 2)' <= when(i)'
      <3>1. i # k /\ i # index
        BY <1>0, <2>1, <2>6
      <3>2. when(k) <= when(i)
        BY <1>0, <2>1, <2>3, <2>6
      <3> QED BY <1>0, <2>1, <2>2, <3>1, <3>2
    <2> QED BY <1>2, <2>1, <2>5, <2>6 DEF HeapInv, Loose
  <1> QED BY <1>1, <1>3, <1>4

\* siftDown's end closes the last loose edges and forgets the victim.
LEMMA SiftDownDoneInv ==
  ASSUME IInv, SiftDownDone
  PROVE  IInv'
  <1> USE DEF IInv, HeapEnd
  <1>1. TypeOK' /\ LoopInv'
    BY SkedAssumption DEF SiftDownDone, TypeOK, LoopInv
  <1>2. IndexInv'
    BY SkedAssumption DEF SiftDownDone, TypeOK, LoopInv, IndexInv
  <1>3. HeapInv'
    <2>1. /\ HeapEnd = m_used /\ HeapEnd' = m_used /\ m_used \in Nat
          /\ index \in 1..m_used /\ pc = "siftDown" /\ pc' = "app"
          /\ \A i \in Nat : when(i)' = when(i)
      BY DEF SiftDownDone, TypeOK, LoopInv, when
    <2>2. \A i \in 1..m_used : when(i) \in Nat
      BY <2>1, WhenType
    <2>3. ASSUME NEW i \in 2..m_used, i \div 2 = index
          PROVE  when(i \div 2) <= when(i)
      <3>1. i = 2 * index \/ i = 2 * index + 1
        BY <2>1, <2>3
      <3> QED BY <2>1, <2>2, <2>3, <3>1 DEF SiftDownDone, LeastChild, after
    <2>4. \A i \in 2..m_used : i \div 2 # index => when(i \div 2) <= when(i)
      BY <2>1 DEF HeapInv, Loose
    <2>5. \A i \in 2..m_used : when(i \div 2)' <= when(i)'
      BY <2>1, <2>3, <2>4
    <2> QED BY <2>1, <2>5 DEF HeapInv, Loose
  <1> QED BY <1>1, <1>2, <1>3

\* Deleting the only queued client empties the heap.
LEMMA DelClientLastInv ==
  ASSUME IInv, NEW c \in Clients, DelClientLast(c)
  PROVE  IInv'
  <1> USE DEF IInv, HeapEnd, DelClientLast
  <1>1. m_used = 1 /\ m_used' = 0 /\ skedIndex[c] = 1 /\ m_records[1].skc = c
    BY SkedAssumption DEF TypeOK, LoopInv, IndexInv
  <1>2. TypeOK'
    BY <1>1 DEF TypeOK
  <1>3. IndexInv'
    BY <1>1, SkedAssumption DEF TypeOK, LoopInv, IndexInv
  <1>4. LoopInv' /\ HeapInv'
    BY <1>1 DEF TypeOK, LoopInv, HeapInv, Loose
  <1> QED BY <1>2, <1>3, <1>4

\* Deleting one of several: the whole heap is still in order.
LEMMA DelClientInv ==
  ASSUME IInv, NEW c \in Clients, DelClient(c)
  PROVE  IInv'
  <1> USE DEF IInv, HeapEnd, DelClient
  <1>1. /\ HeapEnd = m_used /\ HeapEnd' = m_used /\ m_used \in Nat /\ m_used > 1
        /\ index' \in 1..m_used /\ index' = skedIndex[c]
        /\ m_records[skedIndex[c]].skc = c
    BY SkedAssumption DEF TypeOK, LoopInv, IndexInv
  <1>2. TypeOK'
    BY <1>1 DEF TypeOK
  <1>3. IndexInv'
    BY <1>1 DEF TypeOK, IndexInv
  <1>4. LoopInv'
    BY <1>1 DEF TypeOK, LoopInv
  <1>5. HeapInv'
    <2>1. /\ \A i \in 2..m_used : when(i \div 2) <= when(i)
          /\ \A i \in Nat : when(i)' = when(i)
          /\ \A i \in 1..m_used : when(i) \in Nat
      BY <1>1, WhenType DEF HeapInv, Loose, when
    <2>2. PICK x \in 1..m_used : x = index'
      BY <1>1
    <2>3. ASSUME NEW i \in 2..m_used, i \div 2 = x, x > 1
          PROVE  when(x \div 2) <= when(i)
      <3>1. when(x \div 2) <= when(x) /\ when(x) <= when(i)
        BY <1>1, <2>1, <2>3
      <3>2. x \div 2 \in 1..m_used
        BY <1>1, <2>3
      <3> QED BY <1>1, <2>1, <3>1, <3>2
    <2>4. \A i \in 2..m_used : when(i \div 2)' <= when(i)'
      BY <1>1, <2>1
    <2>5. x > 1 => \A i \in 2..m_used : i \div 2 = x => when(x \div 2)' <= when(i)'
      BY <1>1, <2>1, <2>3
    <2> QED BY <1>1, <2>2, <2>4, <2>5 DEF HeapInv
  <1> QED BY <1>2, <1>3, <1>4, <1>5

\* The last record replaces the victim at the root: only the root's edges
\* are loose.
LEMMA RemoveMoveLastInv ==
  ASSUME IInv, RemoveMoveLast
  PROVE  IInv'
  <1> USE DEF IInv, HeapEnd, LastToRoot
  <1>1. /\ pc = "removeUp" /\ index = 1 /\ HeapEnd = m_used + 1 /\ HeapEnd' = m_used
        /\ m_used \in Nat /\ m_used >= 1 /\ m_used + 1 < m_allocated
        /\ m_allocated \in Nat /\ m_used' = m_used
        /\ victim \in Clients /\ m_records[1].skc = victim /\ skedIndex[victim] = 1
    BY DEF RemoveMoveLast, TypeOK, LoopInv, IndexInv
  <1>2. PICK d : d = m_records[m_used + 1].skc
    OBVIOUS
  <1>3. /\ d \in Clients /\ skedIndex[d] = m_used + 1 /\ d # victim
    BY <1>1, <1>2 DEF IndexInv
  <1>4. m_records' = [m_records EXCEPT ![1] = m_records[m_used + 1]]
    BY DEF RemoveMoveLast
  <1>5. CASE m_used > 1
    <2>1. /\ skedIndex' = [skedIndex EXCEPT ![d] = 1]
          /\ pc' = "siftDown" /\ index' = 1
          /\ UNCHANGED <<victim, ret, m_allocated, m_used, current, clock, runNow>>
      BY <1>1, <1>2, <1>5 DEF RemoveMoveLast
    <2>2. TypeOK'
      BY <1>1, <1>3, <1>4, <2>1 DEF TypeOK
    <2>3. /\ \A i \in 2..m_used : m_records'[i] = m_records[i]
          /\ m_records'[1] = m_records[m_used + 1]
      BY <1>1, <1>4 DEF TypeOK
    <2>4. IndexInv'
      BY <1>1, <1>2, <1>3, <2>1, <2>3 DEF TypeOK, IndexInv
    <2>5. \A i \in 1..m_used : m_records'[i].skc # victim
      BY <1>1, <1>2, <1>3, <2>3 DEF IndexInv
    <2>6. LoopInv'
      BY <1>1, <1>3, <1>5, <2>1, <2>5, SkedAssumption DEF TypeOK, LoopInv
    <2>7. HeapInv'
      BY <1>1, <2>1, <2>3 DEF HeapInv, Loose, when
    <2> QED BY <2>2, <2>4, <2>6, <2>7
  <1>6. CASE m_used <= 1
    <2>1. /\ skedIndex' = [[skedIndex EXCEPT ![d] = 1] EXCEPT ![victim] = 0]
          /\ pc' = "app" /\ index' = 0 /\ victim' = NoClient /\ ret' = "ok"
          /\ UNCHANGED <<m_allocated, m_used, current, clock, runNow>>
      BY <1>1, <1>2, <1>6 DEF RemoveMoveLast
    <2>2. TypeOK'
      BY <1>1, <1>3, <1>4, <2>1 DEF TypeOK
    <2>3. m_used = 1 /\ m_records'[1] = m_records[2]
      BY <1>1, <1>4, <1>6 DEF TypeOK
    <2>4. IndexInv'
      <3>1. ASSUME NEW c \in Clients, c # victim, c # d PROVE skedIndex[c] = 0
        BY <1>1, <1>2, <2>3, <3>1 DEF IndexInv
      <3>2. /\ skedIndex'[victim] = 0 /\ skedIndex'[d] = 1
            /\ \A c \in Clients \ {victim, d} : skedIndex'[c] = skedIndex[c]
        BY <1>1, <1>3, <2>1 DEF TypeOK
      <3>3. /\ HeapEnd' = 1 /\ m_allocated' = m_allocated /\ 1 < m_allocated
            /\ m_records'[1].skc = d
        BY <1>1, <1>2, <2>1, <2>3
      <3>4. \A i \in 1..1 : /\ m_records'[i].skc \in Clients
                            /\ skedIndex'[m_records'[i].skc] = i
        BY <1>3, <3>2, <3>3
      <3>5. \A c \in Clients : skedIndex'[c] # 0 => c = d
        BY <3>1, <3>2
      <3>6. \A c \in Clients : skedIndex'[c] # 0 =>
               skedIndex'[c] \in 1..1 /\ m_records'[skedIndex'[c]].skc = c
        BY <3>2, <3>3, <3>5
      <3> HIDE DEF HeapEnd
      <3> QED BY <3>3, <3>4, <3>6 DEF IndexInv
    <2>5. LoopInv' /\ HeapInv'
      BY <1>1, <2>1, <2>3 DEF LoopInv, HeapInv, Loose
    <2> QED BY <2>2, <2>4, <2>5
  <1> QED BY <1>1, <1>5, <1>6

\* pop: the last record replaces the called client at the root.
LEMMA RunTopInv ==
  ASSUME IInv, RunTop
  PROVE  IInv'
  <1> USE DEF IInv, HeapEnd, LastToRoot
  <1>1. /\ pc = "runAll" /\ HeapEnd = m_used /\ m_used \in Nat /\ m_used >= 1
        /\ m_used < m_allocated /\ m_allocated \in Nat /\ m_used' = m_used - 1
        /\ victim = NoClient
    BY DEF RunTop, TopIsDue, TypeOK, LoopInv, IndexInv
  <1>2. PICK e : e = m_records[1].skc
    OBVIOUS
  <1>3. PICK d : d = m_records[m_used].skc
    OBVIOUS
  <1>4. /\ e \in Clients /\ skedIndex[e] = 1 /\ d \in Clients /\ skedIndex[d] = m_used
    BY <1>1, <1>2, <1>3 DEF IndexInv
  <1>5. /\ current' = e
        /\ UNCHANGED <<m_allocated, victim, clock, runNow, ret>>
    BY <1>2 DEF RunTop
  <1>6. CASE m_used > 1
    <2>1. /\ m_records' = [m_records EXCEPT ![1] = m_records[m_used]]
          /\ skedIndex' = [[skedIndex EXCEPT ![e] = 0] EXCEPT ![d] = 1]
      BY <1>2, <1>3, <1>6 DEF RunTop
    <2>2. pc' \in {"siftDown", "app"} /\ index' \in Nat
          /\ (pc' = "siftDown" => m_used > 2 /\ index' = 1)
          /\ (pc' = "app" => m_used <= 2)
      BY <1>1 DEF RunTop, TypeOK
    <2>3. TypeOK'
      BY <1>1, <1>4, <1>5, <2>1, <2>2 DEF TypeOK
    <2>4. /\ \A i \in 2..(m_used - 1) : m_records'[i] = m_records[i]
          /\ m_records'[1] = m_records[m_used]
      BY <1>1, <2>1 DEF TypeOK
    <2>5. IndexInv'
      <3>1. /\ HeapEnd' = m_used - 1 /\ m_allocated' = m_allocated /\ e # d
            /\ skedIndex'[d] = 1 /\ skedIndex'[e] = 0
            /\ \A c \in Clients \ {d, e} : skedIndex'[c] = skedIndex[c]
        BY <1>1, <1>4, <1>5, <1>6, <2>1, <2>2 DEF TypeOK
      <3>2. \A i \in 2..(m_used - 1) :
               /\ m_records[i].skc \in Clients \ {d, e}
               /\ skedIndex[m_records[i].skc] = i
        BY <1>1, <1>4 DEF IndexInv
      <3>3. \A i \in 1..(m_used - 1) :
               /\ m_records'[i].skc \in Clients
               /\ skedIndex'[m_records'[i].skc] = i
        BY <1>1, <1>3, <1>4, <2>4, <3>1, <3>2
      <3>4. ASSUME NEW c \in Clients, skedIndex'[c] # 0
            PROVE  /\ skedIndex'[c] \in 1..(m_used - 1)
                   /\ m_records'[skedIndex'[c]].skc = c
        <4>1. CASE c = d
          BY <1>1, <1>3, <1>6, <2>4, <3>1, <4>1
        <4>2. CASE c # d
          <5>1. c # e /\ skedIndex'[c] = skedIndex[c]
            BY <3>1, <3>4, <4>2
          <5>2. skedIndex[c] \in 1..m_used /\ m_records[skedIndex[c]].skc = c
            BY <1>1, <3>4, <5>1 DEF IndexInv
          <5>3. skedIndex[c] # 1 /\ skedIndex[c] # m_used
            BY <1>2, <1>3, <4>2, <5>1, <5>2
          <5> QED BY <1>1, <2>4, <5>1, <5>2, <5>3
        <4> QED BY <4>1, <4>2
      <3> QED BY <1>1, <3>1, <3>3, <3>4 DEF IndexInv
    <2>6. LoopInv'
      BY <1>1, <1>4, <1>5, <2>2, SkedAssumption DEF LoopInv
    <2>7. HeapInv'
      BY <1>1, <2>2, <2>4 DEF HeapInv, Loose, when
    <2> QED BY <2>3, <2>5, <2>6, <2>7
  <1>7. CASE m_used <= 1
    <2>1. /\ m_used' = 0 /\ m_records' = m_records /\ pc' = "app" /\ index' = index
          /\ skedIndex' = [skedIndex EXCEPT ![e] = 0] /\ e = d
      BY <1>1, <1>2, <1>3, <1>7 DEF RunTop
    <2>2. TypeOK'
      BY <1>1, <1>4, <1>5, <2>1 DEF TypeOK
    <2>3. IndexInv'
      BY <1>1, <1>2, <1>4, <1>5, <1>7, <2>1, SkedAssumption DEF TypeOK, IndexInv
    <2>4. LoopInv' /\ HeapInv'
      BY <1>1, <1>5, <2>1 DEF LoopInv, HeapInv, Loose
    <2> QED BY <2>2, <2>3, <2>4
  <1> QED BY <1>1, <1>6, <1>7

------------------------------------------------------------------------------
\* Every step keeps the invariant.
LEMMA NextIInv == IInv /\ [Next]_vars => IInv'
  <1> SUFFICES ASSUME IInv, [Next]_vars PROVE IInv'
    OBVIOUS
  <1>1. CASE \E c \in Clients : \E w \in 0..MaxTime : AddClient(c, w)
    BY <1>1, AddClientStep, SkedAssumption
  <1>2. CASE \/ \E c \in Clients : AddClientNoMemory(c)
             \/ SiftUpDone
             \/ \E c \in Clients : DelClientIdle(c)
             \/ Tick
             \/ \E t \in 0..MaxTime : RunAll(t)
             \/ CallbackReturn
             \/ RunAllReturn
    BY <1>2, QuietStep
  <1>3. CASE SiftUpStep
    BY <1>3, SiftUpStepInv
  <1>4. CASE \E c \in Clients : DelClientLast(c)
    BY <1>4, DelClientLastInv
  <1>5. CASE \E c \in Clients : DelClient(c)
    BY <1>5, DelClientInv
  <1>6. CASE RemoveUpStep
    BY <1>6, RemoveUpStepInv
  <1>7. CASE RemoveMoveLast
    BY <1>7, RemoveMoveLastInv
  <1>8. CASE SiftDownStep
    BY <1>8, SiftDownStepInv
  <1>9. CASE SiftDownDone
    BY <1>9, SiftDownDoneInv
  <1>10. CASE RunTop
    BY <1>10, RunTopInv
  <1>11. CASE UNCHANGED vars
    BY <1>11 DEF vars, IInv, TypeOK, IndexInv, LoopInv, HeapInv, HeapEnd, Loose, when
  <1> QED
    BY <1>1, <1>2, <1>3, <1>4, <1>5, <1>6, <1>7, <1>8, <1>9, <1>10, <1>11
    DEF Next

\* The types, the back pointers, the loops' bookkeeping and the heap order
\* (Sked::isHeap and the comments of siftUp, siftDown and remove) hold in every
\* reachable state, for any number of clients.
THEOREM HeapCorrect == Spec => [](TypeOK /\ IndexInv /\ LoopInv /\ HeapInv)
  <1>1. Spec => []IInv
    BY InitIInv, NextIInv, PTL DEF Spec
  <1> QED BY <1>1, PTL DEF IInv

(***************************************************************************)
(* The back pointers are right for any number of clients: the record at i  *)
(* belongs to a client whose skedIndex is i, and a client whose skedIndex  *)
(* is not 0 finds its record there, in the middle of siftUp, siftDown and  *)
(* runAll's loop as well (Sked.cc: setCurrent and the moves of the sifts). *)
(***************************************************************************)
THEOREM IndicesAreRight == Spec => []IndexInv
  <1> QED BY HeapCorrect, PTL

(***************************************************************************)
(* The scheduler's type invariant for any number of clients: every record  *)
(* in the array has the type of one, and the array is as long as           *)
(* m_allocated says whenever push has made it grow.                        *)
(***************************************************************************)
THEOREM SkedTypes == Spec => []TypeOK
  <1> QED BY HeapCorrect, PTL

------------------------------------------------------------------------------
\* When no edge is loose the root is a minimum of the whole heap: were some
\* record earlier, the first such one would have a parent that is earlier too.
LEMMA RootIsLeast ==
  ASSUME IInv, pc \in {"app", "runAll"}
  PROVE  \A i \in 1..m_used : when(1) <= when(i)
  <1>1. /\ m_used \in Nat /\ HeapEnd = m_used
        /\ \A i \in 2..m_used : when(i \div 2) <= when(i)
        /\ \A i \in 1..m_used : when(i) \in Nat
    BY WhenType DEF IInv, TypeOK, HeapEnd, HeapInv, Loose
  <1> DEFINE S == {i \in 1..m_used : when(i) < when(1)}
  <1>2. ASSUME S # {} PROVE FALSE
    <2>0. S \subseteq Nat
      BY <1>1
    <2>1. PICK n \in S : \A m \in S : n <= m
      <3> HIDE DEF S
      <3>1. PICK n \in S : \A m \in S : ~(<<m, n>> \in OpToRel(<, Nat))
        BY <1>2, <2>0, NatLessThanWellFounded, WFMin
      <3>2. \A m \in S : ~(m < n)
        BY <2>0, <3>1 DEF OpToRel
      <3> QED BY <2>0, <3>2
    <2>2. n \in 2..m_used /\ n \div 2 \in 1..m_used /\ n \div 2 < n
      BY <1>1, <2>1
    <2>3. when(n \div 2) <= when(n) /\ when(n) < when(1)
      BY <1>1, <2>1, <2>2
    <2>4. n \div 2 \in S
      BY <1>1, <2>2, <2>3
    <2> QED BY <1>1, <2>1, <2>2, <2>4
  <1> QED BY <1>1, <1>2

\* nextTime() never lets the main loop oversleep an event, and runAll's
\* consistency check of the top record never fails.
THEOREM EarliestFirst == Spec => [](NextTimeIsEarliest /\ NeverEINVAL)
  <1> DEFINE Inv == IInv /\ NeverEINVAL
  <1>1. Init => Inv
    BY InitIInv DEF Init, NeverEINVAL
  <1>2. Inv /\ [Next]_vars => Inv'
    <2> SUFFICES ASSUME IInv, NeverEINVAL, [Next]_vars PROVE NeverEINVAL'
      BY NextIInv
    <2>1. CASE RunAllReturn
      <3>1. TopIsDue => TopIsValid
        BY <2>1 DEF RunAllReturn, TopIsDue, TopIsValid, IInv, TypeOK, IndexInv, HeapEnd
      <3> QED BY <2>1, <3>1 DEF RunAllReturn, NeverEINVAL
    <2>2. CASE ~RunAllReturn
      BY <2>2 DEF NeverEINVAL, Next, vars, AddClient, AddClientNoMemory,
         SiftUpStep, SiftUpDone, DelClientIdle, DelClientLast, DelClient,
         RemoveUpStep, RemoveMoveLast, SiftDownStep, SiftDownDone, RunAll,
         RunTop, CallbackReturn, Tick, heapVars
    <2> QED BY <2>1, <2>2
  <1>3. IInv => NextTimeIsEarliest
    BY RootIsLeast, SkedAssumption
    DEF IInv, NextTimeIsEarliest, nextTime, TypeOK, LoopInv, IndexInv, HeapEnd
  <1> QED BY <1>1, <1>2, <1>3, PTL DEF Spec

------------------------------------------------------------------------------
(***************************************************************************)
(* The heap of Sked.tla implements the schedule of SkedAbs.tla: every      *)
(* step of a loop inside push, pop or remove leaves the abstract schedule  *)
(* alone, and every other step is the operation it is named for.           *)
(***************************************************************************)

\* The schedule, one client at a time.
LEMMA PendingBarAt ==
  /\ pendingBar = [c \in Clients |-> pendingBar[c]]
  /\ \A c \in Clients :
       pendingBar[c] = IF skedIndex[c] = 0 \/ c = victim THEN NotPending
                       ELSE when(skedIndex[c])
  BY DEF pendingBar

\* A scheduled client has a record in the heap, with a time.
LEMMA PendingHasTime ==
  ASSUME IInv, NEW c \in Clients, skedIndex[c] # 0, c # victim
  PROVE  /\ skedIndex[c] \in 1..HeapEnd
         /\ m_records[skedIndex[c]].skc = c
         /\ when(skedIndex[c]) \in Nat
         /\ pendingBar[c] = when(skedIndex[c])
         /\ pendingBar[c] # NotPending
  <1>1. skedIndex[c] \in 1..HeapEnd /\ m_records[skedIndex[c]].skc = c
    BY DEF IInv, IndexInv
  <1>2. when(skedIndex[c]) \in Nat
    BY <1>1, WhenType DEF IInv
  <1> QED BY <1>1, <1>2, PendingBarAt, SkedAssumption

\* Two states with the same schedule client by client have the same schedule.
LEMMA SamePending ==
  ASSUME \A c \in Clients : pendingBar'[c] = pendingBar[c]
  PROVE  pendingBar' = pendingBar
  BY DEF pendingBar

\* Swapping two records does not change the schedule.
LEMMA SwapPending ==
  ASSUME IInv, NEW i \in 1..HeapEnd, NEW j \in 1..HeapEnd, i # j, Swap(i, j),
         victim' = victim
  PROVE  pendingBar' = pendingBar
  <1>1. /\ m_records[i].skc \in Clients /\ m_records[j].skc \in Clients
        /\ skedIndex[m_records[i].skc] = i /\ skedIndex[m_records[j].skc] = j
        /\ HeapEnd \in Nat
    BY WhenType DEF IInv, IndexInv
  <1>2. \A k \in 1..HeapEnd :
            when(k)' = IF k = i THEN when(j) ELSE IF k = j THEN when(i)
                       ELSE when(k)
    BY SwapWhen DEF IInv
  <1>3. \A c \in Clients :
            skedIndex'[c] = IF c = m_records[i].skc THEN j ELSE
                            IF c = m_records[j].skc THEN i ELSE skedIndex[c]
    BY <1>1 DEF Swap, IInv, TypeOK
  <1>4. ASSUME NEW c \in Clients PROVE pendingBar'[c] = pendingBar[c]
    <2>1. pendingBar'[c] = IF skedIndex'[c] = 0 \/ c = victim THEN NotPending
                           ELSE m_records'[skedIndex'[c]].when
      BY DEF pendingBar, when
    <2>2. CASE c = victim
      BY <2>1, <2>2, PendingBarAt
    <2>3. CASE c # victim /\ skedIndex[c] = 0
      BY <1>1, <1>3, <2>1, <2>3, PendingBarAt
    <2>4. CASE c # victim /\ skedIndex[c] # 0
      <3>1. /\ skedIndex[c] \in 1..HeapEnd /\ m_records[skedIndex[c]].skc = c
            /\ pendingBar[c] = when(skedIndex[c])
        BY <2>4, PendingHasTime
      <3>2. /\ skedIndex'[c] \in 1..HeapEnd
            /\ when(skedIndex[c]) = IF c = m_records[i].skc THEN when(i) ELSE
                 IF c = m_records[j].skc THEN when(j) ELSE when(skedIndex[c])
        BY <1>1, <1>3, <3>1
      <3>3. m_records'[skedIndex'[c]].when = when(skedIndex[c])
        BY <1>1, <1>2, <1>3, <3>1, <3>2 DEF when
      <3> QED BY <1>1, <2>1, <2>4, <3>1, <3>2, <3>3
    <2> QED BY <2>2, <2>3, <2>4
  <1> QED BY <1>4, SamePending

\* The steps of the loops, and the calls that change nothing, are stutters.
LEMMA LoopStutters ==
  ASSUME IInv,
         \/ SiftUpStep \/ SiftUpDone
         \/ RemoveUpStep \/ RemoveMoveLast
         \/ SiftDownStep \/ SiftDownDone
         \/ \E c \in Clients : AddClientNoMemory(c) \/ DelClientIdle(c)
         \/ Tick
  PROVE  UNCHANGED <<pendingBar, InRunAll, runNow, current>>
  <1> USE SkedAssumption
  <1>1. UNCHANGED <<InRunAll, runNow, current>>
    BY DEF InRunAll, SiftUpStep, SiftUpDone, RemoveUpStep, RemoveMoveLast,
           SiftDownStep, SiftDownDone, AddClientNoMemory, DelClientIdle, Tick,
           heapVars
  <1>2. pendingBar' = pendingBar
    <2>1. CASE SiftUpStep
      <3>1. /\ index \in 1..HeapEnd /\ index \div 2 \in 1..HeapEnd
            /\ index # index \div 2
        BY <2>1 DEF SiftUpStep, IInv, LoopInv, TypeOK, HeapEnd
      <3> QED BY <2>1, <3>1, SwapPending DEF SiftUpStep
    <2>2. CASE RemoveUpStep
      <3>1. /\ index \in 1..HeapEnd /\ index \div 2 \in 1..HeapEnd
            /\ index # index \div 2
        BY <2>2 DEF RemoveUpStep, IInv, LoopInv, TypeOK, HeapEnd
      <3> QED BY <2>2, <3>1, SwapPending DEF RemoveUpStep
    <2>3. CASE SiftDownStep
      <3>1. /\ index \in 1..HeapEnd /\ LeastChild(index) \in 1..HeapEnd
            /\ index # LeastChild(index)
        BY <2>3 DEF SiftDownStep, LeastChild, IInv, LoopInv, TypeOK, HeapEnd
      <3> QED BY <2>3, <3>1, SwapPending DEF SiftDownStep
    <2>4. CASE \/ SiftUpDone \/ Tick
               \/ \E c \in Clients : AddClientNoMemory(c) \/ DelClientIdle(c)
      BY <2>4 DEF SiftUpDone, Tick, AddClientNoMemory, DelClientIdle, heapVars,
                  pendingBar, when
    <2>5. CASE SiftDownDone
      <3>1. ASSUME NEW c \in Clients PROVE pendingBar'[c] = pendingBar[c]
        BY <2>5 DEF SiftDownDone, pendingBar, when, IInv, TypeOK
      <3> QED BY <3>1, SamePending
    <2>6. CASE RemoveMoveLast
      <3>1. /\ pc = "removeUp" /\ index = 1 /\ HeapEnd = m_used + 1
            /\ m_used \in Nat /\ m_used >= 1 /\ m_used + 1 < m_allocated
            /\ m_allocated \in Nat
            /\ victim \in Clients /\ m_records[1].skc = victim /\ skedIndex[victim] = 1
        BY <2>6 DEF RemoveMoveLast, IInv, TypeOK, LoopInv, IndexInv, HeapEnd
      <3>2. PICK d : d = m_records[m_used + 1].skc
        OBVIOUS
      <3>3. d \in Clients /\ skedIndex[d] = m_used + 1 /\ d # victim
        BY <3>1, <3>2 DEF IInv, IndexInv
      <3>4. /\ \A i \in 2..(m_used + 1) : m_records'[i] = m_records[i]
            /\ m_records'[1] = m_records[m_used + 1]
        BY <2>6, <3>1 DEF RemoveMoveLast, LastToRoot, IInv, TypeOK
      <3>5. /\ skedIndex'[d] = 1
            /\ \A c \in Clients \ {d, victim} : skedIndex'[c] = skedIndex[c]
            /\ skedIndex'[victim] = 0 \/ victim' = victim
            /\ victim' \in {victim, NoClient}
        BY <2>6, <3>1, <3>2, <3>3 DEF RemoveMoveLast, IInv, TypeOK
      <3>6. ASSUME NEW c \in Clients PROVE pendingBar'[c] = pendingBar[c]
        <4>1. pendingBar'[c] = IF skedIndex'[c] = 0 \/ c = victim' THEN NotPending
                               ELSE m_records'[skedIndex'[c]].when
          BY DEF pendingBar, when
        <4>2. CASE c = victim
          BY <3>5, <4>1, <4>2, PendingBarAt
        <4>3. CASE c = d
          <5>1. pendingBar[c] = m_records[m_used + 1].when
            BY <3>1, <3>3, <4>3, PendingBarAt DEF when
          <5> QED BY <3>3, <3>4, <3>5, <4>1, <4>3, <5>1
        <4>4. CASE c # victim /\ c # d /\ skedIndex[c] # 0
          <5>1. /\ skedIndex[c] \in 1..(m_used + 1) /\ m_records[skedIndex[c]].skc = c
                /\ pendingBar[c] = m_records[skedIndex[c]].when
            BY <3>1, <4>4, PendingHasTime DEF when
          <5>2. skedIndex[c] \in 2..(m_used + 1)
            BY <3>1, <4>4, <5>1
          <5> QED BY <3>4, <3>5, <4>1, <4>4, <5>1, <5>2
        <4>5. CASE c # victim /\ c # d /\ skedIndex[c] = 0
          BY <3>5, <4>1, <4>5, PendingBarAt
        <4> QED BY <4>2, <4>3, <4>4, <4>5
      <3> QED BY <3>6, SamePending
    <2> QED BY <2>1, <2>2, <2>3, <2>4, <2>5, <2>6
  <1> QED BY <1>1, <1>2

\* addClient schedules its client.
LEMMA AddRefines ==
  ASSUME IInv, NEW c \in Clients, NEW w \in Nat, AddClient(c, w)
  PROVE  Abs!Add(c, w)
  <1> USE SkedAssumption
  <1>1. /\ victim = NoClient /\ victim' = NoClient /\ c # NoClient /\ pc = "app"
        /\ m_used \in Nat /\ m_allocated \in Nat /\ m_used < m_allocated
        /\ skedIndex[c] = 0 /\ HeapEnd = m_used
    BY DEF AddClient, IInv, TypeOK, LoopInv, IndexInv, HeapEnd
  <1>2. InRunAll' = InRunAll /\ (InRunAll => current # NoClient)
        /\ UNCHANGED <<runNow, current>>
    BY DEF AddClient, InRunAll
  <1>3. pendingBar[c] = NotPending
    BY <1>1, PendingBarAt
  <1>4. /\ \A i \in 1..m_used : m_records'[i] = m_records[i]
        /\ m_records'[m_used + 1].when = w
        /\ skedIndex' = [skedIndex EXCEPT ![c] = m_used + 1]
    BY <1>1 DEF AddClient, IInv, TypeOK
  <1>5. ASSUME NEW d \in Clients
        PROVE  pendingBar'[d] = IF d = c THEN w ELSE pendingBar[d]
    <2>1. pendingBar'[d] = IF skedIndex'[d] = 0 \/ d = victim' THEN NotPending
                           ELSE m_records'[skedIndex'[d]].when
      BY DEF pendingBar, when
    <2>2. CASE d = c
      BY <1>1, <1>4, <2>1, <2>2 DEF IInv, TypeOK
    <2>3. CASE d # c /\ skedIndex[d] # 0
      <3>1. /\ skedIndex[d] \in 1..m_used
            /\ pendingBar[d] = m_records[skedIndex[d]].when
        BY <1>1, <2>3, PendingHasTime DEF when
      <3> QED BY <1>1, <1>4, <2>1, <2>3, <3>1 DEF IInv, TypeOK
    <2>4. CASE d # c /\ skedIndex[d] = 0
      BY <1>1, <1>4, <2>1, <2>4, PendingBarAt DEF IInv, TypeOK
    <2> QED BY <2>2, <2>3, <2>4
  <1>6. pendingBar' = [pendingBar EXCEPT ![c] = w]
    BY <1>5 DEF pendingBar
  <1> QED BY <1>2, <1>3, <1>6 DEF Abs!Add, Abs!IsPending

\* delClient unschedules its client.
LEMMA DelRefines ==
  ASSUME IInv, NEW c \in Clients, DelClient(c) \/ DelClientLast(c)
  PROVE  Abs!Del(c)
  <1> USE SkedAssumption
  <1>1. /\ victim = NoClient /\ pc = "app" /\ m_records' = m_records
        /\ UNCHANGED <<runNow, current>>
    BY DEF DelClient, DelClientLast, IInv, LoopInv
  <1>2. InRunAll' = InRunAll /\ (InRunAll => current # NoClient)
    BY DEF DelClient, DelClientLast, InRunAll
  <1>3. ASSUME NEW d \in Clients
        PROVE  pendingBar'[d] = IF d = c THEN NotPending ELSE pendingBar[d]
    BY <1>1 DEF DelClient, DelClientLast, pendingBar, when, IInv, TypeOK
  <1>4. pendingBar' = [pendingBar EXCEPT ![c] = NotPending]
    BY <1>3 DEF pendingBar
  <1> QED BY <1>1, <1>2, <1>4 DEF Abs!Del

\* runAll calls an earliest due client.
LEMMA FireRefines ==
  ASSUME IInv, RunTop
  PROVE  \E c \in Clients : Abs!Fire(c)
  <1> USE SkedAssumption
  <1>1. /\ pc = "runAll" /\ HeapEnd = m_used /\ m_used \in Nat /\ m_used >= 1
        /\ m_used < m_allocated /\ m_allocated \in Nat
        /\ victim = NoClient /\ victim' = NoClient /\ current = NoClient
        /\ runNow' = runNow /\ runNow \in Nat
    BY DEF RunTop, TopIsDue, IInv, TypeOK, LoopInv, IndexInv, HeapEnd
  <1>2. PICK e : e = m_records[1].skc
    OBVIOUS
  <1>3. PICK d : d = m_records[m_used].skc
    OBVIOUS
  <1>4. /\ e \in Clients /\ skedIndex[e] = 1 /\ d \in Clients /\ skedIndex[d] = m_used
        /\ current' = e /\ e # NoClient
    BY <1>1, <1>2, <1>3 DEF RunTop, IInv, IndexInv
  <1>5. /\ pendingBar[e] = when(1) /\ pendingBar[e] # NotPending
        /\ pendingBar[e] <= runNow
    <2>1. pendingBar[e] = when(1) /\ when(1) \in Nat /\ pendingBar[e] # NotPending
      BY <1>1, <1>4, PendingHasTime
    <2> QED BY <1>1, <2>1 DEF RunTop, TopIsDue, after
  <1>6. ASSUME NEW c \in Clients, pendingBar[c] # NotPending
        PROVE  pendingBar[e] <= pendingBar[c]
    <2>1. skedIndex[c] # 0
      BY <1>6, PendingBarAt
    <2>2. skedIndex[c] \in 1..m_used /\ pendingBar[c] = when(skedIndex[c])
      BY <1>1, <2>1, PendingHasTime
    <2> QED BY <1>1, <1>5, <2>2, RootIsLeast
  <1>7. /\ skedIndex'[e] = 0
        /\ \A c \in Clients \ {d, e} : skedIndex'[c] = skedIndex[c]
        /\ d # e => skedIndex'[d] = 1 /\ m_used > 1
        /\ m_used > 1 => m_records'[1] = m_records[m_used]
        /\ \A i \in 2..m_used : m_records'[i] = m_records[i]
    BY <1>1, <1>2, <1>3, <1>4 DEF RunTop, LastToRoot, IInv, TypeOK
  <1>8. ASSUME NEW c \in Clients
        PROVE  pendingBar'[c] = IF c = e THEN NotPending ELSE pendingBar[c]
    <2>1. pendingBar'[c] = IF skedIndex'[c] = 0 \/ c = victim' THEN NotPending
                           ELSE m_records'[skedIndex'[c]].when
      BY DEF pendingBar, when
    <2>2. CASE c = e
      BY <1>7, <2>1, <2>2
    <2>3. CASE c # e /\ c = d
      <3>1. pendingBar[c] = m_records[m_used].when
        BY <1>1, <1>4, <2>3, PendingHasTime DEF when
      <3> QED BY <1>1, <1>7, <2>1, <2>3, <3>1
    <2>4. CASE c # e /\ c # d /\ skedIndex[c] # 0
      <3>1. /\ skedIndex[c] \in 1..m_used /\ m_records[skedIndex[c]].skc = c
            /\ pendingBar[c] = m_records[skedIndex[c]].when
        BY <1>1, <2>4, PendingHasTime DEF when
      <3>2. skedIndex[c] \in 2..m_used
        BY <1>1, <1>2, <2>4, <3>1
      <3> QED BY <1>1, <1>7, <2>1, <2>4, <3>1, <3>2
    <2>5. CASE c # e /\ c # d /\ skedIndex[c] = 0
      BY <1>7, <2>1, <2>5, PendingBarAt
    <2> QED BY <2>2, <2>3, <2>4, <2>5
  <1>9. pendingBar' = [pendingBar EXCEPT ![e] = NotPending]
    BY <1>8 DEF pendingBar
  <1>10. InRunAll /\ InRunAll' /\ InRunAll' = InRunAll
    BY <1>1, <1>4 DEF InRunAll
  <1> QED BY <1>1, <1>4, <1>5, <1>6, <1>9, <1>10 DEF Abs!Fire, Abs!IsPending

\* runAll returns only when nothing is due.
LEMMA EndRefines ==
  ASSUME IInv, RunAllReturn
  PROVE  Abs!End
  <1> USE SkedAssumption
  <1>1. /\ pc = "runAll" /\ HeapEnd = m_used /\ m_used \in Nat
        /\ victim = NoClient /\ current = NoClient /\ current' = current
        /\ runNow' = runNow /\ runNow \in Nat /\ pc' = "app"
    BY DEF RunAllReturn, IInv, TypeOK, LoopInv, IndexInv, HeapEnd
  <1>2. ~TopIsDue
    BY DEF RunAllReturn, TopIsDue, TopIsValid, IInv, TypeOK, IndexInv, HeapEnd
  <1>3. ASSUME NEW c \in Clients, pendingBar[c] # NotPending
        PROVE  pendingBar[c] > runNow
    <2>1. skedIndex[c] # 0
      BY <1>3, PendingBarAt
    <2>2. /\ skedIndex[c] \in 1..m_used /\ pendingBar[c] = when(skedIndex[c])
          /\ when(skedIndex[c]) \in Nat
      BY <1>1, <2>1, PendingHasTime
    <2>3. when(1) \in Nat /\ when(1) > runNow
      BY <1>1, <1>2, <2>2, WhenType DEF TopIsDue, after, IInv
    <2> QED BY <1>1, <2>2, <2>3, RootIsLeast
  <1>4. pendingBar' = pendingBar
    BY DEF RunAllReturn, heapVars, pendingBar, when
  <1>5. InRunAll /\ InRunAll' = FALSE
    BY <1>1 DEF InRunAll
  <1> QED BY <1>1, <1>3, <1>4, <1>5 DEF Abs!End, Abs!NothingDue, Abs!IsPending

\* The scheduler implements its abstract specification, for every number of
\* clients: runAll calls an earliest due client, never a deleted one, and
\* returns only when nothing is due.
THEOREM SkedImplementsAbs == Spec => ImplementsAbs
  <1>1. Init => Abs!Init
    BY SkedAssumption DEF Init, Abs!Init, pendingBar, InRunAll
  <1>2. IInv /\ [Next]_vars => [Abs!Next]_(Abs!absVars)
    <2> SUFFICES ASSUME IInv, [Next]_vars PROVE [Abs!Next]_(Abs!absVars)
      OBVIOUS
    <2>1. CASE \E c \in Clients : \E w \in 0..MaxTime : AddClient(c, w)
      <3>1. PICK c \in Clients, w \in 0..MaxTime : AddClient(c, w)
        BY <2>1
      <3>2. w \in Nat
        BY SkedAssumption
      <3>3. Abs!Add(c, w)
        BY <3>1, <3>2, AddRefines
      <3> QED BY <3>3 DEF Abs!Next
    <2>2. CASE \E c \in Clients : DelClient(c) \/ DelClientLast(c)
      BY <2>2, DelRefines DEF Abs!Next
    <2>3. CASE \E t \in 0..MaxTime : RunAll(t)
      <3>1. PICK t \in 0..MaxTime : RunAll(t)
        BY <2>3
      <3>2. pendingBar' = pendingBar
        BY <3>1 DEF RunAll, heapVars, pendingBar, when
      <3>3. ~InRunAll /\ InRunAll' = TRUE
        BY <3>1 DEF RunAll, InRunAll
      <3>4. Abs!Begin(t)
        BY <3>1, <3>2, <3>3 DEF RunAll, Abs!Begin
      <3> QED BY <3>4 DEF Abs!Next
    <2>4. CASE RunTop
      BY <2>4, FireRefines DEF Abs!Next
    <2>5. CASE CallbackReturn
      <3>1. pendingBar' = pendingBar
        BY <2>5 DEF CallbackReturn, heapVars, pendingBar, when
      <3>2. InRunAll /\ InRunAll' = InRunAll
        BY <2>5 DEF CallbackReturn, InRunAll
      <3> QED BY <2>5, <3>1, <3>2 DEF CallbackReturn, Abs!CallbackReturn, Abs!Next
    <2>6. CASE RunAllReturn
      BY <2>6, EndRefines DEF Abs!Next
    <2>7. CASE \/ SiftUpStep \/ SiftUpDone
               \/ RemoveUpStep \/ RemoveMoveLast
               \/ SiftDownStep \/ SiftDownDone
               \/ \E c \in Clients : AddClientNoMemory(c) \/ DelClientIdle(c)
               \/ Tick
      BY <2>7, LoopStutters DEF Abs!absVars
    <2>8. CASE UNCHANGED vars
      BY <2>8 DEF vars, Abs!absVars, pendingBar, InRunAll, when
    <2> QED BY <2>1, <2>2, <2>3, <2>4, <2>5, <2>6, <2>7, <2>8 DEF Next
  <1>3. Spec => []IInv
    BY InitIInv, NextIInv, PTL DEF Spec
  <1> QED BY <1>1, <1>2, <1>3, PTL DEF Spec, ImplementsAbs, Abs!Spec
==============================================================================
