---------------------------- MODULE CorbaBenchProof ----------------------------
(***************************************************************************)
(* The remote benchmark ends when it should, and leaves nobody running,    *)
(* for any number of servers and users and any duration that the clock can *)
(* tell.                                                                   *)
(***************************************************************************)
EXTENDS CorbaBench, TLAPS

--------------------------------------------------------------------------------
(***************************************************************************)
(* Why times that wrap may be compared by the sign of their difference     *)
(* (eclock.h: "Safe way to compare"), and when.                            *)
(***************************************************************************)

(***************************************************************************)
(* Whatever the number of bits, the representation of a number is in the   *)
(* range and differs from the number by a multiple of the range's size.    *)
(***************************************************************************)
LEMMA SignedIsCongruent ==
    ASSUME NEW half \in Nat \ {0}, NEW x \in Int
    PROVE  /\ Signed(x, half) \in -half .. half - 1
           /\ \E k \in Int : Signed(x, half) = x + 2 * half * k
<1> DEFINE n == 2 * half
           r == (x + half) % n
           q == (x + half) \div n
<1>1. n \in Nat /\ n > 0
    OBVIOUS
<1>2. /\ r \in 0 .. n - 1
      /\ q \in Int
      /\ x + half = n * q + r
    <2> HIDE DEF n
    <2> QED BY <1>1
<1>3. Signed(x, half) = r - half
    BY DEF Signed
<1>4. Signed(x, half) = x + n * (-q)
    <2>1. n * (-q) = -(n * q)
        <3> HIDE DEF n, q
        <3> QED BY <1>1, <1>2
    <2> HIDE DEF n, q, r
    <2> QED BY <1>1, <1>2, <1>3, <2>1
<1>5. Signed(x, half) \in -half .. half - 1
    <2> HIDE DEF r
    <2> QED BY <1>2, <1>3
<1>6. -q \in Int /\ Signed(x, half) = x + 2 * half * (-q)
    <2> HIDE DEF q
    <2> QED BY <1>2, <1>4
<1> HIDE DEF n, r, q
<1> QED
    BY <1>5, <1>6

(***************************************************************************)
(* No two numbers of the range differ by a multiple of its size: the one   *)
(* that is congruent to x is its representation.                           *)
(***************************************************************************)
LEMMA SignedIsUnique ==
    ASSUME NEW half \in Nat \ {0}, NEW x \in Int, NEW y \in -half .. half - 1,
           NEW k \in Int, x = y + 2 * half * k
    PROVE  Signed(x, half) = y
<1>1. PICK j \in Int : Signed(x, half) = x + 2 * half * j
    BY SignedIsCongruent
<1>2. Signed(x, half) \in -half .. half - 1
    BY SignedIsCongruent
<1>3. Signed(x, half) = y + 2 * half * (k + j)
    <2>1. 2 * half * k + 2 * half * j = 2 * half * (k + j)
        OBVIOUS
    <2> QED BY <1>1, <2>1
<1>4. PICK n \in Int : n = k + j
    OBVIOUS
<1>5. n >= 1 => half * n >= half
    <2> SUFFICES ASSUME n >= 1 PROVE half * n >= half
        OBVIOUS
    <2>1. half * (n - 1) >= 0
        OBVIOUS
    <2> QED BY <2>1
<1>6. n <= -1 => half * n <= -half
    <2> SUFFICES ASSUME n <= -1 PROVE half * n <= -half
        OBVIOUS
    <2>1. half * (n + 1) <= 0
        OBVIOUS
    <2> QED BY <2>1
<1>7. Signed(x, half) = y + 2 * (half * n) /\ half * n \in Int
    BY <1>3, <1>4
<1>8. CASE n = 0
    BY <1>7, <1>8
<1>9. CASE n # 0
    BY <1>2, <1>5, <1>6, <1>7, <1>9
<1> QED
    BY <1>8, <1>9

------------------------------------------------------------------------------
(***************************************************************************)
(* A deadline, a time that was read from the clock and moved by d, has     *)
(* passed or not exactly when eclock_after and eclock_before say so, as    *)
(* long as it is less than half a long's range away; where a long is wider *)
(* than an int, as long as the clock did not wrap between the two readings.*)
(***************************************************************************)
THEOREM DeadlinesAreKept ==
    ASSUME NEW s \in Int, NEW t \in Int, NEW d \in Int,
           s - (t + d) \in -LongHalf .. LongHalf - 1,
           IntHalf = LongHalf \/ eclock(s) - eclock(t) = s - t
    PROVE  /\ eclock_after(eclock(s), Plus(eclock(t), d)) <=> s > t + d
           /\ eclock_before(eclock(s), Plus(eclock(t), d)) <=> s < t + d
<1> DEFINE h == LongHalf
<1>1. h \in Nat \ {0} /\ IntHalf \in Nat \ {0}
    BY EclockAssumption
<1>2. PICK k1 \in Int : eclock(s) = s + 2 * IntHalf * k1
    BY <1>1, SignedIsCongruent DEF eclock
<1>3. PICK k2 \in Int : eclock(t) = t + 2 * IntHalf * k2
    BY <1>1, SignedIsCongruent DEF eclock
<1>4. eclock(s) \in Int /\ eclock(t) \in Int /\ eclock(t) + d \in Int
    BY <1>1, <1>2, <1>3
<1>5. PICK k3 \in Int : Plus(eclock(t), d) = eclock(t) + d + 2 * h * k3
    BY <1>1, <1>4, SignedIsCongruent DEF Plus
<1>6. PICK k \in Int : eclock(s) - eclock(t) = s - t + 2 * h * k
    <2>1. CASE IntHalf = LongHalf
        <3>1. 2 * h * (k1 - k2) = 2 * h * k1 - 2 * h * k2
            BY <1>1
        <3>2. eclock(s) - eclock(t) = s - t + 2 * h * (k1 - k2) /\ k1 - k2 \in Int
            BY <1>1, <1>2, <1>3, <2>1, <3>1
        <3> QED BY <3>2
    <2>2. CASE eclock(s) - eclock(t) = s - t
        <3>1. 2 * h * 0 = 0
            BY <1>1
        <3> QED BY <2>2, <3>1
    <2> QED BY <2>1, <2>2
<1>7. eclock(s) - Plus(eclock(t), d) = (s - (t + d)) + 2 * h * (k - k3)
    <2>1. 2 * h * (k - k3) = 2 * h * k - 2 * h * k3
        BY <1>1
    <2> QED BY <1>1, <1>4, <1>5, <1>6, <2>1
<1>8. k - k3 \in Int /\ eclock(s) - Plus(eclock(t), d) \in Int
    BY <1>1, <1>4, <1>5
<1>9. Signed(eclock(s) - Plus(eclock(t), d), h) = s - (t + d)
    <2>1. PICK n \in Int : n = k - k3
        BY <1>8
    <2>2. PICK x \in Int : x = eclock(s) - Plus(eclock(t), d)
        BY <1>8
    <2>3. PICK y \in -h .. h - 1 : y = s - (t + d)
        OBVIOUS
    <2> HIDE DEF h
    <2>4. x = y + 2 * h * n
        BY <1>7, <2>1, <2>2, <2>3
    <2>5. Signed(x, h) = y
        BY <1>1, <2>4, SignedIsUnique
    <2> QED BY <2>2, <2>3, <2>5
<1> QED
    BY <1>1, <1>9 DEF eclock_after, eclock_before

(***************************************************************************)
(* A clock that did not go back did not wrap.                              *)
(***************************************************************************)
LEMMA NotWrapped ==
    ASSUME NEW c \in Times, NEW n \in 0 .. IntHalf, eclock(c + n) >= c
    PROVE  eclock(c + n) = c + n
<1> DEFINE h == IntHalf
<1>1. h \in Nat \ {0} /\ c \in -h .. h - 1 /\ c + n \in Int
    BY EclockAssumption DEF Times
<1>2. PICK k \in Int : eclock(c + n) = c + n + 2 * h * k
    BY <1>1, SignedIsCongruent DEF eclock
<1>3. eclock(c + n) \in -h .. h - 1
    BY <1>1, SignedIsCongruent DEF eclock
<1>4. k >= 1 => h * k >= h
    <2> SUFFICES ASSUME k >= 1 PROVE h * k >= h
        OBVIOUS
    <2>1. h * (k - 1) >= 0
        BY <1>1
    <2> QED BY <1>1, <2>1
<1>5. k <= -1 => h * k <= -h
    <2> SUFFICES ASSUME k <= -1 PROVE h * k <= -h
        OBVIOUS
    <2>1. h * (k + 1) <= 0
        BY <1>1
    <2> QED BY <1>1, <2>1
<1>6. PICK m \in Int : m = h * k
    BY <1>1
<1>7. eclock(c + n) = c + n + 2 * m
    BY <1>1, <1>2, <1>6
<1>8. k = 0 => m = 0
    BY <1>1, <1>6
<1> HIDE DEF h
<1> QED
    BY <1>1, <1>3, <1>4, <1>5, <1>6, <1>7, <1>8 DEF h

(***************************************************************************)
(* When the clock ticks, its distance from an earlier time grows; that of  *)
(* a later time is shorter.                                                *)
(***************************************************************************)
LEMMA ClockTicks ==
    ASSUME NEW c \in Int, NEW e \in Int, NEW x \in Int,
           IntHalf = LongHalf \/ eclock(c + x) = c + x,
           Signed(c - e, LongHalf) + x \in -LongHalf .. LongHalf - 1
    PROVE  Signed(eclock(c + x) - e, LongHalf) = Signed(c - e, LongHalf) + x
<1> DEFINE h == LongHalf
           m == Signed(c - e, LongHalf)
<1>1. h \in Nat \ {0} /\ c - e \in Int /\ c + x \in Int
    BY EclockAssumption
<1>2. PICK k \in Int : m = c - e + 2 * h * k
    BY <1>1, SignedIsCongruent
<1>3. PICK j \in Int : eclock(c + x) = c + x + 2 * h * j
    <2>1. CASE IntHalf = LongHalf
        BY <1>1, <2>1, SignedIsCongruent DEF eclock
    <2>2. CASE eclock(c + x) = c + x
        <3>1. 2 * h * 0 = 0
            BY <1>1
        <3> QED BY <1>1, <2>2, <3>1
    <2> QED BY <2>1, <2>2
<1>4. eclock(c + x) - e = (m + x) + 2 * h * (j - k)
    <2>1. 2 * h * (j - k) = 2 * h * j - 2 * h * k
        BY <1>1
    <2> QED BY <1>1, <1>2, <1>3, <2>1
<1>5. j - k \in Int /\ eclock(c + x) - e \in Int
    BY <1>1, <1>3
<1> QED
    BY <1>1, <1>4, <1>5, SignedIsUnique

\* Moving a deadline by y moves the signed distance to it by y, unless that
\* overflows.
LEMMA DeadlineMoves ==
    ASSUME NEW c \in Int, NEW e \in Int, NEW y \in Int,
           Signed(c - e, LongHalf) - y \in -LongHalf .. LongHalf - 1
    PROVE  Signed(c - Plus(e, y), LongHalf) = Signed(c - e, LongHalf) - y
<1> DEFINE h == LongHalf
           m == Signed(c - e, LongHalf)
<1>1. h \in Nat \ {0} /\ c - e \in Int /\ e + y \in Int
    BY EclockAssumption
<1>2. PICK k \in Int : m = c - e + 2 * h * k
    BY <1>1, SignedIsCongruent
<1>3. PICK j \in Int : Plus(e, y) = e + y + 2 * h * j
    BY <1>1, SignedIsCongruent DEF Plus
<1>4. PICK n \in Int : n = -(j + k)
    OBVIOUS
<1>5. c - Plus(e, y) = (m - y) + 2 * h * n
    <2>1. 2 * h * n = -(2 * h * j) - 2 * h * k
        BY <1>1, <1>4
    <2> QED BY <1>1, <1>2, <1>3, <2>1
<1>6. c - Plus(e, y) \in Int /\ m - y \in -h .. h - 1
    BY <1>1, <1>3
<1> HIDE DEF m, h
<1>7. Signed(c - Plus(e, y), h) = m - y
    BY <1>1, <1>5, <1>6, SignedIsUnique
<1> QED
    BY <1>7 DEF m, h

--------------------------------------------------------------------------------
(* The controller.                                                         *)

\* The times that are compared are less than half the clock's range apart.
Comparable ==
    /\ Duration < IntHalf
    /\ NServers * MaxLag + 1 < IntHalf

\* Where a long is wider than an int: neither the clock nor a deadline passes
\* the largest int. Where it is not, any step will do.
Unwrapped == IntHalf = LongHalf \/ (clock' >= clock /\ clock + Duration < IntHalf)

\* The indices stay in the controller's array.
Indices ==
    /\ i \in Nat \ {0}
    /\ mine \in Seq(Servers)
    /\ Len(mine) <= NServers
    /\ pc \in Setup => Len(mine) < i
    /\ pc \in Setup \ {"resolve"} => i <= NServers
    /\ pc \in Rounds \cup {"reset"} => mine # <<>>
    /\ pc \in {"getStatus", "reset"} => i <= Len(mine)

Clocks ==
    /\ clock \in Times
    /\ {clock, now, test_end} \subseteq Int
    /\ {sinceNow, sinceChange} \subseteq Nat

\* How late it may be: each call of this round took MaxLag at most.
Timely ==
    /\ pc = "top" => sinceChange <= Longest
    /\ pc = "getStatus" =>
        /\ sinceNow <= (i - 1) * MaxLag
        /\ sinceChange <= Duration + (i - 1) * MaxLag
    /\ pc = "tally" => sinceNow < Longest - Duration /\ sinceChange < Longest
    /\ pc = "sleep" => sinceChange < Longest

\* The clock and the two times it is compared with are as far apart as they
\* should be.
Apart ==
    /\ pc \in {"getStatus", "tally"} => Signed(clock - now, LongHalf) = sinceNow
    /\ pc \in Rounds => Signed(clock - test_end, LongHalf) = sinceChange - Duration

TimeInv == Indices /\ Clocks /\ (Duration # 0 => Timely /\ Apart)

------------------------------------------------------------------------------
(***************************************************************************)
(* Every step keeps the indices in their bounds.                           *)
(***************************************************************************)
LEMMA IndicesStay == Spec => []Indices
<1> USE CorbaBenchAssumption
<1>1. Init => Indices
    BY DEF Init, Indices, Setup, Rounds
<1>2. Indices /\ [Next]_vars => Indices'
    <2> SUFFICES ASSUME Indices, [Next]_vars PROVE Indices'
        OBVIOUS
    <2> USE DEF Indices, Setup, Rounds
    <2>1. CASE UNCHANGED vars
        BY <2>1 DEF vars, counts
    <2>2. ASSUME NEW s \in Servers, Progress(s) \/ Crash(s) PROVE Indices'
        BY <2>2 DEF Progress, Crash, counts
    <2>3. CASE Resolve
        BY <2>3 DEF Resolve, Abort
    <2>4. CASE CallInit
        BY <2>4 DEF CallInit, SetupCall, LeaveOut, Abort
    <2>5. CASE Call_set_nuserTarget
        BY <2>5 DEF Call_set_nuserTarget, SetupCall, LeaveOut, Abort
    <2>6. CASE Call_set_verbosity
        <3>1. i \in Servers
            BY <2>6 DEF Call_set_verbosity, Servers
        <3>2. Append(mine, i) \in Seq(Servers) /\ Len(Append(mine, i)) = Len(mine) + 1
            BY <3>1
        <3>3. pc = "set_verbosity" /\ i <= NServers /\ Len(mine) < i
            BY <2>6 DEF Call_set_verbosity
        <3>4. \/ pc' = "aborted" /\ UNCHANGED <<i, mine>>
              \/ pc' = "resolve" /\ i' = i + 1 /\ mine' \in {mine, Append(mine, i)}
            BY <2>6 DEF Call_set_verbosity, SetupCall, LeaveOut, Abort
        <3>5. /\ Len(mine) \in Nat /\ i \in Nat /\ mine \in Seq(Servers) /\ Len(mine) <= NServers
              /\ i' \in Nat \ {0}
            BY <3>4
        <3>6. CASE pc' = "aborted" /\ UNCHANGED <<i, mine>>
            BY <3>5, <3>6
        <3>7. CASE pc' = "resolve" /\ i' = i + 1 /\ mine' = mine
            BY <3>3, <3>5, <3>7
        <3>8. CASE pc' = "resolve" /\ i' = i + 1 /\ mine' = Append(mine, i)
            <4>1. mine' \in Seq(Servers) /\ Len(mine') = Len(mine) + 1
                BY <3>2, <3>8
            <4> QED BY <3>3, <3>5, <3>8, <4>1
        <3> QED
            BY <3>4, <3>6, <3>7, <3>8
    <2>7. CASE StartTest
        BY <2>7 DEF StartTest
    <2>8. CASE Top
        BY <2>8 DEF Top
    <2>9. CASE CallGetStatus
        BY <2>9 DEF CallGetStatus, Abort
    <2>10. CASE Tally
        BY <2>10 DEF Tally
    <2>11. CASE Sleep
        BY <2>11 DEF Sleep
    <2>12. CASE CallReset
        BY <2>12 DEF CallReset, Abort, NoMoreToReset
    <2>13. CASE Finished
        BY <2>13 DEF Finished, vars, counts
    <2> QED
        BY <2>1, <2>2, <2>3, <2>4, <2>5, <2>6, <2>7, <2>8, <2>9, <2>10, <2>11,
           <2>12, <2>13 DEF Next, Controller
<1> QED
    BY <1>1, <1>2, PTL DEF Spec

(***************************************************************************)
(* Every step keeps the times as far apart as the moments they stand for.  *)
(***************************************************************************)
LEMMA TimesStay == ASSUME Comparable PROVE Spec /\ [][Unwrapped]_vars => []TimeInv
<1> USE CorbaBenchAssumption, EclockAssumption
<1>0. Signed(0, LongHalf) = 0
    BY SignedIsUnique
<1>1. Init => Clocks /\ Timely /\ Apart
    BY DEF Init, Clocks, Timely, Apart, Rounds, Times
<1>2. TimeInv /\ Indices' /\ [Next]_vars /\ [Unwrapped]_vars => TimeInv'
    <2> SUFFICES ASSUME Indices, Clocks, Duration # 0 => Timely /\ Apart, Indices',
                        [Next]_vars, [Unwrapped]_vars
                 PROVE  Clocks' /\ (Duration # 0 => Timely' /\ Apart')
        BY DEF TimeInv
    <2> DEFINE Late == NServers * MaxLag
    <2>a. Late \in Nat /\ Longest = Duration + Late + 1
        BY DEF Longest
    <2>b. ASSUME NEW n \in Nat, NEW t \in Nat
          PROVE  /\ Later(t, n) \in Nat
                 /\ t + n <= Longest => Later(t, n) = t + n
                 /\ eclock(clock + n) \in Int /\ eclock(clock + n) \in Times
        <3>1. clock + n \in Int
            BY DEF Clocks
        <3>2. eclock(clock + n) \in Times /\ eclock(clock + n) \in Int
            BY <3>1, SignedIsCongruent DEF eclock, Times
        <3> QED
            BY <2>a, <3>2 DEF Later
    <2>c. ASSUME NEW n \in Nat, Passes(n)
          PROVE  /\ clock' \in Times /\ {clock', sinceNow', sinceChange'} \subseteq Int
                 /\ sinceNow' \in Nat /\ sinceChange' \in Nat
        BY <2>b, <2>c DEF Passes, Clocks
    <2>d. Lags \subseteq Nat
        BY DEF Lags
    <2>r. Late + 1 < LongHalf /\ Duration < LongHalf /\ Late + 1 < IntHalf
        BY DEF Comparable
    <2>w. ASSUME NEW n \in 0 .. IntHalf, clock' = eclock(clock + n)
          PROVE  IntHalf = LongHalf \/ eclock(clock + n) = clock + n
        <3>1. clock \in Times /\ clock \in Int
            BY DEF Clocks
        <3>2. CASE clock' = clock
            <4>1. clock' >= clock
                BY <3>1, <3>2
            <4> QED BY <2>w, <3>1, <4>1, NotWrapped
        <3>3. CASE clock' # clock
            <4>1. Unwrapped
                BY <3>3 DEF vars
            <4> QED BY <2>w, <3>1, <4>1, NotWrapped DEF Unwrapped
        <3> QED BY <3>2, <3>3
    <2> HIDE DEF Late
    <2>e. ASSUME pc \notin Rounds, pc' \notin Rounds, UNCHANGED <<now, test_end>>,
                 UNCHANGED <<clock, sinceNow, sinceChange>> \/ \E n \in Lags : Passes(n)
          PROVE  Clocks' /\ Timely' /\ Apart'
        BY <2>c, <2>d, <2>e DEF Clocks, Timely, Apart, Rounds
    <2>f. ASSUME UNCHANGED <<clock, pc, i, now, test_end, sinceNow, sinceChange>>
          PROVE  Clocks' /\ (Duration # 0 => Timely' /\ Apart')
        BY <2>f DEF Clocks, Timely, Apart, Rounds
    <2>1. CASE UNCHANGED vars
        BY <2>1, <2>f DEF vars, ghosts
    <2>2. ASSUME NEW s \in Servers, Progress(s) \/ Crash(s)
          PROVE  Clocks' /\ (Duration # 0 => Timely' /\ Apart')
        BY <2>2, <2>f DEF Progress, Crash, ghosts
    <2>3. CASE Resolve
        BY <2>3, <2>e DEF Resolve, Returns, Throws, Abort, Rounds
    <2>4. CASE CallInit
        BY <2>4, <2>e DEF CallInit, SetupCall, LeaveOut, Returns, Throws, Abort, Rounds
    <2>5. CASE Call_set_nuserTarget
        BY <2>5, <2>e
           DEF Call_set_nuserTarget, SetupCall, LeaveOut, Returns, Throws, Abort, Rounds
    <2>6. CASE Call_set_verbosity
        BY <2>6, <2>e
           DEF Call_set_verbosity, SetupCall, LeaveOut, Returns, Throws, Abort, Rounds
    <2>7. CASE StartTest
        <3>1. CASE mine = <<>>
            BY <2>7, <3>1 DEF StartTest, Clocks, Timely, Apart, Rounds
        <3>2. CASE mine # <<>>
            <4>1. /\ pc' = "top" /\ clock' = clock /\ sinceChange' = 0
                  /\ test_end' \in {Plus(clock, Duration), eclock(clock + Duration)}
                  /\ UNCHANGED <<now, sinceNow>>
                BY <2>7, <3>2 DEF StartTest
            <4>e. test_end' = Plus(clock, Duration)
                <5>1. clock \in Times /\ clock + Duration \in Int
                    BY DEF Clocks, Times
                <5>2. CASE IntHalf = LongHalf
                    BY <4>1, <5>2 DEF Plus, eclock
                <5>3. CASE IntHalf # LongHalf
                    <6>1. pc = "resolve"
                        BY <2>7 DEF StartTest
                    <6>2. Unwrapped
                        BY <4>1, <6>1 DEF vars
                    <6>3. clock + Duration \in -IntHalf .. IntHalf - 1
                        BY <5>1, <5>3, <6>2 DEF Unwrapped, Times
                    <6>4. clock + Duration \in -LongHalf .. LongHalf - 1
                        BY <6>3 DEF Comparable
                    <6>5. ASSUME NEW half \in Nat \ {0}, NEW x \in -half .. half - 1
                          PROVE  Signed(x, half) = x
                        <7>1. PICK k \in Int : k = 0
                            OBVIOUS
                        <7>2. x \in Int /\ x = x + 2 * half * k
                            BY <7>1
                        <7> QED BY ONLY <6>5, <7>2, SignedIsUnique
                    <6>6. /\ Signed(clock + Duration, IntHalf) = clock + Duration
                          /\ Signed(clock + Duration, LongHalf) = clock + Duration
                        BY <6>3, <6>4, <6>5
                    <6> QED BY <4>1, <6>6 DEF Plus, eclock
                <5> QED BY <5>2, <5>3
            <4>2. clock \in Int /\ clock - clock = 0 /\ clock + Duration \in Int
                BY DEF Clocks
            <4>3. Plus(clock, Duration) \in Int
                BY <4>2, SignedIsCongruent DEF Plus
            <4>4. Duration # 0 => Signed(clock - Plus(clock, Duration), LongHalf) = 0 - Duration
                <5>1. 0 - Duration \in -LongHalf .. LongHalf - 1
                    BY DEF Comparable
                <5> QED
                    BY <1>0, <4>2, <5>1, DeadlineMoves DEF Comparable
            <4> QED
                BY <2>a, <4>1, <4>e, <4>2, <4>3, <4>4 DEF Clocks, Timely, Apart, Rounds
        <3> QED
            BY <3>1, <3>2
    <2>8. CASE Top
        <3>1. /\ now' = clock /\ sinceNow' = 0 /\ i' = 1
              /\ pc = "top" /\ pc' \in {"reset", "getStatus"}
              /\ UNCHANGED <<clock, test_end, sinceChange>>
              /\ Duration # 0 /\ pc' = "getStatus" => ~ (Signed(clock - test_end, LongHalf) > 0)
            BY <2>8 DEF Top, TimeIsUp, eclock_after
        <3>2. Clocks' /\ clock - clock = 0
            BY <3>1 DEF Clocks
        <3>3. Duration # 0 => Apart'
            BY <1>0, <3>1, <3>2 DEF Apart, Rounds
        <3>4. Duration # 0 => Timely'
            BY <3>1 DEF Timely, Apart, Rounds, Clocks
        <3> QED
            BY <3>2, <3>3, <3>4
    <2>9. CASE CallGetStatus
        <3>1. CASE pc' = "aborted"
            BY <2>9, <2>c, <2>d, <3>1
               DEF CallGetStatus, Returns, Throws, Abort, Clocks, Timely, Apart, Rounds
        <3>2. CASE pc' # "aborted"
            <4>1. PICK n \in 0..MaxLag : Passes(n)
                BY <2>9, <3>2 DEF CallGetStatus, Returns, Abort, Lags, Rounds
            <4>2. /\ pc = "getStatus" /\ pc' \in {"getStatus", "tally"} /\ i' = i + 1
                  /\ UNCHANGED <<now, test_end>>
                BY <2>9, <3>2 DEF CallGetStatus, Abort
            <4>3. Clocks'
                BY <2>c, <4>1, <4>2 DEF Clocks
            <4> SUFFICES ASSUME Duration # 0 PROVE Timely' /\ Apart'
                BY <4>3
            <4> DEFINE before == (i - 1) * MaxLag
                       after == i * MaxLag
            <4>4. before \in Nat /\ before + n <= after /\ after <= Late
                <5>1. i \in Nat /\ i >= 1 /\ i <= NServers
                    BY <4>2 DEF Indices
                <5>2. after = before + MaxLag
                    BY <5>1
                <5>3. (NServers - i) * MaxLag >= 0 /\ (i - 1) * MaxLag >= 0
                    BY <5>1
                <5>4. (NServers - i) * MaxLag = NServers * MaxLag - i * MaxLag
                    BY <5>1
                <5>5. before \in Int /\ after \in Int
                    BY <5>1
                <5> HIDE DEF before, after
                <5> QED
                    BY <4>1, <5>2, <5>3, <5>4, <5>5 DEF Late, before, after
            <4>5. sinceNow <= before /\ sinceChange <= Duration + before
                BY <4>2 DEF Timely
            <4> HIDE DEF before, after
            <4>6. /\ clock' = eclock(clock + n)
                  /\ sinceNow' = sinceNow + n /\ sinceChange' = sinceChange + n
                <5>1. /\ n \in Nat /\ sinceNow \in Nat /\ sinceChange \in Nat
                      /\ before \in Nat /\ after \in Int
                    BY <4>1, <4>4 DEF Clocks, after, Indices
                <5>2. sinceNow + n <= Longest /\ sinceChange + n <= Longest
                    BY <2>a, <4>4, <4>5, <5>1
                <5>3. Later(sinceNow, n) = sinceNow + n /\ Later(sinceChange, n) = sinceChange + n
                    BY <2>b, <5>1, <5>2
                <5> QED
                    BY <4>1, <5>3 DEF Passes
            <4>7. /\ Signed(clock - now, LongHalf) + n \in -LongHalf .. LongHalf - 1
                  /\ Signed(clock - test_end, LongHalf) + n \in -LongHalf .. LongHalf - 1
                <5>1. /\ Signed(clock - now, LongHalf) = sinceNow
                      /\ Signed(clock - test_end, LongHalf) = sinceChange - Duration
                    BY <4>2 DEF Apart, Rounds
                <5>2. sinceNow \in Nat /\ sinceChange \in Nat /\ after \in Int
                    BY DEF Clocks, after, Indices
                <5>3. sinceNow + n \in 0 .. LongHalf - 1
                    BY <2>a, <2>r, <4>1, <4>4, <4>5, <5>2
                <5>4. sinceChange - Duration + n \in -LongHalf .. LongHalf - 1
                    BY <2>a, <2>r, <4>1, <4>4, <4>5, <5>2
                <5> QED
                    BY <5>1, <5>3, <5>4
            <4>8. Apart'
                <5>1. IntHalf = LongHalf \/ eclock(clock + n) = clock + n
                    <6>1. n \in 0 .. IntHalf
                        <7>1. MaxLag <= Late
                            <8>1. NServers >= 1
                                BY <4>2 DEF Indices
                            <8>2. (NServers - 1) * MaxLag >= 0
                                BY <8>1
                            <8>3. (NServers - 1) * MaxLag = NServers * MaxLag - MaxLag
                                BY <8>1
                            <8> QED BY <8>2, <8>3 DEF Late
                        <7> QED BY <2>r, <2>a, <4>1, <7>1
                    <6> QED BY <2>w, <4>6, <6>1
                <5> QED BY <4>2, <4>6, <4>7, <5>1, ClockTicks DEF Apart, Rounds, Clocks
            <4>9. Timely'
                <5>1. (i' - 1) * MaxLag = after /\ after \in Int
                    BY <4>2 DEF after, Indices
                <5>2. /\ sinceNow' <= after /\ sinceChange' <= Duration + after
                      /\ sinceNow' <= Late /\ sinceChange' <= Duration + Late
                    BY <2>a, <4>1, <4>4, <4>5, <4>6, <5>1 DEF Clocks
                <5>3. sinceNow' \in Nat /\ sinceChange' \in Nat
                    BY <4>3 DEF Clocks
                <5> QED
                    BY <2>a, <4>2, <5>1, <5>2, <5>3 DEF Timely
            <4> QED
                BY <4>8, <4>9
        <3> QED
            BY <3>1, <3>2
    <2>10. CASE Tally
        <3>1. /\ pc = "tally" /\ pc' \in {"failed", "sleep"} /\ now' = 0 /\ sinceNow' = 0
              /\ clock' = clock
              /\ \/ UNCHANGED <<test_end, sinceChange>>
                 \/ test_end' = Plus(now, Duration) /\ sinceChange' = sinceNow
            BY <2>10 DEF Tally
        <3>2. Plus(now, Duration) \in Int
            BY SignedIsCongruent DEF Plus, Clocks
        <3>3. Clocks'
            BY <3>1, <3>2 DEF Clocks
        <3> SUFFICES ASSUME Duration # 0 PROVE Timely' /\ Apart'
            BY <3>3
        <3>4. Signed(clock - Plus(now, Duration), LongHalf) = sinceNow - Duration
            <4>1. Signed(clock - now, LongHalf) = sinceNow /\ sinceNow < Late + 1
                BY <2>a, <3>1 DEF Apart, Timely
            <4>2. sinceNow - Duration \in -LongHalf .. LongHalf - 1
                BY <4>1 DEF Comparable, Clocks, Late
            <4> QED
                BY <4>1, <4>2, DeadlineMoves DEF Comparable, Clocks
        <3>5. Timely'
            BY <2>a, <3>1 DEF Timely, Clocks
        <3>6. Apart'
            BY <3>1, <3>4 DEF Apart, Rounds, Clocks
        <3> QED
            BY <3>5, <3>6
    <2>11. CASE Sleep
        <3>1. /\ pc = "sleep" /\ pc' = "top" /\ Passes(1) /\ UNCHANGED <<now, test_end>>
            BY <2>11 DEF Sleep
        <3>2. Clocks'
            BY <2>c, <3>1 DEF Clocks
        <3> SUFFICES ASSUME Duration # 0 PROVE Timely' /\ Apart'
            BY <3>2
        <3>3. sinceChange' = sinceChange + 1 /\ clock' = eclock(clock + 1)
            BY <2>a, <2>b, <3>1 DEF Passes, Timely, Clocks
        <3>4. Signed(clock - test_end, LongHalf) + 1 \in -LongHalf .. LongHalf - 1
            BY <2>a, <3>1 DEF Apart, Rounds, Timely, Comparable, Clocks, Late
        <3> QED
            <4>1. Timely'
                BY <2>a, <3>1, <3>3 DEF Timely, Clocks
            <4>2. Apart'
                <5>1. IntHalf = LongHalf \/ eclock(clock + 1) = clock + 1
                    BY <2>w, <3>3
                <5> QED BY <3>1, <3>3, <3>4, <5>1, ClockTicks DEF Apart, Rounds, Clocks
            <4> QED
                BY <4>1, <4>2
    <2>12. CASE CallReset
        <3>1. 0 \in Lags
            BY DEF Lags
        <3> QED BY <2>12, <2>e, <3>1 DEF CallReset, ResetAsserts, Returns, Throws, Abort, Rounds
    <2>13. CASE Finished
        BY <2>13, <2>f DEF Finished, vars, ghosts
    <2> QED
        BY <2>1, <2>2, <2>3, <2>4, <2>5, <2>6, <2>7, <2>8, <2>9, <2>10, <2>11,
           <2>12, <2>13 DEF Next, Controller
<1>3. Indices /\ Clocks /\ Timely /\ Apart => TimeInv
    BY DEF TimeInv
<1>4. Init => TimeInv
    <2>1. Init => Indices
        BY DEF Init, Indices, Setup, Rounds
    <2> QED BY <1>1, <1>3, <2>1
<1> QED
    BY <1>2, <1>4, IndicesStay, PTL DEF Spec

(***************************************************************************)
(* The test ends at the first look at the clock later than arg_duration    *)
(* after the last change, and not before, as long as the clock does not    *)
(* wrap where a long is wider than an int.                                 *)
(***************************************************************************)
THEOREM EndsInTime == ASSUME Comparable PROVE Spec /\ [][Unwrapped]_vars => TestLasts
<1>1. TimeInv /\ [Next]_vars =>
        (pc = "top" /\ pc' # pc => (pc' = "reset" <=> Duration # 0 /\ sinceChange > Duration))
    <2> SUFFICES ASSUME TimeInv, [Next]_vars, pc = "top", pc' # pc
                 PROVE  pc' = "reset" <=> Duration # 0 /\ sinceChange > Duration
        OBVIOUS
    <2>1. Top
        BY DEF Next, vars, Controller, Progress, Crash, Resolve, CallInit, Call_set_nuserTarget,
               Call_set_verbosity, StartTest, CallGetStatus, Tally, Sleep, CallReset,
               Finished, Ended
    <2>2. pc' = "reset" <=> TimeIsUp
        BY <2>1 DEF Top
    <2>3. Duration # 0 => Signed(clock - test_end, LongHalf) = sinceChange - Duration
        BY DEF TimeInv, Apart, Rounds
    <2> QED
        BY <2>2, <2>3, CorbaBenchAssumption DEF TimeIsUp, eclock_after, TimeInv, Clocks
<1> QED
    BY <1>1, TimesStay, PTL DEF Spec, TestLasts

(***************************************************************************)
(* Where int and long are the same it ends in time although the clock      *)
(* wraps, however often.                                                   *)
(***************************************************************************)
THEOREM EndsThroughWraps == ASSUME Comparable, IntHalf = LongHalf PROVE Spec => TestLasts
<1>1. [Next]_vars => [Unwrapped]_vars
    BY DEF Unwrapped
<1> QED
    BY <1>1, EndsInTime, PTL DEF Spec

------------------------------------------------------------------------------
\* Platoons, of any size.
Records ==
    [running : BOOLEAN, target : Nat, ctarget : Nat, last : P!States,
     connect : Nat, connecting : Nat, up : Nat, dead : Nat,
     lost : [Kinds -> Nat], drift : [Kinds -> Int]]

Platoon == {p \in Records : Drifted(p.drift)}

\* One that has no forgotten users, and never had.
Clean(p) == p.lost = P!Nobody /\ p.drift = P!Nobody

\* All the users of its own a platoon has had since init().
Total(p) == Living(p) + p.dead

\* One whose users are all dead, or that was taken away from them.
Gone(p) == Living(p) = 0 /\ (p.dead # 0 \/ ~p.running)

\* What a step that moves users of the platoon's own leaves alone.
Same(p, q) ==
    /\ q.running = p.running /\ q.target = p.target
    /\ q.ctarget = p.ctarget /\ q.last = p.last
    /\ q.lost = p.lost /\ q.drift = p.drift

With(p, a, b, c, d) ==
    [p EXCEPT !.connect = a, !.connecting = b, !.up = c, !.dead = d]

Became(p, q, a, b, c, d) ==
    /\ q \in Platoon /\ Same(p, q)
    /\ q.connect = a /\ q.connecting = b /\ q.up = c /\ q.dead = d

LEMMA NobodyIsZero == P!Nobody \in [Kinds -> Nat] /\ \A k \in Kinds : P!Nobody[k] = 0
BY DEF P!Nobody, P!Alive, Kinds

(***************************************************************************)
(* Where a platoon's own users are moved, and nothing else.                *)
(***************************************************************************)
LEMMA OwnUsersMove ==
    ASSUME NEW p \in Platoon,
           NEW a \in Nat, NEW b \in Nat, NEW c \in Nat, NEW d \in Nat
    PROVE  Became(p, With(p, a, b, c, d), a, b, c, d)
<1> DEFINE q == With(p, a, b, c, d)
<1>1. p \in Records /\ Drifted(p.drift)
    BY DEF Platoon
<1>2. q \in Records
    BY <1>1 DEF Records, With
<1>3. Same(p, q) /\ q.connect = a /\ q.connecting = b /\ q.up = c /\ q.dead = d
    BY <1>1 DEF Records, Same, With
<1>4. Drifted(q.drift)
    BY <1>1, <1>3 DEF Same
<1> QED
    BY <1>2, <1>3, <1>4 DEF Platoon, Became

(***************************************************************************)
(* What getStatus says of a platoon, and what it has: forgotten users only *)
(* take from the living, and what they take they add to the dead.          *)
(***************************************************************************)
LEMMA Counts ==
    ASSUME NEW p \in Platoon
    PROVE  /\ P!nconnecting(p) \in Int /\ P!nalive(p) \in Int /\ P!ndead(p) \in Int
           /\ Living(p) \in Nat /\ Total(p) \in Nat /\ p.drift["dead"] \in Nat
           /\ P!nconnecting(p) <= Living(p) /\ P!nalive(p) <= Living(p)
           /\ P!nalive(p) + P!ndead(p) = Total(p)
           /\ Clean(p) => /\ P!nconnecting(p) \in Nat /\ P!nalive(p) = Living(p)
                          /\ P!ndead(p) = p.dead
<1>1. /\ p.connect \in Nat /\ p.connecting \in Nat /\ p.up \in Nat /\ p.dead \in Nat
      /\ p.drift \in [Kinds -> Int] /\ Drifted(p.drift)
    BY DEF Platoon, Records
<1>2. PICK a \in Int, b \in Int, c \in Int, d \in Int :
        p.drift["connect"] = a /\ p.drift["connecting"] = b /\ p.drift["up"] = c /\ p.drift["dead"] = d
    BY <1>1 DEF Kinds
<1>3. a <= 0 /\ a + b <= 0 /\ c <= 0 /\ a + b + c + d = 0
    BY <1>1, <1>2 DEF Drifted
<1>4. /\ P!nalive(p) = p.connect + p.connecting + p.up + (a + b + c)
      /\ P!ndead(p) = p.dead + d
      /\ P!nconnecting(p) \in {p.connect + a, p.connect + a + (p.connecting + b)}
    <2>1. P!nconnecting(p) = p.connect + a + (IF p.last = "CONNECTING" THEN p.connecting + b ELSE 0)
        BY <1>2 DEF P!nconnecting
    <2>2. P!nalive(p) = p.connect + p.connecting + p.up + (a + b + c) /\ P!ndead(p) = p.dead + d
        BY <1>2 DEF P!nalive, P!ndead
    <2> QED BY <1>1, <2>1, <2>2
<1>5. Clean(p) => a = 0 /\ b = 0 /\ c = 0 /\ d = 0
    BY <1>2, NobodyIsZero DEF Clean, Kinds
<1> QED
    BY <1>1, <1>2, <1>3, <1>4, <1>5 DEF Living, Total

(***************************************************************************)
(* What the calls and the changes of a platoon leave: one without forgotten*)
(* users goes on as long as it is not reset, and stays as it is when it    *)
(* lost its last user. No platoon starts more users than its target, the   *)
(* dead included.                                                          *)
(***************************************************************************)
LEMMA PlatoonSteps ==
    ASSUME NEW p \in Platoon
    PROVE  /\ P!Progress(p) \cup P!init(p) \cup P!set_nuserTarget(p, Users)
                \cup P!reset(p) \subseteq Platoon
           /\ ~p.running => P!Progress(p) = {}
           /\ \A q \in P!Progress(p) : q.running = p.running
           /\ \A q \in P!reset(p) : ~q.running
           /\ Clean(p) =>
                /\ \A q \in P!Progress(p) \cup P!set_nuserTarget(p, Users) \cup P!reset(p) :
                    Clean(q)
                /\ Gone(p) => P!Progress(p) = {}
                /\ Living(p) > 0 => \A q \in P!Progress(p) : Living(q) > 0 \/ Gone(q)
           /\ ~p.running => \A q \in P!init(p) : Clean(q)
           /\ \A q \in P!Progress(p) :
                q.target = p.target /\ (Total(q) = Total(p) \/ Total(q) <= p.target)
<1>0. /\ p.connect \in Nat /\ p.connecting \in Nat /\ p.up \in Nat /\ p.dead \in Nat
      /\ p.target \in Nat /\ p.lost \in [Kinds -> Nat] /\ p.drift \in [Kinds -> Int]
      /\ p.running \in BOOLEAN /\ p \in Records /\ Drifted(p.drift)
    BY DEF Platoon, Records
<1>s. ASSUME NEW q, Same(p, q) PROVE q.target = p.target /\ q.running = p.running /\ (Clean(p) => Clean(q))
    BY <1>s DEF Same, Clean
<1>1. ASSUME NEW q \in P!Start(p)
      PROVE  q \in Platoon /\ Same(p, q) /\ Living(q) > 0 /\ Total(q) <= p.target
    <2>1. q = [p EXCEPT !.connect = @ + 1] /\ P!ndead(p) = 0 /\ P!nalive(p) < p.target
        BY DEF P!Start
    <2>2. q = With(p, p.connect + 1, p.connecting, p.up, p.dead)
        BY <1>0, <2>1 DEF Records, With
    <2>3. Became(p, q, p.connect + 1, p.connecting, p.up, p.dead)
        <3>1. p.connect + 1 \in Nat
            BY <1>0
        <3> QED BY <1>0, <2>2, <3>1, OwnUsersMove
    <2>4. Total(p) = P!nalive(p) + P!ndead(p) /\ Total(p) \in Nat /\ P!nalive(p) \in Int
        BY <1>0, Counts DEF Total, Living
    <2>5. Total(q) = Total(p) + 1 /\ Living(q) > 0
        BY <1>0, <2>3 DEF Total, Living, Became
    <2> QED
        BY <1>0, <2>1, <2>3, <2>4, <2>5 DEF Became
<1>2. ASSUME NEW q \in P!GetOn(p)
      PROVE  q \in Platoon /\ Same(p, q) /\ Living(q) = Living(p) /\ Total(q) = Total(p)
    <2>1. \/ q = [p EXCEPT !.connect = @ - 1, !.connecting = @ + 1] /\ p.connect > 0
          \/ q = [p EXCEPT !.connecting = @ - 1, !.up = @ + 1] /\ p.connecting > 0
        <3>1. p.running
            BY DEF P!GetOn
        <3> DEFINE a == [p EXCEPT !.connect = @ - 1, !.connecting = @ + 1]
                   b == [p EXCEPT !.connecting = @ - 1, !.up = @ + 1]
        <3>2. q \in {a : n \in 1 .. p.connect} \cup {b : n \in 1 .. p.connecting}
            BY <3>1 DEF P!GetOn
        <3> HIDE DEF a, b
        <3>3. \/ q = a /\ \E n \in 1 .. p.connect : TRUE
              \/ q = b /\ \E n \in 1 .. p.connecting : TRUE
            BY <3>2, Zenon
        <3>4. (q = a /\ p.connect > 0) \/ (q = b /\ p.connecting > 0)
            BY <1>0, <3>3
        <3> QED BY <3>4 DEF a, b
    <2>2. PICK a \in Nat, b \in Nat, c \in Nat :
            a + b + c = p.connect + p.connecting + p.up /\ Became(p, q, a, b, c, p.dead)
        <3>1. CASE q = [p EXCEPT !.connect = @ - 1, !.connecting = @ + 1] /\ p.connect > 0
            <4>1. q = With(p, p.connect - 1, p.connecting + 1, p.up, p.dead)
                BY <1>0, <3>1 DEF Records, With
            <4>2. p.connect - 1 \in Nat /\ p.connecting + 1 \in Nat /\ p.up \in Nat /\ p.dead \in Nat
                BY <1>0, <3>1
            <4>3. Became(p, q, p.connect - 1, p.connecting + 1, p.up, p.dead)
                BY <4>1, <4>2, OwnUsersMove
            <4>4. (p.connect - 1) + (p.connecting + 1) + (p.up) = p.connect + p.connecting + p.up
                BY <1>0
            <4> QED BY <4>2, <4>3, <4>4
        <3>2. CASE q = [p EXCEPT !.connecting = @ - 1, !.up = @ + 1] /\ p.connecting > 0
            <4>1. q = With(p, p.connect, p.connecting - 1, p.up + 1, p.dead)
                BY <1>0, <3>2 DEF Records, With
            <4>2. p.connect \in Nat /\ p.connecting - 1 \in Nat /\ p.up + 1 \in Nat /\ p.dead \in Nat
                BY <1>0, <3>2
            <4>3. Became(p, q, p.connect, p.connecting - 1, p.up + 1, p.dead)
                BY <4>1, <4>2, OwnUsersMove
            <4>4. (p.connect) + (p.connecting - 1) + (p.up + 1) = p.connect + p.connecting + p.up
                BY <1>0
            <4> QED BY <4>2, <4>3, <4>4
        <3> QED BY <2>1, <3>1, <3>2
    <2> QED
        BY <1>0, <2>2 DEF Living, Total, Became
<1>3. ASSUME NEW q \in P!Die(p)
      PROVE  q \in Platoon /\ Same(p, q) /\ (Living(q) > 0 \/ Gone(q)) /\ Total(q) = Total(p)
    <2>1. \/ q = [p EXCEPT !.connect = @ - 1, !.dead = @ + 1] /\ p.connect > 0
          \/ q = [p EXCEPT !.connecting = @ - 1, !.dead = @ + 1] /\ p.connecting > 0
          \/ q = [p EXCEPT !.up = @ - 1, !.dead = @ + 1] /\ p.up > 0
        <3>1. p.running
            BY DEF P!Die
        <3> DEFINE a == [p EXCEPT !.connect = @ - 1, !.dead = @ + 1]
                   b == [p EXCEPT !.connecting = @ - 1, !.dead = @ + 1]
                   c == [p EXCEPT !.up = @ - 1, !.dead = @ + 1]
        <3>2. q \in {a : n \in 1 .. p.connect} \cup {b : n \in 1 .. p.connecting}
                   \cup {c : n \in 1 .. p.up}
            BY <3>1 DEF P!Die
        <3> HIDE DEF a, b, c
        <3>3. \/ q = a /\ \E n \in 1 .. p.connect : TRUE
              \/ q = b /\ \E n \in 1 .. p.connecting : TRUE
              \/ q = c /\ \E n \in 1 .. p.up : TRUE
            BY <3>2, Zenon
        <3>4. \/ q = a /\ p.connect > 0
              \/ q = b /\ p.connecting > 0
              \/ q = c /\ p.up > 0
            BY <1>0, <3>3
        <3> QED BY <3>4 DEF a, b, c
    <2>2. PICK a \in Nat, b \in Nat, c \in Nat :
            a + b + c = p.connect + p.connecting + p.up - 1 /\ Became(p, q, a, b, c, p.dead + 1)
        <3>1. CASE q = [p EXCEPT !.connect = @ - 1, !.dead = @ + 1] /\ p.connect > 0
            <4>1. q = With(p, p.connect - 1, p.connecting, p.up, p.dead + 1)
                BY <1>0, <3>1 DEF Records, With
            <4>2. p.connect - 1 \in Nat /\ p.connecting \in Nat /\ p.up \in Nat /\ p.dead + 1 \in Nat
                BY <1>0, <3>1
            <4>3. Became(p, q, p.connect - 1, p.connecting, p.up, p.dead + 1)
                BY <4>1, <4>2, OwnUsersMove
            <4> QED BY <1>0, <4>2, <4>3
        <3>2. CASE q = [p EXCEPT !.connecting = @ - 1, !.dead = @ + 1] /\ p.connecting > 0
            <4>1. q = With(p, p.connect, p.connecting - 1, p.up, p.dead + 1)
                BY <1>0, <3>2 DEF Records, With
            <4>2. p.connect \in Nat /\ p.connecting - 1 \in Nat /\ p.up \in Nat /\ p.dead + 1 \in Nat
                BY <1>0, <3>2
            <4>3. Became(p, q, p.connect, p.connecting - 1, p.up, p.dead + 1)
                BY <4>1, <4>2, OwnUsersMove
            <4> QED BY <1>0, <4>2, <4>3
        <3>3. CASE q = [p EXCEPT !.up = @ - 1, !.dead = @ + 1] /\ p.up > 0
            <4>1. q = With(p, p.connect, p.connecting, p.up - 1, p.dead + 1)
                BY <1>0, <3>3 DEF Records, With
            <4>2. p.connect \in Nat /\ p.connecting \in Nat /\ p.up - 1 \in Nat /\ p.dead + 1 \in Nat
                BY <1>0, <3>3
            <4>3. Became(p, q, p.connect, p.connecting, p.up - 1, p.dead + 1)
                BY <4>1, <4>2, OwnUsersMove
            <4> QED BY <1>0, <4>2, <4>3
        <3> QED BY <2>1, <3>1, <3>2, <3>3
    <2> QED
        <3>1. q \in Platoon /\ Same(p, q) /\ q.dead = p.dead + 1
            BY <2>2 DEF Became
        <3>2. Living(q) = Living(p) - 1 /\ Living(q) \in Nat /\ Living(p) \in Nat
            BY <1>0, <2>2 DEF Living, Became
        <3>3. Total(q) = Total(p) /\ q.dead # 0
            BY <1>0, <3>1, <3>2 DEF Total
        <3>4. Living(q) > 0 \/ Gone(q)
            BY <3>2, <3>3 DEF Gone
        <3> QED BY <3>1, <3>3, <3>4
<1>4. ASSUME NEW q \in P!Stray(p)
      PROVE  /\ q \in Platoon /\ ~Clean(p) /\ p.running /\ q.running = p.running
             /\ q.target = p.target /\ Total(q) = Total(p)
    <2>1. PICK m \in P!Moves :
            /\ p.running /\ p.lost[m[1]] > 0
            /\ q = [p EXCEPT !.lost = P!Moved(p.lost, m), !.drift = P!Moved(p.drift, m)]
        <3>1. PICK m \in {m \in P!Moves : p.running /\ p.lost[m[1]] > 0} :
                q = [p EXCEPT !.lost = P!Moved(@, m), !.drift = P!Moved(@, m)]
            BY Zenon DEF P!Stray
        <3>2. m \in P!Moves /\ p.running /\ p.lost[m[1]] > 0
            BY <3>1
        <3> QED BY <3>1, <3>2, Zenon
    <2>2. /\ m[1] \in Kinds /\ m[2] \in Kinds /\ m[1] # m[2]
          /\ m[1] # "dead" /\ (m[2] = "dead" \/ (m[1] = "connect" /\ m[2] = "connecting"))
        <3> DEFINE Fits(n) == /\ n[1] \in Kinds /\ n[2] \in Kinds /\ n[1] # n[2] /\ n[1] # "dead"
                              /\ (n[2] = "dead" \/ (n[1] = "connect" /\ n[2] = "connecting"))
        <3>1. Fits(<<"connect", "connecting">>)
            BY DEF Kinds
        <3>2. ASSUME NEW s \in P!Alive PROVE Fits(<<s, "dead">>)
            <4>1. /\ Fits(<<"connect", "dead">>) /\ Fits(<<"connecting", "dead">>)
                  /\ Fits(<<"up", "dead">>)
                BY DEF Kinds
            <4> HIDE DEF Fits
            <4>2. s = "connect" \/ s = "connecting" \/ s = "up"
                BY DEF P!Alive
            <4> QED BY <4>1, <4>2, Zenon
        <3>3. m = <<"connect", "connecting">> \/ \E s \in P!Alive : m = <<s, "dead">>
            BY <2>1, Zenon DEF P!Moves
        <3> HIDE DEF Fits
        <3>4. Fits(m)
            BY <3>1, <3>2, <3>3, Zenon
        <3> QED BY <3>4 DEF Fits
    <2>3. P!Moved(p.lost, m) \in [Kinds -> Nat]
        BY <1>0, <2>1, <2>2 DEF P!Moved
    <2>4. P!Moved(p.drift, m) \in [Kinds -> Int]
        BY <1>0, <2>2 DEF P!Moved
    <2>5. Drifted(P!Moved(p.drift, m))
        <3> DEFINE d == P!Moved(p.drift, m)
        <3>1. PICK x \in Int, y \in Int, z \in Int, w \in Int :
                /\ p.drift["connect"] = x /\ p.drift["connecting"] = y
                /\ p.drift["up"] = z /\ p.drift["dead"] = w
            BY <1>0 DEF Kinds
        <3>2. x <= 0 /\ x + y <= 0 /\ z <= 0 /\ x + y + z + w = 0
            BY <1>0, <3>1 DEF Drifted
        <3>3. \/ d["connect"] = x - 1 /\ d["connecting"] = y + 1 /\ d["up"] = z /\ d["dead"] = w
              \/ d["connect"] = x - 1 /\ d["connecting"] = y /\ d["up"] = z /\ d["dead"] = w + 1
              \/ d["connect"] = x /\ d["connecting"] = y - 1 /\ d["up"] = z /\ d["dead"] = w + 1
              \/ d["connect"] = x /\ d["connecting"] = y /\ d["up"] = z - 1 /\ d["dead"] = w + 1
            <4>1. /\ d[m[1]] = p.drift[m[1]] - 1 /\ d[m[2]] = p.drift[m[2]] + 1
                  /\ \A k \in Kinds \ {m[1], m[2]} : d[k] = p.drift[k]
                BY <1>0, <2>2 DEF P!Moved
            <4> HIDE DEF d
            <4>2. CASE m[1] = "connect" /\ m[2] = "connecting"
                BY <3>1, <4>1, <4>2 DEF Kinds
            <4>3. CASE m[1] = "connect" /\ m[2] = "dead"
                BY <3>1, <4>1, <4>3 DEF Kinds
            <4>4. CASE m[1] = "connecting" /\ m[2] = "dead"
                BY <3>1, <4>1, <4>4 DEF Kinds
            <4>5. CASE m[1] = "up" /\ m[2] = "dead"
                BY <3>1, <4>1, <4>5 DEF Kinds
            <4> QED BY <2>2, <4>2, <4>3, <4>4, <4>5 DEF Kinds
        <3> HIDE DEF d
        <3>4. Drifted(d)
            BY <3>2, <3>3 DEF Drifted
        <3> QED BY <3>4 DEF d
    <2>6. /\ q \in Records /\ q.drift = P!Moved(p.drift, m)
          /\ q.running = p.running /\ q.target = p.target
          /\ q.connect = p.connect /\ q.connecting = p.connecting /\ q.up = p.up /\ q.dead = p.dead
        <3> DEFINE l == P!Moved(p.lost, m)
                   d == P!Moved(p.drift, m)
        <3>1. q = [p EXCEPT !.lost = l, !.drift = d] /\ l \in [Kinds -> Nat] /\ d \in [Kinds -> Int]
            BY <2>1, <2>3, <2>4
        <3> HIDE DEF l, d
        <3>2. /\ q \in Records /\ q.drift = d
              /\ q.running = p.running /\ q.target = p.target
              /\ q.connect = p.connect /\ q.connecting = p.connecting
              /\ q.up = p.up /\ q.dead = p.dead
            BY <1>0, <3>1 DEF Records
        <3> QED BY <3>2 DEF d
    <2>7. ~Clean(p)
        BY <2>1, <2>2, NobodyIsZero DEF Clean
    <2> QED
        BY <2>1, <2>5, <2>6, <2>7 DEF Platoon, Total, Living
<1>5. /\ P!init(p) \cup P!set_nuserTarget(p, Users) \cup P!reset(p) \subseteq Platoon
      /\ \A q \in P!reset(p) : ~q.running
      /\ ~p.running => \A q \in P!init(p) : Clean(q)
      /\ Clean(p) => \A q \in P!set_nuserTarget(p, Users) \cup P!reset(p) : Clean(q)
    <2>0. /\ P!Nobody \in [Kinds -> Nat] /\ P!Nobody \in [Kinds -> Int]
          /\ Drifted(P!Nobody) /\ DOMAIN P!Nobody = Kinds
        BY NobodyIsZero DEF Drifted, Kinds
    <2>1. ASSUME NEW q \in P!init(p)
          PROVE  q \in Platoon /\ (~p.running => Clean(q))
        <3> DEFINE sum == [s \in DOMAIN P!Nobody |-> p[s] + p.lost[s]]
                   l == IF p.running THEN sum ELSE P!Nobody
        <3>1. sum \in [Kinds -> Nat]
            <4>1. \A k \in Kinds : p.lost[k] \in Nat /\ p[k] \in Nat
                BY <1>0 DEF Kinds
            <4> QED BY <2>0, <4>1
        <3>2. l \in [Kinds -> Nat]
            BY <2>0, <3>1
        <3>3. q = [P!None EXCEPT !.running = TRUE, !.lost = l]
            BY DEF P!init
        <3>4. ~p.running => l = P!Nobody
            OBVIOUS
        <3> HIDE DEF l, sum
        <3>5. P!None \in Records /\ P!None.drift = P!Nobody
            BY <2>0 DEF P!None, Records, P!States
        <3>6. q \in Records /\ q.drift = P!Nobody /\ q.lost = l
            BY <3>2, <3>3, <3>5 DEF Records
        <3> QED BY <2>0, <3>4, <3>6 DEF Platoon, Clean
    <2>2. ASSUME NEW q \in P!set_nuserTarget(p, Users)
          PROVE  q \in Platoon /\ (Clean(p) => Clean(q))
        <3>1. q \in Records /\ q.drift = p.drift /\ q.lost = p.lost
            BY <1>0, CorbaBenchAssumption DEF P!set_nuserTarget, Records
        <3> QED BY <1>0, <3>1 DEF Platoon, Clean
    <2>3. ASSUME NEW q \in P!reset(p)
          PROVE  q \in Platoon /\ ~q.running /\ (Clean(p) => Clean(q))
        <3>1. q = [p EXCEPT !.running = FALSE, !.lost = P!Nobody]
            BY DEF P!reset
        <3>2. q \in Records /\ q.drift = p.drift /\ q.lost = P!Nobody /\ ~q.running
            BY <1>0, <2>0, <3>1 DEF Records
        <3> QED BY <1>0, <3>2 DEF Platoon, Clean
    <2> QED
        BY <2>1, <2>2, <2>3
<1>6. ~p.running => P!Progress(p) = {}
    <2>1. P!Stray(p) # {} => p.running
        BY <1>4
    <2> QED BY <2>1 DEF P!Progress, P!Start, P!GetOn, P!Die
<1>7. ASSUME Clean(p), Gone(p) PROVE P!Progress(p) = {}
    <2>1. p.connect = 0 /\ p.connecting = 0 /\ p.up = 0
        BY <1>0, <1>7 DEF Gone, Living
    <2>2. P!ndead(p) = p.dead
        BY <1>0, <1>7, NobodyIsZero DEF P!ndead, Clean, Kinds
    <2>3. P!Start(p) = {}
        BY <1>7, <2>2 DEF P!Start, Gone
    <2>4. P!GetOn(p) = {} /\ P!Die(p) = {}
        BY <2>1 DEF P!GetOn, P!Die
    <2>5. P!Stray(p) = {}
        BY <1>4, <1>7
    <2> QED BY <2>3, <2>4, <2>5 DEF P!Progress
<1>8. ASSUME NEW q \in P!Progress(p)
      PROVE  /\ q \in Platoon /\ q.running = p.running /\ q.target = p.target
             /\ Total(q) = Total(p) \/ Total(q) <= p.target
             /\ Clean(p) => Clean(q)
             /\ Clean(p) /\ Living(p) > 0 => Living(q) > 0 \/ Gone(q)
    BY <1>1, <1>2, <1>3, <1>4, <1>s DEF P!Progress
<1> QED
    BY <1>5, <1>6, <1>7, <1>8

\* A platoon that was never initialised.
LEMMA NoneIsGone ==
    P!None \in Platoon /\ Gone(P!None) /\ ~P!None.running /\ Clean(P!None)
<1>1. /\ P!Nobody \in [Kinds -> Nat] /\ P!Nobody \in [Kinds -> Int] /\ Drifted(P!Nobody)
    BY NobodyIsZero DEF Drifted, Kinds
<1>2. /\ P!None \in Records /\ P!None.drift = P!Nobody /\ P!None.lost = P!Nobody
      /\ Living(P!None) = 0 /\ ~P!None.running
    BY <1>1 DEF P!None, Records, P!States, Living
<1> QED BY <1>1, <1>2 DEF Platoon, Gone, Clean

\* What earlier runs may have left.
LEMMA LeftByOthers ==
    ASSUME NEW p \in PlatoonRecords, WithinTarget(p)
    PROVE  p \in Platoon /\ p.target \in {0, Users} /\ Total(p) <= Users
<1>1. p \in Records /\ Drifted(p.drift)
    BY CorbaBenchAssumption DEF PlatoonRecords, Records, WithinTarget
<1> QED BY <1>1 DEF PlatoonRecords, Platoon, WithinTarget, Total, Living

(***************************************************************************)
(* What the controller's two verdicts rest on. When the test is over, the  *)
(* platoons it went through are stopped. While a round lasts, the platoons *)
(* that had a living user at its beginning have one or are gone, and if    *)
(* nobody was counted then those that answered are gone; all this for those*)
(* that were not initialised while they were running.                      *)
(***************************************************************************)
Stopped ==
    /\ pc = "reset" => \A n \in 1 .. i - 1 : ~platoons[mine[n]].running
    /\ pc = "over" => \A n \in 1 .. Len(mine) : ~platoons[mine[n]].running

Counted ==
    /\ alive \subseteq Servers
    /\ \A s \in Servers \ deserted : Clean(platoons[s])
    /\ pc \notin {"getStatus", "tally", "aborted"} => sums = NoSums
    /\ sums.nalive \in Int
    /\ pc \in {"getStatus", "tally", "failed"} =>
        \A s \in alive \ deserted : Living(platoons[s]) > 0 \/ Gone(platoons[s])
    /\ Untangled =>
        /\ sums.nalive \in Nat
        /\ pc = "getStatus" /\ sums.nalive = 0 =>
            \A n \in 1 .. i - 1 : mine[n] \in alive => Gone(platoons[mine[n]])
        /\ (\/ pc = "tally" /\ sums.nalive = 0
            \/ pc = "failed")
           => \A n \in 1 .. Len(mine) : mine[n] \in alive => Gone(platoons[mine[n]])

ServersInv == platoons \in [Servers -> Platoon] /\ Stopped /\ Counted

\* What is known of each server holds in every reachable state.
LEMMA ServersStay == Spec => []ServersInv
<1> USE CorbaBenchAssumption
<1>a. P!None \in Platoon /\ Gone(P!None) /\ ~P!None.running /\ Clean(P!None)
    BY NoneIsGone
<1>1. Init => ServersInv
    <2> SUFFICES ASSUME Init PROVE ServersInv
        OBVIOUS
    <2>0. platoons \in Before
        BY DEF Init
    <2>1. /\ platoons \in [Servers -> PlatoonRecords]
          /\ \A s \in Servers : WithinTarget(platoons[s])
        BY <2>0, BeforeAssumption
    <2>2. platoons \in [Servers -> Platoon]
        BY <2>1, LeftByOthers
    <2>3. \A s \in Servers \ deserted : Clean(platoons[s])
        BY DEF Init, Clean, P!Tangled
    <2>4. Stopped /\ Counted
        BY <2>3 DEF Init, Stopped, Counted, NoSums
    <2> QED BY <2>2, <2>4 DEF ServersInv
<1>2. ServersInv /\ Indices /\ Indices' /\ [Next]_vars => ServersInv'
    <2> SUFFICES ASSUME platoons \in [Servers -> Platoon], Stopped, Counted,
                        Indices, Indices', [Next]_vars
                 PROVE  ServersInv'
        BY DEF ServersInv
    <2>a. \A n \in 1 .. Len(mine) : mine[n] \in Servers
        BY DEF Indices
    \* The calls of the setup.
    <2>c. ASSUME pc \in Setup, pc' \in Setup \cup {"aborted"}, UNCHANGED <<sums, alive>>,
                 platoons' \in [Servers -> Platoon],
                 \A s \in Servers \ deserted' : Clean(platoons'[s])
          PROVE  ServersInv'
        <3>1. sums = NoSums /\ alive \subseteq Servers
            BY <2>c DEF Counted, Setup
        <3>2. sums'.nalive = 0 /\ sums' = NoSums /\ alive' \subseteq Servers
            BY <2>c, <3>1 DEF NoSums
        <3>3. pc' \notin {"getStatus", "tally", "failed", "reset", "over"}
            BY <2>c DEF Setup
        <3> QED BY <2>c, <3>2, <3>3 DEF ServersInv, Stopped, Counted
    <2>d. ASSUME NEW s \in Servers, NEW after \in SUBSET Platoon, NEW f,
                 Returns(s, after) \/ Throws(s, after, f)
          PROVE  /\ platoons' \in [Servers -> Platoon]
                 /\ platoons' = platoons \/ \E q \in after : platoons' = [platoons EXCEPT ![s] = q]
        BY <2>d DEF Returns, Throws
    \* A call that leaves a platoon without forgotten users as such.
    <2>g. ASSUME NEW s \in Servers, NEW after \in SUBSET Platoon, NEW f,
                 Returns(s, after) \/ Throws(s, after, f), UNCHANGED deserted,
                 Clean(platoons[s]) => \A q \in after : Clean(q)
          PROVE  \A t \in Servers \ deserted' : Clean(platoons'[t])
        <3>1. CASE platoons' = platoons
            BY <2>g, <3>1 DEF Counted
        <3>2. ASSUME NEW q \in after, platoons' = [platoons EXCEPT ![s] = q]
              PROVE  \A t \in Servers \ deserted' : Clean(platoons'[t])
            BY <2>g, <3>2 DEF Counted
        <3> QED BY <2>d, <2>g, <3>1, <3>2
    <2>e. ASSUME pc \in Setup \ {"resolve"} PROVE i \in Servers
        BY <2>e DEF Indices, Servers
    \* A platoon stops or goes on.
    <2>f. ASSUME NEW s \in Servers, NEW q \in Platoon,
                 platoons' = [platoons EXCEPT ![s] = q],
                 ~platoons[s].running => ~q.running,
                 Clean(platoons[s]) => /\ Clean(q)
                                       /\ Gone(platoons[s]) => Gone(q)
                                       /\ Living(platoons[s]) > 0 => Living(q) > 0 \/ Gone(q),
                 UNCHANGED <<pc, i, mine, sums, alive, deserted>>
          PROVE  ServersInv'
        <3>1. platoons' \in [Servers -> Platoon]
            BY <2>f
        <3>2. /\ \A t \in Servers : ~platoons[t].running => ~platoons'[t].running
              /\ \A t \in Servers \ deserted : Clean(platoons[t]) /\ Clean(platoons'[t])
              /\ \A t \in Servers \ deserted : Gone(platoons[t]) => Gone(platoons'[t])
              /\ \A t \in Servers \ deserted :
                    Living(platoons[t]) > 0 => Living(platoons'[t]) > 0 \/ Gone(platoons'[t])
            BY <2>f DEF Counted
        <3>3. \A n \in 1 .. i - 1 : pc \in {"reset", "getStatus"} => mine[n] \in Servers
            BY <2>a DEF Indices
        <3>4. Stopped'
            BY <2>a, <2>f, <3>2, <3>3 DEF Stopped
        <3>5. Counted'
            <4>1. /\ UNCHANGED Untangled
                  /\ Untangled => \A n \in 1 .. Len(mine) : mine[n] \in Servers \ deserted
                BY <2>a, <2>f DEF Untangled, Indices
            <4>2. pc' \in {"getStatus", "tally", "failed"} =>
                    \A t \in alive' \ deserted' : Living(platoons'[t]) > 0 \/ Gone(platoons'[t])
                BY <2>f, <3>2 DEF Counted
            <4>3. ASSUME Untangled, pc = "getStatus", sums.nalive = 0, NEW n \in 1 .. i - 1,
                         mine[n] \in alive
                  PROVE  Gone(platoons'[mine[n]])
                <5>1. n \in 1 .. Len(mine)
                    BY <4>3 DEF Indices
                <5>2. Gone(platoons[mine[n]])
                    BY <4>3 DEF Counted
                <5> QED BY <3>2, <4>1, <4>3, <5>1, <5>2
            <4>4. ASSUME Untangled, \/ pc = "tally" /\ sums.nalive = 0
                                   \/ pc = "failed",
                         NEW n \in 1 .. Len(mine), mine[n] \in alive
                  PROVE  Gone(platoons'[mine[n]])
                <5>1. Gone(platoons[mine[n]])
                    BY <4>4 DEF Counted
                <5> QED BY <3>2, <4>1, <4>4, <5>1
            <4> HIDE DEF Untangled
            <4> QED BY <2>f, <3>2, <4>1, <4>2, <4>3, <4>4 DEF Counted
        <3> QED BY <3>1, <3>4, <3>5 DEF ServersInv
    <2>1. CASE UNCHANGED vars
        BY <2>1 DEF vars, servers, counts, ghosts, ServersInv, Stopped, Counted, Untangled
    <2>2. ASSUME NEW s \in Servers, Progress(s) PROVE ServersInv'
        <3>1. PICK q \in P!Progress(platoons[s]) : platoons' = [platoons EXCEPT ![s] = q]
            BY <2>2 DEF Progress
        <3>2. /\ q \in Platoon
              /\ platoons[s].running
              /\ Clean(platoons[s]) => /\ Clean(q)
                                       /\ ~Gone(platoons[s])
                                       /\ Living(platoons[s]) > 0 => Living(q) > 0 \/ Gone(q)
            BY <3>1, PlatoonSteps
        <3>3. UNCHANGED <<pc, i, mine, sums, alive, deserted>>
            BY <2>2 DEF Progress, counts, ghosts
        <3> QED BY <2>f, <3>1, <3>2, <3>3
    <2>3. ASSUME NEW s \in Servers, Crash(s) PROVE ServersInv'
        <3>1. platoons' = [platoons EXCEPT ![s] = P!None]
            BY <2>3 DEF Crash
        <3>2. UNCHANGED <<pc, i, mine, sums, alive, deserted>>
            BY <2>3 DEF Crash, counts, ghosts
        <3> QED BY <1>a, <2>f, <3>1, <3>2
    <2>4. CASE Resolve
        <3>1. i \in Servers
            BY <2>4 DEF Resolve, Indices, Servers
        <3>2. /\ platoons' \in [Servers -> Platoon]
              /\ \A t \in Servers \ deserted' : Clean(platoons'[t])
            <4>1. platoons' = platoons /\ deserted' = deserted
                BY <2>4, <3>1 DEF Resolve, Returns, Throws
            <4> QED BY <4>1 DEF Counted
        <3> QED BY <2>4, <2>c, <3>2 DEF Resolve, Abort, Setup, counts
    <2>5. CASE CallInit
        <3>1. i \in Servers
            BY <2>5, <2>e DEF CallInit, Setup
        <3>2. P!init(platoons[i]) \in SUBSET Platoon
            BY <3>1, PlatoonSteps
        <3>3. /\ platoons' \in [Servers -> Platoon]
              /\ \/ platoons' = platoons
                 \/ \E q \in P!init(platoons[i]) : platoons' = [platoons EXCEPT ![i] = q]
            BY <2>5, <2>d, <3>1, <3>2 DEF CallInit, SetupCall
        <3>4. \A t \in Servers \ deserted' : Clean(platoons'[t])
            <4>1. CASE platoons' = platoons
                <5>1. deserted' = deserted
                    BY <2>5, <4>1 DEF CallInit
                <5> QED BY <4>1, <5>1 DEF Counted
            <4>2. CASE platoons' # platoons /\ platoons[i].running
                <5>1. deserted' = deserted \cup {i}
                    BY <2>5, <4>2 DEF CallInit
                <5> QED BY <3>1, <3>3, <4>2, <5>1 DEF Counted
            <4>3. CASE platoons' # platoons /\ ~platoons[i].running
                <5>1. deserted' = deserted \ {i}
                    BY <2>5, <4>3 DEF CallInit
                <5>2. PICK q \in P!init(platoons[i]) : platoons' = [platoons EXCEPT ![i] = q]
                    BY <3>3, <4>3
                <5>3. Clean(q)
                    BY <3>1, <4>3, PlatoonSteps
                <5> QED BY <3>1, <5>1, <5>2, <5>3 DEF Counted
            <4> QED BY <4>1, <4>2, <4>3
        <3> QED BY <2>5, <2>c, <3>3, <3>4 DEF CallInit, SetupCall, LeaveOut, Abort, Setup, counts
    <2>6. CASE Call_set_nuserTarget
        <3>1. i \in Servers
            BY <2>6, <2>e DEF Call_set_nuserTarget, Setup
        <3>2. /\ P!set_nuserTarget(platoons[i], Users) \in SUBSET Platoon
              /\ Clean(platoons[i]) => \A q \in P!set_nuserTarget(platoons[i], Users) : Clean(q)
            BY <3>1, PlatoonSteps
        <3>3. /\ platoons' \in [Servers -> Platoon]
              /\ \A t \in Servers \ deserted' : Clean(platoons'[t])
            BY <2>6, <2>d, <2>g, <3>1, <3>2 DEF Call_set_nuserTarget, SetupCall
        <3> QED
            BY <2>6, <2>c, <3>3 DEF Call_set_nuserTarget, SetupCall, LeaveOut, Abort, Setup, counts
    <2>7. CASE Call_set_verbosity
        <3>1. i \in Servers
            BY <2>7, <2>e DEF Call_set_verbosity, Setup
        <3>2. /\ platoons' \in [Servers -> Platoon]
              /\ \A t \in Servers \ deserted' : Clean(platoons'[t])
            <4>1. platoons' = platoons /\ deserted' = deserted
                BY <2>7, <3>1 DEF Call_set_verbosity, SetupCall, Returns, Throws
            <4> QED BY <4>1 DEF Counted
        <3> QED
            BY <2>7, <2>c, <3>2 DEF Call_set_verbosity, SetupCall, LeaveOut, Abort, Setup, counts
    <2>8. CASE StartTest
        BY <2>8 DEF StartTest, servers, counts, ServersInv, Stopped, Counted, Untangled
    <2>9. CASE Top
        <3>1. sums' = NoSums /\ sums'.nalive = 0 /\ i' = 1 /\ pc' \in {"reset", "getStatus"}
            BY <2>9 DEF Top, counts, Counted, NoSums
        <3>2. Stopped'
            BY <3>1 DEF Stopped
        <3>3. platoons' = platoons /\ deserted' = deserted /\ alive' \subseteq Servers
            BY <2>9 DEF Top, servers, Counted
        <3>4. pc' = "getStatus" => \A s \in alive' : Living(platoons'[s]) > 0
            BY <2>9, <3>3 DEF Top
        <3>5. Counted'
            BY <3>1, <3>3, <3>4 DEF Counted
        <3> QED BY <3>2, <3>3, <3>5 DEF ServersInv
    <2>10. CASE CallGetStatus
        <3>1. /\ pc = "getStatus" /\ i \in 1 .. Len(mine) /\ mine[i] \in Servers
              /\ UNCHANGED <<mine, alive, deserted, Untangled>>
            BY <2>10, <2>a DEF CallGetStatus, Indices, Abort, Untangled
        <3>2. platoons' = platoons
            BY <2>10, <3>1 DEF CallGetStatus, Returns, Throws
        <3>3. CASE Abort
            BY <3>1, <3>2, <3>3 DEF Abort, counts, ServersInv, Stopped, Counted
        <3>4. CASE ~Abort
            <4> DEFINE p == platoons[mine[i]]
            <4>1. /\ sums' = Added(p) /\ i' = i + 1
                  /\ pc' = IF i = Len(mine) THEN "tally" ELSE "getStatus"
                BY <2>10, <3>4 DEF CallGetStatus
            <4>2. /\ P!nalive(p) \in Int
                  /\ Clean(p) => P!nalive(p) = Living(p) /\ P!nalive(p) \in Nat
                BY <3>1, Counts
            <4>c. Untangled => Clean(p) /\ mine[i] \notin deserted
                BY <3>1 DEF Untangled, Counted, Indices
            <4> HIDE DEF p, Untangled
            <4>3. sums'.nalive = sums.nalive + P!nalive(p)
                BY <4>1 DEF Added
            <4>4. /\ sums'.nalive \in Int
                  /\ Untangled => sums'.nalive \in Nat
                  /\ Untangled /\ sums'.nalive = 0 => sums.nalive = 0 /\ Living(p) = 0
                BY <4>2, <4>3, <4>c DEF Counted
            <4>5. Untangled /\ sums'.nalive = 0 =>
                    \A n \in 1 .. i : mine[n] \in alive => Gone(platoons[mine[n]])
                <5> SUFFICES ASSUME Untangled, sums'.nalive = 0, NEW n \in 1 .. i, mine[n] \in alive
                             PROVE  Gone(platoons[mine[n]])
                    OBVIOUS
                <5>1. CASE n = i
                    <6>1. Living(platoons[mine[i]]) = 0 /\ mine[i] \in alive \ deserted
                        BY <4>4, <4>c, <5>1 DEF p
                    <6> QED BY <3>1, <5>1, <6>1 DEF Counted
                <5>2. CASE n # i
                    <6>1. n \in 1 .. i - 1
                        BY <3>1, <5>2
                    <6> QED BY <3>1, <4>4, <6>1 DEF Counted
                <5> QED BY <5>1, <5>2
            <4>6. i' - 1 = i
                BY <3>1, <4>1
            <4>7. Counted'
                <5>1. pc' \in {"getStatus", "tally"} /\ (pc' = "tally" => i = Len(mine))
                    BY <4>1
                <5>2. /\ alive' \subseteq Servers
                      /\ \A s \in Servers \ deserted' : Clean(platoons'[s])
                      /\ \A s \in alive' \ deserted' : Living(platoons'[s]) > 0 \/ Gone(platoons'[s])
                    BY <3>1, <3>2 DEF Counted
                <5>3. UNCHANGED <<Untangled, alive, mine>>
                    BY <3>1
                <5> QED BY <3>2, <4>4, <4>5, <4>6, <5>1, <5>2, <5>3 DEF Counted
            <4>8. Stopped'
                BY <4>1 DEF Stopped
            <4> QED BY <3>2, <4>7, <4>8 DEF ServersInv
        <3> QED BY <3>3, <3>4
    <2>11. CASE Tally
        <3>1. /\ sums' = NoSums /\ sums'.nalive = 0 /\ platoons' = platoons
              /\ UNCHANGED <<mine, deserted, Untangled>>
              /\ pc = "tally" /\ pc' \in {"failed", "sleep"} /\ alive' \in {alive, {}}
              /\ pc' = "failed" => sums.nalive = 0 /\ alive' = alive
            BY <2>11 DEF Tally, AllUsersDead, servers, NoSums, Untangled
        <3> HIDE DEF Untangled
        <3>2. Counted'
            BY <3>1 DEF Counted
        <3>3. Stopped'
            BY <3>1 DEF Stopped
        <3> QED BY <3>1, <3>2, <3>3 DEF ServersInv
    <2>12. CASE Sleep
        BY <2>12 DEF Sleep, servers, counts, ServersInv, Stopped, Counted, Untangled
    <2>13. CASE CallReset
        <3>1. /\ pc = "reset" /\ i \in 1 .. Len(mine) /\ mine[i] \in Servers
              /\ UNCHANGED <<mine, alive, sums, deserted, Untangled>>
            BY <2>13, <2>a DEF CallReset, Indices, Abort, counts, Untangled
        <3>2. /\ P!reset(platoons[mine[i]]) \in SUBSET Platoon
              /\ \A q \in P!reset(platoons[mine[i]]) : ~q.running
              /\ Clean(platoons[mine[i]]) => \A q \in P!reset(platoons[mine[i]]) : Clean(q)
            BY <3>1, PlatoonSteps
        <3>3. /\ platoons' \in [Servers -> Platoon]
              /\ \A t \in Servers \ deserted' : Clean(platoons'[t])
            <4>1. CASE ResetAsserts(mine[i])
                <5>1. platoons' = [platoons EXCEPT ![mine[i]] = P!None]
                    BY <4>1 DEF ResetAsserts
                <5> QED BY <1>a, <3>1, <5>1 DEF Counted
            <4>2. CASE ~ResetAsserts(mine[i])
                BY <2>13, <2>d, <2>g, <3>1, <3>2, <4>2 DEF CallReset
            <4> QED BY <4>1, <4>2
        <3>z. sums = NoSums /\ NoSums.nalive = 0
            BY <3>1 DEF Counted, NoSums
        <3>4. CASE Abort
            BY <3>1, <3>3, <3>4, <3>z DEF Abort, counts, ServersInv, Stopped, Counted
        <3>5. CASE ~Abort
            <4>1. /\ Returns(mine[i], P!reset(platoons[mine[i]]))
                  /\ pc' = IF NoMoreToReset THEN "over" ELSE "reset"
                  /\ i' = i + 1
                BY <2>13, <3>5 DEF CallReset
            <4>2. PICK q \in P!reset(platoons[mine[i]]) :
                    platoons' = [platoons EXCEPT ![mine[i]] = q]
                BY <4>1 DEF Returns
            <4>3. \A n \in 1 .. i : ~platoons'[mine[n]].running
                <5> SUFFICES ASSUME NEW n \in 1 .. i PROVE ~platoons'[mine[n]].running
                    OBVIOUS
                <5>1. mine[n] \in Servers
                    BY <2>a, <3>1
                <5>2. CASE mine[n] = mine[i]
                    BY <3>1, <3>2, <4>2, <5>2
                <5>3. CASE mine[n] # mine[i]
                    <6>1. n \in 1 .. i - 1
                        BY <3>1, <5>3
                    <6> QED BY <3>1, <4>2, <5>1, <5>3, <6>1 DEF Stopped
                <5> QED BY <5>2, <5>3
            <4>4. Stopped'
                <5>1. i' - 1 = i /\ (pc' = "over" => i = Len(mine)) /\ pc' \in {"over", "reset"}
                    BY <3>1, <4>1 DEF NoMoreToReset
                <5> QED BY <3>1, <4>3, <5>1 DEF Stopped
            <4>5. Counted'
                BY <3>1, <3>3, <3>z, <4>1 DEF Counted
            <4> QED BY <3>3, <4>4, <4>5 DEF ServersInv
        <3> QED BY <3>4, <3>5
    <2>14. CASE Finished
        BY <2>1, <2>14 DEF Finished
    <2> QED
        BY <2>1, <2>2, <2>3, <2>4, <2>5, <2>6, <2>7, <2>8, <2>9, <2>10, <2>11,
           <2>12, <2>13, <2>14 DEF Next, Controller
<1> QED
    BY <1>1, <1>2, IndicesStay, PTL DEF Spec

(***************************************************************************)
(* "don't leave the sourcerer's apprentice fetching files forever": no     *)
(* platoon that took part runs once the test is over.                      *)
(***************************************************************************)
THEOREM NobodyIsLeft == Spec => []NobodyLeftRunning
<1>1. ServersInv /\ Indices => NobodyLeftRunning
    BY DEF ServersInv, Stopped, Indices, NobodyLeftRunning
<1> QED
    BY <1>1, ServersStay, IndicesStay, PTL

(***************************************************************************)
(* "All users dead." is true of the platoons that had any when the round   *)
(* began, although their answers come one after the other.                 *)
(***************************************************************************)
THEOREM TheyAreDead == Spec => []FailedMeansDead
<1>1. ServersInv /\ Indices => FailedMeansDead
    <2> SUFFICES ASSUME ServersInv, Indices, pc = "failed", Untangled,
                        NEW n \in DOMAIN mine, mine[n] \in alive
                 PROVE  Extinct(platoons[mine[n]])
        BY DEF FailedMeansDead
    <2>1. /\ Gone(platoons[mine[n]]) /\ platoons[mine[n]] \in Platoon
          /\ Clean(platoons[mine[n]])
        BY DEF ServersInv, Counted, Indices, Untangled
    <2>2. P!Progress(platoons[mine[n]]) = {}
        BY <2>1, PlatoonSteps
    <2> QED
        BY <2>1, <2>2 DEF Gone, P!Progress, Extinct
<1> QED
    BY <1>1, ServersStay, IndicesStay, PTL

------------------------------------------------------------------------------
\* A platoon has at most as many users as it was told to have.
Bounded(p) == p \in Platoon /\ p.target \in {0, Users} /\ Total(p) <= Users

\* What the platoons that have answered can add up to.
Limit == IF pc = "getStatus" THEN (i - 1) * Users ELSE NServers * Users

SumsInv ==
    /\ {sums.nconnecting, sums.nalive, sums.ndead} \subseteq Int
    /\ sums.nconnecting <= Limit /\ sums.nalive <= Limit
    /\ Untangled => {sums.nconnecting, sums.nalive, sums.ndead} \subseteq 0 .. Limit
    /\ pc \notin {"getStatus", "tally", "aborted"} => sums = NoSums

\* The variables that Indices and ServersInv say nothing of.
RestInv ==
    /\ up \in [Servers -> BOOLEAN]
    /\ {clock, now} \subseteq Times
    /\ test_end \in -LongHalf .. LongHalf - 1
    /\ pc \in Setup \cup Rounds \cup {"reset"} \cup Ended
    /\ {sinceNow, sinceChange} \subseteq Nat
    /\ deserted \subseteq Servers

(***************************************************************************)
(* What the calls and the changes of a platoon do to its bound.            *)
(***************************************************************************)
LEMMA BoundedSteps ==
    ASSUME NEW p, Bounded(p)
    PROVE  \A q \in P!Progress(p) \cup P!init(p) \cup P!set_nuserTarget(p, Users)
                      \cup P!reset(p) \cup {p, P!None} : Bounded(q)
<1> USE CorbaBenchAssumption
<1>0. p \in Platoon
    BY DEF Bounded
<1>1. ASSUME NEW q \in P!Progress(p) PROVE Bounded(q)
    <2>1. /\ q \in Platoon /\ q.target = p.target
          /\ Total(q) = Total(p) \/ Total(q) <= p.target
        BY <1>0, PlatoonSteps
    <2>2. Total(q) \in Nat /\ p.target \in {0, Users} /\ Total(p) <= Users
        BY <2>1, Counts DEF Bounded
    <2> QED BY <2>1, <2>2 DEF Bounded
<1>2. Bounded(P!None)
    BY NoneIsGone DEF P!None, Bounded, Total, Living
<1>3. ASSUME NEW q \in P!init(p) PROVE Bounded(q)
    <2>1. q \in Platoon
        BY <1>0, PlatoonSteps
    <2>2. q.target = 0 /\ q.connect = 0 /\ q.connecting = 0 /\ q.up = 0 /\ q.dead = 0
        BY DEF P!init, P!None
    <2> QED BY <2>1, <2>2 DEF Bounded, Total, Living
<1>4. ASSUME NEW q \in P!set_nuserTarget(p, Users) \cup P!reset(p) PROVE Bounded(q)
    <2>1. q \in Platoon
        BY <1>0, PlatoonSteps
    <2>2. /\ q.target \in {p.target, Users} /\ q.connect = p.connect
          /\ q.connecting = p.connecting /\ q.up = p.up /\ q.dead = p.dead
        BY <1>0 DEF P!set_nuserTarget, P!reset, Platoon, Records
    <2> QED BY <2>1, <2>2 DEF Bounded, Total, Living
<1> QED
    BY <1>1, <1>2, <1>3, <1>4

(***************************************************************************)
(* No platoon ever has more users than the controller asked for: a dead    *)
(* one is not replaced (Platoon.cc:195).                                   *)
(***************************************************************************)
LEMMA BoundsStay == Spec => [](\A s \in Servers : Bounded(platoons[s]))
<1> DEFINE B == \A s \in Servers : Bounded(platoons[s])
<1>1. Init => B
    <2> SUFFICES ASSUME Init, NEW s \in Servers PROVE Bounded(platoons[s])
        OBVIOUS
    <2>1. platoons[s] \in PlatoonRecords /\ WithinTarget(platoons[s])
        BY BeforeAssumption DEF Init
    <2> QED BY <2>1, LeftByOthers DEF Bounded
<1>2. B /\ Indices /\ ServersInv /\ [Next]_vars => B'
    <2> SUFFICES ASSUME B, Indices, platoons \in [Servers -> Platoon], [Next]_vars PROVE B'
        BY DEF ServersInv
    <2>a. ASSUME NEW s \in Servers, NEW q, platoons' = [platoons EXCEPT ![s] = q], Bounded(q)
          PROVE  B'
        BY <2>a
    <2>b. ASSUME platoons' = platoons PROVE B'
        BY <2>b
    <2>c. ASSUME NEW s \in Servers, NEW after, NEW f,
                 \A q \in after : Bounded(q), Returns(s, after) \/ Throws(s, after, f)
          PROVE  B'
        BY <2>a, <2>b, <2>c DEF Returns, Throws
    <2>d. \A n \in 1 .. Len(mine) : mine[n] \in Servers
        BY DEF Indices
    <2>e. ASSUME pc \in Setup \ {"resolve"} PROVE i \in Servers
        BY <2>e DEF Indices, Servers
    <2> HIDE DEF B
    <2>f. ASSUME NEW s \in Servers PROVE Bounded(platoons[s])
        BY DEF B
    <2>1. CASE UNCHANGED vars
        BY <2>1, <2>b DEF vars, servers
    <2>2. ASSUME NEW s \in Servers, Progress(s) PROVE B'
        <3>1. PICK q \in P!Progress(platoons[s]) : platoons' = [platoons EXCEPT ![s] = q]
            BY <2>2 DEF Progress
        <3> QED BY <2>a, <2>f, <3>1, BoundedSteps
    <2>3. ASSUME NEW s \in Servers, Crash(s) PROVE B'
        <3>1. Bounded(P!None)
            BY <2>f, BoundedSteps
        <3> QED BY <2>3, <2>a, <3>1 DEF Crash
    <2>4. CASE Resolve
        <3>1. i \in Servers
            BY <2>4 DEF Resolve, Indices, Servers
        <3>2. \A q \in {platoons[i]} : Bounded(q)
            BY <2>f, <3>1
        <3> QED BY <2>4, <2>c, <3>1, <3>2 DEF Resolve
    <2>5. CASE CallInit
        <3>1. i \in Servers
            BY <2>5, <2>e DEF CallInit, Setup
        <3>2. \A q \in P!init(platoons[i]) : Bounded(q)
            BY <2>f, <3>1, BoundedSteps
        <3> QED BY <2>5, <2>c, <3>1, <3>2 DEF CallInit, SetupCall
    <2>6. CASE Call_set_nuserTarget
        <3>1. i \in Servers
            BY <2>6, <2>e DEF Call_set_nuserTarget, Setup
        <3>2. \A q \in P!set_nuserTarget(platoons[i], Users) : Bounded(q)
            BY <2>f, <3>1, BoundedSteps
        <3> QED BY <2>6, <2>c, <3>1, <3>2 DEF Call_set_nuserTarget, SetupCall
    <2>7. CASE Call_set_verbosity
        <3>1. i \in Servers
            BY <2>7, <2>e DEF Call_set_verbosity, Setup
        <3>2. \A q \in {platoons[i]} : Bounded(q)
            BY <2>f, <3>1
        <3> QED BY <2>7, <2>c, <3>1, <3>2 DEF Call_set_verbosity, SetupCall
    <2>8. CASE StartTest \/ Top \/ Tally \/ Sleep \/ Finished
        BY <2>8, <2>b DEF StartTest, Top, Tally, Sleep, Finished, vars, servers
    <2>9. CASE CallGetStatus
        <3>1. mine[i] \in Servers
            BY <2>9, <2>d DEF CallGetStatus, Indices
        <3>2. \A q \in {platoons[mine[i]]} : Bounded(q)
            BY <2>f, <3>1
        <3>3. \E f \in Faults \cup {"none"} :
                \/ Returns(mine[i], {platoons[mine[i]]})
                \/ Throws(mine[i], {platoons[mine[i]]}, f)
            BY <2>9 DEF CallGetStatus
        <3> QED BY <2>c, <3>1, <3>2, <3>3
    <2>10. CASE CallReset
        <3>1. mine[i] \in Servers
            BY <2>10, <2>d DEF CallReset, Indices
        <3>2. \A q \in P!reset(platoons[mine[i]]) : Bounded(q)
            BY <2>f, <3>1, BoundedSteps
        <3>3. CASE ResetAsserts(mine[i])
            <4>1. Bounded(P!None)
                BY <2>f, <3>1, BoundedSteps
            <4> QED BY <2>a, <3>1, <3>3, <4>1 DEF ResetAsserts
        <3>4. CASE ~ResetAsserts(mine[i])
            BY <2>10, <2>c, <3>1, <3>2, <3>4 DEF CallReset
        <3> QED BY <3>3, <3>4
    <2> QED
        BY <2>1, <2>2, <2>3, <2>4, <2>5, <2>6, <2>7, <2>8, <2>9, <2>10
        DEF Next, Controller
<1> QED
    BY <1>1, <1>2, IndicesStay, ServersStay, PTL DEF Spec

(***************************************************************************)
(* What a platoon with a bound answers to getStatus.                       *)
(***************************************************************************)
LEMMA AnswersAreBounded ==
    ASSUME NEW p, Bounded(p)
    PROVE  /\ {P!nconnecting(p), P!nalive(p), P!ndead(p)} \subseteq Int
           /\ P!nconnecting(p) <= Users /\ P!nalive(p) <= Users
           /\ Clean(p) => {P!nconnecting(p), P!nalive(p), P!ndead(p)} \subseteq 0 .. Users
           /\ {p.connect, p.connecting, p.up, p.dead, P!nalive(p) + P!ndead(p)} \subseteq 0 .. Users
<1>1. /\ p.connect \in Nat /\ p.connecting \in Nat /\ p.up \in Nat /\ p.dead \in Nat
      /\ p.connect + p.connecting + p.up + p.dead <= Users
      /\ Living(p) <= Users /\ Total(p) \in 0 .. Users
    <2>1. /\ p.connect \in Nat /\ p.connecting \in Nat /\ p.up \in Nat /\ p.dead \in Nat
        BY DEF Bounded, Platoon, Records
    <2> QED BY <2>1, CorbaBenchAssumption DEF Bounded, Total, Living
<1>2. p \in Platoon
    BY DEF Bounded
<1> QED
    BY <1>1, <1>2, Counts, CorbaBenchAssumption

(***************************************************************************)
(* The sums of a round stay below what the platoons that answered can have.*)
(***************************************************************************)
LEMMA SumsStay == Spec => []SumsInv
<1> USE CorbaBenchAssumption
<1> DEFINE B == \A s \in Servers : Bounded(platoons[s])
           N == NServers * Users
<1>a. N \in Nat
    OBVIOUS
<1>b. ASSUME sums' = NoSums, Limit' \in Nat PROVE SumsInv'
    BY <1>b DEF SumsInv, NoSums
<1>1. Init => SumsInv
    BY <1>a DEF Init, SumsInv, NoSums, Limit
<1>2. SumsInv /\ B /\ ServersInv /\ Indices /\ Indices' /\ [Next]_vars => SumsInv'
    <2> SUFFICES ASSUME SumsInv, B, Counted, Indices, Indices', [Next]_vars PROVE SumsInv'
        BY DEF ServersInv
    <2>a. ASSUME pc' # "getStatus" PROVE Limit' = N
        BY <2>a DEF Limit
    <2>b. ASSUME pc \notin {"getStatus", "tally", "aborted"}, pc' # "getStatus",
                 UNCHANGED sums
          PROVE  SumsInv'
        BY <1>a, <1>b, <2>a, <2>b DEF SumsInv
    <2>1. CASE UNCHANGED <<pc, i, sums, Untangled>>
        BY <2>1 DEF SumsInv, Limit
    <2>2. ASSUME NEW s \in Servers, Progress(s) \/ Crash(s) PROVE SumsInv'
        BY <2>1, <2>2 DEF Progress, Crash, counts, ghosts, Untangled
    <2>3. CASE Resolve
        BY <2>3, <2>b DEF Resolve, Abort, counts
    <2>4. CASE CallInit
        BY <2>4, <2>b DEF CallInit, SetupCall, LeaveOut, Abort, counts
    <2>5. CASE Call_set_nuserTarget
        BY <2>5, <2>b DEF Call_set_nuserTarget, SetupCall, LeaveOut, Abort, counts
    <2>6. CASE Call_set_verbosity
        BY <2>6, <2>b DEF Call_set_verbosity, SetupCall, LeaveOut, Abort, counts
    <2>7. CASE StartTest \/ Sleep \/ CallReset
        BY <2>7, <2>b DEF StartTest, Sleep, CallReset, Abort, counts
    <2>8. CASE Top
        <3>1. sums' = NoSums /\ i' = 1
            BY <2>8 DEF Top, SumsInv, counts
        <3>2. Limit' \in Nat
            BY <1>a, <3>1 DEF Limit
        <3> QED BY <1>b, <3>1, <3>2
    <2>9. CASE CallGetStatus
        <3> DEFINE before == (i - 1) * Users
                   after == i * Users
        <3>0. UNCHANGED Untangled
            BY <2>9 DEF CallGetStatus, Abort, Untangled
        <3>1. pc = "getStatus" /\ i \in 1 .. Len(mine) /\ Len(mine) <= NServers
            BY <2>9 DEF CallGetStatus, Indices
        <3>2. /\ before \in Nat /\ after = before + Users /\ after <= N /\ after \in Nat
            <4>1. after = before + Users
                BY <3>1
            <4>2. (NServers - i) * Users >= 0 /\ (i - 1) * Users >= 0
                BY <3>1
            <4>3. (NServers - i) * Users = NServers * Users - i * Users
                BY <3>1
            <4>4. before \in Int /\ after \in Int
                BY <3>1
            <4>5. after <= N /\ before >= 0
                BY <1>a, <4>2, <4>3, <4>4
            <4> HIDE DEF before, after, N
            <4> QED BY <1>a, <4>1, <4>4, <4>5
        <3>3. /\ {sums.nconnecting, sums.nalive, sums.ndead} \subseteq Int
              /\ sums.nconnecting <= before /\ sums.nalive <= before
              /\ Untangled => {sums.nconnecting, sums.nalive, sums.ndead} \subseteq 0 .. before
            BY <3>1 DEF SumsInv, Limit
        <3>4. CASE Abort
            <4>1. pc' = "aborted" /\ sums' = sums
                BY <3>4 DEF Abort, counts
            <4> HIDE DEF before, after, N
            <4>2. /\ {sums.nconnecting, sums.nalive, sums.ndead} \subseteq Int
                  /\ sums.nconnecting <= N /\ sums.nalive <= N
                  /\ Untangled => {sums.nconnecting, sums.nalive, sums.ndead} \subseteq 0 .. N
                BY <1>a, <3>2, <3>3
            <4> HIDE DEF Untangled
            <4> QED BY <2>a, <3>0, <4>1, <4>2 DEF SumsInv
        <3>5. CASE ~Abort
            <4> DEFINE p == platoons[mine[i]]
            <4>1. /\ sums' = Added(p) /\ i' = i + 1
                  /\ pc' = IF i = Len(mine) THEN "tally" ELSE "getStatus"
                BY <2>9, <3>5 DEF CallGetStatus
            <4>2. mine[i] \in Servers
                BY <3>1 DEF Indices
            <4>3. /\ {P!nconnecting(p), P!nalive(p), P!ndead(p)} \subseteq Int
                  /\ P!nconnecting(p) <= Users /\ P!nalive(p) <= Users
                  /\ Untangled => {P!nconnecting(p), P!nalive(p), P!ndead(p)} \subseteq 0 .. Users
                <5>1. Untangled => Clean(p)
                    BY <3>1, <4>2 DEF Untangled, Counted, Indices
                <5> QED BY <4>2, <5>1, AnswersAreBounded
            <4> HIDE DEF p, before, after, N, Untangled
            <4>4. /\ sums'.nconnecting = sums.nconnecting + P!nconnecting(p)
                  /\ sums'.nalive = sums.nalive + P!nalive(p)
                  /\ sums'.ndead = sums.ndead + P!ndead(p)
                BY <4>1 DEF Added
            <4>5. /\ {sums'.nconnecting, sums'.nalive, sums'.ndead} \subseteq Int
                  /\ sums'.nconnecting <= after /\ sums'.nalive <= after
                  /\ Untangled => {sums'.nconnecting, sums'.nalive, sums'.ndead} \subseteq 0 .. after
                BY <3>2, <3>3, <4>3, <4>4, CorbaBenchAssumption
            <4>6. Limit' \in {after, N}
                <5>1. i' - 1 = i
                    BY <3>1, <4>1
                <5> QED BY <5>1 DEF Limit, after, N
            <4>7. /\ sums'.nconnecting <= Limit' /\ sums'.nalive <= Limit'
                  /\ Untangled => {sums'.nconnecting, sums'.nalive, sums'.ndead} \subseteq 0 .. Limit'
                BY <1>a, <3>2, <4>5, <4>6
            <4> QED BY <3>0, <4>1, <4>5, <4>7 DEF SumsInv
        <3> QED BY <3>4, <3>5
    <2>10. CASE Tally
        <3>1. sums' = NoSums /\ pc' # "getStatus"
            BY <2>10 DEF Tally
        <3> QED BY <1>a, <1>b, <2>a, <3>1
    <2>11. CASE UNCHANGED vars
        BY <2>1, <2>11 DEF vars, counts, ghosts, Untangled
    <2> QED
        BY <2>2, <2>3, <2>4, <2>5, <2>6, <2>7, <2>8, <2>9, <2>10, <2>11
        DEF Next, Controller, Finished
<1> QED
    BY <1>1, <1>2, BoundsStay, ServersStay, IndicesStay, PTL DEF Spec

(***************************************************************************)
(* The clock shows times, whatever their width and however long the test   *)
(* lasts.                                                                  *)
(***************************************************************************)
LEMMA RestStays == Spec => []RestInv
<1> USE CorbaBenchAssumption, EclockAssumption
<1>a. ASSUME NEW x \in Int
      PROVE  Signed(x, IntHalf) \in Times /\ Signed(x, LongHalf) \in -LongHalf .. LongHalf - 1
    BY <1>a, SignedIsCongruent DEF Times
<1>b. 0 \in Times /\ 0 \in -LongHalf .. LongHalf - 1
    BY DEF Times
<1>1. Init => RestInv
    BY <1>b DEF Init, RestInv, Setup
<1>2. RestInv /\ Indices /\ [Next]_vars => RestInv'
    <2> SUFFICES ASSUME RestInv, Indices, [Next]_vars PROVE RestInv'
        OBVIOUS
    <2> DEFINE Pcs == Setup \cup Rounds \cup {"reset"} \cup Ended
               Ok == /\ up' \in [Servers -> BOOLEAN]
                     /\ {clock', now'} \subseteq Times
                     /\ test_end' \in -LongHalf .. LongHalf - 1
                     /\ pc' \in Pcs
                     /\ {sinceNow', sinceChange'} \subseteq Nat
                     /\ deserted' \subseteq Servers
    <2>s. Ok => RestInv'
        BY DEF RestInv
    <2>u. /\ up \in [Servers -> BOOLEAN] /\ clock \in Times /\ now \in Times
          /\ test_end \in -LongHalf .. LongHalf - 1
          /\ sinceNow \in Nat /\ sinceChange \in Nat
          /\ deserted \subseteq Servers /\ pc \in Pcs
        BY DEF RestInv
    <2>t. Times \subseteq Int
        BY DEF Times
    <2>c. ASSUME NEW n \in Nat, Passes(n)
          PROVE  clock' \in Times /\ sinceNow' \in Nat /\ sinceChange' \in Nat
        <3>1. clock + n \in Int
            BY <2>t, <2>u
        <3>2. Longest \in Nat
            <4>1. NServers * MaxLag \in Nat
                OBVIOUS
            <4> QED BY <4>1 DEF Longest
        <3> QED BY <1>a, <2>c, <2>u, <3>1, <3>2 DEF Passes, eclock, Later
    <2>d. Lags \subseteq Nat
        BY DEF Lags
    <2>p. ASSUME NEW t \in Times PROVE Plus(t, Duration) \in -LongHalf .. LongHalf - 1
        BY <1>a, <2>p, <2>t DEF Plus
    <2> HIDE DEF Pcs
    \* The calls.
    <2>e. ASSUME UNCHANGED <<up, now, test_end>>, \E n \in Lags : Passes(n),
                 pc' \in Pcs, deserted' \subseteq Servers
          PROVE  Ok
        BY <2>c, <2>d, <2>e, <2>u
    <2> HIDE DEF Ok
    <2>1. CASE UNCHANGED vars
        BY <2>1 DEF vars, servers, ghosts, RestInv
    <2>2. ASSUME NEW s \in Servers, Progress(s) \/ Crash(s) PROVE RestInv'
        BY <2>2 DEF Progress, Crash, ghosts, RestInv
    <2>3. CASE Resolve
        <3>1. pc' \in Pcs
            BY <2>3 DEF Resolve, Abort, Pcs, Setup, Ended
        <3> QED BY <2>3, <2>e, <2>s, <2>u, <3>1 DEF Resolve, Returns, Throws, Abort
    <2>4. CASE CallInit
        <3>1. pc' \in Pcs
            BY <2>4 DEF CallInit, SetupCall, LeaveOut, Abort, Pcs, Setup, Ended
        <3>2. deserted' \subseteq Servers
            BY <2>4, <2>u DEF CallInit, Indices, Setup, Servers
        <3> QED
            BY <2>4, <2>e, <2>s, <3>1, <3>2
            DEF CallInit, SetupCall, LeaveOut, Returns, Throws, Abort
    <2>5. CASE Call_set_nuserTarget
        <3>1. pc' \in Pcs
            BY <2>5 DEF Call_set_nuserTarget, SetupCall, LeaveOut, Abort, Pcs, Setup, Ended
        <3> QED
            BY <2>5, <2>e, <2>s, <2>u, <3>1
            DEF Call_set_nuserTarget, SetupCall, LeaveOut, Returns, Throws, Abort
    <2>6. CASE Call_set_verbosity
        <3>1. pc' \in Pcs
            BY <2>6 DEF Call_set_verbosity, SetupCall, LeaveOut, Abort, Pcs, Setup, Ended
        <3> QED
            BY <2>6, <2>e, <2>s, <2>u, <3>1
            DEF Call_set_verbosity, SetupCall, LeaveOut, Returns, Throws, Abort
    <2>7. CASE StartTest
        <3>1. eclock(clock + Duration) \in -LongHalf .. LongHalf - 1
            <4>1. clock + Duration \in Int
                BY <2>t, <2>u
            <4>2. eclock(clock + Duration) \in -IntHalf .. IntHalf - 1
                BY <1>a, <4>1 DEF eclock, Times
            <4> QED BY <4>2
        <3> QED BY <2>7, <2>p, <2>s, <2>u, <3>1 DEF StartTest, servers, Ok, Pcs, Rounds, Ended
    <2>8. CASE Top
        BY <2>8, <2>s, <2>u DEF Top, servers, Ok, Pcs, Rounds
    <2>9. CASE CallGetStatus
        <3>1. pc' \in Pcs
            BY <2>9 DEF CallGetStatus, Abort, Pcs, Rounds, Ended
        <3> QED BY <2>9, <2>e, <2>s, <2>u, <3>1 DEF CallGetStatus, Returns, Throws, Abort
    <2>10. CASE Tally
        BY <1>b, <2>10, <2>p, <2>s, <2>u DEF Tally, servers, Ok, Pcs, Rounds, Ended
    <2>11. CASE Sleep
        BY <2>11, <2>c, <2>s, <2>u DEF Sleep, servers, Ok, Pcs, Rounds
    <2>12. CASE CallReset
        <3>1. pc' \in Pcs
            BY <2>12 DEF CallReset, Abort, Pcs, Ended
        <3>2. CASE ResetAsserts(mine[i])
            <4>1. /\ platoons' = [platoons EXCEPT ![mine[i]] = P!None]
                  /\ up' = [up EXCEPT ![mine[i]] = FALSE] /\ Passes(0)
                BY <3>2 DEF ResetAsserts
            <4>2. up' \in [Servers -> BOOLEAN]
                BY <2>u, <4>1
            <4>3. UNCHANGED <<now, test_end, deserted>>
                BY <2>12 DEF CallReset, Abort
            <4>4. Ok
                BY <2>c, <2>u, <3>1, <4>1, <4>2, <4>3 DEF Ok
            <4> QED BY <2>s, <4>4
        <3>3. CASE ~ResetAsserts(mine[i])
            BY <2>12, <2>e, <2>s, <2>u, <3>1, <3>3 DEF CallReset, Returns, Throws, Abort
        <3> QED BY <3>2, <3>3
    <2>13. CASE Finished
        BY <2>1, <2>13 DEF Finished
    <2> QED
        BY <2>1, <2>2, <2>3, <2>4, <2>5, <2>6, <2>7, <2>8, <2>9, <2>10, <2>11,
           <2>12, <2>13 DEF Next, Controller
<1> QED
    BY <1>1, <1>2, IndicesStay, PTL DEF Spec

(***************************************************************************)
(* The controller's indices stay inside its array, its sums below what all *)
(* platoons together can have, the platoons within their targets, and the  *)
(* times within their types, for any number of servers and users.          *)
(***************************************************************************)
THEOREM BenchTypes == Spec => []TypeOK
<1>1. /\ \A s \in Servers : Bounded(platoons[s])
      /\ Indices /\ ServersInv /\ SumsInv /\ RestInv
      => TypeOK
    <2> SUFFICES ASSUME \A s \in Servers : Bounded(platoons[s]),
                        Indices, ServersInv, SumsInv, RestInv
                 PROVE  TypeOK
        OBVIOUS
    <2>1. ASSUME NEW s \in Servers
          PROVE  /\ platoons[s] \in PlatoonRecords
                 /\ WithinTarget(platoons[s]) /\ (s \in deserted \/ ~P!Tangled(platoons[s]))
        <3> DEFINE p == platoons[s]
        <3>1. Bounded(p) /\ p \in Records /\ Drifted(p.drift)
            BY <2>1 DEF Bounded, Platoon
        <3>2. s \notin deserted => Clean(p)
            BY <2>1 DEF ServersInv, Counted
        <3> HIDE DEF p
        <3>3. p \in PlatoonRecords
            BY <3>1 DEF Records, PlatoonRecords, Bounded
        <3>4. WithinTarget(p)
            BY <3>1 DEF Bounded, WithinTarget, Total, Living
        <3>5. s \in deserted \/ ~P!Tangled(p)
            BY <3>2 DEF Clean, P!Tangled
        <3> QED BY <3>3, <3>4, <3>5 DEF p
    <2>0. platoons \in [Servers -> PlatoonRecords]
        BY <2>1 DEF ServersInv
    <2>2. pc \in {"getStatus", "reset"} => i \in 1 .. Len(mine)
        BY DEF Indices
    <2>3. /\ {sums.nconnecting, sums.nalive, sums.ndead} \subseteq Int
          /\ sums.nconnecting <= NServers * Users /\ sums.nalive <= NServers * Users
          /\ Untangled =>
                {sums.nconnecting, sums.nalive, sums.ndead} \subseteq 0 .. (NServers * Users)
        <3> DEFINE N == NServers * Users
        <3>1. N \in Int /\ Limit \in Int /\ Limit <= N
            <4>1. CASE pc # "getStatus"
                BY <4>1, CorbaBenchAssumption DEF Limit
            <4>2. CASE pc = "getStatus"
                <5> DEFINE before == (i - 1) * Users
                <5>1. i \in 1 .. NServers
                    BY <4>2, CorbaBenchAssumption DEF Indices
                <5>2. (NServers - (i - 1)) * Users >= 0
                    BY <5>1, CorbaBenchAssumption
                <5>3. (NServers - (i - 1)) * Users = N - before
                    BY <5>1, CorbaBenchAssumption
                <5>4. N \in Int /\ before \in Int /\ Limit = before
                    BY <4>2, <5>1, CorbaBenchAssumption DEF Limit
                <5> HIDE DEF before, N
                <5> QED BY <5>2, <5>3, <5>4
            <4> QED BY <4>1, <4>2
        <3> HIDE DEF N, Untangled
        <3>2. /\ {sums.nconnecting, sums.nalive, sums.ndead} \subseteq Int
              /\ sums.nconnecting <= N /\ sums.nalive <= N
              /\ Untangled => {sums.nconnecting, sums.nalive, sums.ndead} \subseteq 0 .. N
            BY <3>1 DEF SumsInv
        <3> QED BY <3>2 DEF N
    <2>4. mine \in Seq(Servers) /\ alive \subseteq Servers
        BY DEF Indices, ServersInv, Counted
    <2> QED BY <2>0, <2>1, <2>2, <2>3, <2>4 DEF TypeOK, RestInv
<1> QED
    BY <1>1, BoundsStay, IndicesStay, ServersStay, SumsStay, RestStays, PTL
===============================================================================
