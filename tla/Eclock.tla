-------------------------------- MODULE Eclock --------------------------------
(***************************************************************************)
(* The clock (eclock.h): a time is an int that counts ticks and wraps      *)
(* round; times are compared by the sign of their difference, taken in     *)
(* clock_t and long. An int holds -IntHalf .. IntHalf-1, a long and a      *)
(* clock_t -LongHalf .. LongHalf-1: both are 2^31 where the program was    *)
(* written, LongHalf is 2^63 where long has 64 bits.                       *)
(***************************************************************************)
EXTENDS Integers

CONSTANTS IntHalf, LongHalf

ASSUME EclockAssumption ==
    /\ IntHalf \in Nat \ {0}
    /\ LongHalf \in Nat \ {0}
    /\ IntHalf <= LongHalf

\* The number a two's complement integer of 2*half values holds for x.
Signed(x, half) == ((x + half) % (2 * half)) - half

Times == -IntHalf .. IntHalf - 1

\* eclock() when t ticks have passed since the epoch: the cast to int.
eclock(t) == Signed(t, IntHalf)

\* Addition of clock_t.
Plus(a, b) == Signed(a + b, LongHalf)

\* Mutant: times are compared as they are.
LaterNumber(a, b) == a > b

eclock_after(a, b) == Signed(a - b, LongHalf) > 0

eclock_before(a, b) == Signed(a - b, LongHalf) < 0
===============================================================================
