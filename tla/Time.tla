--------------------------------- MODULE Time ---------------------------------
(***************************************************************************)
(* asp::Duration (include/asp/time/Duration.hpp) and asp::Instant          *)
(* (src/time/Instant.cpp): seconds in a u64 and nanoseconds beside them,   *)
(* with checked and saturating arithmetic, and a program that calls the    *)
(* operations in any order on one Duration and one Instant.                *)
(*                                                                         *)
(* A checked operation is an operator that computes on plain integers and  *)
(* a test that the seconds fit: the code's single tests of each step refuse*)
(* the same results.  The nanoseconds never come near the limits of their  *)
(* own types (TypeOK).  Left out: floating point, formatting, raw          *)
(* nanoseconds.                                                            *)
(***************************************************************************)
EXTENDS Integers

CONSTANTS NANOS_IN_SEC,
          MAX_U64,      \* the largest u64
          FAR_FUTURE,   \* the seconds of farFuture()
          MaxNow,       \* bound: the largest number of seconds of now()
          MaxFactor     \* bound: the largest factor and divisor

Half == (MAX_U64 + 1) \div 2

ASSUME TimeAssumption ==
    /\ NANOS_IN_SEC \in Nat \ {0}
    /\ MAX_U64 \in Nat
    /\ MAX_U64 + 1 = 2 * Half
    /\ FAR_FUTURE \in 0..(Half - 1)
    /\ MaxNow \in 0..(Half - 1)
    /\ MaxFactor \in Nat

U64 == 0..MAX_U64
D(s, n) == [secs |-> s, nanos |-> n]

\* What a Duration or an Instant stands for, in nanoseconds.
Value(d) == d.secs * NANOS_IN_SEC + d.nanos

Normal    == [secs : U64, nanos : 0..(NANOS_IN_SEC - 1)]
Fits(d)   == d.secs \in U64
Infinite  == D(MAX_U64, NANOS_IN_SEC - 1)
FarFuture == D(FAR_FUTURE, 0)

-----------------------------------------------------------------------------
(* Duration.                                                               *)

\* The constructor adds the whole seconds among the nanoseconds to its
\* parameter, after the member was set from it.
Ctor(s, n) == D(s, n % NANOS_IN_SEC)

\* fromNanos, and fromMicros and fromMillis alike.
FromNanos(n) == D(n \div NANOS_IN_SEC, n % NANOS_IN_SEC)

\* Mistake: the carry is forgotten.
SumNoCarry(x, y) ==
    LET carry == IF x.nanos + y.nanos > NANOS_IN_SEC THEN 1 ELSE 0
    IN  D(x.secs + y.secs, x.nanos + y.nanos - carry * NANOS_IN_SEC)

\* checkedAdd.  Exactly one second of nanoseconds is not carried.
Sum(x, y) ==
    LET carry == IF x.nanos + y.nanos > NANOS_IN_SEC THEN 1 ELSE 0
    IN  D(x.secs + y.secs + carry, x.nanos + y.nanos - carry * NANOS_IN_SEC)

\* Mistake: borrowing also with equal nanoseconds, as Instant does.
DifferenceBorrowsMore(x, y) ==
    LET borrow == IF x.nanos <= y.nanos THEN 1 ELSE 0
    IN  D(x.secs - y.secs - borrow, x.nanos + borrow * NANOS_IN_SEC - y.nanos)

\* checkedSub.
Difference(x, y) ==
    LET borrow == IF x.nanos < y.nanos THEN 1 ELSE 0
    IN  D(x.secs - y.secs - borrow, x.nanos + borrow * NANOS_IN_SEC - y.nanos)

\* checkedMul.
Product(x, k) ==
    LET nanos == x.nanos * k
    IN  D(x.secs * k + nanos \div NANOS_IN_SEC, nanos % NANOS_IN_SEC)

\* operator/ by a number other than 0; the seconds are not checked.
Quotient(x, k) ==
    LET nanos == ((x.secs % k) * NANOS_IN_SEC + x.nanos) \div k
    IN  D((x.secs \div k + nanos \div NANOS_IN_SEC) % (MAX_U64 + 1), nanos % NANOS_IN_SEC)

\* seconds() also counts a whole second among the nanoseconds.
Seconds(x) == (x.secs + x.nanos \div NANOS_IN_SEC) % (MAX_U64 + 1)

-----------------------------------------------------------------------------
(* Instant.                                                                *)

\* Mistake: the carry is forgotten.
InstantSumNoCarry(i, d) ==
    LET carry == IF i.nanos + d.nanos >= NANOS_IN_SEC THEN 1 ELSE 0
    IN  D(i.secs + Seconds(d), i.nanos + d.nanos - carry * NANOS_IN_SEC)

\* checkedAdd.
InstantSum(i, d) ==
    LET carry == IF i.nanos + d.nanos >= NANOS_IN_SEC THEN 1 ELSE 0
    IN  D(i.secs + Seconds(d) + carry, i.nanos + d.nanos - carry * NANOS_IN_SEC)

\* checkedSub.  With equal nanoseconds it borrows without need.
InstantDifference(i, d) ==
    LET borrow == IF i.nanos > d.nanos THEN 0 ELSE 1
    IN  D(i.secs - Seconds(d) - borrow, i.nanos + borrow * NANOS_IN_SEC - d.nanos)

\* Mistake: the result is not checked.
SaturatingSubUnchecked(i, d) == InstantDifference(i, d)

\* saturatingAdd, saturatingSub and the operators.
SaturatingAdd(i, d) ==
    IF Fits(InstantSum(i, d)) THEN InstantSum(i, d) ELSE FarFuture
SaturatingSub(i, d) ==
    IF Fits(InstantDifference(i, d)) THEN InstantDifference(i, d) ELSE D(0, 0)

\* u64 differences read as i64.
Signed(x) ==
    LET r == x % (MAX_U64 + 1) IN IF r < Half THEN r ELSE r - (MAX_U64 + 1)

DurationSince(i, j) ==
    LET borrow == IF i.nanos < j.nanos THEN 1 ELSE 0
        secs   == Signed(i.secs - j.secs) - borrow
    IN  IF secs < 0
          THEN Ctor(0, 0)
          ELSE Ctor(secs, i.nanos + borrow * NANOS_IN_SEC - j.nanos)

-----------------------------------------------------------------------------
(* A program.                                                              *)

VARIABLES dur,      \* its Duration
          instant,  \* its Instant
          exact,    \* history: the nanoseconds dur should stand for
          instantExact,  \* history: and those of instant
          lapse     \* history: the first time the code was not exact:
                    \*   "ctor"     the constructor lost whole seconds
                    \*   "overran"  a sum beyond Infinite was not refused
                    \*   "skewed"   an Instant operation counted a whole second
                    \*              of nanoseconds twice, or lost it
                    \*   "wrapped"  durationSince over 2^63 seconds or more

vars == <<dur, instant, exact, instantExact, lapse>>

Init ==
    /\ dur = D(0, 0)
    /\ instant = D(0, 0)
    /\ exact = 0
    /\ instantExact = 0
    /\ lapse = "none"

\* Durations at hand: any that is written down normally, and dur itself.
Others == Normal \cup {dur}

\* After a lapse the histories are not kept any longer.
Note(now, e, ie) ==
    /\ lapse' = IF lapse = "none" THEN now ELSE lapse
    /\ exact' = IF lapse' = "none" THEN e ELSE 0
    /\ instantExact' = IF lapse' = "none" THEN ie ELSE 0

SetDuration(d, e, now) ==
    /\ dur' = d
    /\ Note(now, e, instantExact)
    /\ UNCHANGED instant

SetInstant(i, e, now) ==
    /\ instant' = i
    /\ Note(now, exact, e)
    /\ UNCHANGED dur

Construct ==
    \E s \in U64, n \in 0..(2 * NANOS_IN_SEC) :
        SetDuration(Ctor(s, n), s * NANOS_IN_SEC + n,
                    IF n < NANOS_IN_SEC THEN "none" ELSE "ctor")

Convert ==
    \E n \in U64 : SetDuration(FromNanos(n), n, "none")

\* operator+ throws what does not fit and changes nothing then.
Add ==
    \E d \in Others :
        /\ Fits(Sum(dur, d))
        /\ SetDuration(Sum(dur, d), exact + Value(d),
                       IF Value(dur) + Value(d) <= Value(Infinite) THEN "none" ELSE "overran")

\* operator-: zero if there is less.
Subtract ==
    \E d \in Others :
        IF Fits(Difference(dur, d))
          THEN SetDuration(Difference(dur, d), exact - Value(d), "none")
          ELSE SetDuration(D(0, 0), 0, "none")

AbsDiff ==
    \E d \in Others :
        \/ /\ Fits(Difference(dur, d))
           /\ SetDuration(Difference(dur, d), exact - Value(d), "none")
        \/ /\ ~Fits(Difference(dur, d)) /\ Fits(Difference(d, dur))
           /\ SetDuration(Difference(d, dur), Value(d) - exact, "none")

Multiply ==
    \E k \in 0..MaxFactor :
        /\ Fits(Product(dur, k))
        /\ SetDuration(Product(dur, k), exact * k, "none")

Divide ==
    \E k \in 1..MaxFactor : SetDuration(Quotient(dur, k), exact \div k, "none")

\* now() on a clock that has not run for 2^63 seconds.
Now ==
    \E i \in Normal : i.secs <= MaxNow /\ SetInstant(i, Value(i), "none")

Skew(now) == IF dur.nanos < NANOS_IN_SEC THEN now ELSE "skewed"

Advance ==
    LET i == SaturatingAdd(instant, dur)
    IN  SetInstant(i, IF Fits(InstantSum(instant, dur))
                        THEN instantExact + exact ELSE Value(FarFuture), Skew("none"))

Rewind ==
    SetInstant(SaturatingSub(instant, dur),
               IF instantExact > exact THEN instantExact - exact ELSE 0, Skew("none"))

\* The nanoseconds of the distance are a whole second, which Ctor drops.
LosesSecond(i, j) == i.secs >= j.secs /\ i.nanos - j.nanos = NANOS_IN_SEC

\* The time since some earlier or later now().  A distance of 2^63 seconds
\* exactly, where the code overflows, is left out.
Measure ==
    \E j \in Normal :
        /\ j.secs <= MaxNow
        /\ instant.secs - j.secs # Half
        /\ SetDuration(DurationSince(instant, j),
                       IF instantExact > Value(j) THEN instantExact - Value(j) ELSE 0,
                       CASE instant.secs - j.secs > Half -> "wrapped"
                         [] instant.secs - j.secs < Half /\ LosesSecond(instant, j) -> "skewed"
                         [] OTHER -> "none")

Next ==
    \/ Construct \/ Convert \/ Add \/ Subtract \/ AbsDiff \/ Multiply \/ Divide
    \/ Now \/ Advance \/ Rewind \/ Measure

Spec == Init /\ [][Next]_vars

-----------------------------------------------------------------------------
(* Properties.                                                             *)

\* The nanoseconds never exceed one second (Duration.hpp 282), but they may
\* reach it (139), here and in an Instant (Instant.cpp 119).
TypeOK ==
    /\ dur \in [secs : U64, nanos : 0..NANOS_IN_SEC]
    /\ instant \in [secs : U64, nanos : 0..NANOS_IN_SEC]
    /\ exact \in Int /\ instantExact \in Int
    /\ lapse \in {"none", "ctor", "overran", "skewed", "wrapped"}

\* Whatever sequence of operations made it, a Duration stands for the exact
\* result, also after it went through the unnormalised form, unless the code
\* has lapsed before (Duration.hpp 131-190, 240-257).
DurationExact == lapse = "none" => Value(dur) = exact

\* So does an Instant: additions and subtractions are exact or saturate
\* (Instant.cpp 91-148).
InstantExact == lapse = "none" => Value(instant) = instantExact

\* Additions are refused only if the result is beyond the largest Duration,
\* and subtractions only if it would be negative, or if one whole second among
\* the nanoseconds is all there is to take it from (Duration.hpp 131-172).
RefusesOnlyOverflow ==
    \A d \in Others :
        /\ ~Fits(Sum(dur, d)) => Value(dur) + Value(d) > Value(Infinite)
        /\ ~Fits(Difference(d, dur)) => Value(d) < Value(dur)
        /\ ~Fits(Difference(dur, d)) =>
               \/ Value(dur) < Value(d)
               \/ Value(dur) = Value(d) /\ dur.nanos = NANOS_IN_SEC
=============================================================================
