------------------------------ MODULE SystemTime ------------------------------
(***************************************************************************)
(* asp::SystemTime (include/asp/time/SystemTime.hpp,                       *)
(* src/time/SystemTime.cpp): wall-clock time, as signed seconds and        *)
(* nanoseconds on POSIX and as an unsigned number of ticks on Windows,     *)
(* with no check of either.  A Duration is its seconds and nanoseconds;    *)
(* the arithmetic of Duration can leave a whole second among the latter    *)
(* (see Time).  The calendar functions only format what to_time_t says.    *)
(***************************************************************************)
EXTENDS Integers

CONSTANTS NanosPerSec,
          NanosPerTick,  \* in a tick of the Windows clock
          MaxI64,        \* the largest i64
          EpochTicks,    \* the Unix epoch on the Windows clock
          WholeSecs,     \* the seconds of clocks, Unix times and Durations in use
          MaxSums        \* bound: additions to one time

ASSUME SystemTimeAssumption ==
    /\ NanosPerSec \in Nat \ {0} /\ NanosPerTick \in Nat \ {0} /\ NanosPerSec % NanosPerTick = 0
    /\ MaxI64 \in Nat /\ EpochTicks \in Nat /\ MaxSums \in Nat
    /\ WholeSecs \subseteq 0 .. MaxI64

VARIABLES inTicks,     \* the Windows implementation was compiled
          time,        \* the SystemTime: a record, or ticks
          meant,       \* history: its nanoseconds since the epoch
          sums,        \* history: additions since it was last read from a clock
          terminated,  \* an exception left a noexcept function
          timeLapse    \* history: the first thing that was not exact
                       \*   "skewed"    a Duration with a whole second of nanoseconds
                       \*   "wrapped"   a sum outside the integers
                       \*   "negative"  fromUnix() of a time before the epoch

systemTimeVars == <<inTicks, time, meant, sums, terminated, timeLapse>>

TwoTo64 == 2 * (MaxI64 + 1)

\* An integer read as u64 or as i64.
AsU64(x) == x % TwoTo64
AsI64(x) == IF AsU64(x) > MaxI64 THEN AsU64(x) - TwoTo64 ELSE AsU64(x)

Secs(d) == d.secs + d.nanos \div NanosPerSec
Nanos(d) == d.secs * NanosPerSec + d.nanos

NoDuration == [secs |-> -1, nanos |-> 0]

Durations == [secs : WholeSecs \cup {TwoTo64 - 1}, nanos : 0 .. NanosPerSec]

-----------------------------------------------------------------------------
(* POSIX.                                                                  *)

PosixSum(t, d) ==
    LET nanos == t.nanos + d.nanos
        carry == IF nanos >= NanosPerSec THEN 1 ELSE 0
    IN  [secs |-> AsI64(t.secs + Secs(d) + carry), nanos |-> nanos - carry * NanosPerSec]

\* Mistake: a nanosecond difference of zero borrows too.
PosixSinceBorrowing(t, u) ==
    LET borrow == IF t.nanos <= u.nanos THEN 1 ELSE 0
        secs   == AsI64(t.secs - u.secs) - borrow
    IN  IF secs < 0 THEN NoDuration
        ELSE [secs |-> secs, nanos |-> (t.nanos + borrow * NanosPerSec - u.nanos) % NanosPerSec]

PosixSince(t, u) ==
    LET borrow == IF t.nanos < u.nanos THEN 1 ELSE 0
        secs   == AsI64(t.secs - u.secs) - borrow
    IN  IF secs < 0 THEN NoDuration
        ELSE [secs |-> secs, nanos |-> (t.nanos + borrow * NanosPerSec - u.nanos) % NanosPerSec]

PosixPrecedes(t, u) == t.secs < u.secs \/ (t.secs = u.secs /\ t.nanos < u.nanos)

-----------------------------------------------------------------------------
(* Windows.                                                                *)

TickSum(t, d) == AsU64(t + AsU64(Nanos(d)) \div NanosPerTick)

\* The multiplication of an i64 is not checked; see `Near`.
TickSince(t, u) ==
    LET diff == AsI64(t - u)
    IN  IF diff < 0 THEN NoDuration
        ELSE [secs  |-> (diff * NanosPerTick) \div NanosPerSec,
              nanos |-> (diff * NanosPerTick) % NanosPerSec]

-----------------------------------------------------------------------------
Epoch == IF inTicks THEN EpochTicks ELSE [secs |-> 0, nanos |-> 0]

TimeSum(t, d)   == IF inTicks THEN TickSum(t, d) ELSE PosixSum(t, d)
Since(t, u)     == IF inTicks THEN TickSince(t, u) ELSE PosixSince(t, u)
Precedes(t, u)  == IF inTicks THEN t < u ELSE PosixPrecedes(t, u)

\* What the clock may say; it can be set back.
Readings ==
    IF inTicks THEN {EpochTicks + (s * NanosPerSec + n) \div NanosPerTick :
                     s \in WholeSecs, n \in 0 .. NanosPerSec - 1}
    ELSE [secs : WholeSecs, nanos : 0 .. NanosPerSec - 1]

\* The nanoseconds since the epoch that a time stands for.
Stands(t) ==
    IF inTicks THEN (t - EpochTicks) * NanosPerTick ELSE t.secs * NanosPerSec + t.nanos

\* Those that can be represented.
Earliest == IF inTicks THEN -EpochTicks * NanosPerTick ELSE -(MaxI64 + 1) * NanosPerSec
Latest   == IF inTicks THEN (TwoTo64 - 1 - EpochTicks) * NanosPerTick ELSE (MaxI64 + 1) * NanosPerSec - 1

\* What is wrong with a sum with d that should be `total` nanoseconds.
LapseOf(d, total) ==
    IF ~inTicks /\ d.nanos = NanosPerSec THEN "skewed"
    ELSE IF total \notin Earliest .. Latest \/ (inTicks /\ Nanos(d) >= TwoTo64) THEN "wrapped"
    ELSE "none"

SystemTimeInit ==
    /\ inTicks \in BOOLEAN
    /\ time = Epoch /\ meant = 0 /\ sums = 0
    /\ terminated = FALSE /\ timeLapse = "none"

\* now()
ReadClock ==
    /\ time' \in Readings
    /\ meant' = Stands(time') /\ sums' = 0 /\ timeLapse' = "none"
    /\ UNCHANGED <<inTicks, terminated>>

\* fromUnix(time_t): the number becomes a Duration's unsigned seconds.
FromUnix(s) ==
    /\ time' = TimeSum(Epoch, [secs |-> AsU64(s), nanos |-> 0])
    /\ meant' = s * NanosPerSec /\ sums' = 0
    /\ timeLapse' = IF inTicks /\ s < 0 THEN "negative"
                    ELSE LapseOf([secs |-> s, nanos |-> 0], meant')
    /\ UNCHANGED <<inTicks, terminated>>

\* operator+
Advanced(d) ==
    /\ sums < MaxSums
    /\ time' = TimeSum(time, d)
    /\ meant' = meant + Nanos(d) /\ sums' = sums + 1
    /\ timeLapse' = IF timeLapse # "none" THEN timeLapse ELSE LapseOf(d, meant')
    /\ UNCHANGED <<inTicks, terminated>>

\* to_time_t, dateUtc, timeUtc, format: timeSinceEpoch() throws
\* std::bad_optional_access before the epoch, out of a noexcept function.
ToTimeT ==
    /\ terminated' = (Since(time, Epoch) = NoDuration)
    /\ UNCHANGED <<inTicks, time, meant, sums, timeLapse>>

SystemTimeNext ==
    /\ ~terminated
    /\ \/ ReadClock \/ ToTimeT
       \/ \E s \in WholeSecs \cup {-x : x \in WholeSecs} : FromUnix(s)
       \/ \E d \in Durations : Advanced(d)

-----------------------------------------------------------------------------
\* No further apart than an i64 of nanoseconds, on Windows, and an i64 of
\* seconds, on POSIX.
Near(t, u) ==
    Stands(t) - Stands(u) \in (IF inTicks THEN -MaxI64 .. MaxI64
                               ELSE -MaxI64 * NanosPerSec .. MaxI64 * NanosPerSec)

\* A time is the sum of what was added to it, but for the parts of a tick
\* that each addition may lose; measured against another time it gives their
\* exact distance, or nothing if it is the earlier one; the order of times is
\* that of what they stand for; and only a time before the epoch, or on
\* Windows one 2^63 ticks after it, cannot be converted, which the comment on
\* timeSinceEpoch(), SystemTime.hpp:48, assumes there is none.
SystemTimeRight ==
    /\ timeLapse = "none" =>
           meant - Stands(time) \in 0 .. (IF inTicks THEN sums * (NanosPerTick - 1) ELSE 0)
    /\ \A u \in Readings : Near(time, u) =>
           /\ LET d == Since(time, u) IN
              IF Stands(time) < Stands(u) THEN d = NoDuration
              ELSE Nanos(d) = Stands(time) - Stands(u) /\ d.nanos < NanosPerSec
           /\ Precedes(time, u) <=> Stands(time) < Stands(u)
    /\ terminated /\ timeLapse = "none" =>
           meant < 0 \/ (inTicks /\ meant > MaxI64 * NanosPerTick)

=============================================================================
