---------------------------- MODULE Numbers_proofs ----------------------------
(***************************************************************************)
(* Theorems about the components that compute with numbers, for every      *)
(* width of their numbers, every number of nanoseconds in a second and     *)
(* every length of a tick.                                                 *)
(***************************************************************************)
EXTENDS FiniteSets, Numbers, Time, FiniteSetTheorems, SequenceTheorems, TLAPS

-----------------------------------------------------------------------------
(* Induction.  The library states it for an operator, so it is stated for  *)
(* sets here.                                                              *)

\* A set of naturals with 0 that is closed under + 1 holds them all: else the
\* function f puts 0 .. m into 1 .. m without taking anything twice.
LEMMA NatSetInduction ==
    ASSUME NEW S \in SUBSET Nat, 0 \in S, \A n \in S : n + 1 \in S
    PROVE  S = Nat
<1> SUFFICES ASSUME NEW m \in Nat, m \notin S PROVE FALSE
  OBVIOUS
<1> DEFINE f == [k \in 0 .. m |-> IF k \in S THEN k + 1 ELSE k]
<1>1. f \in [0 .. m -> 1 .. m]
  OBVIOUS
<1>2. \A a, b \in 0 .. m : f[a] = f[b] => a = b
  OBVIOUS
<1>3. /\ IsFiniteSet(0 .. m) /\ Cardinality(0 .. m) = m + 1
      /\ IsFiniteSet(1 .. m) /\ Cardinality(1 .. m) = m
  BY FS_Interval
<1>4. Cardinality(1 .. m) < Cardinality(0 .. m)
  BY <1>3
<1> HIDE DEF f
<1>5. \E x, y \in 0 .. m : x # y /\ f[x] = f[y]
  BY <1>1, <1>3, <1>4, FS_PigeonHole
<1> QED
  BY <1>2, <1>5

\* The same up to some n, for loops.
LEMMA IntervalInduction ==
    ASSUME NEW n \in Nat, NEW S, 0 \in S, \A k \in 0 .. n - 1 : k \in S => k + 1 \in S
    PROVE  0 .. n \subseteq S
<1> DEFINE T == {k \in Nat : k <= n => k \in S}
<1>1. 0 \in T /\ T \in SUBSET Nat
  OBVIOUS
<1>2. \A k \in T : k + 1 \in T
  OBVIOUS
<1> HIDE DEF T
<1>3. T = Nat
  BY <1>1, <1>2, NatSetInduction
<1> QED
  BY <1>3 DEF T

\* There is a function for a first value and a step to the next.
LEMMA RecursionOnNat ==
    ASSUME NEW X, NEW a \in X, NEW step \in [X -> X]
    PROVE  \E f \in [Nat -> X] : f[0] = a /\ \A n \in Nat : f[n + 1] = step[f[n]]
<1> DEFINE Begins(n, f) == f[0] = a /\ \A k \in 0 .. n - 1 : f[k + 1] = step[f[k]]
           Known == {n \in Nat : \E f \in [0 .. n -> X] : Begins(n, f)}
<1>1. Known = Nat
  <2>1. 0 \in Known
    <3>1. [k \in 0 .. 0 |-> a] \in [0 .. 0 -> X] /\ Begins(0, [k \in 0 .. 0 |-> a])
      OBVIOUS
    <3> QED
      BY <3>1
  <2>2. ASSUME NEW n \in Known PROVE n + 1 \in Known
    <3>1. PICK f \in [0 .. n -> X] : Begins(n, f)
      OBVIOUS
    <3> DEFINE g == [k \in 0 .. n + 1 |-> IF k = n + 1 THEN step[f[n]] ELSE f[k]]
    <3>2. g \in [0 .. n + 1 -> X]
      BY <3>1
    <3>3. Begins(n + 1, g)
      BY <3>1
    <3>4. n + 1 \in Nat
      OBVIOUS
    <3> HIDE DEF g
    <3> QED
      BY <3>2, <3>3, <3>4
  <2> HIDE DEF Known
  <2>3. Known \in SUBSET Nat
    BY DEF Known
  <2> QED
    BY <2>1, <2>2, <2>3, NatSetInduction
<1> DEFINE upto == [n \in Nat |-> CHOOSE f \in [0 .. n -> X] : Begins(n, f)]
           g == [n \in Nat |-> upto[n][n]]
<1>2. \A n \in Nat : upto[n] \in [0 .. n -> X] /\ Begins(n, upto[n])
  <2> SUFFICES ASSUME NEW n \in Nat
               PROVE  upto[n] \in [0 .. n -> X] /\ Begins(n, upto[n])
    OBVIOUS
  <2>1. \E f \in [0 .. n -> X] : Begins(n, f)
    BY <1>1
  <2> QED
    BY <2>1
<1> HIDE DEF upto
<1>3. ASSUME NEW n \in Nat PROVE upto[n + 1][n] = upto[n][n]
  <2> DEFINE Same == {k \in 0 .. n : upto[n + 1][k] = upto[n][k]}
  <2>1. 0 \in Same
    BY <1>2
  <2>2. ASSUME NEW k \in 0 .. n - 1, k \in Same PROVE k + 1 \in Same
    <3> n + 1 \in Nat
      OBVIOUS
    <3>1. Begins(n, upto[n]) /\ Begins(n + 1, upto[n + 1])
      BY <1>2, Zenon
    <3>2. upto[n][k + 1] = step[upto[n][k]] /\ upto[n + 1][k + 1] = step[upto[n + 1][k]]
      BY <3>1
    <3> QED
      BY <2>2, <3>2
  <2> HIDE DEF Same
  <2>3. 0 .. n \subseteq Same
    BY <2>1, <2>2, IntervalInduction
  <2> QED
    BY <2>3 DEF Same
<1>4. g \in [Nat -> X] /\ g[0] = a
  BY <1>2
<1>5. ASSUME NEW n \in Nat PROVE g[n + 1] = step[g[n]]
  <2> n + 1 \in Nat
    OBVIOUS
  <2>1. Begins(n + 1, upto[n + 1])
    BY <1>2, Zenon
  <2>2. upto[n + 1][n + 1] = step[upto[n + 1][n]]
    BY <2>1
  <2> QED
    BY <1>3, <2>2
<1> HIDE DEF g
<1> QED
  BY <1>4, <1>5

\* Two runs of a loop that begin alike and go on alike end alike.
LEMMA SameRun ==
    ASSUME NEW n \in Nat, NEW f, NEW g, f[0] = g[0],
           \A k \in 0 .. n - 1 : f[k] = g[k] => f[k + 1] = g[k + 1]
    PROVE  f[n] = g[n]
<1> DEFINE S == {k \in 0 .. n : f[k] = g[k]}
<1>1. 0 \in S /\ \A k \in 0 .. n - 1 : k \in S => k + 1 \in S
  OBVIOUS
<1> HIDE DEF S
<1>2. 0 .. n \subseteq S
  BY <1>1, IntervalInduction
<1> QED
  BY <1>2 DEF S

\* The part of a sequence from m on up to n.
LEMMA PartOfSequence ==
    ASSUME NEW S, NEW xs \in Seq(S), NEW m \in 1 .. Len(xs) + 1, NEW n \in m - 1 .. Len(xs)
    PROVE  /\ SubSeq(xs, m, n) \in Seq(S) /\ Len(SubSeq(xs, m, n)) = n - m + 1
           /\ \A i \in 1 .. n - m + 1 : SubSeq(xs, m, n)[i] = xs[m + i - 1]
<1>1. Len(xs) \in Nat
  OBVIOUS
<1>2. m \in Int /\ n \in Int /\ (m <= n \/ n - m + 1 = 0)
  BY <1>1
<1>3. \A i \in m .. n : xs[i] \in S
  BY <1>1, ElementOfSeq
<1>4. /\ SubSeq(xs, m, n) \in Seq(S)
      /\ Len(SubSeq(xs, m, n)) = IF m <= n THEN n - m + 1 ELSE 0
      /\ \A i \in 1 .. n - m + 1 : SubSeq(xs, m, n)[i] = xs[m + i - 1]
  BY <1>2, <1>3, SubSeqProperties
<1>5. Len(SubSeq(xs, m, n)) = n - m + 1
  <2>1. CASE m <= n
    BY <1>4, <2>1
  <2>2. CASE ~(m <= n)
    <3>1. n - m + 1 = 0
      BY <1>2, <2>2
    <3> QED
      BY <1>4, <2>2, <3>1
  <2> QED
    BY <2>1, <2>2
<1> QED
  BY <1>4, <1>5

-----------------------------------------------------------------------------
(* The number cycle.                                                       *)

NumberCycleSpec == NumberCycleInit /\ [][NumberCycleNext]_numberCycleVars

\* Unless it was misused, a cycle is inside its range, and the steps counted
\* since the value was given are some whole rounds and its place in the range.
Rounds(q) ==
    start - cycle.from + turns = q * (cycle.to - cycle.from + 1) + (cycle.current - cycle.from)

CycleInv ==
    /\ cycle \in [from : Int, to : Int, current : Int]
    /\ start \in Int /\ turns \in Int /\ misused \in BOOLEAN
    /\ ~misused => /\ Within(cycle.current, cycle.from, cycle.to)
                   /\ \E q \in Int : Rounds(q)

\* The remainder of a multiple and a number less than the divisor.
LEMMA Remainder ==
    ASSUME NEW n \in Nat \ {0}, NEW q \in Int, NEW r \in 0 .. n - 1
    PROVE  (q * n + r) % n = r
  BY SMTT(60)

\* A multiple, one up and one down.
LEMMA OneMore ==
    ASSUME NEW n \in Int, NEW q \in Int
    PROVE  /\ (q + 1) * n = q * n + n
           /\ (q - 1) * n = q * n - n
           /\ 0 * n = 0
           /\ q * n \in Int
  OBVIOUS

\* A value just given is at its own place of the round 0.
LEMMA GivenInv ==
    ASSUME cycle' \in [from : Int, to : Int, current : Int],
           start' = cycle'.current, turns' = 0, misused' \in BOOLEAN,
           ~misused' => Within(cycle'.current, cycle'.from, cycle'.to)
    PROVE  CycleInv'
<1>1. Rounds(0)'
  BY OneMore DEF Rounds
<1> QED
  BY <1>1 DEF CycleInv

\* A step of one: inside the range, or from one end of it to the other.
LEMMA SteppedInv ==
    ASSUME CycleInv, NEW d \in {-1, 1}, NEW v \in Int,
           cycle' = [cycle EXCEPT !.current = v],
           start' = start, turns' = turns + d, misused' \in BOOLEAN,
           ~misused' => /\ ~misused
                        /\ Within(v, cycle.from, cycle.to)
                        /\ \/ v = cycle.current + d
                           \/ d = 1 /\ cycle.current = cycle.to /\ v = cycle.from
                           \/ d = -1 /\ cycle.current = cycle.from /\ v = cycle.to
    PROVE  CycleInv'
<1>1. /\ cycle'.from = cycle.from /\ cycle'.to = cycle.to /\ cycle'.current = v
      /\ cycle' \in [from : Int, to : Int, current : Int]
      /\ cycle.from \in Int /\ cycle.to \in Int /\ cycle.current \in Int
      /\ start \in Int /\ turns \in Int
  BY DEF CycleInv
<1>2. SUFFICES ASSUME ~misused' PROVE \E q \in Int : Rounds(q)'
  BY <1>1 DEF CycleInv
<1>3. PICK q \in Int : Rounds(q)
  BY <1>2 DEF CycleInv
<1> DEFINE n == cycle.to - cycle.from + 1
<1>4. /\ n \in Int /\ q * n \in Int
      /\ (q + 1) * n = q * n + n /\ (q - 1) * n = q * n - n
  BY <1>1, OneMore
<1>5. start - cycle.from + turns = q * n + (cycle.current - cycle.from)
  BY <1>3 DEF Rounds
<1>6. cycle'.to - cycle'.from + 1 = n
  BY <1>1
<1>7. CASE v = cycle.current + d
  <2>1. start - cycle.from + (turns + d) = q * n + (v - cycle.from)
    BY <1>1, <1>4, <1>5, <1>7
  <2> QED
    BY <1>1, <1>6, <2>1 DEF Rounds
<1>8. CASE d = 1 /\ cycle.current = cycle.to /\ v = cycle.from
  <2>1. start - cycle.from + (turns + d) = (q + 1) * n + (v - cycle.from)
    BY <1>1, <1>4, <1>5, <1>8
  <2> QED
    BY <1>1, <1>6, <2>1 DEF Rounds
<1>9. CASE d = -1 /\ cycle.current = cycle.from /\ v = cycle.to
  <2>1. start - cycle.from + (turns + d) = (q - 1) * n + (v - cycle.from)
    BY <1>1, <1>4, <1>5, <1>9
  <2> QED
    BY <1>1, <1>6, <2>1 DEF Rounds
<1> QED
  BY <1>2, <1>7, <1>8, <1>9

\* Going round a range in steps of one, forward, back and mixed, comes to the
\* value that counting modulo the size of the range gives, for every width of
\* int and every range in it (NumberCycle.hpp 24-67).
THEOREM CycleCorrect == NumberCycleSpec => []CycleRight
<1> USE DEF MIN_INT
<1>1. NumberCycleInit => CycleInv
  <2> SUFFICES ASSUME NumberCycleInit PROVE CycleInv
    OBVIOUS
  <2>1. Rounds(0)
    BY DEF NumberCycleInit, Rounds
  <2>2. PICK c : c = [from |-> 0, to |-> 0, current |-> 0]
    OBVIOUS
  <2>3. c \in [from : Int, to : Int, current : Int] /\ c.from = 0 /\ c.to = 0 /\ c.current = 0
    BY <2>2
  <2>4. cycle = c /\ start = 0 /\ turns = 0 /\ misused = FALSE
    BY <2>2 DEF NumberCycleInit
  <2>5. Within(0, 0, 0)
    BY DEF Within
  <2> QED
    BY <2>1, <2>3, <2>4, <2>5 DEF CycleInv
<1>2. CycleInv /\ [NumberCycleNext]_numberCycleVars => CycleInv'
  <2> SUFFICES ASSUME CycleInv, [NumberCycleNext]_numberCycleVars PROVE CycleInv'
    OBVIOUS
  <2>0. /\ Ends \subseteq Int /\ MAX_INT \in Nat
        /\ cycle.from \in Int /\ cycle.to \in Int /\ cycle.current \in Int
    BY NumberCycleAssumption DEF CycleInv
  <2>1. ASSUME NEW val \in Ends, NEW from \in Ends, NEW to \in Ends, Establish(val, from, to)
        PROVE  CycleInv'
    BY <2>0, <2>1, GivenInv DEF Establish, Within
  <2>2. ASSUME NEW val \in Ends, SetValue(val) PROVE CycleInv'
    <3>1. PICK c \in Int : c = Clamped(cycle, val)
      BY <2>0 DEF Clamped
    <3>2. cycle' = [cycle EXCEPT !.current = c] /\ misused' = (cycle.from > cycle.to)
      BY <2>2, <3>1 DEF SetValue
    <3>3. /\ cycle' \in [from : Int, to : Int, current : Int]
          /\ cycle'.from = cycle.from /\ cycle'.to = cycle.to /\ cycle'.current = c
      BY <3>2 DEF CycleInv
    <3>4. ~misused' => Within(c, cycle.from, cycle.to)
      <4>1. val \in Int
        BY <2>0
      <4>2. ~misused' => cycle.from <= cycle.to
        <5>1. ~(cycle.from > cycle.to) => cycle.from <= cycle.to
          BY <2>0
        <5>2. ~misused' => ~(cycle.from > cycle.to)
          BY <3>2, Zenon
        <5> QED
          BY <5>1, <5>2
      <4> QED
        BY <2>0, <3>1, <4>1, <4>2 DEF Clamped, Within
    <3> QED
      BY <2>2, <3>2, <3>3, <3>4, GivenInv DEF SetValue
  <2>3. ASSUME NEW n \in {1, 2}, Up(n) PROVE CycleInv'
    <3>1. PICK v \in StepUp(cycle) : cycle' = [cycle EXCEPT !.current = v]
      BY <2>3 DEF Up
    <3>2. v \in Int
      BY <2>0, <3>1 DEF StepUp
    <3>3. /\ misused' \in BOOLEAN
          /\ ~misused' => ~misused /\ cycle.current # MAX_INT
      BY <2>3 DEF Up, CycleInv
    <3>4. ~misused' => Within(cycle.current, cycle.from, cycle.to)
      BY <3>3 DEF CycleInv
    <3>5. ~misused' => /\ Within(v, cycle.from, cycle.to)
                       /\ \/ v = cycle.current + 1
                          \/ cycle.current = cycle.to /\ v = cycle.from
      BY <2>0, <3>1, <3>3, <3>4 DEF StepUp, Within
    <3>6. start' = start /\ turns' = turns + 1
      BY <2>3 DEF Up
    <3> QED
      BY <3>1, <3>2, <3>3, <3>5, <3>6, SteppedInv
  <2>4. ASSUME NEW n \in {1, 2}, Down(n) PROVE CycleInv'
    <3>1. PICK v \in StepDown(cycle) : cycle' = [cycle EXCEPT !.current = v]
      BY <2>4 DEF Down
    <3>2. v \in Int
      BY <2>0, <3>1 DEF StepDown
    <3>3. /\ misused' \in BOOLEAN
          /\ ~misused' => ~misused /\ cycle.current # MIN_INT
      BY <2>4 DEF Down, CycleInv
    <3>4. ~misused' => Within(cycle.current, cycle.from, cycle.to)
      BY <3>3 DEF CycleInv
    <3>5. ~misused' => /\ Within(v, cycle.from, cycle.to)
                       /\ \/ v = cycle.current + (-1)
                          \/ cycle.current = cycle.from /\ v = cycle.to
      BY <2>0, <3>1, <3>3, <3>4 DEF StepDown, Within
    <3>6. start' = start /\ turns' = turns + (-1)
      BY <2>4 DEF Down, CycleInv
    <3> QED
      BY <3>1, <3>2, <3>3, <3>5, <3>6, SteppedInv
  <2>5. CASE UNCHANGED numberCycleVars
    BY <2>5 DEF numberCycleVars, CycleInv, Within, Rounds
  <2> QED
    BY <2>1, <2>2, <2>3, <2>4, <2>5 DEF NumberCycleNext
<1>3. CycleInv => CycleRight
  <2> SUFFICES ASSUME CycleInv, ~misused
               PROVE  LET size == cycle.to - cycle.from + 1
                      IN  cycle.current = cycle.from + ((start - cycle.from + turns) % size)
    BY DEF CycleRight
  <2> DEFINE size == cycle.to - cycle.from + 1
             place == cycle.current - cycle.from
  <2>1. /\ cycle.from \in Int /\ cycle.to \in Int /\ cycle.current \in Int
        /\ cycle.from <= cycle.current /\ cycle.current <= cycle.to
    BY DEF CycleInv, Within
  <2>2. size \in Nat \ {0} /\ place \in 0 .. size - 1
    BY <2>1
  <2>3. PICK q \in Int : start - cycle.from + turns = q * size + place
    BY DEF CycleInv, Rounds
  <2>4. (q * size + place) % size = place
    BY <2>2, Remainder
  <2> QED
    BY <2>1, <2>3, <2>4
<1> QED
  BY <1>1, <1>2, <1>3, PTL DEF NumberCycleSpec

-----------------------------------------------------------------------------
(* The wall clock.                                                         *)

SystemTimeSpec == SystemTimeInit /\ [][SystemTimeNext]_systemTimeVars

PosixTimes == [secs : -(MaxI64 + 1) .. MaxI64, nanos : 0 .. NanosPerSec - 1]

\* As long as nothing lapsed the ticks are not before the epoch, from which
\* they only went forward; what SystemTimeRight says of a time that cannot be
\* converted is the same in the next state, which is the last.
SystemTimeInv ==
    /\ inTicks \in BOOLEAN /\ terminated \in BOOLEAN
    /\ time \in (IF inTicks THEN Nat ELSE PosixTimes)
    /\ meant \in Int /\ sums \in Nat
    /\ timeLapse = "none" =>
          /\ inTicks => time >= EpochTicks
          /\ meant - Stands(time) \in 0 .. (IF inTicks THEN sums * (NanosPerTick - 1) ELSE 0)
          /\ terminated => meant < 0 \/ (inTicks /\ meant > MaxI64 * NanosPerTick)

\* Conversions between the two kinds of integers change only what does not fit.
LEMMA Wraps ==
    ASSUME NEW x \in Int
    PROVE  /\ AsU64(x) \in 0 .. TwoTo64 - 1
           /\ x \in 0 .. TwoTo64 - 1 => AsU64(x) = x
           /\ AsI64(x) \in -(MaxI64 + 1) .. MaxI64
           /\ x \in -(MaxI64 + 1) .. MaxI64 => AsI64(x) = x
<1>1. MaxI64 \in Nat /\ TwoTo64 = 2 * (MaxI64 + 1) /\ TwoTo64 \in Nat \ {0}
  BY SystemTimeAssumption DEF TwoTo64
<1> HIDE DEF TwoTo64
<1>2. AsU64(x) \in 0 .. TwoTo64 - 1
  BY <1>1 DEF AsU64
<1>3. x \in 0 .. TwoTo64 - 1 => AsU64(x) = x
  <2> SUFFICES ASSUME x \in 0 .. TwoTo64 - 1 PROVE (0 * TwoTo64 + x) % TwoTo64 = x
    BY <1>1 DEF AsU64
  <2> QED
    BY <1>1, Remainder
<1>4. x \in -TwoTo64 .. -1 => AsU64(x) = x + TwoTo64
  <2> SUFFICES ASSUME x \in -TwoTo64 .. -1
               PROVE  ((-1) * TwoTo64 + (x + TwoTo64)) % TwoTo64 = x + TwoTo64
    BY <1>1 DEF AsU64
  <2>1. TwoTo64 \in Nat \ {0} /\ -1 \in Int /\ x + TwoTo64 \in 0 .. TwoTo64 - 1
    BY <1>1
  <2> QED
    BY <2>1, Remainder
<1>5. AsI64(x) \in -(MaxI64 + 1) .. MaxI64
  BY <1>1, <1>2 DEF AsI64
<1>6. x \in -(MaxI64 + 1) .. MaxI64 => AsI64(x) = x
  BY <1>1, <1>3, <1>4 DEF AsI64
<1> QED
  BY <1>2, <1>3, <1>5, <1>6

\* Seconds and nanoseconds are ordered like the number they stand for.
LEMMA Lexical ==
    ASSUME NEW n \in Nat \ {0}, NEW s \in Int, NEW t \in Int,
           NEW i \in 0 .. n - 1, NEW j \in 0 .. n - 1
    PROVE  s * n + i < t * n + j <=> s < t \/ (s = t /\ i < j)
<1>1. s * n \in Int /\ t * n \in Int
  OBVIOUS
<1>2. CASE s < t
  <2>1. (s + 1) * n <= t * n
    BY <1>2
  <2>2. (s + 1) * n = s * n + n
    OBVIOUS
  <2> QED
    BY <1>1, <1>2, <2>1, <2>2
<1>3. CASE s = t
  BY <1>1, <1>3
<1>4. CASE s > t
  <2>1. (t + 1) * n <= s * n
    BY <1>4
  <2>2. (t + 1) * n = t * n + n
    OBVIOUS
  <2> QED
    BY <1>1, <1>4, <2>1, <2>2
<1> QED
  BY <1>2, <1>3, <1>4

\* A whole number and what is left over.
LEMMA Division ==
    ASSUME NEW x \in Nat, NEW n \in Nat \ {0}
    PROVE  /\ x % n \in 0..(n - 1)
           /\ x \div n \in Nat
           /\ x = (x \div n) * n + (x % n)
  OBVIOUS

\* Products with a positive number are ordered like the numbers.
LEMMA Scaled ==
    ASSUME NEW n \in Nat \ {0}, NEW s \in Int, NEW t \in Int
    PROVE  /\ s * n \in Int
           /\ s * n < t * n <=> s < t
           /\ s * n <= t * n <=> s <= t
           /\ (s + t) * n = s * n + t * n
           /\ (s - t) * n = s * n - t * n
           /\ (s - t - 1) * n = s * n - t * n - n
           /\ s >= 0 => s * n >= 0
<1>1. s * n \in Int /\ t * n \in Int
  OBVIOUS
<1>2. s < t => s * n < t * n
  BY Lexical, <1>1
<1>3. t < s => t * n < s * n
  BY Lexical, <1>1
<1>4. s >= 0 => s * n >= 0
  OBVIOUS
<1> QED
  BY <1>1, <1>2, <1>3, <1>4

\* A number less than the divisor has the quotient zero.
LEMMA NothingWhole ==
    ASSUME NEW n \in Nat \ {0}, NEW x \in 0 .. n - 1
    PROVE  x \div n = 0
<1>1. PICK q \in Nat, r \in 0..(n - 1) : x \div n = q /\ x % n = r /\ x = q * n + r
  BY Division
<1>2. q >= 1 => q * n >= 1 * n
  BY Scaled
<1>3. q * n \in Nat
  OBVIOUS
<1> QED
  BY <1>1, <1>2, <1>3

\* What a Duration that is not skewed adds to a time, if the sum fits.
LEMMA PosixSumRight ==
    ASSUME ~inTicks, NEW t \in PosixTimes, NEW d,
           d.secs \in Nat, d.nanos \in 0 .. NanosPerSec
    PROVE  /\ PosixSum(t, d) \in PosixTimes
           /\ d.nanos # NanosPerSec /\ Stands(t) + Nanos(d) \in Earliest .. Latest =>
                  Stands(PosixSum(t, d)) = Stands(t) + Nanos(d)
<1> DEFINE nanos == t.nanos + d.nanos
           carry == IF nanos >= NanosPerSec THEN 1 ELSE 0
           secs  == t.secs + Secs(d) + carry
<1>1. /\ NanosPerSec \in Nat \ {0} /\ MaxI64 \in Nat
      /\ t.secs \in Int /\ t.nanos \in 0 .. NanosPerSec - 1
  BY SystemTimeAssumption DEF PosixTimes
<1>2. /\ d.nanos \div NanosPerSec \in Nat
      /\ d.nanos < NanosPerSec => d.nanos \div NanosPerSec = 0
  <2>1. d.nanos \in Nat
    BY <1>1
  <2>2. d.nanos \div NanosPerSec \in Nat
    BY <1>1, <2>1, Division
  <2>3. d.nanos < NanosPerSec => d.nanos \in 0 .. NanosPerSec - 1
    BY <1>1, <2>1
  <2> QED
    BY <1>1, <2>2, <2>3, NothingWhole
<1>3. secs \in Int /\ carry \in {0, 1} /\ nanos - carry * NanosPerSec \in 0 .. NanosPerSec - 1
  BY <1>1, <1>2 DEF Secs
<1>4. PosixSum(t, d) = [secs |-> AsI64(secs), nanos |-> nanos - carry * NanosPerSec]
  BY DEF PosixSum
<1> HIDE DEF secs
<1>5. PosixSum(t, d) \in PosixTimes
  BY <1>3, <1>4, Wraps DEF PosixTimes
<1>6. ASSUME d.nanos # NanosPerSec, Stands(t) + Nanos(d) \in Earliest .. Latest
      PROVE  Stands(PosixSum(t, d)) = Stands(t) + Nanos(d)
  <2>1. secs = t.secs + d.secs + carry
    <3>1. d.nanos < NanosPerSec
      BY <1>1, <1>6
    <3> QED
      BY <1>1, <1>2, <3>1 DEF secs, Secs
  <2>2. Stands(t) + Nanos(d) = secs * NanosPerSec + (nanos - carry * NanosPerSec)
    <3>1. (t.secs + d.secs + carry) * NanosPerSec
            = t.secs * NanosPerSec + d.secs * NanosPerSec + carry * NanosPerSec
      BY <1>1, <1>3
    <3> QED
      BY <1>1, <1>3, <2>1, <3>1 DEF Stands, Nanos
  <2>3. secs \in -(MaxI64 + 1) .. MaxI64
    <3> DEFINE S == secs * NanosPerSec
    <3>1. S + (nanos - carry * NanosPerSec) \in -(MaxI64 + 1) * NanosPerSec .. (MaxI64 + 1) * NanosPerSec - 1
      BY <1>6, <2>2 DEF Earliest, Latest
    <3>2. S \in Int /\ -(MaxI64 + 1) * NanosPerSec \in Int /\ (MaxI64 + 1) * NanosPerSec \in Int
      BY <1>1, <1>3
    <3>3. S < (MaxI64 + 1) * NanosPerSec
      BY <1>1, <1>3, <3>1, <3>2
    <3>4. -(MaxI64 + 1) * NanosPerSec < S + NanosPerSec
      BY <1>1, <1>3, <3>1, <3>2
    <3>5. S + NanosPerSec = (secs + 1) * NanosPerSec
      BY <1>1, <1>3, Scaled
    <3>6. secs < MaxI64 + 1
      BY <1>1, <1>3, <3>3, Scaled
    <3>7. -(MaxI64 + 1) < secs + 1
      BY <1>1, <1>3, <3>4, <3>5, Scaled
    <3> QED
      BY <1>1, <1>3, <3>6, <3>7
  <2>4. AsI64(secs) = secs
    BY <1>3, <2>3, Wraps
  <2> QED
    BY <1>4, <2>2, <2>4 DEF Stands
<1> QED
  BY <1>5, <1>6

\* The distance of a time from one that a clock may show, and their order.
LEMMA PosixSinceRight ==
    ASSUME ~inTicks, NEW t \in PosixTimes, NEW u \in PosixTimes, u.secs \in 0 .. MaxI64,
           Near(t, u)
    PROVE  /\ IF Stands(t) < Stands(u) THEN PosixSince(t, u) = NoDuration
              ELSE /\ Nanos(PosixSince(t, u)) = Stands(t) - Stands(u)
                   /\ PosixSince(t, u).nanos < NanosPerSec
           /\ PosixPrecedes(t, u) <=> Stands(t) < Stands(u)
<1> DEFINE P == NanosPerSec
           borrow == IF t.nanos < u.nanos THEN 1 ELSE 0
           secs == t.secs - u.secs - borrow
           nanos == t.nanos + borrow * P - u.nanos
<1>1. /\ P \in Nat \ {0} /\ MaxI64 \in Nat
      /\ t.secs \in -(MaxI64 + 1) .. MaxI64 /\ t.nanos \in 0 .. P - 1
      /\ u.secs \in 0 .. MaxI64 /\ u.nanos \in 0 .. P - 1
  BY SystemTimeAssumption DEF PosixTimes
<1>2. Stands(t) = t.secs * P + t.nanos /\ Stands(u) = u.secs * P + u.nanos
  BY DEF Stands
<1>3. Stands(t) < Stands(u) <=> t.secs < u.secs \/ (t.secs = u.secs /\ t.nanos < u.nanos)
  <2>1. t.secs \in Int /\ u.secs \in Int
    BY <1>1
  <2>2. t.secs * P + t.nanos < u.secs * P + u.nanos
          <=> t.secs < u.secs \/ (t.secs = u.secs /\ t.nanos < u.nanos)
    <3> HIDE DEF P
    <3> QED
      BY <1>1, <2>1, Lexical
  <2> QED
    BY <1>2, <2>2
<1>4. t.secs - u.secs \in -(MaxI64 + 1) .. MaxI64
  <2>1. Stands(t) - Stands(u) >= -MaxI64 * P
    BY DEF Near
  <2>2. /\ t.secs \in Int /\ u.secs \in Int /\ t.secs * P \in Int /\ u.secs * P \in Int
        /\ (t.secs - u.secs) * P = t.secs * P - u.secs * P
    BY <1>1, Scaled
  <2>3. (t.secs - u.secs) * P > -MaxI64 * P - P
    <3>1. -MaxI64 * P \in Int
      BY <1>1
    <3> QED
      BY <1>1, <1>2, <2>1, <2>2, <3>1
  <2>4. -MaxI64 * P - P = (-MaxI64 - 1) * P
    BY <1>1
  <2>5. -MaxI64 - 1 < t.secs - u.secs
    <3>1. -MaxI64 - 1 \in Int /\ t.secs - u.secs \in Int
      BY <1>1
    <3>2. (-MaxI64 - 1) * P < (t.secs - u.secs) * P
      BY <1>1, <2>2, <2>3, <2>4
    <3> QED
      BY <1>1, <3>1, <3>2, Scaled
  <2> QED
    BY <1>1, <2>5
<1>5. AsI64(t.secs - u.secs) = t.secs - u.secs
  BY <1>1, <1>4, Wraps
<1>6. PosixSince(t, u) =
        IF secs < 0 THEN NoDuration ELSE [secs |-> secs, nanos |-> nanos % P]
  BY <1>5 DEF PosixSince
<1>7. nanos \in 0 .. P - 1 /\ nanos % P = nanos
  <2>1. nanos \in 0 .. P - 1
    BY <1>1
  <2>2. (0 * P + nanos) % P = nanos
    <3> HIDE DEF nanos
    <3> QED
      BY <1>1, <2>1, Remainder
  <2> QED
    BY <1>1, <2>1, <2>2
<1>8. secs < 0 <=> Stands(t) < Stands(u)
  BY <1>1, <1>3
<1>9. ASSUME ~(secs < 0)
      PROVE  Nanos(PosixSince(t, u)) = Stands(t) - Stands(u) /\ PosixSince(t, u).nanos < P
  <2>1. PosixSince(t, u) = [secs |-> secs, nanos |-> nanos]
    BY <1>6, <1>7, <1>9
  <2>2. secs * P = t.secs * P - u.secs * P - borrow * P
    BY <1>1
  <2>3. t.secs * P \in Int /\ u.secs * P \in Int /\ borrow * P \in Int
    BY <1>1
  <2> QED
    BY <1>1, <1>2, <1>7, <2>1, <2>2, <2>3 DEF Nanos
<1>10. PosixPrecedes(t, u) <=> Stands(t) < Stands(u)
  BY <1>3 DEF PosixPrecedes
<1> QED
  BY <1>6, <1>8, <1>9, <1>10

\* What a number of ticks stands for, and the ticks that there are.
LEMMA TicksStand ==
    ASSUME inTicks
    PROVE  /\ \A x \in Int : Stands(x) = (x - EpochTicks) * NanosPerTick
           /\ Earliest = -EpochTicks * NanosPerTick
           /\ Latest = (TwoTo64 - 1 - EpochTicks) * NanosPerTick
  BY DEF Stands, Earliest, Latest

\* The quotient is the only whole number that leaves less than the divisor.
LEMMA WholePart ==
    ASSUME NEW n \in Nat \ {0}, NEW q \in Nat, NEW r \in 0 .. n - 1
    PROVE  (q * n + r) \div n = q
<1>1. q * n \in Nat /\ q * n + r \in Nat
  OBVIOUS
<1>2. PICK p \in Nat, s \in 0 .. n - 1 :
        /\ (q * n + r) \div n = p /\ (q * n + r) % n = s /\ q * n + r = p * n + s
  BY <1>1, Division
<1>3. s = r
  BY <1>2, Remainder
<1>4. p * n <= q * n /\ q * n <= p * n
  BY <1>1, <1>2, <1>3
<1>5. p = q
  BY <1>4, Scaled
<1> QED
  BY <1>2, <1>5

\* The Windows sum loses what is not a whole tick.
LEMMA TickSumRight ==
    ASSUME inTicks, NEW t \in Nat, NEW d, d.secs \in Nat, d.nanos \in 0 .. NanosPerSec,
           NEW m \in Int, Stands(t) <= m,
           NEW q \in Nat, NEW r \in 0 .. NanosPerTick - 1, Nanos(d) = q * NanosPerTick + r
    PROVE  /\ TickSum(t, d) \in Nat
           /\ m + Nanos(d) <= Latest /\ Nanos(d) < TwoTo64 =>
                 /\ TickSum(t, d) >= t
                 /\ Stands(TickSum(t, d)) = Stands(t) + q * NanosPerTick
<1>1. /\ NanosPerTick \in Nat \ {0} /\ NanosPerSec \in Nat \ {0} /\ EpochTicks \in Nat
      /\ TwoTo64 \in Nat
  BY SystemTimeAssumption DEF TwoTo64
<1>2. PICK n \in Nat : n = Nanos(d)
  BY <1>1 DEF Nanos
<1>3. TickSum(t, d) \in Nat
  <2>1. AsU64(n) \in Nat
    BY <1>1, <1>2, Wraps
  <2>2. AsU64(n) \div NanosPerTick \in Nat
    BY <1>1, <2>1, Division
  <2>3. t + AsU64(n) \div NanosPerTick \in Int
    BY <2>2
  <2>4. AsU64(t + AsU64(n) \div NanosPerTick) \in 0 .. TwoTo64 - 1
    BY <2>3, Wraps
  <2> QED
    BY <1>1, <1>2, <2>4 DEF TickSum
<1>4. ASSUME m + n <= Latest, n < TwoTo64
      PROVE  /\ TickSum(t, d) >= t
             /\ Stands(TickSum(t, d)) = Stands(t) + q * NanosPerTick
  <2>1. AsU64(n) = n
    BY <1>1, <1>4, Wraps
  <2>2. n \div NanosPerTick = q
    BY <1>1, <1>2, WholePart
  <2>3. TickSum(t, d) = AsU64(t + q)
    BY <1>2, <2>1, <2>2 DEF TickSum
  <2>4. Stands(t + q) = Stands(t) + q * NanosPerTick /\ Stands(t) \in Int
    <3>1. /\ (t - EpochTicks) * NanosPerTick \in Int
          /\ (t + q - EpochTicks) * NanosPerTick = (t - EpochTicks) * NanosPerTick + q * NanosPerTick
      BY <1>1
    <3>2. /\ Stands(t) = (t - EpochTicks) * NanosPerTick
          /\ Stands(t + q) = (t + q - EpochTicks) * NanosPerTick
      BY <1>1, TicksStand
    <3> QED
      BY <3>1, <3>2
  <2>5. q * NanosPerTick \in Nat
    BY <1>1
  <2>6. n = q * NanosPerTick + r
    BY <1>2
  <2>7. t + q \in 0 .. TwoTo64 - 1
    <3>1. Stands(t + q) <= Latest
      <4>1. Latest \in Int
        BY <1>1, TicksStand
      <4>2. Stands(t + q) <= m + n
        BY <1>1, <2>4, <2>5, <2>6
      <4> QED
        BY <1>4, <2>4, <2>5, <4>1, <4>2
    <3>2. (t + q - EpochTicks) * NanosPerTick <= (TwoTo64 - 1 - EpochTicks) * NanosPerTick
      BY <1>1, <3>1, TicksStand
    <3>3. t + q - EpochTicks \in Int /\ TwoTo64 - 1 - EpochTicks \in Int
      BY <1>1
    <3>4. t + q - EpochTicks <= TwoTo64 - 1 - EpochTicks
      BY <1>1, <3>2, <3>3, Scaled
    <3> QED
      BY <1>1, <3>4
  <2>8. AsU64(t + q) = t + q
    BY <2>7, Wraps
  <2> QED
    BY <2>3, <2>4, <2>8
<1> QED
  BY <1>2, <1>3, <1>4

\* The distance of a number of ticks from one that a clock may show, and their order.
LEMMA TickSinceRight ==
    ASSUME inTicks, NEW t \in Nat, NEW u \in Nat, Near(t, u)
    PROVE  /\ IF Stands(t) < Stands(u) THEN TickSince(t, u) = NoDuration
              ELSE /\ Nanos(TickSince(t, u)) = Stands(t) - Stands(u)
                   /\ TickSince(t, u).nanos < NanosPerSec
           /\ t < u <=> Stands(t) < Stands(u)
<1> DEFINE P == NanosPerTick
           diff == t - u
<1>1. P \in Nat \ {0} /\ NanosPerSec \in Nat \ {0} /\ MaxI64 \in Nat /\ EpochTicks \in Nat
  BY SystemTimeAssumption
<1>2. PICK y \in Int, z \in Int : y = t - EpochTicks /\ z = u - EpochTicks
  BY <1>1
<1>3. /\ Stands(t) = y * P /\ Stands(u) = z * P /\ y * P \in Int /\ z * P \in Int
      /\ diff = y - z
  BY <1>1, <1>2 DEF Stands
<1>4. y * P < z * P <=> y < z
  BY <1>1, Scaled
<1>5. t < u <=> Stands(t) < Stands(u)
  BY <1>1, <1>2, <1>3, <1>4
<1>6. diff * P = Stands(t) - Stands(u)
  BY <1>1, <1>3
<1>7. diff \in -MaxI64 .. MaxI64
  <2>1. diff * P \in -MaxI64 .. MaxI64
    BY <1>6 DEF Near
  <2>2. diff \in Int
    OBVIOUS
  <2>3. diff > MaxI64 => diff * P >= diff * 1
    BY <1>1, <2>2
  <2>4. diff < -MaxI64 => diff * P <= diff * 1
    BY <1>1, <2>2
  <2> QED
    BY <1>1, <2>1, <2>2, <2>3, <2>4
<1>8. AsI64(diff) = diff
  BY <1>1, <1>7, Wraps
<1>9. diff < 0 <=> t < u
  OBVIOUS
<1>10. CASE diff < 0
  BY <1>5, <1>8, <1>9, <1>10 DEF TickSince
<1>11. CASE ~(diff < 0)
  <2>1. PICK x \in Nat : x = diff * P
    BY <1>1, <1>11
  <2>2. TickSince(t, u) = [secs |-> x \div NanosPerSec, nanos |-> x % NanosPerSec]
    BY <1>8, <1>11, <2>1 DEF TickSince
  <2>3. /\ x % NanosPerSec \in 0 .. NanosPerSec - 1
        /\ x = (x \div NanosPerSec) * NanosPerSec + (x % NanosPerSec)
    BY <1>1, Division
  <2>4. Nanos(TickSince(t, u)) = x
    BY <2>2, <2>3 DEF Nanos
  <2>5. TickSince(t, u).nanos < NanosPerSec
    BY <1>1, <2>2, <2>3
  <2> QED
    BY <1>5, <1>6, <1>9, <1>11, <2>1, <2>4, <2>5
<1> QED
  BY <1>10, <1>11

\* A clock shows a time that can be represented, not before the epoch.
LEMMA ReadingsTyped ==
    ASSUME NEW u \in Readings
    PROVE  /\ inTicks => u \in Nat /\ u >= EpochTicks
           /\ ~inTicks => u \in PosixTimes /\ u.secs \in 0 .. MaxI64
<1>1. /\ NanosPerTick \in Nat \ {0} /\ NanosPerSec \in Nat \ {0} /\ EpochTicks \in Nat
      /\ MaxI64 \in Nat /\ WholeSecs \subseteq 0 .. MaxI64
  BY SystemTimeAssumption
<1>2. ASSUME inTicks PROVE u \in Nat /\ u >= EpochTicks
  <2>1. PICK s \in WholeSecs, n \in 0 .. NanosPerSec - 1 :
          u = EpochTicks + (s * NanosPerSec + n) \div NanosPerTick
    BY <1>2 DEF Readings
  <2>2. s * NanosPerSec + n \in Nat
    BY <1>1
  <2>3. PICK q \in Nat : q = (s * NanosPerSec + n) \div NanosPerTick
    BY <1>1, <2>2, Division
  <2>4. u = EpochTicks + q
    BY <2>1, <2>3
  <2> QED
    BY <1>1, <2>4
<1>3. ASSUME ~inTicks PROVE u \in PosixTimes /\ u.secs \in 0 .. MaxI64
  <2>1. u \in [secs : WholeSecs, nanos : 0 .. NanosPerSec - 1]
    BY <1>3 DEF Readings
  <2>2. u.secs \in 0 .. MaxI64
    BY <1>1, <2>1
  <2>3. u.secs \in -(MaxI64 + 1) .. MaxI64
    BY <1>1, <2>2
  <2> QED
    BY <2>1, <2>2, <2>3 DEF PosixTimes
<1> QED
  BY <1>2, <1>3

\* A time that is read or set without a lapse is exact.
LEMMA FreshInv ==
    ASSUME inTicks \in BOOLEAN, UNCHANGED <<inTicks, terminated>>, terminated = FALSE,
           time' \in (IF inTicks THEN Nat ELSE PosixTimes),
           meant' \in Int, sums' = 0,
           timeLapse' = "none" => /\ inTicks => time' >= EpochTicks
                                  /\ meant' = Stands(time')
    PROVE  SystemTimeInv'
<1>1. ASSUME timeLapse' = "none"
      PROVE  meant' - Stands(time)' \in 0 .. (IF inTicks' THEN sums' * (NanosPerTick - 1) ELSE 0)
  <2>1. meant' - Stands(time)' = 0
    BY <1>1 DEF Stands
  <2>2. NanosPerTick - 1 \in Int /\ 0 * (NanosPerTick - 1) = 0
    BY SystemTimeAssumption
  <2> QED
    BY <2>1, <2>2
<1> QED
  BY <1>1 DEF SystemTimeInv

\* now() gives a time that is exact to the tick.
LEMMA ReadClockInv ==
    ASSUME SystemTimeInv, ~terminated, ReadClock
    PROVE  SystemTimeInv'
<1>1. /\ inTicks => time' \in Nat /\ time' >= EpochTicks
      /\ ~inTicks => time' \in PosixTimes
  BY ReadingsTyped DEF ReadClock
<1>2. meant' \in Int
  <2>1. inTicks => meant' \in Int
    BY <1>1, TicksStand, SystemTimeAssumption DEF ReadClock
  <2>2. ~inTicks => meant' \in Int
    BY <1>1, SystemTimeAssumption DEF ReadClock, Stands, PosixTimes
  <2> QED
    BY <2>1, <2>2
<1> QED
  BY <1>1, <1>2, FreshInv DEF ReadClock, SystemTimeInv

\* fromUnix() of a time that is not negative is exact.
LEMMA FromUnixInv ==
    ASSUME SystemTimeInv, ~terminated,
           NEW s \in WholeSecs \cup {-x : x \in WholeSecs}, FromUnix(s)
    PROVE  SystemTimeInv'
<1> DEFINE d == [secs |-> AsU64(s), nanos |-> 0]
<1>1. /\ MaxI64 \in Nat /\ NanosPerSec \in Nat \ {0} /\ NanosPerTick \in Nat \ {0}
      /\ EpochTicks \in Nat /\ TwoTo64 = 2 * (MaxI64 + 1)
      /\ s \in -MaxI64 .. MaxI64
  BY SystemTimeAssumption DEF TwoTo64
<1>2. /\ AsU64(s) \in 0 .. TwoTo64 - 1 /\ AsU64(s) \in Nat
      /\ d.secs = AsU64(s) /\ d.nanos = 0 /\ 0 \in 0 .. NanosPerSec
  BY <1>1, Wraps
<1>3. /\ time' = TimeSum(Epoch, d) /\ meant' = s * NanosPerSec /\ sums' = 0
      /\ UNCHANGED <<inTicks, terminated>> /\ inTicks \in BOOLEAN /\ meant' \in Int
  BY <1>1 DEF FromUnix, SystemTimeInv
<1>4. CASE ~inTicks
  <2>1. PosixSum(Epoch, d) = [secs |-> s, nanos |-> 0]
    <3>1. AsI64(AsU64(s)) = s
      <4>1. AsU64(AsU64(s)) = AsU64(s)
        BY <1>1, <1>2, Wraps
      <4>2. AsI64(AsU64(s)) = AsI64(s)
        BY <4>1 DEF AsI64
      <4>3. s \in -(MaxI64 + 1) .. MaxI64
        BY <1>1
      <4> QED
        BY <4>2, <4>3, Wraps
    <3>2. 0 \div NanosPerSec = 0
      BY <1>1, NothingWhole
    <3>3. Epoch = [secs |-> 0, nanos |-> 0]
      BY <1>4 DEF Epoch
    <3>4. PosixSum(Epoch, d) = [secs |-> AsI64(0 + (AsU64(s) + 0) + 0), nanos |-> 0]
      BY <1>1, <3>2, <3>3 DEF PosixSum, Secs
    <3> QED
      BY <1>2, <3>1, <3>4
  <2>2. time' = [secs |-> s, nanos |-> 0]
    BY <1>3, <1>4, <2>1 DEF TimeSum
  <2>3. time' \in PosixTimes
    BY <1>1, <2>2 DEF PosixTimes
  <2>4. Stands(time') = s * NanosPerSec
    <3>1. time'.secs = s /\ time'.nanos = 0
      BY <2>2
    <3>2. s * NanosPerSec \in Int
      BY <1>1
    <3> QED
      BY <1>4, <3>1, <3>2 DEF Stands
  <2> QED
    BY <1>3, <1>4, <2>3, <2>4, FreshInv DEF SystemTimeInv
<1>5. CASE inTicks
  <2>1. Epoch = EpochTicks /\ time' = TickSum(EpochTicks, d) /\ Stands(EpochTicks) = 0
    <3>1. (EpochTicks - EpochTicks) * NanosPerTick = 0
      BY <1>1
    <3>2. Stands(EpochTicks) = (EpochTicks - EpochTicks) * NanosPerTick
      BY <1>1, <1>5, TicksStand
    <3> QED
      BY <1>3, <1>5, <3>1, <3>2 DEF Epoch, TimeSum
  <2>2. Nanos(d) \in Nat /\ 0 \in Int /\ Stands(EpochTicks) <= 0
    BY <1>1, <1>2, <2>1 DEF Nanos
  <2>3. time' \in Nat
    <3>1. PICK q \in Nat, r \in 0 .. NanosPerTick - 1 : Nanos(d) = q * NanosPerTick + r
      BY <1>1, <2>2, Division
    <3> HIDE DEF d
    <3> QED
      BY <1>1, <1>2, <1>5, <2>1, <2>2, <3>1, TickSumRight
  <2>4. ASSUME timeLapse' = "none"
        PROVE  time' >= EpochTicks /\ meant' = Stands(time')
    <3>1. /\ s >= 0
          /\ LapseOf([secs |-> s, nanos |-> 0], meant') = "none"
      BY <1>1, <1>5, <2>4 DEF FromUnix
    <3>2. AsU64(s) = s
      BY <1>1, <3>1, Wraps
    <3>3. Nanos(d) = meant'
      BY <1>1, <1>3, <3>2 DEF Nanos
    <3>4. meant' \in Earliest .. Latest /\ ~(Nanos(d) >= TwoTo64)
      BY <1>5, <3>1, <3>2 DEF LapseOf
    <3>5. Latest \in Int /\ Earliest \in Int
      BY <1>1, <1>5, TicksStand
    <3>6. 0 + Nanos(d) <= Latest /\ Nanos(d) < TwoTo64
      <4> HIDE DEF d
      <4>1. TwoTo64 \in Int /\ Nanos(d) \in Int
        BY <1>1, <2>2
      <4>2. Nanos(d) \in Earliest .. Latest
        BY <3>3, <3>4
      <4>3. Nanos(d) <= Latest /\ 0 + Nanos(d) = Nanos(d)
        BY <3>5, <4>1, <4>2
      <4>4. Nanos(d) < TwoTo64
        BY <3>4, <4>1
      <4> QED
        BY <4>3, <4>4
    <3>7. PICK q \in Nat : Nanos(d) = q * NanosPerTick + 0 /\ q * NanosPerTick \in Nat
      <4>1. NanosPerSec % NanosPerTick = 0
        BY SystemTimeAssumption
      <4>2. PICK c \in Nat, r \in 0 .. NanosPerTick - 1 :
              /\ NanosPerSec \div NanosPerTick = c /\ NanosPerSec % NanosPerTick = r
              /\ NanosPerSec = c * NanosPerTick + r
        BY <1>1, Division
      <4>3. r = 0 /\ c * NanosPerTick \in Nat
        BY <1>1, <4>1, <4>2
      <4>4. NanosPerSec = c * NanosPerTick
        BY <4>2, <4>3
      <4>5. s \in Nat /\ s * c \in Nat /\ (s * c) * NanosPerTick \in Nat
        BY <1>1, <3>1
      <4>6. s * (c * NanosPerTick) = (s * c) * NanosPerTick
        BY <1>1, <4>5
      <4> QED
        BY <1>3, <3>3, <4>4, <4>5, <4>6
    <3>8. time' >= EpochTicks /\ Stands(time') = 0 + q * NanosPerTick
      <4>1. 0 \in 0 .. NanosPerTick - 1
        BY <1>1
      <4> HIDE DEF d
      <4> QED
        BY <1>1, <1>2, <1>5, <2>1, <2>2, <3>6, <3>7, <4>1, TickSumRight
    <3> QED
      BY <3>3, <3>7, <3>8
  <2> QED
    BY <1>3, <1>5, <2>3, <2>4, FreshInv DEF SystemTimeInv
<1> QED
  BY <1>4, <1>5

\* A sum loses less than a tick, unless it lapses.
LEMMA AdvancedInv ==
    ASSUME SystemTimeInv, ~terminated, NEW d \in Durations, Advanced(d)
    PROVE  SystemTimeInv'
<1>1. /\ MaxI64 \in Nat /\ NanosPerSec \in Nat \ {0} /\ NanosPerTick \in Nat \ {0}
      /\ EpochTicks \in Nat /\ TwoTo64 \in Nat \ {0}
      /\ d.secs \in Nat /\ d.nanos \in 0 .. NanosPerSec
  <2>1. /\ d.secs \in WholeSecs \cup {TwoTo64 - 1} /\ d.nanos \in 0 .. NanosPerSec
        /\ TwoTo64 = 2 * (MaxI64 + 1)
    BY DEF Durations, TwoTo64
  <2>2. MaxI64 \in Nat /\ WholeSecs \subseteq 0 .. MaxI64
    BY SystemTimeAssumption
  <2>3. TwoTo64 \in Nat \ {0} /\ TwoTo64 - 1 \in Nat
    BY <2>1, <2>2
  <2>4. d.secs \in Nat
    <3>1. CASE d.secs \in WholeSecs
      <4>1. d.secs \in 0 .. MaxI64
        BY <2>2, <3>1
      <4> QED
        BY <2>2, <4>1
    <3>2. CASE d.secs = TwoTo64 - 1
      BY <2>3, <3>2
    <3> QED
      BY <2>1, <3>1, <3>2
  <2> QED
    BY <2>1, <2>3, <2>4, SystemTimeAssumption
<1>2. /\ Nanos(d) \in Nat /\ meant \in Int /\ sums \in Nat
      /\ meant' = meant + Nanos(d) /\ sums' = sums + 1 /\ time' = TimeSum(time, d)
      /\ UNCHANGED <<inTicks, terminated>> /\ inTicks \in BOOLEAN
  BY <1>1 DEF Advanced, SystemTimeInv, Nanos
<1>3. ASSUME timeLapse' = "none"
      PROVE  /\ timeLapse = "none"
             /\ meant' \in Earliest .. Latest
             /\ ~inTicks => d.nanos # NanosPerSec
             /\ inTicks => ~(Nanos(d) >= TwoTo64)
  <2>1. timeLapse = "none" /\ LapseOf(d, meant') = "none"
    BY <1>3 DEF Advanced
  <2> QED
    BY <2>1 DEF LapseOf
<1>4. CASE ~inTicks
  <2>1. time \in PosixTimes /\ time' = PosixSum(time, d)
    BY <1>2, <1>4 DEF SystemTimeInv, TimeSum
  <2>2. time' \in PosixTimes
    BY <1>1, <1>4, <2>1, PosixSumRight
  <2>3. ASSUME timeLapse' = "none" PROVE meant' - Stands(time') = 0
    <3>1. meant - Stands(time) \in 0 .. 0
      BY <1>3, <1>4, <2>3 DEF SystemTimeInv
    <3>2. Stands(time) \in Int
      BY <1>1, <1>4, <2>1 DEF Stands, PosixTimes
    <3>3. meant' = Stands(time) + Nanos(d)
      BY <1>2, <3>1, <3>2
    <3>4. Stands(time') = Stands(time) + Nanos(d)
      BY <1>1, <1>3, <1>4, <2>1, <2>3, <3>3, PosixSumRight
    <3> QED
      BY <1>2, <3>2, <3>3, <3>4
  <2>4. Stands(time)' = Stands(time')
    BY <1>2 DEF Stands
  <2> QED
    BY <1>2, <1>4, <2>2, <2>3, <2>4 DEF SystemTimeInv
<1>5. CASE inTicks
  <2>1. time \in Nat /\ time' = TickSum(time, d)
    BY <1>2, <1>5 DEF SystemTimeInv, TimeSum
  <2>2. Stands(time) \in Int
    <3>1. (time - EpochTicks) * NanosPerTick \in Int
      BY <1>1, <2>1
    <3> QED
      BY <1>5, <2>1, <3>1, TicksStand
  <2>3. PICK q \in Nat, r \in 0 .. NanosPerTick - 1 :
          Nanos(d) = q * NanosPerTick + r /\ q * NanosPerTick \in Nat
    <3>1. PICK q \in Nat, r \in 0 .. NanosPerTick - 1 : Nanos(d) = q * NanosPerTick + r
      BY <1>1, <1>2, Division
    <3> QED
      BY <1>1, <3>1
  <2>4. time' \in Nat
    BY <1>1, <1>5, <2>1, <2>2, <2>3, TickSumRight
  <2>5. ASSUME timeLapse' = "none"
        PROVE  /\ time' >= EpochTicks
               /\ meant' - Stands(time') \in 0 .. sums' * (NanosPerTick - 1)
    <3>1. /\ meant - Stands(time) \in 0 .. sums * (NanosPerTick - 1)
          /\ time >= EpochTicks
      BY <1>3, <1>5, <2>5 DEF SystemTimeInv
    <3>2. sums * (NanosPerTick - 1) \in Int
      BY <1>1, <1>2
    <3>3. Stands(time) <= meant
      BY <1>2, <2>2, <3>1, <3>2
    <3>4. meant + Nanos(d) <= Latest /\ Nanos(d) < TwoTo64
      <4>1. Latest \in Int /\ Earliest \in Int
        BY <1>1, <1>5, TicksStand
      <4>2. meant' \in Earliest .. Latest /\ ~(Nanos(d) >= TwoTo64)
        BY <1>3, <1>5, <2>5
      <4> QED
        BY <1>1, <1>2, <4>1, <4>2
    <3>5. time' >= time /\ Stands(time') = Stands(time) + q * NanosPerTick
      <4>1. Nanos(d) = q * NanosPerTick + r
        BY <2>3
      <4>2. /\ TickSum(time, d) >= time
            /\ Stands(TickSum(time, d)) = Stands(time) + q * NanosPerTick
        BY <1>1, <1>2, <1>5, <2>1, <3>3, <3>4, <4>1, TickSumRight
      <4> QED
        BY <2>1, <4>2
    <3>6. meant' - Stands(time') = meant - Stands(time) + r
      BY <1>1, <1>2, <2>2, <2>3, <3>5
    <3>7. sums' * (NanosPerTick - 1) = sums * (NanosPerTick - 1) + (NanosPerTick - 1)
      BY <1>1, <1>2
    <3>8. meant' - Stands(time') \in 0 .. sums' * (NanosPerTick - 1)
      BY <1>1, <1>2, <2>2, <3>1, <3>2, <3>6, <3>7
    <3> QED
      BY <1>1, <2>1, <2>4, <3>1, <3>5, <3>8
  <2>6. Stands(time)' = Stands(time')
    BY <1>2 DEF Stands
  <2> QED
    BY <1>2, <1>5, <2>4, <2>5, <2>6 DEF SystemTimeInv
<1> QED
  BY <1>4, <1>5

\* Only what is not after the epoch, or beyond 2^63 ticks, is refused.
LEMMA ToTimeTInv ==
    ASSUME SystemTimeInv, ~terminated, ToTimeT
    PROVE  SystemTimeInv'
<1>1. /\ MaxI64 \in Nat /\ NanosPerSec \in Nat \ {0} /\ NanosPerTick \in Nat \ {0}
      /\ EpochTicks \in Nat
  BY SystemTimeAssumption
<1>2. UNCHANGED <<inTicks, time, meant, sums, timeLapse>> /\ Stands(time)' = Stands(time)
  BY DEF ToTimeT, Stands
<1>3. terminated' \in BOOLEAN /\ (terminated' => Since(time, Epoch) = NoDuration)
  BY DEF ToTimeT
<1>4. ASSUME timeLapse = "none", Since(time, Epoch) = NoDuration
      PROVE  meant < 0 \/ (inTicks /\ meant > MaxI64 * NanosPerTick)
  <2>1. meant \in Int
    BY DEF SystemTimeInv
  <2>2. CASE ~inTicks
    <3>1. /\ time \in PosixTimes /\ Epoch = [secs |-> 0, nanos |-> 0]
          /\ PosixSince(time, Epoch) = NoDuration
      BY <1>4, <2>2 DEF SystemTimeInv, Epoch, Since
    <3>2. time.secs \in -(MaxI64 + 1) .. MaxI64 /\ time.nanos \in 0 .. NanosPerSec - 1
      BY <3>1 DEF PosixTimes
    <3>3. AsI64(time.secs - 0) = time.secs
      <4>1. time.secs - 0 = time.secs
        BY <1>1, <3>2
      <4> QED
        BY <1>1, <3>2, <4>1, Wraps
    <3>4. time.secs < 0
      <4> SUFFICES ASSUME ~(time.secs < 0) PROVE PosixSince(time, Epoch).secs # -1
        BY <3>1 DEF NoDuration
      <4>1. ~(time.nanos < 0) /\ time.secs - 0 \in Nat
        BY <1>1, <3>2
      <4>2. PosixSince(time, Epoch).secs = time.secs - 0
        BY <1>1, <3>1, <3>2, <3>3, <4>1 DEF PosixSince
      <4> QED
        BY <4>1, <4>2
    <3>5. time.secs * NanosPerSec + time.nanos < 0 * NanosPerSec + 0
      <4>1. time.secs \in Int /\ 0 \in 0 .. NanosPerSec - 1
        BY <1>1, <3>2
      <4> QED
        BY <1>1, <3>2, <3>4, <4>1, Lexical
    <3>6. meant - Stands(time) \in 0 .. 0
      BY <1>4, <2>2 DEF SystemTimeInv
    <3>7. Stands(time) = time.secs * NanosPerSec + time.nanos /\ Stands(time) \in Int
      BY <1>1, <2>2, <3>2 DEF Stands
    <3> QED
      BY <1>1, <2>1, <3>5, <3>6, <3>7
  <2>3. CASE inTicks
    <3>1. /\ time \in Nat /\ time >= EpochTicks /\ Epoch = EpochTicks
          /\ TickSince(time, EpochTicks) = NoDuration
          /\ meant - Stands(time) \in 0 .. sums * (NanosPerTick - 1) /\ sums \in Nat
      BY <1>4, <2>3 DEF SystemTimeInv, Epoch, Since
    <3>2. ~(time - EpochTicks \in 0 .. MaxI64)
      <4> SUFFICES ASSUME time - EpochTicks \in 0 .. MaxI64
                   PROVE  TickSince(time, EpochTicks).secs # -1
        BY <3>1 DEF NoDuration
      <4>1. AsI64(time - EpochTicks) = time - EpochTicks
        BY <1>1, <3>1, Wraps
      <4>2. PICK x \in Nat : x = (time - EpochTicks) * NanosPerTick
        BY <1>1
      <4>3. TickSince(time, EpochTicks).secs = x \div NanosPerSec
        BY <1>1, <4>1, <4>2 DEF TickSince
      <4>4. x \div NanosPerSec \in Nat
        BY <1>1, Division
      <4> QED
        BY <4>3, <4>4
    <3>3. (time - EpochTicks) * NanosPerTick > MaxI64 * NanosPerTick
      <4>1. time - EpochTicks \in Int /\ MaxI64 < time - EpochTicks
        BY <1>1, <3>1, <3>2
      <4> QED
        BY <1>1, <4>1, Scaled
    <3>4. Stands(time) = (time - EpochTicks) * NanosPerTick /\ Stands(time) \in Int
      BY <1>1, <2>3, <3>1, TicksStand
    <3>5. sums * (NanosPerTick - 1) \in Int /\ MaxI64 * NanosPerTick \in Int
      BY <1>1, <3>1
    <3>6. meant >= Stands(time)
      BY <2>1, <3>1, <3>4, <3>5
    <3> QED
      BY <2>1, <2>3, <3>3, <3>4, <3>5, <3>6
  <2> QED
    BY <2>2, <2>3
<1> QED
  BY <1>2, <1>3, <1>4 DEF SystemTimeInv

\* The wall clock is exact but for its lapses, for integers of every width
\* and clocks of every resolution: sums, distances, order and conversion
\* (SystemTime.cpp, SystemTime.hpp 35-50).
THEOREM SystemTimeCorrect == SystemTimeSpec => []SystemTimeRight
<1>1. SystemTimeInit => SystemTimeInv
  <2> SUFFICES ASSUME SystemTimeInit PROVE SystemTimeInv
    OBVIOUS
  <2>1. /\ MaxI64 \in Nat /\ NanosPerSec \in Nat \ {0} /\ NanosPerTick \in Nat \ {0}
        /\ EpochTicks \in Nat
    BY SystemTimeAssumption
  <2>2. Stands(time) = 0
    <3>1. CASE inTicks
      <4>1. time = EpochTicks /\ (EpochTicks - EpochTicks) * NanosPerTick = 0
        BY <2>1, <3>1 DEF SystemTimeInit, Epoch
      <4> QED
        BY <2>1, <3>1, <4>1, TicksStand
    <3>2. CASE ~inTicks
      <4>1. time.secs = 0 /\ time.nanos = 0
        BY <3>2 DEF SystemTimeInit, Epoch
      <4>2. 0 * NanosPerSec + 0 = 0
        BY <2>1
      <4> QED
        BY <3>2, <4>1, <4>2 DEF Stands
    <3> QED
      BY <3>1, <3>2
  <2>3. time \in (IF inTicks THEN Nat ELSE PosixTimes) /\ (inTicks => time >= EpochTicks)
    <3>1. CASE inTicks
      BY <2>1, <3>1 DEF SystemTimeInit, Epoch
    <3>2. CASE ~inTicks
      <4>1. 0 \in -(MaxI64 + 1) .. MaxI64 /\ 0 \in 0 .. NanosPerSec - 1
        BY <2>1
      <4> QED
        BY <3>2, <4>1 DEF SystemTimeInit, Epoch, PosixTimes
    <3> QED
      BY <3>1, <3>2
  <2>4. meant - Stands(time) \in 0 .. (IF inTicks THEN sums * (NanosPerTick - 1) ELSE 0)
    <3>1. 0 * (NanosPerTick - 1) = 0
      BY <2>1
    <3> QED
      BY <2>2, <3>1 DEF SystemTimeInit
  <2>5. /\ inTicks \in BOOLEAN /\ terminated = FALSE
        /\ meant \in Int /\ sums \in Nat
    BY DEF SystemTimeInit
  <2> QED
    BY <2>3, <2>4, <2>5 DEF SystemTimeInv
<1>2. SystemTimeInv /\ [SystemTimeNext]_systemTimeVars => SystemTimeInv'
  <2> SUFFICES ASSUME SystemTimeInv, [SystemTimeNext]_systemTimeVars PROVE SystemTimeInv'
    OBVIOUS
  <2>1. CASE UNCHANGED systemTimeVars
    BY <2>1 DEF systemTimeVars, SystemTimeInv, Stands
  <2>2. CASE SystemTimeNext
    BY <2>2, ReadClockInv, ToTimeTInv, FromUnixInv, AdvancedInv DEF SystemTimeNext
  <2> QED
    BY <2>1, <2>2
<1>3. SystemTimeInv => SystemTimeRight
  <2> SUFFICES ASSUME SystemTimeInv PROVE SystemTimeRight
    OBVIOUS
  <2>1. ASSUME NEW u \in Readings, Near(time, u)
        PROVE  /\ IF Stands(time) < Stands(u) THEN Since(time, u) = NoDuration
                  ELSE /\ Nanos(Since(time, u)) = Stands(time) - Stands(u)
                       /\ Since(time, u).nanos < NanosPerSec
               /\ Precedes(time, u) <=> Stands(time) < Stands(u)
    <3>1. CASE inTicks
      <4>1. time \in Nat /\ u \in Nat
        BY <3>1, ReadingsTyped DEF SystemTimeInv
      <4>2. Since(time, u) = TickSince(time, u) /\ (Precedes(time, u) <=> time < u)
        BY <3>1 DEF Since, Precedes
      <4> QED
        BY <2>1, <3>1, <4>1, <4>2, TickSinceRight
    <3>2. CASE ~inTicks
      <4>1. time \in PosixTimes /\ u \in PosixTimes /\ u.secs \in 0 .. MaxI64
        BY <3>2, ReadingsTyped DEF SystemTimeInv
      <4>2. /\ Since(time, u) = PosixSince(time, u)
            /\ Precedes(time, u) <=> PosixPrecedes(time, u)
        BY <3>2 DEF Since, Precedes
      <4> QED
        BY <2>1, <3>2, <4>1, <4>2, PosixSinceRight
    <3> QED
      BY <3>1, <3>2
  <2> QED
    BY <2>1 DEF SystemTimeRight, SystemTimeInv
<1> QED
  BY <1>1, <1>2, <1>3, PTL DEF SystemTimeSpec

-----------------------------------------------------------------------------
(* Integers as text.  The digits read so far are worth the value so far;    *)
(* those printed so far and the value left are worth the magnitude.         *)

LOCAL INSTANCE SequencesExt

\* The powers of ten are what their recursive definition says.
LEMMA TensRight ==
    /\ Ten[0] = 1
    /\ \A n \in Nat : Ten[n] \in Nat \ {0} /\ Ten[n + 1] = 10 * Ten[n]
<1> DEFINE step == [p \in Nat |-> 10 * p]
           Is(f) == f = [n \in Nat |-> IF n = 0 THEN 1 ELSE 10 * f[n - 1]]
<1>1. PICK f \in [Nat -> Nat] : f[0] = 1 /\ \A n \in Nat : f[n + 1] = step[f[n]]
  <2> DEFINE X == Nat
             a == 1
  <2>1. step \in [X -> X] /\ a \in X
    OBVIOUS
  <2> HIDE DEF step, X, a
  <2>2. \E f \in [Nat -> X] : f[0] = a /\ \A n \in Nat : f[n + 1] = step[f[n]]
    BY <2>1, RecursionOnNat
  <2> QED
    BY <2>2 DEF X, a
<1>2. Is(f)
  <2>1. ASSUME NEW n \in Nat, n # 0 PROVE f[n] = 10 * f[n - 1]
    <3>1. n - 1 \in Nat /\ n - 1 + 1 = n
      BY <2>1
    <3> QED
      BY <1>1, <3>1
  <2> QED
    BY <1>1, <2>1
<1>3. Is(Ten)
  BY <1>2, Zenon DEF Ten
<1>4. \A n \in Nat : Ten[n] = IF n = 0 THEN 1 ELSE 10 * Ten[n - 1]
  BY <1>3
<1>5. \A n \in Nat : Ten[n + 1] = 10 * Ten[n]
  <2> SUFFICES ASSUME NEW n \in Nat PROVE Ten[n + 1] = 10 * Ten[n]
    OBVIOUS
  <2>1. n + 1 \in Nat /\ n + 1 # 0 /\ n + 1 - 1 = n
    OBVIOUS
  <2> QED
    BY <1>4, <2>1
<1>6. \A n \in Nat : Ten[n] \in Nat \ {0}
  <2> DEFINE S == {n \in Nat : Ten[n] \in Nat \ {0}}
  <2>1. 0 \in S /\ S \in SUBSET Nat
    BY <1>4
  <2>2. \A n \in S : n + 1 \in S
    BY <1>5
  <2> HIDE DEF S
  <2>3. S = Nat
    BY <2>1, <2>2, NatSetInduction
  <2> QED
    BY <2>3 DEF S
<1> QED
  BY <1>4, <1>5, <1>6

\* The sums of the places of t, from the left.
SumsOf(t, u) ==
    /\ u \in [0 .. Len(t) -> Nat] /\ u[0] = 0
    /\ \A i \in 0 .. Len(t) - 1 : u[i + 1] = u[i] + t[i + 1] * Ten[Len(t) - (i + 1)]

Numerals == Seq(0 .. 9)

\* Each place contributes a number.
LEMMA PlaceTyped ==
    ASSUME NEW t \in Numerals, NEW i \in 0 .. Len(t) - 1
    PROVE  t[i + 1] * Ten[Len(t) - (i + 1)] \in Nat
<1>1. Len(t) \in Nat /\ i + 1 \in 1 .. Len(t)
  BY LenProperties DEF Numerals
<1>2. Len(t) - (i + 1) \in Nat /\ t[i + 1] \in 0 .. 9
  BY <1>1, ElementOfSeq DEF Numerals
<1>3. Ten[Len(t) - (i + 1)] \in Nat
  BY <1>2, TensRight
<1> DEFINE a == t[i + 1]
           b == Ten[Len(t) - (i + 1)]
<1>4. a \in Nat /\ b \in Nat
  BY <1>2, <1>3
<1> HIDE DEF a, b
<1>5. a * b \in Nat
  BY <1>4
<1> QED
  BY <1>5 DEF a, b

\* The value of digits is the last of the sums.
LEMMA ValueIsSum ==
    ASSUME NEW t \in Numerals
    PROVE  \E u : SumsOf(t, u) /\ DigitsValue(t) = u[Len(t)]
<1> DEFINE n == Len(t)
           place(i) == t[i] * Ten[n - i]
           Begins(k, u) == u \in [0 .. k -> Nat] /\ u[0] = 0
                           /\ \A i \in 0 .. k - 1 : u[i + 1] = u[i] + place(i + 1)
           S == {k \in 0 .. n : \E u : Begins(k, u)}
           Is(u) == u = [i \in 0 .. n |-> IF i = 0 THEN 0 ELSE u[i - 1] + place(i)]
           v == CHOOSE u : Is(u)
<1>1. n \in Nat
  BY LenProperties DEF Numerals
<1>2. \A i \in 0 .. n - 1 : place(i + 1) \in Nat
  BY PlaceTyped
<1> HIDE DEF place
<1>3. 0 \in S
  <2>1. Begins(0, [i \in 0 .. 0 |-> 0])
    OBVIOUS
  <2>2. 0 \in 0 .. n
    BY <1>1
  <2> HIDE DEF Begins
  <2> QED
    BY <2>1, <2>2
<1>4. ASSUME NEW k \in 0 .. n - 1, k \in S PROVE k + 1 \in S
  <2>1. PICK u : Begins(k, u)
    BY <1>4
  <2> DEFINE w == [i \in 0 .. k + 1 |-> IF i = k + 1 THEN u[k] + place(k + 1) ELSE u[i]]
  <2>2. Begins(k + 1, w)
    BY <1>1, <1>2, <2>1
  <2>3. k + 1 \in 0 .. n
    BY <1>1
  <2> HIDE DEF w, Begins
  <2> QED
    BY <2>2, <2>3
<1> HIDE DEF S
<1>5. 0 .. n \subseteq S
  BY <1>1, <1>3, <1>4, IntervalInduction
<1>6. PICK u : Begins(n, u)
  <2>1. n \in S
    BY <1>1, <1>5
  <2> QED
    BY <2>1 DEF S
<1>7. Is(u)
  <2>1. ASSUME NEW i \in 0 .. n, i # 0 PROVE u[i] = u[i - 1] + place(i)
    <3>1. i - 1 \in 0 .. n - 1 /\ i - 1 + 1 = i
      BY <1>1, <2>1
    <3> QED
      BY <1>6, <3>1
  <2> QED
    BY <1>6, <2>1
<1>8. Is(v)
  BY <1>7, Zenon
<1>9. DigitsValue(t) = v[n]
  BY Zenon DEF DigitsValue, place
<1> HIDE DEF v
<1>10. \A i \in 0 .. n : v[i] = IF i = 0 THEN 0 ELSE v[i - 1] + place(i)
  BY <1>8
<1>11. v[0] = 0 /\ \A i \in 0 .. n - 1 : v[i + 1] = v[i] + place(i + 1)
  <2>1. ASSUME NEW i \in 0 .. n - 1 PROVE v[i + 1] = v[i] + place(i + 1)
    <3>1. i + 1 \in 0 .. n /\ i + 1 # 0 /\ i + 1 - 1 = i
      BY <1>1
    <3> QED
      BY <1>10, <3>1
  <2> QED
    BY <1>1, <1>10, <2>1
<1>12. \A i \in 0 .. n : v[i] \in Nat
  <2> DEFINE T == {i \in 0 .. n : v[i] \in Nat}
  <2>1. 0 \in T
    BY <1>1, <1>11
  <2>2. ASSUME NEW i \in 0 .. n - 1, i \in T PROVE i + 1 \in T
    BY <1>1, <1>2, <1>11, <2>2
  <2> HIDE DEF T
  <2>3. 0 .. n \subseteq T
    BY <1>1, <2>1, <2>2, IntervalInduction
  <2> QED
    BY <2>3 DEF T
<1>13. v \in [0 .. n -> Nat]
  <2>1. v = [i \in 0 .. n |-> v[i]]
    BY <1>8
  <2> QED
    BY <1>12, <2>1
<1>14. SumsOf(t, v)
  BY <1>11, <1>13 DEF SumsOf, place
<1> QED
  BY <1>9, <1>14

\* A value is a number, that of no digits is zero.
LEMMA ValueTyped ==
    /\ \A t \in Numerals : DigitsValue(t) \in Nat
    /\ <<>> \in Numerals /\ DigitsValue(<<>>) = 0
<1>1. ASSUME NEW t \in Numerals PROVE DigitsValue(t) \in Nat /\ (Len(t) = 0 => DigitsValue(t) = 0)
  <2>1. Len(t) \in Nat
    BY LenProperties DEF Numerals
  <2>2. PICK u : SumsOf(t, u) /\ DigitsValue(t) = u[Len(t)]
    BY ValueIsSum
  <2> QED
    BY <2>1, <2>2 DEF SumsOf
<1>2. <<>> \in Numerals /\ Len(<<>>) = 0
  BY EmptySeq DEF Numerals
<1> QED
  BY <1>1, <1>2

\* One more digit to the right.
LEMMA ValueAppended ==
    ASSUME NEW t \in Numerals, NEW d \in 0 .. 9
    PROVE  /\ Append(t, d) \in Numerals
           /\ DigitsValue(Append(t, d)) = 10 * DigitsValue(t) + d
<1> DEFINE n == Len(t)
           s == Append(t, d)
<1>1. n \in Nat
  BY LenProperties DEF Numerals
<1>2. /\ s \in Numerals /\ Len(s) = n + 1 /\ s[n + 1] = d
      /\ \A i \in 1 .. n : s[i] = t[i]
  BY AppendProperties DEF Numerals
<1> HIDE DEF s
<1>3. PICK u : SumsOf(t, u) /\ DigitsValue(t) = u[n]
  BY ValueIsSum
<1>4. PICK w : SumsOf(s, w) /\ DigitsValue(s) = w[n + 1]
  BY <1>2, ValueIsSum
<1>5. ASSUME NEW i \in 0 .. n - 1, w[i] = 10 * u[i] + 0 PROVE w[i + 1] = 10 * u[i + 1] + 0
  <2> DEFINE k == n - (i + 1)
             p == t[i + 1]
             x == Ten[k]
  <2>1. k \in Nat /\ n + 1 - (i + 1) = k + 1 /\ i + 1 \in 1 .. n /\ i \in 0 .. n + 1 - 1
    BY <1>1
  <2>2. p \in 0 .. 9 /\ s[i + 1] = p
    BY <1>2, <2>1, ElementOfSeq DEF Numerals
  <2>3. x \in Nat /\ Ten[k + 1] = 10 * x
    BY <2>1, TensRight
  <2>4. u[i + 1] = u[i] + p * x /\ u[i] \in Nat
    <3>1. u[i + 1] = u[i] + t[i + 1] * Ten[Len(t) - (i + 1)]
      BY <1>3, Zenon DEF SumsOf
    <3>2. u[i] \in Nat
      BY <1>1, <1>3 DEF SumsOf
    <3> QED
      BY <3>1, <3>2
  <2>5. w[i + 1] = w[i] + p * (10 * x)
    BY <1>2, <1>4, <2>1, <2>2, <2>3 DEF SumsOf
  <2> HIDE DEF p, x, k
  <2>6. p * (10 * x) = 10 * (p * x) /\ p * x \in Nat
    BY <2>2, <2>3
  <2> QED
    BY <1>5, <2>4, <2>5, <2>6
<1>6. w[n] = 10 * u[n]
  <2>1. w[0] = 10 * u[0] + 0
    BY <1>1, <1>2, <1>3, <1>4 DEF SumsOf
  <2>3. w[n + 0] = 10 * u[n] + 0
    <3> DEFINE g == [i \in 0 .. n |-> 10 * u[i] + 0]
    <3>1. w[0] = g[0] /\ \A i \in 0 .. n - 1 : w[i] = g[i] => w[i + 1] = g[i + 1]
      BY <1>1, <1>5, <2>1
    <3>2. g[n] = 10 * u[n] + 0 /\ n + 0 = n
      BY <1>1
    <3> HIDE DEF g
    <3>3. w[n] = g[n]
      BY <1>1, <3>1, SameRun
    <3> QED
      BY <3>2, <3>3
  <2>4. u[n] \in Nat /\ n + 0 = n
    BY <1>1, <1>3 DEF SumsOf
  <2> QED
    BY <2>3, <2>4
<1>7. w[n + 1] = w[n] + d
  <2>1. n \in 0 .. n + 1 - 1 /\ n + 1 - (n + 1) = 0
    BY <1>1
  <2>2. w[n + 1] = w[n] + s[n + 1] * Ten[n + 1 - (n + 1)] /\ w[n] \in Nat
    BY <1>1, <1>2, <1>4, <2>1 DEF SumsOf
  <2>3. w[n + 1] = w[n] + d * 1
    BY <1>2, <2>1, <2>2, TensRight
  <2> QED
    BY <2>2, <2>3
<1> QED
  BY <1>2, <1>3, <1>4, <1>6, <1>7 DEF s

\* One more digit to the left.
LEMMA ValuePrepended ==
    ASSUME NEW t \in Numerals, NEW d \in 0 .. 9
    PROVE  /\ <<d>> \o t \in Numerals
           /\ DigitsValue(<<d>> \o t) = d * Ten[Len(t)] + DigitsValue(t)
<1> DEFINE n == Len(t)
           s == <<d>> \o t
           b == d * Ten[n]
<1>1. n \in Nat
  BY LenProperties DEF Numerals
<1>2. /\ s \in Numerals /\ Len(s) = n + 1 /\ s[1] = d
      /\ \A i \in 1 .. n : s[i + 1] = t[i]
  <2>1. <<d>> \in Seq(0 .. 9) /\ Len(<<d>>) = 1 /\ <<d>>[1] = d
    OBVIOUS
  <2>2. /\ s \in Seq(0 .. 9) /\ Len(s) = Len(<<d>>) + Len(t)
        /\ \A i \in 1 .. Len(<<d>>) + Len(t) :
              s[i] = IF i <= Len(<<d>>) THEN <<d>>[i] ELSE t[i - Len(<<d>>)]
    BY <2>1, ConcatProperties DEF Numerals
  <2> HIDE DEF s
  <2>3. /\ 1 \in 1 .. 1 + n /\ 1 <= 1 /\ 1 + n = n + 1
        /\ \A i \in 1 .. n : i + 1 \in 1 .. 1 + n /\ ~(i + 1 <= 1) /\ i + 1 - 1 = i
    BY <1>1
  <2> QED
    BY <2>1, <2>2, <2>3 DEF Numerals
<1> HIDE DEF s
<1>3. PICK u : SumsOf(t, u) /\ DigitsValue(t) = u[n]
  BY ValueIsSum
<1>4. PICK w : SumsOf(s, w) /\ DigitsValue(s) = w[n + 1]
  BY <1>2, ValueIsSum
<1>5. b \in Nat
  <2>1. Ten[n] \in Nat
    BY <1>1, TensRight
  <2> DEFINE x == Ten[n]
  <2> HIDE DEF x
  <2>2. d * x \in Nat
    BY <2>1 DEF x
  <2> QED
    BY <2>2 DEF x
<1>6. w[1] = 1 * u[0] + b
  <2>1. 0 \in 0 .. n + 1 - 1 /\ 0 + 1 = 1 /\ n + 1 - (0 + 1) = n
    BY <1>1
  <2>2. w[0 + 1] = w[0] + s[0 + 1] * Ten[n + 1 - (0 + 1)]
    BY <1>2, <1>4, <2>1 DEF SumsOf
  <2>3. w[1] = 0 + b /\ u[0] = 0
    BY <1>2, <1>3, <1>4, <2>1, <2>2 DEF SumsOf
  <2> QED
    BY <1>5, <2>3
<1> HIDE DEF b
<1>7. ASSUME NEW i \in 0 .. n - 1, w[i + 1] = 1 * u[i] + b
      PROVE  w[i + 1 + 1] = 1 * u[i + 1] + b
  <2> DEFINE y == t[i + 1] * Ten[n - (i + 1)]
  <2>1. /\ i + 1 \in 0 .. n + 1 - 1 /\ n + 1 - (i + 1 + 1) = n - (i + 1)
        /\ i + 1 \in 1 .. n
    BY <1>1
  <2>2. u[i + 1] = u[i] + y /\ u[i] \in Nat /\ y \in Nat
    <3>1. u[i + 1] = u[i] + y
      BY <1>3, Zenon DEF SumsOf
    <3>2. u[i] \in Nat
      BY <1>1, <1>3 DEF SumsOf
    <3>3. y \in Nat
      BY PlaceTyped, Zenon
    <3> QED
      BY <3>1, <3>2, <3>3
  <2>3. w[i + 1 + 1] = w[i + 1] + s[i + 1 + 1] * Ten[n + 1 - (i + 1 + 1)]
    BY <1>2, <1>4, <2>1 DEF SumsOf
  <2>4. w[i + 1 + 1] = w[i + 1] + y
    BY <1>2, <2>1, <2>3
  <2> HIDE DEF y
  <2> QED
    BY <1>5, <1>7, <2>2, <2>4
<1>8. w[n + 1] = 1 * u[n] + b
  <2> DEFINE f == [i \in 0 .. n |-> w[i + 1]]
             g == [i \in 0 .. n |-> 1 * u[i] + b]
  <2>1. f[0] = g[0] /\ \A i \in 0 .. n - 1 : f[i] = g[i] => f[i + 1] = g[i + 1]
    BY <1>1, <1>6, <1>7
  <2>2. f[n] = w[n + 1] /\ g[n] = 1 * u[n] + b
    BY <1>1
  <2> HIDE DEF f, g
  <2>3. f[n] = g[n]
    BY <1>1, <2>1, SameRun
  <2> QED
    BY <2>2, <2>3
<1>9. u[n] \in Nat
  BY <1>1, <1>3 DEF SumsOf
<1> QED
  BY <1>2, <1>3, <1>4, <1>5, <1>8, <1>9 DEF s, b

\* A part of a text that consists of digits.
LEMMA DigitPart ==
    ASSUME NEW t \in Seq(0 .. Junk), NEW a \in 1 .. Len(t) + 1, NEW b \in a - 1 .. Len(t),
           \A i \in a .. b : t[i] \in 0 .. 9
    PROVE  /\ SubSeq(t, a, b) \in Numerals /\ Len(SubSeq(t, a, b)) = b - a + 1
           /\ \A i \in 1 .. b - a + 1 : SubSeq(t, a, b)[i] = t[a + i - 1]
<1>1. Len(t) \in Nat
  BY LenProperties
<1>2. a \in Int /\ b \in Int
  BY <1>1
<1>3. SubSeq(t, a, b) \in Seq(0 .. 9)
  BY <1>2, SubSeqProperties
<1>4. /\ Len(SubSeq(t, a, b)) = b - a + 1
      /\ \A i \in 1 .. b - a + 1 : SubSeq(t, a, b)[i] = t[a + i - 1]
  BY PartOfSequence
<1> QED
  BY <1>3, <1>4 DEF Numerals

\* with one more digit it is worth ten times as much, and the digit.
LEMMA DigitRead ==
    ASSUME NEW t \in Seq(0 .. Junk), NEW a \in 1 .. Len(t) + 1, NEW b \in a .. Len(t),
           \A i \in a .. b : t[i] \in 0 .. 9
    PROVE  DigitsValue(SubSeq(t, a, b)) = 10 * DigitsValue(SubSeq(t, a, b - 1)) + t[b]
<1> DEFINE p == SubSeq(t, a, b - 1)
           q == SubSeq(t, a, b)
           r == Append(p, t[b])
<1>1. Len(t) \in Nat
  BY LenProperties
<1>2. /\ a \in 1 .. Len(t) + 1 /\ b - 1 \in a - 1 .. Len(t) /\ b \in a - 1 .. Len(t)
      /\ a \in Int /\ b \in Int /\ b \in a .. b /\ \A i \in a .. b - 1 : i \in a .. b
  BY <1>1
<1>3. t[b] \in 0 .. 9
  BY <1>2
<1>4. /\ p \in Numerals /\ Len(p) = b - 1 - a + 1
      /\ \A i \in 1 .. b - 1 - a + 1 : p[i] = t[a + i - 1]
  BY <1>2, DigitPart
<1>5. /\ q \in Numerals /\ Len(q) = b - a + 1
      /\ \A i \in 1 .. b - a + 1 : q[i] = t[a + i - 1]
  BY <1>2, DigitPart
<1> HIDE DEF p, q
<1>6. /\ r \in Numerals /\ Len(r) = Len(p) + 1 /\ r[Len(p) + 1] = t[b]
      /\ \A i \in 1 .. Len(p) : r[i] = p[i]
  BY <1>3, <1>4, AppendProperties DEF Numerals
<1> HIDE DEF r
<1>7. q = r
  <2>1. Len(q) = Len(r)
    BY <1>2, <1>4, <1>5, <1>6
  <2>2. ASSUME NEW i \in 1 .. Len(q) PROVE q[i] = r[i]
    <3>1. CASE i = b - a + 1
      <4>1. a + i - 1 = b /\ Len(p) + 1 = i
        BY <1>2, <1>4, <3>1
      <4> QED
        BY <1>5, <1>6, <2>2, <4>1
    <3>2. CASE i # b - a + 1
      <4>1. i \in 1 .. b - 1 - a + 1
        BY <1>2, <1>5, <3>2
      <4> QED
        BY <1>4, <1>5, <1>6, <2>2, <4>1
    <3> QED
      BY <3>1, <3>2
  <2> QED
    BY <1>5, <1>6, <2>1, <2>2, SeqEqual DEF Numerals
<1>8. DigitsValue(r) = 10 * DigitsValue(p) + t[b]
  BY <1>3, <1>4, ValueAppended DEF r
<1> QED
  BY <1>7, <1>8 DEF p, q

\* The first of some digits are not worth more than all.
LEMMA PartIsLess ==
    ASSUME NEW t \in Seq(0 .. Junk), NEW a \in 1 .. Len(t) + 1, NEW b \in a - 1 .. Len(t),
           \A i \in a .. Len(t) : t[i] \in 0 .. 9
    PROVE  DigitsValue(SubSeq(t, a, b)) <= DigitsValue(SubSeq(t, a, Len(t)))
<1> DEFINE l == Len(t)
           W(j) == DigitsValue(SubSeq(t, a, j))
           S == {k \in 0 .. l - b : W(b) <= W(b + k)}
<1>1. l \in Nat /\ a \in Int /\ b \in Int /\ a - 1 <= b /\ b <= l /\ 1 <= a /\ l - b \in Nat
  BY LenProperties
<1>2. ASSUME NEW j \in a - 1 .. l PROVE W(j) \in Nat
  <2>1. \A i \in a .. j : t[i] \in 0 .. 9
    BY <1>1
  <2>2. SubSeq(t, a, j) \in Numerals
    BY <2>1, DigitPart
  <2> QED
    BY <2>2, ValueTyped
<1>3. ASSUME NEW j \in a .. l PROVE W(j) = 10 * W(j - 1) + t[j]
  <2>1. \A i \in a .. j : t[i] \in 0 .. 9
    BY <1>1
  <2> QED
    BY <2>1, DigitRead
<1> HIDE DEF W
<1>4. 0 \in S
  <2>1. b \in a - 1 .. l /\ b + 0 = b
    BY <1>1
  <2>2. W(b) \in Nat
    BY <1>2, <2>1
  <2> QED
    BY <1>1, <2>1, <2>2
<1>5. ASSUME NEW k \in 0 .. l - b - 1, k \in S PROVE k + 1 \in S
  <2>1. /\ b + (k + 1) \in a .. l /\ b + (k + 1) - 1 = b + k /\ k + 1 \in 0 .. l - b
        /\ b + k \in a - 1 .. l /\ b \in a - 1 .. l /\ b + (k + 1) \in a - 1 .. l
    BY <1>1
  <2>2. W(b + (k + 1)) = 10 * W(b + k) + t[b + (k + 1)]
    BY <1>3, <2>1
  <2>3. t[b + (k + 1)] \in 0 .. 9
    BY <2>1
  <2>4. W(b) \in Nat /\ W(b + k) \in Nat /\ W(b) <= W(b + k)
    BY <1>2, <1>5, <2>1
  <2>5. W(b) <= W(b + (k + 1))
    BY <2>2, <2>3, <2>4
  <2> QED
    BY <2>1, <2>5
<1> HIDE DEF S
<1>6. 0 .. l - b \subseteq S
  BY <1>1, <1>4, <1>5, IntervalInduction
<1>7. l - b \in S /\ b + (l - b) = l
  BY <1>1, <1>6
<1>8. W(b) <= W(l)
  BY <1>7 DEF S
<1> QED
  BY <1>8 DEF W

\* The number of signs is the only one of its kind
LEMMA SignsAre ==
    ASSUME NEW t \in Seq(0 .. Junk), NEW n \in 0 .. Len(t),
           n = Len(t) \/ t[n + 1] # Minus, \A i \in 1 .. n : t[i] = Minus
    PROVE  Signs(t) = n
<1>1. Len(t) \in Nat
  BY LenProperties
<1> DEFINE Is(m) == (m = Len(t) \/ t[m + 1] # Minus) /\ \A i \in 1 .. m : t[i] = Minus
<1>2. Is(n)
  OBVIOUS
<1>3. ASSUME NEW m \in 0 .. Len(t), Is(m) PROVE m = n
  <2>1. CASE m < n
    <3>1. m + 1 \in 1 .. n /\ m # Len(t)
      BY <1>1, <2>1
    <3> QED
      BY <1>3, <3>1
  <2>2. CASE n < m
    <3>1. n + 1 \in 1 .. m /\ n # Len(t)
      BY <1>1, <2>2
    <3> QED
      BY <1>3, <3>1
  <2> QED
    BY <1>1, <2>1, <2>2
<1>4. Signs(t) = CHOOSE m \in 0 .. Len(t) : Is(m)
  BY DEF Signs
<1> HIDE DEF Is
<1> QED
  BY <1>2, <1>3, <1>4

\* and there is one.
LEMMA SignsExist ==
    ASSUME NEW t \in Seq(0 .. Junk)
    PROVE  /\ Signs(t) \in 0 .. Len(t)
           /\ Signs(t) = Len(t) \/ t[Signs(t) + 1] # Minus
           /\ \A i \in 1 .. Signs(t) : t[i] = Minus
<1> DEFINE Is(m) == (m = Len(t) \/ t[m + 1] # Minus) /\ \A i \in 1 .. m : t[i] = Minus
           S == {m \in 0 .. Len(t) : \A i \in 1 .. m : t[i] = Minus}
<1>1. Len(t) \in Nat
  BY LenProperties
<1>2. \E m \in 0 .. Len(t) : Is(m)
  <2> SUFFICES ASSUME \A m \in 0 .. Len(t) : ~Is(m) PROVE FALSE
    OBVIOUS
  <2>1. 0 \in S
    BY <1>1
  <2>2. ASSUME NEW m \in 0 .. Len(t) - 1, m \in S PROVE m + 1 \in S
    <3>1. t[m + 1] = Minus
      BY <1>1, <2>2
    <3> QED
      BY <1>1, <2>2, <3>1
  <2> HIDE DEF S
  <2>3. 0 .. Len(t) \subseteq S
    BY <1>1, <2>1, <2>2, IntervalInduction
  <2>4. Len(t) \in S /\ Len(t) \in 0 .. Len(t)
    BY <1>1, <2>3
  <2> QED
    BY <2>4 DEF S
<1>3. Signs(t) = CHOOSE m \in 0 .. Len(t) : Is(m)
  BY DEF Signs
<1>4. Signs(t) \in 0 .. Len(t) /\ Is(Signs(t))
  <2> HIDE DEF Is
  <2> QED
    BY <1>2, <1>3
<1> QED
  BY <1>4

\* A text of signs and digits is read so,
LEMMA ReadAs ==
    ASSUME NEW t \in Seq(0 .. Junk), NEW k \in Kinds, t # <<>>,
           \A i \in Signs(t) + 1 .. Len(t) : t[i] \in 0 .. 9,
           Signs(t) > 0 => k # "unsigned"
    PROVE  /\ Lenient(t, k) /\ Rest(t) \in Numerals
           /\ DigitsValue(Rest(t)) \in Nat
<1> DEFINE s == Signs(t)
<1>1. Len(t) \in Nat /\ s \in 0 .. Len(t)
  BY SignsExist, LenProperties
<1> HIDE DEF s
<1>2. s + 1 \in 1 .. Len(t) + 1 /\ Len(t) \in s + 1 - 1 .. Len(t)
  BY <1>1
<1>3. \A i \in s + 1 .. Len(t) : t[i] \in 0 .. 9
  BY DEF s
<1>4. Rest(t) \in Numerals
  BY <1>2, <1>3, DigitPart DEF Rest, s
<1>5. \A i \in DOMAIN Rest(t) : Rest(t)[i] \in 0 .. 9
  BY <1>4, LenProperties, ElementOfSeq DEF Numerals
<1> QED
  BY <1>4, <1>5, ValueTyped DEF Lenient

\* and one with anything else is not.
LEMMA NotRead ==
    ASSUME NEW t \in Seq(0 .. Junk), NEW k \in Kinds,
           NEW i \in Signs(t) + 1 .. Len(t), t[i] \notin 0 .. 9
    PROVE  ~Lenient(t, k)
<1> DEFINE s == Signs(t)
<1>1. Len(t) \in Nat /\ s \in 0 .. Len(t)
  BY SignsExist, LenProperties
<1> HIDE DEF s
<1>2. i \in s + 1 .. Len(t)
  BY DEF s
<1>3. s + 1 \in 1 .. Len(t) + 1 /\ Len(t) \in s + 1 - 1 .. Len(t)
      /\ i - s \in 1 .. Len(t) - (s + 1) + 1 /\ s + 1 + (i - s) - 1 = i
  BY <1>1, <1>2
<1>4. /\ SubSeq(t, s + 1, Len(t)) \in Seq(0 .. Junk)
      /\ Len(SubSeq(t, s + 1, Len(t))) = Len(t) - (s + 1) + 1
      /\ SubSeq(t, s + 1, Len(t))[i - s] = t[i]
  <2> DEFINE a == s + 1
             b == Len(t)
             r == SubSeq(t, a, b)
  <2>1. a \in 1 .. Len(t) + 1 /\ b \in a - 1 .. Len(t)
    BY <1>3
  <2>2. i - s \in 1 .. b - a + 1 /\ a + (i - s) - 1 = i
    BY <1>3
  <2> HIDE DEF a, b
  <2>3. /\ r \in Seq(0 .. Junk) /\ Len(r) = b - a + 1
        /\ \A j \in 1 .. b - a + 1 : r[j] = t[a + j - 1]
    BY <2>1, PartOfSequence
  <2> HIDE DEF r
  <2>4. r[i - s] = t[i]
    BY <2>2, <2>3
  <2> QED
    BY <2>3, <2>4 DEF r, a, b
<1>5. Rest(t) = SubSeq(t, s + 1, Len(t))
  BY DEF Rest, s
<1>6. i - s \in DOMAIN Rest(t) /\ Rest(t)[i - s] \notin 0 .. 9
  BY <1>3, <1>4, <1>5, LenProperties
<1> QED
  BY <1>6 DEF Lenient

\* Digits, and a sign in front of them, are read as such.
LEMMA DigitText ==
    ASSUME NEW r \in Numerals, r # <<>>
    PROVE  /\ r \in Seq(0 .. Junk) /\ Signs(r) = 0 /\ Rest(r) = r
           /\ <<Minus>> \o r \in Seq(0 .. Junk) /\ <<Minus>> \o r # <<>>
           /\ Signs(<<Minus>> \o r) = 1 /\ Rest(<<Minus>> \o r) = r
<1> DEFINE n == Len(r)
           t == <<Minus>> \o r
           q == SubSeq(t, 2, Len(t))
<1>1. n \in Nat \ {0} /\ \A i \in 1 .. n : r[i] \in 0 .. 9
  <2>1. n \in Nat /\ n # 0
    BY LenProperties, EmptySeq DEF Numerals
  <2>2. \A i \in 1 .. n : r[i] \in 0 .. 9
    BY ElementOfSeq DEF Numerals
  <2> QED
    BY <2>1, <2>2
<1>2. r \in Seq(0 .. Junk)
  <2>1. r \in [1 .. n -> 0 .. 9]
    BY LenProperties DEF Numerals
  <2>2. r \in [1 .. n -> 0 .. Junk]
    BY <2>1 DEF Junk
  <2> QED
    BY <1>1, <2>2, SeqDef
<1>3. Signs(r) = 0
  <2>1. 0 \in 0 .. Len(r) /\ r[0 + 1] # Minus /\ \A i \in 1 .. 0 : r[i] = Minus
    BY <1>1 DEF Minus
  <2> DEFINE m == 0
  <2>2. m \in 0 .. Len(r) /\ r[m + 1] # Minus /\ \A i \in 1 .. m : r[i] = Minus
    BY <2>1
  <2> HIDE DEF m
  <2>3. Signs(r) = m
    BY <1>2, <2>2, SignsAre
  <2> QED
    BY <2>3 DEF m
<1>4. Rest(r) = r
  <2>1. SubSeq(r, 1, Len(r)) = r
    <3> DEFINE p == SubSeq(r, 1, Len(r))
    <3>1. 1 \in Int /\ Len(r) \in Int /\ 1 <= Len(r)
      BY <1>1
    <3>2. \A i \in 1 .. Len(r) : r[i] \in 0 .. 9
      BY <1>1
    <3>3. /\ p \in Seq(0 .. 9) /\ Len(p) = Len(r) - 1 + 1
          /\ \A i \in 1 .. Len(r) - 1 + 1 : p[i] = r[1 + i - 1]
      BY <3>1, <3>2, SubSeqProperties
    <3> HIDE DEF p
    <3>4. Len(p) = Len(r) /\ \A i \in 1 .. Len(p) : p[i] = r[i]
      <4>1. Len(r) - 1 + 1 = Len(r) /\ \A i \in 1 .. Len(r) : 1 + i - 1 = i
        BY <1>1
      <4> QED
        BY <3>3, <4>1
    <3>5. p = r
      BY <3>3, <3>4, SeqEqual DEF Numerals
    <3> QED
      BY <3>5 DEF p
  <2> QED
    BY <1>3, <2>1 DEF Rest
<1>5. /\ t \in Seq(0 .. Junk) /\ Len(t) = n + 1 /\ t[1] = Minus
      /\ \A i \in 1 .. n : t[i + 1] = r[i]
  <2>1. <<Minus>> \in Seq(0 .. Junk) /\ Len(<<Minus>>) = 1 /\ <<Minus>>[1] = Minus
    BY DEF Minus, Junk
  <2>2. /\ t \in Seq(0 .. Junk) /\ Len(t) = Len(<<Minus>>) + Len(r)
        /\ \A i \in 1 .. Len(<<Minus>>) + Len(r) :
              t[i] = IF i <= Len(<<Minus>>) THEN <<Minus>>[i] ELSE r[i - Len(<<Minus>>)]
    BY <1>2, <2>1, ConcatProperties
  <2> HIDE DEF t
  <2>3. /\ 1 \in 1 .. 1 + n /\ 1 <= 1 /\ 1 + n = n + 1
        /\ \A i \in 1 .. n : i + 1 \in 1 .. 1 + n /\ ~(i + 1 <= 1) /\ i + 1 - 1 = i
    BY <1>1
  <2> QED
    BY <2>1, <2>2, <2>3
<1> HIDE DEF t
<1>6. t # <<>>
  BY <1>1, <1>5, EmptySeq
<1>7. Signs(t) = 1
  <2> DEFINE m == 1
  <2>1. m \in 0 .. Len(t) /\ t[m + 1] # Minus /\ \A i \in 1 .. m : t[i] = Minus
    BY <1>1, <1>5 DEF Minus
  <2> HIDE DEF m
  <2>2. Signs(t) = m
    BY <1>5, <2>1, SignsAre
  <2> QED
    BY <2>2 DEF m
<1>8. q = r
  <2> DEFINE a == 2
             b == Len(t)
  <2>1. a \in 1 .. Len(t) + 1 /\ b \in a - 1 .. Len(t) /\ b - a + 1 = n
        /\ (\A i \in a .. b : i - 1 \in 1 .. n /\ i - 1 + 1 = i)
        /\ \A i \in 1 .. n : a + i - 1 = i + 1
    BY <1>1, <1>5
  <2>2. \A i \in a .. b : t[i] \in 0 .. 9
    <3> SUFFICES ASSUME NEW i \in a .. b PROVE t[i] \in 0 .. 9
      OBVIOUS
    <3>1. t[i - 1 + 1] \in 0 .. 9
      BY <1>1, <1>5, <2>1
    <3> QED
      BY <2>1, <3>1
  <2> HIDE DEF a, b
  <2> DEFINE p == SubSeq(t, a, b)
  <2>3. /\ p \in Numerals /\ Len(p) = b - a + 1
        /\ \A i \in 1 .. b - a + 1 : p[i] = t[a + i - 1]
    BY <1>5, <2>1, <2>2, DigitPart
  <2> HIDE DEF p
  <2>4. Len(p) = Len(r) /\ \A i \in 1 .. Len(p) : p[i] = r[i]
    BY <1>5, <2>1, <2>3
  <2>5. p = r
    BY <2>3, <2>4, SeqEqual DEF Numerals
  <2> QED
    BY <2>5 DEF p, a, b
<1>9. Rest(t) = r
  <2>1. Rest(t) = SubSeq(t, 1 + 1, Len(t))
    BY <1>7 DEF Rest
  <2> QED
    BY <1>8, <2>1
<1> QED
  BY <1>2, <1>3, <1>4, <1>5, <1>6, <1>7, <1>9 DEF t

\* A text that is digits without zeros in front, perhaps after a sign, is
\* canonical and denotes their value.
LEMMA CanonicalText ==
    ASSUME NEW r \in Numerals, r # <<>>, r[1] # 0, NEW k \in Kinds
    PROVE  /\ r \in Seq(0 .. Junk) /\ Canonical(r) /\ Lenient(r, k)
           /\ Denotes(r) = DigitsValue(r)
           /\ <<Minus>> \o r \in Seq(0 .. Junk) /\ Canonical(<<Minus>> \o r)
           /\ k # "unsigned" => Lenient(<<Minus>> \o r, k)
           /\ Denotes(<<Minus>> \o r) = -DigitsValue(r)
<1> DEFINE t == <<Minus>> \o r
<1>1. /\ r \in Seq(0 .. Junk) /\ Signs(r) = 0 /\ Rest(r) = r
      /\ t \in Seq(0 .. Junk) /\ t # <<>> /\ Signs(t) = 1 /\ Rest(t) = r
  BY DigitText
<1> HIDE DEF t
<1>2. \A i \in DOMAIN r : r[i] \in 0 .. 9
  BY LenProperties, ElementOfSeq DEF Numerals
<1> QED
  BY <1>1, <1>2 DEF t, Canonical, Lenient, Denotes

\* So are the texts of the smallest values.
LEMMA MinTextRight ==
    ASSUME NEW k \in Kinds, k # "unsigned"
    PROVE  /\ MinText(k) \in Seq(0 .. Junk) /\ MinText(k) # <<>> /\ MinText(k)[1] = Minus
           /\ Canonical(MinText(k)) /\ Lenient(MinText(k), k)
           /\ Denotes(MinText(k)) = IF k = "wide" THEN 2 * MinOfKind(k) ELSE MinOfKind(k)
<1> DEFINE r == IF k = "wide" THEN WideDigits ELSE SmallestDigits
           t == <<Minus>> \o r
<1>1. /\ r \in Numerals /\ r # <<>> /\ r[1] # 0 /\ MaxSigned \in Nat
      /\ DigitsValue(r) = IF k = "wide" THEN 2 * (MaxSigned + 1) ELSE MaxSigned + 1
  BY IntegerTextAssumption DEF Numerals
<1>2. t = MinText(k)
  BY DEF MinText
<1> HIDE DEF r
<1>3. /\ t \in Seq(0 .. Junk) /\ Canonical(t) /\ Lenient(t, k) /\ Denotes(t) = -DigitsValue(r)
  BY <1>1, CanonicalText
<1>4. t # <<>> /\ t[1] = Minus
  <2>1. t # <<>>
    BY <1>1, DigitText
  <2>2. <<Minus>> \in Seq({Minus}) /\ Len(<<Minus>>) = 1 /\ <<Minus>>[1] = Minus
    OBVIOUS
  <2>3. Signs(t) = 1
    BY <1>1, DigitText
  <2>4. \A i \in 1 .. Signs(t) : t[i] = Minus
    BY <1>3, SignsExist
  <2> QED
    BY <2>1, <2>3, <2>4
<1> HIDE DEF t
<1>5. Denotes(t) = IF k = "wide" THEN 2 * MinOfKind(k) ELSE MinOfKind(k)
  BY <1>1, <1>3 DEF MinOfKind
<1> QED
  BY <1>2, <1>3, <1>4, <1>5

IntegerTextSpec == IntegerTextInit /\ [][IntegerTextNext]_conv

\* A number of the kind k is printed as the text t.
PrintedAs(k, t, v) ==
    /\ v \in MinOfKind(k) .. MaxOfKind(k)
    /\ IF v = MinOfKind(k) /\ k = "char" THEN t = <<Minus>>
       ELSE /\ Canonical(t) /\ Lenient(t, k)
            /\ Denotes(t) = IF v = MinOfKind(k) /\ k = "wide" THEN 2 * v ELSE v
            /\ v = MinOfKind(k) /\ k # "unsigned" => t = MinText(k)

\* How far a parse has read: signs, then digits, whose value it has.
ReadSoFar(c) ==
    LET s == c.pos - 1 - c.digits
    IN  /\ c.pos <= Len(c.text) + 1 /\ c.digits < c.pos
        /\ \A i \in 1 .. s : c.text[i] = Minus
        /\ \A i \in s + 1 .. c.pos - 1 : c.text[i] \in 0 .. 9
        /\ c.neg <=> s > 0
        /\ c.neg => c.kind # "unsigned"
        /\ c.pos > 1 /\ c.kind # "unsigned" => c.text # MinText(c.kind)
        /\ c.value = DigitsValue(SubSeq(c.text, s + 1, c.pos - 1))
        /\ c.value <= MaxOfKind(c.kind)

\* A text that is done with was read as what it denotes, or as the smallest
\* value; one that is refused is neither.
TextRead(c) ==
    \/ InReach(c.text, c.kind) /\ c.value = Denotes(c.text)
    \/ c.kind # "unsigned" /\ c.text = MinText(c.kind) /\ c.value = MinOfKind(c.kind)

ParseInv(c) ==
    /\ c.stage \in {"running", "done", "refused"}
    /\ \A v \in c.given : PrintedAs(c.kind, c.text, v)
    /\ c.stage = "running" => ReadSoFar(c)
    /\ c.stage = "done" => TextRead(c)
    /\ c.stage = "refused" =>
          /\ ~InReach(c.text, c.kind) /\ (c.kind # "unsigned" => c.text # MinText(c.kind))
          /\ c.given = {}

\* How far a print of v has come: the digits it has are the last of v, and
\* what is left is worth the others.  The smallest signed byte stays as it is.
Magnitude(v) == IF v < 0 THEN -v ELSE v

PrintedSoFar(c, v) ==
    \/ /\ c.kind = "char" /\ v = MinOfKind(c.kind)
       /\ c.value < 0 /\ c.neg /\ c.text = <<>>
    \/ /\ v # 0 /\ (c.kind # "unsigned" => v # MinOfKind(c.kind))
       /\ c.neg <=> v < 0
       /\ c.value \in Nat /\ c.text \in Numerals
       /\ Magnitude(v) = c.value * Ten[Len(c.text)] + DigitsValue(Reverse(c.text))
       /\ c.value = 0 => c.text # <<>> /\ c.text[Len(c.text)] # 0

PrintInv(c, v) ==
    /\ c.stage \in {"start", "digits", "done"}
    /\ c.given = {v} /\ v \in MinOfKind(c.kind) .. MaxOfKind(c.kind)
    /\ c.stage = "start" => c.value = v /\ c.text = <<>> /\ ~c.neg
    /\ c.stage = "digits" => PrintedSoFar(c, v)
    /\ c.stage = "done" => PrintedAs(c.kind, c.text, v)

Conversions ==
    [job : {"parse", "print"}, kind : Kinds, text : Seq(0 .. Junk), pos : Nat \ {0}, value : Int,
     neg : BOOLEAN, digits : Nat, stage : {"running", "start", "digits", "done", "refused"},
     given : SUBSET Int]

ConversionInv(c) ==
    /\ c \in Conversions
    /\ c.job = "parse" => ParseInv(c)
    /\ c.job = "print" => \E v \in Int : PrintInv(c, v)

\* The ranges of the kinds.
LEMMA KindRanges ==
    ASSUME NEW k \in Kinds
    PROVE  /\ MinOfKind(k) \in Int /\ MaxOfKind(k) \in Nat /\ MaxOfKind(k) >= 127
           /\ k = "unsigned" => MinOfKind(k) = 0
           /\ k # "unsigned" => MinOfKind(k) = -MaxOfKind(k) - 1 /\ MaxOfKind(k) = MaxSigned
           /\ MaxSigned \in Nat
BY IntegerTextAssumption DEF MinOfKind, MaxOfKind, Kinds

\* A lone sign is read as zero.
LEMMA LoneSign ==
    ASSUME NEW k \in Kinds, k # "unsigned"
    PROVE  InReach(<<Minus>>, k) /\ <<Minus>> \in Seq(0 .. Junk)
<1> DEFINE t == <<Minus>>
           m == 1
<1>1. t \in Seq(0 .. Junk) /\ Len(t) = 1 /\ t[1] = Minus
  BY DEF Minus, Junk
<1>2. m \in 0 .. Len(t) /\ m = Len(t) /\ (\A i \in 1 .. m : t[i] = Minus) /\ t # <<>>
  BY <1>1
<1> HIDE DEF t, m
<1>3. Signs(t) = m
  BY <1>1, <1>2, SignsAre
<1>4. Signs(t) = 1
  BY <1>3 DEF m
<1>5. SubSeq(t, 2, 1) = <<>>
  BY <1>1
<1>6. Rest(t) = <<>>
  BY <1>1, <1>4, <1>5 DEF Rest
<1>7. Lenient(t, k) /\ Denotes(t) = -DigitsValue(<<>>)
  BY <1>2, <1>4, <1>6 DEF Lenient, Denotes
<1> QED
  BY <1>1, <1>7, KindRanges, ValueTyped DEF InReach, t

\* What is printed is not refused,
LEMMA PrintedAccepted ==
    ASSUME NEW k \in Kinds, NEW t, NEW v \in Int, PrintedAs(k, t, v)
    PROVE  InReach(t, k) \/ (k # "unsigned" /\ t = MinText(k))
<1>1. /\ MinOfKind(k) \in Int /\ MaxOfKind(k) \in Nat
      /\ k = "unsigned" => MinOfKind(k) = 0
      /\ k # "unsigned" => MinOfKind(k) = -MaxOfKind(k) - 1
  BY KindRanges
<1>2. CASE v = MinOfKind(k) /\ k = "char"
  BY <1>2, LoneSign DEF PrintedAs
<1>3. CASE v = MinOfKind(k) /\ k # "char" /\ k # "unsigned"
  BY <1>3 DEF PrintedAs
<1>4. CASE v # MinOfKind(k) \/ k = "unsigned"
  <2>1. Lenient(t, k) /\ Denotes(t) = v /\ v \in MinOfKind(k) .. MaxOfKind(k)
    BY <1>4 DEF PrintedAs
  <2> QED
    BY <1>1, <1>4, <2>1 DEF InReach
<1> QED
  BY <1>2, <1>3, <1>4

\* and read back as what it was.
LEMMA PrintedReadBack ==
    ASSUME NEW c, c.kind \in Kinds, TextRead(c), NEW v \in Int, PrintedAs(c.kind, c.text, v)
    PROVE  c.value = v \/ (c.kind = "char" /\ v = MinOfKind(c.kind))
<1> DEFINE k == c.kind
           t == c.text
<1>1. /\ MinOfKind(k) \in Int /\ MaxOfKind(k) \in Nat
      /\ k = "unsigned" => MinOfKind(k) = 0
      /\ k # "unsigned" => MinOfKind(k) = -MaxOfKind(k) - 1
  BY KindRanges
<1>2. SUFFICES ASSUME ~(k = "char" /\ v = MinOfKind(k)) PROVE c.value = v
  OBVIOUS
<1>3. /\ v \in MinOfKind(k) .. MaxOfKind(k)
      /\ Denotes(t) = IF v = MinOfKind(k) /\ k = "wide" THEN 2 * v ELSE v
  BY <1>2 DEF PrintedAs
<1>4. CASE InReach(t, k) /\ c.value = Denotes(t)
  <2>1. Denotes(t) \in -MaxOfKind(k) .. MaxOfKind(k)
    BY <1>4 DEF InReach
  <2> QED
    BY <1>1, <1>3, <1>4, <2>1
<1>5. CASE k # "unsigned" /\ t = MinText(k) /\ c.value = MinOfKind(k)
  <2>1. Denotes(t) = IF k = "wide" THEN 2 * MinOfKind(k) ELSE MinOfKind(k)
    BY <1>5, MinTextRight
  <2> QED
    BY <1>1, <1>3, <1>5, <2>1
<1> QED
  BY <1>4, <1>5 DEF TextRead

\* The invariant is what the texts need.
LEMMA ConversionTexts == ConversionInv(conv) => TextsRight
<1> SUFFICES ASSUME ConversionInv(conv) PROVE TextsRight
  OBVIOUS
<1>1. conv.kind \in Kinds /\ conv.given \in SUBSET Int
  BY DEF ConversionInv, Conversions
<1>2. ASSUME conv.job = "parse", conv.stage = "done"
      PROVE  /\ TextRead(conv)
             /\ \A v \in conv.given : conv.value = v \/ (conv.kind = "char" /\ v = MinOfKind(conv.kind))
  <2>1. TextRead(conv) /\ \A v \in conv.given : PrintedAs(conv.kind, conv.text, v)
    BY <1>2 DEF ConversionInv, ParseInv
  <2> QED
    BY <1>1, <2>1, PrintedReadBack
<1>3. ASSUME conv.stage = "refused"
      PROVE  /\ ~InReach(conv.text, conv.kind)
             /\ (conv.kind # "unsigned" => conv.text # MinText(conv.kind)) /\ conv.given = {}
  BY <1>3 DEF ConversionInv, ParseInv, PrintInv, Conversions
<1>4. ASSUME conv.job = "print", conv.stage = "done"
      PROVE  \E v \in conv.given :
                IF v = MinOfKind(conv.kind) /\ conv.kind = "char" THEN conv.text = <<Minus>>
                ELSE /\ Canonical(conv.text)
                     /\ Denotes(conv.text)
                           = IF v = MinOfKind(conv.kind) /\ conv.kind = "wide" THEN 2 * v ELSE v
  <2>1. PICK v \in Int : PrintInv(conv, v)
    BY <1>4 DEF ConversionInv
  <2>2. conv.given = {v} /\ PrintedAs(conv.kind, conv.text, v)
    BY <1>4, <2>1 DEF PrintInv
  <2> QED
    BY <2>2 DEF PrintedAs
<1> QED
  BY <1>2, <1>3, <1>4 DEF TextsRight, TextRead

\* A parse begins well.
LEMMA ParseBegins ==
    ASSUME NEW k \in Kinds, NEW t \in Seq(0 .. Junk), NEW g \in SUBSET Int,
           \A v \in g : PrintedAs(k, t, v), NEW c \in Conversions,
           c.job = "parse", c.kind = k, c.text = t, c.pos = 1, c.value = 0,
           c.neg = FALSE, c.digits = 0, c.stage = "running", c.given = g
    PROVE  ConversionInv(c)
<1>1. ReadSoFar(c)
  <2>1. c.pos - 1 - c.digits = 0 /\ c.pos - 1 = 0 /\ c.digits < c.pos
    OBVIOUS
  <2>2. Len(t) \in Nat
    BY LenProperties
  <2>3. SubSeq(t, 0 + 1, 0) = <<>>
    OBVIOUS
  <2>4. c.value = DigitsValue(SubSeq(c.text, 0 + 1, 0))
    BY <2>3, ValueTyped
  <2>5. c.value <= MaxOfKind(c.kind) /\ c.pos <= Len(c.text) + 1
    BY <2>2, KindRanges
  <2> QED
    BY <2>1, <2>4, <2>5 DEF ReadSoFar
<1>2. ParseInv(c)
  BY <1>1 DEF ParseInv
<1> QED
  BY <1>2 DEF ConversionInv

\* Where a running parse stands.
LEMMA RunningParse ==
    ASSUME ConversionInv(conv), Running
    PROVE  /\ conv \in Conversions /\ ParseInv(conv) /\ ReadSoFar(conv)
           /\ Len(conv.text) \in Nat /\ conv.pos \in 1 .. Len(conv.text) + 1
           /\ ~AtEnd => conv.pos \in 1 .. Len(conv.text) /\ Char \in 0 .. Junk
           /\ conv.pos - 1 - conv.digits \in 0 .. conv.pos - 1
           /\ conv.value \in Nat
<1> DEFINE s == conv.pos - 1 - conv.digits
<1>1. conv \in Conversions /\ ParseInv(conv) /\ ReadSoFar(conv)
  BY DEF ConversionInv, ParseInv, Running
<1>2. /\ conv.text \in Seq(0 .. Junk) /\ conv.pos \in Nat \ {0} /\ conv.digits \in Nat
  BY <1>1 DEF Conversions
<1>3. Len(conv.text) \in Nat
  BY <1>2, LenProperties
<1>4. conv.pos <= Len(conv.text) + 1 /\ conv.digits < conv.pos
  BY <1>1 DEF ReadSoFar
<1>5. conv.pos \in 1 .. Len(conv.text) + 1 /\ s \in 0 .. conv.pos - 1
  BY <1>2, <1>3, <1>4
<1>6. ASSUME ~AtEnd PROVE conv.pos \in 1 .. Len(conv.text) /\ Char \in 0 .. Junk
  <2>1. conv.pos \in 1 .. Len(conv.text)
    BY <1>2, <1>3, <1>6 DEF AtEnd
  <2> QED
    BY <1>2, <2>1, ElementOfSeq DEF Char
<1>7. conv.value \in Nat
  <2> DEFINE a == s + 1
             b == conv.pos - 1
  <2>1. a \in 1 .. Len(conv.text) + 1 /\ b \in a - 1 .. Len(conv.text)
    BY <1>3, <1>5
  <2>2. (\A i \in a .. b : conv.text[i] \in 0 .. 9)
        /\ conv.value = DigitsValue(SubSeq(conv.text, a, b))
    BY <1>1 DEF ReadSoFar
  <2> HIDE DEF a, b
  <2>3. SubSeq(conv.text, a, b) \in Numerals
    BY <1>2, <2>1, <2>2, DigitPart
  <2> QED
    BY <2>2, <2>3, ValueTyped
<1> QED
  BY <1>1, <1>3, <1>5, <1>6, <1>7

\* The steps of constexprParse keep the invariant: the smallest value is known,
LEMMA ReadSmallestKeeps ==
    ASSUME ConversionInv(conv), ReadSmallest
    PROVE  ConversionInv(conv')
<1> DEFINE c == [conv EXCEPT !.value = MinOfKind(conv.kind), !.stage = "done"]
<1>1. Running /\ conv' = c /\ conv.kind # "unsigned" /\ conv.text = MinText(conv.kind)
  BY DEF ReadSmallest
<1>2. conv \in Conversions /\ ParseInv(conv)
  BY <1>1, RunningParse
<1>3. MinOfKind(conv.kind) \in Int
  BY <1>2, KindRanges DEF Conversions
<1>4. /\ c \in Conversions /\ c.job = conv.job /\ c.kind = conv.kind /\ c.text = conv.text
      /\ c.value = MinOfKind(c.kind) /\ c.stage = "done" /\ c.given = conv.given
  BY <1>2, <1>3 DEF Conversions
<1> HIDE DEF c
<1>5. TextRead(c)
  BY <1>1, <1>4 DEF TextRead
<1>6. ParseInv(c)
  BY <1>2, <1>4, <1>5 DEF ParseInv
<1> QED
  BY <1>1, <1>4, <1>6 DEF ConversionInv, Running

\* a sign is read,
LEMMA ReadSignKeeps ==
    ASSUME ConversionInv(conv), ReadSign
    PROVE  ConversionInv(conv')
<1> DEFINE c == [conv EXCEPT !.neg = TRUE, !.pos = @ + 1]
           s == conv.pos - 1
<1>1. /\ Running /\ ~AtEnd /\ Char = Minus /\ conv' = c
      /\ conv.kind # "unsigned" /\ conv.text # MinText(conv.kind) /\ conv.digits = 0
  BY DEF ReadSign
<1>2. /\ conv \in Conversions /\ ParseInv(conv) /\ ReadSoFar(conv)
      /\ Len(conv.text) \in Nat /\ conv.pos \in 1 .. Len(conv.text)
  BY <1>1, RunningParse
<1>3. /\ c \in Conversions /\ c.job = conv.job /\ c.kind = conv.kind /\ c.text = conv.text
      /\ c.value = conv.value /\ c.stage = conv.stage /\ c.given = conv.given
      /\ c.pos = conv.pos + 1 /\ c.neg /\ c.digits = 0
  <2>1. conv.pos + 1 \in Nat \ {0} /\ TRUE \in BOOLEAN
    BY <1>2
  <2>2. c \in Conversions
    BY <1>2, <2>1 DEF Conversions
  <2>3. /\ c.job = conv.job /\ c.kind = conv.kind /\ c.text = conv.text
        /\ c.value = conv.value /\ c.stage = conv.stage /\ c.given = conv.given
        /\ c.pos = conv.pos + 1 /\ c.digits = conv.digits
    BY <1>2 DEF Conversions
  <2>4. c.neg = TRUE
    BY <1>2 DEF Conversions
  <2> HIDE DEF c
  <2> QED
    BY <1>1, <2>2, <2>3, <2>4
<1> HIDE DEF c
<1>4. ReadSoFar(c)
  <2>1. /\ conv.pos - 1 - conv.digits = s /\ c.pos - 1 - c.digits = s + 1 /\ c.pos - 1 = s + 1
        /\ s \in Nat /\ s + 1 = conv.pos /\ c.digits < c.pos /\ c.pos <= Len(c.text) + 1
        /\ s + 1 > 0 /\ c.pos > 1
    BY <1>1, <1>2, <1>3
  <2>2. /\ \A i \in 1 .. s : conv.text[i] = Minus
        /\ conv.value = DigitsValue(SubSeq(conv.text, s + 1, conv.pos - 1))
        /\ conv.value <= MaxOfKind(conv.kind)
    BY <1>2, <2>1 DEF ReadSoFar
  <2>3. \A i \in 1 .. s + 1 : c.text[i] = Minus
    <3> SUFFICES ASSUME NEW i \in 1 .. s + 1 PROVE conv.text[i] = Minus
      BY <1>3
    <3>1. i \in 1 .. s \/ i = conv.pos
      BY <2>1
    <3> QED
      BY <1>1, <2>2, <3>1 DEF Char
  <2>4. SubSeq(conv.text, s + 1, s) = <<>> /\ SubSeq(c.text, s + 1 + 1, s + 1) = <<>>
    <3>1. ASSUME NEW n \in Nat, NEW t PROVE SubSeq(t, n + 1, n) = <<>>
      OBVIOUS
    <3> QED
      BY <2>1, <3>1
  <2>5. c.value = DigitsValue(SubSeq(c.text, s + 1 + 1, c.pos - 1))
    BY <1>3, <2>1, <2>2, <2>4
  <2>6. \A i \in s + 1 + 1 .. c.pos - 1 : c.text[i] \in 0 .. 9
    BY <2>1
  <2> QED
    BY <1>1, <1>3, <2>1, <2>2, <2>3, <2>5, <2>6 DEF ReadSoFar
<1>5. ParseInv(c)
  BY <1>1, <1>2, <1>3, <1>4 DEF ParseInv, Running
<1> QED
  BY <1>1, <1>3, <1>5 DEF ConversionInv, Running

\* or a digit,
LEMMA ReadDigitKeeps ==
    ASSUME ConversionInv(conv), ReadDigit
    PROVE  ConversionInv(conv')
<1> DEFINE x == conv.value * 10 + Char
           c == [conv EXCEPT !.value = @ * 10 + Char, !.digits = @ + 1, !.pos = @ + 1]
           s == conv.pos - 1 - conv.digits
           p == conv.pos
           t == conv.text
<1>1. Running /\ ~AtEnd /\ Char \in 0 .. 9 /\ ~TooLarge /\ conv' = c
  BY DEF ReadDigit
<1>2. /\ conv \in Conversions /\ ParseInv(conv) /\ ReadSoFar(conv)
      /\ Len(t) \in Nat /\ p \in 1 .. Len(t)
      /\ s \in 0 .. p - 1 /\ conv.value \in Nat
  BY <1>1, RunningParse
<1>3. /\ t \in Seq(0 .. Junk) /\ conv.digits \in Nat /\ conv.kind \in Kinds
  BY <1>2 DEF Conversions
<1>4. /\ c \in Conversions /\ c.job = conv.job /\ c.kind = conv.kind /\ c.text = t
      /\ c.value = x /\ c.stage = conv.stage /\ c.given = conv.given
      /\ c.pos = p + 1 /\ c.neg = conv.neg /\ c.digits = conv.digits + 1
  <2>1. x \in Int /\ conv.digits + 1 \in Nat /\ p + 1 \in Nat \ {0}
    <3>1. Char \in Int /\ conv.value \in Int /\ p \in Nat
      BY <1>1, <1>2
    <3> QED
      BY <1>3, <3>1
  <2> DEFINE e == [conv EXCEPT !.value = x, !.digits = conv.digits + 1, !.pos = p + 1]
  <2>2. c = e
    OBVIOUS
  <2> HIDE DEF x, c
  <2>3. e \in Conversions
    BY <1>2, <2>1 DEF Conversions
  <2>4. /\ e.job = conv.job /\ e.kind = conv.kind /\ e.text = t
        /\ e.value = x /\ e.stage = conv.stage /\ e.given = conv.given
        /\ e.pos = p + 1 /\ e.digits = conv.digits + 1
    BY <1>2 DEF Conversions
  <2>5. e.neg = conv.neg
    BY <1>2 DEF Conversions
  <2> HIDE DEF e
  <2> QED
    BY <2>2, <2>3, <2>4, <2>5
<1> HIDE DEF c
<1>5. ReadSoFar(c)
  <2>1. /\ c.pos - 1 - c.digits = s /\ c.pos - 1 = p /\ c.digits < c.pos
        /\ c.pos <= Len(c.text) + 1 /\ c.pos > 1
    <3>1. c.pos = p + 1 /\ c.digits = conv.digits + 1 /\ c.text = t
      BY <1>4
    <3>2. p \in Nat /\ conv.digits \in Nat /\ s >= 0 /\ p <= Len(t) /\ p >= 1
      BY <1>2, <1>3
    <3> QED
      BY <1>2, <3>1, <3>2
  <2>2. /\ \A i \in 1 .. s : t[i] = Minus
        /\ \A i \in s + 1 .. p - 1 : t[i] \in 0 .. 9
        /\ conv.neg <=> s > 0
        /\ conv.neg => conv.kind # "unsigned"
        /\ p > 1 /\ conv.kind # "unsigned" => t # MinText(conv.kind)
        /\ conv.value = DigitsValue(SubSeq(t, s + 1, p - 1))
    BY <1>2 DEF ReadSoFar
  <2>3. t[p] \in 0 .. 9 /\ x = 10 * conv.value + t[p]
    BY <1>1, <1>2 DEF Char
  <2>4. \A i \in s + 1 .. p : t[i] \in 0 .. 9
    <3> SUFFICES ASSUME NEW i \in s + 1 .. p PROVE t[i] \in 0 .. 9
      OBVIOUS
    <3>1. i \in s + 1 .. p - 1 \/ i = p
      BY <1>2
    <3> QED
      BY <2>2, <2>3, <3>1
  <2>5. conv.kind # "unsigned" => t # MinText(conv.kind)
    <3>1. CASE p > 1
      BY <2>2, <3>1
    <3>2. CASE p = 1
      <4>1. t[1] # Minus
        BY <2>3, <3>2 DEF Minus
      <4> QED
        BY <1>3, <4>1, MinTextRight
    <3> QED
      BY <1>2, <3>1, <3>2
  <2>6. x <= MaxOfKind(c.kind)
    <3> DEFINE m == MaxOfKind(conv.kind)
               d == Char
    <3>1. m \in Nat /\ d \in 0 .. 9 /\ conv.value \in Nat /\ ~(conv.value > (m - d) \div 10)
      BY <1>1, <1>2, <1>3, KindRanges DEF TooLarge
    <3> HIDE DEF m, d
    <3>2. conv.value * 10 + d <= m
      BY <3>1
    <3> QED
      BY <1>4, <3>2 DEF m, d
  <2>7. x = DigitsValue(SubSeq(t, s + 1, p))
    <3> DEFINE a == s + 1
    <3>1. a \in 1 .. Len(t) + 1 /\ p \in a .. Len(t)
      BY <1>2
    <3> HIDE DEF a, p, t, s
    <3>2. \A i \in a .. p : t[i] \in 0 .. 9
      BY <2>4 DEF a
    <3>3. t \in Seq(0 .. Junk)
      BY <1>3
    <3>4. DigitsValue(SubSeq(t, a, p)) = 10 * DigitsValue(SubSeq(t, a, p - 1)) + t[p]
      BY <3>1, <3>2, <3>3, DigitRead
    <3> QED
      BY <2>2, <2>3, <3>4 DEF a
  <2> HIDE DEF s, p, t, x
  <2> QED
    BY <1>4, <2>1, <2>2, <2>4, <2>5, <2>6, <2>7 DEF ReadSoFar
<1>6. ParseInv(c)
  BY <1>1, <1>2, <1>4, <1>5 DEF ParseInv, Running
<1> QED
  BY <1>1, <1>4, <1>6 DEF ConversionInv, Running

\* Once a digit was read, or what comes next is no sign, all signs are read.
LEMMA SignsRead ==
    ASSUME ConversionInv(conv), Running, ~AtEnd, conv.digits > 0 \/ Char # Minus
    PROVE  Signs(conv.text) = conv.pos - 1 - conv.digits
<1> DEFINE s == conv.pos - 1 - conv.digits
           t == conv.text
<1>1. /\ conv \in Conversions /\ ReadSoFar(conv)
      /\ Len(t) \in Nat /\ conv.pos \in 1 .. Len(t) /\ s \in 0 .. conv.pos - 1
  BY RunningParse
<1>2. t \in Seq(0 .. Junk) /\ conv.digits \in Nat
  BY <1>1 DEF Conversions
<1>3. /\ \A i \in 1 .. s : t[i] = Minus
      /\ \A i \in s + 1 .. conv.pos - 1 : t[i] \in 0 .. 9
  BY <1>1 DEF ReadSoFar
<1>4. t[s + 1] # Minus
  <2>1. CASE conv.digits > 0
    <3>1. s + 1 \in s + 1 .. conv.pos - 1
      BY <1>1, <1>2, <2>1
    <3>2. t[s + 1] \in 0 .. 9
      BY <1>3, <3>1
    <3> QED
      BY <3>2 DEF Minus
  <2>2. CASE conv.digits = 0
    <3>1. s + 1 = conv.pos /\ Char # Minus
      BY <1>1, <2>2
    <3> QED
      BY <3>1 DEF Char
  <2> QED
    BY <1>2, <2>1, <2>2
<1>5. s \in 0 .. Len(t)
  BY <1>1
<1> HIDE DEF s, t
<1>6. Signs(t) = s
  BY <1>2, <1>3, <1>4, <1>5, SignsAre
<1> QED
  BY <1>6 DEF s, t

\* What is refused is not in reach.
LEMMA RefusedRightly ==
    ASSUME ConversionInv(conv), RefuseText
    PROVE  /\ ~InReach(conv.text, conv.kind)
           /\ conv.kind # "unsigned" => conv.text # MinText(conv.kind)
<1> DEFINE s == conv.pos - 1 - conv.digits
           t == conv.text
           k == conv.kind
           p == conv.pos
<1>1. /\ conv \in Conversions /\ ReadSoFar(conv) /\ Running
      /\ Len(t) \in Nat /\ s \in 0 .. p - 1 /\ conv.value \in Nat
      /\ ~AtEnd => p \in 1 .. Len(t) /\ Char \in 0 .. Junk
  BY RunningParse DEF RefuseText
<1>2. t \in Seq(0 .. Junk) /\ conv.digits \in Nat /\ k \in Kinds /\ p \in Nat \ {0}
  BY <1>1 DEF Conversions
<1>3. /\ \A i \in 1 .. s : t[i] = Minus
      /\ \A i \in s + 1 .. p - 1 : t[i] \in 0 .. 9
      /\ conv.neg <=> s > 0
      /\ conv.neg => k # "unsigned"
      /\ p > 1 /\ k # "unsigned" => t # MinText(k)
      /\ conv.value = DigitsValue(SubSeq(t, s + 1, p - 1))
  BY <1>1 DEF ReadSoFar
<1>4. ASSUME ~AtEnd, conv.digits > 0 \/ Char # Minus, Char \notin 0 .. 9
      PROVE  ~Lenient(t, k)
  <2>1. Signs(t) = s
    BY <1>1, <1>4, SignsRead
  <2>2. p \in s + 1 .. Len(t) /\ t[p] \notin 0 .. 9
    BY <1>1, <1>4 DEF Char
  <2> HIDE DEF s, t, k, p
  <2>3. p \in Signs(t) + 1 .. Len(t)
    BY <2>1, <2>2
  <2> QED
    BY <1>2, <2>2, <2>3, NotRead
<1>5. ASSUME ~AtEnd, Char # Minus PROVE k # "unsigned" => t # MinText(k)
  <2>1. CASE p = 1
    <3>1. t[1] # Minus
      BY <1>5, <2>1 DEF Char
    <3> QED
      BY <1>2, <3>1, MinTextRight
  <2> QED
    BY <1>1, <1>3, <1>5, <2>1
<1>6. CASE t = <<>>
  BY <1>2, <1>6, MinTextRight DEF InReach, Lenient
<1>7. CASE ~AtEnd /\ Char = Minus /\ k = "unsigned"
  <2>1. CASE conv.digits > 0
    <3>1. Char \notin 0 .. 9
      BY <1>7 DEF Minus
    <3> QED
      BY <1>4, <1>7, <2>1, <3>1 DEF InReach
  <2>2. CASE conv.digits = 0
    <3>1. s = 0 /\ p = 1 /\ Len(t) # 0
      <4>1. ~(s > 0)
        <5> HIDE DEF s
        <5> QED
          BY <1>3, <1>7
      <4>2. s = p - 1 /\ p \in 1 .. Len(t) /\ s >= 0
        BY <1>1, <1>2, <1>7, <2>2
      <4> QED
        BY <1>1, <4>1, <4>2
    <3>2. t[0 + 1] = Minus
      BY <1>7, <3>1 DEF Char
    <3>3. Signs(t) \in 0 .. Len(t) /\ Signs(t) # 0
      BY <1>2, <3>1, <3>2, SignsExist
    <3> QED
      BY <1>1, <1>7, <3>3 DEF InReach, Lenient
  <2> QED
    BY <1>2, <2>1, <2>2
<1>8. CASE ~AtEnd /\ Char = Minus /\ t # MinText(k) /\ conv.digits > 0
  <2>1. Char \notin 0 .. 9
    BY <1>8 DEF Minus
  <2> QED
    BY <1>4, <1>8, <2>1 DEF InReach
<1>9. CASE ~AtEnd /\ Char = Junk
  <2>1. Char \notin 0 .. 9 /\ Char # Minus
    BY <1>9 DEF Minus, Junk
  <2> QED
    BY <1>4, <1>5, <1>9, <2>1 DEF InReach
<1>10. CASE ~AtEnd /\ Char \in 0 .. 9 /\ TooLarge
  <2>1. Char # Minus
    BY <1>10 DEF Minus
  <2>2. Signs(t) = s
    BY <1>1, <1>10, <2>1, SignsRead
  <2>3. SUFFICES ASSUME InReach(t, k) PROVE FALSE
    BY <1>5, <1>10, <2>1
  <2>4. p \in 1 .. Len(t) /\ t[p] \in 0 .. 9 /\ t[p] = Char
    BY <1>1, <1>10 DEF Char
  <2> DEFINE a == s + 1
             l == Len(t)
             all == DigitsValue(SubSeq(t, a, l))
             now == DigitsValue(SubSeq(t, a, p))
  <2>5. /\ a \in 1 .. Len(t) + 1 /\ l \in a - 1 .. Len(t) /\ p \in a - 1 .. Len(t)
        /\ p \in a .. Len(t) /\ a = Signs(t) + 1
    BY <1>1, <2>2, <2>4
  <2>6. \A i \in a .. l : t[i] \in 0 .. 9
    <3> SUFFICES ASSUME NEW i \in a .. l, t[i] \notin 0 .. 9 PROVE FALSE
      OBVIOUS
    <3>1. i \in Signs(t) + 1 .. Len(t)
      BY <2>2
    <3> HIDE DEF s, t, k, p
    <3> QED
      BY <1>2, <2>3, <3>1, NotRead DEF InReach
  <2>7. now <= all
    <3> HIDE DEF a, p, t
    <3> QED
      BY <1>2, <2>5, <2>6, PartIsLess
  <2>8. now = 10 * conv.value + t[p]
    <3>1. \A i \in a .. p : t[i] \in 0 .. 9
      BY <2>4, <2>6
    <3> HIDE DEF a, p, t
    <3>2. now = 10 * DigitsValue(SubSeq(t, a, p - 1)) + t[p]
      BY <1>2, <2>5, <3>1, DigitRead
    <3> QED
      BY <1>3, <3>2 DEF a, p, t
  <2>9. 10 * conv.value + t[p] > MaxOfKind(k)
    <3> DEFINE m == MaxOfKind(k)
               d == Char
    <3>1. m \in Nat /\ d \in 0 .. 9 /\ conv.value \in Nat /\ conv.value > (m - d) \div 10
      BY <1>1, <1>2, <1>10, KindRanges DEF TooLarge
    <3> HIDE DEF m, d
    <3>2. 10 * conv.value + d > m
      BY <3>1
    <3> QED
      BY <2>4, <3>2 DEF m, d
  <2>10. all \in Nat /\ now \in Int /\ MaxOfKind(k) \in Nat
    <3> HIDE DEF a, l, p, t
    <3>1. SubSeq(t, a, l) \in Numerals
      BY <1>2, <2>5, <2>6, DigitPart
    <3>2. all \in Nat
      BY <3>1, ValueTyped
    <3>3. t[p] \in Int /\ conv.value \in Int
      BY <1>1, <2>4
    <3>4. now \in Int
      BY <2>8, <3>3
    <3> QED
      BY <1>2, <3>2, <3>4, KindRanges
  <2>11. Denotes(t) = all \/ Denotes(t) = -all
    BY <2>2 DEF Denotes, Rest
  <2>12. Denotes(t) \in -MaxOfKind(k) .. MaxOfKind(k)
    BY <2>3 DEF InReach
  <2> HIDE DEF all, now, k
  <2> QED
    BY <2>7, <2>8, <2>9, <2>10, <2>11, <2>12
<1> QED
  BY <1>6, <1>7, <1>8, <1>9, <1>10 DEF RefuseText

\* or the text is refused,
LEMMA RefuseTextKeeps ==
    ASSUME ConversionInv(conv), RefuseText
    PROVE  ConversionInv(conv')
<1> DEFINE c == [conv EXCEPT !.stage = "refused"]
<1>1. Running /\ conv' = c
  BY DEF RefuseText
<1>2. conv \in Conversions /\ ParseInv(conv)
  BY <1>1, RunningParse
<1>3. /\ c \in Conversions /\ c.job = conv.job /\ c.kind = conv.kind /\ c.text = conv.text
      /\ c.stage = "refused" /\ c.given = conv.given
  BY <1>2 DEF Conversions
<1> HIDE DEF c
<1>4. /\ ~InReach(conv.text, conv.kind)
      /\ conv.kind # "unsigned" => conv.text # MinText(conv.kind)
  BY RefusedRightly
<1>5. conv.given = {}
  <2> SUFFICES ASSUME NEW v \in conv.given PROVE FALSE
    OBVIOUS
  <2>1. v \in Int /\ conv.kind \in Kinds /\ PrintedAs(conv.kind, conv.text, v)
    BY <1>2 DEF ParseInv, Conversions
  <2> QED
    BY <1>4, <2>1, PrintedAccepted
<1>6. ParseInv(c)
  BY <1>2, <1>3, <1>4, <1>5 DEF ParseInv
<1> QED
  BY <1>1, <1>3, <1>6 DEF ConversionInv, Running

\* or read to its end.
LEMMA ReadAllKeeps ==
    ASSUME ConversionInv(conv), ReadAll
    PROVE  ConversionInv(conv')
<1> DEFINE x == IF conv.neg THEN -conv.value ELSE conv.value
           c == [conv EXCEPT !.value = x, !.stage = "done"]
           s == conv.pos - 1 - conv.digits
           t == conv.text
           k == conv.kind
<1>1. Running /\ AtEnd /\ t # <<>> /\ conv' = c
  BY DEF ReadAll
<1>2. /\ conv \in Conversions /\ ParseInv(conv) /\ ReadSoFar(conv)
      /\ Len(t) \in Nat /\ conv.pos \in 1 .. Len(t) + 1 /\ s \in 0 .. conv.pos - 1
      /\ conv.value \in Nat
  BY <1>1, RunningParse
<1>3. t \in Seq(0 .. Junk) /\ k \in Kinds /\ conv.pos = Len(t) + 1
  BY <1>1, <1>2 DEF AtEnd, Conversions
<1>4. /\ \A i \in 1 .. s : t[i] = Minus
      /\ \A i \in s + 1 .. conv.pos - 1 : t[i] \in 0 .. 9
      /\ conv.neg <=> s > 0
      /\ conv.neg => k # "unsigned"
      /\ conv.value = DigitsValue(SubSeq(t, s + 1, conv.pos - 1))
      /\ conv.value <= MaxOfKind(k)
  BY <1>2 DEF ReadSoFar
<1>5. Signs(t) = s
  <2>1. s \in 0 .. Len(t) /\ (s = Len(t) \/ t[s + 1] # Minus)
    <3>1. CASE s = Len(t)
      BY <1>2, <3>1
    <3>2. CASE s # Len(t)
      <4>1. s + 1 \in s + 1 .. conv.pos - 1 /\ s \in 0 .. Len(t)
        BY <1>2, <1>3, <3>2
      <4>2. t[s + 1] \in 0 .. 9
        BY <1>4, <4>1
      <4> QED
        BY <4>1, <4>2 DEF Minus
    <3> QED
      BY <3>1, <3>2
  <2> HIDE DEF s, t
  <2> QED
    BY <1>3, <1>4, <2>1, SignsAre
<1>6. Lenient(t, k)
  <2>1. \A i \in Signs(t) + 1 .. Len(t) : t[i] \in 0 .. 9
    <3>1. conv.pos - 1 = Len(t)
      BY <1>2, <1>3
    <3> QED
      BY <1>4, <1>5, <3>1
  <2>2. Signs(t) > 0 => k # "unsigned"
    BY <1>4, <1>5
  <2> HIDE DEF s, t, k
  <2> QED
    BY <1>1, <1>3, <2>1, <2>2, ReadAs
<1>7. Denotes(t) = x
  <2>1. conv.pos - 1 = Len(t)
    BY <1>2, <1>3
  <2>2. conv.value = DigitsValue(Rest(t))
    BY <1>4, <1>5, <2>1 DEF Rest
  <2> QED
    BY <1>4, <1>5, <2>2 DEF Denotes
<1>8. x \in Int /\ x \in -MaxOfKind(k) .. MaxOfKind(k)
  BY <1>2, <1>3, <1>4, KindRanges
<1> HIDE DEF x
<1>9. /\ c \in Conversions /\ c.job = conv.job /\ c.kind = k /\ c.text = t
      /\ c.value = x /\ c.stage = "done" /\ c.given = conv.given
  BY <1>2, <1>8 DEF Conversions
<1> HIDE DEF c, t, k, s
<1>10. TextRead(c)
  BY <1>6, <1>7, <1>8, <1>9 DEF TextRead, InReach
<1>11. ParseInv(c)
  BY <1>2, <1>9, <1>10 DEF ParseInv, t, k
<1> QED
  BY <1>1, <1>9, <1>11 DEF ConversionInv, Running

\* A text that is reversed, and one with another character.
LEMMA ReverseTyped ==
    ASSUME NEW S, NEW t \in Seq(S)
    PROVE  /\ Reverse(t) \in Seq(S) /\ Len(Reverse(t)) = Len(t)
           /\ \A i \in 1 .. Len(t) : Reverse(t)[i] = t[Len(t) - i + 1]
<1> DEFINE r == Reverse(t)
<1>1. Len(t) \in Nat
  BY LenProperties
<1>2. r = [i \in 1 .. Len(t) |-> t[Len(t) - i + 1]]
  BY DEF Reverse
<1>3. \A i \in 1 .. Len(t) : t[Len(t) - i + 1] \in S
  <2> SUFFICES ASSUME NEW i \in 1 .. Len(t) PROVE t[Len(t) - i + 1] \in S
    OBVIOUS
  <2>1. Len(t) - i + 1 \in 1 .. Len(t)
    BY <1>1
  <2> QED
    BY <2>1, ElementOfSeq
<1>4. r \in [1 .. Len(t) -> S]
  BY <1>2, <1>3
<1>5. r \in Seq(S)
  BY <1>1, <1>4, SeqDef
<1>6. Len(r) = Len(t)
  <2>1. DOMAIN r = 1 .. Len(t) /\ DOMAIN r = 1 .. Len(r) /\ Len(r) \in Nat
    BY <1>4, <1>5, LenProperties
  <2> QED
    BY <1>1, <2>1
<1> QED
  BY <1>2, <1>5, <1>6

LEMMA ReverseAppended ==
    ASSUME NEW S, NEW t \in Seq(S), NEW x \in S
    PROVE  Reverse(Append(t, x)) = <<x>> \o Reverse(t)
<1> DEFINE n == Len(t)
           a == Append(t, x)
           r == Reverse(a)
           q == Reverse(t)
           w == <<x>> \o q
<1>1. n \in Nat
  BY LenProperties
<1>2. /\ a \in Seq(S) /\ Len(a) = n + 1 /\ a[n + 1] = x /\ \A i \in 1 .. n : a[i] = t[i]
  BY AppendProperties
<1> HIDE DEF a
<1>3. /\ r \in Seq(S) /\ Len(r) = n + 1
      /\ \A i \in 1 .. n + 1 : r[i] = a[n + 1 - i + 1]
  BY <1>2, ReverseTyped
<1>4. /\ q \in Seq(S) /\ Len(q) = n /\ \A i \in 1 .. n : q[i] = t[n - i + 1]
  BY ReverseTyped
<1> HIDE DEF r, q
<1>5. /\ w \in Seq(S) /\ Len(w) = n + 1 /\ w[1] = x /\ \A i \in 2 .. n + 1 : w[i] = q[i - 1]
  <2>1. <<x>> \in Seq(S) /\ Len(<<x>>) = 1 /\ <<x>>[1] = x
    OBVIOUS
  <2>2. /\ w \in Seq(S) /\ Len(w) = Len(<<x>>) + Len(q)
        /\ \A i \in 1 .. Len(<<x>>) + Len(q) :
              w[i] = IF i <= Len(<<x>>) THEN <<x>>[i] ELSE q[i - Len(<<x>>)]
    BY <1>4, <2>1, ConcatProperties
  <2> HIDE DEF w
  <2> QED
    BY <1>1, <1>4, <2>1, <2>2
<1> HIDE DEF w
<1>6. ASSUME NEW i \in 1 .. n + 1 PROVE r[i] = w[i]
  <2>1. CASE i = 1
    <3>1. n + 1 - i + 1 = n + 1
      BY <1>1, <2>1
    <3> QED
      BY <1>2, <1>3, <1>5, <2>1, <3>1
  <2>2. CASE i # 1
    <3>1. /\ i \in 2 .. n + 1 /\ i - 1 \in 1 .. n /\ n + 1 - i + 1 \in 1 .. n
          /\ n - (i - 1) + 1 = n + 1 - i + 1
      BY <1>1, <2>2
    <3>2. w[i] = t[n + 1 - i + 1]
      BY <1>4, <1>5, <3>1
    <3>3. r[i] = t[n + 1 - i + 1]
      BY <1>2, <1>3, <3>1
    <3> QED
      BY <3>2, <3>3
  <2> QED
    BY <2>1, <2>2
<1>7. r = w
  BY <1>3, <1>5, <1>6, SeqEqual
<1> QED
  BY <1>7 DEF r, w, q, a

\* Where a print stands.
LEMMA RunningPrint ==
    ASSUME ConversionInv(conv), conv.job = "print"
    PROVE  /\ conv \in Conversions /\ conv.kind \in Kinds /\ conv.text \in Seq(0 .. Junk)
           /\ \E v \in Int : PrintInv(conv, v)
BY DEF ConversionInv, Conversions

\* Zero is printed as its digit.
LEMMA ZeroText ==
    ASSUME NEW k \in Kinds
    PROVE  <<0>> \in Seq(0 .. Junk) /\ Canonical(<<0>>) /\ Lenient(<<0>>, k) /\ Denotes(<<0>>) = 0
<1> DEFINE t == <<0>>
<1>1. t \in Numerals /\ DigitsValue(t) = 0 /\ t # <<>>
  <2>1. Append(<<>>, 0) = t /\ t # <<>>
    OBVIOUS
  <2>2. 0 \in 0 .. 9
    OBVIOUS
  <2>3. Append(<<>>, 0) \in Numerals /\ DigitsValue(Append(<<>>, 0)) = 10 * 0 + 0
    BY <2>2, ValueTyped, ValueAppended
  <2> QED
    BY <2>1, <2>3
<1> HIDE DEF t
<1>2. t \in Seq(0 .. Junk) /\ Signs(t) = 0 /\ Rest(t) = t
  BY <1>1, DigitText
<1>3. \A i \in DOMAIN t : t[i] \in 0 .. 9
  BY <1>1, LenProperties, ElementOfSeq DEF Numerals
<1>4. Canonical(t)
  BY <1>1, <1>2 DEF Canonical, t
<1>5. Lenient(t, k) /\ Denotes(t) = 0
  BY <1>1, <1>2, <1>3 DEF Lenient, Denotes
<1> QED
  BY <1>2, <1>4, <1>5 DEF t

\* The negation of a number, in the bits of its type.
LEMMA Negated ==
    ASSUME NEW k \in Kinds, k # "unsigned", NEW v \in MinOfKind(k) .. -1
    PROVE  InBits(k, -v) = IF v = MinOfKind(k) THEN v ELSE -v
<1> DEFINE span == 2 * (MaxSigned + 1)
           x == -v
<1>1. /\ MaxSigned \in Nat /\ MinOfKind(k) = -MaxSigned - 1 /\ MaxOfKind(k) = MaxSigned
  BY KindRanges
<1>2. span \in Nat \ {0} /\ x \in 0 .. span - 1 /\ span = 2 * MaxSigned + 2
  BY <1>1
<1>3. x % span = x
  <2> HIDE DEF span, x
  <2>1. 0 \in Int /\ 0 * span = 0
    BY <1>2
  <2>2. (0 * span + x) % span = x
    BY <1>2, <2>1, Remainder
  <2>3. 0 * span + x = x
    BY <1>2, <2>1
  <2> QED
    BY <2>2, <2>3
<1>4. InBits(k, x) = IF x > MaxOfKind(k) THEN x - span ELSE x
  BY <1>3 DEF InBits
<1> HIDE DEF span
<1>5. InBits(k, x) = IF v = MinOfKind(k) THEN v ELSE -v
  BY <1>1, <1>2, <1>4
<1> QED
  BY <1>5

\* So do those of constexprToString: the sign is taken off,
LEMMA PrintSignKeeps ==
    ASSUME ConversionInv(conv), PrintSign
    PROVE  ConversionInv(conv')
<1> DEFINE k == conv.kind
<1>1. conv.job = "print" /\ conv.stage = "start"
  BY DEF PrintSign
<1>2. conv \in Conversions /\ k \in Kinds
  BY <1>1, RunningPrint
<1>3. PICK v \in Int : PrintInv(conv, v)
  BY <1>1, RunningPrint
<1>4. /\ conv.given = {v} /\ v \in MinOfKind(k) .. MaxOfKind(k)
      /\ conv.value = v /\ conv.text = <<>> /\ ~conv.neg
  BY <1>1, <1>3 DEF PrintInv
<1>5. /\ MinOfKind(k) \in Int /\ MaxOfKind(k) \in Nat
      /\ k = "unsigned" => MinOfKind(k) = 0
      /\ k # "unsigned" => MinOfKind(k) = -MaxOfKind(k) - 1
  BY <1>2, KindRanges
<1>6. ASSUME NEW t \in Seq(0 .. Junk), conv' = [conv EXCEPT !.text = t, !.stage = "done"],
             PrintedAs(k, t, v)
      PROVE  ConversionInv(conv')
  <2> DEFINE c == [conv EXCEPT !.text = t, !.stage = "done"]
  <2>1. /\ c \in Conversions /\ c.job = conv.job /\ c.kind = k /\ c.text = t
        /\ c.stage = "done" /\ c.given = conv.given
    BY <1>2 DEF Conversions
  <2> HIDE DEF c, k
  <2>2. PrintInv(c, v)
    BY <1>4, <1>6, <2>1 DEF PrintInv
  <2>3. ConversionInv(c)
    BY <1>1, <2>1, <2>2 DEF ConversionInv
  <2> QED
    BY <1>6, <2>3 DEF c
<1>7. ASSUME NEW c \in Conversions, conv' = c, c.job = "print", c.kind = k, c.stage = "digits",
             c.given = conv.given, PrintedSoFar(c, v)
      PROVE  ConversionInv(conv')
  <2> HIDE DEF k
  <2>1. PrintInv(c, v)
    BY <1>4, <1>7 DEF PrintInv
  <2> QED
    BY <1>7, <2>1 DEF ConversionInv
<1>8. CASE v = MinOfKind(k) /\ k \in {"exact", "wide"}
  <2>1. conv' = [conv EXCEPT !.text = MinText(k), !.stage = "done"]
    BY <1>4, <1>8 DEF PrintSign
  <2>2. MinText(k) \in Seq(0 .. Junk) /\ PrintedAs(k, MinText(k), v)
    BY <1>2, <1>4, <1>8, MinTextRight DEF PrintedAs
  <2> HIDE DEF k
  <2> QED
    BY <1>6, <2>1, <2>2
<1>9. CASE ~(v = MinOfKind(k) /\ k \in {"exact", "wide"}) /\ v = 0
  <2>1. conv' = [conv EXCEPT !.text = <<0>>, !.stage = "done"]
    BY <1>4, <1>9 DEF PrintSign
  <2>2. v = MinOfKind(k) => k = "unsigned"
    BY <1>5, <1>9
  <2>3. <<0>> \in Seq(0 .. Junk) /\ PrintedAs(k, <<0>>, v)
    BY <1>2, <1>4, <1>9, <2>2, ZeroText DEF PrintedAs
  <2> HIDE DEF k
  <2> QED
    BY <1>6, <2>1, <2>3
<1>10. CASE ~(v = MinOfKind(k) /\ k \in {"exact", "wide"}) /\ v > 0
  <2> DEFINE c == [conv EXCEPT !.stage = "digits"]
  <2>1. conv' = c
    BY <1>4, <1>10 DEF PrintSign
  <2>2. /\ c \in Conversions /\ c.job = conv.job /\ c.kind = k /\ c.text = conv.text
        /\ c.value = conv.value /\ c.stage = "digits" /\ c.given = conv.given
    BY <1>2 DEF Conversions
  <2>3. c.neg = conv.neg
    BY <1>2 DEF Conversions
  <2> HIDE DEF c
  <2>4. Reverse(<<>>) = <<>> /\ Len(<<>>) = 0
    <3>1. Len(<<>>) = 0 /\ <<>> \in Seq({})
      BY EmptySeq
    <3>2. Reverse(<<>>) \in Seq({}) /\ Len(Reverse(<<>>)) = 0
      BY <3>1, ReverseTyped
    <3> QED
      BY <3>1, <3>2, EmptySeq
  <2>5. Magnitude(v) = v * Ten[0] + 0
    BY <1>10, TensRight DEF Magnitude
  <2>6. ~(v < 0) /\ v # 0 /\ v \in Nat /\ (k # "unsigned" => v # MinOfKind(k))
    BY <1>5, <1>10
  <2>7. PrintedSoFar(c, v)
    <3>1. Magnitude(v) = c.value * Ten[Len(c.text)] + DigitsValue(Reverse(c.text))
      BY <1>4, <2>2, <2>4, <2>5, ValueTyped
    <3>2. c.neg <=> v < 0
      BY <1>4, <2>3, <2>6
    <3>3. c.value \in Nat /\ c.text \in Numerals /\ c.value # 0
      BY <1>4, <2>2, <2>6, ValueTyped
    <3> QED
      BY <2>2, <2>6, <3>1, <3>2, <3>3 DEF PrintedSoFar
  <2> HIDE DEF k
  <2> QED
    BY <1>1, <1>7, <2>1, <2>2, <2>7
<1>11. CASE ~(v = MinOfKind(k) /\ k \in {"exact", "wide"}) /\ v < 0
  <2> DEFINE x == InBits(k, -v)
             c == [conv EXCEPT !.neg = TRUE, !.value = x, !.stage = "digits"]
  <2>1. conv' = c
    BY <1>4, <1>11 DEF PrintSign
  <2>2. k # "unsigned" /\ v \in MinOfKind(k) .. -1
    BY <1>4, <1>5, <1>11
  <2>3. x = IF v = MinOfKind(k) THEN v ELSE -v
    BY <1>2, <2>2, Negated
  <2> HIDE DEF x
  <2>4. x \in Int /\ TRUE \in BOOLEAN
    BY <2>3
  <2>5. c \in Conversions
    BY <1>2, <2>4 DEF Conversions
  <2>6. /\ c.job = conv.job /\ c.kind = k /\ c.text = conv.text
        /\ c.value = x /\ c.stage = "digits" /\ c.given = conv.given
    BY <1>2 DEF Conversions
  <2>7. c.neg = TRUE
    BY <1>2 DEF Conversions
  <2> HIDE DEF c
  <2>8. PrintedSoFar(c, v)
    <3>1. CASE v = MinOfKind(k)
      <4>1. k = "char" /\ x < 0
        BY <1>2, <1>11, <2>2, <2>3, <3>1 DEF Kinds
      <4> QED
        BY <1>4, <2>6, <2>7, <3>1, <4>1 DEF PrintedSoFar
    <3>2. CASE v # MinOfKind(k)
      <4>1. Reverse(<<>>) = <<>> /\ Len(<<>>) = 0
        <5>1. Len(<<>>) = 0 /\ <<>> \in Seq({})
          BY EmptySeq
        <5>2. Reverse(<<>>) \in Seq({}) /\ Len(Reverse(<<>>)) = 0
          BY <5>1, ReverseTyped
        <5> QED
          BY <5>1, <5>2, EmptySeq
      <4>2. x = -v /\ x \in Nat /\ x # 0 /\ v # 0
        BY <1>11, <2>3, <3>2
      <4>3. Magnitude(v) = x * Ten[0] + 0
        BY <1>11, <4>2, TensRight DEF Magnitude
      <4>4. Magnitude(v) = c.value * Ten[Len(c.text)] + DigitsValue(Reverse(c.text))
        BY <1>4, <2>6, <4>1, <4>3, ValueTyped
      <4>5. c.neg <=> v < 0
        BY <1>11, <2>7
      <4>6. c.value \in Nat /\ c.text \in Numerals /\ c.value # 0
        BY <1>4, <2>6, <4>2, ValueTyped
      <4> QED
        BY <2>6, <3>2, <4>2, <4>4, <4>5, <4>6 DEF PrintedSoFar
    <3> QED
      BY <3>1, <3>2
  <2> HIDE DEF k
  <2> QED
    BY <1>1, <1>7, <2>1, <2>5, <2>6, <2>8
<1> QED
  BY <1>8, <1>9, <1>10, <1>11

\* The last digit of a number and the others.
LEMMA LastDigit ==
    ASSUME NEW v \in Nat, v > 0, NEW p \in Nat
    PROVE  /\ v % 10 \in 0 .. 9 /\ v \div 10 \in Nat
           /\ v \div 10 = 0 => v % 10 # 0
           /\ v * p = (v \div 10) * (10 * p) + (v % 10) * p
<1> DEFINE q == v \div 10
           d == v % 10
<1>1. 10 \in Nat \ {0}
  OBVIOUS
<1>2. d \in 0 .. 10 - 1 /\ q \in Nat /\ v = q * 10 + d
  BY <1>1, Division
<1> HIDE DEF q, d
<1>3. d \in 0 .. 9 /\ (q = 0 => d # 0)
  BY <1>2
<1>4. v * p = q * (10 * p) + d * p
  BY <1>2
<1> QED
  BY <1>2, <1>3, <1>4 DEF q, d

\* the last digit is written,
LEMMA PrintDigitKeeps ==
    ASSUME ConversionInv(conv), PrintDigit
    PROVE  ConversionInv(conv')
<1> DEFINE d == conv.value % 10
           x == conv.value \div 10
           t == conv.text
           w == Append(t, d)
           n == Len(t)
           c == [conv EXCEPT !.text = w, !.value = x]
<1>1. conv.job = "print" /\ conv.stage = "digits" /\ conv.value > 0 /\ conv' = c
  BY DEF PrintDigit
<1>2. conv \in Conversions /\ conv.kind \in Kinds /\ conv.value \in Int /\ t \in Seq(0 .. Junk)
  BY <1>1, RunningPrint DEF Conversions
<1>3. PICK v \in Int : PrintInv(conv, v)
  BY <1>1, RunningPrint
<1>4. conv.given = {v} /\ v \in MinOfKind(conv.kind) .. MaxOfKind(conv.kind)
      /\ PrintedSoFar(conv, v)
  BY <1>1, <1>3 DEF PrintInv
<1>5. /\ v # 0 /\ (conv.kind # "unsigned" => v # MinOfKind(conv.kind))
      /\ conv.neg <=> v < 0
      /\ conv.value \in Nat /\ t \in Numerals
      /\ Magnitude(v) = conv.value * Ten[n] + DigitsValue(Reverse(t))
  <2>1. ~(conv.value < 0)
    BY <1>1, <1>2
  <2> QED
    BY <1>4, <2>1 DEF PrintedSoFar
<1>6. n \in Nat /\ Ten[n] \in Nat /\ Ten[n + 1] = 10 * Ten[n]
  BY <1>5, LenProperties, TensRight DEF Numerals
<1>7. /\ d \in 0 .. 9 /\ x \in Nat /\ (x = 0 => d # 0)
      /\ conv.value * Ten[n] = x * (10 * Ten[n]) + d * Ten[n]
  BY <1>1, <1>5, <1>6, LastDigit
<1> HIDE DEF d, x
<1>8. w \in Numerals /\ w # <<>> /\ Len(w) = n + 1 /\ w[n + 1] = d
  BY <1>5, <1>7, AppendProperties DEF Numerals
<1>9. Reverse(t) \in Numerals /\ Len(Reverse(t)) = n
  BY <1>5, ReverseTyped DEF Numerals
<1>10. DigitsValue(Reverse(w)) = d * Ten[n] + DigitsValue(Reverse(t))
  <2>1. Reverse(w) = <<d>> \o Reverse(t)
    BY <1>5, <1>7, ReverseAppended DEF Numerals
  <2>2. DigitsValue(<<d>> \o Reverse(t)) = d * Ten[Len(Reverse(t))] + DigitsValue(Reverse(t))
    BY <1>7, <1>9, ValuePrepended
  <2> QED
    BY <1>9, <2>1, <2>2
<1>11. Magnitude(v) = x * Ten[n + 1] + DigitsValue(Reverse(w))
  <2> DEFINE a == conv.value * Ten[n]
             b == x * (10 * Ten[n])
             e == d * Ten[n]
             f == DigitsValue(Reverse(t))
  <2>1. a \in Int /\ b \in Int /\ e \in Int /\ f \in Int
    <3>1. DigitsValue(Reverse(t)) \in Nat
      BY <1>9, ValueTyped
    <3> DEFINE p == Ten[n]
    <3>2. p \in Int /\ x \in Int /\ d \in Int /\ conv.value \in Int
      BY <1>2, <1>6, <1>7
    <3> HIDE DEF p
    <3>3. conv.value * p \in Int /\ x * (10 * p) \in Int /\ d * p \in Int
      BY <3>2
    <3> QED
      BY <3>1, <3>3 DEF p
  <2>2. Magnitude(v) = a + f /\ a = b + e /\ DigitsValue(Reverse(w)) = e + f
        /\ x * Ten[n + 1] = b
    BY <1>5, <1>6, <1>7, <1>10
  <2> HIDE DEF a, b, e, f, w, n, t
  <2> QED
    BY <2>1, <2>2
<1>12. w \in Seq(0 .. Junk)
  BY <1>8, DigitText
<1> HIDE DEF w
<1>13. /\ c \in Conversions
       /\ c.job = conv.job /\ c.kind = conv.kind /\ c.text = w
       /\ c.value = x /\ c.stage = conv.stage /\ c.given = conv.given
  <2>1. x \in Int
    BY <1>7
  <2>2. c \in Conversions
    BY <1>2, <1>12, <2>1 DEF Conversions
  <2> QED
    BY <1>2, <2>2 DEF Conversions
<1>14. c.neg = conv.neg
  BY <1>2 DEF Conversions
<1> HIDE DEF c, t, n
<1>15. PrintedSoFar(c, v)
  BY <1>5, <1>7, <1>8, <1>11, <1>13, <1>14 DEF PrintedSoFar
<1>16. PrintInv(c, v)
  BY <1>1, <1>4, <1>13, <1>15 DEF PrintInv
<1> QED
  BY <1>1, <1>13, <1>16 DEF ConversionInv

\* all are turned round,
LEMMA PrintAllKeeps ==
    ASSUME ConversionInv(conv), PrintAll
    PROVE  ConversionInv(conv')
<1> DEFINE t == conv.text
           k == conv.kind
           w == Reverse(IF conv.neg THEN Append(t, Minus) ELSE t)
           c == [conv EXCEPT !.text = w, !.stage = "done"]
<1>1. conv.job = "print" /\ conv.stage = "digits" /\ conv.value <= 0 /\ conv' = c
  BY DEF PrintAll
<1>2. conv \in Conversions /\ k \in Kinds /\ conv.value \in Int /\ t \in Seq(0 .. Junk)
  BY <1>1, RunningPrint DEF Conversions
<1>3. PICK v \in Int : PrintInv(conv, v)
  BY <1>1, RunningPrint
<1>4. conv.given = {v} /\ v \in MinOfKind(k) .. MaxOfKind(k) /\ PrintedSoFar(conv, v)
  BY <1>1, <1>3 DEF PrintInv
<1>5. Minus \in 0 .. Junk
  BY DEF Minus, Junk
<1>6. w \in Seq(0 .. Junk)
  <2>1. Append(t, Minus) \in Seq(0 .. Junk)
    BY <1>2, <1>5, AppendProperties
  <2> HIDE DEF t
  <2> QED
    BY <1>2, <2>1, ReverseTyped
<1>7. PrintedAs(k, w, v)
  <2>1. CASE k = "char" /\ v = MinOfKind(k) /\ conv.value < 0 /\ conv.neg /\ t = <<>>
    <3>1. w = <<Minus>>
      <4>1. <<>> \in Seq({Minus}) /\ Minus \in {Minus}
        BY EmptySeq
      <4>2. Reverse(Append(<<>>, Minus)) = <<Minus>> \o Reverse(<<>>)
        BY <4>1, ReverseAppended
      <4>3. Reverse(<<>>) = <<>>
        <5>1. Reverse(<<>>) \in Seq({Minus}) /\ Len(Reverse(<<>>)) = Len(<<>>)
          BY <4>1, ReverseTyped
        <5> QED
          BY <5>1, EmptySeq
      <4>4. <<Minus>> \o <<>> = <<Minus>>
        OBVIOUS
      <4> QED
        BY <2>1, <4>2, <4>3, <4>4
    <3> QED
      BY <1>4, <2>1, <3>1 DEF PrintedAs
  <2>2. CASE /\ v # 0 /\ (k # "unsigned" => v # MinOfKind(k))
             /\ conv.neg <=> v < 0
             /\ conv.value \in Nat /\ t \in Numerals
             /\ Magnitude(v) = conv.value * Ten[Len(t)] + DigitsValue(Reverse(t))
             /\ conv.value = 0 => t # <<>> /\ t[Len(t)] # 0
    <3> DEFINE r == Reverse(t)
               n == Len(t)
    <3>1. conv.value = 0 /\ t # <<>> /\ t[n] # 0
      BY <1>1, <2>2
    <3>2. n \in Nat \ {0} /\ Ten[n] \in Nat
      <4>1. n \in Nat
        BY <2>2, LenProperties DEF Numerals
      <4>2. n # 0
        BY <2>2, <3>1, EmptySeq DEF Numerals
      <4> QED
        BY <4>1, <4>2, TensRight
    <3>3. r \in Numerals /\ Len(r) = n /\ r[1] = t[n - 1 + 1]
      BY <2>2, <3>2, ReverseTyped DEF Numerals
    <3>4. r # <<>> /\ r[1] # 0
      <4>1. n - 1 + 1 = n
        BY <3>2
      <4>2. r # <<>>
        BY <3>2, <3>3, EmptySeq
      <4> QED
        BY <3>1, <3>3, <4>1, <4>2
    <3> HIDE DEF r
    <3>5. /\ r \in Seq(0 .. Junk) /\ Canonical(r) /\ Lenient(r, k)
          /\ Denotes(r) = DigitsValue(r)
          /\ Canonical(<<Minus>> \o r)
          /\ k # "unsigned" => Lenient(<<Minus>> \o r, k)
          /\ Denotes(<<Minus>> \o r) = -DigitsValue(r)
      BY <1>2, <3>3, <3>4, CanonicalText
    <3>6. Magnitude(v) = DigitsValue(r)
      <4> DEFINE p == Ten[n]
                 f == DigitsValue(r)
      <4>1. p \in Nat /\ f \in Nat /\ Magnitude(v) = 0 * p + f
        BY <2>2, <3>1, <3>2, <3>3, ValueTyped DEF r
      <4> HIDE DEF p, f
      <4>2. Magnitude(v) = f
        BY <4>1
      <4> QED
        BY <4>2 DEF f
    <3>7. /\ MinOfKind(k) \in Int /\ (k = "unsigned" => MinOfKind(k) = 0)
      BY <1>2, KindRanges
    <3>8. v = MinOfKind(k) => FALSE
      BY <2>2, <3>7
    <3>9. CASE v < 0
      <4>1. conv.neg
        BY <2>2, <3>9
      <4>2. w = <<Minus>> \o r
        <5>1. w = Reverse(Append(t, Minus))
          BY <4>1
        <5> HIDE DEF w, t
        <5> QED
          BY <1>2, <1>5, <5>1, ReverseAppended DEF r
      <4>3. k # "unsigned" /\ DigitsValue(r) = -v
        BY <1>4, <3>6, <3>7, <3>9 DEF Magnitude
      <4> DEFINE u == <<Minus>> \o r
                 f == DigitsValue(r)
      <4>4. Canonical(u) /\ Lenient(u, k) /\ Denotes(u) = -f
        BY <3>5, <4>3
      <4>5. w = u /\ f = -v /\ v # MinOfKind(k)
        BY <3>8, <4>2, <4>3
      <4> HIDE DEF u, f
      <4>6. -f = v
        BY <4>5
      <4> HIDE DEF w, k
      <4>7. Canonical(w) /\ Lenient(w, k) /\ Denotes(w) = v
        BY <4>4, <4>5, <4>6
      <4> QED
        BY <1>4, <4>5, <4>7 DEF PrintedAs
    <3>10. CASE ~(v < 0)
      <4>1. ~conv.neg
        BY <2>2, <3>10
      <4>2. w = r
        BY <4>1 DEF r
      <4>3. DigitsValue(r) = v
        BY <3>6, <3>10 DEF Magnitude
      <4> QED
        BY <1>4, <3>5, <3>8, <4>2, <4>3 DEF PrintedAs
    <3> QED
      BY <3>9, <3>10
  <2> QED
    BY <1>4, <2>1, <2>2 DEF PrintedSoFar
<1> HIDE DEF w
<1>8. /\ c \in Conversions /\ c.job = conv.job /\ c.kind = k /\ c.text = w
      /\ c.stage = "done" /\ c.given = conv.given
  BY <1>2, <1>6 DEF Conversions
<1> HIDE DEF c, k
<1>9. PrintInv(c, v)
  BY <1>4, <1>7, <1>8 DEF PrintInv
<1> QED
  BY <1>1, <1>8, <1>9 DEF ConversionInv

\* and the text is parsed again.
LEMMA ParseBackKeeps ==
    ASSUME ConversionInv(conv), ParseBack
    PROVE  ConversionInv(conv')
<1>1. conv.job = "print" /\ conv.stage = "done"
      /\ conv' = [ParseOf(conv.kind, conv.text) EXCEPT !.given = conv.given]
  BY DEF ParseBack
<1>2. conv.kind \in Kinds /\ conv.text \in Seq(0 .. Junk)
  BY <1>1, RunningPrint
<1>3. PICK v \in Int : PrintInv(conv, v)
  BY <1>1, RunningPrint
<1>4. conv.given \in SUBSET Int /\ \A u \in conv.given : PrintedAs(conv.kind, conv.text, u)
  BY <1>1, <1>3 DEF PrintInv
<1> DEFINE c == [ParseOf(conv.kind, conv.text) EXCEPT !.given = conv.given]
<1>5. /\ c.job = "parse" /\ c.kind = conv.kind /\ c.text = conv.text /\ c.pos = 1
      /\ c.value = 0 /\ c.neg = FALSE /\ c.digits = 0 /\ c.stage = "running"
      /\ c.given = conv.given
  BY DEF ParseOf
<1>6. c \in Conversions
  <2>1. 1 \in Nat \ {0} /\ 0 \in Nat /\ 0 \in Int /\ FALSE \in BOOLEAN /\ {} \in SUBSET Int
    OBVIOUS
  <2>2. ParseOf(conv.kind, conv.text) \in Conversions
    BY <1>2, <2>1 DEF ParseOf, Conversions
  <2> QED
    BY <1>4, <2>2 DEF Conversions
<1>7. conv' = c
  BY <1>1
<1> HIDE DEF c
<1> QED
  BY <1>2, <1>4, <1>5, <1>6, <1>7, ParseBegins

\* For types of every width from eight bits on and all texts: a text is refused
\* exactly if it is not a number of the type, and otherwise gives that number;
\* every number is printed as its only canonical text, which is read back as
\* that number, but for the smallest values of a signed byte and of 64 bits
\* (util.hpp:148-266).
THEOREM TextsCorrect == IntegerTextSpec => []TextsRight
<1>1. IntegerTextInit => ConversionInv(conv)
  <2> SUFFICES ASSUME NEW k \in Kinds,
                      \/ \E t \in Parsed : conv = ParseOf(k, t)
                      \/ \E v \in MinOfKind(k) .. MaxOfKind(k) : conv = PrintOf(k, v)
               PROVE  ConversionInv(conv)
    BY DEF IntegerTextInit
  <2>1. ASSUME NEW t \in Parsed, conv = ParseOf(k, t) PROVE ConversionInv(conv)
    <3>1. t \in Seq(0 .. Junk) /\ {} \in SUBSET Int /\ \A v \in {} : PrintedAs(k, t, v)
      BY IntegerTextAssumption
    <3>2. /\ conv.job = "parse" /\ conv.kind = k /\ conv.text = t /\ conv.pos = 1
          /\ conv.value = 0 /\ conv.neg = FALSE /\ conv.digits = 0
          /\ conv.stage = "running" /\ conv.given = {}
      BY <2>1 DEF ParseOf
    <3>3. 1 \in Nat \ {0} /\ 0 \in Nat /\ 0 \in Int /\ FALSE \in BOOLEAN
      OBVIOUS
    <3>4. conv \in Conversions
      BY <2>1, <3>1, <3>3 DEF ParseOf, Conversions
    <3> QED
      BY <3>1, <3>2, <3>4, ParseBegins
  <2>2. ASSUME NEW v \in MinOfKind(k) .. MaxOfKind(k), conv = PrintOf(k, v)
        PROVE  ConversionInv(conv)
    <3>1. v \in Int
      BY KindRanges
    <3>2. conv \in Conversions
      <4>1. 1 \in Nat \ {0} /\ 0 \in Nat /\ FALSE \in BOOLEAN /\ {v} \in SUBSET Int
            /\ <<>> \in Seq(0 .. Junk)
        BY <3>1, EmptySeq
      <4> QED
        BY <2>2, <3>1, <4>1 DEF PrintOf, Conversions
    <3>3. /\ conv.job = "print" /\ conv.kind = k /\ conv.text = <<>> /\ conv.value = v
          /\ conv.neg = FALSE /\ conv.stage = "start" /\ conv.given = {v}
      BY <2>2 DEF PrintOf
    <3>4. PrintInv(conv, v)
      BY <3>3 DEF PrintInv
    <3> QED
      BY <3>1, <3>2, <3>3, <3>4 DEF ConversionInv
  <2> QED
    BY <2>1, <2>2
<1>2. ConversionInv(conv) /\ [IntegerTextNext]_conv => ConversionInv(conv)'
  <2> SUFFICES ASSUME ConversionInv(conv), [IntegerTextNext]_conv PROVE ConversionInv(conv')
    OBVIOUS
  <2>1. CASE conv' = conv
    BY <2>1
  <2> QED
    BY <2>1, ReadSmallestKeeps, ReadSignKeeps, ReadDigitKeeps, RefuseTextKeeps, ReadAllKeeps,
       PrintSignKeeps, PrintDigitKeeps, PrintAllKeeps, ParseBackKeeps DEF IntegerTextNext
<1> QED
  BY <1>1, <1>2, ConversionTexts, PTL DEF IntegerTextSpec

\* The components that compute with numbers are right together, from any state
\* each begins in (NumberCycle.hpp, SystemTime.cpp, util.hpp).
THEOREM NumbersCorrect ==
    NumberCycleSpec /\ SystemTimeSpec /\ IntegerTextSpec => []NumbersRight
  BY CycleCorrect, SystemTimeCorrect, TextsCorrect, PTL DEF NumbersRight

-----------------------------------------------------------------------------
(* Duration and Instant.                                                   *)

USE DEF U64, D

\* The forms that the code keeps: at most one whole second of nanoseconds.
Kept == [secs : U64, nanos : 0..NANOS_IN_SEC]

\* The quotient and the remainder are the only ones.
LEMMA Unique ==
    ASSUME NEW a \in Nat, NEW b \in Nat \ {0}, NEW q \in Nat, NEW r \in 0..(b - 1),
           a = q * b + r
    PROVE  a \div b = q /\ a % b = r
<1>1. PICK p \in Nat, s \in 0..(b - 1) :
          a \div b = p /\ a % b = s /\ a = p * b + s
  BY Division
<1>2. (p - q) * b = r - s
  BY <1>1
<1>3. p - q = 0
  <2>1. CASE p - q >= 1
    <3>1. (p - q) * b >= b
      BY <2>1
    <3> QED
      BY <3>1, <1>2
  <2>2. CASE p - q <= -1
    <3>1. (p - q) * b <= -b
      BY <2>2
    <3> QED
      BY <3>1, <1>2
  <2> QED
    BY <2>1, <2>2
<1> QED
  BY <1>1, <1>2, <1>3

\* Fewer nanoseconds than (m + 1) seconds make at most m seconds.
LEMMA WholeSeconds ==
    ASSUME NEW s \in Int, NEW m \in Int, NEW n \in Nat \ {0}, s * n < (m + 1) * n
    PROVE  s <= m
<1>1. SUFFICES ASSUME s >= m + 1 PROVE FALSE
  OBVIOUS
<1>2. s * n >= (m + 1) * n
  BY <1>1
<1> QED
  BY <1>2

\* checkedAdd computes the exact sum and keeps the nanoseconds in bounds.
LEMMA SumExact ==
    ASSUME NEW x \in Kept, NEW y \in Kept
    PROVE  /\ Value(Sum(x, y)) = Value(x) + Value(y)
           /\ Sum(x, y).secs \in Nat
           /\ Sum(x, y).nanos \in 0..NANOS_IN_SEC
  BY TimeAssumption DEF Kept, Sum, Value

\* So does checkedSub.
LEMMA DifferenceExact ==
    ASSUME NEW x \in Kept, NEW y \in Kept
    PROVE  /\ Value(Difference(x, y)) = Value(x) - Value(y)
           /\ Difference(x, y).secs \in Int
           /\ Difference(x, y).nanos \in 0..NANOS_IN_SEC
  BY TimeAssumption DEF Kept, Difference, Value

\* So does checkedMul, which also leaves less than a second of nanoseconds.
LEMMA ProductExact ==
    ASSUME NEW x \in Kept, NEW k \in Nat
    PROVE  /\ Value(Product(x, k)) = Value(x) * k
           /\ Product(x, k).secs \in Nat
           /\ Product(x, k).nanos \in 0..(NANOS_IN_SEC - 1)
<1> DEFINE n == x.nanos * k
<1>1. /\ x.secs \in Nat /\ x.nanos \in Nat /\ n \in Nat
      /\ NANOS_IN_SEC \in Nat \ {0}
  BY TimeAssumption DEF Kept
<1>2. /\ n % NANOS_IN_SEC \in 0..(NANOS_IN_SEC - 1)
      /\ n \div NANOS_IN_SEC \in Nat
      /\ n = (n \div NANOS_IN_SEC) * NANOS_IN_SEC + (n % NANOS_IN_SEC)
  BY <1>1, Division
<1>3. Product(x, k) = D(x.secs * k + (n \div NANOS_IN_SEC), n % NANOS_IN_SEC)
  BY DEF Product
<1> HIDE DEF n
<1>4. Value(Product(x, k)) = x.secs * k * NANOS_IN_SEC + n
  <2>1. PICK q \in Nat, r \in 0..(NANOS_IN_SEC - 1) :
            Product(x, k) = D(x.secs * k + q, r) /\ n = q * NANOS_IN_SEC + r
    BY <1>2, <1>3
  <2>2. Value(Product(x, k)) = (x.secs * k + q) * NANOS_IN_SEC + r
    BY <2>1 DEF Value
  <2>3. (x.secs * k + q) * NANOS_IN_SEC = x.secs * k * NANOS_IN_SEC + q * NANOS_IN_SEC
    BY <1>1, <2>1
  <2> QED
    BY <1>1, <2>1, <2>2, <2>3
<1>5. n = x.nanos * k
  BY DEF n
<1>6. Value(x) * k = x.secs * k * NANOS_IN_SEC + n
  BY <1>1, <1>5 DEF Value
<1> QED
  BY <1>1, <1>2, <1>3, <1>4, <1>6

\* operator/ rounds the exact quotient down, and its unchecked seconds do not
\* wrap for a Duration up to the largest.
LEMMA QuotientExact ==
    ASSUME NEW x \in Kept, NEW k \in Nat \ {0}, Value(x) <= Value(Infinite)
    PROVE  /\ Value(Quotient(x, k)) = Value(x) \div k
           /\ Quotient(x, k).secs \in U64
           /\ Quotient(x, k).nanos \in 0..(NANOS_IN_SEC - 1)
           /\ Value(Quotient(x, k)) <= Value(Infinite)
<1> DEFINE q == x.secs \div k
           r == x.secs % k
           t == r * NANOS_IN_SEC + x.nanos
           u == t \div k
           c == u \div NANOS_IN_SEC
           n == u % NANOS_IN_SEC
<1>1. /\ x.secs \in Nat /\ x.nanos \in Nat
      /\ NANOS_IN_SEC \in Nat \ {0} /\ MAX_U64 \in Nat
  BY TimeAssumption DEF Kept
<1>2. /\ q \in Nat /\ r \in Nat
      /\ x.secs = q * k + r
  <2>1. /\ x.secs % k \in 0..(k - 1)
        /\ x.secs \div k \in Nat
        /\ x.secs = (x.secs \div k) * k + (x.secs % k)
    BY <1>1, Division
  <2> QED
    BY <2>1
<1>3. t \in Nat
  <2> HIDE DEF r
  <2>1. r * NANOS_IN_SEC \in Nat
    BY <1>1, <1>2
  <2> QED
    BY <1>1, <2>1
<1>4. PICK v \in 0..(k - 1) : u \in Nat /\ t = u * k + v
  BY <1>3, Division
<1>5. /\ n \in 0..(NANOS_IN_SEC - 1) /\ c \in Nat
      /\ u = c * NANOS_IN_SEC + n
  BY <1>1, <1>4, Division
<1>6. Quotient(x, k) = D((q + c) % (MAX_U64 + 1), n)
  BY DEF Quotient
<1>7. t = r * NANOS_IN_SEC + x.nanos
  OBVIOUS
<1> HIDE DEF q, r, t, u, c, n
<1>8. Value(x) = (q * NANOS_IN_SEC + u) * k + v
  <2>1. Value(x) = q * k * NANOS_IN_SEC + t
    BY <1>1, <1>2, <1>7 DEF Value
  <2> QED
    BY <1>1, <1>2, <1>4, <2>1
<1>9. Value(x) \in Nat /\ q * NANOS_IN_SEC + u \in Nat
  BY <1>1, <1>2, <1>4 DEF Value
<1>10. Value(x) \div k = q * NANOS_IN_SEC + u
  BY <1>8, <1>9, Unique
<1>11. q * NANOS_IN_SEC + u <= Value(x)
  <2>1. (q * NANOS_IN_SEC + u) * k >= q * NANOS_IN_SEC + u
    BY <1>9
  <2> QED
    BY <1>8, <1>9, <2>1
<1>12. (q + c) * NANOS_IN_SEC + n = q * NANOS_IN_SEC + u
  BY <1>1, <1>2, <1>4, <1>5
<1>13. q + c <= MAX_U64
  <2>1. Value(Infinite) < (MAX_U64 + 1) * NANOS_IN_SEC
    BY <1>1 DEF Value, Infinite
  <2>2. (q + c) * NANOS_IN_SEC < (MAX_U64 + 1) * NANOS_IN_SEC
    <3>1. Value(Infinite) \in Int
      BY <1>1 DEF Value, Infinite
    <3> QED
      BY <1>1, <1>2, <1>5, <1>9, <1>11, <1>12, <2>1, <3>1
  <2> QED
    BY <1>1, <1>2, <1>5, <2>2, WholeSeconds
<1>14. (q + c) % (MAX_U64 + 1) = q + c
  <2>1. q + c = 0 * (MAX_U64 + 1) + (q + c)
    BY <1>1, <1>2, <1>5
  <2> QED
    BY <1>1, <1>2, <1>5, <1>13, <2>1, Unique
<1>15. Value(Quotient(x, k)) = q * NANOS_IN_SEC + u
  BY <1>6, <1>12, <1>14 DEF Value
<1> QED
  BY <1>1, <1>2, <1>5, <1>6, <1>9, <1>10, <1>11, <1>13, <1>14, <1>15 DEF Value, Infinite

-----------------------------------------------------------------------------
(* Lemmas about Instant's operators.                                       *)

\* A normal Duration has the seconds that it says.
LEMMA SecondsOfNormal ==
    ASSUME NEW x \in Kept, x.nanos < NANOS_IN_SEC
    PROVE  Seconds(x) = x.secs
<1>1. /\ x.secs \in 0..MAX_U64 /\ x.nanos \in Nat
      /\ NANOS_IN_SEC \in Nat \ {0} /\ MAX_U64 \in Nat
  BY TimeAssumption DEF Kept
<1>2. x.nanos \div NANOS_IN_SEC = 0
  <2>1. x.nanos = 0 * NANOS_IN_SEC + x.nanos
    BY <1>1
  <2> QED
    BY <1>1, <2>1, Unique
<1>3. x.secs % (MAX_U64 + 1) = x.secs
  <2>1. x.secs = 0 * (MAX_U64 + 1) + x.secs
    BY <1>1
  <2> QED
    BY <1>1, <2>1, Unique
<1> QED
  BY <1>1, <1>2, <1>3 DEF Seconds

\* The far future fits in the seconds.
LEMMA FarFutureFits == FAR_FUTURE \in 0..MAX_U64
<1>1. Half \in Int
  BY TimeAssumption DEF Half
<1> QED
  BY <1>1, TimeAssumption

\* Whatever form the operands have, the results keep the bounds.
LEMMA InstantBounds ==
    ASSUME NEW i \in Kept, NEW d \in Kept
    PROVE  /\ SaturatingAdd(i, d) \in Kept
           /\ SaturatingSub(i, d) \in Kept
<1>1. /\ i.secs \in 0..MAX_U64 /\ i.nanos \in 0..NANOS_IN_SEC
      /\ d.secs \in 0..MAX_U64 /\ d.nanos \in 0..NANOS_IN_SEC
      /\ NANOS_IN_SEC \in Nat \ {0} /\ MAX_U64 \in Nat
      /\ FAR_FUTURE \in 0..MAX_U64
  BY TimeAssumption, FarFutureFits DEF Kept
<1>2. InstantSum(i, d).nanos \in 0..NANOS_IN_SEC
  BY <1>1 DEF InstantSum
<1>3. InstantDifference(i, d).nanos \in 0..NANOS_IN_SEC
  BY <1>1 DEF InstantDifference
<1>4. SaturatingAdd(i, d) \in Kept
  BY <1>1, <1>2 DEF SaturatingAdd, FarFuture, Fits, InstantSum, Kept
<1>5. SaturatingSub(i, d) \in Kept
  BY <1>1, <1>3 DEF SaturatingSub, Fits, InstantDifference, Kept
<1> QED
  BY <1>4, <1>5

\* Adding and subtracting a normal Duration is exact or saturates.
LEMMA InstantExactness ==
    ASSUME NEW i \in Kept, NEW d \in Kept, d.nanos < NANOS_IN_SEC
    PROVE  /\ Fits(InstantSum(i, d)) => Value(InstantSum(i, d)) = Value(i) + Value(d)
           /\ Value(SaturatingSub(i, d)) =
                  IF Value(i) > Value(d) THEN Value(i) - Value(d) ELSE 0
<1>1. /\ i.secs \in Nat /\ i.nanos \in 0..NANOS_IN_SEC
      /\ d.secs \in Nat /\ d.nanos \in 0..(NANOS_IN_SEC - 1)
      /\ NANOS_IN_SEC \in Nat \ {0} /\ MAX_U64 \in Nat
      /\ i.secs <= MAX_U64
  BY TimeAssumption DEF Kept
<1>2. Seconds(d) = d.secs
  BY SecondsOfNormal
<1>3. Value(InstantSum(i, d)) = Value(i) + Value(d)
  BY <1>1, <1>2 DEF InstantSum, Value
<1> DEFINE e == InstantDifference(i, d)
<1>4. /\ e.secs \in Int /\ e.secs <= MAX_U64
      /\ e.nanos \in 1..NANOS_IN_SEC
      /\ Value(e) = Value(i) - Value(d)
  BY <1>1, <1>2 DEF InstantDifference, Value
<1>5. CASE e.secs >= 0
  <2>1. Fits(e)
    BY <1>1, <1>4, <1>5 DEF Fits
  <2>2. SaturatingSub(i, d) = e
    BY <2>1 DEF SaturatingSub
  <2>3. e.secs * NANOS_IN_SEC >= 0
    BY <1>1, <1>4, <1>5
  <2>4. Value(e) > 0
    BY <1>1, <1>4, <2>3 DEF Value
  <2>5. Value(i) \in Int /\ Value(d) \in Int
    BY <1>1 DEF Value
  <2> QED
    BY <1>3, <1>4, <2>2, <2>4, <2>5
<1>6. CASE e.secs <= -1
  <2>1. ~Fits(e)
    BY <1>1, <1>4, <1>6 DEF Fits
  <2>2. Value(SaturatingSub(i, d)) = 0
    BY <1>1, <2>1 DEF SaturatingSub, Value
  <2>3. e.secs * NANOS_IN_SEC <= -NANOS_IN_SEC
    BY <1>1, <1>4, <1>6
  <2>4. Value(e) <= 0
    BY <1>1, <1>4, <2>3 DEF Value
  <2>5. Value(i) \in Int /\ Value(d) \in Int
    BY <1>1 DEF Value
  <2> QED
    BY <1>3, <1>4, <2>2, <2>4, <2>5
<1> QED
  BY <1>4, <1>5, <1>6

\* The difference of seconds less than 2^63 apart survives u64 and i64.
LEMMA SignedExact ==
    ASSUME NEW x \in Int, x < Half, -x < Half
    PROVE  Signed(x) = x
<1>1. Half \in Int /\ MAX_U64 \in Nat /\ MAX_U64 + 1 = 2 * Half
  BY TimeAssumption DEF Half
<1>2. CASE x >= 0
  <2>1. x = 0 * (MAX_U64 + 1) + x /\ x \in 0..(MAX_U64 + 1 - 1)
    BY <1>1, <1>2
  <2>2. x % (MAX_U64 + 1) = x
    BY <1>1, <1>2, <2>1, Unique
  <2> QED
    BY <1>1, <1>2, <2>2 DEF Signed
<1>3. CASE x < 0
  <2>1. x % (MAX_U64 + 1) = x + MAX_U64 + 1
    BY <1>1, <1>3
  <2> QED
    BY <1>1, <1>3, <2>1 DEF Signed
<1> QED
  BY <1>2, <1>3

\* Signed is an i64.
LEMMA SignedBounds ==
    ASSUME NEW x \in Int
    PROVE  Signed(x) \in Int /\ Signed(x) < Half
<1>1. Half \in Int /\ MAX_U64 \in Nat /\ MAX_U64 + 1 = 2 * Half
  BY TimeAssumption DEF Half
<1>2. x % (MAX_U64 + 1) \in 0..MAX_U64
  BY <1>1
<1> QED
  BY <1>1, <1>2 DEF Signed

\* durationSince gives normal Durations, exact ones for Instants less than 2^63
\* seconds apart, unless the nanoseconds between them are a whole second.
LEMMA DurationSinceExact ==
    ASSUME NEW i \in Kept, NEW j \in Kept
    PROVE  /\ DurationSince(i, j) \in Normal
           /\ ~LosesSecond(i, j) /\ j.nanos < NANOS_IN_SEC
                  /\ i.secs - j.secs < Half /\ j.secs - i.secs < Half
                => Value(DurationSince(i, j)) =
                       IF Value(i) > Value(j) THEN Value(i) - Value(j) ELSE 0
<1> DEFINE b == IF i.nanos < j.nanos THEN 1 ELSE 0
           s == Signed(i.secs - j.secs) - b
           n == i.nanos + b * NANOS_IN_SEC - j.nanos
<1>1. /\ i.secs \in 0..MAX_U64 /\ i.nanos \in 0..NANOS_IN_SEC
      /\ j.secs \in 0..MAX_U64 /\ j.nanos \in 0..NANOS_IN_SEC
      /\ NANOS_IN_SEC \in Nat \ {0} /\ MAX_U64 \in Nat
      /\ Half \in Int /\ MAX_U64 + 1 = 2 * Half
  BY TimeAssumption DEF Kept, Half
<1>2. b \in 0..1 /\ n \in 0..NANOS_IN_SEC
  BY <1>1
<1>3. s \in Int /\ s < Half
  <2>1. Signed(i.secs - j.secs) \in Int /\ Signed(i.secs - j.secs) < Half
    BY <1>1, SignedBounds
  <2> QED
    BY <1>1, <1>2, <2>1
<1>4. DurationSince(i, j) = IF s < 0 THEN Ctor(0, 0) ELSE Ctor(s, n)
  BY DEF DurationSince
<1>5. 0 % NANOS_IN_SEC = 0 /\ n % NANOS_IN_SEC \in 0..(NANOS_IN_SEC - 1)
  <2> HIDE DEF b, n
  <2> QED
    BY <1>1, <1>2
<1>6. DurationSince(i, j) \in Normal
  <2> HIDE DEF b, s, n
  <2> QED
    BY <1>1, <1>3, <1>4, <1>5 DEF Ctor, Normal
<1>7. ASSUME ~LosesSecond(i, j), j.nanos < NANOS_IN_SEC,
             i.secs - j.secs < Half, j.secs - i.secs < Half
      PROVE  Value(DurationSince(i, j)) =
                 IF Value(i) > Value(j) THEN Value(i) - Value(j) ELSE 0
  <2>1. Signed(i.secs - j.secs) = i.secs - j.secs
    BY <1>1, <1>7, SignedExact
  <2>2. s >= 0 => n \in 0..(NANOS_IN_SEC - 1)
    BY <1>1, <1>7, <2>1 DEF LosesSecond
  <2>3. s >= 0 => n % NANOS_IN_SEC = n
    <3> HIDE DEF b, s, n
    <3>1. n \in Nat /\ n = 0 * NANOS_IN_SEC + n
      BY <1>1, <1>2
    <3> QED
      BY <1>1, <2>2, <3>1, Unique
  <2>4. Value(i) - Value(j) = s * NANOS_IN_SEC + n
    BY <1>1, <2>1 DEF Value
  <2>5. Value(i) \in Int /\ Value(j) \in Int
    BY <1>1 DEF Value
  <2> HIDE DEF b, s, n
  <2>6. s * NANOS_IN_SEC \in Int
    BY <1>1, <1>3
  <2>7. CASE s < 0
    <3>1. s * NANOS_IN_SEC <= -NANOS_IN_SEC
      BY <1>1, <1>3, <2>7
    <3>2. Value(DurationSince(i, j)) = 0
      BY <1>1, <1>4, <1>5, <2>7 DEF Ctor, Value
    <3> QED
      BY <1>1, <1>2, <2>4, <2>5, <2>7, <2>6, <3>1, <3>2
  <2>8. CASE s >= 0
    <3>1. s * NANOS_IN_SEC >= 0
      BY <1>1, <1>3, <2>8
    <3>2. Value(DurationSince(i, j)) = s * NANOS_IN_SEC + n
      BY <1>3, <1>4, <2>3, <2>8 DEF Ctor, Value
    <3> QED
      BY <1>1, <2>2, <2>4, <2>5, <2>8, <2>6, <3>1, <3>2
  <2> QED
    BY <1>3, <2>7, <2>8
<1> QED
  BY <1>6, <1>7

-----------------------------------------------------------------------------
(* The inductive invariant.                                                *)

TimeLapses == {"none", "ctor", "overran", "skewed", "wrapped"}

\* A Duration that stands for the exact result is at most the largest one,
\* so that the unchecked seconds of a quotient do not wrap.
Bounded == lapse = "none" => Value(dur) <= Value(Infinite)

Inv == TypeOK /\ DurationExact /\ InstantExact /\ Bounded

\* What the constants and the state variables are.
LEMMA Types ==
    ASSUME TypeOK
    PROVE  /\ NANOS_IN_SEC \in Nat \ {0} /\ MAX_U64 \in Nat
           /\ dur \in Kept /\ instant \in Kept
           /\ exact \in Int /\ instantExact \in Int /\ lapse \in TimeLapses
           /\ \A d \in Normal : d \in Kept
  BY TimeAssumption DEF TypeOK, Kept, Normal, TimeLapses

\* Values are natural numbers.
LEMMA ValueType ==
    ASSUME NEW d \in Kept
    PROVE  Value(d) \in Nat
<1>1. d.secs \in Nat /\ d.nanos \in Nat /\ NANOS_IN_SEC \in Nat
  BY TimeAssumption DEF Kept
<1> QED
  BY <1>1 DEF Value

\* No normal Duration is larger than the largest.
LEMMA NormalBounded ==
    ASSUME NEW d \in Kept, d.nanos < NANOS_IN_SEC
    PROVE  Value(d) <= Value(Infinite)
<1>1. /\ d.secs \in Int /\ d.secs <= MAX_U64 /\ d.nanos \in Int
      /\ NANOS_IN_SEC \in Nat \ {0} /\ MAX_U64 \in Nat
  BY TimeAssumption DEF Kept
<1>2. d.secs * NANOS_IN_SEC <= MAX_U64 * NANOS_IN_SEC
  BY <1>1
<1> QED
  BY <1>1, <1>2 DEF Value, Infinite

\* An operation on the Duration keeps the invariant if its result is one of
\* the kept forms and exact as long as nothing has lapsed.
LEMMA SetDurationKeeps ==
    ASSUME Inv, NEW d \in Kept, NEW e \in Int, NEW now \in TimeLapses,
           lapse = "none" /\ now = "none" => Value(d) = e /\ Value(d) <= Value(Infinite),
           SetDuration(d, e, now)
    PROVE  Inv'
<1>1. lapse' = "none" => lapse = "none" /\ now = "none"
  BY DEF SetDuration, Note
<1>2. dur' = d /\ instant' = instant
  BY DEF SetDuration
<1>3. /\ exact' = IF lapse' = "none" THEN e ELSE 0
      /\ instantExact' = IF lapse' = "none" THEN instantExact ELSE 0
      /\ lapse' \in TimeLapses
  BY DEF SetDuration, Note, Inv, TypeOK, TimeLapses
<1>4. TypeOK'
  BY <1>2, <1>3 DEF Inv, TypeOK, Kept, TimeLapses
<1>5. DurationExact' /\ Bounded'
  BY <1>1, <1>2, <1>3 DEF DurationExact, Bounded, Value, Infinite
<1>6. InstantExact'
  BY <1>1, <1>2, <1>3 DEF Inv, InstantExact, Value
<1> QED
  BY <1>4, <1>5, <1>6 DEF Inv

\* And so does an operation on the Instant.
LEMMA SetInstantKeeps ==
    ASSUME Inv, NEW i \in Kept, NEW e \in Int, NEW now \in TimeLapses,
           lapse = "none" /\ now = "none" => Value(i) = e,
           SetInstant(i, e, now)
    PROVE  Inv'
<1>1. lapse' = "none" => lapse = "none" /\ now = "none"
  BY DEF SetInstant, Note
<1>2. instant' = i /\ dur' = dur
  BY DEF SetInstant
<1>3. /\ instantExact' = IF lapse' = "none" THEN e ELSE 0
      /\ exact' = IF lapse' = "none" THEN exact ELSE 0
      /\ lapse' \in TimeLapses
  BY DEF SetInstant, Note, Inv, TypeOK, TimeLapses
<1>4. TypeOK'
  BY <1>2, <1>3 DEF Inv, TypeOK, Kept, TimeLapses
<1>5. DurationExact' /\ Bounded'
  BY <1>1, <1>2, <1>3 DEF Inv, DurationExact, Bounded, Value, Infinite
<1>6. InstantExact'
  BY <1>1, <1>2, <1>3 DEF InstantExact, Value
<1> QED
  BY <1>4, <1>5, <1>6 DEF Inv

-----------------------------------------------------------------------------
(* Every step keeps the invariant.                                         *)

LEMMA InitInv ==
    ASSUME Init
    PROVE  Inv
<1>1. NANOS_IN_SEC \in Nat \ {0} /\ MAX_U64 \in Nat
  BY TimeAssumption
<1>2. Value(D(0, 0)) = 0 /\ Value(Infinite) \in Nat
  BY <1>1 DEF Value, Infinite
<1> QED
  BY <1>1, <1>2 DEF Init, Inv, TypeOK, DurationExact, InstantExact, Bounded

LEMMA ConstructKeeps ==
    ASSUME Inv, Construct
    PROVE  Inv'
<1>1. NANOS_IN_SEC \in Nat \ {0} /\ MAX_U64 \in Nat
  BY TimeAssumption
<1>2. PICK s \in U64, n \in 0..(2 * NANOS_IN_SEC) :
          SetDuration(Ctor(s, n), s * NANOS_IN_SEC + n,
                      IF n < NANOS_IN_SEC THEN "none" ELSE "ctor")
  BY DEF Construct
<1>3. Ctor(s, n) = D(s, n % NANOS_IN_SEC) /\ n % NANOS_IN_SEC \in 0..(NANOS_IN_SEC - 1)
  BY <1>1, <1>2 DEF Ctor
<1>4. Ctor(s, n) \in Kept /\ Ctor(s, n).nanos < NANOS_IN_SEC
  BY <1>1, <1>2, <1>3 DEF Kept
<1>5. Value(Ctor(s, n)) <= Value(Infinite)
  BY <1>4, NormalBounded
<1>6. n < NANOS_IN_SEC => Value(Ctor(s, n)) = s * NANOS_IN_SEC + n
  <2>1. SUFFICES ASSUME n < NANOS_IN_SEC PROVE n % NANOS_IN_SEC = n
    BY <1>3 DEF Value
  <2>2. n \in Nat /\ n = 0 * NANOS_IN_SEC + n
    BY <1>1, <1>2
  <2> QED
    BY <1>1, <1>2, <2>1, <2>2, Unique
<1>7. s * NANOS_IN_SEC + n \in Int
  BY <1>1, <1>2
<1> QED
  BY <1>2, <1>4, <1>5, <1>6, <1>7, SetDurationKeeps DEF TimeLapses

LEMMA ConvertKeeps ==
    ASSUME Inv, Convert
    PROVE  Inv'
<1>1. NANOS_IN_SEC \in Nat \ {0} /\ MAX_U64 \in Nat
  BY TimeAssumption
<1>2. PICK n \in U64 : SetDuration(FromNanos(n), n, "none")
  BY DEF Convert
<1>3. PICK q \in Nat, r \in 0..(NANOS_IN_SEC - 1) :
          FromNanos(n) = D(q, r) /\ n = q * NANOS_IN_SEC + r
  <2>1. /\ n % NANOS_IN_SEC \in 0..(NANOS_IN_SEC - 1)
        /\ n \div NANOS_IN_SEC \in Nat
        /\ n = (n \div NANOS_IN_SEC) * NANOS_IN_SEC + (n % NANOS_IN_SEC)
    <3>1. n \in Nat
      BY <1>1, <1>2
    <3> QED
      BY <1>1, <3>1, Division
  <2> QED
    BY <2>1 DEF FromNanos
<1>4. q <= MAX_U64
  <2>1. q * NANOS_IN_SEC >= q
    BY <1>1, <1>3
  <2> QED
    BY <1>1, <1>2, <1>3, <2>1
<1>5. FromNanos(n) \in Kept /\ FromNanos(n).nanos < NANOS_IN_SEC
  BY <1>1, <1>3, <1>4 DEF Kept
<1>6. Value(FromNanos(n)) = n
  BY <1>3 DEF Value
<1> QED
  BY <1>2, <1>5, <1>6, NormalBounded, SetDurationKeeps DEF TimeLapses

\* A refused sum leaves the Duration alone; an accepted one is exact.
LEMMA AddKeeps ==
    ASSUME Inv, Add
    PROVE  Inv'
<1>1. PICK d \in Others :
          /\ Fits(Sum(dur, d))
          /\ SetDuration(Sum(dur, d), exact + Value(d),
                 IF Value(dur) + Value(d) <= Value(Infinite) THEN "none" ELSE "overran")
  BY DEF Add
<1>2. dur \in Kept /\ d \in Kept /\ exact \in Int
  BY <1>1, Types DEF Inv, Others
<1>3. Sum(dur, d) \in Kept
  BY <1>1, <1>2, SumExact DEF Fits, Sum, Kept
<1>4. Value(Sum(dur, d)) = Value(dur) + Value(d)
  BY <1>2, SumExact
<1>5. Value(d) \in Nat /\ exact + Value(d) \in Int
  BY <1>2, ValueType
<1>6. lapse = "none" => Value(dur) = exact
  BY DEF Inv, DurationExact
<1> QED
  BY <1>1, <1>3, <1>4, <1>5, <1>6, SetDurationKeeps DEF TimeLapses

LEMMA SubtractKeeps ==
    ASSUME Inv, Subtract
    PROVE  Inv'
<1>1. PICK d \in Others :
          IF Fits(Difference(dur, d))
            THEN SetDuration(Difference(dur, d), exact - Value(d), "none")
            ELSE SetDuration(D(0, 0), 0, "none")
  BY DEF Subtract
<1>2. /\ dur \in Kept /\ d \in Kept /\ exact \in Int
      /\ NANOS_IN_SEC \in Nat \ {0} /\ MAX_U64 \in Nat
  BY <1>1, Types DEF Inv, Others
<1>3. Value(dur) \in Nat /\ Value(d) \in Nat /\ Value(Infinite) \in Nat
  BY <1>2, ValueType DEF Value, Infinite
<1>4. lapse = "none" => Value(dur) = exact /\ Value(dur) <= Value(Infinite)
  BY DEF Inv, DurationExact, Bounded
<1>5. CASE Fits(Difference(dur, d))
  <2>1. Difference(dur, d) \in Kept
    BY <1>2, <1>5, DifferenceExact DEF Fits, Difference, Kept
  <2>2. Value(Difference(dur, d)) = Value(dur) - Value(d)
    BY <1>2, DifferenceExact
  <2> QED
    BY <1>1, <1>2, <1>3, <1>4, <1>5, <2>1, <2>2, SetDurationKeeps DEF TimeLapses
<1>6. CASE ~Fits(Difference(dur, d))
  <2>1. D(0, 0) \in Kept /\ Value(D(0, 0)) = 0
    BY <1>2 DEF Kept, Value
  <2> QED
    BY <1>1, <1>3, <1>6, <2>1, SetDurationKeeps DEF TimeLapses
<1> QED
  BY <1>5, <1>6

LEMMA AbsDiffKeeps ==
    ASSUME Inv, AbsDiff
    PROVE  Inv'
<1>1. PICK d \in Others :
          \/ /\ Fits(Difference(dur, d))
             /\ SetDuration(Difference(dur, d), exact - Value(d), "none")
          \/ /\ ~Fits(Difference(dur, d)) /\ Fits(Difference(d, dur))
             /\ SetDuration(Difference(d, dur), Value(d) - exact, "none")
  BY DEF AbsDiff
<1>2. /\ dur \in Kept /\ d \in Kept /\ exact \in Int
      /\ NANOS_IN_SEC \in Nat \ {0} /\ MAX_U64 \in Nat
  BY <1>1, Types DEF Inv, Others
<1>3. Value(dur) \in Nat /\ Value(d) \in Nat /\ Value(Infinite) \in Nat
  BY <1>2, ValueType DEF Value, Infinite
<1>4. lapse = "none" => /\ Value(dur) = exact
                        /\ Value(dur) <= Value(Infinite)
                        /\ Value(d) <= Value(Infinite)
  BY <1>1, <1>2, NormalBounded DEF Inv, DurationExact, Bounded, Others, Normal
<1>5. /\ Fits(Difference(dur, d)) => Difference(dur, d) \in Kept
      /\ Fits(Difference(d, dur)) => Difference(d, dur) \in Kept
  BY <1>2, DifferenceExact DEF Fits, Difference, Kept
<1>6. /\ Value(Difference(dur, d)) = Value(dur) - Value(d)
      /\ Value(Difference(d, dur)) = Value(d) - Value(dur)
  BY <1>2, DifferenceExact
<1>7. CASE Fits(Difference(dur, d)) /\ SetDuration(Difference(dur, d), exact - Value(d), "none")
  BY <1>2, <1>3, <1>4, <1>5, <1>6, <1>7, SetDurationKeeps DEF TimeLapses
<1>8. CASE Fits(Difference(d, dur)) /\ SetDuration(Difference(d, dur), Value(d) - exact, "none")
  BY <1>2, <1>3, <1>4, <1>5, <1>6, <1>8, SetDurationKeeps DEF TimeLapses
<1> QED
  BY <1>1, <1>7, <1>8

LEMMA MultiplyKeeps ==
    ASSUME Inv, Multiply
    PROVE  Inv'
<1>1. PICK k \in 0..MaxFactor :
          Fits(Product(dur, k)) /\ SetDuration(Product(dur, k), exact * k, "none")
  BY DEF Multiply
<1>2. dur \in Kept /\ exact \in Int /\ k \in Nat /\ NANOS_IN_SEC \in Nat \ {0}
  BY <1>1, Types, TimeAssumption DEF Inv
<1>3. /\ Value(Product(dur, k)) = Value(dur) * k
      /\ Product(dur, k).nanos \in 0..(NANOS_IN_SEC - 1)
  BY <1>2, ProductExact
<1>4. Product(dur, k) \in Kept /\ Product(dur, k).nanos < NANOS_IN_SEC
  BY <1>1, <1>2, <1>3 DEF Fits, Product, Kept
<1>5. exact * k \in Int
  BY <1>2
<1>6. lapse = "none" => Value(dur) = exact
  BY DEF Inv, DurationExact
<1>7. Value(Product(dur, k)) <= Value(Infinite)
  BY <1>4, NormalBounded
<1> QED
  BY <1>1, <1>3, <1>4, <1>5, <1>6, <1>7, SetDurationKeeps DEF TimeLapses

\* After a lapse the seconds of a quotient may wrap, but they stay a u64.
LEMMA DivideKeeps ==
    ASSUME Inv, Divide
    PROVE  Inv'
<1>1. PICK k \in 1..MaxFactor : SetDuration(Quotient(dur, k), exact \div k, "none")
  BY DEF Divide
<1>2. /\ dur \in Kept /\ exact \in Int /\ k \in Nat \ {0}
      /\ NANOS_IN_SEC \in Nat \ {0} /\ MAX_U64 \in Nat
  BY <1>1, Types, TimeAssumption DEF Inv
<1>3. Quotient(dur, k) \in Kept
  <2>1. dur.secs % k \in Nat /\ dur.secs \div k \in Nat /\ dur.nanos \in Nat
    <3>1. dur.secs \in Nat /\ dur.nanos \in Nat
      BY <1>2 DEF Kept
    <3>2. dur.secs % k \in 0..(k - 1) /\ dur.secs \div k \in Nat
      BY <1>2, <3>1, Division
    <3> QED
      BY <1>2, <3>1, <3>2
  <2>2. (dur.secs % k) * NANOS_IN_SEC + dur.nanos \in Nat
    BY <1>2, <2>1
  <2>3. ((dur.secs % k) * NANOS_IN_SEC + dur.nanos) \div k \in Nat
    BY <1>2, <2>2, Division
  <2> DEFINE u == ((dur.secs % k) * NANOS_IN_SEC + dur.nanos) \div k
  <2>4. Quotient(dur, k) = D((dur.secs \div k + (u \div NANOS_IN_SEC)) % (MAX_U64 + 1), u % NANOS_IN_SEC)
    BY DEF Quotient
  <2> HIDE DEF u
  <2>5. u \in Nat
    BY <2>3 DEF u
  <2>6. u % NANOS_IN_SEC \in 0..(NANOS_IN_SEC - 1) /\ u \div NANOS_IN_SEC \in Nat
    BY <1>2, <2>5, Division
  <2>7. (dur.secs \div k + (u \div NANOS_IN_SEC)) % (MAX_U64 + 1) \in 0..MAX_U64
    <3>1. MAX_U64 + 1 \in Nat \ {0} /\ dur.secs \div k + (u \div NANOS_IN_SEC) \in Nat
      BY <1>2, <2>1, <2>6
    <3>2. (dur.secs \div k + (u \div NANOS_IN_SEC)) % (MAX_U64 + 1)
              \in 0..((MAX_U64 + 1) - 1)
      BY <3>1, Division
    <3> QED
      BY <1>2, <3>2
  <2> QED
    BY <1>2, <2>4, <2>6, <2>7 DEF Kept
<1>4. lapse = "none" => Value(dur) = exact /\ Value(dur) <= Value(Infinite)
  BY DEF Inv, DurationExact, Bounded
<1>5. lapse = "none" => /\ Value(Quotient(dur, k)) = exact \div k
                        /\ Value(Quotient(dur, k)) <= Value(Infinite)
  BY <1>2, <1>4, QuotientExact
<1>6. exact \div k \in Int
  BY <1>2
<1> QED
  BY <1>1, <1>3, <1>5, <1>6, SetDurationKeeps DEF TimeLapses

LEMMA NowKeeps ==
    ASSUME Inv, Now
    PROVE  Inv'
<1>1. PICK i \in Normal : SetInstant(i, Value(i), "none")
  BY DEF Now
<1>2. i \in Kept
  BY Types DEF Inv
<1>3. Value(i) \in Int
  BY <1>2, ValueType
<1> QED
  BY <1>1, <1>2, <1>3, SetInstantKeeps DEF TimeLapses

LEMMA AdvanceKeeps ==
    ASSUME Inv, Advance
    PROVE  Inv'
<1> DEFINE e == IF Fits(InstantSum(instant, dur)) THEN instantExact + exact ELSE Value(FarFuture)
<1>1. SetInstant(SaturatingAdd(instant, dur), e, Skew("none"))
  BY DEF Advance
<1>2. /\ dur \in Kept /\ instant \in Kept /\ exact \in Int /\ instantExact \in Int
      /\ NANOS_IN_SEC \in Nat \ {0} /\ MAX_U64 \in Nat
  BY Types DEF Inv
<1>3. FarFuture \in Kept
  BY <1>2, FarFutureFits DEF FarFuture, Kept
<1>4. e \in Int
  BY <1>2, <1>3, ValueType
<1>5. SaturatingAdd(instant, dur) \in Kept
  BY <1>2, InstantBounds
<1>6. ASSUME lapse = "none", Skew("none") = "none"
      PROVE  Value(SaturatingAdd(instant, dur)) = e
  <2>1. dur.nanos < NANOS_IN_SEC
    BY <1>6 DEF Skew
  <2>2. Fits(InstantSum(instant, dur)) =>
            Value(InstantSum(instant, dur)) = Value(instant) + Value(dur)
    BY <1>2, <2>1, InstantExactness
  <2>3. Value(instant) = instantExact /\ Value(dur) = exact
    BY <1>6 DEF Inv, InstantExact, DurationExact
  <2> QED
    BY <2>2, <2>3 DEF SaturatingAdd
<1>7. Skew("none") \in TimeLapses
  BY DEF Skew, TimeLapses
<1> HIDE DEF e
<1> QED
  BY <1>1, <1>4, <1>5, <1>6, <1>7, SetInstantKeeps

LEMMA RewindKeeps ==
    ASSUME Inv, Rewind
    PROVE  Inv'
<1> DEFINE e == IF instantExact > exact THEN instantExact - exact ELSE 0
<1>1. SetInstant(SaturatingSub(instant, dur), e, Skew("none"))
  BY DEF Rewind
<1>2. dur \in Kept /\ instant \in Kept /\ exact \in Int /\ instantExact \in Int
  BY Types DEF Inv
<1>3. e \in Int
  BY <1>2
<1>4. SaturatingSub(instant, dur) \in Kept
  BY <1>2, InstantBounds
<1>5. ASSUME lapse = "none", Skew("none") = "none"
      PROVE  Value(SaturatingSub(instant, dur)) = e
  <2>1. dur.nanos < NANOS_IN_SEC
    BY <1>5 DEF Skew
  <2>2. Value(SaturatingSub(instant, dur)) =
            IF Value(instant) > Value(dur) THEN Value(instant) - Value(dur) ELSE 0
    BY <1>2, <2>1, InstantExactness
  <2>3. Value(instant) = instantExact /\ Value(dur) = exact
    BY <1>5 DEF Inv, InstantExact, DurationExact
  <2> QED
    BY <2>2, <2>3
<1>6. Skew("none") \in TimeLapses
  BY DEF Skew, TimeLapses
<1> HIDE DEF e
<1> QED
  BY <1>1, <1>3, <1>4, <1>5, <1>6, SetInstantKeeps

LEMMA MeasureKeeps ==
    ASSUME Inv, Measure
    PROVE  Inv'
<1> DEFINE since(j) == IF instantExact > Value(j) THEN instantExact - Value(j) ELSE 0
           now(j) == CASE instant.secs - j.secs > Half -> "wrapped"
                       [] instant.secs - j.secs < Half /\ LosesSecond(instant, j) -> "skewed"
                       [] OTHER -> "none"
<1>1. PICK j \in Normal :
          /\ j.secs <= MaxNow
          /\ instant.secs - j.secs # Half
          /\ SetDuration(DurationSince(instant, j), since(j), now(j))
  BY DEF Measure
<1>2. /\ instant \in Kept /\ j \in Kept /\ instantExact \in Int
      /\ NANOS_IN_SEC \in Nat \ {0}
  BY Types DEF Inv
<1>3. since(j) \in Int
  BY <1>2, ValueType
<1>4. DurationSince(instant, j) \in Normal
  BY <1>2, DurationSinceExact
<1>5. DurationSince(instant, j) \in Kept /\ DurationSince(instant, j).nanos < NANOS_IN_SEC
  BY <1>2, <1>4 DEF Normal, Kept
<1>6. ASSUME lapse = "none", now(j) = "none"
      PROVE  Value(DurationSince(instant, j)) = since(j)
  <2>1. instant.nanos \in 0..NANOS_IN_SEC /\ instant.secs \in Nat
    BY <1>2 DEF Kept
  <2>2. j.nanos < NANOS_IN_SEC /\ j.secs \in Nat /\ Half \in Int /\ j.secs < Half
    BY <1>1, <1>2, TimeAssumption DEF Normal, Half
  <2>3. ~(instant.secs - j.secs > Half)
    BY <1>6
  <2>4. instant.secs - j.secs < Half /\ j.secs - instant.secs < Half
    BY <1>1, <2>1, <2>2, <2>3
  <2>5. ~LosesSecond(instant, j)
    BY <1>6, <2>3, <2>4
  <2>7. Value(instant) = instantExact
    BY <1>6 DEF Inv, InstantExact
  <2> QED
    BY <1>2, <2>2, <2>4, <2>5, <2>7, DurationSinceExact
<1>7. now(j) \in TimeLapses
  BY DEF TimeLapses
<1>8. Value(DurationSince(instant, j)) <= Value(Infinite)
  BY <1>5, NormalBounded
<1> HIDE DEF since, now
<1> QED
  BY <1>1, <1>3, <1>5, <1>6, <1>7, <1>8, SetDurationKeeps

LEMMA StepInv ==
    ASSUME Inv, [Next]_vars
    PROVE  Inv'
<1>1. CASE UNCHANGED vars
  BY <1>1 DEF vars, Inv, TypeOK, DurationExact, InstantExact, Bounded, Value, Infinite
<1>2. CASE Next
  BY <1>2, ConstructKeeps, ConvertKeeps, AddKeeps, SubtractKeeps, AbsDiffKeeps,
     MultiplyKeeps, DivideKeeps, NowKeeps, AdvanceKeeps, RewindKeeps, MeasureKeeps DEF Next
<1> QED
  BY <1>1, <1>2

\* A difference is refused only if it is negative, or zero and the borrowed
\* second is among the nanoseconds.
LEMMA Refused ==
    ASSUME NEW x \in Kept, NEW y \in Kept, ~Fits(Difference(x, y))
    PROVE  \/ Value(x) < Value(y)
           \/ Value(x) = Value(y) /\ x.nanos = NANOS_IN_SEC
<1>1. /\ x.secs \in Int /\ x.secs >= 0 /\ x.nanos \in 0..NANOS_IN_SEC
      /\ y.secs \in Int /\ y.secs >= 0 /\ y.nanos \in 0..NANOS_IN_SEC
      /\ x.secs <= MAX_U64 /\ y.secs <= MAX_U64
      /\ NANOS_IN_SEC \in Nat \ {0} /\ MAX_U64 \in Nat
  BY TimeAssumption DEF Kept
<1> DEFINE e == Difference(x, y)
<1>2. /\ e.secs \in Int /\ e.secs <= MAX_U64 /\ e.nanos \in 0..NANOS_IN_SEC
      /\ e.nanos = NANOS_IN_SEC => x.nanos = NANOS_IN_SEC
  BY <1>1 DEF Difference
<1>3. e.secs <= -1
  BY <1>1, <1>2 DEF Fits
<1>4. Value(e) = Value(x) - Value(y)
  BY DifferenceExact
<1>5. Value(x) \in Int /\ Value(y) \in Int
  BY ValueType
<1>6. Value(e) = e.secs * NANOS_IN_SEC + e.nanos
  BY DEF Value
<1> HIDE DEF e
<1>7. e.secs * NANOS_IN_SEC <= -NANOS_IN_SEC /\ e.secs * NANOS_IN_SEC \in Int
  BY <1>1, <1>2, <1>3
<1> QED
  BY <1>1, <1>2, <1>4, <1>5, <1>6, <1>7

LEMMA InvRefuses ==
    ASSUME TypeOK
    PROVE  RefusesOnlyOverflow
<1>1. SUFFICES ASSUME NEW d \in Others
               PROVE  /\ ~Fits(Sum(dur, d)) => Value(dur) + Value(d) > Value(Infinite)
                      /\ ~Fits(Difference(d, dur)) => Value(d) < Value(dur)
                      /\ ~Fits(Difference(dur, d)) =>
                             \/ Value(dur) < Value(d)
                             \/ Value(dur) = Value(d) /\ dur.nanos = NANOS_IN_SEC
  BY DEF RefusesOnlyOverflow
<1>2. /\ dur \in Kept /\ d \in Kept /\ NANOS_IN_SEC \in Nat \ {0} /\ MAX_U64 \in Nat
      /\ d = dur \/ d.nanos < NANOS_IN_SEC
  BY Types DEF Others, Normal
<1>3. ASSUME ~Fits(Sum(dur, d)) PROVE Value(dur) + Value(d) > Value(Infinite)
  <2>1. /\ Sum(dur, d).secs \in Nat /\ Sum(dur, d).nanos \in Nat
        /\ Value(Sum(dur, d)) = Value(dur) + Value(d)
    BY <1>2, SumExact
  <2>2. Sum(dur, d).secs >= MAX_U64 + 1
    BY <1>2, <1>3, <2>1 DEF Fits
  <2>3. Sum(dur, d).secs * NANOS_IN_SEC >= (MAX_U64 + 1) * NANOS_IN_SEC
    BY <1>2, <2>1, <2>2
  <2>4. Value(Sum(dur, d)) >= (MAX_U64 + 1) * NANOS_IN_SEC
    BY <1>2, <2>1, <2>3 DEF Value
  <2>5. Value(Infinite) = (MAX_U64 + 1) * NANOS_IN_SEC - 1
    BY <1>2 DEF Value, Infinite
  <2>6. Value(dur) \in Int /\ Value(d) \in Int
    BY <1>2, ValueType
  <2> QED
    BY <1>2, <2>1, <2>4, <2>5, <2>6
<1>4. ASSUME ~Fits(Difference(d, dur)) PROVE Value(d) < Value(dur)
  <2>1. CASE d = dur
    <3>1. Difference(d, dur).secs = 0
      BY <1>2, <2>1 DEF Difference, Kept
    <3> QED
      BY <1>2, <1>4, <3>1 DEF Fits
  <2>2. CASE d.nanos < NANOS_IN_SEC
    <3>1. d.nanos # NANOS_IN_SEC
      BY <1>2, <2>2 DEF Kept
    <3> QED
      BY <1>2, <1>4, <3>1, Refused
  <2> QED
    BY <1>2, <2>1, <2>2
<1> QED
  BY <1>2, <1>3, <1>4, Refused

-----------------------------------------------------------------------------
(* The theorems.                                                           *)

LEMMA AlwaysInv == Spec => []Inv
<1>1. Init => Inv
  BY InitInv
<1>2. Inv /\ [Next]_vars => Inv'
  BY StepInv
<1> QED
  BY <1>1, <1>2, PTL DEF Spec

\* Seconds stay in a u64 and nanoseconds never exceed one second, whatever the
\* order of operations (Duration.hpp 280-283).
THEOREM TypeCorrect == Spec => []TypeOK
<1>1. Inv => TypeOK
  BY DEF Inv
<1> QED
  BY <1>1, AlwaysInv, PTL

\* Every sequence of operations on a Duration gives the exact result, or one
\* of the named lapses has happened (Duration.hpp 131-190, 240-257).
THEOREM DurationCorrect == Spec => []DurationExact
<1>1. Inv => DurationExact
  BY DEF Inv
<1> QED
  BY <1>1, AlwaysInv, PTL

\* And so does every sequence on an Instant, which saturates (Instant.cpp
\* 91-148).
THEOREM InstantCorrect == Spec => []InstantExact
<1>1. Inv => InstantExact
  BY DEF Inv
<1> QED
  BY <1>1, AlwaysInv, PTL

\* The checked operations refuse only what does not fit, but for one case of
\* an unnormalised Duration (Duration.hpp 131-172).
THEOREM RefusalCorrect == Spec => []RefusesOnlyOverflow
<1>1. Inv => RefusesOnlyOverflow
  BY InvRefuses DEF Inv
<1> QED
  BY <1>1, AlwaysInv, PTL

\* Against the comment on the members (Duration.hpp 282), the sum of two
\* Durations that make exactly one second is left with a whole second among
\* the nanoseconds, for every split of the second.
THEOREM ExactSecondNotCarried ==
    \A a \in 0..NANOS_IN_SEC : Sum(D(0, a), D(0, NANOS_IN_SEC - a)) = D(0, NANOS_IN_SEC)
  BY TimeAssumption DEF Sum
=============================================================================
