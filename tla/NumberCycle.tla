------------------------------ MODULE NumberCycle ------------------------------
(***************************************************************************)
(* asp::NumberCycle (include/asp/math/NumberCycle.hpp): an int that goes   *)
(* round in a range.  Neither the order of the ends nor the first value is *)
(* checked, and the operand of + and - is not looked at.                   *)
(***************************************************************************)
EXTENDS Integers

CONSTANTS MAX_INT,   \* the largest int
          Ends,      \* the ints that a program uses as ends and values
          MaxTurns   \* bound: steps in one direction

ASSUME NumberCycleAssumption ==
    /\ MAX_INT \in Nat
    /\ Ends \subseteq -(MAX_INT + 1) .. MAX_INT
    /\ MaxTurns \in Nat

VARIABLES cycle,    \* the object
          start,    \* history: the value it was given last
          turns,    \* history: steps forward less steps back since then
          misused   \* history: the range was empty or did not hold the value
                    \* given, a number other than 1 was added, or an int overflowed

numberCycleVars == <<cycle, start, turns, misused>>

MIN_INT == -(MAX_INT + 1)

Within(v, from, to) == from <= v /\ v <= to

NumberCycleInit ==
    /\ cycle = [from |-> 0, to |-> 0, current |-> 0]
    /\ start = 0 /\ turns = 0 /\ misused = FALSE

\* The constructors; the one without a value begins at `from`.
Establish(val, from, to) ==
    /\ cycle' = [from |-> from, to |-> to, current |-> val]
    /\ start' = val /\ turns' = 0
    /\ misused' = ~Within(val, from, to)

Clamped(c, val) == IF val > c.to THEN c.to ELSE IF val < c.from THEN c.from ELSE val

\* set
SetValue(val) ==
    /\ cycle' = [cycle EXCEPT !.current = Clamped(cycle, val)]
    /\ start' = cycle'.current /\ turns' = 0
    /\ misused' = (cycle.from > cycle.to)

\* Mistake: the end of the range counts as outside.
StepUpEarly(c) ==
    IF c.current = MAX_INT THEN {c.from, MIN_INT}
    ELSE {IF c.current + 1 >= c.to THEN c.from ELSE c.current + 1}

\* increment, and operator+ whatever its operand.  MAX_INT + 1 is undefined:
\* it wraps, or the comparison is taken to hold.
StepUp(c) ==
    IF c.current = MAX_INT THEN {c.from, MIN_INT}
    ELSE {IF c.current + 1 > c.to THEN c.from ELSE c.current + 1}

\* decrement and operator-.
StepDown(c) ==
    IF c.current = MIN_INT THEN {c.to, MAX_INT}
    ELSE {IF c.current - 1 < c.from THEN c.to ELSE c.current - 1}

\* ++, and c = c + n.
Up(n) ==
    /\ turns < MaxTurns
    /\ \E v \in StepUp(cycle) : cycle' = [cycle EXCEPT !.current = v]
    /\ turns' = turns + 1
    /\ misused' = (misused \/ n # 1 \/ cycle.current = MAX_INT)
    /\ UNCHANGED start

Down(n) ==
    /\ turns > -MaxTurns
    /\ \E v \in StepDown(cycle) : cycle' = [cycle EXCEPT !.current = v]
    /\ turns' = turns - 1
    /\ misused' = (misused \/ n # 1 \/ cycle.current = MIN_INT)
    /\ UNCHANGED start

NumberCycleNext ==
    \/ \E val, from, to \in Ends : Establish(val, from, to)
    \/ \E val \in Ends : SetValue(val)
    \/ \E n \in {1, 2} : Up(n) \/ Down(n)

-----------------------------------------------------------------------------
\* As many steps as it takes to go round come back to the same value, in both
\* directions and mixed: the value is the one that counting modulo the size of
\* the range gives, unless the cycle was misused.
CycleRight ==
    ~misused => LET size == cycle.to - cycle.from + 1
                IN  cycle.current = cycle.from + ((start - cycle.from + turns) % size)

=============================================================================
