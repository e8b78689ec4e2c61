\* One component at a time.  A conversion ends, and so do the calls and the
\* clock at their bounds.
SPECIFICATION MCSpec
CONSTANTS
    \* NumberCycle
    MAX_INT = 3
    Ends <- EndsDef
    MaxTurns = 5
    \* SystemTime
    NanosPerSec = 4
    NanosPerTick = 2
    MaxI64 = 63
    EpochTicks = 8
    WholeSecs = {0, 1, 15, 40}
    MaxSums = 3
    \* IntegerText
    MaxSigned = 127
    SmallestDigits <- SmallestDef
    WideDigits <- WideDef
    Parsed <- ParsedDef
    \* Time
    NANOS_IN_SEC = 4
    MAX_U64 = 15
    FAR_FUTURE = 6
    MaxNow = 2
    MaxFactor = 3
CHECK_DEADLOCK FALSE
INVARIANTS
    NumbersRight
    TypeOK DurationExact InstantExact RefusesOnlyOverflow
