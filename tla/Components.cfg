\* One component at a time.  SmallVec stops at undefined behaviour, an iterator
\* when it is consumed, the calls and the clock at their bounds.
SPECIFICATION Spec
CONSTANTS
    \* SmallVec
    Vectors = {v1, v2}
    Edited = {v1}
    Items = {a, b}
    N = 1
    Raw = Raw
    Lists <- ListsDef
    Capacities = {2, 4}
    MaxSize = 3
    MaxLapses = 1
    \* Cache
    Keys = {k1, k2, k3}
    Spans = {0, 1}
    Limits = {1, 2}
    LastTick = 3
    \* Iter
    Cases <- MCCases
    Width = 2
    MaxPolls = 6
    MaxHead = 1
    \* Files
    Callers = {c1, c2}
    Paths = {p1, p2}
    Inodes = {f1, f2}
    Old = Old
    Zero = Zero
    None = None
    EmptyDir = EmptyDir
    FullDir = FullDir
    Sizes = {1, 2}
    MaxCalls = 1
    MaxFaults = 2
    \* Strings
    Boxes = {b1, b2}
    Cows = {w1, w2}
    Buffers = {m1, m2, m3}
    NoBuffer = NoBuffer
    NUL = NUL
    Character = x
    Texts <- TextsDef
CHECK_DEADLOCK FALSE
INVARIANTS
    ContentsRight LifetimesRight
    YieldsDenoted TakesOnlyNeeded ResultRight
    OutcomesRight
    StringsRight
PROPERTIES
    GrowsWithinLimit LeavesOnlyWhenDue
