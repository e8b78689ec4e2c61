\* Two blocks, one of which knows itself.
SPECIFICATION FairSpec
CONSTANTS
    Threads = {t1, t2}
    Blocks = {b1, b2}
    SelfAware = {b1}
    Ptrs = {p1, p2, p3}
    Weaks = {w1, w2}
    Null = Null
    MaxLeaked = 1
INVARIANTS CountsExact NoDangling
PROPERTIES NoResurrection UnreferencedIsFreed
