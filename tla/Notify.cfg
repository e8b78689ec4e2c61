\* Two waiters, a third thread, one lock of any kind, two pieces of work.
SPECIFICATION Spec
CONSTANTS
    p1 = p1
    p2 = p2
    p3 = p3
    g1 = g1
    g2 = g2
    g3 = g3
    Threads = {p1, p2, p3}
    Waiters = {p1, p2}
    Guards = {g1, g2, g3}
    Locks = {workLock}
    MayCall <- MayCallDef
    WorkLock = workLock
    Of <- OfDef
    MaxWork = 2
    MaxLost = 1
    Null = Null
INVARIANTS HeldByGuards NoLostWakeup
PROPERTIES TimedWaitsEnd
