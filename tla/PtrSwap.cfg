\* Two threads, three blocks, each of the safe ways to use the cell.
SPECIFICATION Spec
CONSTANTS
    Threads = {t1, t2}
    Blocks = {b1, b2, b3}
    Null = Null
    Modes <- Disciplined
    MaxPushes = 2
SYMMETRY Symmetry
INVARIANTS CountsExact NoDangling
PROPERTIES RcuIsAtomic
\* The bounds on blocks and pushes may leave rcu's function without either.
CHECK_DEADLOCK FALSE
