\* Two threads call rcu on one cell, as the test of rcu does.
SPECIFICATION Spec
CONSTANTS
    Threads = {t1, t2}
    Blocks = {b1, b2, b3}
    Null = Null
    Modes <- RcuOnly
    MaxPushes = 2
INVARIANTS RcuSeesLiveData
CHECK_DEADLOCK FALSE
