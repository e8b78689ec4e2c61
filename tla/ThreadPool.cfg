\* Two workers, any exception function, tasks that push tasks; the Windows
\* build, whose destructor also ends when all workers are dead.
SPECIFICATION FairSpec
CONSTANTS
    Workers = {w1, w2}
    Clients = {c1}
    Tasks = {t1, t2}
    None = None
    Handlers <- AllHandlers
    Windows = TRUE
INVARIANTS WorkAccounting NothingDropped
PROPERTIES JoinWaitsForAll TasksRun JoinsReturn DeadPoolIsDestroyed
\* Workers that all died leave join waiting for ever: the system may stop.
CHECK_DEADLOCK FALSE
