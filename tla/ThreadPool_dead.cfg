\* The POSIX build with an exception function that throws.
SPECIFICATION FairSpec
CONSTANTS
    Workers = {w1, w2}
    Clients = {c1}
    Tasks = {t1, t2}
    None = None
    Handlers = {"throws"}
    Windows = FALSE
PROPERTIES DeadPoolIsDestroyed
\* Workers that all died leave join waiting for ever: the system may stop.
CHECK_DEADLOCK FALSE
