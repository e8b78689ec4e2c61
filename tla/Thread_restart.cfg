\* start() on a thread that was asked to stop and not joined.
SPECIFICATION FairSpec
CONSTANTS
    Objs = {o1}
    Storages = {s1}
    MaxRuns = 2
    None = None
    Liberties <- Restarts
PROPERTIES StartReturns
