\* Plain uses, restarts, refills and overwrites of two objects.
SPECIFICATION FairSpec
CONSTANTS
    Objs = {o1, o2}
    Storages = {s1, s2}
    MaxRuns = 2
    None = None
    Liberties <- Freely
INVARIANTS SoleRunner OwnerReachesRun HandlesAreJoined
PROPERTIES TokenStopIsFinal EndsOnlyWhenAsked StopReturns
