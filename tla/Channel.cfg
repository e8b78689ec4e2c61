\* Three threads, one of which may also call waitForMessages.
SPECIFICATION FairSpec
CONSTANTS
    Procs = {p1, p2, p3}
    Peekers = {p1}
    Msgs = {a, b}
    NoMsg = NoMsg
    MaxSent = 3
INVARIANTS TypeOK NoLostWakeup
PROPERTIES ImplementsFifo CallReturns
