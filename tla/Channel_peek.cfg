\* A thread in waitForMessages beside one in popTimeout.
SPECIFICATION Spec
CONSTANTS
    Procs = {p1, p2, p3}
    Peekers = {p1}
    Msgs = {a}
    NoMsg = NoMsg
    MaxSent = 2
INVARIANTS BlocksOnlyWithoutData
