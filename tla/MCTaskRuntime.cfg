SPECIFICATION Spec
CONSTANTS
    Tasks = {t1, t2}
    Handlers = {h1, h2}
    Worker = worker
    Null = Null
    MaxAttempts = 1
    MaxApprovals = 2
    JoinTimesOut = FALSE
    MaxExits = 1
    MaxFaults = 0
SYMMETRY Symmetry
CHECK_DEADLOCK FALSE
INVARIANTS
    CancelledNeverRan
PROPERTIES
    TaskPromiseSpec
