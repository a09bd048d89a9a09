SPECIFICATION FairSpec
CONSTANTS
    Tasks = {t1}
    Handlers = {h1, h2}
    Worker = worker
    Null = Null
    MaxAttempts = 2
    MaxApprovals = 3
    JoinTimesOut = FALSE
    MaxExits = 2
    MaxFaults = 3
CHECK_DEADLOCK FALSE
INVARIANTS
    RuntimeInv
    ApprovalsExclusive
    DeliveredIsSettled
PROPERTIES
    ReconciledAgree
    JobLifecycleSpec
    TasksProgress
