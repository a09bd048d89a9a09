SPECIFICATION Spec
CONSTANTS
    c1 = c1
    c2 = c2
    t1 = t1
    Clients = {c1, c2}
    Tokens = {t1}
    Categories = {"general", "chat"}
    Limit <- MCLimit
    Window = 2
    FailureLimit = 2
    FailureWindow = 2
    Cooldown = 1
    Ticks = 2
    Senders <- MCSenders
    Failing = {c1}
    Requests = {r1, r2}
    MaxTime = 5
    Null = Null
SYMMETRY Symmetry
CHECK_DEADLOCK FALSE
INVARIANTS
    WindowsInv
    RetryAfterIsExact
    FewFailuresShown
