SPECIFICATION FairSpec
CONSTANTS
    Keys = {k1, k2}
    Requests = {r1, r2}
    Handlers = {h1, h2}
    Null = Null
    Expiry = 1
    BusyTimeout = 0
    BatchSize = 1
INVARIANTS
    WorkIsReserved
    AnswersMatch
PROPERTIES
    FinalIsStable
    ExpiredGoes
