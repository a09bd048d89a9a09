SPECIFICATION FairSpec
CONSTANTS
    Tasks = {j1, j2}
    Workers = {w1, w2}
    Null = Null
    MaxAttempts = 2
    LeaseSeconds = 2
    RetryDelay = 1
    BusyTimeout = 0
    Observations = {}
PROPERTIES
    JobsSettle
