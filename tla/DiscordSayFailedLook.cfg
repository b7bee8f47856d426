SPECIFICATION Spec
CONSTANTS
    Requests = {r1, r2}
    NoRequest = NoRequest
    Stale = 2
    MaxRuns = 3
    MaxStoreFailures = 2
    MaxInterruptions = 1
    FailedInARow = 2
INVARIANTS
    FailedLookIsRepeated
