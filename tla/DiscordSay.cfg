SPECIFICATION Spec
CONSTANTS
    Requests = {r1, r2}
    NoRequest = NoRequest
    Stale = 2
    MaxRuns = 3
    MaxStoreFailures = 1
    MaxInterruptions = 1
    FailedInARow = 2
INVARIANTS
    NotReplayedOnceRecorded
    SettledForGood
    PlayedIsTrue
PROPERTIES
    AskedIsSettled
