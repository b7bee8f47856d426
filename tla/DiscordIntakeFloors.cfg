SPECIFICATION Spec
CONSTANTS
    Guilds = {g1}
    Dms = {d1}
    None = None
    MaxGuildId = 1
    MaxDmId = 2
    PullSize = 1
    Pulls = 1
    RecentSize = 1
    MaxStarts = 2
    MaxFailures = 1
    MaxLosses = 0
    MaxEdits = 1
    MaxDeletes = 1
    MaxReads = 0
INVARIANTS
    HistoryStaysOut
    HeardIsKept
CHECK_DEADLOCK FALSE
