SPECIFICATION Spec
CONSTANTS
    Guilds = {}
    Dms = {d1}
    None = None
    MaxGuildId = 1
    MaxDmId = 3
    PullSize = 1
    Pulls = 2
    RecentSize = 1
    MaxStarts = 1
    MaxFailures = 1
    MaxLosses = 1
    MaxEdits = 0
    MaxDeletes = 0
    MaxReads = 1
INVARIANTS
    CoveredIsStored
PROPERTIES
    OwedIsStored
CHECK_DEADLOCK FALSE
