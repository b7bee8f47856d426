SPECIFICATION Spec
CONSTANTS
    MaxSessions = 1
    MaxEvents = 4
    MaxCommands = 0
    FailureCap = 4
    IdentifyCap = 1
    Guilds = {g1}
    Codes = {4000}
INVARIANTS
    ReplayIsNotCounted
