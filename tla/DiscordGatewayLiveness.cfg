SPECIFICATION Spec
CONSTANTS
    MaxSessions = 1
    MaxEvents = 2
    MaxCommands = 0
    FailureCap = 8
    IdentifyCap = 8
    Guilds = {g1}
    Codes = {4000}
PROPERTIES
    IdentifiesSpaced
    CaughtUp
