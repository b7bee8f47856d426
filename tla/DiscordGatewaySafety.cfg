SPECIFICATION Spec
CONSTANTS
    MaxSessions = 2
    MaxEvents = 3
    MaxCommands = 2
    FailureCap = 4
    IdentifyCap = 1
    Guilds = {g1, g2}
    Codes = {4000, 4004, 4007, 4014}
SYMMETRY Interchangeable
CONSTRAINTS Troubled EventsOrCommands
INVARIANTS
    EventsInOrder
    KeptUnlessTold
    NewestCommandWritten
PROPERTIES
    HandsOnInOrder
