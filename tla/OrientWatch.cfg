SPECIFICATION Spec
CONSTANTS
    Messages = {m1}
    Alerts = {a1}
    Habits = {h1}
    Kinds = {"retrying", "wait"}
    None = None
    MaxOccurrence = 1
    MaxRuns = 2
    MaxTrouble = 1
INVARIANTS
    ReceiptsAreAccepted
    ToldOnce
PROPERTIES
    HabitsDoNotWait
    NewsIsTold
CHECK_DEADLOCK FALSE
