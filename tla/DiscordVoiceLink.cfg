SPECIFICATION Spec
CONSTANTS
    Names = {1, 2, 3}
    MaxTrouble = 1
    MaxInFlight = 2
INVARIANTS
    ConnectedIsTrue
    GoalIsPursued
    OnlyStandingConnections
CHECK_DEADLOCK FALSE
PROPERTIES
    EndsConnected
