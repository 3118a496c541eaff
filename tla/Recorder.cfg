CONSTANTS
    Actions = {a1, a2}
    Notes = {}
    Frames = {f1, f2}
    NoAction = NoAction
    NoFrame = NoFrame
    Export = FALSE
    MaxSessions = 1
    MaxStops = 2
    MaxClock = 2
    MaxLoads = 0
    MaxEvictions = 1
SPECIFICATION Spec
SYMMETRY Interchangeable
INVARIANTS
    NoEventOverwritten
    DrainedBeforeStopped
PROPERTIES
    OnlyLateActionsAreRefused
CHECK_DEADLOCK FALSE
