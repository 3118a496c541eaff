CONSTANTS
    Actions = {a1}
    Notes = {n1}
    Frames = {f1}
    NoAction = NoAction
    NoFrame = NoFrame
    Export = TRUE
    MaxSessions = 2
    MaxStops = 1
    MaxClock = 1
    MaxLoads = 1
    MaxEvictions = 0
SPECIFICATION FairSpec
PROPERTIES
    EveryWaitEnds
CHECK_DEADLOCK FALSE
