SPECIFICATION Spec
CONSTANTS
    Frames <- MCFrames
    FrameId <- MCFrameId
    Kinds <- MCKinds
    Values = {"address", "card"}
    Typed <- MCTyped
    Lines <- MCLines
    NoValue = NoValue
    Lead = 1
    MaxCallsPerEvent = 1
    MaxActions = 2
    MaxEffort = 4
    MaxNotes = 1
    MaxClock = 2
    MaxLoads = 1
    MaxStarts = 2
INVARIANTS
    CallsBelongToTheirAction AnsweredCallsAreKept NotesFollowTheirAction ParametersFit
CHECK_DEADLOCK FALSE
