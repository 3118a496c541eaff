CONSTANTS
    Recordings = {r1}
    Posts = {p1, p2}
    NoRecording = NoRecording
    MaxJobs = 3
    SharedOptions = TRUE
    MayFail = TRUE
    MaxSends = 2
    MaxSkips = 1
    MaxOpenPosts = 2
    MaxRestarts = 1
SPECIFICATION Spec
SYMMETRY Interchangeable
INVARIANTS
    OneWriterPerRecording
    FoldedInIsRead
PROPERTIES
    OnlySubmissionsChangeAnswers
    KeepsTheBook
CHECK_DEADLOCK FALSE
