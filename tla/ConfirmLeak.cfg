CONSTANTS
    Recordings = {r1, r2}
    Posts = {p1}
    NoRecording = NoRecording
    MaxJobs = 3
    SharedOptions = TRUE
    MayFail = FALSE
    MaxSends = 2
    MaxSkips = 0
    MaxOpenPosts = 1
    MaxRestarts = 0
SPECIFICATION Spec
INVARIANTS
    NoOracleLeak
CHECK_DEADLOCK FALSE
