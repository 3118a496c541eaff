CONSTANTS
    Recordings = {r1, r2}
    Posts = {p1}
    NoRecording = NoRecording
    MaxJobs = 3
    SharedOptions = FALSE
    MayFail = FALSE
    MaxSends = 2
    MaxSkips = 1
    MaxOpenPosts = 1
    MaxRestarts = 0
SPECIFICATION FairSpec
INVARIANTS
    NoOracleLeak
PROPERTIES
    EveryJobSettles
    AnswersReachTheDraft
CHECK_DEADLOCK FALSE
