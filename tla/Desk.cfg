CONSTANTS
    Names = {one, several}
    MaxRounds = 3
    MaxProved = 1
    MaxRefused = 1
    MaxFails = 1
    Judging = TRUE
    Suggesting = TRUE
    MaxRuns = 2
    Requests = {q1, q2}
    MayFail = TRUE
SPECIFICATION DeskSpec
SYMMETRY Interchangeable
ACTION_CONSTRAINT Bounded
INVARIANTS
    BestRoundShips
    VerdictCoversTheDraft
    RecordMatchesDocument
    UntouchedRunIsWhole
    CalmExportsAreCleared
CHECK_DEADLOCK FALSE
