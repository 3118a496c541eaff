CONSTANTS
    Names = {one}
    MaxRounds = 2
    MaxProved = 0
    MaxRefused = 0
    MaxFails = 0
    Judging = TRUE
    Suggesting = TRUE
    MaxRuns = 1
SPECIFICATION PipelineSpec
INVARIANTS
    TraceRecordsTheRun
CHECK_DEADLOCK FALSE
