SPECIFICATION Spec
CONSTANTS
    NoClaim = NoClaim
    MaxRows = 2
    MaxMatches = 2
    RescueBudget = 2
    IntentWindow = 1
    SettleTail = 2
    Secrets = {"secret"}
    MaxSuggestions = 1
    Checks = {"intent"}
    Categories = {"boundary"}
    Recordings <- MCRecordings
    Authored <- MCAuthored
    IdleGap = 2
    MaxPerSegment = 2
    IdleHint = 2
    MaxNodes = 2
    MaxNetwork = 1
    MaxConsole = 1
    MaxSaid = 1
    RerenderFloor = 2
    RecurringFloor = 2
    Guesses <- MCGuesses
    Requests <- MCRequests
    Answers <- MCAnswers
    JudgeAnswers <- MCJudgeAnswers
    CoverageAnswers <- MCCoverageAnswers
    Budget = 2
    MaxTurns = 4
    MaxForced = 2
    MaxDamage = 1
INVARIANTS
    SessionIsReadWhole ProvedClaimsHold NothingWrittenIsLost
PROPERTIES
    RefusalsAreTrue
CHECK_DEADLOCK FALSE
