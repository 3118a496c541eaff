CONSTANTS
    Documents <- MCDocuments
    Words = {w}
    NoClaim = NoClaim
    NoStep = NoStep
    MaxEdits = 3
SPECIFICATION Spec
INVARIANTS
    DocumentIsCoherent
    EventsAreAccountedFor
    ChangedStepsAreLabelled
    
PROPERTIES
    OnlyAnswersConfirm
    RewordingStaysInItsLine
ACTION_CONSTRAINT OnlyReviewed
CHECK_DEADLOCK FALSE
