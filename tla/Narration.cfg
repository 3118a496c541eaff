SPECIFICATION Spec
CONSTANTS
    MaxStarts = 2
    MaxChunks = 2
    MaxEffort = 7
INVARIANTS
    MicrophoneClosesWithTheRecording AudioIsOneStream MutedIsSilent
CHECK_DEADLOCK FALSE
