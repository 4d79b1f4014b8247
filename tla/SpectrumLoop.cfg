SPECIFICATION Spec
CONSTANTS
    Detections <- MCUsable
    Reports <- MCPairReports
    FlushAt = 1
    Chunks = 2
    Faults = FALSE
    ChanCap = 2
    MaxReports = 2
    MaxCaptures = 2
    MaxRequests = 3
CHECK_DEADLOCK FALSE
INVARIANTS TypeOK ModeMatchesCommand AnswersMatchQuestions AlarmHeldInIqMode
PROPERTIES NoOlderCommandHandled StandingRequestApplied
