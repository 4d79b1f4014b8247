SPECIFICATION Spec
CONSTANTS
    Detections <- MCUnusable
    Reports <- MCMixedReports
    FlushAt = 3
    Chunks = 1
    Faults = TRUE
    ChanCap = 2
    MaxReports = 4
    MaxCaptures = 1
    MaxRequests = 2
CHECK_DEADLOCK FALSE
PROPERTIES KeysAreNewest
