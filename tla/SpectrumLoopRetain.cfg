SPECIFICATION Spec
CONSTANTS
    Detections <- MCDetections
    Reports <- MCReports
    FlushAt = 2
    Chunks = 2
    Faults = FALSE
    ChanCap = 2
    MaxReports = 2
    MaxCaptures = 3
    MaxRequests = 3
CHECK_DEADLOCK FALSE
INVARIANTS BlankRequestsChecked
