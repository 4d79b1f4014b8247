\* The eNB stops when it dies, and when the bounds are used up.
SPECIFICATION Spec
CONSTANTS
    SliceNames = {1, 2}
    Shares = {0, 2, 4}
    Imsis = {1, 2}
    Tmsis = {1}
    NumRntis = 3
    SliceDb <- MCSliceDb
    ImsiTexts = {"1", "x"}
    StoUl <- MCStoUl
    MaxRequests = 3
    MaxRntis = 4
    MaxEvents = 5
INVARIANTS CycleIsProportional CycleWithinBounds ModelKnowsTheSlices MappingTracked ServedInItsSlice
PROPERTIES RefusalsChangeNothing ReportShowsTheRequest
CHECK_DEADLOCK FALSE
