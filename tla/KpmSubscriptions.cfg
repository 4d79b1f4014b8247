\* The agent may stop for good: BusyWaitIsHarmless does not hold.
SPECIFICATION Spec
CONSTANTS
    Periods = {10, 20}
    Wanted <- MCWanted
    QueueCap = 2
    MaxRequests = 3
INVARIANTS GrantedFirst OneTimerPerPeriod
PROPERTIES KeepsReporting AgentReturns
CHECK_DEADLOCK FALSE
