SPECIFICATION FairSpec
CONSTANTS
    Pushers = {p1, p2, p3}
    Clients = {c1, c2}
    Stoppers = {s1}
    Capacity = 1
    MaxPorts = 1
    MaxPushes = 1
    MaxResets = 1
CHECK_DEADLOCK FALSE
INVARIANTS StopLeavesNothing
PROPERTIES KeepsPromise PushReturns ClosingReturns
