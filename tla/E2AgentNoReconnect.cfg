SPECIFICATION Spec
CONSTANTS
    NoReconnect = TRUE
    QueueCap = 6
    PoolSize = 2
    DelayInc = 5
    DelayMax = 10
    MaxConns = 2
CHECK_DEADLOCK FALSE
INVARIANTS NoSecondConnection
