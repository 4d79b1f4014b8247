SPECIFICATION Spec
CONSTANTS
    NoReconnect = FALSE
    QueueCap = 6
    PoolSize = 2
    DelayInc = 5
    DelayMax = 10
    MaxConns = 3
CHECK_DEADLOCK FALSE
INVARIANTS TypeOK QueuedForThisConnection DescriptorOpen PushNeverBlocks NeverAdrift StopReleasesAll
PROPERTIES ShutdownIsHandled
