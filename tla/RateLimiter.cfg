CONSTANTS
    Results = {r1, r2, r3, r4}
    SyncQueue = SyncQueue
    Nil = Nil
SPECIFICATION Spec
INVARIANTS SyncQueueNeverBlocks
PROPERTIES LimiterIsFreed ImplementsLatestValue
CHECK_DEADLOCK FALSE
