SPECIFICATION SLFairSpec
CONSTANTS
    Task = {t1, t2, t3, t4}
    NoTask = NoTask
    Queue = {"mutex"}
INVARIANTS NodeLifetime OwnedExclusively NoLostWakeup PointerTellsOwner
PROPERTIES WaitersAcquire ImplementsLock
