SPECIFICATION SLFairSpec
CONSTANTS
    Task = {t1, t2, t3}
    NoTask = NoTask
    Queue = {"writer", "reader"}
INVARIANTS StateMatchesOwners ReaderNotForgotten MembersTellOwner
PROPERTIES ReadersAcquire ParkedWritersServed ImplementsSharedLock
