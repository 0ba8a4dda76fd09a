SPECIFICATION FairSpec
CONSTANTS
    Task = {t1, t2, t3, t4}
    NoTask = NoTask
    Queue = {"semaphore"}
    Capacities = {1, 2}
    StorageMax = {3}
INVARIANTS PermitsConserved EveryPermitHasTaker
PROPERTIES AcquirersSucceed
