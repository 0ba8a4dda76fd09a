SPECIFICATION MCFairSpec
CONSTANTS
    Task = {t1, t2, t3}
    NoTask = NoTask
    Queue = {"mutex", "cv"}
INVARIANTS LockStillSound AsleepOnlyIfMissed
PROPERTIES NotifiedReturn
CHECK_DEADLOCK FALSE
