SPECIFICATION MCFairSpec
CONSTANTS
    Task = {t1, t2, t3, t4}
    Active = {t1, t2, t3}
    NoTask = NoTask
    Queue = {"latch", "copy"}
    Expected = 3
    Value = {0, 1, 2}
INVARIANTS TypeOK NoEarlyReturn NoLostWakeup ChangeNotMissed
PROPERTIES WaitersReturn ChangeEndsWait
CHECK_DEADLOCK FALSE
