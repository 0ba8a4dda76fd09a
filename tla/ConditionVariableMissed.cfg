SPECIFICATION MCSpec
CONSTANTS
    Task = {t1, t2}
    NoTask = NoTask
    Queue = {"mutex", "cv"}
INVARIANT NoMissedNotification
CHECK_DEADLOCK FALSE
