SPECIFICATION MCFairSpec
CONSTANTS
    Task = {t1, t2, t3}
    Active = {t1, t2}
    NoTask = NoTask
    Queue = {s1, s2}
    State = {s1, s2}
    Promise = {p1, p2}
    Value = {v1}
    NoState = NoState
    NoPromise = NoPromise
    NoValue = NoValue
INVARIANTS ReadersFindResult NoLostWakeup OrphanedOnlyByMove
PROPERTIES SettledEndsWait ImplementsCell
CHECK_DEADLOCK FALSE
