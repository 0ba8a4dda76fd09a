SPECIFICATION UntilEarlyFair
CONSTANTS
    Task = {t1, t2, t3}
    NoTask = NoTask
    Queue = {"barrier"}
    PhaseModulus = 3
INVARIANTS CompletedByOne CompletedByAll EarlyOnlyIfOverlapped NoLostWakeup
PROPERTIES WaitersReturn
CHECK_DEADLOCK FALSE
