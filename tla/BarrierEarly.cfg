SPECIFICATION Spec
CONSTANTS
    Task = {t1, t2}
    NoTask = NoTask
    Queue = {"barrier"}
    PhaseModulus = 256
INVARIANT NoEarlyReturn
CHECK_DEADLOCK FALSE
