SPECIFICATION Spec
CONSTANTS
    Task = {t1, t2}
    NoTask = NoTask
    Queue = {"writer", "reader"}
INVARIANT NoStrandedWriter
