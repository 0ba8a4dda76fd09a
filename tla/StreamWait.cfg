SPECIFICATION FairSpec
CONSTANTS
    MaxStreams = 3
    HostFunc = {"cuda"}
INVARIANT ResumedOnce
PROPERTIES AnsweredWaitEnds ImplementsJoin
CHECK_DEADLOCK FALSE
