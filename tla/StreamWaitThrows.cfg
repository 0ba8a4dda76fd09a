SPECIFICATION FairSpec
CONSTANTS
    MaxStreams = 1
    HostFunc = {}
PROPERTY SetupErrorResumes
CHECK_DEADLOCK FALSE
