SPECIFICATION FairSpec
CONSTANTS
    Tasks = {t1}
    Agents = {a1}
    NoTask = NoTask
    ResetTests = 4
    Docker = FALSE
    ForcePull = FALSE
    Impersonate = FALSE
    MaxOps = 2
    MaxFaults = 0
CHECK_DEADLOCK FALSE
PROPERTY
    AbortEndsTask
