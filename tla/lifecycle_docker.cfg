SPECIFICATION FairSpec
CONSTANTS
    Tasks = {t1}
    Agents = {a1}
    NoTask = NoTask
    ResetTests = 4
    Docker = TRUE
    ForcePull = TRUE
    Impersonate = TRUE
    MaxOps = 3
    MaxFaults = 1
CHECK_DEADLOCK FALSE
INVARIANTS
    NoStrandedTask
    GivesUpRightly
    KillStillWanted
PROPERTIES
    AbortIsStopped
    StopIsHonoured
    ResetIsHonoured
    ExitIsHandled
    ImplementsTaskRun
