SPECIFICATION Spec
CONSTANTS
    Tasks = {t1}
    Agents = {a1, a2}
    NoTask = NoTask
    ResetTests = 1
    Docker = FALSE
    ForcePull = FALSE
    Impersonate = FALSE
    MaxOps = 3
    MaxFaults = 1
SYMMETRY Symmetry
CHECK_DEADLOCK FALSE
INVARIANT
    SoleHolder
