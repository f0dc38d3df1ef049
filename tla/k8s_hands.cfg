SPECIFICATION Spec
CONSTANTS
    t1 = t1
    t2 = t2
    Tasks <- Two
    NoTask = none
    LastQueue = 2
    MaxPods = 0
    Jobs = TRUE
    Basic = FALSE
    Impersonate = TRUE
    Prompt = FALSE
    MaxOps = 3
    MaxFaults = 1
SYMMETRY Interchangeable
INVARIANTS NoStranded
PROPERTIES RunsUndisturbed StrictPriority
CHECK_DEADLOCK FALSE
