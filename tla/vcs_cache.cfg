SPECIFICATION Spec
CONSTANTS
    a1 = a1
    a2 = a2
    Agents <- Two
    Nobody = nobody
    Cache = cache
    Enabled = TRUE
    Reclone = TRUE
    OnTimeout <- Both
    MaxPushes = 1
    MaxFaults = 2
    MaxCrashes = 1
SYMMETRY Interchangeable
INVARIANTS OwnFaultsOnly CopiedWhole CopiedFresh TempGone
CHECK_DEADLOCK FALSE
