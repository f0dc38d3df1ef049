SPECIFICATION FairSpec
CONSTANTS
    LastQueue = 2
    Orders = {TRUE, FALSE}
    Limits = {0, 1}
    CrashBackoff = TRUE
    MaxDelay = 3
    MaxServices = 3
    MaxSwitches = 2
    MaxFaults = 2
INVARIANTS InstanceLimit OffIsHeeded BackoffDoubles
PROPERTY NoStarvation
