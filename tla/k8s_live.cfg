SPECIFICATION FairSpec
CONSTANTS
    t1 = t1
    t2 = t2
    Tasks <- Two
    NoTask = none
    LastQueue = 2
    MaxPods = 1
    Jobs = FALSE
    Basic = TRUE
    Impersonate = FALSE
    Prompt = TRUE
    MaxOps = 2
    MaxFaults = 1
INVARIANT PodLimit
PROPERTIES Launched PodsGoAway
CHECK_DEADLOCK FALSE
