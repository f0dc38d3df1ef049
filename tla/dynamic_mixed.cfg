SPECIFICATION Spec
CONSTANTS
    Tasks = {t1, t2, t3}
    NoTask = NoTask
    Gpus = {0, 1}
    Unit = 2
    Letters = 2
    MinMax <- Mixed
    OrderFairness = TRUE
    Prompt = TRUE
    MaxFaults = 1
SYMMETRY Symmetry
CHECK_DEADLOCK FALSE
INVARIANTS
    TypeOK
    NoOverPull
    EnoughGpus
    SuffixesDiffer
    ChargedOnce
    AllShutDown
