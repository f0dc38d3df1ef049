SPECIFICATION FairSpec
CONSTANTS
    Tasks = {t1, t2, t3}
    NoTask = NoTask
    Gpus = {0}
    Unit = 2
    Letters = 2
    MinMax <- WholeAndHalf
    OrderFairness = FALSE
    Prompt = TRUE
    MaxFaults = 0
CHECK_DEADLOCK FALSE
INVARIANTS
    NothingShutDown
PROPERTIES
    EventuallyPulled
