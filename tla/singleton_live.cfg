SPECIFICATION FairSpec
CONSTANTS
    a = a
    b = b
    c = c
    Procs = {a, b}
    Given = {a, b}
    MaxKills = 2
CHECK_DEADLOCK FALSE
PROPERTIES ComesUp
