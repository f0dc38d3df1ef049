SPECIFICATION Spec
CONSTANTS
    a = a
    b = b
    c = c
    Procs = {a, b, c}
    Given = {a, b}
    MaxKills = 1
CHECK_DEADLOCK FALSE
INVARIANTS SingleInstance SlotsDiffer OnRecord
PROPERTIES TakenByTheLiving
