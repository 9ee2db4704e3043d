\* Both test modes, a partition without slots, failing calls, completions that
\* race with watchdogs.
SPECIFICATION TestSpec
CONSTANTS
    h1 = h1
    h2 = h2
    h3 = h3
    h4 = h4
    p1 = p1
    p2 = p2
    p3 = p3
    Clients = {cyclic_client}
    HwTasks = {h1, h2, h3, h4}
    Slots = {0, 1, 2}
    Partitions = {p1, p2, p3}
    PartOfSlot <- McPartOfSlot
    PartOfTask <- McPartOfTask
    Worlds <- McWorlds
    Mode = "RANDOM"
    Overlap = TRUE
    Faults = TRUE
    None = None
INVARIANTS
    TestInv
PROPERTIES
    NeverSkips
    EveryTaskTested
CHECK_DEADLOCK FALSE
