\* Two slots in one partition shared by two hardware tasks, three clients;
\* driver and socket calls may fail.
SPECIFICATION Spec
CONSTANTS
    c1 = c1
    c2 = c2
    c3 = c3
    c4 = c4
    h1 = h1
    h2 = h2
    p1 = p1
    p2 = p2
    Clients = {c1, c2, c3}
    HwTasks = {h1, h2}
    Slots = {0, 1}
    Partitions = {p1}
    PartOfSlot <- OnePartSlots
    PartOfTask <- OnePartTasks
    Mode = "NORMAL"
    Overlap = FALSE
    Faults = TRUE
    None = None
SYMMETRY ClientSymmetry
INVARIANTS
    OnePlace
    SlotsOwned
    RightAccelerator
    WatchdogGuardsExecution
    SchedInv
PROPERTIES
    BannedForOverrun
    ImplementsService
CHECK_DEADLOCK FALSE
