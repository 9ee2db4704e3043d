\* Three clients, two partitions of one slot each: every request is answered.
SPECIFICATION FairSpec
CONSTANTS
    c1 = c1
    c2 = c2
    c3 = c3
    c4 = c4
    h1 = h1
    h2 = h2
    p1 = p1
    p2 = p2
    Clients = {c1, c2, c3}
    HwTasks = {h1, h2}
    Slots = {0, 1}
    Partitions = {p1, p2}
    PartOfSlot <- SmallSlots
    PartOfTask <- SmallTasks
    Mode = "NORMAL"
    Overlap = FALSE
    Faults = FALSE
    None = None
PROPERTIES
    EveryRequestAnswered
CHECK_DEADLOCK FALSE
