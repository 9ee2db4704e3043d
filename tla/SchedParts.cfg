\* Two partitions (one slot, two slots) contending for the FPGA manager, four
\* clients; the mock scheduler, which takes any free slot and always reconfigures,
\* so that every behaviour of the ALWAYS_RCFG mode is one of these.
SPECIFICATION Spec
CONSTANTS
    c1 = c1
    c2 = c2
    c3 = c3
    c4 = c4
    h1 = h1
    h2 = h2
    p1 = p1
    p2 = p2
    Clients = {c1, c2, c3, c4}
    HwTasks = {h1, h2}
    Slots = {0, 1, 2}
    Partitions = {p1, p2}
    PartOfSlot <- TwoPartSlots
    PartOfTask <- TwoPartTasks
    Mode = "RANDOM"
    Overlap = FALSE
    Faults = FALSE
    None = None
SYMMETRY ClientSymmetry
VIEW View
INVARIANTS
    WorkConserving
    FriInIssueOrder
PROPERTIES
    FifoAdmission
CHECK_DEADLOCK FALSE
