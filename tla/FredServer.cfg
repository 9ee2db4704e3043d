\* Every mode, every table, every component and operation failing; room for two
\* sessions, for none, or too little for the layout; a freed partition whose
\* count reads as it was, or as anything.
SPECIFICATION ServerSpec
CONSTANTS
    ArchFiles <- McArchFiles
    HwFiles <- McHwFiles
    MaxPartitions = 3
    MaxHwTasks = 3
    MaxSlots = 3
    MaxDataBuffs = 1
    Faults = TRUE
    Modes = {"normal", "rcfg", "exec"}
    TableSize = 7
    Sessions = {c1, c2}
    EpollFails = {"signals", "devcfg", "layout", "client", "session"}
    Garbage <- McGarbage
INVARIANTS
    ServerInv
    LayoutComplete
    BitstreamsAccounted
    LifeCycle
PROPERTIES
    SignalTerminates
CHECK_DEADLOCK FALSE
