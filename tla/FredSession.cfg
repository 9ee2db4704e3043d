\* Two clients that share hardware tasks: in order, dying, with failing
\* allocations, and with one client too many.
SPECIFICATION Spec
CONSTANTS
    Clients = {c1, c2}
    HwTasks = {h1, h2}
    Unknown = Unknown
    MaxBinds = 2
    Rooms = {1, 2}
    Kills = {TRUE, FALSE}
    Faults = {TRUE, FALSE}
    None = None
INVARIANTS
    SessionInv
    RequestTracked
PROPERTIES
    ServerEndsForAReason
    EveryCallReturns
\* Every client has been freed.
CHECK_DEADLOCK FALSE
