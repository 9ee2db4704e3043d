\* Three worlds: orderly clients, failing calls, a careless client.
SPECIFICATION Spec
CONSTANTS
    c1 = c1
    c2 = c2
    Clients = {c1, c2}
    Buffs = 2
    Worlds <- McWorlds
    None = None
INVARIANTS
    BuffersOwned
    UsersSafe
    NothingLeaks
CHECK_DEADLOCK FALSE
