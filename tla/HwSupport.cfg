\* Two slots with one bitstream each, in the four worlds of MCHwSupport.
SPECIFICATION HwSpec
CONSTANTS
    b1 = b1
    b2 = b2
    s1 = s1
    s2 = s2
    Bits = {b1, b2}
    None = None
    SlotOf <- McSlotOf
    Worlds <- McWorlds
INVARIANTS
    HwInv
    StartMatchesEnd
    ClockKept
    IsolatedWhileLoading
    RunsSeparated
PROPERTIES
    RefusedOnlyWhileRearming
    EveryStartEnds
    CompletionHeard
CHECK_DEADLOCK FALSE
