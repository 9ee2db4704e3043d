\* Two edges, two threads for each and two that pop, two rounds.
SPECIFICATION Spec
CONSTANTS
    NumElems = 2
    PerElem = 2
    Poppers = {q1, q2}
    Rounds = 2
    Width = 4
    Empty = Empty
INVARIANTS
    QueueInv
    NoLostWakeup
PROPERTIES
    ImplementsQueue
\* The queue is empty for ever once the last element is taken.
CHECK_DEADLOCK FALSE
