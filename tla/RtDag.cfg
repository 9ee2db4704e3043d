\* CPU tasks that share message buffers, hardware tasks between source and sink
\* whose calls may fail, and DAGs the launcher refuses.
SPECIFICATION Spec
CONSTANTS
    Dags <- McDags
    Iters = 3
INVARIANTS
    InstancesInv
    ReadsThisIteration
PROPERTIES
    EveryThreadEnds
