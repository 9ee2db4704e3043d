----------------------------- MODULE MCBuffCtl -----------------------------
\* The worlds in which the buffers are checked.
EXTENDS BuffCtl

CONSTANTS c1, c2

\* Clients that leave in order, no failing call, room for four BINDs.
InOrder == [clients |-> {c1, c2}, ids |-> 9, tasks |-> 2,
            faults |-> FALSE, abrupt |-> FALSE, careless |-> FALSE]

\* Failing allocations, killed clients, a server that stops or drops clients;
\* ids come round after three.
Failing == [clients |-> {c1, c2}, ids |-> 3, tasks |-> 1,
            faults |-> TRUE, abrupt |-> TRUE, careless |-> FALSE]

\* A client that maps and unmaps in any order and may be sent a map_addr that
\* is not null, with every fault of the server.
CarelessClient == [clients |-> {c1}, ids |-> 3, tasks |-> 2,
                   faults |-> TRUE, abrupt |-> TRUE, careless |-> TRUE]

McWorlds == {InOrder, Failing, CarelessClient}
=============================================================================
