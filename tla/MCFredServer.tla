---------------------------- MODULE MCFredServer ----------------------------
(* An instance of FredServer for TLC: the tables that are read.             *)
EXTENDS FredServer

Comment == <<"#">>

\* No partition, one, two with names that agree or not, more than are allowed;
\* slots from none to more than a partition takes; comments between them.
McArchFiles ==
    {<< >>, <<Comment, <<"p0", 3>>>>,
     <<<<"p0", 0>>, <<"p1", 2>>>>, <<<<"p0", 1>>, << >>, <<"p0", 2>>>>,
     <<<<"p0", 2>>, Comment, <<"p1", 1>>>>,
     <<<<"p0", 0>>, <<"p1", 0>>, <<"p2", 0>>>>}

\* Tasks of known partitions, of partitions nobody knows, of equal ids, one with more buffers
\* than a task can hold.
McHwFiles ==
    {<< >>, <<Comment, <<"fir", 100, "p0", 7>>, <<"fir", 101, "p1", 7>>>>,
     <<<<"fir", 100, "p1", 7>>, Comment, <<"fir", 100, "p0", 7>>>>,
     <<<<"fir", 100, "p0", 7>>, <<"fir", 101, "zz", 7>>>>,
     <<<<"fir", 100, "zz", 7>>, <<"fir", 101, "p0", 7, 7>>>>,
     <<<<"fir", 100, "p0", 7>>, <<"fir", 101, "p1", 7>>, <<"fir", 102, "p1", 7>>>>}

\* The count as it was, or none, fewer or more slots than there were.
McGarbage == {{}, {0, 1, 3}}
=============================================================================
