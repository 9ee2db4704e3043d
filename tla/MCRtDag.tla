------------------------------ MODULE MCRtDag ------------------------------
(***************************************************************************)
(* The DAGs RtDag is checked with.  Tasks are numbered as in the input.     *)
(***************************************************************************)
EXTENDS RtDag

Types(s) == [t \in 0 .. Len(s) - 1 |-> s[t + 1]]
\* Messages are written and read; a call of the fred library may fail.
Dag(s, edges) ==
    [type |-> Types(s), edges |-> edges, mem |-> TRUE, fails |-> "fred" \in {s[i] : i \in DOMAIN s}]


Diamond == {<<0, 1>>, <<0, 2>>, <<1, 3>>, <<2, 3>>}

\* A diamond, and one with a short cut and a sink that is not the last task.
CpuDags == {
    Dag(<<"cpu", "cpu", "cpu", "cpu">>, Diamond),
    Dag(<<"cpu", "cpu", "cpu", "cpu">>, {<<0, 1>>, <<0, 2>>, <<1, 3>>, <<3, 2>>}),
    Dag(<<"cpu">>, {}),
    [Dag(<<"cpu", "cpu", "cpu">>, {<<0, 1>>, <<1, 2>>}) EXCEPT !.mem = FALSE]}

\* Hardware tasks between source and sink, and what the launcher refuses.
FredDags == {
    Dag(<<"cpu", "fred", "cpu", "cpu">>, {<<0, 1>>, <<1, 2>>, <<1, 3>>, <<2, 3>>}),
    [Dag(<<"cpu", "fred", "cpu">>, {<<0, 1>>, <<1, 2>>}) EXCEPT !.mem = FALSE],
    Dag(<<"cpu", "fred", "fred", "cpu">>, Diamond),
    Dag(<<"cpu", "fred", "fred", "cpu">>, {<<0, 1>>, <<1, 2>>, <<2, 3>>}),
    Dag(<<"fred", "cpu">>, {<<0, 1>>}),
    Dag(<<"cpu", "cpu">>, {<<0, 1>>, <<1, 0>>}),
    Dag(<<"cpu", "cpu", "cpu">>, {<<0, 1>>, <<1, 2>>, <<2, 1>>}),
    Dag(<<"cpu", "opencl", "cpu">>, {<<0, 1>>, <<1, 2>>}),
    Dag(<<"cpu", "fred">>, {<<0, 1>>})}

McDags == CpuDags \cup FredDags
=============================================================================
