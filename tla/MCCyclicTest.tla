---------------------------- MODULE MCCyclicTest ----------------------------
(* Instances of CyclicTest for TLC: a partition of two slots for two        *)
(* hardware tasks, one of one slot, and one that has none.                  *)
EXTENDS CyclicTest, TLC

CONSTANTS h1, h2, h3, h4, p1, p2, p3

McPartOfSlot == (0 :> p1) @@ (1 :> p1) @@ (2 :> p2)
McPartOfTask == (h1 :> p1) @@ (h2 :> p1) @@ (h3 :> p2) @@ (h4 :> p3)

\* The hardware task test, the reconfiguration test, and a task that waits for a
\* slot for ever.
McWorlds == {[tasks |-> <<h1, h2, h3>>, null |-> FALSE],
             [tasks |-> <<h1, h2, h3>>, null |-> TRUE],
             [tasks |-> <<h1, h4>>, null |-> FALSE]}
=============================================================================
