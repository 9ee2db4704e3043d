---------------------------- MODULE MCFredSched ----------------------------
(***************************************************************************)
(* Instances of FredSched for TLC.                                         *)
(***************************************************************************)
EXTENDS FredSched, TLC

CONSTANTS c1, c2, c3, c4, h1, h2, p1, p2

\* One partition of two slots shared by two hardware tasks.
OnePartSlots == [s \in {0, 1} |-> p1]
OnePartTasks == [h \in {h1, h2} |-> p1]

\* Two partitions, of one and of two slots, contending for the FPGA manager.
TwoPartSlots == (0 :> p1) @@ (1 :> p2) @@ (2 :> p2)
TwoPartTasks == (h1 :> p1) @@ (h2 :> p2)

\* Two partitions of one slot each.
SmallSlots == (0 :> p1) @@ (1 :> p2)
SmallTasks == (h1 :> p1) @@ (h2 :> p2)

\* What the future depends on: nothing reads the request of a client that has
\* been answered, nor its place in the time stamps of the others.
View ==
    LET seen == [c \in waiting |-> [req[c] EXCEPT !.older = @ \cap waiting]]
    IN  <<server, slot, timer, prog, fri, partQ, seen, waiting, banned, irq,
          rcfgDone, batch>>

\* Clients are interchangeable.
ClientSymmetry == Permutations(Clients)

=============================================================================
