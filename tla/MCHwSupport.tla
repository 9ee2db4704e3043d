---------------------------- MODULE MCHwSupport ----------------------------
EXTENDS HwSupport

CONSTANTS b1, b2, s1, s2

McSlotOf == [b \in {b1, b2} |-> IF b = b1 THEN s1 ELSE s2]

Quiet == [faults |-> FALSE, restarts |-> FALSE, admin |-> FALSE,
          slots |-> FALSE, overlap |-> FALSE]

\* One server against an administrator; everything may fail; two slots at work,
\* with accelerators that finish in time or not at all, or just too late.
McWorlds == {[Quiet EXCEPT !.admin = TRUE],
             [Quiet EXCEPT !.admin = TRUE, !.faults = TRUE, !.restarts = TRUE],
             [Quiet EXCEPT !.slots = TRUE],
             [Quiet EXCEPT !.slots = TRUE, !.overlap = TRUE]}
=============================================================================
