----------------------------- MODULE FredServer -----------------------------
(***************************************************************************)
(* The life of the server with its layout: the set-up of fred_sys.c, its    *)
(* error chains, the event loop and the end (FredSys), in which the layout  *)
(* is read from its tables, loaded into buffers of the kernel module,       *)
(* registered slot by slot and taken down again (SysLayout).                *)
(***************************************************************************)
EXTENDS SysLayout

CONSTANTS
    Modes,       \* of "normal", "rcfg", "exec"
    TableSize,   \* MAX_EVENTS_SRCS
    Sessions,    \* connections that may be made (bound)
    EpollFails,  \* handlers that epoll_ctl may refuse, "session" for a session
    Garbage      \* the values of garbage that are considered

ASSUME ServerAssumption ==
    /\ Modes \subseteq {"normal", "rcfg", "exec"}
    /\ TableSize \in Nat \ {0}
    /\ EpollFails \subseteq {"signals", "devcfg", "layout", "client", "session"}
    /\ Garbage \subseteq SUBSET Nat

VARIABLES mode, phase, todo, status, table, stale, signalled, cause

F == INSTANCE FredSys

\* A session is not one of the other components.
ASSUME SessionsAssumption ==
    Sessions \cap (F!Base \cup {"devcfg", "sched", "client", "signals", "none"}) = {}

server == <<mode, phase, todo, status, table, stale, signalled, cause>>
layout == <<arch, hw, stage, step, partitions, lost, found, tasks, memory>>
vars == <<garbage, server, layout>>

ServerInit == Init /\ F!Init /\ garbage \in Garbage

-----------------------------------------------------------------------------

BuildLayout == F!BuildingLayout /\ (Building \/ Freeing) /\ UNCHANGED server

LayoutBuilt ==
    /\ F!BuildingLayout
    /\ \/ stage = "up" /\ F!Build
       \/ stage = "exit" /\ F!BuildFails
    /\ UNCHANGED layout

\* A timer cannot be made, or a bitstream not be mapped: the process ends.
LayoutAborts ==
    /\ F!BuildingLayout
    /\ NewTimerAborts \/ ReadBitAborts
    /\ phase' = "aborted"
    /\ UNCHANGED <<mode, todo, status, table, stale, signalled, cause>>

RegisterLayout == F!RegisterLayout(Wanted) /\ UNCHANGED layout

FreeLayout == F!FreeingLayout /\ (Shutdown \/ Freeing) /\ UNCHANGED server

LayoutFreed ==
    /\ F!FreeingLayout
    /\ stage = "exit"
    /\ F!UndoStep \/ F!Close
    /\ UNCHANGED layout

Elsewhere(A) ==
    /\ ~F!BuildingLayout /\ ~F!FreeingLayout
    /\ A
    /\ UNCHANGED layout

Thread ==
    \/ BuildLayout \/ LayoutBuilt \/ RegisterLayout \/ FreeLayout \/ LayoutFreed
    \/ Elsewhere(F!Going)

ServerNext ==
    /\ UNCHANGED garbage
    /\ Thread \/ LayoutAborts \/ Elsewhere(F!Happening)

\* The thread goes on until it waits for events, and finds the signal then.
ServerSpec ==
    /\ ServerInit /\ [][ServerNext]_vars
    /\ WF_vars(Thread /\ UNCHANGED garbage)
    /\ WF_vars(Elsewhere(F!HandleSignal) /\ UNCHANGED garbage)

-----------------------------------------------------------------------------
(* Properties.                                                             *)

\* Types, the bounds of the arrays in partitions and tasks, and every buffer
\* that is mapped is there.
ServerTypeOK ==
    /\ TypeOK
    /\ phase \in {"init", "undo", "running", "clearing", "closing", "exit", "aborted"}
    /\ status \in [F!Components -> {"none", "live", "freed", "twice", "left"}]
    /\ table \in [F!Entries -> [h : F!Components \cup {"none"}, owned : BOOLEAN]]

\* What the code does not free as it should: a client that epoll_ctl refuses is
\* freed by the error chain and, from its entry, by the reactor; what a client
\* that could not be built had allocated, and the session that found no entry in
\* the table, are freed by nobody.
Excused(r) ==
    \/ r = "client" /\ cause = <<"refused", r>> /\ status[r] = "twice"
    \/ r = "client" /\ cause = <<"build", r>> /\ status[r] = "left"
    \/ r \in Sessions /\ cause = <<"full", r>> /\ status[r] = "live"

Gone(r) == status[r] \in {"none", "freed"} \/ Excused(r)

\* Whatever else fails and whenever the loop ends, no component is freed twice.
FreedOnce == \A r \in F!Components : status[r] = "twice" => Excused(r)

\* A free method finds what it calls alive: buffers are given back before the
\* allocator is closed, in the error chains as well as at the end.  The refused
\* client that is freed again is the exception.
UsesLive == cause # <<"refused", "client">> => stale = {}

\* Nothing else that was built is left when the server ends.
NothingLeft == phase = "exit" => \A r \in F!Components : Gone(r)

\* A server that runs, with sessions coming and going, hears the signals, the
\* device, its source of work and every slot and timer of a layout that is up.
RunsComplete ==
    phase = "running" =>
        /\ {"signals", "devcfg", "client"} \subseteq {table[k].h : k \in F!Entries}
        /\ stage = "up"
        /\ Cardinality({k \in F!Entries : table[k].h = "layout"}) = Wanted

\* A server that ends, after any failure of its start or later, leaves none of
\* its bitstreams in the kernel module, but for one it was reading when it
\* failed, as long as the freed partitions still tell how many there were.
NoBitstreamLeft ==
    phase = "exit" /\ garbage = {} =>
        \A t \in 1 .. T : \A s \in DOMAIN tasks[t].bits :
            tasks[t].bits[s].got /\ tasks[t].bits[s].buff \notin mapped
                => tasks[t].bits[s].buff \notin kernel

\* A signal ends a running server, and the end is reached, unless the reactor's
\* assertion ends the process first.
SignalTerminates == signalled ~> phase \in {"exit", "aborted"}

\* Types and bounds, and a running server is heard by all it needs
\* (RunsComplete).
ServerInv == ServerTypeOK /\ RunsComplete

\* A layout that is up is what the tables say (LayoutMatchesTables) and what the
\* scheduler relies on (BitstreamForEverySlot).
LayoutComplete == LayoutMatchesTables /\ BitstreamForEverySlot

\* Bitstream buffers are given back by their own task (OnlyOwnFreed), all of
\* them (NoBitstreamLeft).
BitstreamsAccounted == OnlyOwnFreed /\ NoBitstreamLeft

\* Every component is freed, once, while what it needs is alive, but for those
\* that Excused names: FreedOnce, UsesLive and NothingLeft.
LifeCycle == FreedOnce /\ UsesLive /\ NothingLeft
=============================================================================
