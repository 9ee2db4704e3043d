------------------------------ MODULE FredSys ------------------------------
(***************************************************************************)
(* The life of the FRED server: fred_sys.c builds the components one after  *)
(* the other and undoes what it has built when one fails; reactor_epoll.c   *)
(* owns some of the event handlers registered with it, runs them until one  *)
(* reports a system error, and frees them; fred_sys_free takes the rest     *)
(* down.  The three modes differ in the client: a listener that registers   *)
(* sessions, or a cyclic client.  What is modelled of a component is that   *)
(* it is built, freed, or left by those who should free it, and which       *)
(* others its free method uses.                                             *)
(***************************************************************************)
EXTENDS Naturals, FiniteSets, Sequences

CONSTANTS
    Modes,       \* of "normal", "rcfg", "exec"
    TableSize,   \* MAX_EVENTS_SRCS
    Sessions,    \* connections that may be made (bound)
    Faults,      \* may the initialisation of a component or a handler fail?
    EpollFails   \* handlers that epoll_ctl may refuse, "session" for a session

VARIABLES
    mode,      \* of this run
    phase,     \* "init", "undo", "running", "clearing", "closing", "exit",
               \* "aborted"
    todo,      \* steps of fred_sys_init, or of the undoing, still to do
    status,    \* each component: "none", "live", "freed", "twice", or "left":
               \* its structure is freed, buffers or descriptors of its are not
    table,     \* events_sources: the active entries, each [h, owned]
    stale,     \* uses of a component that is not live: <<user, used>>
    signalled, \* SIGINT, SIGQUIT or SIGTERM is pending
    cause      \* history: what ended the set-up or the loop, and in whom

\* The handler that brings in work: the listener or the cyclic client.
Base == {"logger", "reactor", "buffctl", "layout"}
Components == Base \cup {"devcfg", "sched", "client", "signals"} \cup Sessions

Entries == 1 .. TableSize
NoEntry == [h |-> "none", owned |-> FALSE]
Active == {k \in Entries : table[k] # NoEntry}

\* Slots and timers belong to the layout: no entry of theirs is owned.
Builds == <<"devcfg", "sched", "logger", "reactor", "buffctl", "layout", "client", "signals">>

\* (wrong: the reconfiguration device is forgotten)
RegistersNoDevcfg == <<"signals", "layout", "client">>

Registers == <<"signals", "devcfg", "layout", "client">>
Owned(h) == h \notin {"devcfg", "layout"}

\* What a free method calls: a client, a session and the layout give buffers
\* back; the listener does not.
Uses(h) ==
    IF h \in Sessions \cup {"layout"} \/ (h = "client" /\ mode # "normal")
    THEN {"buffctl"} ELSE {}

Init ==
    /\ mode \in Modes
    /\ phase = "init"
    /\ todo = [i \in DOMAIN Builds |-> <<"build", Builds[i]>>]
                \o [i \in DOMAIN Registers |-> <<"register", Registers[i]>>]
    /\ status = [r \in Components |-> "none"]
    /\ table = [k \in Entries |-> NoEntry]
    /\ stale = {}
    /\ signalled = FALSE
    /\ cause = <<"none", "none">>

-----------------------------------------------------------------------------
(* Freeing.                                                                *)

Freed(s, set) ==
    [r \in Components |->
        IF r \notin set THEN s[r] ELSE IF s[r] = "live" THEN "freed" ELSE "twice"]

\* Calls of components in set that are not live, by the free methods of
\* others or by the reactor itself, which asks a handler for its descriptor.
StaleUses(s, set) ==
    (UNION {{<<h, u>> : u \in {v \in Uses(h) : s[v] # "live"}} : h \in set})
    \cup {<<"reactor", h>> : h \in {g \in set : s[g] # "live"}}

OwnedHandlers == {table[k].h : k \in {i \in Active : table[i].owned}}

\* free_all_events_source_: the owned entries go, the others stay.
OwnedGone == [k \in Entries |-> IF table[k].owned THEN NoEntry ELSE table[k]]

\* reactor_free, and free of any other component.
FreeReactor ==
    /\ status' = Freed(Freed(status, OwnedHandlers), {"reactor"})
    /\ stale' = stale \cup StaleUses(status, OwnedHandlers)
    /\ table' = OwnedGone

FreeOne(r) ==
    /\ status' = Freed(status, {r})
    /\ stale' = stale \cup {<<r, u>> : u \in {v \in Uses(r) : status[v] # "live"}}
    /\ UNCHANGED table

FreeStep(r) == IF r = "reactor" THEN FreeReactor ELSE FreeOne(r)

-----------------------------------------------------------------------------
(* Setting up.                                                             *)

\* (wrong: the chain of labels starts with the reactor)
UndoReactorFirst(what) ==
    <<"reactor", "client", "layout", "buffctl", "logger", "sched", "devcfg">>

\* The labels of the error handling chains, each continuing in the next: what
\* is freed when a step fails.
Undo(what) ==
    CASE what = "devcfg"  -> << >>
      [] what = "sched"   -> <<"devcfg">>
      [] what = "logger"  -> <<"sched", "devcfg">>
      [] what = "reactor" -> <<"logger", "sched", "devcfg">>
      [] what = "buffctl" -> <<"reactor", "logger", "sched", "devcfg">>
      [] what = "layout"  -> <<"buffctl", "reactor", "logger", "sched", "devcfg">>
      [] what = "client"  ->
            <<"layout", "buffctl", "reactor", "logger", "sched", "devcfg">>
      [] what = "later" ->
            <<"client", "layout", "buffctl", "reactor", "logger", "sched", "devcfg">>

Fail(what, why) == phase' = "undo" /\ todo' = Undo(what) /\ cause' = why

Doing(kind) == phase = "init" /\ todo # << >> /\ Head(todo)[1] = kind

Build ==
    /\ Doing("build")
    /\ status' = [status EXCEPT ![Head(todo)[2]] = "live"]
    /\ todo' = Tail(todo)
    /\ UNCHANGED <<mode, phase, table, stale, signalled, cause>>

\* A component that cannot be built has freed what it had allocated, but for the
\* client: the listener leaves its socket open, the cyclic client its data
\* buffers in the kernel module and its sockets open.
BuildFails ==
    /\ Doing("build")
    /\ LET what == Head(todo)[2]
       IN  /\ Fail(IF what = "signals" THEN "later" ELSE what, <<"build", what>>)
           /\ \/ UNCHANGED status
              \/ what = "client" /\ status' = [status EXCEPT ![what] = "left"]
    /\ UNCHANGED <<mode, table, stale, signalled>>

Free == {k \in Entries : table[k] = NoEntry}
FirstFree == CHOOSE k \in Free : \A i \in Free : k <= i

\* reactor_add_event_handler takes the first entry that is not active.
Added(h) == [table EXCEPT ![FirstFree] = [h |-> h, owned |-> Owned(h)]]

Register ==
    /\ Doing("register") /\ Head(todo)[2] # "layout"
    /\ Free # {}
    /\ table' = Added(Head(todo)[2])
    /\ todo' = Tail(todo)
    /\ UNCHANGED <<mode, phase, status, stale, signalled, cause>>

\* No entry is left.
TableFull ==
    /\ Doing("register") /\ Head(todo)[2] # "layout"
    /\ Free = {}
    /\ Fail("later", <<"full", Head(todo)[2]>>)
    /\ UNCHANGED <<mode, status, table, stale, signalled>>

\* The entry is made active before epoll_ctl is tried.
EpollRefuses ==
    /\ Doing("register") /\ Head(todo)[2] \in EpollFails \ {"layout"}
    /\ Free # {}
    /\ table' = Added(Head(todo)[2])
    /\ Fail("later", <<"refused", Head(todo)[2]>>)
    /\ UNCHANGED <<mode, status, stale, signalled>>

\* The first k free entries are the layout's.
Filled(k) ==
    [e \in Entries |->
        IF e \in Free /\ Cardinality({i \in Free : i <= e}) <= k
        THEN [h |-> "layout", owned |-> Owned("layout")] ELSE table[e]]

\* sys_layout_register_slots with n sources, slots and timers, until one of
\* them finds no entry or is refused.
RegisterLayout(n) ==
    /\ Doing("register") /\ Head(todo)[2] = "layout"
    /\ \/ /\ n <= Cardinality(Free)
          /\ table' = Filled(n)
          /\ todo' = Tail(todo)
          /\ UNCHANGED <<phase, cause>>
       \/ \E k \in 0 .. n :
             /\ k <= Cardinality(Free)
             /\ \/ k < n /\ k = Cardinality(Free)
                \/ k > 0 /\ "layout" \in EpollFails
             /\ table' = Filled(k)
             /\ Fail("later", <<"refused", "layout">>)
    /\ UNCHANGED <<mode, status, stale, signalled>>

UndoStep ==
    /\ phase = "undo" /\ todo # << >>
    /\ FreeStep(Head(todo))
    /\ todo' = Tail(todo)
    /\ UNCHANGED <<mode, phase, signalled, cause>>

\* main returns; the kernel does the rest.
Exit ==
    /\ phase \in {"undo", "closing"} /\ todo = << >>
    /\ phase' = "exit"
    /\ UNCHANGED <<mode, todo, status, table, stale, signalled, cause>>

Run ==
    /\ phase = "init" /\ todo = << >>
    /\ phase' = "running"
    /\ UNCHANGED <<mode, todo, status, table, stale, signalled, cause>>

-----------------------------------------------------------------------------
(* The event loop, and the end.                                            *)

\* The loop is left for exit_clear.
LeaveLoop(why) == phase' = "clearing" /\ cause' = why

\* exit_clear, and the order fred_sys_free goes on in.
Closed == OwnedHandlers

LoopEnds ==
    /\ phase = "clearing"
    /\ phase' = "closing"
    /\ todo' = <<"reactor", "sched", "layout", "devcfg", "buffctl", "logger">>
    /\ status' = Freed(status, Closed)
    /\ stale' = stale \cup StaleUses(status, Closed)
    /\ table' = OwnedGone
    /\ UNCHANGED <<mode, signalled, cause>>

\* The listener accepts a connection and builds its session.
Accepts(c) ==
    /\ phase = "running" /\ mode = "normal"
    /\ c \in Sessions /\ status[c] = "none"
    /\ status' = [status EXCEPT ![c] = "live"]
    /\ UNCHANGED <<mode, todo, stale, signalled>>

Connect(c) ==
    /\ Accepts(c)
    /\ Free # {}
    /\ table' = Added(c)
    /\ UNCHANGED <<phase, cause>>

\* With the table full the session, which is built, is in no entry, and what
\* the reactor returns ends the loop.
ConnectOverflows(c) ==
    /\ Accepts(c)
    /\ Free = {}
    /\ LeaveLoop(<<"full", c>>)
    /\ UNCHANGED table

\* epoll_ctl refuses the session, whose entry is active.
ConnectRefused(c) ==
    /\ "session" \in EpollFails
    /\ Accepts(c)
    /\ Free # {}
    /\ table' = Added(c)
    /\ LeaveLoop(<<"refused", c>>)

\* The connection is gone or there is no memory: sw_task_client_init leaves a
\* null handler, which the reactor's assertion does not let pass.
ConnectAborts ==
    /\ phase = "running" /\ mode = "normal" /\ Faults
    /\ phase' = "aborted"
    /\ UNCHANGED <<mode, todo, status, table, stale, signalled, cause>>

\* The handler of a session returns a positive value.
Detach(k) ==
    /\ phase = "running"
    /\ table[k].h \in Sessions
    /\ status' = Freed(status, {table[k].h})
    /\ stale' = stale \cup StaleUses(status, {table[k].h})
    /\ table' = [table EXCEPT ![k] = NoEntry]
    /\ UNCHANGED <<mode, phase, todo, signalled, cause>>

\* A signal arrives; the process has blocked it and reads it from a descriptor.
Signal ==
    /\ phase = "running" /\ ~signalled
    /\ signalled' = TRUE
    /\ UNCHANGED <<mode, phase, todo, status, table, stale, cause>>

\* (wrong: an expected signal is read and nothing follows)
SignalIgnored == signalled /\ FALSE

SignalEnds == signalled

Untouched == UNCHANGED <<mode, todo, status, table, stale, signalled>>

HandleSignal == phase = "running" /\ SignalEnds /\ LeaveLoop(<<"signal", "signals">>) /\ Untouched

\* Any handler that returns a negative value, or EPOLLERR.
SystemError == phase = "running" /\ Faults /\ LeaveLoop(<<"error", "none">>) /\ Untouched

Close ==
    /\ phase = "closing" /\ todo # << >>
    /\ FreeStep(Head(todo))
    /\ todo' = Tail(todo)
    /\ UNCHANGED <<mode, phase, signalled, cause>>

\* The steps of the server's thread when they do not build or free the layout,
\* and what happens to a running server.
Going == Build \/ Register \/ TableFull \/ UndoStep \/ Exit \/ Run \/ LoopEnds \/ Close

Happening ==
    \/ (Faults /\ BuildFails)
    \/ EpollRefuses \/ Signal \/ HandleSignal \/ SystemError \/ ConnectAborts
    \/ \E c \in Sessions : Connect(c) \/ ConnectOverflows(c) \/ ConnectRefused(c)
    \/ \E k \in Entries : Detach(k)

\* The thread is in sys_layout_init, or in sys_layout_free.
BuildingLayout == Doing("build") /\ Head(todo)[2] = "layout"
FreeingLayout ==
    phase \in {"undo", "closing"} /\ todo # << >> /\ Head(todo) = "layout"
=============================================================================
