---------------------------- MODULE FredService ----------------------------
(***************************************************************************)
(* What the FRED server promises the software tasks that share the FPGA,   *)
(* whatever its queues, watchdogs and events: a request is given a slot of *)
(* its partition, first come first served, keeps it for itself, computes   *)
(* with the hardware task it asked for and is answered once.  One step is  *)
(* what the server does about one event; it may carry several requests     *)
(* forward, and leaves none waiting for what is free.  FredSched is the    *)
(* implementation.                                                         *)
(***************************************************************************)
EXTENDS Sequences, SequencesExt

CONSTANTS
    Clients,     \* software tasks, each with one request at a time
    HwTasks,     \* what they ask for
    Slots,       \* where hardware tasks run
    Partitions,
    PartOfSlot,  \* the partition a slot belongs to
    PartOfTask,  \* the partition a hardware task runs in
    None         \* no hardware task, no slot

VARIABLES
    stage,  \* how far the request of a client is
    task,   \* the hardware task it asks for
    place,  \* the slot it has been given
    line,   \* the requests that wait for a slot of a partition
    loaded  \* what a slot offers, None while it is isolated

vars == <<stage, task, place, line, loaded>>

Stages == {"idle", "queued", "granted", "configuring", "executing"}

Holding == {"granted", "configuring", "executing"}

\* The stages a request may come to from stage g.
After(g) ==
    CASE g = "queued" -> Holding
      [] g = "granted" -> {"configuring", "executing"}
      [] g = "configuring" -> {"executing"}
      [] OTHER -> {}

Init ==
    /\ stage = [c \in Clients |-> "idle"]
    /\ task = [c \in Clients |-> None]
    /\ place = [c \in Clients |-> None]
    /\ line = [p \in Partitions |-> << >>]
    /\ loaded = [s \in Slots |-> None]

-----------------------------------------------------------------------------
(* A request.                                                              *)

Rests(c) ==
    /\ stage'[c] = stage[c]
    /\ task'[c] = task[c]
    /\ place'[c] = place[c]

Asks(c) == stage[c] = "idle" /\ stage'[c] # "idle"

\* A slot that has been given is kept.
Advances(c) ==
    /\ stage'[c] \in After(stage[c])
    /\ task'[c] = task[c]
    /\ stage[c] \in Holding => place'[c] = place[c]

\* Answered, with DONE or OVERRUN.
Ends(c) == stage[c] = "executing" /\ stage'[c] = "idle"

-----------------------------------------------------------------------------
(* What the requests share.                                                *)

\* The line of a partition grows at its end and is served from its head.
LineMoves(p) ==
    \/ line'[p] = line[p]
    \/ \E c \in Clients : Asks(c) /\ line'[p] = Append(line[p], c)
    \/ line[p] # << >> /\ line'[p] = Tail(line[p])

\* A slot comes to offer a hardware task only by being configured with it, and
\* stops offering one when it is about to be configured or after an overrun.
SlotMoves(s) ==
    \/ loaded'[s] = loaded[s]
    \/ \E c \in Clients :
          /\ place[c] = s /\ stage[c] = "configuring" /\ stage'[c] = "executing"
          /\ loaded'[s] = task[c]
    \/ /\ loaded'[s] = None
       /\ \E c \in Clients : \/ place'[c] = s /\ stage'[c] = "configuring"
                             \/ place[c] = s /\ Ends(c)

\* Between two steps a slot belongs to one request, which computes with what it
\* asked for, one request is being configured, and nothing waits for what is
\* free: neither the reconfiguration device nor a slot.
Orderly ==
    /\ \A c \in Clients :
         /\ stage[c] \in Stages
         /\ stage[c] = "idle" => task[c] = None
         /\ stage[c] # "idle" => task[c] \in HwTasks
         /\ stage[c] \notin Holding => place[c] = None
         /\ stage[c] \in Holding =>
              /\ place[c] \in Slots
              /\ PartOfSlot[place[c]] = PartOfTask[task[c]]
         /\ stage[c] = "configuring" => loaded[place[c]] = None
         /\ stage[c] = "executing" => loaded[place[c]] = task[c]
         /\ \A p \in Partitions :
              c \in ToSet(line[p]) <=> stage[c] = "queued" /\ PartOfTask[task[c]] = p
    /\ \A c, d \in Clients :
         /\ place[c] = place[d] /\ place[c] # None => c = d
         /\ stage[c] = "configuring" /\ stage[d] = "configuring" => c = d
    /\ (\E c \in Clients : stage[c] = "granted") =>
         \E c \in Clients : stage[c] = "configuring"
    /\ \A p \in Partitions, s \in Slots :
         line[p] # << >> /\ PartOfSlot[s] = p => \E c \in Clients : place[c] = s

Next ==
    /\ \A c \in Clients : Rests(c) \/ Asks(c) \/ Advances(c) \/ Ends(c)
    /\ \A c, d \in Clients : (Asks(c) \/ Ends(c)) /\ (Asks(d) \/ Ends(d)) => c = d
    /\ \A p \in Partitions : LineMoves(p)
    /\ \A s \in Slots : SlotMoves(s)
    /\ Orderly'

Spec == Init /\ [][Next]_vars
=============================================================================
