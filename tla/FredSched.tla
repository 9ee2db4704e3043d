----------------------------- MODULE FredSched -----------------------------
(***************************************************************************)
(* The FRED scheduler (srv_core/scheduler_fred.c) with the state machines  *)
(* it drives: the slots of the FPGA partitions, their watchdog timers and  *)
(* the reconfiguration device.  The server is one thread: epoll returns a  *)
(* batch of ready file descriptors and their handlers run one after the    *)
(* other, each to completion.  The hardware runs beside it: accelerators   *)
(* raise interrupts, timers expire and reconfigurations end at any time,   *)
(* also between the epoll call and the handler of a batched event.         *)
(*                                                                         *)
(* A request is the accel_req embedded in its client, so a request is      *)
(* named by its client.  When the server leaves "up" nothing happens any   *)
(* more and the remaining variables keep the last state they had.          *)
(***************************************************************************)
EXTENDS Naturals, Sequences, SequencesExt

CONSTANTS
    Clients,      \* software tasks connected to the server
    HwTasks,      \* hardware tasks of the system layout
    Slots,        \* slots, numbered in the order they were added
    Partitions,   \* partitions of the FPGA
    PartOfSlot,   \* the partition a slot belongs to
    PartOfTask,   \* the partition a hardware task runs in
    Mode,         \* which scheduler runs: see Modes
    Overlap,      \* may an accelerator finish while its watchdog expires?
    Faults,       \* may a call into a driver or onto a socket fail?
    None          \* the null pointer

\* SCHED_FRED_NORMAL, SCHED_FRED_ALWAYS_RCFG and the scheduler_fred_rand mock.
Modes == {"NORMAL", "ALWAYS_RCFG", "RANDOM"}

ASSUME ConstantsAssumption ==
    /\ Slots \subseteq Nat
    /\ PartOfSlot \in [Slots -> Partitions]
    /\ PartOfTask \in [HwTasks -> Partitions]
    /\ Mode \in Modes
    /\ Overlap \in BOOLEAN
    /\ Faults \in BOOLEAN
    /\ None \notin Clients \cup HwTasks \cup Slots

VARIABLES
    server,   \* "up", or why the event loop ended: "down" (a handler
              \* returned -1), "assert" (a source assertion is false) or
              \* "hung" (blocked in the read of a UIO device)
    slot,     \* struct slot: state, decoupler, configured hw_task, exec_req
    timer,    \* struct slot_timer with the state of its timerfd
    prog,     \* devcfg: the request being configured, None in DEVCFG_IDLE
    fri,      \* fri_queue_head, the queue for the reconfiguration device
    partQ,    \* part_queues_heads, one FIFO queue per partition
    req,      \* the accel_req of each client
    waiting,  \* clients whose request has not been answered yet
    banned,   \* hardware tasks disabled after an overrun
    irq,      \* slots with an interrupt pending on their UIO device
    rcfgDone, \* phy_bit_rcfg_done has been notified and not read yet
    batch     \* what the last epoll_wait returned and is still to be handled

vars == <<server, slot, timer, prog, fri, partQ, req, waiting, banned, irq,
          rcfgDone, batch>>

-----------------------------------------------------------------------------
(* Data.                                                                   *)

SlotStates == {"BLANK", "RSRV", "RCFG", "EXEC", "IDLE"}

Slot == [state : SlotStates, coupled : BOOLEAN,
         hw_task : HwTasks \cup {None}, exec_req : Clients \cup {None}]

Timer == [state : {"disarmed", "armed", "expired"},
          exec_req : Clients \cup {None}]

\* older stands for the time stamp: the requests stamped before this one.
AccelReq == [hw_task : HwTasks \cup {None}, slot : Slots \cup {None},
             skip_rcfg : BOOLEAN, older : SUBSET Clients]

Batch == [slot : SUBSET Slots, timer : SUBSET Slots, devcfg : BOOLEAN]

NoEvents == [slot |-> {}, timer |-> {}, devcfg |-> FALSE]

Init ==
    /\ server = "up"
    /\ slot = [s \in Slots |-> [state |-> "BLANK", coupled |-> TRUE,
                                hw_task |-> None, exec_req |-> None]]
    /\ timer = [s \in Slots |-> [state |-> "disarmed", exec_req |-> None]]
    /\ prog = None
    /\ fri = << >>
    /\ partQ = [p \in Partitions |-> << >>]
    /\ req = [c \in Clients |-> [hw_task |-> None, slot |-> None,
                                 skip_rcfg |-> FALSE, older |-> {}]]
    /\ waiting = {}
    /\ banned = {}
    /\ irq = {}
    /\ rcfgDone = FALSE
    /\ batch = NoEvents

-----------------------------------------------------------------------------
(* Slots and partitions.                                                   *)

\* slot_is_available
IsAvailable(s) == slot[s].state \in {"IDLE", "BLANK"}

\* slot_match_hw_task
MatchHwTask(s, h) == slot[s].state = "IDLE" /\ slot[s].hw_task = h

\* (wrong: a reserved slot still counts as free)
FreeOrReserved(p) ==
    {s \in Slots : PartOfSlot[s] = p /\ slot[s].state \notin {"RCFG", "EXEC"}}

Free(p) == {s \in Slots : PartOfSlot[s] = p /\ IsAvailable(s)}

\* partition_search_slot stops at the first free slot that already holds h
\* and otherwise keeps the last free slot it has seen; the mock's
\* partition_search_random_slot takes any free slot.
SearchSlot(s, h) ==
    LET free  == Free(PartOfTask[h])
        match == {t \in free : MatchHwTask(t, h)}
    IN  /\ s \in free
        /\ Mode # "RANDOM" =>
             IF match # {} THEN s \in match /\ \A t \in match : s <= t
                           ELSE \A t \in free : t <= s

\* What the scheduler does to one slot x; SLOT_READY never outlives a handler.
\* slot_set_reserved, slot_prepare_for_rcfg with slot_set_hw_task,
\* slot_reinit_after_rcfg, slot_start_compute, slot_clear_after_compute and
\* slot_disable_after_timeout.
Reserved(x) == [x EXCEPT !.state = "RSRV"]

\* (wrong: the slot stays connected to the bus during reconfiguration)
ReconfiguringCoupled(x, h) == [x EXCEPT !.state = "RCFG", !.hw_task = h]

Reconfiguring(x, h) ==
    [x EXCEPT !.state = "RCFG", !.coupled = FALSE, !.hw_task = h]

Reinit(x) == [x EXCEPT !.state = "READY", !.coupled = TRUE]

Computing(x, r) == [x EXCEPT !.state = "EXEC", !.exec_req = r]

Cleared(x) == [x EXCEPT !.state = "IDLE"]

\* (wrong: the slot is isolated but not taken out of EXEC)
DisabledInExec(x) == [x EXCEPT !.coupled = FALSE]

Disabled(x) == [x EXCEPT !.state = "BLANK", !.coupled = FALSE]

\* slot_timer_arm and slot_timer_disarm.
Armed(r) == [state |-> "armed", exec_req |-> r]

\* (wrong: only the request is forgotten, the timerfd runs on)
DisarmedRunning == [state |-> "armed", exec_req |-> None]

Disarmed == [state |-> "disarmed", exec_req |-> None]

-----------------------------------------------------------------------------
(* The FRI queue and the reconfiguration device.                           *)

\* (wrong: at the tail, in the order the slots were given)
InsReqAtTail(q, r, rq) == Append(q, r)

\* ins_req_ordered_: before the first request with a later time stamp.
InsReqOrdered(q, r, rq) ==
    LET at == SelectInSeq(q, LAMBDA e : r \in rq[e].older)
    IN  InsertAt(q, IF at = 0 THEN Len(q) + 1 ELSE at, r)

\* The effect of start_rcfg_ on the head of q, where q is what the FRI queue
\* then holds.  start_rcfg_ and start_slot_after_rcfg_ call each other: every
\* leading request that skips reconfiguration is started on its slot, then the
\* first one that does not (if any) takes the reconfiguration device and the
\* others stay queued.  sl and tm are the slots and timers the handler has
\* left when it gets here, rq the requests.
StartRcfg(q, rq, sl, tm) ==
    LET n    == SelectInSeq(q, LAMBDA e : ~rq[e].skip_rcfg)
        run  == ToSet(IF n = 0 THEN q ELSE SubSeq(q, 1, n - 1))
        conf == IF n = 0 THEN {} ELSE {q[n]}
        On(R, s) == {r \in R : rq[r].slot = s}
        The(R) == CHOOSE r \in R : TRUE
    IN  /\ slot' = [s \in Slots |->
              IF On(run, s) # {}
              THEN Computing(sl[s], The(On(run, s)))
              ELSE IF On(conf, s) # {}
              THEN Reconfiguring(sl[s], rq[The(On(conf, s))].hw_task)
              ELSE sl[s]]
        /\ timer' = [s \in Slots |->
              IF On(run, s) # {} THEN Armed(The(On(run, s))) ELSE tm[s]]
        /\ prog' = IF n = 0 THEN None ELSE q[n]
        /\ fri' = IF n = 0 THEN << >> ELSE SubSeq(q, n + 1, Len(q))
        /\ server' \in IF \E r \in run \cup conf : sl[rq[r].slot].state # "RSRV"
                       THEN {"assert"}
                       ELSE IF Faults THEN {"up", "down"} ELSE {"up"}

\* push_req_fri_queue_
PushReqFriQueue(r, rq, sl, tm) ==
    LET q == InsReqOrdered(fri, r, rq)
    IN  IF prog = None /\ Head(q) = r
        THEN StartRcfg(q, rq, sl, tm)
        ELSE /\ fri' = q
             /\ slot' = sl
             /\ timer' = tm
             /\ UNCHANGED <<prog, server>>

\* (wrong: the request stays in the partition queue)
PullReqKeepingIt(r, s, sl, tm) ==
    LET p == PartOfTask[req[r].hw_task]
        c == Head(partQ[p])
    IN  IF partQ[p] = << >>
        THEN /\ slot' = sl
             /\ timer' = tm
             /\ UNCHANGED <<server, prog, fri, partQ, req>>
        ELSE /\ partQ' = partQ
             /\ req' = [req EXCEPT ![c].slot = s]
             /\ PushReqFriQueue(c, req', [sl EXCEPT ![s] = Reserved(@)], tm)

\* (wrong: the youngest request of the queue is served first)
PullReqLastIn(r, s, sl, tm) ==
    LET p == PartOfTask[req[r].hw_task]
        c == Last(partQ[p])
    IN  IF partQ[p] = << >>
        THEN /\ slot' = sl
             /\ timer' = tm
             /\ UNCHANGED <<server, prog, fri, partQ, req>>
        ELSE /\ partQ' = [partQ EXCEPT ![p] = Front(@)]
             /\ req' = [req EXCEPT ![c].slot = s]
             /\ PushReqFriQueue(c, req', [sl EXCEPT ![s] = Reserved(@)], tm)

\* (wrong: the slot is freed and nobody is pulled)
PullNothing(r, s, sl, tm) ==
    /\ slot' = sl
    /\ timer' = tm
    /\ UNCHANGED <<server, prog, fri, partQ, req>>

\* pull_req_partition_queue_, for the slot s that request r has left.
PullReqPartitionQueue(r, s, sl, tm) ==
    LET p == PartOfTask[req[r].hw_task]
        c == Head(partQ[p])
    IN  IF partQ[p] = << >>
        THEN /\ slot' = sl
             /\ timer' = tm
             /\ UNCHANGED <<server, prog, fri, partQ, req>>
        ELSE /\ partQ' = [partQ EXCEPT ![p] = Tail(@)]
             /\ req' = [req EXCEPT ![c].slot = s]
             /\ PushReqFriQueue(c, req', [sl EXCEPT ![s] = Reserved(@)], tm)

-----------------------------------------------------------------------------
(* How the event loop ends.                                                *)

Stop(how) ==
    /\ server' = how
    /\ UNCHANGED <<slot, timer, prog, fri, partQ, req, waiting, banned, irq,
                   rcfgDone, batch>>

-----------------------------------------------------------------------------
(* Handlers.                                                               *)

\* (wrong: the skip flag of the client's previous request survives)
StampedKeepingSkip(c, h) ==
    [d \in Clients |->
        IF d = c THEN [hw_task |-> h, slot |-> None,
                       skip_rcfg |-> req[d].skip_rcfg, older |-> waiting]
        ELSE [req[d] EXCEPT !.older = @ \ {c}]]

\* accel_req_unbind, accel_req_set_hw_task and accel_req_stamp_timestamp: the
\* new stamp is later than that of every other outstanding request.
Stamped(c, h) ==
    [d \in Clients |->
        IF d = c THEN [hw_task |-> h, slot |-> None, skip_rcfg |-> FALSE,
                       older |-> waiting]
        ELSE [req[d] EXCEPT !.older = @ \ {c}]]

\* FRED_MSG_RUN of a bound hardware task that is not banned: the client has
\* no request outstanding (fred_lib sends RUN only in CLI_IDLE).
PushAccelReq(c, h) ==
    /\ server = "up"
    /\ c \notin waiting
    /\ h \notin banned
    /\ waiting' = waiting \cup {c}
    /\ \/ /\ Free(PartOfTask[h]) = {}
          /\ req' = Stamped(c, h)
          /\ partQ' = [partQ EXCEPT ![PartOfTask[h]] = Append(@, c)]
          /\ UNCHANGED <<server, slot, timer, prog, fri>>
       \/ \E s \in Slots :
            /\ SearchSlot(s, h)
            /\ req' = [Stamped(c, h) EXCEPT
                         ![c].slot = s,
                         ![c].skip_rcfg =
                             @ \/ (Mode = "NORMAL" /\ MatchHwTask(s, h))]
            /\ PushReqFriQueue(c, req', [slot EXCEPT ![s] = Reserved(@)], timer)
            /\ UNCHANGED partQ
    /\ UNCHANGED <<banned, irq, rcfgDone, batch>>

\* (wrong: the next request of the FRI queue is not started)
RcfgCompleteNoNext ==
    LET r == prog
        s == req[r].slot
    IN  /\ server = "up"
        /\ batch.devcfg
        /\ batch' = [batch EXCEPT !.devcfg = FALSE]
        /\ rcfgDone' = FALSE
        /\ slot' = [slot EXCEPT ![s] = Computing(Reinit(@), r)]
        /\ timer' = [timer EXCEPT ![s] = Armed(r)]
        /\ prog' = None
        /\ UNCHANGED <<server, fri, partQ, req, waiting, banned, irq>>

\* devcfg handle_event_ and sched_fred_rcfg_complete_: the slot goes through
\* READY (coupled again, interrupts enabled) to EXEC, then the FRI queue.
RcfgComplete ==
    LET r == prog
        s == req[r].slot
    IN  /\ server = "up"
        /\ batch.devcfg
        /\ \/ /\ Faults
              /\ Stop("down")
           \/ /\ batch' = [batch EXCEPT !.devcfg = FALSE]
              /\ rcfgDone' = FALSE
              /\ StartRcfg(fri, req,
                           [slot EXCEPT ![s] = Computing(Reinit(@), r)],
                           [timer EXCEPT ![s] = Armed(r)])
              /\ UNCHANGED <<partQ, req, waiting, banned, irq>>

\* slot handle_event_ and sched_fred_slot_complete_ for the event of slot e.
\* The slot that is cleared is the one of the request, whatever slot raised
\* the event: it must be in SLOT_EXEC, and the read of its UIO device blocks
\* when that device has no interrupt pending.
SlotComplete(e) ==
    LET r == slot[e].exec_req
        s == req[r].slot
    IN  /\ server = "up"
        /\ e \in batch.slot
        /\ IF s = None THEN Stop("assert")
           ELSE IF slot[s].state # "EXEC" THEN Stop("assert")
           ELSE IF s \notin irq THEN Stop("hung")
           ELSE \/ /\ Faults
                   /\ Stop("down")
                \/ /\ batch' = [batch EXCEPT !.slot = @ \ {e}]
                   /\ irq' = irq \ {s}
                   /\ waiting' = waiting \ {r}
                   /\ PullReqPartitionQueue(r, s, [slot EXCEPT ![s] = Cleared(@)],
                                               [timer EXCEPT ![s] = Disarmed])
                   /\ UNCHANGED <<banned, rcfgDone>>

\* slot_timer handle_event_ and sched_fred_slot_timeout_ for the timer of
\* slot e: the read of a timerfd that has been disarmed or re-armed since the
\* batch was taken fails with EAGAIN.
SlotTimeout(e) ==
    LET r == timer[e].exec_req
        s == req[r].slot
    IN  /\ server = "up"
        /\ e \in batch.timer
        /\ IF timer[e].state # "expired" THEN Stop("down")
           ELSE IF slot[s].state # "EXEC" THEN Stop("assert")
           ELSE \/ /\ Faults
                   /\ Stop("down")
                \/ /\ batch' = [batch EXCEPT !.timer = @ \ {e}]
                   /\ banned' = banned \cup {req[r].hw_task}
                   /\ waiting' = waiting \ {r}
                   /\ PullReqPartitionQueue(r, s,
                        [slot EXCEPT ![s] = Disabled(@)],
                        [timer EXCEPT ![e].state = "disarmed"])
                   /\ UNCHANGED <<irq, rcfgDone>>

\* epoll_wait: the event loop blocks until something is ready and then works
\* off what was ready at that time.
Ready == [slot |-> irq, timer |-> {s \in Slots : timer[s].state = "expired"},
          devcfg |-> rcfgDone]

EpollWait ==
    /\ server = "up"
    /\ batch = NoEvents
    /\ Ready # NoEvents
    /\ batch' = Ready
    /\ UNCHANGED <<server, slot, timer, prog, fri, partQ, req, waiting, banned,
                   irq, rcfgDone>>

-----------------------------------------------------------------------------
(* The hardware and the kernel.                                            *)

\* The accelerator in slot s ends its computation and raises its interrupt.
\* A decoupled slot cannot: slot_disable_after_timeout has isolated it.
AcceleratorDone(s) ==
    /\ server = "up"
    /\ slot[s].state = "EXEC"
    /\ s \notin irq
    /\ Overlap \/ timer[s].state # "expired"
    /\ irq' = irq \cup {s}
    /\ UNCHANGED <<server, slot, timer, prog, fri, partQ, req, waiting, banned,
                   rcfgDone, batch>>

\* The watchdog of slot s expires.
TimerExpires(s) ==
    /\ server = "up"
    /\ timer[s].state = "armed"
    /\ Overlap \/ s \notin irq
    /\ timer' = [timer EXCEPT ![s].state = "expired"]
    /\ UNCHANGED <<server, slot, prog, fri, partQ, req, waiting, banned, irq,
                   rcfgDone, batch>>

\* The FPGA manager notifies the end of the reconfiguration in progress.
RcfgDone ==
    /\ server = "up"
    /\ prog # None
    /\ ~rcfgDone
    /\ rcfgDone' = TRUE
    /\ UNCHANGED <<server, slot, timer, prog, fri, partQ, req, waiting, banned,
                   irq, batch>>

-----------------------------------------------------------------------------

Next ==
    \/ \E c \in Clients, h \in HwTasks : PushAccelReq(c, h)
    \/ RcfgComplete
    \/ \E s \in Slots : SlotComplete(s)
    \/ \E s \in Slots : SlotTimeout(s)
    \/ EpollWait
    \/ \E s \in Slots : AcceleratorDone(s)
    \/ \E s \in Slots : TimerExpires(s)
    \/ RcfgDone

Spec == Init /\ [][Next]_vars

\* The event loop never blocks with an event ready and handles every event of
\* a batch; a reconfiguration ends; an armed watchdog that is not disarmed
\* expires.  Nothing obliges an accelerator to finish or a client to ask.
Fairness ==
    /\ WF_vars(EpollWait)
    /\ WF_vars(RcfgComplete)
    /\ WF_vars(RcfgDone)
    /\ \A s \in Slots : /\ WF_vars(SlotComplete(s))
                        /\ WF_vars(SlotTimeout(s))
                        /\ WF_vars(TimerExpires(s))

FairSpec == Spec /\ Fairness

-----------------------------------------------------------------------------
(* Correctness.                                                            *)

TypeOK ==
    /\ server \in {"up", "down", "assert", "hung"}
    /\ slot \in [Slots -> Slot]
    /\ timer \in [Slots -> Timer]
    /\ prog \in Clients \cup {None}
    /\ fri \in Seq(Clients)
    /\ partQ \in [Partitions -> Seq(Clients)]
    /\ req \in [Clients -> AccelReq]
    /\ waiting \subseteq Clients
    /\ banned \subseteq HwTasks
    /\ irq \subseteq Slots
    /\ rcfgDone \in BOOLEAN
    /\ batch \in Batch

Queued(c, p) == c \in ToSet(partQ[p])
InFri(c) == c \in ToSet(fri)
Executing(c, s) == slot[s].state = "EXEC" /\ slot[s].exec_req = c

\* A request that waits for its answer is in exactly one place (one partition
\* queue, the FRI queue, the reconfiguration device or one executing slot) and
\* an answered one is in none: no request is lost, run twice or answered twice.
OnePlace ==
    /\ IsInjective(fri)
    /\ \A p \in Partitions : IsInjective(partQ[p])
    /\ \A c \in Clients :
         LET parts == {p \in Partitions : Queued(c, p)}
             execs == {s \in Slots : Executing(c, s)}
         IN  IF c \notin waiting
             THEN parts = {} /\ execs = {} /\ ~InFri(c) /\ prog # c
             ELSE \/ \E p \in Partitions : parts = {p} /\ execs = {} /\ ~InFri(c) /\ prog # c
                  \/ parts = {} /\ execs = {} /\ InFri(c) /\ prog # c
                  \/ parts = {} /\ execs = {} /\ ~InFri(c) /\ prog = c
                  \/ \E s \in Slots : parts = {} /\ execs = {s} /\ ~InFri(c) /\ prog # c

\* The scheduler's queues and the slots agree: a slot that is not free belongs
\* to one request, which is where the slot's state says, names that slot and
\* runs in that partition.  In particular no slot is given to two requests.
SlotsOwned ==
    \A s \in Slots :
      LET owners == {c \in waiting : req[c].slot = s}
      IN  IF IsAvailable(s) THEN owners = {}
          ELSE \E c \in waiting :
                 /\ owners = {c}
                 /\ PartOfTask[req[c].hw_task] = PartOfSlot[s]
                 /\ slot[s].state = "RSRV" => InFri(c)
                 /\ slot[s].state = "RCFG" => prog = c
                 /\ slot[s].state = "EXEC" => slot[s].exec_req = c

\* An accelerator runs only on a coupled slot that holds the hardware task of
\* its request, a slot is isolated while it is reconfigured, and a queued
\* request marked to skip reconfiguration still finds its hardware task in
\* its slot.
RightAccelerator ==
    /\ \A s \in Slots :
         /\ slot[s].state = "EXEC" =>
              /\ slot[s].coupled
              /\ slot[s].hw_task = req[slot[s].exec_req].hw_task
         /\ slot[s].state = "RCFG" => ~slot[s].coupled
    /\ \A c \in waiting :
         InFri(c) /\ req[c].skip_rcfg =>
           /\ slot[req[c].slot].coupled
           /\ slot[req[c].slot].hw_task = req[c].hw_task

\* No request waits for what is there: an idle reconfiguration device leaves
\* the FRI queue empty, and a partition with a waiting request has no free slot.
WorkConserving ==
    /\ prog = None => fri = << >>
    /\ \A p \in Partitions : partQ[p] # << >> => Free(p) = {}

\* The FRI queue is in the order the requests were issued, although a request
\* that had to wait for a slot enters it later than younger ones.
FriInIssueOrder ==
    \A i, j \in DOMAIN fri : i < j => fri[i] \in req[fri[j]].older

\* A slot executes exactly while its watchdog is armed (or has expired and is
\* still to be handled) for the same request.
WatchdogGuardsExecution ==
    \A s \in Slots :
      /\ slot[s].state = "EXEC" <=> timer[s].state # "disarmed"
      /\ slot[s].state = "EXEC" => timer[s].exec_req = slot[s].exec_req

\* slot.h:200 and the other assertions of the handlers.
AssertionsHold == server # "assert"

\* A request gets a slot only when no older request of the same partition is
\* left waiting for one: new requests do not overtake the partition queue.
GetsSlot(c) == c \in waiting' /\ req'[c].slot # None /\ (c \in waiting => req[c].slot = None)

FifoAdmission ==
    [][\A c, d \in Clients :
         GetsSlot(c) /\ (\E p \in Partitions : Queued(d, p) /\ Queued(d, p)'
                            /\ p = PartOfTask[req'[c].hw_task])
           => c \in req[d].older]_vars

\* A hardware task is banned only when the watchdog of a slot that executes it
\* has expired, the request it executed is answered (with an overrun) in the
\* same step, and a ban is never lifted.
BannedForOverrun ==
    [][/\ banned \subseteq banned'
       /\ \A h \in banned' \ banned : \E s \in Slots :
            /\ timer[s].state = "expired"
            /\ slot[s].hw_task = h
            /\ slot[s].exec_req \in waiting \ waiting'
            /\ slot'[s].state # "EXEC"]_vars

\* scheduler_fred.c:407 says that an overrun disables the offending hardware
\* task permanently.
BannedNeverStarts ==
    [][\A s \in Slots :
         slot[s].state # "EXEC" /\ slot'[s].state = "EXEC"
           => slot'[s].hw_task \notin banned]_vars

\* Every request is answered, with DONE or OVERRUN, unless the server stops.
EveryRequestAnswered ==
    \A c \in Clients : c \in waiting ~> (c \notin waiting \/ server # "up")

-----------------------------------------------------------------------------
(* The service that is implemented.                                        *)

\* How far each request is, what it asks for and the slot it has been given.
stage ==
    [c \in Clients |->
        IF c \notin waiting THEN "idle"
        ELSE IF req[c].slot = None THEN "queued"
        ELSE IF slot[req[c].slot].state = "RSRV" THEN "granted"
        ELSE IF slot[req[c].slot].state = "RCFG" THEN "configuring"
        ELSE "executing"]

task == [c \in Clients |-> IF c \in waiting THEN req[c].hw_task ELSE None]

place == [c \in Clients |-> IF c \in waiting THEN req[c].slot ELSE None]

\* The hardware task a slot offers on the bus.
loaded == [s \in Slots |-> IF slot[s].coupled THEN slot[s].hw_task ELSE None]

Service == INSTANCE FredService WITH line <- partQ

\* Queues, watchdogs, batches of events and skipped reconfigurations implement
\* the service of FredService, when no accelerator finishes while its watchdog
\* expires.
ImplementsService == Service!Spec

-----------------------------------------------------------------------------
(* The inductive invariant, for ~Overlap.  Its parts are stated about         *)
(* explicit values of the scheduler's state, so that they can also be said of *)
(* the intermediate states of a handler.  sl, tm: slots and timers; pr: the   *)
(* request being configured; fq, pq: the queues; rq: requests; wt: waiting.   *)

\* A queued request waits, without a slot, in the queue of its partition.
PartQueuesOK(pq, rq, wt) ==
    \A p \in Partitions :
      /\ IsInjective(pq[p])
      /\ \A c \in ToSet(pq[p]) : /\ c \in wt
                                 /\ rq[c].slot = None
                                 /\ ~rq[c].skip_rcfg
                                 /\ PartOfTask[rq[c].hw_task] = p

\* A request of the FRI queue has reserved its slot.
FriQueueOK(sl, fq, rq, wt) ==
    /\ IsInjective(fq)
    /\ \A c \in ToSet(fq) :
         /\ c \in wt
         /\ rq[c].slot \in Slots
         /\ sl[rq[c].slot].state = "RSRV"
         /\ rq[c].skip_rcfg => /\ sl[rq[c].slot].coupled
                               /\ sl[rq[c].slot].hw_task = rq[c].hw_task

\* The request being configured has its slot isolated.
DevcfgOK(sl, pr, rq, wt) ==
    pr # None => /\ pr \in wt
                 /\ rq[pr].slot \in Slots
                 /\ sl[rq[pr].slot].state = "RCFG"
                 /\ ~sl[rq[pr].slot].coupled
                 /\ sl[rq[pr].slot].hw_task = rq[pr].hw_task

\* An executing slot serves one request, guarded by the slot's watchdog.
ExecOK(sl, tm, rq, wt) ==
    \A s \in Slots :
      /\ sl[s].state = "EXEC" <=> tm[s].state # "disarmed"
      /\ sl[s].state = "EXEC" => /\ sl[s].exec_req \in wt
                                 /\ rq[sl[s].exec_req].slot = s
                                 /\ sl[s].coupled
                                 /\ sl[s].hw_task = rq[sl[s].exec_req].hw_task
                                 /\ tm[s].exec_req = sl[s].exec_req
      /\ sl[s].state = "IDLE" => sl[s].coupled

\* Every waiting request is where the state of its slot says.
WaitingOK(sl, pr, fq, pq, rq, wt) ==
    \A c \in wt :
      /\ rq[c].hw_task \in HwTasks
      /\ rq[c].slot = None => c \in ToSet(pq[PartOfTask[rq[c].hw_task]])
      /\ rq[c].slot \in Slots =>
           /\ PartOfSlot[rq[c].slot] = PartOfTask[rq[c].hw_task]
           /\ \/ sl[rq[c].slot].state = "RSRV" /\ c \in ToSet(fq)
              \/ sl[rq[c].slot].state = "RCFG" /\ pr = c
              \/ sl[rq[c].slot].state = "EXEC" /\ sl[rq[c].slot].exec_req = c

\* A slot that is not free is owned by one waiting request.
OwnersOK(sl, rq, wt) ==
    /\ \A c, d \in wt : rq[c].slot \in Slots /\ rq[c].slot = rq[d].slot => c = d
    /\ \A s \in Slots : sl[s].state \notin {"IDLE", "BLANK"}
                           => \E c \in wt : rq[c].slot = s

\* The time stamps order the waiting requests, and the queues follow them.
StampsOK(rq, wt) ==
    \A c, d \in wt :
      /\ c # d => (c \in rq[d].older <=> d \notin rq[c].older)
      /\ c \notin rq[c].older
      /\ \A e \in wt : c \in rq[d].older /\ d \in rq[e].older => c \in rq[e].older

InIssueOrder(q, rq) == \A i, j \in DOMAIN q : i < j => q[i] \in rq[q[j]].older

Consistent(sl, tm, pr, fq, pq, rq, wt) ==
    /\ PartQueuesOK(pq, rq, wt)
    /\ FriQueueOK(sl, fq, rq, wt)
    /\ DevcfgOK(sl, pr, rq, wt)
    /\ ExecOK(sl, tm, rq, wt)
    /\ WaitingOK(sl, pr, fq, pq, rq, wt)
    /\ OwnersOK(sl, rq, wt)
    /\ StampsOK(rq, wt)
    /\ InIssueOrder(fq, rq)
    /\ \A p \in Partitions : InIssueOrder(pq[p], rq)

\* What is pending in the kernel belongs to the execution or configuration in
\* progress, and the batch holds no event that has gone stale.
EventsOK ==
    /\ \A s \in irq : slot[s].state = "EXEC" /\ timer[s].state = "armed"
    /\ rcfgDone => prog # None
    /\ batch.slot \subseteq irq
    /\ \A s \in batch.timer : timer[s].state = "expired"
    /\ batch.devcfg => rcfgDone

\* Types; queues, slots, timers, device, time stamps and what is pending in the
\* kernel agree in every state between two handlers, nothing idles while it is
\* waited for, and only a failing call into a driver or onto a socket ends the
\* event loop.  (Not with Overlap: an accelerator that finishes while its
\* watchdog expires makes an assertion fail, see AssertionsHold.)
SchedInv ==
    /\ TypeOK
    /\ server \in {"up"} \cup (IF Faults THEN {"down"} ELSE {})
    /\ Consistent(slot, timer, prog, fri, partQ, req, waiting)
    /\ WorkConserving
    /\ EventsOK

=============================================================================
