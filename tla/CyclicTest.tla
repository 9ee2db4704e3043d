----------------------------- MODULE CyclicTest -----------------------------
(***************************************************************************)
(* The two hardware test modes of the server: the mock scheduler            *)
(* (scheduler_fred_rand.c), which takes any free slot and always            *)
(* reconfigures it, with the cyclic client (cyclic_client.c), which lives   *)
(* in the server, is bound to all hardware tasks and asks for one after the *)
(* other.  Client and scheduler share one accel_req; what tells the client  *)
(* to go on is a byte in a socket pair.  The slots, queues and devices are  *)
(* those of FredSched, whose RANDOM mode the mock is.                       *)
(***************************************************************************)
EXTENDS FredSched, FiniteSets

CONSTANT
    Worlds  \* the circumstances that are considered

\* tasks: the hardware tasks in the order of the layout; null: the
\* reconfiguration test, whose slots (slot_drv_null.c) only pretend to compute?
World == [tasks : Seq(HwTasks) \ {<< >>}, null : BOOLEAN]

ASSUME TestAssumption ==
    /\ \E c \in Clients : Clients = {c}
    /\ Mode = "RANDOM"
    /\ \A w \in Worlds : w \in World

cyclic == CHOOSE c \in Clients : TRUE

VARIABLES
    world,  \* of this run
    bytes,  \* written to in_fd and not read from out_fd yet
    next    \* next_hw_task, from 1

testVars == <<vars, world, bytes, next>>

Tasks == world.tasks
NullSlots == world.null

\* bind_all_hw_tasks_, and the first trigger.
TestInit == Init /\ world \in Worlds /\ bytes = 1 /\ next = 1

-----------------------------------------------------------------------------
(* The client asks.                                                        *)

\* (wrong: a slot that holds the task is not reconfigured)
PushSkipping(h) ==
    \E s \in Free(PartOfTask[h]) :
        /\ req' = [Stamped(cyclic, h) EXCEPT
                     ![cyclic].slot = s, ![cyclic].skip_rcfg = MatchHwTask(s, h)]
        /\ PushReqFriQueue(cyclic, req', [slot EXCEPT ![s] = Reserved(@)], timer)
        /\ UNCHANGED partQ

\* sched_fred_rand_push_accel_req_, also for a task that is banned.
Push(h) ==
    \/ /\ Free(PartOfTask[h]) = {}
       /\ req' = Stamped(cyclic, h)
       /\ partQ' = [partQ EXCEPT ![PartOfTask[h]] = Append(@, cyclic)]
       /\ UNCHANGED <<server, slot, timer, prog, fri>>
    \/ \E s \in Free(PartOfTask[h]) :
          /\ req' = [Stamped(cyclic, h) EXCEPT ![cyclic].slot = s]
          /\ PushReqFriQueue(cyclic, req', [slot EXCEPT ![s] = Reserved(@)], timer)
          /\ UNCHANGED partQ

\* (wrong: a task that has been banned loses its turn)
NextAllowed ==
    LET allowed == {i \in DOMAIN Tasks : Tasks[i] \notin banned}
    IN  CHOOSE i \in DOMAIN Tasks : allowed # {} => i \in allowed

NextTask == (next % Len(Tasks)) + 1

\* handle_event_ of the client: the counter goes on when the push succeeds.
Trigger ==
    /\ server = "up"
    /\ bytes > 0
    /\ bytes' = bytes - 1
    /\ Push(Tasks[next])
    /\ waiting' = waiting \cup {cyclic}
    /\ next' = IF server' = "up" THEN NextTask ELSE next
    /\ UNCHANGED <<banned, irq, rcfgDone, batch>>

-----------------------------------------------------------------------------
(* The scheduler answers.                                                  *)

\* cyclic_client_notify_action_ writes a byte, whatever the message; the
\* scheduler goes on with the request before the byte is read.
Notified == bytes' = bytes + Cardinality(waiting \ waiting')

Silent == UNCHANGED <<bytes, next>>

\* sched_fred_rand_rcfg_complete_, sched_fred_rand_slot_complete_ and
\* sched_fred_rand_slot_timeout_.
TestRcfgComplete == RcfgComplete /\ Silent

TestSlotComplete(e) == SlotComplete(e) /\ Notified /\ UNCHANGED next

\* (wrong: an overrun is not notified)
TimeoutUnnotified(e) == SlotTimeout(e) /\ Silent

TestSlotTimeout(e) == SlotTimeout(e) /\ Notified /\ UNCHANGED next

\* Slots that pretend are done at once: their event is there before the
\* watchdog is armed.  (Bound: the event loop does not take longer to come to
\* it than the watchdog.)
Done(s) == AcceleratorDone(s) /\ Silent

Expires(s) == ~NullSlots /\ TimerExpires(s) /\ Silent

TestNext ==
    /\ UNCHANGED world
    /\ \/ Trigger
       \/ TestRcfgComplete
       \/ \E s \in Slots : TestSlotComplete(s) \/ TestSlotTimeout(s)
       \/ EpollWait /\ Silent
       \/ \E s \in Slots : Done(s) \/ Expires(s)
       \/ RcfgDone /\ Silent

Fixed(A) == A /\ UNCHANGED world

\* As in FredSched; a slot that pretends is never late.
TestFairness ==
    /\ WF_testVars(Fixed(Trigger))
    /\ WF_testVars(Fixed(EpollWait /\ Silent))
    /\ WF_testVars(Fixed(TestRcfgComplete))
    /\ WF_testVars(Fixed(RcfgDone /\ Silent))
    /\ \A s \in Slots : /\ WF_testVars(Fixed(TestSlotComplete(s)))
                        /\ WF_testVars(Fixed(TestSlotTimeout(s)))
                        /\ WF_testVars(Fixed(IF NullSlots THEN Done(s) ELSE Expires(s)))

TestSpec == TestInit /\ [][TestNext]_testVars /\ TestFairness

-----------------------------------------------------------------------------
(* Properties.                                                             *)

TestTypeOK ==
    /\ TypeOK
    /\ bytes \in 0 .. 1
    /\ next \in DOMAIN Tasks

\* The byte and the request are one token: while the server is up exactly one
\* of the two is there, so the test neither stops nor overwrites its request.
OneTurn == server = "up" => bytes + Cardinality(waiting) = 1

\* When the client may build its next request no queue, no device, no slot at
\* work and no running watchdog refers to the last one.
RequestAtRest ==
    bytes > 0 =>
        /\ ~InFri(cyclic) /\ prog # cyclic
        /\ \A p \in Partitions : ~Queued(cyclic, p)
        /\ \A s \in Slots : ~Executing(cyclic, s) /\ timer[s].state # "armed"

\* "never skip reconfiguration" (scheduler_fred_rand.c:252): a slot begins to
\* compute right after it has been configured, and for the task asked for.
NeverSkips ==
    [][\A s \in Slots :
          slot'[s].state = "EXEC" /\ slot[s].state # "EXEC" =>
              slot[s].state = "RCFG" /\ slot'[s].hw_task = req[cyclic].hw_task]_testVars

\* The test comes to every hardware task again and again, banned or not, unless
\* the server ends or a partition has no slot for a task.
EveryTaskTested ==
    \A i \in 1 .. Cardinality(HwTasks) :
        []<>(\/ next = i \/ i \notin DOMAIN Tasks
             \/ server # "up"
             \/ \E k \in DOMAIN Tasks : \A s \in Slots : PartOfSlot[s] # PartOfTask[Tasks[k]])

\* Types, and the hand-over between client and scheduler: one token (OneTurn),
\* and a request at rest when it comes back (RequestAtRest).
TestInv == TestTypeOK /\ OneTurn /\ RequestAtRest
=============================================================================
