# A TLA+ specification of FRED for Linux

FRED lets several Linux processes share an FPGA whose *partitions* are
reconfigured at run time.  A server (`src/fred-server.app/src/fred-linux`)
receives acceleration requests from *software tasks* (clients), gives each a
*slot* of the right partition, has the slot reconfigured with the bitstream of
the requested *hardware task* when that is needed, starts the accelerator,
guards it with a watchdog and answers the client.  Two kernel modules load the
bitstreams and provide the shared buffers; a client library and a framework for
task graphs (rt-dag) sit on top.  This directory specifies these parts,
model-checks them with TLC and proves with TLAPS, for every value of the
constants, every safety property of the passing runs: of the scheduler and its
refinement of the service it offers, the test modes, sessions, buffers, the
reconfiguration path from the server through the kernel to the registers of a
slot, layout, set-up and tear-down, and rt-dag's queue and threads.

Paths below are relative to `src/fred-server.app/src/fred-linux` unless they
start with `src/`; `fred_lib.c`, `task_set.h`, `multi_queue.h` are under
`src/fred-lib.app/src`, `zynqmp-fpga-fmod.c` and `fred-buffctl.c` under
`src/zcu102_hwvirt_linux.app/src/kernel-modules`.

## 1. The system

| component | state | operations | talks to |
|---|---|---|---|
| scheduler `srv_core/scheduler_fred.c` | FRI queue (requests for the reconfiguration device), one FIFO queue per partition, mode | `push_accel_req`, `rcfg_complete`, `slot_complete`, `slot_timeout` | slots, timers, devcfg, the client's notify callback |
| slot `srv_core/slot.[ch]` | `SLOT_BLANK/RSRV/RCFG/READY/EXEC/IDLE`, configured hardware task, executing request | reserve, prepare for reconfiguration, reinitialise, start, clear, disable | UIO driver (interrupt), decoupler |
| slot timer `srv_core/slot_timer.[ch]`, `fd_timer.c` | timerfd, request it guards | arm, disarm, clear after expiry | scheduler |
| reconfiguration device `srv_core/devcfg.c` | `DEVCFG_IDLE/PROG`, current request | `start_prog`, `clear_evt` | sysfs files of the FPGA manager |
| partition `srv_core/partition.c` | its slots and timers | search a (random) slot | scheduler |
| request `srv_core/accel_req.h` | hardware task, slot, skip flag, time stamp; embedded in the client object | bind, stamp, compare | all of the above |
| event loop `srv_core/reactor_epoll.c` | table of event sources | register, detach, loop | every handler |
| client session `srv_core/sw_task_client.c` | `CLIENT_EMPTY/READY`, bound hardware tasks, their buffers, the request | INIT, BIND, RUN; notify; free | socket, buffctl, scheduler |
| listener, signals, `fred_sys.c` | sockets, signalfd | accept, shut down, set up | event loop |
| system layout `srv_core/sys_layout.c` | partitions, slots, hardware tasks | built once from two text tables | parser |
| client library `src/fred-lib.app/src/fred-linux-client-lib` | `CLI_EMPTY/INIT/IDLE/ACCEL/ERROR` | init, bind, accel, wait, free | server socket, buffer devices |
| kernel modules `src/zcu102_hwvirt_linux.app/src/kernel-modules` | FPGA worker thread; list of DMA buffers | sysfs start/done; alloc/free ioctl, open/mmap | server, clients |
| rt-dag `src/fred-lib.app/src/rtdag/src` | tasks of a DAG, multi-queues, message buffers | push, pop | client library |

What is hard in it:

* The server is one thread, but `epoll_wait` returns a *batch* of events.  A
  handler changes the world the later events of its batch were collected in: it
  disarms a timer whose expiration is already in the batch, or frees a slot
  whose interrupt is.
* Each request wanders through two kinds of queue, the device and a slot, moved
  by handlers that run for *other* requests.  One handler may start several
  queued requests (`start_rcfg_` and `start_slot_after_rcfg_` call each other).
* Decisions are taken early and used late: the slot and the skip flag are chosen
  when a request enters the FRI queue and relied on when it leaves it.
* A request that waited for a slot enters the FRI queue after younger ones and
  must overtake them.
* Accelerators may never finish; a ban must stop them, and only them.
* Below the server everything is concurrent: the kernel's worker loads a
  bitstream some time after it was asked for, through a clock and a lock it
  shares with readbacks; an interrupt is cleared in two places; the server can
  be restarted, and the modules removed, at any time.
* Clients come, die and leave with answers on their way; the buffers they have
  open belong to the server that frees them.
* Every initialisation can fail, and each error label has to undo exactly what
  came before it.
* rt-dag's message buffers are written and read without a lock; what keeps a
  writer away from a reader is a queue elsewhere in the graph.

`PROJECT.json` lists these and the other hazards with their lines and the
properties that would catch them going wrong.

## 2. Modules

| module | models | instance |
|---|---|---|
| `FredService` | what the server promises its clients (abstract specification) | |
| `FredSched` | scheduler, slots, timers, device, batches of events, shown to implement `FredService`; the inductive invariant `SchedInv` | `MCFredSched`, `Sched*.cfg` |
| `FredSchedProofs` | the theorems about `FredSched`, its refinement of `FredService` among them | |
| `CyclicTest` | the two hardware test modes: cyclic client, mock scheduler and null slots over the slots and device of `FredSched` (EXTENDS) | `MCCyclicTest` |
| `CyclicTestProofs` | the theorems about `CyclicTest` and their proofs | |
| `FredSession` | client library, socket, listener and server session | `FredSession.cfg` |
| `FredSessionProofs` | the theorems about `FredSession` and their proofs | |
| `BuffCtl` | user buffers: kernel module, server, clients | `MCBuffCtl` |
| `BuffCtlProofs` | the theorems about `BuffCtl` and their proofs | |
| `SlotDevice` | a slot register by register: accelerator, decoupler, interrupt controller, UIO file | |
| `FpgaMgr` | server driver, kernel worker, administrator, probe and removal of the FPGA manager | |
| `HwSupport` | composes the two above (EXTENDS `FpgaMgr`, INSTANCE `SlotDevice`) | `MCHwSupport` |
| `HwSupportProofs` | the theorems about `HwSupport` and their proofs | |
| `SysLayout` | tables to partitions, slots, hardware tasks, bitstream buffers; and back | |
| `FredSys` | life of the server's components, table of event sources | |
| `FredServer` | composes the two above (EXTENDS `SysLayout`, INSTANCE `FredSys`) | `MCFredServer` |
| `FredServerProofs` | the theorems about `FredServer`, first about its layout (`SysLayout`) | |
| `Rendezvous` | what a queue of rt-dag promises (abstract specification) | |
| `MultiQueue` | mutex and condition variables of `multi_queue.h`, shown to implement `Rendezvous` | `MultiQueue.cfg` |
| `MultiQueueProofs` | the theorems about `MultiQueue`, its refinement of `Rendezvous` among them | |
| `RtDag` | the threads of a task graph over queues that behave as `Rendezvous` | `MCRtDag` |
| `RtDagProofs` | the theorems about `RtDag` and their proofs | |

Interfaces.  `FredSession` takes from the scheduler only that a pushed request is
answered by DONE or OVERRUN, which is `EveryRequestAnswered` of `FredSched`, and
gives in return what `FredSched` assumes: one outstanding request per client
(`RequestTracked`).  `FredSched` takes from the device that a started
reconfiguration ends, which is `EveryStartEnds` of `HwSupport`, and that an
accelerator's end is reported once, `RunsSeparated` and `CompletionHeard`.
`RtDag` uses the queue as `MultiQueue` is shown to implement it.

Worlds.  Modules with several kinds of disturbance have a variable `world` (in
`FredServer`, `garbage` and `mode`), chosen in `Init` and never changed: which
faults may happen in this behaviour, how much room there is.  One run then covers
the orderly case, where the strong properties hold, as well as the disturbed
ones; a property that needs an orderly world says so in its premise.  `Faults`
as a world means: each call of the code that can fail may fail each time.

Definitions marked `(wrong: ...)` are not part of the models: they are the
plausible mistakes against which the properties are tested.

### How `FredSched` corresponds to the code

| variable | code |
|---|---|
| `slot[s]` | `struct slot` (state, `hw_task`, `exec_req`) and whether its decoupler lets the accelerator through |
| `timer[s]` | `struct slot_timer` and the state of its timerfd |
| `prog` | `devcfg`: `None` is `DEVCFG_IDLE`, otherwise `current_rcfg_req` |
| `fri`, `partQ` | `fri_queue_head`, `part_queues_heads` |
| `req[c]` | the `accel_req` inside client `c`; `older` stands for the time stamp: the requests stamped earlier |
| `waiting` | the clients whose RUN has not been answered (ghost: the code keeps it only in the library's `CLI_ACCEL`) |
| `banned` | `hw_task->banned` |
| `irq`, `rcfgDone` | what is pending on the UIO devices and on `phy_bit_rcfg_done` |
| `batch` | the part of `epoll_events` not handled yet |
| `server` | "up", or how the event loop ended |

| action | code |
|---|---|
| `PushAccelReq(c, h)` | `FRED_MSG_RUN` of a bound task and `sched_fred_push_accel_req_` |
| `RcfgComplete` | devcfg's `handle_event_` and `sched_fred_rcfg_complete_` |
| `SlotComplete(e)` | slot's `handle_event_` and `sched_fred_slot_complete_` |
| `SlotTimeout(e)` | timer's `handle_event_` and `sched_fred_slot_timeout_` |
| `EpollWait` | `epoll_wait` when the previous batch is worked off |
| `AcceleratorDone`, `TimerExpires`, `RcfgDone` | the hardware and the kernel, at any time |

A handler is one action: the code it runs is sequential and the hardware can
only change what is pending.  `StartRcfg`, `PushReqFriQueue` and
`PullReqPartitionQueue` are the functions of these names; since they work on
slots the handler has already changed, those slots are their arguments.  The
mutual recursion of `start_rcfg_` and `start_slot_after_rcfg_` is written by
what it does to the queue: start the leading requests that skip
reconfiguration, then configure the first one that does not.  Operations on a
single slot keep the code's names (`Reserved`, `Reconfiguring`, ...);
`SLOT_READY` is passed through within `RcfgComplete`.

The handlers of one batch run in any order: epoll reports events in the order
they became ready, which the model does not track.

`stage`, `task`, `place` and `loaded` are the refinement mapping to
`FredService`: how far a request is (read off its slot's state), the hardware
task it asks for, the slot it was given, and what a slot offers while its
decoupler lets the accelerator through.  `line` is `partQ`.  Timers, events,
the FRI queue, the skip flag and the time stamps have no counterpart there.

`Mode` selects the two modes of the scheduler and the mock
`srv_core_mocks/scheduler_fred_rand.c`, which is the same code but for a random
free slot and no skipped reconfiguration.

Three constants name the assumptions under which things are checked:

* `Overlap`: may an accelerator raise its interrupt while the expiration of its
  watchdog is pending, or the other way round?  The code has no defence against
  it (section 5), so its correctness is stated for `Overlap = FALSE`.
* `Faults`: may a call into a driver or onto a socket fail?  Every such failure
  ends the event loop; the partial effects before it are not kept, since nothing
  but the shutdown happens after it.
* a client has one request outstanding, which `fred_async_accel` guarantees by
  its state `CLI_IDLE` (`fred_lib.c:252`) and the server does not check.

A false assertion stops the model (`server = "assert"`), as it stops a debug
build.  A release build compiles assertions out and goes on.

Time stamps of two requests are taken to differ.  Equal ones (`CLOCK_MONOTONIC`
read twice within its resolution) would be inserted in order of arrival, which is
what the model's order does for requests that are pushed directly.

### How the other modules correspond to the code

`FredSession`, one client per process, one connection per client:

| variable or action | code |
|---|---|
| `state`, `call`, `bound` | `fred_data` (`fred_lib.c`): its state, the read a call is blocked in, its hardware tasks |
| `c2s`, `s2c`, `peer` | the stream socket; `reset` when a client dies with unread data, as Linux does |
| `sess`, `binds`, `req` | `sw_task_client`: state, `hw_tasks`, and whether its `accel_req` is with the scheduler |
| `FredInit`, `FredBind`, `FredAsyncAccel`, `FredFree`, `Receive` | the calls of the library and what they do with an answer |
| `Handle(c)` | the reactor running the listener or the session's handler: `process_msg_`, end of file, error |
| `Done`, `Overrun` | `notify_` called by the scheduler, the socket possibly closed |
| `Kill` | the process ends at any point |

`BuffCtl`: `list`, `count`, `user` are the kernel's list, the id counter and
`STATE_BUSY`; `ifs` are the buffers of a session, task after task, `buff` the
client's `struct user_buff`, `dropped` the living clients whose session the
server has freed (history).  The server allocates and frees one buffer per step;
a process opens, maps, closes and dies between any two of them, also between the
test of `STATE_BUSY` and the removal of the device (`tested`).

`FpgaMgr`: `srv` is the server's program counter inside the three writes of
`start_rcfg`; `worker` where the kernel thread is between
`wait_for_completion` and the notification; `admin` the same for a full load or
a readback through the same lock and clock; `module` which resources the probe
holds.  `SlotDevice`: a handler is the list of register accesses still to do
(`todo`), one per step, with the hardware moving in between.  `HwSupport`
decides when the server's one thread is in which of the two.  `clk` is the clock
that loads and readbacks share, with the rate a readback saves; `clk.lost`
(history) names what `clk_set_rate` and `clk_prepare` have failed to put back at
`zynqmp-fpga-fmod.c:400-402`, where their results are ignored.
`HandleEventFails` is the read of `rcfg_done` that fails or says 0 microseconds,
which ends the server; `Remove` stops a module without a worker in
`kthread_stop` (`oops`).

`SysLayout`: a line of a table is the sequence of its tokens (parser), one line or
one bitstream per step, every operation failing; where `user_buff_map` fails, which
`hw_task.c:139` does not look at, the read into address 0 fails (`ReadBitFails`)
or ends the process (`ReadBitAborts`).  `FredSys`: `Builds`,
`Registers` and `Undo` are the order of `init_normal_mode_` and of its error
labels; `table` is the reactor's array, with the owner of each entry.  A use of a
component that is not live is recorded in `stale`; `status` "left" is a client
whose initialisation failed and left buffers or sockets behind, and `cause`
(history) says what ended the set-up or the loop.  The listener builds a session
before it registers it: the table may be full (`ConnectOverflows`), `epoll_ctl`
may refuse (`ConnectRefused`), and a session that could not be built runs into
the reactor's assertion (`ConnectAborts`).  The end of the loop is a phase of its
own (`clearing`), in which `exit_clear` frees what the reactor owns.

`MultiQueue`: a step is what a thread does between taking and releasing the mutex;
a waiter is `blocked`, then `woken` (signalled or spuriously), and competes again.
`RtDag`: a thread's program counter within its loop; `mask` and `start` are the
queues, `buf` the message buffers.  `CyclicTest`: `bytes` is the socket pair by
which scheduler and client hand over the one request.

## 3. What is checked

| run | instance | properties |
|---|---|---|
| `sched_slots` | 1 partition of 2 slots, 2 hardware tasks, 3 clients, faults, normal mode | `OnePlace`, `SlotsOwned`, `RightAccelerator`, `WatchdogGuardsExecution`, `SchedInv` (which contains `TypeOK`), `BannedForOverrun`, `ImplementsService` |
| `sched_parts` | partitions of 1 and 2 slots, one hardware task each, 4 clients, random mode | `WorkConserving`, `FriInIssueOrder`, `FifoAdmission` |
| `sched_live` | 2 partitions of 1 slot, 3 clients, fair | `EveryRequestAnswered` |
| `sched_assert` | 2 partitions of 1 slot, `Overlap` | the violation of `AssertionsHold` |
| `sched_banned` | 2 partitions of 1 slot | the violation of `BannedNeverStarts` |
| `cyclic` | both test modes, 3 tasks on 2 partitions, a partition without slots, `Faults`, `Overlap` | `TestInv`, `NeverSkips`, `EveryTaskTested` |
| `session` | 2 clients, 2 hardware tasks and an unknown one, room for 1 or 2 sessions, with and without deaths and faults | `SessionInv`, `RequestTracked`, `ServerEndsForAReason`, `EveryCallReturns` |
| `buffctl` | 2 clients, 2 buffers per task, ids that do or do not wrap, three worlds | `BuffersOwned`, `UsersSafe`, `NothingLeaks` |
| `hw_support` | 2 slots and bitstreams, four worlds | `HwInv`, `StartMatchesEnd`, `ClockKept`, `IsolatedWhileLoading`, `RunsSeparated`, `RefusedOnlyWhileRearming`, `EveryStartEnds`, `CompletionHeard` |
| `fred_server` | 3 modes, 6 by 6 tables, 2 sessions in a table of 7 sources | `ServerInv`, `LayoutComplete`, `BitstreamsAccounted`, `LifeCycle`, `SignalTerminates` |
| `multi_queue` | 2 edges with 2 pushers each, 2 poppers, 2 rounds | `QueueInv`, `NoLostWakeup`, `ImplementsQueue` |
| `rtdag` | 13 graphs of 1 to 4 tasks, 3 iterations | `InstancesInv`, `ReadsThisIteration`, `EveryThreadEnds` |

### The scheduler

* `OnePlace`: a waiting request is in exactly one place (one partition queue,
  the FRI queue, the device or one executing slot), an answered one in none.
  Nothing is lost, run twice or answered twice.
* `SlotsOwned`: every slot that is not free belongs to one request, and queue,
  device and slot agree on it.
* `RightAccelerator`: what runs is what was asked for, on a coupled slot, also
  when reconfiguration was skipped on the word of a flag set earlier.
* `WorkConserving`: nothing waits for a resource that is free.
* `FriInIssueOrder`, `FifoAdmission`: the two disciplines of section "What is
  hard".
* `WatchdogGuardsExecution`, `BannedForOverrun`: the watchdog covers exactly the
  execution, and a ban hits exactly the task that overran.
* `ImplementsService`: seen by its clients, the server is the abstract one of
  `FredService`.  A request is queued, granted a slot, configured, executed and
  answered, in this order and perhaps several stages in one step; a slot once
  given is kept; lines are served from the head; a slot comes to offer a task
  only by being configured with it; and after every step no line waits for a
  free slot and no granted request for an idle device.  Recursion in the
  handlers, skipped reconfigurations and overruns are steps of it.
* `SchedInv`: the inductive invariant of section 4.  It says of the server that it
  is up, or down by a failing call; since every passing run has
  `Overlap = FALSE`, this is no claim about the race of `sched_assert`, which
  makes an assertion false.
* `EveryRequestAnswered`: DONE or OVERRUN, eventually.

Bounds.  The data has no counters: the state space is finite once the sets are
chosen.  Two clients share a slot, a third waits behind them; a partition with
two slots is the smallest in which the choice of the slot and the skip flag
matter; two partitions are the smallest in which a request leaves a partition
queue while a younger one of the other partition is in the FRI queue, which
takes four clients.  Two hardware tasks in one partition are needed for a slot
to hold the wrong one.  The random mode chooses any free slot and always
reconfigures, so its behaviours include those of `ALWAYS_RCFG`.  Clients are
interchangeable (`ClientSymmetry`) in the passing runs without liveness.
`sched_parts` compares states by `View`, which leaves out the request of a client
that has been answered and its place in the time stamps of the others: no action
reads them before the client's next RUN overwrites them, and neither do the
properties of that run.

The test modes (`cyclic`): the byte in the socket pair and the request are one
token, and no queue, device or running watchdog refers to the request when the
client gets it back (`TestInv`, also with a completion that races the watchdog);
every execution is preceded by a configuration (`NeverSkips`); and the test goes
round all hardware tasks for ever (`EveryTaskTested`), a ban notwithstanding.

### Sessions and buffers

* `SessionInv`: client and server agree which hardware tasks are bound and in
  which order, whatever was refused.
* `RequestTracked`: the one `accel_req` of a session is never overwritten while a
  queue links it, and is not freed with the session as long as the client lives.
* `ServerEndsForAReason`: each way in which the server ends for all has its own
  reasons.  In order: a connection that waits is refused by a full table, a client
  went with an answer unread, the scheduler fails.  By SIGPIPE: the step serves or
  answers a dead client.  By a use of freed memory: the request of a dead client.
  By an assertion: an accept that failed.  A table that is merely full is no
  reason while no connection waits, and the end of a client that owes and is owed
  nothing never is.
* `EveryCallReturns`: no call of the library blocks for ever.
* `BuffersOwned`, `UsersSafe`, `NothingLeaks`: what the server gives back is
  there and its own, nobody uses freed memory but for the race named in
  `OpenExists`, and nothing is left after orderly clients.

Bounds.  Two clients are enough for one to be served while the other dies, and
for one to take an id that belongs to the other; `Rooms = 1` is a table too small
for both.  Three ids (`Failing`) make the 32-bit counter come round within a run;
nine (`InOrder`) give every allocation of that world an id of its own.

### Reconfiguration and slots

* `StartMatchesEnd`: what the kernel loads is what the server asked for last, no
  start is forgotten and no end is invented, although nothing locks the
  attributes.
* `ClockKept`: every path through the manager, failing or not, restores clock
  and buffer, and no partial load runs at the rate of a readback, unless one of
  the two calls that restore the clock has itself failed (`clk.lost`): the driver
  does not notice, and the clock stays slow or unprepared.
* `IsolatedWhileLoading`, `RunsSeparated`, `CompletionHeard`: the decoupler is
  closed when the bitstream arrives; an interrupt is heard exactly once; the
  accelerator is ready when it is started.
* `EveryStartEnds`, `RefusedOnlyWhileRearming`: progress, and the one window in
  which an innocent start is refused.
* `HwInv`: nothing stays open or running in a driver that failed or a module that
  was removed.

Bounds.  With two bitstreams an address can be paired with a wrong size and
one slot is at work while the other is loaded.  Administrator, failures and
restarts are combined without slots, and slots without failures
(`WorldsAssumption`), since a failing slot operation only ends the loop.
`LoopHasRun` assumes that the loop runs once during a reconfiguration, which takes
milliseconds.

### The server as a whole

* `LayoutComplete`: a layout that comes up is what the tables say, with a
  bitstream for every slot the scheduler may pick.
* `LifeCycle`: after any failure and at any end every component is freed, once,
  and before what it depends on.  `Excused` names the exceptions, each tied to the
  one failure that causes it: the client that `epoll_ctl` refuses (freed twice),
  what a client that could not be built leaves, and the session that finds the
  table full (both freed by nobody).  Each of them happens in this instance: TLC
  reaches it.
* `BitstreamsAccounted`: no buffer is freed under a task that is still there (the
  structure of a failed allocation names id 0), and none is left in the kernel,
  but for one whose file was cut short.
* `ServerInv`: a running server hears signals, device, listener, slots and timers.
* `SignalTerminates`: a signal leads to the end of the process, in order or, if a
  connection fails before it is read, by the reactor's assertion.

Bounds.  `MaxSlots = 3` holds two slots per partition (the code keeps one entry
unused), `TableSize = 7` leaves room for two sessions beside a small layout, for
none beside a larger one, and too little for the largest; `EpollFails` names every
kind of handler.  The tables hold
matching and unknown partitions, equal names and ids, none and too many lines.

### rt-dag

* `ImplementsQueue`: every step of mutex and condition variables is a step of
  `Rendezvous` or a stutter under the mapping that reads `elems` through
  `busy_mask`, and the fair liveness of the one implies that of the other.
* `NoLostWakeup`, `QueueInv`: why (counters of waiters that tell the truth, places
  whose bit agrees with their element).  Two pushers on one place and two poppers are
  more than rt-dag uses: with one thread each a wrong wake-up cannot go to
  somebody else.
* `ReadsThisIteration`, `InstancesInv`: a task reads the message of its own
  iteration, for graphs with one source and one sink; the queue of start times is
  what ensures it.
* `EveryThreadEnds`, and no deadlock (checked in this run): on graphs with one
  source and one sink, and on graphs the launcher refuses.  (It also accepts
  graphs with several sinks, which are not covered.)

Bounds.  Three iterations let a fast task be two ahead of a slow one.  The
graphs have a diamond, a short cut, a single task, hardware tasks inside and at
the ends, and every shape the launcher refuses.

### Deadlock and fairness

Deadlock is checked for `rtdag` only.  Elsewhere the system may stop: the server
idles when all requests are answered, ends, or all clients have been freed.

| specification | fairness | why the code justifies it |
|---|---|---|
| `FredSched!FairSpec` | WF of `EpollWait`, of each handler, of `RcfgDone` and `TimerExpires` | the loop blocks only in `epoll_wait` and works off every event; a started reconfiguration ends, an armed timer expires.  Accelerators and clients owe nothing |
| `FredSession!Fairness` | WF of `Handle(c)`, of the answer to a pushed request, of `Receive` | epoll reports every readable socket; `EveryRequestAnswered`; a client blocked in a read gets what is there.  Clients need not call anything |
| `HwFairness` | WF of the server's thread, its handlers, the worker's loading, the administrator's call, the probe and interrupts; SF of `WorkerLock`, `SlotConfigured`, `SlotComplete` | threads and firmware calls go on; a kernel mutex is handed over to a waiter although others use `mutex_trylock`; epoll comes to each of several ready events.  Accelerators need not finish |
| `ServerSpec` | WF of the thread and of the handling of a signal | straight code; a signalfd stays readable |
| `TestFairness` | as `FairSpec`, for a null slot its completion instead of its timer | the same loop; a null slot answers at once |
| `MultiQueue!Spec` | WF of each thread's step | a thread that is not suspended gets the mutex |
| `RtDag!Fairness` | WF of each thread, of the launcher's refusal and of its join | the same; those that wait on a queue are woken, as `MultiQueue` shows |

`BuffCtl` states safety only.  That a reconfiguration ends is an assumption of
`FairSpec`; `HwSupport` shows it of the kernel thread and names the failures in
which it does not hold (`zynqmp-fpga-fmod.c:491`).

## 4. What is proved

Every theorem holds for every value of the constants that satisfies the named
assumptions, TLC having found its invariant true on the instance of the run
first.

### The scheduler (`FredSchedProofs`)

It proves, for every set of clients, hardware tasks, slots and
partitions, every mode, with or without faults, and for `Overlap = FALSE`:

`Consistency` (`SchedInv`), `TypeCorrectness` (`TypeOK`), `OnePlaceAtATime`
(`OnePlace`), `SlotOwnership` (`SlotsOwned`), `AcceleratorMatchesRequest`
(`RightAccelerator`), `NoIdleResource` (`WorkConserving`), `FriQueueOrder`
(`FriInIssueOrder`), `WatchdogCoversExecution` (`WatchdogGuardsExecution`),
`FifoPartitions` (`FifoAdmission`) and
`BanOnlyForOverrun` (`BannedForOverrun`).

The assumptions are `ConstantsAssumption` (slots are numbers, every slot and
every hardware task has a partition, the null pointer is none of the objects)
and `~Overlap`.

The argument.  None of the properties is inductive.  `OnePlace` needs to know
that a request of the FRI queue has its slot in `SLOT_RSRV`, which needs that no
two requests have one slot, which needs that every slot that is not free is owned
by a request that is where its state says; `FriInIssueOrder` needs that the time
stamps order all waiting requests; the skip flag is right only because a reserved
slot is not touched until its request leaves the queue.  `SchedInv` collects
this: `TypeOK`, `Consistent` (nine parts on queues, device, slots, owners and
stamps), `WorkConserving`, and `EventsOK`, which says that what is pending in the
kernel and in the batch still concerns the execution in progress.  The last part
is where `~Overlap` is used and where the code fails without it.

The parts of `Consistent` are stated about explicit values instead of the
variables, because a handler passes through states that are not states of the
system: the slot is freed, then the next request is pulled, then it enters the
FRI queue, then the device may start it.  There is one lemma for each of these
stages (`LeaveSlot`, `PullSettles`, `EnterFri`, `PushReqSettles`,
`StartRcfgSettles`), each going from `Consistent` of its input to `Consistent`
of its output, and one lemma per action that chains them.  Below them are lemmas
about the ordered insertion (`InsertElements`, `InsertKeepsOrder`) and about what
`start_rcfg_` does to the queue (`SplitElements`, `StartRcfgEffect`).

`ServiceImplemented`: under the same assumptions every behaviour of `FredSched`
is one of `FredService` (`ImplementsService`).  With `Overlap` it is not: the
race of section 5 answers a request twice and gives a slot to two.

The argument.  `SchedInv` gives the state part: `Staged` reads stage, task and
place off the place of a request, and `ServiceOrderly` shows that every state of
the scheduler is `Orderly`, where no waiting line beside a free slot is
`WorkConserving` and one configuration at a time is the device.  A step is split
as `FredService` splits it (`ServiceMoves`): one client at most asks or is
answered (`OneMoves`), the others rest or advance with their slot
(`RequestsKept`), lines move at their ends (`QueuesMove`), the stages of held
slots go forward only (`BusyKept`, shown together with the invariant, action by
action), and slots offer what was configured (`OffersKept`).  The last two
follow the same stages of a handler as the invariant: `StartOffers`,
`PushOffers`, `PullOffers`, `PullQueues`.

### Reconfiguration and slots (`HwSupportProofs`)

For any set of bitstreams, any assignment of slots to them and any worlds that
satisfy `NoneAssumption` and `WorldsAssumption`, all the safety properties of the
run `hw_support`:

| theorem | property | inductive invariant |
|---|---|---|
| `StartAndEndAgree` | `StartMatchesEnd` | `Agree` |
| `SlotIsolatedWhileLoading` | `IsolatedWhileLoading` | `Agree`, `Isolated` |
| `SharedClockKept` | `ClockKept` | `Agree`, `ClockInv` |
| `RunsStaySeparated` | `RunsSeparated` | `Agree`, `Device`, `Renewed` |
| `RefusalsExplained` | `RefusedOnlyWhileRearming` | `Agree`, `Rest` |
| `HwInvariant` | `HwInv` | all of them, `Connected` |

The argument.  Everything rests on `Agree`: the kernel's busy flag covers a start
from its acceptance to the last of the worker's bookkeeping, so there is one at a
time (`OneStart`), and with one server a pending start is that of the server that
waits (`OwnStart`), whose address and size are then in the attributes
(`Attributed`).  From this the slot that the kernel loads is the one the server
decoupled; that it still is decoupled needs, on the side of the slots, that the
handler that couples is never in progress while the server asks (`Isolated`).
`ClockInv` is a table: for each label of the driver's functions what the clock
and the buffer are, and who has the lock; it holds relative to `clk.lost`, which
only the two ignored results change.  `Device` says how far a handler is
with its slot and that a slot that may be started is `Clean`; that a new
accelerator is clean needs `Renewed`: by the time the server reads the end, the
kernel has nothing more to load.  There is one lemma per group of actions and
invariant (server, kernel, begin of a handler, handler, hardware).

`EventMeansDone` uses `LoopHasRun` (a guard of `Reinit`, section 3): without it an
event left over from before a timeout could be there when the slot is started.

### The test modes (`CyclicTestProofs`)

For one cyclic client (`TestAssumption`), any layout and any non-empty order of
tasks, both kinds of slots, with or without `Faults` and also with `Overlap`:
`OneToken` (`TestInv`) and `AlwaysReconfigures` (`NeverSkips`).

The argument.  `TestKept` says where the one request is while the server is up:
with the client (`AtRest`), in a partition's queue, on the device or in a slot,
every other slot being free.  The byte in the socket pair is there exactly in
the first case.  `SchedInv` is of no use here, since it needs `~Overlap`; what
takes its place is that a running watchdog, an interrupt and the end of a
reconfiguration can only be those of the one request, an interrupt perhaps of an
earlier turn (`EventsKept`).

### Sessions (`FredSessionProofs`)

For any finite set of clients, any hardware tasks and limits, with and without
deaths and faults (`ConstantsAssumption`): `SessionAgrees` (`SessionInv`),
`RequestInOnePlace` (`RequestTracked`) and `EndsForAReason`
(`ServerEndsForAReason`, an action property).

The argument.  `Joined` is a protocol table: for each client, which states of
library, socket and session go together (`Initialising`, `AtRest`, `Binding`,
`BoundHalf`, `Idle`, `Accelerating`, `Over`, `Left`, `Dead`, `Unborn`).  A step
touches one client (`OneTouched`), so each action is a move in the table; the
reasons of `ServerEndsForAReason` are read off the rows in which a step can end
the server.
The set of clients is finite because a full server counts its sessions.

### User buffers (`BuffCtlProofs`)

For any clients, number of buffers per task, number of ids and worlds
(`ConstantsAssumption`): `BuffersHeldOnce` (`BuffersOwned`), `NobodyUsesFreed`
(`UsersSafe`) and `OrderlyLeavesNothing` (`NothingLeaks`).

The argument.  `Account` adds to `BuffersOwned` what the three parties know of
each other: a client whose session was not taken from it knows of buffers of
this session only (`KnowsOwn`), and a buffer that is open is in the list and not
the one just found free (`OpenStays`), which carries the proof over the window
between the test of `STATE_BUSY` and the removal.  The new buffers of a BIND
differ from all held ones although the counter comes round, because an id in the
list is refused (`BindAllocates`).  `Tidy` is the invariant of the orderly world.

### The server as a whole (`FredServerProofs`)

For any tables, limits, sessions, modes and contents of freed memory:
`RunningIsHeard` (`ServerInv`), `LayoutIsAsNamed` (`LayoutComplete`),
`BitstreamsGivenBack` (`BitstreamsAccounted`) and `FreedOnceWhileNeeded`
(`LifeCycle`).  The assumptions are `ConstantsAssumption` and `FilesAssumption`
of the layout (a token read as a number is one), `ServerAssumption` (the table of
sources has room for something) and `SessionsAssumption` (a session is none of
the other components).  None of them has
a further hypothesis: what the code does not free as it should is named by
`Excused` in `LifeCycle`.

The argument.  `LayoutKept` is proved first and for the layout alone: the
partitions and tasks read so far are those of the first rows (`RowsRead`,
`TasksRead`), the buffers in the kernel are those of tasks that are there
(`BuffersHeld`), and taking down goes through them in turn (`FreedInTurn`,
`GivenBack`).  `ServerKept` says of each phase how far it is: there is a `k` such
that the first `k` of twelve steps of the set-up are done (`InSetUp`), or of the
seven of the error labels (`InUndo`), or of the six of the end (`InClosing`),
and what is alive and registered follows from `k`.  A refused client and the
sessions of a full table are followed by `cause` through the steps that come
after (`GoneStays`, `OverflowKeeps`, `ConnectAbortsKeeps`).  Entering the error labels
from any of the twelve steps is one lemma (`UndoIsRest`).  The sources of the
layout are the only ones that are in the table more than once; that the table
holds `Wanted` of them when the set-up ends is counted in `FirstOnes` and
`HeardMore`.

### The threads of rt-dag (`RtDagProofs`)

For any number of iterations and any graphs that satisfy `GraphsAssumption`:
`InstancesKeptApart` (`InstancesInv`) and `MessagesOfThisIteration`
(`ReadsThisIteration`).  `GraphsAssumption` asks that a graph the launcher
accepts be acyclic with one source and one sink, which the structures count on
("the DAG source") and the launcher does not check; graphs it refuses are free.

The argument.  `InFlow` counts: along every edge as many messages were sent as
were received and are in the queue (`Conserved`), the queue of start times holds
the difference between source and sink (`Started`), and the buffer of an edge is
that of the last message (`Buffered`).  From this every task is between the sink
and the source, which are one iteration apart at most (`InOrder`): of the tasks
that are not, an acyclic graph has one without predecessors, and one without
successors, among them, and the count along its edges contradicts it.  A task
still in the iteration before the source's has then sent all it had to send in
it (`Behind`).

### The queue of rt-dag (`MultiQueueProofs`)

Under `ConstantsAssumption` (fewer edges than bits in the mask, messages that
differ from the empty place, pushers that are not poppers): `QueueConsistent`
(`QueueInv`), `WakeupsNotLost` (`NoLostWakeup`), and `QueueImplemented`: every
behaviour is one of `Rendezvous`, its fairness left aside.

The argument.  `NoLostWakeup` is inductive together with `QueueInv`: that a waiter
who is not woken finds nothing to do is kept by a signal only if the counter of
waiters the signal looks at is right (`WaitingCounts`), and a step maps to one of
`Rendezvous` only if a set bit of the mask means a message is there (`Filled`).

### What is only model-checked

Liveness under fairness, and with it `ENABLED`, is out of the prover's reach:
`EveryRequestAnswered`, `EveryStartEnds`, `CompletionHeard`, `EveryCallReturns`,
`SignalTerminates`, `EveryTaskTested`, `EveryThreadEnds` and the liveness half of
`ImplementsQueue`.  So is induction over data with a recursive operator; the
models use none in what is proved, but that a row of tokens is what the text of a
file says stays outside the models (section 6).  The two violations are
counterexamples.

## 5. Where code and statements about it disagree

With a run:

* `sched_assert`.  `slot_clear_after_compute` asserts `SLOT_EXEC`
  (`slot.h:200`).  When a watchdog expires and the interrupt of its accelerator
  follows before the timer has been handled, the timer handler answers OVERRUN
  and blanks the slot, and the interrupt, already in the batch, runs into the
  assertion.  A release build answers the client twice and leaves a decoupled
  slot `SLOT_IDLE`; if the slot has been given to the next request meanwhile, it
  is marked free under that request and given away again.  In the opposite order the read of the
  disarmed timerfd fails with `EAGAIN` and the server shuts down
  (`slot_timer.c:42`).
* `sched_banned`.  An overrun is logged as `Permanently disabling offending
  hw-task` (`scheduler_fred.c:407`), but requests for it that were queued before
  the overrun are still configured and executed.

Seen while modelling, and kept in the models as the code does it; the properties
are stated around them:

* A client that dies with an answer unread or a request outstanding ends the
  server: the read fails (`sw_task_client.c:342`, which returns a system error
  where `:139` would only detach), or the write raises SIGPIPE.
  `ServerEndsForAReason` ties each way of ending to exactly these cases.
* A server that finds the kernel in the few instructions between notification and
  re-arming is refused with `-EBUSY` and shuts down
  (`zynqmp-fpga-fmod.c:500-505`; `RefusedOnlyWhileRearming`).
* A server started after a crash inherits the kernel's work for its predecessor:
  address and size may be mixed and an old end read as a new one, hence
  `~crashed` in `StartMatchesEnd`.  `uio_dev_init` does not enable an interrupt
  that the predecessor had left disabled.
* A failed load ends the worker without a notification
  (`zynqmp-fpga-fmod.c:491`): the server waits in `DEVCFG_PROG` for ever.
  `kthread_run` failing is reported as success (`:674`), and the removal of the
  module then gives the error pointer to `kthread_stop` (`:697`, `oops`).
* After a readback the results of `clk_set_rate` and `clk_prepare` are ignored
  (`zynqmp-fpga-fmod.c:400-402`).  A rate that was not restored is what the next
  readback saves as the rate to restore, so the clock stays slow for good; a clock
  that was not prepared fails the next partial load, which ends the worker.
  `ClockKept` excepts what `clk.lost` names.
* The client (listener or cyclic client) is freed twice when `epoll_ctl` refuses
  it: by the error label and, from the entry made before, by the reactor
  (`fred_sys.c:226`, `:228`; `reactor_epoll.c:109-138`).
* A session that finds the table of sources full is built and freed by nobody
  (`sw_tasks_listener.c:53-58`); a cyclic client that cannot be built leaves its
  data buffers in the kernel module and its sockets open
  (`cyclic_client.c:241-267`), the listener its socket
  (`sw_tasks_listener.c:116-127`).  These and the double free are `Excused` in
  `LifeCycle`.
* A failed accept leaves the listener's handler pointer null, which
  the reactor's assertion stops (`sw_tasks_listener.c:53-56`,
  `reactor_epoll.c:102`): one connection that is gone before it is accepted ends
  the server (`ConnectAborts`, `AcceptFails`).
* The result of `user_buff_map` is not looked at (`hw_task.c:139`), and the
  bitstream's file stays open when the allocation fails (`hw_task.c:128-130`;
  descriptors of files are not modelled).
* `free_all_buffs_` stops at the first busy buffer and leaves all that come after
  it (`fred-buffctl.c:268-276`); an open device keeps the module loaded, so none
  is busy then (`FreeAll`).
* A line of the hardware task table that names an unknown partition gets the
  partition of the line before (`sys_layout.c:172`); `LayoutMatchesTables` speaks
  of known partitions.
* `sys_layout_free` frees partitions before the tasks that read their slot count
  (`hw_task.c:251`): `garbage` is what they may read.
* `hw_task_add_buffer` checks no limit before the sizes of buffers reach the
  client (`hw_task.c:172`, `fred_lib.c:223`); `NewTask` takes what the code's
  test of the table leaves.
* `busy_mask` is an `int` (`multi_queue.h:77`, `:81`): 32 edges make the mask of a
  full queue 0.  `ConstantsAssumption` of `MultiQueue` excludes it.
* `free_buff_` logs through a list cursor that may be past the end
  (`fred-buffctl.c:256`).  `fd_timer_init` frees memory embedded in its owner
  when it fails (`fd_timer.c:122`), which ends the process (`LayoutAborts`).
* A reconfiguration that takes 0 microseconds is taken for a failure
  (`scheduler_fred.c:298`).
* A hardware task of rt-dag indexes its output buffers by position
  (`task_set.h:452`, `:454`): with several hardware buffers a message can go to
  the wrong one, so `ReadsThisIteration` speaks of CPU predecessors.  A graph
  with two sinks only gets a message (`task_set.h:843`).
* The state diagram of `slot.h:28-36` draws a timeout as an edge to `SLOT_IDLE`,
  the code goes to `SLOT_BLANK` (`slot.h:193`), which the comment there explains;
  `partition.h:74-75` promises the *first* free slot, `partition_search_slot`
  returns the *last* one when none matches (`partition.c:50-60`).

## 6. Plan, and what is not modelled

Modelled: the scheduler and its drivers down to registers, the reconfiguration
path into the kernel thread, sessions, buffers, set-up and tear-down, the test
modes, rt-dag with its queues; proved: their safety properties.  To come:

1. Server seen by its clients: `FredSession` with `FredService` in the place of
   `Done` and `Overrun`, so that the interface of section 2 becomes a
   composition instead of a pair of matching properties.
2. A smaller `OneWay` for rt-dag: graphs with several sinks are accepted by the
   launcher, and what still holds of them is worth stating.

Liveness stays with TLC, as do `ENABLED` and what a recursion over data computes
for every input.

Not modelled, and not planned:

* the poll reactor: compiled only with `USE_POLL`, which no build file sets, and
  not compilable then (`reactor_add_event_handler` has two parameters there and
  four in `reactor.h`);
* the splitting of text into tokens and its limits (`parser.c`), rt-dag's YAML
  input and time keeping, logging, stop watches: text and output;
* GPIO probes, speed tests, the measurement runs, device trees, platform
  configuration and build scripts: no state the rest depends on;
* what an accelerator computes, and the contents of buffers and bitstreams.
