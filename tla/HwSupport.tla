----------------------------- MODULE HwSupport -----------------------------
(***************************************************************************)
(* Reconfiguring and running accelerators: the server's thread between the *)
(* FPGA manager (FpgaMgr) and the registers of the slots (SlotDevice).     *)
(* Before a bitstream is handed over its slot is decoupled; when the end   *)
(* is read, the slot is coupled and started.  Loading a bitstream replaces *)
(* the accelerator, whose registers are then as after a reset.             *)
(***************************************************************************)
EXTENDS FpgaMgr

CONSTANTS
    SlotOf,   \* the slot a bitstream is for
    Worlds    \* the circumstances that are considered

\* slots: is the server given work?  If not only the device is looked at.
World == [faults : BOOLEAN, restarts : BOOLEAN, admin : BOOLEAN,
          slots : BOOLEAN, overlap : BOOLEAN]

ASSUME WorldsAssumption ==
    /\ Worlds \subseteq World
    /\ \A w \in Worlds : w.slots => ~w.faults /\ ~w.restarts

VARIABLES state, regs, apart, gic, event, todo

Slots == {SlotOf[b] : b \in Bits}

S == INSTANCE SlotDevice

registers == <<state, regs, apart, gic, event, todo>>

vars == <<world, fpga, registers>>

HwInit == world \in Worlds /\ Init /\ S!Init

-----------------------------------------------------------------------------
(* The server's thread is in one handler at a time: a slot's handler runs  *)
(* only between two calls into the device, and the other way round.        *)

InLoop == srv.pc \in {"idle", "wait"}

\* A start_prog without slots behind it, or with the slot it is for.
ConfigureSlot(b) ==
    /\ StartProg(b)
    /\ IF world.slots THEN S!Decouple(SlotOf[b]) ELSE UNCHANGED registers

\* rcfg_complete
SlotConfigured ==
    /\ HandleEvent
    /\ IF world.slots THEN S!Reinit(SlotOf[srv.bit]) ELSE UNCHANGED registers

SlotServer(s) == InLoop /\ S!Server(s) /\ UNCHANGED fpga

\* Without overlap an accelerator whose watchdog expires has not finished.
SlotTimeout(s) ==
    /\ InLoop
    /\ world.overlap \/ regs[s].start
    /\ S!Disable(s)
    /\ UNCHANGED fpga

\* The firmware has put the bitstream at the address that was read.
BitstreamLoaded ==
    /\ WorkerLoaded(FALSE)
    /\ IF world.slots THEN S!Loaded(SlotOf[attr.addr]) ELSE UNCHANGED registers

Hardware(s) == (S!Finish(s) \/ S!Interrupt(s)) /\ UNCHANGED fpga

Alone(A) == A /\ UNCHANGED registers

HwNext ==
    /\ UNCHANGED world
    /\ \/ \E b \in Bits : ConfigureSlot(b)
       \/ SlotConfigured
       \/ BitstreamLoaded
       \/ \E s \in Slots : world.slots /\ (SlotServer(s) \/ SlotTimeout(s) \/ Hardware(s))
       \/ S!Waiting /\ Alone(Start \/ Server \/ HandleEventFails \/ HandleStrayEvent \/ Interrupt)
       \/ Alone(Worker \/ OpsWriteInit \/ TryLock \/ Admin)
       \/ Alone(Probe \/ Remove \/ Unregister)

Fixed(A) == A /\ UNCHANGED world

\* The server's thread and the kernel's go on when they can, a call of the
\* administrator ends, the event loop comes to every event, interrupts are
\* delivered, and mutex_lock is handed over: a waiter does not lose the lock for
\* ever to callers of mutex_trylock.  Accelerators need not finish.
HwFairness ==
    /\ WF_vars(Fixed(Alone(Server)))
    /\ SF_vars(Fixed(SlotConfigured))
    /\ WF_vars(Fixed(BitstreamLoaded \/ Alone(Worker)))
    /\ SF_vars(Fixed(Alone(WorkerLock)))
    /\ WF_vars(Fixed(Alone(Admin)))
    /\ WF_vars(Fixed(Alone(Probe)))
    /\ \A s \in Slots :
         /\ WF_vars(Fixed(InLoop /\ S!Handler(s) /\ UNCHANGED fpga))
         /\ SF_vars(Fixed(InLoop /\ S!SlotComplete(s) /\ UNCHANGED fpga))
         /\ WF_vars(Fixed(S!Interrupt(s) /\ UNCHANGED fpga))

HwSpec == HwInit /\ [][HwNext]_vars /\ HwFairness

-----------------------------------------------------------------------------
(* Properties.                                                             *)

\* Every variable has its type, at most one start is pending in the kernel
\* (starts), and a slot that computes or has computed is coupled.
HwTypeOK == world \in Worlds /\ TypeOK /\ S!TypeOK

\* The slot whose bitstream the firmware is loading is decoupled, although the
\* kernel loads when it comes to it, long after the server decoupled the slot.
IsolatedWhileLoading ==
    world.slots /\ worker = "load" => SlotOf[attr.addr] \in apart

\* An event that the scheduler takes for a completion is one: the accelerator
\* that the slot executes has stopped, so neither an interrupt of the run before
\* nor one that was cleared too early ends the next.
EventMeansDone == \A s \in event : state[s] = "EXEC" => ~regs[s].start

\* slot_drv_master_start_compute_ never finds the accelerator busy, even if its
\* predecessor was stopped by the watchdog and never finished.
StartFindsReady == \A s \in Slots : S!Does("start", s) => ~regs[s].start

Undisturbed == ~Faults /\ ~Restarts /\ ~world.overlap

\* Every reconfiguration that was started ends, or the server is stopped,
\* while the module stays and nothing fails.
EveryStartEnds ==
    Undisturbed /\ srv.pc = "wait" ~>
        srv.pc # "wait" \/ module.pc \in {"stopping", "removed"}

\* An accelerator that finishes in time is heard, run after run, by a server
\* that is up: no completion waits for an interrupt nobody enables again.
CompletionHeard ==
    \A s \in Slots :
        Undisturbed /\ state[s] = "EXEC" /\ ~regs[s].start ~>
            state[s] # "EXEC" \/ srv.pc = "ended"

\* Types, and what stays open or running in a driver that is down
\* (NothingOpenWhenDown) and a module that is gone (RemovedIsQuiet).
HwInv == HwTypeOK /\ NothingOpenWhenDown /\ RemovedIsQuiet

\* The worker's loads and notifications are those the server asked for, one for
\* one: LoadsWhatWasAsked, StartNotLost and NoSpuriousEnd.
StartMatchesEnd == LoadsWhatWasAsked /\ StartNotLost /\ NoSpuriousEnd

\* The clock that loads and readbacks share: full rate for a load
\* (FullRateForLoads), restored by every user (ClockRestored), unless one of the
\* two calls that restore it and whose results are ignored has failed.
ClockKept == FullRateForLoads /\ ClockRestored

\* A run of an accelerator is never taken for the next: EventMeansDone and
\* StartFindsReady.
RunsSeparated == EventMeansDone /\ StartFindsReady
=============================================================================
