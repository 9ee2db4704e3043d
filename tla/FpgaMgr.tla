------------------------------ MODULE FpgaMgr ------------------------------
(***************************************************************************)
(* Partial reconfiguration, from the server's driver (devcfg.c,            *)
(* devcfg_drv_fpga_mgr.c) through four sysfs attributes to the kernel's    *)
(* FPGA manager (zynqmp-fpga-fmod.c).  Four actors interleave: the server, *)
(* the kernel thread rcfg_worker, an administrator who loads or reads back *)
(* the whole FPGA through the same manager, and the loading and removal of *)
(* the kernel module.  The server may be interrupted and started again     *)
(* while the kernel goes on.                                               *)
(*                                                                         *)
(* A bitstream has an address and a size; both attributes are named by the *)
(* bitstream they were written for, None standing for 0.                   *)
(***************************************************************************)
EXTENDS Naturals, Sequences

CONSTANTS
    Bits,      \* partial bitstreams of the system layout
    None       \* nothing: an attribute that is 0, a lock nobody holds

ASSUME NoneAssumption == None \notin Bits \cup {"worker", "admin"}

VARIABLES
    world,   \* the circumstances of a behaviour, which no step changes
    srv,     \* the server's driver: pc, open attributes (fds), current bit
    attr,    \* phy_bit_addr, phy_bit_size
    enc,     \* IXR_FPGA_ENCRYPTION_EN in priv->flags
    rcfg,    \* priv->rcfg, a start was accepted and its end not recorded
    starts,  \* the count of the completion start_rcfg
    done,    \* phy_bit_rcfg_done is readable: notified after its last read
    worker,  \* where rcfg_worker is
    admin,   \* where the administrator's call into the manager is
    lock,    \* who holds priv->lock
    clk,     \* priv->clk, and what has been lost of it (Clock)
    dma,     \* the administrator's coherent buffer is allocated
    module,  \* the kernel module: pc and the resources it holds
    crashed  \* history: a server was started after one that had worked

kernel == <<attr, enc, rcfg, starts, done, worker>>
manager == <<admin, lock, clk, dma>>
fpga == <<srv, kernel, manager, module, crashed>>

-----------------------------------------------------------------------------
(* Data.                                                                   *)

\* The order in which devcfg_drv_fpga_mgr_init opens the attributes.
Attributes == <<"rcfg_done", "rcfg_start", "addr", "size">>

\* The order in which zynqmp_fpga_probe acquires what the module holds.
ProbeSteps == <<"mgr", "clk", "prepared", "registered", "groups", "worker">>

\* Prepared, enabled, running at PCAP_READ_CLKFREQ, and the rate that clk_rate
\* of zynqmp_fpga_read_cfgdata saves.  History: lost names what a call whose
\* result that function ignores has failed to restore.
Clock == [prep : BOOLEAN, on : BOOLEAN, slow : BOOLEAN, saved : BOOLEAN,
          lost : SUBSET {"rate", "prepare"}]

Off == [prep |-> FALSE, on |-> FALSE, slow |-> FALSE, saved |-> FALSE, lost |-> {}]

On == [clk EXCEPT !.on = TRUE]

\* A successful clk_prepare.
Prepare(c) == [c EXCEPT !.prep = TRUE, !.lost = @ \ {"prepare"}]

\* May an open, a write, a clock, an allocation or the firmware fail?
Faults == world.faults

\* May the server be interrupted and started again?
Restarts == world.restarts

\* Is there an administrator, who may load encrypted bitstreams, too?
Administered == world.admin

May(fail) == fail = FALSE \/ Faults

\* The sysfs attributes exist from device_add_groups to the unregistration.
Exported == "groups" \in module.held

Goto(pc) == srv' = [srv EXCEPT !.pc = pc]

\* Stop of the server: free_ closes the four attributes.
Shutdown == srv' = [pc |-> "ended", fds |-> {}, bit |-> None]

Init ==
    /\ srv = [pc |-> "down", fds |-> {}, bit |-> None]
    /\ attr = [addr |-> None, size |-> None]
    /\ enc = FALSE
    /\ rcfg = FALSE
    /\ starts = 0
    /\ done = FALSE
    /\ worker = "none"
    /\ admin = "idle"
    /\ lock = None
    /\ clk = Off
    /\ dma = FALSE
    /\ module = [pc |-> "probing", held |-> {}]
    /\ crashed = FALSE

-----------------------------------------------------------------------------
(* The server: devcfg_drv_fpga_mgr_init.                                   *)

Start ==
    /\ \/ srv.pc = "down" /\ UNCHANGED crashed
       \/ srv.pc = "ended" /\ Restarts /\ crashed' = TRUE
    /\ Goto("open")
    /\ UNCHANGED <<kernel, manager, module>>

\* What a failing open or dummy read closes again before it returns -1.
Closed(fds) == fds

\* A freshly opened rcfg_done is readable until it is read once.
Open ==
    \E i \in DOMAIN Attributes :
        /\ srv.pc = "open"
        /\ srv.fds = {Attributes[j] : j \in 1 .. i - 1}
        /\ \/ /\ Exported
              /\ srv' = [srv EXCEPT !.fds = @ \cup {Attributes[i]},
                                    !.pc = IF i = Len(Attributes) THEN "dummy" ELSE @]
              /\ done' = (done \/ Attributes[i] = "rcfg_done")
           \/ /\ Faults \/ ~Exported
              /\ srv' = [srv EXCEPT !.fds = @ \ Closed(@), !.pc = "down"]
              /\ UNCHANGED done
        /\ UNCHANGED <<attr, enc, rcfg, starts, worker, manager, module, crashed>>

DoneRead == FALSE

\* The initial dummy read of rcfg_done; then devcfg is IDLE.
DummyRead ==
    /\ srv.pc = "dummy"
    /\ \/ Exported /\ Goto("idle") /\ done' = DoneRead
       \/ /\ Faults \/ ~Exported
          /\ srv' = [srv EXCEPT !.fds = @ \ Closed(@), !.pc = "down"]
          /\ UNCHANGED done
    /\ UNCHANGED <<attr, enc, rcfg, starts, worker, manager, module, crashed>>

-----------------------------------------------------------------------------
(* The server: devcfg_start_prog and devcfg_drv_fpga_mgr_start_rcfg_, whose *)
(* three writes the kernel sees one by one.  A failing write returns -1 to  *)
(* the reactor, which shuts the server down.                                *)

StartProg(b) ==
    /\ srv.pc = "idle"
    /\ srv' = [srv EXCEPT !.pc = "addr", !.bit = b]
    /\ UNCHANGED <<kernel, manager, module, crashed>>

\* phy_bit_addr_store and phy_bit_size_store
Store(pc, field, next) ==
    /\ srv.pc = pc
    /\ \/ /\ Exported
          /\ attr' = [attr EXCEPT ![field] = srv.bit]
          /\ Goto(next)
       \/ /\ Faults \/ ~Exported
          /\ Shutdown
          /\ UNCHANGED attr
    /\ UNCHANGED <<enc, rcfg, starts, done, worker, manager, module, crashed>>

AddrStore == Store("addr", "addr", "size")
SizeStore == Store("size", "size", "start")

\* phy_bit_rcfg_start_store and phy_bit_start_dma_partial: -EINVAL, -ENXIO
\* and -EBUSY.
Refuses == attr.addr = None \/ attr.size = None \/ enc \/ rcfg

StartStore ==
    /\ srv.pc = "start"
    /\ IF Exported /\ ~Refuses
       THEN /\ rcfg' = TRUE
            /\ starts' = starts + 1
            /\ Goto("wait")
       ELSE /\ Shutdown
            /\ UNCHANGED <<rcfg, starts>>
    /\ UNCHANGED <<attr, enc, done, worker, manager, module, crashed>>

\* handle_event_ of devcfg when rcfg_done is readable.  In DEVCFG_PROG the
\* scheduler calls devcfg_clear_evt, which reads the attribute; in DEVCFG_IDLE
\* there is no current request and an assertion is false.
HandleEvent ==
    /\ done /\ Exported
    /\ srv.pc = "wait"
    /\ srv' = [srv EXCEPT !.pc = "idle", !.bit = None]
    /\ done' = FALSE
    /\ UNCHANGED <<attr, enc, rcfg, starts, worker, manager, module, crashed>>

\* The attribute cannot be read, or says that the reconfiguration took 0 us:
\* sched_fred_rcfg_complete_ takes both for an error.
HandleEventFails ==
    /\ done /\ srv.pc = "wait"
    /\ \/ (Faults \/ ~Exported) /\ UNCHANGED done
       \/ Faults /\ Exported /\ done' = FALSE
    /\ Shutdown
    /\ UNCHANGED <<attr, enc, rcfg, starts, worker, manager, module, crashed>>

HandleStrayEvent ==
    /\ done
    /\ srv.pc = "idle"
    /\ Goto("assert")
    /\ UNCHANGED <<kernel, manager, module, crashed>>

\* SIGINT or SIGTERM at any time, a crash, and a new server: the kernel keeps
\* its attributes, its completion and its worker.
Interrupt ==
    /\ Restarts
    /\ srv.pc \notin {"down", "ended"}
    /\ Shutdown
    /\ UNCHANGED <<kernel, manager, module, crashed>>

-----------------------------------------------------------------------------
(* The kernel thread rcfg_worker.                                          *)

WorkerAt(from, to) == worker = from /\ worker' = to

\* while (!kthread_should_stop()) wait_for_completion(...)
WorkerCheck ==
    /\ WorkerAt("run", IF module.pc = "stopping" THEN "exited" ELSE "wait")
    /\ UNCHANGED <<srv, attr, enc, rcfg, starts, done, manager, module, crashed>>

WorkerWake ==
    /\ starts > 0
    /\ WorkerAt("wait", "lock")
    /\ starts' = starts - 1
    /\ UNCHANGED <<srv, attr, enc, rcfg, done, manager, module, crashed>>

LockFree == lock = None

\* mutex_lock and clk_enable, which fails for a clock that is not prepared
WorkerLock ==
    /\ LockFree
    /\ \/ /\ clk.prep
          /\ WorkerAt("lock", "load")
          /\ lock' = "worker"
          /\ clk' = On
       \/ /\ Faults \/ ~clk.prep
          /\ WorkerAt("lock", "exited")
          /\ UNCHANGED <<lock, clk>>
    /\ UNCHANGED <<srv, attr, enc, rcfg, starts, done, admin, dma, module, crashed>>

\* The firmware returns; the clock and the lock are given back either way.
WorkerLoaded(fail) ==
    /\ May(fail)
    /\ WorkerAt("load", IF fail THEN "exited" ELSE "notify")
    /\ lock' = None
    /\ clk' = [clk EXCEPT !.on = FALSE]
    /\ UNCHANGED <<srv, attr, enc, rcfg, starts, done, admin, dma, module, crashed>>

WorkerNotify ==
    /\ WorkerAt("notify", "reinit")
    /\ done' = TRUE
    /\ UNCHANGED <<srv, attr, enc, rcfg, starts, manager, module, crashed>>

\* (wrong: the busy flag is cleared before the completion is reinitialised)
RearmedSwapped(pc) == IF pc = "reinit" THEN <<FALSE, starts>> ELSE <<rcfg, 0>>

\* (wrong: the busy flag stays set)
RearmedBusy(pc) == <<rcfg, 0>>

\* <<rcfg, starts>> after reinit_completion, then after atomic_set(.., 0).
Rearmed(pc) == IF pc = "reinit" THEN <<rcfg, 0>> ELSE <<FALSE, starts>>

WorkerRearm ==
    /\ \/ WorkerAt("reinit", "clear")
       \/ WorkerAt("clear", "run")
    /\ rcfg' = Rearmed(worker)[1]
    /\ starts' = Rearmed(worker)[2]
    /\ UNCHANGED <<srv, attr, enc, done, manager, module, crashed>>

Worker == WorkerCheck \/ WorkerWake \/ WorkerLock \/ WorkerLoaded(TRUE)
          \/ WorkerNotify \/ WorkerRearm

-----------------------------------------------------------------------------
(* The administrator, through the FPGA manager framework, which lets one   *)
(* call in at a time.  Each goto label of the code is a value of admin.     *)

AdminAt(from, to) == admin = from /\ admin' = to

\* zynqmp_fpga_ops_write_init: the flags are set without the lock, for a
\* full load that zynqmp_fpga_ops_write may then refuse.
OpsWriteInit ==
    /\ "registered" \in module.held
    /\ AdminAt("idle", "write")
    /\ Administered
    /\ enc' \in BOOLEAN
    /\ UNCHANGED <<srv, attr, rcfg, starts, done, worker, lock, clk, dma,
                   module, crashed>>

\* mutex_trylock of zynqmp_fpga_ops_write and zynqmp_fpga_ops_read: -EBUSY,
\* or the lock and the first step of the operation.  readback_type chooses
\* between read_cfgreg and read_cfgdata.
TryLock ==
    /\ \/ /\ lock = None
          /\ \/ AdminAt("write", "clk_enable")
             \/ /\ "registered" \in module.held
                /\ Administered
                /\ \E type \in {"clk_enable", "clk_unprepare"} : AdminAt("idle", type)
          /\ lock' = "admin"
       \/ /\ lock # None
          /\ AdminAt("write", "idle")
          /\ UNCHANGED lock
    /\ UNCHANGED <<srv, kernel, clk, dma, module, crashed>>

\* A step of zynqmp_fpga_ops_write, read_cfgreg or read_cfgdata from label
\* "from" to "to", that leaves the clock as c and the buffer as d.
Step(from, to, c, d) ==
    /\ AdminAt(from, to)
    /\ clk' = c
    /\ dma' = d

\* zynqmp_fpga_ops_write and zynqmp_fpga_read_cfgreg
AdminClock ==
    \/ clk.prep /\ Step("clk_enable", "dma_alloc", On, dma)
    \/ (Faults \/ ~clk.prep) /\ Step("clk_enable", "unlock", clk, dma)
    \/ Step("dma_alloc", "firmware", clk, TRUE)
    \/ Faults /\ Step("dma_alloc", "disable", clk, dma)
    \/ Step("firmware", "disable", clk, FALSE)
    \/ Step("disable", "unlock", [clk EXCEPT !.on = FALSE], dma)

\* (wrong: the label restore_pcap_clk is skipped when the clock cannot be enabled)
NotEnabledPrepare == "prepare_clk"

NotEnabled == "restore_pcap_clk"

\* zynqmp_fpga_read_cfgdata: the clock is slowed down for the readback.  The
\* results of the clk_set_rate and the clk_prepare that restore it are ignored.
AdminReadData ==
    \/ Step("clk_unprepare", "set_rate", [clk EXCEPT !.prep = FALSE], dma)
    \/ Step("set_rate", "prepare_enable", [clk EXCEPT !.saved = clk.slow, !.slow = TRUE], dma)
    \/ Faults /\ Step("set_rate", "prepare_clk", clk, dma)
    \/ Step("prepare_enable", "data_alloc", Prepare(On), dma)
    \/ Faults /\ Step("prepare_enable", NotEnabled, clk, dma)
    \/ Step("data_alloc", "data_firmware", clk, TRUE)
    \/ Faults /\ Step("data_alloc", "disable_unprepare", clk, dma)
    \/ Step("data_firmware", "disable_unprepare", clk, FALSE)
    \/ Step("disable_unprepare", "restore_pcap_clk",
            [clk EXCEPT !.on = FALSE, !.prep = FALSE], dma)
    \/ Step("restore_pcap_clk", "prepare_clk", [clk EXCEPT !.slow = clk.saved, !.saved = FALSE], dma)
    \/ Faults /\ Step("restore_pcap_clk", "prepare_clk",
                      [clk EXCEPT !.saved = FALSE, !.lost = @ \cup {"rate"}], dma)
    \/ Step("prepare_clk", "unlock", Prepare(clk), dma)
    \/ Faults /\ Step("prepare_clk", "unlock", [clk EXCEPT !.lost = @ \cup {"prepare"}], dma)

AdminStep ==
    /\ AdminClock \/ AdminReadData
    /\ UNCHANGED <<srv, kernel, lock, module, crashed>>

AdminUnlock ==
    /\ AdminAt("unlock", "idle")
    /\ lock' = None
    /\ UNCHANGED <<srv, kernel, clk, dma, module, crashed>>

-----------------------------------------------------------------------------
(* The kernel module: zynqmp_fpga_probe and zynqmp_fpga_remove.            *)

\* What a probe that fails at this step still holds: the returns for a clock
\* that is missing or cannot be prepared do not free the manager.
Undone(step) == IF step \in {"clk", "prepared"} THEN {"mgr"} ELSE {}

Prepared(held) == [clk EXCEPT !.prep = "prepared" \in held]

\* A worker that cannot be created undoes everything, but err is 0 by then
\* and probe reports success.
Probe ==
    \E i \in DOMAIN ProbeSteps : LET step == ProbeSteps[i] IN
        /\ module.pc = "probing"
        /\ module.held = {ProbeSteps[j] : j \in 1 .. i - 1}
        /\ \/ /\ module' = [held |-> module.held \cup {step},
                            pc |-> IF step = "worker" THEN "bound" ELSE "probing"]
              /\ worker' = IF step = "worker" THEN "run" ELSE worker
              /\ clk' = IF step = "prepared" THEN Prepare(clk) ELSE clk
           \/ /\ Faults
              /\ admin = "idle"
              /\ module' = [held |-> Undone(step),
                            pc |-> IF step = "worker" THEN "bound" ELSE "failed"]
              /\ clk' = Prepared(Undone(step))
              /\ UNCHANGED worker
        /\ UNCHANGED <<srv, attr, enc, rcfg, starts, done, admin, lock, dma, crashed>>

\* kthread_stop sets the flag the worker reads at the top of its loop and
\* then waits for the worker to return; where no worker could be created it is
\* given an error pointer, and the kernel goes no further in it.
Remove ==
    /\ module.pc = "bound"
    /\ module' = [module EXCEPT !.pc = IF "worker" \in module.held THEN "stopping" ELSE "oops"]
    /\ UNCHANGED <<srv, kernel, manager, crashed>>

\* (wrong: the module does not wait for its thread)
StoppedAtOnce == TRUE

Stopped == worker = "exited"

\* fpga_mgr_unregister waits for the call that is inside the manager.
Unregister ==
    /\ module.pc = "stopping"
    /\ Stopped
    /\ admin = "idle"
    /\ module' = [pc |-> "removed", held |-> {}]
    /\ clk' = Prepared({})
    /\ UNCHANGED <<srv, kernel, admin, lock, dma, crashed>>

-----------------------------------------------------------------------------
(* Steps that are fair in the specification, which HwSupport states.        *)

Server == Open \/ DummyRead \/ AddrStore \/ SizeStore \/ StartStore

Admin == AdminStep \/ AdminUnlock

-----------------------------------------------------------------------------
(* Properties.                                                             *)

TypeOK ==
    /\ srv.pc \in {"down", "ended", "open", "dummy", "idle", "addr", "size", "start",
                   "wait", "assert"}
    /\ srv.fds \subseteq {"rcfg_done", "rcfg_start", "addr", "size"}
    /\ srv.bit \in Bits \cup {None}
    /\ attr \in [addr : Bits \cup {None}, size : Bits \cup {None}]
    /\ {enc, rcfg, done, dma, crashed} \subseteq BOOLEAN
    /\ starts \in 0 .. 1
    /\ worker \in {"none", "run", "wait", "lock", "load", "notify", "reinit",
                   "clear", "exited"}
    /\ lock \in {None, "worker", "admin"}
    /\ clk \in Clock
    /\ module.pc \in {"probing", "bound", "failed", "stopping", "removed", "oops"}
    /\ module.held \subseteq {ProbeSteps[i] : i \in DOMAIN ProbeSteps}

\* What the worker hands to the firmware is the address and the size of the
\* bitstream the server asked for last, although it reads both long after they
\* were written and without a lock.  Only a server that has been started again
\* while its predecessor's reconfiguration was on its way can mix them up.
LoadsWhatWasAsked ==
    worker = "load" /\ ~crashed =>
        srv.pc \in {"wait", "ended"} /\ (srv.pc = "wait" => attr.addr = srv.bit /\ attr.size = srv.bit)

\* A server that waits for the end of a reconfiguration is not forgotten: the
\* end can be read, the completion is still to be consumed, or the worker is
\* between the two; if not, the worker has given up or been stopped.
StartNotLost ==
    srv.pc = "wait" =>
        done \/ starts > 0 \/ worker \in {"lock", "load", "notify", "exited"}

\* An end of reconfiguration is never read by a server that has not asked for
\* one, unless it is the late end of what an earlier server started.
NoSpuriousEnd == srv.pc = "idle" /\ done => crashed

\* Whoever finds the lock free finds the clock disabled, prepared as long as
\* the module holds it, at its full rate, and no buffer left behind, whichever of
\* the calls fails that the code looks at.  The two it does not look at are the
\* exceptions: once the rate could not be restored it is never restored again
\* (the next readback saves the reduced one), and a clock that could not be
\* prepared again stays so until a later readback prepares it.
ClockRestored ==
    lock = None =>
        /\ clk = [prep |-> "prepared" \in module.held /\ "prepare" \notin clk.lost,
                  on |-> FALSE, slow |-> "rate" \in clk.lost, saved |-> FALSE, lost |-> clk.lost]
        /\ ~dma

\* A partial bitstream is loaded with the clock prepared and enabled, and at the
\* reduced rate of a readback only if a readback could not restore the rate.
FullRateForLoads ==
    worker = "load" => clk.prep /\ clk.on /\ (clk.slow => "rate" \in clk.lost)

\* A driver that could not be initialised has no attribute open.
NothingOpenWhenDown == srv.pc = "down" => srv.fds = {}

\* After the module is gone nobody runs its code.
RemovedIsQuiet == module.pc = "removed" => worker = "exited" /\ admin = "idle"

\* With no fault and one server, a start is refused in the few instructions
\* between the notification of the end of a reconfiguration and the end of the
\* worker's bookkeeping (or for an encrypted full load, or a removed module):
\* the server's next start may well arrive there, and then it shuts down.
RefusedOnlyWhileRearming ==
    [][srv.pc = "start" /\ srv'.pc = "ended" =>
         Restarts \/ enc \/ ~Exported \/ worker \in {"reinit", "clear"}]_fpga
=============================================================================
