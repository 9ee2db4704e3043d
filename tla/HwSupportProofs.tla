-------------------------- MODULE HwSupportProofs --------------------------
(***************************************************************************)
(* Proofs about HwSupport, for any bitstreams and slots and in every world: *)
(* the server and the kernel's worker agree on what is loaded and when it   *)
(* has ended, the slot that is loaded is isolated, the clock that loads and *)
(* readbacks share is given back as it was, a run of an accelerator is not  *)
(* taken for the next, and a start is refused for the reasons that are      *)
(* known.  These are all safety properties of the run of HwSupport.         *)
(***************************************************************************)
EXTENDS HwSupport, SequenceTheorems, TLAPS

Active == {"lock", "load", "notify"}

\* A start that the worker has still to serve.
Pending == starts = 1 \/ worker \in Active

-----------------------------------------------------------------------------
(* The agreement of server and worker.                                     *)

Shapes ==
    /\ world \in Worlds
    /\ srv = [pc |-> srv.pc, fds |-> srv.fds, bit |-> srv.bit]
    /\ attr = [addr |-> attr.addr, size |-> attr.size]
    /\ module = [pc |-> module.pc, held |-> module.held]
    /\ starts \in {0, 1}
    /\ worker \in Active \cup {"none", "run", "wait", "reinit", "clear", "exited"}
    /\ rcfg \in BOOLEAN /\ done \in BOOLEAN /\ crashed \in BOOLEAN

\* The busy flag covers a start from its acceptance to the end of the worker's
\* bookkeeping, so that there is one at a time.
OneStart ==
    /\ starts = 1 => worker \in {"none", "run", "wait", "exited"} /\ rcfg
    /\ worker \in Active \cup {"reinit", "clear"} => rcfg
    /\ module.pc = "probing" => worker = "none"

\* Both attributes are the server's when it starts, and until it has heard.
Attributed ==
    /\ srv.pc \in {"size", "start", "wait"} => attr.addr = srv.bit
    /\ srv.pc \in {"start", "wait"} => attr.size = srv.bit

\* With one server, a start that is pending is its own, and so is the end it
\* can read.
OwnStart ==
    /\ ~crashed =>
        /\ Pending => srv.pc \in {"wait", "ended"}
        /\ done => srv.pc \in {"down", "open", "dummy", "wait", "ended"}
        /\ done /\ srv.pc = "wait" => ~Pending
    /\ ~Restarts => ~crashed /\ (Pending => srv.pc = "wait")

Agree == Shapes /\ OneStart /\ Attributed /\ OwnStart /\ StartNotLost

LEMMA InitAgrees == HwInit => Agree
<1> SUFFICES ASSUME HwInit PROVE Agree
  OBVIOUS
<1> USE DEF HwInit, Init
<1>1. Shapes
  BY DEF Shapes, Active
<1>2. OneStart /\ Attributed /\ StartNotLost
  BY DEF OneStart, Attributed, StartNotLost, Active
<1>3. OwnStart
  BY DEF OwnStart, Pending, Active
<1> QED BY <1>1, <1>2, <1>3 DEF Agree

\* Each step of the server's driver keeps the agreement.
LEMMA ServerAgrees ==
  ASSUME Agree, world' = world,
         \/ Start \/ Open \/ DummyRead \/ AddrStore \/ SizeStore \/ StartStore
         \/ HandleEvent \/ HandleEventFails \/ HandleStrayEvent \/ Interrupt
         \/ \E b \in Bits : StartProg(b)
  PROVE  Agree'
<1> USE DEF Agree, Shapes, OneStart, Attributed, OwnStart, StartNotLost, Pending,
            Active, kernel, manager, Goto, Shutdown, Restarts
<1>1. CASE Start
  <2>1. srv' = [pc |-> "open", fds |-> srv.fds, bit |-> srv.bit]
    BY <1>1 DEF Start
  <2>2. CASE srv.pc = "down" /\ UNCHANGED crashed
    BY <1>1, <2>1, <2>2 DEF Start
  <2>3. CASE srv.pc = "ended" /\ Restarts /\ crashed' = TRUE
    BY <1>1, <2>1, <2>3 DEF Start
  <2> QED BY <1>1, <2>2, <2>3 DEF Start
<1>2. CASE Open
  <2>1. /\ srv.pc = "open" /\ srv'.pc \in {"open", "dummy", "down"}
        /\ srv' = [pc |-> srv'.pc, fds |-> srv'.fds, bit |-> srv'.bit]
        /\ done' \in BOOLEAN
        /\ UNCHANGED <<attr, rcfg, starts, worker, module, crashed>>
    BY <1>2 DEF Open
  <2> QED BY <2>1
<1>3. CASE DummyRead
  <2>1. /\ srv.pc = "dummy" /\ srv'.pc \in {"idle", "down"}
        /\ srv' = [pc |-> srv'.pc, fds |-> srv'.fds, bit |-> srv'.bit]
        /\ srv'.pc = "idle" => ~done'
        /\ done' \in BOOLEAN
        /\ UNCHANGED <<attr, rcfg, starts, worker, module, crashed>>
    BY <1>3 DEF DummyRead, DoneRead
  <2> QED BY <2>1
<1>4. CASE AddrStore
  BY <1>4 DEF AddrStore, Store
<1>5. CASE SizeStore
  BY <1>5 DEF SizeStore, Store
<1>6. CASE StartStore
  <2>1. CASE Exported /\ ~Refuses
    <3>1. /\ srv.pc = "start" /\ ~rcfg /\ rcfg' = TRUE
          /\ srv' = [pc |-> "wait", fds |-> srv.fds, bit |-> srv.bit]
          /\ starts' = starts + 1
          /\ UNCHANGED <<attr, done, worker, module, crashed>>
      BY <1>6, <2>1 DEF StartStore, Refuses
    <3> QED BY <3>1
  <2>2. CASE ~(Exported /\ ~Refuses)
    <3>1. /\ srv.pc = "start"
          /\ srv' = [pc |-> "ended", fds |-> {}, bit |-> None]
          /\ UNCHANGED <<attr, rcfg, starts, done, worker, module, crashed>>
      BY <1>6, <2>2 DEF StartStore
    <3> QED BY <3>1
  <2> QED BY <2>1, <2>2
<1>7. CASE HandleEvent
  BY <1>7 DEF HandleEvent
<1>11. CASE HandleEventFails
  <2>1. /\ srv' = [pc |-> "ended", fds |-> {}, bit |-> None]
        /\ done /\ done' \in BOOLEAN /\ srv.pc = "wait"
        /\ UNCHANGED <<attr, rcfg, starts, worker, module, crashed>>
    BY <1>11 DEF HandleEventFails
  <2> QED BY <2>1
<1>8. CASE HandleStrayEvent
  BY <1>8 DEF HandleStrayEvent
<1>9. CASE Interrupt
  BY <1>9 DEF Interrupt
<1>10. CASE \E b \in Bits : StartProg(b)
  <2>1. PICK b \in Bits : StartProg(b)
    BY <1>10
  <2>2. /\ srv.pc = "idle"
        /\ srv' = [pc |-> "addr", fds |-> srv.fds, bit |-> b]
        /\ UNCHANGED <<attr, rcfg, starts, done, worker, module, crashed>>
    BY <2>1 DEF StartProg
  <2> QED BY <2>2
<1> QED BY <1>1, <1>2, <1>3, <1>4, <1>5, <1>6, <1>7, <1>8, <1>9, <1>10, <1>11

\* And so does each step of the kernel.
LEMMA KernelAgrees ==
  ASSUME Agree, world' = world,
         Worker \/ WorkerLoaded(FALSE) \/ OpsWriteInit \/ TryLock \/ Admin
         \/ Probe \/ Remove \/ Unregister
  PROVE  Agree'
<1> USE DEF Agree, Shapes, OneStart, Attributed, OwnStart, StartNotLost, Pending,
            Active, kernel, manager, Restarts
<1>1. CASE WorkerCheck
  BY <1>1 DEF WorkerCheck, WorkerAt
<1>2. CASE WorkerWake
  BY <1>2 DEF WorkerWake, WorkerAt
<1>3. CASE WorkerLock
  BY <1>3 DEF WorkerLock, WorkerAt
<1>4. ASSUME NEW fail \in BOOLEAN, WorkerLoaded(fail) PROVE Agree'
  BY <1>4 DEF WorkerLoaded, WorkerAt
<1>5. CASE WorkerNotify
  BY <1>5 DEF WorkerNotify, WorkerAt
<1>6. CASE WorkerRearm
  <2>1. CASE WorkerAt("reinit", "clear")
    BY <1>6, <2>1 DEF WorkerRearm, WorkerAt, Rearmed
  <2>2. CASE WorkerAt("clear", "run")
    BY <1>6, <2>2 DEF WorkerRearm, WorkerAt, Rearmed
  <2> QED BY <1>6, <2>1, <2>2 DEF WorkerRearm
<1>7. CASE OpsWriteInit \/ TryLock \/ Admin
  BY <1>7 DEF OpsWriteInit, TryLock, Admin, AdminStep, AdminUnlock
<1>8. CASE Probe
  <2>1. /\ module.pc = "probing" /\ module' = [pc |-> module'.pc, held |-> module'.held]
        /\ \/ worker' = worker /\ module'.pc \in {"probing", "bound", "failed"}
           \/ worker' = "run" /\ module'.pc = "bound"
        /\ UNCHANGED <<srv, attr, rcfg, starts, done, crashed>>
    <3>1. PICK i \in DOMAIN ProbeSteps :
            /\ module.pc = "probing"
            /\ \/ /\ module' = [held |-> module.held \cup {ProbeSteps[i]},
                                pc |-> IF ProbeSteps[i] = "worker" THEN "bound" ELSE "probing"]
                  /\ worker' = IF ProbeSteps[i] = "worker" THEN "run" ELSE worker
               \/ /\ module' = [held |-> Undone(ProbeSteps[i]),
                                pc |-> IF ProbeSteps[i] = "worker" THEN "bound" ELSE "failed"]
                  /\ UNCHANGED worker
            /\ UNCHANGED <<srv, attr, rcfg, starts, done, crashed>>
      BY <1>8 DEF Probe
    <3> QED BY <3>1
  <2> QED BY <2>1
<1>9. CASE Remove
  BY <1>9 DEF Remove
<1>10. CASE Unregister
  BY <1>10 DEF Unregister
<1> QED BY <1>1, <1>2, <1>3, <1>4, <1>5, <1>6, <1>7, <1>8, <1>9, <1>10 DEF Worker

\* What does not touch the FPGA manager does not disturb it.
LEMMA StutterAgrees ==
  ASSUME Agree, UNCHANGED <<world, fpga>>
  PROVE  Agree'
BY DEF Agree, Shapes, OneStart, Attributed, OwnStart, StartNotLost, Pending, Active,
       Restarts, fpga, kernel, manager

LEMMA NextAgrees == Agree /\ [HwNext]_vars => Agree'
<1> SUFFICES ASSUME Agree, [HwNext]_vars PROVE Agree'
  OBVIOUS
<1>1. ASSUME UNCHANGED vars PROVE Agree'
  BY <1>1, StutterAgrees DEF vars
<1>2. ASSUME UNCHANGED world, NEW b \in Bits, ConfigureSlot(b) PROVE Agree'
  BY <1>2, ServerAgrees DEF ConfigureSlot
<1>3. ASSUME UNCHANGED world, SlotConfigured PROVE Agree'
  BY <1>3, ServerAgrees DEF SlotConfigured
<1>4. ASSUME UNCHANGED world, BitstreamLoaded PROVE Agree'
  BY <1>4, KernelAgrees DEF BitstreamLoaded
<1>5. ASSUME UNCHANGED world, NEW s \in Slots,
             SlotServer(s) \/ SlotTimeout(s) \/ Hardware(s)
      PROVE  Agree'
  BY <1>5, StutterAgrees DEF SlotServer, SlotTimeout, Hardware
<1>6. ASSUME UNCHANGED world,
             Start \/ Server \/ HandleEventFails \/ HandleStrayEvent \/ Interrupt
      PROVE  Agree'
  BY <1>6, ServerAgrees DEF Server
<1>7. ASSUME UNCHANGED world,
             Worker \/ OpsWriteInit \/ TryLock \/ Admin \/ Probe \/ Remove \/ Unregister
      PROVE  Agree'
  BY <1>7, KernelAgrees
<1> QED BY <1>1, <1>2, <1>3, <1>4, <1>5, <1>6, <1>7 DEF HwNext, Alone

\* Whatever the server, the kernel and the administrator do in whichever order:
\* the worker loads the bitstream that was asked for, a start is not lost and an
\* end is read by who waits for it (phy_bit_*_store and rcfg_worker, devcfg.c).
THEOREM StartAndEndAgree == HwSpec => []StartMatchesEnd
<1>1. Agree => StartMatchesEnd
  BY DEF Agree, Shapes, Attributed, OwnStart, StartMatchesEnd, LoadsWhatWasAsked,
         NoSpuriousEnd, Pending, Active
<1> QED BY <1>1, InitAgrees, NextAgrees, PTL DEF HwSpec

-----------------------------------------------------------------------------
(* The isolation of the slot that is loaded.                               *)

\* The steps of the handlers.
Steps == {"couple", "IER", "GIE", "start", "read", "ISR", "clear_gic", "abort"}

\* A handler connects its slot in its first step or not at all.
Planned ==
    /\ todo[1] \in Seq(Steps)
    /\ \A i \in 2 .. Len(todo[1]) : todo[1][i] # "couple"

Coupling == todo[1] # << >> /\ todo[1][1] = "couple"

\* From the request to the end that is read the slot is decoupled, and the
\* handler that connects it is not in progress: it runs between the two.
Isolated ==
    /\ Planned
    /\ world.slots =>
        /\ srv.pc \in {"addr", "size", "start", "wait"} => SlotOf[srv.bit] \in apart
        /\ Coupling => srv.pc = "idle"

LEMMA InitIsolated == HwInit => Isolated
BY DEF HwInit, Init, S!Init, S!Idle, Isolated, Planned, Coupling

\* After a step of a handler it no longer starts with the coupling.
LEMMA GoOn ==
  ASSUME Planned, todo[1] # << >>, NEW s, S!Go(s)
  PROVE  Planned' /\ ~Coupling'
<1> DEFINE rest == Tail(todo[1])
<1>1. /\ rest \in Seq(Steps)
      /\ \A i \in 1 .. Len(rest) : rest[i] # "couple"
  <2>1. /\ rest \in Seq(Steps)
        /\ Len(rest) = Len(todo[1]) - 1
        /\ \A i \in 1 .. Len(rest) : rest[i] = todo[1][i + 1]
    BY HeadTailProperties DEF Planned
  <2>2. Len(todo[1]) \in Nat /\ Len(rest) \in Nat
    BY <2>1 DEF Planned
  <2>3. ASSUME NEW i \in 1 .. Len(rest) PROVE rest[i] # "couple"
    <3>1. i + 1 \in 2 .. Len(todo[1])
      BY <2>1, <2>2
    <3> QED BY <2>1, <3>1 DEF Planned
  <2> QED BY <2>1, <2>3
<1> HIDE DEF rest
<1>2. todo'[1] = << >> \/ todo'[1] = rest
  BY DEF S!Go, S!Then, S!Idle, rest
<1>3. CASE todo'[1] = << >>
  BY <1>3 DEF Planned, Coupling
<1>4. CASE todo'[1] = rest /\ rest # << >>
  <2>1. Len(rest) \in Nat \ {0}
    BY <1>1, <1>4
  <2> QED BY <1>1, <1>4, <2>1 DEF Planned, Coupling
<1> QED BY <1>2, <1>3, <1>4

\* A new handler: connecting is at most its first step.
LEMMA Begun ==
  ASSUME NEW s
  PROVE  /\ S!Then(S!AfterRcfg, s) => Planned'
         /\ \A plan \in {<<"start">>, S!AfterCompute, <<"abort">>} :
                S!Then(plan, s) => Planned' /\ ~Coupling'
<1> USE DEF S!Then, Planned, Coupling, Steps
<1>1. ASSUME S!Then(S!AfterRcfg, s) PROVE Planned'
  <2>1. todo'[1] = <<"couple", "IER", "GIE", "start">>
    BY <1>1 DEF S!AfterRcfg
  <2> QED BY <2>1
<1>2. ASSUME S!Then(<<"start">>, s) PROVE Planned' /\ ~Coupling'
  <2>1. todo'[1] = <<"start">>
    BY <1>2
  <2> QED BY <2>1
<1>3. ASSUME S!Then(S!AfterCompute, s) PROVE Planned' /\ ~Coupling'
  <2>1. todo'[1] = <<"read", "ISR", "clear_gic">>
    BY <1>3 DEF S!AfterCompute
  <2> QED BY <2>1
<1>4. ASSUME S!Then(<<"abort">>, s) PROVE Planned' /\ ~Coupling'
  <2>1. todo'[1] = <<"abort">>
    BY <1>4
  <2> QED BY <2>1
<1> QED BY <1>1, <1>2, <1>3, <1>4

LEMMA SlotsIsolated ==
  ASSUME Isolated, world.slots, UNCHANGED <<world, fpga>>, NEW s \in Slots,
         S!Server(s) \/ S!Disable(s) \/ S!Finish(s) \/ S!Interrupt(s)
  PROVE  Isolated'
<1> USE DEF Isolated, fpga
<1>1. ASSUME Planned', ~Coupling', UNCHANGED apart PROVE Isolated'
  BY <1>1
<1>2. CASE S!Skip(s) \/ S!SlotComplete(s) \/ S!SlotAsserts(s)
  BY <1>1, <1>2, Begun DEF S!Skip, S!SlotComplete, S!SlotAsserts
<1>3. CASE S!Couple(s)
  <2>1. Coupling
    BY <1>3 DEF S!Couple, S!Does, Coupling
  <2>2. Planned' /\ ~Coupling'
    BY <1>3, GoOn DEF S!Couple, S!Does
  <2> QED BY <2>1, <2>2
<1>4. CASE S!EnableIrq(s) \/ S!StartCompute(s) \/ S!ReadForIrq(s)
           \/ S!ClearIsr(s) \/ S!ClearGic(s)
  <2>1. todo[1] # << >> /\ S!Go(s) /\ UNCHANGED apart
    BY <1>4 DEF S!EnableIrq, S!StartCompute, S!ReadForIrq, S!ClearIsr, S!ClearGic, S!Does
  <2> QED BY <1>1, <2>1, GoOn
<1>5. CASE S!Disable(s) \/ S!Finish(s) \/ S!Interrupt(s)
  <2>1. apart \subseteq apart' /\ UNCHANGED todo
    BY <1>5 DEF S!Disable, S!Isolated, S!Finish, S!Interrupt
  <2> QED BY <2>1 DEF Planned, Coupling
<1> QED BY <1>2, <1>3, <1>4, <1>5 DEF S!Server, S!Handler

LEMMA NextIsolated == Agree /\ Isolated /\ [HwNext]_vars => Isolated'
<1> SUFFICES ASSUME Agree, Isolated, [HwNext]_vars PROVE Isolated'
  OBVIOUS
<1> USE DEF Isolated
<1>1. ASSUME UNCHANGED <<world, srv, apart, todo>> PROVE Isolated'
  BY <1>1 DEF Planned, Coupling
<1>2. ASSUME UNCHANGED vars PROVE Isolated'
  BY <1>1, <1>2 DEF vars, fpga, registers
<1>3. ASSUME UNCHANGED world, NEW b \in Bits, ConfigureSlot(b) PROVE Isolated'
  <2>1. srv'.pc = "addr" /\ srv'.bit = b
    BY <1>3 DEF ConfigureSlot, StartProg, Agree, Shapes
  <2>2. CASE world.slots
    <3>1. todo = S!Idle /\ UNCHANGED todo /\ SlotOf[b] \in apart'
      BY <1>3, <2>2 DEF ConfigureSlot, S!Decouple, S!Waiting, S!Isolated
    <3> QED BY <1>3, <2>1, <2>2, <3>1 DEF S!Idle, Planned, Coupling
  <2>3. CASE ~world.slots
    BY <1>3, <2>3 DEF ConfigureSlot, registers, Planned
  <2> QED BY <2>2, <2>3
<1>4. ASSUME UNCHANGED world, SlotConfigured PROVE Isolated'
  <2>1. srv'.pc = "idle"
    BY <1>4 DEF SlotConfigured, HandleEvent, Agree, Shapes
  <2>2. Planned'
    BY <1>4, Begun DEF SlotConfigured, S!Reinit, registers, Planned
  <2> QED BY <2>1, <2>2
<1>5. ASSUME UNCHANGED world, BitstreamLoaded PROVE Isolated'
  BY <1>1, <1>5 DEF BitstreamLoaded, WorkerLoaded, S!Loaded, registers
<1>6. ASSUME UNCHANGED world, world.slots, NEW s \in Slots,
             SlotServer(s) \/ SlotTimeout(s) \/ Hardware(s)
      PROVE  Isolated'
  BY <1>6, SlotsIsolated DEF SlotServer, SlotTimeout, Hardware
<1>7. ASSUME UNCHANGED world, S!Waiting,
             Alone(Start \/ Server \/ HandleEventFails \/ HandleStrayEvent \/ Interrupt)
      PROVE  Isolated'
  <2>1. UNCHANGED <<apart, todo>> /\ todo = S!Idle
    BY <1>7 DEF Alone, registers, S!Waiting
  <2>2. Planned' /\ ~Coupling'
    BY <2>1 DEF S!Idle, Planned, Coupling
  <2>3. srv'.pc \in {"addr", "size", "start", "wait"} =>
            srv.pc \in {"addr", "size", "start", "wait"} /\ srv'.bit = srv.bit
    <3> USE <1>7 DEF Agree, Shapes, Goto, Shutdown
    <3>1. CASE Start \/ HandleEventFails \/ HandleStrayEvent \/ Interrupt
      BY <3>1 DEF Start, HandleEventFails, HandleStrayEvent, Interrupt
    <3>2. CASE Open \/ DummyRead
      BY <3>2 DEF Open, DummyRead
    <3>3. CASE AddrStore \/ SizeStore
      BY <3>3 DEF AddrStore, SizeStore, Store
    <3>4. CASE StartStore
      BY <3>4 DEF StartStore
    <3> QED BY <3>1, <3>2, <3>3, <3>4 DEF Alone, Server
  <2> QED BY <1>7, <2>1, <2>2, <2>3
<1>8. ASSUME UNCHANGED world,
             Alone(Worker \/ OpsWriteInit \/ TryLock \/ Admin \/ Probe \/ Remove \/ Unregister)
      PROVE  Isolated'
  <2>1. UNCHANGED srv
    BY <1>8 DEF Alone, Worker, WorkerCheck, WorkerWake, WorkerLock, WorkerLoaded,
                WorkerNotify, WorkerRearm, OpsWriteInit, TryLock, Admin, AdminStep,
                AdminUnlock, Probe, Remove, Unregister
  <2> QED BY <1>1, <1>8, <2>1 DEF Alone, registers
<1> QED BY <1>2, <1>3, <1>4, <1>5, <1>6, <1>7, <1>8 DEF HwNext, Alone

\* The kernel never loads a bitstream into a slot that is connected, however long
\* it takes to come to it (slot_prepare_for_rcfg, rcfg_worker, devcfg_clear_evt).
THEOREM SlotIsolatedWhileLoading == HwSpec => []IsolatedWhileLoading
<1>1. Agree /\ Isolated => IsolatedWhileLoading
  <2> SUFFICES ASSUME Agree, Isolated, world.slots, worker = "load"
               PROVE  SlotOf[attr.addr] \in apart
    BY DEF IsolatedWhileLoading
  <2>1. ~Restarts
    BY WorldsAssumption DEF Agree, Shapes, Restarts
  <2>2. srv.pc = "wait" /\ attr.addr = srv.bit
    BY <2>1 DEF Agree, OwnStart, Attributed, Pending, Active
  <2> QED BY <2>2 DEF Isolated
<1> QED BY <1>1, InitAgrees, NextAgrees, InitIsolated, NextIsolated, PTL DEF HwSpec

-----------------------------------------------------------------------------
(* The clock that loads and readbacks share.                               *)

HasClock == "prepared" \in module.held

\* Who has priv->lock, and since when the clock is the module's.
Locked ==
    /\ lock \in {None, "worker", "admin"}
    /\ lock = "worker" <=> worker = "load"
    /\ lock = "admin" <=> admin \notin {"idle", "write"}
    /\ "registered" \in module.held \/ "worker" \in module.held => HasClock
    /\ worker \notin {"none", "exited"} \/ admin # "idle" => HasClock

\* The clock c at the rate that is left to it, and slowed down for a readback.
Full(c, prep, on) ==
    /\ c \in Clock
    /\ c.prep <=> prep
    /\ c.on = on /\ (c.slow <=> "rate" \in c.lost) /\ ~c.saved

Slowed(c, prep, on) ==
    /\ c \in Clock
    /\ c.prep <=> prep
    /\ c.on = on /\ c.slow /\ (c.saved <=> "rate" \in c.lost)

\* Between two uses, and in a load.
Resting(c) == Full(c, HasClock /\ "prepare" \notin c.lost, FALSE)

Running(c) == Full(c, TRUE, TRUE) /\ "prepare" \notin c.lost

\* The clock and the buffer at each label of zynqmp_fpga_ops_write,
\* zynqmp_fpga_read_cfgreg, zynqmp_fpga_read_cfgdata and of the worker's load.
Table(label, c) ==
    /\ label \in {"clk_enable", "clk_unprepare", "unlock"} => Resting(c)
    /\ label \in {"set_rate", "prepare_clk"} => Full(c, FALSE, FALSE)
    /\ label \in {"prepare_enable", "restore_pcap_clk"} => Slowed(c, FALSE, FALSE)
    /\ label \in {"dma_alloc", "firmware", "disable"} => Running(c)
    /\ label \in {"data_alloc", "data_firmware", "disable_unprepare"} => Slowed(c, TRUE, TRUE)

ClockAt ==
    /\ clk \in Clock
    /\ dma => admin \in {"firmware", "data_firmware"}
    /\ lock = None => Resting(clk)
    /\ worker = "load" => Running(clk)
    /\ Table(admin, clk)

ClockInv == Locked /\ ClockAt

\* d is c but for the fields named.
SameBut(c, d, names) ==
    /\ d \in Clock
    /\ "prep" \in names \/ d.prep = c.prep
    /\ "on" \in names \/ d.on = c.on
    /\ "slow" \in names \/ d.slow = c.slow
    /\ "saved" \in names \/ d.saved = c.saved
    /\ "lost" \in names \/ d.lost = c.lost

LEMMA ClockOn ==
  ASSUME NEW c \in Clock, NEW d, NEW b \in BOOLEAN, d = [c EXCEPT !.on = b]
  PROVE  SameBut(c, d, {"on"}) /\ d.on = b
BY DEF Clock, SameBut

LEMMA ClockUnprepared ==
  ASSUME NEW c \in Clock, NEW d, d = [c EXCEPT !.prep = FALSE]
  PROVE  SameBut(c, d, {"prep"}) /\ d.prep = FALSE
BY DEF Clock, SameBut

LEMMA ClockPrepared ==
  ASSUME NEW c \in Clock
  PROVE  /\ SameBut(c, Prepare(c), {"prep", "lost"}) /\ Prepare(c).prep = TRUE
         /\ Prepare(c).lost = c.lost \ {"prepare"}
BY DEF Clock, SameBut, Prepare

LEMMA ClockNotPrepared ==
  ASSUME NEW c \in Clock, NEW d, d = [c EXCEPT !.lost = @ \cup {"prepare"}]
  PROVE  SameBut(c, d, {"lost"}) /\ d.lost = c.lost \cup {"prepare"}
BY DEF Clock, SameBut

LEMMA ClockDisabledUnprepared ==
  ASSUME NEW c \in Clock, NEW d, d = [c EXCEPT !.on = FALSE, !.prep = FALSE]
  PROVE  SameBut(c, d, {"on", "prep"}) /\ d.on = FALSE /\ d.prep = FALSE
BY DEF Clock, SameBut

LEMMA ClockSlowed ==
  ASSUME NEW c \in Clock, NEW d, d = [c EXCEPT !.saved = c.slow, !.slow = TRUE]
  PROVE  SameBut(c, d, {"saved", "slow"}) /\ d.saved = c.slow /\ d.slow = TRUE
BY DEF Clock, SameBut

LEMMA ClockRateRestored ==
  ASSUME NEW c \in Clock, NEW d, d = [c EXCEPT !.slow = c.saved, !.saved = FALSE]
  PROVE  SameBut(c, d, {"saved", "slow"}) /\ d.slow = c.saved /\ d.saved = FALSE
BY DEF Clock, SameBut

LEMMA ClockRateLost ==
  ASSUME NEW c \in Clock, NEW d, d = [c EXCEPT !.saved = FALSE, !.lost = @ \cup {"rate"}]
  PROVE  SameBut(c, d, {"saved", "lost"}) /\ d.saved = FALSE /\ d.lost = c.lost \cup {"rate"}
BY DEF Clock, SameBut

LEMMA InitClock == HwInit => ClockInv
<1> SUFFICES ASSUME HwInit PROVE ClockInv
  OBVIOUS
<1> USE NoneAssumption DEF HwInit, Init, HasClock
<1>1. Locked
  BY DEF Locked
<1>2. Resting(clk)
  BY DEF Resting, Full, Off, Clock
<1>3. ClockAt
  BY <1>2 DEF ClockAt, Resting, Full, Table
<1> QED BY <1>1, <1>3 DEF ClockInv

\* The worker's load is one critical section.
LEMMA WorkerClock ==
  ASSUME Agree, ClockInv, NEW fail, Worker \/ WorkerLoaded(fail)
  PROVE  ClockInv'
<1> USE NoneAssumption DEF ClockInv, Locked, WorkerAt, HasClock
<1>0. clk \in Clock
  BY DEF ClockAt
<1>1. CASE WorkerCheck \/ WorkerWake \/ WorkerNotify \/ WorkerRearm
  <2>1. /\ worker # "load" /\ worker' # "load" /\ worker # "none" /\ worker # "exited"
        /\ UNCHANGED <<admin, lock, clk, dma, module>>
    BY <1>1 DEF WorkerCheck, WorkerWake, WorkerNotify, WorkerRearm, manager
  <2> QED BY <2>1 DEF ClockAt, Table, Resting, Running, Full, Slowed
<1>2. CASE WorkerLock
  <2>1. CASE worker' = "load"
    <3>1. /\ lock = None /\ lock' = "worker" /\ worker = "lock"
          /\ clk.prep /\ clk' = [clk EXCEPT !.on = TRUE]
          /\ UNCHANGED <<admin, dma, module>>
      BY <1>2, <2>1 DEF WorkerLock, LockFree, On
    <3>2. Locked' /\ admin \in {"idle", "write"}
      BY <3>1, <2>1
    <3>3. Resting(clk)
      BY <3>1 DEF ClockAt
    <3>4. Running(clk')
      <4>1. SameBut(clk, clk', {"on"}) /\ clk'.on = TRUE
        BY <1>0, <3>1, ClockOn
      <4> QED BY <3>1, <3>3, <4>1 DEF Resting, Running, Full, SameBut
    <3>5. clk' \in Clock
      BY <3>4 DEF Running, Full
    <3>6. ClockAt'
      BY <3>1, <3>2, <3>4, <3>5 DEF ClockAt, Table
    <3> QED BY <3>2, <3>6
  <2>2. CASE worker' # "load"
    BY <1>2, <2>2 DEF WorkerLock, ClockAt, Table, Resting, Running, Full, Slowed
  <2> QED BY <2>1, <2>2
<1>3. ASSUME NEW f, WorkerLoaded(f) PROVE ClockInv'
  <2>1. /\ worker = "load" /\ worker' \in {"exited", "notify"} /\ lock' = None
        /\ clk' = [clk EXCEPT !.on = FALSE]
        /\ UNCHANGED <<admin, dma, module>>
    BY <1>3 DEF WorkerLoaded
  <2>2. Locked' /\ admin \in {"idle", "write"} /\ HasClock'
    BY <2>1
  <2>3. Running(clk)
    BY <2>1 DEF ClockAt
  <2>4. Resting(clk)'
    <3>1. SameBut(clk, clk', {"on"}) /\ clk'.on = FALSE
      BY <1>0, <2>1, ClockOn
    <3> QED BY <2>2, <2>3, <3>1 DEF Resting, Running, Full, SameBut
  <2>5. clk' \in Clock
    BY <2>4 DEF Resting, Full
  <2>6. ClockAt'
    BY <2>1, <2>2, <2>4, <2>5 DEF ClockAt, Table
  <2> QED BY <2>2, <2>6
<1> QED BY <1>1, <1>2, <1>3 DEF Worker

\* A step of the administrator's call leads from one row of the table to another.
LEMMA AdminTable ==
  ASSUME clk \in Clock, HasClock, Table(admin, clk), UNCHANGED module,
         dma => admin \in {"firmware", "data_firmware"},
         AdminClock \/ AdminReadData
  PROVE  /\ Table(admin, clk)' /\ clk' \in Clock
         /\ dma' => admin' \in {"firmware", "data_firmware"}
         /\ admin' \notin {"idle", "write"}
<1> USE DEF Step, AdminAt, Table
<1>0. HasClock'
  BY DEF HasClock
<1>1. CASE admin = "clk_enable"
  <2>1. \/ admin' = "dma_alloc" /\ clk.prep /\ clk' = [clk EXCEPT !.on = TRUE] /\ dma' = dma
        \/ admin' = "unlock" /\ clk' = clk /\ dma' = dma
    BY <1>1 DEF AdminClock, AdminReadData, On
  <2>2. CASE admin' = "dma_alloc"
    <3>1. SameBut(clk, clk', {"on"}) /\ clk'.on = TRUE /\ clk.prep
      BY <2>1, <2>2, ClockOn
    <3>2. Resting(clk) /\ ~dma'
      BY <1>1, <2>1
    <3>3. Running(clk)'
      BY <3>1, <3>2 DEF Resting, Running, Full, SameBut
    <3> QED BY <2>2, <3>1, <3>2, <3>3 DEF SameBut
  <2>3. CASE admin' = "unlock"
    BY <1>0, <1>1, <2>1, <2>3 DEF Resting, Full
  <2> QED BY <2>1, <2>2, <2>3
<1>2. CASE admin \in {"dma_alloc", "firmware"}
  <2>1. /\ clk' = clk
        /\ \/ admin' = "firmware"
           \/ admin' = "disable" /\ (dma' = FALSE \/ (dma' = dma /\ admin = "dma_alloc"))
    BY <1>2 DEF AdminClock, AdminReadData
  <2>2. Running(clk)'
    BY <1>2, <2>1 DEF Running, Full
  <2>3. dma' => admin' = "firmware"
    BY <1>2, <2>1
  <2> QED BY <2>1, <2>2, <2>3
<1>3. CASE admin = "disable"
  <2>1. admin' = "unlock" /\ clk' = [clk EXCEPT !.on = FALSE] /\ dma' = dma
    BY <1>3 DEF AdminClock, AdminReadData
  <2>2. SameBut(clk, clk', {"on"}) /\ clk'.on = FALSE
    BY <2>1, ClockOn
  <2> QED BY <1>0, <1>3, <2>1, <2>2 DEF Resting, Running, Full, SameBut
<1>4. CASE admin = "clk_unprepare"
  <2>1. admin' = "set_rate" /\ clk' = [clk EXCEPT !.prep = FALSE] /\ dma' = dma
    BY <1>4 DEF AdminClock, AdminReadData
  <2>2. SameBut(clk, clk', {"prep"}) /\ clk'.prep = FALSE
    BY <2>1, ClockUnprepared
  <2> QED BY <1>4, <2>1, <2>2 DEF Resting, Full, SameBut
<1>5. CASE admin = "set_rate"
  <2>1. \/ /\ admin' = "prepare_enable" /\ dma' = dma
           /\ clk' = [clk EXCEPT !.saved = clk.slow, !.slow = TRUE]
        \/ admin' = "prepare_clk" /\ clk' = clk /\ dma' = dma
    BY <1>5 DEF AdminClock, AdminReadData
  <2>2. CASE admin' = "prepare_enable"
    <3>1. SameBut(clk, clk', {"saved", "slow"}) /\ clk'.saved = clk.slow /\ clk'.slow = TRUE
      BY <2>1, <2>2, ClockSlowed
    <3> QED BY <1>5, <2>1, <2>2, <3>1 DEF Full, Slowed, SameBut
  <2>3. CASE admin' = "prepare_clk"
    BY <1>5, <2>1, <2>3 DEF Full
  <2> QED BY <2>1, <2>2, <2>3
<1>6. CASE admin = "prepare_enable"
  <2>1. \/ admin' = "data_alloc" /\ clk' = Prepare(On) /\ dma' = dma
        \/ admin' = "restore_pcap_clk" /\ clk' = clk /\ dma' = dma
    BY <1>6 DEF AdminClock, AdminReadData, NotEnabled
  <2>2. SameBut(clk, On, {"on"}) /\ On.on = TRUE
    BY ClockOn DEF On
  <2>3. /\ SameBut(On, Prepare(On), {"prep", "lost"}) /\ Prepare(On).prep = TRUE
        /\ Prepare(On).lost = On.lost \ {"prepare"}
    BY <2>2, ClockPrepared DEF SameBut
  <2>4. "rate" \in Prepare(On).lost <=> "rate" \in clk.lost
    BY <2>2, <2>3 DEF SameBut
  <2>5. Slowed(Prepare(On), TRUE, TRUE)
    BY <1>6, <2>2, <2>3, <2>4 DEF Slowed, SameBut
  <2>6. CASE admin' = "data_alloc"
    <3>1. clk' = Prepare(On) /\ dma' = dma
      BY <2>1, <2>6
    <3>2. Slowed(clk, TRUE, TRUE)' /\ clk' \in Clock
      BY <2>5, <3>1 DEF Slowed
    <3>3. ~dma'
      BY <1>6, <3>1
    <3> QED BY <2>6, <3>2, <3>3
  <2>7. CASE admin' = "restore_pcap_clk"
    <3>1. Slowed(clk, FALSE, FALSE)' /\ clk' \in Clock /\ ~dma'
      BY <1>6, <2>1, <2>7 DEF Slowed
    <3> QED BY <2>7, <3>1
  <2> QED BY <2>1, <2>6, <2>7
<1>7. CASE admin \in {"data_alloc", "data_firmware"}
  <2>1. /\ clk' = clk
        /\ \/ admin' = "data_firmware"
           \/ /\ admin' = "disable_unprepare"
              /\ dma' = FALSE \/ (dma' = dma /\ admin = "data_alloc")
    BY <1>7 DEF AdminClock, AdminReadData
  <2>2. Slowed(clk, TRUE, TRUE)' /\ clk' \in Clock
    BY <1>7, <2>1 DEF Slowed
  <2>3. dma' => admin' = "data_firmware"
    BY <1>7, <2>1
  <2> QED BY <2>1, <2>2, <2>3
<1>8. CASE admin = "disable_unprepare"
  <2>1. /\ admin' = "restore_pcap_clk" /\ dma' = dma
        /\ clk' = [clk EXCEPT !.on = FALSE, !.prep = FALSE]
    BY <1>8 DEF AdminClock, AdminReadData
  <2>2. SameBut(clk, clk', {"on", "prep"}) /\ clk'.on = FALSE /\ clk'.prep = FALSE
    BY <2>1, ClockDisabledUnprepared
  <2> QED BY <1>8, <2>1, <2>2 DEF Slowed, SameBut
<1>9. CASE admin = "restore_pcap_clk"
  <2>1. /\ admin' = "prepare_clk" /\ dma' = dma
        /\ \/ clk' = [clk EXCEPT !.slow = clk.saved, !.saved = FALSE]
           \/ clk' = [clk EXCEPT !.saved = FALSE, !.lost = @ \cup {"rate"}]
    BY <1>9 DEF AdminClock, AdminReadData
  <2>2. Slowed(clk, FALSE, FALSE)
    BY <1>9
  <2>3. Full(clk', FALSE, FALSE)
    <3>1. CASE clk' = [clk EXCEPT !.slow = clk.saved, !.saved = FALSE]
      <4>1. SameBut(clk, clk', {"saved", "slow"}) /\ clk'.slow = clk.saved /\ clk'.saved = FALSE
        BY <3>1, ClockRateRestored
      <4> QED BY <2>2, <4>1 DEF Slowed, Full, SameBut
    <3>2. CASE clk' = [clk EXCEPT !.saved = FALSE, !.lost = @ \cup {"rate"}]
      <4>1. /\ SameBut(clk, clk', {"saved", "lost"}) /\ clk'.saved = FALSE
            /\ clk'.lost = clk.lost \cup {"rate"}
        BY <3>2, ClockRateLost
      <4> QED BY <2>2, <4>1 DEF Slowed, Full, SameBut
    <3> QED BY <2>1, <3>1, <3>2
  <2> QED BY <1>9, <2>1, <2>3 DEF Full
<1>10. CASE admin = "prepare_clk"
  <2>1. /\ admin' = "unlock" /\ dma' = dma
        /\ clk' = Prepare(clk) \/ clk' = [clk EXCEPT !.lost = @ \cup {"prepare"}]
    BY <1>10 DEF AdminClock, AdminReadData
  <2>2. Full(clk, FALSE, FALSE)
    BY <1>10
  <2>3. Resting(clk)'
    <3>1. CASE clk' = Prepare(clk)
      <4>1. /\ SameBut(clk, clk', {"prep", "lost"}) /\ clk'.prep = TRUE
            /\ clk'.lost = clk.lost \ {"prepare"}
        BY <3>1, ClockPrepared
      <4> QED BY <1>0, <2>2, <4>1 DEF Resting, Full, SameBut
    <3>2. CASE clk' = [clk EXCEPT !.lost = @ \cup {"prepare"}]
      <4>1. SameBut(clk, clk', {"lost"}) /\ clk'.lost = clk.lost \cup {"prepare"}
        BY <3>2, ClockNotPrepared
      <4> QED BY <1>0, <2>2, <4>1 DEF Resting, Full, SameBut
    <3> QED BY <2>1, <3>1, <3>2
  <2> QED BY <1>10, <2>1, <2>3 DEF Resting, Full
<1> QED BY <1>1, <1>2, <1>3, <1>4, <1>5, <1>6, <1>7, <1>8, <1>9, <1>10
        DEF AdminClock, AdminReadData

\* So is a call of the administrator.
LEMMA AdminClockKept ==
  ASSUME ClockInv, OpsWriteInit \/ TryLock \/ Admin
  PROVE  ClockInv'
<1> USE NoneAssumption DEF ClockInv, Locked, HasClock, AdminAt
<1>1. CASE OpsWriteInit
  BY <1>1 DEF OpsWriteInit, ClockAt, Table, Resting, Running, Full
<1>2. CASE TryLock
  BY <1>2 DEF TryLock, kernel, ClockAt, Table, Resting, Running, Full
<1>3. ASSUME AdminStep PROVE ClockInv'
  <2>1. /\ admin \notin {"idle", "write"}
        /\ UNCHANGED <<worker, lock, module>>
    BY <1>3 DEF AdminStep, AdminClock, AdminReadData, Step, kernel
  <2>2. /\ Table(admin, clk)' /\ clk' \in Clock
        /\ dma' => admin' \in {"firmware", "data_firmware"}
        /\ admin' \notin {"idle", "write"}
    BY <1>3, <2>1, AdminTable DEF AdminStep, ClockAt
  <2>3. Locked' /\ lock' # None /\ worker' # "load"
    BY <2>1, <2>2
  <2> QED BY <2>2, <2>3 DEF ClockAt
<1>4. CASE AdminUnlock
  <2>1. /\ admin = "unlock" /\ admin' = "idle" /\ lock' = None
        /\ UNCHANGED <<worker, clk, dma, module>>
    BY <1>4 DEF AdminUnlock, kernel
  <2>2. Locked' /\ worker' # "load" /\ HasClock'
    BY <2>1
  <2>3. ClockAt'
    BY <2>1, <2>2 DEF ClockAt, Table, Resting, Full
  <2> QED BY <2>2, <2>3
<1> QED BY <1>1, <1>2, <1>3, <1>4 DEF Admin

\* The module prepares the clock before it lets anyone in, and gives it back when
\* everyone is out.
LEMMA ModuleClock ==
  ASSUME Agree, ClockInv, Probe \/ Remove \/ Unregister
  PROVE  ClockInv'
<1> USE NoneAssumption DEF ClockInv, Locked, HasClock
<1>1. ASSUME lock = None, Locked', admin \in {"idle", "write"},
             UNCHANGED <<lock, admin, dma>>, Resting(clk)'
      PROVE  ClockInv'
  <2>1. worker' # "load"
    BY <1>1
  <2> QED BY <1>1, <2>1 DEF ClockAt, Table, Resting, Full
<1>2. CASE Probe
  <2>1. worker = "none" /\ module.pc = "probing" /\ UNCHANGED <<admin, lock, dma>>
    BY <1>2 DEF Probe, Agree, OneStart
  <2>2. PICK i \in DOMAIN ProbeSteps :
          /\ module.held = {ProbeSteps[j] : j \in 1 .. i - 1}
          /\ \/ /\ module'.held = module.held \cup {ProbeSteps[i]}
                /\ worker' = IF ProbeSteps[i] = "worker" THEN "run" ELSE worker
                /\ clk' = IF ProbeSteps[i] = "prepared" THEN Prepare(clk)
                                                       ELSE clk
             \/ /\ admin = "idle"
                /\ module'.held = Undone(ProbeSteps[i])
                /\ clk' = Prepared(Undone(ProbeSteps[i]))
                /\ UNCHANGED worker
    BY <1>2 DEF Probe
  <2>3. i \in 1 .. 6 /\ (ProbeSteps[i] = "prepared" => i = 3)
    <3>1. i \in {1, 2, 3, 4, 5, 6}
      BY DEF ProbeSteps
    <3>2. ProbeSteps[i] = "prepared" => i = 3
      BY <3>1 DEF ProbeSteps
    <3> QED BY <3>1, <3>2
  <2>4. ASSUME NEW step, step = ProbeSteps[i],
               /\ module'.held = module.held \cup {step}
               /\ worker' = IF step = "worker" THEN "run" ELSE worker
               /\ clk' = IF step = "prepared" THEN Prepare(clk) ELSE clk
        PROVE  ClockInv'
    <3>1. step \in {"registered", "worker"} => HasClock
      BY <2>2, <2>3, <2>4 DEF ProbeSteps
    <3>2. Locked' /\ worker' # "load"
      BY <2>1, <2>4, <3>1
    <3>3. CASE step = "prepared"
      <4>1. i = 3
        BY <2>3, <2>4, <3>3
      <4>2. \A j \in 1 .. i - 1 : ProbeSteps[j] # "prepared"
        BY <4>1 DEF ProbeSteps
      <4>3. ~HasClock /\ HasClock'
        BY <2>2, <2>4, <3>3, <4>2
      <4>4. admin = "idle" /\ lock = None
        BY <2>1, <4>3
      <4>5. Full(clk, FALSE, FALSE)
        BY <4>3, <4>4 DEF ClockAt, Resting, Full
      <4>6. clk' = Prepare(clk)
        BY <2>4, <3>3
      <4>7. Resting(clk)'
        <5>1. /\ SameBut(clk, clk', {"prep", "lost"}) /\ clk'.prep = TRUE
              /\ clk'.lost = clk.lost \ {"prepare"}
          BY <4>5, <4>6, ClockPrepared DEF Full
        <5> QED BY <4>3, <4>5, <5>1 DEF Resting, Full, SameBut
      <4> QED BY <1>1, <2>1, <3>2, <4>4, <4>7
    <3>4. CASE step # "prepared"
      <4>1. UNCHANGED clk /\ HasClock' = HasClock
        BY <2>4, <3>4
      <4> QED BY <2>1, <3>2, <4>1 DEF ClockAt, Table, Resting, Running, Full, Slowed
    <3> QED BY <3>3, <3>4
  <2>5. ASSUME admin = "idle", UNCHANGED worker,
               module'.held = Undone(ProbeSteps[i]), clk' = Prepared(Undone(ProbeSteps[i]))
        PROVE  ClockInv'
    <3>1. module'.held \subseteq {"mgr"}
      BY <2>5 DEF Undone
    <3>2. lock = None /\ Locked' /\ ~HasClock'
      BY <2>1, <2>5, <3>1
    <3>3. clk' = [clk EXCEPT !.prep = FALSE] /\ Resting(clk)
      <4>1. ("prepared" \in Undone(ProbeSteps[i])) = FALSE
        BY <2>5, <3>1
      <4> QED BY <2>5, <3>2, <4>1 DEF ClockAt, Prepared
    <3>4. Resting(clk)'
      <4>1. SameBut(clk, clk', {"prep"}) /\ clk'.prep = FALSE
        BY <3>3, ClockUnprepared DEF Resting, Full
      <4> QED BY <3>2, <3>3, <4>1 DEF Resting, Full, SameBut
    <3> QED BY <1>1, <2>1, <2>5, <3>2, <3>4
  <2> QED BY <2>2, <2>4, <2>5
<1>3. CASE Remove
  <2>1. UNCHANGED <<worker, manager, module.held>>
    BY <1>3 DEF Remove, kernel, Agree, Shapes
  <2> QED BY <2>1 DEF ClockAt, Table, Resting, Running, Full, Slowed, manager
<1>4. CASE Unregister
  <2>1. /\ worker = "exited" /\ admin = "idle" /\ module'.held = {}
        /\ clk' = Prepared({})
        /\ UNCHANGED <<worker, admin, lock, dma>>
    BY <1>4 DEF Unregister, Stopped, kernel
  <2>2. lock = None /\ Locked' /\ ~HasClock'
    BY <2>1
  <2>3. clk' = [clk EXCEPT !.prep = FALSE] /\ Resting(clk)
    <3>1. ("prepared" \in {}) = FALSE
      OBVIOUS
    <3> QED BY <2>1, <2>2, <3>1 DEF ClockAt, Prepared
  <2>4. Resting(clk)'
    <3>1. SameBut(clk, clk', {"prep"}) /\ clk'.prep = FALSE
      BY <2>3, ClockUnprepared DEF Resting, Full
    <3> QED BY <2>2, <2>3, <3>1 DEF Resting, Full, SameBut
  <2> QED BY <1>1, <2>1, <2>2, <2>4
<1> QED BY <1>2, <1>3, <1>4

LEMMA NextClock == Agree /\ ClockInv /\ [HwNext]_vars => ClockInv'
<1> SUFFICES ASSUME Agree, ClockInv, [HwNext]_vars PROVE ClockInv'
  OBVIOUS
<1>1. ASSUME UNCHANGED <<worker, manager, module>> PROVE ClockInv'
  BY <1>1 DEF ClockInv, Locked, ClockAt, Table, Resting, Running, Full, Slowed, HasClock,
              manager
<1>2. ASSUME UNCHANGED vars PROVE ClockInv'
  BY <1>1, <1>2 DEF vars, fpga, kernel
<1>3. ASSUME NEW b \in Bits, ConfigureSlot(b) PROVE ClockInv'
  BY <1>1, <1>3 DEF ConfigureSlot, StartProg, kernel
<1>4. ASSUME SlotConfigured PROVE ClockInv'
  BY <1>1, <1>4 DEF SlotConfigured, HandleEvent
<1>5. ASSUME BitstreamLoaded PROVE ClockInv'
  BY <1>5, WorkerClock DEF BitstreamLoaded
<1>6. ASSUME NEW s \in Slots, SlotServer(s) \/ SlotTimeout(s) \/ Hardware(s)
      PROVE  ClockInv'
  BY <1>1, <1>6 DEF SlotServer, SlotTimeout, Hardware, fpga, kernel
<1>7. ASSUME Start \/ Server \/ HandleEventFails \/ HandleStrayEvent \/ Interrupt
      PROVE  ClockInv'
  <2>1. UNCHANGED <<worker, manager, module>>
    BY <1>7 DEF Start, Server, Open, DummyRead, AddrStore, SizeStore, Store, StartStore,
                HandleEventFails, HandleStrayEvent, Interrupt, kernel
  <2> QED BY <1>1, <2>1
<1>8. ASSUME Worker PROVE ClockInv'
  BY <1>8, WorkerClock
<1>9. ASSUME OpsWriteInit \/ TryLock \/ Admin PROVE ClockInv'
  BY <1>9, AdminClockKept
<1>10. ASSUME Probe \/ Remove \/ Unregister PROVE ClockInv'
  BY <1>10, ModuleClock
<1> QED BY <1>2, <1>3, <1>4, <1>5, <1>6, <1>7, <1>8, <1>9, <1>10 DEF HwNext, Alone

\* Without faults nothing of the clock is lost.
NothingLost == Faults \/ clk.lost = {}

LEMMA InitLost == HwInit => NothingLost
BY DEF HwInit, Init, NothingLost, Off

LEMMA NextLost == ClockInv /\ NothingLost /\ [HwNext]_vars => NothingLost'
<1> SUFFICES ASSUME ClockInv, clk.lost = {}, ~Faults, [HwNext]_vars PROVE clk'.lost = {}
  BY DEF NothingLost, HwNext, Faults, vars
<1>0. clk \in Clock
  BY DEF ClockInv, ClockAt
<1>1. CASE UNCHANGED clk
  BY <1>1
<1>2. CASE \E b : clk' = [clk EXCEPT !.on = b]
  BY <1>0, <1>2 DEF Clock
<1>3. CASE \E b : clk' = [clk EXCEPT !.prep = b]
  BY <1>0, <1>3 DEF Clock
<1>4. CASE clk' = Prepare(clk)
  BY <1>0, <1>4, ClockPrepared
<1>5. ASSUME AdminStep PROVE clk'.lost = {}
  <2>1. CASE clk' = Prepare(On)
    <3>1. SameBut(clk, On, {"on"}) /\ On.on = TRUE
      BY <1>0, ClockOn DEF On
    <3>2. Prepare(On).lost = On.lost \ {"prepare"}
      BY <3>1, ClockPrepared DEF SameBut
    <3> QED BY <2>1, <3>1, <3>2 DEF SameBut
  <2>2. CASE clk' = [clk EXCEPT !.saved = clk.slow, !.slow = TRUE]
    BY <1>0, <2>2, ClockSlowed DEF SameBut
  <2>3. CASE clk' = [clk EXCEPT !.slow = clk.saved, !.saved = FALSE]
    BY <1>0, <2>3, ClockRateRestored DEF SameBut
  <2>4. CASE clk' = [clk EXCEPT !.on = FALSE, !.prep = FALSE]
    BY <1>0, <2>4, ClockDisabledUnprepared DEF SameBut
  <2> QED BY <1>1, <1>2, <1>3, <1>4, <1>5, <2>1, <2>2, <2>3, <2>4
          DEF AdminStep, AdminClock, AdminReadData, Step, On
<1>6. ASSUME Worker \/ BitstreamLoaded PROVE clk'.lost = {}
  BY <1>1, <1>2, <1>6 DEF Worker, WorkerCheck, WorkerWake, WorkerLock, WorkerLoaded, WorkerNotify,
                          WorkerRearm, BitstreamLoaded, manager, On
<1>7. ASSUME Probe \/ Unregister PROVE clk'.lost = {}
  BY <1>1, <1>3, <1>4, <1>7 DEF Probe, Unregister, Prepared
<1>8. ASSUME OpsWriteInit \/ TryLock \/ AdminUnlock \/ Remove PROVE clk'.lost = {}
  BY <1>1, <1>8 DEF OpsWriteInit, TryLock, AdminUnlock, Remove, manager
<1>9. ASSUME Start \/ Server \/ HandleEventFails \/ HandleStrayEvent \/ Interrupt
             \/ (\E b \in Bits : ConfigureSlot(b)) \/ SlotConfigured
      PROVE  clk'.lost = {}
  BY <1>1, <1>9 DEF Start, Server, Open, DummyRead, AddrStore, SizeStore, Store, StartStore,
                    HandleEventFails, HandleStrayEvent, Interrupt, ConfigureSlot, StartProg,
                    SlotConfigured, HandleEvent, manager
<1>10. ASSUME NEW s \in Slots, SlotServer(s) \/ SlotTimeout(s) \/ Hardware(s)
       PROVE  clk'.lost = {}
  BY <1>1, <1>10 DEF SlotServer, SlotTimeout, Hardware, fpga, manager
<1>11. ASSUME UNCHANGED vars PROVE clk'.lost = {}
  BY <1>1, <1>11 DEF vars, fpga, manager
<1> QED BY <1>5, <1>6, <1>7, <1>8, <1>9, <1>10, <1>11 DEF HwNext, Alone, Admin

\* Whatever fails that the code looks at, in a load, a full load or a readback,
\* and whenever the module comes and goes: a partial bitstream is loaded with the
\* clock on, and who finds the lock free finds the clock as the module left it and
\* no buffer (rcfg_worker, zynqmp_fpga_ops_*, zynqmp_fpga_probe and _remove).  The
\* rate or the preparation is missing only after the call of
\* zynqmp_fpga_read_cfgdata that should have restored it failed unnoticed.
THEOREM SharedClockKept == HwSpec => []ClockKept
<1>1. ASSUME ClockInv PROVE ClockKept
  <2> USE <1>1, NoneAssumption DEF ClockInv, Locked, HasClock
  <2>1. FullRateForLoads
    BY DEF FullRateForLoads, ClockAt, Running, Full
  <2>2. ASSUME lock = None
        PROVE  /\ clk = [prep |-> "prepared" \in module.held /\ "prepare" \notin clk.lost,
                         on |-> FALSE, slow |-> "rate" \in clk.lost, saved |-> FALSE,
                         lost |-> clk.lost]
               /\ ~dma
    <3>1. ~dma /\ Resting(clk)
      BY <2>2 DEF ClockAt
    <3>2. /\ clk = [prep |-> clk.prep, on |-> clk.on, slow |-> clk.slow,
                    saved |-> clk.saved, lost |-> clk.lost]
          /\ clk.prep \in BOOLEAN /\ clk.slow \in BOOLEAN /\ clk.saved \in BOOLEAN
      BY <3>1 DEF Resting, Full, Clock
    <3>3. /\ clk.prep <=> ("prepared" \in module.held /\ "prepare" \notin clk.lost)
          /\ clk.on = FALSE /\ (clk.slow <=> "rate" \in clk.lost) /\ ~clk.saved
      BY <3>1 DEF Resting, Full
    <3>4. /\ clk.prep = ("prepared" \in module.held /\ "prepare" \notin clk.lost)
          /\ clk.slow = ("rate" \in clk.lost) /\ clk.saved = FALSE
      BY <3>2, <3>3
    <3> QED BY <3>1, <3>2, <3>3, <3>4, Zenon
  <2> QED BY <2>1, <2>2 DEF ClockKept, ClockRestored
<1> QED BY <1>1, InitAgrees, NextAgrees, InitClock, NextClock, PTL DEF HwSpec

-----------------------------------------------------------------------------
(* The runs of an accelerator.                                             *)

Plans == {<< >>, <<"couple", "IER", "GIE", "start">>, <<"IER", "GIE", "start">>,
          <<"GIE", "start">>, <<"start">>, <<"read", "ISR", "clear_gic">>,
          <<"ISR", "clear_gic">>, <<"clear_gic">>, <<"abort">>}

Registers == [start : BOOLEAN, IER : BOOLEAN, GIE : BOOLEAN, ISR : BOOLEAN]

Typed ==
    /\ state \in [Slots -> {"BLANK", "RSRV", "RCFG", "READY", "EXEC", "IDLE"}]
    /\ regs \in [Slots -> Registers]
    /\ event \subseteq Slots
    /\ todo[1] \in Plans
    /\ todo[1] # << >> => todo[2] \in Slots

\* The handler in progress has this step before it.
Next(step) == todo[1] # << >> /\ Head(todo[1]) = step

\* Nothing of an earlier run is left: not computing, no interrupt, no event.
Clean(s) == ~regs[s].start /\ ~regs[s].ISR /\ s \notin event

\* A slot that may be started is clean; the event of one that computes is there
\* only when it has finished.
Run(s) ==
    /\ state[s] \in {"IDLE", "RSRV", "READY"} => Clean(s)
    /\ state[s] = "EXEC" /\ regs[s].start => ~regs[s].ISR /\ s \notin event
    /\ s \in gic => s \notin event

\* How far the handler is with its slot.
Progress(s) ==
    /\ Next("couple") \/ Next("IER") \/ Next("GIE") => state[s] = "READY"
    /\ Next("start") => state[s] \in {"READY", "RSRV"}
    /\ Next("read") \/ Next("ISR") \/ Next("clear_gic") =>
           state[s] = "EXEC" /\ ~regs[s].start
    /\ Next("ISR") => s \notin event /\ s \notin gic
    /\ Next("clear_gic") => Clean(s)

Device == Typed /\ (\A s \in Slots : Run(s)) /\ Progress(todo[2])

LEMMA InitDevice == HwInit => Device
<1> SUFFICES ASSUME HwInit PROVE Device
  OBVIOUS
<1> USE DEF HwInit, S!Init, S!Idle, S!Off
<1>1. Typed
  BY DEF Typed, Plans, Registers
<1>2. \A s \in Slots : Run(s)
  BY DEF Run, Clean
<1>3. Progress(todo[2])
  BY DEF Progress, Next
<1> QED BY <1>1, <1>2, <1>3 DEF Device

\* What follows each step of a handler.
LEMMA Follows ==
  ASSUME todo[1] \in Plans, NEW s, todo[2] = s, S!Go(s)
  PROVE  /\ Next("couple") => todo' = << <<"IER", "GIE", "start">>, s>>
         /\ Next("IER") => todo' = << <<"GIE", "start">>, s>>
         /\ Next("GIE") => todo' = << <<"start">>, s>>
         /\ Next("read") => todo' = << <<"ISR", "clear_gic">>, s>> /\ Len(todo[1]) # 1
         /\ Next("ISR") => todo' = << <<"clear_gic">>, s>> /\ Len(todo[1]) # 1
         /\ Next("start") => todo' = S!Idle
         /\ Next("clear_gic") => todo' = S!Idle /\ Len(todo[1]) = 1
<1> USE DEF S!Go, S!Then, Next
<1>1. CASE todo[1] = <<"couple", "IER", "GIE", "start">>
  BY <1>1
<1>2. CASE todo[1] = <<"IER", "GIE", "start">>
  BY <1>2
<1>3. CASE todo[1] = <<"GIE", "start">>
  BY <1>3
<1>4. CASE todo[1] = <<"start">>
  BY <1>4
<1>5. CASE todo[1] = <<"read", "ISR", "clear_gic">>
  BY <1>5
<1>6. CASE todo[1] = <<"ISR", "clear_gic">>
  BY <1>6
<1>7. CASE todo[1] = <<"clear_gic">>
  BY <1>7
<1>8. CASE todo[1] = <<"abort">>
  BY <1>8
<1>9. CASE todo[1] = << >>
  BY <1>9
<1> QED BY <1>1, <1>2, <1>3, <1>4, <1>5, <1>6, <1>7, <1>8, <1>9 DEF Plans

\* A step at a slot leaves the others alone.
Elsewhere(s) ==
    \A r \in Slots \ {s} :
        /\ state'[r] = state[r] /\ regs'[r] = regs[r]
        /\ r \in event' <=> r \in event
        /\ r \in gic' <=> r \in gic

LEMMA OneSlot ==
  ASSUME Device, NEW s \in Slots, Typed', Elsewhere(s), Run(s)', Progress(todo[2])'
  PROVE  Device'
<1>1. ASSUME NEW r \in Slots \ {s} PROVE Run(r)'
  BY <1>1 DEF Device, Run, Clean, Elsewhere
<1> QED BY <1>1 DEF Device

\* Where no handler is in progress, and where one is that has gone on.
LEMMA NoProgress == ASSUME todo = S!Idle PROVE \A step : ~Next(step)
BY DEF S!Idle, Next

\* The steps with which the server's thread begins a handler.
LEMMA BeginKeepsDevice ==
  ASSUME Device, NEW s \in Slots,
         \/ S!Skip(s) \/ S!SlotComplete(s) \/ S!SlotAsserts(s)
         \/ S!Reinit(s) /\ Clean(s)
  PROVE  Device'
<1> USE DEF Device, Elsewhere
<1>1. CASE S!Skip(s)
  <2>1. /\ state[s] = "IDLE" /\ state' = [state EXCEPT ![s] = "RSRV"]
        /\ todo' = << <<"start">>, s>>
        /\ UNCHANGED <<regs, gic, event>>
    BY <1>1 DEF S!Skip, S!Then
  <2>2. Typed' /\ state'[s] = "RSRV" /\ Elsewhere(s)
    BY <2>1 DEF Typed, Plans
  <2>3. Run(s)'
    BY <2>1, <2>2 DEF Run, Clean
  <2>4. Progress(todo[2])'
    BY <2>1, <2>2 DEF Progress, Next
  <2> QED BY <2>2, <2>3, <2>4, OneSlot
<1>2. CASE S!SlotComplete(s)
  <2>1. /\ state[s] = "EXEC" /\ s \in event
        /\ todo' = << <<"read", "ISR", "clear_gic">>, s>>
        /\ UNCHANGED <<state, regs, gic, event>>
    BY <1>2 DEF S!SlotComplete, S!Then, S!AfterCompute
  <2>2. Typed' /\ Elsewhere(s) /\ Run(s)'
    BY <2>1 DEF Typed, Plans, Run, Clean
  <2>3. ~regs[s].start
    BY <2>1 DEF Run
  <2>4. Progress(todo[2])'
    BY <2>1, <2>3 DEF Progress, Next
  <2> QED BY <2>2, <2>4, OneSlot
<1>3. CASE S!SlotAsserts(s)
  <2>1. /\ todo' = << <<"abort">>, s>>
        /\ UNCHANGED <<state, regs, gic, event>>
    BY <1>3 DEF S!SlotAsserts, S!Then
  <2>2. Typed' /\ Elsewhere(s) /\ Run(s)'
    BY <2>1 DEF Typed, Plans, Run, Clean
  <2>3. Progress(todo[2])'
    BY <2>1 DEF Progress, Next
  <2> QED BY <2>2, <2>3, OneSlot
<1>4. CASE S!Reinit(s) /\ Clean(s)
  <2>1. /\ state' = [state EXCEPT ![s] = "READY"]
        /\ todo' = << <<"couple", "IER", "GIE", "start">>, s>>
        /\ UNCHANGED <<regs, gic, event>>
    BY <1>4 DEF S!Reinit, S!Then, S!AfterRcfg
  <2>2. Typed' /\ state'[s] = "READY" /\ Elsewhere(s)
    BY <2>1 DEF Typed, Plans
  <2>3. Run(s)'
    BY <1>4, <2>1, <2>2 DEF Run, Clean
  <2>4. Progress(todo[2])'
    BY <2>1, <2>2 DEF Progress, Next
  <2> QED BY <2>2, <2>3, <2>4, OneSlot
<1> QED BY <1>1, <1>2, <1>3, <1>4

\* The steps of a handler in progress.
LEMMA HandlerKeepsDevice ==
  ASSUME Device, NEW s \in Slots, S!Handler(s)
  PROVE  Device'
<1> USE DEF Device, Elsewhere
<1>1. CASE S!Couple(s)
  <2>1. Next("couple") /\ todo[2] = s /\ S!Go(s) /\ UNCHANGED <<state, regs, gic, event>>
    BY <1>1 DEF S!Couple, S!Does, Next
  <2>2. todo' = << <<"IER", "GIE", "start">>, s>>
    BY <2>1, Follows DEF Typed
  <2>3. Typed' /\ Elsewhere(s) /\ Run(s)'
    BY <2>1, <2>2 DEF Typed, Plans, Run, Clean
  <2>4. Progress(todo[2])'
    BY <2>1, <2>2 DEF Progress, Next
  <2> QED BY <2>3, <2>4, OneSlot
<1>2. CASE S!EnableIrq(s)
  <2>1. PICK r \in {"IER", "GIE"} :
          /\ Next(r) /\ todo[2] = s /\ S!Go(s)
          /\ regs' = [regs EXCEPT ![s][r] = TRUE]
          /\ UNCHANGED <<state, gic, event>>
    BY <1>2 DEF S!EnableIrq, S!Does, Next
  <2>2. todo' \in {<< <<"GIE", "start">>, s>>, << <<"start">>, s>>}
    BY <2>1, Follows DEF Typed
  <2>3. /\ regs' \in [Slots -> Registers]
        /\ regs'[s].start = regs[s].start /\ regs'[s].ISR = regs[s].ISR
        /\ \A q \in Slots \ {s} : regs'[q] = regs[q]
    <3>1. CASE r = "IER"
      BY <2>1, <3>1 DEF Typed, Registers
    <3>2. CASE r = "GIE"
      BY <2>1, <3>2 DEF Typed, Registers
    <3> QED BY <3>1, <3>2
  <2>4. Typed' /\ Elsewhere(s)
    BY <2>1, <2>2, <2>3 DEF Typed, Plans
  <2>5. Run(s)'
    BY <2>1, <2>3 DEF Run, Clean
  <2>6. state[s] = "READY"
    BY <2>1 DEF Progress
  <2>7. Progress(todo[2])'
    BY <2>1, <2>2, <2>6 DEF Progress, Next
  <2> QED BY <2>4, <2>5, <2>7, OneSlot
<1>3. CASE S!StartCompute(s)
  <2>1. /\ Next("start") /\ todo[2] = s /\ S!Go(s)
        /\ regs' = [regs EXCEPT ![s].start = TRUE]
        /\ state' = [state EXCEPT ![s] = "EXEC"]
        /\ UNCHANGED <<gic, event>>
    BY <1>3 DEF S!StartCompute, S!Does, Next
  <2>2. todo' = S!Idle
    BY <2>1, Follows DEF Typed
  <2>3. /\ regs' \in [Slots -> Registers]
        /\ regs'[s].ISR = regs[s].ISR
        /\ \A q \in Slots \ {s} : regs'[q] = regs[q]
    BY <2>1 DEF Typed, Registers
  <2>4. Typed' /\ Elsewhere(s) /\ state'[s] = "EXEC"
    BY <2>1, <2>2, <2>3 DEF Typed, Plans, S!Idle
  <2>5. Clean(s)
    BY <2>1 DEF Progress, Run
  <2>6. Run(s)'
    BY <2>1, <2>3, <2>4, <2>5 DEF Run, Clean
  <2>7. Progress(todo[2])'
    BY <2>2 DEF Progress, Next, S!Idle
  <2> QED BY <2>4, <2>6, <2>7, OneSlot
<1>4. CASE S!ReadForIrq(s)
  <2>1. /\ Next("read") /\ todo[2] = s /\ S!Go(s) /\ s \in event
        /\ event' = event \ {s}
        /\ S!LastStep(s)
        /\ UNCHANGED <<regs, gic>>
    BY <1>4 DEF S!ReadForIrq, S!Does, Next
  <2>2. todo' = << <<"ISR", "clear_gic">>, s>> /\ UNCHANGED state
    BY <2>1, Follows DEF Typed, S!LastStep
  <2>3. Typed' /\ Elsewhere(s) /\ Run(s)'
    BY <2>1, <2>2 DEF Typed, Plans, Run, Clean
  <2>4. state[s] = "EXEC" /\ ~regs[s].start /\ s \notin gic
    BY <2>1 DEF Progress, Run
  <2>5. Progress(todo[2])'
    BY <2>1, <2>2, <2>4 DEF Progress, Next
  <2> QED BY <2>3, <2>5, OneSlot
<1>5. CASE S!ClearIsr(s)
  <2>1. /\ Next("ISR") /\ todo[2] = s /\ S!Go(s)
        /\ regs' = [regs EXCEPT ![s].ISR = FALSE]
        /\ S!LastStep(s)
        /\ UNCHANGED <<gic, event>>
    BY <1>5 DEF S!ClearIsr, S!Does, Next
  <2>2. todo' = << <<"clear_gic">>, s>> /\ UNCHANGED state
    BY <2>1, Follows DEF Typed, S!LastStep
  <2>3. /\ regs' \in [Slots -> Registers]
        /\ ~regs'[s].ISR /\ regs'[s].start = regs[s].start
        /\ \A q \in Slots \ {s} : regs'[q] = regs[q]
    BY <2>1 DEF Typed, Registers
  <2>4. Typed' /\ Elsewhere(s)
    BY <2>1, <2>2, <2>3 DEF Typed, Plans
  <2>5. state[s] = "EXEC" /\ ~regs[s].start /\ s \notin event
    BY <2>1 DEF Progress
  <2>6. Run(s)' /\ Progress(todo[2])'
    BY <2>1, <2>2, <2>3, <2>5 DEF Progress, Next, Run, Clean
  <2> QED BY <2>4, <2>6, OneSlot
<1>6. CASE S!ClearGic(s)
  <2>1. /\ Next("clear_gic") /\ todo[2] = s /\ S!Go(s)
        /\ gic' = gic \cup {s}
        /\ S!LastStep(s)
        /\ UNCHANGED <<regs, event>>
    BY <1>6 DEF S!ClearGic, S!Does, Next
  <2>2. todo' = S!Idle /\ state' = [state EXCEPT ![s] = "IDLE"]
    BY <2>1, Follows DEF Typed, S!LastStep
  <2>3. Typed' /\ Elsewhere(s) /\ state'[s] = "IDLE"
    BY <2>1, <2>2 DEF Typed, Plans, S!Idle
  <2>4. Clean(s)
    BY <2>1 DEF Progress
  <2>5. Run(s)'
    BY <2>1, <2>3, <2>4 DEF Run, Clean
  <2>6. Progress(todo[2])'
    BY <2>2 DEF Progress, Next, S!Idle
  <2> QED BY <2>3, <2>5, <2>6, OneSlot
<1> QED BY <1>1, <1>2, <1>3, <1>4, <1>5, <1>6 DEF S!Handler

\* What is done to a slot from outside of its handlers.
LEMMA OtherKeepsDevice ==
  ASSUME Device, NEW s \in Slots,
         \/ S!Decouple(s) \/ S!Disable(s) \/ S!Loaded(s) \/ S!Finish(s) \/ S!Interrupt(s)
  PROVE  Device'
<1> USE DEF Device, Elsewhere
<1>1. CASE S!Decouple(s) \/ S!Disable(s)
  <2>1. /\ todo = S!Idle /\ UNCHANGED <<todo, regs, gic, event>>
        /\ state' \in {[state EXCEPT ![s] = "RCFG"], [state EXCEPT ![s] = "BLANK"]}
    BY <1>1 DEF S!Decouple, S!Disable, S!Waiting, S!AfterTimeout
  <2>2. Typed' /\ Elsewhere(s) /\ state'[s] \in {"RCFG", "BLANK"}
    BY <2>1 DEF Typed
  <2>3. Run(s)'
    BY <2>1, <2>2 DEF Run
  <2>4. Progress(todo[2])'
    BY <2>1 DEF Progress, Next, S!Idle
  <2> QED BY <2>2, <2>3, <2>4, OneSlot
<1>2. CASE S!Loaded(s)
  <2>1. regs' = [regs EXCEPT ![s] = S!Off] /\ UNCHANGED <<state, todo, gic, event>>
    BY <1>2 DEF S!Loaded
  <2>2. /\ regs' \in [Slots -> Registers] /\ ~regs'[s].start /\ ~regs'[s].ISR
        /\ \A q \in Slots \ {s} : regs'[q] = regs[q]
    BY <2>1 DEF Typed, Registers, S!Off
  <2>3. Typed' /\ Elsewhere(s)
    BY <2>1, <2>2 DEF Typed
  <2>4. Run(s)'
    BY <2>1, <2>2 DEF Run, Clean
  <2>5. Progress(todo[2])'
    <3>1. CASE todo[2] = s
      BY <2>1, <2>2, <3>1 DEF Progress, Next, Clean
    <3>2. CASE todo[2] # s /\ todo[1] # << >>
      BY <2>1, <2>2, <3>2 DEF Progress, Next, Clean, Typed
    <3>3. CASE todo[1] = << >>
      BY <2>1, <3>3 DEF Progress, Next
    <3> QED BY <3>1, <3>2, <3>3
  <2> QED BY <2>3, <2>4, <2>5, OneSlot
<1>3. CASE S!Finish(s)
  <2>1. /\ regs[s].start
        /\ regs' = [regs EXCEPT ![s].start = FALSE, ![s].ISR = @ \/ regs[s].IER]
        /\ UNCHANGED <<state, todo, gic, event>>
    BY <1>3 DEF S!Finish
  <2>2. /\ regs' \in [Slots -> Registers] /\ ~regs'[s].start
        /\ \A q \in Slots \ {s} : regs'[q] = regs[q]
    BY <2>1 DEF Typed, Registers
  <2>3. Typed' /\ Elsewhere(s)
    BY <2>1, <2>2 DEF Typed
  <2>4. Run(s)'
    BY <2>1, <2>2 DEF Run, Clean
  <2>5. Progress(todo[2])'
    <3>1. CASE todo[2] = s
      BY <2>1, <2>2, <3>1 DEF Progress, Next, Clean
    <3>2. CASE todo[2] # s /\ todo[1] # << >>
      BY <2>1, <2>2, <3>2 DEF Progress, Next, Clean, Typed
    <3>3. CASE todo[1] = << >>
      BY <2>1, <3>3 DEF Progress, Next
    <3> QED BY <3>1, <3>2, <3>3
  <2> QED BY <2>3, <2>4, <2>5, OneSlot
<1>4. CASE S!Interrupt(s)
  <2>1. /\ s \in gic /\ regs[s].ISR
        /\ gic' = gic \ {s} /\ event' = event \cup {s}
        /\ UNCHANGED <<state, regs, todo>>
    BY <1>4 DEF S!Interrupt, S!Line
  <2>2. Typed' /\ Elsewhere(s)
    BY <2>1 DEF Typed
  <2>3. Run(s)'
    BY <2>1 DEF Run, Clean
  <2>4. Progress(todo[2])'
    BY <2>1 DEF Progress, Next, Clean
  <2> QED BY <2>2, <2>3, <2>4, OneSlot
<1> QED BY <1>1, <1>2, <1>3, <1>4

Fresh(s) == ~regs[s].start /\ ~regs[s].ISR

Asking == srv.pc \in {"addr", "size", "start", "wait"}

\* The slot that is reconfigured is in no handler, and has a new accelerator as
\* soon as the kernel has nothing more to load.
Renewed ==
    world.slots =>
        /\ Asking => srv.bit \in Bits /\ state[SlotOf[srv.bit]] = "RCFG"
        /\ srv.pc = "wait" =>
               starts = 1 \/ worker \in {"lock", "load"} \/ Fresh(SlotOf[srv.bit])

LEMMA InitRenewed == HwInit => Renewed
BY DEF HwInit, Init, Renewed, Asking

\* A step at a slot does not disturb the one that is reconfigured.
LEMMA SlotKeepsRenewed ==
  ASSUME Device, Renewed, UNCHANGED <<world, fpga>>, NEW s \in Slots,
         S!Server(s) \/ S!Disable(s) \/ S!Finish(s) \/ S!Interrupt(s)
  PROVE  Renewed'
<1> SUFFICES ASSUME world.slots, Asking
             PROVE  LET r == SlotOf[srv.bit] IN
                    /\ state'[r] = "RCFG"
                    /\ Fresh(r) => ~regs'[r].start /\ ~regs'[r].ISR
  BY DEF Renewed, Asking, fpga, kernel, Fresh
<1> DEFINE r == SlotOf[srv.bit]
<1>1. r \in Slots /\ state[r] = "RCFG"
  BY DEF Renewed, Slots
<1>2. Typed /\ Progress(todo[2])
  BY DEF Device
<1> HIDE DEF r
<1>3. CASE S!Skip(s) \/ S!SlotComplete(s) \/ S!SlotAsserts(s) \/ S!Disable(s)
           \/ S!Interrupt(s)
  <2>1. UNCHANGED regs /\ state'[r] = state[r]
    BY <1>1, <1>2, <1>3 DEF S!Skip, S!SlotComplete, S!SlotAsserts, S!Disable, S!Interrupt,
                            Typed
  <2> QED BY <1>1, <2>1 DEF Fresh, r
<1>4. CASE S!Finish(s)
  <2>1. /\ UNCHANGED state /\ regs[s].start
        /\ r # s => regs'[r] = regs[r]
    BY <1>1, <1>2, <1>4 DEF S!Finish, Typed
  <2> QED BY <1>1, <2>1 DEF Fresh, r
<1>5. CASE S!Handler(s)
  <2>1. todo[2] = s /\ s # r
    <3>1. todo[2] = s /\ \E step \in Steps \ {"abort"} : Next(step)
      BY <1>5 DEF S!Handler, S!Couple, S!EnableIrq, S!StartCompute, S!ReadForIrq,
                  S!ClearIsr, S!ClearGic, S!Does, Next, Steps
    <3>2. state[s] # "RCFG"
      BY <1>2, <3>1 DEF Progress, Steps
    <3> QED BY <1>1, <3>1, <3>2
  <2>2. state'[r] = state[r] /\ regs'[r] = regs[r]
    <3> USE <1>1, <1>2, <2>1 DEF Typed
    <3>1. CASE S!Couple(s)
      BY <3>1 DEF S!Couple
    <3>2. CASE S!EnableIrq(s)
      BY <3>2 DEF S!EnableIrq
    <3>3. CASE S!StartCompute(s)
      BY <3>3 DEF S!StartCompute
    <3>4. CASE S!ReadForIrq(s) \/ S!ClearIsr(s) \/ S!ClearGic(s)
      BY <3>4 DEF S!ReadForIrq, S!ClearIsr, S!ClearGic, S!LastStep
    <3> QED BY <1>5, <3>1, <3>2, <3>3, <3>4 DEF S!Handler
  <2> QED BY <1>1, <2>2 DEF Fresh, r
<1> QED BY <1>3, <1>4, <1>5 DEF S!Server

\* A step of the server's driver or of the kernel that leaves the slots alone.
LEMMA DriverKeepsRenewed ==
  ASSUME Agree, ClockInv, NothingLost, Renewed, UNCHANGED <<world, registers>>,
         \/ Start \/ Server \/ HandleEventFails \/ HandleStrayEvent \/ Interrupt
         \/ Worker \/ OpsWriteInit \/ TryLock \/ Admin \/ Probe \/ Remove \/ Unregister
  PROVE  Renewed'
<1> SUFFICES ASSUME world.slots PROVE Renewed'
  BY DEF Renewed
<1> USE DEF Renewed, Asking, Fresh, registers
<1>1. ~Faults /\ world \in Worlds
  BY WorldsAssumption DEF Agree, Shapes, Faults
<1>2. ASSUME srv'.pc \in {"idle", "down", "ended", "open", "dummy", "assert"} PROVE Renewed'
  BY <1>2
<1>3. ASSUME UNCHANGED srv,
             starts = 1 \/ worker \in {"lock", "load"} =>
                 starts' = 1 \/ worker' \in {"lock", "load"}
      PROVE  Renewed'
  BY <1>3
<1>4. CASE Start \/ HandleEventFails \/ HandleStrayEvent \/ Interrupt \/ Open \/ DummyRead
  <2>1. srv'.pc \in {"idle", "down", "ended", "open", "dummy", "assert"}
    <3> USE DEF Agree, Shapes, Goto, Shutdown
    <3>1. CASE Start \/ HandleEventFails \/ HandleStrayEvent \/ Interrupt
      BY <3>1 DEF Start, HandleEventFails, HandleStrayEvent, Interrupt
    <3>2. CASE Open
      BY <3>2 DEF Open
    <3>3. CASE DummyRead
      BY <3>3 DEF DummyRead
    <3> QED BY <1>4, <3>1, <3>2, <3>3
  <2> QED BY <1>2, <2>1
<1>5. CASE AddrStore \/ SizeStore
  <2>1. \/ srv.pc \in {"addr", "size"} /\ srv'.pc \in {"size", "start"} /\ srv'.bit = srv.bit
        \/ srv'.pc = "ended"
    BY <1>5 DEF AddrStore, SizeStore, Store, Agree, Shapes, Goto, Shutdown
  <2> QED BY <1>2, <2>1
<1>6. CASE StartStore
  <2>1. \/ /\ srv.pc = "start" /\ srv'.pc = "wait" /\ srv'.bit = srv.bit
           /\ starts' = starts + 1 /\ ~rcfg
        \/ srv'.pc = "ended"
    BY <1>6 DEF StartStore, Refuses, Agree, Shapes, Goto, Shutdown
  <2>2. ~rcfg => starts = 0
    BY DEF Agree, Shapes, OneStart
  <2> QED BY <1>2, <2>1, <2>2
<1>7. CASE Worker
  <2>1. CASE WorkerCheck \/ WorkerNotify
    BY <1>3, <2>1 DEF WorkerCheck, WorkerNotify, WorkerAt
  <2>2. CASE WorkerWake
    BY <1>3, <2>2 DEF WorkerWake, WorkerAt
  <2>3. CASE WorkerLock
    <3>1. lock = None /\ worker = "lock" /\ HasClock /\ clk.lost = {}
      BY <1>1, <2>3 DEF WorkerLock, WorkerAt, LockFree, ClockInv, Locked, NothingLost
    <3>2. clk.prep
      BY <3>1 DEF ClockInv, ClockAt, Resting, Full
    <3> QED BY <1>1, <1>3, <2>3, <3>2 DEF WorkerLock, WorkerAt
  <2>4. CASE WorkerLoaded(TRUE)
    BY <1>1, <2>4 DEF WorkerLoaded, May
  <2>5. CASE WorkerRearm
    <3>1. UNCHANGED srv /\ starts # 1 /\ worker \notin {"lock", "load"}
      BY <2>5 DEF WorkerRearm, WorkerAt, Agree, OneStart
    <3> QED BY <1>3, <3>1
  <2> QED BY <1>7, <2>1, <2>2, <2>3, <2>4, <2>5 DEF Worker
<1>8. CASE OpsWriteInit \/ TryLock \/ Admin \/ Remove \/ Unregister
  <2>1. UNCHANGED <<srv, starts, worker>>
    BY <1>8 DEF OpsWriteInit, TryLock, Admin, AdminStep, AdminUnlock, Remove, Unregister,
                kernel
  <2> QED BY <1>3, <2>1
<1>9. CASE Probe
  <2>1. UNCHANGED <<srv, starts>> /\ worker = "none"
    BY <1>9 DEF Probe, Agree, OneStart
  <2> QED BY <1>3, <2>1
<1> QED BY <1>4, <1>5, <1>6, <1>7, <1>8, <1>9 DEF Server

LEMMA NextRenewed ==
  Agree /\ ClockInv /\ NothingLost /\ Device /\ Renewed /\ [HwNext]_vars => Device' /\ Renewed'
<1> SUFFICES ASSUME Agree, ClockInv, NothingLost, Device, Renewed, [HwNext]_vars
             PROVE  Device' /\ Renewed'
  OBVIOUS
<1>1. ASSUME UNCHANGED registers PROVE Device'
  BY <1>1 DEF registers, Device, Typed, Run, Clean, Progress, Next
<1>2. ASSUME UNCHANGED vars PROVE Device' /\ Renewed'
  BY <1>1, <1>2 DEF vars, registers, fpga, kernel, Renewed, Asking, Fresh
<1>3. ASSUME UNCHANGED world, NEW b \in Bits, ConfigureSlot(b) PROVE Device' /\ Renewed'
  <2>1. srv'.pc = "addr" /\ srv'.bit = b
    BY <1>3 DEF ConfigureSlot, StartProg, Agree, Shapes
  <2>2. CASE world.slots
    <3>1. S!Decouple(SlotOf[b]) /\ SlotOf[b] \in Slots
      BY <1>3, <2>2 DEF ConfigureSlot, Slots
    <3>2. state'[SlotOf[b]] = "RCFG"
      BY <3>1 DEF S!Decouple, Device, Typed
    <3> QED BY <1>3, <2>1, <2>2, <3>1, <3>2, OtherKeepsDevice DEF Renewed, Asking
  <2>3. CASE ~world.slots
    BY <1>1, <1>3, <2>3 DEF ConfigureSlot, Renewed
  <2> QED BY <2>2, <2>3
<1>4. ASSUME UNCHANGED world, SlotConfigured PROVE Device' /\ Renewed'
  <2>1. srv'.pc = "idle" /\ srv.pc = "wait" /\ done
    BY <1>4 DEF SlotConfigured, HandleEvent, Agree, Shapes
  <2>2. Renewed'
    BY <2>1 DEF Renewed, Asking
  <2>3. CASE world.slots
    <3>1. ~Pending
      BY <2>1, <2>3, WorldsAssumption DEF Agree, Shapes, OwnStart, Restarts
    <3>2. Fresh(SlotOf[srv.bit]) /\ srv.bit \in Bits
      BY <2>1, <2>3, <3>1 DEF Renewed, Asking, Pending, Active
    <3>3. S!Reinit(SlotOf[srv.bit]) /\ Clean(SlotOf[srv.bit])
      BY <1>4, <2>3, <3>2 DEF SlotConfigured, S!Reinit, S!LoopHasRun, Clean, Fresh
    <3>4. SlotOf[srv.bit] \in Slots
      BY <3>2 DEF Slots
    <3> QED BY <2>2, <3>3, <3>4, BeginKeepsDevice
  <2>4. CASE ~world.slots
    BY <1>1, <1>4, <2>2, <2>4 DEF SlotConfigured
  <2> QED BY <2>3, <2>4
<1>5. ASSUME UNCHANGED world, BitstreamLoaded PROVE Device' /\ Renewed'
  <2>1. worker = "load" /\ UNCHANGED srv
    BY <1>5 DEF BitstreamLoaded, WorkerLoaded, WorkerAt
  <2>2. CASE world.slots
    <3>1. srv.pc = "wait" /\ attr.addr = srv.bit
      BY <2>1, <2>2, WorldsAssumption DEF Agree, Shapes, OwnStart, Attributed, Pending,
                                         Active, Restarts
    <3>2. srv.bit \in Bits /\ state[SlotOf[srv.bit]] = "RCFG"
      BY <2>2, <3>1 DEF Renewed, Asking
    <3>3. S!Loaded(SlotOf[srv.bit]) /\ SlotOf[srv.bit] \in Slots
      BY <1>5, <2>2, <3>1, <3>2 DEF BitstreamLoaded, Slots
    <3>4. Fresh(SlotOf[srv.bit])' /\ UNCHANGED state
      BY <2>1, <3>3 DEF S!Loaded, S!Off, Fresh, Device, Typed
    <3> QED BY <2>1, <3>2, <3>3, <3>4, OtherKeepsDevice DEF Renewed, Asking
  <2>3. CASE ~world.slots
    BY <1>1, <1>5, <2>3 DEF BitstreamLoaded, Renewed
  <2> QED BY <2>2, <2>3
<1>6. ASSUME UNCHANGED world, NEW s \in Slots,
             SlotServer(s) \/ SlotTimeout(s) \/ Hardware(s)
      PROVE  Device' /\ Renewed'
  <2>1. /\ UNCHANGED fpga
        /\ S!Server(s) \/ S!Disable(s) \/ S!Finish(s) \/ S!Interrupt(s)
    BY <1>6 DEF SlotServer, SlotTimeout, Hardware
  <2>2. Device'
    BY <2>1, BeginKeepsDevice, HandlerKeepsDevice, OtherKeepsDevice DEF S!Server
  <2> QED BY <1>6, <2>1, <2>2, SlotKeepsRenewed
<1>7. ASSUME UNCHANGED world,
             \/ Alone(Start \/ Server \/ HandleEventFails \/ HandleStrayEvent \/ Interrupt)
             \/ Alone(Worker \/ OpsWriteInit \/ TryLock \/ Admin)
             \/ Alone(Probe \/ Remove \/ Unregister)
      PROVE  Device' /\ Renewed'
  BY <1>1, <1>7, DriverKeepsRenewed DEF Alone
<1> QED BY <1>2, <1>3, <1>4, <1>5, <1>6, <1>7 DEF HwNext

\* An event that is taken for a completion is one, and a slot is only started when
\* its accelerator is ready, whatever the watchdog stopped before and however late
\* the interrupt comes (slot_drv_master_start_compute_ and _after_compute_).
THEOREM RunsStaySeparated == HwSpec => []RunsSeparated
<1>1. ASSUME Device PROVE RunsSeparated
  <2>1. EventMeansDone
    BY <1>1 DEF EventMeansDone, Device, Typed, Run
  <2>2. ASSUME NEW s \in Slots, S!Does("start", s) PROVE ~regs[s].start
    BY <1>1, <2>2 DEF Device, S!Does, Next, Progress, Run, Clean
  <2> QED BY <2>1, <2>2 DEF RunsSeparated, StartFindsReady
<1> QED BY <1>1, InitAgrees, NextAgrees, InitClock, NextClock, InitLost, NextLost, InitDevice,
           InitRenewed, NextRenewed, PTL DEF HwSpec

-----------------------------------------------------------------------------
(* Types, a driver that is down, a module that is gone, refused starts.    *)

Files == {"rcfg_done", "rcfg_start", "addr", "size"}

Resources == {"mgr", "clk", "prepared", "registered", "groups", "worker"}

Kinds ==
    /\ srv.pc \in {"down", "ended", "open", "dummy", "idle", "addr", "size", "start",
                   "wait", "assert"}
    /\ srv.fds \subseteq Files
    /\ srv.bit \in Bits \cup {None}
    /\ attr.addr \in Bits \cup {None} /\ attr.size \in Bits \cup {None}
    /\ enc \in BOOLEAN /\ dma \in BOOLEAN
    /\ module.pc \in {"probing", "bound", "failed", "stopping", "removed", "oops"}
    /\ module.held \subseteq Resources

\* Nobody can enter a module that holds nothing, and nobody was left in it.
Quiet == module.pc = "removed" => worker = "exited" /\ admin = "idle" /\ module.held = {}

\* A start that was accepted and is not recorded as ended is pending, or the
\* worker is at the last of its bookkeeping, or it has given up on it and the
\* server waits for ever.
Busy ==
    ~Restarts /\ rcfg =>
        \/ Pending
        \/ worker \in {"reinit", "clear"}
        \/ worker = "exited" /\ srv.pc = "wait" /\ ~done

Rest == Kinds /\ NothingOpenWhenDown /\ Quiet /\ Busy /\ (Asking => srv.bit \in Bits)

LEMMA InitRest == HwInit => Rest
<1> SUFFICES ASSUME HwInit PROVE Rest
  OBVIOUS
<1> USE DEF HwInit, Init
<1>1. Kinds
  BY DEF Kinds
<1>2. NothingOpenWhenDown /\ Quiet /\ Busy /\ ~Asking
  BY DEF NothingOpenWhenDown, Quiet, Busy, Asking
<1> QED BY <1>1, <1>2 DEF Rest

\* What each step of the server's driver does to the rest.
LEMMA ServerRest ==
  ASSUME Agree, Rest, world' = world,
         \/ Start \/ Server \/ HandleEvent \/ HandleEventFails \/ HandleStrayEvent \/ Interrupt
         \/ \E b \in Bits : StartProg(b)
  PROVE  Rest'
<1> USE DEF Rest, Kinds, NothingOpenWhenDown, Quiet, Busy, Pending, Asking, Restarts,
            kernel, manager, Goto, Shutdown
<1>1. Shapes /\ OneStart /\ OwnStart
  BY DEF Agree
<1>2. ASSUME srv' = [pc |-> srv'.pc, fds |-> srv'.fds, bit |-> srv'.bit],
             srv'.pc \in {"ended", "open", "dummy", "idle", "addr", "size", "start",
                          "assert"},
             srv'.fds \subseteq Files, srv'.bit \in Bits \cup {None},
             Asking' => srv'.bit \in Bits,
             srv.pc # "wait",
             UNCHANGED <<attr, enc, rcfg, starts, worker, admin, dma, module>>
      PROVE  Rest'
  BY <1>2
<1>3. CASE Start \/ HandleStrayEvent
  BY <1>1, <1>2, <1>3 DEF Start, HandleStrayEvent, Shapes
<1>4. CASE Interrupt \/ HandleEventFails
  <2>1. /\ srv' = [pc |-> "ended", fds |-> {}, bit |-> None]
        /\ UNCHANGED <<attr, enc, rcfg, starts, worker, admin, dma, module>>
        /\ Interrupt \/ (done /\ srv.pc = "wait")
    BY <1>4 DEF Interrupt, HandleEventFails
  <2>2. CASE Interrupt
    BY <1>1, <2>2 DEF Interrupt, Shapes
  <2>3. CASE done /\ srv.pc = "wait"
    BY <1>1, <2>1, <2>3 DEF OwnStart, Shapes
  <2> QED BY <2>1, <2>2, <2>3
<1>5. CASE Open
  <2>1. /\ srv.pc = "open"
        /\ \/ srv'.pc \in {"open", "dummy"} /\ srv'.fds \subseteq Files
           \/ srv'.pc = "down" /\ srv'.fds = {}
        /\ srv'.bit = srv.bit
        /\ UNCHANGED <<attr, enc, rcfg, starts, worker, admin, dma, module>>
    <3>1. PICK i \in DOMAIN Attributes :
            /\ srv.pc = "open"
            /\ \/ srv' = [srv EXCEPT !.fds = @ \cup {Attributes[i]},
                                     !.pc = IF i = Len(Attributes) THEN "dummy" ELSE @]
               \/ srv' = [srv EXCEPT !.fds = @ \ Closed(@), !.pc = "down"]
            /\ UNCHANGED <<attr, enc, rcfg, starts, worker, admin, dma, module>>
      BY <1>5 DEF Open
    <3>2. Attributes[i] \in Files
      BY DEF Attributes, Files
    <3>3. CASE srv' = [srv EXCEPT !.fds = @ \cup {Attributes[i]},
                                  !.pc = IF i = Len(Attributes) THEN "dummy" ELSE @]
      BY <1>1, <3>1, <3>2, <3>3 DEF Shapes
    <3>4. CASE srv' = [srv EXCEPT !.fds = @ \ Closed(@), !.pc = "down"]
      BY <1>1, <3>1, <3>4 DEF Shapes, Closed
    <3> QED BY <3>1, <3>3, <3>4
  <2> QED BY <2>1
<1>6. CASE DummyRead
  <2>1. /\ srv.pc = "dummy"
        /\ \/ srv'.pc = "idle" /\ srv'.fds = srv.fds
           \/ srv'.pc = "down" /\ srv'.fds = {}
        /\ srv'.bit = srv.bit
        /\ UNCHANGED <<attr, enc, rcfg, starts, worker, admin, dma, module>>
    BY <1>1, <1>6 DEF DummyRead, Closed, Shapes
  <2> QED BY <2>1
<1>7. CASE AddrStore \/ SizeStore
  <2>1. /\ \/ /\ srv.pc \in {"addr", "size"} /\ srv'.pc \in {"size", "start"}
              /\ srv'.fds = srv.fds /\ srv'.bit = srv.bit
              /\ attr'.addr \in {attr.addr, srv.bit} /\ attr'.size \in {attr.size, srv.bit}
           \/ /\ srv.pc \in {"addr", "size"} /\ srv'.pc = "ended"
              /\ srv'.fds = {} /\ srv'.bit = None
              /\ UNCHANGED attr
        /\ UNCHANGED <<enc, rcfg, starts, worker, admin, dma, module>>
    BY <1>1, <1>7 DEF AddrStore, SizeStore, Store, Shapes
  <2> QED BY <2>1
<1>8. CASE StartStore
  <2>1. \/ /\ srv.pc = "start" /\ srv'.pc = "wait"
           /\ srv'.fds = srv.fds /\ srv'.bit = srv.bit
           /\ starts' = starts + 1 /\ ~rcfg
           /\ UNCHANGED <<attr, enc, worker, admin, dma, module>>
        \/ /\ srv.pc = "start" /\ srv'.pc = "ended"
           /\ srv'.fds = {} /\ srv'.bit = None
           /\ UNCHANGED <<attr, enc, rcfg, starts, worker, admin, dma, module>>
    BY <1>1, <1>8 DEF StartStore, Refuses, Shapes
  <2>2. ~rcfg => starts = 0
    BY <1>1 DEF Shapes, OneStart
  <2> QED BY <2>1, <2>2
<1>9. CASE HandleEvent
  <2>1. /\ srv.pc = "wait" /\ done
        /\ srv' = [pc |-> "idle", fds |-> srv.fds, bit |-> None]
        /\ UNCHANGED <<attr, enc, rcfg, starts, worker, admin, dma, module, crashed>>
    BY <1>1, <1>9 DEF HandleEvent, Shapes
  <2> QED BY <1>1, <2>1 DEF OwnStart
<1>10. CASE \E b \in Bits : StartProg(b)
  <2>1. PICK b \in Bits : StartProg(b)
    BY <1>10
  <2>2. /\ srv.pc = "idle"
        /\ srv' = [pc |-> "addr", fds |-> srv.fds, bit |-> b]
        /\ UNCHANGED <<attr, enc, rcfg, starts, done, worker, admin, dma, module>>
    BY <1>1, <2>1 DEF StartProg, Shapes
  <2> QED BY <1>2, <2>2
<1> QED BY <1>3, <1>4, <1>5, <1>6, <1>7, <1>8, <1>9, <1>10 DEF Server

LEMMA KernelRest ==
  ASSUME Agree, Rest, world' = world, NEW fail,
         Worker \/ WorkerLoaded(fail) \/ OpsWriteInit \/ TryLock \/ Admin
         \/ Probe \/ Remove \/ Unregister
  PROVE  Rest'
<1> USE DEF Rest, Kinds, NothingOpenWhenDown, Quiet, Busy, Asking, Restarts, kernel, manager
<1>1. Shapes /\ OneStart /\ OwnStart
  BY DEF Agree
<1>2. CASE WorkerCheck \/ WorkerWake \/ WorkerNotify \/ WorkerRearm
  <2>1. UNCHANGED <<srv, attr, enc, admin, dma, module>> /\ worker # "exited"
    BY <1>2 DEF WorkerCheck, WorkerWake, WorkerNotify, WorkerRearm, WorkerAt
  <2>2. Busy'
    BY <1>1, <1>2 DEF WorkerCheck, WorkerWake, WorkerNotify, WorkerRearm, WorkerAt, Rearmed,
                      Pending, Active, Shapes
  <2> QED BY <2>1, <2>2
<1>3. ASSUME WorkerLock \/ \E f : WorkerLoaded(f) PROVE Rest'
  <2>1. /\ UNCHANGED <<srv, attr, enc, rcfg, starts, done, admin, dma, module, crashed>>
        /\ worker \in {"lock", "load"} /\ worker' \in {"load", "notify", "exited"}
    BY <1>3 DEF WorkerLock, WorkerLoaded, WorkerAt
  <2>2. ~Restarts => srv.pc = "wait" /\ ~done
    BY <1>1, <2>1 DEF OwnStart, Pending, Active, Shapes
  <2> QED BY <2>1, <2>2 DEF Pending, Active
<1>4. CASE OpsWriteInit \/ TryLock
  BY <1>4 DEF OpsWriteInit, TryLock, AdminAt, Pending
<1>5. CASE Admin
  <2>1. /\ UNCHANGED <<srv, attr, enc, rcfg, starts, done, worker, module, crashed>>
        /\ admin # "idle" /\ dma' \in {dma, TRUE, FALSE}
    BY <1>5 DEF Admin, AdminStep, AdminClock, AdminReadData, AdminUnlock, Step, AdminAt
  <2>2. dma' \in BOOLEAN
    BY <2>1
  <2>3. Busy' /\ Quiet'
    BY <2>1 DEF Pending
  <2> QED BY <2>1, <2>2, <2>3
<1>6. CASE Probe
  <2>1. PICK i \in DOMAIN ProbeSteps :
          /\ module.pc = "probing"
          /\ module'.pc \in {"probing", "bound", "failed"}
          /\ \/ module'.held = module.held \cup {ProbeSteps[i]} /\ worker' \in {worker, "run"}
             \/ module'.held = Undone(ProbeSteps[i]) /\ UNCHANGED worker
          /\ UNCHANGED <<srv, attr, enc, rcfg, starts, done, admin, dma, crashed>>
    BY <1>6 DEF Probe
  <2>2. module'.held \subseteq Resources
    BY <2>1 DEF Resources, ProbeSteps, Undone
  <2>3. worker = "none"
    BY <1>1, <2>1 DEF OneStart
  <2>4. Busy'
    BY <2>1, <2>3 DEF Pending, Active
  <2> QED BY <2>1, <2>2, <2>4
<1>7. CASE Remove
  BY <1>1, <1>7 DEF Remove, Shapes, Pending
<1>8. CASE Unregister
  BY <1>1, <1>8 DEF Unregister, Stopped, Shapes, Pending
<1> QED BY <1>2, <1>3, <1>4, <1>5, <1>6, <1>7, <1>8 DEF Worker

LEMMA NextRest == Agree /\ Rest /\ [HwNext]_vars => Rest'
<1> SUFFICES ASSUME Agree, Rest, [HwNext]_vars PROVE Rest'
  OBVIOUS
<1>1. ASSUME UNCHANGED <<world, fpga>> PROVE Rest'
  BY <1>1 DEF Rest, Kinds, NothingOpenWhenDown, Quiet, Busy, Pending, Asking, Restarts,
              fpga, kernel, manager
<1>2. ASSUME UNCHANGED vars PROVE Rest'
  BY <1>1, <1>2 DEF vars
<1>3. ASSUME UNCHANGED world, NEW b \in Bits, ConfigureSlot(b) PROVE Rest'
  BY <1>3, ServerRest DEF ConfigureSlot
<1>4. ASSUME UNCHANGED world, SlotConfigured PROVE Rest'
  BY <1>4, ServerRest DEF SlotConfigured
<1>5. ASSUME UNCHANGED world, BitstreamLoaded PROVE Rest'
  BY <1>5, KernelRest DEF BitstreamLoaded
<1>6. ASSUME UNCHANGED world, NEW s \in Slots,
             SlotServer(s) \/ SlotTimeout(s) \/ Hardware(s)
      PROVE  Rest'
  BY <1>1, <1>6 DEF SlotServer, SlotTimeout, Hardware
<1>7. ASSUME UNCHANGED world,
             Start \/ Server \/ HandleEventFails \/ HandleStrayEvent \/ Interrupt
      PROVE  Rest'
  BY <1>7, ServerRest
<1>8. ASSUME UNCHANGED world,
             Worker \/ OpsWriteInit \/ TryLock \/ Admin \/ Probe \/ Remove \/ Unregister
      PROVE  Rest'
  BY <1>8, KernelRest
<1> QED BY <1>2, <1>3, <1>4, <1>5, <1>6, <1>7, <1>8 DEF HwNext, Alone

\* With one server, no encrypted full load and a module that stays, a start is
\* refused only between the notification and the end of the worker's bookkeeping
\* (phy_bit_rcfg_start_store, the end of the loop of rcfg_worker).
THEOREM RefusalsExplained == HwSpec => RefusedOnlyWhileRearming
<1>1. ASSUME Agree, Rest, [HwNext]_vars, srv.pc = "start", srv'.pc = "ended", ~Restarts
      PROVE  enc \/ ~Exported \/ worker \in {"reinit", "clear"}
  <2>1. CASE StartStore
    <3>1. ~Exported \/ Refuses
      BY <1>1, <2>1 DEF StartStore, Agree, Shapes, Goto
    <3>2. attr.addr # None /\ attr.size # None
      BY <1>1, NoneAssumption DEF Agree, Attributed, Rest, Asking
    <3>3. rcfg => worker \in {"reinit", "clear"}
      BY <1>1 DEF Rest, Busy, Agree, OwnStart
    <3> QED BY <3>1, <3>2, <3>3 DEF Refuses
  <2>2. StartStore
    <3> USE <1>1
    <3>1. /\ ~(UNCHANGED srv) /\ srv.pc \notin {"down", "ended", "idle", "wait", "open",
                                              "dummy", "addr", "size"}
      OBVIOUS
    <3>2. ASSUME NEW b \in Bits, ConfigureSlot(b) PROVE FALSE
      BY <3>1, <3>2 DEF ConfigureSlot, StartProg
    <3>3. ASSUME SlotConfigured PROVE FALSE
      BY <3>1, <3>3 DEF SlotConfigured, HandleEvent
    <3>4. ASSUME UNCHANGED fpga PROVE FALSE
      BY <3>1, <3>4 DEF fpga
    <3>5. ASSUME Start \/ Open \/ DummyRead \/ AddrStore \/ SizeStore \/ HandleEventFails
                 \/ HandleStrayEvent \/ Interrupt
          PROVE  FALSE
      BY <3>1, <3>5 DEF Start, Open, DummyRead, AddrStore, SizeStore, Store,
                        HandleEventFails, HandleStrayEvent, Interrupt
    <3>6. ASSUME Worker \/ BitstreamLoaded \/ OpsWriteInit \/ TryLock \/ Admin \/ Probe
                 \/ Remove \/ Unregister
          PROVE  FALSE
      BY <3>1, <3>6 DEF Worker, WorkerCheck, WorkerWake, WorkerLock, WorkerLoaded,
           WorkerNotify, WorkerRearm, BitstreamLoaded, OpsWriteInit, TryLock, Admin,
           AdminStep, AdminUnlock, Probe, Remove, Unregister
    <3>7. ASSUME NEW s \in Slots, SlotServer(s) \/ SlotTimeout(s) \/ Hardware(s)
          PROVE  FALSE
      BY <3>4, <3>7 DEF SlotServer, SlotTimeout, Hardware
    <3>8. ~(UNCHANGED vars)
      BY <3>4 DEF vars
    <3> QED BY <3>2, <3>3, <3>5, <3>6, <3>7, <3>8 DEF HwNext, Alone, Server
  <2> QED BY <2>1, <2>2
<1>2. Agree /\ Rest /\ [HwNext]_vars =>
        [srv.pc = "start" /\ srv'.pc = "ended" =>
             Restarts \/ enc \/ ~Exported \/ worker \in {"reinit", "clear"}]_fpga
  BY <1>1
<1> QED BY <1>2, InitAgrees, NextAgrees, InitRest, NextRest, PTL
        DEF HwSpec, RefusedOnlyWhileRearming

\* A slot that is to be started, computes or has computed is connected.
Connected ==
    /\ apart \subseteq Slots /\ gic \subseteq Slots
    /\ \A s \in Slots : state[s] \in {"RSRV", "EXEC", "IDLE"} => s \notin apart
    /\ Next("IER") \/ Next("GIE") \/ Next("start") => todo[2] \notin apart

LEMMA InitConnected == HwInit => Connected
BY DEF HwInit, S!Init, S!Idle, Connected, Next

LEMMA SlotConnected ==
  ASSUME Device, Connected, NEW s \in Slots,
         \/ S!Server(s) \/ S!Decouple(s) \/ S!Reinit(s) \/ S!Disable(s)
         \/ S!Loaded(s) \/ S!Finish(s) \/ S!Interrupt(s)
  PROVE  Connected'
<1> USE DEF Connected
<1>1. Typed /\ Progress(todo[2])
  BY DEF Device
<1>2. CASE S!Skip(s)
  <2>1. /\ state[s] = "IDLE" /\ todo' = << <<"start">>, s>>
        /\ state' = [state EXCEPT ![s] = "RSRV"] /\ UNCHANGED <<apart, gic>>
    BY <1>2 DEF S!Skip, S!Then
  <2> QED BY <1>1, <2>1 DEF Typed, Next
<1>3. CASE S!SlotComplete(s) \/ S!SlotAsserts(s)
  <2>1. /\ todo'[1] \in {<<"read", "ISR", "clear_gic">>, <<"abort">>}
        /\ UNCHANGED <<state, apart, gic>>
    BY <1>3 DEF S!SlotComplete, S!SlotAsserts, S!Then, S!AfterCompute
  <2> QED BY <2>1 DEF Next
<1>4. CASE S!Reinit(s)
  <2>1. /\ state' = [state EXCEPT ![s] = "READY"] /\ UNCHANGED <<apart, gic>>
        /\ todo'[1] = <<"couple", "IER", "GIE", "start">>
    BY <1>4 DEF S!Reinit, S!Then, S!AfterRcfg
  <2> QED BY <1>1, <2>1 DEF Typed, Next
<1>5. CASE S!Decouple(s) \/ S!Disable(s)
  <2>1. /\ todo = S!Idle /\ UNCHANGED <<todo, gic>> /\ apart' = apart \cup {s}
        /\ state' \in {[state EXCEPT ![s] = "RCFG"], [state EXCEPT ![s] = "BLANK"]}
    BY <1>5 DEF S!Decouple, S!Disable, S!Waiting, S!AfterTimeout, S!Isolated
  <2> QED BY <1>1, <2>1 DEF Typed, Next, S!Idle
<1>6. CASE S!Loaded(s) \/ S!Finish(s) \/ S!Interrupt(s)
  <2>1. UNCHANGED <<state, todo, apart>> /\ gic' \subseteq gic
    BY <1>6 DEF S!Loaded, S!Finish, S!Interrupt
  <2> QED BY <2>1 DEF Next
<1>7. CASE S!Couple(s)
  <2>1. Next("couple") /\ todo[2] = s /\ S!Go(s) /\ apart' = apart \ {s}
        /\ UNCHANGED <<state, gic>>
    BY <1>7 DEF S!Couple, S!Does, Next
  <2>2. todo' = << <<"IER", "GIE", "start">>, s>>
    BY <1>1, <2>1, Follows DEF Typed
  <2> QED BY <2>1, <2>2
<1>8. CASE S!EnableIrq(s)
  <2>1. /\ Next("IER") \/ Next("GIE")
        /\ todo[2] = s /\ S!Go(s) /\ UNCHANGED <<state, apart, gic>>
    BY <1>8 DEF S!EnableIrq, S!Does, Next
  <2>2. todo'[2] = s
    BY <1>1, <2>1, Follows DEF Typed
  <2> QED BY <2>1, <2>2
<1>9. CASE S!StartCompute(s)
  <2>1. /\ Next("start") /\ todo[2] = s /\ S!Go(s)
        /\ state' = [state EXCEPT ![s] = "EXEC"] /\ UNCHANGED <<apart, gic>>
    BY <1>9 DEF S!StartCompute, S!Does, Next
  <2>2. todo' = S!Idle
    BY <1>1, <2>1, Follows DEF Typed
  <2> QED BY <1>1, <2>1, <2>2 DEF Typed, Next, S!Idle
<1>10. CASE S!ReadForIrq(s) \/ S!ClearIsr(s) \/ S!ClearGic(s)
  <2>1. /\ Next("read") \/ Next("ISR") \/ Next("clear_gic")
        /\ todo[2] = s /\ S!Go(s) /\ UNCHANGED apart /\ gic' \subseteq gic \cup {s}
        /\ state' \in {state, [state EXCEPT ![s] = "IDLE"]}
    BY <1>10 DEF S!ReadForIrq, S!ClearIsr, S!ClearGic, S!Does, S!LastStep, Next
  <2>2. todo'[1] \in {<<"ISR", "clear_gic">>, <<"clear_gic">>, << >>}
    BY <1>1, <2>1, Follows DEF Typed, S!Idle
  <2>3. state[s] = "EXEC"
    BY <1>1, <2>1 DEF Progress
  <2>4. ~(Next("IER") \/ Next("GIE") \/ Next("start"))'
    BY <2>2 DEF Next
  <2> QED BY <1>1, <2>1, <2>3, <2>4 DEF Typed
<1> QED BY <1>2, <1>3, <1>4, <1>5, <1>6, <1>7, <1>8, <1>9, <1>10 DEF S!Server, S!Handler

LEMMA NextConnected ==
  Agree /\ Device /\ Renewed /\ Connected /\ [HwNext]_vars => Connected'
<1> SUFFICES ASSUME Agree, Device, Renewed, Connected, [HwNext]_vars PROVE Connected'
  OBVIOUS
<1>1. ASSUME UNCHANGED registers PROVE Connected'
  BY <1>1 DEF registers, Connected, Next
<1>2. ASSUME UNCHANGED vars PROVE Connected'
  BY <1>1, <1>2 DEF vars
<1>3. ASSUME NEW b \in Bits, ConfigureSlot(b) PROVE Connected'
  BY <1>1, <1>3, SlotConnected DEF ConfigureSlot, Slots
<1>4. ASSUME SlotConfigured PROVE Connected'
  <2>1. world.slots => SlotOf[srv.bit] \in Slots
    BY <1>4 DEF SlotConfigured, HandleEvent, Renewed, Asking, Slots
  <2> QED BY <1>1, <1>4, <2>1, SlotConnected DEF SlotConfigured
<1>5. ASSUME BitstreamLoaded PROVE Connected'
  BY <1>5 DEF BitstreamLoaded, S!Loaded, registers, Connected, Next
<1>6. ASSUME NEW s \in Slots, SlotServer(s) \/ SlotTimeout(s) \/ Hardware(s)
      PROVE  Connected'
  BY <1>6, SlotConnected DEF SlotServer, SlotTimeout, Hardware
<1> QED BY <1>1, <1>2, <1>3, <1>4, <1>5, <1>6 DEF HwNext, Alone

\* Types; a slot that computes is connected; a driver that is down has nothing open;
\* nobody is left inside a module that is gone (devcfg_drv_fpga_mgr_init, decoup_drv_*,
\* zynqmp_fpga_remove).
THEOREM HwInvariant == HwSpec => []HwInv
<1>1. ASSUME Agree, ClockInv, Device, Connected, Rest PROVE HwInv
  <2>1. TypeOK
    <3>1. attr \in [addr : Bits \cup {None}, size : Bits \cup {None}]
      BY <1>1 DEF Agree, Shapes, Rest, Kinds
    <3>2. Resources = {ProbeSteps[i] : i \in DOMAIN ProbeSteps}
      BY DEF Resources, ProbeSteps
    <3>3. worker \in {"none", "run", "wait", "lock", "load", "notify", "reinit",
                      "clear", "exited"}
      BY <1>1 DEF Agree, Shapes, Active
    <3>4. {enc, rcfg, done, dma, crashed} \subseteq BOOLEAN /\ starts \in 0 .. 1
      BY <1>1 DEF Agree, Shapes, Rest, Kinds
    <3>5. lock \in {None, "worker", "admin"} /\ clk \in Clock
      BY <1>1 DEF ClockInv, Locked, ClockAt
    <3> QED BY <1>1, <3>1, <3>2, <3>3, <3>4, <3>5 DEF TypeOK, Rest, Kinds, Files
  <2>2. S!TypeOK
    BY <1>1 DEF S!TypeOK, Device, Typed, Registers, Connected
  <2>3. world \in Worlds /\ NothingOpenWhenDown /\ RemovedIsQuiet
    BY <1>1 DEF Agree, Shapes, Rest, Quiet, RemovedIsQuiet
  <2> QED BY <2>1, <2>2, <2>3 DEF HwInv, HwTypeOK
<1> QED BY <1>1, InitAgrees, NextAgrees, InitClock, NextClock, InitLost, NextLost,
           InitDevice, InitRenewed, NextRenewed, InitConnected, NextConnected, InitRest, NextRest, PTL DEF HwSpec

=============================================================================
