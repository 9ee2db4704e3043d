----------------------------- MODULE SlotDevice -----------------------------
(***************************************************************************)
(* A slot at the level of its registers: slot_drv_master.c drives the       *)
(* accelerator and its interrupt registers, decoup_drv_xil.c the decoupler, *)
(* uio_drv.c the device file through which the kernel reports an interrupt. *)
(* The server's thread takes several steps for what FredSched takes in one, *)
(* and the hardware moves between any two of them.                          *)
(***************************************************************************)
EXTENDS Naturals, Sequences

CONSTANT
    Slots   \* slots of the FPGA

VARIABLES
    state,   \* of struct slot
    regs,    \* each accelerator: [start (AP_CTRL), IER, GIE, ISR]
    apart,   \* slots whose decoupler register is 1
    gic,     \* slots whose interrupt is enabled at the interrupt controller
    event,   \* slots whose UIO file is readable
    todo     \* what the server's handler still has to do: <<steps, slot>>

Off == [start |-> FALSE, IER |-> FALSE, GIE |-> FALSE, ISR |-> FALSE]
Idle == << << >>, 0 >>

\* uio_dev_init; the kernel has enabled the interrupt.
Init ==
    /\ state = [s \in Slots |-> "BLANK"]
    /\ regs = [s \in Slots |-> Off]
    /\ apart = {}
    /\ gic = Slots
    /\ event = {}
    /\ todo = Idle

-----------------------------------------------------------------------------
(* The server's thread.                                                    *)

Waiting == todo = Idle

Does(op, s) == todo[1] # << >> /\ Head(todo[1]) = op /\ todo[2] = s

Then(rest, s) == todo' = IF rest = << >> THEN Idle ELSE <<rest, s>>

Go(s) == Then(Tail(todo[1]), s)

\* (wrong: the slot is left connected while it is reconfigured)
NotIsolated(s) == apart

\* decoup_drv_decouple
Isolated(s) == apart \cup {s}

\* slot_set_reserved and slot_prepare_for_rcfg: the FPGA is reconfigured.
Decouple(s) ==
    /\ Waiting
    /\ state[s] \in {"BLANK", "IDLE"}
    /\ apart' = Isolated(s)
    /\ state' = [state EXCEPT ![s] = "RCFG"]
    /\ UNCHANGED <<regs, gic, event, todo>>

\* slot_reinit_after_rcfg with slot_drv_master_after_rcfg_, then
\* slot_drv_master_start_compute_.
AfterRcfg == <<"couple", "IER", "GIE", "start">>

\* A bound: the event loop runs at least once while an FPGA is reconfigured, so
\* an event that a slot left behind is handled (SlotAsserts) before the end.
LoopHasRun(s) == s \notin event

Reinit(s) ==
    /\ Waiting
    /\ state[s] = "RCFG"
    /\ LoopHasRun(s)
    /\ state' = [state EXCEPT ![s] = "READY"]
    /\ Then(AfterRcfg, s)
    /\ UNCHANGED <<regs, apart, gic, event>>

\* A slot that holds the hardware task already is started at once.
Skip(s) ==
    /\ Waiting
    /\ state[s] = "IDLE"
    /\ state' = [state EXCEPT ![s] = "RSRV"]
    /\ Then(<<"start">>, s)
    /\ UNCHANGED <<regs, apart, gic, event>>

Couple(s) ==
    /\ Does("couple", s)
    /\ apart' = apart \ {s}
    /\ Go(s)
    /\ UNCHANGED <<state, regs, gic, event>>

EnableIrq(s) ==
    \E r \in {"IER", "GIE"} :
        /\ Does(r, s)
        /\ regs' = [regs EXCEPT ![s][r] = TRUE]
        /\ Go(s)
        /\ UNCHANGED <<state, apart, gic, event>>

\* A module that is not ready makes start_compute_ fail, and the server stop.
StartCompute(s) ==
    /\ Does("start", s)
    /\ ~regs[s].start
    /\ regs' = [regs EXCEPT ![s].start = TRUE]
    /\ state' = [state EXCEPT ![s] = "EXEC"]
    /\ Go(s)
    /\ UNCHANGED <<apart, gic, event>>

\* (wrong: the controller is told before the accelerator)
AfterComputeSwapped == <<"read", "clear_gic", "ISR">>

\* (wrong: the controller is not told)
AfterComputeNoGic == <<"read", "ISR">>

\* slot_drv_master_after_compute_
AfterCompute == <<"read", "ISR", "clear_gic">>

SlotComplete(s) ==
    /\ Waiting
    /\ s \in event
    /\ state[s] = "EXEC"
    /\ Then(AfterCompute, s)
    /\ UNCHANGED <<state, regs, apart, gic, event>>

\* The event of a slot that does not compute: an assertion of slot.h fails,
\* and nothing is done any more.
SlotAsserts(s) ==
    /\ Waiting
    /\ s \in event
    /\ state[s] # "EXEC"
    /\ Then(<<"abort">>, s)
    /\ UNCHANGED <<state, regs, apart, gic, event>>

\* After the last step slot_clear_after_compute makes the slot IDLE.
LastStep(s) ==
    state' = IF Len(todo[1]) = 1 THEN [state EXCEPT ![s] = "IDLE"] ELSE state

ReadForIrq(s) ==
    /\ Does("read", s)
    /\ s \in event
    /\ event' = event \ {s}
    /\ LastStep(s) /\ Go(s)
    /\ UNCHANGED <<regs, apart, gic>>

ClearIsr(s) ==
    /\ Does("ISR", s)
    /\ regs' = [regs EXCEPT ![s].ISR = FALSE]
    /\ LastStep(s) /\ Go(s)
    /\ UNCHANGED <<apart, gic, event>>

ClearGic(s) ==
    /\ Does("clear_gic", s)
    /\ gic' = gic \cup {s}
    /\ LastStep(s) /\ Go(s)
    /\ UNCHANGED <<regs, apart, event>>

\* "Set blank to avoid reuse and force a new reconfiguration"
AfterTimeout == "BLANK"

\* slot_disable_after_timeout
Disable(s) ==
    /\ Waiting
    /\ state[s] = "EXEC"
    /\ apart' = Isolated(s)
    /\ state' = [state EXCEPT ![s] = AfterTimeout]
    /\ UNCHANGED <<regs, gic, event, todo>>

-----------------------------------------------------------------------------
(* The hardware and the kernel.                                            *)

\* The bitstream is loaded: a new accelerator, whatever the old one was doing.
Loaded(s) ==
    /\ regs' = [regs EXCEPT ![s] = Off]
    /\ UNCHANGED <<state, apart, gic, event, todo>>

\* The accelerator finishes.  One behind a closed decoupler may go on, but is
\* not heard.
Finish(s) ==
    /\ regs[s].start
    /\ regs' = [regs EXCEPT ![s].start = FALSE, ![s].ISR = @ \/ regs[s].IER]
    /\ UNCHANGED <<state, apart, gic, event, todo>>

Line(s) == s \notin apart /\ regs[s].GIE /\ regs[s].ISR

\* The kernel's handler disables the interrupt and makes the file readable.
Interrupt(s) ==
    /\ s \in gic
    /\ Line(s)
    /\ gic' = gic \ {s}
    /\ event' = event \cup {s}
    /\ UNCHANGED <<state, regs, apart, todo>>

Handler(s) ==
    \/ Couple(s) \/ EnableIrq(s) \/ StartCompute(s)
    \/ ReadForIrq(s) \/ ClearIsr(s) \/ ClearGic(s)

Server(s) ==
    \/ Skip(s) \/ SlotComplete(s) \/ SlotAsserts(s) \/ Handler(s)

-----------------------------------------------------------------------------
(* Properties.                                                             *)

TypeOK ==
    /\ state \in [Slots -> {"BLANK", "RSRV", "RCFG", "READY", "EXEC", "IDLE"}]
    /\ regs \in [Slots -> [start : BOOLEAN, IER : BOOLEAN, GIE : BOOLEAN, ISR : BOOLEAN]]
    /\ apart \subseteq Slots /\ gic \subseteq Slots /\ event \subseteq Slots
    /\ \A s \in Slots : state[s] \in {"EXEC", "IDLE"} => s \notin apart
=============================================================================
