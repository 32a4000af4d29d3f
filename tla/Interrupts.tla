----------------------------- MODULE Interrupts -----------------------------
(***************************************************************************)
(* Interrupts from the device to the handler and back: idt_init of          *)
(* src/drivers/idt.c, the stubs of src/drivers/isr.asm, and the boot        *)
(* sequence of kernel_main around them, with two external 8259 PICs and a   *)
(* CPU that looks for interrupts between any two steps while IF is set.     *)
(*                                                                         *)
(* IRQs 0..7 are the master's, 8..15 the slave's, and the slave's output is *)
(* the master's IRQ 2.  A request is latched on the rising edge of its      *)
(* line.  A line that falls before the request is acknowledged may take the *)
(* request with it, and the PIC then answers with its lowest IRQ: a         *)
(* spurious IRQ 7 or 15, which is not in service.                           *)
(***************************************************************************)
EXTENDS Integers, Sequences

CONSTANTS
    Irqs,         \* the IRQs that devices raise
    MaxRequests   \* bound on the edges of a behaviour

Master == 0..7
Slave == 8..15
Cascade == 2

ASSUME InterruptsAssumption ==
    /\ Irqs \subseteq (Master \cup Slave) \ {Cascade}
    /\ MaxRequests \in Nat

VARIABLES
    pc,            \* how far kernel_main has got
    window,        \* what the adapter shows at: "text" 0xB8000, "graphics" 0xA0000
    enabled,       \* the interrupt flag
    idt,           \* which vectors have a gate
    irq_handlers,  \* [IRQ -> what irq_register_handler put there]
    frames,        \* the interrupts under way, the innermost last
    line,          \* the IRQ lines that are high
    irr,           \* the PICs' latched requests
    isr,           \* the PICs' IRQs in service
    gone,          \* PICs that signalled a request that has gone since
    requests       \* how many edges there have been

cpuVars == <<pc, window, enabled, idt, irq_handlers, frames>>
picVars == <<line, irr, isr, gone, requests>>
vars == <<cpuVars, picVars>>

Init ==
    /\ pc = "start"
    /\ window = "text"
    /\ enabled = FALSE
    /\ idt = {}
    /\ irq_handlers = [i \in Master \cup Slave |-> "none"]
    /\ frames = <<>>
    /\ line = {}
    /\ irr = {}
    /\ isr = {}
    /\ gone = {}
    /\ requests = 0

-----------------------------------------------------------------------------
(* Devices.                                                                *)

Raise(i) ==
    /\ i \notin line
    /\ requests < MaxRequests
    /\ requests' = requests + 1
    /\ line' = line \cup {i}
    /\ irr' = irr \cup {i}
    /\ UNCHANGED <<cpuVars, isr, gone>>

\* A device lowers its line by itself, or because the main program polls it.
\* Once the kernel runs, only the handler reads the keyboard's byte.
Withdraw(i) ==
    /\ i \in line
    /\ i = 1 => pc # "running"
    /\ line' = line \ {i}
    /\ \/ UNCHANGED <<irr, gone>>
       \/ /\ i \in irr
          /\ irr' = irr \ {i}
          /\ gone' = gone \cup {IF i \in Master THEN "master" ELSE "slave"}
    /\ UNCHANGED <<cpuVars, isr, requests>>

-----------------------------------------------------------------------------
(* kernel_main up to its loop.                                             *)

vga_init ==
    /\ pc = "start"
    /\ window' = "graphics"
    /\ pc' = "vga"
    /\ UNCHANGED <<enabled, idt, irq_handlers, frames, picVars>>

\* pic_remap: ICW1 clears requests and services and waits for new edges; the
\* masks are cleared.  isr_install: gates for 48 vectors.
idt_init ==
    /\ pc = "vga"
    /\ irr' = {}
    /\ isr' = {}
    /\ gone' = {}
    /\ idt' = 0..47
    /\ pc' = "idt"
    /\ UNCHANGED <<window, enabled, irq_handlers, frames, line, requests>>

\* Mutant: the output buffer is not drained.
keyboard_init_undrained ==
    /\ pc = "idt"
    /\ irq_handlers' = [irq_handlers EXCEPT ![1] = "keyboard_handler"]
    /\ pc' = "keyboard"
    /\ UNCHANGED <<window, enabled, idt, frames, picVars>>

\* The output buffer is drained, so that the line is low.
keyboard_init ==
    /\ pc = "idt"
    /\ line' = line \ {1}
    /\ irq_handlers' = [irq_handlers EXCEPT ![1] = "keyboard_handler"]
    /\ pc' = "keyboard"
    /\ UNCHANGED <<window, enabled, idt, frames, irr, isr, gone, requests>>

\* After the speaker and the disk.
sti ==
    /\ pc = "keyboard"
    /\ enabled' = TRUE
    /\ pc' = "running"
    /\ UNCHANGED <<window, idt, irq_handlers, frames, picVars>>

-----------------------------------------------------------------------------
(* An interrupt is taken.                                                  *)

\* Where the PICs send IRQ i.
VectorOf(i) == 32 + i

\* The IRQs of a chip that it may signal: none while one of at least that
\* priority is in service.
Deliverable(chip, req) ==
    {i \in req \cap chip : \A j \in isr \cap chip : i < j}

First(S) == {i \in S : \A j \in S : i <= j}

SlaveSignals == Deliverable(Slave, irr) # {}
MasterRequests == irr \cup (IF SlaveSignals \/ "slave" \in gone THEN {Cascade} ELSE {})
Chosen == First(Deliverable(Master, MasterRequests))

\* A gate of type 0x8E clears IF.  Mutant: 0x8F does not.
EnabledAfterTrapGate == enabled
EnabledAfterGate == FALSE

\* bits: what the PICs put in service for this interrupt.
Enter(i, bits) ==
    /\ VectorOf(i) \in idt
    /\ frames' = Append(frames, [vector |-> VectorOf(i), enabled |-> enabled, at |-> "dispatch",
                                 bits |-> bits])
    /\ enabled' = EnabledAfterGate
    /\ isr' = isr \cup bits
    /\ UNCHANGED <<pc, window, idt, irq_handlers, line, requests>>

Acknowledge(i) ==
    /\ enabled
    /\ pc # "panic"
    /\ \/ /\ i \in Chosen \ {Cascade}
          /\ Enter(i, {i})
       \/ /\ Cascade \in Chosen
          /\ i \in First(Deliverable(Slave, irr))
          /\ Enter(i, {Cascade, i})
    /\ irr' = irr \ {i}
    /\ UNCHANGED gone

Spurious ==
    /\ enabled
    /\ pc # "panic"
    /\ irr' = irr
    /\ \/ /\ "master" \in gone
          /\ Deliverable(Master, MasterRequests) = {}
          /\ gone' = gone \ {"master"}
          /\ Enter(7, {})
       \/ /\ "slave" \in gone
          /\ Cascade \in Chosen
          /\ ~SlaveSignals
          /\ gone' = gone \ {"slave"}
          /\ Enter(15, {Cascade})

-----------------------------------------------------------------------------
(* The stub of the vector, irq_common_stub and irq_handler.                 *)

Top == frames[Len(frames)]

Goes(to) == frames' = [frames EXCEPT ![Len(frames)].at = to]

\* cmp eax, 40.  Mutant: off by one.
AfterFirstOfSlave(vector) == vector > 40
FromSlave(vector) == vector >= 40

\* Mutant: the end of a slave interrupt is reported to the slave only.
OnlySlave(vector) == "iret"
AfterEoiSlave(vector) == "eoi_master"

\* The handler of the keyboard reads port 0x60, which lowers the line.
irq_handler ==
    /\ frames # <<>> /\ pc # "panic"
    /\ Top.at = "dispatch"
    /\ line' = IF irq_handlers[Top.vector - 32] = "keyboard_handler"
               THEN line \ {1} ELSE line
    /\ Goes(IF FromSlave(Top.vector) THEN "eoi_slave" ELSE "eoi_master")
    /\ UNCHANGED <<pc, window, enabled, idt, irq_handlers,
                   irr, isr, gone, requests>>

\* A non-specific EOI ends the first of the chip's IRQs in service.
EoiSlave ==
    /\ frames # <<>> /\ pc # "panic"
    /\ Top.at = "eoi_slave"
    /\ isr' = isr \ First(isr \cap Slave)
    /\ Goes(AfterEoiSlave(Top.vector))
    /\ UNCHANGED <<pc, window, enabled, idt, irq_handlers,
                   line, irr, gone, requests>>

EoiMaster ==
    /\ frames # <<>> /\ pc # "panic"
    /\ Top.at = "eoi_master"
    /\ isr' = isr \ First(isr \cap Master)
    /\ Goes("iret")
    /\ UNCHANGED <<pc, window, enabled, idt, irq_handlers,
                   line, irr, gone, requests>>

iret ==
    /\ frames # <<>> /\ pc # "panic"
    /\ Top.at = "iret"
    /\ enabled' = Top.enabled
    /\ frames' = SubSeq(frames, 1, Len(frames) - 1)
    /\ UNCHANGED <<pc, window, idt, irq_handlers, picVars>>

\* A fault, in the main program or in a handler: isr_handler writes its report
\* to text memory and halts with interrupts off.
isr_handler ==
    /\ idt # {} /\ pc # "panic"
    /\ pc' = "panic"
    /\ enabled' = FALSE
    /\ UNCHANGED <<window, idt, irq_handlers, frames, picVars>>

-----------------------------------------------------------------------------
Boot == vga_init \/ idt_init \/ keyboard_init \/ sti
Deliver == Spurious \/ \E i \in Irqs : Acknowledge(i)
Serve == irq_handler \/ EoiSlave \/ EoiMaster \/ iret

Next ==
    \/ \E i \in Irqs : Raise(i) \/ Withdraw(i)
    \/ Boot
    \/ Deliver
    \/ Serve
    \/ isr_handler

Spec == Init /\ [][Next]_vars

\* The CPU takes the interrupts that are signalled, and runs their stubs.
Fairness == WF_vars(Boot) /\ WF_vars(Deliver) /\ WF_vars(Serve)

FairSpec == Spec /\ Fairness

-----------------------------------------------------------------------------
(* Properties.                                                             *)

Frames == [vector : 32..47, enabled : BOOLEAN,
           at : {"dispatch", "eoi_slave", "eoi_master", "iret"},
           bits : SUBSET (Master \cup Slave)]

\* Only hardware vectors reach the IRQ stubs, and the sets hold IRQs.
TypeOK ==
    /\ pc \in {"start", "vga", "idt", "keyboard", "running", "panic"}
    /\ window \in {"text", "graphics"}
    /\ enabled \in BOOLEAN
    /\ idt \subseteq 0..255
    /\ irq_handlers \in [Master \cup Slave -> {"none", "keyboard_handler"}]
    /\ frames \in Seq(Frames)
    /\ line \subseteq Irqs
    /\ irr \subseteq Irqs
    /\ isr \subseteq Master \cup Slave
    /\ gone \subseteq {"master", "slave"}
    /\ requests \in 0..MaxRequests

\* A handler is never interrupted by another one: this is why keyboard_handler
\* may be taken for one step, and why the shared ring needs no lock.
OneAtATime ==
    /\ Len(frames) <= 1
    /\ frames # <<>> => ~enabled

\* What a frame has still in service.
Remaining(f) ==
    {b \in f.bits : f.at # "iret" /\ (f.at = "eoi_master" => b \notin Slave)}

\* The EOIs, which do not say what they end, end what this interrupt put in
\* service and nothing else, spurious interrupts included: an IRQ left in
\* service would shut out all below it for good.
ServiceMatches ==
    isr = IF frames = <<>> THEN {} ELSE Remaining(frames[1])

\* The keyboard does not go dead: while a byte waits in the controller and the
\* kernel runs, its request is latched or its handler is about to read it.  The
\* request is an edge: one that is lost does not come back.
KeyboardAlive ==
    pc = "running" /\ 1 \in line =>
        \/ 1 \in irr
        \/ frames # <<>> /\ Top.vector = 33 /\ Top.at = "dispatch"

\* Every request is acknowledged in the end, or withdrawn, or the kernel panics.
EveryRequestServed ==
    \A i \in Irqs : i \in irr ~> i \notin irr \/ pc = "panic"

\* "Clear screen to bright red with white text": the report of isr_handler is
\* written to where the adapter shows it.  It never is, since vga_init comes
\* before idt_init and moves the window to 0xA0000.
PanicVisible == pc = "panic" => window = "text"
=============================================================================
