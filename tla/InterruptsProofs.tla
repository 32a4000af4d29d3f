-------------------------- MODULE InterruptsProofs --------------------------
(* Interrupts: one handler at a time, every EOI ends its own interrupt, the  *)
(* keyboard stays alive, no IRQ is shut out and every burst ends, for all    *)
(* devices and any number of requests.                                      *)
EXTENDS Interrupts, TLAPS, FiniteSetTheorems, WellFoundedInduction

\* Interrupts are enabled, and taken, only once the kernel runs.
OnlyWhenRunning ==
    /\ enabled => pc = "running"
    /\ frames # <<>> => pc \in {"running", "panic"}

\* What the PICs put in service for one interrupt: one IRQ of the master, with
\* one of the slave's if it is the cascade; the last IRQ is missing if it is
\* spurious.
FrameShape(f) ==
    /\ f.enabled = TRUE
    /\ \/ /\ f.vector < 40
          /\ f.at # "eoi_slave"
          /\ \E i \in Master : f.bits \in {{}, {i}}
       \/ /\ f.vector >= 40
          /\ \E i \in Slave : f.bits \in {{Cascade}, {Cascade, i}}

ServiceInv ==
    /\ TypeOK
    /\ OneAtATime
    /\ ServiceMatches
    /\ OnlyWhenRunning
    /\ frames # <<>> => FrameShape(frames[1])

LEMMA InitService == Init => ServiceInv
<1> SUFFICES ASSUME Init PROVE ServiceInv
  OBVIOUS
<1>1. frames = <<>> /\ ~enabled /\ isr = {}
  BY DEF Init
<1>2. requests \in 0..MaxRequests
  BY InterruptsAssumption DEF Init
<1>3. frames \in Seq(Frames)
  BY <1>1
<1>4. TypeOK
  BY <1>2, <1>3 DEF Init, TypeOK
<1>5. QED
  BY <1>1, <1>4 DEF ServiceInv, OneAtATime, ServiceMatches, OnlyWhenRunning

-----------------------------------------------------------------------------
(* The PICs' choice.                                                       *)

LEMMA FirstOfOne == \A i \in Int : First({i}) = {i}
  BY DEF First

LEMMA FirstOfNone == First({}) = {}
  BY DEF First

LEMMA ChosenIsMaster ==
    ASSUME TypeOK
    PROVE  Chosen \subseteq Master
  BY DEF Chosen, First, Deliverable

LEMMA AcknowledgedIsSlave ==
    First(Deliverable(Slave, irr)) \subseteq Slave
  BY DEF First, Deliverable

-----------------------------------------------------------------------------
(* Devices and boot.                                                       *)

LEMMA RaiseService ==
    ASSUME ServiceInv, NEW i \in Irqs, Raise(i)
    PROVE  ServiceInv'
<1>1. TypeOK'
  BY InterruptsAssumption DEF ServiceInv, TypeOK, Raise, cpuVars
<1>2. QED
  BY <1>1 DEF ServiceInv, OneAtATime, ServiceMatches, OnlyWhenRunning, Raise, cpuVars,
              Remaining, FrameShape

LEMMA WithdrawService ==
    ASSUME ServiceInv, NEW i \in Irqs, Withdraw(i)
    PROVE  ServiceInv'
<1>1. TypeOK'
  BY DEF ServiceInv, TypeOK, Withdraw, cpuVars
<1>2. QED
  BY <1>1 DEF ServiceInv, OneAtATime, ServiceMatches, OnlyWhenRunning, Withdraw, cpuVars,
              Remaining, FrameShape

LEMMA BootService ==
    ASSUME ServiceInv, Boot
    PROVE  ServiceInv'
<1>1. CASE vga_init
  BY <1>1 DEF ServiceInv, TypeOK, OneAtATime, ServiceMatches, OnlyWhenRunning, vga_init,
              picVars, Remaining, FrameShape
<1>2. CASE idt_init
  <2>1. frames = <<>>
    BY <1>2 DEF ServiceInv, OnlyWhenRunning, idt_init
  <2>2. TypeOK'
    BY <1>2 DEF ServiceInv, TypeOK, idt_init
  <2>3. QED
    BY <1>2, <2>1, <2>2 DEF ServiceInv, OneAtATime, ServiceMatches, OnlyWhenRunning, idt_init
<1>3. CASE keyboard_init
  <2>1. frames = <<>>
    BY <1>3 DEF ServiceInv, OnlyWhenRunning, keyboard_init
  <2>2. TypeOK'
    BY <1>3 DEF ServiceInv, TypeOK, keyboard_init
  <2>3. QED
    BY <1>3, <2>1, <2>2 DEF ServiceInv, OneAtATime, ServiceMatches, OnlyWhenRunning,
                            keyboard_init
<1>4. CASE sti
  <2>1. frames = <<>>
    BY <1>4 DEF ServiceInv, OnlyWhenRunning, sti
  <2>2. TypeOK'
    BY <1>4 DEF ServiceInv, TypeOK, sti, picVars
  <2>3. QED
    BY <1>4, <2>1, <2>2 DEF ServiceInv, OneAtATime, ServiceMatches, OnlyWhenRunning, sti,
                            picVars
<1>5. QED
  BY <1>1, <1>2, <1>3, <1>4 DEF Boot

-----------------------------------------------------------------------------
(* An interrupt is taken: none is under way, so none is in service.          *)

LEMMA QuietWhenEnabled ==
    ASSUME ServiceInv, enabled
    PROVE  /\ frames = <<>>
           /\ isr = {}
           /\ pc = "running"
  BY DEF ServiceInv, OneAtATime, ServiceMatches, OnlyWhenRunning

\* What Enter leaves behind, in a form that every case can use.
LEMMA EnterService ==
    ASSUME ServiceInv, enabled,
           NEW i \in Master \cup Slave, NEW bits, Enter(i, bits),
           \/ i \in Master /\ \E j \in Master : bits \in {{}, {j}}
           \/ i \in Slave /\ \E j \in Slave : bits \in {{Cascade}, {Cascade, j}},
           irr' \subseteq irr, gone' \subseteq gone
    PROVE  ServiceInv'
<1> DEFINE f == [vector |-> VectorOf(i), enabled |-> enabled, at |-> "dispatch", bits |-> bits]
<1>1. frames = <<>> /\ isr = {} /\ pc = "running"
  BY QuietWhenEnabled
<1>2. bits \subseteq Master \cup Slave
  BY DEF Master, Slave, Cascade
<1>3. VectorOf(i) \in 32..47 /\ (VectorOf(i) < 40 <=> i \in Master)
  BY DEF VectorOf, Master, Slave
<1>4. f \in Frames
  BY <1>2, <1>3 DEF Frames, ServiceInv, TypeOK
<1>5. frames' = <<f>>
  BY <1>1 DEF Enter
<1>6. isr' = bits
  BY <1>1 DEF Enter
<1>7. TypeOK'
  <2>1. frames' \in Seq(Frames)
    BY <1>4, <1>5
  <2>2. QED
    BY <1>2, <1>6, <2>1 DEF ServiceInv, TypeOK, Enter, EnabledAfterGate
<1>8. OneAtATime'
  <2>1. enabled' = FALSE
    BY DEF Enter, EnabledAfterGate
  <2>2. Len(frames') = 1
    BY <1>5
  <2>3. QED
    BY <2>1, <2>2 DEF OneAtATime
<1>9. ServiceMatches'
  BY <1>5, <1>6 DEF ServiceMatches, Remaining
<1>10. OnlyWhenRunning'
  BY <1>1 DEF OnlyWhenRunning, Enter, EnabledAfterGate
<1>11. FrameShape(f)
  BY <1>3 DEF FrameShape, Master, Slave
<1>12. QED
  BY <1>5, <1>7, <1>8, <1>9, <1>10, <1>11 DEF ServiceInv

LEMMA AcknowledgeService ==
    ASSUME ServiceInv, NEW i \in Irqs, Acknowledge(i)
    PROVE  ServiceInv'
<1>1. enabled /\ irr' \subseteq irr /\ gone' \subseteq gone
  BY DEF Acknowledge
<1>2. CASE i \in Chosen \ {Cascade} /\ Enter(i, {i})
  <2>1. i \in Master
    BY <1>2, ChosenIsMaster DEF ServiceInv
  <2>2. QED
    BY <1>1, <1>2, <2>1, EnterService
<1>3. CASE i \in First(Deliverable(Slave, irr)) /\ Enter(i, {Cascade, i})
  <2>1. i \in Slave
    BY <1>3, AcknowledgedIsSlave
  <2>2. QED
    BY <1>1, <1>3, <2>1, EnterService
<1>4. QED
  BY <1>2, <1>3 DEF Acknowledge

LEMMA SpuriousService ==
    ASSUME ServiceInv, Spurious
    PROVE  ServiceInv'
<1>1. enabled /\ irr' \subseteq irr /\ gone' \subseteq gone
  BY DEF Spurious
<1>2. CASE Enter(7, {})
  BY <1>1, <1>2, EnterService DEF Master
<1>3. CASE Enter(15, {Cascade})
  BY <1>1, <1>3, EnterService DEF Slave
<1>4. QED
  BY <1>2, <1>3 DEF Spurious

-----------------------------------------------------------------------------
(* The stub.                                                               *)

LEMMA TopIsOnly ==
    ASSUME ServiceInv, frames # <<>>
    PROVE  /\ Top = frames[1]
           /\ frames = <<frames[1]>>
           /\ Top \in Frames
           /\ FrameShape(Top)
           /\ isr = Remaining(Top)
           /\ \A to : Goes(to) => frames' = <<[Top EXCEPT !.at = to]>>
<1>1. frames \in Seq(Frames) /\ Len(frames) = 1
  <2>1. frames \in Seq(Frames) /\ Len(frames) <= 1
    BY DEF ServiceInv, TypeOK, OneAtATime
  <2>2. Len(frames) \in Nat /\ Len(frames) # 0
    BY <2>1
  <2>3. \A n \in Nat : n <= 1 /\ n # 0 => n = 1
    OBVIOUS
  <2>4. Len(frames) = 1
    BY <2>1, <2>2, <2>3, Zenon
  <2>5. QED
    BY <2>1, <2>4
<1>2. frames = <<frames[1]>> /\ Top = frames[1] /\ Top \in Frames
  BY <1>1 DEF Top
<1>3. ASSUME NEW to, Goes(to)
      PROVE  frames' = <<[Top EXCEPT !.at = to]>>
  <2>1. frames' = [frames EXCEPT ![1] = [frames[1] EXCEPT !.at = to]]
    BY <1>1, <1>3 DEF Goes
  <2>2. QED
    BY <1>1, <1>2, <2>1
<1>4. QED
  BY <1>2, <1>3 DEF ServiceInv, ServiceMatches

\* A step of the stub that moves on within the frame.
LEMMA GoesService ==
    ASSUME ServiceInv, frames # <<>>,
           NEW to \in {"dispatch", "eoi_slave", "eoi_master", "iret"}, Goes(to),
           to = "eoi_slave" => Top.vector >= 40,
           isr' = Remaining([Top EXCEPT !.at = to]),
           line' \subseteq line,
           UNCHANGED <<pc, window, enabled, idt, irq_handlers, irr, gone,
                       requests>>
    PROVE  ServiceInv'
<1> DEFINE g == [Top EXCEPT !.at = to]
<1>1. frames' = <<g>>
  BY TopIsOnly
<1>2. Top \in Frames /\ FrameShape(Top)
  BY TopIsOnly
<1>3. g \in Frames
  BY <1>2 DEF Frames
<1>4. FrameShape(g)
  BY <1>2 DEF FrameShape, Frames
<1>5. isr' \subseteq Master \cup Slave
  BY <1>3 DEF Remaining, Frames
<1>6. TypeOK'
  <2>1. frames' \in Seq(Frames)
    BY <1>1, <1>3
  <2>2. QED
    BY <1>5, <2>1 DEF ServiceInv, TypeOK
<1>7. OneAtATime'
  BY <1>1 DEF ServiceInv, OneAtATime
<1>8. ServiceMatches'
  <2>1. frames' # <<>> /\ frames'[1] = g
    BY <1>1
  <2>2. QED
    BY <2>1 DEF ServiceMatches, Remaining
<1>9. OnlyWhenRunning'
  BY DEF ServiceInv, OnlyWhenRunning
<1>10. QED
  BY <1>1, <1>4, <1>6, <1>7, <1>8, <1>9 DEF ServiceInv

LEMMA HandlerService ==
    ASSUME ServiceInv, irq_handler
    PROVE  ServiceInv'
<1> DEFINE to == IF FromSlave(Top.vector) THEN "eoi_slave" ELSE "eoi_master"
<1>1. frames # <<>> /\ Top.at = "dispatch" /\ Goes(to)
  BY DEF irq_handler
<1>2. Top \in Frames /\ FrameShape(Top) /\ isr = Remaining(Top)
  BY <1>1, TopIsOnly
<1>3. to = "eoi_slave" => Top.vector >= 40
  BY DEF FromSlave
<1>4. Top.vector < 40 => \A b \in Top.bits : b \notin Slave
  <2>1. SUFFICES ASSUME Top.vector < 40 PROVE \A b \in Top.bits : b \notin Slave
    OBVIOUS
  <2>2. ~(Top.vector >= 40)
    BY <1>2, <2>1 DEF Frames
  <2>3. PICK i \in Master : Top.bits \in {{}, {i}}
    BY <1>2, <2>2 DEF FrameShape
  <2>4. QED
    BY <2>3 DEF Master, Slave
<1>5. isr' = Remaining([Top EXCEPT !.at = to])
  BY <1>1, <1>2, <1>4 DEF Remaining, Frames, FromSlave, irq_handler
<1>6. line' \subseteq line
  BY DEF irq_handler
<1>7. QED
  BY <1>1, <1>3, <1>5, <1>6, GoesService DEF irq_handler

LEMMA EoiSlaveService ==
    ASSUME ServiceInv, EoiSlave
    PROVE  ServiceInv'
<1>1. frames # <<>> /\ Top.at = "eoi_slave" /\ Goes("eoi_master")
  BY DEF EoiSlave, AfterEoiSlave
<1>2. Top \in Frames /\ FrameShape(Top) /\ isr = Top.bits
  BY <1>1, TopIsOnly DEF Remaining
<1>3. PICK i \in Slave : isr \in {{Cascade}, {Cascade, i}}
  BY <1>1, <1>2 DEF FrameShape
<1>4. isr \cap Slave \in {{}, {i}}
  BY <1>3 DEF Slave, Cascade
<1>5. First(isr \cap Slave) = isr \cap Slave
  BY <1>4, FirstOfOne, FirstOfNone DEF Slave
<1>6. isr' = Remaining([Top EXCEPT !.at = "eoi_master"])
  BY <1>2, <1>5 DEF EoiSlave, Remaining, Frames
<1>7. QED
  BY <1>1, <1>6, GoesService DEF EoiSlave

LEMMA EoiMasterService ==
    ASSUME ServiceInv, EoiMaster
    PROVE  ServiceInv'
<1>1. frames # <<>> /\ Top.at = "eoi_master" /\ Goes("iret")
  BY DEF EoiMaster
<1>2. Top \in Frames /\ FrameShape(Top) /\ isr = {b \in Top.bits : b \notin Slave}
  BY <1>1, TopIsOnly DEF Remaining
<1>3. \E i \in Master : isr \in {{}, {i}}
  BY <1>2 DEF FrameShape, Master, Slave, Cascade
<1>4. isr \cap Master = isr /\ First(isr) = isr
  BY <1>3, FirstOfOne, FirstOfNone DEF Master
<1>5. isr' = Remaining([Top EXCEPT !.at = "iret"])
  BY <1>2, <1>4 DEF EoiMaster, Remaining, Frames
<1>6. QED
  BY <1>1, <1>5, GoesService DEF EoiMaster

LEMMA IretService ==
    ASSUME ServiceInv, iret
    PROVE  ServiceInv'
<1>1. frames # <<>> /\ Top.at = "iret" /\ pc # "panic"
  BY DEF iret
<1>2. Top \in Frames /\ FrameShape(Top) /\ isr = {} /\ frames = <<Top>>
  BY <1>1, TopIsOnly DEF Remaining
<1>3. frames' = <<>> /\ enabled' /\ pc' = "running" /\ isr' = {}
  BY <1>1, <1>2 DEF iret, FrameShape, picVars, ServiceInv, OnlyWhenRunning
<1>4. TypeOK'
  BY <1>2, <1>3 DEF ServiceInv, TypeOK, iret, picVars, Frames
<1>5. QED
  BY <1>3, <1>4 DEF ServiceInv, OneAtATime, ServiceMatches, OnlyWhenRunning

LEMMA PanicService ==
    ASSUME ServiceInv, isr_handler
    PROVE  ServiceInv'
<1>1. TypeOK'
  BY DEF ServiceInv, TypeOK, isr_handler, picVars
<1>2. QED
  BY <1>1 DEF ServiceInv, OneAtATime, ServiceMatches, OnlyWhenRunning, isr_handler, picVars,
              Remaining, FrameShape

-----------------------------------------------------------------------------
LEMMA NextService == ServiceInv /\ [Next]_vars => ServiceInv'
<1> SUFFICES ASSUME ServiceInv, [Next]_vars
             PROVE  ServiceInv'
  OBVIOUS
<1>1. ASSUME NEW i \in Irqs, Raise(i) \/ Withdraw(i)
      PROVE  ServiceInv'
  BY <1>1, RaiseService, WithdrawService
<1>2. CASE Boot
  BY <1>2, BootService
<1>3. CASE Deliver
  BY <1>3, AcknowledgeService, SpuriousService DEF Deliver
<1>4. CASE Serve
  BY <1>4, HandlerService, EoiSlaveService, EoiMasterService, IretService DEF Serve
<1>5. CASE isr_handler
  BY <1>5, PanicService
<1>6. CASE UNCHANGED vars
  <2>1. TypeOK'
    BY <1>6 DEF ServiceInv, TypeOK, vars, cpuVars, picVars
  <2>2. QED
    BY <1>6, <2>1 DEF ServiceInv, OneAtATime, ServiceMatches, OnlyWhenRunning, Remaining,
                      FrameShape, vars, cpuVars, picVars
<1>7. QED
  BY <1>1, <1>2, <1>3, <1>4, <1>5, <1>6 DEF Next

\* The inductive invariant: nesting, service and boot order together.
THEOREM ServiceInvariant == Spec => []ServiceInv
  BY InitService, NextService, PTL DEF Spec

\* Every vector taken is one of the 16 hardware vectors, whatever devices there
\* are: the exception stubs are never entered by a device.
THEOREM InterruptsTypeCorrect == Spec => []TypeOK
  BY ServiceInvariant, PTL DEF ServiceInv

\* A handler is never interrupted by another: interrupt gates suffice.
THEOREM HandlersDoNotNest == Spec => []OneAtATime
  BY ServiceInvariant, PTL DEF ServiceInv

\* The EOIs of irq_common_stub leave nothing in service, and end nothing else.
THEOREM EoisMatch == Spec => []ServiceMatches
  BY ServiceInvariant, PTL DEF ServiceInv
-----------------------------------------------------------------------------
(* The keyboard does not go dead.  Between keyboard_init and the main loop a  *)
(* byte may arrive; it must be latched then too.                            *)

AliveInv ==
    pc \in {"keyboard", "running"} =>
        /\ irq_handlers[1] = "keyboard_handler"
        /\ 1 \in line =>
             \/ 1 \in irr
             \/ frames # <<>> /\ Top.vector = 33 /\ Top.at = "dispatch"

LEMMA DevicesAlive ==
    ASSUME AliveInv, NEW i \in Irqs, Raise(i) \/ Withdraw(i)
    PROVE  AliveInv'
<1>1. CASE Raise(i)
  BY <1>1 DEF AliveInv, Raise, cpuVars, Top
<1>2. CASE Withdraw(i)
  BY <1>2 DEF AliveInv, Withdraw, cpuVars, Top
<1>3. QED
  BY <1>1, <1>2

LEMMA BootAlive ==
    ASSUME ServiceInv, AliveInv, Boot
    PROVE  AliveInv'
<1>1. CASE vga_init \/ idt_init
  BY <1>1 DEF AliveInv, vga_init, idt_init
<1>2. CASE keyboard_init
  <2>1. irq_handlers'[1] = "keyboard_handler"
    BY <1>2 DEF ServiceInv, TypeOK, keyboard_init, Master, Slave
  <2>2. QED
    BY <1>2, <2>1 DEF AliveInv, keyboard_init
<1>3. CASE sti
  BY <1>3 DEF AliveInv, sti, picVars, Top
<1>4. QED
  BY <1>1, <1>2, <1>3 DEF Boot

\* Nothing is under way when an interrupt is taken, so the byte's request is
\* latched: it stays so unless it is the one that is acknowledged.
LEMMA DeliverAlive ==
    ASSUME ServiceInv, AliveInv, Deliver
    PROVE  AliveInv'
<1>1. enabled /\ UNCHANGED <<pc, line, irq_handlers>>
  BY DEF Deliver, Acknowledge, Spurious, Enter
<1>2. frames = <<>>
  BY <1>1, QuietWhenEnabled
<1>3. CASE 1 \in irr'
  BY <1>1, <1>3 DEF AliveInv
<1>4. CASE 1 \in irr /\ 1 \notin irr'
  <2>1. Acknowledge(1)
    BY <1>4 DEF Deliver, Acknowledge, Spurious
  <2>2. PICK bits : Enter(1, bits)
    BY <2>1 DEF Acknowledge
  <2>3. frames' = <<[vector |-> 33, enabled |-> enabled, at |-> "dispatch", bits |-> bits]>>
    BY <1>2, <2>2 DEF Enter, VectorOf
  <2>4. frames' # <<>> /\ Top'.vector = 33 /\ Top'.at = "dispatch"
    BY <2>3 DEF Top
  <2>5. QED
    BY <1>1, <2>4 DEF AliveInv
<1>5. CASE 1 \notin irr
  BY <1>1, <1>2, <1>5 DEF AliveInv
<1>6. QED
  BY <1>3, <1>4, <1>5

LEMMA ServeAlive ==
    ASSUME ServiceInv, AliveInv, Serve
    PROVE  AliveInv'
<1>1. CASE irq_handler
  <2>1. UNCHANGED <<pc, irq_handlers, irr>> /\ line' \subseteq line /\ Top.at = "dispatch"
    BY <1>1 DEF irq_handler
  <2>2. CASE Top.vector = 33 /\ irq_handlers[1] = "keyboard_handler"
    <3>1. 1 \notin line'
      BY <1>1, <2>2 DEF irq_handler
    <3>2. QED
      BY <2>1, <2>2, <3>1 DEF AliveInv
  <2>3. CASE Top.vector # 33 \/ irq_handlers[1] # "keyboard_handler"
    BY <2>1, <2>3 DEF AliveInv
  <2>4. QED
    BY <2>2, <2>3
<1>2. CASE EoiSlave \/ EoiMaster \/ iret
  <2>1. UNCHANGED <<pc, irq_handlers, irr, line>> /\ Top.at # "dispatch"
    BY <1>2 DEF EoiSlave, EoiMaster, iret, picVars
  <2>2. QED
    BY <2>1 DEF AliveInv
<1>3. QED
  BY <1>1, <1>2 DEF Serve

\* A byte that waits has its request latched, or its handler is about to read it.
THEOREM KeyboardStaysAlive == Spec => []KeyboardAlive
<1>1. Init => AliveInv
  BY DEF Init, AliveInv
<1>2. ServiceInv /\ AliveInv /\ [Next]_vars => AliveInv'
  <2> SUFFICES ASSUME ServiceInv, AliveInv, [Next]_vars
               PROVE  AliveInv'
    OBVIOUS
  <2>1. CASE isr_handler
    BY <2>1 DEF AliveInv, isr_handler
  <2>2. CASE UNCHANGED vars
    BY <2>2 DEF AliveInv, vars, cpuVars, picVars, Top
  <2>3. QED
    BY <2>1, <2>2, DevicesAlive, BootAlive, DeliverAlive, ServeAlive DEF Next
<1>3. AliveInv => KeyboardAlive
  BY DEF AliveInv, KeyboardAlive
<1>4. QED
  BY <1>1, <1>2, <1>3, ServiceInvariant, PTL DEF Spec

-----------------------------------------------------------------------------
(* Why every request is served: each step of the devices, of the CPU and of  *)
(* a stub uses up some of a stock of work, and while a PIC signals, the CPU  *)
(* can take a step.                                                         *)

\* The steps of kernel_main that are to come, the panic included.
BootLeft ==
    CASE pc = "start" -> 5 [] pc = "vga" -> 4 [] pc = "idt" -> 3 [] pc = "keyboard" -> 2
      [] pc = "running" -> 1 [] OTHER -> 0

\* The steps of the stub under way.
StubLeft ==
    IF frames = <<>> THEN 0
    ELSE CASE Top.at = "dispatch" -> 4
           [] Top.at = "eoi_slave" -> 3
           [] Top.at = "eoi_master" -> 2
           [] OTHER -> 1

\* A request, or one that has gone, takes an interrupt of at most five steps.
PicWork == 5 * Cardinality(irr) + 5 * Cardinality(gone) + Cardinality(line)
InterruptWork == BootLeft + StubLeft + PicWork + 7 * (MaxRequests - requests)

\* Every step uses up work: however edges, withdrawals, spurious interrupts and faults
\* follow each other, a burst of requests comes to an end.
InterruptsWindDown == [][InterruptWork' \in Nat /\ InterruptWork' < InterruptWork]_vars

\* The guards of Boot, of Serve and of Deliver.
BootCanGo == pc \in {"start", "vga", "idt", "keyboard"}
ServeCanGo == frames # <<>> /\ pc # "panic"
DeliverCanGo ==
    /\ enabled /\ pc # "panic"
    /\ {VectorOf(i) : i \in Master \cup Slave} \subseteq idt
    /\ \/ \E i \in irr : \/ i \in Chosen \ {Cascade}
                         \/ Cascade \in Chosen /\ i \in First(Deliverable(Slave, irr))
       \/ "master" \in gone /\ Deliverable(Master, MasterRequests) = {}
       \/ "slave" \in gone /\ Cascade \in Chosen /\ ~SlaveSignals

\* No request is shut out: while a PIC signals one, even one that has gone, the CPU boots
\* on, a handler is under way, an interrupt can be taken, or the kernel has panicked.
NeverShutOut ==
    irr # {} \/ gone # {} => BootCanGo \/ ServeCanGo \/ DeliverCanGo \/ pc = "panic"

\* Beyond ServiceInv: the gates are there, and interrupts are off only in a handler.
OpenInv ==
    /\ pc \in {"idt", "keyboard", "running"} => {VectorOf(i) : i \in Master \cup Slave} \subseteq idt
    /\ pc = "running" /\ frames = <<>> => enabled

LEMMA OpenStarts == Init => OpenInv
  BY DEF Init, OpenInv

LEMMA OpenKept == ServiceInv /\ OpenInv /\ [Next]_vars => OpenInv'
<1> SUFFICES ASSUME ServiceInv, OpenInv, [Next]_vars
             PROVE  OpenInv'
  OBVIOUS
<1>1. ASSUME NEW i \in Irqs, Raise(i) \/ Withdraw(i)
      PROVE  OpenInv'
  BY <1>1 DEF OpenInv, Raise, Withdraw, cpuVars
<1>2. CASE Boot
  BY <1>2 DEF OpenInv, Boot, vga_init, idt_init, keyboard_init, sti, VectorOf, Master, Slave
<1>3. CASE Deliver
  <2>1. PICK i, bits : Enter(i, bits)
    BY <1>3 DEF Deliver, Acknowledge, Spurious
  <2>2. frames \in Seq(Frames) /\ pc' = pc /\ idt' = idt
    BY <2>1 DEF ServiceInv, TypeOK, Enter
  <2>3. frames' # <<>>
    BY <2>1, <2>2 DEF Enter
  <2>4. QED
    BY <2>2, <2>3 DEF OpenInv
<1>4. CASE irq_handler \/ EoiSlave \/ EoiMaster
  <2>1. frames # <<>> /\ UNCHANGED <<pc, idt, enabled>> /\ \E to : Goes(to)
    BY <1>4 DEF irq_handler, EoiSlave, EoiMaster
  <2>2. frames' # <<>>
    BY <2>1, TopIsOnly
  <2>3. QED
    BY <2>1, <2>2 DEF OpenInv
<1>5. CASE iret
  <2>1. frames # <<>> /\ enabled' = Top.enabled /\ UNCHANGED <<pc, idt>>
    BY <1>5 DEF iret
  <2>2. Top.enabled = TRUE
    BY <2>1, TopIsOnly DEF FrameShape
  <2>3. QED
    BY <2>1, <2>2 DEF OpenInv
<1>6. CASE isr_handler
  BY <1>6 DEF OpenInv, isr_handler
<1>7. CASE UNCHANGED vars
  BY <1>7 DEF OpenInv, vars, cpuVars
<1>8. QED
  BY <1>1, <1>2, <1>3, <1>4, <1>5, <1>6, <1>7 DEF Next, Serve

\* The IRQ of highest priority: among some, there is one.
LEMMA FirstExists ==
    ASSUME NEW S \in SUBSET (0..15), S # {}
    PROVE  First(S) # {}
<1>1. SUFFICES \E i \in S : \A j \in S : i <= j
  BY DEF First
<1>2. S \in SUBSET Nat
  OBVIOUS
<1>3. PICK i \in S : \A j \in S : ~(<<j, i>> \in OpToRel(<, Nat))
  BY <1>2, NatLessThanWellFounded, WFMin
<1>4. \A j \in S : ~(j < i)
  BY <1>2, <1>3 DEF OpToRel
<1>5. QED
  BY <1>2, <1>4

\* With nothing in service, every request may be signalled.
LEMMA AllDeliverable ==
    ASSUME isr = {}
    PROVE  \A chip, req : Deliverable(chip, req) = req \cap chip
  BY DEF Deliverable

LEMMA SignalIsAnswered ==
    ASSUME ServiceInv, OpenInv
    PROVE  NeverShutOut
<1> SUFFICES ASSUME irr # {} \/ gone # {}, pc = "running", frames = <<>>
             PROVE  DeliverCanGo
  BY DEF ServiceInv, TypeOK, NeverShutOut, BootCanGo, ServeCanGo
<1>1. enabled /\ pc # "panic" /\ {VectorOf(i) : i \in Master \cup Slave} \subseteq idt
  BY DEF OpenInv
<1>2. isr = {}
  BY <1>1, QuietWhenEnabled
<1>3. /\ irr \subseteq (Master \cup Slave) \ {Cascade}
      /\ gone \subseteq {"master", "slave"}
  BY InterruptsAssumption DEF ServiceInv, TypeOK
<1>4. /\ Deliverable(Master, MasterRequests) = MasterRequests \cap Master
      /\ Deliverable(Slave, irr) = irr \cap Slave
  BY <1>2, AllDeliverable
<1>5. CASE MasterRequests \cap Master = {}
  <2>1. irr \cap Master = {} /\ ~SlaveSignals /\ "slave" \notin gone
    <3>1. irr \subseteq MasterRequests /\ Cascade \in Master
      BY DEF MasterRequests, Master, Cascade
    <3>2. SlaveSignals \/ "slave" \in gone => Cascade \in MasterRequests
      BY DEF MasterRequests
    <3>3. QED
      BY <1>5, <3>1, <3>2, Zenon
  <2>2. irr = {}
    BY <1>3, <1>4, <2>1 DEF SlaveSignals
  <2>3. "master" \in gone
    BY <1>3, <2>1, <2>2
  <2>4. QED
    BY <1>1, <1>4, <1>5, <2>3 DEF DeliverCanGo
<1>6. CASE MasterRequests \cap Master # {}
  <2>1. MasterRequests \cap Master \in SUBSET (0..15)
    BY DEF Master
  <2>2. PICK m : m \in Chosen
    BY <1>4, <1>6, <2>1, FirstExists DEF Chosen
  <2>3. m \in MasterRequests
    BY <1>4, <2>2 DEF Chosen, First
  <2>4. CASE m # Cascade
    <3>1. m \in irr
      BY <2>3, <2>4 DEF MasterRequests
    <3>2. QED
      BY <1>1, <2>2, <2>4, <3>1 DEF DeliverCanGo
  <2>5. CASE m = Cascade
    <3>1. SlaveSignals \/ "slave" \in gone
      BY <1>3, <2>3, <2>5 DEF MasterRequests
    <3>2. CASE SlaveSignals
      <4>1. irr \cap Slave # {} /\ irr \cap Slave \in SUBSET (0..15)
        BY <1>4, <3>2 DEF SlaveSignals, Slave
      <4>2. PICK i : i \in First(Deliverable(Slave, irr))
        BY <1>4, <4>1, FirstExists
      <4>3. i \in irr
        BY <4>2 DEF First, Deliverable
      <4>4. QED
        BY <1>1, <2>2, <2>5, <4>2, <4>3 DEF DeliverCanGo
    <3>3. CASE ~SlaveSignals
      BY <1>1, <2>2, <2>5, <3>1, <3>3 DEF DeliverCanGo
    <3>4. QED
      BY <3>2, <3>3
  <2>6. QED
    BY <2>4, <2>5
<1>7. QED
  BY <1>5, <1>6

\* The sets of the PICs are finite, and a smaller one has no more members.
LEMMA PicsAreFinite ==
    ASSUME TypeOK
    PROVE  /\ IsFiniteSet(irr) /\ Cardinality(irr) \in Nat
           /\ IsFiniteSet(gone) /\ Cardinality(gone) \in Nat
           /\ IsFiniteSet(line) /\ Cardinality(line) \in Nat
<1>1. IsFiniteSet(0..15)
  <2>1. 0 \in Int /\ 15 \in Int
    OBVIOUS
  <2>2. QED
    BY <2>1, FS_Interval, Zenon
<1>2. irr \in SUBSET (0..15) /\ line \in SUBSET (0..15)
  BY InterruptsAssumption DEF TypeOK, Master, Slave
<1>3. IsFiniteSet({"master", "slave"}) /\ gone \in SUBSET {"master", "slave"}
  <2>1. {"master", "slave"} = {"master"} \cup {"slave"}
    OBVIOUS
  <2>2. IsFiniteSet({"master"})
    BY FS_Singleton
  <2>3. IsFiniteSet({"master"} \cup {"slave"})
    BY <2>2, FS_AddElement
  <2>4. QED
    BY <2>1, <2>3 DEF TypeOK
<1>4. IsFiniteSet(irr) /\ IsFiniteSet(line) /\ IsFiniteSet(gone)
  BY <1>1, <1>2, <1>3, FS_Subset
<1>5. QED
  BY <1>4, FS_CardinalityType

\* Sets of which none grows are no more work.
LEMMA LessPicWork ==
    ASSUME TypeOK, irr' \subseteq irr, gone' \subseteq gone, line' \subseteq line
    PROVE  PicWork' \in Int /\ PicWork' <= PicWork
<1>1. ASSUME NEW S, NEW T, T \subseteq S, IsFiniteSet(S), Cardinality(S) \in Nat
      PROVE  Cardinality(T) \in Nat /\ Cardinality(T) <= Cardinality(S)
  BY <1>1, FS_Subset, FS_CardinalityType
<1>2. /\ Cardinality(irr') \in Nat /\ Cardinality(irr') <= Cardinality(irr)
      /\ Cardinality(gone') \in Nat /\ Cardinality(gone') <= Cardinality(gone)
      /\ Cardinality(line') \in Nat /\ Cardinality(line') <= Cardinality(line)
  BY <1>1, PicsAreFinite
<1>3. QED
  BY <1>2, PicsAreFinite DEF PicWork

LEMMA InterruptWorkIsNat ==
    ASSUME ServiceInv
    PROVE  InterruptWork \in Nat
<1>1. TypeOK
  BY DEF ServiceInv
<1>2. PicWork \in Nat
  BY <1>1, PicsAreFinite DEF PicWork
<1>3. MaxRequests - requests \in Nat
  BY <1>1, InterruptsAssumption DEF TypeOK
<1>4. BootLeft \in Nat /\ StubLeft \in Nat
  BY DEF BootLeft, StubLeft
<1>5. QED
  BY <1>2, <1>3, <1>4 DEF InterruptWork

\* An edge is one request more and is paid for by the bound; one that is withdrawn is
\* less work than one that is served, even if the PIC goes on to signal it.
LEMMA DevicesWork ==
    ASSUME ServiceInv, NEW i \in Irqs, Raise(i) \/ Withdraw(i)
    PROVE  InterruptWork' < InterruptWork
<1>1. TypeOK /\ requests \in Nat /\ MaxRequests \in Nat
  BY InterruptsAssumption DEF ServiceInv, TypeOK
<1>2. /\ BootLeft' = BootLeft /\ StubLeft' = StubLeft
      /\ BootLeft \in Nat /\ StubLeft \in Nat
  BY DEF Raise, Withdraw, cpuVars, BootLeft, StubLeft, Top
<1>3. CASE Raise(i)
  <2>1. Cardinality(line') = Cardinality(line) + 1
    BY <1>1, <1>3, PicsAreFinite, FS_AddElement DEF Raise
  <2>2. Cardinality(irr') \in {Cardinality(irr), Cardinality(irr) + 1}
    BY <1>1, <1>3, PicsAreFinite, FS_AddElement DEF Raise
  <2>3. PicWork \in Nat /\ PicWork' \in Nat /\ PicWork' <= PicWork + 6
    BY <1>1, <1>3, <2>1, <2>2, PicsAreFinite DEF Raise, PicWork
  <2>4. requests' = requests + 1
    BY <1>3 DEF Raise
  <2>5. InterruptWork' = BootLeft + StubLeft + PicWork' + 7 * (MaxRequests - (requests + 1))
    BY <1>2, <2>4 DEF InterruptWork
  <2>6. QED
    BY <1>1, <1>2, <2>3, <2>5 DEF InterruptWork
<1>4. CASE Withdraw(i)
  <2>1. Cardinality(line') = Cardinality(line) - 1
    BY <1>1, <1>4, PicsAreFinite, FS_RemoveElement DEF Withdraw
  <2>2. \/ UNCHANGED <<irr, gone>>
        \/ /\ Cardinality(irr') = Cardinality(irr) - 1
           /\ Cardinality(gone') \in {Cardinality(gone), Cardinality(gone) + 1}
    <3>1. CASE UNCHANGED <<irr, gone>>
      BY <3>1
    <3>2. ASSUME i \in irr, irr' = irr \ {i}, NEW c, gone' = gone \cup {c}
          PROVE  /\ Cardinality(irr') = Cardinality(irr) - 1
                 /\ Cardinality(gone') \in {Cardinality(gone), Cardinality(gone) + 1}
      <4>1. Cardinality(irr \ {i}) = Cardinality(irr) - 1
        BY <1>1, <3>2, PicsAreFinite, FS_RemoveElement
      <4>2. Cardinality(gone \cup {c}) \in {Cardinality(gone), Cardinality(gone) + 1}
        BY <1>1, PicsAreFinite, FS_AddElement
      <4>3. QED
        BY <3>2, <4>1, <4>2
    <3>3. QED
      BY <1>4, <3>1, <3>2 DEF Withdraw
  <2>3. PicWork \in Nat /\ PicWork' \in Int /\ PicWork' < PicWork
    BY <1>1, <2>1, <2>2, PicsAreFinite DEF PicWork
  <2>4. requests' = requests
    BY <1>4 DEF Withdraw
  <2>5. InterruptWork' = BootLeft + StubLeft + PicWork' + 7 * (MaxRequests - requests)
    BY <1>2, <2>4 DEF InterruptWork
  <2>6. QED
    BY <1>1, <1>2, <2>3, <2>5 DEF InterruptWork
<1>5. QED
  BY <1>3, <1>4

\* An interrupt is the five steps that its request, or the one that has gone, counted for.
LEMMA DeliverWorks ==
    ASSUME ServiceInv, Deliver
    PROVE  InterruptWork' < InterruptWork
<1>1. TypeOK /\ requests \in Nat /\ MaxRequests \in Nat
  BY InterruptsAssumption DEF ServiceInv, TypeOK
<1>2. PICK i, bits : Enter(i, bits)
  BY DEF Deliver, Acknowledge, Spurious
<1>3. frames = <<>>
  BY QuietWhenEnabled DEF Deliver, Acknowledge, Spurious
<1>4. StubLeft = 0 /\ StubLeft' = 4
  <2>1. frames' = <<[vector |-> VectorOf(i), enabled |-> enabled, at |-> "dispatch",
                     bits |-> bits]>>
    BY <1>2, <1>3 DEF Enter
  <2>2. frames' # <<>> /\ Top'.at = "dispatch"
    BY <2>1 DEF Top
  <2>3. QED
    BY <1>3, <2>2 DEF StubLeft
<1>5. UNCHANGED <<pc, line, requests>> /\ BootLeft' = BootLeft /\ BootLeft \in Nat
  BY <1>2 DEF Enter, BootLeft
<1>6. PicWork \in Nat /\ PicWork' = PicWork - 5
  <2>1. ASSUME NEW j \in Irqs, Acknowledge(j)
        PROVE  PicWork' = PicWork - 5
    <3>1. j \in irr /\ irr' = irr \ {j} /\ gone' = gone
      BY <2>1 DEF Acknowledge, Chosen, First, Deliverable, MasterRequests
    <3>2. Cardinality(irr') = Cardinality(irr) - 1
      BY <1>1, <3>1, PicsAreFinite, FS_RemoveElement
    <3>3. QED
      BY <1>1, <1>5, <3>1, <3>2, PicsAreFinite DEF PicWork
  <2>2. CASE Spurious
    <3>1. irr' = irr /\ \E c \in gone : gone' = gone \ {c}
      BY <2>2 DEF Spurious
    <3>2. Cardinality(gone') = Cardinality(gone) - 1
      BY <1>1, <3>1, PicsAreFinite, FS_RemoveElement
    <3>3. QED
      BY <1>1, <1>5, <3>1, <3>2, PicsAreFinite DEF PicWork
  <2>3. PicWork \in Nat
    BY <1>1, PicsAreFinite DEF PicWork
  <2>4. QED
    BY <2>1, <2>2, <2>3 DEF Deliver
<1>7. InterruptWork' = BootLeft + 4 + (PicWork - 5) + 7 * (MaxRequests - requests)
  BY <1>4, <1>5, <1>6 DEF InterruptWork
<1>8. InterruptWork = BootLeft + 0 + PicWork + 7 * (MaxRequests - requests)
  BY <1>4 DEF InterruptWork
<1>9. QED
  BY <1>1, <1>5, <1>6, <1>7, <1>8

LEMMA ServeWorks ==
    ASSUME ServiceInv, Serve
    PROVE  StubLeft' < StubLeft /\ StubLeft \in Nat /\ StubLeft' \in Nat
<1>1. frames # <<>>
  BY DEF Serve, irq_handler, EoiSlave, EoiMaster, iret
<1>2. /\ Top \in Frames /\ frames = <<Top>>
      /\ \A to : Goes(to) => frames' = <<[Top EXCEPT !.at = to]>>
  BY <1>1, TopIsOnly
<1>3. ASSUME NEW to, Goes(to)
      PROVE  frames' # <<>> /\ Top'.at = to
  <2>1. frames' = <<[Top EXCEPT !.at = to]>>
    BY <1>2, <1>3
  <2>2. QED
    BY <1>2, <2>1 DEF Top, Frames
<1>4. CASE irq_handler
  BY <1>1, <1>3, <1>4 DEF irq_handler, StubLeft
<1>5. CASE EoiSlave
  BY <1>1, <1>3, <1>5 DEF EoiSlave, AfterEoiSlave, StubLeft
<1>6. CASE EoiMaster
  BY <1>1, <1>3, <1>6 DEF EoiMaster, StubLeft
<1>7. CASE iret
  <2>1. frames' = <<>>
    BY <1>2, <1>7 DEF iret
  <2>2. QED
    BY <1>1, <1>7, <2>1 DEF iret, StubLeft
<1>8. QED
  BY <1>4, <1>5, <1>6, <1>7 DEF Serve

LEMMA CpuWorks ==
    ASSUME ServiceInv, Boot \/ Serve \/ isr_handler
    PROVE  InterruptWork' < InterruptWork
<1>1. TypeOK /\ requests \in Nat /\ MaxRequests \in Nat
  BY InterruptsAssumption DEF ServiceInv, TypeOK
<1>2. irr' \subseteq irr /\ gone' \subseteq gone /\ line' \subseteq line /\ requests' = requests
  BY DEF Boot, vga_init, idt_init, keyboard_init, sti, Serve, irq_handler, EoiSlave, EoiMaster,
         iret, isr_handler, picVars
<1>3. PicWork \in Nat /\ PicWork' \in Int /\ PicWork' <= PicWork
  BY <1>1, <1>2, LessPicWork, PicsAreFinite DEF PicWork
<1>4. BootLeft \in Nat /\ BootLeft' \in Nat /\ StubLeft \in Nat
  BY DEF BootLeft, StubLeft
<1>5. CASE Boot \/ isr_handler
  <2>1. frames' = frames
    BY <1>5 DEF Boot, vga_init, idt_init, keyboard_init, sti, isr_handler
  <2>2. StubLeft' = StubLeft
    BY <2>1 DEF StubLeft, Top
  <2>3. BootLeft' < BootLeft
    BY <1>1, <1>5 DEF Boot, vga_init, idt_init, keyboard_init, sti, isr_handler, BootLeft, TypeOK
  <2>4. InterruptWork' = BootLeft' + StubLeft + PicWork' + 7 * (MaxRequests - requests)
    BY <1>2, <2>2 DEF InterruptWork
  <2>5. QED
    BY <1>1, <1>3, <1>4, <2>3, <2>4 DEF InterruptWork
<1>6. CASE Serve
  <2>1. pc' = pc
    BY <1>6 DEF Serve, irq_handler, EoiSlave, EoiMaster, iret
  <2>2. BootLeft' = BootLeft
    BY <2>1 DEF BootLeft
  <2>3. StubLeft' < StubLeft /\ StubLeft' \in Nat
    BY <1>6, ServeWorks
  <2>4. InterruptWork' = BootLeft + StubLeft' + PicWork' + 7 * (MaxRequests - requests)
    BY <1>2, <2>2 DEF InterruptWork
  <2>5. QED
    BY <1>1, <1>3, <1>4, <2>3, <2>4 DEF InterruptWork
<1>7. QED
  BY <1>5, <1>6

InterruptWorkLeft == InterruptWork \in Nat

\* A burst of requests comes to an end: every step that serves one, withdraws one or
\* finds it gone uses up work.
THEOREM InterruptsUseUpWork == Spec => InterruptsWindDown
<1>1. ServiceInv => InterruptWorkLeft
  BY InterruptWorkIsNat DEF InterruptWorkLeft
<1>2. ServiceInv /\ InterruptWorkLeft' /\ [Next]_vars
          => [InterruptWork' \in Nat /\ InterruptWork' < InterruptWork]_vars
  BY DevicesWork, DeliverWorks, CpuWorks DEF InterruptWorkLeft, Next
<1>3. QED
  BY <1>1, <1>2, ServiceInvariant, PTL DEF Spec, InterruptsWindDown

\* Whatever is latched, withdrawn or spurious, on either chip, and whatever has been
\* served before: an IRQ that is signalled is taken next, or a handler or the boot is on
\* its way to where it is.
THEOREM NoIrqIsShutOut == Spec => []NeverShutOut
<1>1. ServiceInv /\ OpenInv => NeverShutOut
  BY SignalIsAnswered
<1>2. QED
  BY <1>1, OpenStarts, OpenKept, ServiceInvariant, PTL DEF Spec
=============================================================================
