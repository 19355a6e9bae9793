------------------------------ MODULE Interrupts ------------------------------
(***************************************************************************)
(* The interrupt layer: kernel/interrupt/irq.cpp over the vector table     *)
(* (arch/x86_64/idt.cpp, arch/arm64/exception.cpp) and a controller chosen *)
(* once: two cascaded 8259s (platform/pc/pic.cpp) whose every line has its *)
(* own vector, or one whose single entry takes pending interrupts until    *)
(* none is left (platform/arm/gicv2.cpp, and the AIC's entry alike).       *)
(* Drivers request and release lines, one call at a time, while devices    *)
(* raise requests and withdraw them at the worst moment.  Handlers run     *)
(* with interrupts off.                                                    *)
(***************************************************************************)
EXTENDS Integers, FiniteSets

CONSTANTS
    PerChip,      \* lines of one 8259
    Cascade,      \* cascade_irq: the master's line to the slave
    Requestable   \* lines some driver may ask for

Lines == 0 .. 2 * PerChip - 1
Slave(l) == l >= PerChip
master_spurious_irq == PerChip - 1
slave_spurious_irq == 2 * PerChip - 1

\* A driver of the slave's lines is there only together with one that hooks the
\* slave's last line: see SpuriousSlave.
ASSUME InterruptAssumption ==
    /\ PerChip \in Nat /\ PerChip >= 3
    /\ Cascade \in 1 .. PerChip - 2
    /\ Requestable \subseteq Lines \ {Cascade}
    /\ \A l \in Requestable : Slave(l) => l = slave_spurious_irq

VARIABLES
    machine,  \* "pic" or "gic", fixed
    on,       \* arch::enable_interrupts() has run
    irr,      \* requests pending at the controller
    isr,      \* interrupts in service
    masked,   \* lines masked at the controller
    vectors,  \* lines whose vector has the trampoline
    taken,    \* entries[l].taken
    call,     \* the call of request() or release() in progress
    cpu,      \* "main", or where the interrupt is: "entry", "dispatch", "handler", "end"
    now,      \* the irq being dispatched
    genuine   \* its request was still there when the core acknowledged it

vars == <<machine, on, irr, isr, masked, vectors, taken, call, cpu, now, genuine>>

NoCall == [what |-> "none", line |-> 0]

\* pic_initialize(): everything masked but the cascade; gicv2_initialize(): every
\* interrupt disabled, the one entry hooked
Init ==
    /\ machine \in {"pic", "gic"}
    /\ on = FALSE
    /\ irr = {} /\ isr = {}
    /\ masked = Lines \ {Cascade}
    /\ vectors = {} /\ taken = {}
    /\ call = NoCall
    /\ cpu = "main" /\ now = 0 /\ genuine = TRUE

-------------------------------------------------------------------------------
(* irq::request() and irq::release(), with interrupts possible at every step. *)

Called(w, l) == call' = [what |-> w, line |-> l]

\* request() up to the vector: a line that is taken is refused.
RequestVector(l) ==
    /\ cpu = "main" /\ call = NoCall /\ l \notin taken
    /\ vectors' = IF machine = "pic" THEN vectors \union {l} ELSE vectors
    /\ Called("take", l)
    /\ UNCHANGED <<machine, on, irr, isr, masked, taken, cpu, now, genuine>>

RequestTake ==
    /\ cpu = "main" /\ call.what = "take"
    /\ taken' = taken \union {call.line}
    /\ Called("enable", call.line)
    /\ UNCHANGED <<machine, on, irr, isr, masked, vectors, cpu, now, genuine>>

\* platform::enable_irq(): pic_unmask() opens the cascade too for a slave's line.
RequestEnable ==
    /\ cpu = "main" /\ call.what = "enable"
    /\ masked' = masked \ ({call.line} \union IF Slave(call.line) THEN {Cascade} ELSE {})
    /\ call' = NoCall
    /\ UNCHANGED <<machine, on, irr, isr, vectors, taken, cpu, now, genuine>>

\* A bug: the vector is given up before the line is masked.
ReleaseMask_Late(l) ==
    /\ cpu = "main" /\ call = NoCall /\ l \in taken
    /\ vectors' = vectors \ {l}
    /\ Called("mask", l)
    /\ UNCHANGED <<machine, on, irr, isr, masked, taken, cpu, now, genuine>>

\* release(): first platform::disable_irq() ...
ReleaseMask(l) ==
    /\ cpu = "main" /\ call = NoCall /\ l \in taken
    /\ masked' = masked \union {l}
    /\ Called("unhook", l)
    /\ UNCHANGED <<machine, on, irr, isr, vectors, taken, cpu, now, genuine>>

\* ... then the vector ...
ReleaseUnhook ==
    /\ cpu = "main" /\ call.what = "unhook"
    /\ vectors' = vectors \ {call.line}
    /\ Called("forget", call.line)
    /\ UNCHANGED <<machine, on, irr, isr, masked, taken, cpu, now, genuine>>

\* ... then the entry.
ReleaseForget ==
    /\ cpu = "main" /\ call.what = "forget"
    /\ taken' = taken \ {call.line}
    /\ call' = NoCall
    /\ UNCHANGED <<machine, on, irr, isr, masked, vectors, cpu, now, genuine>>

EnableInterrupts ==
    /\ cpu = "main" /\ ~ on
    /\ on' = TRUE
    /\ UNCHANGED <<machine, irr, isr, masked, vectors, taken, call, cpu, now, genuine>>

-------------------------------------------------------------------------------
(* The controllers. *)

\* A device raises its line.
Raise(l) ==
    /\ l \notin irr
    /\ irr' = irr \union {l}
    /\ UNCHANGED <<machine, on, isr, masked, vectors, taken, call, cpu, now, genuine>>

\* The 8259s' fully nested mode: a line gets through when nothing of the same or
\* a higher priority is in service on its chip, and on the master for the slave.
ChipLets(l) == \A s \in isr : Slave(s) = Slave(l) => s > l

Through(l) ==
    /\ l \in irr /\ l \notin masked
    /\ ChipLets(l)
    /\ Slave(l) => Cascade \notin masked /\ ChipLets(Cascade)

\* Lower lines first; the slave's lines rank with the cascade.
Rank(l) == IF Slave(l) THEN <<Cascade, l>> ELSE <<l, 0>>
Before(l, m) == Rank(l)[1] < Rank(m)[1] \/ (Rank(l)[1] = Rank(m)[1] /\ l < m)
First(l) == Through(l) /\ \A m \in irr : Through(m) => m = l \/ Before(l, m)

\* The core may take an interrupt.
Open == on /\ cpu = "main"

\* x86_64_interrupt_dispatch(): a vector with a trampoline goes to dispatch(); a
\* device's vector without one is ignored, and nothing is told to the controller.
Vector(l) ==
    /\ cpu' = IF l \in vectors THEN "dispatch" ELSE "main"
    /\ now' = l

AckPic(l) ==
    /\ machine = "pic" /\ Open /\ First(l)
    /\ irr' = irr \ {l}
    /\ isr' = isr \union {l} \union IF Slave(l) THEN {Cascade} ELSE {}
    /\ Vector(l) /\ genuine' = TRUE
    /\ UNCHANGED <<machine, on, masked, vectors, taken, call>>

\* The request goes away between the core's interrupt pin and its acknowledge: the
\* master answers with its last line and puts nothing in service.
SpuriousMaster(l) ==
    /\ machine = "pic" /\ Open /\ First(l) /\ ~ Slave(l)
    /\ irr' = irr \ {l}
    /\ Vector(master_spurious_irq) /\ genuine' = FALSE
    /\ UNCHANGED <<machine, on, isr, masked, vectors, taken, call>>

\* The same at the slave: the master has put its cascade line in service already.
SpuriousSlave(l) ==
    /\ machine = "pic" /\ Open /\ First(l) /\ Slave(l)
    /\ irr' = irr \ {l}
    /\ isr' = isr \union {Cascade}
    /\ Vector(slave_spurious_irq) /\ genuine' = FALSE
    /\ UNCHANGED <<machine, on, masked, vectors, taken, call>>

\* The core takes the IRQ exception of the other controllers.
EnterGic ==
    /\ machine = "gic" /\ Open /\ irr \ masked # {}
    /\ cpu' = "entry"
    /\ UNCHANGED <<machine, on, irr, isr, masked, vectors, taken, call, now, genuine>>

\* gic_exception_entry()'s loop: the acknowledge register names one interrupt ...
AckGic(l) ==
    /\ machine = "gic" /\ cpu = "entry" /\ l \in irr \ masked
    /\ irr' = irr \ {l} /\ isr' = isr \union {l}
    /\ cpu' = "dispatch" /\ now' = l /\ genuine' = TRUE
    /\ UNCHANGED <<machine, on, masked, vectors, taken, call>>

\* ... until it names none.
LeaveGic ==
    /\ machine = "gic" /\ cpu = "entry" /\ irr \ masked = {}
    /\ cpu' = "main"
    /\ UNCHANGED <<machine, on, irr, isr, masked, vectors, taken, call, now, genuine>>

-------------------------------------------------------------------------------
(* irq::dispatch() *)

\* An unspecific end of interrupt clears the highest interrupt in service of a chip.
Ended(chip) ==
    {s \in isr : Slave(s) = chip /\ \A t \in isr : Slave(t) = chip => t >= s}

\* pic_spurious()
pic_spurious(l) == l \in {master_spurious_irq, slave_spurious_irq} /\ l \notin isr

\* Where control goes after an interrupt.
Back == IF machine = "pic" THEN "main" ELSE "entry"

\* A spurious interrupt is dropped; the slave's costs the master its cascade line.
DispatchSpurious ==
    /\ cpu = "dispatch" /\ machine = "pic" /\ pic_spurious(now)
    /\ isr' = IF Slave(now) THEN isr \ Ended(FALSE) ELSE isr
    /\ cpu' = "main"
    /\ UNCHANGED <<machine, on, irr, masked, vectors, taken, call, now, genuine>>

Dispatch ==
    /\ cpu = "dispatch" /\ ~ (machine = "pic" /\ pic_spurious(now))
    /\ cpu' = IF now \in taken THEN "handler" ELSE "end"
    /\ UNCHANGED <<machine, on, irr, isr, masked, vectors, taken, call, now, genuine>>

RunHandler ==
    /\ cpu = "handler"
    /\ cpu' = "end"
    /\ UNCHANGED <<machine, on, irr, isr, masked, vectors, taken, call, now, genuine>>

\* A bug: only the slave is told.
EndOfInterrupt_SlaveOnly ==
    /\ cpu = "end"
    /\ isr' = IF machine = "pic" THEN isr \ Ended(Slave(now)) ELSE isr \ {now}
    /\ cpu' = Back
    /\ UNCHANGED <<machine, on, irr, masked, vectors, taken, call, now, genuine>>

\* pic_end_of_interrupt(): the slave first, then the master; gicv2_end_of_interrupt()
\* names its interrupt.
EndOfInterrupt ==
    /\ cpu = "end"
    /\ isr' = IF machine = "pic"
                THEN isr \ (Ended(FALSE) \union IF Slave(now) THEN Ended(TRUE) ELSE {})
                ELSE isr \ {now}
    /\ cpu' = Back
    /\ UNCHANGED <<machine, on, irr, masked, vectors, taken, call, now, genuine>>

-------------------------------------------------------------------------------
Ack(l) == AckPic(l) \/ SpuriousMaster(l) \/ SpuriousSlave(l) \/ AckGic(l)

Calls == RequestTake \/ RequestEnable \/ ReleaseUnhook \/ ReleaseForget
Service == LeaveGic \/ DispatchSpurious \/ Dispatch \/ RunHandler \/ EndOfInterrupt

Next ==
    \/ \E l \in Requestable : RequestVector(l) \/ ReleaseMask(l) \/ Raise(l)
    \/ \E l \in Lines : Ack(l)
    \/ EnterGic
    \/ EnableInterrupts
    \/ Calls
    \/ Service

\* The kernel enables interrupts, interrupts run to their end, and the controller
\* presents what is requested to a core that takes interrupts; not every request is
\* withdrawn at that moment.
Fairness ==
    /\ WF_vars(Service) /\ WF_vars(EnableInterrupts) /\ WF_vars(EnterGic)
    /\ WF_vars(\E l \in Lines : AckPic(l) \/ AckGic(l))

Spec == Init /\ [][Next]_vars /\ Fairness

\* Every acknowledge of the core is answered by exactly one end of interrupt, spurious
\* ones and lines released in the same moment included, so that between interrupts
\* nothing is left in service; and a driver's handler runs only for a request that was
\* there when the core acknowledged it, while the driver holds the line
\* (irq.cpp:78-105, pic.cpp:95-113).
ServiceSound ==
    /\ cpu = "main" => isr = {}
    /\ cpu = "handler" => genuine /\ now \in taken \cap isr

\* While a line a driver holds open is requested, the core does not go on without
\* taking interrupts (irq.cpp:102-103: without the end of interrupt "no further
\* interrupt at that priority is delivered").  A device of higher rank that never
\* stops asking may still come before it.
RequestsServed ==
    \A l \in Requestable :
        (l \in irr /\ l \notin masked) ~> (l \notin irr \/ l \in masked \/ cpu # "main")
===============================================================================
