----------------------------- MODULE ConsoleInput -----------------------------
(***************************************************************************)
(* How a key reaches the shell.  One input port of the machine, chosen     *)
(* once: COM1 (platform/pc/serial_input.cpp) or the PS/2 keyboard          *)
(* (platform/pc/ps2_keyboard.cpp) on an edge-triggered 8259 line, or the   *)
(* PL011 (platform/arm/pl011_input.cpp) on a level-sensitive GIC line.     *)
(* The driver's boot sequence, its interrupt handler and the shell's       *)
(* read_line() run on one core; bytes arrive at the device at any time,    *)
(* also while the handler runs.  The ring between handler and shell is the *)
(* one of InputQueue.                                                      *)
(***************************************************************************)
EXTENDS InputQueue

CONSTANTS
    FifoDepth,          \* bytes the device holds
    BytesPerInterrupt,  \* bytes_per_interrupt
    Trigger             \* fill level that raises the PL011's receive interrupt

ASSUME ConsoleAssumption ==
    /\ FifoDepth \in Nat \ {0} /\ Trigger \in Nat \ {0}
    /\ BytesPerInterrupt \in Nat /\ BytesPerInterrupt > FifoDepth
    /\ {"x", "nl"} \subseteq Chars /\ Chars \cap {"cr", "release", "E0", "aux"} = {}
    /\ MaxRead >= 1

VARIABLES
    port,     \* the device under study, fixed
    boot,     \* how far the driver's initialize() has come
    enabled,  \* the device's interrupt enable
    fifo,     \* the bytes the device holds, oldest first
    prefixed, \* the keyboard, the driver being ready, has sent 0xE0 and owes the rest
    irr,      \* the 8259's request latch for the line
    ris,      \* the PL011's raised interrupts, and "armed": its timeout runs
    keyed,    \* the last byte came when the driver was ready
    cpu,      \* "main", or where the interrupt handler is
    count,    \* bytes this run of the handler has read
    extended, \* extended_ of the keyboard's ScancodeDecoder
    shell     \* where read_line() is

device == <<enabled, fifo, prefixed, irr, ris, keyed>>
handler == <<cpu, count, extended>>
allVars == <<vars, port, boot, device, handler, shell>>

EdgeTriggered == port # "pl011"

\* A byte, and whether it is the second half of an extended key.
Byte(c, second) == [code |-> c, second |-> second]

\* Only the keyboard controller has a second port and an extended prefix.
Codes == IF port = "kbd0" THEN {"x", "release", "E0", "aux"} ELSE {"x", "cr"}

\* The device asks for an interrupt.
Level == IF EdgeTriggered THEN enabled /\ fifo # <<>> ELSE enabled /\ ris \cap {"rx", "rt"} # {}

\* The 8259 remembers a rising edge, masked or not.
Edge == irr' = (irr \/ (EdgeTriggered /\ ~ Level /\ Level'))

\* What the firmware leaves behind: bytes nobody read, the device enabled or not,
\* and no edge, because the controller has been initialised since.
Leftovers == {<<>>, <<Byte("x", FALSE)>>}

InitConsole ==
    /\ head = 0 /\ tail = 0 /\ buffer = [i \in Index |-> "x"]
    /\ pc = "idle" /\ want = 0 /\ out = <<>> /\ saved = 0 /\ cell = "x"
    /\ port \in {"com1", "kbd0", "pl011"}
    /\ boot = "start" /\ enabled \in BOOLEAN
    /\ fifo \in Leftovers
    /\ prefixed = FALSE /\ irr = FALSE /\ ris = {} /\ keyed = FALSE
    /\ cpu = "main" /\ count = 0 /\ extended \in BOOLEAN
    /\ shell = "booting"

-------------------------------------------------------------------------------
(* Bytes arrive. *)

\* While a handler runs, the line is too slow to bring more bytes than its loop
\* still has turns for (a bound on the environment).
Paced == Len(fifo) < FifoDepth /\ (cpu # "main" => count + Len(fifo) < BytesPerInterrupt)

Arrive(c) ==
    /\ Paced
    /\ fifo' = Append(fifo, Byte(c, prefixed /\ c # "aux"))
    /\ prefixed' = IF c = "aux" THEN prefixed ELSE c = "E0" /\ boot = "on"
    /\ keyed' = (boot = "on")
    /\ ris' = IF EdgeTriggered THEN ris
              ELSE ris \union {"armed"} \union (IF Len(fifo') >= Trigger THEN {"rx"} ELSE {})
    /\ UNCHANGED <<vars, port, boot, enabled, handler, shell>>
    /\ Edge

\* The PL011 raises its receive timeout some bit times after the last byte, far
\* longer than a handler takes; IMSC lets it through.
ReceiveTimeout ==
    /\ "armed" \in ris /\ cpu = "main"
    /\ ris' = (ris \ {"armed"}) \union {"rt"}
    /\ UNCHANGED <<vars, port, boot, enabled, fifo, prefixed, irr, keyed, handler, shell>>

-------------------------------------------------------------------------------
(* The driver's initialize(), with interrupts still off. *)

\* receive_queue.clear(), and decoder.reset() of the keyboard's
BootClear ==
    /\ boot = "start"
    /\ tail' = head
    /\ extended' = FALSE
    /\ boot' = "configure"
    /\ UNCHANGED <<head, buffer, pc, want, cell, out, saved, port, device, cpu, count, shell>>

\* enable_first_port_interrupt() and enable_scanning(): whatever byte is read
\* back as the configuration, the interrupt is on and the clock runs in what is
\* written.  The byte read is the oldest in the buffer.
EnableKeyboard ==
    /\ enabled' = TRUE
    /\ fifo' \in {fifo, IF fifo = <<>> THEN fifo ELSE Tail(fifo)}
    /\ ris' = ris

\* OUT2, then the FIFO control register, which empties the FIFO, then IER.
EnableSerial == enabled' = TRUE /\ fifo' = <<>> /\ ris' = ris

\* IFLS, ICR, IMSC; the bytes stay in the FIFO.
EnablePl011 == enabled' = TRUE /\ fifo' = fifo /\ ris' = ris \ {"rx", "rt"}

BootConfigure ==
    /\ boot = "configure"
    /\ CASE port = "kbd0" -> EnableKeyboard
         [] port = "com1" -> EnableSerial
         [] OTHER -> EnablePl011
    /\ boot' = IF EdgeTriggered THEN "drain" ELSE "request"
    /\ UNCHANGED <<vars, port, prefixed, keyed, handler, shell>>
    /\ Edge

\* The controller never answers: ps2_keyboard_initialize() gives up.
BootSilent ==
    /\ boot = "configure" /\ port = "kbd0"
    /\ boot' = "off"
    /\ UNCHANGED <<vars, port, device, handler, shell>>

\* A bug: nothing is drained.
BootDrain_Skip ==
    /\ boot = "drain"
    /\ boot' = "request"
    /\ UNCHANGED <<vars, port, device, handler, shell>>

\* One turn of the draining loop.
BootDrain ==
    /\ boot = "drain"
    /\ IF fifo = <<>> THEN boot' = "request" /\ UNCHANGED fifo
                      ELSE fifo' = Tail(fifo) /\ UNCHANGED boot
    /\ UNCHANGED <<vars, port, enabled, prefixed, ris, keyed, handler, shell>>
    /\ irr' = (irr \/ (port = "kbd0" /\ fifo' # <<>>))

\* irq::request() unmasks the line and attach_input() adds the device; the boot
\* goes on to enable_interrupts().  Or irq::request() or register_device() fails,
\* and the line is left, or put back, masked.
BootRequest ==
    /\ boot = "request"
    /\ boot' \in {"on", "off"}
    /\ shell' = IF boot' = "on" THEN "ask" ELSE shell
    /\ UNCHANGED <<vars, port, device, handler>>

-------------------------------------------------------------------------------
(* The interrupt handler. *)

Deliver ==
    /\ boot = "on" /\ cpu = "main"
    /\ IF EdgeTriggered THEN irr /\ irr' = FALSE ELSE Level /\ irr' = irr
    /\ cpu' = "test" /\ count' = 0
    /\ UNCHANGED <<vars, port, boot, enabled, fifo, prefixed, ris, keyed, extended, shell>>

\* normalize() of the serial drivers
normalize(c) == IF c = "cr" THEN "nl" ELSE c

\* A bug: a byte of the other port goes through the decoder.
NextExtended_Auxiliary(c) == c = "E0"

\* ScancodeDecoder::feed()'s extended_ after a byte; auxiliary bytes do not
\* reach the decoder.
NextExtended(c) == IF c = "aux" THEN extended ELSE c = "E0"

\* The character a byte of the keyboard stands for, if any.
Decodes(c) == ~ extended /\ c \in Chars

\* One turn of the loop: the byte leaves the device and its character, if it is
\* one, enters the ring.  The keyboard's line falls with every byte read and rises
\* with the next; the PL011's interrupts fall with the FIFO.
HandlerTake ==
    /\ cpu = "test" /\ fifo # <<>> /\ count < BytesPerInterrupt
    /\ LET c == Head(fifo).code IN
         IF port = "kbd0"
           THEN /\ extended' = NextExtended(c)
                /\ IF Decodes(c) THEN Push(c) ELSE UNCHANGED vars
           ELSE Push(normalize(c)) /\ UNCHANGED extended
    /\ fifo' = Tail(fifo)
    /\ count' = count + 1
    /\ ris' = ris \ ((IF fifo' = <<>> THEN {"rt", "armed"} ELSE {})
                     \union (IF Len(fifo') < Trigger THEN {"rx"} ELSE {}))
    /\ irr' = (irr \/ (port = "kbd0" /\ fifo' # <<>>))
    /\ UNCHANGED <<port, boot, enabled, prefixed, keyed, cpu, shell>>

\* The loop ends: nothing left, or its last turn taken.
HandlerLeave ==
    /\ cpu = "test" /\ (fifo = <<>> \/ count = BytesPerInterrupt)
    /\ cpu' = IF port = "pl011" THEN "clear" ELSE "return"
    /\ UNCHANGED <<vars, port, boot, device, count, extended, shell>>

\* ICR = clear_all
HandlerClear ==
    /\ cpu = "clear"
    /\ ris' = ris \ {"rx", "rt"}
    /\ cpu' = "return"
    /\ UNCHANGED <<vars, port, boot, enabled, fifo, prefixed, irr, keyed, count, extended, shell>>

\* End of interrupt and return; a halted core goes on after the halt.
HandlerReturn ==
    /\ cpu = "return"
    /\ cpu' = "main" /\ count' = 0
    /\ shell' = IF shell = "halted" THEN "ask" ELSE shell
    /\ UNCHANGED <<vars, port, boot, device, extended>>

-------------------------------------------------------------------------------
(* read_line() of the shell. *)

\* read_character(): console::read() asks the attached devices for one character.
ShellAsk ==
    /\ cpu = "main" /\ shell = "ask"
    /\ ReadBegin(1)
    /\ shell' = "reading"
    /\ UNCHANGED <<port, boot, device, handler>>

ShellRead ==
    /\ cpu = "main" /\ shell = "reading"
    /\ ReadTest \/ ReadCopy \/ ReadAdvance
    /\ shell' = IF pc' = "idle" THEN "answered" ELSE shell
    /\ UNCHANGED <<port, boot, device, handler>>

\* With a character, the line is edited or ended and the next one is asked for;
\* without, the next instruction halts the core.
ShellTake ==
    /\ cpu = "main" /\ shell = "answered"
    /\ shell' = IF out = <<>> THEN "empty" ELSE "ask"
    /\ UNCHANGED <<vars, port, boot, device, handler>>

\* wait_for_interrupt()
ShellHalt ==
    /\ cpu = "main" /\ shell = "empty"
    /\ shell' = "halted"
    /\ UNCHANGED <<vars, port, boot, device, handler>>

\* A bug: the timer was never started.
TimerTick_Off == cpu = "off" /\ UNCHANGED allVars

\* The periodic timer interrupt wakes a halted core.
TimerTick ==
    /\ cpu = "main" /\ shell = "halted"
    /\ shell' = "ask"
    /\ UNCHANGED <<vars, port, boot, device, handler>>

-------------------------------------------------------------------------------
Boot == BootClear \/ BootConfigure \/ BootSilent \/ BootDrain \/ BootRequest
Handler == HandlerTake \/ HandlerLeave \/ HandlerClear \/ HandlerReturn
Shell == ShellAsk \/ ShellRead \/ ShellTake \/ ShellHalt

NextConsole ==
    \/ \E c \in Codes : Arrive(c)
    \/ ReceiveTimeout
    \/ Boot
    \/ Deliver
    \/ Handler
    \/ Shell
    \/ TimerTick

\* The interrupt controller delivers what is requested, the UART's timeout and the
\* periodic timer come round, and handlers run to their end.  Bytes come far slower
\* than instructions run, so that interrupts do not shut the shell out for ever
\* (strong fairness).  Nobody has to type.
FairConsole ==
    /\ InitConsole /\ [][NextConsole]_allVars
    /\ WF_allVars(ReceiveTimeout) /\ WF_allVars(Deliver) /\ WF_allVars(TimerTick)
    /\ WF_allVars(Handler) /\ SF_allVars(Shell)

\* A byte that came after the driver was ready is fetched by an interrupt, with
\* everything before it: no byte waits in the device for an edge or a trigger level
\* that never comes (serial_input.cpp:90-92, ps2_keyboard.cpp:218-220,
\* pl011_input.cpp:31-34).
WaitingIsServed == keyed /\ fifo # <<>> ~> cpu = "test"

\* A character in the ring is read by the shell, also one that arrives between
\* its look at the ring and the halt (shell.cpp:115-119).
CharacterIsRead == boot = "on" /\ head # tail ~> head = tail \/ pc = "copy"

\* No half of an extended key, no release and no byte of the other port becomes a
\* character, wherever interrupts split the sequence (scancode.cpp:37-57).  A key
\* whose first half the boot drained is not covered.
OnlyKeysBecomeCharacters ==
    [][(port = "kbd0" /\ head' # head) => ~ Head(fifo).second /\ Head(fifo).code \in Chars]_allVars
===============================================================================
