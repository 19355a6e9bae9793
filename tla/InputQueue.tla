------------------------------ MODULE InputQueue ------------------------------
(***************************************************************************)
(* shirley::io::InputQueue (kernel/io/input_queue.cpp): the ring between   *)
(* an interrupt handler and ordinary kernel code.  The handler runs with   *)
(* interrupts off on the only core, so push() is one step; it can come     *)
(* between any two memory accesses of read() and clear(), which are steps  *)
(* of their own.  Ring indices are masked with capacity - 1; capacity is a *)
(* power of two, so the mask is the wrap-around written here.              *)
(***************************************************************************)
EXTENDS Integers, Sequences

CONSTANTS
    Capacity,   \* slots of the ring
    Chars,      \* what can be typed
    MaxRead     \* longest read() asked for

ASSUME QueueAssumption ==
    /\ Capacity \in Nat /\ Capacity >= 2
    /\ MaxRead \in Nat
    /\ Chars # {}

VARIABLES
    head,       \* head_, written by the interrupt handler
    tail,       \* tail_, written by the consumer
    buffer,     \* buffer_
    pc,         \* where the consumer is
    want,       \* length of the read() in progress
    cell,       \* the character read() has copied but not yet passed
    out,        \* the characters read() has put into the caller's buffer
    saved       \* head_ as clear() loaded it

vars == <<head, tail, buffer, pc, want, cell, out, saved>>

Index == 0..(Capacity - 1)

\* (i + 1) & index_mask
Following(i) == IF i = Capacity - 1 THEN 0 ELSE i + 1

Init ==
    /\ head = 0 /\ tail = 0
    /\ buffer \in [Index -> Chars]
    /\ pc = "idle" /\ want = 0 /\ out = <<>> /\ saved = 0
    /\ cell \in Chars

\* A bug: the ring is used to the last slot, so that full looks like empty.
Push_LastSlot(c) ==
    /\ buffer' = [buffer EXCEPT ![head] = c]
    /\ head' = Following(head)
    /\ UNCHANGED <<tail, pc, want, cell, out, saved>>

\* push(), from the interrupt handler: a full ring drops the character.
Push(c) ==
    /\ IF Following(head) = tail
         THEN UNCHANGED <<head, buffer>>
         ELSE buffer' = [buffer EXCEPT ![head] = c] /\ head' = Following(head)
    /\ UNCHANGED <<tail, pc, want, cell, out, saved>>

\* read(buffer, n) is called.
ReadBegin(n) ==
    /\ pc = "idle"
    /\ pc' = "test" /\ want' = n /\ out' = <<>>
    /\ UNCHANGED <<head, tail, buffer, cell, saved>>

\* The loop's condition.
ReadTest ==
    /\ pc = "test"
    /\ pc' = IF Len(out) < want /\ tail # head THEN "copy" ELSE "idle"
    /\ UNCHANGED <<head, tail, buffer, want, cell, out, saved>>

ReadCopy ==
    /\ pc = "copy"
    /\ cell' = buffer[tail]
    /\ pc' = "advance"
    /\ UNCHANGED <<head, tail, buffer, want, out, saved>>

ReadAdvance ==
    /\ pc = "advance"
    /\ out' = Append(out, cell)
    /\ tail' = Following(tail)
    /\ pc' = "test"
    /\ UNCHANGED <<head, buffer, want, cell, saved>>

\* clear() loads head_ ...
ClearBegin ==
    /\ pc = "idle"
    /\ saved' = head
    /\ pc' = "clear"
    /\ UNCHANGED <<head, tail, buffer, want, cell, out>>

\* ... and stores it into tail_.
ClearEnd ==
    /\ pc = "clear"
    /\ tail' = saved
    /\ pc' = "idle"
    /\ UNCHANGED <<head, buffer, want, cell, out, saved>>

Next ==
    \/ \E c \in Chars : Push(c)
    \/ \E n \in 0..MaxRead : ReadBegin(n)
    \/ ReadTest
    \/ ReadCopy
    \/ ReadAdvance
    \/ ClearBegin
    \/ ClearEnd

Spec == Init /\ [][Next]_vars

-------------------------------------------------------------------------------
\* available(): (head_ - tail_) & index_mask
Distance(from, to) == IF to >= from THEN to - from ELSE to - from + Capacity
Available == Distance(tail, head)

\* The slot k places after slot t, and what lies between two indices.
SlotAfter(t, k) == IF t + k >= Capacity THEN t + k - Capacity ELSE t + k
Content(t, h, buf) == [k \in 1..Distance(t, h) |-> buf[SlotAfter(t, k - 1)]]

\* The variables have their types, and read() never returns more than asked.
TypeOK ==
    /\ head \in Index /\ tail \in Index /\ saved \in Index
    /\ buffer \in [Index -> Chars]
    /\ pc \in {"idle", "test", "copy", "advance", "clear"}
    /\ want \in 0..MaxRead
    /\ cell \in Chars
    /\ out \in Seq(Chars) /\ Len(out) <= want
    /\ pc \in {"copy", "advance"} => Len(out) < want

\* While read() is between copying a character and giving its slot back, no
\* interrupt overwrites that slot: the character it passes on is the one at the
\* front of the queue.
CopiedIsFront ==
    /\ pc \in {"copy", "advance"} => head # tail
    /\ pc = "advance" => cell = buffer[tail]

\* clear() discards only characters that were there when it looked: its new
\* tail is never past the head.
ClearStaysBehind == pc = "clear" => Distance(tail, saved) <= Available

Channel == INSTANCE ByteChannel WITH
    Limit <- Capacity - 1,
    pending <- Content(tail, head, buffer),
    out <- out

\* The ring is a first-in first-out channel of Capacity - 1 characters, however
\* the interrupts fall.
IsChannel == Channel!Spec

===============================================================================
