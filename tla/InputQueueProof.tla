--------------------------- MODULE InputQueueProof ----------------------------
(***************************************************************************)
(* For every capacity: the ring between an interrupt handler and its       *)
(* reader is a first-in first-out channel, on its own (InputQueue) and in  *)
(* the hands of the drivers and the shell (ConsoleInput, in the second     *)
(* part).  The first part uses nothing of ConsoleInput.                    *)
(***************************************************************************)
EXTENDS ConsoleInput, SequenceTheorems, TLAPS

\* CopiedIsFront needs the test of read() to stay true until the tail moves,
\* and the channel needs clear() not to run past the head.
Inv == TypeOK /\ CopiedIsFront /\ ClearStaysBehind

\* An empty ring satisfies the invariant.
LEMMA InitEstablishes == Init => Inv
  BY QueueAssumption
  DEF QueueAssumption, Init, Inv, TypeOK, CopiedIsFront, ClearStaysBehind, Index

\* push() between any two accesses of the reader keeps it.
LEMMA PushKeeps ==
    ASSUME Inv, NEW c \in Chars, Push(c)
    PROVE  Inv'
  <1> USE QueueAssumption DEF QueueAssumption
  <1>1. TypeOK'
    BY DEF Inv, TypeOK, Push, Following, Index
  <1>2. CopiedIsFront'
    BY DEF Inv, TypeOK, CopiedIsFront, Push, Following, Index
  <1>3. ClearStaysBehind'
    BY DEF Inv, TypeOK, ClearStaysBehind, Push, Following, Index, Distance, Available
  <1> QED
    BY <1>1, <1>2, <1>3 DEF Inv

\* So does every step of the reader.
LEMMA NextKeeps ==
    ASSUME Inv, [Next]_vars
    PROVE  Inv'
  <1> USE QueueAssumption DEF QueueAssumption
  <1>1. CASE \E c \in Chars : Push(c)
    BY <1>1, PushKeeps
  <1>2. ASSUME NEW n \in 0..MaxRead, ReadBegin(n)
        PROVE  Inv'
    BY <1>2 DEF Inv, TypeOK, CopiedIsFront, ClearStaysBehind, ReadBegin, Index
  <1>3. CASE ReadTest
    BY <1>3 DEF Inv, TypeOK, CopiedIsFront, ClearStaysBehind, ReadTest
  <1>4. CASE ReadCopy
    BY <1>4 DEF Inv, TypeOK, CopiedIsFront, ClearStaysBehind, ReadCopy
  <1>5. CASE ReadAdvance
    BY <1>5 DEF Inv, TypeOK, CopiedIsFront, ClearStaysBehind, ReadAdvance, Following, Index
  <1>6. CASE ClearBegin
    BY <1>6 DEF Inv, TypeOK, CopiedIsFront, ClearStaysBehind, ClearBegin, Available,
                Distance, Index
  <1>7. CASE ClearEnd
    BY <1>7 DEF Inv, TypeOK, CopiedIsFront, ClearStaysBehind, ClearEnd
  <1>8. CASE UNCHANGED vars
    BY <1>8 DEF vars, Inv, TypeOK, CopiedIsFront, ClearStaysBehind, Available, Distance
  <1> QED
    BY <1>1, <1>2, <1>3, <1>4, <1>5, <1>6, <1>7, <1>8 DEF Next

\* The invariant of the ring, for every capacity.
THEOREM InvHolds == Spec => []Inv
  <1>1. Inv /\ [Next]_vars => Inv'
    BY NextKeeps
  <1> QED
    BY <1>1, InitEstablishes, PTL DEF Spec

\* A read() never hands over more than it was asked for, nor leaves the ring.
THEOREM TypesHold == Spec => []TypeOK
  BY InvHolds, PTL DEF Inv

\* No interrupt overwrites the character read() is passing on.
THEOREM FrontIsSafe == Spec => []CopiedIsFront
  BY InvHolds, PTL DEF Inv

\* clear() never discards a character that arrived after it looked.
THEOREM ClearIsSafe == Spec => []ClearStaysBehind
  BY InvHolds, PTL DEF Inv

-------------------------------------------------------------------------------
\* What lies between two indices is a sequence shorter than the ring.
LEMMA ContentType ==
    ASSUME NEW t \in Index, NEW h \in Index, NEW buf \in [Index -> Chars]
    PROVE  /\ Distance(t, h) \in 0..(Capacity - 1)
           /\ \A k \in 1..Distance(t, h) : SlotAfter(t, k - 1) \in Index
           /\ Content(t, h, buf) \in Seq(Chars)
           /\ Len(Content(t, h, buf)) = Distance(t, h)
           /\ \A k \in 1..Distance(t, h) : Content(t, h, buf)[k] = buf[SlotAfter(t, k - 1)]
  <1> USE QueueAssumption DEF QueueAssumption
  <1>1. Distance(t, h) \in 0..(Capacity - 1)
    BY DEF Distance, Index
  <1>2. \A k \in 1..Distance(t, h) : SlotAfter(t, k - 1) \in Index
    BY <1>1 DEF SlotAfter, Index
  <1> QED
    BY <1>1, <1>2 DEF Content

\* Storing at the head of a ring that is not full appends.
LEMMA ContentPush ==
    ASSUME NEW t \in Index, NEW h \in Index, NEW buf \in [Index -> Chars], NEW c \in Chars,
           Following(h) # t
    PROVE  Content(t, Following(h), [buf EXCEPT ![h] = c]) = Append(Content(t, h, buf), c)
  <1> USE QueueAssumption DEF QueueAssumption
  <1> DEFINE new == [buf EXCEPT ![h] = c]
             n == Distance(t, h)
             old == Content(t, h, buf)
             s == Content(t, Following(h), new)
             a == Append(old, c)
  <1>1. Following(h) \in Index /\ new \in [Index -> Chars]
    BY DEF Following, Index
  <1>2. n \in Nat /\ Distance(t, Following(h)) = n + 1
    BY DEF Distance, Following, Index
  <1>3. SlotAfter(t, n) = h /\ \A k \in 1..n : SlotAfter(t, k - 1) # h
    BY DEF SlotAfter, Distance, Index
  <1>4. /\ s \in Seq(Chars) /\ Len(s) = n + 1
        /\ \A k \in 1..(n + 1) : s[k] = new[SlotAfter(t, k - 1)]
    <2> HIDE DEF new
    <2>1. /\ s \in Seq(Chars) /\ Len(s) = Distance(t, Following(h))
          /\ \A k \in 1..Distance(t, Following(h)) : s[k] = new[SlotAfter(t, k - 1)]
      BY <1>1, ContentType
    <2> QED
      BY <1>2, <2>1
  <1>5. /\ old \in Seq(Chars) /\ Len(old) = n
        /\ \A k \in 1..n : old[k] = buf[SlotAfter(t, k - 1)] /\ SlotAfter(t, k - 1) \in Index
    BY ContentType
  <1>6. /\ a \in Seq(Chars) /\ Len(a) = n + 1
        /\ \A k \in 1..n : a[k] = old[k]
        /\ a[n + 1] = c
    BY <1>5, AppendProperties
  <1>7. \A k \in 1..Len(s) : s[k] = a[k]
    <2> SUFFICES ASSUME NEW k \in 1..(n + 1) PROVE s[k] = a[k]
      BY Zenon, <1>4
    <2>1. CASE k = n + 1
      <3>1. k - 1 = n
        BY <1>2, <2>1
      <3> QED
        BY Zenon, <1>3, <1>4, <1>6, <2>1, <3>1
    <2>2. CASE k # n + 1
      <3>1. k \in 1..n
        BY <1>2, <2>2
      <3> QED
        BY Zenon, <1>3, <1>4, <1>5, <1>6, <3>1
    <2> QED
      BY Zenon, <2>1, <2>2
  <1> QED
    BY Zenon, <1>4, <1>6, <1>7, SeqEqual

\* Moving the tail over a stretch of the content forgets just that stretch.
LEMMA ContentForget ==
    ASSUME NEW t \in Index, NEW s \in Index, NEW h \in Index, NEW buf \in [Index -> Chars],
           Distance(t, s) <= Distance(t, h)
    PROVE  Content(s, h, buf) =
              SubSeq(Content(t, h, buf), Distance(t, s) + 1, Len(Content(t, h, buf)))
  <1> USE QueueAssumption DEF QueueAssumption
  <1> DEFINE n == Distance(t, h)
             m == Distance(t, s)
             old == Content(t, h, buf)
             new == Content(s, h, buf)
             sub == SubSeq(old, m + 1, n)
  <1>1. n \in Nat /\ m \in Nat /\ m <= n /\ Distance(s, h) = n - m
    BY DEF Distance, Index
  <1>2. /\ old \in Seq(Chars) /\ Len(old) = n
        /\ \A k \in 1..n : old[k] = buf[SlotAfter(t, k - 1)]
    BY ContentType
  <1>3. /\ new \in Seq(Chars) /\ Len(new) = n - m
        /\ \A k \in 1..(n - m) : new[k] = buf[SlotAfter(s, k - 1)]
    BY <1>1, ContentType
  <1>4. \A k \in 1..(n - m) : SlotAfter(s, k - 1) = SlotAfter(t, m + k - 1)
    BY DEF SlotAfter, Distance, Index
  <1>5. /\ sub \in Seq(Chars) /\ Len(sub) = n - m
        /\ \A k \in 1..(n - m) : sub[k] = old[m + k]
    <2>1. \A k \in (m + 1)..n : old[k] \in Chars
      BY <1>1, <1>2, ElementOfSeq
    <2>2. /\ sub \in Seq(Chars)
          /\ Len(sub) = IF m + 1 <= n THEN n - (m + 1) + 1 ELSE 0
          /\ \A k \in 1..(n - (m + 1) + 1) : sub[k] = old[m + 1 + k - 1]
      <3> HIDE DEF old, n, m
      <3> QED
        BY <1>1, <2>1, SubSeqProperties
    <2> QED
      BY <1>1, <2>2
  <1>6. \A k \in 1..(n - m) : new[k] = sub[k]
    <2> SUFFICES ASSUME NEW k \in 1..(n - m) PROVE new[k] = sub[k]
      BY Zenon
    <2>1. m + k \in 1..n
      BY <1>1
    <2>2. old[m + k] = buf[SlotAfter(t, m + k - 1)]
      <3>1. m + k \in Int /\ (m + k) - 1 = m + k - 1
        BY <1>1
      <3> HIDE DEF old, m, n
      <3> QED
        BY <1>2, <2>1, <3>1
    <2>3. new[k] = buf[SlotAfter(t, m + k - 1)]
      BY <1>3, <1>4
    <2>4. sub[k] = old[m + k]
      BY <1>5
    <2> QED
      BY Zenon, <2>2, <2>3, <2>4
  <1>7. new = sub
    BY Zenon, <1>3, <1>5, <1>6, SeqEqual
  <1> QED
    BY <1>2, <1>7

\* Moving the tail by one takes the first character.
LEMMA ContentTake ==
    ASSUME NEW t \in Index, NEW h \in Index, NEW buf \in [Index -> Chars], h # t
    PROVE  /\ Content(t, h, buf) # <<>>
           /\ Head(Content(t, h, buf)) = buf[t]
           /\ Content(Following(t), h, buf) = Tail(Content(t, h, buf))
  <1> USE QueueAssumption DEF QueueAssumption
  <1> DEFINE old == Content(t, h, buf)
  <1>1. /\ Distance(t, h) \in Nat /\ Distance(t, h) >= 1 /\ SlotAfter(t, 0) = t
        /\ Following(t) \in Index /\ Distance(t, Following(t)) = 1
    BY DEF Distance, SlotAfter, Following, Index
  <1>2. /\ old \in Seq(Chars) /\ Len(old) = Distance(t, h)
        /\ \A k \in 1..Distance(t, h) : old[k] = buf[SlotAfter(t, k - 1)]
    BY ContentType
  <1>3. old[1] = buf[t]
    <2>1. old[1] = buf[SlotAfter(t, 1 - 1)]
      <3> HIDE DEF old
      <3> QED
        BY <1>1, <1>2
    <2> QED
      BY <1>1, <2>1
  <1>4. Content(Following(t), h, buf) = SubSeq(old, 2, Len(old))
    <2>1. Content(Following(t), h, buf) = SubSeq(old, Distance(t, Following(t)) + 1, Len(old))
      BY ZenonT(40), <1>1, ContentForget
    <2> QED
      BY <1>1, <2>1
  <1> HIDE DEF old
  <1>5. old # <<>>
    BY <1>1, <1>2
  <1>6. Head(old) = buf[t]
    BY <1>2, <1>3, <1>5
  <1>7. Tail(old) = SubSeq(old, 2, Len(old))
    BY <1>2, <1>5, TailIsSubSeq
  <1> QED
    BY <1>4, <1>5, <1>6, <1>7 DEF old

\* Every step of the ring is a step of the channel or changes nothing in it.
LEMMA StepRefines ==
    ASSUME Inv, [Next]_vars
    PROVE  [Channel!Next]_Channel!vars
  <1> USE QueueAssumption DEF QueueAssumption
  <1>0. /\ head \in Index /\ tail \in Index /\ saved \in Index
        /\ buffer \in [Index -> Chars]
    BY DEF Inv, TypeOK
  <1> DEFINE pending == Content(tail, head, buffer)
  <1>1. ASSUME NEW c \in Chars, Push(c)
        PROVE  Channel!Arrive(c)
    <2>1. Len(pending) = Distance(tail, head)
      BY <1>0, ContentType
    <2>2. CASE Following(head) = tail
      <3>1. Distance(tail, head) = Capacity - 1
        BY <1>0, <2>2 DEF Distance, Following, Index
      <3>2. UNCHANGED <<head, tail, buffer, out>>
        BY <1>1, <2>2 DEF Push
      <3>3. ~(Len(pending) < Capacity - 1)
        BY <2>1, <3>1
      <3>4. pending' = pending
        BY <3>2
      <3> HIDE DEF pending
      <3>5. pending' = IF Len(pending) < Capacity - 1 THEN Append(pending, c) ELSE pending
        BY <3>3, <3>4
      <3> QED
        BY <3>2, <3>5 DEF Channel!Arrive, pending
    <2>3. CASE Following(head) # tail
      <3>1. Distance(tail, head) < Capacity - 1
        BY <1>0, <2>3 DEF Distance, Following, Index
      <3>2. /\ head' = Following(head) /\ buffer' = [buffer EXCEPT ![head] = c]
            /\ UNCHANGED <<tail, out>>
        BY <1>1, <2>3 DEF Push
      <3>3. Len(pending) < Capacity - 1
        BY <2>1, <3>1
      <3>4. pending' = Append(pending, c)
        BY Zenon, <1>0, <2>3, <3>2, ContentPush
      <3> HIDE DEF pending
      <3>5. pending' = IF Len(pending) < Capacity - 1 THEN Append(pending, c) ELSE pending
        BY <3>3, <3>4
      <3> QED
        BY <3>2, <3>5 DEF Channel!Arrive, pending
    <2> QED
      BY <2>2, <2>3
  <1>2. ASSUME NEW n \in 0..MaxRead, ReadBegin(n)
        PROVE  Channel!BeginRead
    BY <1>2 DEF ReadBegin, Channel!BeginRead
  <1>3. CASE ReadAdvance
    <2>1. head # tail /\ cell = buffer[tail]
      BY <1>3 DEF Inv, CopiedIsFront, ReadAdvance
    <2>2. /\ pending # <<>> /\ Head(pending) = buffer[tail]
          /\ Content(Following(tail), head, buffer) = Tail(pending)
      BY <1>0, <2>1, ContentTake
    <2>3. tail' = Following(tail) /\ UNCHANGED <<head, buffer>> /\ out' = Append(out, cell)
      BY <1>3 DEF ReadAdvance
    <2>4. pending' = Tail(pending) /\ out' = Append(out, Head(pending))
      BY <2>1, <2>2, <2>3
    <2> QED
      BY <2>2, <2>4 DEF Channel!Take, Channel!Next
  <1>4. CASE ClearEnd
    <2>1. Distance(tail, saved) <= Distance(tail, head)
      BY <1>4 DEF Inv, ClearStaysBehind, ClearEnd, Available
    <2>2. Content(saved, head, buffer) = SubSeq(pending, Distance(tail, saved) + 1, Len(pending))
      BY <1>0, <2>1, ContentForget
    <2>3. tail' = saved /\ UNCHANGED <<head, buffer, out>>
      BY <1>4 DEF ClearEnd
    <2>4. pending' = SubSeq(pending, Distance(tail, saved) + 1, Len(pending))
      BY <2>2, <2>3
    <2>5. Distance(tail, saved) \in 0..Len(pending)
      <3>1. Len(pending) = Distance(tail, head) /\ Distance(tail, head) \in Nat
        BY <1>0, ContentType
      <3>2. Distance(tail, saved) \in Nat
        BY <1>0, ContentType
      <3> QED
        BY <2>1, <3>1, <3>2
    <2>6. Channel!Forget(Distance(tail, saved))
      BY <2>3, <2>4 DEF Channel!Forget
    <2> QED
      BY <2>5, <2>6 DEF Channel!Next
  <1>5. CASE ReadTest \/ ReadCopy \/ ClearBegin \/ UNCHANGED vars
    BY <1>5 DEF ReadTest, ReadCopy, ClearBegin, vars, Channel!vars
  <1> QED
    BY <1>1, <1>2, <1>3, <1>4, <1>5 DEF Next, Channel!Next

\* The ring buffer is a first-in first-out channel of Capacity - 1 characters,
\* whatever the capacity and wherever the interrupts fall.
THEOREM RingIsChannel == Spec => IsChannel
  <1>1. Init => Channel!Init
    BY QueueAssumption DEF QueueAssumption, Init, Channel!Init, Content, Distance
  <1>2. Inv /\ [Next]_vars => [Channel!Next]_Channel!vars
    BY StepRefines
  <1> QED
    BY <1>1, <1>2, InvHolds, PTL DEF Spec, IsChannel, Channel!Spec

-------------------------------------------------------------------------------
(***************************************************************************)
(* The drivers and the shell, for every ring, device buffer and length of  *)
(* the handler's loop: they use the ring as InputQueue expects, so that it *)
(* stays a channel, and half an extended key never becomes a character.    *)
(***************************************************************************)

\* The bytes of a device, and what the ports other than the keyboard can send.
Bytes == [code : {"x", "cr", "release", "E0", "aux"}, second : BOOLEAN]
Plain == port # "kbd0" => \A n \in 1..Len(fifo) : fifo[n].code \in {"x", "cr"}

\* Until the driver is ready no handler runs, nobody reads, and what arrives is
\* not yet known to be half of a key.
BeforeOn ==
    boot # "on" =>
        /\ cpu = "main" /\ shell = "booting" /\ pc = "idle"
        /\ prefixed = FALSE
        /\ \A n \in 1..Len(fifo) : fifo[n].second = FALSE

\* The decoder will be waiting for the rest of an extended key when the handler
\* gets to the n-th byte: the last byte of the keyboard's before it is the prefix.
Owed(bytes, waiting, n) ==
    \/ \E j \in 1..(n - 1) : /\ bytes[j].code = "E0"
                             /\ \A k \in (j + 1)..(n - 1) : bytes[k].code = "aux"
    \/ waiting = TRUE /\ \A k \in 1..(n - 1) : bytes[k].code = "aux"

\* Wherever the second half of a key is, in the device or yet to come, the
\* decoder will be waiting for it.
HalvesFollow ==
    port = "kbd0" =>
        /\ \A n \in 1..Len(fifo) : fifo[n].second => fifo[n].code # "aux" /\ Owed(fifo, extended, n)
        /\ prefixed => Owed(fifo, extended, Len(fifo) + 1)

ConsoleInv ==
    /\ Inv
    /\ pc # "clear"
    /\ fifo \in Seq(Bytes)
    /\ prefixed \in BOOLEAN
    /\ Plain
    /\ BeforeOn
    /\ HalvesFollow

-------------------------------------------------------------------------------
\* Reading a byte off the device moves the others one place down.
LEMMA ByteLeaves ==
    ASSUME fifo \in Seq(Bytes), fifo # <<>>, fifo' = Tail(fifo)
    PROVE  /\ Len(fifo) \in Nat \ {0} /\ Len(fifo') = Len(fifo) - 1
           /\ fifo' \in Seq(Bytes)
           /\ \A n \in 1..Len(fifo') : n + 1 \in 1..Len(fifo) /\ fifo'[n] = fifo[n + 1]
           /\ Head(fifo) = fifo[1] /\ fifo[1] \in Bytes
  <1>1. Len(fifo) \in Nat \ {0} /\ Head(fifo) = fifo[1] /\ fifo[1] \in Bytes
    BY HeadTailProperties
  <1>2. fifo' \in Seq(Bytes) /\ Len(fifo') = Len(fifo) - 1
    BY HeadTailProperties
  <1>3. \A n \in 1..(Len(fifo) - 1) : Tail(fifo)[n] = fifo[n + 1]
    BY HeadTailProperties
  <1> QED
    BY <1>1, <1>2, <1>3

\* A byte that arrives comes last and leaves the others where they are.
LEMMA ByteComes ==
    ASSUME fifo \in Seq(Bytes), NEW b \in Bytes, fifo' = Append(fifo, b)
    PROVE  /\ Len(fifo) \in Nat /\ Len(fifo') = Len(fifo) + 1
           /\ fifo' \in Seq(Bytes)
           /\ \A n \in 1..Len(fifo) : fifo'[n] = fifo[n]
           /\ fifo'[Len(fifo) + 1] = b
  BY AppendProperties

\* The drivers and the shell change the ring as InputQueue says, except that
\* the boot empties it in one step, before interrupts are on.
LEMMA UsesTheRing ==
    ASSUME ConsoleInv, [NextConsole]_allVars
    PROVE  [Next]_vars \/ BootClear
  <1>1. CASE HandlerTake
    <2>1. fifo # <<>> /\ fifo' = Tail(fifo) /\ fifo \in Seq(Bytes)
      BY <1>1 DEF HandlerTake, ConsoleInv
    <2>2. Head(fifo) = fifo[1] /\ 1 \in 1..Len(fifo)
      BY <2>1, ByteLeaves
    <2>3. port # "kbd0" => normalize(Head(fifo).code) \in Chars
      <3>1. port # "kbd0" => fifo[1].code \in {"x", "cr"}
        BY <2>2 DEF ConsoleInv, Plain
      <3> QED
        BY <2>2, <3>1, ConsoleAssumption DEF ConsoleAssumption, normalize
    <2>4. \/ UNCHANGED vars
          \/ \E c \in Chars : Push(c)
      <3> DEFINE c == Head(fifo).code
      <3>1. IF port = "kbd0" THEN IF Decodes(c) THEN Push(c) ELSE UNCHANGED vars
                             ELSE Push(normalize(c))
        BY <1>1 DEF HandlerTake
      <3>2. Decodes(c) => c \in Chars
        BY DEF Decodes
      <3> HIDE DEF c
      <3> QED
        BY <2>3, <3>1, <3>2 DEF c
    <2> QED
      BY <2>4 DEF Next
  <1>2. CASE ShellAsk
    <2>1. 1 \in 0..MaxRead
      BY QueueAssumption, ConsoleAssumption DEF QueueAssumption, ConsoleAssumption
    <2> QED
      BY <1>2, <2>1 DEF ShellAsk, Next
  <1>3. CASE ShellRead
    BY <1>3 DEF ShellRead, Next
  <1>4. CASE BootClear
    BY <1>4
  <1>5. CASE BootConfigure \/ BootSilent \/ BootDrain \/ BootRequest
    BY <1>5 DEF BootConfigure, BootSilent, BootDrain, BootRequest
  <1>6. CASE HandlerLeave \/ HandlerClear \/ HandlerReturn \/ Deliver \/ ReceiveTimeout
    BY <1>6 DEF HandlerLeave, HandlerClear, HandlerReturn, Deliver, ReceiveTimeout
  <1>7. CASE ShellTake \/ ShellHalt \/ TimerTick \/ \E c \in Codes : Arrive(c)
    BY <1>7 DEF ShellTake, ShellHalt, TimerTick, Arrive
  <1>8. CASE UNCHANGED allVars
    BY <1>8 DEF allVars
  <1> QED
    BY <1>1, <1>2, <1>3, <1>4, <1>5, <1>6, <1>7, <1>8
    DEF NextConsole, Boot, Handler, Shell

\* The boot's emptying of the ring keeps the ring sound; nobody is reading.
LEMMA RingKept ==
    ASSUME ConsoleInv, [NextConsole]_allVars
    PROVE  Inv'
  <1>1. CASE [Next]_vars
    BY <1>1, NextKeeps DEF ConsoleInv
  <1>2. CASE BootClear
    <2>1. Inv /\ pc = "idle"
      BY <1>2 DEF ConsoleInv, BeforeOn, BootClear
    <2>2. tail' = head /\ UNCHANGED <<head, buffer, pc, want, cell, out, saved>>
      BY <1>2 DEF BootClear
    <2> QED
      BY <2>1, <2>2 DEF Inv, TypeOK, CopiedIsFront, ClearStaysBehind
  <1> QED
    BY <1>1, <1>2, UsesTheRing

\* What the invariant says about the device, the handler and the boot.
DeviceInv ==
    /\ pc # "clear"
    /\ fifo \in Seq(Bytes)
    /\ prefixed \in BOOLEAN
    /\ Plain
    /\ BeforeOn
    /\ HalvesFollow

\* A byte arrives: it is the second half of a key only if the keyboard's last
\* byte was the prefix, and a byte of the other port leaves that as it is.
LEMMA ArriveKeeps ==
    ASSUME ConsoleInv, NEW c \in Codes, Arrive(c)
    PROVE  DeviceInv'
  <1> DEFINE b == Byte(c, prefixed /\ c # "aux")
             len == Len(fifo)
  <1>1. fifo \in Seq(Bytes) /\ prefixed \in BOOLEAN /\ fifo' = Append(fifo, b)
    BY DEF ConsoleInv, Arrive
  <1>2. b = [code |-> c, second |-> prefixed /\ c # "aux"] /\ b \in Bytes
    BY <1>1 DEF Byte, Bytes, Codes
  <1>3. /\ prefixed' = IF c = "aux" THEN prefixed ELSE c = "E0" /\ boot = "on"
        /\ UNCHANGED <<pc, port, boot, extended, cpu, shell>>
    BY DEF Arrive, vars, handler
  <1>4. b.code = c /\ b.second = (prefixed /\ c # "aux")
    BY <1>2
  <1> HIDE DEF b
  <1>5. /\ len \in Nat /\ Len(fifo') = len + 1 /\ fifo' \in Seq(Bytes)
        /\ \A n \in 1..len : fifo'[n] = fifo[n]
        /\ fifo'[len + 1] = b
    BY <1>1, <1>2, ByteComes
  <1> HIDE DEF len
  <1>6. Plain'
    <2>1. port # "kbd0" => c \in {"x", "cr"}
      BY DEF Codes
    <2>2. ASSUME port # "kbd0", NEW n \in 1..(len + 1)
          PROVE  fifo'[n].code \in {"x", "cr"}
      <3>1. CASE n = len + 1
        BY <1>4, <1>5, <2>1, <2>2, <3>1
      <3>2. CASE n \in 1..len
        BY <1>5, <2>2, <3>2 DEF ConsoleInv, Plain, len
      <3> QED
        BY <1>5, <3>1, <3>2
    <2> QED
      BY <1>3, <1>5, <2>2 DEF Plain
  <1>7. BeforeOn'
    <2> SUFFICES ASSUME boot # "on"
                 PROVE  /\ cpu = "main" /\ shell = "booting" /\ pc = "idle"
                        /\ prefixed' = FALSE
                        /\ \A n \in 1..(len + 1) : fifo'[n].second = FALSE
      BY Zenon, <1>3, <1>5 DEF BeforeOn
    <2>1. /\ cpu = "main" /\ shell = "booting" /\ pc = "idle" /\ prefixed = FALSE
          /\ \A n \in 1..len : fifo[n].second = FALSE
      BY DEF ConsoleInv, BeforeOn, len
    <2>2. ASSUME NEW n \in 1..(len + 1) PROVE fifo'[n].second = FALSE
      <3>1. CASE n = len + 1
        BY Zenon, <1>4, <1>5, <2>1, <3>1
      <3>2. CASE n \in 1..len
        BY <1>5, <2>1, <3>2
      <3>3. n = len + 1 \/ n \in 1..len
        BY <1>5
      <3> QED
        BY <3>1, <3>2, <3>3, Zenon
    <2> QED
      BY Zenon, <1>3, <2>1, <2>2
  <1>8. HalvesFollow'
    <2> SUFFICES ASSUME port = "kbd0"
                 PROVE  /\ \A n \in 1..(len + 1) : fifo'[n].second => fifo'[n].code # "aux" /\ Owed(fifo', extended', n)
                        /\ prefixed' => Owed(fifo', extended', len + 2)
      <3>1. Len(fifo') + 1 = len + 2
        BY <1>5
      <3> QED
        BY <1>3, <1>5, <3>1 DEF HalvesFollow
    <2>1. /\ \A n \in 1..len : fifo[n].second => fifo[n].code # "aux" /\ Owed(fifo, extended, n)
          /\ prefixed => Owed(fifo, extended, len + 1)
      BY DEF ConsoleInv, HalvesFollow, len
    <2>2. \A n \in 1..(len + 1) : Owed(fifo, extended, n) => Owed(fifo', extended', n)
      <3> SUFFICES ASSUME NEW n \in 1..(len + 1)
                   PROVE  Owed(fifo, extended, n) => Owed(fifo', extended', n)
        OBVIOUS
      <3>1. \A k \in 1..(n - 1) : fifo'[k].code = fifo[k].code
        BY <1>5
      <3> QED
        BY <1>3, <1>5, <3>1 DEF Owed
    <2>3. ASSUME NEW n \in 1..(len + 1), fifo'[n].second
          PROVE  fifo'[n].code # "aux" /\ Owed(fifo', extended', n)
      <3>1. CASE n = len + 1
        BY Zenon, <1>4, <1>5, <2>1, <2>2, <2>3, <3>1
      <3>2. CASE n \in 1..len
        BY <1>5, <2>1, <2>2, <2>3, <3>2
      <3> QED
        BY <1>5, <3>1, <3>2
    <2>4. ASSUME prefixed' PROVE Owed(fifo', extended', len + 2)
      <3>1. CASE c = "aux"
        <4>1. Owed(fifo, extended, len + 1)
          BY <1>3, <2>1, <2>4, <3>1
        <4>2. fifo'[len + 1].code = "aux"
          BY <1>4, <1>5, <3>1
        <4> QED
          BY <1>3, <1>5, <2>2, <4>1, <4>2 DEF Owed
      <3>2. CASE c # "aux"
        <4>1. fifo'[len + 1].code = "E0"
          BY Zenon, <1>3, <1>4, <1>5, <2>4, <3>2
        <4> QED
          BY <1>5, <4>1 DEF Owed
      <3> QED
        BY <3>1, <3>2
    <2> QED
      BY <2>3, <2>4
  <1>9. pc' # "clear" /\ prefixed' \in BOOLEAN
    BY Zenon, <1>1, <1>3 DEF ConsoleInv
  <1> QED
    BY <1>5, <1>6, <1>7, <1>8, <1>9 DEF DeviceInv

\* The handler takes a byte: what it leaves moves one place nearer, and the
\* decoder takes over the prefix, if the byte was one.
LEMMA HandlerTakeKeeps ==
    ASSUME ConsoleInv, HandlerTake
    PROVE  DeviceInv'
  <1> DEFINE len == Len(fifo)
             c == Head(fifo).code
  <1>1. fifo \in Seq(Bytes) /\ fifo # <<>> /\ fifo' = Tail(fifo) /\ prefixed \in BOOLEAN
    BY DEF ConsoleInv, HandlerTake
  <1>2. UNCHANGED <<port, boot, prefixed, cpu, shell>> /\ cpu = "test"
    BY DEF HandlerTake
  <1>3. pc' = pc
    BY DEF HandlerTake, Push, vars
  <1>4. /\ len \in Nat \ {0} /\ Len(fifo') = len - 1 /\ fifo' \in Seq(Bytes)
        /\ \A n \in 1..(len - 1) : n + 1 \in 1..len /\ fifo'[n] = fifo[n + 1]
        /\ fifo[1].code = c
    BY <1>1, ByteLeaves
  <1>5. boot = "on"
    BY <1>2 DEF ConsoleInv, BeforeOn
  <1>6. port = "kbd0" => extended' = NextExtended(c)
    BY DEF HandlerTake
  <1> HIDE DEF len, c
  <1>7. Plain'
    BY <1>2, <1>4 DEF ConsoleInv, Plain, len
  <1>8. HalvesFollow'
    <2> SUFFICES ASSUME port = "kbd0"
                 PROVE  /\ \A n \in 1..(len - 1) : fifo'[n].second =>
                               fifo'[n].code # "aux" /\ Owed(fifo', extended', n)
                        /\ prefixed => Owed(fifo', extended', len)
      <3>1. Len(fifo') + 1 = len
        BY <1>4
      <3> QED
        BY <1>2, <1>4, <3>1 DEF HalvesFollow
    <2>1. /\ \A n \in 1..len : fifo[n].second => fifo[n].code # "aux" /\ Owed(fifo, extended, n)
          /\ prefixed => Owed(fifo, extended, len + 1)
      BY DEF ConsoleInv, HalvesFollow, len
    <2>2. ASSUME NEW n \in 1..len, Owed(fifo, extended, n + 1)
          PROVE  Owed(fifo', extended', n)
      <3>1. \A k \in 1..(n - 1) : fifo'[k].code = fifo[k + 1].code
        BY <1>4
      <3>2. CASE \E j \in 1..n : fifo[j].code = "E0" /\ \A k \in (j + 1)..n : fifo[k].code = "aux"
        <4>1. PICK j \in 1..n : fifo[j].code = "E0" /\ \A k \in (j + 1)..n : fifo[k].code = "aux"
          BY <3>2
        <4>2. CASE j = 1
          <5>1. extended' = TRUE
            BY Zenon, <1>4, <1>6, <4>1, <4>2 DEF NextExtended
          <5>2. \A k \in 1..(n - 1) : fifo'[k].code = "aux"
            BY <1>4, <3>1, <4>1, <4>2
          <5> QED
            BY <5>1, <5>2 DEF Owed
        <4>3. CASE j # 1
          <5>1. j - 1 \in 1..(n - 1) /\ (j - 1) + 1 = j
            BY <1>4, <4>1, <4>3
          <5>2. fifo'[j - 1].code = "E0"
            BY <3>1, <4>1, <5>1
          <5>3. \A k \in j..(n - 1) : fifo'[k].code = "aux"
            BY <1>4, <3>1, <4>1
          <5> QED
            BY <5>1, <5>2, <5>3 DEF Owed
        <4> QED
          BY <4>2, <4>3
      <3>3. CASE extended = TRUE /\ \A k \in 1..n : fifo[k].code = "aux"
        <4>1. c = "aux"
          BY <1>4, <3>3
        <4>2. extended' = TRUE
          BY <1>6, <3>3, <4>1, Zenon DEF NextExtended
        <4>3. \A k \in 1..(n - 1) : fifo'[k].code = "aux"
          BY <1>4, <3>1, <3>3
        <4> QED
          BY <4>2, <4>3 DEF Owed
      <3>4. (n + 1) - 1 = n
        OBVIOUS
      <3> QED
        BY <2>2, <3>2, <3>3, <3>4, Zenon DEF Owed
    <2> QED
      BY <1>4, <2>1, <2>2
  <1> QED
    BY <1>1, <1>2, <1>3, <1>4, <1>5, <1>7, <1>8 DEF DeviceInv, ConsoleInv, BeforeOn

\* As long as no second half is about, there is nothing to follow.
LEMMA NoHalves ==
    ASSUME prefixed' = FALSE, \A n \in 1..Len(fifo') : fifo'[n].second = FALSE
    PROVE  HalvesFollow'
  BY DEF HalvesFollow

\* The boot reads bytes off the device without the decoder seeing them, but none
\* of them is the second half of a key it would wait for.
LEMMA BootKeeps ==
    ASSUME ConsoleInv, Boot
    PROVE  DeviceInv'
  <1>1. boot # "on"
    BY DEF Boot, BootClear, BootConfigure, BootSilent, BootDrain, BootRequest
  <1>2. /\ cpu = "main" /\ shell = "booting" /\ pc = "idle" /\ prefixed = FALSE
        /\ \A n \in 1..Len(fifo) : fifo[n].second = FALSE
    BY <1>1 DEF ConsoleInv, BeforeOn
  <1>3. UNCHANGED <<port, prefixed, pc, cpu>>
    BY DEF Boot, BootClear, BootConfigure, BootSilent, BootDrain, BootRequest, vars, device, handler
  <1>4. boot' # "on" => shell' = shell
    BY DEF Boot, BootClear, BootConfigure, BootSilent, BootDrain, BootRequest
  <1>5. fifo' = fifo \/ fifo' = <<>> \/ (fifo # <<>> /\ fifo' = Tail(fifo))
    <2>1. CASE BootConfigure
      BY <2>1, Zenon DEF BootConfigure, EnableKeyboard, EnableSerial, EnablePl011
    <2>2. CASE BootClear \/ BootSilent \/ BootDrain \/ BootRequest
      BY <2>2 DEF BootClear, BootSilent, BootDrain, BootRequest, device
    <2> QED
      BY <2>1, <2>2 DEF Boot
  <1>6. /\ fifo' \in Seq(Bytes)
        /\ \A n \in 1..Len(fifo') : \E m \in 1..Len(fifo) : fifo'[n] = fifo[m]
    <2>1. fifo \in Seq(Bytes)
      BY DEF ConsoleInv
    <2>2. CASE fifo' = fifo
      BY <2>1, <2>2
    <2>3. CASE fifo' = <<>>
      BY <2>3
    <2>4. CASE fifo # <<>> /\ fifo' = Tail(fifo)
      BY <2>1, <2>4, ByteLeaves
    <2> QED
      BY <1>5, <2>2, <2>3, <2>4
  <1>7. \A n \in 1..Len(fifo') : fifo'[n].second = FALSE
    BY <1>2, <1>6, Zenon
  <1>8. HalvesFollow'
    BY Zenon, <1>2, <1>3, <1>7, NoHalves
  <1>9. Plain'
    BY <1>3, <1>6, Zenon DEF ConsoleInv, Plain
  <1>10. BeforeOn'
    BY <1>2, <1>3, <1>4, <1>7, Zenon DEF BeforeOn
  <1> QED
    BY Zenon, <1>2, <1>3, <1>6, <1>8, <1>9, <1>10 DEF DeviceInv

\* The other steps leave the device's bytes and the decoder as they are; a shell
\* that runs means the driver is ready.
LEMMA OthersKeep ==
    ASSUME ConsoleInv,
           \/ ReceiveTimeout \/ Deliver \/ HandlerLeave \/ HandlerClear \/ HandlerReturn
           \/ Shell \/ TimerTick \/ UNCHANGED allVars
    PROVE  DeviceInv'
  <1>1. UNCHANGED <<port, boot, fifo, prefixed, extended>>
    BY Zenon DEF ReceiveTimeout, Deliver, HandlerLeave, HandlerClear, HandlerReturn, Shell, ShellAsk,
           ShellRead, ShellTake, ShellHalt, TimerTick, allVars, device, handler
  <1>2. pc' # "clear"
    BY ZenonT(40) DEF ConsoleInv, ReceiveTimeout, Deliver, HandlerLeave, HandlerClear, HandlerReturn, Shell,
           ShellAsk, ReadBegin, ShellRead, ReadTest, ReadCopy, ReadAdvance, ShellTake, ShellHalt,
           TimerTick, allVars, vars
  <1>3. boot # "on" => UNCHANGED <<cpu, shell, pc>>
    <2>1. boot # "on" => cpu = "main" /\ shell = "booting"
      BY DEF ConsoleInv, BeforeOn
    <2> QED
      BY <2>1 DEF ReceiveTimeout, Deliver, HandlerLeave, HandlerClear, HandlerReturn, Shell,
           ShellAsk, ShellRead, ShellTake, ShellHalt, TimerTick, allVars, vars, handler
  <1>4. BeforeOn'
    BY <1>1, <1>3, Zenon DEF ConsoleInv, BeforeOn
  <1>5. Plain' /\ HalvesFollow'
    BY <1>1, Zenon DEF ConsoleInv, Plain, HalvesFollow
  <1> QED
    BY Zenon, <1>1, <1>2, <1>4, <1>5 DEF DeviceInv, ConsoleInv

\* The machine starts in the invariant: at most one whole byte is left over.
LEMMA InitConsoleInv == InitConsole => ConsoleInv
  <1> SUFFICES ASSUME InitConsole PROVE ConsoleInv
    OBVIOUS
  <1> DEFINE left == Byte("x", FALSE)
  <1>1. Inv
    <2>1. "x" \in Chars /\ Capacity \in Nat /\ Capacity >= 2 /\ MaxRead \in Nat
      BY QueueAssumption, ConsoleAssumption DEF QueueAssumption, ConsoleAssumption
    <2> QED
      BY <2>1 DEF InitConsole, Inv, TypeOK, CopiedIsFront, ClearStaysBehind, Index
  <1>2. left \in Bytes /\ left.code = "x" /\ left.second = FALSE
    BY DEF Byte, Bytes
  <1>3. fifo = <<>> \/ fifo = <<left>>
    BY Zenon DEF InitConsole, Leftovers
  <1> HIDE DEF left
  <1>4. fifo \in Seq(Bytes) /\ \A n \in 1..Len(fifo) : fifo[n] = left
    <2>1. CASE fifo = <<>>
      BY <2>1
    <2>2. CASE fifo = <<left>>
      BY <1>2, <2>2
    <2> QED
      BY <1>3, <2>1, <2>2
  <1>5. Plain /\ BeforeOn /\ HalvesFollow
    <2>1. \A n \in 1..Len(fifo) : fifo[n].code = "x" /\ fifo[n].second = FALSE
      BY <1>2, <1>4, Zenon
    <2> QED
      BY <2>1, Zenon DEF InitConsole, Plain, BeforeOn, HalvesFollow
  <1> QED
    BY Zenon, <1>1, <1>4, <1>5 DEF InitConsole, ConsoleInv

\* Every step keeps it.
LEMMA NextConsoleInv ==
    ASSUME ConsoleInv, [NextConsole]_allVars
    PROVE  ConsoleInv'
  <1>1. DeviceInv'
    <2>1. CASE \E c \in Codes : Arrive(c)
      BY <2>1, ArriveKeeps
    <2>2. CASE Boot
      BY <2>2, BootKeeps
    <2>3. CASE HandlerTake
      BY <2>3, HandlerTakeKeeps
    <2>4. CASE \/ ReceiveTimeout \/ Deliver \/ HandlerLeave \/ HandlerClear \/ HandlerReturn
               \/ Shell \/ TimerTick \/ UNCHANGED allVars
      BY <2>4, OthersKeep
    <2> QED
      BY <2>1, <2>2, <2>3, <2>4 DEF NextConsole, Handler
  <1> QED
    BY <1>1, RingKept DEF DeviceInv, ConsoleInv

\* The invariant above, of the boot, the interrupt handler and the shell.
THEOREM ConsoleInvHolds == FairConsole => []ConsoleInv
  <1>1. ConsoleInv /\ [NextConsole]_allVars => ConsoleInv'
    BY NextConsoleInv
  <1> QED
    BY <1>1, InitConsoleInv, PTL DEF FairConsole

\* However the drivers, their handlers and the shell use it, the ring between
\* them is a first-in first-out channel.
THEOREM ConsoleIsChannel == FairConsole => IsChannel
  <1>1. InitConsole => Channel!Init
    BY QueueAssumption DEF QueueAssumption, InitConsole, Channel!Init, Content, Distance
  <1>2. ASSUME ConsoleInv, [NextConsole]_allVars
        PROVE  [Channel!Next]_Channel!vars
    <2>1. CASE [Next]_vars
      BY <1>2, <2>1, StepRefines DEF ConsoleInv
    <2>2. CASE BootClear
      <3> DEFINE pending == Content(tail, head, buffer)
      <3>1. head \in Index /\ tail \in Index /\ buffer \in [Index -> Chars]
        BY <1>2 DEF ConsoleInv, Inv, TypeOK
      <3>2. tail' = head /\ UNCHANGED <<head, buffer, out>>
        BY <2>2 DEF BootClear
      <3>3. Len(pending) = Distance(tail, head) /\ Distance(tail, head) \in Nat
        BY <3>1, ContentType
      <3>4. Content(head, head, buffer) = SubSeq(pending, Distance(tail, head) + 1, Len(pending))
        BY <3>1, <3>3, ContentForget
      <3>5. pending' = SubSeq(pending, Distance(tail, head) + 1, Len(pending))
        BY <3>2, <3>4
      <3>6. Distance(tail, head) \in 0..Len(pending)
        BY <3>3
      <3>7. Channel!Forget(Distance(tail, head))
        BY <3>2, <3>5 DEF Channel!Forget
      <3> QED
        BY <3>6, <3>7 DEF Channel!Next
    <2> QED
      BY <1>2, <2>1, <2>2, UsesTheRing
  <1> QED
    BY <1>1, <1>2, ConsoleInvHolds, PTL DEF FairConsole, IsChannel, Channel!Spec

\* No half of an extended key, no release and no byte of the other port becomes
\* a character (ScancodeDecoder::feed() and the keyboard's handler), wherever
\* interrupts split the sequence, for every depth of the device's buffer.
THEOREM OnlyKeys == FairConsole => OnlyKeysBecomeCharacters
  <1>1. ASSUME ConsoleInv, [NextConsole]_allVars, port = "kbd0", head' # head
        PROVE  ~ Head(fifo).second /\ Head(fifo).code \in Chars
    <2>1. HandlerTake
      <3>1. ~ (UNCHANGED allVars \/ \E c \in Codes : Arrive(c))
        BY <1>1 DEF allVars, vars, Arrive
      <3>2. ~ (ReceiveTimeout \/ Boot \/ Deliver \/ TimerTick)
        BY <1>1 DEF ReceiveTimeout, Boot, BootClear, BootConfigure, BootSilent, BootDrain,
                    BootRequest, Deliver, TimerTick, vars
      <3>3. ~ (HandlerLeave \/ HandlerClear \/ HandlerReturn)
        BY <1>1 DEF HandlerLeave, HandlerClear, HandlerReturn, vars
      <3>4. ~ Shell
        BY Zenon, <1>1 DEF Shell, ShellAsk, ReadBegin, ShellRead, ReadTest, ReadCopy, ReadAdvance,
                    ShellTake, ShellHalt, vars
      <3> QED
        BY <1>1, <3>1, <3>2, <3>3, <3>4 DEF NextConsole, Handler
    <2>2. Decodes(Head(fifo).code)
      BY <1>1, <2>1 DEF HandlerTake, vars
    <2>3. fifo \in Seq(Bytes) /\ fifo # <<>> /\ fifo' = Tail(fifo)
      BY <1>1, <2>1 DEF ConsoleInv, HandlerTake
    <2>4. Head(fifo) = fifo[1] /\ 1 \in 1..Len(fifo)
      BY <2>3, ByteLeaves
    <2>5. fifo[1].second => Owed(fifo, extended, 1)
      BY <1>1, <2>4 DEF ConsoleInv, HalvesFollow
    <2>6. ~ (\E j \in 1..(1 - 1) : TRUE)
      OBVIOUS
    <2>7. Owed(fifo, extended, 1) => extended = TRUE
      BY <2>6, Zenon DEF Owed
    <2> QED
      BY <2>2, <2>4, <2>5, <2>7, Zenon DEF Decodes
  <1>2. ConsoleInv /\ [NextConsole]_allVars =>
            [(port = "kbd0" /\ head' # head) =>
                ~ Head(fifo).second /\ Head(fifo).code \in Chars]_allVars
    BY <1>1
  <1> QED
    BY <1>2, ConsoleInvHolds, PTL DEF FairConsole, OnlyKeysBecomeCharacters

===============================================================================
