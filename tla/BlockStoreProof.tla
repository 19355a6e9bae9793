---------------------------- MODULE BlockStoreProof ----------------------------
(***************************************************************************)
(* The cache implements BlockStore for every number of blocks, buffers and *)
(* callers, when callers mark what they change.  Beyond the invariant of   *)
(* BlockCacheProof it takes what sync() has done so far: as long as no     *)
(* write has failed, the buffers it has passed are clean.                  *)
(***************************************************************************)
EXTENDS BlockCacheProof

\* sync() leaves no marked buffer behind it unless it has seen a failure; no
\* other call runs until it returns.
SyncDone ==
    op.kind \in {"sync", "shutdown"} /\ ~op.failed =>
        \A j \in Slots : j < op.next => ~Dirty(j)

\* What a reader sees with buffers e and device d; View is Seen(entries, device).
Seen(e, d) ==
    [b \in Blocks |->
        IF \E i \in Slots : e[i].valid /\ e[i].block = b
          THEN e[CHOOSE i \in Slots : e[i].valid /\ e[i].block = b].data
          ELSE d[b]]

Single(e) ==
    \A i, j \in Slots : e[i].valid /\ e[j].valid /\ e[i].block = e[j].block => i = j

-------------------------------------------------------------------------------
\* With one buffer per block the view of a block is its buffer, or the device.
LEMMA SeenBlock ==
    ASSUME NEW e, NEW d, Single(e), NEW b \in Blocks
    PROVE  /\ \A i \in Slots : e[i].valid /\ e[i].block = b => Seen(e, d)[b] = e[i].data
           /\ (\A i \in Slots : ~(e[i].valid /\ e[i].block = b)) => Seen(e, d)[b] = d[b]
  <1>1. ASSUME NEW i \in Slots, e[i].valid, e[i].block = b
        PROVE  Seen(e, d)[b] = e[i].data
    <2> DEFINE P(j) == e[j].valid /\ e[j].block = b
    <2> DEFINE c == CHOOSE j \in Slots : P(j)
    <2>1. c \in Slots /\ P(c)
      BY <1>1
    <2>2. c = i
      BY <1>1, <2>1 DEF Single
    <2>3. Seen(e, d)[b] = e[c].data
      BY <1>1 DEF Seen
    <2> HIDE DEF c
    <2> QED
      BY <2>2, <2>3
  <1>2. (\A i \in Slots : ~(e[i].valid /\ e[i].block = b)) => Seen(e, d)[b] = d[b]
    BY DEF Seen
  <1> QED
    BY <1>1, <1>2

\* Before and after a step the view is what Seen says of the buffers.
LEMMA ViewIsSeen ==
    /\ View = Seen(entries, device) /\ View' = Seen(entries', device')
    /\ Inv => Single(entries)
    /\ Inv' => Single(entries')
  <1>1. View = Seen(entries, device) /\ View' = Seen(entries', device')
    BY DEF View, Seen, Hit
  <1> QED
    BY <1>1 DEF Inv, OneBufferPerBlock, Single

\* What SeenBlock says, of the view before and after a step.
LEMMA ViewBlock ==
    ASSUME NEW b \in Blocks
    PROVE  /\ Inv => /\ \A i \in Slots : entries[i].valid /\ entries[i].block = b
                            => View[b] = entries[i].data
                     /\ (\A i \in Slots : ~(entries[i].valid /\ entries[i].block = b))
                            => View[b] = device[b]
           /\ Inv' => /\ \A i \in Slots : entries'[i].valid /\ entries'[i].block = b
                            => View'[b] = entries'[i].data
                      /\ (\A i \in Slots : ~(entries'[i].valid /\ entries'[i].block = b))
                            => View'[b] = device'[b]
  BY ViewIsSeen, SeenBlock

\* Two views that agree on every block are the same.
LEMMA SameView ==
    ASSUME NEW e, NEW d, NEW f, NEW g,
           \A b \in Blocks : Seen(e, d)[b] = Seen(f, g)[b]
    PROVE  Seen(e, d) = Seen(f, g)
  <1>1. /\ Seen(e, d) = [b \in Blocks |-> Seen(e, d)[b]]
        /\ Seen(f, g) = [b \in Blocks |-> Seen(f, g)[b]]
    BY DEF Seen
  <1> QED
    BY <1>1

\* A view that changed in one block only.
LEMMA ViewChanged ==
    ASSUME NEW b \in Blocks, NEW c, View'[b] = c,
           \A x \in Blocks : x # b => View'[x] = View[x]
    PROVE  View' = [View EXCEPT ![b] = c]
  <1> DEFINE v == View
  <1> DEFINE w == View'
  <1>1. w = [x \in Blocks |-> w[x]] /\ v = [x \in Blocks |-> v[x]]
    BY DEF View
  <1>2. w[b] = c /\ \A x \in Blocks : x # b => w[x] = v[x]
    OBVIOUS
  <1> HIDE DEF v, w
  <1>3. w = [v EXCEPT ![b] = c]
    BY <1>1, <1>2
  <1> QED
    BY <1>3 DEF v, w

-------------------------------------------------------------------------------
\* A write-back, whole or torn, is a move of the medium towards the view.
LEMMA WriteBackMoves ==
    ASSUME Inv, NEW i \in Slots
    PROVE  /\ device' = WrittenBack(i) => Store!MediaMoves
           /\ \A k \in 0..Span : Dirty(i) /\ device' = TornWrite(i, k) => Store!MediaMoves
  <1> USE CacheAssumption DEF CacheAssumption
  <1>1. entries[i] \in Entry /\ device \in [Blocks -> Content]
    BY DEF Inv, TypeOK
  <1>2. Dirty(i) => View[entries[i].block] = entries[i].data
    BY <1>1, ViewBlock DEF Dirty, Entry
  <1>3. ASSUME NEW k \in 0..Span, Dirty(i), device' = TornWrite(i, k)
        PROVE  Store!MediaMoves
    <2>1. device' = [device EXCEPT ![entries[i].block] =
                        Torn(k, View[entries[i].block], device[entries[i].block])]
      BY Zenon, <1>1, <1>2, <1>3 DEF TornWrite, Entry
    <2>2. \A new, old : Store!Torn(k, new, old) = Torn(k, new, old)
      BY DEF Store!Torn, Torn, Store!Parts, Parts
    <2>3. entries[i].block \in Blocks
      BY <1>1 DEF Entry
    <2> QED
      BY Zenon, <2>1, <2>2, <2>3 DEF Store!MediaMoves
  <1>4. Dirty(i) => WrittenBack(i) = TornWrite(i, Span)
    <2>1. \A new, old \in Content : Torn(Span, new, old) = new
      BY DEF Torn, Content, Parts
    <2> QED
      BY Zenon, <1>1, <2>1 DEF WrittenBack, TornWrite, Entry
  <1>5. Span \in 0..Span
    OBVIOUS
  <1>6. ~Dirty(i) /\ device' = WrittenBack(i) => Store!MediaMoves
    BY DEF WrittenBack, Store!MediaMoves
  <1> QED
    BY <1>3, <1>4, <1>5, <1>6

\* A buffer nobody holds can go once it is written back: the device then has
\* what a reader saw.
LEMMA VictimOnDevice ==
    ASSUME Inv, ~TrustOverwrite, NEW i \in Slots, entries[i].valid, entries[i].pins = 0
    PROVE  WrittenBack(i)[entries[i].block] = entries[i].data
  <1>1. entries[i] \in Entry /\ device \in [Blocks -> Content]
    BY DEF Inv, TypeOK
  <1>2. Holders(i) = {}
    BY UnpinnedHasNoHolder DEF Inv
  <1>3. ~entries[i].dirty => entries[i].data = device[entries[i].block]
    BY <1>2 DEF Inv, NoChangeForgotten, EditedIn
  <1> QED
    BY <1>1, <1>3 DEF WrittenBack, Dirty, Entry

\* Writing a buffer back does not touch the device block of another one.
LEMMA OthersOnDevice ==
    ASSUME Inv, NEW i \in Slots, NEW b \in Blocks, ~(entries[i].valid /\ entries[i].block = b)
    PROVE  /\ WrittenBack(i)[b] = device[b]
           /\ \A k \in 0..Span : Dirty(i) => TornWrite(i, k)[b] = device[b]
  <1>1. entries[i] \in Entry /\ device \in [Blocks -> Content]
    BY DEF Inv, TypeOK
  <1> QED
    BY <1>1 DEF WrittenBack, TornWrite, Dirty, Entry

-------------------------------------------------------------------------------
\* acquire() changes what a reader sees of the block asked for, and of no other:
\* a victim's block is seen through the device from then on.
LEMMA AcquiredView ==
    ASSUME Inv, Inv', ~TrustOverwrite, NEW b \in Blocks, NEW i \in Slots, Acquired(b, i),
           NEW e \in Entry, e.valid, e.block = b, entries' = [entries EXCEPT ![i] = e]
    PROVE  /\ View' = [View EXCEPT ![b] = e.data]
           /\ Store!MediaMoves
  <1>1. entries \in [Slots -> Entry]
    BY DEF Inv, TypeOK
  <1>2. entries'[i] = e /\ \A j \in Slots : j # i => entries'[j] = entries[j]
    BY <1>1
  <1>3. View'[b] = e.data
    BY <1>2, ViewBlock
  <1>4. ASSUME NEW x \in Blocks, x # b
        PROVE  View'[x] = View[x]
    <2>1. CASE \E j \in Slots : j # i /\ entries[j].valid /\ entries[j].block = x
      <3>1. PICK j \in Slots : j # i /\ entries[j].valid /\ entries[j].block = x
        BY <2>1
      <3>2. View[x] = entries[j].data
        BY <3>1, ViewBlock
      <3>3. View'[x] = entries'[j].data
        BY <1>2, <3>1, ViewBlock
      <3> QED
        BY <1>2, <3>1, <3>2, <3>3
    <2>2. CASE entries[i].valid /\ entries[i].block = x
      <3>1. IsVictim(i) /\ device' = WrittenBack(i)
        BY <1>4, <2>2 DEF Acquired, IsFind
      <3>2. WrittenBack(i)[x] = entries[i].data
        BY <2>2, <3>1, VictimOnDevice DEF IsVictim, Unpinned
      <3>3. View[x] = entries[i].data
        BY <2>2, ViewBlock
      <3>4. \A j \in Slots : ~(entries'[j].valid /\ entries'[j].block = x)
        BY SMTT(20), <1>2, <1>4, <2>2 DEF Inv, OneBufferPerBlock
      <3>5. View'[x] = device'[x]
        BY <3>4, ViewBlock
      <3> QED
        BY <3>1, <3>2, <3>3, <3>5
    <2>3. CASE \A j \in Slots : ~(entries[j].valid /\ entries[j].block = x)
      <3>1. View[x] = device[x]
        BY <2>3, ViewBlock
      <3>2. \A j \in Slots : ~(entries'[j].valid /\ entries'[j].block = x)
        BY <1>2, <1>4, <2>3
      <3>3. View'[x] = device'[x]
        BY <3>2, ViewBlock
      <3>4. WrittenBack(i)[x] = device[x]
        BY <2>3, OthersOnDevice
      <3> QED
        BY <3>1, <3>3, <3>4 DEF Acquired
    <2> QED
      BY <2>1, <2>2, <2>3
  <1>5. View' = [View EXCEPT ![b] = e.data]
    BY <1>3, <1>4, ViewChanged
  <1>6. Store!MediaMoves
    BY WriteBackMoves DEF Acquired, Store!MediaMoves
  <1> QED
    BY <1>5, <1>6

\* A block opened for reading holds what a reader sees.
LEMMA AcquiredIsView ==
    ASSUME Inv, NEW b \in Blocks, NEW i \in Slots, Acquired(b, i)
    PROVE  AcquiredEntry(b, "Read", i).data = View[b]
  <1>1. entries[i] \in Entry /\ device \in [Blocks -> Content]
    BY DEF Inv, TypeOK
  <1>2. CASE IsFind(i, b)
    <2>1. View[b] = entries[i].data
      BY <1>2, ViewBlock DEF IsFind
    <2> QED
      BY <1>2, <2>1 DEF AcquiredEntry, Opened, Hit, IsFind
  <1>3. CASE ~Hit(b)
    <2>1. View[b] = device[b]
      BY <1>3, ViewBlock DEF Hit
    <2> QED
      BY <1>1, <1>3, <2>1 DEF AcquiredEntry, Opened, Loaded, Entry
  <1> QED
    BY <1>2, <1>3 DEF Acquired

\* Writing device blocks of a buffer that stays where it is changes no view.
LEMMA WrittenView ==
    ASSUME Inv, Inv', NEW i \in Slots, Dirty(i),
           device' = WrittenBack(i) \/ \E k \in 0..Span : device' = TornWrite(i, k),
           \A j \in Slots : /\ entries'[j].valid = entries[j].valid
                            /\ entries'[j].block = entries[j].block
                            /\ entries'[j].data = entries[j].data
    PROVE  View' = View /\ Store!MediaMoves
  <1>1. ASSUME NEW x \in Blocks
        PROVE  View'[x] = View[x]
    <2>1. CASE \E j \in Slots : entries[j].valid /\ entries[j].block = x
      BY <2>1, ViewBlock
    <2>2. CASE \A j \in Slots : ~(entries[j].valid /\ entries[j].block = x)
      <3>1. View[x] = device[x] /\ View'[x] = device'[x]
        BY <2>2, ViewBlock
      <3> QED
        BY <2>2, <3>1, OthersOnDevice
    <2> QED
      BY <2>1, <2>2
  <1>2. View' = View
    BY <1>1, ViewIsSeen, SameView
  <1> QED
    BY <1>2, WriteBackMoves

\* acquire() that fails shows a reader nothing: a victim given up is on the device.
LEMMA FailedView ==
    ASSUME Inv, Inv', ~TrustOverwrite, NEW b \in Blocks, NEW access \in Access,
           AcquireFailed(b, access)
    PROVE  View' = View /\ Store!MediaMoves
  <1>1. CASE UNCHANGED <<entries, device>>
    <2>1. View' = View
      BY <1>1, ViewIsSeen
    <2> QED
      BY <1>1, <2>1 DEF Store!MediaMoves
  <1>2. ASSUME NEW i \in Slots, NEW k \in 0..Span, Dirty(i), device' = TornWrite(i, k),
               UNCHANGED entries
        PROVE  View' = View /\ Store!MediaMoves
    BY <1>2, WrittenView
  <1>3. ASSUME NEW i \in Slots, IsVictim(i), device' = WrittenBack(i), ~entries'[i].valid,
               \A j \in Slots : j # i => entries'[j] = entries[j]
        PROVE  View' = View /\ Store!MediaMoves
    <2>1. ASSUME NEW x \in Blocks
          PROVE  View'[x] = View[x]
      <3>1. CASE \E j \in Slots : j # i /\ entries[j].valid /\ entries[j].block = x
        BY <1>3, <3>1, ViewBlock
      <3>2. CASE entries[i].valid /\ entries[i].block = x
        <4>1. WrittenBack(i)[x] = entries[i].data
          BY <1>3, <3>2, VictimOnDevice DEF IsVictim, Unpinned
        <4>2. \A j \in Slots : ~(entries'[j].valid /\ entries'[j].block = x)
          BY SMTT(20), <1>3, <3>2 DEF Inv, OneBufferPerBlock
        <4>3. View[x] = entries[i].data /\ View'[x] = device'[x]
          BY <3>2, <4>2, ViewBlock
        <4> QED
          BY <1>3, <4>1, <4>3
      <3>3. CASE \A j \in Slots : ~(entries[j].valid /\ entries[j].block = x)
        <4>1. \A j \in Slots : ~(entries'[j].valid /\ entries'[j].block = x)
          BY <1>3, <3>3
        <4>2. View[x] = device[x] /\ View'[x] = device'[x]
          BY <3>3, <4>1, ViewBlock
        <4> QED
          BY <1>3, <3>3, <4>2, OthersOnDevice
      <3> QED
        BY <3>1, <3>2, <3>3
    <2>2. View' = View
      BY <2>1, ViewIsSeen, SameView
    <2> QED
      BY <1>3, <2>2, WriteBackMoves
  <1>4. entries \in [Slots -> Entry]
    BY DEF Inv, TypeOK
  <1>5. ASSUME NEW i \in Slots, NEW c \in Content,
               entries' = [entries EXCEPT ![i].block = b, ![i].data = c, ![i].valid = FALSE,
                                          ![i].dirty = @ /\ ~entries[i].valid]
        PROVE  ~entries'[i].valid /\ \A j \in Slots : j # i => entries'[j] = entries[j]
    BY <1>4, <1>5 DEF Entry
  <1> QED
    BY Zenon, <1>1, <1>2, <1>3, <1>5 DEF AcquireFailed

\* Without buffers a reader sees the device.
LEMMA EmptyView ==
    ASSUME Inv, NEW x \in Blocks
    PROVE  /\ entries = Fresh => View[x] = device[x]
           /\ Inv' /\ entries' = Fresh => View'[x] = device'[x]
  <1>1. \A j \in Slots : ~Fresh[j].valid
    BY DEF Fresh, EmptyEntry
  <1> QED
    BY <1>1, ViewBlock

\* After a sync() without a failure, a block that nobody edits is on the device.
LEMMA SyncedView ==
    ASSUME Inv, SyncDone, ~TrustOverwrite, op.kind \in {"sync", "shutdown"}, ~op.failed,
           op.next = op.end
    PROVE  \A b \in Blocks \ Editing : device[b] = View[b]
  <1> USE CacheAssumption DEF CacheAssumption
  <1> SUFFICES ASSUME NEW b \in Blocks, b \notin Editing
               PROVE  device[b] = View[b]
    OBVIOUS
  <1>1. \A j \in Slots : ~Dirty(j)
    <2>1. op.next = Capacity
      BY DEF Inv, TypeOK
    <2> QED
      BY <2>1 DEF SyncDone, Slots
  <1>2. CASE \E i \in Slots : entries[i].valid /\ entries[i].block = b
    <2>1. PICK i \in Slots : entries[i].valid /\ entries[i].block = b
      BY <1>2
    <2>2. ~EditedIn(i)
      BY <2>1 DEF EditedIn, Holders, Editing, Inv, HolderKeepsItsBlock
    <2>3. entries[i].data = device[b]
      BY <1>1, <2>1, <2>2 DEF Dirty, Inv, NoChangeForgotten
    <2> QED
      BY <2>1, <2>3, ViewBlock
  <1>3. CASE \A i \in Slots : ~(entries[i].valid /\ entries[i].block = b)
    BY <1>3, ViewBlock
  <1> QED
    BY <1>2, <1>3

-------------------------------------------------------------------------------
\* Only the loop of sync() itself moves on while it runs.
LEMMA SyncDoneKeeps ==
    ASSUME Inv, SyncDone, [Next]_vars
    PROVE  SyncDone'
  <1> USE CacheAssumption DEF CacheAssumption
  <1>1. op \in Op /\ entries \in [Slots -> Entry]
    BY DEF Inv, TypeOK
  <1>2. CASE op'.kind \notin {"sync", "shutdown"}
    BY <1>2 DEF SyncDone
  <1>3. CASE \E kind \in {"sync", "shutdown"} : BeginSync(kind)
    BY <1>3 DEF BeginSync, SyncDone, Slots
  <1>4. CASE SyncSkip
    BY <1>1, <1>4 DEF SyncSkip, Syncing, SyncDone, Dirty, Op, Slots
  <1>5. CASE SyncWrite
    <2>1. op.next \in Slots /\ op'.next = op.next + 1 /\ op'.failed = op.failed
      BY <1>1, <1>5 DEF SyncWrite, Syncing, Op, Slots, Inv, TypeOK
    <2>2. /\ ~entries'[op.next].dirty
          /\ \A j \in Slots : j # op.next => entries'[j] = entries[j]
      BY <1>1, <1>5, <2>1 DEF SyncWrite, Entry
    <2>3. op.kind \in {"sync", "shutdown"}
      BY <1>5 DEF SyncWrite, Syncing
    <2> QED
      BY <1>1, <2>1, <2>2, <2>3 DEF SyncDone, Dirty, Op, Slots
  <1>6. CASE \E k \in 0..Span : SyncWriteFails(k)
    BY <1>1, <1>6 DEF SyncWriteFails, SyncDone, Op
  <1>7. CASE UNCHANGED vars
    BY <1>7 DEF vars, SyncDone, Dirty
  <1>8. CASE Initialize
    <2>1. op'.kind = "idle"
      BY <1>8 DEF Initialize, Inv, TypeOK, Idle
    <2> QED
      BY <1>2, <2>1
  <1>9. CASE SyncEnds \/ PowerCut \/ TransferFails
    BY <1>2, <1>9 DEF SyncEnds, PowerCut, TransferFails, Idle
  <1>10. CASE \E kind \in {"read", "write"}, first \in Blocks, count \in 1..BlockCount :
                 BeginTransfer(kind, first, count)
    BY <1>2, <1>10 DEF BeginTransfer
  <1>11. CASE \/ \E i \in Slots : ReadStep(i)
              \/ \E i \in Slots, c \in Content : WriteStep(i, c)
    <2>1. op.kind \in {"read", "write"} /\ op' = Advanced
      BY Zenon, <1>11 DEF ReadStep, WriteStep
    <2>2. op'.kind \in {"read", "write", "idle"}
      BY <1>1, <2>1 DEF Advanced, Idle, Op
    <2> QED
      BY <1>2, <2>2
  <1>12. CASE \/ \E h \in Handles, b \in Blocks, access \in Access, i \in Slots :
                    Acquire(h, b, access, i)
              \/ \E h \in Handles, b \in Blocks, access \in Access : AcquireFails(h, b, access)
              \/ \E h \in Handles, c \in Content : Edit(h, c)
              \/ \E h \in Handles, dirty \in BOOLEAN : Release(h, dirty)
    <2>1. op' = Idle
      BY Zenon, <1>12 DEF Acquire, AcquireFails, Edit, Release
    <2> QED
      BY <1>2, <2>1 DEF Idle
  <1> QED
    BY ZenonT(40), <1>3, <1>4, <1>5, <1>6, <1>7, <1>8, <1>9, <1>10, <1>11, <1>12 DEF Next

\* A step that shows a reader nothing and lets at most some editors go.
LEMMA InternalStep ==
    ASSUME View' = View, Store!MediaMoves, Editing' \subseteq Editing, out' \in {NoOutput, Failed}
    PROVE  Store!Next
  BY DEF Store!Next, Store!Internal, Store!Quiet, NoOutput, Failed

\* A step that leaves buffers and device alone.
LEMMA StillView ==
    ASSUME UNCHANGED <<entries, device>>
    PROVE  View' = View /\ Store!MediaMoves
  <1>1. View' = View
    BY ViewIsSeen
  <1> QED
    BY <1>1 DEF Store!MediaMoves

\* Callers that neither begin nor end anything edit what they edited.
LEMMA StillEditing ==
    ASSUME UNCHANGED handles
    PROVE  Editing' = Editing
  BY DEF Editing

\* read_blocks() and write_blocks(), block by block.
LEMMA TransferRefines ==
    ASSUME Inv, Inv', ~TrustOverwrite,
           \/ \E i \in Slots : ReadStep(i)
           \/ \E i \in Slots, c \in Content : WriteStep(i, c)
           \/ TransferFails
    PROVE  Store!Next
  <1> USE CacheAssumption DEF CacheAssumption
  <1>1. op.kind \in {"read", "write"}
    BY Zenon DEF ReadStep, WriteStep, TransferFails
  <1>2. PICK b \in Blocks : b = op.next
    BY <1>1 DEF Inv, TypeOK, Op, Blocks
  <1>3. UNCHANGED handles /\ entries \in [Slots -> Entry]
    BY Zenon DEF ReadStep, WriteStep, TransferFails, Inv, TypeOK
  <1>4. Editing' = Editing
    BY <1>3, StillEditing
  <1>5. ASSUME NEW i \in Slots, ReadStep(i)
        PROVE  Store!Next
    <2> DEFINE e == AcquiredEntry(b, "Read", i)
    <2>1. Acquired(b, i) /\ entries' = [entries EXCEPT ![i] = e]
      BY Zenon, <1>2, <1>5 DEF ReadStep
    <2>2. e \in Entry /\ e.block = b /\ e.valid
      BY ZenonT(40), <2>1, AcquiredSlot DEF Access
    <2>3. e.data = View[b]
      BY <2>1, AcquiredIsView
    <2> HIDE DEF e
    <2>4. View' = [View EXCEPT ![b] = e.data] /\ Store!MediaMoves
      BY Zenon, <2>1, <2>2, AcquiredView
    <2>5. View' = View
      <3>1. View = [x \in Blocks |-> View[x]]
        BY SMTT(20) DEF View
      <3> QED
        BY <2>3, <2>4, <3>1
    <2>6. out' = [kind |-> "read", block |-> b, data |-> View[b]]
      BY ZenonT(40), <1>2, <1>3, <1>5, <2>1, <2>3 DEF ReadStep, Returned
    <2> QED
      BY <1>4, <2>4, <2>5, <2>6 DEF Store!Next, Store!Read
  <1>6. ASSUME NEW i \in Slots, NEW c \in Content, WriteStep(i, c)
        PROVE  Store!Next
    <2> DEFINE a == AcquiredEntry(b, "Overwrite", i)
    <2> DEFINE e == [a EXCEPT !.data = c, !.dirty = TRUE]
    <2>1. Acquired(b, i) /\ entries' = [entries EXCEPT ![i] = e] /\ out' = NoOutput
      BY Zenon, <1>2, <1>6 DEF WriteStep
    <2>2. a \in Entry /\ a.block = b /\ a.valid
      BY <2>1, AcquiredSlot DEF Access
    <2>3. e \in Entry /\ e.block = b /\ e.valid /\ e.data = c
      <3> HIDE DEF a
      <3> QED
        BY Zenon, <2>2 DEF Entry
    <2> HIDE DEF e
    <2>4. View' = [View EXCEPT ![b] = c] /\ Store!MediaMoves
      BY Zenon, <2>1, <2>3, AcquiredView
    <2>5. Store!Write(b, c)
      BY <1>4, <2>1, <2>4 DEF Store!Write, Store!Quiet, NoOutput
    <2>6. c \in Store!Content
      BY DEF Store!Content, Store!Parts, Content, Parts
    <2> QED
      BY <2>5, <2>6 DEF Store!Next
  <1>7. CASE TransferFails
    <2>1. out' = Failed /\ \E access \in Access : AcquireFailed(b, access)
      BY <1>2, <1>7 DEF TransferFails, Access
    <2> QED
      BY <1>4, <2>1, FailedView, InternalStep
  <1> QED
    BY <1>5, <1>6, <1>7

\* sync() and shutdown(), buffer by buffer.
LEMMA SyncRefines ==
    ASSUME Inv, Inv', SyncDone, ~TrustOverwrite,
           SyncSkip \/ SyncWrite \/ (\E k \in 0..Span : SyncWriteFails(k)) \/ SyncEnds
    PROVE  Store!Next
  <1> USE CacheAssumption DEF CacheAssumption
  <1>1. UNCHANGED handles /\ entries \in [Slots -> Entry]
    BY DEF SyncSkip, SyncWrite, SyncWriteFails, SyncEnds, Inv, TypeOK
  <1>2. Editing' = Editing
    BY <1>1, StillEditing
  <1>3. CASE SyncSkip
    BY Zenon, <1>2, <1>3, StillView, InternalStep DEF SyncSkip
  <1>4. CASE SyncWrite \/ \E k \in 0..Span : SyncWriteFails(k)
    <2>1. PICK i \in Slots : i = op.next
      BY <1>4 DEF SyncWrite, SyncWriteFails, Syncing, Slots, Inv, TypeOK, Op
    <2>2. /\ Dirty(i) /\ out' = NoOutput
          /\ device' = WrittenBack(i) \/ \E k \in 0..Span : device' = TornWrite(i, k)
      BY <1>4, <2>1 DEF SyncWrite, SyncWriteFails
    <2>3. \A j \in Slots : /\ entries'[j].valid = entries[j].valid
                           /\ entries'[j].block = entries[j].block
                           /\ entries'[j].data = entries[j].data
      BY <1>1, <1>4, <2>1 DEF SyncWrite, SyncWriteFails, Entry
    <2>4. View' = View /\ Store!MediaMoves
      BY <2>2, <2>3, WrittenView
    <2> QED
      BY ZenonT(40), <1>2, <2>2, <2>4, InternalStep
  <1>5. CASE SyncEnds /\ op.failed
    <2>1. UNCHANGED <<entries, device>> /\ out' = Failed
      BY <1>5 DEF SyncEnds
    <2> QED
      BY Zenon, <1>2, <2>1, StillView, InternalStep
  <1>6. CASE SyncEnds /\ ~op.failed
    <2>1. UNCHANGED device /\ out' = Flushed /\ op.next = op.end
          /\ op.kind \in {"sync", "shutdown"}
      BY <1>6 DEF SyncEnds
    <2>2. \A b \in Blocks \ Editing : device[b] = View[b]
      BY <1>6, <2>1, SyncedView
    <2>3. View' = View
      <3>1. CASE op.kind = "shutdown"
        <4>1. entries' = Fresh
          BY Zenon, <1>6, <3>1 DEF SyncEnds
        <4>2. Editing = {}
          BY <3>1 DEF Editing, Inv, TypeOK
        <4>3. \A x \in Blocks : View'[x] = View[x]
          BY <2>1, <2>2, <4>1, <4>2, EmptyView
        <4> QED
          BY <4>3, ViewIsSeen, SameView
      <3>2. CASE op.kind = "sync"
        <4>1. UNCHANGED entries
          BY <1>6, <3>2 DEF SyncEnds
        <4> QED
          BY Zenon, <2>1, <4>1, StillView
      <3> QED
        BY <2>1, <3>1, <3>2
    <2>4. Store!FlushOk
      BY Zenon, <1>2, <2>1, <2>2, <2>3 DEF Store!FlushOk, Flushed
    <2> QED
      BY <2>4 DEF Store!Next
  <1> QED
    BY ZenonT(40), <1>3, <1>4, <1>5, <1>6

\* The callers that hold buffers.
LEMMA HandleRefines ==
    ASSUME Inv, Inv', ~TrustOverwrite, NEW h \in Handles,
           \/ \E b \in Blocks, access \in Access, i \in Slots : Acquire(h, b, access, i)
           \/ \E b \in Blocks, access \in Access : AcquireFails(h, b, access)
           \/ \E c \in Content : Edit(h, c)
           \/ \E dirty \in BOOLEAN : Release(h, dirty)
    PROVE  Store!Next
  <1> USE CacheAssumption DEF CacheAssumption
  <1>1. entries \in [Slots -> Entry] /\ handles \in [Handles -> Handle]
    BY DEF Inv, TypeOK
  <1>2. ASSUME NEW b \in Blocks, NEW access \in Access, NEW i \in Slots,
               Acquire(h, b, access, i)
        PROVE  Store!Next
    <2> DEFINE a == AcquiredEntry(b, access, i)
    <2> DEFINE e == [a EXCEPT !.pins = @ + 1]
    <2>1. Acquired(b, i) /\ entries' = [entries EXCEPT ![i] = e] /\ out' = NoOutput
      BY <1>2 DEF Acquire
    <2>2. a \in Entry /\ a.block = b /\ a.valid
      BY <2>1, AcquiredSlot
    <2>3. e \in Entry /\ e.block = b /\ e.valid /\ e.data = a.data
      <3> HIDE DEF a
      <3> QED
        BY SMTT(20), <2>2 DEF Entry
    <2>4. View' = [View EXCEPT ![b] = a.data] /\ Store!MediaMoves
      <3> HIDE DEF e
      <3>1. View' = [View EXCEPT ![b] = e.data] /\ Store!MediaMoves
        BY Zenon, <2>1, <2>3, AcquiredView
      <3> QED
        BY <2>3, <3>1
    <2>5. Editing' = Editing
      <3>1. /\ ~handles'[h].edited /\ ~handles[h].held
            /\ \A g \in Handles : g # h => handles'[g] = handles[g]
        BY ZenonT(40), <1>1, <1>2 DEF Acquire
      <3>2. \A x : x \in Editing' <=> x \in Editing
        BY <3>1 DEF Editing
      <3> QED
        BY Zenon, <3>2
    <2>6. CASE access = "Read"
      <3>1. a.data = View[b]
        BY ZenonT(40), <2>1, <2>6, AcquiredIsView
      <3>2. View = [x \in Blocks |-> View[x]]
        BY DEF View
      <3>3. View' = View
        BY <2>4, <3>1, <3>2
      <3> QED
        BY <2>1, <2>4, <2>5, <3>3, InternalStep
    <2>7. CASE access = "Overwrite"
      <3>1. a.data = ZeroBlock
        <4>1. \A f \in Entry : Opened(f, access).data = ZeroBlock
          BY <2>7 DEF Opened, Entry
        <4>2. entries[i] \in Entry /\ Loaded(i, b, access) \in Entry
          BY ZenonT(40), <1>1 DEF Loaded, Entry, Inv, TypeOK
        <4> QED
          BY <4>1, <4>2 DEF AcquiredEntry
      <3>2. ZeroBlock \in Store!Content
        BY DEF ZeroBlock, Parts, Store!Content, Store!Parts
      <3>3. Store!Write(b, ZeroBlock)
        BY <2>1, <2>4, <2>5, <3>1 DEF Store!Write, Store!Quiet, NoOutput
      <3> QED
        BY ZenonT(40), <3>2, <3>3 DEF Store!Next
    <2> QED
      BY <2>6, <2>7 DEF Access
  <1>3. ASSUME NEW b \in Blocks, NEW access \in Access, AcquireFails(h, b, access)
        PROVE  Store!Next
    <2>1. AcquireFailed(b, access) /\ out' = Failed /\ UNCHANGED handles
      BY <1>3 DEF AcquireFails
    <2>2. View' = View /\ Store!MediaMoves
      BY <2>1, FailedView
    <2> QED
      BY Zenon, <2>1, <2>2, StillEditing, InternalStep
  <1>4. ASSUME NEW c \in Content, Edit(h, c)
        PROVE  Store!Next
    <2>1. PICK i \in Slots : i = handles[h].slot
      BY <1>1 DEF Handle
    <2>2. PICK b \in Blocks : b = handles[h].block
      BY ZenonT(40), <1>1 DEF Handle
    <2>3. entries[i].valid /\ entries[i].block = b /\ handles[h].held
      BY <1>4, <2>1, <2>2 DEF Edit, Inv, HolderKeepsItsBlock
    <2>4. /\ entries' = [entries EXCEPT ![i].data = c] /\ UNCHANGED device /\ out' = NoOutput
          /\ handles' = [handles EXCEPT ![h].edited = TRUE]
      BY <1>4, <2>1 DEF Edit
    <2>5. /\ entries'[i].valid /\ entries'[i].block = b /\ entries'[i].data = c
          /\ \A j \in Slots : j # i => entries'[j] = entries[j]
      BY Zenon, <1>1, <2>3, <2>4 DEF Entry
    <2>6. View'[b] = c
      BY ZenonT(40), <2>5, ViewBlock
    <2>7. ASSUME NEW x \in Blocks, x # b
          PROVE  View'[x] = View[x]
      <3>1. CASE \E j \in Slots : entries[j].valid /\ entries[j].block = x
        <4>1. PICK j \in Slots : entries[j].valid /\ entries[j].block = x
          BY <3>1
        <4>2. j # i
          BY Zenon, <2>3, <2>7, <4>1
        <4>3. entries'[j] = entries[j]
          BY Zenon, <2>5, <4>2
        <4>4. View[x] = entries[j].data
          BY Zenon, <4>1, ViewBlock
        <4>5. View'[x] = entries'[j].data
          BY ZenonT(40), <4>1, <4>3, ViewBlock
        <4> QED
          BY <4>3, <4>4, <4>5
      <3>2. CASE \A j \in Slots : ~(entries[j].valid /\ entries[j].block = x)
        <4>1. \A j \in Slots : ~(entries'[j].valid /\ entries'[j].block = x)
          BY <2>5, <2>7, <3>2
        <4> QED
          BY Zenon, <2>4, <3>2, <4>1, ViewBlock
      <3> QED
        BY Zenon, <3>1, <3>2
    <2>8. View' = [View EXCEPT ![b] = c]
      BY <2>6, <2>7, ViewChanged
    <2>9. Editing' = Editing \union {b}
      <3>1. /\ handles'[h].held /\ handles'[h].edited /\ handles'[h].block = b
            /\ \A g \in Handles : g # h => handles'[g] = handles[g]
        BY ZenonT(40), <1>1, <2>2, <2>3, <2>4 DEF Handle
      <3>2. \A x : x \in Editing' <=> x \in Editing \/ x = b
        BY <2>2, <3>1 DEF Editing
      <3> QED
        BY <3>2
    <2>10. Store!Edit(b, c)
      BY <2>4, <2>8, <2>9 DEF Store!Edit, Store!Quiet, NoOutput
    <2>11. c \in Store!Content
      BY DEF Store!Content, Store!Parts, Content, Parts
    <2> QED
      BY <2>10, <2>11 DEF Store!Next
  <1>5. ASSUME NEW dirty \in BOOLEAN, Release(h, dirty)
        PROVE  Store!Next
    <2>1. /\ UNCHANGED device /\ out' = NoOutput
          /\ handles' = [handles EXCEPT ![h] = NoHandle]
      BY ZenonT(40), <1>5 DEF Release
    <2>2. \A j \in Slots : /\ entries'[j].valid = entries[j].valid
                           /\ entries'[j].block = entries[j].block
                           /\ entries'[j].data = entries[j].data
      BY SMTT(20), <1>1, <1>5 DEF Release, Entry
    <2>3. \A x \in Blocks : View'[x] = View[x]
      BY SMTT(20), <2>1, <2>2, ViewBlock
    <2>4. View' = View
      BY SMTT(20), <2>3, ViewIsSeen, SameView
    <2>5. Editing' \subseteq Editing
      <3>1. ~handles'[h].held /\ \A g \in Handles : g # h => handles'[g] = handles[g]
        BY <1>1, <2>1 DEF NoHandle
      <3> QED
        BY <3>1 DEF Editing
    <2>6. Store!MediaMoves
      BY <2>1 DEF Store!MediaMoves
    <2> QED
      BY Zenon, <2>1, <2>4, <2>5, <2>6, InternalStep
  <1> QED
    BY ZenonT(40), <1>2, <1>3, <1>4, <1>5

\* The power cut leaves a reader what the device holds.
LEMMA PowerCutRefines ==
    ASSUME Inv, Inv', PowerCut
    PROVE  Store!Next
  <1>1. entries' = Fresh /\ handles' = [h \in Handles |-> NoHandle] /\ out' = NoOutput
    BY DEF PowerCut
  <1>2. Store!MediaMoves
    BY WriteBackMoves DEF PowerCut, Store!MediaMoves
  <1>3. View' = device'
    <2>1. \A x \in Blocks : View'[x] = device'[x]
      BY <1>1, EmptyView
    <2>2. View' = [x \in Blocks |-> View'[x]]
      BY DEF View
    <2>3. device' = [x \in Blocks |-> device'[x]]
      BY Zenon DEF Inv, TypeOK
    <2> QED
      BY <2>1, <2>2, <2>3
  <1>4. Editing' = {}
    BY <1>1 DEF Editing, NoHandle
  <1> QED
    BY <1>1, <1>2, <1>3, <1>4 DEF Store!Next, Store!PowerCut, NoOutput

\* Every step of the cache is a step of the store or leaves the store alone.
LEMMA StepRefines ==
    ASSUME Inv, Inv', SyncDone, ~TrustOverwrite, [Next]_vars
    PROVE  [Store!Next]_Store!vars
  <1>1. CASE Initialize
    <2>1. entries = Fresh /\ entries' = Fresh
      BY <1>1 DEF Initialize, Inv, TypeOK
    <2>2. UNCHANGED <<entries, device, handles>> /\ out' = NoOutput
      BY Zenon, <1>1, <2>1 DEF Initialize
    <2> QED
      BY ZenonT(40), <2>2, StillView, StillEditing, InternalStep
  <1>2. CASE \/ \E kind \in {"read", "write"}, first \in Blocks, count \in 1..BlockCount :
                   BeginTransfer(kind, first, count)
             \/ \E kind \in {"sync", "shutdown"} : BeginSync(kind)
    <2>1. UNCHANGED <<entries, device, handles>> /\ out' = NoOutput
      BY <1>2 DEF BeginTransfer, BeginSync
    <2> QED
      BY SMTT(30), <2>1, StillView, StillEditing, InternalStep
  <1>3. CASE \/ \E i \in Slots : ReadStep(i)
             \/ \E i \in Slots, c \in Content : WriteStep(i, c)
             \/ TransferFails
    BY <1>3, TransferRefines
  <1>4. CASE SyncSkip \/ SyncWrite \/ (\E k \in 0..Span : SyncWriteFails(k)) \/ SyncEnds
    BY <1>4, SyncRefines
  <1>5. CASE \E h \in Handles :
                \/ \E b \in Blocks, access \in Access, i \in Slots : Acquire(h, b, access, i)
                \/ \E b \in Blocks, access \in Access : AcquireFails(h, b, access)
                \/ \E c \in Content : Edit(h, c)
                \/ \E dirty \in BOOLEAN : Release(h, dirty)
    BY <1>5, HandleRefines
  <1>6. CASE PowerCut
    BY <1>6, PowerCutRefines
  <1>7. CASE UNCHANGED vars
    <2>1. UNCHANGED <<entries, device, handles, out>>
      BY <1>7 DEF vars
    <2> QED
      BY <2>1, StillView, StillEditing DEF Store!vars
  <1> QED
    BY ZenonT(40), <1>1, <1>2, <1>3, <1>4, <1>5, <1>6, <1>7 DEF Next

\* An empty cache is a store that shows what the device holds.
LEMMA InitRefines == Init => Store!Init /\ SyncDone
  <1> SUFFICES ASSUME Init PROVE Store!Init /\ SyncDone
    OBVIOUS
  <1>1. Inv /\ entries = Fresh /\ device \in [Blocks -> Content] /\ out = NoOutput
    BY InitEstablishes DEF Init
  <1>2. View = device
    <2>1. \A x \in Blocks : View[x] = device[x]
      BY ZenonT(40), <1>1, EmptyView
    <2>2. View = [x \in Blocks |-> View[x]]
      BY DEF View
    <2> QED
      BY <1>1, <2>1, <2>2
  <1>3. Editing = {}
    BY DEF Init, Editing, NoHandle
  <1>4. SyncDone
    BY DEF Init, SyncDone, Idle
  <1> QED
    BY <1>1, <1>2, <1>3, <1>4
    DEF Store!Init, Store!Content, Store!Parts, Content, Parts, NoOutput

\* The cache is the store it stands for, whatever its size, the failures of the
\* device and the moment of a power cut, when callers mark what they change: a read
\* returns the latest write, sync() succeeds only with everything on the device, and
\* a power cut leaves what the device held.
THEOREM CacheIsStore ==
    ASSUME ~TrustOverwrite
    PROVE  Spec => ImplementsStore
  <1>1. Inv /\ Inv' /\ SyncDone /\ [Next]_vars => [Store!Next]_Store!vars
    BY StepRefines
  <1>2. Inv /\ SyncDone /\ [Next]_vars => SyncDone'
    BY SyncDoneKeeps
  <1> QED
    BY <1>1, <1>2, InitRefines, InvHolds, PTL DEF Spec, ImplementsStore, Store!Spec

===============================================================================
