--------------------------- MODULE BlockCacheProof ----------------------------
(***************************************************************************)
(* For every number of blocks, buffers and callers: the cache never hands  *)
(* out two buffers for a block, never reuses a buffer somebody holds, and  *)
(* never forgets a change.                                                 *)
(***************************************************************************)
EXTENDS BlockCache, FiniteSetTheorems, TLAPS

\* The invariants are inductive only together: a victim's missing pins mean it
\* has no holder, and the uniqueness of buffers makes find() and the write-back
\* of a victim speak about the same block.
Inv ==
    /\ TypeOK
    /\ OneBufferPerBlock
    /\ PinsAreHolders
    /\ HolderKeepsItsBlock
    /\ ~TrustOverwrite => NoChangeForgotten

\* An entry without pins has no holder (victim() looks only at the pins).
LEMMA UnpinnedHasNoHolder ==
    ASSUME TypeOK, PinsAreHolders, NEW i \in Slots, entries[i].pins = 0
    PROVE  Holders(i) = {}
  <1>1. Holders(i) \subseteq Handles
    BY DEF Holders
  <1>2. IsFiniteSet(Holders(i))
    BY <1>1, FS_Subset, CacheAssumption DEF CacheAssumption
  <1>3. Cardinality(Holders(i)) = 0
    BY DEF PinsAreHolders
  <1> QED
    BY <1>2, <1>3, FS_EmptySet

\* What acquire() leaves in the slot it chose, hit or miss: the block asked
\* for, in one buffer only, whose content is the device's unless it is marked
\* or being edited; and the write-back of a victim leaves the other clean
\* buffers equal to the device.
LEMMA AcquiredSlot ==
    ASSUME Inv, NEW b \in Blocks, NEW i \in Slots, NEW access \in Access, Acquired(b, i)
    PROVE  LET e == AcquiredEntry(b, access, i)
           IN  /\ e \in Entry
               /\ e.block = b /\ e.valid
               /\ e.pins = entries[i].pins
               /\ \/ entries[i].valid /\ entries[i].block = b
                  \/ Holders(i) = {}
               /\ \A j \in Slots : entries[j].valid /\ entries[j].block = b => j = i
               /\ device' \in [Blocks -> Content]
               /\ ~TrustOverwrite => e.dirty \/ EditedIn(i) \/ e.data = device'[b]
               /\ \A j \in Slots : entries[j].valid /\ j # i
                     => device'[entries[j].block] = device[entries[j].block]
  <1> USE CacheAssumption DEF CacheAssumption
  <1> DEFINE e == AcquiredEntry(b, access, i)
  <1>1. ZeroBlock \in Content
    BY DEF ZeroBlock, Content
  <1>2. CASE IsFind(i, b) /\ UNCHANGED device
    <2>1. Hit(b)
      BY <1>2 DEF IsFind, Hit
    <2>2. e = Opened(entries[i], access)
      BY <2>1 DEF AcquiredEntry
    <2>3. entries[i] \in Entry
      BY DEF Inv, TypeOK
    <2>4. e \in Entry /\ e.block = b /\ e.valid /\ e.pins = entries[i].pins
      BY Zenon, <1>1, <1>2, <2>2, <2>3 DEF Opened, Entry, IsFind
    <2>5. \A j \in Slots : entries[j].valid /\ entries[j].block = b => j = i
      BY <1>2 DEF Inv, OneBufferPerBlock, IsFind
    <2>6. ~TrustOverwrite => e.dirty \/ EditedIn(i) \/ e.data = device'[b]
      BY <1>2, <2>2, <2>3 DEF Opened, Entry, Inv, NoChangeForgotten, IsFind
    <2> QED
      BY <1>2, <2>4, <2>5, <2>6 DEF IsFind, Inv, TypeOK
  <1>3. CASE ~Hit(b) /\ IsVictim(i) /\ device' = WrittenBack(i)
    <2>1. e = Opened(Loaded(i, b, access), access)
      BY <1>3 DEF AcquiredEntry
    <2>2. entries[i] \in Entry /\ device \in [Blocks -> Content]
      BY DEF Inv, TypeOK
    <2>3. entries[i].pins = 0 /\ Holders(i) = {}
      BY <1>3, UnpinnedHasNoHolder DEF IsVictim, Unpinned, Inv
    <2>4. e \in Entry /\ e.block = b /\ e.valid /\ e.pins = entries[i].pins
      BY ZenonT(40), <1>1, <2>1, <2>2 DEF Opened, Loaded, Entry
    <2>5. device' \in [Blocks -> Content]
      BY <1>3, <2>2 DEF WrittenBack, Entry
    <2>6. \A j \in Slots : ~(entries[j].valid /\ entries[j].block = b)
      BY <1>3 DEF Hit
    <2>7. device'[b] = device[b]
      BY <1>3, <2>2, <2>6 DEF WrittenBack, Dirty, Entry
    <2>8. e.dirty \/ e.data = device'[b]
      BY <2>1, <2>2, <2>7 DEF Opened, Loaded, Entry, Access
    <2>9. \A j \in Slots : entries[j].valid /\ j # i
             => device'[entries[j].block] = device[entries[j].block]
      BY <1>3, <2>2 DEF WrittenBack, Dirty, Entry, Inv, OneBufferPerBlock, TypeOK
    <2> QED
      BY <2>3, <2>4, <2>5, <2>6, <2>8, <2>9
  <1> QED
    BY <1>2, <1>3 DEF Acquired

\* Putting a block into one slot keeps the invariants, when the slot had that
\* block or no holder, nobody else has the block, and what differs from the
\* device is marked or being edited.
LEMMA SlotReplaced ==
    ASSUME Inv, NEW i \in Slots, NEW e \in Entry,
           entries' = [entries EXCEPT ![i] = e],
           UNCHANGED handles,
           e.valid, e.pins = entries[i].pins,
           (entries[i].valid /\ entries[i].block = e.block) \/ Holders(i) = {},
           \A j \in Slots : entries[j].valid /\ entries[j].block = e.block => j = i,
           ~TrustOverwrite => e.dirty \/ EditedIn(i) \/ e.data = device'[e.block],
           \A j \in Slots : entries[j].valid /\ j # i
              => device'[entries[j].block] = device[entries[j].block]
    PROVE  /\ entries' \in [Slots -> Entry]
           /\ OneBufferPerBlock' /\ PinsAreHolders' /\ HolderKeepsItsBlock'
           /\ ~TrustOverwrite => NoChangeForgotten'
  <1>1. entries \in [Slots -> Entry] /\ handles \in [Handles -> Handle]
    BY DEF Inv, TypeOK
  <1>2. entries' \in [Slots -> Entry]
    BY <1>1
  <1>3. \A j \in Slots : entries'[j] = IF j = i THEN e ELSE entries[j]
    BY <1>1
  <1>4. \A j \in Slots : Holders(j)' = Holders(j) /\ EditedIn(j)' = EditedIn(j)
    BY DEF Holders, EditedIn
  <1>5. OneBufferPerBlock'
    BY <1>3 DEF OneBufferPerBlock, Inv
  <1>6. PinsAreHolders'
    BY <1>3, <1>4 DEF PinsAreHolders, Inv
  <1>7. HolderKeepsItsBlock'
    <2> SUFFICES ASSUME NEW h \in Handles, handles[h].held
                 PROVE  /\ entries'[handles[h].slot].valid
                        /\ entries'[handles[h].slot].block = handles[h].block
      BY DEF HolderKeepsItsBlock
    <2>1. handles[h].slot \in Slots
      BY <1>1 DEF Handle
    <2>2. /\ entries[handles[h].slot].valid
          /\ entries[handles[h].slot].block = handles[h].block
      BY DEF Inv, HolderKeepsItsBlock
    <2>3. CASE handles[h].slot = i
      BY <1>3, <2>1, <2>2, <2>3 DEF Holders
    <2>4. CASE handles[h].slot # i
      BY <1>3, <2>1, <2>2, <2>4
    <2> QED
      BY <2>3, <2>4
  <1>8. ~TrustOverwrite => NoChangeForgotten'
    <2> SUFFICES ASSUME ~TrustOverwrite, NEW j \in Slots, entries'[j].valid, ~entries'[j].dirty, ~EditedIn(j)
                 PROVE  entries'[j].data = device'[entries'[j].block]
      BY <1>4 DEF NoChangeForgotten
    <2>1. CASE j = i
      BY <1>3, <2>1
    <2>2. CASE j # i
      BY <1>3, <2>2 DEF Inv, NoChangeForgotten
    <2> QED
      BY <2>1, <2>2
  <1> QED
    BY <1>2, <1>5, <1>6, <1>7, <1>8

\* A slot nobody holds may be emptied, and the device may change where no
\* clean buffer notices it.
LEMMA SlotEmptied ==
    ASSUME Inv, NEW i \in Slots, NEW e \in Entry,
           entries' = [entries EXCEPT ![i] = e],
           UNCHANGED handles,
           ~e.valid, e.pins = entries[i].pins, Holders(i) = {},
           \A j \in Slots : entries[j].valid /\ j # i
              => device'[entries[j].block] = device[entries[j].block]
    PROVE  /\ entries' \in [Slots -> Entry]
           /\ OneBufferPerBlock' /\ PinsAreHolders' /\ HolderKeepsItsBlock'
           /\ ~TrustOverwrite => NoChangeForgotten'
  <1>1. entries \in [Slots -> Entry] /\ handles \in [Handles -> Handle]
    BY DEF Inv, TypeOK
  <1>2. entries' \in [Slots -> Entry]
    BY <1>1
  <1>3. \A j \in Slots : entries'[j] = IF j = i THEN e ELSE entries[j]
    BY <1>1
  <1>4. \A j \in Slots : Holders(j)' = Holders(j) /\ EditedIn(j)' = EditedIn(j)
    BY DEF Holders, EditedIn
  <1>5. OneBufferPerBlock' /\ (~TrustOverwrite => NoChangeForgotten')
    BY <1>3, <1>4 DEF OneBufferPerBlock, NoChangeForgotten, Inv
  <1>6. PinsAreHolders'
    BY <1>3, <1>4 DEF PinsAreHolders, Inv
  <1>7. HolderKeepsItsBlock'
    BY <1>1, <1>3 DEF HolderKeepsItsBlock, Inv, Handle, Holders
  <1> QED
    BY <1>2, <1>5, <1>6, <1>7

\* The ranks of last_used stay ranks.
LEMMA TouchedType ==
    ASSUME TypeOK, NEW i \in Slots
    PROVE  Touched(i) \in [Slots -> 1..Capacity]
  BY CacheAssumption DEF CacheAssumption, TypeOK, Touched

\* A write-back cut short changes only the block of a buffer that is marked,
\* so no clean buffer differs from the device because of it.
LEMMA TornWriteHarmless ==
    ASSUME Inv, NEW i \in Slots, NEW k \in 0..Span, Dirty(i),
           device' = TornWrite(i, k), UNCHANGED <<entries, handles>>
    PROVE  /\ device' \in [Blocks -> Content]
           /\ OneBufferPerBlock' /\ PinsAreHolders' /\ HolderKeepsItsBlock'
           /\ ~TrustOverwrite => NoChangeForgotten'
  <1>1. /\ entries \in [Slots -> Entry] /\ handles \in [Handles -> Handle]
        /\ device \in [Blocks -> Content]
    BY DEF Inv, TypeOK
  <1>2. \A new, old \in Content : Torn(k, new, old) \in Content
    BY DEF Torn, Content
  <1>3. device' \in [Blocks -> Content]
    BY <1>1, <1>2 DEF TornWrite, Entry
  <1>4. \A j \in Slots : entries[j].valid /\ j # i
           => device'[entries[j].block] = device[entries[j].block]
    BY <1>1 DEF TornWrite, Dirty, Inv, OneBufferPerBlock, Entry
  <1>5. \A j \in Slots : Holders(j)' = Holders(j) /\ EditedIn(j)' = EditedIn(j)
    BY DEF Holders, EditedIn
  <1>6. ~TrustOverwrite => NoChangeForgotten'
    BY <1>4, <1>5 DEF NoChangeForgotten, Inv, Dirty
  <1>7. PinsAreHolders'
    BY <1>5 DEF PinsAreHolders, Inv
  <1> QED
    BY <1>3, <1>6, <1>7 DEF OneBufferPerBlock, HolderKeepsItsBlock, Inv

\* A failed acquire() keeps the invariants: the victim it could not save is
\* untouched, and the one it could not refill is empty.
LEMMA FailedAcquireKeeps ==
    ASSUME Inv, NEW b \in Blocks, NEW access \in Access,
           AcquireFailed(b, access), UNCHANGED handles
    PROVE  /\ entries' \in [Slots -> Entry] /\ device' \in [Blocks -> Content]
           /\ OneBufferPerBlock' /\ PinsAreHolders' /\ HolderKeepsItsBlock'
           /\ ~TrustOverwrite => NoChangeForgotten'
  <1>1. /\ entries \in [Slots -> Entry] /\ handles \in [Handles -> Handle]
        /\ device \in [Blocks -> Content]
    BY DEF Inv, TypeOK
  <1>2. CASE UNCHANGED <<entries, device>>
    BY <1>1, <1>2 DEF Inv, OneBufferPerBlock, PinsAreHolders, HolderKeepsItsBlock,
                      NoChangeForgotten, Holders, EditedIn
  <1>3. ASSUME NEW i \in Slots, NEW k \in 0..Span, Dirty(i),
               device' = TornWrite(i, k), UNCHANGED entries
        PROVE  /\ device' \in [Blocks -> Content]
               /\ OneBufferPerBlock' /\ PinsAreHolders' /\ HolderKeepsItsBlock'
               /\ ~TrustOverwrite => NoChangeForgotten'
    BY <1>1, <1>3, TornWriteHarmless
  <1>4. ASSUME NEW i \in Slots, NEW c \in Content, IsVictim(i), device' = WrittenBack(i),
               entries' = [entries EXCEPT ![i].block = b, ![i].data = c, ![i].valid = FALSE,
                                          ![i].dirty = @ /\ ~entries[i].valid]
        PROVE  /\ entries' \in [Slots -> Entry] /\ device' \in [Blocks -> Content]
               /\ OneBufferPerBlock' /\ PinsAreHolders' /\ HolderKeepsItsBlock'
               /\ ~TrustOverwrite => NoChangeForgotten'
    <2> DEFINE e == [entries[i] EXCEPT !.block = b, !.data = c, !.valid = FALSE,
                                       !.dirty = @ /\ ~entries[i].valid]
    <2>1. entries[i] \in Entry
      BY <1>1
    <2>2. e \in Entry /\ ~e.valid /\ e.pins = entries[i].pins
      BY Zenon, <2>1 DEF Entry
    <2>3. entries' = [entries EXCEPT ![i] = e]
      BY Zenon, <1>1, <1>4
    <2>4. Holders(i) = {}
      BY <1>4, UnpinnedHasNoHolder DEF IsVictim, Unpinned, Inv
    <2>5. \A j \in Slots : entries[j].valid /\ j # i
             => device'[entries[j].block] = device[entries[j].block]
      BY <1>1, <1>4 DEF WrittenBack, Dirty, Inv, OneBufferPerBlock, Entry
    <2>6. device' \in [Blocks -> Content]
      BY <1>1, <1>4 DEF WrittenBack, Entry
    <2> HIDE DEF e
    <2> QED
      BY Zenon, <2>2, <2>3, <2>4, <2>5, <2>6, SlotEmptied
  <1> QED
    BY Zenon, <1>1, <1>2, <1>3, <1>4 DEF AcquireFailed

\* The invariants hold when nothing is cached, as after initialize(),
\* shutdown() and a power cut.
LEMMA EmptyCache ==
    ASSUME entries = Fresh, \A h \in Handles : ~handles[h].held
    PROVE  /\ entries \in [Slots -> Entry]
           /\ OneBufferPerBlock /\ PinsAreHolders /\ HolderKeepsItsBlock
           /\ NoChangeForgotten
  <1> USE CacheAssumption DEF CacheAssumption
  <1>1. EmptyEntry \in Entry /\ ~EmptyEntry.valid /\ EmptyEntry.pins = 0
    BY DEF EmptyEntry, Entry, ZeroBlock, Content, Blocks
  <1>2. \A i \in Slots : entries[i] = EmptyEntry /\ Holders(i) = {}
    BY DEF Fresh, Holders
  <1>3. PinsAreHolders
    BY <1>1, <1>2, FS_EmptySet DEF PinsAreHolders
  <1> QED
    BY <1>1, <1>2, <1>3 DEF Fresh, OneBufferPerBlock, HolderKeepsItsBlock, NoChangeForgotten

\* The same, after a step.
LEMMA EmptyCacheAfter ==
    ASSUME entries' = Fresh, \A h \in Handles : ~handles'[h].held
    PROVE  /\ entries' \in [Slots -> Entry]
           /\ OneBufferPerBlock' /\ PinsAreHolders' /\ HolderKeepsItsBlock'
           /\ NoChangeForgotten'
  <1> USE CacheAssumption DEF CacheAssumption
  <1>1. EmptyEntry \in Entry /\ ~EmptyEntry.valid /\ EmptyEntry.pins = 0
    BY DEF EmptyEntry, Entry, ZeroBlock, Content, Blocks
  <1>2. \A i \in Slots : entries'[i] = EmptyEntry /\ Holders(i)' = {}
    BY DEF Fresh, Holders
  <1>3. PinsAreHolders'
    BY Zenon, <1>1, <1>2, FS_EmptySet DEF PinsAreHolders
  <1> QED
    BY <1>1, <1>2, <1>3 DEF Fresh, OneBufferPerBlock, HolderKeepsItsBlock, NoChangeForgotten

\* A buffer gains a holder: its pins and its holders both grow by one.
LEMMA AcquireKeeps ==
    ASSUME Inv, NEW h \in Handles, NEW b \in Blocks, NEW access \in Access, NEW i \in Slots,
           Acquire(h, b, access, i)
    PROVE  Inv'
  <1> USE CacheAssumption DEF CacheAssumption
  <1> DEFINE e == AcquiredEntry(b, access, i)
  <1> DEFINE p == [e EXCEPT !.pins = @ + 1]
  <1>1. /\ entries \in [Slots -> Entry] /\ handles \in [Handles -> Handle]
        /\ ~handles[h].held
    BY DEF Inv, TypeOK, Acquire
  <1>2. /\ e \in Entry
        /\ e.block = b /\ e.valid
        /\ e.pins = entries[i].pins
        /\ (entries[i].valid /\ entries[i].block = b) \/ Holders(i) = {}
        /\ \A j \in Slots : entries[j].valid /\ entries[j].block = b => j = i
        /\ device' \in [Blocks -> Content]
        /\ ~TrustOverwrite => e.dirty \/ EditedIn(i) \/ e.data = device'[b]
        /\ \A j \in Slots : entries[j].valid /\ j # i
              => device'[entries[j].block] = device[entries[j].block]
    BY AcquiredSlot DEF Acquire
  <1>3. entries' = [entries EXCEPT ![i] = p]
    BY DEF Acquire
  <1> DEFINE g == [held |-> TRUE, slot |-> i, block |-> b, access |-> access, edited |-> FALSE]
  <1>4. handles' = [handles EXCEPT ![h] = g]
    BY DEF Acquire
  <1> HIDE DEF e
  <1>5. /\ p \in Entry /\ p.block = b /\ p.valid /\ p.pins = entries[i].pins + 1
        /\ p.dirty = e.dirty /\ p.data = e.data
    BY <1>2 DEF Entry
  <1> HIDE DEF p
  <1>6. \A j \in Slots : entries'[j] = IF j = i THEN p ELSE entries[j]
    BY <1>1, <1>3
  <1>7. \A f \in Handles : handles'[f] = IF f = h THEN g ELSE handles[f]
    BY <1>1, <1>4
  <1>8. Holders(i)' = Holders(i) \union {h} /\ h \notin Holders(i)
    BY <1>1, <1>7 DEF Holders
  <1>9. \A j \in Slots : j # i => Holders(j)' = Holders(j)
    BY <1>1, <1>7 DEF Holders
  <1>10. \A j \in Slots : EditedIn(j) => EditedIn(j)'
    BY <1>1, <1>7 DEF EditedIn, Holders
  <1>11. TypeOK'
    <2>1. entries' \in [Slots -> Entry]
      BY <1>1, <1>3, <1>5
    <2>2. handles' \in [Handles -> Handle]
      BY <1>1, <1>4 DEF Handle
    <2>3. lastUsed' \in [Slots -> 1..Capacity]
      BY TouchedType DEF Acquire, Inv
    <2>4. op' = op /\ op.kind = "idle" /\ ready /\ ready'
      BY Zenon DEF Acquire, Idle
    <2> QED
      BY ZenonT(40), <1>2, <2>1, <2>2, <2>3, <2>4 DEF TypeOK, Inv
  <1>12. OneBufferPerBlock'
    BY <1>2, <1>5, <1>6 DEF OneBufferPerBlock, Inv
  <1>13. PinsAreHolders'
    <2>1. IsFiniteSet(Holders(i)) /\ Cardinality(Holders(i)) = entries[i].pins
      BY FS_Subset DEF Holders, Inv, PinsAreHolders
    <2>2. Cardinality(Holders(i)') = entries[i].pins + 1
      BY ZenonT(40), <1>8, <2>1, FS_AddElement
    <2> QED
      BY <1>5, <1>6, <1>9, <2>2 DEF PinsAreHolders, Inv
  <1>14. HolderKeepsItsBlock'
    <2> SUFFICES ASSUME NEW f \in Handles, handles'[f].held
                 PROVE  /\ entries'[handles'[f].slot].valid
                        /\ entries'[handles'[f].slot].block = handles'[f].block
      BY DEF HolderKeepsItsBlock
    <2>1. CASE f = h
      BY <1>5, <1>6, <1>7, <2>1
    <2>2. CASE f # h
      <3>1. /\ handles'[f] = handles[f] /\ handles[f].held /\ handles[f].slot \in Slots
            /\ entries[handles[f].slot].valid
            /\ entries[handles[f].slot].block = handles[f].block
        BY ZenonT(40), <1>1, <1>7, <2>2 DEF Handle, Inv, HolderKeepsItsBlock
      <3>2. CASE handles[f].slot = i
        BY <1>2, <1>5, <1>6, <3>1, <3>2 DEF Holders
      <3>3. CASE handles[f].slot # i
        BY <1>6, <3>1, <3>3
      <3> QED
        BY Zenon, <3>2, <3>3
    <2> QED
      BY <2>1, <2>2
  <1>15. ~TrustOverwrite => NoChangeForgotten'
    <2> SUFFICES ASSUME ~TrustOverwrite, NEW j \in Slots,
                        entries'[j].valid, ~entries'[j].dirty, ~EditedIn(j)'
                 PROVE  entries'[j].data = device'[entries'[j].block]
      BY DEF NoChangeForgotten
    <2>1. ~EditedIn(j)
      BY Zenon, <1>10
    <2>2. CASE j = i
      BY ZenonT(40), <1>2, <1>5, <1>6, <2>1, <2>2
    <2>3. CASE j # i
      BY <1>2, <1>6, <2>1, <2>3 DEF Inv, NoChangeForgotten
    <2> QED
      BY <2>2, <2>3
  <1> QED
    BY <1>11, <1>12, <1>13, <1>14, <1>15 DEF Inv

\* A buffer loses a holder; if that holder changed it, it is now marked.
LEMMA ReleaseKeeps ==
    ASSUME Inv, NEW h \in Handles, NEW dirty \in BOOLEAN, Release(h, dirty)
    PROVE  Inv'
  <1> USE CacheAssumption DEF CacheAssumption
  <1>0. PICK i \in Slots : i = handles[h].slot
    BY DEF Inv, TypeOK, Handle
  <1> DEFINE p == [entries[i] EXCEPT !.pins = @ - 1, !.dirty = @ \/ dirty]
  <1>1. /\ entries \in [Slots -> Entry] /\ handles \in [Handles -> Handle]
        /\ handles[h].held /\ device' = device /\ ready
    BY DEF Inv, TypeOK, Release, Handle
  <1>2. entries' = [entries EXCEPT ![i] = p]
    BY Zenon, <1>0, <1>1 DEF Release
  <1>3. NoHandle \in Handle /\ ~NoHandle.held
    BY DEF NoHandle, Handle, Slots, Blocks, Access
  <1>4. \A f \in Handles : handles'[f] = IF f = h THEN NoHandle ELSE handles[f]
    BY <1>1 DEF Release
  <1>5. Holders(i)' = Holders(i) \ {h} /\ h \in Holders(i)
    BY <1>0, <1>1, <1>3, <1>4 DEF Holders
  <1>6. \A j \in Slots : j # i => Holders(j)' = Holders(j)
    BY <1>0, <1>1, <1>3, <1>4 DEF Holders
  <1>7. IsFiniteSet(Holders(i)) /\ Cardinality(Holders(i)) = entries[i].pins
    BY <1>1, FS_Subset DEF Holders, Inv, PinsAreHolders
  <1>8. Cardinality(Holders(i)') = entries[i].pins - 1 /\ entries[i].pins - 1 \in Nat
    BY <1>5, <1>7, FS_RemoveElement, FS_Subset, FS_CardinalityType
  <1>9. entries[i] \in Entry
    BY <1>1
  <1>10. /\ p \in Entry /\ p.block = entries[i].block /\ p.valid = entries[i].valid
         /\ p.pins = entries[i].pins - 1 /\ p.data = entries[i].data
         /\ p.dirty = (entries[i].dirty \/ dirty)
    BY Zenon, <1>8, <1>9 DEF Entry
  <1> HIDE DEF p
  <1>11. \A j \in Slots : entries'[j] = IF j = i THEN p ELSE entries[j]
    BY ZenonT(40), <1>1, <1>2
  <1>12. TypeOK'
    <2>1. entries' \in [Slots -> Entry] /\ handles' \in [Handles -> Handle]
      BY ZenonT(40), <1>1, <1>2, <1>3, <1>10 DEF Release
    <2> QED
      BY <1>1, <2>1 DEF TypeOK, Inv, Release
  <1>13. OneBufferPerBlock'
    BY <1>10, <1>11 DEF OneBufferPerBlock, Inv
  <1>14. PinsAreHolders'
    BY Zenon, <1>6, <1>8, <1>10, <1>11 DEF PinsAreHolders, Inv
  <1>15. HolderKeepsItsBlock'
    <2> SUFFICES ASSUME NEW f \in Handles, handles'[f].held
                 PROVE  /\ entries'[handles'[f].slot].valid
                        /\ entries'[handles'[f].slot].block = handles'[f].block
      BY DEF HolderKeepsItsBlock
    <2>1. /\ handles'[f] = handles[f] /\ handles[f].held /\ handles[f].slot \in Slots
          /\ entries[handles[f].slot].valid
          /\ entries[handles[f].slot].block = handles[f].block
      BY <1>1, <1>3, <1>4 DEF Handle, Inv, HolderKeepsItsBlock
    <2> QED
      BY ZenonT(40), <1>10, <1>11, <2>1
  <1>16. ~TrustOverwrite => NoChangeForgotten'
    <2> SUFFICES ASSUME ~TrustOverwrite, NEW j \in Slots,
                        entries'[j].valid, ~entries'[j].dirty, ~EditedIn(j)'
                 PROVE  entries'[j].data = device[entries'[j].block]
      BY ZenonT(40), <1>1 DEF NoChangeForgotten
    <2>1. CASE j = i
      <3>1. ~dirty /\ ~entries[i].dirty /\ ~handles[h].edited
        BY Zenon, <1>10, <1>11, <2>1 DEF Release
      <3>2. ~EditedIn(i)
        BY Zenon, <1>1, <1>4, <1>5, <2>1, <3>1 DEF EditedIn, Holders
      <3> QED
        BY <1>1, <1>10, <1>11, <2>1, <3>1, <3>2 DEF Inv, NoChangeForgotten
    <2>2. CASE j # i
      <3>1. ~EditedIn(j)
        BY <1>0, <1>1, <1>3, <1>4, <2>2 DEF EditedIn, Holders
      <3> QED
        BY ZenonT(40), <1>11, <2>2, <3>1 DEF Inv, NoChangeForgotten
    <2> QED
      BY Zenon, <2>1, <2>2
  <1> QED
    BY <1>12, <1>13, <1>14, <1>15, <1>16 DEF Inv

\* A holder's change is excused until it releases the buffer.
LEMMA EditKeeps ==
    ASSUME Inv, NEW h \in Handles, NEW c \in Content, Edit(h, c)
    PROVE  Inv'
  <1>0. PICK i \in Slots : i = handles[h].slot
    BY DEF Inv, TypeOK, Handle
  <1> DEFINE p == [entries[i] EXCEPT !.data = c]
  <1> DEFINE g == [handles[h] EXCEPT !.edited = TRUE]
  <1>1. /\ entries \in [Slots -> Entry] /\ handles \in [Handles -> Handle]
        /\ handles[h].held /\ device' = device /\ ready
    BY DEF Inv, TypeOK, Edit, Handle
  <1>2. entries' = [entries EXCEPT ![i] = p] /\ handles' = [handles EXCEPT ![h] = g]
    BY <1>0, <1>1 DEF Edit
  <1>3. entries[i] \in Entry /\ handles[h] \in Handle
    BY <1>1
  <1>4. /\ p \in Entry /\ p.block = entries[i].block /\ p.valid = entries[i].valid
        /\ p.pins = entries[i].pins /\ p.dirty = entries[i].dirty
    BY <1>3 DEF Entry
  <1>5. /\ g \in Handle /\ g.held /\ g.slot = i /\ g.block = handles[h].block /\ g.edited
    BY Zenon, <1>0, <1>1, <1>3 DEF Handle
  <1> HIDE DEF p, g
  <1>6. \A j \in Slots : entries'[j] = IF j = i THEN p ELSE entries[j]
    BY <1>1, <1>2
  <1>7. \A f \in Handles : handles'[f] = IF f = h THEN g ELSE handles[f]
    BY <1>1, <1>2
  <1>8. \A j \in Slots : Holders(j)' = Holders(j)
    BY ZenonT(40), <1>0, <1>1, <1>5, <1>7 DEF Holders
  <1>9. EditedIn(i)' /\ \A j \in Slots : EditedIn(j) => EditedIn(j)'
    BY <1>0, <1>1, <1>5, <1>7 DEF EditedIn, Holders
  <1>10. TypeOK'
    <2>1. entries' \in [Slots -> Entry] /\ handles' \in [Handles -> Handle]
      BY <1>1, <1>2, <1>4, <1>5
    <2> QED
      BY <1>1, <2>1 DEF TypeOK, Inv, Edit
  <1>11. OneBufferPerBlock'
    BY <1>4, <1>6 DEF OneBufferPerBlock, Inv
  <1>12. PinsAreHolders'
    BY ZenonT(40), <1>4, <1>6, <1>8 DEF PinsAreHolders, Inv
  <1>13. HolderKeepsItsBlock'
    BY <1>0, <1>1, <1>4, <1>5, <1>6, <1>7 DEF HolderKeepsItsBlock, Inv, Handle
  <1>14. ~TrustOverwrite => NoChangeForgotten'
    BY <1>1, <1>6, <1>9 DEF NoChangeForgotten, Inv
  <1> QED
    BY <1>10, <1>11, <1>12, <1>13, <1>14 DEF Inv

\* A step of read_blocks() or write_blocks(), which takes and lets go of one
\* buffer, and a step of either that fails.
LEMMA TransferKeeps ==
    ASSUME Inv,
           \/ \E i \in Slots : ReadStep(i)
           \/ \E i \in Slots, c \in Content : WriteStep(i, c)
           \/ TransferFails
    PROVE  Inv'
  <1> USE CacheAssumption DEF CacheAssumption
  <1>0. op.kind \in {"read", "write"}
    BY Zenon DEF ReadStep, WriteStep, TransferFails
  <1>1. op.kind \in {"read", "write"} /\ op \in Op /\ ready
    BY <1>0 DEF Inv, TypeOK, Idle
  <1>2. PICK b \in Blocks : b = op.next
    BY <1>1 DEF Inv, TypeOK, Op, Blocks
  <1>3. /\ Advanced \in Op /\ Idle \in Op
        /\ Advanced.kind \in {"read", "write"} =>
              Advanced.next < Advanced.end /\ Advanced.end <= BlockCount
        /\ Advanced.kind \notin {"sync", "shutdown"}
        /\ Idle.kind = "idle"
    BY <1>1 DEF Inv, TypeOK, Op, Advanced, Idle
  <1>4. ASSUME NEW i \in Slots, ReadStep(i)
        PROVE  Inv'
    <2>0. PICK e : e = AcquiredEntry(b, "Read", i)
      BY ZenonT(40)
    <2>1. /\ e \in Entry
          /\ e.block = b /\ e.valid
          /\ e.pins = entries[i].pins
          /\ (entries[i].valid /\ entries[i].block = b) \/ Holders(i) = {}
          /\ \A j \in Slots : entries[j].valid /\ entries[j].block = b => j = i
          /\ device' \in [Blocks -> Content]
          /\ ~TrustOverwrite => e.dirty \/ EditedIn(i) \/ e.data = device'[b]
          /\ \A j \in Slots : entries[j].valid /\ j # i
                => device'[entries[j].block] = device[entries[j].block]
      BY <1>2, <1>4, <2>0, AcquiredSlot DEF ReadStep, Access
    <2>2. entries' = [entries EXCEPT ![i] = e] /\ UNCHANGED handles
      BY <1>2, <1>4, <2>0 DEF ReadStep
    <2>3. /\ entries' \in [Slots -> Entry]
          /\ OneBufferPerBlock' /\ PinsAreHolders' /\ HolderKeepsItsBlock'
          /\ ~TrustOverwrite => NoChangeForgotten'
      BY ZenonT(40), <2>1, <2>2, SlotReplaced
    <2>4. lastUsed' \in [Slots -> 1..Capacity] /\ op' = Advanced /\ ready' = ready
      BY <1>4, TouchedType DEF ReadStep, Inv
    <2>5. TypeOK'
      BY <1>1, <1>3, <2>1, <2>2, <2>3, <2>4 DEF Inv, TypeOK
    <2> QED
      BY <2>3, <2>5 DEF Inv
  <1>5. ASSUME NEW i \in Slots, NEW c \in Content, WriteStep(i, c)
        PROVE  Inv'
    <2>0. PICK e : e = AcquiredEntry(b, "Overwrite", i)
      OBVIOUS
    <2>1. "Overwrite" \in Access /\ Acquired(b, i)
      BY Zenon, <1>2, <1>5 DEF Access, WriteStep
    <2>2. /\ e \in Entry
          /\ e.block = b /\ e.valid
          /\ e.pins = entries[i].pins
          /\ (entries[i].valid /\ entries[i].block = b) \/ Holders(i) = {}
          /\ \A j \in Slots : entries[j].valid /\ entries[j].block = b => j = i
          /\ device' \in [Blocks -> Content]
          /\ \A j \in Slots : entries[j].valid /\ j # i
                => device'[entries[j].block] = device[entries[j].block]
      BY <2>0, <2>1, AcquiredSlot
    <2>3. PICK w : w = [e EXCEPT !.data = c, !.dirty = TRUE]
      OBVIOUS
    <2>4. entries' = [entries EXCEPT ![i] = w] /\ UNCHANGED handles
      BY Zenon, <1>2, <1>5, <2>0, <2>3 DEF WriteStep
    <2>5. w \in Entry /\ w.block = e.block /\ w.valid /\ w.pins = e.pins /\ w.dirty
      BY ZenonT(40), <2>2, <2>3 DEF Entry
    <2>6. /\ w.pins = entries[i].pins
          /\ (entries[i].valid /\ entries[i].block = w.block) \/ Holders(i) = {}
          /\ \A j \in Slots : entries[j].valid /\ entries[j].block = w.block => j = i
          /\ ~TrustOverwrite => w.dirty \/ EditedIn(i) \/ w.data = device'[w.block]
          /\ \A j \in Slots : entries[j].valid /\ j # i
                => device'[entries[j].block] = device[entries[j].block]
      BY <2>2, <2>5
    <2>7. /\ entries' \in [Slots -> Entry]
          /\ OneBufferPerBlock' /\ PinsAreHolders' /\ HolderKeepsItsBlock'
          /\ ~TrustOverwrite => NoChangeForgotten'
      BY ZenonT(40), <2>4, <2>5, <2>6, SlotReplaced
    <2>8. lastUsed' \in [Slots -> 1..Capacity] /\ op' = Advanced /\ ready' = ready
      BY Zenon, <1>5, TouchedType DEF WriteStep, Inv
    <2>9. TypeOK'
      BY <1>1, <1>3, <2>2, <2>4, <2>7, <2>8 DEF Inv, TypeOK
    <2> QED
      BY <2>7, <2>9 DEF Inv
  <1>6. CASE TransferFails
    <2>1. PICK access \in Access : AcquireFailed(b, access)
      BY <1>2, <1>6 DEF TransferFails, Access
    <2>2. UNCHANGED <<ready, lastUsed, handles>> /\ op' = Idle
      BY <1>6 DEF TransferFails
    <2>3. /\ entries' \in [Slots -> Entry] /\ device' \in [Blocks -> Content]
          /\ OneBufferPerBlock' /\ PinsAreHolders' /\ HolderKeepsItsBlock'
          /\ ~TrustOverwrite => NoChangeForgotten'
      BY Zenon, <2>1, <2>2, FailedAcquireKeeps
    <2>4. TypeOK'
      BY <1>1, <1>3, <2>2, <2>3 DEF Inv, TypeOK
    <2> QED
      BY <2>3, <2>4 DEF Inv
  <1> QED
    BY <1>4, <1>5, <1>6

\* Writing a marked buffer back makes it clean and equal to the device.
LEMMA SyncWriteKeeps ==
    ASSUME Inv, SyncWrite
    PROVE  Inv'
  <1>1. op \in Op /\ op.kind \in {"sync", "shutdown"} /\ op.next < op.end /\ op.end = Capacity
        /\ ready
    BY DEF SyncWrite, Syncing, Inv, TypeOK, Idle
  <1>2. PICK i \in Slots : i = op.next
    BY <1>1, CacheAssumption DEF CacheAssumption, Slots, Op
  <1> DEFINE e == [entries[i] EXCEPT !.dirty = FALSE]
  <1>3. entries \in [Slots -> Entry] /\ device \in [Blocks -> Content]
    BY DEF Inv, TypeOK
  <1>4. entries' = [entries EXCEPT ![i] = e] /\ UNCHANGED <<ready, lastUsed, handles>>
    BY <1>2, <1>3 DEF SyncWrite
  <1>5. entries[i].valid /\ device' = [device EXCEPT ![entries[i].block] = entries[i].data]
    BY <1>2 DEF SyncWrite, Dirty, WrittenBack
  <1>6. entries[i] \in Entry
    BY <1>3
  <1>7. /\ e \in Entry /\ e.valid /\ e.block = entries[i].block
        /\ e.pins = entries[i].pins /\ e.data = entries[i].data
    BY Zenon, <1>5, <1>6 DEF Entry
  <1> HIDE DEF e
  <1>8. /\ device' \in [Blocks -> Content] /\ e.data = device'[e.block]
        /\ \A j \in Slots : entries[j].valid /\ j # i
              => device'[entries[j].block] = device[entries[j].block]
    BY Zenon, <1>3, <1>5, <1>6, <1>7 DEF Entry, Inv, OneBufferPerBlock
  <1>9. \A j \in Slots : entries[j].valid /\ entries[j].block = e.block => j = i
    BY <1>5, <1>7 DEF Inv, OneBufferPerBlock
  <1>10. /\ entries' \in [Slots -> Entry]
         /\ OneBufferPerBlock' /\ PinsAreHolders' /\ HolderKeepsItsBlock'
         /\ ~TrustOverwrite => NoChangeForgotten'
    BY ZenonT(40), <1>4, <1>5, <1>7, <1>8, <1>9, SlotReplaced
  <1>11. op' \in Op /\ op'.kind = op.kind /\ op'.next <= op'.end /\ op'.end = Capacity
    BY <1>1 DEF SyncWrite, Op
  <1>12. TypeOK'
    BY <1>1, <1>4, <1>8, <1>10, <1>11 DEF Inv, TypeOK
  <1> QED
    BY <1>10, <1>12 DEF Inv

\* Steps that leave the buffers, their holders and the device alone.
LEMMA QuietStepKeeps ==
    ASSUME Inv, UNCHANGED <<entries, lastUsed, device, handles>>, TypeOK'
    PROVE  Inv'
  <1>1. \A j \in Slots : Holders(j)' = Holders(j) /\ EditedIn(j)' = EditedIn(j)
    BY DEF Holders, EditedIn
  <1>2. PinsAreHolders'
    BY <1>1 DEF PinsAreHolders, Inv
  <1>3. ~TrustOverwrite => NoChangeForgotten'
    BY <1>1 DEF NoChangeForgotten, Inv
  <1> QED
    BY <1>2, <1>3 DEF Inv, OneBufferPerBlock, HolderKeepsItsBlock

\* Every action of the cache keeps the invariants.
LEMMA NextKeeps ==
    ASSUME Inv, [Next]_vars
    PROVE  Inv'
  <1> USE CacheAssumption DEF CacheAssumption
  <1>1. Idle \in Op /\ Idle.kind = "idle" /\ NoHandle \in Handle /\ ~NoHandle.held
    BY DEF Idle, Op, NoHandle, Handle, Slots, Blocks, Access
  <1>2. CASE Initialize
    <2>1. entries' = Fresh /\ \A h \in Handles : ~handles'[h].held
      BY <1>2 DEF Initialize, Inv, TypeOK
    <2>2. lastUsed' \in [Slots -> 1..Capacity]
      BY <1>2 DEF Initialize, Slots
    <2>3. TypeOK'
      BY Zenon, <1>2, <2>1, <2>2, EmptyCacheAfter DEF Initialize, Inv, TypeOK
    <2> QED
      BY <2>1, <2>3, EmptyCacheAfter DEF Inv
  <1>3. ASSUME NEW kind \in {"read", "write"}, NEW first \in Blocks, NEW count \in 1..BlockCount,
               BeginTransfer(kind, first, count)
        PROVE  Inv'
    <2>1. op' \in Op /\ op'.kind = kind /\ op'.next < op'.end /\ op'.end <= BlockCount
      BY <1>3 DEF BeginTransfer, Op, Blocks
    <2>2. TypeOK'
      BY <1>3, <2>1 DEF BeginTransfer, Inv, TypeOK
    <2> QED
      BY Zenon, <1>3, <2>2, QuietStepKeeps DEF BeginTransfer
  <1>4. CASE \/ \E i \in Slots : ReadStep(i)
             \/ \E i \in Slots, c \in Content : WriteStep(i, c)
             \/ TransferFails
    BY Zenon, <1>4, TransferKeeps
  <1>5. ASSUME NEW kind \in {"sync", "shutdown"}, BeginSync(kind)
        PROVE  Inv'
    <2>1. op' \in Op /\ op'.kind = kind /\ op'.next <= op'.end /\ op'.end = Capacity
      BY <1>5 DEF BeginSync, Op
    <2>2. TypeOK'
      BY <1>5, <2>1 DEF BeginSync, Inv, TypeOK
    <2> QED
      BY Zenon, <1>5, <2>2, QuietStepKeeps DEF BeginSync
  <1>6. CASE SyncSkip
    <2>1. op \in Op /\ op.kind \in {"sync", "shutdown"} /\ op.next < op.end /\ op.end = Capacity
      BY <1>6 DEF SyncSkip, Syncing, Inv, TypeOK
    <2>2. op' \in Op /\ op'.kind = op.kind /\ op'.next <= op'.end /\ op'.end = Capacity
      BY <1>6, <2>1 DEF SyncSkip, Op
    <2>3. TypeOK'
      BY <1>1, <1>6, <2>1, <2>2 DEF SyncSkip, Inv, TypeOK
    <2> QED
      BY <1>6, <2>3, QuietStepKeeps DEF SyncSkip
  <1>7. CASE SyncWrite
    BY <1>7, SyncWriteKeeps
  <1>8. ASSUME NEW k \in 0..Span, SyncWriteFails(k)
        PROVE  Inv'
    <2>1. op \in Op /\ op.kind \in {"sync", "shutdown"} /\ op.next < op.end /\ op.end = Capacity
      BY <1>8 DEF SyncWriteFails, Syncing, Inv, TypeOK
    <2>2. op' \in Op /\ op'.kind = op.kind /\ op'.next <= op'.end /\ op'.end = Capacity
      <3>1. PICK q : q = [op EXCEPT !.next = @ + 1]
        BY Zenon
      <3>2. q \in Op /\ q.kind = op.kind /\ q.next = op.next + 1 /\ q.end = op.end
        BY <2>1, <3>1 DEF Op
      <3>3. op' = [q EXCEPT !.failed = TRUE]
        BY <1>8, <3>1 DEF SyncWriteFails
      <3>4. op' \in Op /\ op'.kind = q.kind /\ op'.next = q.next /\ op'.end = q.end
        BY Zenon, <3>2, <3>3 DEF Op
      <3> QED
        BY <2>1, <3>2, <3>4 DEF Op
    <2>3. PICK i \in Slots : i = op.next
      BY <2>1 DEF Slots, Op
    <2>4. Dirty(i) /\ device' = TornWrite(i, k) /\ UNCHANGED <<entries, handles>>
      BY <1>8, <2>3 DEF SyncWriteFails
    <2>5. /\ device' \in [Blocks -> Content]
          /\ OneBufferPerBlock' /\ PinsAreHolders' /\ HolderKeepsItsBlock'
          /\ ~TrustOverwrite => NoChangeForgotten'
      BY <2>4, TornWriteHarmless
    <2>6. TypeOK'
      BY <1>1, <1>8, <2>1, <2>2, <2>5 DEF SyncWriteFails, Inv, TypeOK
    <2> QED
      BY <2>5, <2>6 DEF Inv
  <1>9. CASE SyncEnds
    <2>1. UNCHANGED <<lastUsed, device, handles>> /\ op' = Idle
      BY <1>9 DEF SyncEnds
    <2>2. CASE UNCHANGED <<ready, entries>>
      <3>1. TypeOK'
        BY <1>1, <2>1, <2>2 DEF Inv, TypeOK
      <3> QED
        BY Zenon, <2>1, <2>2, <3>1, QuietStepKeeps
    <2>3. CASE op.kind = "shutdown" /\ ready' = FALSE /\ entries' = Fresh
      <3>1. \A h \in Handles : ~handles'[h].held
        BY <2>1, <2>3 DEF Inv, TypeOK
      <3>2. TypeOK'
        BY Zenon, <1>1, <2>1, <2>3, <3>1, EmptyCacheAfter DEF Inv, TypeOK
      <3> QED
        BY Zenon, <2>3, <3>1, <3>2, EmptyCacheAfter DEF Inv
    <2> QED
      BY Zenon, <1>9, <2>2, <2>3 DEF SyncEnds
  <1>10. CASE \E h \in Handles, b \in Blocks, access \in Access, i \in Slots :
                Acquire(h, b, access, i)
    BY <1>10, AcquireKeeps
  <1>11. ASSUME NEW h \in Handles, NEW b \in Blocks, NEW access \in Access,
                AcquireFails(h, b, access)
         PROVE  Inv'
    <2>1. /\ entries' \in [Slots -> Entry] /\ device' \in [Blocks -> Content]
          /\ OneBufferPerBlock' /\ PinsAreHolders' /\ HolderKeepsItsBlock'
          /\ ~TrustOverwrite => NoChangeForgotten'
      BY Zenon, <1>11, FailedAcquireKeeps DEF AcquireFails
    <2>2. TypeOK'
      BY <1>11, <2>1 DEF AcquireFails, Inv, TypeOK
    <2> QED
      BY <2>1, <2>2 DEF Inv
  <1>12. CASE \E h \in Handles, c \in Content : Edit(h, c)
    BY <1>12, EditKeeps
  <1>13. CASE \E h \in Handles, dirty \in BOOLEAN : Release(h, dirty)
    BY <1>13, ReleaseKeeps
  <1>14. CASE PowerCut
    <2>1. /\ ready' = FALSE /\ entries' = Fresh /\ op' = Idle /\ UNCHANGED lastUsed
          /\ handles' = [h \in Handles |-> NoHandle]
      BY <1>14 DEF PowerCut
    <2>2. \A h \in Handles : ~handles'[h].held
      BY <1>1, <2>1
    <2>3. device' \in [Blocks -> Content]
      <3>1. entries \in [Slots -> Entry] /\ device \in [Blocks -> Content]
        BY DEF Inv, TypeOK
      <3>2. \A k \in 0..Span : \A new, old \in Content : Torn(k, new, old) \in Content
        BY DEF Torn, Content
      <3>3. \A i \in Slots, k \in 0..Span : TornWrite(i, k) \in [Blocks -> Content]
        BY <3>1, <3>2 DEF TornWrite, Entry
      <3> QED
        BY Zenon, <1>14, <3>1, <3>3 DEF PowerCut
    <2>4. TypeOK'
      BY Zenon, <1>1, <2>1, <2>2, <2>3, EmptyCacheAfter DEF Inv, TypeOK
    <2> QED
      BY <2>1, <2>2, <2>4, EmptyCacheAfter DEF Inv
  <1>15. CASE UNCHANGED vars
    <2>1. TypeOK'
      BY <1>15 DEF vars, Inv, TypeOK
    <2> QED
      BY Zenon, <1>15, <2>1, QuietStepKeeps DEF vars
  <1> QED
    BY ZenonT(40), <1>2, <1>3, <1>4, <1>5, <1>6, <1>7, <1>8, <1>9, <1>10, <1>11, <1>12, <1>13, <1>14,
       <1>15 DEF Next

\* An empty cache satisfies the invariant.
LEMMA InitEstablishes == Init => Inv
  <1> SUFFICES ASSUME Init PROVE Inv
    BY Zenon
  <1> USE CacheAssumption DEF CacheAssumption
  <1>1. Idle \in Op /\ Idle.kind = "idle" /\ NoHandle \in Handle /\ ~NoHandle.held
    BY DEF Idle, Op, NoHandle, Handle, Slots, Blocks, Access
  <1>2. entries = Fresh /\ \A h \in Handles : ~handles[h].held
    BY <1>1 DEF Init
  <1>3. lastUsed \in [Slots -> 1..Capacity]
    BY DEF Init, Slots
  <1>4. TypeOK
    BY Zenon, <1>1, <1>2, <1>3, EmptyCache DEF Init, TypeOK
  <1> QED
    BY <1>2, <1>4, EmptyCache DEF Inv

\* The inductive invariant holds in every reachable state.
THEOREM InvHolds == Spec => []Inv
  <1>1. Inv /\ [Next]_vars => Inv'
    BY NextKeeps
  <1> QED
    BY <1>1, InitEstablishes, PTL DEF Spec

\* Every variable keeps its type (every loop of block_cache.cpp stays inside
\* the array and the device).
THEOREM TypesHold == Spec => []TypeOK
  BY InvHolds, PTL DEF Inv

\* acquire() never gives a block a second buffer.
THEOREM OneBuffer == Spec => []OneBufferPerBlock
  BY InvHolds, PTL DEF Inv

\* The pin counts are exact, so release() of every holder lets every buffer go.
THEOREM PinsExact == Spec => []PinsAreHolders
  BY InvHolds, PTL DEF Inv

\* A buffer somebody holds is never evicted.
THEOREM HeldStays == Spec => []HolderKeepsItsBlock
  BY InvHolds, PTL DEF Inv

\* The three together: what the cache says of its buffers is so.
THEOREM BuffersHold == Spec => []BuffersSound
  BY OneBuffer, PinsExact, HeldStays, PTL DEF BuffersSound

\* Callers that pass dirty = true for what they changed lose nothing: every
\* difference between a buffer and the device is marked for write-back.
THEOREM NothingForgotten ==
    ASSUME ~TrustOverwrite
    PROVE  Spec => []NoChangeForgotten
  <1>1. Inv => NoChangeForgotten
    BY DEF Inv
  <1> QED
    BY <1>1, InvHolds, PTL
================================================================================
