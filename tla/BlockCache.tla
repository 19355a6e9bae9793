------------------------------ MODULE BlockCache ------------------------------
(***************************************************************************)
(* shirley::io::BlockCache (kernel/io/block_cache.cpp), a write-back cache *)
(* with pinned buffers in front of a block device that may fail.           *)
(*                                                                         *)
(* The kernel calls the cache from one flow of control, so a call runs     *)
(* without other calls in between; `op' says which loop is running, so     *)
(* that a power cut can hit it between two device accesses.  last_used     *)
(* only ever orders the entries, so the model keeps the order (a rank per  *)
(* slot) and not the 64-bit clock.                                         *)
(***************************************************************************)
EXTENDS Integers, FiniteSets

CONSTANTS
    BlockCount,     \* block_count() of the cache
    Capacity,       \* capacity_: how many buffers there are
    Span,           \* device_blocks_: device blocks per cached block
    Values,         \* what one device block can hold
    Zero,           \* the content zero_bytes leaves
    Handles,        \* callers that hold a buffer between acquire and release
    TrustOverwrite  \* whether a caller releases an Overwrite buffer with
                    \* dirty = false after filling it

ASSUME CacheAssumption ==
    /\ BlockCount \in Nat \ {0}
    /\ Capacity \in Nat \ {0}
    /\ Span \in Nat \ {0}
    /\ Zero \in Values
    /\ IsFiniteSet(Handles)
    /\ TrustOverwrite \in BOOLEAN

VARIABLES
    ready,      \* entries_ != nullptr
    entries,    \* entries_[i], without last_used
    lastUsed,   \* rank of entries_[i].last_used among all entries
    device,     \* what the device holds, by cached block
    handles,    \* what each caller of acquire() holds
    op,         \* the loop in progress: read_blocks, write_blocks or sync
    out         \* what the last finished step returned

vars == <<ready, entries, lastUsed, device, handles, op, out>>

Blocks == 0..(BlockCount - 1)
Slots == 0..(Capacity - 1)
Parts == 1..Span
Content == [Parts -> Values]
ZeroBlock == [p \in Parts |-> Zero]
Access == {"Read", "Overwrite"}

Entry == [block : Blocks, data : Content, pins : Nat, valid : BOOLEAN, dirty : BOOLEAN]
Handle == [held : BOOLEAN, slot : Slots, block : Blocks, access : Access, edited : BOOLEAN]
Op == [kind : {"idle", "read", "write", "sync", "shutdown"},
       next : Nat, end : Nat, failed : BOOLEAN]

NoOutput == [kind |-> "none"]
Failed == [kind |-> "error"]
Flushed == [kind |-> "flushed"]
Returned(b, c) == [kind |-> "read", block |-> b, data |-> c]

EmptyEntry == [block |-> 0, data |-> ZeroBlock, pins |-> 0, valid |-> FALSE, dirty |-> FALSE]
Fresh == [i \in Slots |-> EmptyEntry]
NoHandle == [held |-> FALSE, slot |-> 0, block |-> 0, access |-> "Read", edited |-> FALSE]
Idle == [kind |-> "idle", next |-> 0, end |-> 0, failed |-> FALSE]

-------------------------------------------------------------------------------
\* The pieces of acquire().

\* find(): the first valid entry for the block.
Hit(b) == \E i \in Slots : entries[i].valid /\ entries[i].block = b

IsFind(i, b) ==
    /\ entries[i].valid /\ entries[i].block = b
    /\ \A j \in Slots : entries[j].valid /\ entries[j].block = b => i <= j

Unpinned == {i \in Slots : entries[i].pins = 0}

\* A bug for which pins do not protect a buffer: the `pins != 0' test missing.
IsVictim_IgnoringPins(i) ==
    \/ ~entries[i].valid /\ \A j \in Slots : ~entries[j].valid => i <= j
    \/ \A j \in Slots : entries[j].valid /\ lastUsed[i] <= lastUsed[j]

\* victim(): the first empty unpinned entry, else the unpinned entry unused
\* the longest.
IsVictim(i) ==
    /\ i \in Unpinned
    /\ \/ ~entries[i].valid /\ \A j \in Unpinned : ~entries[j].valid => i <= j
       \/ \A j \in Unpinned : entries[j].valid /\ lastUsed[i] <= lastUsed[j]

Dirty(i) == entries[i].valid /\ entries[i].dirty

\* write_blocks() of a device that fails may have stored the first k device
\* blocks already.
Torn(k, new, old) == [p \in Parts |-> IF p <= k THEN new[p] ELSE old[p]]
TornWrite(i, k) ==
    [device EXCEPT ![entries[i].block] = Torn(k, entries[i].data, @)]

\* write_back() of a victim before its buffer is reused.
WrittenBack(i) ==
    IF Dirty(i) THEN [device EXCEPT ![entries[i].block] = entries[i].data] ELSE device

\* A miss: the victim's buffer now holds block b.
Loaded(i, b, access) ==
    [entries[i] EXCEPT !.block = b, !.valid = TRUE, !.dirty = FALSE,
                       !.data = IF access = "Read" THEN device[b] ELSE @]

\* A bug that leaves an overwritten block clean.
Opened_Clean(e, access) ==
    IF access = "Overwrite" THEN [e EXCEPT !.data = ZeroBlock] ELSE e

\* Overwrite zeroes the buffer and marks it for write-back at once.
Opened(e, access) ==
    IF access = "Overwrite" THEN [e EXCEPT !.data = ZeroBlock, !.dirty = TRUE] ELSE e

\* acquire() succeeds on slot i ...
Acquired(b, i) ==
    \/ IsFind(i, b) /\ UNCHANGED device
    \/ ~Hit(b) /\ IsVictim(i) /\ device' = WrittenBack(i)

\* ... whose entry is then this one, before the pin is counted.
AcquiredEntry(b, access, i) ==
    Opened(IF Hit(b) THEN entries[i] ELSE Loaded(i, b, access), access)

\* acquire() returns nullptr: everything is pinned, the victim cannot be
\* written back, or the new block cannot be read.
AcquireFailed(b, access) ==
    /\ ~Hit(b)
    /\ \/ Unpinned = {} /\ UNCHANGED <<entries, device>>
       \/ \E i \in Slots, k \in 0..Span :
             /\ IsVictim(i) /\ Dirty(i)
             /\ device' = TornWrite(i, k)
             /\ UNCHANGED entries
       \/ \E i \in Slots, c \in Content :
             /\ IsVictim(i) /\ access = "Read"
             /\ device' = WrittenBack(i)
             /\ entries' = [entries EXCEPT ![i].block = b, ![i].data = c, ![i].valid = FALSE,
                                           ![i].dirty = @ /\ ~entries[i].valid]

\* last_used = ++clock_: slot i becomes the most recently used one.
Touched(i) ==
    [j \in Slots |-> IF j = i THEN Capacity
                     ELSE IF lastUsed[j] > lastUsed[i] THEN lastUsed[j] - 1 ELSE lastUsed[j]]

-------------------------------------------------------------------------------
Init ==
    /\ ready = FALSE
    /\ entries = Fresh
    /\ lastUsed = [i \in Slots |-> i + 1]
    /\ device \in [Blocks -> Content]
    /\ handles = [h \in Handles |-> NoHandle]
    /\ op = Idle
    /\ out = NoOutput

\* initialize(); a call that fails changes nothing.
Initialize ==
    /\ ~ready
    /\ ready' = TRUE
    /\ entries' = Fresh
    /\ lastUsed' = [i \in Slots |-> i + 1]
    /\ out' = NoOutput
    /\ UNCHANGED <<device, handles, op>>

\* read_blocks() and write_blocks() past their argument checks.
BeginTransfer(kind, first, count) ==
    /\ ready /\ op = Idle
    /\ first + count <= BlockCount
    /\ op' = [kind |-> kind, next |-> first, end |-> first + count, failed |-> FALSE]
    /\ out' = NoOutput
    /\ UNCHANGED <<ready, entries, lastUsed, device, handles>>

Advanced == IF op.next + 1 = op.end THEN Idle ELSE [op EXCEPT !.next = @ + 1]

\* One pass of read_blocks(): acquire, copy out, release(data, false).
ReadStep(i) ==
    /\ op.kind = "read"
    /\ Acquired(op.next, i)
    /\ entries' = [entries EXCEPT ![i] = AcquiredEntry(op.next, "Read", i)]
    /\ lastUsed' = Touched(i)
    /\ out' = Returned(op.next, entries'[i].data)
    /\ op' = Advanced
    /\ UNCHANGED <<ready, handles>>

\* One pass of write_blocks(): acquire, copy in, release(data, true).
WriteStep(i, c) ==
    /\ op.kind = "write"
    /\ Acquired(op.next, i)
    /\ entries' = [entries EXCEPT ![i] =
          [AcquiredEntry(op.next, "Overwrite", i) EXCEPT !.data = c, !.dirty = TRUE]]
    /\ lastUsed' = Touched(i)
    /\ out' = NoOutput
    /\ op' = Advanced
    /\ UNCHANGED <<ready, handles>>

\* The loop stops at the first block acquire() cannot give.
TransferFails ==
    /\ \/ op.kind = "read" /\ AcquireFailed(op.next, "Read")
       \/ op.kind = "write" /\ AcquireFailed(op.next, "Overwrite")
    /\ op' = Idle
    /\ out' = Failed
    /\ UNCHANGED <<ready, lastUsed, handles>>

\* sync(), and shutdown() which starts with it.  Callers release their
\* buffers before they shut the cache down.
BeginSync(kind) ==
    /\ ready /\ op = Idle
    /\ kind = "shutdown" => \A h \in Handles : ~handles[h].held
    /\ op' = [kind |-> kind, next |-> 0, end |-> Capacity, failed |-> FALSE]
    /\ out' = NoOutput
    /\ UNCHANGED <<ready, entries, lastUsed, device, handles>>

Syncing == op.kind \in {"sync", "shutdown"} /\ op.next < op.end

SyncSkip ==
    /\ Syncing /\ ~Dirty(op.next)
    /\ op' = [op EXCEPT !.next = @ + 1]
    /\ out' = NoOutput
    /\ UNCHANGED <<ready, entries, lastUsed, device, handles>>

SyncWrite ==
    /\ Syncing /\ Dirty(op.next)
    /\ device' = WrittenBack(op.next)
    /\ entries' = [entries EXCEPT ![op.next].dirty = FALSE]
    /\ op' = [op EXCEPT !.next = @ + 1]
    /\ out' = NoOutput
    /\ UNCHANGED <<ready, lastUsed, handles>>

\* A bug that forgets a failure when a later block is written.
SyncWriteFails_Forgotten(k) ==
    /\ Syncing /\ Dirty(op.next)
    /\ device' = TornWrite(op.next, k)
    /\ op' = [op EXCEPT !.next = @ + 1]
    /\ out' = NoOutput
    /\ UNCHANGED <<ready, entries, lastUsed, handles>>

\* A failed block stays dirty and the rest are still attempted.
SyncWriteFails(k) ==
    /\ Syncing /\ Dirty(op.next)
    /\ device' = TornWrite(op.next, k)
    /\ op' = [op EXCEPT !.next = @ + 1, !.failed = TRUE]
    /\ out' = NoOutput
    /\ UNCHANGED <<ready, entries, lastUsed, handles>>

\* The loop is over; shutdown() gives the buffers back only if nothing failed.
SyncEnds ==
    /\ op.kind \in {"sync", "shutdown"} /\ op.next = op.end
    /\ IF op.kind = "shutdown" /\ ~op.failed
         THEN ready' = FALSE /\ entries' = Fresh
         ELSE UNCHANGED <<ready, entries>>
    /\ out' = IF op.failed THEN Failed ELSE Flushed
    /\ op' = Idle
    /\ UNCHANGED <<lastUsed, device, handles>>

\* acquire() called by a file system that edits a block in place.
Acquire(h, b, access, i) ==
    /\ ready /\ op = Idle /\ ~handles[h].held
    /\ Acquired(b, i)
    /\ entries' = [entries EXCEPT ![i] = [AcquiredEntry(b, access, i) EXCEPT !.pins = @ + 1]]
    /\ lastUsed' = Touched(i)
    /\ handles' = [handles EXCEPT ![h] =
          [held |-> TRUE, slot |-> i, block |-> b, access |-> access, edited |-> FALSE]]
    /\ out' = NoOutput
    /\ UNCHANGED <<ready, op>>

AcquireFails(h, b, access) ==
    /\ ready /\ op = Idle /\ ~handles[h].held
    /\ AcquireFailed(b, access)
    /\ out' = Failed
    /\ UNCHANGED <<ready, lastUsed, handles, op>>

\* The holder writes through the pointer it was given.
Edit(h, c) ==
    /\ op = Idle /\ handles[h].held
    /\ entries' = [entries EXCEPT ![handles[h].slot].data = c]
    /\ handles' = [handles EXCEPT ![h].edited = TRUE]
    /\ out' = NoOutput
    /\ UNCHANGED <<ready, lastUsed, device, op>>

\* release(): the caller says whether it changed the content.  With
\* TrustOverwrite it leaves that to the mark Overwrite already set.
Release(h, dirty) ==
    /\ op = Idle /\ handles[h].held
    /\ handles[h].edited => dirty \/ (TrustOverwrite /\ handles[h].access = "Overwrite")
    /\ entries' = [entries EXCEPT ![handles[h].slot].pins = @ - 1,
                                  ![handles[h].slot].dirty = @ \/ dirty]
    /\ handles' = [handles EXCEPT ![h] = NoHandle]
    /\ out' = NoOutput
    /\ UNCHANGED <<ready, lastUsed, device, op>>

\* The power goes: memory is gone, and a write in flight may be half done.
PowerCut ==
    /\ ready
    /\ \/ UNCHANGED device
       \/ \E i \in Slots, k \in 0..Span : Dirty(i) /\ device' = TornWrite(i, k)
    /\ ready' = FALSE
    /\ entries' = Fresh
    /\ handles' = [h \in Handles |-> NoHandle]
    /\ op' = Idle
    /\ out' = NoOutput
    /\ UNCHANGED lastUsed

Next ==
    \/ Initialize
    \/ \E kind \in {"read", "write"}, first \in Blocks, count \in 1..BlockCount :
          BeginTransfer(kind, first, count)
    \/ \E i \in Slots : ReadStep(i)
    \/ \E i \in Slots, c \in Content : WriteStep(i, c)
    \/ TransferFails
    \/ \E kind \in {"sync", "shutdown"} : BeginSync(kind)
    \/ SyncSkip
    \/ SyncWrite
    \/ \E k \in 0..Span : SyncWriteFails(k)
    \/ SyncEnds
    \/ \E h \in Handles, b \in Blocks, access \in Access, i \in Slots :
          Acquire(h, b, access, i)
    \/ \E h \in Handles, b \in Blocks, access \in Access : AcquireFails(h, b, access)
    \/ \E h \in Handles, c \in Content : Edit(h, c)
    \/ \E h \in Handles, dirty \in BOOLEAN : Release(h, dirty)
    \/ PowerCut

Spec == Init /\ [][Next]_vars

-------------------------------------------------------------------------------
\* Every variable has its type; the ranks stay within the slots, and nothing
\* is cached or held before initialize() and after shutdown() or a power cut.
TypeOK ==
    /\ ready \in BOOLEAN
    /\ entries \in [Slots -> Entry]
    /\ lastUsed \in [Slots -> 1..Capacity]
    /\ device \in [Blocks -> Content]
    /\ handles \in [Handles -> Handle]
    /\ op \in Op
    /\ op.kind \in {"read", "write"} => op.next < op.end /\ op.end <= BlockCount
    /\ op.kind \in {"sync", "shutdown"} => op.next <= op.end /\ op.end = Capacity
    /\ ~ready => entries = Fresh /\ op = Idle
    /\ ~ready \/ op.kind = "shutdown" => \A h \in Handles : ~handles[h].held

\* A block has one buffer: two copies would let a write to one be hidden by
\* the other (find() returns the first of them).
OneBufferPerBlock ==
    \A i, j \in Slots :
        entries[i].valid /\ entries[j].valid /\ entries[i].block = entries[j].block => i = j

Holders(i) == {h \in Handles : handles[h].held /\ handles[h].slot = i}

\* The pin count of an entry is the number of callers that hold its buffer,
\* through every mix of hits, evictions and failures.
PinsAreHolders == \A i \in Slots : entries[i].pins = Cardinality(Holders(i))

\* The pointer acquire() returned stays on the block it was asked for until
\* release(), whatever else is read, written or evicted meanwhile
\* (block_cache.hpp: a held block cannot be evicted).
HolderKeepsItsBlock ==
    \A h \in Handles : handles[h].held =>
        /\ entries[handles[h].slot].valid
        /\ entries[handles[h].slot].block = handles[h].block

\* What the cache says of its buffers is so, after any mix of hits, evictions and
\* failures: a block has one buffer, pins count its holders, and a held buffer stays
\* on its block (acquire, release, victim).
BuffersSound == OneBufferPerBlock /\ PinsAreHolders /\ HolderKeepsItsBlock

EditedIn(i) == \E h \in Holders(i) : handles[h].edited

\* A buffer that differs from the device is either marked for write-back or in
\* the hands of a caller that has yet to release it: no change can be lost by
\* an eviction or missed by sync().
NoChangeForgotten ==
    \A i \in Slots :
        entries[i].valid /\ ~entries[i].dirty /\ ~EditedIn(i)
            => entries[i].data = device[entries[i].block]

-------------------------------------------------------------------------------
\* The abstract store the cache implements: a reader sees the buffer of a
\* cached block and the device for the rest.
View ==
    [b \in Blocks |->
        IF Hit(b) THEN entries[CHOOSE i \in Slots : entries[i].valid /\ entries[i].block = b].data
        ELSE device[b]]

Editing == {handles[h].block : h \in {g \in Handles : handles[g].held /\ handles[g].edited}}

Store == INSTANCE BlockStore WITH
    Blocks <- Blocks, Span <- Span, Values <- Values,
    store <- View, media <- device, editing <- Editing, out <- out

\* The cache behaves as the store it stands for: a read returns the latest
\* write, sync() succeeds only with everything on the device, and a power cut
\* leaves what the device held.
ImplementsStore == Store!Spec
===============================================================================
