-------------------------------- MODULE Exfat --------------------------------
(***************************************************************************)
(* kernel/fs/exfat.cpp: how a writable exFAT volume changes its device.    *)
(* The allocation bitmap, the FAT, the entry sets of files, the clusters'  *)
(* contents and VolumeDirty, as the volume sees them through the block     *)
(* cache (mem) and as the device holds them (disk).                        *)
(*                                                                         *)
(* An operation is the list of writes it makes, in the code's order, each  *)
(* with what the code does when it fails.  One step makes one write, so    *)
(* that a power cut may fall between any two.  Behind a write-back cache a *)
(* block reaches the device at some later moment (WriteBack), which flush  *)
(* waits for; without one, at once.  Lengths count clusters.  Each file's  *)
(* entry set lies in one block of its directory; directories do not grow.  *)
(***************************************************************************)
EXTENDS Integers, Sequences, FiniteSets, SequencesExt

CONSTANTS
    Names,       \* the files' names
    DirOf,       \* name -> the directory block its entry set is in
    Owners,      \* identities of file contents (a bound on files over time)
    Setups       \* the devices and callers considered, see setup

EndOfChain == 1
Nobody == "nobody"

ASSUME ExfatAssumption ==
    /\ DOMAIN DirOf = Names
    /\ Nobody \notin Owners
    /\ Setups \subseteq [cached : BOOLEAN,
                         failing : SUBSET {"bitmap", "fat", "data", "dir", "flags", "flush"},
                         operations : SUBSET {"create", "write", "truncate", "remove", "rename"},
                         last : Nat, longest : Nat]

VARIABLES
    mem,    \* the volume as reads through the cache see it
    disk,   \* the volume as the device holds it
    mode,   \* "no" when not mounted, "ro" or "rw" (writable_)
    todo,   \* the writes the operation in progress has still to make
    removed, \* the files remove() has been called for since the last mount
    setup   \* fixed: whether the device is behind a write-back cache, the
            \* kinds of write that may fail, the operations callers use, the
            \* last cluster, and the most clusters of a file (bounds)

vars == <<mem, disk, mode, todo, removed, setup>>

Clusters == 2 .. setup.last

\* An entry set, or Absent: the clusters from `first', `length' of them, the
\* first `valid' of them written, and whose content they hold.
Entry(who, first, contiguous, length, valid) ==
    [who |-> who, first |-> first, contiguous |-> contiguous, length |-> length, valid |-> valid]
Absent == Entry(Nobody, 0, FALSE, 0, 0)
Present(vol) == {n \in Names : vol.dir[n] # Absent}

\* cluster_at(): the i-th cluster of a stream, along the FAT unless contiguous;
\* 0 when the chain ends too soon.
cluster_at(vol, e) ==
    LET at[i \in 1 .. e.length] ==
            IF i = 1 THEN e.first
            ELSE IF e.contiguous THEN e.first + i - 1
            ELSE IF at[i - 1] \in Clusters THEN vol.fat[at[i - 1]] ELSE 0
    IN  [i \in 1 .. e.length |-> at[i]]
-----------------------------------------------------------------------------
\* Writes

Write(on, at, to, undo) == [on |-> on, at |-> at, to |-> to, undo |-> undo, ignored |-> FALSE]
Ignoring(w) == [w EXCEPT !.ignored = TRUE]

bitmap_set(c, used, undo) == Write("bitmap", c, used, undo)
fat_set(c, next, undo) == Write("fat", c, next, undo)
write_stream(c, who, undo) == Write("data", c, who, undo)
store(name, e) == Write("dir", name, e, <<>>)
erase(name) == store(name, Absent)
set_volume_flags(dirty) == Ignoring(Write("flags", 0, dirty, <<>>))
flush == Ignoring(Write("flush", 0, 0, <<>>))

Applied(vol, w) ==
    CASE w.on = "bitmap" -> [vol EXCEPT !.used = IF w.to THEN @ \cup {w.at} ELSE @ \ {w.at}]
      [] w.on = "fat" -> [vol EXCEPT !.fat[w.at] = w.to]
      [] w.on = "data" -> [vol EXCEPT !.data[w.at] = w.to]
      [] w.on = "dir" -> [vol EXCEPT !.dir[w.at] = w.to]
      [] w.on = "flags" -> [vol EXCEPT !.dirty = w.to]
      [] OTHER -> vol

\* release_clusters(): give back the clusters cs of a stream, of which `kept'
\* come before; what the FAT says of them is cleared too when it is chained.
\* A bitmap write that fails ends it, a FAT write that fails does not.
release_clusters(cs, kept, contiguous) ==
    LET freed(c) == <<bitmap_set(c, FALSE, <<>>)>>
                    \o IF contiguous THEN <<>> ELSE <<Ignoring(fat_set(c, 0, <<>>))>>
        tail == IF kept = <<>> \/ contiguous THEN <<>>
                ELSE <<fat_set(Last(kept), EndOfChain, <<>>)>>
    IN  IF cs = <<>> THEN <<>>
        ELSE FlattenSeq([i \in DOMAIN cs |-> freed(cs[i])]) \o tail

\* the links of a stream that stops being contiguous
Converted(chain, undo) == [i \in 1 .. Len(chain) - 1 |-> fat_set(chain[i], chain[i + 1], undo)]

\* resize() of a stream with clusters `old' by the clusters `new': each is
\* marked, then linked, the whole chain being written into the FAT when it
\* stops being contiguous.  undo gives back the clusters added before the one
\* that failed.
Grown(old, contiguous, new) ==
    FoldLeft(LAMBDA s, c :
        LET added == SubSeq(s.chain, Len(old) + 1, Len(s.chain))
            undo(contig) == release_clusters(added, old, contig)
            breaks == s.chain # <<>> /\ s.contiguous /\ c # Last(s.chain) + 1
            contig == s.chain = <<>> \/ (s.contiguous /\ ~ breaks)
            converted == IF breaks THEN Converted(s.chain, undo(TRUE)) ELSE <<>>
            linked == IF contig THEN <<>>
                      ELSE (IF s.chain = <<>> THEN <<>> ELSE <<fat_set(Last(s.chain), c, undo(FALSE))>>)
                           \o <<fat_set(c, EndOfChain, undo(FALSE))>>
        IN  [chain |-> Append(s.chain, c),
             contiguous |-> contig,
             writes |-> s.writes \o <<bitmap_set(c, TRUE, undo(s.contiguous))>> \o converted \o linked],
        [chain |-> old, contiguous |-> contiguous, writes |-> <<>>], new)

\* allocate_cluster(): the cluster after the last one when it is free, else
\* any that is (the search starts at allocation_hint_)
allocate_cluster(chain, taken) ==
    LET free == Clusters \ (mem.used \cup taken)
    IN  IF chain # <<>> /\ Last(chain) + 1 \in free THEN {Last(chain) + 1} ELSE free

\* the sequences of clusters that allocating n more, one by one, may yield
Allocations(old, n) ==
    {new \in [1 .. n -> Clusters] :
        \A i \in 1 .. n :
            new[i] \in allocate_cluster(old \o SubSeq(new, 1, i - 1), {new[j] : j \in 1 .. i - 1})}
-----------------------------------------------------------------------------
\* Operations

Idle == mode = "rw" /\ todo = <<>>

\* a volume just formatted
Blank == [dirty |-> FALSE, used |-> {}, fat |-> [c \in Clusters |-> 0],
          dir |-> [n \in Names |-> Absent], data |-> [c \in Clusters |-> Nobody]]

Init ==
    /\ setup \in Setups
    /\ mem = Blank /\ disk = Blank
    /\ mode = "no"
    /\ todo = <<>>
    /\ removed = {}

Marked(vol) == [vol EXCEPT !.dirty = TRUE]

\* mount(): a volume that is clean becomes dirty on the device and is then
\* writable; if that fails it is mounted read-only, the flag put back as well
\* as can be
mount ==
    /\ mode = "no"
    /\ removed' = {}
    /\ UNCHANGED todo
    /\ \/ ~ disk.dirty /\ mode' = "rw"
          /\ disk' = Marked(disk) /\ mem' = Marked(disk)
       \/ disk.dirty /\ mode' = "ro" /\ mem' = disk /\ UNCHANGED disk
       \/ "flags" \in setup.failing /\ ~ disk.dirty /\ mode' = "ro" /\ mem' = disk
          /\ \E reached \in BOOLEAN : disk' = [disk EXCEPT !.dirty = reached]

\* the flag is cleared before what is modified is written back
UnmountWrites_FlagFirst == <<set_volume_flags(FALSE), flush>>

UnmountWrites == <<flush, set_volume_flags(FALSE), flush>>

\* unmount() of a writable volume, and of one that is not; then the cache is
\* shut down, which writes back what is left
unmount ==
    /\ mode \in {"ro", "rw"} /\ todo = <<>>
    /\ mode' = "unmounting"
    /\ todo' = IF mode = "rw" THEN UnmountWrites ELSE <<>>
    /\ UNCHANGED <<mem, disk, removed>>

shutdown ==
    /\ mode = "unmounting" /\ todo = <<>>
    /\ disk = mem \/ "flush" \in setup.failing
    /\ mode' = "no" /\ mem' = disk
    /\ UNCHANGED <<disk, todo, removed>>

Owned(vol) == {vol.dir[n].who : n \in Names} \cup {vol.data[c] : c \in Clusters}

create(name) ==
    /\ mem.dir[name] = Absent
    /\ \E who \in Owners \ (Owned(mem) \cup Owned(disk)) :
          /\ todo' = <<store(name, Entry(who, 0, FALSE, 0, 0))>>
          /\ removed' = removed \ {who}
    /\ UNCHANGED <<mem, disk, mode>>

\* the entry set is stored before the data is written
WriteOrder_EntryFirst(grow, data, entry) == grow \o entry \o data

WriteOrder(grow, data, entry) == grow \o data \o entry

\* write() up to the n-th cluster, the gap after ValidDataLength zeroed: the
\* clusters, then the data, then the entry set.  When the data cannot be
\* written the entry set is stored all the same, ValidDataLength unchanged.
write(name, n) ==
    LET e == mem.dir[name]
        old == cluster_at(mem, e)
        length == IF n > e.length THEN n ELSE e.length
    IN  /\ e # Absent /\ n > e.valid
        /\ \E new \in Allocations(old, length - e.length) :
              LET g == Grown(old, e.contiguous, new)
                  final == Entry(e.who, g.chain[1], g.contiguous, length, n)
                  failed == <<store(name, [final EXCEPT !.valid = e.valid])>>
                  data == [i \in 1 .. n - e.valid |-> write_stream(g.chain[e.valid + i], e.who, failed)]
              IN  todo' = WriteOrder(g.writes, data, <<store(name, final)>>)
        /\ UNCHANGED <<mem, disk, mode, removed>>

ValidAfter(e, n) == IF e.valid > n THEN n ELSE e.valid

\* truncate() to n clusters, which may also extend the file
truncate(name, n) ==
    LET e == mem.dir[name]
        old == cluster_at(mem, e)
    IN  /\ e # Absent /\ n # e.length
        /\ IF n < e.length
           THEN LET kept == SubSeq(old, 1, n)
                IN  todo' = release_clusters(SubSeq(old, n + 1, e.length), kept, e.contiguous)
                            \o <<store(name, Entry(e.who, IF n = 0 THEN 0 ELSE e.first,
                                                   n # 0 /\ e.contiguous, n, ValidAfter(e, n)))>>
           ELSE \E new \in Allocations(old, n - e.length) :
                   LET g == Grown(old, e.contiguous, new)
                   IN  todo' = g.writes \o <<store(name, Entry(e.who, g.chain[1], g.contiguous, n, e.valid))>>
        /\ UNCHANGED <<mem, disk, mode, removed>>

\* the clusters are freed before the entry set is retired
RemoveOrder_ClustersFirst(retire, release) == release \o retire

RemoveOrder(retire, release) == retire \o release

remove(name) ==
    LET e == mem.dir[name]
    IN  /\ e # Absent
        /\ todo' = RemoveOrder(<<erase(name)>>, release_clusters(cluster_at(mem, e), <<>>, e.contiguous))
        /\ removed' = removed \cup {e.who}
        /\ UNCHANGED <<mem, disk, mode>>

\* the old entry set is retired before the new one is written
RenameOrder_OldFirst(new, old) == old \o new

RenameOrder(new, old) == new \o old

rename(from, to) ==
    /\ mem.dir[from] # Absent /\ mem.dir[to] = Absent
    /\ todo' = RenameOrder(<<store(to, mem.dir[from])>>, <<erase(from)>>)
    /\ UNCHANGED <<mem, disk, mode, removed>>

\* the next write of the operation in progress
Step ==
    /\ todo # <<>>
    /\ Head(todo).on = "flush" => disk = mem
    /\ mem' = Applied(mem, Head(todo))
    /\ disk' = IF setup.cached THEN disk ELSE Applied(disk, Head(todo))
    /\ todo' = Tail(todo)
    /\ UNCHANGED <<mode, removed>>

\* it fails, and a device may have stored the block all the same: the
\* operation goes on as if it had not failed, or ends with its undo
StepFails ==
    /\ todo # <<>> /\ Head(todo).on \in setup.failing
    /\ todo' = IF Head(todo).ignored THEN Tail(todo) ELSE Head(todo).undo
    /\ \/ UNCHANGED <<mem, disk>>
       \/ ~ setup.cached /\ mem' = Applied(mem, Head(todo)) /\ disk' = Applied(disk, Head(todo))
    /\ UNCHANGED <<mode, removed>>

\* The cache writes a modified block back: to make room, or for a flush.
WriteBack ==
    /\ setup.cached
    /\ \/ disk' = [disk EXCEPT !.dirty = mem.dirty]
       \/ disk' = [disk EXCEPT !.used = mem.used]
       \/ disk' = [disk EXCEPT !.fat = mem.fat]
       \/ \E d \in {DirOf[n] : n \in Names} :
             disk' = [disk EXCEPT !.dir = [n \in Names |-> IF DirOf[n] = d THEN mem.dir[n] ELSE @[n]]]
       \/ \E c \in Clusters : disk' = [disk EXCEPT !.data[c] = mem.data[c]]
    /\ disk' # disk
    /\ UNCHANGED <<mem, mode, todo, removed>>

PowerCut ==
    /\ mode # "no"
    /\ mem' = disk /\ mode' = "no" /\ todo' = <<>>
    /\ UNCHANGED <<disk, removed>>

\* The operations a caller may begin on a writable volume.
Begin ==
    /\ Idle
    /\ \/ "create" \in setup.operations /\ \E n \in Names : create(n)
       \/ "write" \in setup.operations /\ \E n \in Names, len \in 1 .. setup.longest : write(n, len)
       \/ "truncate" \in setup.operations /\ \E n \in Names, len \in 0 .. setup.longest : truncate(n, len)
       \/ "remove" \in setup.operations /\ \E n \in Names : remove(n)
       \/ "rename" \in setup.operations /\ \E from, to \in Names : rename(from, to)

Next ==
    /\ UNCHANGED setup
    /\ mount \/ unmount \/ shutdown \/ Begin \/ Step \/ StepFails \/ WriteBack \/ PowerCut

Spec == Init /\ [][Next]_vars
-----------------------------------------------------------------------------
ClustersOf(vol, name) == ToSet(cluster_at(vol, vol.dir[name]))

\* Every entry set is one that next_entry() takes, and none points at clusters that
\* were freed or were not written.
Safe(vol) ==
    \A n \in Present(vol) :
        /\ vol.dir[n].valid <= vol.dir[n].length
        /\ vol.dir[n].length # 0 => vol.dir[n].first # 0
        /\ ClustersOf(vol, n) \subseteq vol.used
        /\ \A i \in 1 .. vol.dir[n].valid : vol.data[cluster_at(vol, vol.dir[n])[i]] = vol.dir[n].who

Disjoint(vol) ==
    \A m, n \in Present(vol) : m # n => ClustersOf(vol, m) \cap ClustersOf(vol, n) = {}

\* What tools/check-exfat-image.py checks of a volume: no cluster has two
\* owners and the bitmap matches the clusters in use exactly.
Sound(vol) ==
    /\ Safe(vol) /\ Disjoint(vol)
    /\ vol.used = UNION {ClustersOf(vol, n) : n \in Present(vol)}

\* The volume is consistent where it is taken to be, as long as no write fails: on
\* the device while its VolumeDirty is clear, so that a power cut at any moment, in
\* the middle of unmount() too, leaves a consistent volume or one that the next mount
\* recognises as dirty (exfat.hpp, mount); and as mounted between two operations,
\* whatever mixture of contiguous and chained files they have made.
VolumeSound ==
    setup.failing = {} =>
        /\ ~ disk.dirty => Sound(disk)
        /\ Idle => Sound(mem)

\* At every moment, the middle of an operation included, a power cut leaks clusters
\* at worst and never leaves an entry pointing at clusters that were not written or
\* were already freed (OS_SPEC.md, exFAT), where writes reach the device in the order
\* the code makes them and nobody truncates: the order of write(), remove() and
\* rename() is right, even when writes fail.
OrderedCutLeaksAtWorst == ~ setup.cached /\ "truncate" \notin setup.operations => Safe(disk)

Named(vol) == {vol.dir[n].who : n \in Present(vol)}

\* A file that has a name on the device keeps one unless it is removed
\* (OS_SPEC.md: at every moment a file has at least one name), where writes
\* reach the device in the order the code makes them.
FileKeepsName == [][~ setup.cached => Named(disk) \ Named(disk') \subseteq removed]_vars

\* When writes fail, operations end part way and the mounted volume may leak
\* clusters, but no entry points at a free or unwritten cluster and no cluster
\* has two owners (exfat.cpp, write).
FailureLeaksAtWorst == Idle => Safe(mem) /\ Disjoint(mem)
==============================================================================
