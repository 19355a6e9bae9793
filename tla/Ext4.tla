-------------------------------- MODULE Ext4 --------------------------------
(***************************************************************************)
(* kernel/fs/ext4.cpp: the read-only ext2/3/4 volume.  What it reads never *)
(* changes, but it answers from three records that earlier calls leave     *)
(* behind (extent_, loaded_ with the buffer block_, and listing_), on a    *)
(* device any read of which may fail.                                      *)
(*                                                                         *)
(* A block of the volume holds one thing: group descriptors, inodes, an    *)
(* extent node, a table of block pointers, directory records or data.      *)
(* block_ is the number of the block read into it.  A call runs to its end *)
(* undisturbed; the blocks in bad cannot be read while it does.            *)
(***************************************************************************)
EXTENDS Integers, Sequences, SequencesExt, FiniteSets, FiniteSetsExt, Folds

CONSTANTS
    Images,         \* name -> a volume that may be on the device
    BlockBytes,     \* block_bytes_
    direct_blocks,
    per_block,      \* block pointers in a block
    logical_limit,
    Supported,      \* incompat_supported
    Names,          \* the names looked up
    Reads           \* the offsets and lengths read (a bound)

ASSUME Ext4Assumption ==
    /\ BlockBytes \in Nat \ {0} /\ direct_blocks \in Nat \ {0} /\ per_block \in Nat \ {0}
    /\ logical_limit \in Nat /\ Reads \subseteq Nat \X Nat

VARIABLES
    image,     \* the volume on the device
    mounted,   \* device_ is set
    record,    \* extent_, loaded_, block_ and listing_
    call,      \* the last call and its answer
    disturbed  \* directories a listing of which has met a device error

vars == <<image, mounted, record, call, disturbed>>

None == 0      \* no inode, no block

\* Volume{}: nothing is remembered.
Fresh == [extent  |-> [inode |-> None, logical |-> 0, length |-> 0, physical |-> 0],
          loaded  |-> [inode |-> None, logical |-> 0],
          block   |-> None,
          listing |-> [inode |-> None, index |-> 0, position |-> 0]]

NoCall == [op |-> "none"]

Block(b) == Images[image].blocks[b]
sb == Images[image].superblock
-----------------------------------------------------------------------------
(* Inodes *)

PowersUpTo(value, base) == {base ^ k : k \in 1 .. value}
power_of(value, base) == value \in PowersUpTo(value, base)

has_superblock(group) ==
    \/ group = 0
    \/ IF sb.sparse_super2 THEN group \in sb.backup_groups
       ELSE \/ group = 1 \/ ~ sb.sparse_super
            \/ group % 2 = 1 /\ \E base \in {3, 5, 7} : power_of(group, base)

group_count == (sb.blocks_count - sb.first_data_block + sb.blocks_per_group - 1) \div sb.blocks_per_group

\* group_descriptor_offset(): the block that holds a group's descriptor
descriptor_block(group) ==
    LET index == group \div sb.descriptors_per_block
        first == index * sb.descriptors_per_block
    IN  IF "meta_bg" \in sb.incompatible /\ index >= sb.first_meta_bg
          THEN sb.first_data_block + first * sb.blocks_per_group + (IF has_superblock(first) THEN 1 ELSE 0)
          ELSE sb.first_data_block + 1 + index

InVolume(first, count) == first # 0 /\ first < sb.blocks_count /\ count <= sb.blocks_count - first

\* where the inodes of a group are, if its descriptor can be read and makes sense
inode_table(group, bad) ==
    {table \in {Block(d).tables[(group % sb.descriptors_per_block) + 1] :
                    d \in ({descriptor_block(group)} \cap 0 .. sb.blocks_count - 1) \ bad} :
        /\ group < group_count
        /\ InVolume(table, (sb.inodes_per_group + sb.inodes_per_block - 1) \div sb.inodes_per_block)}

\* an inode of a group, if it can be read and is in use
InodeAt(group, index, bad) ==
    {inode \in {Block(b).inodes[(index % sb.inodes_per_block) + 1] :
                    b \in {table + index \div sb.inodes_per_block : table \in inode_table(group, bad)} \ bad} :
        inode.type # "unused" /\ ~ inode.inline_data}

\* the inode of a number, or none
load_inode(number, bad) ==
    UNION {{[inode EXCEPT !.number = n] :
               inode \in InodeAt((n - 1) \div sb.inodes_per_group, (n - 1) % sb.inodes_per_group, bad)} :
           n \in {number} \cap 1 .. sb.inodes_count}

\* to_node() knows directories, files and symbolic links
IsNode(inode) == inode.type \in {"directory", "file", "link"}
-----------------------------------------------------------------------------
(* Where a block of a file is *)

Unmapped(r) == [ok |-> FALSE, physical |-> 0, run |-> 0, record |-> r]

\* the block at logical of the remembered extent, and how far the extent goes on
FromExtent(r, logical) ==
    LET skip == logical - r.extent.logical
    IN  [ok |-> TRUE, physical |-> IF r.extent.physical = 0 THEN 0 ELSE r.extent.physical + skip,
         run |-> r.extent.length - skip, record |-> r]

Remembered(r, inode, logical) ==
    /\ r.extent.inode = inode.number
    /\ logical >= r.extent.logical /\ logical - r.extent.logical < r.extent.length

\* where the range of entry n ends: at the next entry, or where the node's does
Limit(node, n, limit) ==
    IF n < Len(node.entries) THEN Min({limit, node.entries[n + 1].first}) ELSE limit

\* the entries of a node before the first that starts past logical
Starting(node, logical) ==
    Cardinality({i \in DOMAIN node.entries : \A j \in 1 .. i : node.entries[j].first <= logical})

\* A leaf: the extent that covers logical, or the hole it is in.
FromLeaf(node, inode, logical, limit, r) ==
    LET n == Starting(node, logical)
        covering == {i \in 1 .. n : logical - node.entries[i].first < node.entries[i].count}
        e == node.entries[Min(covering)]
        Found(start, length, target) ==
            FromExtent([r EXCEPT !.extent = [inode |-> inode.number, logical |-> start,
                                             length |-> length, physical |-> target]], logical)
    IN  IF covering = {} THEN Found(logical, Limit(node, n, limit) - logical, 0)
        ELSE IF ~ InVolume(e.at, e.count) THEN Unmapped(r)
        ELSE Found(e.first, e.count, IF e.initialized THEN e.at ELSE 0)

RECURSIVE FromNode(_, _, _, _, _, _, _)

\* A bug: a node is read over a directory block that still counts as loaded.
IntoBlock_KeepsLoaded(r, b) == [r EXCEPT !.block = b]

\* block_ is about to hold something else
IntoBlock(r, b) == [r EXCEPT !.block = b, !.loaded = Fresh.loaded]

\* map_extent()'s loop, from the root in the inode down
FromNode(node, depth, inode, logical, limit, bad, r) ==
    LET n == Starting(node, logical)
        child == node.entries[n].child
    IN  IF node.kind # "extents" \/ node.depth # depth THEN Unmapped(r)
        ELSE IF depth = 0 THEN FromLeaf(node, inode, logical, limit, r)
        ELSE IF n = 0
          THEN FromExtent([r EXCEPT !.extent = [inode |-> inode.number, logical |-> logical,
                              length |-> Limit(node, 0, limit) - logical, physical |-> 0]], logical)
        ELSE IF ~ InVolume(child, 1) THEN Unmapped(r)
        ELSE IF child \in bad THEN Unmapped(IntoBlock(r, None))
        ELSE FromNode(Block(child), depth - 1, inode, logical, Limit(node, n, limit), bad, IntoBlock(r, child))

map_extent(inode, logical, bad, r) ==
    IF Remembered(r, inode, logical) THEN FromExtent(r, logical)
    ELSE FromNode(inode.root, inode.root.depth, inode, logical, logical_limit, bad, r)

\* blocks reached through fewer than k levels of pointer tables
Before(k) == FoldFunctionOnSet(+, 0, [i \in 1 .. 3 |-> per_block ^ i], 1 .. k - 1)

\* map_indirect(): the direct pointers, then tables of one, two and three levels
map_indirect(inode, logical, bad) ==
    LET rest == logical - direct_blocks
        levels == {k \in 1 .. 3 : rest < Before(k + 1)}
        Follow(at, span) ==
            IF ~ at.ok \/ at.value = 0 THEN at
            ELSE IF at.value >= sb.blocks_count \/ at.value \in bad THEN [at EXCEPT !.ok = FALSE]
            ELSE [at EXCEPT !.value = Block(at.value).pointers[(at.rest \div span) + 1],
                            !.rest = @ % span]
        k == Min(levels)
        end == FoldLeft(Follow,
                        [ok |-> TRUE, value |-> inode.pointers[direct_blocks + k], rest |-> rest - Before(k)],
                        [i \in 1 .. k |-> per_block ^ (k - i)])
    IN  IF logical < direct_blocks THEN [ok |-> TRUE, value |-> inode.pointers[logical + 1]]
        ELSE IF levels = {} THEN [ok |-> TRUE, value |-> 0]
        ELSE end

OneBlock(physical, r) == [ok |-> TRUE, physical |-> physical, run |-> 1, record |-> r]
FromPointer(p, r) == IF p.ok /\ p.value < sb.blocks_count THEN OneBlock(p.value, r) ELSE Unmapped(r)

map_block(inode, logical, bad, r) ==
    IF logical >= logical_limit THEN OneBlock(0, r)
    ELSE IF inode.extents THEN map_extent(inode, logical, bad, r)
    ELSE FromPointer(map_indirect(inode, logical, bad), r)
-----------------------------------------------------------------------------
(* Content *)

\* a byte of a block; of one that holds no data, some other value
Byte(b, i) == IF Block(b).kind = "data" THEN Block(b).data[i + 1] ELSE -1

\* read_bytes() of length bytes of the volume; nothing counts when a block fails
read_bytes(first, within, length) ==
    [i \in 1 .. length |-> Byte(first + (within + i - 1) \div BlockBytes, (within + i - 1) % BlockBytes)]
Touched(first, within, length) == first .. first + (within + length - 1) \div BlockBytes

RECURSIVE ReadFrom(_, _, _, _, _)

\* one round of read_inode()'s loop, the block mapped to m
ReadRun(inode, end, data, bad, m) ==
    LET within == (end.offset + Len(data)) % BlockBytes
        take == Min({m.run * BlockBytes - within, end.length - Len(data)})
        more == IF m.physical = 0 THEN [i \in 1 .. take |-> 0] ELSE read_bytes(m.physical, within, take)
    IN  IF ~ m.ok \/ (m.physical # 0 /\ Touched(m.physical, within, take) \cap bad # {})
          THEN [ok |-> FALSE, data |-> data, record |-> m.record]
        ELSE ReadFrom(inode, end, data \o more, bad, m.record)

\* read_inode()'s loop with the data read so far
ReadFrom(inode, end, data, bad, r) ==
    IF Len(data) = end.length THEN [ok |-> TRUE, data |-> data, record |-> r]
    ELSE ReadRun(inode, end, data, bad, map_block(inode, (end.offset + Len(data)) \div BlockBytes, bad, r))

read_inode(inode, offset, length, bad, r) ==
    LET n == IF offset >= inode.size THEN 0 ELSE Min({length, inode.size - offset})
    IN  IF inode.fast_symlink
          THEN [ok |-> TRUE, data |-> SubSeq(inode.target, offset + 1, offset + n), record |-> r]
          ELSE ReadFrom(inode, [offset |-> offset, length |-> n], <<>>, bad, r)

\* the directory record at a byte of the block in block_, if there is one
RecordAt(b, within) ==
    IF b = None THEN {}
    ELSE IF Block(b).kind # "directory" THEN {}
    ELSE {e \in ToSet(Block(b).records) :
             e.at = within /\ e.length > 0 /\ within + e.length <= BlockBytes}

\* What a loop over a directory comes to is the set of its outcomes, which has one
\* member.
NoEntry(position, r) == {[found |-> FALSE, position |-> position, record |-> r]}

RECURSIVE next_entry(_, _, _, _)

\* the block is in block_: the record there; "." and ".." and empty ones are not legal
FromRecord(dir, position, bad, here, r) ==
    LET e == CHOOSE x \in here : TRUE
    IN  IF here = {} THEN NoEntry(position, r)
        ELSE IF ~ e.legal \/ e.inode = 0 \/ e.inode > sb.inodes_count
          THEN next_entry(dir, position + e.length, bad, r)
        ELSE {[found |-> TRUE, entry |-> e, position |-> position + e.length, record |-> r]}
FromBlock(dir, position, bad, r) ==
    UNION {FromRecord(dir, position, bad, here, r) : here \in {RecordAt(r.block, position % BlockBytes)}}

\* the block is read first, from where m says
Loading(dir, position, logical, bad, m) ==
    IF ~ m.ok THEN NoEntry(position, m.record)
    ELSE IF m.physical = 0 THEN next_entry(dir, (logical + 1) * BlockBytes, bad, m.record)
    ELSE IF m.physical \in bad THEN NoEntry(position, IntoBlock(m.record, None))
    ELSE UNION {FromBlock(dir, position, bad, r) :
                   r \in {[IntoBlock(m.record, m.physical) EXCEPT
                              !.loaded = [inode |-> dir.number, logical |-> logical]]}}

\* the next entry of a directory from a position on
next_entry(dir, position, bad, r) ==
    LET logical == position \div BlockBytes
    IN  IF dir.encrypted \/ position >= dir.size THEN NoEntry(position, r)
        ELSE IF r.loaded = [inode |-> dir.number, logical |-> logical]
          THEN FromBlock(dir, position, bad, r)
        ELSE UNION {Loading(dir, position, logical, bad, m) : m \in {map_block(dir, logical, bad, r)}}

RECURSIVE Search(_, _, _, _, _)

\* one round of lookup()'s loop
SearchNext(dir, name, bad, next) ==
    IF ~ next.found THEN {[answer |-> {}, record |-> next.record]}
    ELSE IF next.entry.name # name THEN Search(dir, name, next.position, bad, next.record)
    ELSE {[answer |-> {i.number : i \in {j \in load_inode(next.entry.inode, bad) : IsNode(j)}},
           record |-> next.record]}

\* lookup()'s loop
Search(dir, name, position, bad, r) ==
    UNION {SearchNext(dir, name, bad, next) : next \in next_entry(dir, position, bad, r)}

RECURSIVE ListFrom(_, _, _, _, _, _)

\* one round of list()'s loop; an entry that cannot be opened is not counted
ListNext(dir, wanted, index, bad, next) ==
    IF ~ next.found THEN {[answer |-> {}, record |-> next.record]}
    ELSE IF ~ \E i \in load_inode(next.entry.inode, bad) : IsNode(i)
      THEN ListFrom(dir, wanted, index, next.position, bad, next.record)
    ELSE IF index = wanted
      THEN {[answer |-> {next.entry.name},
             record |-> [next.record EXCEPT !.listing =
                            [inode |-> dir.number, index |-> index + 1, position |-> next.position]]]}
    ELSE ListFrom(dir, wanted, index + 1, next.position, bad, next.record)

\* list()'s loop
ListFrom(dir, wanted, index, at, bad, r) ==
    UNION {ListNext(dir, wanted, index, bad, next) : next \in next_entry(dir, at, bad, r)}

Resumes(r, dir, position) == r.listing.inode = dir.number /\ r.listing.index <= position
-----------------------------------------------------------------------------
(* The volume and its callers *)

\* the checks of mount(), the device large enough for a superblock
Mountable ==
    /\ sb.magic /\ sb.revision <= 1
    /\ sb.incompatible \subseteq Supported
    /\ "recover" \notin sb.incompatible /\ ~ sb.bigalloc
    /\ sb.checksum_matches
    /\ sb.blocks_per_group > 0 /\ sb.inodes_per_group > 0
    /\ sb.first_data_block <= 1 /\ sb.first_data_block < sb.blocks_count
    /\ group_count * sb.inodes_per_group = sb.inodes_count
    /\ sb.blocks_count <= sb.device_blocks
    /\ \E root \in load_inode(2, {}) : root.type = "directory"

Init ==
    /\ image \in DOMAIN Images
    /\ mounted = FALSE /\ record = Fresh /\ call = NoCall /\ disturbed = {}

\* Another volume on the device, while none is mounted.
Change(i) ==
    /\ ~ mounted
    /\ image' = i
    /\ UNCHANGED <<mounted, record, call, disturbed>>

mount ==
    /\ ~ mounted /\ Mountable
    /\ mounted' = TRUE
    /\ UNCHANGED <<image, record, call, disturbed>>

\* A bug: what was remembered of the volume stays.
Released_Keeps(r) == r

\* release(): *this = Volume{}
Released(r) == Fresh

Ready == mounted /\ call = NoCall

unmount ==
    /\ Ready
    /\ mounted' = FALSE
    /\ record' = Released(record) /\ disturbed' = {}
    /\ UNCHANGED <<image, call>>

\* The caller has its answer.
Return ==
    /\ call # NoCall
    /\ call' = NoCall
    /\ UNCHANGED <<image, mounted, record, disturbed>>

lookup(dir, name, bad) ==
    /\ Ready
    /\ \E result \in LET parents == {i \in load_inode(dir, bad) : i.type = "directory"}
                      IN  IF parents = {} THEN {[answer |-> {}, record |-> record]}
                          ELSE UNION {Search(i, name, 0, bad, record) : i \in parents} :
          /\ call' = [op |-> "lookup", inode |-> dir, name |-> name, answer |-> result.answer,
                      failed |-> bad # {}]
          /\ record' = result.record
    /\ UNCHANGED <<image, mounted, disturbed>>

list(dir, position, bad) ==
    /\ Ready
    /\ \E parent \in load_inode(dir, bad) :
          /\ parent.type = "directory"
          /\ \E result \in ListFrom(parent, position,
                    IF Resumes(record, parent, position) THEN record.listing.index ELSE 0,
                    IF Resumes(record, parent, position) THEN record.listing.position ELSE 0, bad, record) :
                /\ call' = [op |-> "list", inode |-> dir, position |-> position,
                            answer |-> result.answer, failed |-> bad # {}]
                /\ record' = result.record
    /\ disturbed' = IF bad # {} THEN disturbed \cup {dir}
                    ELSE IF position = 0 THEN disturbed \ {dir} ELSE disturbed
    /\ UNCHANGED <<image, mounted>>

read(file, offset, length, bad) ==
    /\ Ready
    /\ \E inode \in load_inode(file, bad) :
          /\ inode.type \in {"file", "link"} /\ ~ inode.encrypted
          /\ \E result \in {read_inode(inode, offset, length, bad, record)} :
                /\ call' = [op |-> "read", inode |-> file, offset |-> offset, length |-> length,
                            ok |-> result.ok, data |-> result.data, failed |-> bad # {}]
                /\ record' = result.record
    /\ UNCHANGED <<image, mounted, disturbed>>

Failures == {{}} \cup {{b} : b \in DOMAIN Images[image].blocks}

\* callers hold nodes of the volume
Inodes == {n \in 1 .. sb.inodes_count : load_inode(n, {}) # {}}

Next ==
    \/ \E i \in DOMAIN Images : Change(i)
    \/ mount
    \/ unmount
    \/ Return
    \/ \E bad \in Failures, inode \in Inodes :
          \/ \E name \in Names : lookup(inode, name, bad)
          \/ \E position \in 0 .. Cardinality(Names) : list(inode, position, bad)
          \/ \E r \in Reads : read(inode, r[1], r[2], bad)

Spec == Init /\ [][Next]_vars
-----------------------------------------------------------------------------
(* What a volume holds, read off its blocks at once *)

RECURSIVE Extents(_)
Extents(node) ==
    IF node.depth = 0 THEN ToSet(node.entries)
    ELSE UNION {Extents(Block(e.child)) : e \in ToSet(node.entries)}

RECURSIVE Pointers(_, _)
Pointers(b, level) ==
    IF level = 0 THEN <<b>>
    ELSE IF b = 0 THEN [i \in 1 .. per_block ^ level |-> 0]
    ELSE FlattenSeq([i \in 1 .. per_block |-> Pointers(Block(b).pointers[i], level - 1)])

\* the block at logical of a file, 0 for a hole
BlockOf(inode, logical) ==
    LET covering == {e \in Extents(inode.root) : logical \in e.first .. e.first + e.count - 1}
        e == CHOOSE x \in covering : TRUE
        all == FlattenSeq([i \in 1 .. direct_blocks + 3 |->
                              Pointers(inode.pointers[i], Max({0, i - direct_blocks}))])
    IN  IF inode.extents THEN IF covering = {} THEN 0 ELSE IF ~ e.initialized THEN 0 ELSE e.at + logical - e.first
        ELSE IF logical < Len(all) THEN all[logical + 1] ELSE 0

Bytes(inode) ==
    [i \in 1 .. inode.size |->
        LET b == BlockOf(inode, (i - 1) \div BlockBytes)
        IN  IF inode.fast_symlink THEN inode.target[i]
            ELSE IF b = 0 THEN 0 ELSE Byte(b, (i - 1) % BlockBytes)]

\* the entries of a directory that can be opened, in order
Entries(inode) ==
    SelectSeq(FlattenSeq([l \in 1 .. inode.size \div BlockBytes |->
                             LET b == BlockOf(inode, l - 1) IN IF b = 0 THEN <<>> ELSE Block(b).records]),
              LAMBDA e : e.legal /\ e.inode \in 1 .. sb.inodes_count /\ \E i \in load_inode(e.inode, {}) : IsNode(i))

\* Whatever was read, looked up or listed before, of this volume or another, and
\* whatever failed meanwhile: what read() returns is the file's content from the
\* offset on, all of it unless the device failed (ext4.cpp:386-555).
ReadsAreTrue ==
    call.op = "read" =>
        \A inode \in load_inode(call.inode, {}) : \A all \in {Bytes(inode)} :
            LET wanted == SubSeq(all, call.offset + 1, Min({Len(all), call.offset + call.length}))
            IN  /\ IsPrefix(call.data, wanted)
                /\ call.ok => call.data = wanted
                /\ ~ call.failed => call.ok

\* A directory's entries, whatever was called before (ext4.cpp:563-688): a name is
\* found exactly when the directory has it, unless the device failed, and then as the
\* right inode; list() numbers the entries without gap or repetition, in whatever
\* order they are asked for, and a listing begun anew is right again after a device
\* error.
DirectoriesAreTrue ==
    call.op \in {"lookup", "list"} =>
        \A inode \in {i \in load_inode(call.inode, {}) : i.type = "directory"} : \A all \in {Entries(inode)} :
            /\ call.op = "lookup" =>
                  LET there == {e.inode : e \in {x \in ToSet(all) : x.name = call.name}}
                  IN  call.answer \subseteq there /\ (~ call.failed => call.answer = there)
            /\ call.op = "list" /\ call.inode \notin disturbed =>
                  call.answer = IF call.position < Len(all) THEN {all[call.position + 1].name} ELSE {}
=============================================================================
