-------------------------------- MODULE Shrfs --------------------------------
(***************************************************************************)
(* kernel/fs/shrfs.cpp and shrfs_vfs.cpp: the read-only root file system,  *)
(* an image in a RAM disk (drivers/block/ram_disk.cpp).  A header says     *)
(* where the entry table and the data region are; an entry has a name, its *)
(* parent's index and, for a file, where its bytes are.  mount() decodes   *)
(* all of it once, and nothing is checked again afterwards.                *)
(*                                                                         *)
(* An image is what its fields decode to; entries are counted from 0, the  *)
(* root, and the bytes of files are their positions in the image.          *)
(***************************************************************************)
EXTENDS Integers, Sequences, FiniteSets

CONSTANTS
    block_bytes,    \* the RAM disk's blocks
    header_bytes,
    entry_bytes,
    max_depth,      \* the longest chain of parents path_of() follows
    Word            \* 2^64: sizes are unsigned

ASSUME ShrfsAssumption ==
    /\ block_bytes \in Nat \ {0} /\ header_bytes \in Nat \ {0} /\ entry_bytes \in Nat \ {0}
    /\ max_depth \in Nat /\ Word \in Nat \ {0}

VARIABLES
    image,       \* the embedded image: [storage, magic, version, count, table,
                 \* data, size, entries], fixed
    fs_mounted   \* mount() has succeeded
-----------------------------------------------------------------------------
\* RamDisk: whole blocks only
block_count == image.storage \div block_bytes

\* read_bytes(), block by block: it fails where a block is not there
read_bytes(offset, length) ==
    length = 0 \/ (offset + length - 1) \div block_bytes < block_count

\* A bug: only where the data starts is checked, not where it ends.
DataInside_Start(e) == e.offset \in image.data .. image.size

DataInside(e) == e.offset \in image.data .. image.size /\ e.size <= image.size - e.offset

\* read_entry(): the node, or none when it does not decode
read_entry(index) ==
    {image.entries[i] : i \in
       {i \in {index} \cap 0 .. image.count - 1 :
          LET e == image.entries[i]
          IN  /\ read_bytes(image.table + i * entry_bytes, entry_bytes)
              /\ e.terminated
              /\ e.parent < image.count
              /\ e.directory \/ DataInside(e)}}

\* mount() of the RAM disk
mount_image ==
    /\ read_bytes(0, header_bytes)
    /\ image.magic /\ image.version = 1 /\ image.count # 0
    /\ image.table >= header_bytes /\ image.data >= image.table
    /\ image.size <= block_count * block_bytes
    /\ image.count * entry_bytes <= (image.size - image.table) % Word
    /\ image.table + image.count * entry_bytes <= image.data
    /\ \E root \in read_entry(0) : root.directory
    /\ \A index \in 0 .. image.count - 1 : read_entry(index) # {}

\* list() and child_count() of a directory: its children in table order
Listed(index) ==
    SelectSeq([i \in 1 .. image.count - 1 |-> i], LAMBDA i : image.entries[i].parent = index)

\* the first entry of a directory with the name: Volume lookup() of shrfs_vfs.cpp
\* and the scan in lookup()
first_named(index, name) ==
    LET named == SelectSeq(Listed(index), LAMBDA i : image.entries[i].name = name)
    IN  IF named = <<>> THEN {} ELSE {named[1]}

\* lookup() along the components of a path, from base: the entry found, or none
fs_lookup(path, base) ==
    LET Along(name, i) == CASE name = "." -> {i}
                            [] name = ".." -> {image.entries[i].parent}
                            [] OTHER -> IF image.entries[i].directory THEN first_named(i, name) ELSE {}
        at[n \in 0 .. Len(path)] ==
            IF n = 0 THEN {base} ELSE UNION {Along(path[n], i) : i \in at[n - 1]}
    IN  at[Len(path)]

\* path_of(): upwards to the root; none when that takes more than max_depth steps
path_of(index) ==
    LET Up(s) == IF s.at = 0 THEN s
                 ELSE [at |-> image.entries[s.at].parent,
                       path |-> <<image.entries[s.at].name>> \o s.path]
        after[n \in 0 .. max_depth] ==
            IF n = 0 THEN [at |-> index, path |-> <<>>] ELSE Up(after[n - 1])
        top == after[max_depth]
    IN  {path \in {top.path} : top.at = 0}

Least(a, b) == IF a < b THEN a ELSE b

\* read() of a file: whether it succeeds, and the positions read
shrfs_read(index, offset, length) ==
    LET e == image.entries[index]
        amount == Least(length, e.size - offset)
    IN  IF offset >= e.size THEN [ok |-> TRUE, bytes |-> {}]
        ELSE IF e.offset = 0 \/ ~ read_bytes(e.offset + offset, amount)
               THEN [ok |-> FALSE, bytes |-> {}]
        ELSE [ok |-> TRUE, bytes |-> e.offset + offset .. e.offset + offset + amount - 1]

\* vfs::read_file() of it into a buffer: how much it says it has read
read_file(index, capacity) ==
    LET total == Cardinality(shrfs_read(index, 0, capacity).bytes)
    IN  IF total = capacity /\ shrfs_read(index, total, 1).bytes # {} THEN 0 ELSE total
-----------------------------------------------------------------------------
\* A tree, as the tool that makes the images writes it: every parent is a directory,
\* names differ within a directory, and the root is its own parent.
WellFormed ==
    /\ image.entries[0].parent = 0
    /\ \A i \in 1 .. image.count - 1 :
          LET e == image.entries[i]
          IN  /\ image.entries[e.parent].directory
              /\ \A j \in 1 .. image.count - 1 :
                    image.entries[j].parent = e.parent /\ image.entries[j].name = e.name => i = j

\* What mount() has accepted needs no checking afterwards (mount, read): every part
\* of a file that is asked for is read, from the data region, and a whole file is
\* read whole or not at all; and every entry is found again by its own path (path_of).
RootTrue ==
    fs_mounted =>
        /\ \A index \in 0 .. image.count - 1 : ~ image.entries[index].directory =>
              LET size == image.entries[index].size
              IN  /\ \A offset, length \in 0 .. size + 1 :
                        LET result == shrfs_read(index, offset, length)
                        IN  /\ result.ok /\ result.bytes \subseteq image.data .. image.storage - 1
                            /\ Cardinality(result.bytes) =
                                  IF offset >= size THEN 0 ELSE Least(length, size - offset)
                  /\ \A capacity \in 1 .. size + 1 : read_file(index, capacity) \in {0, size}
        /\ WellFormed => \A index \in 0 .. image.count - 1 : \A path \in path_of(index) :
              fs_lookup(path, 0) = {index}
==============================================================================
