------------------------------- MODULE MCExt4 -------------------------------
(***************************************************************************)
(* Ext4 for TLC, with blocks of two bytes: a volume whose directories and  *)
(* files use trees of extents and tables of pointers, holes and an extent  *)
(* that was never written; one laid out otherwise with the same inode      *)
(* numbers (meta_bg); and one whose journal needs recovery.                *)
(***************************************************************************)
EXTENDS Ext4, TLC

InodeTable(s) == [kind |-> "inodes", inodes |-> s]
Tables(s) == [kind |-> "descriptors", tables |-> s]
Data(a, b) == [kind |-> "data", data |-> <<a, b>>]
Table(a, b) == [kind |-> "table", pointers |-> <<a, b>>]
Node(depth, entries) == [kind |-> "extents", depth |-> depth, entries |-> entries]
Directory(records) == [kind |-> "directory", records |-> records]

Leaf(first, count, at) == [first |-> first, count |-> count, at |-> at, initialized |-> TRUE]
Index(first, child) == [first |-> first, child |-> child]
Rec(at, length, name, inode) ==
    [at |-> at, length |-> length, name |-> name, inode |-> inode, legal |-> name # ".."]

NoNode == Node(0, <<>>)
Unused == [number |-> 0, type |-> "unused", size |-> 0, extents |-> FALSE, root |-> NoNode,
           pointers |-> <<0, 0, 0, 0>>, inline_data |-> FALSE, encrypted |-> FALSE,
           fast_symlink |-> FALSE, target |-> <<>>]
WithExtents(type, size, root) ==
    [Unused EXCEPT !.type = type, !.size = size, !.extents = TRUE, !.root = root]
WithPointers(type, size, pointers) ==
    [Unused EXCEPT !.type = type, !.size = size, !.pointers = pointers]
Link(target) ==
    [Unused EXCEPT !.type = "link", !.size = Len(target), !.fast_symlink = TRUE, !.target = target]
Special == [Unused EXCEPT !.type = "other"]

Super(features) ==
    [magic |-> TRUE, revision |-> 1, incompatible |-> features, bigalloc |-> FALSE,
     checksum_matches |-> TRUE, sparse_super2 |-> FALSE, sparse_super |-> TRUE, backup_groups |-> {},
     blocks_count |-> 18, device_blocks |-> 18, first_data_block |-> 0, blocks_per_group |-> 9,
     inodes_per_group |-> 3, inodes_per_block |-> 3, inodes_count |-> 6,
     descriptors_per_block |-> 2, first_meta_bg |-> 0]

Deep == [superblock |-> Super({"extents"}),
         blocks |-> 1 :> Tables(<<2, 3>>)
            @@ 2 :> InodeTable(<<Special,
                             WithExtents("directory", 6, Node(1, <<Index(0, 4), Index(2, 5)>>)),
                             WithExtents("file", 10, Node(1, <<Index(1, 8), Index(4, 9)>>))>>)
            @@ 3 :> InodeTable(<<WithPointers("directory", 6, <<12, 13, 0, 0>>),
                             WithPointers("file", 10, <<15, 0, 16, 0>>), Link(<<7, 8>>)>>)
            @@ 4 :> Node(0, <<Leaf(0, 1, 6)>>) @@ 5 :> Node(0, <<Leaf(2, 1, 7)>>)
            @@ 6 :> Directory(<<Rec(0, 1, "..", 2), Rec(1, 1, "f", 3)>>)
            @@ 7 :> Directory(<<Rec(0, 1, "x", 1), Rec(1, 1, "d", 4)>>)
            @@ 8 :> Node(0, <<Leaf(1, 1, 10), [Leaf(2, 1, 11) EXCEPT !.initialized = FALSE]>>)
            @@ 9 :> Node(0, <<Leaf(4, 1, 11)>>)
            @@ 10 :> Data(1, 2) @@ 11 :> Data(3, 4)
            @@ 12 :> Directory(<<Rec(0, 2, "f", 5)>>) @@ 13 :> Table(0, 14)
            @@ 14 :> Directory(<<Rec(0, 1, "x", 0), Rec(1, 1, "d", 6)>>)
            @@ 15 :> Data(5, 6) @@ 16 :> Table(17, 0) @@ 17 :> Table(0, 10)]

Flat == [superblock |-> [Super({"extents", "meta_bg"}) EXCEPT !.descriptors_per_block = 1],
         blocks |-> 1 :> Tables(<<2>>) @@ 10 :> Tables(<<11>>)
            @@ 2 :> InodeTable(<<Unused, WithExtents("directory", 2, Node(0, <<Leaf(0, 1, 3)>>)),
                             WithExtents("file", 6, Node(0, <<Leaf(0, 2, 4), Leaf(2, 1, 6)>>))>>)
            @@ 11 :> InodeTable(<<WithExtents("directory", 2, Node(0, <<Leaf(0, 1, 7)>>)), Unused, Unused>>)
            @@ 3 :> Directory(<<Rec(0, 1, "d", 4), Rec(1, 1, "f", 3)>>)
            @@ 4 :> Data(9, 9) @@ 5 :> Data(9, 8) @@ 6 :> Data(8, 8)
            @@ 7 :> Directory(<<Rec(0, 2, "x", 3)>>)
            @@ [b \in {8, 9} \cup 12 .. 17 |-> Data(0, 0)]]

Unclean == [Deep EXCEPT !.superblock.incompatible = {"extents", "recover"}]

Volumes == [deep |-> Deep, flat |-> Flat, unclean |-> Unclean]
ReadPairs == {<<0, 10>>, <<3, 4>>, <<8, 2>>, <<4, 1>>}
=============================================================================
