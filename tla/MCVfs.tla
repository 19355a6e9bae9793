-------------------------------- MODULE MCVfs --------------------------------
(***************************************************************************)
(* DeviceMounts for TLC.  Most machines have a disk whose partition table  *)
(* has something wrong with it, or nothing; in two of them it has two      *)
(* partitions with volumes that can be mounted.                            *)
(***************************************************************************)
EXTENDS DeviceMounts

UpCase(name) == IF name = "a" THEN "A" ELSE name

TypedPaths ==
    {<<>>, <<"..">>, <<"a">>, <<"b">>, <<".", "a">>, <<"a", "a">>, <<"a", "b">>,
     <<"a", "..", "b">>, <<"a", "a", "a">>, <<"a", "a", "b">>}
AtRoot == {<<>>}
ThreePaths == {<<>>, <<"a">>, <<"b">>}
-----------------------------------------------------------------------------
\* Sectors and disks

E(type, start, count) == [status_ok |-> TRUE, type |-> type, start |-> start, count |-> count]
None4 == <<E("empty", 0, 0), E("empty", 0, 0), E("empty", 0, 0), E("empty", 0, 0)>>
Blank == [kind |-> "blank"]
Mbr(e1, e2) == [kind |-> "mbr", entries |-> <<e1, e2, None4[3], None4[4]>>]
VolumeBoot == [kind |-> "volume", entries |-> None4]
G(first, last) == [used |-> TRUE, first |-> first, last |-> last]
Unused == [used |-> FALSE, first |-> 0, last |-> 0]
Array(a, b) == [kind |-> "array", gpt |-> <<a, b>>]
Header(lba, array, content) ==
    [kind |-> "header", intact |-> TRUE, lba |-> lba, array |-> array, blocks |-> 1, crc |-> content]

Disk(blocks, at) ==
    [legacy |-> TRUE, block_size_ok |-> TRUE, blocks |-> blocks, bad |-> {},
     at |-> [b \in 0 .. blocks - 1 |-> IF b \in DOMAIN at THEN at[b] ELSE Blank]]
Failing(disk, bad) == [disk EXCEPT !.bad = bad]

Two == Disk(6, 0 :> Mbr(E("data", 1, 2), E("data", 3, 3)))
TooLong == Disk(6, 0 :> Mbr(E("data", 1, 2), E("data", 3, 4)))
BadStatus == [Two EXCEPT !.at[0].entries[3].status_ok = FALSE]
Logical == Disk(9, 0 :> Mbr(E("data", 1, 1), E("extended", 2, 6))
                @@ 2 :> Mbr(E("data", 1, 1), E("extended", 2, 3))
                @@ 4 :> Mbr(E("data", 1, 4), E("extended", 4, 1))
                @@ 6 :> Mbr(E("data", 1, 1), E("extended", 2, 2)))
TwoExtended == Disk(9, 0 :> Mbr(E("extended", 1, 4), E("extended", 5, 4))
                    @@ 1 :> Mbr(E("data", 1, 1), E("empty", 0, 0))
                    @@ 5 :> Mbr(E("data", 1, 2), E("empty", 0, 0)))
Entries == <<G(3, 4), G(5, 9)>>
Gpt == Disk(8, 0 :> Mbr(E("protective", 1, 99), E("empty", 0, 0))
            @@ 1 :> Header(1, 2, Entries) @@ 2 :> Array(Entries[1], Entries[2])
            @@ 6 :> Array(Entries[1], Unused) @@ 7 :> Header(7, 6, <<Entries[1], Unused>>))
NoPrimary == [Gpt EXCEPT !.at[1].intact = FALSE]
BadArrays == [Gpt EXCEPT !.at[2].gpt[1] = G(2, 6), !.at[7].lba = 6]
BadPrimaryArray == [Gpt EXCEPT !.at[2].gpt[1] = G(2, 6)]

Images ==
    {Disk(1, <<>>), Disk(4, <<>>), Disk(4, 0 :> VolumeBoot), [Two EXCEPT !.block_size_ok = FALSE], [Two EXCEPT !.legacy = FALSE],
     TooLong, BadStatus, Failing(Two, {0}), Logical, Failing(Logical, {4}), TwoExtended,
     Gpt, NoPrimary, BadArrays, BadPrimaryArray, Failing(Gpt, {2}), Failing(Gpt, {1, 6})}
-----------------------------------------------------------------------------
Volume(format, fails) == [format |-> format, fails |-> fails, dirty |-> FALSE, nodes |-> <<>>]
NoMedia == "vda1" :> Volume("none", FALSE)

Machine(hard, on, root) == [hardware |-> hard, media |-> on, image |-> root]

\* Root images: the header is 2 bytes, an entry 2, a block 4.
D(name, parent) ==
    [terminated |-> TRUE, name |-> name, directory |-> TRUE, parent |-> parent, offset |-> 0, size |-> 0]
F(name, parent, offset, size) ==
    [terminated |-> TRUE, name |-> name, directory |-> FALSE, parent |-> parent, offset |-> offset, size |-> size]
Image(entries, size, storage) ==
    [storage |-> storage, magic |-> TRUE, version |-> 1, count |-> Len(entries), table |-> 2,
     data |-> 2 + 2 * Len(entries), size |-> size,
     entries |-> [i \in 0 .. Len(entries) - 1 |-> entries[i + 1]]]
RootImage == Image(<<D("", 0), D("dev", 0)>>, 8, 8)
Tree == Image(<<D("", 0), D("dev", 0), D("a", 0), F("b", 2, 12, 3)>>, 15, 16)
RootImages ==
    {Tree, [Tree EXCEPT !.magic = FALSE], [Tree EXCEPT !.version = 2], [Tree EXCEPT !.count = 0],
     [Tree EXCEPT !.table = 1], [Tree EXCEPT !.data = 9], [Tree EXCEPT !.storage = 15],
     [Tree EXCEPT !.entries[0].directory = FALSE], [Tree EXCEPT !.entries[2].terminated = FALSE],
     [Tree EXCEPT !.entries[3].parent = 4], [Tree EXCEPT !.entries[3].size = 6],
     [Tree EXCEPT !.entries[3].offset = 9], [Tree EXCEPT !.entries[3].offset = 17],
     [Tree EXCEPT !.entries[2].name = "dev"],                              \* two of one name
     [Tree EXCEPT !.entries[2].parent = 3],                                \* in a file, and a cycle
     [Tree EXCEPT !.entries[3].directory = TRUE, !.entries[2].parent = 3], \* a cycle
     [Tree EXCEPT !.entries[3].size = 0, !.entries[3].offset = 15],
     [RootImage EXCEPT !.size = 1],                                        \* size - table wraps
     [RootImage EXCEPT !.size = 1, !.storage = 4],
     Image(<<D("", 0), D("dev", 0), D("a", 1), D("a", 2), F("b", 3, 12, 8)>>, 20, 20),
     Image(<<D("", 0), D("dev", 0), D("a", 0), D("a", 2), D("a", 3), F("b", 4, 14, 2)>>, 16, 16)}

TestMachines ==
    {Machine(<<disk>>, NoMedia, RootImage) : disk \in Images}
    \cup {Machine(<<Two, disk, Two>>, NoMedia, RootImage) : disk \in {TwoExtended, Gpt}}
    \cup {Machine(<<>>, <<>>, root) : root \in RootImages}
    \cup {Machine(<<Two>>, "vda1" :> Volume("exfat", FALSE) @@ "vda2" :> Volume("ext4", FALSE), RootImage),
          Machine(<<Two>>, "vda1" :> Volume("exfat", TRUE) @@ "vda2" :> Volume("none", FALSE), RootImage)}
==============================================================================
