----------------------------- MODULE Partitions -----------------------------
(***************************************************************************)
(* Disks and their partitions as devices: the device registry              *)
(* (kernel/device/device.cpp), what a disk's partition table says          *)
(* (kernel/fs/partition.cpp: MBR with its chain of logical partitions, GPT *)
(* with its backup), and publish(), which registers a window on the disk   *)
(* for each partition.                                                     *)
(*                                                                         *)
(* A sector is what it holds: "blank", "volume" (a file system's boot      *)
(* sector), "mbr" (signed, with four entries), a GPT "header" or an        *)
(* "array" of GPT entries.  A checksum is the content it was computed of.  *)
(* The registry holds pointers: a window stands for the Device object in   *)
(* its slot.                                                               *)
(***************************************************************************)
EXTENDS Integers, Sequences, FiniteSets, TLC

CONSTANTS
    max_devices,    \* device::max_devices
    max_block_devices,
    max_windows,    \* partition::max_devices
    max_entries,    \* partitions one table records
    max_logical     \* extended boot records followed

ASSUME PartitionsAssumption ==
    /\ max_devices \in Nat /\ max_windows \in Nat /\ max_block_devices \in 0 .. 4
    /\ max_entries \in Nat /\ max_logical \in Nat

VARIABLES
    hardware,  \* the disks the platform finds, in order, fixed
    probed,    \* how many of them have been tried
    attached,  \* virtio's slots in use: the disks that started, in order
    windows,   \* partition::slots
    registry   \* device::devices: <<"other", n>>, <<"disk", d>> or <<"window", w>>

disks == <<hardware, probed, attached, windows, registry>>

Windows == 1 .. max_windows
NoWindow == [used |-> FALSE]
-----------------------------------------------------------------------------
\* Reading a partition table

\* A disk: the fields of the sectors that have any are numbers and flags.
MbrEntries == [status_ok : BOOLEAN, type : STRING, start : Nat, count : Nat]
GptEntries == [used : BOOLEAN, first : Nat, last : Nat]
DiskShape(disk) ==
    /\ disk.blocks \in Nat
    /\ \A b \in 0 .. disk.blocks - 1 :
          LET sector == disk.at[b]
          IN  /\ sector.kind \in {"mbr", "volume"} => sector.entries \in [1 .. 4 -> MbrEntries]
              /\ sector.kind = "header" => sector.crc \in Seq(GptEntries)

\* read_blocks() of one block; empty when the device fails
Sector(disk, lba) == {disk.at[b] : b \in {lba} \ disk.bad}

has_signature(sector) == sector.kind \in {"mbr", "volume"}
file_system_boot_sector(sector) == sector.kind = "volume"
extended_type(type) == type = "extended"

NoTable == [scheme |-> "none", entries |-> <<>>, truncated |-> FALSE, used_backup |-> FALSE]
Partition(number, first, count) == [number |-> number, first |-> first, count |-> count]

add(table, entry) ==
    IF Len(table.entries) = max_entries THEN [table EXCEPT !.truncated = TRUE]
    ELSE [table EXCEPT !.entries = Append(@, entry)]

\* one turn of read_logical(): `at' is the record it reads, empty at the end of
\* the chain; a failed read makes ok FALSE
LogicalStep(disk, base, length, s) ==
    LET ebr == CHOOSE b \in s.at : TRUE
        sectors == Sector(disk, ebr)
        sector == CHOOSE x \in sectors : TRUE
        e == sector.entries[1]
        next == sector.entries[2]
        good == e.type # "empty" /\ e.count # 0 /\ e.start # 0
                /\ ebr + e.start + e.count <= base + length
        ends == ~ extended_type(next.type) \/ next.start = 0 \/ next.start >= length
    IN  IF s.at = {} THEN s
        ELSE IF sectors = {} THEN [s EXCEPT !.ok = FALSE, !.at = {}]
        ELSE IF ~ has_signature(sector) THEN [s EXCEPT !.at = {}]
        ELSE [s EXCEPT
                !.table = IF good THEN add(@, Partition(s.number, ebr + e.start, e.count)) ELSE @,
                !.number = IF good THEN @ + 1 ELSE @,
                !.at = IF ends THEN {} ELSE {base + next.start}]

\* read_logical(): the chain of extended boot records from base on
read_logical(disk, base, length, table) ==
    LET after[n \in 0 .. max_logical] ==
            IF n = 0 THEN [ok |-> TRUE, at |-> {base}, number |-> 5, table |-> table]
            ELSE LogicalStep(disk, base, length, after[n - 1])
    IN  after[max_logical]

\* A bug: the entries are taken whatever the checksum of the array says.
ArrayIntact_Assumed(header, content) == TRUE

ArrayIntact(header, content) == header.crc = content

\* the blocks of the array in order
GptArray(disk, header) ==
    LET upto[n \in 0 .. header.blocks] ==
            IF n = 0 THEN <<>> ELSE upto[n - 1] \o disk.at[header.array + n - 1].gpt
    IN  upto[header.blocks]

\* an entry of the array is passed over or added to the table
GptStep(disk, e, i, table) ==
    IF ~ e.used \/ e.first > e.last \/ e.last >= disk.blocks THEN table
    ELSE add(table, Partition(i, e.first, e.last - e.first + 1))

GptTable(disk, content) ==
    LET after[n \in 0 .. Len(content)] ==
            IF n = 0 THEN [NoTable EXCEPT !.scheme = "gpt"]
            ELSE GptStep(disk, content[n], n, after[n - 1])
    IN  after[Len(content)]

\* read_gpt(): the table is filled while the array is read, and only then is its
\* checksum known.
read_gpt(disk, lba, table) ==
    LET sectors == Sector(disk, lba)
        header == CHOOSE x \in sectors : TRUE
        sound == /\ sectors # {} /\ header.kind = "header"
                 /\ header.intact /\ header.lba = lba
                 /\ header.array < disk.blocks /\ header.blocks \in 1 .. disk.blocks - header.array
        lbas == header.array .. header.array + header.blocks - 1
        readable == lbas \cap disk.bad = {}
        content == GptArray(disk, header)
    IN  IF ~ sound THEN [ok |-> FALSE, table |-> table]
        ELSE [ok |-> readable /\ ArrayIntact(header, content),
              table |-> IF readable THEN GptTable(disk, content) ELSE NoTable]

\* a primary entry, or the logical ones of an extended one; nothing after a failure
PrimaryStep(disk, e, i, s) ==
    LET logical == read_logical(disk, e.start, e.count, s.table)
    IN  IF ~ s.ok \/ e.type = "empty" THEN s
        ELSE IF extended_type(e.type)
               THEN [ok |-> logical.ok, table |-> IF logical.ok THEN logical.table ELSE NoTable]
        ELSE [s EXCEPT !.table = add(@, Partition(i, e.start, e.count))]

Primaries(disk, entries) ==
    LET after[n \in 0 .. 4] ==
            IF n = 0 THEN [ok |-> TRUE, table |-> [NoTable EXCEPT !.scheme = "mbr"]]
            ELSE PrimaryStep(disk, entries[n], n, after[n - 1])
    IN  after[4]

\* an entry of a table that is one
Plausible(disk, e) == e.start # 0 /\ e.count # 0 /\ e.start + e.count <= disk.blocks

\* read(): [ok, table]
read(disk) ==
    LET none == [ok |-> TRUE, table |-> NoTable]
        failed == [ok |-> FALSE, table |-> NoTable]
        sectors == Sector(disk, 0)
        sector == CHOOSE x \in sectors : TRUE
        Used(entries) == {i \in 1 .. 4 : entries[i].type # "empty"}
        primary == read_gpt(disk, 1, NoTable)
        backup == read_gpt(disk, disk.blocks - 1, primary.table)
    IN  IF ~ disk.block_size_ok THEN failed
        ELSE IF disk.blocks < 2 THEN none
        ELSE IF sectors = {} THEN failed
        ELSE IF ~ has_signature(sector) \/ file_system_boot_sector(sector) THEN none
        ELSE IF \E i \in 1 .. 4 : ~ sector.entries[i].status_ok THEN none
        ELSE IF \E i \in Used(sector.entries) :
                   sector.entries[i].type # "protective" /\ ~ Plausible(disk, sector.entries[i]) THEN none
        ELSE IF \E i \in 1 .. 4 : sector.entries[i].type = "protective"
               THEN IF primary.ok THEN primary
                    ELSE IF backup.ok THEN [backup EXCEPT !.table.used_backup = TRUE]
                    ELSE failed
        ELSE Primaries(disk, sector.entries)
-----------------------------------------------------------------------------
\* The registry

\* the names of virtio's slots
DiskName(slot) == <<"vda", "vdb", "vdc", "vdd">>[slot]

\* The Device object behind a registry entry.
NameOf(ref) ==
    CASE ref[1] = "other" -> ref[2]
      [] ref[1] = "disk" -> DiskName(ref[2])
      [] OTHER -> windows[ref[2]].name

\* What is registered: the windows and the registry, as publish() changes both.
Named(reg, wins, name) ==
    {i \in DOMAIN reg : name = IF reg[i][1] = "window" THEN wins[reg[i][2]].name ELSE NameOf(reg[i])}

\* register_device(): refused when the registry is full or the name is there
Registers(reg, wins, name) == Len(reg) < max_devices /\ Named(reg, wins, name) = {}

\* unregister_device(): the last entry fills the hole
Unregistered(reg, ref) ==
    IF ~ \E i \in DOMAIN reg : reg[i] = ref THEN reg
    ELSE LET i == CHOOSE i \in DOMAIN reg : reg[i] = ref
         IN  SubSeq([reg EXCEPT ![i] = reg[Len(reg)]], 1, Len(reg) - 1)

\* the disk's name and the number: no disk's name ends in a digit
partition_name(disk, number) == disk \o ToString(number)

\* an entry is put into the first unused slot, which it keeps only if its device
\* can be registered
PublishStep(slot, e, s) ==
    LET unused == {w \in Windows : ~ s.windows[w].used}
        w == CHOOSE w \in unused : \A o \in unused : w <= o
        name == partition_name(DiskName(slot), e.number)
        window == [used |-> TRUE, disk |-> slot, name |-> name,
                   number |-> e.number, first |-> e.first, count |-> e.count]
    IN  IF unused = {} \/ ~ Registers(s.registry, s.windows, name) THEN s
        ELSE [windows |-> [s.windows EXCEPT ![w] = window],
              registry |-> Append(s.registry, <<"window", w>>)]

\* publish(): the entries in order
Publish(slot, reg, entries) ==
    LET after[n \in 0 .. Len(entries)] ==
            IF n = 0 THEN [windows |-> windows, registry |-> reg]
            ELSE PublishStep(slot, entries[n], after[n - 1])
    IN  after[Len(entries)]

\* attach_block() of the next disk: it may not start, or not be registered, and
\* then leaves its slot, and so its name, to the one after it; reading its table
\* may find no memory.
attach_block(starts, memory) ==
    LET slot == Len(attached) + 1
        d == probed + 1
        table == IF memory THEN read(hardware[d]).table ELSE NoTable
        after == Publish(slot, Append(registry, <<"disk", slot>>), table.entries)
        registers == /\ slot <= max_block_devices /\ starts
                     /\ Registers(registry, windows, DiskName(slot))
    IN  /\ d \in DOMAIN hardware
        /\ probed' = d
        /\ attached' = IF registers THEN Append(attached, d) ELSE attached
        /\ registry' = IF registers THEN after.registry ELSE registry
        /\ windows' = IF registers THEN after.windows ELSE windows
        /\ UNCHANGED hardware

\* unpublish(): the slots in order
Gone(slot) == {w \in Windows : windows[w].used /\ windows[w].disk = slot}

Unpublished(gone) ==
    LET after[n \in 0 .. max_windows] ==
            IF n = 0 THEN registry
            ELSE IF n \in gone THEN Unregistered(after[n - 1], <<"window", n>>)
            ELSE after[n - 1]
    IN  after[max_windows]

unpublish(slot) ==
    /\ registry' = Unpublished(Gone(slot))
    /\ windows' = [w \in Windows |-> IF w \in Gone(slot) THEN NoWindow ELSE windows[w]]
    /\ UNCHANGED <<hardware, probed, attached>>
-----------------------------------------------------------------------------
\* read_blocks() and write_blocks() of a window: the blocks of the disk they reach,
\* none when refused
Reached(window, first, count) ==
    IF first > window.count \/ count > window.count - first THEN {}
    ELSE window.first + first .. window.first + first + count - 1

\* The registry and the slots agree (publish, unpublish): a window is registered
\* exactly while its slot is used, and only once, for no two entries answer to one
\* name.
RegistrySound ==
    /\ \A w \in Windows :
          windows[w].used <=> \E i \in DOMAIN registry : registry[i] = <<"window", w>>
    /\ \A i, j \in DOMAIN registry : NameOf(registry[i]) = NameOf(registry[j]) => i = j

\* The copies of a GPT that are what was written, by their checksums.
IntactCopies(disk) ==
    {lba \in {1, disk.blocks - 1} \ disk.bad :
        LET header == disk.at[lba]
        IN  header.kind = "header" /\ header.intact /\ header.crc = GptArray(disk, header)}

\* Every partition is a part of its disk that the table really gives it (read):
\* nothing outside it, or outside the disk, is reached through it; on a GPT disk it
\* is an entry of a copy whose checksums hold, although entries are gathered before
\* the checksum is known; a logical one lies within an extended one and comes after
\* the boot record that names it.
WindowsTrue ==
    \A w \in Windows : windows[w].used =>
        LET window == windows[w]
            disk == hardware[attached[window.disk]]
            entries == disk.at[0].entries
            last == window.first + window.count - 1
        IN  /\ \A first, count \in 0 .. disk.blocks :
                  Reached(window, first, count) \subseteq (window.first .. last) \cap (0 .. disk.blocks - 1)
            /\ IF \E i \in 1 .. 4 : entries[i].type = "protective"
                 THEN \E lba \in IntactCopies(disk) :
                         LET e == disk.at[lba].crc[window.number]
                         IN  e.used /\ e.first = window.first /\ e.last = last
                 ELSE IF window.number <= 4
                 THEN entries[window.number].start = window.first
                 ELSE \E i \in 1 .. 4 :
                         /\ extended_type(entries[i].type)
                         /\ entries[i].start < window.first
                         /\ last < entries[i].start + entries[i].count
=============================================================================
