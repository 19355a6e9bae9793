------------------------------ MODULE Firmware ------------------------------
(***************************************************************************)
(* What the firmware of a machine tells the kernel about its memory, and   *)
(* how each platform turns it into memory regions: the E820 table of a     *)
(* BIOS, a flattened device tree, Apple's boot arguments and the UEFI      *)
(* memory map (platform/firmware/*.cpp and the boot_protocol.cpp of each   *)
(* platform), and the kernel file the UEFI loader reads (elf64.cpp).       *)
(***************************************************************************)
EXTENDS Integers, Sequences, SequencesExt

CONSTANTS
    PageSize,    \* bytes in a page, of the kernel and of UEFI
    MaxAddress,  \* the largest 64-bit value
    CellBase,    \* the values a cell of a device tree can hold
    MaxRegions,  \* regions the table of a platform has room for
    MaxSegments, \* segments of the kernel the loader has room for
    Fallback     \* the region assumed when a device tree names no memory

Region(start, length, type) == [physical_start |-> start, length |-> length, type |-> type]

\* append(): a region that is empty or does not fit is left out
Appended(regions, start, length, type) ==
    IF length = 0 \/ Len(regions) >= MaxRegions THEN regions ELSE Append(regions, Region(start, length, type))

FirstOf(s, n) == SubSeq(s, 1, IF Len(s) < n THEN Len(s) ELSE n)
-----------------------------------------------------------------------------
\* E820 of a BIOS
classify(e820_type) ==
    CASE e820_type = 1 -> "Usable" [] e820_type = 3 -> "Reclaimable"
      [] e820_type = 4 -> "Firmware" [] OTHER -> "Reserved"

convert(entries) ==
    LET kept == SelectSeq(entries, LAMBDA e : e.length # 0 /\ e.valid)
    IN  FirstOf([i \in DOMAIN kept |-> Region(kept[i].base, kept[i].length, classify(kept[i].type))], MaxRegions)

\* shirley_platform_boot_info() of qemu_x86_64
BiosInfo(m) == Appended(convert(m.entries), 0, m.kernel_end, "Reserved")
-----------------------------------------------------------------------------
\* A device tree.  Its structure is a sequence of tokens; the value of a
\* property is a sequence of cells, except for a name the walk does not know.
NoMemory == [regions |-> <<>>, address |-> 2, size |-> 2, depth |-> 0, memory |-> FALSE, stop |-> FALSE]

\* read_cells()
read_cells(cells, from, n) ==
    CASE n = 1 -> cells[from] [] n = 2 -> cells[from] * CellBase + cells[from + 1] [] OTHER -> 0

\* the banks of a reg property; an empty one ends them
Banks(w, cells) ==
    LET stride == w.address + w.size
        count == IF stride = 0 \/ w.address > 2 \/ w.size > 2 THEN 0 ELSE Len(cells) \div stride
        Bank(s, i) ==
            LET more == Appended(s.regions, read_cells(cells, (i - 1) * stride + 1, w.address),
                                 read_cells(cells, (i - 1) * stride + w.address + 1, w.size), "Usable")
            IN  IF s.stop \/ more = s.regions THEN [s EXCEPT !.stop = TRUE] ELSE [s EXCEPT !.regions = more]
    IN  FoldLeft(Bank, [regions |-> w.regions, stop |-> FALSE], [i \in 1 .. count |-> i]).regions

\* a property of the node the walk is in
Property(w, token) ==
    CASE w.depth = 1 /\ Len(token.cells) = 1 /\ token.name = "#address-cells" -> [w EXCEPT !.address = token.cells[1]]
      [] w.depth = 1 /\ Len(token.cells) = 1 /\ token.name = "#size-cells" -> [w EXCEPT !.size = token.cells[1]]
      [] ~ (w.depth = 1 /\ Len(token.cells) = 1) /\ w.memory /\ token.name = "reg" ->
            [w EXCEPT !.regions = Banks(w, token.cells)]
      [] OTHER -> w

\* one round of the walk of fdt_memory_map(); depth 2 is below the root
Token(w, token) ==
    IF w.stop \/ token.kind \in {"end", "unknown"} \/ (token.kind = "end_node" /\ w.depth = 0)
      THEN [w EXCEPT !.stop = TRUE]
    ELSE CASE token.kind = "nop" -> w
      [] token.kind = "begin_node" ->
            [w EXCEPT !.depth = @ + 1, !.memory = @ \/ (w.depth = 1 /\ token.name = "memory")]
      [] token.kind = "end_node" -> [w EXCEPT !.depth = @ - 1, !.memory = @ /\ w.depth # 2]
      [] OTHER -> Property(w, token)

\* read_reservations(): pairs up to one of two zeros
Reservations(regions, pairs) ==
    LET ends == {i \in DOMAIN pairs : pairs[i] = <<0, 0>>}
        upto == IF ends = {} THEN Len(pairs) ELSE (CHOOSE i \in ends : \A j \in ends : i <= j) - 1
    IN  FoldLeft(LAMBDA r, p : Appended(r, p[1], p[2], "Reserved"), regions, SubSeq(pairs, 1, upto))

fdt_memory_map(m) ==
    Reservations(FoldLeft(Token, NoMemory, m.tokens).regions, m.reservations)

\* shirley_platform_boot_info() of qemu_arm64
FdtInfo(m) ==
    LET told == IF m.valid THEN fdt_memory_map(m) ELSE <<>>
        ram == IF told = <<>> THEN <<Fallback>> ELSE told
        kernel == Appended(ram, m.kernel_start, m.kernel_end - m.kernel_start, "Reserved")
    IN  IF m.valid THEN Appended(kernel, m.blob, m.total_size, "Firmware") ELSE kernel
-----------------------------------------------------------------------------
\* Apple's boot arguments
apple_boot_args_valid(m) ==
    /\ m.revision_known
    /\ m.physical_base # 0 /\ m.memory_size # 0
    /\ m.top_of_kernel_data >= m.physical_base
    /\ m.top_of_kernel_data - m.physical_base <= m.memory_size

\* the screen's size wraps like the 64-bit product
apple_boot_args_memory_map(m) ==
    LET size == IF m.memory_size_actual # 0 THEN m.memory_size_actual ELSE m.memory_size
        ram == Appended(<<>>, m.physical_base, size, "Usable")
        kernel == Appended(ram, m.physical_base, m.top_of_kernel_data - m.physical_base, "Reserved")
        screen == IF m.video_base # 0
                  THEN Appended(kernel, m.video_base, (m.stride * m.height) % (MaxAddress + 1), "Reserved")
                  ELSE kernel
    IN  IF m.device_tree # 0 THEN Appended(screen, m.device_tree, m.device_tree_size, "Firmware") ELSE screen

\* shirley_platform_boot_info() of apple_silicon
AppleInfo(m) ==
    Appended(IF apple_boot_args_valid(m) THEN apple_boot_args_memory_map(m) ELSE <<>>,
             m.kernel_start, m.kernel_end - m.kernel_start, "Reserved")
-----------------------------------------------------------------------------
\* UEFI: code and data of a kind are one type here
uefi_classify(efi_type) ==
    CASE efi_type \in {"Conventional", "BootServices"} -> "Usable"
      [] efi_type = "AcpiReclaim" -> "Reclaimable"
      [] efi_type = "Runtime" -> "Firmware"
      [] efi_type = "MappedIo" -> "Mmio"
      [] OTHER -> "Reserved"

\* uefi_memory_map(): a descriptor whose end is not an address is left out
uefi_memory_map(descriptors) ==
    LET kept == SelectSeq(descriptors, LAMBDA d :
                    /\ d.page_count # 0
                    /\ d.page_count <= MaxAddress \div PageSize
                    /\ d.physical_start <= MaxAddress - d.page_count * PageSize)
    IN  FirstOf([i \in DOMAIN kept |->
                    Region(kept[i].physical_start, kept[i].page_count * PageSize, uefi_classify(kept[i].type))],
                MaxRegions)
-----------------------------------------------------------------------------
\* range_ok()
range_ok(offset, length, size) == offset <= size /\ length <= size - offset

elf64_valid(file) ==
    /\ file.header_ok
    /\ \A i \in DOMAIN file.programs :
          LET p == file.programs[i]
          IN  p.load => range_ok(p.offset, p.file_size, file.size) /\ p.memory_size >= p.file_size

elf64_segments(file) ==
    IF elf64_valid(file)
    THEN FirstOf(SelectSeq(file.programs, LAMBDA p : p.load /\ p.memory_size # 0), MaxSegments)
    ELSE <<>>

\* elf64_physical_extent(): the lowest address and the end of the segments
ExtentStart(segments) ==
    FoldLeft(LAMBDA low, s : IF s.physical_address < low THEN s.physical_address ELSE low,
             segments[1].physical_address, segments)

ExtentEnd(segments) ==
    LET End(s) == (s.physical_address + s.memory_size) % (MaxAddress + 1)
    IN  FoldLeft(LAMBDA high, s : IF End(s) > high THEN End(s) ELSE high, End(segments[1]), segments)
=============================================================================
