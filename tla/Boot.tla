-------------------------------- MODULE Boot --------------------------------
(***************************************************************************)
(* From power-on to a kernel that hands out memory.  A BIOS machine, a     *)
(* device tree machine and an Apple machine start the kernel directly; on  *)
(* a UEFI machine the loader boot/uefi/main.cpp reads the kernel, loads it *)
(* and leaves boot services, while the firmware's own timer callbacks may  *)
(* change the memory map at any moment.  The kernel then initializes the   *)
(* page allocator (PageAllocator) and builds address spaces (PageTables).  *)
(***************************************************************************)
EXTENDS PageTables

CONSTANTS
    Machines,  \* the machines: what their firmware says
    Attempts,  \* how often the loader tries to leave boot services
    CallbackPages, \* bound: the pages the firmware's callbacks allocate
    MapRoom,   \* descriptors the map may grow by after it was sized
    UsesSpaces \* bound: the machines on which address spaces are explored

ASSUME BootAssumption ==
    /\ Attempts \in Nat \ {0} /\ MapRoom \in Nat
    /\ UsesSpaces \subseteq Machines

VARIABLES
    machine,   \* which of them this is
    stage,     \* how far the boot has come
    efi,       \* UEFI: the type of every page
    read_map,  \* the descriptors of the last GetMemoryMap
    fresh,     \* its key is still the current one
    capacity,  \* descriptors the loader has room for
    attempt,   \* failed attempts to leave boot services
    kernel,    \* the pages the kernel was loaded to
    handoff,   \* the pages of the boot handoff
    live       \* pages that something other than the allocator still uses

loader == <<efi, read_map, fresh, capacity, attempt, kernel, handoff>>
vars == <<machine, stage, loader, live, allocator, spaces>>

M == machine
PageOf(a) == a \div PageSize
Numbers == 0 .. PageOf(MaxAddress)
-----------------------------------------------------------------------------
Init ==
    /\ machine \in Machines
    /\ stage = IF M.kind = "uefi" THEN "read_kernel" ELSE "direct"
    /\ efi = IF M.kind = "uefi" THEN M.pages ELSE <<>>
    /\ read_map = <<>> /\ fresh = FALSE /\ capacity = 0 /\ attempt = 0
    /\ kernel = {} /\ handoff = {} /\ live = {}
    /\ arch = M.arch
    /\ NoMemoryYet
    /\ NoSpaces

\* kernel_main() with the boot information; the loader's state is gone
StartKernel(regions, used) ==
    /\ stage' = "kernel"
    /\ Initialize(regions)
    /\ live' = used
    /\ efi' = <<>> /\ read_map' = <<>> /\ fresh' = FALSE /\ capacity' = 0 /\ attempt' = 0
    /\ kernel' = {} /\ handoff' = {}
    /\ UNCHANGED <<machine, spaces>>

PagesOf(start, end) == {n \in Numbers : n * PageSize < end /\ (n + 1) * PageSize > start}

\* A kernel started by the firmware itself; one started by something else than
\* the loader finds no valid handoff and uses blank information.
DirectBoot ==
    /\ stage = "direct"
    /\ LET blob == IF M.kind = "fdt" /\ M.valid THEN PagesOf(M.blob, M.blob + M.total_size) ELSE {}
       IN  StartKernel(CASE M.kind = "bios" -> BiosInfo(M)
                         [] M.kind = "fdt" -> FdtInfo(M)
                         [] M.kind = "apple" -> AppleInfo(M)
                         [] M.kind = "foreign" -> <<>>,
                       PagesOf(M.kernel_start, M.kernel_end) \cup blob)
-----------------------------------------------------------------------------
Loading == stage \in {"read_kernel", "load_kernel", "handoff", "size_map", "get_map", "exit"}

\* fail(): the message is shown and the loader stalls for good
Fail ==
    /\ stage' = "failed"
    /\ UNCHANGED <<machine, loader, live, allocator, spaces>>

\* a callback of the firmware allocates a page or frees one
Callback(n) ==
    /\ Loading
    /\ \/ efi[n] = "Conventional" /\ \E t \in {"BootServices", "Runtime"} : efi' = [efi EXCEPT ![n] = t]
          /\ Cardinality({k \in DOMAIN efi : efi[k] \in {"BootServices", "Runtime"}}) < CallbackPages
       \/ efi[n] = "BootServices" /\ efi' = [efi EXCEPT ![n] = "Conventional"]
    /\ fresh' = FALSE
    /\ UNCHANGED <<machine, stage, read_map, capacity, attempt, kernel, handoff, live, allocator, spaces>>

\* AllocatePages for the loader's data; the firmware chooses free pages
Allocated(pages) ==
    /\ \A n \in pages : efi[n] = "Conventional"
    /\ efi' = [n \in DOMAIN efi |-> IF n \in pages THEN "Loader" ELSE efi[n]]
    /\ fresh' = FALSE

PagesFor(bytes) == (bytes + PageSize - 1) \div PageSize
Runs(n) == {a .. a + n - 1 : a \in Numbers} \cap SUBSET DOMAIN efi

\* open_volume_root() and read_kernel(): the volume, the file or the memory
\* may not be there, and the file may be empty or read in part
ReadKernel ==
    /\ stage = "read_kernel"
    /\ \/ Fail
       \/ /\ M.file.size > 0
          /\ \E pages \in Runs(PagesFor(M.file.size)) : Allocated(pages)
          /\ stage' = "load_kernel"
          /\ UNCHANGED <<machine, read_map, capacity, attempt, kernel, handoff, live, allocator, spaces>>

\* load_kernel(): the pages the segments touch, at their addresses
LoadKernel ==
    /\ stage = "load_kernel"
    /\ LET segments == elf64_segments(M.file)
           base == AlignDown(ExtentStart(segments))
           pages == {PageOf(base) + i : i \in 0 .. PagesFor(ExtentEnd(segments) - base) - 1}
           loads == segments # <<>> /\ M.file.entry # 0 /\ \A n \in pages : efi[n] = "Conventional"
       IN  \/ ~ loads /\ Fail
           \/ /\ loads
              /\ Allocated(pages)
              /\ kernel' = pages
              /\ stage' = "handoff"
              /\ UNCHANGED <<machine, read_map, capacity, attempt, handoff, live, allocator, spaces>>

\* efi_main(): the page of the handoff
AllocateHandoff ==
    /\ stage = "handoff"
    /\ \/ Fail
       \/ \E pages \in Runs(1) :
             /\ Allocated(pages)
             /\ handoff' = pages
             /\ stage' = "size_map"
             /\ UNCHANGED <<machine, read_map, capacity, attempt, kernel, live, allocator, spaces>>

\* GetMemoryMap: one descriptor for every run of pages of a type
Descriptors ==
    LET starts == SelectSeq([i \in 1 .. Cardinality(DOMAIN efi) |-> i - 1], LAMBDA n : n = 0 \/ efi[n - 1] # efi[n])
        End(i) == IF i = Len(starts) THEN Cardinality(DOMAIN efi) ELSE starts[i + 1]
    IN  [i \in DOMAIN starts |->
            [type |-> efi[starts[i]], physical_start |-> starts[i] * PageSize, page_count |-> End(i) - starts[i]]]

\* the map is sized, with room to spare, and then a page allocated for it
SizeMap ==
    /\ stage = "size_map"
    /\ \/ Fail
       \/ \E pages \in Runs(1) :
             /\ Allocated(pages)
             /\ capacity' = Len(Descriptors) + MapRoom
             /\ stage' = "get_map"
             /\ UNCHANGED <<machine, read_map, attempt, kernel, handoff, live, allocator, spaces>>

\* a retry takes the new key and keeps the descriptors it has
MapRead_Kept == IF attempt = 0 THEN Descriptors ELSE read_map

\* what the loader holds after GetMemoryMap
MapRead == Descriptors

\* exit_boot_services(): reading the map
GetMap ==
    /\ stage = "get_map"
    /\ \/ /\ Len(Descriptors) > capacity \/ Len(Descriptors) >= MaxRegions
          /\ Fail
       \/ /\ Len(Descriptors) <= capacity /\ Len(Descriptors) < MaxRegions
          /\ read_map' = MapRead
          /\ fresh' = TRUE
          /\ stage' = "exit"
          /\ UNCHANGED <<machine, efi, capacity, attempt, kernel, handoff, live, allocator, spaces>>

\* the regions of the kernel and of the handoff are added when both fit
Handed(regions) ==
    LET Bounds(pages) == [first |-> CHOOSE n \in pages : \A k \in pages : n <= k, count |-> Cardinality(pages)]
        Own(pages) == Region(Bounds(pages).first * PageSize, Bounds(pages).count * PageSize, "Reserved")
    IN  IF Len(regions) + 2 <= MaxRegions THEN regions \o <<Own(kernel), Own(handoff)>> ELSE regions

\* memory still in use when the kernel starts
InUse == {n \in DOMAIN efi : efi[n] \in {"Runtime", "MappedIo", "AcpiReclaim", "Reserved"}} \cup kernel \cup handoff

\* a refusal starts the count again
Refusals_Restart == 0

\* attempts refused, with the one that just was
Refusals == attempt + 1

\* ExitBootServices: refused when the map changed since it was read, and then
\* the map is read again; with the current key it may still fail otherwise
ExitBootServices ==
    /\ stage = "exit"
    /\ \/ fresh /\ Fail
       \/ fresh /\ StartKernel(Handed(uefi_memory_map(read_map)), InUse)
       \/ /\ ~ fresh
          /\ IF Refusals = Attempts THEN Fail
             ELSE /\ attempt' = Refusals
                  /\ stage' = "get_map"
                  /\ UNCHANGED <<machine, efi, read_map, fresh, capacity, kernel, handoff, live, allocator, spaces>>
-----------------------------------------------------------------------------
LoaderStep ==
    ReadKernel \/ LoadKernel \/ AllocateHandoff \/ SizeMap \/ GetMap \/ ExitBootServices

\* the kernel at work
Kernel ==
    /\ stage = "kernel"
    /\ \/ (machine \in UsesSpaces => held \subseteq DOMAIN tables) /\ OtherAllocation
       \/ \E a \in 0 .. MaxAddress : OtherFree(a)
       \/ machine \in UsesSpaces /\ UseSpaces
    /\ UNCHANGED <<machine, stage, loader, live>>

Next ==
    \/ DirectBoot
    \/ LoaderStep
    \/ \E n \in DOMAIN efi : Callback(n)
    \/ Kernel

\* the loader goes on while it can, whatever the callbacks do
Spec == Init /\ [][Next]_vars /\ WF_vars(LoaderStep)
-----------------------------------------------------------------------------
\* Every page the allocator hands out is usable by the map it was given
\* (ManagedIsUsable), and none is one of the kernel image, the handoff, the
\* device tree or memory the firmware still uses, however the map changed while
\* the loader ran.
LiveMemoryKept == ManagedIsUsable /\ {PageOf(a) : a \in Pages(managed)} \cap live = {}

\* The loader ends: it starts the kernel or reports an error, even if the
\* firmware changes the memory map for ever.
BootEnds == (stage = "read_kernel") ~> (stage \in {"kernel", "failed"})
=============================================================================
