----------------------------- MODULE PageTables -----------------------------
(***************************************************************************)
(* Address spaces: the translation tables of arch/x86_64/paging.cpp and    *)
(* arch/arm64/paging.cpp, built from pages of the page allocator, the      *)
(* processor that walks them and its cache of translations.                *)
(*                                                                         *)
(* map() and destroy() take and give back one page after another, so each  *)
(* level descended and each page given back is a step of the job that      *)
(* runs.  The kernel runs one job at a time; the processor may walk the    *)
(* active tables in between.                                               *)
(***************************************************************************)
EXTENDS PageAllocator, TLC

CONSTANTS
    Spaces,      \* the address spaces
    TopLevel,    \* the level of a root table; level 0 holds the pages
    TableSize,   \* entries_per_table
    Virtual,     \* the virtual pages used, by number
    Requests     \* what map() is asked for: a physical page and its flags

ASSUME TablesAssumption ==
    /\ TopLevel \in Nat \ {0} /\ TableSize \in Nat \ {0}
    /\ Virtual \subseteq 0 .. TableSize ^ (TopLevel + 1) - 1

VARIABLES
    arch,    \* the processor: "x86_64", "x86_64 without NX" or "arm64"
    tables,  \* the contents of the pages that are tables
    root,    \* root_ of every address space
    active,  \* the address space the processor translates with
    cached,  \* the translations it remembers
    job,     \* the call that runs
    wanted   \* what the calls that succeeded asked for

spaces == <<arch, tables, root, active, cached, job, wanted>>

Idle == [op |-> "idle"]
KernelSpace == "kernel"
NoEntry == [page |-> 0, bits |-> {}]
NoRequest == [physical |-> 0, flags |-> {"nothing"}]
Cleared == [i \in 0 .. TableSize - 1 |-> NoEntry]

IsPresent(e) == e # NoEntry
IndexOf(v, level) == (v \div TableSize ^ level) % TableSize
-----------------------------------------------------------------------------
\* the entry of a page a program may not write lets it write all the same
TranslateFlagsArm_Writable(flags) ==
    {"valid"} \cup (IF "User" \in flags THEN {"el0"} ELSE {})
              \cup (IF "Execute" \in flags THEN {IF "User" \in flags THEN "pxn" ELSE "uxn"} ELSE {"pxn", "uxn"})

\* translate_flags() of each architecture
TranslateFlagsX86(flags) ==
    {"present"} \cup (IF "Write" \in flags THEN {"writable"} ELSE {})
                \cup (IF "User" \in flags THEN {"user"} ELSE {})
                \cup (IF "Execute" \notin flags /\ arch = "x86_64" THEN {"no_execute"} ELSE {})

TranslateFlagsArm(flags) ==
    {"valid"} \cup (IF "Write" \in flags THEN {} ELSE {"read_only"})
              \cup (IF "User" \in flags THEN {"el0"} ELSE {})
              \cup (IF "Execute" \in flags THEN {IF "User" \in flags THEN "pxn" ELSE "uxn"} ELSE {"pxn", "uxn"})

PageBits(flags) == IF arch = "arm64" THEN TranslateFlagsArm(flags) ELSE TranslateFlagsX86(flags)
TableBits == IF arch = "arm64" THEN {"valid"} ELSE {"present", "writable", "user"}

\* The processor's walk: the entries it passes from the root to the page, as
\* far as they are present.
Path(s, v) ==
    LET Down(p, i) ==
            IF p # <<>> /\ ~ IsPresent(Last(p)) THEN p
            ELSE LET at == IF p = <<>> THEN root[s] ELSE Last(p).page
                 IN  Append(p, tables[at][IndexOf(v, TopLevel + 1 - i)])
    IN  FoldLeft(Down, <<>>, [i \in 1 .. TopLevel + 1 |-> i])

\* what an access through the page v of s gets, under the rules of the processor
Access(s, v) ==
    LET path == Path(s, v)
        All(bit) == \A i \in DOMAIN path : bit \in path[i].bits
        leaf == Last(path).bits
        user == IF arch = "arm64" THEN "el0" \in leaf ELSE All("user")
        write == IF arch = "arm64" THEN "read_only" \notin leaf ELSE All("writable")
    IN  IF root[s] = 0 \/ ~ IsPresent(Last(path)) THEN NoEntry
        ELSE [page |-> Last(path).page,
              bits |-> (IF user THEN {"user"} ELSE {}) \cup (IF write THEN {"write"} ELSE {})
                       \cup (IF user /\ leaf \cap {"no_execute", "uxn"} = {} THEN {"user_execute"} ELSE {})]

\* the processor may remember any translation of the active tables
Remember(v) ==
    /\ active # KernelSpace
    /\ Access(active, v) # NoEntry
    /\ cached' = cached \cup {<<v, Access(active, v)>>}
    /\ UNCHANGED <<allocator, arch, tables, root, active, job, wanted>>
-----------------------------------------------------------------------------
NoSpaces ==
    /\ tables = <<>>
    /\ root = [s \in Spaces |-> 0]
    /\ active = KernelSpace
    /\ cached = {}
    /\ job = Idle
    /\ wanted = [s \in Spaces |-> [v \in Virtual |-> NoRequest]]

\* arm64 turns translation off before it works on tables
Reachable == arch = "arm64" => active = KernelSpace

\* PageTable::initialize() with a page to be had
InitializeSpace(s) ==
    /\ job = Idle /\ Reachable
    /\ root[s] = 0
    /\ AllocatePage
    /\ root' = [root EXCEPT ![s] = free_extents[1].begin]
    /\ tables' = (free_extents[1].begin :> Cleared) @@ tables
    /\ UNCHANGED <<arch, active, cached, job, wanted>>

\* map() is entered
Map(s, v, request) ==
    /\ job = Idle /\ Reachable
    /\ root[s] # 0
    /\ job' = [op |-> "map", space |-> s, virtual |-> v, request |-> request, level |-> TopLevel, at |-> root[s]]
    /\ UNCHANGED <<allocator, arch, tables, root, active, cached, wanted>>

\* descend(), and what map() does when it finds no page for a table
Descend ==
    /\ job.op = "map"
    /\ job.level > 0
    /\ LET index == IndexOf(job.virtual, job.level)
           entry == tables[job.at][index]
       IN  \/ /\ IsPresent(entry)
              /\ job' = [job EXCEPT !.level = @ - 1, !.at = entry.page]
              /\ UNCHANGED <<allocator, tables>>
           \/ /\ ~ IsPresent(entry)
              /\ AllocatePage
              /\ LET page == free_extents[1].begin
                 IN  /\ tables' = (page :> Cleared) @@ [tables EXCEPT ![job.at][index] = [page |-> page, bits |-> TableBits]]
                     /\ job' = [job EXCEPT !.level = @ - 1, !.at = page]
           \/ /\ ~ IsPresent(entry)
              /\ free_extents = <<>>
              /\ job' = Idle
              /\ UNCHANGED <<allocator, tables>>
    /\ UNCHANGED <<arch, root, active, cached, wanted>>

\* the translation in use is not dropped
Invalidated_Never(s, v) == cached

\* invlpg when the tables are the active ones, tlbi whatever they are
Invalidated(s, v) ==
    IF arch = "arm64" \/ s = active THEN {c \in cached : c[1] # v} ELSE cached

\* map() at level 0
MapPage ==
    /\ job.op = "map"
    /\ job.level = 0
    /\ LET entry == [page |-> job.request.physical, bits |-> PageBits(job.request.flags)]
       IN  tables' = [tables EXCEPT ![job.at][IndexOf(job.virtual, 0)] = entry]
    /\ cached' = Invalidated(job.space, job.virtual)
    /\ wanted' = [wanted EXCEPT ![job.space][job.virtual] = job.request]
    /\ job' = Idle
    /\ UNCHANGED <<allocator, arch, root, active>>

\* unmap() of a page that is mapped
Unmap(s, v) ==
    /\ job = Idle /\ Reachable
    /\ root[s] # 0
    /\ Access(s, v) # NoEntry
    /\ LET at == Path(s, v)[TopLevel].page
       IN  tables' = [tables EXCEPT ![at][IndexOf(v, 0)] = NoEntry]
    /\ cached' = Invalidated(s, v)
    /\ wanted' = [wanted EXCEPT ![s][v] = NoRequest]
    /\ UNCHANGED <<allocator, arch, root, active, job>>

\* a table above level 0 has entries that are tables
HasTables(level) == level > 0

RECURSIVE free_level(_, _)

\* free_level(): the pages of the tables below a table, then its own
free_level(page, level) ==
    LET present == SelectSeq([k \in 1 .. TableSize |-> tables[page][k - 1]], IsPresent)
        below == [k \in DOMAIN present |-> free_level(present[k].page, level - 1)]
    IN  (IF HasTables(level) THEN FlattenSeq(below) ELSE <<>>) \o <<page>>

\* destroy() is entered, for an address space that is not in use
Destroy(s) ==
    /\ job = Idle /\ Reachable
    /\ root[s] # 0 /\ s # active
    /\ job' = [op |-> "destroy", space |-> s, pages |-> free_level(root[s], TopLevel)]
    /\ UNCHANGED <<allocator, arch, tables, root, active, cached, wanted>>

\* one free_page() of destroy()
FreeTable ==
    /\ job.op = "destroy"
    /\ LET s == job.space
           rest == Tail(job.pages)
       IN  /\ FreePage(Head(job.pages))
           /\ tables' = [p \in DOMAIN tables \ {Head(job.pages)} |-> tables[p]]
           /\ job' = IF rest = <<>> THEN Idle ELSE [job EXCEPT !.pages = rest]
           /\ root' = IF rest = <<>> THEN [root EXCEPT ![s] = 0] ELSE root
           /\ wanted' = [wanted EXCEPT ![s] = [v \in Virtual |-> NoRequest]]
    /\ UNCHANGED <<arch, active, cached>>

\* writing cr3, and the tlbi of mmu_enable() and mmu_disable(), drop them all
Flushed == {}

\* switch_address_space(), or mmu_enable() and mmu_disable() on arm64, where a
\* program's address space is left before another is entered
Switch(s) ==
    /\ job = Idle
    /\ s # active
    /\ arch = "arm64" => KernelSpace \in {s, active}
    /\ s \in Spaces => root[s] # 0
    /\ active' = s
    /\ cached' = Flushed
    /\ UNCHANGED <<allocator, arch, tables, root, job, wanted>>

\* another part of the kernel takes a page or gives one back, a wrong one too
OtherAllocation ==
    /\ job = Idle
    /\ AllocatePage
    /\ UNCHANGED spaces

OtherFree(a) ==
    /\ job = Idle
    /\ a \notin DOMAIN tables
    /\ FreePage(a)
    /\ UNCHANGED spaces

UseSpaces ==
    \/ \E s \in Spaces : InitializeSpace(s) \/ Destroy(s)
    \/ \E s \in Spaces, v \in Virtual : Unmap(s, v) \/ \E r \in Requests : Map(s, v, r)
    \/ Descend \/ MapPage \/ FreeTable
    \/ \E s \in Spaces \cup {KernelSpace} : Switch(s)
    \/ \E v \in Virtual : Remember(v)
-----------------------------------------------------------------------------
RECURSIVE TablesBelow(_, _)

\* every table at or below one, as often as it is reached
TablesBelow(page, level) ==
    LET entries == {e \in {<<k, tables[page][k]>> : k \in 0 .. TableSize - 1} : IsPresent(e[2])}
    IN  <<page>> \o (IF level = 0 THEN <<>>
                     ELSE FlattenSeq([i \in 1 .. Cardinality(entries) |->
                              TablesBelow(SetToSeq(entries)[i][2].page, level - 1)]))

\* Every page used as a table belongs to one place in one address space, is
\* taken from the allocator, and has no other use; after destroy() no page of
\* the tables is left behind.
TablesOwned ==
    job.op # "destroy" =>
        LET all == FlattenSeq([i \in 1 .. Cardinality(Spaces) |->
                       LET s == SetToSeq(Spaces)[i]
                       IN  IF root[s] = 0 THEN <<>> ELSE TablesBelow(root[s], TopLevel)])
        IN  /\ IsInjective(all)
            /\ ToSet(all) = DOMAIN tables
            /\ ToSet(all) \subseteq held

\* Under the processor's rules a virtual page reaches the physical page the
\* last map() of it asked for, with the rights asked for: programs reach only
\* User pages, nobody writes without Write, programs run only Execute pages
\* (except where the processor has no such right), and a page never mapped or
\* unmapped is not there.
MapsWhatWasAsked ==
    \A s \in Spaces, v \in Virtual :
        (root[s] # 0 /\ ~ (job.op = "destroy" /\ job.space = s)) =>
            LET asked == wanted[s][v]
                got == Access(s, v)
            IN  IF asked = NoRequest THEN got = NoEntry
                ELSE /\ got # NoEntry
                     /\ got.page = asked.physical
                     /\ "user" \in got.bits <=> "User" \in asked.flags
                     /\ "write" \in got.bits <=> "Write" \in asked.flags
                     /\ "user_execute" \in got.bits <=>
                           /\ "User" \in asked.flags
                           /\ "Execute" \in asked.flags \/ arch = "x86_64 without NX"

\* The address spaces are what was asked for and own what they are made of, also
\* after a map() that ran out of pages half way (map, unmap, destroy).
SpacesTrue == TablesOwned /\ MapsWhatWasAsked

\* The processor never uses a translation that the active tables do not give,
\* whatever was mapped, unmapped, switched or destroyed since it walked them.
CachedIsCurrent ==
    \A c \in cached : active # KernelSpace /\ Access(active, c[1]) = c[2]
=============================================================================
