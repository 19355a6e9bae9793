---------------------------- MODULE PageAllocator ----------------------------
(***************************************************************************)
(* kernel/memory/page_allocator.cpp: the physical page allocator, a table  *)
(* of at most MaxExtents address ranges kept in order.  initialize() works *)
(* out the managed ranges from the memory regions of the boot information; *)
(* allocate_page() and free_page() work on a copy of them.                 *)
(***************************************************************************)
EXTENDS Firmware, FiniteSets, FiniteSetsExt

CONSTANT MaxExtents   \* entries of an extent table

ASSUME AllocatorAssumption ==
    /\ PageSize \in Nat \ {0}
    /\ MaxAddress \in Nat
    /\ MaxExtents \in Nat \ {0}

VARIABLES
    memory_map,    \* the regions initialize() was given
    managed,       \* the extents the allocator looks after
    free_extents,  \* the extents it can hand out
    available,     \* free_pages()
    held           \* pages handed out and not freed since

allocator == <<memory_map, managed, free_extents, available, held>>
-----------------------------------------------------------------------------
Extent(b, e) == [begin |-> b, end |-> e]

AlignDown(a) == a - (a % PageSize)

\* align_usable(): the whole pages inside a region, never page 0
UsableExtents(r) ==
    LET up == AlignDown(r.physical_start + PageSize - 1)
        begin == IF up = 0 THEN PageSize ELSE up
        end == AlignDown(r.physical_start + r.length)
    IN  IF \/ r.length = 0
           \/ r.physical_start > MaxAddress - r.length
           \/ r.physical_start > MaxAddress - (PageSize - 1)
           \/ begin >= end
        THEN <<>> ELSE <<Extent(begin, end)>>

\* align_reserved(): every page a region touches
ReservedExtents(r) ==
    LET begin == AlignDown(r.physical_start)
        raw == r.physical_start + r.length
        end == IF raw % PageSize = 0 THEN raw
               ELSE IF raw > MaxAddress - (PageSize - 1) THEN MaxAddress
               ELSE AlignDown(raw + PageSize - 1)
    IN  IF r.length = 0 \/ r.physical_start > MaxAddress - r.length \/ begin >= end
        THEN <<>> ELSE <<Extent(begin, end)>>

\* the extents from here on that overlap or touch the added one are merged
Reaches(e, end) == e.begin <= end

\* insert_extent(): extents First .. Last - 1 are merged into the added one
First(extents, added) ==
    Min({i \in 1 .. Len(extents) + 1 : i = Len(extents) + 1 \/ extents[i].end >= added.begin})

EndUpTo(j, extents, added) ==
    Max({added.end} \cup {extents[i].end : i \in First(extents, added) .. j - 1})

AfterLast(extents, added) ==
    Min({j \in First(extents, added) .. Len(extents) + 1 :
            j = Len(extents) + 1 \/ ~ Reaches(extents[j], EndUpTo(j, extents, added))})

\* the value insert_extent() returns: FALSE when the table has no room
HasRoom(extents, added) ==
    First(extents, added) # AfterLast(extents, added) \/ Len(extents) < MaxExtents

InsertExtent(extents, added) ==
    LET first == First(extents, added)
        last == AfterLast(extents, added)
        begins == {added.begin} \cup {extents[i].begin : i \in first .. last - 1}
    IN  IF HasRoom(extents, added)
        THEN SubSeq(extents, 1, first - 1)
                \o <<Extent(Min(begins), EndUpTo(last, extents, added))>>
                \o SubSeq(extents, last, Len(extents))
        ELSE extents

\* subtract_extent() on one extent: the pieces outside the removed range
PiecesOutside(e, removed) ==
    LET below == IF e.begin < removed.begin THEN <<Extent(e.begin, Min({e.end, removed.begin}))>> ELSE <<>>
        above == IF e.end > removed.end THEN <<Extent(Max({e.begin, removed.end}), e.end)>> ELSE <<>>
    IN  IF removed.end <= e.begin \/ removed.begin >= e.end THEN <<e>> ELSE below \o above

\* subtract_extent(): at most one extent can be split, and its upper part is
\* dropped when the table is full
SubtractExtent(extents, removed) ==
    LET pieces == [i \in DOMAIN extents |-> PiecesOutside(extents[i], removed)]
        kept == [i \in DOMAIN extents |->
                    IF Len(pieces[i]) = 2 /\ Len(extents) = MaxExtents
                    THEN <<pieces[i][1]>> ELSE pieces[i]]
    IN  FlattenSeq(kept)

\* initialize(): the usable regions first, then the others taken out
ManagedExtents(map) ==
    LET Usable(ext, r) == IF r.type = "Usable" THEN FoldLeft(InsertExtent, ext, UsableExtents(r)) ELSE ext
        Reserved(ext, r) == IF r.type = "Usable" THEN ext ELSE FoldLeft(SubtractExtent, ext, ReservedExtents(r))
    IN  FoldLeft(Reserved, FoldLeft(Usable, <<>>, map), map)

Pages(extents) ==
    UNION {{a \in e.begin .. e.end - 1 : a % PageSize = 0} : e \in ToSet(extents)}

ContainsPage(extents, a) == \E i \in DOMAIN extents : a >= extents[i].begin /\ a < extents[i].end

CountPages(extents) ==
    FoldLeft(LAMBDA n, e : n + (e.end - e.begin) \div PageSize, 0, extents)
-----------------------------------------------------------------------------
\* before initialize()
NoMemoryYet ==
    /\ memory_map = <<>>
    /\ managed = <<>>
    /\ free_extents = <<>>
    /\ available = 0
    /\ held = {}

\* initialize()
Initialize(map) ==
    /\ memory_map' = map
    /\ managed' = ManagedExtents(map)
    /\ free_extents' = managed'
    /\ available' = CountPages(managed')
    /\ held' = {}

\* the table without the first page of its first extent
Shrunk(extents) ==
    LET rest == [extents EXCEPT ![1].begin = @ + PageSize]
    IN  IF rest[1].begin = rest[1].end THEN Tail(rest) ELSE rest

\* allocate_page() with a page to hand out
AllocatePage ==
    /\ free_extents # <<>>
    /\ free_extents' = Shrunk(free_extents)
    /\ available' = available - 1
    /\ held' = held \cup {free_extents[1].begin}
    /\ UNCHANGED <<memory_map, managed>>

\* a second free of the same page is not noticed
Freeable_Twice(a) == a % PageSize = 0 /\ ContainsPage(managed, a)

Freeable(a) ==
    /\ a % PageSize = 0
    /\ ContainsPage(managed, a)
    /\ ~ ContainsPage(free_extents, a)

\* free_page() of any address; one that is not out is ignored
FreePage(a) ==
    /\ Freeable(a)
    /\ free_extents' = InsertExtent(free_extents, Extent(a, a + PageSize))
    /\ available' = IF HasRoom(free_extents, Extent(a, a + PageSize)) THEN available + 1 ELSE available
    /\ held' = held \ {a}
    /\ UNCHANGED <<memory_map, managed>>

-----------------------------------------------------------------------------
Touched(r) == r.physical_start .. r.physical_start + r.length - 1

\* a region that ends past the last address is taken for a broken entry
WellFormed(r) == r.physical_start + r.length <= MaxAddress

Described ==
    {a \in PageSize .. MaxAddress : a % PageSize = 0 /\
        LET page == a .. a + PageSize - 1
            Kind(u) == UNION {Touched(memory_map[i]) :
                          i \in {j \in DOMAIN memory_map : (memory_map[j].type = "Usable") = u /\ WellFormed(memory_map[j])}}
        IN  page \subseteq Kind(TRUE) /\ page \cap Kind(FALSE) = {}}

\* The managed pages are pages the memory map calls usable and no other entry
\* touches, whatever the order and the overlaps of its entries.
ManagedIsUsable == Pages(managed) \subseteq Described

Pool ==
    INSTANCE FramePool WITH managed <- Pages(managed), pool <- Pages(free_extents),
                            count <- available

\* The allocator is a frame pool that hands out the lowest page, never one that
\* is already out, ignores wrong and repeated frees, counts its pages exactly
\* and loses a page only when its table cannot describe it.
ImplementsPool == Pool!Spec
=============================================================================
