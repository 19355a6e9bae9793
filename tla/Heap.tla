-------------------------------- MODULE Heap --------------------------------
(***************************************************************************)
(* kernel/memory/heap.cpp: the kernel heap, a first-fit allocator whose    *)
(* blocks tile one region, each with a header, the free ones in a list in  *)
(* address order.  Addresses count units of default_alignment (16 bytes)   *)
(* from heap_begin, so a header is one unit and the smallest block two.    *)
(*                                                                         *)
(* hdr[a] is what the memory at unit a reads as if a header were there.    *)
(* Memory that is not a block's header reads "data", headers that merging  *)
(* left behind included, except where a holder has written bytes that look *)
(* like the header of a used block.                                        *)
(***************************************************************************)
EXTENDS Integers, Sequences, FiniteSets, FiniteSetsExt

CONSTANTS
    Base,        \* the address of heap_begin, in units
    Units,       \* units of the heap
    Requests,    \* sizes asked for, in units
    Alignments   \* alignments asked for, in units (powers of two)

HeapMin == 2     \* min_block
Header == 1      \* header_bytes

ASSUME HeapAssumption ==
    /\ Base \in Nat
    /\ Units \in Nat /\ Units >= HeapMin
    /\ Requests \subseteq Nat \ {0}
    /\ Alignments \subseteq Nat \ {0}

VARIABLES
    hdr,         \* the memory, read as headers
    list,        \* the free list, as the addresses along it
    free_bytes,  \* available()
    live         \* blocks handed out and not freed: first unit |-> unit after

vars == <<hdr, list, free_bytes, live>>

Addresses == 0 .. Units - 1
Block(size, tag) == [size |-> size, tag |-> tag]
Data == Block(0, "data")
EndOf(a) == a + hdr[a].size

AlignUp(a, alignment) == ((Base + a + alignment - 1) \div alignment) * alignment - Base

\* where allocate() would put the memory it returns in a free block
PayloadIn(start, alignment) ==
    LET p == AlignUp(start + Header, alignment)
    IN  IF p - Header # start /\ p - Header - start < HeapMin
        THEN AlignUp(start + HeapMin + Header, alignment)
        ELSE p

\* the header's own unit is counted as free for the request
Fits_OverHeader(start, end, units, alignment) ==
    LET p == PayloadIn(start, alignment)
    IN  p - Header < end /\ end - (p - Header) >= units

Fits(start, end, units, alignment) ==
    LET p == PayloadIn(start, alignment)
    IN  p - Header < end /\ end - p >= units

\* a tail too small to be a block goes with the allocation
\* (limit - end is unsigned: an end past the limit would be left as it is)
TailOf(end, limit) == IF limit - end \in 0 .. HeapMin - 1 THEN limit ELSE end

\* the tag is believed wherever it is found
AllocatedBlock_TagOnly(h) == hdr[h].tag = "used"

\* whether a walk over the headers from the start comes to an address
walked[a \in Addresses] ==
    a = 0 \/ \E b \in 0 .. a - 1 : hdr[b].size >= HeapMin /\ EndOf(b) = a /\ walked[b]

Visited == {a \in Addresses : walked[a]}

AllocatedBlock(h) == h \in Visited /\ hdr[h].tag = "used"
-----------------------------------------------------------------------------
\* initialize()
Init ==
    /\ hdr = [a \in Addresses |-> IF a = 0 THEN Block(Units, "free") ELSE Data]
    /\ list = <<0>>
    /\ free_bytes = Units
    /\ live = <<>>

Allocate(units, alignment) ==
    LET fit == {k \in DOMAIN list : Fits(list[k], EndOf(list[k]), units, alignment)}
        k == Min(fit)
        start == list[k]
        end == EndOf(start)
        block == PayloadIn(start, alignment) - Header
        block_end == TailOf(block + Header + units, end)
        before == IF block > start THEN <<start>> ELSE <<>>
        after == IF block_end < end THEN <<block_end>> ELSE <<>>
    IN  /\ units <= Units /\ alignment <= Units
        /\ fit # {}
        /\ list' = SubSeq(list, 1, k - 1) \o before \o after \o SubSeq(list, k + 1, Len(list))
        /\ hdr' = [a \in Addresses |->
                      CASE a = block -> Block(block_end - block, "used")
                        [] a = start /\ block > start -> Block(block - start, "free")
                        [] a = block_end /\ block_end < end -> Block(end - block_end, "free")
                        [] a \in block + 1 .. block_end - 1 -> Data
                        [] OTHER -> hdr[a]]
        /\ free_bytes' = free_bytes - (block_end - block)
        /\ live' = [a \in DOMAIN live \cup {block} |-> IF a = block THEN block_end ELSE live[a]]

\* the block is linked in but never merged with the free block below it
MergesBelow_Never(p, h) == FALSE

\* the p-th free block, the last one before h, ends where h is
MergesBelow(p, h) == p > 0 /\ EndOf(list[p]) = h

Regained(h) == hdr[h].size

\* free() of the memory after header h; anything but an allocated block is
\* ignored.  The walk along the list stops after its p-th block.
Free(h) ==
    LET p == Max({0} \cup {i \in DOMAIN list : list[i] < h})
        below == MergesBelow(p, h)
        joins_next == p < Len(list) /\ EndOf(h) = list[p + 1]
        size == hdr[h].size + IF joins_next THEN hdr[list[p + 1]].size ELSE 0
    IN  /\ AllocatedBlock(h)
        /\ free_bytes' = free_bytes + Regained(h)
        /\ list' = SubSeq(list, 1, p) \o (IF below THEN <<>> ELSE <<h>>)
                   \o SubSeq(list, IF joins_next THEN p + 2 ELSE p + 1, Len(list))
        /\ hdr' = [a \in Addresses |->
                      CASE below /\ a = list[p] -> Block(hdr[a].size + size, "free")
                        [] a = h -> IF below THEN Data ELSE Block(size, "free")
                        [] joins_next /\ a = list[p + 1] -> Data
                        [] OTHER -> hdr[a]]
        /\ live' = [a \in DOMAIN live \ {h} |-> live[a]]

Forged == {a \in Addresses : hdr[a].tag = "used" /\ a \notin Visited}

\* a holder writes bytes that happen to look like the header of a used block;
\* one such place at a time
Scribble(a) ==
    /\ Forged = {}
    /\ \E b \in DOMAIN live : b < a /\ a < live[b]
    /\ hdr' = [hdr EXCEPT ![a] = Block(HeapMin, "used")]
    /\ UNCHANGED <<list, free_bytes, live>>

Next ==
    \/ \E units \in Requests, alignment \in Alignments : Allocate(units, alignment)
    \/ \E h \in Addresses : Free(h)
    \/ \E a \in Addresses : Scribble(a)

Spec == Init /\ [][Next]_vars
-----------------------------------------------------------------------------
\* The units of the blocks in the free list: as many as the sizes add up to, since
\* the list's order keeps blocks apart.
FreeUnits == {u \in Addresses : \E a \in Range(list) : a <= u /\ u < EndOf(a)}

\* What heap::consistent() looks for holds after every call: the free list is
\* in address order with no two blocks adjacent, the headers tile the heap
\* exactly, the free ones are those listed, and free_bytes is their sum.
Consistent ==
    /\ \A i \in DOMAIN list :
          /\ hdr[list[i]].tag = "free"
          /\ hdr[list[i]].size >= HeapMin
          /\ EndOf(list[i]) <= Units
          /\ i > 1 => list[i] > EndOf(list[i - 1])
    /\ \A a \in Visited :
          hdr[a].size >= HeapMin /\ EndOf(a) <= Units /\ hdr[a].tag \in {"used", "free"}
    /\ \E a \in Visited : EndOf(a) = Units
    /\ {a \in Visited : hdr[a].tag = "free"} = Range(list)
    /\ free_bytes = Cardinality(FreeUnits)

\* A block handed out keeps its header and its memory until it is freed: it
\* overlaps no other block handed out and no block of the free list.
LiveIntact ==
    \A b \in DOMAIN live :
        /\ hdr[b] = Block(live[b] - b, "used")
        /\ \A c \in DOMAIN live : c # b => (b .. live[b] - 1) \cap (c .. live[c] - 1) = {}
        /\ \A f \in Range(list) : (b .. live[b] - 1) \cap (f .. EndOf(f) - 1) = {}

\* The heap after every call: its own account of itself (heap::consistent) and the
\* blocks callers hold agree, through splitting, merging and writes that look like
\* headers.
HeapSound == Consistent /\ LiveIntact

\* free() takes exactly the blocks that are handed out: a pointer the heap
\* never gave out, one already freed, and one to bytes that look like a header
\* are all ignored (heap.hpp, free).
WrongFreeIgnored == \A h \in Addresses : AllocatedBlock(h) <=> h \in DOMAIN live

GapStarts == {0} \cup {live[b] : b \in DOMAIN live}
GapEnd(a) == Min({Units} \cup {b \in DOMAIN live : b >= a})

\* allocate() fails only when it must: if the memory between two blocks handed
\* out could hold the request, some block of the free list holds it.
NoFitMissed ==
    \A units \in Requests, alignment \in Alignments, a \in GapStarts :
        Fits(a, GapEnd(a), units, alignment) =>
            \E k \in DOMAIN list : Fits(list[k], EndOf(list[k]), units, alignment)
=============================================================================
