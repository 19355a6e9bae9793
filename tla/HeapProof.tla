------------------------------ MODULE HeapProof ------------------------------
(***************************************************************************)
(* What heap.cpp promises, for a heap of any size at any address and for   *)
(* requests of any size and alignment: the heap's account of itself and    *)
(* the blocks handed out agree, a wrong free() is ignored, and allocate()  *)
(* misses no fit.                                                          *)
(***************************************************************************)
EXTENDS Heap, FiniteSetTheorems, SequenceTheorems, WellFoundedInduction, TLAPS

-----------------------------------------------------------------------------
(* The inductive invariant. *)

\* The blocks there are: handed out or on the free list.
Blocks == DOMAIN live \cup Range(list)

Typed ==
    /\ hdr \in [Addresses -> [size : Nat, tag : {"data", "used", "free"}]]
    /\ list \in Seq(Addresses)
    /\ DOMAIN live \subseteq Addresses
    /\ live = [b \in DOMAIN live |-> live[b]]
    /\ \A b \in DOMAIN live : live[b] \in Nat

\* Each block's header says what the block is.
Headers ==
    /\ \A b \in DOMAIN live : hdr[b] = Block(live[b] - b, "used")
    /\ \A a \in Range(list) : hdr[a].tag = "free"

\* The blocks follow one another from the heap's first unit to its last.
Tiles ==
    /\ 0 \in Blocks
    /\ \A a \in Blocks : hdr[a].size >= HeapMin /\ EndOf(a) \in Blocks \cup {Units}
    /\ \A a \in Blocks : a # 0 => \E b \in Blocks : EndOf(b) = a
    /\ \E a \in Blocks : EndOf(a) = Units
    /\ \A a, b \in Blocks : a < b => EndOf(a) <= b

\* The list is in address order, and between two of its blocks there is another.
Ordered == \A i, j \in DOMAIN list : i < j => EndOf(list[i]) < list[j]

\* What the allocator counts as free is free.
Counted == free_bytes = Cardinality(FreeUnits)

\* The inductive invariant.
IInv == Typed /\ Headers /\ Tiles /\ Ordered /\ Counted

-----------------------------------------------------------------------------
(* The walk over the headers. *)

\* Every set of addresses has a least one.
LEMMA LeastAddress ==
    ASSUME NEW T \in SUBSET Nat, T # {}
    PROVE  \E x \in T : \A y \in T : x <= y
  <1> DEFINE R == OpToRel(<, Nat)
  <1>1. IsWellFoundedOn(R, Nat)
    BY Zenon, NatLessThanWellFounded
  <1>2. \A x, y \in Nat : y < x => <<y, x>> \in R
    BY DEF OpToRel
  <1> HIDE DEF R
  <1>3. PICK x \in T : \A y \in T : ~ (<<y, x>> \in R)
    BY Zenon, <1>1, WFMin
  <1>4. \A y \in T : ~ (y < x)
    BY Zenon, <1>2, <1>3
  <1>5. \A y \in T : x <= y
    BY <1>4
  <1> QED
    BY <1>5

\* Where the walk comes to, given where it has come to below.
Walk(f) ==
    [a \in Addresses |->
        a = 0 \/ \E b \in 0 .. a - 1 : hdr[b].size >= HeapMin /\ EndOf(b) = a /\ f[b]]

\* The blocks are a solution of the walk's definition.
LEMMA BlocksWalk ==
    ASSUME Typed, Tiles
    PROVE  [a \in Addresses |-> a \in Blocks] = Walk([a \in Addresses |-> a \in Blocks])
  <1> DEFINE g == [a \in Addresses |-> a \in Blocks]
             w(a) == a = 0 \/ \E b \in 0 .. a - 1 : hdr[b].size >= HeapMin /\ EndOf(b) = a /\ g[b]
  <1>1. Blocks \subseteq Addresses /\ Addresses \subseteq Nat
    BY HeapAssumption DEF Typed, Blocks, Addresses, Range
  <1>2. ASSUME NEW a \in Addresses
        PROVE  a \in Blocks <=> w(a)
    <2>1. \A b \in Addresses : hdr[b].size \in Nat /\ EndOf(b) = b + hdr[b].size
      BY DEF Typed, EndOf
    <2>2. ASSUME a \in Blocks, a # 0
          PROVE  w(a)
      <3>1. PICK b \in Blocks : EndOf(b) = a
        BY <2>2 DEF Tiles
      <3>2. hdr[b].size >= HeapMin
        BY DEF Tiles
      <3>3. b \in 0 .. a - 1
        BY <1>1, <2>1, <3>1, <3>2 DEF HeapMin
      <3>4. b \in Addresses /\ g[b]
        BY Zenon, <1>1
      <3> QED
        BY <3>1, <3>2, <3>3, <3>4
    <2>3. ASSUME w(a), a # 0
          PROVE  a \in Blocks
      <3>1. PICK b \in 0 .. a - 1 : EndOf(b) = a /\ g[b]
        BY <2>3
      <3>2. b \in Addresses
        BY HeapAssumption DEF Addresses
      <3>3. b \in Blocks
        BY Zenon, <3>1, <3>2
      <3>4. a # Units
        BY HeapAssumption DEF Addresses
      <3> QED
        BY <3>1, <3>3, <3>4 DEF Tiles
    <2>4. 0 \in Blocks
      BY DEF Tiles
    <2> QED
      BY <2>2, <2>3, <2>4
  <1> HIDE DEF g
  <1>3. \A a \in Addresses : (a \in Blocks) = w(a)
    BY <1>2
  <1>4. [a \in Addresses |-> a \in Blocks] = [a \in Addresses |-> w(a)]
    BY <1>3
  <1> QED
    BY Zenon, <1>4 DEF Walk, g

\* The walk visits the blocks and nothing else, whatever other memory reads as:
\* its definition has one solution.
LEMMA VisitedIsBlocks ==
    ASSUME Typed, Tiles
    PROVE  Visited = Blocks
  <1> DEFINE g == [a \in Addresses |-> a \in Blocks]
  <1>1. g = Walk(g)
    BY BlocksWalk
  <1>2. walked = Walk(walked)
    <2> HIDE DEF g
    <2>1. \E f : f = Walk(f)
      BY Zenon, <1>1
    <2> QED
      BY Zenon, <2>1 DEF walked, Walk
  <1>3. Blocks \subseteq Addresses /\ Addresses \subseteq Nat
    BY HeapAssumption DEF Typed, Blocks, Addresses, Range
  <1> DEFINE T == {a \in Addresses : ~ (walked[a] <=> a \in Blocks)}
  <1>4. T = {}
    <2> SUFFICES ASSUME T # {} PROVE FALSE
      OBVIOUS
    <2> HIDE DEF g
    <2>1. T \in SUBSET Nat
      BY Zenon, <1>3
    <2>2. PICK a \in T : \A y \in T : a <= y
      BY Zenon, <2>1, LeastAddress
    <2>3. a \in Addresses
      OBVIOUS
    <2>4. \A b \in 0 .. a - 1 : b \in Addresses /\ b \notin T
      BY <2>2, <2>3, HeapAssumption DEF Addresses
    <2>5. \A b \in 0 .. a - 1 : walked[b] <=> b \in Blocks
      BY Zenon, <2>4
    <2>6. \A b \in 0 .. a - 1 : g[b] <=> b \in Blocks
      BY Zenon, <2>4 DEF g
    <2>7. walked[a] <=> (a = 0 \/ \E b \in 0 .. a - 1 : hdr[b].size >= HeapMin /\ EndOf(b) = a /\ walked[b])
      BY Zenon, <1>2, <2>3 DEF Walk
    <2>8. g[a] <=> (a = 0 \/ \E b \in 0 .. a - 1 : hdr[b].size >= HeapMin /\ EndOf(b) = a /\ g[b])
      BY Zenon, <1>1, <2>3 DEF Walk
    <2>9. g[a] <=> a \in Blocks
      BY Zenon, <2>3 DEF g
    <2> QED
      BY Zenon, <2>5, <2>6, <2>7, <2>8, <2>9
  <1> QED
    BY Zenon, <1>3, <1>4 DEF Visited

-----------------------------------------------------------------------------
(* Sequences: the free list with a stretch of it replaced. *)

\* A sequence whose elements p + 1 .. q are replaced by those of mid.
Splice(s, p, mid, q) == SubSeq(s, 1, p) \o mid \o SubSeq(s, q + 1, Len(s))

IsSplice(t, s, p, mid, q) ==
    /\ Len(t) = p + Len(mid) + (Len(s) - q)
    /\ \A i \in 1 .. p : t[i] = s[i]
    /\ \A i \in 1 .. Len(mid) : t[p + i] = mid[i]
    /\ \A i \in q + 1 .. Len(s) : t[p + Len(mid) + (i - q)] = s[i]

\* A list with a stretch of it replaced, element by element.
LEMMA Spliced ==
    ASSUME NEW S, NEW s \in Seq(S), NEW mid \in Seq(S),
           NEW p \in 0 .. Len(s), NEW q \in p .. Len(s)
    PROVE  /\ Splice(s, p, mid, q) \in Seq(S)
           /\ IsSplice(Splice(s, p, mid, q), s, p, mid, q)
  <1> DEFINE a == SubSeq(s, 1, p)
             b == a \o mid
             c == SubSeq(s, q + 1, Len(s))
             t == b \o c
  <1>1. Len(s) \in Nat /\ Len(mid) \in Nat
    OBVIOUS
  <1>2. a \in Seq(S) /\ Len(a) = p /\ \A i \in 1 .. p : a[i] = s[i]
    BY <1>1
  <1>3. c \in Seq(S) /\ Len(c) = Len(s) - q /\ \A i \in 1 .. Len(s) - q : c[i] = s[q + i]
    BY <1>1
  <1>4. t = Splice(s, p, mid, q)
    BY DEF Splice
  <1> HIDE DEF a, c
  <1>5. /\ b \in Seq(S) /\ Len(b) = p + Len(mid)
        /\ \A i \in 1 .. p : b[i] = s[i]
        /\ \A i \in 1 .. Len(mid) : b[p + i] = mid[i]
    BY SMTT(30), <1>1, <1>2
  <1> HIDE DEF b
  <1>6. /\ t \in Seq(S) /\ Len(t) = Len(b) + Len(c)
        /\ \A i \in 1 .. Len(b) : t[i] = b[i]
        /\ \A i \in 1 .. Len(c) : t[Len(b) + i] = c[i]
    <2>0. b \in Seq(S) /\ c \in Seq(S)
      BY <1>3, <1>5
    <2>1. Len(b) \in Nat /\ Len(c) \in Nat
      BY <1>1, <1>3, <1>5
    <2>2. /\ t \in Seq(S) /\ Len(t) = Len(b) + Len(c)
          /\ \A i \in 1 .. Len(b) + Len(c) : t[i] = IF i <= Len(b) THEN b[i] ELSE c[i - Len(b)]
      BY ZenonT(30), <2>0, ConcatProperties
    <2> HIDE DEF t
    <2>3. ASSUME NEW i \in 1 .. Len(c)
          PROVE  t[Len(b) + i] = c[i]
      <3>1. Len(b) + i \in 1 .. Len(b) + Len(c) /\ ~ (Len(b) + i <= Len(b)) /\ Len(b) + i - Len(b) = i
        BY <2>1
      <3> QED
        BY <2>2, <3>1
    <2> QED
      BY <2>1, <2>2, <2>3
  <1> HIDE DEF t
  <1>7. Len(t) = p + Len(mid) + (Len(s) - q) /\ \A i \in 1 .. p : t[i] = s[i]
    BY <1>1, <1>3, <1>5, <1>6
  <1>8. ASSUME NEW i \in 1 .. Len(mid)
        PROVE  t[p + i] = mid[i]
    BY <1>1, <1>5, <1>6
  <1>9. ASSUME NEW i \in q + 1 .. Len(s)
        PROVE  t[p + Len(mid) + (i - q)] = s[i]
    <2>1. i - q \in 1 .. Len(c) /\ q + (i - q) = i
      BY <1>1, <1>3
    <2> QED
      BY ZenonT(40), <1>3, <1>5, <1>6, <2>1
  <1> QED
    BY Zenon, <1>4, <1>6, <1>7, <1>8, <1>9 DEF IsSplice

\* Where each position of the spliced sequence comes from.
LEMMA SplicedFrom ==
    ASSUME NEW S, NEW s \in Seq(S), NEW mid \in Seq(S),
           NEW p \in 0 .. Len(s), NEW q \in p .. Len(s),
           NEW t \in Seq(S), IsSplice(t, s, p, mid, q),
           NEW i \in 1 .. Len(t)
    PROVE  \/ i \in 1 .. p /\ t[i] = s[i]
           \/ \E j \in 1 .. Len(mid) : i = p + j /\ t[i] = mid[j]
           \/ \E j \in q + 1 .. Len(s) : i = p + Len(mid) + (j - q) /\ t[i] = s[j]
  <1>1. /\ Len(t) = p + Len(mid) + (Len(s) - q)
        /\ \A n \in 1 .. p : t[n] = s[n]
        /\ \A n \in 1 .. Len(mid) : t[p + n] = mid[n]
        /\ \A n \in q + 1 .. Len(s) : t[p + Len(mid) + (n - q)] = s[n]
    BY Zenon DEF IsSplice
  <1>2. Len(s) \in Nat /\ Len(mid) \in Nat
    OBVIOUS
  <1>3. CASE i <= p
    BY <1>1, <1>2, <1>3
  <1>4. CASE i > p /\ i <= p + Len(mid)
    <2>1. i - p \in 1 .. Len(mid) /\ i = p + (i - p)
      BY <1>2, <1>4
    <2> QED
      BY <1>1, <2>1
  <1>5. CASE i > p + Len(mid)
    <2> DEFINE j == i - p - Len(mid) + q
    <2>1. j \in q + 1 .. Len(s) /\ i = p + Len(mid) + (j - q)
      BY <1>1, <1>2, <1>5
    <2> HIDE DEF j
    <2> QED
      BY <1>1, <2>1
  <1> QED
    BY <1>2, <1>3, <1>4, <1>5

\* Its elements.
Kept(s, p, mid, q) == {s[i] : i \in 1 .. p} \cup Range(mid) \cup {s[i] : i \in q + 1 .. Len(s)}

\* They are what was kept and what is new.
LEMMA SplicedRange ==
    ASSUME NEW S, NEW s \in Seq(S), NEW mid \in Seq(S),
           NEW p \in 0 .. Len(s), NEW q \in p .. Len(s),
           NEW t \in Seq(S), IsSplice(t, s, p, mid, q)
    PROVE  Range(t) = Kept(s, p, mid, q)
  <1>1. /\ Len(t) = p + Len(mid) + (Len(s) - q)
        /\ \A n \in 1 .. p : t[n] = s[n]
        /\ \A n \in 1 .. Len(mid) : t[p + n] = mid[n]
        /\ \A n \in q + 1 .. Len(s) : t[p + Len(mid) + (n - q)] = s[n]
    BY Zenon DEF IsSplice
  <1>2. Len(s) \in Nat /\ Len(mid) \in Nat
    OBVIOUS
  <1>3. DOMAIN t = 1 .. Len(t) /\ DOMAIN mid = 1 .. Len(mid)
    BY <1>1
  <1>4. ASSUME NEW i \in 1 .. Len(t)
        PROVE  t[i] \in {s[n] : n \in 1 .. p} \cup Range(mid) \cup {s[n] : n \in q + 1 .. Len(s)}
    <2>1. \/ i \in 1 .. p /\ t[i] = s[i]
          \/ \E j \in 1 .. Len(mid) : i = p + j /\ t[i] = mid[j]
          \/ \E j \in q + 1 .. Len(s) : i = p + Len(mid) + (j - q) /\ t[i] = s[j]
      BY SplicedFrom
    <2> QED
      BY Zenon, <1>3, <2>1 DEF Range
  <1>5. ASSUME NEW i \in 1 .. p
        PROVE  s[i] \in Range(t)
    <2>1. i \in DOMAIN t /\ t[i] = s[i]
      BY <1>1, <1>2, <1>3
    <2> QED
      BY Zenon, <2>1 DEF Range
  <1>6. ASSUME NEW i \in 1 .. Len(mid)
        PROVE  mid[i] \in Range(t)
    <2>1. p + i \in DOMAIN t /\ t[p + i] = mid[i]
      BY <1>1, <1>2, <1>3
    <2> QED
      BY Zenon, <2>1 DEF Range
  <1>7. ASSUME NEW i \in q + 1 .. Len(s)
        PROVE  s[i] \in Range(t)
    <2>1. p + Len(mid) + (i - q) \in DOMAIN t /\ t[p + Len(mid) + (i - q)] = s[i]
      BY <1>1, <1>2, <1>3
    <2> QED
      BY Zenon, <2>1 DEF Range
  <1>8. Range(t) = {s[i] : i \in 1 .. p} \cup Range(mid) \cup {s[i] : i \in q + 1 .. Len(s)}
    BY ZenonT(40), <1>3, <1>4, <1>5, <1>6, <1>7 DEF Range
  <1> QED
    BY Zenon, <1>8 DEF Kept

\* In the memory m the blocks of the list s are in order and none touches the next.
InOrder(m, s) == \A i, j \in 1 .. Len(s) : i < j => s[i] + m[s[i]].size < s[j]

\* The order after a stretch of the list was replaced: what is left must be in
\* order, what is new too, and lie in between.
LEMMA SplicedOrdered ==
    ASSUME NEW s \in Seq(Addresses), NEW mid \in Seq(Addresses),
           NEW p \in 0 .. Len(s), NEW q \in p .. Len(s),
           NEW t \in Seq(Addresses), IsSplice(t, s, p, mid, q), NEW m,
           \A i, j \in (1 .. p) \cup (q + 1 .. Len(s)) : i < j => s[i] + m[s[i]].size < s[j],
           InOrder(m, mid),
           \A i \in 1 .. p, j \in 1 .. Len(mid) : s[i] + m[s[i]].size < mid[j],
           \A i \in 1 .. Len(mid), j \in q + 1 .. Len(s) : mid[i] + m[mid[i]].size < s[j]
    PROVE  InOrder(m, t)
  <1> DEFINE From(i) == \/ i \in 1 .. p /\ t[i] = s[i]
                        \/ \E j \in 1 .. Len(mid) : i = p + j /\ t[i] = mid[j]
                        \/ \E j \in q + 1 .. Len(s) : i = p + Len(mid) + (j - q) /\ t[i] = s[j]
  <1>1. ASSUME NEW i \in 1 .. Len(t)
        PROVE  From(i)
    BY SplicedFrom
  <1>2. Len(s) \in Nat /\ Len(mid) \in Nat /\ Len(t) \in Nat
    OBVIOUS
  <1>3. SUFFICES ASSUME NEW i \in 1 .. Len(t), NEW j \in 1 .. Len(t), i < j
                 PROVE  t[i] + m[t[i]].size < t[j]
    BY DEF InOrder
  <1>4. From(i) /\ From(j)
    BY Zenon, <1>1
  <1>5. CASE i \in 1 .. p /\ t[i] = s[i]
    <2>1. CASE j \in 1 .. p /\ t[j] = s[j]
      BY <1>2, <1>3, <1>5, <2>1
    <2>2. ASSUME NEW k \in 1 .. Len(mid), j = p + k /\ t[j] = mid[k]
          PROVE  t[i] + m[t[i]].size < t[j]
      BY <1>5, <2>2
    <2>3. ASSUME NEW k \in q + 1 .. Len(s), j = p + Len(mid) + (k - q) /\ t[j] = s[k]
          PROVE  t[i] + m[t[i]].size < t[j]
      BY <1>2, <1>5, <2>3
    <2> QED
      BY Zenon, <1>4, <2>1, <2>2, <2>3
  <1>6. ASSUME NEW n \in 1 .. Len(mid), i = p + n /\ t[i] = mid[n]
        PROVE  t[i] + m[t[i]].size < t[j]
    <2>1. CASE j \in 1 .. p /\ t[j] = s[j]
      BY <1>2, <1>3, <1>6, <2>1
    <2>2. ASSUME NEW k \in 1 .. Len(mid), j = p + k /\ t[j] = mid[k]
          PROVE  t[i] + m[t[i]].size < t[j]
      BY <1>2, <1>3, <1>6, <2>2 DEF InOrder
    <2>3. ASSUME NEW k \in q + 1 .. Len(s), j = p + Len(mid) + (k - q) /\ t[j] = s[k]
          PROVE  t[i] + m[t[i]].size < t[j]
      BY Zenon, <1>6, <2>3
    <2> QED
      BY Zenon, <1>4, <2>1, <2>2, <2>3
  <1>7. ASSUME NEW n \in q + 1 .. Len(s), i = p + Len(mid) + (n - q) /\ t[i] = s[n]
        PROVE  t[i] + m[t[i]].size < t[j]
    <2>1. CASE j \in 1 .. p /\ t[j] = s[j]
      BY <1>2, <1>3, <1>7, <2>1
    <2>2. ASSUME NEW k \in 1 .. Len(mid), j = p + k /\ t[j] = mid[k]
          PROVE  t[i] + m[t[i]].size < t[j]
      BY <1>2, <1>3, <1>7, <2>2
    <2>3. ASSUME NEW k \in q + 1 .. Len(s), j = p + Len(mid) + (k - q) /\ t[j] = s[k]
          PROVE  t[i] + m[t[i]].size < t[j]
      BY SMTT(30), <1>2, <1>3, <1>7, <2>3
    <2> QED
      BY Zenon, <1>4, <2>1, <2>2, <2>3
  <1> QED
    BY Zenon, <1>4, <1>5, <1>6, <1>7

-----------------------------------------------------------------------------
(* Arithmetic. *)

\* align_up() does not go down.
LEMMA AlignUpBound ==
    ASSUME NEW a \in Nat, NEW alignment \in Nat \ {0}
    PROVE  AlignUp(a, alignment) \in Int /\ AlignUp(a, alignment) >= a
  <1> DEFINE x == Base + a + alignment - 1
             q == x \div alignment
             r == x % alignment
  <1>1. x \in Nat
    BY HeapAssumption
  <1>2. q \in Int /\ r \in 0 .. alignment - 1 /\ x = alignment * q + r
    <2> HIDE DEF x
    <2> QED
      BY <1>1
  <1>3. q * alignment = alignment * q /\ q * alignment \in Int
    <2> HIDE DEF q
    <2> QED
      BY <1>2
  <1>4. AlignUp(a, alignment) = q * alignment - Base
    BY DEF AlignUp
  <1> HIDE DEF q, r
  <1>5. q * alignment = x - r
    <2> HIDE DEF x
    <2> DEFINE y == q * alignment
    <2>1. y \in Int /\ x = y + r
      BY <1>2, <1>3
    <2> HIDE DEF y
    <2>2. y = x - r
      BY <1>1, <1>2, <2>1
    <2> QED
      BY <2>2 DEF y
  <1> QED
    BY <1>2, <1>4, <1>5, HeapAssumption

\* The memory allocate() returns in a free block leaves nothing in front of its
\* header, or enough for a block.
LEMMA PayloadBound ==
    ASSUME NEW start \in Nat, NEW alignment \in Nat \ {0}
    PROVE  /\ PayloadIn(start, alignment) \in Int
           /\ \/ PayloadIn(start, alignment) - Header = start
              \/ PayloadIn(start, alignment) - Header >= start + HeapMin
  <1>1. start + Header \in Nat /\ start + HeapMin + Header \in Nat
    BY DEF Header, HeapMin
  <1>2. /\ AlignUp(start + Header, alignment) \in Int
        /\ AlignUp(start + Header, alignment) >= start + Header
    BY <1>1, AlignUpBound
  <1>3. /\ AlignUp(start + HeapMin + Header, alignment) \in Int
        /\ AlignUp(start + HeapMin + Header, alignment) >= start + HeapMin + Header
    BY <1>1, AlignUpBound
  <1> QED
    BY <1>2, <1>3 DEF PayloadIn, Header, HeapMin

\* The units of a stretch of the heap.
LEMMA StretchCounted ==
    ASSUME NEW from \in Nat, NEW to \in Nat, from < to
    PROVE  IsFiniteSet(from .. to - 1) /\ Cardinality(from .. to - 1) = to - from
  <1>1. from \in Int /\ to - 1 \in Int /\ ~ (from > to - 1) /\ (to - 1) - from + 1 = to - from
    OBVIOUS
  <1> DEFINE last == to - 1
  <1>2. last \in Int /\ ~ (from > last) /\ last - from + 1 = to - from
    BY <1>1
  <1> HIDE DEF last
  <1>3. IsFiniteSet(from .. last)
        /\ Cardinality(from .. last) = IF from > last THEN 0 ELSE last - from + 1
    BY Zenon, <1>1, <1>2, FS_Interval
  <1>4. IsFiniteSet(from .. last) /\ Cardinality(from .. last) = to - from
    BY <1>2, <1>3
  <1> QED
    BY <1>4 DEF last

\* Taking a stretch out of a set of units, and putting one in.
LEMMA StretchTaken ==
    ASSUME NEW U, IsFiniteSet(U), NEW from \in Nat, NEW to \in Nat, from < to,
           from .. to - 1 \subseteq U
    PROVE  Cardinality(U \ (from .. to - 1)) = Cardinality(U) - (to - from)
  <1> DEFINE V == from .. to - 1
  <1>1. IsFiniteSet(V) /\ Cardinality(V) = to - from
    BY StretchCounted
  <1>2. V \subseteq U
    OBVIOUS
  <1> HIDE DEF V
  <1>3. U \cap V = V
    BY Zenon, <1>2
  <1>4. Cardinality(U \ V) = Cardinality(U) - Cardinality(U \cap V)
    BY Zenon, FS_Difference
  <1>5. Cardinality(U \ V) = Cardinality(U) - (to - from)
    BY <1>1, <1>3, <1>4
  <1> QED
    BY <1>5 DEF V

\* How many units there are when a stretch that was not among them joins them.
LEMMA StretchAdded ==
    ASSUME NEW U, IsFiniteSet(U), NEW from \in Nat, NEW to \in Nat, from < to,
           U \cap (from .. to - 1) = {}
    PROVE  Cardinality(U \cup (from .. to - 1)) = Cardinality(U) + (to - from)
  <1> DEFINE V == from .. to - 1
  <1>1. IsFiniteSet(V) /\ Cardinality(V) = to - from
    BY StretchCounted
  <1>2. U \cap V = {}
    OBVIOUS
  <1> HIDE DEF V
  <1>3. Cardinality(U \cup V) = Cardinality(U) + Cardinality(V) - Cardinality(U \cap V)
    BY Zenon, <1>1, FS_Union
  <1>4. Cardinality(U \cap V) = 0
    BY <1>2, FS_EmptySet
  <1>5. Cardinality(U) \in Nat /\ Cardinality(V) \in Nat
    BY <1>1, FS_CardinalityType
  <1>6. Cardinality(U \cup V) = Cardinality(U) + (to - from)
    BY <1>1, <1>3, <1>4, <1>5
  <1> QED
    BY <1>6 DEF V

-----------------------------------------------------------------------------
(* What the invariant says of one state. *)

\* What a header that was just written says.
LEMMA BlockFields ==
    ASSUME NEW size, NEW tag
    PROVE  Block(size, tag).size = size /\ Block(size, tag).tag = tag
  BY DEF Block

\* What the invariant says of each block and of each place in the list.
LEMMA Basics ==
    ASSUME IInv
    PROVE  /\ Addresses \subseteq Nat /\ Blocks \subseteq Addresses
           /\ Len(list) \in Nat /\ DOMAIN list = 1 .. Len(list)
           /\ \A i \in 1 .. Len(list) : list[i] \in Blocks
           /\ \A a \in Addresses : hdr[a].size \in Nat /\ EndOf(a) = a + hdr[a].size
           /\ \A a \in Blocks : hdr[a].size >= 2 /\ EndOf(a) <= Units
           /\ \A b \in DOMAIN live : live[b] = EndOf(b)
           /\ DOMAIN live \cap Range(list) = {}
  <1>1. Addresses \subseteq Nat /\ Blocks \subseteq Addresses
    BY HeapAssumption DEF IInv, Typed, Blocks, Addresses, Range
  <1>2. Len(list) \in Nat /\ DOMAIN list = 1 .. Len(list)
    BY DEF IInv, Typed
  <1>3. \A i \in 1 .. Len(list) : list[i] \in Blocks
    BY <1>2 DEF Blocks, Range
  <1>4. \A a \in Addresses : hdr[a].size \in Nat /\ EndOf(a) = a + hdr[a].size
    BY DEF IInv, Typed, EndOf
  <1>5. ASSUME NEW a \in Blocks
        PROVE  hdr[a].size >= 2 /\ EndOf(a) <= Units
    <2>1. hdr[a].size >= 2 /\ EndOf(a) \in Blocks \cup {Units}
      BY DEF IInv, Tiles, HeapMin
    <2>2. \A x \in Addresses : x <= Units
      BY HeapAssumption DEF Addresses
    <2>3. Units \in Nat
      BY HeapAssumption
    <2>4. CASE EndOf(a) = Units
      BY <2>1, <2>3, <2>4
    <2>5. CASE EndOf(a) \in Blocks
      BY Zenon, <1>1, <2>1, <2>2, <2>5
    <2> QED
      BY <2>1, <2>4, <2>5
  <1>6. ASSUME NEW b \in DOMAIN live
        PROVE  live[b] = EndOf(b)
    <2>1. b \in Nat /\ live[b] \in Nat /\ hdr[b].size = live[b] - b
      <3>1. live[b] \in Nat /\ hdr[b] = Block(live[b] - b, "used") /\ b \in Addresses
        BY Zenon DEF IInv, Typed, Headers
      <3>2. b \in Nat
        BY Zenon, <1>1, <3>1
      <3>3. hdr[b].size = live[b] - b
        BY <3>1, BlockFields
      <3> QED
        BY Zenon, <3>1, <3>2, <3>3
    <2> QED
      BY <2>1 DEF EndOf
  <1>7. DOMAIN live \cap Range(list) = {}
    <2> SUFFICES ASSUME NEW b \in DOMAIN live, b \in Range(list) PROVE FALSE
      BY Zenon
    <2>1. hdr[b] = Block(live[b] - b, "used") /\ hdr[b].tag = "free"
      BY Zenon DEF IInv, Headers
    <2> QED
      BY <2>1 DEF Block
  <1> QED
    BY <1>1, <1>2, <1>3, <1>4, <1>5, <1>6, <1>7

\* Where a block begins and ends.
LEMMA BlockEnds ==
    ASSUME IInv
    PROVE  \A a \in Blocks : /\ a \in Addresses /\ a \in Nat /\ EndOf(a) \in Nat /\ EndOf(a) >= a + 2
                             /\ EndOf(a) > a /\ EndOf(a) <= Units /\ a < Units
  BY SMTT(20), Basics, HeapAssumption

\* Every other block lies before or after a given one.
LEMMA Apart ==
    ASSUME IInv, NEW a \in Blocks, NEW b \in Blocks, a # b
    PROVE  EndOf(b) <= a \/ b >= EndOf(a)
  <1>1. a \in Nat /\ b \in Nat
    BY Basics
  <1> QED
    BY <1>1 DEF IInv, Tiles

\* The heap's units are finitely many.
LEMMA FreeUnitsFinite ==
    IsFiniteSet(FreeUnits)
  <1>1. IsFiniteSet(Addresses)
    <2> DEFINE last == Units - 1
    <2>1. last \in Int /\ 0 \in Int
      BY HeapAssumption
    <2> HIDE DEF last
    <2>2. IsFiniteSet(0 .. last)
      BY Zenon, <2>1, FS_Interval
    <2> QED
      BY <2>2 DEF Addresses, last
  <1>2. FreeUnits \subseteq Addresses
    BY DEF FreeUnits
  <1> QED
    BY Zenon, <1>1, <1>2, FS_Subset

-----------------------------------------------------------------------------
(* allocate() *)

\* The memory after allocate() put a block into a free one.
Carved(m, start, end, block, block_end) ==
    /\ m \in [Addresses -> [size : Nat, tag : {"data", "used", "free"}]]
    /\ m[block] = Block(block_end - block, "used")
    /\ block > start => m[start] = Block(block - start, "free")
    /\ block_end < end => m[block_end] = Block(end - block_end, "free")
    /\ \A a \in Addresses : a < start \/ a >= end => m[a] = hdr[a]

\* Where a block may be put in a free one.
Fitting(start, end, block, block_end) ==
    /\ block \in Nat /\ block_end \in Nat
    /\ block = start \/ block >= start + 2
    /\ block + 2 <= block_end
    /\ block_end = end \/ block_end + 2 <= end

\* A set of addresses tiles the heap, by the headers of the memory m.
TilesIn(m, B) ==
    /\ B \subseteq Addresses
    /\ 0 \in B
    /\ \A a \in B : m[a].size >= 2 /\ a + m[a].size \in B \cup {Units}
    /\ \A a \in B : a # 0 => \E b \in B : b + m[b].size = a
    /\ \E a \in B : a + m[a].size = Units
    /\ \A a, b \in B : a < b => a + m[a].size <= b

\* The blocks then tile the heap as before.
LEMMA CarvedTiles ==
    ASSUME IInv, NEW start \in Range(list), NEW block, NEW block_end,
           Fitting(start, EndOf(start), block, block_end),
           NEW m, Carved(m, start, EndOf(start), block, block_end),
           NEW B, B = Blocks \cup {block} \cup IF block_end < EndOf(start) THEN {block_end} ELSE {}
    PROVE  TilesIn(m, B)
  <1> DEFINE end == EndOf(start)
             E(a) == a + m[a].size
  <1>1. start \in Blocks /\ start \in Nat /\ end \in Nat /\ end <= Units
    BY Basics DEF Blocks
  <1>2. /\ block \in Nat /\ block_end \in Nat
        /\ block = start \/ block >= start + 2
        /\ block + 2 <= block_end
        /\ block_end = end \/ block_end + 2 <= end
    BY DEF Fitting
  <1>3. block \in Addresses /\ (block_end < end => block_end \in Addresses)
    BY <1>1, <1>2, HeapAssumption DEF Addresses
  <1>4. B \subseteq Addresses
    BY <1>3, Basics
  <1>5. \A a \in Blocks : a # start => a < start \/ a >= end
    <2> SUFFICES ASSUME NEW a \in Blocks, a # start PROVE a < start \/ a >= end
      OBVIOUS
    <2>1. EndOf(a) <= start \/ a >= end
      BY <1>1, Apart
    <2> QED
      BY <1>1, <2>1, Basics
  <1>6. \A a \in Blocks : a # start => m[a] = hdr[a] /\ E(a) = EndOf(a)
    BY Zenon, <1>5, Basics DEF Carved
  <1>7. m[block].size = block_end - block /\ E(block) = block_end
    BY <1>2 DEF Carved, Block
  <1>8. block > start => m[start].size = block - start /\ E(start) = block
    BY <1>1, <1>2 DEF Carved, Block
  <1>9. block_end < end => m[block_end].size = end - block_end /\ E(block_end) = end
    BY <1>1, <1>2 DEF Carved, Block
  <1>10. end \in Blocks \cup {Units}
    BY <1>1 DEF IInv, Tiles
  <1>11. \A a \in B : \/ a \in Blocks /\ a # start
                      \/ a = start /\ block > start
                      \/ a = block
                      \/ a = block_end /\ block_end < end
    BY <1>1, <1>2
  <1>12. block \in B /\ start \in B /\ Blocks \subseteq B /\ (block_end < end => block_end \in B)
    BY <1>1
  <1>13. \A a \in Blocks : hdr[a].size >= 2 /\ EndOf(a) \in Blocks \cup {Units} /\ a \in Nat
    BY Basics DEF IInv, Tiles, HeapMin
  <1>14. block_end \in B \cup {Units}
    BY SMTT(30), <1>1, <1>2, <1>10, <1>12
  <1> HIDE DEF end, E
  <1>15. \A a \in B : m[a].size >= 2 /\ E(a) \in B \cup {Units}
    BY SMTT(30), <1>1, <1>2, <1>6, <1>7, <1>8, <1>9, <1>10, <1>11, <1>12, <1>13, <1>14
  <1>16. ASSUME NEW a \in B, a # 0
         PROVE  \E b \in B : E(b) = a
    <2>1. CASE a \in Blocks
      <3>1. PICK b \in Blocks : EndOf(b) = a
        BY <1>16, <2>1 DEF IInv, Tiles
      <3>2. CASE b # start
        BY ZenonT(40), <1>6, <1>12, <3>1, <3>2
      <3>3. CASE b = start
        BY SMTT(30), <1>1, <1>2, <1>7, <1>9, <1>12, <3>1, <3>3 DEF end
      <3> QED
        BY <3>2, <3>3
    <2>2. CASE a = block /\ block > start
      BY <1>8, <1>12, <2>2
    <2>3. CASE a = block_end /\ block_end < end
      BY <1>7, <1>12, <2>3
    <2> QED
      BY SMTT(30), <1>1, <1>2, <1>11, <2>1, <2>2, <2>3
  <1>17. \E a \in B : E(a) = Units
    <2>1. PICK b \in Blocks : EndOf(b) = Units
      BY DEF IInv, Tiles
    <2>2. CASE b # start
      BY <1>6, <1>12, <2>1, <2>2
    <2>3. CASE b = start
      BY SMTT(30), <1>1, <1>2, <1>7, <1>9, <1>12, <2>1, <2>3 DEF end
    <2> QED
      BY <2>2, <2>3
  <1>18. ASSUME NEW a \in B, NEW b \in B, a < b
         PROVE  E(a) <= b
    <2>1. \A x, y \in Blocks : x < y => EndOf(x) <= y
      BY DEF IInv, Tiles
    <2>2. \A x \in Blocks : x < start => EndOf(x) <= start
      BY <1>1, <2>1
    <2>3. CASE a \in Blocks /\ a # start
      <3>1. E(a) = EndOf(a)
        BY <1>6, <2>3
      <3>2. CASE b \in Blocks
        BY SMTT(30), <1>18, <2>1, <2>3, <3>1, <3>2
      <3>3. CASE b \notin Blocks
        <4>1. b = block \/ (b = block_end /\ block_end < end)
          BY <1>1, <1>11, <3>3
        <4>2. a < start
          BY SMTT(30), <1>1, <1>2, <1>5, <1>13, <1>18, <2>3, <4>1
        <4>3. EndOf(a) <= start /\ EndOf(a) \in Int
          BY <2>2, <2>3, <4>2, Basics
        <4> QED
          BY <1>1, <1>2, <3>1, <4>1, <4>3
      <3> QED
        BY <3>2, <3>3
    <2>4. CASE a = start /\ block > start
      BY SMTT(30), <1>1, <1>2, <1>5, <1>8, <1>11, <1>13, <1>18, <2>4
    <2>5. CASE a = block
      BY SMTT(30), <1>1, <1>2, <1>5, <1>7, <1>11, <1>13, <1>18, <2>5
    <2>6. CASE a = block_end /\ block_end < end
      BY SMTT(30), <1>1, <1>2, <1>5, <1>9, <1>11, <1>13, <1>18, <2>6
    <2> QED
      BY SMTT(30), <1>11, <2>3, <2>4, <2>5, <2>6
  <1>19. 0 \in B
    BY <1>12 DEF IInv, Tiles
  <1> QED
    BY Zenon, <1>4, <1>15, <1>16, <1>17, <1>18, <1>19 DEF E, TilesIn

\* What is left of a free block, as it is linked in.
Pieces(start, end, block, block_end) ==
    (IF block > start THEN <<start>> ELSE <<>>) \o (IF block_end < end THEN <<block_end>> ELSE <<>>)

\* What is left of a free block, when one was carved out of it: in order, and
\* within the block.
LEMMA PiecesAre ==
    ASSUME NEW start \in Addresses, NEW end \in Nat, end <= Units, NEW block, NEW block_end,
           Fitting(start, end, block, block_end),
           NEW m, Carved(m, start, end, block, block_end),
           NEW mid, mid = Pieces(start, end, block, block_end)
    PROVE  /\ mid \in Seq(Addresses) /\ InOrder(m, mid)
           /\ Range(mid) = (IF block > start THEN {start} ELSE {})
                           \cup IF block_end < end THEN {block_end} ELSE {}
           /\ \A x \in Range(mid) : x >= start /\ x + m[x].size <= end
  <1>1. /\ block \in Nat /\ block_end \in Nat
        /\ block = start \/ block >= start + 2
        /\ block + 2 <= block_end
        /\ block_end = end \/ block_end + 2 <= end
    BY DEF Fitting
  <1>2. start \in Nat /\ (block_end < end => block_end \in Addresses)
    BY <1>1, HeapAssumption DEF Addresses
  <1>3. block > start => m[start].size = block - start
    BY DEF Carved, Block
  <1>4. block_end < end => m[block_end].size = end - block_end
    BY DEF Carved, Block
  <1>5. CASE block > start /\ block_end < end
    <2>1. mid = <<start>> \o <<block_end>>
      BY <1>5 DEF Pieces
    <2>2. /\ mid \in Seq(Addresses) /\ Len(mid) = 2 /\ DOMAIN mid = {1, 2}
          /\ mid[1] = start /\ mid[2] = block_end
      BY <1>2, <1>5, <2>1
    <2>3. Range(mid) = {start, block_end}
      BY <2>2 DEF Range
    <2>4. InOrder(m, mid)
      BY <1>1, <1>2, <1>3, <1>5, <2>2 DEF InOrder
    <2> QED
      BY SMTT(30), <1>1, <1>2, <1>3, <1>4, <1>5, <2>2, <2>3, <2>4
  <1>6. CASE block > start /\ ~ (block_end < end)
    <2>1. mid = <<start>>
      BY <1>6 DEF Pieces
    <2>2. /\ mid \in Seq(Addresses) /\ Len(mid) = 1 /\ DOMAIN mid = {1} /\ mid[1] = start
      BY <1>2, <1>6, <2>1
    <2>3. Range(mid) = {start}
      BY <2>2 DEF Range
    <2>4. InOrder(m, mid)
      BY <2>2 DEF InOrder
    <2> QED
      BY SMTT(30), <1>1, <1>2, <1>3, <1>6, <2>2, <2>3, <2>4
  <1>7. CASE ~ (block > start) /\ block_end < end
    <2>1. mid = <<block_end>>
      BY <1>7 DEF Pieces
    <2>2. /\ mid \in Seq(Addresses) /\ Len(mid) = 1 /\ DOMAIN mid = {1} /\ mid[1] = block_end
      BY <1>2, <1>7, <2>1
    <2>3. Range(mid) = {block_end}
      BY <2>2 DEF Range
    <2>4. InOrder(m, mid)
      BY <2>2 DEF InOrder
    <2> QED
      BY SMTT(30), <1>1, <1>2, <1>4, <1>7, <2>2, <2>3, <2>4
  <1>8. CASE ~ (block > start) /\ ~ (block_end < end)
    <2>1. mid = <<>>
      BY <1>8 DEF Pieces
    <2>2. mid \in Seq(Addresses) /\ Len(mid) = 0 /\ DOMAIN mid = {}
      BY <2>1
    <2>3. Range(mid) = {}
      BY <2>2 DEF Range
    <2>4. InOrder(m, mid)
      BY <2>2 DEF InOrder
    <2> QED
      BY <1>8, <2>2, <2>3, <2>4
  <1> QED
    BY <1>5, <1>6, <1>7, <1>8

\* No block is in the free list twice.
LEMMA ListedOnce ==
    ASSUME IInv, NEW i \in 1 .. Len(list), NEW j \in 1 .. Len(list), list[i] = list[j]
    PROVE  i = j
  <1>1. list[i] \in Nat /\ EndOf(list[i]) \in Nat /\ EndOf(list[i]) > list[i]
    BY Zenon, Basics, BlockEnds
  <1>2. DOMAIN list = 1 .. Len(list)
    BY Basics
  <1>3. i < j => EndOf(list[i]) < list[j]
    BY <1>2 DEF IInv, Ordered
  <1>4. j < i => EndOf(list[j]) < list[i]
    BY <1>2 DEF IInv, Ordered
  <1> QED
    BY <1>1, <1>3, <1>4

\* The free blocks when one has been carved.
CarvedList(start, end, block, block_end) ==
    (Range(list) \ {start}) \cup (IF block > start THEN {start} ELSE {})
      \cup IF block_end < end THEN {block_end} ELSE {}

\* The units of a set of blocks.
UnitsOf(m, R) == {u \in Addresses : \E a \in R : a <= u /\ u < a + m[a].size}

\* The units that are free after allocate() took a block.
LEMMA CarvedUnits ==
    ASSUME IInv, NEW start \in Range(list), NEW block, NEW block_end,
           Fitting(start, EndOf(start), block, block_end),
           NEW m, Carved(m, start, EndOf(start), block, block_end)
    PROVE  /\ block .. block_end - 1 \subseteq FreeUnits
           /\ UnitsOf(m, CarvedList(start, EndOf(start), block, block_end))
              = FreeUnits \ (block .. block_end - 1)
  <1> DEFINE end == EndOf(start)
             R == (Range(list) \ {start}) \cup (IF block > start THEN {start} ELSE {})
                       \cup IF block_end < EndOf(start) THEN {block_end} ELSE {}
             Free2 == {u \in Addresses : \E a \in R : a <= u /\ u < a + m[a].size}
  <1>1. start \in Blocks /\ start \in Nat /\ end \in Nat /\ end <= Units
    BY Basics DEF Blocks
  <1>2. /\ block \in Nat /\ block_end \in Nat
        /\ block = start \/ block >= start + 2
        /\ block + 2 <= block_end
        /\ block_end = end \/ block_end + 2 <= end
    BY DEF Fitting
  <1>3. ASSUME NEW a \in Range(list), a # start
        PROVE  /\ a \in Addresses /\ a \in Nat /\ EndOf(a) \in Nat /\ a + m[a].size = EndOf(a)
               /\ EndOf(a) <= start \/ a >= end
    <2>1. a \in Blocks /\ a \in Addresses /\ a \in Nat /\ EndOf(a) \in Nat /\ EndOf(a) = a + hdr[a].size
          /\ EndOf(a) >= a
      BY Basics DEF Blocks
    <2>2. EndOf(a) <= start \/ a >= end
      BY <1>1, <1>3, <2>1, Apart
    <2>3. a < start \/ a >= end
      <3>1. hdr[a].size >= 2 /\ hdr[a].size \in Nat
        BY <2>1, Basics
      <3> QED
        BY <1>1, <2>1, <2>2, <3>1
    <2>4. m[a] = hdr[a]
      BY <2>1, <2>3 DEF Carved
    <2> QED
      BY SMTT(30), <2>1, <2>2, <2>4
  <1>4. block > start => m[start].size = block - start
    BY DEF Carved, Block
  <1>5. block_end < end => m[block_end].size = end - block_end
    BY DEF Carved, Block
  <1> HIDE DEF end
  <1>6. Addresses = 0 .. Units - 1 /\ Units \in Nat
    BY HeapAssumption DEF Addresses
  <1>7. ASSUME NEW u \in block .. block_end - 1
        PROVE  u \in FreeUnits
    <2>1. u \in Addresses /\ start <= u /\ u < end
      BY <1>1, <1>2, <1>6
    <2> QED
      BY <2>1 DEF FreeUnits, end
  <1>8. ASSUME NEW u \in Free2
        PROVE  u \in FreeUnits /\ u \notin block .. block_end - 1
    <2>1. PICK a \in R : a <= u /\ u < a + m[a].size
      OBVIOUS
    <2>2. u \in Addresses /\ u \in Nat
      BY <1>6
    <2>3. CASE a \in Range(list) /\ a # start
      <3>1. a <= u /\ u < EndOf(a)
        BY <1>3, <2>1, <2>3
      <3>2. u \notin block .. block_end - 1
        BY SMTT(30), <1>1, <1>2, <1>3, <2>2, <2>3, <3>1
      <3> QED
        BY SMTT(30), <2>2, <2>3, <3>1, <3>2 DEF FreeUnits
    <2>4. CASE a = start /\ block > start
      <3>1. start <= u /\ u < end /\ u \notin block .. block_end - 1
        BY SMTT(30), <1>1, <1>2, <1>4, <2>1, <2>2, <2>4
      <3> QED
        BY <2>2, <3>1 DEF FreeUnits, end
    <2>5. CASE a = block_end /\ block_end < end
      <3>1. start <= u /\ u < end /\ u \notin block .. block_end - 1
        BY SMTT(30), <1>1, <1>2, <1>5, <2>1, <2>2, <2>5
      <3> QED
        BY <2>2, <3>1 DEF FreeUnits, end
    <2> QED
      BY <2>3, <2>4, <2>5 DEF end
  <1>9. ASSUME NEW u \in FreeUnits, u \notin block .. block_end - 1
        PROVE  u \in Free2
    <2>1. PICK a \in Range(list) : a <= u /\ u < EndOf(a)
      BY DEF FreeUnits
    <2>2. u \in Addresses /\ u \in Nat
      BY <1>6 DEF FreeUnits
    <2>3. CASE a # start
      <3>1. a + m[a].size = EndOf(a) /\ a \in R
        BY <1>3, <2>3
      <3> QED
        BY <2>1, <2>2, <3>1
    <2>4. CASE a = start
      <3>1. u < block \/ u >= block_end
        BY SMTT(30), <1>2, <1>9, <2>2
      <3>2. CASE u < block
        <4>1. block > start /\ start \in R /\ u < start + m[start].size /\ start <= u
          BY SMTT(30), <1>1, <1>2, <1>4, <2>1, <2>2, <2>4, <3>2
        <4> QED
          BY <2>2, <4>1
      <3>3. CASE u >= block_end
        <4>1. block_end < end
          BY SMTT(30), <1>1, <1>2, <2>1, <2>2, <2>4, <3>3 DEF end
        <4>2. block_end \in R
          BY <4>1 DEF end
        <4>3. u < block_end + m[block_end].size
          BY SMTT(30), <1>1, <1>2, <1>5, <2>1, <2>2, <2>4, <4>1 DEF end
        <4> QED
          BY SMTT(30), <2>2, <3>3, <4>2, <4>3
      <3> QED
        BY <3>1, <3>2, <3>3
    <2> QED
      BY <2>3, <2>4
  <1>10. Free2 = FreeUnits \ (block .. block_end - 1)
    BY <1>8, <1>9
  <1>11. UnitsOf(m, CarvedList(start, EndOf(start), block, block_end)) = Free2
    BY DEF UnitsOf, CarvedList
  <1> HIDE DEF Free2
  <1> QED
    BY SMTT(30), <1>7, <1>10, <1>11

\* The elements of the free list but for its k-th.
LEMMA OthersListed ==
    ASSUME IInv, NEW k \in 1 .. Len(list)
    PROVE  {list[i] : i \in 1 .. k - 1} \cup {list[i] : i \in k + 1 .. Len(list)}
           = Range(list) \ {list[k]}
  <1>1. Len(list) \in Nat /\ DOMAIN list = 1 .. Len(list)
    BY Basics
  <1>2. ASSUME NEW i \in 1 .. Len(list), i # k
        PROVE  list[i] # list[k]
    BY <1>2, ListedOnce
  <1>3. \A i \in 1 .. Len(list) : i # k <=> i \in 1 .. k - 1 \/ i \in k + 1 .. Len(list)
    BY <1>1
  <1>4. 1 .. k - 1 \subseteq 1 .. Len(list) /\ k + 1 .. Len(list) \subseteq 1 .. Len(list)
    BY <1>1
  <1>5. ASSUME NEW x \in Range(list), x # list[k]
        PROVE  x \in {list[i] : i \in 1 .. k - 1} \cup {list[i] : i \in k + 1 .. Len(list)}
    <2>1. PICK i \in 1 .. Len(list) : x = list[i]
      BY <1>1 DEF Range
    <2> QED
      BY Zenon, <1>3, <1>5, <2>1
  <1>6. ASSUME NEW i \in (1 .. k - 1) \cup (k + 1 .. Len(list))
        PROVE  list[i] \in Range(list) \ {list[k]}
    <2>1. i \in 1 .. Len(list) /\ i # k
      BY <1>1
    <2> QED
      BY <1>1, <1>2, <2>1 DEF Range
  <1> QED
    BY ZenonT(40), <1>5, <1>6

\* The step that puts block .. block_end - 1 into the free block start, the k-th.
CarveStep(k, start, end, block, block_end) ==
    /\ Fitting(start, end, block, block_end)
    /\ Carved(hdr', start, end, block, block_end)
    /\ list' = Splice(list, k - 1, Pieces(start, end, block, block_end), k)
    /\ live' = [a \in DOMAIN live \cup {block} |-> IF a = block THEN block_end ELSE live[a]]
    /\ free_bytes' = free_bytes - (block_end - block)

\* allocate() keeps the invariant, once it is clear where the block goes.
LEMMA CarvedKeeps ==
    ASSUME IInv, NEW k \in 1 .. Len(list), NEW start, NEW end, NEW block, NEW block_end,
           start = list[k], end = EndOf(start), CarveStep(k, start, end, block, block_end)
    PROVE  IInv'
  <1> DEFINE mid == Pieces(start, end, block, block_end)
             M == (IF block > start THEN {start} ELSE {}) \cup IF block_end < end THEN {block_end} ELSE {}
             R == (Range(list) \ {start}) \cup (IF block > start THEN {start} ELSE {})
                   \cup IF block_end < end THEN {block_end} ELSE {}
             B == Blocks \cup {block} \cup IF block_end < end THEN {block_end} ELSE {}
  <1>1. /\ start \in Range(list) /\ start \in Blocks /\ start \in Addresses /\ start \in Nat
        /\ end \in Nat /\ end <= Units /\ end = start + hdr[start].size /\ end >= start + 2
        /\ Len(list) \in Nat /\ k - 1 \in 0 .. Len(list) /\ k \in k - 1 .. Len(list)
    <2>1. start \in Blocks
      BY Basics
    <2>2. /\ start \in Addresses /\ start \in Nat /\ end = start + hdr[start].size
          /\ hdr[start].size \in Nat /\ hdr[start].size >= 2 /\ end <= Units
      BY <2>1, Basics
    <2>3. start \in Range(list)
      BY Basics DEF Range
    <2>4. Len(list) \in Nat
      BY Basics
    <2> QED
      BY <2>1, <2>2, <2>3, <2>4
  <1>2. /\ block \in Nat /\ block_end \in Nat
        /\ block = start \/ block >= start + 2
        /\ block + 2 <= block_end
        /\ block_end = end \/ block_end + 2 <= end
    BY DEF CarveStep, Fitting
  <1>3. Fitting(start, end, block, block_end) /\ Carved(hdr', start, end, block, block_end)
    BY SMTT(30) DEF CarveStep
  <1>4. /\ mid \in Seq(Addresses) /\ InOrder(hdr', mid) /\ Range(mid) = M
        /\ \A x \in Range(mid) : x >= start /\ x + hdr'[x].size <= end
    BY <1>1, <1>3, PiecesAre
  <1> HIDE DEF mid
  <1>5. list \in Seq(Addresses)
    BY DEF IInv, Typed
  <1>6. list' = Splice(list, k - 1, mid, k)
    BY DEF mid, CarveStep
  <1>7. list' \in Seq(Addresses) /\ IsSplice(list', list, k - 1, mid, k)
    BY ZenonT(40), <1>1, <1>4, <1>5, <1>6, Spliced
  <1>8. Range(list') = R
    <2>1. Range(list') = {list[i] : i \in 1 .. k - 1} \cup Range(mid) \cup {list[i] : i \in k + 1 .. Len(list)}
      <3>1. mid \in Seq(Addresses) /\ k - 1 \in 0 .. Len(list) /\ k \in k - 1 .. Len(list)
        BY <1>1, <1>4
      <3>2. Range(list') = Kept(list, k - 1, mid, k)
        BY <1>5, <1>7, <3>1, SplicedRange
      <3> QED
        BY ZenonT(40), <3>2 DEF Kept
    <2>2. {list[i] : i \in 1 .. k - 1} \cup {list[i] : i \in k + 1 .. Len(list)} = Range(list) \ {start}
      BY Zenon, OthersListed
    <2>3. Range(mid) = M
      BY <1>4
    <2> HIDE DEF M
    <2>4. Range(list') = (Range(list) \ {start}) \cup M
      <3> DEFINE L == {list[i] : i \in 1 .. k - 1}
                 H == {list[i] : i \in k + 1 .. Len(list)}
      <3>1. Range(list') = L \cup Range(mid) \cup H /\ L \cup H = Range(list) \ {start}
        BY Zenon, <2>1, <2>2
      <3> HIDE DEF L, H
      <3> QED
        BY <2>3, <3>1
    <2> QED
      BY <2>4 DEF M
  <1>9. DOMAIN live' = DOMAIN live \cup {block}
    BY Zenon DEF CarveStep
  <1>10. Blocks' = B
    <2>1. (DOMAIN live \cup {block}) \cup R = B
      <3>1. start = block \/ block > start
        BY <1>1, <1>2
      <3> QED
        BY <1>1, <3>1 DEF Blocks
    <2>2. Blocks' = DOMAIN live' \cup Range(list')
      BY DEF Blocks
    <2> QED
      BY ZenonT(40), <1>8, <1>9, <2>1, <2>2
  <1>11. TilesIn(hdr', B)
    <2>1. Fitting(start, EndOf(start), block, block_end) /\ Carved(hdr', start, EndOf(start), block, block_end)
      BY <1>3
    <2>2. B = Blocks \cup {block} \cup IF block_end < EndOf(start) THEN {block_end} ELSE {}
      OBVIOUS
    <2> HIDE DEF B
    <2> QED
      BY ZenonT(40), <1>1, <2>1, <2>2, CarvedTiles
  <1> HIDE DEF B
  <1>12. Tiles'
    <2>1. TilesIn(hdr', Blocks')
      BY ZenonT(40), <1>10, <1>11
    <2> QED
      BY Zenon, <2>1 DEF Tiles, TilesIn, EndOf, HeapMin
  <1>13. \A a \in Blocks : a # start => hdr'[a] = hdr[a]
    <2> SUFFICES ASSUME NEW a \in Blocks, a # start PROVE hdr'[a] = hdr[a]
      OBVIOUS
    <2>1. EndOf(a) <= start \/ a >= end
      BY ZenonT(40), <1>1, Apart
    <2>2. a \in Addresses /\ a \in Nat /\ hdr[a].size >= 2 /\ hdr[a].size \in Nat /\ EndOf(a) = a + hdr[a].size
      BY Basics
    <2>3. a < start \/ a >= end
      BY SMTT(30), <1>1, <2>1, <2>2
    <2> QED
      BY SMTT(30), <1>3, <2>2, <2>3 DEF Carved
  <1>14. live' = [a \in DOMAIN live \cup {block} |-> IF a = block THEN block_end ELSE live[a]]
    BY DEF CarveStep
  <1>15. block \in B /\ DOMAIN live \subseteq B
    BY DEF B, Blocks
  <1>16. Typed'
    <2>1. hdr' \in [Addresses -> [size : Nat, tag : {"data", "used", "free"}]]
      BY <1>3 DEF Carved
    <2>2. DOMAIN live' \subseteq Addresses
      BY <1>9, <1>11, <1>15 DEF TilesIn
    <2>3. live' = [b \in DOMAIN live' |-> live'[b]]
      BY Zenon, <1>9, <1>14
    <2>4. \A b \in DOMAIN live' : live'[b] \in Nat
      <3>1. \A b \in DOMAIN live : live[b] \in Nat
        BY DEF IInv, Typed
      <3> QED
        BY <1>2, <1>9, <1>14, <3>1
    <2> QED
      BY ZenonT(40), <1>7, <2>1, <2>2, <2>3, <2>4 DEF Typed, Addresses
  <1>17. Headers'
    <2>1. ASSUME NEW b \in DOMAIN live'
          PROVE  hdr'[b] = Block(live'[b] - b, "used")
      <3>1. CASE b = block
        BY <1>3, <1>14, <3>1 DEF Carved
      <3>2. CASE b # block
        <4>1. b \in DOMAIN live /\ live'[b] = live[b]
          BY <1>9, <1>14, <3>2
        <4>2. b \in Blocks /\ b # start
          BY <1>1, <4>1, Basics DEF Blocks
        <4>3. hdr[b] = Block(live[b] - b, "used")
          BY Zenon, <4>1 DEF IInv, Headers
        <4> QED
          BY ZenonT(40), <1>13, <4>1, <4>2, <4>3
      <3> QED
        BY <3>1, <3>2
    <2>2. ASSUME NEW a \in Range(list')
          PROVE  hdr'[a].tag = "free"
      <3>1. CASE a \in Range(list) /\ a # start
        BY SMTT(30), <1>13, <3>1 DEF IInv, Headers, Blocks
      <3>2. CASE a = start /\ block > start
        BY <1>3, <3>2, BlockFields DEF Carved
      <3>3. CASE a = block_end /\ block_end < end
        BY <1>3, <3>3, BlockFields DEF Carved
      <3> QED
        BY SMTT(30), <1>8, <3>1, <3>2, <3>3
    <2> QED
      BY Zenon, <2>1, <2>2 DEF Headers, Block
  <1>18. Ordered'
    <2>1. \A i, j \in 1 .. Len(list) : i < j => EndOf(list[i]) < list[j]
      BY SMTT(30), Basics DEF IInv, Ordered
    <2>2. \A i \in 1 .. Len(list) : list[i] \in Nat /\ EndOf(list[i]) \in Nat
      BY SMTT(30), Basics
    <2>3. \A i \in 1 .. Len(list) : i # k => list[i] + hdr'[list[i]].size = EndOf(list[i])
      <3> SUFFICES ASSUME NEW i \in 1 .. Len(list), i # k
                   PROVE  list[i] + hdr'[list[i]].size = EndOf(list[i])
        OBVIOUS
      <3>1. list[i] # start
        BY SMTT(30), ListedOnce
      <3>2. list[i] \in Blocks
        BY SMTT(30), Basics
      <3> QED
        BY SMTT(30), <1>13, <3>1, <3>2, Basics
    <2>4. \A i, j \in (1 .. k - 1) \cup (k + 1 .. Len(list)) :
             i < j => list[i] + hdr'[list[i]].size < list[j]
      BY <1>1, <2>1, <2>3
    <2>5. \A i \in 1 .. Len(mid) : mid[i] \in Range(mid) /\ mid[i] \in Nat
      <3>1. DOMAIN mid = 1 .. Len(mid) /\ \A i \in DOMAIN mid : mid[i] \in Addresses
        BY <1>4
      <3>2. Addresses \subseteq Nat
        BY Basics
      <3> QED
        BY ZenonT(40), <3>1, <3>2 DEF Range
    <2>6. \A i \in 1 .. k - 1, j \in 1 .. Len(mid) : list[i] + hdr'[list[i]].size < mid[j]
      <3> SUFFICES ASSUME NEW i \in 1 .. k - 1, NEW j \in 1 .. Len(mid)
                   PROVE  list[i] + hdr'[list[i]].size < mid[j]
        OBVIOUS
      <3>1. i \in 1 .. Len(list) /\ i # k /\ i < k
        BY SMTT(30), <1>1
      <3>2. EndOf(list[i]) < start /\ EndOf(list[i]) \in Nat
        BY <2>1, <2>2, <3>1
      <3>3. mid[j] >= start /\ mid[j] \in Nat
        BY <1>4, <2>5
      <3>4. list[i] + hdr'[list[i]].size = EndOf(list[i])
        BY <2>3, <3>1
      <3> QED
        BY SMTT(20), <1>1, <3>2, <3>3, <3>4
    <2>7. \A i \in 1 .. Len(mid), j \in k + 1 .. Len(list) : mid[i] + hdr'[mid[i]].size < list[j]
      <3> SUFFICES ASSUME NEW i \in 1 .. Len(mid), NEW j \in k + 1 .. Len(list)
                   PROVE  mid[i] + hdr'[mid[i]].size < list[j]
        OBVIOUS
      <3>1. j \in 1 .. Len(list) /\ k < j
        BY <1>1
      <3>2. end < list[j] /\ list[j] \in Nat
        BY SMTT(30), <2>1, <2>2, <3>1
      <3>3. mid[i] \in Addresses
        BY <1>4
      <3>4. mid[i] + hdr'[mid[i]].size <= end /\ hdr'[mid[i]].size \in Nat
        BY ZenonT(40), <1>3, <1>4, <2>5, <3>3 DEF Carved
      <3>5. mid[i] \in Nat /\ end \in Nat
        BY ZenonT(40), <1>1, <2>5
      <3> DEFINE x == mid[i]
                 n == hdr'[x].size
                 y == list[j]
      <3>6. x + n <= end /\ n \in Nat /\ x \in Nat /\ end \in Nat /\ end < y /\ y \in Nat
        BY <3>2, <3>4, <3>5
      <3> HIDE DEF x, n, y
      <3>7. x + n < y
        BY SMTT(30), <3>6
      <3> QED
        BY <3>7 DEF x, n, y
    <2>8. k - 1 \in 0 .. Len(list) /\ k \in k - 1 .. Len(list) /\ mid \in Seq(Addresses) /\ InOrder(hdr', mid)
      BY <1>1, <1>4
    <2>9. InOrder(hdr', list')
      BY ZenonT(40), <1>5, <1>7, <2>4, <2>6, <2>7, <2>8, SplicedOrdered
    <2>10. DOMAIN list' = 1 .. Len(list')
      BY <1>7
    <2> QED
      BY ZenonT(40), <2>9, <2>10 DEF Ordered, InOrder, EndOf
  <1>19. Counted'
    <2>1. Fitting(start, EndOf(start), block, block_end) /\ Carved(hdr', start, EndOf(start), block, block_end)
      BY <1>3
    <2>2. R = CarvedList(start, EndOf(start), block, block_end)
      BY DEF CarvedList
    <2> HIDE DEF R
    <2>3. /\ block .. block_end - 1 \subseteq FreeUnits
          /\ UnitsOf(hdr', R) = FreeUnits \ (block .. block_end - 1)
      <3>1. start \in Range(list)
        BY <1>1
      <3> QED
        BY SMTT(30), <2>1, <2>2, <3>1, CarvedUnits
    <2>4. FreeUnits' = UnitsOf(hdr', R)
      BY ZenonT(40), <1>8 DEF FreeUnits, UnitsOf, EndOf, Addresses
    <2>5. Cardinality(FreeUnits \ (block .. block_end - 1)) = Cardinality(FreeUnits) - (block_end - block)
      BY SMTT(30), <1>2, <2>3, FreeUnitsFinite, StretchTaken
    <2>6. free_bytes' = free_bytes - (block_end - block)
      BY DEF CarveStep
    <2>7. free_bytes = Cardinality(FreeUnits)
      BY DEF IInv, Counted
    <2>8. free_bytes' = Cardinality(FreeUnits')
      BY ZenonT(40), <2>3, <2>4, <2>5, <2>6, <2>7
    <2> QED
      BY <2>8 DEF Counted
  <1> QED
    BY ZenonT(40), <1>12, <1>16, <1>17, <1>18, <1>19 DEF IInv

\* Where allocate() puts the block it hands out.
LEMMA AllocatedFits ==
    ASSUME NEW start \in Nat, NEW end \in Nat, NEW units \in Nat \ {0}, NEW alignment \in Nat \ {0},
           Fits(start, end, units, alignment),
           NEW block, block = PayloadIn(start, alignment) - Header,
           NEW block_end, block_end = TailOf(block + Header + units, end)
    PROVE  Fitting(start, end, block, block_end)
  <1>1. /\ PayloadIn(start, alignment) \in Int
        /\ block = start \/ block >= start + 2
    BY PayloadBound DEF HeapMin
  <1>2. end - PayloadIn(start, alignment) >= units
    BY DEF Fits
  <1>3. block \in Nat /\ block + 1 + units <= end
    BY <1>1, <1>2 DEF Header
  <1>4. \/ block_end = end
        \/ block_end = block + 1 + units /\ block_end + 2 <= end
    BY <1>3 DEF TailOf, HeapMin, Header
  <1> QED
    BY SMTT(30), <1>1, <1>3, <1>4 DEF Fitting

\* allocate() keeps the invariant.
LEMMA AllocateKeeps ==
    ASSUME IInv, NEW units \in Requests, NEW alignment \in Alignments, Allocate(units, alignment)
    PROVE  IInv'
  <1> DEFINE fit == {i \in DOMAIN list : Fits(list[i], EndOf(list[i]), units, alignment)}
             k == Min(fit)
             start == list[k]
             end == EndOf(start)
             block == PayloadIn(start, alignment) - Header
             block_end == TailOf(block + Header + units, end)
             before == IF block > start THEN <<start>> ELSE <<>>
             after == IF block_end < end THEN <<block_end>> ELSE <<>>
             New(a) == CASE a = block -> Block(block_end - block, "used")
               [] a = start /\ block > start -> Block(block - start, "free")
               [] a = block_end /\ block_end < end -> Block(end - block_end, "free")
               [] a \in block + 1 .. block_end - 1 -> Data
               [] OTHER -> hdr[a]
  <1>1. /\ fit # {}
        /\ list' = SubSeq(list, 1, k - 1) \o before \o after \o SubSeq(list, k + 1, Len(list))
        /\ hdr' = [a \in Addresses |-> New(a)]
        /\ free_bytes' = free_bytes - (block_end - block)
        /\ live' = [a \in DOMAIN live \cup {block} |-> IF a = block THEN block_end ELSE live[a]]
    BY Zenon DEF Allocate
  <1>2. k \in fit
    <2> HIDE DEF fit
    <2>1. fit \in SUBSET Nat
      BY Basics DEF fit
    <2>2. \E x \in fit : \A y \in fit : x <= y
      BY ZenonT(40), <1>1, <2>1, LeastAddress
    <2> QED
      BY ZenonT(40), <2>2 DEF Min
  <1> HIDE DEF k
  <1>3. k \in 1 .. Len(list) /\ Fits(start, end, units, alignment)
    BY <1>2, Basics
  <1> HIDE DEF fit
  <1>4. /\ start \in Addresses /\ start \in Nat /\ end \in Nat /\ end <= Units
        /\ end = start + hdr[start].size
    <2>1. start \in Blocks
      BY <1>3, Basics
    <2> QED
      BY SMTT(30), <2>1, Basics
  <1>5. units \in Nat \ {0} /\ alignment \in Nat \ {0}
    BY HeapAssumption
  <1>6. Fitting(start, end, block, block_end)
    <2> HIDE DEF start, end
    <2> QED
      BY ZenonT(40), <1>3, <1>4, <1>5, AllocatedFits
  <1> HIDE DEF start, end, block, block_end
  <1>7. /\ block \in Nat /\ block_end \in Nat
        /\ block = start \/ block >= start + 2
        /\ block + 2 <= block_end
        /\ block_end = end \/ block_end + 2 <= end
    BY <1>6 DEF Fitting
  <1>8. Carved(hdr', start, end, block, block_end)
    <2> HIDE DEF New
    <2>0. hdr' = [a \in Addresses |-> New(a)]
      BY Zenon, <1>1
    <2>1. hdr \in [Addresses -> [size : Nat, tag : {"data", "used", "free"}]]
      BY DEF IInv, Typed
    <2>2. block \in Addresses /\ (block_end < end => block_end \in Addresses)
      BY <1>4, <1>7, HeapAssumption DEF Addresses
    <2>3. hdr'[block] = Block(block_end - block, "used")
      <3>1. New(block) = Block(block_end - block, "used")
        BY <1>4, <1>7 DEF New
      <3> QED
        BY <2>0, <2>2, <3>1
    <2>4. block > start => hdr'[start] = Block(block - start, "free")
      <3>1. block > start => New(start) = Block(block - start, "free")
        BY <1>4, <1>7 DEF New
      <3> QED
        BY <1>4, <2>0, <3>1
    <2>5. block_end < end => hdr'[block_end] = Block(end - block_end, "free")
      <3> SUFFICES ASSUME block_end < end PROVE hdr'[block_end] = Block(end - block_end, "free")
        OBVIOUS
      <3>1. block_end # block /\ block_end # start
        BY <1>4, <1>7
      <3> QED
        BY <2>0, <2>2, <3>1 DEF New
    <2>6. \A a \in Addresses : a < start \/ a >= end => hdr'[a] = hdr[a]
      <3> SUFFICES ASSUME NEW a \in Addresses, a < start \/ a >= end
                   PROVE  hdr'[a] = hdr[a]
        OBVIOUS
      <3>1. a \in Nat
        BY Basics
      <3>2. /\ a # block /\ a # start /\ ~ (a = block_end /\ block_end < end)
            /\ a \notin block + 1 .. block_end - 1
        BY <1>4, <1>7, <3>1
      <3> QED
        BY <2>0, <3>2 DEF New
    <2>7. hdr' \in [Addresses -> [size : Nat, tag : {"data", "used", "free"}]]
      <3> DEFINE H == [size : Nat, tag : {"data", "used", "free"}]
      <3>1. /\ block_end - block \in Nat
            /\ block > start => block - start \in Nat
            /\ block_end < end => end - block_end \in Nat
        BY SMTT(30), <1>4, <1>7
      <3>2. \A size \in Nat : Block(size, "used") \in H /\ Block(size, "free") \in H /\ Data \in H
        BY DEF Block, Data
      <3>3. \A a \in Addresses : hdr[a] \in H
        BY <2>1
      <3> HIDE DEF H
      <3>4. ASSUME NEW a \in Addresses
            PROVE  New(a) \in H
        BY SMTT(30), <3>1, <3>2, <3>3 DEF New
      <3>5. hdr' \in [Addresses -> H]
        BY <2>0, <3>4
      <3> QED
        BY <3>5 DEF H
    <2> QED
      BY ZenonT(40), <2>3, <2>4, <2>5, <2>6, <2>7 DEF Carved
  <1>9. list' = Splice(list, k - 1, Pieces(start, end, block, block_end), k)
    <2>1. list \in Seq(Addresses)
      BY DEF IInv, Typed
    <2>2. k - 1 \in Int /\ k - 1 <= Len(list) /\ k - 1 >= 0 /\ k \in Nat /\ Len(list) \in Nat
      BY <1>3, Basics
    <2>3. SubSeq(list, 1, k - 1) \in Seq(Addresses) /\ SubSeq(list, k + 1, Len(list)) \in Seq(Addresses)
      <3>1. \A i \in 1 .. k - 1 : list[i] \in Addresses
        BY <2>1, <2>2
      <3>2. \A i \in k + 1 .. Len(list) : list[i] \in Addresses
        BY <2>1, <2>2
      <3> QED
        BY SMTT(30), <2>1, <2>2, <3>1, <3>2
    <2>4. before \in Seq(Addresses) /\ after \in Seq(Addresses)
      <3>1. block_end < end => block_end \in Addresses
        BY <1>4, <1>7, HeapAssumption DEF Addresses
      <3> QED
        BY <1>4, <3>1
    <2>5. Pieces(start, end, block, block_end) = before \o after
      BY DEF Pieces
    <2> HIDE DEF before, after
    <2> DEFINE first == SubSeq(list, 1, k - 1)
    <2> HIDE DEF first
    <2>6. (first \o before) \o after = first \o (before \o after)
      <3>1. first \in Seq(Addresses)
        BY <2>3 DEF first
      <3> QED
        BY SMTT(20), <2>4, <3>1, ConcatAssociative
    <2>7. list' = ((first \o before) \o after) \o SubSeq(list, k + 1, Len(list))
      BY Zenon, <1>1 DEF first
    <2> QED
      BY ZenonT(40), <2>5, <2>6, <2>7 DEF Splice, first
  <1>10. CarveStep(k, start, end, block, block_end)
    BY Zenon, <1>1, <1>6, <1>8, <1>9 DEF CarveStep
  <1>11. start = list[k] /\ end = EndOf(start)
    BY DEF start, end
  <1> HIDE DEF before, after
  <1> QED
    BY SMTT(30), <1>3, <1>10, <1>11, CarvedKeeps

-----------------------------------------------------------------------------
(* A step that frees a block. *)

\* The memory m when a free block from start to stop replaces what was there.
Merged(m, start, stop) ==
    /\ m \in [Addresses -> [size : Nat, tag : {"data", "used", "free"}]]
    /\ m[start] = Block(stop - start, "free")
    /\ \A a \in Addresses : a < start \/ a >= stop => m[a] = hdr[a]

\* The block h and the free blocks it is joined with.
Joined(h, start, stop) ==
    /\ start = h \/ (start \in Range(list) /\ EndOf(start) = h)
    /\ stop = EndOf(h) \/ (EndOf(h) \in Range(list) /\ stop = EndOf(EndOf(h)))

\* The blocks and the free ones after that.
MergedBlocks(start, stop) == {a \in Blocks : a <= start \/ a >= stop}
MergedList(start, stop) == {a \in Range(list) : a < start \/ a >= stop} \cup {start}

\* Where the joined block lies, and which blocks it takes in.
LEMMA JoinedLies ==
    ASSUME IInv, NEW h \in DOMAIN live, NEW start, NEW stop, Joined(h, start, stop)
    PROVE  /\ start \in Blocks /\ start \in Addresses /\ start \in Nat
           /\ stop \in Nat /\ stop \in Blocks \cup {Units} /\ stop <= Units
           /\ h \in Blocks /\ h \in Nat /\ EndOf(h) \in Nat /\ EndOf(h) >= h + 2
           /\ start <= h /\ EndOf(h) <= stop /\ h \notin Range(list)
           /\ start = h \/ (start \in Range(list) /\ EndOf(start) = h)
           /\ stop = EndOf(h) \/ (EndOf(h) \in Range(list) /\ stop = EndOf(EndOf(h)))
  <1>1. h \in Blocks /\ h \notin Range(list)
    BY Basics DEF Blocks
  <1>2. start \in Blocks
    BY <1>1 DEF Joined, Blocks
  <1>3. \A a \in Blocks : /\ a \in Addresses /\ a \in Nat /\ EndOf(a) \in Nat /\ EndOf(a) >= a + 2
                          /\ EndOf(a) <= Units
    BY Basics
  <1>4. \A a \in Blocks : EndOf(a) \in Blocks \cup {Units}
    BY DEF IInv, Tiles
  <1>5. EndOf(h) \in Range(list) => EndOf(h) \in Blocks
    BY DEF Blocks
  <1>6. stop \in Blocks \cup {Units} /\ stop \in Nat /\ EndOf(h) <= stop
    <2>1. CASE stop = EndOf(h)
      BY SMTT(30), <1>1, <1>3, <1>4, <2>1
    <2>2. CASE EndOf(h) \in Range(list) /\ stop = EndOf(EndOf(h))
      BY SMTT(30), <1>1, <1>3, <1>4, <1>5, <2>2
    <2> QED
      BY <2>1, <2>2 DEF Joined
  <1>7. start <= h
    BY SMTT(30), <1>1, <1>2, <1>3 DEF Joined
  <1>8. stop <= Units
    BY SMTT(30), <1>3, <1>6, HeapAssumption
  <1> QED
    BY ZenonT(40), <1>1, <1>2, <1>3, <1>6, <1>7, <1>8 DEF Joined

\* A block that begins inside the joined one is one of those it was made of.
LEMMA JoinedTakes ==
    ASSUME IInv, NEW h \in DOMAIN live, NEW start, NEW stop, Joined(h, start, stop),
           NEW a \in Blocks, ~ (a < start \/ a >= stop)
    PROVE  a = start \/ a = h \/ (a = EndOf(h) /\ a \in Range(list) /\ stop = EndOf(a))
  <1>1. /\ start \in Blocks /\ start \in Nat /\ stop \in Nat
        /\ h \in Blocks /\ h \in Nat /\ EndOf(h) \in Nat
        /\ start = h \/ (start \in Range(list) /\ EndOf(start) = h)
        /\ stop = EndOf(h) \/ (EndOf(h) \in Range(list) /\ stop = EndOf(EndOf(h)))
    BY SMTT(30), JoinedLies
  <1>2. a \in Nat /\ EndOf(a) \in Nat /\ EndOf(a) >= a + 2
    BY Basics
  <1>3. a # start /\ a # h => a >= EndOf(h)
    <2> SUFFICES ASSUME a # start, a # h PROVE a >= EndOf(h)
      OBVIOUS
    <2>1. EndOf(a) <= h \/ a >= EndOf(h)
      BY <1>1, Apart
    <2>2. start # h => EndOf(a) <= start \/ a >= h
      BY <1>1, Apart
    <2> QED
      BY SMTT(30), <1>1, <1>2, <2>1, <2>2
  <1>4. EndOf(h) \in Range(list) /\ a # EndOf(h) => EndOf(a) <= EndOf(h) \/ a >= EndOf(EndOf(h))
    <2> SUFFICES ASSUME EndOf(h) \in Range(list), a # EndOf(h)
                 PROVE  EndOf(a) <= EndOf(h) \/ a >= EndOf(EndOf(h))
      OBVIOUS
    <2>1. EndOf(h) \in Blocks
      BY DEF Blocks
    <2> DEFINE n == EndOf(h)
    <2> HIDE DEF n
    <2>2. n \in Blocks /\ a # n
      BY <2>1 DEF n
    <2>3. EndOf(a) <= n \/ a >= EndOf(n)
      BY ZenonT(40), <2>2, Apart
    <2> QED
      BY <2>3 DEF n
  <1> QED
    BY SMTT(30), <1>1, <1>2, <1>3, <1>4

\* The blocks then tile the heap as before.
LEMMA MergedTiles ==
    ASSUME IInv, NEW start \in Blocks, NEW stop \in Blocks \cup {Units}, start + 2 <= stop,
           NEW m, Merged(m, start, stop)
    PROVE  TilesIn(m, MergedBlocks(start, stop))
  <1> DEFINE B == MergedBlocks(start, stop)
  <1>1. \A a \in Blocks : /\ a \in Addresses /\ a \in Nat /\ EndOf(a) \in Nat /\ EndOf(a) >= a + 2
                          /\ EndOf(a) <= Units /\ a < Units
    BY Zenon, BlockEnds
  <1>2. start \in Nat /\ stop \in Nat /\ stop <= Units /\ Units \in Nat
    BY <1>1, HeapAssumption
  <1>3. \A a \in Blocks : a < start \/ a >= stop => m[a].size = hdr[a].size /\ a + m[a].size = EndOf(a)
    BY ZenonT(40), <1>1, Basics DEF Merged
  <1>4. m[start].size = stop - start /\ start + m[start].size = stop
    <2>1. m[start] = Block(stop - start, "free")
      BY DEF Merged
    <2> QED
      BY <1>2, <2>1, BlockFields
  <1>5. 0 \in Blocks
    BY DEF IInv, Tiles
  <1>6. \A a \in Blocks : EndOf(a) \in Blocks \cup {Units}
    BY DEF IInv, Tiles
  <1>7. \A a \in Blocks : a # 0 => \E b \in Blocks : EndOf(b) = a
    BY DEF IInv, Tiles
  <1>8. \E a \in Blocks : EndOf(a) = Units
    BY DEF IInv, Tiles
  <1>9. \A a, b \in Blocks : a < b => EndOf(a) <= b
    BY DEF IInv, Tiles
  <1>10. \A a \in B : a \in Blocks /\ (a < start \/ a = start \/ a >= stop)
    BY <1>1, <1>2 DEF MergedBlocks
  <1>11. \A a \in Blocks : a <= start \/ a >= stop => a \in B
    BY DEF MergedBlocks
  <1>12. start \in B
    BY <1>2, <1>11
  <1> HIDE DEF B
  <1>13. B \subseteq Addresses /\ 0 \in B
    <2>1. \A a \in B : a \in Addresses
      BY ZenonT(40), <1>1, <1>10
    <2>2. 0 <= start
      BY <1>2
    <2> QED
      BY <1>5, <1>11, <2>1, <2>2
  <1>14. ASSUME NEW a \in B
         PROVE  m[a].size >= 2 /\ a + m[a].size \in B \cup {Units}
    <2>1. CASE a = start
      <3>1. stop \in B \cup {Units}
        BY <1>2, <1>11
      <3> QED
        BY SMTT(30), <1>2, <1>4, <2>1, <3>1
    <2>2. CASE a < start
      <3>1. a \in Blocks /\ m[a].size = hdr[a].size /\ a + m[a].size = EndOf(a)
        BY ZenonT(40), <1>3, <1>10, <2>2
      <3>2. EndOf(a) \in Blocks \cup {Units} /\ EndOf(a) <= start
        BY SMTT(30), <1>6, <1>9, <2>2, <3>1
      <3>3. hdr[a].size >= 2
        BY <3>1, Basics
      <3> QED
        BY ZenonT(40), <1>1, <1>11, <3>1, <3>2, <3>3
    <2>3. CASE a >= stop
      <3>1. a \in Blocks /\ m[a].size = hdr[a].size /\ a + m[a].size = EndOf(a)
        BY <1>3, <1>10, <2>3
      <3>2. EndOf(a) \in Blocks \cup {Units} /\ EndOf(a) >= stop
        <4>1. EndOf(a) \in Blocks \cup {Units}
          BY Zenon, <1>6, <3>1
        <4>2. a \in Nat /\ EndOf(a) \in Nat /\ EndOf(a) > a
          BY Zenon, <3>1, BlockEnds
        <4>3. EndOf(a) >= stop
          BY SMTT(30), <1>2, <2>3, <4>2
        <4> QED
          BY <4>1, <4>3
      <3>3. hdr[a].size >= 2
        BY <3>1, Basics
      <3> QED
        BY SMTT(30), <1>11, <3>1, <3>2, <3>3
    <2> QED
      BY ZenonT(40), <1>10, <2>1, <2>2, <2>3
  <1>15. ASSUME NEW a \in B, a # 0
         PROVE  \E b \in B : b + m[b].size = a
    <2>1. PICK b \in Blocks : EndOf(b) = a
      BY <1>7, <1>10, <1>15
    <2>2. a \in Blocks /\ a \in Nat /\ a < Units /\ b \in Nat /\ b < a
      BY <1>1, <1>10, <2>1
    <2>3. CASE a = stop
      BY ZenonT(40), <1>4, <1>12, <2>3
    <2>4. CASE a <= start
      <3>1. b < start
        BY <1>2, <2>2, <2>4
      <3> QED
        BY SMTT(30), <1>2, <1>3, <1>11, <2>1, <2>2, <3>1
    <2>5. CASE a > stop
      <3>1. stop \in Blocks
        BY <1>2, <2>2, <2>5
      <3>2. b < stop => EndOf(b) <= stop
        BY <1>9, <3>1
      <3>3. b >= stop
        BY SMTT(30), <1>2, <2>1, <2>2, <2>5, <3>2
      <3> QED
        BY SMTT(30), <1>3, <1>11, <2>1, <3>3
    <2> QED
      BY SMTT(30), <1>2, <1>10, <2>2, <2>3, <2>4, <2>5
  <1>16. \E a \in B : a + m[a].size = Units
    <2>1. CASE stop = Units
      BY <1>4, <1>12, <2>1
    <2>2. CASE stop # Units
      <3>1. PICK a \in Blocks : EndOf(a) = Units
        BY <1>8
      <3>2. a < stop => EndOf(a) <= stop
        BY <1>9, <2>2
      <3>3. a >= stop
        BY SMTT(30), <1>1, <1>2, <2>2, <3>1, <3>2
      <3> QED
        BY <1>3, <1>11, <3>1, <3>3
    <2> QED
      BY <2>1, <2>2
  <1>17. ASSUME NEW a \in B, NEW b \in B, a < b
         PROVE  a + m[a].size <= b
    <2>1. a \in Blocks /\ b \in Blocks /\ a \in Nat /\ b \in Nat
      BY <1>1, <1>10
    <2>2. CASE a = start
      BY SMTT(30), <1>2, <1>4, <1>10, <1>17, <2>1, <2>2
    <2>3. CASE a # start
      BY ZenonT(40), <1>3, <1>9, <1>10, <1>17, <2>1, <2>3
    <2> QED
      BY <2>2, <2>3
  <1> QED
    BY ZenonT(40), <1>13, <1>14, <1>15, <1>16, <1>17 DEF TilesIn, B

\* The units of the free blocks then are those before and the freed block's.
LEMMA MergedUnits ==
    ASSUME IInv, NEW h \in DOMAIN live, NEW start, NEW stop, Joined(h, start, stop),
           NEW m, Merged(m, start, stop)
    PROVE  /\ FreeUnits \cap (h .. EndOf(h) - 1) = {}
           /\ UnitsOf(m, MergedList(start, stop)) = FreeUnits \cup (h .. EndOf(h) - 1)
  <1> DEFINE n == EndOf(h)
             R == MergedList(start, stop)
             F == UnitsOf(m, R)
  <1>1. /\ start \in Blocks /\ start \in Addresses /\ start \in Nat
        /\ stop \in Nat /\ stop <= Units /\ h \in Blocks /\ h \in Nat /\ n \in Nat /\ n >= h + 2
        /\ start <= h /\ n <= stop /\ h \notin Range(list)
        /\ start = h \/ (start \in Range(list) /\ EndOf(start) = h)
        /\ stop = n \/ (n \in Range(list) /\ stop = EndOf(n))
    BY JoinedLies
  <1>2. Addresses = 0 .. Units - 1 /\ Units \in Nat
    BY SMTT(30), HeapAssumption DEF Addresses
  <1>3. \A a \in Range(list) : /\ a \in Blocks /\ a \in Addresses /\ a \in Nat /\ EndOf(a) \in Nat
                               /\ EndOf(a) = a + hdr[a].size
    BY Basics DEF Blocks
  <1>4. start + m[start].size = stop
    BY <1>1, BlockFields DEF Merged
  <1>5. \A a \in Range(list) : a < start \/ a >= stop => a + m[a].size = EndOf(a)
    BY <1>3 DEF Merged
  <1>6. ASSUME NEW a \in Range(list), ~ (a < start \/ a >= stop)
        PROVE  a = start \/ (a = n /\ stop = EndOf(a))
    BY SMTT(30), <1>1, <1>3, <1>6, JoinedTakes
  <1>7. R = {a \in Range(list) : a < start \/ a >= stop} \cup {start}
    BY DEF MergedList
  <1> HIDE DEF n, R
  <1>8. \A u : u \in F <=> u \in Addresses /\ \E a \in R : a <= u /\ u < a + m[a].size
    BY DEF UnitsOf
  <1>9. \A u : u \in FreeUnits <=> u \in Addresses /\ \E a \in Range(list) : a <= u /\ u < EndOf(a)
    BY DEF FreeUnits
  <1> HIDE DEF F
  <1>10. ASSUME NEW u \in h .. n - 1
         PROVE  u \notin FreeUnits /\ u \in F
    <2>1. u \in Nat /\ u \in Addresses /\ start <= u /\ u < stop
      BY <1>1, <1>2
    <2>2. ASSUME NEW a \in Range(list), a <= u, u < EndOf(a)
          PROVE  FALSE
      <3>1. EndOf(a) <= h \/ a >= n
        BY SMTT(30), <1>1, <1>3, Apart DEF n
      <3> QED
        BY SMTT(30), <1>1, <1>3, <2>1, <2>2, <3>1
    <2>3. u \notin FreeUnits
      BY <1>9, <2>2
    <2>4. start \in R
      BY <1>7
    <2> QED
      BY ZenonT(40), <1>4, <1>8, <2>1, <2>3, <2>4
  <1>11. ASSUME NEW u \in FreeUnits
         PROVE  u \in F
    <2>1. PICK a \in Range(list) : a <= u /\ u < EndOf(a)
      BY <1>9
    <2>2. u \in Addresses /\ u \in Nat
      BY <1>2, <1>9
    <2>3. CASE a < start \/ a >= stop
      BY ZenonT(40), <1>5, <1>7, <1>8, <2>1, <2>2, <2>3
    <2>4. CASE ~ (a < start \/ a >= stop)
      <3>1. start <= u
        BY SMTT(20), <1>1, <1>3, <2>1, <2>2, <2>4
      <3>2. u < stop
        BY SMTT(30), <1>1, <1>3, <1>6, <2>1, <2>2, <2>4
      <3> QED
        BY ZenonT(40), <1>4, <1>7, <1>8, <2>2, <3>1, <3>2
    <2> QED
      BY <2>3, <2>4
  <1>12. ASSUME NEW u \in F
         PROVE  u \in FreeUnits \cup (h .. n - 1)
    <2>1. PICK a \in R : a <= u /\ u < a + m[a].size
      BY <1>8
    <2>2. u \in Addresses /\ u \in Nat
      BY <1>2, <1>8
    <2>3. CASE a \in Range(list) /\ (a < start \/ a >= stop)
      BY ZenonT(40), <1>5, <1>9, <2>1, <2>2, <2>3
    <2>4. CASE a = start
      <3>1. start <= u /\ u < stop
        BY SMTT(30), <1>4, <2>1, <2>4
      <3>2. CASE u < h
        BY SMTT(30), <1>1, <1>9, <2>2, <3>1, <3>2
      <3>3. CASE u >= h /\ u < n
        BY SMTT(30), <1>1, <2>2, <3>3
      <3>4. CASE u >= n
        BY SMTT(30), <1>1, <1>9, <2>2, <3>1, <3>4
      <3> QED
        BY SMTT(30), <1>1, <2>2, <3>2, <3>3, <3>4
    <2> QED
      BY ZenonT(40), <1>7, <2>3, <2>4
  <1>13. FreeUnits \cap (h .. n - 1) = {} /\ F = FreeUnits \cup (h .. n - 1)
    BY <1>10, <1>11, <1>12
  <1> QED
    BY <1>13 DEF F, R, n

\* The step free() takes: the list keeps its first p blocks and those after the
\* q-th, with the freed block between them unless it was joined with the p-th.
FreeStep(h, start, stop, p, mid, q) ==
    /\ Joined(h, start, stop)
    /\ Merged(hdr', start, stop)
    /\ list' = Splice(list, p, mid, q)
    /\ \/ mid = <<>> /\ p > 0 /\ start = list[p]
       \/ mid = <<start>> /\ \A i \in 1 .. p : EndOf(list[i]) < start
    /\ \A i \in p + 1 .. q : list[i] >= start /\ list[i] < stop
    /\ \A i \in q + 1 .. Len(list) : stop < list[i]
    /\ live' = [a \in DOMAIN live \ {h} |-> live[a]]
    /\ free_bytes' = free_bytes + (EndOf(h) - h)

\* free() keeps the invariant, once it is clear what the block is joined with.
LEMMA MergedKeeps ==
    ASSUME IInv, NEW h \in DOMAIN live, NEW start, NEW stop,
           NEW p \in 0 .. Len(list), NEW q \in p .. Len(list), NEW mid,
           FreeStep(h, start, stop, p, mid, q)
    PROVE  IInv'
  <1> DEFINE B == MergedBlocks(start, stop)
             R == MergedList(start, stop)
  <1>1. /\ start \in Blocks /\ start \in Addresses /\ start \in Nat
        /\ stop \in Nat /\ stop \in Blocks \cup {Units} /\ stop <= Units
        /\ h \in Blocks /\ h \in Nat /\ EndOf(h) \in Nat /\ EndOf(h) >= h + 2
        /\ start <= h /\ EndOf(h) <= stop /\ h \notin Range(list)
        /\ start = h \/ (start \in Range(list) /\ EndOf(start) = h)
    BY JoinedLies DEF FreeStep
  <1>2. Joined(h, start, stop) /\ Merged(hdr', start, stop)
    BY DEF FreeStep
  <1>3. start + 2 <= stop
    BY <1>1
  <1>4. Len(list) \in Nat /\ DOMAIN list = 1 .. Len(list) /\ list \in Seq(Addresses)
    BY Basics DEF IInv, Typed
  <1>5. \A i \in 1 .. Len(list) : /\ list[i] \in Nat /\ EndOf(list[i]) \in Nat
                                  /\ EndOf(list[i]) > list[i] /\ list[i] \in Range(list)
    BY ZenonT(40), Basics, BlockEnds DEF Range
  <1>6. \A i, j \in 1 .. Len(list) : i < j => EndOf(list[i]) < list[j]
    BY <1>4 DEF IInv, Ordered
  <1>7. \/ mid = <<>> /\ p > 0 /\ start = list[p]
        \/ mid = <<start>> /\ \A i \in 1 .. p : EndOf(list[i]) < start
    BY DEF FreeStep
  <1>8. mid \in Seq(Addresses)
    <2>1. start \in Addresses
      BY <1>1
    <2>2. <<start>> \in Seq(Addresses) /\ <<>> \in Seq(Addresses)
      BY <2>1
    <2> QED
      BY ZenonT(40), <1>7, <2>2
  <1>9. list' = Splice(list, p, mid, q)
    BY DEF FreeStep
  <1>10. list' \in Seq(Addresses) /\ IsSplice(list', list, p, mid, q)
    BY SMTT(30), <1>4, <1>8, <1>9, Spliced
  <1>11. /\ \A i \in p + 1 .. q : list[i] >= start /\ list[i] < stop
         /\ \A i \in q + 1 .. Len(list) : stop < list[i]
    BY DEF FreeStep
  <1>12. live' = [a \in DOMAIN live \ {h} |-> live[a]]
    BY DEF FreeStep
  <1>13. \A i \in 1 .. p : list[i] < start \/ (i = p /\ mid = <<>> /\ list[i] = start)
    <2> SUFFICES ASSUME NEW i \in 1 .. p
                 PROVE  list[i] < start \/ (i = p /\ mid = <<>> /\ list[i] = start)
      OBVIOUS
    <2>1. i \in 1 .. Len(list)
      BY <1>4
    <2>2. CASE mid = <<>> /\ p > 0 /\ start = list[p]
      <3>1. p \in 1 .. Len(list)
        BY <1>4, <2>2
      <3>2. i < p => EndOf(list[i]) < list[p]
        BY ZenonT(40), <1>6, <2>1, <3>1
      <3> QED
        BY SMTT(30), <1>5, <2>1, <2>2, <3>1, <3>2
    <2>3. CASE \A j \in 1 .. p : EndOf(list[j]) < start
      BY SMTT(30), <1>1, <1>5, <2>1, <2>3
    <2> QED
      BY <1>7, <2>2, <2>3
  <1>14. Range(mid) = IF mid = <<>> THEN {} ELSE {start}
    BY <1>7 DEF Range
  <1>15. Range(list') = R
    <2>1. Range(list') = {list[i] : i \in 1 .. p} \cup Range(mid) \cup {list[i] : i \in q + 1 .. Len(list)}
      <3>1. Range(list') = Kept(list, p, mid, q)
        BY SMTT(30), <1>4, <1>8, <1>10, SplicedRange
      <3> QED
        BY ZenonT(40), <3>1 DEF Kept
    <2>2. ASSUME NEW a \in Range(list')
          PROVE  a \in R
      <3>1. CASE \E i \in 1 .. p : a = list[i]
        <4>1. PICK i \in 1 .. p : a = list[i]
          BY <3>1
        <4>2. i \in 1 .. Len(list)
          BY <1>4
        <4> QED
          BY <1>5, <1>13, <4>1, <4>2 DEF MergedList
      <3>2. CASE a \in Range(mid)
        BY <1>14, <3>2 DEF MergedList
      <3>3. CASE \E i \in q + 1 .. Len(list) : a = list[i]
        <4>1. PICK i \in q + 1 .. Len(list) : a = list[i]
          BY <3>3
        <4>2. i \in 1 .. Len(list)
          BY <1>4
        <4> QED
          BY SMTT(30), <1>1, <1>5, <1>11, <4>1, <4>2 DEF MergedList
      <3> QED
        BY ZenonT(40), <2>1, <3>1, <3>2, <3>3
    <2>3. ASSUME NEW a \in R
          PROVE  a \in Range(list')
      <3>1. CASE a = start
        <4>1. CASE mid = <<>>
          <5>1. p \in 1 .. p /\ start = list[p]
            BY <1>4, <1>7, <4>1
          <5> QED
            BY ZenonT(40), <2>1, <3>1, <5>1
        <4>2. CASE mid # <<>>
          BY ZenonT(40), <1>14, <2>1, <3>1, <4>2
        <4> QED
          BY Zenon, <4>1, <4>2
      <3>2. CASE a \in Range(list) /\ (a < start \/ a >= stop)
        <4>1. PICK i \in 1 .. Len(list) : a = list[i]
          BY <1>4, <3>2 DEF Range
        <4>2. a \in Nat
          BY <1>5, <4>1
        <4>3. i \notin p + 1 .. q
          BY SMTT(30), <1>1, <1>11, <3>2, <4>1, <4>2
        <4>4. i \in 1 .. p \/ i \in q + 1 .. Len(list)
          BY <1>4, <4>3
        <4> QED
          BY <2>1, <4>1, <4>4
      <3> QED
        BY <3>1, <3>2 DEF MergedList
    <2> QED
      BY ZenonT(40), <2>2, <2>3
  <1>16. DOMAIN live' = DOMAIN live \ {h}
    BY <1>12
  <1>17. ASSUME NEW b \in DOMAIN live, b # h
         PROVE  b \in Blocks /\ (b < start \/ b >= stop)
    <2>1. b \in Blocks /\ b \notin Range(list)
      BY Basics DEF Blocks
    <2>2. ASSUME ~ (b < start \/ b >= stop)
          PROVE  b = start \/ b = h \/ b \in Range(list)
      BY <1>2, <2>1, <2>2, JoinedTakes
    <2>3. start = h \/ start \in Range(list)
      BY <1>1
    <2> QED
      BY ZenonT(40), <1>17, <2>1, <2>2, <2>3
  <1>18. Blocks' = B
    <2>1. Blocks' = (DOMAIN live \ {h}) \cup R
      BY SMTT(30), <1>15, <1>16 DEF Blocks
    <2>2. \A a \in Blocks : a \in Nat
      BY Basics
    <2>3. Blocks = DOMAIN live \cup Range(list)
      BY DEF Blocks
    <2>4. \A a : a \in B <=> a \in Blocks /\ (a <= start \/ a >= stop)
      BY DEF MergedBlocks
    <2>5. \A a : a \in R <=> a = start \/ (a \in Range(list) /\ (a < start \/ a >= stop))
      BY DEF MergedList
    <2> HIDE DEF B, R
    <2>6. ASSUME NEW a \in Blocks'
          PROVE  a \in B
      <3>1. CASE a \in DOMAIN live /\ a # h
        <4>1. a \in Blocks /\ (a < start \/ a >= stop)
          BY <1>17, <3>1
        <4>2. a \in Nat
          BY <2>2, <4>1
        <4> QED
          BY <1>1, <2>4, <4>1, <4>2
      <3>2. CASE a \in R
        <4>1. a \in Blocks /\ (a = start \/ a < start \/ a >= stop)
          BY SMTT(30), <1>1, <2>3, <2>5, <3>2
        <4>2. a \in Nat
          BY <2>2, <4>1
        <4> QED
          BY SMTT(30), <1>1, <2>4, <4>1, <4>2
      <3> QED
        BY <2>1, <3>1, <3>2
    <2>7. ASSUME NEW a \in B
          PROVE  a \in Blocks'
      <3>1. a \in Blocks /\ (a <= start \/ a >= stop)
        BY <2>4
      <3>2. a \in Nat
        BY <2>2, <3>1
      <3>3. a = start \/ a < start \/ a >= stop
        BY <1>1, <3>1, <3>2
      <3>4. CASE a = start
        BY <2>1, <2>5, <3>4
      <3>5. CASE a # start
        <4>1. a # h
          BY SMTT(30), <1>1, <3>2, <3>3, <3>5
        <4> QED
          BY ZenonT(40), <2>1, <2>3, <2>5, <3>1, <3>3, <3>5, <4>1
      <3> QED
        BY <3>4, <3>5
    <2> QED
      BY ZenonT(40), <2>6, <2>7
  <1>19. TilesIn(hdr', B)
    BY <1>1, <1>2, <1>3, MergedTiles
  <1> HIDE DEF B
  <1>20. Tiles'
    <2>1. TilesIn(hdr', Blocks')
      BY Zenon, <1>18, <1>19
    <2> QED
      BY Zenon, <2>1 DEF Tiles, TilesIn, EndOf, HeapMin
  <1>21. \A a \in Blocks : a < start \/ a >= stop => hdr'[a] = hdr[a] /\ a + hdr'[a].size = EndOf(a)
    BY ZenonT(40), <1>2, Basics DEF Merged
  <1>22. hdr'[start] = Block(stop - start, "free") /\ start + hdr'[start].size = stop
    <2>1. hdr'[start] = Block(stop - start, "free")
      BY <1>2 DEF Merged
    <2> QED
      BY <1>1, <2>1, BlockFields
  <1>23. Typed'
    <2>1. hdr' \in [Addresses -> [size : Nat, tag : {"data", "used", "free"}]]
      BY <1>2 DEF Merged
    <2>2. DOMAIN live' \subseteq Addresses
      BY <1>16 DEF IInv, Typed
    <2>3. live' = [b \in DOMAIN live' |-> live'[b]]
      BY Zenon, <1>12, <1>16
    <2>4. \A b \in DOMAIN live' : live'[b] \in Nat
      <3>1. \A b \in DOMAIN live : live[b] \in Nat
        BY DEF IInv, Typed
      <3> QED
        BY <1>12, <1>16, <3>1
    <2> QED
      BY ZenonT(40), <1>10, <2>1, <2>2, <2>3, <2>4 DEF Typed, Addresses
  <1>24. Headers'
    <2>1. ASSUME NEW b \in DOMAIN live'
          PROVE  hdr'[b] = Block(live'[b] - b, "used")
      <3>1. b \in DOMAIN live /\ b # h /\ live'[b] = live[b]
        BY <1>12, <1>16
      <3>2. b \in Blocks /\ (b < start \/ b >= stop)
        BY <1>17, <3>1
      <3>3. hdr[b] = Block(live[b] - b, "used")
        BY Zenon, <3>1 DEF IInv, Headers
      <3> QED
        BY ZenonT(40), <1>21, <3>1, <3>2, <3>3
    <2>2. ASSUME NEW a \in Range(list')
          PROVE  hdr'[a].tag = "free"
      <3>1. CASE a \in Range(list) /\ (a < start \/ a >= stop)
        BY SMTT(30), <1>21, <3>1 DEF IInv, Headers, Blocks
      <3>2. CASE a = start
        BY <1>22, <3>2, BlockFields
      <3> QED
        BY ZenonT(40), <1>15, <3>1, <3>2 DEF MergedList
    <2> QED
      BY Zenon, <2>1, <2>2 DEF Headers, Block
  <1>25. Ordered'
    <2>1. \A i \in 1 .. Len(list) : list[i] \in Blocks
      BY Basics
    <2>2. \A i \in 1 .. p : i \in 1 .. Len(list)
      BY <1>4
    <2>3. \A i \in q + 1 .. Len(list) : i \in 1 .. Len(list) /\ stop < list[i]
      BY <1>4, <1>11
    <2>4. ASSUME NEW i \in 1 .. p
          PROVE  \/ list[i] + hdr'[list[i]].size = EndOf(list[i])
                 \/ i = p /\ list[i] + hdr'[list[i]].size = stop
      BY ZenonT(40), <1>13, <1>21, <1>22, <2>1, <2>2
    <2>5. ASSUME NEW i \in q + 1 .. Len(list)
          PROVE  list[i] + hdr'[list[i]].size = EndOf(list[i])
      <3>1. list[i] >= stop /\ list[i] \in Blocks
        BY <1>1, <1>5, <2>1, <2>3
      <3> QED
        BY <1>21, <3>1
    <2>6. ASSUME NEW i \in (1 .. p) \cup (q + 1 .. Len(list)),
                 NEW j \in (1 .. p) \cup (q + 1 .. Len(list)), i < j
          PROVE  list[i] + hdr'[list[i]].size < list[j]
      <3>1. i \in 1 .. Len(list) /\ j \in 1 .. Len(list)
        BY ZenonT(40), <2>2, <2>3
      <3>2. EndOf(list[i]) < list[j]
        BY ZenonT(40), <1>6, <2>6, <3>1
      <3>3. CASE list[i] + hdr'[list[i]].size = EndOf(list[i])
        BY <3>2, <3>3
      <3>4. CASE i = p /\ list[i] + hdr'[list[i]].size = stop
        <4>1. j \in q + 1 .. Len(list)
          BY SMTT(30), <1>4, <2>6, <3>4
        <4> QED
          BY ZenonT(40), <2>3, <3>4, <4>1
      <3> QED
        BY ZenonT(40), <2>4, <2>5, <3>3, <3>4
    <2>7. Len(mid) \in Nat /\ \A i \in 1 .. Len(mid) : i = 1 /\ mid[i] = start /\ mid = <<start>>
      <3>1. CASE mid = <<>>
        BY <3>1
      <3>2. CASE mid = <<start>>
        BY <3>2
      <3> QED
        BY <1>7, <3>1, <3>2
    <2>8. InOrder(hdr', mid)
      BY <2>7 DEF InOrder
    <2>9. ASSUME NEW i \in 1 .. p, NEW j \in 1 .. Len(mid)
          PROVE  list[i] + hdr'[list[i]].size < mid[j]
      <3>1. mid = <<start>> /\ mid[j] = start
        BY <2>7
      <3>2. mid # <<>>
        BY <3>1
      <3>3. EndOf(list[i]) < start /\ list[i] < start
        BY ZenonT(40), <1>7, <1>13, <3>2
      <3>4. list[i] + hdr'[list[i]].size = EndOf(list[i])
        BY ZenonT(40), <1>21, <2>1, <2>2, <3>3
      <3> QED
        BY SMTT(30), <3>1, <3>3, <3>4
    <2>10. ASSUME NEW i \in 1 .. Len(mid), NEW j \in q + 1 .. Len(list)
           PROVE  mid[i] + hdr'[mid[i]].size < list[j]
      <3>1. mid[i] = start
        BY SMTT(20), <2>7
      <3> QED
        BY <1>22, <2>3, <3>1
    <2>11. InOrder(hdr', list')
      BY ZenonT(40), <1>4, <1>8, <1>10, <2>6, <2>8, <2>9, <2>10, SplicedOrdered
    <2>12. DOMAIN list' = 1 .. Len(list')
      BY <1>10
    <2> QED
      BY ZenonT(40), <2>11, <2>12 DEF Ordered, InOrder, EndOf
  <1>26. Counted'
    <2>1. /\ FreeUnits \cap (h .. EndOf(h) - 1) = {}
          /\ UnitsOf(hdr', R) = FreeUnits \cup (h .. EndOf(h) - 1)
      BY <1>2, MergedUnits
    <2> HIDE DEF R
    <2>2. FreeUnits' = UnitsOf(hdr', R)
      BY ZenonT(40), <1>15 DEF FreeUnits, UnitsOf, EndOf, Addresses
    <2> DEFINE n == EndOf(h)
    <2>3. n \in Nat /\ h \in Nat /\ h < n /\ FreeUnits \cap (h .. n - 1) = {}
      BY <1>1, <2>1
    <2> HIDE DEF n
    <2>4. Cardinality(FreeUnits \cup (h .. n - 1)) = Cardinality(FreeUnits) + (n - h)
      BY ZenonT(40), <2>3, FreeUnitsFinite, StretchAdded
    <2>5. free_bytes' = free_bytes + (n - h)
      BY DEF FreeStep, n
    <2>6. free_bytes = Cardinality(FreeUnits)
      BY DEF IInv, Counted
    <2>7. free_bytes' = Cardinality(FreeUnits')
      BY ZenonT(40), <2>1, <2>2, <2>4, <2>5, <2>6 DEF n
    <2> QED
      BY <2>7 DEF Counted
  <1> QED
    BY ZenonT(40), <1>20, <1>23, <1>24, <1>25, <1>26 DEF IInv

\* free() takes a block only if it is handed out, and all that are: the walk
\* over the headers visits the blocks, and the headers say which are used.
LEMMA AllocatedIsLive ==
    ASSUME IInv, NEW h \in Addresses
    PROVE  AllocatedBlock(h) <=> h \in DOMAIN live
  <1>1. Visited = Blocks
    BY VisitedIsBlocks DEF IInv
  <1>2. \A b \in DOMAIN live : hdr[b].tag = "used"
    BY BlockFields DEF IInv, Headers
  <1>3. \A a \in Range(list) : hdr[a].tag = "free"
    BY DEF IInv, Headers
  <1> QED
    BY <1>1, <1>2, <1>3 DEF AllocatedBlock, Blocks

\* Where the walk along the list stops: after the blocks below h.
LEMMA WalkStops ==
    ASSUME IInv, NEW h \in DOMAIN live,
           NEW p, p = Max({0} \cup {i \in DOMAIN list : list[i] < h})
    PROVE  /\ p \in 0 .. Len(list)
           /\ \A i \in 1 .. p : EndOf(list[i]) <= h
           /\ \A i \in p + 1 .. Len(list) : list[i] >= EndOf(h)
  <1> DEFINE S == {0} \cup {i \in DOMAIN list : list[i] < h}
             T == {n \in Nat : n <= Len(list) /\ Len(list) - n \in S}
  <1>1. Len(list) \in Nat /\ DOMAIN list = 1 .. Len(list) /\ h \in Nat /\ h \in Blocks
    BY Basics DEF Blocks
  <1>2. S \subseteq 0 .. Len(list) /\ 0 \in S
    BY <1>1
  <1>3. T \in SUBSET Nat /\ T # {}
    <2>1. Len(list) \in T
      BY <1>1, <1>2
    <2> QED
      BY <2>1
  <1> HIDE DEF T
  <1>4. PICK n \in T : \A y \in T : n <= y
    BY <1>3, LeastAddress
  <1>5. n \in Nat /\ n <= Len(list) /\ Len(list) - n \in S
    BY <1>4 DEF T
  <1>6. \A y \in S : Len(list) - y \in T
    <2> HIDE DEF S
    <2> SUFFICES ASSUME NEW y \in S PROVE Len(list) - y \in T
      OBVIOUS
    <2>1. y \in Nat /\ y <= Len(list)
      BY <1>1, <1>2
    <2>2. Len(list) - y \in Nat /\ Len(list) - y <= Len(list) /\ Len(list) - (Len(list) - y) = y
      BY <1>1, <2>1
    <2> QED
      BY <2>2 DEF T
  <1> HIDE DEF S
  <1>7. \A y \in S : Len(list) - n >= y
    <2> SUFFICES ASSUME NEW y \in S PROVE Len(list) - n >= y
      OBVIOUS
    <2>1. n <= Len(list) - y
      BY <1>4, <1>6
    <2>2. y \in Nat
      BY <1>2
    <2> QED
      BY SMTT(30), <1>1, <1>5, <2>1, <2>2
  <1>8. \E x \in S : \A y \in S : x >= y
    BY <1>5, <1>7
  <1>9. p \in S /\ \A y \in S : p >= y
    <2>1. p = Max(S)
      BY DEF S
    <2> QED
      BY Zenon, <1>8, <2>1 DEF Max
  <1>10. p \in 0 .. Len(list)
    BY ZenonT(40), <1>2, <1>9
  <1>11. \A i \in 1 .. Len(list) : /\ list[i] \in Nat /\ list[i] \in Blocks
                                   /\ EndOf(list[i]) \in Nat /\ EndOf(list[i]) > list[i]
                                   /\ list[i] # h
    <2> SUFFICES ASSUME NEW i \in 1 .. Len(list)
                 PROVE  /\ list[i] \in Nat /\ list[i] \in Blocks
                        /\ EndOf(list[i]) \in Nat /\ EndOf(list[i]) > list[i]
                        /\ list[i] # h
      OBVIOUS
    <2>1. list[i] \in Blocks /\ list[i] \in Nat /\ EndOf(list[i]) \in Nat /\ EndOf(list[i]) > list[i]
      BY Basics
    <2>2. list[i] \in Range(list) /\ DOMAIN live \cap Range(list) = {}
      BY ZenonT(40), <1>1, Basics DEF Range
    <2> QED
      BY <2>1, <2>2
  <1>12. EndOf(h) \in Nat /\ EndOf(h) > h
    BY SMTT(20), <1>1, Basics
  <1>13. ASSUME NEW i \in 1 .. Len(list)
         PROVE  EndOf(list[i]) <= h \/ list[i] >= EndOf(h)
    <2>1. h \in Blocks /\ list[i] \in Blocks /\ list[i] # h
      BY ZenonT(40), <1>1, <1>11
    <2> QED
      BY <2>1, Apart
  <1>14. ASSUME NEW i \in 1 .. p
         PROVE  EndOf(list[i]) <= h
    <2>1. i \in 1 .. Len(list) /\ p \in 1 .. Len(list)
      BY <1>1, <1>10
    <2>2. list[p] < h
      <3>1. p # 0
        BY <2>1
      <3> QED
        BY <1>9, <3>1 DEF S
    <2>3. i < p => EndOf(list[i]) < list[p]
      BY <1>1, <2>1 DEF IInv, Ordered
    <2>4. i = p \/ i < p
      BY <1>1, <1>10
    <2>5. list[i] < h
      BY SMTT(20), <1>1, <1>11, <2>1, <2>2, <2>3, <2>4
    <2> QED
      BY SMTT(30), <1>1, <1>11, <1>12, <1>13, <2>1, <2>5
  <1>15. ASSUME NEW i \in p + 1 .. Len(list)
         PROVE  list[i] >= EndOf(h)
    <2>1. i \in 1 .. Len(list) /\ ~ (p >= i)
      BY <1>1, <1>10
    <2>2. ~ (list[i] < h)
      BY <1>1, <1>9, <2>1 DEF S
    <2> QED
      BY SMTT(30), <1>1, <1>11, <1>13, <2>1, <2>2
  <1> QED
    BY ZenonT(40), <1>10, <1>14, <1>15

\* free() keeps the invariant.
LEMMA FreeKeeps ==
    ASSUME IInv, NEW h \in Addresses, Free(h)
    PROVE  IInv'
  <1> DEFINE p == Max({0} \cup {i \in DOMAIN list : list[i] < h})
             below == MergesBelow(p, h)
             joins_next == p < Len(list) /\ EndOf(h) = list[p + 1]
             size == hdr[h].size + IF joins_next THEN hdr[list[p + 1]].size ELSE 0
             New(a) == CASE below /\ a = list[p] -> Block(hdr[a].size + size, "free")
                         [] a = h -> IF below THEN Data ELSE Block(size, "free")
                         [] joins_next /\ a = list[p + 1] -> Data
                         [] OTHER -> hdr[a]
             mid == IF below THEN <<>> ELSE <<h>>
             q == IF joins_next THEN p + 1 ELSE p
             start == IF below THEN list[p] ELSE h
             stop == IF joins_next THEN EndOf(list[p + 1]) ELSE EndOf(h)
  <1>1. /\ AllocatedBlock(h)
        /\ free_bytes' = free_bytes + Regained(h)
        /\ list' = SubSeq(list, 1, p) \o mid
                   \o SubSeq(list, IF joins_next THEN p + 2 ELSE p + 1, Len(list))
        /\ hdr' = [a \in Addresses |-> New(a)]
        /\ live' = [a \in DOMAIN live \ {h} |-> live[a]]
    BY ZenonT(40) DEF Free
  <1>2. h \in DOMAIN live
    BY <1>1, AllocatedIsLive
  <1>3. p = Max({0} \cup {i \in DOMAIN list : list[i] < h})
    OBVIOUS
  <1>4. below <=> p > 0 /\ EndOf(list[p]) = h
    BY DEF MergesBelow
  <1> HIDE DEF p, below
  <1>5. /\ p \in 0 .. Len(list)
        /\ \A i \in 1 .. p : EndOf(list[i]) <= h
        /\ \A i \in p + 1 .. Len(list) : list[i] >= EndOf(h)
    BY ZenonT(40), <1>2, <1>3, WalkStops
  <1>6. Len(list) \in Nat /\ list \in Seq(Addresses) /\ h \in Blocks /\ h \in Nat
    BY ZenonT(40), <1>2, Basics DEF IInv, Typed, Blocks
  <1>7. \A i \in 1 .. Len(list) : /\ list[i] \in Nat /\ list[i] \in Range(list) /\ list[i] \in Addresses
                                  /\ EndOf(list[i]) = list[i] + hdr[list[i]].size
                                  /\ hdr[list[i]].size \in Nat /\ hdr[list[i]].size >= 2
    BY Basics DEF Range
  <1>8. EndOf(h) = h + hdr[h].size /\ hdr[h].size \in Nat /\ hdr[h].size >= 2
    BY ZenonT(40), <1>6, Basics
  <1>9. \A i, j \in 1 .. Len(list) : i < j => EndOf(list[i]) < list[j]
    BY Basics DEF IInv, Ordered
  <1>10. below => p \in 1 .. Len(list) /\ EndOf(list[p]) = h
    BY SMTT(30), <1>4, <1>5, <1>6
  <1>11. joins_next => p + 1 \in 1 .. Len(list) /\ EndOf(h) = list[p + 1]
    BY SMTT(30), <1>5, <1>6
  <1> HIDE DEF joins_next
  <1>12. start \in Nat /\ stop \in Nat /\ start <= h /\ EndOf(h) <= stop /\ start \in Addresses
    <2>1. start \in Nat /\ start <= h /\ start \in Addresses
      <3>1. CASE below
        <4>1. list[p] \in Nat /\ list[p] \in Addresses /\ hdr[list[p]].size \in Nat
              /\ h = list[p] + hdr[list[p]].size
          BY SMTT(30), <1>7, <1>10, <3>1
        <4> QED
          BY SMTT(20), <1>6, <3>1, <4>1
      <3>2. CASE ~ below
        BY <1>6, <3>2
      <3> QED
        BY ZenonT(40), <3>1, <3>2
    <2>2. stop \in Nat /\ EndOf(h) <= stop
      <3>1. CASE joins_next
        <4>1. hdr[list[p + 1]].size \in Nat /\ EndOf(list[p + 1]) = EndOf(h) + hdr[list[p + 1]].size
          BY ZenonT(40), <1>7, <1>11, <3>1
        <4> QED
          BY SMTT(30), <1>6, <1>8, <3>1, <4>1
      <3>2. CASE ~ joins_next
        BY SMTT(20), <1>6, <1>8, <3>2
      <3> QED
        BY ZenonT(40), <3>1, <3>2
    <2> QED
      BY <2>1, <2>2
  <1>13. size \in Nat /\ stop = h + size
    <2>1. CASE joins_next
      <3>1. hdr[list[p + 1]].size \in Nat /\ EndOf(list[p + 1]) = EndOf(h) + hdr[list[p + 1]].size
        BY SMTT(30), <1>7, <1>11, <2>1
      <3> QED
        BY SMTT(20), <1>6, <1>8, <2>1, <3>1
    <2>2. CASE ~ joins_next
      BY SMTT(30), <1>6, <1>8, <2>2
    <2> QED
      BY ZenonT(40), <2>1, <2>2
  <1>14. below => hdr[start].size + size = stop - start
    BY SMTT(20), <1>7, <1>10, <1>13, <1>6
  <1>15. ~ below => size = stop - start
    BY <1>6, <1>13
  <1>16. Joined(h, start, stop)
    <2>1. start = h \/ (start \in Range(list) /\ EndOf(start) = h)
      BY ZenonT(40), <1>7, <1>10
    <2>2. stop = EndOf(h) \/ (EndOf(h) \in Range(list) /\ stop = EndOf(EndOf(h)))
      BY SMTT(30), <1>7, <1>11
    <2> QED
      BY ZenonT(40), <2>1, <2>2 DEF Joined
  <1>17. joins_next => list[p + 1] > h /\ list[p + 1] < stop
    BY SMTT(20), <1>6, <1>7, <1>8, <1>11
  <1>18. hdr' = [a \in Addresses |-> New(a)]
    BY Zenon, <1>1
  <1> HIDE DEF size
  <1>19. New(start) = Block(stop - start, "free")
    <2>1. CASE below
      <3>1. start = list[p] /\ start # h /\ (joins_next => start # list[p + 1])
        BY SMTT(30), <1>6, <1>7, <1>8, <1>10, <1>17, <2>1
      <3>2. New(start) = Block(hdr[start].size + size, "free")
        BY <2>1, <3>1
      <3> QED
        BY ZenonT(40), <1>14, <2>1, <3>2
    <2>2. CASE ~ below
      <3>1. start = h /\ (joins_next => h # list[p + 1])
        BY SMTT(30), <1>6, <1>7, <1>11, <1>17, <2>2
      <3>2. New(start) = Block(size, "free")
        BY <2>2, <3>1
      <3> QED
        BY ZenonT(40), <1>15, <2>2, <3>2
    <2> QED
      BY <2>1, <2>2
  <1>20. ASSUME NEW a \in Addresses, a < start \/ a >= stop
         PROVE  New(a) = hdr[a]
    <2>1. a \in Nat
      BY ZenonT(40), Basics
    <2>2. a # h /\ ~ (below /\ a = list[p])
      BY SMTT(20), <1>6, <1>8, <1>12, <1>20, <2>1
    <2>3. ~ (joins_next /\ a = list[p + 1])
      BY SMTT(20), <1>6, <1>7, <1>11, <1>12, <1>17, <1>20, <2>1
    <2> QED
      BY <2>2, <2>3
  <1>21. ASSUME NEW a \in Addresses
         PROVE  New(a) \in [size : Nat, tag : {"data", "used", "free"}]
    <2> DEFINE H == [size : Nat, tag : {"data", "used", "free"}]
    <2>1. \A x \in Nat : Block(x, "free") \in H /\ Data \in H
      BY DEF Block, Data
    <2>2. hdr[a] \in H /\ hdr[a].size \in Nat
      BY DEF IInv, Typed
    <2> HIDE DEF H
    <2>3. hdr[a].size + size \in Nat
      BY <1>13, <2>2
    <2>4. Block(hdr[a].size + size, "free") \in H /\ Block(size, "free") \in H /\ Data \in H
      BY ZenonT(40), <1>13, <2>1, <2>3
    <2>5. New(a) \in H
      BY <2>2, <2>4
    <2> QED
      BY <2>5 DEF H
  <1> HIDE DEF New
  <1>22. Merged(hdr', start, stop)
    <2> HIDE DEF start, stop
    <2>1. hdr' \in [Addresses -> [size : Nat, tag : {"data", "used", "free"}]]
      BY <1>18, <1>21
    <2>2. hdr'[start] = Block(stop - start, "free")
      BY ZenonT(40), <1>12, <1>18, <1>19
    <2>3. \A a \in Addresses : a < start \/ a >= stop => hdr'[a] = hdr[a]
      BY ZenonT(40), <1>18, <1>20
    <2> QED
      BY ZenonT(40), <2>1, <2>2, <2>3 DEF Merged
  <1>23. q \in p .. Len(list)
    BY SMTT(30), <1>5, <1>6, <1>11
  <1>24. list' = Splice(list, p, mid, q)
    <2>1. q + 1 = IF joins_next THEN p + 2 ELSE p + 1
      BY SMTT(30), <1>5, <1>6
    <2> HIDE DEF q, mid
    <2> QED
      BY ZenonT(40), <1>1, <2>1 DEF Splice
  <1>25. \/ mid = <<>> /\ p > 0 /\ start = list[p]
         \/ mid = <<start>> /\ \A i \in 1 .. p : EndOf(list[i]) < start
    <2>1. CASE below
      BY SMTT(30), <1>4, <2>1
    <2>2. CASE ~ below
      <3>1. mid = <<start>> /\ start = h
        BY <2>2
      <3>2. ASSUME NEW i \in 1 .. p
            PROVE  EndOf(list[i]) < h
        <4>1. i \in 1 .. Len(list) /\ p \in 1 .. Len(list) /\ p > 0
          BY <1>5, <1>6
        <4>2. EndOf(list[p]) # h
          BY ZenonT(40), <1>4, <2>2, <4>1
        <4>3. EndOf(list[i]) <= h /\ EndOf(list[p]) <= h
          BY <1>5, <1>6
        <4>4. i < p => EndOf(list[i]) < list[p]
          BY ZenonT(40), <1>9, <4>1
        <4>5. i = p \/ i < p
          BY <1>5, <1>6
        <4>6. EndOf(list[i]) \in Nat /\ EndOf(list[p]) \in Nat /\ list[p] \in Nat /\ list[p] <= EndOf(list[p])
          <5>1. \A j \in 1 .. Len(list) : list[j] \in Nat /\ EndOf(list[j]) \in Nat /\ list[j] <= EndOf(list[j])
            BY SMTT(20), <1>7
          <5> QED
            BY ZenonT(40), <4>1, <5>1
        <4> QED
          BY SMTT(30), <1>6, <4>2, <4>3, <4>4, <4>5, <4>6
      <3> QED
        BY <3>1, <3>2
    <2> QED
      BY SMTT(30), <2>1, <2>2
  <1>26. \A i \in p + 1 .. q : list[i] >= start /\ list[i] < stop
    <2> SUFFICES ASSUME NEW i \in p + 1 .. q PROVE list[i] >= start /\ list[i] < stop
      OBVIOUS
    <2>1. joins_next /\ i = p + 1
      BY <1>5, <1>6
    <2> QED
      BY <1>6, <1>7, <1>11, <1>12, <1>17, <2>1
  <1>27. \A i \in q + 1 .. Len(list) : stop < list[i]
    <2> SUFFICES ASSUME NEW i \in q + 1 .. Len(list) PROVE stop < list[i]
      OBVIOUS
    <2>1. i \in 1 .. Len(list) /\ i \in p + 1 .. Len(list)
      BY <1>5, <1>6, <1>23
    <2>2. CASE joins_next
      <3>1. stop = EndOf(list[p + 1]) /\ p + 1 < i
        BY SMTT(30), <1>5, <1>6, <2>2
      <3> QED
        BY ZenonT(40), <1>9, <1>11, <2>1, <2>2, <3>1
    <2>3. CASE ~ joins_next
      <3>1. stop = EndOf(h) /\ p < Len(list) /\ p + 1 \in 1 .. Len(list) /\ p + 1 \in p + 1 .. Len(list)
        BY SMTT(30), <1>5, <1>6, <2>1, <2>3
      <3>2. EndOf(h) # list[p + 1]
        BY ZenonT(40), <2>3, <3>1 DEF joins_next
      <3>3. list[p + 1] >= EndOf(h)
        BY SMTT(30), <1>5, <3>1
      <3>4. p + 1 < i => EndOf(list[p + 1]) < list[i]
        BY SMTT(30), <1>9, <2>1, <3>1
      <3>5. p + 1 = i \/ p + 1 < i
        BY SMTT(30), <1>5, <1>6, <2>1
      <3>6. /\ list[i] \in Nat /\ list[p + 1] \in Nat /\ EndOf(list[p + 1]) \in Nat
            /\ list[p + 1] <= EndOf(list[p + 1])
        BY SMTT(20), <1>7, <2>1, <3>1
      <3>7. EndOf(h) \in Nat
        BY <1>6, <1>8
      <3> QED
        BY SMTT(20), <3>1, <3>2, <3>3, <3>4, <3>5, <3>6, <3>7
    <2> QED
      BY ZenonT(40), <2>2, <2>3
  <1>28. free_bytes' = free_bytes + (EndOf(h) - h)
    BY <1>1, <1>6, <1>8 DEF Regained
  <1> HIDE DEF mid, q, start, stop
  <1>29. FreeStep(h, start, stop, p, mid, q)
    BY ZenonT(40), <1>1, <1>16, <1>22, <1>24, <1>25, <1>26, <1>27, <1>28 DEF FreeStep
  <1> QED
    BY ZenonT(40), <1>2, <1>5, <1>23, <1>29, MergedKeeps

-----------------------------------------------------------------------------
(* The invariant, and what follows from it. *)

\* Bytes that change inside a block, or do not change at all, leave it alone.
LEMMA ScribbleKeeps ==
    ASSUME IInv, NEW a \in Addresses, Scribble(a)
    PROVE  IInv'
  <1>1. PICK b \in DOMAIN live : b < a /\ a < live[b]
    BY DEF Scribble
  <1>2. hdr' = [hdr EXCEPT ![a] = Block(HeapMin, "used")] /\ list' = list /\ live' = live /\ free_bytes' = free_bytes
    BY DEF Scribble
  <1>3. a \notin Blocks
    <2> SUFFICES ASSUME a \in Blocks PROVE FALSE
      OBVIOUS
    <2>1. b \in Blocks /\ b \in Nat /\ a \in Nat /\ live[b] = EndOf(b) /\ EndOf(b) \in Nat
      BY Basics DEF Blocks
    <2>2. EndOf(a) \in Nat /\ EndOf(a) > a
      BY SMTT(30), Basics
    <2>3. a # b
      BY <1>1, <2>1
    <2>4. EndOf(a) <= b \/ a >= EndOf(b)
      BY <2>1, <2>3, Apart
    <2> QED
      BY <1>1, <2>1, <2>2, <2>4
  <1>4. \A c \in Blocks : hdr'[c] = hdr[c]
    <2>1. Blocks \subseteq Addresses /\ DOMAIN hdr = Addresses
      BY Basics DEF IInv, Typed
    <2> QED
      BY SMTT(30), <1>2, <1>3, <2>1
  <1>5. Blocks' = Blocks
    BY <1>2 DEF Blocks
  <1>6. \A c \in Blocks : EndOf(c)' = EndOf(c)
    BY <1>4 DEF EndOf
  <1>7. Typed'
    <2>1. hdr' \in [Addresses -> [size : Nat, tag : {"data", "used", "free"}]]
      BY <1>2 DEF IInv, Typed, Block, HeapMin
    <2> QED
      BY <1>2, <2>1 DEF IInv, Typed, Addresses
  <1>8. Headers'
    <2>1. /\ \A c \in DOMAIN live : hdr'[c] = Block(live[c] - c, "used")
          /\ \A c \in Range(list) : hdr'[c].tag = "free"
      BY <1>4 DEF IInv, Headers, Blocks
    <2> QED
      BY ZenonT(40), <1>2, <2>1 DEF Headers, Block
  <1>9. Tiles'
    <2>1. /\ 0 \in Blocks
          /\ \A c \in Blocks : hdr'[c].size >= HeapMin /\ EndOf(c)' \in Blocks \cup {Units}
          /\ \A c \in Blocks : c # 0 => \E d \in Blocks : EndOf(d)' = c
          /\ \E c \in Blocks : EndOf(c)' = Units
          /\ \A c, d \in Blocks : c < d => EndOf(c)' <= d
      <3>1. /\ 0 \in Blocks
            /\ \A c \in Blocks : hdr[c].size >= HeapMin /\ EndOf(c) \in Blocks \cup {Units}
            /\ \A c \in Blocks : c # 0 => \E d \in Blocks : EndOf(d) = c
            /\ \E c \in Blocks : EndOf(c) = Units
            /\ \A c, d \in Blocks : c < d => EndOf(c) <= d
        BY DEF IInv, Tiles
      <3> QED
        BY ZenonT(40), <1>4, <1>6, <3>1
    <2> QED
      BY Zenon, <1>5, <2>1 DEF Tiles, HeapMin
  <1>10. Ordered'
    <2>1. \A i \in DOMAIN list : list[i] \in Blocks
      BY Basics
    <2>2. \A i, j \in DOMAIN list : i < j => EndOf(list[i])' < list[j]
      <3>1. \A i, j \in DOMAIN list : i < j => EndOf(list[i]) < list[j]
        BY DEF IInv, Ordered
      <3>2. \A i \in DOMAIN list : list[i] + hdr'[list[i]].size = EndOf(list[i])
        BY <1>4, <2>1 DEF EndOf
      <3> QED
        BY SMTT(30), <1>2, <3>1, <3>2 DEF EndOf
    <2> QED
      BY ZenonT(40), <1>2, <2>2 DEF Ordered
  <1>11. Counted'
    <2>1. \A c \in Range(list) : c \in Blocks
      BY DEF Blocks
    <2>2. FreeUnits' = FreeUnits
      BY <1>2, <1>6, <2>1 DEF FreeUnits, Addresses
    <2> QED
      BY Zenon, <1>2, <2>2 DEF IInv, Counted
  <1> QED
    BY ZenonT(40), <1>7, <1>8, <1>9, <1>10, <1>11 DEF IInv

\* initialize() makes one free block of the heap.
LEMMA InitIInv == Init => IInv
  <1> SUFFICES ASSUME Init PROVE IInv
    OBVIOUS
  <1>1. Units \in Nat /\ Units >= 2 /\ Addresses = 0 .. Units - 1 /\ 0 \in Addresses
    BY HeapAssumption DEF Addresses, HeapMin
  <1>2. /\ hdr = [a \in Addresses |-> IF a = 0 THEN Block(Units, "free") ELSE Data]
        /\ list = <<0>> /\ free_bytes = Units /\ live = <<>>
    BY DEF Init
  <1>3. DOMAIN live = {} /\ Range(list) = {0} /\ Blocks = {0}
    BY <1>2 DEF Range, Blocks
  <1>4. hdr[0].size = Units /\ hdr[0].tag = "free" /\ EndOf(0) = Units
    BY <1>1, <1>2 DEF Block, EndOf
  <1>5. Typed
    <2>1. hdr \in [Addresses -> [size : Nat, tag : {"data", "used", "free"}]]
      BY <1>1, <1>2 DEF Block, Data
    <2>2. list \in Seq(Addresses)
      BY <1>1, <1>2
    <2>3. live = [b \in DOMAIN live |-> live[b]]
      BY <1>2
    <2> QED
      BY ZenonT(40), <1>3, <2>1, <2>2, <2>3 DEF Typed
  <1>6. Headers
    BY <1>3, <1>4 DEF Headers
  <1>7. Tiles
    BY <1>1, <1>3, <1>4 DEF Tiles, HeapMin
  <1>8. Ordered
    BY <1>2 DEF Ordered
  <1>9. Counted
    <2>1. FreeUnits = 0 .. Units - 1
      BY <1>1, <1>3, <1>4 DEF FreeUnits
    <2>2. Cardinality(0 .. Units - 1) = Units
      BY <1>1, FS_Interval
    <2> QED
      BY ZenonT(40), <1>2, <2>1, <2>2 DEF Counted
  <1> QED
    BY ZenonT(40), <1>5, <1>6, <1>7, <1>8, <1>9 DEF IInv

\* Every call and every write keeps the invariant.
LEMMA NextIInv == IInv /\ [Next]_vars => IInv'
  <1> SUFFICES ASSUME IInv, [Next]_vars PROVE IInv'
    OBVIOUS
  <1>1. ASSUME NEW units \in Requests, NEW alignment \in Alignments, Allocate(units, alignment)
        PROVE  IInv'
    BY <1>1, AllocateKeeps
  <1>2. ASSUME NEW h \in Addresses, Free(h)
        PROVE  IInv'
    BY <1>2, FreeKeeps
  <1>3. ASSUME NEW a \in Addresses, Scribble(a)
        PROVE  IInv'
    BY <1>3, ScribbleKeeps
  <1>4. CASE UNCHANGED vars
    BY ZenonT(40), <1>4 DEF vars, IInv, Typed, Headers, Tiles, Ordered, Counted, Blocks, FreeUnits, EndOf, Block, Addresses
  <1> QED
    BY <1>1, <1>2, <1>3, <1>4 DEF Next

\* The invariant holds after every call.
LEMMA HeapInvariant == Spec => []IInv
  BY InitIInv, NextIInv, PTL DEF Spec

\* The heap's own account of itself holds.
LEMMA IInvConsistent ==
    ASSUME IInv
    PROVE  Consistent
  <1>1. Visited = Blocks
    BY VisitedIsBlocks DEF IInv
  <1>2. Len(list) \in Nat /\ DOMAIN list = 1 .. Len(list) /\ \A i \in 1 .. Len(list) : list[i] \in Blocks
    BY Basics
  <1>3. \A a \in Blocks : hdr[a].size >= 2 /\ EndOf(a) <= Units
    BY Basics
  <1>4. \A a \in Range(list) : hdr[a].tag = "free"
    BY DEF IInv, Headers
  <1>5. \A b \in DOMAIN live : hdr[b].tag = "used"
    BY BlockFields DEF IInv, Headers
  <1>6. ASSUME NEW i \in DOMAIN list
        PROVE  /\ hdr[list[i]].tag = "free" /\ hdr[list[i]].size >= HeapMin /\ EndOf(list[i]) <= Units
               /\ i > 1 => list[i] > EndOf(list[i - 1])
    <2>1. list[i] \in Blocks /\ list[i] \in Range(list)
      BY <1>2 DEF Range
    <2>2. ASSUME i > 1
          PROVE  list[i] > EndOf(list[i - 1])
      <3>1. i - 1 \in DOMAIN list /\ i - 1 < i
        BY <1>2, <2>2
      <3>2. EndOf(list[i - 1]) < list[i]
        BY <3>1 DEF IInv, Ordered
      <3> QED
        BY <3>2
    <2> QED
      BY ZenonT(40), <1>3, <1>4, <2>1, <2>2 DEF HeapMin
  <1>7. \A a \in Visited : hdr[a].size >= HeapMin /\ EndOf(a) <= Units /\ hdr[a].tag \in {"used", "free"}
    BY ZenonT(40), <1>1, <1>3, <1>4, <1>5 DEF Blocks, HeapMin
  <1>8. \E a \in Visited : EndOf(a) = Units
    BY <1>1 DEF IInv, Tiles
  <1>9. {a \in Visited : hdr[a].tag = "free"} = Range(list)
    BY <1>1, <1>4, <1>5 DEF Blocks
  <1>10. free_bytes = Cardinality(FreeUnits)
    BY DEF IInv, Counted
  <1> QED
    BY <1>6, <1>7, <1>8, <1>9, <1>10 DEF Consistent

\* The blocks handed out keep their headers and their memory.
LEMMA IInvLiveIntact ==
    ASSUME IInv
    PROVE  LiveIntact
  <1> SUFFICES ASSUME NEW b \in DOMAIN live
               PROVE  /\ hdr[b] = Block(live[b] - b, "used")
                      /\ \A c \in DOMAIN live : c # b => (b .. live[b] - 1) \cap (c .. live[c] - 1) = {}
                      /\ \A f \in Range(list) : (b .. live[b] - 1) \cap (f .. EndOf(f) - 1) = {}
    BY ZenonT(40) DEF LiveIntact
  <1>1. b \in Blocks /\ b \in Nat /\ live[b] = EndOf(b) /\ EndOf(b) \in Nat /\ b \notin Range(list)
    BY Basics DEF Blocks
  <1>2. ASSUME NEW c \in Blocks, c # b
        PROVE  (b .. EndOf(b) - 1) \cap (c .. EndOf(c) - 1) = {}
    <2>1. c \in Nat /\ EndOf(c) \in Nat
      BY SMTT(30), Basics
    <2>2. EndOf(c) <= b \/ c >= EndOf(b)
      BY <1>1, <1>2, Apart
    <2> QED
      BY SMTT(30), <1>1, <2>1, <2>2
  <1>3. \A c \in DOMAIN live : c # b => (b .. live[b] - 1) \cap (c .. live[c] - 1) = {}
    <2>1. \A c \in DOMAIN live : c \in Blocks /\ live[c] = EndOf(c)
      BY Basics DEF Blocks
    <2> QED
      BY ZenonT(40), <1>1, <1>2, <2>1
  <1>4. \A f \in Range(list) : (b .. live[b] - 1) \cap (f .. EndOf(f) - 1) = {}
    <2>1. \A f \in Range(list) : f \in Blocks /\ f # b
      BY <1>1 DEF Blocks
    <2> QED
      BY ZenonT(40), <1>1, <1>2, <2>1
  <1>5. hdr[b] = Block(live[b] - b, "used")
    BY Zenon DEF IInv, Headers
  <1> QED
    BY ZenonT(40), <1>3, <1>4, <1>5

\* What lies between two blocks handed out is one free block, or nothing: so
\* where a request would fit there, it fits in a block of the list.
LEMMA IInvNoFitMissed ==
    ASSUME IInv
    PROVE  NoFitMissed
  <1> SUFFICES ASSUME NEW units \in Requests, NEW alignment \in Alignments, NEW a \in GapStarts,
                      Fits(a, GapEnd(a), units, alignment)
               PROVE  \E k \in DOMAIN list : Fits(list[k], EndOf(list[k]), units, alignment)
    BY ZenonT(40) DEF NoFitMissed
  <1> DEFINE S == {Units} \cup {b \in DOMAIN live : b >= a}
             end == GapEnd(a)
  <1>1. \A b \in Blocks : b \in Nat /\ EndOf(b) \in Nat /\ EndOf(b) > b /\ b \in Addresses
    BY Basics
  <1>2. Units \in Nat /\ 0 \in Blocks /\ \A b \in Blocks : EndOf(b) \in Blocks \cup {Units}
    BY ZenonT(40), HeapAssumption DEF IInv, Tiles
  <1>3. a \in Nat /\ a \in Blocks \cup {Units}
    <2>1. \A b \in DOMAIN live : b \in Blocks /\ live[b] = EndOf(b)
      BY Basics DEF Blocks
    <2> QED
      BY SMTT(20), <1>1, <1>2, <2>1 DEF GapStarts
  <1>4. S \in SUBSET Nat /\ S # {}
    <2>1. DOMAIN live \subseteq Blocks
      BY DEF Blocks
    <2> QED
      BY ZenonT(40), <1>1, <1>2, <2>1
  <1>5. end \in S /\ \A y \in S : end <= y
    <2> HIDE DEF S
    <2>1. \E x \in S : \A y \in S : x <= y
      BY <1>4, LeastAddress
    <2>2. end = Min(S)
      BY DEF GapEnd, S
    <2> HIDE DEF end
    <2> QED
      BY ZenonT(40), <2>1, <2>2 DEF Min
  <1>6. end \in Nat
    BY <1>4, <1>5
  <1>7. a < end
    <2>1. alignment \in Nat \ {0} /\ units \in Nat \ {0}
      BY HeapAssumption
    <2>2. PayloadIn(a, alignment) \in Int /\ PayloadIn(a, alignment) - 1 >= a
      BY SMTT(30), <1>3, <2>1, PayloadBound DEF Header, HeapMin
    <2>3. PayloadIn(a, alignment) - 1 < end
      BY DEF Fits, Header
    <2> QED
      BY <1>3, <1>6, <2>2, <2>3
  <1> HIDE DEF end
  <1>8. a \in Range(list)
    <2>1. end <= Units
      BY <1>5
    <2>2. a \in Blocks
      BY SMTT(30), <1>2, <1>3, <1>6, <1>7, <2>1
    <2>3. a \notin DOMAIN live
      BY SMTT(30), <1>3, <1>5, <1>6, <1>7
    <2> QED
      BY <2>2, <2>3 DEF Blocks
  <1>9. PICK k \in DOMAIN list : list[k] = a
    BY <1>8 DEF Range
  <1>10. a \in Blocks
    BY <1>8 DEF Blocks
  <1>11. EndOf(a) \notin Range(list)
    <2> SUFFICES ASSUME EndOf(a) \in Range(list) PROVE FALSE
      BY Zenon
    <2>1. PICK j \in DOMAIN list : list[j] = EndOf(a)
      BY Zenon DEF Range
    <2>2. DOMAIN list = 1 .. Len(list) /\ Len(list) \in Nat
      BY ZenonT(40), Basics
    <2>3. list[j] \in Blocks
      BY SMTT(30), <2>1, <2>2, Basics
    <2>4. k < j => EndOf(list[k]) < list[j]
      BY DEF IInv, Ordered
    <2>5. j < k => EndOf(list[j]) < list[k]
      BY DEF IInv, Ordered
    <2>6. k = j \/ k < j \/ j < k
      BY <2>2
    <2> QED
      BY SMTT(20), <1>1, <1>9, <1>10, <2>1, <2>3, <2>4, <2>5, <2>6
  <1>12. EndOf(a) \in S
    BY <1>1, <1>2, <1>10, <1>11 DEF Blocks
  <1>13. ASSUME NEW y \in S
         PROVE  EndOf(a) <= y
    <2>1. CASE y = Units
      BY SMTT(30), <1>10, <2>1, Basics
    <2>2. CASE y # Units
      <3>1. y \in DOMAIN live /\ y >= a
        BY Zenon, <2>2
      <3>2. y \in Blocks /\ y # a
        BY ZenonT(40), <1>8, <3>1, Basics DEF Blocks
      <3>3. EndOf(y) <= a \/ y >= EndOf(a)
        BY ZenonT(40), <1>10, <3>2, Apart
      <3> QED
        BY SMTT(30), <1>1, <1>10, <3>1, <3>2, <3>3
    <2> QED
      BY ZenonT(40), <2>1, <2>2
  <1>14. EndOf(a) \in Nat
    BY <1>1, <1>10
  <1> HIDE DEF S
  <1>15. end = EndOf(a)
    <2>1. end <= EndOf(a) /\ EndOf(a) <= end
      BY <1>5, <1>12, <1>13
    <2> QED
      BY <1>6, <1>14, <2>1
  <1>16. Fits(list[k], EndOf(list[k]), units, alignment)
    BY Zenon, <1>9, <1>15 DEF end
  <1> QED
    BY <1>16

-----------------------------------------------------------------------------
\* heap::consistent() never fails, and the blocks handed out overlap neither one
\* another nor the free list, in a heap of any size and after any calls, whatever
\* their holders write into them.
THEOREM HeapIsSound == Spec => []HeapSound
  <1>1. IInv => HeapSound
    BY ZenonT(40), IInvConsistent, IInvLiveIntact DEF HeapSound
  <1> QED
    BY <1>1, HeapInvariant, PTL

\* free() takes the blocks that are handed out and nothing else: never a
\* pointer inside a block, even where the bytes before it look like a header.
THEOREM WrongFreesAreIgnored == Spec => []WrongFreeIgnored
  <1>1. IInv => WrongFreeIgnored
    BY AllocatedIsLive DEF WrongFreeIgnored
  <1> QED
    BY <1>1, HeapInvariant, PTL

\* allocate() never fails while the memory between two blocks handed out could
\* hold the request: free() has merged that memory into one block of the list.
THEOREM NoFitIsMissed == Spec => []NoFitMissed
  <1>1. IInv => NoFitMissed
    BY IInvNoFitMissed
  <1> QED
    BY <1>1, HeapInvariant, PTL

==============================================================================
