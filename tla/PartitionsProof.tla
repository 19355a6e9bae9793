--------------------------- MODULE PartitionsProof ---------------------------
(***************************************************************************)
(* What partition.cpp and the device registry promise, call by call, for   *)
(* any disk and any number of slots: read() gives partitions the disk      *)
(* really has, and publish() and unpublish() keep the registry and the     *)
(* slots in step.                                                          *)
(*                                                                         *)
(* The loops are recursive functions.  That a loop can be run to its end   *)
(* is shown by the least turn it could not reach (the lemmas named Turns), *)
(* and what its turns keep by the least turn that breaks it (AfterAll).    *)
(***************************************************************************)
EXTENDS Partitions, WellFoundedInduction, TLAPS

-----------------------------------------------------------------------------
(* Numbers. *)

\* Every set of numbers has a least one.
LEMMA LeastNumber ==
    ASSUME NEW T \in SUBSET Nat, T # {}
    PROVE  \E x \in T : \A y \in T : x <= y
  <1> DEFINE R == OpToRel(<, Nat)
  <1>1. IsWellFoundedOn(R, Nat)
    BY Zenon, NatLessThanWellFounded
  <1>2. \A x, y \in Nat : y < x => <<y, x>> \in R
    BY DEF OpToRel
  <1> HIDE DEF R
  <1>3. PICK x \in T : \A y \in T : ~ (<<y, x>> \in R)
    BY Zenon, <1>1, WFMin
  <1>4. \A y \in T : ~ (y < x)
    BY Zenon, <1>2, <1>3
  <1>5. \A y \in T : x <= y
    BY <1>4
  <1> QED
    BY <1>5

\* What holds at first and is kept by every turn of a loop holds after the last.
LEMMA AfterAll ==
    ASSUME NEW N \in Nat, NEW holds, holds[0],
           \A n \in 1 .. N : holds[n - 1] => holds[n]
    PROVE  \A n \in 0 .. N : holds[n]
  <1> DEFINE Bad == {n \in 0 .. N : ~ holds[n]}
  <1> SUFFICES ASSUME Bad # {} PROVE FALSE
    OBVIOUS
  <1>1. PICK n \in Bad : \A m \in Bad : n <= m
    <2>1. Bad \in SUBSET Nat
      OBVIOUS
    <2> HIDE DEF Bad
    <2> QED
      BY <2>1, LeastNumber
  <1>2. n \in 1 .. N
    BY <1>1
  <1>3. n - 1 \in 0 .. N /\ n - 1 \notin Bad
    BY <1>1, <1>2
  <1> QED
    BY <1>1, <1>2, <1>3

-----------------------------------------------------------------------------
(* Reading a partition table. *)

\* A partition is what the table gives: the part of WindowsTrue about one of them.
EntryTrue(disk, e) ==
    LET entries == disk.at[0].entries
        last == e.first + e.count - 1
    IN  /\ e.number \in Nat /\ e.first \in Nat /\ e.count \in Nat
        /\ e.first + e.count <= disk.blocks
        /\ IF \E i \in 1 .. 4 : entries[i].type = "protective"
             THEN \E lba \in IntactCopies(disk) :
                     LET g == disk.at[lba].crc[e.number]
                     IN  g.used /\ g.first = e.first /\ g.last = last
             ELSE IF e.number <= 4
             THEN entries[e.number].start = e.first
             ELSE \E i \in 1 .. 4 :
                     /\ extended_type(entries[i].type)
                     /\ entries[i].start < e.first
                     /\ last < entries[i].start + entries[i].count

\* An entry as add() writes it.
TableEntries == [number : Nat, first : Nat, count : Nat]

\* Every entry of a table is one the disk has.
TableTrue(disk, t) ==
    /\ t = [scheme |-> t.scheme, entries |-> t.entries, truncated |-> t.truncated,
            used_backup |-> t.used_backup]
    /\ t.entries \in Seq(TableEntries)
    /\ \A i \in DOMAIN t.entries : EntryTrue(disk, t.entries[i])

\* add() of a true entry keeps the table true.
LEMMA addTrue ==
    ASSUME NEW disk, NEW t, TableTrue(disk, t),
           NEW e \in TableEntries, EntryTrue(disk, e)
    PROVE  TableTrue(disk, add(t, e))
  <1>1. CASE Len(t.entries) = max_entries
    BY Zenon, <1>1 DEF add, TableTrue
  <1>2. CASE Len(t.entries) # max_entries
    <2> DEFINE u == add(t, e)
               n == Len(t.entries)
    <2>1. /\ u.entries = Append(t.entries, e)
          /\ u = [scheme |-> u.scheme, entries |-> u.entries, truncated |-> u.truncated,
                  used_backup |-> u.used_backup]
      BY Zenon, <1>2 DEF add, TableTrue
    <2>2. n \in Nat /\ DOMAIN t.entries = 1 .. n
      BY DEF TableTrue
    <2>3. /\ u.entries \in Seq(TableEntries) /\ DOMAIN u.entries = 1 .. n + 1
          /\ \A i \in 1 .. n : u.entries[i] = t.entries[i]
          /\ u.entries[n + 1] = e
      BY <2>1, <2>2 DEF TableTrue
    <2> HIDE DEF u, n
    <2>4. ASSUME NEW i \in DOMAIN u.entries PROVE EntryTrue(disk, u.entries[i])
      <3>1. i \in 1 .. n \/ i = n + 1
        BY <2>2, <2>3
      <3> QED
        BY Zenon, <2>2, <2>3, <3>1 DEF TableTrue
    <2>5. TableTrue(disk, u)
      BY Zenon, <2>1, <2>3, <2>4 DEF TableTrue
    <2> QED
      BY <2>5 DEF u
  <1> QED
    BY <1>1, <1>2

\* Table{}: no entries, so none that is wrong.
LEMMA NoTableTrue ==
    ASSUME NEW disk
    PROVE  /\ TableTrue(disk, NoTable)
           /\ TableTrue(disk, [NoTable EXCEPT !.scheme = "gpt"])
           /\ TableTrue(disk, [NoTable EXCEPT !.scheme = "mbr"])
  <1>1. ASSUME NEW t, NEW scheme, t = [NoTable EXCEPT !.scheme = scheme]
        PROVE  TableTrue(disk, t)
    <2>1. t.entries = <<>> /\ t.truncated = FALSE /\ t.used_backup = FALSE /\ t.scheme = scheme
      BY <1>1 DEF NoTable
    <2>2. t = [scheme |-> t.scheme, entries |-> t.entries, truncated |-> t.truncated,
               used_backup |-> t.used_backup]
      BY Zenon, <1>1 DEF NoTable
    <2>3. t.entries \in Seq(TableEntries) /\ DOMAIN t.entries = {}
      BY <2>1
    <2> QED
      BY Zenon, <2>2, <2>3 DEF TableTrue
  <1>2. NoTable = [NoTable EXCEPT !.scheme = "none"]
    BY DEF NoTable
  <1> QED
    BY Zenon, <1>1, <1>2

\* What read_blocks() returns.
LEMMA SectorIs ==
    ASSUME NEW disk, NEW lba, Sector(disk, lba) # {}
    PROVE  lba \notin disk.bad /\ (CHOOSE x \in Sector(disk, lba) : TRUE) = disk.at[lba]
  <1>1. lba \notin disk.bad
    BY DEF Sector
  <1>2. Sector(disk, lba) = {disk.at[lba]}
    BY <1>1 DEF Sector
  <1> QED
    BY <1>1, <1>2

\* The turns of the loop over a GPT's entries.
GptLoop(after, disk, content) ==
    /\ after[0] = [NoTable EXCEPT !.scheme = "gpt"]
    /\ \A n \in 1 .. Len(content) : after[n] = GptStep(disk, content[n], n, after[n - 1])
    /\ GptTable(disk, content) = after[Len(content)]

\* The loop over a GPT's entries: GptTable is where it ends.
LEMMA GptTurns ==
    ASSUME NEW disk, NEW content, Len(content) \in Nat
    PROVE  \E after : GptLoop(after, disk, content)
  <1> DEFINE N == Len(content)
             first == [NoTable EXCEPT !.scheme = "gpt"]
             Turn(n, x) == GptStep(disk, content[n], n, x)
             Turns(f, m) == f = [n \in 0 .. m |-> IF n = 0 THEN first ELSE Turn(n, f[n - 1])]
             have == [m \in 0 .. N |-> \E f : Turns(f, m)]
  <1>0. N \in Nat
    OBVIOUS
  <1> HIDE DEF N
  <1>1. have[0]
    <2> DEFINE f == [n \in 0 .. 0 |-> first]
    <2>1. Turns(f, 0)
      OBVIOUS
    <2>2. 0 \in 0 .. N
      BY <1>0
    <2> QED
      BY Zenon, <2>1, <2>2
  <1>2. ASSUME NEW m \in 1 .. N, have[m - 1] PROVE have[m]
    <2>1. m - 1 \in 0 .. N /\ m \in 0 .. N
      BY <1>0
    <2>2. PICK f : Turns(f, m - 1)
      BY Zenon, <1>2, <2>1
    <2> HIDE DEF Turn, first
    <2> DEFINE g == [n \in 0 .. m |-> IF n = m THEN Turn(m, f[m - 1]) ELSE f[n]]
    <2>3. Turns(g, m)
      <3>1. \A n \in 0 .. m - 1 : g[n] = f[n] /\ n \in 0 .. m /\ n # m
        OBVIOUS
      <3>2. ASSUME NEW n \in 0 .. m
            PROVE  g[n] = IF n = 0 THEN first ELSE Turn(n, g[n - 1])
        <4>1. CASE n = m
          <5>1. g[n] = Turn(n, f[n - 1]) /\ n - 1 \in 0 .. m - 1 /\ n # 0
            BY <4>1
          <5> QED
            BY Zenon, <3>1, <5>1
        <4>2. CASE n # m
          <5>1. n \in 0 .. m - 1 /\ (n # 0 => n - 1 \in 0 .. m - 1)
            BY <4>2
          <5> HIDE DEF g
          <5>2. f[n] = IF n = 0 THEN first ELSE Turn(n, f[n - 1])
            BY Zenon, <2>2, <5>1
          <5> QED
            BY Zenon, <3>1, <5>1, <5>2
        <4> QED
          BY <4>1, <4>2
      <3> QED
        BY Zenon, <3>2
    <2> QED
      BY Zenon, <2>1, <2>3
  <1>3. \E f : Turns(f, N)
    <2>1. \A n \in 0 .. N : have[n]
      <3> HIDE DEF have
      <3> QED
        BY <1>0, <1>1, <1>2, AfterAll
    <2>2. N \in 0 .. N
      BY <1>0
    <2> QED
      BY Zenon, <2>1, <2>2
  <1> DEFINE after == CHOOSE f : Turns(f, N)
  <1>4. Turns(after, N)
    <2> HIDE DEF Turns
    <2> QED
      BY Zenon, <1>3
  <1>5. GptTable(disk, content) = after[N]
    BY Zenon DEF GptTable, N
  <1> HIDE DEF after, Turn, first
  <1>6. after[0] = first
    <2>1. 0 \in 0 .. N
      BY <1>0
    <2> QED
      BY Zenon, <1>4, <2>1
  <1>7. \A n \in 1 .. N : after[n] = Turn(n, after[n - 1])
    <2>1. \A n \in 1 .. N : n \in 0 .. N /\ n # 0
      BY <1>0
    <2> QED
      BY Zenon, <1>4, <2>1
  <1> QED
    BY Zenon, <1>5, <1>6, <1>7 DEF GptLoop, N, Turn, first

\* The turns of the loop along the extended boot records.
LogicalLoop(after, disk, base, length, table) ==
    /\ after[0] = [ok |-> TRUE, at |-> {base}, number |-> 5, table |-> table]
    /\ \A n \in 1 .. max_logical : after[n] = LogicalStep(disk, base, length, after[n - 1])
    /\ read_logical(disk, base, length, table) = after[max_logical]

\* The loop along the extended boot records: read_logical is where it ends.
LEMMA LogicalTurns ==
    ASSUME NEW disk, NEW base, NEW length, NEW table
    PROVE  \E after : LogicalLoop(after, disk, base, length, table)
  <1> DEFINE N == max_logical
             first == [ok |-> TRUE, at |-> {base}, number |-> 5, table |-> table]
             Turn(n, x) == LogicalStep(disk, base, length, x)
             Turns(f, m) == f = [n \in 0 .. m |-> IF n = 0 THEN first ELSE Turn(n, f[n - 1])]
             have == [m \in 0 .. N |-> \E f : Turns(f, m)]
  <1>0. N \in Nat
    BY PartitionsAssumption
  <1> HIDE DEF N
  <1>1. have[0]
    <2> DEFINE f == [n \in 0 .. 0 |-> first]
    <2>1. Turns(f, 0)
      OBVIOUS
    <2>2. 0 \in 0 .. N
      BY <1>0
    <2> QED
      BY Zenon, <2>1, <2>2
  <1>2. ASSUME NEW m \in 1 .. N, have[m - 1] PROVE have[m]
    <2>1. m - 1 \in 0 .. N /\ m \in 0 .. N
      BY <1>0
    <2>2. PICK f : Turns(f, m - 1)
      BY Zenon, <1>2, <2>1
    <2> HIDE DEF Turn, first
    <2> DEFINE g == [n \in 0 .. m |-> IF n = m THEN Turn(m, f[m - 1]) ELSE f[n]]
    <2>3. Turns(g, m)
      <3>1. \A n \in 0 .. m - 1 : g[n] = f[n] /\ n \in 0 .. m /\ n # m
        OBVIOUS
      <3>2. ASSUME NEW n \in 0 .. m
            PROVE  g[n] = IF n = 0 THEN first ELSE Turn(n, g[n - 1])
        <4>1. CASE n = m
          <5>1. g[n] = Turn(n, f[n - 1]) /\ n - 1 \in 0 .. m - 1 /\ n # 0
            BY <4>1
          <5> QED
            BY Zenon, <3>1, <5>1
        <4>2. CASE n # m
          <5>1. n \in 0 .. m - 1 /\ (n # 0 => n - 1 \in 0 .. m - 1)
            BY <4>2
          <5> HIDE DEF g
          <5>2. f[n] = IF n = 0 THEN first ELSE Turn(n, f[n - 1])
            BY Zenon, <2>2, <5>1
          <5> QED
            BY Zenon, <3>1, <5>1, <5>2
        <4> QED
          BY <4>1, <4>2
      <3> QED
        BY Zenon, <3>2
    <2> QED
      BY Zenon, <2>1, <2>3
  <1>3. \E f : Turns(f, N)
    <2>1. \A n \in 0 .. N : have[n]
      <3> HIDE DEF have
      <3> QED
        BY <1>0, <1>1, <1>2, AfterAll
    <2>2. N \in 0 .. N
      BY <1>0
    <2> QED
      BY Zenon, <2>1, <2>2
  <1> DEFINE after == CHOOSE f : Turns(f, N)
  <1>4. Turns(after, N)
    <2> HIDE DEF Turns
    <2> QED
      BY Zenon, <1>3
  <1>5. read_logical(disk, base, length, table) = after[N]
    BY Zenon DEF read_logical, N
  <1> HIDE DEF after, Turn, first
  <1>6. after[0] = first
    <2>1. 0 \in 0 .. N
      BY <1>0
    <2> QED
      BY Zenon, <1>4, <2>1
  <1>7. \A n \in 1 .. N : after[n] = Turn(n, after[n - 1])
    <2>1. \A n \in 1 .. N : n \in 0 .. N /\ n # 0
      BY <1>0
    <2> QED
      BY Zenon, <1>4, <2>1
  <1> QED
    BY Zenon, <1>5, <1>6, <1>7 DEF LogicalLoop, N, Turn, first

\* The turns of the loop over the primary entries.
PrimaryLoop(after, disk, entries) ==
    /\ after[0] = [ok |-> TRUE, table |-> [NoTable EXCEPT !.scheme = "mbr"]]
    /\ \A n \in 1 .. 4 : after[n] = PrimaryStep(disk, entries[n], n, after[n - 1])
    /\ Primaries(disk, entries) = after[4]

\* The loop over the primary entries: Primaries is where it ends.
LEMMA PrimaryTurns ==
    ASSUME NEW disk, NEW entries
    PROVE  \E after : PrimaryLoop(after, disk, entries)
  <1> DEFINE N == 4
             first == [ok |-> TRUE, table |-> [NoTable EXCEPT !.scheme = "mbr"]]
             Turn(n, x) == PrimaryStep(disk, entries[n], n, x)
             Turns(f, m) == f = [n \in 0 .. m |-> IF n = 0 THEN first ELSE Turn(n, f[n - 1])]
             have == [m \in 0 .. N |-> \E f : Turns(f, m)]
  <1>0. N \in Nat
    OBVIOUS
  <1> HIDE DEF N
  <1>1. have[0]
    <2> DEFINE f == [n \in 0 .. 0 |-> first]
    <2>1. Turns(f, 0)
      OBVIOUS
    <2>2. 0 \in 0 .. N
      BY <1>0
    <2> QED
      BY Zenon, <2>1, <2>2
  <1>2. ASSUME NEW m \in 1 .. N, have[m - 1] PROVE have[m]
    <2>1. m - 1 \in 0 .. N /\ m \in 0 .. N
      BY <1>0
    <2>2. PICK f : Turns(f, m - 1)
      BY Zenon, <1>2, <2>1
    <2> HIDE DEF Turn, first
    <2> DEFINE g == [n \in 0 .. m |-> IF n = m THEN Turn(m, f[m - 1]) ELSE f[n]]
    <2>3. Turns(g, m)
      <3>1. \A n \in 0 .. m - 1 : g[n] = f[n] /\ n \in 0 .. m /\ n # m
        OBVIOUS
      <3>2. ASSUME NEW n \in 0 .. m
            PROVE  g[n] = IF n = 0 THEN first ELSE Turn(n, g[n - 1])
        <4>1. CASE n = m
          <5>1. g[n] = Turn(n, f[n - 1]) /\ n - 1 \in 0 .. m - 1 /\ n # 0
            BY <4>1
          <5> QED
            BY Zenon, <3>1, <5>1
        <4>2. CASE n # m
          <5>1. n \in 0 .. m - 1 /\ (n # 0 => n - 1 \in 0 .. m - 1)
            BY <4>2
          <5> HIDE DEF g
          <5>2. f[n] = IF n = 0 THEN first ELSE Turn(n, f[n - 1])
            BY Zenon, <2>2, <5>1
          <5> QED
            BY Zenon, <3>1, <5>1, <5>2
        <4> QED
          BY <4>1, <4>2
      <3> QED
        BY Zenon, <3>2
    <2> QED
      BY Zenon, <2>1, <2>3
  <1>3. \E f : Turns(f, N)
    <2>1. \A n \in 0 .. N : have[n]
      <3> HIDE DEF have
      <3> QED
        BY <1>0, <1>1, <1>2, AfterAll
    <2>2. N \in 0 .. N
      BY <1>0
    <2> QED
      BY Zenon, <2>1, <2>2
  <1> DEFINE after == CHOOSE f : Turns(f, N)
  <1>4. Turns(after, N)
    <2> HIDE DEF Turns
    <2> QED
      BY Zenon, <1>3
  <1>5. Primaries(disk, entries) = after[N]
    BY ZenonT(30) DEF Primaries, N
  <1> HIDE DEF after, Turn, first
  <1>6. after[0] = first
    <2>1. 0 \in 0 .. N
      BY <1>0
    <2> QED
      BY Zenon, <1>4, <2>1
  <1>7. \A n \in 1 .. N : after[n] = Turn(n, after[n - 1])
    <2>1. \A n \in 1 .. N : n \in 0 .. N /\ n # 0
      BY <1>0
    <2> QED
      BY Zenon, <1>4, <2>1
  <1> QED
    BY Zenon, <1>5, <1>6, <1>7 DEF PrimaryLoop, N, Turn, first

\* The disk has a GPT, as its MBR says.
Protective(disk) == \E i \in 1 .. 4 : disk.at[0].entries[i].type = "protective"

\* A GPT entry that is taken is one of a copy whose checksums hold.
LEMMA GptStepTrue ==
    ASSUME NEW disk, DiskShape(disk), Protective(disk),
           NEW lba \in IntactCopies(disk), NEW n \in 1 .. Len(disk.at[lba].crc),
           disk.at[lba].crc \in Seq(GptEntries), NEW t, TableTrue(disk, t)
    PROVE  TableTrue(disk, GptStep(disk, disk.at[lba].crc[n], n, t))
  <1> DEFINE e == disk.at[lba].crc[n]
             p == Partition(n, e.first, e.last - e.first + 1)
  <1>1. n \in Nat /\ e \in GptEntries /\ disk.blocks \in Nat
    BY DEF DiskShape
  <1>2. CASE ~ e.used \/ e.first > e.last \/ e.last >= disk.blocks
    BY Zenon, <1>2 DEF GptStep
  <1>3. CASE ~ (~ e.used \/ e.first > e.last \/ e.last >= disk.blocks)
    <2> HIDE DEF e
    <2>1. e.used /\ e.first \in Nat /\ e.last \in Nat /\ e.first <= e.last /\ e.last < disk.blocks
      BY <1>1, <1>3 DEF GptEntries
    <2>0. p = [number |-> n, first |-> e.first, count |-> e.last - e.first + 1]
      BY Zenon DEF Partition
    <2> HIDE DEF p
    <2>2. /\ p.number = n /\ p.first = e.first /\ p.count = e.last - e.first + 1
          /\ p.first + p.count <= disk.blocks /\ p.first + p.count - 1 = e.last
      BY <1>1, <2>0, <2>1
    <2>3. p.number \in Nat /\ p.first \in Nat /\ p.count \in Nat /\ p \in TableEntries
      BY <1>1, <2>0, <2>1 DEF TableEntries
    <2>4. /\ disk.at[lba].crc[p.number].used /\ disk.at[lba].crc[p.number].first = p.first
          /\ disk.at[lba].crc[p.number].last = p.first + p.count - 1
      BY <2>1, <2>2 DEF e
    <2>5. EntryTrue(disk, p)
      BY Zenon, <2>2, <2>3, <2>4 DEF EntryTrue, Protective
    <2>6. TableTrue(disk, add(t, p))
      BY <2>3, <2>5, addTrue
    <2> QED
      BY <1>3, <2>6 DEF GptStep, e, p
  <1> QED
    BY <1>2, <1>3

\* read_gpt(): the entries of a copy whose checksums hold.
LEMMA read_gptTrue ==
    ASSUME NEW disk, DiskShape(disk), Protective(disk), disk.blocks >= 2,
           NEW lba \in {1, disk.blocks - 1}, NEW table, read_gpt(disk, lba, table).ok
    PROVE  TableTrue(disk, read_gpt(disk, lba, table).table)
  <1> DEFINE header == disk.at[lba]
             sound == /\ Sector(disk, lba) # {} /\ header.kind = "header"
                      /\ header.intact /\ header.lba = lba
                      /\ header.array < disk.blocks /\ header.blocks \in 1 .. disk.blocks - header.array
             readable == (header.array .. header.array + header.blocks - 1) \cap disk.bad = {}
             content == GptArray(disk, header)
  <1>1. Sector(disk, lba) # {}
    BY DEF read_gpt
  <1>2. lba \notin disk.bad /\ (CHOOSE x \in Sector(disk, lba) : TRUE) = header
    BY <1>1, SectorIs
  <1>3. read_gpt(disk, lba, table) =
          IF ~ sound THEN [ok |-> FALSE, table |-> table]
          ELSE [ok |-> readable /\ ArrayIntact(header, content),
                table |-> IF readable THEN GptTable(disk, content) ELSE NoTable]
    BY Zenon, <1>2 DEF read_gpt
  <1>4. sound /\ readable /\ header.crc = content
    <2> DEFINE good == readable /\ header.crc = content
               r == read_gpt(disk, lba, table)
    <2>1. r = IF ~ sound THEN [ok |-> FALSE, table |-> table]
              ELSE [ok |-> good, table |-> IF readable THEN GptTable(disk, content) ELSE NoTable]
      BY Zenon, <1>3 DEF ArrayIntact
    <2>2. r.ok
      OBVIOUS
    <2> HIDE DEF sound, good, r
    <2>3. sound
      BY <2>1, <2>2
    <2>4. good
      BY <2>1, <2>2, <2>3
    <2> QED
      BY Zenon, <2>3, <2>4 DEF good
  <1>5. read_gpt(disk, lba, table).table = GptTable(disk, header.crc)
    <2> HIDE DEF sound, readable, content, header
    <2> QED
      BY <1>3, <1>4
  <1>6. lba \in IntactCopies(disk)
    BY Zenon, <1>2, <1>4 DEF IntactCopies
  <1>7. header.crc \in Seq(GptEntries)
    <2>1. lba \in 0 .. disk.blocks - 1
      BY DEF DiskShape
    <2> QED
      BY Zenon, <1>4, <2>1 DEF DiskShape
  <1> HIDE DEF sound, readable, content
  <1> DEFINE N == Len(header.crc)
  <1>8. N \in Nat
    BY <1>7
  <1>9. PICK after : GptLoop(after, disk, header.crc)
    BY Zenon, <1>8, GptTurns
  <1> DEFINE holds == [n \in 0 .. N |-> TableTrue(disk, after[n])]
  <1>10. holds[0]
    BY <1>8, <1>9, NoTableTrue DEF GptLoop
  <1>11. ASSUME NEW n \in 1 .. N, holds[n - 1] PROVE holds[n]
    <2>1. TableTrue(disk, after[n - 1]) /\ n \in 0 .. N
      BY <1>8, <1>11
    <2>2. after[n] = GptStep(disk, header.crc[n], n, after[n - 1])
      BY <1>9 DEF GptLoop
    <2>3. TableTrue(disk, after[n])
      BY Zenon, <1>6, <1>7, <2>1, <2>2, GptStepTrue
    <2> QED
      BY <2>1, <2>3
  <1>12. \A n \in 0 .. N : holds[n]
    <2> HIDE DEF holds, N
    <2> QED
      BY <1>8, <1>10, <1>11, AfterAll
  <1>13. TableTrue(disk, after[N])
    <2>1. N \in 0 .. N
      BY <1>8
    <2> QED
      BY Zenon, <1>12, <2>1
  <1> QED
    BY <1>5, <1>9, <1>13 DEF GptLoop

-----------------------------------------------------------------------------
\* An extended partition of the table.
Extended(disk, base, length) ==
    /\ ~ Protective(disk) /\ base \in Nat /\ length \in Nat
    /\ length # 0 /\ base + length <= disk.blocks
    /\ \E i \in 1 .. 4 : /\ extended_type(disk.at[0].entries[i].type)
                         /\ disk.at[0].entries[i].start = base /\ disk.at[0].entries[i].count = length

\* Walking along the boot records of an extended partition stays within it.
LogicalInv(disk, base, length, s) ==
    /\ s = [ok |-> s.ok, at |-> s.at, number |-> s.number, table |-> s.table]
    /\ s.ok \in BOOLEAN
    /\ s.at = {} \/ \E b \in base .. base + length - 1 : s.at = {b}
    /\ s.number \in Nat /\ s.number >= 5
    /\ TableTrue(disk, s.table)

\* One boot record.
LEMMA LogicalStepInv ==
    ASSUME NEW disk, DiskShape(disk), NEW base, NEW length, Extended(disk, base, length),
           NEW s, LogicalInv(disk, base, length, s)
    PROVE  LogicalInv(disk, base, length, LogicalStep(disk, base, length, s))
  <1>1. CASE s.at = {}
    BY <1>1 DEF LogicalStep
  <1>2. CASE s.at # {}
    <2>1. PICK b \in base .. base + length - 1 : s.at = {b}
      BY <1>2 DEF LogicalInv
    <2>2. (CHOOSE x \in s.at : TRUE) = b
      BY <2>1
    <2>3. b \in 0 .. disk.blocks - 1 /\ disk.blocks \in Nat /\ base \in Nat /\ length \in Nat /\ b \in Nat /\ base <= b
      BY <2>1 DEF Extended, DiskShape
    <2> DEFINE sectors == Sector(disk, b)
               sector == CHOOSE x \in sectors : TRUE
               e == sector.entries[1]
               next == sector.entries[2]
               good == e.type # "empty" /\ e.count # 0 /\ e.start # 0
                       /\ b + e.start + e.count <= base + length
               ends == ~ extended_type(next.type) \/ next.start = 0 \/ next.start >= length
               p == Partition(s.number, b + e.start, e.count)
               t == LogicalStep(disk, base, length, s)
    <2>4. t = IF sectors = {} THEN [s EXCEPT !.ok = FALSE, !.at = {}]
              ELSE IF ~ has_signature(sector) THEN [s EXCEPT !.at = {}]
              ELSE [s EXCEPT !.table = IF good THEN add(@, p) ELSE @,
                             !.number = IF good THEN @ + 1 ELSE @,
                             !.at = IF ends THEN {} ELSE {base + next.start}]
      BY Zenon, <1>2, <2>2 DEF LogicalStep
    <2> HIDE DEF t
    <2>5. CASE sectors = {}
      <3>1. t = [s EXCEPT !.ok = FALSE, !.at = {}]
        BY <2>4, <2>5
      <3> QED
        BY Zenon, <3>1 DEF LogicalInv, t
    <2>6. CASE sectors # {} /\ ~ has_signature(sector)
      <3>1. t = [s EXCEPT !.at = {}]
        BY <2>4, <2>6
      <3> QED
        BY <3>1 DEF LogicalInv, t
    <2>7. CASE sectors # {} /\ has_signature(sector)
      <3>1. sector = disk.at[b]
        BY <2>7, SectorIs
      <3>2. sector.entries \in [1 .. 4 -> MbrEntries]
        BY ZenonT(30), <2>3, <2>7, <3>1 DEF DiskShape, has_signature
      <3> HIDE DEF sector
      <3>3. /\ e.start \in Nat /\ e.count \in Nat /\ next.start \in Nat
        BY <3>2 DEF MbrEntries
      <3> HIDE DEF e, next
      <3>4. t = [s EXCEPT !.table = IF good THEN add(@, p) ELSE @,
                          !.number = IF good THEN @ + 1 ELSE @,
                          !.at = IF ends THEN {} ELSE {base + next.start}]
        BY Zenon, <2>4, <2>7
      <3>5. t = [ok |-> s.ok, at |-> IF ends THEN {} ELSE {base + next.start},
                 number |-> IF good THEN s.number + 1 ELSE s.number,
                 table |-> IF good THEN add(s.table, p) ELSE s.table]
        <4> HIDE DEF good, ends, p
        <4> QED
          BY Zenon, <3>4 DEF LogicalInv
      <3>6. ASSUME good PROVE TableTrue(disk, add(s.table, p))
        <4>1. s.number \in Nat /\ s.number >= 5 /\ TableTrue(disk, s.table)
          BY DEF LogicalInv
        <4>2. /\ p.number = s.number /\ p.first = b + e.start /\ p.count = e.count
              /\ p \in TableEntries
          BY SMTT(30), <2>3, <3>3, <4>1 DEF Partition, TableEntries
        <4> HIDE DEF p
        <4>3. /\ p.number \in Nat /\ p.first \in Nat /\ p.count \in Nat /\ ~ (p.number <= 4)
              /\ base < p.first /\ p.first + p.count <= base + length
              /\ p.first + p.count - 1 < base + length
              /\ p.first + p.count <= disk.blocks
          BY SMTT(30), <2>3, <3>3, <3>6, <4>1, <4>2 DEF Extended
        <4>4. \E i \in 1 .. 4 :
                 /\ extended_type(disk.at[0].entries[i].type)
                 /\ disk.at[0].entries[i].start < p.first
                 /\ p.first + p.count - 1 < disk.at[0].entries[i].start + disk.at[0].entries[i].count
          BY Zenon, <4>3 DEF Extended
        <4>5. EntryTrue(disk, p)
          BY Zenon, <4>3, <4>4 DEF EntryTrue, Extended, Protective
        <4> QED
          BY <4>1, <4>2, <4>5, addTrue
      <3>7. ASSUME ~ ends PROVE base + next.start \in base .. base + length - 1
        BY <2>3, <3>3, <3>7
      <3> HIDE DEF good, ends, p
      <3>8. /\ t.ok = s.ok /\ t.at = (IF ends THEN {} ELSE {base + next.start})
            /\ t.number = (IF good THEN s.number + 1 ELSE s.number)
            /\ t.table = (IF good THEN add(s.table, p) ELSE s.table)
            /\ t = [ok |-> t.ok, at |-> t.at, number |-> t.number, table |-> t.table]
        BY <3>5
      <3>9. TableTrue(disk, t.table)
        BY Zenon, <3>6, <3>8 DEF LogicalInv
      <3>10. t.number \in Nat /\ t.number >= 5
        BY <3>8 DEF LogicalInv
      <3>11. t.at = {} \/ \E x \in base .. base + length - 1 : t.at = {x}
        BY Zenon, <3>7, <3>8
      <3>12. t.ok \in BOOLEAN
        BY <3>8 DEF LogicalInv
      <3> QED
        BY Zenon, <3>8, <3>9, <3>10, <3>11, <3>12 DEF LogicalInv, t
    <2> QED
      BY <2>5, <2>6, <2>7 DEF t
  <1> QED
    BY <1>1, <1>2

\* read_logical(): every logical partition lies within the extended one.
LEMMA read_logicalTrue ==
    ASSUME NEW disk, DiskShape(disk), NEW base, NEW length, Extended(disk, base, length),
           NEW table, TableTrue(disk, table)
    PROVE  LogicalInv(disk, base, length, read_logical(disk, base, length, table))
  <1> DEFINE N == max_logical
  <1>1. N \in Nat
    BY PartitionsAssumption
  <1>2. PICK after : LogicalLoop(after, disk, base, length, table)
    BY LogicalTurns
  <1> DEFINE holds == [n \in 0 .. N |-> LogicalInv(disk, base, length, after[n])]
  <1>3. holds[0]
    <2>1. after[0] = [ok |-> TRUE, at |-> {base}, number |-> 5, table |-> table]
      BY <1>2 DEF LogicalLoop
    <2>2. base \in base .. base + length - 1
      BY DEF Extended
    <2>3. LogicalInv(disk, base, length, after[0])
      BY <2>1, <2>2 DEF LogicalInv
    <2> QED
      BY <1>1, <2>3
  <1>4. ASSUME NEW n \in 1 .. N, holds[n - 1] PROVE holds[n]
    <2>1. LogicalInv(disk, base, length, after[n - 1]) /\ n \in 0 .. N
      BY <1>1, <1>4
    <2>2. after[n] = LogicalStep(disk, base, length, after[n - 1])
      BY <1>2 DEF LogicalLoop
    <2>3. LogicalInv(disk, base, length, after[n])
      BY Zenon, <2>1, <2>2, LogicalStepInv
    <2> QED
      BY <2>1, <2>3
  <1>5. \A n \in 0 .. N : holds[n]
    <2> HIDE DEF holds, N
    <2> QED
      BY <1>1, <1>3, <1>4, AfterAll
  <1>6. LogicalInv(disk, base, length, after[N])
    <2>1. N \in 0 .. N
      BY <1>1
    <2> QED
      BY Zenon, <1>5, <2>1
  <1> QED
    BY Zenon, <1>2, <1>6 DEF LogicalLoop

-----------------------------------------------------------------------------
\* The table while the primary entries are read.
PrimaryInv(disk, s) ==
    s = [ok |-> s.ok, table |-> s.table] /\ s.ok \in BOOLEAN /\ TableTrue(disk, s.table)

\* A table of primary entries that are within the disk.
Primary(disk) ==
    /\ ~ Protective(disk) /\ disk.at[0].entries \in [1 .. 4 -> MbrEntries]
    /\ \A i \in 1 .. 4 : disk.at[0].entries[i].type # "empty" => Plausible(disk, disk.at[0].entries[i])

\* One primary entry.
LEMMA PrimaryStepInv ==
    ASSUME NEW disk, DiskShape(disk), Primary(disk), NEW n \in 1 .. 4, NEW s, PrimaryInv(disk, s)
    PROVE  PrimaryInv(disk, PrimaryStep(disk, disk.at[0].entries[n], n, s))
  <1> DEFINE e == disk.at[0].entries[n]
             t == PrimaryStep(disk, e, n, s)
             logical == read_logical(disk, e.start, e.count, s.table)
             p == Partition(n, e.start, e.count)
  <1>1. e \in MbrEntries /\ disk.blocks \in Nat
    BY DEF Primary, DiskShape
  <1>2. e.start \in Nat /\ e.count \in Nat
    BY <1>1 DEF MbrEntries
  <1>3. t = IF ~ s.ok \/ e.type = "empty" THEN s
            ELSE IF extended_type(e.type)
              THEN [ok |-> logical.ok, table |-> IF logical.ok THEN logical.table ELSE NoTable]
            ELSE [s EXCEPT !.table = add(@, p)]
    BY DEF PrimaryStep
  <1> HIDE DEF t, logical, p
  <1>4. CASE ~ s.ok \/ e.type = "empty"
    BY <1>3, <1>4 DEF t
  <1>5. CASE s.ok /\ e.type # "empty" /\ extended_type(e.type)
    <2>1. t = [ok |-> logical.ok, table |-> IF logical.ok THEN logical.table ELSE NoTable]
      BY <1>3, <1>5
    <2>2. Plausible(disk, e)
      BY <1>5 DEF Primary
    <2>3. Extended(disk, e.start, e.count)
      <3>1. e.count # 0 /\ e.start + e.count <= disk.blocks /\ ~ Protective(disk)
        BY <2>2 DEF Plausible, Primary
      <3> QED
        BY ZenonT(30), <1>2, <1>5, <3>1 DEF Extended
    <2>4. LogicalInv(disk, e.start, e.count, logical)
      BY <2>3, read_logicalTrue DEF logical, PrimaryInv
    <2>5. logical.ok \in BOOLEAN /\ TableTrue(disk, logical.table) /\ TableTrue(disk, NoTable)
      BY <2>4, NoTableTrue DEF LogicalInv
    <2>6. t.ok = logical.ok /\ t.table = (IF logical.ok THEN logical.table ELSE NoTable)
          /\ t = [ok |-> t.ok, table |-> t.table]
      BY <2>1
    <2>7. PrimaryInv(disk, t)
      BY Zenon, <2>5, <2>6 DEF PrimaryInv
    <2> QED
      BY <2>7 DEF t
  <1>6. CASE s.ok /\ e.type # "empty" /\ ~ extended_type(e.type)
    <2>1. t = [s EXCEPT !.table = add(@, p)]
      BY <1>3, <1>6
    <2>2. Plausible(disk, e)
      BY <1>6 DEF Primary
    <2>3. e.start + e.count <= disk.blocks
      BY <2>2 DEF Plausible
    <2>4. p \in TableEntries /\ p.number = n /\ p.first = e.start /\ p.count = e.count
      BY SMTT(30), <1>2 DEF p, Partition, TableEntries
    <2>5. p.number <= 4 /\ p.number \in Nat /\ p.first \in Nat /\ p.count \in Nat
          /\ p.first + p.count <= disk.blocks /\ disk.at[0].entries[p.number].start = p.first
      BY SMTT(30), <1>2, <2>3, <2>4
    <2>6. EntryTrue(disk, p)
      BY Zenon, <2>5 DEF EntryTrue, Primary, Protective
    <2>7. TableTrue(disk, add(s.table, p))
      BY <2>4, <2>6, addTrue DEF PrimaryInv
    <2>8. t.ok = s.ok /\ t.table = add(s.table, p) /\ t = [ok |-> t.ok, table |-> t.table]
      BY <2>1 DEF PrimaryInv
    <2>9. PrimaryInv(disk, t)
      BY Zenon, <2>7, <2>8 DEF PrimaryInv
    <2> QED
      BY <2>9 DEF t
  <1> QED
    BY <1>4, <1>5, <1>6

\* The four primary entries, and the logical ones.
LEMMA PrimariesTrue ==
    ASSUME NEW disk, DiskShape(disk), Primary(disk)
    PROVE  PrimaryInv(disk, Primaries(disk, disk.at[0].entries))
  <1>1. PICK after : PrimaryLoop(after, disk, disk.at[0].entries)
    BY PrimaryTurns
  <1> DEFINE holds == [n \in 0 .. 4 |-> PrimaryInv(disk, after[n])]
  <1>2. holds[0]
    <2> DEFINE t == [NoTable EXCEPT !.scheme = "mbr"]
    <2>1. after[0] = [ok |-> TRUE, table |-> t]
      BY <1>1 DEF PrimaryLoop
    <2>2. TableTrue(disk, t)
      BY NoTableTrue
    <2> HIDE DEF t
    <2>3. PrimaryInv(disk, after[0])
      BY <2>1, <2>2 DEF PrimaryInv
    <2> QED
      BY <2>3
  <1>3. ASSUME NEW n \in 1 .. 4, holds[n - 1] PROVE holds[n]
    <2>1. PrimaryInv(disk, after[n - 1]) /\ n \in 0 .. 4
      BY <1>3
    <2>2. after[n] = PrimaryStep(disk, disk.at[0].entries[n], n, after[n - 1])
      BY <1>1 DEF PrimaryLoop
    <2>3. PrimaryInv(disk, after[n])
      BY Zenon, <2>1, <2>2, PrimaryStepInv
    <2> QED
      BY <2>1, <2>3
  <1>4. \A n \in 0 .. 4 : holds[n]
    <2> HIDE DEF holds
    <2> QED
      BY <1>2, <1>3, AfterAll
  <1>5. PrimaryInv(disk, after[4])
    <2>1. 4 \in 0 .. 4
      OBVIOUS
    <2> QED
      BY Zenon, <1>4, <2>1
  <1> QED
    BY Zenon, <1>1, <1>5 DEF PrimaryLoop

\* read(): whatever is on the disk, and whatever of it cannot be read, the table
\* has only partitions the disk's own table gives.
LEMMA readTrue ==
    ASSUME NEW disk, DiskShape(disk)
    PROVE  TableTrue(disk, read(disk).table)
  <1> DEFINE none == [ok |-> TRUE, table |-> NoTable]
             failed == [ok |-> FALSE, table |-> NoTable]
             sector == disk.at[0]
             Used(entries) == {i \in 1 .. 4 : entries[i].type # "empty"}
             primary == read_gpt(disk, 1, NoTable)
             backup == read_gpt(disk, disk.blocks - 1, primary.table)
             Bad == \E i \in 1 .. 4 : ~ sector.entries[i].status_ok
             Outside == \E i \in Used(sector.entries) :
                           sector.entries[i].type # "protective" /\ ~ Plausible(disk, sector.entries[i])
             r == read(disk)
  <1>1. TableTrue(disk, none.table) /\ TableTrue(disk, failed.table)
    BY NoTableTrue
  <1>2. CASE r = none \/ r = failed
    BY Zenon, <1>1, <1>2
  <1>3. CASE ~ (r = none \/ r = failed)
    <2>1. /\ disk.block_size_ok /\ ~ (disk.blocks < 2) /\ Sector(disk, 0) # {}
      BY Zenon, <1>3 DEF read
    <2>2. (CHOOSE x \in Sector(disk, 0) : TRUE) = sector
      BY <2>1, SectorIs
    <2>3. r = IF ~ has_signature(sector) \/ file_system_boot_sector(sector) THEN none
              ELSE IF Bad THEN none
              ELSE IF Outside THEN none
              ELSE IF Protective(disk)
                     THEN IF primary.ok THEN primary
                          ELSE IF backup.ok THEN [backup EXCEPT !.table.used_backup = TRUE]
                          ELSE failed
              ELSE Primaries(disk, sector.entries)
      BY Zenon, <2>1, <2>2 DEF read, Protective
    <2> HIDE DEF r
    <2>4. has_signature(sector) /\ ~ Outside
      BY Zenon, <1>3, <2>3
    <2>5. r = IF Protective(disk)
                THEN IF primary.ok THEN primary
                     ELSE IF backup.ok THEN [backup EXCEPT !.table.used_backup = TRUE]
                     ELSE failed
              ELSE Primaries(disk, sector.entries)
      BY Zenon, <1>3, <2>3
    <2>6. disk.blocks \in Nat /\ disk.blocks >= 2
      BY <2>1 DEF DiskShape
    <2>7. CASE Protective(disk) /\ primary.ok
      <3>1. r = primary
        BY Zenon, <2>5, <2>7
      <3>2. TableTrue(disk, primary.table)
        BY <2>6, <2>7, read_gptTrue
      <3> QED
        BY <3>1, <3>2 DEF r
    <2>8. CASE Protective(disk) /\ ~ primary.ok /\ backup.ok
      <3> HIDE DEF primary
      <3>1. r = [backup EXCEPT !.table.used_backup = TRUE]
        BY Zenon, <2>5, <2>8
      <3>2. TableTrue(disk, backup.table)
        BY <2>6, <2>8, read_gptTrue
      <3>3. "table" \in DOMAIN backup
        BY DEF read_gpt
      <3> HIDE DEF backup
      <3> DEFINE t == [backup.table EXCEPT !.used_backup = TRUE]
      <3>4. r.table = t
        BY <3>1, <3>3
      <3>5. t.entries = backup.table.entries /\ t = [scheme |-> t.scheme, entries |-> t.entries,
                                                    truncated |-> t.truncated, used_backup |-> t.used_backup]
        <4> DEFINE b == backup.table
        <4>1. b = [scheme |-> b.scheme, entries |-> b.entries, truncated |-> b.truncated,
                   used_backup |-> b.used_backup]
          BY Zenon, <3>2 DEF TableTrue
        <4> HIDE DEF b
        <4>2. t = [b EXCEPT !.used_backup = TRUE] /\ backup.table = b
          BY DEF b
        <4> HIDE DEF t
        <4> QED
          BY Zenon, <4>1, <4>2
      <3> HIDE DEF t
      <3>6. TableTrue(disk, t)
        BY Zenon, <3>2, <3>5 DEF TableTrue
      <3> QED
        BY <3>4, <3>6 DEF r
    <2>9. CASE ~ Protective(disk)
      <3>1. r = Primaries(disk, sector.entries)
        BY Zenon, <2>5, <2>9
      <3>2. Primary(disk)
        <4>1. sector.entries \in [1 .. 4 -> MbrEntries]
          <5>1. 0 \in 0 .. disk.blocks - 1
            BY <2>6
          <5> QED
            BY Zenon, <2>4, <5>1 DEF DiskShape, has_signature
        <4>2. \A i \in 1 .. 4 : sector.entries[i].type # "empty" => Plausible(disk, sector.entries[i])
          BY Zenon, <2>4, <2>9 DEF Protective
        <4> QED
          BY Zenon, <2>9, <4>1, <4>2 DEF Primary
      <3>3. PrimaryInv(disk, r)
        BY <3>1, <3>2, PrimariesTrue
      <3> QED
        BY <3>3 DEF PrimaryInv, r
    <2> QED
      BY Zenon, <1>3, <2>5, <2>7, <2>8, <2>9
  <1> QED
    BY <1>2, <1>3

-----------------------------------------------------------------------------
(* The registry and the partition slots. *)

\* What the registry points at: the console and the RAM disk, disks, and windows.
Refs == ({"other"} \X {"console", "ram0"}) \cup ({"disk"} \X Nat) \cup ({"window"} \X Windows)

\* the name of the Device object behind an entry, the slots being wins
NameIn(ref, wins) ==
    CASE ref[1] = "other" -> ref[2]
      [] ref[1] = "disk" -> DiskName(ref[2])
      [] OTHER -> wins[ref[2]].name

\* The registry points at the device of slot w.
Registered(reg, w) == \E i \in DOMAIN reg : reg[i] = <<"window", w>>

\* No two registered devices share a name.
OneName(reg, wins) ==
    \A i, j \in DOMAIN reg : NameIn(reg[i], wins) = NameIn(reg[j], wins) => i = j

\* The registry and the slots: a slot is used exactly while its device is registered.
RegistryInv(reg, wins) ==
    /\ reg \in Seq(Refs)
    /\ wins = [w \in Windows |-> wins[w]]
    /\ \A w \in Windows : wins[w].used \in BOOLEAN /\ (wins[w].used <=> Registered(reg, w))
    /\ OneName(reg, wins)

\* In a state the name of a registered device is NameIn.
LEMMA NameOfIs ==
    ASSUME NEW ref
    PROVE  NameOf(ref) = NameIn(ref, windows)
  BY DEF NameOf, NameIn

\* find() goes by that name.
LEMMA NamedIs ==
    ASSUME NEW reg \in Seq(Refs), NEW wins, NEW name
    PROVE  Named(reg, wins, name) = {i \in DOMAIN reg : NameIn(reg[i], wins) = name}
  <1>1. ASSUME NEW i \in DOMAIN reg
        PROVE  NameIn(reg[i], wins) =
                 IF reg[i][1] = "window" THEN wins[reg[i][2]].name ELSE NameOf(reg[i])
    <2>1. reg[i] \in Refs
      OBVIOUS
    <2>2. reg[i][1] \in {"other", "disk", "window"}
      BY <2>1 DEF Refs
    <2> QED
      BY <2>2 DEF NameIn, NameOf
  <1> HIDE DEF NameIn
  <1> QED
    BY <1>1 DEF Named

\* register_device() adds a device of a name nobody has.
LEMMA Appended ==
    ASSUME NEW reg, NEW wins, NEW ref \in Refs, RegistryInv(reg, wins), ref[1] # "window",
           Registers(reg, wins, NameIn(ref, wins))
    PROVE  RegistryInv(Append(reg, ref), wins)
  <1> DEFINE new == Append(reg, ref)
             n == Len(reg)
  <1>1. /\ reg \in Seq(Refs) /\ n \in Nat /\ DOMAIN reg = 1 .. n
        /\ new \in Seq(Refs) /\ DOMAIN new = 1 .. n + 1
        /\ \A i \in 1 .. n : new[i] = reg[i]
        /\ new[n + 1] = ref
    BY DEF RegistryInv
  <1>2. \A i \in 1 .. n : NameIn(reg[i], wins) # NameIn(ref, wins)
    <2>1. Named(reg, wins, NameIn(ref, wins)) =
            {i \in DOMAIN reg : NameIn(reg[i], wins) = NameIn(ref, wins)}
      BY <1>1, NamedIs
    <2> QED
      BY <1>1, <2>1 DEF Registers
  <1> HIDE DEF new, n
  <1>3. OneName(new, wins)
    BY <1>1, <1>2 DEF OneName, RegistryInv
  <1>4. \A w \in Windows : Registered(new, w) <=> Registered(reg, w)
    <2> SUFFICES ASSUME NEW w \in Windows PROVE Registered(new, w) <=> Registered(reg, w)
      OBVIOUS
    <2>1. ref # <<"window", w>>
      OBVIOUS
    <2> QED
      BY <1>1, <2>1 DEF Registered
  <1> QED
    BY <1>1, <1>3, <1>4 DEF RegistryInv, new

\* The first unused slot.
LEMMA FirstUnused ==
    ASSUME NEW wins, NEW unused, unused = {v \in Windows : ~ wins[v].used}, unused # {},
           NEW w, w = CHOOSE v \in unused : \A o \in unused : v <= o
    PROVE  w \in Windows /\ ~ wins[w].used
  <1>1. unused \in SUBSET Nat
    BY DEF Windows
  <1>2. \E v \in unused : \A o \in unused : v <= o
    BY <1>1, LeastNumber
  <1>3. w \in unused
    BY Zenon, <1>2
  <1> QED
    BY <1>3

\* publish() registers a device for a slot it has just filled.
LEMMA Published ==
    ASSUME NEW reg, NEW wins, RegistryInv(reg, wins), NEW w \in Windows, ~ wins[w].used,
           NEW window, window.used = TRUE, Registers(reg, wins, window.name)
    PROVE  RegistryInv(Append(reg, <<"window", w>>), [wins EXCEPT ![w] = window])
  <1> DEFINE new == Append(reg, <<"window", w>>)
             after == [wins EXCEPT ![w] = window]
             n == Len(reg)
  <1>1. /\ reg \in Seq(Refs) /\ n \in Nat /\ DOMAIN reg = 1 .. n
        /\ \A i \in 1 .. n : reg[i] \in Refs
    BY DEF RegistryInv
  <1>2. <<"window", w>> \in Refs
    BY DEF Refs
  <1>3. /\ new \in Seq(Refs) /\ DOMAIN new = 1 .. n + 1
        /\ \A i \in 1 .. n : new[i] = reg[i]
        /\ new[n + 1] = <<"window", w>>
    BY <1>1, <1>2
  <1>4. /\ after = [v \in Windows |-> after[v]] /\ after[w] = window
        /\ \A v \in Windows : v # w => after[v] = wins[v]
    BY DEF RegistryInv
  <1>5. \A i \in 1 .. n : NameIn(reg[i], wins) # window.name
    <2>1. Named(reg, wins, window.name) = {i \in DOMAIN reg : NameIn(reg[i], wins) = window.name}
      BY <1>1, NamedIs
    <2> QED
      BY <1>1, <2>1 DEF Registers
  <1> HIDE DEF new, after, n
  <1>6. \A i \in 1 .. n : reg[i] # <<"window", w>>
    BY <1>1 DEF RegistryInv, Registered
  <1>7. \A i \in 1 .. n : NameIn(reg[i], after) = NameIn(reg[i], wins)
    <2> SUFFICES ASSUME NEW i \in 1 .. n PROVE NameIn(reg[i], after) = NameIn(reg[i], wins)
      OBVIOUS
    <2>1. reg[i] \in Refs /\ reg[i] # <<"window", w>>
      BY <1>1, <1>6
    <2>2. reg[i][1] \in {"other", "disk"} \/ (reg[i][2] \in Windows /\ reg[i][2] # w)
      BY <2>1 DEF Refs
    <2> QED
      BY <1>4, <2>2 DEF NameIn
  <1>8. NameIn(<<"window", w>>, after) = window.name
    BY <1>4 DEF NameIn
  <1>9. OneName(new, after)
    <2>1. \A i \in 1 .. n : NameIn(new[i], after) = NameIn(reg[i], wins)
      BY <1>3, <1>7
    <2>2. NameIn(new[n + 1], after) = window.name
      BY <1>3, <1>8
    <2> SUFFICES ASSUME NEW i \in DOMAIN new, NEW j \in DOMAIN new,
                        NameIn(new[i], after) = NameIn(new[j], after)
                 PROVE  i = j
      BY DEF OneName
    <2>3. (i \in 1 .. n \/ i = n + 1) /\ (j \in 1 .. n \/ j = n + 1)
      BY <1>1, <1>3
    <2>4. CASE i \in 1 .. n /\ j \in 1 .. n
      <3>1. NameIn(reg[i], wins) = NameIn(reg[j], wins)
        BY Zenon, <2>1, <2>4
      <3> QED
        BY Zenon, <1>1, <2>4, <3>1 DEF OneName, RegistryInv
    <2> QED
      BY Zenon, <1>5, <2>1, <2>2, <2>3, <2>4
  <1>10. \A v \in Windows : v # w => (Registered(new, v) <=> Registered(reg, v))
    <2> SUFFICES ASSUME NEW v \in Windows, v # w PROVE Registered(new, v) <=> Registered(reg, v)
      OBVIOUS
    <2>1. <<"window", v>> # <<"window", w>>
      OBVIOUS
    <2>2. \A i : i \in 1 .. n + 1 <=> i \in 1 .. n \/ i = n + 1
      BY <1>1
    <2> QED
      BY Zenon, <1>1, <1>3, <2>1, <2>2 DEF Registered
  <1>11. Registered(new, w)
    BY <1>1, <1>3 DEF Registered
  <1>12. \A v \in Windows : after[v].used \in BOOLEAN /\ (after[v].used <=> Registered(new, v))
    BY Zenon, <1>4, <1>10, <1>11 DEF RegistryInv
  <1> QED
    BY Zenon, <1>3, <1>4, <1>9, <1>12 DEF RegistryInv, new, after

\* One turn of publish() keeps the registry and the slots in agreement.
LEMMA PublishStepInv ==
    ASSUME NEW slot, NEW e, NEW s, RegistryInv(s.registry, s.windows)
    PROVE  LET t == PublishStep(slot, e, s) IN RegistryInv(t.registry, t.windows)
  <1> DEFINE unused == {w \in Windows : ~ s.windows[w].used}
             w == CHOOSE w \in unused : \A o \in unused : w <= o
             name == partition_name(DiskName(slot), e.number)
             window == [used |-> TRUE, disk |-> slot, name |-> name,
                        number |-> e.number, first |-> e.first, count |-> e.count]
             t == PublishStep(slot, e, s)
  <1>1. CASE unused = {} \/ ~ Registers(s.registry, s.windows, name)
    BY <1>1 DEF PublishStep
  <1>2. CASE unused # {} /\ Registers(s.registry, s.windows, name)
    <2>1. t = [windows |-> [s.windows EXCEPT ![w] = window],
               registry |-> Append(s.registry, <<"window", w>>)]
      BY <1>2 DEF PublishStep
    <2>2. w \in Windows /\ ~ s.windows[w].used
      <3>1. unused # {}
        BY <1>2
      <3> QED
        BY Zenon, <3>1, FirstUnused
    <2>3. window.used = TRUE /\ window.name = name
      OBVIOUS
    <2> HIDE DEF w, window, name, unused
    <2>4. RegistryInv(Append(s.registry, <<"window", w>>), [s.windows EXCEPT ![w] = window])
      BY Zenon, <1>2, <2>2, <2>3, Published
    <2> QED
      BY <2>1, <2>4
  <1> QED
    BY <1>1, <1>2

\* The turns of publish()'s loop.
PublishLoop(after, slot, reg, entries) ==
    /\ after[0] = [windows |-> windows, registry |-> reg]
    /\ \A n \in 1 .. Len(entries) : after[n] = PublishStep(slot, entries[n], after[n - 1])
    /\ Publish(slot, reg, entries) = after[Len(entries)]

\* The loop of publish(): Publish is where it ends.
LEMMA PublishTurns ==
    ASSUME NEW slot, NEW reg, NEW entries, Len(entries) \in Nat
    PROVE  \E after : PublishLoop(after, slot, reg, entries)
  <1> DEFINE N == Len(entries)
             first == [windows |-> windows, registry |-> reg]
             Turns(f, m) == f = [n \in 0 .. m |-> IF n = 0 THEN first
                                                 ELSE PublishStep(slot, entries[n], f[n - 1])]
             have == [m \in 0 .. N |-> \E f : Turns(f, m)]
  <1>1. have[0]
    <2> DEFINE f == [n \in 0 .. 0 |-> first]
    <2>1. Turns(f, 0)
      OBVIOUS
    <2>2. 0 \in 0 .. N
      OBVIOUS
    <2> QED
      BY Zenon, <2>1, <2>2
  <1>2. ASSUME NEW m \in 1 .. N, have[m - 1] PROVE have[m]
    <2>1. m - 1 \in 0 .. N /\ m \in 0 .. N
      OBVIOUS
    <2>2. PICK f : Turns(f, m - 1)
      BY Zenon, <1>2, <2>1
    <2> DEFINE g == [n \in 0 .. m |-> IF n = m THEN PublishStep(slot, entries[m], f[m - 1]) ELSE f[n]]
    <2>3. Turns(g, m)
      <3>1. \A n \in 0 .. m - 1 : g[n] = f[n] /\ n \in 0 .. m /\ n # m
        OBVIOUS
      <3>2. ASSUME NEW n \in 0 .. m
            PROVE  g[n] = IF n = 0 THEN first ELSE PublishStep(slot, entries[n], g[n - 1])
        <4>1. CASE n = m
          <5>1. g[n] = PublishStep(slot, entries[n], f[n - 1]) /\ n - 1 \in 0 .. m - 1 /\ n # 0
            BY <4>1
          <5> QED
            BY Zenon, <3>1, <5>1
        <4>2. CASE n # m
          <5>1. n \in 0 .. m - 1 /\ (n # 0 => n - 1 \in 0 .. m - 1)
            BY <4>2
          <5> HIDE DEF g
          <5>2. f[n] = IF n = 0 THEN first ELSE PublishStep(slot, entries[n], f[n - 1])
            BY Zenon, <2>2, <5>1
          <5> QED
            BY Zenon, <3>1, <5>1, <5>2
        <4> QED
          BY <4>1, <4>2
      <3> QED
        BY Zenon, <3>2
    <2> QED
      BY Zenon, <2>1, <2>3
  <1>3. \E f : Turns(f, N)
    <2>1. \A n \in 0 .. N : have[n]
      <3> HIDE DEF have
      <3> QED
        BY Zenon, <1>1, <1>2, AfterAll
    <2>2. N \in 0 .. N
      OBVIOUS
    <2> QED
      BY Zenon, <2>1, <2>2
  <1> DEFINE after == CHOOSE f : Turns(f, N)
  <1>4. Turns(after, N)
    <2> HIDE DEF Turns
    <2> QED
      BY Zenon, <1>3
  <1>5. Publish(slot, reg, entries) = after[N]
    BY Zenon DEF Publish
  <1> HIDE DEF after
  <1>6. after[0] = first
    <2>1. 0 \in 0 .. N
      OBVIOUS
    <2> QED
      BY Zenon, <1>4, <2>1
  <1>7. \A n \in 1 .. N : after[n] = PublishStep(slot, entries[n], after[n - 1])
    <2>1. \A n \in 1 .. N : n \in 0 .. N /\ n # 0
      OBVIOUS
    <2> QED
      BY Zenon, <1>4, <2>1
  <1> QED
    BY Zenon, <1>5, <1>6, <1>7 DEF PublishLoop

\* The partition in a slot is what its disk's table gives.
WindowsIn(wins, hw, on) ==
    \A w \in Windows : wins[w].used =>
        wins[w].disk \in DOMAIN on /\ EntryTrue(hw[on[wins[w].disk]], wins[w])

\* What every turn of publish()'s loop keeps.
PublishHolds(s, hw, on) == RegistryInv(s.registry, s.windows) /\ WindowsIn(s.windows, hw, on)

\* Only where it is and its number make a partition true.
LEMMA EntrySame ==
    ASSUME NEW disk, NEW e, NEW f, EntryTrue(disk, e),
           f.number = e.number, f.first = e.first, f.count = e.count
    PROVE  EntryTrue(disk, f)
  BY ZenonT(30) DEF EntryTrue

\* One turn of publish() fills a slot with the partition of the entry.
LEMMA PublishStepTrue ==
    ASSUME NEW hw, NEW on, NEW slot \in DOMAIN on, NEW e, EntryTrue(hw[on[slot]], e),
           NEW s, PublishHolds(s, hw, on)
    PROVE  PublishHolds(PublishStep(slot, e, s), hw, on)
  <1> DEFINE unused == {w \in Windows : ~ s.windows[w].used}
             w == CHOOSE w \in unused : \A o \in unused : w <= o
             name == partition_name(DiskName(slot), e.number)
             window == [used |-> TRUE, disk |-> slot, name |-> name,
                        number |-> e.number, first |-> e.first, count |-> e.count]
             t == PublishStep(slot, e, s)
  <1>1. RegistryInv(t.registry, t.windows)
    BY Zenon, PublishStepInv DEF PublishHolds
  <1>2. CASE unused = {} \/ ~ Registers(s.registry, s.windows, name)
    BY <1>2 DEF PublishStep
  <1>3. CASE unused # {} /\ Registers(s.registry, s.windows, name)
    <2>1. t = [windows |-> [s.windows EXCEPT ![w] = window],
               registry |-> Append(s.registry, <<"window", w>>)]
      BY <1>3 DEF PublishStep
    <2>2. window.disk = slot /\ window.number = e.number /\ window.first = e.first /\ window.count = e.count
      OBVIOUS
    <2> HIDE DEF w, window, t
    <2>3. EntryTrue(hw[on[slot]], window)
      BY ZenonT(30), <2>2, EntrySame
    <2>4. \A v \in Windows : t.windows[v] = IF v = w THEN window ELSE s.windows[v]
      BY <2>1 DEF PublishHolds, RegistryInv
    <2>5. WindowsIn(t.windows, hw, on)
      BY Zenon, <2>2, <2>3, <2>4 DEF WindowsIn, PublishHolds
    <2> QED
      BY <1>1, <2>5 DEF PublishHolds, t
  <1> QED
    BY <1>2, <1>3

\* publish() keeps the registry and the slots in agreement, and fills slots only
\* with partitions of the table it is given.
LEMMA PublishTrue ==
    ASSUME NEW hw, NEW on, NEW slot \in DOMAIN on, NEW reg, NEW entries, Len(entries) \in Nat,
           \A n \in 1 .. Len(entries) : EntryTrue(hw[on[slot]], entries[n]),
           RegistryInv(reg, windows), WindowsIn(windows, hw, on)
    PROVE  PublishHolds(Publish(slot, reg, entries), hw, on)
  <1>1. PICK after : PublishLoop(after, slot, reg, entries)
    BY PublishTurns
  <1> DEFINE N == Len(entries)
             holds == [n \in 0 .. N |-> PublishHolds(after[n], hw, on)]
  <1>2. holds[0]
    <2>1. PublishHolds(after[0], hw, on)
      BY <1>1 DEF PublishLoop, PublishHolds
    <2> QED
      BY <2>1
  <1>3. ASSUME NEW n \in 1 .. N, holds[n - 1] PROVE holds[n]
    <2>1. PublishHolds(after[n - 1], hw, on) /\ n \in 0 .. N
      BY <1>3
    <2>2. after[n] = PublishStep(slot, entries[n], after[n - 1])
      BY <1>1 DEF PublishLoop
    <2>3. PublishHolds(after[n], hw, on)
      BY Zenon, <2>1, <2>2, PublishStepTrue
    <2> QED
      BY <2>1, <2>3
  <1>4. \A n \in 0 .. N : holds[n]
    <2> HIDE DEF holds
    <2> QED
      BY <1>2, <1>3, AfterAll
  <1>5. PublishHolds(after[N], hw, on)
    <2>1. N \in 0 .. N
      OBVIOUS
    <2> QED
      BY Zenon, <1>4, <2>1
  <1> QED
    BY ZenonT(30), <1>1, <1>5 DEF PublishLoop

\* unregister_device() takes one entry out.
LEMMA UnregisteredIs ==
    ASSUME NEW reg \in Seq(Refs), NEW wins, OneName(reg, wins), NEW ref
    PROVE  LET new == Unregistered(reg, ref)
           IN  /\ new \in Seq(Refs) /\ OneName(new, wins)
               /\ \A v : Registered(new, v) <=> Registered(reg, v) /\ <<"window", v>> # ref
  <1> DEFINE new == Unregistered(reg, ref)
             n == Len(reg)
             i == CHOOSE i \in DOMAIN reg : reg[i] = ref
  <1>1. n \in Nat /\ DOMAIN reg = 1 .. n /\ \A k \in 1 .. n : reg[k] \in Refs
    OBVIOUS
  <1> HIDE DEF n
  <1>2. CASE ~ \E k \in DOMAIN reg : reg[k] = ref
    <2>1. new = reg
      BY <1>2 DEF Unregistered
    <2> QED
      BY <1>2, <2>1 DEF Registered
  <1>3. CASE \E k \in DOMAIN reg : reg[k] = ref
    <2>1. i \in 1 .. n /\ reg[i] = ref
      BY Zenon, <1>1, <1>3
    <2>2. new = SubSeq([reg EXCEPT ![i] = reg[n]], 1, n - 1)
      BY <1>3 DEF Unregistered, n
    <2> HIDE DEF i
    <2> DEFINE put == [reg EXCEPT ![i] = reg[n]]
               From(k) == IF k = i THEN n ELSE k
    <2>3. put \in Seq(Refs) /\ Len(put) = n /\ \A k \in 1 .. n : put[k] = reg[From(k)]
      BY <1>1, <2>1 DEF n
    <2> HIDE DEF put
    <2>4. /\ new \in Seq(Refs) /\ DOMAIN new = 1 .. n - 1
          /\ \A k \in 1 .. n - 1 : new[k] = put[k]
      BY <1>1, <2>1, <2>2, <2>3 DEF put
    <2> HIDE DEF new
    <2>5. \A k \in 1 .. n - 1 : new[k] = reg[From(k)] /\ From(k) \in 1 .. n /\ From(k) # i
      <3> SUFFICES ASSUME NEW k \in 1 .. n - 1
                   PROVE  new[k] = reg[From(k)] /\ From(k) \in 1 .. n /\ From(k) # i
        OBVIOUS
      <3>1. k \in 1 .. n /\ From(k) \in 1 .. n /\ From(k) # i
        BY <1>1, <2>1
      <3> QED
        BY Zenon, <2>3, <2>4, <3>1
    <2>6. OneName(new, wins)
      <3> SUFFICES ASSUME NEW a \in 1 .. n - 1, NEW b \in 1 .. n - 1,
                          NameIn(new[a], wins) = NameIn(new[b], wins)
                   PROVE  a = b
        BY <2>4 DEF OneName
      <3>1. NameIn(reg[From(a)], wins) = NameIn(reg[From(b)], wins)
        BY Zenon, <2>5
      <3>2. From(a) = From(b)
        BY Zenon, <1>1, <2>5, <3>1 DEF OneName
      <3> QED
        BY <2>1, <3>2
    <2>7. ASSUME NEW v PROVE Registered(new, v) <=> Registered(reg, v) /\ <<"window", v>> # ref
      <3>1. ASSUME Registered(new, v) PROVE Registered(reg, v) /\ <<"window", v>> # ref
        <4>1. PICK k \in 1 .. n - 1 : new[k] = <<"window", v>>
          BY <2>4, <3>1 DEF Registered
        <4>2. reg[From(k)] = <<"window", v>> /\ From(k) \in 1 .. n /\ From(k) # i
          BY Zenon, <2>5, <4>1
        <4>3. <<"window", v>> # ref
          BY Zenon, <1>1, <2>1, <4>2 DEF OneName
        <4> QED
          BY Zenon, <1>1, <4>2, <4>3 DEF Registered
      <3>2. ASSUME Registered(reg, v), <<"window", v>> # ref PROVE Registered(new, v)
        <4>1. PICK k \in 1 .. n : reg[k] = <<"window", v>>
          BY <1>1, <3>2 DEF Registered
        <4>2. k # i
          BY Zenon, <2>1, <3>2, <4>1
        <4> DEFINE m == IF k = n THEN i ELSE k
        <4>3. m \in 1 .. n - 1 /\ From(m) = k
          BY <1>1, <2>1, <4>2
        <4> HIDE DEF m
        <4> QED
          BY <2>4, <2>5, <4>1, <4>3 DEF Registered
      <3> QED
        BY <3>1, <3>2
    <2> QED
      BY <2>4, <2>6, <2>7 DEF new
  <1> QED
    BY <1>2, <1>3

-----------------------------------------------------------------------------
\* The turns of unpublish()'s loop.
UnpublishLoop(after, gone) ==
    /\ after[0] = registry
    /\ \A n \in Windows : after[n] = IF n \in gone THEN Unregistered(after[n - 1], <<"window", n>>)
                                     ELSE after[n - 1]
    /\ Unpublished(gone) = after[max_windows]

\* The loop of unpublish(): Unpublished is where it ends.
LEMMA UnpublishTurns ==
    ASSUME NEW gone
    PROVE  \E after : UnpublishLoop(after, gone)
  <1> DEFINE N == max_windows
             Turn(n, reg) == IF n \in gone THEN Unregistered(reg, <<"window", n>>) ELSE reg
             Turns(f, m) == f = [n \in 0 .. m |-> IF n = 0 THEN registry ELSE Turn(n, f[n - 1])]
             have == [m \in 0 .. N |-> \E f : Turns(f, m)]
  <1>0. N \in Nat
    BY PartitionsAssumption
  <1> HIDE DEF N
  <1>1. have[0]
    <2> DEFINE f == [n \in 0 .. 0 |-> registry]
    <2>1. Turns(f, 0)
      OBVIOUS
    <2>2. 0 \in 0 .. N
      BY <1>0
    <2> QED
      BY Zenon, <2>1, <2>2
  <1>2. ASSUME NEW m \in 1 .. N, have[m - 1] PROVE have[m]
    <2>1. m - 1 \in 0 .. N /\ m \in 0 .. N
      BY <1>0
    <2>2. PICK f : Turns(f, m - 1)
      BY Zenon, <1>2, <2>1
    <2> HIDE DEF Turn
    <2> DEFINE g == [n \in 0 .. m |-> IF n = m THEN Turn(m, f[m - 1]) ELSE f[n]]
    <2>3. Turns(g, m)
      <3>1. \A n \in 0 .. m - 1 : g[n] = f[n] /\ n \in 0 .. m /\ n # m
        OBVIOUS
      <3>2. ASSUME NEW n \in 0 .. m
            PROVE  g[n] = IF n = 0 THEN registry ELSE Turn(n, g[n - 1])
        <4>1. CASE n = m
          <5>1. g[n] = Turn(n, f[n - 1]) /\ n - 1 \in 0 .. m - 1 /\ n # 0
            BY <4>1
          <5> QED
            BY Zenon, <3>1, <5>1
        <4>2. CASE n # m
          <5>1. n \in 0 .. m - 1 /\ (n # 0 => n - 1 \in 0 .. m - 1)
            BY <4>2
          <5> HIDE DEF g
          <5>2. f[n] = IF n = 0 THEN registry ELSE Turn(n, f[n - 1])
            BY Zenon, <2>2, <5>1
          <5> QED
            BY Zenon, <3>1, <5>1, <5>2
        <4> QED
          BY <4>1, <4>2
      <3> QED
        BY Zenon, <3>2
    <2> QED
      BY Zenon, <2>1, <2>3
  <1>3. \E f : Turns(f, N)
    <2>1. \A n \in 0 .. N : have[n]
      <3> HIDE DEF have
      <3> QED
        BY <1>0, <1>1, <1>2, AfterAll
    <2>2. N \in 0 .. N
      BY <1>0
    <2> QED
      BY Zenon, <2>1, <2>2
  <1> DEFINE after == CHOOSE f : Turns(f, N)
  <1>4. Turns(after, N)
    <2> HIDE DEF Turns
    <2> QED
      BY Zenon, <1>3
  <1>5. Unpublished(gone) = after[N]
    BY Zenon DEF Unpublished, N
  <1> HIDE DEF after, Turn
  <1>6. after[0] = registry
    <2>1. 0 \in 0 .. N
      BY <1>0
    <2> QED
      BY Zenon, <1>4, <2>1
  <1>7. \A n \in 1 .. N : after[n] = Turn(n, after[n - 1])
    <2>1. \A n \in 1 .. N : n \in 0 .. N /\ n # 0
      BY <1>0
    <2> QED
      BY Zenon, <1>4, <2>1
  <1> QED
    BY Zenon, <1>5, <1>6, <1>7 DEF UnpublishLoop, Windows, N, Turn

\* unpublish() takes the entries of the slots it frees out of the registry.
LEMMA UnpublishedIs ==
    ASSUME NEW gone \in SUBSET Windows, RegistryInv(registry, windows)
    PROVE  /\ Unpublished(gone) \in Seq(Refs) /\ OneName(Unpublished(gone), windows)
           /\ \A v \in Windows : Registered(Unpublished(gone), v) <=> windows[v].used /\ v \notin gone
  <1>0. max_windows \in Nat /\ Windows = 1 .. max_windows
    BY PartitionsAssumption DEF Windows
  <1>1. PICK after : UnpublishLoop(after, gone)
    BY UnpublishTurns
  <1> DEFINE Holds(reg, n) ==
               /\ reg \in Seq(Refs) /\ OneName(reg, windows)
               /\ \A v \in Windows : Registered(reg, v) <=> windows[v].used /\ ~ (v \in gone /\ v <= n)
             holds == [n \in 0 .. max_windows |-> Holds(after[n], n)]
  <1>2. holds[0]
    <2>1. after[0] = registry
      BY <1>1 DEF UnpublishLoop
    <2>2. \A v \in Windows : ~ (v <= 0)
      BY <1>0
    <2>3. Holds(registry, 0)
      BY <2>2 DEF RegistryInv
    <2> QED
      BY <1>0, <2>1, <2>3
  <1>3. ASSUME NEW n \in 1 .. max_windows, holds[n - 1] PROVE holds[n]
    <2> DEFINE old == after[n - 1]
    <2>1. Holds(old, n - 1)
      BY <1>0, <1>3
    <2>2. after[n] = IF n \in gone THEN Unregistered(old, <<"window", n>>) ELSE old
      BY <1>0, <1>1 DEF UnpublishLoop
    <2> HIDE DEF old
    <2>3. \A v \in Windows : v <= n <=> v <= n - 1 \/ v = n
      BY <1>0
    <2>4. Holds(after[n], n)
      <3>1. CASE n \in gone
        <4>1. after[n] = Unregistered(old, <<"window", n>>)
          BY <2>2, <3>1
        <4>2. /\ after[n] \in Seq(Refs) /\ OneName(after[n], windows)
              /\ \A v : Registered(after[n], v) <=> Registered(old, v) /\ <<"window", v>> # <<"window", n>>
          BY ZenonT(30), <2>1, <4>1, UnregisteredIs
        <4>3. \A v : <<"window", v>> = <<"window", n>> <=> v = n
          OBVIOUS
        <4> QED
          BY Zenon, <2>1, <2>3, <3>1, <4>2, <4>3
      <3>2. CASE n \notin gone
        BY <2>1, <2>2, <2>3, <3>2
      <3> QED
        BY <3>1, <3>2
    <2> QED
      BY <1>0, <2>4
  <1>4. Holds(after[max_windows], max_windows)
    <2>1. \A n \in 0 .. max_windows : holds[n]
      <3> HIDE DEF holds
      <3> QED
        BY Zenon, <1>0, <1>2, <1>3, AfterAll
    <2> HIDE DEF Holds
    <2> QED
      BY <1>0, <2>1
  <1>5. Unpublished(gone) = after[max_windows]
    BY <1>1 DEF UnpublishLoop
  <1>6. \A v \in Windows : v <= max_windows
    BY <1>0
  <1> QED
    BY Zenon, <1>4, <1>5, <1>6

-----------------------------------------------------------------------------
(* The disks, their partitions and the registry. *)

\* Inductive: every used window is a partition of the disk behind it, and the
\* registry and the slots of partition.cpp are in step.
StorageInv ==
    /\ \A d \in DOMAIN hardware : DiskShape(hardware[d])
    /\ attached \in Seq(DOMAIN hardware)
    /\ RegistryInv(registry, windows)
    /\ WindowsIn(windows, hardware, attached)

\* attach_block() registers the disk and the partitions of its table.
LEMMA attach_blockStorageInv ==
    ASSUME StorageInv, NEW starts, NEW memory, attach_block(starts, memory)
    PROVE  StorageInv'
  <1> DEFINE slot == Len(attached) + 1
             d == probed + 1
             table == IF memory THEN read(hardware[d]).table ELSE NoTable
             with == Append(registry, <<"disk", slot>>)
             after == Publish(slot, with, table.entries)
             registers == /\ slot <= max_block_devices /\ starts
                          /\ Registers(registry, windows, DiskName(slot))
  <1>1. /\ d \in DOMAIN hardware /\ hardware' = hardware
        /\ attached' = IF registers THEN Append(attached, d) ELSE attached
        /\ registry' = IF registers THEN after.registry ELSE registry
        /\ windows' = IF registers THEN after.windows ELSE windows
    BY Zenon DEF attach_block
  <1> HIDE DEF after
  <1>2. CASE ~ registers
    <2>1. attached' = attached /\ registry' = registry /\ windows' = windows
      BY Zenon, <1>1, <1>2
    <2> HIDE DEF registers
    <2> QED
      BY Zenon, <1>1, <2>1 DEF StorageInv
  <1>3. CASE registers
    <2> DEFINE on == Append(attached, d)
    <2>1. attached' = on /\ registry' = after.registry /\ windows' = after.windows
      BY Zenon, <1>1, <1>3
    <2>2. Registers(registry, windows, DiskName(slot))
      BY <1>3
    <2> HIDE DEF registers
    <2>3. /\ on \in Seq(DOMAIN hardware) /\ slot \in DOMAIN on /\ slot \in Nat /\ on[slot] = d
          /\ \A s \in DOMAIN attached : s \in DOMAIN on /\ on[s] = attached[s]
      <3>1. attached \in Seq(DOMAIN hardware) /\ d \in DOMAIN hardware
        BY Zenon, <1>1 DEF StorageInv
      <3> HIDE DEF d
      <3>2. Len(attached) \in Nat /\ DOMAIN attached = 1 .. Len(attached)
        BY <3>1
      <3>3. on \in Seq(DOMAIN hardware) /\ Len(on) = slot /\ on[slot] = d
            /\ \A s \in 1 .. Len(attached) : on[s] = attached[s]
        BY <3>1
      <3>4. DOMAIN on = 1 .. slot
        BY <3>3
      <3> HIDE DEF on
      <3> QED
        BY <3>2, <3>3, <3>4
    <2> HIDE DEF on, slot, d
    <2>4. TableTrue(hardware[d], table)
      <3>1. DiskShape(hardware[d])
        BY <1>1 DEF StorageInv
      <3>2. TableTrue(hardware[d], read(hardware[d]).table)
        BY <3>1, readTrue
      <3> QED
        BY <3>2, NoTableTrue
    <2> HIDE DEF table
    <2>5. Len(table.entries) \in Nat /\ DOMAIN table.entries = 1 .. Len(table.entries)
      BY <2>4 DEF TableTrue
    <2>6. \A n \in 1 .. Len(table.entries) : EntryTrue(hardware[on[slot]], table.entries[n])
      BY Zenon, <2>3, <2>4, <2>5 DEF TableTrue
    <2>7. RegistryInv(with, windows)
      <3>1. <<"disk", slot>> \in Refs /\ <<"disk", slot>>[1] # "window"
        BY <2>3 DEF Refs
      <3>2. NameIn(<<"disk", slot>>, windows) = DiskName(slot)
        BY DEF NameIn
      <3>3. RegistryInv(registry, windows)
        BY DEF StorageInv
      <3> QED
        BY <2>2, <3>1, <3>2, <3>3, Appended
    <2> HIDE DEF with
    <2>8. WindowsIn(windows, hardware, on)
      BY Zenon, <2>3 DEF StorageInv, WindowsIn
    <2>9. PublishHolds(after, hardware, on)
      BY Zenon, <2>3, <2>5, <2>6, <2>7, <2>8, PublishTrue DEF after
    <2>10. RegistryInv(after.registry, after.windows) /\ WindowsIn(after.windows, hardware, on)
      BY <2>9 DEF PublishHolds
    <2>11. RegistryInv(registry', windows') /\ WindowsIn(windows', hardware', attached')
           /\ attached' \in Seq(DOMAIN hardware')
      BY Zenon, <1>1, <2>1, <2>3, <2>10
    <2>12. \A x \in DOMAIN hardware' : DiskShape(hardware'[x])
      BY Zenon, <1>1 DEF StorageInv
    <2> QED
      BY Zenon, <2>11, <2>12 DEF StorageInv
  <1> QED
    BY <1>2, <1>3

\* unpublish() frees the slots of a disk and takes their devices out.
LEMMA unpublishStorageInv ==
    ASSUME StorageInv, NEW slot, unpublish(slot)
    PROVE  StorageInv'
  <1> DEFINE gone == Gone(slot)
             new == registry'
             after == windows'
  <1>1. /\ new = Unpublished(gone)
        /\ after = [w \in Windows |-> IF w \in gone THEN NoWindow ELSE windows[w]]
        /\ hardware' = hardware /\ attached' = attached
    BY DEF unpublish
  <1>2. gone \in SUBSET Windows
    BY DEF Gone
  <1> HIDE DEF gone
  <1>3. RegistryInv(registry, windows)
    BY DEF StorageInv
  <1>4. /\ new \in Seq(Refs) /\ OneName(new, windows)
        /\ \A v \in Windows : Registered(new, v) <=> windows[v].used /\ v \notin gone
    BY <1>1, <1>2, <1>3, UnpublishedIs
  <1> HIDE DEF new, after
  <1>5. \A w \in Windows : /\ w \in gone => after[w].used = FALSE
                           /\ w \notin gone => after[w] = windows[w]
    BY <1>1 DEF NoWindow
  <1>6. \A w \in Windows : after[w].used \in BOOLEAN /\ (after[w].used <=> Registered(new, w))
    BY Zenon, <1>3, <1>4, <1>5 DEF RegistryInv
  <1>7. \A i \in DOMAIN new : NameIn(new[i], after) = NameIn(new[i], windows)
    <2> SUFFICES ASSUME NEW i \in DOMAIN new PROVE NameIn(new[i], after) = NameIn(new[i], windows)
      OBVIOUS
    <2>1. new[i] \in Refs
      BY <1>4
    <2>2. CASE new[i][1] \in {"other", "disk"}
      BY <2>2 DEF NameIn
    <2>3. CASE new[i][1] \notin {"other", "disk"}
      <3>1. new[i][2] \in Windows /\ new[i] = <<"window", new[i][2]>>
        BY <2>1, <2>3 DEF Refs
      <3>2. Registered(new, new[i][2])
        BY Zenon, <3>1 DEF Registered
      <3>3. new[i][2] \notin gone
        BY Zenon, <1>4, <3>1, <3>2
      <3>4. after[new[i][2]] = windows[new[i][2]]
        BY <1>5, <3>1, <3>3
      <3> QED
        BY <2>3, <3>4 DEF NameIn
    <2> QED
      BY <2>2, <2>3
  <1>8. OneName(new, after)
    BY Zenon, <1>4, <1>7 DEF OneName
  <1>9. after = [w \in Windows |-> after[w]]
    BY <1>1
  <1>10. RegistryInv(new, after)
    BY <1>4, <1>6, <1>8, <1>9 DEF RegistryInv
  <1>11. WindowsIn(after, hardware, attached)
    BY Zenon, <1>5, <1>6 DEF WindowsIn, StorageInv
  <1> QED
    BY Zenon, <1>1, <1>10, <1>11 DEF StorageInv, new, after

\* The invariant says what RegistrySound does.
LEMMA RegistryInvSound ==
    StorageInv => RegistrySound
  <1> SUFFICES ASSUME StorageInv PROVE RegistrySound
    OBVIOUS
  <1>1. RegistryInv(registry, windows)
    BY DEF StorageInv
  <1>2. \A i, j \in DOMAIN registry : NameOf(registry[i]) = NameOf(registry[j]) => i = j
    BY Zenon, <1>1, NameOfIs DEF RegistryInv, OneName
  <1> QED
    BY Zenon, <1>1, <1>2 DEF RegistrySound, RegistryInv, Registered

\* A partition that is true reaches no block outside itself or its disk.
LEMMA WindowsInTrue ==
    StorageInv => WindowsTrue
  <1> SUFFICES ASSUME StorageInv, NEW w \in Windows, windows[w].used
               PROVE  LET window == windows[w]
                          disk == hardware[attached[window.disk]]
                          entries == disk.at[0].entries
                          last == window.first + window.count - 1
                      IN  /\ \A first, count \in 0 .. disk.blocks :
                                Reached(window, first, count)
                                  \subseteq (window.first .. last) \cap (0 .. disk.blocks - 1)
                          /\ IF \E i \in 1 .. 4 : entries[i].type = "protective"
                               THEN \E lba \in IntactCopies(disk) :
                                       LET e == disk.at[lba].crc[window.number]
                                       IN  e.used /\ e.first = window.first /\ e.last = last
                               ELSE IF window.number <= 4
                               THEN entries[window.number].start = window.first
                               ELSE \E i \in 1 .. 4 :
                                       /\ extended_type(entries[i].type)
                                       /\ entries[i].start < window.first
                                       /\ last < entries[i].start + entries[i].count
    BY Zenon DEF WindowsTrue
  <1> DEFINE window == windows[w]
             disk == hardware[attached[window.disk]]
             last == window.first + window.count - 1
  <1>1. EntryTrue(disk, window) /\ window.disk \in DOMAIN attached
    BY ZenonT(30) DEF StorageInv, WindowsIn
  <1>2. disk.blocks \in Nat
    <2>1. attached[window.disk] \in DOMAIN hardware
      BY <1>1 DEF StorageInv
    <2> QED
      BY ZenonT(30), <2>1 DEF StorageInv, DiskShape
  <1> HIDE DEF window, disk
  <1>3. /\ window.first \in Nat /\ window.count \in Nat /\ window.first + window.count <= disk.blocks
    BY Zenon, <1>1 DEF EntryTrue
  <1>4. \A first, count \in 0 .. disk.blocks :
           Reached(window, first, count) \subseteq (window.first .. last) \cap (0 .. disk.blocks - 1)
    BY <1>2, <1>3 DEF Reached
  <1> QED
    BY Zenon, <1>1, <1>4 DEF EntryTrue, window, disk
==============================================================================
