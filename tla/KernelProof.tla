----------------------------- MODULE KernelProof -----------------------------
(***************************************************************************)
(* What runs on the processor: user programs, for every descriptor limit,  *)
(* frame set, set of programs and depth of the chain; the scheduler, for a *)
(* table of any size; and the interrupt layer, for any number of lines and *)
(* drivers.  They share no state (handlers may create, block and wake      *)
(* tasks between any two steps), and each has an invariant of its own.     *)
(*                                                                         *)
(* What makes the programs' inductive: what launch() keeps on its stack    *)
(* links every program to the one that launched it (ChainLinked).  For the *)
(* interrupt layer: an open line has a vector at every step of request()   *)
(* and release() (Hooked), so that no acknowledge is left without a        *)
(* dispatch, and while an interrupt is served the controller has in        *)
(* service exactly what it put there (InService).                          *)
(***************************************************************************)
EXTENDS UserPrograms, Scheduler, Interrupts, TLAPS

-----------------------------------------------------------------------------
(* User programs. *)

\* What launch() keeps on the stack of its call: program i returns to the
\* address space and the context of program i - 1, and its own context lies on
\* the stack program i - 1 makes its system calls on.
ChainLinked ==
    \A i \in 1 .. Len(procs) :
        /\ procs[i].previous = i - 1
        /\ procs[i].resume = IF i = 1 THEN KernelSpace ELSE procs[i - 1].tables
        /\ procs[i].context = IF i = 1 THEN BootStack ELSE StackOf(i - 2)

ProgramInv == ProgramTypes /\ BackingsSound /\ FramesOwned /\ ReturnsHome /\ ChainLinked

\* The kernel without a program satisfies the invariant.
LEMMA InitProgramInv == InitPrograms => ProgramInv
<1> SUFFICES ASSUME InitPrograms PROVE ProgramInv
  OBVIOUS
<1> USE ProgramsAssumption
<1>1. procs = <<>> /\ Len(procs) = 0 /\ procs \in Seq(Program) /\ DOMAIN procs = {}
  BY DEF InitPrograms
<1>2. ProgramTypes
  <2>1. stray \in BOOLEAN
    BY Zenon DEF InitPrograms
  <2>2. table \in [Descriptors -> Entry]
    BY DEF InitPrograms, EmptyTable, Entry
  <2> QED BY <1>1, <2>1, <2>2 DEF InitPrograms, ProgramTypes, BootStack, KernelSpace
<1>3. BackingsSound
  BY DEF InitPrograms, BackingsSound, EmptyTable, Unused
<1>4. FramesOwned /\ ReturnsHome /\ ChainLinked
  BY <1>1 DEF InitPrograms, FramesOwned, ReturnsHome, ChainLinked
<1> QED BY <1>2, <1>3, <1>4 DEF ProgramInv

\* The descriptor table after a reset or a teardown names no file.
LEMMA ResetIsSound ==
    /\ ResetTable \in [Descriptors -> Entry]
    /\ EmptyTable \in [Descriptors -> Entry]
    /\ \A e \in Descriptors : ResetTable[e].kind # "File" /\ EmptyTable[e].kind # "File"
<1>1. \A e \in Descriptors : ResetTable[e] \in {Unused, StandardInput, StandardOutput}
  BY DEF ResetTable
<1> QED BY <1>1 DEF ResetTable, EmptyTable, Entry, Unused, StandardInput, StandardOutput

\* The steps that leave the chain alone.
LEMMA OpenKeeps == ProgramInv /\ OpenFile => ProgramInv'
<1> SUFFICES ASSUME ProgramInv, OpenFile PROVE ProgramInv'
  OBVIOUS
<1> USE ProgramsAssumption
<1>1. PICK d \in FreeFiles, e \in Descriptors :
          /\ table[e] = Unused
          /\ files' = files \cup {d}
          /\ table' = [table EXCEPT ![e] = File(d)]
  BY Zenon DEF OpenFile, Least
<1>2. UNCHANGED <<procs, user_context, user_depth, kernel_stack, active_space, free, stray>>
  BY DEF OpenFile
<1>3. d \in 0 .. VfsFiles - 1 /\ d \notin files /\ File(d) \in Entry
  BY DEF FreeFiles, Entry
<1>4. ProgramTypes'
  BY <1>1, <1>2, <1>3 DEF ProgramInv, ProgramTypes
<1>5. BackingsSound'
  <2>1. table \in [Descriptors -> Entry] /\ BackingsSound
    BY DEF ProgramInv, ProgramTypes
  <2>2. \A x \in Descriptors : table'[x] = IF x = e THEN File(d) ELSE table[x]
    BY <1>1, <2>1
  <2>3. \A x \in Descriptors : table[x].kind = "File" => table[x] # File(d)
    BY <1>3, <2>1 DEF BackingsSound, File
  <2>4. \A x \in Descriptors : x # e /\ table[x] = File(d) => FALSE
    BY <2>3 DEF File
  <2>5. ASSUME NEW x \in Descriptors, table'[x].kind = "File"
        PROVE /\ table'[x].backing \in files'
              /\ \A o \in Descriptors : table'[o] = table'[x] => o = x
    <3>1. CASE x = e
      BY <3>1, <2>2, <2>4, <1>1 DEF File
    <3>2. CASE x # e
      <4>1. table[x].kind = "File" /\ table'[x] = table[x]
        BY <2>2, <2>5, <3>2
      <4>2. table[x].backing \in files /\ \A o \in Descriptors : table[o] = table[x] => o = x
        BY <4>1, <2>1 DEF BackingsSound
      <4> QED BY <4>1, <4>2, <2>2, <2>4, <3>2, <1>1
    <3> QED BY <3>1, <3>2
  <2> QED BY <2>5 DEF BackingsSound
<1>6. (FramesOwned /\ ReturnsHome /\ ChainLinked)'
  BY Zenon, <1>2 DEF ProgramInv, FramesOwned, Owned, ReturnsHome, ChainLinked, Top
<1> QED BY <1>4, <1>5, <1>6 DEF ProgramInv

\* close() keeps it.
LEMMA CloseKeeps == ASSUME ProgramInv, NEW c \in Descriptors, Close(c) PROVE ProgramInv'
<1> USE ProgramsAssumption
<1>1. UNCHANGED <<procs, user_context, user_depth, kernel_stack, active_space, free, stray>>
  BY DEF Close
<1>2. /\ table \in [Descriptors -> Entry]
      /\ table' = [table EXCEPT ![c] = Unused]
      /\ files' = IF table[c].kind = "File" THEN files \ {table[c].backing} ELSE files
      /\ BackingsSound
  BY DEF Close, ProgramInv, ProgramTypes
<1>3. ProgramTypes'
  BY Zenon, <1>1, <1>2 DEF ProgramInv, ProgramTypes, Entry
<1>4. \A x \in Descriptors : table'[x] = IF x = c THEN Unused ELSE table[x]
  BY <1>2
<1>5. BackingsSound'
  <2>1. ASSUME NEW x \in Descriptors, table'[x].kind = "File"
        PROVE /\ table'[x].backing \in files'
              /\ \A o \in Descriptors : table'[o] = table'[x] => o = x
    <3>1. x # c /\ table'[x] = table[x] /\ table[x].kind = "File"
      BY <1>4, <2>1 DEF Unused
    <3>2. table[x].backing \in files /\ \A o \in Descriptors : table[o] = table[x] => o = x
      BY <1>2, <3>1 DEF BackingsSound
    <3>3. table[c].kind = "File" => table[c].backing # table[x].backing
      <4>1. SUFFICES ASSUME table[c].kind = "File", table[c].backing = table[x].backing
                     PROVE FALSE
        OBVIOUS
      <4>2. table[c] \in Entry /\ table[x] \in Entry
        BY <1>2
      <4>3. table[c] = table[x]
        BY <4>1, <4>2, <3>1 DEF Entry, File, Unused, StandardInput, StandardOutput
      <4> QED BY <4>3, <3>1, <3>2
    <3>4. \A o \in Descriptors : table'[o] = table'[x] => o = x
      BY <1>4, <3>1, <3>2 DEF Unused
    <3> QED BY <3>1, <3>2, <3>3, <3>4, <1>2
  <2> QED BY <2>1 DEF BackingsSound
<1>6. (FramesOwned /\ ReturnsHome /\ ChainLinked)'
  BY <1>1 DEF ProgramInv, FramesOwned, Owned, ReturnsHome, ChainLinked, Top
<1> QED BY <1>3, <1>5, <1>6 DEF ProgramInv

\* So does a launch() that cannot read the image,
LEMMA UnreadableKeeps == ProgramInv /\ LaunchUnreadable => ProgramInv'
<1> SUFFICES ASSUME ProgramInv, LaunchUnreadable PROVE ProgramInv'
  OBVIOUS
<1> USE ProgramsAssumption
<1>1. UNCHANGED <<files, procs, user_context, user_depth, kernel_stack, active_space, free, stray>>
  BY DEF LaunchUnreadable
<1>2. table' = table \/ table' = ResetTable
  BY DEF LaunchUnreadable
<1>3. ProgramTypes'
  BY <1>1, <1>2, ResetIsSound DEF ProgramInv, ProgramTypes
<1>4. BackingsSound'
  BY <1>1, <1>2, ResetIsSound DEF ProgramInv, BackingsSound
<1>5. (FramesOwned /\ ReturnsHome /\ ChainLinked)'
  BY <1>1 DEF ProgramInv, FramesOwned, Owned, ReturnsHome, ChainLinked, Top
<1> QED BY <1>3, <1>4, <1>5 DEF ProgramInv

\* and one that runs out of pages half way.
LEMMA FailsKeeps == ASSUME ProgramInv, NEW n \in Nat, LaunchFails(n) PROVE ProgramInv'
<1> USE ProgramsAssumption
<1>1. UNCHANGED <<files, procs, user_context, user_depth, kernel_stack, active_space>>
  BY DEF LaunchFails
<1>2. table' = ResetTable /\ free' \in SUBSET free
  BY DEF LaunchFails
<1>3. stray' \in BOOLEAN
  BY Zenon DEF LaunchFails
<1>4. ProgramTypes'
  BY <1>1, <1>2, <1>3, ResetIsSound DEF ProgramInv, ProgramTypes
<1>5. BackingsSound'
  BY <1>1, <1>2, ResetIsSound DEF ProgramInv, BackingsSound
<1>6. FramesOwned'
  <2>1. ASSUME NEW i \in DOMAIN procs PROVE Owned(i)' = Owned(i) /\ Owned(i) \cap free' = {}
    BY <1>1, <1>2 DEF ProgramInv, FramesOwned, Owned
  <2> QED BY <1>1, <2>1 DEF ProgramInv, FramesOwned
<1>7. (ReturnsHome /\ ChainLinked)'
  BY <1>1 DEF ProgramInv, ReturnsHome, ChainLinked, Top
<1> QED BY <1>4, <1>5, <1>6, <1>7 DEF ProgramInv

\* The stack of a program is one of the kernel's.
LEMMA StackOfType == ASSUME NEW d \in 0 .. MaxDepth - 1 PROVE StackOf(d) \in 0 .. MaxDepth - 1
BY ProgramsAssumption DEF StackOf

\* launch() adds a program that owns its frames and resumes the one before.
LEMMA LaunchKeeps == ASSUME ProgramInv, NEW img \in Images, Launch(img) PROVE ProgramInv'
<1> USE ProgramsAssumption
<1>1. PICK tables : tables = Lowest(TablePages, free)
  OBVIOUS
<1>2. PICK pages : pages = Lowest(Cardinality(img), free \ tables)
  OBVIOUS
<1>3. tables \in SUBSET free /\ pages \in SUBSET (free \ tables)
  BY <1>1, <1>2 DEF Lowest
<1>4. PICK p : p = [tables |-> tables, frames |-> pages, pages |-> img,
                    resume |-> active_space, previous |-> user_context,
                    context |-> kernel_stack]
  BY Zenon
<1>5. /\ Len(procs) < MaxDepth
      /\ table' = ResetTable
      /\ free' = free \ (tables \cup pages)
      /\ procs' = Append(procs, p)
      /\ active_space' = tables
      /\ user_context' = Len(procs) + 1
      /\ user_depth' = user_depth + 1
      /\ kernel_stack' = StackOf(user_depth)
      /\ files' = files
  BY <1>1, <1>2, <1>4 DEF Launch, StackOnEntry
<1>6. stray' \in BOOLEAN
  BY Zenon DEF Launch
<1>7. PICK n \in Nat : n = Len(procs)
  BY DEF ProgramInv, ProgramTypes
<1>8. /\ procs \in Seq(Program) /\ free \in SUBSET Frames /\ user_depth = n /\ n < MaxDepth
      /\ user_context = n
  BY <1>5, <1>7 DEF ProgramInv, ProgramTypes, ReturnsHome
<1>9. p \in Program
  BY <1>3, <1>4 DEF Program, ProgramInv, ProgramTypes
<1>10. /\ procs' \in Seq(Program) /\ Len(procs') = n + 1 /\ procs'[n + 1] = p
       /\ \A i \in 1 .. n : procs'[i] = procs[i]
       /\ DOMAIN procs' = 1 .. n + 1 /\ DOMAIN procs = 1 .. n
  BY <1>5, <1>7, <1>8, <1>9
<1>11. StackOf(n) \in 0 .. MaxDepth
  BY <1>8, StackOfType
<1>12. ProgramTypes'
  <2>1. table' \in [Descriptors -> Entry]
    BY <1>5, ResetIsSound
  <2>2. files' \in SUBSET (0 .. VfsFiles - 1)
    BY <1>5 DEF ProgramInv, ProgramTypes
  <2>3. user_context' \in 0 .. MaxDepth /\ user_depth' = Len(procs') /\ Len(procs') <= MaxDepth
    BY <1>5, <1>7, <1>8, <1>10
  <2>4. kernel_stack' \in 0 .. MaxDepth
    BY <1>5, <1>8, <1>11
  <2>5. active_space' \in SUBSET Frames /\ free' \in SUBSET Frames
    BY <1>3, <1>5, <1>8
  <2> QED BY <1>6, <1>10, <2>1, <2>2, <2>3, <2>4, <2>5 DEF ProgramTypes
<1>13. BackingsSound'
  BY <1>5, ResetIsSound DEF BackingsSound
<1>14. FramesOwned'
  <2>1. ASSUME NEW i \in 1 .. n
        PROVE /\ procs'[i].tables = procs[i].tables /\ procs'[i].frames = procs[i].frames
              /\ Owned(i)' = Owned(i) /\ Owned(i) \cap free = {}
              /\ procs[i].tables \cap procs[i].frames = {}
    BY <1>10 DEF ProgramInv, FramesOwned, Owned
  <2>2. /\ procs'[n + 1].tables = tables /\ procs'[n + 1].frames = pages
        /\ Owned(n + 1)' = tables \cup pages
    BY <1>4, <1>10 DEF Owned
  <2>3. \A i \in 1 .. n : Owned(i)' \cap (tables \cup pages) = {}
    BY <2>1, <1>3
  <2>4. \A i, j \in 1 .. n : i # j => Owned(i) \cap Owned(j) = {}
    BY <1>10 DEF ProgramInv, FramesOwned
  <2>5. ASSUME NEW i \in 1 .. n + 1
        PROVE /\ procs'[i].tables \cap procs'[i].frames = {}
              /\ Owned(i)' \cap free' = {}
              /\ \A j \in 1 .. n + 1 : i # j => Owned(i)' \cap Owned(j)' = {}
    <3>1. CASE i = n + 1
      BY <3>1, <2>2, <2>3, <1>3, <1>5, <1>7
    <3>2. CASE i \in 1 .. n
      <4>1. \A j \in 1 .. n : i # j => Owned(i)' \cap Owned(j)' = {}
        BY <3>2, <2>1, <2>4
      <4> QED BY <3>2, <2>1, <2>2, <2>3, <4>1, <1>5, <1>7
    <3> QED BY <3>1, <3>2, <1>7
  <2> QED BY <2>5, <1>10 DEF FramesOwned
<1>15. ReturnsHome'
  BY <1>4, <1>5, <1>7, <1>8, <1>10 DEF ReturnsHome, Top
<1>16. ChainLinked'
  <2>1. ASSUME NEW i \in 1 .. n
        PROVE /\ procs'[i].previous = i - 1
              /\ procs'[i].resume = IF i = 1 THEN KernelSpace ELSE procs'[i - 1].tables
              /\ procs'[i].context = IF i = 1 THEN BootStack ELSE StackOf(i - 2)
    BY <1>7, <1>10 DEF ProgramInv, ChainLinked
  <2>2. /\ active_space = IF n = 0 THEN KernelSpace ELSE procs[n].tables
        /\ kernel_stack = IF n = 0 THEN BootStack ELSE StackOf(n - 1)
    BY <1>7, <1>8 DEF ProgramInv, ReturnsHome, Top
  <2>3. /\ p.previous = n
        /\ p.resume = IF n = 0 THEN KernelSpace ELSE procs'[n].tables
        /\ p.context = IF n = 0 THEN BootStack ELSE StackOf(n - 1)
    BY <1>4, <1>7, <1>8, <1>10, <2>2
  <2>4. ASSUME NEW i \in 1 .. n + 1
        PROVE /\ procs'[i].previous = i - 1
              /\ procs'[i].resume = IF i = 1 THEN KernelSpace ELSE procs'[i - 1].tables
              /\ procs'[i].context = IF i = 1 THEN BootStack ELSE StackOf(i - 2)
    <3>1. CASE i = n + 1
      <4>1. i - 1 = n /\ i - 2 = n - 1 /\ (i = 1 <=> n = 0) /\ procs'[i] = p
        BY <1>7, <1>10, <3>1
      <4> QED BY Zenon, <2>3, <4>1
    <3>2. CASE i \in 1 .. n
      BY <2>1, <3>2
    <3> QED BY <1>7, <3>1, <3>2
  <2> QED BY <1>10, <2>4 DEF ChainLinked
<1> QED BY <1>12, <1>13, <1>14, <1>15, <1>16 DEF ProgramInv

\* exit() gives back what the last program owned and resumes the one before.
LEMMA ExitKeeps == ProgramInv /\ Exit => ProgramInv'
<1> SUFFICES ASSUME ProgramInv, Exit PROVE ProgramInv'
  OBVIOUS
<1> USE ProgramsAssumption
<1>1. PICK n \in Nat : n = Len(procs)
  BY DEF ProgramInv, ProgramTypes
<1>2. /\ procs \in Seq(Program) /\ procs # <<>> /\ user_depth = n /\ user_context = n
      /\ n <= MaxDepth
  BY <1>1 DEF ProgramInv, ProgramTypes, ReturnsHome, Exit
<1>3. n >= 1 /\ DOMAIN procs = 1 .. n
  BY <1>1, <1>2
<1>4. PICK p : p = procs[n]
  OBVIOUS
<1>5. /\ files' = AfterTeardown
      /\ procs' = SubSeq(procs, 1, n - 1)
      /\ user_context' = p.previous
      /\ user_depth' = n - 1
      /\ kernel_stack' = IF n = 1 THEN BootStack ELSE StackOf(n - 2)
      /\ active_space' = p.resume
      /\ free' = free \cup p.tables
      /\ table' = EmptyTable \/ table' = ResetTable
      /\ stray' = stray
  BY <1>2, <1>4 DEF Exit, StackOnReturn, Destroyed
<1>6. /\ procs' \in Seq(Program) /\ Len(procs') = n - 1
      /\ \A i \in 1 .. n - 1 : procs'[i] = procs[i]
      /\ DOMAIN procs' = 1 .. n - 1
  <2>1. SubSeq(procs, 1, n - 1) \in Seq(Program)
    BY <1>2, <1>3, <1>1
  <2> QED BY <2>1, <1>1, <1>2, <1>3, <1>5
<1>7. /\ p \in Program /\ p.previous = n - 1
      /\ p.resume = IF n = 1 THEN KernelSpace ELSE procs[n - 1].tables
  <2>1. p \in Program
    BY <1>2, <1>3, <1>4
  <2> QED BY <1>1, <1>3, <1>4, <2>1 DEF ProgramInv, ChainLinked
<1>8. n # 1 => StackOf(n - 2) \in 0 .. MaxDepth
  BY SMTT(30), <1>2, <1>3, StackOfType
<1>9. ProgramTypes'
  <2>1. p.tables \in SUBSET Frames /\ p.resume \in SUBSET Frames
    BY <1>7 DEF Program
  <2>2. files' \in SUBSET (0 .. VfsFiles - 1)
    BY <1>5 DEF AfterTeardown, ProgramInv, ProgramTypes
  <2>3. stray' \in BOOLEAN
    BY <1>5, Zenon DEF ProgramInv, ProgramTypes
  <2>4. table' \in [Descriptors -> Entry]
    BY <1>5, ResetIsSound
  <2>5. free' \in SUBSET Frames
    BY Zenon, <1>5, <2>1 DEF ProgramInv, ProgramTypes
  <2>6. kernel_stack' \in 0 .. MaxDepth
    BY <1>5, <1>8 DEF BootStack
  <2>7. user_context' \in 0 .. MaxDepth /\ user_depth' = Len(procs') /\ Len(procs') <= MaxDepth
    BY SMTT(30), <1>2, <1>3, <1>5, <1>6, <1>7
  <2> QED BY <1>5, <1>6, <2>1, <2>2, <2>3, <2>4, <2>5, <2>6, <2>7 DEF ProgramTypes
<1>10. BackingsSound'
  BY <1>5, ResetIsSound DEF BackingsSound
<1>11. FramesOwned'
  <2>1. \A i \in 1 .. n - 1 : Owned(i)' = Owned(i) /\ Owned(i) \cap p.tables = {}
    BY <1>3, <1>4, <1>6 DEF ProgramInv, FramesOwned, Owned
  <2>2. \A i \in 1 .. n - 1 :
          /\ procs'[i].tables \cap procs'[i].frames = {}
          /\ Owned(i) \cap free = {}
          /\ \A j \in 1 .. n - 1 : i # j => Owned(i) \cap Owned(j) = {}
    BY <1>3, <1>6 DEF ProgramInv, FramesOwned
  <2> QED BY <2>1, <2>2, <1>5, <1>6 DEF FramesOwned
<1>12. ReturnsHome'
  <2>1. procs' = <<>> <=> n = 1
    BY <1>6, <1>3
  <2>2. n # 1 => Top' = procs[n - 1]
    BY <1>3, <1>6 DEF Top
  <2> QED BY <1>3, <1>5, <1>6, <1>7, <2>1, <2>2 DEF ReturnsHome
<1>13. ChainLinked'
  <2>1. ASSUME NEW i \in 1 .. n - 1
        PROVE /\ procs'[i].previous = i - 1
              /\ procs'[i].resume = IF i = 1 THEN KernelSpace ELSE procs'[i - 1].tables
              /\ procs'[i].context = IF i = 1 THEN BootStack ELSE StackOf(i - 2)
    BY <1>1, <1>6 DEF ProgramInv, ChainLinked
  <2> QED BY <2>1, <1>6 DEF ChainLinked
<1> QED BY <1>9, <1>10, <1>11, <1>12, <1>13 DEF ProgramInv

\* Every step keeps the invariant.
LEMMA StepKeeps == ProgramInv /\ [NextPrograms]_program_vars => ProgramInv'
<1> SUFFICES ASSUME ProgramInv, [NextPrograms]_program_vars PROVE ProgramInv'
  BY ZenonT(40)
<1>1. CASE UNCHANGED program_vars
  BY <1>1 DEF ProgramInv, program_vars, ProgramTypes, BackingsSound, FramesOwned, Owned, ReturnsHome, ChainLinked, Top
<1>2. ASSUME NEW img \in Images, NEW n \in 0 .. Cardinality(img), LaunchFails(n) PROVE ProgramInv'
  BY <1>2, FailsKeeps
<1> QED BY <1>1, <1>2, OpenKeeps, CloseKeeps, UnreadableKeeps, LaunchKeeps, ExitKeeps DEF NextPrograms

\* The inductive invariant holds in every reachable state.
THEOREM ProgramInvHolds == ProgramSpec => []ProgramInv
BY InitProgramInv, StepKeeps, PTL DEF ProgramSpec

\* Every variable keeps its type and user_depth counts the chain.
THEOREM TypesHold == ProgramSpec => []ProgramTypes
<1>1. ProgramInv => ProgramTypes
  BY DEF ProgramInv
<1> QED BY <1>1, ProgramInvHolds, PTL

\* No descriptor of a program names a closed or a shared VFS descriptor.
THEOREM BackingsHold == ProgramSpec => []BackingsSound
<1>1. ProgramInv => BackingsSound
  BY DEF ProgramInv
<1> QED BY <1>1, ProgramInvHolds, PTL

\* No frame of a live program is free or belongs to another.
THEOREM FramesHold == ProgramSpec => []FramesOwned
<1>1. ProgramInv => FramesOwned
  BY DEF ProgramInv
<1> QED BY <1>1, ProgramInvHolds, PTL

\* A child's exit leaves its parent in its own address space, on its own kernel
\* stack, with its own saved context.
THEOREM HomeHolds == ProgramSpec => []ReturnsHome
<1>1. ProgramInv => ReturnsHome
  BY DEF ProgramInv
<1> QED BY <1>1, ProgramInvHolds, PTL

\* On arm64, and on x86_64 while programs nest at most twice, the stack of the
\* running program's system calls holds no saved context.
THEOREM ContextsHold ==
    ASSUME Arch = "arm64" \/ MaxDepth <= 2
    PROVE  ProgramSpec => []ContextIntact
<1>1. ProgramInv => ContextIntact
  <2> SUFFICES ASSUME ProgramInv, NEW i \in DOMAIN procs PROVE procs[i].context # kernel_stack
    BY DEF ContextIntact
  <2>1. PICK n \in Nat : n = Len(procs)
    BY DEF ProgramInv, ProgramTypes
  <2>2. i \in 1 .. n /\ n <= MaxDepth /\ MaxDepth \in Nat
    BY <2>1, ProgramsAssumption DEF ProgramInv, ProgramTypes
  <2>3. kernel_stack = StackOf(n - 1)
    BY <2>1, <2>2 DEF ProgramInv, ReturnsHome
  <2>4. procs[i].context = IF i = 1 THEN MaxDepth ELSE StackOf(i - 2)
    BY <2>1, <2>2 DEF ProgramInv, ChainLinked, BootStack
  <2>5. StackOf(n - 1) = n - 1 /\ (i # 1 => StackOf(i - 2) = i - 2)
    BY <2>2 DEF StackOf
  <2> QED BY <2>2, <2>3, <2>4, <2>5
<1> QED BY <1>1, ProgramInvHolds, PTL

\* On arm64, and on x86_64 where no frame the allocator manages has the number
\* of a user page, no launch writes through a hidden frame.
THEOREM WritesReach ==
    ASSUME Arch = "arm64" \/ \A img \in Images : img \cap Frames = {}
    PROVE  ProgramSpec => []NoStrayWrite
<1>1. InitPrograms => NoStrayWrite
  BY Zenon DEF InitPrograms, NoStrayWrite
<1>2. ASSUME ProgramInv, NoStrayWrite, [NextPrograms]_program_vars PROVE NoStrayWrite'
  <2>1. HiddenFrames \cap free = {}
    <3>1. CASE procs = <<>> \/ Arch = "arm64"
      BY <3>1 DEF HiddenFrames
    <3>2. CASE procs # <<>> /\ Arch # "arm64"
      <4>1. Top \in Program
        BY <1>2, <3>2 DEF ProgramInv, ProgramTypes, Top
      <4>2. Top.pages \in Images /\ free \in SUBSET Frames
        BY <1>2, <4>1 DEF Program, ProgramInv, ProgramTypes
      <4> QED BY <3>2, <4>2 DEF HiddenFrames
    <3> QED BY <3>1, <3>2
  <2>2. \A m, k : (Lowest(m, free) \cup Lowest(k, free \ Lowest(m, free))) \cap HiddenFrames = {}
    BY <2>1 DEF Lowest
  <2>3. ASSUME NEW n, LaunchFails(n) PROVE ~stray'
    BY <2>2, <2>3, <1>2, Zenon DEF LaunchFails, NoStrayWrite
  <2>4. ASSUME NEW img \in Images, Launch(img) PROVE ~stray'
    BY <2>2, <2>4, <1>2, Zenon DEF Launch, NoStrayWrite
  <2>5. CASE stray' = stray
    BY <2>5, <1>2, Zenon DEF NoStrayWrite
  <2>6. CASE OpenFile \/ (\E e \in Descriptors : Close(e)) \/ LaunchUnreadable \/ Exit \/ UNCHANGED program_vars
    BY <2>6, <2>5 DEF OpenFile, Close, LaunchUnreadable, Exit, program_vars
  <2> QED BY <1>2, <2>3, <2>4, <2>6, Zenon DEF NextPrograms, NoStrayWrite
<1> QED BY <1>1, <1>2, ProgramInvHolds, PTL DEF ProgramSpec

-----------------------------------------------------------------------------
(* The scheduler. *)

\* A slot's wait so far and its distance from the cursor add up to less than
\* the table's size: the steps still to come before its own fit in what is
\* left.  A task that is not ready has waited for nothing.
WaitInv ==
    \A i \in Slots :
        /\ Ready(i) => passed[i] + Distance(i) <= max_tasks - 1
        /\ ~ Ready(i) => passed[i] = 0

\* Identifiers in use were handed out, and the running slot holds a task.
IdInv ==
    /\ \A i \in Slots : id[i] < next_id
    /\ running # None => id[running] # invalid_task

\* The scheduler's inductive invariant.
TaskInv == TypeOK /\ OneRuns /\ IdInv /\ WaitInv

\* Going round from the cursor to a slot takes less than a whole turn.
LEMMA DistanceRange ==
    ASSUME TypeOK, NEW i \in Slots
    PROVE  Distance(i) \in 0 .. max_tasks - 1
  BY SchedulerAssumption DEF TypeOK, Distance, Slots

\* initialize() establishes the invariant.
LEMMA InitTaskInv == InitTasks => TaskInv
<1> SUFFICES ASSUME InitTasks PROVE TaskInv
  OBVIOUS
<1>1. TypeOK
  BY SchedulerAssumption DEF InitTasks, TypeOK, Slots, States, invalid_task, None
<1>2. OneRuns
  BY DEF InitTasks, OneRuns, IsTask, None, invalid_task, Slots
<1>3. IdInv
  BY DEF InitTasks, IdInv, None, invalid_task
<1>4. WaitInv
  BY DEF InitTasks, WaitInv, Ready, IsTask
<1> QED
  BY <1>1, <1>2, <1>3, <1>4 DEF TaskInv

\* Every call of the scheduler keeps the types.
LEMMA TaskStepType ==
    ASSUME TaskInv, NextTasks
    PROVE  TypeOK'
<1> USE SchedulerAssumption DEF TaskInv, TypeOK, Slots, States, None, invalid_task
<1>1. ASSUME NEW i \in Slots, create(i) PROVE TypeOK'
  BY SMTT(30), <1>1 DEF create
<1>2. ASSUME NEW i \in Slots, RunNext(i) PROVE TypeOK'
  <2>1. passed' \in [Slots -> 0 .. max_tasks]
    <3>1. \A j \in Slots : More(passed[j]) \in 0 .. max_tasks
      BY SMTT(30) DEF More
    <3> QED
      BY <1>2, <3>1 DEF RunNext
  <2>2. cursor' \in Slots
    BY <1>2 DEF RunNext, NextCursor
  <2>3. /\ state' \in [Slots -> States]
        /\ active' \in 0 .. MaxId
        /\ running' \in Slots \cup {None}
        /\ UNCHANGED <<id, next_id>>
    BY <1>2 DEF RunNext
  <2> QED
    BY Zenon, <2>1, <2>2, <2>3
<1>3. ASSUME NEW result \in States, Return(result) PROVE TypeOK'
  BY <1>3 DEF Return, ActiveAfter
<1>4. ASSUME NEW i \in Slots, block(i) PROVE TypeOK'
  BY <1>4 DEF block
<1>5. ASSUME NEW i \in Slots, wake(i) PROVE TypeOK'
  BY SMTT(30), <1>5 DEF wake
<1> QED
  BY Zenon, <1>1, <1>2, <1>3, <1>4, <1>5 DEF NextTasks, run_next, task_returns

\* Every call keeps one task running, and identifiers apart.
LEMMA TaskStepOne ==
    ASSUME TaskInv, NextTasks
    PROVE  OneRuns' /\ IdInv'
<1> USE SchedulerAssumption DEF TaskInv, TypeOK, OneRuns, IdInv, IsTask, Slots, States, None, invalid_task
<1>1. ASSUME NEW i \in Slots, create(i) PROVE OneRuns' /\ IdInv'
  <2>1. /\ id[i] = 0 /\ next_id \in Nat \ {0} /\ next_id' = next_id + 1
        /\ running' = running /\ active' = active
        /\ \A j \in Slots : id'[j] = IF j = i THEN next_id ELSE id[j]
        /\ \A j \in Slots : state'[j] = IF j = i THEN "Ready" ELSE state[j]
    BY <1>1 DEF create
  <2>2. running # None => running \in Slots /\ running # i
    BY <2>1
  <2>3. active' = IF running' = None THEN invalid_task ELSE id'[running']
    BY <2>1, <2>2
  <2>4. \A j \in Slots : state'[j] = "Running" => j = running'
    BY <2>1
  <2>5. ASSUME NEW j \in Slots, NEW k \in Slots, IsTask(j)', id'[j] = id'[k]
        PROVE  j = k
    BY SMTT(30), <2>1, <2>5
  <2>6. IdInv'
    <3>1. ASSUME NEW j \in Slots PROVE id'[j] < next_id'
      <4>1. id[j] \in Nat /\ id[j] < next_id
        OBVIOUS
      <4> QED
        BY SMTT(30), <2>1, <4>1
    <3>2. running' # None => id'[running'] # invalid_task
      BY Zenon, <2>1, <2>2
    <3> QED
      BY <3>1, <3>2
  <2>7. OneRuns'
    BY ZenonT(40), <2>3, <2>4, <2>5 DEF OneRuns
  <2> QED
    BY <2>6, <2>7
<1>2. ASSUME NEW i \in Slots, RunNext(i) PROVE OneRuns' /\ IdInv'
  BY <1>2 DEF RunNext, Ready
<1>3. ASSUME NEW result \in States, Return(result) PROVE OneRuns' /\ IdInv'
  BY SMTT(30), <1>3 DEF Return, ActiveAfter
<1>4. ASSUME NEW i \in Slots, block(i) PROVE OneRuns' /\ IdInv'
  BY Zenon, <1>4 DEF block
<1>5. ASSUME NEW i \in Slots, wake(i) PROVE OneRuns' /\ IdInv'
  BY Zenon, <1>5 DEF wake
<1> QED
  BY Zenon, <1>1, <1>2, <1>3, <1>4, <1>5 DEF NextTasks, run_next, task_returns

\* A step of slot i brings every other ready slot nearer by at least one.
LEMMA RunCloses ==
    ASSUME TaskInv, NEW i \in Slots, RunNext(i), NEW j \in Slots, Ready(j), j # i
    PROVE  Distance(j)' <= Distance(j) - 1
<1>1. Distance(i) <= Distance(j)
  BY DEF RunNext
<1>2. cursor' = IF i + 1 = max_tasks THEN 0 ELSE i + 1
  BY DEF RunNext, NextCursor
<1>3. Distance(j)' = IF j >= cursor' THEN j - cursor' ELSE j - cursor' + max_tasks
  BY DEF Distance
<1> QED
  BY SMTT(30), <1>1, <1>2, <1>3, SchedulerAssumption DEF TaskInv, TypeOK, Distance, Slots

\* Every call keeps the waits bounded.
LEMMA TaskStepWait ==
    ASSUME TaskInv, NextTasks
    PROVE  WaitInv'
<1> USE SchedulerAssumption DEF TaskInv, TypeOK, Slots, States
<1>1. ASSUME NEW i \in Slots, create(i) PROVE WaitInv'
  <2>1. cursor' = cursor
    BY <1>1 DEF create
  <2>2. Distance(i) <= max_tasks - 1
    BY SMTT(30), DistanceRange
  <2> QED
    BY <1>1, <2>1, <2>2 DEF create, WaitInv, Ready, IsTask, Distance, invalid_task
<1>2. ASSUME NEW i \in Slots, RunNext(i) PROVE WaitInv'
  <2> SUFFICES ASSUME NEW j \in Slots
               PROVE  /\ Ready(j)' => passed'[j] + Distance(j)' <= max_tasks - 1
                      /\ ~ Ready(j)' => passed'[j] = 0
    BY DEF WaitInv
  <2>1. CASE j = i
    <3>1. ~ Ready(j)' /\ passed'[j] = 0
      BY <1>2, <2>1 DEF RunNext, Ready, IsTask
    <3> QED
      BY <3>1
  <2>2. CASE j # i /\ Ready(j)
    <3>1. passed[j] + Distance(j) <= max_tasks - 1
      BY <2>2 DEF WaitInv
    <3>2. Distance(j)' <= Distance(j) - 1
      BY Zenon, <1>2, <2>2, RunCloses
    <3>3. Distance(j) \in 0 .. max_tasks - 1
      BY Zenon, DistanceRange
    <3>4. cursor' \in Slots
      BY <1>2 DEF RunNext, NextCursor
    <3>5. Distance(j)' \in Int
      BY <3>4 DEF Distance
    <3>6. passed'[j] = passed[j] + 1
      BY SMTT(30), <1>2, <2>2, <3>1, <3>3 DEF RunNext, More
    <3>7. Ready(j)'
      BY <1>2, <2>2 DEF RunNext, Ready, IsTask
    <3> QED
      BY SMTT(30), <3>1, <3>2, <3>3, <3>5, <3>6, <3>7
  <2>3. CASE j # i /\ ~ Ready(j)
    <3>1. ~ Ready(j)' /\ passed'[j] = 0
      BY <1>2, <2>3 DEF RunNext, Ready, IsTask
    <3> QED
      BY <3>1
  <2> QED
    BY <2>1, <2>2, <2>3
<1>3. ASSUME NEW result \in States, Return(result) PROVE WaitInv'
  <2>1. PICK r \in Slots : r = running
    BY <1>3 DEF Return
  <2>2. cursor' = cursor /\ \A j \in Slots : Distance(j)' = Distance(j)
    BY <1>3 DEF Return, Distance
  <2>3. Distance(r) <= max_tasks - 1
    BY SMTT(30), DistanceRange
  <2>4. passed' = [passed EXCEPT ![r] = 0]
    BY <1>3, <2>1 DEF Return
  <2>5. \A j \in Slots : j # r => (Ready(j)' <=> Ready(j))
    BY <1>3, <2>1 DEF Return, Ready, IsTask
  <2>6. Distance(r) \in Int
    BY SMTT(30), DistanceRange
  <2> QED
    BY SMTT(30), <2>2, <2>3, <2>4, <2>5, <2>6 DEF WaitInv
<1>4. ASSUME NEW i \in Slots, block(i) PROVE WaitInv'
  BY Zenon, <1>4 DEF block, WaitInv, Ready, IsTask, Distance
<1>5. ASSUME NEW i \in Slots, wake(i) PROVE WaitInv'
  <2>1. Distance(i) \in 0 .. max_tasks - 1
    BY Zenon, DistanceRange
  <2>2. /\ passed'[i] = 0
        /\ \A j \in Slots : j # i => passed'[j] = passed[j] /\ (Ready(j)' <=> Ready(j))
    BY <1>5 DEF wake, Ready, IsTask
  <2>3. \A j \in Slots : Distance(j)' = Distance(j)
    BY Zenon, <1>5 DEF wake, Distance
  <2>4. ASSUME NEW j \in Slots
        PROVE  /\ Ready(j)' => passed'[j] + Distance(j)' <= max_tasks - 1
               /\ ~ Ready(j)' => passed'[j] = 0
    <3>1. CASE j = i
      BY <2>1, <2>2, <2>3, <3>1
    <3>2. CASE j # i
      BY Zenon, <2>2, <2>3, <3>2 DEF WaitInv
    <3> QED
      BY <3>1, <3>2
  <2> QED
    BY <2>4 DEF WaitInv
<1> QED
  BY ZenonT(40), <1>1, <1>2, <1>3, <1>4, <1>5 DEF NextTasks, run_next, task_returns

\* The invariant of scheduler.cpp: in every reachable state the tables are
\* well formed, one task runs, and no ready task has been passed over too
\* often.
THEOREM TaskInvHolds == TaskSpec => []TaskInv
<1>1. InitTasks => TaskInv
  BY InitTaskInv
<1>2. TaskInv /\ [NextTasks]_task_vars => TaskInv'
  <2> SUFFICES ASSUME TaskInv, [NextTasks]_task_vars PROVE TaskInv'
    OBVIOUS
  <2>1. CASE NextTasks
    BY <2>1, TaskStepType, TaskStepOne, TaskStepWait DEF TaskInv
  <2>2. CASE UNCHANGED task_vars
    <3>1. TypeOK'
      BY Zenon, <2>2 DEF task_vars, TaskInv, TypeOK
    <3>2. OneRuns' /\ IdInv'
      BY Zenon, <2>2 DEF task_vars, TaskInv, OneRuns, IdInv, IsTask
    <3>3. WaitInv'
      BY <2>2 DEF task_vars, TaskInv, WaitInv, Ready, IsTask, Distance
    <3> QED
      BY <3>1, <3>2, <3>3 DEF TaskInv
  <2> QED
    BY <2>1, <2>2
<1> QED
  BY <1>1, <1>2, PTL DEF TaskSpec

\* run_next() runs one task at a time, current_task() names it, and task
\* identifiers are distinct, for a table of any size.
THEOREM OneRunsHolds == TaskSpec => []OneRuns
<1>1. TaskInv => OneRuns
  BY DEF TaskInv
<1> QED
  BY <1>1, TaskInvHolds, PTL

\* A ready task waits for at most one step of each other slot, for a table of
\* any size: what cursor and the scan in run_next() are for.
THEOREM WaitHolds == TaskSpec => []BoundedWait
<1>1. TaskInv => BoundedWait
  <2> SUFFICES ASSUME TaskInv, NEW i \in Slots PROVE passed[i] <= max_tasks - 1
    BY DEF BoundedWait
  <2>1. Distance(i) \in 0 .. max_tasks - 1
    BY DistanceRange DEF TaskInv
  <2> QED
    BY <2>1, SchedulerAssumption DEF TaskInv, TypeOK, WaitInv
<1> QED
  BY <1>1, TaskInvHolds, PTL

-----------------------------------------------------------------------------
(* The interrupt layer. *)

\* Every variable has its type.
InterruptTypes ==
    /\ machine \in {"pic", "gic"} /\ on \in BOOLEAN /\ genuine \in BOOLEAN
    /\ irr \subseteq Requestable /\ isr \subseteq Lines /\ masked \subseteq Lines
    /\ vectors \subseteq Requestable /\ taken \subseteq Requestable
    /\ call \in [what : {"none", "take", "enable", "unhook", "forget"}, line : Lines]
    /\ call.what # "none" => call.line \in Requestable
    /\ cpu \in {"main", "entry", "dispatch", "handler", "end"}
    /\ now \in Lines

\* On the 8259s a line that is open has its vector; a call of request() has hooked
\* its line and a call of release() has masked it.
Hooked ==
    machine = "pic" =>
        /\ Requestable \ masked \subseteq vectors
        /\ call.what \in {"take", "enable"} => call.line \in vectors
        /\ call.what \in {"unhook", "forget"} => call.line \in masked

\* What the controller has in service for an interrupt it really delivered.
Delivered(l) == {l} \union IF machine = "pic" /\ Slave(l) THEN {Cascade} ELSE {}

\* What is in service at each point of an interrupt.
InService ==
    /\ cpu \in {"main", "entry"} => isr = {}
    /\ cpu = "entry" => machine = "gic"
    /\ cpu \in {"dispatch", "handler", "end"} /\ genuine =>
          now \in Requestable /\ isr = Delivered(now)
    /\ cpu = "dispatch" /\ ~ genuine =>
          /\ machine = "pic"
          /\ \/ now = master_spurious_irq /\ isr = {}
             \/ now = slave_spurious_irq /\ isr = {Cascade}
    /\ cpu \in {"handler", "end"} => genuine
    /\ cpu = "handler" => now \in taken

\* The interrupt layer's inductive invariant.
ServiceInv == InterruptTypes /\ Hooked /\ InService
-----------------------------------------------------------------------------
\* Facts about the line numbers: the cascade is a line of the master, and neither
\* its last line nor one a driver can ask for.
LEMMA LineFacts ==
    /\ Cascade \in Lines /\ ~ Slave(Cascade)
    /\ master_spurious_irq \in Lines /\ slave_spurious_irq \in Lines
    /\ ~ Slave(master_spurious_irq) /\ Slave(slave_spurious_irq)
    /\ Cascade # master_spurious_irq /\ Cascade # slave_spurious_irq
    /\ Requestable \subseteq Lines /\ Cascade \notin Requestable
    /\ 0 \in Lines
    /\ \A l \in Requestable : Slave(l) => l = slave_spurious_irq
  BY InterruptAssumption DEF Lines, Slave, master_spurious_irq, slave_spurious_irq

\* pic_end_of_interrupt() takes out of service exactly what one delivered interrupt
\* put there: the unspecific end of each chip finds that one interrupt.
LEMMA EndTakesAll ==
    ASSUME NEW l \in Requestable, machine = "pic", isr = Delivered(l)
    PROVE  isr \ (Ended(FALSE) \union IF Slave(l) THEN Ended(TRUE) ELSE {}) = {}
  <1>1. CASE Slave(l)
    <2>1. isr = {l, Cascade}
      BY <1>1 DEF Delivered
    <2>2. Cascade \in Ended(FALSE)
      BY <1>1, <2>1, LineFacts DEF Ended, Slave, Lines
    <2>3. l \in Ended(TRUE)
      BY <1>1, <2>1, LineFacts DEF Ended, Slave, Lines
    <2> QED BY Zenon, <1>1, <2>1, <2>2, <2>3
  <1>2. CASE ~ Slave(l)
    <2>1. isr = {l}
      BY <1>2 DEF Delivered
    <2>2. l \in Ended(FALSE)
      BY <1>2, <2>1, LineFacts DEF Ended, Slave, Lines
    <2> QED BY Zenon, <1>2, <2>1, <2>2
  <1> QED BY Zenon, <1>1, <1>2
-----------------------------------------------------------------------------
\* pic_initialize() and gicv2_initialize() leave nothing open and nothing in service.
LEMMA InitServiceInv == Init => ServiceInv
  <1> SUFFICES ASSUME Init PROVE ServiceInv
    OBVIOUS
  <1>1. InterruptTypes
    BY Zenon, LineFacts DEF Init, InterruptTypes, NoCall
  <1>2. Hooked
    BY LineFacts DEF Init, Hooked, NoCall
  <1>3. InService
    BY DEF Init, InService
  <1> QED BY <1>1, <1>2, <1>3 DEF ServiceInv

\* The steps of request() and release(), and enabling interrupts: the core is not in
\* an interrupt.
LEMMA CallStep ==
    ASSUME ServiceInv,
           \/ \E l \in Requestable : RequestVector(l) \/ ReleaseMask(l)
           \/ Calls \/ EnableInterrupts
    PROVE  ServiceInv'
  <1> USE LineFacts
  <1>1. CASE \E l \in Requestable : RequestVector(l)
    BY SMTT(30), <1>1 DEF ServiceInv, InterruptTypes, Hooked, InService, RequestVector, Called, NoCall
  <1>2. CASE \E l \in Requestable : ReleaseMask(l)
    BY <1>2 DEF ServiceInv, InterruptTypes, Hooked, InService, ReleaseMask, Called, NoCall
  <1>3. CASE RequestTake
    BY Zenon, <1>3 DEF ServiceInv, InterruptTypes, Hooked, InService, RequestTake, Called
  <1>4. CASE RequestEnable
    BY Zenon, <1>4 DEF ServiceInv, InterruptTypes, Hooked, InService, RequestEnable, NoCall
  <1>5. CASE ReleaseUnhook
    BY Zenon, <1>5 DEF ServiceInv, InterruptTypes, Hooked, InService, ReleaseUnhook, Called
  <1>6. CASE ReleaseForget
    BY ZenonT(40), <1>6 DEF ServiceInv, InterruptTypes, Hooked, InService, ReleaseForget, NoCall
  <1>7. CASE EnableInterrupts
    BY <1>7 DEF ServiceInv, InterruptTypes, Hooked, InService, EnableInterrupts, Delivered
  <1> QED BY ZenonT(40), <1>1, <1>2, <1>3, <1>4, <1>5, <1>6, <1>7 DEF Calls

\* An acknowledge finds nothing in service and puts in service what dispatch() will
\* end; the vector of an open line is there to take it.
LEMMA AckStep ==
    ASSUME ServiceInv, NEW l \in Lines, Ack(l)
    PROVE  ServiceInv'
  <1> USE LineFacts
  <1>1. CASE AckPic(l)
    <2>1. l \in Requestable /\ l \in vectors /\ isr = {}
      BY Zenon, <1>1 DEF AckPic, First, Through, Open, ServiceInv, InterruptTypes, Hooked, InService
    <2>2. isr' = Delivered(l) /\ cpu' = "dispatch" /\ now' = l /\ genuine' /\ machine' = machine
      BY Zenon, <1>1, <2>1 DEF AckPic, Vector, Delivered
    <2>3. InterruptTypes' /\ Hooked'
      BY ZenonT(40), <1>1, <2>1, <2>2 DEF AckPic, ServiceInv, InterruptTypes, Hooked, Delivered
    <2>4. InService'
      BY Zenon, <2>1, <2>2 DEF InService, Delivered
    <2> QED BY Zenon, <2>3, <2>4 DEF ServiceInv
  <1>2. CASE SpuriousMaster(l)
    <2>1. isr = {} /\ isr' = {} /\ now' = master_spurious_irq /\ cpu' \in {"main", "dispatch"}
          /\ ~ genuine' /\ machine' = "pic"
      BY <1>2 DEF SpuriousMaster, Open, Vector, ServiceInv, InService
    <2>2. InterruptTypes' /\ Hooked'
      BY Zenon, <1>2, <2>1 DEF SpuriousMaster, ServiceInv, InterruptTypes, Hooked
    <2>3. InService'
      BY Zenon, <2>1 DEF InService
    <2> QED BY <2>2, <2>3 DEF ServiceInv
  <1>3. CASE SpuriousSlave(l)
    <2>1. l \in Requestable /\ l \in vectors /\ isr = {} /\ l = slave_spurious_irq
      BY ZenonT(40), <1>3 DEF SpuriousSlave, First, Through, Open, ServiceInv, InterruptTypes, Hooked, InService
    <2>2. isr' = {Cascade} /\ now' = slave_spurious_irq /\ cpu' = "dispatch"
          /\ ~ genuine' /\ machine' = "pic"
      BY <1>3, <2>1 DEF SpuriousSlave, Vector
    <2>3. InterruptTypes' /\ Hooked'
      BY Zenon, <1>3, <2>2 DEF SpuriousSlave, ServiceInv, InterruptTypes, Hooked
    <2>4. InService'
      BY ZenonT(40), <2>2 DEF InService
    <2> QED BY <2>3, <2>4 DEF ServiceInv
  <1>4. CASE AckGic(l)
    <2>1. l \in Requestable /\ isr = {}
      BY <1>4 DEF AckGic, ServiceInv, InterruptTypes, InService
    <2>2. isr' = {l} /\ cpu' = "dispatch" /\ now' = l /\ genuine' /\ machine' = "gic"
      BY Zenon, <1>4, <2>1 DEF AckGic
    <2>3. InterruptTypes' /\ Hooked'
      BY ZenonT(40), <1>4, <2>1, <2>2 DEF AckGic, ServiceInv, InterruptTypes, Hooked
    <2>4. InService'
      BY <2>1, <2>2 DEF InService, Delivered
    <2> QED BY <2>3, <2>4 DEF ServiceInv
  <1> QED BY <1>1, <1>2, <1>3, <1>4 DEF Ack

\* The rest of an interrupt: entering and leaving the GIC's loop, dispatch(), the
\* handler and the end of interrupt.
LEMMA ServiceStep ==
    ASSUME ServiceInv, EnterGic \/ Service
    PROVE  ServiceInv'
  <1> USE LineFacts
  <1>1. CASE EnterGic \/ LeaveGic
    BY <1>1 DEF EnterGic, LeaveGic, Open, ServiceInv, InterruptTypes, Hooked, InService
  <1>2. CASE DispatchSpurious
    <2>1. ~ genuine
      BY <1>2 DEF DispatchSpurious, pic_spurious, ServiceInv, InService, Delivered
    <2>2. isr' = {}
      <3>1. CASE now = master_spurious_irq /\ isr = {}
        BY <1>2, <3>1 DEF DispatchSpurious
      <3>2. CASE now = slave_spurious_irq /\ isr = {Cascade}
        <4>1. Cascade \in Ended(FALSE)
          BY <3>2 DEF Ended, Slave, Lines
        <4> QED BY Zenon, <1>2, <3>2, <4>1 DEF DispatchSpurious
      <3> QED BY Zenon, <1>2, <2>1, <3>1, <3>2 DEF DispatchSpurious, ServiceInv, InService
    <2> QED BY ZenonT(40), <1>2, <2>2 DEF DispatchSpurious, ServiceInv, InterruptTypes, Hooked, InService
  <1>3. CASE Dispatch
    <2>1. genuine
      BY Zenon, <1>3 DEF Dispatch, pic_spurious, ServiceInv, InService, InterruptTypes
    <2> QED BY ZenonT(40), <1>3, <2>1 DEF Dispatch, ServiceInv, InterruptTypes, Hooked, InService, Delivered
  <1>4. CASE RunHandler
    BY <1>4 DEF RunHandler, ServiceInv, InterruptTypes, Hooked, InService, Delivered
  <1>5. CASE EndOfInterrupt
    <2>1. genuine /\ now \in Requestable /\ isr = Delivered(now)
      BY Zenon, <1>5 DEF EndOfInterrupt, ServiceInv, InService
    <2>2. isr' = {}
      <3>1. CASE machine = "pic"
        BY Zenon, <1>5, <2>1, <3>1, EndTakesAll DEF EndOfInterrupt
      <3>2. CASE machine = "gic"
        BY <1>5, <2>1, <3>2 DEF EndOfInterrupt, Delivered
      <3> QED BY <3>1, <3>2 DEF ServiceInv, InterruptTypes
    <2> QED BY Zenon, <1>5, <2>2 DEF EndOfInterrupt, Back, ServiceInv, InterruptTypes, Hooked, InService
  <1> QED BY ZenonT(40), <1>1, <1>2, <1>3, <1>4, <1>5 DEF Service

\* The invariant holds throughout.
LEMMA ServiceInvHolds == Spec => []ServiceInv
  <1>1. ServiceInv /\ [Next]_vars => ServiceInv'
    <2> SUFFICES ASSUME ServiceInv, [Next]_vars PROVE ServiceInv'
      OBVIOUS
    <2>1. CASE \E l \in Requestable : Raise(l)
      BY SMTT(30), <2>1 DEF Raise, ServiceInv, InterruptTypes, Hooked, InService, Delivered
    <2>2. CASE UNCHANGED vars
      BY <2>2 DEF vars, ServiceInv, InterruptTypes, Hooked, InService, Delivered
    <2> QED BY ZenonT(40), <2>1, <2>2, CallStep, AckStep, ServiceStep DEF Next
  <1> QED BY <1>1, InitServiceInv, PTL DEF Spec

\* For any number of lines and any drivers, on either controller: between interrupts
\* nothing stays in service, and a handler runs only for a request that was there and
\* for a driver that holds the line, wherever request() and release() are interrupted
\* (irq.cpp:34-105, pic.cpp:75-113).
THEOREM ServiceHolds == Spec => []ServiceSound
  <1>1. ServiceInv => ServiceSound
    BY DEF ServiceInv, InService, ServiceSound, Delivered
  <1> QED BY <1>1, ServiceInvHolds, PTL
=============================================================================
