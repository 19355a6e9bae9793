---------------------------- MODULE UserPrograms ----------------------------
(***************************************************************************)
(* User programs and what the kernel holds for them: the descriptor table  *)
(* (kernel/process/process.cpp), the VFS descriptors behind it, launch()   *)
(* with the exec and exit system calls, the saved UserContexts and kernel  *)
(* stacks, the address space that is active, and the page frames.          *)
(*                                                                         *)
(* A program may exec another and waits for it, so the running programs    *)
(* form a chain; procs[Len(procs)] is the one that runs.  Nothing else     *)
(* changes this state (interrupt handlers do not), so a system call is one *)
(* step.  A page is a page number; a frame is the page number of physical  *)
(* memory, and the kernel reaches frame f at virtual page f.               *)
(***************************************************************************)
EXTENDS Naturals, Sequences, FiniteSets

CONSTANTS
    Arch,        \* "x86_64" or "arm64"
    MaxDepth,    \* bound on the chain of programs
    VfsFiles,    \* vfs::max_open_files
    MaxOpen,     \* process::max_open_files
    Frames,      \* frames the page allocator manages
    TablePages,  \* frames one address space's translation tables take
    Images       \* the programs: each is the set of user pages it maps

ASSUME ProgramsAssumption ==
    /\ Arch \in {"x86_64", "arm64"}
    /\ MaxDepth \in Nat
    /\ VfsFiles \in Nat
    /\ MaxOpen \in Nat /\ MaxOpen >= 3
    /\ Frames \in SUBSET (Nat \ {0})
    /\ IsFiniteSet(Frames)
    /\ TablePages \in Nat \ {0}
    /\ \A img \in Images : img \in SUBSET Nat /\ IsFiniteSet(img)

VARIABLES
    table,         \* the one descriptor table
    files,         \* VFS descriptors in use
    procs,         \* the chain of programs, outermost first
    user_context,  \* whose saved context exit returns to
    user_depth,    \* programs entered and not yet returned from
    kernel_stack,  \* the stack system calls, and so launch(), run on
    active_space,  \* the address space in use, named by its table frames
    free,          \* frames the allocator can hand out
    stray          \* some frame was written through a page a program hides

program_vars == <<table, files, procs, user_context, user_depth, kernel_stack, active_space, free, stray>>
-----------------------------------------------------------------------------
Unused == [kind |-> "Unused", backing |-> VfsFiles]
StandardInput == [kind |-> "StandardInput", backing |-> VfsFiles]
StandardOutput == [kind |-> "StandardOutput", backing |-> VfsFiles]
File(d) == [kind |-> "File", backing |-> d]

Descriptors == 0 .. MaxOpen - 1
Entry == {Unused, StandardInput, StandardOutput} \cup {File(d) : d \in 0 .. VfsFiles - 1}

\* process::reset(): every entry is overwritten, nothing is closed
ResetTable ==
    [e \in Descriptors |-> CASE e = 0 -> StandardInput
                             [] e \in {1, 2} -> StandardOutput
                             [] OTHER -> Unused]

EmptyTable == [e \in Descriptors |-> Unused]

\* process::teardown(): the VFS descriptors that stay open
AfterTeardown == files \ {table[e].backing : e \in {x \in Descriptors : table[x].kind = "File"}}

\* vfs::open() takes the first unused descriptor
FreeFiles == (0 .. VfsFiles - 1) \ files
Least(d, S) == d \in S /\ \A o \in S : d <= o

\* the address space in use while no program runs
KernelSpace == {}

\* the kernel stack the system calls of the program at depth d use: x86_64 has
\* two, arm64 goes on below the call chain that entered the program
StackOf(d) == IF Arch = "x86_64" /\ d >= 2 THEN 1 ELSE d

\* the boot stack, where kernel_main and the recovery shell call launch()
BootStack == MaxDepth

\* the child goes on with the stack of the call that launched it
StackOnEntry_Callers == kernel_stack

\* enter_userspace() before it enters, and after exit has returned to it
StackOnEntry == StackOf(user_depth)

\* the parent's kernel stack is not put back
StackOnReturn_Childs == IF user_depth = 1 THEN BootStack ELSE kernel_stack

StackOnReturn == IF user_depth = 1 THEN BootStack ELSE StackOf(user_depth - 2)

\* the address space returned to is torn down instead of the program's own
Destroyed_Resumed(p) == p.resume

\* PageTable::destroy() gives back the tables and leaves the mapped pages
Destroyed(p) == p.tables

Top == procs[Len(procs)]

\* allocate_page() takes the lowest frame first
Lowest(n, S) == {f \in S : Cardinality({g \in S : g < f}) < n}

\* x86_64 builds the child's tables and pages through the parent's address
\* space, where a user page hides the frame of that number; arm64 turns the
\* MMU off first
HiddenFrames == IF Arch = "x86_64" /\ procs # <<>> THEN Top.pages ELSE {}
-----------------------------------------------------------------------------
InitPrograms ==
    /\ table = EmptyTable
    /\ files = {}
    /\ procs = <<>>
    /\ user_context = 0
    /\ user_depth = 0
    /\ kernel_stack = BootStack
    /\ active_space = KernelSpace
    /\ free = Frames
    /\ stray = FALSE

OpenFile ==
    /\ procs # <<>>
    /\ \E d \in FreeFiles, e \in Descriptors :
          /\ Least(d, FreeFiles)
          /\ Least(e, {x \in Descriptors : x >= 3 /\ table[x] = Unused})
          /\ files' = files \cup {d}
          /\ table' = [table EXCEPT ![e] = File(d)]
    /\ UNCHANGED <<procs, user_context, user_depth, kernel_stack, active_space, free, stray>>

\* the VFS descriptor is closed but the entry still names it
Close_Dangling(e) ==
    /\ procs # <<>>
    /\ table[e].kind = "File"
    /\ files' = files \ {table[e].backing}
    /\ UNCHANGED <<table, procs, user_context, user_depth, kernel_stack, active_space, free, stray>>

Close(e) ==
    /\ procs # <<>>
    /\ table[e].kind # "Unused"
    /\ files' = IF table[e].kind = "File" THEN files \ {table[e].backing} ELSE files
    /\ table' = [table EXCEPT ![e] = Unused]
    /\ UNCHANGED <<procs, user_context, user_depth, kernel_stack, active_space, free, stray>>

\* launch() gives up before anything is set up: the image cannot be read, for
\* want of a VFS descriptor or otherwise.  Exec resets the table all the same.
LaunchUnreadable ==
    /\ table' = IF procs = <<>> THEN table ELSE ResetTable
    /\ UNCHANGED <<files, procs, user_context, user_depth, kernel_stack, active_space, free, stray>>

\* launch() gives up while it builds the program: its tables are freed, the n
\* program pages allocated so far are not
LaunchFails(n) ==
    LET tables == Lowest(TablePages, free)
        pages == Lowest(n, free \ tables)
    IN  /\ FreeFiles # {}
        /\ table' = ResetTable
        /\ free' = free \ pages
        /\ stray' = (stray \/ (tables \cup pages) \cap HiddenFrames # {})
        /\ UNCHANGED <<files, procs, user_context, user_depth, kernel_stack, active_space>>

Launch(img) ==
    LET tables == Lowest(TablePages, free)
        pages == Lowest(Cardinality(img), free \ tables)
    IN  /\ Len(procs) < MaxDepth
        /\ FreeFiles # {}
        /\ Cardinality(tables) = TablePages
        /\ Cardinality(pages) = Cardinality(img)
        /\ table' = ResetTable
        /\ free' = free \ (tables \cup pages)
        /\ stray' = (stray \/ (tables \cup pages) \cap HiddenFrames # {})
        /\ procs' = Append(procs, [tables |-> tables, frames |-> pages, pages |-> img,
                                   resume |-> active_space, previous |-> user_context,
                                   context |-> kernel_stack])
        /\ active_space' = tables
        /\ user_context' = Len(procs) + 1
        /\ user_depth' = user_depth + 1
        /\ kernel_stack' = StackOnEntry
        /\ UNCHANGED files

\* the exit system call up to the caller of launch(): teardown, the jump to
\* the saved context, the return to the previous address space, the tables
\* freed, and for a parent program the reset that ends its exec
Exit ==
    /\ procs # <<>>
    /\ LET p == procs[user_context]
       IN  /\ files' = AfterTeardown
           /\ procs' = SubSeq(procs, 1, user_context - 1)
           /\ user_context' = p.previous
           /\ user_depth' = user_depth - 1
           /\ kernel_stack' = StackOnReturn
           /\ active_space' = p.resume
           /\ free' = free \cup Destroyed(p)
           /\ table' = IF procs' = <<>> THEN EmptyTable ELSE ResetTable
           /\ UNCHANGED stray

NextPrograms ==
    \/ OpenFile
    \/ \E e \in Descriptors : Close(e)
    \/ LaunchUnreadable
    \/ \E img \in Images : \E n \in 0 .. Cardinality(img) : LaunchFails(n)
    \/ \E img \in Images : Launch(img)
    \/ Exit

ProgramSpec == InitPrograms /\ [][NextPrograms]_program_vars
-----------------------------------------------------------------------------
Program ==
    [tables : SUBSET Frames, frames : SUBSET Frames, pages : Images,
     resume : SUBSET Frames, previous : Nat, context : 0 .. MaxDepth]

\* Every variable has its type, and the depth counted is the chain's length.
ProgramTypes ==
    /\ table \in [Descriptors -> Entry]
    /\ files \in SUBSET (0 .. VfsFiles - 1)
    /\ procs \in Seq(Program)
    /\ Len(procs) <= MaxDepth
    /\ user_context \in 0 .. MaxDepth
    /\ user_depth = Len(procs)
    /\ kernel_stack \in 0 .. MaxDepth
    /\ active_space \in SUBSET Frames
    /\ free \in SUBSET Frames
    /\ stray \in BOOLEAN

\* A file entry of the descriptor table names a VFS descriptor that is in use,
\* and no two entries name the same one, through open, close, exec and exit:
\* a program's descriptor never reaches a file somebody else opened.
BackingsSound ==
    \A e \in Descriptors : table[e].kind = "File" =>
        /\ table[e].backing \in files
        /\ \A o \in Descriptors : table[o] = table[e] => o = e

Owned(i) == procs[i].tables \cup procs[i].frames

\* The translation tables and the pages of a program that has not exited are
\* its own: no other program of the chain has them and the allocator cannot
\* hand them out, whatever launches fail and whichever child exits.
FramesOwned ==
    \A i \in DOMAIN procs :
        /\ procs[i].tables \cap procs[i].frames = {}
        /\ Owned(i) \cap free = {}
        /\ \A j \in DOMAIN procs : i # j => Owned(i) \cap Owned(j) = {}

\* The program that runs is in its own address space, its system calls use the
\* stack of its depth, and exit returns to its own saved context: a child that
\* exits leaves its parent, or the kernel, exactly where exec was called.
ReturnsHome ==
    /\ user_context = Len(procs)
    /\ active_space = IF procs = <<>> THEN KernelSpace ELSE Top.tables
    /\ kernel_stack = IF procs = <<>> THEN BootStack ELSE StackOf(Len(procs) - 1)

\* The stack the running program's system calls start on holds no UserContext
\* of the chain, so that no handler overwrites one (arch.cpp, enter_userspace).
ContextIntact == \A i \in DOMAIN procs : procs[i].context # kernel_stack

\* launch() never writes a child's table or page through a virtual page its
\* parent has mapped elsewhere (launch.cpp, map_managed_memory).
NoStrayWrite == ~stray

\* A VFS descriptor in use is one the descriptor table can still close: the
\* shared VFS table does not leak (process.hpp, teardown).
NoDescriptorLeak ==
    \A d \in files : \E e \in Descriptors : table[e] = File(d)
=============================================================================
