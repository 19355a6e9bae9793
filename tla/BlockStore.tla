------------------------------ MODULE BlockStore ------------------------------
(***************************************************************************)
(* What a file system may rely on when it talks to a write-back cache      *)
(* instead of the disk: an abstract store of blocks with a medium behind   *)
(* it.  Reads return the latest write, the medium may catch up at any time *)
(* and in any order, a flush may only report success once the medium has   *)
(* everything, and a power cut leaves exactly what the medium holds.       *)
(***************************************************************************)
EXTENDS Integers

CONSTANTS
    Blocks,   \* the block numbers of the store
    Span,     \* how many device blocks one block of the store covers
    Values    \* what one device block can hold

VARIABLES
    store,    \* what a reader sees
    media,    \* what would survive a power cut
    editing,  \* blocks somebody is changing in place and has not released
    out       \* what the last call returned

vars == <<store, media, editing, out>>

Parts == 1..Span
Content == [Parts -> Values]

\* The first k device blocks of a block hold the new content, the rest the old.
Torn(k, new, old) == [p \in Parts |-> IF p <= k THEN new[p] ELSE old[p]]

Quiet == {[kind |-> "none"], [kind |-> "error"]}

Init ==
    /\ store \in [Blocks -> Content]
    /\ media = store
    /\ editing = {}
    /\ out = [kind |-> "none"]

\* The medium takes over all or the first part of one block, or nothing.
MediaMoves ==
    \/ media' = media
    \/ \E b \in Blocks, k \in 0..Span :
          media' = [media EXCEPT ![b] = Torn(k, store[b], media[b])]

Read(b) ==
    /\ out' = [kind |-> "read", block |-> b, data |-> store[b]]
    /\ MediaMoves
    /\ UNCHANGED <<store, editing>>

\* A block replaced by a finished call.
Write(b, c) ==
    /\ store' = [store EXCEPT ![b] = c]
    /\ out' \in Quiet
    /\ MediaMoves
    /\ UNCHANGED editing

\* A block changed in place by someone who still holds it.
Edit(b, c) ==
    /\ store' = [store EXCEPT ![b] = c]
    /\ editing' = editing \union {b}
    /\ out' \in Quiet
    /\ UNCHANGED media

\* No content changes: internal traffic, a failed call, an editor letting go.
Internal ==
    /\ editing' \subseteq editing
    /\ out' \in Quiet
    /\ MediaMoves
    /\ UNCHANGED store

\* Success of a flush means every block not being edited is on the medium.
FlushOk ==
    /\ \A b \in Blocks \ editing : media[b] = store[b]
    /\ out' = [kind |-> "flushed"]
    /\ UNCHANGED <<store, media, editing>>

PowerCut ==
    /\ MediaMoves
    /\ store' = media'
    /\ editing' = {}
    /\ out' = [kind |-> "none"]

Next ==
    \/ \E b \in Blocks : Read(b)
    \/ \E b \in Blocks, c \in Content : Write(b, c) \/ Edit(b, c)
    \/ Internal
    \/ FlushOk
    \/ PowerCut

Spec == Init /\ [][Next]_vars
===============================================================================
