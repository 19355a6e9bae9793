------------------------------ MODULE ByteChannel -----------------------------
(***************************************************************************)
(* What an input queue promises: a first-in first-out channel of at most   *)
(* Limit characters.  A character that arrives while the channel is full   *)
(* is dropped; nothing else is ever lost, repeated or reordered.           *)
(***************************************************************************)
EXTENDS Integers, Sequences

CONSTANTS
    Chars,   \* what can be typed
    Limit    \* how many characters wait at most

VARIABLES
    pending, \* accepted and not yet taken, oldest first
    out      \* what the current reader has taken

vars == <<pending, out>>

Init == pending = <<>> /\ out = <<>>

Arrive(c) ==
    /\ pending' = IF Len(pending) < Limit THEN Append(pending, c) ELSE pending
    /\ UNCHANGED out

BeginRead ==
    /\ out' = <<>>
    /\ UNCHANGED pending

Take ==
    /\ pending # <<>>
    /\ out' = Append(out, Head(pending))
    /\ pending' = Tail(pending)

\* Forget the oldest n characters.
Forget(n) ==
    /\ pending' = SubSeq(pending, n + 1, Len(pending))
    /\ UNCHANGED out

Next ==
    \/ \E c \in Chars : Arrive(c)
    \/ BeginRead
    \/ Take
    \/ \E n \in 0..Len(pending) : Forget(n)

Spec == Init /\ [][Next]_vars
===============================================================================
