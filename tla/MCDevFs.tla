------------------------------- MODULE MCDevFs -------------------------------
(***************************************************************************)
(* DevFs for TLC: two sectors of two bytes, and writes that cover part of  *)
(* one, all of one, and the end of one with the start of the next.         *)
(***************************************************************************)
EXTENDS DevFs

TwoBytes == [1 .. 2 -> {0, 1}]
OneDisk == {[n \in 0 .. 1 |-> <<n, 1>>]}
Writes == {<<1>>, <<0, 0>>, <<1, 0, 1>>}
==============================================================================
