----------------------------- MODULE MCBlockCache -----------------------------
(* BlockCache with three blocks, two buffers and a caller that holds them.   *)
EXTENDS BlockCache

CONSTANT h1
===============================================================================
