--------------------------- MODULE MCUserPrograms ---------------------------
(* Small instances of UserPrograms: user pages 1 to 4, frames above them or  *)
(* overlapping them.                                                         *)
EXTENDS UserPrograms

HighFrames == 5 .. 14
LowFrames == 1 .. 9
Programs == {{4}, {2, 4}}
=============================================================================
