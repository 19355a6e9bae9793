------------------------------- MODULE MCExfat -------------------------------
(***************************************************************************)
(* Instances of Exfat for TLC: two names, in two directories, on a volume  *)
(* of a few clusters.  Owners are only compared, so they are symmetric.    *)
(***************************************************************************)
EXTENDS Exfat, TLC

TwoDirectories == "f" :> 1 @@ "g" :> 2
Symmetric == Permutations(Owners)

Setup(cached, failing, operations, last, longest) ==
    [cached |-> cached, failing |-> failing, operations |-> operations,
     last |-> last, longest |-> longest]

NoTruncate == {"create", "write", "remove", "rename"}

\* Up to five clusters on a device without a cache; two or three behind a write-back
\* cache; three on a device where metadata writes, or data writes, may fail.
SoundSetups ==
    {Setup(FALSE, {}, NoTruncate \cup {"truncate"}, 4, 2),
     Setup(FALSE, {}, {"create", "truncate"}, 5, 3),
     Setup(FALSE, {}, NoTruncate, 6, 3),
     Setup(TRUE, {}, NoTruncate, 3, 2),
     Setup(TRUE, {}, {"create", "write", "rename"}, 4, 2),
     Setup(FALSE, {"bitmap", "fat", "dir", "flags", "flush"}, {"create", "write", "remove"}, 4, 2),
     Setup(FALSE, {"data", "dir"}, {"create", "write", "remove"}, 4, 2)}
==============================================================================
