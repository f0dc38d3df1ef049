--------------------------- MODULE MCFolderCache ---------------------------
(* Instances of FolderCache for TLC.                                       *)
EXTENDS FolderCache

CONSTANTS a1, a2, k1, k2, k3

Pair == {a1, a2}
ThreeKeys == {k1, k2, k3}
Overlapping == {{k1}, {k1, k2}, {k2, k3}}
=============================================================================
