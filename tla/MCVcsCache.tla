---------------------------- MODULE MCVcsCache ----------------------------
(* A small instance of VcsCache: two agents of a machine.                *)
EXTENDS VcsCache, TLC

CONSTANTS a1, a2

Two == {a1, a2}
Both == {"temp", "direct"}
Interchangeable == Permutations(Two)
=============================================================================
