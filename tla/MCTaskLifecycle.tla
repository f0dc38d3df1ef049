-------------------------- MODULE MCTaskLifecycle --------------------------
(* TaskLifecycle on small sets of agents and tasks.                        *)
EXTENDS TaskLifecycle, TLC

\* Agents and tasks are interchangeable in every safety property.
Symmetry == Permutations(Agents) \cup Permutations(Tasks)
=============================================================================
