---------------------------- MODULE MCK8sGlue ----------------------------
(* Small instances of K8sGlue: a task, or two, and one or two queues.      *)
EXTENDS K8sGlue, TLC

CONSTANTS t1, t2

One == {t1}
Two == {t1, t2}
Interchangeable == Permutations(Two)
=============================================================================
