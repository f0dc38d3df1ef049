--------------------------- MODULE MCDynamicGpus ---------------------------
(* DynamicGpus on one or two GPUs and two queues.                          *)
EXTENDS DynamicGpus, TLC

\* --queue whole=1 half=0.5 with halves for units
WholeAndHalf == << <<2, 2>>, <<1, 1>> >>
\* --queue dual=2 many=1-2 half=0.5
Mixed == << <<4, 4>>, <<2, 4>>, <<1, 1>> >>
\* --queue one=1 many=1-2
OneAndMany == << <<2, 2>>, <<2, 4>> >>
\* --queue some=0.25-0.5 quarter=0.25 with quarters for units
Opportunistic == << <<1, 2>>, <<1, 1>> >>

Symmetry == Permutations(Tasks)
=============================================================================
