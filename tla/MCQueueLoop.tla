---------------------------- MODULE MCQueueLoop ----------------------------
(* Small instances of QueueLoop: the constants are numbers and flags, given *)
(* in the configuration.                                                    *)
EXTENDS QueueLoop
=============================================================================
