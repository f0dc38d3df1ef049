---------------------------- MODULE MCSingleton ----------------------------
(* Instances of Singleton for TLC.                                         *)
EXTENDS Singleton

CONSTANTS a, b, c
=============================================================================
