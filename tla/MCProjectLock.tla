---------------------------- MODULE MCProjectLock ----------------------------
(* Small instances of ProjectLock for TLC: two or three processes. *)
EXTENDS ProjectLock

CONSTANTS a, b, c
=============================================================================
