---------------------------- MODULE MCGraphTrace ----------------------------
(* Small instances of GraphTrace for TLC. *)
EXTENDS GraphTrace

CONSTANTS x, y, z

MCLabel == [n \in Nodes |-> IF n = z THEN "Method" ELSE "Function"]
=============================================================================
