---------------------------- MODULE MCLoopLedger ----------------------------
(* Small instances of LoopLedger and LoopBrief for TLC. *)
EXTENDS LoopBrief

CONSTANTS s1, s2, l1, l2
=============================================================================
