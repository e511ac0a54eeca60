--------------------------- MODULE MCSessionLedger ---------------------------
(* Small instances of SessionLedger for TLC. *)
EXTENDS SessionLedger

CONSTANTS c1, c2, tick, other
=============================================================================
