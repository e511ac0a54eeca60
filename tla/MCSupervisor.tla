---------------------------- MODULE MCSupervisor ----------------------------
(* Small instances of Supervisor for TLC: at most one probe at a time. *)
EXTENDS Supervisor

CONSTANT p1
=============================================================================
