--------------------------- MODULE MCSourcingRun ---------------------------
(* Small instances of SourcingRun for TLC. *)
EXTENDS SourcingRun

CONSTANTS t1, w1, c1, c2
=============================================================================
