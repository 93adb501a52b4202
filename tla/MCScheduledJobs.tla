-------------------------- MODULE MCScheduledJobs --------------------------
(* Small instances of ScheduledJobs for TLC. *)
EXTENDS ScheduledJobs

CONSTANTS a, b, c, d1, w1, w2
=============================================================================
