------------------------- MODULE MCAssessmentLedger -------------------------
(* Small instances of AssessmentLedger for TLC. *)
EXTENDS AssessmentLedger, TLC

CONSTANTS a1, p1, p2, c1, c2, d1, d2
=============================================================================
