--------------------------- MODULE MCApprovalGate ---------------------------
(* A small instance of ApprovalGate for TLC. *)
EXTENDS ApprovalGate, TLC

CONSTANTS a1, a2, a3

ResumerSymmetry == Permutations(Streams \ {First})
=============================================================================
