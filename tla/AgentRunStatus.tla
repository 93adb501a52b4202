--------------------------- MODULE AgentRunStatus ---------------------------
(***************************************************************************)
(* The statuses of an agent run and the transitions that                   *)
(* _require_transition lets a directed (unmanaged) run take.               *)
(***************************************************************************)

RunStatuses ==
    {"CREATED", "CLARIFYING", "POLICY_LOCKED", "LOCAL_SEARCHING", "EXTERNAL_REVIEW",
     "IDENTITY_RESOLVING", "IDENTITY_REVIEW", "INVESTIGATING", "EVIDENCE_REVIEW", "SCORING",
     "READY_FOR_REVIEW", "ACTION_PENDING", "ACTION_EXECUTING", "COMPLETED", "PARTIAL",
     "NEEDS_REVIEW", "ACTION_FAILED", "FAILED", "CANCELLED", "ROLLBACK_FROZEN"}

\* ALLOWED_STATUS_TRANSITIONS; the statuses that are not named lead nowhere.
Following(status) ==
    CASE status = "CREATED"            -> {"CLARIFYING", "POLICY_LOCKED", "CANCELLED"}
      [] status = "CLARIFYING"         -> {"CREATED", "POLICY_LOCKED", "CANCELLED"}
      [] status = "POLICY_LOCKED"      -> {"LOCAL_SEARCHING", "CANCELLED", "FAILED"}
      [] status = "LOCAL_SEARCHING"    -> {"EXTERNAL_REVIEW", "IDENTITY_RESOLVING", "FAILED", "CANCELLED"}
      [] status = "EXTERNAL_REVIEW"    -> {"IDENTITY_RESOLVING", "LOCAL_SEARCHING", "CANCELLED"}
      [] status = "IDENTITY_RESOLVING" -> {"IDENTITY_REVIEW", "INVESTIGATING", "NEEDS_REVIEW", "CANCELLED"}
      [] status = "IDENTITY_REVIEW"    -> {"IDENTITY_RESOLVING", "INVESTIGATING", "NEEDS_REVIEW", "CANCELLED"}
      [] status = "INVESTIGATING"      -> {"EVIDENCE_REVIEW", "SCORING", "PARTIAL", "FAILED", "CANCELLED"}
      [] status = "EVIDENCE_REVIEW"    -> {"INVESTIGATING", "SCORING", "NEEDS_REVIEW", "PARTIAL", "CANCELLED"}
      [] status = "SCORING"            -> {"READY_FOR_REVIEW", "NEEDS_REVIEW", "PARTIAL", "FAILED"}
      [] status = "READY_FOR_REVIEW"   -> {"ACTION_PENDING", "COMPLETED", "PARTIAL", "NEEDS_REVIEW", "CANCELLED"}
      [] status = "ACTION_PENDING"     -> {"ACTION_EXECUTING", "READY_FOR_REVIEW", "CANCELLED"}
      [] status = "ACTION_EXECUTING"   -> {"COMPLETED", "ACTION_FAILED", "PARTIAL"}
      [] OTHER                         -> {}

\* _require_transition: staying in a status is always allowed.
MayBecome(status, target) == target = status \/ target \in Following(status)

\* What freeze_in_flight_v2_runs leaves alone, besides the frozen runs themselves.
Ended == {"COMPLETED", "PARTIAL", "NEEDS_REVIEW", "ACTION_FAILED", "FAILED", "CANCELLED"}
=============================================================================
