----------------------------- MODULE RunOwnership -----------------------------
(***************************************************************************)
(* What durable execution promises about a Run, without tables, leases or  *)
(* queues: a Run is granted to one process at a time, every grant has an   *)
(* epoch of its own, an answer is published only by the present owner, and *)
(* a Run is given up for a human only while nobody owns it.                *)
(*                                                                         *)
(* AgentExecution implements this specification: the permit that           *)
(* coordinator.require_active accepts is the ownership, the fencing token  *)
(* is the epoch.                                                           *)
(***************************************************************************)
EXTENDS Naturals

CONSTANTS
    Runs,      \* runs
    Procs,     \* processes that may own a run
    Unowned    \* no owner

VARIABLES
    verdict,   \* how each run ended, "unborn" or "open" before
    owner,     \* the process that owns each run
    epoch      \* number of the run's last grant or revocation

vars == <<verdict, owner, epoch>>

Answers  == {"COMPLETED", "PARTIAL", "NEEDS_REVIEW", "FAILED"}
Verdicts == Answers \cup {"CANCELLED", "ROLLBACK_FROZEN"}

Init ==
    /\ verdict = [r \in Runs |-> "unborn"]
    /\ owner = [r \in Runs |-> Unowned]
    /\ epoch = [r \in Runs |-> 0]

Open(r) ==
    /\ verdict[r] = "unborn"
    /\ verdict' = [verdict EXCEPT ![r] = "open"]
    /\ UNCHANGED <<owner, epoch>>

Grant(r, p) ==
    /\ verdict[r] = "open" /\ owner[r] = Unowned
    /\ owner' = [owner EXCEPT ![r] = p]
    /\ epoch' = [epoch EXCEPT ![r] = @ + 1]
    /\ UNCHANGED verdict

\* A crash, an expired lease, a pause.  An API process that dies loses all the
\* runs of its streams at once.
Lose(R) ==
    /\ owner' = [r \in Runs |-> IF r \in R THEN Unowned ELSE owner[r]]
    /\ UNCHANGED <<verdict, epoch>>

\* A reconciliation, or a resume that waits for a worker, outdates whatever
\* the last owner still holds.
Fence(r) ==
    /\ verdict[r] = "open" /\ owner[r] = Unowned
    /\ epoch' = [epoch EXCEPT ![r] = @ + 1]
    /\ UNCHANGED <<verdict, owner>>

Close(r, v) ==
    /\ verdict[r] = "open"
    /\ verdict' = [verdict EXCEPT ![r] = v]
    /\ owner' = [owner EXCEPT ![r] = Unowned]

Answer(r) ==
    /\ owner[r] # Unowned
    /\ \E a \in Answers : Close(r, a)
    /\ UNCHANGED epoch

GiveUp(r) ==
    /\ owner[r] = Unowned
    /\ Close(r, "NEEDS_REVIEW")
    /\ epoch' = [epoch EXCEPT ![r] = @ + 1]

Cancel(r) == Close(r, "CANCELLED") /\ UNCHANGED epoch

Freeze(R) ==
    /\ \A r \in R : verdict[r] = "open"
    /\ verdict' = [r \in Runs |-> IF r \in R THEN "ROLLBACK_FROZEN" ELSE verdict[r]]
    /\ owner' = [r \in Runs |-> IF r \in R THEN Unowned ELSE owner[r]]
    /\ UNCHANGED epoch

Next ==
    \/ \E r \in Runs : \/ Open(r) \/ Fence(r) \/ Answer(r) \/ GiveUp(r) \/ Cancel(r)
                       \/ \E p \in Procs : Grant(r, p)
    \/ \E R \in SUBSET Runs : Lose(R) \/ Freeze(R)

Spec == Init /\ [][Next]_vars
=============================================================================
