---------------------------- MODULE SourcingRun ----------------------------
(***************************************************************************)
(* One directed sourcing run (run_type sourcing_risk_v2): the graph of     *)
(* graphs/sourcing_risk_v2, executed by background tasks of the API and,   *)
(* for candidate review batches, by agent workers; the reviewers' calls;   *)
(* the leases of the batches; cancellation and rollback.  Every database   *)
(* transaction is one step.  LangGraph is external: a node that returns is *)
(* followed by its checkpoint, a resumed thread goes on at its checkpoint, *)
(* and resuming a thread that has ended does nothing.                      *)
(***************************************************************************)
EXTENDS Naturals, FiniteSets, AgentRunStatus

CONSTANTS
    Candidates,       \* what discovery finds
    Exact,            \* those whose company is identified without a reviewer
    Tasks,            \* background graph tasks of the API
    Workers,          \* agent workers
    MaxAttempts,      \* max_attempts of claim_candidate_review_batch
    MaxBatches,       \* bound: review batches submitted
    MaxCalls,         \* bound: calls that pass their first check, and changes of the rollout
    LegacyReview,     \* whether reviewers also use the identity-resolution endpoint
    Rollback          \* whether administrators roll V2 back and forth

ASSUME SourcingAssumption ==
    /\ Exact \subseteq Candidates /\ Candidates # {}
    /\ Tasks \cap Workers = {}
    /\ MaxAttempts \in Nat \ {0} /\ MaxBatches \in Nat /\ MaxCalls \in Nat
    /\ LegacyReview \in BOOLEAN /\ Rollback \in BOOLEAN

VARIABLES
    run,           \* agent_runs: [status, version]
    batch,         \* sourcing_candidate_review_events, in the order of event_id
    disposition,   \* sourcing_candidate_dispositions
    checkpoint,    \* LangGraph's thread of this run
    exec,          \* local state of each graph execution
    call,          \* an API call between its read and its write, and the calls so far
    frozen,        \* rollout control state
    investigated   \* history: candidates sent to the risk providers

vars == <<run, batch, disposition, checkpoint, exec, call, frozen, investigated>>

Executors == Tasks \cup Workers
Batches   == 1..MaxBatches
NoBatch   == 0

Nodes == {"load_run", "parse_requirement", "lock_policy", "local_discovery", "external_discovery",
          "identity_resolution", "identity_review", "investigate_parallel", "validate_evidence",
          "score_candidates", "ready_for_review"}

Dispatch == {"absent", "not_required", "pending", "processing", "consumed", "cancelled", "failed"}
Actions  == {"none", "confirm", "defer", "exclude"}
RunRow   == [status : RunStatuses \cup {"ABSENT"}, version : Nat]
BatchRow == [state : Dispatch, version : Nat, attempts : 0..MaxAttempts, token : Nat,
             lease : {"none", "valid", "expired"}, error : {"none", "stale", "limit", "cancelled"},
             decisions : [Candidates -> Actions]]
\* What the graph state carries over a checkpoint: next node, eligible candidates,
\* and whether any were put aside.
ThreadRow == [next : Nodes \cup {"end"}, eligible : SUBSET Candidates, aside : BOOLEAN]
\* step: where in the node; part: which of its writes; seen: the run as it was
\* read; resume: the payload of Command(resume=...).
ExecRow == [step : {"idle", "claimed", "load", "enter", "read", "called", "written", "consume"},
            node : Nodes \cup {"end"}, part : {"first", "answered", "ready", "review"},
            seen : RunRow, resume : {"none", "requirement", "identity", "batch"},
            batch : 0..MaxBatches, token : Nat, eligible : SUBSET Candidates, aside : BOOLEAN]

Idle == [step |-> "idle", node |-> "end", part |-> "first", seen |-> [status |-> "ABSENT", version |-> 0],
         resume |-> "none", batch |-> NoBatch, token |-> 0, eligible |-> {}, aside |-> FALSE]

Undecided == [c \in Candidates |-> "none"]

TypeOK ==
    /\ run \in RunRow
    /\ batch \in [Batches -> BatchRow]
    /\ disposition \in [Candidates -> Actions]
    /\ checkpoint \in ThreadRow
    /\ exec \in [Executors -> ExecRow]
    /\ call \in [op : {"none", "clarify", "cancel"}, seen : RunRow, made : 0..MaxCalls]
    /\ frozen \in BOOLEAN
    /\ investigated \subseteq Candidates

Init ==
    /\ run = [status |-> "ABSENT", version |-> 0]
    /\ batch = [b \in Batches |-> [state |-> "absent", version |-> 0, attempts |-> 0, token |-> 0,
                                   lease |-> "none", error |-> "none", decisions |-> Undecided]]
    /\ disposition = Undecided
    /\ checkpoint = [next |-> "load_run", eligible |-> {}, aside |-> FALSE]
    /\ exec = [x \in Executors |-> Idle]
    /\ call = [op |-> "none", seen |-> Idle.seen, made |-> 0]
    /\ frozen = FALSE
    /\ investigated = {}

At(x, node, step) == exec[x].node = node /\ exec[x].step = step
Goto(x, step)     == exec' = [exec EXCEPT ![x].step = step]
Drop(x)           == exec' = [exec EXCEPT ![x] = Idle]
Others            == UNCHANGED <<batch, disposition, call, frozen>>

\* The graph stopped without an exception: a worker goes on to
\* mark_candidate_review_batch_consumed, a task just ends.
Finished(x) ==
    IF x \in Workers THEN [Idle EXCEPT !.step = "consume", !.batch = exec[x].batch, !.token = exec[x].token]
                     ELSE Idle

\* exec[x].resume payload as it is seen by the node that interrupted.
Resumed(x) == exec[x].resume

-----------------------------------------------------------------------------
(* Writing the run.                                                        *)

Advance(status, version) == run' = [status |-> status, version |-> version + 1]

\* record_orchestration_state reads the run first, without a lock ...
ReadRun(x) ==
    /\ exec[x].step = "enter"
    /\ \/ exec[x].node \in {"load_run", "lock_policy", "ready_for_review", "parse_requirement"}
       \/ exec[x].node \in {"local_discovery", "external_discovery"} /\ exec[x].part = "first"
    /\ exec' = [exec EXCEPT ![x].step = "read", ![x].seen = run]
    /\ UNCHANGED <<run, checkpoint, investigated>> /\ Others

\* ... and checks the transition it read and writes under the version it read.
\* A refused write raises, which Fails stands for.
RecordState(x, target) ==
    /\ exec[x].step = "read"
    /\ MayBecome(exec[x].seen.status, target)
    /\ run.version = exec[x].seen.version
    /\ Advance(target, run.version)

\* Mutant: the snapshot does not ask whether the transition is allowed.
SnapshotUnchecked(x, target) ==
    /\ Advance(target, run.version)

\* persist_orchestration_snapshot locks the run instead.
Snapshot(x, target) ==
    /\ MayBecome(run.status, target)
    /\ Advance(target, run.version)

\* The node returns with this update of the graph state.  Only the node a thread
\* is resumed at is given the payload.
Returns(x, next, eligible, aside) ==
    exec' = [exec EXCEPT ![x] = [@ EXCEPT !.step = "written", !.node = next, !.part = "first",
                                          !.resume = "none", !.seen = Idle.seen,
                                          !.eligible = eligible, !.aside = aside]]
Proceeds(x, next) == Returns(x, next, exec[x].eligible, exec[x].aside)
Again(x, part)    == exec' = [exec EXCEPT ![x].step = "enter", ![x].part = part, ![x].seen = Idle.seen]

-----------------------------------------------------------------------------
(* The nodes.                                                              *)

LoadRun(x) ==
    /\ At(x, "load_run", "read")
    /\ RecordState(x, "CREATED")
    /\ Proceeds(x, "parse_requirement")
    /\ UNCHANGED <<checkpoint, investigated>> /\ Others

\* The requirement is complete: persist_parsed_requirement, which writes the
\* status it read back, then the event.
RequirementReady(x) ==
    /\ At(x, "parse_requirement", "read") /\ exec[x].part \in {"first", "answered"}
    /\ \/ UNCHANGED run                             \* nothing new to persist
       \/ RecordState(x, exec[x].seen.status)
    /\ Again(x, "ready")
    /\ UNCHANGED <<checkpoint, investigated>> /\ Others

ParseRequirement(x) ==
    /\ At(x, "parse_requirement", "read") /\ exec[x].part = "ready"
    /\ RecordState(x, "CREATED")
    /\ Proceeds(x, "lock_policy")
    /\ UNCHANGED <<checkpoint, investigated>> /\ Others

\* Something is missing: ask, and interrupt.  A resumed node starts over, asks
\* again and only then is given the answer.
AskClarification(x) ==
    /\ At(x, "parse_requirement", "read") /\ exec[x].part = "first"
    /\ RecordState(x, "CLARIFYING")
    /\ IF Resumed(x) = "none"
       THEN exec' = [exec EXCEPT ![x] = Finished(x)]
       ELSE Again(x, "answered")
    /\ UNCHANGED <<checkpoint, investigated>> /\ Others

\* The answer is not enough: the graph ends.
ClarificationInsufficient(x) ==
    /\ At(x, "parse_requirement", "enter") /\ exec[x].part = "answered"
    /\ Proceeds(x, "end")
    /\ UNCHANGED <<run, checkpoint, investigated>> /\ Others

LockPolicy(x) ==
    /\ At(x, "lock_policy", "read")
    /\ RecordState(x, "POLICY_LOCKED")
    /\ Proceeds(x, "local_discovery")
    /\ UNCHANGED <<checkpoint, investigated>> /\ Others

\* The supplier library is unavailable: an event, and on with no candidates.
LocalLibraryFails(x) ==
    /\ At(x, "local_discovery", "read")
    /\ RecordState(x, "LOCAL_SEARCHING")
    /\ Again(x, "ready")
    /\ UNCHANGED <<checkpoint, investigated>> /\ Others

LocalDiscovery(x) ==
    /\ At(x, "local_discovery", "enter")
    /\ Snapshot(x, "LOCAL_SEARCHING")
    /\ \E next \in {"external_discovery", "identity_resolution"} : Proceeds(x, next)
    /\ UNCHANGED <<checkpoint, investigated>> /\ Others

ExternalDiscoveryFails(x) ==
    /\ At(x, "external_discovery", "read")
    /\ RecordState(x, "LOCAL_SEARCHING")
    /\ Proceeds(x, "identity_resolution")
    /\ UNCHANGED <<checkpoint, investigated>> /\ Others

ExternalDiscovery(x) ==
    /\ At(x, "external_discovery", "enter")
    /\ Snapshot(x, "EXTERNAL_REVIEW")
    /\ Proceeds(x, "identity_resolution")
    /\ UNCHANGED <<checkpoint, investigated>> /\ Others

\* Two snapshots when somebody has to review, one otherwise.
IdentityResolution(x) ==
    /\ At(x, "identity_resolution", "enter") /\ exec[x].part = "first"
    /\ Snapshot(x, "IDENTITY_RESOLVING")
    /\ IF Exact = Candidates THEN Returns(x, "investigate_parallel", Candidates, FALSE)
                             ELSE Again(x, "review")
    /\ UNCHANGED <<checkpoint, investigated>> /\ Others

AskReview(x) ==
    /\ At(x, "identity_resolution", "enter") /\ exec[x].part = "review"
    /\ Snapshot(x, "IDENTITY_REVIEW")
    /\ Proceeds(x, "identity_review")
    /\ UNCHANGED <<checkpoint, investigated>> /\ Others

InterruptForReview(x) ==
    /\ At(x, "identity_review", "enter") /\ Resumed(x) = "none"
    /\ exec' = [exec EXCEPT ![x] = Finished(x)]
    /\ UNCHANGED <<run, checkpoint, investigated>> /\ Others

\* apply_candidate_decisions: with this action a candidate is eligible.
LetThrough(action, c) == action = "confirm" \/ (action = "none" /\ c \in Exact)
Confirmed(c) == LetThrough(disposition[c], c)

\* get_candidate_review_groups_for_batch rebuilds the groups from the dispositions
\* as they are now, over which the decisions stored with the batch are applied again.
Decided(b, c) == IF batch[b].decisions[c] # "none" THEN batch[b].decisions[c] ELSE disposition[c]

ReadReviewGroups(x) ==
    /\ At(x, "identity_review", "enter") /\ Resumed(x) = "batch"
    /\ batch[exec[x].batch].state = "processing"
    /\ LET eligible == {c \in Candidates : LetThrough(Decided(exec[x].batch, c), c)}
       IN exec' = [exec EXCEPT ![x] = [@ EXCEPT !.step = "called", !.eligible = eligible,
                                                !.aside = eligible # Candidates]]
    /\ UNCHANGED <<run, checkpoint, investigated>> /\ Others

ResumeReview(x) ==
    /\ At(x, "identity_review", "called")
    /\ Snapshot(x, "IDENTITY_RESOLVING")
    /\ Proceeds(x, IF exec[x].eligible # {} THEN "investigate_parallel" ELSE "end")
    /\ UNCHANGED <<checkpoint, investigated>> /\ Others

\* Resolutions of the older endpoint: all resolved, or back to the reviewer
\* with the graph at its end.
ResolveIdentities(x) ==
    /\ At(x, "identity_review", "enter") /\ Resumed(x) \in {"identity", "requirement"}
    /\ \/ Snapshot(x, "IDENTITY_RESOLVING") /\ Returns(x, "investigate_parallel", Candidates, FALSE)
       \/ Proceeds(x, "end") /\ UNCHANGED run
    /\ UNCHANGED <<checkpoint, investigated>> /\ Others

Investigate(x) ==
    /\ At(x, "investigate_parallel", "enter")
    /\ investigated' = investigated \cup exec[x].eligible
    /\ Goto(x, "called")
    /\ UNCHANGED <<run, checkpoint>> /\ Others

InvestigateParallel(x) ==
    /\ At(x, "investigate_parallel", "called")
    /\ Snapshot(x, "INVESTIGATING")
    /\ Proceeds(x, "validate_evidence")
    /\ UNCHANGED <<checkpoint, investigated>> /\ Others

ValidateEvidence(x) ==
    /\ At(x, "validate_evidence", "enter")
    /\ \E target \in {"EVIDENCE_REVIEW", "INVESTIGATING"} : Snapshot(x, target)
    /\ Proceeds(x, "score_candidates")
    /\ UNCHANGED <<checkpoint, investigated>> /\ Others

ScoreCandidates(x) ==
    /\ At(x, "score_candidates", "enter")
    /\ Snapshot(x, "SCORING")
    /\ Proceeds(x, "ready_for_review")
    /\ UNCHANGED <<checkpoint, investigated>> /\ Others

ReadyForReview(x) ==
    /\ At(x, "ready_for_review", "read")
    /\ \E target \in {"NEEDS_REVIEW", "PARTIAL"} \cup IF exec[x].aside THEN {} ELSE {"READY_FOR_REVIEW"} :
          RecordState(x, target)
    /\ Proceeds(x, "end")
    /\ UNCHANGED <<checkpoint, investigated>> /\ Others

Node(x) ==
    \/ LoadRun(x) \/ RequirementReady(x) \/ ParseRequirement(x) \/ AskClarification(x)
    \/ ClarificationInsufficient(x) \/ LockPolicy(x) \/ LocalLibraryFails(x) \/ LocalDiscovery(x)
    \/ ExternalDiscoveryFails(x) \/ ExternalDiscovery(x) \/ IdentityResolution(x) \/ AskReview(x)
    \/ InterruptForReview(x) \/ ReadReviewGroups(x) \/ ResumeReview(x) \/ ResolveIdentities(x)
    \/ Investigate(x) \/ InvestigateParallel(x) \/ ValidateEvidence(x) \/ ScoreCandidates(x)
    \/ ReadyForReview(x)

-----------------------------------------------------------------------------
(* Executions.                                                             *)

\* _start and _resume: require_v2_execution, then the thread's checkpoint.
LoadCheckpoint(x) ==
    /\ exec[x].step = "load" /\ ~frozen
    /\ exec' = [exec EXCEPT ![x] =
          IF checkpoint.next = "end" THEN Finished(x)
          ELSE [@ EXCEPT !.step = "enter", !.node = checkpoint.next,
                         !.eligible = checkpoint.eligible, !.aside = checkpoint.aside]]
    /\ UNCHANGED <<run, checkpoint, investigated>> /\ Others

\* LangGraph saves the checkpoint; _run_graph stops at a frozen run.
SaveCheckpoint(x) ==
    /\ exec[x].step = "written"
    /\ checkpoint' = [next |-> exec[x].node, eligible |-> exec[x].eligible, aside |-> exec[x].aside]
    /\ exec' = [exec EXCEPT ![x] =
          IF run.status = "ROLLBACK_FROZEN" THEN Idle
          ELSE IF exec[x].node = "end" THEN Finished(x) ELSE [@ EXCEPT !.step = "enter"]]
    /\ UNCHANGED <<run, investigated>> /\ Others

\* An exception or the end of the process.  Nobody restarts a task; a worker
\* keeps its lease until it expires (retry_pending).  A worker whose heartbeat
\* failed is cancelled: the same.
Fails(x) ==
    /\ exec[x].step # "idle"
    /\ Drop(x)
    /\ UNCHANGED <<run, checkpoint, investigated>> /\ Others

Execute(x) == ReadRun(x) \/ Node(x) \/ LoadCheckpoint(x) \/ SaveCheckpoint(x)

-----------------------------------------------------------------------------
(* Workers and the leases of the batches.                                  *)

\* Mutant: only batches nobody has taken yet.
DueUntaken(b) == batch[b].state = "pending"

Due(b) == batch[b].state = "pending" \/ (batch[b].state = "processing" /\ batch[b].lease # "valid")
Closed(row, state, error) == [row EXCEPT !.state = state, !.lease = "none", !.error = error]

GiveUp(b) ==
    /\ batch' = [batch EXCEPT ![b] = Closed(@, "failed", "limit")]
    /\ Advance("NEEDS_REVIEW", run.version)

\* claim_candidate_review_batch of the oldest batch that is due: closed when the
\* run was stopped or has moved on, given up after its attempts, else leased.
ClaimDue(w, b) ==
    IF run.status \in {"CANCELLED", "ROLLBACK_FROZEN"}
    THEN /\ batch' = [batch EXCEPT ![b] = Closed(@, "cancelled", @.error)]
         /\ UNCHANGED <<run, exec>>
    ELSE IF run.status # "IDENTITY_RESOLVING" \/ run.version # batch[b].version
    THEN /\ batch' = [batch EXCEPT ![b] = Closed(@, "failed", "stale")]
         /\ UNCHANGED <<run, exec>>
    ELSE IF batch[b].attempts >= MaxAttempts
    THEN GiveUp(b) /\ UNCHANGED exec
    ELSE /\ batch' = [batch EXCEPT ![b] = [batch[b] EXCEPT !.state = "processing", !.lease = "valid",
                              !.error = "none", !.attempts = batch[b].attempts + 1, !.token = batch[b].token + 1]]
         /\ exec' = [exec EXCEPT ![w] = [Idle EXCEPT !.step = "claimed", !.batch = b]]
         /\ UNCHANGED run

ClaimBatch(w) ==
    /\ exec[w].step = "idle"
    /\ \E b \in Batches :
          /\ Due(b) /\ \A a \in 1..(b - 1) : ~Due(a)
          /\ ClaimDue(w, b)
    /\ UNCHANGED <<disposition, checkpoint, call, frozen, investigated>>

\* resume_candidate_review_batch reads the batch again, its token included.
ReadBatch(w) ==
    /\ exec[w].step = "claimed"
    /\ LET b == batch[exec[w].batch] IN
          exec' = [exec EXCEPT ![w] =
              IF b.state = "processing" /\ b.version = run.version /\ run.status = "IDENTITY_RESOLVING"
              THEN [@ EXCEPT !.step = "load", !.resume = "batch", !.token = b.token]
              ELSE Idle]
    /\ UNCHANGED <<run, checkpoint, investigated>> /\ Others

\* mark_candidate_review_batch_consumed: fenced by the token, not by the lease.
MarkConsumed(w) ==
    /\ exec[w].step = "consume"
    /\ LET b == exec[w].batch IN
          batch' = IF batch[b].state = "processing" /\ batch[b].token = exec[w].token
                   THEN [batch EXCEPT ![b] = Closed(@, "consumed", "none")] ELSE batch
    /\ Drop(w)
    /\ UNCHANGED <<run, disposition, checkpoint, call, frozen, investigated>>

\* No heartbeat came in time (_heartbeat_candidate_review_until_done).
LeaseExpires(b) ==
    /\ batch[b].lease = "valid"
    /\ batch' = [batch EXCEPT ![b].lease = "expired"]
    /\ UNCHANGED <<run, disposition, checkpoint, exec, call, frozen, investigated>>

-----------------------------------------------------------------------------
(* The API.  A call carries the version its sender has seen, here the      *)
(* current one: any other is refused without a change.                     *)

Callable == ~frozen /\ call.op = "none" /\ call.made < MaxCalls
Called   == call' = [call EXCEPT !.made = @ + 1]
Answered == call' = [call EXCEPT !.op = "none", !.seen = Idle.seen]

\* _schedule_graph: detached, and lost if the process ends first.
Schedule(t, resume) ==
    /\ exec[t].step = "idle"
    /\ exec' = [exec EXCEPT ![t] = [Idle EXCEPT !.step = "load", !.resume = resume]]

CreateRun(t) ==
    /\ run.status = "ABSENT" /\ ~frozen
    /\ run' = [status |-> "CREATED", version |-> 1]
    /\ Schedule(t, "none")
    /\ UNCHANGED <<checkpoint, investigated>> /\ Others

\* submit_clarification and cancel_run check a run they read without a lock.
CallReads(op) ==
    /\ Callable
    /\ MayBecome(run.status, IF op = "clarify" THEN "CREATED" ELSE "CANCELLED")
    /\ run.status # "ABSENT"
    /\ call' = [op |-> op, seen |-> run, made |-> call.made + 1]
    /\ UNCHANGED <<run, batch, disposition, checkpoint, exec, frozen, investigated>>

CallConflicts ==
    /\ call.op # "none" /\ run.version # call.seen.version
    /\ Answered
    /\ UNCHANGED <<run, batch, disposition, checkpoint, exec, frozen, investigated>>

SubmitClarification(t) ==
    /\ call.op = "clarify" /\ run.version = call.seen.version
    /\ Advance("CREATED", run.version)
    /\ Schedule(t, "requirement")
    /\ Answered
    /\ UNCHANGED <<batch, disposition, checkpoint, frozen, investigated>>

\* Mutant: the batches are forgotten.
CancelRunOnly ==
    /\ call.op = "cancel" /\ run.version = call.seen.version
    /\ Advance("CANCELLED", run.version)
    /\ Answered
    /\ UNCHANGED <<batch, disposition, checkpoint, exec, frozen, investigated>>

\* Mutant: the batches are not asked for their state.
CancelEveryBatch ==
    /\ call.op = "cancel" /\ run.version = call.seen.version
    /\ Advance("CANCELLED", run.version)
    /\ batch' = [b \in Batches |-> [Closed(batch[b], "cancelled", "cancelled") EXCEPT !.token = @ + 1]]
    /\ Answered
    /\ UNCHANGED <<disposition, checkpoint, exec, frozen, investigated>>

\* cancel_run fences the open batches in the same transaction.
CancelRun ==
    /\ call.op = "cancel" /\ run.version = call.seen.version
    /\ Advance("CANCELLED", run.version)
    /\ batch' = [b \in Batches |->
                    IF batch[b].state \in {"pending", "processing"}
                    THEN [Closed(batch[b], "cancelled", "cancelled") EXCEPT !.token = @ + 1]
                    ELSE batch[b]]
    /\ Answered
    /\ UNCHANGED <<disposition, checkpoint, exec, frozen, investigated>>

\* submit_identity_resolution, under the run's lock.
SubmitIdentityResolution(t) ==
    /\ LegacyReview /\ Callable
    /\ run.status \in {"IDENTITY_RESOLVING", "IDENTITY_REVIEW"}
    /\ Advance("IDENTITY_REVIEW", run.version)
    /\ Schedule(t, "identity")
    /\ Called
    /\ UNCHANGED <<batch, disposition, checkpoint, frozen, investigated>>

Decisions == UNION {[D -> {"confirm", "defer", "exclude"}] : D \in SUBSET Candidates}

\* apply_candidate_decisions, as far as it is stored: a candidate nobody decided
\* on keeps its disposition, and an unidentified one is deferred.
Applied(d) ==
    [c \in Candidates |-> IF c \in DOMAIN d THEN d[c]
                          ELSE IF disposition[c] = "none" /\ c \notin Exact THEN "defer"
                          ELSE disposition[c]]

NewBatch(state, decisions) ==
    \E b \in Batches :
        /\ batch[b].state = "absent" /\ \A a \in 1..(b - 1) : batch[a].state # "absent"
        /\ batch' = [batch EXCEPT ![b] = [@ EXCEPT !.state = state, !.version = run.version + 1,
                                                   !.decisions = decisions]]

\* submit_candidate_decisions before the run has ended; only an offered company
\* can be confirmed, and an exact candidate has no offers.
SubmitDecisions ==
    /\ Callable
    /\ run.status \in {"IDENTITY_RESOLVING", "IDENTITY_REVIEW"}
    /\ \E d \in Decisions :
          /\ \A c \in DOMAIN d \cap Exact : d[c] # "confirm"
          /\ disposition' = Applied(d)
          /\ LET eligible == \E c \in Candidates : LetThrough(Applied(d)[c], c)
             IN /\ Advance(IF eligible THEN "IDENTITY_RESOLVING" ELSE "NEEDS_REVIEW", run.version)
                /\ NewBatch(IF eligible THEN "pending" ELSE "not_required", Applied(d))
    /\ Called
    /\ UNCHANGED <<checkpoint, exec, frozen, investigated>>

\* The same after PARTIAL or NEEDS_REVIEW: excluded candidates may be set aside
\* for a follow-up, nothing else.
ReclassifyDecisions ==
    /\ Callable
    /\ run.status \in {"PARTIAL", "NEEDS_REVIEW"}
    /\ \E D \in (SUBSET {c \in Candidates : disposition[c] = "exclude"}) \ {{}} :
          /\ disposition' = [c \in Candidates |-> IF c \in D THEN "defer" ELSE disposition[c]]
          /\ NewBatch("not_required", [c \in Candidates |-> IF c \in D THEN "defer" ELSE "none"])
    /\ Advance(run.status, run.version)
    /\ Called
    /\ UNCHANGED <<checkpoint, exec, frozen, investigated>>

-----------------------------------------------------------------------------
(* Administrators.                                                         *)

SetRollout ==
    /\ Rollback /\ call.made < MaxCalls
    /\ frozen' = ~frozen
    /\ Called
    /\ UNCHANGED <<run, batch, disposition, checkpoint, exec, investigated>>

\* freeze_in_flight_v2_runs leaves the version as it is.
FreezeRun ==
    /\ frozen /\ run.status \notin Ended \cup {"ABSENT"}
    /\ run' = [run EXCEPT !.status = "ROLLBACK_FROZEN"]
    /\ UNCHANGED <<batch, disposition, checkpoint, exec, call, frozen, investigated>>

Reviewer ==
    \/ SubmitDecisions \/ ReclassifyDecisions
    \/ \E t \in Tasks : SubmitClarification(t) \/ SubmitIdentityResolution(t)
    \/ \E op \in {"clarify", "cancel"} : CallReads(op)
    \/ CallConflicts \/ CancelRun

Next ==
    \/ \E x \in Executors : Execute(x) \/ Fails(x)
    \/ \E w \in Workers : ClaimBatch(w) \/ ReadBatch(w) \/ MarkConsumed(w)
    \/ \E b \in Batches : LeaseExpires(b)
    \/ \E t \in Tasks : CreateRun(t)
    \/ Reviewer
    \/ SetRollout \/ FreezeRun

Spec == Init /\ [][Next]_vars

-----------------------------------------------------------------------------
(* Safety.                                                                 *)

\* Cancelling and claiming compete for the batch: whoever wins, a cancelled run
\* has no batch left that a worker would take or still hold.
CancelledHasNoOpenBatch ==
    run.status = "CANCELLED" => \A b \in Batches : batch[b].state \notin {"pending", "processing"}

-----------------------------------------------------------------------------
(* What a step may never do.                                               *)

\* An ended run keeps its status, however many executions and callers are late.
EndedStands == [][run.status \in Ended => run'.status = run.status]_vars

\* The outcome of a batch is final: a late worker does not turn a cancelled or
\* failed batch into a consumed one.
BatchOutcomeStands ==
    [][\A b \in Batches :
          batch[b].state \in {"consumed", "cancelled", "failed", "not_required"} =>
              batch'[b].state = batch[b].state]_vars

\* Only candidates the reviewers let through are sent to the risk providers, by
\* the decisions that hold when they are sent (identity_review and
\* investigate_parallel).
OnlyConfirmedInvestigated == [][\A c \in investigated' \ investigated : Confirmed(c)]_vars

-----------------------------------------------------------------------------
(* Liveness.                                                               *)

\* Workers poll for ever; leases nobody renews run out; a node or call returns
\* or fails.
Fairness ==
    /\ \A x \in Executors : WF_vars(Execute(x) \/ Fails(x))
    /\ \A w \in Workers : WF_vars(ClaimBatch(w) \/ ReadBatch(w) \/ MarkConsumed(w))
    /\ \A b \in Batches : WF_vars(LeaseExpires(b) /\ \A w \in Workers : exec[w].batch # b)

FairSpec == Spec /\ Fairness

\* Whatever crashes, a submitted batch gets an outcome.
BatchesSettle ==
    \A b \in Batches : batch[b].state = "pending" ~> batch[b].state \in {"consumed", "cancelled", "failed"}
=============================================================================
