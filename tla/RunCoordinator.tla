--------------------------- MODULE RunCoordinator ---------------------------
(***************************************************************************)
(* The PostgreSQL state of managed chat Runs and the short transactions    *)
(* that change it: domains/agent_run/coordinator.py, execution_jobs.py,    *)
(* chat_interrupt_repo.py and the turn/snapshot writers of state_store.py. *)
(* Every transaction locks the agent_runs row first, so each one is a      *)
(* single atomic step here.  Clients (workers, API streams) are added by   *)
(* AgentExecution.                                                         *)
(*                                                                         *)
(* Time is abstract: a lease is "valid" until an Expire step makes it      *)
(* "expired"; a heartbeat keeps a valid lease valid and so changes nothing.*)
(* attempt_id is a fresh UUID drawn together with every new fencing token  *)
(* handed to an owner, so the pair is represented by the token alone.      *)
(***************************************************************************)
EXTENDS Naturals

CONSTANTS
    Runs,            \* run identifiers that may be created
    Sessions,        \* chat sessions
    SessionOf,       \* agent_runs.session_id of each run
    RuntimeOf,       \* execution_input.runtime: "harness" or "agent-supervisor"
    Workers,         \* agent worker processes
    Streams,         \* API request handlers that execute or resume a run
    Nobody,          \* NULL owner of a lease or a claim
    NoRun,           \* no interrupt row
    Outcomes,        \* public statuses a run may finish with
    MaxRecoveries    \* agent_execution_jobs.max_recoveries

FinishStatuses == {"COMPLETED", "PARTIAL", "NEEDS_REVIEW", "FAILED"}

ASSUME CoordinatorAssumption ==
    /\ SessionOf \in [Runs -> Sessions]
    /\ RuntimeOf \in [Runs -> {"harness", "agent-supervisor"}]
    /\ Outcomes \subseteq FinishStatuses
    /\ MaxRecoveries \in Nat
    /\ Nobody \notin Workers \cup Streams
    /\ NoRun \notin Runs
    /\ Workers \cap Streams = {}

VARIABLES
    run,        \* agent_runs.status, "ABSENT" before the row exists
    turn,       \* agent_turns.status of the run's turn
    exec,       \* agent_run_executions row
    job,        \* agent_execution_jobs row ("NONE" when the run has no job)
    ahead,      \* pairs of open jobs in available_at order
    interrupt,  \* agent_chat_interrupts row of each session
    log,        \* agent_run_events: kind of the last event, number of final ones;
                \* number of agent.chat.completed outbox events (displays)
    saver       \* checkpoints the LangGraph saver holds for the run's thread

dbVars == <<run, turn, exec, job, ahead, interrupt, log, saver>>

PublicTerminal == FinishStatuses \cup {"ACTION_FAILED", "CANCELLED", "ROLLBACK_FROZEN"}
TurnTerminal   == {"completed", "partial", "failed", "cancelled"}
JobOpen        == {"QUEUED", "LEASED", "PAUSED"}
JobClosed      == {"SUCCEEDED", "FAILED", "CANCELLED"}

Unfinished    == {"RUNNING", "ACTION_PENDING", "ACTION_EXECUTING", "READY_FOR_REVIEW"}
RunStatuses   == PublicTerminal \cup Unfinished \cup {"ABSENT"}
TurnStatuses  == TurnTerminal \cup {"none", "running", "waiting_approval"}
ExecStates    == {"ABSENT", "QUEUED", "RUNNING", "PAUSED", "SUCCEEDED", "FAILED", "CANCELLED"}
Leases        == {"none", "valid", "expired"}
LastEvents    == {"none", "progress", "parked", "final"}

ExecRow == [state : ExecStates, token : Nat, lease : Leases, proof : Nat]
JobRow  == [status : JobOpen \cup JobClosed \cup {"NONE"}, lease : Leases,
            owner : Workers \cup {Nobody}, recoveries : Nat]
InterruptRow == [run : Runs \cup {NoRun}, by : Streams \cup {Nobody}]
LogRow  == [last : LastEvents, finals : Nat, displays : Nat]

DbTypeOK ==
    /\ run \in [Runs -> RunStatuses]
    /\ turn \in [Runs -> TurnStatuses]
    /\ exec \in [Runs -> ExecRow]
    /\ job \in [Runs -> JobRow]
    /\ ahead \subseteq Runs \X Runs
    /\ interrupt \in [Sessions -> InterruptRow]
    /\ log \in [Runs -> LogRow]
    /\ saver \in [Runs -> Nat]

NoInterrupt == [run |-> NoRun, by |-> Nobody]

\* agent_run_executions.checkpoint = {}, and checkpoint_proof of what the saver
\* holds now; a thread without a checkpoint has a proof too.
NoProof    == 0
ProofOf(r) == saver[r] + 1

DbInit ==
    /\ run = [r \in Runs |-> "ABSENT"]
    /\ turn = [r \in Runs |-> "none"]
    /\ exec = [r \in Runs |-> [state |-> "ABSENT", token |-> 0, lease |-> "none", proof |-> NoProof]]
    /\ job = [r \in Runs |-> [status |-> "NONE", lease |-> "none", owner |-> Nobody, recoveries |-> 0]]
    /\ ahead = {}
    /\ interrupt = [s \in Sessions |-> NoInterrupt]
    /\ log = [r \in Runs |-> [last |-> "none", finals |-> 0, displays |-> 0]]
    /\ saver = [r \in Runs |-> 0]

Terminal(r) == run[r] \in PublicTerminal
Live(r)     == run[r] \in Unfinished

-----------------------------------------------------------------------------
(* Pieces shared by several transactions.                                  *)

\* The tail of append_event_with_cursor calls of one transaction ends in e, which
\* is not final.
LogAppend(r, e) ==
    log' = [log EXCEPT ![r].last = e]

\* The tail ends in done or error; the turn may be announced to the outbox for
\* the conversation display.
LogFinal(r, displayed) ==
    log' = [log EXCEPT ![r] = [last |-> "final", finals |-> @.finals + 1,
                               displays |-> @.displays + (IF displayed THEN 1 ELSE 0)]]

HasOpenJob(r) == job[r].status \in JobOpen

\* finish_job_with_cursor: only an open job changes; its lease is dropped.
FinishJob(r, s) ==
    IF HasOpenJob(r)
    THEN /\ job' = [job EXCEPT ![r] = [status |-> s, lease |-> "none", owner |-> Nobody,
                                       recoveries |-> @.recoveries]]
         /\ ahead' = {e \in ahead : e[1] # r /\ e[2] # r}
    ELSE UNCHANGED <<job, ahead>>

\* Every job that is queued or leased is ordered before a job available now.
AheadLast(r) ==
    {e \in ahead : e[1] # r /\ e[2] # r}
      \cup {<<q, r>> : q \in {x \in Runs : x # r /\ job[x].status \in {"QUEUED", "LEASED"}}}

EnqueueJob(r) ==
    /\ job' = [job EXCEPT ![r] = [status |-> "QUEUED", lease |-> "none", owner |-> Nobody,
                                  recoveries |-> 0]]
    /\ ahead' = AheadLast(r)

\* requeue_job_with_cursor: a paused job becomes due now, at the back.
RequeueJob(r) ==
    IF job[r].status = "PAUSED"
    THEN /\ job' = [job EXCEPT ![r] = [status |-> "QUEUED", lease |-> "none", owner |-> Nobody,
                                       recoveries |-> @.recoveries]]
         /\ ahead' = AheadLast(r)
    ELSE UNCHANGED <<job, ahead>>

\* Mutant: only an attempt from the queue or a pause is numbered, a takeover not.
NewAttemptUnfenced(r, lease) ==
    exec' = [exec EXCEPT ![r] = [state |-> "RUNNING",
                                 token |-> IF @.state = "RUNNING" THEN @.token ELSE @.token + 1,
                                 lease |-> lease, proof |-> @.proof]]

\* Hand the execution to a new attempt with the next fencing token.
NewAttempt(r, lease) ==
    exec' = [exec EXCEPT ![r] = [state |-> "RUNNING", token |-> @.token + 1,
                                 lease |-> lease, proof |-> @.proof]]

\* INSERT ... ON CONFLICT (session_id) DO UPDATE: the row names r, unclaimed.
UpsertInterrupt(r) ==
    interrupt' = [interrupt EXCEPT ![SessionOf[r]] = [run |-> r, by |-> Nobody]]

\* Mutant: the fencing token is not compared.
RequireActiveAnyToken(r, token) ==
    ~Terminal(r) /\ exec[r].state = "RUNNING" /\ exec[r].lease = "valid"

\* require_active: the caller's permit is the current one and still leased.
RequireActive(r, token) ==
    /\ ~Terminal(r)
    /\ exec[r].state = "RUNNING"
    /\ exec[r].token = token
    /\ exec[r].lease = "valid"

-----------------------------------------------------------------------------
(* Transactions of the API: submit, resume, cancel, reconcile, freeze.     *)

\* Mutant: a run that waits for approval does not count as unfinished.
StartHarnessTurnBesideApproval(r, withJob) ==
    /\ run[r] = "ABSENT"
    /\ \A q \in Runs : SessionOf[q] = SessionOf[r] => run[q] \notin {"RUNNING", "ACTION_EXECUTING"}
    /\ run' = [run EXCEPT ![r] = "RUNNING"]
    /\ turn' = [turn EXCEPT ![r] = "running"]
    /\ exec' = [exec EXCEPT ![r] = [state |-> "QUEUED", token |-> 0, lease |-> "valid",
                                    proof |-> NoProof]]
    /\ IF withJob THEN EnqueueJob(r) ELSE UNCHANGED <<job, ahead>>
    /\ UNCHANGED <<interrupt, log, saver>>

\* start_harness_turn under the session row lock.
StartHarnessTurn(r, withJob) ==
    /\ run[r] = "ABSENT"
    /\ \A q \in Runs : SessionOf[q] = SessionOf[r] => ~Live(q)
    /\ run' = [run EXCEPT ![r] = "RUNNING"]
    /\ turn' = [turn EXCEPT ![r] = "running"]
    /\ exec' = [exec EXCEPT ![r] = [state |-> "QUEUED", token |-> 0, lease |-> "valid",
                                    proof |-> NoProof]]
    /\ IF withJob THEN EnqueueJob(r) ELSE UNCHANGED <<job, ahead>>
    /\ UNCHANGED <<interrupt, log, saver>>

\* RunCoordinator.claim: the API stream that submitted the run takes it.
Claim(r) ==
    /\ Live(r)
    /\ exec[r].state = "QUEUED"
    /\ NewAttempt(r, "valid")
    /\ UNCHANGED <<run, turn, job, ahead, interrupt, log, saver>>

\* _bind_recovered_checkpoint: an interrupted pause gets the saver's proof.
BindRecoveredCheckpoint(r, proof) ==
    /\ exec[r].state = "PAUSED"
    /\ exec[r].proof = NoProof
    /\ exec' = [exec EXCEPT ![r].proof = proof]
    /\ UNCHANGED <<run, turn, job, ahead, interrupt, log, saver>>

\* resume: the row still holds the proof that the caller compared earlier.
Resumable(r, proof) == Live(r) /\ exec[r].state = "PAUSED" /\ exec[r].proof = proof
Resume(r, proof) ==
    /\ Resumable(r, proof)
    /\ NewAttempt(r, "valid")
    /\ RequeueJob(r)
    /\ UNCHANGED <<run, turn, interrupt, log, saver>>

\* resume_for_worker: the new attempt is born expired for a worker to take.
ResumeForWorker(r) ==
    /\ Live(r)
    /\ exec[r].state = "PAUSED"
    /\ exec[r].proof # NoProof
    /\ NewAttempt(r, "expired")
    /\ RequeueJob(r)
    /\ UNCHANGED <<run, turn, interrupt, log, saver>>

\* Mutant: the turn is left open.
CancelKeepingTurn(r) ==
    /\ Live(r)
    /\ run' = [run EXCEPT ![r] = "CANCELLED"]
    /\ exec' = [exec EXCEPT ![r] = [state |-> "CANCELLED", token |-> @.token, lease |-> "none",
                                    proof |-> @.proof]]
    /\ FinishJob(r, "CANCELLED")
    /\ interrupt' = [s \in Sessions |-> IF interrupt[s].run = r THEN NoInterrupt ELSE interrupt[s]]
    /\ LogFinal(r, TRUE)
    /\ UNCHANGED <<turn, saver>>

\* cancel: a terminal run is returned as it is.
Cancel(r) ==
    /\ Live(r)
    /\ run' = [run EXCEPT ![r] = "CANCELLED"]
    /\ turn' = [turn EXCEPT ![r] = IF @ \in {"running", "waiting_approval"} THEN "cancelled" ELSE @]
    /\ exec' = [exec EXCEPT ![r] = [state |-> "CANCELLED", token |-> @.token, lease |-> "none",
                                    proof |-> @.proof]]
    /\ FinishJob(r, "CANCELLED")
    /\ interrupt' = [s \in Sessions |-> IF interrupt[s].run = r THEN NoInterrupt ELSE interrupt[s]]
    /\ LogFinal(r, TRUE)
    /\ UNCHANGED saver

\* Mutants: the session's interrupt row is not written; runs that nobody ever
\* claimed are skipped.
ReconcileWithoutInterrupt(r, excludeHarness) ==
    /\ Live(r)
    /\ exec[r].state \in {"RUNNING", "QUEUED"}
    /\ exec[r].lease = "expired"
    /\ ~(excludeHarness /\ RuntimeOf[r] = "harness")
    /\ exec' = [exec EXCEPT ![r] = [state |-> "PAUSED", token |-> @.token + 1, lease |-> "none",
                                    proof |-> NoProof]]
    /\ FinishJob(r, "PAUSED")
    /\ LogAppend(r, "progress")
    /\ UNCHANGED <<run, turn, interrupt, saver>>
ReconcileRunningOnly(r, excludeHarness) ==
    exec[r].state = "RUNNING" /\ ReconcileWithoutInterrupt(r, excludeHarness)

\* reconcile_expired for one row of its batch; worker deployments exclude
\* run_type agent_harness.
ReconcileExpired(r, excludeHarness) ==
    /\ Live(r)
    /\ exec[r].state \in {"RUNNING", "QUEUED"}
    /\ exec[r].lease = "expired"
    /\ ~(excludeHarness /\ RuntimeOf[r] = "harness")
    /\ exec' = [exec EXCEPT ![r] = [state |-> "PAUSED", token |-> @.token + 1, lease |-> "none",
                                    proof |-> NoProof]]
    /\ FinishJob(r, "PAUSED")
    /\ UpsertInterrupt(r)
    /\ LogAppend(r, "progress")
    /\ UNCHANGED <<run, turn, saver>>

\* freeze_in_flight_v2_runs: the Supervisor's runs are of run_type
\* sourcing_risk_v2.  Nothing but the run rows is written.
FreezeInFlightRuns ==
    /\ \E r \in Runs : RuntimeOf[r] = "agent-supervisor" /\ Live(r)
    /\ run' = [r \in Runs |-> IF RuntimeOf[r] = "agent-supervisor" /\ Live(r)
                              THEN "ROLLBACK_FROZEN" ELSE run[r]]
    /\ UNCHANGED <<turn, exec, job, ahead, interrupt, log, saver>>

-----------------------------------------------------------------------------
(* claim_job: the candidate is read without a lock, everything else happens *)
(* in one transaction under the run's lock.                                 *)

DueJob(r) ==
    \/ job[r].status = "QUEUED"
    \/ job[r].status = "LEASED" /\ job[r].lease = "expired"

\* ORDER BY available_at LIMIT 1: only the head of the due jobs is looked at.
Candidate(r) ==
    /\ DueJob(r)
    /\ \A q \in Runs : DueJob(q) => <<q, r>> \notin ahead

LeaseValid(r) == exec[r].lease = "valid"

ClaimJobOfClosedRun(r) ==
    /\ Terminal(r)
    /\ FinishJob(r, IF run[r] = "COMPLETED" THEN "SUCCEEDED" ELSE "FAILED")
    /\ UNCHANGED <<run, turn, exec, interrupt, log, saver>>

\* Somebody else holds a valid attempt, or the execution is not claimable.
ClaimJobHeld(r) ==
    /\ ~Terminal(r)
    /\ \/ exec[r].state = "RUNNING" /\ LeaseValid(r)
       \/ exec[r].state \notin {"QUEUED", "RUNNING"}
    /\ UNCHANGED dbVars

Claimable(r) ==
    /\ ~Terminal(r)
    /\ exec[r].state = "QUEUED" \/ (exec[r].state = "RUNNING" /\ ~LeaseValid(r))

\* The conditional UPDATE matches no row: another worker leased the job.
ClaimJobMissed(r) ==
    /\ Claimable(r)
    /\ ~DueJob(r)
    /\ UNCHANGED dbVars

LeaseJob(r, w, recoveries) ==
    job' = [job EXCEPT ![r] = [status |-> "LEASED", lease |-> "valid", owner |-> w,
                               recoveries |-> recoveries]]

ClaimJobFresh(r, w) ==
    /\ Claimable(r)
    /\ DueJob(r)
    /\ exec[r].state = "QUEUED"
    /\ LeaseJob(r, w, job[r].recoveries)
    /\ NewAttempt(r, "valid")
    /\ UNCHANGED <<run, turn, ahead, interrupt, log, saver>>

ClaimJobTakeover(r, w) ==
    /\ Claimable(r)
    /\ DueJob(r)
    /\ exec[r].state = "RUNNING"
    /\ job[r].recoveries < MaxRecoveries
    /\ LeaseJob(r, w, job[r].recoveries + 1)
    /\ NewAttempt(r, "valid")
    /\ UNCHANGED <<run, turn, ahead, interrupt, log, saver>>

\* _pause_recovery_limit: the run is closed for a human, nothing is retried.
PauseRecoveryLimit(r) ==
    /\ Claimable(r)
    /\ DueJob(r)
    /\ exec[r].state = "RUNNING"
    /\ job[r].recoveries >= MaxRecoveries
    /\ exec' = [exec EXCEPT ![r] = [state |-> "PAUSED", token |-> @.token + 1, lease |-> "none",
                                    proof |-> @.proof]]
    /\ run' = [run EXCEPT ![r] = "NEEDS_REVIEW"]
    /\ turn' = [turn EXCEPT ![r] = IF @ \in {"running", "waiting_approval"} THEN "failed" ELSE @]
    /\ LogFinal(r, FALSE)
    /\ FinishJob(r, "FAILED")
    /\ UNCHANGED <<interrupt, saver>>

-----------------------------------------------------------------------------
(* Transactions of a permit holder; each is refused without require_active. *)

\* append_harness_event
AppendHarnessEvent(r, token) ==
    /\ RequireActive(r, token)
    /\ LogAppend(r, "progress")
    /\ UNCHANGED <<run, turn, exec, job, ahead, interrupt, saver>>

\* Mutant: the snapshot is guarded by the token alone.
PersistHarnessSnapshotByToken(r, token) ==
    /\ exec[r].token = token
    /\ run' = [run EXCEPT ![r] = "RUNNING"]
    /\ turn' = [turn EXCEPT ![r] = "running"]
    /\ LogAppend(r, "progress")
    /\ UNCHANGED <<exec, job, ahead, interrupt, saver>>

\* persist_harness_snapshot: a permitted snapshot republishes RUNNING.
PersistHarnessSnapshot(r, token) ==
    /\ RequireActive(r, token)
    /\ run' = [run EXCEPT ![r] = "RUNNING"]
    /\ turn' = [turn EXCEPT ![r] = "running"]
    /\ LogAppend(r, "progress")
    /\ UNCHANGED <<exec, job, ahead, interrupt, saver>>

SnapshotStatuses == {"WAITING_HUMAN_APPROVAL", "DECISION_READY"}

\* persist_supervisor_snapshot: of the public statuses only the wait for an
\* approval is written under a permit; the others are left to finish.
PersistSupervisorSnapshot(r, token, status) ==
    /\ RequireActive(r, token)
    /\ run' = [run EXCEPT ![r] = IF status = "WAITING_HUMAN_APPROVAL" THEN "ACTION_PENDING" ELSE @]
    /\ LogAppend(r, "progress")
    /\ UNCHANGED <<turn, exec, job, ahead, interrupt, saver>>

\* decide_action_proposals: the user's decision moves the run on once.
DecideActionProposals(r, token, approved) ==
    /\ RequireActive(r, token)
    /\ run[r] = "ACTION_PENDING"
    /\ run' = [run EXCEPT ![r] = IF approved THEN "ACTION_EXECUTING" ELSE "READY_FOR_REVIEW"]
    /\ LogAppend(r, "progress")
    /\ UNCHANGED <<turn, exec, job, ahead, interrupt, saver>>

\* consume_recovery_checkpoint: a pause proof authorizes one worker attempt.
ConsumeRecoveryCheckpoint(r, token) ==
    /\ RequireActive(r, token)
    /\ exec[r].proof = ProofOf(r)
    /\ exec' = [exec EXCEPT ![r].proof = NoProof]
    /\ UNCHANGED <<run, turn, job, ahead, interrupt, log, saver>>

\* pause: the attempt is released and the resumable pause published at once.
Pause(r, token, reason) ==
    /\ RequireActive(r, token)
    /\ exec' = [exec EXCEPT ![r] = [state |-> "PAUSED", token |-> @.token, lease |-> "none",
                                    proof |-> ProofOf(r)]]
    /\ FinishJob(r, "PAUSED")
    /\ run' = [run EXCEPT ![r] = IF reason = "waiting_approval" THEN "ACTION_PENDING" ELSE "RUNNING"]
    /\ turn' = [turn EXCEPT ![r] = IF reason = "waiting_approval" THEN "waiting_approval" ELSE "running"]
    /\ UpsertInterrupt(r)
    /\ LogAppend(r, IF reason = "waiting_approval" THEN "parked" ELSE "progress")
    /\ UNCHANGED saver

TurnOutcome(o) == CASE o = "FAILED"    -> "failed"
                    [] o = "COMPLETED" -> "completed"
                    [] OTHER           -> "partial"

\* The error paths of the harness producer and of the worker finish without a
\* projection; every other caller passes one.
MayDisplay(r, outcome) ==
    IF RuntimeOf[r] = "harness" /\ outcome = "FAILED" THEN BOOLEAN ELSE {TRUE}

\* finish: answer, turn, terminal status and the public tail in one commit.
Finish(r, token, outcome) ==
    /\ RequireActive(r, token)
    /\ run' = [run EXCEPT ![r] = outcome]
    /\ turn' = [turn EXCEPT ![r] = TurnOutcome(outcome)]
    /\ exec' = [exec EXCEPT ![r] = [state |-> IF outcome = "FAILED" THEN "FAILED" ELSE "SUCCEEDED",
                                    token |-> @.token, lease |-> "none", proof |-> @.proof]]
    /\ FinishJob(r, IF outcome = "FAILED" THEN "FAILED" ELSE "SUCCEEDED")
    /\ \E displayed \in MayDisplay(r, outcome) : LogFinal(r, displayed)
    /\ UNCHANGED <<interrupt, saver>>

-----------------------------------------------------------------------------
(* agent_chat_interrupts: claim, acknowledge, release.                     *)

\* claim_chat_interrupt: pending, or claimed more than 300 s ago.  The age is
\* not modelled: a claimed row may be claimed again at any time.
ClaimChatInterrupt(s, p) ==
    /\ interrupt[s].run # NoRun
    /\ interrupt' = [interrupt EXCEPT ![s].by = p]
    /\ UNCHANGED <<run, turn, exec, job, ahead, log, saver>>

AckChatInterrupt(s, p) ==
    /\ interrupt' = IF interrupt[s].by = p
                    THEN [interrupt EXCEPT ![s] = NoInterrupt] ELSE interrupt
    /\ UNCHANGED <<run, turn, exec, job, ahead, log, saver>>

ReleaseChatInterrupt(s, p) ==
    /\ interrupt' = IF interrupt[s].by = p
                    THEN [interrupt EXCEPT ![s].by = Nobody] ELSE interrupt
    /\ UNCHANGED <<run, turn, exec, job, ahead, log, saver>>

-----------------------------------------------------------------------------
(* The environment: the database clock and the graph saver.                *)

ExpireExecutionLease(r) ==
    /\ exec[r].lease = "valid"
    /\ exec' = [exec EXCEPT ![r].lease = "expired"]
    /\ UNCHANGED <<run, turn, job, ahead, interrupt, log, saver>>

ExpireJobLease(r) ==
    /\ job[r].lease = "valid"
    /\ job' = [job EXCEPT ![r].lease = "expired"]
    /\ UNCHANGED <<run, turn, exec, ahead, interrupt, log, saver>>

\* The saver is not fenced: any graph still running for r may move it on.
SaverAdvance(r) ==
    /\ saver' = [saver EXCEPT ![r] = @ + 1]
    /\ UNCHANGED <<run, turn, exec, job, ahead, interrupt, log>>
-----------------------------------------------------------------------------
(* The database as its clients see it: any transaction, by any caller, at    *)
(* any moment.  AgentExecution implements this specification.               *)

PermitTransaction(r, token) ==
    \/ AppendHarnessEvent(r, token)
    \/ PersistHarnessSnapshot(r, token)
    \/ \E status \in SnapshotStatuses : PersistSupervisorSnapshot(r, token, status)
    \/ \E approved \in BOOLEAN : DecideActionProposals(r, token, approved)
    \/ ConsumeRecoveryCheckpoint(r, token)
    \/ \E reason \in {"waiting_approval", "needs_review"} : Pause(r, token, reason)
    \/ \E o \in FinishStatuses : Finish(r, token, o)

ClaimTransaction(r) ==
    \/ Claim(r)
    \/ Resume(r, exec[r].proof)
    \/ ResumeForWorker(r)
    \/ ClaimJobOfClosedRun(r)
    \/ PauseRecoveryLimit(r)
    \/ \E w \in Workers : ClaimJobFresh(r, w) \/ ClaimJobTakeover(r, w)

OwnerlessTransaction(r) ==
    \/ \E withJob \in BOOLEAN : StartHarnessTurn(r, withJob)
    \/ \E proof \in 1..ProofOf(r) : BindRecoveredCheckpoint(r, proof)
    \/ Cancel(r)
    \/ \E excludeHarness \in BOOLEAN : ReconcileExpired(r, excludeHarness)
    \/ ExpireExecutionLease(r)
    \/ ExpireJobLease(r)
    \/ SaverAdvance(r)

InterruptTransaction(s, p) ==
    ClaimChatInterrupt(s, p) \/ AckChatInterrupt(s, p) \/ ReleaseChatInterrupt(s, p)

DbNext ==
    \/ \E r \in Runs : \/ PermitTransaction(r, exec[r].token)
                       \/ ClaimTransaction(r)
                       \/ OwnerlessTransaction(r)
    \/ \E s \in Sessions, p \in Streams : InterruptTransaction(s, p)
    \/ FreezeInFlightRuns

\* Whatever workers and API streams do to the database is a sequence of the
\* coordinator's transactions; nobody writes these tables on the side.
DbSpec == DbInit /\ [][DbNext]_dbVars

-----------------------------------------------------------------------------
(* What the database promises to every client.                             *)

\* A session never has two unfinished runs, whatever is cancelled, finished,
\* frozen or resubmitted (start_harness_turn's check under the session lock).
OneLiveRunPerSession ==
    \A r, q \in Runs : r # q /\ Live(r) /\ Live(q) => SessionOf[r] # SessionOf[q]

\* Outside an administrator's freeze, a run closes together with its turn, its
\* job, its lease and its one final event, by whichever of finish, cancel and
\* the recovery limit wins, and none of them closes before the run does.
Closes(r) ==
    /\ Terminal(r) <=> turn[r] \in TurnTerminal
    /\ log[r].finals = IF Terminal(r) THEN 1 ELSE 0
    /\ Terminal(r) => exec[r].lease = "none" /\ ~HasOpenJob(r)
    /\ job[r].status \in JobClosed => Terminal(r)
ClosedTogether == \A r \in Runs : run[r] # "ROLLBACK_FROZEN" => Closes(r)

\* After a run is terminal its status, its turn and its event log stand still:
\* a late owner, a late cancel or a late snapshot changes nothing.
TerminalIsFinal ==
    [][\A r \in Runs : Terminal(r) =>
          run'[r] = run[r] /\ turn'[r] = turn[r] /\ log'[r] = log[r]]_dbVars
=============================================================================
