# SuppliSense: TLA+ models of durable agent execution

SuppliSense is a procurement-risk backend (FastAPI, PostgreSQL, MongoDB, Redis). Chat requests,
sourcing campaigns and scheduled checks are executed as durable *Agent Runs* and jobs: several
API processes and worker processes execute, pause, resume, cancel and recover the same work,
and rows, leases and fencing tokens decide who may do what. This directory holds TLA+ modules of
those parts of the system, the TLC configurations that check them on small instances, and proofs
that TLAPS checks for every value of the constants. Paths below are relative to
`src/backend/app/`; *design* is
`docs/superpowers/specs/2026-10-19-durable-harness-evolution-design.md`.

## 1. Inventory

| Part | State it keeps | Operations | Interacts with | What is hard | Module |
|---|---|---|---|---|---|
| Run coordinator (`domains/agent_run/coordinator.py`) | `agent_runs.status`, `agent_run_executions` (state, fencing token, lease, checkpoint proof), turns, events | claim, takeover, heartbeat, pause, resume, cancel, reconcile, finish | workers, API streams | every transaction may come late, from an owner that lost its lease | RunCoordinator |
| Execution jobs (`execution_jobs.py`) | `agent_execution_jobs` (status, lease, owner, recoveries) | enqueue, claim, heartbeat, finish, requeue, recovery limit | coordinator, workers | candidate read without a lock; two leases that expire separately | RunCoordinator |
| Chat interrupts (`chat_interrupt_repo.py`) | one row per session: run, claim | save, claim, acknowledge, release | coordinator, streams | a row rewritten under a claim | RunCoordinator |
| Agent worker (`workers/agent_worker.py`) | what it leased, its permit | poll, prepare, run, fail, heartbeat, stop | jobs, batches, saver | crash anywhere, lost heartbeat | AgentExecution, SourcingRun, HarnessLoop |
| API streams (`api/chat.py`, `graphs/streaming.py`, `graphs/harness/recovery.py`) | permit, proof compared, claim token | submit, claim, resume, deny, watch, finish, pause | all of the above | an inline execution dies with its API process | AgentExecution |
| Supervisor approvals (`domains/sourcing_risk/action_service.py`, `graphs/agent_supervisor`) | proposals, decisions, receipts, checkpoint | propose, ask, decide, perform, record, replay | runs, outbox, adapters | an action issued twice; an unknown outcome; a thread that outlives its stream | ApprovalGate |
| Outbox (`domains/outbox/*`, `workers/delivery.py`) | `outbox_events`, consumption log | enqueue, claim a batch, consume, retry, dead-letter, replay | every writer | at-least-once delivery, lease overrun | OutboxQueue, OutboxDelivery |
| Notification delivery (`notification_delivery.py`) | `notification_dispatches`, Mongo projections | authorize, send, record, project | outbox, provider | unknown provider result, stale projection | NotificationDispatch, OutboxDelivery |
| Sourcing runs (`domains/agent_run/service.py`, `graphs/sourcing_risk_v2`) | directed run with version, dispositions, checkpoint | create, clarify, resolve, decide, investigate, score, cancel, freeze | reviewers, batches | versions that late writers still pass | SourcingRun |
| Candidate review batches (`execution_jobs.py:275`, `domains/sourcing/candidate_review.py`) | batch with lease and fence | submit, claim, heartbeat, consume, retry, cancel | sourcing runs, workers | cancellation in mid-batch; a successor in mid-graph | SourcingRun |
| Scheduled jobs (`domains/scheduling/*`) | schedules with a rotation cursor, jobs with lease and fence | register, scan, enqueue, claim, authorize, reserve, call, finish, review | quota, permissions, providers | paying twice after a takeover; starvation | ScheduledJobs |
| Harness loop (`graphs/harness/graph.py`, `graphs/checkpoint_recovery.py`) | plan, results, budget; event log, snapshot, saver | plan, waves of tool calls, coverage, remediation, answer, recovery | tools, coordinator | three stores committed apart; a budget shared by successive owners | HarnessLoop |
| Risk assessment ledger (`domains/risk/assessment_*`) | assessments and reservations in PostgreSQL, evidence and views in MongoDB | begin, reserve, stage, freeze, commit, give up, project, compensate | runs, outbox | two stores without a common transaction | AssessmentLedger |
| Rollout gate (`core/rollout_gate.py`) | control state | roll back: freeze runs, cancel leased events | runs, outbox | freezing what others execute | several |
| Alert cases and review tasks (`domains/alert`) | cases, tasks, versions | open, assign, transition, merge, execute | notifications | a task whose executor dies | none |
| In-process stream fan-out (`graphs/harness/runner.py`), session guard, scheduler leadership, cache, retry | queues, a Redis lock, an advisory lock, counters | subscribe, lock, trip | streams, schedulers | expiry under a running owner | none |
| Company merge, suppliers, sourcing data, analytics, auth, external clients, evals, frontend | tables and documents | CRUD, scoring, HTTP | | mostly data and text | none |

What makes each modelled part correct is listed with the properties in section 4. Every component
with its status and, where it is not or only partly modelled, the reason is in `PROJECT.json`.

## 2. Modules and how they correspond to the code

```
RunCoordinator        tables and transactions of durable runs
  AgentExecution      workers and API streams on top of them      --refines-->  RunOwnership
    MCAgentExecution  small instances for TLC                     --refines-->  RunCoordinator!DbSpec
  RunCoordinatorProofs  <-  AgentExecutionProofs

OutboxQueue           outbox_events, outbox_consumptions
NotificationDispatch  notification_dispatches, its MongoDB views, the provider
  OutboxDelivery      delivery workers on top of both             MCOutboxDelivery
  OutboxProofs

AgentRunStatus        statuses and transitions of directed runs
  SourcingRun         graph, review batches, reviewers            MCSourcingRun,      SourcingProofs
ScheduledJobs         schedulers and paid jobs                    MCScheduledJobs,    ScheduledJobsProofs
ApprovalGate          a managed run at its approval gate          MCApprovalGate,     ApprovalGateProofs
HarnessLoop           plan, tool calls, answer, recovery          MCHarnessLoop,      HarnessLoopProofs
AssessmentLedger      evidence across PostgreSQL and MongoDB      MCAssessmentLedger, AssessmentLedgerProofs
```

In the first two groups the lower modules hold the database: each short transaction, whole, is one
action-shaped operator with its guard. The upper module holds the processes: each action is
one program step between two awaits, it makes at most one transaction, and anything may happen
between two of them. The other modules hold both. Every process may die at every step.

### 2.1 RunCoordinator

| Variable | Code |
|---|---|
| `run`, `turn` | `agent_runs.status`, `agent_turns.status` |
| `exec` | `agent_run_executions`: state, fencing token, lease, checkpoint proof |
| `job`, `ahead` | `agent_execution_jobs`: status, lease, owner, recovery count; the `available_at` order of the open jobs as pairs |
| `interrupt` | `agent_chat_interrupts`, one row per session, with its claim |
| `log` | `agent_run_events`: the kind of the last event and how many final ones there are; how many `agent.chat.completed` events were enqueued |
| `saver` | number of checkpoints the LangGraph saver holds for the run's thread |

| Operator | Code |
|---|---|
| `StartHarnessTurn` | `state_store.start_harness_turn` under the session lock |
| `Claim`, `Resume`, `ResumeForWorker`, `Cancel`, `Pause`, `Finish`, `ReconcileExpired`, `BindRecoveredCheckpoint`, `ConsumeRecoveryCheckpoint` | the method of `RunCoordinator` with that name, with the job, interrupt, turn and event writers it calls |
| `ClaimJobFresh`, `ClaimJobTakeover`, `ClaimJobHeld`, `ClaimJobMissed`, `ClaimJobOfClosedRun`, `PauseRecoveryLimit` | the outcomes of `execution_jobs.claim_job` |
| `AppendHarnessEvent`, `PersistHarnessSnapshot`, `PersistSupervisorSnapshot`, `DecideActionProposals` | the guarded writers of a running graph |
| `ClaimChatInterrupt`, `AckChatInterrupt`, `ReleaseChatInterrupt` | `chat_interrupt_repo.py` |
| `FreezeInFlightRuns` | `repo.freeze_in_flight_v2_runs` |
| `ExpireExecutionLease`, `ExpireJobLease`, `SaverAdvance` | the database clock and the graph saver, which no transaction fences |

Every one of these transactions locks the `agent_runs` row (the session row before it where
one is created), so making it one atomic step loses no interleaving. The exception is the
candidate `SELECT` of `claim_job`, which takes no lock: it is a step of its own (`Poll`),
and the rest of `claim_job` works with a candidate that may be out of date.

What is abstracted, and why it does not hide anything the properties look at:

- *Time.* A lease is `"valid"` until an expiry step makes it `"expired"`, at any time. A
  heartbeat extends a valid lease and so changes nothing; that the two leases of a worker are
  renewed by separate transactions survives as two leases that expire separately.
- *Attempt identifiers.* `attempt_id` is a fresh UUID drawn together with every fencing token
  an owner is given; the token alone stands for the pair.
- *Interrupt claims.* A claim may be taken over after 300 s. Its age is not modelled: a claimed
  row may be claimed again at any time, which allows more than the code does.
- *Checkpoint proofs.* The proof is the number of the saver's last checkpoint plus one, 0 is the
  empty column. The resume path reads the record, loads the checkpoint and compares; that is
  one step here (`VerifyProof`), and what it compared is used two steps later.
- *Events and answers* are their kind; entities, context documents and SSE text are left out.
- *A Supervisor stream may pause for review at any point*, which stands for every exception its
  graph can raise. A decision on a proposal is taken only by a resumed stream (`holds`).

### 2.2 AgentExecution

`proc[p]` is the local state of a worker or of an API request handler: where it is, the run it
works on, the permit (token) it holds, the proof it compared and whether it claimed the session's
interrupt row. `mode` is `AGENT_EXECUTION_MODE` of the deployed API.

| Actions | Code |
|---|---|
| `Poll`, `ClaimNothing`, `ClaimJob`, `ConsumeProof`, `BeginJob`, `AbandonJob`, `SetupFails`, `FinishJobRun`, `LosePermit`, `HeartbeatFails`, `ReturnToPoll` | `agent_worker.run_once`, `_prepare_resume`, `_execute_claimed_job`, the heartbeat task, `_run_forever` |
| `WorkerDies`, `WorkerRestarts` | a crash; `restart: unless-stopped` of the compose file |
| `PublishEvent`, `PersistSnapshot`, `PassApprovalGate`, `Checkpoint` | what a graph does while it runs, in either kind of process |
| `SubmitInline`, `SubmitToWorkers`, `ClaimOwnRun` | `chat_stream_endpoint` and the two producers |
| `TakeInterrupt`, `VerifyProof`, `BindProof`, `ResumeRun`, `ResumeByWorkers`, `DenyResume`, `GiveUpResume`, `WatchEnds` | `POST /chat/resume`, `harness/recovery.py`, `agent_supervisor/runtime.py` |
| `FinishStream`, `PauseForApproval`, `PauseForReview`, `LoseStream`, `StreamAcks`, `StreamReleases`, `StreamLeaves`, `StreamDies` | how a stream ends, and what it does with the claim |
| `UserCancels`, `Reconcile`, `Freeze`, `SwitchMode` | the cancel endpoint, the scan of `main.py`, a rollback, a redeployment |

`Active(p)` is the condition under which `require_active` lets process `p` write. A process that
is no longer active goes on running: its graph still saves checkpoints and it finds out only
at its next guarded write.

### 2.3 OutboxQueue, NotificationDispatch, OutboxDelivery

| Variable | Code |
|---|---|
| `event` | `outbox_events`: state, attempts, last error, due, owner and lease |
| `consumed` | `outbox_consumptions` |
| `frozen` | the rollout control state `rollback_frozen` |
| `dispatch` | `notification_dispatches`: status, version, attempt |
| `shown`, `audited` | the MongoDB documents `notifications` and `notification_deliveries` |
| `accepted` | how many messages the provider took (external) |
| `worker` | local variables of `process_outbox_batch` and `deliver_notification` |
| `handled` | history: events whose consumer returned |

`ClaimEvents`, `MarkPublished`, `MarkFailed`, `RecordConsumption`, `ReplayEvent` and
`CancelLeasedActionEvents` are the statements of `outbox/repo.py`; `Decide`, `RecordResult`,
`ProjectShown` and `ProjectAudited` are those of `notification_delivery.py`. `StartEvent` to
`Fail` follow `process_outbox_batch`, `ReadDispatch` to `KeepResult` follow
`deliver_notification` line by line, with the external call between two transactions.

- `deliver_notification` is the consumer that calls a provider, and is modelled step by step.
  Every other consumer is two steps (`StartConsumer`, `ConsumerReturns`) that may raise before
  or after its effect.
- A commit whose acknowledgement is lost looks like an exception after the transaction took
  effect; `Raises` is enabled after each of them.
- A worker's name is a fresh UUID per batch in the code. Here a restarted worker keeps its
  name, which lets it meet its own old leases: more behaviours than the code has.
- The attempt of a dispatch is a UUID written together with a new version and is represented by
  that version. The 24-hour deduplication of requests changes nothing when it hits and is left
  out, as are texts and recipients.

### 2.4 SourcingRun

| Variable | Code |
|---|---|
| `run` | `agent_runs`: status and version of one run of type `sourcing_risk_v2` |
| `batch` | `sourcing_candidate_review_events`: dispatch status, lease, fencing token, attempts, error |
| `disposition` | `sourcing_candidate_dispositions` |
| `checkpoint` | the LangGraph thread: next node, eligible candidates, whether any were put aside |
| `exec` | the position of each background task of the API and of each worker in the graph |
| `call` | an API call between its read and its write |
| `frozen`, `investigated` | the rollout state; history of the candidates that were sent to the risk providers |

Each node (`LoadRun` to `ReadyForReview`) is split where it reads, calls out and writes:
`record_orchestration_state` reads the run without a lock (`ReadRun`) and writes under the version it
read (`RecordState`); snapshots are written behind a status check (`Snapshot`). `ClaimBatch`
has the outcomes of `claim_candidate_review_batch` (lease, give up stale or exhausted ones),
`ReadBatch` the second read of `resume_candidate_review_batch`, which takes the fencing token it
finds, and `MarkConsumed` the fenced completion. `SubmitDecisions`, `ReclassifyDecisions`,
`SubmitClarification`, `SubmitIdentityResolution` and `CancelRun` are the reviewers' endpoints,
`SetRollout` and `FreezeRun` the administrators'. LangGraph is external: a node that
returns is followed by its checkpoint, a resumed thread goes on where its checkpoint
says, and resuming a thread that has ended does nothing. `ReadReviewGroups` applies the decisions stored with the
batch (`decisions`) over the dispositions as they are at that moment (`Decided`), as
`get_candidate_review_groups_for_batch` does.

### 2.5 ScheduledJobs

`plan`, `rotation` and `period` are `durable_schedules` (latest revisions; all revisions by
`last_checked_at`; the clock's last period), `job` is `scheduled_execution_jobs`, `batch` and
`worker` are the local variables of `workers/scheduler.py` and of an executor, `reserved` the Redis set
of `reserve_paid_refresh_once`, `allowed` and `paid` what the gates consult, and `calls` the history of
calls to providers. `StopUnknown`, `StopExhausted` and `LeaseJob` are the outcomes of
`claim_scheduled_job`; `AssertLease`, `Authorize`, `Reserve`, `ReserveDenied`, `MarkProviderStarted`,
`Call` and `Finish` are the steps of `executor.py`, each with its own transaction or script, and the
lost answer of Redis. How a cron expression becomes a period is left out; a malformed one makes
`EnqueueFails` the only outcome of a visit.

### 2.6 ApprovalGate

One managed Supervisor run from the point where its graph has proposed `N` write actions. `run`,
`exec`, `ledger` (how far the snapshot of the execution row is), `saver` (the LangGraph
checkpoint) and `card` (the interrupt row) are what a resumption compares; `proposal`,
`receipt`, `event` and `tries` are the tables of `action_service.py` and the outbox; `stream[a]`
is a producer and the thread of its tool call, which lives on when the producer is cancelled;
`calls` and `effect` are what happened outside.

`ReadRecord` to `Resume` follow `runtime.py` from the recovery record to the coordinator's
resume, with a refusal at each check. `TakeAnswer`, `DecideProposals` and
`ReplayDecision` are the gate node and the aggregate decision; `StartReceipt`, `CallAdapter`,
`RecordReceipt`, `RecordUnknown` and `ReturnReceipt` execute one action;
`SaveSnapshot`, `WriteCheckpoint` and `Finish` end the run, in that order and apart from each other.
`DeliverEvent` and `DeliveryRefused` are the delivery of a managed action by the outbox, which has no
permit and therefore only observes. Versions are abstracted to what they tell apart, the lease of
the card's claim is left out, and an approval's 24 hours are over at any moment (`Expire`).

### 2.7 HarnessLoop

`st` is `HarnessState` as the planner, the waves, coverage and the answer see it; `wave` are the
calls under way. Three stores survive an owner: `calls` and `results` are the `tool_call` and
`tool_result` events, `ledger` the snapshot of the execution row, `saved` the saver's last
checkpoint, with the ones it has yet to write in `puts`. The nodes are `Start`, `LoadSession`,
`ResolveTurn`, `BuildPlan`, `ExecuteReadyTasks`, `ValidateEvidence`, `Remediate`, `RenderAnswer`,
`PersistTurn`, `Finish`; `StartWave`, `CallTool`, `ToolReturns`, `ToolOverruns`,
`RecordOverrun` and `EndWave` are one wave. `SelectWave` is the selection under parallelism, resources and dependencies,
`StopReason` and `FinalReason` the exit reasons, `AnswerStatus` the evidence-gated status. `Resume`,
`StartAgain` and `Refuse` are `checkpoint_recovery.py`: the snapshot wins over the saver when both know
the same plan (`Merged`), the count of calls is the larger of snapshot and event log (`Reserved`), and committed
results the snapshot does not know are put back (`Restored`). A takeover is refused for another
plan (`SamePlan`), for a checkpoint that consumed more than was committed (`Overspent`), and for
results that do not fit the plan (`Restorable`). Recovery compares the tasks of the two plans field by field
except for status and attempts. What differs there, between copies with the same task identifiers, is the form:
`remediate` adds the bare spec of a task, and the next `execute_ready_tasks` writes it back as a whole
`HarnessTask`. `raw` holds the tasks that are still bare specs. Two copies are of the same plan if their tasks and
their `raw` are the same, and a committed result cannot be put back for a task in `raw`, which has no
status. The loops over lists (`Those`, `SelectWave`) are recursive
functions on the length of the list. A tool's answer is one of five kinds: supported
by formal evidence, synthetic, unfounded, empty, failed.

### 2.8 AssessmentLedger

| Variable | Code |
|---|---|
| `ledger` | `assessment_history`: status, to what it is bound, collection token, run token, lease, manifest |
| `staging` | `assessment_payload_staging`: the intent to store a document, with its owner |
| `document` | MongoDB `agent_evidence_payloads` |
| `shown` | MongoDB `assessment_snapshots` and `alert_snapshots` |
| `event` | the outbox events `risk.assessment.committed` and `.reconcile` |
| `run` | the Agent Run and its permit |
| `call`, `delivery` | where each collector and each consumer is |

`BeginNew`, `BeginTakeover`, `BeginFrozen` and `BeginAfterLoss` are the outcomes of
`begin_assessment` that change something; `Collect` to `CommitAssessment` follow `assess_company`, one
PostgreSQL transaction or one MongoDB write per step; `ReadAssessment` to `NoAlertSnapshot` are
`project_assessment` and `FindPayloads` to `MarkCompensated` are `reconcile_assessment_payloads`, both
repeated from their start by the outbox until they succeed or are given up.

- A read of several MongoDB documents is one step, and so is storing a document again (delete
  and insert).
- Every piece of evidence carries a raw payload (`make_evidence`), so a manifest is never empty.
- Whether the data suffice for an alert snapshot is open (`NoAlertSnapshot`). Versions and
  predecessors, policies, scoring, human reviews and cached reads are left out.
- The branch of the reconciliation for committed assessments is unreachable: its event is
  enqueued only when an assessment is given up, and a given-up one is never committed.

## 3. Abstract specifications

`RunOwnership` says what durable execution is for, with neither tables nor leases: a run is
granted to one process at a time, every grant has an epoch of its own, an answer comes from the
present owner, and a run is given up for a human only while nobody owns it.
`AgentExecution!RefinesOwnership` is the refinement. Its mapping:

| RunOwnership | AgentExecution |
|---|---|
| `verdict[r]` | `"unborn"` without a row, `"open"` while unfinished, then `agent_runs.status` |
| `owner[r]` | the process whose permit for `r` is active, if any |
| `epoch[r]` | the execution's fencing token |

A lease that expires, a crash and a pause all map to `Lose`; a takeover, a claim and a resume
to `Grant`; reconciliation and `resume_for_worker` to `Fence`, since they take the next
token for nobody; the recovery limit to `GiveUp`.

`RunCoordinator!DbSpec` is the second one: the database as any client sees it, every
transaction at any moment by any caller. Whatever workers and streams do is a behaviour of it.
This makes the database's promises (section 4) independent of what the processes know, and lets
the proofs about processes reuse the proofs about the database.

## 4. Runs and what they show

Names of processes only tell owners apart, nothing orders or chooses between them (`OwnerOf`
chooses among the holders of an active permit, of which there is at most one), so the sets of
workers, streams and deliverers are symmetric in the runs without liveness; in `approval_gate` the
streams that resume are, the one that asks is not. `CHECK_DEADLOCK FALSE` is set where the system does
stop: once the bounded runs, batches, periods or assessments have ended, nothing is left to do.

| Run | Instance | Properties | Distinct states |
|---|---|---|---|
| `agent_session` | a harness run of a worker and a Supervisor run of an API stream in one session, worker mode, one recovery, resumes up to token 3, one checkpoint, freeze | `OneLiveRunPerSession`, `ClosedTogether`, `TerminalIsFinal`, `RunSettles` | 125 350 |
| `mode_switch` | one harness run, two workers, two streams, two mode switches, two checkpoints, one recovery | `OneActivePermit`, `PausedIsRecoverable`, `DbSpec`, `RefinesOwnership`, `FencedForever` | 156 422 |
| `notification` | one notification, two workers, two attempts, one replay | `SentOnce`, `ReceiptsAreTrue`, `ConsumedIsSettled`, `ProjectionsAdvance`, `EventsSettle` | 284 941 |
| `outbox` | an action (two attempts) and a display event (one), two workers, batches of two, a replay, rollback | `PublishedWasConsumed`, `HistoryStands` | 864 990 |
| `sourcing_run` | one candidate without an exact match, one API task, one worker, two batches of two attempts, two calls, both reviewer endpoints, rollback | `CancelledHasNoOpenBatch`, `EndedStands`, `BatchOutcomeStands`, `BatchesSettle` | 421 968 |
| `scheduled_jobs` | a plan beside a malformed one, listed one at a time, one scheduler, two workers, two attempts, a daily limit of one, one disturbance | `PaidOnce`, `OutcomeIsTrue`, `OutcomeStands`, `JobsSettle`, `PeriodsAreEnqueued` | 388 444 |
| `approval_gate` | two actions, one with an expiry of its own, the stream that asks and two that resume, one death, two delivery attempts | `ActsOnce`, `ReportIsTrue`, `PublishedIsTrue`, `OneActionAtATime`, `EndedStartsNothing` | 5 382 306 |
| `harness_loop` | three kinds of request, five kinds of answer, three calls, two in parallel, one remediation, two lost owners, a saver up to two checkpoints behind | `TypeOK`, `BudgetHolds`, `AnswerUsesResults`, `CompletedIsCovered`, `ExitReasonIsTrue`, `AnsweredIsNotRepeated`, `RunEnds` | 142 175 |
| `assessment_ledger` | one assessment, two payloads, two collectors, one consumer, two owners of the run, two delivery attempts | `StoresAgree`, `DisplayIsBacked`, `LedgerIsReconciled` | 190 026 |

What each property says and why the instance is large enough:

- `OneLiveRunPerSession`: a session never has two unfinished runs. Two runs compete for it,
  one of them waiting for an approval, which is the case where the status list of
  `start_harness_turn` matters.
- `ClosedTogether`, `TerminalIsFinal`: run, turn, job, lease and the one final event close in
  the same transaction whoever wins (finish, cancel, recovery limit), and late writers change
  nothing afterwards. With one recovery the limit is reached after one takeover.
- `RunSettles`: crashes, lost leases and unverifiable checkpoints use up the recovery budget
  and never repeat a run for ever: it ends or is paused for a human. Only one run of the instance has a job,
  so nothing is shown of jobs that wait behind the head of the queue; for them see `HeadOfQueueIsNoDeadEnd` in
  section 6.
- `OneActivePermit`, `FencedForever`: two processes never both pass `require_active`, and a
  permit that was lost does not come back. Three tokens allow a claim, a takeover and a resume,
  so an old permit meets two later ones; two workers and two streams give every pair of owners.
- `PausedIsRecoverable`: a paused run is named by its session's interrupt row and its job waits
  with it. The interesting case is a stream that acknowledges the claim of an earlier pause
  after the row was rewritten; it needs two streams and a second pause, both within bounds.
- `SentOnce`, `ReceiptsAreTrue`: the provider takes a notification at most once and no receipt
  contradicts what it took. Two workers overlap at every step; a third adds nothing new, as
  a record goes through the call once (this is proved for any number, section 6).
- `ConsumedIsSettled`, `ProjectionsAdvance`: a consumed notification has a verdict that both
  MongoDB views show, whatever older rows are written late.
- `EventsSettle`: once crashes and overrun leases stop, each event is published or
  dead-lettered.
- `PublishedWasConsumed`, `HistoryStands`: at-least-once delivery, dead letters only at the
  limit or by a rollback, and a history no replay or late worker rewrites. Limits of two and one make
  the last attempt, the one before and the first coincide and differ.
- `CancelledHasNoOpenBatch`, `EndedStands`, `BatchOutcomeStands`: cancellation, claim,
  consumption and rollback compete; whoever wins, ended runs and batches with an outcome stand
  still. Two batches let one be open while the graph of the other runs.
- `BatchesSettle`: a batch whose worker dies in mid-graph is taken again, given up as stale or
  exhausted, or cancelled.
- `PaidOnce`, `OutcomeIsTrue`, `OutcomeStands`: a paid provider is called at most once per job and only
  within reserved budget; success means it was called and a blocked or cancelled job was never sent; a
  late owner does not rewrite an outcome. Two workers and two attempts give a late owner and its successor.
- `JobsSettle`, `PeriodsAreEnqueued`: a queued job gets an outcome; a due period is enqueued in
  spite of a malformed neighbour and failing visits.
- `ActsOnce`, `OneActionAtATime`, `EndedStartsNothing`: however often the gate is replayed, an
  approved action is called at most once, the thread of a paused stream never overlaps its
  successor's, and an ended run starts nothing. Two actions make the crash fall before, between and after them;
  two resumers make one meet another's leftovers.
- `ReportIsTrue`, `PublishedIsTrue`: the answer and the outbox say what happened to the actions.
- `BudgetHolds`, `AnsweredIsNotRepeated`, `AnswerUsesResults`: `max_tool_calls` binds the run and not
  each owner, a committed result is not asked for again and none is missing in the answer.
  Three calls are fewer than the plans' tasks, and two crashes lose a wave and then a remediation.
- `CompletedIsCovered`, `ExitReasonIsTrue`, `RunEnds`: "completed" needs formal evidence in every
  required dimension; the published reason is the true one; a run ends or is refused for a human.
- `StoresAgree`, `DisplayIsBacked`, `LedgerIsReconciled`: every document has its reservation, frozen
  evidence stays, what is displayed is committed in both stores, and everything committed or given up is
  displayed, cleaned up or a dead letter. Two payloads let every loop stop half way; two collectors
  and two owners give a late collector beside its successor. Two consumers were tried with one
  payload (391 000 states) and add nothing to a proof that holds for any number (section 6).

Three runs state what a document or a comment of the repository says of the program and find it to be
otherwise. `PROJECT.json` quotes the passages under "findings".

| Run | What happens |
|---|---|
| `unconfirmed_investigated` (`OnlyConfirmedInvestigated`) | A decision is accepted while the graph of an earlier batch runs; the graph goes on with the candidates it had read and sends one to the providers that the later decision put aside. |
| `starved_schedule` (`PeriodsAreEnqueued`) | The rotation lists the rows of every revision but a visit advances the latest one only; a replaced revision stays first and, with as many of them as a batch holds, the plans behind are not reached. |
| `late_evidence` (`CompensatedIsGone`) | A collector that lost its lease stores its document after the compensation looked for it the last time; nothing removes it. |

Each property of a passing run has a mutant in `PROJECT.json`: a plausible mistake in the code
(a dropped guard, a status missing from a list, an unversioned projection) under which the same
run reports the property violated. The mutated operators stand before the originals and are
marked *Mutant*; nothing uses them.

## 5. Fairness, and what justifies it

`AgentExecution!Fairness`:

- A process that can take its next step eventually does (weak fairness of `WorkerProgress` and
  `StreamProgress`): the event loop runs and the run's budget bounds a graph. Nothing obliges a
  graph to publish, snapshot or checkpoint; a death is never obliged either. A worker that is
  down comes back (`restart: unless-stopped`).
- `Poll` and the transaction of `claim_job` are strongly fair: a worker that is restarted for ever
  does not die before every single claim. Without this no queue is ever served, whatever the code does.
- A lease that nobody renews runs out (`LapseExecution`, `LapseJob`). A lease whose holder is
  alive may run out as well, but need not.
- Every API process reconciles at start-up and every five seconds.
- Users owe nothing: no submission, resume or cancellation is fair.

`OutboxDelivery!Fairness`: a worker keeps polling and working through its batch, every call in
it has a timeout; retry delays and leases nobody holds run out. It promises nothing of one event
while faults go on, as a worker that crashes in every batch delivers nothing. `EventsSettle` is
therefore conditional on `<>[][~Fault]_vars`: a crash with work in hand and a lease that
runs out under its holder are faults, and at some point they stop.

`SourcingRun!Fairness`: a node or a call returns or fails, workers poll, and a lease that nobody
renews because its worker is gone runs out. Reviewers, administrators and rollbacks owe nothing.

`ScheduledJobs!Fairness`: schedulers list and visit, workers claim and execute (their processes are
restarted), and leases nobody renews run out. Disturbances are bounded by `MaxDisturbances`; a worker's
death is not, and needs no bound: attempts are.

`HarnessLoop!FairSpec`: nodes run on, tools return or are timed out, the saver writes, and a lost run
is taken over. Losing an owner and passing the deadline are not fair.

`AssessmentLedger!FairSpec`: delivery workers go on polling (`DeliveryProgress`); callers of
`assess_company` and owners of runs owe nothing, which is why a collection may stay open for ever.
`LedgerIsReconciled` is conditional on consumers not dying for ever; a call of theirs may fail every time
and is then a dead letter.

## 6. What is proved

The assumptions are the named `ASSUME`s of the modules (`CoordinatorAssumption`, `ExecutionAssumption`,
`OutboxAssumption`, `DeliveryAssumption`, `SourcingAssumption`, `SchedulingAssumption`, `GateAssumption`,
`LedgerAssumption`, `HarnessAssumption`, `NoneAssumption`), evaluated by TLC in every run. They say that session,
runtime and kind of every run and event are defined, what a request asks for is a list of dimensions the planner
knows, limits are natural numbers (calls, parallelism and the saver's lag positive), and the null values are no real
ones. The theorems hold for any sets of runs,
sessions, workers, streams, events, candidates, plans, actions, assessments and requests, infinite ones included, and any limits.

| Theorem | Module | Establishes |
|---|---|---|
| `DbTypeCorrect`, `DbInvariant` | RunCoordinatorProofs | `[]DbTypeOK`, `[]DbInv` under `DbSpec` |
| `SessionHasOneLiveRun`, `RunsCloseTogether`, `TerminalRunsStand` | RunCoordinatorProofs | `OneLiveRunPerSession`, `ClosedTogether`, `TerminalIsFinal` |
| `TypeCorrect`, `ImplementsCoordinator` | AgentExecutionProofs | `TypeOK`; `Spec => DbSpec` |
| `OnePermitPerRun`, `LostPermitsStayLost` | AgentExecutionProofs | `OneActivePermit`, `FencedForever` |
| `ImplementsOwnership` | AgentExecutionProofs | `Spec => RefinesOwnership` |
| `PausesAreRecoverable` | AgentExecutionProofs | `PausedIsRecoverable` |
| `HeadOfQueueIsNoDeadEnd` | AgentExecutionProofs | `HeadCanMoveOn`: a due job can be closed, leased, or belongs to an attempt under a valid lease |
| `ExecutionKeepsPromises` | AgentExecutionProofs | the three database promises for the execution |
| `TypeCorrect`, `CallsAreCounted`, `ReceiptsStayTrue` | OutboxProofs | `TypeOK`; `SentOnce`; `ReceiptsAreTrue` |
| `OutcomesAreExplained`, `DeadLettersAreExplained`, `DecisionsStand` | OutboxProofs | `PublishedWasConsumed`; dead letters only at the limit or by a rollback; `HistoryStands` |
| `VerdictsAreDisplayed`, `DisplayedVerdictsStand` | OutboxProofs | `ConsumedIsSettled`; `ProjectionsAdvance` |
| `CancellationClosesBatches`, `EndedRunsStand`, `BatchOutcomesStand` | SourcingProofs | `CancelledHasNoOpenBatch`; `EndedStands`; `BatchOutcomeStands` |
| `CallsArePaidOnce`, `OutcomesAreTrue`, `FinalJobsStand` | ScheduledJobsProofs | `PaidOnce`; `OutcomeIsTrue`; `OutcomeStands` |
| `ActionsActOnce`, `ReportsAreTrue`, `PublishedActionsDone`, `OneActionPerTime`, `EndedRunsStartNothing` | ApprovalGateProofs | `ActsOnce`; `ReportIsTrue`; `PublishedIsTrue`; `OneActionAtATime`; `EndedStartsNothing` |
| `HarnessTypeCorrect`, `RunBudgetHolds`, `AnswersUseResults`, `NoAnsweredRepeat` | HarnessLoopProofs | `TypeOK`; `BudgetHolds`; `AnswerUsesResults`; `AnsweredIsNotRepeated` |
| `CompletedIsEarned`, `PublishedReasonIsTrue` | HarnessLoopProofs | `CompletedIsCovered`; `ExitReasonIsTrue` |
| `RefusalsAreExplained` | HarnessLoopProofs | `RefusedForItsPlan`: which refusals of a takeover can happen |
| `StoresAlwaysAgree`, `DisplaysAreBacked` | AssessmentLedgerProofs | `StoresAgree`; `DisplayIsBacked` |
| `InvHolds`, `TypesHold` | SourcingProofs, ApprovalGateProofs, AssessmentLedgerProofs; `InvHolds` also ScheduledJobsProofs | the inductive invariant; `TypeOK` |

**The database.** `ClosedTogether` is not inductive: a run without a row has to be empty
(`AbsentIsEmpty`), or its creation could find an old job or a final event. `RowInv` adds that, and
`DbInv` is the types, `RowInv` of every run and one unfinished run per session. For each
transaction one lemma shows `RowStep` for the run it is about: the row invariant is kept, a
terminal run does not move, an owner that is replaced is fenced by a greater token, a closed run
does not reopen. `OtherRows` shows that the other runs do not change.
`SessionStaysSingle` needs only `NeverReopens` and the check of `start_harness_turn`.

**The processes.** `StepIsTransaction`: every action of `AgentExecution` is a `DbNext` step or
leaves the database alone. With that `Spec => DbSpec`, and the promises of the database follow
through the refinement. One permit per run needs more: a token that a process holds is at most the
row's and no two processes have the same one for a run (`TokensFenced`). It is inductive
together with `ProcsKnowTheirRun`. The argument is `PermitsMove`: a step either lets every
process keep or drop its permit, or hands one process a token that is one above the row's, hence
above all others. `FencedForever` follows from the row's tokens never going back.

**Ownership.** `RunOwnership` says what a lease is for: a run has at most one owner, every grant has
an epoch of its own, and only the owner answers. The owner of a run is the process with its active
permit, unique by `TokensFenced`, and the epoch is the row's token. A claim is a grant, a reconciliation or a resume
that waits for a worker is a fence, a finish with the permit is an answer, a pause, an expiry or a death is a
loss, and everything else is a stutter.

**Paused runs.** `PausedIsRecoverable` relates rows that different transactions write: run, job and
interrupt. What could go wrong is a stream that acknowledges, and so deletes, the interrupt of a run that has
paused again meanwhile. It cannot: a stream that may acknowledge has moved the run out of its pause while it
held the claim (`ClaimIsSpent`), and a new pause writes the row without a claim.

**The head of the queue.** `claim_job` looks at the first due job and returns without a change when its execution
is neither queued nor running, or runs under a valid lease. The first would block every later job for ever. It is
not reached: the execution of an unfinished run is queued, running or paused (`ExecutionsStayOpen`), and the job of a
paused run is paused with it. The second lasts as long as the lease is renewed; a head that is
leased again and again is closed at the recovery limit.

**One call per notification.** `SentOnce` says nothing about a worker between its decision and the
answer. `OneCall` does: whoever is in the call is the only one there, found the record SENDING
for its own attempt, and since then the record can only have been put up for review; what the
worker carries out agrees with what the provider took. The delivery lease plays no part in it, so
overrun leases cannot break it.

**Delivery history.** `EventsInOrder` (only pending events are leased, published ones were
consumed, dead ones have a reason) and `ConsumptionsTrue` (a worker about to publish found or wrote
the consumption, one about to write it saw the consumer return).

**Displayed verdicts.** Records only move to higher versions and a settled one stands
(`RecordMoves`). A row in a worker's hands, or a view in MongoDB, is an older state of the record
or the present one, and a settled one is always the present one (`RowsAreSeen`,
`ViewsAreTrue`). So the version comparison of the projection can only refuse a row that
would take a view back, and a worker that reaches the consumption has shown the verdict itself.

**Sourcing runs.** What an execution or a call does depends on what it read earlier. `Fresh(seen)` relates a
row that was read to the run: its version is not ahead, and while the version is current so is the
status, unless the run was frozen since. Hence a write under the version that was read is
refused or starts from the status it checked, and `MayBecome` leads nowhere from an ended one
(`Moves`). Only `CancelRun` cancels, and it closes the open batches in the same transaction; afterwards no
call is accepted that would open another.

**Scheduled jobs.** The fencing token is the number of the attempt, so no two leases of a job share
one. `WorkerInOrder` says of each step what the row holds under a worker's token: until
`mark_provider_started` nobody has called, from then on the row says *started* and no claim leases it again;
`JobInOrder` says it of the rows. The one call is behind the one boundary. The type of `rotation` is not part
of the invariant: `SelectSeq` is recursive, and what it returns would need induction.

**The approval gate.** Streams that were fenced may still have a tool call under way, so tokens do not
order them. What does is how far they got: whoever is at an action has all actions before it done
(`Before`), and whoever has a thread has its action *started*. Two threads would need two started actions, of
which the earlier would have to be done (`OneActionAtATime`). A receipt that exists is never started again, and
it exists before its call (`ActionInOrder`), which gives `ActsOnce` without any guard on the
call itself. `ReportIsTrue` needs in addition what the saver's checkpoint says of the actions (`RunInOrder`).

**The harness loop.** What a loop over a list returns is needed for every list, and an
induction theorem cannot be instantiated here; the lemmas take the least number at which a step of the recursive
function would fail (`LeastNumber`, `Counting`). So `WaveIsSelected` says of the selection that it takes
ready tasks within parallelism, budget and resources, and some whenever one can start. On top are three
invariants, each checked by TLC before it was proved.

- `CallInv`: every copy of the state, in an owner's memory, the snapshot, the saver or its queue, is `Honest`: it is
  behind the event log, has counted at most the calls made, and knows no result that was not committed.
  A call under way is counted by its owner (`WavesAreAccounted`) and all calls together by the reservation
  (`CallsArePaid`). Whatever copies a takeover puts together, it raises the count to the calls made and the results
  to those committed, which gives the budget, the answer from all results and that nothing answered is asked again.
- `AnswerInv`: once the loop over a plan has ended (`Settled`), owner and snapshot agree until a remediation makes
  the plan strictly longer (`PlansGrow`), after which no older checkpoint is of the same plan and none can be
  resumed. So the reason and the status found by one owner are still true when another one publishes them.
- `RecoveryInv`: every committed result is of a task in the committed plan, no copy has remediated more often than
  the snapshot, and a copy with the snapshot's tasks has them in the snapshot's form, or still as bare specs where
  the snapshot has them in full. Hence `Overspent` never refuses a takeover; it remains in the model, as it is in
  the code. What refuses one (`RefusalsAreExplained`) is a missing checkpoint or, once a plan is committed, a saver
  whose plan is shorter than the snapshot's (`SaverTrails`), or one that still stands at a remediation whose tasks the
  snapshot already has in full or the event log has a result for (`SaverIsRaw`).

**The ledger.** `Inv` is the types, `Ordered` (what PostgreSQL and MongoDB hold of the assessment at which
a collector, `CallInOrder`, or a consumer, `DeliveryInOrder`, stands), `RemovalIsDue` (documents are marked for
removal only after a collection was given up), and the two properties. The proof goes
through `Lawful`, three facts of every step: a status only moves on and a frozen manifest stays
(`StatusMovesOn`), evidence that was not given up stays (`EvidenceStays`), a reservation
keeps its owner (`ReservationStays`). They leave what other processes know intact (`OrderKept`), so each action has to
be examined only for the process that takes it.

## 7. What is only model-checked, and what is not modelled

Model-checked on the instances of section 4 but not proved:

- the liveness properties (`RunSettles`, `EventsSettle`, `BatchesSettle`, `JobsSettle`,
  `PeriodsAreEnqueued`, `RunEnds`, `LedgerIsReconciled`): the prover has neither ENABLED nor fairness;
- the type of `rotation` in `ScheduledJobs`, which is computed with the recursive `SelectSeq`.

Every safety and action property that a passing run checks is also proved.

Not modelled: the components marked so in `PROJECT.json`, mainly computations over
documents and LLM output, HTTP clients and CRUD. They are the larger part of the source by lines:
text, prompts, rules, scores and request shaping, where a state machine has nothing to say. Within the
modelled components:

- the session's Redis lock, which only spares the database check that is modelled; the
  advisory lock of the scheduler, whose loss goes unnoticed but lets nobody enqueue a job twice
  (`ScheduledJobs` may have any number of schedulers);
- the fan-out of one stream to its subscribers inside a process: a slow subscriber is dropped and reads the
  durable events again;
- directed runs whose actions the outbox performs, follow-up runs derived from a decision, the
  decision on a managed run's proposal through the REST endpoint;
- narration, intent, scope and LLM budgets of the harness, and its retries inside a call, which cost no
  budget;
- timing: how long a lease, a retry delay or a claim lasts.

Read with the code, the models also explain some behaviour that no property covers.

*Durable runs*

- The state table (design:51, design:53) knows neither QUEUED to PAUSED, which
  `reconcile_expired` writes (`coordinator.py:448`), nor PAUSED to RUNNING, which `resume` writes
  (`coordinator.py:318`). No writer consults the table.
- `freeze_in_flight_v2_runs` makes a run terminal; its turn stays open and it has no final event
  (design:85 wants one). It leaves the version as it is (`repo.py:28`), so an execution
  of a directed run that read it before writes its own status afterwards and undoes the freeze
  (`service.py:1381`); `EndedStands` is therefore about the other final statuses.
- A harness run started inline has no job. After a redeployment to worker mode reconciliation skips
  it (`main.py:165`) and no worker can take it (`docs/issue-log.md:7277` discusses the switch).
- In worker mode a resume needs a non-empty checkpoint (`coordinator.py:338`), and
  reconciliation clears it (`coordinator.py:451`). A pause made by reconciliation can then only be
  cancelled; after a switch back to inline mode the API stream would bind a proof again.
- `resume_for_worker` leaves the run RUNNING with an expired lease, so the worker that takes it
  counts a recovery: explicit resumes use up the recovery budget.
- The recovery limit and the error paths end a run without the outbox event that puts its turn into the
  conversation.
- The worker's branch for runs of another runtime calls `requeue_job_with_cursor` without its
  cursor (`agent_worker.py:221`). No such job is created today: `SubmitToWorkers` is
  for harness runs only. `agent_worker.py:273` does not count ROLLBACK_FROZEN as terminal; harness runs
  are not frozen.

*Outbox and notifications*

- An attempt is counted only under a valid lease. A crash counts none, and a consumer that
  always outlives its lease is never dead-lettered (`EventsSettle` excludes it as a fault).
- A replayed dead letter keeps its attempt count, so its next failure buries it again.
- A record left SENDING gets its verdict only from the next delivery; when the remaining deliveries
  fail before they reach it, the event is dead-lettered and the record stays SENDING
  (`docs/superpowers/plans/2026-10-22-delivery-3c.md:77`).

*Sourcing runs and review batches*

- An insufficient clarification, or a legacy resolution of some candidates only, ends the graph; later
  resumes of that thread do nothing.
- Background tasks of the API are lost when its process ends, and nothing takes their runs up.
- A run in SCORING cannot be cancelled: the transition table has no such entry.
- `resume_candidate_review_batch` reads the fencing token again instead of using the one it claimed.
- A worker that dies after `candidate_review_resumed` leaves a batch that its successor refuses as stale.

*Scheduled jobs*

- The transitions to NEEDS_REVIEW made by a claim write no audit record (`repo.py:228`).
- Budget reserved for a job that is then cancelled is not given back; a new revision of a plan
  enqueues a second paid job in the same period.
- A worker whose lease lapsed, and which nobody replaced, finishes its job as CANCELLED
  (`executor.py:114`).

*The approval gate*

- A crash between the last snapshot and its checkpoint, or after a rejection, leaves two records that
  no resumption accepts. After an exception in the graph the pause stores the proof of the checkpoint from which the
  stream had resumed; once the saver moved on, resumption is refused as well.
- After an exception between resumption and decision the run is RUNNING and its pending proposals
  can no longer be decided (AGENT_RUN_INVALID_STATE), although the message asks the user to resume
  (`runtime.py`: "执行已暂停，请核对操作回执后恢复。").
- Approvals that expire while some actions are done leave a run that can only be cancelled.

*The harness loop*

- The status "executed" is never reached. The fallback of "risk" covers the dimension "financial" and never
  "risk".
- `EvidenceLedger.add` forgets a conflict when a third, equal duplicate arrives.
- An owner lost between the snapshot of `build_plan` or `remediate` and its checkpoint leaves two plans that
  recovery refuses (`Refuse`).
- The same happens after a remediation although the tasks are the same. While the owner executes a fallback
  task, snapshot and saver hold its bare spec; a committed result of that task cannot be put back, as the spec
  has no `status` (`checkpoint_recovery.py:147`). Once `execute_ready_tasks` has committed the task in full and
  the saver still stands at `remediate`, the comparison of the plans fails (`checkpoint_recovery.py:57`). In
  both cases the run waits for a human, while `docs/superpowers/plans/2026-10-19-run-lifecycle.md:138` says
  "Harness 可从 PG 补回领先于 saver 的只读结果". No property is violated: a refused takeover asks no
  tool again and publishes nothing.

*The ledger*

- A collection bound to a request has a random key by default; if its collector dies nobody asks with that
  key again and the assessment stays *collecting*. Its lease of 180 seconds is never renewed.

## 8. Plan

Done: durable runs with workers and streams, their ownership specification and proofs; the outbox with
notification delivery; sourcing runs with their review batches; scheduled jobs; the approval gate; the
harness loop; the assessment ledger. Every safety property a passing run checks is proved.

What could follow, in this order:

| Module | Code | Properties worth stating |
|---|---|---|
| `ReviewTasks` | `domains/alert/review_tasks.py`, `case_repo.py` | an approved task is executed once; a task whose executor dies is found again (today it stays *executing*); no lost update of a case |
| `RunEventStream` | `harness/runner.py`, `agent_run/projection.py` | a subscriber sees an unbroken prefix and then the final event; the conversation shows each turn once |
| `AssessmentVersions`, over AssessmentLedger | `assessment_repo.py`, `assessment_scoring.py` | versions have one predecessor each; the current view is the newest committed version |
| `HarnessActions` | `harness/actions.py`, `durable_actions.py` | the actions a harness run proposes, with the promises of ApprovalGate |
| `CompanyMerge`, `CircuitBreaker` | `domains/company`, `core/retry.py` | a merge leaves no dangling reference; the breaker reopens |

An abstract specification worth adding is an at-most-once effect ("approved, started, settled")
that ApprovalGate, ScheduledJobs and NotificationDispatch all refine; its proof can start from the invariants
of section 6.
