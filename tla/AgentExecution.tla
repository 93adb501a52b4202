--------------------------- MODULE AgentExecution ---------------------------
(***************************************************************************)
(* The processes that drive RunCoordinator: the durable agent workers of   *)
(* workers/agent_worker.py, and the API streams of api/chat.py,            *)
(* graphs/streaming.py, graphs/harness/recovery.py and                     *)
(* graphs/agent_supervisor/runtime.py.  A process is a sequence of         *)
(* transactions with anything in between: other processes, expired leases, *)
(* its own death.                                                          *)
(***************************************************************************)
EXTENDS RunCoordinator

CONSTANTS
    InitialMode,     \* AGENT_EXECUTION_MODE of the API at the start
    MaxSwitches,     \* bound: redeployments that flip AGENT_EXECUTION_MODE
    MaxToken,        \* bound: user resumes stop at this fencing token
    MaxCheckpoints,  \* bound: checkpoints a graph saves per run
    Rollback         \* whether an administrator may freeze V2 runs

ASSUME ExecutionAssumption ==
    /\ InitialMode \in {"inline", "worker"}
    /\ MaxSwitches \in Nat /\ MaxToken \in Nat /\ MaxCheckpoints \in Nat
    /\ Rollback \in BOOLEAN

VARIABLES
    proc,       \* local state of each worker and each stream
    mode,       \* AGENT_EXECUTION_MODE of the running API
    switches    \* number of mode switches so far

vars == <<run, turn, exec, job, ahead, interrupt, log, saver, proc, mode, switches>>

Procs == Workers \cup Streams

WorkerSteps == {"idle", "picked", "leased", "running", "leaving", "down"}
StreamSteps == {"idle", "created", "claimed", "unbound", "verified", "running",
                "committed", "lost", "refused", "watching"}

\* token: the permit's fencing token (0 without a permit).  proof: the
\* checkpoint proof a resuming stream compared.  holds: the stream claimed the
\* session's interrupt row.
ProcRow == [pc : WorkerSteps \cup StreamSteps, run : Runs \cup {NoRun}, token : Nat,
            proof : Nat, holds : BOOLEAN]

Idle == [pc |-> "idle", run |-> NoRun, token |-> 0, proof |-> NoProof, holds |-> FALSE]

TypeOK ==
    /\ DbTypeOK
    /\ proc \in [Procs -> ProcRow]
    /\ mode \in {"inline", "worker"}
    /\ switches \in Nat

Init ==
    /\ DbInit
    /\ proc = [p \in Procs |-> Idle]
    /\ mode = InitialMode
    /\ switches = 0

At(p, pc)   == proc[p].pc = pc
Goto(p, pc) == proc' = [proc EXCEPT ![p].pc = pc]
GoIdle(p)   == proc' = [proc EXCEPT ![p] = Idle]

\* The process leaves with the permit that this step's transaction hands out.
Permitted(p, pc) ==
    proc' = [proc EXCEPT ![p] = [@ EXCEPT !.pc = pc, !.token = exec'[proc[p].run].token,
                                               !.proof = NoProof]]

Active(p) == proc[p].token # 0 /\ RequireActive(proc[p].run, proc[p].token)

SameMode == UNCHANGED <<mode, switches>>

-----------------------------------------------------------------------------
(* Agent workers.                                                          *)

\* The unlocked SELECT of claim_job.
Poll(w) ==
    /\ At(w, "idle")
    /\ \E r \in Runs : /\ Candidate(r)
                       /\ proc' = [proc EXCEPT ![w] = [Idle EXCEPT !.pc = "picked", !.run = r]]
    /\ UNCHANGED dbVars /\ SameMode

\* claim_job returned no job.
ClaimNothing(w) ==
    /\ At(w, "picked")
    /\ LET r == proc[w].run IN
          \/ ClaimJobOfClosedRun(r)
          \/ ClaimJobHeld(r)
          \/ ClaimJobMissed(r)
          \/ PauseRecoveryLimit(r)
    /\ GoIdle(w) /\ SameMode

ClaimJob(w) ==
    /\ At(w, "picked")
    /\ ClaimJobFresh(proc[w].run, w) \/ ClaimJobTakeover(proc[w].run, w)
    /\ Permitted(w, "leased") /\ SameMode

\* _prepare_resume consumes a matching pause proof ...
ConsumeProof(w) ==
    /\ At(w, "leased")
    /\ ConsumeRecoveryCheckpoint(proc[w].run, proc[w].token)
    /\ UNCHANGED proc /\ SameMode

\* ... and the run starts under a permit that is still good.
BeginJob(w) ==
    /\ At(w, "leased") /\ Active(w)
    /\ exec[proc[w].run].proof = NoProof
    /\ Goto(w, "running")
    /\ UNCHANGED dbVars /\ SameMode

\* Mutant: the worker closes the job that it could not prepare.
AbandonJobClosingIt(w) ==
    /\ At(w, "leased")
    /\ \/ ~Active(w)
       \/ exec[proc[w].run].proof \notin {NoProof, ProofOf(proc[w].run)}
       \/ job[proc[w].run].recoveries > 0
    /\ FinishJob(proc[w].run, "FAILED")
    /\ GoIdle(w)
    /\ UNCHANGED <<run, turn, exec, interrupt, log, saver>> /\ SameMode

\* ExecutionLost while preparing: the permit is gone, the proof does not match
\* the saver, or a recovered checkpoint does not verify.  The job stays LEASED.
AbandonJob(w) ==
    /\ At(w, "leased")
    /\ \/ ~Active(w)
       \/ exec[proc[w].run].proof \notin {NoProof, ProofOf(proc[w].run)}
       \/ job[proc[w].run].recoveries > 0
    /\ GoIdle(w)
    /\ UNCHANGED dbVars /\ SameMode

\* Any other exception while preparing closes the run as FAILED.
SetupFails(w) ==
    /\ At(w, "leased")
    /\ Finish(proc[w].run, proc[w].token, "FAILED")
    /\ GoIdle(w) /\ SameMode

\* Mutant: the worker finishes with the token it reads from the row.
FinishJobRunAnyToken(w) ==
    /\ At(w, "running")
    /\ \E o \in Outcomes : Finish(proc[w].run, exec[proc[w].run].token, o)
    /\ Goto(w, "leaving") /\ SameMode

FinishJobRun(w) ==
    /\ At(w, "running")
    /\ \E o \in Outcomes : Finish(proc[w].run, proc[w].token, o)
    /\ Goto(w, "leaving") /\ SameMode

\* Every guarded call of the producer now raises ExecutionLost.
LosePermit(w) ==
    /\ At(w, "running") /\ ~Active(w)
    /\ Goto(w, "leaving")
    /\ UNCHANGED dbVars /\ SameMode

ReturnToPoll(w) ==
    /\ At(w, "leaving")
    /\ GoIdle(w)
    /\ UNCHANGED dbVars /\ SameMode

HoldsJobLease(w) == /\ job[proc[w].run].status = "LEASED"
                    /\ job[proc[w].run].owner = w
                    /\ job[proc[w].run].lease = "valid"

\* A failed heartbeat cancels the producer; the CancelledError is caught
\* nowhere and ends the worker process.
HeartbeatFails(w) ==
    /\ proc[w].pc \in {"running", "leaving"}
    /\ ~HoldsJobLease(w) \/ ~Active(w)
    /\ proc' = [proc EXCEPT ![w] = [Idle EXCEPT !.pc = "down"]]
    /\ UNCHANGED dbVars /\ SameMode

WorkerDies(w) ==
    /\ proc[w].pc # "down"
    /\ proc' = [proc EXCEPT ![w] = [Idle EXCEPT !.pc = "down"]]
    /\ UNCHANGED dbVars /\ SameMode

\* restart: unless-stopped
WorkerRestarts(w) ==
    /\ At(w, "down")
    /\ GoIdle(w)
    /\ UNCHANGED dbVars /\ SameMode

WorkerStep(w) ==
    \/ Poll(w) \/ ClaimNothing(w) \/ ClaimJob(w) \/ ConsumeProof(w) \/ BeginJob(w)
    \/ AbandonJob(w) \/ SetupFails(w) \/ FinishJobRun(w) \/ LosePermit(w)
    \/ ReturnToPoll(w) \/ HeartbeatFails(w) \/ WorkerDies(w) \/ WorkerRestarts(w)

-----------------------------------------------------------------------------
(* What a graph does while it runs, in a worker or in an API stream.       *)

PublishEvent(p) ==
    /\ At(p, "running")
    /\ AppendHarnessEvent(proc[p].run, proc[p].token)
    /\ UNCHANGED proc /\ SameMode

\* The snapshots of the harness producer and of the Supervisor's nodes.
PersistSnapshot(p) ==
    /\ At(p, "running")
    /\ LET r == proc[p].run IN
          \/ RuntimeOf[r] = "harness" /\ PersistHarnessSnapshot(r, proc[p].token)
          \/ /\ RuntimeOf[r] = "agent-supervisor"
             /\ \E status \in SnapshotStatuses :
                   PersistSupervisorSnapshot(r, proc[p].token, status)
    /\ UNCHANGED proc /\ SameMode

\* approval_gate, past its interrupt: only a resumed graph, whose stream claimed
\* the session's interrupt row, holds a decision.
PassApprovalGate(p) ==
    /\ At(p, "running") /\ proc[p].holds
    /\ RuntimeOf[proc[p].run] = "agent-supervisor"
    /\ \E approved \in BOOLEAN :
          DecideActionProposals(proc[p].run, proc[p].token, approved)
    /\ UNCHANGED proc /\ SameMode

\* The LangGraph saver takes a checkpoint of any graph still running, fenced
\* out or not.
Checkpoint(p) ==
    /\ At(p, "running")
    /\ saver[proc[p].run] < MaxCheckpoints
    /\ SaverAdvance(proc[p].run)
    /\ UNCHANGED proc /\ SameMode

GraphStep(p) == PublishEvent(p) \/ PersistSnapshot(p) \/ PassApprovalGate(p) \/ Checkpoint(p)

-----------------------------------------------------------------------------
(* API streams.                                                            *)

\* A chat turn that this API process executes itself.
SubmitInline(p) ==
    /\ At(p, "idle")
    /\ \E r \in Runs :
          /\ RuntimeOf[r] = "agent-supervisor" \/ mode = "inline"
          /\ StartHarnessTurn(r, FALSE)
          /\ proc' = [proc EXCEPT ![p] = [Idle EXCEPT !.pc = "created", !.run = r]]
    /\ SameMode

\* A chat turn left to the workers: the stream only subscribes to its events.
SubmitToWorkers(p) ==
    /\ At(p, "idle")
    /\ mode = "worker"
    /\ \E r \in Runs : RuntimeOf[r] = "harness" /\ StartHarnessTurn(r, TRUE)
    /\ UNCHANGED proc /\ SameMode

ClaimOwnRun(p) ==
    /\ At(p, "created")
    /\ Claim(proc[p].run)
    /\ Permitted(p, "running") /\ SameMode

ClaimOwnRunRefused(p) ==
    /\ At(p, "created")
    /\ ~(Live(proc[p].run) /\ exec[proc[p].run].state = "QUEUED")
    /\ GoIdle(p)
    /\ UNCHANGED dbVars /\ SameMode

\* POST /chat/resume takes the session's interrupt row.
TakeInterrupt(p) ==
    /\ At(p, "idle")
    /\ \E s \in Sessions :
          /\ ClaimChatInterrupt(s, p)
          /\ proc' = [proc EXCEPT ![p] = [pc |-> "claimed", run |-> interrupt[s].run,
                                          token |-> 0, proof |-> NoProof,
                                          holds |-> TRUE]]
    /\ SameMode

\* A worker deployment hands harness runs back to the queue.
ByWorkers(r) == RuntimeOf[r] = "harness" /\ mode = "worker"

\* The graph has saved something, and the stream compares its proof with the
\* one it read in the recovery record, if there was one ...
VerifyProof(p) ==
    /\ At(p, "claimed") /\ ~ByWorkers(proc[p].run)
    /\ saver[proc[p].run] > 0
    /\ exec[proc[p].run].proof \in {NoProof, ProofOf(proc[p].run)}
    /\ proc' = [proc EXCEPT ![p] = [@ EXCEPT !.proof = ProofOf(proc[p].run),
           !.pc = IF exec[proc[p].run].proof = NoProof THEN "unbound" ELSE "verified"]]
    /\ UNCHANGED dbVars /\ SameMode

\* ... or else binds it to the interrupted pause.
BindProof(p) ==
    /\ At(p, "unbound")
    /\ BindRecoveredCheckpoint(proc[p].run, proc[p].proof)
    /\ Goto(p, "verified") /\ SameMode

ResumeRun(p) ==
    /\ At(p, "verified")
    /\ exec[proc[p].run].token < MaxToken
    /\ Resume(proc[p].run, proc[p].proof)
    /\ Permitted(p, "running") /\ SameMode

\* The checkpoint does not verify, or the pause is gone.
GiveUpResume(p) ==
    /\ \/ At(p, "claimed")
       \/ At(p, "unbound") /\ ~(exec[proc[p].run].state = "PAUSED" /\ exec[proc[p].run].proof = NoProof)
       \/ At(p, "verified") /\ ~Resumable(proc[p].run, proc[p].proof)
    /\ Goto(p, "refused") \/ (RuntimeOf[proc[p].run] = "agent-supervisor" /\ Goto(p, "lost"))
    /\ UNCHANGED dbVars /\ SameMode

ResumeByWorkers(p) ==
    /\ At(p, "claimed") /\ ByWorkers(proc[p].run)
    /\ exec[proc[p].run].token < MaxToken
    /\ ResumeForWorker(proc[p].run)
    /\ Goto(p, "watching") /\ SameMode

\* approved = false ends a harness run; only a worker deployment goes on to
\* acknowledge the claim.  The Supervisor resumes with the refusal instead.
DenyResume(p) ==
    /\ At(p, "claimed") /\ RuntimeOf[proc[p].run] = "harness"
    /\ Cancel(proc[p].run) \/ (Terminal(proc[p].run) /\ UNCHANGED dbVars)
    /\ IF mode = "worker" THEN Goto(p, "watching") ELSE GoIdle(p)
    /\ SameMode

\* _stream_durable_harness_run ended: the run is terminal or paused again.
WatchEnds(p) ==
    /\ At(p, "watching")
    /\ Terminal(proc[p].run) \/ exec[proc[p].run].state = "PAUSED"
    /\ AckChatInterrupt(SessionOf[proc[p].run], p)
    /\ GoIdle(p) /\ SameMode

FinishStream(p) ==
    /\ At(p, "running")
    /\ \E o \in Outcomes : Finish(proc[p].run, proc[p].token, o)
    /\ Goto(p, "committed") /\ SameMode

\* Only the Supervisor pauses: at an approval, or when anything goes wrong.
PauseForApproval(p) ==
    /\ At(p, "running") /\ RuntimeOf[proc[p].run] = "agent-supervisor"
    /\ Pause(proc[p].run, proc[p].token, "waiting_approval")
    /\ Goto(p, "committed") /\ SameMode

PauseForReview(p) ==
    /\ At(p, "running") /\ RuntimeOf[proc[p].run] = "agent-supervisor"
    /\ Pause(proc[p].run, proc[p].token, "needs_review")
    /\ Goto(p, "refused") /\ SameMode

LoseStream(p) ==
    /\ At(p, "running") /\ ~Active(p)
    /\ Goto(p, "lost")
    /\ UNCHANGED dbVars /\ SameMode

\* Acknowledge after a commit; the harness producer also ends quietly after
\* it lost its permit.
StreamAcks(p) ==
    /\ At(p, "committed") \/ (At(p, "lost") /\ RuntimeOf[proc[p].run] = "harness")
    /\ IF proc[p].holds THEN AckChatInterrupt(SessionOf[proc[p].run], p) ELSE UNCHANGED dbVars
    /\ GoIdle(p) /\ SameMode

StreamReleases(p) ==
    /\ \/ At(p, "refused")
       \/ At(p, "lost") /\ ~(RuntimeOf[proc[p].run] = "agent-supervisor" /\ Terminal(proc[p].run))
    /\ IF proc[p].holds THEN ReleaseChatInterrupt(SessionOf[proc[p].run], p) ELSE UNCHANGED dbVars
    /\ GoIdle(p) /\ SameMode

\* A Supervisor that lost its permit to a terminal status only replays the end.
StreamLeaves(p) ==
    /\ At(p, "lost") /\ RuntimeOf[proc[p].run] = "agent-supervisor" /\ Terminal(proc[p].run)
    /\ GoIdle(p)
    /\ UNCHANGED dbVars /\ SameMode

\* The API process dies: nothing in memory survives, the claim stays.
StreamDies(p) ==
    /\ ~At(p, "idle")
    /\ GoIdle(p)
    /\ UNCHANGED dbVars /\ SameMode

StreamStep(p) ==
    \/ SubmitInline(p) \/ SubmitToWorkers(p) \/ ClaimOwnRun(p) \/ ClaimOwnRunRefused(p)
    \/ TakeInterrupt(p) \/ VerifyProof(p) \/ BindProof(p) \/ ResumeRun(p) \/ GiveUpResume(p)
    \/ ResumeByWorkers(p) \/ DenyResume(p) \/ WatchEnds(p) \/ FinishStream(p)
    \/ PauseForApproval(p) \/ PauseForReview(p) \/ LoseStream(p) \/ StreamAcks(p)
    \/ StreamReleases(p) \/ StreamLeaves(p) \/ StreamDies(p)

-----------------------------------------------------------------------------
(* Everybody else.                                                         *)

UserCancels(r) == Cancel(r) /\ UNCHANGED proc /\ SameMode

\* Every API process scans at startup and every five seconds.
Reconcile(r) == ReconcileExpired(r, mode = "worker") /\ UNCHANGED proc /\ SameMode

Freeze == Rollback /\ FreezeInFlightRuns /\ UNCHANGED proc /\ SameMode

ExpireExecution(r) == ExpireExecutionLease(r) /\ UNCHANGED proc /\ SameMode
ExpireJob(r)       == ExpireJobLease(r) /\ UNCHANGED proc /\ SameMode

\* The API is redeployed with the other AGENT_EXECUTION_MODE.
SwitchMode ==
    /\ switches < MaxSwitches
    /\ mode' = IF mode = "inline" THEN "worker" ELSE "inline"
    /\ switches' = switches + 1
    /\ proc' = [p \in Procs |-> IF p \in Streams THEN Idle ELSE proc[p]]
    /\ UNCHANGED dbVars

Next ==
    \/ \E w \in Workers : WorkerStep(w)
    \/ \E p \in Streams : StreamStep(p)
    \/ \E p \in Procs : GraphStep(p)
    \/ \E r \in Runs : \/ UserCancels(r) \/ Reconcile(r)
                       \/ ExpireExecution(r) \/ ExpireJob(r)
    \/ Freeze
    \/ SwitchMode

Spec == Init /\ [][Next]_vars

-----------------------------------------------------------------------------
(* The abstract view of the execution: who owns each run, and how it ended. *)

OwnerOf(r) ==
    IF \E p \in Procs : Active(p) /\ proc[p].run = r
    THEN CHOOSE p \in Procs : Active(p) /\ proc[p].run = r
    ELSE Nobody

VerdictOf(r) == CASE run[r] = "ABSENT" -> "unborn"
                  [] Live(r)           -> "open"
                  [] OTHER             -> run[r]

Ownership == INSTANCE RunOwnership WITH
    Unowned <- Nobody,
    verdict <- [r \in Runs |-> VerdictOf(r)],
    owner   <- [r \in Runs |-> OwnerOf(r)],
    epoch   <- [r \in Runs |-> exec[r].token]

\* Workers and streams that crash, time out, resume and race each other behave
\* as if every run had one owner at a time: no answer without a current permit,
\* no two grants with one token, no give-up under an owner's feet.
RefinesOwnership == Ownership!Spec

-----------------------------------------------------------------------------
(* Safety.                                                                 *)

\* At no time do two processes both pass require_active for the same run: a
\* takeover, a resume or a reconciliation fences the previous owner out even
\* while it is still running (claim_with_cursor, takeover_with_cursor).
OneActivePermit ==
    \A p, q \in Procs : p # q /\ Active(p) /\ Active(q) => proc[p].run # proc[q].run

\* A paused run can be found again: the interrupt row of its session names it,
\* and its job, if any, waits with it instead of being offered to a worker.
PausedIsRecoverable ==
    \A r \in Runs : Live(r) /\ exec[r].state = "PAUSED" =>
        /\ interrupt[SessionOf[r]].run = r
        /\ job[r].status \in {"NONE", "PAUSED"}

-----------------------------------------------------------------------------
(* What a step may never do.                                               *)

\* A permit that stopped being active never becomes active again: no later
\* heartbeat, pause, resume or claim revives an old fencing token.
FencedForever ==
    [][\A p \in Procs : At(p, "running") /\ At(p, "running")' /\ ~Active(p) => ~Active(p)']_vars

-----------------------------------------------------------------------------
(* Liveness.                                                               *)

\* Heartbeats stop with their process, so a lease nobody renews runs out.
Holder(p, r) == proc[p].run = r /\ proc[p].pc \in {"leased", "running"}
LapseExecution(r) ==
    /\ \A p \in Procs : ~(Holder(p, r) /\ Active(p))
    /\ ExpireExecution(r)
LapseJob(r) ==
    /\ \A w \in Workers : ~(Holder(w, r) /\ HoldsJobLease(w))
    /\ ExpireJob(r)

\* Each process keeps taking its next step while it lives, graphs are bounded
\* by the run's budget, containers are restarted, clocks advance, and the API
\* reconciles every five seconds.  A worker that keeps being restarted does not
\* die inside every claim_job call.  Users owe nothing.
WorkerProgress(w) ==
    Poll(w) \/ ClaimNothing(w) \/ ClaimJob(w) \/ ConsumeProof(w) \/ BeginJob(w)
      \/ AbandonJob(w) \/ FinishJobRun(w) \/ LosePermit(w) \/ ReturnToPoll(w) \/ WorkerRestarts(w)
StreamProgress(p) ==
    ClaimOwnRun(p) \/ ClaimOwnRunRefused(p) \/ FinishStream(p) \/ LoseStream(p)
      \/ StreamAcks(p) \/ StreamReleases(p) \/ StreamLeaves(p) \/ WatchEnds(p)
Fairness ==
    /\ \A w \in Workers : /\ WF_vars(WorkerProgress(w))
                         /\ SF_vars(Poll(w))
                         /\ SF_vars(ClaimNothing(w) \/ ClaimJob(w))
    /\ \A p \in Streams : WF_vars(StreamProgress(p))
    /\ \A r \in Runs : WF_vars(LapseExecution(r)) /\ WF_vars(LapseJob(r)) /\ WF_vars(Reconcile(r))

FairSpec == Spec /\ Fairness

\* A run whose process died is noticed: it ends or is paused for recovery.
RunSettles ==
    \A r \in Runs : Live(r) ~> (Terminal(r) \/ exec[r].state = "PAUSED")
=============================================================================
