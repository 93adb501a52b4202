------------------------ MODULE AgentExecutionProofs ------------------------
(***************************************************************************)
(* Workers and API streams implement the coordinator's specification, and  *)
(* fencing tokens keep one owner per run, for every number of processes.   *)
(***************************************************************************)
EXTENDS AgentExecution, RunCoordinatorProofs

\* A busy process knows its run, an idle one remembers nothing, and one that
\* executes was handed a permit; a stream that will bind a proof read it from
\* the saver.
ProcsKnowTheirRun ==
    \A p \in Procs :
        /\ proc[p].pc = "idle" => proc[p] = Idle
        /\ proc[p].pc \notin {"idle", "down"} => proc[p].run \in Runs
        /\ proc[p].pc \in {"leased", "running"} => proc[p].token # 0
        /\ proc[p].pc = "unbound" => proc[p].proof \in 1..ProofOf(proc[p].run)

\* A permit's token was once the current one of its run, and no other process
\* ever got the same.
TokensFenced ==
    /\ \A p \in Procs : proc[p].token # 0 =>
           proc[p].run \in Runs /\ proc[p].token <= exec[proc[p].run].token
    /\ \A p, q \in Procs :
           p # q /\ proc[p].token # 0 /\ proc[p].run = proc[q].run => proc[p].token # proc[q].token

LocalTypeOK ==
    /\ proc \in [Procs -> ProcRow]
    /\ mode \in {"inline", "worker"}
    /\ switches \in Nat

Inv == DbInv /\ LocalTypeOK /\ ProcsKnowTheirRun /\ TokensFenced

-----------------------------------------------------------------------------
(* Every step is a transaction of the coordinator or leaves the database.  *)

LEMMA WorkerTransactions ==
    ASSUME ExecutionAssumption, CoordinatorAssumption, Inv, NEW w \in Workers, WorkerStep(w)
    PROVE  [DbNext]_dbVars
<1> DEFINE r == proc[w].run
<1>1. proc[w].pc \notin {"idle", "down"} => r \in Runs
  BY DEF Inv, ProcsKnowTheirRun, Procs
<1>2. CASE ClaimNothing(w)
  <2>1. r \in Runs
    BY <1>1, <1>2 DEF ClaimNothing, At
  <2>2. ClaimJobOfClosedRun(r) \/ PauseRecoveryLimit(r) \/ UNCHANGED dbVars
    BY <1>2 DEF ClaimNothing, ClaimJobHeld, ClaimJobMissed
  <2> QED
    BY <2>1, <2>2 DEF DbNext, ClaimTransaction
<1>3. CASE ClaimJob(w)
  <2>1. r \in Runs
    BY <1>1, <1>3 DEF ClaimJob, At
  <2> QED
    BY <1>3, <2>1 DEF ClaimJob, DbNext, ClaimTransaction
<1>4. CASE ConsumeProof(w)
  <2>1. r \in Runs /\ ConsumeRecoveryCheckpoint(r, proc[w].token)
    BY <1>1, <1>4 DEF ConsumeProof, At
  <2>2. proc[w].token = exec[r].token
    BY <2>1 DEF ConsumeRecoveryCheckpoint, RequireActive
  <2> QED
    BY <2>1, <2>2 DEF DbNext, PermitTransaction
<1>5. ASSUME NEW o \in FinishStatuses, Finish(r, proc[w].token, o), r \in Runs
      PROVE  [DbNext]_dbVars
  <2>1. proc[w].token = exec[r].token
    BY <1>5 DEF Finish, RequireActive
  <2> QED
    BY <1>5, <2>1 DEF DbNext, PermitTransaction
<1>6. CASE SetupFails(w)
  BY <1>1, <1>5, <1>6 DEF SetupFails, At, FinishStatuses
<1>7. CASE FinishJobRun(w)
  BY <1>1, <1>5, <1>7, CoordinatorAssumption DEF FinishJobRun, At, CoordinatorAssumption
<1>8. CASE Poll(w) \/ BeginJob(w) \/ AbandonJob(w) \/ LosePermit(w) \/ ReturnToPoll(w)
             \/ HeartbeatFails(w) \/ WorkerDies(w) \/ WorkerRestarts(w)
  BY <1>8 DEF Poll, BeginJob, AbandonJob, LosePermit, ReturnToPoll, HeartbeatFails, WorkerDies,
     WorkerRestarts
<1> QED
  BY <1>2, <1>3, <1>4, <1>6, <1>7, <1>8 DEF WorkerStep

LEMMA GraphTransactions ==
    ASSUME Inv, NEW p \in Procs, GraphStep(p)
    PROVE  [DbNext]_dbVars
<1> DEFINE r == proc[p].run
<1>1. r \in Runs
  BY DEF Inv, ProcsKnowTheirRun, GraphStep, PublishEvent, PersistSnapshot, PassApprovalGate,
     Checkpoint, At
<1>2. CASE Checkpoint(p)
  BY <1>1, <1>2 DEF Checkpoint, DbNext, OwnerlessTransaction
<1>3. CASE PublishEvent(p) \/ PersistSnapshot(p) \/ PassApprovalGate(p)
  <2>1. \/ AppendHarnessEvent(r, proc[p].token)
        \/ PersistHarnessSnapshot(r, proc[p].token)
        \/ \E status \in SnapshotStatuses : PersistSupervisorSnapshot(r, proc[p].token, status)
        \/ \E approved \in BOOLEAN : DecideActionProposals(r, proc[p].token, approved)
    BY <1>3 DEF PublishEvent, PersistSnapshot, PassApprovalGate
  <2>2. proc[p].token = exec[r].token
    BY <2>1 DEF AppendHarnessEvent, PersistHarnessSnapshot, PersistSupervisorSnapshot,
       DecideActionProposals, RequireActive
  <2> QED
    BY <1>1, <2>1, <2>2 DEF DbNext, PermitTransaction
<1> QED
  BY <1>2, <1>3 DEF GraphStep

LEMMA StreamTransactions ==
    ASSUME CoordinatorAssumption, Inv, NEW p \in Streams, StreamStep(p)
    PROVE  [DbNext]_dbVars
<1> DEFINE r == proc[p].run
<1>1. proc[p].pc \notin {"idle", "down"} => r \in Runs
  BY DEF Inv, ProcsKnowTheirRun, Procs
<1>2. r \in Runs => SessionOf[r] \in Sessions
  BY DEF CoordinatorAssumption
<1>3. CASE SubmitInline(p) \/ SubmitToWorkers(p)
  BY <1>3 DEF SubmitInline, SubmitToWorkers, DbNext, OwnerlessTransaction
<1>4. CASE ClaimOwnRun(p)
  BY <1>1, <1>4 DEF ClaimOwnRun, At, DbNext, ClaimTransaction
<1>5. CASE TakeInterrupt(p)
  BY <1>5 DEF TakeInterrupt, DbNext, InterruptTransaction
<1>6. CASE BindProof(p)
  <2>1. r \in Runs /\ proc[p].proof \in 1..ProofOf(r)
    BY <1>1, <1>6 DEF BindProof, At, Inv, ProcsKnowTheirRun, Procs
  <2> QED
    BY <1>6, <2>1 DEF BindProof, DbNext, OwnerlessTransaction
<1>7. CASE ResumeRun(p)
  <2>1. r \in Runs /\ Resume(r, proc[p].proof)
    BY <1>1, <1>7 DEF ResumeRun, At
  <2>2. proc[p].proof = exec[r].proof
    BY <2>1 DEF Resume, Resumable
  <2> QED
    BY <2>1, <2>2 DEF DbNext, ClaimTransaction
<1>8. CASE ResumeByWorkers(p)
  BY <1>1, <1>8 DEF ResumeByWorkers, At, DbNext, ClaimTransaction
<1>9. CASE DenyResume(p)
  BY <1>1, <1>9 DEF DenyResume, At, DbNext, OwnerlessTransaction
<1>10. CASE WatchEnds(p)
  BY <1>1, <1>2, <1>10 DEF WatchEnds, At, DbNext, InterruptTransaction
<1>11. ASSUME r \in Runs,
              \/ \E o \in FinishStatuses : Finish(r, proc[p].token, o)
              \/ \E reason \in {"waiting_approval", "needs_review"} : Pause(r, proc[p].token, reason)
       PROVE  [DbNext]_dbVars
  <2>1. proc[p].token = exec[r].token
    BY <1>11 DEF Finish, Pause, RequireActive
  <2> QED
    BY <1>11, <2>1 DEF DbNext, PermitTransaction
<1>12. CASE FinishStream(p)
  BY <1>1, <1>11, <1>12 DEF FinishStream, At, CoordinatorAssumption
<1>13. CASE PauseForApproval(p) \/ PauseForReview(p)
  BY <1>1, <1>11, <1>13 DEF PauseForApproval, PauseForReview, At
<1>14. CASE StreamAcks(p) \/ StreamReleases(p)
  <2>1. r \in Runs
    BY <1>1, <1>14 DEF StreamAcks, StreamReleases, At
  <2> QED
    BY <1>2, <1>14, <2>1 DEF StreamAcks, StreamReleases, DbNext, InterruptTransaction
<1>15. CASE ClaimOwnRunRefused(p) \/ VerifyProof(p) \/ GiveUpResume(p) \/ LoseStream(p)
              \/ StreamLeaves(p) \/ StreamDies(p)
  BY <1>15 DEF ClaimOwnRunRefused, VerifyProof, GiveUpResume, LoseStream, StreamLeaves, StreamDies
<1> QED
  BY <1>3, <1>4, <1>5, <1>6, <1>7, <1>8, <1>9, <1>10, <1>12, <1>13, <1>14, <1>15 DEF StreamStep

LEMMA StepIsTransaction ==
    ASSUME CoordinatorAssumption, ExecutionAssumption, Inv, [Next]_vars
    PROVE  [DbNext]_dbVars
<1>1. CASE UNCHANGED vars
  BY <1>1 DEF vars, dbVars
<1>2. ASSUME NEW r \in Runs,
             UserCancels(r) \/ Reconcile(r) \/ ExpireExecution(r) \/ ExpireJob(r)
      PROVE  [DbNext]_dbVars
  <2>1. (mode = "worker") \in BOOLEAN
    OBVIOUS
  <2> QED
    BY <1>2, <2>1 DEF UserCancels, Reconcile, ExpireExecution, ExpireJob, DbNext, OwnerlessTransaction
<1>3. CASE Freeze
  BY <1>3 DEF Freeze, DbNext
<1>4. CASE SwitchMode
  BY <1>4 DEF SwitchMode
<1> QED
  BY <1>1, <1>2, <1>3, <1>4, WorkerTransactions, StreamTransactions, GraphTransactions DEF Next

-----------------------------------------------------------------------------
(* Permits: a step hands out at most one, with a token nobody had before.  *)

Keeps(p) == proc'[p].token = proc[p].token /\ proc'[p].run = proc[p].run
Drops(p) == proc'[p].token = 0
Gains(p) == /\ proc[p].pc \in {"picked", "created", "verified"}
            /\ proc[p].run \in Runs
            /\ proc'[p].run = proc[p].run
            /\ proc'[p].token = exec'[proc[p].run].token
            /\ exec'[proc[p].run].token = exec[proc[p].run].token + 1

PermitsMove ==
    \/ \A p \in Procs : Keeps(p) \/ Drops(p)
    \/ \E a \in Procs : Gains(a) /\ \A p \in Procs \ {a} : Keeps(p)

LocalStep == LocalTypeOK' /\ ProcsKnowTheirRun' /\ PermitsMove

\* The saver only ever gains checkpoints.
LEMMA SaverGrows ==
    ASSUME DbTypeOK, [DbNext]_dbVars, NEW r \in Runs
    PROVE  saver'[r] \in Nat /\ saver'[r] >= saver[r]
<1>1. saver[r] \in Nat
  BY DEF DbTypeOK
<1>2. CASE UNCHANGED saver
  BY <1>1, <1>2
<1>3. ASSUME NEW q \in Runs, SaverAdvance(q)
      PROVE  saver'[r] \in Nat /\ saver'[r] >= saver[r]
  BY <1>1, <1>3 DEF SaverAdvance, DbTypeOK
<1>4. UNCHANGED saver \/ \E q \in Runs : SaverAdvance(q)
  BY DEF DbNext, dbVars, PermitTransaction, AppendHarnessEvent, PersistHarnessSnapshot,
     PersistSupervisorSnapshot, DecideActionProposals, ConsumeRecoveryCheckpoint, Pause, Finish, ClaimTransaction, Claim, Resume, ResumeForWorker,
     ClaimJobOfClosedRun, PauseRecoveryLimit, ClaimJobFresh, ClaimJobTakeover, OwnerlessTransaction,
     StartHarnessTurn, BindRecoveredCheckpoint, Cancel, ReconcileExpired, ExpireExecutionLease,
     ExpireJobLease, InterruptTransaction, ClaimChatInterrupt, AckChatInterrupt,
     ReleaseChatInterrupt, FreezeInFlightRuns
<1> QED
  BY <1>2, <1>3, <1>4

\* One process moves to a new row of its own and the others stay.
LEMMA OneProcMoves ==
    ASSUME Inv, [DbNext]_dbVars, NEW p \in Procs, NEW row \in ProcRow,
           proc' = [proc EXCEPT ![p] = row], SameMode,
           row.pc = "idle" => row = Idle,
           row.pc \in {"leased", "running"} => row.token # 0,
           row.pc \notin {"idle", "down"} => row.run \in Runs,
           row.pc = "unbound" => row.proof \in 1..ProofOf(row.run) /\ UNCHANGED saver,
           Keeps(p) \/ Drops(p) \/ Gains(p)
    PROVE  LocalStep
<1>1. proc'[p] = row /\ \A q \in Procs \ {p} : proc'[q] = proc[q]
  BY DEF Inv, LocalTypeOK
<1>2. LocalTypeOK'
  BY DEF Inv, LocalTypeOK, SameMode
<1>3. ASSUME NEW q \in Procs
      PROVE  (/\ proc[q].pc = "idle" => proc[q] = Idle
              /\ proc[q].pc \notin {"idle", "down"} => proc[q].run \in Runs
              /\ proc[q].pc \in {"leased", "running"} => proc[q].token # 0
              /\ proc[q].pc = "unbound" => proc[q].proof \in 1..ProofOf(proc[q].run))'
  <2>1. CASE q = p
    BY <1>1, <2>1 DEF ProofOf
  <2>2. CASE q # p
    <3>1. proc'[q] = proc[q]
      BY <1>1, <2>2
    <3>2. proc[q].pc = "unbound" => proc[q].run \in Runs /\ proc[q].proof \in 1..ProofOf(proc[q].run)
      BY DEF Inv, ProcsKnowTheirRun
    <3>3. proc[q].run \in Runs => /\ saver[proc[q].run] \in Nat
                                  /\ saver'[proc[q].run] \in Nat
                                  /\ saver'[proc[q].run] >= saver[proc[q].run]
      BY SaverGrows DEF Inv, DbInv, DbTypeOK
    <3> QED
      BY <3>1, <3>2, <3>3 DEF Inv, ProcsKnowTheirRun, ProofOf
  <2> QED
    BY <2>1, <2>2
<1>4. PermitsMove
  BY <1>1 DEF PermitsMove, Keeps, Drops
<1> QED
  BY <1>2, <1>3, <1>4 DEF LocalStep, ProcsKnowTheirRun

LEMMA NoProcMoves ==
    ASSUME Inv, [DbNext]_dbVars, UNCHANGED proc, SameMode
    PROVE  LocalStep
<1>1. ASSUME NEW q \in Procs, proc[q].pc = "unbound"
      PROVE  proc[q].proof \in 1..(saver'[proc[q].run] + 1)
  <2>1. proc[q].run \in Runs /\ proc[q].proof \in 1..ProofOf(proc[q].run)
    BY <1>1 DEF Inv, ProcsKnowTheirRun
  <2>2. /\ saver[proc[q].run] \in Nat
        /\ saver'[proc[q].run] \in Nat
        /\ saver'[proc[q].run] >= saver[proc[q].run]
    BY <2>1, SaverGrows DEF Inv, DbInv, DbTypeOK
  <2> QED
    BY <2>1, <2>2 DEF ProofOf
<1> QED
  BY <1>1 DEF LocalStep, Inv, LocalTypeOK, ProcsKnowTheirRun, ProofOf, SameMode, PermitsMove, Keeps

\* The three ways to move a process.
LEMMA GoIdleMoves ==
    ASSUME Inv, [DbNext]_dbVars, NEW p \in Procs, GoIdle(p), SameMode
    PROVE  LocalStep
<1>1. Idle \in ProcRow /\ Idle.pc = "idle" /\ Idle.token = 0
  BY DEF Idle, ProcRow, WorkerSteps, NoProof
<1>2. proc' = [proc EXCEPT ![p] = Idle]
  BY DEF GoIdle
<1>3. Drops(p)
  BY <1>1, <1>2 DEF Drops, Inv, LocalTypeOK
<1> QED
  BY <1>1, <1>2, <1>3, OneProcMoves

LEMMA GotoMoves ==
    ASSUME Inv, [DbNext]_dbVars, NEW p \in Procs, NEW pc \in WorkerSteps \cup StreamSteps,
           pc \notin {"unbound", "idle"}, proc[p].run \in Runs, Goto(p, pc), SameMode,
           pc \in {"leased", "running"} => Active(p)
    PROVE  LocalStep
<1> DEFINE row == [proc[p] EXCEPT !.pc = pc]
<1>1. proc[p] \in ProcRow
  BY DEF Inv, LocalTypeOK
<1>2. row \in ProcRow /\ row.pc = pc /\ row.run = proc[p].run /\ row.token = proc[p].token
  BY <1>1 DEF ProcRow
<1>3. proc' = [proc EXCEPT ![p] = row]
  BY DEF Goto
<1>4. Keeps(p)
  BY <1>2, <1>3 DEF Keeps, Inv, LocalTypeOK
<1> QED
  BY <1>2, <1>3, <1>4, OneProcMoves DEF Active

LEMMA PermittedMoves ==
    ASSUME Inv, [DbNext]_dbVars, NEW p \in Procs, NEW pc \in WorkerSteps \cup StreamSteps,
           pc \notin {"unbound", "idle"}, proc[p].run \in Runs, Permitted(p, pc), SameMode,
           proc[p].pc \in {"picked", "created", "verified"},
           exec'[proc[p].run].token = exec[proc[p].run].token + 1
    PROVE  LocalStep
<1> DEFINE r == proc[p].run
           row == [proc[p] EXCEPT !.pc = pc, !.token = exec'[r].token, !.proof = NoProof]
<1>1. proc[p] \in ProcRow /\ exec[r].token \in Nat /\ exec'[r].token \in Nat \ {0}
  BY DEF Inv, LocalTypeOK, DbInv, DbTypeOK, ExecRow
<1>2. /\ row \in ProcRow /\ row.pc = pc /\ row.run = r
      /\ row.token = exec'[r].token /\ row.token # 0
  BY <1>1 DEF ProcRow, NoProof
<1>3. proc' = [proc EXCEPT ![p] = row]
  BY DEF Permitted
<1>4. Gains(p)
  BY <1>2, <1>3 DEF Gains, Inv, LocalTypeOK
<1> QED
  BY <1>2, <1>3, <1>4, OneProcMoves

LEMMA WorkerLocalStep ==
    ASSUME CoordinatorAssumption, ExecutionAssumption, Inv, NEW w \in Workers, WorkerStep(w)
    PROVE  LocalStep
<1>0. [DbNext]_dbVars /\ w \in Procs
  BY WorkerTransactions DEF Procs
<1>1. proc[w].pc \notin {"idle", "down"} => proc[w].run \in Runs
  BY <1>0 DEF Inv, ProcsKnowTheirRun
<1>2. CASE Poll(w)
  <2> PICK r \in Runs : proc' = [proc EXCEPT ![w] = [Idle EXCEPT !.pc = "picked", !.run = r]]
    BY <1>2 DEF Poll
  <2> DEFINE row == [Idle EXCEPT !.pc = "picked", !.run = r]
  <2>1. row \in ProcRow /\ row.pc = "picked" /\ row.run = r /\ row.token = 0
    BY DEF Idle, ProcRow, WorkerSteps, NoProof
  <2>2. Drops(w)
    BY <1>0, <2>1 DEF Drops, Inv, LocalTypeOK
  <2> QED
    BY <1>0, <1>2, <2>1, <2>2, OneProcMoves DEF Poll
<1>3. CASE HeartbeatFails(w) \/ WorkerDies(w)
  <2> DEFINE row == [Idle EXCEPT !.pc = "down"]
  <2>1. row \in ProcRow /\ row.pc = "down" /\ row.token = 0
    BY DEF Idle, ProcRow, WorkerSteps, NoProof
  <2>2. proc' = [proc EXCEPT ![w] = row] /\ SameMode
    BY <1>3 DEF HeartbeatFails, WorkerDies
  <2>3. Drops(w)
    BY <1>0, <2>1, <2>2 DEF Drops, Inv, LocalTypeOK
  <2> QED
    BY <1>0, <2>1, <2>2, <2>3, OneProcMoves
<1>4. CASE ClaimNothing(w) \/ AbandonJob(w) \/ SetupFails(w) \/ ReturnToPoll(w) \/ WorkerRestarts(w)
  <2>1. GoIdle(w) /\ SameMode
    BY <1>4 DEF ClaimNothing, AbandonJob, SetupFails, ReturnToPoll, WorkerRestarts
  <2> QED
    BY <1>0, <2>1, GoIdleMoves
<1>5. CASE ClaimJob(w)
  <2>1. proc[w].pc = "picked" /\ proc[w].run \in Runs
    BY <1>1, <1>5 DEF ClaimJob, At
  <2>2. exec'[proc[w].run].token = exec[proc[w].run].token + 1
    BY <1>5, <2>1
    DEF ClaimJob, ClaimJobFresh, ClaimJobTakeover, NewAttempt, Inv, DbInv, DbTypeOK
  <2> QED
    BY <1>0, <1>5, <2>1, <2>2, PermittedMoves DEF ClaimJob, WorkerSteps
<1>6. CASE ConsumeProof(w)
  BY <1>0, <1>6, NoProcMoves DEF ConsumeProof
<1>7. CASE BeginJob(w) \/ FinishJobRun(w) \/ LosePermit(w)
  <2>1. /\ proc[w].run \in Runs /\ SameMode
        /\ Goto(w, "leaving") \/ (Goto(w, "running") /\ Active(w))
    BY <1>1, <1>7 DEF BeginJob, FinishJobRun, LosePermit, At
  <2> QED
    BY <1>0, <2>1, GotoMoves DEF WorkerSteps
<1> QED
  BY <1>2, <1>3, <1>4, <1>5, <1>6, <1>7 DEF WorkerStep

LEMMA StreamLocalStep ==
    ASSUME CoordinatorAssumption, Inv, NEW p \in Streams, StreamStep(p)
    PROVE  LocalStep
<1>0. [DbNext]_dbVars /\ p \in Procs
  BY StreamTransactions DEF Procs
<1>1. proc[p].pc \notin {"idle", "down"} => proc[p].run \in Runs
  BY <1>0 DEF Inv, ProcsKnowTheirRun
<1>2. CASE SubmitInline(p)
  <2> PICK r \in Runs : proc' = [proc EXCEPT ![p] = [Idle EXCEPT !.pc = "created", !.run = r]]
    BY <1>2 DEF SubmitInline
  <2> DEFINE row == [Idle EXCEPT !.pc = "created", !.run = r]
  <2>1. row \in ProcRow /\ row.pc = "created" /\ row.run = r /\ row.token = 0
    BY DEF Idle, ProcRow, StreamSteps, NoProof
  <2>2. Drops(p)
    BY <1>0, <2>1 DEF Drops, Inv, LocalTypeOK
  <2> QED
    BY <1>0, <1>2, <2>1, <2>2, OneProcMoves DEF SubmitInline
<1>3. CASE SubmitToWorkers(p)
  BY <1>0, <1>3, NoProcMoves DEF SubmitToWorkers
<1>4. CASE TakeInterrupt(p)
  <2> PICK s \in Sessions : /\ ClaimChatInterrupt(s, p)
                            /\ proc' = [proc EXCEPT ![p] = [pc |-> "claimed", run |-> interrupt[s].run,
                                            token |-> 0, proof |-> NoProof, holds |-> TRUE]]
    BY <1>4 DEF TakeInterrupt
  <2> DEFINE row == [pc |-> "claimed", run |-> interrupt[s].run, token |-> 0, proof |-> NoProof,
                     holds |-> TRUE]
  <2>1. interrupt[s].run \in Runs
    BY DEF ClaimChatInterrupt, Inv, DbInv, DbTypeOK, InterruptRow
  <2>2. row \in ProcRow /\ row.pc = "claimed" /\ row.token = 0
    BY <2>1 DEF ProcRow, StreamSteps, NoProof
  <2>3. Drops(p)
    BY <1>0, <2>2 DEF Drops, Inv, LocalTypeOK
  <2> QED
    BY <1>0, <1>4, <2>1, <2>2, <2>3, OneProcMoves DEF TakeInterrupt
<1>5. CASE VerifyProof(p)
  <2> DEFINE r == proc[p].run
             row == [proc[p] EXCEPT !.proof = ProofOf(r),
                        !.pc = IF exec[r].proof = NoProof THEN "unbound" ELSE "verified"]
  <2>1. r \in Runs /\ proc[p] \in ProcRow /\ ProofOf(r) \in Nat \ {0}
    BY <1>0, <1>1, <1>5 DEF VerifyProof, At, Inv, LocalTypeOK, DbInv, DbTypeOK, ProofOf
  <2>2. /\ row \in ProcRow
        /\ row.proof = ProofOf(r) /\ row.run = r /\ row.token = proc[p].token
        /\ row.pc \in {"unbound", "verified"}
    BY <2>1 DEF ProcRow, StreamSteps
  <2>3. proc' = [proc EXCEPT ![p] = row] /\ UNCHANGED saver /\ SameMode
    BY <1>5 DEF VerifyProof, dbVars
  <2>4. Keeps(p)
    BY <1>0, <2>2, <2>3 DEF Keeps, Inv, LocalTypeOK
  <2>5. row.proof \in 1..ProofOf(row.run)
    BY <2>1, <2>2
  <2> QED
    BY <1>0, <2>1, <2>2, <2>3, <2>4, <2>5, OneProcMoves
<1>6. CASE ClaimOwnRun(p) \/ ResumeRun(p)
  <2>1. proc[p].pc \in {"created", "verified"} /\ proc[p].run \in Runs
    BY <1>1, <1>6 DEF ClaimOwnRun, ResumeRun, At
  <2>2. exec'[proc[p].run].token = exec[proc[p].run].token + 1
    BY <1>6, <2>1 DEF ClaimOwnRun, ResumeRun, Claim, Resume, NewAttempt, Inv, DbInv, DbTypeOK
  <2> QED
    BY <1>0, <1>6, <2>1, <2>2, PermittedMoves DEF ClaimOwnRun, ResumeRun, StreamSteps
<1>7. CASE BindProof(p) \/ GiveUpResume(p) \/ ResumeByWorkers(p) \/ FinishStream(p)
             \/ PauseForApproval(p) \/ PauseForReview(p) \/ LoseStream(p)
  <2>1. proc[p].run \in Runs
    BY <1>1, <1>7 DEF BindProof, GiveUpResume, ResumeByWorkers, FinishStream, PauseForApproval,
       PauseForReview, LoseStream, At
  <2>2. SameMode /\ \E pc \in {"verified", "refused", "lost", "watching", "committed"} : Goto(p, pc)
    BY <1>7 DEF BindProof, GiveUpResume, ResumeByWorkers, FinishStream, PauseForApproval,
       PauseForReview, LoseStream
  <2> QED
    BY <1>0, <2>1, <2>2, GotoMoves DEF StreamSteps
<1>8. CASE DenyResume(p)
  <2>1. proc[p].run \in Runs /\ SameMode /\ (Goto(p, "watching") \/ GoIdle(p))
    BY <1>1, <1>8 DEF DenyResume, At
  <2> QED
    BY <1>0, <2>1, GotoMoves, GoIdleMoves DEF StreamSteps
<1>9. CASE ClaimOwnRunRefused(p) \/ WatchEnds(p) \/ StreamAcks(p) \/ StreamReleases(p)
             \/ StreamLeaves(p) \/ StreamDies(p)
  <2>1. GoIdle(p) /\ SameMode
    BY <1>9 DEF ClaimOwnRunRefused, WatchEnds, StreamAcks, StreamReleases, StreamLeaves, StreamDies
  <2> QED
    BY <1>0, <2>1, GoIdleMoves
<1> QED
  BY <1>2, <1>3, <1>4, <1>5, <1>6, <1>7, <1>8, <1>9 DEF StreamStep

LEMMA SwitchLocalStep ==
    ASSUME Inv, SwitchMode
    PROVE  LocalStep
<1>1. Idle \in ProcRow /\ Idle.pc = "idle" /\ Idle.token = 0
  BY DEF Idle, ProcRow, WorkerSteps, NoProof
<1>2. LocalTypeOK'
  BY <1>1 DEF SwitchMode, Inv, LocalTypeOK
<1>3. \A p \in Procs : proc'[p] = Idle \/ proc'[p] = proc[p]
  BY DEF SwitchMode
<1>4. ProcsKnowTheirRun'
  BY <1>1, <1>3 DEF SwitchMode, dbVars, Inv, ProcsKnowTheirRun, ProofOf
<1>5. PermitsMove
  BY <1>1, <1>3 DEF PermitsMove, Keeps, Drops
<1> QED
  BY <1>2, <1>4, <1>5 DEF LocalStep

LEMMA EveryLocalStep ==
    ASSUME CoordinatorAssumption, ExecutionAssumption, Inv, [Next]_vars
    PROVE  LocalStep
<1>0. [DbNext]_dbVars
  BY StepIsTransaction
<1>1. CASE UNCHANGED vars
  BY <1>0, <1>1, NoProcMoves DEF vars, SameMode
<1>2. CASE UNCHANGED proc /\ SameMode
  BY <1>0, <1>2, NoProcMoves
<1>3. ASSUME NEW p \in Procs, GraphStep(p)
      PROVE  LocalStep
  BY <1>2, <1>3 DEF GraphStep, PublishEvent, PersistSnapshot, PassApprovalGate, Checkpoint
<1>4. ASSUME NEW r \in Runs, UserCancels(r) \/ Reconcile(r) \/ ExpireExecution(r) \/ ExpireJob(r)
      PROVE  LocalStep
  BY <1>2, <1>4 DEF UserCancels, Reconcile, ExpireExecution, ExpireJob
<1>5. CASE Freeze
  BY <1>2, <1>5 DEF Freeze
<1> QED
  BY <1>1, <1>3, <1>4, <1>5, WorkerLocalStep, StreamLocalStep, SwitchLocalStep DEF Next

\* Tokens stay fenced whatever way permits move.
LEMMA TokensStayFenced ==
    ASSUME Inv, DbTypeOK', LocalStep, \A r \in Runs : FencesOwner(r)
    PROVE  TokensFenced'
<1>1. \A r \in Runs : /\ exec[r].token \in Nat
                      /\ exec'[r].token \in Nat
                      /\ exec'[r].token >= exec[r].token
  BY DEF Inv, DbInv, DbTypeOK, ExecRow, FencesOwner
<1>2. \A p \in Procs : proc[p].token \in Nat /\ proc'[p].token \in Nat
  BY DEF Inv, LocalStep, LocalTypeOK, ProcRow
<1>3. CASE \A p \in Procs : Keeps(p) \/ Drops(p)
  BY <1>1, <1>2, <1>3 DEF Keeps, Drops, Inv, TokensFenced
<1>4. ASSUME NEW a \in Procs, Gains(a), \A p \in Procs \ {a} : Keeps(p)
      PROVE  TokensFenced'
  <2> DEFINE r == proc[a].run
  <2>1. \A p \in Procs \ {a} : proc'[p].token # 0 /\ proc'[p].run = r => proc'[p].token < proc'[a].token
    BY <1>1, <1>2, <1>4 DEF Keeps, Gains, Inv, TokensFenced
  <2>2. ASSUME NEW p \in Procs, proc'[p].token # 0
        PROVE  proc'[p].run \in Runs /\ proc'[p].token <= exec'[proc'[p].run].token
    BY <1>1, <1>2, <1>4, <2>2 DEF Keeps, Gains, Inv, TokensFenced
  <2>3. ASSUME NEW p \in Procs, NEW q \in Procs, p # q, proc'[p].token # 0,
               proc'[p].run = proc'[q].run, proc'[p].token = proc'[q].token
        PROVE  FALSE
    <3>1. CASE p = a
      BY <1>2, <1>4, <2>1, <2>3, <3>1 DEF Gains
    <3>2. CASE q = a
      BY <1>2, <1>4, <2>1, <2>3, <3>2 DEF Gains
    <3>3. CASE p # a /\ q # a
      BY <1>4, <2>3, <3>3 DEF Keeps, Inv, TokensFenced
    <3> QED
      BY <3>1, <3>2, <3>3
  <2> QED
    BY <2>2, <2>3 DEF TokensFenced
<1> QED
  BY <1>3, <1>4 DEF LocalStep, PermitsMove

-----------------------------------------------------------------------------
(* The theorems.                                                           *)

LEMMA InvInit ==
    ASSUME CoordinatorAssumption, ExecutionAssumption, Init
    PROVE  Inv
<1>1. DbInv
  BY DbInvInit DEF Init
<1>2. Idle \in ProcRow /\ Idle.pc = "idle" /\ Idle.token = 0
  BY DEF Idle, ProcRow, WorkerSteps, NoProof
<1>3. LocalTypeOK /\ ProcsKnowTheirRun /\ TokensFenced
  BY <1>2 DEF Init, ExecutionAssumption, LocalTypeOK, ProcsKnowTheirRun, TokensFenced
<1> QED
  BY <1>1, <1>3 DEF Inv

LEMMA InvStep ==
    ASSUME CoordinatorAssumption, ExecutionAssumption, Inv, [Next]_vars
    PROVE  Inv'
<1>1. [DbNext]_dbVars
  BY StepIsTransaction
<1>2. DbInv'
  BY <1>1, DbInvStep DEF Inv
<1>3. \A r \in Runs : FencesOwner(r)
  BY <1>1, EveryRow DEF Inv, RowStep
<1>4. LocalStep
  BY EveryLocalStep
<1>5. TokensFenced'
  BY <1>2, <1>3, <1>4, TokensStayFenced DEF DbInv
<1> QED
  BY <1>2, <1>4, <1>5 DEF Inv, LocalStep

\* The coordinator's tables keep their promises and every permit in a
\* process's memory is either current or below the row's fencing token.
THEOREM Invariant == Spec => []Inv
<1>1. Init => Inv
  BY InvInit, CoordinatorAssumption, ExecutionAssumption
<1>2. Inv /\ [Next]_vars => Inv'
  BY InvStep, CoordinatorAssumption, ExecutionAssumption
<1> QED
  BY <1>1, <1>2, PTL DEF Spec

\* Every column and every process keeps a value the program knows.
THEOREM TypeCorrect == Spec => []TypeOK
<1>1. Inv => TypeOK
  BY DEF Inv, DbInv, LocalTypeOK, TypeOK
<1> QED
  BY <1>1, Invariant, PTL

\* Workers, streams, users and the reconciler write the tables only through
\* the coordinator's transactions (agent_worker.py, runtime.py, chat.py).
THEOREM ImplementsCoordinator == Spec => DbSpec
<1>1. Init => DbInit
  BY DEF Init
<1>2. Inv /\ [Next]_vars => [DbNext]_dbVars
  BY StepIsTransaction, CoordinatorAssumption, ExecutionAssumption
<1> QED
  BY <1>1, <1>2, Invariant, PTL DEF Spec, DbSpec

\* Two processes never both pass require_active for one run.
THEOREM OnePermitPerRun == Spec => []OneActivePermit
<1>1. Inv => OneActivePermit
  BY DEF Inv, TokensFenced, OneActivePermit, Active, RequireActive
<1> QED
  BY <1>1, Invariant, PTL

\* A running attempt that was fenced out stays out.
THEOREM LostPermitsStayLost == Spec => FencedForever
<1>1. ASSUME Inv, [Next]_vars, NEW p \in Procs, At(p, "running"), At(p, "running")', ~Active(p)
      PROVE  ~Active(p)'
  <2>1. Inv' /\ LocalStep /\ \A q \in Runs : FencesOwner(q)
    BY <1>1, InvStep, StepIsTransaction, EveryLocalStep, EveryRow, CoordinatorAssumption,
       ExecutionAssumption DEF Inv, RowStep
  <2>2. Keeps(p) \/ Drops(p)
    BY <1>1, <2>1 DEF LocalStep, PermitsMove, Gains, At
  <2>3. CASE Drops(p)
    BY <2>3 DEF Drops, Active
  <2>4. CASE Keeps(p) /\ proc[p].token # 0
    <3>1. PICK r \in Runs : r = proc[p].run
      BY <1>1, <2>4 DEF Inv, TokensFenced, LocalTypeOK, ProcRow
    <3>2. proc[p].token \in Nat /\ proc[p].token <= exec[r].token
      BY <1>1, <2>4, <3>1 DEF Inv, TokensFenced, LocalTypeOK, ProcRow
    <3>3. exec[r].token \in Nat /\ exec'[r].token \in Nat
      BY <1>1, <2>1, <3>1 DEF Inv, DbInv, DbTypeOK, ExecRow
    <3>4. Active(p) <=> Holdable(r) /\ exec[r].token = proc[p].token
      BY <2>4, <3>1 DEF Active, RequireActive, Holdable
    <3>5. proc'[p].run = r /\ proc'[p].token = proc[p].token
      BY <2>4, <3>1 DEF Keeps
    <3>6. Active(p)' => Holdable(r)' /\ exec'[r].token = proc[p].token
      BY <3>5 DEF Active, RequireActive, Holdable, Terminal
    <3>7. \/ exec'[r].token > exec[r].token
          \/ exec'[r].token = exec[r].token /\ (Holdable(r)' => Holdable(r))
      BY <2>1 DEF FencesOwner
    <3> QED
      BY <1>1, <3>2, <3>3, <3>4, <3>6, <3>7
  <2>5. CASE Keeps(p) /\ proc[p].token = 0
    BY <2>5 DEF Keeps, Active
  <2> QED
    BY <2>2, <2>3, <2>4, <2>5
<1>2. Inv /\ [Next]_vars =>
        [\A p \in Procs : At(p, "running") /\ At(p, "running")' /\ ~Active(p) => ~Active(p)']_vars
  BY <1>1
<1> QED
  BY <1>2, Invariant, PTL DEF Spec, FencedForever

\* The promises of the coordinator hold of the whole execution system.
THEOREM ExecutionKeepsPromises ==
    Spec => [](OneLiveRunPerSession /\ ClosedTogether) /\ TerminalIsFinal
<1>1. DbSpec => [](OneLiveRunPerSession /\ ClosedTogether) /\ TerminalIsFinal
  BY SessionHasOneLiveRun, RunsCloseTogether, TerminalRunsStand, PTL
<1> QED
  BY <1>1, ImplementsCoordinator

-----------------------------------------------------------------------------
(* The permits implement the ownership of RunOwnership.                     *)

\* Before and after a step the invariant holds, and no row loses its fence.
StepFacts == Inv /\ Inv' /\ \A r \in Runs : FencesOwner(r)

\* The owner of a run is the one process with an active permit for it.
LEMMA OwnerBefore ==
    ASSUME CoordinatorAssumption, Inv, NEW r \in Runs
    PROVE  /\ OwnerOf(r) # Nobody => /\ OwnerOf(r) \in Procs
                                     /\ Active(OwnerOf(r))
                                     /\ proc[OwnerOf(r)].run = r
           /\ \A p \in Procs : Active(p) /\ proc[p].run = r => OwnerOf(r) = p
<1>1. \A p, q \in Procs : Active(p) /\ Active(q) /\ proc[p].run = r /\ proc[q].run = r => p = q
  BY DEF Inv, TokensFenced, Active, RequireActive
<1>2. Nobody \notin Procs
  BY DEF CoordinatorAssumption, Procs
<1> QED
  BY <1>1, <1>2 DEF OwnerOf

LEMMA OwnerAfter ==
    ASSUME CoordinatorAssumption, Inv', NEW r \in Runs
    PROVE  /\ OwnerOf(r)' # Nobody => /\ OwnerOf(r)' \in Procs
                                      /\ \E p \in Procs : p = OwnerOf(r)' /\ Active(p)' /\ proc'[p].run = r
           /\ \A p \in Procs : Active(p)' /\ proc'[p].run = r => OwnerOf(r)' = p
<1>1. \A p, q \in Procs : Active(p)' /\ Active(q)' /\ proc'[p].run = r /\ proc'[q].run = r => p = q
  BY DEF Inv, TokensFenced, Active, RequireActive
<1>2. Nobody \notin Procs
  BY DEF CoordinatorAssumption, Procs
<1> QED
  BY <1>1, <1>2 DEF OwnerOf

\* An owned run can be held, and is open.
LEMMA OwnedIsOpen ==
    ASSUME CoordinatorAssumption, Inv, NEW r \in Runs, OwnerOf(r) # Nobody
    PROVE  Holdable(r)
  BY OwnerBefore DEF Active, RequireActive, Holdable

LEMMA OwnedStaysOpen ==
    ASSUME CoordinatorAssumption, Inv', NEW r \in Runs, OwnerOf(r)' # Nobody
    PROVE  Holdable(r)'
  BY OwnerAfter DEF Active, RequireActive, Holdable, Terminal

\* Nobody is handed a permit for r; nobody who has one gives it back.
NoneGains(r)   == \A p \in Procs : proc'[p].token # 0 /\ proc'[p].run = r => Keeps(p)
OwnerKeeps(r) == \A p \in Procs : proc[p].token # 0 /\ proc[p].run = r => Keeps(p)

\* Without a new permit a run keeps its owner or loses it.
LEMMA OwnersOnlyLeave ==
    ASSUME CoordinatorAssumption, StepFacts, NEW r \in Runs, NoneGains(r)
    PROVE  OwnerOf(r)' \in {OwnerOf(r), Nobody}
<1> SUFFICES ASSUME OwnerOf(r)' # Nobody
             PROVE  OwnerOf(r)' = OwnerOf(r)
  OBVIOUS
<1>1. PICK p \in Procs : p = OwnerOf(r)' /\ Active(p)' /\ proc'[p].run = r
  BY OwnerAfter DEF StepFacts
<1>2. Keeps(p) /\ proc[p].run = r /\ proc[p].token # 0
  BY <1>1 DEF NoneGains, Keeps, Active
<1>3. exec'[r].token = proc[p].token /\ Holdable(r)'
  BY <1>1, <1>2 DEF Keeps, Active, RequireActive, Holdable, Terminal
<1>4. /\ proc[p].token \in Nat /\ exec[r].token \in Nat /\ exec'[r].token \in Nat
      /\ proc[p].token <= exec[r].token
  BY <1>2 DEF StepFacts, Inv, LocalTypeOK, ProcRow, TokensFenced, DbInv, DbTypeOK, ExecRow
<1>5. exec[r].token = proc[p].token /\ Holdable(r)
  BY <1>3, <1>4 DEF StepFacts, FencesOwner
<1>6. Active(p)
  BY <1>2, <1>5 DEF Active, RequireActive, Holdable
<1> QED
  BY <1>1, <1>2, <1>6, OwnerBefore DEF StepFacts

\* A step beside the row of a run and the permit of its owner changes neither
\* its verdict nor its owner nor its epoch.
Still(r) == /\ VerdictOf(r)' = VerdictOf(r)
            /\ OwnerOf(r)' = OwnerOf(r)
            /\ exec'[r].token = exec[r].token

LEMMA BesideIsStill ==
    ASSUME CoordinatorAssumption, StepFacts, NEW r \in Runs, SameRow(r), NoneGains(r), OwnerKeeps(r)
    PROVE  Still(r)
<1>1. VerdictOf(r)' = VerdictOf(r) /\ exec'[r].token = exec[r].token
  BY DEF SameRow, VerdictOf, Live
<1>2. CASE OwnerOf(r) = Nobody
  BY <1>1, <1>2, OwnersOnlyLeave DEF Still
<1>3. ASSUME NEW p \in Procs, p = OwnerOf(r), Active(p), proc[p].run = r
      PROVE  Still(r)
  <2>1. Keeps(p)
    BY <1>3 DEF OwnerKeeps, Active
  <2>2. Active(p)' /\ proc'[p].run = r
    BY <1>3, <2>1 DEF Keeps, Active, RequireActive, Terminal, SameRow
  <2> QED
    BY <1>1, <1>3, <2>2, OwnerAfter DEF StepFacts, Still
<1> QED
  BY <1>2, <1>3, OwnerBefore DEF StepFacts

-----------------------------------------------------------------------------
(* From what happens to one run to the actions of RunOwnership.             *)

\* Verdicts and epochs stand still.
Quiet(r) == VerdictOf(r)' = VerdictOf(r) /\ exec'[r].token = exec[r].token

\* What a run goes through: the abstract action, seen from its run.
Opened(r)    == /\ VerdictOf(r) = "unborn" /\ VerdictOf(r)' = "open"
                /\ OwnerOf(r)' = OwnerOf(r) /\ exec'[r].token = exec[r].token
Granted(r)   == /\ VerdictOf(r) = "open" /\ VerdictOf(r)' = "open"
                /\ OwnerOf(r) = Nobody /\ OwnerOf(r)' \in Procs
                /\ exec'[r].token = exec[r].token + 1
Fenced(r)    == /\ VerdictOf(r) = "open" /\ VerdictOf(r)' = "open"
                /\ OwnerOf(r) = Nobody /\ OwnerOf(r)' = Nobody
                /\ exec'[r].token = exec[r].token + 1
Answered(r)  == /\ VerdictOf(r) = "open" /\ VerdictOf(r)' \in FinishStatuses
                /\ OwnerOf(r) # Nobody /\ OwnerOf(r)' = Nobody
                /\ exec'[r].token = exec[r].token
GivenUp(r)   == /\ VerdictOf(r) = "open" /\ VerdictOf(r)' = "NEEDS_REVIEW"
                /\ OwnerOf(r) = Nobody /\ OwnerOf(r)' = Nobody
                /\ exec'[r].token = exec[r].token + 1
Cancelled(r) == /\ VerdictOf(r) = "open" /\ VerdictOf(r)' = "CANCELLED"
                /\ OwnerOf(r)' = Nobody /\ exec'[r].token = exec[r].token

\* Permits lost in one step, of any number of runs.
LEMMA LossMaps ==
    ASSUME \A r \in Runs : Quiet(r) /\ OwnerOf(r)' \in {OwnerOf(r), Nobody}
    PROVE  Ownership!Next
<1> DEFINE R == {r \in Runs : OwnerOf(r)' # OwnerOf(r)}
<1>1. PICK L \in SUBSET Runs : L = R
  OBVIOUS
<1>2. Ownership!Lose(L)
  BY <1>1 DEF Ownership!Lose, Quiet
<1> QED
  BY <1>2 DEF Ownership!Next

\* Everything else happens to one run.
LEMMA OneRunMaps ==
    ASSUME NEW r \in Runs, \A q \in Runs \ {r} : Still(q),
           Opened(r) \/ Granted(r) \/ Fenced(r) \/ Answered(r) \/ GivenUp(r) \/ Cancelled(r)
    PROVE  Ownership!Next
<1> USE DEF Still
<1>1. CASE Opened(r)
  <2>1. Ownership!Open(r)
    BY <1>1 DEF Opened, Ownership!Open
  <2> QED
    BY <2>1 DEF Ownership!Next
<1>2. CASE Granted(r)
  <2>1. PICK p \in Procs : p = OwnerOf(r)'
    BY <1>2 DEF Granted
  <2>2. Ownership!Grant(r, p)
    BY <1>2, <2>1 DEF Granted, Ownership!Grant
  <2> QED
    BY <2>2 DEF Ownership!Next
<1>3. CASE Fenced(r)
  <2>1. Ownership!Fence(r)
    BY <1>3 DEF Fenced, Ownership!Fence
  <2> QED
    BY <2>1 DEF Ownership!Next
<1>4. CASE Answered(r)
  <2>1. PICK a \in Ownership!Answers : a = VerdictOf(r)'
    BY <1>4 DEF Answered, FinishStatuses, Ownership!Answers
  <2>2. VerdictOf(r) = "open" /\ VerdictOf(r)' = a /\ OwnerOf(r)' = Nobody
    BY <1>4, <2>1 DEF Answered
  <2> HIDE <2>1
  <2>3. Ownership!Close(r, a)
    BY <2>2 DEF Ownership!Close
  <2>4. Ownership!Answer(r)
    BY <1>4, <2>3 DEF Answered, Ownership!Answer
  <2> QED
    BY <2>4 DEF Ownership!Next
<1>5. CASE GivenUp(r)
  <2>1. Ownership!GiveUp(r)
    BY <1>5 DEF GivenUp, Ownership!GiveUp, Ownership!Close
  <2> QED
    BY <2>1 DEF Ownership!Next
<1>6. CASE Cancelled(r)
  <2>1. Ownership!Cancel(r)
    BY <1>6 DEF Cancelled, Ownership!Cancel, Ownership!Close
  <2> QED
    BY <2>1 DEF Ownership!Next
<1> QED
  BY <1>1, <1>2, <1>3, <1>4, <1>5, <1>6

-----------------------------------------------------------------------------
(* Which transaction does what.                                            *)

\* Only processes that work on r, or on nothing, change their permit.
MovesFor(r) ==
    \A p \in Procs : \/ Keeps(p)
                     \/ /\ proc[p].token = 0 \/ proc[p].run = r
                        /\ proc'[p].token = 0 \/ proc'[p].run = r

LEMMA OthersAreStill ==
    ASSUME CoordinatorAssumption, StepFacts, NEW r \in Runs, MovesFor(r),
           \/ PermitTransaction(r, exec[r].token)
           \/ ClaimTransaction(r)
           \/ OwnerlessTransaction(r)
    PROVE  \A q \in Runs \ {r} : Still(q)
<1> SUFFICES ASSUME NEW q \in Runs, q # r
             PROVE  Still(q)
  OBVIOUS
<1>1. SameRow(q)
  BY OtherRows DEF StepFacts, Inv, DbInv
<1>2. NoneGains(q) /\ OwnerKeeps(q)
  BY DEF MovesFor, NoneGains, OwnerKeeps
<1> QED
  BY <1>1, <1>2, BesideIsStill

\* Steps that leave verdicts and epochs alone can only lose permits.
LEMMA QuietMaps ==
    ASSUME CoordinatorAssumption, StepFacts, LocalStep, \A r \in Runs : Quiet(r)
    PROVE  Ownership!Next
<1>1. \A r \in Runs : exec[r].token \in Nat
  BY DEF StepFacts, Inv, DbInv, DbTypeOK, ExecRow
<1>2. \A p \in Procs : ~Gains(p)
  BY <1>1 DEF Gains, Quiet
<1>3. \A r \in Runs : NoneGains(r)
  BY <1>2 DEF LocalStep, PermitsMove, Drops, NoneGains
<1> QED
  BY <1>3, OwnersOnlyLeave, LossMaps

\* Of an open run.
LEMMA OpenVerdict ==
    ASSUME DbTypeOK, NEW r \in Runs
    PROVE  Live(r) => VerdictOf(r) = "open"
  BY DEF VerdictOf, Live, Unfinished

LEMMA OpenVerdictAfter ==
    ASSUME NEW r \in Runs
    PROVE  Live(r)' => VerdictOf(r)' = "open"
  BY DEF VerdictOf, Live, Unfinished

LEMMA NotAbsentIsLive ==
    ASSUME DbInv, NEW r \in Runs, exec[r].state # "ABSENT", ~Terminal(r)
    PROVE  Live(r)
  BY DEF DbInv, DbTypeOK, RunStatuses, Unfinished, RowInv, AbsentIsEmpty, Live, Terminal

\* claim, resume and claim_job hand the run to the process that calls them.
LEMMA GrantMaps ==
    ASSUME CoordinatorAssumption, StepFacts, NEW p \in Procs, NEW pc, proc[p].run \in Runs,
           Permitted(p, pc),
           \/ Claim(proc[p].run)
           \/ \E proof \in Nat : Resume(proc[p].run, proof)
           \/ \E w \in Workers : ClaimJobFresh(proc[p].run, w) \/ ClaimJobTakeover(proc[p].run, w)
    PROVE  Ownership!Next
<1>1. PICK r \in Runs : r = proc[p].run
  OBVIOUS
<1>2. /\ Live(r) /\ run'[r] = run[r] /\ ~Holdable(r)
      /\ NewAttempt(r, "valid")
      /\ ClaimTransaction(r)
  BY <1>1, NotAbsentIsLive DEF StepFacts, Inv, Claim, Resume, Resumable, ClaimJobFresh, ClaimJobTakeover,
     Claimable, LeaseValid, Holdable, ClaimTransaction
<1>3. exec'[r].token = exec[r].token + 1 /\ exec[r].token \in Nat /\ exec'[r].state = "RUNNING"
        /\ exec'[r].lease = "valid"
  BY <1>2 DEF NewAttempt, StepFacts, Inv, DbInv, DbTypeOK, ExecRow
<1>4. /\ proc'[p].token = exec'[r].token /\ proc'[p].run = r
      /\ \A q \in Procs \ {p} : proc'[q] = proc[q]
  BY <1>1 DEF Permitted, StepFacts, Inv, LocalTypeOK, ProcRow
<1>5. MovesFor(r)
  BY <1>1, <1>4 DEF MovesFor, Keeps
<1>6. \A q \in Runs \ {r} : Still(q)
  BY <1>2, <1>5, OthersAreStill
<1>7. Active(p)'
  BY <1>2, <1>3, <1>4 DEF Active, RequireActive, Terminal, Live, Unfinished, PublicTerminal, FinishStatuses
<1>8. OwnerOf(r) = Nobody /\ OwnerOf(r)' = p
  BY <1>2, <1>4, <1>7, OwnedIsOpen, OwnerAfter DEF StepFacts
<1>9. VerdictOf(r) = "open" /\ VerdictOf(r)' = "open"
  BY <1>2, OpenVerdict, OpenVerdictAfter DEF StepFacts, Inv, DbInv, Live
<1>10. Granted(r)
  BY <1>3, <1>8, <1>9 DEF Granted
<1> QED
  BY <1>6, <1>10, OneRunMaps

\* An expired or handed-back attempt gets a token that nobody holds.
LEMMA FenceMaps ==
    ASSUME CoordinatorAssumption, StepFacts, NEW r \in Runs, MovesFor(r),
           ResumeForWorker(r) \/ \E b \in BOOLEAN : ReconcileExpired(r, b)
    PROVE  Ownership!Next
<1>1. /\ Live(r) /\ run'[r] = run[r] /\ ~Holdable(r)
      /\ ClaimTransaction(r) \/ OwnerlessTransaction(r)
  BY DEF ResumeForWorker, ReconcileExpired, Holdable, ClaimTransaction, OwnerlessTransaction
<1>2. exec'[r].token = exec[r].token + 1 /\ ~Holdable(r)'
  BY DEF StepFacts, Inv, DbInv, DbTypeOK, ResumeForWorker, ReconcileExpired, NewAttempt, Holdable
<1>3. OwnerOf(r) = Nobody /\ OwnerOf(r)' = Nobody
  BY <1>1, <1>2, OwnedIsOpen, OwnedStaysOpen DEF StepFacts
<1>4. VerdictOf(r) = "open" /\ VerdictOf(r)' = "open"
  BY <1>1, OpenVerdict, OpenVerdictAfter DEF StepFacts, Inv, DbInv, Live
<1>5. Fenced(r)
  BY <1>2, <1>3, <1>4 DEF Fenced
<1> QED
  BY <1>1, <1>5, OthersAreStill, OneRunMaps

\* A terminal run is its own verdict.
LEMMA TerminalVerdictAfter ==
    ASSUME NEW r \in Runs, run'[r] \in PublicTerminal
    PROVE  VerdictOf(r)' = run'[r] /\ ~Holdable(r)'
  BY DEF VerdictOf, Live, Unfinished, PublicTerminal, FinishStatuses, Holdable, Terminal

\* The recovery limit closes a run that nobody owns.
LEMMA GiveUpMaps ==
    ASSUME CoordinatorAssumption, StepFacts, NEW r \in Runs, MovesFor(r), PauseRecoveryLimit(r)
    PROVE  Ownership!Next
<1>1. Live(r) /\ ~Holdable(r) /\ ClaimTransaction(r)
  BY NotAbsentIsLive DEF StepFacts, Inv, PauseRecoveryLimit, Claimable, LeaseValid, Holdable, ClaimTransaction
<1>2. exec'[r].token = exec[r].token + 1 /\ run'[r] = "NEEDS_REVIEW"
  BY DEF StepFacts, Inv, DbInv, DbTypeOK, PauseRecoveryLimit
<1>3. VerdictOf(r)' = "NEEDS_REVIEW" /\ ~Holdable(r)'
  BY <1>2, TerminalVerdictAfter DEF PublicTerminal, FinishStatuses
<1>4. OwnerOf(r) = Nobody /\ OwnerOf(r)' = Nobody
  BY <1>1, <1>3, OwnedIsOpen, OwnedStaysOpen DEF StepFacts
<1>5. GivenUp(r)
  BY <1>1, <1>2, <1>3, <1>4, OpenVerdict DEF GivenUp, StepFacts, Inv, DbInv
<1> QED
  BY <1>1, <1>5, OthersAreStill, OneRunMaps

\* cancel closes a run whoever owns it.
LEMMA CancelMaps ==
    ASSUME CoordinatorAssumption, StepFacts, NEW r \in Runs, MovesFor(r), Cancel(r)
    PROVE  Ownership!Next
<1>1. Live(r) /\ OwnerlessTransaction(r)
  BY DEF Cancel, OwnerlessTransaction
<1>2. exec'[r].token = exec[r].token /\ run'[r] = "CANCELLED"
  BY DEF StepFacts, Inv, DbInv, DbTypeOK, Cancel
<1>3. VerdictOf(r)' = "CANCELLED" /\ ~Holdable(r)'
  BY <1>2, TerminalVerdictAfter DEF PublicTerminal
<1>4. Cancelled(r)
  BY <1>1, <1>2, <1>3, OpenVerdict, OwnedStaysOpen DEF Cancelled, StepFacts, Inv, DbInv
<1> QED
  BY <1>1, <1>4, OthersAreStill, OneRunMaps

\* finish publishes the answer of the run's owner.
LEMMA FinishMaps ==
    ASSUME CoordinatorAssumption, StepFacts, NEW p \in Procs, proc[p].run \in Runs, proc[p].token # 0,
           MovesFor(proc[p].run), NEW o \in FinishStatuses, Finish(proc[p].run, proc[p].token, o)
    PROVE  Ownership!Next
<1>1. PICK r \in Runs : r = proc[p].run
  OBVIOUS
<1>2. Active(p) /\ exec[r].token = proc[p].token
  BY <1>1 DEF Finish, Active, RequireActive
<1>3. OwnerOf(r) = p /\ p # Nobody
  BY <1>1, <1>2, OwnerBefore DEF StepFacts, CoordinatorAssumption, Procs
<1>4. Live(r) /\ PermitTransaction(r, exec[r].token)
  BY <1>1, <1>2, NotAbsentIsLive DEF StepFacts, Inv, Active, RequireActive, PermitTransaction
<1>5. exec'[r].token = exec[r].token /\ run'[r] = o
  BY <1>1 DEF StepFacts, Inv, DbInv, DbTypeOK, Finish
<1>6. VerdictOf(r)' = o /\ ~Holdable(r)'
  BY <1>5, TerminalVerdictAfter DEF PublicTerminal
<1>7. Answered(r)
  BY <1>3, <1>4, <1>5, <1>6, OpenVerdict, OwnedStaysOpen DEF Answered, StepFacts, Inv, DbInv
<1> QED
  BY <1>1, <1>4, <1>7, OthersAreStill, OneRunMaps

\* start_harness_turn opens a run that nobody owns yet, with its epoch at 0.
LEMMA StartMaps ==
    ASSUME CoordinatorAssumption, StepFacts, NEW r \in Runs, MovesFor(r), NEW withJob \in BOOLEAN,
           StartHarnessTurn(r, withJob)
    PROVE  Ownership!Next
<1>1. run[r] = "ABSENT" /\ OwnerlessTransaction(r)
  BY DEF StartHarnessTurn, OwnerlessTransaction
<1>2. exec[r].token = 0 /\ ~Holdable(r)
  BY <1>1 DEF StepFacts, Inv, DbInv, RowInv, AbsentIsEmpty, Holdable
<1>3. exec'[r].token = 0 /\ ~Holdable(r)' /\ Live(r)'
  BY DEF StepFacts, Inv, DbInv, DbTypeOK, StartHarnessTurn, Holdable, Live, Unfinished
<1>4. OwnerOf(r) = Nobody /\ OwnerOf(r)' = Nobody
  BY <1>2, <1>3, OwnedIsOpen, OwnedStaysOpen DEF StepFacts
<1>5. VerdictOf(r) = "unborn" /\ VerdictOf(r)' = "open"
  BY <1>1, <1>3, OpenVerdictAfter DEF VerdictOf, Live, Unfinished
<1>6. Opened(r)
  BY <1>2, <1>3, <1>4, <1>5 DEF Opened
<1> QED
  BY <1>1, <1>6, OthersAreStill, OneRunMaps

\* The rollback takes the Supervisor's live runs from their owners at once.
LEMMA FreezeMaps ==
    ASSUME CoordinatorAssumption, StepFacts, FreezeInFlightRuns, UNCHANGED proc
    PROVE  Ownership!Next
<1> DEFINE R == {r \in Runs : RuntimeOf[r] = "agent-supervisor" /\ Live(r)}
<1>1. PICK F \in SUBSET Runs : F = R
  OBVIOUS
<1>2. \A r \in Runs : NoneGains(r) /\ OwnerKeeps(r)
  BY DEF NoneGains, OwnerKeeps, Keeps
<1>3. ASSUME NEW r \in Runs, r \notin F
      PROVE  Still(r)
  <2>1. SameRow(r)
    BY <1>1, <1>3 DEF FreezeInFlightRuns, SameRow
  <2> QED
    BY <1>2, <2>1, BesideIsStill
<1>4. ASSUME NEW r \in Runs, r \in F
      PROVE  /\ VerdictOf(r) = "open" /\ VerdictOf(r)' = "ROLLBACK_FROZEN"
             /\ OwnerOf(r)' = Nobody /\ exec'[r].token = exec[r].token
  <2>1. Live(r) /\ run'[r] = "ROLLBACK_FROZEN" /\ exec'[r] = exec[r]
    BY <1>1, <1>4 DEF FreezeInFlightRuns
  <2>2. VerdictOf(r)' = "ROLLBACK_FROZEN" /\ ~Holdable(r)'
    BY <2>1, TerminalVerdictAfter DEF PublicTerminal
  <2> QED
    BY <2>1, <2>2, OpenVerdict, OwnedStaysOpen DEF StepFacts, Inv, DbInv
<1>5. Ownership!Freeze(F)
  BY <1>3, <1>4 DEF Ownership!Freeze, Still
<1> QED
  BY <1>5 DEF Ownership!Next

\* The transactions that neither open, grant, fence nor close a run.
QuietPermit(r, token) ==
    \/ AppendHarnessEvent(r, token)
    \/ PersistHarnessSnapshot(r, token)
    \/ \E status \in SnapshotStatuses : PersistSupervisorSnapshot(r, token, status)
    \/ \E approved \in BOOLEAN : DecideActionProposals(r, token, approved)
    \/ ConsumeRecoveryCheckpoint(r, token)
    \/ \E reason \in {"waiting_approval", "needs_review"} : Pause(r, token, reason)

QuietOfRun(r) ==
    \/ \E token \in Nat : QuietPermit(r, token)
    \/ ClaimJobOfClosedRun(r)
    \/ \E proof \in 1..ProofOf(r) : BindRecoveredCheckpoint(r, proof)
    \/ ExpireExecutionLease(r)
    \/ ExpireJobLease(r)
    \/ SaverAdvance(r)

QuietTransaction ==
    \/ UNCHANGED dbVars
    \/ \E r \in Runs : QuietOfRun(r)
    \/ \E s \in Sessions, p \in Streams : InterruptTransaction(s, p)

LEMMA SameRowIsQuiet ==
    ASSUME NEW r \in Runs, run'[r] = run[r], exec'[r].token = exec[r].token
    PROVE  Quiet(r)
  BY DEF Quiet, VerdictOf, Live

LEMMA QuietPermits ==
    ASSUME DbInv, NEW r \in Runs, NEW token \in Nat, QuietPermit(r, token)
    PROVE  Quiet(r) /\ PermitTransaction(r, exec[r].token)
<1>1. RequireActive(r, token)
  BY DEF QuietPermit, AppendHarnessEvent, PersistHarnessSnapshot, ConsumeRecoveryCheckpoint,
     PersistSupervisorSnapshot, DecideActionProposals, Pause
<1>2. Live(r) /\ token = exec[r].token
  BY <1>1, NotAbsentIsLive DEF RequireActive
<1>3. PermitTransaction(r, exec[r].token)
  BY <1>2 DEF QuietPermit, PermitTransaction
<1>4. exec'[r].token = exec[r].token
  BY DEF DbInv, DbTypeOK, ExecRow, QuietPermit, AppendHarnessEvent, PersistHarnessSnapshot,
     PersistSupervisorSnapshot, DecideActionProposals, ConsumeRecoveryCheckpoint, Pause
<1>5. run'[r] \in Unfinished
  BY <1>2 DEF DbInv, DbTypeOK, Live, Unfinished, QuietPermit, AppendHarnessEvent,
     PersistHarnessSnapshot, PersistSupervisorSnapshot, DecideActionProposals,
     ConsumeRecoveryCheckpoint, Pause
<1>6. VerdictOf(r) = "open" /\ VerdictOf(r)' = "open"
  BY <1>2, <1>5, OpenVerdict, OpenVerdictAfter DEF DbInv, Live
<1> QED
  BY <1>3, <1>4, <1>6 DEF Quiet

LEMMA QuietTransactions ==
    ASSUME CoordinatorAssumption, DbInv, QuietTransaction
    PROVE  \A q \in Runs : Quiet(q)
<1>1. CASE UNCHANGED dbVars
  BY <1>1, SameRowIsQuiet DEF dbVars
<1>2. ASSUME NEW s \in Sessions, NEW p \in Streams, InterruptTransaction(s, p)
      PROVE  \A q \in Runs : Quiet(q)
  BY <1>2, SameRowIsQuiet DEF InterruptTransaction, ClaimChatInterrupt, AckChatInterrupt,
     ReleaseChatInterrupt
<1>3. ASSUME NEW r \in Runs, QuietOfRun(r), NEW q \in Runs
      PROVE  Quiet(q)
  <2>1. CASE \E token \in Nat : QuietPermit(r, token)
    BY <2>1, QuietPermits, OtherRows, SameRowIsQuiet DEF DbInv, SameRow
  <2>2. CASE ClaimJobOfClosedRun(r) \/ ExpireJobLease(r) \/ SaverAdvance(r)
    BY <2>2, SameRowIsQuiet DEF ClaimJobOfClosedRun, ExpireJobLease, SaverAdvance
  <2>3. CASE \E proof \in 1..ProofOf(r) : BindRecoveredCheckpoint(r, proof)
    <3>1. run' = run /\ exec'[q].token = exec[q].token
      BY <2>3 DEF DbInv, DbTypeOK, ExecRow, BindRecoveredCheckpoint
    <3> QED
      BY <3>1, SameRowIsQuiet
  <2>4. CASE ExpireExecutionLease(r)
    <3>1. run' = run /\ exec'[q].token = exec[q].token
      BY <2>4 DEF DbInv, DbTypeOK, ExecRow, ExpireExecutionLease
    <3> QED
      BY <3>1, SameRowIsQuiet
  <2> QED
    BY <1>3, <2>1, <2>2, <2>3, <2>4 DEF QuietOfRun
<1> QED
  BY <1>1, <1>2, <1>3 DEF QuietTransaction

-----------------------------------------------------------------------------
(* Every step maps to a step of RunOwnership.                              *)

LEMMA QuietStepMaps ==
    ASSUME CoordinatorAssumption, StepFacts, LocalStep, QuietTransaction
    PROVE  Ownership!Next
  BY QuietTransactions, QuietMaps DEF StepFacts, Inv

\* The steps of a process move its own permit only.
LEMMA OwnMoves ==
    ASSUME Inv, NEW p \in Procs,
           GoIdle(p) \/ \E pc \in WorkerSteps \cup StreamSteps : Goto(p, pc)
    PROVE  MovesFor(proc[p].run)
<1>1. CASE GoIdle(p)
  BY <1>1 DEF GoIdle, Idle, Inv, LocalTypeOK, MovesFor, Keeps
<1>2. ASSUME NEW pc \in WorkerSteps \cup StreamSteps, Goto(p, pc)
      PROVE  MovesFor(proc[p].run)
  <2>1. proc'[p] = [proc[p] EXCEPT !.pc = pc] /\ \A q \in Procs \ {p} : proc'[q] = proc[q]
    BY <1>2 DEF Goto, Inv, LocalTypeOK
  <2>2. proc'[p].run = proc[p].run /\ proc'[p].token = proc[p].token
    BY <2>1 DEF Inv, LocalTypeOK, ProcRow
  <2> QED
    BY <2>1, <2>2 DEF MovesFor, Keeps
<1> QED
  BY <1>1, <1>2

LEMMA WorkerMaps ==
    ASSUME CoordinatorAssumption, StepFacts, LocalStep, NEW w \in Workers, WorkerStep(w)
    PROVE  Ownership!Next
<1> DEFINE r == proc[w].run
<1>0. w \in Procs
  BY DEF Procs
<1>1. /\ proc[w].pc \notin {"idle", "down"} => r \in Runs
      /\ proc[w].pc \in {"leased", "running"} => proc[w].token # 0
  BY <1>0 DEF StepFacts, Inv, ProcsKnowTheirRun
<1>2. CASE ClaimNothing(w)
  <2>1. r \in Runs /\ GoIdle(w)
    BY <1>1, <1>2 DEF ClaimNothing, At
  <2>2. CASE PauseRecoveryLimit(r)
    BY <1>0, <2>1, <2>2, OwnMoves, GiveUpMaps DEF StepFacts
  <2>3. CASE ClaimJobOfClosedRun(r) \/ UNCHANGED dbVars
    BY <2>1, <2>3, QuietStepMaps DEF QuietTransaction, QuietOfRun
  <2> QED
    BY <1>2, <2>2, <2>3 DEF ClaimNothing, ClaimJobHeld, ClaimJobMissed
<1>3. CASE ClaimJob(w)
  <2>1. r \in Runs /\ Permitted(w, "leased")
    BY <1>1, <1>3 DEF ClaimJob, At
  <2> QED
    BY <1>0, <1>3, <2>1, GrantMaps DEF ClaimJob
<1>4. CASE ConsumeProof(w)
  <2>1. r \in Runs /\ ConsumeRecoveryCheckpoint(r, proc[w].token) /\ proc[w].token \in Nat
    BY <1>0, <1>1, <1>4 DEF ConsumeProof, At, StepFacts, Inv, LocalTypeOK, ProcRow
  <2> QED
    BY <2>1, QuietStepMaps DEF QuietTransaction, QuietOfRun, QuietPermit
<1>5. CASE SetupFails(w) \/ FinishJobRun(w)
  <2>1. r \in Runs /\ proc[w].token # 0
    BY <1>1, <1>5 DEF SetupFails, FinishJobRun, At
  <2>2. PICK o \in FinishStatuses : Finish(r, proc[w].token, o)
    BY <1>5 DEF SetupFails, FinishJobRun, FinishStatuses, CoordinatorAssumption
  <2>3. MovesFor(r)
    BY <1>0, <1>5, OwnMoves DEF StepFacts, SetupFails, FinishJobRun, WorkerSteps
  <2> QED
    BY <1>0, <2>1, <2>2, <2>3, FinishMaps
<1>6. CASE UNCHANGED dbVars
  BY <1>6, QuietStepMaps DEF QuietTransaction
<1> QED
  BY <1>2, <1>3, <1>4, <1>5, <1>6 DEF WorkerStep, Poll, BeginJob, AbandonJob, LosePermit,
     ReturnToPoll, HeartbeatFails, WorkerDies, WorkerRestarts

LEMMA GraphMaps ==
    ASSUME CoordinatorAssumption, StepFacts, LocalStep, NEW p \in Procs, GraphStep(p)
    PROVE  Ownership!Next
<1>1. proc[p].run \in Runs /\ proc[p].token \in Nat
  BY DEF StepFacts, Inv, LocalTypeOK, ProcRow, ProcsKnowTheirRun, GraphStep, PublishEvent,
     PersistSnapshot, PassApprovalGate, Checkpoint, At
<1>2. QuietOfRun(proc[p].run)
  BY <1>1 DEF GraphStep, PublishEvent, PersistSnapshot, PassApprovalGate, Checkpoint, QuietOfRun,
     QuietPermit
<1> QED
  BY <1>1, <1>2, QuietStepMaps DEF QuietTransaction

LEMMA StreamMaps ==
    ASSUME CoordinatorAssumption, StepFacts, LocalStep, NEW p \in Streams, StreamStep(p)
    PROVE  Ownership!Next
<1> DEFINE r == proc[p].run
<1>0. p \in Procs
  BY DEF Procs
<1>1. /\ proc[p].pc \notin {"idle", "down"} => r \in Runs
      /\ proc[p].pc = "idle" => proc[p] = Idle
      /\ proc[p].pc \in {"leased", "running"} => proc[p].token # 0
      /\ proc[p].token \in Nat /\ proc[p].proof \in Nat
  BY <1>0 DEF StepFacts, Inv, LocalTypeOK, ProcRow, ProcsKnowTheirRun
<1>2. CASE SubmitInline(p)
  <2>1. PICK q \in Runs : /\ StartHarnessTurn(q, FALSE)
                          /\ proc' = [proc EXCEPT ![p] = [Idle EXCEPT !.pc = "created", !.run = q]]
    BY <1>2 DEF SubmitInline
  <2>2. /\ proc[p].token = 0 /\ proc'[p].token = 0
        /\ \A o \in Procs \ {p} : proc'[o] = proc[o]
    BY <1>0, <1>1, <1>2, <2>1 DEF SubmitInline, At, Idle, StepFacts, Inv, LocalTypeOK
  <2>3. MovesFor(q)
    BY <2>2 DEF MovesFor, Keeps
  <2> QED
    BY <2>1, <2>3, StartMaps
<1>3. CASE SubmitToWorkers(p)
  <2>1. PICK q \in Runs : StartHarnessTurn(q, TRUE) /\ UNCHANGED proc
    BY <1>3 DEF SubmitToWorkers
  <2> QED
    BY <2>1, StartMaps DEF MovesFor, Keeps
<1>4. CASE ClaimOwnRun(p) \/ ResumeRun(p)
  <2>1. r \in Runs /\ Permitted(p, "running")
    BY <1>1, <1>4 DEF ClaimOwnRun, ResumeRun, At
  <2> QED
    BY <1>0, <1>1, <1>4, <2>1, GrantMaps DEF ClaimOwnRun, ResumeRun
<1>5. CASE ResumeByWorkers(p)
  <2>1. r \in Runs /\ ResumeForWorker(r) /\ Goto(p, "watching")
    BY <1>1, <1>5 DEF ResumeByWorkers, At
  <2> QED
    BY <1>0, <2>1, OwnMoves, FenceMaps DEF StepFacts, StreamSteps
<1>6. CASE DenyResume(p)
  <2>1. r \in Runs /\ MovesFor(r)
    BY <1>0, <1>1, <1>6, OwnMoves DEF DenyResume, At, StepFacts, StreamSteps
  <2> QED
    BY <1>6, <2>1, CancelMaps, QuietStepMaps DEF DenyResume, QuietTransaction
<1>7. CASE FinishStream(p)
  <2>1. r \in Runs /\ proc[p].token # 0 /\ MovesFor(r)
    BY <1>0, <1>1, <1>7, OwnMoves DEF FinishStream, At, StepFacts, StreamSteps
  <2>2. PICK o \in FinishStatuses : Finish(r, proc[p].token, o)
    BY <1>7 DEF FinishStream, CoordinatorAssumption
  <2> QED
    BY <1>0, <2>1, <2>2, FinishMaps
<1>8. CASE PauseForApproval(p) \/ PauseForReview(p)
  <2>1. r \in Runs /\ \E reason \in {"waiting_approval", "needs_review"} : Pause(r, proc[p].token, reason)
    BY <1>1, <1>8 DEF PauseForApproval, PauseForReview, At
  <2> QED
    BY <1>1, <2>1, QuietStepMaps DEF QuietTransaction, QuietOfRun, QuietPermit
<1>9. CASE BindProof(p)
  <2>1. r \in Runs /\ BindRecoveredCheckpoint(r, proc[p].proof) /\ proc[p].proof \in 1..ProofOf(r)
    BY <1>0, <1>1, <1>9 DEF BindProof, At, StepFacts, Inv, ProcsKnowTheirRun
  <2> QED
    BY <2>1, QuietStepMaps DEF QuietTransaction, QuietOfRun
<1>10. CASE TakeInterrupt(p) \/ WatchEnds(p) \/ StreamAcks(p) \/ StreamReleases(p)
  <2>1. r \in Runs => SessionOf[r] \in Sessions
    BY DEF CoordinatorAssumption
  <2>2. UNCHANGED dbVars \/ \E s \in Sessions : InterruptTransaction(s, p)
    BY <1>1, <1>10, <2>1 DEF TakeInterrupt, WatchEnds, StreamAcks, StreamReleases, At, InterruptTransaction
  <2> QED
    BY <2>2, QuietStepMaps DEF QuietTransaction
<1>11. CASE UNCHANGED dbVars
  BY <1>11, QuietStepMaps DEF QuietTransaction
<1> QED
  BY <1>2, <1>3, <1>4, <1>5, <1>6, <1>7, <1>8, <1>9, <1>10, <1>11 DEF StreamStep, ClaimOwnRunRefused,
     VerifyProof, GiveUpResume, LoseStream, StreamLeaves, StreamDies

LEMMA EveryStepMaps ==
    ASSUME CoordinatorAssumption, ExecutionAssumption, Inv, [Next]_vars
    PROVE  Ownership!Next
<1>1. StepFacts /\ LocalStep
  BY InvStep, StepIsTransaction, EveryLocalStep, EveryRow DEF StepFacts, Inv, RowStep
<1>2. CASE UNCHANGED dbVars
  BY <1>1, <1>2, QuietStepMaps DEF QuietTransaction
<1>3. ASSUME NEW r \in Runs, UserCancels(r) \/ Reconcile(r) \/ ExpireExecution(r) \/ ExpireJob(r)
      PROVE  Ownership!Next
  <2>1. MovesFor(r)
    BY <1>3 DEF UserCancels, Reconcile, ExpireExecution, ExpireJob, MovesFor, Keeps
  <2>2. CASE UserCancels(r)
    BY <1>1, <2>1, <2>2, CancelMaps DEF UserCancels
  <2>3. CASE Reconcile(r)
    <3>1. (mode = "worker") \in BOOLEAN
      OBVIOUS
    <3> QED
      BY <1>1, <2>1, <2>3, <3>1, FenceMaps DEF Reconcile
  <2>4. CASE ExpireExecution(r) \/ ExpireJob(r)
    BY <1>1, <2>4, QuietStepMaps DEF ExpireExecution, ExpireJob, QuietTransaction, QuietOfRun
  <2> QED
    BY <1>3, <2>2, <2>3, <2>4
<1>4. CASE Freeze
  BY <1>1, <1>4, FreezeMaps DEF Freeze
<1> QED
  BY <1>1, <1>2, <1>3, <1>4, WorkerMaps, StreamMaps, GraphMaps DEF Next, SwitchMode, vars, dbVars

\* Every run starts unborn, without an owner, at epoch 0.
LEMMA InitMaps ==
    ASSUME CoordinatorAssumption, Init
    PROVE  Ownership!Init
<1>1. \A p \in Procs : ~Active(p)
  BY DEF Init, Idle, Active
<1>2. \A r \in Runs : OwnerOf(r) = Nobody
  BY <1>1 DEF OwnerOf
<1>3. \A r \in Runs : VerdictOf(r) = "unborn" /\ exec[r].token = 0
  BY DEF VerdictOf, Live, Unfinished, Init, DbInit
<1> QED
  BY <1>2, <1>3 DEF Ownership!Init

\* The workers and the streams implement the ownership of RunOwnership.
THEOREM ImplementsOwnership == Spec => RefinesOwnership
<1>1. Init => Ownership!Init
  BY InitMaps, CoordinatorAssumption
<1>2. Inv /\ [Next]_vars => [Ownership!Next]_Ownership!vars
  BY EveryStepMaps, CoordinatorAssumption, ExecutionAssumption
<1> QED
  BY <1>1, <1>2, Invariant, PTL DEF Spec, RefinesOwnership, Ownership!Spec

-----------------------------------------------------------------------------
(* A pause can be found again: an acknowledgement only erases a claim that   *)
(* has been used up.                                                       *)

Paused(r) == Live(r) /\ exec[r].state = "PAUSED"

\* The row of a session names a run of that session.
RowsNameTheirSession ==
    \A s \in Sessions : interrupt[s].run # NoRun => SessionOf[interrupt[s].run] = s

\* The stream took its session's row, and the row still says so.
Claims(p) == proc[p].holds /\ interrupt[SessionOf[proc[p].run]].by = p

\* Where a stream is, or gets to, before it acknowledges its claim.
MayAck(p) ==
    \/ proc[p].pc \in {"running", "committed", "watching"}
    \/ proc[p].pc = "lost" /\ RuntimeOf[proc[p].run] = "harness"

\* A claim is for the run that the row names, and a stream that may acknowledge
\* it has already moved that run out of its pause.
ClaimIsSpent(p) ==
    /\ proc[p].holds => proc[p].run \in Runs
    /\ proc[p].pc \in {"claimed", "watching"} => proc[p].holds
    /\ Claims(p) => interrupt[SessionOf[proc[p].run]].run = proc[p].run
    /\ Claims(p) /\ MayAck(p) => ~Paused(proc[p].run)

RecoveryInv ==
    /\ RowsNameTheirSession
    /\ \A p \in Streams : ClaimIsSpent(p)
    /\ PausedIsRecoverable

\* A run is paused together with the interrupt row and with its job.
JobWaits(r) == job[r].status \in {"NONE", "PAUSED"}
Names(s, r) == interrupt'[s].run = r /\ interrupt'[s].by = Nobody
PausesTogether(r) ==
    Paused(r)' => \/ Paused(r) /\ (JobWaits(r) => JobWaits(r)')
                  \/ JobWaits(r)' /\ Names(SessionOf[r], r)

LEMMA SameRowPauses ==
    ASSUME NEW r \in Runs, Live(r)' => Live(r), exec'[r] = exec[r], job'[r] = job[r]
    PROVE  PausesTogether(r)
  BY DEF PausesTogether, Paused, JobWaits

LEMMA PermitPauses ==
    ASSUME CoordinatorAssumption, DbInv, NEW r \in Runs, PermitTransaction(r, exec[r].token)
    PROVE  PausesTogether(r)
<1> DEFINE token == exec[r].token
<1>1. exec[r].state = "RUNNING" /\ ~Terminal(r)
  BY DEF PermitTransaction, AppendHarnessEvent, PersistHarnessSnapshot, ConsumeRecoveryCheckpoint,
     PersistSupervisorSnapshot, DecideActionProposals, Pause, Finish, RequireActive
<1>2. Live(r)
  BY <1>1 DEF DbInv, DbTypeOK, RunStatuses, Unfinished, RowInv, AbsentIsEmpty, Live, Terminal
<1>3. ASSUME NEW reason, Pause(r, token, reason)
      PROVE  PausesTogether(r)
  <2>1. job[r].status \notin JobClosed /\ job[r].status \in JobOpen \cup JobClosed \cup {"NONE"}
    BY <1>2, LiveRow DEF DbInv, DbTypeOK, JobRow
  <2>2. FinishJob(r, "PAUSED") /\ Names(SessionOf[r], r)
    BY <1>3 DEF Pause, UpsertInterrupt, Names, DbInv, DbTypeOK, CoordinatorAssumption
  <2>3. JobWaits(r)'
    BY <2>1, <2>2, RowEffects DEF JobWaits, HasOpenJob, DbInv
  <2> QED
    BY <2>2, <2>3 DEF PausesTogether
<1>4. ASSUME NEW o \in FinishStatuses, Finish(r, token, o)
      PROVE  PausesTogether(r)
  <2>1. run'[r] = o
    BY <1>4 DEF Finish, DbInv, DbTypeOK
  <2> QED
    BY <2>1 DEF PausesTogether, Paused, Live, FinishStatuses, Unfinished
<1>5. ASSUME exec'[r].state = "RUNNING"
      PROVE  PausesTogether(r)
  BY <1>5 DEF PausesTogether, Paused
<1>6. CASE ConsumeRecoveryCheckpoint(r, token)
  <2>1. exec'[r].state = "RUNNING"
    BY <1>1, <1>6 DEF ConsumeRecoveryCheckpoint, DbInv, DbTypeOK, ExecRow
  <2> QED
    BY <2>1, <1>5
<1> QED
  BY <1>1, <1>3, <1>4, <1>5, <1>6 DEF PermitTransaction, AppendHarnessEvent, PersistHarnessSnapshot,
     PersistSupervisorSnapshot, DecideActionProposals

LEMMA ClaimPauses ==
    ASSUME DbInv, NEW r \in Runs, ClaimTransaction(r)
    PROVE  PausesTogether(r)
<1>1. ASSUME NEW l, NewAttempt(r, l)
      PROVE  PausesTogether(r)
  <2>1. exec'[r].state = "RUNNING"
    BY <1>1 DEF NewAttempt, DbInv, DbTypeOK
  <2> QED
    BY <2>1 DEF PausesTogether, Paused
<1>2. CASE ClaimJobOfClosedRun(r)
  <2>1. ~Live(r)'
    BY <1>2 DEF ClaimJobOfClosedRun, Live, Terminal, Unfinished, PublicTerminal, FinishStatuses
  <2> QED
    BY <2>1 DEF PausesTogether, Paused
<1>3. CASE PauseRecoveryLimit(r)
  <2>1. ~Live(r)'
    BY <1>3 DEF PauseRecoveryLimit, Live, Unfinished, DbInv, DbTypeOK
  <2> QED
    BY <2>1 DEF PausesTogether, Paused
<1> QED
  BY <1>1, <1>2, <1>3 DEF ClaimTransaction, Claim, Resume, ResumeForWorker, ClaimJobFresh, ClaimJobTakeover

LEMMA OwnerlessPauses ==
    ASSUME CoordinatorAssumption, DbInv, NEW r \in Runs, OwnerlessTransaction(r)
    PROVE  PausesTogether(r)
<1>1. ASSUME NEW b, StartHarnessTurn(r, b)
      PROVE  PausesTogether(r)
  <2>1. exec'[r].state = "QUEUED"
    BY <1>1 DEF StartHarnessTurn, DbInv, DbTypeOK
  <2> QED
    BY <2>1 DEF PausesTogether, Paused
<1>2. ASSUME NEW proof, BindRecoveredCheckpoint(r, proof)
      PROVE  PausesTogether(r)
  <2>1. exec'[r].state = exec[r].state /\ run' = run /\ job' = job
    BY <1>2 DEF BindRecoveredCheckpoint, DbInv, DbTypeOK, ExecRow
  <2> QED
    BY <2>1 DEF PausesTogether, Paused, Live, JobWaits
<1>3. CASE Cancel(r)
  <2>1. ~Live(r)'
    BY <1>3 DEF Cancel, Live, Unfinished, DbInv, DbTypeOK
  <2> QED
    BY <2>1 DEF PausesTogether, Paused
<1>4. ASSUME NEW b, ReconcileExpired(r, b)
      PROVE  PausesTogether(r)
  <2>1. job[r].status \notin JobClosed /\ job[r].status \in JobOpen \cup JobClosed \cup {"NONE"}
    BY <1>4, LiveRow DEF ReconcileExpired, DbInv, DbTypeOK, JobRow
  <2>2. FinishJob(r, "PAUSED") /\ Names(SessionOf[r], r)
    BY <1>4 DEF ReconcileExpired, UpsertInterrupt, Names, DbInv, DbTypeOK, CoordinatorAssumption
  <2>3. JobWaits(r)'
    BY <2>1, <2>2, RowEffects DEF JobWaits, HasOpenJob, DbInv
  <2> QED
    BY <2>2, <2>3 DEF PausesTogether
<1>5. CASE ExpireExecutionLease(r)
  <2>1. exec'[r].state = exec[r].state /\ run' = run /\ job' = job
    BY <1>5 DEF ExpireExecutionLease, DbInv, DbTypeOK, ExecRow
  <2> QED
    BY <2>1 DEF PausesTogether, Paused, Live, JobWaits
<1>6. CASE ExpireJobLease(r)
  <2>1. exec' = exec /\ run' = run /\ job'[r].status = job[r].status
    BY <1>6 DEF ExpireJobLease, DbInv, DbTypeOK, JobRow
  <2> QED
    BY <2>1 DEF PausesTogether, Paused, Live, JobWaits
<1>7. CASE SaverAdvance(r)
  BY <1>7, SameRowPauses DEF SaverAdvance, Live
<1> QED
  BY <1>1, <1>2, <1>3, <1>4, <1>5, <1>6, <1>7 DEF OwnerlessTransaction

LEMMA EveryRunPauses ==
    ASSUME CoordinatorAssumption, DbInv, [DbNext]_dbVars, NEW q \in Runs
    PROVE  PausesTogether(q)
<1>1. CASE UNCHANGED dbVars
  BY <1>1, SameRowPauses DEF dbVars, Live
<1>2. ASSUME NEW r \in Runs,
             \/ PermitTransaction(r, exec[r].token)
             \/ ClaimTransaction(r)
             \/ OwnerlessTransaction(r)
      PROVE  PausesTogether(q)
  <2>1. CASE q = r
    BY <1>2, <2>1, PermitPauses, ClaimPauses, OwnerlessPauses
  <2>2. CASE q # r
    BY <1>2, <2>2, OtherRows, SameRowPauses DEF DbInv, SameRow, Live
  <2> QED
    BY <2>1, <2>2
<1>3. ASSUME NEW s \in Sessions, NEW p \in Streams, InterruptTransaction(s, p)
      PROVE  PausesTogether(q)
  BY <1>3, SameRowPauses DEF InterruptTransaction, ClaimChatInterrupt, AckChatInterrupt,
     ReleaseChatInterrupt, Live
<1>4. CASE FreezeInFlightRuns
  <2>1. Live(q)' => Live(q)
    BY <1>4, FreezeRow DEF DbInv, NeverReopens
  <2> QED
    BY <1>4, <2>1, SameRowPauses DEF FreezeInFlightRuns
<1> QED
  BY <1>1, <1>2, <1>3, <1>4 DEF DbNext

-----------------------------------------------------------------------------
(* What a step does to a session's row and to a stream's claim.             *)

RowMoves(s) ==
    \/ interrupt'[s] = interrupt[s]
    \/ \E r \in Runs : SessionOf[r] = s /\ Live(r) /\ Names(s, r)
    \/ \E r \in Runs : interrupt[s].run = r /\ ~Live(r)' /\ interrupt'[s] = NoInterrupt
    \/ \E p \in Streams : /\ Claims(p) /\ MayAck(p) /\ SessionOf[proc[p].run] = s
                          /\ interrupt'[s] = NoInterrupt
    \/ \E p \in Streams : /\ proc'[p].pc = "claimed" /\ proc'[p].run = interrupt[s].run
                          /\ interrupt'[s].run = interrupt[s].run /\ interrupt'[s].by = p
    \/ Names(s, interrupt[s].run)

ClaimMoves(p) ==
    \/ ~proc'[p].holds /\ proc'[p].pc \notin {"claimed", "watching"}
    \/ /\ proc'[p].holds = proc[p].holds /\ proc'[p].run = proc[p].run
       /\ proc'[p].pc \in {"claimed", "watching"} => proc[p].pc \in {"claimed", "watching"}
       /\ MayAck(p)' => MayAck(p) \/ ~Paused(proc[p].run)'
    \/ \E s \in Sessions : /\ proc'[p].pc = "claimed" /\ proc'[p].holds
                           /\ interrupt[s].run \in Runs /\ proc'[p].run = interrupt[s].run
                           /\ interrupt'[s].run = interrupt[s].run

\* The rows of the interrupt table.
LEMMA RowsUnchanged ==
    ASSUME UNCHANGED interrupt
    PROVE  \A s \in Sessions : RowMoves(s)
  BY DEF RowMoves

LEMMA UpsertRow ==
    ASSUME CoordinatorAssumption, DbInv, NEW r \in Runs, Live(r), UpsertInterrupt(r)
    PROVE  \A s \in Sessions : RowMoves(s)
<1>1. ASSUME NEW s \in Sessions
      PROVE  interrupt'[s] = interrupt[s] \/ (SessionOf[r] = s /\ Names(s, r))
  BY DEF UpsertInterrupt, Names, DbInv, DbTypeOK
<1> QED
  BY <1>1 DEF RowMoves

LEMMA CancelRow ==
    ASSUME DbInv, NEW r \in Runs, Cancel(r)
    PROVE  \A s \in Sessions : RowMoves(s)
<1>1. ~Live(r)'
  BY DEF Cancel, Live, Unfinished, DbInv, DbTypeOK
<1>2. \A s \in Sessions : interrupt'[s] = interrupt[s]
                          \/ (interrupt[s].run = r /\ interrupt'[s] = NoInterrupt)
  BY DEF Cancel
<1> QED
  BY <1>1, <1>2 DEF RowMoves

LEMMA AckRow ==
    ASSUME DbInv, NEW p \in Streams, proc[p].holds, MayAck(p), SessionOf[proc[p].run] \in Sessions,
           AckChatInterrupt(SessionOf[proc[p].run], p)
    PROVE  \A s \in Sessions : RowMoves(s)
<1>1. PICK t \in Sessions : t = SessionOf[proc[p].run]
  OBVIOUS
<1>2. CASE interrupt[t].by = p
  <2>1. \A s \in Sessions : interrupt'[s] = interrupt[s] \/ (s = t /\ interrupt'[s] = NoInterrupt)
    BY <1>1, <1>2 DEF AckChatInterrupt, DbInv, DbTypeOK
  <2>2. Claims(p)
    BY <1>1, <1>2 DEF Claims
  <2> QED
    BY <1>1, <2>1, <2>2 DEF RowMoves
<1>3. CASE interrupt[t].by # p
  BY <1>1, <1>3, RowsUnchanged DEF AckChatInterrupt
<1> QED
  BY <1>2, <1>3

LEMMA ReleaseRow ==
    ASSUME DbInv, NEW p \in Streams, NEW t \in Sessions, ReleaseChatInterrupt(t, p)
    PROVE  \A s \in Sessions : RowMoves(s)
<1>1. ASSUME NEW s \in Sessions
      PROVE  \/ interrupt'[s] = interrupt[s]
             \/ Names(s, interrupt[s].run)
  BY DEF Names, ReleaseChatInterrupt, DbInv, DbTypeOK, InterruptRow
<1> QED
  BY <1>1 DEF RowMoves

\* Processes that move without touching the table.
LEMMA StreamGoesIdle ==
    ASSUME Inv, NEW p \in Streams, GoIdle(p), NEW q \in Streams
    PROVE  ClaimMoves(q)
<1>1. p \in Procs /\ q \in Procs
  BY DEF Procs
<1> QED
  BY <1>1 DEF GoIdle, Idle, ClaimMoves, MayAck, Inv, LocalTypeOK

LEMMA StreamStays ==
    ASSUME NEW q \in Streams, proc'[q] = proc[q]
    PROVE  ClaimMoves(q)
  BY DEF ClaimMoves, MayAck

\* A stream moves on with its claim.
LEMMA StreamGoesOn ==
    ASSUME Inv, NEW p \in Streams, NEW row \in ProcRow, proc' = [proc EXCEPT ![p] = row],
           row.holds = proc[p].holds, row.run = proc[p].run,
           row.pc \in {"claimed", "watching"} => proc[p].pc = "claimed",
           MayAck(p)' => MayAck(p) \/ ~Paused(proc[p].run)',
           NEW q \in Streams
    PROVE  ClaimMoves(q)
<1>1. p \in Procs /\ q \in Procs
  BY DEF Procs
<1>2. CASE q = p
  BY <1>1, <1>2 DEF ClaimMoves, Inv, LocalTypeOK
<1>3. CASE q # p
  <2>1. proc'[q] = proc[q]
    BY <1>1, <1>3 DEF Inv, LocalTypeOK
  <2> QED
    BY <2>1, StreamStays
<1> QED
  BY <1>2, <1>3

LEMMA StreamGoesTo ==
    ASSUME Inv, NEW p \in Streams, NEW pc \in StreamSteps, Goto(p, pc),
           pc # "claimed", pc = "watching" => proc[p].pc = "claimed",
           \/ pc \notin {"running", "committed", "watching", "lost"}
           \/ MayAck(p)
           \/ pc = "lost" /\ RuntimeOf[proc[p].run] # "harness"
           \/ proc[p].run \in Runs /\ \A r \in Runs : r = proc[p].run => ~Paused(r)',
           NEW q \in Streams
    PROVE  ClaimMoves(q)
<1> DEFINE row == [proc[p] EXCEPT !.pc = pc]
<1>1. p \in Procs /\ proc[p] \in ProcRow
  BY DEF Procs, Inv, LocalTypeOK
<1>2. row \in ProcRow /\ row.pc = pc /\ row.run = proc[p].run /\ row.holds = proc[p].holds
  BY <1>1 DEF ProcRow
<1>3. proc' = [proc EXCEPT ![p] = row]
  BY DEF Goto
<1>4. proc'[p] = row
  BY <1>1, <1>3 DEF Inv, LocalTypeOK
<1>5. MayAck(p)' => MayAck(p) \/ ~Paused(proc[p].run)'
  BY <1>2, <1>4 DEF MayAck, Paused, Live
<1> QED
  BY <1>2, <1>3, <1>5, StreamGoesOn

ClaimStep == (\A s \in Sessions : RowMoves(s)) /\ (\A q \in Streams : ClaimMoves(q))

LEMMA WorkerClaims ==
    ASSUME CoordinatorAssumption, Inv, NEW w \in Workers, WorkerStep(w)
    PROVE  ClaimStep
<1>1. UNCHANGED interrupt
  BY DEF WorkerStep, Poll, ClaimNothing, ClaimJobOfClosedRun, ClaimJobHeld, ClaimJobMissed,
     PauseRecoveryLimit, ClaimJob, ClaimJobFresh, ClaimJobTakeover, ConsumeProof,
     ConsumeRecoveryCheckpoint, BeginJob, AbandonJob, SetupFails, FinishJobRun, Finish, LosePermit,
     ReturnToPoll, HeartbeatFails, WorkerDies, WorkerRestarts, dbVars
<1>2. \E row : proc' = [proc EXCEPT ![w] = row]
  <2>1. CASE UNCHANGED proc
    <3>1. proc' = [proc EXCEPT ![w] = proc[w]]
      BY <2>1 DEF Inv, LocalTypeOK
    <3> QED
      BY <3>1
  <2>2. CASE ~UNCHANGED proc
    BY <2>2 DEF WorkerStep, Poll, ClaimNothing, ClaimJob, ConsumeProof, BeginJob, AbandonJob, SetupFails,
       FinishJobRun, LosePermit, ReturnToPoll, HeartbeatFails, WorkerDies, WorkerRestarts, GoIdle,
       Goto, Permitted
  <2> QED
    BY <2>1, <2>2
<1>3. \A q \in Streams : proc'[q] = proc[q]
  BY <1>2 DEF CoordinatorAssumption, Procs, Inv, LocalTypeOK
<1> QED
  BY <1>1, <1>3, RowsUnchanged, StreamStays DEF ClaimStep

LEMMA StillProcs ==
    ASSUME UNCHANGED proc
    PROVE  \A q \in Streams : ClaimMoves(q)
  BY StreamStays

LEMMA StreamClaims ==
    ASSUME CoordinatorAssumption, Inv, RecoveryInv, NEW p \in Streams, StreamStep(p)
    PROVE  ClaimStep
<1> DEFINE r == proc[p].run
<1>0. DbInv
  BY DEF Inv
<1>1. /\ proc[p].pc \notin {"idle", "down"} => r \in Runs
      /\ r \in Runs => SessionOf[r] \in Sessions
      /\ p \in Procs /\ proc[p] \in ProcRow
  BY DEF Inv, ProcsKnowTheirRun, LocalTypeOK, Procs, CoordinatorAssumption
<1>2. CASE SubmitInline(p)
  <2>1. PICK t \in Runs : proc' = [proc EXCEPT ![p] = [Idle EXCEPT !.pc = "created", !.run = t]]
    BY <1>2 DEF SubmitInline
  <2>2. \A q \in Streams : ClaimMoves(q)
    BY <1>1, <2>1 DEF Idle, ClaimMoves, MayAck, Inv, LocalTypeOK, Procs
  <2> QED
    BY <1>2, <2>2, RowsUnchanged DEF SubmitInline, StartHarnessTurn, ClaimStep
<1>3. CASE SubmitToWorkers(p)
  BY <1>3, RowsUnchanged, StillProcs DEF SubmitToWorkers, StartHarnessTurn, ClaimStep
<1>4. CASE ClaimOwnRun(p) \/ ResumeRun(p)
  <2> DEFINE row == [proc[p] EXCEPT !.pc = "running", !.token = exec'[r].token, !.proof = NoProof]
  <2>1. r \in Runs /\ proc' = [proc EXCEPT ![p] = row] /\ UNCHANGED interrupt
    BY <1>1, <1>4 DEF ClaimOwnRun, ResumeRun, At, Permitted, Claim, Resume
  <2>2. exec'[r].state = "RUNNING" /\ exec'[r].token \in Nat
    BY <1>0, <1>4, <2>1 DEF ClaimOwnRun, ResumeRun, Claim, Resume, NewAttempt, DbInv, DbTypeOK, ExecRow
  <2>3. row \in ProcRow /\ row.pc = "running" /\ row.holds = proc[p].holds /\ row.run = r
    BY <1>1, <2>2 DEF ProcRow, StreamSteps, NoProof
  <2>4. proc'[p].run = r
    BY <1>1, <2>1, <2>3 DEF Inv, LocalTypeOK
  <2>5. ~Paused(proc[p].run)'
    BY <2>2, <2>4 DEF Paused
  <2>6. \A q \in Streams : ClaimMoves(q)
    BY <2>1, <2>3, <2>5, StreamGoesOn
  <2> QED
    BY <2>1, <2>6, RowsUnchanged DEF ClaimStep
<1>5. CASE TakeInterrupt(p)
  <2> PICK s \in Sessions : /\ ClaimChatInterrupt(s, p)
                            /\ proc' = [proc EXCEPT ![p] = [pc |-> "claimed", run |-> interrupt[s].run,
                                            token |-> 0, proof |-> NoProof, holds |-> TRUE]]
    BY <1>5 DEF TakeInterrupt
  <2>1. interrupt[s].run \in Runs
    BY DEF ClaimChatInterrupt, Inv, DbInv, DbTypeOK, InterruptRow
  <2>2. /\ interrupt'[s].run = interrupt[s].run /\ interrupt'[s].by = p
        /\ \A t \in Sessions \ {s} : interrupt'[t] = interrupt[t]
    BY DEF ClaimChatInterrupt, Inv, DbInv, DbTypeOK, InterruptRow
  <2>3. /\ proc'[p].pc = "claimed" /\ proc'[p].holds /\ proc'[p].run = interrupt[s].run
        /\ \A q \in Procs \ {p} : proc'[q] = proc[q]
    BY <1>1 DEF Inv, LocalTypeOK
  <2>4. \A t \in Sessions : RowMoves(t)
    BY <2>2, <2>3 DEF RowMoves
  <2>5. ClaimMoves(p)
    BY <2>1, <2>2, <2>3 DEF ClaimMoves
  <2>6. \A q \in Streams \ {p} : ClaimMoves(q)
    BY <2>3, StreamStays DEF Procs
  <2> QED
    BY <2>4, <2>5, <2>6 DEF ClaimStep
<1>6. CASE VerifyProof(p)
  <2> DEFINE row == [proc[p] EXCEPT !.proof = ProofOf(r),
                        !.pc = IF exec[r].proof = NoProof THEN "unbound" ELSE "verified"]
  <2>1. r \in Runs /\ ProofOf(r) \in Nat /\ proc' = [proc EXCEPT ![p] = row] /\ UNCHANGED interrupt
    BY <1>0, <1>1, <1>6 DEF VerifyProof, At, DbInv, DbTypeOK, ProofOf, dbVars
  <2>2. /\ row \in ProcRow /\ row.holds = proc[p].holds /\ row.run = r
        /\ row.pc \in {"unbound", "verified"}
    BY <1>1, <2>1 DEF ProcRow, StreamSteps
  <2>3. proc'[p] = row
    BY <1>1, <2>1 DEF Inv, LocalTypeOK
  <2>4. ~MayAck(p)'
    BY <2>2, <2>3 DEF MayAck
  <2>5. \A q \in Streams : ClaimMoves(q)
    BY <2>1, <2>2, <2>4, StreamGoesOn
  <2> QED
    BY <2>1, <2>5, RowsUnchanged DEF ClaimStep
<1>7. CASE BindProof(p)
  BY <1>7, StreamGoesTo, RowsUnchanged DEF BindProof, BindRecoveredCheckpoint, StreamSteps, ClaimStep
<1>8. CASE GiveUpResume(p)
  <2>1. UNCHANGED interrupt
    BY <1>8 DEF GiveUpResume, dbVars
  <2>2. \A q \in Streams : ClaimMoves(q)
    BY <1>8, StreamGoesTo DEF GiveUpResume, StreamSteps
  <2> QED
    BY <2>1, <2>2, RowsUnchanged DEF ClaimStep
<1>9. CASE ResumeByWorkers(p)
  <2>1. r \in Runs /\ proc[p].pc = "claimed"
    BY <1>1, <1>9 DEF ResumeByWorkers, At
  <2>2. exec'[r].state = "RUNNING"
    BY <1>0, <1>9, <2>1 DEF ResumeByWorkers, ResumeForWorker, NewAttempt, DbInv, DbTypeOK
  <2>3. \A q \in Streams : ClaimMoves(q)
    BY <1>9, <2>1, <2>2, StreamGoesTo DEF ResumeByWorkers, StreamSteps, Paused
  <2> QED
    BY <1>9, <2>3, RowsUnchanged DEF ResumeByWorkers, ResumeForWorker, ClaimStep
<1>10. CASE DenyResume(p)
  <2>1. r \in Runs /\ proc[p].pc = "claimed"
    BY <1>1, <1>10 DEF DenyResume, At
  <2>2. \A q \in Runs : q = r => ~Paused(q)'
    BY <1>0, <1>10, <2>1 DEF DenyResume, Cancel, dbVars, Live, Terminal, Unfinished, PublicTerminal,
       FinishStatuses, DbInv, DbTypeOK, Paused
  <2>3. \A s \in Sessions : RowMoves(s)
    BY <1>0, <1>10, <2>1, CancelRow, RowsUnchanged DEF DenyResume, dbVars
  <2>4. CASE GoIdle(p)
    BY <2>3, <2>4, StreamGoesIdle DEF ClaimStep
  <2>5. CASE Goto(p, "watching")
    BY <2>1, <2>2, <2>3, <2>5, StreamGoesTo DEF ClaimStep, StreamSteps
  <2> QED
    BY <1>10, <2>4, <2>5 DEF DenyResume
<1>11. CASE WatchEnds(p)
  <2>1. r \in Runs /\ proc[p].holds /\ MayAck(p)
    BY <1>1, <1>11 DEF WatchEnds, At, MayAck, RecoveryInv, ClaimIsSpent
  <2> QED
    BY <1>0, <1>1, <1>11, <2>1, AckRow, StreamGoesIdle DEF WatchEnds, ClaimStep
<1>12. CASE FinishStream(p)
  <2>1. UNCHANGED interrupt /\ MayAck(p)
    BY <1>12 DEF FinishStream, Finish, MayAck, At
  <2> QED
    BY <1>12, <2>1, StreamGoesTo, RowsUnchanged DEF FinishStream, StreamSteps, ClaimStep
<1>13. CASE PauseForApproval(p) \/ PauseForReview(p)
  <2>1. r \in Runs /\ MayAck(p) /\ UpsertInterrupt(r)
    BY <1>1, <1>13 DEF PauseForApproval, PauseForReview, Pause, MayAck, At
  <2>2. Live(r)
    BY <1>0, <1>13, <2>1 DEF PauseForApproval, PauseForReview, Pause, RequireActive, DbInv, DbTypeOK,
       RunStatuses, Unfinished, RowInv, AbsentIsEmpty, Live, Terminal
  <2>3. \A q \in Streams : ClaimMoves(q)
    BY <1>13, <2>1, StreamGoesTo DEF PauseForApproval, PauseForReview, StreamSteps
  <2> QED
    BY <1>0, <2>1, <2>2, <2>3, UpsertRow DEF ClaimStep
<1>14. CASE LoseStream(p)
  <2>1. UNCHANGED interrupt /\ MayAck(p)
    BY <1>14 DEF LoseStream, MayAck, At, dbVars
  <2> QED
    BY <1>14, <2>1, StreamGoesTo, RowsUnchanged DEF LoseStream, StreamSteps, ClaimStep
<1>15. CASE StreamAcks(p)
  <2>1. r \in Runs /\ MayAck(p)
    BY <1>1, <1>15 DEF StreamAcks, At, MayAck
  <2>2. \A s \in Sessions : RowMoves(s)
    BY <1>0, <1>1, <1>15, <2>1, AckRow, RowsUnchanged DEF StreamAcks, dbVars
  <2> QED
    BY <1>15, <2>2, StreamGoesIdle DEF StreamAcks, ClaimStep
<1>16. CASE StreamReleases(p)
  <2>1. r \in Runs
    BY <1>1, <1>16 DEF StreamReleases, At
  <2>2. \A s \in Sessions : RowMoves(s)
    BY <1>0, <1>1, <1>16, <2>1, ReleaseRow, RowsUnchanged DEF StreamReleases, dbVars
  <2> QED
    BY <1>16, <2>2, StreamGoesIdle DEF StreamReleases, ClaimStep
<1>17. CASE ClaimOwnRunRefused(p) \/ StreamLeaves(p) \/ StreamDies(p)
  BY <1>17, StreamGoesIdle, RowsUnchanged DEF ClaimOwnRunRefused, StreamLeaves, StreamDies, dbVars, ClaimStep
<1> QED
  BY <1>2, <1>3, <1>4, <1>5, <1>6, <1>7, <1>8, <1>9, <1>10, <1>11, <1>12, <1>13, <1>14, <1>15, <1>16,
     <1>17 DEF StreamStep

LEMMA EveryClaimStep ==
    ASSUME CoordinatorAssumption, Inv, RecoveryInv, [Next]_vars
    PROVE  ClaimStep
<1>0. DbInv
  BY DEF Inv
<1>1. CASE UNCHANGED vars
  BY <1>1, RowsUnchanged, StillProcs DEF vars, ClaimStep
<1>2. ASSUME NEW p \in Procs, GraphStep(p)
      PROVE  ClaimStep
  <2>1. UNCHANGED <<interrupt, proc>>
    BY <1>2 DEF GraphStep, PublishEvent, PersistSnapshot, PassApprovalGate, Checkpoint,
       AppendHarnessEvent, PersistHarnessSnapshot, PersistSupervisorSnapshot,
       DecideActionProposals, SaverAdvance
  <2> QED
    BY <2>1, RowsUnchanged, StillProcs DEF ClaimStep
<1>3. ASSUME NEW r \in Runs, UserCancels(r) \/ Reconcile(r) \/ ExpireExecution(r) \/ ExpireJob(r)
      PROVE  ClaimStep
  <2>1. UNCHANGED proc
    BY <1>3 DEF UserCancels, Reconcile, ExpireExecution, ExpireJob
  <2>2. CASE UserCancels(r)
    BY <1>0, <2>1, <2>2, CancelRow, StillProcs DEF UserCancels, ClaimStep
  <2>3. CASE Reconcile(r)
    BY <1>0, <2>1, <2>3, UpsertRow, StillProcs DEF Reconcile, ReconcileExpired, ClaimStep
  <2>4. CASE ExpireExecution(r) \/ ExpireJob(r)
    BY <2>1, <2>4, RowsUnchanged, StillProcs
    DEF ExpireExecution, ExpireJob, ExpireExecutionLease, ExpireJobLease, ClaimStep
  <2> QED
    BY <1>3, <2>2, <2>3, <2>4
<1>4. CASE Freeze
  BY <1>4, RowsUnchanged, StillProcs DEF Freeze, FreezeInFlightRuns, ClaimStep
<1>5. CASE SwitchMode
  <2>1. \A q \in Streams : proc'[q] = Idle
    BY <1>5 DEF SwitchMode, Procs
  <2>2. \A q \in Streams : ClaimMoves(q)
    BY <2>1 DEF ClaimMoves, Idle
  <2> QED
    BY <1>5, <2>2, RowsUnchanged DEF SwitchMode, dbVars, ClaimStep
<1> QED
  BY <1>1, <1>2, <1>3, <1>4, <1>5, WorkerClaims, StreamClaims DEF Next

-----------------------------------------------------------------------------
(* The three parts of the invariant.                                       *)

LEMMA RowsKeepTheirSession ==
    ASSUME CoordinatorAssumption, Inv, RecoveryInv, ClaimStep
    PROVE  RowsNameTheirSession'
<1>1. ASSUME NEW s \in Sessions, interrupt'[s].run # NoRun
      PROVE  SessionOf[interrupt'[s].run] = s
  <2>1. \/ interrupt'[s].run = interrupt[s].run
        \/ \E r \in Runs : SessionOf[r] = s /\ interrupt'[s].run = r
    <3>1. RowMoves(s) /\ interrupt'[s] # NoInterrupt
      BY <1>1 DEF ClaimStep, NoInterrupt
    <3> QED
      BY <3>1 DEF RowMoves, Names
  <2> QED
    BY <1>1, <2>1 DEF RecoveryInv, RowsNameTheirSession
<1> QED
  BY <1>1 DEF RowsNameTheirSession

\* A claim outlives a step of anybody only in its own row.
LEMMA ClaimsStaySpent ==
    ASSUME CoordinatorAssumption, Inv, Inv', RecoveryInv, ClaimStep,
           \A r \in Runs : PausesTogether(r), NEW p \in Streams
    PROVE  ClaimIsSpent(p)'
<1>1. p # Nobody /\ \A r \in Runs : SessionOf[r] \in Sessions
  BY DEF CoordinatorAssumption
<1>2. ClaimIsSpent(p) /\ ClaimMoves(p)
  BY DEF RecoveryInv, ClaimStep
<1>3. CASE ~proc'[p].holds
  <2>1. proc'[p].pc \notin {"claimed", "watching"}
    BY <1>2, <1>3 DEF ClaimMoves, ClaimIsSpent
  <2> QED
    BY <1>3, <2>1 DEF ClaimIsSpent, Claims
<1>4. CASE \E s \in Sessions : /\ proc'[p].pc = "claimed" /\ proc'[p].holds
                               /\ interrupt[s].run \in Runs /\ proc'[p].run = interrupt[s].run
                               /\ interrupt'[s].run = interrupt[s].run
  <2> PICK s \in Sessions : /\ proc'[p].pc = "claimed" /\ proc'[p].holds
                            /\ interrupt[s].run \in Runs /\ proc'[p].run = interrupt[s].run
                            /\ interrupt'[s].run = interrupt[s].run
    BY <1>4
  <2>1. SessionOf[proc'[p].run] = s
    BY DEF RecoveryInv, RowsNameTheirSession, CoordinatorAssumption
  <2> QED
    BY <2>1 DEF ClaimIsSpent, Claims, MayAck
<1>5. ASSUME proc'[p].holds = proc[p].holds, proc'[p].run = proc[p].run, proc'[p].holds,
             proc'[p].pc \in {"claimed", "watching"} => proc[p].pc \in {"claimed", "watching"},
             MayAck(p)' => MayAck(p) \/ ~Paused(proc[p].run)'
      PROVE  ClaimIsSpent(p)'
  <2>1. PICK r \in Runs : r = proc[p].run
    BY <1>2, <1>5 DEF ClaimIsSpent
  <2>2. PICK s \in Sessions : s = SessionOf[r]
    BY <1>1
  <2>3. RowMoves(s)
    BY DEF ClaimStep
  <2>4. CASE ~Claims(p)'
    BY <1>5, <2>1, <2>4 DEF ClaimIsSpent
  <2>5. CASE Claims(p)' /\ interrupt'[s] = interrupt[s]
    <3>1. Claims(p) /\ interrupt'[s].by = p
      BY <1>5, <2>1, <2>2, <2>5 DEF Claims
    <3>2. interrupt'[s].run = r
      BY <1>2, <2>1, <2>2, <2>5, <3>1 DEF ClaimIsSpent
    <3>3. MayAck(p) => ~Paused(r)
      BY <1>2, <2>1, <3>1 DEF ClaimIsSpent
    <3>4. ~Names(s, r)
      BY <1>1, <3>1 DEF Names
    <3>5. MayAck(p) => ~Paused(r)'
      BY <2>2, <3>3, <3>4 DEF PausesTogether
    <3> QED
      BY <1>5, <2>1, <2>2, <3>2, <3>5 DEF ClaimIsSpent, Paused, Live
  <2>6. CASE /\ Claims(p)' /\ interrupt'[s] # interrupt[s]
             /\ proc'[p].pc = "claimed" /\ proc'[p].run = interrupt[s].run
             /\ interrupt'[s].run = interrupt[s].run
    BY <1>5, <2>1, <2>2, <2>6 DEF ClaimIsSpent, MayAck
  <2>7. Claims(p)' => interrupt'[s].by = p
    BY <1>5, <2>1, <2>2 DEF Claims
  <2>8. interrupt'[s].by = p => interrupt'[s] # NoInterrupt
    BY <1>1 DEF NoInterrupt
  <2> QED
    BY <1>1, <2>3, <2>4, <2>5, <2>6, <2>7, <2>8 DEF RowMoves, Names
<1> QED
  BY <1>2, <1>3, <1>4, <1>5 DEF ClaimMoves

\* A paused run keeps its row: the claims of its session are not spent.
LEMMA PausesStayRecoverable ==
    ASSUME CoordinatorAssumption, Inv, RecoveryInv, ClaimStep,
           \A r \in Runs : PausesTogether(r), NEW r \in Runs, Paused(r)'
    PROVE  interrupt'[SessionOf[r]].run = r /\ JobWaits(r)'
<1>1. PICK s \in Sessions : s = SessionOf[r]
  BY DEF CoordinatorAssumption
<1>2. CASE JobWaits(r)' /\ Names(s, r)
  BY <1>1, <1>2 DEF Names
<1>3. CASE Paused(r) /\ (JobWaits(r) => JobWaits(r)')
  <2>1. Live(r) /\ interrupt[s].run = r /\ JobWaits(r)
    BY <1>1, <1>3 DEF Paused, RecoveryInv, PausedIsRecoverable, JobWaits
  <2>2. ASSUME NEW q \in Runs, SessionOf[q] = s, Live(q), Names(s, q)
        PROVE  interrupt'[s].run = r
    BY <1>1, <2>1, <2>2 DEF Inv, DbInv, OneLiveRunPerSession, Names
  <2>3. ASSUME NEW q \in Runs, interrupt[s].run = q, ~Live(q)'
        PROVE  FALSE
    BY <2>1, <2>3 DEF Paused
  <2>4. ASSUME NEW p \in Streams, Claims(p), MayAck(p), SessionOf[proc[p].run] = s
        PROVE  FALSE
    BY <1>3, <2>1, <2>4 DEF RecoveryInv, ClaimIsSpent
  <2>5. interrupt'[s].run = r
    <3>1. RowMoves(s)
      BY DEF ClaimStep
    <3>2. \/ interrupt'[s] = interrupt[s]
          \/ \E q \in Runs : SessionOf[q] = s /\ Live(q) /\ Names(s, q)
          \/ interrupt'[s].run = interrupt[s].run
      BY <2>3, <2>4, <3>1 DEF RowMoves, Names
    <3> QED
      BY <2>1, <2>2, <3>2
  <2> QED
    BY <1>1, <1>3, <2>1, <2>5
<1> QED
  BY <1>1, <1>2, <1>3 DEF PausesTogether

LEMMA RecoveryInit ==
    ASSUME Init
    PROVE  RecoveryInv
<1>1. \A p \in Streams : proc[p].pc = "idle" /\ ~proc[p].holds
  BY DEF Init, Idle, Procs
<1>2. RowsNameTheirSession /\ PausedIsRecoverable
  BY DEF Init, DbInit, NoInterrupt, RowsNameTheirSession, PausedIsRecoverable, Live, Unfinished
<1> QED
  BY <1>1, <1>2 DEF RecoveryInv, ClaimIsSpent, Claims

LEMMA RecoveryStep ==
    ASSUME CoordinatorAssumption, ExecutionAssumption, Inv, Inv', RecoveryInv, [Next]_vars
    PROVE  RecoveryInv'
<1>1. ClaimStep
  BY EveryClaimStep
<1>2. \A r \in Runs : PausesTogether(r)
  BY StepIsTransaction, EveryRunPauses DEF Inv
<1>3. PausedIsRecoverable'
  BY <1>1, <1>2, PausesStayRecoverable DEF PausedIsRecoverable, Paused, JobWaits, Live
<1> QED
  BY <1>1, <1>2, <1>3, RowsKeepTheirSession, ClaimsStaySpent DEF RecoveryInv

\* Whoever claims, acknowledges, dies or is fenced out: a paused run can be
\* found again through its session's interrupt row, and its job waits with it.
THEOREM PausesAreRecoverable == Spec => []PausedIsRecoverable
<1>1. Init => RecoveryInv
  BY RecoveryInit
<1>2. Inv /\ Inv' /\ RecoveryInv /\ [Next]_vars => RecoveryInv'
  BY RecoveryStep, CoordinatorAssumption, ExecutionAssumption
<1>3. RecoveryInv => PausedIsRecoverable
  BY DEF RecoveryInv
<1> QED
  BY <1>1, <1>2, <1>3, Invariant, PTL DEF Spec

-----------------------------------------------------------------------------
(* The head of the queue is no dead end: a due job of a paused run, which a  *)
(* claim would leave at the head for ever, is not reached.                  *)

\* claim_job can close the job of a due run, lease it, or wait for the lease of
\* the attempt that is running: none of its other returns without a change.
DueIsTakeable(r) ==
    DueJob(r) => \/ Terminal(r)
                 \/ Claimable(r)
                 \/ exec[r].state = "RUNNING" /\ LeaseValid(r)
HeadCanMoveOn == \A r \in Runs : DueIsTakeable(r)

\* The execution of an unfinished run is not closed.
OpenStates == {"QUEUED", "RUNNING", "PAUSED"}
ExecutionIsOpen(r) == Live(r) => exec[r].state \in OpenStates
StaysOpen(r) == Live(r)' => \/ exec'[r].state \in OpenStates
                            \/ Live(r) /\ exec'[r].state = exec[r].state

LEMMA SameRowStaysOpen ==
    ASSUME NEW r \in Runs, Live(r)' => Live(r), exec'[r] = exec[r]
    PROVE  StaysOpen(r)
  BY DEF StaysOpen

LEMMA PermitStaysOpen ==
    ASSUME DbInv, NEW r \in Runs, PermitTransaction(r, exec[r].token)
    PROVE  StaysOpen(r)
<1> DEFINE token == exec[r].token
<1>1. exec[r].state = "RUNNING"
  BY DEF PermitTransaction, AppendHarnessEvent, PersistHarnessSnapshot, ConsumeRecoveryCheckpoint,
     PersistSupervisorSnapshot, DecideActionProposals, Pause, Finish, RequireActive
<1>2. ASSUME NEW o \in FinishStatuses, Finish(r, token, o)
      PROVE  ~Live(r)'
  BY <1>2 DEF Finish, DbInv, DbTypeOK, Live, FinishStatuses, Unfinished
<1>3. ASSUME NEW reason, Pause(r, token, reason)
      PROVE  exec'[r].state = "PAUSED"
  BY <1>3 DEF Pause, DbInv, DbTypeOK
<1>4. CASE ConsumeRecoveryCheckpoint(r, token)
  <2>1. exec'[r].state = exec[r].state
    BY <1>4 DEF ConsumeRecoveryCheckpoint, DbInv, DbTypeOK, ExecRow
  <2> QED
    BY <1>1, <2>1 DEF StaysOpen, OpenStates
<1> QED
  BY <1>1, <1>2, <1>3, <1>4 DEF PermitTransaction, AppendHarnessEvent, PersistHarnessSnapshot,
     PersistSupervisorSnapshot, DecideActionProposals, StaysOpen, OpenStates

LEMMA ClaimStaysOpen ==
    ASSUME DbInv, NEW r \in Runs, ClaimTransaction(r)
    PROVE  StaysOpen(r)
<1>1. ASSUME NEW l, NewAttempt(r, l)
      PROVE  exec'[r].state = "RUNNING"
  BY <1>1 DEF NewAttempt, DbInv, DbTypeOK
<1>2. CASE ClaimJobOfClosedRun(r)
  BY <1>2 DEF ClaimJobOfClosedRun, StaysOpen, Live, Terminal, Unfinished, PublicTerminal, FinishStatuses
<1>3. CASE PauseRecoveryLimit(r)
  <2>1. exec'[r].state = "PAUSED"
    BY <1>3 DEF PauseRecoveryLimit, DbInv, DbTypeOK
  <2> QED
    BY <2>1 DEF StaysOpen, OpenStates
<1> QED
  BY <1>1, <1>2, <1>3 DEF ClaimTransaction, Claim, Resume, ResumeForWorker, ClaimJobFresh,
     ClaimJobTakeover, StaysOpen, OpenStates

LEMMA OwnerlessStaysOpen ==
    ASSUME DbInv, NEW r \in Runs, OwnerlessTransaction(r)
    PROVE  StaysOpen(r)
<1>1. ASSUME NEW b, StartHarnessTurn(r, b) \/ ReconcileExpired(r, b)
      PROVE  exec'[r].state \in {"QUEUED", "PAUSED"}
  BY <1>1 DEF StartHarnessTurn, ReconcileExpired, DbInv, DbTypeOK
<1>2. ASSUME \/ \E proof : BindRecoveredCheckpoint(r, proof)
             \/ ExpireExecutionLease(r) \/ ExpireJobLease(r) \/ SaverAdvance(r)
      PROVE  StaysOpen(r)
  <2>1. exec'[r].state = exec[r].state /\ run' = run
    BY <1>2 DEF BindRecoveredCheckpoint, ExpireExecutionLease, ExpireJobLease, SaverAdvance,
       DbInv, DbTypeOK, ExecRow
  <2> QED
    BY <2>1 DEF StaysOpen, Live
<1>3. CASE Cancel(r)
  <2>1. ~Live(r)'
    BY <1>3 DEF Cancel, Live, Unfinished, DbInv, DbTypeOK
  <2> QED
    BY <2>1 DEF StaysOpen
<1> QED
  BY <1>1, <1>2, <1>3 DEF OwnerlessTransaction, StaysOpen, OpenStates

LEMMA EveryRunStaysOpen ==
    ASSUME DbInv, [DbNext]_dbVars, NEW q \in Runs
    PROVE  StaysOpen(q)
<1>1. CASE UNCHANGED dbVars
  BY <1>1, SameRowStaysOpen DEF dbVars, Live
<1>2. ASSUME NEW r \in Runs,
             \/ PermitTransaction(r, exec[r].token)
             \/ ClaimTransaction(r)
             \/ OwnerlessTransaction(r)
      PROVE  StaysOpen(q)
  <2>1. CASE q = r
    BY <1>2, <2>1, PermitStaysOpen, ClaimStaysOpen, OwnerlessStaysOpen
  <2>2. CASE q # r
    BY <1>2, <2>2, OtherRows, SameRowStaysOpen DEF DbInv, SameRow, Live
  <2> QED
    BY <2>1, <2>2
<1>3. ASSUME NEW s \in Sessions, NEW p \in Streams, InterruptTransaction(s, p)
      PROVE  StaysOpen(q)
  BY <1>3, SameRowStaysOpen DEF InterruptTransaction, ClaimChatInterrupt, AckChatInterrupt,
     ReleaseChatInterrupt, Live
<1>4. CASE FreezeInFlightRuns
  <2>1. Live(q)' => Live(q)
    BY <1>4, FreezeRow DEF DbInv, NeverReopens
  <2> QED
    BY <1>4, <2>1, SameRowStaysOpen DEF FreezeInFlightRuns
<1> QED
  BY <1>1, <1>2, <1>3, <1>4 DEF DbNext

LEMMA ExecutionsStayOpen == Spec => [](\A r \in Runs : ExecutionIsOpen(r))
<1>1. Init => \A r \in Runs : ExecutionIsOpen(r)
  BY DEF Init, DbInit, ExecutionIsOpen, Live, Unfinished
<1>2. Inv /\ (\A r \in Runs : ExecutionIsOpen(r)) /\ [Next]_vars => (\A r \in Runs : ExecutionIsOpen(r))'
  BY StepIsTransaction, EveryRunStaysOpen, CoordinatorAssumption, ExecutionAssumption
     DEF Inv, ExecutionIsOpen, StaysOpen, Live
<1> QED
  BY <1>1, <1>2, Invariant, PTL DEF Spec

\* claim_job looks at the head of the due jobs only: whichever run it belongs to,
\* the claim closes it, leases it, or waits for an attempt under a valid lease.
THEOREM HeadOfQueueIsNoDeadEnd == Spec => []HeadCanMoveOn
<1>1. Inv /\ (\A r \in Runs : ExecutionIsOpen(r)) /\ PausedIsRecoverable => HeadCanMoveOn
  <2> SUFFICES ASSUME Inv, \A r \in Runs : ExecutionIsOpen(r), PausedIsRecoverable,
                      NEW r \in Runs, DueJob(r), ~Terminal(r)
               PROVE  Claimable(r) \/ (exec[r].state = "RUNNING" /\ LeaseValid(r))
    BY DEF HeadCanMoveOn, DueIsTakeable
  <2>1. Live(r)
    BY DEF Inv, DbInv, DbTypeOK, RunStatuses, Unfinished, RowInv, AbsentIsEmpty, Live, Terminal, DueJob
  <2>2. exec[r].state # "PAUSED"
    BY <2>1 DEF PausedIsRecoverable, DueJob
  <2>3. exec[r].state \in {"QUEUED", "RUNNING"}
    BY <2>1, <2>2 DEF ExecutionIsOpen, OpenStates
  <2> QED
    BY <2>3 DEF Claimable
<1> QED
  BY <1>1, Invariant, ExecutionsStayOpen, PausesAreRecoverable, PTL
=============================================================================
