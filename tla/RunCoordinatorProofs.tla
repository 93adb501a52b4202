------------------------ MODULE RunCoordinatorProofs ------------------------
(***************************************************************************)
(* What the coordinator's transactions guarantee for every number of runs, *)
(* sessions, workers and API streams, whoever calls them and in any order. *)
(***************************************************************************)
EXTENDS RunCoordinator, TLAPS

\* Before its row exists a run has no execution, no turn, no job, no events.
AbsentIsEmpty(r) ==
    /\ run[r] = "ABSENT" => /\ exec[r] = [state |-> "ABSENT", token |-> 0, lease |-> "none",
                                          proof |-> NoProof]
                            /\ job[r].status = "NONE"
                            /\ log[r].finals = 0
    /\ run[r] = "ABSENT" <=> turn[r] = "none"

RowInv(r) == AbsentIsEmpty(r) /\ (run[r] # "ROLLBACK_FROZEN" => Closes(r))

\* The inductive invariant of the database.
DbInv == DbTypeOK /\ (\A r \in Runs : RowInv(r)) /\ OneLiveRunPerSession

-----------------------------------------------------------------------------
(* Helpers.                                                                *)

\* Closing or parking a job keeps the job table well formed.
LEMMA FinishJobType ==
    ASSUME DbTypeOK, NEW r \in Runs, NEW s \in JobOpen \cup JobClosed, FinishJob(r, s)
    PROVE  job' \in [Runs -> JobRow] /\ ahead' \subseteq Runs \X Runs
  BY DEF DbTypeOK, FinishJob, JobRow, Leases

LEMMA RequeueJobType ==
    ASSUME DbTypeOK, NEW r \in Runs, RequeueJob(r)
    PROVE  job' \in [Runs -> JobRow] /\ ahead' \subseteq Runs \X Runs
  BY DEF DbTypeOK, RequeueJob, AheadLast, JobRow, JobOpen, Leases

LEMMA EnqueueJobType ==
    ASSUME DbTypeOK, NEW r \in Runs, EnqueueJob(r)
    PROVE  job' \in [Runs -> JobRow] /\ ahead' \subseteq Runs \X Runs
  BY DEF DbTypeOK, EnqueueJob, AheadLast, JobRow, JobOpen, Leases

LEMMA LogAppendType ==
    ASSUME DbTypeOK, NEW r \in Runs, NEW e \in LastEvents, LogAppend(r, e)
    PROVE  log' \in [Runs -> LogRow]
  BY DEF DbTypeOK, LogAppend, LogRow

LEMMA LogFinalType ==
    ASSUME DbTypeOK, NEW r \in Runs, NEW displayed \in BOOLEAN, LogFinal(r, displayed)
    PROVE  log' \in [Runs -> LogRow]
  BY DEF DbTypeOK, LogFinal, LogRow, LastEvents

-----------------------------------------------------------------------------
(* Type correctness, one lemma per group of transactions.                  *)

LEMMA PermitTypes ==
    ASSUME DbTypeOK, NEW r \in Runs, NEW token \in Nat, PermitTransaction(r, token)
    PROVE  DbTypeOK'
<1>1. CASE AppendHarnessEvent(r, token)
  BY <1>1, LogAppendType DEF AppendHarnessEvent, DbTypeOK, LastEvents
<1>2. CASE PersistHarnessSnapshot(r, token)
  BY <1>2, LogAppendType DEF PersistHarnessSnapshot, DbTypeOK, LastEvents, RunStatuses, Unfinished, TurnStatuses
<1>3. CASE ConsumeRecoveryCheckpoint(r, token)
  BY <1>3 DEF ConsumeRecoveryCheckpoint, DbTypeOK, ExecRow, NoProof
<1>4. CASE \E reason \in {"waiting_approval", "needs_review"} : Pause(r, token, reason)
  <2> PICK reason : Pause(r, token, reason)
    BY <1>4
  <2>1. job' \in [Runs -> JobRow] /\ ahead' \subseteq Runs \X Runs
    BY FinishJobType DEF Pause, JobOpen
  <2>2. log' \in [Runs -> LogRow]
    BY LogAppendType DEF Pause, LastEvents
  <2>3. exec' \in [Runs -> ExecRow]
    BY DEF Pause, DbTypeOK, ExecRow, ExecStates, Leases, ProofOf
  <2>4. interrupt' \in [Sessions -> InterruptRow]
    BY DEF Pause, UpsertInterrupt, DbTypeOK, InterruptRow
  <2> QED
    BY <2>1, <2>2, <2>3, <2>4 DEF Pause, DbTypeOK, RunStatuses, Unfinished, TurnStatuses
<1>5. CASE \E o \in FinishStatuses : Finish(r, token, o)
  <2> PICK o \in FinishStatuses : Finish(r, token, o)
    BY <1>5
  <2>1. job' \in [Runs -> JobRow] /\ ahead' \subseteq Runs \X Runs
    BY FinishJobType DEF Finish, JobClosed
  <2>2. log' \in [Runs -> LogRow]
    BY LogFinalType DEF Finish, MayDisplay
  <2>3. exec' \in [Runs -> ExecRow]
    BY DEF Finish, DbTypeOK, ExecRow, ExecStates, Leases
  <2>4. turn' \in [Runs -> TurnStatuses]
    BY DEF Finish, TurnOutcome, DbTypeOK, TurnStatuses, TurnTerminal
  <2> QED
    BY <2>1, <2>2, <2>3, <2>4 DEF Finish, DbTypeOK, RunStatuses, Unfinished, PublicTerminal
<1>6. CASE \E status \in SnapshotStatuses : PersistSupervisorSnapshot(r, token, status)
  BY <1>6, LogAppendType DEF PersistSupervisorSnapshot, DbTypeOK, LastEvents, RunStatuses, Unfinished
<1>7. CASE \E approved \in BOOLEAN : DecideActionProposals(r, token, approved)
  BY <1>7, LogAppendType DEF DecideActionProposals, DbTypeOK, LastEvents, RunStatuses, Unfinished
<1> QED
  BY <1>1, <1>2, <1>3, <1>4, <1>5, <1>6, <1>7 DEF PermitTransaction

LEMMA NewAttemptType ==
    ASSUME DbTypeOK, NEW r \in Runs, NEW lease \in Leases, NewAttempt(r, lease)
    PROVE  exec' \in [Runs -> ExecRow]
  BY DEF DbTypeOK, NewAttempt, ExecRow, ExecStates

LEMMA LeaseJobType ==
    ASSUME DbTypeOK, NEW r \in Runs, NEW w \in Workers, NEW n \in Nat, LeaseJob(r, w, n)
    PROVE  job' \in [Runs -> JobRow]
  BY DEF DbTypeOK, LeaseJob, JobRow, JobOpen, Leases

LEMMA ClaimTypes ==
    ASSUME DbTypeOK, NEW r \in Runs, ClaimTransaction(r)
    PROVE  DbTypeOK'
<1>1. CASE Claim(r)
  BY <1>1, NewAttemptType DEF Claim, DbTypeOK, Leases
<1>2. CASE Resume(r, exec[r].proof)
  BY <1>2, NewAttemptType, RequeueJobType DEF Resume, DbTypeOK, Leases
<1>3. CASE ResumeForWorker(r)
  BY <1>3, NewAttemptType, RequeueJobType DEF ResumeForWorker, DbTypeOK, Leases
<1>4. CASE ClaimJobOfClosedRun(r)
  BY <1>4, FinishJobType DEF ClaimJobOfClosedRun, DbTypeOK, JobClosed
<1>5. CASE PauseRecoveryLimit(r)
  <2>1. job' \in [Runs -> JobRow] /\ ahead' \subseteq Runs \X Runs
    BY <1>5, FinishJobType DEF PauseRecoveryLimit, JobClosed
  <2>2. log' \in [Runs -> LogRow]
    BY <1>5, LogFinalType DEF PauseRecoveryLimit
  <2>3. exec' \in [Runs -> ExecRow]
    BY <1>5 DEF PauseRecoveryLimit, DbTypeOK, ExecRow, ExecStates, Leases
  <2> QED
    BY <1>5, <2>1, <2>2, <2>3
    DEF PauseRecoveryLimit, DbTypeOK, RunStatuses, Unfinished, PublicTerminal, FinishStatuses, TurnStatuses, TurnTerminal
<1>6. CASE \E w \in Workers : ClaimJobFresh(r, w) \/ ClaimJobTakeover(r, w)
  <2> PICK w \in Workers : ClaimJobFresh(r, w) \/ ClaimJobTakeover(r, w)
    BY <1>6
  <2>1. job[r].recoveries \in Nat
    BY DEF DbTypeOK, JobRow
  <2>2. job' \in [Runs -> JobRow]
    BY <2>1, LeaseJobType DEF ClaimJobFresh, ClaimJobTakeover
  <2>3. exec' \in [Runs -> ExecRow]
    BY NewAttemptType DEF ClaimJobFresh, ClaimJobTakeover, Leases
  <2> QED
    BY <2>2, <2>3 DEF ClaimJobFresh, ClaimJobTakeover, DbTypeOK
<1> QED
  BY <1>1, <1>2, <1>3, <1>4, <1>5, <1>6 DEF ClaimTransaction

LEMMA OwnerlessTypes ==
    ASSUME CoordinatorAssumption, DbTypeOK, NEW r \in Runs, OwnerlessTransaction(r)
    PROVE  DbTypeOK'
<1>1. CASE \E withJob \in BOOLEAN : StartHarnessTurn(r, withJob)
  <2>1. job' \in [Runs -> JobRow] /\ ahead' \subseteq Runs \X Runs
    BY <1>1, EnqueueJobType DEF StartHarnessTurn, DbTypeOK
  <2>2. exec' \in [Runs -> ExecRow]
    BY <1>1 DEF StartHarnessTurn, DbTypeOK, ExecRow, ExecStates, Leases, NoProof
  <2> QED
    BY <1>1, <2>1, <2>2 DEF StartHarnessTurn, DbTypeOK, RunStatuses, Unfinished, TurnStatuses
<1>2. CASE \E proof \in 1..ProofOf(r) : BindRecoveredCheckpoint(r, proof)
  BY <1>2 DEF BindRecoveredCheckpoint, DbTypeOK, ExecRow, ProofOf
<1>3. CASE Cancel(r)
  <2>1. job' \in [Runs -> JobRow] /\ ahead' \subseteq Runs \X Runs
    BY <1>3, FinishJobType DEF Cancel, JobClosed
  <2>2. log' \in [Runs -> LogRow]
    BY <1>3, LogFinalType DEF Cancel
  <2>3. exec' \in [Runs -> ExecRow]
    BY <1>3 DEF Cancel, DbTypeOK, ExecRow, ExecStates, Leases
  <2>4. interrupt' \in [Sessions -> InterruptRow]
    BY <1>3 DEF Cancel, DbTypeOK, InterruptRow, NoInterrupt
  <2>5. run' \in [Runs -> RunStatuses] /\ turn' \in [Runs -> TurnStatuses]
    BY <1>3 DEF Cancel, DbTypeOK, RunStatuses, Unfinished, PublicTerminal, TurnStatuses, TurnTerminal
  <2> QED
    BY <1>3, <2>1, <2>2, <2>3, <2>4, <2>5 DEF Cancel, DbTypeOK
<1>4. CASE \E excludeHarness \in BOOLEAN : ReconcileExpired(r, excludeHarness)
  <2> PICK b : ReconcileExpired(r, b)
    BY <1>4
  <2>1. job' \in [Runs -> JobRow] /\ ahead' \subseteq Runs \X Runs
    BY FinishJobType DEF ReconcileExpired, JobOpen
  <2>2. log' \in [Runs -> LogRow]
    BY LogAppendType DEF ReconcileExpired, LastEvents
  <2>3. exec' \in [Runs -> ExecRow]
    BY DEF ReconcileExpired, DbTypeOK, ExecRow, ExecStates, Leases, NoProof
  <2>4. interrupt' \in [Sessions -> InterruptRow]
    BY DEF ReconcileExpired, UpsertInterrupt, DbTypeOK, InterruptRow
  <2> QED
    BY <2>1, <2>2, <2>3, <2>4 DEF ReconcileExpired, DbTypeOK
<1>5. CASE ExpireExecutionLease(r)
  BY <1>5 DEF ExpireExecutionLease, DbTypeOK, ExecRow, Leases
<1>6. CASE ExpireJobLease(r)
  BY <1>6 DEF ExpireJobLease, DbTypeOK, JobRow, Leases
<1>7. CASE SaverAdvance(r)
  BY <1>7 DEF SaverAdvance, DbTypeOK
<1> QED
  BY <1>1, <1>2, <1>3, <1>4, <1>5, <1>6, <1>7 DEF OwnerlessTransaction

LEMMA InterruptTypes ==
    ASSUME DbTypeOK, NEW s \in Sessions, NEW p \in Streams, InterruptTransaction(s, p)
    PROVE  DbTypeOK'
  BY DEF InterruptTransaction, ClaimChatInterrupt, AckChatInterrupt, ReleaseChatInterrupt,
         DbTypeOK, InterruptRow, NoInterrupt

LEMMA FreezeTypes ==
    ASSUME DbTypeOK, FreezeInFlightRuns
    PROVE  DbTypeOK'
  BY DEF FreezeInFlightRuns, DbTypeOK, RunStatuses, Unfinished, PublicTerminal

\* Every transaction keeps every column inside its domain.
LEMMA DbStepTypes ==
    ASSUME CoordinatorAssumption, DbTypeOK, [DbNext]_dbVars
    PROVE  DbTypeOK'
<1>1. CASE UNCHANGED dbVars
  BY <1>1 DEF dbVars, DbTypeOK
<1>2. ASSUME NEW r \in Runs,
             \/ PermitTransaction(r, exec[r].token)
             \/ ClaimTransaction(r)
             \/ OwnerlessTransaction(r)
      PROVE  DbTypeOK'
  <2>1. exec[r].token \in Nat
    BY DEF DbTypeOK, ExecRow
  <2> QED
    BY <1>2, <2>1, PermitTypes, ClaimTypes, OwnerlessTypes
<1>3. ASSUME NEW s \in Sessions, NEW p \in Streams, InterruptTransaction(s, p)
      PROVE  DbTypeOK'
  BY <1>3, InterruptTypes
<1>4. CASE FreezeInFlightRuns
  BY <1>4, FreezeTypes
<1> QED
  BY <1>1, <1>2, <1>3, <1>4 DEF DbNext

LEMMA DbInitTypes ==
    ASSUME CoordinatorAssumption, DbInit
    PROVE  DbTypeOK
  BY DEF DbInit, DbTypeOK, RunStatuses, Unfinished, TurnStatuses, ExecRow, ExecStates, Leases, NoProof,
         JobRow, InterruptRow, NoInterrupt, LogRow, LastEvents

\* The tables stay well formed under any interleaving of transactions.
THEOREM DbTypeCorrect == DbSpec => []DbTypeOK
<1>1. DbInit => DbTypeOK
  BY DbInitTypes, CoordinatorAssumption
<1>2. DbTypeOK /\ [DbNext]_dbVars => DbTypeOK'
  BY DbStepTypes, CoordinatorAssumption
<1> QED
  BY <1>1, <1>2, PTL DEF DbSpec

-----------------------------------------------------------------------------
(* Each transaction touches the row of one run and, in that row, keeps the   *)
(* parts of a run's end together, leaves a finished run alone and advances   *)
(* the fence.                                                              *)

\* A permit that passes require_active can exist for r.
Holdable(r) == ~Terminal(r) /\ exec[r].state = "RUNNING" /\ exec[r].lease = "valid"

StaysFinal(r) ==
    Terminal(r) => run'[r] = run[r] /\ turn'[r] = turn[r] /\ log'[r] = log[r]

FencesOwner(r) ==
    \/ exec'[r].token > exec[r].token
    \/ exec'[r].token = exec[r].token /\ (Holdable(r)' => Holdable(r))

NeverReopens(r) == Live(r)' => Live(r)

RowStep(r) == RowInv(r)' /\ StaysFinal(r) /\ FencesOwner(r)

\* Nothing that the other promises mention changes for r.
SameRow(r) == /\ run'[r] = run[r] /\ turn'[r] = turn[r] /\ exec'[r] = exec[r]
              /\ job'[r] = job[r] /\ log'[r] = log[r]

\* What the three helpers do to the row of their run.
LEMMA RowEffects ==
    ASSUME DbTypeOK, NEW r \in Runs
    PROVE  /\ \A e : LogAppend(r, e) => log'[r].finals = log[r].finals
           /\ \A displayed \in BOOLEAN : LogFinal(r, displayed) => log'[r].finals = log[r].finals + 1
           /\ \A s : FinishJob(r, s) =>
                 job'[r].status = IF HasOpenJob(r) THEN s ELSE job[r].status
           /\ RequeueJob(r) => job'[r].status \in {job[r].status, "QUEUED"}
           /\ \A l : NewAttempt(r, l) =>
                 exec'[r] = [state |-> "RUNNING", token |-> exec[r].token + 1, lease |-> l,
                             proof |-> exec[r].proof]
  BY DEF DbTypeOK, LogRow, LogAppend, LogFinal, FinishJob, RequeueJob, NewAttempt

\* From the effects on one row to the promises about it.
LEMMA RowPromises ==
    ASSUME DbTypeOK, NEW r \in Runs, RowInv(r), Live(r),
           \/ /\ run'[r] \in Unfinished
              /\ turn'[r] \in {"running", "waiting_approval"}
              /\ log'[r].finals = log[r].finals
              /\ job'[r].status \notin JobClosed
           \/ /\ run'[r] \in PublicTerminal
              /\ turn'[r] \in TurnTerminal
              /\ log'[r].finals = log[r].finals + 1
              /\ exec'[r].lease = "none"
              /\ job'[r].status \notin JobOpen
           \/ /\ run'[r] = "ROLLBACK_FROZEN"
              /\ turn'[r] = turn[r],
           FencesOwner(r)
    PROVE  RowStep(r) /\ NeverReopens(r)
  BY DEF RowStep, RowInv, AbsentIsEmpty, Closes, HasOpenJob, StaysFinal, Terminal, NeverReopens, Live, Unfinished,
         PublicTerminal, FinishStatuses, TurnTerminal, JobOpen, JobClosed

\* Of a live run: nothing has ended yet.
LEMMA LiveRow ==
    ASSUME DbTypeOK, NEW r \in Runs, RowInv(r), Live(r)
    PROVE  /\ run[r] \in Unfinished
           /\ turn[r] \in {"running", "waiting_approval"}
           /\ log[r].finals = 0
           /\ job[r].status \notin JobClosed
           /\ exec[r].token \in Nat
  BY DEF DbTypeOK, ExecRow, RowInv, AbsentIsEmpty, Closes, Terminal, Live, Unfinished, PublicTerminal,
         FinishStatuses, TurnTerminal, TurnStatuses

LEMMA SameRowStep ==
    ASSUME DbTypeOK, NEW r \in Runs, RowInv(r), SameRow(r)
    PROVE  RowStep(r) /\ NeverReopens(r)
  BY DEF DbTypeOK, ExecRow, SameRow, RowStep, RowInv, AbsentIsEmpty, Closes, HasOpenJob, StaysFinal,
         FencesOwner, Holdable, Terminal, NeverReopens, Live, Unfinished

\* A permit holder's transactions, refused without require_active.
LEMMA PermitRow ==
    ASSUME DbTypeOK, NEW r \in Runs, RowInv(r), PermitTransaction(r, exec[r].token)
    PROVE  RowStep(r) /\ NeverReopens(r)
<1> DEFINE token == exec[r].token
<1>1. RequireActive(r, token)
  BY DEF PermitTransaction, AppendHarnessEvent, PersistHarnessSnapshot, ConsumeRecoveryCheckpoint,
         PersistSupervisorSnapshot, DecideActionProposals, Pause, Finish
<1>2. Live(r) /\ Holdable(r)
  BY <1>1 DEF DbTypeOK, RunStatuses, Unfinished, RowInv, AbsentIsEmpty, Live, Terminal, RequireActive, Holdable
<1>3. CASE AppendHarnessEvent(r, token)
  BY <1>2, <1>3, LiveRow, RowEffects, RowPromises DEF AppendHarnessEvent, FencesOwner
<1>4. CASE PersistHarnessSnapshot(r, token)
  <2>1. run'[r] = "RUNNING" /\ turn'[r] = "running"
    BY <1>4 DEF PersistHarnessSnapshot, DbTypeOK, Unfinished
  <2> QED
    BY <2>1, <1>2, <1>4, LiveRow, RowEffects, RowPromises DEF PersistHarnessSnapshot, FencesOwner, Unfinished
<1>5. CASE ConsumeRecoveryCheckpoint(r, token)
  <2>1. exec'[r].token = exec[r].token
    BY <1>5 DEF ConsumeRecoveryCheckpoint, DbTypeOK, ExecRow
  <2> QED
    BY <2>1, <1>2, <1>5, LiveRow, RowPromises DEF ConsumeRecoveryCheckpoint, FencesOwner
<1>6. ASSUME NEW reason, Pause(r, token, reason)
      PROVE  RowStep(r) /\ NeverReopens(r)
  <2>1. /\ run'[r] \in Unfinished
        /\ turn'[r] \in {"running", "waiting_approval"}
        /\ exec'[r].token = exec[r].token
    BY <1>6 DEF Pause, DbTypeOK, Unfinished
  <2>2. log'[r].finals = log[r].finals
    BY <1>6, <1>2, LiveRow, RowEffects DEF Pause
  <2>3. job'[r].status \notin JobClosed
    BY <1>6, <1>2, LiveRow, RowEffects DEF Pause, JobClosed
  <2> QED
    BY <2>1, <2>2, <2>3, <1>2, RowPromises DEF FencesOwner
<1>7. ASSUME NEW o \in FinishStatuses, Finish(r, token, o)
      PROVE  RowStep(r) /\ NeverReopens(r)
  <2>1. /\ run'[r] \in PublicTerminal
        /\ turn'[r] \in TurnTerminal
        /\ exec'[r].token = exec[r].token
        /\ exec'[r].lease = "none"
    BY <1>7 DEF Finish, TurnOutcome, DbTypeOK, PublicTerminal, TurnTerminal
  <2>2. log'[r].finals = log[r].finals + 1
    <3>1. \E displayed \in BOOLEAN : LogFinal(r, displayed)
      BY <1>7 DEF Finish, MayDisplay
    <3> QED
      BY <3>1, RowEffects, Zenon
  <2>3. job'[r].status \notin JobOpen
    BY <1>7, RowEffects DEF Finish, HasOpenJob, JobOpen
  <2> QED
    BY <2>1, <2>2, <2>3, <1>2, RowPromises DEF FencesOwner
<1>8. ASSUME \/ \E status \in SnapshotStatuses : PersistSupervisorSnapshot(r, token, status)
            \/ \E approved \in BOOLEAN : DecideActionProposals(r, token, approved)
      PROVE  RowStep(r) /\ NeverReopens(r)
  <2>1. run'[r] \in Unfinished /\ LogAppend(r, "progress")
        /\ UNCHANGED <<turn, exec, job, ahead, interrupt, saver>>
    BY <1>8, <1>2 DEF PersistSupervisorSnapshot, DecideActionProposals, DbTypeOK, Live, Unfinished
  <2> QED
    BY <2>1, <1>2, LiveRow, RowEffects, RowPromises DEF FencesOwner, Unfinished
<1> QED
  BY <1>3, <1>4, <1>5, <1>6, <1>7, <1>8 DEF PermitTransaction

\* A new attempt always carries a new token.
LEMMA NewAttemptFences ==
    ASSUME DbTypeOK, NEW r \in Runs, NEW l, NewAttempt(r, l)
    PROVE  FencesOwner(r)
<1>1. exec'[r].token = exec[r].token + 1
  BY DEF NewAttempt, DbTypeOK
<1>2. exec[r].token \in Nat
  BY DEF DbTypeOK, ExecRow
<1> QED
  BY <1>1, <1>2 DEF FencesOwner

LEMMA ClaimRow ==
    ASSUME DbTypeOK, NEW r \in Runs, RowInv(r), ClaimTransaction(r)
    PROVE  RowStep(r) /\ NeverReopens(r)
<1>1. CASE Claim(r)
  BY <1>1, NewAttemptFences, LiveRow, RowPromises DEF Claim
<1>2. CASE Resume(r, exec[r].proof)
  <2>1. Live(r) /\ job'[r].status \notin JobClosed
    BY <1>2, LiveRow, RowEffects DEF Resume, Resumable, JobClosed
  <2> QED
    BY <1>2, <2>1, NewAttemptFences, LiveRow, RowPromises DEF Resume
<1>3. CASE ResumeForWorker(r)
  <2>1. Live(r) /\ job'[r].status \notin JobClosed
    BY <1>3, LiveRow, RowEffects DEF ResumeForWorker, JobClosed
  <2> QED
    BY <1>3, <2>1, NewAttemptFences, LiveRow, RowPromises DEF ResumeForWorker
<1>4. CASE ClaimJobOfClosedRun(r)
  <2>1. job'[r].status \notin JobOpen
    BY <1>4, RowEffects DEF ClaimJobOfClosedRun, HasOpenJob, JobOpen
  <2>2. run'[r] = run[r] /\ turn'[r] = turn[r] /\ exec'[r] = exec[r] /\ log'[r] = log[r] /\ Terminal(r)
    BY <1>4 DEF ClaimJobOfClosedRun
  <2>3. RowInv(r)'
    BY <2>1, <2>2 DEF RowInv, AbsentIsEmpty, Closes, HasOpenJob, Terminal, PublicTerminal, FinishStatuses
  <2>4. StaysFinal(r) /\ FencesOwner(r) /\ NeverReopens(r)
    BY <2>2 DEF DbTypeOK, ExecRow, StaysFinal, FencesOwner, Holdable, Terminal, NeverReopens, Live, Unfinished
  <2> QED
    BY <2>3, <2>4 DEF RowStep
<1>5. CASE PauseRecoveryLimit(r)
  <2>1. Live(r)
    BY <1>5 DEF PauseRecoveryLimit, Claimable, DbTypeOK, RunStatuses, Unfinished, RowInv, AbsentIsEmpty, Live, Terminal
  <2>2. /\ run'[r] \in PublicTerminal
        /\ turn'[r] \in TurnTerminal
        /\ exec'[r].token = exec[r].token + 1
        /\ exec'[r].lease = "none"
    BY <1>5, <2>1, LiveRow
    DEF PauseRecoveryLimit, DbTypeOK, PublicTerminal, FinishStatuses, TurnTerminal
  <2>3. log'[r].finals = log[r].finals + 1 /\ job'[r].status \notin JobOpen
    <3>1. LogFinal(r, FALSE)
      BY <1>5 DEF PauseRecoveryLimit
    <3>2. log'[r].finals = log[r].finals + 1
      BY <3>1, RowEffects, Zenon
    <3> QED
      BY <1>5, <3>2, RowEffects DEF PauseRecoveryLimit, HasOpenJob, JobOpen
  <2> QED
    BY <2>1, <2>2, <2>3, LiveRow, RowPromises DEF FencesOwner
<1>6. ASSUME NEW w \in Workers, ClaimJobFresh(r, w) \/ ClaimJobTakeover(r, w)
      PROVE  RowStep(r) /\ NeverReopens(r)
  <2>1. Live(r)
    BY <1>6 DEF ClaimJobFresh, ClaimJobTakeover, Claimable, DbTypeOK, RunStatuses, Unfinished, RowInv,
       AbsentIsEmpty, Live, Terminal
  <2>2. job'[r].status \notin JobClosed
    BY <1>6 DEF ClaimJobFresh, ClaimJobTakeover, LeaseJob, DbTypeOK, JobClosed
  <2> QED
    BY <1>6, <2>1, <2>2, NewAttemptFences, LiveRow, RowPromises DEF ClaimJobFresh, ClaimJobTakeover
<1> QED
  BY <1>1, <1>2, <1>3, <1>4, <1>5, <1>6 DEF ClaimTransaction

\* A run is created in a row of its own, with the first token still to come.
LEMMA StartRow ==
    ASSUME DbTypeOK, NEW r \in Runs, RowInv(r), NEW withJob \in BOOLEAN, StartHarnessTurn(r, withJob)
    PROVE  RowStep(r)
<1>1. run'[r] = "RUNNING" /\ turn'[r] = "running"
  BY DEF StartHarnessTurn, DbTypeOK
<1>2. exec'[r].token = exec[r].token /\ exec'[r].state = "QUEUED"
  BY DEF StartHarnessTurn, DbTypeOK, RowInv, AbsentIsEmpty
<1>3. job'[r].status \notin JobClosed
  BY DEF StartHarnessTurn, EnqueueJob, DbTypeOK, RowInv, AbsentIsEmpty, JobClosed
<1>4. log'[r] = log[r] /\ log[r].finals = 0
  BY DEF StartHarnessTurn, RowInv, AbsentIsEmpty
<1> QED
  BY <1>1, <1>2, <1>3, <1>4 DEF StartHarnessTurn, RowStep, RowInv, AbsentIsEmpty, Closes, HasOpenJob,
     StaysFinal, FencesOwner, Holdable, Terminal, PublicTerminal, FinishStatuses, TurnTerminal

LEMMA OwnerlessRow ==
    ASSUME DbTypeOK, NEW r \in Runs, RowInv(r), OwnerlessTransaction(r)
    PROVE  RowStep(r) /\ (NeverReopens(r) \/ \E withJob \in BOOLEAN : StartHarnessTurn(r, withJob))
<1>1. ASSUME NEW proof \in 1..ProofOf(r), BindRecoveredCheckpoint(r, proof)
      PROVE  RowStep(r) /\ NeverReopens(r)
  BY <1>1 DEF BindRecoveredCheckpoint, DbTypeOK, ExecRow, RowStep, RowInv, AbsentIsEmpty, Closes,
     HasOpenJob, StaysFinal, FencesOwner, Holdable, Terminal, NeverReopens, Live, Unfinished
<1>2. CASE Cancel(r)
  <2>1. /\ run'[r] \in PublicTerminal
        /\ turn'[r] \in TurnTerminal
        /\ exec'[r].token = exec[r].token
        /\ exec'[r].state = "CANCELLED"
        /\ exec'[r].lease = "none"
    BY <1>2, LiveRow DEF Cancel, DbTypeOK, PublicTerminal, TurnTerminal
  <2>2. log'[r].finals = log[r].finals + 1 /\ job'[r].status \notin JobOpen
    <3>1. LogFinal(r, TRUE)
      BY <1>2 DEF Cancel
    <3>2. log'[r].finals = log[r].finals + 1
      BY <3>1, RowEffects, Zenon
    <3> QED
      BY <1>2, <3>2, RowEffects DEF Cancel, HasOpenJob, JobOpen
  <2> QED
    BY <1>2, <2>1, <2>2, RowPromises DEF Cancel, FencesOwner, Holdable
<1>3. ASSUME NEW b, ReconcileExpired(r, b)
      PROVE  RowStep(r) /\ NeverReopens(r)
  <2>1. log'[r].finals = log[r].finals /\ job'[r].status \notin JobClosed
    BY <1>3, LiveRow, RowEffects DEF ReconcileExpired, JobClosed
  <2>2. exec'[r].token = exec[r].token + 1
    BY <1>3 DEF ReconcileExpired, DbTypeOK
  <2> QED
    BY <1>3, <2>1, <2>2, LiveRow, RowPromises DEF ReconcileExpired, FencesOwner
<1>4. CASE ExpireExecutionLease(r)
  BY <1>4 DEF ExpireExecutionLease, DbTypeOK, ExecRow, RowStep, RowInv, AbsentIsEmpty, Closes,
     HasOpenJob, StaysFinal, FencesOwner, Holdable, Terminal, NeverReopens, Live, Unfinished
<1>5. CASE ExpireJobLease(r)
  BY <1>5 DEF ExpireJobLease, DbTypeOK, ExecRow, JobRow, RowStep, RowInv, AbsentIsEmpty, Closes,
     HasOpenJob, StaysFinal, FencesOwner, Holdable, Terminal, NeverReopens, Live, Unfinished
<1>6. CASE SaverAdvance(r)
  BY <1>6, SameRowStep DEF SaverAdvance, SameRow
<1> QED
  BY <1>1, <1>2, <1>3, <1>4, <1>5, <1>6, StartRow DEF OwnerlessTransaction

\* The rollback writes the status of live runs and nothing else.
LEMMA FreezeRow ==
    ASSUME DbTypeOK, NEW r \in Runs, RowInv(r), FreezeInFlightRuns
    PROVE  RowStep(r) /\ NeverReopens(r)
<1>1. CASE run'[r] = run[r]
  BY <1>1, SameRowStep DEF FreezeInFlightRuns, SameRow
<1>2. CASE run'[r] # run[r]
  <2>1. Live(r) /\ run'[r] = "ROLLBACK_FROZEN"
    BY <1>2 DEF FreezeInFlightRuns
  <2>2. FencesOwner(r)
    BY <2>1 DEF FreezeInFlightRuns, DbTypeOK, ExecRow, FencesOwner, Holdable, Terminal, PublicTerminal
  <2> QED
    BY <2>1, <2>2, RowPromises DEF FreezeInFlightRuns
<1> QED
  BY <1>1, <1>2

\* A transaction of one run leaves the rows of the others as they are.
LEMMA OtherRows ==
    ASSUME DbTypeOK, NEW r \in Runs, NEW q \in Runs, q # r,
           \/ PermitTransaction(r, exec[r].token)
           \/ ClaimTransaction(r)
           \/ OwnerlessTransaction(r)
    PROVE  SameRow(q)
<1>1. CASE PermitTransaction(r, exec[r].token)
  BY <1>1 DEF PermitTransaction, AppendHarnessEvent, PersistHarnessSnapshot,
     PersistSupervisorSnapshot, DecideActionProposals, ConsumeRecoveryCheckpoint, Pause, Finish, FinishJob, LogAppend, LogFinal, SameRow, DbTypeOK
<1>2. CASE ClaimTransaction(r)
  BY <1>2 DEF ClaimTransaction, Claim, Resume, ResumeForWorker, ClaimJobOfClosedRun,
     PauseRecoveryLimit, ClaimJobFresh, ClaimJobTakeover, NewAttempt, RequeueJob, LeaseJob,
     FinishJob, LogAppend, LogFinal, SameRow, DbTypeOK
<1>3. CASE OwnerlessTransaction(r)
  BY <1>3 DEF OwnerlessTransaction, StartHarnessTurn, BindRecoveredCheckpoint, Cancel,
     ReconcileExpired, ExpireExecutionLease, ExpireJobLease, SaverAdvance, EnqueueJob, FinishJob,
     LogAppend, LogFinal, SameRow, DbTypeOK
<1> QED
  BY <1>1, <1>2, <1>3

\* Every step of the database, seen from the row of any run q.
LEMMA EveryRow ==
    ASSUME DbInv, [DbNext]_dbVars, NEW q \in Runs
    PROVE  RowStep(q)
<1> USE DEF DbInv
<1>1. CASE UNCHANGED dbVars
  BY <1>1, SameRowStep DEF dbVars, SameRow
<1>2. ASSUME NEW r \in Runs,
             \/ PermitTransaction(r, exec[r].token)
             \/ ClaimTransaction(r)
             \/ OwnerlessTransaction(r)
      PROVE  RowStep(q)
  BY <1>2, PermitRow, ClaimRow, OwnerlessRow, OtherRows, SameRowStep
<1>3. ASSUME NEW s \in Sessions, NEW p \in Streams, InterruptTransaction(s, p)
      PROVE  RowStep(q)
  BY <1>3, SameRowStep DEF InterruptTransaction, ClaimChatInterrupt, AckChatInterrupt,
     ReleaseChatInterrupt, SameRow
<1>4. CASE FreezeInFlightRuns
  BY <1>4, FreezeRow
<1> QED
  BY <1>1, <1>2, <1>3, <1>4 DEF DbNext

\* Only start_harness_turn makes a run live, and it looks at the session first.
LEMMA SessionStaysSingle ==
    ASSUME DbInv, [DbNext]_dbVars
    PROVE  OneLiveRunPerSession'
<1> USE DEF DbInv
<1>1. CASE \A q \in Runs : NeverReopens(q)
  BY <1>1 DEF NeverReopens, OneLiveRunPerSession
<1>2. ASSUME NEW r \in Runs, NEW withJob \in BOOLEAN, StartHarnessTurn(r, withJob)
      PROVE  OneLiveRunPerSession'
  <2>1. \A q \in Runs : q # r => (Live(q)' <=> Live(q))
    BY <1>2 DEF StartHarnessTurn, Live, Unfinished, DbTypeOK
  <2> QED
    BY <1>2, <2>1 DEF StartHarnessTurn, OneLiveRunPerSession
<1>3. \/ \A q \in Runs : NeverReopens(q)
      \/ \E r \in Runs, withJob \in BOOLEAN : StartHarnessTurn(r, withJob)
  <2>1. CASE UNCHANGED dbVars
    BY <2>1 DEF dbVars, NeverReopens, Live, Unfinished
  <2>2. ASSUME NEW r \in Runs,
               \/ PermitTransaction(r, exec[r].token)
               \/ ClaimTransaction(r)
               \/ OwnerlessTransaction(r)
        PROVE  <1>3
    <3>1. \A q \in Runs : q # r => NeverReopens(q)
      BY <2>2, OtherRows, SameRowStep
    <3> QED
      BY <2>2, <3>1, PermitRow, ClaimRow, OwnerlessRow
  <2>3. ASSUME NEW s \in Sessions, NEW p \in Streams, InterruptTransaction(s, p)
        PROVE  <1>3
    BY <2>3 DEF InterruptTransaction, ClaimChatInterrupt, AckChatInterrupt, ReleaseChatInterrupt,
       NeverReopens, Live, Unfinished
  <2>4. CASE FreezeInFlightRuns
    BY <2>4, FreezeRow
  <2> QED
    BY <2>1, <2>2, <2>3, <2>4 DEF DbNext
<1> QED
  BY <1>1, <1>2, <1>3

LEMMA DbInvInit ==
    ASSUME CoordinatorAssumption, DbInit
    PROVE  DbInv
<1>1. \A r \in Runs : RowInv(r)
  BY DEF DbInit, RowInv, AbsentIsEmpty, Closes, HasOpenJob, Terminal, PublicTerminal, FinishStatuses,
     TurnTerminal, JobOpen, JobClosed
<1>2. OneLiveRunPerSession
  BY DEF DbInit, OneLiveRunPerSession, Live, Unfinished
<1> QED
  BY <1>1, <1>2, DbInitTypes DEF DbInv

LEMMA DbInvStep ==
    ASSUME CoordinatorAssumption, DbInv, [DbNext]_dbVars
    PROVE  DbInv'
<1>1. DbTypeOK'
  BY DbStepTypes DEF DbInv
<1>2. \A r \in Runs : RowInv(r)'
  BY EveryRow DEF RowStep
<1> QED
  BY <1>1, <1>2, SessionStaysSingle DEF DbInv

\* Every row is closed in all respects or in none, is fenced, and no session
\* has two unfinished runs: the inductive invariant of the tables alone.
THEOREM DbInvariant == DbSpec => []DbInv
<1>1. DbInit => DbInv
  BY DbInvInit, CoordinatorAssumption
<1>2. DbInv /\ [DbNext]_dbVars => DbInv'
  BY DbInvStep, CoordinatorAssumption
<1> QED
  BY <1>1, <1>2, PTL DEF DbSpec

-----------------------------------------------------------------------------
(* The promises.                                                           *)

\* No interleaving of submissions, cancellations and commits gives a session
\* two unfinished runs.
THEOREM SessionHasOneLiveRun == DbSpec => []OneLiveRunPerSession
<1>1. DbInv => OneLiveRunPerSession
  BY DEF DbInv
<1> QED
  BY <1>1, DbInvariant, PTL

\* A run's status, turn, lease, job and final event end together.
THEOREM RunsCloseTogether == DbSpec => []ClosedTogether
<1>1. DbInv => ClosedTogether
  BY DEF DbInv, RowInv, ClosedTogether
<1> QED
  BY <1>1, DbInvariant, PTL

\* No transaction changes what a terminal run has told its user.
THEOREM TerminalRunsStand == DbSpec => TerminalIsFinal
<1>1. DbInv /\ [DbNext]_dbVars
        => [\A r \in Runs : Terminal(r) =>
               run'[r] = run[r] /\ turn'[r] = turn[r] /\ log'[r] = log[r]]_dbVars
  BY EveryRow DEF RowStep, StaysFinal
<1> QED
  BY <1>1, DbInvariant, PTL DEF DbSpec, TerminalIsFinal
=============================================================================
