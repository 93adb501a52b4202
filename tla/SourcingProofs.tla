--------------------------- MODULE SourcingProofs ---------------------------
(***************************************************************************)
(* An ended sourcing run keeps its status, a batch keeps its outcome and a *)
(* cancelled run leaves no batch to a worker, for any number of tasks,     *)
(* workers, candidates and calls.                                          *)
(***************************************************************************)
EXTENDS SourcingRun, TLAPS

\* A run as somebody read it: while its version is current its status is, unless
\* a rollback froze the run, which leaves the version alone.
FreshFor(seen, now) ==
    /\ seen.version <= now.version
    /\ seen.version = now.version =>
          \/ seen.status = now.status
          \/ now.status = "ROLLBACK_FROZEN" /\ seen.status \notin Ended \cup {"ABSENT"}

Fresh(seen) == FreshFor(seen, run)

CallAllowed ==
    /\ call.op = "cancel" => MayBecome(call.seen.status, "CANCELLED")
    /\ call.op = "clarify" => MayBecome(call.seen.status, "CREATED")

\* Before there is a run nobody works on it.
NothingYet ==
    /\ run.status = "ABSENT" <=> run.version = 0
    /\ run.status = "ABSENT" => /\ \A x \in Executors : exec[x].step = "idle"
                                /\ \A b \in Batches : batch[b].state = "absent"

\* A worker that is not idle works for a batch.
WorkersHold == \A w \in Workers : exec[w].step = "idle" \/ exec[w].batch \in Batches

Inv == /\ TypeOK
       /\ \A x \in Executors : Fresh(exec[x].seen)
       /\ Fresh(call.seen)
       /\ CallAllowed
       /\ NothingYet
       /\ WorkersHold
       /\ CancelledHasNoOpenBatch

-----------------------------------------------------------------------------
(* What a writer may do to the run.                                        *)

LEMMA EndedLeadsNowhere ==
    ASSUME NEW status \in Ended PROVE Following(status) = {}
BY DEF Ended, Following

\* A new version whose status is allowed: an ended run keeps its own, and only a
\* cancellation cancels.
Moves ==
    \/ UNCHANGED run
    \/ \E status \in RunStatuses :
          /\ run' = [status |-> status, version |-> run.version + 1]
          /\ run.status \in Ended => status = run.status
          /\ status = "CANCELLED" => run.status = "CANCELLED"

LEMMA SnapshotMoves ==
    ASSUME NEW x \in Executors, NEW target \in RunStatuses \ {"CANCELLED"}, Snapshot(x, target)
    PROVE  Moves
BY EndedLeadsNowhere DEF Snapshot, MayBecome, Advance, Moves

LEMMA RecordMoves ==
    ASSUME NEW x \in Executors, NEW target \in RunStatuses \ {"CANCELLED"}, Fresh(exec[x].seen),
           RecordState(x, target)
    PROVE  Moves
<1>1. MayBecome(exec[x].seen.status, target) /\ run' = [status |-> target, version |-> run.version + 1]
  BY DEF RecordState, Advance
<1>2. exec[x].seen.version = run.version
  BY DEF RecordState
<1>3. run.status \in Ended => exec[x].seen.status = run.status
  BY <1>2 DEF Fresh, FreshFor, Ended
<1>4. run.status \in Ended => target = run.status
  BY <1>1, <1>3, EndedLeadsNowhere DEF MayBecome
<1> QED
  BY <1>1, <1>4 DEF Moves

\* persist_parsed_requirement writes back the status it read.
LEMMA WriteBackMoves ==
    ASSUME Inv, NEW x \in Executors, exec[x].step = "read", RecordState(x, exec[x].seen.status)
    PROVE  Moves
<1>1. run' = [status |-> exec[x].seen.status, version |-> run.version + 1]
      /\ exec[x].seen.version = run.version
  BY DEF RecordState, Advance
<1>2. run.status # "ABSENT"
  BY DEF Inv, NothingYet
<1>3. Fresh(exec[x].seen) /\ exec[x].seen.status \in RunStatuses \cup {"ABSENT"}
  BY DEF Inv, TypeOK, ExecRow, RunRow
<1>4. /\ exec[x].seen.status \in RunStatuses
      /\ run.status \in Ended => exec[x].seen.status = run.status
      /\ exec[x].seen.status = "CANCELLED" => run.status = "CANCELLED"
  BY <1>1, <1>2, <1>3 DEF Fresh, FreshFor, Ended
<1> QED
  BY <1>1, <1>4 DEF Moves

-----------------------------------------------------------------------------
(* Rows of the executions.                                                 *)

LEMMA IdleRow ==
    Idle \in ExecRow /\ Idle.seen \in RunRow /\ Idle.seen.version = 0 /\ Idle.step = "idle"
BY SourcingAssumption DEF Idle, ExecRow, RunRow, NoBatch

LEMMA FinishedRow ==
    ASSUME NEW x \in Executors, exec[x] \in ExecRow
    PROVE  /\ Finished(x) \in ExecRow /\ Finished(x).seen = Idle.seen
           /\ Finished(x).step = "idle" \/ Finished(x).batch = exec[x].batch
<1>1. exec[x].batch \in 0..MaxBatches /\ exec[x].token \in Nat
  BY DEF ExecRow
<1>2. /\ [Idle EXCEPT !.step = "consume", !.batch = exec[x].batch, !.token = exec[x].token] \in ExecRow
      /\ [Idle EXCEPT !.step = "consume", !.batch = exec[x].batch, !.token = exec[x].token].seen = Idle.seen
      /\ [Idle EXCEPT !.step = "consume", !.batch = exec[x].batch, !.token = exec[x].token].batch = exec[x].batch
  BY <1>1, IdleRow DEF ExecRow
<1> QED
  BY <1>2, IdleRow DEF Finished

LEMMA AgainRow ==
    ASSUME NEW row \in ExecRow, NEW part \in {"first", "answered", "ready", "review"}
    PROVE  /\ [row EXCEPT !.step = "enter", !.part = part, !.seen = Idle.seen] \in ExecRow
           /\ [row EXCEPT !.step = "enter", !.part = part, !.seen = Idle.seen].seen = Idle.seen
           /\ [row EXCEPT !.step = "enter", !.part = part, !.seen = Idle.seen].batch = row.batch
BY IdleRow DEF ExecRow

\* One execution changes: what it has seen is what it saw, nothing, or the run, and
\* it keeps its batch until it is idle.
RowMoves(x) ==
    \E row \in ExecRow : /\ exec' = [exec EXCEPT ![x] = row]
                         /\ row.seen \in {exec[x].seen, Idle.seen, run}
                         /\ row.step = "idle" \/ row.batch = exec[x].batch

LEMMA ReturnsMoves ==
    ASSUME TypeOK, NEW x \in Executors, NEW next \in Nodes \cup {"end"}, NEW eligible \in SUBSET Candidates,
           NEW aside \in BOOLEAN, Returns(x, next, eligible, aside)
    PROVE  RowMoves(x)
<1>1. exec[x] \in ExecRow
  BY DEF TypeOK
<1> DEFINE row == [exec[x] EXCEPT !.step = "written", !.node = next, !.part = "first", !.resume = "none",
                                  !.seen = Idle.seen, !.eligible = eligible, !.aside = aside]
<1>2. exec' = [exec EXCEPT ![x] = row]
  BY DEF Returns
<1>3. row \in ExecRow /\ row.seen = Idle.seen /\ row.batch = exec[x].batch
  BY <1>1, IdleRow DEF ExecRow
<1> HIDE DEF row
<1> QED
  BY <1>2, <1>3 DEF RowMoves

LEMMA ProceedsMoves ==
    ASSUME TypeOK, NEW x \in Executors, NEW next \in Nodes \cup {"end"}, Proceeds(x, next)
    PROVE  RowMoves(x)
<1>1. exec[x].eligible \in SUBSET Candidates /\ exec[x].aside \in BOOLEAN
  BY DEF TypeOK, ExecRow
<1> QED
  BY <1>1, ReturnsMoves DEF Proceeds

LEMMA AgainMoves ==
    ASSUME TypeOK, NEW x \in Executors, NEW part \in {"first", "answered", "ready", "review"}, Again(x, part)
    PROVE  RowMoves(x)
<1>1. exec[x] \in ExecRow
  BY DEF TypeOK
<1>2. exec' = [exec EXCEPT ![x] = [exec[x] EXCEPT !.step = "enter", !.part = part, !.seen = Idle.seen]]
  BY <1>1 DEF Again, TypeOK
<1> QED
  BY <1>1, <1>2, AgainRow DEF RowMoves

LEMMA FinishedMoves ==
    ASSUME TypeOK, NEW x \in Executors, exec' = [exec EXCEPT ![x] = Finished(x)]
    PROVE  RowMoves(x)
BY FinishedRow DEF TypeOK, RowMoves

LEMMA GotoMoves ==
    ASSUME TypeOK, NEW x \in Executors,
           NEW step \in {"idle", "claimed", "load", "enter", "read", "called", "written", "consume"}, Goto(x, step)
    PROVE  RowMoves(x)
<1>1. exec[x] \in ExecRow
  BY DEF TypeOK
<1>2. /\ [exec[x] EXCEPT !.step = step] \in ExecRow /\ [exec[x] EXCEPT !.step = step].seen = exec[x].seen
      /\ [exec[x] EXCEPT !.step = step].batch = exec[x].batch
  BY <1>1 DEF ExecRow
<1> QED
  BY <1>2 DEF Goto, RowMoves

LEMMA DropMoves ==
    ASSUME TypeOK, NEW x \in Executors, Drop(x)
    PROVE  RowMoves(x)
BY IdleRow DEF Drop, RowMoves

-----------------------------------------------------------------------------
(* The nodes.                                                              *)

LEMMA EarlyNodes ==
    ASSUME Inv, NEW x \in Executors,
           \/ LoadRun(x) \/ RequirementReady(x) \/ ParseRequirement(x) \/ AskClarification(x)
           \/ ClarificationInsufficient(x) \/ LockPolicy(x) \/ LocalLibraryFails(x) \/ LocalDiscovery(x)
           \/ ExternalDiscoveryFails(x) \/ ExternalDiscovery(x)
    PROVE  RowMoves(x) /\ Moves
<1>0. TypeOK /\ Fresh(exec[x].seen)
  BY DEF Inv
<1> DEFINE Target == {"CREATED", "CLARIFYING", "POLICY_LOCKED", "LOCAL_SEARCHING", "EXTERNAL_REVIEW"}
<1>a. Target \subseteq RunStatuses \ {"CANCELLED"}
  BY DEF RunStatuses
<1>b. {"parse_requirement", "lock_policy", "local_discovery", "external_discovery", "identity_resolution", "end"}
        \subseteq Nodes \cup {"end"}
  BY DEF Nodes
<1>1. ASSUME NEW target \in Target, RecordState(x, target) PROVE Moves
  BY <1>0, <1>1, <1>a, RecordMoves
<1>2. ASSUME NEW target \in Target, Snapshot(x, target) PROVE Moves
  BY <1>2, <1>a, SnapshotMoves
<1>3. CASE LoadRun(x)
  BY <1>0, <1>1, <1>3, <1>b, ProceedsMoves DEF LoadRun
<1>4. CASE RequirementReady(x)
  <2>1. Moves
    BY <1>4, WriteBackMoves DEF RequirementReady, At, Moves
  <2> QED
    BY <1>0, <1>4, <2>1, AgainMoves DEF RequirementReady
<1>5. CASE ParseRequirement(x)
  BY <1>0, <1>1, <1>5, <1>b, ProceedsMoves DEF ParseRequirement
<1>6. CASE AskClarification(x)
  BY <1>0, <1>1, <1>6, AgainMoves, FinishedMoves DEF AskClarification
<1>7. CASE ClarificationInsufficient(x)
  BY <1>0, <1>7, ProceedsMoves DEF ClarificationInsufficient, Moves
<1>8. CASE LockPolicy(x)
  BY <1>0, <1>1, <1>8, <1>b, ProceedsMoves DEF LockPolicy
<1>9. CASE LocalLibraryFails(x)
  BY <1>0, <1>1, <1>9, AgainMoves DEF LocalLibraryFails
<1>10. CASE LocalDiscovery(x)
  BY <1>0, <1>2, <1>10, <1>b, ProceedsMoves DEF LocalDiscovery
<1>11. CASE ExternalDiscoveryFails(x)
  BY <1>0, <1>1, <1>11, <1>b, ProceedsMoves DEF ExternalDiscoveryFails
<1>12. CASE ExternalDiscovery(x)
  BY <1>0, <1>2, <1>12, <1>b, ProceedsMoves DEF ExternalDiscovery
<1> QED
  BY <1>3, <1>4, <1>5, <1>6, <1>7, <1>8, <1>9, <1>10, <1>11, <1>12

LEMMA LateNodes ==
    ASSUME Inv, NEW x \in Executors,
           \/ IdentityResolution(x) \/ AskReview(x) \/ InterruptForReview(x) \/ ReadReviewGroups(x)
           \/ ResumeReview(x) \/ ResolveIdentities(x) \/ Investigate(x) \/ InvestigateParallel(x)
           \/ ValidateEvidence(x) \/ ScoreCandidates(x) \/ ReadyForReview(x)
    PROVE  RowMoves(x) /\ Moves
<1>0. TypeOK /\ Fresh(exec[x].seen) /\ Candidates \in SUBSET Candidates
  BY DEF Inv
<1> DEFINE Target == {"IDENTITY_RESOLVING", "IDENTITY_REVIEW", "INVESTIGATING", "EVIDENCE_REVIEW", "SCORING",
                      "NEEDS_REVIEW", "PARTIAL", "READY_FOR_REVIEW"}
<1>a. Target \subseteq RunStatuses \ {"CANCELLED"}
  BY DEF RunStatuses
<1>b. {"identity_review", "investigate_parallel", "validate_evidence", "score_candidates", "ready_for_review", "end"}
        \subseteq Nodes \cup {"end"}
  BY DEF Nodes
<1>1. ASSUME NEW target \in Target, RecordState(x, target) PROVE Moves
  BY <1>0, <1>1, <1>a, RecordMoves
<1>2. ASSUME NEW target \in Target, Snapshot(x, target) PROVE Moves
  BY <1>2, <1>a, SnapshotMoves
<1>3. CASE IdentityResolution(x)
  <2>1. Moves
    BY <1>2, <1>3 DEF IdentityResolution
  <2>2. CASE Exact = Candidates
    BY <1>0, <1>3, <1>b, <2>1, <2>2, ReturnsMoves DEF IdentityResolution
  <2>3. CASE Exact # Candidates
    BY <1>0, <1>3, <2>1, <2>3, AgainMoves DEF IdentityResolution
  <2> QED
    BY <2>2, <2>3
<1>4. CASE AskReview(x)
  BY <1>0, <1>2, <1>4, <1>b, ProceedsMoves DEF AskReview
<1>5. CASE InterruptForReview(x)
  BY <1>0, <1>5, FinishedMoves DEF InterruptForReview, Moves
<1>6. CASE ReadReviewGroups(x)
  <2> DEFINE eligible == {c \in Candidates : LetThrough(Decided(exec[x].batch, c), c)}
  <2>1. PICK aside \in BOOLEAN :
          exec' = [exec EXCEPT ![x] = [exec[x] EXCEPT !.step = "called", !.eligible = eligible, !.aside = aside]]
    BY <1>6 DEF ReadReviewGroups
  <2>2. exec[x] \in ExecRow /\ eligible \in SUBSET Candidates
    BY <1>0 DEF TypeOK
  <2> HIDE DEF eligible
  <2>3. /\ [exec[x] EXCEPT !.step = "called", !.eligible = eligible, !.aside = aside] \in ExecRow
        /\ [exec[x] EXCEPT !.step = "called", !.eligible = eligible, !.aside = aside].seen = exec[x].seen
        /\ [exec[x] EXCEPT !.step = "called", !.eligible = eligible, !.aside = aside].batch = exec[x].batch
    BY <2>2 DEF ExecRow
  <2> QED
    BY <1>6, <2>1, <2>3 DEF ReadReviewGroups, RowMoves, Moves
<1>7. CASE ResumeReview(x)
  BY <1>0, <1>2, <1>7, <1>b, ProceedsMoves DEF ResumeReview
<1>8. CASE ResolveIdentities(x)
  <2>1. CASE Snapshot(x, "IDENTITY_RESOLVING") /\ Returns(x, "investigate_parallel", Candidates, FALSE)
    BY <1>0, <1>2, <1>b, <2>1, ReturnsMoves
  <2>2. CASE Proceeds(x, "end") /\ UNCHANGED run
    BY <1>0, <2>2, ProceedsMoves DEF Moves
  <2> QED
    BY <1>8, <2>1, <2>2 DEF ResolveIdentities
<1>9. CASE Investigate(x)
  BY <1>0, <1>9, GotoMoves DEF Investigate, Moves
<1>10. CASE InvestigateParallel(x)
  BY <1>0, <1>2, <1>10, <1>b, ProceedsMoves DEF InvestigateParallel
<1>11. CASE ValidateEvidence(x)
  BY <1>0, <1>2, <1>11, <1>b, ProceedsMoves DEF ValidateEvidence
<1>12. CASE ScoreCandidates(x)
  BY <1>0, <1>2, <1>12, <1>b, ProceedsMoves DEF ScoreCandidates
<1>13. CASE ReadyForReview(x)
  <2>1. Moves
    BY <1>1, <1>13 DEF ReadyForReview
  <2> QED
    BY <1>0, <1>13, <2>1, ProceedsMoves DEF ReadyForReview
<1> QED
  BY <1>3, <1>4, <1>5, <1>6, <1>7, <1>8, <1>9, <1>10, <1>11, <1>12, <1>13

-----------------------------------------------------------------------------
(* The invariant under a step that moves the run as it may.                *)

LEMMA FreshStays ==
    ASSUME NEW was \in RunRow, NEW now \in RunRow, NEW seen \in RunRow, was.version > 0,
           now = was \/ now.version = was.version + 1,
           FreshFor(seen, was) \/ seen = Idle.seen \/ seen = was
    PROVE  FreshFor(seen, now)
<1>1. was.version \in Nat /\ seen.version \in Nat /\ now.version \in Nat
  BY DEF RunRow
<1>2. seen.version <= was.version
  BY <1>1, IdleRow DEF FreshFor
<1>3. CASE now = was
  BY <1>1, <1>3, IdleRow DEF FreshFor
<1>4. CASE now.version = was.version + 1
  BY <1>1, <1>2, <1>4 DEF FreshFor
<1> QED
  BY <1>3, <1>4

LEMMA InvFollows ==
    ASSUME Inv, TypeOK', WorkersHold', CallAllowed', CancelledHasNoOpenBatch', run.status # "ABSENT",
           run' = run \/ \E status \in RunStatuses : run' = [status |-> status, version |-> run.version + 1],
           \A x \in Executors : exec'[x].seen \in {exec[x].seen, Idle.seen, run},
           call'.seen \in {call.seen, Idle.seen, run}
    PROVE  Inv'
<1>1. \A x \in Executors : exec[x].seen \in RunRow /\ exec'[x].seen \in RunRow
  BY DEF Inv, TypeOK, ExecRow
<1>2. /\ run \in RunRow /\ run' \in RunRow /\ run.version > 0 /\ run.version \in Nat
      /\ run' = run \/ run'.version = run.version + 1
  BY DEF Inv, TypeOK, RunRow, NothingYet
<1>3. ASSUME NEW x \in Executors PROVE Fresh(exec[x].seen)'
  <2>1. FreshFor(exec[x].seen, run)
    BY DEF Inv, Fresh
  <2>2. FreshFor(exec'[x].seen, run')
    BY <1>1, <1>2, <2>1, FreshStays
  <2> QED
    BY <2>2 DEF Fresh
<1>4. call.seen \in RunRow /\ call'.seen \in RunRow /\ FreshFor(call.seen, run)
  BY DEF Inv, TypeOK, Fresh
<1>5. Fresh(call.seen)'
  <2>1. FreshFor(call'.seen, run')
    BY <1>2, <1>4, FreshStays
  <2> QED
    BY <2>1 DEF Fresh
<1>6. run'.status # "ABSENT" /\ run'.version > 0
  BY <1>2 DEF RunStatuses
<1>7. NothingYet'
  BY <1>6 DEF NothingYet
<1> QED
  BY <1>3, <1>5, <1>7 DEF Inv

Stands == run.status \in Ended => run'.status = run.status

LEMMA InvMoves ==
    ASSUME Inv, TypeOK', WorkersHold', Moves, run.status # "ABSENT",
           \A x \in Executors : exec'[x].seen \in {exec[x].seen, Idle.seen, run},
           UNCHANGED call,
           run.status # "CANCELLED" \/ \A b \in Batches : batch'[b].state = batch[b].state
    PROVE  Inv' /\ Stands
<1>1. CallAllowed'
  BY DEF Inv, CallAllowed
<1>2. CancelledHasNoOpenBatch'
  BY DEF Inv, CancelledHasNoOpenBatch, Moves
<1>3. run' = run \/ \E status \in RunStatuses : run' = [status |-> status, version |-> run.version + 1]
  BY DEF Moves
<1>4. Inv'
  BY <1>1, <1>2, <1>3, InvFollows
<1> QED
  BY <1>4 DEF Moves, Stands

LEMMA RowTyped ==
    ASSUME TypeOK, NEW x \in Executors, RowMoves(x)
    PROVE  /\ exec' \in [Executors -> ExecRow]
           /\ \A y \in Executors : exec'[y].seen \in {exec[y].seen, Idle.seen, run}
<1>1. PICK row \in ExecRow : exec' = [exec EXCEPT ![x] = row] /\ row.seen \in {exec[x].seen, Idle.seen, run}
  BY DEF RowMoves
<1>2. exec \in [Executors -> ExecRow]
  BY DEF TypeOK
<1>3. exec' \in [Executors -> ExecRow]
  BY <1>1, <1>2
<1>4. ASSUME NEW y \in Executors PROVE exec'[y].seen \in {exec[y].seen, Idle.seen, run}
  <2>1. CASE y = x
    BY <1>1, <1>2, <2>1
  <2>2. CASE y # x
    BY <1>1, <1>2, <2>2
  <2> QED
    BY <2>1, <2>2
<1> QED
  BY <1>3, <1>4

LEMMA RowKeeps ==
    ASSUME TypeOK, NEW x \in Executors, RowMoves(x)
    PROVE  /\ exec'[x].step = "idle" \/ exec'[x].batch = exec[x].batch
           /\ \A y \in Executors : y # x => exec'[y] = exec[y]
<1>1. PICK row \in ExecRow : exec' = [exec EXCEPT ![x] = row] /\ (row.step = "idle" \/ row.batch = exec[x].batch)
  BY DEF RowMoves
<1> QED
  BY <1>1 DEF TypeOK

\* Whoever keeps its batch while it is not idle keeps WorkersHold.
LEMMA HoldsOn ==
    ASSUME TypeOK, WorkersHold, NEW x \in Executors, RowMoves(x), exec[x].step # "idle" PROVE WorkersHold'
<1> SUFFICES ASSUME NEW w \in Workers PROVE exec'[w].step = "idle" \/ exec'[w].batch \in Batches
  BY DEF WorkersHold
<1>1. w \in Executors
  BY DEF Executors
<1>2. CASE w = x
  BY <1>1, <1>2, RowKeeps DEF WorkersHold
<1>3. CASE w # x
  BY <1>1, <1>3, RowKeeps DEF WorkersHold
<1> QED
  BY <1>2, <1>3

LEMMA MovesTyped == ASSUME TypeOK, Moves PROVE run' \in RunRow
<1>1. run \in RunRow /\ run.version + 1 \in Nat
  BY DEF TypeOK, RunRow
<1> QED
  BY <1>1 DEF Moves, RunRow

-----------------------------------------------------------------------------
(* Executions.                                                             *)

LEMMA NodeStep ==
    ASSUME Inv, NEW x \in Executors, Node(x) PROVE Inv' /\ Stands
<1>1. RowMoves(x) /\ Moves
  BY EarlyNodes, LateNodes DEF Node
<1>2. exec[x].step # "idle"
  BY DEF Node, LoadRun, RequirementReady, ParseRequirement, AskClarification, ClarificationInsufficient,
         LockPolicy, LocalLibraryFails, LocalDiscovery, ExternalDiscoveryFails, ExternalDiscovery,
         IdentityResolution, AskReview, InterruptForReview, ReadReviewGroups, ResumeReview, ResolveIdentities,
         Investigate, InvestigateParallel, ValidateEvidence, ScoreCandidates, ReadyForReview, At
<1>3. UNCHANGED <<batch, disposition, call, frozen, checkpoint>>
  BY DEF Node, LoadRun, RequirementReady, ParseRequirement, AskClarification, ClarificationInsufficient,
         LockPolicy, LocalLibraryFails, LocalDiscovery, ExternalDiscoveryFails, ExternalDiscovery,
         IdentityResolution, AskReview, InterruptForReview, ReadReviewGroups, ResumeReview, ResolveIdentities,
         Investigate, InvestigateParallel, ValidateEvidence, ScoreCandidates, ReadyForReview, Others
<1>4. investigated' = investigated \/ investigated' = investigated \cup exec[x].eligible
  BY DEF Node, LoadRun, RequirementReady, ParseRequirement, AskClarification, ClarificationInsufficient,
         LockPolicy, LocalLibraryFails, LocalDiscovery, ExternalDiscoveryFails, ExternalDiscovery,
         IdentityResolution, AskReview, InterruptForReview, ReadReviewGroups, ResumeReview, ResolveIdentities,
         Investigate, InvestigateParallel, ValidateEvidence, ScoreCandidates, ReadyForReview, Others
<1>5. TypeOK /\ exec[x] \in ExecRow
  BY DEF Inv, TypeOK
<1>6. investigated' \subseteq Candidates
  BY <1>4, <1>5 DEF TypeOK, ExecRow
<1>7. TypeOK'
  BY <1>1, <1>3, <1>5, <1>6, RowTyped, MovesTyped DEF TypeOK
<1>8. run.status # "ABSENT"
  BY <1>2 DEF Inv, NothingYet
<1> QED
  <2>1. \A y \in Executors : exec'[y].seen \in {exec[y].seen, Idle.seen, run}
    BY <1>1, <1>5, RowTyped
  <2>2. WorkersHold'
    BY <1>1, <1>2, <1>5, HoldsOn DEF Inv
  <2> QED
    BY <1>1, <1>3, <1>7, <1>8, <2>1, <2>2, InvMoves

LEMMA ReadRunMoves ==
    ASSUME TypeOK, NEW x \in Executors, ReadRun(x) PROVE RowMoves(x)
<1>1. exec[x] \in ExecRow /\ run \in RunRow
  BY DEF TypeOK
<1>2. exec' = [exec EXCEPT ![x] = [exec[x] EXCEPT !.step = "read", !.seen = run]]
  BY DEF ReadRun, TypeOK
<1>3. /\ [exec[x] EXCEPT !.step = "read", !.seen = run] \in ExecRow
      /\ [exec[x] EXCEPT !.step = "read", !.seen = run].seen = run
      /\ [exec[x] EXCEPT !.step = "read", !.seen = run].batch = exec[x].batch
  BY <1>1 DEF ExecRow
<1> QED
  BY <1>2, <1>3 DEF RowMoves

LEMMA LoadMoves ==
    ASSUME TypeOK, NEW x \in Executors, LoadCheckpoint(x) PROVE RowMoves(x)
<1>1. exec[x] \in ExecRow /\ checkpoint.next \in Nodes \cup {"end"} /\ checkpoint.eligible \in SUBSET Candidates
  BY DEF TypeOK, ThreadRow
<1>2. checkpoint.aside \in BOOLEAN
  BY DEF TypeOK, ThreadRow
<1>3. /\ [exec[x] EXCEPT !.step = "enter", !.node = checkpoint.next, !.eligible = checkpoint.eligible,
                         !.aside = checkpoint.aside] \in ExecRow
      /\ [exec[x] EXCEPT !.step = "enter", !.node = checkpoint.next, !.eligible = checkpoint.eligible,
                         !.aside = checkpoint.aside].seen = exec[x].seen
      /\ [exec[x] EXCEPT !.step = "enter", !.node = checkpoint.next, !.eligible = checkpoint.eligible,
                         !.aside = checkpoint.aside].batch = exec[x].batch
  BY <1>1, <1>2 DEF ExecRow
<1>4. CASE checkpoint.next = "end"
  BY <1>4, FinishedMoves DEF LoadCheckpoint
<1>5. CASE checkpoint.next # "end"
  <2>1. exec' = [exec EXCEPT ![x] = [exec[x] EXCEPT !.step = "enter", !.node = checkpoint.next,
                                              !.eligible = checkpoint.eligible, !.aside = checkpoint.aside]]
    BY <1>5 DEF LoadCheckpoint
  <2> QED
    BY <1>3, <2>1 DEF RowMoves
<1> QED
  BY <1>4, <1>5

LEMMA SaveMoves ==
    ASSUME TypeOK, NEW x \in Executors, SaveCheckpoint(x) PROVE RowMoves(x) /\ checkpoint' \in ThreadRow
<1>1. exec[x] \in ExecRow
  BY DEF TypeOK
<1>2. exec[x].node \in Nodes \cup {"end"} /\ exec[x].eligible \in SUBSET Candidates
  BY <1>1 DEF ExecRow
<1>3. exec[x].aside \in BOOLEAN
  BY <1>1 DEF ExecRow
<1>4. checkpoint' \in ThreadRow
  BY <1>2, <1>3 DEF SaveCheckpoint, ThreadRow
<1>5. /\ [exec[x] EXCEPT !.step = "enter"] \in ExecRow
      /\ [exec[x] EXCEPT !.step = "enter"].seen = exec[x].seen
      /\ [exec[x] EXCEPT !.step = "enter"].batch = exec[x].batch
  BY <1>1 DEF ExecRow
<1>6. CASE run.status = "ROLLBACK_FROZEN"
  <2>1. exec' = [exec EXCEPT ![x] = Idle]
    BY <1>6 DEF SaveCheckpoint
  <2> QED
    BY <1>4, <2>1, IdleRow DEF RowMoves
<1>7. CASE run.status # "ROLLBACK_FROZEN" /\ exec[x].node = "end"
  BY <1>4, <1>7, FinishedMoves DEF SaveCheckpoint
<1>8. CASE run.status # "ROLLBACK_FROZEN" /\ exec[x].node # "end"
  <2>1. exec' = [exec EXCEPT ![x] = [exec[x] EXCEPT !.step = "enter"]]
    BY <1>8 DEF SaveCheckpoint
  <2> QED
    BY <1>4, <1>5, <2>1 DEF RowMoves
<1> QED
  BY <1>6, <1>7, <1>8

LEMMA ExecuteStep ==
    ASSUME Inv, NEW x \in Executors, Execute(x) \/ Fails(x) PROVE Inv' /\ Stands
<1>1. CASE Node(x)
  BY <1>1, NodeStep
<1>2. CASE ReadRun(x) \/ LoadCheckpoint(x) \/ SaveCheckpoint(x) \/ Fails(x)
  <2>1. TypeOK /\ run.status # "ABSENT"
    BY <1>2 DEF Inv, NothingYet, ReadRun, LoadCheckpoint, SaveCheckpoint, Fails
  <2>2. RowMoves(x) /\ checkpoint' \in ThreadRow
    BY <1>2, <2>1, ReadRunMoves, LoadMoves, SaveMoves, DropMoves
       DEF ReadRun, LoadCheckpoint, Fails, TypeOK
  <2>3. UNCHANGED <<run, batch, disposition, call, frozen, investigated>>
    BY <1>2 DEF ReadRun, LoadCheckpoint, SaveCheckpoint, Fails, Others
  <2>4. TypeOK'
    BY <2>1, <2>2, <2>3, RowTyped DEF TypeOK
  <2>5. WorkersHold'
    BY <1>2, <2>1, <2>2, HoldsOn DEF Inv, ReadRun, LoadCheckpoint, SaveCheckpoint, Fails
  <2> QED
    <3>1. \A y \in Executors : exec'[y].seen \in {exec[y].seen, Idle.seen, run}
      BY <2>1, <2>2, RowTyped
    <3> QED
      BY <2>1, <2>3, <2>4, <2>5, <3>1, InvMoves DEF Moves
<1> QED
  BY <1>1, <1>2 DEF Execute

-----------------------------------------------------------------------------
(* Workers.                                                                *)

\* One batch changes.
BatchRowMoves(b) ==
    \E row \in BatchRow : batch' = [batch EXCEPT ![b] = row]

LEMMA BatchTyped ==
    ASSUME TypeOK, NEW b \in Batches, BatchRowMoves(b) PROVE batch' \in [Batches -> BatchRow]
BY DEF TypeOK, BatchRowMoves

LEMMA ClosedRow ==
    ASSUME NEW row \in BatchRow, NEW state \in Dispatch, NEW error \in {"none", "stale", "limit", "cancelled"}
    PROVE  Closed(row, state, error) \in BatchRow /\ Closed(row, state, error).state = state
BY DEF Closed, BatchRow

LEMMA ClosesBatch ==
    ASSUME TypeOK, NEW b \in Batches, NEW state \in Dispatch, NEW error \in {"none", "stale", "limit", "cancelled"},
           batch' = [batch EXCEPT ![b] = Closed(batch[b], state, error)]
    PROVE  batch' \in [Batches -> BatchRow]
<1>1. Closed(batch[b], state, error) \in BatchRow
  BY ClosedRow DEF TypeOK
<1> QED
  BY <1>1, BatchTyped DEF BatchRowMoves

LEMMA ClaimStep ==
    ASSUME Inv, NEW w \in Workers, ClaimBatch(w) PROVE Inv' /\ Stands
<1>1. PICK b \in Batches : Due(b) /\ ClaimDue(w, b)
  BY DEF ClaimBatch
<1>2. UNCHANGED <<disposition, checkpoint, call, frozen, investigated>>
  BY DEF ClaimBatch
<1>3. TypeOK /\ batch[b] \in BatchRow /\ w \in Executors
  BY DEF Inv, TypeOK, Executors
<1>4. run.status \notin {"ABSENT", "CANCELLED"}
  BY <1>1 DEF Due, Inv, NothingYet, CancelledHasNoOpenBatch
<1>5. {"cancelled", "failed"} \subseteq Dispatch /\ batch[b].error \in {"none", "stale", "limit", "cancelled"}
  BY <1>3 DEF Dispatch, BatchRow
<1> DEFINE claimed == [Idle EXCEPT !.step = "claimed", !.batch = b]
<1>6. /\ exec' = exec \/ exec' = [exec EXCEPT ![w] = claimed]
      /\ Moves
      /\ batch' \in [Batches -> BatchRow]
  <2>1. CASE run.status \in {"CANCELLED", "ROLLBACK_FROZEN"}
    <3>1. batch' = [batch EXCEPT ![b] = Closed(batch[b], "cancelled", batch[b].error)] /\ UNCHANGED <<run, exec>>
      BY <1>1, <2>1 DEF ClaimDue
    <3> QED
      BY <1>3, <1>5, <3>1, ClosesBatch DEF Moves
  <2>2. CASE /\ run.status \notin {"CANCELLED", "ROLLBACK_FROZEN"}
             /\ run.status # "IDENTITY_RESOLVING" \/ run.version # batch[b].version
    <3>1. batch' = [batch EXCEPT ![b] = Closed(batch[b], "failed", "stale")] /\ UNCHANGED <<run, exec>>
      BY <1>1, <2>2 DEF ClaimDue
    <3> QED
      BY <1>3, <1>5, <3>1, ClosesBatch DEF Moves
  <2>3. CASE run.status = "IDENTITY_RESOLVING" /\ run.version = batch[b].version /\ batch[b].attempts >= MaxAttempts
    <3>1. /\ batch' = [batch EXCEPT ![b] = Closed(batch[b], "failed", "limit")] /\ exec' = exec
          /\ run' = [status |-> "NEEDS_REVIEW", version |-> run.version + 1]
      BY <1>1, <2>3 DEF ClaimDue, GiveUp, Advance
    <3> QED
      BY <1>3, <1>5, <2>3, <3>1, ClosesBatch DEF Moves, RunStatuses, Ended
  <2>4. CASE run.status = "IDENTITY_RESOLVING" /\ run.version = batch[b].version /\ ~(batch[b].attempts >= MaxAttempts)
    <3>1. batch[b].attempts + 1 \in 0..MaxAttempts /\ batch[b].token + 1 \in Nat
      BY <1>3, <2>4, SourcingAssumption DEF BatchRow
    <3>a. batch' = [batch EXCEPT ![b] = [batch[b] EXCEPT !.state = "processing", !.lease = "valid", !.error = "none",
                                                        !.attempts = batch[b].attempts + 1, !.token = batch[b].token + 1]]
      BY <1>1, <2>4 DEF ClaimDue
    <3>2. PICK attempts \in 0..MaxAttempts, token \in Nat :
            batch' = [batch EXCEPT ![b] = [batch[b] EXCEPT !.state = "processing", !.lease = "valid", !.error = "none",
                                                           !.attempts = attempts, !.token = token]]
      BY <3>1, <3>a
    <3>3. [batch[b] EXCEPT !.state = "processing", !.lease = "valid", !.error = "none",
                           !.attempts = attempts, !.token = token] \in BatchRow
      BY <1>3 DEF BatchRow, Dispatch
    <3>4. BatchRowMoves(b)
      BY <3>2, <3>3 DEF BatchRowMoves
    <3>5. exec' = [exec EXCEPT ![w] = [Idle EXCEPT !.step = "claimed", !.batch = b]] /\ run' = run
      BY <1>1, <2>4 DEF ClaimDue
    <3> QED
      BY <1>3, <3>4, <3>5, BatchTyped DEF Moves
  <2> QED
    BY <2>1, <2>2, <2>3, <2>4
<1>a. claimed \in ExecRow /\ claimed.seen = Idle.seen /\ claimed.batch = b
  <2>1. b \in 0..MaxBatches
    BY SourcingAssumption DEF Batches
  <2> QED
    BY <2>1, IdleRow DEF ExecRow
<1> HIDE DEF claimed
<1>7. /\ exec' \in [Executors -> ExecRow]
      /\ \A y \in Executors : exec'[y].seen \in {exec[y].seen, Idle.seen, run}
  BY <1>3, <1>6, <1>a DEF TypeOK
<1>8. TypeOK'
  BY <1>2, <1>3, <1>6, <1>7, MovesTyped DEF TypeOK
<1>9. WorkersHold'
  BY <1>3, <1>6, <1>a DEF TypeOK, Inv, WorkersHold, Executors
<1> QED
  BY <1>2, <1>4, <1>6, <1>7, <1>8, <1>9, InvMoves

LEMMA ReadBatchMoves ==
    ASSUME TypeOK, NEW w \in Executors, ReadBatch(w), exec[w].batch \in Batches PROVE RowMoves(w)
<1> DEFINE b == batch[exec[w].batch]
<1>1. exec[w] \in ExecRow /\ b.token \in Nat
  BY DEF TypeOK, BatchRow
<1> HIDE DEF b
<1>2. /\ [exec[w] EXCEPT !.step = "load", !.resume = "batch", !.token = b.token] \in ExecRow
      /\ [exec[w] EXCEPT !.step = "load", !.resume = "batch", !.token = b.token].seen = exec[w].seen
      /\ [exec[w] EXCEPT !.step = "load", !.resume = "batch", !.token = b.token].batch = exec[w].batch
  BY <1>1 DEF ExecRow
<1>3. \/ exec' = [exec EXCEPT ![w] = [exec[w] EXCEPT !.step = "load", !.resume = "batch", !.token = b.token]]
      \/ exec' = [exec EXCEPT ![w] = Idle]
  BY DEF ReadBatch, b
<1> QED
  BY <1>2, <1>3, IdleRow DEF RowMoves

LEMMA WorkerStep ==
    ASSUME Inv, NEW w \in Workers, ClaimBatch(w) \/ ReadBatch(w) \/ MarkConsumed(w) PROVE Inv' /\ Stands
<1>0. TypeOK /\ w \in Executors /\ WorkersHold
  BY DEF Inv, Executors
<1>1. CASE ClaimBatch(w)
  BY <1>1, ClaimStep
<1>2. CASE ReadBatch(w)
  <2>1. exec[w].batch \in Batches /\ exec[w].step # "idle" /\ run.status # "ABSENT"
    BY <1>0, <1>2 DEF ReadBatch, WorkersHold, Inv, NothingYet
  <2>2. RowMoves(w)
    BY <1>0, <1>2, <2>1, ReadBatchMoves
  <2>3. UNCHANGED <<run, checkpoint, investigated, batch, disposition, call, frozen>>
    BY <1>2 DEF ReadBatch, Others
  <2>4. TypeOK' /\ \A y \in Executors : exec'[y].seen \in {exec[y].seen, Idle.seen, run}
    BY <1>0, <2>2, <2>3, RowTyped DEF TypeOK
  <2>5. WorkersHold'
    BY <1>0, <2>1, <2>2, HoldsOn
  <2> QED
    BY <2>1, <2>3, <2>4, <2>5, InvMoves DEF Moves
<1>3. CASE MarkConsumed(w)
  <2>1. exec[w].batch \in Batches /\ exec[w].step # "idle" /\ run.status # "ABSENT"
    BY <1>0, <1>3 DEF MarkConsumed, WorkersHold, Inv, NothingYet
  <2>2. RowMoves(w)
    BY <1>0, <1>3, DropMoves DEF MarkConsumed
  <2>3. UNCHANGED <<run, disposition, checkpoint, call, frozen, investigated>>
    BY <1>3 DEF MarkConsumed
  <2> DEFINE b == exec[w].batch
  <2>4. \/ batch[b].state = "processing" /\ batch' = [batch EXCEPT ![b] = Closed(batch[b], "consumed", "none")]
        \/ batch' = batch
    BY <1>3 DEF MarkConsumed
  <2>5. batch' \in [Batches -> BatchRow]
    BY <1>0, <2>1, <2>4, ClosesBatch DEF Dispatch, TypeOK
  <2>6. TypeOK' /\ \A y \in Executors : exec'[y].seen \in {exec[y].seen, Idle.seen, run}
    BY <1>0, <2>2, <2>3, <2>5, RowTyped DEF TypeOK
  <2>7. WorkersHold'
    BY <1>0, <2>1, <2>2, HoldsOn
  <2>8. run.status = "CANCELLED" => batch' = batch
    BY <2>1, <2>4 DEF Inv, CancelledHasNoOpenBatch
  <2> QED
    BY <2>1, <2>3, <2>6, <2>7, <2>8, InvMoves DEF Moves
<1> QED
  BY <1>1, <1>2, <1>3

LEMMA LeaseStep ==
    ASSUME Inv, NEW b \in Batches, LeaseExpires(b) PROVE Inv' /\ Stands
<1>1. TypeOK /\ batch[b] \in BatchRow
  BY DEF Inv, TypeOK
<1>2. batch' = [batch EXCEPT ![b] = [batch[b] EXCEPT !.lease = "expired"]]
  BY DEF LeaseExpires
<1>3. /\ [batch[b] EXCEPT !.lease = "expired"] \in BatchRow
      /\ [batch[b] EXCEPT !.lease = "expired"].state = batch[b].state
  BY <1>1 DEF BatchRow
<1>4. UNCHANGED <<run, disposition, checkpoint, exec, call, frozen, investigated>>
  BY DEF LeaseExpires
<1>5. batch' \in [Batches -> BatchRow] /\ \A c \in Batches : batch'[c].state = batch[c].state
  BY <1>1, <1>2, <1>3 DEF TypeOK
<1>6. TypeOK'
  BY <1>1, <1>4, <1>5 DEF TypeOK
<1> QED
  BY <1>4, <1>5, <1>6 DEF Inv, Fresh, CallAllowed, NothingYet, WorkersHold, CancelledHasNoOpenBatch, Stands

-----------------------------------------------------------------------------
(* The API and the administrators.                                         *)

LEMMA ScheduleTyped ==
    ASSUME TypeOK, WorkersHold, NEW t \in Tasks, NEW resume \in {"none", "requirement", "identity"},
           Schedule(t, resume)
    PROVE  /\ exec' \in [Executors -> ExecRow]
           /\ \A y \in Executors : exec'[y].seen \in {exec[y].seen, Idle.seen, run}
           /\ WorkersHold'
<1> DEFINE row == [Idle EXCEPT !.step = "load", !.resume = resume]
<1>1. row \in ExecRow /\ row.seen = Idle.seen
  BY IdleRow DEF ExecRow
<1>2. exec' = [exec EXCEPT ![t] = row] /\ t \in Executors /\ t \notin Workers
  BY SourcingAssumption DEF Schedule, Executors
<1> HIDE DEF row
<1>3. exec' \in [Executors -> ExecRow]
  BY <1>1, <1>2 DEF TypeOK
<1>4. \A y \in Executors : exec'[y] = IF y = t THEN row ELSE exec[y]
  BY <1>2 DEF TypeOK
<1>5. WorkersHold'
  BY <1>2, <1>4 DEF WorkersHold, Executors
<1>6. \A y \in Executors : exec'[y].seen \in {exec[y].seen, Idle.seen, run}
  BY <1>1, <1>4
<1> QED
  BY <1>3, <1>5, <1>6

LEMMA CreateStep ==
    ASSUME Inv, NEW t \in Tasks, CreateRun(t) PROVE Inv' /\ Stands
<1>1. TypeOK /\ WorkersHold /\ run.version = 0 /\ run' = [status |-> "CREATED", version |-> 1]
  BY DEF CreateRun, Inv, NothingYet
<1>2. UNCHANGED <<checkpoint, investigated, batch, disposition, call, frozen>>
  BY DEF CreateRun, Others
<1>3. /\ exec' \in [Executors -> ExecRow] /\ WorkersHold'
      /\ \A y \in Executors : exec'[y].seen \in {exec[y].seen, Idle.seen, run}
  BY <1>1, ScheduleTyped DEF CreateRun
<1>4. run' \in RunRow
  BY <1>1 DEF RunRow, RunStatuses
<1>5. TypeOK'
  BY <1>1, <1>2, <1>3, <1>4 DEF TypeOK
<1>6. ASSUME NEW seen \in RunRow, seen.version <= 0 PROVE FreshFor(seen, run')
  BY <1>1, <1>6 DEF FreshFor, RunRow
<1>7. ASSUME NEW x \in Executors PROVE Fresh(exec[x].seen)'
  <2>1. exec[x].seen \in RunRow /\ exec'[x].seen \in RunRow
    BY <1>1, <1>5 DEF TypeOK, ExecRow
  <2>2. exec[x].seen.version <= 0
    BY <1>1 DEF Inv, Fresh, FreshFor
  <2>3. exec'[x].seen.version <= 0
    BY <1>1, <1>3, <2>2, IdleRow
  <2> QED
    BY <1>6, <2>1, <2>3 DEF Fresh
<1>8. Fresh(call.seen)'
  <2>1. call.seen \in RunRow /\ call.seen.version <= 0
    BY <1>1 DEF TypeOK, Inv, Fresh, FreshFor
  <2> QED
    BY <1>2, <1>6, <2>1 DEF Fresh
<1>9. CallAllowed' /\ NothingYet' /\ CancelledHasNoOpenBatch'
  BY <1>1, <1>2 DEF Inv, CallAllowed, NothingYet, CancelledHasNoOpenBatch
<1>10. Stands
  BY DEF CreateRun, Stands, Ended
<1> QED
  BY <1>3, <1>5, <1>7, <1>8, <1>9, <1>10 DEF Inv

CallRow == [op : {"none", "clarify", "cancel"}, seen : RunRow, made : 0..MaxCalls]

LEMMA CallRows ==
    ASSUME TypeOK
    PROVE  /\ call.made < MaxCalls => call.made + 1 \in 0..MaxCalls
           /\ Answered => call' \in CallRow /\ call'.op = "none" /\ call'.seen = Idle.seen
           /\ Called /\ call.made < MaxCalls =>
                call' \in CallRow /\ call'.op = call.op /\ call'.seen = call.seen
<1>1. call \in CallRow
  BY DEF TypeOK, CallRow
<1>2. call.made < MaxCalls => call.made + 1 \in 0..MaxCalls
  BY <1>1, SourcingAssumption DEF CallRow
<1>3. Answered => call' \in CallRow /\ call'.op = "none" /\ call'.seen = Idle.seen
  BY <1>1, IdleRow DEF Answered, CallRow
<1>4. ASSUME Called, call.made < MaxCalls
      PROVE  call' \in CallRow /\ call'.op = call.op /\ call'.seen = call.seen
  <2>1. PICK made \in 0..MaxCalls : call' = [call EXCEPT !.made = made]
    BY <1>2, <1>4 DEF Called
  <2> QED
    BY <1>1, <2>1 DEF CallRow
<1> QED
  BY <1>2, <1>3, <1>4

\* The status a call was allowed to change is still the run's, or a rollback froze
\* it: no ended run is changed.
LEMMA CallStands ==
    ASSUME Inv, run.version = call.seen.version, run.status \in Ended
    PROVE  call.op # "clarify" /\ (call.op = "cancel" => run.status = "CANCELLED")
<1>1. call.seen.status = run.status
  BY DEF Inv, Fresh, FreshFor, Ended
<1>2. Following(call.seen.status) = {}
  BY <1>1, EndedLeadsNowhere
<1> QED
  BY <1>1, <1>2 DEF Inv, CallAllowed, MayBecome, Ended

LEMMA CallStep ==
    ASSUME Inv, (\E op \in {"clarify", "cancel"} : CallReads(op)) \/ CallConflicts PROVE Inv' /\ Stands
<1>1. TypeOK /\ WorkersHold
  BY DEF Inv
<1>2. UNCHANGED <<run, batch, disposition, checkpoint, exec, frozen, investigated>>
  BY DEF CallReads, CallConflicts
<1>3. /\ call' \in CallRow /\ call'.seen \in {call.seen, Idle.seen, run} /\ CallAllowed'
      /\ run.status = "ABSENT" => call'.seen \in {call.seen, Idle.seen}
  <2>1. CASE CallConflicts
    BY <1>1, <2>1, CallRows DEF CallConflicts, CallAllowed
  <2>2. ASSUME NEW op \in {"clarify", "cancel"}, CallReads(op)
        PROVE  /\ call' \in CallRow /\ call'.seen = run /\ CallAllowed' /\ run.status # "ABSENT"
    <3>1. PICK made \in 0..MaxCalls : call' = [op |-> op, seen |-> run, made |-> made]
      BY <1>1, <2>2, CallRows DEF CallReads, Callable
    <3>2. run \in RunRow
      BY <1>1 DEF TypeOK
    <3> QED
      BY <2>2, <3>1, <3>2 DEF CallRow, CallReads, CallAllowed
  <2> QED
    BY <2>1, <2>2
<1>4. TypeOK'
  BY <1>1, <1>2, <1>3 DEF TypeOK, CallRow
<1>5. FreshFor(call'.seen, run')
  <2>1. FreshFor(call.seen, run) /\ run \in RunRow /\ call.seen \in RunRow
    BY <1>1 DEF Inv, Fresh, TypeOK
  <2>2. FreshFor(run, run)
    BY <2>1 DEF FreshFor, RunRow
  <2>3. FreshFor(Idle.seen, run)
    BY <2>1, IdleRow DEF FreshFor, RunRow, Inv, NothingYet, Idle
  <2> QED
    BY <1>2, <1>3, <2>1, <2>2, <2>3
<1>6. NothingYet' /\ CancelledHasNoOpenBatch' /\ WorkersHold' /\ \A x \in Executors : Fresh(exec[x].seen)'
  BY <1>2 DEF Inv, NothingYet, CancelledHasNoOpenBatch, WorkersHold, Fresh
<1> QED
  BY <1>2, <1>3, <1>4, <1>5, <1>6 DEF Inv, Fresh, Stands

LEMMA TaskStep ==
    ASSUME Inv, NEW t \in Tasks, SubmitClarification(t) \/ SubmitIdentityResolution(t) PROVE Inv' /\ Stands
<1>1. TypeOK /\ WorkersHold
  BY DEF Inv
<1>2. UNCHANGED <<batch, disposition, checkpoint, frozen, investigated>>
  BY DEF SubmitClarification, SubmitIdentityResolution
<1>3. /\ exec' \in [Executors -> ExecRow] /\ WorkersHold'
      /\ \A y \in Executors : exec'[y].seen \in {exec[y].seen, Idle.seen, run}
  BY <1>1, ScheduleTyped DEF SubmitClarification, SubmitIdentityResolution
<1>4. PICK status \in {"CREATED", "IDENTITY_REVIEW"} : run' = [status |-> status, version |-> run.version + 1]
  BY DEF SubmitClarification, SubmitIdentityResolution, Advance
<1>5. run.status # "ABSENT" /\ run.status \notin Ended
  <2>1. CASE SubmitClarification(t)
    <3>1. run.status \notin Ended
      BY <2>1, CallStands DEF SubmitClarification
    <3>2. run.status # "ABSENT"
      <4> SUFFICES ASSUME run.status = "ABSENT" PROVE FALSE
        OBVIOUS
      <4>1. call.seen.status = "ABSENT"
        BY <2>1 DEF SubmitClarification, Inv, Fresh, FreshFor
      <4> QED
        BY <2>1, <4>1 DEF SubmitClarification, Inv, CallAllowed, MayBecome, Following
    <3> QED
      BY <3>1, <3>2
  <2>2. CASE SubmitIdentityResolution(t)
    BY <2>2 DEF SubmitIdentityResolution, Ended
  <2> QED
    BY <2>1, <2>2
<1>6. call' \in CallRow /\ call'.seen \in {call.seen, Idle.seen} /\ CallAllowed'
  BY <1>1, CallRows DEF SubmitClarification, SubmitIdentityResolution, Callable, CallAllowed
<1>7. status \in RunStatuses
  BY DEF RunStatuses
<1>8. run' \in RunRow
  BY <1>1, <1>4, <1>7 DEF TypeOK, RunRow
<1>9. TypeOK'
  BY <1>1, <1>2, <1>3, <1>6, <1>8 DEF TypeOK, CallRow
<1>10. CancelledHasNoOpenBatch'
  BY <1>4 DEF CancelledHasNoOpenBatch
<1>11. Inv'
  BY <1>3, <1>4, <1>5, <1>6, <1>7, <1>9, <1>10, InvFollows
<1> QED
  BY <1>5, <1>11 DEF Stands

LEMMA CancelStep ==
    ASSUME Inv, CancelRun PROVE Inv' /\ Stands
<1>1. TypeOK /\ WorkersHold
  BY DEF Inv
<1>2. UNCHANGED <<disposition, checkpoint, exec, frozen, investigated>>
  BY DEF CancelRun
<1>3. run' = [status |-> "CANCELLED", version |-> run.version + 1]
  BY DEF CancelRun, Advance
<1>4. call' \in CallRow /\ call'.seen = Idle.seen /\ CallAllowed'
  BY <1>1, CallRows DEF CancelRun, CallAllowed
<1>5. run.status \in Ended => run.status = "CANCELLED"
  BY CallStands DEF CancelRun
<1>6. run.status # "ABSENT"
  <2> SUFFICES ASSUME run.status = "ABSENT" PROVE FALSE
    OBVIOUS
  <2>1. call.seen.status = "ABSENT"
    BY DEF CancelRun, Inv, Fresh, FreshFor
  <2> QED
    BY <2>1 DEF CancelRun, Inv, CallAllowed, MayBecome, Following
<1>7. ASSUME NEW b \in Batches
      PROVE  /\ [Closed(batch[b], "cancelled", "cancelled") EXCEPT !.token = batch[b].token + 1] \in BatchRow
             /\ [Closed(batch[b], "cancelled", "cancelled") EXCEPT !.token = batch[b].token + 1].state = "cancelled"
  <2>1. batch[b] \in BatchRow /\ batch[b].token + 1 \in Nat
    BY <1>1 DEF TypeOK, BatchRow
  <2>2. Closed(batch[b], "cancelled", "cancelled") \in BatchRow
        /\ Closed(batch[b], "cancelled", "cancelled").state = "cancelled"
    BY <2>1, ClosedRow DEF Dispatch
  <2> QED
    BY <2>1, <2>2 DEF BatchRow
<1>8. batch' = [b \in Batches |->
                  IF batch[b].state \in {"pending", "processing"}
                  THEN [Closed(batch[b], "cancelled", "cancelled") EXCEPT !.token = batch[b].token + 1]
                  ELSE batch[b]]
  <2>1. \A b \in Batches : Closed(batch[b], "cancelled", "cancelled").token = batch[b].token
    BY <1>1 DEF TypeOK, BatchRow, Closed
  <2> QED
    BY <2>1 DEF CancelRun
<1>9. batch' \in [Batches -> BatchRow] /\ CancelledHasNoOpenBatch'
  BY <1>1, <1>7, <1>8 DEF TypeOK, CancelledHasNoOpenBatch
<1>10. run' \in RunRow /\ "CANCELLED" \in RunStatuses
  BY <1>1, <1>3 DEF TypeOK, RunRow, RunStatuses
<1>11. TypeOK'
  BY <1>1, <1>2, <1>4, <1>9, <1>10 DEF TypeOK, CallRow
<1>12. WorkersHold'
  BY <1>1, <1>2 DEF WorkersHold
<1>13. Inv'
  BY <1>2, <1>3, <1>4, <1>6, <1>9, <1>10, <1>11, <1>12, InvFollows
<1> QED
  BY <1>3, <1>5, <1>13 DEF Stands

LEMMA NewBatchTyped ==
    ASSUME TypeOK, NEW state \in {"pending", "not_required"}, NEW decisions \in [Candidates -> Actions],
           NewBatch(state, decisions)
    PROVE  /\ batch' \in [Batches -> BatchRow]
           /\ \A b \in Batches : \/ batch'[b].state = batch[b].state
                                 \/ batch[b].state = "absent" /\ batch'[b].state = state
<1>1. PICK b \in Batches :
        /\ batch[b].state = "absent"
        /\ batch' = [batch EXCEPT ![b] = [batch[b] EXCEPT !.state = state, !.version = run.version + 1,
                                                          !.decisions = decisions]]
  BY DEF NewBatch
<1>2. batch[b] \in BatchRow /\ run.version + 1 \in Nat
  BY DEF TypeOK, RunRow
<1>3. PICK version \in Nat :
        batch' = [batch EXCEPT ![b] = [batch[b] EXCEPT !.state = state, !.version = version,
                                                       !.decisions = decisions]]
  BY <1>1, <1>2
<1> DEFINE row == [batch[b] EXCEPT !.state = state, !.version = version, !.decisions = decisions]
<1>4. row \in BatchRow /\ row.state = state
  BY <1>2 DEF BatchRow, Dispatch
<1>5. batch' = [batch EXCEPT ![b] = row] /\ row \in BatchRow /\ row.state = state
  BY <1>3, <1>4
<1> HIDE DEF row
<1>6. batch' \in [Batches -> BatchRow]
  BY <1>5 DEF TypeOK
<1>7. \A c \in Batches : batch'[c] = IF c = b THEN row ELSE batch[c]
  BY <1>5 DEF TypeOK
<1>8. ASSUME NEW c \in Batches
      PROVE  batch'[c].state = batch[c].state \/ (batch[c].state = "absent" /\ batch'[c].state = state)
  <2>1. CASE c = b
    <3>1. batch'[c].state = state
      BY <1>5, <1>7, <2>1
    <3>2. batch[c].state = "absent"
      BY <1>1, <2>1
    <3> QED
      BY <3>1, <3>2
  <2>2. CASE c # b
    <3>1. batch'[c] = batch[c]
      BY <1>7, <2>2
    <3> QED
      BY <3>1
  <2> QED
    BY <2>1, <2>2
<1> QED
  BY <1>6, <1>8

\* What a reviewer's call stores with its batch.
LEMMA DecisionsAreStored ==
    ASSUME TypeOK, SubmitDecisions \/ ReclassifyDecisions
    PROVE  /\ disposition' \in [Candidates -> Actions]
           /\ \E state \in {"pending", "not_required"}, decisions \in [Candidates -> Actions] :
                 NewBatch(state, decisions)
<1>1. CASE SubmitDecisions
  <2>1. PICK d \in Decisions :
          /\ disposition' = Applied(d)
          /\ \E state \in {"pending", "not_required"} : NewBatch(state, Applied(d))
    BY <1>1 DEF SubmitDecisions
  <2>2. PICK D \in SUBSET Candidates : d \in [D -> {"confirm", "defer", "exclude"}]
    BY DEF Decisions
  <2>3. Applied(d) \in [Candidates -> Actions]
    BY <2>2 DEF Applied, TypeOK, Actions
  <2> QED
    BY <2>1, <2>3
<1>2. CASE ReclassifyDecisions
  <2>1. PICK D \in SUBSET Candidates :
          /\ disposition' = [c \in Candidates |-> IF c \in D THEN "defer" ELSE disposition[c]]
          /\ NewBatch("not_required", [c \in Candidates |-> IF c \in D THEN "defer" ELSE "none"])
    BY <1>2 DEF ReclassifyDecisions
  <2>2. disposition' \in [Candidates -> Actions]
    BY <2>1 DEF TypeOK, Actions
  <2>3. [c \in Candidates |-> IF c \in D THEN "defer" ELSE "none"] \in [Candidates -> Actions]
    BY DEF Actions
  <2> QED
    BY <2>1, <2>2, <2>3
<1> QED
  BY <1>1, <1>2

LEMMA DecisionStep ==
    ASSUME Inv, SubmitDecisions \/ ReclassifyDecisions PROVE Inv' /\ Stands
<1>1. TypeOK /\ WorkersHold
  BY DEF Inv
<1>2. UNCHANGED <<checkpoint, exec, frozen, investigated>>
  BY DEF SubmitDecisions, ReclassifyDecisions
<1>3. call' \in CallRow /\ call'.op = call.op /\ call'.seen = call.seen
  BY <1>1, CallRows DEF SubmitDecisions, ReclassifyDecisions, Callable
<1>4. /\ disposition' \in [Candidates -> Actions]
      /\ \E state \in {"pending", "not_required"}, decisions \in [Candidates -> Actions] :
            NewBatch(state, decisions)
  BY <1>1, DecisionsAreStored
<1>5. /\ run.status \in {"IDENTITY_RESOLVING", "IDENTITY_REVIEW", "PARTIAL", "NEEDS_REVIEW"}
      /\ \E status \in {"IDENTITY_RESOLVING", "PARTIAL", "NEEDS_REVIEW"} :
            /\ run' = [status |-> status, version |-> run.version + 1]
            /\ run.status \in Ended => status = run.status
  BY DEF SubmitDecisions, ReclassifyDecisions, Advance, Ended
<1>6. Moves /\ run.status \notin {"ABSENT", "CANCELLED"}
  BY <1>5 DEF Moves, RunStatuses
<1>7. TypeOK'
  BY <1>1, <1>2, <1>3, <1>4, <1>5, <1>6, NewBatchTyped, MovesTyped DEF TypeOK, CallRow
<1>8. WorkersHold' /\ CallAllowed'
  BY <1>1, <1>2, <1>3 DEF WorkersHold, Inv, CallAllowed
<1>9. CancelledHasNoOpenBatch'
  BY <1>5 DEF CancelledHasNoOpenBatch
<1>10. run' = run \/ \E status \in RunStatuses : run' = [status |-> status, version |-> run.version + 1]
  BY <1>6 DEF Moves
<1>11. Inv'
  BY <1>2, <1>3, <1>6, <1>7, <1>8, <1>9, <1>10, InvFollows
<1> QED
  BY <1>6, <1>11 DEF Moves, Stands

LEMMA RolloutStep ==
    ASSUME Inv, SetRollout \/ FreezeRun \/ UNCHANGED vars PROVE Inv' /\ Stands
<1>1. TypeOK
  BY DEF Inv
<1>2. CASE UNCHANGED vars
  BY <1>2 DEF vars, Inv, TypeOK, Fresh, CallAllowed, NothingYet, WorkersHold, CancelledHasNoOpenBatch, Stands
<1>3. CASE SetRollout
  <2>1. call' \in CallRow /\ call'.op = call.op /\ call'.seen = call.seen /\ frozen' \in BOOLEAN
    BY <1>1, <1>3, CallRows DEF SetRollout
  <2>2. UNCHANGED <<run, batch, disposition, checkpoint, exec, investigated>>
    BY <1>3 DEF SetRollout
  <2>3. TypeOK'
    BY <1>1, <2>1, <2>2 DEF TypeOK, CallRow
  <2> QED
    BY <2>1, <2>2, <2>3 DEF Inv, Fresh, CallAllowed, NothingYet, WorkersHold, CancelledHasNoOpenBatch, Stands
<1>4. CASE FreezeRun
  <2>1. /\ run' = [run EXCEPT !.status = "ROLLBACK_FROZEN"] /\ run.status \notin Ended \cup {"ABSENT"}
        /\ UNCHANGED <<batch, disposition, checkpoint, exec, call, frozen, investigated>>
    BY <1>4 DEF FreezeRun
  <2>2. run' \in RunRow /\ run'.version = run.version /\ run'.status = "ROLLBACK_FROZEN"
    BY <1>1, <2>1 DEF TypeOK, RunRow, RunStatuses
  <2>3. ASSUME NEW seen, FreshFor(seen, run) PROVE FreshFor(seen, run')
    BY <2>1, <2>2, <2>3 DEF FreshFor
  <2>4. TypeOK'
    BY <1>1, <2>1, <2>2 DEF TypeOK
  <2>5. Fresh(call.seen)' /\ \A x \in Executors : Fresh(exec[x].seen)'
    BY <2>1, <2>3 DEF Inv, Fresh
  <2>6. CallAllowed' /\ NothingYet' /\ WorkersHold' /\ CancelledHasNoOpenBatch' /\ Stands
    BY <2>1, <2>2 DEF Inv, CallAllowed, NothingYet, WorkersHold, CancelledHasNoOpenBatch, Stands
  <2> QED
    BY <2>4, <2>5, <2>6 DEF Inv
<1> QED
  BY <1>2, <1>3, <1>4

-----------------------------------------------------------------------------
(* The theorems.                                                           *)

LEMMA Initially == Init => Inv
<1> SUFFICES ASSUME Init PROVE Inv
  OBVIOUS
<1>1. TypeOK
  <2>1. run \in RunRow /\ checkpoint \in ThreadRow
    BY DEF Init, RunRow, ThreadRow, Nodes
  <2>2. batch \in [Batches -> BatchRow]
    BY SourcingAssumption DEF Init, BatchRow, Dispatch, Undecided, Actions
  <2>3. exec \in [Executors -> ExecRow]
    BY IdleRow DEF Init
  <2>4. call \in CallRow
    BY IdleRow, SourcingAssumption DEF Init, CallRow
  <2> QED
    BY <2>1, <2>2, <2>3, <2>4 DEF Init, TypeOK, CallRow, Undecided, Actions
<1>2. FreshFor(Idle.seen, run)
  BY IdleRow DEF Init, FreshFor, Idle
<1>3. \A x \in Executors : exec[x] = Idle
  BY DEF Init
<1>4. Fresh(call.seen) /\ \A x \in Executors : Fresh(exec[x].seen)
  BY <1>2, <1>3 DEF Init, Fresh
<1>5. CallAllowed /\ NothingYet /\ WorkersHold /\ CancelledHasNoOpenBatch
  BY <1>3, IdleRow DEF Init, CallAllowed, NothingYet, WorkersHold, Executors, CancelledHasNoOpenBatch
<1> QED
  BY <1>1, <1>4, <1>5 DEF Inv

LEMMA InvStep ==
    ASSUME Inv, [Next]_vars PROVE Inv' /\ Stands
BY ExecuteStep, WorkerStep, LeaseStep, CreateStep, CallStep, TaskStep, CancelStep, DecisionStep, RolloutStep
   DEF Next, Reviewer

\* The invariant that relates what executions and callers have read to the run.
THEOREM InvHolds == Spec => []Inv
BY Initially, InvStep, PTL DEF Spec

\* Run, batches, thread and executions have their types.
THEOREM TypesHold == Spec => []TypeOK
<1>1. Inv => TypeOK
  BY DEF Inv
<1> QED
  BY <1>1, InvHolds, PTL

\* Whoever wins the race for a batch, a cancelled run leaves none open.
THEOREM CancellationClosesBatches == Spec => []CancelledHasNoOpenBatch
<1>1. Inv => CancelledHasNoOpenBatch
  BY DEF Inv
<1> QED
  BY <1>1, InvHolds, PTL

\* No late execution, call or worker changes the status of an ended run.
THEOREM EndedRunsStand == Spec => EndedStands
<1>1. Inv /\ [Next]_vars => [run.status \in Ended => run'.status = run.status]_vars
  BY InvStep DEF Stands
<1> QED
  BY <1>1, InvHolds, PTL DEF Spec, EndedStands

\* No late worker changes the outcome of a batch.
THEOREM BatchOutcomesStand == Spec => BatchOutcomeStands
<1>1. ASSUME Inv, [Next]_vars, NEW b \in Batches,
             batch[b].state \in {"consumed", "cancelled", "failed", "not_required"}
      PROVE  batch'[b].state = batch[b].state
  <2>1. TypeOK /\ batch \in [Batches -> BatchRow] /\ ~Due(b) /\ batch[b].state # "absent"
    BY <1>1 DEF Inv, TypeOK, Due
  <2>2. ASSUME NEW w \in Workers, ClaimBatch(w) PROVE batch'[b].state = batch[b].state
    <3>1. PICK c \in Batches : Due(c) /\ ClaimDue(w, c)
      BY <2>2 DEF ClaimBatch
    <3>2. c # b
      BY <2>1, <3>1
    <3> QED
      BY <2>1, <3>1, <3>2 DEF ClaimDue, GiveUp
  <2>3. ASSUME NEW w \in Workers, MarkConsumed(w) PROVE batch'[b].state = batch[b].state
    BY <1>1, <2>1, <2>3 DEF MarkConsumed
  <2>4. ASSUME NEW c \in Batches, LeaseExpires(c) PROVE batch'[b].state = batch[b].state
    BY <2>1, <2>4 DEF LeaseExpires, BatchRow
  <2>5. ASSUME CancelRun PROVE batch'[b].state = batch[b].state
    BY <1>1, <2>5 DEF CancelRun
  <2>6. ASSUME SubmitDecisions \/ ReclassifyDecisions PROVE batch'[b].state = batch[b].state
    <3>1. \E state \in {"pending", "not_required"}, decisions \in [Candidates -> Actions] :
            NewBatch(state, decisions)
      BY <2>1, <2>6, DecisionsAreStored
    <3> QED
      BY <2>1, <3>1, NewBatchTyped
  <2>7. ASSUME NEW x \in Executors, Execute(x) \/ Fails(x) PROVE UNCHANGED batch
    BY <2>7 DEF Execute, ReadRun, LoadCheckpoint, SaveCheckpoint, Fails, Others, Node, LoadRun, RequirementReady,
         ParseRequirement, AskClarification, ClarificationInsufficient, LockPolicy, LocalLibraryFails,
         LocalDiscovery, ExternalDiscoveryFails, ExternalDiscovery, IdentityResolution, AskReview,
         InterruptForReview, ReadReviewGroups, ResumeReview, ResolveIdentities, Investigate,
         InvestigateParallel, ValidateEvidence, ScoreCandidates, ReadyForReview
  <2>8. ASSUME \/ \E w \in Workers : ReadBatch(w)
               \/ \E t \in Tasks : CreateRun(t) \/ SubmitClarification(t) \/ SubmitIdentityResolution(t)
               \/ \E op \in {"clarify", "cancel"} : CallReads(op)
               \/ CallConflicts \/ SetRollout \/ FreezeRun \/ UNCHANGED vars
        PROVE  UNCHANGED batch
    BY <2>8 DEF ReadBatch, Others, CreateRun, SubmitClarification, SubmitIdentityResolution, CallReads,
                CallConflicts, SetRollout, FreezeRun, vars
  <2> QED
    BY <1>1, <2>2, <2>3, <2>4, <2>5, <2>6, <2>7, <2>8 DEF Next, Reviewer
<1>2. Inv /\ [Next]_vars
        => [\A b \in Batches :
              batch[b].state \in {"consumed", "cancelled", "failed", "not_required"} =>
                  batch'[b].state = batch[b].state]_vars
  BY <1>1
<1> QED
  BY <1>2, InvHolds, PTL DEF Spec, BatchOutcomeStands
=============================================================================
