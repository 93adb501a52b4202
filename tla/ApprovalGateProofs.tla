------------------------- MODULE ApprovalGateProofs -------------------------
(***************************************************************************)
(* An action is performed once, only if it was approved, and what the run  *)
(* and the outbox report about it is true, for any number of actions,      *)
(* streams, crashes and attempts.                                          *)
(***************************************************************************)
EXTENDS ApprovalGate, TLAPS

AllSucceeded == \A p \in Proposals : receipt[p] = "succeeded"
AllRejected  == \A p \in Proposals : proposal[p] = "rejected"
Outcome(verdict) == IF verdict = "approved" THEN AllSucceeded ELSE AllRejected

\* An action is called under its one receipt, which needs the approval.
ActionInOrder(p) ==
    /\ receipt[p] # "none" => proposal[p] = "approved"
    /\ receipt[p] = "none" => calls[p] = 0
    /\ calls[p] <= 1
    /\ receipt[p] = "succeeded" => effect[p] = TRUE
    /\ event[p] = "published" => receipt[p] = "succeeded"

\* The actions before the one in hand are done: this orders the streams among
\* each other, for nobody passes an action that is started.
Before(a) == \A p \in Proposals : p < stream[a].next => receipt[p] = "succeeded"

ThreadInOrder(a) ==
    stream[a].thread # "none" =>
        /\ stream[a].pc \in {"act", "gone"}
        /\ stream[a].next \in Proposals /\ Before(a)
        /\ receipt[stream[a].next] = "started"
        /\ stream[a].thread = "claimed" => calls[stream[a].next] = 0
        /\ stream[a].thread = "did" => effect[stream[a].next] = TRUE

StreamInOrder(a) ==
    /\ ThreadInOrder(a)
    /\ stream[a].pc = "act" => stream[a].verdict = "approved" /\ Before(a)
    /\ stream[a].pc = "save" => stream[a].verdict # "approved" /\ AllRejected
    /\ stream[a].pc = "checkpoint" => Outcome(stream[a].verdict)
    /\ stream[a].pc = "finalize" => saver.at = "finalize"
    /\ stream[a].from = "finalize" => saver.at = "finalize"

RunInOrder ==
    /\ saver.at = "finalize" => Outcome(saver.verdict)
    /\ run = "COMPLETED" => saver.at = "finalize"

Inv == /\ TypeOK
       /\ \A p \in Proposals : ActionInOrder(p)
       /\ \A a \in Streams : StreamInOrder(a)
       /\ OneActionAtATime
       /\ RunInOrder

-----------------------------------------------------------------------------
(* Initially.                                                              *)

LEMMA Initially == Init => Inv
<1> SUFFICES ASSUME Init PROVE Inv
  OBVIOUS
<1> USE GateAssumption
<1>1. TypeOK
  <2>0. 1 \in 1..(N + 1) /\ 0 \in Nat /\ 1 \in Nat
    OBVIOUS
  <2>1. NewStream \in StreamRow
    BY <2>0 DEF NewStream, StreamRow, Opening
  <2>a. [NewStream EXCEPT !.pc = "gate", !.token = 1] \in StreamRow
    BY <2>0, <2>1 DEF StreamRow, Working
  <2>2. stream \in [Streams -> StreamRow]
    BY <2>1, <2>a DEF Init
  <2>3. run \in RunStatus /\ ledger \in {"gate", "decided"} /\ crashes \in 0..MaxCrashes
    BY DEF Init, RunStatus
  <2>4. /\ exec \in [state : {"RUNNING", "PAUSED", "SUCCEEDED", "CANCELLED"}, token : Nat, lease : {"held", "over"},
                      proof : {"none", "gate", "finalize"}]
        /\ saver \in [at : {"gate", "finalize"}, asked : BOOLEAN,
                       verdict : {"none", "approved", "rejected", "expired"}]
    BY DEF Init
  <2>5. card \in BOOLEAN /\ expired \in BOOLEAN
    BY DEF Init
  <2>6. /\ proposal \in [Proposals -> {"pending", "approved", "rejected", "frozen"}]
        /\ receipt \in [Proposals -> {"none", "started", "unknown", "succeeded"}]
        /\ event \in [Proposals -> {"none", "queued", "published", "dead"}]
        /\ tries \in [Proposals -> Nat] /\ calls \in [Proposals -> Nat]
    BY DEF Init
  <2>7. effect \in [Proposals -> BOOLEAN]
    BY DEF Init
  <2> QED
    BY <2>2, <2>3, <2>4, <2>5, <2>6, <2>7 DEF TypeOK
<1>2. \A a \in Streams : stream[a].thread = "none" /\ stream[a].pc \in {"idle", "gate"} /\ stream[a].from = "gate"
  BY DEF Init, NewStream
<1>3. \A p \in Proposals : ActionInOrder(p)
  BY DEF Init, ActionInOrder
<1>4. \A a \in Streams : StreamInOrder(a)
  BY <1>2 DEF StreamInOrder, ThreadInOrder
<1>5. OneActionAtATime /\ RunInOrder
  BY <1>2 DEF OneActionAtATime, RunInOrder, Init
<1> QED
  BY <1>1, <1>3, <1>4, <1>5 DEF Inv

-----------------------------------------------------------------------------
(* Types.                                                                  *)

Row(a) == \E row \in StreamRow : stream' = [stream EXCEPT ![a] = row]

LEMMA OpenRow ==
    ASSUME TypeOK, NEW a \in Streams, Open(a) PROVE Row(a)
<1>1. stream[a] \in StreamRow /\ exec.proof \in {"none", "gate", "finalize"} /\ ledger \in {"gate", "decided"}
  BY DEF TypeOK
<1>2. /\ exec.token + 1 \in Nat /\ saver.at \in {"gate", "finalize"}
      /\ saver.verdict \in {"none", "approved", "rejected", "expired"}
  BY DEF TypeOK
<1>3. CASE ReadRecord(a)
  <2>1. PICK answer \in {"approved", "rejected"} :
          stream' = [stream EXCEPT ![a] = [stream[a] EXCEPT !.pc = "read", !.answer = answer,
                                                            !.proof = exec.proof, !.ledger = ledger]]
    BY <1>3 DEF ReadRecord
  <2>2. [stream[a] EXCEPT !.pc = "read", !.answer = answer, !.proof = exec.proof, !.ledger = ledger] \in StreamRow
    BY <1>1 DEF StreamRow, Opening
  <2> QED
    BY <2>1, <2>2 DEF Row
<1>4. CASE ExamineCheckpoint(a)
  <2> DEFINE answer == IF saver.at = "gate" /\ ~saver.asked THEN "none" ELSE stream[a].answer
  <2>1. stream' = [stream EXCEPT ![a] = [stream[a] EXCEPT !.pc = "examined", !.from = saver.at,
                                                          !.verdict = saver.verdict, !.answer = answer]]
    BY <1>4 DEF ExamineCheckpoint
  <2>2. answer \in {"none", "approved", "rejected"}
    BY <1>1 DEF StreamRow
  <2> HIDE DEF answer
  <2>3. [stream[a] EXCEPT !.pc = "examined", !.from = saver.at, !.verdict = saver.verdict, !.answer = answer]
          \in StreamRow
    BY <1>1, <1>2, <2>2 DEF StreamRow, Opening
  <2> QED
    BY <2>1, <2>3 DEF Row
<1>5. CASE ValidateApprovals(a) \/ BindRecoveredCheckpoint(a) \/ Refuse(a)
  <2>1. PICK pc \in {"validated", "bound", "gone"} : stream' = [stream EXCEPT ![a].pc = pc]
    BY <1>5 DEF ValidateApprovals, BindRecoveredCheckpoint, Refuse, Goto
  <2>2. [stream[a] EXCEPT !.pc = pc] \in StreamRow
    BY <1>1 DEF StreamRow, Opening
  <2> QED
    BY <2>1, <2>2 DEF Row
<1>6. CASE Resume(a)
  <2>1. stream' = [stream EXCEPT ![a] = [stream[a] EXCEPT !.pc = stream[a].from, !.token = exec.token + 1]]
    BY <1>6 DEF Resume
  <2>2. [stream[a] EXCEPT !.pc = stream[a].from, !.token = exec.token + 1] \in StreamRow
    BY <1>1, <1>2 DEF StreamRow, Working
  <2> QED
    BY <2>1, <2>2 DEF Row
<1> QED
  BY <1>3, <1>4, <1>5, <1>6 DEF Open

LEMMA GateRow ==
    ASSUME TypeOK, NEW a \in Streams, Gate(a) PROVE Row(a)
<1>1. stream[a] \in StreamRow
  BY DEF TypeOK
<1>2. CASE Ask(a) \/ PauseForApproval(a)
  <2>1. PICK pc \in {"asked", "gone"} : stream' = [stream EXCEPT ![a].pc = pc]
    BY <1>2 DEF Ask, PauseForApproval, Goto
  <2>2. [stream[a] EXCEPT !.pc = pc] \in StreamRow
    BY <1>1 DEF StreamRow, Working
  <2> QED
    BY <2>1, <2>2 DEF Row
<1>3. CASE TakeAnswer(a)
  <2> DEFINE verdict == IF expired THEN "expired" ELSE stream[a].answer
  <2>1. stream' = [stream EXCEPT ![a] = [stream[a] EXCEPT !.pc = "decide", !.verdict = verdict]]
    BY <1>3 DEF TakeAnswer
  <2>2. [stream[a] EXCEPT !.pc = "decide", !.verdict = verdict] \in StreamRow
    BY <1>1 DEF StreamRow, Working
  <2> QED
    BY <2>1, <2>2 DEF Row
<1>4. CASE Decided(a)
  <2> DEFINE pc == IF stream[a].verdict = "approved" THEN "act" ELSE "save"
  <2>1. stream' = [stream EXCEPT ![a] = [stream[a] EXCEPT !.pc = pc, !.next = 1]]
    BY <1>4 DEF Decided
  <2>2. 1 \in 1..(N + 1) /\ pc \in Working
    BY GateAssumption DEF Working
  <2> HIDE DEF pc
  <2>3. [stream[a] EXCEPT !.pc = pc, !.next = 1] \in StreamRow
    BY <1>1, <2>2 DEF StreamRow
  <2> QED
    BY <2>1, <2>3 DEF Row
<1> QED
  BY <1>2, <1>3, <1>4 DEF Gate, DecideProposals, ReplayDecision

LEMMA PerformRow ==
    ASSUME TypeOK, NEW a \in Streams, Perform(a), stream[a].thread # "none" => stream[a].next \in Proposals
    PROVE  Row(a)
<1>1. stream[a] \in StreamRow
  BY DEF TypeOK
<1>2. ASSUME stream[a].next \in Proposals PROVE Advanced(a) \in StreamRow
  <2>1. stream[a].next + 1 \in 1..(N + 1)
    BY <1>2, GateAssumption DEF Proposals
  <2> QED
    BY <1>1, <2>1 DEF StreamRow, Advanced
<1>3. CASE ReturnReceipt(a)
  BY <1>2, <1>3 DEF ReturnReceipt, Row
<1>4. CASE StartReceipt(a) \/ CallAdapter(a)
  <2>1. PICK thread \in {"claimed", "did", "raised"} : stream' = [stream EXCEPT ![a].thread = thread]
    BY <1>4 DEF StartReceipt, CallAdapter
  <2>2. [stream[a] EXCEPT !.thread = thread] \in StreamRow
    BY <1>1 DEF StreamRow
  <2> QED
    BY <2>1, <2>2 DEF Row
<1>5. CASE RecordReceipt(a)
  <2>1. [stream[a] EXCEPT !.thread = "none"] \in StreamRow
    BY <1>1 DEF StreamRow
  <2>2. stream[a].next \in Proposals
    BY <1>5 DEF RecordReceipt
  <2> QED
    BY <1>2, <1>5, <2>1, <2>2 DEF RecordReceipt, Row
<1>6. CASE RecordUnknown(a)
  <2> DEFINE pc == IF At(a, "act") THEN "failing" ELSE stream[a].pc
  <2>1. stream' = [stream EXCEPT ![a] = [stream[a] EXCEPT !.thread = "none", !.pc = pc]]
    BY <1>6 DEF RecordUnknown
  <2>2. pc \in {"idle", "gone"} \cup Opening \cup Working
    BY <1>1 DEF StreamRow, Working
  <2> HIDE DEF pc
  <2>3. [stream[a] EXCEPT !.thread = "none", !.pc = pc] \in StreamRow
    BY <1>1, <2>2 DEF StreamRow
  <2> QED
    BY <2>1, <2>3 DEF Row
<1> QED
  BY <1>3, <1>4, <1>5, <1>6 DEF Perform

LEMMA EndRow ==
    ASSUME TypeOK, NEW a \in Streams, End(a) PROVE Row(a)
<1>1. stream[a] \in StreamRow
  BY DEF TypeOK
<1>2. CASE StreamDies(a)
  <2>1. [stream[a] EXCEPT !.pc = "gone", !.thread = "none"] \in StreamRow
    BY <1>1 DEF StreamRow
  <2> QED
    BY <1>2, <2>1 DEF StreamDies, Row
<1>3. CASE SaveSnapshot(a) \/ WriteCheckpoint(a) \/ Finish(a) \/ PauseForReview(a)
  <2>1. PICK pc \in {"checkpoint", "finalize", "gone"} : stream' = [stream EXCEPT ![a].pc = pc]
    BY <1>3 DEF SaveSnapshot, WriteCheckpoint, Finish, PauseForReview, Goto
  <2>2. [stream[a] EXCEPT !.pc = pc] \in StreamRow
    BY <1>1 DEF StreamRow, Working
  <2> QED
    BY <2>1, <2>2 DEF Row
<1> QED
  BY <1>2, <1>3 DEF End

LEMMA TypeStep ==
    ASSUME TypeOK, \A a \in Streams : ThreadInOrder(a), [Next]_vars PROVE TypeOK'
<1> DEFINE ExecRow   == [state : {"RUNNING", "PAUSED", "SUCCEEDED", "CANCELLED"}, token : Nat, lease : {"held", "over"},
                         proof : {"none", "gate", "finalize"}]
           SaverRow  == [at : {"gate", "finalize"}, asked : BOOLEAN,
                         verdict : {"none", "approved", "rejected", "expired"}]
           RunTyped  == run \in RunStatus /\ exec \in ExecRow /\ ledger \in {"gate", "decided"} /\ saver \in SaverRow
           Switches  == card \in BOOLEAN /\ expired \in BOOLEAN
           Actions   == /\ proposal \in [Proposals -> {"pending", "approved", "rejected", "frozen"}]
                        /\ receipt \in [Proposals -> {"none", "started", "unknown", "succeeded"}]
                        /\ event \in [Proposals -> {"none", "queued", "published", "dead"}]
                        /\ tries \in [Proposals -> Nat] /\ calls \in [Proposals -> Nat]
           Effects   == effect \in [Proposals -> BOOLEAN]
           Deaths    == crashes \in 0..MaxCrashes
<1>1. RunTyped /\ Switches /\ Actions /\ Effects /\ Deaths /\ stream \in [Streams -> StreamRow]
  BY DEF TypeOK
<1>2. ASSUME NEW a \in Streams, Row(a) PROVE stream' \in [Streams -> StreamRow]
  BY <1>1, <1>2 DEF Row
<1>3. ASSUME NEW a \in Streams PROVE stream[a] \in StreamRow
  BY <1>1
<1>d. saver.at \in {"gate", "finalize"}
  BY <1>1
<1>e. exec.token + 1 \in Nat
  <2>1. exec.token \in Nat
    BY <1>1
  <2> QED
    BY <2>1
<1>4. ASSUME NEW a \in Streams, Open(a) PROVE TypeOK'
  <2>1. stream' \in [Streams -> StreamRow]
    BY <1>2, <1>4, OpenRow
  <2>2. RunTyped'
    <3>1. CASE BindRecoveredCheckpoint(a)
      BY <1>1, <1>3, <3>1 DEF BindRecoveredCheckpoint, StreamRow
    <3>2. CASE Resume(a)
      <4>1. PICK token \in Nat : exec' = [exec EXCEPT !.state = "RUNNING", !.token = token, !.lease = "held"]
        BY <1>e, <3>2 DEF Resume
      <4>2. exec \in ExecRow
        BY <1>1
      <4>3. exec' \in ExecRow
        BY <4>1, <4>2
      <4> QED
        BY <1>1, <3>2, <4>3 DEF Resume
    <3>3. CASE UNCHANGED runVars
      BY <1>1, <3>3 DEF runVars
    <3> QED
      BY <1>4, <3>1, <3>2, <3>3 DEF Open, ReadRecord, ExamineCheckpoint, ValidateApprovals, Refuse
  <2>3. UNCHANGED <<actionVars, card, expired, crashes>>
    BY <1>4 DEF Open, ReadRecord, ExamineCheckpoint, ValidateApprovals, BindRecoveredCheckpoint, Resume, Refuse, runVars
  <2> QED
    BY <1>1, <2>1, <2>2, <2>3 DEF TypeOK, actionVars
<1>5. ASSUME NEW a \in Streams, Gate(a) PROVE TypeOK'
  <2>1. stream' \in [Streams -> StreamRow]
    BY <1>2, <1>5, GateRow
  <2>2. RunTyped' /\ card' \in BOOLEAN
    <3>1. CASE Ask(a)
      BY <1>1, <3>1 DEF Ask
    <3>2. CASE PauseForApproval(a)
      BY <1>1, <3>2 DEF PauseForApproval, RunStatus
    <3>3. CASE DecideProposals(a)
      BY <1>1, <3>3 DEF DecideProposals, RunStatus
    <3>4. CASE UNCHANGED runVars
      BY <1>1, <3>4 DEF runVars
    <3> QED
      BY <1>5, <3>1, <3>2, <3>3, <3>4 DEF Gate, TakeAnswer, ReplayDecision
  <2>3. Actions'
    <3>1. CASE DecideProposals(a)
      BY <1>1, <3>1 DEF DecideProposals, Wanted
    <3>2. CASE UNCHANGED actionVars
      BY <1>1, <3>2 DEF actionVars
    <3> QED
      BY <1>5, <3>1, <3>2 DEF Gate, Ask, PauseForApproval, TakeAnswer, ReplayDecision
  <2>4. UNCHANGED <<effect, expired, crashes>>
    BY <1>5 DEF Gate, Ask, PauseForApproval, TakeAnswer, DecideProposals, ReplayDecision, actionVars
  <2> QED
    BY <1>1, <2>1, <2>2, <2>3, <2>4 DEF TypeOK
<1>6. ASSUME NEW a \in Streams, Perform(a) PROVE TypeOK'
  <2>1. stream[a].thread # "none" => stream[a].next \in Proposals
    BY DEF ThreadInOrder
  <2>2. stream' \in [Streams -> StreamRow]
    BY <1>2, <1>6, <2>1, PerformRow
  <2>3. Actions'
    BY <1>1, <1>6 DEF Perform, ReturnReceipt, StartReceipt, CallAdapter, RecordReceipt, RecordUnknown, actionVars
  <2>4. Effects'
    <3>1. CASE CallAdapter(a)
      <4>1. PICK happened \in BOOLEAN : effect' = [effect EXCEPT ![stream[a].next] = happened]
        BY <1>1, <3>1, <2>1 DEF CallAdapter
      <4> QED
        BY <1>1, <4>1
    <3>2. CASE UNCHANGED effect
      BY <1>1, <3>2
    <3> QED
      BY <1>6, <3>1, <3>2 DEF Perform, ReturnReceipt, StartReceipt, RecordReceipt, RecordUnknown, actionVars
  <2>5. UNCHANGED <<run, exec, ledger, saver, card, expired, crashes>>
    BY <1>6 DEF Perform, ReturnReceipt, StartReceipt, CallAdapter, RecordReceipt, RecordUnknown, runVars
  <2> QED
    BY <1>1, <2>2, <2>3, <2>4, <2>5 DEF TypeOK
<1>7. ASSUME NEW a \in Streams, End(a) PROVE TypeOK'
  <2>1. stream' \in [Streams -> StreamRow]
    BY <1>2, <1>7, EndRow
  <2>2. RunTyped' /\ card' \in BOOLEAN
    <3>1. CASE SaveSnapshot(a)
      BY <1>1, <3>1 DEF SaveSnapshot
    <3>2. CASE WriteCheckpoint(a)
      BY <1>1, <1>3, <3>2 DEF WriteCheckpoint, StreamRow
    <3>3. CASE Finish(a)
      BY <1>1, <3>3 DEF Finish, RunStatus, Terminal
    <3>4. CASE PauseForReview(a)
      <4>1. PICK proof \in {"none", "gate", "finalize"} :
              exec' = exec \/ exec' = [exec EXCEPT !.state = "PAUSED", !.proof = proof]
        BY <1>3, <1>d, <3>4 DEF PauseForReview, StreamRow
      <4>2. exec \in ExecRow
        BY <1>1
      <4>3. exec' \in ExecRow
        BY <4>1, <4>2
      <4> QED
        BY <1>1, <3>4, <4>3 DEF PauseForReview, RunStatus
    <3>5. CASE StreamDies(a)
      BY <1>1, <3>5 DEF StreamDies, runVars
    <3> QED
      BY <1>7, <3>1, <3>2, <3>3, <3>4, <3>5 DEF End
  <2>3. UNCHANGED <<actionVars, expired>>
    BY <1>7 DEF End, SaveSnapshot, WriteCheckpoint, Finish, PauseForReview, StreamDies
  <2>4. Deaths'
    <3>1. CASE StreamDies(a)
      BY <1>1, <3>1, GateAssumption DEF StreamDies
    <3>2. CASE UNCHANGED crashes
      BY <1>1, <3>2
    <3> QED
      BY <1>7, <3>1, <3>2 DEF End, SaveSnapshot, WriteCheckpoint, Finish, PauseForReview
  <2> QED
    BY <1>1, <2>1, <2>2, <2>3, <2>4 DEF TypeOK, actionVars
<1>8. ASSUME LeaseExpires \/ ReconcileExpired \/ Cancel PROVE TypeOK'
  <2>0. exec \in ExecRow
    BY <1>1
  <2>a. exec' \in ExecRow
    <3>1. CASE LeaseExpires \/ Cancel
      BY <2>0, <3>1 DEF LeaseExpires, Cancel
    <3>2. CASE ReconcileExpired
      <4>1. PICK token \in Nat : exec' = [exec EXCEPT !.state = "PAUSED", !.token = token, !.proof = "none"]
        BY <1>e, <3>2 DEF ReconcileExpired
      <4> QED
        BY <2>0, <4>1
    <3> QED
      BY <1>8, <3>1, <3>2
  <2>1. RunTyped'
    BY <1>1, <1>8, <2>a DEF LeaseExpires, ReconcileExpired, Cancel, RunStatus, Terminal
  <2>2. card' \in BOOLEAN
    BY <1>1, <1>8 DEF LeaseExpires, ReconcileExpired, Cancel
  <2>3. UNCHANGED <<actionVars, stream, expired, crashes>>
    BY <1>8 DEF LeaseExpires, ReconcileExpired, Cancel
  <2> QED
    BY <1>1, <2>1, <2>2, <2>3 DEF TypeOK, actionVars
<1>9. ASSUME Freeze PROVE TypeOK'
  <2>1. Actions'
    BY <1>1, <1>9 DEF Freeze
  <2>2. run' \in RunStatus
    BY <1>9 DEF Freeze, RunStatus, Terminal
  <2>3. UNCHANGED <<exec, ledger, saver, card, effect, stream, expired, crashes>>
    BY <1>9 DEF Freeze
  <2> QED
    BY <1>1, <2>1, <2>2, <2>3 DEF TypeOK
<1>10. ASSUME Expire PROVE TypeOK'
  BY <1>1, <1>10 DEF Expire, runVars, actionVars, TypeOK
<1>11. ASSUME NEW p \in Proposals, DeliverEvent(p) \/ DeliveryRefused(p) PROVE TypeOK'
  <2>1. Actions'
    BY <1>1, <1>11 DEF DeliverEvent, DeliveryRefused
  <2>2. UNCHANGED <<runVars, stream, effect, expired, crashes>>
    BY <1>11 DEF DeliverEvent, DeliveryRefused
  <2> QED
    BY <1>1, <2>1, <2>2 DEF TypeOK, runVars
<1>12. CASE UNCHANGED vars
  BY <1>1, <1>12 DEF vars, TypeOK
<1> QED
  BY <1>4, <1>5, <1>6, <1>7, <1>8, <1>9, <1>10, <1>11, <1>12 DEF Next

-----------------------------------------------------------------------------
(* What a step of one stream leaves to the others.                         *)

Succeeding  == \A p \in Proposals : receipt[p] = "succeeded" => receipt'[p] = "succeeded"
Rejecting   == AllRejected => AllRejected'
Saving      == saver.at = "finalize" => saver'.at = "finalize"
ActionOf(b) == LET p == stream[b].next IN
                   receipt'[p] = receipt[p] /\ calls'[p] = calls[p] /\ effect'[p] = effect[p]

LEMMA OthersStay ==
    ASSUME NEW b \in Streams, StreamInOrder(b), stream'[b] = stream[b], Succeeding, Rejecting, Saving,
           stream[b].thread # "none" => ActionOf(b)
    PROVE  StreamInOrder(b)'
<1>1. Before(b) => Before(b)'
  BY DEF Before, Succeeding
<1>2. Outcome(stream[b].verdict) => Outcome(stream[b].verdict)'
  BY DEF Outcome, AllSucceeded, Succeeding, Rejecting
<1>3. ThreadInOrder(b)'
  <2> SUFFICES ASSUME stream[b].thread # "none" PROVE ThreadInOrder(b)'
    BY DEF ThreadInOrder
  <2>1. ThreadInOrder(b) /\ ActionOf(b)
    BY DEF StreamInOrder
  <2>2. /\ stream[b].pc \in {"act", "gone"} /\ stream[b].next \in Proposals /\ Before(b)
        /\ receipt[stream[b].next] = "started"
        /\ stream[b].thread = "claimed" => calls[stream[b].next] = 0
    BY <2>1 DEF ThreadInOrder
  <2>3. stream[b].thread = "did" => effect[stream[b].next] = TRUE
    BY <2>1 DEF ThreadInOrder
  <2>4. /\ receipt'[stream[b].next] = receipt[stream[b].next] /\ calls'[stream[b].next] = calls[stream[b].next]
        /\ effect'[stream[b].next] = effect[stream[b].next]
    BY <2>1 DEF ActionOf
  <2>5. stream[b].thread = "did" => effect'[stream[b].next] = TRUE
    BY <2>3, <2>4
  <2> QED
    BY <1>1, <2>2, <2>4, <2>5 DEF ThreadInOrder
<1> QED
  BY <1>1, <1>2, <1>3 DEF StreamInOrder, Rejecting, Saving, Outcome, AllSucceeded, AllRejected

LEMMA RunStays ==
    ASSUME RunInOrder, UNCHANGED saver, run' = "COMPLETED" => run = "COMPLETED", Succeeding, Rejecting
    PROVE  RunInOrder'
BY DEF RunInOrder, Outcome, AllSucceeded, Succeeding, Rejecting

\* A step that touches no action and starts no thread.
LEMMA QuietStep ==
    ASSUME Inv, TypeOK', NEW a \in Streams, \A b \in Streams : b # a => stream'[b] = stream[b],
           UNCHANGED <<proposal, receipt, event, calls, effect>>, Saving,
           stream'[a].thread \in {stream[a].thread, "none"}, StreamInOrder(a)', RunInOrder'
    PROVE  Inv'
<1>1. Succeeding /\ Rejecting
  BY DEF Succeeding, Rejecting, AllRejected
<1>2. \A b \in Streams : StreamInOrder(b)'
  BY <1>1, OthersStay DEF Inv, ActionOf
<1>3. \A p \in Proposals : ActionInOrder(p)'
  BY DEF Inv, ActionInOrder
<1>4. OneActionAtATime'
  BY DEF Inv, OneActionAtATime
<1> QED
  BY <1>2, <1>3, <1>4 DEF Inv

LEMMA OneRow ==
    ASSUME TypeOK, NEW a \in Streams, Row(a)
    PROVE  \A b \in Streams : b # a => stream'[b] = stream[b]
BY DEF TypeOK, Row

\* While nobody is at the tool calls, there is no thread.
LEMMA NoThread ==
    ASSUME NEW a \in Streams, ThreadInOrder(a), stream[a].pc \notin {"act", "gone"}
    PROVE  stream[a].thread = "none"
BY DEF ThreadInOrder

-----------------------------------------------------------------------------
(* The invariant is kept.                                                  *)

\* A stream that opens owns nothing yet, and one that resumes enters the gate or,
\* if the checkpoint is past it, the end.
LEMMA OpenStep ==
    ASSUME Inv, TypeOK', NEW a \in Streams, Open(a) PROVE Inv'
<1>1. TypeOK /\ StreamInOrder(a) /\ ThreadInOrder(a) /\ RunInOrder
  BY DEF Inv, StreamInOrder
<1>2. \A b \in Streams : b # a => stream'[b] = stream[b]
  BY <1>1, OpenRow, OneRow
<1>3. UNCHANGED <<proposal, receipt, event, calls, effect, run, saver>>
  BY DEF Open, ReadRecord, ExamineCheckpoint, ValidateApprovals, BindRecoveredCheckpoint, Resume, Refuse,
         runVars, actionVars
<1>4. stream[a].thread = "none"
  BY <1>1, NoThread DEF Open, ReadRecord, ExamineCheckpoint, ValidateApprovals, BindRecoveredCheckpoint, Resume,
                        Refuse, At, Opening
<1>5. stream \in [Streams -> StreamRow] /\ stream[a] \in StreamRow
  BY <1>1 DEF TypeOK
<1>6. stream'[a].thread = "none" /\ StreamInOrder(a)'
  <2>1. CASE ReadRecord(a)
    <3>1. PICK answer \in {"approved", "rejected"} :
            stream' = [stream EXCEPT ![a] = [stream[a] EXCEPT !.pc = "read", !.answer = answer,
                                                              !.proof = exec.proof, !.ledger = ledger]]
      BY <2>1 DEF ReadRecord
    <3>2. stream'[a].pc = "read" /\ stream'[a].thread = "none" /\ stream'[a].from = stream[a].from
      BY <1>4, <1>5, <3>1 DEF StreamRow
    <3> QED
      BY <1>1, <1>3, <3>2 DEF StreamInOrder, ThreadInOrder
  <2>2. CASE ExamineCheckpoint(a)
    <3>1. PICK answer : stream' = [stream EXCEPT ![a] = [stream[a] EXCEPT !.pc = "examined", !.from = saver.at,
                                                                !.verdict = saver.verdict, !.answer = answer]]
      BY <2>2 DEF ExamineCheckpoint
    <3>2. stream'[a].pc = "examined" /\ stream'[a].thread = "none" /\ stream'[a].from = saver.at
      BY <1>4, <1>5, <3>1 DEF StreamRow
    <3> QED
      BY <1>1, <1>3, <3>2 DEF StreamInOrder, ThreadInOrder
  <2>3. CASE ValidateApprovals(a) \/ BindRecoveredCheckpoint(a) \/ Refuse(a)
    <3>1. PICK pc \in {"validated", "bound", "gone"} : stream' = [stream EXCEPT ![a].pc = pc]
      BY <2>3 DEF ValidateApprovals, BindRecoveredCheckpoint, Refuse, Goto
    <3>2. stream'[a].pc = pc /\ stream'[a].thread = "none" /\ stream'[a].from = stream[a].from
      BY <1>4, <1>5, <3>1 DEF StreamRow
    <3> QED
      BY <1>1, <1>3, <3>2 DEF StreamInOrder, ThreadInOrder
  <2>4. CASE Resume(a)
    <3>1. PICK token : stream' = [stream EXCEPT ![a] = [stream[a] EXCEPT !.pc = stream[a].from, !.token = token]]
      BY <2>4 DEF Resume
    <3>2. /\ stream'[a].pc = stream[a].from /\ stream'[a].thread = "none" /\ stream'[a].from = stream[a].from
          /\ stream[a].from \in {"gate", "finalize"}
      BY <1>4, <1>5, <3>1 DEF StreamRow
    <3> QED
      BY <1>1, <1>3, <3>2 DEF StreamInOrder, ThreadInOrder
  <2> QED
    BY <2>1, <2>2, <2>3, <2>4 DEF Open
<1>7. Saving /\ RunInOrder'
  BY <1>1, <1>3, RunStays DEF Saving, Succeeding, Rejecting, AllRejected
<1> QED
  BY <1>2, <1>3, <1>6, <1>7, QuietStep

LEMMA DecideStep ==
    ASSUME Inv, TypeOK', NEW a \in Streams, DecideProposals(a) PROVE Inv'
<1>1. TypeOK /\ StreamInOrder(a) /\ ThreadInOrder(a) /\ RunInOrder
  BY DEF Inv, StreamInOrder
<1>2. \A b \in Streams : b # a => stream'[b] = stream[b]
  BY <1>1, GateRow, OneRow DEF Gate
<1>3. 1 \in Proposals
  BY GateAssumption DEF Proposals
<1>4. \A p \in Proposals : proposal[p] = "pending" /\ proposal'[p] = Wanted(a) /\ receipt[p] = "none"
  BY DEF DecideProposals, Inv, ActionInOrder
<1>5. UNCHANGED <<saver, receipt, calls, effect>> /\ run' # "COMPLETED"
  BY DEF DecideProposals
<1>6. Succeeding /\ Rejecting /\ Saving
  BY <1>3, <1>4, <1>5 DEF Succeeding, Rejecting, Saving, AllRejected
<1>7. \A p \in Proposals : event'[p] = "published" => event[p] = "published"
  BY DEF DecideProposals
<1>8. \A p \in Proposals : ActionInOrder(p)'
  BY <1>4, <1>5, <1>7 DEF Inv, ActionInOrder
<1>9. stream[a].thread = "none" /\ stream[a].pc = "decide"
  BY <1>1, NoThread DEF DecideProposals, At
<1>10. /\ stream'[a].thread = "none" /\ stream'[a].next = 1 /\ stream'[a].from = stream[a].from
       /\ stream'[a].verdict = stream[a].verdict
       /\ stream'[a].pc = IF stream[a].verdict = "approved" THEN "act" ELSE "save"
  BY <1>1, <1>9 DEF DecideProposals, Decided, TypeOK, StreamRow
<1>11. stream[a].verdict # "approved" => AllRejected'
  BY <1>4 DEF AllRejected, Wanted
<1>12. StreamInOrder(a)'
  BY <1>1, <1>5, <1>10, <1>11 DEF StreamInOrder, ThreadInOrder, Before, Proposals
<1>13. \A b \in Streams : StreamInOrder(b)'
  BY <1>2, <1>5, <1>6, <1>12, OthersStay DEF Inv, ActionOf
<1>14. OneActionAtATime'
  BY <1>2, <1>10 DEF Inv, OneActionAtATime
<1>15. RunInOrder'
  BY <1>1, <1>5, <1>6, RunStays
<1> QED
  BY <1>8, <1>13, <1>14, <1>15 DEF Inv

LEMMA ReplayStep ==
    ASSUME Inv, TypeOK', NEW a \in Streams, ReplayDecision(a) PROVE Inv'
<1>1. TypeOK /\ StreamInOrder(a) /\ ThreadInOrder(a) /\ RunInOrder
  BY DEF Inv, StreamInOrder
<1>2. \A b \in Streams : b # a => stream'[b] = stream[b]
  BY <1>1, GateRow, OneRow DEF Gate
<1>3. UNCHANGED <<proposal, receipt, event, calls, effect, run, saver>>
  BY DEF ReplayDecision, runVars, actionVars
<1>4. stream[a].thread = "none" /\ stream[a].pc = "decide"
  BY <1>1, NoThread DEF ReplayDecision, At
<1>5. /\ stream'[a].thread = "none" /\ stream'[a].next = 1 /\ stream'[a].from = stream[a].from
      /\ stream'[a].verdict = stream[a].verdict
      /\ stream'[a].pc = IF stream[a].verdict = "approved" THEN "act" ELSE "save"
  BY <1>1, <1>4 DEF ReplayDecision, Decided, TypeOK, StreamRow
<1>6. stream[a].verdict # "approved" => AllRejected'
  BY <1>3 DEF ReplayDecision, DecidedAlike, AllRejected, Wanted
<1>7. StreamInOrder(a)'
  BY <1>1, <1>3, <1>5, <1>6 DEF StreamInOrder, ThreadInOrder, Before, Proposals
<1>8. Saving /\ RunInOrder'
  BY <1>1, <1>3, RunStays DEF Saving, Succeeding, Rejecting, AllRejected
<1> QED
  BY <1>2, <1>3, <1>5, <1>7, <1>8, QuietStep

LEMMA GateStep ==
    ASSUME Inv, TypeOK', NEW a \in Streams, Gate(a) PROVE Inv'
<1>1. TypeOK /\ StreamInOrder(a) /\ ThreadInOrder(a) /\ RunInOrder
  BY DEF Inv, StreamInOrder
<1>2. CASE DecideProposals(a) \/ ReplayDecision(a)
  BY <1>2, DecideStep, ReplayStep
<1>3. CASE Ask(a) \/ PauseForApproval(a) \/ TakeAnswer(a)
  <2>1. \A b \in Streams : b # a => stream'[b] = stream[b]
    BY <1>1, GateRow, OneRow DEF Gate
  <2>2. UNCHANGED <<proposal, receipt, event, calls, effect>>
    BY <1>3 DEF Ask, PauseForApproval, TakeAnswer, actionVars, runVars
  <2>3. stream[a].thread = "none" /\ stream[a].pc \in {"gate", "asked"}
    BY <1>1, <1>3, NoThread DEF Ask, PauseForApproval, TakeAnswer, At
  <2>4. saver'.at = saver.at /\ saver'.verdict = saver.verdict /\ (run' = "COMPLETED" => run = "COMPLETED")
    BY <1>1, <1>3 DEF Ask, PauseForApproval, TakeAnswer, runVars, TypeOK
  <2>5. /\ stream'[a].thread = "none" /\ stream'[a].pc \in {"asked", "gone", "decide"}
        /\ stream'[a].from = stream[a].from
    <3>1. CASE Ask(a) \/ PauseForApproval(a)
      <4>1. PICK pc \in {"asked", "gone"} : stream' = [stream EXCEPT ![a].pc = pc]
        BY <3>1 DEF Ask, PauseForApproval, Goto
      <4> QED
        BY <1>1, <2>3, <4>1 DEF TypeOK, StreamRow
    <3>2. CASE TakeAnswer(a)
      <4>1. PICK verdict : stream' = [stream EXCEPT ![a] = [stream[a] EXCEPT !.pc = "decide", !.verdict = verdict]]
        BY <3>2 DEF TakeAnswer
      <4> QED
        BY <1>1, <2>3, <4>1 DEF TypeOK, StreamRow
    <3> QED
      BY <1>3, <3>1, <3>2
  <2>6. StreamInOrder(a)'
    BY <1>1, <2>4, <2>5 DEF StreamInOrder, ThreadInOrder
  <2>7. RunInOrder'
    BY <1>1, <2>2, <2>4 DEF RunInOrder, Outcome, AllSucceeded, AllRejected
  <2> QED
    BY <2>1, <2>2, <2>4, <2>5, <2>6, <2>7, QuietStep DEF Saving
<1> QED
  BY <1>2, <1>3 DEF Gate

-----------------------------------------------------------------------------
(* Performing.                                                             *)

LEMMA ReturnStep ==
    ASSUME Inv, TypeOK', NEW a \in Streams, ReturnReceipt(a) PROVE Inv'
<1>1. TypeOK /\ StreamInOrder(a) /\ ThreadInOrder(a) /\ RunInOrder
  BY DEF Inv, StreamInOrder
<1>2. \A b \in Streams : b # a => stream'[b] = stream[b]
  BY <1>1, PerformRow, OneRow DEF Perform, ReturnReceipt
<1>3. UNCHANGED <<proposal, receipt, event, calls, effect, run, saver>>
  BY DEF ReturnReceipt, runVars, actionVars
<1>4. /\ stream[a].pc = "act" /\ stream[a].thread = "none" /\ stream[a].next \in Proposals
      /\ receipt[stream[a].next] = "succeeded"
  BY DEF ReturnReceipt, Performed, At
<1>5. /\ stream'[a].thread = "none" /\ stream'[a].pc = "act" /\ stream'[a].next = stream[a].next + 1
      /\ stream'[a].verdict = stream[a].verdict /\ stream'[a].from = stream[a].from
  BY <1>1, <1>4 DEF ReturnReceipt, Advanced, TypeOK, StreamRow
<1>6. Before(a)'
  BY <1>1, <1>3, <1>4, <1>5, GateAssumption DEF StreamInOrder, Before, Proposals
<1>7. StreamInOrder(a)'
  BY <1>1, <1>3, <1>4, <1>5, <1>6 DEF StreamInOrder, ThreadInOrder
<1>8. Saving /\ RunInOrder'
  BY <1>1, <1>3, RunStays DEF Saving, Succeeding, Rejecting, AllRejected
<1> QED
  BY <1>2, <1>3, <1>5, <1>7, <1>8, QuietStep

\* Whoever has an action under way has passed those before it and not those after.
LEMMA StartsAlone ==
    ASSUME Inv, NEW a \in Streams, StartReceipt(a) PROVE \A b \in Streams : stream[b].thread = "none"
<1> SUFFICES ASSUME NEW b \in Streams, stream[b].thread # "none" PROVE FALSE
  OBVIOUS
<1>1. /\ stream[a].pc = "act" /\ stream[a].next \in Proposals /\ receipt[stream[a].next] = "none"
  BY DEF StartReceipt, MayStart, At
<1>2. Before(a)
  BY <1>1 DEF Inv, StreamInOrder
<1>3. stream[b].next \in Proposals /\ Before(b) /\ receipt[stream[b].next] = "started"
  BY DEF Inv, StreamInOrder, ThreadInOrder
<1>4. ~(stream[b].next < stream[a].next) /\ ~(stream[a].next < stream[b].next)
  BY <1>1, <1>2, <1>3 DEF Before
<1>5. stream[b].next # stream[a].next
  BY <1>1, <1>3
<1> QED
  BY <1>1, <1>3, <1>4, <1>5, GateAssumption DEF Proposals

LEMMA StartStep ==
    ASSUME Inv, TypeOK', NEW a \in Streams, StartReceipt(a) PROVE Inv'
<1>1. TypeOK /\ StreamInOrder(a) /\ ThreadInOrder(a) /\ RunInOrder
  BY DEF Inv, StreamInOrder
<1>2. \A b \in Streams : b # a => stream'[b] = stream[b]
  BY <1>1, PerformRow, OneRow DEF Perform, StartReceipt
<1>3. UNCHANGED <<proposal, event, calls, effect, run, saver>>
  BY DEF StartReceipt, runVars
<1>4. /\ stream[a].pc = "act" /\ stream[a].next \in Proposals
      /\ proposal[stream[a].next] = "approved" /\ receipt[stream[a].next] = "none"
      /\ receipt' = [receipt EXCEPT ![stream[a].next] = "started"]
  BY DEF StartReceipt, MayStart, At
<1>5. /\ stream'[a].thread = "claimed" /\ stream'[a].pc = "act" /\ stream'[a].next = stream[a].next
      /\ stream'[a].verdict = stream[a].verdict /\ stream'[a].from = stream[a].from
  BY <1>1, <1>4 DEF StartReceipt, TypeOK, StreamRow
<1>6. Succeeding /\ Rejecting /\ Saving
  BY <1>1, <1>3, <1>4 DEF Succeeding, Rejecting, Saving, AllRejected, TypeOK
<1>7. \A p \in Proposals : ActionInOrder(p)'
  BY <1>1, <1>3, <1>4 DEF Inv, ActionInOrder, TypeOK
<1>8. Before(a) /\ calls[stream[a].next] = 0
  BY <1>1, <1>4 DEF StreamInOrder, Inv, ActionInOrder
<1>9. Before(a)'
  BY <1>5, <1>6, <1>8 DEF Before, Succeeding
<1>10. receipt'[stream[a].next] = "started"
  BY <1>1, <1>4 DEF TypeOK
<1>11. StreamInOrder(a)'
  BY <1>1, <1>3, <1>4, <1>5, <1>8, <1>9, <1>10 DEF StreamInOrder, ThreadInOrder
<1>12. \A b \in Streams : b # a => stream[b].thread = "none"
  BY StartsAlone
<1>13. \A b \in Streams : StreamInOrder(b)'
  BY <1>2, <1>6, <1>11, <1>12, OthersStay DEF Inv
<1>14. OneActionAtATime'
  BY <1>2, <1>12 DEF OneActionAtATime
<1>15. RunInOrder'
  BY <1>1, <1>3, <1>6, RunStays
<1> QED
  BY <1>7, <1>13, <1>14, <1>15 DEF Inv

\* A step of the thread of the one action under way.
LEMMA ThreadStep ==
    ASSUME Inv, TypeOK', NEW a \in Streams, stream[a].thread # "none",
           \A b \in Streams : b # a => stream'[b] = stream[b],
           UNCHANGED <<proposal, run, saver>>, Succeeding,
           StreamInOrder(a)', \A p \in Proposals : ActionInOrder(p)'
    PROVE  Inv'
<1>1. Rejecting /\ Saving
  BY DEF Rejecting, Saving, AllRejected
<1>2. \A b \in Streams : b # a => stream[b].thread = "none"
  BY DEF Inv, OneActionAtATime
<1>3. \A b \in Streams : StreamInOrder(b)'
  BY <1>1, <1>2, OthersStay DEF Inv
<1>4. OneActionAtATime'
  BY <1>2 DEF OneActionAtATime
<1>5. RunInOrder'
  BY <1>1, RunStays DEF Inv
<1> QED
  BY <1>3, <1>4, <1>5 DEF Inv

LEMMA CallStep ==
    ASSUME Inv, TypeOK', NEW a \in Streams, CallAdapter(a) PROVE Inv'
<1>1. TypeOK /\ StreamInOrder(a) /\ ThreadInOrder(a)
  BY DEF Inv, StreamInOrder
<1>2. \A b \in Streams : b # a => stream'[b] = stream[b]
  BY <1>1, PerformRow, OneRow DEF Perform, ThreadInOrder
<1>3. UNCHANGED <<proposal, receipt, event, run, saver>>
  BY DEF CallAdapter, runVars
<1>4. /\ stream[a].thread = "claimed" /\ stream[a].pc \in {"act", "gone"} /\ stream[a].next \in Proposals
      /\ Before(a) /\ receipt[stream[a].next] = "started" /\ calls[stream[a].next] = 0
  BY <1>1 DEF CallAdapter, ThreadInOrder
<1>5. PICK result \in {"did", "raised"}, happened \in BOOLEAN :
        /\ stream' = [stream EXCEPT ![a].thread = result]
        /\ effect' = [effect EXCEPT ![stream[a].next] = happened]
        /\ result = "did" => happened = TRUE
  <2>1. PICK result \in {"did", "raised"} :
          /\ stream' = [stream EXCEPT ![a].thread = result]
          /\ \E happened \in {TRUE, effect[stream[a].next] \/ result = "did"} :
                effect' = [effect EXCEPT ![stream[a].next] = happened]
    BY DEF CallAdapter
  <2>2. PICK happened \in {TRUE, effect[stream[a].next] \/ result = "did"} :
          effect' = [effect EXCEPT ![stream[a].next] = happened]
    BY <2>1
  <2>3. happened \in BOOLEAN /\ (result = "did" => happened = TRUE)
    BY <2>2, Zenon
  <2>4. QED
    BY <2>1, <2>2, <2>3, Zenon
<1>6. /\ stream'[a].thread = result /\ stream'[a].pc = stream[a].pc /\ stream'[a].next = stream[a].next
      /\ stream'[a].verdict = stream[a].verdict /\ stream'[a].from = stream[a].from
  BY <1>1, <1>5 DEF TypeOK, StreamRow
<1>7. \A p \in Proposals : p # stream[a].next => effect'[p] = effect[p] /\ calls'[p] = calls[p]
  BY <1>1, <1>5 DEF TypeOK, CallAdapter
<1>8. calls'[stream[a].next] = 1
  BY <1>1, <1>4 DEF TypeOK, CallAdapter
<1>9. effect'[stream[a].next] = happened
  BY <1>1, <1>4, <1>5 DEF TypeOK
<1>10. \A p \in Proposals : ActionInOrder(p)'
  BY <1>3, <1>4, <1>7, <1>8 DEF Inv, ActionInOrder
<1>11. Before(a)'
  BY <1>3, <1>4, <1>6 DEF Before
<1>12. stream'[a].thread = "did" => effect'[stream'[a].next] = TRUE
  BY <1>5, <1>6, <1>9
<1>13. StreamInOrder(a)'
  BY <1>1, <1>3, <1>4, <1>5, <1>6, <1>11, <1>12 DEF StreamInOrder, ThreadInOrder
<1>14. Succeeding
  BY <1>3 DEF Succeeding
<1> QED
  BY <1>2, <1>3, <1>4, <1>10, <1>13, <1>14, ThreadStep

LEMMA ReceiptStep ==
    ASSUME Inv, TypeOK', NEW a \in Streams, RecordReceipt(a) PROVE Inv'
<1>1. TypeOK /\ StreamInOrder(a) /\ ThreadInOrder(a)
  BY DEF Inv, StreamInOrder
<1>2. \A b \in Streams : b # a => stream'[b] = stream[b]
  BY <1>1, PerformRow, OneRow DEF Perform, ThreadInOrder
<1>3. UNCHANGED <<proposal, event, calls, effect, run, saver>>
  BY DEF RecordReceipt, runVars
<1>4. /\ stream[a].thread = "did" /\ stream[a].pc \in {"act", "gone"} /\ stream[a].next \in Proposals
      /\ Before(a) /\ receipt[stream[a].next] = "started"
  BY <1>1 DEF RecordReceipt, ThreadInOrder
<1>5. effect[stream[a].next] = TRUE
  BY <1>1 DEF RecordReceipt, ThreadInOrder
<1>6. receipt' = [receipt EXCEPT ![stream[a].next] = "succeeded"]
  BY <1>1, <1>4 DEF RecordReceipt, TypeOK
<1>7. Succeeding /\ receipt'[stream[a].next] = "succeeded"
  BY <1>1, <1>4, <1>6 DEF Succeeding, TypeOK
<1>8. proposal[stream[a].next] = "approved"
  BY <1>4 DEF Inv, ActionInOrder
<1>9. \A p \in Proposals : ActionInOrder(p)'
  BY <1>1, <1>3, <1>4, <1>5, <1>6, <1>8 DEF Inv, ActionInOrder, TypeOK
<1>10. /\ stream'[a].thread = "none" /\ stream'[a].pc = stream[a].pc
       /\ stream'[a].verdict = stream[a].verdict /\ stream'[a].from = stream[a].from
       /\ stream[a].pc = "act" => stream'[a].next = stream[a].next + 1
  BY <1>1, <1>4 DEF RecordReceipt, Advanced, At, TypeOK, StreamRow
<1>11. stream[a].pc = "act" => Before(a)'
  BY <1>4, <1>7, <1>10, GateAssumption DEF Before, Succeeding, Proposals
<1>12. StreamInOrder(a)'
  BY <1>1, <1>3, <1>4, <1>10, <1>11 DEF StreamInOrder, ThreadInOrder
<1> QED
  BY <1>2, <1>3, <1>4, <1>7, <1>9, <1>12, ThreadStep

LEMMA UnknownStep ==
    ASSUME Inv, TypeOK', NEW a \in Streams, RecordUnknown(a) PROVE Inv'
<1>1. TypeOK /\ StreamInOrder(a) /\ ThreadInOrder(a)
  BY DEF Inv, StreamInOrder
<1>2. \A b \in Streams : b # a => stream'[b] = stream[b]
  BY <1>1, PerformRow, OneRow DEF Perform, ThreadInOrder
<1>3. UNCHANGED <<proposal, event, calls, effect, run, saver>>
  BY DEF RecordUnknown, runVars
<1>4. /\ stream[a].thread # "none" /\ stream[a].pc \in {"act", "gone"} /\ stream[a].next \in Proposals
      /\ receipt[stream[a].next] = "started"
  BY <1>1 DEF RecordUnknown, ThreadInOrder
<1>5. PICK status \in {"started", "unknown"} : receipt' = [receipt EXCEPT ![stream[a].next] = status]
  BY <1>1, <1>4 DEF RecordUnknown, TypeOK
<1>6. Succeeding
  BY <1>1, <1>4, <1>5 DEF Succeeding, TypeOK
<1>7. proposal[stream[a].next] = "approved"
  BY <1>4 DEF Inv, ActionInOrder
<1>8. \A p \in Proposals : ActionInOrder(p)'
  BY <1>1, <1>3, <1>4, <1>5, <1>7 DEF Inv, ActionInOrder, TypeOK
<1>9. stream'[a].thread = "none" /\ stream'[a].pc \in {"failing", "gone"} /\ stream'[a].from = stream[a].from
  <2>1. stream[a] \in StreamRow
    BY <1>1 DEF TypeOK
  <2>2. PICK pc \in {"failing", "gone"} : stream' = [stream EXCEPT ![a] = [stream[a] EXCEPT !.thread = "none", !.pc = pc]]
    BY <1>4 DEF RecordUnknown, At
  <2> QED
    BY <1>1, <2>1, <2>2 DEF TypeOK, StreamRow
<1>10. StreamInOrder(a)'
  BY <1>1, <1>3, <1>9 DEF StreamInOrder, ThreadInOrder
<1> QED
  BY <1>2, <1>3, <1>4, <1>6, <1>8, <1>10, ThreadStep

LEMMA PerformStep ==
    ASSUME Inv, TypeOK', NEW a \in Streams, Perform(a) PROVE Inv'
BY ReturnStep, StartStep, CallStep, ReceiptStep, UnknownStep DEF Perform

-----------------------------------------------------------------------------
(* The end, and everybody else.                                            *)

LEMMA EndStep ==
    ASSUME Inv, TypeOK', NEW a \in Streams, End(a) PROVE Inv'
<1>1. TypeOK /\ StreamInOrder(a) /\ ThreadInOrder(a) /\ RunInOrder
  BY DEF Inv, StreamInOrder
<1>2. \A b \in Streams : b # a => stream'[b] = stream[b]
  BY <1>1, EndRow, OneRow
<1>3. UNCHANGED <<proposal, receipt, event, calls, effect>>
  BY DEF End, SaveSnapshot, WriteCheckpoint, Finish, PauseForReview, StreamDies, actionVars
<1>4. CASE SaveSnapshot(a)
  <2>1. UNCHANGED <<run, saver>>
    BY <1>4 DEF SaveSnapshot
  <2>2. (stream[a].pc = "act" /\ stream[a].next = N + 1) \/ stream[a].pc = "save"
    BY <1>4 DEF SaveSnapshot, At
  <2>3. stream[a].thread = "none"
    BY <1>1, <2>2, GateAssumption DEF ThreadInOrder, Proposals
  <2>4. Outcome(stream[a].verdict)
    BY <1>1, <2>2, GateAssumption DEF StreamInOrder, Before, Outcome, AllSucceeded, Proposals
  <2>5. /\ stream'[a].pc = "checkpoint" /\ stream'[a].thread = "none"
        /\ stream'[a].verdict = stream[a].verdict /\ stream'[a].from = stream[a].from
    BY <1>1, <1>4, <2>3 DEF SaveSnapshot, Goto, TypeOK, StreamRow
  <2>6. Outcome(stream[a].verdict)'
    BY <1>3, <2>4, <2>5 DEF Outcome, AllSucceeded, AllRejected
  <2>7. StreamInOrder(a)'
    BY <1>1, <2>1, <2>5, <2>6 DEF StreamInOrder, ThreadInOrder
  <2>8. Saving /\ RunInOrder'
    BY <1>1, <1>3, <2>1, RunStays DEF Saving, Succeeding, Rejecting, AllRejected
  <2> QED
    BY <1>2, <1>3, <2>5, <2>7, <2>8, QuietStep
<1>5. CASE WriteCheckpoint(a)
  <2>1. run' = run /\ saver'.at = "finalize" /\ saver'.verdict = stream[a].verdict
    BY <1>1, <1>5 DEF WriteCheckpoint, TypeOK
  <2>2. stream[a].pc = "checkpoint" /\ stream[a].thread = "none"
    BY <1>1, <1>5, NoThread DEF WriteCheckpoint, At
  <2>3. stream'[a].pc = "finalize" /\ stream'[a].thread = "none" /\ stream'[a].from = stream[a].from
    BY <1>1, <1>5, <2>2 DEF WriteCheckpoint, Goto, TypeOK, StreamRow
  <2>4. StreamInOrder(a)'
    BY <2>1, <2>3 DEF StreamInOrder, ThreadInOrder
  <2>5. RunInOrder'
    BY <1>1, <1>3, <2>1, <2>2 DEF StreamInOrder, RunInOrder, Outcome, AllSucceeded, AllRejected
  <2> QED
    BY <1>2, <1>3, <2>1, <2>3, <2>4, <2>5, QuietStep DEF Saving
<1>6. CASE Finish(a) \/ PauseForReview(a)
  <2>1. saver' = saver /\ (run' = "COMPLETED" => run = "COMPLETED" \/ saver.at = "finalize")
    BY <1>1, <1>6 DEF Finish, PauseForReview, StreamInOrder, At
  <2>2. stream' = [stream EXCEPT ![a].pc = "gone"]
    BY <1>6 DEF Finish, PauseForReview, Goto
  <2>3. stream[a] \in StreamRow /\ stream \in [Streams -> StreamRow]
    BY <1>1 DEF TypeOK
  <2>4. /\ stream'[a].pc = "gone" /\ stream'[a].thread = stream[a].thread /\ stream'[a].next = stream[a].next
        /\ stream'[a].from = stream[a].from
    BY <2>2, <2>3 DEF StreamRow
  <2>5. ThreadInOrder(a)'
    <3>1. effect'[stream'[a].next] = effect[stream[a].next]
      BY <1>3, <2>4
    <3>2. stream[a].thread = "did" => effect[stream[a].next] = TRUE
      BY <1>1 DEF ThreadInOrder
    <3>3. stream'[a].thread = "did" => effect'[stream'[a].next] = TRUE
      BY <2>4, <3>1, <3>2
    <3> QED
      BY <1>1, <1>3, <2>4, <3>3 DEF ThreadInOrder, Before
  <2>6. StreamInOrder(a)'
    BY <1>1, <2>1, <2>4, <2>5 DEF StreamInOrder
  <2>7. RunInOrder'
    BY <1>1, <1>3, <2>1 DEF RunInOrder, Outcome, AllSucceeded, AllRejected
  <2> QED
    BY <1>2, <1>3, <2>1, <2>4, <2>6, <2>7, QuietStep DEF Saving
<1>7. CASE StreamDies(a)
  <2>1. UNCHANGED <<run, saver>>
    BY <1>7 DEF StreamDies, runVars
  <2>2. stream'[a].pc = "gone" /\ stream'[a].thread = "none" /\ stream'[a].from = stream[a].from
    BY <1>1, <1>7 DEF StreamDies, TypeOK, StreamRow
  <2>3. StreamInOrder(a)'
    BY <1>1, <2>1, <2>2 DEF StreamInOrder, ThreadInOrder
  <2>4. Saving /\ RunInOrder'
    BY <1>1, <1>3, <2>1, RunStays DEF Saving, Succeeding, Rejecting, AllRejected
  <2> QED
    BY <1>2, <1>3, <2>2, <2>3, <2>4, QuietStep
<1> QED
  BY <1>4, <1>5, <1>6, <1>7 DEF End

\* The reaper, the user, the rollback, the clock and the outbox move no stream.
LEMMA RestStep ==
    ASSUME Inv, TypeOK', UNCHANGED <<stream, saver, receipt, calls, effect>>, Rejecting,
           run' = "COMPLETED" => run = "COMPLETED",
           \A p \in Proposals : /\ proposal[p] = "approved" => proposal'[p] = "approved"
                                /\ event'[p] = "published" => event[p] = "published" \/ receipt[p] = "succeeded"
    PROVE  Inv'
<1>1. Succeeding /\ Saving
  BY DEF Succeeding, Saving
<1>2. \A b \in Streams : StreamInOrder(b)'
  BY <1>1, OthersStay DEF Inv, ActionOf
<1>3. \A p \in Proposals : ActionInOrder(p)'
  BY DEF Inv, ActionInOrder
<1>4. OneActionAtATime'
  BY DEF Inv, OneActionAtATime
<1>5. RunInOrder'
  BY <1>1, RunStays DEF Inv
<1> QED
  BY <1>2, <1>3, <1>4, <1>5 DEF Inv

LEMMA InvStep ==
    ASSUME Inv, [Next]_vars PROVE Inv'
<1>0. TypeOK /\ \A a \in Streams : ThreadInOrder(a)
  BY DEF Inv, StreamInOrder
<1>1. TypeOK'
  BY <1>0, TypeStep
<1>2. ASSUME NEW a \in Streams, Open(a) \/ Gate(a) \/ Perform(a) \/ End(a) PROVE Inv'
  BY <1>1, <1>2, OpenStep, GateStep, PerformStep, EndStep
<1>3. ASSUME LeaseExpires \/ ReconcileExpired \/ Cancel \/ Expire \/ UNCHANGED vars PROVE Inv'
  <2>1. UNCHANGED <<stream, saver, proposal, receipt, event, calls, effect>>
    BY <1>3 DEF LeaseExpires, ReconcileExpired, Cancel, Expire, vars, runVars, actionVars
  <2>2. run' = "COMPLETED" => run = "COMPLETED"
    BY <1>3 DEF LeaseExpires, ReconcileExpired, Cancel, Expire, vars, runVars
  <2> QED
    BY <1>1, <2>1, <2>2, RestStep DEF Rejecting, AllRejected
<1>4. ASSUME Freeze PROVE Inv'
  <2>1. UNCHANGED <<stream, saver, receipt, calls, effect>> /\ run' # "COMPLETED"
    BY <1>4 DEF Freeze
  <2>2. Rejecting /\ \A p \in Proposals : proposal[p] = "approved" => proposal'[p] = "approved"
    BY <1>4 DEF Freeze, Rejecting, AllRejected
  <2>3. \A p \in Proposals : event'[p] = "published" => event[p] = "published"
    BY <1>4 DEF Freeze
  <2> QED
    BY <1>1, <2>1, <2>2, <2>3, RestStep
<1>5. ASSUME NEW p \in Proposals, DeliverEvent(p) \/ DeliveryRefused(p) PROVE Inv'
  <2>1. UNCHANGED <<stream, saver, proposal, receipt, calls, effect, run>>
    BY <1>5 DEF DeliverEvent, DeliveryRefused, runVars
  <2>2. \A q \in Proposals : event'[q] = "published" => event[q] = "published" \/ receipt[q] = "succeeded"
    BY <1>0, <1>5 DEF DeliverEvent, DeliveryRefused, Performed, TypeOK
  <2> QED
    BY <1>1, <2>1, <2>2, RestStep DEF Rejecting, AllRejected
<1> QED
  BY <1>2, <1>3, <1>4, <1>5 DEF Next

\* The invariant that orders the streams holds of every reachable state.
THEOREM InvHolds == Spec => []Inv
BY Initially, InvStep, PTL DEF Spec

-----------------------------------------------------------------------------
(* What it is for.                                                         *)

\* The state of run, gate and actions has its type.
THEOREM TypesHold == Spec => []TypeOK
<1>1. Inv => TypeOK
  BY DEF Inv
<1> QED
  BY <1>1, InvHolds, PTL

\* However often the gate is resumed, replayed or delivered, an action's adapter is
\* called at most once, and only if it was approved.
THEOREM ActionsActOnce == Spec => []ActsOnce
<1>1. Inv => ActsOnce
  <2> SUFFICES ASSUME Inv, NEW p \in Proposals
               PROVE  calls[p] <= 1 /\ (calls[p] = 1 => proposal[p] = "approved")
    BY DEF ActsOnce
  <2> QED
    BY DEF Inv, ActionInOrder
<1> QED
  BY <1>1, InvHolds, PTL

\* A completed run was approved and performed, or not approved and untouched.
THEOREM ReportsAreTrue == Spec => []ReportIsTrue
<1>1. Inv => ReportIsTrue
  <2> SUFFICES ASSUME Inv, run = "COMPLETED"
               PROVE  IF saver.verdict = "approved"
                      THEN \A p \in Proposals : receipt[p] = "succeeded" /\ effect[p]
                      ELSE \A p \in Proposals : calls[p] = 0
    BY DEF ReportIsTrue
  <2>1. Outcome(saver.verdict)
    BY DEF Inv, RunInOrder
  <2>2. CASE saver.verdict = "approved"
    <3>1. \A p \in Proposals : receipt[p] = "succeeded"
      BY <2>1, <2>2 DEF Outcome, AllSucceeded
    <3>2. \A p \in Proposals : effect[p] = TRUE
      BY <3>1 DEF Inv, ActionInOrder
    <3> QED
      BY <2>2, <3>1, <3>2
  <2>3. CASE saver.verdict # "approved"
    <3>1. \A p \in Proposals : proposal[p] # "approved"
      BY <2>1, <2>3 DEF Outcome, AllRejected
    <3> QED
      BY <2>3, <3>1 DEF Inv, ActionInOrder
  <2> QED
    BY <2>2, <2>3
<1> QED
  BY <1>1, InvHolds, PTL

\* The outbox reports no action as delivered that the graph did not perform.
THEOREM PublishedActionsDone == Spec => []PublishedIsTrue
<1>1. Inv => PublishedIsTrue
  <2> SUFFICES ASSUME Inv, NEW p \in Proposals, event[p] = "published"
               PROVE  receipt[p] = "succeeded" /\ effect[p]
    BY DEF PublishedIsTrue
  <2>1. receipt[p] = "succeeded"
    BY DEF Inv, ActionInOrder
  <2>2. effect[p] = TRUE
    BY <2>1 DEF Inv, ActionInOrder
  <2> QED
    BY <2>1, <2>2
<1> QED
  BY <1>1, InvHolds, PTL

\* No two streams ever have an action under way.
THEOREM OneActionPerTime == Spec => []OneActionAtATime
<1>1. Inv => OneActionAtATime
  BY DEF Inv
<1> QED
  BY <1>1, InvHolds, PTL

\* A cancelled, frozen or finished run starts no further action.
THEOREM EndedRunsStartNothing == Spec => EndedStartsNothing
<1>1. ASSUME Inv, [Next]_vars, NEW p \in Proposals, run \in Terminal, receipt[p] = "none"
      PROVE  receipt'[p] = "none"
  <2>1. TypeOK /\ \A a \in Streams : ThreadInOrder(a)
    BY <1>1 DEF Inv, StreamInOrder
  <2>2. ASSUME NEW a \in Streams, RecordReceipt(a) \/ RecordUnknown(a) PROVE receipt'[p] = "none"
    <3>1. stream[a].next \in Proposals /\ receipt[stream[a].next] = "started"
      BY <2>1, <2>2 DEF ThreadInOrder, RecordReceipt, RecordUnknown
    <3>2. PICK status : receipt' = [receipt EXCEPT ![stream[a].next] = status]
      BY <2>2 DEF RecordReceipt, RecordUnknown
    <3> QED
      BY <1>1, <2>1, <3>1, <3>2 DEF TypeOK
  <2>3. ASSUME NEW a \in Streams, StartReceipt(a) PROVE FALSE
    BY <1>1, <2>3 DEF StartReceipt, Active
  <2>4. CASE UNCHANGED receipt
    BY <1>1, <2>4
  <2> QED
    BY <1>1, <2>2, <2>3, <2>4
       DEF Next, vars, Open, Gate, Perform, End, ReadRecord, ExamineCheckpoint, ValidateApprovals,
           BindRecoveredCheckpoint, Resume, Refuse, Ask, PauseForApproval, TakeAnswer, DecideProposals,
           ReplayDecision, ReturnReceipt, CallAdapter, SaveSnapshot, WriteCheckpoint, Finish, PauseForReview,
           StreamDies, DeliverEvent, DeliveryRefused, LeaseExpires, ReconcileExpired, Cancel, Freeze, Expire,
           runVars, actionVars
<1>2. Inv /\ [Next]_vars
        => [\A p \in Proposals : run \in Terminal /\ receipt[p] = "none" => receipt'[p] = "none"]_vars
  BY <1>1
<1> QED
  BY <1>2, InvHolds, PTL DEF Spec, EndedStartsNothing
=============================================================================
