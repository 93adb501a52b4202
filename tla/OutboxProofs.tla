---------------------------- MODULE OutboxProofs ----------------------------
(***************************************************************************)
(* Delivery through the outbox keeps its promises for every number of      *)
(* workers, events and attempts.                                           *)
(***************************************************************************)
EXTENDS OutboxDelivery, TLAPS

NotificationSteps == {"project", "audit", "decide", "send", "result"}

\* A worker past the batch has an event in hand, and inside deliver_notification
\* it is a notification; whoever carries a result has one to report.
RowInHand(row) ==
    /\ row.pc \notin {"idle", "polled", "batch"} => row.event \in Events
    /\ row.pc \in NotificationSteps => row.event \in Notifications
    /\ row.pc = "result" => row.result \in {"SENT", "FAILED", "NEEDS_REVIEW"}

InHand == \A w \in Deliverers : RowInHand(worker[w])

Typed == TypeOK /\ InHand

USE DEF MAX_PROVIDER_ATTEMPTS

LEMMA FreshIsTyped == Fresh \in WorkerRow
BY DEF Fresh, WorkerRow, Steps, NoDispatch, DispatchRow, Dispatched, Settled

LEMMA InitTyped == ASSUME OutboxAssumption PROVE Init => Typed
<1> SUFFICES ASSUME Init PROVE Typed
  OBVIOUS
<1>1. QueueTypeOK
  BY DEF Init, QueueInit, QueueTypeOK, EventRow, EventStates
<1>2. DispatchTypeOK
  BY DEF Init, DispatchInit, DispatchTypeOK, NoDispatch, DispatchRow, Dispatched, Projection
<1>3. worker \in [Deliverers -> WorkerRow] /\ handled \subseteq Events
  BY FreshIsTyped DEF Init
<1>4. InHand
  BY DEF Init, InHand, RowInHand, Fresh, NotificationSteps
<1> QED
  BY <1>1, <1>2, <1>3, <1>4 DEF Typed, TypeOK

\* The statements keep the tables well typed.
LEMMA QueueStatements ==
    ASSUME QueueTypeOK, NEW e \in Events,
           \/ EnqueueEvent(e) \/ RecordConsumption(e) \/ ReplayEvent(e)
           \/ ExpireLease(e) \/ RetryDue(e)
    PROVE  QueueTypeOK'
<1>1. event[e] \in EventRow /\ event \in [Events -> EventRow]
  BY DEF QueueTypeOK
<1>2. CASE EnqueueEvent(e)
  BY <1>1, <1>2 DEF EnqueueEvent, QueueTypeOK, EventRow, EventStates
<1>3. CASE RecordConsumption(e)
  BY <1>3 DEF RecordConsumption, QueueTypeOK
<1>4. CASE ReplayEvent(e)
  <2>1. [event[e] EXCEPT !.state = "PENDING", !.error = "none", !.due = TRUE, !.owner = NoWorker,
                         !.lease = "none"] \in EventRow
    BY <1>1 DEF EventRow, EventStates
  <2> QED
    BY <1>1, <1>4, <2>1 DEF ReplayEvent, QueueTypeOK
<1>5. CASE ExpireLease(e)
  BY <1>1, <1>5 DEF ExpireLease, QueueTypeOK, EventRow
<1>6. CASE RetryDue(e)
  BY <1>1, <1>6 DEF RetryDue, QueueTypeOK, EventRow
<1> QED
  BY <1>2, <1>3, <1>4, <1>5, <1>6

LEMMA FailedRowTyped ==
    ASSUME NEW row \in EventRow, NEW limit \in Nat PROVE FailedRow(row, limit) \in EventRow
<1> DEFINE last == row.attempts + 1 >= limit
<1>1. row.attempts + 1 \in Nat /\ last \in BOOLEAN
  BY DEF EventRow
<1>2. FailedRow(row, limit) =
        [row EXCEPT !.attempts = row.attempts + 1, !.error = "failed", !.owner = NoWorker,
                    !.lease = "none", !.due = last, !.state = IF last THEN "DEAD" ELSE "PENDING"]
  BY DEF FailedRow
<1> HIDE DEF last
<1> QED
  BY <1>1, <1>2 DEF EventRow, EventStates

LEMMA DelivererStatements ==
    ASSUME OutboxAssumption, QueueTypeOK, NEW w \in Deliverers,
           \/ \E B \in SUBSET Events : ClaimEvents(B, w)
           \/ \E e \in Events : MarkPublished(e, w) \/ MarkFailed(e, w)
    PROVE  QueueTypeOK'
<1>1. event \in [Events -> EventRow]
  BY DEF QueueTypeOK
<1>2. ASSUME NEW B \in SUBSET Events, ClaimEvents(B, w)
      PROVE  QueueTypeOK'
  <2>1. \A f \in Events : [event[f] EXCEPT !.owner = w, !.lease = "valid"] \in EventRow
    BY <1>1 DEF EventRow
  <2> QED
    BY <1>1, <1>2, <2>1 DEF ClaimEvents, QueueTypeOK
<1>3. ASSUME NEW e \in Events, MarkPublished(e, w)
      PROVE  QueueTypeOK'
  <2>1. [event[e] EXCEPT !.state = "PUBLISHED", !.owner = NoWorker, !.lease = "none"] \in EventRow
    BY <1>1 DEF EventRow, EventStates
  <2> QED
    BY <1>1, <1>3, <2>1 DEF MarkPublished, QueueTypeOK
<1>4. ASSUME NEW e \in Events, MarkFailed(e, w)
      PROVE  QueueTypeOK'
  <2>1. FailedRow(event[e], MaxAttempts[e]) \in EventRow
    BY <1>1, FailedRowTyped DEF OutboxAssumption
  <2> QED
    BY <1>1, <1>4, <2>1 DEF MarkFailed, QueueTypeOK
<1> QED
  BY <1>2, <1>3, <1>4

LEMMA AdministratorStatements ==
    ASSUME QueueTypeOK, CancelLeasedActionEvents \/ \E s \in BOOLEAN : SetRollout(s)
    PROVE  QueueTypeOK'
<1>1. \A f \in Events : [event[f] EXCEPT !.state = "DEAD", !.error = "rollback",
                                         !.owner = NoWorker, !.lease = "none"] \in EventRow
  BY DEF QueueTypeOK, EventRow, EventStates
<1> QED
  BY <1>1 DEF QueueTypeOK, CancelLeasedActionEvents, SetRollout

-----------------------------------------------------------------------------
(* Workers.                                                                *)

\* A worker whose new row is in order leaves all rows in order.
LEMMA WorkerMoves ==
    ASSUME Typed, NEW w \in Deliverers, NEW row \in WorkerRow, RowInHand(row),
           worker' = [worker EXCEPT ![w] = row]
    PROVE  worker' \in [Deliverers -> WorkerRow] /\ InHand'
BY DEF Typed, TypeOK, InHand

LEMMA WorkerGoes ==
    ASSUME Typed, NEW w \in Deliverers, NEW pc \in Steps, RowInHand([worker[w] EXCEPT !.pc = pc]),
           Goto(w, pc)
    PROVE  worker' \in [Deliverers -> WorkerRow] /\ InHand'
<1>1. [worker[w] EXCEPT !.pc = pc] \in WorkerRow
  BY DEF Typed, TypeOK, WorkerRow
<1>2. worker' = [worker EXCEPT ![w] = [worker[w] EXCEPT !.pc = pc]]
  BY DEF Goto
<1> QED
  BY <1>1, <1>2, WorkerMoves

LEMMA WorkerTakesNext ==
    ASSUME Typed, NEW w \in Deliverers, NextOfBatch(w)
    PROVE  worker' \in [Deliverers -> WorkerRow] /\ InHand'
<1> DEFINE row == [Fresh EXCEPT !.pc = "batch", !.batch = worker[w].batch]
<1>1. row \in WorkerRow
  BY FreshIsTyped DEF Typed, TypeOK, WorkerRow, Steps
<1>2. RowInHand(row)
  BY DEF RowInHand, NotificationSteps, Fresh
<1> QED
  BY <1>1, <1>2, WorkerMoves DEF NextOfBatch

LEMMA BatchTyped ==
    ASSUME OutboxAssumption, DeliveryAssumption, Typed, NEW w \in Deliverers, BatchStep(w)
    PROVE  Typed'
<1> DEFINE row == worker[w]
<1>1. row \in WorkerRow /\ RowInHand(row) /\ QueueTypeOK /\ DispatchTypeOK /\ handled \subseteq Events
  BY DEF Typed, TypeOK, InHand
<1>2. UNCHANGED queueVars => QueueTypeOK'
  BY <1>1 DEF QueueTypeOK, queueVars
<1>3. SameDispatch /\ DispatchTypeOK'
  <2>1. SameDispatch
    BY DEF BatchStep, Poll, ClaimBatch, ClaimNothing, StartEvent, EndBatch, StartConsumer,
       ConsumerReturns, Record, Publish, Raises, Fail, WorkerDies
  <2> QED
    BY <1>1, <2>1 DEF SameDispatch, DispatchTypeOK, dispatchVars
<1>4. ASSUME worker' \in [Deliverers -> WorkerRow] /\ InHand', QueueTypeOK', handled' \subseteq Events
      PROVE  Typed'
  BY <1>3, <1>4 DEF Typed, TypeOK
<1>5. \A pc \in Steps : row.event \in Events /\ pc \notin NotificationSteps
                           => RowInHand([row EXCEPT !.pc = pc])
  BY <1>1 DEF RowInHand, NotificationSteps, WorkerRow
<1>6. CASE Poll(w) \/ ClaimNothing(w) \/ EndBatch(w)
  <2>1. PICK pc \in {"idle", "polled"} : Goto(w, pc)
    BY <1>6 DEF Poll, ClaimNothing, EndBatch
  <2>2. RowInHand([row EXCEPT !.pc = pc]) /\ pc \in Steps
    BY <1>1 DEF RowInHand, NotificationSteps, WorkerRow, Steps
  <2> QED
    BY <1>2, <1>4, <1>1, <1>6, <2>1, <2>2, WorkerGoes DEF Poll, ClaimNothing, EndBatch, SameQueue
<1>7. CASE StartConsumer(w) \/ ConsumerReturns(w) \/ Record(w) \/ Raises(w)
  <2>1. row.event \in Events
    BY <1>1, <1>7 DEF StartConsumer, ConsumerReturns, Record, Raises, At, RowInHand
  <2>2. PICK pc \in {"acting", "record", "publish", "fail"} : Goto(w, pc)
    BY <1>7 DEF StartConsumer, ConsumerReturns, Record, Raises
  <2>3. worker' \in [Deliverers -> WorkerRow] /\ InHand'
    BY <1>5, <2>1, <2>2, WorkerGoes DEF NotificationSteps, Steps
  <2>4. QueueTypeOK'
    BY <1>1, <1>2, <1>7, <2>1, QueueStatements
       DEF StartConsumer, ConsumerReturns, Record, Raises, SameQueue
  <2>5. handled' \subseteq Events
    BY <1>1, <1>7, <2>1 DEF StartConsumer, ConsumerReturns, Record, Raises, Return
  <2> QED
    BY <1>4, <2>3, <2>4, <2>5
<1>8. CASE Publish(w) \/ Fail(w)
  <2>1. row.event \in Events
    BY <1>1, <1>8 DEF Publish, Fail, At, RowInHand
  <2>2. QueueTypeOK'
    BY <1>1, <1>8, <2>1, DelivererStatements DEF Publish, Fail
  <2>3. NextOfBatch(w) /\ handled' = handled
    BY <1>8 DEF Publish, Fail
  <2> QED
    BY <1>1, <1>4, <2>2, <2>3, WorkerTakesNext
<1>9. CASE ClaimBatch(w)
  <2>1. PICK B \in SUBSET Events :
            ClaimEvents(B, w) /\ worker' = [worker EXCEPT ![w] = [Fresh EXCEPT !.pc = "batch", !.batch = B]]
    BY <1>9 DEF ClaimBatch
  <2>2. [Fresh EXCEPT !.pc = "batch", !.batch = B] \in WorkerRow
    BY FreshIsTyped DEF WorkerRow, Steps
  <2>3. RowInHand([Fresh EXCEPT !.pc = "batch", !.batch = B])
    BY DEF RowInHand, NotificationSteps, Fresh
  <2>4. worker' \in [Deliverers -> WorkerRow] /\ InHand'
    BY <2>1, <2>2, <2>3, WorkerMoves
  <2>5. QueueTypeOK'
    BY <1>1, <2>1, DelivererStatements
  <2> QED
    BY <1>1, <1>4, <1>9, <2>4, <2>5 DEF ClaimBatch
<1>10. CASE StartEvent(w)
  <2>1. PICK e \in row.batch, pc \in {"fail", "publish", "consume"} :
            worker' = [worker EXCEPT ![w] = [row EXCEPT !.batch = row.batch \ {e}, !.event = e, !.pc = pc]]
    <3>1. PICK e \in row.batch :
            worker' = [worker EXCEPT ![w] = [row EXCEPT !.batch = row.batch \ {e}, !.event = e,
                !.pc = CASE KindOf[e] = "action" /\ frozen -> "fail"
                         [] e \in consumed                 -> "publish"
                         [] OTHER                          -> "consume"]]
      BY <1>10 DEF StartEvent
    <3> DEFINE pc == CASE KindOf[e] = "action" /\ frozen -> "fail"
                       [] e \in consumed                 -> "publish"
                       [] OTHER                          -> "consume"
    <3>2. pc \in {"fail", "publish", "consume"}
      OBVIOUS
    <3> QED
      BY <3>1, <3>2
  <2>2. e \in Events
    BY <1>1, <2>1 DEF WorkerRow
  <2>3. [row EXCEPT !.batch = row.batch \ {e}, !.event = e, !.pc = pc] \in WorkerRow
    BY <1>1, <2>2 DEF WorkerRow, Steps
  <2>4. RowInHand([row EXCEPT !.batch = row.batch \ {e}, !.event = e, !.pc = pc])
    BY <1>1, <2>1, <2>2 DEF RowInHand, NotificationSteps, WorkerRow
  <2>5. worker' \in [Deliverers -> WorkerRow] /\ InHand'
    BY <2>1, <2>3, <2>4, WorkerMoves
  <2> QED
    BY <1>1, <1>2, <1>4, <1>10, <2>5 DEF StartEvent, SameQueue
<1>11. CASE WorkerDies(w)
  <2>1. RowInHand(Fresh)
    BY DEF RowInHand, NotificationSteps, Fresh
  <2>2. worker' \in [Deliverers -> WorkerRow] /\ InHand'
    BY <1>11, <2>1, FreshIsTyped, WorkerMoves DEF WorkerDies
  <2> QED
    BY <1>1, <1>2, <1>4, <1>11, <2>2 DEF WorkerDies, SameQueue
<1> QED
  BY <1>6, <1>7, <1>8, <1>9, <1>10, <1>11 DEF BatchStep

LEMMA DecidedTyped ==
    ASSUME NEW row \in DispatchRow, NEW authorized \in BOOLEAN
    PROVE  Decided(row, authorized) \in DispatchRow
<1>1. CASE row.status = "SENDING"
  <2>1. Decided(row, authorized) = [row EXCEPT !.status = "NEEDS_REVIEW", !.version = row.version + 1]
    BY <1>1 DEF Decided
  <2>2. Decided(row, authorized) = [status |-> "NEEDS_REVIEW", version |-> row.version + 1,
                                    attempt |-> row.attempt]
    BY <2>1 DEF DispatchRow
  <2> QED
    BY <2>2 DEF DispatchRow, Dispatched, Settled
<1>2. CASE row.status = "QUEUED"
  BY <1>2 DEF Decided, DispatchRow, Dispatched, Settled
<1>3. CASE row.status \notin {"SENDING", "QUEUED"}
  BY <1>3 DEF Decided
<1> QED
  BY <1>1, <1>2, <1>3

LEMMA ResultTyped ==
    ASSUME NEW row \in DispatchRow, NEW s \in Settled, NEW k \in Nat
    PROVE  [row EXCEPT !.status = s, !.version = k + 1] \in DispatchRow
<1>1. s \in Dispatched /\ k + 1 \in Nat
  BY DEF Dispatched
<1> QED
  BY <1>1 DEF DispatchRow

LEMMA ProjectedTyped ==
    ASSUME NEW view \in Projection, NEW row \in DispatchRow
    PROVE  Projected(view, row) \in Projection
BY DEF Projected, ShownAs, Projection, DispatchRow

LEMMA DispatchStatements ==
    ASSUME DispatchTypeOK, NEW n \in Notifications,
           \/ QueueNotification(n)
           \/ \E authorized \in BOOLEAN : Decide(n, authorized)
           \/ \E attempt \in Nat, result \in Settled : RecordResult(n, attempt, result)
           \/ \E row \in DispatchRow : ProjectShown(n, row) \/ ProjectAudited(n, row)
           \/ ProviderAccepts(n)
    PROVE  DispatchTypeOK'
<1>1. /\ dispatch \in [Notifications -> DispatchRow] /\ dispatch[n] \in DispatchRow
      /\ shown \in [Notifications -> Projection] /\ shown[n] \in Projection
      /\ audited \in [Notifications -> Projection] /\ audited[n] \in Projection
      /\ accepted \in [Notifications -> Nat] /\ accepted[n] \in Nat
  BY DEF DispatchTypeOK
<1>2. CASE QueueNotification(n)
  <2>1. [status |-> "QUEUED", version |-> 1, attempt |-> 0] \in DispatchRow
    BY DEF DispatchRow, Dispatched
  <2> QED
    BY <1>1, <1>2, <2>1 DEF QueueNotification, DispatchTypeOK
<1>3. ASSUME NEW authorized \in BOOLEAN, Decide(n, authorized)
      PROVE  DispatchTypeOK'
  BY <1>1, <1>3, DecidedTyped DEF Decide, DispatchTypeOK
<1>4. ASSUME NEW attempt \in Nat, NEW result \in Settled, RecordResult(n, attempt, result)
      PROVE  DispatchTypeOK'
  <2>1. [dispatch[n] EXCEPT !.status = result, !.version = dispatch[n].version + 1] \in DispatchRow
    <3>1. dispatch[n].version \in Nat
      BY <1>1 DEF DispatchRow
    <3> QED
      BY <1>1, <3>1, ResultTyped
  <2> QED
    BY <1>1, <1>4, <2>1 DEF RecordResult, DispatchTypeOK
<1>5. ASSUME NEW row \in DispatchRow, ProjectShown(n, row) PROVE DispatchTypeOK'
  BY <1>1, <1>5, ProjectedTyped DEF ProjectShown, DispatchTypeOK
<1>6. ASSUME NEW row \in DispatchRow, ProjectAudited(n, row) PROVE DispatchTypeOK'
  BY <1>1, <1>6, ProjectedTyped DEF ProjectAudited, DispatchTypeOK
<1>7. CASE ProviderAccepts(n)
  BY <1>1, <1>7 DEF ProviderAccepts, DispatchTypeOK
<1> QED
  BY <1>2, <1>3, <1>4, <1>5, <1>6, <1>7

LEMMA NotificationTyped ==
    ASSUME OutboxAssumption, DeliveryAssumption, Typed, NEW w \in Deliverers, NotificationStep(w)
    PROVE  Typed'
<1> DEFINE row == worker[w]
           n   == worker[w].event
<1>1. /\ row \in WorkerRow /\ RowInHand(row) /\ QueueTypeOK /\ DispatchTypeOK
      /\ handled \subseteq Events /\ row.row \in DispatchRow /\ row.attempt \in Nat
  BY DEF Typed, TypeOK, InHand, WorkerRow
<1>2. n \in Notifications /\ n \in Events /\ dispatch[n] \in DispatchRow
  <2>1. n \in Notifications
    BY <1>1 DEF NotificationStep, ReadDispatch, Project, Audit, DecideDispatch, SendAccepted,
       SendRejected, SendUnknown, KeepResult, At, Kind, RowInHand, NotificationSteps,
       DeliveryAssumption
  <2> QED
    BY <1>1, <2>1 DEF DeliveryAssumption, DispatchTypeOK
<1>3. QueueTypeOK'
  <2>1. SameQueue
    BY DEF NotificationStep, ReadDispatch, Project, Audit, DecideDispatch, SendAccepted,
       SendRejected, SendUnknown, KeepResult
  <2> QED
    BY <1>1, <2>1 DEF SameQueue, queueVars, QueueTypeOK
<1>4. handled' \subseteq Events
  BY <1>1, <1>2 DEF NotificationStep, ReadDispatch, Project, Audit, DecideDispatch, SendAccepted,
     SendRejected, SendUnknown, KeepResult, Return
<1>5. SameDispatch => DispatchTypeOK'
  BY <1>1 DEF SameDispatch, dispatchVars, DispatchTypeOK
<1>6. ASSUME DispatchTypeOK', NEW new \in WorkerRow, RowInHand(new), worker' = [worker EXCEPT ![w] = new]
      PROVE  Typed'
  BY <1>3, <1>4, <1>6, WorkerMoves DEF Typed, TypeOK
<1>7. CASE ReadDispatch(w)
  <2> DEFINE new == [row EXCEPT !.pc = "project", !.row = dispatch[n]]
  <2>1. new \in WorkerRow /\ RowInHand(new)
    BY <1>1, <1>2 DEF WorkerRow, Steps, RowInHand, NotificationSteps
  <2>2. worker' = [worker EXCEPT ![w] = new] /\ DispatchTypeOK'
    BY <1>5, <1>7 DEF ReadDispatch
  <2> QED
    BY <1>6, <2>1, <2>2
<1>8. CASE Project(w) \/ Audit(w)
  <2>1. PICK pc \in {"audit", "decide", "record"} : Goto(w, pc)
    BY <1>8 DEF Project, Audit
  <2> DEFINE new == [row EXCEPT !.pc = pc]
  <2>2. new \in WorkerRow /\ RowInHand(new)
    BY <1>1, <1>2 DEF WorkerRow, Steps, RowInHand, NotificationSteps
  <2>3. DispatchTypeOK'
    BY <1>1, <1>2, <1>8, DispatchStatements DEF Project, Audit
  <2>4. worker' = [worker EXCEPT ![w] = new]
    BY <2>1 DEF Goto
  <2> QED
    BY <1>6, <2>2, <2>3, <2>4
<1>9. CASE DecideDispatch(w)
  <2>1. PICK authorized \in BOOLEAN, attempt \in {0, dispatch[n].version + 1}, pc \in {"send", "project"} :
          /\ Decide(n, authorized)
          /\ worker' = [worker EXCEPT ![w] = [row EXCEPT !.row = dispatch'[n], !.attempt = attempt,
                                                         !.pc = pc]]
    BY <1>9 DEF DecideDispatch
  <2>2. DispatchTypeOK'
    BY <1>1, <1>2, <2>1, DispatchStatements
  <2>3. dispatch'[n] \in DispatchRow /\ attempt \in Nat
    BY <1>2, <2>1, <2>2 DEF DispatchTypeOK, DispatchRow
  <2> DEFINE new == [row EXCEPT !.row = dispatch'[n], !.attempt = attempt, !.pc = pc]
  <2>4. new \in WorkerRow /\ RowInHand(new)
    BY <1>1, <1>2, <2>3 DEF WorkerRow, Steps, RowInHand, NotificationSteps
  <2> QED
    BY <1>6, <2>1, <2>2, <2>4
<1>10. ASSUME NEW result \in {"SENT", "FAILED", "NEEDS_REVIEW"}, HaveResult(w, result), DispatchTypeOK'
       PROVE  Typed'
  <2> DEFINE new == [row EXCEPT !.pc = "result", !.result = result]
  <2>1. new \in WorkerRow /\ RowInHand(new)
    BY <1>1, <1>2 DEF WorkerRow, Steps, RowInHand, NotificationSteps, Settled
  <2>2. worker' = [worker EXCEPT ![w] = new]
    BY <1>10 DEF HaveResult
  <2> QED
    BY <1>6, <1>10, <2>1, <2>2
<1>11. CASE SendAccepted(w) \/ SendUnknown(w)
  <2>1. DispatchTypeOK'
    BY <1>1, <1>2, <1>5, <1>11, DispatchStatements DEF SendAccepted, SendUnknown
  <2> QED
    BY <1>10, <1>11, <2>1 DEF SendAccepted, SendUnknown
<1>12. CASE SendRejected(w)
  <2>1. DispatchTypeOK'
    BY <1>5, <1>12 DEF SendRejected
  <2>2. CASE row.rejections + 1 = 3
    BY <1>10, <1>12, <2>1, <2>2 DEF SendRejected
  <2>3. CASE row.rejections + 1 # 3
    <3> DEFINE new == [row EXCEPT !.rejections = row.rejections + 1]
    <3>1. new \in WorkerRow /\ RowInHand(new)
      BY <1>1, <1>2, <2>3 DEF WorkerRow, Steps, RowInHand, NotificationSteps
    <3>2. worker' = [worker EXCEPT ![w] = new]
      BY <1>12, <2>3 DEF SendRejected
    <3> QED
      BY <1>6, <2>1, <3>1, <3>2
  <2> QED
    BY <2>2, <2>3
<1>13. CASE KeepResult(w)
  <2>1. RecordResult(n, row.attempt, row.result) /\ row.result \in Settled
    BY <1>1, <1>13 DEF KeepResult, At, RowInHand, Settled
  <2>2. DispatchTypeOK'
    BY <1>1, <1>2, <2>1, DispatchStatements
  <2> DEFINE new == [row EXCEPT !.pc = "project", !.row = dispatch'[n]]
  <2>3. dispatch'[n] \in DispatchRow
    BY <1>2, <2>2 DEF DispatchTypeOK
  <2>4. new \in WorkerRow /\ RowInHand(new)
    BY <1>1, <1>2, <2>3 DEF WorkerRow, Steps, RowInHand, NotificationSteps
  <2>5. worker' = [worker EXCEPT ![w] = new]
    BY <1>13 DEF KeepResult
  <2> QED
    BY <1>6, <2>2, <2>4, <2>5
<1> QED
  BY <1>7, <1>8, <1>9, <1>11, <1>12, <1>13 DEF NotificationStep

LEMMA NextTyped ==
    ASSUME OutboxAssumption, DeliveryAssumption, Typed, [Next]_vars
    PROVE  Typed'
<1>1. QueueTypeOK /\ DispatchTypeOK /\ worker \in [Deliverers -> WorkerRow] /\ handled \subseteq Events
  BY DEF Typed, TypeOK
<1>2. ASSUME QueueTypeOK', DispatchTypeOK', UNCHANGED <<worker, handled>>
      PROVE  Typed'
  BY <1>1, <1>2 DEF Typed, TypeOK, InHand
<1>3. SameDispatch => DispatchTypeOK'
  BY <1>1 DEF SameDispatch, dispatchVars, DispatchTypeOK
<1>4. CASE UNCHANGED vars
  BY <1>1, <1>2, <1>4 DEF vars, QueueTypeOK, DispatchTypeOK
<1>5. ASSUME NEW e \in Events, Enqueue(e) \/ Replay(e) \/ Lapse(e) \/ Due(e)
      PROVE  Typed'
  <2>1. EnqueueEvent(e) \/ ReplayEvent(e) \/ ExpireLease(e) \/ RetryDue(e)
    BY <1>5 DEF Enqueue, Replay, Lapse, Due
  <2>2. QueueTypeOK'
    BY <1>1, <2>1, QueueStatements
  <2>3. UNCHANGED <<worker, handled>> /\ (SameDispatch \/ (e \in Notifications /\ QueueNotification(e)))
    BY <1>5 DEF Enqueue, Replay, Lapse, Due, DeliveryAssumption
  <2>4. DispatchTypeOK'
    BY <1>1, <1>3, <2>3, DispatchStatements
  <2> QED
    BY <1>2, <2>2, <2>3, <2>4
<1>6. CASE Administer
  <2>1. QueueTypeOK'
    BY <1>1, <1>6, AdministratorStatements DEF Administer, Freeze, Promote, Dispose
  <2> QED
    BY <1>2, <1>3, <1>6, <2>1 DEF Administer
<1> QED
  BY <1>4, <1>5, <1>6, BatchTyped, NotificationTyped DEF Next

\* Every reachable state is well typed, and a worker inside a consumer has the
\* event that its step needs in hand (process_outbox_batch, deliver_notification).
THEOREM TypeCorrect ==
    ASSUME OutboxAssumption, DeliveryAssumption PROVE Spec => []TypeOK
<1>1. Init => Typed
  BY InitTyped
<1>2. Typed /\ [Next]_vars => Typed'
  BY NextTyped
<1>3. Typed => TypeOK
  BY DEF Typed
<1> QED
  BY <1>1, <1>2, <1>3, PTL DEF Spec
-----------------------------------------------------------------------------
(* One call per notification.  Whoever is in the call, or carries its result *)
(* out, is alone with a record that was set to SENDING for this call and can *)
(* since only have been put up for review; what it has done agrees with what *)
(* the provider took.                                                        *)

Calling(row, n) == row.pc \in {"send", "result"} /\ row.event = n

CallMatches(row, n) ==
    /\ dispatch[n].status \in {"SENDING", "NEEDS_REVIEW"}
    /\ row.pc = "send" => accepted[n] = 0
    /\ row.pc = "result" /\ row.result = "SENT" => accepted[n] = 1
    /\ row.pc = "result" /\ row.result = "FAILED" => accepted[n] = 0

Receipt(n) ==
    /\ accepted[n] \in {0, 1}
    /\ dispatch[n].status = "SENT" => accepted[n] = 1
    /\ dispatch[n].status \in {"ABSENT", "QUEUED", "FAILED", "CANCELLED"} => accepted[n] = 0

OneCall ==
    /\ \A n \in Notifications : Receipt(n)
    /\ \A n \in Notifications, w \in Deliverers : Calling(worker[w], n) => CallMatches(worker[w], n)
    /\ \A n \in Notifications, w, v \in Deliverers :
          Calling(worker[w], n) /\ Calling(worker[v], n) => w = v

\* A step of w that starts no call and touches neither record nor provider.
LEMMA OutsideTheCall ==
    ASSUME Typed, OneCall, NEW w \in Deliverers, NEW row, row.pc \notin {"send", "result"},
           worker' = [worker EXCEPT ![w] = row], UNCHANGED <<dispatch, accepted>>
    PROVE  OneCall'
<1>1. worker'[w] = row /\ \A v \in Deliverers \ {w} : worker'[v] = worker[v]
  BY DEF Typed, TypeOK
<1>2. \A n \in Notifications : ~Calling(worker'[w], n)
  BY <1>1 DEF Calling
<1> QED
  BY <1>1, <1>2 DEF OneCall, Receipt, CallMatches, Calling

LEMMA BatchKeepsCalls ==
    ASSUME Typed, OneCall, NEW w \in Deliverers, BatchStep(w)
    PROVE  OneCall'
<1>1. UNCHANGED <<dispatch, accepted>>
  BY DEF BatchStep, Poll, ClaimBatch, ClaimNothing, StartEvent, EndBatch, StartConsumer,
     ConsumerReturns, Record, Publish, Raises, Fail, WorkerDies, SameDispatch, dispatchVars
<1>2. worker[w] \in WorkerRow
  BY DEF Typed, TypeOK
<1>3. ASSUME NEW pc \in Steps \ {"send", "result"}, Goto(w, pc)
      PROVE  OneCall'
  <2> DEFINE row == [worker[w] EXCEPT !.pc = pc]
  <2>1. row.pc \notin {"send", "result"} /\ worker' = [worker EXCEPT ![w] = row]
    BY <1>2, <1>3 DEF Goto, WorkerRow
  <2> QED
    BY <1>1, <2>1, OutsideTheCall
<1>4. CASE Poll(w) \/ ClaimNothing(w) \/ EndBatch(w) \/ StartConsumer(w) \/ ConsumerReturns(w)
           \/ Record(w) \/ Raises(w)
  BY <1>3, <1>4 DEF Poll, ClaimNothing, EndBatch, StartConsumer, ConsumerReturns, Record, Raises, Steps
<1>5. CASE Publish(w) \/ Fail(w)
  <2>1. [Fresh EXCEPT !.pc = "batch", !.batch = worker[w].batch].pc = "batch"
    BY DEF Fresh
  <2> QED
    BY <1>1, <1>5, <2>1, OutsideTheCall DEF Publish, Fail, NextOfBatch
<1>6. CASE ClaimBatch(w)
  <2>1. \A B : [Fresh EXCEPT !.pc = "batch", !.batch = B].pc = "batch"
    BY DEF Fresh
  <2> QED
    BY <1>1, <1>6, <2>1, OutsideTheCall DEF ClaimBatch
<1>7. CASE StartEvent(w)
  <2>1. PICK row : worker' = [worker EXCEPT ![w] = row] /\ row.pc \in {"fail", "publish", "consume"}
    <3>1. PICK e \in worker[w].batch :
            worker' = [worker EXCEPT ![w] = [worker[w] EXCEPT !.batch = worker[w].batch \ {e}, !.event = e,
                !.pc = CASE KindOf[e] = "action" /\ frozen -> "fail"
                         [] e \in consumed                 -> "publish"
                         [] OTHER                          -> "consume"]]
      BY <1>7 DEF StartEvent
    <3> DEFINE pc  == CASE KindOf[e] = "action" /\ frozen -> "fail"
                        [] e \in consumed                 -> "publish"
                        [] OTHER                          -> "consume"
               row == [worker[w] EXCEPT !.batch = worker[w].batch \ {e}, !.event = e, !.pc = pc]
    <3>2. pc \in {"fail", "publish", "consume"}
      OBVIOUS
    <3> HIDE DEF pc
    <3>3. row.pc = pc
      BY <1>2 DEF WorkerRow
    <3>4. worker' = [worker EXCEPT ![w] = row]
      BY <3>1 DEF pc
    <3> QED
      BY <3>2, <3>3, <3>4
  <2> QED
    BY <1>1, <2>1, OutsideTheCall
<1>8. CASE WorkerDies(w)
  BY <1>1, <1>8, OutsideTheCall DEF WorkerDies, Fresh
<1> QED
  BY <1>4, <1>5, <1>6, <1>7, <1>8 DEF BatchStep

\* The worker in the call moves on, alone with its record.
LEMMA InsideTheCall ==
    ASSUME Typed, OneCall, NEW n \in Notifications, NEW w \in Deliverers, NEW row,
           Calling(worker[w], n), row.event = n, worker' = [worker EXCEPT ![w] = row],
           dispatch' \in [Notifications -> DispatchRow], accepted' \in [Notifications -> Nat],
           \A m \in Notifications \ {n} : dispatch'[m] = dispatch[m] /\ accepted'[m] = accepted[m],
           Receipt(n)', Calling(row, n) => CallMatches(row, n)'
    PROVE  OneCall'
<1>1. worker'[w] = row /\ \A v \in Deliverers \ {w} : worker'[v] = worker[v]
  BY DEF Typed, TypeOK
<1>2. \A v \in Deliverers \ {w} : ~Calling(worker'[v], n)
  BY <1>1 DEF OneCall
<1>3. \A m \in Notifications \ {n} : ~Calling(worker'[w], m)
  BY <1>1 DEF Calling
<1>4. \A m \in Notifications : Receipt(m)'
  BY DEF OneCall, Receipt
<1>5. \A m \in Notifications \ {n}, v \in Deliverers :
        Calling(worker'[v], m) => CallMatches(worker[v], m)'
  BY <1>1, <1>3 DEF OneCall, CallMatches, Calling
<1>6. \A v \in Deliverers : Calling(worker'[v], n) => CallMatches(worker[v], n)'
  BY <1>1, <1>2 DEF CallMatches, Calling
<1>7. \A m \in Notifications, u, v \in Deliverers :
        Calling(worker'[u], m) /\ Calling(worker'[v], m) => u = v
  BY <1>1, <1>2, <1>3 DEF OneCall
<1> QED
  BY <1>4, <1>5, <1>6, <1>7 DEF OneCall
LEMMA NotificationKeepsCalls ==
    ASSUME OutboxAssumption, DeliveryAssumption, Typed, OneCall, NEW w \in Deliverers,
           NotificationStep(w)
    PROVE  OneCall'
<1> DEFINE row == worker[w]
<1>1. row \in WorkerRow /\ RowInHand(row) /\ DispatchTypeOK
  BY DEF Typed, TypeOK, InHand
<1>2. PICK n \in Notifications : n = row.event
  <2>1. row.event \in Notifications
    BY <1>1 DEF NotificationStep, ReadDispatch, Project, Audit, DecideDispatch, SendAccepted,
       SendRejected, SendUnknown, KeepResult, At, Kind, RowInHand, NotificationSteps, DeliveryAssumption
  <2> QED
    BY <2>1
<1>3. Typed' /\ DispatchTypeOK'
  <2>1. Typed'
    BY NotificationTyped
  <2> QED
    BY <2>1 DEF Typed, TypeOK
<1>4. /\ dispatch \in [Notifications -> DispatchRow] /\ dispatch' \in [Notifications -> DispatchRow]
      /\ accepted \in [Notifications -> Nat] /\ accepted' \in [Notifications -> Nat]
  BY <1>1, <1>3 DEF DispatchTypeOK
<1>5. CASE ReadDispatch(w)
  <2> DEFINE new == [row EXCEPT !.pc = "project", !.row = dispatch[n]]
  <2>1. new.pc = "project"
    BY <1>1 DEF WorkerRow
  <2> QED
    BY <1>2, <1>5, <2>1, OutsideTheCall DEF ReadDispatch, SameDispatch, dispatchVars
<1>6. CASE Project(w) \/ Audit(w)
  <2>1. PICK pc \in {"audit", "decide", "record"} : Goto(w, pc)
    BY <1>6 DEF Project, Audit
  <2> DEFINE new == [row EXCEPT !.pc = pc]
  <2>2. new.pc = pc /\ worker' = [worker EXCEPT ![w] = new]
    BY <1>1, <2>1 DEF WorkerRow, Goto
  <2>3. UNCHANGED <<dispatch, accepted>>
    BY <1>6 DEF Project, Audit, ProjectShown, ProjectAudited
  <2> QED
    BY <2>2, <2>3, OutsideTheCall
<1>7. CASE DecideDispatch(w)
  <2> DEFINE attempt == dispatch[n].version + 1
             mine    == dispatch'[n].status = "SENDING" /\ dispatch'[n].attempt = attempt
  <2>1. PICK authorized \in BOOLEAN :
          /\ Decide(n, authorized)
          /\ worker' = [worker EXCEPT ![w] = [row EXCEPT !.row = dispatch'[n],
                                                         !.attempt = IF mine THEN attempt ELSE 0,
                                                         !.pc = IF mine THEN "send" ELSE "project"]]
    BY <1>2, <1>7 DEF DecideDispatch
  <2> DEFINE new == [row EXCEPT !.row = dispatch'[n], !.attempt = IF mine THEN attempt ELSE 0,
                                !.pc = IF mine THEN "send" ELSE "project"]
  <2>2. new.event = n /\ new.pc = IF mine THEN "send" ELSE "project"
    BY <1>1, <1>2 DEF WorkerRow
  <2>3. row.pc = "decide"
    BY <1>7 DEF DecideDispatch, At
  <2>4. worker'[w] = new /\ \A v \in Deliverers \ {w} : worker'[v] = worker[v]
    BY <2>1 DEF Typed, TypeOK
  <2>5. /\ dispatch'[n] = Decided(dispatch[n], authorized) /\ accepted' = accepted
        /\ \A m \in Notifications \ {n} : dispatch'[m] = dispatch[m]
    BY <1>2, <1>4, <2>1 DEF Decide
  <2> HIDE DEF new
  <2>6. dispatch[n] \in DispatchRow /\ dispatch[n].version \in Nat
    BY <1>2, <1>4 DEF DispatchRow
  <2>7. CASE dispatch[n].status = "QUEUED"
    <3>1. \A v \in Deliverers : ~Calling(worker[v], n)
      BY <1>2, <2>7 DEF OneCall, CallMatches
    <3>2. dispatch'[n].status \in {"SENDING", "CANCELLED"} /\ accepted'[n] = 0
      BY <1>2, <2>5, <2>7 DEF Decided, OneCall, Receipt
    <3>3. Calling(new, n) => dispatch'[n].status = "SENDING"
      BY <2>2 DEF Calling
    <3>4. \A m \in Notifications : Receipt(m)'
      BY <2>5, <3>2 DEF OneCall, Receipt
    <3>5. \A m \in Notifications \ {n} : ~Calling(new, m)
      BY <2>2 DEF Calling
    <3>6. \A m \in Notifications, v \in Deliverers :
            Calling(worker'[v], m) => CallMatches(worker[v], m)'
      <4>1. ASSUME NEW m \in Notifications, NEW v \in Deliverers, Calling(worker'[v], m)
            PROVE  CallMatches(worker[v], m)'
        <5>1. CASE v = w
          <6>1. m = n /\ new.pc = "send"
            BY <2>2, <2>4, <3>5, <4>1, <5>1 DEF Calling
          <6> QED
            BY <2>4, <3>2, <3>3, <4>1, <5>1, <6>1 DEF CallMatches, Calling
        <5>2. CASE v # w
          <6>1. Calling(worker[v], m) /\ m # n
            BY <2>4, <3>1, <4>1, <5>2 DEF Calling
          <6> QED
            BY <2>4, <2>5, <5>2, <6>1 DEF OneCall, CallMatches
        <5> QED
          BY <5>1, <5>2
      <4> QED
        BY <4>1
    <3>7. \A m \in Notifications, u, v \in Deliverers :
            Calling(worker'[u], m) /\ Calling(worker'[v], m) => u = v
      BY <2>4, <3>1, <3>5 DEF OneCall
    <3> QED
      BY <3>4, <3>6, <3>7 DEF OneCall
  <2>8. CASE dispatch[n].status # "QUEUED"
    <3>1. /\ dispatch'[n].status = IF dispatch[n].status = "SENDING" THEN "NEEDS_REVIEW"
                                                                    ELSE dispatch[n].status
          /\ dispatch'[n].status # "SENDING"
      BY <2>5, <2>6, <2>8 DEF Decided, DispatchRow
    <3>2. new.pc = "project"
      BY <2>2, <3>1
    <3>3. \A m \in Notifications : ~Calling(worker'[w], m)
      BY <2>4, <3>2 DEF Calling
    <3>4. \A m \in Notifications : Receipt(m)'
      BY <2>5, <3>1 DEF OneCall, Receipt
    <3>5. \A m \in Notifications, v \in Deliverers :
            Calling(worker'[v], m) => CallMatches(worker[v], m)'
      <4>1. ASSUME NEW m \in Notifications, NEW v \in Deliverers, Calling(worker'[v], m)
            PROVE  CallMatches(worker[v], m)'
        <5>1. v # w
          BY <3>3, <4>1
        <5>2. Calling(worker[v], m)
          BY <2>4, <4>1, <5>1
        <5>3. CallMatches(worker[v], m) /\ worker'[v] = worker[v]
          BY <2>4, <5>1, <5>2 DEF OneCall
        <5> QED
          BY <2>5, <3>1, <5>3 DEF CallMatches
      <4> QED
        BY <4>1
    <3>6. \A m \in Notifications, u, v \in Deliverers :
            Calling(worker'[u], m) /\ Calling(worker'[v], m) => u = v
      BY <2>4, <3>3 DEF OneCall
    <3> QED
      BY <3>4, <3>5, <3>6 DEF OneCall
  <2> QED
    BY <2>7, <2>8
<1>8. ASSUME Calling(row, n), NEW new, new.event = n, worker' = [worker EXCEPT ![w] = new],
             \A m \in Notifications \ {n} : dispatch'[m] = dispatch[m] /\ accepted'[m] = accepted[m],
             Receipt(n)', Calling(new, n) => CallMatches(new, n)'
      PROVE  OneCall'
  BY <1>2, <1>4, <1>8, InsideTheCall
<1>9. row.pc \in {"send", "result"} => Calling(row, n) /\ CallMatches(row, n) /\ Receipt(n)
  BY <1>2 DEF Calling, OneCall
<1>10. ASSUME NEW result \in {"SENT", "FAILED", "NEEDS_REVIEW"}, HaveResult(w, result), row.pc = "send",
              \/ SameDispatch /\ result # "SENT"
              \/ ProviderAccepts(n) /\ result # "FAILED"
       PROVE  OneCall'
  <2>1. PICK new : new = [row EXCEPT !.pc = "result", !.result = result]
    OBVIOUS
  <2>2. /\ worker' = [worker EXCEPT ![w] = new]
        /\ new.event = n /\ new.pc = "result" /\ new.result = result
    BY <1>1, <1>2, <1>10, <2>1 DEF HaveResult, WorkerRow
  <2>3. /\ dispatch' = dispatch
        /\ \A m \in Notifications \ {n} : accepted'[m] = accepted[m]
        /\ accepted'[n] \in {0, 1}
        /\ result = "SENT" => accepted'[n] = 1
        /\ result = "FAILED" => accepted'[n] = 0
    BY <1>2, <1>4, <1>9, <1>10 DEF SameDispatch, dispatchVars, ProviderAccepts, CallMatches
  <2>4. Receipt(n)'
    BY <1>9, <1>10, <2>3 DEF Receipt, CallMatches
  <2>5. CallMatches(new, n)'
    BY <1>9, <1>10, <2>2, <2>3 DEF CallMatches
  <2> QED
    BY <1>8, <1>9, <1>10, <2>2, <2>3, <2>4, <2>5
<1>11. CASE SendAccepted(w) \/ SendUnknown(w)
  BY <1>2, <1>10, <1>11 DEF SendAccepted, SendUnknown, At
<1>12. CASE SendRejected(w)
  <2>1. CASE row.rejections + 1 = 3
    BY <1>10, <1>12, <2>1 DEF SendRejected, At
  <2>2. CASE row.rejections + 1 # 3
    <3>1. PICK new : new = [row EXCEPT !.rejections = row.rejections + 1]
      OBVIOUS
    <3>2. worker' = [worker EXCEPT ![w] = new] /\ row.pc = "send" /\ new.event = n /\ new.pc = "send"
      BY <1>1, <1>2, <1>12, <2>2, <3>1 DEF SendRejected, At, WorkerRow
    <3>3. UNCHANGED <<dispatch, accepted>>
      BY <1>12 DEF SendRejected, SameDispatch, dispatchVars
    <3>4. Receipt(n)' /\ CallMatches(new, n)'
      BY <1>9, <3>2, <3>3 DEF Receipt, CallMatches
    <3> QED
      BY <1>8, <1>9, <3>2, <3>3, <3>4
  <2> QED
    BY <2>1, <2>2
<1>13. CASE KeepResult(w)
  <2>1. PICK new : new = [row EXCEPT !.pc = "project", !.row = dispatch'[n]]
    OBVIOUS
  <2>2. /\ worker' = [worker EXCEPT ![w] = new] /\ RecordResult(n, row.attempt, row.result)
        /\ new.event = n /\ new.pc = "project" /\ row.pc = "result"
    BY <1>1, <1>2, <1>13, <2>1 DEF KeepResult, WorkerRow, At
  <2>3. /\ accepted' = accepted
        /\ \A m \in Notifications \ {n} : dispatch'[m] = dispatch[m]
        /\ dispatch'[n] = dispatch[n] \/ dispatch'[n].status = row.result
    BY <1>2, <1>4, <2>2 DEF RecordResult, DispatchRow
  <2>4. Receipt(n)'
    BY <1>1, <1>9, <2>2, <2>3 DEF Receipt, CallMatches, RowInHand
  <2> QED
    BY <1>8, <1>9, <2>2, <2>3, <2>4 DEF Calling
<1> QED
  BY <1>5, <1>6, <1>7, <1>11, <1>12, <1>13 DEF NotificationStep

LEMMA NextKeepsCalls ==
    ASSUME OutboxAssumption, DeliveryAssumption, Typed, OneCall, [Next]_vars
    PROVE  OneCall'
<1>1. ASSUME UNCHANGED <<dispatch, accepted, worker>>
      PROVE  OneCall'
  BY <1>1 DEF OneCall, Receipt, Calling, CallMatches
<1>2. CASE UNCHANGED vars
  BY <1>1, <1>2 DEF vars
<1>3. ASSUME NEW e \in Events, Enqueue(e) \/ Replay(e) \/ Lapse(e) \/ Due(e)
      PROVE  OneCall'
  <2>1. UNCHANGED worker /\ (SameDispatch \/ (e \in Notifications /\ QueueNotification(e)))
    BY <1>3 DEF Enqueue, Replay, Lapse, Due, DeliveryAssumption
  <2>2. CASE SameDispatch
    BY <1>1, <2>1, <2>2 DEF SameDispatch, dispatchVars
  <2>3. CASE e \in Notifications /\ QueueNotification(e)
    <3>1. dispatch \in [Notifications -> DispatchRow]
      BY DEF Typed, TypeOK, DispatchTypeOK
    <3>2. /\ dispatch[e].status = "ABSENT" /\ dispatch'[e].status = "QUEUED" /\ accepted' = accepted
          /\ \A m \in Notifications \ {e} : dispatch'[m] = dispatch[m]
      BY <2>3, <3>1 DEF QueueNotification
    <3>3. \A v \in Deliverers : ~Calling(worker[v], e)
      BY <2>3, <3>2 DEF OneCall, CallMatches
    <3> QED
      BY <2>1, <2>3, <3>2, <3>3 DEF OneCall, Receipt, Calling, CallMatches
  <2> QED
    BY <2>1, <2>2, <2>3
<1>4. CASE Administer
  BY <1>1, <1>4 DEF Administer, SameDispatch, dispatchVars
<1> QED
  BY <1>2, <1>3, <1>4, BatchKeepsCalls, NotificationKeepsCalls DEF Next

\* However leases overlap, whoever dies around the call and however often the
\* event is delivered again, the provider takes a notification at most once,
\* and no receipt contradicts what it took (the SENDING record is written
\* before the call, and a SENDING record that is found is never sent).
THEOREM CallsAreCounted ==
    ASSUME OutboxAssumption, DeliveryAssumption PROVE Spec => [](SentOnce /\ ReceiptsAreTrue)
<1>1. Init => Typed /\ OneCall
  <2>1. Init => OneCall
    BY DEF Init, DispatchInit, NoDispatch, OneCall, Receipt, Calling, Fresh
  <2> QED
    BY <2>1, InitTyped
<1>2. Typed /\ OneCall /\ [Next]_vars => (Typed /\ OneCall)'
  BY NextTyped, NextKeepsCalls
<1>3. OneCall => SentOnce /\ ReceiptsAreTrue
  BY DEF OneCall, Receipt, SentOnce, ReceiptsAreTrue
<1> QED
  BY <1>1, <1>2, <1>3, PTL DEF Spec

\* What a receipt says of the provider is true in every state; what cannot be
\* known is NEEDS_REVIEW (deliver_notification's four outcomes).
THEOREM ReceiptsStayTrue ==
    ASSUME OutboxAssumption, DeliveryAssumption PROVE Spec => []ReceiptsAreTrue
<1>1. SentOnce /\ ReceiptsAreTrue => ReceiptsAreTrue
  OBVIOUS
<1> QED
  BY <1>1, CallsAreCounted, PTL

-----------------------------------------------------------------------------
(* What the outbox tables say about the past is true and is not rewritten,  *)
(* and what MongoDB shows of a notification follows its dispatch record.    *)

-----------------------------------------------------------------------------
(* How a worker's row changes.                                             *)

Alone(w) == \A v \in Deliverers \ {w} : worker'[v] = worker[v]

LEMMA GotoMoves ==
    ASSUME Typed, NEW w \in Deliverers, NEW pc, Goto(w, pc)
    PROVE  /\ Alone(w) /\ worker'[w].pc = pc
           /\ worker'[w].event = worker[w].event /\ worker'[w].batch = worker[w].batch
           /\ worker'[w].row = worker[w].row /\ worker'[w].attempt = worker[w].attempt
<1>1. worker \in [Deliverers -> WorkerRow] /\ worker[w] \in WorkerRow
  BY DEF Typed, TypeOK
<1>2. worker' = [worker EXCEPT ![w] = [worker[w] EXCEPT !.pc = pc]]
  BY DEF Goto
<1> QED
  BY <1>1, <1>2 DEF Alone, WorkerRow

LEMMA NextMoves ==
    ASSUME Typed, NEW w \in Deliverers, NextOfBatch(w)
    PROVE  /\ Alone(w) /\ worker'[w].pc = "batch"
           /\ worker'[w].event = NoEvent /\ worker'[w].batch = worker[w].batch
<1>1. worker \in [Deliverers -> WorkerRow]
  BY DEF Typed, TypeOK
<1> QED
  BY <1>1 DEF NextOfBatch, Alone, Fresh

LEMMA ClaimMoves ==
    ASSUME Typed, NEW w \in Deliverers, ClaimBatch(w)
    PROVE  \E B \in SUBSET Events :
              /\ ClaimEvents(B, w)
              /\ Alone(w) /\ worker'[w].pc = "batch"
              /\ worker'[w].event = NoEvent /\ worker'[w].batch = B
<1>1. worker \in [Deliverers -> WorkerRow]
  BY DEF Typed, TypeOK
<1> QED
  BY <1>1 DEF ClaimBatch, Alone, Fresh

LEMMA StartMoves ==
    ASSUME Typed, NEW w \in Deliverers, StartEvent(w)
    PROVE  \E e \in worker[w].batch :
              /\ Alone(w) /\ worker'[w].pc \in {"fail", "publish", "consume"}
              /\ worker'[w].pc = "publish" => e \in consumed
              /\ worker'[w].event = e /\ worker'[w].batch = worker[w].batch \ {e}
<1>1. worker \in [Deliverers -> WorkerRow] /\ worker[w] \in WorkerRow
  BY DEF Typed, TypeOK
<1>2. PICK e \in worker[w].batch :
        worker' = [worker EXCEPT ![w] = [worker[w] EXCEPT !.batch = worker[w].batch \ {e}, !.event = e,
            !.pc = CASE KindOf[e] = "action" /\ frozen -> "fail"
                     [] e \in consumed                 -> "publish"
                     [] OTHER                          -> "consume"]]
  BY DEF StartEvent
<1> DEFINE pc == CASE KindOf[e] = "action" /\ frozen -> "fail"
                   [] e \in consumed                 -> "publish"
                   [] OTHER                          -> "consume"
<1>3. pc \in {"fail", "publish", "consume"} /\ (pc = "publish" => e \in consumed)
  OBVIOUS
<1>4. worker' = [worker EXCEPT ![w] = [worker[w] EXCEPT !.batch = worker[w].batch \ {e}, !.event = e, !.pc = pc]]
  BY <1>2
<1> HIDE DEF pc
<1> QED
  BY <1>1, <1>3, <1>4 DEF Alone, WorkerRow

LEMMA DeathMoves ==
    ASSUME Typed, NEW w \in Deliverers, WorkerDies(w)
    PROVE  /\ Alone(w) /\ worker'[w].pc = "idle"
           /\ worker'[w].event = NoEvent /\ worker'[w].batch = {}
<1>1. worker \in [Deliverers -> WorkerRow]
  BY DEF Typed, TypeOK
<1> QED
  BY <1>1 DEF WorkerDies, Alone, Fresh

\* Inside deliver_notification the event and the batch stay in hand.
LEMMA NotificationMoves ==
    ASSUME Typed, NEW w \in Deliverers, NotificationStep(w)
    PROVE  /\ Alone(w)
           /\ worker'[w].event = worker[w].event /\ worker'[w].batch = worker[w].batch
           /\ worker'[w].pc \in NotificationSteps \cup {"record"}
           /\ worker'[w].pc = "record" => Audit(w)
<1>1. worker \in [Deliverers -> WorkerRow] /\ worker[w] \in WorkerRow
  BY DEF Typed, TypeOK
<1>2. CASE ReadDispatch(w)
  BY <1>1, <1>2 DEF ReadDispatch, Alone, WorkerRow, NotificationSteps
<1>3. CASE Project(w) \/ Audit(w)
  BY <1>3, GotoMoves DEF Project, Audit, NotificationSteps
<1>4. CASE DecideDispatch(w)
  <2>1. PICK attempt \in {0, dispatch[worker[w].event].version + 1}, pc \in {"send", "project"} :
          worker' = [worker EXCEPT ![w] = [worker[w] EXCEPT !.row = dispatch'[worker[w].event],
                                                            !.attempt = attempt, !.pc = pc]]
    BY <1>4 DEF DecideDispatch
  <2> QED
    BY <1>1, <2>1 DEF Alone, WorkerRow, NotificationSteps
<1>5. CASE \E result \in Settled : HaveResult(w, result)
  BY <1>1, <1>5 DEF HaveResult, Alone, WorkerRow, NotificationSteps
<1>6. CASE At(w, "send") /\ worker' = [worker EXCEPT ![w].rejections = worker[w].rejections + 1]
  BY <1>1, <1>6 DEF At, Alone, WorkerRow, NotificationSteps
<1>7. CASE KeepResult(w)
  BY <1>1, <1>7 DEF KeepResult, Alone, WorkerRow, NotificationSteps
<1> QED
  BY <1>2, <1>3, <1>4, <1>5, <1>6, <1>7
     DEF NotificationStep, SendAccepted, SendUnknown, SendRejected, Settled
-----------------------------------------------------------------------------
(* Events.  Only a pending event is leased; a published one was consumed; a  *)
(* dead one was given up for a reason.                                       *)

RowInOrder(e) ==
    /\ event[e].lease # "none" => Pending(e)
    /\ event[e].state = "PUBLISHED" => e \in consumed
    /\ Dead(e) => \/ event[e].error = "failed" /\ event[e].attempts >= MaxAttempts[e]
                  \/ event[e].error = "rollback" /\ KindOf[e] = "action"

EventsInOrder == \A e \in Events : RowInOrder(e)

\* One event's part of HistoryStands.
Stands(e) ==
    /\ event[e].state = "PUBLISHED" => event'[e] = event[e]
    /\ Dead(e) => event'[e].state \in {"DEAD", "PENDING"}
    /\ event'[e].attempts >= event[e].attempts
    /\ event[e].lease # "valid" => event'[e].state # "PUBLISHED" \/ event[e].state = "PUBLISHED"
    /\ e \in consumed => e \in consumed'

LEMMA SameEventStands ==
    ASSUME QueueTypeOK, NEW e \in Events, RowInOrder(e), event'[e] = event[e], consumed \subseteq consumed'
    PROVE  RowInOrder(e)' /\ Stands(e)
<1>1. event[e].attempts \in Nat
  BY DEF QueueTypeOK, EventRow
<1> QED
  BY <1>1 DEF RowInOrder, Stands, Pending, Dead

\* A statement about one event.
LEMMA EventStatements ==
    ASSUME OutboxAssumption, QueueTypeOK, EventsInOrder, NEW e \in Events,
           \/ EnqueueEvent(e) \/ ReplayEvent(e) \/ ExpireLease(e) \/ RetryDue(e) \/ RecordConsumption(e)
           \/ \E w \in Deliverers : MarkFailed(e, w) \/ (MarkPublished(e, w) /\ e \in consumed)
    PROVE  \A f \in Events : RowInOrder(f)' /\ Stands(f)
<1>1. /\ event \in [Events -> EventRow] /\ event[e] \in EventRow
      /\ event[e].attempts \in Nat /\ MaxAttempts[e] \in Nat /\ MaxAttempts[e] > 0
  BY DEF QueueTypeOK, OutboxAssumption, EventRow
<1>2. RowInOrder(e)
  BY DEF EventsInOrder
<1>3. consumed \subseteq consumed' /\ \A f \in Events \ {e} : event'[f] = event[f]
  BY <1>1 DEF EnqueueEvent, ReplayEvent, ExpireLease, RetryDue, RecordConsumption, MarkFailed, MarkPublished
<1>4. \A f \in Events \ {e} : RowInOrder(f)' /\ Stands(f)
  BY <1>3, SameEventStands DEF EventsInOrder
<1>5. RowInOrder(e)' /\ Stands(e)
  <2>1. CASE event'[e] = event[e]
    BY <1>2, <1>3, <2>1, SameEventStands
  <2>2. CASE EnqueueEvent(e)
    BY <1>1, <1>2, <2>2 DEF EnqueueEvent, EventRow, RowInOrder, Stands, Pending, Dead
  <2>3. CASE ReplayEvent(e)
    <3>1. event'[e] = [event[e] EXCEPT !.state = "PENDING", !.error = "none", !.due = TRUE,
                                       !.owner = NoWorker, !.lease = "none"]
      BY <1>1, <2>3 DEF ReplayEvent
    <3>2. event'[e].state = "PENDING" /\ event'[e].attempts = event[e].attempts
      BY <1>1, <3>1 DEF EventRow
    <3>3. event[e].state \in {"PENDING", "DEAD"} /\ consumed' = consumed
      BY <2>3 DEF ReplayEvent, Replayable
    <3> QED
      BY <1>1, <3>2, <3>3 DEF RowInOrder, Stands, Pending, Dead
  <2>4. CASE ExpireLease(e)
    BY <1>1, <1>2, <2>4 DEF ExpireLease, EventRow, RowInOrder, Stands, Pending, Dead
  <2>5. CASE RetryDue(e)
    BY <1>1, <1>2, <2>5 DEF RetryDue, EventRow, RowInOrder, Stands, Pending, Dead
  <2>6. CASE RecordConsumption(e)
    BY <2>1, <2>6 DEF RecordConsumption
  <2>7. ASSUME NEW w \in Deliverers, MarkPublished(e, w), e \in consumed, event'[e] # event[e]
        PROVE  RowInOrder(e)' /\ Stands(e)
    <3>1. /\ LeasedTo(e, w) /\ consumed' = consumed
          /\ event'[e] = [event[e] EXCEPT !.state = "PUBLISHED", !.owner = NoWorker, !.lease = "none"]
      BY <1>1, <2>7 DEF MarkPublished
    <3>2. /\ event'[e].state = "PUBLISHED" /\ event'[e].lease = "none"
          /\ event'[e].attempts = event[e].attempts
      BY <1>1, <3>1 DEF EventRow
    <3> QED
      BY <1>1, <2>7, <3>1, <3>2 DEF LeasedTo, RowInOrder, Stands, Pending, Dead
  <2>8. ASSUME NEW w \in Deliverers, MarkFailed(e, w), event'[e] # event[e]
        PROVE  RowInOrder(e)' /\ Stands(e)
    <3> DEFINE last == event[e].attempts + 1 >= MaxAttempts[e]
    <3>1. LeasedTo(e, w) /\ event'[e] = FailedRow(event[e], MaxAttempts[e]) /\ consumed' = consumed
      BY <1>1, <2>8 DEF MarkFailed
    <3>2. event'[e] = [event[e] EXCEPT !.attempts = event[e].attempts + 1, !.error = "failed",
                           !.owner = NoWorker, !.lease = "none", !.due = last,
                           !.state = IF last THEN "DEAD" ELSE "PENDING"]
      BY <3>1 DEF FailedRow
    <3> HIDE DEF last
    <3>3. /\ event'[e].state = IF last THEN "DEAD" ELSE "PENDING"
          /\ event'[e].attempts = event[e].attempts + 1
          /\ event'[e].error = "failed" /\ event'[e].lease = "none"
      BY <1>1, <3>2 DEF EventRow
    <3>4. event'[e].state = "DEAD" => event'[e].attempts >= MaxAttempts[e]
      BY <3>3 DEF last
    <3>5. event'[e].state \in {"DEAD", "PENDING"}
      BY <3>3
    <3> QED
      BY <1>1, <3>1, <3>3, <3>4, <3>5 DEF LeasedTo, RowInOrder, Stands, Pending, Dead
  <2> QED
    BY <2>1, <2>2, <2>3, <2>4, <2>5, <2>6, <2>7, <2>8
<1> QED
  BY <1>4, <1>5

\* A statement about several events.
LEMMA BatchStatements ==
    ASSUME QueueTypeOK, EventsInOrder,
           \/ \E B \in SUBSET Events, w \in Deliverers : ClaimEvents(B, w)
           \/ CancelLeasedActionEvents
    PROVE  \A f \in Events : RowInOrder(f)' /\ Stands(f)
<1> SUFFICES ASSUME NEW f \in Events PROVE RowInOrder(f)' /\ Stands(f)
  OBVIOUS
<1>1. event[f] \in EventRow /\ event[f].attempts \in Nat /\ RowInOrder(f)
  BY DEF QueueTypeOK, EventRow, EventsInOrder
<1>2. consumed' = consumed
  BY DEF ClaimEvents, CancelLeasedActionEvents
<1>3. CASE event'[f] = event[f]
  BY <1>1, <1>2, <1>3, SameEventStands
<1>4. ASSUME NEW B \in SUBSET Events, NEW w \in Deliverers, ClaimEvents(B, w), event'[f] # event[f]
      PROVE  RowInOrder(f)' /\ Stands(f)
  <2>1. Pending(f) /\ event'[f] = [event[f] EXCEPT !.owner = w, !.lease = "valid"]
    BY <1>4 DEF ClaimEvents, Claimable
  <2>2. event'[f].state = event[f].state /\ event'[f].attempts = event[f].attempts
    BY <1>1, <2>1 DEF EventRow
  <2> QED
    BY <1>1, <1>2, <2>1, <2>2 DEF RowInOrder, Stands, Pending, Dead
<1>5. ASSUME CancelLeasedActionEvents, event'[f] # event[f]
      PROVE  RowInOrder(f)' /\ Stands(f)
  <2>1. /\ Pending(f) /\ KindOf[f] = "action"
        /\ event'[f] = [event[f] EXCEPT !.state = "DEAD", !.error = "rollback", !.owner = NoWorker,
                                        !.lease = "none"]
    BY <1>5 DEF CancelLeasedActionEvents
  <2>2. /\ event'[f].state = "DEAD" /\ event'[f].error = "rollback" /\ event'[f].lease = "none"
        /\ event'[f].attempts = event[f].attempts
    BY <1>1, <2>1 DEF EventRow
  <2> QED
    BY <1>1, <1>2, <2>1, <2>2 DEF RowInOrder, Stands, Pending, Dead
<1> QED
  BY <1>3, <1>4, <1>5

-----------------------------------------------------------------------------
(* Consumptions.  A worker that is about to publish found or wrote the       *)
(* consumption; one that is about to write it saw the consumer return.       *)

RowConsumed(row) ==
    /\ row.pc = "publish" => row.event \in consumed
    /\ row.pc = "record" => row.event \in handled

ConsumptionsTrue ==
    /\ consumed \subseteq handled
    /\ \A w \in Deliverers : RowConsumed(worker[w])

LEMMA ConsumptionsGrow ==
    ASSUME ConsumptionsTrue, NEW w \in Deliverers, Alone(w), consumed \subseteq consumed', handled \subseteq handled',
           consumed' \subseteq handled', RowConsumed(worker[w])'
    PROVE  ConsumptionsTrue'
BY DEF ConsumptionsTrue, RowConsumed, Alone

LEMMA BatchInOrder ==
    ASSUME OutboxAssumption, DeliveryAssumption, Typed, EventsInOrder, ConsumptionsTrue,
           NEW w \in Deliverers, BatchStep(w)
    PROVE  EventsInOrder' /\ ConsumptionsTrue' /\ \A e \in Events : Stands(e)
<1>1. /\ QueueTypeOK /\ worker[w] \in WorkerRow /\ RowInHand(worker[w])
      /\ RowConsumed(worker[w]) /\ consumed \subseteq handled
  BY DEF Typed, TypeOK, InHand, ConsumptionsTrue
<1>2. ASSUME SameQueue
      PROVE  EventsInOrder' /\ \A e \in Events : Stands(e)
  BY <1>1, <1>2, SameEventStands DEF SameQueue, queueVars, EventsInOrder
<1>3. ASSUME \A e \in Events : RowInOrder(e)' /\ Stands(e)
      PROVE  EventsInOrder' /\ \A e \in Events : Stands(e)
  BY <1>3 DEF EventsInOrder
<1>4. CASE Poll(w) \/ ClaimNothing(w) \/ EndBatch(w) \/ StartConsumer(w) \/ Raises(w)
  <2>1. PICK pc \in {"idle", "polled", "acting", "fail"} : Goto(w, pc)
    BY <1>4 DEF Poll, ClaimNothing, EndBatch, StartConsumer, Raises
  <2>2. SameQueue /\ handled' = handled
    BY <1>4 DEF Poll, ClaimNothing, EndBatch, StartConsumer, Raises
  <2>3. Alone(w) /\ worker'[w].pc = pc
    BY <2>1, GotoMoves
  <2>4. ConsumptionsTrue'
    BY <1>1, <2>2, <2>3, ConsumptionsGrow DEF SameQueue, queueVars, RowConsumed
  <2> QED
    BY <1>2, <2>2, <2>4
<1>5. CASE ConsumerReturns(w)
  <2>1. Alone(w) /\ worker'[w].pc = "record" /\ worker'[w].event = worker[w].event
    BY <1>5, GotoMoves DEF ConsumerReturns
  <2>2. SameQueue /\ handled' = handled \cup {worker[w].event}
    BY <1>5 DEF ConsumerReturns, Return
  <2>3. ConsumptionsTrue'
    BY <1>1, <2>1, <2>2, ConsumptionsGrow DEF SameQueue, queueVars, RowConsumed
  <2> QED
    BY <1>2, <2>2, <2>3
<1>6. CASE Record(w)
  <2>1. Alone(w) /\ worker'[w].pc = "publish" /\ worker'[w].event = worker[w].event
    BY <1>6, GotoMoves DEF Record
  <2>2. /\ RecordConsumption(worker[w].event) /\ handled' = handled
        /\ worker[w].event \in Events /\ worker[w].event \in handled
    BY <1>1, <1>6 DEF Record, At, RowInHand, RowConsumed
  <2>3. ConsumptionsTrue'
    BY <1>1, <2>1, <2>2, ConsumptionsGrow DEF RecordConsumption, RowConsumed
  <2> QED
    BY <1>1, <1>3, <2>2, <2>3, EventStatements
<1>7. CASE Publish(w) \/ Fail(w)
  <2>1. Alone(w) /\ worker'[w].pc = "batch"
    BY <1>7, NextMoves DEF Publish, Fail
  <2>2. /\ worker[w].event \in Events
        /\ \/ MarkPublished(worker[w].event, w) /\ worker[w].event \in consumed
           \/ MarkFailed(worker[w].event, w)
    BY <1>1, <1>7 DEF Publish, Fail, At, RowInHand, RowConsumed
  <2>3. handled' = handled /\ consumed' = consumed
    BY <1>7 DEF Publish, Fail, MarkPublished, MarkFailed
  <2>4. ConsumptionsTrue'
    BY <1>1, <2>1, <2>3, ConsumptionsGrow DEF RowConsumed
  <2> QED
    BY <1>1, <1>3, <2>2, <2>4, EventStatements
<1>8. CASE ClaimBatch(w)
  <2>1. PICK B \in SUBSET Events : ClaimEvents(B, w) /\ Alone(w) /\ worker'[w].pc = "batch"
    BY <1>8, ClaimMoves
  <2>2. handled' = handled /\ consumed' = consumed
    BY <1>8 DEF ClaimBatch, ClaimEvents
  <2>3. ConsumptionsTrue'
    BY <1>1, <2>1, <2>2, ConsumptionsGrow DEF RowConsumed
  <2> QED
    BY <1>1, <1>3, <2>1, <2>3, BatchStatements
<1>9. CASE StartEvent(w) \/ WorkerDies(w)
  <2>1. SameQueue /\ handled' = handled
    BY <1>9 DEF StartEvent, WorkerDies
  <2>2. Alone(w) /\ worker'[w].pc # "record" /\ (worker'[w].pc = "publish" => worker'[w].event \in consumed)
    BY <1>9, StartMoves, DeathMoves
  <2>3. ConsumptionsTrue'
    BY <1>1, <2>1, <2>2, ConsumptionsGrow DEF SameQueue, queueVars, RowConsumed
  <2> QED
    BY <1>2, <2>1, <2>3
<1> QED
  BY <1>4, <1>5, <1>6, <1>7, <1>8, <1>9 DEF BatchStep

LEMMA NotificationInOrder ==
    ASSUME OutboxAssumption, Typed, EventsInOrder, ConsumptionsTrue, NEW w \in Deliverers, NotificationStep(w)
    PROVE  EventsInOrder' /\ ConsumptionsTrue' /\ \A e \in Events : Stands(e)
<1>1. QueueTypeOK /\ consumed \subseteq handled
  BY DEF Typed, TypeOK, ConsumptionsTrue
<1>2. SameQueue
  BY DEF NotificationStep, ReadDispatch, Project, Audit, DecideDispatch, SendAccepted, SendRejected,
     SendUnknown, KeepResult
<1>3. EventsInOrder' /\ \A e \in Events : Stands(e)
  BY <1>1, <1>2, SameEventStands DEF SameQueue, queueVars, EventsInOrder
<1>4. /\ Alone(w) /\ worker'[w].event = worker[w].event
      /\ worker'[w].pc \in NotificationSteps \cup {"record"}
  BY NotificationMoves
<1>5. handled \subseteq handled' /\ (worker'[w].pc = "record" => worker[w].event \in handled')
  <2>1. CASE Audit(w)
    <3>1. CASE worker[w].row.status \in {"QUEUED", "SENDING"}
      BY <2>1, <3>1, GotoMoves DEF Audit
    <3>2. CASE worker[w].row.status \notin {"QUEUED", "SENDING"}
      BY <2>1, <3>2 DEF Audit, Return
    <3> QED
      BY <3>1, <3>2
  <2>2. CASE ~Audit(w)
    <3>1. handled' = handled
      BY <2>2 DEF NotificationStep, ReadDispatch, Project, DecideDispatch, SendAccepted, SendRejected,
         SendUnknown, KeepResult
    <3>2. worker'[w].pc # "record"
      BY <2>2, NotificationMoves
    <3> QED
      BY <3>1, <3>2
  <2> QED
    BY <2>1, <2>2
<1>6. ConsumptionsTrue'
  BY <1>1, <1>2, <1>4, <1>5, ConsumptionsGrow DEF SameQueue, queueVars, RowConsumed, NotificationSteps
<1> QED
  BY <1>3, <1>6

LEMMA NextInOrder ==
    ASSUME OutboxAssumption, DeliveryAssumption, Typed, EventsInOrder, ConsumptionsTrue, [Next]_vars
    PROVE  EventsInOrder' /\ ConsumptionsTrue' /\ \A e \in Events : Stands(e)
<1>1. QueueTypeOK
  BY DEF Typed, TypeOK
<1>2. ASSUME UNCHANGED <<worker, handled, consumed>>
      PROVE  ConsumptionsTrue'
  BY <1>2 DEF ConsumptionsTrue, RowConsumed
<1>3. ASSUME UNCHANGED <<event, consumed>>
      PROVE  EventsInOrder' /\ \A e \in Events : Stands(e)
  BY <1>1, <1>3, SameEventStands DEF EventsInOrder
<1>4. CASE UNCHANGED vars
  BY <1>2, <1>3, <1>4 DEF vars
<1>5. ASSUME NEW e \in Events, Enqueue(e) \/ Replay(e) \/ Lapse(e) \/ Due(e)
      PROVE  EventsInOrder' /\ ConsumptionsTrue' /\ \A f \in Events : Stands(f)
  <2>1. EnqueueEvent(e) \/ ReplayEvent(e) \/ ExpireLease(e) \/ RetryDue(e)
    BY <1>5 DEF Enqueue, Replay, Lapse, Due
  <2>2. UNCHANGED <<worker, handled, consumed>>
    BY <1>5 DEF Enqueue, Replay, Lapse, Due, EnqueueEvent, ReplayEvent, ExpireLease, RetryDue
  <2>3. \A f \in Events : RowInOrder(f)' /\ Stands(f)
    BY <1>1, <2>1, EventStatements
  <2> QED
    BY <1>2, <2>2, <2>3 DEF EventsInOrder
<1>6. CASE Administer
  <2>1. UNCHANGED <<event, consumed>> \/ CancelLeasedActionEvents
    BY <1>6 DEF Administer, Freeze, Promote, Dispose, SetRollout
  <2>2. UNCHANGED <<worker, handled, consumed>>
    BY <1>6, <2>1 DEF Administer, CancelLeasedActionEvents
  <2>3. EventsInOrder' /\ \A f \in Events : Stands(f)
    BY <1>1, <1>3, <2>1, BatchStatements DEF EventsInOrder
  <2> QED
    BY <1>2, <2>2, <2>3
<1> QED
  BY <1>4, <1>5, <1>6, BatchInOrder, NotificationInOrder DEF Next

LEMMA InitInOrder == ASSUME OutboxAssumption PROVE Init => EventsInOrder /\ ConsumptionsTrue
BY DEF Init, QueueInit, Fresh, EventsInOrder, RowInOrder, ConsumptionsTrue, RowConsumed, Pending, Dead

\* An event is published only after some worker's consumer returned and its
\* consumption was written, and is given up only at its attempt limit or by a
\* rollback (process_outbox_batch, mark_failed, cancel_leased_v2_action_events).
THEOREM OutcomesAreExplained ==
    ASSUME OutboxAssumption, DeliveryAssumption PROVE Spec => [](PublishedWasConsumed /\ DeadIsExplained)
<1> DEFINE Inv == Typed /\ EventsInOrder /\ ConsumptionsTrue
<1>1. Init => Inv
  BY InitTyped, InitInOrder
<1>2. Inv /\ [Next]_vars => Inv'
  BY NextTyped, NextInOrder
<1>3. Inv => PublishedWasConsumed /\ DeadIsExplained
  BY DEF EventsInOrder, RowInOrder, ConsumptionsTrue, PublishedWasConsumed, DeadIsExplained
<1> QED
  BY <1>1, <1>2, <1>3, PTL DEF Spec

\* A dead letter is never the fault of a lost lease or of a crash: its attempts
\* are used up, or a rollback cancelled it (mark_failed, replay_event_with_cursor).
THEOREM DeadLettersAreExplained ==
    ASSUME OutboxAssumption, DeliveryAssumption PROVE Spec => []DeadIsExplained
<1>1. PublishedWasConsumed /\ DeadIsExplained => DeadIsExplained
  OBVIOUS
<1> QED
  BY <1>1, OutcomesAreExplained, PTL

\* Replays and late workers do not rewrite what the outbox has decided:
\* publications and consumptions stand, attempts are kept, and without a lease
\* nothing is published (mark_published, replay_event_with_cursor).
THEOREM DecisionsStand ==
    ASSUME OutboxAssumption, DeliveryAssumption PROVE Spec => HistoryStands
<1> DEFINE Inv == Typed /\ EventsInOrder /\ ConsumptionsTrue
<1>1. Init => Inv
  BY InitTyped, InitInOrder
<1>2. Inv /\ [Next]_vars => Inv'
  BY NextTyped, NextInOrder
<1>3. Inv /\ [Next]_vars => [\A e \in Events : Stands(e)]_vars
  BY NextInOrder
<1>4. [\A e \in Events : Stands(e)]_vars =>
        [\A e \in Events :
          /\ event[e].state = "PUBLISHED" => event'[e] = event[e]
          /\ Dead(e) => event'[e].state \in {"DEAD", "PENDING"}
          /\ event'[e].attempts >= event[e].attempts
          /\ event[e].lease # "valid" => event'[e].state # "PUBLISHED" \/ event[e].state = "PUBLISHED"
          /\ e \in consumed => e \in consumed']_vars
  BY DEF Stands
<1> QED
  BY <1>1, <1>2, <1>3, <1>4, PTL DEF Spec, HistoryStands

-----------------------------------------------------------------------------
(* The invariant of the displays.  Records only move on, and a settled one  *)
(* stands.  A view or a row that was read is an older state of the record,  *)
(* or its present one; a settled one is the present one.                    *)

\* Who handles a notification knows that its record exists.
Requested ==
    \A n \in Notifications : dispatch[n].status = "ABSENT" =>
        /\ dispatch[n].version = 0 /\ event[n].state = "ABSENT"
        /\ \A w \in Deliverers : n \notin worker[w].batch /\ worker[w].event # n

Truthful(view, n) ==
    /\ view.version <= dispatch[n].version
    /\ view.status \in Settled => view.version = dispatch[n].version /\ view.status = dispatch[n].status

ViewsAreTrue == \A n \in Notifications : Truthful(shown[n], n) /\ Truthful(audited[n], n)

Verdict(n) ==
    /\ dispatch[n].status \in Settled
    /\ shown[n].status = dispatch[n].status
    /\ dispatch[n].attempt # 0 => audited[n].status = dispatch[n].status

Seen(row, n) ==
    /\ row.status # "ABSENT" /\ row.version <= dispatch[n].version
    /\ row.version = dispatch[n].version \/ row.status \in Settled => row = dispatch[n]

RowSeen(row) ==
    /\ row.pc \in {"project", "audit", "decide"} => Seen(row.row, row.event)
    /\ row.pc = "audit" /\ row.row.status \in Settled => shown[row.event].status = row.row.status
    /\ row.pc = "record" /\ row.event \in Notifications => Verdict(row.event)
    /\ row.pc = "acting" => row.event \notin Notifications

RowsAreSeen == \A w \in Deliverers : RowSeen(worker[w])

DisplayInv == Requested /\ ViewsAreTrue /\ RowsAreSeen /\ ConsumedIsSettled

-----------------------------------------------------------------------------
(* What a step does to a record and its views.                             *)

RecordMoves(n) ==
    \/ dispatch'[n] = dispatch[n]
    \/ /\ dispatch[n].status \notin Settled
       /\ dispatch'[n].version > dispatch[n].version /\ dispatch'[n].status # "ABSENT"

Advances(n) ==
    /\ RecordMoves(n)
    /\ shown[n].status \in Settled => shown'[n].status = shown[n].status
    /\ audited[n].status \in Settled => audited'[n].status = audited[n].status

LEMMA VerdictStands ==
    ASSUME NEW n \in Notifications, Verdict(n), Advances(n) PROVE Verdict(n)'
BY DEF Verdict, Advances, RecordMoves

LEMMA TrueViewStays ==
    ASSUME DispatchTypeOK, DispatchTypeOK', NEW n \in Notifications, NEW view \in Projection,
           Truthful(view, n), RecordMoves(n)
    PROVE  Truthful(view, n)'
<1>1. /\ dispatch[n] \in DispatchRow /\ dispatch'[n] \in DispatchRow
      /\ dispatch[n].version \in Nat /\ dispatch'[n].version \in Nat /\ view.version \in Nat
  BY DEF DispatchTypeOK, DispatchRow, Projection
<1> QED
  BY <1>1 DEF Truthful, RecordMoves

LEMMA SeenRowStays ==
    ASSUME DispatchTypeOK, DispatchTypeOK', NEW row \in WorkerRow,
           row.pc \in {"project", "audit", "decide"} => row.event \in Notifications,
           RowSeen(row), \A n \in Notifications : Advances(n)
    PROVE  RowSeen(row)'
<1>1. CASE row.pc \in {"project", "audit", "decide"}
  <2>1. PICK n \in Notifications : n = row.event
    BY <1>1
  <2>2. PICK r \in DispatchRow : r = row.row
    BY DEF WorkerRow
  <2>3. /\ r.version \in Nat /\ dispatch[n].version \in Nat /\ dispatch'[n].version \in Nat
    BY DEF DispatchTypeOK, DispatchRow
  <2>4. Seen(r, n) /\ RecordMoves(n)
    BY <1>1, <2>1, <2>2 DEF RowSeen, Advances
  <2>5. Seen(r, n)'
    BY <2>3, <2>4 DEF Seen, RecordMoves
  <2>6. row.pc = "audit" /\ r.status \in Settled => shown'[n].status = r.status
    BY <2>1, <2>2 DEF RowSeen, Advances
  <2> QED
    BY <1>1, <2>1, <2>2, <2>5, <2>6 DEF RowSeen
<1>2. CASE row.pc = "record"
  BY <1>2, VerdictStands DEF RowSeen
<1>3. CASE row.pc \notin {"project", "audit", "decide", "record"}
  BY <1>3 DEF RowSeen
<1> QED
  BY <1>1, <1>2, <1>3

\* A pipeline update with a row that was read.
LEMMA ProjectedIsTrue ==
    ASSUME DispatchTypeOK, NEW n \in Notifications, NEW view \in Projection, NEW row \in DispatchRow,
           Truthful(view, n), Seen(row, n)
    PROVE  /\ Truthful(Projected(view, row), n)
           /\ view.status \in Settled => Projected(view, row).status = view.status
           /\ row.status \in Settled => Projected(view, row).status = row.status
<1>1. view.version \in Nat /\ row.version \in Nat /\ dispatch[n].version \in Nat
  BY DEF DispatchTypeOK, DispatchRow, Projection
<1>2. CASE view.version <= row.version
  <2>1. Projected(view, row) = [status |-> ShownAs(row.status), version |-> row.version]
    BY <1>2 DEF Projected
  <2>2. PICK new : new = Projected(view, row)
    OBVIOUS
  <2>3. new.status = ShownAs(row.status) /\ new.version = row.version
    BY <2>1, <2>2
  <2>4. new.status \in Settled => row.status \in Settled /\ new.status = row.status
    BY <2>3 DEF ShownAs, Settled
  <2>5. row.status \in Settled => new.status = row.status
    BY <2>3 DEF ShownAs
  <2>6. Truthful(new, n)
    BY <2>3, <2>4 DEF Truthful, Seen
  <2>7. view.status \in Settled => new.status = view.status
    <3>1. SUFFICES ASSUME view.status \in Settled PROVE new.status = view.status
      OBVIOUS
    <3>2. row = dispatch[n] /\ dispatch[n].status = view.status
      BY <1>1, <1>2, <3>1 DEF Truthful, Seen
    <3> QED
      BY <2>5, <3>1, <3>2
  <2> QED
    BY <2>2, <2>5, <2>6, <2>7
<1>3. CASE ~(view.version <= row.version)
  <2>1. Projected(view, row) = view
    BY <1>3 DEF Projected
  <2>2. row.status \notin Settled
    BY <1>1, <1>3 DEF Truthful, Seen
  <2> QED
    BY <2>1, <2>2
<1> QED
  BY <1>2, <1>3

\* What a step of one worker has to show.
LEMMA DisplayKept ==
    ASSUME Typed, Typed', DisplayInv, NEW w \in Deliverers, Alone(w),
           \A n \in Notifications : Advances(n),
           ViewsAreTrue', RowSeen(worker[w])',
           \A n \in Notifications \cap consumed' : n \in consumed \/ Verdict(n),
           \A n \in Notifications : dispatch[n].status = "ABSENT" =>
               event'[n].state = "ABSENT" /\ n \notin worker'[w].batch /\ worker'[w].event # n
    PROVE  DisplayInv'
<1>1. DispatchTypeOK /\ DispatchTypeOK' /\ worker \in [Deliverers -> WorkerRow]
  BY DEF Typed, TypeOK
<1>2. Requested'
  <2>1. ASSUME NEW n \in Notifications, dispatch'[n].status = "ABSENT"
        PROVE  dispatch'[n] = dispatch[n] /\ dispatch[n].status = "ABSENT"
    BY <2>1 DEF Advances, RecordMoves
  <2> QED
    BY <2>1 DEF DisplayInv, Requested, Alone
<1>3. RowsAreSeen'
  <2>1. ASSUME NEW v \in Deliverers \ {w}
        PROVE  RowSeen(worker[v])'
    <3>1. PICK row \in WorkerRow : row = worker[v]
      BY <1>1
    <3>2. RowSeen(row) /\ worker'[v] = row
      BY <3>1 DEF DisplayInv, RowsAreSeen, Alone
    <3>3. row.pc \in {"project", "audit", "decide"} => row.event \in Notifications
      BY <3>1 DEF Typed, InHand, RowInHand, NotificationSteps
    <3>4. RowSeen(row)'
      BY <1>1, <3>2, <3>3, SeenRowStays
    <3> QED
      BY <3>2, <3>4
  <2> QED
    BY <2>1 DEF RowsAreSeen
<1>4. ConsumedIsSettled'
  <2>1. \A n \in Notifications \cap consumed' : Verdict(n)
    BY DEF DisplayInv, ConsumedIsSettled, Verdict
  <2>2. \A n \in Notifications \cap consumed' : Verdict(n)'
    BY <2>1, VerdictStands
  <2> QED
    BY <2>2 DEF ConsumedIsSettled, Verdict
<1> QED
  BY <1>2, <1>3, <1>4 DEF DisplayInv
-----------------------------------------------------------------------------
(* The steps.                                                              *)

LEMMA StillAdvances ==
    ASSUME UNCHANGED <<dispatch, shown, audited>>
    PROVE  /\ \A n \in Notifications : Advances(n)
           /\ ViewsAreTrue => ViewsAreTrue'
           /\ \A row : RowSeen(row) => RowSeen(row)'
BY DEF Advances, RecordMoves, ViewsAreTrue, Truthful, RowSeen, Seen, Verdict

\* Nobody takes an event in hand that was never enqueued.
LEMMA BatchHands ==
    ASSUME OutboxAssumption, DeliveryAssumption, Typed, NEW w \in Deliverers, BatchStep(w),
           NEW e \in Events, event[e].state = "ABSENT", e \notin worker[w].batch, worker[w].event # e
    PROVE  event'[e].state = "ABSENT" /\ e \notin worker'[w].batch /\ worker'[w].event # e
<1>1. event \in [Events -> EventRow] /\ ~Pending(e)
  BY DEF Typed, TypeOK, QueueTypeOK, Pending
<1>2. e # NoEvent
  BY DEF DeliveryAssumption
<1>3. CASE Poll(w) \/ ClaimNothing(w) \/ EndBatch(w) \/ StartConsumer(w) \/ Raises(w) \/ ConsumerReturns(w)
           \/ Record(w)
  BY <1>3, GotoMoves DEF Poll, ClaimNothing, EndBatch, StartConsumer, Raises, ConsumerReturns, Record,
     SameQueue, queueVars, RecordConsumption
<1>4. CASE Publish(w) \/ Fail(w)
  <2>1. worker'[w].batch = worker[w].batch /\ worker'[w].event = NoEvent
    BY <1>4, NextMoves DEF Publish, Fail
  <2>2. event'[e] = event[e]
    BY <1>1, <1>4 DEF Publish, Fail, MarkPublished, MarkFailed, LeasedTo, Pending
  <2> QED
    BY <1>2, <2>1, <2>2
<1>5. CASE ClaimBatch(w)
  <2>1. PICK B \in SUBSET Events : ClaimEvents(B, w) /\ worker'[w].event = NoEvent /\ worker'[w].batch = B
    BY <1>5, ClaimMoves
  <2>2. e \notin B
    BY <1>1, <2>1 DEF ClaimEvents, Claimable
  <2>3. event'[e] = event[e]
    BY <2>1, <2>2 DEF ClaimEvents
  <2> QED
    BY <1>2, <2>1, <2>2, <2>3
<1>6. CASE StartEvent(w)
  <2>1. event' = event
    BY <1>6 DEF StartEvent, SameQueue, queueVars
  <2> QED
    BY <1>6, <2>1, StartMoves
<1>7. CASE WorkerDies(w)
  <2>1. event' = event
    BY <1>7 DEF WorkerDies, SameQueue, queueVars
  <2> QED
    BY <1>2, <1>7, <2>1, DeathMoves
<1> QED
  BY <1>3, <1>4, <1>5, <1>6, <1>7 DEF BatchStep

LEMMA BatchKeepsDisplay ==
    ASSUME OutboxAssumption, DeliveryAssumption, Typed, DisplayInv, NEW w \in Deliverers, BatchStep(w)
    PROVE  DisplayInv' /\ \A n \in Notifications : Advances(n)
<1>1. Typed'
  BY BatchTyped
<1>2. UNCHANGED <<dispatch, shown, audited>>
  BY DEF BatchStep, Poll, ClaimBatch, ClaimNothing, StartEvent, EndBatch, StartConsumer,
     ConsumerReturns, Record, Publish, Raises, Fail, WorkerDies, SameDispatch, dispatchVars
<1>3. (\A n \in Notifications : Advances(n)) /\ ViewsAreTrue'
  BY <1>2, StillAdvances DEF DisplayInv
<1>4. RowSeen(worker[w])
  BY DEF DisplayInv, RowsAreSeen
<1>5. \A n \in Notifications : dispatch[n].status = "ABSENT" =>
          event'[n].state = "ABSENT" /\ n \notin worker'[w].batch /\ worker'[w].event # n
  <2>1. ASSUME NEW n \in Notifications, dispatch[n].status = "ABSENT"
        PROVE  event'[n].state = "ABSENT" /\ n \notin worker'[w].batch /\ worker'[w].event # n
    <3>1. /\ n \in Events /\ event[n].state = "ABSENT" /\ n \notin worker[w].batch /\ worker[w].event # n
      BY <2>1 DEF DeliveryAssumption, DisplayInv, Requested
    <3> QED
      BY <3>1, BatchHands
  <2> QED
    BY <2>1
<1>6. ASSUME Alone(w), RowSeen(worker[w])', \A n \in Notifications \cap consumed' : n \in consumed \/ Verdict(n)
      PROVE  DisplayInv'
  BY <1>1, <1>3, <1>5, <1>6, DisplayKept
<1>7. ASSUME NEW pc \in Steps, worker'[w].pc = pc, pc \notin {"project", "audit", "decide", "record", "acting"}
      PROVE  RowSeen(worker[w])'
  BY <1>7 DEF RowSeen
<1>8. CASE Poll(w) \/ ClaimNothing(w) \/ EndBatch(w) \/ Raises(w)
  <2>1. PICK pc \in {"idle", "polled", "fail"} : Goto(w, pc)
    BY <1>8 DEF Poll, ClaimNothing, EndBatch, Raises
  <2>2. Alone(w) /\ RowSeen(worker[w])'
    BY <1>7, <2>1, GotoMoves DEF Steps
  <2>3. consumed' = consumed
    BY <1>8 DEF Poll, ClaimNothing, EndBatch, Raises, SameQueue, queueVars
  <2> QED
    BY <1>3, <1>6, <2>2, <2>3
<1>9. CASE StartConsumer(w)
  <2>1. Alone(w) /\ worker'[w].pc = "acting" /\ worker'[w].event = worker[w].event
    BY <1>9, GotoMoves DEF StartConsumer
  <2>2. worker[w].event \notin Notifications
    BY <1>9 DEF StartConsumer, Kind, DeliveryAssumption
  <2>3. RowSeen(worker[w])'
    BY <2>1, <2>2 DEF RowSeen
  <2>4. consumed' = consumed
    BY <1>9 DEF StartConsumer, SameQueue, queueVars
  <2> QED
    BY <1>3, <1>6, <2>1, <2>3, <2>4
<1>10. CASE ConsumerReturns(w)
  <2>1. Alone(w) /\ worker'[w].pc = "record" /\ worker'[w].event = worker[w].event
    BY <1>10, GotoMoves DEF ConsumerReturns
  <2>2. worker[w].event \notin Notifications
    BY <1>4, <1>10 DEF ConsumerReturns, At, RowSeen
  <2>3. RowSeen(worker[w])'
    BY <2>1, <2>2 DEF RowSeen
  <2>4. consumed' = consumed
    BY <1>10 DEF ConsumerReturns, SameQueue, queueVars
  <2> QED
    BY <1>3, <1>6, <2>1, <2>3, <2>4
<1>11. CASE Record(w)
  <2>1. Alone(w) /\ worker'[w].pc = "publish"
    BY <1>11, GotoMoves DEF Record
  <2>2. consumed' = consumed \cup {worker[w].event}
    BY <1>11 DEF Record, RecordConsumption
  <2>3. worker[w].event \in Notifications => Verdict(worker[w].event)
    BY <1>4, <1>11 DEF Record, At, RowSeen
  <2>4. RowSeen(worker[w])'
    BY <1>7, <2>1 DEF Steps
  <2> QED
    BY <1>3, <1>6, <2>1, <2>2, <2>3, <2>4
<1>12. CASE Publish(w) \/ Fail(w) \/ ClaimBatch(w) \/ StartEvent(w) \/ WorkerDies(w)
  <2>1. Alone(w) /\ worker'[w].pc \in {"batch", "fail", "publish", "consume", "idle"}
    BY <1>12, NextMoves, ClaimMoves, StartMoves, DeathMoves DEF Publish, Fail
  <2>2. consumed' = consumed
    BY <1>12 DEF Publish, Fail, ClaimBatch, StartEvent, WorkerDies, MarkPublished, MarkFailed,
       ClaimEvents, SameQueue, queueVars
  <2>3. RowSeen(worker[w])'
    BY <1>7, <2>1 DEF Steps
  <2> QED
    BY <1>3, <1>6, <2>1, <2>2, <2>3
<1> QED
  BY <1>8, <1>9, <1>10, <1>11, <1>12 DEF BatchStep

LEMMA NotificationKeepsDisplay ==
    ASSUME OutboxAssumption, DeliveryAssumption, Typed, DisplayInv, NEW w \in Deliverers, NotificationStep(w)
    PROVE  DisplayInv' /\ \A n \in Notifications : Advances(n)
<1>1. Typed' /\ DispatchTypeOK' /\ DispatchTypeOK
  <2>1. Typed'
    BY NotificationTyped
  <2> QED
    BY <2>1 DEF Typed, TypeOK
<1>2. worker \in [Deliverers -> WorkerRow] /\ worker[w] \in WorkerRow /\ RowInHand(worker[w]) /\ RowSeen(worker[w])
  BY DEF Typed, TypeOK, InHand, DisplayInv, RowsAreSeen
<1>3. /\ Alone(w) /\ worker'[w].event = worker[w].event /\ worker'[w].batch = worker[w].batch
      /\ worker'[w].pc \in NotificationSteps \cup {"record"}
  BY NotificationMoves
<1>4. UNCHANGED <<event, consumed>>
  BY DEF NotificationStep, ReadDispatch, Project, Audit, DecideDispatch, SendAccepted, SendRejected,
     SendUnknown, KeepResult, SameQueue, queueVars
<1>5. PICK n \in Notifications : n = worker[w].event
  <2>1. worker[w].event \in Notifications
    BY <1>2 DEF NotificationStep, ReadDispatch, Project, Audit, DecideDispatch, SendAccepted,
       SendRejected, SendUnknown, KeepResult, At, Kind, RowInHand, NotificationSteps, DeliveryAssumption
  <2> QED
    BY <2>1
<1>6. dispatch[n].status # "ABSENT"
  BY <1>5 DEF DisplayInv, Requested
<1>7. /\ dispatch \in [Notifications -> DispatchRow] /\ dispatch[n] \in DispatchRow
      /\ shown \in [Notifications -> Projection] /\ shown[n] \in Projection
      /\ audited \in [Notifications -> Projection] /\ audited[n] \in Projection
      /\ dispatch[n].version \in Nat
  BY <1>1 DEF DispatchTypeOK, DispatchRow
<1>8. ASSUME \A m \in Notifications : Advances(m), ViewsAreTrue', RowSeen(worker[w])'
      PROVE  DisplayInv' /\ \A m \in Notifications : Advances(m)
  <2>1. \A m \in Notifications : dispatch[m].status = "ABSENT" =>
          event'[m].state = "ABSENT" /\ m \notin worker'[w].batch /\ worker'[w].event # m
    BY <1>3, <1>4 DEF DisplayInv, Requested
  <2> QED
    BY <1>1, <1>3, <1>4, <1>8, <2>1, DisplayKept
<1>9. CASE ReadDispatch(w)
  <2>1. worker'[w].pc = "project" /\ worker'[w].row = dispatch[n] /\ UNCHANGED <<dispatch, shown, audited>>
    BY <1>2, <1>5, <1>9 DEF ReadDispatch, WorkerRow, SameDispatch, dispatchVars
  <2>2. RowSeen(worker[w])'
    BY <1>3, <1>5, <1>6, <1>7, <2>1 DEF RowSeen, Seen
  <2> QED
    BY <1>8, <2>1, <2>2, StillAdvances DEF DisplayInv
\* A pipeline update of either view.
<1>10. ASSUME worker[w].pc \in {"project", "audit"}
       PROVE  /\ Truthful(shown[n], n) /\ Truthful(audited[n], n)
              /\ worker[w].row \in DispatchRow /\ Seen(worker[w].row, n)
  BY <1>2, <1>5, <1>10 DEF DisplayInv, ViewsAreTrue, RowSeen, WorkerRow
<1>11. CASE Project(w)
  <2>1. PICK row \in DispatchRow : row = worker[w].row /\ Seen(row, n)
    BY <1>10, <1>11 DEF Project, At
  <2>2. /\ worker'[w].pc = "audit" /\ worker'[w].row = row
        /\ shown' = [shown EXCEPT ![n] = Projected(shown[n], row)] /\ UNCHANGED <<dispatch, audited>>
    BY <1>5, <1>11, <2>1, GotoMoves DEF Project, ProjectShown
  <2>3. /\ Truthful(Projected(shown[n], row), n)
        /\ shown[n].status \in Settled => Projected(shown[n], row).status = shown[n].status
        /\ row.status \in Settled => Projected(shown[n], row).status = row.status
    BY <1>1, <1>7, <1>10, <1>11, <2>1, ProjectedIsTrue DEF Project, At
  <2>4. shown'[n] = Projected(shown[n], row) /\ \A m \in Notifications \ {n} : shown'[m] = shown[m]
    BY <1>7, <2>2
  <2>5. \A m \in Notifications : Advances(m)
    BY <2>2, <2>3, <2>4 DEF Advances, RecordMoves
  <2>6. ViewsAreTrue'
    BY <2>2, <2>3, <2>4 DEF DisplayInv, ViewsAreTrue, Truthful
  <2>7. RowSeen(worker[w])'
    BY <1>3, <1>5, <2>1, <2>2, <2>3, <2>4 DEF RowSeen, Seen
  <2> QED
    BY <1>8, <2>5, <2>6, <2>7
<1>12. CASE Audit(w)
  <2>1. PICK row \in DispatchRow : row = worker[w].row /\ Seen(row, n)
    BY <1>10, <1>12 DEF Audit, At
  <2>2. /\ ProjectAudited(n, row) /\ worker'[w].row = row
        /\ worker'[w].pc = IF row.status \in {"QUEUED", "SENDING"} THEN "decide" ELSE "record"
    BY <1>5, <1>12, <2>1, GotoMoves DEF Audit
  <2>3. /\ Truthful(Projected(audited[n], row), n)
        /\ audited[n].status \in Settled => Projected(audited[n], row).status = audited[n].status
        /\ row.status \in Settled => Projected(audited[n], row).status = row.status
    BY <1>1, <1>7, <1>10, <1>12, <2>1, ProjectedIsTrue DEF Audit, At
  <2>4. /\ audited'[n] = IF row.attempt # 0 THEN Projected(audited[n], row) ELSE audited[n]
        /\ \A m \in Notifications \ {n} : audited'[m] = audited[m]
        /\ UNCHANGED <<dispatch, shown>>
    BY <1>7, <2>2 DEF ProjectAudited
  <2>5. \A m \in Notifications : Advances(m)
    BY <2>3, <2>4 DEF Advances, RecordMoves
  <2>6. ViewsAreTrue'
    BY <2>3, <2>4 DEF DisplayInv, ViewsAreTrue, Truthful
  <2>7. RowSeen(worker[w])'
    <3>1. CASE row.status \in {"QUEUED", "SENDING"}
      BY <1>3, <1>5, <2>1, <2>2, <2>4, <3>1 DEF RowSeen, Seen
    <3>2. CASE row.status \notin {"QUEUED", "SENDING"}
      <4>1. row.status \in Settled /\ row = dispatch[n]
        BY <2>1, <3>2 DEF DispatchRow, Dispatched, Seen
      <4>2. shown[n].status = row.status
        BY <1>2, <1>5, <1>12, <2>1, <4>1 DEF Audit, At, RowSeen
      <4>3. Verdict(n)'
        BY <2>3, <2>4, <4>1, <4>2 DEF Verdict
      <4> QED
        BY <1>3, <1>5, <2>2, <3>2, <4>3 DEF RowSeen
    <3> QED
      BY <3>1, <3>2
  <2> QED
    BY <1>8, <2>5, <2>6, <2>7
\* The record moves on, and the worker has read its new row.
<1>13. ASSUME UNCHANGED <<shown, audited>>, \A m \in Notifications : RecordMoves(m), RowSeen(worker[w])'
       PROVE  DisplayInv' /\ \A m \in Notifications : Advances(m)
  <2>1. \A m \in Notifications : Advances(m)
    BY <1>13 DEF Advances
  <2>2. ViewsAreTrue'
    <3>1. ASSUME NEW m \in Notifications, NEW view \in Projection, Truthful(view, m)
          PROVE  Truthful(view, m)'
      BY <1>1, <1>13, <3>1, TrueViewStays
    <3>2. ASSUME NEW m \in Notifications
          PROVE  Truthful(shown[m], m)' /\ Truthful(audited[m], m)'
      <4>1. PICK s \in Projection, a \in Projection : s = shown[m] /\ a = audited[m]
        BY <1>7
      <4>2. Truthful(s, m) /\ Truthful(a, m)
        BY <4>1 DEF DisplayInv, ViewsAreTrue
      <4>3. Truthful(s, m)' /\ Truthful(a, m)'
        BY <3>1, <4>2
      <4>4. shown'[m] = s /\ audited'[m] = a
        BY <1>13, <4>1
      <4> QED
        BY <4>3, <4>4
    <3> QED
      BY <3>2 DEF ViewsAreTrue
  <2> QED
    BY <1>8, <1>13, <2>1, <2>2
<1>14. CASE DecideDispatch(w)
  <2>1. PICK authorized \in BOOLEAN, attempt \in {0, dispatch[n].version + 1}, pc \in {"send", "project"} :
          /\ Decide(n, authorized)
          /\ worker' = [worker EXCEPT ![w] = [worker[w] EXCEPT !.row = dispatch'[n], !.attempt = attempt,
                                                               !.pc = pc]]
    BY <1>5, <1>14 DEF DecideDispatch
  <2>2. worker'[w].row = dispatch'[n] /\ worker'[w].pc \in {"send", "project"}
    BY <1>2, <2>1 DEF WorkerRow
  <2>3. /\ UNCHANGED <<shown, audited>> /\ dispatch'[n] = Decided(dispatch[n], authorized)
        /\ \A m \in Notifications \ {n} : dispatch'[m] = dispatch[m]
    BY <1>7, <2>1 DEF Decide
  <2>4. RecordMoves(n)
    <3>1. CASE dispatch[n].status = "QUEUED"
      BY <1>7, <2>3, <3>1 DEF Decided, RecordMoves, Settled
    <3>2. CASE dispatch[n].status = "SENDING"
      <4>1. dispatch'[n] = [dispatch[n] EXCEPT !.status = "NEEDS_REVIEW", !.version = dispatch[n].version + 1]
        BY <2>3, <3>2 DEF Decided
      <4>2. dispatch'[n].status = "NEEDS_REVIEW" /\ dispatch'[n].version = dispatch[n].version + 1
        BY <1>7, <4>1 DEF DispatchRow
      <4> QED
        BY <1>7, <3>2, <4>2 DEF RecordMoves, Settled
    <3>3. CASE dispatch[n].status \notin {"QUEUED", "SENDING"}
      BY <2>3, <3>3 DEF Decided, RecordMoves
    <3> QED
      BY <3>1, <3>2, <3>3
  <2>5. dispatch'[n].status # "ABSENT" /\ dispatch'[n].version \in Nat
    BY <1>1, <1>6, <2>4 DEF RecordMoves, DispatchTypeOK, DispatchRow
  <2>6. RowSeen(worker[w])'
    BY <1>3, <1>5, <2>2, <2>5 DEF RowSeen, Seen
  <2>7. \A m \in Notifications : RecordMoves(m)
    BY <2>3, <2>4 DEF RecordMoves
  <2> QED
    BY <1>13, <2>3, <2>6, <2>7
<1>15. CASE KeepResult(w)
  <2>1. /\ RecordResult(n, worker[w].attempt, worker[w].result)
        /\ worker'[w].row = dispatch'[n] /\ worker'[w].pc = "project"
    BY <1>2, <1>5, <1>15 DEF KeepResult, WorkerRow
  <2>2. UNCHANGED <<shown, audited>> /\ \A m \in Notifications \ {n} : dispatch'[m] = dispatch[m]
    BY <1>7, <2>1 DEF RecordResult
  <2>3. RecordMoves(n)
    <3>1. worker[w].result \in {"SENT", "FAILED", "NEEDS_REVIEW"}
      BY <1>2, <1>15 DEF KeepResult, At, RowInHand
    <3>2. CASE dispatch'[n] # dispatch[n]
      <4>1. /\ dispatch[n].status = "SENDING"
            /\ dispatch'[n] = [dispatch[n] EXCEPT !.status = worker[w].result, !.version = dispatch[n].version + 1]
        BY <1>7, <2>1, <3>2 DEF RecordResult
      <4>2. dispatch'[n].status = worker[w].result /\ dispatch'[n].version = dispatch[n].version + 1
        BY <1>7, <4>1 DEF DispatchRow
      <4> QED
        BY <1>7, <3>1, <4>1, <4>2 DEF RecordMoves, Settled
    <3> QED
      BY <3>2 DEF RecordMoves
  <2>4. dispatch'[n].status # "ABSENT" /\ dispatch'[n].version \in Nat
    BY <1>1, <1>6, <2>3 DEF RecordMoves, DispatchTypeOK, DispatchRow
  <2>5. RowSeen(worker[w])'
    BY <1>3, <1>5, <2>1, <2>4 DEF RowSeen, Seen
  <2>6. \A m \in Notifications : RecordMoves(m)
    BY <2>2, <2>3 DEF RecordMoves
  <2> QED
    BY <1>13, <2>2, <2>5, <2>6
<1>16. CASE SendAccepted(w) \/ SendRejected(w) \/ SendUnknown(w)
  <2>1. UNCHANGED <<dispatch, shown, audited>>
    BY <1>16 DEF SendAccepted, SendRejected, SendUnknown, ProviderAccepts, SameDispatch, dispatchVars
  <2>2. worker'[w].pc \in {"send", "result"}
    <3>1. CASE \E result \in Settled : HaveResult(w, result)
      BY <1>2, <3>1 DEF HaveResult, WorkerRow
    <3>2. CASE At(w, "send") /\ worker' = [worker EXCEPT ![w].rejections = worker[w].rejections + 1]
      BY <1>2, <3>2 DEF At, WorkerRow
    <3> QED
      BY <1>16, <3>1, <3>2 DEF SendAccepted, SendRejected, SendUnknown, Settled
  <2>3. RowSeen(worker[w])'
    BY <2>2 DEF RowSeen
  <2> QED
    BY <1>8, <2>1, <2>3, StillAdvances DEF DisplayInv
<1> QED
  BY <1>9, <1>11, <1>12, <1>14, <1>15, <1>16 DEF NotificationStep
LEMMA NextKeepsDisplay ==
    ASSUME OutboxAssumption, DeliveryAssumption, Typed, DisplayInv, [Next]_vars
    PROVE  DisplayInv' /\ \A n \in Notifications : Advances(n)
<1>1. ASSUME UNCHANGED <<dispatch, shown, audited, worker, consumed>>, Requested'
      PROVE  DisplayInv' /\ \A n \in Notifications : Advances(n)
  BY <1>1, StillAdvances DEF DisplayInv, RowsAreSeen, ConsumedIsSettled
<1>2. CASE UNCHANGED vars
  BY <1>1, <1>2 DEF vars, DisplayInv, Requested
<1>3. ASSUME NEW e \in Events, Replay(e) \/ Lapse(e) \/ Due(e) \/ (Enqueue(e) /\ e \notin Notifications)
      PROVE  DisplayInv' /\ \A n \in Notifications : Advances(n)
  <2>1. UNCHANGED <<dispatch, shown, audited, worker, consumed>>
    BY <1>3 DEF Replay, Lapse, Due, Enqueue, ReplayEvent, ExpireLease, RetryDue, EnqueueEvent,
       SameDispatch, dispatchVars, DeliveryAssumption
  <2>2. event \in [Events -> EventRow]
    BY DEF Typed, TypeOK, QueueTypeOK
  <2>3. \A n \in Notifications : event[n].state = "ABSENT" => event'[n].state = "ABSENT"
    <3>1. ASSUME NEW n \in Notifications, event[n].state = "ABSENT", event'[n] # event[n]
          PROVE  event'[n].state = "ABSENT"
      BY <1>3, <2>2, <3>1 DEF Replay, Lapse, Due, Enqueue, ReplayEvent, Replayable, ExpireLease, RetryDue,
         EnqueueEvent, Pending, EventRow
    <3> QED
      BY <3>1
  <2> QED
    BY <1>1, <2>1, <2>3 DEF DisplayInv, Requested
<1>4. ASSUME NEW e \in Notifications, Enqueue(e)
      PROVE  DisplayInv' /\ \A n \in Notifications : Advances(n)
  <2>1. /\ UNCHANGED <<shown, audited, worker, consumed>> /\ dispatch[e].status = "ABSENT"
        /\ dispatch' = [dispatch EXCEPT ![e] = [status |-> "QUEUED", version |-> 1, attempt |-> 0]]
    BY <1>4 DEF Enqueue, EnqueueEvent, QueueNotification, DeliveryAssumption
  <2>2. dispatch \in [Notifications -> DispatchRow] /\ event \in [Events -> EventRow] /\ Notifications \subseteq Events
    BY DEF Typed, TypeOK, DispatchTypeOK, QueueTypeOK, DeliveryAssumption
  <2>3. dispatch[e].version = 0
    BY <2>1 DEF DisplayInv, Requested
  <2>4. /\ dispatch'[e].status = "QUEUED" /\ dispatch'[e].version = 1
        /\ \A n \in Notifications \ {e} : dispatch'[n] = dispatch[n] /\ event'[n] = event[n]
    BY <1>4, <2>1, <2>2 DEF Enqueue, EnqueueEvent
  <2>5. \A n \in Notifications : RecordMoves(n)
    BY <2>1, <2>3, <2>4 DEF RecordMoves, Settled
  <2>6. \A n \in Notifications : Advances(n)
    BY <2>1, <2>5 DEF Advances
  <2>7. Requested'
    BY <2>1, <2>4 DEF DisplayInv, Requested
  <2>8. DispatchTypeOK /\ DispatchTypeOK' /\ worker \in [Deliverers -> WorkerRow]
    BY NextTyped DEF Typed, TypeOK
  <2>9. ViewsAreTrue'
    <3>1. ASSUME NEW n \in Notifications
          PROVE  Truthful(shown[n], n)' /\ Truthful(audited[n], n)'
      <4>1. PICK s \in Projection, a \in Projection : s = shown[n] /\ a = audited[n]
        BY <2>8 DEF DispatchTypeOK
      <4>2. Truthful(s, n)' /\ Truthful(a, n)'
        BY <2>5, <2>8, <4>1, TrueViewStays DEF DisplayInv, ViewsAreTrue
      <4>3. shown'[n] = s /\ audited'[n] = a
        BY <2>1, <4>1
      <4> QED
        BY <4>2, <4>3
    <3> QED
      BY <3>1 DEF ViewsAreTrue
  <2>10. RowsAreSeen'
    <3>1. ASSUME NEW v \in Deliverers
          PROVE  RowSeen(worker[v])'
      <4>1. PICK row \in WorkerRow : row = worker[v]
        BY <2>8
      <4>2. RowSeen(row) /\ worker'[v] = row
            /\ (row.pc \in {"project", "audit", "decide"} => row.event \in Notifications)
        BY <2>1, <4>1 DEF DisplayInv, RowsAreSeen, Typed, InHand, RowInHand, NotificationSteps
      <4>3. RowSeen(row)'
        BY <2>6, <2>8, <4>2, SeenRowStays
      <4> QED
        BY <4>2, <4>3
    <3> QED
      BY <3>1 DEF RowsAreSeen
  <2>11. ConsumedIsSettled'
    <3>1. \A n \in Notifications \cap consumed' : Verdict(n)'
      BY <2>1, <2>6, VerdictStands DEF DisplayInv, ConsumedIsSettled, Verdict
    <3> QED
      BY <3>1 DEF ConsumedIsSettled, Verdict
  <2> QED
    BY <2>6, <2>7, <2>9, <2>10, <2>11 DEF DisplayInv
<1>5. CASE Administer
  <2>1. UNCHANGED <<dispatch, shown, audited, worker, consumed>>
    BY <1>5 DEF Administer, Freeze, Promote, Dispose, SetRollout, CancelLeasedActionEvents, SameDispatch, dispatchVars
  <2>2. \A n \in Events : event[n].state = "ABSENT" => event'[n].state = "ABSENT"
    BY <1>5 DEF Administer, Freeze, Promote, Dispose, SetRollout, CancelLeasedActionEvents, Pending
  <2> QED
    BY <1>1, <2>1, <2>2 DEF DisplayInv, Requested, DeliveryAssumption
<1> QED
  BY <1>2, <1>3, <1>4, <1>5, BatchKeepsDisplay, NotificationKeepsDisplay DEF Next

LEMMA InitDisplay == ASSUME DeliveryAssumption PROVE Init => DisplayInv
<1> SUFFICES ASSUME Init PROVE DisplayInv
  OBVIOUS
<1>1. Requested
  BY DEF Init, DispatchInit, QueueInit, NoDispatch, Fresh, Requested, DeliveryAssumption
<1>2. ViewsAreTrue
  BY DEF Init, DispatchInit, NoDispatch, ViewsAreTrue, Truthful, Settled
<1>3. RowsAreSeen /\ ConsumedIsSettled
  BY DEF Init, QueueInit, Fresh, RowsAreSeen, RowSeen, ConsumedIsSettled
<1> QED
  BY <1>1, <1>2, <1>3 DEF DisplayInv

\* When a notification's consumption is recorded its record is settled and
\* MongoDB shows that verdict, although nobody will come back to repair it
\* (deliver_notification, process_outbox_batch).
THEOREM VerdictsAreDisplayed ==
    ASSUME OutboxAssumption, DeliveryAssumption PROVE Spec => []ConsumedIsSettled
<1>1. Init => Typed /\ DisplayInv
  BY InitTyped, InitDisplay
<1>2. Typed /\ DisplayInv /\ [Next]_vars => (Typed /\ DisplayInv)'
  BY NextTyped, NextKeepsDisplay
<1>3. DisplayInv => ConsumedIsSettled
  BY DEF DisplayInv
<1> QED
  BY <1>1, <1>2, <1>3, PTL DEF Spec

\* A verdict that MongoDB shows is never replaced, by whichever worker with
\* whatever older row in hand (the version guard of _project).
THEOREM DisplayedVerdictsStand ==
    ASSUME OutboxAssumption, DeliveryAssumption PROVE Spec => ProjectionsAdvance
<1>1. Init => Typed /\ DisplayInv
  BY InitTyped, InitDisplay
<1>2. Typed /\ DisplayInv /\ [Next]_vars => (Typed /\ DisplayInv)'
  BY NextTyped, NextKeepsDisplay
<1>3. Typed /\ DisplayInv /\ [Next]_vars => [\A n \in Notifications : Advances(n)]_vars
  BY NextKeepsDisplay
<1>4. [\A n \in Notifications : Advances(n)]_vars =>
        [\A n \in Notifications :
          /\ shown[n].status \in Settled => shown'[n].status = shown[n].status
          /\ audited[n].status \in Settled => audited'[n].status = audited[n].status]_vars
  BY DEF Advances
<1> QED
  BY <1>1, <1>2, <1>3, <1>4, PTL DEF Spec, ProjectionsAdvance
=============================================================================
