--------------------------- MODULE OutboxDelivery ---------------------------
(***************************************************************************)
(* Delivery workers (workers/delivery.py and the API's interval job) that  *)
(* drive OutboxQueue and run the registered consumers, of which            *)
(* deliver_notification is modelled step by step with                      *)
(* NotificationDispatch.  One lease covers a whole batch and is never      *)
(* renewed; a worker may outlive it, die anywhere, or race its successor.  *)
(***************************************************************************)
EXTENDS OutboxQueue, NotificationDispatch

CONSTANTS
    NoEvent,       \* a worker that handles no event
    MaxReplays,    \* bound: replays go on up to this many attempts past the limit
    Rollback       \* whether administrators roll V2 back and forth

ASSUME DeliveryAssumption ==
    /\ Notifications = {e \in Events : KindOf[e] = "notification"}
    /\ NoEvent \notin Events
    /\ MaxReplays \in Nat
    /\ Rollback \in BOOLEAN

VARIABLES
    worker,     \* local state of each delivery worker
    handled     \* history: events whose consumer has returned at least once

vars == <<event, consumed, frozen, dispatch, shown, audited, accepted, worker, handled>>

MAX_PROVIDER_ATTEMPTS == 3

Steps == {"idle", "polled", "batch", "consume", "acting", "project", "audit", "decide", "send", "result",
          "record", "publish", "fail"}

\* row, attempt, result: local variables of deliver_notification; rejections:
\* explicit rejections by the provider so far.
WorkerRow == [pc : Steps, batch : SUBSET Events, event : Events \cup {NoEvent}, row : DispatchRow,
              attempt : Nat, rejections : 0..(MAX_PROVIDER_ATTEMPTS - 1), result : Settled \cup {"none"}]

Fresh == [pc |-> "idle", batch |-> {}, event |-> NoEvent, row |-> NoDispatch, attempt |-> 0,
          rejections |-> 0, result |-> "none"]

TypeOK ==
    /\ QueueTypeOK
    /\ DispatchTypeOK
    /\ worker \in [Deliverers -> WorkerRow]
    /\ handled \subseteq Events

Init ==
    /\ QueueInit
    /\ DispatchInit
    /\ worker = [w \in Deliverers |-> Fresh]
    /\ handled = {}

At(w, pc)      == worker[w].pc = pc
Goto(w, pc)    == worker' = [worker EXCEPT ![w].pc = pc]
SameQueue      == UNCHANGED queueVars
SameDispatch   == UNCHANGED dispatchVars
Kind(w)        == KindOf[worker[w].event]

\* The consumer returned; its consumption is recorded next.
Return(w) == handled' = handled \cup {worker[w].event}

\* What is left of the batch after this event.
NextOfBatch(w) == worker' = [worker EXCEPT ![w] = [Fresh EXCEPT !.pc = "batch", !.batch = worker[w].batch]]

-----------------------------------------------------------------------------
(* process_outbox_batch.                                                   *)

Poll(w) ==
    /\ At(w, "idle") /\ ~frozen
    /\ Goto(w, "polled")
    /\ SameQueue /\ SameDispatch /\ UNCHANGED handled

ClaimBatch(w) ==
    /\ At(w, "polled")
    /\ \E B \in SUBSET Events :
          /\ ClaimEvents(B, w)
          /\ worker' = [worker EXCEPT ![w] = [Fresh EXCEPT !.pc = "batch", !.batch = B]]
    /\ SameDispatch /\ UNCHANGED handled

ClaimNothing(w) ==
    /\ At(w, "polled")
    /\ \A e \in Events : ~Claimable(e)
    /\ Goto(w, "idle")
    /\ SameQueue /\ SameDispatch /\ UNCHANGED handled

\* require_v2_execution, then is_consumed.
StartEvent(w) ==
    /\ At(w, "batch")
    /\ \E e \in worker[w].batch :
          worker' = [worker EXCEPT ![w] = [@ EXCEPT !.batch = worker[w].batch \ {e}, !.event = e,
              !.pc = CASE KindOf[e] = "action" /\ frozen -> "fail"
                       [] e \in consumed                 -> "publish"
                       [] OTHER                          -> "consume"]]
    /\ SameQueue /\ SameDispatch /\ UNCHANGED handled

EndBatch(w) ==
    /\ At(w, "batch") /\ worker[w].batch = {}
    /\ Goto(w, "idle")
    /\ SameQueue /\ SameDispatch /\ UNCHANGED handled

\* Every consumer but deliver_notification.  The action consumer asks for the
\* rollout state once more, and acts on the answer later.
StartConsumer(w) ==
    /\ At(w, "consume") /\ Kind(w) # "notification"
    /\ ~(Kind(w) = "action" /\ frozen)
    /\ Goto(w, "acting")
    /\ SameQueue /\ SameDispatch /\ UNCHANGED handled

ConsumerReturns(w) ==
    /\ At(w, "acting")
    /\ Return(w)
    /\ Goto(w, "record")
    /\ SameQueue /\ SameDispatch

Record(w) ==
    /\ At(w, "record")
    /\ RecordConsumption(worker[w].event)
    /\ Goto(w, "publish")
    /\ SameDispatch /\ UNCHANGED handled

Publish(w) ==
    /\ At(w, "publish")
    /\ MarkPublished(worker[w].event, w)
    /\ NextOfBatch(w)
    /\ SameDispatch /\ UNCHANGED handled

\* Mutant: an exception of the consumer is swallowed.
RaisesUnnoticed(w) ==
    /\ \/ worker[w].pc \in {"consume", "acting", "project", "audit", "decide", "result", "record", "publish"}
       \/ At(w, "send") /\ worker[w].rejections = 0
    /\ Goto(w, "publish")
    /\ SameQueue /\ SameDispatch /\ UNCHANGED handled

\* An exception in the consumer or in a statement around it.  A commit whose
\* acknowledgement is lost raises after the transaction took effect, so the
\* SENDING record may raise before the provider is called; around the call
\* itself every exception is caught.
Raises(w) ==
    /\ \/ worker[w].pc \in {"consume", "acting", "project", "audit", "decide", "result", "record", "publish"}
       \/ At(w, "send") /\ worker[w].rejections = 0
    /\ Goto(w, "fail")
    /\ SameQueue /\ SameDispatch /\ UNCHANGED handled

Fail(w) ==
    /\ At(w, "fail")
    /\ MarkFailed(worker[w].event, w)
    /\ NextOfBatch(w)
    /\ SameDispatch /\ UNCHANGED handled

\* The process ends, or mark_failed itself raises and the batch is dropped.
\* The next process, or the next poll, starts with nothing in hand.
WorkerDies(w) ==
    /\ ~At(w, "idle")
    /\ worker' = [worker EXCEPT ![w] = Fresh]
    /\ SameQueue /\ SameDispatch /\ UNCHANGED handled

BatchStep(w) ==
    \/ Poll(w) \/ ClaimBatch(w) \/ ClaimNothing(w) \/ StartEvent(w) \/ EndBatch(w)
    \/ StartConsumer(w) \/ ConsumerReturns(w) \/ Record(w) \/ Publish(w) \/ Raises(w) \/ Fail(w) \/ WorkerDies(w)

-----------------------------------------------------------------------------
(* deliver_notification.                                                   *)

ReadDispatch(w) ==
    /\ At(w, "consume") /\ Kind(w) = "notification"
    /\ worker' = [worker EXCEPT ![w] = [@ EXCEPT !.pc = "project", !.row = dispatch[worker[w].event]]]
    /\ SameQueue /\ SameDispatch /\ UNCHANGED handled

Project(w) ==
    /\ At(w, "project")
    /\ ProjectShown(worker[w].event, worker[w].row)
    /\ Goto(w, "audit")
    /\ SameQueue /\ UNCHANGED handled

\* The delivery document, and on to the decision if the record is still open.
Audit(w) ==
    /\ At(w, "audit")
    /\ ProjectAudited(worker[w].event, worker[w].row)
    /\ IF worker[w].row.status \in {"QUEUED", "SENDING"}
       THEN Goto(w, "decide") /\ UNCHANGED handled
       ELSE Goto(w, "record") /\ Return(w)
    /\ SameQueue

\* The recipient is looked up only for a record that was read as QUEUED.
DecideDispatch(w) ==
    /\ At(w, "decide")
    /\ \E authorized \in IF worker[w].row.status = "QUEUED" THEN BOOLEAN ELSE {FALSE} :
          LET n       == worker[w].event
              attempt == dispatch[n].version + 1    \* uuid4()
              mine    == dispatch'[n].status = "SENDING" /\ dispatch'[n].attempt = attempt
          IN /\ Decide(n, authorized)
             /\ worker' = [worker EXCEPT ![w] = [@ EXCEPT
                    !.row     = dispatch'[n],
                    !.attempt = IF mine THEN attempt ELSE 0,
                    !.pc      = IF mine THEN "send" ELSE "project"]]
    /\ SameQueue /\ UNCHANGED handled

HaveResult(w, result) ==
    worker' = [worker EXCEPT ![w] = [@ EXCEPT !.pc = "result", !.result = result]]

SendAccepted(w) ==
    /\ At(w, "send")
    /\ ProviderAccepts(worker[w].event)
    /\ HaveResult(w, "SENT")
    /\ SameQueue /\ UNCHANGED handled

\* An explicit rejection is retried at once, three times in all.
SendRejected(w) ==
    /\ At(w, "send")
    /\ IF worker[w].rejections + 1 = MAX_PROVIDER_ATTEMPTS
       THEN HaveResult(w, "FAILED")
       ELSE worker' = [worker EXCEPT ![w].rejections = @ + 1]
    /\ SameQueue /\ SameDispatch /\ UNCHANGED handled

\* Mutant: an unknown result is reported as a rejection.
SendUnknownFails(w) ==
    /\ At(w, "send")
    /\ ProviderAccepts(worker[w].event) \/ SameDispatch
    /\ HaveResult(w, "FAILED")
    /\ SameQueue /\ UNCHANGED handled

\* A timeout or a server error: the message may have been taken or not.
SendUnknown(w) ==
    /\ At(w, "send")
    /\ ProviderAccepts(worker[w].event) \/ SameDispatch
    /\ HaveResult(w, "NEEDS_REVIEW")
    /\ SameQueue /\ UNCHANGED handled

KeepResult(w) ==
    /\ At(w, "result")
    /\ LET n == worker[w].event IN
          /\ RecordResult(n, worker[w].attempt, worker[w].result)
          /\ worker' = [worker EXCEPT ![w] = [@ EXCEPT !.pc = "project", !.row = dispatch'[n]]]
    /\ SameQueue /\ UNCHANGED handled

NotificationStep(w) ==
    \/ ReadDispatch(w) \/ Project(w) \/ Audit(w) \/ DecideDispatch(w)
    \/ SendAccepted(w) \/ SendRejected(w) \/ SendUnknown(w) \/ KeepResult(w)

-----------------------------------------------------------------------------
(* Everybody else.                                                         *)

Enqueue(e) ==
    /\ EnqueueEvent(e)
    /\ IF KindOf[e] = "notification" THEN QueueNotification(e) ELSE SameDispatch
    /\ UNCHANGED <<worker, handled>>

Replay(e) ==
    /\ event[e].attempts < MaxAttempts[e] + MaxReplays
    /\ ReplayEvent(e)
    /\ SameDispatch /\ UNCHANGED <<worker, handled>>

\* rollback_rollout writes the control state first, then disposes of the work
\* in flight; a promotion unfreezes.
Freeze     == Rollback /\ SetRollout(TRUE)
Promote    == Rollback /\ SetRollout(FALSE)
Dispose    == frozen /\ CancelLeasedActionEvents
Administer == (Freeze \/ Promote \/ Dispose) /\ SameDispatch /\ UNCHANGED <<worker, handled>>

Lapse(e) == ExpireLease(e) /\ SameDispatch /\ UNCHANGED <<worker, handled>>
Due(e)   == RetryDue(e) /\ SameDispatch /\ UNCHANGED <<worker, handled>>

Next ==
    \/ \E w \in Deliverers : BatchStep(w) \/ NotificationStep(w)
    \/ \E e \in Events : Enqueue(e) \/ Replay(e) \/ Lapse(e) \/ Due(e)
    \/ Administer

Spec == Init /\ [][Next]_vars

-----------------------------------------------------------------------------
(* Safety.                                                                 *)

\* The provider takes a notification at most once, whatever leases overlap,
\* whoever dies around the call and however often the event is delivered again
\* (the SENDING record is written before the call and never sent twice).
SentOnce == \A n \in Notifications : accepted[n] <= 1

\* A receipt says no more than what happened: SENT means taken, FAILED,
\* CANCELLED and QUEUED mean not taken; everything doubtful is NEEDS_REVIEW.
ReceiptsAreTrue ==
    \A n \in Notifications :
        /\ dispatch[n].status = "SENT" => accepted[n] = 1
        /\ dispatch[n].status \in {"QUEUED", "FAILED", "CANCELLED"} => accepted[n] = 0

\* Once a consumption is recorded nobody comes back to the notification, so by
\* then the record is settled and MongoDB shows its verdict in both projections,
\* late writers with older rows notwithstanding (deliver_notification's paths).
ConsumedIsSettled ==
    \A n \in Notifications \cap consumed :
        /\ dispatch[n].status \in Settled
        /\ shown[n].status = dispatch[n].status
        /\ dispatch[n].attempt # 0 => audited[n].status = dispatch[n].status

\* At least once: an event is published only after its consumer returned and
\* its consumption was recorded, by whichever worker.
PublishedWasConsumed ==
    \A e \in Events : event[e].state = "PUBLISHED" => e \in consumed /\ e \in handled

\* An event is given up only at its attempt limit, or by a rollback.
DeadIsExplained ==
    \A e \in Events : Dead(e) =>
        \/ event[e].error = "failed" /\ event[e].attempts >= MaxAttempts[e]
        \/ event[e].error = "rollback" /\ KindOf[e] = "action"

-----------------------------------------------------------------------------
(* What a step may never do.                                               *)

\* Delivery history is never rewritten: a published event stays published, a
\* dead one comes back only through the queue, attempts and consumptions are
\* kept by every replay (replay_event_with_cursor), and a worker that lost its
\* lease decides nothing any more.
HistoryStands ==
    [][\A e \in Events :
          /\ event[e].state = "PUBLISHED" => event'[e] = event[e]
          /\ Dead(e) => event'[e].state \in {"DEAD", "PENDING"}
          /\ event'[e].attempts >= event[e].attempts
          /\ event[e].lease # "valid" => event'[e].state # "PUBLISHED" \/ event[e].state = "PUBLISHED"
          /\ e \in consumed => e \in consumed']_vars

\* What MongoDB shows never goes back: a settled verdict stays as it is.
ProjectionsAdvance ==
    [][\A n \in Notifications :
          /\ shown[n].status \in Settled => shown'[n].status = shown[n].status
          /\ audited[n].status \in Settled => audited'[n].status = audited[n].status]_vars

-----------------------------------------------------------------------------
(* Liveness.                                                               *)

\* The worker polls every few seconds and works through its batch; calls have
\* timeouts; retry delays and leases that nobody holds run out.
Holds(w, e) == event[e].owner = w /\ (e \in worker[w].batch \/ worker[w].event = e)
Progress(w) ==
    \/ Poll(w) \/ ClaimBatch(w) \/ ClaimNothing(w) \/ StartEvent(w) \/ EndBatch(w) \/ Record(w)
    \/ Publish(w) \/ Fail(w) \/ StartConsumer(w) \/ ConsumerReturns(w) \/ Raises(w) \/ NotificationStep(w)
Fairness ==
    /\ \A w \in Deliverers : WF_vars(Progress(w))
    /\ \A e \in Events : /\ WF_vars(Due(e))
                         /\ WF_vars(Lapse(e) /\ \A w \in Deliverers : ~Holds(w, e))

FairSpec == Spec /\ Fairness

\* A crash with work in hand (one that looks like the end of a batch is none), or
\* a batch that takes longer than its lease.
Fault == \/ \E w \in Deliverers : WorkerDies(w) /\ ~EndBatch(w) /\ ~ClaimNothing(w)
         \/ \E e \in Events : Lapse(e) /\ \E w \in Deliverers : Holds(w, e)

\* After any number of crashes and overrun leases, once they stop every event is
\* published or dead-lettered: failing consumers use up their attempts, and
\* what a crashed worker leased is taken over.
EventsSettle ==
    <>[][~Fault]_vars =>
        \A e \in Events : Pending(e) ~> event[e].state \in {"PUBLISHED", "DEAD"}
=============================================================================
