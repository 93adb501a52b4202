---------------------------- MODULE OutboxQueue ----------------------------
(***************************************************************************)
(* The transactional outbox: outbox_events, outbox_consumptions and the    *)
(* statements of domains/outbox/repo.py.  Each statement is one short      *)
(* transaction, so one atomic step.  The database clock is abstract: a     *)
(* lease (locked_by, locked_until) is "valid" until it is "expired", and a *)
(* failed event is not due until its retry delay has passed.               *)
(***************************************************************************)
EXTENDS Naturals, FiniteSets

CONSTANTS
    Events,        \* events that may be enqueued
    KindOf,        \* "action", "notification" or "display": the event's consumer
    Deliverers,    \* delivery workers
    NoWorker,      \* NULL locked_by
    MaxAttempts,   \* attempts of each event before it is dead-lettered
    BatchSize      \* OUTBOX_BATCH_SIZE

Kinds == {"action", "notification", "display"}

ASSUME OutboxAssumption ==
    /\ KindOf \in [Events -> Kinds]
    /\ MaxAttempts \in [Events -> Nat \ {0}]
    /\ BatchSize \in Nat \ {0}
    /\ NoWorker \notin Deliverers

VARIABLES
    event,      \* outbox_events row of each event
    consumed,   \* events in outbox_consumptions (one consumer per event type)
    frozen      \* rollout control state rollback_frozen

queueVars == <<event, consumed, frozen>>

EventStates == {"ABSENT", "PENDING", "PUBLISHED", "DEAD"}
EventRow == [state : EventStates, attempts : Nat, error : {"none", "failed", "rollback"},
             due : BOOLEAN, owner : Deliverers \cup {NoWorker}, lease : {"none", "valid", "expired"}]

QueueTypeOK ==
    /\ event \in [Events -> EventRow]
    /\ consumed \subseteq Events
    /\ frozen \in BOOLEAN

QueueInit ==
    /\ event = [e \in Events |-> [state |-> "ABSENT", attempts |-> 0, error |-> "none",
                                  due |-> FALSE, owner |-> NoWorker, lease |-> "none"]]
    /\ consumed = {}
    /\ frozen = FALSE

Pending(e) == event[e].state = "PENDING"
Dead(e)    == event[e].state = "DEAD"

-----------------------------------------------------------------------------
(* Producers.                                                              *)

\* enqueue_event inside the caller's business transaction.
EnqueueEvent(e) ==
    /\ event[e].state = "ABSENT"
    /\ event' = [event EXCEPT ![e].state = "PENDING", ![e].due = TRUE]
    /\ UNCHANGED <<consumed, frozen>>

-----------------------------------------------------------------------------
(* Delivery workers.                                                       *)

\* Mutant: an expired lease is not taken over.
ClaimableUnleased(e) == Pending(e) /\ event[e].due /\ event[e].lease = "none"

Claimable(e) == Pending(e) /\ event[e].due /\ event[e].lease # "valid"

\* claim_events: SKIP LOCKED passes over rows another claim holds, so a batch
\* may be any of the due events.
ClaimEvents(B, w) ==
    /\ B # {} /\ Cardinality(B) <= BatchSize
    /\ \A e \in B : Claimable(e)
    /\ event' = [e \in Events |-> IF e \in B THEN [event[e] EXCEPT !.owner = w, !.lease = "valid"]
                                             ELSE event[e]]
    /\ UNCHANGED <<consumed, frozen>>

\* Mutant: an owner whose lease ran out still counts.
LeasedToOverdue(e, w) == Pending(e) /\ event[e].owner = w

\* The WHERE clause of mark_published and mark_failed.
LeasedTo(e, w) == Pending(e) /\ event[e].owner = w /\ event[e].lease = "valid"

RecordConsumption(e) ==
    /\ consumed' = consumed \cup {e}
    /\ UNCHANGED <<event, frozen>>

\* Without a lease the statement matches no row.
MarkPublished(e, w) ==
    /\ event' = IF LeasedTo(e, w)
                THEN [event EXCEPT ![e] = [@ EXCEPT !.state = "PUBLISHED", !.owner = NoWorker,
                                                    !.lease = "none"]]
                ELSE event
    /\ UNCHANGED <<consumed, frozen>>

FailedRow(row, limit) ==
    [row EXCEPT !.attempts = @ + 1, !.error = "failed", !.owner = NoWorker, !.lease = "none",
                !.due = row.attempts + 1 >= limit,
                !.state = IF row.attempts + 1 >= limit THEN "DEAD" ELSE "PENDING"]

MarkFailed(e, w) ==
    /\ event' = IF LeasedTo(e, w)
                THEN [event EXCEPT ![e] = FailedRow(@, MaxAttempts[e])] ELSE event
    /\ UNCHANGED <<consumed, frozen>>

-----------------------------------------------------------------------------
(* Administrators.                                                         *)

\* set_rollout_control_state, by a rollback or a promotion.
SetRollout(state) ==
    /\ frozen' = state
    /\ UNCHANGED <<event, consumed>>

\* cancel_leased_v2_action_events: the leased ones, valid or not.
CancelLeasedActionEvents ==
    /\ event' = [e \in Events |->
                    IF KindOf[e] = "action" /\ Pending(e) /\ event[e].owner # NoWorker
                    THEN [event[e] EXCEPT !.state = "DEAD", !.error = "rollback",
                                          !.owner = NoWorker, !.lease = "none"]
                    ELSE event[e]]
    /\ UNCHANGED <<consumed, frozen>>

Replayable(e) ==
    /\ event[e].state \in {"PENDING", "DEAD"}
    /\ event[e].lease # "valid"
    /\ Dead(e) \/ (event[e].attempts > 0 /\ event[e].error # "none")

\* replay_event_with_cursor: attempts and consumptions are kept.
ReplayEvent(e) ==
    /\ Replayable(e)
    /\ event' = [event EXCEPT ![e] = [@ EXCEPT !.state = "PENDING", !.error = "none", !.due = TRUE,
                                               !.owner = NoWorker, !.lease = "none"]]
    /\ UNCHANGED <<consumed, frozen>>

-----------------------------------------------------------------------------
(* The clock.                                                              *)

ExpireLease(e) ==
    /\ event[e].lease = "valid"
    /\ event' = [event EXCEPT ![e].lease = "expired"]
    /\ UNCHANGED <<consumed, frozen>>

RetryDue(e) ==
    /\ Pending(e) /\ ~event[e].due
    /\ event' = [event EXCEPT ![e].due = TRUE]
    /\ UNCHANGED <<consumed, frozen>>
=============================================================================
