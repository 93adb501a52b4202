------------------------ MODULE NotificationDispatch ------------------------
(***************************************************************************)
(* A notification's dispatch record in PostgreSQL, its two projections in  *)
(* MongoDB and the provider that sends it:                                 *)
(* domains/outbox/notification_delivery.py.  Texts, recipients and the     *)
(* 24-hour deduplication key are left out: a request that is a duplicate   *)
(* changes nothing.                                                        *)
(*                                                                         *)
(* attempt_id is a fresh UUID written together with a new version of the   *)
(* row, so the attempt is represented by that version.                     *)
(***************************************************************************)
EXTENDS Naturals

CONSTANTS Notifications    \* notifications that may be requested

VARIABLES
    dispatch,   \* notification_dispatches row of each notification
    shown,      \* Mongo notifications: delivery status and its version
    audited,    \* Mongo notification_deliveries of the row's attempt
    accepted    \* messages that the provider took for each notification

dispatchVars == <<dispatch, shown, audited, accepted>>

Settled    == {"SENT", "FAILED", "CANCELLED", "NEEDS_REVIEW"}
Dispatched == Settled \cup {"ABSENT", "QUEUED", "SENDING"}

DispatchRow == [status : Dispatched, version : Nat, attempt : Nat]
Projection  == [status : Settled \cup {"none", "pending"}, version : Nat]

NoDispatch == [status |-> "ABSENT", version |-> 0, attempt |-> 0]

DispatchTypeOK ==
    /\ dispatch \in [Notifications -> DispatchRow]
    /\ shown \in [Notifications -> Projection]
    /\ audited \in [Notifications -> Projection]
    /\ accepted \in [Notifications -> Nat]

DispatchInit ==
    /\ dispatch = [n \in Notifications |-> NoDispatch]
    /\ shown = [n \in Notifications |-> [status |-> "none", version |-> 0]]
    /\ audited = [n \in Notifications |-> [status |-> "none", version |-> 0]]
    /\ accepted = [n \in Notifications |-> 0]

-----------------------------------------------------------------------------
(* The PostgreSQL transactions.                                            *)

\* queue_notification, in one transaction with its outbox event.
QueueNotification(n) ==
    /\ dispatch[n].status = "ABSENT"
    /\ dispatch' = [dispatch EXCEPT ![n] = [status |-> "QUEUED", version |-> 1, attempt |-> 0]]
    /\ UNCHANGED <<shown, audited, accepted>>

\* Mutant: a record that is already being sent is sent by its next reader.
DecidedResending(row, authorized) ==
    CASE row.status \in {"QUEUED", "SENDING"} -> [status  |-> IF authorized THEN "SENDING" ELSE "CANCELLED",
                                   version |-> row.version + 1, attempt |-> row.version + 1]
      [] OTHER -> row

\* The locked row before the call: an own attempt, a refusal, or the verdict on
\* a predecessor who crossed the boundary of the external call.
Decided(row, authorized) ==
    CASE row.status = "SENDING" -> [row EXCEPT !.status = "NEEDS_REVIEW", !.version = @ + 1]
      [] row.status = "QUEUED"  -> [status  |-> IF authorized THEN "SENDING" ELSE "CANCELLED",
                                    version |-> row.version + 1, attempt |-> row.version + 1]
      [] OTHER -> row

Decide(n, authorized) ==
    /\ dispatch' = [dispatch EXCEPT ![n] = Decided(@, authorized)]
    /\ UNCHANGED <<shown, audited, accepted>>

\* Mutant: the result is written whatever became of the record.
RecordResultAnyway(n, attempt, result) ==
    /\ dispatch' = [dispatch EXCEPT ![n] = [@ EXCEPT !.status = result, !.version = dispatch[n].version + 1]]
    /\ UNCHANGED <<shown, audited, accepted>>

\* The result of the call, if the record still waits for this attempt.
RecordResult(n, attempt, result) ==
    /\ dispatch' = IF dispatch[n].status = "SENDING" /\ dispatch[n].attempt = attempt
                   THEN [dispatch EXCEPT ![n] = [@ EXCEPT !.status = result, !.version = dispatch[n].version + 1]]
                   ELSE dispatch
    /\ UNCHANGED <<shown, audited, accepted>>

-----------------------------------------------------------------------------
(* The projections: a pipeline update that keeps what is newer.            *)

ShownAs(status) == IF status \in Settled THEN status ELSE "pending"

\* Mutant: the version is not compared.
ProjectedUnversioned(view, row) == [status |-> ShownAs(row.status), version |-> row.version]

Projected(view, row) ==
    IF view.version <= row.version THEN [status |-> ShownAs(row.status), version |-> row.version]
                                   ELSE view

ProjectShown(n, row) ==
    /\ shown' = [shown EXCEPT ![n] = Projected(@, row)]
    /\ UNCHANGED <<dispatch, audited, accepted>>

\* Only a record with an attempt has a delivery document.
ProjectAudited(n, row) ==
    /\ audited' = IF row.attempt # 0 THEN [audited EXCEPT ![n] = Projected(@, row)] ELSE audited
    /\ UNCHANGED <<dispatch, shown, accepted>>

-----------------------------------------------------------------------------
(* The provider.                                                           *)

ProviderAccepts(n) ==
    /\ accepted' = [accepted EXCEPT ![n] = @ + 1]
    /\ UNCHANGED <<dispatch, shown, audited>>
=============================================================================
