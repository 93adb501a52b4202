-------------------------- MODULE AssessmentLedger --------------------------
(* Risk assessments (domains/risk/assessment_*.py): PostgreSQL holds the      *)
(* ledger of assessments, their frozen manifests and the intent to store      *)
(* evidence; MongoDB holds the evidence itself and the snapshot that is       *)
(* displayed.  Nothing spans both stores.  A call of assess_company collects, *)
(* reserves in PostgreSQL, stages in MongoDB, freezes and commits; consumers  *)
(* of the outbox display what was committed and remove what was given up.     *)
EXTENDS Integers, FiniteSets

CONSTANTS
    Assessments,    \* keys: (run, logical task) or (actor, request)
    Payloads,       \* pieces of evidence a collection may find
    Collectors,     \* threads that execute assess_company
    Consumers,      \* delivery workers
    MaxFence,       \* owners the run is given in turn
    MaxAttempts     \* deliveries of an outbox event

ASSUME LedgerAssumption ==
    MaxFence \in Nat /\ MaxAttempts \in Nat \ {0}

VARIABLES
    ledger,     \* assessment_history
    staging,    \* assessment_payload_staging
    document,   \* MongoDB agent_evidence_payloads
    shown,      \* MongoDB assessment_snapshots and alert_snapshots
    event,      \* outbox events risk.assessment.committed and .reconcile
    run,        \* the Agent Run and its execution permit
    call,       \* local state of a collector
    delivery    \* local state of a consumer

postgres == <<ledger, staging, event, run>>
mongo    == <<document, shown>>
vars     == <<ledger, staging, document, shown, event, run, call, delivery>>

Kinds == {"committed", "reconcile"}

NoCall     == [at |-> "idle"]
NoDelivery == [at |-> "idle"]

-----------------------------------------------------------------------------
(* Permits.  An assessment of a run is written under the run's permit, one    *)
(* made for a request under none (_require_run, require_active).              *)

Holds(fence) == run.open /\ run.held /\ run.fence = fence

MayWrite(c) ==
    LET a == call[c].on IN ledger[a].boundTo = "run" => Holds(call[c].fence)

Collects(c) ==
    LET a == call[c].on
    IN  ledger[a].status = "collecting" /\ ledger[a].token = call[c].token

-----------------------------------------------------------------------------
(* begin_assessment: one transaction.  Its outcomes that change nothing (the  *)
(* assessment is committed, needs a review or is in another's hands) are left *)
(* out: the caller gets the row or an error.                                  *)

Begun(c, a, token, fence) ==
    call' = [call EXCEPT ![c] = [at |-> "collect", on |-> a, token |-> token,
                                 fence |-> fence, found |-> {}, rest |-> {}]]

BeginNew(c, a) ==
    /\ call[c] = NoCall
    /\ ledger[a].status = "none"
    /\ \E b \in {"run", "request"} :
          LET fence == IF b = "run" THEN run.fence ELSE 0
          IN  /\ b = "run" => Holds(fence)
              /\ ledger' = [ledger EXCEPT ![a] =
                    [status |-> "collecting", boundTo |-> b, token |-> 1,
                     fence |-> fence, lease |-> "valid", manifest |-> {}]]
              /\ Begun(c, a, 1, fence)
    /\ UNCHANGED <<staging, event, run, mongo, delivery>>

Expired(a)  == ledger[a].boundTo = "request" /\ ledger[a].lease = "expired"
Outdated(a) == ledger[a].boundTo = "run" /\ Holds(run.fence) /\ ledger[a].fence < run.fence

\* Mutant: nobody is told.
GivenUpSilently(a) ==
    /\ ledger' = [ledger EXCEPT ![a].status = "needs_review"]
    /\ staging' = [staging EXCEPT ![a] = [p \in Payloads |->
          IF staging[a][p].status = "none" THEN staging[a][p]
          ELSE [staging[a][p] EXCEPT !.status = "pending_compensation"]]]
    /\ UNCHANGED event

\* An assessment that is given up: what was reserved is to be removed.
GivenUp(a) ==
    /\ ledger' = [ledger EXCEPT ![a].status = "needs_review"]
    /\ staging' = [staging EXCEPT ![a] = [p \in Payloads |->
          IF staging[a][p].status = "none" THEN staging[a][p]
          ELSE [staging[a][p] EXCEPT !.status = "pending_compensation"]]]
    /\ event' = [event EXCEPT ![a]["reconcile"].state = "pending"]

\* The collector is gone and may have stored evidence: for a run the rows of
\* its reservation tell, for a request the lease alone decides.
BeginAfterLoss(a) ==
    /\ ledger[a].status = "collecting"
    /\ \/ Expired(a)
       \/ Outdated(a) /\ \E p \in Payloads : staging[a][p].status # "none"
    /\ GivenUp(a)
    /\ UNCHANGED <<run, mongo, call, delivery>>

\* The next owner of the run collects anew.
BeginTakeover(c, a) ==
    /\ call[c] = NoCall
    /\ ledger[a].status = "collecting"
    /\ Outdated(a) /\ \A p \in Payloads : staging[a][p].status = "none"
    /\ ledger' = [ledger EXCEPT ![a].token = @ + 1, ![a].fence = run.fence]
    /\ Begun(c, a, ledger[a].token + 1, run.fence)
    /\ UNCHANGED <<staging, event, run, mongo, delivery>>

\* A frozen assessment is finished by whoever asks for it next.
BeginFrozen(c, a) ==
    /\ call[c] = NoCall
    /\ ledger[a].status = "frozen"
    /\ ledger[a].boundTo = "run" => Holds(run.fence)
    /\ call' = [call EXCEPT ![c] = [at |-> "score", on |-> a, token |-> ledger[a].token,
                                    fence |-> run.fence, found |-> ledger[a].manifest,
                                    rest |-> {}]]
    /\ UNCHANGED <<postgres, mongo, delivery>>

-----------------------------------------------------------------------------
(* assess_company after it has acquired the collection.                       *)

Goes(c, at) == call' = [call EXCEPT ![c].at = at]

Collect(c) ==
    /\ call[c].at = "collect"
    /\ \E found \in (SUBSET Payloads) \ {{}} :
          call' = [call EXCEPT ![c].at = "reserve", ![c].found = found]
    /\ UNCHANGED <<postgres, mongo, delivery>>

\* The intent to store precedes the documents.
ReservePayloads(c) ==
    LET a == call[c].on
    IN  /\ call[c].at = "reserve"
        /\ MayWrite(c) /\ Collects(c)
        /\ \A p \in call[c].found : staging[a][p].status = "none"
                                    \/ staging[a][p].owner = call[c].token
        /\ staging' = [staging EXCEPT ![a] = [p \in Payloads |->
              IF p \in call[c].found THEN [owner |-> call[c].token, status |-> "pending"]
              ELSE staging[a][p]]]
        /\ call' = [call EXCEPT ![c].at = "stage", ![c].rest = call[c].found]
        /\ UNCHANGED <<ledger, event, run, mongo, delivery>>

\* stage_raw_payloads: one upsert per document, which no token guards.
StagePayload(c, p) ==
    LET a == call[c].on
    IN  /\ call[c].at = "stage" /\ p \in call[c].rest
        /\ \/ document[a][p].state = "absent"
           \/ document[a][p].owner = call[c].token /\ document[a][p].state # "committed"
        /\ document' = [document EXCEPT ![a][p] = [state |-> "pending", owner |-> call[c].token]]
        /\ call' = [call EXCEPT ![c].rest = @ \ {p}]
        /\ UNCHANGED <<postgres, shown, delivery>>

AllStaged(c) ==
    /\ call[c].at = "stage" /\ call[c].rest = {}
    /\ Goes(c, "check")
    /\ UNCHANGED <<postgres, mongo, delivery>>

\* verify_frozen_payloads
Verified(a, found, token) ==
    \A p \in found : /\ document[a][p].state \in {"pending", "committed"}
                     /\ document[a][p].owner = token

CheckPayloads(c) ==
    /\ call[c].at = "check"
    /\ Goes(c, IF Verified(call[c].on, call[c].found, call[c].token) THEN "freeze" ELSE "abort")
    /\ UNCHANGED <<postgres, mongo, delivery>>

\* Mutant: whoever verified its evidence may freeze, whatever became of the row.
FreezeVerified(c) ==
    LET a == call[c].on
    IN  /\ call[c].at = "freeze"
        /\ MayWrite(c) /\ ledger[a].token = call[c].token
        /\ ledger' = [ledger EXCEPT ![a].status = "frozen", ![a].manifest = call[c].found]
        /\ Goes(c, "score")
        /\ UNCHANGED <<staging, event, run, mongo, delivery>>

FreezeAssessment(c) ==
    LET a == call[c].on
    IN  /\ call[c].at = "freeze"
        /\ MayWrite(c) /\ Collects(c)
        /\ ledger' = [ledger EXCEPT ![a].status = "frozen", ![a].manifest = call[c].found]
        /\ Goes(c, "score")
        /\ UNCHANGED <<staging, event, run, mongo, delivery>>

\* Any exception between collecting and freezing: a provider, a lost
\* acknowledgement, a refused transaction.
CollectionRaises(c) ==
    /\ call[c].at \in {"collect", "reserve", "stage", "check", "freeze"}
    /\ Goes(c, "abort")
    /\ UNCHANGED <<postgres, mongo, delivery>>

\* abort_collection: without effect for one who was replaced.
AbortCollection(c) ==
    /\ call[c].at = "abort"
    /\ IF Collects(c) THEN GivenUp(call[c].on)
                      ELSE UNCHANGED <<ledger, staging, event>>
    /\ call' = [call EXCEPT ![c] = NoCall]
    /\ UNCHANGED <<run, mongo, delivery>>

\* The frozen evidence is read and scored once more.
Score(c) ==
    /\ call[c].at = "score"
    /\ call' = IF Verified(call[c].on, call[c].found, call[c].token)
               THEN [call EXCEPT ![c].at = "commit"] ELSE [call EXCEPT ![c] = NoCall]
    /\ UNCHANGED <<postgres, mongo, delivery>>

\* Result, task receipt and outbox event in one transaction; a second commit
\* finds the same result and changes nothing.
CommitAssessment(c) ==
    LET a == call[c].on
    IN  /\ call[c].at = "commit"
        /\ IF MayWrite(c) /\ ledger[a].status = "frozen" /\ ledger[a].token = call[c].token
           THEN /\ ledger' = [ledger EXCEPT ![a].status = "committed"]
                /\ event' = [event EXCEPT ![a]["committed"].state = "pending"]
           ELSE UNCHANGED <<ledger, event>>
        /\ call' = [call EXCEPT ![c] = NoCall]
        /\ UNCHANGED <<staging, run, mongo, delivery>>

CollectorDies(c) ==
    /\ call[c] # NoCall
    /\ call' = [call EXCEPT ![c] = NoCall]
    /\ UNCHANGED <<postgres, mongo, delivery>>

-----------------------------------------------------------------------------
(* Deliveries of the outbox: at least once, possibly two at a time (a lease   *)
(* that ran out), repeated after a failure until the attempts are used up.    *)

DeliverEvent(d, a, k) ==
    /\ delivery[d] = NoDelivery
    /\ event[a][k].state = "pending"
    /\ delivery' = [delivery EXCEPT ![d] = [at |-> "read", on |-> a, kind |-> k,
                                            rest |-> {}, now |-> {}]]
    /\ UNCHANGED <<postgres, mongo, call>>

Turns(d, at) == delivery' = [delivery EXCEPT ![d].at = at]

\* What the row says decides: display it, remove its evidence, or raise.
ReadAssessment(d) ==
    LET a == delivery[d].on
    IN  /\ delivery[d].at = "read"
        /\ Turns(d, CASE ledger[a].status = "committed" -> "verify"
                      [] ledger[a].status = "needs_review" /\ delivery[d].kind = "reconcile" -> "find"
                      [] OTHER -> "raise")
        /\ UNCHANGED <<postgres, mongo, call>>

\* project_assessment
VerifyPayloads(d) ==
    LET a == delivery[d].on
    IN  /\ delivery[d].at = "verify"
        /\ delivery' = [delivery EXCEPT
              ![d].at = IF Verified(a, ledger[a].manifest, ledger[a].token) THEN "commit" ELSE "raise",
              ![d].rest = ledger[a].manifest]
        /\ UNCHANGED <<postgres, mongo, call>>

\* commit_raw_payloads: a document that cannot be committed raises.
CommitPayload(d, p) ==
    LET a == delivery[d].on
    IN  /\ delivery[d].at = "commit" /\ p \in delivery[d].rest
        /\ IF document[a][p].state \in {"pending", "committed"}
           THEN /\ document' = [document EXCEPT ![a][p].state = "committed"]
                /\ delivery' = [delivery EXCEPT ![d].rest = @ \ {p}]
           ELSE /\ Turns(d, "raise")
                /\ UNCHANGED document
        /\ UNCHANGED <<postgres, shown, call>>

MarkedAs(a, status) ==
    staging' = [staging EXCEPT ![a] = [p \in Payloads |->
        IF staging[a][p].status = "none" THEN staging[a][p]
        ELSE [staging[a][p] EXCEPT !.status = status]]]

\* Mutant: the display does not wait for the evidence.
MarkCommittedEarly(d) ==
    /\ delivery[d].at = "commit"
    /\ MarkedAs(delivery[d].on, "committed")
    /\ Turns(d, "show")
    /\ UNCHANGED <<ledger, event, run, mongo, call>>

MarkCommitted(d) ==
    /\ delivery[d].at = "commit" /\ delivery[d].rest = {}
    /\ MarkedAs(delivery[d].on, "committed")
    /\ Turns(d, "show")
    /\ UNCHANGED <<ledger, event, run, mongo, call>>

\* $setOnInsert: the first document stands.  It goes to the history of
\* assessments and, if it is complete enough, to that of the alerts.
Show(d, at, view, next) ==
    LET a == delivery[d].on
    IN  /\ delivery[d].at = at
        /\ shown' = [shown EXCEPT ![a][view] = IF @ = {} THEN ledger[a].manifest ELSE @]
        /\ Turns(d, next)
        /\ UNCHANGED <<postgres, document, call>>

ShowSnapshot(d)      == Show(d, "show", "snapshot", "show_alert")
ShowAlertSnapshot(d) == Show(d, "show_alert", "alert", "done")

NoAlertSnapshot(d) ==
    /\ delivery[d].at = "show_alert"
    /\ Turns(d, "done")
    /\ UNCHANGED <<postgres, mongo, call>>

-----------------------------------------------------------------------------
(* reconcile_assessment_payloads of an assessment that was given up.          *)

Reserved(a) == {p \in Payloads : staging[a][p].status # "none"}
Stored(a)   == {p \in Payloads : document[a][p].state # "absent"}

FindPayloads(d) ==
    LET a == delivery[d].on
        found == Reserved(a) \cap Stored(a)
        foreign(p) == document[a][p].owner # staging[a][p].owner
                      \/ document[a][p].state = "committed"
    IN  /\ delivery[d].at = "find"
        /\ IF \E p \in found : foreign(p)
           THEN Turns(d, "raise")
           ELSE delivery' = [delivery EXCEPT ![d].at = "compensate", ![d].rest = found]
        /\ UNCHANGED <<postgres, mongo, call>>

MarkForRemoval(d, p) ==
    LET a == delivery[d].on
    IN  /\ delivery[d].at = "compensate" /\ p \in delivery[d].rest
        /\ document' = [document EXCEPT ![a][p].state = IF @ = "pending" THEN "pending_compensation" ELSE @]
        /\ delivery' = [delivery EXCEPT ![d].at = "remove", ![d].now = {p}, ![d].rest = @ \ {p}]
        /\ UNCHANGED <<postgres, shown, call>>

Absent == [state |-> "absent", owner |-> 0]

RemovePayload(d) ==
    LET a == delivery[d].on
    IN  /\ delivery[d].at = "remove"
        /\ document' = [document EXCEPT ![a] = [p \in Payloads |->
              IF p \in delivery[d].now /\ document[a][p].state = "pending_compensation"
              THEN Absent ELSE document[a][p]]]
        /\ Turns(d, "compensate")
        /\ UNCHANGED <<postgres, shown, call>>

\* An exception of the deletion is swallowed.
RemovalFails(d) ==
    /\ delivery[d].at = "remove"
    /\ Turns(d, "compensate")
    /\ UNCHANGED <<postgres, mongo, call>>

LookAgain(d) ==
    LET a == delivery[d].on
    IN  /\ delivery[d].at = "compensate" /\ delivery[d].rest = {}
        /\ Turns(d, IF Reserved(a) \cap Stored(a) = {} THEN "mark" ELSE "raise")
        /\ UNCHANGED <<postgres, mongo, call>>

MarkCompensated(d) ==
    /\ delivery[d].at = "mark"
    /\ MarkedAs(delivery[d].on, "compensated")
    /\ Turns(d, "done")
    /\ UNCHANGED <<ledger, event, run, mongo, call>>

-----------------------------------------------------------------------------
(* How a delivery ends.                                                       *)

PublishEvent(d) ==
    LET a == delivery[d].on  k == delivery[d].kind
    IN  /\ delivery[d].at = "done"
        /\ event' = [event EXCEPT ![a][k].state = "published"]
        /\ delivery' = [delivery EXCEPT ![d] = NoDelivery]
        /\ UNCHANGED <<ledger, staging, run, mongo, call>>

\* The attempt that failed is counted; the last one buries the event.
MarkFailed(d) ==
    LET a == delivery[d].on  k == delivery[d].kind
        tries == event[a][k].tries + 1
    IN  /\ delivery[d].at = "raise"
        /\ event' = IF event[a][k].state # "pending" THEN event
                    ELSE [event EXCEPT ![a][k] =
                            [state |-> IF tries < MaxAttempts THEN "pending" ELSE "dead",
                             tries |-> tries]]
        /\ delivery' = [delivery EXCEPT ![d] = NoDelivery]
        /\ UNCHANGED <<ledger, staging, run, mongo, call>>

\* Either store may refuse any call of a consumer.
ConsumerRaises(d) ==
    /\ delivery[d].at \notin {"idle", "raise", "done"}
    /\ Turns(d, "raise")
    /\ UNCHANGED <<postgres, mongo, call>>

ConsumerDies(d) ==
    /\ delivery[d] # NoDelivery
    /\ delivery' = [delivery EXCEPT ![d] = NoDelivery]
    /\ UNCHANGED <<postgres, mongo, call>>

-----------------------------------------------------------------------------
(* The run around its assessments: its owner loses the lease, another one is  *)
(* given the next token, the run ends.  And the clock of the collection lease *)
(* of a request, which nobody renews.                                         *)

RunLosesOwner ==
    /\ run.held
    /\ run' = [run EXCEPT !.held = FALSE]
    /\ UNCHANGED <<ledger, staging, event, mongo, call, delivery>>

RunChangesOwner ==
    /\ run.open /\ ~run.held /\ run.fence < MaxFence
    /\ run' = [run EXCEPT !.held = TRUE, !.fence = run.fence + 1]
    /\ UNCHANGED <<ledger, staging, event, mongo, call, delivery>>

RunEnds ==
    /\ run.open
    /\ run' = [run EXCEPT !.open = FALSE, !.held = FALSE]
    /\ UNCHANGED <<ledger, staging, event, mongo, call, delivery>>

CollectionLeaseExpires(a) ==
    /\ ledger[a].status = "collecting" /\ ledger[a].lease = "valid"
    /\ ledger[a].boundTo = "request"
    /\ ledger' = [ledger EXCEPT ![a].lease = "expired"]
    /\ UNCHANGED <<staging, event, run, mongo, call, delivery>>

-----------------------------------------------------------------------------

Init ==
    /\ ledger = [a \in Assessments |->
          [status |-> "none", boundTo |-> "run", token |-> 0, fence |-> 0,
           lease |-> "valid", manifest |-> {}]]
    /\ staging = [a \in Assessments |-> [p \in Payloads |-> [owner |-> 0, status |-> "none"]]]
    /\ document = [a \in Assessments |-> [p \in Payloads |-> Absent]]
    /\ shown = [a \in Assessments |-> [v \in {"snapshot", "alert"} |-> {}]]
    /\ event = [a \in Assessments |-> [k \in Kinds |-> [state |-> "none", tries |-> 0]]]
    /\ run = [open |-> TRUE, held |-> TRUE, fence |-> 1]
    /\ call = [c \in Collectors |-> NoCall]
    /\ delivery = [d \in Consumers |-> NoDelivery]

Collecting(c) ==
    \/ \E a \in Assessments : BeginNew(c, a) \/ BeginTakeover(c, a) \/ BeginFrozen(c, a)
    \/ Collect(c) \/ ReservePayloads(c) \/ (\E p \in Payloads : StagePayload(c, p)) \/ AllStaged(c)
    \/ CheckPayloads(c) \/ FreezeAssessment(c) \/ CollectionRaises(c) \/ AbortCollection(c)
    \/ Score(c) \/ CommitAssessment(c) \/ CollectorDies(c)

\* What a delivery does next when no call of it fails.
DeliveryProgress(d) ==
    \/ \E a \in Assessments, k \in Kinds : DeliverEvent(d, a, k)
    \/ ReadAssessment(d)
    \/ VerifyPayloads(d) \/ (\E p \in Payloads : CommitPayload(d, p)) \/ MarkCommitted(d)
    \/ ShowSnapshot(d) \/ ShowAlertSnapshot(d) \/ NoAlertSnapshot(d)
    \/ FindPayloads(d) \/ (\E p \in Payloads : MarkForRemoval(d, p)) \/ RemovePayload(d)
    \/ RemovalFails(d) \/ LookAgain(d) \/ MarkCompensated(d)
    \/ PublishEvent(d) \/ MarkFailed(d)

Environment ==
    \/ RunLosesOwner \/ RunChangesOwner \/ RunEnds
    \/ \E a \in Assessments : BeginAfterLoss(a) \/ CollectionLeaseExpires(a)

Next ==
    \/ \E c \in Collectors : Collecting(c)
    \/ \E d \in Consumers : DeliveryProgress(d) \/ ConsumerRaises(d) \/ ConsumerDies(d)
    \/ Environment

Spec == Init /\ [][Next]_vars

\* Delivery workers poll for ever; callers of assess_company owe nothing.
FairSpec == Spec /\ \A d \in Consumers : WF_vars(DeliveryProgress(d))

-----------------------------------------------------------------------------

TypeOK ==
    /\ ledger \in [Assessments -> [status : {"none", "collecting", "frozen", "committed", "needs_review"},
                                   boundTo : {"run", "request"}, token : Nat, fence : Nat,
                                   lease : {"valid", "expired"}, manifest : SUBSET Payloads]]
    /\ staging \in [Assessments -> [Payloads -> [owner : Nat, status :
          {"none", "pending", "committed", "pending_compensation", "compensated"}]]]
    /\ document \in [Assessments -> [Payloads -> [owner : Nat, state :
          {"absent", "pending", "committed", "pending_compensation"}]]]
    /\ shown \in [Assessments -> [{"snapshot", "alert"} -> SUBSET Payloads]]
    /\ event \in [Assessments -> [Kinds -> [state : {"none", "pending", "published", "dead"},
                                            tries : Nat]]]
    /\ run \in [open : BOOLEAN, held : BOOLEAN, fence : Nat]
    /\ call \in [Collectors -> {NoCall} \cup
          [at : {"collect", "reserve", "stage", "check", "freeze", "abort", "score", "commit"},
           on : Assessments, token : Nat, fence : Nat, found : SUBSET Payloads,
           rest : SUBSET Payloads]]
    /\ delivery \in [Consumers -> {NoDelivery} \cup
          [at : {"read", "verify", "commit", "show", "show_alert", "find", "compensate",
                 "remove", "mark", "done", "raise"},
           on : Assessments, kind : Kinds, rest : SUBSET Payloads, now : SUBSET Payloads]]

\* The two stores agree after any crash.  Every document in MongoDB has its
\* reservation by the same collector in PostgreSQL (reserve_payloads before
\* stage_raw_payloads), and the evidence an assessment was frozen with stays:
\* neither a fenced collector nor the removal of what was given up takes it
\* away (freeze_assessment, compensate_raw_payloads).
Registered == \A a \in Assessments : \A p \in Stored(a) :
    staging[a][p].status # "none" /\ staging[a][p].owner = document[a][p].owner
EvidenceIsKept == \A a \in Assessments : ledger[a].status \in {"frozen", "committed"} =>
    ledger[a].manifest # {} /\ Verified(a, ledger[a].manifest, ledger[a].token)
StoresAgree == Registered /\ EvidenceIsKept

\* What is displayed is what the ledger has committed, evidence included, and
\* both views show the same (project_assessment).
DisplayIsBacked ==
    \A a \in Assessments, v \in {"snapshot", "alert"} : shown[a][v] # {} =>
        /\ ledger[a].status = "committed" /\ shown[a][v] = ledger[a].manifest
        /\ \A p \in shown[a][v] : /\ document[a][p].state = "committed"
                                  /\ staging[a][p].status = "committed"

\* Once consumers stop dying, a committed assessment is displayed and the
\* evidence of one that was given up is removed, or the event is a dead letter
\* for an administrator (assessment_projection.py behind the outbox).
LedgerIsReconciled ==
    (<>[][\A d \in Consumers : ~ConsumerDies(d)]_vars) =>
    \A a \in Assessments :
        /\ ledger[a].status = "committed" ~>
              (shown[a]["snapshot"] # {} \/ event[a]["committed"].state = "dead")
        /\ ledger[a].status = "needs_review" ~>
              (\/ \A p \in Payloads : staging[a][p].status \in {"none", "compensated"}
               \/ event[a]["reconcile"].state = "dead")

\* A reservation that is marked compensated has no document left, as
\* reconcile_assessment_payloads makes sure before it marks it.
CompensatedIsGone ==
    \A a \in Assessments, p \in Payloads :
        staging[a][p].status = "compensated" => document[a][p].state = "absent"
=============================================================================
