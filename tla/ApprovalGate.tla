---------------------------- MODULE ApprovalGate ----------------------------
(***************************************************************************)
(* A managed Supervisor run at its approval gate.  The graph proposed the  *)
(* write actions 1..N and interrupts; whoever answers resumes it in a new  *)
(* stream (graphs/agent_supervisor/runtime.py, graph.py), which decides    *)
(* the proposals and performs them one after the other                     *)
(* (domains/sourcing_risk/action_service.py).  The outbox delivers the     *)
(* approved actions as well, but only observes.  Streams die, lose their   *)
(* lease, or fail while the thread of their tool call works on.            *)
(***************************************************************************)
EXTENDS Naturals

CONSTANTS
    N,            \* number of proposed actions
    Bound,        \* those that carry Harness metadata, and so an expiry of their own
    Streams,      \* producers: the one that asks and those that resume
    First,        \* the producer that asks
    MaxCrashes,   \* bound: deaths of a process
    MaxAttempts   \* V2_ACTION_MAX_ATTEMPTS

Proposals == 1..N

ASSUME GateAssumption ==
    /\ N \in Nat \ {0} /\ Bound \subseteq Proposals /\ First \in Streams
    /\ MaxCrashes \in Nat /\ MaxAttempts \in Nat \ {0}

VARIABLES
    run,       \* status of the Agent Run
    exec,      \* its execution row
    ledger,    \* how far the snapshot of the execution row is: "gate" or "decided"
    saver,     \* the LangGraph checkpoint
    card,      \* whether the session has an interrupt row to resume from
    proposal,  \* status of each proposal
    receipt,   \* status of each receipt, "none" without one
    event,     \* the agent.action.approved event of each proposal
    tries,     \* failed deliveries of each event
    stream,    \* the producers
    calls,     \* how often each action's adapter was called
    effect,    \* whether the action took effect
    expired,   \* whether the approvals' 24 hours are over
    crashes    \* deaths so far

vars == <<run, exec, ledger, saver, card, proposal, receipt, event, tries, stream, calls, effect,
          expired, crashes>>

Terminal  == {"COMPLETED", "CANCELLED", "ROLLBACK_FROZEN"}
RunStatus == {"RUNNING", "ACTION_PENDING", "ACTION_EXECUTING", "READY_FOR_REVIEW"} \cup Terminal

Opening == {"read", "examined", "validated", "bound"}
Working == {"gate", "asked", "decide", "act", "save", "checkpoint", "finalize", "failing"}

StreamRow ==
    [pc : {"idle", "gone"} \cup Opening \cup Working, answer : {"none", "approved", "rejected"},
     verdict : {"none", "approved", "rejected", "expired"}, token : Nat, proof : {"none", "gate", "finalize"},
     ledger : {"gate", "decided"}, from : {"gate", "finalize"}, next : 1..(N + 1),
     thread : {"none", "claimed", "did", "raised"}]

TypeOK ==
    /\ run \in RunStatus
    /\ exec \in [state : {"RUNNING", "PAUSED", "SUCCEEDED", "CANCELLED"}, token : Nat, lease : {"held", "over"},
                 proof : {"none", "gate", "finalize"}]
    /\ ledger \in {"gate", "decided"}
    /\ saver \in [at : {"gate", "finalize"}, asked : BOOLEAN, verdict : {"none", "approved", "rejected", "expired"}]
    /\ card \in BOOLEAN /\ expired \in BOOLEAN /\ crashes \in 0..MaxCrashes
    /\ proposal \in [Proposals -> {"pending", "approved", "rejected", "frozen"}]
    /\ receipt \in [Proposals -> {"none", "started", "unknown", "succeeded"}]
    /\ event \in [Proposals -> {"none", "queued", "published", "dead"}]
    /\ tries \in [Proposals -> Nat]
    /\ calls \in [Proposals -> Nat] /\ effect \in [Proposals -> BOOLEAN]
    /\ stream \in [Streams -> StreamRow]

NewStream == [pc |-> "idle", answer |-> "none", verdict |-> "none", token |-> 0, proof |-> "none",
              ledger |-> "gate", from |-> "gate", next |-> 1, thread |-> "none"]

\* build_decision has committed the proposals; the first producer enters the gate.
Init ==
    /\ run = "ACTION_PENDING"
    /\ exec = [state |-> "RUNNING", token |-> 1, lease |-> "held", proof |-> "none"]
    /\ ledger = "gate" /\ saver = [at |-> "gate", asked |-> FALSE, verdict |-> "none"] /\ card = FALSE
    /\ proposal = [p \in Proposals |-> "pending"] /\ receipt = [p \in Proposals |-> "none"]
    /\ event = [p \in Proposals |-> "none"] /\ tries = [p \in Proposals |-> 0]
    /\ calls = [p \in Proposals |-> 0] /\ effect = [p \in Proposals |-> FALSE]
    /\ stream = [a \in Streams |-> IF a = First THEN [NewStream EXCEPT !.pc = "gate", !.token = 1] ELSE NewStream]
    /\ expired = FALSE /\ crashes = 0

At(a, pc)   == stream[a].pc = pc
Goto(a, pc) == stream' = [stream EXCEPT ![a].pc = pc]

\* Mutant: only the execution row is asked.
ActiveByLease(a) == exec.state = "RUNNING" /\ exec.token = stream[a].token /\ exec.lease = "held"

\* require_active
Active(a) == /\ run \notin Terminal
             /\ exec.state = "RUNNING" /\ exec.token = stream[a].token /\ exec.lease = "held"

\* validate_checkpoint: the snapshot's approvals and receipts are the checkpoint's.
Matches(snapshot) == (snapshot = "decided") = (saver.at = "finalize")

runVars    == <<run, exec, ledger, saver, card>>
actionVars == <<proposal, receipt, event, tries, calls, effect>>

-----------------------------------------------------------------------------
(* Resuming: _produce with an answer.                                      *)

\* A claim of the interrupt row runs out, so a second stream may start while the
\* first is still opening.
ReadRecord(a) ==
    /\ At(a, "idle") /\ card
    /\ \E answer \in {"approved", "rejected"} :
          stream' = [stream EXCEPT ![a] = [@ EXCEPT !.pc = "read", !.answer = answer,
                                                    !.proof = exec.proof, !.ledger = ledger]]
    /\ UNCHANGED <<runVars, actionVars, expired, crashes>>

\* A graph that never got to ask is continued instead of answered.
ExamineCheckpoint(a) ==
    /\ At(a, "read")
    /\ Matches(stream[a].ledger) /\ stream[a].proof \in {"none", saver.at}
    /\ stream' = [stream EXCEPT ![a] =
          [@ EXCEPT !.pc = "examined", !.from = saver.at, !.verdict = saver.verdict,
                    !.answer = IF saver.at = "gate" /\ ~saver.asked THEN "none" ELSE stream[a].answer]]
    /\ UNCHANGED <<runVars, actionVars, expired, crashes>>

ValidateApprovals(a) ==
    /\ At(a, "examined")
    /\ \A p \in Proposals : /\ proposal[p] \in {"pending", "approved"}
                            /\ receipt[p] \in {"none", "succeeded"}
                            /\ receipt[p] = "none" => ~expired
    /\ Goto(a, "validated")
    /\ UNCHANGED <<runVars, actionVars, expired, crashes>>

BindRecoveredCheckpoint(a) ==
    /\ At(a, "validated") /\ stream[a].proof = "none"
    /\ exec.state = "PAUSED" /\ exec.proof = "none"
    /\ exec' = [exec EXCEPT !.proof = stream[a].from]
    /\ Goto(a, "bound")
    /\ UNCHANGED <<run, ledger, saver, card, actionVars, expired, crashes>>

Resume(a) ==
    /\ IF At(a, "validated") THEN stream[a].proof # "none" ELSE At(a, "bound")
    /\ run \notin Terminal /\ exec.state = "PAUSED" /\ exec.proof = stream[a].from
    /\ exec' = [exec EXCEPT !.state = "RUNNING", !.token = @ + 1, !.lease = "held"]
    /\ stream' = [stream EXCEPT ![a] = [@ EXCEPT !.pc = stream[a].from, !.token = exec.token + 1]]
    /\ UNCHANGED <<run, ledger, saver, card, actionVars, expired, crashes>>

\* A check fails, or the database does, before the stream has a permit.
Refuse(a) ==
    /\ stream[a].pc \in Opening
    /\ Goto(a, "gone")
    /\ UNCHANGED <<runVars, actionVars, expired, crashes>>

-----------------------------------------------------------------------------
(* The gate: approval_gate and its two commands.                           *)

\* The interrupt is saved ...
Ask(a) ==
    /\ At(a, "gate") /\ stream[a].answer = "none" /\ Active(a)
    /\ saver' = [saver EXCEPT !.asked = TRUE]
    /\ Goto(a, "asked")
    /\ UNCHANGED <<run, exec, ledger, card, actionVars, expired, crashes>>

\* ... and the run waits for an answer.
PauseForApproval(a) ==
    /\ At(a, "asked") /\ Active(a) /\ Matches(ledger)
    /\ exec' = [exec EXCEPT !.state = "PAUSED", !.proof = saver.at]
    /\ run' = "ACTION_PENDING" /\ card' = TRUE
    /\ Goto(a, "gone")
    /\ UNCHANGED <<ledger, saver, actionVars, expired, crashes>>

\* An expired decision fails closed (request_supervisor_approval).
TakeAnswer(a) ==
    /\ At(a, "gate") /\ stream[a].answer # "none" /\ Active(a)
    /\ stream' = [stream EXCEPT ![a] = [@ EXCEPT !.pc = "decide",
                                                 !.verdict = IF expired THEN "expired" ELSE stream[a].answer]]
    /\ UNCHANGED <<runVars, actionVars, expired, crashes>>

Wanted(a) == IF stream[a].verdict = "approved" THEN "approved" ELSE "rejected"

Decided(a) ==
    stream' = [stream EXCEPT ![a] = [@ EXCEPT !.pc = IF stream[a].verdict = "approved" THEN "act" ELSE "save",
                                              !.next = 1]]

\* decide_action_proposals on its first visit ...
DecideProposals(a) ==
    /\ At(a, "decide") /\ Active(a)
    /\ \A p \in Proposals : proposal[p] = "pending"
    /\ stream[a].verdict = "approved" => ~(expired /\ Bound # {})
    /\ run = "ACTION_PENDING"
    /\ run' = IF stream[a].verdict = "approved" THEN "ACTION_EXECUTING" ELSE "READY_FOR_REVIEW"
    /\ proposal' = [p \in Proposals |-> Wanted(a)]
    /\ event' = IF stream[a].verdict = "approved" THEN [p \in Proposals |-> "queued"] ELSE event
    /\ Decided(a)
    /\ UNCHANGED <<exec, ledger, saver, card, receipt, tries, calls, effect, expired, crashes>>

\* Mutant: any earlier decision will do.
DecidedSomehow(a) == \A p \in Proposals : proposal[p] # "pending"

DecidedAlike(a) == \A p \in Proposals : proposal[p] = Wanted(a)

\* ... and when a resumed graph replays the gate with the same decision.
ReplayDecision(a) ==
    /\ At(a, "decide") /\ Active(a)
    /\ DecidedAlike(a)
    /\ Decided(a)
    /\ UNCHANGED <<runVars, actionVars, expired, crashes>>

-----------------------------------------------------------------------------
(* Performing an action: _execute_managed_action, in a thread of its own.  *)

Advanced(a) == [stream[a] EXCEPT !.next = @ + 1, !.thread = "none"]

\* Mutant: a receipt is a receipt.
Receipted(p) == proposal[p] = "approved" /\ receipt[p] # "none"

Performed(p) == proposal[p] = "approved" /\ receipt[p] = "succeeded"

\* Mutant: a started receipt is started again.
MayRestart(p) == proposal[p] = "approved" /\ receipt[p] \in {"none", "started"} /\ (p \in Bound => ~expired)

MayStart(p) == proposal[p] = "approved" /\ receipt[p] = "none" /\ (p \in Bound => ~expired)

\* An action with a receipt is not performed again.
ReturnReceipt(a) ==
    /\ At(a, "act") /\ stream[a].thread = "none" /\ stream[a].next \in Proposals /\ Active(a)
    /\ Performed(stream[a].next)
    /\ stream' = [stream EXCEPT ![a] = Advanced(a)]
    /\ UNCHANGED <<runVars, actionVars, expired, crashes>>

\* The receipt is started in the transaction that checks the permit.
StartReceipt(a) ==
    /\ At(a, "act") /\ stream[a].thread = "none" /\ stream[a].next \in Proposals /\ Active(a)
    /\ MayStart(stream[a].next)
    /\ receipt' = [receipt EXCEPT ![stream[a].next] = "started"]
    /\ stream' = [stream EXCEPT ![a].thread = "claimed"]
    /\ UNCHANGED <<runVars, proposal, event, tries, calls, effect, expired, crashes>>

\* The adapter returns, or raises with or without having had its effect.
CallAdapter(a) ==
    /\ stream[a].thread = "claimed"
    /\ LET p == stream[a].next IN
          /\ calls' = [calls EXCEPT ![p] = @ + 1]
          /\ \E result \in {"did", "raised"} :
                /\ stream' = [stream EXCEPT ![a].thread = result]
                /\ \E happened \in {TRUE, effect[p] \/ result = "did"} :
                      effect' = [effect EXCEPT ![p] = happened]
    /\ UNCHANGED <<runVars, proposal, receipt, event, tries, expired, crashes>>

\* The result is recorded whoever owns the run by now.
RecordReceipt(a) ==
    /\ stream[a].thread = "did"
    /\ receipt' = [receipt EXCEPT ![stream[a].next] = IF @ = "started" THEN "succeeded" ELSE @]
    /\ stream' = [stream EXCEPT ![a] = IF At(a, "act") THEN Advanced(a) ELSE [@ EXCEPT !.thread = "none"]]
    /\ UNCHANGED <<runVars, proposal, event, tries, calls, effect, expired, crashes>>

\* The adapter or the recording raised; marking the receipt may fail as well.
RecordUnknown(a) ==
    /\ stream[a].thread \in {"did", "raised"}
    /\ \E status \in {"started", "unknown"} :
          receipt' = [receipt EXCEPT ![stream[a].next] = IF @ = "started" THEN status ELSE @]
    /\ stream' = [stream EXCEPT ![a] = [@ EXCEPT !.thread = "none",
                                                 !.pc = IF At(a, "act") THEN "failing" ELSE stream[a].pc]]
    /\ UNCHANGED <<runVars, proposal, event, tries, calls, effect, expired, crashes>>

-----------------------------------------------------------------------------
(* The end of the gate and of the run.                                     *)

\* The node's snapshot is committed before its checkpoint is written.
SaveSnapshot(a) ==
    /\ IF At(a, "act") THEN stream[a].next = N + 1 ELSE At(a, "save")
    /\ Active(a)
    /\ ledger' = "decided"
    /\ Goto(a, "checkpoint")
    /\ UNCHANGED <<run, exec, saver, card, actionVars, expired, crashes>>

WriteCheckpoint(a) ==
    /\ At(a, "checkpoint")
    /\ saver' = [saver EXCEPT !.at = "finalize", !.verdict = stream[a].verdict]
    /\ Goto(a, "finalize")
    /\ UNCHANGED <<run, exec, ledger, card, actionVars, expired, crashes>>

Finish(a) ==
    /\ At(a, "finalize") /\ Active(a) /\ Matches(ledger)
    /\ run' = "COMPLETED" /\ exec' = [exec EXCEPT !.state = "SUCCEEDED"] /\ card' = FALSE
    /\ Goto(a, "gone")
    /\ UNCHANGED <<ledger, saver, actionVars, expired, crashes>>

\* Any exception of the stream, a failed heartbeat or a shutdown among them.  The
\* proof is that of the checkpoint it resumed from; a thread is not stopped.
PauseForReview(a) ==
    /\ stream[a].pc \in Working
    /\ IF Active(a)
       THEN /\ exec' = [exec EXCEPT !.state = "PAUSED", !.proof = IF a = First THEN saver.at ELSE stream[a].from]
            /\ run' = "RUNNING" /\ card' = TRUE
       ELSE UNCHANGED <<exec, run, card>>
    /\ Goto(a, "gone")
    /\ UNCHANGED <<ledger, saver, actionVars, expired, crashes>>

-----------------------------------------------------------------------------
(* Everybody else.                                                         *)

StreamDies(a) ==
    /\ crashes < MaxCrashes
    /\ stream[a].pc \notin {"idle", "gone"} \/ stream[a].thread # "none"
    /\ stream' = [stream EXCEPT ![a] = [@ EXCEPT !.pc = "gone", !.thread = "none"]]
    /\ crashes' = crashes + 1
    /\ UNCHANGED <<runVars, actionVars, expired>>

LeaseExpires ==
    /\ exec.state = "RUNNING" /\ exec.lease = "held"
    /\ exec' = [exec EXCEPT !.lease = "over"]
    /\ UNCHANGED <<run, ledger, saver, card, actionVars, stream, expired, crashes>>

ReconcileExpired ==
    /\ run \notin Terminal /\ exec.state = "RUNNING" /\ exec.lease = "over"
    /\ exec' = [exec EXCEPT !.state = "PAUSED", !.token = @ + 1, !.proof = "none"]
    /\ card' = TRUE
    /\ UNCHANGED <<run, ledger, saver, actionVars, stream, expired, crashes>>

Cancel ==
    /\ run \notin Terminal
    /\ run' = "CANCELLED" /\ exec' = [exec EXCEPT !.state = "CANCELLED"] /\ card' = FALSE
    /\ UNCHANGED <<ledger, saver, actionVars, stream, expired, crashes>>

\* A rollback freezes runs and undecided proposals, and cancels events in delivery.
Freeze ==
    /\ run \notin Terminal
    /\ run' = "ROLLBACK_FROZEN"
    /\ proposal' = [p \in Proposals |-> IF proposal[p] = "pending" THEN "frozen" ELSE proposal[p]]
    /\ \E leased \in SUBSET {p \in Proposals : event[p] = "queued"} :
          event' = [p \in Proposals |-> IF p \in leased THEN "dead" ELSE event[p]]
    /\ UNCHANGED <<exec, ledger, saver, card, receipt, tries, calls, effect, stream, expired, crashes>>

Expire ==
    /\ ~expired /\ expired' = TRUE
    /\ UNCHANGED <<runVars, actionVars, stream, crashes>>

\* The outbox delivers without a permit: a recorded receipt is returned ...
DeliverEvent(p) ==
    /\ event[p] = "queued" /\ run # "ROLLBACK_FROZEN"
    /\ Performed(p)
    /\ event' = [event EXCEPT ![p] = "published"]
    /\ UNCHANGED <<runVars, proposal, receipt, tries, stream, calls, effect, expired, crashes>>

\* ... and anything else is refused, until the attempts are used up.
DeliveryRefused(p) ==
    /\ event[p] = "queued" /\ run # "ROLLBACK_FROZEN"
    /\ ~Performed(p)
    /\ tries' = [tries EXCEPT ![p] = @ + 1]
    /\ event' = [event EXCEPT ![p] = IF tries[p] + 1 >= MaxAttempts THEN "dead" ELSE @]
    /\ UNCHANGED <<runVars, proposal, receipt, stream, calls, effect, expired, crashes>>

-----------------------------------------------------------------------------
Open(a)    == ReadRecord(a) \/ ExamineCheckpoint(a) \/ ValidateApprovals(a) \/ BindRecoveredCheckpoint(a)
              \/ Resume(a) \/ Refuse(a)
Gate(a)    == Ask(a) \/ PauseForApproval(a) \/ TakeAnswer(a) \/ DecideProposals(a) \/ ReplayDecision(a)
Perform(a) == ReturnReceipt(a) \/ StartReceipt(a) \/ CallAdapter(a) \/ RecordReceipt(a) \/ RecordUnknown(a)
End(a)     == SaveSnapshot(a) \/ WriteCheckpoint(a) \/ Finish(a) \/ PauseForReview(a) \/ StreamDies(a)

Next ==
    \/ \E a \in Streams : Open(a) \/ Gate(a) \/ Perform(a) \/ End(a)
    \/ \E p \in Proposals : DeliverEvent(p) \/ DeliveryRefused(p)
    \/ LeaseExpires \/ ReconcileExpired \/ Cancel \/ Freeze \/ Expire

Spec == Init /\ [][Next]_vars

-----------------------------------------------------------------------------
(* Properties.                                                             *)

\* However often the gate is resumed, replayed or delivered, an action is called
\* at most once, and only if it was approved (agent_action_receipts).
ActsOnce == \A p \in Proposals : calls[p] <= 1 /\ (calls[p] = 1 => proposal[p] = "approved")

\* What the final answer says is what happened: "approved" means that every action
\* was performed and has its receipt, anything else that none was even tried.
ReportIsTrue ==
    run = "COMPLETED" => IF saver.verdict = "approved"
                         THEN \A p \in Proposals : receipt[p] = "succeeded" /\ effect[p]
                         ELSE \A p \in Proposals : calls[p] = 0

\* The outbox reports an action as delivered only after the graph performed it.
PublishedIsTrue == \A p \in Proposals : event[p] = "published" => receipt[p] = "succeeded" /\ effect[p]

\* At most one action is under way, although a paused stream's thread works on.
OneActionAtATime ==
    \A a, b \in Streams : stream[a].thread # "none" /\ stream[b].thread # "none" => a = b

\* A cancelled, frozen or finished run starts no further action; one that was
\* authorized before is in flight and may end.
EndedStartsNothing ==
    [][\A p \in Proposals : run \in Terminal /\ receipt[p] = "none" => receipt'[p] = "none"]_vars
=============================================================================
