---------------------------- MODULE HarnessLoop ----------------------------
(***************************************************************************)
(* One harness run (graphs/harness/graph.py) and its recovery              *)
(* (graphs/checkpoint_recovery.py): the plan, the waves of tool calls      *)
(* under the budget, the evidence that decides whether to ask a fallback,  *)
(* and the answer.  A node commits its snapshot to PostgreSQL and hands    *)
(* its state to the graph's saver, which writes it in the background;      *)
(* every tool call and tool result is committed as an event of its own.    *)
(* An owner that dies or loses its lease is followed by one that puts the  *)
(* state together from the three.  Tools, saver and clock are external.    *)
(***************************************************************************)
EXTENDS Naturals, FiniteSets, Sequences, SequencesExt

CONSTANTS
    Requests,       \* current_task: names, dims, trend, compare, news
    Kinds,          \* what a tool may answer
    MaxToolCalls, MaxParallel, MaxRounds,   \* ExecutionBudget
    MaxCrashes,     \* bound: owners that are lost
    MaxLag,         \* bound: checkpoints the saver may be behind
    None

AllKinds == {"supported", "synthetic", "unfounded", "empty", "failed"}

ASSUME HarnessAssumption ==
    /\ \A rq \in Requests : /\ rq.names \in Seq(ToSet(rq.names))
                            /\ rq.dims \in Seq({"risk", "financial", "sentiment"})
    /\ Kinds \subseteq AllKinds
    /\ {MaxToolCalls, MaxParallel, MaxLag} \subseteq Nat \ {0}
    /\ {MaxRounds, MaxCrashes} \subseteq Nat

VARIABLES
    request,    \* the task of the run
    pc,         \* where its owner is
    st,         \* the owner's HarnessState
    wave,       \* the calls of the current wave
    stop,       \* stop_reason of the running loop
    late,       \* max_duration_seconds have passed since started_at
    calls,      \* tool_call events per task
    results,    \* tool_result event of a task
    ledger,     \* execution snapshot in PostgreSQL
    saved,      \* latest checkpoint of the saver
    puts,       \* checkpoints it has still to write
    crashes

vars == <<request, pc, st, wave, stop, late, calls, results, ledger, saved, puts, crashes>>
durable == <<calls, results, ledger, saved, puts>>

-----------------------------------------------------------------------------
(* The plan. *)

ToolOf(dim) ==
    CASE dim = "risk" -> "assess_risk"
      [] dim = "financial" -> "query_financials"
      [] dim = "sentiment" -> "sentiment_analysis"

Task(entity, tool, dim, required, needs, resource, source) ==
    [id |-> <<entity, tool, dim>>, entity |-> entity, tool |-> tool, dim |-> dim,
     required |-> required, needs |-> needs, resource |-> resource, source |-> source]

\* One task at a time per supplier, except where a provider has a queue of its own.
Own(entity) == <<entity, "own">>

TasksFor(names, Of(_)) == [i \in 1..Len(names) |-> Of(names[i])]
Ids(tasks) == {t.id : t \in ToSet(tasks)}
ToolsIn(tasks) == {t.tool : t \in ToSet(tasks)}

\* The supplier matrix: one task per supplier and dimension.
Matrix(rq) == FlattenSeq(TasksFor(rq.names, LAMBDA n :
    TasksFor(rq.dims, LAMBDA d : Task(n, ToolOf(d), d, d # "sentiment", {}, Own(n), None))))

WithTrend(rq, tasks) == IF ~rq.trend THEN tasks ELSE
    tasks \o TasksFor(rq.names, LAMBDA n :
        Task(n, "analyze_trend", "risk_trend", TRUE, {t.id : t \in {u \in ToSet(tasks) : u.entity = n}}, Own(n), None))

WithComparison(rq, tasks) == IF ~(rq.compare /\ Len(rq.names) >= 2) THEN tasks ELSE
    Append(tasks, Task("all", "compare_companies", "risk_comparison", TRUE, Ids(tasks), Own("all"), None))

\* A question for news asks the sentiment tool and, beside it, the external provider.
WithSentiment(rq, tasks) == IF ~rq.news \/ "sentiment_analysis" \in ToolsIn(tasks) THEN tasks ELSE
    tasks \o TasksFor(rq.names, LAMBDA n : Task(n, "sentiment_analysis", "sentiment", TRUE, {}, Own(n), None))

WithNews(rq, tasks) == IF ~rq.news THEN tasks ELSE
    tasks \o TasksFor(rq.names, LAMBDA n :
        Task(n, "lookup_company_news", "sentiment", TRUE, {}, <<n, "news">>, None))

Plan(rq) == WithNews(rq, WithSentiment(rq, WithComparison(rq, WithTrend(rq, Matrix(rq)))))

\* The tasks of a list that are in this set, in the order of the list.
Those(tasks, wanted) ==
    LET those[i \in 0..Len(tasks)] ==
            IF i = 0 THEN <<>>
            ELSE IF tasks[i] \in wanted THEN Append(those[i - 1], tasks[i]) ELSE those[i - 1]
    IN  those[Len(tasks)]

\* One fallback query per required dimension whose fallback tool is not planned yet.
FallbackOf == [risk |-> <<"query_financials", "financial">>, financial |-> <<"query_financials", "financial">>,
               risk_trend |-> <<"analyze_trend", "risk_trend">>, sentiment |-> <<"sentiment_analysis", "sentiment">>]

Fallbacks(tasks) ==
    LET uncovered == {t \in ToSet(tasks) :
            t.required /\ t.dim \in DOMAIN FallbackOf /\ FallbackOf[t.dim][1] \notin ToolsIn(tasks)}
        fallback(t) == LET f == FallbackOf[t.dim] IN
            Task(t.entity, f[1], f[2], TRUE, {}, <<t.entity, f[1]>>, f[1])
    IN  TasksFor(Those(tasks, uncovered), fallback)

PlanTasks == UNION {ToSet(Plan(rq)) \cup ToSet(Fallbacks(Plan(rq))) : rq \in Requests}
AllIds == {t.id : t \in PlanTasks}

-----------------------------------------------------------------------------
(* The state of a run, and what its nodes compute from it. *)

Reasons == {"all_tasks_processed", "tool_budget_exhausted", "deadline_exceeded", "dependency_blocked",
            "remediation_scheduled", "iteration_budget_exhausted", "no_remediation_spec"}
Verdicts == {"completed", "partial", "needs_review"}
Nodes == {"start", "load_session", "resolve_turn", "build_plan", "execute_ready_tasks", "validate_evidence",
          "remediate", "render_answer", "persist_turn"}

\* A HarnessState; its count and its rounds stay within the budget.  A task in raw is still
\* the spec it was added from, with neither a status nor the other fields of a HarnessTask.
State == [plan : Seq(PlanTasks), specs : Seq(PlanTasks), raw : SUBSET AllIds,
          status : [AllIds -> {"pending", "completed", "failed"}],
          got : [AllIds -> AllKinds \cup {"late", None}],
          count : 0..MaxToolCalls, rounds : 0..MaxRounds, missing : SUBSET {t.dim : t \in PlanTasks},
          reason : Reasons \cup {None}, answer : Verdicts \cup {None}]
Checkpoint == [node : Nodes, st : State]

ASSUME NoneAssumption ==
    /\ None \notin AllKinds \cup {"late"} \cup Reasons \cup Verdicts \cup {f[1] : f \in Range(FallbackOf)}
    /\ None \notin State /\ None \notin Checkpoint

Fresh == [plan |-> <<>>, specs |-> <<>>, raw |-> {}, status |-> [t \in AllIds |-> "pending"],
          got |-> [t \in AllIds |-> None], count |-> 0, rounds |-> 0,
          missing |-> {}, reason |-> None, answer |-> None]

Processed(s) == \A t \in Ids(s.plan) : s.status[t] \in {"completed", "failed"}
Ready(s, t) == /\ s.status[t.id] = "pending"
               /\ \A n \in t.needs : n \in Ids(s.plan) /\ s.status[n] = "completed"

\* In the order of the plan, one ready task per resource, within parallelism and budget.
RoomForParallel(s, picked) == Cardinality(picked) < MaxParallel

RoomFor(s, picked) == Cardinality(picked) < MaxParallel /\ Cardinality(picked) < MaxToolCalls - s.count

\* What the loop over the plan has selected after this task.
Select(s, picked, task) ==
    IF Ready(s, task) /\ task.resource \notin {u.resource : u \in picked} /\ RoomFor(s, picked)
    THEN picked \cup {task} ELSE picked

SelectWave(s) ==
    LET selected[i \in 0..Len(s.plan)] ==
            IF i = 0 THEN {} ELSE Select(s, selected[i - 1], s.plan[i])
    IN  selected[Len(s.plan)]

StopReasonBudgetFirst(s) ==
    IF s.count >= MaxToolCalls THEN "tool_budget_exhausted"
    ELSE IF Processed(s) THEN "all_tasks_processed"
    ELSE IF late THEN "deadline_exceeded"
    ELSE IF SelectWave(s) = {} THEN "dependency_blocked" ELSE None

StopReasonUnblocked(s) ==
    IF Processed(s) THEN "all_tasks_processed"
    ELSE IF s.count >= MaxToolCalls THEN "tool_budget_exhausted"
    ELSE IF late THEN "deadline_exceeded" ELSE None

StopReason(s) ==
    IF Processed(s) THEN "all_tasks_processed"
    ELSE IF s.count >= MaxToolCalls THEN "tool_budget_exhausted"
    ELSE IF late THEN "deadline_exceeded"
    ELSE IF SelectWave(s) = {} THEN "dependency_blocked" ELSE None

\* A task that got this result.
StatusAfter(kind) == IF kind \in {"failed", "late"} THEN "failed" ELSE "completed"
WithResults(s, answered) == [s EXCEPT
    !.got = [t \in AllIds |-> IF t \in answered THEN results[t] ELSE @[t]],
    !.status = [t \in AllIds |-> IF t \in answered THEN StatusAfter(results[t]) ELSE @[t]]]

\* Formal evidence for this supplier in this dimension.
Covers(s, entity, dim) == \E t \in ToSet(s.plan) :
    t.entity = entity /\ t.dim = dim /\ s.got[t.id] = "supported"

MissingAnywhere(s) == {t.dim : t \in {u \in ToSet(s.plan) : u.required /\ ~\E e \in ToSet(s.plan) : Covers(s, e.entity, u.dim)}}

Missing(s) == {t.dim : t \in {u \in ToSet(s.plan) : u.required /\ ~Covers(s, u.entity, u.dim)}}

NewSpecs(s) == Those(s.specs, {f \in ToSet(s.specs) :
    f.source \notin {t.source : t \in ToSet(s.plan)} /\ f.id \notin Ids(s.plan)})

Route(s) == IF s.missing # {} /\ NewSpecs(s) # <<>> /\ s.rounds < MaxRounds
            THEN "remediate" ELSE "render_answer"

Got(s, kinds) == \E t \in Ids(s.plan) : s.got[t] \in kinds
FinancialGap(s) == \E t \in ToSet(s.plan) :
    t.tool = "query_financials" /\ s.got[t.id] \in {"empty", "failed", "late"}

AnswerStatus(s) ==
    IF \/ ~Got(s, {"supported", "synthetic", "unfounded"}) \/ Got(s, {"unfounded"})
       \/ Missing(s) # {} \/ FinancialGap(s) THEN "needs_review"
    ELSE IF Got(s, {"synthetic"}) THEN "partial" ELSE "completed"

FinalReason(s) ==
    IF s.missing = {} \/ s.reason \in {"tool_budget_exhausted", "deadline_exceeded"} THEN s.reason
    ELSE IF s.rounds >= MaxRounds THEN "iteration_budget_exhausted"
    ELSE IF NewSpecs(s) = <<>> THEN "no_remediation_spec" ELSE s.reason

\* The edges of the graph.
After(node, s) ==
    CASE node = "start" -> "load_session"
      [] node = "load_session" -> "resolve_turn"
      [] node = "resolve_turn" -> "build_plan"
      [] node \in {"build_plan", "remediate"} -> "execute_ready_tasks"
      [] node = "execute_ready_tasks" -> "validate_evidence"
      [] node = "validate_evidence" -> Route(s)
      [] node = "render_answer" -> "persist_turn"
      [] node = "persist_turn" -> "finish"

-----------------------------------------------------------------------------
(* The nodes. *)

\* persist_event commits the snapshot, then the graph moves on and the saver follows.
EndNode(node, s) ==
    /\ pc = node /\ Len(puts) < MaxLag
    /\ st' = s /\ ledger' = s
    /\ puts' = Append(puts, [node |-> node, st |-> s])
    /\ pc' = After(node, s) /\ stop' = None
    /\ UNCHANGED <<request, wave, late, calls, results, saved, crashes>>

Start ==
    /\ pc = "start" /\ Len(puts) < MaxLag
    /\ st' = Fresh /\ pc' = "load_session"
    /\ puts' = Append(puts, [node |-> "start", st |-> Fresh])
    /\ UNCHANGED <<request, wave, stop, late, calls, results, ledger, saved, crashes>>

LoadSession == EndNode("load_session", st)
ResolveTurn == EndNode("resolve_turn", st)
BuildPlan == LET plan == Plan(request) IN
    EndNode("build_plan", [st EXCEPT !.plan = plan, !.specs = Fallbacks(plan)])
ValidateEvidence == EndNode("validate_evidence", [st EXCEPT !.missing = Missing(st)])
Remediate == EndNode("remediate",
    [st EXCEPT !.plan = @ \o NewSpecs(st), !.raw = @ \cup Ids(NewSpecs(st)), !.rounds = @ + 1,
               !.reason = "remediation_scheduled"])
RenderAnswer == EndNode("render_answer", [st EXCEPT !.answer = AnswerStatus(st), !.reason = FinalReason(st)])
PersistTurn == EndNode("persist_turn", st)

Finish ==
    /\ pc = "finish" /\ pc' = "finished"
    /\ UNCHANGED <<request, st, wave, stop, late, durable, crashes>>

\* execute_ready_tasks: waves of calls until there is a reason to stop.
InWave == {t \in AllIds : wave[t] # "idle"}
Executing == pc = "execute_ready_tasks"
Move(t, where) == wave' = [wave EXCEPT ![t] = where]

StartWave ==
    /\ Executing /\ InWave = {} /\ stop = None /\ StopReason(st) = None
    /\ LET picked == {t.id : t \in SelectWave(st)} IN
       wave' = [t \in AllIds |-> IF t \in picked THEN "starting" ELSE "idle"]
    /\ UNCHANGED <<request, pc, st, stop, late, durable, crashes>>

CallTool(t) ==
    /\ wave[t] = "starting" /\ Move(t, "calling")
    /\ calls' = [calls EXCEPT ![t] = @ + 1]
    /\ UNCHANGED <<request, pc, st, stop, late, results, ledger, saved, puts, crashes>>

ToolReturns(t, kind) ==
    /\ wave[t] = "calling" /\ Move(t, "answered")
    /\ results' = [results EXCEPT ![t] = kind]
    /\ UNCHANGED <<request, pc, st, stop, late, calls, ledger, saved, puts, crashes>>

ToolOverruns(t) ==
    /\ wave[t] = "calling" /\ late /\ Move(t, "late")
    /\ UNCHANGED <<request, pc, st, stop, late, durable, crashes>>

\* After the whole wave came back, the calls that overran get their result event.
RecordOverrun(t) ==
    /\ wave[t] = "late" /\ \A u \in InWave : wave[u] \in {"late", "answered"}
    /\ Move(t, "answered")
    /\ results' = [results EXCEPT ![t] = "late"]
    /\ UNCHANGED <<request, pc, st, stop, late, calls, ledger, saved, puts, crashes>>

EndWave ==
    /\ InWave # {} /\ \A t \in InWave : wave[t] = "answered"
    /\ st' = [WithResults(st, InWave) EXCEPT !.count = @ + Cardinality(InWave)]
    /\ stop' = IF \E t \in InWave : results[t] = "late" THEN "deadline_exceeded" ELSE None
    /\ wave' = [t \in AllIds |-> "idle"]
    /\ UNCHANGED <<request, pc, late, durable, crashes>>

ExecuteReadyTasks == LET why == IF stop # None THEN stop ELSE StopReason(st) IN
    /\ InWave = {} /\ why # None
    /\ EndNode("execute_ready_tasks", [st EXCEPT !.raw = {}, !.reason = why])

-----------------------------------------------------------------------------
(* Faults and recovery. *)

Late == ~late /\ late' = TRUE /\ pc # "finished"
        /\ UNCHANGED <<request, pc, st, wave, stop, durable, crashes>>

SaverPut ==
    /\ puts # <<>> /\ saved' = Head(puts) /\ puts' = Tail(puts)
    /\ UNCHANGED <<request, pc, st, wave, stop, late, calls, results, ledger, crashes>>

OwnerLost ==
    /\ pc \notin {"down", "refused", "finished"} /\ crashes < MaxCrashes
    /\ pc' = "down" /\ crashes' = crashes + 1
    /\ st' = Fresh /\ wave' = [t \in AllIds |-> "idle"] /\ stop' = None /\ puts' = <<>>
    /\ UNCHANGED <<request, late, calls, results, ledger, saved>>

Larger(a, b) == IF a >= b THEN a ELSE b
CallEvents == UNION {{t} \X (1..calls[t]) : t \in AllIds}
Reserved == Cardinality(CallEvents)

\* reconcile_checkpoint: the committed snapshot wins over the saver's, if both have the same
\* plan: equal tasks, compared field by field but for status and attempts.
Planned == ledger # None /\ ledger.plan # <<>>
SamePlan == Planned => ToSet(ledger.plan) = ToSet(saved.st.plan) /\ ledger.raw = saved.st.raw
LedgerState == IF Planned THEN ledger ELSE saved.st

MergedUncounted == LedgerState

Merged == [LedgerState EXCEPT !.count = Larger(@, Reserved)]

\* _restore_committed_tool_results: results the snapshot does not know yet, each for a task
\* that has the status "pending" (or "running").
Unmerged(s) == {t \in AllIds : results[t] # None /\ s.got[t] = None}

RestoredNothing(s) == s

RestoredStatusOnly(s) == [WithResults(s, Unmerged(s)) EXCEPT !.got = s.got]

Restored(s) == WithResults(s, Unmerged(s))
Restorable(s) == \A t \in Unmerged(s) : t \in Ids(s.plan) \ s.raw /\ s.status[t] = "pending"

\* The saver may not know of calls or rounds that were never committed.
Overspent == Planned /\ (Merged.count < saved.st.count \/ Merged.rounds < saved.st.rounds)
Recoverable == SamePlan /\ ~Overspent /\ Restorable(Merged)

Resume ==
    /\ pc = "down" /\ saved # None /\ Recoverable
    /\ st' = Restored(Merged) /\ pc' = After(saved.node, st')
    /\ UNCHANGED <<request, wave, stop, late, durable, crashes>>

StartAgain ==
    /\ pc = "down" /\ saved = None /\ ledger = None /\ pc' = "start"
    /\ UNCHANGED <<request, st, wave, stop, late, durable, crashes>>

Refuse ==
    /\ pc = "down" /\ IF saved = None THEN ledger # None ELSE ~Recoverable
    /\ pc' = "refused"
    /\ UNCHANGED <<request, st, wave, stop, late, durable, crashes>>

-----------------------------------------------------------------------------

Init ==
    /\ request \in Requests /\ pc = "start" /\ st = Fresh
    /\ wave = [t \in AllIds |-> "idle"] /\ stop = None /\ late = FALSE
    /\ calls = [t \in AllIds |-> 0] /\ results = [t \in AllIds |-> None]
    /\ ledger = None /\ saved = None /\ puts = <<>> /\ crashes = 0

Node == Start \/ LoadSession \/ ResolveTurn \/ BuildPlan \/ ExecuteReadyTasks \/ ValidateEvidence
        \/ Remediate \/ RenderAnswer \/ PersistTurn \/ Finish
Wave == StartWave \/ EndWave \/ \E t \in AllIds : CallTool(t) \/ RecordOverrun(t)
Provider == \E t \in AllIds : ToolOverruns(t) \/ \E k \in Kinds : ToolReturns(t, k)
Recovery == Resume \/ StartAgain \/ Refuse

Next == Node \/ Wave \/ Provider \/ Recovery \/ SaverPut \/ Late \/ OwnerLost

Spec == Init /\ [][Next]_vars

\* Nodes run on, tools return or are timed out, the saver writes, and a worker takes a lost run over.
FairSpec == Spec /\ WF_vars(Node) /\ WF_vars(Wave) /\ WF_vars(Provider) /\ WF_vars(SaverPut) /\ WF_vars(Recovery)

-----------------------------------------------------------------------------
(* Properties. *)

\* Types; no owner's count leaves the budget, and no owner remediates too often.
TypeOK ==
    /\ request \in Requests /\ pc \in Nodes \cup {"finish", "finished", "down", "refused"}
    /\ st \in State /\ ledger \in State \cup {None}
    /\ saved \in Checkpoint \cup {None} /\ puts \in Seq(Checkpoint) /\ Len(puts) <= MaxLag
    /\ wave \in [AllIds -> {"idle", "starting", "calling", "late", "answered"}]
    /\ InWave # {} => Executing
    /\ stop \in {None, "deadline_exceeded"} /\ late \in BOOLEAN /\ crashes \in 0..MaxCrashes
    /\ calls \in [AllIds -> 0..MaxToolCalls] /\ results \in [AllIds -> AllKinds \cup {"late", None}]

\* max_tool_calls holds for the run and not only for each owner: calls a lost
\* owner had started, answered or not, are paid from the same budget.
BudgetHolds == Reserved <= MaxToolCalls

\* A tool whose result was committed is never called again for this task, whoever owns the run.
AnsweredIsNotRepeated == [][\A t \in AllIds : results[t] # None => calls'[t] = calls[t]]_vars

\* Every committed result reaches the answer, also one that only the event log knew.
AnswerUsesResults == pc \in {"finish", "finished"} =>
    \A t \in AllIds : st.got[t] = results[t]

\* "completed" is said only when each supplier has formal evidence in each required
\* dimension of its plan and no tool answered with demo data or unfounded claims.
CompletedIsCovered == pc = "finished" /\ st.answer = "completed" =>
    \A t \in ToSet(st.plan) :
        /\ results[t.id] \notin {"synthetic", "unfounded"}
        /\ t.required => \E u \in ToSet(st.plan) :
                <<u.entity, u.dim>> = <<t.entity, t.dim>> /\ results[u.id] = "supported"

\* The published reason is the true one: a budget or deadline is blamed only if it ran
\* out, with work left over or cut short, and "all processed" leaves nothing undone.
ExitReasonIsTrue == pc = "finished" =>
    /\ st.reason = "all_tasks_processed" => Processed(st)
    /\ st.reason = "tool_budget_exhausted" => Reserved = MaxToolCalls /\ ~Processed(st)
    /\ st.reason = "deadline_exceeded" => late /\ (~Processed(st) \/ \E t \in AllIds : results[t] = "late")
    /\ st.reason = "dependency_blocked" => ~Processed(st) /\ SelectWave(st) = {}
    /\ st.reason = "iteration_budget_exhausted" => st.missing # {} /\ st.rounds = MaxRounds
    /\ st.reason = "no_remediation_spec" => st.missing # {} /\ Ids(st.specs) \subseteq Ids(st.plan)
    /\ st.reason # None /\ st.reason # "remediation_scheduled"

\* A run ends with an answer, or its recovery is left to a human.
RunEnds == <>(pc \in {"finished", "refused"})
=============================================================================
