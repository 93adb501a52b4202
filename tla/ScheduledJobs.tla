--------------------------- MODULE ScheduledJobs ---------------------------
(***************************************************************************)
(* Durable schedules (domains/scheduling): schedulers walk through the     *)
(* plans and enqueue one job per plan revision and logical period; workers *)
(* lease the jobs and run them behind the gates of permission and budget.  *)
(* Every database transaction and every Redis script is one step.  The     *)
(* provider is external.                                                   *)
(***************************************************************************)
EXTENDS Naturals, FiniteSets, Sequences, SequencesExt

CONSTANTS
    Schedules,        \* plans: a schedule_id with its target_id
    Malformed,        \* those whose period cannot be computed
    Schedulers,       \* scheduler processes
    Workers,          \* scheduled workers
    BatchSize,        \* batch_size of list_due_schedules
    MaxAttempts,      \* max_attempts of a job
    DailyLimit,       \* PAID_REFRESH limits
    MaxRevision,      \* bound: revisions of one plan
    MaxPeriod,        \* bound: periods that fall due
    MaxDisturbances   \* bound: scheduler faults, changes of permissions and of the paid switch

ASSUME SchedulingAssumption ==
    /\ Malformed \subseteq Schedules
    /\ Schedulers \cap Workers = {}
    /\ BatchSize \in Nat \ {0} /\ MaxAttempts \in Nat \ {0} /\ DailyLimit \in Nat
    /\ MaxRevision \in Nat \ {0} /\ MaxPeriod \in Nat \ {0} /\ MaxDisturbances \in Nat

VARIABLES
    plan,        \* durable_schedules: each plan's latest revision, its first period,
                 \* and whether its kind is in POLICY_GATED_KINDS
    rotation,    \* all revisions, least recently checked first
    period,      \* the latest period of each plan that is due
    job,         \* scheduled_execution_jobs
    batch,       \* plans a scheduler has listed and not yet visited
    worker,      \* local state of each worker
    allowed,     \* plans whose actor may still act on their target
    paid,        \* SCHEDULER_PAID_EXECUTION_ENABLED
    reserved,    \* reservations in Redis
    calls,       \* history: how often the handler of a job called out
    disturbances \* how many so far

planVars == <<plan, rotation, period, batch>>
gateVars == <<allowed, paid, disturbances>>
vars == <<plan, rotation, period, job, batch, worker, allowed, paid, reserved, calls, disturbances>>

Jobs == Schedules \X (1..MaxRevision) \X (1..MaxPeriod)
IsGated(j) == plan[j[1]].gated
NoJob == <<>>

Final  == {"SUCCEEDED", "FAILED", "NEEDS_REVIEW", "CANCELLED", "BLOCKED_POLICY"}
JobRow == [status : {"ABSENT", "QUEUED", "LEASED"} \cup Final, attempts : 0..MaxAttempts,
           token : 0..MaxAttempts, lease : {"none", "valid", "expired"}, started : BOOLEAN,
           error : {"none", "unknown", "limit", "denied", "lease_lost", "failed"}]
Steps == {"idle", "check", "authorize", "reserve", "recheck", "start", "call", "finish"}
WorkerRow == [step : Steps, job : Jobs \cup {NoJob}, token : 0..MaxAttempts,
              verdict : {"none"} \cup Final, error : {"none", "denied", "lease_lost", "failed"}]
Idle == [step |-> "idle", job |-> NoJob, token |-> 0, verdict |-> "none", error |-> "none"]

TypeOK ==
    /\ plan \in [Schedules -> [revision : 0..MaxRevision, since : 0..(MaxPeriod + 1), gated : BOOLEAN]]
    /\ rotation \in Seq(Schedules \X (1..MaxRevision))
    /\ period \in [Schedules -> 0..MaxPeriod]
    /\ job \in [Jobs -> JobRow]
    /\ batch \in [Schedulers -> Seq(Schedules)]
    /\ worker \in [Workers -> WorkerRow]
    /\ allowed \subseteq Schedules /\ paid \in BOOLEAN
    /\ reserved \subseteq Jobs
    /\ calls \in [Jobs -> Nat]
    /\ disturbances \in 0..MaxDisturbances

Init ==
    /\ \E gated \in SUBSET (Schedules \ Malformed) :
          plan = [s \in Schedules |-> [revision |-> 0, since |-> 0, gated |-> s \in gated]]
    /\ rotation = <<>>
    /\ period = [s \in Schedules |-> 0]
    /\ job = [j \in Jobs |-> [status |-> "ABSENT", attempts |-> 0, token |-> 0, lease |-> "none",
                              started |-> FALSE, error |-> "none"]]
    /\ batch = [d \in Schedulers |-> <<>>]
    /\ worker = [w \in Workers |-> Idle]
    /\ allowed = Schedules /\ paid = TRUE
    /\ reserved = {}
    /\ calls = [j \in Jobs |-> 0]
    /\ disturbances = 0

-----------------------------------------------------------------------------
(* Plans.                                                                  *)

\* register_schedule: a revision is never changed; the new row has not been
\* checked and sorts first.
RegisterSchedule(s) ==
    /\ plan[s].revision < MaxRevision
    /\ \E since \in {period[s], period[s] + 1} :
          plan' = [plan EXCEPT ![s].revision = @ + 1, ![s].since = since]
    /\ rotation' = <<<<s, plan[s].revision + 1>>>> \o rotation
    /\ UNCHANGED <<period, job, batch, worker, reserved, calls>> /\ UNCHANGED gateVars

\* Time passes: a period falls due.
PeriodFallsDue(s) ==
    /\ period[s] < MaxPeriod
    /\ period' = [period EXCEPT ![s] = @ + 1]
    /\ UNCHANGED <<plan, rotation, job, batch, worker, reserved, calls>> /\ UNCHANGED gateVars

\* latest_due_period: only the latest, and only since the revision took effect.
DuePeriod(s) == IF period[s] >= plan[s].since THEN period[s] ELSE 0

\* The rows in rows have just been checked.
Checked(rows) ==
    rotation' = SelectSeq(rotation, LAMBDA row : row \notin rows)
                    \o SelectSeq(rotation, LAMBDA row : row \in rows)

-----------------------------------------------------------------------------
(* Schedulers.                                                             *)

\* Mutant: the latest plans instead of the least recently checked.
ListLatestSchedules(d) ==
    /\ batch[d] = <<>> /\ rotation # <<>>
    /\ batch' = [batch EXCEPT ![d] =
          LET n == Len(rotation) IN
          [i \in 1..(IF n < BatchSize THEN n ELSE BatchSize) |-> rotation[n + 1 - i][1]]]
    /\ UNCHANGED <<plan, rotation, period, job, worker, reserved, calls>> /\ UNCHANGED gateVars

\* list_due_schedules lists rows of every revision.
ListDueSchedules(d) ==
    /\ batch[d] = <<>> /\ rotation # <<>>
    /\ batch' = [batch EXCEPT ![d] =
          [i \in 1..(IF Len(rotation) < BatchSize THEN Len(rotation) ELSE BatchSize) |-> rotation[i][1]]]
    /\ UNCHANGED <<plan, rotation, period, job, worker, reserved, calls>> /\ UNCHANGED gateVars

\* enqueue_due_schedule: the cursor of the latest revision, and its job unless
\* the period has one.
EnqueueDueSchedule(d) ==
    /\ batch[d] # <<>>
    /\ LET s == Head(batch[d])
           j == <<s, plan[s].revision, DuePeriod(s)>>
       IN /\ s \notin Malformed
          /\ Checked({<<s, plan[s].revision>>})
          /\ job' = IF DuePeriod(s) > 0 /\ job[j].status = "ABSENT"
                    THEN [job EXCEPT ![j].status = IF plan[s].gated /\ ~paid THEN "BLOCKED_POLICY" ELSE "QUEUED"]
                    ELSE job
    /\ batch' = [batch EXCEPT ![d] = Tail(@)]
    /\ UNCHANGED <<plan, period, worker, reserved, calls>> /\ UNCHANGED gateVars

Disturbed == disturbances < MaxDisturbances /\ disturbances' = disturbances + 1

\* It raised, always for a malformed plan: mark_schedule_checked moves every
\* revision of the plan.
EnqueueFails(d) ==
    /\ batch[d] # <<>>
    /\ IF Head(batch[d]) \in Malformed THEN UNCHANGED disturbances ELSE Disturbed
    /\ Checked({row \in Range(rotation) : row[1] = Head(batch[d])})
    /\ batch' = [batch EXCEPT ![d] = Tail(@)]
    /\ UNCHANGED <<plan, period, job, worker, reserved, calls, allowed, paid>>

\* The cursor could not be moved either (the next plan is tried), or the process
\* ended (the batch is lost).
CursorFails(d) ==
    /\ batch[d] # <<>> /\ Disturbed
    /\ \E rest \in {Tail(batch[d]), <<>>} : batch' = [batch EXCEPT ![d] = rest]
    /\ UNCHANGED <<plan, rotation, period, job, worker, reserved, calls, allowed, paid>>

-----------------------------------------------------------------------------
(* Claiming.                                                               *)

\* Mutant: leased jobs are left to their owners.
DueQueued(j) == job[j].status = "QUEUED"

Due(j) == job[j].status = "QUEUED" \/ (job[j].status = "LEASED" /\ job[j].lease = "expired")
Closed(row, status, error) == [row EXCEPT !.status = status, !.lease = "none", !.error = error]
Unknown(j) == job[j].status = "LEASED" /\ IsGated(j) /\ job[j].started

\* claim_scheduled_job, one of the jobs that are due: the provider may have been
\* called, so a human has to look;
StopUnknown(w, j) ==
    /\ worker[w].step = "idle" /\ Due(j)
    /\ Unknown(j)
    /\ job' = [job EXCEPT ![j] = Closed(@, "NEEDS_REVIEW", "unknown")]
    /\ UNCHANGED <<worker, reserved, calls>> /\ UNCHANGED planVars /\ UNCHANGED gateVars

\* or its attempts are used up;
StopExhausted(w, j) ==
    /\ worker[w].step = "idle" /\ Due(j)
    /\ ~Unknown(j) /\ job[j].attempts >= MaxAttempts
    /\ job' = [job EXCEPT ![j] = Closed(@, "NEEDS_REVIEW", "limit")]
    /\ UNCHANGED <<worker, reserved, calls>> /\ UNCHANGED planVars /\ UNCHANGED gateVars

\* Mutant: neither the provider boundary nor the attempts are asked for.
LeaseJobAnyway(w, j) ==
    /\ worker[w].step = "idle" /\ Due(j)
    /\ job' = [job EXCEPT ![j] = [job[j] EXCEPT !.status = "LEASED", !.lease = "valid", !.error = "none",
                                     !.attempts = job[j].attempts + 1, !.token = job[j].token + 1]]
    /\ worker' = [worker EXCEPT ![w] = [Idle EXCEPT !.step = "check", !.job = j, !.token = job[j].token + 1]]
    /\ UNCHANGED <<reserved, calls>> /\ UNCHANGED planVars /\ UNCHANGED gateVars

\* or it is leased.
LeaseJob(w, j) ==
    /\ worker[w].step = "idle" /\ Due(j)
    /\ ~Unknown(j) /\ job[j].attempts < MaxAttempts
    /\ job' = [job EXCEPT ![j] = [job[j] EXCEPT !.status = "LEASED", !.lease = "valid", !.error = "none",
                                     !.attempts = job[j].attempts + 1, !.token = job[j].token + 1]]
    /\ worker' = [worker EXCEPT ![w] = [Idle EXCEPT !.step = "check", !.job = j, !.token = job[j].token + 1]]
    /\ UNCHANGED <<reserved, calls>> /\ UNCHANGED planVars /\ UNCHANGED gateVars

-----------------------------------------------------------------------------
(* execute_scheduled_job.                                                  *)

\* The owner and its token, and a lease that has not run out.
Fenced(w) == job[worker[w].job].status = "LEASED" /\ job[worker[w].job].token = worker[w].token
Holds(w)  == Fenced(w) /\ job[worker[w].job].lease = "valid"

Goto(w, step) == worker' = [worker EXCEPT ![w].step = step]
Verdict(w, verdict, error) ==
    worker' = [worker EXCEPT ![w] = [@ EXCEPT !.step = "finish", !.verdict = verdict, !.error = error]]

\* assert_scheduled_lease, before and after the permissions were read.
AssertLease(w) ==
    /\ worker[w].step \in {"check", "recheck"}
    /\ IF ~Holds(w)                        THEN Verdict(w, "CANCELLED", "lease_lost")
       ELSE IF worker[w].step = "check"    THEN Goto(w, "authorize")
       ELSE IF IsGated(worker[w].job)      THEN Goto(w, "start")
       ELSE                                     Goto(w, "call")
    /\ UNCHANGED <<job, reserved, calls>> /\ UNCHANGED planVars /\ UNCHANGED gateVars

\* _target_for.
Authorize(w) ==
    /\ worker[w].step = "authorize"
    /\ IF worker[w].job[1] \notin allowed  THEN Verdict(w, "CANCELLED", "denied")
       ELSE IF IsGated(worker[w].job)      THEN Goto(w, "reserve")
       ELSE                                     Goto(w, "recheck")
    /\ UNCHANGED <<job, reserved, calls>> /\ UNCHANGED planVars /\ UNCHANGED gateVars

\* reserve_paid_refresh_once: once per job, within the limit.
Reserve(w) ==
    /\ worker[w].step = "reserve" /\ paid
    /\ worker[w].job \in reserved \/ Cardinality(reserved) < DailyLimit
    /\ reserved' = reserved \cup {worker[w].job}
    /\ \/ Goto(w, "recheck")
       \/ Verdict(w, "CANCELLED", "denied")     \* the answer of Redis was lost
    /\ UNCHANGED <<job, calls>> /\ UNCHANGED planVars /\ UNCHANGED gateVars

\* The switch is off, the limit is reached or Redis is down.
ReserveDenied(w) ==
    /\ worker[w].step = "reserve"
    /\ Verdict(w, "CANCELLED", "denied")
    /\ UNCHANGED <<job, reserved, calls>> /\ UNCHANGED planVars /\ UNCHANGED gateVars

\* Mutant: the boundary is written under the token alone.
MarkProviderStartedLate(w) ==
    /\ worker[w].step = "start"
    /\ job' = [job EXCEPT ![worker[w].job].started = TRUE]
    /\ Goto(w, "call")
    /\ UNCHANGED <<reserved, calls>> /\ UNCHANGED planVars /\ UNCHANGED gateVars

MarkProviderStarted(w) ==
    /\ worker[w].step = "start"
    /\ IF Holds(w) THEN job' = [job EXCEPT ![worker[w].job].started = TRUE] /\ Goto(w, "call")
                   ELSE Verdict(w, "CANCELLED", "lease_lost") /\ UNCHANGED job
    /\ UNCHANGED <<reserved, calls>> /\ UNCHANGED planVars /\ UNCHANGED gateVars

\* The handler; an exception leaves open whether the provider was reached.
Call(w) ==
    /\ worker[w].step = "call"
    /\ LET j == worker[w].job
           failed == IF IsGated(j) THEN "NEEDS_REVIEW" ELSE "FAILED"
       IN \/ /\ calls' = [calls EXCEPT ![j] = @ + 1]
             /\ Verdict(w, "SUCCEEDED", "none") \/ Verdict(w, failed, "failed")
          \/ /\ Verdict(w, failed, "failed")
             /\ UNCHANGED calls
    /\ UNCHANGED <<job, reserved>> /\ UNCHANGED planVars /\ UNCHANGED gateVars

\* Mutant: the fence is forgotten.
FinishAnyway(w) ==
    /\ worker[w].step = "finish"
    /\ job' = [job EXCEPT ![worker[w].job] = Closed(@, worker[w].verdict, worker[w].error)]
    /\ worker' = [worker EXCEPT ![w] = Idle]
    /\ UNCHANGED <<reserved, calls>> /\ UNCHANGED planVars /\ UNCHANGED gateVars

\* finish_scheduled_job asks for the owner and its token, not for the lease.
Finish(w) ==
    /\ worker[w].step = "finish"
    /\ job' = IF Fenced(w)
              THEN [job EXCEPT ![worker[w].job] = Closed(@, worker[w].verdict, worker[w].error)]
              ELSE job
    /\ worker' = [worker EXCEPT ![w] = Idle]
    /\ UNCHANGED <<reserved, calls>> /\ UNCHANGED planVars /\ UNCHANGED gateVars

\* The process ends, at the latest when its drain timer calls os._exit.
WorkerDies(w) ==
    /\ worker[w].step # "idle"
    /\ worker' = [worker EXCEPT ![w] = Idle]
    /\ UNCHANGED <<job, reserved, calls>> /\ UNCHANGED planVars /\ UNCHANGED gateVars

\* No heartbeat came in time; a running handler is not told.
LeaseExpires(j) ==
    /\ job[j].lease = "valid"
    /\ job' = [job EXCEPT ![j].lease = "expired"]
    /\ UNCHANGED <<worker, reserved, calls>> /\ UNCHANGED planVars /\ UNCHANGED gateVars

-----------------------------------------------------------------------------
(* Administrators.                                                         *)

ChangeAdmission ==
    /\ Disturbed
    /\ \/ /\ \E s \in Schedules : allowed' = (allowed \ {s}) \cup ({s} \ allowed)
          /\ UNCHANGED paid
       \/ paid' = ~paid /\ UNCHANGED allowed
    /\ UNCHANGED <<job, worker, reserved, calls>> /\ UNCHANGED planVars

Claim(w)   == \E j \in Jobs : StopUnknown(w, j) \/ StopExhausted(w, j) \/ LeaseJob(w, j)
Execute(w) == \/ AssertLease(w) \/ Authorize(w) \/ Reserve(w) \/ ReserveDenied(w)
              \/ MarkProviderStarted(w) \/ Call(w) \/ Finish(w)
Visit(d)   == EnqueueDueSchedule(d) \/ EnqueueFails(d)

Next ==
    \/ \E s \in Schedules : RegisterSchedule(s) \/ PeriodFallsDue(s)
    \/ \E d \in Schedulers : ListDueSchedules(d) \/ Visit(d) \/ CursorFails(d)
    \/ \E w \in Workers : Claim(w) \/ Execute(w) \/ WorkerDies(w)
    \/ \E j \in Jobs : LeaseExpires(j)
    \/ ChangeAdmission

Spec == Init /\ [][Next]_vars

-----------------------------------------------------------------------------
(* Safety.                                                                 *)

\* However often workers crash or lose their leases, nobody calls a paid provider
\* twice for a job, and never beyond the jobs that reserved budget
\* (provider_started_at and reserve_paid_refresh_once).
PaidOnce == \A j \in Jobs : IsGated(j) => calls[j] <= IF j \in reserved THEN 1 ELSE 0

\* The outcome that is recorded for a paid job is what happened: success means
\* the provider was called, a cancelled or blocked job was never sent, and a job
\* that may have been sent is never queued again.
OutcomeIsTrue ==
    \A j \in Jobs : IsGated(j) =>
        /\ job[j].status = "SUCCEEDED" => calls[j] = 1
        /\ job[j].status \in {"CANCELLED", "BLOCKED_POLICY", "QUEUED", "ABSENT"} => calls[j] = 0

-----------------------------------------------------------------------------
(* What a step may never do.                                               *)

\* A final job is final: late owners neither reopen nor rewrite it.
OutcomeStands == [][\A j \in Jobs : job[j].status \in Final => job'[j] = job[j]]_vars

-----------------------------------------------------------------------------
(* Liveness.                                                               *)

\* Processes are restarted and poll for ever, calls return, and leases nobody
\* renews run out.
Fairness ==
    /\ \A d \in Schedulers : WF_vars(ListDueSchedules(d)) /\ WF_vars(Visit(d))
    /\ \A w \in Workers : WF_vars(Claim(w)) /\ WF_vars(Execute(w))
    /\ \A j \in Jobs : WF_vars(LeaseExpires(j) /\ \A w \in Workers : worker[w].job # j)

FairSpec == Spec /\ Fairness

\* Whoever crashes, a queued job gets an outcome.
JobsSettle == \A j \in Jobs : job[j].status = "QUEUED" ~> job[j].status \in Final

Missing(s) == DuePeriod(s) > 0 /\ plan[s].revision > 0
                 /\ job[<<s, plan[s].revision, DuePeriod(s)>>].status = "ABSENT"

\* The fairness cursor: whatever failed, every plan is reached and the period
\* that is due gets its job, malformed neighbours notwithstanding.
PeriodsAreEnqueued == \A s \in Schedules \ Malformed : Missing(s) ~> ~Missing(s)
=============================================================================
