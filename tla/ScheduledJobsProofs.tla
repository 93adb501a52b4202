------------------------- MODULE ScheduledJobsProofs -------------------------
(***************************************************************************)
(* A paid provider is called at most once for a job, the recorded outcome  *)
(* is what happened, and it is final, for any number of plans, schedulers, *)
(* workers, attempts and periods.  The argument is about jobs and workers  *)
(* only: the rotation of the plans plays no part in it.                    *)
(***************************************************************************)
EXTENDS ScheduledJobs, TLAPS

PlanRow == [revision : 0..MaxRevision, since : 0..(MaxPeriod + 1), gated : BOOLEAN]

ExecutionTypes ==
    /\ plan \in [Schedules -> PlanRow] /\ period \in [Schedules -> 0..MaxPeriod]
    /\ job \in [Jobs -> JobRow]
    /\ worker \in [Workers -> WorkerRow]
    /\ reserved \subseteq Jobs
    /\ calls \in [Jobs -> Nat]

Busy(w)    == worker[w].step # "idle"
Current(w) == worker[w].token = job[worker[w].job].token

\* Tokens only grow, and each was given to one worker.
TokensInOrder ==
    /\ \A w \in Workers : Busy(w) => worker[w].job \in Jobs /\ worker[w].token <= job[worker[w].job].token
    /\ \A v, w \in Workers : /\ Busy(v) /\ Busy(w)
                             /\ worker[v].job = worker[w].job /\ worker[v].token = worker[w].token
                             => v = w

\* The provider boundary is written before the one call behind it.
JobInOrder(j) ==
    /\ job[j].lease # "none" => job[j].status = "LEASED"
    /\ job[j].token = job[j].attempts
    /\ IsGated(j) =>
          /\ job[j].status \in {"ABSENT", "QUEUED", "CANCELLED", "BLOCKED_POLICY"} => job[j].started = FALSE
          /\ job[j].started = FALSE => calls[j] = 0
          /\ calls[j] <= 1
          /\ calls[j] > 0 => j \in reserved
          /\ job[j].status = "SUCCEEDED" => calls[j] = 1

WorkerInOrder(w) ==
    /\ worker[w].step = "finish" => worker[w].verdict # "none"
    /\ Busy(w) /\ IsGated(worker[w].job) =>
        /\ worker[w].step \in {"recheck", "start", "call"} => worker[w].job \in reserved
        /\ Current(w) /\ worker[w].step \in {"check", "authorize", "reserve", "recheck", "start"} =>
              job[worker[w].job].started = FALSE
        /\ worker[w].step = "call" =>
              Current(w) /\ job[worker[w].job].started = TRUE /\ calls[worker[w].job] = 0
        /\ worker[w].step = "finish" =>
              /\ worker[w].verdict # "BLOCKED_POLICY"
              /\ worker[w].verdict = "SUCCEEDED" => calls[worker[w].job] = 1
              /\ worker[w].verdict = "CANCELLED" /\ Current(w) => job[worker[w].job].started = FALSE

Inv == /\ ExecutionTypes
       /\ TokensInOrder
       /\ \A j \in Jobs : JobInOrder(j)
       /\ \A w \in Workers : WorkerInOrder(w)

-----------------------------------------------------------------------------
(* Initially.                                                              *)

LEMMA IdleRow == Idle \in WorkerRow /\ Idle.step = "idle"
BY SchedulingAssumption DEF Idle, WorkerRow, Steps

LEMMA Initially == Init => Inv
<1> SUFFICES ASSUME Init PROVE Inv
  OBVIOUS
<1>1. plan \in [Schedules -> PlanRow]
  <2>1. PICK gated \in SUBSET (Schedules \ Malformed) :
          plan = [s \in Schedules |-> [revision |-> 0, since |-> 0, gated |-> s \in gated]]
    BY DEF Init
  <2>2. 0 \in 0..MaxRevision /\ 0 \in 0..(MaxPeriod + 1)
    BY SchedulingAssumption
  <2>3. ASSUME NEW s \in Schedules PROVE [revision |-> 0, since |-> 0, gated |-> s \in gated] \in PlanRow
    BY <2>2 DEF PlanRow
  <2> QED
    BY <2>1, <2>3
<1> DEFINE new == [status |-> "ABSENT", attempts |-> 0, token |-> 0, lease |-> "none", started |-> FALSE,
                   error |-> "none"]
<1>2. new \in JobRow
  BY SchedulingAssumption DEF JobRow
<1>3. job \in [Jobs -> JobRow] /\ \A j \in Jobs : job[j] = new
  BY <1>2 DEF Init
<1>4. worker \in [Workers -> WorkerRow] /\ \A w \in Workers : worker[w].step = "idle"
  BY IdleRow DEF Init
<1>5. ExecutionTypes
  BY <1>1, <1>3, <1>4, SchedulingAssumption DEF Init, ExecutionTypes
<1>6. TokensInOrder /\ \A w \in Workers : WorkerInOrder(w)
  BY <1>4 DEF TokensInOrder, WorkerInOrder, Busy
<1>7. ASSUME NEW j \in Jobs PROVE JobInOrder(j)
  <2>1. job[j].lease = "none" /\ job[j].status = "ABSENT" /\ calls[j] = 0
    BY <1>3 DEF Init
  <2>2. job[j].started = FALSE /\ job[j].token = job[j].attempts
    BY <1>3
  <2> QED
    BY <2>1, <2>2 DEF JobInOrder
<1> QED
  BY <1>5, <1>6, <1>7 DEF Inv

-----------------------------------------------------------------------------
(* Steps that leave jobs and workers alone.                                *)

LEMMA PlanningStep ==
    ASSUME Inv, UNCHANGED <<job, worker, reserved, calls>>, plan' \in [Schedules -> PlanRow],
           period' \in [Schedules -> 0..MaxPeriod],
           \A s \in Schedules : plan'[s].gated = plan[s].gated
    PROVE  Inv'
<1>1. \A j \in Jobs : IsGated(j)' <=> IsGated(j)
  <2> SUFFICES ASSUME NEW j \in Jobs PROVE plan'[j[1]].gated = plan[j[1]].gated
    BY DEF IsGated
  <2> QED
    BY DEF Jobs
<1>2. ExecutionTypes' /\ TokensInOrder'
  BY DEF Inv, ExecutionTypes, TokensInOrder, Busy
<1>3. \A j \in Jobs : JobInOrder(j)'
  BY <1>1 DEF Inv, JobInOrder
<1>4. ASSUME NEW w \in Workers PROVE WorkerInOrder(w)'
  <2>1. CASE ~Busy(w)
    BY <2>1 DEF WorkerInOrder, Busy
  <2>2. CASE Busy(w)
    <3>1. IsGated(worker[w].job)' <=> IsGated(worker[w].job)
      BY <1>1, <2>2 DEF Inv, TokensInOrder, IsGated
    <3> QED
      BY <3>1 DEF Inv, WorkerInOrder, Busy, Current
  <2> QED
    BY <2>1, <2>2
<1> QED
  BY <1>2, <1>3, <1>4 DEF Inv

-----------------------------------------------------------------------------
(* A step that moves one job but neither its token nor its boundary; a     *)
(* worker may leave it.                                                    *)

LEMMA JobMoves ==
    ASSUME Inv, NEW j \in Jobs, NEW row \in JobRow, job' = [job EXCEPT ![j] = row],
           row.token = job[j].token, row.started = job[j].started,
           worker' \in [Workers -> WorkerRow],
           \A v \in Workers : worker'[v] = worker[v] \/ worker'[v].step = "idle",
           UNCHANGED <<plan, period, reserved, calls>>, JobInOrder(j)'
    PROVE  Inv'
<1>1. ExecutionTypes
  BY DEF Inv
<1>2. ExecutionTypes'
  BY <1>1 DEF ExecutionTypes
<1>3. \A k \in Jobs : k # j => job'[k] = job[k]
  BY <1>1 DEF ExecutionTypes
<1>4. \A k \in Jobs : job'[k].token = job[k].token
  BY <1>1, <1>3 DEF ExecutionTypes
<1>5. \A k \in Jobs : job'[k].started = job[k].started
  BY <1>1, <1>3 DEF ExecutionTypes
<1>6. TokensInOrder'
  BY <1>4 DEF Inv, TokensInOrder, Busy
<1>7. \A k \in Jobs : JobInOrder(k)'
  <2> SUFFICES ASSUME NEW k \in Jobs, k # j PROVE JobInOrder(k)'
    OBVIOUS
  <2> QED
    BY <1>3 DEF Inv, JobInOrder, IsGated
<1>8. ASSUME NEW v \in Workers PROVE WorkerInOrder(v)'
  <2>1. CASE worker'[v].step = "idle"
    BY <2>1 DEF WorkerInOrder, Busy
  <2>2. CASE worker'[v] = worker[v] /\ worker'[v].step # "idle"
    <3>1. worker[v].job \in Jobs /\ WorkerInOrder(v)
      BY <2>2 DEF Inv, TokensInOrder, Busy
    <3>2. job'[worker[v].job].token = job[worker[v].job].token
      BY <1>4, <3>1
    <3>3. job'[worker[v].job].started = job[worker[v].job].started
      BY <1>5, <3>1
    <3> QED
      BY <2>2, <3>1, <3>2, <3>3 DEF WorkerInOrder, Busy, Current, IsGated
  <2> QED
    BY <2>1, <2>2
<1> QED
  BY <1>2, <1>6, <1>7, <1>8 DEF Inv

-----------------------------------------------------------------------------
(* A step of one worker behind the gates.                                  *)

LEMMA WorkerMoves ==
    ASSUME Inv, NEW w \in Workers, Busy(w), NEW row \in WorkerRow, worker' = [worker EXCEPT ![w] = row],
           row.job = worker[w].job, row.token = worker[w].token, row.step # "idle",
           reserved \subseteq reserved', reserved' \subseteq Jobs,
           UNCHANGED <<plan, period, job, calls>>, WorkerInOrder(w)'
    PROVE  Inv'
<1>1. ExecutionTypes
  BY DEF Inv
<1>2. ExecutionTypes'
  BY <1>1 DEF ExecutionTypes
<1>3. \A v \in Workers : v # w => worker'[v] = worker[v]
  BY <1>1 DEF ExecutionTypes
<1>4. worker'[w] = row
  BY <1>1 DEF ExecutionTypes
<1>5. \A v \in Workers : /\ Busy(v)' <=> Busy(v)
                         /\ worker'[v].job = worker[v].job /\ worker'[v].token = worker[v].token
  BY <1>3, <1>4 DEF Busy
<1>6. TokensInOrder'
  BY <1>5 DEF Inv, TokensInOrder, Busy
<1>7. \A k \in Jobs : JobInOrder(k)'
  BY DEF Inv, JobInOrder, IsGated
<1>8. ASSUME NEW v \in Workers, v # w PROVE WorkerInOrder(v)'
  <2>1. worker'[v] = worker[v] /\ WorkerInOrder(v)
    BY <1>3, <1>8 DEF Inv
  <2> QED
    BY <2>1 DEF WorkerInOrder, Busy, Current, IsGated
<1> QED
  BY <1>2, <1>6, <1>7, <1>8 DEF Inv

-----------------------------------------------------------------------------
(* The schedulers and the administrators.                                  *)

LEMMA PlanningKeeps ==
    ASSUME Inv,
           \/ \E s \in Schedules : RegisterSchedule(s) \/ PeriodFallsDue(s)
           \/ \E d \in Schedulers : ListDueSchedules(d) \/ EnqueueFails(d) \/ CursorFails(d)
           \/ ChangeAdmission
    PROVE  Inv'
<1>1. plan \in [Schedules -> PlanRow] /\ period \in [Schedules -> 0..MaxPeriod]
  BY DEF Inv, ExecutionTypes
<1>2. UNCHANGED <<job, worker, reserved, calls>>
  BY DEF RegisterSchedule, PeriodFallsDue, ListDueSchedules, EnqueueFails, CursorFails, ChangeAdmission
<1>3. CASE UNCHANGED plan /\ UNCHANGED period
  BY <1>1, <1>2, <1>3, PlanningStep
<1>4. ASSUME NEW s \in Schedules, RegisterSchedule(s) PROVE Inv'
  <2>1. PICK since \in {period[s], period[s] + 1} :
          plan' = [plan EXCEPT ![s].revision = @ + 1, ![s].since = since]
    BY <1>4 DEF RegisterSchedule
  <2>2. since \in 0..(MaxPeriod + 1)
    BY <1>1, SchedulingAssumption
  <2>3. PICK next \in 0..MaxRevision : next = plan[s].revision + 1
    BY <1>1, <1>4, SchedulingAssumption DEF RegisterSchedule, PlanRow
  <2>4. plan' = [plan EXCEPT ![s].revision = next, ![s].since = since]
    BY <2>1, <2>3
  <2>5. plan' \in [Schedules -> PlanRow] /\ \A t \in Schedules : plan'[t].gated = plan[t].gated
    BY <1>1, <2>2, <2>3, <2>4 DEF PlanRow
  <2> QED
    BY <1>1, <1>2, <1>4, <2>5, PlanningStep DEF RegisterSchedule
<1>5. ASSUME NEW s \in Schedules, PeriodFallsDue(s) PROVE Inv'
  <2>1. period' \in [Schedules -> 0..MaxPeriod]
    BY <1>1, <1>5, SchedulingAssumption DEF PeriodFallsDue
  <2> QED
    BY <1>1, <1>2, <1>5, <2>1, PlanningStep DEF PeriodFallsDue
<1> QED
  BY <1>3, <1>4, <1>5 DEF ListDueSchedules, EnqueueFails, CursorFails, ChangeAdmission, planVars

LEMMA EnqueueKeeps == ASSUME Inv, NEW d \in Schedulers, EnqueueDueSchedule(d) PROVE Inv'
<1> DEFINE s == Head(batch[d])
           j == <<s, plan[s].revision, DuePeriod(s)>>
<1>1. ExecutionTypes /\ UNCHANGED <<plan, period, worker, reserved, calls>>
  BY DEF Inv, EnqueueDueSchedule
<1>2. CASE UNCHANGED job
  BY <1>1, <1>2, PlanningStep DEF ExecutionTypes
<1>3. CASE j \notin Jobs
  <2>1. [job EXCEPT ![j].status = IF plan[s].gated /\ ~paid THEN "BLOCKED_POLICY" ELSE "QUEUED"] = job
    BY <1>1, <1>3 DEF ExecutionTypes
  <2> QED
    BY <1>2, <2>1 DEF EnqueueDueSchedule
<1>4. CASE j \in Jobs /\ ~UNCHANGED job
  <2>0. PICK k \in Jobs : k = j
    BY <1>4
  <2>1. PICK status \in {"QUEUED", "BLOCKED_POLICY"} :
           job' = [job EXCEPT ![k].status = status] /\ job[k].status = "ABSENT"
    BY <1>4, <2>0 DEF EnqueueDueSchedule
  <2> DEFINE row == [job[k] EXCEPT !.status = status]
  <2>2. job[k] \in JobRow /\ JobInOrder(k)
    BY <1>1 DEF ExecutionTypes, Inv
  <2>3. job' = [job EXCEPT ![k] = row] /\ job'[k] = row
    BY <1>1, <2>1 DEF ExecutionTypes
  <2>4. /\ row \in JobRow /\ row.status = status /\ row.lease = job[k].lease
        /\ row.token = job[k].token /\ row.started = job[k].started /\ row.attempts = job[k].attempts
    BY <2>2 DEF JobRow, Final
  <2>5. JobInOrder(k)'
    BY <1>1, <2>1, <2>2, <2>3, <2>4 DEF JobInOrder, IsGated
  <2> QED
    BY <1>1, <2>3, <2>4, <2>5, JobMoves DEF ExecutionTypes
<1> QED
  BY <1>2, <1>3, <1>4

-----------------------------------------------------------------------------
(* Jobs that are stopped, or whose lease runs out.                         *)

LEMMA ClosedRow ==
    ASSUME NEW row \in JobRow, NEW status \in Final, NEW error \in {"none", "unknown", "limit", "denied", "lease_lost", "failed"}
    PROVE  /\ Closed(row, status, error) \in JobRow
           /\ Closed(row, status, error).status = status /\ Closed(row, status, error).lease = "none"
           /\ Closed(row, status, error).token = row.token /\ Closed(row, status, error).started = row.started
           /\ Closed(row, status, error).attempts = row.attempts
BY DEF Closed, JobRow, Final

LEMMA StopKeeps ==
    ASSUME Inv, NEW w \in Workers, NEW j \in Jobs, StopUnknown(w, j) \/ StopExhausted(w, j)
    PROVE  Inv'
<1>1. /\ ExecutionTypes /\ JobInOrder(j) /\ job[j] \in JobRow
      /\ UNCHANGED <<plan, period, worker, reserved, calls>>
  BY DEF Inv, ExecutionTypes, StopUnknown, StopExhausted, planVars
<1>2. PICK error \in {"unknown", "limit"} : job' = [job EXCEPT ![j] = Closed(job[j], "NEEDS_REVIEW", error)]
  BY <1>1 DEF StopUnknown, StopExhausted, ExecutionTypes
<1> DEFINE row == Closed(job[j], "NEEDS_REVIEW", error)
<1>3. /\ row \in JobRow /\ row.status = "NEEDS_REVIEW" /\ row.lease = "none"
      /\ row.token = job[j].token /\ row.started = job[j].started /\ row.attempts = job[j].attempts
  BY <1>1, ClosedRow DEF Final
<1>4. job'[j] = row
  BY <1>1, <1>2 DEF ExecutionTypes
<1> HIDE DEF row
<1>5. JobInOrder(j)'
  BY <1>1, <1>3, <1>4 DEF JobInOrder, IsGated
<1> QED
  BY <1>1, <1>2, <1>3, <1>5, JobMoves DEF ExecutionTypes, row

LEMMA LeaseExpiresKeeps == ASSUME Inv, NEW j \in Jobs, LeaseExpires(j) PROVE Inv'
<1> DEFINE row == [job[j] EXCEPT !.lease = "expired"]
<1>1. /\ ExecutionTypes /\ JobInOrder(j) /\ job[j] \in JobRow /\ job[j].lease = "valid"
      /\ UNCHANGED <<plan, period, worker, reserved, calls>>
  BY DEF Inv, ExecutionTypes, LeaseExpires, planVars
<1>2. job' = [job EXCEPT ![j] = row] /\ job'[j] = row
  BY <1>1 DEF LeaseExpires, ExecutionTypes
<1>3. /\ row \in JobRow /\ row.status = job[j].status
      /\ row.token = job[j].token /\ row.started = job[j].started /\ row.attempts = job[j].attempts
  BY <1>1 DEF JobRow
<1>4. JobInOrder(j)'
  BY <1>1, <1>2, <1>3 DEF JobInOrder, IsGated
<1> QED
  BY <1>1, <1>2, <1>3, <1>4, JobMoves DEF ExecutionTypes

-----------------------------------------------------------------------------
(* Workers that leave their job.                                           *)

LEMMA LeaveKeeps == ASSUME Inv, NEW w \in Workers, Finish(w) \/ WorkerDies(w) PROVE Inv'
<1> DEFINE j == worker[w].job
<1>1. /\ ExecutionTypes /\ WorkerInOrder(w) /\ Busy(w) /\ j \in Jobs /\ JobInOrder(j) /\ job[j] \in JobRow
      /\ worker' = [worker EXCEPT ![w] = Idle] /\ UNCHANGED <<plan, period, reserved, calls>>
  BY DEF Inv, ExecutionTypes, TokensInOrder, Busy, Finish, WorkerDies, planVars
<1>2. worker' \in [Workers -> WorkerRow] /\ \A v \in Workers : worker'[v] = worker[v] \/ worker'[v].step = "idle"
  BY <1>1, IdleRow DEF ExecutionTypes
<1>3. PICK k \in Jobs : k = j
  BY <1>1
<1>4. CASE UNCHANGED job
  <2>1. job' = [job EXCEPT ![k] = job[k]]
    BY <1>1, <1>4 DEF ExecutionTypes
  <2>2. JobInOrder(k)'
    BY <1>1, <1>3, <1>4 DEF JobInOrder, IsGated
  <2> QED
    BY <1>1, <1>2, <1>3, <2>1, <2>2, JobMoves
<1>5. CASE ~UNCHANGED job
  <2> DEFINE row == Closed(job[k], worker[w].verdict, worker[w].error)
  <2>1. worker[w].step = "finish" /\ Fenced(w) /\ job' = [job EXCEPT ![k] = row]
    BY <1>1, <1>3, <1>5 DEF Finish, WorkerDies, ExecutionTypes
  <2>2. /\ worker[w].verdict \in Final
        /\ worker[w].error \in {"none", "unknown", "limit", "denied", "lease_lost", "failed"}
    BY <1>1, <2>1 DEF ExecutionTypes, WorkerRow, WorkerInOrder
  <2>3. /\ row \in JobRow /\ row.status = worker[w].verdict /\ row.lease = "none"
        /\ row.token = job[k].token /\ row.started = job[k].started /\ row.attempts = job[k].attempts
    BY <1>1, <1>3, <2>2, ClosedRow, Zenon
  <2>4. job'[k] = row
    BY <1>1, <2>1 DEF ExecutionTypes
  <2> HIDE DEF row
  <2>5. JobInOrder(k)'
    <3>1. IsGated(k) => /\ row.status # "BLOCKED_POLICY"
                        /\ row.status = "SUCCEEDED" => calls[k] = 1
                        /\ row.status = "CANCELLED" => row.started = FALSE
      BY <1>1, <1>3, <2>1, <2>3 DEF WorkerInOrder, Fenced, Current
    <3>2. row.status \notin {"ABSENT", "QUEUED"}
      BY <2>2, <2>3 DEF Final
    <3> QED
      BY <1>1, <1>3, <2>3, <2>4, <3>1, <3>2 DEF JobInOrder, IsGated
  <2> QED
    BY <1>1, <1>2, <2>1, <2>3, <2>5, JobMoves
<1> QED
  BY <1>4, <1>5

-----------------------------------------------------------------------------
(* The gates.                                                              *)

LEMMA GateKeeps ==
    ASSUME Inv, NEW w \in Workers,
           \/ AssertLease(w) \/ Authorize(w) \/ Reserve(w) \/ ReserveDenied(w)
           \/ MarkProviderStarted(w) /\ ~Holds(w)
    PROVE  Inv'
<1>1. /\ ExecutionTypes /\ WorkerInOrder(w) /\ Busy(w) /\ worker[w].job \in Jobs /\ worker[w] \in WorkerRow
      /\ worker[w].step \in {"check", "authorize", "reserve", "recheck", "start"}
      /\ UNCHANGED <<plan, period, job, calls>> /\ reserved \subseteq reserved' /\ reserved' \subseteq Jobs
  BY DEF Inv, ExecutionTypes, TokensInOrder, Busy, AssertLease, Authorize, Reserve, ReserveDenied,
         MarkProviderStarted, planVars
<1>2. ASSUME NEW error \in {"denied", "lease_lost"}, Verdict(w, "CANCELLED", error)
      PROVE  Inv'
  <2> DEFINE next == [worker[w] EXCEPT !.step = "finish", !.verdict = "CANCELLED", !.error = error]
  <2>1. worker' = [worker EXCEPT ![w] = next] /\ worker'[w] = next
    BY <1>1, <1>2 DEF Verdict, ExecutionTypes
  <2>2. /\ next \in WorkerRow /\ next.step = "finish" /\ next.verdict = "CANCELLED"
        /\ next.job = worker[w].job /\ next.token = worker[w].token
    BY <1>1 DEF WorkerRow, Steps, Final
  <2> HIDE DEF next
  <2>3. WorkerInOrder(w)'
    BY <1>1, <2>1, <2>2 DEF WorkerInOrder, Busy, Current, IsGated
  <2> QED
    BY <1>1, <2>1, <2>2, <2>3, WorkerMoves
<1>3. ASSUME NEW step \in {"authorize", "reserve", "recheck", "start", "call"}, Goto(w, step),
             step \in {"recheck", "start"} /\ IsGated(worker[w].job) => worker[w].job \in reserved',
             step = "call" => ~IsGated(worker[w].job)
      PROVE  Inv'
  <2> DEFINE next == [worker[w] EXCEPT !.step = step]
  <2>1. worker' = [worker EXCEPT ![w] = next] /\ worker'[w] = next
    BY <1>1, <1>3 DEF Goto, ExecutionTypes
  <2>2. /\ next \in WorkerRow /\ next.step = step
        /\ next.job = worker[w].job /\ next.token = worker[w].token
    BY <1>1 DEF WorkerRow, Steps
  <2> HIDE DEF next
  <2>3. WorkerInOrder(w)'
    BY <1>1, <1>3, <2>1, <2>2 DEF WorkerInOrder, Busy, Current, IsGated
  <2> QED
    BY <1>1, <2>1, <2>2, <2>3, WorkerMoves
<1>4. CASE AssertLease(w)
  BY <1>1, <1>2, <1>3, <1>4 DEF AssertLease, WorkerInOrder
<1>5. CASE Authorize(w)
  BY <1>1, <1>2, <1>3, <1>5 DEF Authorize
<1>6. CASE Reserve(w)
  BY <1>1, <1>2, <1>3, <1>6 DEF Reserve
<1>7. CASE ReserveDenied(w)
  BY <1>1, <1>2, <1>7 DEF ReserveDenied
<1>8. CASE MarkProviderStarted(w) /\ ~Holds(w)
  BY <1>1, <1>2, <1>8 DEF MarkProviderStarted
<1> QED
  BY <1>4, <1>5, <1>6, <1>7, <1>8

-----------------------------------------------------------------------------
(* The provider boundary: of the workers on a job only the one with the    *)
(* current token gets past it.                                             *)

LEMMA OneCurrent ==
    ASSUME Inv, NEW v \in Workers, NEW w \in Workers, v # w, Busy(v), Busy(w),
           worker[v].job = worker[w].job, Current(w)
    PROVE  ~Current(v)
BY DEF Inv, TokensInOrder, Current

LEMMA MarkKeeps == ASSUME Inv, NEW w \in Workers, MarkProviderStarted(w), Holds(w) PROVE Inv'
<1>1. /\ ExecutionTypes /\ WorkerInOrder(w) /\ Busy(w) /\ worker[w].job \in Jobs /\ worker[w] \in WorkerRow
      /\ worker[w].step = "start" /\ Goto(w, "call") /\ Current(w)
      /\ UNCHANGED <<plan, period, reserved, calls>>
  BY DEF Inv, ExecutionTypes, TokensInOrder, Busy, MarkProviderStarted, Holds, Fenced, Current, planVars
<1>2. PICK j \in Jobs : j = worker[w].job
  BY <1>1
<1> DEFINE row  == [job[j] EXCEPT !.started = TRUE]
           next == [worker[w] EXCEPT !.step = "call"]
<1>3. JobInOrder(j) /\ job[j] \in JobRow /\ job[j].status = "LEASED"
  BY <1>1, <1>2 DEF Inv, ExecutionTypes, Holds, Fenced
<1>4. job' = [job EXCEPT ![j] = row] /\ job'[j] = row /\ \A k \in Jobs : k # j => job'[k] = job[k]
  BY <1>1, <1>2 DEF MarkProviderStarted, ExecutionTypes
<1>5. /\ row \in JobRow /\ row.started = TRUE /\ row.status = job[j].status /\ row.lease = job[j].lease
      /\ row.token = job[j].token /\ row.attempts = job[j].attempts
  BY <1>3 DEF JobRow
<1>6. worker' = [worker EXCEPT ![w] = next] /\ worker'[w] = next /\ \A v \in Workers : v # w => worker'[v] = worker[v]
  BY <1>1 DEF Goto, ExecutionTypes
<1>7. next \in WorkerRow /\ next.step = "call" /\ next.job = worker[w].job /\ next.token = worker[w].token
  BY <1>1 DEF WorkerRow, Steps
<1> HIDE DEF row, next
<1>8. ExecutionTypes'
  BY <1>1, <1>4, <1>5, <1>6, <1>7 DEF ExecutionTypes
<1>9. \A k \in Jobs : job'[k].token = job[k].token
  BY <1>4, <1>5
<1>10. \A v \in Workers : /\ Busy(v)' <=> Busy(v)
                          /\ worker'[v].job = worker[v].job /\ worker'[v].token = worker[v].token
  BY <1>1, <1>6, <1>7 DEF Busy
<1>11. TokensInOrder'
  BY <1>9, <1>10 DEF Inv, TokensInOrder, Busy
<1>12. ASSUME NEW k \in Jobs PROVE JobInOrder(k)'
  <2>1. CASE k = j
    BY <1>1, <1>3, <1>4, <1>5, <2>1 DEF JobInOrder, IsGated
  <2>2. CASE k # j
    BY <1>1, <1>4, <2>2 DEF Inv, JobInOrder, IsGated
  <2> QED
    BY <2>1, <2>2
<1>13. WorkerInOrder(w)'
  <2>1. IsGated(j) => j \in reserved /\ calls[j] = 0
    BY <1>1, <1>2, <1>3 DEF WorkerInOrder, JobInOrder
  <2> QED
    BY <1>1, <1>2, <1>4, <1>5, <1>6, <1>7, <2>1 DEF WorkerInOrder, Busy, Current, IsGated
<1>14. ASSUME NEW v \in Workers, v # w PROVE WorkerInOrder(v)'
  <2>1. worker'[v] = worker[v] /\ WorkerInOrder(v)
    BY <1>6, <1>14 DEF Inv
  <2>2. CASE Busy(v) /\ worker[v].job = j
    <3>1. ~Current(v) /\ ~Current(v)'
      BY <1>1, <1>2, <1>9, <1>14, <2>1, <2>2, OneCurrent DEF Current
    <3> QED
      BY <1>1, <2>1, <2>2, <3>1 DEF WorkerInOrder, Busy, IsGated
  <2>3. CASE Busy(v) /\ worker[v].job # j
    <3>1. job'[worker[v].job] = job[worker[v].job]
      BY <1>4, <2>3 DEF Inv, TokensInOrder
    <3> QED
      BY <1>1, <2>1, <2>3, <3>1 DEF WorkerInOrder, Busy, Current, IsGated
  <2>4. CASE ~Busy(v)
    BY <2>1, <2>4 DEF WorkerInOrder, Busy
  <2> QED
    BY <2>2, <2>3, <2>4
<1> QED
  BY <1>8, <1>11, <1>12, <1>13, <1>14 DEF Inv

LEMMA CallKeeps == ASSUME Inv, NEW w \in Workers, Call(w) PROVE Inv'
<1>1. /\ ExecutionTypes /\ WorkerInOrder(w) /\ Busy(w) /\ worker[w].job \in Jobs /\ worker[w] \in WorkerRow
      /\ worker[w].step = "call" /\ UNCHANGED <<plan, period, job, reserved>>
  BY DEF Inv, ExecutionTypes, TokensInOrder, Busy, Call, planVars
<1>2. PICK j \in Jobs : j = worker[w].job
  BY <1>1
<1>3. PICK verdict \in {"SUCCEEDED", "NEEDS_REVIEW", "FAILED"}, error \in {"none", "failed"} :
        /\ Verdict(w, verdict, error)
        /\ verdict = "SUCCEEDED" => calls' = [calls EXCEPT ![j] = @ + 1]
  BY <1>2 DEF Call
<1>4. PICK count \in Nat : /\ calls' = [calls EXCEPT ![j] = count]
                           /\ count = calls[j] \/ count = calls[j] + 1
                           /\ verdict = "SUCCEEDED" => count = calls[j] + 1
  <2>1. CASE calls' = [calls EXCEPT ![j] = @ + 1]
    <3>1. PICK count \in Nat : count = calls[j] + 1
      BY <1>1 DEF ExecutionTypes
    <3>2. calls' = [calls EXCEPT ![j] = count]
      BY <2>1, <3>1
    <3> QED
      BY <3>1, <3>2
  <2>2. CASE UNCHANGED calls /\ verdict # "SUCCEEDED"
    BY <1>1, <2>2 DEF ExecutionTypes
  <2> QED
    BY <1>2, <1>3, <2>1, <2>2 DEF Call
<1> DEFINE next == [worker[w] EXCEPT !.step = "finish", !.verdict = verdict, !.error = error]
<1>5. worker' = [worker EXCEPT ![w] = next] /\ worker'[w] = next /\ \A v \in Workers : v # w => worker'[v] = worker[v]
  BY <1>1, <1>3 DEF Verdict, ExecutionTypes
<1>6. /\ next \in WorkerRow /\ next.step = "finish" /\ next.verdict = verdict
      /\ next.job = worker[w].job /\ next.token = worker[w].token
  BY <1>1 DEF WorkerRow, Steps, Final
<1> HIDE DEF next
<1>7. calls'[j] = count /\ \A k \in Jobs : k # j => calls'[k] = calls[k]
  BY <1>1, <1>4 DEF ExecutionTypes
<1>8. ExecutionTypes'
  BY <1>1, <1>4, <1>5, <1>6 DEF ExecutionTypes
<1>9. TokensInOrder'
  <2>1. \A v \in Workers : /\ Busy(v)' <=> Busy(v)
                           /\ worker'[v].job = worker[v].job /\ worker'[v].token = worker[v].token
    BY <1>1, <1>5, <1>6 DEF Busy
  <2> QED
    BY <1>1, <2>1 DEF Inv, TokensInOrder, Busy
<1>10. IsGated(j) => Current(w) /\ job[j].started = TRUE /\ calls[j] = 0 /\ j \in reserved
  BY <1>1, <1>2 DEF WorkerInOrder
<1>11. ASSUME NEW k \in Jobs PROVE JobInOrder(k)'
  <2>1. JobInOrder(k)
    BY DEF Inv
  <2>2. CASE k = j
    BY <1>1, <1>4, <1>7, <1>10, <2>1, <2>2 DEF JobInOrder, IsGated
  <2>3. CASE k # j
    BY <1>1, <1>7, <2>1, <2>3 DEF JobInOrder, IsGated
  <2> QED
    BY <2>2, <2>3
<1>12. WorkerInOrder(w)'
  BY <1>1, <1>2, <1>4, <1>5, <1>6, <1>7, <1>10 DEF WorkerInOrder, Busy, Current, IsGated
<1>13. ASSUME NEW v \in Workers, v # w PROVE WorkerInOrder(v)'
  <2>1. worker'[v] = worker[v] /\ WorkerInOrder(v)
    BY <1>5, <1>13 DEF Inv
  <2>2. CASE Busy(v) /\ worker[v].job = j /\ IsGated(j)
    <3>1. ~Current(v)
      BY <1>1, <1>2, <1>10, <1>13, <2>2, OneCurrent
    <3>2. ~(worker[v].step = "finish" /\ worker[v].verdict = "SUCCEEDED")
      BY <1>10, <2>1, <2>2 DEF WorkerInOrder
    <3> QED
      BY <1>1, <2>1, <2>2, <3>1, <3>2 DEF WorkerInOrder, Busy, Current, IsGated
  <2>3. CASE Busy(v) /\ worker[v].job = j /\ ~IsGated(j)
    BY <1>1, <2>1, <2>3 DEF WorkerInOrder, Busy, IsGated
  <2>4. CASE Busy(v) /\ worker[v].job # j
    <3>1. calls'[worker[v].job] = calls[worker[v].job]
      BY <1>7, <2>4 DEF Inv, TokensInOrder
    <3> QED
      BY <1>1, <2>1, <2>4, <3>1 DEF WorkerInOrder, Busy, Current, IsGated
  <2>5. CASE ~Busy(v)
    BY <2>1, <2>5 DEF WorkerInOrder, Busy
  <2> QED
    BY <2>2, <2>3, <2>4, <2>5
<1> QED
  BY <1>8, <1>9, <1>11, <1>12, <1>13 DEF Inv

-----------------------------------------------------------------------------
(* A new owner gets a token nobody has.                                    *)

LEMMA LeaseKeeps == ASSUME Inv, NEW w \in Workers, NEW j \in Jobs, LeaseJob(w, j) PROVE Inv'
<1>1. /\ ExecutionTypes /\ ~Busy(w) /\ Due(j) /\ ~Unknown(j)
      /\ JobInOrder(j) /\ job[j] \in JobRow /\ job[j].attempts < MaxAttempts
      /\ UNCHANGED <<plan, period, reserved, calls>>
  BY DEF Inv, ExecutionTypes, LeaseJob, Busy, planVars
<1>2. PICK attempts \in 0..MaxAttempts : attempts = job[j].attempts + 1 /\ attempts = job[j].token + 1
  BY <1>1, SchedulingAssumption DEF JobRow, JobInOrder
<1> DEFINE row  == [job[j] EXCEPT !.status = "LEASED", !.lease = "valid", !.error = "none",
                                  !.attempts = attempts, !.token = attempts]
           next == [Idle EXCEPT !.step = "check", !.job = j, !.token = attempts]
<1>3. job' = [job EXCEPT ![j] = row] /\ job'[j] = row /\ \A k \in Jobs : k # j => job'[k] = job[k]
  <2>1. job' = [job EXCEPT ![j] = row]
    BY <1>2 DEF LeaseJob
  <2> QED
    BY <1>1, <2>1 DEF ExecutionTypes
<1>4. /\ row \in JobRow /\ row.started = job[j].started /\ row.status = "LEASED" /\ row.lease = "valid"
      /\ row.token = attempts /\ row.attempts = attempts
  BY <1>1 DEF JobRow
<1>5. worker' = [worker EXCEPT ![w] = next] /\ worker'[w] = next /\ \A v \in Workers : v # w => worker'[v] = worker[v]
  BY <1>1, <1>2 DEF LeaseJob, ExecutionTypes
<1>6. next \in WorkerRow /\ next.step = "check" /\ next.job = j /\ next.token = attempts
  BY IdleRow DEF Idle, WorkerRow, Steps
<1> HIDE DEF row, next
<1>7. ExecutionTypes'
  BY <1>1, <1>3, <1>4, <1>5, <1>6 DEF ExecutionTypes
<1>8. job[j].token \in Nat /\ attempts = job[j].token + 1
  BY <1>1, <1>2 DEF JobRow
<1>9. \A v \in Workers : v # w /\ Busy(v) /\ worker[v].job = j => worker[v].token < attempts
  <2> SUFFICES ASSUME NEW v \in Workers, Busy(v), worker[v].job = j PROVE worker[v].token < attempts
    OBVIOUS
  <2>1. worker[v].token \in Nat /\ worker[v].token <= job[j].token
    BY <1>1 DEF Inv, TokensInOrder, ExecutionTypes, WorkerRow
  <2> QED
    BY <1>8, <2>1
<1>10. ASSUME NEW v \in Workers, Busy(v)' PROVE worker'[v].job \in Jobs /\ worker'[v].token <= job'[worker'[v].job].token
  <2>1. CASE v = w
    BY <1>3, <1>4, <1>5, <1>6, <2>1
  <2>2. CASE v # w
    <3>1. Busy(v) /\ worker[v].job \in Jobs /\ worker[v].token <= job[worker[v].job].token
      BY <1>5, <1>10, <2>2 DEF Busy, Inv, TokensInOrder
    <3>2. CASE worker[v].job = j
      <4>1. worker[v].token < attempts /\ worker[v].token \in Nat /\ attempts \in Nat
        BY <1>1, <1>2, <1>9, <2>2, <3>1, <3>2 DEF ExecutionTypes, WorkerRow
      <4> QED
        BY <1>3, <1>4, <1>5, <2>2, <3>2, <4>1
    <3>3. CASE worker[v].job # j
      BY <1>3, <1>5, <2>2, <3>1, <3>3
    <3> QED
      BY <3>2, <3>3
  <2> QED
    BY <2>1, <2>2
<1>11. ASSUME NEW u \in Workers, NEW v \in Workers, Busy(u)', Busy(v)', u # v
       PROVE ~(worker'[u].job = worker'[v].job /\ worker'[u].token = worker'[v].token)
  <2>1. CASE u # w /\ v # w
    BY <1>5, <1>11, <2>1 DEF Busy, Inv, TokensInOrder
  <2>2. CASE u = w \/ v = w
    BY <1>5, <1>6, <1>8, <1>9, <1>11, <2>2 DEF Busy
  <2> QED
    BY <2>1, <2>2
<1>12. TokensInOrder'
  BY <1>10, <1>11 DEF TokensInOrder, Busy
<1>13. IsGated(j) => job[j].started = FALSE
  BY <1>1 DEF Due, Unknown, JobInOrder, JobRow
<1>14. ASSUME NEW k \in Jobs PROVE JobInOrder(k)'
  <2>1. JobInOrder(k)
    BY DEF Inv
  <2>2. CASE k = j
    BY <1>1, <1>3, <1>4, <1>13, <2>1, <2>2 DEF JobInOrder, IsGated
  <2>3. CASE k # j
    BY <1>1, <1>3, <2>1, <2>3 DEF JobInOrder, IsGated
  <2> QED
    BY <2>2, <2>3
<1>15. WorkerInOrder(w)'
  BY <1>1, <1>3, <1>4, <1>5, <1>6, <1>13 DEF WorkerInOrder, IsGated
<1>16. ASSUME NEW v \in Workers, v # w PROVE WorkerInOrder(v)'
  <2>1. worker'[v] = worker[v] /\ WorkerInOrder(v)
    BY <1>5, <1>16 DEF Inv
  <2>2. CASE Busy(v) /\ worker[v].job = j
    <3>1. ~Current(v)'
      BY <1>3, <1>4, <1>8, <1>9, <1>16, <2>1, <2>2 DEF Current
    <3>2. worker[v].step # "call" \/ ~IsGated(j)
      BY <1>13, <2>1, <2>2 DEF WorkerInOrder
    <3> QED
      BY <1>1, <2>1, <2>2, <3>1, <3>2 DEF WorkerInOrder, Busy, IsGated
  <2>3. CASE Busy(v) /\ worker[v].job # j
    <3>1. job'[worker[v].job] = job[worker[v].job]
      BY <1>3, <2>3 DEF Inv, TokensInOrder
    <3> QED
      BY <1>1, <2>1, <2>3, <3>1 DEF WorkerInOrder, Busy, Current, IsGated
  <2>4. CASE ~Busy(v)
    BY <2>1, <2>4 DEF WorkerInOrder, Busy
  <2> QED
    BY <2>2, <2>3, <2>4
<1> QED
  BY <1>7, <1>12, <1>14, <1>15, <1>16 DEF Inv

-----------------------------------------------------------------------------
(* The theorems.                                                           *)

LEMMA NextKeeps == Inv /\ [Next]_vars => Inv'
<1> SUFFICES ASSUME Inv, [Next]_vars PROVE Inv'
  OBVIOUS
<1>1. CASE UNCHANGED vars
  BY <1>1, PlanningStep DEF vars, Inv, ExecutionTypes
<1>2. ASSUME NEW s \in Schedules, RegisterSchedule(s) \/ PeriodFallsDue(s) PROVE Inv'
  BY <1>2, PlanningKeeps
<1>3. ASSUME NEW d \in Schedulers, ListDueSchedules(d) \/ Visit(d) \/ CursorFails(d) PROVE Inv'
  BY <1>3, PlanningKeeps, EnqueueKeeps DEF Visit
<1>4. ASSUME NEW w \in Workers, Claim(w) \/ Execute(w) \/ WorkerDies(w) PROVE Inv'
  <2>1. CASE Claim(w)
    BY <2>1, StopKeeps, LeaseKeeps DEF Claim
  <2>2. CASE Execute(w)
    <3>1. CASE AssertLease(w) \/ Authorize(w) \/ Reserve(w) \/ ReserveDenied(w)
      BY <3>1, GateKeeps, Zenon
    <3>2. CASE MarkProviderStarted(w)
      BY <3>2, GateKeeps, MarkKeeps
    <3>3. CASE Call(w) \/ Finish(w)
      BY <3>3, CallKeeps, LeaveKeeps
    <3> QED
      BY <2>2, <3>1, <3>2, <3>3 DEF Execute
  <2> QED
    BY <1>4, <2>1, <2>2, LeaveKeeps
<1>5. ASSUME NEW j \in Jobs, LeaseExpires(j) PROVE Inv'
  BY <1>5, LeaseExpiresKeeps
<1>6. CASE ChangeAdmission
  BY <1>6, PlanningKeeps
<1> QED
  BY <1>1, <1>2, <1>3, <1>4, <1>5, <1>6 DEF Next

\* The tokens stay unique and the boundary is written before the one call behind
\* it, in every state.
THEOREM InvHolds == Spec => []Inv
<1> QED
  BY Initially, NextKeeps, PTL DEF Spec

\* A paid provider is called at most once for a job, and only for a job that
\* reserved budget: for any number of workers that crash and lose their leases.
THEOREM CallsArePaidOnce == Spec => []PaidOnce
<1>1. Inv => PaidOnce
  <2> SUFFICES ASSUME Inv, NEW j \in Jobs, IsGated(j) PROVE calls[j] <= IF j \in reserved THEN 1 ELSE 0
    BY DEF PaidOnce
  <2>1. calls[j] \in Nat /\ calls[j] <= 1 /\ (calls[j] > 0 => j \in reserved)
    BY DEF Inv, ExecutionTypes, JobInOrder
  <2> QED
    BY <2>1
<1> QED
  BY <1>1, InvHolds, PTL

\* What is recorded for a paid job is what happened at the provider.
THEOREM OutcomesAreTrue == Spec => []OutcomeIsTrue
<1>1. Inv => OutcomeIsTrue
  BY DEF Inv, JobInOrder, OutcomeIsTrue
<1> QED
  BY <1>1, InvHolds, PTL

\* No late owner, claim or enqueue touches a job that is final.
THEOREM FinalJobsStand == Spec => OutcomeStands
<1> DEFINE Stands == \A j \in Jobs : job[j].status \in Final => job'[j] = job[j]
<1>1. Inv /\ [Next]_vars => [Stands]_vars
  <2> SUFFICES ASSUME Inv, Next, NEW j \in Jobs, job[j].status \in Final PROVE job'[j] = job[j]
    OBVIOUS
  <2>1. ExecutionTypes /\ job[j].lease = "none" /\ job[j].status \notin {"ABSENT", "QUEUED", "LEASED"}
    BY DEF Inv, ExecutionTypes, JobInOrder, JobRow, Final
  <2>2. ASSUME NEW d \in Schedulers, EnqueueDueSchedule(d) PROVE job'[j] = job[j]
    BY <2>1, <2>2 DEF EnqueueDueSchedule, ExecutionTypes
  <2>3. ASSUME NEW w \in Workers, Claim(w) PROVE job'[j] = job[j]
    <3>1. PICK k \in Jobs : StopUnknown(w, k) \/ StopExhausted(w, k) \/ LeaseJob(w, k)
      BY <2>3 DEF Claim
    <3>2. k # j
      BY <2>1, <3>1 DEF StopUnknown, StopExhausted, LeaseJob, Due
    <3> QED
      BY <2>1, <3>1, <3>2 DEF StopUnknown, StopExhausted, LeaseJob, ExecutionTypes
  <2>4. ASSUME NEW w \in Workers, MarkProviderStarted(w) \/ Finish(w) PROVE job'[j] = job[j]
    BY <2>1, <2>4 DEF MarkProviderStarted, Finish, Holds, Fenced, ExecutionTypes
  <2>5. ASSUME NEW k \in Jobs, LeaseExpires(k) PROVE job'[j] = job[j]
    BY <2>1, <2>5 DEF LeaseExpires, ExecutionTypes
  <2>6. CASE UNCHANGED job
    BY <2>6
  <2> QED
    BY <2>2, <2>3, <2>4, <2>5, <2>6 DEF Next, Visit, Execute, RegisterSchedule, PeriodFallsDue,
       ListDueSchedules, EnqueueFails, CursorFails, AssertLease, Authorize, Reserve, ReserveDenied, Call,
       WorkerDies, ChangeAdmission
<1> QED
  BY <1>1, InvHolds, PTL DEF Spec, OutcomeStands
=============================================================================
