-------------------------- MODULE AgentTeamTasks --------------------------
(***************************************************************************)
(* The tasks of one agent team session run as durable jobs: what users ask *)
(* for (run_ready_tasks_once, run_task, retry_task, cancel_task,           *)
(* cancel_session) and what the workers do with a job (run_task_claimed,   *)
(* services/agent_team/run_orchestration.py), over the task table, the job *)
(* table and the table of resource claims (multi_agent/resource_lock.py).  *)
(*                                                                         *)
(* Every actor is a process of its own, so the scheduler lock, a lock of   *)
(* the process, excludes nobody here: every statement is a step of its     *)
(* own, and whoever changes a row reads it in one step and saves it whole  *)
(* in a later one.  Leases have no clock: one may lapse as soon as nobody  *)
(* renews it.                                                              *)
(***************************************************************************)
EXTENDS Integers, FiniteSets

CONSTANTS
  Tasks, Resources,
  Deps,            \* [Tasks -> SUBSET Tasks]: task.dependencies
  Needs,           \* [Tasks -> SUBSET Resources]: task.resource_claims
  Executors,       \* durable workers, one thread in each process
  Users,           \* requests that may be in flight together
  NoOne,           \* no executor, no task
  MaxParallel,     \* agent_role_max_parallel_runs
  MaxAttempts,     \* task.max_attempts
  ResourceLocks,   \* multi_agent_resource_lock_enabled
  DagScheduler,    \* multi_agent_dag_scheduler_enabled
  FailureHandler,  \* multi_agent_failure_handler_enabled
  MaxEvents        \* bound: requests, crashes, stalls and backend errors

ASSUME TeamAssumption ==
  /\ Deps \in [Tasks -> SUBSET Tasks]
  /\ Needs \in [Tasks -> SUBSET Resources]
  /\ Executors \intersect Users = {}
  /\ NoOne \notin Executors \union Tasks
  /\ MaxParallel \in Nat /\ MaxAttempts \in Nat
  /\ ResourceLocks \in BOOLEAN /\ DagScheduler \in BOOLEAN /\ FailureHandler \in BOOLEAN
  /\ MaxEvents \in Nat

VARIABLES
  task,       \* the task table: [Tasks -> Row]
  live,       \* tokens of task claims whose claimed_until is to come
  newest,     \* the last token claim_task drew for a task (0: none)
  lastToken,  \* tokens are drawn in order; the code draws uuids
  job,        \* the job table, one key per task
  worker,     \* [Executors -> WorkerState]
  claims,     \* unexpired resource claims, with the token of their execution
  plan,       \* what a request or a next wave has read and is about to write
  results,    \* tasks with an output that is to complete them
  cancelled,  \* is the session cancelled?
  events,     \* requests and faults so far
  mishap      \* the code has dropped a task: see EveryTaskSettles

data == <<task, live, newest, lastToken, job, results, cancelled>>
vars == <<data, worker, claims, plan, events, mishap>>

Statuses == {"PENDING", "QUEUED", "RUNNING", "DONE", "FAILED", "BLOCKED", "CANCELLED"}
Active == {"QUEUED", "RUNNING"}
Row == [status : Statuses, attempt : Nat, token : Nat, cancel : BOOLEAN]

JobAttempts == 2
JobState == [status : {"none", "pending", "running"}, attempt : 0..JobAttempts,
             by : Executors \union {NoOne}]
NoJob == [status |-> "none", attempt |-> 0, by |-> NoOne]
PendingJob == [status |-> "pending", attempt |-> 0, by |-> NoOne]

PCs == {"idle", "claiming", "acquiring", "starting", "body", "committing",
        "recording", "updating", "releasing", "committed", "lost", "raised",
        "finishing", "failing"}
WorkerState == [pc : PCs, task : Tasks \union {NoOne}, token : Nat, got : SUBSET Resources,
                beating : BOOLEAN, stalled : BOOLEAN, final : Statuses]
IdleWorker == [pc |-> "idle", task |-> NoOne, token |-> 0, got |-> {}, beating |-> FALSE,
               stalled |-> FALSE, final |-> "PENDING"]

Claim == [res : Resources, task : Tasks, token : Nat]

Schedulers == Executors \union Users
Kinds == {"none", "wave", "queue", "run", "retry", "cancel", "stop", "begin", "record", "update"}
IsPlan(p) ==
  /\ p = [kind |-> p.kind, read |-> p.read, due |-> p.due]
  /\ p.kind \in Kinds /\ p.due \subseteq Tasks
  /\ DOMAIN p.read \subseteq Tasks /\ p.read \in [DOMAIN p.read -> Row]
NoRows == [t \in {} |-> 0]
NoPlan == [kind |-> "none", read |-> NoRows, due |-> {}]

Init ==
  /\ task = [t \in Tasks |-> [status |-> "PENDING", attempt |-> 0, token |-> 0, cancel |-> FALSE]]
  /\ live = {} /\ newest = [t \in Tasks |-> 0] /\ lastToken = 0
  /\ job = [t \in Tasks |-> NoJob]
  /\ worker = [e \in Executors |-> IdleWorker]
  /\ claims = {}
  /\ plan = [s \in Schedulers |-> NoPlan]
  /\ results = {}
  /\ cancelled = FALSE
  /\ events = 0 /\ mishap = FALSE

-----------------------------------------------------------------------------
\* One more request or fault.
Event == events < MaxEvents /\ events' = events + 1

(* The three tables. *)

\* A row that runs is not replaced.
Accepts(t) == job[t].status # "running"

\* enqueue_job with "replace": a row that runs is not replaced.  The queue of
\* the process, which is asked next, refuses the key of a running job as well.
Enqueue(t) == IF Accepts(t) THEN [job EXCEPT ![t] = PendingJob] ELSE job

\* Variant: the token is compared and the lease is not looked at.
Alive_ByToken(e) == task[worker[e].task].token = worker[e].token

\* heartbeat_task_claim and release_task_claim find the claim of e in place.
Alive(e) ==
  /\ task[worker[e].task].token = worker[e].token
  /\ worker[e].token \in live

\* release_task_claim of a claim that is in place, otherwise nothing.
Released(e, status) ==
  IF Alive(e)
  THEN [task EXCEPT ![worker[e].task].status = status, ![worker[e].task].token = 0]
  ELSE task

\* claimed_until is part of the row: a token that no row shows any more, nor a
\* row that was read and may be saved, is gone for good.
Forget ==
  live' = {k \in live : \/ \E t \in Tasks : task'[t].token = k
                        \/ \E s \in Schedulers : \E t \in DOMAIN plan'[s].read :
                             plan'[s].read[t].token = k}

\* Rows are read, changed and saved whole.
Rows(S) == [t \in S |-> task[t]]
SetPlan(s, kind, read, due) ==
  plan' = [plan EXCEPT ![s] = [kind |-> kind, read |-> read, due |-> due]]

ClaimsOf(k) == {c \in claims : c.token = k}

\* e has stopped and left its task to a claim that has run out.
Dropped(e) == ~Alive(e) /\ task[worker[e].task].token = worker[e].token

\* Is somebody about to renew a lease, or to be done before it ends?  The
\* heartbeat thread runs beside the body, the other steps are short.
Tended(k) ==
  \E e \in Executors :
    /\ worker[e].token = k /\ worker[e].pc # "idle" /\ ~worker[e].stalled
    /\ worker[e].pc = "body" => worker[e].beating

\* Variant: the heartbeat thread renews the claim on the task only.
ClaimTended_TaskOnly(c) ==
  \E e \in Executors :
    /\ worker[e].token = c.token /\ ~worker[e].stalled
    /\ worker[e].pc \in PCs \ {"idle", "body"}

\* It renews the claims on the resources as well.
ClaimTended(c) == Tended(c.token)

LeaseLapses(k) ==
  /\ k \in live /\ ~Tended(k)
  /\ live' = live \ {k}
  /\ UNCHANGED <<task, newest, lastToken, job, results, cancelled, worker, claims, plan, events, mishap>>

ClaimLapses(c) ==
  /\ c \in claims /\ ~ClaimTended(c)
  /\ claims' = claims \ {c}
  /\ UNCHANGED <<data, worker, plan, events, mishap>>

\* The claim on a job lapses when its worker is gone or stalled.  It lasts as
\* long as the claim on the task and is renewed more often, and its retry
\* waits some seconds: by then the claims of that execution have lapsed too.
JobLapses(t) ==
  /\ job[t].status = "running"
  /\ LET e == job[t].by IN worker[e].task # t \/ worker[e].stalled
  /\ newest[t] \notin live /\ ClaimsOf(newest[t]) = {}
  /\ IF job[t].attempt < JobAttempts
     THEN job' = [job EXCEPT ![t].status = "pending", ![t].by = NoOne] /\ UNCHANGED mishap
     ELSE job' = [job EXCEPT ![t] = NoJob] /\ mishap' = (mishap \/ task[t].status \in Active)
  /\ UNCHANGED <<task, live, newest, lastToken, results, cancelled, worker, claims, plan, events>>

-----------------------------------------------------------------------------
(* The worker and run_task_claimed. *)

SetWorker(e, w) == worker' = [worker EXCEPT ![e] = w]
At(e, pc) == worker[e].pc = pc
Goto(e, pc) == SetWorker(e, [worker[e] EXCEPT !.pc = pc])

\* run_task_claimed is over: only the job is left.
Finish(e, pc) ==
  SetWorker(e, [IdleWorker EXCEPT !.pc = pc, !.task = worker[e].task,
                                  !.stalled = worker[e].stalled])

\* claim_next_job.
TakeJob(e, t) ==
  /\ At(e, "idle") /\ job[t].status = "pending"
  /\ job' = [job EXCEPT ![t] = [status |-> "running", attempt |-> job[t].attempt + 1, by |-> e]]
  /\ SetWorker(e, [IdleWorker EXCEPT !.pc = "claiming", !.task = t])
  /\ UNCHANGED <<task, live, newest, lastToken, results, cancelled, claims, plan, events, mishap>>

\* Variant: only a queued task can be claimed.
Claimable_QueuedOnly(t) == task[t].status = "QUEUED" /\ task[t].token \notin live

\* A task whose execution died with its claim can be claimed again.
Claimable(t) == task[t].status \in Active /\ task[t].token \notin live

Locked(t) == ResourceLocks /\ Needs[t] # {}

\* claim_task; a job whose task is not to be claimed has nothing to do.
ClaimTask(e) ==
  LET t == worker[e].task  k == lastToken + 1 IN
  /\ At(e, "claiming")
  /\ \/ /\ Claimable(t)
        /\ task' = [task EXCEPT ![t] = [status |-> "RUNNING", attempt |-> task[t].attempt + 1,
                                        token |-> k, cancel |-> task[t].cancel]]
        /\ lastToken' = k /\ live' = live \union {k} /\ newest' = [newest EXCEPT ![t] = k]
        /\ SetWorker(e, [worker[e] EXCEPT !.pc = IF Locked(t) THEN "acquiring" ELSE "starting",
                                          !.token = k])
     \/ /\ ~Claimable(t)
        /\ Finish(e, "finishing")
        /\ UNCHANGED <<task, live, newest, lastToken>>
  /\ UNCHANGED <<job, results, cancelled, claims, plan, events, mishap>>

\* Claims of the same agent, that is of the same task, do not conflict.
Free(r, t) == \A c \in claims : c.res = r => c.task = t

\* try_acquire, one resource after the other, in any order here.
Acquire(e, r) ==
  LET t == worker[e].task IN
  /\ At(e, "acquiring") /\ r \in Needs[t] \ worker[e].got /\ Free(r, t)
  /\ claims' = claims \union {[res |-> r, task |-> t, token |-> worker[e].token]}
  /\ SetWorker(e, [worker[e] EXCEPT !.got = @ \union {r},
                     !.pc = IF Needs[t] = worker[e].got \union {r} THEN "starting" ELSE @])
  /\ UNCHANGED <<data, plan, events, mishap>>

\* A conflict: the claims acquired so far are released and the task goes back
\* to PENDING, to wait for a next wave: nobody announces a free resource.
AcquireRefused(e, r) ==
  /\ At(e, "acquiring") /\ r \in Needs[worker[e].task] \ worker[e].got
  /\ ~Free(r, worker[e].task)
  /\ claims' = claims \ ClaimsOf(worker[e].token)
  /\ task' = Released(e, "PENDING")
  /\ mishap' = (mishap \/ Dropped(e))
  /\ Finish(e, "finishing")
  /\ UNCHANGED <<newest, lastToken, job, results, cancelled, plan, events>>
  /\ Forget

\* try_acquire raises: what was acquired stays, the job fails, and its retry
\* will find the task claimed.
AcquireRaises(e) ==
  /\ At(e, "acquiring") /\ Event
  /\ mishap' = TRUE
  /\ Finish(e, "failing")
  /\ UNCHANGED <<data, claims, plan>>

\* execute_task_body up to the work itself: a cancelled task is not started,
\* any other is about to be RUNNING, whosever it is.
BeginBody(e) ==
  LET t == worker[e].task IN
  /\ At(e, "starting")
  /\ IF task[t].cancel
     THEN /\ SetWorker(e, [worker[e] EXCEPT !.pc = "committing", !.final = "CANCELLED"])
          /\ UNCHANGED plan
     ELSE /\ SetWorker(e, [worker[e] EXCEPT !.pc = "body", !.beating = TRUE])
          /\ SetPlan(e, "begin", Rows({t}), {})
  /\ UNCHANGED <<data, claims, events, mishap>>

\* _heartbeat_once: the first renewal that fails, or raises, is the last.
HeartbeatStops(e) ==
  /\ At(e, "body") /\ worker[e].beating
  /\ \/ /\ ~Alive(e) \/ worker[e].got # {c.res : c \in ClaimsOf(worker[e].token)}
        /\ UNCHANGED events
     \/ Event
  /\ SetWorker(e, [worker[e] EXCEPT !.beating = FALSE])
  /\ UNCHANGED <<data, claims, plan, mishap>>

\* The process stops for longer than its leases while it executes a task.
Stall(e) ==
  /\ worker[e].token # 0 /\ ~worker[e].stalled /\ Event
  /\ SetWorker(e, [worker[e] EXCEPT !.stalled = TRUE])
  /\ UNCHANGED <<data, claims, plan, mishap>>

\* FailureHandler.decide: retry once, reassign once (both queue the task),
\* then degrade what can be degraded and escalate the rest.
Strategies(t) ==
  IF task[t].attempt <= 2 THEN {"QUEUED"} ELSE {"DONE", "BLOCKED"}

AttemptsLeft(t) == task[t].attempt < MaxAttempts

\* What an exception of the body makes of the task.
AfterException(t) ==
  IF FailureHandler THEN Strategies(t)
  ELSE IF AttemptsLeft(t) THEN {"QUEUED"} ELSE {"FAILED"}

\* The body raises.  A degraded output is recorded whoever holds the task.
BodyRaises(e, final) ==
  LET t == worker[e].task IN
  /\ At(e, "body") /\ plan[e] = NoPlan /\ final \in AfterException(t)
  /\ SetWorker(e, [worker[e] EXCEPT !.pc = "raised", !.beating = FALSE, !.final = final])
  /\ IF final = "DONE"
     THEN /\ results' = results \union {t}
          /\ SetPlan(e, "record", Rows({t}), {})
     ELSE UNCHANGED <<results, plan>>
  /\ UNCHANGED <<task, live, newest, lastToken, job, cancelled, claims, events, mishap>>

\* The outcome that e is about to commit.
Settle(e, status) ==
  SetWorker(e, [worker[e] EXCEPT !.pc = "committing", !.beating = FALSE, !.final = status])

\* The body returns; what to commit is settled on a row read outside the lock.
BodyReturns(e, final) ==
  LET t == worker[e].task IN
  /\ At(e, "body") /\ plan[e] = NoPlan
  /\ IF task[t].cancel THEN Settle(e, "CANCELLED")
     ELSE IF final = "FAILED" /\ FailureHandler
     THEN \E s \in Strategies(t) \ {"BLOCKED"} : Settle(e, s)
     ELSE Settle(e, final)
  /\ UNCHANGED <<data, claims, plan, events, mishap>>

\* The claim is renewed; or it turns out to be lost, and the outcome is not
\* written.  Without an output there is nothing to record.
CheckClaim(e) ==
  /\ At(e, "committing")
  /\ IF Alive(e)
     THEN \E pc \in {"recording", "updating"} :
            /\ worker[e].final \in {"CANCELLED", "QUEUED"} => pc = "updating"
            /\ worker[e].final = "DONE" => pc = "recording"
            /\ SetWorker(e, [worker[e] EXCEPT !.pc = pc, !.stalled = FALSE])
     ELSE SetWorker(e, [worker[e] EXCEPT !.pc = "lost",
                          !.final = IF AttemptsLeft(worker[e].task) THEN "QUEUED" ELSE "FAILED"])
  /\ UNCHANGED <<data, claims, plan, events, mishap>>

\* record_task_output adds the output, and will save the row it read before.
Record(e) ==
  /\ At(e, "recording")
  /\ results' = IF worker[e].final = "DONE" THEN results \union {worker[e].task} ELSE results
  /\ SetPlan(e, "record", Rows({worker[e].task}), {})
  /\ Goto(e, "updating")
  /\ UNCHANGED <<task, live, newest, lastToken, job, cancelled, claims, events, mishap>>

\* update_task with the outcome.
Update(e) ==
  /\ At(e, "updating") /\ plan[e] = NoPlan
  /\ SetPlan(e, "update", Rows({worker[e].task}), {})
  /\ Goto(e, "releasing")
  /\ UNCHANGED <<data, claims, events, mishap>>

Release(e) ==
  /\ At(e, "releasing") /\ plan[e] = NoPlan
  /\ task' = Released(e, worker[e].final)
  /\ Goto(e, "committed")
  /\ UNCHANGED <<newest, lastToken, job, results, cancelled, claims, plan, events, mishap>>
  /\ Forget

\* After an exception, or with its claim lost, e releases what it still has.
\* A task that is queued again is offered as a job while its job runs.
GiveUp(e) ==
  LET t == worker[e].task
      again == worker[e].final = "QUEUED" /\ (At(e, "lost") => task'[t].token = 0) IN
  /\ worker[e].pc \in {"raised", "lost"} /\ plan[e] = NoPlan
  /\ task' = Released(e, worker[e].final)
  /\ claims' = claims \ ClaimsOf(worker[e].token)
  /\ job' = IF again THEN Enqueue(t) ELSE job
  /\ mishap' = (mishap \/ Dropped(e) \/ (again /\ ~Accepts(t)))
  /\ Finish(e, "finishing")
  /\ UNCHANGED <<newest, lastToken, results, cancelled, plan, events>>
  /\ Forget

\* The handler returned, or raised: the row of the job, if it is still its own.
JobEnds(e) ==
  LET t == worker[e].task IN
  /\ worker[e].pc \in {"finishing", "failing"} /\ plan[e] = NoPlan
  /\ job' = IF job[t].by # e THEN job
            ELSE IF At(e, "failing") /\ job[t].attempt < JobAttempts
            THEN [job EXCEPT ![t].status = "pending", ![t].by = NoOne]
            ELSE [job EXCEPT ![t] = NoJob]
  /\ SetWorker(e, IdleWorker)
  /\ UNCHANGED <<task, live, newest, lastToken, results, cancelled, claims, plan, events, mishap>>

-----------------------------------------------------------------------------
(* Waves: which pending tasks are to be queued. *)

InStatus(S) == {t \in Tasks : task[t].status \in S}
DepsDone(t) == Deps[t] \subseteq InStatus({"DONE"})
Capacity == MaxParallel - Cardinality(InStatus(Active))

\* list_runnable_tasks, cut to the capacity; sort_order is left open.
Runnable == {t \in InStatus({"PENDING"}) : DepsDone(t)}
PlainWaves ==
  {W \in SUBSET Runnable : \/ Cardinality(W) = Capacity
                           \/ W = Runnable /\ Cardinality(W) < Capacity}

\* Does t depend, directly or not, on a task that failed?
BlockedByFailure(t) ==
  \A S \in SUBSET Tasks :
    t \in S /\ (\A u \in S : Deps[u] \subseteq S)
      => S \intersect InStatus({"FAILED", "CANCELLED"}) # {}

\* DAGTaskScheduler.compute_next_wave: tasks that share no resource.  Blocked
\* tasks count as ready there and are taken out of the wave afterwards.
DagReady ==
  {t \in InStatus({"PENDING", "BLOCKED"}) : DepsDone(t) /\ ~BlockedByFailure(t)}
NoConflict(W) == \A t, u \in W : t # u => Needs[t] \intersect Needs[u] = {}
DagWaves ==
  {W \in SUBSET DagReady :
     /\ NoConflict(W) /\ Cardinality(W) <= Capacity
     /\ Cardinality(W) < Capacity => \A t \in DagReady \ W : ~NoConflict(W \union {t})}

Waves ==
  IF Capacity <= 0 THEN {{}}
  ELSE IF DagScheduler THEN {W \intersect InStatus({"PENDING"}) : W \in DagWaves}
  ELSE PlainWaves

-----------------------------------------------------------------------------
(* Requests and next waves. *)

Request(u) == plan[u] = NoPlan /\ Event

\* run_ready_tasks_once, for all tasks or for those the request names.
RunReady(u) ==
  /\ Request(u) /\ ~cancelled
  /\ \E W \in Waves : \E S \in (SUBSET W) \ {{}} : SetPlan(u, "wave", Rows(S), S)
  /\ UNCHANGED <<data, worker, claims, mishap>>

\* After the commit the resources are released.  Only a task that is done
\* calls the next wave, when nothing is active (maybe_schedule_next_wave).
LetGo(e) ==
  LET t == worker[e].task  final == worker[e].final IN
  /\ At(e, "committed")
  /\ claims' = claims \ ClaimsOf(worker[e].token)
  /\ job' = IF final = "QUEUED" THEN Enqueue(t) ELSE job
  /\ mishap' = (mishap \/ (final = "QUEUED" /\ ~Accepts(t)))
  /\ IF final = "DONE" /\ ~cancelled /\ InStatus(Active) = {}
     THEN \E W \in Waves : IF W = {} THEN UNCHANGED plan ELSE SetPlan(e, "wave", Rows(W), W)
     ELSE UNCHANGED plan
  /\ Finish(e, "finishing")
  /\ UNCHANGED <<task, live, newest, lastToken, results, cancelled, events>>

\* Variant: run_task does not look at the dependencies.
RunTask_Anyway(u, t) ==
  /\ Request(u) /\ task[t].status \in {"PENDING"} \union Active
  /\ SetPlan(u, "queue", Rows({t}), {t})
  /\ UNCHANGED <<data, worker, claims, mishap>>

\* run_task: update_task makes it QUEUED, or CANCELLED as it was asked to be.
RunTask(u, t) ==
  /\ Request(u) /\ DepsDone(t) /\ task[t].status \in {"PENDING"} \union Active
  /\ SetPlan(u, "queue", Rows({t}), IF task[t].cancel THEN {} ELSE {t})
  /\ UNCHANGED <<data, worker, claims, mishap>>

\* retry_task and cancel_task read the row before they wait for the lock.
RetryTask(u, t) ==
  /\ Request(u) /\ task[t].status \in {"FAILED", "BLOCKED", "CANCELLED"}
  /\ SetPlan(u, "retry", Rows({t}), IF DepsDone(t) THEN {t} ELSE {})
  /\ UNCHANGED <<data, worker, claims, mishap>>

CancelTask(u, t) ==
  /\ Request(u) /\ task[t].status \in {"PENDING"} \union Active
  /\ SetPlan(u, "cancel", Rows({t}), {})
  /\ UNCHANGED <<data, worker, claims, mishap>>

\* A task that runs is only asked to stop.
Stopped(row) ==
  [row EXCEPT !.status = IF row.status = "RUNNING" THEN "RUNNING" ELSE "CANCELLED",
              !.cancel = TRUE]

\* cancel_session reads the rows once and saves them one by one.
CancelSession(u) ==
  /\ Request(u)
  /\ SetPlan(u, "stop", Rows(InStatus({"PENDING"} \union Active)), {})
  /\ UNCHANGED <<data, worker, claims, mishap>>

StopTask(u, t) ==
  LET p == plan[u] IN
  /\ p.kind = "stop" /\ t \in DOMAIN p.read
  /\ task' = [task EXCEPT ![t] = Stopped(p.read[t])]
  /\ plan' = [plan EXCEPT ![u].read = [x \in DOMAIN p.read \ {t} |-> p.read[x]]]
  /\ mishap' = (mishap \/ task[t] # p.read[t])
  /\ UNCHANGED <<newest, lastToken, job, results, cancelled, worker, claims, events>>
  /\ Forget

SessionStopped(u) ==
  /\ plan[u].kind = "stop" /\ DOMAIN plan[u].read = {}
  /\ cancelled' = TRUE
  /\ plan' = [plan EXCEPT ![u] = NoPlan]
  /\ UNCHANGED <<task, live, newest, lastToken, job, results, worker, claims, events, mishap>>

\* The row that s saves, made of the row that it read.
Written(s, t) ==
  LET p == plan[s]  row == p.read[t] IN
  CASE p.kind = "wave"   -> [row EXCEPT !.status = "QUEUED"]
    [] p.kind = "queue"  -> [row EXCEPT !.status = IF p.due = {} THEN "CANCELLED" ELSE "QUEUED"]
    [] p.kind = "retry"  -> [row EXCEPT !.status = IF p.due = {} THEN "PENDING" ELSE "QUEUED",
                                        !.token = 0, !.cancel = FALSE]
    [] p.kind = "cancel" -> Stopped(row)
    [] p.kind = "begin"  -> [row EXCEPT !.status = "RUNNING"]
    [] p.kind = "update" -> [row EXCEPT !.status = worker[s].final]
    [] OTHER             -> row

\* What s is to do after its rows are saved: run_task saves the row that
\* update_task returned once more, jobs are enqueued.
After(s) ==
  LET p == plan[s] IN
  IF p.due = {} THEN NoPlan
  ELSE IF p.kind = "queue"
  THEN [kind |-> "run", read |-> [t \in DOMAIN p.read |-> Written(s, t)], due |-> p.due]
  ELSE [p EXCEPT !.read = NoRows]

\* run_task and retry_task take a cancelled session up again.  A task that
\* was finished meanwhile may be RUNNING, or QUEUED, again, with nobody to
\* finish it.
Save(s) ==
  LET p == plan[s] IN
  /\ DOMAIN p.read # {} /\ p.kind # "stop"
  /\ task' = [t \in Tasks |-> IF t \in DOMAIN p.read THEN Written(s, t) ELSE task[t]]
  /\ cancelled' = (cancelled /\ ~(p.kind \in {"run", "retry"} /\ p.due # {}))
  /\ plan' = [plan EXCEPT ![s] = After(s)]
  /\ mishap' = (mishap \/ (\E t \in DOMAIN p.read : task[t] # p.read[t])
                       \/ (p.kind \in {"begin", "update"} /\ ~Alive(s)))
  /\ UNCHANGED <<newest, lastToken, job, results, worker, claims, events>>
  /\ Forget

\* _enqueue_task_run; unless it is a retry, a task whose job is refused goes
\* back to PENDING (mark_task_enqueue_failed).
EnqueueDue(s, t) ==
  LET p == plan[s] IN
  /\ DOMAIN p.read = {} /\ t \in p.due
  /\ job' = Enqueue(t)
  /\ task' = IF Accepts(t) \/ p.kind = "retry" THEN task
             ELSE [task EXCEPT ![t].status = "PENDING", ![t].token = 0]
  /\ plan' = [plan EXCEPT ![s] = IF p.due = {t} THEN NoPlan ELSE [p EXCEPT !.due = @ \ {t}]]
  /\ mishap' = (mishap \/ (p.kind = "retry" /\ ~Accepts(t)))
  /\ UNCHANGED <<newest, lastToken, results, cancelled, worker, claims, events>>
  /\ Forget

-----------------------------------------------------------------------------
(* Processes die. *)

\* Tasks that are QUEUED in the table and not yet in the job table.
Halfway(s) ==
  plan[s].due # {} /\ (DOMAIN plan[s].read = {} \/ plan[s].kind = "run")

CrashWorker(e) ==
  /\ ~At(e, "idle") /\ Event
  /\ SetWorker(e, IdleWorker)
  /\ plan' = [plan EXCEPT ![e] = NoPlan]
  /\ mishap' = (mishap \/ Halfway(e))
  /\ UNCHANGED <<task, newest, lastToken, job, results, cancelled, claims>>
  /\ Forget

CrashRequest(u) ==
  /\ plan[u] # NoPlan /\ Event
  /\ plan' = [plan EXCEPT ![u] = NoPlan]
  /\ mishap' = (mishap \/ Halfway(u))
  /\ UNCHANGED <<task, newest, lastToken, job, results, cancelled, worker, claims>>
  /\ Forget

-----------------------------------------------------------------------------
Execute(e) ==
  \/ \E t \in Tasks : TakeJob(e, t)
  \/ \E r \in Resources : Acquire(e, r) \/ AcquireRefused(e, r)
  \/ \E final \in Statuses : BodyRaises(e, final)
  \/ \E final \in {"DONE", "FAILED", "BLOCKED"} : BodyReturns(e, final)
  \/ ClaimTask(e) \/ BeginBody(e) \/ CheckClaim(e) \/ Record(e) \/ Update(e) \/ Release(e)
  \/ GiveUp(e) \/ LetGo(e) \/ JobEnds(e)

Write(s) ==
  \/ Save(s) \/ SessionStopped(s)
  \/ \E t \in Tasks : EnqueueDue(s, t) \/ StopTask(s, t)

Ask(u) ==
  \/ RunReady(u) \/ CancelSession(u)
  \/ \E t \in Tasks : RunTask(u, t) \/ RetryTask(u, t) \/ CancelTask(u, t)

Lapse ==
  \/ \E k \in live : LeaseLapses(k)
  \/ \E c \in claims : ClaimLapses(c)
  \/ \E t \in Tasks : JobLapses(t)

Fault ==
  \/ \E e \in Executors : AcquireRaises(e) \/ HeartbeatStops(e) \/ Stall(e) \/ CrashWorker(e)
  \/ \E u \in Users : CrashRequest(u)

Next ==
  \/ \E e \in Executors : Execute(e)
  \/ \E s \in Schedulers : Write(s)
  \/ \E u \in Users : Ask(u)
  \/ Lapse \/ Fault

Spec == Init /\ [][Next]_vars

\* Workers poll, bodies end, requests are served and leases that nobody
\* renews lapse.
Fairness ==
  /\ \A e \in Executors : WF_vars(Execute(e))
  /\ \A s \in Schedulers : WF_vars(Write(s))
  /\ WF_vars(Lapse)
FairSpec == Spec /\ Fairness

-----------------------------------------------------------------------------
(* Properties. *)

TypeOK ==
  /\ task \in [Tasks -> Row]
  /\ live \subseteq 1..lastToken /\ lastToken \in Nat
  /\ newest \in [Tasks -> 0..lastToken]
  /\ job \in [Tasks -> JobState]
  /\ worker \in [Executors -> WorkerState]
  /\ claims \subseteq Claim
  /\ plan = [s \in Schedulers |-> plan[s]] /\ \A s \in Schedulers : IsPlan(plan[s])
  /\ results \subseteq Tasks
  /\ cancelled \in BOOLEAN /\ mishap \in BOOLEAN
  /\ events \in Nat

\* A body works on a task only after every task it depends on has delivered a
\* result, or was degraded, whatever rows were read too early and saved too
\* late: whoever queues a task has seen its dependencies DONE.
DependenciesFirst ==
  \A e \in Executors : At(e, "body") => Deps[worker[e].task] \subseteq results

\* A body whose process runs and whose heartbeat thread has not given up.
Sound(e) == At(e, "body") /\ worker[e].beating /\ ~worker[e].stalled

\* Two such bodies never work on one task, nor on tasks that claim a common
\* resource, also when a user, or a row saved late, took the claim of one of
\* them away: the job keeps the task and the heartbeat keeps the resources.
BodiesApart ==
  \A e, f \in Executors : e # f /\ Sound(e) /\ Sound(f) =>
    /\ worker[e].task # worker[f].task
    /\ ResourceLocks => Needs[worker[e].task] \intersect Needs[worker[f].task] = {}

\* Once its claim has been checked, an execution writes its output, its status
\* and its release as the newest one of its task, whatever rows are saved and
\* whatever leases lapse meanwhile: nothing fences these writes, so only a
\* process that stalls after the check writes the outcome of an overtaken body.
NewestClaimWrites ==
  \A e \in Executors :
    worker[e].pc \in {"recording", "updating", "releasing"} /\ ~worker[e].stalled
      => newest[worker[e].task] = worker[e].token

\* Somebody is still to bring t to rest: its job waits; its job runs, and its
\* worker is not yet done with it or is gone; or a request is about to enqueue it.
Attended(t) ==
  \/ job[t].status = "pending"
  \/ job[t].status = "running" /\ LET w == worker[job[t].by] IN
                                   w.task = t => w.pc \notin {"finishing", "failing"}
  \/ \E s \in Schedulers : t \in plan[s].due /\ Halfway(s)

\* A task that is queued or running is never left to nobody, whatever crashes,
\* stalls and lapses, unless the code drops it in one of the ways that mishap
\* marks (_enqueue_task_run, complete_task_run and the claims of the jobs).
TasksAttended ==
  \A t \in Tasks : task[t].status \in Active => Attended(t) \/ mishap

\* A task that is queued or running comes to rest, crashes included, unless
\* the code drops it in one of the ways marked by mishap: its job died for
\* good, a job was refused because the old one still ran, a row was saved
\* over one that had changed, an execution ended on a claim that had run out
\* or on a backend error, a process died between the task and the job table.
EveryTaskSettles ==
  \A t \in Tasks : task[t].status \in Active ~> task[t].status \notin Active \/ mishap
=============================================================================
