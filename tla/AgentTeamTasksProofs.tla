---------------------- MODULE AgentTeamTasksProofs ----------------------
(***************************************************************************)
(* What the execution of agent team tasks guarantees for any number of     *)
(* tasks, workers and requests, with any flags and any number of faults.   *)
(*                                                                         *)
(* IInv, the inductive invariant, has six parts: a worker in each state    *)
(* of run_task_claimed; which row a worker has read in which state; a      *)
(* worker that runs, or whose claim still lives, has the job and the       *)
(* newest claim of its task; claims on a resource are of one task and stay *)
(* in place while they are renewed; who writes DONE has recorded an        *)
(* output; whatever has been read and may yet be saved queues a task only  *)
(* if its dependencies are delivered.                                      *)
(* AInv adds who is to bring a task that is not at rest there.             *)
(***************************************************************************)
EXTENDS AgentTeamTasks, TLAPS

\* A worker has a token from claim_task to the end of run_task_claimed.
WorkerOK(w) ==
  /\ w.token = 0 <=> w.pc \in {"idle", "claiming", "finishing", "failing"}
  /\ w.pc # "idle" => w.task \in Tasks
  /\ w.pc \in {"idle", "claiming"} => ~w.stalled /\ w.got = {}
  /\ w.pc \in {"starting", "body"} /\ ResourceLocks => w.got = Needs[w.task]
  /\ w.beating => w.pc = "body"

WorkersOK ==
  /\ \A e \in Executors : WorkerOK(worker[e]) /\ worker[e].token <= lastToken
  /\ \A e, f \in Executors :
       worker[e].token = worker[f].token /\ worker[e].token # 0 => e = f

\* A worker changes the row of its own task, a wave comes last.
Own == {"begin", "record", "update"}
WriterOK(p, w) ==
  \/ p = NoPlan
  \/ p.kind = "wave" /\ w.pc = "finishing"
  \/ /\ DOMAIN p.read = {w.task} /\ p.due = {}
     /\ \/ p.kind = "begin" /\ w.pc = "body"
        \/ p.kind = "record" /\ w.pc \in {"updating", "raised"}
        \/ p.kind = "update" /\ w.pc = "releasing"
WritersOK ==
  /\ \A e \in Executors : WriterOK(plan[e], worker[e])
  /\ \A u \in Users : plan[u].kind \notin Own

\* The process of e runs, or its claim on the task lasts.
Current(e) == worker[e].token \in live \/ (worker[e].token # 0 /\ ~worker[e].stalled)

\* The job of a task is its worker's, and so is the newest claim on it, unless
\* the worker stalled and let its claim on the task lapse.
JobsOK ==
  /\ \A t \in Tasks :
       /\ job[t].status = "running" <=> job[t].by # NoOne
       /\ job[t].status = "pending" => job[t].attempt < JobAttempts
  /\ \A e \in Executors :
       /\ worker[e].pc # "idle" /\ ~worker[e].stalled => job[worker[e].task].by = e
       /\ Current(e) => job[worker[e].task].by = e /\ newest[worker[e].task] = worker[e].token

\* The resources of e are guarded: it acquires them, or its heartbeat runs.
Guarded(e) == ~worker[e].stalled /\ (worker[e].pc \in {"acquiring", "starting"} \/ Sound(e))

ClaimsOK ==
  /\ \A c, d \in claims : c.res = d.res => c.task = d.task
  /\ \A e \in Executors : Guarded(e) =>
       \A r \in worker[e].got :
         [res |-> r, task |-> worker[e].task, token |-> worker[e].token] \in claims

\* Who is to write DONE has recorded an output.
Recorded == {"updating", "releasing", "raised", "lost"}
OutputOK(w) == w.pc \in Recorded /\ w.final = "DONE" => w.task \in results
OutputsOK == \A e \in Executors : OutputOK(worker[e])

\* The dependencies of t have delivered.
Delivered(t) == Deps[t] \subseteq results

\* Who may be queued or at work is ready, in the table and in what was read.
RowReady(t, row) ==
  /\ row.status = "DONE" => t \in results
  /\ row.status \in Active => Delivered(t)
PlanReady(p) ==
  \A t \in DOMAIN p.read :
    /\ p.kind # "none" /\ RowReady(t, p.read[t])
    /\ p.kind = "wave" \/ p.due # {} => Delivered(t)
DepsOK ==
  /\ \A t \in Tasks : RowReady(t, task[t])
  /\ \A e \in Executors : worker[e].token # 0 => Delivered(worker[e].task)
  /\ \A s \in Schedulers : PlanReady(plan[s])

IInv == TypeOK /\ WorkersOK /\ WritersOK /\ JobsOK /\ ClaimsOK /\ OutputsOK /\ DepsOK

-----------------------------------------------------------------------------
(* The tables. *)

LEMMA EnqueueType ==
  ASSUME TypeOK, NEW t \in Tasks  PROVE Enqueue(t) \in [Tasks -> JobState]
BY DEF TypeOK, Enqueue, PendingJob, JobState, JobAttempts

LEMMA ReleasedType ==
  ASSUME TypeOK, NEW e \in Executors, worker[e].task \in Tasks, NEW s \in Statuses
  PROVE  Released(e, s) \in [Tasks -> Row]
BY DEF TypeOK, Released, Row

LEMMA ForgetSubset == Forget => live' \subseteq live
BY DEF Forget

LEMMA NoPlanIsPlan == IsPlan(NoPlan)
BY DEF IsPlan, NoPlan, NoRows, Kinds

LEMMA FinishType ==
  ASSUME TypeOK, NEW e \in Executors, NEW pc \in PCs, Finish(e, pc)
  PROVE  worker' \in [Executors -> WorkerState]
BY DEF TypeOK, Finish, SetWorker, WorkerState, IdleWorker, Statuses

-----------------------------------------------------------------------------
(* Types.  The plan and the counters are apart: few actions touch them. *)

TaskType == task \in [Tasks -> Row]
TokenType ==
  /\ live \subseteq 1..lastToken /\ lastToken \in Nat
  /\ newest \in [Tasks -> 0..lastToken]
JobType == job \in [Tasks -> JobState]
WorkerType == worker \in [Executors -> WorkerState]
ClaimType == claims \subseteq Claim
PlanType == plan = [s \in Schedulers |-> plan[s]] /\ \A s \in Schedulers : IsPlan(plan[s])
ResultType == results \subseteq Tasks
RestType ==
  /\ cancelled \in BOOLEAN /\ mishap \in BOOLEAN
  /\ events \in Nat

LEMMA TypeParts ==
  TypeOK <=> /\ TaskType /\ TokenType /\ JobType /\ WorkerType /\ ClaimType /\ PlanType
             /\ ResultType /\ RestType
BY DEF TypeOK, TaskType, TokenType, JobType, WorkerType, ClaimType, PlanType, ResultType, RestType

LEMMA TokenShrinks ==
  ASSUME TokenType, UNCHANGED <<newest, lastToken>>, live' \subseteq live  PROVE TokenType'
BY DEF TokenType

LEMMA PlanSet ==
  ASSUME PlanType, NEW s \in Schedulers, NEW p, IsPlan(p), plan' = [plan EXCEPT ![s] = p]
  PROVE  PlanType'
<1>1. plan' = [r \in Schedulers |-> IF r = s THEN p ELSE plan[r]]  BY DEF PlanType
<1>2. \A r \in Schedulers : plan'[r] = IF r = s THEN p ELSE plan[r]  BY <1>1
<1> QED  BY <1>1, <1>2 DEF PlanType

LEMMA RowsIsPlan ==
  ASSUME TaskType, NEW S \in SUBSET Tasks, NEW D \in SUBSET Tasks, NEW k \in Kinds
  PROVE  IsPlan([kind |-> k, read |-> Rows(S), due |-> D])
BY DEF TaskType, IsPlan, Rows

LEMMA SetType ==
  ASSUME WorkerType, NEW e \in Executors, NEW w \in WorkerState, SetWorker(e, w)
  PROVE  WorkerType'
BY DEF WorkerType, SetWorker

LEMMA WorkerTypes ==
  ASSUME TypeOK, WorkersOK, JobsOK, NEW e \in Executors, Execute(e)
  PROVE  TypeOK'
<1>1. TaskType /\ TokenType /\ JobType /\ WorkerType /\ ClaimType /\ PlanType
      /\ ResultType /\ RestType
  BY TypeParts
<1>2. WorkerOK(worker[e]) /\ worker[e] \in WorkerState
  BY <1>1 DEF WorkersOK, WorkerType
<1>3. worker[e].pc # "idle" => worker[e].task \in Tasks
  BY <1>2 DEF WorkerOK
<1>4. (TaskType /\ TokenType /\ JobType /\ WorkerType /\ ClaimType /\ PlanType
      /\ ResultType /\ RestType)' => TypeOK'
  BY TypeParts DEF TypeOK, TaskType, TokenType, JobType, WorkerType, ClaimType, PlanType, ResultType, RestType
<1>15. ASSUME NEW t \in Tasks, NEW k \in Kinds, SetPlan(e, k, Rows({t}), {})
       PROVE  PlanType'
  BY <1>1, <1>15, RowsIsPlan, PlanSet DEF SetPlan, Schedulers
<1>16. ASSUME NEW pc \in PCs, Goto(e, pc)  PROVE WorkerType'
  <2>1. [worker[e] EXCEPT !.pc = pc] \in WorkerState  BY <1>2 DEF WorkerState
  <2> QED  BY <1>1, <1>16, <2>1, SetType DEF Goto
<1>5. ASSUME NEW t \in Tasks, TakeJob(e, t)  PROVE TypeOK'
  <2>1. JobType'
    <3>1. job[t] \in JobState /\ job[t].attempt < JobAttempts
      BY <1>1, <1>5 DEF TakeJob, JobType, JobsOK
    <3>2. [status |-> "running", attempt |-> job[t].attempt + 1, by |-> e] \in JobState
      BY <3>1 DEF JobState, JobAttempts
    <3> QED  BY <1>1, <1>5, <3>2 DEF TakeJob, JobType
  <2>2. WorkerType'
    <3>1. [IdleWorker EXCEPT !.pc = "claiming", !.task = t] \in WorkerState
      BY DEF WorkerState, IdleWorker, PCs, Statuses
    <3> QED  BY <1>1, <1>5, <3>1, SetType DEF TakeJob
  <2> QED
    BY <1>1, <1>4, <1>5, <2>1, <2>2
    DEF TakeJob, data, TaskType, TokenType, ClaimType, PlanType, ResultType, RestType
<1>6. ASSUME NEW r \in Resources, Acquire(e, r)  PROVE TypeOK'
  <2>1. worker[e].task \in Tasks  BY <1>3, <1>6 DEF Acquire, At
  <2>2. ClaimType'
    BY <1>1, <1>2, <1>6, <2>1 DEF Acquire, ClaimType, Claim, WorkerState
  <2>3. WorkerType'
    <3> DEFINE W(pc) == [worker[e] EXCEPT !.got = worker[e].got \union {r}, !.pc = pc]
    <3>1. SetWorker(e, W("starting")) \/ SetWorker(e, W(worker[e].pc))
      BY <1>6 DEF Acquire, SetWorker
    <3>2. W("starting") \in WorkerState /\ W(worker[e].pc) \in WorkerState
      BY <1>2 DEF WorkerState, PCs
    <3> QED  BY <1>1, <3>1, <3>2, SetType
  <2> QED
    BY <1>1, <1>4, <1>6, <2>2, <2>3
    DEF Acquire, data, TaskType, TokenType, JobType, PlanType, ResultType, RestType
<1>7. ASSUME NEW r \in Resources, AcquireRefused(e, r)  PROVE TypeOK'
  <2>1. worker[e].task \in Tasks  BY <1>3, <1>7 DEF AcquireRefused, At
  <2>2. TaskType'
    BY <1>7, <2>1, ReleasedType DEF AcquireRefused, TaskType, Statuses
  <2>3. TokenType'
    BY <1>1, <1>7, ForgetSubset, TokenShrinks DEF AcquireRefused
  <2>4. WorkerType'  BY <1>7, FinishType DEF AcquireRefused, PCs, WorkerType
  <2>5. RestType'  BY <1>1, <1>7 DEF AcquireRefused, RestType, Dropped, Alive
  <2> QED
    BY <1>1, <1>4, <1>7, <2>2, <2>3, <2>4, <2>5
    DEF AcquireRefused, JobType, ClaimType, PlanType, ResultType
<1>8. ASSUME NEW final \in Statuses, BodyRaises(e, final)  PROVE TypeOK'
  <2>1. worker[e].task \in Tasks  BY <1>3, <1>8 DEF BodyRaises, At
  <2>2. WorkerType'
    <3>1. [worker[e] EXCEPT !.pc = "raised", !.beating = FALSE, !.final = final] \in WorkerState
      BY <1>2 DEF WorkerState, PCs
    <3> QED  BY <1>1, <1>8, <3>1, SetType DEF BodyRaises
  <2>3. PlanType'
    BY <1>1, <1>8, <1>15, <2>1 DEF BodyRaises, Kinds, PlanType
  <2>4. ResultType'  BY <1>1, <1>8, <2>1 DEF BodyRaises, ResultType
  <2> QED
    BY <1>1, <1>4, <1>8, <2>2, <2>3, <2>4
    DEF BodyRaises, TaskType, TokenType, JobType, ClaimType, RestType
<1>9. ASSUME NEW final \in {"DONE", "FAILED", "BLOCKED"}, BodyReturns(e, final)  PROVE TypeOK'
  <2>1. WorkerType'
    <3>1. ASSUME NEW s \in Statuses, Settle(e, s)  PROVE WorkerType'
      <4>1. [worker[e] EXCEPT !.pc = "committing", !.beating = FALSE, !.final = s] \in WorkerState
        BY <1>2 DEF WorkerState, PCs
      <4> QED  BY <1>1, <3>1, <4>1, SetType DEF Settle
    <3>2. \E s \in Statuses : Settle(e, s)
      BY <1>9 DEF BodyReturns, Strategies, Statuses
    <3> QED  BY <3>1, <3>2
  <2> QED
    BY <1>1, <1>4, <1>9, <2>1
    DEF BodyReturns, data, TaskType, TokenType, JobType, ClaimType, PlanType, ResultType, RestType
<1>10. ASSUME ClaimTask(e)  PROVE TypeOK'
  <2>1. worker[e].task \in Tasks  BY <1>3, <1>10 DEF ClaimTask, At
  <2> DEFINE t == worker[e].task
  <2>2. ASSUME Claimable(t), task' = [task EXCEPT ![t] =
                 [status |-> "RUNNING", attempt |-> task[t].attempt + 1,
                  token |-> lastToken + 1, cancel |-> task[t].cancel]]
        PROVE  TaskType'
    <3>1. [status |-> "RUNNING", attempt |-> task[t].attempt + 1,
           token |-> lastToken + 1, cancel |-> task[t].cancel] \in Row
      BY <1>1, <2>1 DEF TaskType, TokenType, Row, Statuses
    <3> QED  BY <1>1, <2>2, <3>1 DEF TaskType
  <2>3. TaskType'  BY <1>1, <1>10, <2>2 DEF ClaimTask, TaskType
  <2>4. TokenType'  BY <1>1, <1>10, <2>1 DEF ClaimTask, TokenType
  <2>5. WorkerType'
    <3>1. ASSUME NEW pc \in PCs, SetWorker(e, [worker[e] EXCEPT !.pc = pc, !.token = lastToken + 1])
          PROVE  WorkerType'
      <4>1. lastToken + 1 \in Nat  BY <1>1 DEF TokenType
      <4>2. [worker[e] EXCEPT !.pc = pc, !.token = lastToken + 1] \in WorkerState
        BY <1>2, <4>1 DEF WorkerState
      <4> QED  BY <1>1, <3>1, <4>2, SetType
    <3>2. CASE Claimable(t)
      <4>1. SetWorker(e, [worker[e] EXCEPT !.pc = IF Locked(t) THEN "acquiring" ELSE "starting",
                                           !.token = lastToken + 1])
        BY <1>10, <3>2 DEF ClaimTask
      <4> QED  BY <3>1, <4>1 DEF PCs
    <3>3. CASE ~Claimable(t)  BY <1>10, <3>3, FinishType DEF ClaimTask, PCs, WorkerType
    <3> QED  BY <3>2, <3>3
  <2> QED
    BY <1>1, <1>4, <1>10, <2>3, <2>4, <2>5
    DEF ClaimTask, JobType, ClaimType, PlanType, ResultType, RestType
<1>11. ASSUME BeginBody(e)  PROVE TypeOK'
  <2>1. worker[e].task \in Tasks  BY <1>3, <1>11 DEF BeginBody, At
  <2>2. PlanType'  BY <1>1, <1>11, <1>15, <2>1 DEF BeginBody, Kinds, PlanType
  <2>3. WorkerType'
    <3>1. /\ [worker[e] EXCEPT !.pc = "committing", !.final = "CANCELLED"] \in WorkerState
          /\ [worker[e] EXCEPT !.pc = "body", !.beating = TRUE] \in WorkerState
      BY <1>2 DEF WorkerState, PCs, Statuses
    <3> QED  BY <1>1, <1>11, <3>1, SetType DEF BeginBody
  <2> QED
    BY <1>1, <1>4, <1>11, <2>2, <2>3
    DEF BeginBody, data, TaskType, TokenType, JobType, ClaimType, ResultType, RestType
<1>12. ASSUME CheckClaim(e)  PROVE TypeOK'
  <2>1. ASSUME NEW pc \in PCs, SetWorker(e, [worker[e] EXCEPT !.pc = pc, !.stalled = FALSE])
        PROVE  WorkerType'
    <3>1. [worker[e] EXCEPT !.pc = pc, !.stalled = FALSE] \in WorkerState  BY <1>2 DEF WorkerState
    <3> QED  BY <1>1, <2>1, <3>1, SetType
  <2>2. ASSUME NEW s \in Statuses, SetWorker(e, [worker[e] EXCEPT !.pc = "lost", !.final = s])
        PROVE  WorkerType'
    <3>1. [worker[e] EXCEPT !.pc = "lost", !.final = s] \in WorkerState
      BY <1>2 DEF WorkerState, PCs
    <3> QED  BY <1>1, <2>2, <3>1, SetType
  <2>3. \/ \E pc \in PCs : SetWorker(e, [worker[e] EXCEPT !.pc = pc, !.stalled = FALSE])
        \/ \E s \in Statuses : SetWorker(e, [worker[e] EXCEPT !.pc = "lost", !.final = s])
    BY <1>12 DEF CheckClaim, PCs, Statuses
  <2>4. WorkerType'  BY <2>1, <2>2, <2>3, Zenon
  <2>5. UNCHANGED <<data, claims>> /\ UNCHANGED <<plan, events, mishap>>
    BY <1>12, Zenon DEF CheckClaim
  <2> QED
    BY <1>1, <1>4, <2>4, <2>5
    DEF data, TaskType, TokenType, JobType, ClaimType, PlanType, ResultType, RestType
<1>17. ASSUME Record(e)  PROVE TypeOK'
  <2>1. worker[e].task \in Tasks  BY <1>3, <1>17 DEF Record, At
  <2>2. WorkerType' /\ PlanType'  BY <1>15, <1>16, <1>17, <2>1 DEF Record, Kinds, PCs
  <2>3. ResultType'  BY <1>1, <1>17, <2>1 DEF Record, ResultType
  <2> QED
    BY <1>1, <1>4, <1>17, <2>2, <2>3
    DEF Record, TaskType, TokenType, JobType, ClaimType, RestType
<1>18. ASSUME Update(e)  PROVE TypeOK'
  <2>1. worker[e].task \in Tasks  BY <1>3, <1>18 DEF Update, At
  <2>2. WorkerType' /\ PlanType'  BY <1>15, <1>16, <1>18, <2>1 DEF Update, Kinds, PCs
  <2> QED
    BY <1>1, <1>4, <1>18, <2>2
    DEF Update, data, TaskType, TokenType, JobType, ClaimType, ResultType, RestType
<1>19. ASSUME Release(e)  PROVE TypeOK'
  <2>1. worker[e].task \in Tasks  BY <1>3, <1>19 DEF Release, At
  <2>2. TaskType'  BY <1>2, <1>19, <2>1, ReleasedType DEF Release, TaskType, WorkerState
  <2>3. TokenType'  BY <1>1, <1>19, ForgetSubset, TokenShrinks DEF Release
  <2>4. WorkerType'  BY <1>16, <1>19 DEF Release, PCs
  <2> QED
    BY <1>1, <1>4, <1>19, <2>2, <2>3, <2>4
    DEF Release, JobType, ClaimType, PlanType, ResultType, RestType
<1>20. ASSUME GiveUp(e)  PROVE TypeOK'
  <2>1. worker[e].task \in Tasks  BY <1>3, <1>20 DEF GiveUp
  <2>2. TaskType'  BY <1>2, <1>20, <2>1, ReleasedType DEF GiveUp, TaskType, WorkerState
  <2>3. TokenType'  BY <1>1, <1>20, ForgetSubset, TokenShrinks DEF GiveUp
  <2>4. JobType'  BY <1>1, <1>20, <2>1, EnqueueType DEF GiveUp, JobType
  <2>5. WorkerType'  BY <1>20, FinishType DEF GiveUp, PCs, WorkerType
  <2>6. RestType'  BY <1>1, <1>20 DEF GiveUp, RestType, Dropped, Alive, Accepts
  <2> QED
    BY <1>1, <1>4, <1>20, <2>2, <2>3, <2>4, <2>5, <2>6
    DEF GiveUp, ClaimType, PlanType, ResultType
<1>13. ASSUME LetGo(e)  PROVE TypeOK'
  <2>1. worker[e].task \in Tasks  BY <1>3, <1>13 DEF LetGo, At
  <2>2. JobType'  BY <1>1, <1>13, <2>1, EnqueueType DEF LetGo, JobType
  <2>3. WorkerType'  BY <1>13, FinishType DEF LetGo, PCs, WorkerType
  <2>4. PlanType'
    <3>1. \A W \in Waves : W \subseteq Tasks
      BY DEF Waves, DagWaves, PlainWaves, Runnable, DagReady, InStatus
    <3>2. \A W \in Waves : IsPlan([kind |-> "wave", read |-> Rows(W), due |-> W])
      BY <1>1, <3>1, RowsIsPlan DEF Kinds
    <3>3. plan' = plan \/ \E W \in Waves : SetPlan(e, "wave", Rows(W), W)
      BY <1>13 DEF LetGo
    <3> QED  BY <1>1, <3>2, <3>3, PlanSet DEF SetPlan, Schedulers, PlanType
  <2>5. RestType'  BY <1>1, <1>13 DEF LetGo, RestType, Accepts
  <2> QED
    BY <1>1, <1>4, <1>13, <2>2, <2>3, <2>4, <2>5
    DEF LetGo, TaskType, TokenType, ClaimType, ResultType
<1>14. ASSUME JobEnds(e)  PROVE TypeOK'
  <2>1. worker[e].task \in Tasks  BY <1>3, <1>14 DEF JobEnds
  <2>2. JobType'  BY <1>1, <1>14, <2>1 DEF JobEnds, JobType, JobState, NoJob, JobAttempts
  <2>3. WorkerType'
    BY <1>1, <1>14, SetType DEF JobEnds, IdleWorker, WorkerState, PCs, Statuses
  <2> QED
    BY <1>1, <1>4, <1>14, <2>2, <2>3
    DEF JobEnds, TaskType, TokenType, ClaimType, PlanType, ResultType, RestType
<1> QED
  BY <1>5, <1>6, <1>7, <1>8, <1>9, <1>10, <1>11, <1>12, <1>13, <1>14, <1>17, <1>18, <1>19, <1>20
  DEF Execute

LEMMA AskTypes ==
  ASSUME TypeOK, NEW u \in Users, Ask(u)  PROVE TypeOK'
<1>1. TaskType /\ TokenType /\ JobType /\ WorkerType /\ ClaimType /\ PlanType
      /\ ResultType /\ RestType
  BY TypeParts
<1>2. u \in Schedulers  BY DEF Schedulers
<1>3. ASSUME NEW S \in SUBSET Tasks, NEW D \in SUBSET Tasks, NEW k \in Kinds,
             SetPlan(u, k, Rows(S), D)
      PROVE  PlanType'
  BY <1>1, <1>2, <1>3, RowsIsPlan, PlanSet DEF SetPlan
<1>4. (TaskType /\ TokenType /\ JobType /\ WorkerType /\ ClaimType /\ PlanType
      /\ ResultType /\ RestType)' => TypeOK'
  BY DEF TypeOK, TaskType, TokenType, JobType, WorkerType, ClaimType, PlanType, ResultType, RestType
<1>5. CASE RunReady(u)
  <2>1. \A W \in Waves : W \subseteq Tasks
    BY DEF Waves, DagWaves, PlainWaves, Runnable, DagReady, InStatus
  <2>2. PlanType'  BY <1>3, <1>5, <2>1 DEF RunReady, Kinds
  <2> QED
    BY <1>1, <1>4, <1>5, <2>2
    DEF RunReady, Request, Event, data, TaskType, TokenType, JobType, WorkerType, ClaimType,
        ResultType, RestType
<1>6. ASSUME NEW t \in Tasks, RunTask(u, t) \/ RetryTask(u, t) \/ CancelTask(u, t)
      PROVE TypeOK'
  <2>1. PlanType'
    BY <1>3, <1>6 DEF RunTask, RetryTask, CancelTask, Kinds
  <2>2. UNCHANGED <<data, worker, claims, mishap>> /\ events' = events + 1
    BY <1>6 DEF RunTask, RetryTask, CancelTask, Request, Event
  <2> QED
    BY <1>1, <1>4, <2>1, <2>2
    DEF data, TaskType, TokenType, JobType, WorkerType, ClaimType, ResultType, RestType
<1>7. CASE CancelSession(u)
  <2>1. PlanType'  BY <1>3, <1>7 DEF CancelSession, Kinds, InStatus
  <2> QED
    BY <1>1, <1>4, <1>7, <2>1
    DEF CancelSession, Request, Event, data, TaskType, TokenType, JobType, WorkerType, ClaimType,
        ResultType, RestType
<1> QED  BY <1>5, <1>6, <1>7 DEF Ask

\* Only a worker saves the outcome of a worker.
LEMMA WrittenType ==
  ASSUME TypeOK, WritersOK, NEW s \in Schedulers, NEW t \in DOMAIN plan[s].read
  PROVE  Written(s, t) \in Row
<1>1. plan[s].read[t] \in Row  BY DEF TypeOK, IsPlan
<1>2. CASE plan[s].kind = "update"
  <2>1. s \in Executors  BY <1>2 DEF WritersOK, Own, Schedulers
  <2>2. worker[s].final \in Statuses  BY <2>1 DEF TypeOK, WorkerState
  <2> QED  BY <1>1, <1>2, <2>2 DEF Written, Row
<1>3. CASE plan[s].kind # "update"
  BY <1>1, <1>3 DEF Written, Stopped, Row, Statuses
<1> QED  BY <1>2, <1>3

LEMMA AfterType ==
  ASSUME TypeOK, WritersOK, NEW s \in Schedulers  PROVE IsPlan(After(s))
<1>1. IsPlan(plan[s])  BY DEF TypeOK
<1>2. IsPlan([plan[s] EXCEPT !.read = NoRows])  BY <1>1 DEF IsPlan, NoRows
<1> DEFINE read == [t \in DOMAIN plan[s].read |-> Written(s, t)]
<1>3. read \in [DOMAIN plan[s].read -> Row] /\ DOMAIN read = DOMAIN plan[s].read
  BY WrittenType
<1> HIDE DEF read
<1>4. IsPlan([kind |-> "run", read |-> read, due |-> plan[s].due])
  BY <1>1, <1>3 DEF IsPlan, Kinds
<1> QED  BY <1>2, <1>4, NoPlanIsPlan DEF After, read

LEMMA WriteTypes ==
  ASSUME TypeOK, WritersOK, NEW s \in Schedulers, Write(s)  PROVE TypeOK'
<1>1. TaskType /\ TokenType /\ JobType /\ WorkerType /\ ClaimType /\ PlanType
      /\ ResultType /\ RestType
  BY TypeParts
<1>2. IsPlan(plan[s])  BY <1>1 DEF PlanType
<1>4. (TaskType /\ TokenType /\ JobType /\ WorkerType /\ ClaimType /\ PlanType
      /\ ResultType /\ RestType)' => TypeOK'
  BY DEF TypeOK, TaskType, TokenType, JobType, WorkerType, ClaimType, PlanType, ResultType, RestType
<1>5. CASE Save(s)
  <2>1. TaskType'  BY <1>1, <1>5, WrittenType DEF Save, TaskType
  <2>2. PlanType'  BY <1>1, <1>5, AfterType, PlanSet DEF Save
  <2>3. TokenType'  BY <1>1, <1>5, ForgetSubset, TokenShrinks DEF Save
  <2>4. RestType'  BY <1>1, <1>5 DEF Save, RestType, Alive
  <2> QED
    BY <1>1, <1>4, <1>5, <2>1, <2>2, <2>3, <2>4
    DEF Save, JobType, WorkerType, ClaimType, ResultType
<1>7. ASSUME NEW t \in Tasks, StopTask(s, t)  PROVE TypeOK'
  <2> DEFINE read == [x \in DOMAIN plan[s].read \ {t} |-> plan[s].read[x]]
  <2>1. /\ DOMAIN read = DOMAIN plan[s].read \ {t} /\ DOMAIN plan[s].read \subseteq Tasks
        /\ read \in [DOMAIN plan[s].read \ {t} -> Row] /\ plan[s].read[t] \in Row
    BY <1>2, <1>7 DEF IsPlan, StopTask
  <2>2. plan' = [plan EXCEPT ![s] = [plan[s] EXCEPT !.read = read]]
    BY <1>7 DEF StopTask
  <2> HIDE DEF read
  <2>3. IsPlan([plan[s] EXCEPT !.read = read])  BY <1>2, <2>1 DEF IsPlan
  <2>4. PlanType'  BY <1>1, <2>2, <2>3, PlanSet
  <2>5. Stopped(plan[s].read[t]) \in Row  BY <2>1 DEF Stopped, Row, Statuses
  <2>6. TaskType'  BY <1>1, <1>7, <2>5 DEF StopTask, TaskType
  <2>7. TokenType'  BY <1>1, <1>7, ForgetSubset, TokenShrinks DEF StopTask
  <2> QED
    BY <1>1, <1>4, <1>7, <2>4, <2>6, <2>7
    DEF StopTask, JobType, WorkerType, ClaimType, ResultType, RestType
<1>8. CASE SessionStopped(s)
  <2>1. PlanType'  BY <1>1, <1>8, NoPlanIsPlan, PlanSet DEF SessionStopped
  <2> QED
    BY <1>1, <1>4, <1>8, <2>1
    DEF SessionStopped, TaskType, TokenType, JobType, WorkerType, ClaimType, ResultType, RestType
<1>6. ASSUME NEW t \in Tasks, EnqueueDue(s, t)  PROVE TypeOK'
  <2>1. TaskType'  BY <1>1, <1>6 DEF EnqueueDue, TaskType, Row, Statuses
  <2>2. PlanType'
    <3>1. IsPlan([plan[s] EXCEPT !.due = plan[s].due \ {t}])  BY <1>2 DEF IsPlan
    <3>2. CASE plan[s].due = {t}
      BY <1>1, <1>6, <3>2, NoPlanIsPlan, PlanSet DEF EnqueueDue
    <3>3. CASE plan[s].due # {t}
      <4>1. plan' = [plan EXCEPT ![s] = [plan[s] EXCEPT !.due = plan[s].due \ {t}]]
        BY <1>6, <3>3 DEF EnqueueDue
      <4> QED  BY <1>1, <3>1, <4>1, PlanSet
    <3> QED  BY <3>2, <3>3
  <2>3. TokenType'  BY <1>1, <1>6, ForgetSubset, TokenShrinks DEF EnqueueDue
  <2>4. JobType'  BY <1>6, EnqueueType DEF EnqueueDue, JobType
  <2> QED
    BY <1>1, <1>4, <1>6, <2>1, <2>2, <2>3, <2>4
    DEF EnqueueDue, WorkerType, ClaimType, ResultType, RestType, Accepts
<1> QED  BY <1>5, <1>6, <1>7, <1>8 DEF Write

LEMMA FaultTypes ==
  ASSUME TypeOK, WorkersOK, Lapse \/ Fault  PROVE TypeOK'
<1>1. TaskType /\ TokenType /\ JobType /\ WorkerType /\ ClaimType /\ PlanType
      /\ ResultType /\ RestType
  BY TypeParts
<1>2. \A e \in Executors : worker[e] \in WorkerState  BY <1>1 DEF WorkerType
<1>4. (TaskType /\ TokenType /\ JobType /\ WorkerType /\ ClaimType /\ PlanType
      /\ ResultType /\ RestType)' => TypeOK'
  BY DEF TypeOK, TaskType, TokenType, JobType, WorkerType, ClaimType, PlanType, ResultType, RestType
<1>5. ASSUME NEW k \in live, LeaseLapses(k)  PROVE TypeOK'
  BY <1>1, <1>4, <1>5, TokenShrinks
  DEF LeaseLapses, TaskType, JobType, WorkerType, ClaimType, PlanType, ResultType, RestType
<1>6. ASSUME NEW c \in claims, ClaimLapses(c)  PROVE TypeOK'
  BY <1>1, <1>4, <1>6
  DEF ClaimLapses, data, TaskType, TokenType, JobType, WorkerType, ClaimType, PlanType,
      ResultType, RestType
<1>7. ASSUME NEW t \in Tasks, JobLapses(t)  PROVE TypeOK'
  <2>1. job[t] \in JobState  BY <1>1 DEF JobType
  <2>2. [[job[t] EXCEPT !.status = "pending"] EXCEPT !.by = NoOne] \in JobState
    BY <2>1 DEF JobState
  <2>3. NoJob \in JobState  BY DEF JobState, NoJob, JobAttempts
  <2>4. JobType'  BY <1>1, <1>7, <2>1, <2>2, <2>3 DEF JobLapses, JobType, JobState
  <2> QED
    BY <1>1, <1>4, <1>7, <2>4
    DEF JobLapses, TaskType, TokenType, WorkerType, ClaimType, PlanType, ResultType, RestType
<1>8. ASSUME NEW e \in Executors, AcquireRaises(e)  PROVE TypeOK'
  <2>1. WorkerType'  BY <1>8, FinishType DEF AcquireRaises, PCs, WorkerType
  <2> QED
    BY <1>1, <1>4, <1>8, <2>1
    DEF AcquireRaises, Event, data, TaskType, TokenType, JobType, ClaimType, PlanType, ResultType, RestType
<1>9. ASSUME NEW e \in Executors, HeartbeatStops(e) \/ Stall(e)  PROVE TypeOK'
  <2>1. /\ [worker[e] EXCEPT !.beating = FALSE] \in WorkerState
        /\ [worker[e] EXCEPT !.stalled = TRUE] \in WorkerState
    BY <1>2 DEF WorkerState
  <2>2. WorkerType'  BY <1>1, <1>9, <2>1, SetType DEF HeartbeatStops, Stall
  <2> QED
    BY <1>1, <1>4, <1>9, <2>2
    DEF HeartbeatStops, Stall, Event, data, TaskType, TokenType, JobType, ClaimType, PlanType, ResultType,
        RestType
<1>10. ASSUME NEW e \in Executors, CrashWorker(e)  PROVE TypeOK'
  <2>1. WorkerType'
    BY <1>1, <1>10, SetType DEF CrashWorker, IdleWorker, WorkerState, PCs, Statuses
  <2>2. PlanType'
    BY <1>1, <1>10, NoPlanIsPlan, PlanSet DEF CrashWorker, Schedulers
  <2>3. TokenType'  BY <1>1, <1>10, ForgetSubset, TokenShrinks DEF CrashWorker
  <2> QED
    BY <1>1, <1>4, <1>10, <2>1, <2>2, <2>3
    DEF CrashWorker, Event, TaskType, JobType, ClaimType, ResultType, RestType, Halfway
<1>11. ASSUME NEW u \in Users, CrashRequest(u)  PROVE TypeOK'
  <2>2. PlanType'
    BY <1>1, <1>11, NoPlanIsPlan, PlanSet DEF CrashRequest, Schedulers
  <2>3. TokenType'  BY <1>1, <1>11, ForgetSubset, TokenShrinks DEF CrashRequest
  <2> QED
    BY <1>1, <1>4, <1>11, <2>2, <2>3
    DEF CrashRequest, Event, TaskType, JobType, WorkerType, ClaimType, ResultType, RestType, Halfway
<1> QED
  BY <1>5, <1>6, <1>7, <1>8, <1>9, <1>10, <1>11 DEF Lapse, Fault

LEMMA TypeStep ==
  ASSUME TypeOK, WorkersOK, WritersOK, JobsOK, [Next]_vars  PROVE TypeOK'
<1>1. CASE Next
  BY <1>1, WorkerTypes, AskTypes, WriteTypes, FaultTypes DEF Next
<1>2. CASE UNCHANGED vars
  BY <1>2 DEF vars, data, TypeOK, Row, Schedulers
<1> QED  BY <1>1, <1>2

-----------------------------------------------------------------------------
(* Workers and jobs. *)

\* A worker goes on with its task, or drops it and its token.  It is only with
\* a claim that lasts that it finds out that it stalled in time.
Moves(v, w) ==
  /\ w.token \in {v.token, 0}
  /\ w.pc # "idle" => /\ v.pc # "idle" /\ w.task = v.task
                      /\ v.stalled => w.stalled \/ v.token \in live

\* The states after the body, and the steps that lead from one to the next.
Late == {"committing", "recording", "updating", "releasing", "committed", "lost", "raised"}
Follows(v, w) ==
  /\ v.token # 0 /\ w.token = v.token /\ w.task = v.task /\ w.got = v.got
  /\ ~w.beating /\ w.pc \in Late
  /\ v.stalled => w.stalled \/ v.token \in live
Concludes(e) ==
  \/ \E final \in Statuses : BodyRaises(e, final)
  \/ \E final \in {"DONE", "FAILED", "BLOCKED"} : BodyReturns(e, final)
  \/ CheckClaim(e) \/ Record(e) \/ Update(e) \/ Release(e)

LEMMA Concluding ==
  ASSUME TypeOK, WorkersOK, NEW e \in Executors, Concludes(e)
  PROVE  /\ \E w : SetWorker(e, w) /\ Follows(worker[e], w)
         /\ UNCHANGED <<newest, lastToken, job, claims>> /\ live' \subseteq live
<1>1. WorkerOK(worker[e]) /\ worker[e] \in WorkerState
  BY DEF WorkersOK, TypeOK
<1> DEFINE v == worker[e]
<1>2. ASSUME NEW final \in Statuses, BodyRaises(e, final)
      PROVE  \E w : SetWorker(e, w) /\ Follows(worker[e], w)
  <2> DEFINE w == [v EXCEPT !.pc = "raised", !.beating = FALSE, !.final = final]
  <2>1. /\ w.token = v.token /\ w.task = v.task /\ w.got = v.got
        /\ w.beating = FALSE /\ w.pc = "raised" /\ w.stalled = v.stalled
    BY <1>1 DEF WorkerState
  <2>2. SetWorker(e, w) /\ v.token # 0  BY <1>1, <1>2 DEF BodyRaises, At, WorkerOK
  <2> HIDE DEF w
  <2> QED  BY <2>1, <2>2 DEF Follows, Late
<1>3. ASSUME NEW final \in {"DONE", "FAILED", "BLOCKED"}, BodyReturns(e, final)
      PROVE  \E w : SetWorker(e, w) /\ Follows(worker[e], w)
  <2>1. PICK s \in Statuses : Settle(e, s)  BY <1>3 DEF BodyReturns, Strategies, Statuses
  <2> DEFINE w == [v EXCEPT !.pc = "committing", !.beating = FALSE, !.final = s]
  <2>2. /\ w.token = v.token /\ w.task = v.task /\ w.got = v.got
        /\ w.beating = FALSE /\ w.pc = "committing" /\ w.stalled = v.stalled
    BY <1>1 DEF WorkerState
  <2>3. v.token # 0  BY <1>1, <1>3 DEF BodyReturns, At, WorkerOK
  <2>4. SetWorker(e, w)  BY <2>1 DEF Settle
  <2> HIDE DEF w
  <2> QED  BY <2>2, <2>3, <2>4 DEF Follows, Late
<1>4. ASSUME CheckClaim(e)  PROVE \E w : SetWorker(e, w) /\ Follows(worker[e], w)
  <2>1. v.token # 0 /\ ~v.beating  BY <1>1, <1>4 DEF CheckClaim, At, WorkerOK
  <2>2. CASE Alive(e)
    <3>1. PICK pc \in {"recording", "updating"} :
            SetWorker(e, [v EXCEPT !.pc = pc, !.stalled = FALSE])
      BY <1>4, <2>2 DEF CheckClaim
    <3> DEFINE w == [v EXCEPT !.pc = pc, !.stalled = FALSE]
    <3>2. /\ w.token = v.token /\ w.task = v.task /\ w.got = v.got
          /\ w.beating = v.beating /\ w.pc = pc
      BY <1>1 DEF WorkerState
    <3>3. SetWorker(e, w) /\ v.token \in live  BY <2>2, <3>1 DEF Alive
    <3> HIDE DEF w
    <3> QED  BY <2>1, <3>1, <3>2, <3>3 DEF Follows, Late
  <2>3. CASE ~Alive(e)
    <3> DEFINE w == [v EXCEPT !.pc = "lost", !.final = IF AttemptsLeft(v.task) THEN "QUEUED" ELSE "FAILED"]
    <3>1. /\ w.token = v.token /\ w.task = v.task /\ w.got = v.got
          /\ w.beating = v.beating /\ w.pc = "lost" /\ w.stalled = v.stalled
      BY <1>1 DEF WorkerState
    <3>2. SetWorker(e, w)  BY <1>4, <2>3 DEF CheckClaim
    <3> HIDE DEF w
    <3> QED  BY <2>1, <3>1, <3>2 DEF Follows, Late
  <2> QED  BY <2>2, <2>3
<1>5. ASSUME Record(e) \/ Update(e) \/ Release(e)
      PROVE  \E w : SetWorker(e, w) /\ Follows(worker[e], w)
  <2>1. v.token # 0 /\ ~v.beating  BY <1>1, <1>5 DEF Record, Update, Release, At, WorkerOK
  <2>2. PICK pc \in {"updating", "releasing", "committed"} : Goto(e, pc)
    BY <1>5 DEF Record, Update, Release
  <2> DEFINE w == [v EXCEPT !.pc = pc]
  <2>3. /\ w.token = v.token /\ w.task = v.task /\ w.got = v.got
        /\ w.beating = v.beating /\ w.pc = pc /\ w.stalled = v.stalled
    BY <1>1 DEF WorkerState
  <2>4. SetWorker(e, w)  BY <2>2 DEF Goto
  <2> HIDE DEF w
  <2> QED  BY <2>1, <2>3, <2>4 DEF Follows, Late
<1>6. UNCHANGED <<newest, lastToken, job, claims>> /\ live' \subseteq live
  <2>1. ASSUME NEW final \in Statuses, BodyRaises(e, final)
        PROVE  UNCHANGED <<newest, lastToken, job, claims, live>>
    BY <2>1 DEF BodyRaises
  <2>2. ASSUME NEW final \in {"DONE", "FAILED", "BLOCKED"}, BodyReturns(e, final)
        PROVE  UNCHANGED <<newest, lastToken, job, claims, live>>
    BY <2>2 DEF BodyReturns, data
  <2>3. ASSUME CheckClaim(e)  PROVE UNCHANGED <<newest, lastToken, job, claims, live>>
    <3>1. UNCHANGED <<data, claims>>  BY <2>3, Zenon DEF CheckClaim
    <3> QED  BY <3>1 DEF data
  <2>4. ASSUME Record(e) \/ Update(e) \/ Release(e)
        PROVE  UNCHANGED <<newest, lastToken, job, claims>> /\ live' \subseteq live
    BY <2>4, ForgetSubset DEF Record, Update, Release, data
  <2> QED  BY <2>1, <2>2, <2>3, <2>4 DEF Concludes
<1> QED  BY <1>2, <1>3, <1>4, <1>5, <1>6 DEF Concludes

JobsKept == job' = job \/ \E t \in Tasks : job' = Enqueue(t)

\* A row that is replaced was nobody's.
LEMMA JobsFrame ==
  ASSUME TypeOK, JobsOK, TeamAssumption, JobsKept
  PROVE  \A t \in Tasks :
           /\ job'[t].status = "running" <=> job'[t].by # NoOne
           /\ job'[t].status = "pending" => job'[t].attempt < JobAttempts
           /\ \A e \in Executors : job[t].by = e => job'[t].by = e
<1>1. ASSUME NEW t \in Tasks, job' = Enqueue(t)
      PROVE  job' = job \/ (job[t].by = NoOne /\ job' = [job EXCEPT ![t] = PendingJob])
  BY <1>1 DEF Enqueue, Accepts, JobsOK
<1>2. CASE job' = job  BY <1>2 DEF JobsOK
<1>3. ASSUME NEW t \in Tasks, job[t].by = NoOne, job' = [job EXCEPT ![t] = PendingJob]
      PROVE  \A u \in Tasks :
               /\ job'[u].status = "running" <=> job'[u].by # NoOne
               /\ job'[u].status = "pending" => job'[u].attempt < JobAttempts
               /\ \A e \in Executors : job[u].by = e => job'[u].by = e
  <2>1. \A u \in Tasks : job'[u] = IF u = t THEN PendingJob ELSE job[u]
    BY <1>3 DEF TypeOK
  <2>2. NoOne \notin Executors  BY DEF TeamAssumption
  <2> QED  BY <1>3, <2>1, <2>2 DEF JobsOK, PendingJob, JobAttempts
<1> QED  BY <1>1, <1>2, <1>3 DEF JobsKept

\* A worker keeps its token, drops it or draws a new one.
LEMMA TokensFrame ==
  ASSUME TypeOK, WorkersOK, NEW e \in Executors, NEW w, SetWorker(e, w), WorkerOK(w),
         lastToken' \in Nat, lastToken' >= lastToken,
         \/ w.token \in {worker[e].token, 0}
         \/ w.token \in Nat /\ w.token > lastToken /\ w.token <= lastToken'
  PROVE  WorkersOK'
<1>1. \A f \in Executors : worker'[f] = IF f = e THEN w ELSE worker[f]
  BY DEF SetWorker, TypeOK
<1>2. \A f \in Executors : worker[f].token \in Nat  BY DEF TypeOK, WorkerState
<1>3. lastToken \in Nat  BY DEF TypeOK
<1> QED  BY <1>1, <1>2, <1>3 DEF WorkersOK

LEMMA WorkersFrame ==
  ASSUME TypeOK, WorkersOK, JobsOK, TeamAssumption, NEW e \in Executors, NEW w,
         SetWorker(e, w), WorkerOK(w), Moves(worker[e], w),
         UNCHANGED <<newest, lastToken>>, live' \subseteq live, JobsKept
  PROVE  (WorkersOK /\ JobsOK)'
<1>1. \A f \in Executors : worker'[f] = IF f = e THEN w ELSE worker[f]
  BY DEF SetWorker, TypeOK
<1>2. \A f \in Executors : worker'[f].token \in {worker[f].token, 0} /\ worker[f].token \in Nat
  BY <1>1 DEF Moves, TypeOK, WorkerState
<1>3. WorkersOK'
  BY <1>1, <1>2 DEF WorkersOK, TypeOK
<1>4. 0 \notin live  BY DEF TypeOK
<1>5. \A f \in Executors : worker'[f].pc # "idle" =>
        worker[f].pc # "idle" /\ worker'[f].task = worker[f].task /\ worker[f].task \in Tasks
        /\ (worker[f].stalled => worker'[f].stalled \/ worker[f].token \in live)
  BY <1>1 DEF Moves, WorkersOK, WorkerOK
<1>6. \A f \in Executors : Current(f)' =>
        Current(f) /\ worker'[f].token = worker[f].token /\ worker'[f].pc # "idle"
  BY <1>1, <1>2, <1>3, <1>4, <1>5 DEF Current, WorkersOK, WorkerOK
<1>7. \A f \in Executors : worker'[f].pc # "idle" /\ ~worker'[f].stalled =>
        job[worker[f].task].by = f
  BY <1>5 DEF JobsOK, Current
<1>8. JobsOK'
  BY <1>5, <1>6, <1>7, JobsFrame DEF JobsOK
<1> QED  BY <1>3, <1>8

LEMMA WorkersSame ==
  ASSUME TypeOK, WorkersOK, JobsOK, TeamAssumption, UNCHANGED worker,
         UNCHANGED <<newest, lastToken>>, live' \subseteq live, JobsKept
  PROVE  (WorkersOK /\ JobsOK)'
<1>1. WorkersOK'  BY DEF WorkersOK, WorkerOK
<1>2. 0 \notin live  BY DEF TypeOK
<1>3. \A f \in Executors : Current(f)' => Current(f) /\ worker[f].pc # "idle"
  BY <1>2 DEF Current, WorkersOK, WorkerOK
<1>4. \A f \in Executors : worker[f].pc # "idle" => worker[f].task \in Tasks
  BY DEF WorkersOK, WorkerOK
<1>5. JobsOK'  BY <1>3, <1>4, JobsFrame DEF JobsOK
<1> QED  BY <1>1, <1>5

\* Finish keeps the task, and nothing else but a stall.
LEMMA FinishMoves ==
  ASSUME TypeOK, WorkersOK, JobsOK, TeamAssumption, NEW e \in Executors,
         NEW pc \in {"finishing", "failing"}, Finish(e, pc), worker[e].pc # "idle",
         UNCHANGED <<newest, lastToken>>, live' \subseteq live, JobsKept
  PROVE  (WorkersOK /\ JobsOK)'
<1> DEFINE w == [IdleWorker EXCEPT !.pc = pc, !.task = worker[e].task,
                                   !.stalled = worker[e].stalled]
<1>1. worker[e].task \in Tasks  BY DEF WorkersOK, WorkerOK
<1>2. /\ w.pc = pc /\ w.task = worker[e].task /\ w.stalled = worker[e].stalled
      /\ w.token = 0 /\ w.beating = FALSE /\ w.got = {}
  BY DEF IdleWorker
<1>3. WorkerOK(w)  BY <1>1, <1>2 DEF WorkerOK
<1>4. Moves(worker[e], w)  BY <1>2 DEF Moves
<1>5. SetWorker(e, w)  BY DEF Finish
<1> QED  BY <1>3, <1>4, <1>5, WorkersFrame

LEMMA WorkerSteps ==
  ASSUME TypeOK, WorkersOK, JobsOK, TeamAssumption, NEW e \in Executors, Execute(e)
  PROVE  (WorkersOK /\ JobsOK)'
<1>1. WorkerOK(worker[e]) /\ worker[e] \in WorkerState
  BY DEF WorkersOK, TypeOK
<1>2. job' = job => JobsKept  BY DEF JobsKept
<1>3. worker[e].task \in Tasks /\ job' = Enqueue(worker[e].task) => JobsKept
  BY DEF JobsKept
<1>4. NoOne \notin Executors  BY DEF TeamAssumption
<1>5. ASSUME NEW t \in Tasks, TakeJob(e, t)  PROVE (WorkersOK /\ JobsOK)'
  <2> DEFINE w == [IdleWorker EXCEPT !.pc = "claiming", !.task = t]
  <2>1. /\ w.pc = "claiming" /\ w.task = t /\ w.token = 0 /\ w.got = {}
        /\ w.beating = FALSE /\ w.stalled = FALSE
    BY DEF IdleWorker
  <2>2. \A f \in Executors : worker'[f] = IF f = e THEN w ELSE worker[f]
    BY <1>5 DEF TakeJob, SetWorker, TypeOK
  <2>3. WorkersOK'
    <3>1. WorkerOK(w)  BY <2>1 DEF WorkerOK
    <3>2. SetWorker(e, w)  BY <1>5 DEF TakeJob
    <3>3. lastToken' = lastToken /\ lastToken \in Nat  BY <1>5 DEF TakeJob, TypeOK
    <3> HIDE DEF w
    <3> QED  BY <2>1, <3>1, <3>2, <3>3, TokensFrame
  <2> HIDE DEF w
  <2>4. job[t].by = NoOne /\ \A u \in Tasks :
          job'[u] = IF u = t THEN [status |-> "running", attempt |-> job[t].attempt + 1, by |-> e]
                    ELSE job[u]
    BY <1>5 DEF TakeJob, TypeOK, JobsOK
  <2>5. 0 \notin live /\ live' = live /\ newest' = newest  BY <1>5 DEF TypeOK, TakeJob
  <2>6. \A u \in Tasks : /\ job'[u].status = "running" <=> job'[u].by # NoOne
                         /\ job'[u].status = "pending" => job'[u].attempt < JobAttempts
    BY <1>4, <2>4 DEF JobsOK
  <2>7. ASSUME NEW f \in Executors
        PROVE  /\ worker'[f].pc # "idle" /\ ~worker'[f].stalled => job'[worker'[f].task].by = f
               /\ Current(f)' =>
                    job'[worker'[f].task].by = f /\ newest'[worker'[f].task] = worker'[f].token
    <3>1. CASE f = e  BY <2>1, <2>2, <2>4, <2>5, <3>1 DEF Current
    <3>2. CASE f # e
      <4>1. Current(f) => worker[f].pc # "idle"
        BY <2>5 DEF Current, WorkersOK, WorkerOK
      <4>2. worker[f].pc # "idle" => worker[f].task \in Tasks  BY DEF WorkersOK, WorkerOK
      <4>3. Current(f)' = Current(f)  BY <2>2, <2>5, <3>2 DEF Current
      <4> QED  BY <1>4, <2>2, <2>4, <2>5, <3>2, <4>1, <4>2, <4>3 DEF JobsOK
    <3> QED  BY <3>1, <3>2
  <2> QED  BY <2>3, <2>6, <2>7 DEF JobsOK
<1>6. ASSUME NEW r \in Resources, Acquire(e, r)  PROVE (WorkersOK /\ JobsOK)'
  <2> DEFINE W(pc) == [worker[e] EXCEPT !.got = worker[e].got \union {r}, !.pc = pc]
  <2>1. \/ SetWorker(e, W("starting")) /\ Needs[worker[e].task] = worker[e].got \union {r}
        \/ SetWorker(e, W("acquiring"))
    BY <1>6 DEF Acquire, SetWorker, At
  <2>2. UNCHANGED <<newest, lastToken, live, job>>  BY <1>6 DEF Acquire, data
  <2>3. ASSUME NEW pc \in {"starting", "acquiring"}
        PROVE  /\ W(pc).pc = pc /\ W(pc).token = worker[e].token
               /\ W(pc).task = worker[e].task /\ W(pc).stalled = worker[e].stalled
               /\ W(pc).beating = worker[e].beating /\ W(pc).got = worker[e].got \union {r}
    BY <1>1 DEF WorkerState
  <2>4. worker[e].pc = "acquiring"  BY <1>6 DEF Acquire, At
  <2>5. WorkerOK(W("acquiring"))  BY <1>1, <2>3, <2>4 DEF WorkerOK
  <2>6. Needs[worker[e].task] = worker[e].got \union {r} => WorkerOK(W("starting"))
    BY <1>1, <2>3, <2>4 DEF WorkerOK
  <2>7. Moves(worker[e], W("acquiring")) /\ Moves(worker[e], W("starting"))
    BY <2>3, <2>4 DEF Moves
  <2>8. JobsKept /\ live' \subseteq live  BY <1>2, <2>2
  <2>9. CASE SetWorker(e, W("acquiring"))
    <3> HIDE DEF W
    <3> QED  BY <2>2, <2>5, <2>7, <2>8, <2>9, WorkersFrame
  <2>10. CASE SetWorker(e, W("starting")) /\ Needs[worker[e].task] = worker[e].got \union {r}
    <3> HIDE DEF W
    <3> QED  BY <2>2, <2>6, <2>7, <2>8, <2>10, WorkersFrame
  <2> QED  BY <2>1, <2>9, <2>10
<1>7. ASSUME NEW r \in Resources, AcquireRefused(e, r)  PROVE (WorkersOK /\ JobsOK)'
  BY <1>2, <1>7, ForgetSubset, FinishMoves DEF AcquireRefused, At
<1>8. ASSUME Concludes(e)  PROVE (WorkersOK /\ JobsOK)'
  <2>1. PICK w : SetWorker(e, w) /\ Follows(worker[e], w)  BY <1>8, Concluding
  <2>2. WorkerOK(w) /\ Moves(worker[e], w)
    BY <1>1, <2>1 DEF Follows, Late, WorkerOK, Moves
  <2>3. UNCHANGED <<newest, lastToken>> /\ live' \subseteq live /\ JobsKept
    BY <1>2, <1>8, Concluding
  <2> QED  BY <2>1, <2>2, <2>3, WorkersFrame
<1>19. ASSUME GiveUp(e)  PROVE (WorkersOK /\ JobsOK)'
  <2>1. worker[e].pc # "idle" /\ worker[e].task \in Tasks
    BY <1>1, <1>19 DEF GiveUp, WorkerOK
  <2>2. JobsKept  BY <1>2, <1>3, <1>19, <2>1 DEF GiveUp
  <2> QED  BY <1>19, <2>1, <2>2, ForgetSubset, FinishMoves DEF GiveUp
<1>10. ASSUME ClaimTask(e)  PROVE (WorkersOK /\ JobsOK)'
  <2> DEFINE t == worker[e].task  k == lastToken + 1
  <2>1. worker[e].pc = "claiming" /\ t \in Tasks /\ ~worker[e].stalled /\ worker[e].got = {}
    BY <1>1, <1>10 DEF ClaimTask, At, WorkerOK
  <2>2. CASE ~Claimable(t)
    BY <1>2, <1>10, <2>1, <2>2, FinishMoves DEF ClaimTask
  <2>3. CASE Claimable(t)
    <3>1. PICK pc \in {"acquiring", "starting"} :
            /\ SetWorker(e, [worker[e] EXCEPT !.pc = pc, !.token = k])
            /\ pc = "acquiring" <=> Locked(t)
      BY <1>10, <2>3 DEF ClaimTask
    <3> DEFINE w == [worker[e] EXCEPT !.pc = pc, !.token = k]
    <3>2. /\ w.pc = pc /\ w.token = k /\ w.task = t /\ w.got = {}
          /\ w.stalled = worker[e].stalled /\ w.beating = worker[e].beating
      BY <1>1, <2>1 DEF WorkerState
    <3>3. SetWorker(e, w)  BY <3>1
    <3>4. \A f \in Executors : worker'[f] = IF f = e THEN w ELSE worker[f]
      BY <3>3 DEF SetWorker, TypeOK
    <3> HIDE DEF w
    <3>5. lastToken \in Nat /\ lastToken' = k /\ k > 0 /\ k \in Nat
      BY <1>10, <2>3 DEF ClaimTask, TypeOK
    <3>6. WorkerOK(w)
      BY <1>1, <2>1, <3>1, <3>2, <3>5 DEF WorkerOK, Locked
    <3>7. WorkersOK'  BY <3>2, <3>3, <3>5, <3>6, TokensFrame
    <3>8. job' = job /\ live' = live \union {k} /\ newest' = [newest EXCEPT ![t] = k]
      BY <1>10, <2>3 DEF ClaimTask
    <3>9. job[t].by = e  BY <2>1 DEF JobsOK
    <3>10. ASSUME NEW f \in Executors
           PROVE  /\ worker'[f].pc # "idle" /\ ~worker'[f].stalled => job'[worker'[f].task].by = f
                  /\ Current(f)' =>
                       job'[worker'[f].task].by = f /\ newest'[worker'[f].task] = worker'[f].token
      <4>1. CASE f = e
        BY <2>1, <3>2, <3>4, <3>8, <3>9, <4>1 DEF TypeOK
      <4>2. CASE f # e
        <5>1. worker'[f] = worker[f]  BY <3>4, <4>2
        <5>2. worker[f].token # k
          BY <3>5 DEF WorkersOK, TypeOK, WorkerState
        <5>3. Current(f) => worker[f].task # t
          BY <3>9, <4>2 DEF JobsOK
        <5>4. Current(f) => newest'[worker[f].task] = newest[worker[f].task]
          BY <3>8, <5>3 DEF TypeOK
        <5>5. Current(f)' => Current(f)  BY <3>8, <5>1, <5>2 DEF Current
        <5> QED  BY <3>8, <5>1, <5>4, <5>5 DEF JobsOK
      <4> QED  BY <4>1, <4>2
    <3> QED  BY <3>7, <3>8, <3>10 DEF JobsOK
  <2> QED  BY <2>2, <2>3
<1>11. ASSUME BeginBody(e)  PROVE (WorkersOK /\ JobsOK)'
  <2> DEFINE w == [worker[e] EXCEPT !.pc = "committing", !.final = "CANCELLED"]
             v == [worker[e] EXCEPT !.pc = "body", !.beating = TRUE]
  <2>1. worker[e].pc = "starting"  BY <1>11 DEF BeginBody, At
  <2>2. /\ w.pc = "committing" /\ w.token = worker[e].token /\ w.task = worker[e].task
        /\ w.stalled = worker[e].stalled /\ w.got = worker[e].got
        /\ w.beating = worker[e].beating
        /\ v.pc = "body" /\ v.token = worker[e].token /\ v.task = worker[e].task
        /\ v.stalled = worker[e].stalled /\ v.got = worker[e].got
    BY <1>1 DEF WorkerState
  <2>3. SetWorker(e, w) \/ SetWorker(e, v)  BY <1>11 DEF BeginBody
  <2>4. UNCHANGED <<newest, lastToken>> /\ live' \subseteq live /\ JobsKept
    BY <1>2, <1>11 DEF BeginBody, data
  <2> HIDE DEF w, v
  <2>5. WorkerOK(w) /\ Moves(worker[e], w) /\ WorkerOK(v) /\ Moves(worker[e], v)
    BY <1>1, <2>1, <2>2 DEF WorkerOK, Moves
  <2> QED  BY <2>3, <2>4, <2>5, WorkersFrame
<1>13. ASSUME LetGo(e)  PROVE (WorkersOK /\ JobsOK)'
  <2>1. worker[e].pc # "idle" /\ worker[e].task \in Tasks
    BY <1>1, <1>13 DEF LetGo, At, WorkerOK
  <2>2. JobsKept  BY <1>2, <1>3, <1>13, <2>1 DEF LetGo
  <2> QED  BY <1>13, <2>1, <2>2, FinishMoves DEF LetGo
<1>14. ASSUME JobEnds(e)  PROVE (WorkersOK /\ JobsOK)'
  <2> DEFINE t == worker[e].task
  <2>1. t \in Tasks /\ worker[e].token = 0  BY <1>1, <1>14 DEF JobEnds, WorkerOK
  <2>2. \A f \in Executors : worker'[f] = IF f = e THEN IdleWorker ELSE worker[f]
    BY <1>14 DEF JobEnds, SetWorker, TypeOK
  <2>3. WorkerOK(IdleWorker) /\ IdleWorker.token = 0 /\ IdleWorker.pc = "idle"
    BY DEF WorkerOK, IdleWorker
  <2>4. UNCHANGED <<lastToken, newest, live>> /\ lastToken \in Nat /\ SetWorker(e, IdleWorker)
    BY <1>14 DEF JobEnds, TypeOK
  <2>5. WorkersOK'  BY <2>3, <2>4, TokensFrame
  <2>6. /\ job[t].by # e => job' = job
        /\ \A u \in Tasks \ {t} : job'[u] = job[u]
        /\ job[t].by = e =>
             \/ job'[t].status = "none" /\ job'[t].by = NoOne
             \/ job'[t].status = "pending" /\ job'[t].by = NoOne /\ job'[t].attempt < JobAttempts
    <3>1. job[t] \in JobState  BY <2>1 DEF TypeOK
    <3>2. NoJob.status = "none" /\ NoJob.by = NoOne  BY DEF NoJob
    <3>3. LET p == [job[t] EXCEPT !.status = "pending", !.by = NoOne]
          IN  p.status = "pending" /\ p.by = NoOne /\ p.attempt = job[t].attempt
      BY <3>1 DEF JobState
    <3> QED  BY <1>14, <2>1, <3>2, <3>3 DEF JobEnds, TypeOK
  <2>7. \A u \in Tasks : /\ job'[u].status = "running" <=> job'[u].by # NoOne
                         /\ job'[u].status = "pending" => job'[u].attempt < JobAttempts
    BY <2>6 DEF JobsOK
  <2>8. ASSUME NEW f \in Executors
        PROVE  /\ worker'[f].pc # "idle" /\ ~worker'[f].stalled => job'[worker'[f].task].by = f
               /\ Current(f)' =>
                    job'[worker'[f].task].by = f /\ newest'[worker'[f].task] = worker'[f].token
    <3>1. CASE f = e  BY <2>2, <2>3, <2>4, <3>1 DEF TypeOK, Current
    <3>2. CASE f # e
      <4>1. Current(f)' => Current(f) /\ worker[f].pc # "idle"
        BY <2>2, <2>4, <3>2 DEF Current, WorkersOK, WorkerOK, TypeOK
      <4>2. worker[f].pc # "idle" => worker[f].task \in Tasks  BY DEF WorkersOK, WorkerOK
      <4>3. \A u \in Tasks : job[u].by = f => job'[u].by = f  BY <2>6, <3>2
      <4> QED  BY <2>2, <2>4, <3>2, <4>1, <4>2, <4>3 DEF JobsOK
    <3> QED  BY <3>1, <3>2
  <2> QED  BY <2>5, <2>7, <2>8 DEF JobsOK
<1> QED
  BY <1>5, <1>6, <1>7, <1>8, <1>10, <1>11, <1>13, <1>14, <1>19 DEF Execute, Concludes

LEMMA JobsStep ==
  ASSUME TypeOK, WorkersOK, JobsOK, TeamAssumption, [Next]_vars
  PROVE  (WorkersOK /\ JobsOK)'
<1>1. job' = job => JobsKept  BY DEF JobsKept
<1>2. NoOne \notin Executors  BY DEF TeamAssumption
<1>3. ASSUME NEW u \in Users, Ask(u)  PROVE (WorkersOK /\ JobsOK)'
  <2>1. UNCHANGED <<worker, newest, lastToken, live, job>>
    BY <1>3 DEF Ask, RunReady, CancelSession, RunTask, RetryTask, CancelTask, data
  <2> QED  BY <1>1, <2>1, WorkersSame
<1>4. ASSUME NEW s \in Schedulers, Write(s)  PROVE (WorkersOK /\ JobsOK)'
  <2>1. UNCHANGED <<worker, newest, lastToken>>
    BY <1>4 DEF Write, Save, EnqueueDue, StopTask, SessionStopped
  <2>2. live' \subseteq live
    BY <1>4, ForgetSubset DEF Write, Save, EnqueueDue, StopTask, SessionStopped
  <2>3. JobsKept
    BY <1>1, <1>4 DEF Write, Save, EnqueueDue, StopTask, SessionStopped, JobsKept
  <2> QED  BY <2>1, <2>2, <2>3, WorkersSame
<1>5. ASSUME NEW k \in live, LeaseLapses(k)  PROVE (WorkersOK /\ JobsOK)'
  BY <1>1, <1>5, WorkersSame DEF LeaseLapses
<1>6. ASSUME NEW c \in claims, ClaimLapses(c)  PROVE (WorkersOK /\ JobsOK)'
  BY <1>1, <1>6, WorkersSame DEF ClaimLapses, data
<1>7. ASSUME NEW t \in Tasks, JobLapses(t)  PROVE (WorkersOK /\ JobsOK)'
  <2> DEFINE e == job[t].by
  <2>1. job[t] \in JobState /\ job[t].status = "running"  BY <1>7 DEF JobLapses, TypeOK
  <2>2. /\ \A u \in Tasks \ {t} : job'[u] = job[u]
        /\ \/ job'[t].status = "none" /\ job'[t].by = NoOne
           \/ job'[t].status = "pending" /\ job'[t].by = NoOne /\ job'[t].attempt < JobAttempts
    <3>1. NoJob.status = "none" /\ NoJob.by = NoOne  BY DEF NoJob
    <3>2. LET p == [job[t] EXCEPT !.status = "pending", !.by = NoOne]
          IN  p.status = "pending" /\ p.by = NoOne /\ p.attempt = job[t].attempt
      BY <2>1 DEF JobState
    <3> QED  BY <1>7, <3>1, <3>2 DEF JobLapses, TypeOK
  <2>3. UNCHANGED <<worker, newest, lastToken, live>>  BY <1>7 DEF JobLapses
  <2>4. WorkersOK'  BY <2>3 DEF WorkersOK, WorkerOK
  <2>5. ASSUME NEW f \in Executors, \/ worker[f].pc # "idle" /\ ~worker[f].stalled
                                    \/ Current(f)
        PROVE  worker[f].task \in Tasks \ {t}
    <3>1. worker[f].pc # "idle"  BY <2>5 DEF Current, WorkersOK, WorkerOK, TypeOK
    <3>2. worker[f].task \in Tasks  BY <3>1 DEF WorkersOK, WorkerOK
    <3>3. job[worker[f].task].by = f  BY <2>5, <3>1 DEF JobsOK
    <3>4. CASE worker[f].token \in live /\ worker[f].task = t
      BY <1>7, <3>4 DEF JobLapses, JobsOK, Current
    <3>5. CASE ~worker[f].stalled /\ worker[f].task = t
      BY <1>7, <3>3, <3>5 DEF JobLapses
    <3> QED  BY <2>5, <3>2, <3>4, <3>5 DEF Current
  <2>6. \A f \in Executors : Current(f)' = Current(f)  BY <2>3 DEF Current
  <2> QED  BY <2>2, <2>3, <2>4, <2>5, <2>6 DEF JobsOK
<1>8. ASSUME NEW e \in Executors, AcquireRaises(e)  PROVE (WorkersOK /\ JobsOK)'
  BY <1>1, <1>8, FinishMoves DEF AcquireRaises, data, At
<1>9. ASSUME NEW e \in Executors, HeartbeatStops(e) \/ Stall(e)  PROVE (WorkersOK /\ JobsOK)'
  <2> DEFINE w == [worker[e] EXCEPT !.beating = FALSE]
             v == [worker[e] EXCEPT !.stalled = TRUE]
  <2>1. WorkerOK(worker[e]) /\ worker[e] \in WorkerState  BY DEF WorkersOK, TypeOK
  <2>2. /\ w.pc = worker[e].pc /\ w.token = worker[e].token /\ w.task = worker[e].task
        /\ w.stalled = worker[e].stalled /\ w.got = worker[e].got /\ w.beating = FALSE
        /\ v.pc = worker[e].pc /\ v.token = worker[e].token /\ v.task = worker[e].task
        /\ v.stalled = TRUE /\ v.got = worker[e].got /\ v.beating = worker[e].beating
    BY <2>1 DEF WorkerState
  <2>3. SetWorker(e, w) \/ (worker[e].token # 0 /\ SetWorker(e, v))
    BY <1>9 DEF HeartbeatStops, Stall
  <2>4. UNCHANGED <<newest, lastToken>> /\ live' \subseteq live /\ JobsKept
    BY <1>1, <1>9 DEF HeartbeatStops, Stall, data
  <2> HIDE DEF w, v
  <2>5. WorkerOK(w) /\ Moves(worker[e], w) /\ Moves(worker[e], v)
        /\ (worker[e].token # 0 => WorkerOK(v))
    BY <2>1, <2>2 DEF WorkerOK, Moves
  <2> QED  BY <2>3, <2>4, <2>5, WorkersFrame
<1>10. ASSUME NEW e \in Executors, CrashWorker(e)  PROVE (WorkersOK /\ JobsOK)'
  <2>1. WorkerOK(IdleWorker) /\ Moves(worker[e], IdleWorker)
    BY DEF WorkerOK, IdleWorker, Moves
  <2> QED  BY <1>1, <1>10, <2>1, ForgetSubset, WorkersFrame DEF CrashWorker
<1>11. ASSUME NEW u \in Users, CrashRequest(u)  PROVE (WorkersOK /\ JobsOK)'
  BY <1>1, <1>11, ForgetSubset, WorkersSame DEF CrashRequest
<1>12. CASE UNCHANGED vars
  BY <1>1, <1>12, WorkersSame DEF vars, data
<1> QED
  BY <1>3, <1>4, <1>5, <1>6, <1>7, <1>8, <1>9, <1>10, <1>11, <1>12, WorkerSteps
  DEF Next, Lapse, Fault

-----------------------------------------------------------------------------
(* Resources. *)

\* Claims go only with the token of e, and then e does not hold them any more.
LEMMA ClaimsFrame ==
  ASSUME TypeOK, WorkersOK, ClaimsOK, NEW e \in Executors, NEW w, SetWorker(e, w),
         \/ claims' = claims
         \/ claims' = claims \ ClaimsOf(worker[e].token),
         \/ w.pc \notin {"acquiring", "starting", "body"}
         \/ w.got = {}
         \/ /\ claims' = claims /\ w.token = worker[e].token /\ w.task = worker[e].task
            /\ w.got = worker[e].got
            /\ worker[e].pc \in {"acquiring", "starting"}
               \/ (worker[e].pc = "body" /\ w.pc = "body" /\ (w.beating => worker[e].beating))
            /\ (worker[e].stalled => w.stalled)
  PROVE  ClaimsOK'
<1>1. \A f \in Executors : worker'[f] = IF f = e THEN w ELSE worker[f]
  BY DEF SetWorker, TypeOK
<1>2. \A c, d \in claims' : c.res = d.res => c.task = d.task
  BY DEF ClaimsOK
<1>3. ASSUME NEW f \in Executors, Guarded(f)', NEW r \in worker'[f].got
      PROVE  [res |-> r, task |-> worker'[f].task, token |-> worker'[f].token] \in claims'
  <2>1. CASE f = e
    <3>1. worker'[e] = w  BY <1>1
    <3>2. ~w.stalled /\ (w.pc \in {"acquiring", "starting"} \/ (w.pc = "body" /\ w.beating))
      BY <1>3, <2>1, <3>1 DEF Guarded, Sound, At
    <3>3. /\ claims' = claims /\ w.token = worker[e].token /\ w.task = worker[e].task
          /\ w.got = worker[e].got /\ Guarded(e)
      BY <1>3, <2>1, <3>1, <3>2 DEF Guarded, Sound, At
    <3> QED  BY <1>3, <2>1, <3>1, <3>3 DEF ClaimsOK
  <2>2. CASE f # e
    <3>1. worker'[f] = worker[f]  BY <1>1, <2>2
    <3>2. Guarded(f)  BY <1>3, <3>1 DEF Guarded, Sound, At
    <3>3. worker[f].token # worker[e].token
      BY <2>2, <3>2 DEF Guarded, Sound, At, WorkersOK, WorkerOK
    <3>4. [res |-> r, task |-> worker[f].task, token |-> worker[f].token] \in claims
      BY <1>3, <3>1, <3>2 DEF ClaimsOK
    <3> QED  BY <3>1, <3>3, <3>4 DEF ClaimsOf
  <2> QED  BY <2>1, <2>2
<1> QED  BY <1>2, <1>3 DEF ClaimsOK

LEMMA ClaimsSame ==
  ASSUME ClaimsOK, UNCHANGED <<worker, claims>>  PROVE ClaimsOK'
BY DEF ClaimsOK, Guarded, Sound, At

LEMMA FinishClaims ==
  ASSUME TypeOK, WorkersOK, ClaimsOK, NEW e \in Executors,
         NEW pc \in {"finishing", "failing"}, Finish(e, pc),
         claims' = claims \/ claims' = claims \ ClaimsOf(worker[e].token)
  PROVE  ClaimsOK'
<1> DEFINE w == [IdleWorker EXCEPT !.pc = pc, !.task = worker[e].task,
                                   !.stalled = worker[e].stalled]
<1>1. w.pc = pc /\ w.got = {}  BY DEF IdleWorker
<1>2. SetWorker(e, w)  BY DEF Finish
<1> HIDE DEF w
<1> QED  BY <1>1, <1>2, ClaimsFrame

LEMMA ClaimsStep ==
  ASSUME TypeOK, WorkersOK, ClaimsOK, [Next]_vars
  PROVE  ClaimsOK'
<1>1. IdleWorker.pc = "idle"  BY DEF IdleWorker
<1>2. ASSUME NEW e \in Executors  PROVE WorkerOK(worker[e]) /\ worker[e] \in WorkerState
  BY DEF WorkersOK, TypeOK
<1>3. ASSUME NEW u \in Users, Ask(u)  PROVE ClaimsOK'
  BY <1>3, ClaimsSame DEF Ask, RunReady, CancelSession, RunTask, RetryTask, CancelTask
<1>4. ASSUME NEW s \in Schedulers, Write(s)  PROVE ClaimsOK'
  BY <1>4, ClaimsSame DEF Write, Save, EnqueueDue, StopTask, SessionStopped
<1>5. ASSUME NEW k \in live, LeaseLapses(k)  PROVE ClaimsOK'
  BY <1>5, ClaimsSame DEF LeaseLapses
<1>6. ASSUME NEW c \in claims, ClaimLapses(c)  PROVE ClaimsOK'
  <2>1. claims' = claims \ {c} /\ worker' = worker  BY <1>6 DEF ClaimLapses
  <2>2. ASSUME NEW f \in Executors, Guarded(f)  PROVE worker[f].token # c.token
    BY <1>6, <2>2 DEF ClaimLapses, ClaimTended, Tended, Guarded, Sound, At
  <2>3. ASSUME NEW f \in Executors, Guarded(f)', NEW r \in worker'[f].got
        PROVE  [res |-> r, task |-> worker'[f].task, token |-> worker'[f].token] \in claims'
    <3>1. Guarded(f)  BY <2>1, <2>3 DEF Guarded, Sound, At
    <3>2. [res |-> r, task |-> worker[f].task, token |-> worker[f].token] \in claims
      BY <2>1, <2>3, <3>1 DEF ClaimsOK
    <3> QED  BY <2>1, <2>2, <3>1, <3>2
  <2> QED  BY <2>1, <2>3 DEF ClaimsOK
<1>7. ASSUME NEW t \in Tasks, JobLapses(t)  PROVE ClaimsOK'
  BY <1>7, ClaimsSame DEF JobLapses
<1>8. ASSUME NEW e \in Executors, AcquireRaises(e)  PROVE ClaimsOK'
  BY <1>8, FinishClaims DEF AcquireRaises
<1>9. ASSUME NEW e \in Executors, HeartbeatStops(e) \/ Stall(e)  PROVE ClaimsOK'
  <2> DEFINE w == [worker[e] EXCEPT !.beating = FALSE]
             v == [worker[e] EXCEPT !.stalled = TRUE]
  <2>1. /\ w.pc = worker[e].pc /\ w.token = worker[e].token /\ w.task = worker[e].task
        /\ w.stalled = worker[e].stalled /\ w.got = worker[e].got /\ w.beating = FALSE
        /\ v.pc = worker[e].pc /\ v.token = worker[e].token /\ v.task = worker[e].task
        /\ v.stalled = TRUE /\ v.got = worker[e].got /\ v.beating = worker[e].beating
    BY <1>2 DEF WorkerState
  <2>2. (SetWorker(e, w) \/ SetWorker(e, v)) /\ claims' = claims
    BY <1>9 DEF HeartbeatStops, Stall
  <2> HIDE DEF w, v
  <2> QED  BY <2>1, <2>2, ClaimsFrame
<1>10. ASSUME NEW e \in Executors, CrashWorker(e) \/ JobEnds(e)  PROVE ClaimsOK'
  BY <1>1, <1>10, ClaimsFrame DEF CrashWorker, JobEnds
<1>11. ASSUME NEW u \in Users, CrashRequest(u)  PROVE ClaimsOK'
  BY <1>11, ClaimsSame DEF CrashRequest
<1>12. CASE UNCHANGED vars  BY <1>12, ClaimsSame DEF vars
<1>13. ASSUME NEW e \in Executors, NEW t \in Tasks, TakeJob(e, t)  PROVE ClaimsOK'
  <2> DEFINE w == [IdleWorker EXCEPT !.pc = "claiming", !.task = t]
  <2>1. w.pc = "claiming"  BY DEF IdleWorker
  <2>2. SetWorker(e, w) /\ claims' = claims  BY <1>13 DEF TakeJob
  <2> HIDE DEF w
  <2> QED  BY <2>1, <2>2, ClaimsFrame
<1>14. ASSUME NEW e \in Executors, NEW r \in Resources, Acquire(e, r)  PROVE ClaimsOK'
  <2> DEFINE t == worker[e].task  c == [res |-> r, task |-> t, token |-> worker[e].token]
             W(pc) == [worker[e] EXCEPT !.got = worker[e].got \union {r}, !.pc = pc]
  <2>1. At(e, "acquiring") /\ Free(r, t) /\ claims' = claims \union {c}
    BY <1>14 DEF Acquire
  <2>2. \A b, d \in claims' : b.res = d.res => b.task = d.task
    BY <2>1 DEF Free, ClaimsOK
  <2>3. ASSUME NEW pc \in {"starting", "acquiring"}
        PROVE  /\ W(pc).pc = pc /\ W(pc).token = worker[e].token /\ W(pc).task = t
               /\ W(pc).stalled = worker[e].stalled /\ W(pc).got = worker[e].got \union {r}
    BY <1>2 DEF WorkerState
  <2>4. PICK pc \in {"starting", "acquiring"} : worker' = [worker EXCEPT ![e] = W(pc)]
    BY <1>14 DEF Acquire, SetWorker, At
  <2>5. \A f \in Executors : worker'[f] = IF f = e THEN W(pc) ELSE worker[f]
    BY <2>4 DEF TypeOK
  <2> HIDE DEF W
  <2>6. ASSUME NEW f \in Executors, Guarded(f)', NEW q \in worker'[f].got
        PROVE  [res |-> q, task |-> worker'[f].task, token |-> worker'[f].token] \in claims'
    <3>1. CASE f = e
      <4>1. Guarded(e)  BY <2>1, <2>3, <2>5, <2>6, <3>1 DEF Guarded, At
      <4> QED  BY <2>1, <2>3, <2>5, <2>6, <3>1, <4>1 DEF ClaimsOK
    <3>2. CASE f # e
      <4>1. worker'[f] = worker[f]  BY <2>5, <3>2
      <4>2. Guarded(f)  BY <2>6, <4>1 DEF Guarded, Sound, At
      <4> QED  BY <2>1, <2>6, <4>1, <4>2 DEF ClaimsOK
    <3> QED  BY <3>1, <3>2
  <2> QED  BY <2>2, <2>6 DEF ClaimsOK
<1>15. ASSUME NEW e \in Executors,
              \/ \E r \in Resources : AcquireRefused(e, r)
              \/ GiveUp(e) \/ LetGo(e)
       PROVE  ClaimsOK'
  BY <1>15, FinishClaims DEF AcquireRefused, GiveUp, LetGo
<1>16. ASSUME NEW e \in Executors, Concludes(e)  PROVE ClaimsOK'
  <2>1. PICK w : SetWorker(e, w) /\ Follows(worker[e], w)  BY <1>16, Concluding
  <2>2. w.pc \notin {"acquiring", "starting", "body"}  BY <2>1 DEF Follows, Late
  <2>3. claims' = claims  BY <1>16, Concluding
  <2> QED  BY <2>1, <2>2, <2>3, ClaimsFrame
<1>17. ASSUME NEW e \in Executors, ClaimTask(e)  PROVE ClaimsOK'
  <2>1. worker[e].pc = "claiming" /\ worker[e].got = {} /\ claims' = claims
    BY <1>2, <1>17 DEF ClaimTask, At, WorkerOK
  <2>2. CASE Finish(e, "finishing")  BY <2>1, <2>2, FinishClaims
  <2>3. CASE ~Finish(e, "finishing")
    <3> DEFINE w == [worker[e] EXCEPT
                       !.pc = IF Locked(worker[e].task) THEN "acquiring" ELSE "starting",
                       !.token = lastToken + 1]
    <3>1. w.got = {}  BY <1>2, <2>1 DEF WorkerState
    <3>2. SetWorker(e, w)  BY <1>17, <2>3 DEF ClaimTask
    <3> HIDE DEF w
    <3> QED  BY <2>1, <3>1, <3>2, ClaimsFrame
  <2> QED  BY <2>2, <2>3
<1>18. ASSUME NEW e \in Executors, BeginBody(e)  PROVE ClaimsOK'
  <2> DEFINE w == [worker[e] EXCEPT !.pc = "committing", !.final = "CANCELLED"]
             v == [worker[e] EXCEPT !.pc = "body", !.beating = TRUE]
  <2>1. worker[e].pc = "starting" /\ claims' = claims  BY <1>18 DEF BeginBody, At
  <2>2. /\ w.pc = "committing" /\ v.token = worker[e].token /\ v.task = worker[e].task
        /\ v.stalled = worker[e].stalled /\ v.got = worker[e].got
    BY <1>2 DEF WorkerState
  <2>3. SetWorker(e, w) \/ SetWorker(e, v)  BY <1>18 DEF BeginBody
  <2> HIDE DEF w, v
  <2> QED  BY <2>1, <2>2, <2>3, ClaimsFrame
<1> QED
  BY <1>3, <1>4, <1>5, <1>6, <1>7, <1>8, <1>9, <1>10, <1>11, <1>12, <1>13, <1>14, <1>15, <1>16,
     <1>17, <1>18
  DEF Next, Execute, Lapse, Fault, Concludes

-----------------------------------------------------------------------------
(* What workers read and record. *)

\* e writes p, and is w.
LEMMA WritersFrame ==
  ASSUME TypeOK, WritersOK, TeamAssumption, NEW e \in Executors, NEW w, SetWorker(e, w),
         NEW p, plan' = [plan EXCEPT ![e] = p], WriterOK(p, w)
  PROVE  WritersOK'
<1>1. \A f \in Executors : worker'[f] = IF f = e THEN w ELSE worker[f]
  BY DEF SetWorker, TypeOK
<1>2. \A s \in Schedulers : plan'[s] = IF s = e THEN p ELSE plan[s]  BY DEF TypeOK
<1>3. \A f \in Executors : WriterOK(plan'[f], worker'[f])
  BY <1>1, <1>2 DEF WritersOK, Schedulers
<1>4. \A u \in Users : plan'[u] = plan[u]  BY <1>2 DEF TeamAssumption, Schedulers
<1> QED  BY <1>3, <1>4 DEF WritersOK

\* A worker with nothing to write, or whose state and task stay.
LEMMA WritersKeep ==
  ASSUME TypeOK, WritersOK, TeamAssumption, NEW e \in Executors, NEW w, SetWorker(e, w),
         plan' = plan, plan[e] = NoPlan \/ (w.pc = worker[e].pc /\ w.task = worker[e].task)
  PROVE  WritersOK'
<1>1. plan' = [plan EXCEPT ![e] = plan[e]]  BY DEF TypeOK, Schedulers
<1>2. WriterOK(plan[e], w)  BY DEF WritersOK, WriterOK
<1> QED  BY <1>1, <1>2, WritersFrame

LEMMA WritersSame ==
  ASSUME WritersOK, UNCHANGED worker,
         \A f \in Executors : plan'[f] = plan[f] \/ WriterOK(plan'[f], worker[f]),
         \A u \in Users : plan'[u] = plan[u] \/ plan'[u].kind \notin Own
  PROVE  WritersOK'
BY DEF WritersOK

LEMMA NothingToWrite ==
  ASSUME WritersOK, NEW e \in Executors,
         worker[e].pc \notin {"body", "updating", "raised", "releasing", "finishing"}
  PROVE  plan[e] = NoPlan
BY DEF WritersOK, WriterOK

\* A row of its task, read by a worker that goes on.
LEMMA WritersRead ==
  ASSUME TypeOK, WritersOK, TeamAssumption, NEW e \in Executors, NEW w, SetWorker(e, w),
         w.task = worker[e].task, NEW kind, SetPlan(e, kind, Rows({worker[e].task}), {}),
         \/ kind = "begin" /\ w.pc = "body"
         \/ kind = "record" /\ w.pc \in {"updating", "raised"}
         \/ kind = "update" /\ w.pc = "releasing"
  PROVE  WritersOK'
<1> DEFINE p == [kind |-> kind, read |-> Rows({worker[e].task}), due |-> {}]
<1>1. p.kind = kind /\ p.due = {} /\ DOMAIN p.read = {worker[e].task}  BY DEF Rows
<1>2. plan' = [plan EXCEPT ![e] = p]  BY DEF SetPlan
<1> HIDE DEF p
<1>3. WriterOK(p, w)  BY <1>1 DEF WriterOK
<1> QED  BY <1>2, <1>3, WritersFrame

LEMMA WritersFinish ==
  ASSUME TypeOK, WritersOK, TeamAssumption, NEW e \in Executors, NEW pc, Finish(e, pc),
         plan[e] = NoPlan, plan' = plan
  PROVE  WritersOK'
BY WritersKeep DEF Finish

LEMMA WritersStep ==
  ASSUME TypeOK, WorkersOK, WritersOK, TeamAssumption, [Next]_vars
  PROVE  WritersOK'
<1>1. ASSUME NEW e \in Executors  PROVE worker[e] \in WorkerState
  BY DEF TypeOK
<1>2. CASE UNCHANGED <<worker, plan>>  BY <1>2, WritersSame
<1>3. ASSUME NEW e \in Executors, NEW t \in Tasks, TakeJob(e, t)  PROVE WritersOK'
  BY <1>3, NothingToWrite, WritersKeep DEF TakeJob, At
<1>4. ASSUME NEW e \in Executors, NEW r \in Resources, Acquire(e, r)  PROVE WritersOK'
  BY <1>4, NothingToWrite, WritersKeep DEF Acquire, At
<1>5. ASSUME NEW e \in Executors, NEW r \in Resources, AcquireRefused(e, r)  PROVE WritersOK'
  BY <1>5, NothingToWrite, WritersFinish DEF AcquireRefused, At
<1>6. ASSUME NEW e \in Executors, NEW final \in Statuses, BodyRaises(e, final)  PROVE WritersOK'
  <2> DEFINE w == [worker[e] EXCEPT !.pc = "raised", !.beating = FALSE, !.final = final]
  <2>1. w.pc = "raised" /\ w.task = worker[e].task  BY <1>1 DEF WorkerState
  <2>2. SetWorker(e, w) /\ plan[e] = NoPlan  BY <1>6 DEF BodyRaises
  <2>3. plan' = plan \/ SetPlan(e, "record", Rows({worker[e].task}), {})
    BY <1>6 DEF BodyRaises
  <2> HIDE DEF w
  <2> QED  BY <2>1, <2>2, <2>3, WritersKeep, WritersRead
<1>7. ASSUME NEW e \in Executors, NEW final \in {"DONE", "FAILED", "BLOCKED"}, BodyReturns(e, final)
      PROVE  WritersOK'
  <2>1. plan[e] = NoPlan /\ plan' = plan  BY <1>7 DEF BodyReturns
  <2>2. \E w : SetWorker(e, w)  BY <1>7, Concluding DEF Concludes
  <2> QED  BY <2>1, <2>2, WritersKeep
<1>8. ASSUME NEW e \in Executors, CheckClaim(e) \/ Release(e)  PROVE WritersOK'
  <2>1. plan[e] = NoPlan  BY <1>8, NothingToWrite DEF CheckClaim, Release, At
  <2>2. plan' = plan
    <3>1. CASE CheckClaim(e)  BY <3>1, Zenon DEF CheckClaim
    <3>2. CASE Release(e)  BY <3>2 DEF Release
    <3> QED  BY <1>8, <3>1, <3>2
  <2>3. \E w : SetWorker(e, w)  BY <1>8, Concluding DEF Concludes
  <2> QED  BY <2>1, <2>2, <2>3, WritersKeep
<1>9. ASSUME NEW e \in Executors, Record(e) \/ Update(e)  PROVE WritersOK'
  <2> DEFINE w(pc) == [worker[e] EXCEPT !.pc = pc]
  <2>1. \A pc \in PCs : w(pc).pc = pc /\ w(pc).task = worker[e].task  BY <1>1 DEF WorkerState
  <2>2. CASE Record(e)
    <3>1. SetWorker(e, w("updating")) /\ SetPlan(e, "record", Rows({worker[e].task}), {})
      BY <2>2 DEF Record, Goto
    <3>2. w("updating").pc = "updating" /\ w("updating").task = worker[e].task
      BY <2>1 DEF PCs
    <3> HIDE DEF w
    <3> QED  BY <3>1, <3>2, WritersRead
  <2>3. CASE Update(e)
    <3>1. SetWorker(e, w("releasing")) /\ SetPlan(e, "update", Rows({worker[e].task}), {})
      BY <2>3 DEF Update, Goto
    <3>2. w("releasing").pc = "releasing" /\ w("releasing").task = worker[e].task
      BY <2>1 DEF PCs
    <3> HIDE DEF w
    <3> QED  BY <3>1, <3>2, WritersRead
  <2> QED  BY <1>9, <2>2, <2>3
<1>10. ASSUME NEW e \in Executors, ClaimTask(e)  PROVE WritersOK'
  <2>1. plan[e] = NoPlan /\ plan' = plan  BY <1>10, NothingToWrite DEF ClaimTask, At
  <2>2. \E w : SetWorker(e, w)  BY <1>10 DEF ClaimTask, Finish
  <2> QED  BY <2>1, <2>2, WritersKeep
<1>11. ASSUME NEW e \in Executors, BeginBody(e)  PROVE WritersOK'
  <2> DEFINE w == [worker[e] EXCEPT !.pc = "committing", !.final = "CANCELLED"]
             v == [worker[e] EXCEPT !.pc = "body", !.beating = TRUE]
  <2>1. v.pc = "body" /\ v.task = worker[e].task  BY <1>1 DEF WorkerState
  <2>2. plan[e] = NoPlan  BY <1>11, NothingToWrite DEF BeginBody, At
  <2>3. \/ SetWorker(e, w) /\ plan' = plan
        \/ SetWorker(e, v) /\ SetPlan(e, "begin", Rows({worker[e].task}), {})
    BY <1>11 DEF BeginBody
  <2> HIDE DEF w, v
  <2> QED  BY <2>1, <2>2, <2>3, WritersKeep, WritersRead
<1>12. ASSUME NEW e \in Executors, GiveUp(e)  PROVE WritersOK'
  BY <1>12, WritersFinish DEF GiveUp
<1>13. ASSUME NEW e \in Executors, LetGo(e)  PROVE WritersOK'
  <2> DEFINE w == [IdleWorker EXCEPT !.pc = "finishing", !.task = worker[e].task,
                                     !.stalled = worker[e].stalled]
  <2>1. w.pc = "finishing"  BY DEF IdleWorker
  <2>2. SetWorker(e, w) /\ plan[e] = NoPlan
    BY <1>13, NothingToWrite DEF LetGo, Finish, At
  <2>3. plan' = plan \/ \E W \in Waves : SetPlan(e, "wave", Rows(W), W)
    BY <1>13 DEF LetGo
  <2> HIDE DEF w
  <2>4. ASSUME NEW W \in Waves, SetPlan(e, "wave", Rows(W), W)  PROVE WritersOK'
    <3> DEFINE p == [kind |-> "wave", read |-> Rows(W), due |-> W]
    <3>1. p.kind = "wave" /\ plan' = [plan EXCEPT ![e] = p]  BY <2>4 DEF SetPlan
    <3> HIDE DEF p
    <3> QED  BY <2>1, <2>2, <3>1, WritersFrame DEF WriterOK
  <2> QED  BY <2>2, <2>3, <2>4, WritersKeep
<1>14. ASSUME NEW e \in Executors, JobEnds(e)  PROVE WritersOK'
  BY <1>14, WritersKeep DEF JobEnds
<1>15. ASSUME NEW e \in Executors, AcquireRaises(e)  PROVE WritersOK'
  BY <1>15, NothingToWrite, WritersFinish DEF AcquireRaises, At
<1>16. ASSUME NEW e \in Executors, HeartbeatStops(e) \/ Stall(e)  PROVE WritersOK'
  <2> DEFINE w == [worker[e] EXCEPT !.beating = FALSE]
             v == [worker[e] EXCEPT !.stalled = TRUE]
  <2>1. /\ w.pc = worker[e].pc /\ w.task = worker[e].task
        /\ v.pc = worker[e].pc /\ v.task = worker[e].task
    BY <1>1 DEF WorkerState
  <2>2. (SetWorker(e, w) \/ SetWorker(e, v)) /\ plan' = plan
    BY <1>16 DEF HeartbeatStops, Stall
  <2> HIDE DEF w, v
  <2> QED  BY <2>1, <2>2, WritersKeep
<1>17. ASSUME NEW e \in Executors, CrashWorker(e)  PROVE WritersOK'
  BY <1>17, WritersFrame DEF CrashWorker, WriterOK
<1>18. ASSUME NEW u \in Users, CrashRequest(u)  PROVE WritersOK'
  <2>1. /\ \A f \in Executors : plan'[f] = plan[f]
        /\ \A x \in Users : plan'[x] = plan[x] \/ plan'[x] = NoPlan
    BY <1>18 DEF CrashRequest, TypeOK, TeamAssumption, Schedulers
  <2>2. NoPlan.kind \notin Own  BY DEF NoPlan, Own
  <2> QED  BY <1>18, <2>1, <2>2, WritersSame DEF CrashRequest
<1>19. ASSUME NEW u \in Users, Ask(u)  PROVE WritersOK'
  <2>1. worker' = worker
    BY <1>19 DEF Ask, RunReady, CancelSession, RunTask, RetryTask, CancelTask
  <2>2. PICK kind, read, due :
          kind \in {"wave", "queue", "retry", "cancel", "stop"} /\ SetPlan(u, kind, read, due)
    <3>1. CASE RunReady(u)
      <4>1. PICK S : SetPlan(u, "wave", Rows(S), S)  BY <3>1 DEF RunReady
      <4> QED  BY <4>1
    <3>2. CASE CancelSession(u)
      BY <3>2 DEF CancelSession
    <3>3. CASE \E t \in Tasks : RunTask(u, t) \/ RetryTask(u, t) \/ CancelTask(u, t)
      <4>1. PICK t \in Tasks : RunTask(u, t) \/ RetryTask(u, t) \/ CancelTask(u, t)
        BY <3>3
      <4>2. CASE RunTask(u, t)
        BY <4>2 DEF RunTask
      <4>3. CASE RetryTask(u, t)
        BY <4>3 DEF RetryTask
      <4>4. CASE CancelTask(u, t)
        BY <4>4 DEF CancelTask
      <4> QED  BY <4>1, <4>2, <4>3, <4>4
    <3> QED  BY <1>19, <3>1, <3>2, <3>3 DEF Ask
  <2> DEFINE p == [kind |-> kind, read |-> read, due |-> due]
  <2>3. p.kind \notin Own  BY <2>2 DEF Own
  <2>4. \A s \in Schedulers : plan'[s] = IF s = u THEN p ELSE plan[s]
    BY <2>2 DEF SetPlan, TypeOK
  <2> HIDE DEF p
  <2>5. \A f \in Executors : plan'[f] = plan[f]
    BY <2>4 DEF TeamAssumption, Schedulers
  <2> QED  BY <2>1, <2>3, <2>4, <2>5, WritersSame DEF Schedulers
<1>20. ASSUME NEW s \in Schedulers, Write(s)  PROVE WritersOK'
  <2> DEFINE p == plan[s]  q == plan'[s]
  <2>1. worker' = worker /\ \A r \in Schedulers \ {s} : plan'[r] = plan[r]
    BY <1>20 DEF Write, Save, EnqueueDue, StopTask, SessionStopped, TypeOK
  <2>2. /\ NoPlan.kind = "none" /\ NoPlan.due = {} /\ DOMAIN NoPlan.read = {}
        /\ [p EXCEPT !.read = NoRows].kind = p.kind
        /\ \A t : [p EXCEPT !.due = p.due \ {t}].kind = p.kind
        /\ \A r : [p EXCEPT !.read = r].kind = p.kind
    BY DEF NoPlan, NoRows, TypeOK, IsPlan
  <2>3. /\ \/ q = NoPlan \/ q.kind = p.kind
           \/ q.kind = "run"
        /\ \/ q = NoPlan \/ p.kind \in {"queue", "stop"} \/ (p.due # {} /\ q.kind = p.kind)
    <3>1. CASE Save(s)
      <4>1. q = After(s)  BY <3>1 DEF Save, TypeOK
      <4> QED  BY <2>2, <4>1 DEF After
    <3>2. ASSUME NEW t \in Tasks, StopTask(s, t)
          PROVE  p.kind = "stop" /\ q.kind = p.kind
      BY <2>2, <3>2 DEF StopTask, TypeOK
    <3>3. CASE SessionStopped(s)
      BY <3>3 DEF SessionStopped, TypeOK
    <3>4. ASSUME NEW t \in Tasks, EnqueueDue(s, t)
          PROVE  p.due # {} /\ (q = NoPlan \/ q.kind = p.kind)
      BY <2>2, <3>4 DEF EnqueueDue, TypeOK
    <3> QED  BY <1>20, <3>1, <3>2, <3>3, <3>4 DEF Write
  <2>4. CASE s \in Executors
    <3>1. WriterOK(p, worker[s])  BY <2>4 DEF WritersOK
    <3>2. q = NoPlan \/ (p.kind = "wave" /\ worker[s].pc = "finishing" /\ q.kind = "wave")
      BY <2>2, <2>3, <3>1 DEF WriterOK
    <3>3. WriterOK(q, worker[s])  BY <3>2 DEF WriterOK
    <3>4. s \notin Users  BY <2>4 DEF TeamAssumption
    <3> QED  BY <2>1, <3>3, <3>4, WritersSame DEF Schedulers
  <2>5. CASE s \in Users
    <3>1. p.kind \notin Own  BY <2>5 DEF WritersOK
    <3>2. q.kind \notin Own  BY <2>2, <2>3, <3>1 DEF Own
    <3>3. s \notin Executors  BY <2>5 DEF TeamAssumption
    <3> QED  BY <2>1, <3>2, <3>3, WritersSame DEF Schedulers
  <2> QED  BY <2>4, <2>5 DEF Schedulers
<1>21. ASSUME Lapse  PROVE WritersOK'
  BY <1>2, <1>21 DEF Lapse, LeaseLapses, ClaimLapses, JobLapses
<1>22. UNCHANGED vars => UNCHANGED <<worker, plan>>  BY DEF vars
<1> QED
  BY <1>2, <1>3, <1>4, <1>5, <1>6, <1>7, <1>8, <1>9, <1>10, <1>11, <1>12, <1>13, <1>14, <1>15,
     <1>16, <1>17, <1>18, <1>19, <1>20, <1>21, <1>22
  DEF Next, Execute, Fault

\* Results only grow.
LEMMA OutputsFrame ==
  ASSUME TypeOK, OutputsOK, NEW e \in Executors, NEW w, SetWorker(e, w),
         results \subseteq results',
         w.pc \in Recorded /\ w.final = "DONE" => w.task \in results'
  PROVE  OutputsOK'
<1>1. \A f \in Executors : worker'[f] = IF f = e THEN w ELSE worker[f]
  BY DEF SetWorker, TypeOK
<1> QED  BY <1>1 DEF OutputsOK, OutputOK

LEMMA OutputsSame ==
  ASSUME OutputsOK, UNCHANGED <<worker, results>>  PROVE OutputsOK'
BY DEF OutputsOK, OutputOK

LEMMA OutputsStep ==
  ASSUME TypeOK, WorkersOK, OutputsOK, [Next]_vars
  PROVE  OutputsOK'
<1>1. ASSUME NEW e \in Executors  PROVE worker[e] \in WorkerState /\ OutputOK(worker[e])
  BY DEF TypeOK, OutputsOK
<1>2. IdleWorker.pc \notin Recorded  BY DEF IdleWorker, Recorded
<1>3. ASSUME NEW e \in Executors, NEW pc \in {"finishing", "failing"}, Finish(e, pc),
             results' = results
      PROVE  OutputsOK'
  <2> DEFINE w == [IdleWorker EXCEPT !.pc = pc, !.task = worker[e].task,
                                     !.stalled = worker[e].stalled]
  <2>1. w.pc \notin Recorded  BY DEF IdleWorker, Recorded
  <2>2. SetWorker(e, w)  BY <1>3 DEF Finish
  <2> HIDE DEF w
  <2> QED  BY <1>3, <2>1, <2>2, OutputsFrame
<1>4. ASSUME NEW e \in Executors, NEW t \in Tasks, TakeJob(e, t)  PROVE OutputsOK'
  <2> DEFINE w == [IdleWorker EXCEPT !.pc = "claiming", !.task = t]
  <2>1. w.pc \notin Recorded  BY DEF IdleWorker, Recorded
  <2>2. SetWorker(e, w) /\ results' = results  BY <1>4 DEF TakeJob
  <2> HIDE DEF w
  <2> QED  BY <2>1, <2>2, OutputsFrame
<1>5. ASSUME NEW e \in Executors, NEW r \in Resources, Acquire(e, r)  PROVE OutputsOK'
  <2> DEFINE W(pc) == [worker[e] EXCEPT !.got = worker[e].got \union {r}, !.pc = pc]
  <2>1. PICK pc \in {"starting", "acquiring"} : worker' = [worker EXCEPT ![e] = W(pc)]
    BY <1>5 DEF Acquire, SetWorker, At
  <2>2. W(pc).pc \notin Recorded  BY <1>1 DEF WorkerState, Recorded
  <2>3. SetWorker(e, W(pc)) /\ results' = results  BY <1>5, <2>1 DEF SetWorker, Acquire, data
  <2> HIDE DEF W
  <2> QED  BY <2>2, <2>3, OutputsFrame
<1>6. ASSUME NEW e \in Executors, ClaimTask(e)  PROVE OutputsOK'
  <2>1. results' = results  BY <1>6 DEF ClaimTask
  <2>2. CASE Finish(e, "finishing")  BY <1>3, <2>1, <2>2
  <2>3. CASE ~Finish(e, "finishing")
    <3> DEFINE w == [worker[e] EXCEPT
                       !.pc = IF Locked(worker[e].task) THEN "acquiring" ELSE "starting",
                       !.token = lastToken + 1]
    <3>1. w.pc \notin Recorded  BY <1>1 DEF WorkerState, Recorded
    <3>2. SetWorker(e, w)  BY <1>6, <2>3 DEF ClaimTask
    <3> HIDE DEF w
    <3> QED  BY <2>1, <3>1, <3>2, OutputsFrame
  <2> QED  BY <2>2, <2>3
<1>7. ASSUME NEW e \in Executors, BeginBody(e)  PROVE OutputsOK'
  <2> DEFINE w == [worker[e] EXCEPT !.pc = "committing", !.final = "CANCELLED"]
             v == [worker[e] EXCEPT !.pc = "body", !.beating = TRUE]
  <2>1. w.pc \notin Recorded /\ v.pc \notin Recorded  BY <1>1 DEF WorkerState, Recorded
  <2>2. (SetWorker(e, w) \/ SetWorker(e, v)) /\ results' = results
    BY <1>7 DEF BeginBody, data
  <2> HIDE DEF w, v
  <2> QED  BY <2>1, <2>2, OutputsFrame
<1>8. ASSUME NEW e \in Executors, NEW final \in Statuses, BodyRaises(e, final)  PROVE OutputsOK'
  <2> DEFINE w == [worker[e] EXCEPT !.pc = "raised", !.beating = FALSE, !.final = final]
  <2>1. w.final = final /\ w.task = worker[e].task  BY <1>1 DEF WorkerState
  <2>2. SetWorker(e, w) /\ results \subseteq results'
        /\ (final = "DONE" => worker[e].task \in results')
    BY <1>8 DEF BodyRaises
  <2> HIDE DEF w
  <2> QED  BY <2>1, <2>2, OutputsFrame
<1>9. ASSUME NEW e \in Executors, NEW final \in {"DONE", "FAILED", "BLOCKED"}, BodyReturns(e, final)
      PROVE  OutputsOK'
  <2>1. PICK s \in Statuses : Settle(e, s)  BY <1>9 DEF BodyReturns, Strategies, Statuses
  <2> DEFINE w == [worker[e] EXCEPT !.pc = "committing", !.beating = FALSE, !.final = s]
  <2>2. w.pc \notin Recorded  BY <1>1 DEF WorkerState, Recorded
  <2>3. results' = results  BY <1>9 DEF BodyReturns, data
  <2>4. SetWorker(e, w)  BY <2>1 DEF Settle
  <2> HIDE DEF w
  <2> QED  BY <2>2, <2>3, <2>4, OutputsFrame
<1>10. ASSUME NEW e \in Executors, CheckClaim(e)  PROVE OutputsOK'
  <2>1. results' = results
    <3>1. UNCHANGED <<data, claims>>  BY <1>10, Zenon DEF CheckClaim
    <3> QED  BY <3>1 DEF data
  <2>2. CASE Alive(e)
    <3>1. PICK pc \in {"recording", "updating"} :
            /\ worker[e].final = "DONE" => pc = "recording"
            /\ SetWorker(e, [worker[e] EXCEPT !.pc = pc, !.stalled = FALSE])
      BY <1>10, <2>2 DEF CheckClaim
    <3> DEFINE w == [worker[e] EXCEPT !.pc = pc, !.stalled = FALSE]
    <3>2. w.pc = pc /\ w.final = worker[e].final  BY <1>1 DEF WorkerState
    <3>3. SetWorker(e, w) /\ (w.pc \in Recorded => w.final # "DONE")
      BY <3>1, <3>2 DEF Recorded
    <3> HIDE DEF w
    <3> QED  BY <2>1, <3>3, OutputsFrame
  <2>3. CASE ~Alive(e)
    <3> DEFINE w == [worker[e] EXCEPT !.pc = "lost",
                       !.final = IF AttemptsLeft(worker[e].task) THEN "QUEUED" ELSE "FAILED"]
    <3>1. w.final # "DONE"  BY <1>1 DEF WorkerState
    <3>2. SetWorker(e, w)  BY <1>10, <2>3 DEF CheckClaim
    <3> HIDE DEF w
    <3> QED  BY <2>1, <3>1, <3>2, OutputsFrame
  <2> QED  BY <2>2, <2>3
<1>11. ASSUME NEW e \in Executors, Record(e) \/ Update(e) \/ Release(e)  PROVE OutputsOK'
  <2>1. PICK pc \in {"updating", "releasing", "committed"} :
          Goto(e, pc) /\ (pc = "releasing" => At(e, "updating")) /\ (pc = "updating" => Record(e))
    BY <1>11 DEF Record, Update, Release
  <2> DEFINE w == [worker[e] EXCEPT !.pc = pc]
  <2>2. w.pc = pc /\ w.final = worker[e].final /\ w.task = worker[e].task
    BY <1>1 DEF WorkerState
  <2>3. SetWorker(e, w) /\ results \subseteq results'
    BY <1>11, <2>1 DEF Goto, Record, Update, Release, data
  <2>4. Record(e) /\ worker[e].final = "DONE" => worker[e].task \in results'
    BY DEF Record
  <2> HIDE DEF w
  <2>5. w.pc \in Recorded /\ w.final = "DONE" => w.task \in results'
    BY <1>1, <2>1, <2>2, <2>3, <2>4 DEF Recorded, OutputOK, At
  <2> QED  BY <2>3, <2>5, OutputsFrame
<1>12. ASSUME NEW e \in Executors,
              \/ AcquireRaises(e) \/ GiveUp(e) \/ LetGo(e)
              \/ \E r \in Resources : AcquireRefused(e, r)
       PROVE  OutputsOK'
  BY <1>3, <1>12 DEF AcquireRaises, GiveUp, LetGo, AcquireRefused, data
<1>13. ASSUME NEW e \in Executors, JobEnds(e) \/ CrashWorker(e)  PROVE OutputsOK'
  BY <1>2, <1>13, OutputsFrame DEF JobEnds, CrashWorker
<1>14. ASSUME NEW e \in Executors, HeartbeatStops(e) \/ Stall(e)  PROVE OutputsOK'
  <2> DEFINE w == [worker[e] EXCEPT !.beating = FALSE]
             v == [worker[e] EXCEPT !.stalled = TRUE]
  <2>1. /\ w.pc = worker[e].pc /\ w.task = worker[e].task /\ w.final = worker[e].final
        /\ v.pc = worker[e].pc /\ v.task = worker[e].task /\ v.final = worker[e].final
    BY <1>1 DEF WorkerState
  <2>2. (SetWorker(e, w) \/ SetWorker(e, v)) /\ results' = results
    BY <1>14 DEF HeartbeatStops, Stall, data
  <2> HIDE DEF w, v
  <2> QED  BY <1>1, <2>1, <2>2, OutputsFrame DEF OutputOK
<1>15. ASSUME NEW s \in Schedulers, Write(s)  PROVE OutputsOK'
  BY <1>15, OutputsSame DEF Write, Save, EnqueueDue, StopTask, SessionStopped
<1>16. ASSUME NEW u \in Users, Ask(u) \/ CrashRequest(u)  PROVE OutputsOK'
  BY <1>16, OutputsSame
  DEF Ask, RunReady, CancelSession, RunTask, RetryTask, CancelTask, CrashRequest, data
<1>17. ASSUME Lapse  PROVE OutputsOK'
  BY <1>17, OutputsSame DEF Lapse, LeaseLapses, ClaimLapses, JobLapses, data
<1>18. UNCHANGED vars => UNCHANGED <<worker, results>>  BY DEF vars, data
<1> QED
  BY <1>4, <1>5, <1>6, <1>7, <1>8, <1>9, <1>10, <1>11, <1>12, <1>13, <1>14, <1>15, <1>16, <1>17,
     <1>18, OutputsSame
  DEF Next, Execute, Fault

-----------------------------------------------------------------------------
(* Dependencies. *)

\* Only claim_task, on a task that is queued or running, gives out a token.
Earned(e, w) ==
  w.token # 0 => /\ w.task = worker[e].task /\ w.task \in Tasks
                 /\ worker[e].token # 0 \/ task[w.task].status \in Active

LEMMA EarnedSet ==
  ASSUME TypeOK, WorkersOK, NEW e \in Executors, NEW w, SetWorker(e, w), Earned(e, w)
  PROVE  \A f \in Executors : Earned(f, worker'[f])
<1>1. \A f \in Executors : worker'[f] = IF f = e THEN w ELSE worker[f]
  BY DEF SetWorker, TypeOK
<1> QED  BY <1>1 DEF Earned, WorkersOK, WorkerOK

LEMMA EarnedFinish ==
  ASSUME TypeOK, WorkersOK, NEW e \in Executors, NEW pc, Finish(e, pc)
  PROVE  \A f \in Executors : Earned(f, worker'[f])
<1> DEFINE w == [IdleWorker EXCEPT !.pc = pc, !.task = worker[e].task,
                                   !.stalled = worker[e].stalled]
<1>1. w.token = 0  BY DEF IdleWorker
<1>2. SetWorker(e, w)  BY DEF Finish
<1> HIDE DEF w
<1> QED  BY <1>1, <1>2, EarnedSet DEF Earned

LEMMA EarnedStep ==
  ASSUME TypeOK, WorkersOK, [Next]_vars
  PROVE  \A f \in Executors : Earned(f, worker'[f])
<1>1. IdleWorker.token = 0  BY DEF IdleWorker
<1>2. ASSUME NEW e \in Executors  PROVE WorkerOK(worker[e]) /\ worker[e] \in WorkerState
  BY DEF WorkersOK, TypeOK
<1>3. CASE UNCHANGED worker
  BY <1>3 DEF Earned, WorkersOK, WorkerOK
<1>4. ASSUME NEW e \in Executors, CrashWorker(e) \/ JobEnds(e)
      PROVE  \A f \in Executors : Earned(f, worker'[f])
  BY <1>1, <1>4, EarnedSet DEF CrashWorker, JobEnds, Earned
<1>5. ASSUME NEW e \in Executors,
             \/ AcquireRaises(e) \/ GiveUp(e) \/ LetGo(e)
             \/ \E r \in Resources : AcquireRefused(e, r)
      PROVE  \A f \in Executors : Earned(f, worker'[f])
  BY <1>5, EarnedFinish DEF AcquireRaises, GiveUp, LetGo, AcquireRefused
<1>6. ASSUME NEW e \in Executors, HeartbeatStops(e) \/ Stall(e)
      PROVE  \A f \in Executors : Earned(f, worker'[f])
  <2> DEFINE w == [worker[e] EXCEPT !.beating = FALSE]
             v == [worker[e] EXCEPT !.stalled = TRUE]
  <2>1. /\ w.token = worker[e].token /\ w.task = worker[e].task
        /\ v.token = worker[e].token /\ v.task = worker[e].task
    BY <1>2 DEF WorkerState
  <2>2. SetWorker(e, w) \/ SetWorker(e, v)  BY <1>6 DEF HeartbeatStops, Stall
  <2>3. worker[e].token # 0 => worker[e].task \in Tasks  BY <1>2 DEF WorkerOK
  <2> HIDE DEF w, v
  <2> QED  BY <2>1, <2>2, <2>3, EarnedSet DEF Earned
<1>7. ASSUME NEW e \in Executors, NEW t \in Tasks, TakeJob(e, t)
      PROVE  \A f \in Executors : Earned(f, worker'[f])
  <2> DEFINE w == [IdleWorker EXCEPT !.pc = "claiming", !.task = t]
  <2>1. w.token = 0  BY DEF IdleWorker
  <2>2. SetWorker(e, w)  BY <1>7 DEF TakeJob
  <2> HIDE DEF w
  <2> QED  BY <2>1, <2>2, EarnedSet DEF Earned
<1>8. ASSUME NEW e \in Executors, NEW r \in Resources, Acquire(e, r)
      PROVE  \A f \in Executors : Earned(f, worker'[f])
  <2> DEFINE W(pc) == [worker[e] EXCEPT !.got = worker[e].got \union {r}, !.pc = pc]
  <2>1. \A pc \in PCs : W(pc).token = worker[e].token /\ W(pc).task = worker[e].task
    BY <1>2 DEF WorkerState
  <2>2. PICK pc \in {"starting", "acquiring"} : worker' = [worker EXCEPT ![e] = W(pc)]
    BY <1>8 DEF Acquire, SetWorker, At
  <2>3. SetWorker(e, W(pc)) /\ pc \in PCs  BY <2>2 DEF SetWorker, PCs
  <2>4. worker[e].token # 0 => worker[e].task \in Tasks  BY <1>2 DEF WorkerOK
  <2> HIDE DEF W
  <2> QED  BY <2>1, <2>3, <2>4, EarnedSet DEF Earned
<1>9. ASSUME NEW e \in Executors, Concludes(e)
      PROVE  \A f \in Executors : Earned(f, worker'[f])
  <2>1. PICK w : SetWorker(e, w) /\ Follows(worker[e], w)  BY <1>9, Concluding
  <2>2. worker[e].token # 0 => worker[e].task \in Tasks  BY <1>2 DEF WorkerOK
  <2>3. Earned(e, w)  BY <2>1, <2>2 DEF Earned, Follows
  <2> QED  BY <2>1, <2>3, EarnedSet
<1>10. ASSUME NEW e \in Executors, ClaimTask(e)
       PROVE  \A f \in Executors : Earned(f, worker'[f])
  <2>1. CASE Finish(e, "finishing")  BY <2>1, EarnedFinish
  <2>2. CASE ~Finish(e, "finishing")
    <3> DEFINE w == [worker[e] EXCEPT
                       !.pc = IF Locked(worker[e].task) THEN "acquiring" ELSE "starting",
                       !.token = lastToken + 1]
    <3>1. w.task = worker[e].task  BY <1>2 DEF WorkerState
    <3>2. SetWorker(e, w) /\ Claimable(worker[e].task)  BY <1>10, <2>2 DEF ClaimTask
    <3>3. worker[e].task \in Tasks  BY <1>2, <1>10 DEF WorkerOK, ClaimTask, At
    <3> HIDE DEF w
    <3> QED  BY <3>1, <3>2, <3>3, EarnedSet DEF Earned, Claimable
  <2> QED  BY <2>1, <2>2
<1>11. ASSUME NEW e \in Executors, BeginBody(e)
       PROVE  \A f \in Executors : Earned(f, worker'[f])
  <2> DEFINE w == [worker[e] EXCEPT !.pc = "committing", !.final = "CANCELLED"]
             v == [worker[e] EXCEPT !.pc = "body", !.beating = TRUE]
  <2>1. /\ w.token = worker[e].token /\ w.task = worker[e].task
        /\ v.token = worker[e].token /\ v.task = worker[e].task
    BY <1>2 DEF WorkerState
  <2>2. SetWorker(e, w) \/ SetWorker(e, v)  BY <1>11 DEF BeginBody
  <2>3. worker[e].token # 0 => worker[e].task \in Tasks  BY <1>2 DEF WorkerOK
  <2> HIDE DEF w, v
  <2> QED  BY <2>1, <2>2, <2>3, EarnedSet DEF Earned
<1>13. ASSUME NEW s \in Schedulers, Write(s)  PROVE UNCHANGED worker
  BY <1>13 DEF Write, Save, EnqueueDue, StopTask, SessionStopped
<1>14. ASSUME NEW u \in Users, Ask(u)  PROVE UNCHANGED worker
  BY <1>14 DEF Ask, RunReady, CancelSession, RunTask, RetryTask, CancelTask
<1>15. ASSUME Lapse \/ \E u \in Users : CrashRequest(u)  PROVE UNCHANGED worker
  BY <1>15 DEF Lapse, LeaseLapses, ClaimLapses, JobLapses, CrashRequest
<1>16. UNCHANGED vars => UNCHANGED worker  BY DEF vars
<1> QED
  BY <1>3, <1>4, <1>5, <1>6, <1>7, <1>8, <1>9, <1>10, <1>11, <1>13, <1>14, <1>15, <1>16
  DEF Next, Execute, Fault, Concludes

\* Results only grow, so it is enough to look at what changed.
LEMMA DepsFrame ==
  ASSUME TypeOK, WorkersOK, DepsOK, [Next]_vars, results \subseteq results',
         \A t \in Tasks : task'[t].status = task[t].status \/ RowReady(t, task[t])',
         \A s \in Schedulers : plan'[s] = plan[s] \/ PlanReady(plan[s])'
  PROVE  DepsOK'
<1>1. \A t \in Tasks : Delivered(t) => Delivered(t)'  BY DEF Delivered
<1>2. \A t \in Tasks : RowReady(t, task[t])'  BY <1>1 DEF RowReady, DepsOK
<1>3. \A e \in Executors : worker'[e].token # 0 => Delivered(worker[e].task)'
  BY <1>1, EarnedStep DEF Earned, DepsOK, RowReady
<1>4. \A s \in Schedulers : PlanReady(plan[s])'
  <2>1. \A s \in Schedulers : DOMAIN plan[s].read \subseteq Tasks  BY DEF TypeOK, IsPlan
  <2> QED  BY <1>1, <2>1 DEF PlanReady, RowReady, DepsOK
<1> QED  BY <1>2, <1>3, <1>4 DEF DepsOK

LEMMA DepsSame ==
  ASSUME TypeOK, WorkersOK, DepsOK, [Next]_vars, UNCHANGED <<task, plan, results>>
  PROVE  DepsOK'
BY DepsFrame

LEMMA WavesDone == \A W \in Waves : W \subseteq Tasks /\ \A t \in W : DepsDone(t)
<1>1. \A W \in PlainWaves : W \subseteq Tasks /\ \A t \in W : DepsDone(t)
  BY DEF PlainWaves, Runnable, InStatus
<1>2. \A W \in DagWaves : W \subseteq Tasks /\ \A t \in W : DepsDone(t)
  BY DEF DagWaves, DagReady, InStatus
<1> QED  BY <1>1, <1>2 DEF Waves

LEMMA DoneDelivers ==
  ASSUME DepsOK, TeamAssumption, NEW t \in Tasks, DepsDone(t)  PROVE Delivered(t)
BY DEF DepsOK, RowReady, DepsDone, InStatus, Delivered, TeamAssumption

\* Rows as they are in the table are ready; who queues has seen the rest.
LEMMA RowsReady ==
  ASSUME TypeOK, DepsOK, TeamAssumption, NEW s \in Schedulers, NEW S \in SUBSET Tasks, NEW D,
         NEW kind \in Kinds \ {"none"}, SetPlan(s, kind, Rows(S), D), results \subseteq results',
         kind = "wave" \/ D # {} => \A t \in S : Delivered(t)
  PROVE  \A r \in Schedulers : plan'[r] = plan[r] \/ PlanReady(plan[r])'
<1> DEFINE p == [kind |-> kind, read |-> Rows(S), due |-> D]
<1>1. /\ p.kind = kind /\ p.due = D /\ DOMAIN p.read = S
      /\ \A t \in S : p.read[t] = task[t]
  BY DEF Rows
<1>2. \A r \in Schedulers : plan'[r] = IF r = s THEN p ELSE plan[r]
  BY DEF SetPlan, TypeOK
<1> HIDE DEF p
<1>3. \A t \in S : RowReady(t, task[t])  BY DEF DepsOK
<1>4. \A t \in S : /\ kind = "wave" \/ D # {} => Deps[t] \subseteq results'
                   /\ task[t].status = "DONE" => t \in results'
                   /\ task[t].status \in Active => Deps[t] \subseteq results'
  BY <1>3 DEF RowReady, Delivered
<1>5. PlanReady(plan[s])'
  BY <1>1, <1>2, <1>4 DEF PlanReady, RowReady, Delivered
<1> QED  BY <1>2, <1>5

LEMMA WaveReady ==
  ASSUME TypeOK, DepsOK, TeamAssumption, NEW s \in Schedulers,
         \E W \in Waves : \E S \in SUBSET W : SetPlan(s, "wave", Rows(S), S),
         UNCHANGED <<task, results>>
  PROVE  \A r \in Schedulers : plan'[r] = plan[r] \/ PlanReady(plan[r])'
<1>0. PICK W \in Waves : \E S \in SUBSET W : SetPlan(s, "wave", Rows(S), S)
  OBVIOUS
<1>1. PICK S \in SUBSET W : SetPlan(s, "wave", Rows(S), S)
  BY <1>0
<1>2. \A t \in S : t \in Tasks /\ Delivered(t)  BY <1>1, WavesDone, DoneDelivers
<1> QED  BY <1>1, <1>2, RowsReady DEF Kinds

LEMMA ReleasedReady ==
  ASSUME TypeOK, WorkersOK, DepsOK, NEW e \in Executors, worker[e].token # 0,
         NEW s, task' = Released(e, s), results \subseteq results',
         s = "DONE" => worker[e].task \in results'
  PROVE  \A t \in Tasks : task'[t].status = task[t].status \/ RowReady(t, task[t])'
<1>1. PICK u \in Tasks : u = worker[e].task  BY DEF WorkersOK, WorkerOK
<1>2. Delivered(u)'  BY <1>1 DEF DepsOK, Delivered
<1>3. task' = task \/ \A t \in Tasks : task'[t].status = task[t].status
                                     \/ (t = u /\ task'[t].status = s)
  BY <1>1 DEF Released, TypeOK, Row
<1> QED  BY <1>1, <1>2, <1>3 DEF RowReady

LEMMA StoppedReady ==
  ASSUME NEW t \in Tasks, NEW row \in Row, RowReady(t, row)  PROVE RowReady(t, Stopped(row))
<1>1. Stopped(row).status = IF row.status = "RUNNING" THEN "RUNNING" ELSE "CANCELLED"
  BY DEF Stopped, Row
<1> QED  BY <1>1 DEF RowReady, Active

LEMMA WrittenReady ==
  ASSUME TypeOK, WorkersOK, WritersOK, OutputsOK, DepsOK,
         NEW s \in Schedulers, NEW t \in DOMAIN plan[s].read
  PROVE  t \in Tasks /\ RowReady(t, Written(s, t))
<1> DEFINE p == plan[s]
<1>1. t \in Tasks /\ p.read[t] \in Row  BY DEF TypeOK, IsPlan
<1>2. /\ RowReady(t, p.read[t])
      /\ p.kind = "wave" \/ p.due # {} => Delivered(t)
  BY DEF DepsOK, PlanReady
<1>3. CASE p.kind \in {"wave", "queue", "retry"}
  <2>1. Written(s, t).status \in {"QUEUED", "CANCELLED", "PENDING"}
    BY <1>1, <1>3 DEF Written, Row
  <2>2. Written(s, t).status = "QUEUED" => p.kind = "wave" \/ p.due # {}
    BY <1>1, <1>3 DEF Written, Row
  <2> QED  BY <1>1, <1>2, <2>1, <2>2 DEF RowReady, Active
<1>4. CASE p.kind = "cancel"
  BY <1>1, <1>2, <1>4, StoppedReady DEF Written
<1>5. CASE p.kind \in {"begin", "update"}
  <2>1. s \in Executors  BY <1>5 DEF WritersOK, Own, Schedulers
  <2>2. /\ t = worker[s].task
        /\ p.kind = "begin" => worker[s].pc = "body"
        /\ p.kind = "update" => worker[s].pc = "releasing"
    BY <1>5, <2>1 DEF WritersOK, WriterOK, NoPlan, NoRows
  <2>3. Delivered(t)  BY <1>5, <2>1, <2>2 DEF DepsOK, WorkersOK, WorkerOK
  <2>4. p.kind = "update" => (worker[s].final = "DONE" => t \in results)
    BY <2>1, <2>2 DEF OutputsOK, OutputOK, Recorded
  <2>5. Written(s, t).status = IF p.kind = "begin" THEN "RUNNING" ELSE worker[s].final
    BY <1>1, <1>5 DEF Written, Row
  <2> QED  BY <1>1, <1>5, <2>3, <2>4, <2>5 DEF RowReady
<1>6. CASE p.kind \notin {"wave", "queue", "retry", "cancel", "begin", "update"}
  <2>1. Written(s, t) = p.read[t]  BY <1>6 DEF Written
  <2> QED  BY <1>1, <1>2, <2>1
<1> QED  BY <1>3, <1>4, <1>5, <1>6

LEMMA DepsStep ==
  ASSUME TypeOK, WorkersOK, WritersOK, OutputsOK, DepsOK, TeamAssumption, [Next]_vars
  PROVE  DepsOK'
<1>1. ASSUME NEW e \in Executors
      PROVE  /\ WorkerOK(worker[e]) /\ worker[e] \in WorkerState
             /\ worker[e].token # 0 => worker[e].task \in Tasks /\ Delivered(worker[e].task)
  BY DEF WorkersOK, WorkerOK, TypeOK, DepsOK
<1>2. CASE UNCHANGED <<task, plan, results>>
  BY <1>2, DepsSame
<1>3. ASSUME NEW e \in Executors,
             \/ \E t \in Tasks : TakeJob(e, t)
             \/ \E r \in Resources : Acquire(e, r)
             \/ \E final \in {"DONE", "FAILED", "BLOCKED"} : BodyReturns(e, final)
             \/ CheckClaim(e)
             \/ JobEnds(e) \/ AcquireRaises(e) \/ HeartbeatStops(e) \/ Stall(e)
      PROVE  DepsOK'
  <2>1. UNCHANGED <<task, plan, results>>
    <3>1. ASSUME NEW t \in Tasks, TakeJob(e, t)  PROVE UNCHANGED <<task, plan, results>>
      BY <3>1 DEF TakeJob
    <3>2. ASSUME NEW r \in Resources, Acquire(e, r)  PROVE UNCHANGED <<task, plan, results>>
      BY <3>2 DEF Acquire, data
    <3>3. ASSUME NEW final \in {"DONE", "FAILED", "BLOCKED"}, BodyReturns(e, final)
          PROVE  UNCHANGED <<task, plan, results>>
      BY <3>3 DEF BodyReturns, data
    <3>4. ASSUME JobEnds(e) \/ AcquireRaises(e) \/ HeartbeatStops(e) \/ Stall(e)
          PROVE  UNCHANGED <<task, plan, results>>
      BY <3>4 DEF JobEnds, AcquireRaises, HeartbeatStops, Stall, data
    <3>5. ASSUME CheckClaim(e)  PROVE UNCHANGED <<task, plan, results>>
      <4>1. UNCHANGED <<data, plan>>  BY <3>5, Zenon DEF CheckClaim
      <4> QED  BY <4>1 DEF data
    <3> QED  BY <1>3, <3>1, <3>2, <3>3, <3>4, <3>5
  <2> QED  BY <1>2, <2>1
<1>4. ASSUME Lapse  PROVE DepsOK'
  BY <1>2, <1>4 DEF Lapse, LeaseLapses, ClaimLapses, JobLapses, data
<1>5. ASSUME NEW e \in Executors, NEW r \in Resources, AcquireRefused(e, r)  PROVE DepsOK'
  <2>1. worker[e].token # 0  BY <1>1, <1>5 DEF AcquireRefused, At, WorkerOK
  <2> QED  BY <1>5, <2>1, ReleasedReady, DepsFrame DEF AcquireRefused
<1>20. ASSUME NEW e \in Executors, worker[e].task \in Tasks, task' = task,
              results \subseteq results',
              plan' = plan \/ \E kind \in {"begin", "record", "update"} :
                               SetPlan(e, kind, Rows({worker[e].task}), {})
       PROVE  DepsOK'
  <2>1. \A s \in Schedulers : plan'[s] = plan[s] \/ PlanReady(plan[s])'
    BY <1>20, RowsReady DEF Kinds, Schedulers
  <2> QED  BY <1>20, <2>1, DepsFrame
<1>21. ASSUME NEW e \in Executors, NEW final \in Statuses, BodyRaises(e, final)  PROVE DepsOK'
  <2>1. worker[e].task \in Tasks  BY <1>1, <1>21 DEF BodyRaises, At, WorkerOK
  <2>2. task' = task /\ results \subseteq results'  BY <1>21 DEF BodyRaises
  <2>3. plan' = plan \/ SetPlan(e, "record", Rows({worker[e].task}), {})  BY <1>21 DEF BodyRaises
  <2> QED  BY <1>20, <2>1, <2>2, <2>3
<1>6. ASSUME NEW e \in Executors, Record(e) \/ Update(e)  PROVE DepsOK'
  <2>1. worker[e].task \in Tasks  BY <1>1, <1>6 DEF Record, Update, At, WorkerOK
  <2>2. task' = task /\ results \subseteq results'  BY <1>6 DEF Record, Update, data
  <2>3. \E kind \in {"record", "update"} : SetPlan(e, kind, Rows({worker[e].task}), {})
    BY <1>6 DEF Record, Update
  <2> QED  BY <1>20, <2>1, <2>2, <2>3
<1>7. ASSUME NEW e \in Executors, ClaimTask(e)  PROVE DepsOK'
  <2>1. PICK u \in Tasks : u = worker[e].task  BY <1>1, <1>7 DEF ClaimTask, At, WorkerOK
  <2>2. results' = results /\ plan' = plan  BY <1>7 DEF ClaimTask
  <2>3. Claimable(u) => Delivered(u)'
    BY <2>2 DEF Claimable, DepsOK, RowReady, Delivered
  <2>4. \A t \in Tasks : task'[t].status = task[t].status \/ RowReady(t, task[t])'
    <3>1. CASE ~Claimable(worker[e].task)  BY <1>7, <3>1 DEF ClaimTask
    <3>2. CASE Claimable(worker[e].task)
      <4>1. \A t \in Tasks : task'[t].status = task[t].status
                           \/ (t = u /\ task'[t].status = "RUNNING")
        BY <1>7, <2>1, <3>2 DEF ClaimTask, TypeOK
      <4> QED  BY <2>1, <2>3, <3>2, <4>1 DEF RowReady
    <3> QED  BY <3>1, <3>2
  <2> QED  BY <2>2, <2>4, DepsFrame
<1>8. ASSUME NEW e \in Executors, BeginBody(e)  PROVE DepsOK'
  <2>1. worker[e].task \in Tasks  BY <1>1, <1>8 DEF BeginBody, At, WorkerOK
  <2>2. UNCHANGED <<task, results>>  BY <1>8 DEF BeginBody, data
  <2>3. plan' = plan \/ SetPlan(e, "begin", Rows({worker[e].task}), {})  BY <1>8 DEF BeginBody
  <2> QED  BY <1>20, <2>1, <2>2, <2>3
<1>9. ASSUME NEW e \in Executors, Release(e) \/ GiveUp(e)  PROVE DepsOK'
  <2>1. worker[e].token # 0  BY <1>1, <1>9 DEF Release, GiveUp, At, WorkerOK
  <2>2. results' = results /\ plan' = plan /\ task' = Released(e, worker[e].final)
    BY <1>9 DEF Release, GiveUp
  <2>3. worker[e].pc \in Recorded  BY <1>9 DEF Release, GiveUp, At, Recorded
  <2>4. worker[e].final = "DONE" => worker[e].task \in results'
    BY <2>2, <2>3 DEF OutputsOK, OutputOK
  <2> QED  BY <2>1, <2>2, <2>4, ReleasedReady, DepsFrame
<1>10. ASSUME NEW e \in Executors, LetGo(e)  PROVE DepsOK'
  <2>1. UNCHANGED <<task, results>>  BY <1>10 DEF LetGo
  <2>2. plan' = plan \/ \E W \in Waves : SetPlan(e, "wave", Rows(W), W)
    BY <1>10 DEF LetGo
  <2>3. plan' = plan \/ \E W \in Waves : \E S \in SUBSET W : SetPlan(e, "wave", Rows(S), S)
    BY <2>2
  <2> QED  BY <2>1, <2>3, WaveReady, DepsFrame DEF Schedulers
<1>11. ASSUME NEW u \in Users, RunReady(u)  PROVE DepsOK'
  <2>1. UNCHANGED <<task, results>>  BY <1>11 DEF RunReady, data
  <2>2. \E W \in Waves : \E S \in SUBSET W : SetPlan(u, "wave", Rows(S), S)
    BY <1>11 DEF RunReady
  <2> QED  BY <2>1, <2>2, WaveReady, DepsFrame DEF Schedulers
<1>12. ASSUME NEW u \in Users, NEW t \in Tasks,
              RunTask(u, t) \/ RetryTask(u, t) \/ CancelTask(u, t)
       PROVE  DepsOK'
  <2>1. UNCHANGED <<task, results>> /\ u \in Schedulers
    BY <1>12 DEF RunTask, RetryTask, CancelTask, data, Schedulers
  <2>2. PICK kind \in {"queue", "retry", "cancel"}, due \in {{}, {t}} :
          SetPlan(u, kind, Rows({t}), due) /\ (due # {} => DepsDone(t))
    BY <1>12 DEF RunTask, RetryTask, CancelTask
  <2>3. \A s \in Schedulers : plan'[s] = plan[s] \/ PlanReady(plan[s])'
    BY <2>1, <2>2, RowsReady, DoneDelivers DEF Kinds
  <2> QED  BY <2>1, <2>3, DepsFrame
<1>13. ASSUME NEW u \in Users, CancelSession(u)  PROVE DepsOK'
  <2>1. UNCHANGED <<task, results>> /\ u \in Schedulers  BY <1>13 DEF CancelSession, data, Schedulers
  <2>2. InStatus({"PENDING"} \union Active) \subseteq Tasks  BY DEF InStatus
  <2>3. \A s \in Schedulers : plan'[s] = plan[s] \/ PlanReady(plan[s])'
    BY <1>13, <2>1, <2>2, RowsReady DEF CancelSession, Kinds
  <2> QED  BY <2>1, <2>3, DepsFrame
<1>14. ASSUME NEW s \in Schedulers, NEW t \in Tasks, StopTask(s, t)  PROVE DepsOK'
  <2> DEFINE read == [x \in DOMAIN plan[s].read \ {t} |-> plan[s].read[x]]
             q == [plan[s] EXCEPT !.read = read]
  <2>1. results' = results /\ t \in DOMAIN plan[s].read  BY <1>14 DEF StopTask
  <2>2. /\ plan[s].read[t] \in Row /\ DOMAIN read = DOMAIN plan[s].read \ {t}
        /\ q.kind = plan[s].kind /\ q.due = plan[s].due /\ q.read = read
    BY <2>1 DEF TypeOK, IsPlan
  <2>3. PlanReady(plan[s])  BY DEF DepsOK
  <2>4. RowReady(t, Stopped(plan[s].read[t]))
    BY <2>1, <2>2, <2>3, StoppedReady DEF PlanReady
  <2>5. \A x \in Tasks : task'[x] = task[x] \/ (x = t /\ task'[x] = Stopped(plan[s].read[t]))
    BY <1>14 DEF StopTask, TypeOK
  <2>6. \A x \in Tasks : task'[x].status = task[x].status \/ RowReady(x, task[x])'
    BY <2>1, <2>4, <2>5 DEF RowReady, Delivered
  <2>7. \A r \in Schedulers : plan'[r] = IF r = s THEN q ELSE plan[r]
    BY <1>14 DEF StopTask, TypeOK
  <2> HIDE DEF q
  <2>8. PlanReady(plan[s])'
    BY <2>1, <2>2, <2>3, <2>7 DEF PlanReady, RowReady, Delivered
  <2> QED  BY <2>1, <2>6, <2>7, <2>8, DepsFrame
<1>15. ASSUME NEW s \in Schedulers, Save(s)  PROVE DepsOK'
  <2> DEFINE p == plan[s]
             read == [t \in DOMAIN p.read |-> Written(s, t)]
             q == [kind |-> "run", read |-> read, due |-> p.due]
  <2>1. results' = results  BY <1>15 DEF Save
  <2>2. \A t \in DOMAIN p.read : t \in Tasks /\ RowReady(t, Written(s, t))  BY WrittenReady
  <2>3. \A t \in Tasks : task'[t] = task[t] \/ (t \in DOMAIN p.read /\ task'[t] = Written(s, t))
    BY <1>15 DEF Save
  <2>4. \A t \in Tasks : task'[t].status = task[t].status \/ RowReady(t, task[t])'
    BY <2>1, <2>2, <2>3 DEF RowReady, Delivered
  <2>5. /\ DOMAIN NoPlan.read = {} /\ DOMAIN [p EXCEPT !.read = NoRows].read = {}
        /\ q.kind = "run" /\ q.read = read /\ q.due = p.due /\ DOMAIN read = DOMAIN p.read
        /\ \A t \in DOMAIN p.read : read[t] = Written(s, t)
    BY DEF NoPlan, NoRows, TypeOK, IsPlan
  <2>6. \A r \in Schedulers : plan'[r] = IF r = s THEN After(s) ELSE plan[r]
    BY <1>15 DEF Save, TypeOK
  <2>7. DOMAIN After(s).read = {} \/ (After(s) = q /\ p.due # {})
    BY <2>5 DEF After
  <2> HIDE DEF q, read
  <2>8. \A t \in DOMAIN p.read : p.due # {} => Delivered(t)  BY DEF DepsOK, PlanReady
  <2>9. PlanReady(plan[s])'
    <3>1. CASE DOMAIN plan'[s].read = {}  BY <3>1 DEF PlanReady
    <3>2. CASE plan'[s] = q /\ p.due # {}
      BY <2>1, <2>2, <2>5, <2>8, <3>2 DEF PlanReady, RowReady, Delivered
    <3> QED  BY <2>6, <2>7, <3>1, <3>2
  <2> QED  BY <2>1, <2>4, <2>6, <2>9, DepsFrame
<1>16. ASSUME NEW s \in Schedulers, NEW t \in Tasks, EnqueueDue(s, t)  PROVE DepsOK'
  <2>1. results' = results  BY <1>16 DEF EnqueueDue
  <2>2. \A x \in Tasks : task'[x].status = task[x].status \/ task'[x].status = "PENDING"
    BY <1>16 DEF EnqueueDue, TypeOK, Row
  <2>3. \A x \in Tasks : task'[x].status = "PENDING" => RowReady(x, task[x])'
    BY DEF RowReady, Active
  <2>4. \A r \in Schedulers : plan'[r] = plan[r] \/ DOMAIN plan'[r].read = {}
    <3>1. DOMAIN NoPlan.read = {}  BY DEF NoPlan, NoRows
    <3>2. DOMAIN [plan[s] EXCEPT !.due = plan[s].due \ {t}].read = {}
      BY <1>16 DEF EnqueueDue, TypeOK, IsPlan
    <3> QED  BY <1>16, <3>1, <3>2 DEF EnqueueDue, TypeOK
  <2> QED  BY <2>1, <2>2, <2>3, <2>4, DepsFrame DEF PlanReady
<1>17. ASSUME NEW s \in Schedulers, CrashWorker(s) \/ CrashRequest(s)  PROVE DepsOK'
  <2>1. UNCHANGED <<task, results>>  BY <1>17 DEF CrashWorker, CrashRequest
  <2>2. \A r \in Schedulers : plan'[r] = plan[r] \/ DOMAIN plan'[r].read = {}
    <3>1. DOMAIN NoPlan.read = {}  BY DEF NoPlan, NoRows
    <3>2. plan' = [plan EXCEPT ![s] = NoPlan]  BY <1>17 DEF CrashWorker, CrashRequest
    <3> QED  BY <3>1, <3>2 DEF TypeOK
  <2> QED  BY <2>1, <2>2, DepsFrame DEF PlanReady
<1>18. UNCHANGED vars => UNCHANGED <<task, plan, results>>  BY DEF vars, data
<1>19. ASSUME NEW s \in Schedulers, SessionStopped(s)  PROVE DepsOK'
  <2>1. UNCHANGED <<task, results>>  BY <1>19 DEF SessionStopped
  <2>2. \A r \in Schedulers : plan'[r] = plan[r] \/ DOMAIN plan'[r].read = {}
    <3>1. DOMAIN NoPlan.read = {}  BY DEF NoPlan, NoRows
    <3> QED  BY <1>19, <3>1 DEF SessionStopped, TypeOK
  <2> QED  BY <2>1, <2>2, DepsFrame DEF PlanReady
<1> QED
  BY <1>2, <1>3, <1>4, <1>5, <1>6, <1>7, <1>8, <1>9, <1>10, <1>11, <1>12, <1>13, <1>14, <1>15,
     <1>16, <1>17, <1>18, <1>19, <1>21
  DEF Next, Execute, Write, Ask, Fault, Schedulers

-----------------------------------------------------------------------------
(* The theorems. *)

LEMMA Initially ==
  ASSUME TeamAssumption, Init  PROVE IInv
<1>1. TypeOK
  <2>1. NoJob \in JobState /\ IdleWorker \in WorkerState
    BY DEF NoJob, JobState, JobAttempts, IdleWorker, WorkerState, PCs, Statuses
  <2>2. TaskType /\ TokenType  BY DEF Init, TaskType, TokenType, Row, Statuses
  <2>3. PlanType  BY NoPlanIsPlan DEF Init, PlanType
  <2> QED
    BY <2>1, <2>2, <2>3, TypeParts
    DEF Init, JobType, WorkerType, ClaimType, ResultType, RestType
<1>2. WorkersOK  BY DEF Init, WorkersOK, WorkerOK, IdleWorker
<1>3. JobsOK
  BY <1>1 DEF Init, JobsOK, Current, NoJob, IdleWorker
<1>6. WritersOK
  <2>1. NoPlan.kind \notin Own  BY DEF NoPlan, Own
  <2> QED  BY <2>1 DEF Init, WritersOK, WriterOK, Schedulers
<1>7. OutputsOK  BY DEF Init, OutputsOK, OutputOK, Recorded, IdleWorker
<1>4. ClaimsOK  BY DEF Init, ClaimsOK, Guarded, Sound, At, IdleWorker
<1>5. DepsOK
  <2>1. \A s \in Schedulers : DOMAIN plan[s].read = {}  BY DEF Init, NoPlan, NoRows
  <2>2. \A t \in Tasks : RowReady(t, task[t])  BY DEF Init, RowReady, Active
  <2>3. \A e \in Executors : worker[e].token = 0  BY DEF Init, IdleWorker
  <2> QED  BY <2>1, <2>2, <2>3 DEF DepsOK, PlanReady
<1> QED  BY <1>1, <1>2, <1>3, <1>4, <1>5, <1>6, <1>7 DEF IInv

LEMMA Inductive ==
  ASSUME TeamAssumption, IInv, [Next]_vars  PROVE IInv'
BY TypeStep, WritersStep, JobsStep, ClaimsStep, OutputsStep, DepsStep DEF IInv

\* Every state satisfies the inductive invariant.
THEOREM Invariant == Spec => []IInv
<1>1. Init => IInv  BY Initially, TeamAssumption
<1>2. IInv /\ [Next]_vars => IInv'  BY Inductive, TeamAssumption
<1> QED  BY <1>1, <1>2, PTL DEF Spec

\* Every table and every worker keeps its type.
THEOREM TypeCorrect == Spec => []TypeOK
<1>1. IInv => TypeOK  BY DEF IInv
<1> QED  BY <1>1, Invariant, PTL

\* A body runs after every task it depends on has delivered: who executes a
\* task got its token from a row that was queued or running, and a row is
\* made so only by who has seen the dependencies done (DepsOK).
THEOREM DependenciesCorrect == Spec => []DependenciesFirst
<1>1. IInv => DependenciesFirst
  <2> SUFFICES ASSUME IInv, NEW e \in Executors, At(e, "body")
               PROVE  Delivered(worker[e].task)
    BY DEF DependenciesFirst, Delivered
  <2>1. worker[e].token # 0  BY DEF IInv, WorkersOK, WorkerOK, At
  <2> QED  BY <2>1 DEF IInv, DepsOK
<1> QED  BY <1>1, Invariant, PTL

\* Two bodies that are sound never share a task, because the job of a task is
\* one worker's (JobsOK), nor a resource, because claims on a resource are of
\* one task and last as long as they are renewed (ClaimsOK).
THEOREM BodiesApartCorrect == Spec => []BodiesApart
<1>1. IInv => BodiesApart
  <2> SUFFICES ASSUME IInv, NEW e \in Executors, NEW f \in Executors, e # f, Sound(e), Sound(f)
               PROVE  /\ worker[e].task # worker[f].task
                      /\ ResourceLocks =>
                           Needs[worker[e].task] \intersect Needs[worker[f].task] = {}
    BY DEF BodiesApart
  <2>1. worker[e].task # worker[f].task
    <3>1. job[worker[e].task].by = e /\ job[worker[f].task].by = f
      BY DEF IInv, JobsOK, Sound, At
    <3> QED  BY <3>1
  <2>2. ASSUME ResourceLocks, NEW r \in Needs[worker[e].task] \intersect Needs[worker[f].task]
        PROVE  FALSE
    <3>1. worker[e].got = Needs[worker[e].task] /\ worker[f].got = Needs[worker[f].task]
      BY <2>2 DEF IInv, WorkersOK, WorkerOK, Sound, At
    <3> DEFINE c == [res |-> r, task |-> worker[e].task, token |-> worker[e].token]
               d == [res |-> r, task |-> worker[f].task, token |-> worker[f].token]
    <3>2. c \in claims /\ d \in claims
      BY <2>2, <3>1 DEF IInv, ClaimsOK, Guarded, Sound, At
    <3>3. c.res = d.res /\ c.task = worker[e].task /\ d.task = worker[f].task  OBVIOUS
    <3> HIDE DEF c, d
    <3>4. c.task = d.task  BY <3>2, <3>3 DEF IInv, ClaimsOK
    <3> QED  BY <2>1, <3>3, <3>4
  <2> QED  BY <2>1, <2>2
<1> QED  BY <1>1, Invariant, PTL

\* Whoever has found its claim in place writes as the newest execution of the
\* task, unless its process stalled after that: as long as it runs, no lease
\* and no row saved late takes the job of the task away (JobsOK), and without
\* the job nobody draws a newer token.
THEOREM NewestClaimCorrect == Spec => []NewestClaimWrites
<1>1. IInv => NewestClaimWrites
  <2> SUFFICES ASSUME IInv, NEW e \in Executors, ~worker[e].stalled,
                      worker[e].pc \in {"recording", "updating", "releasing"}
               PROVE  newest[worker[e].task] = worker[e].token
    BY DEF NewestClaimWrites
  <2>1. worker[e].token # 0  BY DEF IInv, WorkersOK, WorkerOK
  <2> QED  BY <2>1 DEF IInv, JobsOK, Current
<1> QED  BY <1>1, Invariant, PTL

-----------------------------------------------------------------------------
(* Nobody forgets a task.  While nothing is dropped, the row of a task has   *)
(* the newest token or none; a live token is that of the worker that has the *)
(* job; and who ends a job leaves the task at rest, or to a request.         *)

Working == {"acquiring", "starting", "body", "committing", "lost", "recording", "updating",
            "releasing", "raised"}
Holds(e, t) ==
  worker[e].task = t /\ worker[e].pc \in Working /\ worker[e].token = task[t].token

\* The outcome of e is in the table; what is left is to release the claim.
Saved(e) == At(e, "releasing") /\ plan[e] = NoPlan

\* A worker with the job of t: gone, about to look at t, at work on it, or
\* about to offer it as a job again.
Busy(e, t) ==
  \/ worker[e].task # t \/ worker[e].pc = "claiming" \/ (Holds(e, t) /\ ~Saved(e))
  \/ (Saved(e) \/ worker[e].pc = "committed") /\ worker[e].final = "QUEUED"
Due(t) == \E s \in Schedulers : t \in plan[s].due /\ Halfway(s)

TokenKept(t) == task[t].token \in {0, newest[t]}
LeaseOwned(t) ==
  task[t].token \in live =>
    job[t].by \in Executors /\ (worker[job[t].by].task # t \/ Holds(job[t].by, t))
Watched(t) ==
  task[t].status \in Active =>
    job[t].status = "pending" \/ (job[t].status = "running" /\ Busy(job[t].by, t)) \/ Due(t)
InGoodHands(t) == TokenKept(t) /\ LeaseOwned(t) /\ Watched(t)

\* What is about to be saved will be enqueued, unless it is to be stopped.
PlanOK(p) ==
  /\ p.due # {} => DOMAIN p.read \subseteq p.due /\ p.kind # "stop"
  /\ p.kind = "wave" => p.due # {}
PlansOK == \A s \in Schedulers : PlanOK(plan[s])
FinalsOK == \A e \in Executors : worker[e].final # "RUNNING"

AInv == ~mishap => FinalsOK /\ PlansOK /\ \A t \in Tasks : InGoodHands(t)

\* The job of t stays with a worker that goes on with t, or leaves it.
Keeps(e, t) ==
  \/ worker'[e].task # t
  \/ /\ worker'[e].task = worker[e].task /\ worker'[e].token = worker[e].token
     /\ \/ /\ worker'[e].pc = worker[e].pc /\ worker'[e].final = worker[e].final
           /\ Saved(e)' <=> Saved(e)
        \/ worker[e].pc \in Working /\ worker'[e].pc \in Working /\ ~Saved(e) /\ ~Saved(e)'

LEMMA HandsFrame ==
  ASSUME JobsOK, TypeOK, NEW t \in Tasks, InGoodHands(t), task'[t].token = task[t].token,
         newest'[t] = newest[t],
         task'[t].status \in Active => task[t].status \in Active \/ Due(t)',
         job'[t] = job[t], task[t].token \in live' => task[t].token \in live,
         \A e \in Executors : job[t].by = e => Keeps(e, t),
         Due(t) => Due(t)'
  PROVE  InGoodHands(t)'
<1> DEFINE b == job[t].by
<1>1. job[t].status = "running" => b \in Executors
  BY DEF JobsOK, TypeOK, JobState
<1>2. b \in Executors /\ Holds(b, t) => worker'[b].task # t \/ Holds(b, t)'
  BY DEF Keeps, Holds, Working
<1>3. b \in Executors /\ Busy(b, t) => Busy(b, t)'
  BY <1>2 DEF Keeps, Busy, Working, Saved, At
<1>4. TokenKept(t)'  BY DEF InGoodHands, TokenKept
<1>5. LeaseOwned(t)'
  <2>1. b \in Executors /\ worker[b].task # t => worker'[b].task # t
    BY DEF Keeps
  <2> QED  BY <1>2, <2>1 DEF InGoodHands, LeaseOwned
<1>6. Watched(t)'  BY <1>1, <1>3 DEF InGoodHands, Watched
<1> QED  BY <1>4, <1>5, <1>6 DEF InGoodHands

\* A task that is at rest and not claimed.
LEMMA AtRest ==
  ASSUME TypeOK', NEW t \in Tasks, task'[t].status \notin Active, task'[t].token = 0
  PROVE  InGoodHands(t)'
<1>1. 0 \notin live'  BY DEF TypeOK
<1> QED  BY <1>1 DEF InGoodHands, TokenKept, LeaseOwned, Watched

\* A task that waits for a worker, or for the request that will enqueue it.
LEMMA Waiting ==
  ASSUME NEW t \in Tasks, TokenKept(t)', task'[t].token \notin live',
         task'[t].status \in Active => job'[t].status = "pending" \/ Due(t)'
  PROVE  InGoodHands(t)'
BY DEF InGoodHands, LeaseOwned, Watched

PlansKept == PlansOK' /\ \A t \in Tasks : Due(t) => Due(t)'

\* s goes over to p and still owes the tasks that it owed.
LEMMA PlanKept ==
  ASSUME TypeOK, PlansOK, NEW s \in Schedulers, NEW p, plan' = [plan EXCEPT ![s] = p], PlanOK(p),
         ~Halfway(s) \/ (plan[s].due \subseteq p.due /\ Halfway(s)')
  PROVE  PlansKept
<1>1. \A r \in Schedulers : plan'[r] = IF r = s THEN p ELSE plan[r]  BY DEF TypeOK
<1>2. PlansOK'  BY <1>1 DEF PlansOK
<1>3. ASSUME NEW t \in Tasks, Due(t)  PROVE Due(t)'
  <2>1. PICK r \in Schedulers : t \in plan[r].due /\ Halfway(r)  BY <1>3 DEF Due
  <2>2. t \in plan'[r].due /\ Halfway(r)'  BY <1>1, <2>1 DEF Halfway
  <2> QED  BY <2>2 DEF Due
<1> QED  BY <1>2, <1>3 DEF PlansKept

LEMMA SamePlans == ASSUME PlansOK, UNCHANGED plan  PROVE PlansKept
BY DEF PlansKept, PlansOK, Due, Halfway

\* Who plans nothing yet has read some rows and will enqueue the tasks D.
LEMMA Planned ==
  ASSUME TypeOK, PlansOK, NEW s \in Schedulers, plan[s] = NoPlan, NEW D, NEW k, NEW read,
         D # {} => DOMAIN read \subseteq D /\ k # "stop", k = "wave" => D # {},
         SetPlan(s, k, read, D)
  PROVE  PlansKept
<1> DEFINE p == [kind |-> k, read |-> read, due |-> D]
<1>1. p.due = D /\ p.read = read /\ p.kind = k  OBVIOUS
<1>2. plan' = [plan EXCEPT ![s] = p]  BY DEF SetPlan
<1> HIDE DEF p
<1>3. PlanOK(p)  BY <1>1 DEF PlanOK
<1>4. ~Halfway(s)  BY DEF Halfway, NoPlan
<1> QED  BY <1>2, <1>3, <1>4, PlanKept

\* The tasks that a step of e is not about.
LEMMA OthersKept ==
  ASSUME TypeOK, JobsOK, NEW e \in Executors, NEW w, SetWorker(e, w), NEW t \in Tasks,
         \A f \in Executors \ {e} : plan'[f] = plan[f],
         InGoodHands(t), w.task # t, task'[t] = task[t], newest'[t] = newest[t],
         job'[t] = job[t], task[t].token \in live' => task[t].token \in live,
         Due(t) => Due(t)'
  PROVE  InGoodHands(t)'
<1>1. \A f \in Executors : worker'[f] = IF f = e THEN w ELSE worker[f]
  BY DEF SetWorker, TypeOK
<1>2. \A f \in Executors : Keeps(f, t)  BY <1>1 DEF Keeps, Saved, At
<1> QED  BY <1>2, HandsFrame

\* A step of e that concerns the task t only.
LEMMA OneTask ==
  ASSUME TypeOK, JobsOK, FinalsOK, PlansOK, \A x \in Tasks : InGoodHands(x),
         NEW e \in Executors, NEW w, SetWorker(e, w), w.final # "RUNNING",
         PlansKept, \A f \in Executors \ {e} : plan'[f] = plan[f],
         NEW t \in Tasks, \A x \in Tasks \ {t} :
           /\ w.task # x /\ task'[x] = task[x] /\ newest'[x] = newest[x] /\ job'[x] = job[x]
           /\ task[x].token \in live' => task[x].token \in live,
         InGoodHands(t)'
  PROVE  AInv'
<1>1. \A f \in Executors : worker'[f] = IF f = e THEN w ELSE worker[f]
  BY DEF SetWorker, TypeOK
<1>2. FinalsOK'  BY <1>1 DEF FinalsOK
<1>3. \A x \in Tasks \ {t} : InGoodHands(x)'  BY OthersKept DEF PlansKept
<1> QED  BY <1>2, <1>3 DEF AInv, PlansKept

\* e is done with its task: it has lost its claim, or the task is at rest.
LEMMA FinishKept ==
  ASSUME TypeOK, TypeOK', JobsOK, FinalsOK, PlansOK, \A x \in Tasks : InGoodHands(x),
         UNCHANGED newest, NEW e \in Executors, Finish(e, "finishing"),
         NEW t \in Tasks, worker[e].task = t, live' \subseteq live,
         PlansKept, \A f \in Executors \ {e} : plan'[f] = plan[f],
         \A x \in Tasks \ {t} : job'[x] = job[x] /\ task'[x] = task[x],
         \/ (task'[t].status \notin Active /\ task'[t].token = 0)
         \/ (job'[t].status = "pending" /\ TokenKept(t)' /\ task'[t].token \notin live')
         \/ (task' = task /\ job' = job /\ ~Busy(e, t) /\ ~Holds(e, t))
  PROVE  AInv'
<1> DEFINE w == [IdleWorker EXCEPT !.pc = "finishing", !.task = t, !.stalled = worker[e].stalled]
<1>1. SetWorker(e, w) /\ w.task = t /\ w.pc = "finishing" /\ w.final # "RUNNING"
  BY DEF Finish, IdleWorker
<1> HIDE DEF w
<1>2. InGoodHands(t)'
  <2>1. CASE task'[t].status \notin Active /\ task'[t].token = 0  BY <2>1, AtRest
  <2>2. CASE job'[t].status = "pending" /\ TokenKept(t)' /\ task'[t].token \notin live'
    BY <2>2, Waiting
  <2>3. CASE task' = task /\ job' = job /\ ~Busy(e, t) /\ ~Holds(e, t)
    <3>1. CASE job[t].by = e
      <4>1. task[t].token \notin live /\ TokenKept(t)'
        BY <2>3, <3>1 DEF InGoodHands, LeaseOwned, TokenKept
      <4>2. task[t].status \in Active => job[t].status = "pending" \/ Due(t)
        BY <2>3, <3>1 DEF InGoodHands, Watched
      <4> QED  BY <2>3, <4>1, <4>2, Waiting DEF PlansKept
    <3>2. CASE job[t].by # e
      <4>1. \A f \in Executors : job[t].by = f => worker'[f] = worker[f] /\ plan'[f] = plan[f]
        BY <1>1, <3>2 DEF SetWorker, TypeOK
      <4>2. \A f \in Executors : job[t].by = f => Keeps(f, t)  BY <4>1 DEF Keeps, Saved, At
      <4> QED  BY <2>3, <4>2, HandsFrame DEF PlansKept
    <3> QED  BY <3>1, <3>2
  <2> QED  BY <2>1, <2>2, <2>3
<1> QED  BY <1>1, <1>2, OneTask

\* e goes on with its task, and nothing happens to the tables.
LEMMA GoesOn ==
  ASSUME TypeOK, JobsOK, FinalsOK, PlansOK, \A x \in Tasks : InGoodHands(x),
         UNCHANGED <<task, newest, job, live>>, NEW e \in Executors, NEW w, SetWorker(e, w),
         PlansKept, \A f \in Executors \ {e} : plan'[f] = plan[f],
         w.final # "RUNNING", w.task = worker[e].task, w.token = worker[e].token,
         \/ w.pc = worker[e].pc /\ w.final = worker[e].final /\ plan'[e] = plan[e]
         \/ worker[e].pc \in Working /\ w.pc \in Working /\ ~Saved(e)
            /\ (w.pc = "releasing" => plan'[e] # NoPlan)
  PROVE  AInv'
<1>1. \A f \in Executors : worker'[f] = IF f = e THEN w ELSE worker[f]
  BY DEF SetWorker, TypeOK
<1>2. FinalsOK'  BY <1>1 DEF FinalsOK
<1>3. ASSUME NEW t \in Tasks  PROVE InGoodHands(t)'
  <2>1. Keeps(e, t)  BY <1>1 DEF Keeps, Saved, At
  <2>2. \A f \in Executors : Keeps(f, t)  BY <1>1, <2>1 DEF Keeps, Saved, At
  <2> QED  BY <2>2, HandsFrame DEF PlansKept
<1> QED  BY <1>2, <1>3 DEF AInv, PlansKept

\* Who has the claim of t in place has the job of t.
LEMMA AliveHolds ==
  ASSUME IInv, NEW e \in Executors, Alive(e), worker[e].task \in Tasks
  PROVE  job[worker[e].task].by = e /\ job[worker[e].task].status = "running"
<1>1. job[worker[e].task].by = e  BY DEF IInv, JobsOK, Alive, Current
<1> QED  BY <1>1, TeamAssumption DEF IInv, JobsOK, TeamAssumption

\* A job that is accepted is that of a task whose claim is over.
LEMMA Enqueued ==
  ASSUME TypeOK, JobsOK, NEW t \in Tasks, InGoodHands(t), Accepts(t), job' = Enqueue(t)
  PROVE  /\ job'[t].status = "pending" /\ task[t].token \notin live
         /\ \A x \in Tasks \ {t} : job'[x] = job[x]
<1>1. job[t].by = NoOne  BY DEF Accepts, JobsOK
<1>2. NoOne \notin Executors  BY TeamAssumption DEF TeamAssumption
<1>3. task[t].token \notin live  BY <1>1, <1>2 DEF InGoodHands, LeaseOwned
<1> QED  BY <1>3 DEF Enqueue, PendingJob, TypeOK

\* e gives its task up, or finds that it has lost it.
LEMMA ReleaseKept ==
  ASSUME IInv, TypeOK', FinalsOK, PlansOK, \A x \in Tasks : InGoodHands(x),
         UNCHANGED <<newest, plan, job>>, NEW e \in Executors, Finish(e, "finishing"),
         worker[e].task \in Tasks, worker[e].pc \in Working \ {"releasing"},
         live' \subseteq live, ~Dropped(e), NEW status \in Statuses,
         status \notin Active \/ ~Alive(e), task' = Released(e, status)
  PROVE  AInv'
<1>1. PICK t \in Tasks : t = worker[e].task  OBVIOUS
<1>2. PlansKept /\ \A f \in Executors \ {e} : plan'[f] = plan[f]  BY SamePlans
<1>3. CASE Alive(e)
  <2>1. /\ task'[t].status \notin Active /\ task'[t].token = 0
        /\ \A x \in Tasks \ {t} : task'[x] = task[x]
    BY <1>1, <1>3 DEF Released, IInv, TypeOK, Row
  <2> QED  BY <1>1, <1>2, <2>1, FinishKept DEF IInv
<1>4. CASE ~Alive(e)
  <2>1. task' = task  BY <1>4 DEF Released
  <2>2. ~Holds(e, t)  BY <1>1, <1>4 DEF Dropped, Holds
  <2>3. ~Busy(e, t)  BY <1>1, <2>2 DEF Busy, Working, Saved, At
  <2> QED  BY <1>1, <1>2, <2>1, <2>2, <2>3, FinishKept DEF IInv
<1> QED  BY <1>3, <1>4

LEMMA ExecutionsWatched ==
  ASSUME IInv, IInv', AInv, ~mishap', NEW e \in Executors, Execute(e)
  PROVE  AInv'
<1>1. TypeOK /\ JobsOK /\ WritersOK /\ TypeOK'  BY DEF IInv
<1>2. ~mishap
  <2>1. ASSUME NEW t \in Tasks, TakeJob(e, t)  PROVE ~mishap  BY <2>1 DEF TakeJob
  <2>2. ASSUME NEW r \in Resources, Acquire(e, r) \/ AcquireRefused(e, r)  PROVE ~mishap
    BY <2>2 DEF Acquire, AcquireRefused
  <2>3. ASSUME NEW final \in Statuses, BodyRaises(e, final)  PROVE ~mishap
    BY <2>3 DEF BodyRaises
  <2>4. ASSUME NEW final \in {"DONE", "FAILED", "BLOCKED"}, BodyReturns(e, final)  PROVE ~mishap
    BY <2>4 DEF BodyReturns
  <2>5. ASSUME ClaimTask(e) \/ BeginBody(e) \/ JobEnds(e)  PROVE ~mishap
    BY <2>5 DEF ClaimTask, BeginBody, JobEnds
  <2>6. ASSUME Record(e) \/ Update(e) \/ Release(e)  PROVE ~mishap
    BY <2>6 DEF Record, Update, Release
  <2>7. ASSUME CheckClaim(e)  PROVE ~mishap
    BY <2>7, Zenon DEF CheckClaim
  <2>8. ASSUME GiveUp(e) \/ LetGo(e)  PROVE ~mishap
    BY <2>8 DEF GiveUp, LetGo
  <2> QED  BY <2>1, <2>2, <2>3, <2>4, <2>5, <2>6, <2>7, <2>8 DEF Execute
<1>3. FinalsOK /\ PlansOK /\ \A x \in Tasks : InGoodHands(x)  BY <1>2 DEF AInv
<1>4. /\ worker[e] \in WorkerState /\ worker[e].final # "RUNNING"
      /\ worker[e].pc # "idle" => worker[e].task \in Tasks
  BY <1>1, <1>3 DEF IInv, WorkersOK, WorkerOK, TypeOK, FinalsOK
<1>5. NoOne \notin Executors \union Tasks  BY TeamAssumption DEF TeamAssumption
<1>6. worker[e].pc \notin {"body", "updating", "raised", "releasing", "finishing"}
        => plan[e] = NoPlan
  BY <1>1, NothingToWrite
<1>7. plan' = plan => PlansKept /\ \A f \in Executors \ {e} : plan'[f] = plan[f]
  BY <1>3, SamePlans
<1>8. ASSUME NEW t \in Tasks, NEW k, k # "wave", plan[e] = NoPlan, SetPlan(e, k, Rows({t}), {})
      PROVE  /\ PlansKept /\ \A f \in Executors \ {e} : plan'[f] = plan[f]
             /\ plan'[e] # NoPlan
  <2>1. e \in Schedulers  BY DEF Schedulers
  <2>2. PlansKept  BY <1>1, <1>3, <1>8, <2>1, Planned
  <2>3. plan'[e] = [kind |-> k, read |-> Rows({t}), due |-> {}]
    BY <1>1, <1>8, <2>1 DEF SetPlan, TypeOK
  <2>4. DOMAIN Rows({t}) # DOMAIN NoRows  BY DEF Rows, NoRows
  <2>5. plan'[e] # NoPlan  BY <2>3, <2>4 DEF NoPlan
  <2>6. \A f \in Executors \ {e} : plan'[f] = plan[f]
    BY <1>1, <1>8, <2>1 DEF SetPlan, TypeOK, Schedulers
  <2> QED  BY <2>2, <2>5, <2>6
<1>9. ASSUME NEW t \in Tasks, TakeJob(e, t)  PROVE AInv'
  <2> DEFINE w == [IdleWorker EXCEPT !.pc = "claiming", !.task = t]
  <2>1. w.pc = "claiming" /\ w.task = t /\ w.final # "RUNNING"  BY DEF IdleWorker
  <2>2. SetWorker(e, w) /\ UNCHANGED <<task, live, newest, plan>> /\ job[t].status = "pending"
    BY <1>9 DEF TakeJob, At
  <2>3. /\ job'[t].status = "running" /\ job'[t].by = e
        /\ \A x \in Tasks \ {t} : job'[x] = job[x]
    BY <1>1, <1>9 DEF TakeJob, TypeOK
  <2> HIDE DEF w
  <2>4. InGoodHands(t)'
    <3>1. job[t].by = NoOne  BY <1>1, <2>2 DEF JobsOK
    <3>2. task[t].token \notin live  BY <1>3, <1>5, <3>1 DEF InGoodHands, LeaseOwned
    <3>3. worker'[e] = w  BY <1>1, <2>2 DEF SetWorker, TypeOK
    <3>4. Busy(e, t)'  BY <2>1, <3>3 DEF Busy
    <3> QED  BY <1>3, <2>2, <2>3, <3>2, <3>4 DEF InGoodHands, TokenKept, LeaseOwned, Watched
  <2> QED  BY <1>1, <1>3, <1>7, <2>1, <2>2, <2>3, <2>4, OneTask
<1>10. ASSUME NEW r \in Resources, Acquire(e, r)  PROVE AInv'
  <2> DEFINE W(pc) == [worker[e] EXCEPT !.got = @ \union {r}, !.pc = pc]
  <2>1. SetWorker(e, W("starting")) \/ SetWorker(e, W("acquiring"))
    BY <1>10 DEF Acquire, SetWorker, At
  <2>2. worker[e].pc = "acquiring" /\ UNCHANGED <<task, newest, job, live, plan>>
    BY <1>10 DEF Acquire, At, data
  <2>3. ASSUME NEW pc \in {"starting", "acquiring"}, SetWorker(e, W(pc))  PROVE AInv'
    <3> DEFINE w == W(pc)
    <3>1. /\ w.pc = pc /\ w.task = worker[e].task /\ w.token = worker[e].token
          /\ w.final = worker[e].final
      BY <1>4 DEF WorkerState
    <3>2. SetWorker(e, w)  BY <2>3
    <3> HIDE DEF w
    <3>3. w.pc \in Working /\ worker[e].pc \in Working /\ ~Saved(e) /\ w.pc # "releasing"
      BY <2>2, <3>1 DEF Working, Saved, At
    <3> QED  BY <1>1, <1>3, <1>4, <1>7, <2>2, <3>1, <3>2, <3>3, GoesOn
  <2> QED  BY <2>1, <2>3
<1>11. ASSUME NEW r \in Resources, AcquireRefused(e, r)  PROVE AInv'
  <2> DEFINE t == worker[e].task
  <2>1. /\ t \in Tasks /\ worker[e].pc = "acquiring" /\ ~Dropped(e)
        /\ task' = Released(e, "PENDING") /\ UNCHANGED <<newest, plan, job>>
        /\ Finish(e, "finishing") /\ live' \subseteq live
    BY <1>4, <1>11, ForgetSubset DEF AcquireRefused, At
  <2> QED  BY <1>1, <1>3, <2>1, ReleaseKept DEF Working, Statuses, Active
<1>12. ASSUME ClaimTask(e), Claimable(worker[e].task)  PROVE AInv'
  <2> DEFINE w == [worker[e] EXCEPT !.pc = IF Locked(worker[e].task) THEN "acquiring" ELSE "starting",
                                    !.token = lastToken + 1]
  <2>1. PICK t \in Tasks : t = worker[e].task  BY <1>4, <1>12 DEF ClaimTask, At
  <2>2. /\ w.pc \in {"acquiring", "starting"} /\ w.task = t /\ w.token = lastToken + 1
        /\ w.final # "RUNNING"
    BY <1>4, <2>1 DEF WorkerState
  <2>3. /\ SetWorker(e, w) /\ UNCHANGED <<job, plan>>
        /\ worker[e].pc = "claiming" /\ live' = live \union {lastToken + 1}
    BY <1>4, <1>12 DEF ClaimTask, At
  <2>4. /\ task'[t].token = lastToken + 1 /\ newest'[t] = lastToken + 1
        /\ \A x \in Tasks \ {t} : task'[x] = task[x] /\ newest'[x] = newest[x]
    BY <1>1, <1>12, <2>1 DEF ClaimTask, TypeOK
  <2>5. \A x \in Tasks : task[x].token \in live' => task[x].token \in live
    <3>1. \A x \in Tasks : newest[x] \in 0..lastToken /\ lastToken \in Nat
      BY <1>1 DEF TypeOK
    <3> QED  BY <1>3, <2>3, <3>1 DEF InGoodHands, TokenKept
  <2>6. job[t].by = e /\ job[t].status = "running"
    BY <1>4, <1>5, <2>1, <2>3 DEF IInv, JobsOK, WorkersOK, WorkerOK
  <2> HIDE DEF w
  <2>7. InGoodHands(t)'
    <3>1. worker'[e] = w  BY <1>1, <2>3 DEF SetWorker, TypeOK
    <3>2. Holds(e, t)' /\ ~Saved(e)'  BY <2>2, <2>4, <3>1 DEF Holds, Working, Saved, At
    <3> QED
      BY <2>3, <2>4, <2>6, <3>2 DEF InGoodHands, TokenKept, LeaseOwned, Watched, Busy
  <2> QED  BY <1>1, <1>3, <1>7, <2>2, <2>3, <2>4, <2>5, <2>7, OneTask
<1>13. ASSUME ClaimTask(e), ~Claimable(worker[e].task)  PROVE AInv'
  <2>1. PICK t \in Tasks : t = worker[e].task  BY <1>4, <1>13 DEF ClaimTask, At
  <2>2. /\ Finish(e, "finishing") /\ worker[e].pc = "claiming"
        /\ UNCHANGED <<task, live, newest, job, plan>>
    BY <1>4, <1>13 DEF ClaimTask, At
  <2>3. job[t].by = e
    BY <1>4, <2>1, <2>2 DEF IInv, JobsOK, WorkersOK, WorkerOK
  <2>4. task[t].token \notin live
    BY <1>3, <2>1, <2>2, <2>3 DEF InGoodHands, LeaseOwned, Holds, Working
  <2>5. task[t].status \notin Active  BY <1>13, <2>1, <2>4 DEF Claimable
  <2> DEFINE w == [IdleWorker EXCEPT !.pc = "finishing", !.task = t, !.stalled = worker[e].stalled]
  <2>6. SetWorker(e, w) /\ w.task = t /\ w.pc = "finishing" /\ w.final # "RUNNING"
    BY <2>1, <2>2 DEF Finish, IdleWorker
  <2> HIDE DEF w
  <2>7. InGoodHands(t)'
    BY <1>3, <2>2, <2>4, <2>5 DEF InGoodHands, TokenKept, LeaseOwned, Watched
  <2> QED  BY <1>1, <1>3, <1>7, <2>2, <2>6, <2>7, OneTask
<1>14. ASSUME BeginBody(e)  PROVE AInv'
  <2>1. PICK t \in Tasks : t = worker[e].task  BY <1>4, <1>14 DEF BeginBody, At
  <2>2. /\ worker[e].pc = "starting" /\ UNCHANGED <<task, live, newest, job>>
        /\ worker[e].pc \in Working /\ ~Saved(e)
    BY <1>14 DEF BeginBody, At, data, Working, Saved
  <2>3. CASE task[t].cancel
    <3> DEFINE w == [worker[e] EXCEPT !.pc = "committing", !.final = "CANCELLED"]
    <3>1. /\ w.pc = "committing" /\ w.task = worker[e].task /\ w.token = worker[e].token
          /\ w.final = "CANCELLED"
      BY <1>4 DEF WorkerState
    <3>2. SetWorker(e, w) /\ UNCHANGED plan  BY <1>14, <2>1, <2>3 DEF BeginBody
    <3> HIDE DEF w
    <3> QED  BY <1>1, <1>3, <1>7, <2>2, <3>1, <3>2, GoesOn DEF Working
  <2>4. CASE ~task[t].cancel
    <3> DEFINE w == [worker[e] EXCEPT !.pc = "body", !.beating = TRUE]
    <3>1. /\ w.pc = "body" /\ w.task = worker[e].task /\ w.token = worker[e].token
          /\ w.final # "RUNNING"
      BY <1>4 DEF WorkerState
    <3>2. SetWorker(e, w) /\ SetPlan(e, "begin", Rows({t}), {})
      BY <1>14, <2>1, <2>4 DEF BeginBody
    <3> HIDE DEF w
    <3>3. PlansKept /\ \A f \in Executors \ {e} : plan'[f] = plan[f]
      BY <1>6, <1>8, <2>2, <3>2
    <3> QED  BY <1>1, <1>3, <2>2, <3>1, <3>2, <3>3, GoesOn DEF Working
  <2> QED  BY <2>3, <2>4
<1>15. ASSUME NEW final \in Statuses, BodyRaises(e, final)  PROVE AInv'
  <2>1. PICK t \in Tasks : t = worker[e].task  BY <1>4, <1>15 DEF BodyRaises, At
  <2> DEFINE w == [worker[e] EXCEPT !.pc = "raised", !.beating = FALSE, !.final = final]
  <2>2. /\ w.pc = "raised" /\ w.task = worker[e].task /\ w.token = worker[e].token
        /\ w.final = final
    BY <1>4 DEF WorkerState
  <2>3. final # "RUNNING"
    BY <1>15 DEF BodyRaises, AfterException, Strategies
  <2>4. /\ SetWorker(e, w) /\ worker[e].pc = "body" /\ UNCHANGED <<task, live, newest, job>>
        /\ plan[e] = NoPlan /\ (plan' = plan \/ SetPlan(e, "record", Rows({t}), {}))
    BY <1>15, <2>1 DEF BodyRaises, At
  <2> HIDE DEF w
  <2>5. PlansKept /\ \A f \in Executors \ {e} : plan'[f] = plan[f]
    BY <1>7, <1>8, <2>4
  <2>6. ~Saved(e)  BY <2>4 DEF Saved, At
  <2> QED  BY <1>1, <1>3, <2>2, <2>3, <2>4, <2>5, <2>6, GoesOn DEF Working
<1>16. ASSUME NEW final \in {"DONE", "FAILED", "BLOCKED"}, BodyReturns(e, final)  PROVE AInv'
  <2>1. worker[e].pc = "body" /\ UNCHANGED <<task, live, newest, job, plan>>
    BY <1>16 DEF BodyReturns, At, data
  <2>2. PICK s : s # "RUNNING" /\ Settle(e, s)
    BY <1>16 DEF BodyReturns, Strategies
  <2> DEFINE w == [worker[e] EXCEPT !.pc = "committing", !.beating = FALSE, !.final = s]
  <2>3. /\ w.pc = "committing" /\ w.task = worker[e].task /\ w.token = worker[e].token
        /\ w.final = s
    BY <1>4 DEF WorkerState
  <2>4. SetWorker(e, w)  BY <2>2 DEF Settle
  <2> HIDE DEF w
  <2>5. ~Saved(e)  BY <2>1 DEF Saved, At
  <2> QED  BY <1>1, <1>3, <1>7, <2>1, <2>2, <2>3, <2>4, <2>5, GoesOn DEF Working
<1>17. ASSUME CheckClaim(e)  PROVE AInv'
  <2>1. UNCHANGED <<data, claims, plan>> /\ At(e, "committing")
    BY <1>17, Zenon DEF CheckClaim
  <2>2. UNCHANGED <<task, live, newest, job, plan>> /\ worker[e].pc = "committing" /\ ~Saved(e)
    BY <2>1 DEF data, At, Saved
  <2>3. ASSUME NEW w, SetWorker(e, w), w.pc \in {"recording", "updating", "lost"},
               w.task = worker[e].task, w.token = worker[e].token, w.final # "RUNNING"
        PROVE  AInv'
    BY <1>1, <1>3, <1>7, <2>2, <2>3, GoesOn DEF Working
  <2>4. CASE Alive(e)
    <3>1. PICK pc \in {"recording", "updating"} :
            SetWorker(e, [worker[e] EXCEPT !.pc = pc, !.stalled = FALSE])
      BY <1>17, <2>4 DEF CheckClaim
    <3> DEFINE w == [worker[e] EXCEPT !.pc = pc, !.stalled = FALSE]
    <3>2. w.pc = pc /\ w.task = worker[e].task /\ w.token = worker[e].token
          /\ w.final = worker[e].final
      BY <1>4 DEF WorkerState
    <3>3. SetWorker(e, w)  BY <3>1
    <3> HIDE DEF w
    <3> QED  BY <1>4, <2>3, <3>2, <3>3
  <2>5. CASE ~Alive(e)
    <3> DEFINE final == IF AttemptsLeft(worker[e].task) THEN "QUEUED" ELSE "FAILED"
               w == [worker[e] EXCEPT !.pc = "lost", !.final = final]
    <3>1. SetWorker(e, w)  BY <1>17, <2>5 DEF CheckClaim
    <3>2. final # "RUNNING"  OBVIOUS
    <3> HIDE DEF final
    <3>3. w.pc = "lost" /\ w.task = worker[e].task /\ w.token = worker[e].token
          /\ w.final = final
      BY <1>4 DEF WorkerState
    <3> HIDE DEF w
    <3> QED  BY <2>3, <3>1, <3>2, <3>3
  <2> QED  BY <2>4, <2>5
<1>18. ASSUME Record(e) \/ Update(e)  PROVE AInv'
  <2>1. /\ worker[e].pc \in {"recording", "updating"} /\ UNCHANGED <<task, live, newest, job>>
        /\ plan[e] = NoPlan
    BY <1>6, <1>18 DEF Record, Update, At, data
  <2>2. PICK t \in Tasks : t = worker[e].task  BY <1>4, <2>1
  <2>3. PICK pc \in {"updating", "releasing"}, k \in {"record", "update"} :
          Goto(e, pc) /\ SetPlan(e, k, Rows({t}), {})
    BY <1>18, <2>2 DEF Record, Update
  <2>4. /\ PlansKept /\ \A f \in Executors \ {e} : plan'[f] = plan[f]
        /\ plan'[e] # NoPlan
    BY <1>8, <2>1, <2>3
  <2> DEFINE w == [worker[e] EXCEPT !.pc = pc]
  <2>5. w.pc = pc /\ w.task = worker[e].task /\ w.token = worker[e].token
        /\ w.final = worker[e].final
    BY <1>4 DEF WorkerState
  <2>6. SetWorker(e, w)  BY <2>3 DEF Goto
  <2> HIDE DEF w
  <2>7. ~Saved(e)  BY <2>1 DEF Saved, At
  <2> QED  BY <1>1, <1>3, <1>4, <2>1, <2>4, <2>5, <2>6, <2>7, GoesOn DEF Working
<1>19. ASSUME Release(e)  PROVE AInv'
  <2>1. PICK t \in Tasks : t = worker[e].task  BY <1>4, <1>19 DEF Release, At
  <2> DEFINE w == [worker[e] EXCEPT !.pc = "committed"]
  <2>2. /\ Saved(e) /\ UNCHANGED <<newest, job, plan>> /\ live' \subseteq live
        /\ task' = Released(e, worker[e].final) /\ SetWorker(e, w)
    BY <1>19, ForgetSubset DEF Release, Goto, Saved
  <2>3. w.pc = "committed" /\ w.task = t /\ w.final = worker[e].final
    BY <1>4, <2>1 DEF WorkerState
  <2> HIDE DEF w
  <2>4. worker'[e] = w  BY <1>1, <2>2 DEF SetWorker, TypeOK
  <2>5. 0 \notin live'  BY <1>1 DEF TypeOK
  <2>6. CASE Alive(e)
    <3>1. /\ task'[t].token = 0 /\ task'[t].status = worker[e].final
          /\ \A x \in Tasks \ {t} : task'[x] = task[x]
      BY <1>1, <1>4, <2>1, <2>2, <2>6 DEF Released, TypeOK, Row, WorkerState
    <3>2. job[t].by = e /\ job[t].status = "running"  BY <2>1, <2>6, AliveHolds
    <3>3. task'[t].status \in Active => Busy(e, t)'
      BY <1>4, <2>3, <2>4, <3>1 DEF Busy, Active
    <3>4. InGoodHands(t)'
      BY <2>2, <2>5, <3>1, <3>2, <3>3 DEF InGoodHands, TokenKept, LeaseOwned, Watched
    <3> QED  BY <1>1, <1>3, <1>4, <1>7, <2>2, <2>3, <3>1, <3>4, OneTask
  <2>7. CASE ~Alive(e)
    <3>1. task' = task  BY <2>2, <2>7 DEF Released
    <3>2. CASE job[t].by = e
      <4>1. task[t].token \notin live
        BY <1>3, <2>1, <2>7, <3>2 DEF InGoodHands, LeaseOwned, Holds, Alive
      <4>2. Busy(e, t) => Busy(e, t)'
        BY <2>1, <2>2, <2>3, <2>4 DEF Busy, Saved, At
      <4>3. task[t].status \in Active => job[t].status = "pending"
              \/ (job[t].status = "running" /\ Busy(e, t)') \/ Due(t)'
        BY <1>3, <1>7, <2>2, <3>2, <4>2 DEF InGoodHands, Watched, PlansKept
      <4>4. InGoodHands(t)'
        BY <1>3, <2>2, <3>1, <3>2, <4>1, <4>3 DEF InGoodHands, TokenKept, LeaseOwned, Watched
      <4> QED  BY <1>1, <1>3, <1>4, <1>7, <2>2, <2>3, <3>1, <4>4, OneTask
    <3>3. CASE job[t].by # e
      <4>1. \A f \in Executors : job[t].by = f => worker'[f] = worker[f] /\ plan'[f] = plan[f]
        BY <1>1, <2>2, <3>3 DEF SetWorker, TypeOK
      <4>2. \A f \in Executors : job[t].by = f => Keeps(f, t)  BY <4>1 DEF Keeps, Saved, At
      <4>3. InGoodHands(t)'
        BY <1>1, <1>3, <1>7, <2>2, <3>1, <4>2, HandsFrame DEF PlansKept
      <4> QED  BY <1>1, <1>3, <1>4, <1>7, <2>2, <2>3, <3>1, <4>3, OneTask
    <3> QED  BY <3>2, <3>3
  <2> QED  BY <2>6, <2>7
<1>20. ASSUME GiveUp(e)  PROVE AInv'
  <2>1. PICK t \in Tasks : t = worker[e].task  BY <1>4, <1>20 DEF GiveUp
  <2> DEFINE final == worker[e].final
             again == final = "QUEUED" /\ (At(e, "lost") => task'[t].token = 0)
  <2>2. /\ worker[e].pc \in {"raised", "lost"} /\ UNCHANGED <<newest, plan>> /\ ~Dropped(e)
        /\ task' = Released(e, final) /\ job' = IF again THEN Enqueue(t) ELSE job
        /\ again => Accepts(t)
        /\ Finish(e, "finishing") /\ live' \subseteq live
    BY <1>20, <2>1, ForgetSubset DEF GiveUp
  <2>3. CASE again
    <3>1. /\ job'[t].status = "pending" /\ task[t].token \notin live
          /\ \A x \in Tasks \ {t} : job'[x] = job[x]
      BY <1>1, <1>3, <2>2, <2>3, Enqueued
    <3>2. /\ task'[t].token \in {0, task[t].token}
          /\ \A x \in Tasks \ {t} : task'[x] = task[x]
      BY <1>1, <2>1, <2>2 DEF Released, TypeOK, Row
    <3>3. TokenKept(t)' /\ task'[t].token \notin live'
      BY <1>1, <1>3, <2>2, <3>1, <3>2 DEF InGoodHands, TokenKept, TypeOK
    <3> QED  BY <1>1, <1>3, <1>7, <2>1, <2>2, <3>1, <3>2, <3>3, FinishKept
  <2>4. CASE ~again
    <3>1. final \in Active => final = "QUEUED" /\ At(e, "lost") /\ task'[t].token # 0
      BY <1>4, <2>4 DEF Active
    <3>2. Alive(e) => task'[t].token = 0
      BY <1>1, <2>1, <2>2 DEF Released, TypeOK, Row
    <3>3. final \in Statuses /\ (final \notin Active \/ ~Alive(e))
      BY <1>4, <3>1, <3>2 DEF WorkerState
    <3> HIDE DEF final, again
    <3>4. worker[e].pc \in Working \ {"releasing"}  BY <2>2 DEF Working
    <3> QED  BY <1>3, <2>1, <2>2, <2>4, <3>3, <3>4, ReleaseKept DEF IInv
  <2> QED  BY <2>3, <2>4
<1>21. ASSUME LetGo(e)  PROVE AInv'
  <2>1. PICK t \in Tasks : t = worker[e].task  BY <1>4, <1>21 DEF LetGo, At
  <2>2. /\ plan[e] = NoPlan /\ worker[e].pc = "committed" /\ UNCHANGED <<task, newest, live>>
        /\ Finish(e, "finishing")
        /\ job' = IF worker[e].final = "QUEUED" THEN Enqueue(t) ELSE job
        /\ worker[e].final = "QUEUED" => Accepts(t)
        /\ plan' = plan \/ \E W \in Waves : W # {} /\ SetPlan(e, "wave", Rows(W), W)
    BY <1>6, <1>21, <2>1 DEF LetGo, At
  <2>3. PlansKept /\ \A f \in Executors \ {e} : plan'[f] = plan[f]
    <3>1. CASE plan' = plan  BY <1>7, <3>1
    <3>2. ASSUME NEW W \in Waves, W # {}, SetPlan(e, "wave", Rows(W), W)
          PROVE  PlansKept /\ \A f \in Executors \ {e} : plan'[f] = plan[f]
      <4>1. DOMAIN Rows(W) = W  BY DEF Rows
      <4>2. e \in Schedulers  BY DEF Schedulers
      <4>3. PlansKept  BY <1>1, <1>3, <2>2, <3>2, <4>1, <4>2, Planned
      <4>4. \A f \in Executors \ {e} : plan'[f] = plan[f]
        BY <1>1, <3>2 DEF SetPlan, TypeOK, Schedulers
      <4> QED  BY <4>3, <4>4
    <3> QED  BY <2>2, <3>1, <3>2
  <2>4. CASE worker[e].final = "QUEUED"
    <3>1. /\ job'[t].status = "pending" /\ task[t].token \notin live
          /\ \A x \in Tasks \ {t} : job'[x] = job[x]
      BY <1>1, <1>3, <2>2, <2>4, Enqueued
    <3>2. TokenKept(t)' /\ task'[t].token \notin live'
      BY <1>3, <2>2, <3>1 DEF InGoodHands, TokenKept
    <3> QED  BY <1>1, <1>3, <2>1, <2>2, <2>3, <3>1, <3>2, FinishKept
  <2>5. CASE worker[e].final # "QUEUED"
    <3>1. ~Busy(e, t) /\ ~Holds(e, t)
      BY <2>1, <2>2, <2>5 DEF Busy, Holds, Working, Saved, At
    <3> QED  BY <1>1, <1>3, <2>1, <2>2, <2>3, <2>5, <3>1, FinishKept
  <2> QED  BY <2>4, <2>5
<1>22. ASSUME JobEnds(e)  PROVE AInv'
  <2>1. PICK t \in Tasks : t = worker[e].task  BY <1>4, <1>22 DEF JobEnds
  <2>2. /\ worker[e].pc \in {"finishing", "failing"}
        /\ SetWorker(e, IdleWorker) /\ UNCHANGED <<task, newest, live, plan>>
    BY <1>22 DEF JobEnds
  <2>3. IdleWorker.final # "RUNNING" /\ IdleWorker.task = NoOne  BY DEF IdleWorker
  <2>4. \A x \in Tasks \ {t} : job'[x] = job[x]
    BY <1>1, <1>22, <2>1 DEF JobEnds, TypeOK
  <2>5. InGoodHands(t)'
    <3>1. CASE job[t].by # e
      <4>1. job' = job  BY <1>22, <2>1, <3>1 DEF JobEnds
      <4>2. \A f \in Executors : job[t].by = f => worker'[f] = worker[f] /\ plan'[f] = plan[f]
        BY <1>1, <2>2, <3>1 DEF SetWorker, TypeOK
      <4>3. \A f \in Executors : job[t].by = f => Keeps(f, t)  BY <4>2 DEF Keeps, Saved, At
      <4> QED  BY <1>1, <1>3, <1>7, <2>2, <4>1, <4>3, HandsFrame DEF PlansKept
    <3>2. CASE job[t].by = e
      <4>1. ~Busy(e, t) /\ ~Holds(e, t) /\ worker[e].task = t
        BY <2>1, <2>2 DEF Busy, Holds, Working, Saved, At
      <4>2. task[t].token \notin live  BY <1>3, <3>2, <4>1 DEF InGoodHands, LeaseOwned
      <4>3. job[t].status = "running"  BY <1>1, <1>5, <3>2 DEF JobsOK
      <4>4. task[t].status \in Active => Due(t)'
        BY <1>3, <1>7, <2>2, <3>2, <4>1, <4>3 DEF InGoodHands, Watched, PlansKept
      <4>5. TokenKept(t)'  BY <1>3, <2>2 DEF InGoodHands, TokenKept
      <4> QED  BY <2>2, <4>2, <4>4, <4>5, Waiting
    <3> QED  BY <3>1, <3>2
  <2>6. \A x \in Tasks : IdleWorker.task # x  BY <1>5, <2>3
  <2> QED  BY <1>1, <1>3, <1>7, <2>2, <2>3, <2>4, <2>5, <2>6, OneTask
<1> QED
  BY <1>9, <1>10, <1>11, <1>12, <1>13, <1>14, <1>15, <1>16, <1>17, <1>18, <1>19, <1>20, <1>21,
     <1>22 DEF Execute

\* The tables are as they were but for claims and leases that are over.
LEMMA LapsesWatched ==
  ASSUME IInv, IInv', AInv, ~mishap', Lapse
  PROVE  AInv'
<1>1. TypeOK /\ JobsOK /\ TypeOK'  BY DEF IInv
<1>2. ~mishap  BY DEF Lapse, LeaseLapses, ClaimLapses, JobLapses
<1>3. FinalsOK /\ PlansOK /\ \A x \in Tasks : InGoodHands(x)  BY <1>2 DEF AInv
<1>4. UNCHANGED <<task, newest, worker, plan>> /\ live' \subseteq live
  BY DEF Lapse, LeaseLapses, ClaimLapses, JobLapses, data
<1>5. FinalsOK' /\ PlansKept
  BY <1>3, <1>4, SamePlans DEF FinalsOK
<1>6. \A x \in Tasks : \A f \in Executors : Keeps(f, x)  BY <1>4 DEF Keeps, Saved, At
<1>7. \A x \in Tasks : job'[x] = job[x] => InGoodHands(x)'
  BY <1>1, <1>3, <1>4, <1>5, <1>6, HandsFrame DEF PlansKept
<1>8. ASSUME NEW t \in Tasks, JobLapses(t)  PROVE AInv'
  <2>1. newest[t] \notin live /\ 0 \notin live  BY <1>1, <1>8 DEF JobLapses, TypeOK
  <2>2. task[t].token \notin live /\ TokenKept(t)'
    BY <1>3, <1>4, <2>1 DEF InGoodHands, TokenKept
  <2>3. /\ \A x \in Tasks \ {t} : job'[x] = job[x]
        /\ job'[t].status = "pending" \/ task[t].status \notin Active
    BY <1>1, <1>8 DEF JobLapses, TypeOK, JobState
  <2>4. InGoodHands(t)'  BY <1>4, <2>2, <2>3, Waiting
  <2> QED  BY <1>5, <1>7, <2>3, <2>4 DEF AInv, PlansKept
<1>9. ASSUME job' = job  PROVE AInv'
  BY <1>5, <1>7, <1>9 DEF AInv, PlansKept
<1> QED  BY <1>8, <1>9 DEF Lapse, LeaseLapses, ClaimLapses, data

\* A request or a wave of s is forgotten, but not halfway.
LEMMA PlanLost ==
  ASSUME TypeOK, PlansOK, NEW s \in Schedulers, plan' = [plan EXCEPT ![s] = NoPlan], ~Halfway(s)
  PROVE  PlansKept
<1>1. PlanOK(NoPlan)  BY DEF PlanOK, NoPlan
<1> QED  BY <1>1, PlanKept

LEMMA FaultsWatched ==
  ASSUME IInv, IInv', AInv, ~mishap', Fault
  PROVE  AInv'
<1>1. TypeOK /\ JobsOK /\ TypeOK'  BY DEF IInv
<1>2. ~mishap
  BY DEF Fault, AcquireRaises, HeartbeatStops, Stall, CrashWorker, CrashRequest
<1>3. FinalsOK /\ PlansOK /\ \A x \in Tasks : InGoodHands(x)  BY <1>2 DEF AInv
<1>4. ASSUME NEW e \in Executors, HeartbeatStops(e) \/ Stall(e)  PROVE AInv'
  <2>1. worker[e] \in WorkerState /\ worker[e].final # "RUNNING"
    BY <1>1, <1>3 DEF TypeOK, FinalsOK
  <2>2. UNCHANGED <<task, newest, job, live, plan>>
    BY <1>4 DEF HeartbeatStops, Stall, data
  <2>3. PICK w : /\ SetWorker(e, w) /\ w.pc = worker[e].pc /\ w.task = worker[e].task
                 /\ w.token = worker[e].token /\ w.final = worker[e].final
    <3> DEFINE v == [worker[e] EXCEPT !.beating = FALSE]
               x == [worker[e] EXCEPT !.stalled = TRUE]
    <3>1. /\ v.pc = worker[e].pc /\ v.task = worker[e].task
          /\ v.token = worker[e].token /\ v.final = worker[e].final
      BY <2>1 DEF WorkerState
    <3>2. /\ x.pc = worker[e].pc /\ x.task = worker[e].task
          /\ x.token = worker[e].token /\ x.final = worker[e].final
      BY <2>1 DEF WorkerState
    <3>3. SetWorker(e, v) \/ SetWorker(e, x)  BY <1>4 DEF HeartbeatStops, Stall
    <3> QED  BY <3>1, <3>2, <3>3
  <2>4. PlansKept  BY <1>3, <2>2, SamePlans
  <2> QED  BY <1>1, <1>3, <2>1, <2>2, <2>3, <2>4, GoesOn
<1>5. ASSUME NEW e \in Executors, CrashWorker(e)  PROVE AInv'
  <2>1. /\ UNCHANGED <<task, newest, job>> /\ SetWorker(e, IdleWorker) /\ ~Halfway(e)
        /\ plan' = [plan EXCEPT ![e] = NoPlan] /\ live' \subseteq live /\ e \in Schedulers
    BY <1>5, ForgetSubset DEF CrashWorker, Schedulers
  <2>2. \A f \in Executors : /\ worker'[f] = IF f = e THEN IdleWorker ELSE worker[f]
                             /\ f # e => plan'[f] = plan[f]
    BY <1>1, <2>1 DEF SetWorker, TypeOK, Schedulers
  <2>3. PlansKept  BY <1>1, <1>3, <2>1, PlanLost
  <2>4. IdleWorker.final # "RUNNING" /\ \A t \in Tasks : IdleWorker.task # t
    BY TeamAssumption DEF IdleWorker, TeamAssumption
  <2>5. ASSUME NEW t \in Tasks  PROVE InGoodHands(t)'
    <3>1. \A f \in Executors : Keeps(f, t)  BY <2>2, <2>4 DEF Keeps, Saved, At
    <3> QED  BY <1>1, <1>3, <2>1, <2>3, <3>1, HandsFrame DEF PlansKept
  <2>6. FinalsOK'  BY <1>3, <2>2, <2>4 DEF FinalsOK
  <2> QED  BY <2>3, <2>5, <2>6 DEF PlansKept, AInv
<1>6. ASSUME NEW u \in Users, CrashRequest(u)  PROVE AInv'
  <2>1. /\ UNCHANGED <<task, newest, job, worker>> /\ ~Halfway(u) /\ u \in Schedulers
        /\ plan' = [plan EXCEPT ![u] = NoPlan] /\ live' \subseteq live
    BY <1>6, ForgetSubset DEF CrashRequest, Schedulers
  <2>2. PlansKept  BY <1>1, <1>3, <2>1, PlanLost
  <2>3. \A f \in Executors : plan'[f] = plan[f]
    BY <1>1, <2>1, TeamAssumption DEF TypeOK, Schedulers, TeamAssumption
  <2>4. \A x \in Tasks : \A f \in Executors : Keeps(f, x)
    BY <2>1, <2>3 DEF Keeps, Saved, At
  <2>5. \A t \in Tasks : InGoodHands(t)'
    BY <1>1, <1>3, <2>1, <2>2, <2>4, HandsFrame DEF PlansKept
  <2>6. FinalsOK'  BY <1>3, <2>1 DEF FinalsOK
  <2> QED  BY <2>2, <2>5, <2>6 DEF PlansKept, AInv
<1> QED  BY <1>4, <1>5, <1>6 DEF Fault, AcquireRaises

\* What a user, or a worker that writes, leaves as it is.
LEMMA PlanStep ==
  ASSUME TypeOK, JobsOK, FinalsOK, PlansOK, \A x \in Tasks : InGoodHands(x),
         UNCHANGED <<newest, worker>>, PlansKept,
         \A e \in Executors : Saved(e)' <=> Saved(e),
         NEW D \in SUBSET Tasks, \A x \in D : InGoodHands(x)', \A x \in Tasks \ D :
           /\ task'[x].token = task[x].token /\ job'[x] = job[x]
           /\ task[x].token \in live' => task[x].token \in live
           /\ task'[x].status \in Active => task[x].status \in Active \/ Due(x)'
  PROVE  AInv'
<1>1. \A x \in Tasks : \A f \in Executors : Keeps(f, x)  BY DEF Keeps
<1>2. \A x \in Tasks \ D : InGoodHands(x)'  BY <1>1, HandsFrame DEF PlansKept
<1>3. FinalsOK'  BY DEF FinalsOK
<1> QED  BY <1>2, <1>3 DEF AInv, PlansKept

\* A user asks, and the tables do not show it yet.
LEMMA AsksWatched ==
  ASSUME IInv, AInv, ~mishap', NEW u \in Users, Ask(u)
  PROVE  AInv'
<1>1. TypeOK /\ JobsOK  BY DEF IInv
<1>2. ~mishap /\ UNCHANGED <<task, newest, job, live, worker>> /\ plan[u] = NoPlan
  <2>1. RunReady(u) \/ CancelSession(u)
          => UNCHANGED <<mishap, task, newest, job, live, worker>> /\ plan[u] = NoPlan
    BY DEF RunReady, CancelSession, Request, data
  <2>2. ASSUME NEW t \in Tasks, RunTask(u, t) \/ RetryTask(u, t) \/ CancelTask(u, t)
        PROVE  UNCHANGED <<mishap, task, newest, job, live, worker>> /\ plan[u] = NoPlan
    BY <2>2 DEF RunTask, RetryTask, CancelTask, Request, data
  <2> QED  BY <2>1, <2>2 DEF Ask
<1>3. FinalsOK /\ PlansOK /\ \A x \in Tasks : InGoodHands(x)  BY <1>2 DEF AInv
<1>4. u \in Schedulers /\ u \notin Executors
  BY TeamAssumption DEF TeamAssumption, Schedulers
<1>5. ASSUME NEW k, NEW read, NEW D, SetPlan(u, k, read, D),
             D # {} => DOMAIN read \subseteq D /\ k # "stop", k = "wave" => D # {}
      PROVE  AInv'
  <2>1. PlansKept  BY <1>1, <1>2, <1>3, <1>4, <1>5, Planned
  <2>2. \A e \in Executors : Saved(e)' <=> Saved(e)
    BY <1>1, <1>2, <1>4, <1>5 DEF SetPlan, TypeOK, Saved, At, Schedulers
  <2> DEFINE N == {}
  <2>3. N \in SUBSET Tasks /\ \A x \in N : InGoodHands(x)'  OBVIOUS
  <2> HIDE DEF N
  <2>4. \A x \in Tasks \ N :
          /\ task'[x].token = task[x].token /\ job'[x] = job[x]
          /\ task[x].token \in live' => task[x].token \in live
          /\ task'[x].status \in Active => task[x].status \in Active \/ Due(x)'
    BY <1>2
  <2> QED  BY <1>1, <1>2, <1>3, <2>1, <2>2, <2>3, <2>4, PlanStep
<1>6. ASSUME RunReady(u)  PROVE AInv'
  <2>1. PICK W \in Waves : \E S \in (SUBSET W) \ {{}} : SetPlan(u, "wave", Rows(S), S)
    BY <1>6 DEF RunReady
  <2>2. PICK S \in (SUBSET W) \ {{}} : SetPlan(u, "wave", Rows(S), S)  BY <2>1
  <2>3. DOMAIN Rows(S) = S /\ S # {}  BY DEF Rows
  <2> QED  BY <1>5, <2>2, <2>3
<1>7. ASSUME NEW t \in Tasks, RunTask(u, t) \/ RetryTask(u, t) \/ CancelTask(u, t)  PROVE AInv'
  <2>1. DOMAIN Rows({t}) = {t}  BY DEF Rows
  <2>2. PICK k, D : k \notin {"wave", "stop"} /\ (D = {} \/ D = {t}) /\ SetPlan(u, k, Rows({t}), D)
    BY <1>7 DEF RunTask, RetryTask, CancelTask
  <2> QED  BY <1>5, <2>1, <2>2
<1>8. ASSUME CancelSession(u)  PROVE AInv'
  BY <1>5, <1>8 DEF CancelSession
<1> QED  BY <1>6, <1>7, <1>8 DEF Ask

\* Only the row of an outcome is the last that a worker saves before its release.
LEMMA SavedUpdates ==
  ASSUME TypeOK, WritersOK, NEW s \in Schedulers, NEW q, plan' = [plan EXCEPT ![s] = q],
         plan[s].kind # "update", plan[s] # NoPlan, UNCHANGED worker
  PROVE  \A e \in Executors : Saved(e)' <=> Saved(e)
<1> SUFFICES ASSUME NEW e \in Executors  PROVE Saved(e)' <=> Saved(e)
  OBVIOUS
<1>1. CASE e # s  BY <1>1 DEF TypeOK, Saved, At, Schedulers
<1>2. CASE e = s
  <2>1. worker[e].pc # "releasing"  BY <1>2 DEF WritersOK, WriterOK
  <2> QED  BY <2>1 DEF Saved, At
<1> QED  BY <1>1, <1>2

\* The row of an outcome, which e saves with its claim in place.
LEMMA UpdateWatched ==
  ASSUME IInv, IInv', AInv, ~mishap', NEW s \in Schedulers, Save(s), plan[s].kind = "update"
  PROVE  AInv'
<1> DEFINE p == plan[s]
<1>1. TypeOK /\ JobsOK /\ TypeOK'  BY DEF IInv
<1>2. /\ ~mishap /\ \A t \in DOMAIN p.read : task[t] = p.read[t]
      /\ UNCHANGED <<newest, job, worker>> /\ live' \subseteq live /\ Alive(s)
      /\ plan' = [plan EXCEPT ![s] = After(s)]
      /\ task' = [t \in Tasks |-> IF t \in DOMAIN p.read THEN Written(s, t) ELSE task[t]]
  BY ForgetSubset DEF Save
<1>3. FinalsOK /\ PlansOK /\ \A x \in Tasks : InGoodHands(x)  BY <1>2 DEF AInv
<1>4. s \in Executors  BY DEF IInv, WritersOK, Own, Schedulers
<1>5. /\ worker[s].pc = "releasing" /\ DOMAIN p.read = {worker[s].task} /\ p.due = {}
  BY <1>4 DEF IInv, WritersOK, WriterOK, NoPlan
<1>6. PICK t \in Tasks : t = worker[s].task  BY <1>4, <1>5 DEF IInv, WorkersOK, WorkerOK
<1>7. plan'[s] = NoPlan  BY <1>1, <1>2, <1>5 DEF After, TypeOK
<1>8. PlansKept
  <2>1. plan' = [plan EXCEPT ![s] = NoPlan] /\ ~Halfway(s)
    BY <1>2, <1>5 DEF After, Halfway
  <2> QED  BY <1>1, <1>3, <2>1, PlanLost
<1>9. /\ task'[t].token = task[t].token /\ task'[t].status = worker[s].final
      /\ \A x \in Tasks \ {t} : task'[x] = task[x]
  <2>1. task[t] \in Row  BY <1>1 DEF TypeOK
  <2>2. task'[t] = [task[t] EXCEPT !.status = worker[s].final]
    BY <1>2, <1>5, <1>6 DEF Written
  <2> QED  BY <1>2, <1>5, <1>6, <2>1, <2>2 DEF Row
<1>10. job[t].by = s /\ job[t].status = "running"  BY <1>2, <1>4, <1>6, AliveHolds
<1>11. InGoodHands(t)'
  <2>1. Holds(s, t)'  BY <1>2, <1>5, <1>6, <1>9 DEF Holds, Working, Alive
  <2>2. Saved(s)'  BY <1>2, <1>5, <1>7 DEF Saved, At
  <2>3. task'[t].status \in Active => Busy(s, t)'
    BY <1>2, <1>3, <1>4, <1>9, <2>2 DEF Busy, Active, FinalsOK
  <2> QED
    BY <1>2, <1>3, <1>4, <1>9, <1>10, <2>1, <2>3 DEF InGoodHands, TokenKept, LeaseOwned, Watched
<1>12. ASSUME NEW x \in Tasks \ {t}  PROVE InGoodHands(x)'
  <2>1. \A f \in Executors : plan'[f] = plan[f] \/ f = s
    BY <1>1, <1>2 DEF TypeOK, Schedulers
  <2>2. \A f \in Executors : Keeps(f, x)
    BY <1>2, <1>6, <2>1 DEF Keeps, Saved, At
  <2> QED  BY <1>1, <1>2, <1>3, <1>8, <1>9, <2>2, HandsFrame DEF PlansKept
<1>13. FinalsOK'  BY <1>2, <1>3 DEF FinalsOK
<1> QED  BY <1>8, <1>11, <1>12, <1>13 DEF AInv, PlansKept

\* A plan that is saved as it was read keeps the tokens, or drops them.
LEMMA SaveWatched ==
  ASSUME IInv, IInv', AInv, ~mishap', NEW s \in Schedulers, Save(s), plan[s].kind # "update"
  PROVE  AInv'
<1> DEFINE p == plan[s]
           q == After(s)
<1>1. TypeOK /\ JobsOK /\ WritersOK /\ TypeOK'  BY DEF IInv
<1>2. /\ ~mishap /\ \A t \in DOMAIN p.read : task[t] = p.read[t]
      /\ UNCHANGED <<newest, job, worker>> /\ live' \subseteq live /\ DOMAIN p.read # {}
      /\ plan' = [plan EXCEPT ![s] = q] /\ p.kind # "stop" /\ (p.kind = "begin" => Alive(s))
      /\ task' = [t \in Tasks |-> IF t \in DOMAIN p.read THEN Written(s, t) ELSE task[t]]
  BY ForgetSubset DEF Save
<1>3. FinalsOK /\ PlansOK /\ \A x \in Tasks : InGoodHands(x)  BY <1>2 DEF AInv
<1>4. IsPlan(p) /\ PlanOK(p)  BY <1>1, <1>3 DEF TypeOK, PlansOK
<1>5. /\ p.due = {} => q = NoPlan
      /\ p.due # {} => /\ q.due = p.due /\ q.kind # "stop"
                       /\ DOMAIN q.read = {} \/ (q.kind = "run" /\ DOMAIN q.read \subseteq q.due)
  <2>1. p.due # {} => DOMAIN p.read \subseteq p.due  BY <1>4 DEF PlanOK
  <2>2. CASE p.due = {}  BY <2>2 DEF After
  <2>3. CASE p.due # {} /\ p.kind = "queue"
    <3> DEFINE r == [t \in DOMAIN p.read |-> Written(s, t)]
    <3>1. q = [kind |-> "run", read |-> r, due |-> p.due]  BY <2>3 DEF After
    <3>2. DOMAIN r = DOMAIN p.read  OBVIOUS
    <3> HIDE DEF r, q
    <3> QED  BY <2>1, <2>3, <3>1, <3>2
  <2>4. CASE p.due # {} /\ p.kind # "queue"
    <3>1. q = [p EXCEPT !.read = NoRows]  BY <2>4 DEF After
    <3> HIDE DEF q
    <3> QED  BY <1>2, <1>4, <2>4, <3>1 DEF IsPlan, NoRows
  <2> QED  BY <2>2, <2>3, <2>4
<1>6. NoPlan.due = {} /\ NoPlan.kind = "none" /\ DOMAIN NoPlan.read = {}
  BY DEF NoPlan, NoRows
<1> HIDE DEF q
<1>7. plan'[s] = q  BY <1>1, <1>2 DEF TypeOK
<1>8. PlansKept
  <2>1. PlanOK(q)
    BY <1>5, <1>6 DEF PlanOK
  <2>2. p.due # {} => Halfway(s)'  BY <1>5, <1>7 DEF Halfway
  <2>3. ~Halfway(s) \/ (plan[s].due \subseteq q.due /\ Halfway(s)')
    BY <1>5, <2>2 DEF Halfway
  <2> QED  BY <1>1, <1>2, <1>3, <2>1, <2>3, PlanKept
<1>9. \A t \in p.due : t \in Tasks => Due(t)'
  BY <1>5, <1>7 DEF Due, Halfway
<1>10. \A e \in Executors : Saved(e)' <=> Saved(e)
  <2>1. plan[s] # NoPlan  BY <1>2, <1>6
  <2> QED  BY <1>1, <1>2, <2>1, SavedUpdates
<1>11. ASSUME NEW t \in Tasks
       PROVE  \/ InGoodHands(t)'
              \/ /\ task'[t].token = task[t].token
                 /\ task'[t].status \in Active => task[t].status \in Active \/ Due(t)'
  <2>1. CASE t \notin DOMAIN p.read  BY <1>2, <2>1
  <2>2. CASE t \in DOMAIN p.read
    <3>1. p.read[t] = task[t] /\ task'[t] = Written(s, t) /\ task[t] \in Row
      BY <1>1, <1>2, <2>2 DEF TypeOK
    <3>2. p.due # {} => t \in p.due  BY <1>4, <2>2 DEF PlanOK
    <3>3. CASE p.kind = "wave"
      <4>1. task'[t].token = task[t].token  BY <3>1, <3>3 DEF Written, Row
      <4>2. Due(t)'  BY <1>4, <1>9, <3>2, <3>3 DEF PlanOK
      <4> QED  BY <4>1, <4>2
    <3>4. CASE p.kind = "queue"
      <4>1. /\ task'[t].token = task[t].token
            /\ task'[t].status = IF p.due = {} THEN "CANCELLED" ELSE "QUEUED"
        BY <3>1, <3>4 DEF Written, Row
      <4>2. task'[t].status \in Active => Due(t)'  BY <1>9, <3>2, <4>1 DEF Active
      <4> QED  BY <4>1, <4>2
    <3>5. CASE p.kind = "retry"
      <4>1. /\ task'[t].token = 0
            /\ task'[t].status = IF p.due = {} THEN "PENDING" ELSE "QUEUED"
        BY <3>1, <3>5 DEF Written, Row
      <4>2. task'[t].status \in Active => Due(t)'  BY <1>9, <3>2, <4>1 DEF Active
      <4>3. 0 \notin live'  BY <1>1 DEF TypeOK
      <4>4. TokenKept(t)'  BY <4>1 DEF TokenKept
      <4> QED  BY <4>1, <4>2, <4>3, <4>4, Waiting
    <3>6. CASE p.kind = "cancel"
      <4>1. task'[t] = Stopped(task[t])  BY <3>1, <3>6 DEF Written
      <4>2. /\ Stopped(task[t]).token = task[t].token
            /\ Stopped(task[t]).status =
                 IF task[t].status = "RUNNING" THEN "RUNNING" ELSE "CANCELLED"
        BY <3>1 DEF Stopped, Row
      <4> QED  BY <4>1, <4>2 DEF Active
    <3>7. CASE p.kind = "begin"
      <4>1. s \in Executors  BY <1>1, <3>7 DEF WritersOK, Own, Schedulers
      <4>2. worker[s].pc = "body" /\ t = worker[s].task
        BY <1>1, <2>2, <3>7, <4>1 DEF WritersOK, WriterOK, NoPlan
      <4>3. job[t].by = s /\ job[t].status = "running" /\ Alive(s)
        BY <1>2, <3>7, <4>1, <4>2, AliveHolds
      <4>4. task'[t].token = task[t].token  BY <3>1, <3>7 DEF Written, Row
      <4>5. Holds(s, t)' /\ ~Saved(s)'
        BY <1>2, <4>2, <4>3, <4>4 DEF Holds, Working, Alive, Saved, At
      <4> QED
        BY <1>2, <1>3, <4>1, <4>3, <4>4, <4>5
        DEF InGoodHands, TokenKept, LeaseOwned, Watched, Busy
    <3>8. CASE p.kind \notin {"wave", "queue", "retry", "cancel", "begin"}
      <4>1. task'[t] = task[t]  BY <3>1, <3>8 DEF Written
      <4> QED  BY <4>1
    <3> QED  BY <3>3, <3>4, <3>5, <3>6, <3>7, <3>8
  <2> QED  BY <2>1, <2>2
<1> DEFINE D == {t \in Tasks : InGoodHands(t)'}
<1>12. D \in SUBSET Tasks /\ \A t \in D : InGoodHands(t)'  OBVIOUS
<1>13. ASSUME NEW t \in Tasks \ D
       PROVE  /\ task'[t].token = task[t].token /\ job'[t] = job[t]
              /\ task[t].token \in live' => task[t].token \in live
              /\ task'[t].status \in Active => task[t].status \in Active \/ Due(t)'
  BY <1>2, <1>11
<1> HIDE DEF D
<1> QED  BY <1>1, <1>2, <1>3, <1>8, <1>10, <1>12, <1>13, PlanStep

\* cancel_session stops its tasks one by one; who runs goes on.
LEMMA StopWatched ==
  ASSUME IInv, IInv', AInv, ~mishap', NEW s \in Schedulers,
         SessionStopped(s) \/ \E t \in Tasks : StopTask(s, t)
  PROVE  AInv'
<1>1. TypeOK /\ JobsOK /\ WritersOK  BY DEF IInv
<1>2. ~mishap /\ UNCHANGED <<newest, job, worker>> /\ live' \subseteq live /\ plan[s].kind = "stop"
  <2>1. ASSUME NEW t \in Tasks, StopTask(s, t)
        PROVE  ~mishap /\ UNCHANGED <<newest, job, worker>> /\ live' \subseteq live
               /\ plan[s].kind = "stop"
    BY <2>1, ForgetSubset DEF StopTask
  <2>2. ASSUME SessionStopped(s)
        PROVE  ~mishap /\ UNCHANGED <<newest, job, worker>> /\ live' \subseteq live
               /\ plan[s].kind = "stop"
    BY <2>2 DEF SessionStopped
  <2> QED  BY <2>1, <2>2
<1>3. FinalsOK /\ PlansOK /\ \A x \in Tasks : InGoodHands(x)  BY <1>2 DEF AInv
<1>4. plan[s].due = {} /\ IsPlan(plan[s])  BY <1>1, <1>2, <1>3 DEF PlansOK, PlanOK, TypeOK
<1>5. PICK q : plan' = [plan EXCEPT ![s] = q] /\ q.due = {} /\ q.kind # "wave"
  <2>1. ASSUME SessionStopped(s)
        PROVE  \E q : plan' = [plan EXCEPT ![s] = q] /\ q.due = {} /\ q.kind # "wave"
    <3>1. NoPlan.due = {} /\ NoPlan.kind # "wave"  BY DEF NoPlan
    <3> QED  BY <2>1, <3>1 DEF SessionStopped
  <2>2. ASSUME NEW t \in Tasks, StopTask(s, t)
        PROVE  \E q : plan' = [plan EXCEPT ![s] = q] /\ q.due = {} /\ q.kind # "wave"
    <3> DEFINE read == [x \in DOMAIN plan[s].read \ {t} |-> plan[s].read[x]]
               q == [plan[s] EXCEPT !.read = read]
    <3>1. plan' = [plan EXCEPT ![s] = q]  BY <2>2 DEF StopTask
    <3> HIDE DEF read
    <3>2. q.kind = "stop" /\ q.due = {}  BY <1>2, <1>4 DEF IsPlan
    <3> HIDE DEF q
    <3> QED  BY <3>1, <3>2
  <2> QED  BY <2>1, <2>2
<1>6. PlansKept
  <2>1. PlanOK(q) /\ ~Halfway(s)  BY <1>4, <1>5 DEF PlanOK, Halfway
  <2> QED  BY <1>1, <1>3, <1>5, <2>1, PlanKept
<1>7. \A e \in Executors : Saved(e)' <=> Saved(e)
  <2>1. plan[s].kind # "update" /\ plan[s] # NoPlan  BY <1>2 DEF NoPlan
  <2> QED  BY <1>1, <1>2, <1>5, <2>1, SavedUpdates
<1>8. ASSUME NEW x \in Tasks
      PROVE  /\ task'[x].token = task[x].token
             /\ task'[x].status \in Active => task[x].status \in Active
  <2>1. CASE task'[x] = task[x]  BY <2>1
  <2>2. CASE task'[x] # task[x]
    <3>1. PICK t \in Tasks : StopTask(s, t)  BY <2>2 DEF SessionStopped
    <3>2. t = x /\ task[x] = plan[s].read[x] /\ task'[x] = Stopped(plan[s].read[x])
      BY <1>1, <2>2, <3>1 DEF StopTask, TypeOK
    <3>3. task[x] \in Row  BY <1>1 DEF TypeOK
    <3>4. /\ Stopped(task[x]).token = task[x].token
          /\ Stopped(task[x]).status = IF task[x].status = "RUNNING" THEN "RUNNING" ELSE "CANCELLED"
      BY <3>3 DEF Stopped, Row
    <3> QED  BY <3>2, <3>4 DEF Active
  <2> QED  BY <2>1, <2>2
<1> DEFINE N == {}
<1>9. N \in SUBSET Tasks /\ \A x \in N : InGoodHands(x)'  OBVIOUS
<1> HIDE DEF N
<1>10. \A x \in Tasks \ N :
         /\ task'[x].token = task[x].token /\ job'[x] = job[x]
         /\ task[x].token \in live' => task[x].token \in live
         /\ task'[x].status \in Active => task[x].status \in Active \/ Due(x)'
  BY <1>2, <1>8
<1> QED  BY <1>1, <1>2, <1>3, <1>6, <1>7, <1>9, <1>10, PlanStep

\* The job of a task is accepted, or the task goes back to PENDING.
LEMMA EnqueueWatched ==
  ASSUME IInv, IInv', AInv, ~mishap', NEW s \in Schedulers, NEW t \in Tasks, EnqueueDue(s, t)
  PROVE  AInv'
<1> DEFINE p == plan[s]
           q == IF p.due = {t} THEN NoPlan ELSE [p EXCEPT !.due = p.due \ {t}]
<1>1. TypeOK /\ JobsOK /\ WritersOK /\ TypeOK'  BY DEF IInv
<1>2. /\ ~mishap /\ UNCHANGED <<newest, worker>> /\ live' \subseteq live
      /\ DOMAIN p.read = {} /\ t \in p.due /\ plan' = [plan EXCEPT ![s] = q]
      /\ job' = Enqueue(t) /\ (p.kind = "retry" => Accepts(t))
      /\ task' = IF Accepts(t) \/ p.kind = "retry" THEN task
                 ELSE [task EXCEPT ![t].status = "PENDING", ![t].token = 0]
  BY ForgetSubset DEF EnqueueDue
<1>3. FinalsOK /\ PlansOK /\ \A x \in Tasks : InGoodHands(x)  BY <1>2 DEF AInv
<1>4. IsPlan(p) /\ PlanOK(p)  BY <1>1, <1>3 DEF TypeOK, PlansOK
<1>5. /\ p.due = {t} => q = NoPlan
      /\ p.due # {t} => q.due = p.due \ {t} /\ q.kind = p.kind /\ q.read = p.read
  BY <1>4 DEF IsPlan
<1>6. NoPlan.due = {} /\ NoPlan.kind = "none" /\ DOMAIN NoPlan.read = {}
  BY DEF NoPlan, NoRows
<1> HIDE DEF q
<1>7. \A r \in Schedulers : plan'[r] = IF r = s THEN q ELSE plan[r]
  BY <1>1, <1>2 DEF TypeOK
<1>8. PlansOK'
  <2>1. PlanOK(q)  BY <1>2, <1>4, <1>5, <1>6 DEF PlanOK
  <2> QED  BY <1>3, <1>7, <2>1 DEF PlansOK
<1>9. ASSUME NEW x \in Tasks \ {t}, Due(x)  PROVE Due(x)'
  <2>1. PICK r \in Schedulers : x \in plan[r].due /\ Halfway(r)  BY <1>9 DEF Due
  <2>2. x \in plan'[r].due /\ Halfway(r)'  BY <1>2, <1>5, <1>7, <2>1 DEF Halfway
  <2> QED  BY <2>2 DEF Due
<1>10. \A x \in Tasks : \A f \in Executors : Keeps(f, x)
  <2>1. p.kind # "update"
    <3> SUFFICES ASSUME p.kind = "update"  PROVE FALSE
      OBVIOUS
    <3>1. s \in Executors  BY <1>1 DEF WritersOK, Own, Schedulers
    <3> QED  BY <1>1, <1>2, <3>1 DEF WritersOK, WriterOK, NoPlan
  <2>2. \A f \in Executors : Saved(f)' <=> Saved(f)
    BY <1>1, <1>2, <1>6, <2>1, SavedUpdates
  <2> QED  BY <1>2, <2>2 DEF Keeps
<1>11. ASSUME NEW x \in Tasks \ {t}  PROVE InGoodHands(x)'
  <2>1. task'[x] = task[x] /\ job'[x] = job[x]
    BY <1>1, <1>2 DEF Enqueue, TypeOK
  <2> QED  BY <1>1, <1>2, <1>3, <1>9, <1>10, <2>1, HandsFrame
<1>12. InGoodHands(t)'
  <2>1. CASE Accepts(t)
    <3>1. job'[t].status = "pending" /\ task[t].token \notin live
      BY <1>1, <1>2, <1>3, <2>1, Enqueued
    <3>2. TokenKept(t)' /\ task' = task  BY <1>2, <1>3, <2>1 DEF InGoodHands, TokenKept
    <3> QED  BY <1>2, <3>1, <3>2, Waiting
  <2>2. CASE ~Accepts(t)
    <3>1. task'[t].status = "PENDING" /\ task'[t].token = 0
      BY <1>1, <1>2, <2>2 DEF TypeOK, Row
    <3> QED  BY <1>1, <3>1, AtRest DEF Active
  <2> QED  BY <2>1, <2>2
<1>13. FinalsOK'  BY <1>2, <1>3 DEF FinalsOK
<1> QED  BY <1>8, <1>11, <1>12, <1>13 DEF AInv

LEMMA WatchInitially ==
  ASSUME IInv, Init  PROVE AInv
<1>1. FinalsOK  BY DEF Init, FinalsOK, IdleWorker
<1>2. PlansOK  BY DEF Init, PlansOK, PlanOK, NoPlan, NoRows, Schedulers
<1>3. \A t \in Tasks : InGoodHands(t)
  BY DEF Init, InGoodHands, TokenKept, LeaseOwned, Watched, Active
<1> QED  BY <1>1, <1>2, <1>3 DEF AInv

LEMMA WatchInductive ==
  ASSUME IInv, IInv', AInv, [Next]_vars  PROVE AInv'
<1>1. CASE mishap'  BY <1>1 DEF AInv
<1>2. CASE ~mishap' /\ UNCHANGED vars
  BY <1>2 DEF vars, data, AInv, FinalsOK, PlansOK, PlanOK, At, InGoodHands, TokenKept, LeaseOwned,
              Holds, Saved, Watched, Busy, Due, Halfway
<1>3. CASE ~mishap' /\ Next
  BY <1>3, ExecutionsWatched, LapsesWatched, FaultsWatched, AsksWatched, UpdateWatched, SaveWatched,
     StopWatched, EnqueueWatched DEF Next, Write
<1> QED  BY <1>1, <1>2, <1>3

\* A queued or running task is never left to nobody unless the code drops it
\* in a way that mishap marks: the safety half of EveryTaskSettles.
THEOREM NobodyForgets == Spec => []TasksAttended
<1>1. IInv /\ AInv => TasksAttended
  <2> SUFFICES ASSUME IInv, AInv, ~mishap, NEW t \in Tasks, task[t].status \in Active
               PROVE  Attended(t)
    BY DEF TasksAttended
  <2>1. job[t].status = "pending" \/ (job[t].status = "running" /\ Busy(job[t].by, t)) \/ Due(t)
    BY DEF AInv, InGoodHands, Watched
  <2> QED  BY <2>1 DEF Attended, Busy, Holds, Working, Saved, At, Due
<1>2. Init => AInv  BY Initially, TeamAssumption, WatchInitially
<1>3. IInv /\ IInv' /\ AInv /\ [Next]_vars => AInv'  BY WatchInductive
<1> QED  BY <1>1, <1>2, <1>3, Invariant, PTL DEF Spec
=============================================================================
