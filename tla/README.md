# FocusAgent: a TLA+ verification project

FocusAgent is a Python service that runs conversations with language-model
agents: threads that branch, turns that run a LangGraph graph, streamed runs
that clients may follow, reconnect to, supersede and cancel, background jobs in
a Postgres table, and teams of agents that share resources. This directory
models the parts of it where several actors meet: workers and a job table,
turns and thread locks, runs and the requests that cancel them, an event stream
and the clients that lose it, threads and a bounded queue, calls and a circuit
breaker, workers and users on the tasks of a team, reviewers and turns on a
branch. TLC checks every model on small instances; TLAPS proves the safety
properties of each for every value of the constants.

Paths below are relative to `src/focus_agent/` unless they begin with `docs/`,
`tests/` or `frontend-sdk/`. `PROJECT.json` lists runs, mutants, hazards, theorems and,
for every definition, the source lines it models.

## 1. The system

### Inventory

| Component | State it keeps | Operations | What is hard |
|---|---|---|---|
| Durable jobs: `services/background_work.py`, `services/coordination_postgres.py` | table `focus_background_jobs`, one row per key; per worker the claim at hand | enqueue (skip or replace), sweep and claim, mark running, heartbeat, succeed, fail with backoff, dead-letter, replay | leases that expire under a working holder, workers that die or cannot report, keys that are replaced while their handler runs |
| Best-effort queue: `BoundedBackgroundQueue` in `services/background_work.py` | a bounded queue, claims by key, worker threads, a closing flag | submit, dedupe, run, resubmit, release, close and drain | claims released by the wrong task, a full queue, calls that raise in a thread, shutdown against workers |
| Thread turn lease: `services/thread_turn_lease.py` | a lock row per thread; held/lost per lease; heartbeat threads | acquire, heartbeat, raise_if_lost, release; branch operations lock several threads | expiry under a slow holder, opposite lock orders, release after the row changed hands |
| Harness runs: `harness/runtime/runs.py`, `harness/runtime/rollback.py`, `api/routers/harness_runs/` | run records; a producer task per streamed run; the thread's checkpoint | create with a multitask strategy, cancel, cancel_thread, settle, roll back, set_status | a cancellation at every await, producers and requests that wait for one another, work left over in the graph's thread |
| Run stream: `harness/streaming/bridge.py`, `harness/observability/run_journal_bridge.py`, `frontend-sdk/src/client.ts` | a bounded buffer per run, a journal, per client the last event id | publish, end, clean up, journal, subscribe with replay, reconnect | the hand-over from journal to live stream, trimmed buffers, streams that come back after cleanup, process death |
| Rate limits: `services/coordination_memory.py`, `services/coordination_postgres.py` | the recent calls of a key, or a counter row | check | boundaries of the window |
| Circuit breaker: `harness/middleware/llm_error_handling.py` | failures in a row, opening time, the trial flag | before_call, record_success, record_failure, around a retry loop | reports of calls that began under another state, trials that never report |
| Run follow-ups: `harness/runtime/run_followups.py` | a queue of messages per thread, a drain task | enqueue, drain, coalesced wake-up | messages that arrive while the drain goes to sleep |
| Agent teams: `services/agent_team/run_*.py`, `repositories/postgres_agent_team_repository.py` | rows of tasks with a claim each, outputs, a session | schedule a wave, claim, run, renew, commit, retry, degrade, cancel | rows that are read, changed and saved whole by several processes; claims lost under a working task; three leases of one execution |
| Resource locks: `multi_agent/resource_lock.py` | claims with a TTL, a wait graph, fence tokens | try_acquire, heartbeat, release | partial acquisition; a claim renewed without its siblings |
| Approvals, message bus: `multi_agent/approval_queue.py`, `message_bus.py` | requests with an event; messages with acks | submit, decide, time out; send, ack, retry | a decision that races the timeout; acks of broadcasts |
| Branches: `services/branches/`, the checks of `services/chat/` | branch records, merge proposals, the merge queue of a thread | fork, talk, prepare a proposal, approve, discard, archive | checks made before the lock that protects them; runs that take no lock and commit a whole checkpoint; writes to two stores with a failure between them |
| Task graph: `multi_agent/dag_scheduler.py`, `failure_handler.py`, `conflict_detector.py` | none | next wave, retry decisions, conflicts of outputs | failed ancestors, tasks that share resources |
| Everything else: agent graph, chat turns' content, branch decisions, delegation, memory, tools, repositories, API, retrieval, skills, evaluation, clients | data | mostly sequential | mostly data; see section 7 |

### How they interact

A chat turn takes the **turn lease** of its thread, runs the agent graph under
it, asks `raise_if_lost` and answers; a branch operation takes the leases of
all its threads. A streamed **run** is created by a request through the
`RunManager`, which may cancel and roll back the runs before it; its producer
task publishes events to the **bridge**, which the journal wraps. (The streamed
runs, and the resumed and blocking ones of the same `/v2` routes, do not take the
turn lease; the run manager's table keeps them apart from one another, and nothing
from turns, proposals and imports on their thread.) Clients subscribe through the
journal to the bridge. After a turn,
compaction is scheduled on the **best-effort queue**, whose keys are claimed in the
same table the **durable jobs** live in. Every call to a model passes the
**circuit breaker**. The tasks of an **agent team** run as durable jobs, one key
per task; an execution holds the job's claim, the task's claim and a claim on
each of its resources, and looks at the second once before it commits, in writes of
their own that nothing fences. **Branch** operations and
chat turns share the turn leases of their threads, and nothing else keeps them
apart: neither the branch table nor the graph state is written conditionally.

### What makes each component correct

* Durable jobs: only the worker that holds the live claim settles a row; no row
  is stranded or given up early; every accepted job ends.
* Best-effort queue: at most one pending task per key, no key is lost, an
  accepted task runs, shutdown terminates.
* Turn lease: a turn that was not told of a loss owns its threads; sorted
  acquisition avoids mutual refusal; crashed owners do not lock a thread for ever.
* Harness runs: one active run, superseded producers are over first, rollback
  happens while the producer is held, everyone returns, successful work stays.
* Run stream: a client with a terminal event has every event before it, in
  order, exactly once; every client ends.
* Rate limit: no window is overfull, no needless refusal, honest retry time.
* Agent teams: no task before its dependencies, no two executions at once on a
  task or a resource, no outcome of an execution that was overtaken (but by a
  process that stood still after it had checked its claim), every queued task
  comes to rest.
* Branches: a conclusion is imported once, that of a merged branch is in its
  target and the branch stays merged, a proposal under review covers the whole
  branch, as long as leases last and no run writes past them.
* Breaker: open exactly after a run of failures; refuses for a trial only while
  there is one.

The `hazards` of `PROJECT.json` name, line by line, what can go wrong and the
property that would notice.

## 2. Plan

Built, in this order: `JobContract`, `BackgroundJobs`, `ThreadTurnLease`,
`HarnessRuns`, `RunStream`, `CircuitBreaker`, `RateLimit`, `BackgroundQueue`,
the proofs about jobs, leases and breaker, `AgentTeamTasks` (with the resource
claims and the decisions of the task graph it composes), `BranchMerge`, and the
proofs about both, and those about `HarnessRuns`, `BackgroundQueue` and
`RunStream`; then `TurnLock`, the contract of a thread's lock, with the proof that
the leases keep it, the proofs about `RateLimit`, and the safety halves of seven
of the liveness properties.

To come, most important first:

1. `RunFollowups`: queue, drain task, wake-up; property: no message waits while
   nobody is going to send it.
2. `HarnessRuns` with the stored copy of a run and the restart that reads it.
3. `ApprovalQueue`, `MessageBus`; the resource locks' wait graph and fence
   tokens; the conflict detector as an operator checked against a reference.

Modules written for proofs hold no recursive operator, keep records flat, and
name the parts of each invariant.

## 3. Modules and the code

An `MC*` module extends its component's module with what TLC needs (symmetry
sets, functions for constants, where there are any), and each `.cfg` is one instance. Definitions
named `X_Something` and commented as *Variant* are mistakes the code could have
made; `PROJECT.json` pairs each with the property that notices it. They take no part in
`Next`.

### BackgroundJobs, JobContract

`row` is the table; `worker[w]` is what `DurableBackgroundWorker.run_once` and
its heartbeat thread have in hand: the key, the claim token, and `lost`, the flag
the heartbeat sets. Each statement is an action: `Enqueue` (insert or replace
under its `WHERE`), `Claim` (the sweep of expired claims, `Swept`, and the select
of the due row are one transaction, so one step), `MarkRunning`, `Heartbeat`,
`Confirm` (the last heartbeat, by `_stop_job_claim_heartbeat`), `MarkSucceeded`,
`MarkFailed`, `Replay`. `BackendError` is any of them raising: the thread keeps
nothing, the row keeps its claim. `Crash` and `Restart` are of the process.
`Tick` lets time pass; `lease` and `delay` count down to `claimed_until` and
`run_at`. `epoch` is a history variable that tells two uses of a key apart.

Abstracted: payloads, error texts, `run_at`/`updated_at` ordering of the select
(any due row may come), clock skew, the statuses `failed` and `released` that
only the legacy path writes. The heartbeat that is still in flight when its
thread was not joined in time has no effect of its own: it is a `Heartbeat`
whose token does not match any more.

`JobContract` is what the table promises of a key: tried at most `MaxAttempts`
times, succeeded only after a try, given up only after the last.
`BackgroundJobs` implements it with `state` and `tries` computed from the row.

### BackgroundQueue

`queue` holds task numbers and stop marks; `keyOf[t]` is a task's key;
`holder` and `lapsed` are the key's row in Postgres; `claims` is
`_job_claims`; `giving` is the claim of a thread that has left the lock and is
about to call the backend. `Accept` is what `submit` does under its lock,
including the drop by a full queue; `Get`, `Start`, `Return`, `Report`,
`Release`, `Finish` are the stations of `_worker`; `LetGo` and `Resubmit` are the
post-turn compaction that finds its thread busy
(`services/chat/context_compaction.py:280-302`); `Break` and `BreakOff` are
calls that raise in the worker and in its `finally`; `Close`, `TellStop`,
`Complete` are the shutdown. `Lapse` lets a claim run out, which the queue never
renews. `outlived` and `kept` record for which keys that, or a raising release,
happened. `MaxTasks` also stands for the `attempt < 2` bound of resubmission.

### ThreadTurnLease

`lock` is the lock table, `turn[t]` a lease manager and the body under it, `due`
the time until each heartbeat thread wakes. `Acquire` and `Refused` enter the
threads of `Wants[t]` in sorted order (`_thread_write_leases`); `HeartbeatOnce`
renews or learns of the loss, `HeartbeatRaises` treats an error as a loss, as
the code does; `BodyEnds` asks `raise_if_lost` for turns in `Asking`; `Release`
deletes the row only of its owner; `ReleaseRaises` leaves it to expire. A
`Crash` stops a turn with everything it has. `Tick` may pass over a heartbeat
that is due, as when a process stands still; the history variable `late` records
that it did, since a lease may then be gone before its holder can know.

`TurnLock` is what the leases promise: an `owner` of each lock, and the locks a
turn trusts (`trusts`: held, not told of a loss, not on its way out). A trusted lock is
its turn's until a process has stalled. `LeasesAreLocks` maps the lock rows that are
live to `owner` and proves `KeepsLock`.

### HarnessRuns

One thread of one user. `run` are the `RunRecord`s, `body` the place of each
producer, `signal` a cancellation that was requested and not delivered, `op` the
requests: those that create a run (and supersede others) and those that cancel.
The sections under the manager's `asyncio` lock have no await, so each is one
action (`Create`, `Cancel`); between them a request picks a record, waits until
the rollback is due (`Due`), restores (`Restore`), reports (`Report`) and
settles (`Settle`, `AllSettled`). The producer starts, streams from the graph or
acts, and ends through `Finish`, `SignalReady`, `CloseStream`. A cancellation
reaches it at the next await (`DeliverCancel`): while it reads the graph it
first unwinds the generator; at a publish the graph's worker is left with its
step. `head` is the thread's checkpoint as the set of runs whose writes it
carries, `seen` what a graph started from, `target` what a rollback restores.
The history variable `lost` keeps the successful runs whose writes were taken
away: a leftover graph that saw them may bring them back, and they may go again.

`Overtaking` allows a run to be cancelled before its producer's task has taken
its first step (`NeverStarts`: asyncio never enters it); `Timeouts` allows the
waits of 2 s and 10 s to run out.

### RunStream

Event ids are numbers in the order of publishing. `streams` are the bridge's
buffers, each retaining `lo..hi`; `journal` is what was appended;
`producer` and `notice` are the two publishers (the run's producer, and the
request that publishes `run.interrupt`); `reader[r]` is a client with what the
server's subscription remembers for it. `hasty` is a history variable: a cleanup
came while something its delay is meant to outlast was under way. `Publish` puts an event on the bridge,
the append is a later step (`Journaled`), as in
`JournaledStreamBridge.publish`. A subscription replays the journal
(`Connect`, `Replay`, `Replayed`), checks whether the run is over (`EndReplay`,
`Over`), then follows the bridge (`Attach`, `Follow`, `StreamEnds`). `Cut` is the
network, `Stop` the client that runs out of reconnects, `Cleanup` the delayed
removal of an ended stream, `Crash` the death and restart of the process, which
loses the bridge and keeps the journal.

### CircuitBreaker

One action per method of the breaker, each under its lock, and the retry loop
of the middleware around them: `BeginClosed`, `BeginTrial`, `Refuse`
(`before_call`), `Succeed`, `Fail`, `Retry`, `TryAgain`, `Bubble` (a
cancellation or an exception that is not reported to the breaker). `lost` records
that a trial ended through `Bubble`.

### RateLimit

The sliding window of `InMemoryRateLimitBackend.check` for one key: `Admit`,
`Reject`; ages instead of times (`Age`). What is young enough (`Young`) is the end of
the list (`Recent`), as the oldest come first. `latest`, a history variable, keeps
the ages of the last `Limit + 1` admitted calls independently of what the backend
remembers; `promise` runs from the last `retry_after_seconds`.

### AgentTeamTasks

`task` is the task table and `live` the claims on tasks whose `claimed_until` is
to come; `job` is the job table, reduced to the jobs of tasks; `claims` are the
unexpired resource claims; `worker[e]` is a worker thread in
`run_task_claimed`, with its heartbeat thread (`beating`). `plan[s]` is what a
request, a next wave or a worker has read and is about to save: every row is read
in one step and saved whole in a later one (`Save`), as `update_task` does. The
worker goes through `TakeJob`, `ClaimTask`, `Acquire` (one resource at
a time) or `AcquireRefused`/`AcquireRaises`, `BeginBody`, `BodyReturns` or
`BodyRaises`. What it then commits are the separate transactions of
`run_orchestration.py:425-480`: `CheckClaim` (`heartbeat_task_claim`), `Record`
(`record_task_output`, an output and a row), `Update` (`update_task`), `Release`
(`release_task_claim`), with `Save` for the rows that two of them write back, and
leases that lapse, stalls, crashes and other actors between any two. `GiveUp` is the
way out after an exception or with a claim found lost; `LetGo` and `JobEnds`
follow. Users act through `RunReady`, `RunTask`, `RetryTask`, `CancelTask`, with
`Save` and `EnqueueDue` as second half; `CancelSession` reads the rows once,
`StopTask` saves them one by one and `SessionStopped` ends it. `Waves` are the sets
of tasks a scheduler may choose, with the task graph or without. `mishap` records
that the code has dropped a task in one of the ways section 6 lists.

Decisions: every actor is a process of its own, so the scheduler lock
(`services/agent_team/service.py:176-197`, an `RLock` of the process) excludes
nobody and every transaction of a worker is a step of its own. Three error paths
stay single steps: the release of resources and task after a refused resource
(`AcquireRefused`), the release and the new job after an exception (`GiveUp`), and
the refusal of a job with the task set back to PENDING (`EnqueueDue`). Leases have
no clock: one may lapse as soon as nobody tends it (`LeaseLapses`, `ClaimLapses`,
`JobLapses`), that is, when its worker is gone, has stalled, or works on a body without
a heartbeat; the steps between a body and its release are short, unless the
process stalls. A task's claim and a job's last
300 s, a resource's 60 s, with heartbeats every 15 s and 5 s, and a job's retry
waits 5 s more; this is why `JobLapses` waits for the other two. Processes stall
only while they execute a task. Errors of the backend are modelled at
`try_acquire` and at the heartbeats. The order of resources and of tasks in a
wave is left open.

### BranchMerge

`status`, `stored` are the branch record and the proposal in the repository;
`graph[t]` is the latest checkpoint of a thread: `said` counts the turns of its own,
which is all a proposal is known by, `shown` is the proposal in its state, `queue`
its merge queue; `holder` is the lease table with the leases of crashed holders
(`Dead`); `op[r]` a request with the checkpoint it works on (`seen`). `Ask*` make the
checks that come before the leases, `Lock`, `LockRefused` take them; `CreateFork`
is one write. A chat turn (under the lease) and a run of the `/v2` routes
(`AskRun`, without it) load the latest checkpoint (`Load`) and commit *that*
checkpoint with their turn, once (`WriteTurn`) or after each step (`WriteAgain`),
whatever the thread has become meanwhile; `RollBack` makes the checkpoint captured
for a run the latest one again (`harness/runtime/rollback.py`), also while its graph
still works. `Open`, `SaveProposal`, `AwaitReview`, `ShowProposal` are the steps of
`prepare_merge_proposal`, with `PrepareFails` (its `except`) and `FindingsFail`
(the call outside its `try`); `Decide`, then `Discard` or `Import` and `Close`,
those of `apply_merge_decision`, which change the latest checkpoint. `Fails` and
`Crash` stop a request between any two of them. `Lapse` is a lease that runs out
under its holder, who goes on: no branch operation calls `raise_if_lost`, and a turn
only when it has written.

Three history variables record what the code does not protect from, and the
properties say which of them they except. `lapsed`: the threads whose lease ran out
under a request. `raced` (operator `Raced`): the threads a run wrote to, or was rolled
back on, while a request held the lease, or over a checkpoint other than the one
it knows; a run that nobody meets is not in it, and has to keep the properties. `cut`:
the branches whose import was not followed by the MERGED status. `made` counts the
imports of a branch into a thread, so that one that was written over is still known.

## 4. Runs

| Run | Instance | What it shows |
|---|---|---|
| `jobs` | 2 keys, 2 workers, 2 attempts, lease of 2 ticks, backoff 1, start delays 0 and 1, 2 enqueues or replays, 1 crash | `ClaimIsCurrent`, `NeverStranded`, `NoStaleSuccess`, `LeaseProtectsHolder`, refinement of `JobContract` (`KeepsContract`), and under fairness `EveryJobSettles` |
| `turns` | 2 threads; a branch operation and a turn that asks, both on both threads; TTL 2, heartbeat every tick, errors, deaths and stalls | `NotLostMeansHeld`, `SomeTurnRuns`, `AnswersAreExclusive`, and under fairness `ThreadsComeFree` |
| `runs` | 3 runs of all strategies, 1 cancel request, streams and branch actions | `OneActive`, `ProducersApart`, `RollbackWhileHeld`, `StreamCancelIsFinal`, `SuccessStays` |
| `runs_live` | 2 runs, streamed or blocking, 1 cancel request, cancellation before the first step, waits that run out | `StreamsClose`, `RequestsReturn` |
| `runs_overtaken` | 3 streams, cancelled before their first step too | the counterexample to `OneActive` (section 6) |
| `stream` | 1 client, up to 6 events, a buffer of 2, 2 cuts, 1 reconnect; cancellation, a death of the process, cleanups at any time | `CompleteMeansAll`, `InOrder`, `IncompleteNeedsCuts`, and under fairness `ReadersEnd` |
| `rate` | limit 4, window of 6 ticks | `WithinLimit`, `NoNeedlessRefusal`, `RetryAfterHolds` |
| `queue` | 2 workers, 1 caller, 2 keys, a queue of 1, 3 tasks, 1 key whose claims run out | `OnePending`, `KeysComeBack`, `Drains`, `AcceptedRun` |
| `breaker` | 3 calls, threshold 2, recovery 2 ticks, 1 retry | `OpenIffFailing`, `TrialInFlight`, `KeepsAccepting` |
| `teams` | 2 tasks in a chain on one resource, 2 workers, 2 users, any 2 requests or faults, all flags on | `DependenciesFirst`, `BodiesApart`, `NewestClaimWrites`, and under fairness `EveryTaskSettles` |
| `branches` | a branch and a branch of it, 2 requests at a time, chat turns and runs, 1 turn, 2 imports per thread, crashes, failures, rollbacks, 1 lapsed lease, run that writes in between or import cut off | `ImportedOnce`, `ImportedIsClosed`, `MergedMeansImported`, `MergedForever`, `ReviewIsCurrent` |
| `branches_readonly` | the same, both branches talked in and merged, no mishap | the counterexample to `MergedIsReadOnly` (section 6) |

The type invariants run with no instance: they are proved (section 5).

Six safety properties are proved and run with no instance here either; TLC has
checked each, with its inductive invariant, on the instances above or on larger ones:
`KeepsLock`, `LostHeld`, `SubscribersServed`, `TasksAttended`, `StopsWhenDrained`,
`WaitsAreServed`.

### Bounds, and why they are enough

* `jobs`: two attempts are the least with both a retry and a dead letter; a
  lease of two ticks lets a heartbeat come in the middle of it; two enqueues let a key
  be replaced or replayed while its first use is under way; two workers are
  the old and the new holder of a row; a second key lets one worker be busy
  elsewhere. Counters that only grow (`nextToken`, `epoch`) are bounded by
  `MaxEnqueues` times `MaxAttempts`.
* `turns`: opposite orders need two turns and two threads; one of the two asks,
  the other does not, and with one heartbeat in the middle of a lease each turn
  can be late, overtaken, or told in time.
* `runs`: a supersession of a supersession needs three runs; a cancel request
  may meet any of them. The live run is smaller as TLC's liveness check has no
  symmetry; the cycle that is looked for there has one producer and one or two
  requests in it.
* `stream`: a buffer smaller than the run makes a client fall behind; two cuts
  exceed the reconnect budget of one by one. Clients meet only in the stream
  one of them opens, and one that reconnects opens it as well.
* `queue`: three tasks of a key are the least for a successor's successor; a
  queue of one is full at once.
* `breaker`: two calls make a threshold, the third is the one that was let in
  before.
* `teams`: a dependency and a conflict need two tasks, an overtaken execution
  two workers. Two users may race each other and the workers, and any request or
  fault may come at every step. One counter, `MaxEvents`, bounds requests
  and faults together: two requests, or a request and a fault, as nothing happens
  before the first request. A job has two durable tries on top, each a new claim, so
  an execution can be overtaken by either. Nothing else is bounded: tokens and
  attempts follow from these. Longer histories are left to the proofs (section 5),
  which bound nothing.
* `branches`: two targets need a branch whose parent is a branch; every race here
  is of two requests. One turn makes a proposal stale, a second import is one
  too many. The outer branch (`b2`) is the one talked in and merged, its parent and
  the root are its targets. `MaxMishaps` bounds lapsed and raced threads and cut
  imports together; with one of them, every property is checked about the threads
  it did *not* befall. `Calm` keeps a lease from running out twice under living holders and
  a request from crashing while a dead holder's lease lasts: without it TLC visits
  6.3 million states instead of 3.6 million, and finds nothing else. The proofs
  hold for any number of mishaps, and without `Calm`. Requests are
  interchangeable (symmetry, no liveness).

Deadlock is checked for `jobs`, `turns`, `runs`, `runs_overtaken`, `rate`,
`branches` and `branches_readonly` (`Terminated` is the stuttering of a system that
has nothing left to do). It is off for `runs_live`, whose closing state may be
one where a stream that was cancelled before it began is left; for `stream`,
`queue`, `breaker` and `teams` the system really stops: the clients are
through, the queue is closed, all callers were refused for a trial that was
cancelled, or the user has nothing more to ask.

### Fairness

* `BackgroundJobs`: weak fairness of each polling loop, of handlers coming to
  an end, of reports, of the restart of a dead process, and of time. The loop of
  `DurableBackgroundWorker._loop` polls for ever. None for producers,
  heartbeats or errors: a job settles however unlucky its workers are, because
  attempts are finite.
* `ThreadTurnLease`: bodies end (turns have their own timeouts), `with` statements
  unwind, heartbeat threads run, time passes. No fairness for answers.
* `HarnessRuns`: the event loop runs what is ready, and a graph that is left
  alone comes to its end (model requests have timeouts). None for requests
  that create or cancel. That a wait runs out is assumed only of a request whose
  producer is over without having reached its `finally`; everybody else has to
  get on without (`ProducerWaits`, `RequestWaits`).
* `RunStream`: publishers and subscriptions proceed; nothing forces the network to
  cut, or the client to come back.
* `BackgroundQueue`: threads run and tasks return; nobody needs to submit or close.
* `CircuitBreaker`: time passes and attempts return; nobody needs to call.
* `AgentTeamTasks`: workers poll and bodies end (they run under timeouts), a
  request that has begun to write goes on, leases nobody renews lapse. None for
  users, faults, stalls or heartbeats.

## 5. Proofs

TLAPS checks `BackgroundJobsProofs`, `CoordinationProofs`,
`CircuitBreakerProofs`, `AgentTeamTasksProofs`, `BranchMergeProofs`,
`HarnessRunsProofs`, `BackgroundQueueProofs` and `RunStreamProofs`; they hold for any
sets of jobs, workers, turns, threads, callers, keys, tasks, resources, branches, runs,
requests and clients and any bounds that satisfy the named assumptions of the modules
(`JobsAssumption`: positive attempts and lease, natural delays with
`BaseDelay <= MaxDelay`; `LeaseAssumption`: threads are numbers, every turn wants
some, the heartbeat interval is below the lease, as
`min(TTL / 3, configured)` makes it; `BreakerAssumption`: a positive threshold;
`TeamAssumption`: the types of the parameters, and workers are not users;
`RateAssumption`: a positive limit and window; `QueueAssumption` and
`StreamAssumption`: some capacity, finitely many worker threads, a buffer of some size; the
four of `BranchMerge`: the root is no branch, parents are threads, `Nobody` and
`Dead` are no requests).

**Durable jobs.** `TypeCorrect`, `Fencing`, `NotStranded`, `NoStale`,
`LeaseProtects`, and `Implements`: the table implements `JobContract`.
`ClaimIsCurrent` is not inductive: it speaks of holders only and says nothing of
tokens that may come to match a row again. `IInv` adds that every token in a row or in a worker's
hand is below `nextToken` and that no two workers hold the same one
(`TokensDistinct`), that a row's token, when a worker has it, was drawn for the
present `epoch` (`TokenCurrent`), and which token, attempt and status go
together (`RowsOK`). The lemma `QuietStep` covers every action that hands out no
token; only `Claim` needs an argument of its own. The action properties and
each step of the refinement follow from `IInv` case by case over `Next`.

**Turn leases.** `NotLostHeld` needs that the lease outlives the next heartbeat:
`left >= due + (TTL - Interval)` for every lease that beats
(`LeaseOutlivesDue`), until the first tick that is `late`. `OneRuns` needs the argument why sorted acquisition
works: `SomeoneAhead` says that whenever a turn was refused, some turn
that was not refused either got everything or holds a thread beyond every live row of the refused
one. `AnswersExclusive` and `LocksRespected` (a live lock
goes only when its owner releases it, stalls or not) are action properties.
`OnlyTheLiving` is the safety half of `ThreadsComeFree`: the time of a lock goes up
only for a turn whose heartbeat still beats, so that of a dead owner runs out.
`LeasesAreLocks` shows that every step is one of `TurnLock` or leaves it unchanged. It
needs that only what a turn holds is reported lost to it (`LostHeldInvariance`).
`LockExclusive` is about the contract alone: whatever keeps it gives each trusted
lock to one turn, until a process stalls.

**Rate limit.** `WithinLimit` says that the call before the last `Limit` ones has
left the window; it is no claim about what the backend remembers, so `RateInv` ties
the two together. `Remembered`: what the backend has are the latest calls it admitted, in
order, and a call it has dropped is as old as the window. `LatestFirst`: the later, the younger; so the young ones are
the end of the list, and as many as `Young` counts (the one argument about
cardinalities: an upper interval of `1..n`). `PromiseKept`: a promise lasts at
least until the `Limit`-th latest call leaves the window. `LimitKept`,
`RefusedOnlyWhenFull` and `RetryAdmitted` follow.

**Circuit breaker.** `OpensOnFailures` is inductive with the type invariant;
`TrialsInFlight` needs that only a call under way is marked as a trial
(`ProbesRun`), so that a report that clears the flag leaves no trial unaccounted for.

**Agent teams.** None of the three safety properties is inductive. `BodiesApart`
holds because the job, not the claim on the task, keeps two workers from one
task: a cancellation or a row saved late may take the claim away and a second
worker could claim the task, but it would need its job. So `JobsOK` says that a worker
that does not stall has the job of its task, and that one that does not stall, or whose
token is live (`Current`), has both the job and the newest claim. `NewestClaimWrites`
follows: from the check of its claim on, through writes that nothing
fences, an execution is the newest as long as its process runs; one that stalls may lose
its job first, and this is why the property leaves it out. `WritersOK` says which
row a worker has read and where it is when it saves it, `OutputsOK` that who is to write
DONE has recorded an output; and
`ClaimsOK` that the resources of an execution under renewal are in the table, for
one task at a time. `DependenciesFirst` needs that rows that were *read* stay
good: `DepsOK` says of the table and of every pending write that a task it
queues has its dependencies delivered, and as `results` only grows, saving
late does no harm here.
`NobodyForgets` (`TasksAttended`) is the safety half of `EveryTaskSettles`: a task that is queued or
running has a job that waits, a worker that is not yet done with its job, or a
request that is about to enqueue it, unless `mishap`. `AInv` says while there was no
mishap that the token of a row is the newest or none, that a live token is that of the worker
that has the job (`TokenKept`, `LeaseOwned`), and that who ends a job leaves its task at
rest or to a request (`FinalsOK`, `PlansOK`, `InGoodHands`). It is inductive over every
scheduling mode and any number of crashes and faults.

**Branches.** `IInv` says what a request knows while its lease has not
run out: it holds the lease of its branch (`Holds`), so the status it
set and the proposal it stored are still so (`Knows`); unless a run raced with it, the
checkpoint it works on is the latest one (`Sees`), so what it commits takes nothing
away and the turns it read are all there are; and what it is about to close is in the
queue of the target (`HasImported`), unless that thread is lapsed or raced. Runs hold no
lease, so nothing is said of what they know; what is said is what they do to the
others. `Frame` says once for all actions what a step of a request leaves alone:
the rows of branches it is not at work on (`RowsKept`), the leases of others
(`LeasesKept`), the checkpoints these cover (`CheckpointsKept`) and every queue
(`QueuesStay`), the last two but for the threads it makes lapsed or raced. For a run
this is so by what `Raced` looks at when it writes: it leaves a thread that nobody
holds and that is as the run knows it. The properties are stated of every tree of
branches, so also of conclusions of conclusions.

**Harness runs.** The theorems but two assume `Orderly`: cancellations reach producers
that have started (otherwise `runs_overtaken` refutes `OneActive`). Waits may run out and
blocking calls may take part, except where they matter: `RestoredWhileHeld` assumes that no
wait runs out, as one that does restores while the producer still works, and
`SuccessIsKept` that no run is a blocking call, as that one reports success after it was
superseded (section 6), when its writes are nobody's to keep. None of the five
properties is inductive. `Life` ties a run's status to the places of its request,
its producer and its cancellation: a run whose status is running has a producer at
work, and one whose producer works on after an interruption has a cancellation on
the way, or is in an action that swallows it and looks at the status afterwards. From it follow
`OneActive` (a new run finds each run in flight, and ends it in the same step) and
`StreamCancelIsFinal`. `RequestOK` and `Apart` say of a request that the runs it
still has to roll back are its own and their producers wait for it
(`RollbackWhileHeld`), and that it settles all it superseded (`Succeeded`, which is
`ProducersApart`). `SuccessStays` needs what checkpoints know of one another:
`Written` says that only a graph that began has writes, and that nobody started from
those of a run in flight; `Builds` that a graph in flight, and the target of a
rollback to come, carry the writes of every successful run that is still there.
It is `lost` that makes this inductive: with five runs, writes that
were taken away can come back with a leftover graph, and then `Builds` no longer holds of them.
`NobodyWaitsInVain` (`WaitsAreServed`) and `TypeCorrect` assume nothing: runs may be cancelled
at any time. Three kinds of waiting could close a ring (a request for a producer to
reach its `finally`, a producer there for its rollback, a request that settles for
tasks), and each is shown to be served, the safety half of `StreamsClose` and of
`RequestsReturn`. `WaitInv` is small: `Place` says that `rollback_ready` is unset only of a
producer on its way to its `finally` clause, or over without it; `Tended` that a
rollback that is not completed is in the hands of some request, although two requests may have
the same victim by then; and `Awaited` that a request settles what has a task.

**Best-effort queue.** `OnePending` follows from `Owns`: a pending task of a key
that no task outlived has both claims of the key, the row (`holder`) and the entry in
`_job_claims` (`claims`), so a second one would have to be the same. `Owns` is kept
because a claim is let go only for a task that is past its run, which needs that
a task is queued once or with one worker (`WorkerOK`, `QueuedOnce`), and that a
claim on its way back from `release_job_key` is not that of a pending task
(`GivingOK`): `release_job_key` reads whatever claim the key has by then, and
only because `Owns` says it is the caller's does it give back the right one.
The lemma `NoneAccepted` covers every step but the acceptance of a task.
The shutdown has an invariant of its own, `DInv`: every entry of the queue and every
task in hand is counted in `unfinished` (`Counted`, which is why the worker threads
have to be finitely many), and no task is behind an order to stop, as `submit`
refuses before the first one is put (`StopsLast`). `DrainedWhenStopped` follows, the
safety half of `Drains`: a thread that stopped, or a shutdown that is complete,
leaves no task in the queue, whatever threads died before. `TypeCorrect` includes the size of the queue.

**Run stream.** `Complete` and `Ordered` are of a run that nobody cancels, whether
the process dies or not. A client that never fell behind the buffer has exactly the events
`1..last` (`Gapless`), and what it is given next is at most `last + 1`: the rest of the journal
begins there or before (`TodoOK`), because a journal without cancellations holds the
events in their order and lacks at most the one that is on its way (`JournalOK`), and a
subscription to the bridge resumes behind the last event replayed, or the stream begins
later and the client is `behind`. `NoGap` says of a single event that this keeps a client without
gaps, `OneMoves` and `ConnectionEnds` carry it to the steps of a client, however its
connection ended. The order across connections (`Advances`) comes with it: a step takes
no event but `last + 1`. `LetDownOnce` (`IncompleteNeedsCuts`) is of clients that fell behind as well, and
until the process dies. `BridgeOK` says that the bridge drops a stream only when
run.closed has ended it, so that a connection the server ends without a terminal event
ends after run.closed; from then on the journal holds the outcome, beyond anything
such a client has seen, and its next connection will replay it (`OutcomeAhead`).
`Spent` counts: a client has ended one connection more than it was cut off at most, and
then only so.
`NobodyStranded` (`SubscribersServed`) is of cancelled runs too: whoever reads a stream of the bridge reads one
that has ended, or the one the producer will end, the safety half of `ReadersEnd`. `SInv` adds, until a cleanup was hasty or the process died, that the stream of a producer that
is through has ended or is gone, when no cancel request is on its way to it any more
(`ServerOK`), and that a client about to subscribe knows that it is gone
(`InformedOK`), so that it opens no new one.
`SizesKept` and `TypeCorrect` are of every run, cancelled or not, and of any sizes. That the
journal holds no event twice is not a matter of types: whoever is to append an event (the
producer, the request that cancels the run, an append whose publisher was cancelled) is
the only one to have it (`Coming`, `ComingOK`), and the journal has it not yet
(`JournalSound`). The buffer retains `Maxsize` events at most (`WindowsOK`), and no
client knows of an event or a stream that is still to come (`Inside`).

### Only model-checked

Liveness (`EveryJobSettles`, `ThreadsComeFree`, `StreamsClose`, `RequestsReturn`,
`ReadersEnd`, `Drains`, `AcceptedRun`, `KeepsAccepting`, `EveryTaskSettles`) is out
of the prover's reach, which has neither ENABLED nor fairness rules. The safety
halves of seven of them are proved: `NotStranded`, `OnlyTheLiving`, `NobodyStranded`,
`DrainedWhenStopped`, `NobodyForgets` and, for two of them, `NobodyWaitsInVain`. Every other property of a run that is expected to
hold is stated by a theorem.

## 6. Where the code does less than it says

* `runs_overtaken` (a finding): a run superseded before its producer started is set
  back to `running` by that producer (`runs.py:304` writes unconditionally), so
  two runs of a thread are active. The other safety run of the module
  (`runs`) therefore states what holds when cancellations reach only started
  producers.
* A run whose task is cancelled before its first step never enters its `finally`,
  and its stream is never closed (`runs.py:426`); `StreamsClose` is the promise
  that is kept, of runs whose task has begun.
* Two ways in which a successful run loses its writes are spelled out in
  `SuccessStays`: a graph that was left a step commits late
  (`replay_helpers.py:488`), and a cancel request with rollback restores after
  a new run, which saw no conflict, already succeeded (`runs.py:341`).
* A cancelled trial leaves the breaker refusing for ever
  (`llm_error_handling.py:199`); a late failure frees the place of a trial in
  flight (`:70`), so there may be two. `TrialInFlight` and `KeepsAccepting` except the first by
  `lost`.
* After the death of the process nobody settles the run's record, and a
  client that reconnects follows a stream that never ends
  (`run_journal_bridge.py:69`); `ReadersEnd` leaves it out. An event whose
  publisher is cancelled during the append may reach the bridge and not the
  journal (`:31`), or reach it after a later one, and a client that comes between may
  be told that the run is over before the journal has its end:
  `CompleteMeansAll`, `InOrder` and `IncompleteNeedsCuts` leave cancelled runs out.
* A client that fell behind the buffer and reconnects with an event the journal has
  not yet is sent the history from the start, and so takes the events it lost after
  later ones (`run_journal_helpers.py:53-59`); `InOrder` leaves it out.
* A blocking run has no task, ignores its cancellation and reports success
  (`replay_execution.py:315`); `StreamCancelIsFinal` is of graph streams.
* The shared rate limit compares a count that stops at the limit with the limit
  and never refuses (`coordination_postgres.py:73`). It is not modelled.
* The in-memory job keys are released whatever the claim
  (`coordination_memory.py:108`). Not modelled; `OnePending` is of Postgres.
* `branches_readonly` (a finding): whether a branch may be written is looked up
  before its lease is taken (`context_compaction.py:70`, likewise for turns and
  branch actions), or before a run that takes none (`replay_payloads.py:57`), and
  an import does not look at its target, so a turn, a run or a
  nested conclusion lands in a branch that was merged meanwhile, where nobody will
  import it again. `docs/architecture.md:523` says that merged branches are
  read-only.
* The runs of the `/v2` routes take no turn lease (`replay_streaming.py:323`,
  `replay_execution.py:302`). One in flight on a branch while its proposal is made adds
  turns that the proposal does not cover. One in flight on the target of an import
  commits the checkpoint it loaded before the import, and the rollback of a run
  (`rollback.py:127`) restores the one captured before it: the branch is MERGED and
  its conclusion is nowhere. A chat turn whose lease ran out does the same, as
  `raise_if_lost` is asked after the graph has committed. All of this happens in the
  model; `ReviewIsCurrent` and `MergedMeansImported` leave out the threads it
  happened to (`raced`, `lapsed`), and so promise nothing of the code there.
* A request that crashes or fails between the import and the MERGED status
  (`merge.py:307`) leaves a branch that may be approved again, and is
  imported twice, or discarded after all. A lease that runs out under a request
  has the same effect, as no branch operation asks whether it lost it.
* A preparation that fails sets the branch to ACTIVE whatever it was, and keeps
  the stored proposal, which can be approved; one that fails before its `try`
  (`merge.py:59-62`) leaves the branch PREPARING. Discarded branches can
  be prepared and approved. A reviewer's decision does not name the proposal it saw.
* A task that is to be tried again after its body raised is set to QUEUED and its job
  refused, because the job that is running it is still there
  (`run_orchestration.py:372`): it stays QUEUED with nobody to run it.
  `docs/agent-team-workbench.md:344` says that no `queued` task without an
  executor may be left; `EveryTaskSettles` counts this as a mishap.
* `execute_task_body` sets a task RUNNING whosever it is by then
  (`run_execution.py:137-144`), and a claim found lost at the commit is not given
  back, as `docs/agent-team-workbench.md:349` has it: `release_task_claim` finds
  nothing and the task stays RUNNING. A row that was read, and saved whole later,
  brings a finished task back to RUNNING (cancel) or drops the job of one that
  was retried twice. All are mishaps.
* An error at the second `try_acquire` (`run_execution.py:441`) leaves the first
  claim to its TTL and the task RUNNING. A task refused for a resource waits as
  PENDING until some other task is DONE: nobody announces a free resource.
* With the task graph on, BLOCKED tasks take places in a wave and are dropped from
  it afterwards (`run_orchestration.py:137-141`), so that a wave may be empty
  while tasks are ready.
* The claim of an execution is checked once (`run_orchestration.py:426`) and the
  output, the row and the release are written after it in transactions of their own.
  A process that stalls in between past its leases writes the outcome of an
  overtaken execution over its successor's row, and may leave a task RUNNING or
  QUEUED that was finished. `NewestClaimWrites` leaves out such processes, and
  `EveryTaskSettles` counts what they do as a mishap. `docs/agent-team-workbench.md:349`
  says that a result cannot be written once the claim was lost.
* A degraded output is recorded without a look at the claim;
  `NewestClaimWrites` is of the others.

## 7. Not modelled

* In-memory job store, legacy job statuses, clock skew, metrics, delayed
  starts, the end of a process with daemon threads in it.
* Harness runs: persisted records, restart, follow-ups, several users of
  a thread, the cleanup of records (never called). Journal of rollback outcomes:
  publications between the steps of a rollback are only suspension points.
* Run stream: heartbeats, bridge shutdown, the stream proxy, remote clients other
  than the SDK's reconnecting one.
* Rate limit: the Postgres bucket (above), the clock read before the lock.
* Breaker: a threshold of zero, which disables it.
* Agent teams: the status of the session, the endpoint that sets the status of
  a task, workers of the best-effort queue, the cycle check of the task graph, the
  conflict detector, the maintenance sweep, approvals that resume a task. Plain
  waves (the task graph off) are proved about, and not run.
* Resource locks: shared mode, the wait graph, fence tokens and claims
  across sessions.
* Branches: what a branch inherits from its parent's checkpoint when it is forked
  (turns and imports are counted of each thread's own), branch actions within a run,
  archiving and renaming (nothing here reads them), the copy of the status
  in the graph, the content of proposals and decisions, the backfill of import
  records by the preflight, which writes without a lease.
* Components planned in section 2: follow-ups, approvals, message bus.
* Agent graph, chat content, branch decisions, delegation, subagents, memory, tools,
  repositories, API and authentication, retrieval, skills, evaluation,
  observability, clients: sequential code over data, input and output, or
  concurrency that is already in the models above.
