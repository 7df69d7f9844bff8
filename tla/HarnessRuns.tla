---------------------------- MODULE HarnessRuns ----------------------------
(***************************************************************************)
(* The runs of one conversation thread: the RunManager                     *)
(* (harness/runtime/runs.py), the requests that create runs, the producer  *)
(* task of a run (api/routers/harness_runs/replay_streaming.py), the       *)
(* requests and disconnects that cancel runs, and the rollback of the      *)
(* thread's checkpoint (harness/runtime/rollback.py).                      *)
(*                                                                         *)
(* Everything but the graph runs on one event loop: an action is what      *)
(* happens between two awaits.  The graph works in a thread of its own.    *)
(* A checkpoint is the set of the runs whose writes it carries.            *)
(***************************************************************************)
EXTENDS Naturals

CONSTANTS
  Runs,        \* the requests that create a run, and their runs
  Cancellers,  \* cancel requests and stream disconnects
  Kinds,       \* kinds of run: a graph stream, a branch action, a blocking call
  Strategies,  \* multitask strategies
  NoRun,
  Overtaking,  \* may a run be cancelled before its producer has started?
  Timeouts     \* may the 2 s and 10 s waits run out?

ASSUME RunsAssumption ==
  /\ Kinds \subseteq {"stream", "action", "blocking"}
  /\ Strategies \subseteq {"reject", "interrupt", "rollback"}
  /\ NoRun \notin Runs
  /\ Runs \intersect Cancellers = {}
  /\ Overtaking \in BOOLEAN /\ Timeouts \in BOOLEAN

VARIABLES
  run,      \* [Runs -> the run's record]
  kind,     \* [Runs -> its kind]
  body,     \* [Runs -> where its producer is]
  signal,   \* the runs whose task has a cancellation to be delivered
  closed,   \* the runs whose stream is closed
  op,       \* [Runs \union Cancellers -> the request: pc, victims, todo, cur, tasks]
  graph,    \* [Runs -> the graph's worker: "idle", "stepping", "over"]
  head,     \* the thread's checkpoint
  seen,     \* [Runs -> the checkpoint its graph started from]
  target,   \* [Runs -> its rollback target]
  lost      \* history: the runs that succeeded and whose writes were taken away

runVars == <<run, kind>>
taskVars == <<body, signal, closed>>
threadVars == <<graph, head, seen, target, lost>>
vars == <<runVars, taskVars, op, threadVars>>

Ops == Runs \union Cancellers

Inflight(r) == run[r].status \in {"pending", "running"}
\* record.task is set, and not done.
TaskRunning(r) == kind[r] # "blocking" /\ body[r] \notin {"none", "done"}
Working(r) == body[r] \in {"started", "acting", "streaming"}

Absent == [status |-> "absent", abort |-> FALSE, action |-> "interrupt",
           ready |-> TRUE, completed |-> TRUE]
\* A request supersedes or cancels victims, rolls back those in todo one by one
\* (cur is the one at hand) and waits for tasks.
Rolling(V, T) ==
  [pc |-> "rolling", victims |-> V, todo |-> T, cur |-> NoRun, tasks |-> {}]
Idle == [Rolling({}, {}) EXCEPT !.pc = "idle"]

Init ==
  /\ run = [r \in Runs |-> Absent]
  /\ kind = [r \in Runs |-> "none"]
  /\ body = [r \in Runs |-> "none"]
  /\ signal = {} /\ closed = {}
  /\ op = [p \in Ops |-> Idle]
  /\ graph = [r \in Runs |-> "idle"]
  /\ head = {}
  /\ seen = [r \in Runs |-> {}]
  /\ target = [r \in Runs |-> {}]
  /\ lost = {}

SetStatus(r, s) == run' = [run EXCEPT ![r].status = s]
Goto(r, pc) == body' = [body EXCEPT ![r] = pc]
Losing == {r \in head \ head' : run[r].status = "success"}

-----------------------------------------------------------------------------
(* Creating and cancelling: the sections under the manager's lock. *)

\* Variant: the rollback of a running task need not wait for it.
CancelledRecord_Ready(r, a) ==
  [status |-> "interrupted", abort |-> TRUE, action |-> a,
   ready |-> TRUE, completed |-> a # "rollback"]

\* _cancel_record: a rollback is due at once unless a task is running.
CancelledRecord(r, a) ==
  [status |-> "interrupted", abort |-> TRUE, action |-> a,
   ready |-> a # "rollback" \/ ~TaskRunning(r), completed |-> a # "rollback"]

\* Whether the producers of the runs have started, when that is required.
Underway(V) == Overtaking \/ \A v \in V : body[v] \notin {"none", "scheduled"}

\* Variant: the conflict is only looked for among the running runs.
Conflicts_Running == {v \in Runs : run[v].status = "running"}

\* The runs of the thread that are in flight.
Conflicts == {v \in Runs : Inflight(v)}

\* create_or_reject up to the release of the lock; the rollback target was
\* captured just before it, without an await in between.
Create(r, k, s) ==
  /\ op[r].pc = "idle"
  /\ s = "reject" => Conflicts = {}
  /\ Underway(Conflicts)
  /\ run' = [v \in Runs |->
               IF v = r THEN [Absent EXCEPT !.status = "pending"]
               ELSE IF v \in Conflicts THEN CancelledRecord(v, s) ELSE run[v]]
  /\ signal' = signal \union {v \in Conflicts : TaskRunning(v)}
  /\ kind' = [kind EXCEPT ![r] = k]
  /\ target' = [target EXCEPT ![r] = head]
  /\ op' = [op EXCEPT ![r] = Rolling(Conflicts, IF s = "rollback" THEN Conflicts ELSE {})]
  /\ UNCHANGED <<body, closed, graph, head, seen, lost>>

\* RunConflictError.
CreateConflicts(r) ==
  /\ op[r].pc = "idle"
  /\ "reject" \in Strategies /\ Conflicts # {}
  /\ op' = [op EXCEPT ![r].pc = "done"]
  /\ UNCHANGED <<runVars, taskVars, threadVars>>

\* cancel of one run or cancel_thread.  Only a rollback is waited for.
Cancel(c, V, a) ==
  /\ op[c].pc = "idle"
  /\ V # {} /\ V \subseteq Conflicts
  /\ V = Conflicts \/ \E v \in V : V = {v}
  /\ Underway(V)
  /\ run' = [v \in Runs |-> IF v \in V THEN CancelledRecord(v, a) ELSE run[v]]
  /\ signal' = signal \union {v \in V : TaskRunning(v)}
  /\ op' = [op EXCEPT ![c] = IF a = "rollback" THEN Rolling(V, V) ELSE [Idle EXCEPT !.pc = "done"]]
  /\ UNCHANGED <<kind, body, closed, threadVars>>

-----------------------------------------------------------------------------
(* Rolling back and settling the victims of a request. *)

\* _rollback_records turns to the next record.
PickRecord(p, v) ==
  /\ op[p].pc = "rolling" /\ op[p].cur = NoRun /\ v \in op[p].todo
  /\ IF run[v].action = "rollback"
       THEN /\ op' = [op EXCEPT ![p].cur = v, ![p].todo = @ \ {v}]
            /\ run' = [run EXCEPT ![v].completed = FALSE]
       ELSE /\ op' = [op EXCEPT ![p].todo = @ \ {v}]
            /\ run' = [run EXCEPT ![v] = [@ EXCEPT !.ready = TRUE, !.completed = TRUE]]
  /\ UNCHANGED <<kind, taskVars, threadVars>>

\* _await_rollback_ready is over.
Due(v) == run[v].ready \/ Timeouts

\* The producer is in its finally clause, or 10 s are over: the handler
\* restores the captured checkpoint, or cannot.
Restore(p) ==
  LET v == op[p].cur IN
  /\ op[p].pc = "rolling" /\ v # NoRun
  /\ Due(v)
  /\ op' = [op EXCEPT ![p].pc = "reporting"]
  /\ head' \in {target[v], head} /\ lost' = lost \union Losing
  /\ UNCHANGED <<runVars, taskVars, graph, seen, target>>

\* Variant: the producer is not told.
Report_Forgets(p) ==
  /\ op[p].pc = "reporting"
  /\ op' = [op EXCEPT ![p] = [@ EXCEPT !.pc = "rolling", !.cur = NoRun]]
  /\ UNCHANGED <<runVars, taskVars, threadVars>>

\* The outcome is recorded and published, then the producer may close.
Report(p) ==
  /\ op[p].pc = "reporting"
  /\ run' = [run EXCEPT ![op[p].cur].completed = TRUE]
  /\ op' = [op EXCEPT ![p] = [@ EXCEPT !.pc = "rolling", !.cur = NoRun]]
  /\ UNCHANGED <<kind, taskVars, threadVars>>

\* Those of the runs that have a task.
Tasks(V) == {v \in V : kind[v] # "blocking" /\ body[v] # "none"}

\* _settle_records looks at the tasks there are.
Settle(p) ==
  /\ op[p].pc = "rolling" /\ op[p].cur = NoRun /\ op[p].todo = {}
  /\ op' = [op EXCEPT ![p] = [@ EXCEPT !.pc = "settling", !.tasks = Tasks(op[p].victims)]]
  /\ UNCHANGED <<runVars, taskVars, threadVars>>

\* Variant: the tasks are not waited for.
AllSettled_NotAwaited(p) == op[p].pc = "settling"

AllSettled(p) == op[p].pc = "settling" /\ \A v \in op[p].tasks : body[v] = "done"

\* A cancel request returns.
Return(c) ==
  /\ AllSettled(c)
  /\ op' = [op EXCEPT ![c].pc = "done"]
  /\ UNCHANGED <<runVars, taskVars, threadVars>>

\* create_or_reject returns: the producer's task is created and attached, or
\* the blocking call sets its run to running and invokes the graph.
Launch(r) ==
  /\ AllSettled(r)
  /\ op' = [op EXCEPT ![r].pc = "done"]
  /\ IF kind[r] = "blocking"
       THEN /\ Goto(r, "invoking") /\ SetStatus(r, "running")
            /\ graph' = [graph EXCEPT ![r] = "stepping"]
            /\ seen' = [seen EXCEPT ![r] = head]
       ELSE Goto(r, "scheduled") /\ UNCHANGED <<run, graph, seen>>
  /\ UNCHANGED <<kind, signal, closed, head, target, lost>>

-----------------------------------------------------------------------------
(* The producer of a stream. *)

Quiet(r) == r \notin signal

Start(r) ==
  /\ body[r] = "scheduled" /\ Quiet(r)
  /\ Goto(r, "started") /\ SetStatus(r, "running")
  /\ UNCHANGED <<kind, signal, closed, op, threadVars>>

\* A task that is cancelled before its first step never enters its body.
NeverStarts(r) ==
  /\ body[r] = "scheduled" /\ ~Quiet(r)
  /\ Goto(r, "done") /\ signal' = signal \ {r}
  /\ UNCHANGED <<runVars, closed, op, threadVars>>

BeginGraph(r) ==
  /\ body[r] = "started" /\ kind[r] = "stream" /\ Quiet(r)
  /\ Goto(r, "streaming")
  /\ graph' = [graph EXCEPT ![r] = "stepping"]
  /\ seen' = [seen EXCEPT ![r] = head]
  /\ UNCHANGED <<runVars, signal, closed, op, head, target, lost>>

BeginAction(r) ==
  /\ body[r] = "started" /\ kind[r] = "action" /\ Quiet(r)
  /\ Goto(r, "acting")
  /\ UNCHANGED <<runVars, signal, closed, op, threadVars>>

\* Ends a run from inside its try statement with status s.
Finish(r, s) == SetStatus(r, s) /\ Goto(r, "closing")

\* A branch recommendation answers, the graph is at its end, or the branch
\* action is executed.
Succeed(r) ==
  /\ Quiet(r)
  /\ \/ body[r] = "started" /\ kind[r] = "stream"
     \/ body[r] = "streaming" /\ graph[r] = "over"
     \/ body[r] = "acting"
  /\ Finish(r, "success")
  /\ UNCHANGED <<kind, signal, closed, op, threadVars>>

Fail(r) ==
  /\ Working(r) /\ Quiet(r)
  /\ Finish(r, "error")
  /\ UNCHANGED <<kind, signal, closed, op, threadVars>>

\* A chunk arrives, and the loop looks at abort_event.
SeeAbort(r) ==
  /\ body[r] = "streaming" /\ Quiet(r) /\ run[r].abort
  /\ Finish(r, "interrupted")
  /\ UNCHANGED <<kind, signal, closed, op, threadVars>>

\* Variant: handled like any other exception.
DeliverCancel_AsError(r) ==
  /\ Working(r) /\ ~Quiet(r)
  /\ signal' = signal \ {r}
  /\ Finish(r, "error")
  /\ UNCHANGED <<kind, closed, op, threadVars>>

\* The cancellation reaches the producer: while it waits for the graph it first
\* stops the graph's worker; at any other await the handler runs at once.
DeliverCancel(r) ==
  /\ Working(r) /\ ~Quiet(r)
  /\ signal' = signal \ {r}
  /\ \/ body[r] = "streaming" /\ Goto(r, "unwinding") /\ UNCHANGED run
     \/ Finish(r, "interrupted")
  /\ UNCHANGED <<kind, closed, op, threadVars>>

\* A branch action that has begun is completed all the same.
SwallowCancel(r) ==
  /\ body[r] = "acting" /\ ~Quiet(r)
  /\ signal' = signal \ {r}
  /\ UNCHANGED <<runVars, body, closed, op, threadVars>>

Unwind(r) ==
  /\ body[r] = "unwinding"
  /\ graph[r] # "stepping" \/ Timeouts
  /\ Finish(r, "interrupted")
  /\ UNCHANGED <<kind, signal, closed, op, threadVars>>

\* Variant: the event is left alone.
Readied_Not(r) == run

\* _signal_rollback_ready.
Readied(r) == [run EXCEPT ![r].ready = @ \/ run[r].action = "rollback"]

\* The finally clause begins.
SignalReady(r) ==
  /\ body[r] = "closing"
  /\ Goto(r, "awaiting")
  /\ run' = Readied(r)
  /\ UNCHANGED <<kind, signal, closed, op, threadVars>>

\* _await_rollback_completion, then run.closed and publish_end.
CloseStream(r) ==
  /\ body[r] = "awaiting"
  /\ run[r].action # "rollback" \/ run[r].completed \/ Timeouts
  /\ Goto(r, "done") /\ closed' = closed \union {r}
  /\ UNCHANGED <<runVars, signal, op, threadVars>>

\* A blocking call has no task: its outcome overwrites whatever was set.
BlockingEnds(r) ==
  /\ body[r] = "invoking" /\ graph[r] = "over"
  /\ Goto(r, "done")
  /\ SetStatus(r, "success") \/ SetStatus(r, "error")
  /\ UNCHANGED <<kind, signal, closed, op, threadVars>>

-----------------------------------------------------------------------------
(* The graph. *)

\* A step of the graph commits a checkpoint on top of the state it works on,
\* and the graph goes on or is at its end.
Commit(r, then) ==
  /\ graph[r] = "stepping"
  /\ head' = seen[r] \union {r} /\ lost' = lost \union Losing
  /\ graph' = [graph EXCEPT ![r] = then]
  /\ UNCHANGED <<runVars, taskVars, op, seen, target>>

\* The worker of a generator nobody reads any more is cancelled.
StopGraph(r) ==
  /\ graph[r] = "stepping" /\ body[r] \in {"unwinding", "closing", "awaiting", "done"}
  /\ graph' = [graph EXCEPT ![r] = "over"]
  /\ UNCHANGED <<runVars, taskVars, op, head, seen, target, lost>>

-----------------------------------------------------------------------------
RequestStep(p) == (\E v \in Runs : PickRecord(p, v)) \/ Restore(p) \/ Report(p) \/ Settle(p)
ProducerStep(r) ==
  \/ Start(r) \/ NeverStarts(r) \/ BeginGraph(r) \/ BeginAction(r) \/ Succeed(r) \/ Fail(r)
  \/ SeeAbort(r) \/ DeliverCancel(r) \/ SwallowCancel(r) \/ Unwind(r) \/ SignalReady(r)
  \/ CloseStream(r) \/ BlockingEnds(r)
GraphStep(r) == Commit(r, "stepping") \/ Commit(r, "over") \/ StopGraph(r)

Terminated ==
  /\ \A r \in Runs : op[r].pc = "done" /\ body[r] \in {"none", "done"} /\ graph[r] # "stepping"
  /\ \A c \in Cancellers : op[c].pc \in {"idle", "done"}
  /\ UNCHANGED vars

Next ==
  \/ \E r \in Runs : \/ \E k \in Kinds, s \in Strategies : Create(r, k, s)
                     \/ CreateConflicts(r) \/ Launch(r)
                     \/ ProducerStep(r) \/ GraphStep(r)
  \/ \E c \in Cancellers : Return(c)
  \/ \E c \in Cancellers, V \in SUBSET Runs, a \in {"interrupt", "rollback"} : Cancel(c, V, a)
  \/ \E p \in Ops : RequestStep(p)
  \/ Terminated

Spec == Init /\ [][Next]_vars

\* What a producer or a request waits for has not come: it would go on only
\* because the wait ran out.
ProducerWaits(r) ==
  \/ body[r] = "unwinding" /\ graph[r] = "stepping"
  \/ body[r] = "awaiting" /\ run[r].action = "rollback" /\ ~run[r].completed
RequestWaits(p) ==
  LET v == op[p].cur IN
  op[p].pc = "rolling" /\ v # NoRun /\ ~run[v].ready /\ body[v] # "done"

\* The event loop runs what is ready, and a step of the graph comes to an end
\* (model requests time out).  That the 2 s and 10 s waits run out is assumed of a
\* request only whose producer is over without having got to its finally clause.
Fairness ==
  /\ \A r \in Runs :
       /\ WF_vars(\/ ~RequestWaits(r) /\ RequestStep(r)
                  \/ Launch(r)
                  \/ ~ProducerWaits(r) /\ ProducerStep(r))
       /\ WF_vars(Commit(r, "over"))
  /\ \A c \in Cancellers : WF_vars((~RequestWaits(c) /\ RequestStep(c)) \/ Return(c))
FairSpec == Spec /\ Fairness

-----------------------------------------------------------------------------
(* Properties. *)

RunRecord == [status : {"absent", "pending", "running", "success", "error", "interrupted"},
              abort : BOOLEAN, action : {"interrupt", "rollback"},
              ready : BOOLEAN, completed : BOOLEAN]
Bodies == {"none", "scheduled", "started", "acting", "streaming", "invoking", "unwinding",
           "closing", "awaiting", "done"}
Request == [pc : {"idle", "rolling", "reporting", "settling", "done"}, victims : SUBSET Runs,
            todo : SUBSET Runs, cur : Runs \union {NoRun}, tasks : SUBSET Runs]

TypeOK ==
  /\ run \in [Runs -> RunRecord]
  /\ kind \in [Runs -> Kinds \union {"none"}]
  /\ body \in [Runs -> Bodies]
  /\ signal \subseteq {r \in Runs : TaskRunning(r)} /\ closed \subseteq Runs
  /\ op \in [Ops -> Request]
  /\ graph \in [Runs -> {"idle", "stepping", "over"}]
  /\ head \subseteq Runs /\ lost \subseteq Runs
  /\ seen \in [Runs -> SUBSET Runs] /\ target \in [Runs -> SUBSET Runs]

\* A thread has one active run: create_or_reject refuses or interrupts the
\* others, and no producer brings its run back afterwards (RunConflictError:
\* "Raised when a thread already has an active run").
OneActive == \A q, r \in Runs : Inflight(q) /\ Inflight(r) => q = r

\* The producer of a run works only when the producers of the runs it
\* superseded are at their end (create_or_reject settles them).
ProducersApart ==
  \A r \in Runs : Working(r) =>
    \A v \in op[r].victims : ~Working(v) /\ body[v] \notin {"unwinding", "closing", "awaiting"}

\* The checkpoint is restored, and the outcome reported, exactly while the
\* producer stands in its finally clause: it neither works on, nor has it
\* closed the stream the outcome is published to.
RollbackWhileHeld ==
  \A p \in Ops :
    op[p].pc = "reporting" /\ kind[op[p].cur] # "blocking" => body[op[p].cur] = "awaiting"

\* A graph stream that was cancelled is reported as interrupted ever after.  (A
\* branch action that has begun, and a blocking call, report what they did.)
CancelledStreamStays ==
  \A r \in Runs : kind[r] = "stream" /\ run[r].status = "interrupted" =>
                    run'[r].status = "interrupted"
StreamCancelIsFinal == [][CancelledStreamStays]_vars

\* The graph of a run that was cancelled, or ended early, and still does a step: a
\* cancel request does not wait for it, and a producer that learns of the
\* cancellation at a publish leaves it alone.
Leftover(r) == graph[r] = "stepping" /\ ~Inflight(r)

\* The thread keeps the writes of a run that succeeded: neither a run in flight
\* nor the rollback of a superseded run takes them away, only a leftover graph,
\* which commits on top of what it started from, and the rollback a cancel request
\* waits for (the run it cancels is in nobody's way any more).  Writes that were
\* taken away and came back with a leftover graph are nobody's to keep.
SuccessKept ==
  \A r \in Losing : r \notin lost =>
    \/ \E q \in Runs : Leftover(q) /\ head' = seen[q] \union {q}
    \/ \E c \in Cancellers : op[c].pc = "rolling" /\ op'[c].pc = "reporting"
SuccessStays == [][SuccessKept]_vars

\* Producers and requests never wait for one another in a ring: a rollback waits
\* for a producer on its way to its finally clause, which waits for nobody but its
\* graph; a producer in that clause for a request that is rolling back; a request
\* that settles for producers (_await_rollback_ready, _await_rollback_completion,
\* _settle_records).
OnItsWay(r) ==
  body[r] \in {"scheduled", "started", "acting", "streaming", "unwinding", "closing"}
WaitsAreServed ==
  /\ \A p \in Ops : RequestWaits(p) => OnItsWay(op[p].cur)
  /\ \A r \in Runs : body[r] = "awaiting" /\ ProducerWaits(r) =>
       \E p \in Ops : op[p].pc \in {"rolling", "reporting"} /\ r \in op[p].todo \union {op[p].cur}
  /\ \A p \in Ops : op[p].pc = "settling" =>
       \A v \in op[p].tasks : OnItsWay(v) \/ body[v] \in {"awaiting", "done"}

\* A producer that got to start closes its stream, and not because a wait ran
\* out: producers that wait for a rollback and requests that wait for producers
\* never wait for one another (_close_run_stream, _await_rollback_ready).
StreamsClose == \A r \in Runs : body[r] = "started" ~> r \in closed

\* Every request that cancels or supersedes runs returns, also one that has to
\* wait out a producer that never started (create_or_reject, cancel).
RequestsReturn == []<>(\A p \in Ops : op[p].pc \in {"idle", "done"})
=============================================================================
