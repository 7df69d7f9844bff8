-------------------------- MODULE BackgroundQueue --------------------------
(***************************************************************************)
(* The best-effort queue of background tasks of a process                  *)
(* (services/background_work.py, BoundedBackgroundQueue): worker threads   *)
(* that share a bounded queue, keys that let one task of a kind be pending *)
(* for a thread at a time, and the shutdown that drains the queue.  The    *)
(* keys live in Postgres (services/coordination_postgres.py).              *)
(*                                                                         *)
(* A step is what a thread does under a lock or in one statement of the    *)
(* backend.  Delays, metrics and the arguments of the tasks are left out.  *)
(***************************************************************************)
EXTENDS Integers, Sequences, SequencesExt

CONSTANTS
  Workers,    \* the worker threads (max_concurrency)
  Callers,    \* the threads that submit
  Keys,
  NoKey,
  MaxSize,    \* the size of the queue
  MaxTasks,   \* bound: the tasks that ever get a key; later ones are refused
  MaxLapses   \* bound: the keys with a task that outlives its claim

ASSUME QueueAssumption ==
  /\ IsFiniteSet(Workers)
  /\ MaxSize \in Nat \ {0} /\ MaxTasks \in Nat /\ MaxLapses \in Nat
  /\ NoKey \notin Keys

VARIABLES
  queue,       \* the tasks, by number; 0 tells a worker to stop
  unfinished,  \* the entries no task_done was called for
  keyOf,       \* the keys of the tasks made so far
  holder,      \* of each key the task whose claim the backend knows, or 0
  lapsed,      \* the keys whose claim has run out
  claims,      \* _job_claims: of each key a task, or 0
  closed,      \* _closed
  toStop,      \* the workers _shutdown has yet to tell
  complete,    \* _shutdown_complete
  worker,      \* [Workers -> [pc, task, dies]]
  giving,      \* [Workers \cup Callers -> [key, task]]: a claim on its way back
  outlived,    \* history: the keys a task of which outlived its claim
  kept         \* history: the keys whose release raised

backend == <<holder, lapsed>>
history == <<outlived, kept>>
shutting == <<closed, toStop, complete>>
vars == <<queue, unfinished, keyOf, holder, lapsed, claims, closed, toStop,
          complete, worker, giving, outlived, kept>>

Stop == 0
Tasks == 1..MaxTasks
Nothing == [key |-> NoKey, task |-> 0]
Resting == [pc |-> "idle", task |-> 0, dies |-> FALSE]

Init ==
  /\ queue = <<>> /\ unfinished = 0 /\ keyOf = <<>>
  /\ holder = [k \in Keys |-> 0] /\ lapsed = {} /\ claims = [k \in Keys |-> 0]
  /\ closed = FALSE /\ toStop = 0 /\ complete = FALSE
  /\ worker = [w \in Workers |-> Resting]
  /\ giving = [a \in Workers \cup Callers |-> Nothing]
  /\ outlived = {} /\ kept = {}

-----------------------------------------------------------------------------
(* The backend. *)

\* claim_job_key
Claimable(k) == holder[k] = 0 \/ k \in lapsed

Claim(k, t) == holder' = [holder EXCEPT ![k] = t] /\ lapsed' = lapsed \ {k}

\* Is the statement's guard on the token and the time true?
Holds(k, t) == holder[k] = t /\ k \notin lapsed

\* Variant: the release of a claim is not guarded by its token.
ReleaseClaim_AnyToken(k, t) == holder' = [holder EXCEPT ![k] = 0] /\ UNCHANGED lapsed

\* release_job_claim
ReleaseClaim(k, t) ==
  /\ holder' = IF Holds(k, t) THEN [holder EXCEPT ![k] = 0] ELSE holder
  /\ UNCHANGED lapsed

\* mark_job_claim_succeeded and mark_job_claim_failed: a row that succeeded or was
\* dead-lettered (max_attempts is 1) can be claimed again.
MarkDone(k, t) ==
  /\ holder' = IF Holds(k, t) THEN [holder EXCEPT ![k] = 0] ELSE holder
  /\ UNCHANGED lapsed

\* The claim of the queue has no heartbeat.
Lapse(k) ==
  /\ holder[k] # 0 /\ k \notin lapsed
  /\ Cardinality(outlived \cup {k}) <= MaxLapses
  /\ lapsed' = lapsed \cup {k} /\ outlived' = outlived \cup {k}
  /\ UNCHANGED <<queue, unfinished, keyOf, holder, claims, shutting, worker, giving, kept>>

-----------------------------------------------------------------------------
(* submit and release_job_key *)

Room == Len(queue) < MaxSize

Refused(k) == closed \/ ~Claimable(k) \/ Len(keyOf) = MaxTasks

\* Variant: a task the full queue drops keeps its key.
Accept_KeepsKey(a, k) ==
  LET t == Len(keyOf) + 1 IN
     /\ ~Refused(k) /\ Claim(k, t) /\ keyOf' = Append(keyOf, k)
     /\ queue' = IF Room THEN Append(queue, t) ELSE queue
     /\ unfinished' = IF Room THEN unfinished + 1 ELSE unfinished
     /\ claims' = [claims EXCEPT ![k] = IF Room THEN t ELSE 0]
     /\ UNCHANGED <<shutting, giving, history>>

\* The key is claimed and the task put into the queue; a full queue drops the
\* task, and the caller gives the key back after it left the lock.
Accept(a, k) ==
  LET t == Len(keyOf) + 1 IN
     /\ ~Refused(k) /\ Claim(k, t) /\ keyOf' = Append(keyOf, k)
     /\ queue' = IF Room THEN Append(queue, t) ELSE queue
     /\ unfinished' = IF Room THEN unfinished + 1 ELSE unfinished
     /\ claims' = [claims EXCEPT ![k] = IF Room THEN t ELSE 0]
     /\ giving' = IF Room THEN giving ELSE [giving EXCEPT ![a] = [key |-> k, task |-> t]]
     /\ UNCHANGED <<shutting, history>>

Submit(c, k) == giving[c] = Nothing /\ Accept(c, k) /\ UNCHANGED worker

\* The call of the backend of submit and of release_job_key; if it raises, the
\* key stays claimed.
GiveBack(a) ==
  /\ giving[a] # Nothing
  /\ \/ ReleaseClaim(giving[a].key, giving[a].task) /\ UNCHANGED kept
     \/ UNCHANGED backend /\ kept' = kept \cup {giving[a].key}
  /\ giving' = [giving EXCEPT ![a] = Nothing]
  /\ UNCHANGED <<queue, unfinished, keyOf, claims, shutting, worker, outlived>>

-----------------------------------------------------------------------------
(* _worker *)

At(w, pc) == worker[w].pc = pc /\ giving[w] = Nothing
GoTo(w, pc) == worker' = [worker EXCEPT ![w].pc = pc]
KeyAt(w) == keyOf[worker[w].task]

\* Variant: a worker stops when the queue is closed.
Get_NotClosed(w) ==
  /\ At(w, "idle") /\ (closed \/ queue # <<>>)
  /\ IF closed
     THEN GoTo(w, "gone") /\ UNCHANGED <<queue, unfinished>>
     ELSE /\ worker' = [worker EXCEPT ![w] = [pc |-> "taken", task |-> Head(queue), dies |-> FALSE]]
          /\ queue' = Tail(queue) /\ UNCHANGED unfinished
  /\ UNCHANGED <<keyOf, backend, claims, shutting, giving, history>>

Get(w) ==
  /\ At(w, "idle") /\ queue # <<>>
  /\ queue' = Tail(queue)
  /\ IF Head(queue) = Stop
     THEN GoTo(w, "gone") /\ unfinished' = unfinished - 1
     ELSE /\ worker' = [worker EXCEPT ![w] = [pc |-> "taken", task |-> Head(queue), dies |-> FALSE]]
          /\ UNCHANGED unfinished
  /\ UNCHANGED <<keyOf, backend, claims, shutting, giving, history>>

\* What mark_job_running answers is not looked at.
Start(w) ==
  /\ At(w, "taken") /\ GoTo(w, "running")
  /\ UNCHANGED <<queue, unfinished, keyOf, backend, claims, shutting, giving, history>>

\* The task returns or raises; one that resubmits returns when it was refused, or
\* raises with the claim of the key.
Return(w) ==
  /\ At(w, "running") \/ At(w, "resubmitting")
  /\ GoTo(w, "returned")
  /\ UNCHANGED <<queue, unfinished, keyOf, backend, claims, shutting, giving, history>>

\* release_job_key, in a compaction that found the thread busy.
LetGo(w) ==
  /\ At(w, "running") /\ GoTo(w, "resubmitting")
  /\ claims' = [claims EXCEPT ![KeyAt(w)] = 0]
  /\ giving' = [giving EXCEPT ![w] = [key |-> KeyAt(w), task |-> claims[KeyAt(w)]]]
  /\ UNCHANGED <<queue, unfinished, keyOf, backend, shutting, history>>

Resubmit(w) == At(w, "resubmitting") /\ GoTo(w, "returned") /\ Accept(w, KeyAt(w))

Report(w) ==
  /\ At(w, "returned") /\ GoTo(w, "leaving") /\ MarkDone(KeyAt(w), worker[w].task)
  /\ UNCHANGED <<queue, unfinished, keyOf, claims, shutting, giving, history>>

\* mark_job_running, mark_job_succeeded or mark_job_failed raises: nothing but
\* the finally is left of the thread.
Break(w) ==
  /\ At(w, "taken") \/ At(w, "returned")
  /\ worker' = [worker EXCEPT ![w] = [pc |-> "leaving", task |-> @.task, dies |-> TRUE]]
  /\ UNCHANGED <<queue, unfinished, keyOf, backend, claims, shutting, giving, history>>

Release(w) ==
  /\ At(w, "leaving") /\ GoTo(w, "released") /\ ReleaseClaim(KeyAt(w), worker[w].task)
  /\ UNCHANGED <<queue, unfinished, keyOf, claims, shutting, giving, history>>

\* The release raises: task_done is not called.
BreakOff(w) ==
  /\ At(w, "leaving") /\ GoTo(w, "dead")
  /\ kept' = kept \cup {KeyAt(w)}
  /\ UNCHANGED <<queue, unfinished, keyOf, backend, claims, shutting, giving, outlived>>

\* Variant: task_done is not called.
Finish_NotDone(w) ==
  /\ At(w, "released")
  /\ worker' = [worker EXCEPT ![w] = IF @.dies THEN [@ EXCEPT !.pc = "dead"] ELSE Resting]
  /\ claims' = IF claims[KeyAt(w)] = worker[w].task THEN [claims EXCEPT ![KeyAt(w)] = 0] ELSE claims
  /\ UNCHANGED <<queue, unfinished, keyOf, backend, shutting, giving, history>>

Finish(w) ==
  /\ At(w, "released")
  /\ worker' = [worker EXCEPT ![w] = IF @.dies THEN [@ EXCEPT !.pc = "dead"] ELSE Resting]
  /\ claims' = IF claims[KeyAt(w)] = worker[w].task THEN [claims EXCEPT ![KeyAt(w)] = 0] ELSE claims
  /\ unfinished' = unfinished - 1
  /\ UNCHANGED <<queue, keyOf, backend, shutting, giving, history>>

-----------------------------------------------------------------------------
(* close and _shutdown *)

Close ==
  /\ ~closed /\ closed' = TRUE /\ toStop' = Cardinality(Workers)
  /\ UNCHANGED <<queue, unfinished, keyOf, backend, claims, complete, worker, giving, history>>

TellStop ==
  /\ closed /\ toStop > 0 /\ Room
  /\ toStop' = toStop - 1
  /\ queue' = Append(queue, Stop) /\ unfinished' = unfinished + 1
  /\ UNCHANGED <<keyOf, backend, claims, closed, complete, worker, giving, history>>

\* The queue and every thread are joined; a dead thread is joined at once.
Complete ==
  /\ closed /\ toStop = 0 /\ unfinished = 0 /\ ~complete
  /\ \A w \in Workers : worker[w].pc \in {"gone", "dead"}
  /\ complete' = TRUE
  /\ UNCHANGED <<queue, unfinished, keyOf, backend, claims, closed, toStop, worker, giving, history>>

-----------------------------------------------------------------------------
Work(w) ==
  \/ GiveBack(w) \/ Get(w) \/ Start(w) \/ Return(w) \/ Resubmit(w)
  \/ Report(w) \/ Release(w) \/ Finish(w)

Next ==
  \/ \E c \in Callers : GiveBack(c) \/ \E k \in Keys : Submit(c, k)
  \/ \E w \in Workers : Work(w) \/ LetGo(w) \/ Break(w) \/ BreakOff(w)
  \/ \E k \in Keys : Lapse(k)
  \/ Close \/ TellStop \/ Complete

Spec == Init /\ [][Next]_vars

\* The threads run, and every task returns.
Fairness ==
  /\ \A w \in Workers : WF_vars(Work(w))
  /\ \A c \in Callers : WF_vars(GiveBack(c))
  /\ WF_vars(TellStop \/ Complete)
FairSpec == Spec /\ Fairness

-----------------------------------------------------------------------------
(* Properties. *)

GivenBack == [key : Keys, task : 0..MaxTasks] \cup {Nothing}

TypeOK ==
  /\ queue \in Seq(0..MaxTasks) /\ Len(queue) <= MaxSize
  /\ unfinished \in Nat
  /\ keyOf \in Seq(Keys) /\ Len(keyOf) <= MaxTasks
  /\ holder \in [Keys -> 0..MaxTasks] /\ lapsed \subseteq Keys
  /\ claims \in [Keys -> 0..MaxTasks]
  /\ closed \in BOOLEAN /\ complete \in BOOLEAN /\ toStop \in 0..Cardinality(Workers)
  /\ worker \in [Workers ->
       [pc : {"idle", "taken", "running", "resubmitting", "returned", "leaving",
              "released", "dead", "gone"},
        task : 0..MaxTasks, dies : BOOLEAN]]
  /\ giving \in [Workers \cup Callers -> GivenBack]
  /\ outlived \subseteq Keys /\ kept \subseteq Keys

InHand(pcs) == {worker[w].task : w \in {v \in Workers : worker[v].pc \in pcs}}
Queued == ToSet(queue) \ {Stop}

\* The tasks that are to run, or run and have not let go of their key.
Pending == Queued \cup InHand({"taken", "running"})

\* The queue deduplicates pending keys: no two tasks of a key are pending, but
\* for a key whose task outlived its claim.
OnePending ==
  \A t, u \in Pending : keyOf[t] = keyOf[u] => t = u \/ keyOf[t] \in outlived

\* A key that is taken is the key of a task that is still to be done with, or is
\* on its way back, unless its release raised: no key is lost for later tasks.
KeysComeBack ==
  \A k \in Keys : holder[k] # 0 /\ k \notin lapsed \cup kept =>
    \/ holder[k] \in Queued \cup InHand({"taken", "running", "resubmitting", "returned", "leaving"})
    \/ \E a \in DOMAIN giving : giving[a] = [key |-> k, task |-> holder[k]]

\* A worker stops only when no task is left in the queue, and the shutdown is
\* complete only when the queue is empty, whatever threads died (_worker, _shutdown).
StopsWhenDrained ==
  /\ (\E w \in Workers : worker[w].pc = "gone") => Queued = {}
  /\ complete => queue = <<>>

\* A raising call of the backend ended a worker thread.
Died == \E w \in Workers : worker[w].dies \/ worker[w].pc = "dead"

\* "Small bounded worker queue that drains accepted jobs during shutdown.":
\* unless a worker thread died, a closed queue is drained and its threads end.
Drains == closed ~> (complete /\ queue = <<>>) \/ Died

\* Every task the queue accepts is run, unless a worker thread died.
AcceptedRun == \A t \in Tasks : t \in Queued ~> t \in InHand({"running"}) \/ Died
=============================================================================
