--------------------------- MODULE BackgroundJobs ---------------------------
(***************************************************************************)
(* The durable background jobs of FocusAgent: the focus_background_jobs    *)
(* table (services/coordination_postgres.py) and the                       *)
(* DurableBackgroundWorker threads that poll it                            *)
(* (services/background_work.py).                                          *)
(*                                                                         *)
(* One row per job key.  A worker claims a due row under a fresh token and *)
(* a lease, renews the lease from a heartbeat thread while the handler     *)
(* runs, and settles the row under the token.  Every SQL statement is one  *)
(* atomic step; everything between two statements interleaves.             *)
(*                                                                         *)
(* Time is relative: lease and delay are the ticks left until              *)
(* claimed_until and run_at, and Tick lets one pass, so that               *)
(* "claimed_until <= now()" is lease = 0 and "run_at <= now()" is          *)
(* delay = 0.  Clock skew between a worker and the database is left out.   *)
(***************************************************************************)
EXTENDS Integers

CONSTANTS
  Jobs,          \* job keys
  Workers,       \* durable workers, in any number of processes
  MaxAttempts,   \* max_attempts of every enqueued spec
  ClaimTTL,      \* ticks a claim or a heartbeat lasts
  BaseDelay,     \* retry_base_delay_seconds, in ticks
  MaxDelay,      \* retry_max_delay_seconds, in ticks
  StartDelays,   \* run_at - now of an enqueued spec, in ticks
  MaxEnqueues,   \* bound: enqueues and replays in a behaviour
  MaxCrashes     \* bound: process crashes in a behaviour

NoJob == "no job"

ASSUME JobsAssumption ==
  /\ NoJob \notin Jobs
  /\ MaxAttempts \in Nat \ {0}
  /\ ClaimTTL \in Nat \ {0}
  /\ BaseDelay \in Nat /\ MaxDelay \in Nat /\ BaseDelay <= MaxDelay
  /\ StartDelays \subseteq Nat
  /\ \A a \in 0..MaxAttempts : BaseDelay * 2^a \in Nat
  /\ MaxEnqueues \in Nat /\ MaxCrashes \in Nat

VARIABLES
  row,        \* the table: [Jobs -> Row]
  worker,     \* what each worker thread holds: [Workers -> WorkerState]
  epoch,      \* how often each job was (re)enqueued: tells two uses of a key apart
  nextToken,  \* uuid4 claim tokens, drawn in order
  enqueues, crashes

vars == <<row, worker, epoch, nextToken, enqueues, crashes>>

NoToken == 0
Terminal == {"succeeded", "failed", "released", "dead_lettered"}
Statuses == {"absent", "pending", "retrying", "running"} \union Terminal
PCs == {"idle", "claimed", "handling", "returned", "confirmed", "failing", "down"}

Row == [status : Statuses, attempt : Nat, token : Nat, lease : 0..ClaimTTL, delay : Nat]
WorkerState == [pc : PCs, job : Jobs \union {NoJob}, token : Nat,
                epoch : Nat, lost : BOOLEAN]

AbsentRow == [status |-> "absent", attempt |-> 0, token |-> NoToken,
              lease |-> 0, delay |-> 0]
Free == [pc |-> "idle", job |-> NoJob, token |-> NoToken, epoch |-> 0, lost |-> FALSE]

Init ==
  /\ row = [j \in Jobs |-> AbsentRow]
  /\ worker = [w \in Workers |-> Free]
  /\ epoch = [j \in Jobs |-> 0]
  /\ nextToken = 1
  /\ enqueues = 0 /\ crashes = 0

-----------------------------------------------------------------------------
(* Rows. *)

\* Exponential backoff after the given attempt, capped.
Backoff(attempt) ==
  LET d == BaseDelay * 2^(attempt - 1) IN IF d < MaxDelay THEN d ELSE MaxDelay

\* The row without its claim.
Unclaimed(r, status, delay) ==
  [status |-> status, attempt |-> r.attempt, token |-> NoToken, lease |-> 0, delay |-> delay]

\* Variant: one attempt too few.
FailedRow_EarlyDeadLetter(r) ==
  IF r.attempt + 1 >= MaxAttempts
  THEN Unclaimed(r, "dead_lettered", r.delay)
  ELSE Unclaimed(r, "retrying", Backoff(r.attempt))

\* Variant: the last failed attempt is scheduled for a retry no claim will take.
FailedRow_LateDeadLetter(r) ==
  IF r.attempt > MaxAttempts
  THEN Unclaimed(r, "dead_lettered", r.delay)
  ELSE Unclaimed(r, "retrying", Backoff(r.attempt))

\* A row that failed its attempt: out of attempts, or to be retried later.
FailedRow(r) ==
  IF r.attempt >= MaxAttempts
  THEN Unclaimed(r, "dead_lettered", r.delay)
  ELSE Unclaimed(r, "retrying", Backoff(r.attempt))

\* The row with its lease renewed.
Renewed(r) == [r EXCEPT !.lease = ClaimTTL]

\* Variant: expired claims are left to their holders.
Swept_Never(r) == r

\* The first statement of claim_next_job: an expired running claim has failed.
Swept(r) == IF r.status = "running" /\ r.lease = 0 THEN FailedRow(r) ELSE r

Due(r) ==
  /\ r.status \in {"pending", "retrying"}
  /\ r.delay = 0
  /\ r.token = NoToken \/ r.lease = 0
  /\ r.attempt < MaxAttempts

\* The row as enqueue_job writes it.
FreshRow(d) == Unclaimed(AbsentRow, "pending", d)

\* The row is still claimed under this worker's token.
Holds(w) ==
  /\ worker[w].job \in Jobs
  /\ row[worker[w].job].token = worker[w].token
  /\ row[worker[w].job].status = "running"

\* Variant: any running row under the key will do.
HoldsLive_AnyToken(w) ==
  /\ worker[w].job \in Jobs
  /\ row[worker[w].job].status = "running"
  /\ row[worker[w].job].lease > 0

\* ... and its lease has not run out.
HoldsLive(w) == Holds(w) /\ row[worker[w].job].lease > 0

-----------------------------------------------------------------------------
(* The producers of jobs and the operator. *)

\* Variant: "replace" also replaces a job that is running.
Replaceable_Running(r, policy) ==
  \/ r.status \in {"absent"} \union Terminal
  \/ policy = "replace"

\* enqueue_job's ON CONFLICT ... WHERE.
Replaceable(r, policy) ==
  \/ r.status \in {"absent"} \union Terminal
  \/ policy = "replace" /\ r.status # "running"

Enqueue(j, policy, d) ==
  /\ enqueues < MaxEnqueues
  /\ Replaceable(row[j], policy)
  /\ row' = [row EXCEPT ![j] = FreshRow(d)]
  /\ epoch' = [epoch EXCEPT ![j] = @ + 1]
  /\ enqueues' = enqueues + 1
  /\ UNCHANGED <<worker, nextToken, crashes>>

\* An administrator replays a dead letter.
Replay(j) ==
  /\ enqueues < MaxEnqueues
  /\ row[j].status = "dead_lettered"
  /\ row' = [row EXCEPT ![j] = FreshRow(0)]
  /\ epoch' = [epoch EXCEPT ![j] = @ + 1]
  /\ enqueues' = enqueues + 1
  /\ UNCHANGED <<worker, nextToken, crashes>>

-----------------------------------------------------------------------------
(* A worker: DurableBackgroundWorker.run_once, one action per statement it *)
(* sends and per event it waits for.                                       *)

SetWorker(w, s) == worker' = [worker EXCEPT ![w] = s]
Goto(w, pc) == SetWorker(w, [worker[w] EXCEPT !.pc = pc])
Settle(w) == SetWorker(w, Free)
\* The row of this worker's job becomes r if the statement's WHERE holds.
UpdateRowIf(w, where, r) ==
  row' = IF where THEN [row EXCEPT ![worker[w].job] = r] ELSE row
RowOf(w) == row[worker[w].job]

\* Variant: the token is the worker process's owner name.
FreshToken_Owner == 1

\* claim_token = uuid4().hex
FreshToken == nextToken

ClaimedRow(r) ==
  [status |-> "running", attempt |-> r.attempt + 1, token |-> FreshToken,
   lease |-> ClaimTTL, delay |-> r.delay]

\* claim_next_job: sweep, then take one due row.  FOR UPDATE SKIP LOCKED may
\* pass over any row another transaction holds, so any due row may be taken.
Claim(w, j) ==
  LET swept == [k \in Jobs |-> Swept(row[k])] IN
  /\ worker[w].pc = "idle"
  /\ Due(swept[j])
  /\ row' = [swept EXCEPT ![j] = ClaimedRow(@)]
  /\ SetWorker(w, [pc |-> "claimed", job |-> j, token |-> FreshToken,
                   epoch |-> epoch[j], lost |-> FALSE])
  /\ nextToken' = nextToken + 1
  /\ UNCHANGED <<epoch, enqueues, crashes>>

\* claim_next_job finds nothing due; its sweep stands.
ClaimNone(w) ==
  LET swept == [k \in Jobs |-> Swept(row[k])] IN
  /\ worker[w].pc = "idle"
  /\ \A k \in Jobs : ~Due(swept[k])
  /\ row' = swept
  /\ UNCHANGED <<worker, epoch, nextToken, enqueues, crashes>>

\* mark_job_claim_running renews the lease; then the heartbeat thread starts
\* and the handler is called.
MarkRunning(w) ==
  /\ worker[w].pc = "claimed"
  /\ UpdateRowIf(w, HoldsLive(w), Renewed(RowOf(w)))
  /\ Goto(w, "handling")
  /\ UNCHANGED <<epoch, nextToken, enqueues, crashes>>

\* The heartbeat thread: once a renewal is refused it reports the claim lost and ends.
Heartbeat(w) ==
  /\ worker[w].pc \in {"handling", "returned"} /\ ~worker[w].lost
  /\ UpdateRowIf(w, HoldsLive(w), Renewed(RowOf(w)))
  /\ SetWorker(w, [worker[w] EXCEPT !.lost = ~HoldsLive(w)])
  /\ UNCHANGED <<epoch, nextToken, enqueues, crashes>>

HandlerReturns(w) ==
  /\ worker[w].pc = "handling"
  /\ Goto(w, "returned")
  /\ UNCHANGED <<row, epoch, nextToken, enqueues, crashes>>

\* _stop_job_claim_heartbeat: the thread ended well and one last heartbeat succeeds.
Confirm(w) ==
  /\ worker[w].pc = "returned" /\ ~worker[w].lost /\ HoldsLive(w)
  /\ UpdateRowIf(w, TRUE, Renewed(RowOf(w)))
  /\ Goto(w, "confirmed")
  /\ UNCHANGED <<epoch, nextToken, enqueues, crashes>>

\* It does not: the job is reported failed although its handler returned.
ConfirmRefused(w) ==
  /\ worker[w].pc = "returned" /\ (worker[w].lost \/ ~HoldsLive(w))
  /\ Goto(w, "failing")
  /\ UNCHANGED <<row, epoch, nextToken, enqueues, crashes>>

HandlerRaises(w) ==
  /\ worker[w].pc = "handling"
  /\ Goto(w, "failing")
  /\ UNCHANGED <<row, epoch, nextToken, enqueues, crashes>>

MarkSucceeded(w) ==
  /\ worker[w].pc = "confirmed"
  /\ UpdateRowIf(w, HoldsLive(w), Unclaimed(RowOf(w), "succeeded", RowOf(w).delay))
  /\ Settle(w)
  /\ UNCHANGED <<epoch, nextToken, enqueues, crashes>>

\* mark_job_claim_failed asks for the token only, not for a live lease.
MarkFailed(w) ==
  /\ worker[w].pc = "failing"
  /\ UpdateRowIf(w, Holds(w), FailedRow(RowOf(w)))
  /\ Settle(w)
  /\ UNCHANGED <<epoch, nextToken, enqueues, crashes>>

-----------------------------------------------------------------------------
(* Partial failures. *)

\* A statement raises.  Before the handler and in a heartbeat that is a
\* failure of the job; in the last statement it leaves the row claimed.
BackendError(w) ==
  /\ \/ /\ worker[w].pc \in {"claimed", "returned"}
        /\ Goto(w, "failing")
     \/ /\ worker[w].pc = "handling" /\ ~worker[w].lost
        /\ SetWorker(w, [worker[w] EXCEPT !.lost = TRUE])
     \/ /\ worker[w].pc \in {"confirmed", "failing"}
        /\ Settle(w)
  /\ UNCHANGED <<row, epoch, nextToken, enqueues, crashes>>

\* The process dies: its claim stays in the table.
Crash(w) ==
  /\ crashes < MaxCrashes
  /\ worker[w].pc # "down"
  /\ SetWorker(w, [Free EXCEPT !.pc = "down"])
  /\ crashes' = crashes + 1
  /\ UNCHANGED <<row, epoch, nextToken, enqueues>>

Restart(w) ==
  /\ worker[w].pc = "down"
  /\ Settle(w)
  /\ UNCHANGED <<row, epoch, nextToken, enqueues, crashes>>

Elapse(n) == IF n = 0 THEN 0 ELSE n - 1

Aged(r) == [status |-> r.status, attempt |-> r.attempt, token |-> r.token,
            lease |-> Elapse(r.lease), delay |-> Elapse(r.delay)]

Tick ==
  /\ \E j \in Jobs : row[j].lease > 0 \/ row[j].delay > 0
  /\ row' = [j \in Jobs |-> Aged(row[j])]
  /\ UNCHANGED <<worker, epoch, nextToken, enqueues, crashes>>

-----------------------------------------------------------------------------
Poll(w) == ClaimNone(w) \/ \E j \in Jobs : Claim(w, j)
HandlerEnds(w) == HandlerReturns(w) \/ HandlerRaises(w)
Report(w) == \/ MarkRunning(w) \/ Confirm(w) \/ ConfirmRefused(w)
             \/ MarkSucceeded(w) \/ MarkFailed(w)
WorkerStep(w) == \/ Poll(w) \/ HandlerEnds(w) \/ Report(w)
                 \/ Heartbeat(w) \/ BackendError(w)

Next ==
  \/ \E j \in Jobs : \/ \E policy \in {"skip", "replace"}, d \in StartDelays :
                          Enqueue(j, policy, d)
                     \/ Replay(j)
  \/ \E w \in Workers : WorkerStep(w) \/ Crash(w) \/ Restart(w)
  \/ Tick

Spec == Init /\ [][Next]_vars

\* A worker thread keeps polling, handlers end, a dead process is started
\* again and time passes.  Nothing is assumed of producers, of heartbeats or
\* of the errors.
Fairness ==
  /\ WF_vars(Tick)
  /\ \A w \in Workers : /\ WF_vars(Poll(w)) /\ WF_vars(HandlerEnds(w))
                        /\ WF_vars(Report(w)) /\ WF_vars(Restart(w))
FairSpec == Spec /\ Fairness
-----------------------------------------------------------------------------
(* Properties. *)

TypeOK ==
  /\ row \in [Jobs -> Row]
  /\ worker \in [Workers -> WorkerState]
  /\ epoch \in [Jobs -> Nat]
  /\ nextToken \in Nat \ {0}
  /\ enqueues \in 0..MaxEnqueues
  /\ crashes \in 0..MaxCrashes

\* Fencing: the claim a row carries belongs to one worker, which works for the
\* latest enqueue of the key, so nothing a worker left over from an expired
\* claim or from a replaced job sends can match the row (the
\* "claim_token = %s" of every UPDATE).
ClaimIsCurrent ==
  \A w \in Workers : Holds(w) =>
    /\ worker[w].epoch = epoch[worker[w].job]
    /\ \A v \in Workers : Holds(v) /\ worker[v].job = worker[w].job => v = w

\* No row is stranded and none is given up early: what waits can still be
\* claimed (claim_next_job asks for attempt < max_attempts and for no live
\* claim, and nothing else would ever move such a row), and a dead letter has
\* had all its attempts.
NeverStranded ==
  \A j \in Jobs :
    /\ row[j].status \in {"pending", "retrying"} =>
         row[j].attempt < MaxAttempts /\ row[j].token = NoToken
    /\ row[j].status = "running" =>
         row[j].attempt \in 1..MaxAttempts /\ row[j].token # NoToken
    /\ row[j].status = "dead_lettered" => row[j].attempt = MaxAttempts

\* A job is recorded as succeeded only by the worker whose handler returned
\* for this very enqueue under a lease that is still good; a handler that
\* outlived its claim, or ran an older enqueue of the key, never gets there.
SuccessIsCurrent ==
  \A j \in Jobs :
    row'[j].status = "succeeded" /\ row[j].status # "succeeded" =>
      /\ row[j].lease > 0
      /\ \E w \in Workers : /\ worker[w].pc = "confirmed" /\ worker[w].job = j
                           /\ worker[w].token = row[j].token
                           /\ worker[w].epoch = epoch[j]
NoStaleSuccess == [][SuccessIsCurrent]_vars

\* While a lease is good nobody but its holder takes the row away: no sweep,
\* no claim and no enqueue (not even "replace") touches a live running row.
OnlyHolderLetsGo ==
  \A j \in Jobs :
    row[j].status = "running" /\ row[j].lease > 0 /\ row'[j].token # row[j].token =>
      \E w \in Workers : /\ Holds(w) /\ worker[w].job = j
                       /\ worker[w].pc \in {"confirmed", "failing"}
                       /\ worker'[w] = Free
LeaseProtectsHolder == [][OnlyHolderLetsGo]_vars

\* The table keeps the contract of JobContract for every key.
ContractState(r) ==
  CASE r.status = "absent" -> "none"
    [] r.status \in {"pending", "retrying", "running"} -> "open"
    [] r.status = "succeeded" -> "done"
    [] OTHER -> "dead"
Contract == INSTANCE JobContract WITH
  state <- [j \in Jobs |-> ContractState(row[j])],
  tries <- [j \in Jobs |-> row[j].attempt]
KeepsContract == Contract!Spec

\* Every accepted job is settled in the end, although workers die, lose their
\* claims and fail to report: succeeded, or a dead letter an operator can see.
EveryJobSettles ==
  \A j \in Jobs :
    row[j].status \in {"pending", "retrying", "running"} ~>
      row[j].status \in {"succeeded", "dead_lettered"}
=============================================================================
