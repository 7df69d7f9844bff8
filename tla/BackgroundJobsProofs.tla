------------------------ MODULE BackgroundJobsProofs ------------------------
(***************************************************************************)
(* What the durable job table guarantees for any number of keys, workers,  *)
(* attempts and crashes.  IInv, the inductive invariant, adds to the type  *)
(* invariant how a row's status fixes its attempt and token, and that the  *)
(* tokens in circulation are distinct and older than nextToken.            *)
(***************************************************************************)
EXTENDS BackgroundJobs, TLAPS

\* What a row's status says about its attempt and token.
RowOK(r) ==
  /\ r.status \in {"absent", "pending"} => r.attempt = 0 /\ r.token = NoToken
  /\ r.status = "retrying" => r.attempt \in 1..(MaxAttempts - 1) /\ r.token = NoToken
  /\ r.status = "running" => r.attempt \in 1..MaxAttempts /\ r.token # NoToken
  /\ r.status = "succeeded" => r.attempt \in 1..MaxAttempts /\ r.token = NoToken
  /\ r.status = "dead_lettered" => r.attempt = MaxAttempts /\ r.token = NoToken
  /\ r.status \notin {"failed", "released"}

RowsOK == \A j \in Jobs : RowOK(row[j]) /\ row[j].token < nextToken

\* A worker is either without a claim or at work under one.
WorkersOK ==
  \A w \in Workers :
    /\ worker[w].token < nextToken
    /\ worker[w].pc \in {"idle", "down"} => worker[w].token = NoToken
    /\ worker[w].pc \notin {"idle", "down"} =>
         worker[w].token # NoToken /\ worker[w].job \in Jobs

\* No two workers carry the same token.
TokensDistinct ==
  \A v, w \in Workers : worker[v].token = worker[w].token /\ worker[w].token # NoToken => v = w

\* A token that is in the table belongs to the latest enqueue of its key.
TokenCurrent ==
  \A w \in Workers, j \in Jobs :
    row[j].token = worker[w].token /\ worker[w].token # NoToken =>
      worker[w].job = j /\ worker[w].epoch = epoch[j]

IInv == TypeOK /\ RowsOK /\ WorkersOK /\ TokensDistinct /\ TokenCurrent

-----------------------------------------------------------------------------
(* Rows. *)

LEMMA BackoffNat ==
  ASSUME NEW a \in 1..MaxAttempts  PROVE  Backoff(a) \in Nat
<1>1. a - 1 \in 0..MaxAttempts  BY JobsAssumption
<1>2. BaseDelay * 2^(a - 1) \in Nat  BY <1>1, JobsAssumption
<1> QED  BY <1>2, JobsAssumption DEF Backoff

\* An enqueued row is well-formed.
LEMMA FreshRowOK ==
  ASSUME NEW d \in Nat
  PROVE  FreshRow(d) \in Row /\ RowOK(FreshRow(d)) /\ FreshRow(d).token = NoToken
BY JobsAssumption DEF FreshRow, Unclaimed, AbsentRow, Row, RowOK, Statuses, Terminal, NoToken

\* A failed attempt leaves a well-formed row without a claim.
LEMMA FailedRowOK ==
  ASSUME NEW r \in Row, RowOK(r), r.status = "running"
  PROVE  /\ FailedRow(r) \in Row /\ RowOK(FailedRow(r))
         /\ FailedRow(r).token = NoToken /\ FailedRow(r).attempt = r.attempt
         /\ FailedRow(r).status = IF r.attempt = MaxAttempts THEN "dead_lettered" ELSE "retrying"
<1>1. r.attempt \in 1..MaxAttempts  BY DEF RowOK
<1>2. CASE r.attempt >= MaxAttempts
  <2>1. r.attempt = MaxAttempts  BY <1>1, <1>2, JobsAssumption
  <2>2. FailedRow(r) = Unclaimed(r, "dead_lettered", r.delay)  BY <1>2 DEF FailedRow
  <2>3. FailedRow(r) \in Row /\ FailedRow(r).status = "dead_lettered"
        /\ FailedRow(r).token = NoToken /\ FailedRow(r).attempt = MaxAttempts
    BY <2>1, <2>2, JobsAssumption DEF Unclaimed, Row, Statuses, Terminal, NoToken
  <2> QED  BY <2>1, <2>3 DEF RowOK
<1>3. CASE ~(r.attempt >= MaxAttempts)
  <2>1. r.attempt \in 1..(MaxAttempts - 1) /\ Backoff(r.attempt) \in Nat
    BY <1>1, <1>3, BackoffNat, JobsAssumption
  <2>2. FailedRow(r) = Unclaimed(r, "retrying", Backoff(r.attempt))  BY <1>3 DEF FailedRow
  <2>3. r.attempt # MaxAttempts  BY <2>1, JobsAssumption
  <2>4. FailedRow(r) \in Row /\ FailedRow(r).status = "retrying"
        /\ FailedRow(r).token = NoToken /\ FailedRow(r).attempt = r.attempt
    BY <2>1, <2>2, JobsAssumption DEF Unclaimed, Row, Statuses, Terminal, NoToken
  <2> QED  BY <2>1, <2>3, <2>4 DEF RowOK
<1> QED  BY <1>2, <1>3

\* The sweep leaves every row well-formed and hands out no token.
LEMMA SweptOK ==
  ASSUME NEW r \in Row, RowOK(r)
  PROVE  /\ Swept(r) \in Row /\ RowOK(Swept(r)) /\ Swept(r).attempt = r.attempt
         /\ Swept(r).token \in {NoToken, r.token}
         /\ \/ Swept(r) = r
            \/ /\ r.status = "running" /\ r.lease = 0
               /\ Swept(r).status = IF r.attempt = MaxAttempts THEN "dead_lettered" ELSE "retrying"
BY FailedRowOK DEF Swept

-----------------------------------------------------------------------------
(* Invariance. *)

LEMMA InitIInv == Init => IInv
BY JobsAssumption DEF Init, IInv, TypeOK, RowsOK, RowOK, WorkersOK, TokensDistinct, TokenCurrent,
   Row, WorkerState, AbsentRow, Free, Statuses, Terminal, PCs, NoToken

\* A step that hands out no token keeps IInv if every row and worker stays
\* well-formed on its own.
LEMMA QuietStep ==
  ASSUME IInv, nextToken' = nextToken,
         row' \in [Jobs -> Row], worker' \in [Workers -> WorkerState],
         epoch' \in [Jobs -> Nat], enqueues' \in 0..MaxEnqueues, crashes' \in 0..MaxCrashes,
         \A j \in Jobs : /\ RowOK(row'[j])
                         /\ \/ row'[j].token = NoToken
                            \/ row'[j].token = row[j].token /\ epoch'[j] = epoch[j],
         \A w \in Workers :
           \/ /\ worker'[w].token = NoToken /\ worker'[w].pc \in {"idle", "down"}
           \/ /\ worker'[w].token = worker[w].token /\ worker'[w].job = worker[w].job
              /\ worker'[w].epoch = worker[w].epoch
              /\ \/ worker[w].pc \notin {"idle", "down"} /\ worker'[w].pc \notin {"idle", "down"}
                 \/ worker'[w].pc = worker[w].pc
  PROVE  IInv'
<1> USE DEF IInv
<1>1. TypeOK'  BY DEF TypeOK
<1>2. RowsOK'  BY DEF RowsOK, TypeOK, NoToken
<1>3. WorkersOK'  BY DEF WorkersOK, TypeOK, NoToken
<1>4. TokensDistinct'  BY DEF TokensDistinct
<1>5. TokenCurrent'  BY DEF TokenCurrent
<1> QED  BY <1>1, <1>2, <1>3, <1>4, <1>5

\* What a worker that has a claim may do to the row of its job.
LEMMA UpdateOK ==
  ASSUME IInv, NEW w \in Workers, worker[w].pc \notin {"idle", "down"}, NEW where \in BOOLEAN,
         NEW r \in Row, RowOK(r), r.token \in {NoToken, RowOf(w).token},
         UpdateRowIf(w, where, r)
  PROVE  /\ row' \in [Jobs -> Row]
         /\ \A j \in Jobs : RowOK(row'[j]) /\ row'[j].token \in {NoToken, row[j].token}
BY DEF IInv, TypeOK, RowsOK, WorkersOK, UpdateRowIf, RowOf

LEMMA RenewedOK ==
  ASSUME NEW r \in Row, RowOK(r)
  PROVE  /\ Renewed(r) \in Row /\ RowOK(Renewed(r))
         /\ Renewed(r).token = r.token
<1>1. /\ Renewed(r) \in Row
      /\ Renewed(r).token = r.token
      /\ Renewed(r).status = r.status
      /\ Renewed(r).attempt = r.attempt
  BY JobsAssumption DEF Renewed, Row
<1> QED  BY <1>1 DEF RowOK

\* A worker with a claim keeps it and moves on, or drops it.
LEMMA WorkerMovesOK ==
  ASSUME IInv, NEW w \in Workers, worker[w].pc \notin {"idle", "down"},
         NEW pc \in PCs \ {"idle", "down"}, NEW lost \in BOOLEAN,
         \/ worker' = [worker EXCEPT ![w] = Free]
         \/ worker' = [worker EXCEPT ![w] = [worker[w] EXCEPT !.pc = pc]]
         \/ worker' = [worker EXCEPT ![w] = [worker[w] EXCEPT !.lost = lost]]
  PROVE  /\ worker' \in [Workers -> WorkerState]
         /\ \A v \in Workers :
              \/ /\ worker'[v].token = NoToken /\ worker'[v].pc \in {"idle", "down"}
              \/ /\ worker'[v].token = worker[v].token /\ worker'[v].job = worker[v].job
                 /\ worker'[v].epoch = worker[v].epoch
                 /\ \/ worker[v].pc \notin {"idle", "down"} /\ worker'[v].pc \notin {"idle", "down"}
                    \/ worker'[v].pc = worker[v].pc
<1> DEFINE next(s) ==
      /\ s \in WorkerState
      /\ \/ s.token = NoToken /\ s.pc \in {"idle", "down"}
         \/ /\ s.token = worker[w].token /\ s.job = worker[w].job
            /\ s.epoch = worker[w].epoch /\ s.pc \notin {"idle", "down"}
<1>1. worker[w] \in WorkerState /\ worker \in [Workers -> WorkerState]
  BY DEF IInv, TypeOK
<1>2. next(Free)
  BY DEF WorkerState, PCs, Free, NoToken
<1>3. next([worker[w] EXCEPT !.pc = pc])
  <2>1. [worker[w] EXCEPT !.pc = pc] \in WorkerState  BY <1>1 DEF WorkerState
  <2>2. [worker[w] EXCEPT !.pc = pc].pc = pc  BY <1>1 DEF WorkerState
  <2>3. /\ [worker[w] EXCEPT !.pc = pc].token = worker[w].token
        /\ [worker[w] EXCEPT !.pc = pc].job = worker[w].job
        /\ [worker[w] EXCEPT !.pc = pc].epoch = worker[w].epoch
    BY <1>1 DEF WorkerState
  <2> QED  BY <2>1, <2>2, <2>3
<1>4. next([worker[w] EXCEPT !.lost = lost])
  <2>1. [worker[w] EXCEPT !.lost = lost] \in WorkerState  BY <1>1 DEF WorkerState
  <2>2. /\ [worker[w] EXCEPT !.lost = lost].token = worker[w].token
        /\ [worker[w] EXCEPT !.lost = lost].job = worker[w].job
        /\ [worker[w] EXCEPT !.lost = lost].epoch = worker[w].epoch
        /\ [worker[w] EXCEPT !.lost = lost].pc = worker[w].pc
    BY <1>1 DEF WorkerState
  <2> QED  BY <2>1, <2>2
<1>5. PICK s : worker' = [worker EXCEPT ![w] = s] /\ next(s)
  BY <1>2, <1>3, <1>4
<1> QED  BY <1>1, <1>5

\* A statement a working worker sends: one row changes at most, and the worker
\* keeps its claim or drops it.
LEMMA StatementOK ==
  ASSUME IInv, NEW w \in Workers, worker[w].pc \notin {"idle", "down"}, NEW where \in BOOLEAN,
         NEW r \in Row, RowOK(r), r.token \in {NoToken, RowOf(w).token},
         \/ UpdateRowIf(w, where, r)
         \/ row' = row,
         NEW pc \in PCs \ {"idle", "down"}, NEW lost \in BOOLEAN,
         \/ worker' = [worker EXCEPT ![w] = Free]
         \/ worker' = [worker EXCEPT ![w] = [worker[w] EXCEPT !.pc = pc]]
         \/ worker' = [worker EXCEPT ![w] = [worker[w] EXCEPT !.lost = lost]],
         UNCHANGED <<epoch, nextToken, enqueues, crashes>>
  PROVE  IInv'
<1>1. /\ row' \in [Jobs -> Row]
      /\ \A j \in Jobs : RowOK(row'[j]) /\ row'[j].token \in {NoToken, row[j].token}
  BY UpdateOK DEF IInv, TypeOK, RowsOK
<1>2. /\ epoch' \in [Jobs -> Nat] /\ enqueues' \in 0..MaxEnqueues /\ crashes' \in 0..MaxCrashes
  BY DEF IInv, TypeOK
<1> HIDE DEF IInv, UpdateRowIf
<1> QED  BY <1>1, <1>2, WorkerMovesOK, QuietStep

\* The statement that settles a claim, whether or not its WHERE holds.
LEMMA SettleOK ==
  ASSUME IInv, NEW w \in Workers, worker[w].pc \notin {"idle", "down"},
         NEW r \in Row, RowOK(r), r.token = NoToken,
         row' = row \/ row' = [row EXCEPT ![worker[w].job] = r],
         worker' = [worker EXCEPT ![w] = Free],
         UNCHANGED <<epoch, nextToken, enqueues, crashes>>
  PROVE  IInv'
<1>1. UpdateRowIf(w, TRUE, r) \/ row' = row
  BY DEF UpdateRowIf
<1>2. TRUE \in BOOLEAN /\ "failing" \in PCs \ {"idle", "down"}
  BY DEF PCs
<1> QED  BY <1>1, <1>2, StatementOK

\* A claim: the one step that draws a token.
LEMMA ClaimOK ==
  ASSUME IInv, NEW w \in Workers, NEW j \in Jobs, Claim(w, j)  PROVE  IInv'
<1> DEFINE swept == [k \in Jobs |-> Swept(row[k])]
<1>1. /\ \A k \in Jobs : swept[k] \in Row /\ RowOK(swept[k])
      /\ \A k \in Jobs : swept[k].token \in {NoToken, row[k].token}
  BY SweptOK DEF IInv, TypeOK, RowsOK
<1>2. /\ swept[j].attempt \in 0..(MaxAttempts - 1)
      /\ row' = [swept EXCEPT ![j] = ClaimedRow(swept[j])]
      /\ worker[w].pc = "idle" /\ nextToken' = nextToken + 1 /\ nextToken \in Nat \ {0}
      /\ UNCHANGED <<epoch, enqueues, crashes>>
  BY <1>1, JobsAssumption DEF Claim, Due, IInv, TypeOK, Row
<1> DEFINE s == [pc |-> "claimed", job |-> j, token |-> nextToken,
                 epoch |-> epoch[j], lost |-> FALSE]
<1>3. worker' = [worker EXCEPT ![w] = s]
  BY DEF Claim, SetWorker, FreshToken
<1>4. s \in WorkerState
  BY <1>2 DEF WorkerState, PCs, IInv, TypeOK
<1>5. /\ ClaimedRow(swept[j]) \in Row /\ RowOK(ClaimedRow(swept[j]))
      /\ ClaimedRow(swept[j]).token = nextToken
  <2>1. swept[j].attempt + 1 \in 1..MaxAttempts /\ ClaimTTL \in Nat /\ swept[j].delay \in Nat
    BY <1>1, <1>2, JobsAssumption DEF Row
  <2> HIDE DEF swept
  <2>2. /\ ClaimedRow(swept[j]) \in Row /\ ClaimedRow(swept[j]).status = "running"
        /\ ClaimedRow(swept[j]).attempt = swept[j].attempt + 1
        /\ ClaimedRow(swept[j]).token = nextToken
    BY <1>2, <2>1 DEF ClaimedRow, FreshToken, Row, Statuses
  <2> QED  BY <1>2, <2>1, <2>2 DEF RowOK, NoToken
<1>6. \A k \in Jobs : row[k].token \in Nat /\ row[k].token < nextToken
  BY DEF IInv, TypeOK, RowsOK, Row
<1>7. \A v \in Workers : worker[v].token \in Nat /\ worker[v].token < nextToken
  BY DEF IInv, TypeOK, WorkersOK, WorkerState
<1> HIDE DEF swept
<1>8. TypeOK'
  <2>1. row' \in [Jobs -> Row]
    BY <1>1, <1>2, <1>5 DEF swept
  <2> QED  BY <1>2, <1>3, <1>4, <2>1 DEF IInv, TypeOK
<1>9. row' = [k \in Jobs |-> IF k = j THEN ClaimedRow(swept[j]) ELSE swept[k]]
  BY <1>2 DEF swept
<1>10. worker' = [v \in Workers |-> IF v = w THEN s ELSE worker[v]]
  BY <1>3 DEF IInv, TypeOK
<1>11. RowsOK'
  BY <1>1, <1>2, <1>5, <1>6, <1>9 DEF RowsOK, NoToken
<1>12. WorkersOK'
  BY <1>2, <1>7, <1>10 DEF WorkersOK, IInv, NoToken
<1>13. TokensDistinct'
  BY <1>2, <1>7, <1>10 DEF TokensDistinct, IInv, NoToken
<1>14. TokenCurrent'
  BY <1>1, <1>2, <1>5, <1>6, <1>7, <1>9, <1>10 DEF TokenCurrent, IInv, NoToken
<1> QED  BY <1>8, <1>11, <1>12, <1>13, <1>14 DEF IInv

LEMMA NextIInv == IInv /\ [Next]_vars => IInv'
<1> SUFFICES ASSUME IInv, [Next]_vars  PROVE IInv'
  OBVIOUS
<1>0. /\ row \in [Jobs -> Row] /\ worker \in [Workers -> WorkerState] /\ epoch \in [Jobs -> Nat]
      /\ enqueues \in 0..MaxEnqueues /\ crashes \in 0..MaxCrashes
      /\ \A j \in Jobs : row[j] \in Row /\ RowOK(row[j])
      /\ \A w \in Workers : worker[w].pc \notin {"idle", "down"} =>
           RowOf(w) \in Row /\ RowOK(RowOf(w))
  BY DEF IInv, TypeOK, RowsOK, WorkersOK, RowOf
<1>02. \A w \in Workers : worker[w].pc \in PCs  BY <1>0 DEF WorkerState
\* What a worker's statement may write.
<1>01. \A w \in Workers : worker[w].pc \notin {"idle", "down"} =>
          /\ Renewed(RowOf(w)) \in Row
          /\ RowOK(Renewed(RowOf(w)))
          /\ Renewed(RowOf(w)).token = RowOf(w).token
  BY <1>0, RenewedOK
\* Rows a producer writes.
<1>1. ASSUME NEW j \in Jobs, NEW d \in Nat, row' = [row EXCEPT ![j] = FreshRow(d)],
             epoch' = [epoch EXCEPT ![j] = @ + 1], enqueues' \in 0..MaxEnqueues,
             UNCHANGED <<worker, nextToken, crashes>>
      PROVE  IInv'
  <2>1. FreshRow(d) \in Row /\ RowOK(FreshRow(d)) /\ FreshRow(d).token = NoToken
    BY FreshRowOK
  <2>2. row' \in [Jobs -> Row] /\ epoch' \in [Jobs -> Nat]
    BY <1>0, <1>1, <2>1
  <2>3. \A k \in Jobs : /\ RowOK(row'[k])
                        /\ \/ row'[k].token = NoToken
                           \/ row'[k].token = row[k].token /\ epoch'[k] = epoch[k]
    BY <1>0, <1>1, <2>1
  <2> HIDE DEF IInv
  <2> QED  BY <1>0, <1>1, <2>2, <2>3, QuietStep
<1>2. ASSUME NEW j \in Jobs, NEW policy \in {"skip", "replace"}, NEW d \in StartDelays,
             Enqueue(j, policy, d)
      PROVE  IInv'
  <2>1. d \in Nat /\ enqueues' \in 0..MaxEnqueues
    BY <1>0, <1>2, JobsAssumption DEF Enqueue
  <2> QED  BY <1>1, <1>2, <2>1 DEF Enqueue
<1>3. ASSUME NEW j \in Jobs, Replay(j)  PROVE IInv'
  <2>1. enqueues' \in 0..MaxEnqueues
    BY <1>0, <1>3, JobsAssumption DEF Replay
  <2> QED  BY <1>1, <1>3, <2>1 DEF Replay
\* Steps that change rows and no worker.
<1>4. ASSUME NEW f, row' = [j \in Jobs |-> f[j]],
             \A j \in Jobs : f[j] \in Row /\ RowOK(f[j]) /\ f[j].token \in {NoToken, row[j].token},
             UNCHANGED <<worker, epoch, nextToken, enqueues, crashes>>
      PROVE  IInv'
  <2>1. row' \in [Jobs -> Row]
    BY <1>4
  <2>2. \A k \in Jobs : /\ RowOK(row'[k])
                        /\ \/ row'[k].token = NoToken
                           \/ row'[k].token = row[k].token /\ epoch'[k] = epoch[k]
    BY <1>4
  <2> HIDE DEF IInv
  <2> QED  BY <1>0, <1>4, <2>1, <2>2, QuietStep
<1>5. ASSUME NEW w \in Workers, Poll(w)  PROVE IInv'
  <2>1. CASE ClaimNone(w)
    <3> DEFINE swept == [k \in Jobs |-> Swept(row[k])]
    <3>1. row' = [j \in Jobs |-> swept[j]] /\ UNCHANGED <<worker, epoch, nextToken, enqueues, crashes>>
      BY <2>1 DEF ClaimNone
    <3>2. \A j \in Jobs : swept[j] \in Row /\ RowOK(swept[j]) /\ swept[j].token \in {NoToken, row[j].token}
      BY <1>0, SweptOK
    <3> HIDE DEF swept
    <3> QED  BY <1>4, <3>1, <3>2
  <2> QED  BY <1>5, <2>1, ClaimOK DEF Poll
<1>6. ASSUME NEW w \in Workers, MarkRunning(w) \/ Confirm(w)  PROVE IInv'
  <2>1. worker[w].pc \notin {"idle", "down"}
    BY <1>6 DEF MarkRunning, Confirm
  <2>2. PICK where \in BOOLEAN, pc \in PCs \ {"idle", "down"} :
          /\ UpdateRowIf(w, where, Renewed(RowOf(w)))
          /\ worker' = [worker EXCEPT ![w] = [worker[w] EXCEPT !.pc = pc]]
          /\ UNCHANGED <<epoch, nextToken, enqueues, crashes>>
    BY <1>6 DEF MarkRunning, Confirm, Goto, SetWorker, PCs, HoldsLive, Holds
  <2> QED  BY <1>01, <2>1, <2>2, StatementOK
<1>7. ASSUME NEW w \in Workers, Heartbeat(w)  PROVE IInv'
  <2>1. worker[w].pc \notin {"idle", "down"}
    BY <1>7 DEF Heartbeat
  <2>2. PICK where \in BOOLEAN, lost \in BOOLEAN :
          /\ UpdateRowIf(w, where, Renewed(RowOf(w)))
          /\ worker' = [worker EXCEPT ![w] = [worker[w] EXCEPT !.lost = lost]]
          /\ UNCHANGED <<epoch, nextToken, enqueues, crashes>>
    BY <1>7 DEF Heartbeat, SetWorker, HoldsLive, Holds
  <2>3. "handling" \in PCs \ {"idle", "down"}
    BY DEF PCs
  <2> QED  BY <1>01, <2>1, <2>2, <2>3, StatementOK
<1>8. ASSUME NEW w \in Workers,
             HandlerEnds(w) \/ ConfirmRefused(w) \/ BackendError(w)
      PROVE  IInv'
  <2>1. worker[w].pc \notin {"idle", "down"}
    BY <1>8 DEF HandlerEnds, HandlerReturns, HandlerRaises, ConfirmRefused, BackendError
  <2>2. PICK pc \in PCs \ {"idle", "down"}, lost \in BOOLEAN :
          /\ \/ worker' = [worker EXCEPT ![w] = Free]
             \/ worker' = [worker EXCEPT ![w] = [worker[w] EXCEPT !.pc = pc]]
             \/ worker' = [worker EXCEPT ![w] = [worker[w] EXCEPT !.lost = lost]]
          /\ row' = row
          /\ UNCHANGED <<epoch, nextToken, enqueues, crashes>>
    BY <1>8 DEF HandlerEnds, HandlerReturns, HandlerRaises, ConfirmRefused, BackendError,
                Goto, Settle, SetWorker, PCs
  <2>3. RowOf(w) \in Row /\ RowOK(RowOf(w))  BY <1>0, <2>1
  <2> QED  BY <2>1, <2>2, <2>3, StatementOK
<1>9. ASSUME NEW w \in Workers, MarkSucceeded(w)  PROVE IInv'
  <2>1. worker[w].pc \notin {"idle", "down"}
    BY <1>9 DEF MarkSucceeded
  <2>2. RowOf(w) \in Row /\ RowOK(RowOf(w))  BY <1>0, <2>1
  <2> DEFINE done == Unclaimed(RowOf(w), "succeeded", RowOf(w).delay)
  <2>3. CASE HoldsLive(w)
    <3>1. RowOf(w).attempt \in 1..MaxAttempts
      BY <2>2, <2>3 DEF HoldsLive, Holds, RowOf, RowOK
    <3>2. done \in Row /\ RowOK(done) /\ done.token = NoToken
      BY <2>2, <3>1, JobsAssumption DEF Unclaimed, Row, RowOK, Statuses, Terminal, NoToken
    <3>3. /\ row' = [row EXCEPT ![worker[w].job] = done] /\ worker' = [worker EXCEPT ![w] = Free]
          /\ UNCHANGED <<epoch, nextToken, enqueues, crashes>>
      BY <1>9, <2>3 DEF MarkSucceeded, Settle, SetWorker, UpdateRowIf
    <3> HIDE DEF done
    <3> QED  BY <2>1, <3>2, <3>3, SettleOK
  <2>4. CASE ~HoldsLive(w)
    <3>1. /\ row' = row /\ worker' = [worker EXCEPT ![w] = Free]
          /\ UNCHANGED <<epoch, nextToken, enqueues, crashes>>
      BY <1>9, <2>4 DEF MarkSucceeded, Settle, SetWorker, UpdateRowIf
    <3>2. FreshRow(0) \in Row /\ RowOK(FreshRow(0)) /\ FreshRow(0).token = NoToken
      BY FreshRowOK
    <3> QED  BY <1>0, <2>1, <3>1, <3>2, SettleOK
  <2> QED  BY <2>3, <2>4
<1>10. ASSUME NEW w \in Workers, MarkFailed(w)  PROVE IInv'
  <2>1. worker[w].pc \notin {"idle", "down"}
    BY <1>10 DEF MarkFailed
  <2>2. RowOf(w) \in Row /\ RowOK(RowOf(w))  BY <1>0, <2>1
  <2>3. CASE Holds(w)
    <3>1. RowOf(w).status = "running"
      BY <2>3 DEF Holds, RowOf
    <3>2. FailedRow(RowOf(w)) \in Row /\ RowOK(FailedRow(RowOf(w))) /\ FailedRow(RowOf(w)).token = NoToken
      BY <2>2, <3>1, FailedRowOK
    <3>3. /\ row' = [row EXCEPT ![worker[w].job] = FailedRow(RowOf(w))]
          /\ worker' = [worker EXCEPT ![w] = Free]
          /\ UNCHANGED <<epoch, nextToken, enqueues, crashes>>
      BY <1>10, <2>3 DEF MarkFailed, Settle, SetWorker, UpdateRowIf
    <3> QED  BY <2>1, <3>2, <3>3, SettleOK
  <2>4. CASE ~Holds(w)
    <3>1. /\ row' = row /\ worker' = [worker EXCEPT ![w] = Free]
          /\ UNCHANGED <<epoch, nextToken, enqueues, crashes>>
      BY <1>10, <2>4 DEF MarkFailed, Settle, SetWorker, UpdateRowIf
    <3>2. FreshRow(0) \in Row /\ RowOK(FreshRow(0)) /\ FreshRow(0).token = NoToken
      BY FreshRowOK
    <3> QED  BY <1>0, <2>1, <3>1, <3>2, SettleOK
  <2> QED  BY <2>3, <2>4
<1>11. ASSUME NEW w \in Workers, Crash(w) \/ Restart(w)  PROVE IInv'
  <2>1. PICK s \in WorkerState :
          /\ s.token = NoToken /\ s.pc \in {"idle", "down"}
          /\ worker' = [worker EXCEPT ![w] = s]
    BY <1>11 DEF Crash, Restart, Settle, SetWorker, Free, WorkerState, PCs, NoToken
  <2>2. /\ UNCHANGED <<row, epoch, nextToken, enqueues>> /\ crashes' \in 0..MaxCrashes
    BY <1>0, <1>11, JobsAssumption DEF Crash, Restart
  <2>3. worker' \in [Workers -> WorkerState]
    BY <1>0, <2>1
  <2>4. \A v \in Workers : \/ worker'[v].token = NoToken /\ worker'[v].pc \in {"idle", "down"}
                           \/ worker'[v] = worker[v]
    BY <1>0, <2>1
  <2> QED  BY <1>0, <2>2, <2>3, <2>4, QuietStep
<1>12. ASSUME Tick  PROVE IInv'
  <2> DEFINE f == [j \in Jobs |-> Aged(row[j])]
  <2>1. \A j \in Jobs : Aged(row[j]) \in Row /\ RowOK(Aged(row[j])) /\ Aged(row[j]).token = row[j].token
    <3> SUFFICES ASSUME NEW j \in Jobs
                 PROVE Aged(row[j]) \in Row /\ RowOK(Aged(row[j])) /\ Aged(row[j]).token = row[j].token
      OBVIOUS
    <3>0. row[j].lease \in 0..ClaimTTL /\ row[j].delay \in Nat
      BY <1>0 DEF Row
    <3>1. Elapse(row[j].lease) \in 0..ClaimTTL /\ Elapse(row[j].delay) \in Nat
      BY <3>0, JobsAssumption DEF Elapse
    <3>2. /\ Aged(row[j]) \in Row /\ Aged(row[j]).token = row[j].token
          /\ Aged(row[j]).status = row[j].status /\ Aged(row[j]).attempt = row[j].attempt
      BY <1>0, <3>1 DEF Aged, Row
    <3> QED  BY <1>0, <3>2 DEF RowOK
  <2>2. row' = [j \in Jobs |-> f[j]] /\ UNCHANGED <<worker, epoch, nextToken, enqueues, crashes>>
    BY <1>12 DEF Tick
  <2>3. \A j \in Jobs : f[j] \in Row /\ RowOK(f[j]) /\ f[j].token \in {NoToken, row[j].token}
    BY <2>1
  <2> HIDE DEF f
  <2> QED  BY <1>4, <2>2, <2>3
<1>13. CASE UNCHANGED vars
  BY <1>13 DEF vars, IInv, TypeOK, RowsOK, WorkersOK, TokensDistinct, TokenCurrent
<1> QED
  BY <1>2, <1>3, <1>5, <1>6, <1>7, <1>8, <1>9, <1>10, <1>11, <1>12, <1>13
     DEF Next, WorkerStep, Report

\* The inductive invariant holds in every reachable state.
THEOREM Invariance == Spec => []IInv
BY InitIInv, NextIInv, PTL DEF Spec

\* Type correctness of the table and of the workers.
THEOREM TypeCorrect == Spec => []TypeOK
BY Invariance, PTL DEF IInv

-----------------------------------------------------------------------------
(* What follows from the invariant. *)

\* Fencing: whatever a stale worker sends, its token matches no row.
THEOREM Fencing == Spec => []ClaimIsCurrent
<1>1. IInv => ClaimIsCurrent
  BY DEF IInv, TypeOK, RowsOK, RowOK, WorkersOK, TokensDistinct, TokenCurrent, ClaimIsCurrent, Holds
<1> QED  BY <1>1, Invariance, PTL

\* No row is stranded and no job is given up early.
THEOREM NotStranded == Spec => []NeverStranded
<1>1. IInv => NeverStranded
  <2> SUFFICES ASSUME IInv, NEW j \in Jobs
               PROVE  /\ row[j].status \in {"pending", "retrying"} =>
                           row[j].attempt < MaxAttempts /\ row[j].token = NoToken
                      /\ row[j].status = "running" =>
                           row[j].attempt \in 1..MaxAttempts /\ row[j].token # NoToken
                      /\ row[j].status = "dead_lettered" => row[j].attempt = MaxAttempts
    BY DEF NeverStranded
  <2> QED  BY JobsAssumption DEF IInv, RowsOK, RowOK
<1> QED  BY <1>1, Invariance, PTL

\* What one step does to one row.
RowStep(j) ==
  \/ row'[j] = row[j]
  \/ row'[j].status = "pending" /\ row'[j].attempt = 0 /\ row[j].status # "running"
  \/ row'[j] = Swept(row[j])
  \/ Due(Swept(row[j])) /\ row'[j] = ClaimedRow(Swept(row[j]))
  \/ row'[j] = Aged(row[j])
  \/ row'[j] = Renewed(row[j])
  \/ \E w \in Workers :
       /\ worker[w].pc = "confirmed" /\ HoldsLive(w) /\ worker[w].job = j
       /\ row'[j] = Unclaimed(row[j], "succeeded", row[j].delay) /\ worker'[w] = Free
  \/ \E w \in Workers :
       /\ worker[w].pc = "failing" /\ Holds(w) /\ worker[w].job = j
       /\ row'[j] = FailedRow(row[j]) /\ worker'[w] = Free

LEMMA StepsOfARow == IInv /\ [Next]_vars => \A j \in Jobs : RowStep(j)
<1> SUFFICES ASSUME IInv, [Next]_vars, NEW j \in Jobs  PROVE RowStep(j)
  OBVIOUS
<1> USE DEF RowStep
<1>0. row \in [Jobs -> Row] /\ worker \in [Workers -> WorkerState]
  BY DEF IInv, TypeOK
<1>1. ASSUME NEW k \in Jobs, NEW d \in Nat, row[k].status # "running",
             row' = [row EXCEPT ![k] = FreshRow(d)]
      PROVE  RowStep(j)
  BY <1>0, <1>1 DEF FreshRow, Unclaimed, AbsentRow
<1>2. ASSUME NEW k \in Jobs, NEW policy \in {"skip", "replace"}, NEW d \in StartDelays,
             Enqueue(k, policy, d)
      PROVE  RowStep(j)
  BY <1>1, <1>2, JobsAssumption DEF Enqueue, Replaceable, Terminal
<1>3. ASSUME NEW k \in Jobs, Replay(k)  PROVE RowStep(j)
  BY <1>1, <1>3 DEF Replay
<1>4. ASSUME NEW w \in Workers, ClaimNone(w)  PROVE RowStep(j)
  BY <1>4 DEF ClaimNone
<1>5. ASSUME NEW w \in Workers, NEW k \in Jobs, Claim(w, k)  PROVE RowStep(j)
  <2> DEFINE swept == [i \in Jobs |-> Swept(row[i])]
  <2>1. Due(swept[k]) /\ row' = [swept EXCEPT ![k] = ClaimedRow(swept[k])]
    BY <1>5 DEF Claim
  <2> HIDE DEF RowStep
  <2>2. CASE j = k
    <3>1. Due(Swept(row[j])) /\ row'[j] = ClaimedRow(Swept(row[j]))
      BY <2>1, <2>2
    <3> QED  BY <3>1 DEF RowStep
  <2>3. CASE j # k
    <3>1. row'[j] = Swept(row[j])
      BY <2>1, <2>3
    <3> QED  BY <3>1 DEF RowStep
  <2> QED  BY <2>2, <2>3
<1>6. ASSUME NEW w \in Workers, MarkRunning(w) \/ Confirm(w) \/ Heartbeat(w)
      PROVE  RowStep(j)
  BY <1>0, <1>6 DEF MarkRunning, Confirm, Heartbeat, UpdateRowIf, RowOf
<1>7. ASSUME NEW w \in Workers, MarkSucceeded(w)  PROVE RowStep(j)
  BY <1>0, <1>7 DEF MarkSucceeded, UpdateRowIf, RowOf, Settle, SetWorker
<1>8. ASSUME NEW w \in Workers, MarkFailed(w)  PROVE RowStep(j)
  BY <1>0, <1>8 DEF MarkFailed, UpdateRowIf, RowOf, Settle, SetWorker
<1>9. CASE UNCHANGED row
  BY <1>9
<1>10. CASE Tick
  BY <1>10 DEF Tick
<1>11. ASSUME NEW w \in Workers,
              HandlerEnds(w) \/ ConfirmRefused(w) \/ BackendError(w) \/ Crash(w) \/ Restart(w)
       PROVE  UNCHANGED row
  BY <1>11 DEF HandlerEnds, HandlerReturns, HandlerRaises, ConfirmRefused, BackendError, Crash, Restart
<1> HIDE DEF RowStep
<1> QED
  BY <1>2, <1>3, <1>4, <1>5, <1>6, <1>7, <1>8, <1>9, <1>10, <1>11
     DEF Next, WorkerStep, Poll, Report, vars

\* Only a handler that returned under a live claim on the latest enqueue of a
\* key is recorded as the job's success.
THEOREM NoStale == Spec => NoStaleSuccess
<1>1. IInv /\ [Next]_vars => [SuccessIsCurrent]_vars
  <2> SUFFICES ASSUME IInv, [Next]_vars, NEW j \in Jobs,
                      row'[j].status = "succeeded", row[j].status # "succeeded"
               PROVE  /\ row[j].lease > 0
                      /\ \E w \in Workers : /\ worker[w].pc = "confirmed" /\ worker[w].job = j
                                            /\ worker[w].token = row[j].token
                                            /\ worker[w].epoch = epoch[j]
    BY DEF SuccessIsCurrent
  <2>1. RowStep(j)  BY StepsOfARow
  <2>2. row[j] \in Row /\ RowOK(row[j])  BY DEF IInv, TypeOK, RowsOK
  <2>3. Swept(row[j]).status # "succeeded"
    BY <2>2, SweptOK
  <2>4. row[j].status = "running" => FailedRow(row[j]).status # "succeeded"
    BY <2>2, FailedRowOK
  <2>40. Renewed(row[j]).status = row[j].status
    BY <2>2 DEF Renewed, Row
  <2>5. PICK w \in Workers : worker[w].pc = "confirmed" /\ HoldsLive(w) /\ worker[w].job = j
    BY <2>1, <2>2, <2>3, <2>4, <2>40 DEF RowStep, ClaimedRow, Aged, Holds
  <2>6. worker[w].token = row[j].token /\ row[j].lease > 0
    BY <2>5 DEF HoldsLive, Holds
  <2>7. worker[w].epoch = epoch[j]
    BY <2>5, <2>6 DEF IInv, TokenCurrent, WorkersOK
  <2> QED  BY <2>5, <2>6, <2>7
<1> QED  BY <1>1, Invariance, PTL DEF Spec, NoStaleSuccess

\* A live claim is taken away by nobody but its holder.
THEOREM LeaseProtects == Spec => LeaseProtectsHolder
<1>1. IInv /\ [Next]_vars => [OnlyHolderLetsGo]_vars
  <2> SUFFICES ASSUME IInv, [Next]_vars, NEW j \in Jobs,
                      row[j].status = "running", row[j].lease > 0, row'[j].token # row[j].token
               PROVE  \E w \in Workers : /\ Holds(w) /\ worker[w].job = j
                                         /\ worker[w].pc \in {"confirmed", "failing"}
                                         /\ worker'[w] = Free
    BY DEF OnlyHolderLetsGo
  <2>1. RowStep(j)  BY StepsOfARow
  <2>2. row[j] \in Row  BY DEF IInv, TypeOK
  <2>3. Swept(row[j]) = row[j]
    BY <2>2 DEF Swept, Row
  <2>4. ~Due(row[j])  BY DEF Due
  <2>5. Renewed(row[j]).token = row[j].token
    BY <2>2 DEF Renewed, Row
  <2> QED  BY <2>1, <2>2, <2>3, <2>4, <2>5 DEF RowStep, Aged, HoldsLive
<1> QED  BY <1>1, Invariance, PTL DEF Spec, LeaseProtectsHolder

-----------------------------------------------------------------------------
(* The table implements the contract of a job key. *)

\* Every step of the table is a step of the contract, or leaves it unchanged.
THEOREM Implements == Spec => KeepsContract
<1>1. Init => Contract!Init
  BY DEF Init, Contract!Init, ContractState, AbsentRow
<1>2. IInv /\ IInv' /\ [Next]_vars => [Contract!Next]_(<<[j \in Jobs |-> ContractState(row[j])],
                                               [j \in Jobs |-> row[j].attempt]>>)
  <2> SUFFICES ASSUME IInv, IInv', [Next]_vars, NEW j \in Jobs
               PROVE  \/ Contract!Accept(j) \/ Contract!Try(j) \/ Contract!Finish(j)
                      \/ Contract!GiveUp(j) \/ Contract!Stay(j)
    BY DEF Contract!Next
  <2> USE DEF Contract!Move
  <2>1. RowStep(j)  BY StepsOfARow
  <2>2. row[j] \in Row /\ RowOK(row[j])  BY DEF IInv, TypeOK, RowsOK
  <2>3. CASE ContractState(row'[j]) = ContractState(row[j]) /\ row'[j].attempt = row[j].attempt
    BY <2>3 DEF Contract!Stay
  <2>4. CASE row'[j].status = "pending" /\ row'[j].attempt = 0
    BY <2>4 DEF Contract!Accept, ContractState
  <2>5. CASE row'[j] = Swept(row[j])
    <3>1. CASE row[j].status = "running" /\ row[j].attempt = MaxAttempts
               /\ row'[j].status = "dead_lettered" /\ row'[j].attempt = row[j].attempt
      BY <3>1 DEF Contract!GiveUp, ContractState
    <3> QED  BY <2>2, <2>3, <2>5, <3>1, SweptOK DEF ContractState
  <2>6. CASE Due(Swept(row[j])) /\ row'[j] = ClaimedRow(Swept(row[j]))
    <3>1. Swept(row[j]).attempt = row[j].attempt /\ row[j].attempt < MaxAttempts
      BY <2>2, <2>6, SweptOK DEF Due
    <3>2. row[j].status \in {"pending", "retrying", "running"}
      BY <2>2, <2>6, SweptOK DEF Due
    <3>3. row'[j].status = "running" /\ row'[j].attempt = row[j].attempt + 1
      BY <2>6, <3>1 DEF ClaimedRow
    <3> QED  BY <3>1, <3>2, <3>3 DEF Contract!Try, ContractState
  <2>7. CASE row'[j] = Aged(row[j])
    BY <2>3, <2>7 DEF Aged, ContractState
  <2>8. CASE row'[j] = Renewed(row[j])
    BY <2>2, <2>3, <2>8 DEF ContractState, Renewed, Row
  <2>9. CASE row[j].status = "running" /\ row'[j] = Unclaimed(row[j], "succeeded", row[j].delay)
    <3>1. row[j].attempt \in 1..MaxAttempts
      BY <2>2, <2>9 DEF RowOK
    <3>2. row'[j].status = "succeeded" /\ row'[j].attempt = row[j].attempt
      BY <2>9 DEF Unclaimed
    <3> QED  BY <2>9, <3>1, <3>2 DEF Contract!Finish, ContractState
  <2>10. CASE row[j].status = "running" /\ row'[j] = FailedRow(row[j])
    <3>1. CASE row[j].attempt = MaxAttempts
               /\ row'[j].status = "dead_lettered" /\ row'[j].attempt = row[j].attempt
      BY <2>10, <3>1 DEF Contract!GiveUp, ContractState
    <3> QED  BY <2>2, <2>3, <2>10, <3>1, FailedRowOK DEF ContractState
  <2> QED  BY <2>1, <2>3, <2>4, <2>5, <2>6, <2>7, <2>8, <2>9, <2>10 DEF RowStep, HoldsLive, Holds
<1> QED  BY <1>1, <1>2, Invariance, PTL DEF Spec, KeepsContract, Contract!Spec
=============================================================================
