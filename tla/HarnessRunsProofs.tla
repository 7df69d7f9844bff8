-------------------------- MODULE HarnessRunsProofs --------------------------
(****************************************************************************)
(* Proofs about HarnessRuns for any runs and requests.  Types, and who      *)
(* waits for whom (the last section), need no more.  The rest is shown when *)
(* no run is cancelled before its producer has started: otherwise a thread  *)
(* may have two active runs.  Two results need more still.  When a wait     *)
(* runs out, a checkpoint may be restored while the producer is still at    *)
(* work; and a blocking call reports success after it was superseded, when  *)
(* its writes are nobody's to keep.                                         *)
(****************************************************************************)
EXTENDS HarnessRuns, TLAPS

Orderly == ~Overtaking
NoCalls == "blocking" \notin Kinds

(* The life of a run: its status goes with where its request, its producer  *)
(* and its graph are, and a cancellation that is under way always finds the *)
(* producer at work.                                                        *)
Life(r) ==
    /\ op[r].pc = "idle" => run[r].status = "absent"
    /\ op[r].pc \in {"rolling", "reporting", "settling"} =>
           run[r].status = "pending" /\ body[r] = "none"
    /\ body[r] # "none" => op[r].pc = "done"
    /\ run[r].status = "absent" => kind[r] = "none" /\ body[r] = "none"
    /\ body[r] = "none" => run[r].status \in {"absent", "pending"}
    /\ body[r] = "scheduled" => run[r].status = "pending"
    /\ run[r].status = "pending" => body[r] \in {"none", "scheduled"}
    /\ run[r].status = "running" => Working(r) \/ body[r] = "invoking"
    /\ Working(r) => \/ run[r].status = "running"
                     \/ run[r].status = "interrupted" /\ (r \in signal \/ body[r] = "acting")
    /\ body[r] = "invoking" => run[r].status \in {"running", "interrupted"}
    /\ r \in signal => Working(r) /\ run[r].status = "interrupted"
    /\ kind[r] = "blocking" => body[r] \in {"none", "invoking", "done"}
    /\ body[r] = "invoking" => kind[r] = "blocking"
    /\ body[r] = "acting" => kind[r] = "action"
    /\ body[r] \in {"streaming", "unwinding"} => kind[r] = "stream"
    /\ kind[r] \notin {"stream", "blocking"} \/ body[r] \in {"none", "scheduled", "started"} =>
           graph[r] = "idle"
    /\ run[r].status = "success" => graph[r] # "stepping"

(* The runs a request has yet to roll back, and what it finds of them.      *)
Todo(p) == {v \in Runs : v \in op[p].todo \/ v = op[p].cur}

RollbackDue(v) ==
    /\ run[v].action = "rollback"
    /\ ~Timeouts /\ kind[v] # "blocking" =>
           /\ ~run[v].completed /\ body[v] # "done"
           /\ run[v].ready => body[v] = "awaiting"

RequestOK(p) ==
    /\ op[p].todo \subseteq op[p].victims
    /\ op[p].cur \in op[p].victims \union {NoRun} /\ op[p].cur \notin op[p].todo
    /\ op[p].pc \notin {"rolling", "reporting"} => op[p].todo = {} /\ op[p].cur = NoRun
    /\ op[p].pc = "reporting" => op[p].cur # NoRun /\ (run[op[p].cur].ready \/ Timeouts)
    /\ op[p].pc = "settling" => op[p].tasks = {v \in op[p].victims : kind[v] # "blocking"}
    /\ \A v \in op[p].victims : ~Inflight(v) /\ body[v] \notin {"none", "scheduled"}
    /\ \A v \in Todo(p) : RollbackDue(v)

(* No two requests roll back one run.                                       *)
Apart == \A p, q \in Ops : p # q => Todo(p) \intersect Todo(q) = {}

(* The producers of superseded runs are over when their successor has one.  *)
Succeeded(r) ==
    body[r] # "none" => \A v \in op[r].victims : kind[v] # "blocking" => body[v] = "done"

(* The checkpoints.  A run without a graph is in none of them; a run in     *)
(* flight is not in those others may bring back; and what others may bring  *)
(* back of a successful run is there, or was lost before.                   *)
Elsewhere(r) == \E q \in Runs : r \in seen[q] \/ r \in target[q]
Written(r) ==
    /\ graph[r] = "idle" => r \notin head /\ ~Elsewhere(r)
    /\ Inflight(r) => ~Elsewhere(r)
    /\ run[r].status = "success" /\ Elsewhere(r) => r \in head \union lost

Success == {r \in head \ lost : run[r].status = "success"}

(* A graph in flight, and the rollback of a run that is in flight or is     *)
(* superseded, build on the writes of the runs that succeeded.              *)
Builds(q) ==
    /\ graph[q] = "stepping" /\ Inflight(q) => Success \subseteq seen[q]
    /\ Inflight(q) \/ (\E p \in Runs : q \in Todo(p)) => Success \subseteq target[q]

IInv ==
    /\ TypeOK
    /\ \A r \in Runs : Life(r)
    /\ \A p \in Ops : RequestOK(p)
    /\ Apart
    /\ \A r \in Runs : Succeeded(r)
    /\ OneActive
    /\ NoCalls => \A r \in Runs : Written(r)
    /\ NoCalls => \A r \in Runs : Builds(r)

----------------------------------------------------------------------------
(* The steps of a producer.                                                 *)

(* What every step of the producer of r leaves as it was.                   *)
OthersKept(r) ==
    \A q \in Runs \ {r} :
        /\ run'[q] = run[q] /\ body'[q] = body[q]
        /\ graph'[q] = graph[q] /\ seen'[q] = seen[q]
        /\ q \in signal' <=> q \in signal

(* What it may do to its run.                                               *)
Advances(r) ==
    /\ Inflight(r)' => Inflight(r)
    /\ body[r] # "none" /\ body'[r] \notin {"none", "scheduled"}
    /\ body[r] = "done" => body'[r] = "done"
    /\ run[r].ready => run'[r].ready
    /\ kind[r] = "stream" /\ run[r].status = "interrupted" => run'[r].status = "interrupted"
    /\ RollbackDue(r) => RollbackDue(r)'
    /\ run'[r].status = "success" /\ run[r].status # "success" /\ kind[r] # "blocking" =>
           (Inflight(r) \/ graph[r] = "idle") /\ graph'[r] # "stepping"
    /\ graph'[r] = "idle" => graph[r] = "idle"
    /\ \/ graph'[r] = graph[r] /\ seen'[r] = seen[r]
       \/ graph[r] = "idle" /\ graph'[r] = "stepping" /\ seen'[r] = head /\ Inflight(r)

ProducerFrame(r) ==
    /\ UNCHANGED <<kind, op, head, target, lost>>
    /\ OthersKept(r) /\ Advances(r)
    /\ Life(r)'

LEMMA StatusSet ==
    ASSUME TypeOK, NEW r \in Runs, NEW s \in {"running", "success", "error", "interrupted"},
           SetStatus(r, s)
    PROVE  /\ run' \in [Runs -> RunRecord]
           /\ run'[r] = [run[r] EXCEPT !.status = s]
           /\ \A q \in Runs \ {r} : run'[q] = run[q]
  BY DEF SetStatus, TypeOK, RunRecord

LEMMA ReadySet ==
    ASSUME TypeOK, NEW r \in Runs, run' = Readied(r)
    PROVE  run' \in [Runs -> RunRecord]
  <1> DEFINE b == run[r].ready \/ run[r].action = "rollback"
  <1>1. b \in BOOLEAN /\ run' = [run EXCEPT ![r].ready = b]
    BY DEF Readied
  <1>2. run \in [Runs -> RunRecord]
    BY DEF TypeOK
  <1> HIDE DEF b
  <1>3. [run[r] EXCEPT !.ready = b] \in RunRecord
    BY <1>1, <1>2 DEF RunRecord
  <1> QED  BY <1>1, <1>2, <1>3

LEMMA ProducerSteps ==
    ASSUME Orderly, TypeOK, NEW r \in Runs, Life(r), ProducerStep(r)
    PROVE  TypeOK' /\ ProducerFrame(r)
  <1> USE DEF TypeOK, RunRecord, Bodies, vars, runVars, taskVars, threadVars, Goto, SetStatus,
          Quiet, Inflight, Working, TaskRunning, ProducerFrame, OthersKept, Advances,
          Life, RollbackDue, Finish, Orderly
  <1>1. CASE Start(r)
    <2>1. run' \in [Runs -> RunRecord]
      BY <1>1, StatusSet DEF Start
    <2>2. TypeOK'
      BY <1>1, <2>1 DEF Start
    <2>3. /\ run'[r] = [run[r] EXCEPT !.status = "running"]
          /\ \A q \in Runs \ {r} : run'[q] = run[q]
      BY <1>1, StatusSet DEF Start
    <2>4. OthersKept(r)
      BY <1>1, <2>3 DEF Start
    <2>5. Advances(r)
      BY <1>1, <2>3 DEF Start
    <2>6. Life(r)'
      BY <1>1, <2>3 DEF Start
    <2> QED  BY <1>1, <2>2, <2>4, <2>5, <2>6 DEF Start
  <1>2. CASE NeverStarts(r)
    BY <1>2 DEF NeverStarts
  <1>3. CASE BeginGraph(r)
    BY <1>3 DEF BeginGraph
  <1>4. CASE BeginAction(r)
    BY <1>4 DEF BeginAction
  <1>5. CASE Succeed(r)
    BY <1>5 DEF Succeed
  <1>6. CASE Fail(r)
    BY <1>6 DEF Fail
  <1>7. CASE SeeAbort(r)
    <2>1. TypeOK'
      <3>1. run' \in [Runs -> RunRecord]
        BY <1>7, StatusSet DEF SeeAbort
      <3> QED  BY <1>7, <3>1 DEF SeeAbort
    <2>2. ProducerFrame(r)
      BY <1>7 DEF SeeAbort
    <2> QED  BY <2>1, <2>2
  <1>8. CASE DeliverCancel(r)
    <2>1. CASE body[r] = "streaming" /\ Goto(r, "unwinding") /\ UNCHANGED run
      BY <1>8, <2>1 DEF DeliverCancel
    <2>2. CASE Finish(r, "interrupted")
      <3>1. run' \in [Runs -> RunRecord]
        BY <2>2, StatusSet
      <3>2. TypeOK'
        BY <1>8, <2>2, <3>1 DEF DeliverCancel
      <3>3. ProducerFrame(r)
        BY <1>8, <2>2 DEF DeliverCancel
      <3> QED  BY <3>2, <3>3
    <2> QED  BY <1>8, <2>1, <2>2 DEF DeliverCancel
  <1>9. CASE SwallowCancel(r)
    BY <1>9 DEF SwallowCancel
  <1>10. CASE Unwind(r)
    <2>1. TypeOK'
      <3>1. run' \in [Runs -> RunRecord]
        BY <1>10, StatusSet DEF Unwind
      <3> QED  BY <1>10, <3>1 DEF Unwind
    <2>2. OthersKept(r) /\ Advances(r)
      BY <1>10 DEF Unwind
    <2>3. Life(r)'
      BY <1>10 DEF Unwind
    <2> QED  BY <1>10, <2>1, <2>2, <2>3 DEF Unwind
  <1>11. CASE SignalReady(r)
    <2> USE <1>11 DEF SignalReady, Readied
    <2>2. run' \in [Runs -> RunRecord]
      BY ReadySet
    <2>3. TypeOK'
      BY <2>2
    <2>4. ProducerFrame(r)
      OBVIOUS
    <2> QED  BY <2>3, <2>4
  <1>12. CASE CloseStream(r)
    BY <1>12 DEF CloseStream
  <1>13. CASE BlockingEnds(r)
    <2>1. SetStatus(r, "success") \/ SetStatus(r, "error")
      BY <1>13 DEF BlockingEnds
    <2>2. /\ run' \in [Runs -> RunRecord]
          /\ \/ run'[r] = [run[r] EXCEPT !.status = "success"]
             \/ run'[r] = [run[r] EXCEPT !.status = "error"]
          /\ \A q \in Runs \ {r} : run'[q] = run[q]
      <3>1. CASE SetStatus(r, "success")
        BY <3>1, StatusSet
      <3>2. CASE SetStatus(r, "error")
        BY <3>2, StatusSet
      <3> QED  BY <2>1, <3>1, <3>2
    <2>3. kind[r] = "blocking" /\ graph[r] = "over" /\ body[r] = "invoking" /\ r \notin signal
      BY <1>13 DEF BlockingEnds
    <2>4. TypeOK'
      BY <1>13, <2>2, <2>3 DEF BlockingEnds
    <2>5. OthersKept(r) /\ Life(r)'
      BY <1>13, <2>2, <2>3 DEF BlockingEnds
    <2>6. Advances(r)
      BY <1>13, <2>2, <2>3 DEF BlockingEnds
    <2> QED  BY <1>13, <2>4, <2>5, <2>6 DEF BlockingEnds
  <1> QED
    BY <1>1, <1>2, <1>3, <1>4, <1>5, <1>6, <1>7, <1>8, <1>9, <1>10, <1>11, <1>12, <1>13
       DEF ProducerStep

LEMMA ProducerKeeps ==
    ASSUME Orderly, IInv, NEW r \in Runs, TypeOK', ProducerFrame(r)
    PROVE  IInv' /\ CancelledStreamStays /\ (NoCalls => SuccessKept)
  <1> USE DEF ProducerFrame, Inflight
  <1>1. \A q \in Runs : Life(q)'
    <2>1. SUFFICES ASSUME NEW q \in Runs, q # r PROVE Life(q)'
      OBVIOUS
    <2> QED  BY <2>1 DEF IInv, OthersKept, Life, Working
  <1>2. \A v \in Runs : /\ RollbackDue(v) => RollbackDue(v)'
                        /\ ~Inflight(v) => ~Inflight(v)'
                        /\ body[v] \notin {"none", "scheduled"} => body'[v] \notin {"none", "scheduled"}
                        /\ body[v] = "done" => body'[v] = "done"
                        /\ run[v].ready => run'[v].ready
    BY DEF OthersKept, Advances, RollbackDue
  <1>3. \A p \in Ops : Todo(p)' = Todo(p) /\ Todo(p) \subseteq Runs
    BY DEF Todo
  <1>4. \A p \in Ops : op[p].victims \subseteq Runs
    BY DEF IInv, TypeOK, Request
  <1>5. \A p \in Ops : RequestOK(p)'
    BY <1>2, <1>3, <1>4 DEF IInv, RequestOK
  <1>6. Apart'
    BY <1>3 DEF IInv, Apart
  <1>7. \A q \in Runs : Succeeded(q)'
    <2>1. ASSUME NEW q \in Runs, body'[q] # "none" PROVE body[q] # "none"
      BY <2>1 DEF OthersKept, Advances
    <2>2. \A q \in Runs : q \in Ops
      BY DEF Ops
    <2> QED  BY <1>2, <1>4, <2>1, <2>2 DEF IInv, Succeeded
  <1>8. OneActive'
    BY <1>2 DEF IInv, OneActive
  <1>9. \A q \in Runs : /\ graph'[q] = "idle" => graph[q] = "idle"
                        /\ \/ graph'[q] = graph[q] /\ seen'[q] = seen[q]
                           \/ q = r /\ graph[q] = "idle" /\ graph'[q] = "stepping"
                              /\ seen'[q] = head /\ Inflight(q)
    BY DEF OthersKept, Advances
  <1>10. \A q \in Runs : Elsewhere(q)' => Elsewhere(q) \/ q \in head
    BY <1>9 DEF Elsewhere
  <1>15. NoCalls => \A q \in Runs : kind[q] # "blocking"
    BY DEF IInv, TypeOK, NoCalls, Orderly
  <1>11. ASSUME NoCalls PROVE \A q \in Runs : Written(q)'
    <2>1. TAKE q \in Runs
    <2>2. Written(q)
      BY <1>11 DEF IInv
    <2>3. ASSUME graph'[q] = "idle" PROVE q \notin head /\ ~Elsewhere(q)'
      BY <1>9, <1>10, <2>2, <2>3 DEF Written
    <2>4. ASSUME Inflight(q)' PROVE ~Elsewhere(q)'
      <3>1. Inflight(q) /\ ~Elsewhere(q)
        BY <1>2, <2>2, <2>4 DEF Written
      <3>2. CASE \A x \in Runs : seen'[x] = seen[x]
        BY <3>1, <3>2 DEF Elsewhere
      <3>3. CASE graph[r] = "idle" /\ seen'[r] = head /\ Inflight(r)
        BY <1>10, <1>11, <2>2, <3>1, <3>3 DEF IInv, OneActive, Written
      <3> QED  BY <1>9, <3>2, <3>3
    <2>5. ASSUME run'[q].status = "success", Elsewhere(q)' PROVE q \in head \union lost
      <3>1. CASE run[q].status = "success"
        BY <1>10, <2>2, <2>5, <3>1 DEF Written
      <3>2. CASE run[q].status # "success"
        <4>1. q = r /\ (Inflight(r) \/ graph[r] = "idle") /\ graph'[r] # "stepping"
          BY <1>11, <1>15, <2>5, <3>2 DEF OthersKept, Advances
        <4>2. \A x \in Runs : seen'[x] = seen[x]
          BY <1>9, <4>1
        <4> QED  BY <2>2, <2>5, <4>1, <4>2 DEF Elsewhere, Written
      <3> QED  BY <3>1, <3>2
    <2> QED  BY <2>3, <2>4, <2>5 DEF Written
  <1>12. \A x \in Success' : x \in Success \/ (x = r /\ run[r].status # "success")
    BY DEF IInv, TypeOK, OthersKept, Success
  <1>13. ASSUME NoCalls PROVE \A q \in Runs : Builds(q)'
    <2>1. TAKE q \in Runs
    <2>2. Builds(q) /\ (Inflight(q)' => Inflight(q))
      BY <1>2, <1>13 DEF IInv
    <2>3. ASSUME r \in Success', run[r].status # "success"
          PROVE  /\ ~Inflight(q)' /\ \A p \in Runs : q \notin Todo(p)
      <3>1. Inflight(r) /\ Working(r)
        <4>1. Written(r) /\ r \in head /\ Life(r)
          BY <1>13, <2>3 DEF IInv, Success
        <4>2. Inflight(r)
          BY <1>13, <1>15, <2>3, <4>1 DEF OthersKept, Advances, Success, Written
        <4>3. body[r] \notin {"none", "scheduled"}
          BY <2>3, <4>1 DEF Life, Written
        <4> QED  BY <1>13, <1>15, <4>1, <4>2, <4>3 DEF Life
      <3>2. ~Inflight(q)'
        BY <1>2, <2>3, <3>1 DEF IInv, OneActive, Success
      <3>3. ASSUME NEW p \in Runs, q \in Todo(p) PROVE FALSE
        <4>1. op[p].pc \in {"rolling", "reporting"}
          BY <3>3, RunsAssumption DEF IInv, RequestOK, Todo, Ops
        <4>2. Inflight(p) /\ body[p] = "none"
          BY <4>1 DEF IInv, Life
        <4> QED  BY <3>1, <4>2 DEF IInv, OneActive, Working
      <3> QED  BY <3>2, <3>3
    <2>4. CASE r \in Success' /\ run[r].status # "success"
      BY <1>3, <2>3, <2>4 DEF Builds, Ops
    <2>5. CASE ~(r \in Success' /\ run[r].status # "success")
      <3>1. Success' \subseteq Success
        BY <1>12, <2>5
      <3>2. Success \subseteq head
        BY DEF Success
      <3> QED  BY <1>3, <1>9, <2>2, <3>1, <3>2 DEF Builds, Ops
    <2> QED  BY <2>4, <2>5
  <1>14. CancelledStreamStays /\ (NoCalls => SuccessKept)
    BY DEF OthersKept, Advances, CancelledStreamStays, SuccessKept, Losing
  <1> QED  BY <1>1, <1>5, <1>6, <1>7, <1>8, <1>11, <1>13, <1>14 DEF IInv

----------------------------------------------------------------------------
(* The steps of a graph.                                                    *)

(* A new checkpoint made of what others may bring back, and of a run that   *)
(* has not succeeded, brings no successful run back that was not lost.      *)
LEMMA NothingRegained ==
    ASSUME \A q \in Runs : Written(q), run' = run, head' \subseteq Runs,
           lost' = lost \union Losing,
           \A q \in head' \ head : Elsewhere(q) \/ run[q].status # "success"
    PROVE  /\ Success' \subseteq Success
           /\ \A q \in Runs : run[q].status = "success" /\ q \in head \union lost =>
                                  q \in head' \union lost'
  <1>1. ASSUME NEW x \in Success' PROVE x \in Success
    <2>1. x \in Runs /\ x \in head' /\ x \notin lost' /\ run[x].status = "success"
      BY <1>1 DEF Success
    <2>2. CASE x \in head
      BY <2>1, <2>2 DEF Success
    <2>3. CASE x \notin head
      BY <2>1, <2>3 DEF Written
    <2> QED  BY <2>2, <2>3
  <1>2. ASSUME NEW x \in head \union lost, run[x].status = "success"
        PROVE  x \in head' \union lost'
    BY <1>2 DEF Losing
  <1> QED  BY <1>1, <1>2

LEMMA GraphSteps ==
    ASSUME Orderly, IInv, NEW r \in Runs, GraphStep(r)
    PROVE  IInv' /\ CancelledStreamStays /\ (NoCalls => SuccessKept)
  <1> USE DEF Inflight
  <1>1. /\ UNCHANGED <<runVars, taskVars, op, seen, target>>
        /\ graph[r] = "stepping"
        /\ graph' \in [Runs -> {"idle", "stepping", "over"}]
        /\ \A q \in Runs : /\ graph'[q] = "idle" <=> graph[q] = "idle"
                           /\ graph'[q] = "stepping" => graph[q] = "stepping"
        /\ \/ head' = head /\ lost' = lost
           \/ head' = seen[r] \union {r} /\ lost' = lost \union Losing
    BY DEF GraphStep, Commit, StopGraph, IInv, TypeOK, threadVars
  <1>2. run' = run /\ kind' = kind /\ body' = body /\ signal' = signal /\ closed' = closed
        /\ op' = op /\ seen' = seen /\ target' = target
    BY <1>1 DEF runVars, taskVars
  <1>3. TypeOK'
    BY <1>1, <1>2 DEF IInv, TypeOK, Losing, TaskRunning
  <1>4. \A q \in Runs : Life(q)' /\ Succeeded(q)'
    BY <1>1, <1>2 DEF IInv, Life, Succeeded, Working
  <1>5. \A p \in Ops : RequestOK(p)' /\ Todo(p)' = Todo(p)
    BY <1>2 DEF IInv, RequestOK, Todo, RollbackDue
  <1>6. Apart' /\ OneActive'
    BY <1>2, <1>5 DEF IInv, Apart, OneActive
  <1>7. \A q \in Runs : Elsewhere(q)' <=> Elsewhere(q)
    BY <1>2 DEF Elsewhere
  <1>8. ASSUME NoCalls
        PROVE
        /\ Success' \subseteq Success
        /\ \A q \in Runs : run[q].status = "success" /\ q \in head \union lost =>
                               q \in head' \union lost'
    <2>1. CASE head' = head /\ lost' = lost
      BY <1>2, <2>1 DEF Success
    <2>2. CASE head' = seen[r] \union {r} /\ lost' = lost \union Losing
      <3>1. \A q \in head' : q \in Runs /\ (Elsewhere(q) \/ run[q].status # "success")
        BY <1>1, <2>2 DEF IInv, TypeOK, Life, Elsewhere
      <3>2. head' \subseteq Runs /\ head \subseteq Runs /\ \A q \in Runs : Written(q)
        BY <1>8, <3>1 DEF IInv, TypeOK
      <3> QED  BY <1>2, <2>2, <3>1, <3>2, NothingRegained
    <2> QED  BY <1>1, <2>1, <2>2
  <1>9. ASSUME NoCalls PROVE \A q \in Runs : Written(q)'
    <2>1. \A q \in Runs : q \in head' => q \in head \/ Elsewhere(q) \/ q = r
      BY <1>1 DEF Elsewhere
    <2> QED  BY <1>1, <1>2, <1>7, <1>8, <1>9, <2>1 DEF IInv, Written
  <1>10. ASSUME NoCalls PROVE \A q \in Runs : Builds(q)'
    <2>1. \A p \in Runs : p \in Ops
      BY DEF Ops
    <2> QED  BY <1>1, <1>2, <1>5, <1>8, <1>10, <2>1 DEF IInv, Builds
  <1>11. CancelledStreamStays
    BY <1>2 DEF CancelledStreamStays
  <1>12. ASSUME NoCalls PROVE SuccessKept
    <2>1. SUFFICES ASSUME NEW x \in Losing, x \notin lost,
                          ~Leftover(r), head' = seen[r] \union {r}
                   PROVE  FALSE
      BY <1>1 DEF SuccessKept, Losing
    <2>2. Inflight(r) /\ Builds(r) /\ x \in Success
      BY <1>1, <1>12, <2>1 DEF IInv, TypeOK, Leftover, Losing, Success
    <2> QED  BY <1>1, <2>1, <2>2 DEF Builds, Losing
  <1> QED  BY <1>3, <1>4, <1>5, <1>6, <1>9, <1>10, <1>11, <1>12 DEF IInv

----------------------------------------------------------------------------
(* The steps of a request that rolls back and settles its victims.          *)

RequestFrame(p) ==
    /\ UNCHANGED <<kind, body, signal, closed, graph, seen, target>>
    /\ \A q \in Ops \ {p} : op'[q] = op[q]
    /\ op'[p].victims = op[p].victims
    /\ \A v \in Todo(p)' : v \in Todo(p)
    /\ p \in Runs => /\ op[p].pc \in {"rolling", "reporting", "settling"}
                     /\ op'[p].pc \in {"rolling", "reporting", "settling"}
    /\ \A v \in Runs : /\ run'[v].status = run[v].status
                       /\ v \notin Todo(p) => run'[v] = run[v]
    /\ \/ head' = head /\ lost' = lost
       \/ /\ run' = run /\ lost' = lost \union Losing
          /\ op[p].pc = "rolling" /\ op'[p].pc = "reporting"
          /\ \E v \in Todo(p) : head' \in {head, target[v]}
    /\ RequestOK(p)'

LEMMA RequestKeeps ==
    ASSUME Orderly, IInv, NEW p \in Ops, TypeOK', RequestFrame(p)
    PROVE  IInv' /\ CancelledStreamStays /\ (NoCalls => SuccessKept)
  <1> USE DEF RequestFrame, Inflight
  <1>1. \A q \in Runs : Life(q)' /\ Succeeded(q)'
    <2>1. TAKE q \in Runs
    <2>2. q \in Ops /\ Life(q) /\ Succeeded(q)
      BY DEF IInv, Ops
    <2>3. CASE q = p
      BY <2>2, <2>3 DEF Life, Succeeded, Working
    <2>4. CASE q # p
      BY <2>2, <2>4 DEF Life, Succeeded, Working
    <2> QED  BY <2>3, <2>4
  <1>2. \A q \in Ops : \A v \in Todo(q)' : v \in Todo(q)
    BY DEF Todo
  <1>3. \A q \in Ops : RequestOK(q)'
    <2>1. SUFFICES ASSUME NEW q \in Ops, q # p PROVE RequestOK(q)'
      OBVIOUS
    <2>2. op'[q] = op[q] /\ RequestOK(q) /\ op[q].victims \subseteq Runs
      BY <2>1 DEF IInv, TypeOK, Request
    <2>3. \A v \in Todo(q) : v \in Runs /\ v \notin Todo(p) /\ run'[v] = run[v]
      BY <2>1 DEF IInv, Apart, Todo
    <2>4. \A v \in Todo(q)' : RollbackDue(v)'
      BY <1>2, <2>2, <2>3 DEF RequestOK, RollbackDue
    <2>5. op[q].cur # NoRun => op[q].cur \in Todo(q)
      BY <2>2 DEF RequestOK, Todo
    <2> QED  BY <2>2, <2>3, <2>4, <2>5 DEF RequestOK
  <1>4. Apart'
    BY <1>2 DEF IInv, Apart
  <1>5. OneActive'
    BY DEF IInv, OneActive
  <1>6. \A q \in Runs : Elsewhere(q)' <=> Elsewhere(q)
    BY DEF Elsewhere
  <1>7. ASSUME NoCalls
        PROVE
        /\ Success' \subseteq Success
        /\ \A q \in Runs : run[q].status = "success" /\ q \in head \union lost =>
                               q \in head' \union lost'
        /\ \A q \in Runs : q \in head' => q \in head \/ Elsewhere(q)
    <2>1. \A q \in Runs : q \in head' => q \in head \/ Elsewhere(q)
      BY DEF Elsewhere, Todo
    <2>2. head \subseteq Runs /\ head' \subseteq Runs /\ \A q \in Runs : Written(q)
      BY <1>7 DEF IInv, TypeOK
    <2>3. CASE head' = head /\ lost' = lost
      BY <2>1, <2>2, <2>3 DEF Success
    <2>4. CASE run' = run /\ lost' = lost \union Losing
      BY <2>1, <2>2, <2>4, NothingRegained
    <2> QED  BY <2>1, <2>3, <2>4
  <1>8. ASSUME NoCalls PROVE \A q \in Runs : Written(q)'
    BY <1>6, <1>7, <1>8 DEF IInv, Written
  <1>9. ASSUME NoCalls PROVE \A q \in Runs : Builds(q)'
    <2>1. \A q \in Runs : q \in Ops
      BY DEF Ops
    <2> QED  BY <1>2, <1>7, <1>9, <2>1 DEF IInv, Builds
  <1>10. CancelledStreamStays
    BY DEF CancelledStreamStays
  <1>11. ASSUME NoCalls PROVE SuccessKept
    <2>1. SUFFICES ASSUME NEW x \in Losing, x \notin lost, p \notin Cancellers,
                          NEW v \in Todo(p), head' = target[v]
                   PROVE  FALSE
      BY DEF SuccessKept, Losing
    <2>2. p \in Runs /\ v \in Runs /\ Builds(v) /\ x \in Success
      BY <1>11, <2>1 DEF IInv, TypeOK, Ops, Todo, Losing, Success
    <2> QED  BY <2>1, <2>2 DEF Builds, Losing
  <1> QED  BY <1>1, <1>3, <1>4, <1>5, <1>8, <1>9, <1>10, <1>11 DEF IInv

LEMMA CompletedSet ==
    ASSUME TypeOK, NEW v \in Runs, NEW b \in BOOLEAN, run' = [run EXCEPT ![v].completed = b]
    PROVE  /\ run' \in [Runs -> RunRecord]
           /\ run'[v].completed = b /\ run'[v].ready = run[v].ready
           /\ run'[v].action = run[v].action /\ run'[v].status = run[v].status
           /\ \A w \in Runs \ {v} : run'[w] = run[w]
  <1>1. run \in [Runs -> RunRecord]
    BY DEF TypeOK
  <1>2. run'[v] = [run[v] EXCEPT !.completed = b] /\ run[v] \in RunRecord
    BY <1>1
  <1>3. /\ run'[v] \in RunRecord /\ run'[v].completed = b /\ run'[v].ready = run[v].ready
        /\ run'[v].action = run[v].action /\ run'[v].status = run[v].status
    BY <1>2 DEF RunRecord
  <1>4. run' \in [Runs -> RunRecord] /\ \A w \in Runs \ {v} : run'[w] = run[w]
    BY <1>1, <1>3
  <1> QED  BY <1>3, <1>4

LEMMA RequestSteps ==
    ASSUME Orderly, IInv, NEW p \in Ops, RequestStep(p)
    PROVE  TypeOK' /\ RequestFrame(p)
  <1> DEFINE others == \A q \in Ops \ {p} : op'[q] = op[q]
  <1>0. /\ TypeOK /\ op[p] \in Request
        /\ RequestOK(p) /\ (p \in Runs => Life(p))
    BY DEF IInv, TypeOK
  <1> USE <1>0, RunsAssumption
  <1> USE DEF runVars, taskVars, threadVars
  <1>1. ASSUME NEW v \in Runs, PickRecord(p, v) PROVE TypeOK' /\ RequestFrame(p)
    <2>1. v \in op[p].todo /\ op[p].cur = NoRun /\ op[p].pc = "rolling" /\ RollbackDue(v)
      BY <1>1 DEF PickRecord, RequestOK, Todo
    <2>2. /\ op' = [op EXCEPT ![p].cur = v, ![p].todo = @ \ {v}]
          /\ run' = [run EXCEPT ![v].completed = FALSE]
          /\ UNCHANGED <<kind, taskVars, threadVars>>
      BY <1>1, <2>1 DEF PickRecord, RollbackDue
    <2>3. /\ op'[p] = [op[p] EXCEPT !.cur = v, !.todo = op[p].todo \ {v}] /\ others
      BY <2>2 DEF TypeOK
    <2>4. /\ run' \in [Runs -> RunRecord] /\ ~run'[v].completed
          /\ run'[v].ready = run[v].ready /\ run'[v].action = run[v].action
          /\ run'[v].status = run[v].status
          /\ \A w \in Runs \ {v} : run'[w] = run[w]
      BY <2>2, CompletedSet
    <2>5. TypeOK'
      <3>1. op'[p] \in Request
        <4>1. op[p].todo \ {v} \in SUBSET Runs /\ v \in Runs \union {NoRun}
          BY DEF Request
        <4> QED  BY <2>3, <4>1 DEF Request
      <3>2. op' \in [Ops -> Request]
        BY <2>2, <2>3, <3>1 DEF TypeOK
      <3> QED  BY <2>2, <2>4, <3>2 DEF TypeOK, TaskRunning
    <2>6. RequestOK(p)'
      <3>1. op'[p].todo = op[p].todo \ {v} /\ op'[p].cur = v /\ op'[p].pc = "rolling"
            /\ op'[p].victims = op[p].victims
        BY <2>1, <2>3 DEF Request
      <3>2. \A w \in Runs : RollbackDue(w) => RollbackDue(w)'
        BY <2>2, <2>4 DEF RollbackDue
      <3>3. \A w \in Todo(p)' : w \in Todo(p)
        BY <2>1, <3>1 DEF Todo
      <3>4. \A w \in op[p].victims : ~Inflight(w)' /\ body'[w] \notin {"none", "scheduled"}
        BY <2>2, <2>4 DEF RequestOK, Inflight, Request
      <3> QED  BY <2>1, <3>1, <3>2, <3>3, <3>4 DEF RequestOK, Todo
    <2>7. \A w \in Todo(p)' : w \in Todo(p)
      BY <2>1, <2>3 DEF Todo, RequestOK, Request
    <2>8. v \in Todo(p) /\ op'[p].victims = op[p].victims /\ op'[p].pc = "rolling"
      BY <2>1, <2>3 DEF Todo, Request
    <2>9. RequestFrame(p)
      BY <2>1, <2>2, <2>3, <2>4, <2>6, <2>7, <2>8 DEF RequestFrame
    <2> QED  BY <2>5, <2>9
  <1>2. CASE Restore(p)
    <2> DEFINE v == op[p].cur
    <2>1. /\ v \in Runs /\ (run[v].ready \/ Timeouts) /\ op[p].pc = "rolling"
          /\ op' = [op EXCEPT ![p].pc = "reporting"]
          /\ head' \in {target[v], head} /\ lost' = lost \union Losing
          /\ UNCHANGED <<runVars, taskVars, graph, seen, target>>
      BY <1>2 DEF Restore, Due, Orderly, Request
    <2>2. op'[p] = [op[p] EXCEPT !.pc = "reporting"] /\ others
      BY <2>1 DEF TypeOK
    <2>3. TypeOK'
      <3>1. op'[p] \in Request
        BY <2>2 DEF Request
      <3> QED  BY <2>1, <3>1 DEF TypeOK, TaskRunning, Losing
    <2>4. RequestFrame(p)
      BY <2>1, <2>2 DEF RequestFrame, RequestOK, Todo, RollbackDue, Inflight, TypeOK, Request
    <2> QED  BY <2>3, <2>4
  <1>3. CASE Report(p)
    <2> DEFINE v == op[p].cur
    <2>1. /\ v \in Runs /\ op[p].pc = "reporting"
          /\ op' = [op EXCEPT ![p] = [@ EXCEPT !.pc = "rolling", !.cur = NoRun]]
          /\ run' = [run EXCEPT ![v].completed = TRUE]
          /\ UNCHANGED <<kind, taskVars, threadVars>>
      BY <1>3 DEF Report, RequestOK, Request
    <2>2. op'[p] = [op[p] EXCEPT !.pc = "rolling", !.cur = NoRun] /\ others
      BY <2>1 DEF TypeOK
    <2>3. /\ run' \in [Runs -> RunRecord]
          /\ run'[v].ready = run[v].ready /\ run'[v].action = run[v].action
          /\ run'[v].status = run[v].status
          /\ \A w \in Runs \ {v} : run'[w] = run[w]
      BY <2>1, CompletedSet
    <2>4. TypeOK'
      <3>1. op'[p] \in Request
        BY <2>2 DEF Request
      <3> QED  BY <2>1, <2>3, <3>1 DEF TypeOK, TaskRunning
    <2>5. RequestOK(p)'
      <3>1. op'[p].todo = op[p].todo /\ op'[p].cur = NoRun /\ op'[p].pc = "rolling"
            /\ op'[p].victims = op[p].victims
        BY <2>2 DEF Request
      <3>2. \A w \in Runs \ {v} : RollbackDue(w) => RollbackDue(w)'
        BY <2>1, <2>3 DEF RollbackDue
      <3>3. \A w \in Runs : run'[w].status = run[w].status
        BY <2>3
      <3>4. Todo(p)' \subseteq Todo(p) \ {v} /\ Todo(p) \subseteq Runs /\ op[p].victims \subseteq Runs
        BY <3>1 DEF Todo, RequestOK, Request
      <3> QED  BY <2>1, <3>1, <3>2, <3>3, <3>4 DEF RequestOK, Inflight, Request
    <2>6. \A w \in Todo(p)' : w \in Todo(p)
      BY <2>1, <2>2 DEF Todo, RequestOK, Request
    <2>7. v \in Todo(p) /\ op'[p].victims = op[p].victims /\ op'[p].pc = "rolling"
      <3>1. op'[p].victims = op[p].victims /\ op'[p].pc = "rolling"
        BY <2>2 DEF Request
      <3> QED  BY <2>1, <3>1 DEF Todo
    <2>8. RequestFrame(p)
      BY <2>1, <2>2, <2>3, <2>5, <2>6, <2>7 DEF RequestFrame
    <2> QED  BY <2>4, <2>8
  <1>4. CASE Settle(p)
    <2> DEFINE T == {v \in op[p].victims : kind[v] # "blocking"}
    <2>1. Tasks(op[p].victims) = T /\ T \in SUBSET Runs
      BY DEF Tasks, RequestOK, Request
    <2> HIDE DEF T
    <2>2. op' = [op EXCEPT ![p] = [op[p] EXCEPT !.pc = "settling", !.tasks = T]]
      BY <1>4, <2>1 DEF Settle
    <2>3. op'[p] = [op[p] EXCEPT !.pc = "settling", !.tasks = T] /\ others
      BY <2>2 DEF TypeOK
    <2>4. /\ op'[p].victims = op[p].victims /\ op'[p].tasks = T
          /\ op'[p].todo = {} /\ op'[p].cur = NoRun /\ op'[p].pc = "settling"
          /\ op'[p] \in Request
      <3>1. op[p].todo = {} /\ op[p].cur = NoRun
        BY <1>4 DEF Settle
      <3>2. T \in SUBSET Runs
        BY <2>1
      <3> QED  BY <2>3, <3>1, <3>2 DEF Request
    <2>8. UNCHANGED <<runVars, taskVars, threadVars>>
      BY <1>4 DEF Settle
    <2>9. TypeOK'
      BY <2>2, <2>4, <2>8 DEF TypeOK, TaskRunning
    <2>5. Todo(p)' = {}
      BY <2>4 DEF Todo
    <2>6. RequestOK(p)'
      BY <2>4, <2>5, <2>8 DEF RequestOK, Inflight, T
    <2>7. RequestFrame(p)
      BY <1>4, <2>3, <2>4, <2>5, <2>6, <2>8 DEF Settle, RequestFrame
    <2> QED  BY <2>7, <2>9
  <1> QED  BY <1>1, <1>2, <1>3, <1>4 DEF RequestStep

LEMMA ReturnSteps ==
    ASSUME Orderly, IInv, NEW c \in Cancellers, Return(c)
    PROVE  TypeOK' /\ RequestFrame(c)
  <1>1. /\ TypeOK /\ c \in Ops /\ c \notin Runs /\ RequestOK(c) /\ op[c] \in Request
        /\ op' = [op EXCEPT ![c].pc = "done"] /\ op[c].pc = "settling"
        /\ UNCHANGED <<runVars, taskVars, threadVars>>
    BY RunsAssumption DEF Return, AllSettled, IInv, TypeOK, Ops
  <1>2. op'[c] = [op[c] EXCEPT !.pc = "done"] /\ \A q \in Ops \ {c} : op'[q] = op[q]
    BY <1>1 DEF TypeOK
  <1>3. /\ op'[c] \in Request /\ op'[c].pc = "done" /\ op'[c].victims = op[c].victims
        /\ op'[c].todo = {} /\ op'[c].cur = NoRun
    BY <1>1, <1>2 DEF Request, RequestOK
  <1>4. TypeOK'
    BY <1>1, <1>3 DEF TypeOK, TaskRunning, runVars, taskVars, threadVars
  <1>5. Todo(c)' = {}
    BY <1>3, RunsAssumption DEF Todo
  <1>6. RequestOK(c)'
    BY <1>1, <1>3, <1>5 DEF RequestOK, Inflight, runVars, taskVars
  <1> QED
    BY <1>1, <1>2, <1>3, <1>4, <1>5, <1>6 DEF RequestFrame, runVars, taskVars, threadVars

----------------------------------------------------------------------------
(* A run is created or runs are cancelled.                                  *)

(* A request p makes the runs of V its victims, and is to roll back those   *)
(* of T.                                                                    *)
SupersedeFrame(p, V, T) ==
    /\ V \subseteq Runs /\ T \in {{}, V} /\ p \notin V
    /\ UNCHANGED <<body, graph, head, seen, lost>>
    /\ \A v \in V : /\ run[v].status = "running" /\ run'[v].status = "interrupted"
                    /\ IF kind[v] = "blocking"
                         THEN body[v] = "invoking" /\ v \notin signal'
                         ELSE Working(v) /\ v \in signal'
                    /\ T = V => /\ run'[v].action = "rollback" /\ ~run'[v].completed
                                /\ kind[v] # "blocking" => ~run'[v].ready
    /\ \A w \in Runs \ (V \union {p}) : run'[w] = run[w] /\ (w \in signal' <=> w \in signal)
    /\ \A w \in Runs \ {p} : kind'[w] = kind[w] /\ target'[w] = target[w]
    /\ \A q \in Ops \ {p} : op'[q] = op[q]
    /\ op[p].pc = "idle"
    /\ op'[p].todo = T /\ op'[p].cur = NoRun /\ T \subseteq op'[p].victims
    /\ op'[p].victims \subseteq V
    /\ op'[p].pc \in {"rolling", "done"} /\ (op'[p].pc = "done" => T = {})
    /\ p \in Runs => /\ \A w \in Runs : Inflight(w) => w \in V
                     /\ op'[p].pc = "rolling"
                     /\ run[p].status = "absent" /\ run'[p].status = "pending"
                     /\ p \notin signal' /\ target'[p] = head

LEMMA SupersedeKeeps ==
    ASSUME Orderly, IInv, NEW p \in Ops, NEW V, NEW T, TypeOK', SupersedeFrame(p, V, T)
    PROVE  IInv' /\ CancelledStreamStays /\ (NoCalls => SuccessKept)
  <1> USE DEF SupersedeFrame, Inflight
  <1>1. /\ \A q \in Runs : q \in Ops /\ Life(q) /\ Succeeded(q)
        /\ NoCalls => \A q \in Runs : Written(q) /\ Builds(q)
        /\ \A q \in Ops : RequestOK(q) /\ op[q].victims \subseteq Runs
        /\ Apart /\ OneActive /\ head \subseteq Runs
    BY DEF IInv, TypeOK, Request, Ops
  <1>2. p \in Runs => /\ body[p] = "none" /\ graph[p] = "idle"
                      /\ NoCalls => p \notin head /\ ~Elsewhere(p)
    BY <1>1 DEF Life, Written
  <1>3. \A q \in Runs : Life(q)'
    <2>1. TAKE q \in Runs
    <2>2. CASE q = p
      BY <1>1, <1>2, <2>2 DEF Life, Working
    <2>3. CASE q \in V
      BY <1>1, <2>3 DEF Life, Working
    <2>4. CASE q \notin V \union {p}
      BY <1>1, <2>4 DEF Life, Working
    <2> QED  BY <2>2, <2>3, <2>4
  <1>4. \A q \in Ops : \A v \in Todo(q) : v \in Runs /\ v \in op[q].victims
    BY <1>1, RunsAssumption DEF RequestOK, Todo
  <1>5. Todo(p)' = T
    BY RunsAssumption DEF Todo
  <1>6. ASSUME NEW q \in Ops, q # p
        PROVE  Todo(q)' = Todo(q) /\ \A v \in op[q].victims : v \notin V /\ v # p /\ run'[v] = run[v]
    <2>1. op'[q] = op[q]
      BY <1>6
    <2>2. \A v \in op[q].victims : ~Inflight(v) /\ body[v] # "none" /\ v \in Runs
      BY <1>1, <1>6 DEF RequestOK
    <2>3. \A v \in op[q].victims : v \notin V /\ v # p
      BY <1>2, <2>2
    <2> QED  BY <2>1, <2>2, <2>3 DEF Todo
  <1>7. \A q \in Ops : RequestOK(q)'
    <2>1. \A v \in T : RollbackDue(v)'
      BY DEF RollbackDue, Working
    <2>2. \A v \in V : ~Inflight(v)' /\ body'[v] \notin {"none", "scheduled"}
      BY DEF Working
    <2>3. RequestOK(p)'
      BY <1>5, <2>1, <2>2, RunsAssumption DEF RequestOK
    <2>4. ASSUME NEW q \in Ops, q # p PROVE RequestOK(q)'
      <3>1. \A v \in Todo(q)' : RollbackDue(v)'
        BY <1>1, <1>4, <1>6, <2>4 DEF RequestOK, RollbackDue
      <3> QED  BY <1>1, <1>6, <2>4, <3>1 DEF RequestOK
    <2> QED  BY <2>3, <2>4
  <1>8. Apart'
    <2>1. \A q \in Ops \ {p} : Todo(q)' \intersect V = {}
      BY <1>4, <1>6
    <2> QED  BY <1>1, <1>5, <1>6, <2>1 DEF Apart
  <1>9. \A q \in Runs : Succeeded(q)'
    <2>1. SUFFICES ASSUME NEW q \in Runs, body[q] # "none" PROVE Succeeded(q)'
      BY DEF Succeeded
    <2>2. q # p /\ q \in Ops /\ op'[q] = op[q] /\ \A v \in op[q].victims : v \in Runs /\ v # p
      BY <1>1, <1>2, <1>6, <2>1
    <2> QED  BY <1>1, <2>1, <2>2 DEF Succeeded
  <1>10. OneActive'
    BY <1>1 DEF OneActive
  <1>11. \A q \in Runs : Elsewhere(q)' => Elsewhere(q) \/ q \in head
    BY DEF Elsewhere
  <1>12. p \notin Runs => \A q \in Runs : Elsewhere(q)' => Elsewhere(q)
    BY DEF Elsewhere
  <1>13. ASSUME NoCalls PROVE \A q \in Runs : Written(q)'
    <2>1. TAKE q \in Runs
    <2>2. CASE q = p
      BY <1>1, <1>2, <1>11, <1>13, <2>2 DEF Written
    <2>3. CASE q \in V
      BY <1>1, <1>11, <1>13, <2>3 DEF Written
    <2>4. CASE q \notin V \union {p}
      BY <1>1, <1>11, <1>12, <1>13, <2>4 DEF Written
    <2> QED  BY <2>2, <2>3, <2>4
  <1>14. Success' \subseteq Success
    BY <1>1 DEF Success
  <1>15. ASSUME NoCalls PROVE \A q \in Runs : Builds(q)'
    <2>1. TAKE q \in Runs
    <2>2. CASE q = p
      <3>1. \A w \in Runs : q \notin Todo(w)'
        BY <1>1, <1>2, <1>4, <1>5, <1>6, <2>2 DEF Ops
      <3> QED  BY <1>1, <1>2, <1>14, <1>15, <2>2, <3>1 DEF Builds, Success
    <2>3. CASE q # p
      <3>1. Inflight(q)' => Inflight(q)
        BY <2>3
      <3>2. ASSUME NEW w \in Runs, q \in Todo(w)'
            PROVE  Inflight(q) \/ q \in Todo(w)
        BY <1>1, <1>5, <1>6, <3>2
      <3> QED  BY <1>1, <1>14, <1>15, <2>3, <3>1, <3>2 DEF Builds
    <2> QED  BY <2>2, <2>3
  <1>16. CancelledStreamStays /\ (NoCalls => SuccessKept)
    BY DEF CancelledStreamStays, SuccessKept, Losing
  <1> QED  BY <1>3, <1>7, <1>8, <1>9, <1>10, <1>13, <1>15, <1>16 DEF IInv

(* What _cancel_record makes of a run whose producer is at work.            *)
LEMMA CancelledRecords ==
    ASSUME Orderly, IInv, NEW V \in SUBSET Runs, NEW a \in {"interrupt", "rollback"},
           \A v \in V : Inflight(v) /\ body[v] \notin {"none", "scheduled"}
    PROVE  \A v \in V :
               /\ run[v].status = "running" /\ (TaskRunning(v) <=> kind[v] # "blocking")
               /\ IF kind[v] = "blocking"
                    THEN body[v] = "invoking" /\ v \notin signal
                    ELSE Working(v)
               /\ CancelledRecord(v, a) \in RunRecord
               /\ CancelledRecord(v, a).status = "interrupted"
               /\ CancelledRecord(v, a).action = a
               /\ a = "rollback" => /\ ~CancelledRecord(v, a).completed
                                    /\ kind[v] # "blocking" => ~CancelledRecord(v, a).ready
  <1>1. TAKE v \in V
  <1>2. Life(v) /\ Inflight(v) /\ body[v] \notin {"none", "scheduled"}
    BY DEF IInv
  <1>3. /\ run[v].status = "running" /\ (TaskRunning(v) <=> kind[v] # "blocking")
        /\ IF kind[v] = "blocking" THEN body[v] = "invoking" /\ v \notin signal ELSE Working(v)
    BY <1>2 DEF Life, Inflight, Working, TaskRunning
  <1>4. CASE a = "rollback"
    <2>1. CancelledRecord(v, a) = [status |-> "interrupted", abort |-> TRUE, action |-> "rollback",
                                   ready |-> kind[v] = "blocking", completed |-> FALSE]
      BY <1>3, <1>4 DEF CancelledRecord
    <2>2. CancelledRecord(v, a) \in RunRecord
      BY <2>1 DEF RunRecord
    <2>3. CancelledRecord(v, a).status = "interrupted" /\ CancelledRecord(v, a).action = a
      BY <1>4, <2>1
    <2>4. CancelledRecord(v, a).completed = FALSE
          /\ CancelledRecord(v, a).ready = (kind[v] = "blocking")
      BY <2>1
    <2> QED  BY <1>3, <1>4, <2>2, <2>3, <2>4
  <1>5. CASE a = "interrupt"
    <2>1. CancelledRecord(v, a) = [status |-> "interrupted", abort |-> TRUE, action |-> "interrupt",
                                   ready |-> TRUE, completed |-> TRUE]
      BY <1>5 DEF CancelledRecord
    <2>2. CancelledRecord(v, a) \in RunRecord
      BY <2>1 DEF RunRecord
    <2>3. CancelledRecord(v, a).status = "interrupted" /\ CancelledRecord(v, a).action = a
      BY <1>5, <2>1
    <2> QED  BY <1>3, <1>5, <2>2, <2>3
  <1> QED  BY <1>4, <1>5

LEMMA CreateSteps ==
    ASSUME Orderly, IInv, NEW r \in Runs, NEW k \in Kinds, NEW s \in Strategies, Create(r, k, s)
    PROVE  IInv' /\ CancelledStreamStays /\ (NoCalls => SuccessKept)
  <1> DEFINE V == Conflicts
             T == IF s = "rollback" THEN Conflicts ELSE {}
             a == IF s = "rollback" THEN "rollback" ELSE "interrupt"
  <1>1. /\ TypeOK /\ r \in Ops /\ op[r].pc = "idle" /\ Life(r)
        /\ s \in {"reject", "interrupt", "rollback"}
        /\ V \subseteq Runs /\ \A v \in Runs : Inflight(v) <=> v \in V
    BY RunsAssumption DEF Create, IInv, Ops, Orderly, Conflicts
  <1>2. run[r].status = "absent" /\ body[r] = "none" /\ r \notin signal /\ r \notin V
    BY <1>1 DEF Life, Working, Conflicts, Inflight
  <1>3. \A v \in V : Inflight(v) /\ body[v] \notin {"none", "scheduled"}
    BY <1>1 DEF Create, Underway, Orderly
  <1>4. \A v \in V : /\ run[v].status = "running" /\ (TaskRunning(v) <=> kind[v] # "blocking")
                     /\ IF kind[v] = "blocking"
                          THEN body[v] = "invoking" /\ v \notin signal
                          ELSE Working(v)
                     /\ CancelledRecord(v, a) \in RunRecord
                     /\ CancelledRecord(v, a).status = "interrupted"
                     /\ CancelledRecord(v, a).action = a
                     /\ a = "rollback" => /\ ~CancelledRecord(v, a).completed
                                          /\ kind[v] # "blocking" => ~CancelledRecord(v, a).ready
    <2>1. V \in SUBSET Runs /\ a \in {"interrupt", "rollback"}
      BY <1>1
    <2> HIDE DEF V, a
    <2> QED  BY <1>3, <2>1, CancelledRecords
  <1>5. \A v \in V : CancelledRecord(v, s) = CancelledRecord(v, a)
    BY <1>1 DEF Create
  <1> DEFINE pending == [Absent EXCEPT !.status = "pending"]
  <1>6. \A v \in Runs : run'[v] = IF v = r THEN pending
                                   ELSE IF v \in V THEN CancelledRecord(v, a) ELSE run[v]
    BY <1>5 DEF Create
  <1>7. pending \in RunRecord /\ pending.status = "pending"
    <2>1. Absent \in RunRecord
      BY DEF Absent, RunRecord
    <2> QED  BY <2>1 DEF RunRecord
  <1>8. /\ signal' = signal \union {v \in V : kind[v] # "blocking"}
        /\ kind' = [kind EXCEPT ![r] = k] /\ target' = [target EXCEPT ![r] = head]
        /\ op' = [op EXCEPT ![r] = Rolling(V, T)]
        /\ UNCHANGED <<body, closed, graph, head, seen, lost>>
    BY <1>4 DEF Create
  <1>9. run' \in [Runs -> RunRecord]
    <2>1. run' = [v \in Runs |-> run'[v]]
      BY DEF Create
    <2>2. \A v \in Runs : run'[v] \in RunRecord
      <3> HIDE DEF pending, V, a
      <3> QED  BY <1>1, <1>4, <1>6, <1>7 DEF TypeOK
    <2> QED  BY <2>1, <2>2
  <1>10. op'[r] = Rolling(V, T) /\ Rolling(V, T) \in Request /\ \A q \in Ops \ {r} : op'[q] = op[q]
    BY <1>1, <1>8 DEF TypeOK, Rolling, Request
  <1>11. TypeOK'
    <2>1. signal' \subseteq {q \in Runs : TaskRunning(q)}'
      BY <1>1, <1>2, <1>4, <1>8 DEF TypeOK, TaskRunning
    <2> QED  BY <1>1, <1>8, <1>9, <1>10, <2>1 DEF TypeOK
  <1>12. SupersedeFrame(r, V, T)
    <2>1. \A v \in V : /\ run'[v].status = "interrupted"
                       /\ IF kind[v] = "blocking" THEN v \notin signal' ELSE v \in signal'
                       /\ T = V => /\ run'[v].action = "rollback" /\ ~run'[v].completed
                                   /\ kind[v] # "blocking" => ~run'[v].ready
      <3>1. \A v \in V : run'[v] = CancelledRecord(v, a) /\ (T = V => a = "rollback")
        BY <1>1, <1>2, <1>6
      <3> HIDE DEF pending, V, T, a
      <3> QED  BY <1>4, <1>8, <3>1
    <2>2. \A w \in Runs \ (V \union {r}) : run'[w] = run[w] /\ (w \in signal' <=> w \in signal)
      BY <1>6, <1>8
    <2>3. \A w \in Runs \ {r} : kind'[w] = kind[w] /\ target'[w] = target[w]
      BY <1>1, <1>8 DEF TypeOK
    <2>4. op'[r].todo = T /\ op'[r].cur = NoRun /\ op'[r].victims = V /\ op'[r].pc = "rolling"
      BY <1>10 DEF Rolling
    <2>5. run'[r].status = "pending" /\ r \notin signal' /\ kind'[r] = k /\ target'[r] = head
      BY <1>1, <1>2, <1>6, <1>7, <1>8 DEF TypeOK
    <2> QED  BY <1>1, <1>2, <1>4, <1>8, <1>10, <2>1, <2>2, <2>3, <2>4, <2>5 DEF SupersedeFrame
  <1> QED  BY <1>1, <1>11, <1>12, SupersedeKeeps

LEMMA CancelSteps ==
    ASSUME Orderly, IInv, NEW c \in Cancellers, NEW V \in SUBSET Runs,
           NEW a \in {"interrupt", "rollback"}, Cancel(c, V, a)
    PROVE  IInv' /\ CancelledStreamStays /\ (NoCalls => SuccessKept)
  <1> DEFINE T == IF a = "rollback" THEN V ELSE {}
             new == IF a = "rollback" THEN Rolling(V, V) ELSE [Idle EXCEPT !.pc = "done"]
  <1>1. /\ TypeOK /\ c \in Ops /\ c \notin Runs /\ op[c].pc = "idle"
        /\ V # {} /\ \A v \in V : Inflight(v) /\ body[v] \notin {"none", "scheduled"}
    BY RunsAssumption DEF Cancel, IInv, Ops, Orderly, Conflicts, Underway
  <1>2. \A v \in V : /\ run[v].status = "running" /\ (TaskRunning(v) <=> kind[v] # "blocking")
                     /\ IF kind[v] = "blocking"
                          THEN body[v] = "invoking" /\ v \notin signal
                          ELSE Working(v)
                     /\ CancelledRecord(v, a) \in RunRecord
                     /\ CancelledRecord(v, a).status = "interrupted"
                     /\ CancelledRecord(v, a).action = a
                     /\ a = "rollback" => /\ ~CancelledRecord(v, a).completed
                                          /\ kind[v] # "blocking" => ~CancelledRecord(v, a).ready
    BY <1>1, CancelledRecords
  <1>3. /\ run' = [v \in Runs |-> IF v \in V THEN CancelledRecord(v, a) ELSE run[v]]
        /\ signal' = signal \union {v \in V : kind[v] # "blocking"}
        /\ op' = [op EXCEPT ![c] = new]
        /\ UNCHANGED <<kind, body, closed, threadVars>>
    BY <1>2 DEF Cancel
  <1>4. run' \in [Runs -> RunRecord]
    BY <1>1, <1>2, <1>3 DEF TypeOK
  <1>5. op'[c] = new /\ \A q \in Ops \ {c} : op'[q] = op[q]
    BY <1>1, <1>3 DEF TypeOK
  <1>6. /\ new \in Request /\ new.todo = T /\ new.cur = NoRun
        /\ new.victims = T /\ new.pc \in {"rolling", "done"} /\ (new.pc = "done" => T = {})
    BY DEF Rolling, Idle, Request
  <1>7. TypeOK'
    BY <1>1, <1>2, <1>3, <1>4, <1>5, <1>6 DEF TypeOK, TaskRunning, threadVars
  <1>8. SupersedeFrame(c, V, T)
    <2>1. \A v \in V : run'[v] = CancelledRecord(v, a) /\ (T = V => a = "rollback")
      BY <1>1, <1>3
    <2>2. \A v \in V : /\ run'[v].status = "interrupted"
                       /\ IF kind[v] = "blocking" THEN v \notin signal' ELSE v \in signal'
                       /\ T = V => /\ run'[v].action = "rollback" /\ ~run'[v].completed
                                   /\ kind[v] # "blocking" => ~run'[v].ready
      <3> HIDE DEF T
      <3> QED  BY <1>2, <1>3, <2>1
    <2>3. \A w \in Runs \ V : run'[w] = run[w] /\ (w \in signal' <=> w \in signal)
      BY <1>3
    <2> HIDE DEF new
    <2> QED  BY <1>1, <1>2, <1>3, <1>5, <1>6, <2>2, <2>3 DEF SupersedeFrame, threadVars
  <1> QED  BY <1>1, <1>7, <1>8, SupersedeKeeps

----------------------------------------------------------------------------
(* A request returns with a conflict, or with its producer's task made.     *)

LEMMA ConflictSteps ==
    ASSUME Orderly, IInv, NEW r \in Runs, CreateConflicts(r)
    PROVE  IInv' /\ CancelledStreamStays /\ (NoCalls => SuccessKept)
  <1>1. /\ TypeOK /\ r \in Ops /\ op[r] \in Request /\ op[r].pc = "idle"
        /\ op' = [op EXCEPT ![r].pc = "done"] /\ Life(r) /\ RequestOK(r)
        /\ UNCHANGED <<runVars, taskVars, threadVars>>
    BY DEF CreateConflicts, IInv, TypeOK, Ops
  <1>2. op'[r] = [op[r] EXCEPT !.pc = "done"] /\ \A q \in Ops \ {r} : op'[q] = op[q]
    BY <1>1 DEF TypeOK
  <1>3. /\ op'[r] \in Request /\ op'[r].pc = "done" /\ op'[r].victims = op[r].victims
        /\ op'[r].todo = op[r].todo /\ op'[r].cur = op[r].cur
    BY <1>1, <1>2 DEF Request
  <1>4. /\ run' = run /\ kind' = kind /\ body' = body /\ signal' = signal /\ closed' = closed
        /\ graph' = graph /\ head' = head /\ seen' = seen /\ target' = target /\ lost' = lost
    BY <1>1 DEF runVars, taskVars, threadVars
  <1>5. TypeOK'
    BY <1>1, <1>3, <1>4 DEF TypeOK, TaskRunning
  <1>6. \A q \in Runs : q \in Ops /\ Life(q)'
    BY <1>1, <1>2, <1>3, <1>4 DEF IInv, Life, Working, Ops
  <1>7. \A q \in Ops : Todo(q)' = Todo(q)
    BY <1>2, <1>3 DEF Todo
  <1>8. \A q \in Ops : RequestOK(q)'
    <2>1. RequestOK(r)'
      BY <1>1, <1>3, <1>4, <1>7 DEF RequestOK, RollbackDue, Inflight
    <2>2. ASSUME NEW q \in Ops, q # r PROVE RequestOK(q)'
      BY <1>2, <1>4, <1>7, <2>2 DEF IInv, RequestOK, RollbackDue, Inflight
    <2> QED  BY <2>1, <2>2
  <1>9. \A q \in Runs : Succeeded(q)' /\ (NoCalls => Written(q)' /\ Builds(q)')
    <2>1. TAKE q \in Runs
    <2>2. op'[q].victims = op[q].victims
      BY <1>2, <1>3, <1>6
    <2>3. Succeeded(q)'
      BY <1>4, <2>2 DEF IInv, Succeeded
    <2>4. NoCalls => Written(q)'
      BY <1>4 DEF IInv, Written, Elsewhere, Inflight
    <2>5. NoCalls => Builds(q)'
      BY <1>4, <1>6, <1>7 DEF IInv, Builds, Success, Inflight
    <2> QED  BY <2>3, <2>4, <2>5
  <1>10. Apart' /\ OneActive'
    BY <1>4, <1>7 DEF IInv, Apart, OneActive, Inflight
  <1>11. CancelledStreamStays /\ (NoCalls => SuccessKept)
    BY <1>4 DEF CancelledStreamStays, SuccessKept, Losing
  <1> QED  BY <1>5, <1>6, <1>8, <1>9, <1>10, <1>11 DEF IInv

LEMMA LaunchSteps ==
    ASSUME Orderly, IInv, NEW r \in Runs, Launch(r)
    PROVE  IInv' /\ CancelledStreamStays /\ (NoCalls => SuccessKept)
  <1> USE DEF Inflight
  <1>1. /\ TypeOK /\ r \in Ops /\ op[r] \in Request /\ op[r].pc = "settling"
        /\ Life(r) /\ RequestOK(r)
    BY DEF Launch, AllSettled, IInv, TypeOK, Ops
  <1>2. run[r].status = "pending" /\ body[r] = "none" /\ graph[r] = "idle" /\ r \notin signal
    BY <1>1 DEF Life, Working
  <1>3. /\ op' = [op EXCEPT ![r].pc = "done"]
        /\ kind' = kind /\ signal' = signal /\ closed' = closed
        /\ head' = head /\ target' = target /\ lost' = lost
    BY DEF Launch
  <1>4. /\ run' \in [Runs -> RunRecord] /\ body' \in [Runs -> Bodies]
        /\ graph' \in [Runs -> {"idle", "stepping", "over"}] /\ seen' \in [Runs -> SUBSET Runs]
        /\ \A q \in Runs \ {r} : /\ run'[q] = run[q] /\ body'[q] = body[q]
                                /\ graph'[q] = graph[q] /\ seen'[q] = seen[q]
        /\ IF kind[r] = "blocking"
             THEN body'[r] = "invoking" /\ run'[r].status = "running" /\ graph'[r] = "stepping"
             ELSE body'[r] = "scheduled" /\ run' = run /\ graph' = graph /\ seen' = seen
    <2>1. CASE kind[r] = "blocking"
      <3>1. SetStatus(r, "running")
        BY <2>1 DEF Launch
      <3>2. /\ run' \in [Runs -> RunRecord] /\ run'[r] = [run[r] EXCEPT !.status = "running"]
            /\ \A q \in Runs \ {r} : run'[q] = run[q]
        BY <1>1, <3>1, StatusSet
      <3>3. run'[r].status = "running"
        BY <1>1, <3>2 DEF TypeOK, RunRecord
      <3>4. /\ body' = [body EXCEPT ![r] = "invoking"]
            /\ graph' = [graph EXCEPT ![r] = "stepping"] /\ seen' = [seen EXCEPT ![r] = head]
        BY <2>1 DEF Launch, Goto
      <3> QED  BY <1>1, <2>1, <3>2, <3>3, <3>4 DEF TypeOK, Bodies
    <2>2. CASE kind[r] # "blocking"
      BY <1>1, <2>2 DEF Launch, Goto, TypeOK, Bodies
    <2> QED  BY <2>1, <2>2
  <1>5. op'[r] = [op[r] EXCEPT !.pc = "done"] /\ \A q \in Ops \ {r} : op'[q] = op[q]
    BY <1>1, <1>3 DEF TypeOK
  <1>6. /\ op'[r] \in Request /\ op'[r].pc = "done" /\ op'[r].victims = op[r].victims
        /\ op'[r].todo = op[r].todo /\ op'[r].cur = op[r].cur
    BY <1>1, <1>5 DEF Request
  <1>7. TypeOK'
    BY <1>1, <1>2, <1>3, <1>4, <1>6 DEF TypeOK, TaskRunning
  <1>8. \A q \in Runs : q \in Ops /\ Life(q)'
    <2>1. Life(r)'
      BY <1>1, <1>2, <1>3, <1>4, <1>6 DEF Life, Working
    <2>2. ASSUME NEW q \in Runs, q # r PROVE q \in Ops /\ Life(q)'
      BY <1>3, <1>4, <1>5, <2>2 DEF IInv, Life, Working, Ops
    <2> QED  BY <1>1, <2>1, <2>2
  <1>9. \A q \in Ops : op'[q].victims = op[q].victims /\ Todo(q)' = Todo(q)
    BY <1>5, <1>6 DEF Todo
  <1>10. \A q \in Ops : \A v \in op[q].victims :
             v \in Runs /\ v # r /\ body'[v] = body[v] /\ run'[v] = run[v]
    <2>1. \A q \in Ops : RequestOK(q) /\ op[q].victims \subseteq Runs
      BY DEF IInv, TypeOK, Request
    <2> QED  BY <1>2, <1>4, <2>1 DEF RequestOK
  <1>11. \A q \in Ops : RequestOK(q)'
    <2>1. TAKE q \in Ops
    <2>2. RequestOK(q) /\ \A v \in Todo(q) : v \in op[q].victims
      BY RunsAssumption DEF IInv, RequestOK, Todo
    <2>3. \A v \in Todo(q)' : RollbackDue(v)'
      BY <1>3, <1>9, <1>10, <2>2 DEF RequestOK, RollbackDue
    <2>4. CASE q = r
      BY <1>1, <1>6, <1>9, <1>10, <2>3, <2>4 DEF RequestOK
    <2>5. CASE q # r
      <3>1. op[q].cur # NoRun => run'[op[q].cur] = run[op[q].cur]
        BY <1>10, <2>2 DEF RequestOK
      <3> QED  BY <1>3, <1>5, <1>10, <2>2, <2>3, <2>5, <3>1 DEF RequestOK
    <2> QED  BY <2>4, <2>5
  <1>12. \A q \in Runs : Succeeded(q)'
    <2>1. \A v \in op[r].victims : kind[v] # "blocking" => body[v] = "done"
      BY <1>1 DEF Launch, AllSettled, RequestOK
    <2> QED  BY <1>3, <1>4, <1>8, <1>9, <1>10, <2>1 DEF IInv, Succeeded
  <1>13. ASSUME NoCalls PROVE \A q \in Runs : Written(q)' /\ Builds(q)'
    <2>1. kind[r] # "blocking"
      BY <1>1, <1>13 DEF TypeOK, NoCalls
    <2>2. run' = run /\ graph' = graph /\ seen' = seen
      BY <1>4, <2>1
    <2> QED  BY <1>3, <1>8, <1>9, <1>13, <2>2 DEF IInv, Written, Builds, Elsewhere, Success
  <1>14. Apart' /\ OneActive'
    <2>1. \A q \in Runs : Inflight(q)' => Inflight(q)
      BY <1>2, <1>4
    <2> QED  BY <1>9, <2>1 DEF IInv, Apart, OneActive
  <1>15. CancelledStreamStays /\ (NoCalls => SuccessKept)
    BY <1>2, <1>3, <1>4 DEF CancelledStreamStays, SuccessKept, Losing
  <1> QED  BY <1>7, <1>8, <1>11, <1>12, <1>13, <1>14, <1>15 DEF IInv

----------------------------------------------------------------------------
LEMMA InitOK == ASSUME Orderly, Init PROVE IInv
  <1>1. /\ run = [r \in Runs |-> Absent] /\ kind = [r \in Runs |-> "none"]
        /\ body = [r \in Runs |-> "none"] /\ graph = [r \in Runs |-> "idle"]
        /\ signal = {} /\ closed = {} /\ head = {} /\ lost = {}
        /\ seen = [r \in Runs |-> {}] /\ target = [r \in Runs |-> {}]
        /\ op = [p \in Ops |-> Idle]
    BY DEF Init
  <1>2. Absent \in RunRecord /\ Absent.status = "absent"
    BY DEF Absent, RunRecord
  <1>3. Rolling({}, {}) = [pc |-> "rolling", victims |-> {}, todo |-> {}, cur |-> NoRun, tasks |-> {}]
    BY DEF Rolling
  <1>4. /\ Idle \in Request /\ Idle.pc = "idle" /\ Idle.victims = {}
        /\ Idle.todo = {} /\ Idle.cur = NoRun
    BY <1>3 DEF Idle, Request
  <1>5. TypeOK
    BY <1>1, <1>2, <1>4 DEF TypeOK, Bodies
  <1>6. \A p \in Ops : op[p] = Idle
    BY Zenon DEF Init
  <1>7. \A r \in Runs : body[r] = "none" /\ graph[r] = "idle" /\ kind[r] = "none"
    BY Zenon DEF Init
  <1>8. \A r \in Runs : seen[r] = {} /\ target[r] = {}
    BY Zenon DEF Init
  <1>9. \A r \in Runs : r \in Ops /\ run[r] = Absent
    BY Zenon DEF Init, Ops
  <1>10. \A r \in Runs : /\ run[r].status = "absent" /\ op[r].pc = "idle"
                         /\ op[r].victims = {}
    BY <1>2, <1>4, <1>6, <1>9, Zenon
  <1>11. \A r \in Runs : r \notin signal /\ r \notin head
    BY Zenon DEF Init
  <1>12. \A r \in Runs : Life(r) /\ Succeeded(r) /\ ~Inflight(r)
    <2>1. SUFFICES ASSUME NEW r \in Runs PROVE Life(r) /\ Succeeded(r) /\ ~Inflight(r)
      BY Zenon
    <2>2. /\ body[r] = "none" /\ graph[r] = "idle" /\ kind[r] = "none" /\ r \notin signal
          /\ run[r].status = "absent" /\ op[r].pc = "idle"
      BY <1>7, <1>10, <1>11
    <2>3. Life(r)
      BY <2>2 DEF Life, Working
    <2>4. Succeeded(r)
      BY <2>2 DEF Succeeded
    <2>5. ~Inflight(r)
      BY <2>2 DEF Inflight
    <2> QED  BY <2>3, <2>4, <2>5
  <1>13. \A p \in Ops : Todo(p) = {} /\ RequestOK(p)
    <2>1. TAKE p \in Ops
    <2>2. /\ op[p].pc = "idle" /\ op[p].victims = {} /\ op[p].todo = {}
          /\ op[p].cur = NoRun
      BY <1>4, <1>6
    <2>3. Todo(p) = {}
      BY <2>2, RunsAssumption DEF Todo
    <2> QED  BY <2>2, <2>3 DEF RequestOK
  <1>14. \A r \in Runs : ~Elsewhere(r) /\ r \notin head /\ \A p \in Runs : r \notin Todo(p)
    <2>1. \A r \in Runs : ~Elsewhere(r) /\ r \notin head
      BY <1>8, <1>11, Zenon DEF Elsewhere
    <2>2. \A p \in Runs : Todo(p) = {}
      BY <1>9, <1>13, Zenon
    <2>3. ASSUME NEW r \in Runs, NEW p \in Runs PROVE r \notin Todo(p)
      BY <2>2
    <2> QED  BY <2>1, <2>3, Zenon
  <1>15. \A r \in Runs : Written(r) /\ Builds(r)
    <2>1. SUFFICES ASSUME NEW r \in Runs PROVE Written(r) /\ Builds(r)
      BY Zenon
    <2>2. ~Inflight(r) /\ ~Elsewhere(r) /\ r \notin head
      BY <1>12, <1>14, Zenon
    <2>3. ~\E p \in Runs : r \in Todo(p)
      BY <1>14, Zenon
    <2>4. Written(r)
      BY <2>2, Zenon DEF Written
    <2>5. Builds(r)
      BY <2>2, <2>3, Zenon DEF Builds
    <2> QED  BY <2>4, <2>5
  <1>16. Apart
    <2>1. SUFFICES ASSUME NEW p \in Ops, NEW q \in Ops
                   PROVE  Todo(p) \intersect Todo(q) = {}
      BY Zenon DEF Apart
    <2> QED  BY <2>1, <1>13
  <1>17. OneActive
    BY <1>12, Zenon DEF OneActive
  <1>18. /\ \A r \in Runs : Life(r)
         /\ \A r \in Runs : Succeeded(r)
         /\ \A p \in Ops : RequestOK(p)
    BY <1>12, <1>13, Zenon
  <1>19. /\ \A r \in Runs : Written(r)
         /\ \A r \in Runs : Builds(r)
    BY <1>15, Zenon
  <1> QED  BY <1>5, <1>16, <1>17, <1>18, <1>19, Zenon DEF IInv

LEMMA NextOK ==
    ASSUME Orderly, IInv, [Next]_vars
    PROVE  IInv' /\ CancelledStreamStays /\ (NoCalls => SuccessKept)
  <1>1. ASSUME UNCHANGED vars PROVE IInv' /\ CancelledStreamStays /\ (NoCalls => SuccessKept)
    <2> USE <1>1 DEF vars, runVars, taskVars, threadVars
    <2>1. TypeOK' /\ (\A r \in Runs : Life(r)')
      BY DEF IInv, TypeOK, TaskRunning, Life, Working
    <2>2. (\A p \in Ops : RequestOK(p)') /\ Apart'
      BY DEF IInv, RequestOK, RollbackDue, Inflight, Todo, Apart
    <2>3. OneActive' /\ \A r \in Runs : Succeeded(r)'
      BY DEF IInv, OneActive, Succeeded, Inflight
    <2>4. NoCalls => \A r \in Runs : Written(r)' /\ Builds(r)'
      BY DEF IInv, OneActive, Succeeded, Written, Builds, Elsewhere, Success, Inflight, Todo
    <2> QED  BY <2>1, <2>2, <2>3, <2>4 DEF IInv, CancelledStreamStays, SuccessKept, Losing
  <1>2. ASSUME NEW r \in Runs, ProducerStep(r)
        PROVE  IInv' /\ CancelledStreamStays /\ (NoCalls => SuccessKept)
    <2>1. TypeOK /\ Life(r)
      BY DEF IInv
    <2> QED  BY <1>2, <2>1, ProducerSteps, ProducerKeeps
  <1>3. ASSUME NEW p \in Ops, RequestStep(p)
        PROVE  IInv' /\ CancelledStreamStays /\ (NoCalls => SuccessKept)
    BY <1>3, RequestSteps, RequestKeeps
  <1>4. ASSUME NEW c \in Cancellers, Return(c)
        PROVE  IInv' /\ CancelledStreamStays /\ (NoCalls => SuccessKept)
    <2>1. c \in Ops
      BY DEF Ops
    <2> QED  BY <1>4, <2>1, ReturnSteps, RequestKeeps
  <1>5. CASE Terminated
    BY <1>1, <1>5 DEF Terminated
  <1> QED
    BY <1>1, <1>2, <1>3, <1>4, <1>5, GraphSteps, CreateSteps, CancelSteps, ConflictSteps,
       LaunchSteps DEF Next

LEMMA Invariance == ASSUME Orderly PROVE Spec => []IInv
  <1>1. Init => IInv
    BY InitOK
  <1>2. IInv /\ [Next]_vars => IInv'
    BY NextOK
  <1> QED  BY <1>1, <1>2, PTL DEF Spec

(* create_or_reject leaves a thread one active run, as long as runs are     *)
(* cancelled after their producers have started.                            *)
THEOREM OneRunPerThread == ASSUME Orderly PROVE Spec => []OneActive
  <1>1. IInv => OneActive
    BY DEF IInv
  <1> QED  BY <1>1, Invariance, PTL

(* The producer of a run never works beside one of a run it superseded.     *)
THEOREM ProducersStayApart == ASSUME Orderly PROVE Spec => []ProducersApart
  <1>1. IInv => ProducersApart
    <2>1. SUFFICES ASSUME IInv, NEW r \in Runs, Working(r), NEW v \in op[r].victims
                   PROVE  ~Working(v) /\ body[v] \notin {"unwinding", "closing", "awaiting"}
      BY DEF ProducersApart
    <2>2. v \in Runs /\ Life(v) /\ Succeeded(r)
      BY <2>1 DEF IInv, TypeOK, Request, Ops
    <2> QED  BY <2>1, <2>2 DEF Succeeded, Life, Working
  <1> QED  BY <1>1, Invariance, PTL

(* A checkpoint is restored while its producer waits in its finally clause. *)
THEOREM RestoredWhileHeld ==
    ASSUME Orderly, ~Timeouts
    PROVE  Spec => []RollbackWhileHeld
  <1>1. ASSUME IInv PROVE RollbackWhileHeld
    <2>1. SUFFICES ASSUME NEW p \in Ops, op[p].pc = "reporting", kind[op[p].cur] # "blocking"
                   PROVE  body[op[p].cur] = "awaiting"
      BY DEF RollbackWhileHeld
    <2>2. RequestOK(p) /\ op[p].victims \subseteq Runs
      BY <1>1 DEF IInv, TypeOK, Request
    <2> QED  BY <2>1, <2>2 DEF RequestOK, Todo, RollbackDue
  <1> QED  BY <1>1, Invariance, PTL

(* A cancelled graph stream is interrupted ever after.                      *)
THEOREM CancelIsFinal == ASSUME Orderly PROVE Spec => StreamCancelIsFinal
  <1>1. IInv /\ [Next]_vars => [CancelledStreamStays]_vars
    BY NextOK
  <1> QED  BY <1>1, Invariance, PTL DEF Spec, StreamCancelIsFinal

(* Only a leftover graph, or the rollback a cancel request asked for, takes *)
(* the writes of a run that succeeded away.                                 *)
THEOREM SuccessIsKept ==
    ASSUME Orderly, NoCalls
    PROVE  Spec => SuccessStays
  <1>1. IInv /\ [Next]_vars => [SuccessKept]_vars
    BY NextOK
  <1> QED  BY <1>1, Invariance, PTL DEF Spec, SuccessStays

----------------------------------------------------------------------------
(* What is waited for is on its way: nothing is assumed of when runs are    *)
(* cancelled, of their kinds, or of the waits.                              *)

(* A run in flight has a producer before its end or none yet; a pending     *)
(* cancellation is on a task that a cancelled run has, and that will take it; *)
(* and only a producer on its way to its finally clause, or one that never  *)
(* got there, has yet to say that a rollback may begin.                     *)
Place(r) ==
    /\ Inflight(r) => body[r] \in {"none", "scheduled", "started", "acting", "streaming", "invoking"}
    /\ r \in signal => kind[r] # "blocking" /\ ~Inflight(r) /\ (Working(r) \/ body[r] = "scheduled")
    /\ ~run[r].ready => run[r].action = "rollback" /\ (OnItsWay(r) \/ body[r] = "done")
    /\ body[r] = "invoking" => kind[r] = "blocking"
    /\ op[r].pc # "done" => body[r] = "none"

(* A rollback that is not completed is in the hands of a request.           *)
Tends(p, r) == op[p].pc \in {"rolling", "reporting"} /\ (r \in op[p].todo \/ r = op[p].cur)
Tended(r) == ~run[r].completed => \E p \in Ops : Tends(p, r)

(* A request settles tasks, and tasks come to their end.                    *)
TaskGoesOn(v) == kind[v] # "blocking" /\ (OnItsWay(v) \/ body[v] \in {"awaiting", "done"})
Awaited(p) ==
    /\ op[p].pc = "reporting" => op[p].cur # NoRun
    /\ op[p].pc = "settling" => \A v \in op[p].tasks : TaskGoesOn(v)

WaitInv ==
    /\ TypeOK
    /\ \A r \in Runs : Place(r)
    /\ \A r \in Runs : Tended(r)
    /\ \A p \in Ops : Awaited(p)

(* What a step of the producer of r does.                                   *)
Onward(r) ==
    /\ UNCHANGED <<kind, op>>
    /\ \A q \in Runs \ {r} :
           run'[q] = run[q] /\ body'[q] = body[q] /\ (q \in signal' <=> q \in signal)
    /\ run'[r].completed = run[r].completed
    /\ Place(r)'
    /\ TaskGoesOn(r) => TaskGoesOn(r)'

(* The steps of producers, of graphs, and of requests that roll back.       *)
LEMMA ProducerGoesOn ==
    ASSUME TypeOK, NEW r \in Runs, Place(r), ProducerStep(r)
    PROVE  TypeOK' /\ Onward(r)
  <1>0. \A s \in {"running", "success", "error", "interrupted"} :
            SetStatus(r, s) => /\ run' \in [Runs -> RunRecord]
                               /\ run'[r] = [run[r] EXCEPT !.status = s]
                               /\ \A q \in Runs \ {r} : run'[q] = run[q]
    BY StatusSet
  <1> USE DEF TypeOK, RunRecord, Bodies, vars, runVars, taskVars, threadVars, Goto, SetStatus,
          Quiet, Inflight, Working, TaskRunning, Onward, Place, TaskGoesOn, OnItsWay, Finish
  <1>1. CASE Start(r)
    <2>1. /\ run' \in [Runs -> RunRecord]
          /\ run'[r] = [run[r] EXCEPT !.status = "running"]
          /\ \A q \in Runs \ {r} : run'[q] = run[q]
      BY <1>0, <1>1 DEF Start
    <2>2. TypeOK'
      BY <1>1, <2>1 DEF Start
    <2>3. Onward(r)
      BY <1>1, <2>1 DEF Start
    <2> QED  BY <2>2, <2>3
  <1>2. CASE NeverStarts(r)
    BY <1>2 DEF NeverStarts
  <1>3. CASE BeginGraph(r)
    BY <1>3 DEF BeginGraph
  <1>4. CASE BeginAction(r)
    BY <1>4 DEF BeginAction
  <1>5. ASSUME NEW s \in {"success", "error", "interrupted"}, Finish(r, s), op' = op, kind' = kind,
               closed' = closed, UNCHANGED threadVars,
               \/ Working(r) /\ Quiet(r) /\ signal' = signal
               \/ Working(r) /\ ~Quiet(r) /\ signal' = signal \ {r}
               \/ body[r] = "unwinding" /\ signal' = signal
        PROVE  TypeOK' /\ Onward(r)
    <2>1. /\ run' \in [Runs -> RunRecord]
          /\ run'[r] = [run[r] EXCEPT !.status = s]
          /\ \A q \in Runs \ {r} : run'[q] = run[q]
      BY <1>0, <1>5
    <2>2. TypeOK'
      BY <1>5, <2>1
    <2>3. /\ run'[r].status = s /\ run'[r].ready = run[r].ready
          /\ run'[r].action = run[r].action /\ run'[r].completed = run[r].completed
      BY <2>1
    <2>4. body'[r] = "closing" /\ \A q \in Runs \ {r} : body'[q] = body[q]
      BY <1>5
    <2>5. r \notin signal' /\ \A q \in Runs \ {r} : q \in signal' <=> q \in signal
      BY <1>5
    <2>6. Onward(r)
      BY <1>5, <2>1, <2>3, <2>4, <2>5
    <2> QED  BY <2>2, <2>6
  <1>6. CASE Succeed(r)
    BY <1>5, <1>6 DEF Succeed
  <1>7. CASE Fail(r)
    BY <1>5, <1>7 DEF Fail
  <1>8. CASE SeeAbort(r)
    BY <1>5, <1>8 DEF SeeAbort
  <1>9. CASE DeliverCancel(r)
    <2>1. CASE body[r] = "streaming" /\ Goto(r, "unwinding") /\ UNCHANGED run
      BY <1>9, <2>1 DEF DeliverCancel
    <2>2. CASE Finish(r, "interrupted")
      BY <1>5, <1>9, <2>2 DEF DeliverCancel
    <2> QED  BY <1>9, <2>1, <2>2 DEF DeliverCancel
  <1>10. CASE SwallowCancel(r)
    BY <1>10 DEF SwallowCancel
  <1>11. CASE Unwind(r)
    BY <1>5, <1>11 DEF Unwind
  <1>12. CASE SignalReady(r)
    <2> USE <1>12 DEF SignalReady, Readied
    <2>1. run' \in [Runs -> RunRecord]
      BY ReadySet
    <2>2. TypeOK'
      BY <2>1
    <2>3. /\ run'[r].status = run[r].status /\ run'[r].action = run[r].action
          /\ run'[r].completed = run[r].completed
          /\ run'[r].ready = (run[r].ready \/ run[r].action = "rollback")
          /\ \A q \in Runs \ {r} : run'[q] = run[q]
      OBVIOUS
    <2>4. run[r].ready \/ run[r].action = "rollback"
      OBVIOUS
    <2>5. run'[r].ready
      BY <2>3, <2>4
    <2>6. body[r] = "closing" /\ body'[r] = "awaiting" /\ signal' = signal /\ op' = op
          /\ kind' = kind /\ \A q \in Runs \ {r} : body'[q] = body[q]
      OBVIOUS
    <2>7. ~Inflight(r)' /\ r \notin signal
      BY <2>3, <2>6
    <2>8. Place(r)' /\ (TaskGoesOn(r) => TaskGoesOn(r)')
      BY <2>5, <2>6, <2>7
    <2>9. Onward(r)
      BY <2>3, <2>6, <2>8
    <2> QED  BY <2>2, <2>9
  <1>13. CASE CloseStream(r)
    BY <1>13 DEF CloseStream
  <1>14. CASE BlockingEnds(r)
    <2>1. PICK s \in {"success", "error"} : SetStatus(r, s)
      BY <1>14 DEF BlockingEnds
    <2>2. /\ run' \in [Runs -> RunRecord]
          /\ run'[r] = [run[r] EXCEPT !.status = s]
          /\ \A q \in Runs \ {r} : run'[q] = run[q]
      BY <1>0, <2>1
    <2>3. /\ run'[r].status = s /\ run'[r].ready = run[r].ready
          /\ run'[r].action = run[r].action /\ run'[r].completed = run[r].completed
      BY <2>2
    <2>4. kind[r] = "blocking" /\ body[r] = "invoking" /\ r \notin signal
      BY <1>14 DEF BlockingEnds
    <2>5. TypeOK'
      BY <1>14, <2>2, <2>4 DEF BlockingEnds
    <2>6. Onward(r)
      BY <1>14, <2>2, <2>3, <2>4 DEF BlockingEnds
    <2> QED  BY <2>5, <2>6
  <1> QED
    BY <1>1, <1>2, <1>3, <1>4, <1>6, <1>7, <1>8, <1>9, <1>10, <1>11, <1>12, <1>13, <1>14
       DEF ProducerStep

LEMMA OnwardKeeps ==
    ASSUME WaitInv, NEW r \in Runs, TypeOK', Onward(r)
    PROVE  WaitInv'
  <1>1. \A q \in Runs : Place(q)'
    <2>1. SUFFICES ASSUME NEW q \in Runs \ {r} PROVE Place(q)'
      BY DEF Onward
    <2> QED  BY <2>1 DEF WaitInv, Onward, Place, Inflight, Working, OnItsWay
  <1>2. \A q \in Runs : run'[q].completed = run[q].completed /\ (TaskGoesOn(q) => TaskGoesOn(q)')
    BY DEF Onward, TaskGoesOn, OnItsWay
  <1>3. \A q \in Runs : Tended(q)'
    BY <1>2 DEF WaitInv, Onward, Tended, Tends
  <1>4. \A p \in Ops : Awaited(p)'
    <2>1. \A p \in Ops : op[p].tasks \subseteq Runs
      BY DEF WaitInv, TypeOK, Request
    <2> QED  BY <1>2, <2>1 DEF WaitInv, Onward, Awaited
  <1> QED  BY <1>1, <1>3, <1>4 DEF WaitInv

LEMMA GraphGoesOn ==
    ASSUME WaitInv, NEW r \in Runs, GraphStep(r)
    PROVE  WaitInv'
  <1>1. /\ UNCHANGED <<runVars, taskVars, op, seen, target>>
        /\ graph' \in [Runs -> {"idle", "stepping", "over"}]
        /\ \/ head' = head /\ lost' = lost
           \/ head' = seen[r] \union {r} /\ lost' = lost \union Losing
    BY DEF GraphStep, Commit, StopGraph, WaitInv, TypeOK, threadVars
  <1>2. run' = run /\ kind' = kind /\ body' = body /\ signal' = signal /\ closed' = closed
        /\ op' = op /\ seen' = seen /\ target' = target
    BY <1>1 DEF runVars, taskVars
  <1>3. TypeOK'
    BY <1>1, <1>2 DEF WaitInv, TypeOK, Losing, TaskRunning
  <1> QED
    BY <1>2, <1>3 DEF WaitInv, Place, Tended, Tends, Awaited, TaskGoesOn, OnItsWay, Inflight, Working

(* What the steps of requests leave of a run that is not the requester's.   *)
Unmoved(r) ==
    /\ kind'[r] = kind[r] /\ body'[r] = body[r] /\ (r \in signal' <=> r \in signal)
    /\ run'[r].status = run[r].status /\ run'[r].action = run[r].action
    /\ run[r].ready => run'[r].ready
    /\ op[r].pc = "done" => op'[r].pc = "done"

LEMMA UnmovedPlace ==
    ASSUME NEW r \in Runs, Place(r), Unmoved(r)
    PROVE  Place(r)'
  BY DEF Place, Unmoved, Inflight, Working, OnItsWay

LEMMA RequestGoesOn ==
    ASSUME WaitInv, NEW p \in Ops, RequestStep(p)
    PROVE  WaitInv'
  <1> DEFINE others == \A q \in Ops \ {p} : op'[q] = op[q]
  <1>0. /\ TypeOK /\ op[p] \in Request /\ Awaited(p) /\ Runs \subseteq Ops
        /\ op[p].pc # "done" /\ UNCHANGED <<kind, body, signal>>
    <2>1. ASSUME NEW v \in Runs, PickRecord(p, v)
          PROVE  op[p].pc = "rolling" /\ UNCHANGED <<kind, body, signal>>
      BY <2>1 DEF PickRecord, taskVars
    <2>2. Restore(p) => op[p].pc = "rolling" /\ UNCHANGED <<kind, body, signal>>
      BY DEF Restore, taskVars, runVars
    <2>3. Report(p) => op[p].pc = "reporting" /\ UNCHANGED <<kind, body, signal>>
      BY DEF Report, taskVars
    <2>4. Settle(p) => op[p].pc = "rolling" /\ UNCHANGED <<kind, body, signal>>
      BY DEF Settle, taskVars, runVars
    <2>5. op[p].pc \in {"rolling", "reporting"} /\ UNCHANGED <<kind, body, signal>>
      BY <2>1, <2>2, <2>3, <2>4 DEF RequestStep
    <2> QED  BY <2>5 DEF WaitInv, TypeOK, Ops
  <1> USE <1>0, RunsAssumption
  <1> USE DEF runVars, taskVars, threadVars
  <1>p. ASSUME \A v \in Runs : /\ run'[v].status = run[v].status /\ run'[v].action = run[v].action
                               /\ run[v].ready => run'[v].ready,
               others, op[p].pc # "done"
        PROVE  \A r \in Runs : Place(r)'
    <2>1. \A r \in Runs : Unmoved(r)
      BY <1>p DEF Unmoved
    <2> QED  BY <2>1, UnmovedPlace DEF WaitInv
  <1>u. \A v \in Runs : TaskGoesOn(v) => TaskGoesOn(v)'
    BY DEF TaskGoesOn, OnItsWay
  <1>t. \A q \in Ops : op[q].tasks \subseteq Runs
    BY DEF TypeOK, Request
  <1>a. ASSUME others, Awaited(p)'
        PROVE  \A q \in Ops : Awaited(q)'
    BY <1>u, <1>t, <1>a DEF WaitInv, Awaited
  <1>1. ASSUME NEW v \in Runs, PickRecord(p, v), run[v].action = "rollback" PROVE WaitInv'
    <2>1. /\ op' = [op EXCEPT ![p].cur = v, ![p].todo = @ \ {v}]
          /\ run' = [run EXCEPT ![v].completed = FALSE]
          /\ UNCHANGED <<kind, taskVars, threadVars>>
          /\ v \in op[p].todo /\ op[p].cur = NoRun /\ op[p].pc = "rolling"
      BY <1>1 DEF PickRecord
    <2>2. op'[p] = [op[p] EXCEPT !.cur = v, !.todo = op[p].todo \ {v}] /\ others
      BY <2>1 DEF TypeOK
    <2>9. op'[p].cur = v /\ op'[p].todo = op[p].todo \ {v}
      BY <2>2 DEF Request
    <2>10. op'[p].pc = op[p].pc
      BY <2>2 DEF Request
    <2>3. op'[p].pc = "rolling" /\ op'[p].cur = v /\ op'[p].todo = op[p].todo \ {v}
      BY <2>1, <2>9, <2>10
    <2>4. /\ run' \in [Runs -> RunRecord] /\ ~run'[v].completed
          /\ run'[v].ready = run[v].ready /\ run'[v].action = run[v].action
          /\ run'[v].status = run[v].status
          /\ \A w \in Runs \ {v} : run'[w] = run[w]
      BY <2>1, CompletedSet
    <2>5. TypeOK'
      <3>1. op'[p] \in Request
        <4>1. op[p].todo \ {v} \in SUBSET Runs /\ v \in Runs \union {NoRun}
          BY DEF Request
        <4> QED  BY <2>2, <4>1 DEF Request
      <3>2. op' \in [Ops -> Request]
        BY <2>1, <2>2, <3>1 DEF TypeOK
      <3> QED  BY <2>1, <2>4, <3>2 DEF TypeOK, TaskRunning
    <2>6. \A r \in Runs : Place(r)'
      BY <1>p, <2>2, <2>4
    <2>7. \A r \in Runs : Tended(r)'
      <3>1. TAKE r \in Runs
      <3>2. CASE r = v
        BY <2>3, <3>2 DEF Tended, Tends
      <3>3. CASE r # v
        <4>1. \A q \in Ops : Tends(q, r) => Tends(q, r)'
          BY <2>1, <2>2, <2>3, <3>3 DEF Tends
        <4> QED  BY <2>4, <3>3, <4>1 DEF WaitInv, Tended
      <3> QED  BY <3>2, <3>3
    <2>8. Awaited(p)'
      BY <2>3 DEF Awaited
    <2> QED  BY <1>a, <2>2, <2>5, <2>6, <2>7, <2>8 DEF WaitInv
  <1>2. ASSUME NEW v \in Runs, PickRecord(p, v), run[v].action # "rollback" PROVE WaitInv'
    <2>1. /\ op' = [op EXCEPT ![p].todo = @ \ {v}]
          /\ run' = [run EXCEPT ![v] = [@ EXCEPT !.ready = TRUE, !.completed = TRUE]]
          /\ UNCHANGED <<kind, taskVars, threadVars>>
          /\ v \in op[p].todo /\ op[p].cur = NoRun /\ op[p].pc = "rolling"
      BY <1>2 DEF PickRecord
    <2>2. op'[p] = [op[p] EXCEPT !.todo = op[p].todo \ {v}] /\ others
      BY <2>1 DEF TypeOK
    <2>3. op'[p].pc = "rolling" /\ op'[p].cur = op[p].cur /\ op'[p].todo = op[p].todo \ {v}
      BY <2>1, <2>2 DEF Request
    <2>4. /\ run[v] \in RunRecord /\ run'[v] = [run[v] EXCEPT !.ready = TRUE, !.completed = TRUE]
          /\ \A w \in Runs \ {v} : run'[w] = run[w]
      BY <2>1 DEF TypeOK
    <2>5. /\ run'[v] \in RunRecord /\ run'[v].completed /\ run'[v].ready
          /\ run'[v].action = run[v].action /\ run'[v].status = run[v].status
      BY <2>4 DEF RunRecord
    <2>6. TypeOK'
      <3>1. op'[p] \in Request
        <4>1. op[p].todo \ {v} \in SUBSET Runs
          BY DEF Request
        <4> QED  BY <2>2, <4>1 DEF Request
      <3>2. op' \in [Ops -> Request] /\ run' \in [Runs -> RunRecord]
        BY <2>1, <2>2, <2>5, <3>1 DEF TypeOK
      <3> QED  BY <2>1, <3>2 DEF TypeOK, TaskRunning
    <2>7. \A r \in Runs : Place(r)'
      BY <1>p, <2>2, <2>4, <2>5
    <2>8. \A r \in Runs : Tended(r)'
      <3>1. SUFFICES ASSUME NEW r \in Runs, r # v PROVE Tended(r)'
        BY <2>5 DEF Tended
      <3>2. \A q \in Ops : Tends(q, r) => Tends(q, r)'
        BY <2>1, <2>2, <2>3, <3>1 DEF Tends
      <3> QED  BY <2>4, <3>1, <3>2 DEF WaitInv, Tended
    <2>9. Awaited(p)'
      BY <2>3 DEF Awaited
    <2> QED  BY <1>a, <2>2, <2>6, <2>7, <2>8, <2>9 DEF WaitInv
  <1>3. CASE Restore(p)
    <2>1. /\ op[p].cur \in Runs /\ op[p].pc = "rolling"
          /\ op' = [op EXCEPT ![p].pc = "reporting"]
          /\ head' \in {target[op[p].cur], head} /\ lost' = lost \union Losing
          /\ UNCHANGED <<runVars, taskVars, graph, seen, target>>
      BY <1>3 DEF Restore, Request
    <2>2. op'[p] = [op[p] EXCEPT !.pc = "reporting"] /\ others
      BY <2>1 DEF TypeOK
    <2>3. op'[p].pc = "reporting" /\ op'[p].cur = op[p].cur /\ op'[p].todo = op[p].todo
          /\ op'[p] \in Request
      BY <2>2 DEF Request
    <2>4. TypeOK'
      BY <2>1, <2>3 DEF TypeOK, TaskRunning, Losing
    <2>5. \A r \in Runs : Place(r)'
      BY <1>p, <2>1, <2>2
    <2>6. \A r \in Runs : Tended(r)'
      <3>1. \A q \in Ops, r \in Runs : Tends(q, r) => Tends(q, r)'
        BY <2>1, <2>2, <2>3 DEF Tends
      <3> QED  BY <2>1, <3>1 DEF WaitInv, Tended
    <2>7. Awaited(p)'
      BY <2>1, <2>3 DEF Awaited
    <2> QED  BY <1>a, <2>2, <2>4, <2>5, <2>6, <2>7 DEF WaitInv
  <1>4. CASE Report(p)
    <2> DEFINE v == op[p].cur
    <2>1. /\ v \in Runs /\ op[p].pc = "reporting"
          /\ op' = [op EXCEPT ![p] = [@ EXCEPT !.pc = "rolling", !.cur = NoRun]]
          /\ run' = [run EXCEPT ![v].completed = TRUE]
          /\ UNCHANGED <<kind, taskVars, threadVars>>
      BY <1>4 DEF Report, Awaited, Request
    <2>2. op'[p] = [op[p] EXCEPT !.pc = "rolling", !.cur = NoRun] /\ others
      BY <2>1 DEF TypeOK
    <2>3. op'[p].pc = "rolling" /\ op'[p].cur = NoRun /\ op'[p].todo = op[p].todo
          /\ op'[p] \in Request
      BY <2>2 DEF Request
    <2>4. /\ run' \in [Runs -> RunRecord] /\ run'[v].completed
          /\ run'[v].ready = run[v].ready /\ run'[v].action = run[v].action
          /\ run'[v].status = run[v].status
          /\ \A w \in Runs \ {v} : run'[w] = run[w]
      BY <2>1, CompletedSet
    <2>5. TypeOK'
      BY <2>1, <2>3, <2>4 DEF TypeOK, TaskRunning
    <2>6. \A r \in Runs : Place(r)'
      BY <1>p, <2>1, <2>2, <2>4
    <2>7. \A r \in Runs : Tended(r)'
      <3>1. SUFFICES ASSUME NEW r \in Runs, r # v PROVE Tended(r)'
        BY <2>4 DEF Tended
      <3>2. \A q \in Ops : Tends(q, r) => Tends(q, r)'
        BY <2>1, <2>2, <2>3, <3>1 DEF Tends
      <3> QED  BY <2>4, <3>1, <3>2 DEF WaitInv, Tended
    <2>8. Awaited(p)'
      BY <2>3 DEF Awaited
    <2> QED  BY <1>a, <2>2, <2>5, <2>6, <2>7, <2>8 DEF WaitInv
  <1>5. CASE Settle(p)
    <2>1. /\ op[p].pc = "rolling" /\ op[p].cur = NoRun /\ op[p].todo = {}
          /\ op' = [op EXCEPT ![p] = [@ EXCEPT !.pc = "settling", !.tasks = Tasks(op[p].victims)]]
          /\ UNCHANGED <<runVars, taskVars, threadVars>>
      BY <1>5 DEF Settle
    <2>2. op'[p] = [op[p] EXCEPT !.pc = "settling", !.tasks = Tasks(op[p].victims)] /\ others
      BY <2>1 DEF TypeOK
    <2>8. Tasks(op[p].victims) \in SUBSET Runs
      BY DEF Request, Tasks
    <2>3. op'[p].pc = "settling" /\ op'[p].tasks = Tasks(op[p].victims) /\ op'[p] \in Request
      BY <2>2, <2>8 DEF Request
    <2>4. TypeOK'
      BY <2>1, <2>3 DEF TypeOK, TaskRunning
    <2>5. \A r \in Runs : Place(r)'
      BY <1>p, <2>1, <2>2
    <2>6. \A r \in Runs : Tended(r)'
      <3>1. \A q \in Ops, r \in Runs : Tends(q, r) => Tends(q, r)'
        BY <2>1, <2>2 DEF Tends
      <3> QED  BY <2>1, <3>1 DEF WaitInv, Tended
    <2>7. Awaited(p)'
      <3>1. SUFFICES ASSUME NEW v \in Tasks(op[p].victims) PROVE TaskGoesOn(v)'
        BY <2>3 DEF Awaited
      <3>2. v \in Runs /\ kind[v] # "blocking" /\ body[v] # "none" /\ Place(v) /\ body[v] \in Bodies
        BY DEF WaitInv, TypeOK, Tasks, Request
      <3> QED  BY <3>2 DEF TaskGoesOn, OnItsWay, Place, Bodies
    <2> QED  BY <1>a, <2>2, <2>4, <2>5, <2>6, <2>7 DEF WaitInv
  <1> QED  BY <1>1, <1>2, <1>3, <1>4, <1>5 DEF RequestStep

(* A request p cancels the runs of V and is to roll back those of T.        *)
Supersedes(p, V, T) ==
    /\ UNCHANGED body
    /\ op[p].pc = "idle" /\ op'[p].pc \in {"rolling", "done"} /\ op'[p].todo = T
    /\ \A q \in Ops \ {p} : op'[q] = op[q]
    /\ \A w \in Runs \ {p} : kind'[w] = kind[w]
    /\ \A w \in Runs \ ({p} \union V) : run'[w] = run[w]
    /\ \A w \in Runs : w \in signal' <=> w \in signal \/ (w \in V /\ TaskRunning(w))
    /\ \A v \in V \ {p} :
           /\ Inflight(v) /\ run'[v].status = "interrupted"
           /\ run'[v].ready \/ (run'[v].action = "rollback" /\ TaskRunning(v))
           /\ run'[v].completed \/ (v \in T /\ op'[p].pc = "rolling")
    /\ p \in Runs => run'[p].ready /\ run'[p].completed /\ op'[p].pc = "rolling"

LEMMA SupersedesKeeps ==
    ASSUME WaitInv, NEW p \in Ops, NEW V \in SUBSET Runs, NEW T, TypeOK', Supersedes(p, V, T)
    PROVE  WaitInv'
  <1> USE DEF Supersedes
  <1>1. p \in Runs => body[p] = "none" /\ Place(p)
    BY DEF WaitInv, Place
  <1>2. \A w \in Runs : Place(w)'
    <2>1. TAKE w \in Runs
    <2>2. Place(w) /\ w \in Ops
      BY DEF WaitInv, Ops
    <2>3. CASE w = p
      BY <1>1, <2>2, <2>3 DEF Place, Inflight, Working, TaskRunning
    <2>4. CASE w # p /\ w \in V
      <3>1. /\ Inflight(w) /\ ~Inflight(w)' /\ kind'[w] = kind[w] /\ body'[w] = body[w]
            /\ op'[w].pc = op[w].pc
        BY <2>2, <2>4 DEF Inflight
      <3>2. TaskRunning(w) => /\ kind[w] # "blocking"
                              /\ body[w] \in {"scheduled", "started", "acting", "streaming"}
        BY <2>2, <3>1 DEF Place, TaskRunning
      <3> QED  BY <2>2, <2>4, <3>1, <3>2 DEF Place, Working, OnItsWay
    <2>5. CASE w # p /\ w \notin V
      BY <2>2, <2>5 DEF Place, Inflight, Working, OnItsWay
    <2> QED  BY <2>3, <2>4, <2>5
  <1>3. \A w \in Runs : Tended(w)'
    <2>1. SUFFICES ASSUME NEW w \in Runs, w # p PROVE Tended(w)'
      BY DEF Tended
    <2>2. CASE w \in V
      BY <2>1, <2>2 DEF Tended, Tends
    <2>3. CASE w \notin V
      <3>1. \A q \in Ops : Tends(q, w) => Tends(q, w)'
        BY DEF Tends
      <3> QED  BY <2>1, <2>3, <3>1 DEF WaitInv, Tended
    <2> QED  BY <2>2, <2>3
  <1>4. \A w \in Runs : TaskGoesOn(w) => TaskGoesOn(w)'
    BY <1>1 DEF TaskGoesOn, OnItsWay
  <1>5. \A q \in Ops : Awaited(q)'
    <2>1. \A q \in Ops : op[q].tasks \subseteq Runs
      BY DEF WaitInv, TypeOK, Request
    <2> QED  BY <1>4, <2>1 DEF WaitInv, Awaited
  <1> QED  BY <1>2, <1>3, <1>5 DEF WaitInv

(* What _cancel_record makes of a run, whatever its producer does.          *)
LEMMA CancelledFields ==
    ASSUME NEW v, NEW a \in {"interrupt", "rollback"}
    PROVE  /\ CancelledRecord(v, a) \in RunRecord
           /\ CancelledRecord(v, a).status = "interrupted"
           /\ CancelledRecord(v, a).action = a
           /\ CancelledRecord(v, a).ready \/ (a = "rollback" /\ TaskRunning(v))
           /\ CancelledRecord(v, a).completed <=> a # "rollback"
  <1> DEFINE b == a # "rollback" \/ ~TaskRunning(v)
             c == a # "rollback"
  <1>1. b \in BOOLEAN /\ c \in BOOLEAN
    OBVIOUS
  <1>2. CancelledRecord(v, a) =
          [status |-> "interrupted", abort |-> TRUE, action |-> a, ready |-> b, completed |-> c]
    BY Zenon DEF CancelledRecord
  <1>3. (b \/ (a = "rollback" /\ TaskRunning(v))) /\ (c <=> a # "rollback")
    OBVIOUS
  <1> HIDE DEF b, c
  <1> QED  BY <1>1, <1>2, <1>3 DEF RunRecord

(* A run is created, runs are cancelled, a producer gets its task.          *)
LEMMA CreateGoesOn ==
    ASSUME WaitInv, NEW r \in Runs, NEW k \in Kinds, NEW s \in Strategies, Create(r, k, s)
    PROVE  WaitInv'
  <1> DEFINE V == Conflicts \ {r}
             T == IF s = "rollback" THEN Conflicts ELSE {}
             a == IF s = "rollback" THEN "rollback" ELSE "interrupt"
             pending == [Absent EXCEPT !.status = "pending"]
  <1>1. /\ TypeOK /\ r \in Ops /\ op[r].pc = "idle" /\ Place(r) /\ body[r] = "none"
        /\ s \in {"reject", "interrupt", "rollback"} /\ (s = "reject" => V = {})
        /\ Conflicts \in SUBSET Runs /\ \A v \in V : Inflight(v)
    BY RunsAssumption DEF Create, WaitInv, Place, Ops, Conflicts
  <1>2. \A v \in V : CancelledRecord(v, s) = CancelledRecord(v, a)
    BY <1>1
  <1>3. pending \in RunRecord /\ pending.ready /\ pending.completed
    <2>1. Absent \in RunRecord /\ Absent.ready /\ Absent.completed
      BY DEF Absent, RunRecord
    <2> QED  BY <2>1 DEF RunRecord
  <1>4. \A v \in Runs : run'[v] = IF v = r THEN pending
                                   ELSE IF v \in V THEN CancelledRecord(v, a) ELSE run[v]
    BY <1>2 DEF Create
  <1>5. /\ signal' = signal \union {v \in Conflicts : TaskRunning(v)}
        /\ kind' = [kind EXCEPT ![r] = k] /\ target' = [target EXCEPT ![r] = head]
        /\ op' = [op EXCEPT ![r] = Rolling(Conflicts, T)]
        /\ run' = [v \in Runs |-> run'[v]]
        /\ UNCHANGED <<body, closed, graph, head, seen, lost>>
    BY DEF Create
  <1>6. a \in {"interrupt", "rollback"} /\ (a = "rollback" => V \subseteq T)
    OBVIOUS
  <1>7. run' \in [Runs -> RunRecord]
    <2> HIDE DEF pending, V, a
    <2>1. \A v \in Runs : run'[v] \in RunRecord
      BY <1>1, <1>3, <1>4, <1>6, CancelledFields DEF TypeOK
    <2> QED  BY <1>5, <2>1
  <1>8. /\ op'[r] = Rolling(Conflicts, T) /\ Rolling(Conflicts, T) \in Request
        /\ \A q \in Ops \ {r} : op'[q] = op[q]
    <2>1. T \in SUBSET Runs
      BY <1>1
    <2> HIDE DEF T
    <2> QED  BY <1>1, <1>5, <2>1 DEF TypeOK, Rolling, Request
  <1>9. TypeOK'
    <2>1. signal' \subseteq {q \in Runs : TaskRunning(q)}'
      BY <1>1, <1>5 DEF TypeOK, TaskRunning
    <2> HIDE DEF T
    <2> QED  BY <1>1, <1>5, <1>7, <1>8, <2>1 DEF TypeOK
  <1>10. Supersedes(r, V, T)
    <2>1. \A v \in V : /\ run'[v].status = "interrupted"
                       /\ run'[v].ready \/ (run'[v].action = "rollback" /\ TaskRunning(v))
                       /\ run'[v].completed \/ v \in T
      <3>1. \A v \in V : run'[v] = CancelledRecord(v, a)
        BY <1>1, <1>4
      <3> HIDE DEF pending, V, T, a
      <3> QED  BY <1>6, <3>1, CancelledFields
    <2>2. op'[r].todo = T /\ op'[r].pc = "rolling"
      BY <1>8 DEF Rolling
    <2>3. \A w \in Runs \ {r} : kind'[w] = kind[w]
      BY <1>1, <1>5 DEF TypeOK
    <2>4. \A w \in Runs : w \in signal' <=> w \in signal \/ (w \in V /\ TaskRunning(w))
      BY <1>1, <1>5 DEF TaskRunning
    <2>5. run'[r].ready /\ run'[r].completed
      BY <1>3, <1>4
    <2>6. \A w \in Runs \ ({r} \union V) : run'[w] = run[w]
      BY <1>4
    <2> HIDE DEF pending, V, T, a
    <2> QED  BY <1>1, <1>5, <1>8, <2>1, <2>2, <2>3, <2>4, <2>5, <2>6 DEF Supersedes
  <1> QED  BY <1>1, <1>9, <1>10, SupersedesKeeps

LEMMA CancelGoesOn ==
    ASSUME WaitInv, NEW c \in Cancellers, NEW V \in SUBSET Runs,
           NEW a \in {"interrupt", "rollback"}, Cancel(c, V, a)
    PROVE  WaitInv'
  <1> DEFINE T == IF a = "rollback" THEN V ELSE {}
             new == IF a = "rollback" THEN Rolling(V, V) ELSE [Idle EXCEPT !.pc = "done"]
  <1>1. /\ TypeOK /\ c \in Ops /\ c \notin Runs /\ op[c].pc = "idle"
        /\ \A v \in V : Inflight(v)
    BY RunsAssumption DEF Cancel, WaitInv, Ops, Conflicts
  <1>2. /\ run' = [v \in Runs |-> IF v \in V THEN CancelledRecord(v, a) ELSE run[v]]
        /\ signal' = signal \union {v \in V : TaskRunning(v)}
        /\ op' = [op EXCEPT ![c] = new]
        /\ kind' = kind /\ body' = body /\ closed' = closed /\ UNCHANGED threadVars
    BY DEF Cancel
  <1>3. run' \in [Runs -> RunRecord]
    BY <1>1, <1>2, CancelledFields DEF TypeOK
  <1>4. op'[c] = new /\ \A q \in Ops \ {c} : op'[q] = op[q]
    BY <1>1, <1>2 DEF TypeOK
  <1>5. /\ new \in Request /\ new.todo = T
        /\ new.pc \in {"rolling", "done"} /\ (a = "rollback" => new.pc = "rolling")
    BY DEF Rolling, Idle, Request
  <1>6. TypeOK'
    <2>1. signal' \subseteq {q \in Runs : TaskRunning(q)}'
      BY <1>1, <1>2 DEF TypeOK, TaskRunning
    <2> HIDE DEF new
    <2> QED  BY <1>1, <1>2, <1>3, <1>4, <1>5, <2>1 DEF TypeOK, threadVars
  <1>7. Supersedes(c, V, T)
    <2>1. \A v \in V : /\ run'[v].status = "interrupted"
                       /\ run'[v].ready \/ (run'[v].action = "rollback" /\ TaskRunning(v))
                       /\ run'[v].completed \/ a = "rollback"
      <3>1. \A v \in V : run'[v] = CancelledRecord(v, a)
        BY <1>1, <1>2
      <3> QED  BY <3>1, CancelledFields
    <2>2. \A w \in Runs \ V : run'[w] = run[w]
      BY <1>2
    <2>3. \A w \in Runs : w \in signal' <=> w \in signal \/ (w \in V /\ TaskRunning(w))
      BY <1>2
    <2>4. a = "rollback" => T = V
      OBVIOUS
    <2> HIDE DEF new, T
    <2> QED  BY <1>1, <1>2, <1>4, <1>5, <2>1, <2>2, <2>3, <2>4 DEF Supersedes
  <1> QED  BY <1>1, <1>6, <1>7, SupersedesKeeps

(* A request is done: with a conflict, or when its victims have settled.    *)
LEMMA DoneGoesOn ==
    ASSUME WaitInv, NEW p \in Ops, CreateConflicts(p) \/ Return(p)
    PROVE  WaitInv'
  <1>1. /\ TypeOK /\ op[p] \in Request /\ op' = [op EXCEPT ![p].pc = "done"]
        /\ op[p].pc \in {"idle", "settling"}
        /\ UNCHANGED <<runVars, taskVars, threadVars>>
    BY DEF CreateConflicts, Return, AllSettled, WaitInv, TypeOK
  <1>2. op'[p] = [op[p] EXCEPT !.pc = "done"] /\ \A q \in Ops \ {p} : op'[q] = op[q]
    BY <1>1 DEF TypeOK
  <1>3. op'[p] \in Request /\ op'[p].pc = "done"
    BY <1>1, <1>2 DEF Request
  <1>4. /\ run' = run /\ kind' = kind /\ body' = body /\ signal' = signal /\ closed' = closed
        /\ graph' = graph /\ head' = head /\ seen' = seen /\ target' = target /\ lost' = lost
    BY <1>1 DEF runVars, taskVars, threadVars
  <1>5. TypeOK'
    BY <1>1, <1>3, <1>4 DEF TypeOK, TaskRunning
  <1>6. \A r \in Runs : Place(r)'
    <2>1. \A r \in Runs : Unmoved(r) /\ Place(r)
      BY <1>2, <1>3, <1>4 DEF WaitInv, Unmoved, Ops
    <2> QED  BY <2>1, UnmovedPlace
  <1>7. \A r \in Runs : Tended(r)'
    <2>1. \A q \in Ops, r \in Runs : Tends(q, r) => Tends(q, r)'
      BY <1>1, <1>2 DEF Tends
    <2> QED  BY <1>4, <2>1 DEF WaitInv, Tended
  <1>8. \A q \in Ops : Awaited(q)'
    BY <1>2, <1>3, <1>4 DEF WaitInv, Awaited, TaskGoesOn, OnItsWay
  <1> QED  BY <1>5, <1>6, <1>7, <1>8 DEF WaitInv

LEMMA LaunchGoesOn ==
    ASSUME WaitInv, NEW r \in Runs, Launch(r)
    PROVE  WaitInv'
  <1>1. /\ TypeOK /\ r \in Ops /\ op[r] \in Request /\ op[r].pc = "settling" /\ Place(r)
        /\ body[r] = "none" /\ r \notin signal /\ run[r].ready
        /\ op' = [op EXCEPT ![r].pc = "done"]
        /\ kind' = kind /\ signal' = signal /\ closed' = closed
        /\ head' = head /\ target' = target /\ lost' = lost
    BY DEF Launch, AllSettled, WaitInv, TypeOK, Ops, Place, Working, OnItsWay
  <1>2. /\ run' \in [Runs -> RunRecord] /\ body' \in [Runs -> Bodies]
        /\ graph' \in [Runs -> {"idle", "stepping", "over"}] /\ seen' \in [Runs -> SUBSET Runs]
        /\ \A q \in Runs \ {r} : run'[q] = run[q] /\ body'[q] = body[q]
        /\ run'[r].ready = run[r].ready /\ run'[r].completed = run[r].completed
        /\ body'[r] = IF kind[r] = "blocking" THEN "invoking" ELSE "scheduled"
    <2>1. CASE kind[r] = "blocking"
      <3>1. SetStatus(r, "running")
        BY <2>1 DEF Launch
      <3>2. /\ run' \in [Runs -> RunRecord] /\ run'[r] = [run[r] EXCEPT !.status = "running"]
            /\ \A q \in Runs \ {r} : run'[q] = run[q]
        BY <1>1, <3>1, StatusSet
      <3>3. run[r] \in RunRecord
        BY <1>1 DEF TypeOK
      <3>5. run'[r].ready = run[r].ready /\ run'[r].completed = run[r].completed
        BY <3>2, <3>3 DEF RunRecord
      <3>4. /\ body' = [body EXCEPT ![r] = "invoking"]
            /\ graph' = [graph EXCEPT ![r] = "stepping"] /\ seen' = [seen EXCEPT ![r] = head]
        BY <2>1 DEF Launch, Goto
      <3> QED  BY <1>1, <2>1, <3>2, <3>4, <3>5 DEF TypeOK, Bodies
    <2>2. CASE kind[r] # "blocking"
      BY <1>1, <2>2 DEF Launch, Goto, TypeOK, Bodies
    <2> QED  BY <2>1, <2>2
  <1>3. op'[r] = [op[r] EXCEPT !.pc = "done"] /\ \A q \in Ops \ {r} : op'[q] = op[q]
    BY <1>1 DEF TypeOK
  <1>4. op'[r] \in Request /\ op'[r].pc = "done"
    BY <1>1, <1>3 DEF Request
  <1>5. TypeOK'
    <2>1. signal' \subseteq {q \in Runs : TaskRunning(q)}'
      BY <1>1, <1>2 DEF TypeOK, TaskRunning
    <2> QED  BY <1>1, <1>2, <1>4, <2>1 DEF TypeOK
  <1>6. \A q \in Runs : Place(q)'
    <2>1. Place(r)'
      BY <1>1, <1>2, <1>4 DEF Place, Inflight, Working
    <2>2. ASSUME NEW q \in Runs, q # r PROVE Place(q)'
      <3>1. Unmoved(q) /\ Place(q)
        BY <1>1, <1>2, <1>3, <2>2 DEF WaitInv, Unmoved, Ops
      <3> QED  BY <3>1, UnmovedPlace
    <2> QED  BY <2>1, <2>2
  <1>7. \A q \in Runs : Tended(q)'
    <2>1. \A p \in Ops, q \in Runs : Tends(p, q) => Tends(p, q)'
      BY <1>1, <1>3 DEF Tends
    <2>2. \A q \in Runs : run'[q].completed = run[q].completed
      BY <1>2
    <2> QED  BY <2>1, <2>2 DEF WaitInv, Tended
  <1>8. \A p \in Ops : Awaited(p)'
    <2>1. \A v \in Runs : TaskGoesOn(v) => TaskGoesOn(v)'
      BY <1>1, <1>2 DEF TaskGoesOn, OnItsWay
    <2>2. \A p \in Ops : op[p].tasks \subseteq Runs
      BY DEF WaitInv, TypeOK, Request
    <2> QED  BY <1>3, <1>4, <2>1, <2>2 DEF WaitInv, Awaited
  <1> QED  BY <1>5, <1>6, <1>7, <1>8 DEF WaitInv

LEMMA InitGoesOn == ASSUME Init PROVE WaitInv
  <1>1. /\ run = [r \in Runs |-> Absent] /\ kind = [r \in Runs |-> "none"]
        /\ body = [r \in Runs |-> "none"] /\ graph = [r \in Runs |-> "idle"]
        /\ signal = {} /\ closed = {} /\ head = {} /\ lost = {}
        /\ seen = [r \in Runs |-> {}] /\ target = [r \in Runs |-> {}]
        /\ op = [p \in Ops |-> Idle]
    BY DEF Init
  <1>2. /\ Absent \in RunRecord /\ Absent.status = "absent" /\ Absent.ready /\ Absent.completed
    BY DEF Absent, RunRecord
  <1>3. Rolling({}, {}) = [pc |-> "rolling", victims |-> {}, todo |-> {}, cur |-> NoRun, tasks |-> {}]
    BY DEF Rolling
  <1>4. Idle \in Request /\ Idle.pc = "idle"
    BY <1>3 DEF Idle, Request
  <1>5. TypeOK
    BY <1>1, <1>2, <1>4 DEF TypeOK, Bodies
  <1>6. \A p \in Ops : op[p] = Idle
    BY Zenon DEF Init
  <1>7. \A r \in Runs : r \in Ops /\ run[r] = Absent /\ body[r] = "none" /\ r \notin signal
    BY Zenon DEF Init, Ops
  <1>8. \A p \in Ops : Awaited(p)
    BY <1>4, <1>6 DEF Awaited
  <1>9. \A r \in Runs : Place(r) /\ Tended(r)
    <2>1. SUFFICES ASSUME NEW r \in Runs PROVE Place(r) /\ Tended(r)
      BY Zenon
    <2>2. /\ run[r].status = "absent" /\ run[r].ready /\ run[r].completed
          /\ body[r] = "none" /\ r \notin signal
      BY <1>2, <1>7
    <2> QED  BY <2>2 DEF Place, Tended, Inflight
  <1> QED  BY <1>5, <1>8, <1>9 DEF WaitInv

LEMMA NextGoesOn == ASSUME WaitInv, [Next]_vars PROVE WaitInv'
  <1>1. ASSUME UNCHANGED vars PROVE WaitInv'
    <2> USE <1>1 DEF vars, runVars, taskVars, threadVars
    <2>1. TypeOK'
      BY DEF WaitInv, TypeOK, TaskRunning
    <2>2. \A r \in Runs : Place(r)' /\ Tended(r)'
      BY DEF WaitInv, Place, Tended, Tends, Inflight, Working, OnItsWay
    <2>3. \A p \in Ops : Awaited(p)'
      BY DEF WaitInv, Awaited, TaskGoesOn, OnItsWay
    <2> QED  BY <2>1, <2>2, <2>3 DEF WaitInv
  <1>2. ASSUME NEW r \in Runs, ProducerStep(r) PROVE WaitInv'
    <2>1. TypeOK /\ Place(r)
      BY DEF WaitInv
    <2> QED  BY <1>2, <2>1, ProducerGoesOn, OnwardKeeps
  <1>3. ASSUME NEW r \in Runs, CreateConflicts(r) PROVE WaitInv'
    BY <1>3, DoneGoesOn DEF Ops
  <1>4. ASSUME NEW c \in Cancellers, Return(c) PROVE WaitInv'
    BY <1>4, DoneGoesOn DEF Ops
  <1>5. CASE Terminated
    BY <1>1, <1>5 DEF Terminated
  <1> QED
    BY <1>1, <1>2, <1>3, <1>4, <1>5, GraphGoesOn, RequestGoesOn, CreateGoesOn, CancelGoesOn,
       LaunchGoesOn DEF Next

LEMMA GoesOn == Spec => []WaitInv
  <1>1. Init => WaitInv
    BY InitGoesOn
  <1>2. WaitInv /\ [Next]_vars => WaitInv'
    BY NextGoesOn
  <1> QED  BY <1>1, <1>2, PTL DEF Spec

(* Every variable stays within its type, and a cancellation is only ever    *)
(* pending for a task that is not done.                                     *)
THEOREM TypeCorrect == Spec => []TypeOK
  <1>1. WaitInv => TypeOK
    BY DEF WaitInv
  <1> QED  BY <1>1, GoesOn, PTL

(* Nobody waits for what nobody does: requests that roll back, producers in *)
(* their finally clause and requests that settle never wait in a ring.      *)
THEOREM NobodyWaitsInVain == Spec => []WaitsAreServed
  <1>1. ASSUME WaitInv PROVE WaitsAreServed
    <2>1. ASSUME NEW p \in Ops, RequestWaits(p) PROVE OnItsWay(op[p].cur)
      <3>1. op[p].cur \in Runs
        BY <1>1, <2>1 DEF RequestWaits, WaitInv, TypeOK, Request
      <3> QED  BY <1>1, <2>1, <3>1 DEF RequestWaits, WaitInv, Place
    <2>2. ASSUME NEW r \in Runs, body[r] = "awaiting", ProducerWaits(r)
          PROVE  \E p \in Ops : op[p].pc \in {"rolling", "reporting"}
                               /\ r \in op[p].todo \union {op[p].cur}
      BY <1>1, <2>2 DEF ProducerWaits, WaitInv, Tended, Tends
    <2>3. ASSUME NEW p \in Ops, op[p].pc = "settling", NEW v \in op[p].tasks
          PROVE  OnItsWay(v) \/ body[v] \in {"awaiting", "done"}
      BY <1>1, <2>3 DEF WaitInv, Awaited, TaskGoesOn
    <2> QED  BY <2>1, <2>2, <2>3 DEF WaitsAreServed
  <1> QED  BY <1>1, GoesOn, PTL
=============================================================================
