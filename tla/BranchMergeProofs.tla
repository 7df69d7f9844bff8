--------------------------- MODULE BranchMergeProofs ---------------------------
(****************************************************************************)
(* Proofs about BranchMerge for any branches, tree and requests.  The       *)
(* inductive invariant says what each request knows while its leases have   *)
(* not run out and no run without a lease got in between: nobody else is at *)
(* work on its threads, so what it read and wrote there is still so.        *)
(****************************************************************************)
EXTENDS BranchMerge, TLAPS

(* The kind of a request goes with the step it is at, and only turns and    *)
(* runs are about the root.                                                 *)
KindOK(r) ==
    /\ op[r].kind \notin {"turn", "run"} => op[r].at \in Branches
    /\ op[r].kind = "run" => op[r].pc \in {"starting", "running", "wrote"}
    /\ op[r].pc = "starting" => op[r].kind = "run"
    /\ op[r].pc \in {"running", "wrote"} => op[r].kind \in {"turn", "run"}
    /\ op[r].pc \in {"generating", "saved", "showing"} => op[r].kind = "prepare"
    /\ op[r].pc \in {"importing", "closing"} => op[r].kind = "approve"
    /\ op[r].pc = "discarding" => op[r].kind = "discard"
    /\ op[r].pc = "creating" => op[r].kind = "fork"
    /\ op[r].pc = "running" /\ op[r].at \in Branches => op[r].seen.said < MaxTurns

(* A branch is forked by one request, and others come when it is there.     *)
ForkOK(r) ==
    /\ op[r].pc = "creating" => status[op[r].at] = "none"
    /\ op[r].pc \notin {"idle", "creating"} /\ op[r].at \in Branches =>
           status[op[r].at] # "none"
ForkedOnce ==
    \A r, s \in Requests :
        op[r].pc = "creating" /\ op[s].pc = "creating" /\ op[r].at = op[s].at => r = s

(* Past its locks a request holds the leases that have not run out.         *)
Holds(r) ==
    Inside(op[r]) => \A t \in Wants(op[r]) \ lapsed : holder[t] = r

(* The checkpoint a turn or a preparation works on is the latest one.       *)
Sees(r) ==
    /\ Inside(op[r]) /\ op[r].pc \in {"running", "wrote", "generating", "saved"}
    /\ op[r].at \notin lapsed \cup raced
    => graph[op[r].at] = op[r].seen

(* What a request has read and written of the rows is still so.             *)
Knows(r) ==
    op[r].at \in Branches \ lapsed =>
        /\ op[r].pc \in {"generating", "saved"} => status[op[r].at] = "preparing"
        /\ op[r].pc = "saved" => stored[op[r].at] = op[r].seen.said
        /\ op[r].pc = "showing" => status[op[r].at] = "awaiting"
        /\ op[r].pc \in {"discarding", "importing", "closing"} => status[op[r].at] # "merged"

(* The conclusion of b was imported into t and is there.                    *)
IsIn(b, t) == made[t][b] > 0 /\ (b \in graph[t].queue \/ t \in lapsed \cup raced)

(* A request that is about to close its branch has imported it.             *)
HasImported(r) == op[r].pc = "closing" => IsIn(op[r].at, op[r].to)

OpOK(r) ==
    /\ KindOK(r) /\ ForkOK(r) /\ Holds(r)
    /\ Sees(r) /\ Knows(r) /\ HasImported(r)

IInv ==
    /\ TypeOK
    /\ \A r \in Requests : OpOK(r)
    /\ ForkedOnce
    /\ ImportedOnce
    /\ ImportedIsClosed
    /\ MergedMeansImported

----------------------------------------------------------------------------
(* What every step of a request r leaves alone: the other requests, their   *)
(* leases and the threads these cover, the branches r is not at work on and *)
(* what was imported.                                                       *)

Touches(r, b) == (Inside(op[r]) \/ op[r].pc = "creating") /\ op[r].at = b

OthersKept(r) == \A s \in Requests : s # r => op'[s] = op[s]
LeasesKept(r) ==
    \A t \in Threads : holder[t] \in Requests /\ holder[t] # r => holder'[t] = holder[t]
RowsKept(r) ==
    \A b \in Branches : ~Touches(r, b) => status'[b] = status[b] /\ stored'[b] = stored[b]
CheckpointsKept(r) ==
    \A t \in Threads \ (lapsed' \cup raced') :
        holder[t] \in Requests /\ holder[t] # r => graph'[t] = graph[t]
QueuesStay ==
    \A t \in Threads \ (lapsed' \cup raced') : graph[t].queue \subseteq graph'[t].queue
ImportsStay ==
    /\ \A b \in Branches, t \in Threads : made[t][b] > 0 => made'[t][b] > 0
    /\ QueuesStay
StaysForked == \A b \in Branches : status[b] # "none" => status'[b] # "none"
HistoryStays == lapsed \subseteq lapsed' /\ raced \subseteq raced' /\ cut \subseteq cut'

Frame(r) ==
    /\ OthersKept(r) /\ LeasesKept(r) /\ RowsKept(r) /\ CheckpointsKept(r)
    /\ ImportsStay /\ StaysForked /\ HistoryStays

(* Two requests past their locks are not at work on one thread, as long as  *)
(* its lease did not run out.                                               *)
LEMMA Alone ==
    ASSUME IInv, NEW r \in Requests, NEW s \in Requests,
           Inside(op[r]), Inside(op[s]),
           op[r].at = op[s].at, op[r].at \notin lapsed
    PROVE  r = s
  BY DEF IInv, OpOK, Holds, Wants

(* A request is not touched by the steps of another one.                    *)
LEMMA OthersOK ==
    ASSUME IInv, NEW r \in Requests, Frame(r), NEW s \in Requests, s # r
    PROVE  OpOK(s)'
  <1> DEFINE b == op[s].at
  <1>1. op'[s] = op[s] /\ op[s] \in Ops
    BY DEF Frame, OthersKept, IInv, TypeOK
  <1>2. b \in Threads /\ op[s].to \in Threads /\ OpOK(s) /\ OpOK(r)
    BY <1>1 DEF IInv, Ops
  <1>3. ASSUME b \in Branches, op[s].pc = "creating"
        PROVE  ~Touches(r, b)
    <2>1. SUFFICES ASSUME Touches(r, b) PROVE FALSE
      OBVIOUS
    <2>2. CASE op[r].pc = "creating"
      BY <1>3, <2>1, <2>2 DEF Touches, IInv, ForkedOnce
    <2>3. CASE op[r].pc # "creating"
      BY <1>2, <1>3, <2>1, <2>3 DEF Touches, Inside, OpOK, ForkOK
    <2> QED  BY <2>2, <2>3
  <1>4. ASSUME b \in Branches \ lapsed, Inside(op[s])
        PROVE  ~Touches(r, b)
    <2>1. SUFFICES ASSUME Touches(r, b) PROVE FALSE
      OBVIOUS
    <2>2. CASE op[r].pc = "creating"
      BY <1>2, <1>4, <2>1, <2>2 DEF Touches, OpOK, ForkOK, Inside
    <2>3. CASE op[r].pc # "creating"
      BY <1>4, <2>1, <2>3, Alone DEF Touches
    <2> QED  BY <2>2, <2>3
  <1>5. KindOK(s)'
    BY <1>1, <1>2 DEF OpOK, KindOK
  <1>6. ForkOK(s)'
    <2>1. CASE op[s].pc = "creating"
      <3>1. b \in Branches
        BY <1>2, <2>1 DEF OpOK, KindOK
      <3> QED  BY <1>1, <1>2, <1>3, <2>1, <3>1 DEF Frame, RowsKept, OpOK, ForkOK
    <2>2. CASE op[s].pc # "creating"
      BY <1>1, <1>2, <2>2 DEF Frame, StaysForked, OpOK, ForkOK
    <2> QED  BY <2>1, <2>2
  <1>7. Holds(s)'
    <2>1. SUFFICES ASSUME Inside(op[s]), NEW t \in Wants(op[s]) \ lapsed' PROVE holder'[t] = s
      BY <1>1 DEF Holds, Inside, Wants
    <2>2. t \in Threads /\ holder[t] = s
      BY <1>2, <2>1 DEF Frame, HistoryStays, OpOK, Holds, Wants
    <2> QED  BY <2>2 DEF Frame, LeasesKept
  <1>8. Sees(s)'
    <2>1. SUFFICES ASSUME Inside(op[s]), b \notin lapsed' \cup raced', Sees(s),
                          op[s].pc \in {"running", "wrote", "generating", "saved"}
                   PROVE  graph'[b] = op[s].seen
      BY <1>1, <1>2 DEF OpOK, Sees, Inside
    <2>2. b \notin lapsed \cup raced
      BY <2>1 DEF Frame, HistoryStays
    <2>3. holder[b] = s
      BY <1>2, <2>1, <2>2 DEF OpOK, Holds, Wants
    <2>4. graph'[b] = graph[b]
      BY <1>2, <2>1, <2>3 DEF Frame, CheckpointsKept
    <2> QED  BY <2>1, <2>2, <2>4 DEF Sees
  <1>9. Knows(s)'
    <2>1. SUFFICES ASSUME b \in Branches \ lapsed', Inside(op[s]) PROVE Knows(s)'
      BY <1>1, <1>2 DEF Knows, Inside, OpOK, KindOK
    <2>2. b \in Branches \ lapsed
      BY <2>1 DEF Frame, HistoryStays
    <2>3. status'[b] = status[b] /\ stored'[b] = stored[b]
      BY <1>4, <2>1, <2>2 DEF Frame, RowsKept
    <2> QED  BY <1>1, <1>2, <2>2, <2>3 DEF OpOK, Knows
  <1>10. HasImported(s)'
    <2>1. CASE op[s].pc = "closing"
      <3>1. b \in Branches
        BY <1>2, <2>1 DEF OpOK, KindOK
      <3>2. IsIn(b, op[s].to)
        BY <1>2, <2>1 DEF OpOK, HasImported
      <3>3. /\ made'[op[s].to][b] > 0
            /\ b \in graph'[op[s].to].queue \/ op[s].to \in lapsed' \cup raced'
        BY <1>2, <3>1, <3>2 DEF Frame, ImportsStay, QueuesStay, HistoryStays, IsIn
      <3> QED  BY <1>1, <3>3 DEF HasImported, IsIn
    <2>2. CASE op[s].pc # "closing"
      BY <1>1, <2>2 DEF HasImported
    <2> QED  BY <2>1, <2>2
  <1> QED  BY <1>5, <1>6, <1>7, <1>8, <1>9, <1>10 DEF OpOK

(* A request that has ended claims nothing.                                 *)
LEMMA IdleOK ==
    ASSUME NEW r \in Requests, op'[r] = Idle
    PROVE  OpOK(r)'
  <1>1. op'[r].pc = "idle" /\ op'[r].kind = "turn" /\ op'[r].at = Root
    BY DEF Idle
  <1> QED
    BY <1>1, RootAssumption
    DEF OpOK, KindOK, ForkOK, Holds, Inside, Sees, Knows, HasImported

(* A step that imports and merges nothing, opens no merged branch and marks *)
(* what it leaves unclosed keeps the three facts about imports.             *)
LEMMA ImportsKept ==
    ASSUME IInv, NEW r \in Requests, Frame(r), made' = made,
           \A b \in Branches : status'[b] = "merged" => status[b] = "merged",
           \A b \in Branches \ lapsed : status[b] = "merged" => status'[b] = "merged",
           op[r].pc = "closing" => op'[r] = op[r] \/ op[r].at \in cut'
    PROVE  ImportedOnce' /\ ImportedIsClosed' /\ MergedMeansImported'
  <1>1. \A b \in Branches : Into(b)' = Into(b)
    BY DEF Into
  <1>2. \A b \in Branches \ (cut' \cup lapsed') : b \in Branches \ (cut \cup lapsed)
    BY DEF Frame, HistoryStays
  <1>3. ImportedOnce'
    BY <1>1, <1>2 DEF IInv, ImportedOnce
  <1>4. ImportedIsClosed'
    <2>1. SUFFICES ASSUME NEW b \in Branches \ (cut' \cup lapsed'), Into(b) # {}
                   PROVE  \/ status'[b] = "merged"
                          \/ \E s \in Requests : op'[s].pc = "closing" /\ op'[s].at = b
      BY <1>1 DEF ImportedIsClosed
    <2>2. CASE status[b] = "merged"
      BY <1>2, <2>2
    <2>3. CASE status[b] # "merged"
      <3>1. PICK s \in Requests : op[s].pc = "closing" /\ op[s].at = b
        BY <1>2, <2>1, <2>3 DEF IInv, ImportedIsClosed
      <3>2. CASE s = r
        BY <2>1, <3>1, <3>2
      <3>3. CASE s # r
        BY <3>1, <3>3 DEF Frame, OthersKept
      <3> QED  BY <3>2, <3>3
    <2> QED  BY <2>2, <2>3
  <1>5. MergedMeansImported'
    <2>1. SUFFICES ASSUME NEW b \in Branches, status[b] = "merged"
                   PROVE  \E t \in Into(b)' : b \in graph'[t].queue \/ t \in lapsed' \cup raced'
      BY DEF MergedMeansImported
    <2>2. PICK t \in Into(b) : b \in graph[t].queue \/ t \in lapsed \cup raced
      BY <2>1 DEF IInv, MergedMeansImported
    <2>3. t \in Threads /\ t \in Into(b)'
      BY <1>1, <2>2 DEF Into
    <2>4. b \in graph'[t].queue \/ t \in lapsed' \cup raced'
      BY <2>2, <2>3 DEF Frame, ImportsStay, QueuesStay, HistoryStays
    <2> QED  BY <2>3, <2>4
  <1> QED  BY <1>3, <1>4, <1>5

(* No second fork of a branch comes from a step that begins none.           *)
LEMMA ForksKept ==
    ASSUME IInv, NEW r \in Requests, OthersKept(r), op'[r].pc # "creating"
    PROVE  ForkedOnce'
  BY DEF IInv, ForkedOnce, OthersKept

(* A write of the checkpoint c into a thread whose lease the request took.  *)
LEMMA LeasedWrite ==
    ASSUME IInv, NEW r \in Requests, Inside(op[r]), NEW t \in Wants(op[r]), NEW c,
           graph' = [graph EXCEPT ![t] = c], lapsed \subseteq lapsed',
           t \notin lapsed' \cup raced' => graph[t].queue \subseteq c.queue
    PROVE  CheckpointsKept(r) /\ QueuesStay
  <1>1. t \notin lapsed => holder[t] = r
    BY DEF IInv, OpOK, Holds
  <1>2. graph \in [Threads -> Checkpoints]
    BY DEF IInv, TypeOK
  <1> QED  BY <1>1, <1>2 DEF CheckpointsKept, QueuesStay

(* A write into a thread nobody has the lease of, which loses no import.    *)
LEMMA UnleasedWrite ==
    ASSUME IInv, NEW r, NEW t \in Threads, NEW c, graph' = [graph EXCEPT ![t] = c],
           t \notin raced' => holder[t] \notin Requests /\ graph[t].queue \subseteq c.queue
    PROVE  CheckpointsKept(r) /\ QueuesStay
  <1>1. graph \in [Threads -> Checkpoints]
    BY DEF IInv, TypeOK
  <1> QED  BY <1>1 DEF CheckpointsKept, QueuesStay

LEMMA RacedKeeps ==
    ASSUME NEW r, NEW known, raced' = Raced(r, known) PROVE raced \subseteq raced'
  BY DEF Raced

LEMMA SameGraph ==
    ASSUME NEW r, graph' = graph PROVE CheckpointsKept(r) /\ QueuesStay
  BY DEF CheckpointsKept, QueuesStay

----------------------------------------------------------------------------
(* The fields of a request after its steps.                                 *)

LEMMA GotoFields ==
    ASSUME TypeOK, NEW r \in Requests, NEW pc, Goto(r, pc)
    PROVE  /\ OthersKept(r) /\ op'[r].pc = pc /\ op'[r].kind = op[r].kind
           /\ op'[r].at = op[r].at /\ op'[r].to = op[r].to /\ op'[r].seen = op[r].seen
  BY DEF TypeOK, Goto, Ops, OthersKept

LEMMA SeenFields ==
    ASSUME TypeOK, NEW r \in Requests, NEW pc, NEW c,
           GotoWith(r, pc, c)
    PROVE  /\ OthersKept(r) /\ op'[r].pc = pc /\ op'[r].kind = op[r].kind
           /\ op'[r].at = op[r].at /\ op'[r].to = op[r].to /\ op'[r].seen = c
  BY DEF TypeOK, GotoWith, Ops, OthersKept

----------------------------------------------------------------------------
(* Types.                                                                   *)

LEMMA FreshType == Fresh \in Checkpoints
  BY BoundAssumption DEF Fresh, Checkpoints, Proposals, NoProposal

LEMMA IdleType == Idle \in Ops
  BY FreshType DEF Idle, Ops, Kinds, Threads

LEMMA EndType ==
    ASSUME TypeOK, NEW r \in Requests, End(r)
    PROVE  /\ op' \in [Requests -> Ops]
           /\ holder' \in [Threads -> Requests \cup {Nobody, Dead}]
  BY IdleType DEF TypeOK, End, Released

LEMMA GotoType ==
    ASSUME TypeOK, NEW r \in Requests, NEW pc \in {"locked", "generating", "saved",
               "showing", "discarding", "importing", "closing"}, Goto(r, pc)
    PROVE  op' \in [Requests -> Ops]
  BY DEF TypeOK, Goto, Ops

LEMMA SeenType ==
    ASSUME TypeOK, NEW r \in Requests, NEW pc \in {"running", "wrote", "generating"},
           NEW c \in Checkpoints, GotoWith(r, pc, c)
    PROVE  op' \in [Requests -> Ops]
  <1>1. [op[r] EXCEPT !.pc = pc, !.seen = c] \in Ops
    BY DEF TypeOK, Ops
  <1>2. op' = [op EXCEPT ![r] = [op[r] EXCEPT !.pc = pc, !.seen = c]]
    BY DEF TypeOK, GotoWith
  <1> QED  BY <1>1, <1>2 DEF TypeOK

LEMMA StartType ==
    ASSUME TypeOK, NEW r \in Requests, NEW kind \in Kinds, NEW at \in Threads, NEW to \in Threads,
           NEW pc \in {"creating", "locking", "starting"}, NEW seen \in Checkpoints,
           Start(r, kind, at, to, pc, seen)
    PROVE  TypeOK'
  <1>1. [pc |-> pc, kind |-> kind, at |-> at, to |-> to, seen |-> seen, back |-> seen] \in Ops
    BY DEF Ops
  <1> QED  BY <1>1 DEF TypeOK, Start

LEMMA RacedType ==
    ASSUME TypeOK, NEW r \in Requests, NEW known, raced' = Raced(r, known)
    PROVE  raced' \subseteq Threads
  BY DEF TypeOK, Raced, Ops

LEMMA GraphType ==
    ASSUME TypeOK, NEW t \in Threads, NEW c \in Checkpoints, graph' = [graph EXCEPT ![t] = c]
    PROVE  graph' \in [Threads -> Checkpoints]
  BY DEF TypeOK

(* The proposal of a branch is shown in its checkpoint.                     *)
LEMMA Shows ==
    ASSUME TypeOK, NEW b \in Threads, NEW p, graph' = [graph EXCEPT ![b].shown = p]
    PROVE  /\ graph' = [graph EXCEPT ![b] = [graph[b] EXCEPT !.shown = p]]
           /\ [graph[b] EXCEPT !.shown = p].queue = graph[b].queue
           /\ p \in Proposals => [graph[b] EXCEPT !.shown = p] \in Checkpoints
  BY DEF TypeOK, Checkpoints

LEMMA TurnedType ==
    ASSUME NEW t \in Threads, NEW c \in Checkpoints, t \in Branches => c.said < MaxTurns
    PROVE  Turned(t, c) \in Checkpoints
  BY BoundAssumption DEF Turned, Checkpoints

LEMMA TurnedQueue ==
    ASSUME NEW t, NEW c \in Checkpoints PROVE Turned(t, c).queue = c.queue
  BY DEF Turned, Checkpoints

LEMMA TypeStep ==
    ASSUME IInv, [Next]_vars
    PROVE  TypeOK'
  <1>1. TypeOK /\ \A r \in Requests : op[r] \in Ops /\ KindOK(r)
    BY DEF IInv, OpOK, TypeOK
  <1>2. CASE UNCHANGED vars
    BY <1>1, <1>2 DEF TypeOK, vars
  <1>3. ASSUME NEW t \in Threads, RunOut(t) PROVE TypeOK'
    BY <1>1, <1>3 DEF TypeOK, RunOut
  <1>4. ASSUME NEW r \in Requests, NEW b \in Branches, AskFork(r, b) PROVE TypeOK'
    BY <1>1, <1>4, StartType, FreshType DEF AskFork, Kinds, Threads
  <1>5. ASSUME NEW r \in Requests, NEW t \in Threads, AskTurn(r, t) PROVE TypeOK'
    BY <1>1, <1>5, StartType, FreshType DEF AskTurn, Kinds
  <1>6. ASSUME NEW r \in Requests, NEW t \in Threads, AskRun(r, t) PROVE TypeOK'
    <2>1. graph[t] \in Checkpoints
      BY <1>1 DEF TypeOK
    <2> QED  BY <1>1, <1>6, <2>1, StartType DEF AskRun, Kinds
  <1>7. ASSUME NEW r \in Requests, NEW b \in Branches, AskPrepare(r, b) PROVE TypeOK'
    BY <1>1, <1>7, StartType, FreshType DEF AskPrepare, Kinds, Threads
  <1>8. ASSUME NEW r \in Requests, NEW b \in Branches, AskApply(r, b) PROVE TypeOK'
    <2>1. b \in Threads /\ Root \in Threads /\ Parent[b] \in Threads
      BY ParentAssumption DEF Threads
    <2> QED  BY <1>1, <1>8, <2>1, StartType, FreshType DEF AskApply, Kinds
  <1>9. ASSUME NEW r \in Requests, NEW t \in Threads, Lock(r, t) PROVE TypeOK'
    <2>1. op' \in [Requests -> Ops]
      BY <1>1, <1>9, GotoType DEF Lock, TypeOK
    <2> QED  BY <1>1, <1>9, <2>1 DEF Lock, TypeOK
  <1>10. ASSUME NEW r \in Requests, LockRefused(r) PROVE TypeOK'
    BY <1>1, <1>10, EndType DEF LockRefused, TypeOK
  <1>11. ASSUME NEW r \in Requests, NEW t \in Threads, Lapse(r, t) PROVE TypeOK'
    BY <1>1, <1>11 DEF Lapse, TypeOK
  <1>12. ASSUME NEW r \in Requests, CreateFork(r) PROVE TypeOK'
    BY <1>1, <1>12, EndType DEF CreateFork, TypeOK, Statuses
  <1>13. ASSUME NEW r \in Requests, Load(r) PROVE TypeOK'
    <2>1. graph[op[r].at] \in Checkpoints
      BY <1>1 DEF TypeOK, Ops
    <2>2. op' \in [Requests -> Ops]
      BY <1>1, <1>13, <2>1, SeenType DEF Load
    <2> QED  BY <1>1, <1>13, <2>2 DEF Load, TypeOK
  <1>14. ASSUME NEW r \in Requests, WriteTurn(r) PROVE TypeOK'
    <2> DEFINE t == op[r].at
               c == Turned(t, op[r].seen)
    <2>1. t \in Threads /\ c \in Checkpoints
      BY <1>1, <1>14, TurnedType DEF WriteTurn, KindOK, Ops
    <2>2. op' \in [Requests -> Ops]
      BY <1>1, <1>14, <2>1, SeenType DEF WriteTurn
    <2>3. graph' \in [Threads -> Checkpoints]
      BY <1>1, <1>14, <2>1, GraphType DEF WriteTurn
    <2>4. raced' \subseteq Threads
      BY <1>1, <1>14, RacedType DEF WriteTurn
    <2> QED  BY <1>1, <1>14, <2>2, <2>3, <2>4 DEF WriteTurn, TypeOK
  <1>15. ASSUME NEW r \in Requests, WriteAgain(r) PROVE TypeOK'
    <2>1. op[r].at \in Threads /\ op[r].seen \in Checkpoints
      BY <1>1 DEF Ops
    <2>2. graph' \in [Threads -> Checkpoints]
      BY <1>1, <1>15, <2>1, GraphType DEF WriteAgain
    <2>3. raced' \subseteq Threads
      BY <1>1, <1>15, RacedType DEF WriteAgain
    <2> QED  BY <1>1, <1>15, <2>2, <2>3 DEF WriteAgain, TypeOK
  <1>16. ASSUME NEW r \in Requests, Finish(r) PROVE TypeOK'
    BY <1>1, <1>16, EndType DEF Finish, TypeOK
  <1>17. ASSUME NEW r \in Requests, RollBack(r) PROVE TypeOK'
    <2>1. op[r].at \in Threads /\ op[r].back \in Checkpoints
      BY <1>1 DEF Ops
    <2>2. graph' \in [Threads -> Checkpoints]
      BY <1>1, <1>17, <2>1, GraphType DEF RollBack
    <2>3. raced' \subseteq Threads
      BY <1>1, <1>17, RacedType DEF RollBack
    <2> QED  BY <1>1, <1>17, <2>2, <2>3 DEF RollBack, TypeOK
  <1>18. ASSUME NEW r \in Requests, Open(r) PROVE TypeOK'
    <2>1. graph[op[r].at] \in Checkpoints
      BY <1>1 DEF TypeOK, Ops
    <2>2. op' \in [Requests -> Ops]
      BY <1>1, <1>18, <2>1, SeenType DEF Open
    <2> QED  BY <1>1, <1>18, <2>2 DEF Open, TypeOK, Statuses
  <1>19. ASSUME NEW r \in Requests, SaveProposal(r) PROVE TypeOK'
    <2>1. op[r].seen.said \in Proposals
      BY <1>1, BoundAssumption DEF Ops, Checkpoints, Proposals, NoProposal
    <2> QED  BY <1>1, <1>19, <2>1, GotoType DEF SaveProposal, TypeOK
  <1>20. ASSUME NEW r \in Requests, AwaitReview(r) PROVE TypeOK'
    BY <1>1, <1>20, GotoType DEF AwaitReview, TypeOK, Statuses
  <1>21. ASSUME NEW r \in Requests, ShowProposal(r) PROVE TypeOK'
    <2> DEFINE b == op[r].at
               c == [graph[b] EXCEPT !.shown = op[r].seen.said]
    <2>1. b \in Threads /\ op[r].seen.said \in Proposals
      BY <1>1, BoundAssumption DEF Ops, Checkpoints, Proposals, NoProposal
    <2>2. graph' = [graph EXCEPT ![b] = c] /\ c \in Checkpoints
      BY <1>1, <1>21, <2>1, Shows DEF ShowProposal
    <2>3. graph' \in [Threads -> Checkpoints]
      BY <1>1, <2>1, <2>2, GraphType
    <2> QED  BY <1>1, <1>21, <2>3, EndType DEF ShowProposal, TypeOK
  <1>22. ASSUME NEW r \in Requests, PrepareFails(r) PROVE TypeOK'
    BY <1>1, <1>22, EndType DEF PrepareFails, TypeOK, Statuses
  <1>23. ASSUME NEW r \in Requests, FindingsFail(r) PROVE TypeOK'
    BY <1>1, <1>23, EndType DEF FindingsFail, TypeOK
  <1>24. ASSUME NEW r \in Requests, Decide(r) PROVE TypeOK'
    <2> DEFINE b == op[r].at
               c == [graph[b] EXCEPT !.shown = Reviewed(b)]
    <2>1. b \in Branches /\ b \in Threads
      BY <1>1, <1>24 DEF Decide, KindOK, Ops
    <2>2. Reviewed(b) \in Proposals
      BY <1>1, <2>1 DEF Reviewed, TypeOK, Checkpoints
    <2>3. graph' = [graph EXCEPT ![b] = c] /\ c \in Checkpoints
      BY <1>1, <1>24, <2>1, <2>2, Shows DEF Decide
    <2>4. graph' \in [Threads -> Checkpoints]
      BY <1>1, <2>1, <2>3, GraphType
    <2>5. stored' \in [Branches -> Proposals]
      BY <1>1, <1>24, <2>1, <2>2 DEF Decide, TypeOK
    <2>6. op' \in [Requests -> Ops]
      <3>1. CASE op[r].kind = "approve"
        BY <1>1, <1>24, <3>1, GotoType DEF Decide
      <3>2. CASE op[r].kind # "approve"
        BY <1>1, <1>24, <3>2, GotoType DEF Decide
      <3> QED  BY <3>1, <3>2
    <2> QED  BY <1>1, <1>24, <2>4, <2>5, <2>6 DEF Decide, TypeOK
  <1>25. ASSUME NEW r \in Requests, Discard(r) PROVE TypeOK'
    BY <1>1, <1>25, EndType DEF Discard, TypeOK, Statuses
  <1>26. ASSUME NEW r \in Requests, Import(r) PROVE TypeOK'
    <2> DEFINE t == op[r].to
               b == op[r].at
               c == [graph[t] EXCEPT !.queue = @ \cup {b}]
               n == [made[t] EXCEPT ![b] = @ + 1]
    <2>1. t \in Threads /\ b \in Branches
      BY <1>1, <1>26 DEF Import, KindOK, Ops
    <2>2. c \in Checkpoints
      <3>1. graph[t] \in Checkpoints
        BY <1>1, <2>1 DEF TypeOK
      <3> QED  BY <2>1, <3>1 DEF Checkpoints
    <2>3. graph' = [graph EXCEPT ![t] = c]
      BY <1>1, <1>26, <2>1 DEF Import, TypeOK
    <2>4. graph' \in [Threads -> Checkpoints]
      BY <1>1, <2>1, <2>2, <2>3, GraphType
    <2>5. made[t] \in [Branches -> 0 .. MaxImports] /\ made[t][b] + 1 \in 0 .. MaxImports
      BY <1>1, <1>26, <2>1, BoundAssumption DEF Import, TypeOK
    <2>6. n \in [Branches -> 0 .. MaxImports]
      BY <2>5
    <2>7. made' = [made EXCEPT ![t] = n]
      BY <1>1, <1>26, <2>1 DEF Import, TypeOK
    <2>8. made' \in [Threads -> [Branches -> 0 .. MaxImports]]
      BY <1>1, <2>6, <2>7 DEF TypeOK
    <2> QED  BY <1>1, <1>26, <2>4, <2>8, GotoType DEF Import, TypeOK
  <1>27. ASSUME NEW r \in Requests, Close(r) PROVE TypeOK'
    BY <1>1, <1>27, EndType DEF Close, TypeOK, Statuses
  <1>28. ASSUME NEW r \in Requests, Fails(r) PROVE TypeOK'
    BY <1>1, <1>28, EndType DEF Fails, Unclosed, TypeOK, KindOK
  <1>29. ASSUME NEW r \in Requests, Crash(r) PROVE TypeOK'
    BY <1>1, <1>29, IdleType DEF Crash, Unclosed, TypeOK, KindOK
  <1> QED
    BY <1>2, <1>3, <1>4, <1>5, <1>6, <1>7, <1>8, <1>9, <1>10, <1>11, <1>12, <1>13, <1>14,
       <1>15, <1>16, <1>17, <1>18, <1>19, <1>20, <1>21, <1>22, <1>23, <1>24, <1>25, <1>26,
       <1>27, <1>28, <1>29 DEF Next

----------------------------------------------------------------------------
(* The steps.                                                               *)

LEMMA Initially == Init => IInv
  <1>1. SUFFICES ASSUME Init PROVE IInv
    OBVIOUS
  <1>2. TypeOK
    BY <1>1, IdleType, FreshType, BoundAssumption
    DEF Init, TypeOK, Statuses, Proposals, NoProposal
  <1>3. \A r \in Requests : OpOK(r)
    BY <1>1, RootAssumption
    DEF Init, Idle, OpOK, KindOK, ForkOK, Holds, Inside, Sees, Knows, HasImported
  <1>4. ForkedOnce
    BY <1>1 DEF Init, Idle, ForkedOnce
  <1>5. \A b \in Branches : Into(b) = {} /\ status[b] = "none"
    <2>1. \A b \in Branches, t \in Threads : ~(made[t][b] > 0)
      BY <1>1 DEF Init
    <2> QED  BY <1>1, <2>1 DEF Init, Into
  <1> QED  BY <1>2, <1>3, <1>4, <1>5
           DEF IInv, ImportedOnce, ImportedIsClosed, MergedMeansImported

(* What a step of a request has to show.                                    *)
LEMMA Together ==
    ASSUME IInv, TypeOK', NEW r \in Requests, Frame(r), OpOK(r)', ForkedOnce',
           ImportedOnce', ImportedIsClosed', MergedMeansImported'
    PROVE  IInv'
  <1>1. \A s \in Requests : OpOK(s)'
    BY OthersOK
  <1> QED  BY <1>1 DEF IInv

(* A step that changes no row and imports nothing.                          *)
LEMMA QuietStep ==
    ASSUME IInv, TypeOK', NEW r \in Requests, OthersKept(r), LeasesKept(r),
           CheckpointsKept(r), QueuesStay, HistoryStays, UNCHANGED <<status, stored, made>>,
           OpOK(r)', op'[r].pc # "creating",
           op[r].pc = "closing" => op'[r] = op[r] \/ op[r].at \in cut'
    PROVE  IInv'
  <1>1. Frame(r)
    BY DEF Frame, RowsKept, ImportsStay, StaysForked
  <1>2. ImportedOnce' /\ ImportedIsClosed' /\ MergedMeansImported'
    BY <1>1, ImportsKept
  <1>3. ForkedOnce'
    BY ForksKept
  <1> QED  BY <1>1, <1>2, <1>3, Together

(* A step that writes the row of the branch the request is at work on.      *)
LEMMA RowStep ==
    ASSUME IInv, TypeOK', NEW r \in Requests, OthersKept(r), LeasesKept(r),
           CheckpointsKept(r), QueuesStay, UNCHANGED <<made, lapsed, raced, cut>>,
           OpOK(r)', op[r].pc # "closing", op'[r].pc # "creating",
           op[r].at \in Branches, Touches(r, op[r].at),
           \A b \in Branches : b # op[r].at => status'[b] = status[b] /\ stored'[b] = stored[b],
           status'[op[r].at] \notin {"none", "merged"} \/ status' = status,
           op[r].at \notin lapsed => status[op[r].at] # "merged" \/ status' = status
    PROVE  IInv'
  <1>1. Frame(r)
    BY DEF Frame, Touches, RowsKept, ImportsStay, StaysForked, HistoryStays
  <1>2. ImportedOnce' /\ ImportedIsClosed' /\ MergedMeansImported'
    BY <1>1, ImportsKept
  <1>3. ForkedOnce'
    BY ForksKept
  <1> QED  BY <1>1, <1>2, <1>3, Together

LEMMA EndKeeps ==
    ASSUME TypeOK, NEW r \in Requests, End(r)
    PROVE  OthersKept(r) /\ LeasesKept(r) /\ op'[r] = Idle /\ OpOK(r)' /\ op'[r].pc = "idle"
  <1>1. op'[r] = Idle
    BY DEF End, TypeOK
  <1>2. OthersKept(r) /\ LeasesKept(r)
    BY DEF End, Released, OthersKept, LeasesKept, TypeOK
  <1>3. op'[r].pc = "idle"
    BY <1>1 DEF Idle
  <1> QED  BY <1>1, <1>2, <1>3, IdleOK

(* A request that comes in.                                                 *)
LEMMA StartStep ==
    ASSUME IInv, TypeOK', NEW r \in Requests, NEW kind \in Kinds, NEW at \in Threads,
           NEW to, NEW pc \in {"locking", "starting"}, NEW seen,
           Start(r, kind, at, to, pc, seen),
           kind \notin {"turn", "run"} => at \in Branches,
           kind = "run" <=> pc = "starting",
           at \in Branches => status[at] # "none"
    PROVE  IInv'
  <1>1. op'[r].pc = pc /\ op'[r].kind = kind /\ op'[r].at = at /\ op[r].pc = "idle"
    BY DEF Start, IInv, TypeOK
  <1>2. OthersKept(r) /\ LeasesKept(r) /\ HistoryStays
    BY DEF Start, OthersKept, LeasesKept, HistoryStays, IInv, TypeOK
  <1>3. CheckpointsKept(r) /\ QueuesStay
    BY SameGraph DEF Start
  <1>4. OpOK(r)'
    BY <1>1 DEF Start, OpOK, KindOK, ForkOK, Holds, Inside, Sees, Knows, HasImported
  <1> QED  BY <1>1, <1>2, <1>3, <1>4, QuietStep DEF Start

LEMMA AskTurnStep ==
    ASSUME IInv, TypeOK', NEW r \in Requests, NEW t \in Threads, AskTurn(r, t) PROVE IInv'
  BY StartStep DEF AskTurn, StatusOf, Kinds

LEMMA AskRunStep ==
    ASSUME IInv, TypeOK', NEW r \in Requests, NEW t \in Threads, AskRun(r, t) PROVE IInv'
  BY StartStep DEF AskRun, StatusOf, Kinds

LEMMA AskPrepareStep ==
    ASSUME IInv, TypeOK', NEW r \in Requests, NEW b \in Branches, AskPrepare(r, b) PROVE IInv'
  BY StartStep DEF AskPrepare, Kinds, Threads

LEMMA AskApplyStep ==
    ASSUME IInv, TypeOK', NEW r \in Requests, NEW b \in Branches, AskApply(r, b) PROVE IInv'
  BY StartStep DEF AskApply, Kinds, Threads

LEMMA AskForkStep ==
    ASSUME IInv, TypeOK', NEW r \in Requests, NEW b \in Branches, AskFork(r, b) PROVE IInv'
  <1>1. op'[r].pc = "creating" /\ op'[r].kind = "fork" /\ op'[r].at = b /\ op[r].pc = "idle"
        /\ UNCHANGED <<status, stored, graph, holder, made, lapsed, raced, cut>>
    BY DEF AskFork, Start, IInv, TypeOK
  <1>2. OthersKept(r)
    BY DEF AskFork, Start, OthersKept, IInv, TypeOK
  <1>3. Frame(r)
    BY <1>1, <1>2, SameGraph
    DEF Frame, LeasesKept, RowsKept, ImportsStay, StaysForked, HistoryStays
  <1>4. OpOK(r)'
    BY <1>1 DEF AskFork, OpOK, KindOK, ForkOK, Holds, Inside, Sees, Knows, HasImported
  <1>5. ForkedOnce'
    BY <1>1, <1>2 DEF AskFork, IInv, ForkedOnce, OthersKept
  <1>6. ImportedOnce' /\ ImportedIsClosed' /\ MergedMeansImported'
    BY <1>1, <1>3, ImportsKept
  <1> QED  BY <1>3, <1>4, <1>5, <1>6, Together

LEMMA LockStep ==
    ASSUME IInv, TypeOK', NEW r \in Requests, NEW t \in Threads, Lock(r, t) PROVE IInv'
  <1>1. LeasesKept(r) /\ HistoryStays /\ CheckpointsKept(r) /\ QueuesStay
    BY HolderAssumption, SameGraph DEF Lock, LeasesKept, HistoryStays, IInv, TypeOK
  <1>2. OpOK(r) /\ op[r] \in Ops /\ op[r].at \in Threads /\ op[r].to \in Threads
    BY DEF IInv, TypeOK, Ops
  <1>3. CASE \A u \in Wants(op[r]) : u = t \/ holder[u] = r
    <2>1. /\ OthersKept(r) /\ op'[r].pc = "locked" /\ op'[r].kind = op[r].kind
          /\ op'[r].at = op[r].at /\ op'[r].to = op[r].to
      BY <1>3, GotoFields DEF Lock, IInv
    <2>2. holder'[op[r].at] = r /\ holder'[op[r].to] = r
      BY <1>2, <1>3 DEF Lock, Wants, IInv, TypeOK
    <2>3. OpOK(r)'
      BY <1>2, <2>1, <2>2
      DEF Lock, OpOK, KindOK, ForkOK, Holds, Wants, Inside, Sees, Knows, HasImported
    <2> QED  BY <1>1, <2>1, <2>3, QuietStep DEF Lock
  <1>4. CASE ~ \A u \in Wants(op[r]) : u = t \/ holder[u] = r
    <2>1. op' = op
      BY <1>4 DEF Lock
    <2>2. OpOK(r)'
      BY <1>2, <2>1 DEF Lock, OpOK, KindOK, ForkOK, Holds, Inside, Sees, Knows, HasImported
    <2>3. OthersKept(r)
      BY <2>1 DEF OthersKept
    <2> QED  BY <1>1, <2>1, <2>2, <2>3, QuietStep DEF Lock
  <1> QED  BY <1>3, <1>4

LEMMA LapseStep ==
    ASSUME IInv, TypeOK', NEW r \in Requests, NEW t \in Threads, Lapse(r, t) PROVE IInv'
  <1>1. OthersKept(r) /\ LeasesKept(r) /\ HistoryStays
    BY DEF Lapse, OthersKept, LeasesKept, HistoryStays, IInv, TypeOK
  <1>2. OpOK(r) /\ op[r] \in Ops
    BY DEF IInv, TypeOK
  <1>3. Holds(r)'
    BY <1>2 DEF Lapse, OpOK, Holds, Wants, Inside, IInv, TypeOK, Ops
  <1>4. KindOK(r)' /\ ForkOK(r)' /\ Sees(r)' /\ Knows(r)' /\ HasImported(r)'
    BY <1>2 DEF Lapse, OpOK, KindOK, ForkOK, Sees, Inside, Knows, HasImported, IsIn
  <1>5. OpOK(r)'
    BY <1>3, <1>4 DEF OpOK
  <1>6. CheckpointsKept(r) /\ QueuesStay
    BY SameGraph DEF Lapse
  <1> QED  BY <1>1, <1>5, <1>6, QuietStep DEF Lapse, Inside

LEMMA LockRefusedStep ==
    ASSUME IInv, TypeOK', NEW r \in Requests, LockRefused(r) PROVE IInv'
  <1>1. OthersKept(r) /\ LeasesKept(r) /\ OpOK(r)' /\ op'[r].pc = "idle"
    BY EndKeeps DEF IInv, LockRefused
  <1>2. CheckpointsKept(r) /\ QueuesStay /\ HistoryStays
    BY SameGraph DEF LockRefused, HistoryStays
  <1> QED  BY <1>1, <1>2, QuietStep DEF LockRefused

LEMMA FinishStep ==
    ASSUME IInv, TypeOK', NEW r \in Requests, Finish(r) PROVE IInv'
  <1>1. OthersKept(r) /\ LeasesKept(r) /\ OpOK(r)' /\ op'[r].pc = "idle"
    BY EndKeeps DEF IInv, Finish
  <1>2. CheckpointsKept(r) /\ QueuesStay /\ HistoryStays
    BY SameGraph DEF Finish, HistoryStays
  <1> QED  BY <1>1, <1>2, QuietStep DEF Finish

LEMMA FindingsFailStep ==
    ASSUME IInv, TypeOK', NEW r \in Requests, FindingsFail(r) PROVE IInv'
  <1>1. OthersKept(r) /\ LeasesKept(r) /\ OpOK(r)' /\ op'[r].pc = "idle"
    BY EndKeeps DEF IInv, FindingsFail
  <1>2. CheckpointsKept(r) /\ QueuesStay /\ HistoryStays
    BY SameGraph DEF FindingsFail, HistoryStays
  <1> QED  BY <1>1, <1>2, QuietStep DEF FindingsFail

LEMMA FailsStep ==
    ASSUME IInv, TypeOK', NEW r \in Requests, Fails(r) PROVE IInv'
  <1>1. OthersKept(r) /\ LeasesKept(r) /\ OpOK(r)' /\ op'[r].pc = "idle"
    BY EndKeeps DEF IInv, Fails
  <1>2. CheckpointsKept(r) /\ QueuesStay /\ HistoryStays
    BY SameGraph DEF Fails, HistoryStays
  <1> QED  BY <1>1, <1>2, QuietStep DEF Fails, Unclosed

LEMMA CrashStep ==
    ASSUME IInv, TypeOK', NEW r \in Requests, Crash(r) PROVE IInv'
  <1>1. op'[r] = Idle
    BY DEF Crash, IInv, TypeOK
  <1>2. OthersKept(r) /\ LeasesKept(r) /\ HistoryStays
    BY DEF Crash, OthersKept, LeasesKept, HistoryStays, IInv, TypeOK
  <1>3. OpOK(r)' /\ op'[r].pc # "creating"
    BY <1>1, IdleOK DEF Idle
  <1>4. CheckpointsKept(r) /\ QueuesStay
    BY SameGraph DEF Crash
  <1> QED  BY <1>2, <1>3, <1>4, QuietStep DEF Crash, Unclosed

LEMMA LoadStep ==
    ASSUME IInv, TypeOK', NEW r \in Requests, Load(r) PROVE IInv'
  <1>1. OpOK(r) /\ op[r] \in Ops
    BY DEF IInv, TypeOK
  <1>2. /\ OthersKept(r) /\ op'[r].pc = "running" /\ op'[r].kind = op[r].kind
        /\ op'[r].at = op[r].at /\ op'[r].to = op[r].to /\ op'[r].seen = graph[op[r].at]
    BY SeenFields DEF Load, IInv
  <1>3. LeasesKept(r) /\ HistoryStays /\ CheckpointsKept(r) /\ QueuesStay
    BY SameGraph DEF Load, LeasesKept, HistoryStays
  <1>4. OpOK(r)'
    BY <1>1, <1>2
    DEF Load, OpOK, KindOK, ForkOK, Holds, Wants, Inside, Sees, Knows, HasImported
  <1> QED  BY <1>1, <1>2, <1>3, <1>4, QuietStep DEF Load

(* A turn's checkpoint has the queue it loaded, which is still that of the  *)
(* thread unless its lease ran out or a run got in between.                 *)
LEMMA GraphWrite ==
    ASSUME IInv, NEW r \in Requests, op[r].pc \in {"running", "wrote"},
           NEW c \in Checkpoints, c.queue = op[r].seen.queue,
           graph' = [graph EXCEPT ![op[r].at] = c], lapsed' = lapsed,
           raced' = Raced(r, {op[r].seen})
    PROVE  CheckpointsKept(r) /\ QueuesStay /\ raced \subseteq raced'
  <1>1. OpOK(r) /\ op[r] \in Ops /\ op[r].at \in Wants(op[r])
    BY DEF IInv, TypeOK, Wants
  <1>2. raced \subseteq raced'
    BY RacedKeeps
  <1>3. CASE op[r].kind = "run"
    <2> DEFINE t == op[r].at
    <2>1. t \in Threads /\ graph' = [graph EXCEPT ![t] = c]
      BY <1>1 DEF Ops
    <2>2. t \notin raced' => holder[t] \notin Requests /\ graph[t].queue \subseteq c.queue
      BY <1>3 DEF Raced
    <2> HIDE DEF t
    <2> QED  BY <1>2, <2>1, <2>2, UnleasedWrite
  <1>4. CASE op[r].kind # "run"
    <2>1. Inside(op[r])
      BY <1>4 DEF Inside
    <2>2. op[r].at \notin lapsed' \cup raced' => graph[op[r].at].queue = c.queue
      BY <1>1, <1>2, <2>1 DEF OpOK, Sees
    <2> QED  BY <1>1, <1>2, <2>1, <2>2, LeasedWrite
  <1> QED  BY <1>3, <1>4

LEMMA WriteTurnStep ==
    ASSUME IInv, TypeOK', NEW r \in Requests, WriteTurn(r) PROVE IInv'
  <1> DEFINE t == op[r].at
             c == Turned(t, op[r].seen)
  <1>1. OpOK(r) /\ op[r] \in Ops /\ t \in Threads /\ op[r].seen \in Checkpoints
    BY DEF IInv, TypeOK, Ops
  <1>2. c \in Checkpoints
    BY <1>1, TurnedType DEF WriteTurn, OpOK, KindOK
  <1>3. c.queue = op[r].seen.queue
    BY <1>1, TurnedQueue
  <1> HIDE DEF c
  <1>4. graph' = [graph EXCEPT ![t] = c]
    BY DEF WriteTurn, c
  <1>5. CheckpointsKept(r) /\ QueuesStay /\ raced \subseteq raced'
    BY <1>2, <1>3, <1>4, GraphWrite DEF WriteTurn
  <1>6. /\ OthersKept(r) /\ op'[r].pc = "wrote" /\ op'[r].kind = op[r].kind
        /\ op'[r].at = t /\ op'[r].to = op[r].to /\ op'[r].seen = c
    BY SeenFields DEF WriteTurn, IInv, c
  <1>7. graph'[t] = c
    BY <1>1, <1>4 DEF IInv, TypeOK
  <1>8. LeasesKept(r) /\ HistoryStays
    BY <1>5 DEF WriteTurn, LeasesKept, HistoryStays
  <1>9. OpOK(r)'
    BY <1>1, <1>6, <1>7
    DEF WriteTurn, OpOK, KindOK, ForkOK, Holds, Wants, Inside, Sees, Knows, HasImported
  <1> QED  BY <1>5, <1>6, <1>8, <1>9, QuietStep DEF WriteTurn

LEMMA WriteAgainStep ==
    ASSUME IInv, TypeOK', NEW r \in Requests, WriteAgain(r) PROVE IInv'
  <1> DEFINE t == op[r].at
  <1>1. OpOK(r) /\ op[r] \in Ops /\ t \in Threads /\ op[r].seen \in Checkpoints
    BY DEF IInv, TypeOK, Ops
  <1>2. CheckpointsKept(r) /\ QueuesStay /\ raced \subseteq raced'
    BY <1>1, GraphWrite DEF WriteAgain
  <1>3. op' = op /\ graph'[t] = op[r].seen
    BY <1>1 DEF WriteAgain, IInv, TypeOK
  <1>4. OthersKept(r) /\ LeasesKept(r) /\ HistoryStays
    BY <1>2, <1>3 DEF WriteAgain, OthersKept, LeasesKept, HistoryStays
  <1>5. OpOK(r)'
    BY <1>1, <1>3
    DEF WriteAgain, OpOK, KindOK, ForkOK, Holds, Wants, Inside, Sees, Knows, HasImported
  <1> QED  BY <1>2, <1>3, <1>4, <1>5, QuietStep DEF WriteAgain

LEMMA RollBackStep ==
    ASSUME IInv, TypeOK', NEW r \in Requests, RollBack(r) PROVE IInv'
  <1> DEFINE t == op[r].at
  <1>1. OpOK(r) /\ op[r] \in Ops /\ op[r].back \in Checkpoints
    BY DEF IInv, TypeOK, Ops
  <1>2. \A k \in {op[r].back, Turned(t, op[r].back)} : k.queue \subseteq op[r].back.queue
    BY <1>1, TurnedQueue
  <1>3. CheckpointsKept(r) /\ QueuesStay /\ raced \subseteq raced'
    <2> DEFINE c == op[r].back
    <2>1. t \in Threads /\ graph' = [graph EXCEPT ![t] = c]
      BY <1>1 DEF RollBack, Ops
    <2>2. t \notin raced' => holder[t] \notin Requests /\ graph[t].queue \subseteq c.queue
      BY <1>2 DEF RollBack, Raced
    <2>3. raced \subseteq raced'
      BY DEF RollBack, Raced
    <2> HIDE DEF t, c
    <2> QED  BY <2>1, <2>2, <2>3, UnleasedWrite
  <1>4. op' = op
    BY DEF RollBack
  <1>5. OthersKept(r) /\ LeasesKept(r) /\ HistoryStays
    BY <1>3, <1>4 DEF RollBack, OthersKept, LeasesKept, HistoryStays
  <1>6. OpOK(r)'
    BY <1>1, <1>4
    DEF RollBack, OpOK, KindOK, ForkOK, Holds, Inside, Sees, Knows, HasImported
  <1>7. op[r].pc # "creating"
    BY <1>1 DEF RollBack, OpOK, KindOK
  <1> QED  BY <1>3, <1>4, <1>5, <1>6, <1>7, QuietStep DEF RollBack

LEMMA CreateForkStep ==
    ASSUME IInv, TypeOK', NEW r \in Requests, CreateFork(r) PROVE IInv'
  <1>1. OthersKept(r) /\ LeasesKept(r) /\ OpOK(r)' /\ op'[r].pc = "idle"
    BY EndKeeps DEF IInv, CreateFork
  <1>2. KindOK(r) /\ ForkOK(r) /\ status \in [Branches -> Statuses]
    BY DEF IInv, OpOK, TypeOK
  <1>3. CheckpointsKept(r) /\ QueuesStay
    BY SameGraph DEF CreateFork
  <1> QED  BY <1>1, <1>2, <1>3, RowStep DEF CreateFork, KindOK, ForkOK, Touches

LEMMA PrepareFailsStep ==
    ASSUME IInv, TypeOK', NEW r \in Requests, PrepareFails(r) PROVE IInv'
  <1>1. OthersKept(r) /\ LeasesKept(r) /\ OpOK(r)' /\ op'[r].pc = "idle"
    BY EndKeeps DEF IInv, PrepareFails
  <1>2. KindOK(r) /\ ForkOK(r) /\ Knows(r) /\ status \in [Branches -> Statuses]
    BY DEF IInv, OpOK, TypeOK
  <1>3. CheckpointsKept(r) /\ QueuesStay
    BY SameGraph DEF PrepareFails
  <1>4. op[r].at \in Branches /\ Inside(op[r])
    BY <1>2 DEF PrepareFails, KindOK, Inside
  <1> QED  BY <1>1, <1>2, <1>3, <1>4, RowStep DEF PrepareFails, Knows, Touches

LEMMA DiscardStep ==
    ASSUME IInv, TypeOK', NEW r \in Requests, Discard(r) PROVE IInv'
  <1>1. OthersKept(r) /\ LeasesKept(r) /\ OpOK(r)' /\ op'[r].pc = "idle"
    BY EndKeeps DEF IInv, Discard
  <1>2. KindOK(r) /\ ForkOK(r) /\ Knows(r) /\ status \in [Branches -> Statuses]
    BY DEF IInv, OpOK, TypeOK
  <1>3. CheckpointsKept(r) /\ QueuesStay
    BY SameGraph DEF Discard
  <1>4. op[r].at \in Branches /\ Inside(op[r])
    BY <1>2 DEF Discard, KindOK, Inside
  <1> QED  BY <1>1, <1>2, <1>3, <1>4, RowStep DEF Discard, Knows, Touches

LEMMA ShowProposalStep ==
    ASSUME IInv, TypeOK', NEW r \in Requests, ShowProposal(r) PROVE IInv'
  <1> DEFINE b == op[r].at
             c == [graph[b] EXCEPT !.shown = op[r].seen.said]
  <1>1. OthersKept(r) /\ LeasesKept(r) /\ OpOK(r)' /\ op'[r].pc = "idle"
    BY EndKeeps DEF IInv, ShowProposal
  <1>2. OpOK(r) /\ b \in Threads /\ TypeOK
    BY DEF IInv, TypeOK, Ops
  <1>3. b \in Wants(op[r]) /\ Inside(op[r])
    BY <1>2 DEF ShowProposal, OpOK, KindOK, Inside, Wants
  <1>4. graph' = [graph EXCEPT ![b] = c] /\ c.queue = graph[b].queue
    BY <1>2, Shows DEF ShowProposal
  <1> HIDE DEF c
  <1>5. CheckpointsKept(r) /\ QueuesStay /\ HistoryStays
    <2>1. lapsed' = lapsed /\ raced' = raced /\ cut' = cut
      BY DEF ShowProposal
    <2> QED  BY <1>3, <1>4, <2>1, LeasedWrite DEF HistoryStays
  <1> QED  BY <1>1, <1>5, QuietStep DEF ShowProposal

LEMMA OpenStep ==
    ASSUME IInv, TypeOK', NEW r \in Requests, Open(r) PROVE IInv'
  <1> DEFINE b == op[r].at
  <1>1. OpOK(r) /\ op[r] \in Ops /\ status \in [Branches -> Statuses]
    BY DEF IInv, TypeOK
  <1>2. b \in Branches /\ Inside(op[r])
    BY <1>1 DEF Open, OpOK, KindOK, Inside
  <1>3. /\ OthersKept(r) /\ op'[r].pc = "generating" /\ op'[r].kind = op[r].kind
        /\ op'[r].at = b /\ op'[r].to = op[r].to /\ op'[r].seen = graph[b]
    BY SeenFields DEF Open, IInv
  <1>4. LeasesKept(r) /\ CheckpointsKept(r) /\ QueuesStay
    BY SameGraph DEF Open, LeasesKept
  <1>5. OpOK(r)'
    BY <1>1, <1>2, <1>3
    DEF Open, OpOK, KindOK, ForkOK, Holds, Wants, Inside, Sees, Knows, HasImported
  <1> QED  BY <1>1, <1>2, <1>3, <1>4, <1>5, RowStep DEF Open, OpOK, ForkOK, Touches

LEMMA SaveProposalStep ==
    ASSUME IInv, TypeOK', NEW r \in Requests, SaveProposal(r) PROVE IInv'
  <1> DEFINE b == op[r].at
  <1>1. OpOK(r) /\ op[r] \in Ops /\ stored \in [Branches -> Proposals]
    BY DEF IInv, TypeOK
  <1>2. b \in Branches /\ Inside(op[r])
    BY <1>1 DEF SaveProposal, OpOK, KindOK, Inside
  <1>3. /\ OthersKept(r) /\ op'[r].pc = "saved" /\ op'[r].kind = op[r].kind
        /\ op'[r].at = b /\ op'[r].to = op[r].to /\ op'[r].seen = op[r].seen
    BY GotoFields DEF SaveProposal, IInv
  <1>4. LeasesKept(r) /\ CheckpointsKept(r) /\ QueuesStay
    BY SameGraph DEF SaveProposal, LeasesKept
  <1>5. OpOK(r)'
    BY <1>1, <1>2, <1>3
    DEF SaveProposal, OpOK, KindOK, ForkOK, Holds, Wants, Inside, Sees, Knows, HasImported
  <1> QED  BY <1>1, <1>2, <1>3, <1>4, <1>5, RowStep DEF SaveProposal, Touches

LEMMA AwaitReviewStep ==
    ASSUME IInv, TypeOK', NEW r \in Requests, AwaitReview(r) PROVE IInv'
  <1> DEFINE b == op[r].at
  <1>1. OpOK(r) /\ op[r] \in Ops /\ status \in [Branches -> Statuses]
    BY DEF IInv, TypeOK
  <1>2. b \in Branches /\ Inside(op[r])
    BY <1>1 DEF AwaitReview, OpOK, KindOK, Inside
  <1>3. /\ OthersKept(r) /\ op'[r].pc = "showing" /\ op'[r].kind = op[r].kind
        /\ op'[r].at = b /\ op'[r].to = op[r].to /\ op'[r].seen = op[r].seen
    BY GotoFields DEF AwaitReview, IInv
  <1>4. LeasesKept(r) /\ CheckpointsKept(r) /\ QueuesStay
    BY SameGraph DEF AwaitReview, LeasesKept
  <1>5. OpOK(r)'
    BY <1>1, <1>2, <1>3
    DEF AwaitReview, OpOK, KindOK, ForkOK, Holds, Wants, Inside, Sees, Knows, HasImported
  <1> QED  BY <1>1, <1>2, <1>3, <1>4, <1>5, RowStep DEF AwaitReview, OpOK, Knows, Touches

LEMMA DecideStep ==
    ASSUME IInv, TypeOK', NEW r \in Requests, Decide(r) PROVE IInv'
  <1> DEFINE b == op[r].at
             c == [graph[b] EXCEPT !.shown = Reviewed(b)]
  <1>1. OpOK(r) /\ op[r] \in Ops /\ TypeOK /\ b \in Threads
    BY DEF IInv, TypeOK, Ops
  <1>2. b \in Branches /\ Inside(op[r]) /\ b \in Wants(op[r])
    BY <1>1 DEF Decide, OpOK, KindOK, Inside, Wants
  <1>3. PICK pc \in {"importing", "discarding"} :
            /\ Goto(r, pc)
            /\ pc = "importing" => op[r].kind = "approve"
            /\ pc = "discarding" => op[r].kind = "discard"
    BY DEF Decide
  <1>4. /\ OthersKept(r) /\ op'[r].pc = pc /\ op'[r].kind = op[r].kind
        /\ op'[r].at = b /\ op'[r].to = op[r].to
    BY <1>1, <1>3, GotoFields
  <1>5. graph' = [graph EXCEPT ![b] = c] /\ c.queue = graph[b].queue
    BY <1>1, Shows DEF Decide
  <1> HIDE DEF c
  <1>6. CheckpointsKept(r) /\ QueuesStay
    <2>1. lapsed' = lapsed
      BY DEF Decide
    <2> QED  BY <1>2, <1>5, <2>1, LeasedWrite
  <1>7. LeasesKept(r)
    BY DEF Decide, LeasesKept
  <1>8. OpOK(r)'
    BY <1>1, <1>2, <1>3, <1>4
    DEF Decide, OpOK, KindOK, ForkOK, Holds, Wants, Inside, Sees, Knows, HasImported
  <1>9. \A a \in Branches : a # b => status'[a] = status[a] /\ stored'[a] = stored[a]
    BY <1>1 DEF Decide, TypeOK
  <1> QED  BY <1>2, <1>3, <1>4, <1>6, <1>7, <1>8, <1>9, RowStep DEF Decide, Touches

LEMMA ImportStep ==
    ASSUME IInv, TypeOK', NEW r \in Requests, Import(r) PROVE IInv'
  <1> DEFINE b == op[r].at
             t == op[r].to
             d == [graph[t] EXCEPT !.queue = @ \cup {b}]
  <1>1. OpOK(r) /\ op[r] \in Ops /\ t \in Threads /\ TypeOK
    BY DEF IInv, TypeOK, Ops
  <1>2. b \in Branches /\ Inside(op[r]) /\ t \in Wants(op[r])
    BY <1>1 DEF Import, OpOK, KindOK, Inside, Wants
  <1>3. /\ OthersKept(r) /\ op'[r].pc = "closing" /\ op'[r].kind = op[r].kind
        /\ op'[r].at = b /\ op'[r].to = t
    BY <1>1, GotoFields DEF Import
  <1>4. /\ made'[t][b] = made[t][b] + 1 /\ made[t][b] \in Nat
        /\ \A u \in Threads, c \in Branches : u # t \/ c # b => made'[u][c] = made[u][c]
    <2>1. made[t] \in [Branches -> 0 .. MaxImports] /\ made \in [Threads -> [Branches -> 0 .. MaxImports]]
      BY <1>1 DEF TypeOK
    <2>2. made' = [made EXCEPT ![t] = [made[t] EXCEPT ![b] = made[t][b] + 1]]
      BY <1>1, <1>2, <2>1 DEF Import
    <2>3. made'[t] = [made[t] EXCEPT ![b] = made[t][b] + 1]
      BY <1>1, <2>1, <2>2
    <2>4. \A u \in Threads : u # t => made'[u] = made[u]
      BY <2>1, <2>2
    <2>5. made'[t][b] = made[t][b] + 1 /\ \A c \in Branches : c # b => made'[t][c] = made[t][c]
      BY <1>2, <2>1, <2>3
    <2>6. made[t][b] \in Nat
      BY <1>2, <2>1, BoundAssumption
    <2> QED  BY <2>4, <2>5, <2>6
  <1>5. /\ graph' = [graph EXCEPT ![t] = d] /\ graph[t].queue \subseteq d.queue
        /\ b \in d.queue /\ graph'[t] = d
    <2>1. graph[t] \in Checkpoints /\ graph \in [Threads -> Checkpoints]
      BY <1>1 DEF TypeOK
    <2>2. graph' = [graph EXCEPT ![t] = d]
      BY <1>1, <2>1 DEF Import
    <2>3. d.queue = graph[t].queue \cup {b}
      BY <2>1 DEF Checkpoints
    <2> HIDE DEF d
    <2> QED  BY <1>1, <2>1, <2>2, <2>3
  <1> HIDE DEF d
  <1>6. CheckpointsKept(r) /\ QueuesStay
    <2>1. lapsed' = lapsed
      BY DEF Import
    <2> QED  BY <1>2, <1>5, <2>1, LeasedWrite
  <1>7. \A c \in Branches, u \in Threads : made[u][c] > 0 => made'[u][c] > 0
    <2>1. SUFFICES ASSUME NEW c \in Branches, NEW u \in Threads, made[u][c] > 0
                   PROVE  made'[u][c] > 0
      OBVIOUS
    <2>2. CASE u = t /\ c = b
      BY <1>4, <2>1, <2>2
    <2>3. CASE ~(u = t /\ c = b)
      BY <1>4, <2>1, <2>3
    <2> QED  BY <2>2, <2>3
  <1>8. Frame(r)
    BY <1>3, <1>6, <1>7
    DEF Import, Frame, ImportsStay, LeasesKept, RowsKept, StaysForked, HistoryStays
  <1>9. made'[t][b] > 0 /\ b \in graph'[t].queue
    BY <1>4, <1>5
  <1>10. OpOK(r)'
    <2>1. KindOK(r)' /\ ForkOK(r)' /\ Holds(r)' /\ Sees(r)' /\ Knows(r)'
      BY <1>1, <1>2, <1>3
      DEF Import, OpOK, KindOK, ForkOK, Holds, Wants, Inside, Sees, Knows
    <2>2. HasImported(r)'
      BY <1>3, <1>9 DEF HasImported, IsIn
    <2> QED  BY <2>1, <2>2 DEF OpOK
  <1>11. ForkedOnce'
    BY <1>3, <1>8, ForksKept
  <1>12. \A c \in Branches : c # b => Into(c)' = Into(c)
    BY <1>4 DEF Into
  <1>13. {u \in Threads : made'[u][b] > 0} = Into(b) \cup {t}
    <2>1. \A u \in Threads : u # t => made'[u][b] = made[u][b]
      BY <1>2, <1>4
    <2> QED  BY <1>1, <1>9, <2>1 DEF Into
  <1>14. ASSUME b \notin cut, b \notin lapsed PROVE Into(b) = {}
    <2>1. status[b] # "merged"
      BY <1>1, <1>2, <1>14 DEF Import, OpOK, Knows
    <2>2. ASSUME NEW s \in Requests, op[s].pc = "closing", op[s].at = b PROVE FALSE
      <3>1. Inside(op[s])
        BY <2>2 DEF Inside, IInv, OpOK, KindOK
      <3>2. r = s
        BY <1>2, <1>14, <2>2, <3>1, Alone
      <3> QED  BY <2>2, <3>2 DEF Import
    <2> QED  BY <1>2, <1>14, <2>1, <2>2 DEF IInv, ImportedIsClosed
  <1>15. ImportedOnce'
    <2>1. SUFFICES ASSUME NEW c \in Branches \ (cut \cup lapsed), NEW u \in Into(c)', NEW v \in Into(c)'
                   PROVE  u = v /\ made'[u][c] = 1
      BY DEF Import, ImportedOnce, Into
    <2>2. CASE c = b
      <3>1. Into(b) = {}
        BY <1>14, <2>2
      <3>2. u = t /\ v = t
        BY <1>13, <2>1, <2>2, <3>1 DEF Into
      <3>3. ~(made[t][b] > 0)
        BY <1>1, <3>1 DEF Into
      <3>4. made[t][b] = 0
        BY <1>4, <3>3
      <3> QED  BY <1>4, <2>2, <3>2, <3>4
    <2>3. CASE c # b
      <3>1. u \in Into(c) /\ v \in Into(c) /\ u \in Threads
        BY <1>12, <2>3 DEF Into
      <3> QED  BY <1>4, <2>3, <3>1 DEF IInv, ImportedOnce
    <2> QED  BY <2>2, <2>3
  <1>16. ImportedIsClosed'
    <2>1. SUFFICES ASSUME NEW c \in Branches \ (cut \cup lapsed), Into(c)' # {}
                   PROVE  \/ status[c] = "merged"
                          \/ \E s \in Requests : op'[s].pc = "closing" /\ op'[s].at = c
      BY DEF Import, ImportedIsClosed, Into
    <2>2. CASE c = b
      BY <1>3, <2>2
    <2>3. CASE c # b /\ status[c] # "merged"
      <3>1. PICK s \in Requests : op[s].pc = "closing" /\ op[s].at = c
        BY <1>12, <2>1, <2>3 DEF IInv, ImportedIsClosed
      <3> QED  BY <1>3, <2>3, <3>1 DEF OthersKept
    <2> QED  BY <2>2, <2>3
  <1>17. MergedMeansImported'
    <2>1. SUFFICES ASSUME NEW c \in Branches, status[c] = "merged"
                   PROVE  \E u \in Into(c)' : c \in graph'[u].queue \/ u \in lapsed' \cup raced'
      BY DEF Import, MergedMeansImported
    <2>2. PICK u \in Into(c) : c \in graph[u].queue \/ u \in lapsed \cup raced
      BY <2>1 DEF IInv, MergedMeansImported
    <2>3. u \in Threads /\ u \in Into(c)'
      BY <1>7, <2>2 DEF Into
    <2>4. c \in graph'[u].queue \/ u \in lapsed' \cup raced'
      BY <2>2, <2>3, <1>6 DEF Import, QueuesStay
    <2> QED  BY <2>3, <2>4
  <1> QED  BY <1>8, <1>10, <1>11, <1>15, <1>16, <1>17, Together

LEMMA CloseStep ==
    ASSUME IInv, TypeOK', NEW r \in Requests, Close(r) PROVE IInv'
  <1> DEFINE b == op[r].at
  <1>1. OpOK(r) /\ op[r] \in Ops /\ b \in Threads /\ op[r].to \in Threads
    BY DEF IInv, TypeOK, Ops
  <1>2. b \in Branches /\ Inside(op[r])
    BY <1>1 DEF Close, OpOK, KindOK, Inside
  <1>3. OthersKept(r) /\ LeasesKept(r) /\ OpOK(r)' /\ op'[r].pc = "idle"
    BY EndKeeps DEF IInv, Close
  <1>4. status'[b] = "merged" /\ \A c \in Branches : c # b => status'[c] = status[c]
    BY <1>2 DEF Close, IInv, TypeOK
  <1>5. CheckpointsKept(r) /\ QueuesStay
    BY SameGraph DEF Close
  <1>6. Frame(r)
    BY <1>1, <1>2, <1>3, <1>4, <1>5
    DEF Close, Frame, Touches, RowsKept, ImportsStay, StaysForked, HistoryStays
  <1>7. ForkedOnce'
    BY <1>3, ForksKept
  <1>8. \A c \in Branches : Into(c)' = Into(c)
    BY DEF Close, Into
  <1>9. ImportedOnce'
    BY <1>8 DEF Close, IInv, ImportedOnce
  <1>10. ImportedIsClosed'
    <2>1. SUFFICES ASSUME NEW c \in Branches \ (cut \cup lapsed), Into(c) # {}, status'[c] # "merged"
                   PROVE  \E s \in Requests : op'[s].pc = "closing" /\ op'[s].at = c
      BY <1>8 DEF Close, ImportedIsClosed
    <2>2. c # b /\ status[c] # "merged"
      BY <1>4, <2>1
    <2>3. PICK s \in Requests : op[s].pc = "closing" /\ op[s].at = c
      BY <2>1, <2>2 DEF IInv, ImportedIsClosed
    <2> QED  BY <1>3, <2>2, <2>3 DEF OthersKept
  <1>11. MergedMeansImported'
    <2>1. SUFFICES ASSUME NEW c \in Branches, status'[c] = "merged"
                   PROVE  \E u \in Into(c) : c \in graph[u].queue \/ u \in lapsed \cup raced
      BY <1>8 DEF Close, MergedMeansImported
    <2>2. CASE c = b
      BY <1>1, <2>2 DEF Close, OpOK, HasImported, IsIn, Into
    <2>3. CASE c # b
      BY <1>4, <2>1, <2>3 DEF IInv, MergedMeansImported
    <2> QED  BY <2>2, <2>3
  <1> QED  BY <1>3, <1>6, <1>7, <1>9, <1>10, <1>11, Together

LEMMA RunOutStep ==
    ASSUME IInv, TypeOK', NEW t \in Threads, RunOut(t) PROVE IInv'
  <1>1. ASSUME NEW s \in Requests PROVE OpOK(s)'
    <2>1. OpOK(s) /\ op[s].at \in Threads /\ op[s].to \in Threads
      BY DEF IInv, TypeOK, Ops
    <2>2. Holds(s)'
      BY <2>1, HolderAssumption DEF RunOut, IInv, TypeOK, OpOK, Holds, Wants
    <2> QED  BY <2>1, <2>2 DEF RunOut, OpOK, KindOK, ForkOK, Sees, Knows, HasImported, IsIn
  <1>2. ForkedOnce' /\ ImportedOnce' /\ ImportedIsClosed' /\ MergedMeansImported'
    BY DEF RunOut, IInv, ForkedOnce, ImportedOnce, ImportedIsClosed, MergedMeansImported, Into
  <1> QED  BY <1>1, <1>2 DEF IInv

LEMMA StutterStep ==
    ASSUME IInv, UNCHANGED vars PROVE IInv'
  BY DEF vars, IInv, TypeOK, OpOK, KindOK, ForkOK, Holds, Sees, Knows, HasImported, IsIn,
         ForkedOnce, ImportedOnce, ImportedIsClosed, MergedMeansImported, Into

LEMMA Inductive == IInv /\ [Next]_vars => IInv'
  <1>1. SUFFICES ASSUME IInv, [Next]_vars PROVE IInv'
    OBVIOUS
  <1>2. TypeOK'
    BY <1>1, TypeStep
  <1>3. CASE UNCHANGED vars
    BY <1>1, <1>3, StutterStep
  <1>4. ASSUME NEW t \in Threads, RunOut(t) PROVE IInv'
    BY <1>1, <1>2, <1>4, RunOutStep
  <1>5. ASSUME NEW r \in Requests, NEW b \in Branches,
               AskFork(r, b) \/ AskPrepare(r, b) \/ AskApply(r, b)
        PROVE  IInv'
    BY <1>1, <1>2, <1>5, AskForkStep, AskPrepareStep, AskApplyStep
  <1>6. ASSUME NEW r \in Requests, NEW t \in Threads,
               AskTurn(r, t) \/ AskRun(r, t) \/ Lock(r, t) \/ Lapse(r, t)
        PROVE  IInv'
    BY <1>1, <1>2, <1>6, AskTurnStep, AskRunStep, LockStep, LapseStep
  <1>7. ASSUME NEW r \in Requests,
               \/ LockRefused(r) \/ CreateFork(r)
               \/ Load(r) \/ WriteTurn(r) \/ WriteAgain(r) \/ Finish(r) \/ RollBack(r)
        PROVE  IInv'
    BY <1>1, <1>2, <1>7, LockRefusedStep, CreateForkStep, LoadStep, WriteTurnStep,
       WriteAgainStep, FinishStep, RollBackStep
  <1>8. ASSUME NEW r \in Requests,
               \/ Open(r) \/ SaveProposal(r) \/ AwaitReview(r) \/ ShowProposal(r)
               \/ PrepareFails(r) \/ FindingsFail(r)
        PROVE  IInv'
    BY <1>1, <1>2, <1>8, OpenStep, SaveProposalStep, AwaitReviewStep, ShowProposalStep,
       PrepareFailsStep, FindingsFailStep
  <1>9. ASSUME NEW r \in Requests,
               Decide(r) \/ Discard(r) \/ Import(r) \/ Close(r) \/ Fails(r) \/ Crash(r)
        PROVE  IInv'
    BY <1>1, <1>2, <1>9, DecideStep, DiscardStep, ImportStep, CloseStep, FailsStep, CrashStep
  <1> QED  BY <1>1, <1>3, <1>4, <1>5, <1>6, <1>7, <1>8, <1>9 DEF Next

----------------------------------------------------------------------------
(* The theorems.                                                            *)

(* Past its locks a request holds its leases; what it read of its thread's  *)
(* checkpoint is the latest one while the lease lasts and no run without a  *)
(* lease wrote in between; what it read of its branch's row is still so     *)
(* while the lease lasts; and what is imported is there, or its thread had  *)
(* such a mishap: in every state of every instance of the branches' life.   *)
THEOREM Invariant == Spec => []IInv
  BY Initially, Inductive, PTL DEF Spec

(* Every variable keeps its type: statuses, proposals, checkpoints, leases  *)
(* and requests.                                                            *)
THEOREM TypeCorrect == Spec => []TypeOK
  <1>1. IInv => TypeOK
    BY DEF IInv
  <1> QED  BY <1>1, Invariant, PTL

(* apply_merge_decision imports a branch once, into one thread, unless an   *)
(* import was cut off before the branch was closed or its lease ran out.    *)
THEOREM ImportedOnceCorrect == Spec => []ImportedOnce
  <1>1. IInv => ImportedOnce
    BY DEF IInv
  <1> QED  BY <1>1, Invariant, PTL

(* A branch whose conclusion apply_merge_decision imported is merged, or    *)
(* the request that imported it is about to mark it so.                     *)
THEOREM ImportedIsClosedCorrect == Spec => []ImportedIsClosed
  <1>1. IInv => ImportedIsClosed
    BY DEF IInv
  <1> QED  BY <1>1, Invariant, PTL

(* A merged branch's conclusion is in the checkpoint of a thread it was     *)
(* imported into, whatever graphs loaded before and commit after, unless    *)
(* that thread's lease ran out or a run without one wrote over the work of  *)
(* others there.                                                            *)
THEOREM MergedMeansImportedCorrect == Spec => []MergedMeansImported
  <1>1. IInv => MergedMeansImported
    BY DEF IInv
  <1> QED  BY <1>1, Invariant, PTL

(* The steps that write the status of a branch.                             *)
Writes(r) ==
    \/ CreateFork(r) \/ Open(r) \/ AwaitReview(r) \/ PrepareFails(r)
    \/ Discard(r) \/ Close(r)

LEMMA StatusWritten ==
    ASSUME [Next]_vars, status' # status
    PROVE  \E r \in Requests : Writes(r)
  <1>1. SUFFICES ASSUME NEW r \in Requests, ~Writes(r), status' # status
                 PROVE  /\ \A b \in Branches : ~AskFork(r, b) /\ ~AskPrepare(r, b) /\ ~AskApply(r, b)
                        /\ \A t \in Threads : ~AskTurn(r, t) /\ ~AskRun(r, t) /\ ~Lock(r, t)
                                               /\ ~Lapse(r, t) /\ ~RunOut(t)
                        /\ ~LockRefused(r) /\ ~Load(r) /\ ~WriteTurn(r) /\ ~WriteAgain(r)
                        /\ ~Finish(r) /\ ~RollBack(r) /\ ~SaveProposal(r) /\ ~ShowProposal(r)
                        /\ ~FindingsFail(r) /\ ~Decide(r) /\ ~Import(r) /\ ~Fails(r) /\ ~Crash(r)
    <2>1. \A t \in Threads : ~RunOut(t)
      BY DEF RunOut
    <2> QED  BY <1>1, <2>1 DEF Next, vars, Writes
  <1>2. \A b \in Branches : ~AskFork(r, b) /\ ~AskPrepare(r, b) /\ ~AskApply(r, b)
    BY <1>1 DEF AskFork, AskPrepare, AskApply, Start
  <1>3. \A t \in Threads : ~AskTurn(r, t) /\ ~AskRun(r, t) /\ ~Lock(r, t) /\ ~Lapse(r, t) /\ ~RunOut(t)
    BY <1>1 DEF AskTurn, AskRun, Start, Lock, Lapse, RunOut
  <1>4. /\ ~LockRefused(r) /\ ~Load(r) /\ ~WriteTurn(r) /\ ~WriteAgain(r)
        /\ ~Finish(r) /\ ~RollBack(r)
    BY <1>1 DEF LockRefused, Load, WriteTurn, WriteAgain, Finish, RollBack
  <1>5. /\ ~SaveProposal(r) /\ ~ShowProposal(r) /\ ~FindingsFail(r) /\ ~Decide(r) /\ ~Import(r)
        /\ ~Fails(r) /\ ~Crash(r)
    BY <1>1 DEF SaveProposal, ShowProposal, FindingsFail, Decide, Import, Fails, Crash
  <1> QED  BY <1>2, <1>3, <1>4, <1>5

(* No request takes a branch out of "merged" while its lease never ran out. *)
LEMMA StaysMerged ==
    ASSUME IInv, [Next]_vars, NEW b \in Branches, status[b] = "merged", b \notin lapsed
    PROVE  status'[b] = "merged"
  <1>1. \A r \in Requests : OpOK(r) /\ op[r] \in Ops
    BY DEF IInv, TypeOK
  <1>2. status \in [Branches -> Statuses]
    BY DEF IInv, TypeOK
  <1>3. ASSUME NEW r \in Requests, status' # status
        PROVE  CreateFork(r) \/ Open(r) \/ AwaitReview(r) \/ PrepareFails(r) \/ Discard(r)
               \/ Close(r) => status'[b] = "merged"
    BY <1>1, <1>2 DEF CreateFork, Open, AwaitReview, PrepareFails, Discard, Close, OpOK, ForkOK,
       Knows
  <1>4. CASE status' = status
    BY <1>4
  <1>5. CASE status' # status
    <2>1. PICK r \in Requests : Writes(r)
      BY <1>5, StatusWritten
    <2> QED  BY <1>3, <1>5, <2>1 DEF Writes
  <1> QED  BY <1>4, <1>5

(* A merged branch stays merged: preparing, deciding, failing and crashing  *)
(* never reopen it while its lease holds.                                   *)
THEOREM MergedForeverCorrect == Spec => MergedForever
  <1>1. IInv /\ [Next]_vars =>
            [\A b \in Branches :
                (status[b] = "merged" /\ b \notin lapsed) => status'[b] = "merged"]_vars
    BY StaysMerged
  <1> QED  BY <1>1, Invariant, PTL DEF Spec, MergedForever

(* The stored proposal covers every turn of the branch when it comes up.    *)
LEMMA ComesUpCurrent ==
    ASSUME IInv, [Next]_vars, NEW b \in Branches,
           status[b] # "awaiting", status'[b] = "awaiting", b \notin lapsed \cup raced
    PROVE  stored'[b] = graph'[b].said
  <1>1. status \in [Branches -> Statuses] /\ status' # status
    BY DEF IInv, TypeOK
  <1>2. PICK r \in Requests : Writes(r)
    BY <1>1, StatusWritten
  <1>3. AwaitReview(r) /\ op[r].at = b
    BY <1>1, <1>2 DEF Writes, CreateFork, Open, AwaitReview, PrepareFails, Discard, Close
  <1>4. KindOK(r) /\ Sees(r) /\ Knows(r)
    BY DEF IInv, OpOK
  <1>5. Inside(op[r])
    BY <1>3, <1>4 DEF AwaitReview, KindOK, Inside
  <1> QED  BY <1>3, <1>4, <1>5 DEF AwaitReview, Sees, Knows

(* prepare_merge_proposal brings up for review a proposal that covers every *)
(* turn of the branch, chat turns and runs, as long as its lease holds and  *)
(* no run wrote to the branch under it.                                     *)
THEOREM ReviewIsCurrentCorrect == Spec => ReviewIsCurrent
  <1>1. IInv /\ [Next]_vars =>
            [\A b \in Branches :
                (status[b] # "awaiting" /\ status'[b] = "awaiting" /\ b \notin lapsed \cup raced)
                    => stored'[b] = graph'[b].said]_vars
    BY ComesUpCurrent
  <1> QED  BY <1>1, Invariant, PTL DEF Spec, ReviewIsCurrent
=============================================================================
