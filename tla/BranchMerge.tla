------------------------------ MODULE BranchMerge ------------------------------
(****************************************************************************)
(* The life of the branches of a conversation: forking, chat turns and      *)
(* harness runs, the preparation of a merge proposal, the review and the    *)
(* import of its conclusion into the thread it returns to                   *)
(* (services/branches, services/chat, api/routers/harness_runs).            *)
(*                                                                          *)
(* The status of a branch is a row of the repository; the messages, the     *)
(* proposal and the merge queue of a thread are its checkpoint.  No write   *)
(* of either is conditional: what keeps two requests apart is the lease of  *)
(* the thread alone, which no branch operation asks about again and which   *)
(* the runs of the /v2 routes never take.  A graph that runs commits the    *)
(* checkpoint it loaded with its own turn added, whatever the thread has    *)
(* become meanwhile; an update of the state changes the latest one.         *)
(*                                                                          *)
(* Left out: names, roles and archiving (nothing here reads them), the copy *)
(* of the status in the graph (the repository's wins wherever it is read),  *)
(* the content of a proposal (it is known by the turns it covers), the      *)
(* stored decision (nothing reads it back), the memory (it can only fail    *)
(* here) and what a branch inherits from its parent's checkpoint: turns and *)
(* imports are those of the thread itself.  Leases are taken in any order,  *)
(* the code sorts them.                                                     *)
(****************************************************************************)
EXTENDS Integers, FiniteSets

CONSTANTS
    Branches,   \* the branches a run may fork
    Root,       \* the thread of the conversation itself
    Parent,     \* the thread each branch is forked from and returns to
    Requests,   \* what serves requests: one at a time, each in its own process
    Nobody,     \* a lease that is free
    Dead,       \* a lease whose holder crashed and that has not run out
    Watched,    \* bound: the branches talked in and merged, others are only forked
    MaxTurns,   \* bound on the turns of a thread
    MaxMishaps, \* bound on the mishaps: lapsed and raced threads, imports cut off
    MaxImports, \* bound on the imports of one branch into one thread
    Calm        \* bound: no lease runs out twice under living holders, and
                \* nobody crashes while the lease of a dead holder lasts

Threads == Branches \cup {Root}

ASSUME RootAssumption == Root \notin Branches
ASSUME ParentAssumption == Parent \in [Branches -> Threads]
ASSUME HolderAssumption == Nobody \notin Requests /\ Dead \notin Requests /\ Nobody # Dead
ASSUME BoundAssumption ==
    /\ Watched \subseteq Branches /\ Calm \in BOOLEAN
    /\ {MaxTurns, MaxMishaps, MaxImports} \subseteq Nat

VARIABLES
    status,   \* branch_status of each branch, "none" until it is forked
    stored,   \* the proposal in the repository: the turns it covers
    graph,    \* the latest checkpoint of each thread
    holder,   \* who holds the lease of each thread
    op,       \* what each request is doing
    made,     \* history: how often each branch was imported into a thread
    lapsed,   \* history: the threads whose lease ran out under a living holder
    raced,    \* history: the threads a run without a lease wrote to in between
    cut       \* history: the branches whose import was not followed by its closing

vars == <<status, stored, graph, holder, op, made, lapsed, raced, cut>>

Statuses == {"none", "active", "preparing", "awaiting", "merged", "discarded"}
Kinds == {"turn", "run", "prepare", "approve", "discard", "fork"}
NoProposal == -1
Proposals == NoProposal .. MaxTurns

(* What a checkpoint has of the thread's own: the turns said (those of the  *)
(* root are not counted), the proposal shown and the conclusions imported.  *)
Checkpoints == [said: 0 .. MaxTurns, shown: Proposals, queue: SUBSET Branches]
Fresh == [said |-> 0, shown |-> NoProposal, queue |-> {}]

(* seen is the checkpoint a request works on, back the one that a rollback  *)
(* of a run restores.                                                       *)
Idle == [pc |-> "idle", kind |-> "turn", at |-> Root, to |-> Root,
         seen |-> Fresh, back |-> Fresh]

Ops == [pc: {"idle", "creating", "locking", "locked", "starting", "running", "wrote",
             "generating", "saved", "showing", "discarding", "importing", "closing"},
        kind: Kinds, at: Threads, to: Threads, seen: Checkpoints, back: Checkpoints]

(* The status a thread is checked by: the root has none and is writable.    *)
StatusOf(t) == IF t \in Branches THEN status[t] ELSE "active"

(* Variant: the thread an import goes to is not locked.                     *)
Wants_BranchOnly(o) == {o.at}

(* The threads a request locks: that of the branch and, to import, the      *)
(* target as well.                                                          *)
Wants(o) == {o.at, o.to}

(* A request that is past its locks; a run of the /v2 routes takes none.    *)
Inside(o) == o.pc \notin {"idle", "creating", "locking"} /\ o.kind # "run"

Init ==
    /\ status = [b \in Branches |-> "none"]
    /\ stored = [b \in Branches |-> NoProposal]
    /\ graph = [t \in Threads |-> Fresh]
    /\ holder = [t \in Threads |-> Nobody]
    /\ op = [r \in Requests |-> Idle]
    /\ made = [t \in Threads |-> [b \in Branches |-> 0]]
    /\ lapsed = {}
    /\ raced = {}
    /\ cut = {}

----------------------------------------------------------------------------
(* Requests come in                                                         *)

Start(r, kind, at, to, pc, seen) ==
    /\ op[r].pc = "idle"
    /\ op' = [op EXCEPT ![r] = [pc |-> pc, kind |-> kind, at |-> at, to |-> to,
                                seen |-> seen, back |-> seen]]
    /\ UNCHANGED <<status, stored, graph, holder, made, lapsed, raced, cut>>

(* fork_branch reads the status of the parent without its lease; the thread *)
(* of the branch is new, so its own lease is free.                          *)
AskFork(r, b) ==
    /\ status[b] = "none"
    /\ StatusOf(Parent[b]) \notin {"none", "merged"}
    /\ \A other \in Requests : op[other].pc = "creating" => op[other].at # b
    /\ Start(r, "fork", b, b, "creating", Fresh)

(* A chat turn, a compaction, a branch action: whether the thread may be    *)
(* written is looked up before its lease is taken.                          *)
AskTurn(r, t) ==
    /\ t \in Watched \cup {Root}
    /\ StatusOf(t) \notin {"none", "merged"}
    /\ Start(r, "turn", t, t, "locking", Fresh)

(* A streamed, resumed or blocking run of the /v2 routes: the same look at  *)
(* the status, the checkpoint a rollback would restore, and no lease.       *)
AskRun(r, t) ==
    /\ t \in Watched \cup {Root}
    /\ StatusOf(t) \notin {"none", "merged"}
    /\ Start(r, "run", t, t, "starting", graph[t])

AskPrepare(r, b) ==
    /\ b \in Watched
    /\ status[b] # "none"
    /\ Start(r, "prepare", b, b, "locking", Fresh)

(* The record is read for the target of an approved decision; its status is *)
(* read again under the leases.                                             *)
AskApply(r, b) ==
    /\ b \in Watched
    /\ status[b] # "none"
    /\ \/ \E to \in {Root, Parent[b]} : Start(r, "approve", b, to, "locking", Fresh)
       \/ Start(r, "discard", b, b, "locking", Fresh)

----------------------------------------------------------------------------
(* The leases                                                               *)

Released(r) == [t \in Threads |-> IF holder[t] = r THEN Nobody ELSE holder[t]]

(* A request ends, refused, failed or done, and its leases are released.    *)
End(r) ==
    /\ op' = [op EXCEPT ![r] = Idle]
    /\ holder' = Released(r)

Goto(r, pc) == op' = [op EXCEPT ![r].pc = pc]

(* A request goes on with the checkpoint c.                                 *)
GotoWith(r, pc, c) == op' = [op EXCEPT ![r].pc = pc, ![r].seen = c]

(* A request takes its next lease.                                          *)
Lock(r, t) ==
    /\ op[r].pc = "locking"
    /\ t \in Wants(op[r])
    /\ holder[t] = Nobody
    /\ holder' = [holder EXCEPT ![t] = r]
    /\ IF \A u \in Wants(op[r]) : u = t \/ holder[u] = r
          THEN Goto(r, "locked")
          ELSE op' = op
    /\ UNCHANGED <<status, stored, graph, made, lapsed, raced, cut>>

(* The thread is busy: ConcurrentTurnError, what was locked is let go.      *)
LockRefused(r) ==
    /\ op[r].pc = "locking"
    /\ \E t \in Wants(op[r]) : holder[t] \notin {Nobody, r}
    /\ End(r)
    /\ UNCHANGED <<status, stored, graph, made, lapsed, raced, cut>>

(* The bound on mishaps: what the leases do not protect from.               *)
Bearable ==
    Cardinality(lapsed') + Cardinality(raced') + Cardinality(cut') <= MaxMishaps

(* A lease that was not refreshed in time runs out; its holder goes on.     *)
Lapse(r, t) ==
    /\ Inside(op[r])
    /\ holder[t] = r
    /\ Calm => t \notin lapsed
    /\ holder' = [holder EXCEPT ![t] = Nobody]
    /\ lapsed' = lapsed \cup {t}
    /\ UNCHANGED <<status, stored, graph, op, made, raced, cut>>
    /\ Bearable

----------------------------------------------------------------------------
(* Forks, turns and runs                                                    *)

CreateFork(r) ==
    LET b == op[r].at IN
    /\ op[r].pc = "creating"
    /\ status' = [status EXCEPT ![b] = "active"]
    /\ End(r)
    /\ UNCHANGED <<stored, graph, made, lapsed, raced, cut>>

(* The graph loads the latest checkpoint and works on it: under the lease   *)
(* for a turn, at any time for a run.                                       *)
Load(r) ==
    LET t == op[r].at IN
    /\ \/ op[r].pc = "locked" /\ op[r].kind = "turn"
       \/ op[r].pc = "starting"
    /\ t \in Branches => graph[t].said < MaxTurns
    /\ GotoWith(r, "running", graph[t])
    /\ UNCHANGED <<status, stored, graph, holder, made, lapsed, raced, cut>>

(* A checkpoint of t with a turn added.                                     *)
Turned(t, c) == IF t \in Branches THEN [c EXCEPT !.said = @ + 1] ELSE c

(* A write that no lease covers: somebody holds the lease of the thread, or *)
(* the thread is not as the run knows it.                                   *)
Raced(r, known) ==
    IF op[r].kind = "run" /\ (holder[op[r].at] \in Requests \/ graph[op[r].at] \notin known)
       THEN raced \cup {op[r].at}
       ELSE raced

(* The graph commits what it works on, with its turn; whether a turn still  *)
(* has its lease is asked when it has ended.                                *)
WriteTurn(r) ==
    LET t == op[r].at
        c == Turned(t, op[r].seen)
    IN
    /\ op[r].pc = "running"
    /\ graph' = [graph EXCEPT ![t] = c]
    /\ GotoWith(r, "wrote", c)
    /\ raced' = Raced(r, {op[r].seen})
    /\ UNCHANGED <<status, stored, holder, made, lapsed, cut>>
    /\ Bearable

(* It commits again after each of its steps.                                *)
WriteAgain(r) ==
    LET t == op[r].at IN
    /\ op[r].pc = "wrote"
    /\ graph' = [graph EXCEPT ![t] = op[r].seen]
    /\ raced' = Raced(r, {op[r].seen})
    /\ UNCHANGED <<status, stored, holder, op, made, lapsed, cut>>
    /\ Bearable

(* A turn or a run is done, fails or is cancelled.                          *)
Finish(r) ==
    /\ op[r].pc \in {"running", "wrote"}
    /\ End(r)
    /\ UNCHANGED <<status, stored, graph, made, lapsed, raced, cut>>

(* A run that was asked to be undone is: the checkpoint captured for it is  *)
(* the latest one again.  Its graph may go on for a while.                  *)
RollBack(r) ==
    LET t == op[r].at IN
    /\ op[r].kind = "run" /\ op[r].pc # "idle"
    /\ graph' = [graph EXCEPT ![t] = op[r].back]
    /\ raced' = Raced(r, {op[r].back, Turned(t, op[r].back)})
    /\ UNCHANGED <<status, stored, holder, op, made, lapsed, cut>>
    /\ Bearable

----------------------------------------------------------------------------
(* prepare_merge_proposal                                                   *)

(* Variant: a merged branch is prepared again.                              *)
Open_Merged(r) ==
    LET b == op[r].at IN
    /\ op[r].pc = "locked" /\ op[r].kind = "prepare"
    /\ status' = [status EXCEPT ![b] = "preparing"]
    /\ GotoWith(r, "generating", graph[b])
    /\ UNCHANGED <<stored, graph, holder, made, lapsed, raced, cut>>

(* Variant: the preparation does not wait for the lease of the branch.      *)
Open_Unlocked(r) ==
    LET b == op[r].at IN
    /\ op[r].pc \in {"locking", "locked"} /\ op[r].kind = "prepare"
    /\ status[b] # "merged"
    /\ status' = [status EXCEPT ![b] = "preparing"]
    /\ GotoWith(r, "generating", graph[b])
    /\ UNCHANGED <<stored, graph, holder, made, lapsed, raced, cut>>

(* Refused once merged; else the branch is read and marked.                 *)
Open(r) ==
    LET b == op[r].at IN
    /\ op[r].pc = "locked" /\ op[r].kind = "prepare"
    /\ status[b] # "merged"
    /\ status' = [status EXCEPT ![b] = "preparing"]
    /\ GotoWith(r, "generating", graph[b])
    /\ UNCHANGED <<stored, graph, holder, made, lapsed, raced, cut>>

SaveProposal(r) ==
    LET b == op[r].at IN
    /\ op[r].pc = "generating"
    /\ stored' = [stored EXCEPT ![b] = op[r].seen.said]
    /\ Goto(r, "saved")
    /\ UNCHANGED <<status, graph, holder, made, lapsed, raced, cut>>

AwaitReview(r) ==
    LET b == op[r].at IN
    /\ op[r].pc = "saved"
    /\ status' = [status EXCEPT ![b] = "awaiting"]
    /\ Goto(r, "showing")
    /\ UNCHANGED <<stored, graph, holder, made, lapsed, raced, cut>>

ShowProposal(r) ==
    LET b == op[r].at IN
    /\ op[r].pc = "showing"
    /\ graph' = [graph EXCEPT ![b].shown = op[r].seen.said]
    /\ End(r)
    /\ UNCHANGED <<status, stored, made, lapsed, raced, cut>>

(* The generator or a write fails: the branch is "active" again, whatever   *)
(* it was before; what was stored stays.                                    *)
PrepareFails(r) ==
    LET b == op[r].at IN
    /\ op[r].pc \in {"generating", "saved", "showing"}
    /\ status' = [status EXCEPT ![b] = "active"]
    /\ End(r)
    /\ UNCHANGED <<stored, graph, made, lapsed, raced, cut>>

(* Writing the findings to the branch's memory fails, which nothing         *)
(* catches: the branch stays "preparing".                                   *)
FindingsFail(r) ==
    /\ op[r].pc = "generating"
    /\ End(r)
    /\ UNCHANGED <<status, stored, graph, made, lapsed, raced, cut>>

----------------------------------------------------------------------------
(* apply_merge_decision                                                     *)

(* The graph's proposal is taken, else the repository's.                    *)
Reviewed(b) == IF graph[b].shown # NoProposal THEN graph[b].shown ELSE stored[b]

(* Variant: the status is not looked at again under the leases.             *)
Decide_Unchecked(r) ==
    LET b == op[r].at IN
    /\ op[r].pc = "locked" /\ op[r].kind \in {"approve", "discard"}
    /\ Reviewed(b) # NoProposal
    /\ graph' = [graph EXCEPT ![b].shown = Reviewed(b)]
    /\ stored' \in {stored, [stored EXCEPT ![b] = Reviewed(b)]}
    /\ Goto(r, IF op[r].kind = "approve" THEN "importing" ELSE "discarding")
    /\ UNCHANGED <<status, holder, made, lapsed, raced, cut>>

(* A decision on a branch that is not merged and has a proposal, whatever   *)
(* else its status is.  Edits of the reviewer are stored as well.           *)
Decide(r) ==
    LET b == op[r].at IN
    /\ op[r].pc = "locked" /\ op[r].kind \in {"approve", "discard"}
    /\ status[b] # "merged" /\ Reviewed(b) # NoProposal
    /\ graph' = [graph EXCEPT ![b].shown = Reviewed(b)]
    /\ stored' \in {stored, [stored EXCEPT ![b] = Reviewed(b)]}
    /\ Goto(r, IF op[r].kind = "approve" THEN "importing" ELSE "discarding")
    /\ UNCHANGED <<status, holder, made, lapsed, raced, cut>>

Discard(r) ==
    LET b == op[r].at IN
    /\ op[r].pc = "discarding"
    /\ status' = [status EXCEPT ![b] = "discarded"]
    /\ End(r)
    /\ UNCHANGED <<stored, graph, made, lapsed, raced, cut>>

(* The conclusion is appended to the target's messages and merge queue; the *)
(* target's own status is not looked at.                                    *)
Import(r) ==
    LET b == op[r].at
        t == op[r].to
    IN
    /\ op[r].pc = "importing"
    /\ made[t][b] < MaxImports
    /\ graph' = [graph EXCEPT ![t].queue = @ \cup {b}]
    /\ made' = [made EXCEPT ![t][b] = @ + 1]
    /\ Goto(r, "closing")
    /\ UNCHANGED <<status, stored, holder, lapsed, raced, cut>>

Close(r) ==
    LET b == op[r].at IN
    /\ op[r].pc = "closing"
    /\ status' = [status EXCEPT ![b] = "merged"]
    /\ End(r)
    /\ UNCHANGED <<stored, graph, made, lapsed, raced, cut>>

----------------------------------------------------------------------------
(* Failures                                                                 *)

(* The branches whose import a request leaves behind unclosed.              *)
Unclosed(r) == IF op[r].pc = "closing" THEN {op[r].at} ELSE {}

(* A locked request is refused (merged, no proposal, no summary, a          *)
(* contradicted answer) or one of its steps fails: nothing is undone.  The  *)
(* preparation has its own ways to fail.                                    *)
Fails(r) ==
    /\ op[r].pc \in {"locked", "starting", "discarding", "importing", "closing"}
    /\ cut' = cut \cup Unclosed(r)
    /\ End(r)
    /\ UNCHANGED <<status, stored, graph, made, lapsed, raced>>
    /\ Bearable

(* The process of a request dies; its leases have still to run out.         *)
Crash(r) ==
    /\ op[r].pc # "idle"
    /\ Calm => \A t \in Threads : holder[t] # Dead
    /\ cut' = cut \cup Unclosed(r)
    /\ op' = [op EXCEPT ![r] = Idle]
    /\ holder' = [t \in Threads |-> IF holder[t] = r THEN Dead ELSE holder[t]]
    /\ UNCHANGED <<status, stored, graph, made, lapsed, raced>>
    /\ Bearable

RunOut(t) ==
    /\ holder[t] = Dead
    /\ holder' = [holder EXCEPT ![t] = Nobody]
    /\ UNCHANGED <<status, stored, graph, op, made, lapsed, raced, cut>>

Next ==
    \/ \E r \in Requests :
          \/ \E b \in Branches : AskFork(r, b) \/ AskPrepare(r, b) \/ AskApply(r, b)
          \/ \E t \in Threads : AskTurn(r, t) \/ AskRun(r, t) \/ Lock(r, t) \/ Lapse(r, t)
          \/ LockRefused(r) \/ CreateFork(r)
          \/ Load(r) \/ WriteTurn(r) \/ WriteAgain(r) \/ Finish(r) \/ RollBack(r)
          \/ Open(r) \/ SaveProposal(r) \/ AwaitReview(r) \/ ShowProposal(r)
          \/ PrepareFails(r) \/ FindingsFail(r)
          \/ Decide(r) \/ Discard(r) \/ Import(r) \/ Close(r)
          \/ Fails(r) \/ Crash(r)
    \/ \E t \in Threads : RunOut(t)

Spec == Init /\ [][Next]_vars

----------------------------------------------------------------------------
(* Types.                                                                   *)
TypeOK ==
    /\ status \in [Branches -> Statuses]
    /\ stored \in [Branches -> Proposals]
    /\ graph \in [Threads -> Checkpoints]
    /\ holder \in [Threads -> Requests \cup {Nobody, Dead}]
    /\ op \in [Requests -> Ops]
    /\ made \in [Threads -> [Branches -> 0 .. MaxImports]]
    /\ lapsed \subseteq Threads
    /\ raced \subseteq Threads
    /\ cut \subseteq Branches

(* The threads a branch was imported into.                                  *)
Into(b) == {t \in Threads : made[t][b] > 0}

(* A branch is imported once, however many approve it, and whichever        *)
(* targets they name, unless an import was cut off before the branch was    *)
(* closed or the branch's lease ran out: apply_merge_decision.              *)
ImportedOnce ==
    \A b \in Branches \ (cut \cup lapsed) :
        \A t, u \in Into(b) : t = u /\ made[t][b] = 1

(* What was imported is closed, or being closed by the request that         *)
(* imported it: no decision, proposal or failure opens it again.            *)
ImportedIsClosed ==
    \A b \in Branches \ (cut \cup lapsed) :
        Into(b) # {} =>
            \/ status[b] = "merged"
            \/ \E r \in Requests : op[r].pc = "closing" /\ op[r].at = b

(* A merged branch has its conclusion in the merge queue of a thread it was *)
(* imported into, whatever turns, runs, imports, crashes and failures came  *)
(* before and after, unless that thread's lease ran out under a request or  *)
(* a run without a lease wrote over what others had done there.             *)
MergedMeansImported ==
    \A b \in Branches : status[b] = "merged" =>
        \E t \in Into(b) : b \in graph[t].queue \/ t \in lapsed \cup raced

(* A merged branch stays merged as long as its lease never ran out under a  *)
(* request.                                                                 *)
MergedForever ==
    [][\A b \in Branches :
          (status[b] = "merged" /\ b \notin lapsed) => status'[b] = "merged"]_vars

(* A branch that comes up for review has a stored proposal that covers      *)
(* every turn it has had: turns wait for the lease the proposal is made     *)
(* under.  A run does not, and a branch it wrote to meanwhile is raced.     *)
ReviewIsCurrent ==
    [][\A b \in Branches :
          (status[b] # "awaiting" /\ status'[b] = "awaiting" /\ b \notin lapsed \cup raced)
              => stored'[b] = graph'[b].said]_vars

(* A merged branch is read-only: it has no further turn and takes no        *)
(* further import.                                                          *)
MergedIsReadOnly ==
    [][\A b \in Branches :
          status[b] = "merged" =>
              graph'[b].said = graph[b].said /\ graph'[b].queue = graph[b].queue]_vars
=============================================================================
