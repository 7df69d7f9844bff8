-------------------------- MODULE ThreadTurnLease --------------------------
(***************************************************************************)
(* The lease a turn takes on its conversation threads: the lock table      *)
(* (services/coordination_postgres.py, coordination_memory.py), the        *)
(* ThreadTurnLeaseManager with its heartbeat thread                        *)
(* (services/thread_turn_lease.py) and the code that runs under it: chat   *)
(* turns hold one thread and ask raise_if_lost before they answer, branch  *)
(* operations hold several and do not ask (services/branches/service.py).  *)
(*                                                                         *)
(* Time is relative: left is what remains until expires_at, due what       *)
(* remains until the heartbeat thread of a lease wakes up.                 *)
(***************************************************************************)
EXTENDS Integers

CONSTANTS
  Threads,     \* thread ids, as numbers so that they can be sorted
  Turns,       \* turns; each draws a fresh owner per lease, so it is its owner
  Wants,       \* [Turns -> SUBSET Threads]: the threads a turn locks
  Asking,      \* the turns that call raise_if_lost (chat turns, compaction)
  NoTurn,      \* no owner
  TTL,         \* runtime_thread_lock_ttl_seconds, in ticks
  Interval     \* heartbeat interval, in ticks

ASSUME LeaseAssumption ==
  /\ Threads \subseteq Nat
  /\ Wants \in [Turns -> SUBSET Threads]
  /\ \A t \in Turns : Wants[t] # {}
  /\ Asking \subseteq Turns
  /\ NoTurn \notin Turns
  /\ TTL \in Nat /\ Interval \in Nat \ {0}
  /\ Interval < TTL        \* min(TTL / 3, configured)

VARIABLES
  lock,     \* the lock table: [Threads -> [owner, left]]
  turn,     \* [Turns -> [pc, held, lost, refused]]
  due,      \* [Turns -> [Threads -> ticks to the next heartbeat]]
  late      \* history: a process stood still while a heartbeat of it was due

vars == <<lock, turn, due, late>>

PCs == {"acquiring", "working", "answering", "closing", "done", "dead"}
LockState == [owner : Turns \union {NoTurn}, left : 0..TTL]
TurnState == [pc : PCs, held : SUBSET Threads, lost : SUBSET Threads, refused : BOOLEAN]

Unlocked == [owner |-> NoTurn, left |-> 0]

Init ==
  /\ lock = [n \in Threads |-> Unlocked]
  /\ turn = [t \in Turns |-> [pc |-> "acquiring", held |-> {}, lost |-> {}, refused |-> FALSE]]
  /\ due = [t \in Turns |-> [n \in Threads |-> 0]]
  /\ late = FALSE

-----------------------------------------------------------------------------
(* The lock table. *)

\* acquire_thread_turn succeeds: nobody's, expired, or already this owner's.
Obtainable(t, n) == lock[n].owner \in {NoTurn, t} \/ lock[n].left = 0

\* heartbeat_thread_turn succeeds.
Renewable(t, n) == lock[n].owner = t /\ lock[n].left > 0

SetTurn(t, s) == turn' = [turn EXCEPT ![t] = s]

\* Variant: the threads are entered as the set yields them.
NextThread_AnyOrder(t, n) == n \in Wants[t] \ turn[t].held

\* The next thread _thread_write_leases enters: they are sorted.
NextThread(t, n) ==
  /\ n \in Wants[t] \ turn[t].held
  /\ \A m \in Wants[t] \ turn[t].held : n <= m

Acquire(t, n) ==
  /\ turn[t].pc = "acquiring"
  /\ NextThread(t, n)
  /\ Obtainable(t, n)
  /\ lock' = [lock EXCEPT ![n] = [owner |-> t, left |-> TTL]]
  /\ due' = [due EXCEPT ![t][n] = Interval]
  /\ SetTurn(t, [pc |-> IF Wants[t] = turn[t].held \union {n} THEN "working" ELSE "acquiring",
                 held |-> turn[t].held \union {n}, lost |-> turn[t].lost, refused |-> FALSE])
  /\ UNCHANGED late

\* ConcurrentTurnError; the leases taken so far are closed on the way out.
Refused(t, n) ==
  /\ turn[t].pc = "acquiring"
  /\ NextThread(t, n)
  /\ ~Obtainable(t, n)
  /\ SetTurn(t, [pc |-> "closing", held |-> turn[t].held, lost |-> turn[t].lost,
                 refused |-> TRUE])
  /\ UNCHANGED <<lock, due, late>>

-----------------------------------------------------------------------------
(* The heartbeat thread of a lease. *)

\* Variant: the thread outlives a turn that died without closing its lease.
Beating_AfterDeath(t, n) ==
  /\ turn[t].pc \in {"acquiring", "working", "answering", "dead"}
  /\ n \in turn[t].held \ turn[t].lost

\* It runs from acquire to close, or until it has reported the lease lost.
Beating(t, n) ==
  /\ turn[t].pc \in {"acquiring", "working", "answering"}
  /\ n \in turn[t].held \ turn[t].lost

\* heartbeat_thread_turn on a row that is this owner's.
Renewal(n) == [lock EXCEPT ![n].left = TTL]

MarkLost(t, n) == SetTurn(t, [turn[t] EXCEPT !.lost = @ \union {n}])

HeartbeatOnce(t, n) ==
  /\ Beating(t, n) /\ due[t][n] = 0
  /\ \/ /\ Renewable(t, n)
        /\ lock' = Renewal(n)
        /\ due' = [due EXCEPT ![t][n] = Interval]
        /\ UNCHANGED <<turn, late>>
     \/ /\ ~Renewable(t, n)
        /\ MarkLost(t, n)
        /\ UNCHANGED <<lock, due, late>>

\* Variant: a heartbeat that raises is logged and tried again later.
HeartbeatRaises_Retries(t, n) ==
  /\ Beating(t, n) /\ due[t][n] = 0
  /\ due' = [due EXCEPT ![t][n] = Interval]
  /\ UNCHANGED <<lock, turn, late>>

\* The backend raises: the lease counts as lost although the row may live on.
HeartbeatRaises(t, n) ==
  /\ Beating(t, n) /\ due[t][n] = 0
  /\ MarkLost(t, n)
  /\ UNCHANGED <<lock, due, late>>

-----------------------------------------------------------------------------
(* The turn. *)

\* Variant: nobody asks.
BodyEnds_NotAsked(t) ==
  /\ turn[t].pc = "working"
  /\ SetTurn(t, [turn[t] EXCEPT !.pc = "answering"])
  /\ UNCHANGED <<lock, due, late>>

\* The body ends.  A turn that asks raises when a lease was reported lost and
\* otherwise goes on to answer; a turn that does not ask goes on regardless.
BodyEnds(t) ==
  /\ turn[t].pc = "working"
  /\ SetTurn(t, [turn[t] EXCEPT !.pc = IF t \in Asking /\ turn[t].lost # {}
                                       THEN "closing" ELSE "answering"])
  /\ UNCHANGED <<lock, due, late>>

\* The body raises, or the answer is out: the with statement closes the leases.
Leave(t) ==
  /\ turn[t].pc \in {"working", "answering"}
  /\ SetTurn(t, [turn[t] EXCEPT !.pc = "closing"])
  /\ UNCHANGED <<lock, due, late>>

\* release_thread_turn deletes the row of this owner.
Freed(t, n) == IF lock[n].owner = t THEN [lock EXCEPT ![n] = Unlocked] ELSE lock

Closed(t, n) == SetTurn(t, [turn[t] EXCEPT !.held = @ \ {n}])

\* close: stop the heartbeat, release the row; last taken, first released.
Release(t, n) ==
  /\ turn[t].pc = "closing"
  /\ n \in turn[t].held /\ \A m \in turn[t].held : m <= n
  /\ lock' = Freed(t, n)
  /\ Closed(t, n)
  /\ UNCHANGED <<due, late>>

\* release_thread_turn raises: the lease is dropped, the row left to expire.
ReleaseRaises(t, n) ==
  /\ turn[t].pc = "closing"
  /\ n \in turn[t].held /\ \A m \in turn[t].held : m <= n
  /\ Closed(t, n)
  /\ UNCHANGED <<lock, due, late>>

Done(t) ==
  /\ turn[t].pc = "closing" /\ turn[t].held = {}
  /\ SetTurn(t, [turn[t] EXCEPT !.pc = "done"])
  /\ UNCHANGED <<lock, due, late>>

Crash(t) ==
  /\ turn[t].pc \notin {"done", "dead"}
  /\ SetTurn(t, [turn[t] EXCEPT !.pc = "dead"])
  /\ UNCHANGED <<lock, due, late>>

Elapse(n) == IF n = 0 THEN 0 ELSE n - 1

\* Time passes, also while the process of a due heartbeat stands still.
Tick ==
  /\ \E n \in Threads : lock[n].left > 0
  /\ late' = (late \/ \E t \in Turns, n \in Threads : Beating(t, n) /\ due[t][n] = 0)
  /\ lock' = [n \in Threads |-> [owner |-> lock[n].owner, left |-> Elapse(lock[n].left)]]
  /\ due' = [t \in Turns |-> [n \in Threads |-> Elapse(due[t][n])]]
  /\ UNCHANGED turn

-----------------------------------------------------------------------------
TurnStep(t) ==
  \/ \E n \in Threads : Acquire(t, n) \/ Refused(t, n) \/ Release(t, n) \/ ReleaseRaises(t, n)
  \/ BodyEnds(t) \/ Leave(t) \/ Done(t)
Beat(t) == \E n \in Threads : HeartbeatOnce(t, n) \/ HeartbeatRaises(t, n)

Terminated ==
  /\ \A t \in Turns : turn[t].pc \in {"done", "dead"}
  /\ \A n \in Threads : lock[n].left = 0
  /\ UNCHANGED vars

Next == (\E t \in Turns : TurnStep(t) \/ Beat(t) \/ Crash(t)) \/ Tick \/ Terminated

Spec == Init /\ [][Next]_vars

\* Bodies end, with statements unwind, heartbeat threads run and time passes.
Fairness ==
  /\ WF_vars(Tick)
  /\ \A t \in Turns : WF_vars(TurnStep(t)) /\ WF_vars(Beat(t))
FairSpec == Spec /\ Fairness

-----------------------------------------------------------------------------
(* Properties. *)

TypeOK ==
  /\ lock \in [Threads -> LockState]
  /\ turn \in [Turns -> TurnState]
  /\ due \in [Turns -> [Threads -> 0..Interval]]
  /\ late \in BOOLEAN

\* Unless a process stalled, a lease that has not been reported lost is in the
\* table: when raise_if_lost lets a turn answer, no other turn has taken any
\* of its threads (ThreadTurnLeaseLost: "Raised when a turn loses ownership of
\* its thread lock mid-flight").
NotLostMeansHeld ==
  ~late => \A t \in Turns, n \in Threads : Beating(t, n) => Renewable(t, n)

\* So a turn that asks answers only for threads that are its own.
AnsweredByOwner == ~late =>
  \A t \in Asking :
    turn[t].pc = "working" /\ turn'[t].pc = "answering" =>
      \A n \in Wants[t] : Renewable(t, n)
AnswersAreExclusive == [][AnsweredByOwner]_vars

\* A lock whose lease is good is taken away by nobody: it only goes when its
\* owner releases it, also when the owner is late and the row changed hands.
OnlyOwnerReleases ==
  \A n \in Threads, t \in Turns :
    lock[n].owner = t /\ lock[n].left > 0 /\ lock'[n].owner # t =>
      turn[t].pc = "closing" /\ n \in turn[t].held /\ n \notin turn'[t].held
LiveLockRespected == [][OnlyOwnerReleases]_vars

\* The leases keep the contract of TurnLock: a lock is the row while it lives,
\* and a turn trusts the leases it keeps alive.
Lock == INSTANCE TurnLock WITH
  owner <- [n \in Threads |-> IF lock[n].left > 0 THEN lock[n].owner ELSE NoTurn],
  trusts <- [t \in Turns |-> {n \in Threads : Beating(t, n)}],
  stalled <- late
KeepsLock == Lock!Spec

\* The time of a lock goes up only for a turn that keeps its lease alive: the
\* lock of a turn that closed, died or was told it is lost runs out.
ForTheLiving ==
  \A n \in Threads : lock'[n].left > lock[n].left =>
    \E t \in Turns : lock'[n].owner = t /\ turn'[t].pc \in {"acquiring", "working", "answering"}
                                       /\ n \in turn'[t].held \ turn'[t].lost
OrphansRunOut == [][ForTheLiving]_vars

\* Turns that lock several threads do not all refuse one another: because the
\* threads are taken in sorted order, when every turn is through some turn got
\* what it wanted.
SomeTurnRuns ==
  (\A t \in Turns : turn[t].pc = "done") => \E t \in Turns : ~turn[t].refused

\* No thread stays locked for ever, whatever happened to its owner.
ThreadsComeFree == \A n \in Threads : lock[n].left > 0 ~> lock[n].left = 0
=============================================================================
