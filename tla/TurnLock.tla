------------------------------ MODULE TurnLock ------------------------------
(***************************************************************************)
(* What a thread turn lease promises, without clocks, rows and heartbeats: *)
(* a lock that a turn may come to doubt.  A turn that trusts its lock has  *)
(* it for itself; a lock is only taken back from a turn that doubts it,    *)
(* until a process has stalled, and then from anyone.                      *)
(***************************************************************************)
CONSTANTS Threads, Turns, NoTurn

VARIABLES
  owner,    \* [Threads -> Turns \union {NoTurn}]
  trusts,   \* [Turns -> SUBSET Threads]: the locks a turn acts on
  stalled   \* a process stood still long enough for any lock to run out

lockVars == <<owner, trusts, stalled>>

Init ==
  /\ owner = [n \in Threads |-> NoTurn]
  /\ trusts = [t \in Turns |-> {}]
  /\ stalled = FALSE

\* A lock nobody has is given to a turn.
Grant(t, n) ==
  /\ owner[n] = NoTurn
  /\ owner' = [owner EXCEPT ![n] = t]
  /\ trusts' = [trusts EXCEPT ![t] = @ \union {n}]
  /\ UNCHANGED stalled

\* A turn is told that locks are lost, is done with them, or dies.
Doubt(t, N) ==
  /\ trusts' = [trusts EXCEPT ![t] = @ \ N]
  /\ UNCHANGED <<owner, stalled>>

\* Locks come free, because they are released or run out.
Free(N) ==
  /\ owner' = [n \in Threads |-> IF n \in N THEN NoTurn ELSE owner[n]]
  /\ stalled \/ \A t \in Turns, n \in N : n \in trusts[t] => owner[n] # t
  /\ UNCHANGED <<trusts, stalled>>

\* A process stands still, and locks run out meanwhile.
Stall(N) ==
  /\ owner' = [n \in Threads |-> IF n \in N THEN NoTurn ELSE owner[n]]
  /\ stalled' = TRUE
  /\ UNCHANGED trusts

Next ==
  \/ \E t \in Turns, n \in Threads : Grant(t, n)
  \/ \E t \in Turns, N \in SUBSET Threads : Doubt(t, N)
  \/ \E N \in SUBSET Threads : Free(N) \/ Stall(N)

Spec == Init /\ [][Next]_lockVars

\* Who trusts a lock has it, and no two turns trust the same one.
Exclusive ==
  ~stalled => \A t \in Turns, n \in Threads : n \in trusts[t] => owner[n] = t
=============================================================================
