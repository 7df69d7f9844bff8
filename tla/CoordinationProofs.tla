------------------------- MODULE CoordinationProofs -------------------------
(***************************************************************************)
(* What the coordination backends (services/coordination_*.py) guarantee   *)
(* to turns and requests: the thread turn leases for any number of turns   *)
(* and threads and any lease lengths, the rate limit for any limit and     *)
(* window.  The two share no state.                                        *)
(***************************************************************************)
EXTENDS ThreadTurnLease, RateLimit, FiniteSetTheorems, SequenceTheorems, TLAPS

(***************************************************************************)
(* The thread turn leases.                                                 *)
(***************************************************************************)

\* Threads are taken in order, and all of them before the body starts.
HeldOK ==
  \A t \in Turns :
    /\ turn[t].held \subseteq Wants[t]
    /\ turn[t].pc = "acquiring" =>
         \A n \in turn[t].held, m \in Wants[t] \ turn[t].held : n < m
    /\ turn[t].pc \in {"working", "answering"} => turn[t].held = Wants[t]

LiveRow(t, n) == lock[n].owner = t /\ lock[n].left > 0

\* While a turn acquires, the live rows it owns are the leases it holds.
RowsHeld ==
  \A t \in Turns, n \in Threads :
    LiveRow(t, n) /\ turn[t].pc = "acquiring" => n \in turn[t].held

\* A refused turn is on its way out.
RefusedLeaves ==
  \A t \in Turns : turn[t].refused => turn[t].pc \in {"closing", "done", "dead"}

\* u got all it wanted, or is still acquiring and holds a thread beyond
\* every live row of t.
AheadOf(u, t) ==
  /\ ~turn[u].refused
  /\ \/ turn[u].pc # "acquiring"
     \/ \E m \in turn[u].held : \A n \in Threads : LiveRow(t, n) => n < m

\* Some turn that was not refused is ahead of every turn that was.
SomeoneAhead == \A t \in Turns : turn[t].refused => \E u \in Turns : AheadOf(u, t)

\* The heartbeat of a lease that is not lost comes before the lease ends.
LeaseOutlivesDue ==
  ~late => \A t \in Turns, n \in Threads :
    Beating(t, n) => lock[n].owner = t /\ lock[n].left >= due[t][n] + (TTL - Interval)

IInv == /\ TypeOK /\ HeldOK /\ RowsHeld /\ RefusedLeaves /\ SomeoneAhead
        /\ LeaseOutlivesDue
-----------------------------------------------------------------------------
LEMMA InitIInv == Init => IInv
<1> SUFFICES ASSUME Init  PROVE IInv
  OBVIOUS
<1>1. /\ lock = [n \in Threads |-> Unlocked]
      /\ turn = [t \in Turns |-> [pc |-> "acquiring", held |-> {}, lost |-> {}, refused |-> FALSE]]
      /\ due = [t \in Turns |-> [n \in Threads |-> 0]]
  BY DEF Init
<1>2. \A t \in Turns : turn[t].pc = "acquiring" /\ turn[t].held = {} /\ ~turn[t].refused
  BY <1>1
<1>3. \A t \in Turns, n \in Threads : ~LiveRow(t, n)
  <2> SUFFICES ASSUME NEW t \in Turns, NEW n \in Threads, LiveRow(t, n)  PROVE FALSE
    OBVIOUS
  <2>1. lock[n] = Unlocked  BY <1>1
  <2>2. lock[n].left = 0  BY <2>1 DEF Unlocked
  <2> QED  BY <2>2 DEF LiveRow
<1>4. TypeOK
  <2>1. lock \in [Threads -> LockState]  BY <1>1, LeaseAssumption DEF LockState, Unlocked
  <2>2. turn \in [Turns -> TurnState]  BY <1>1 DEF TurnState, PCs
  <2>3. due \in [Turns -> [Threads -> 0..Interval]]  BY <1>1, LeaseAssumption
  <2>4. late \in BOOLEAN  BY DEF Init
  <2> QED  BY <2>1, <2>2, <2>3, <2>4 DEF TypeOK
<1>5. HeldOK /\ RowsHeld /\ RefusedLeaves /\ SomeoneAhead
  BY <1>2, <1>3 DEF HeldOK, RowsHeld, RefusedLeaves, SomeoneAhead
<1>6. LeaseOutlivesDue  BY <1>2 DEF LeaseOutlivesDue, Beating
<1> QED  BY <1>4, <1>5, <1>6 DEF IInv

\* A step that brings no row to life, refuses nobody and takes no thread.
LEMMA QuietStep ==
  ASSUME IInv,
         \A t \in Turns, n \in Threads : LiveRow(t, n)' => LiveRow(t, n),
         \A t \in Turns :
           /\ turn'[t].refused = turn[t].refused
           /\ \/ turn'[t].pc = turn[t].pc /\ turn'[t].held = turn[t].held
              \/ turn'[t].pc \in {"closing", "done", "dead"}
              \/ turn[t].pc = "working" /\ turn'[t].pc = "answering"
  PROVE  RowsHeld' /\ RefusedLeaves' /\ SomeoneAhead'
<1>1. RowsHeld'  BY DEF IInv, RowsHeld
<1>2. RefusedLeaves'  BY DEF IInv, RefusedLeaves
<1>3. ASSUME NEW t \in Turns, NEW u \in Turns, AheadOf(u, t)  PROVE AheadOf(u, t)'
  BY <1>3 DEF AheadOf
<1>4. SomeoneAhead'  BY <1>3 DEF IInv, SomeoneAhead
<1> QED  BY <1>1, <1>2, <1>4

\* A step in which whoever still beats keeps its row and its due time.
LEMMA BeatingKept ==
  ASSUME IInv, UNCHANGED late,
         \A t \in Turns, n \in Threads :
           Beating(t, n)' => /\ Beating(t, n) /\ due'[t][n] = due[t][n]
                             /\ lock[n].owner = t => lock'[n] = lock[n]
  PROVE  LeaseOutlivesDue'
BY DEF IInv, LeaseOutlivesDue

-----------------------------------------------------------------------------
(* Acquiring. *)

LEMMA AcquireOK ==
  ASSUME IInv, NEW t \in Turns, NEW n \in Threads, Acquire(t, n)  PROVE IInv'
<1> DEFINE pc == IF Wants[t] = turn[t].held \union {n} THEN "working" ELSE "acquiring"
<1>1. /\ lock \in [Threads -> LockState] /\ turn \in [Turns -> TurnState]
      /\ due \in [Turns -> [Threads -> 0..Interval]]
      /\ lock' = [lock EXCEPT ![n] = [owner |-> t, left |-> TTL]]
      /\ due' = [due EXCEPT ![t][n] = Interval]
      /\ turn[t].pc = "acquiring" /\ n \in Wants[t] \ turn[t].held
      /\ \A m \in Wants[t] \ turn[t].held : n <= m
      /\ Obtainable(t, n) /\ late' = late /\ late \in BOOLEAN
  BY DEF IInv, TypeOK, Acquire, NextThread
<1>2. /\ turn' \in [Turns -> TurnState]
      /\ \A u \in Turns \ {t} : turn'[u] = turn[u]
      /\ turn'[t].pc = pc /\ turn'[t].held = turn[t].held \union {n}
      /\ turn'[t].lost = turn[t].lost /\ ~turn'[t].refused
  <2> DEFINE s == [pc |-> pc, held |-> turn[t].held \union {n}, lost |-> turn[t].lost, refused |-> FALSE]
  <2>1. turn' = [turn EXCEPT ![t] = s]  BY DEF Acquire, SetTurn
  <2>2. pc \in PCs  BY DEF PCs
  <2>3. s \in TurnState  BY <1>1, <2>2 DEF TurnState
  <2> QED  BY <1>1, <2>1, <2>3
<1>3. TypeOK'
  <2>1. [owner |-> t, left |-> TTL] \in LockState  BY LeaseAssumption DEF LockState
  <2>2. lock' \in [Threads -> LockState]  BY <1>1, <2>1
  <2>3. Interval \in 0..Interval  BY LeaseAssumption
  <2>4. [due[t] EXCEPT ![n] = Interval] \in [Threads -> 0..Interval]  BY <1>1, <2>3
  <2>5. due' \in [Turns -> [Threads -> 0..Interval]]  BY <1>1, <2>4
  <2> QED  BY <1>1, <1>2, <2>2, <2>5 DEF TypeOK
<1> HIDE DEF pc
<1>4. HeldOK'
  <2>1. \A m \in turn[t].held : m < n  BY <1>1 DEF IInv, HeldOK
  <2>2. turn[t].held \subseteq Wants[t]  BY DEF IInv, HeldOK
  <2>4. \A m \in Wants[t] : m \in Nat  BY LeaseAssumption
  <2>3. ASSUME NEW m \in Wants[t] \ (turn[t].held \union {n})  PROVE n < m
    <3>1. m \in Nat /\ n \in Nat /\ m # n  BY <1>1, <2>4
    <3>2. n <= m  BY <1>1
    <3> QED  BY <3>1, <3>2
  <2>5. \A l \in turn[t].held \union {n}, m \in Wants[t] \ (turn[t].held \union {n}) : l < m
    BY <1>1, <2>1, <2>2, <2>3, <2>4
  <2>6. turn'[t].pc = "working" => turn'[t].held = Wants[t]  BY <1>2 DEF pc
  <2>7. turn'[t].pc \in {"working", "acquiring"}  BY <1>2 DEF pc
  <2> QED  BY <1>1, <1>2, <2>2, <2>5, <2>6, <2>7 DEF IInv, HeldOK
<1>5. \A u \in Turns, m \in Threads : LiveRow(u, m)' => LiveRow(u, m) \/ (u = t /\ m = n)
  BY <1>1 DEF LiveRow
<1>6. RowsHeld'  BY <1>1, <1>2, <1>5 DEF IInv, RowsHeld
<1>7. ~turn[t].refused  BY <1>1 DEF IInv, RefusedLeaves
<1>8. RefusedLeaves'  BY <1>2, <1>7 DEF IInv, RefusedLeaves
<1>9. SomeoneAhead'
  <2>1. ASSUME NEW v \in Turns, turn[v].refused, NEW u \in Turns, AheadOf(u, v)  PROVE AheadOf(u, v)'
    BY <1>1, <1>2, <1>5, <1>7, <2>1 DEF AheadOf
  <2> QED  BY <1>2, <1>7, <2>1 DEF IInv, SomeoneAhead
<1>10. LeaseOutlivesDue'
  <2> SUFFICES ASSUME ~late', NEW u \in Turns, NEW m \in Threads, Beating(u, m)'
               PROVE lock'[m].owner = u /\ lock'[m].left >= due'[u][m] + (TTL - Interval)
    BY DEF LeaseOutlivesDue
  <2>1. CASE u = t /\ m = n  BY <1>1, <2>1, LeaseAssumption
  <2>2. CASE ~(u = t /\ m = n)
    <3>1. Beating(u, m)  BY <1>1, <1>2, <2>2 DEF Beating
    <3>2. lock[m].owner = u /\ lock[m].left >= due[u][m] + (TTL - Interval)
      BY <1>1, <3>1 DEF IInv, LeaseOutlivesDue
    <3>3. due[u][m] \in 0..Interval /\ TTL - Interval > 0  BY <1>1, LeaseAssumption
    <3>4. lock[m].left > 0  BY <1>1, <3>2, <3>3, LeaseAssumption DEF LockState
    <3>5. m # n  BY <1>1, <2>2, <3>2, <3>4, LeaseAssumption DEF Obtainable
    <3> QED  BY <1>1, <3>2, <3>5
  <2> QED  BY <2>1, <2>2
<1> QED  BY <1>3, <1>4, <1>6, <1>8, <1>9, <1>10 DEF IInv

\* Whoever owns the row that refuses a turn, or somebody ahead of the owner
\* when that was refused too, is ahead of the refused turn.
LEMMA RefusedOK ==
  ASSUME IInv, NEW t \in Turns, NEW n \in Threads, Refused(t, n)  PROVE IInv'
<1>1. /\ lock \in [Threads -> LockState] /\ turn \in [Turns -> TurnState]
      /\ turn[t].pc = "acquiring" /\ n \in Wants[t] \ turn[t].held
      /\ ~Obtainable(t, n) /\ UNCHANGED <<lock, due, late>>
  BY DEF IInv, TypeOK, Refused, NextThread
<1>2. /\ turn' \in [Turns -> TurnState]
      /\ \A u \in Turns \ {t} : turn'[u] = turn[u]
      /\ turn'[t].pc = "closing" /\ turn'[t].held = turn[t].held /\ turn'[t].refused
  <2> DEFINE s == [pc |-> "closing", held |-> turn[t].held, lost |-> turn[t].lost, refused |-> TRUE]
  <2>1. turn' = [turn EXCEPT ![t] = s]  BY DEF Refused, SetTurn
  <2>2. s \in TurnState  BY <1>1 DEF TurnState, PCs
  <2> QED  BY <1>1, <2>1, <2>2
<1>3. TypeOK'  BY <1>1, <1>2 DEF IInv, TypeOK
<1>4. HeldOK'  BY <1>2 DEF IInv, HeldOK
<1>5. \A u \in Turns, m \in Threads : LiveRow(u, m)' <=> LiveRow(u, m)
  BY <1>1 DEF LiveRow
<1>6. RowsHeld'  BY <1>2, <1>5 DEF IInv, RowsHeld
<1>7. RefusedLeaves'  BY <1>2 DEF IInv, RefusedLeaves
<1>8. SomeoneAhead'
  <2>1. PICK v \in Turns : v # t /\ LiveRow(v, n)
    BY <1>1 DEF Obtainable, LockState, LiveRow
  <2>2. \A m \in turn[t].held : m < n  BY <1>1 DEF IInv, HeldOK
  <2>3. /\ \A m \in Threads : LiveRow(t, m) => m < n
        /\ n \in Nat /\ turn[t].held \subseteq Nat
    BY <1>1, <2>2, LeaseAssumption DEF IInv, RowsHeld, HeldOK
  <2>4. \E u \in Turns \ {t} :
          ~turn[u].refused /\ (turn[u].pc # "acquiring" \/ \E m \in turn[u].held : n <= m)
    <3>1. CASE ~turn[v].refused
      BY <2>1, <2>3, <3>1 DEF IInv, RowsHeld
    <3>2. CASE turn[v].refused
      <4>1. PICK u \in Turns : AheadOf(u, v)  BY <3>2 DEF IInv, SomeoneAhead
      <4>2. ~turn[u].refused /\ (turn[u].pc # "acquiring" \/ \E m \in turn[u].held : n < m)
        BY <2>1, <4>1 DEF AheadOf
      <4>3. u # t  BY <1>1, <2>2, <2>3, <4>2
      <4>4. turn[u].held \subseteq Nat  BY <1>1, LeaseAssumption DEF TurnState
      <4> QED  BY <2>3, <4>2, <4>3, <4>4
    <3> QED  BY <3>1, <3>2
  <2>5. PICK u \in Turns \ {t} :
          ~turn[u].refused /\ (turn[u].pc # "acquiring" \/ \E m \in turn[u].held : n <= m)
    BY <2>4
  <2>6. turn[u].held \subseteq Nat /\ Threads \subseteq Nat  BY <1>1, LeaseAssumption DEF TurnState
  <2>7. AheadOf(u, t)'
    BY <1>2, <1>5, <2>3, <2>5, <2>6 DEF AheadOf
  <2>8. ASSUME NEW x \in Turns, x # t, turn[x].refused  PROVE \E y \in Turns : AheadOf(y, x)'
    <3>1. PICK y \in Turns : AheadOf(y, x)  BY <2>8 DEF IInv, SomeoneAhead
    <3>2. CASE y # t  BY <1>2, <1>5, <3>1, <3>2 DEF AheadOf
    <3>3. CASE y = t
      <4>1. PICK m \in turn[t].held : \A l \in Threads : LiveRow(x, l) => l < m
        BY <1>1, <3>1, <3>3 DEF AheadOf
      <4>2. \A l \in Threads : LiveRow(x, l) => l < n  BY <2>2, <2>3, <2>6, <4>1
      <4>3. AheadOf(u, x)'  BY <1>2, <1>5, <2>3, <2>5, <2>6, <4>2 DEF AheadOf
      <4> QED  BY <4>3
    <3> QED  BY <3>2, <3>3
  <2> QED  BY <1>2, <2>7, <2>8 DEF SomeoneAhead
<1>9. LeaseOutlivesDue'  BY <1>1, <1>2, BeatingKept DEF Beating
<1> QED  BY <1>3, <1>4, <1>6, <1>7, <1>8, <1>9 DEF IInv

-----------------------------------------------------------------------------
(* The other steps. *)

\* Only the program counter of t moves.
LEMMA MoveOK ==
  ASSUME turn \in [Turns -> TurnState], NEW t \in Turns, NEW p \in PCs,
         SetTurn(t, [turn[t] EXCEPT !.pc = p])
  PROVE  /\ turn' \in [Turns -> TurnState]
         /\ \A u \in Turns \ {t} : turn'[u] = turn[u]
         /\ turn'[t].pc = p /\ turn'[t].held = turn[t].held /\ turn'[t].lost = turn[t].lost
         /\ turn'[t].refused = turn[t].refused
<1> DEFINE s == [turn[t] EXCEPT !.pc = p]
<1>1. /\ s.pc = p /\ s.held = turn[t].held /\ s.lost = turn[t].lost
      /\ s.refused = turn[t].refused /\ s \in TurnState
  BY DEF TurnState
<1>2. turn' = [turn EXCEPT ![t] = s]  BY DEF SetTurn
<1> HIDE DEF s
<1> QED  BY <1>1, <1>2

\* A turn moves towards its end.
LEMMA WithdrawOK ==
  ASSUME IInv, NEW t \in Turns, NEW p \in PCs, SetTurn(t, [turn[t] EXCEPT !.pc = p]),
         \/ p \in {"closing", "done", "dead"}
         \/ turn[t].pc = "working" /\ p = "answering",
         UNCHANGED <<lock, due, late>>
  PROVE  IInv'
<1>1. turn \in [Turns -> TurnState]  BY DEF IInv, TypeOK
<1>2. /\ turn' \in [Turns -> TurnState]
      /\ \A u \in Turns \ {t} : turn'[u] = turn[u]
      /\ turn'[t].pc = p /\ turn'[t].held = turn[t].held /\ turn'[t].lost = turn[t].lost
      /\ turn'[t].refused = turn[t].refused
  BY <1>1, MoveOK
<1>3. TypeOK'  BY <1>2 DEF IInv, TypeOK
<1>4. HeldOK'  BY <1>2 DEF IInv, HeldOK
<1>5. \A u \in Turns, m \in Threads : LiveRow(u, m)' => LiveRow(u, m)  BY DEF LiveRow
<1>6. RowsHeld' /\ RefusedLeaves' /\ SomeoneAhead'  BY <1>2, <1>5, QuietStep
<1>7. LeaseOutlivesDue'  BY <1>2, BeatingKept DEF Beating
<1> QED  BY <1>3, <1>4, <1>6, <1>7 DEF IInv

\* The heartbeat thread reports a lease lost.
LEMMA LostOK ==
  ASSUME IInv, NEW t \in Turns, NEW n \in Threads, MarkLost(t, n), UNCHANGED <<lock, due, late>>
  PROVE  IInv'
<1> DEFINE s == [turn[t] EXCEPT !.lost = @ \union {n}]
<1>1. turn \in [Turns -> TurnState]  BY DEF IInv, TypeOK
<1>2. /\ s.pc = turn[t].pc /\ s.held = turn[t].held /\ s.lost = turn[t].lost \union {n}
      /\ s.refused = turn[t].refused /\ s \in TurnState
  BY <1>1 DEF TurnState
<1>3. turn' = [turn EXCEPT ![t] = s]  BY DEF MarkLost, SetTurn
<1> HIDE DEF s
<1>4. /\ turn' \in [Turns -> TurnState]
      /\ \A u \in Turns \ {t} : turn'[u] = turn[u]
      /\ turn'[t].pc = turn[t].pc /\ turn'[t].held = turn[t].held
      /\ turn'[t].lost = turn[t].lost \union {n} /\ turn'[t].refused = turn[t].refused
  BY <1>1, <1>2, <1>3
<1>5. TypeOK'  BY <1>4 DEF IInv, TypeOK
<1>6. HeldOK'  BY <1>4 DEF IInv, HeldOK
<1>7. \A u \in Turns, m \in Threads : LiveRow(u, m)' => LiveRow(u, m)  BY DEF LiveRow
<1>8. RowsHeld' /\ RefusedLeaves' /\ SomeoneAhead'  BY <1>4, <1>7, QuietStep
<1>9. LeaseOutlivesDue'  BY <1>4, BeatingKept DEF Beating
<1> QED  BY <1>5, <1>6, <1>8, <1>9 DEF IInv

\* A lease is closed; its row goes, or is left to expire.
LEMMA ClosedOK ==
  ASSUME IInv, NEW t \in Turns, NEW n \in Threads, turn[t].pc = "closing", Closed(t, n),
         lock' \in {lock, Freed(t, n)}, UNCHANGED <<due, late>>
  PROVE  IInv'
<1> DEFINE s == [turn[t] EXCEPT !.held = @ \ {n}]
<1>1. turn \in [Turns -> TurnState] /\ lock \in [Threads -> LockState]  BY DEF IInv, TypeOK
<1>2. /\ s.pc = turn[t].pc /\ s.held = turn[t].held \ {n} /\ s.lost = turn[t].lost
      /\ s.refused = turn[t].refused /\ s \in TurnState
  BY <1>1 DEF TurnState
<1>3. turn' = [turn EXCEPT ![t] = s]  BY DEF Closed, SetTurn
<1> HIDE DEF s
<1>4. /\ turn' \in [Turns -> TurnState]
      /\ \A u \in Turns \ {t} : turn'[u] = turn[u]
      /\ turn'[t].pc = "closing" /\ turn'[t].held = turn[t].held \ {n}
      /\ turn'[t].lost = turn[t].lost /\ turn'[t].refused = turn[t].refused
  BY <1>1, <1>2, <1>3
<1>5. /\ lock' \in [Threads -> LockState]
      /\ \A m \in Threads : lock'[m] = lock[m] \/ (lock[m].owner = t /\ lock'[m] = Unlocked)
  <2>1. Unlocked \in LockState  BY LeaseAssumption DEF Unlocked, LockState
  <2> QED  BY <1>1, <2>1 DEF Freed
<1>6. TypeOK'  BY <1>4, <1>5 DEF IInv, TypeOK
<1>7. HeldOK'
  <2>1. turn'[t].held \subseteq Wants[t]  BY <1>4 DEF IInv, HeldOK
  <2> QED  BY <1>4, <2>1 DEF IInv, HeldOK
<1>8. \A u \in Turns, m \in Threads : LiveRow(u, m)' => LiveRow(u, m)
  BY <1>5, LeaseAssumption DEF LiveRow, Unlocked
<1>9. RowsHeld' /\ RefusedLeaves' /\ SomeoneAhead'  BY <1>4, <1>8, QuietStep
<1>10. \A u \in Turns, m \in Threads :
         Beating(u, m)' => Beating(u, m) /\ (lock[m].owner = u => lock'[m] = lock[m])
  BY <1>4, <1>5 DEF Beating
<1>11. LeaseOutlivesDue'  BY <1>10, BeatingKept
<1> QED  BY <1>6, <1>7, <1>9, <1>11 DEF IInv

\* A heartbeat renews the row of a lease.
LEMMA RenewalOK ==
  ASSUME IInv, NEW t \in Turns, NEW n \in Threads, Renewable(t, n), lock' = Renewal(n),
         due' = [due EXCEPT ![t][n] = Interval], UNCHANGED <<turn, late>>
  PROVE  IInv'
<1>1. /\ lock \in [Threads -> LockState] /\ due \in [Turns -> [Threads -> 0..Interval]]
      /\ TTL \in 0..TTL /\ Interval \in 0..Interval
  BY LeaseAssumption DEF IInv, TypeOK
<1>2. /\ lock' \in [Threads -> LockState]
      /\ lock'[n].owner = lock[n].owner /\ lock'[n].left = TTL
      /\ \A m \in Threads \ {n} : lock'[m] = lock[m]
  BY <1>1 DEF Renewal, LockState
<1>3. /\ due' \in [Turns -> [Threads -> 0..Interval]] /\ due'[t][n] = Interval
      /\ \A u \in Turns, m \in Threads : ~(u = t /\ m = n) => due'[u][m] = due[u][m]
  <2>1. [due[t] EXCEPT ![n] = Interval] \in [Threads -> 0..Interval]  BY <1>1
  <2> QED  BY <1>1, <2>1
<1>4. TypeOK'  BY <1>2, <1>3 DEF IInv, TypeOK
<1>5. HeldOK'  BY DEF IInv, HeldOK
<1>6. \A u \in Turns, m \in Threads : LiveRow(u, m)' => LiveRow(u, m)
  BY <1>2 DEF LiveRow, Renewable
<1>7. RowsHeld' /\ RefusedLeaves' /\ SomeoneAhead'  BY <1>6, QuietStep
<1>8. LeaseOutlivesDue'
  <2> SUFFICES ASSUME ~late', NEW u \in Turns, NEW m \in Threads, Beating(u, m)'
               PROVE lock'[m].owner = u /\ lock'[m].left >= due'[u][m] + (TTL - Interval)
    BY DEF LeaseOutlivesDue
  <2>1. Beating(u, m)  BY DEF Beating
  <2>2. lock[m].owner = u /\ lock[m].left >= due[u][m] + (TTL - Interval)
    BY <2>1 DEF IInv, LeaseOutlivesDue
  <2>3. CASE m = n
    <3>1. u = t  BY <2>2, <2>3 DEF Renewable
    <3> QED  BY <1>2, <1>3, <2>2, <2>3, <3>1, LeaseAssumption
  <2>4. CASE m # n  BY <1>2, <1>3, <2>2, <2>4
  <2> QED  BY <2>3, <2>4
<1> QED  BY <1>4, <1>5, <1>7, <1>8 DEF IInv

LEMMA ElapseOK ==
  ASSUME NEW b \in Nat, NEW n \in 0..b
  PROVE  /\ Elapse(n) \in 0..b
         /\ n > 0 => Elapse(n) = n - 1
         /\ n = 0 => Elapse(n) = 0
BY DEF Elapse

\* Time passes.
LEMMA TickOK == ASSUME IInv, Tick  PROVE IInv'
<1>1. /\ lock \in [Threads -> LockState] /\ due \in [Turns -> [Threads -> 0..Interval]]
      /\ UNCHANGED turn
  BY DEF IInv, TypeOK, Tick
<1>2. \A n \in Threads : /\ lock'[n].owner = lock[n].owner /\ lock'[n].left = Elapse(lock[n].left)
                         /\ lock[n].left \in 0..TTL /\ lock[n].owner \in Turns \union {NoTurn}
  <2> SUFFICES ASSUME NEW n \in Threads
               PROVE  /\ lock'[n].owner = lock[n].owner /\ lock'[n].left = Elapse(lock[n].left)
                      /\ lock[n].left \in 0..TTL /\ lock[n].owner \in Turns \union {NoTurn}
    OBVIOUS
  <2>1. lock[n] \in LockState  BY <1>1
  <2>2. lock'[n] = [owner |-> lock[n].owner, left |-> Elapse(lock[n].left)]  BY DEF Tick
  <2> QED  BY <2>1, <2>2 DEF LockState
<1>3. \A n \in Threads : /\ Elapse(lock[n].left) \in 0..TTL
                         /\ lock[n].left > 0 => Elapse(lock[n].left) = lock[n].left - 1
                         /\ lock[n].left = 0 => Elapse(lock[n].left) = 0
  BY <1>2, ElapseOK, LeaseAssumption
<1>4. \A t \in Turns, n \in Threads : due[t][n] \in 0..Interval /\ due'[t][n] = Elapse(due[t][n])
  BY <1>1 DEF Tick
<1>5. \A t \in Turns, n \in Threads : /\ Elapse(due[t][n]) \in 0..Interval
                                      /\ due[t][n] > 0 => Elapse(due[t][n]) = due[t][n] - 1
  BY <1>4, ElapseOK, LeaseAssumption
<1>6. TypeOK'
  <2>1. \A n \in Threads : [owner |-> lock[n].owner, left |-> Elapse(lock[n].left)] \in LockState
    BY <1>2, <1>3 DEF LockState
  <2>2. lock' \in [Threads -> LockState]  BY <2>1 DEF Tick
  <2>3. due' \in [Turns -> [Threads -> 0..Interval]]  BY <1>5 DEF Tick
  <2>4. late' \in BOOLEAN
    <3>1. late \in BOOLEAN  BY DEF IInv, TypeOK
    <3> QED  BY <3>1, Zenon DEF Tick
  <2>5. turn' \in [Turns -> TurnState]  BY <1>1 DEF IInv, TypeOK
  <2> QED  BY <2>2, <2>3, <2>4, <2>5 DEF TypeOK
<1>7. HeldOK'  BY <1>1 DEF IInv, HeldOK
<1>8. \A u \in Turns, m \in Threads : LiveRow(u, m)' => LiveRow(u, m)
  <2> SUFFICES ASSUME NEW u \in Turns, NEW m \in Threads, LiveRow(u, m)'  PROVE LiveRow(u, m)
    OBVIOUS
  <2>1. lock[m].owner = u /\ Elapse(lock[m].left) > 0  BY <1>2 DEF LiveRow
  <2>2. lock[m].left \in 0..TTL /\ lock[m].left # 0  BY <1>2, <1>3, <2>1
  <2> QED  BY <2>1, <2>2, LeaseAssumption DEF LiveRow
<1>9. RowsHeld' /\ RefusedLeaves' /\ SomeoneAhead'  BY <1>1, <1>8, QuietStep
<1>10. LeaseOutlivesDue'
  <2> SUFFICES ASSUME ~late', NEW u \in Turns, NEW m \in Threads, Beating(u, m)'
               PROVE lock'[m].owner = u /\ lock'[m].left >= due'[u][m] + (TTL - Interval)
    BY DEF LeaseOutlivesDue
  <2>1. Beating(u, m)  BY <1>1 DEF Beating
  <2>9. ~late  BY Zenon DEF Tick
  <2>2. lock[m].owner = u /\ lock[m].left >= due[u][m] + (TTL - Interval)
    BY <2>1, <2>9 DEF IInv, LeaseOutlivesDue
  <2>3. due[u][m] > 0
    <3>1. ~late /\ due[u][m] # 0  BY <2>1 DEF Tick
    <3> QED  BY <1>4, <3>1
  <2>4. TTL \in Nat /\ Interval \in Nat /\ Interval < TTL  BY LeaseAssumption
  <2>5. lock[m].left \in Int /\ due[u][m] \in Int  BY <1>2, <1>4
  <2>6. lock[m].left > 0  BY <2>2, <2>3, <2>4, <2>5
  <2>7. lock'[m].left = lock[m].left - 1 /\ lock'[m].owner = u  BY <1>2, <1>3, <2>2, <2>6
  <2>8. due'[u][m] = due[u][m] - 1  BY <1>4, <1>5, <2>3
  <2> QED  BY <2>2, <2>4, <2>5, <2>7, <2>8
<1> QED  BY <1>6, <1>7, <1>9, <1>10 DEF IInv

\* Nothing changes.
LEMMA StutterOK == ASSUME IInv, UNCHANGED vars  PROVE IInv'
BY DEF vars, IInv, TypeOK, HeldOK, RowsHeld, LiveRow, RefusedLeaves, SomeoneAhead, AheadOf,
   LeaseOutlivesDue, Beating

\* Who goes on to answer and asks was not told of a lost lease.
LEMMA AskedFirst ==
  ASSUME IInv, [Next]_vars, NEW t \in Asking, turn[t].pc = "working", turn'[t].pc = "answering"
  PROVE  turn[t].lost = {}
<1>1. turn \in [Turns -> TurnState] /\ t \in Turns  BY LeaseAssumption DEF IInv, TypeOK
<1>2. \A u \in Turns : \A s : SetTurn(u, s) => turn'[t] = IF u = t THEN s ELSE turn[t]
  BY <1>1 DEF SetTurn
<1>3. \A n \in Threads : ~MarkLost(t, n) /\ ~Closed(t, n)
  <2> SUFFICES ASSUME NEW n \in Threads, MarkLost(t, n) \/ Closed(t, n)  PROVE turn'[t].pc = turn[t].pc
    OBVIOUS
  <2> QED  BY <1>1 DEF MarkLost, Closed, SetTurn, TurnState
<1>4. turn'[t] # turn[t]  OBVIOUS
<1>5. BodyEnds(t)
  <2>1. ASSUME NEW u \in Turns, NEW n \in Threads  PROVE ~Acquire(u, n) /\ ~Refused(u, n)
    BY <1>1, <1>2, <1>4 DEF Acquire, Refused
  <2>2. ASSUME NEW u \in Turns, NEW n \in Threads
        PROVE  ~HeartbeatOnce(u, n) /\ ~HeartbeatRaises(u, n)
    BY <1>2, <1>3, <1>4 DEF HeartbeatOnce, HeartbeatRaises, MarkLost
  <2>3. ASSUME NEW u \in Turns, NEW n \in Threads  PROVE ~Release(u, n) /\ ~ReleaseRaises(u, n)
    BY <1>2, <1>3, <1>4 DEF Release, ReleaseRaises, Closed
  <2>4. ASSUME NEW u \in Turns, Leave(u) \/ Done(u) \/ Crash(u)  PROVE FALSE
    <3>1. PICK p \in {"closing", "done", "dead"} : SetTurn(u, [turn[u] EXCEPT !.pc = p])
      BY <2>4 DEF Leave, Done, Crash
    <3>2. u = t  BY <1>2, <1>4, <3>1
    <3> QED  BY <1>1, <3>1, <3>2 DEF SetTurn, TurnState
  <2>5. ASSUME NEW u \in Turns, BodyEnds(u)  PROVE u = t
    BY <1>2, <1>4, <2>5 DEF BodyEnds
  <2>6. ~Tick /\ ~Terminated /\ ~UNCHANGED vars  BY <1>4 DEF Tick, Terminated, vars
  <2> QED  BY <2>1, <2>2, <2>3, <2>4, <2>5, <2>6 DEF Next, TurnStep, Beat
<1> QED  BY <1>1, <1>5 DEF BodyEnds, SetTurn, TurnState

LEMMA NextIInv == IInv /\ [Next]_vars => IInv'
<1> SUFFICES ASSUME IInv, [Next]_vars  PROVE IInv'
  OBVIOUS
<1>1. ASSUME NEW t \in Turns, NEW n \in Threads,
             Acquire(t, n) \/ Refused(t, n) \/ Release(t, n) \/ ReleaseRaises(t, n)
      PROVE  IInv'
  <2>1. CASE Acquire(t, n)  BY <2>1, AcquireOK
  <2>2. CASE Refused(t, n)  BY <2>2, RefusedOK
  <2>3. CASE Release(t, n)  BY <2>3, ClosedOK DEF Release
  <2>4. CASE ReleaseRaises(t, n)  BY <2>4, ClosedOK DEF ReleaseRaises
  <2> QED  BY <1>1, <2>1, <2>2, <2>3, <2>4
<1>2. ASSUME NEW t \in Turns, BodyEnds(t) \/ Leave(t) \/ Done(t) \/ Crash(t)  PROVE IInv'
  <2>1. CASE BodyEnds(t)  BY <2>1, WithdrawOK DEF BodyEnds, PCs
  <2>2. CASE Leave(t)  BY <2>2, WithdrawOK DEF Leave, PCs
  <2>3. CASE Done(t)  BY <2>3, WithdrawOK DEF Done, PCs
  <2>4. CASE Crash(t)  BY <2>4, WithdrawOK DEF Crash, PCs
  <2> QED  BY <1>2, <2>1, <2>2, <2>3, <2>4
<1>3. ASSUME NEW t \in Turns, NEW n \in Threads, HeartbeatOnce(t, n) \/ HeartbeatRaises(t, n)
      PROVE  IInv'
  BY <1>3, RenewalOK, LostOK DEF HeartbeatOnce, HeartbeatRaises
<1>4. CASE Tick  BY <1>4, TickOK
<1>5. CASE UNCHANGED vars  BY <1>5, StutterOK
<1> QED  BY <1>1, <1>2, <1>3, <1>4, <1>5 DEF Next, TurnStep, Beat, Terminated

\* The inductive invariant holds always.
THEOREM Invariance == Spec => []IInv
BY InitIInv, NextIInv, PTL DEF Spec

-----------------------------------------------------------------------------
(* What follows from it. *)

\* Every lock, turn and timer keeps its type.
THEOREM TypeCorrect == Spec => []TypeOK
<1>1. IInv => TypeOK  BY DEF IInv
<1> QED  BY <1>1, Invariance, PTL

\* Unless a process stalled, a lease that is not reported lost is in the table.
THEOREM NotLostHeld == Spec => []NotLostMeansHeld
<1>1. IInv => NotLostMeansHeld
  <2> SUFFICES ASSUME IInv, ~late, NEW t \in Turns, NEW n \in Threads, Beating(t, n)
               PROVE  Renewable(t, n)
    BY DEF NotLostMeansHeld
  <2>1. lock[n].owner = t /\ lock[n].left >= due[t][n] + (TTL - Interval)
    BY DEF IInv, LeaseOutlivesDue
  <2>2. due[t][n] \in 0..Interval /\ lock[n].left \in 0..TTL
    BY DEF IInv, TypeOK, LockState
  <2>3. TTL \in Nat /\ Interval \in Nat /\ Interval < TTL  BY LeaseAssumption
  <2> QED  BY <2>1, <2>2, <2>3 DEF Renewable
<1> QED  BY <1>1, Invariance, PTL

\* Unless a process stalled, a turn that asks answers only while all its threads are its own.
THEOREM AnswersExclusive == Spec => AnswersAreExclusive
<1>1. IInv /\ NotLostMeansHeld /\ [Next]_vars => [AnsweredByOwner]_vars
  <2> SUFFICES ASSUME IInv, NotLostMeansHeld, [Next]_vars, ~late, NEW t \in Asking,
                      turn[t].pc = "working", turn'[t].pc = "answering", NEW n \in Wants[t]
               PROVE  Renewable(t, n)
    BY DEF AnsweredByOwner
  <2>1. t \in Turns /\ n \in Threads  BY LeaseAssumption
  <2>2. turn[t].held = Wants[t]  BY <2>1 DEF IInv, HeldOK
  <2>3. turn[t].lost = {}  BY <2>1, AskedFirst
  <2>4. Beating(t, n)  BY <2>2, <2>3 DEF Beating
  <2> QED  BY <2>1, <2>4 DEF NotLostMeansHeld
<1> QED  BY <1>1, Invariance, NotLostHeld, PTL DEF Spec, AnswersAreExclusive

\* A live lock goes only when its owner releases it.
THEOREM LocksRespected == Spec => LiveLockRespected
<1>1. IInv /\ [Next]_vars => [OnlyOwnerReleases]_vars
  <2> SUFFICES ASSUME IInv, [Next]_vars, NEW n \in Threads, NEW t \in Turns,
                      lock[n].owner = t, lock[n].left > 0, lock'[n].owner # t
               PROVE  turn[t].pc = "closing" /\ n \in turn[t].held /\ n \notin turn'[t].held
    BY DEF OnlyOwnerReleases
  <2>1. /\ lock \in [Threads -> LockState] /\ turn \in [Turns -> TurnState]
        /\ t # NoTurn /\ lock[n].left # 0
    BY LeaseAssumption DEF IInv, TypeOK, LockState
  <2>2. ASSUME NEW u \in Turns, NEW m \in Threads, Acquire(u, m)  PROVE FALSE
    BY <2>1, <2>2 DEF Acquire, Obtainable
  <2>3. ASSUME NEW u \in Turns, NEW m \in Threads, Renewable(u, m), lock' = Renewal(m)  PROVE FALSE
    BY <2>1, <2>3 DEF Renewal, LockState
  <2>4. ASSUME NEW u \in Turns, NEW m \in Threads, Release(u, m)
        PROVE  turn[t].pc = "closing" /\ n \in turn[t].held /\ n \notin turn'[t].held
    <3>1. u = t /\ m = n  BY <2>1, <2>4 DEF Release, Freed
    <3>2. turn'[t] = [turn[t] EXCEPT !.held = @ \ {n}]  BY <2>1, <2>4, <3>1 DEF Release, Closed, SetTurn
    <3>3. turn'[t].held = turn[t].held \ {n}  BY <2>1, <3>2 DEF TurnState
    <3> QED  BY <2>4, <3>1, <3>3 DEF Release
  <2>5. CASE Tick  BY <2>5 DEF Tick
  <2>6. CASE UNCHANGED lock  BY <2>6
  <2>7. UNCHANGED vars \/ Terminated => UNCHANGED lock  BY DEF vars, Terminated
  <2>8. ASSUME NEW u \in Turns, Beat(u), lock' # lock
        PROVE  \E m \in Threads : Renewable(u, m) /\ lock' = Renewal(m)
    BY <2>8 DEF Beat, HeartbeatOnce, HeartbeatRaises
  <2>9. ASSUME NEW u \in Turns, TurnStep(u) \/ Crash(u), lock' # lock
        PROVE  \E m \in Threads : Acquire(u, m) \/ Release(u, m)
    BY <2>9 DEF TurnStep, Crash, Refused, ReleaseRaises, BodyEnds, Leave, Done
  <2> QED  BY <2>2, <2>3, <2>4, <2>5, <2>6, <2>7, <2>8, <2>9 DEF Next
<1> QED  BY <1>1, Invariance, PTL DEF Spec, LiveLockRespected

\* Sorted acquisition: turns do not all refuse one another.
THEOREM OneRuns == ASSUME Turns # {}  PROVE Spec => []SomeTurnRuns
<1>1. IInv => SomeTurnRuns
  BY DEF IInv, SomeTurnRuns, SomeoneAhead, AheadOf
<1> QED  BY <1>1, Invariance, PTL

-----------------------------------------------------------------------------
(* The leases keep the contract of a lock. *)

Going == {"acquiring", "working", "answering"}

\* Only a lease that a turn holds is reported lost to it.
LostHeld == \A t \in Turns : turn[t].pc \in Going => turn[t].lost \subseteq turn[t].held

\* What a step does to the entries of turns: one takes a thread, is told that
\* a lease is lost, goes on, or is on its way out; the rest stays.
TurnMove(t, s) ==
  \/ turn[t].pc = "acquiring" /\ s.pc \in Going /\ s.lost = turn[t].lost
     /\ \E n \in Threads : s.held = turn[t].held \union {n}
  \/ s.pc = turn[t].pc /\ s.held = turn[t].held
     /\ \E n \in turn[t].held : s.lost = turn[t].lost \union {n}
  \/ s.pc \in Going /\ turn[t].pc \in Going /\ s.lost = turn[t].lost /\ s.held = turn[t].held
  \/ s.pc \notin Going

LEMMA TurnMoves ==
  ASSUME TypeOK, [Next]_vars, NEW t \in Turns, turn'[t] # turn[t]
  PROVE  TurnMove(t, turn'[t])
<1>1. turn \in [Turns -> TurnState]  BY DEF TypeOK
<1>2. \A u \in Turns : \A s : SetTurn(u, s) => u = t /\ turn'[t] = s
  BY <1>1 DEF SetTurn
<1>3. turn[t] \in TurnState  BY <1>1
<1>4. ASSUME NEW u \in Turns, NEW n \in Threads, Acquire(u, n)
      PROVE  TurnMove(t, turn'[t])
  BY <1>2, <1>4 DEF Acquire, TurnMove, Going
<1>5. ASSUME NEW u \in Turns, NEW n \in Threads, Refused(u, n)  PROVE turn'[t].pc \notin Going
  BY <1>2, <1>5 DEF Refused, Going
<1>6. ASSUME NEW u \in Turns, NEW n \in Threads, Beating(u, n), MarkLost(u, n)
      PROVE  TurnMove(t, turn'[t])
  <2>1. u = t /\ turn'[t] = [turn[t] EXCEPT !.lost = @ \union {n}]
    BY <1>2, <1>6 DEF MarkLost
  <2>2. /\ turn'[t].pc = turn[t].pc /\ turn'[t].held = turn[t].held
        /\ turn'[t].lost = turn[t].lost \union {n}
    BY <1>3, <2>1 DEF TurnState
  <2>3. n \in turn[t].held  BY <1>6, <2>1 DEF Beating
  <2> QED  BY <2>2, <2>3 DEF TurnMove
<1>7. ASSUME NEW u \in Turns, NEW n \in Threads, turn[u].pc = "closing", Closed(u, n)
      PROVE  turn'[t].pc \notin Going
  <2>1. u = t /\ turn'[t] = [turn[t] EXCEPT !.held = @ \ {n}]  BY <1>2, <1>7 DEF Closed
  <2> QED  BY <1>3, <1>7, <2>1 DEF TurnState, Going
<1>8. ASSUME NEW u \in Turns, BodyEnds(u)
      PROVE  TurnMove(t, turn'[t])
  <2>1. PICK p \in {"closing", "answering"} : SetTurn(u, [turn[u] EXCEPT !.pc = p])
    BY <1>8 DEF BodyEnds
  <2>2. /\ u = t /\ turn'[t].pc = p
        /\ turn'[t].held = turn[t].held /\ turn'[t].lost = turn[t].lost
    <3>1. u = t /\ turn'[t] = [turn[t] EXCEPT !.pc = p]  BY <1>2, <2>1
    <3> QED  BY <1>3, <3>1 DEF TurnState
  <2>3. turn[t].pc = "working"  BY <1>8, <2>2 DEF BodyEnds
  <2> QED  BY <2>2, <2>3 DEF TurnMove, Going
<1>9. ASSUME NEW u \in Turns, Leave(u) \/ Done(u) \/ Crash(u)  PROVE turn'[t].pc \notin Going
  <2>1. PICK p \in {"closing", "done", "dead"} : SetTurn(u, [turn[u] EXCEPT !.pc = p])
    BY <1>9 DEF Leave, Done, Crash
  <2>2. u = t /\ turn'[t] = [turn[t] EXCEPT !.pc = p]  BY <1>2, <2>1
  <2> QED  BY <1>3, <2>2 DEF TurnState, Going
<1>10. ~Tick /\ ~Terminated /\ ~UNCHANGED vars  BY DEF Tick, Terminated, vars
<1>11. ASSUME NEW u \in Turns, Beat(u)
       PROVE  \E n \in Threads : Beating(u, n) /\ MarkLost(u, n)
  BY <1>11 DEF Beat, HeartbeatOnce, HeartbeatRaises
<1>12. ASSUME NEW u \in Turns, TurnStep(u)
       PROVE  \/ \E n \in Threads : \/ Acquire(u, n) \/ Refused(u, n)
                                    \/ turn[u].pc = "closing" /\ Closed(u, n)
              \/ BodyEnds(u) \/ Leave(u) \/ Done(u)
  BY <1>12 DEF TurnStep, Release, ReleaseRaises
<1>13. turn'[t].pc \notin Going => TurnMove(t, turn'[t])  BY DEF TurnMove
<1> QED
  BY <1>4, <1>5, <1>6, <1>7, <1>8, <1>9, <1>10, <1>11, <1>12, <1>13 DEF Next

THEOREM LostHeldInvariance == Spec => []LostHeld
<1>1. Init => LostHeld  BY DEF Init, LostHeld
<1>2. TypeOK /\ LostHeld /\ [Next]_vars => LostHeld'
  <2> SUFFICES ASSUME TypeOK, LostHeld, [Next]_vars, NEW t \in Turns, turn'[t].pc \in Going
               PROVE  turn'[t].lost \subseteq turn'[t].held
    BY DEF LostHeld
  <2>1. CASE turn'[t] = turn[t]  BY <2>1 DEF LostHeld
  <2>2. CASE turn'[t] # turn[t]
    <3>1. TurnMove(t, turn'[t])  BY <2>2, TurnMoves
    <3> QED  BY <3>1 DEF TurnMove, LostHeld, Going
  <2> QED  BY <2>1, <2>2
<1> QED  BY <1>1, <1>2, TypeCorrect, PTL DEF Spec


\* Only a turn that keeps its lease alive gives its lock more time.
THEOREM OnlyTheLiving == Spec => OrphansRunOut
<1>1. TypeOK /\ LostHeld /\ LostHeld' /\ [Next]_vars => [ForTheLiving]_vars
  <2> SUFFICES ASSUME TypeOK, LostHeld, LostHeld', [Next]_vars, NEW n \in Threads,
                      lock'[n].left > lock[n].left
               PROVE  \E t \in Turns : /\ lock'[n].owner = t /\ turn'[t].pc \in Going
                                       /\ n \in turn'[t].held \ turn'[t].lost
    BY DEF ForTheLiving, Going
  <2>1. /\ lock \in [Threads -> LockState] /\ turn \in [Turns -> TurnState]
        /\ lock[n].left \in 0..TTL /\ TTL \in Nat
    BY LeaseAssumption DEF TypeOK, LockState
  <2>2. ASSUME NEW t \in Turns, NEW m \in Threads, Acquire(t, m)
        PROVE  lock'[n].owner = t /\ turn'[t].pc \in Going /\ n \in turn'[t].held \ turn'[t].lost
    <3>1. n = m /\ lock'[n].owner = t  BY <2>1, <2>2 DEF Acquire
    <3>2. /\ turn'[t].pc \in Going /\ turn'[t].held = turn[t].held \union {n}
          /\ turn'[t].lost = turn[t].lost /\ turn[t].pc \in Going /\ n \notin turn[t].held
      BY <2>1, <2>2, <3>1 DEF Acquire, NextThread, SetTurn, Going
    <3> QED  BY <3>1, <3>2 DEF LostHeld
  <2>3. ASSUME NEW t \in Turns, NEW m \in Threads, Beating(t, m), Renewable(t, m),
               lock' = Renewal(m), UNCHANGED turn
        PROVE  lock'[n].owner = t /\ turn'[t].pc \in Going /\ n \in turn'[t].held \ turn'[t].lost
    <3>1. n = m  BY <2>1, <2>3 DEF Renewal
    <3>2. lock'[n].owner = t  BY <2>1, <2>3, <3>1 DEF Renewal, Renewable, LockState
    <3> QED  BY <2>3, <3>1, <3>2 DEF Beating, Going
  <2>4. ASSUME NEW t \in Turns, NEW m \in Threads, Release(t, m)  PROVE FALSE
    <3>1. lock'[n] = lock[n] \/ lock'[n] = Unlocked  BY <2>1, <2>4 DEF Release, Freed
    <3> QED  BY <2>1, <3>1 DEF Unlocked
  <2>5. ~Tick
    <3> SUFFICES ASSUME Tick  PROVE FALSE
      OBVIOUS
    <3>1. lock'[n].left = Elapse(lock[n].left)  BY DEF Tick
    <3> QED  BY <2>1, <3>1, ElapseOK
  <2>6. lock' # lock  BY <2>1
  <2>7. ~Terminated /\ ~UNCHANGED vars  BY <2>6 DEF Terminated, vars
  <2>8. ASSUME NEW t \in Turns, Beat(t)
        PROVE  \E m \in Threads : /\ Beating(t, m) /\ Renewable(t, m)
                                  /\ lock' = Renewal(m) /\ UNCHANGED turn
    BY <2>6, <2>8 DEF Beat, HeartbeatOnce, HeartbeatRaises
  <2>9. ASSUME NEW t \in Turns, TurnStep(t) \/ Crash(t)
        PROVE  \E m \in Threads : Acquire(t, m) \/ Release(t, m)
    BY <2>6, <2>9 DEF TurnStep, Crash, Refused, ReleaseRaises, BodyEnds, Leave, Done
  <2> QED  BY <2>2, <2>3, <2>4, <2>5, <2>7, <2>8, <2>9 DEF Next
<1> QED  BY <1>1, TypeCorrect, LostHeldInvariance, PTL DEF Spec, OrphansRunOut

\* The parts of the contract's state, by name.
Owner == [n \in Threads |-> IF lock[n].left > 0 THEN lock[n].owner ELSE NoTurn]
Trusts == [t \in Turns |-> {n \in Threads : Beating(t, n)}]

\* A step that leaves the rows and the clock alone and makes one turn trust
\* less is a doubt.
LEMMA DoubtStep ==
  ASSUME UNCHANGED <<lock, late>>, NEW t \in Turns,
         \A u \in Turns \ {t} : turn'[u] = turn[u],
         \A n \in Threads : Beating(t, n)' => Beating(t, n)
  PROVE  Lock!Next
<1> DEFINE N == Trusts[t] \ Trusts'[t]
<1>1. N \in SUBSET Threads  BY DEF Trusts
<1>2. /\ \A u \in Turns \ {t} : Trusts'[u] = Trusts[u]
      /\ Trusts'[t] = Trusts[t] \ N
  BY DEF Trusts, Beating
<1> HIDE DEF N
<1>3. Trusts' = [Trusts EXCEPT ![t] = Trusts[t] \ N]
  BY <1>2 DEF Trusts
<1>4. Owner' = Owner /\ late' = late  BY DEF Owner
<1>5. Lock!Doubt(t, N)  BY <1>3, <1>4 DEF Lock!Doubt, Trusts, Owner
<1> QED  BY <1>1, <1>5 DEF Lock!Next

\* A step that takes life from rows, of turns that do not trust them or in
\* the company of a stall, and does not touch what turns trust.
LEMMA FreeStep ==
  ASSUME \A t \in Turns, n \in Threads : Beating(t, n)' = Beating(t, n),
         \A n \in Threads : Owner'[n] \in {Owner[n], NoTurn},
         \/ late' = TRUE
         \/ late' = late /\ \A t \in Turns, n \in Threads : Beating(t, n) => Owner'[n] = Owner[n]
  PROVE  Lock!Next
<1>1. PICK N \in SUBSET Threads : N = {n \in Threads : Owner'[n] # Owner[n]}
  OBVIOUS
<1>2. Owner' = [n \in Threads |-> IF n \in N THEN NoTurn ELSE Owner[n]]
  BY <1>1 DEF Owner
<1>3. Trusts' = Trusts  BY DEF Trusts
<1>4. CASE late' = TRUE
  <2>1. Lock!Stall(N)  BY <1>2, <1>3, <1>4 DEF Lock!Stall, Owner, Trusts
  <2> QED  BY <1>1, <2>1 DEF Lock!Next
<1>5. CASE late' = late /\ \A t \in Turns, n \in Threads : Beating(t, n) => Owner'[n] = Owner[n]
  <2>1. \A t \in Turns, n \in N : n \in Trusts[t] => Owner[n] # t  BY <1>1, <1>5 DEF Trusts
  <2>2. Lock!Free(N)  BY <1>2, <1>3, <1>5, <2>1 DEF Lock!Free, Owner, Trusts
  <2> QED  BY <1>1, <2>2 DEF Lock!Next
<1> QED  BY <1>4, <1>5

\* Every step of the leases is a step of the lock, or leaves it unchanged.
THEOREM LeasesAreLocks == Spec => KeepsLock
<1>1. Init => Lock!Init
  <2> SUFFICES ASSUME Init  PROVE Owner = [n \in Threads |-> NoTurn]
                                  /\ Trusts = [t \in Turns |-> {}] /\ late = FALSE
    BY DEF Lock!Init, Owner, Trusts
  <2>1. ASSUME NEW n \in Threads  PROVE ~(lock[n].left > 0)
    <3>1. lock[n] = Unlocked  BY DEF Init
    <3>2. lock[n].left = 0  BY <3>1 DEF Unlocked
    <3> QED  BY <3>2
  <2>2. ASSUME NEW t \in Turns, NEW n \in Threads  PROVE ~Beating(t, n)
    <3>1. turn[t].held = {}  BY DEF Init
    <3> QED  BY <3>1 DEF Beating
  <2> QED  BY <2>1, <2>2 DEF Init, Owner, Trusts
<1>2. IInv /\ NotLostMeansHeld /\ LostHeld /\ NotLostMeansHeld' /\ [Next]_vars => [Lock!Next]_<<Owner, Trusts, late>>
  <2> SUFFICES ASSUME IInv, NotLostMeansHeld, LostHeld, NotLostMeansHeld', [Next]_vars
               PROVE  Lock!Next \/ UNCHANGED <<Owner, Trusts, late>>
    OBVIOUS
  <2>1. /\ lock \in [Threads -> LockState] /\ turn \in [Turns -> TurnState]
        /\ NoTurn \notin Turns /\ TTL \in Nat /\ TTL > 0
        /\ \A n \in Threads : lock[n].left \in 0..TTL
    BY LeaseAssumption DEF IInv, TypeOK, LockState
  <2>2. ASSUME NEW t \in Turns, NEW n \in Threads, Acquire(t, n)  PROVE Lock!Next
    <3>1. /\ turn[t].pc = "acquiring" /\ n \notin turn[t].held
          /\ turn'[t].pc \in Going /\ turn'[t].held = turn[t].held \union {n}
          /\ turn'[t].lost = turn[t].lost
          /\ \A u \in Turns \ {t} : turn'[u] = turn[u]
      BY <2>1, <2>2 DEF Acquire, NextThread, SetTurn, Going
    <3>2. /\ lock'[n].owner = t /\ lock'[n].left = TTL
          /\ \A m \in Threads \ {n} : lock'[m] = lock[m]
      BY <2>1, <2>2 DEF Acquire
    <3>3. Owner[n] = NoTurn
      <4>1. ~LiveRow(t, n)  BY <3>1 DEF IInv, RowsHeld
      <4> QED  BY <2>1, <2>2, <4>1 DEF Acquire, Obtainable, Owner, LiveRow
    <3>4. Owner' = [Owner EXCEPT ![n] = t]
      BY <2>1, <3>2 DEF Owner
    <3>5. n \notin turn[t].lost  BY <3>1 DEF LostHeld, Going
    <3>6. /\ \A u \in Turns \ {t} : Trusts'[u] = Trusts[u]
          /\ Trusts'[t] = Trusts[t] \union {n}
      <4>1. \A u \in Turns \ {t} : Trusts'[u] = Trusts[u]  BY <3>1 DEF Trusts, Beating
      <4>2. \A m \in Threads : m \in Trusts'[t] <=> m \in turn[t].held \union {n} /\ m \notin turn[t].lost
        BY <3>1 DEF Trusts, Beating, Going
      <4>3. \A m \in Threads : m \in Trusts[t] <=> m \in turn[t].held /\ m \notin turn[t].lost
        BY <3>1 DEF Trusts, Beating
      <4>4. Trusts[t] \subseteq Threads /\ Trusts'[t] \subseteq Threads  BY DEF Trusts
      <4> QED  BY <3>5, <4>1, <4>2, <4>3, <4>4
    <3>7. Trusts' = [Trusts EXCEPT ![t] = Trusts[t] \union {n}]  BY <3>6 DEF Trusts
    <3>8. late' = late  BY <2>2 DEF Acquire
    <3>9. Lock!Grant(t, n)  BY <3>3, <3>4, <3>7, <3>8 DEF Lock!Grant, Owner, Trusts
    <3> QED  BY <3>9 DEF Lock!Next
  <2>3. ASSUME NEW t \in Turns, NEW n \in Threads, Refused(t, n) \/ (MarkLost(t, n) /\ UNCHANGED <<lock, late>>)
        PROVE  Lock!Next
    <3>1. UNCHANGED <<lock, late>> /\ \A u \in Turns \ {t} : turn'[u] = turn[u]
      BY <2>1, <2>3 DEF Refused, MarkLost, SetTurn
    <3>2. \A m \in Threads : Beating(t, m)' => Beating(t, m)
      <4>1. CASE Refused(t, n)  BY <2>1, <4>1 DEF Refused, SetTurn, Beating
      <4>2. CASE MarkLost(t, n)
        <5>1. /\ turn'[t].pc = turn[t].pc /\ turn'[t].held = turn[t].held
              /\ turn'[t].lost = turn[t].lost \union {n}
          BY <2>1, <4>2 DEF MarkLost, SetTurn, TurnState
        <5> QED  BY <5>1 DEF Beating
      <4> QED  BY <2>3, <4>1, <4>2
    <3> QED  BY <3>1, <3>2, DoubtStep
  <2>4. ASSUME NEW t \in Turns, BodyEnds(t) \/ Leave(t) \/ Done(t) \/ Crash(t)
        PROVE  Lock!Next
    <3>1. PICK p \in {"answering", "closing", "done", "dead"} : SetTurn(t, [turn[t] EXCEPT !.pc = p])
      BY <2>4 DEF BodyEnds, Leave, Done, Crash
    <3>2. /\ UNCHANGED <<lock, late>> /\ \A u \in Turns \ {t} : turn'[u] = turn[u]
          /\ turn'[t].pc = p /\ turn'[t].held = turn[t].held /\ turn'[t].lost = turn[t].lost
      BY <2>1, <2>4, <3>1 DEF BodyEnds, Leave, Done, Crash, SetTurn, TurnState
    <3>3. p = "answering" => turn[t].pc = "working"
      <4>1. CASE BodyEnds(t)  BY <4>1 DEF BodyEnds
      <4>2. CASE Leave(t) \/ Done(t) \/ Crash(t)
        <5>1. turn'[t].pc \in {"closing", "done", "dead"}
          BY <2>1, <4>2 DEF Leave, Done, Crash, SetTurn, TurnState
        <5> QED  BY <3>2, <5>1
      <4> QED  BY <2>4, <4>1, <4>2
    <3>4. \A m \in Threads : Beating(t, m)' => Beating(t, m)
      BY <3>2, <3>3 DEF Beating
    <3> QED  BY <3>2, <3>4, DoubtStep
  <2>5. ASSUME NEW t \in Turns, NEW n \in Threads, Release(t, n) \/ ReleaseRaises(t, n)
        PROVE  Lock!Next
    <3>1. /\ turn[t].pc = "closing" /\ turn'[t].pc = "closing" /\ late' = late
          /\ \A u \in Turns \ {t} : turn'[u] = turn[u]
      BY <2>1, <2>5 DEF Release, ReleaseRaises, Closed, SetTurn, TurnState
    <3>2. \A u \in Turns, m \in Threads : Beating(u, m)' = Beating(u, m)  BY <3>1 DEF Beating
    <3>3. \A m \in Threads : lock'[m] = lock[m] \/ (lock[m].owner = t /\ lock'[m] = Unlocked)
      BY <2>1, <2>5 DEF Release, ReleaseRaises, Freed
    <3>4. \A m \in Threads : Owner'[m] = Owner[m] \/ (lock[m].owner = t /\ Owner'[m] = NoTurn)
      BY <3>3 DEF Owner, Unlocked
    <3>5. CASE late
      BY <3>1, <3>2, <3>4, <3>5, FreeStep DEF IInv, TypeOK
    <3>6. CASE ~late
      <4>1. ASSUME NEW u \in Turns, NEW m \in Threads, Beating(u, m)  PROVE Owner'[m] = Owner[m]
        <5>1. lock[m].owner = u /\ u # t  BY <3>1, <3>6, <4>1 DEF NotLostMeansHeld, Renewable, Beating
        <5> QED  BY <3>4, <5>1
      <4> QED  BY <3>1, <3>2, <3>4, <4>1, FreeStep
    <3> QED  BY <3>5, <3>6
  <2>6. ASSUME NEW t \in Turns, NEW n \in Threads, Renewable(t, n), lock' = Renewal(n),
               UNCHANGED <<turn, late>>
        PROVE  UNCHANGED <<Owner, Trusts, late>>
    <3>1. /\ lock'[n].owner = t /\ lock'[n].left = TTL /\ \A m \in Threads \ {n} : lock'[m] = lock[m]
      BY <2>1, <2>6 DEF Renewal, Renewable, LockState
    <3>2. \A m \in Threads : Owner'[m] = Owner[m]  BY <2>1, <2>6, <3>1 DEF Owner, Renewable
    <3>3. Owner' = Owner  BY <3>2 DEF Owner
    <3>4. Trusts' = Trusts  BY <2>6 DEF Trusts, Beating
    <3> QED  BY <2>6, <3>3, <3>4
  <2>7. CASE Tick
    <3>1. \A u \in Turns, m \in Threads : Beating(u, m)' = Beating(u, m)  BY <2>7 DEF Tick, Beating
    <3>2. \A m \in Threads : lock'[m].owner = lock[m].owner /\ lock'[m].left = Elapse(lock[m].left)
      BY <2>7 DEF Tick
    <3>3. \A m \in Threads : Owner'[m] \in {Owner[m], NoTurn}
      BY <2>1, <3>2, ElapseOK DEF Owner
    <3>4. CASE late'
      <4>1. late' = TRUE  BY <2>7, <3>4, Zenon DEF Tick
      <4> QED  BY <3>1, <3>3, <4>1, FreeStep
    <3>5. CASE ~late'
      <4>1. ~late  BY <2>7, <3>5, Zenon DEF Tick
      <4>2. late \in BOOLEAN  BY DEF IInv, TypeOK
      <4>3. late' \in BOOLEAN  BY <2>7, <4>2, Zenon DEF Tick
      <4>4. late' = late  BY <3>5, <4>1, <4>2, <4>3
      <4>5. ASSUME NEW u \in Turns, NEW m \in Threads, Beating(u, m)  PROVE Owner'[m] = Owner[m]
        <5>1. Renewable(u, m) /\ Renewable(u, m)'
          BY <3>1, <3>5, <4>1, <4>5 DEF NotLostMeansHeld
        <5> QED  BY <5>1 DEF Owner, Renewable
      <4> QED  BY <3>1, <3>3, <4>4, <4>5, FreeStep
    <3> QED  BY <3>4, <3>5
  <2>8. CASE UNCHANGED vars \/ Terminated
    BY <2>8 DEF vars, Terminated, Owner, Trusts, Beating
  <2>9. ASSUME NEW t \in Turns, Beat(t)
        PROVE  \/ \E n \in Threads : Renewable(t, n) /\ lock' = Renewal(n) /\ UNCHANGED <<turn, late>>
               \/ \E n \in Threads : MarkLost(t, n) /\ UNCHANGED <<lock, late>>
    BY <2>9 DEF Beat, HeartbeatOnce, HeartbeatRaises
  <2>10. ASSUME NEW t \in Turns, TurnStep(t) \/ Beat(t) \/ Crash(t)
         PROVE  Lock!Next \/ UNCHANGED <<Owner, Trusts, late>>
    <3>1. CASE Beat(t)  BY <2>3, <2>6, <2>9, <3>1
    <3>2. CASE Crash(t)  BY <2>4, <3>2
    <3>3. CASE TurnStep(t)  BY <2>2, <2>3, <2>4, <2>5, <3>3 DEF TurnStep
    <3> QED  BY <2>10, <3>1, <3>2, <3>3
  <2> QED  BY <2>7, <2>8, <2>10 DEF Next
<1>3. Spec => [][Lock!Next]_<<Owner, Trusts, late>>
  BY <1>2, Invariance, NotLostHeld, LostHeldInvariance, PTL DEF Spec
<1> QED  BY <1>1, <1>3, PTL DEF Spec, KeepsLock, Lock!Spec, Lock!lockVars, Owner, Trusts


\* What the contract is worth: until a stall, who trusts a lock has it, and no
\* two turns trust the same one.
THEOREM LockExclusive == KeepsLock => []Lock!Exclusive
<1> DEFINE Ok == late \/ \A t \in Turns, n \in Threads : n \in Trusts[t] => Owner[n] = t
<1>1. Lock!Exclusive <=> Ok  BY DEF Lock!Exclusive, Owner, Trusts
<1>2. Lock!Init => Ok
  <2> SUFFICES ASSUME Lock!Init, NEW t \in Turns  PROVE Trusts[t] = {}
    OBVIOUS
  <2>1. Trusts = [u \in Turns |-> {}]  BY DEF Lock!Init, Trusts
  <2> QED  BY <2>1
<1>3. Ok /\ [Lock!Next]_<<Owner, Trusts, late>> => Ok'
  <2> SUFFICES ASSUME Ok, Lock!Next  PROVE Ok'
    OBVIOUS
  <2>1. /\ DOMAIN Owner = Threads /\ Owner = [n \in Threads |-> Owner[n]]
        /\ DOMAIN Trusts = Turns /\ Trusts = [t \in Turns |-> Trusts[t]]
        /\ NoTurn \notin Turns
    BY LeaseAssumption DEF Owner, Trusts
  <2>2. ASSUME NEW t \in Turns, NEW n \in Threads, Lock!Grant(t, n)  PROVE Ok'
    <3>1. /\ Owner[n] = NoTurn /\ Owner' = [Owner EXCEPT ![n] = t]
          /\ Trusts' = [Trusts EXCEPT ![t] = @ \union {n}] /\ late' = late
      BY <2>2 DEF Lock!Grant, Owner, Trusts
    <3>2. late \/ \A u \in Turns : n \notin Trusts[u]  BY <2>1, <3>1
    <3>3. /\ Owner'[n] = t /\ \A m \in Threads \ {n} : Owner'[m] = Owner[m]
          /\ Trusts'[t] = Trusts[t] \union {n} /\ \A u \in Turns \ {t} : Trusts'[u] = Trusts[u]
      BY <2>1, <3>1
    <3> QED  BY <3>1, <3>2, <3>3
  <2>3. ASSUME NEW t \in Turns, NEW N \in SUBSET Threads, Lock!Doubt(t, N)  PROVE Ok'
    <3>1. Trusts' = [Trusts EXCEPT ![t] = @ \ N] /\ Owner' = Owner /\ late' = late
      BY <2>3 DEF Lock!Doubt, Owner, Trusts
    <3>2. \A u \in Turns : Trusts'[u] \subseteq Trusts[u]  BY <2>1, <3>1
    <3> QED  BY <3>1, <3>2
  <2>4. ASSUME NEW N \in SUBSET Threads, Lock!Free(N)  PROVE Ok'
    <3>1. /\ Owner' = [n \in Threads |-> IF n \in N THEN NoTurn ELSE Owner[n]]
          /\ late \/ \A t \in Turns, n \in N : n \in Trusts[t] => Owner[n] # t
          /\ Trusts' = Trusts /\ late' = late
      BY <2>4 DEF Lock!Free, Owner, Trusts
    <3> QED  BY <3>1
  <2>5. ASSUME NEW N \in SUBSET Threads, Lock!Stall(N)  PROVE Ok'
    BY <2>5 DEF Lock!Stall
  <2> QED  BY <2>2, <2>3, <2>4, <2>5 DEF Lock!Next
<1> HIDE DEF Ok
<1>4. Lock!Init /\ [][Lock!Next]_<<Owner, Trusts, late>> => []Lock!Exclusive
  BY <1>1, <1>2, <1>3, PTL
<1> QED  BY <1>4, PTL DEF KeepsLock, Lock!Spec, Lock!lockVars, Owner, Trusts

-----------------------------------------------------------------------------
(***************************************************************************)
(* The rate limit.                                                         *)
(***************************************************************************)

\* What the backend remembers are the latest calls; the others are too old to count.
Remembered ==
  /\ Len(events) <= Limit
  /\ \A k \in 1..(Limit + 1) :
       latest[k] = IF k <= Len(events) THEN events[Len(events) + 1 - k] ELSE Window

\* The later a call, the younger it is.
LatestFirst == \A j, k \in 1..(Limit + 1) : j <= k => latest[j] <= latest[k]

\* When the last promise runs out, the Limit-th latest call leaves the window.
PromiseKept == promise # NoPromise => latest[Limit] + promise >= Window

RateInv ==
  /\ events \in Seq(Ages) /\ latest \in [1..(Limit + 1) -> Ages] /\ promise \in 0..NoPromise
  /\ Remembered /\ LatestFirst /\ PromiseKept

\* Older makes nobody younger, and keeps an order.
LEMMA OlderOK ==
  ASSUME NEW a \in Ages
  PROVE  /\ Older(a) \in Ages /\ (Older(a) = a + 1 \/ (a = Window /\ Older(a) = Window))
         /\ \A b \in Ages : a <= b => Older(a) <= Older(b)
BY RateAssumption DEF Older, Ages

LEMMA IntervalSize ==
  ASSUME NEW a \in Nat, NEW b \in Nat, a <= b + 1
  PROVE  IsFiniteSet(a..b) /\ Cardinality(a..b) = b + 1 - a
<1>1. a \in Int /\ b \in Int  OBVIOUS
<1>2. IsFiniteSet(a..b) /\ Cardinality(a..b) = IF a > b THEN 0 ELSE b - a + 1
  BY <1>1, FS_Interval, Zenon
<1> DEFINE c == Cardinality(a..b)
<1>3. c = IF a > b THEN 0 ELSE b - a + 1  BY <1>2
<1> HIDE DEF c
<1>4. c = b + 1 - a  BY <1>3
<1> QED  BY <1>2, <1>4 DEF c

\* Of the events, oldest first, the young ones are the end.
LEMMA RecentIsYoung ==
  ASSUME RateInv
  PROVE  \E n \in 0..Len(events) :
           /\ Recent \in Seq(Ages) /\ Len(Recent) = n
           /\ \A k \in 1..n : Recent[n + 1 - k] = latest[k] /\ latest[k] < Window
           /\ \A k \in 1..(Limit + 1) : k > n => latest[k] = Window
<1> DEFINE l == Len(events)
           n == Cardinality(Young)
<1>1. /\ events \in Seq(Ages) /\ l \in Nat /\ l <= Limit /\ DOMAIN events = 1..l
      /\ Limit \in Nat \ {0} /\ Window \in Nat \ {0}
  BY RateAssumption DEF RateInv, Remembered
<1>2. \A i \in 1..l : events[i] \in 0..Window /\ latest[l + 1 - i] = events[i]
  <2> SUFFICES ASSUME NEW i \in 1..l  PROVE events[i] \in 0..Window /\ latest[l + 1 - i] = events[i]
    OBVIOUS
  <2>1. l + 1 - i \in 1..(Limit + 1) /\ l + 1 - i <= l /\ l + 1 - (l + 1 - i) = i  BY <1>1
  <2>2. events[i] \in Ages  BY <1>1, ElementOfSeq
  <2> QED  BY <2>1, <2>2 DEF RateInv, Remembered, Ages
<1>3. \A i, j \in 1..l : i <= j => events[j] <= events[i]
  <2> SUFFICES ASSUME NEW i \in 1..l, NEW j \in 1..l, i <= j  PROVE events[j] <= events[i]
    OBVIOUS
  <2>1. l + 1 - i \in 1..(Limit + 1) /\ l + 1 - j \in 1..(Limit + 1) /\ l + 1 - j <= l + 1 - i
    BY <1>1
  <2> QED  BY <1>2, <2>1 DEF RateInv, LatestFirst
<1>4. Young \subseteq 1..l  BY <1>1 DEF Young
<1>5. IsFiniteSet(1..l) /\ Cardinality(1..l) = l  BY <1>1, IntervalSize
<1>6. IsFiniteSet(Young) /\ n \in Nat /\ n <= l
  BY <1>4, <1>5, FS_Subset, FS_CardinalityType
<1>7. ASSUME NEW i \in Young  PROVE i >= l - n + 1
  <2>1. i \in 1..l /\ \A j \in i..l : j \in Young
    <3>1. i \in 1..l /\ events[i] < Window  BY <1>4 DEF Young
    <3>2. ASSUME NEW j \in i..l  PROVE j \in Young
      <4>1. j \in 1..l /\ i <= j  BY <1>1, <3>1
      <4>2. events[j] <= events[i]  BY <1>3, <3>1, <4>1
      <4>3. events[j] < Window  BY <1>1, <1>2, <3>1, <4>1, <4>2
      <4> QED  BY <1>1, <4>1, <4>3 DEF Young
    <3> QED  BY <3>1, <3>2
  <2>2. (i..l) \in SUBSET Young  BY <2>1
  <2>3. Cardinality(i..l) <= n  BY <1>6, <2>2, FS_Subset
  <2>4. Cardinality(i..l) = l + 1 - i  BY <1>1, <2>1, IntervalSize
  <2> QED  BY <1>1, <1>6, <2>1, <2>3, <2>4
<1>8. Young = (l - n + 1)..l
  <2>1. IsFiniteSet((l - n + 1)..l) /\ Cardinality((l - n + 1)..l) = n
    <3>1. l - n + 1 \in Nat /\ l - n + 1 <= l + 1 /\ l + 1 - (l - n + 1) = n  BY <1>1, <1>6
    <3> QED  BY <1>1, <3>1, IntervalSize
  <2>2. Young \in SUBSET ((l - n + 1)..l)  BY <1>1, <1>4, <1>6, <1>7
  <2> QED  BY <2>1, <2>2, FS_Subset
<1>9. /\ Recent \in Seq(Ages) /\ Len(Recent) = n
      /\ \A k \in 1..n : Recent[n + 1 - k] = events[l + 1 - k]
  <2>1. l - n + 1 \in 1..(l + 1) /\ l \in (l - n + 1 - 1)..l  BY <1>1, <1>6
  <2>2. Recent = SubSeq(events, l - n + 1, l)  BY DEF Recent
  <2>3. /\ Recent \in Seq(Ages)
        /\ Len(Recent) = IF l < l - n + 1 THEN 0 ELSE l - (l - n + 1) + 1
        /\ \A i \in 1..(l - (l - n + 1) + 1) : Recent[i] = events[l - n + 1 + i - 1]
    BY <1>1, <2>1, <2>2, SubSeqProperties
  <2>4. Len(Recent) = n /\ l - (l - n + 1) + 1 = n  BY <1>1, <1>6, <2>3
  <2>5. ASSUME NEW k \in 1..n  PROVE Recent[n + 1 - k] = events[l + 1 - k]
    <3>1. n + 1 - k \in 1..n /\ l - n + 1 + (n + 1 - k) - 1 = l + 1 - k  BY <1>1, <1>6
    <3> QED  BY <2>3, <2>4, <3>1
  <2> QED  BY <2>3, <2>4, <2>5
<1>10. ASSUME NEW k \in 1..n  PROVE Recent[n + 1 - k] = latest[k] /\ latest[k] < Window
  <2>1. l + 1 - k \in 1..l /\ l + 1 - k \in (l - n + 1)..l /\ l + 1 - (l + 1 - k) = k  BY <1>1, <1>6
  <2>2. latest[k] = events[l + 1 - k]  BY <1>2, <2>1
  <2>3. events[l + 1 - k] < Window  BY <1>8, <2>1 DEF Young
  <2> QED  BY <1>9, <2>2, <2>3
<1>11. ASSUME NEW k \in 1..(Limit + 1), k > n  PROVE latest[k] = Window
  <2>1. CASE k <= l
    <3>1. l + 1 - k \in 1..l /\ l + 1 - k \notin (l - n + 1)..l /\ l + 1 - (l + 1 - k) = k
      BY <1>1, <1>6, <1>11, <2>1
    <3>2. latest[k] = events[l + 1 - k] /\ events[l + 1 - k] \in 0..Window  BY <1>2, <3>1
    <3>3. ~(events[l + 1 - k] < Window)  BY <1>1, <1>8, <3>1 DEF Young
    <3> QED  BY <1>1, <3>2, <3>3
  <2>2. CASE ~(k <= l)  BY <2>2 DEF RateInv, Remembered
  <2> QED  BY <2>1, <2>2
<1>12. n \in 0..l  BY <1>1, <1>6
<1> HIDE DEF n
<1> QED  BY <1>9, <1>10, <1>11, <1>12

LEMMA RateInitOK == RateInit => RateInv
<1> SUFFICES ASSUME RateInit  PROVE RateInv
  OBVIOUS
<1>1. /\ events = <<>> /\ latest = [k \in 1..(Limit + 1) |-> Window] /\ promise = NoPromise
      /\ Limit \in Nat \ {0} /\ Window \in Nat \ {0}
  BY RateAssumption DEF RateInit
<1>2. Window \in Ages /\ promise \in 0..NoPromise  BY <1>1 DEF Ages, NoPromise
<1>3. events \in Seq(Ages) /\ Len(events) = 0  BY <1>1
<1>4. \A k \in 1..(Limit + 1) : ~(k <= Len(events))  BY <1>1, <1>3
<1>5. \A k \in 1..(Limit + 1) : latest[k] = Window  BY <1>1
<1>6. Remembered  BY <1>1, <1>3, <1>4, <1>5 DEF Remembered
<1>7. LatestFirst  BY <1>1, <1>5 DEF LatestFirst
<1> QED  BY <1>1, <1>2, <1>3, <1>6, <1>7 DEF RateInv, PromiseKept

LEMMA AdmitOK == ASSUME RateInv, Admit  PROVE RateInv'
<1> DEFINE n == Len(Recent)
<1>1. /\ n \in Nat /\ n < Limit /\ Recent \in Seq(Ages)
      /\ \A k \in 1..n : Recent[n + 1 - k] = latest[k] /\ latest[k] < Window
      /\ \A k \in 1..(Limit + 1) : k > n => latest[k] = Window
  <2>1. Len(Recent) < Limit  BY DEF Admit
  <2>2. Len(events) \in Nat  BY DEF RateInv
  <2> QED  BY <2>1, <2>2, RecentIsYoung
<1>2. /\ Limit \in Nat \ {0} /\ Window \in Nat \ {0} /\ 0 \in Ages
      /\ \A k \in 1..(Limit + 1) : latest[k] \in 0..Window
  BY RateAssumption DEF Ages, RateInv
<1>3. /\ events' = Append(Recent, 0) /\ promise' = NoPromise
      /\ latest' = [k \in 1..(Limit + 1) |-> IF k = 1 THEN 0 ELSE latest[k - 1]]
  BY DEF Admit
<1>4. /\ \A k \in 1..(Limit + 1) : latest'[k] = IF k = 1 THEN 0 ELSE latest[k - 1]
      /\ latest' \in [1..(Limit + 1) -> Ages]
  <2>1. \A k \in 1..(Limit + 1) : k # 1 => k - 1 \in 1..(Limit + 1)  BY <1>2
  <2> QED  BY <1>2, <1>3, <2>1 DEF Ages
<1>5. /\ events' \in Seq(Ages) /\ Len(events') = n + 1
      /\ \A i \in 1..n : events'[i] = Recent[i]
      /\ events'[n + 1] = 0
  BY <1>1, <1>2, <1>3, AppendProperties
<1> HIDE DEF n
<1>6. Remembered'
  <2>1. Len(events') <= Limit  BY <1>1, <1>2, <1>5
  <2>2. ASSUME NEW k \in 1..(Limit + 1)
        PROVE  latest'[k] = IF k <= Len(events') THEN events'[Len(events') + 1 - k] ELSE Window
    <3>1. CASE k = 1
      <4>1. Len(events') + 1 - k = n + 1 /\ k <= Len(events')  BY <1>1, <1>5, <3>1
      <4> QED  BY <1>4, <1>5, <3>1, <4>1
    <3>2. CASE k # 1 /\ k <= n + 1
      <4>1. k - 1 \in 1..n /\ n + 1 - (k - 1) \in 1..n /\ n + 1 + 1 - k = n + 1 - (k - 1)
        BY <1>1, <3>2
      <4>2. latest'[k] = latest[k - 1]  BY <1>4, <3>2
      <4>3. Recent[n + 1 - (k - 1)] = latest[k - 1]  BY <1>1, <4>1
      <4>4. events'[n + 1 - (k - 1)] = Recent[n + 1 - (k - 1)]  BY <1>5, <4>1
      <4> QED  BY <1>5, <3>2, <4>1, <4>2, <4>3, <4>4
    <3>3. CASE ~(k <= n + 1)
      <4>1. k # 1 /\ k - 1 \in 1..(Limit + 1) /\ k - 1 > n  BY <1>1, <1>2, <3>3
      <4> QED  BY <1>1, <1>4, <1>5, <3>3, <4>1
    <3> QED  BY <3>1, <3>2, <3>3
  <2> QED  BY <2>1, <2>2 DEF Remembered
<1>7. LatestFirst'
  <2> SUFFICES ASSUME NEW j \in 1..(Limit + 1), NEW k \in 1..(Limit + 1), j <= k
               PROVE  latest'[j] <= latest'[k]
    BY DEF LatestFirst
  <2>1. latest'[k] \in 0..Window  BY <1>4 DEF Ages
  <2>2. CASE j = 1  BY <1>2, <1>4, <2>1, <2>2
  <2>3. CASE j # 1
    <3>1. j - 1 \in 1..(Limit + 1) /\ k - 1 \in 1..(Limit + 1) /\ j - 1 <= k - 1 /\ k # 1
      BY <1>2, <2>3
    <3>2. latest[j - 1] <= latest[k - 1]  BY <3>1 DEF RateInv, LatestFirst
    <3> QED  BY <1>4, <2>3, <3>1, <3>2
  <2> QED  BY <2>2, <2>3
<1>8. promise' \in 0..NoPromise' /\ PromiseKept'  BY <1>2, <1>3 DEF NoPromise, PromiseKept
<1> QED  BY <1>4, <1>5, <1>6, <1>7, <1>8 DEF RateInv, Ages, NoPromise

\* A call is refused when the last Limit calls are all inside the window.
LEMMA FullWhenRejected ==
  ASSUME RateInv, Reject
  PROVE  /\ Len(Recent) = Limit /\ Recent \in Seq(Ages)
         /\ \A k \in 1..Limit : Recent[Limit + 1 - k] = latest[k] /\ latest[k] < Window
         /\ latest[Limit + 1] = Window
<1>1. PICK n \in 0..Len(events) :
        /\ Recent \in Seq(Ages) /\ Len(Recent) = n
        /\ \A k \in 1..n : Recent[n + 1 - k] = latest[k] /\ latest[k] < Window
        /\ \A k \in 1..(Limit + 1) : k > n => latest[k] = Window
  BY RecentIsYoung
<1>2. n >= Limit  BY <1>1 DEF Reject
<1>3. n = Limit /\ Limit \in Nat  BY <1>1, <1>2, RateAssumption DEF RateInv, Remembered
<1>4. Limit + 1 \in 1..(Limit + 1) /\ Limit + 1 > n  BY <1>3
<1> QED  BY <1>1, <1>3, <1>4

LEMMA RejectOK == ASSUME RateInv, Reject  PROVE RateInv'
<1>1. /\ Limit \in Nat \ {0} /\ Window \in Nat \ {0}
      /\ events' = Recent /\ promise' = RetryAfter /\ latest' = latest
  BY RateAssumption DEF Reject
<1>2. /\ Len(Recent) = Limit /\ Recent \in Seq(Ages)
      /\ \A k \in 1..Limit : Recent[Limit + 1 - k] = latest[k] /\ latest[k] < Window
      /\ latest[Limit + 1] = Window
  BY FullWhenRejected
<1>3. Remembered'
  <2>1. Len(events') = Limit /\ Len(events') <= Limit  BY <1>1, <1>2
  <2>2. ASSUME NEW k \in 1..(Limit + 1)
        PROVE  latest'[k] = IF k <= Limit THEN events'[Limit + 1 - k] ELSE Window
    <3>1. CASE k <= Limit  BY <1>1, <1>2, <3>1
    <3>2. CASE ~(k <= Limit)
      <4>1. k = Limit + 1  BY <1>1, <3>2
      <4> QED  BY <1>1, <1>2, <3>2, <4>1
    <3> QED  BY <3>1, <3>2
  <2> QED  BY <2>1, <2>2 DEF Remembered
<1>4. LatestFirst'  BY <1>1 DEF RateInv, LatestFirst
<1>5. promise' \in 0..NoPromise /\ latest[Limit] + promise' = Window
  <2>1. Head(Recent) = Recent[1] /\ 1 = Limit + 1 - Limit /\ Limit \in 1..Limit
    BY <1>1, <1>2, HeadTailProperties
  <2>2. Head(Recent) = latest[Limit]  BY <1>2, <2>1
  <2>3. latest[Limit] \in 0..Window
    <3>1. Limit \in 1..(Limit + 1)  BY <1>1
    <3> QED  BY <3>1 DEF RateInv, Ages
  <2>4. promise' = Window - latest[Limit]  BY <1>1, <2>2 DEF RetryAfter
  <2> QED  BY <1>1, <2>3, <2>4 DEF NoPromise
<1>6. PromiseKept'  BY <1>1, <1>5 DEF PromiseKept, NoPromise
<1> QED  BY <1>1, <1>2, <1>3, <1>4, <1>5, <1>6 DEF RateInv, Ages, NoPromise

LEMMA AgeOK == ASSUME RateInv, Age  PROVE RateInv'
<1> DEFINE l == Len(events)
<1>1. /\ Limit \in Nat \ {0} /\ Window \in Nat \ {0} /\ l \in Nat /\ l <= Limit
      /\ events \in Seq(Ages) /\ events = [i \in 1..l |-> events[i]]
      /\ \A k \in 1..(Limit + 1) : latest[k] \in Ages
      /\ events' = [i \in DOMAIN events |-> Older(events[i])]
      /\ latest' = [k \in 1..(Limit + 1) |-> Older(latest[k])]
      /\ DOMAIN events = 1..l
  BY RateAssumption DEF RateInv, Remembered, Age
<1>2. \A i \in 1..l : events[i] \in Ages  BY <1>1, ElementOfSeq
<1>3. /\ events' \in Seq(Ages) /\ Len(events') = l
      /\ \A i \in 1..l : events'[i] = Older(events[i])
  <2>1. events' \in [1..l -> Ages]  BY <1>1, <1>2, OlderOK
  <2>2. Len(events') = l  BY <1>1, <2>1
  <2> QED  BY <1>1, <2>1, <2>2
<1>4. /\ \A k \in 1..(Limit + 1) : latest'[k] = Older(latest[k])
      /\ latest' \in [1..(Limit + 1) -> Ages]
  BY <1>1, OlderOK
<1>5. Remembered'
  <2> SUFFICES ASSUME NEW k \in 1..(Limit + 1)
               PROVE  latest'[k] = IF k <= l THEN events'[l + 1 - k] ELSE Window
    BY <1>1, <1>3 DEF Remembered
  <2>1. CASE k <= l
    <3>1. l + 1 - k \in 1..l  BY <1>1, <2>1
    <3>2. latest[k] = events[l + 1 - k]  BY <2>1 DEF RateInv, Remembered
    <3> QED  BY <1>3, <1>4, <2>1, <3>1, <3>2
  <2>2. CASE ~(k <= l)
    <3>1. latest[k] = Window  BY <2>2 DEF RateInv, Remembered
    <3> QED  BY <1>4, <2>2, <3>1 DEF Older
  <2> QED  BY <2>1, <2>2
<1>6. LatestFirst'
  BY <1>1, <1>4, OlderOK DEF RateInv, LatestFirst
<1>7. promise' \in 0..NoPromise /\ PromiseKept'
  <2>1. /\ promise \in 0..NoPromise /\ NoPromise = Window + 1
        /\ promise' = IF promise \in {0, NoPromise} THEN promise ELSE promise - 1
    BY DEF RateInv, Age, NoPromise
  <2>2. /\ latest[Limit] \in 0..Window /\ latest'[Limit] \in 0..Window
        /\ (latest'[Limit] = latest[Limit] + 1 \/ (latest[Limit] = Window /\ latest'[Limit] = Window))
    <3>1. Limit \in 1..(Limit + 1)  BY <1>1
    <3> QED  BY <1>1, <1>4, <3>1, OlderOK DEF Ages
  <2>3. promise' \in 0..NoPromise  BY <1>1, <2>1
  <2>4. ASSUME promise' # NoPromise  PROVE latest'[Limit] + promise' >= Window
    <3>1. promise # NoPromise /\ latest[Limit] + promise >= Window
      BY <1>1, <2>1, <2>4 DEF RateInv, PromiseKept
    <3> QED  BY <1>1, <2>1, <2>2, <3>1
  <2> QED  BY <2>3, <2>4 DEF PromiseKept, NoPromise
<1> QED  BY <1>3, <1>4, <1>5, <1>6, <1>7 DEF RateInv, Ages, NoPromise

\* The inductive invariant of the rate limit holds always.
THEOREM RateInvariance == RateSpec => []RateInv
<1>1. RateInv /\ [RateNext]_rateVars => RateInv'
  <2>1. RateInv /\ UNCHANGED rateVars => RateInv'
    BY DEF rateVars, RateInv, Remembered, LatestFirst, PromiseKept, NoPromise, Ages
  <2> QED  BY <2>1, AdmitOK, RejectOK, AgeOK DEF RateNext
<1> QED  BY <1>1, RateInitOK, PTL DEF RateSpec

\* No window of that length holds more than Limit calls the backend admitted.
THEOREM LimitKept == RateSpec => []WithinLimit
<1>1. RateInv => WithinLimit
  <2> SUFFICES ASSUME RateInv  PROVE WithinLimit
    OBVIOUS
  <2>1. Limit \in Nat /\ Len(events) \in Nat /\ Len(events) <= Limit
    BY RateAssumption DEF RateInv, Remembered
  <2>2. Limit + 1 \in 1..(Limit + 1) /\ ~(Limit + 1 <= Len(events))  BY <2>1
  <2> QED  BY <2>2 DEF RateInv, Remembered, WithinLimit
<1> QED  BY <1>1, RateInvariance, PTL

\* A call is only refused when the window that ends with it is full.
THEOREM RefusedOnlyWhenFull == RateSpec => NoNeedlessRefusal
<1>1. RateInv /\ [RateNext]_rateVars => [OnlyWhenFull]_rateVars
  <2> SUFFICES ASSUME RateInv, Reject  PROVE latest[Limit] < Window
    BY DEF OnlyWhenFull
  <2>1. Limit \in 1..Limit  BY RateAssumption
  <2> QED  BY <2>1, FullWhenRejected
<1> QED  BY <1>1, RateInvariance, PTL DEF RateSpec, NoNeedlessRefusal

\* Who waits for retry_after_seconds and is the first to call again is admitted.
THEOREM RetryAdmitted == RateSpec => []RetryAfterHolds
<1>1. RateInv => RetryAfterHolds
  <2> SUFFICES ASSUME RateInv, promise = 0  PROVE Len(Recent) < Limit
    BY DEF RetryAfterHolds
  <2>1. Limit \in Nat \ {0} /\ Window \in Nat /\ Limit \in 1..(Limit + 1)  BY RateAssumption
  <2>2. promise # NoPromise  BY <2>1 DEF NoPromise
  <2>3. latest[Limit] \in 0..Window /\ latest[Limit] + promise >= Window
    BY <2>1, <2>2 DEF RateInv, PromiseKept, Ages
  <2>4. ~(latest[Limit] < Window)  BY <2>1, <2>3
  <2>5. PICK n \in 0..Len(events) :
          /\ Len(Recent) = n
          /\ \A k \in 1..n : latest[k] < Window
    BY RecentIsYoung
  <2>6. n \in Nat  BY <2>5 DEF RateInv
  <2>7. Limit \notin 1..n  BY <2>4, <2>5
  <2> QED  BY <2>1, <2>5, <2>6, <2>7
<1> QED  BY <1>1, RateInvariance, PTL
=============================================================================
