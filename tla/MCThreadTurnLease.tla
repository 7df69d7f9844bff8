------------------------- MODULE MCThreadTurnLease -------------------------
(* ThreadTurnLease on a small instance. *)
EXTENDS ThreadTurnLease, TLC

CONSTANTS a, b

\* A branch operation, which does not ask, and a turn that does, both on
\* two threads.
MCTurns == {a, b}
MCAsking == {b}
MCWants == a :> {1, 2} @@ b :> {1, 2}
=============================================================================
