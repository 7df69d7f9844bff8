--------------------------- MODULE MCHarnessRuns ---------------------------
(* HarnessRuns on small instances. *)
EXTENDS HarnessRuns, TLC

Symmetry == Permutations(Runs) \union Permutations(Cancellers)
=============================================================================
