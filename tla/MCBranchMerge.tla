----------------------------- MODULE MCBranchMerge -----------------------------
(* Instances of BranchMerge: a branch of the conversation and a branch of    *)
(* that branch.                                                              *)
EXTENDS BranchMerge, TLC

CONSTANTS b1, b2

Nested == (b1 :> Root) @@ (b2 :> b1)

Interchangeable == Permutations(Requests)
=============================================================================
