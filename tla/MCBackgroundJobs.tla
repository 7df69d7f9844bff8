------------------------- MODULE MCBackgroundJobs -------------------------
(* BackgroundJobs on small instances. *)
EXTENDS BackgroundJobs
=============================================================================
