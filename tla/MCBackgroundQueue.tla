------------------------- MODULE MCBackgroundQueue -------------------------
(* BackgroundQueue on small instances. *)
EXTENDS BackgroundQueue
=============================================================================
