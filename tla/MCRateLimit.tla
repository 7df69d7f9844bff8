---------------------------- MODULE MCRateLimit ----------------------------
(* RateLimit on small instances. *)
EXTENDS RateLimit
=============================================================================
