---------------------------- MODULE MCRunStream ----------------------------
(* RunStream on a small instance. *)
EXTENDS RunStream
=============================================================================
