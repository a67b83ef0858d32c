---------------------------- MODULE MCHostMulti -----------------------------
(* Two compute units, two calls. *)
EXTENDS HostMulti
=============================================================================
