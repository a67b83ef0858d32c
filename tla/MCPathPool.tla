----------------------------- MODULE MCPathPool -----------------------------
(* The pool on every graph with four vertices. *)
EXTENDS FourVertices, PathPool
=============================================================================
