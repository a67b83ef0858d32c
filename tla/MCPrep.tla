------------------------------- MODULE MCPrep -------------------------------
(* The preprocessing on small and on scattered graphs. *)
EXTENDS SmallQueries, Prep
=============================================================================
