----------------------------- MODULE MCSubtask ------------------------------
(* Splitting the root of a job against thresholds of a few paths. *)
EXTENDS SplitJobs, Subtask
=============================================================================
