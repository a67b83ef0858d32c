------------------------------ MODULE MCCpuDfs ------------------------------
(* The search on the CPU over dense graphs of five vertices. *)
EXTENDS SortedJobs, CpuDfs
=============================================================================
