------------------------------- MODULE MCMYDFS ------------------------------
(* The kernel, with sizes that every limit is reached. *)
EXTENDS KernelJobs, MYDFS
=============================================================================
