------------------------------- MODULE HopJob -------------------------------
(***************************************************************************)
(* The jobs a module is checked on, or proved about.  The assumption is    *)
(* what the host guarantees of the arguments of a kernel call; modules     *)
(* Prep and Subtask show that it does.                                     *)
(***************************************************************************)
EXTENDS HopPaths

CONSTANTS JobId,  \* names of the jobs considered
          Job     \* the job behind each name

ASSUME JobsAssumption == \A i \in JobId : JobOK(Job[i])

(* The results of every job, tabulated once.                               *)
ResultsOf == [i \in JobId |-> Results(Job[i])]
=============================================================================
