---------------------------- MODULE FourVertices ----------------------------
(* Every graph on four vertices, with k = 3 from the source, k = 4 from    *)
(* the source and k = 4 from the subtasks a split of the source gives.     *)
EXTENDS HopGraphs

MCJobId == 1 .. 768
Table4  == Strict([n \in MCJobId |->
              MakeJob(4, Graph8(n % 256, n <= 256),
                      IF n <= 256 THEN 3 ELSE 4, n > 512)])
MCJob   == Table4
=============================================================================
