--------------------------- MODULE MCRunDataflow ----------------------------
(* Batches of three paths of different lengths over dense graphs: with     *)
(* MaxOut = 7, two paths of three edges fill the streams exactly.          *)
EXTENDS HopGraphs, RunDataflow

MCJobId  == 1 .. 30
Mixed(n) == IF n <= 15 THEN << <<2, 3>>, <<2, 5, 3>>, <<2, 4>> >>
                       ELSE << <<2, 5, 3>>, <<2, 4>>, <<2, 3>> >>
Batches  == Strict([n \in MCJobId |->
                      [MakeJob(5, Dense(145 + (n % 15)), 4, FALSE)
                         EXCEPT !.tasks = Mixed(n)]])
MCJob    == Batches
=============================================================================
