----------------------------- MODULE SortedJobs -----------------------------
(* Jobs with the rows sorted by the distance to the target, as Prep leaves *)
(* them: dense graphs on five vertices, k = 4 and 5, from the source and   *)
(* from the subtasks of a split.                                           *)
EXTENDS HopGraphs

MCJobId == 1 .. 144
Sorted(row, sdt) ==
    LET At[d \in 0 .. 5] ==
          IF d = 0 THEN SelectSeq(row, LAMBDA w : sdt[w] = 0)
          ELSE At[d - 1] \o SelectSeq(row, LAMBDA w : sdt[w] = d)
    IN  At[5]
SortRows(j) ==
    [j EXCEPT !.adj = Strict([v \in 1 .. 5 |-> Sorted(j.adj[v], j.sdt)])]
SortTable == Strict([n \in MCJobId |->
                SortRows(MakeJob(5, Dense(((8 * n) % 384) + (n % 4)),
                                 4 + (n % 2), n > 48))])
MCJob == SortTable
=============================================================================
