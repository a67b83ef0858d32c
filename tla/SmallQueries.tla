---------------------------- MODULE SmallQueries ----------------------------
(* Queries from 2 to 1: on every graph of four vertices whose edges leave  *)
(* 2, 3 and 4, k = 1 .. 4, and on scattered graphs of six vertices with    *)
(* k = 4, 5, 6, where the second searches have several layers to go.       *)
EXTENDS HopGraphs

MCQueryId == 1 .. 1174

(* Every pair of six vertices but 1 and 2 in either order, one in three.   *)
Scattered(n) ==
    { <<v, w>> \in (1 .. 6) \X (1 .. 6) :
        /\ v # w /\ {v, w} # {1, 2}
        /\ (n * (2 * v + 1) * (3 * w + 2) + (n \div 5) * (v + 6 * w)) % 23 < 8 }

Queries == Strict([m \in MCQueryId |->
             IF m <= 1024
             THEN MakeQuery(4, Graph8(m % 256, m % 3 = 0) \cup { <<1, 3>> },
                            1 + ((m - 1) \div 256))
             ELSE MakeQuery(6, Scattered(m - 1024), 4 + (m % 3))])
MCQuery == Queries
=============================================================================
