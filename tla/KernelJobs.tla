----------------------------- MODULE KernelJobs -----------------------------
(* Jobs for the kernel: every graph on four vertices with k = 4, from the  *)
(* source and from the subtasks of a split; dense graphs on five vertices  *)
(* with k = 4 and 5, whose search spills and fails; and graphs on seven    *)
(* vertices that fan out, some of them too far.                            *)
EXTENDS HopGraphs

MCJobId == 1 .. 562

(* Two to five edges from 2 or 3 to 4 .. 7, which lead to one another and  *)
(* to 1.                                                                   *)
Star(n) == { <<v, w>> \in (4 .. 7) \X {1, 4, 5, 6, 7} : v # w }
             \cup { <<2, 3>>, <<3, 1>> }
             \cup { <<2 + (n % 2), v>> : v \in 4 .. 5 + (n \div 2) }

Jobs  == Strict([n \in MCJobId |->
            IF n <= 256 THEN MakeJob(4, Graph8(n % 256, n % 3 = 0), 4, n % 2 = 0)
            ELSE IF n <= 556
            THEN MakeJob(5, Dense(n % 384), IF n % 3 = 0 THEN 5 ELSE 4, FALSE)
            ELSE MakeJob(7, Star(n - 557), 5, FALSE)])
MCJob == Jobs
=============================================================================
