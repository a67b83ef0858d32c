----------------------------- MODULE SplitJobs ------------------------------
(* Jobs for the splitting: dense graphs on five vertices with k = 4 and 5, *)
(* jobs too short to be split twice, jobs whose two-hop paths fan out      *)
(* further, and jobs whose source has so many neighbours that the queue    *)
(* overflows before it is safe to stop.                                    *)
EXTENDS HopGraphs

MCJobId == 1 .. 230

Fan(n)  == {<<2, 3>>, <<7, 1>>}
             \cup { <<3, v>> : v \in 4 .. 6 }
             \cup { <<v, w>> \in (4 .. 6) \X (4 .. 7) :
                      v # w /\ (n = 1 \/ v + w # 7 + n) }
Wide(n) == { <<v, w>> \in (2 .. 7) \X (1 .. 7) :
               v # w /\ w # 2 /\ (v + n * w) % 5 # 0 }

Jobs  == Strict([n \in MCJobId |->
            IF n <= 200 THEN MakeJob(5, Dense((2 * n) % 384), 4 + (n % 2), FALSE)
            ELSE IF n <= 220
            THEN MakeJob(4, Graph8((37 * n) % 256, TRUE), 2 + (n % 2), FALSE)
            ELSE IF n <= 224 THEN MakeJob(7, Fan(n - 220), 6, FALSE)
            ELSE MakeJob(7, Wide(n - 224), 4, FALSE)])
MCJob == Jobs
=============================================================================
