------------------------------ MODULE MCExcute ------------------------------
(***************************************************************************)
(* Excute on scattered graphs of six vertices, with cycles, gaps and dead  *)
(* ends, and with a line from 0 to 1.  A limit may pass at once, in the    *)
(* preprocessing, in the search, or never.  The device methods on the      *)
(* index are asked once more: their host vectors and distances may be      *)
(* those of the query before the last.                                     *)
(***************************************************************************)
EXTENDS Excute

CONSTANT Some   \* which of the graphs

Lines(n) ==
    { <<v, w>> \in (0 .. 5) \X (0 .. 5) :
        (n * (2 * v + 1) * (3 * w + 2) + (n \div 5) * (v + 6 * w)) % 23 < 9 }
      \cup { <<0, 1>> }

MCGraph   == { Lines(n) : n \in Some }
MCQuery   == { <<0, 1>>, <<2, 4>>, <<5, 1>> }
MCMaxCalls == [m \in Method |->
                 IF m \in {"FPGA_IDX_DFS", "FPGA_IDX_DFS_Multi"} THEN 3 ELSE 2]
MCMoments == {2, 9, 34, Never}
=============================================================================
