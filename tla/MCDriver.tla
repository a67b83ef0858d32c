------------------------------ MODULE MCDriver ------------------------------
(* A few queries of a few paths: fewer when every query is answered twice. *)
EXTENDS Driver

MCArgs == { [method |-> m, comparer |-> c, queries |-> IF c = None THEN 3 ELSE 2] :
              m \in {"search", "fpga", "bcjoin"}, c \in {None, "search", "bcjoin"} }

(* BC-JOIN, not compared with anything.                                    *)
MCJoinArgs == { [method |-> "bcjoin", comparer |-> None, queries |-> 3] }
=============================================================================
