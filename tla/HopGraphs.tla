----------------------------- MODULE HopGraphs ------------------------------
(***************************************************************************)
(* Families of small jobs for model checking.  A graph is given by a set   *)
(* of edges; vertex 1 is the target (new_id 1 in the renumbering of        *)
(* Pre_DouHalfHopAndDouHalfHopBFS) and vertex 2 the source.  The pruning   *)
(* is the one the preprocessing performs: sdt is the distance to the       *)
(* target, an edge is kept when its head can still reach the target within *)
(* the bound, and the target has no out-edges.                             *)
(***************************************************************************)
EXTENDS Naturals, Sequences, FiniteSets

(* The same sequence; TLC computes all of its elements at once.            *)
Strict(s) == s \o << >>

(* Bit b of n: graphs and variants are numbered, so that a job is one of   *)
(* 0 .. N and its results can be tabulated.                                *)
Bit(n, b) == (n \div 2^b) % 2 = 1

(* The vertices at distance 0, at most 1, ... at most n from the target.   *)
Reach(V, E, n) ==
    LET W[m \in 0 .. n] ==
          IF m = 0 THEN << {1} >>
          ELSE LET s == W[m - 1]
               IN  Append(s, s[m] \cup
                               { v \in V : \E w \in s[m] : <<v, w>> \in E })
    IN  W[n]

MakeJob(n, E, k, split) ==
    LET V     == 1 .. n
        reach == Reach(V, E, k)
        adj   == [v \in V |->
                    SelectSeq([i \in V |-> i],
                              LAMBDA w : /\ v # 1 /\ <<v, w>> \in E
                                         /\ w \in reach[k])]
        heads == SelectSeq(adj[2], LAMBDA w : w > 2)
    IN  [adj |-> Strict(adj),
         sdt |-> Strict([v \in V |->
                           Cardinality({ m \in 1 .. k : v \notin reach[m] })]),
         dst |-> 1, k |-> k,
         tasks |-> IF split
                   THEN Strict([i \in 1 .. Len(heads) |-> <<2, heads[i]>>])
                   ELSE << <<2>> >>]

(* Every graph on the vertices 1 .. 4 whose edges leave 2, 3 and 4: eight  *)
(* possible edges, one bit each, and the direct edge from 2 to 1, which    *)
(* adds one result to any graph, present in every other one.               *)
Edge8 == << <<2,3>>, <<2,4>>, <<3,1>>, <<3,2>>, <<3,4>>,
            <<4,1>>, <<4,2>>, <<4,3>> >>
Graph8(n, direct) == { Edge8[b] : b \in { c \in 1 .. 8 : Bit(n, c - 1) } }
                       \cup IF direct THEN { <<2, 1>> } ELSE {}

(* Dense graphs on 1 .. 5: all twelve edges between 2 .. 5 but one or two, *)
(* and any set of edges into the target.                                   *)
Edge12 == << <<2,3>>, <<2,4>>, <<2,5>>, <<3,2>>, <<3,4>>, <<3,5>>,
             <<4,2>>, <<4,3>>, <<4,5>>, <<5,2>>, <<5,3>>, <<5,4>> >>
Dense(n) ==
    LET e    == (n \div 16) % 12
        gone == IF n < 192 THEN {1 + e} ELSE {1 + e, 1 + ((e + 5) % 12)}
    IN  { Edge12[i] : i \in (1 .. 12) \ gone }
          \cup { <<v, 1>> : v \in { u \in 2 .. 5 : Bit(n, u - 2) } }

MakeQuery(n, E, k) ==
    [out |-> Strict([v \in 1 .. n |-> { w \in 1 .. n : <<v, w>> \in E }]),
     src |-> 2, dst |-> 1, k |-> k]
=============================================================================
