----------------------------- MODULE BiSubtask ------------------------------
(***************************************************************************)
(* FPGA_IDX_DFS and FPGA_IDX_DFS_Multi: the vertices of the index are      *)
(* numbered anew from 1, and the root is split breadth first on the index  *)
(* into tasks for the compute units.  A task is a partial path of the new  *)
(* numbers.                                                                *)
(***************************************************************************)
EXTENDS BiGraph

CONSTANT TaskMax   \* generate_max_num, 64 in the code

(* Pre_BiGraphIDX_Shrink: the target gets the last number.  The hash map   *)
(* is walked in an order of its own; here it is that of the old ids.       *)
Nodemap(o) ==
    LET row  == DOMAIN o.idx.fwd
        rank == [v \in row |-> Cardinality({ u \in row : u <= v })]
    IN  [v \in row \cup {o.iDst} |->
           IF v = o.iDst THEN Cardinality(row) + 1 ELSE rank[v]]

(* nodemap[iSrc_] after the renumbering: of an index that was not built    *)
(* the map is empty, and the operator enters 0.                            *)
SourceId(o) == IF o.idx.built THEN Nodemap(o)[o.iSrc] ELSE 0

MapRow(map, row) == [row EXCEPT !.adj = [n \in DOMAIN @ |-> map[@[n]]]]

Pre_BiGraphIDX_Shrink(o) ==
    LET map     == Nodemap(o)
        Old(i)  == CHOOSE v \in DOMAIN map : map[v] = i
        last    == Cardinality(DOMAIN o.idx.fwd)
    IN  IF ~ o.idx.built THEN o
        ELSE [o EXCEPT !.idx.fwd = [i \in 1 .. last |-> MapRow(map, @[Old(i)])]]

(* generate_subtask_on_bigraph: one path after another is replaced by its  *)
(* extensions, until they would be too many or the paths reach past the    *)
(* middle.  With less than three hops nothing is read or split.            *)
RECURSIVE SplitOnIndex(_, _, _)
SplitOnIndex(o, t, qpath) ==
    LET p    == Head(qpath)
        hop  == Len(p) - 1
        nbrs == RowWithin(o.idx.fwd[Last(p)], o.iK - hop - 1)
        Done(v) == v = t \/ (v \notin Range(p) /\ hop = o.iK - 2)
        on   == SelectSeq(nbrs, LAMBDA v : v \notin Range(p) /\ ~ Done(v))
        ends == SelectSeq(nbrs, Done)
    IN  IF qpath = << >> THEN [o EXCEPT !.tasks = qpath]
        ELSE IF hop > o.iK \div 2 \/ Len(qpath) + Len(nbrs) > TaskMax
        THEN [o EXCEPT !.tasks = qpath]
        ELSE SplitOnIndex([o EXCEPT !.iPathCount = @ + Len(ends)], t,
                          Tail(qpath) \o [n \in DOMAIN on |-> Append(p, on[n])])

generate_subtask_on_bigraph(o, u, t) ==
    IF o.iK < 3 THEN [o EXCEPT !.tasks = << <<u>> >>]
    ELSE OnIndex(o, SplitOnIndex(o, t, << <<u>> >>))

(* What the index still allows from a task: the search IDX-DFS makes, and  *)
(* the kernel of IDXDFSOnFPGA_Multi2 on every compute unit.                *)
RECURSIVE Completions(_, _, _)
Completions(o, t, p) ==
    LET nbrs == RowWithin(o.idx.fwd[Last(p)], o.iK - Len(p))
        Each(n, v) ==
          n + IF v = t THEN 1
              ELSE IF v \in Range(p) THEN 0
              ELSE IF Len(p) = o.iK - 1 THEN 1
              ELSE Completions(o, t, Append(p, v))
    IN  FoldLeft(Each, 0, nbrs)

(* active_vertices_count_ and single_bigraph_adj_size_; the last number.   *)
IdxNodes(o)  == Cardinality(DOMAIN o.idx.fwd)
IdxEdges(o)  == FoldLeft(LAMBDA n, v : n + Len(o.idx.fwd[v].adj), 0,
                         SetToSeq(DOMAIN o.idx.fwd))
IdxTarget(o) == IdxNodes(o) + 1
=============================================================================
