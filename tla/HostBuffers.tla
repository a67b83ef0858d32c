----------------------------- MODULE HostBuffers ----------------------------
(***************************************************************************)
(* CHost as the methods with one query at a time use it: the host vectors  *)
(* that the device buffers lie on, which are sized by the first call and   *)
(* adapted by the later ones, and deviceResults_, read after every call.   *)
(*                                                                         *)
(* The maximal sizes are local to a call: every call starts again from the *)
(* base sizes, whatever the vectors have grown to.  The kernels of these   *)
(* calls are not in the repository; an answer is what one reports.         *)
(***************************************************************************)
EXTENDS Naturals, Sequences

CONSTANTS BaseNode, BaseEdge,   \* iMaxNodeSize, iMaxEdgeSize of the multi call
          HostCores             \* its core_num

NewHost == [is_buffer_init_ |-> FALSE, node |-> 0, edge |-> 0,
            res |-> 0, err |-> 0, work |-> 0, over |-> FALSE]

Larger(a, b) == IF a > b THEN a ELSE b

(* PEFPOnFPGA, MYDFSOnFPGA2 and 3, and IDXDFSOnFPGA2: the vectors get the  *)
(* size of the graph, with one entry more where ids are moved up by one.   *)
(* An empty graph is answered at once, with the work counters of the call  *)
(* before.                                                                 *)
OneUnit(h, size, edges, empty, answer) ==
    IF empty THEN [h EXCEPT !.res = 0, !.err = 0]
    ELSE [is_buffer_init_ |-> TRUE, node |-> size, edge |-> edges,
          res |-> answer.res, err |-> answer.err, work |-> answer.work,
          over |-> FALSE]

PEFPOnFPGA(h, nodes, edges, answer) ==
    OneUnit(h, nodes + 1, edges, edges = 0 \/ nodes = 1, answer)
MYDFSOnFPGA2(h, nodes, edges, answer) ==
    OneUnit(h, nodes, edges, edges = 0 \/ nodes = 1, answer)
MYDFSOnFPGA3(h, nodes, edges, answer) ==
    OneUnit(h, nodes + 1, edges, edges = 0 \/ nodes = 1, answer)
IDXDFSOnFPGA2(h, nodes, edges, answer) ==
    OneUnit(h, nodes + 1, edges, nodes = 0 \/ edges = 0, answer)

(* IDXDFSOnFPGA_Multi2: the first call makes room for every compute unit.  *)
(* A later one that needs more than the base sizes makes room for one, and *)
(* so much is all the calls after it have; each unit's part starts at a    *)
(* multiple of the maximal size.                                           *)
BugGrown(h, have, need, base) ==
    IF ~ h.is_buffer_init_ \/ need > have THEN need * HostCores ELSE have
Grown(h, have, need, base) ==
    IF ~ h.is_buffer_init_ THEN Larger(need, base) * HostCores
    ELSE IF need > base THEN need ELSE have

WritesUpTo(need, base) == (HostCores - 1) * Larger(need, base) + need

RECURSIVE SumOf(_, _)
SumOf(s, n) == IF n = 0 THEN 0 ELSE s[n] + SumOf(s, n - 1)

IDXDFSOnFPGA_Multi2(h, nodes, edges, answers) ==
    LET node == Grown(h, h.node, nodes + 1, BaseNode)
        edge == Grown(h, h.edge, edges, BaseEdge)
        Sum(f(_)) == SumOf([c \in 1 .. HostCores |-> f(answers[c])], HostCores)
    IN  IF nodes = 0 \/ edges = 0
        THEN [h EXCEPT !.res = 0, !.err = 0, !.work = 0]
        ELSE [is_buffer_init_ |-> TRUE, node |-> node, edge |-> edge,
              res  |-> Sum(LAMBDA a : a.res),
              err  |-> answers[HostCores].err,
              work |-> Sum(LAMBDA a : a.work),
              over |-> \/ WritesUpTo(nodes + 1, BaseNode) > node
                       \/ WritesUpTo(edges, BaseEdge) > edge]

(* MYDFSOnFPGA_Multi: as above with a part of the vectors for every        *)
(* compute unit.  The error codes are added up, the work counters are      *)
(* added to those of the call before.                                      *)
MYDFSOnFPGA_Multi(h, nodes, edges, answers) ==
    LET Sum(f(_)) == SumOf([c \in 1 .. HostCores |-> f(answers[c])], HostCores)
    IN  IF edges = 0 \/ nodes = 1 THEN [h EXCEPT !.res = 0, !.err = 0]
        ELSE [is_buffer_init_ |-> TRUE,
              node |-> nodes * HostCores, edge |-> edges * HostCores,
              res  |-> Sum(LAMBDA a : a.res),
              err  |-> Sum(LAMBDA a : a.err),
              work |-> h.work + Sum(LAMBDA a : a.work),
              over |-> FALSE]

(* The vectors, which have room for every compute unit, are sized again.   *)
Resized(h, nodes, edges) ==
    /\ h.is_buffer_init_ /\ nodes # 0 /\ edges # 0
    /\ nodes + 1 > BaseNode \/ edges > BaseEdge

(* Its return value: no compute unit has failed.                           *)
AllServed(nodes, edges, answers) ==
    nodes = 0 \/ edges = 0 \/ \A c \in 1 .. HostCores : answers[c].err = 0
=============================================================================
