-------------------------------- MODULE HcPE --------------------------------
(***************************************************************************)
(* The object CHcPE: the members its engines share, the flag g_exit they   *)
(* look at, and the breadth-first searches of the preprocessing.           *)
(*                                                                         *)
(* An engine is an operator from an object to the object it leaves.        *)
(* g_exit is set by another thread while an engine runs: "looks" counts    *)
(* the looks at it that still find it false.  An engine that has found it  *)
(* true is "cut"; "ret" is its return from the innermost loop.             *)
(***************************************************************************)
EXTENDS CsrGraph, SequencesExt

MAX_K == 15      \* the distance not yet known
Never == 100000  \* more looks than any engine takes: the flag stays false

(* memset of an array of ushort writes the value into either byte.         *)
Memset(byte) == 257 * byte

Vertices(o) == Ids(o.oGraph)
Unknown(o)  == [v \in Vertices(o) |-> MAX_K]

Look(o) == IF o.looks = 0 THEN [o EXCEPT !.ret = TRUE, !.cut = TRUE]
           ELSE [o EXCEPT !.looks = @ - 1]
Back(o) == [o EXCEPT !.ret = FALSE]

(* What a query meets on its way, for the properties.                      *)
Meets(o, what) == [o EXCEPT !.met = @ \cup {what}]

Count(o)     == [o EXCEPT !.iPathCount = @ + 1]
Visit(o, v)  == [o EXCEPT !.arrVisited = @ \cup {v}]
Leave(o, v)  == [o EXCEPT !.arrVisited = @ \ {v}]
Unvisited(o) == [o EXCEPT !.arrVisited = {}]

(* A breadth-first search goes on from a layer: front is the queue, and a  *)
(* vertex v may be entered up to layer cap[v].  At least one layer is      *)
(* searched, none past last.  The loops with a layer counter and those     *)
(* that compare the distance before they push are the same search.         *)
RECURSIVE Wave(_, _, _, _)
Wave(rows, cap, last, w) ==
    IF w.front = {} THEN w
    ELSE LET layer == w.layer + 1
             new   == { v \in UNION { Range(rows[u]) : u \in w.front } :
                          w.dist[v] = MAX_K /\ layer <= cap[v] }
             next  == [dist  |-> [v \in DOMAIN w.dist |->
                                    IF v \in new THEN layer ELSE w.dist[v]],
                       front |-> new, layer |-> layer,
                       found |-> w.found \cup new]
         IN  IF layer >= last THEN next ELSE Wave(rows, cap, last, next)

Start(o, v)    == [dist |-> [Unknown(o) EXCEPT ![v] = 0], front |-> {v},
                   layer |-> 0, found |-> {}]
Anywhere(o)    == Unknown(o)
Within(o, S)   == [v \in Vertices(o) |-> IF v \in S THEN MAX_K ELSE 0]
Known(dist)    == { v \in DOMAIN dist : dist[v] # MAX_K }

(* khopBackwardBFSWithBlock: the distances to the target around the        *)
(* vertices of the current path.                                           *)
BugBackwardBFSWithBlock(o, hop, block) ==
    Wave(o.oGraph.in, Within(o, Vertices(o)), hop, Start(o, o.iDst)).dist

BackwardBFSWithBlock(o, hop, block) ==
    Wave(o.oGraph.in, Within(o, Vertices(o) \ block), hop, Start(o, o.iDst)).dist
=============================================================================
