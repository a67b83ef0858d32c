----------------------------- MODULE Preprocess -----------------------------
(***************************************************************************)
(* The preprocessing of the CPU methods: searches from both ends bound the *)
(* distances, and the vertices they agree on induce the subgraph that is   *)
(* searched.  The variants differ in how far they go from each end and in  *)
(* which vertices a search may enter.                                      *)
(***************************************************************************)
EXTENDS HcPE

HalfUp(o)   == (o.iK + 1) \div 2
HalfDown(o) == o.iK \div 2

(* The edges between the vertices of setInduce, none leaving the target.   *)
Induce(o, sds, sdt, set, sds_order, sdt_order) ==
    LET V == set \cup {o.iSrc, o.iDst}
        E == { e \in (V \ {o.iDst}) \X V : e[2] \in Range(o.oGraph.out[e[1]]) }
        Key(order, dist) == IF order THEN dist ELSE [v \in Vertices(o) |-> 0]
    IN  [o EXCEPT !.arrSDu_s = sds, !.arrSDu_t = sdt,
                  !.oSubGraph = CreateSubGraphCSR(E, Key(sds_order, sds),
                                                  Key(sdt_order, sdt))]

Nothing(o, sds, sdt) ==
    [o EXCEPT !.arrSDu_s = sds, !.arrSDu_t = sdt, !.oSubGraph = NoGraph]

Forward(o, last, w)       == Wave(o.oGraph.out, Anywhere(o), last, w)
Backward(o, cap, last, w) == Wave(o.oGraph.in, cap, last, w)

(* Pre_DouKHopBFS: hop layers from the source, then hop layers from the    *)
(* target over what was found.                                             *)
Pre_DouKHopBFS(o, hop, sds_order, sdt_order) ==
    LET f == Forward(o, hop, Start(o, o.iSrc))
        b == Backward(o, Within(o, Known(f.dist)), hop, Start(o, o.iDst))
    IN  Induce(o, f.dist, b.dist, b.found, sds_order, sdt_order)

(* Half of the hops from either end; the vertices found are searched once  *)
(* more from the target, which gives their exact distances.                *)
Halves(o) == [f |-> Forward(o, HalfUp(o), Start(o, o.iSrc)),
              b |-> Backward(o, Anywhere(o), HalfDown(o), Start(o, o.iDst))]

Again(o, h) == Backward(o, Within(o, Known(h.f.dist) \cup Known(h.b.dist)),
                        o.iK - 1, Start(o, o.iDst))

Overlay(dist, over) ==
    [v \in DOMAIN dist |-> IF over[v] # MAX_K THEN over[v] ELSE dist[v]]

Pre_DouHalfHopBFS(o, sds_order, sdt_order) ==
    LET h == Halves(o)
        b == Again(o, h)
    IN  Induce(o, h.f.dist, Overlay(h.b.dist, b.dist), b.found,
               sds_order, sdt_order)

(* The same with labels in place of the first distances.                   *)
Pre_DouHalfHopBFS_1(o, sds_order, sdt_order) ==
    LET b == Again(o, Halves(o))
    IN  Induce(o, Start(o, o.iSrc).dist, b.dist, b.found, sds_order, sdt_order)

(* The search from the target goes on over what the source has found.  In  *)
(* the first version the vertices it finds are put on the queue q, while   *)
(* the loop takes from q1: it goes on for one layer only.                  *)
SigHalfHop(o, last) ==
    LET h == Halves(o)
        b == Backward(o, Within(o, Known(h.f.dist)), last, h.b)
    IN  [f |-> h.f, b |-> b]

Pre_DouHalfHopAndSigHalfHopBFS(o, sds_order, sdt_order) ==
    LET h == SigHalfHop(o, 0)
    IN  Induce(o, h.f.dist, h.b.dist, h.b.found, sds_order, sdt_order)

Pre_DouHalfHopAndSigHalfHopBFS_1(o, sds_order, sdt_order) ==
    LET h == SigHalfHop(o, o.iK - 1)
    IN  Induce(o, Start(o, o.iSrc).dist, h.b.dist, h.b.found,
               sds_order, sdt_order)

(* Both searches go on from the middle, to the vertices that can still lie *)
(* on a path that is short enough.                                         *)
BugRoom(o, far) == [v \in DOMAIN far |-> IF far[v] >= o.iK THEN 0
                                         ELSE o.iK - far[v] - 1]
Room(o, far) == [v \in DOMAIN far |-> IF far[v] > o.iK THEN 0
                                      ELSE o.iK - far[v]]
OnFromHalves(o, h) ==
    LET f == Wave(o.oGraph.out, Room(o, h.b.dist), o.iK - 1,
                  [h.f EXCEPT !.layer = HalfUp(o), !.found = {}])
        b == Wave(o.oGraph.in, Room(o, f.dist), o.iK - 1,
                  [h.b EXCEPT !.layer = HalfDown(o), !.found = {}])
    IN  [f |-> f, b |-> b]

Meeting(h) == { v \in h.b.found : h.f.dist[v] # MAX_K }

Pre_DouHalfHopAndSigHalfHopBFS_2(o, sds_order, sdt_order) ==
    LET h == Halves(o)
        n == OnFromHalves(o, h)
    IN  IF Meeting(h) = {} THEN Nothing(o, h.f.dist, h.b.dist)
        ELSE Induce(o, n.f.dist, n.b.dist,
                    h.b.found \cup n.f.found \cup n.b.found,
                    sds_order, sdt_order)

Pre_DouHalfHopAndDouHalfHopBFS(o, sds_order, sdt_order) ==
    LET h == Halves(o)
        n == OnFromHalves(o, h)
    IN  IF Meeting(h) = {} THEN Nothing(o, h.f.dist, h.b.dist)
        ELSE Induce(o, n.f.dist, n.b.dist,
                    Meeting(h) \cup n.f.found \cup n.b.found,
                    sds_order, sdt_order)

(* The variant with nodemap, for FAPE: vertices and edges that are too far *)
(* from both ends are left out, and the rest is numbered from 1, near the  *)
(* target first.  The last bucket is not numbered: a source in it becomes  *)
(* 0, as do all keys that operator[] does not find.  The distances move to *)
(* the new numbers; entries past them keep what they had.                  *)
Renumbered(o, sds, sdt, set, sds_order, sdt_order) ==
    LET Stays(v) == v \in {o.iSrc, o.iDst} \/ sds[v] + sdt[v] <= o.iK
        E == { e \in (set \ {o.iDst}) \X set :
                 /\ Stays(e[1]) /\ e[2] \in Range(o.oGraph.out[e[1]])
                 /\ sds[e[1]] + 1 + sdt[e[2]] <= o.iK }
        Indegree(v) == Cardinality({ e \in E : e[2] = v })
        Before(a, b) == \/ sdt[a] < sdt[b]
                        \/ /\ sdt[a] = sdt[b]
                           /\ \/ Indegree(a) > Indegree(b)
                              \/ Indegree(a) = Indegree(b) /\ a < b
        old == SetToSortSeq({ v \in set : Stays(v) /\ sdt[v] < o.iK }, Before)
        NewId(v) == IF v \in Range(old) THEN CHOOSE i \in DOMAIN old : old[i] = v
                    ELSE 0
        Moved(dist) == [i \in Vertices(o) \cup (0 .. Cardinality(set)) |->
                          IF i \in DOMAIN old THEN dist[old[i]]
                          ELSE IF i <= Cardinality(set) THEN MAX_K ELSE dist[i]]
        Key(order, dist) == IF order THEN Moved(dist) ELSE [i \in Nat |-> 0]
    IN  [o   |-> [o EXCEPT !.arrSDu_s = Moved(sds), !.arrSDu_t = Moved(sdt),
                    !.oSubGraph = CreateSubGraphCSR(
                        { <<NewId(e[1]), NewId(e[2])>> : e \in E },
                        Key(sds_order, sds), Key(sdt_order, sdt))],
         src |-> NewId(o.iSrc), dst |-> NewId(o.iDst)]

Pre_DouHalfHopAndDouHalfHopBFS_nodemap(o, sds_order, sdt_order) ==
    LET h == Halves(o)
        n == OnFromHalves(o, h)
    IN  IF Meeting(h) = {}
        THEN [o |-> Nothing(o, h.f.dist, h.b.dist), src |-> 0, dst |-> 0]
        ELSE Renumbered(o, n.f.dist, n.b.dist,
                        Meeting(h) \cup n.f.found \cup n.b.found
                          \cup {o.iSrc, o.iDst},
                        sds_order, sdt_order)
=============================================================================
