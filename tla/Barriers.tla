------------------------------ MODULE Barriers ------------------------------
(***************************************************************************)
(* BC-DFS: a vertex from which the target was not found keeps a barrier,   *)
(* the hops known not to be enough, for as long as what blocked it may     *)
(* still be on the path.                                                   *)
(***************************************************************************)
EXTENDS HcPE

BugRaise(o, v, d) == [o EXCEPT !.arrBarrier[v] = d + 1]
Raise(o, v, d) == [o EXCEPT !.arrBarrier[v] = d]

(* BCDFSUpdateBarrier: a success lowers the barrier of the vertex, and of  *)
(* the vertices before it that are not on the path.                        *)
RECURSIVE UpdateBarrier(_, _, _, _)
UpdateBarrier(o, g, u, dist) ==
    LET Try(t, v) ==
          LET w == Look(t)
          IN  IF w.ret \/ v \in w.arrVisited THEN w
              ELSE Back(UpdateBarrier(w, g, v, dist + 1))
    IN  IF o.arrBarrier[u] > dist
        THEN FoldLeft(Try, Raise(o, u, dist), g.in[u])
        ELSE o

(* The result F is the number of hops to the target, k + 1 for none.       *)
RECURSIVE BCDFSRec(_, _, _, _)
BCDFSRec(o, g, u, iLayer) ==
    LET None == o.iK + 1
        Try(t, nbr) ==
          LET w == Look(t.o)
              r == BCDFSRec(w, g, nbr, iLayer + 1)
          IN  IF w.ret \/ nbr \in w.arrVisited
                       \/ iLayer + w.arrBarrier[nbr] + 1 > w.iK
              THEN [t EXCEPT !.o = w]
              ELSE [o |-> Back(r.o),
                    F |-> IF r.F # None /\ r.F + 1 < t.F THEN r.F + 1 ELSE t.F]
        out == IF iLayer < o.iK
               THEN FoldLeft(Try, [o |-> Visit(o, u), F |-> None], g.out[u])
               ELSE [o |-> Visit(o, u), F |-> None]
        marked == IF out.F = None THEN Raise(out.o, u, o.iK - iLayer + 1)
                  ELSE Back(UpdateBarrier(out.o, g, u, out.F))
    IN  IF u = o.iDst THEN [o |-> Count(o), F |-> 0]
        ELSE IF out.o.ret THEN out
        ELSE [out EXCEPT !.o = Leave(marked, u)]

InGraph(o, g) ==
    g.iVexNum # 0 /\ o.iSrc <= g.iMaxVerId /\ o.iDst <= g.iMaxVerId

(* The ids of the graph get new barriers, the others keep theirs.          *)
Barred(o, g, barrier) ==
    [o EXCEPT !.arrBarrier = [v \in DOMAIN @ |->
                                IF v \in Ids(g) THEN barrier[v] ELSE @[v]]]

NoBarrier(o) == [v \in Vertices(o) |-> 0]

BCDFSPathEnumCSR(o, g) ==
    IF InGraph(o, g)
    THEN Back(BCDFSRec(Barred(Unvisited(o), g, NoBarrier(o)), g, o.iSrc, 0).o)
    ELSE o

(* The version in use: a vertex that found nothing enters the lists B of   *)
(* its neighbours, to be unblocked with them.  The distance -1 of a vertex *)
(* without a result becomes 65535 as an unsigned short.                    *)
Ushort(f) == IF f = -1 THEN 65535 ELSE f

RECURSIVE unblock(_, _, _)
unblock(o, u, unreach_dis) ==
    LET low == IF o.arrBarrier[u] > unreach_dis
               THEN Raise(o, u, unreach_dis) ELSE o
        Try(t, v) ==
          LET w == Look(t)
          IN  IF w.ret \/ w.arrBarrier[v] <= unreach_dis + 1 THEN w
              ELSE [Back(unblock(w, v, unreach_dis + 1)) EXCEPT !.B[u] = @ \ {v}]
        set == SelectSeq(Upto(low.oGraph.iMaxVerId), LAMBDA v : v \in low.B[u])
    IN  FoldLeft(Try, low, set)

RECURSIVE FindKPaths(_, _, _, _, _)
FindKPaths(o, g, u, set, dist) ==
    LET Try(t, nbr) ==
          LET w == Look(t.o)
              r == FindKPaths(w, g, nbr, set \cup {u}, dist + 1)
          IN  IF w.ret THEN [t EXCEPT !.o = w]
              ELSE IF nbr = w.iDst
              THEN [o |-> Count(w), f |-> 0, unb |-> TRUE]
              ELSE IF nbr \in set \/ w.arrBarrier[nbr] + dist + 1 >= w.iK
              THEN [t EXCEPT !.o = w]
              ELSE [o |-> Back(r.o), f |-> r.f, unb |-> t.unb \/ r.f # -1]
        out == FoldLeft(Try, [o |-> Raise(o, u, o.iK - dist), f |-> 0,
                              unb |-> FALSE], g.out[u])
        Enter(t, nbr) ==
          LET w == Look(t)
          IN  IF w.ret THEN w ELSE [w EXCEPT !.B[nbr] = @ \cup {u}]
        end == IF out.unb THEN unblock(Back(out.o), u, Ushort(out.f))
               ELSE FoldLeft(Enter, Back(out.o), g.out[u])
    IN  IF dist >= o.iK THEN [o |-> o, f |-> -1]
        ELSE [o |-> Back(end), f |-> out.f]

BCDFSFrom(o, g, barrier) ==
    IF InGraph(o, g)
    THEN FindKPaths([Barred(o, g, barrier) EXCEPT !.B = [v \in DOMAIN @ |-> {}]],
                    g, o.iSrc, {}, 0).o
    ELSE o

BCDFSPathEnumCSR2(o, g) == BCDFSFrom(o, g, NoBarrier(o))

(* The barriers start from the distances to the target.                    *)
BCDFSPathEnumCSR2_BlockInitedBySDt(o, g) ==
    BCDFSFrom(o, g, [v \in Vertices(o) |-> IF o.arrSDu_t[v] # MAX_K
                                           THEN o.arrSDu_t[v] ELSE 0])
=============================================================================
