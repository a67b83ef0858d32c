------------------------------- MODULE MyJoin -------------------------------
(***************************************************************************)
(* MYJOIN: the paths from the source of up to (k + 1) / 2 hops and those   *)
(* to the target of up to k / 2 hops, layer by layer, joined at their last *)
(* vertices: L(i) with R(i) and with R(i - 1).                             *)
(***************************************************************************)
EXTENDS HcPE

(* A row is left at the first vertex that is too far, although the rows of *)
(* Pre_DouKHopBFS are not sorted by distance here.                         *)
Reads(row, dist, i, k) ==
    LET far == SelectInSeq(row, LAMBDA v : dist[v] + i > k)
    IN  IF far = 0 THEN row ELSE SubSeq(row, 1, far - 1)

Extend(paths, rows, dist, i, k, stop) ==
    UNION { { Append(p, v) :
                v \in Range(Reads(rows[Last(p)], dist, i, k))
                        \ (Range(p) \cup {stop}) } : p \in paths }

(* The layers are built while g_exit is false, one look for each.          *)
RECURSIVE Layers(_, _, _, _, _, _)
Layers(t, rows, dist, stop, start, last) ==
    LET w == Look(t.o)
        i == Len(t.paths)
    IN  IF i > last \/ w.ret THEN IF i > last THEN t ELSE [t EXCEPT !.o = w]
        ELSE Layers([o |-> w,
                     paths |-> Append(t.paths,
                       IF i = 0 THEN { <<start>> }
                       ELSE Extend(t.paths[i], rows, dist, i, w.iK, stop))],
                    rows, dist, stop, start, last)

Layer0(paths, i) == IF i < Len(paths) THEN paths[i + 1] ELSE {}

(* JoinCounter: the pairs that meet in the vertex v and only there.        *)
Joined(L, R, v) ==
    Cardinality({ c \in { p \in L : Last(p) = v } \X { p \in R : Last(p) = v } :
                    \A n \in 2 .. Len(c[2]) - 1 :
                      \A m \in 2 .. Len(c[1]) : c[2][n] # c[1][m] })
JoinCounter(o, L, R) ==
    LET verts == SelectSeq(Upto(o.oGraph.iMaxVerId), LAMBDA v :
                   (\E p \in L : Last(p) = v) /\ (\E p \in R : Last(p) = v))
        At(t, v) == LET w == Look(t)
                    IN  IF w.ret THEN w
                        ELSE [w EXCEPT !.iPathCount = @ + Joined(L, R, v)]
    IN  Back(FoldLeft(At, o, verts))

NativeJoin(o, g, L, R) ==
    LET Round(t, i) ==
          LET w == Look(t)
              one == IF i = 1
                     THEN IF o.iDst \in Range(g.out[o.iSrc]) THEN Count(w) ELSE w
                     ELSE JoinCounter(w, Layer0(L, i), Layer0(R, i - 1))
          IN  IF w.ret THEN w
              ELSE IF i = o.iK \div 2 + 1 THEN one
              ELSE JoinCounter(one, Layer0(L, i), Layer0(R, i))
    IN  FoldLeft(Round, o, [i \in 1 .. (o.iK + 1) \div 2 |-> i])

MYJOINPathEnumCSR(o, g) ==
    LET l == Layers([o |-> o, paths |-> << >>], g.out, o.arrSDu_t, o.iDst,
                    o.iSrc, (o.iK + 1) \div 2)
        r == Layers([o |-> Back(l.o), paths |-> << >>], g.in, o.arrSDu_s,
                    o.iSrc, o.iDst, o.iK \div 2)
    IN  IF g.iVexNum = 0 \/ o.iSrc > g.iMaxVerId \/ o.iDst > g.iMaxVerId THEN o
        ELSE Back(NativeJoin(Back(r.o), g, l.paths, r.paths))
=============================================================================
