------------------------------ MODULE Searches ------------------------------
(***************************************************************************)
(* The searches that go from vertex to vertex along one path: C-DFS,       *)
(* T-DFS, T-DFS2, and the explicit stacks of PEFP and MYDFS with their     *)
(* recursive twin.  They differ in the neighbours they try and in what     *)
(* they know of the distance to the target.                                *)
(***************************************************************************)
EXTENDS HcPE

(* C-DFS: every neighbour that is not on the path, k hops deep.            *)
RECURSIVE CDFSRec(_, _, _)
CDFSRec(o, u, iLayer) ==
    LET in == Visit(o, u)
        Try(t, nbr) ==
          LET w == Look(t)
          IN  IF w.ret \/ nbr \in w.arrVisited THEN w
              ELSE Back(CDFSRec(w, nbr, iLayer + 1))
        out == IF u = o.iDst THEN Count(in)
               ELSE IF iLayer < o.iK THEN FoldLeft(Try, in, o.oGraph.out[u])
               ELSE in
    IN  IF out.ret THEN out ELSE Leave(out, u)

CDFSPathEnumCSR(o) == Back(CDFSRec(Unvisited(o), o.iSrc, 0))

(* T-DFS: only the neighbours from which the target can still be reached,  *)
(* in the hops that are left and around the path.  A call that   *)
(* found nothing although it was not cut is futile.                         *)
Near(o, sdt, iLayer, nbr) == iLayer + sdt[nbr] + 1 <= o.iK

RECURSIVE TDFSRec(_, _, _)
TDFSRec(o, u, iLayer) ==
    LET in  == Visit(o, u)
        sdt == BackwardBFSWithBlock(o, o.iK - iLayer, in.arrVisited)
        Try(t, nbr) ==
          LET w == Look(t)
          IN  IF w.ret \/ nbr \in w.arrVisited \/ ~ Near(o, sdt, iLayer, nbr)
              THEN w
              ELSE Back(TDFSRec(w, nbr, iLayer + 1))
        out == IF u = o.iDst THEN Count(in)
               ELSE FoldLeft(Try, in, o.oGraph.out[u])
        end == IF out.ret THEN out ELSE Leave(out, u)
    IN  IF iLayer > 0 /\ ~ end.cut /\ end.iPathCount = o.iPathCount
        THEN Meets(end, "futile") ELSE end

TDFSPathEnumCSR(o) == Back(TDFSRec(Unvisited(o), o.iSrc, 0))

(* T-DFS2: while a vertex has a single good neighbour the loop walks on    *)
(* to it, with the distances of the vertex it started from.  The vertices  *)
(* of the path are passed by value.                                        *)
RECURSIVE TDFS2Rec(_, _, _, _), TDFS2Walk(_, _, _, _, _)
TDFS2Rec(o, u, iLayer, visited) ==
    IF u = o.iDst THEN Count(o)
    ELSE TDFS2Walk(o, BackwardBFSWithBlock(o, o.iK - iLayer, visited \cup {u}),
                   u, iLayer, visited \cup {u})

TDFS2Walk(o, sdt, u, iLayer, visited) ==
    LET row      == o.oGraph.out[u]
        Good(nbr) == nbr \notin visited /\ Near(o, sdt, iLayer, nbr)
        Try(t, nbr) ==
          LET w == Look(t)
          IN  IF ~ w.ret /\ nbr = o.iDst /\ Good(nbr)
              THEN Back(TDFS2Rec(w, nbr, iLayer + 1, visited)) ELSE w
        Down(t, nbr) == Back(TDFS2Rec(t, nbr, iLayer + 1, visited))
        read     == FoldLeft(Try, o, row)
        good_nbr == SelectSeq(row, LAMBDA v : Good(v) /\ v # o.iDst)
    IN  IF iLayer >= o.iK THEN o
        ELSE IF read.ret \/ good_nbr = << >> THEN read
        ELSE IF Len(good_nbr) = 1
        THEN TDFS2Walk(read, sdt, Head(good_nbr), iLayer + 1,
                       visited \cup {Head(good_nbr)})
        ELSE FoldLeft(Down, read, good_nbr)

TDFS2PathEnumCSR(o) == Back(TDFS2Rec(o, o.iSrc, 0, {}))

(* The explicit stack, as in CpuDfs: the path and the siblings to be tried *)
(* lie mixed.  cutoff leaves a row at the first vertex that is too far,    *)
(* closing counts a vertex after k - 1 hops, whose distance of 1 stands    *)
(* for the last edge.                                                      *)
RECURSIVE StackLoop(_, _, _, _, _, _)
StackLoop(o, g, dst, rule, sta, iVisitedLen) ==
    LET w     == Look(o)
        v     == Last(sta)
        first == v \notin w.arrVisited
        len   == IF first THEN iVisitedLen + 1 ELSE iVisitedLen
        seen  == w.arrVisited \cup {v}
        Far(x)  == x \notin seen /\ len + o.arrSDu_t[x] > o.iK
        row     == IF first
                   THEN SelectInSeq(g.out[v], LAMBDA x : rule.cutoff /\ Far(x))
                   ELSE 0
        read    == IF ~ first THEN << >>
                   ELSE IF row = 0 THEN g.out[v] ELSE SubSeq(g.out[v], 1, row - 1)
        open    == SelectSeq(read, LAMBDA x : x \notin seen /\ ~ Far(x))
        Closes(x) == x = dst \/ (rule.closing /\ len = o.iK - 1)
        push    == SelectSeq(open, LAMBDA x : ~ Closes(x))
        new     == [w EXCEPT !.iPathCount = @ + Len(open) - Len(push)]
    IN  IF sta = << >> \/ w.ret THEN w
        ELSE IF push # << >>
        THEN StackLoop(Visit(new, v), g, dst, rule, sta \o push, len)
        ELSE StackLoop(Leave(new, v), g, dst, rule, Front(sta), len - 1)

StackSearch(o, g, src, dst, rule) ==
    IF g.iVexNum = 0 \/ src > g.iMaxVerId \/ dst > g.iMaxVerId THEN o
    ELSE Back(StackLoop(Unvisited(o), g, dst, rule, <<src>>, 0))

PEFPPathEnumCSR(o, g)   == StackSearch(o, g, o.iSrc, o.iDst,
                                       [cutoff |-> FALSE, closing |-> FALSE])
MYDFSPathEnumCSR(o, g, src, dst) == StackSearch(o, g, src, dst,
                                       [cutoff |-> TRUE, closing |-> TRUE])
MYDFSPathEnumCSR_2(o, g) == StackSearch(o, g, o.iSrc, o.iDst,
                                       [cutoff |-> FALSE, closing |-> TRUE])

(* MYDFSPathEnumCSR_1: the same search by recursion.                       *)
RECURSIVE MYDFSRec(_, _, _, _)
MYDFSRec(o, g, u, iLayer) ==
    LET Try(t, vt) ==
          LET w == IF t.brk THEN t ELSE Look(t)
          IN  IF w.brk \/ w.ret \/ vt \in w.arrVisited THEN w
              ELSE IF iLayer + o.arrSDu_t[vt] > o.iK
              THEN [w EXCEPT !.brk = TRUE]
              ELSE IF vt = o.iDst \/ iLayer = o.iK - 1 THEN Count(w)
              ELSE Back(MYDFSRec(w, g, vt, iLayer + 1))
        out == [FoldLeft(Try, [Visit(o, u) EXCEPT !.brk = FALSE], g.out[u])
                  EXCEPT !.brk = FALSE]
    IN  IF out.ret THEN out ELSE Leave(out, u)

MYDFSPathEnumCSR_1(o, g) ==
    IF g.iVexNum = 0 \/ o.iSrc > g.iMaxVerId \/ o.iDst > g.iMaxVerId THEN o
    ELSE Back(MYDFSRec(Unvisited(o), g, o.iSrc, 1))
=============================================================================
