------------------------------ MODULE BiGraph -------------------------------
(***************************************************************************)
(* The index of IDX-DFS and IDX-JOIN: two searches of k - 1 layers give    *)
(* every vertex its distances from the source and to the target            *)
(* (distance_); the vertices on short enough walks go into buckets by both *)
(* distances, and get a row of successors sorted by the distance to the    *)
(* target, and one of predecessors by the distance from the source, with   *)
(* the offsets at which every distance starts.                             *)
(*                                                                         *)
(* distance_ is not cleared when the construction starts but when it ends, *)
(* and then perhaps only in part.                                          *)
(***************************************************************************)
EXTENDS HcPE

CONSTANTS JoinThreshold,  \* results estimated from which a join is planned
          ClearRatio      \* 16 * 8: vertices to a found one, for ClearedAt

(* The array is cleared by memset, or, in a graph with more than 128 times *)
(* the vertices that the forward search has found, at these alone, with    *)
(* k + 1: what a construction that was cut has left elsewhere stays.       *)
(* Either value is too far.                                                *)
Far(o) == Memset(o.iK + 1)
BugClearedAt(d, found, far) == [v \in DOMAIN d |-> IF v \in found THEN 65535 ELSE d[v]]
ClearedAt(d, found, far) == [v \in DOMAIN d |-> IF v \in found THEN far ELSE d[v]]

FarAway(o, found) ==
    LET few == Cardinality(Vertices(o)) \div Cardinality(found) > ClearRatio
        At(d) == IF few THEN ClearedAt(d, found, o.iK + 1)
                 ELSE ClearedAt(d, DOMAIN d, Far(o))
    IN  [o EXCEPT !.distance = [first |-> At(@.first), second |-> At(@.second)],
                  !.arrVisited = IF few THEN @ \ found ELSE {}]

(* What clear_bigraph leaves: the arrays are freed, and null.              *)
NoIndex == [built |-> FALSE, active |-> << >>, fwd |-> << >>, rev |-> << >>,
            bucket |-> << >>]

(* One of the two searches, along rows, writing one side of distance_.     *)
RECURSIVE IdxBFS(_, _, _, _)
IdxBFS(o, rows, side, q) ==
    LET w == Look(o)
        v == Head(q)
        d == w.distance[side][v] + 1
        Fits(t, vv) == side = "second" => t.distance.first[vv] + d <= t.iK
        Try(t, vv) ==
          LET x == Look(t.o)
          IN  IF x.ret \/ vv \in x.arrVisited \/ ~ Fits(x, vv)
              THEN [t EXCEPT !.o = x]
              ELSE [o |-> [Visit(x, vv) EXCEPT !.distance[side][vv] = d],
                    q |-> Append(t.q, vv), new |-> Append(t.new, vv)]
        next == FoldLeft(Try, [o |-> w, q |-> Tail(q), new |-> << >>],
                         IF d < w.iK THEN rows[v] ELSE << >>)
    IN  IF q = << >> \/ w.ret THEN IF q = << >> THEN o ELSE w
        ELSE IF next.o.ret THEN next.o
        ELSE IdxBFS([next.o EXCEPT !.idx.active =
                       IF side = "second" THEN @ \o next.new ELSE @],
                    rows, side, next.q)

SearchFrom(o, rows, side, v) ==
    IdxBFS([o EXCEPT !.arrVisited = {o.iSrc, o.iDst},
                     !.distance[side][v] = 0], rows, side, <<v>>)

(* A row of the index: the neighbours by their class, and off[j], where    *)
(* class j starts.  The end of the walk, the target or the source, is in   *)
(* class 0; a neighbour that was not found is in none.                     *)
IndexRow(o, nbrs, end, side) ==
    LET In(v, j) == IF v = end THEN j = 0
                    ELSE v \in o.arrVisited /\ o.distance[side][v] = j
        adj[j \in 0 .. o.iK] ==
          IF j = 0 THEN << >>
          ELSE adj[j - 1] \o SelectSeq(nbrs, LAMBDA v : In(v, j - 1))
    IN  [adj |-> adj[o.iK], off |-> [j \in 0 .. o.iK |-> Len(adj[j])]]

(* The neighbours that can still get there within the budget.              *)
BugRowWithin(row, budget) == SubSeq(row.adj, 1, row.off[budget])
RowWithin(row, budget) == SubSeq(row.adj, 1, row.off[budget + 1])

BuildIndex(o) ==
    LET act == o.idx.active
    IN  [o.idx EXCEPT
           !.built = TRUE,
           !.fwd = [v \in Range(act) \cup {o.iSrc} |->
                      IndexRow(o, o.oGraph.out[v], o.iDst, "second")],
           !.rev = [v \in Range(act) \cup {o.iDst} |->
                      IndexRow(o, o.oGraph.in[v], o.iSrc, "first")],
           !.bucket = [b \in (0 .. o.iK) \X (0 .. o.iK) |->
                         SelectSeq(act, LAMBDA v :
                           /\ o.distance.first[v] = b[1]
                           /\ o.distance.second[v] = b[2])]]

(* Pre_BiGraphIDX returns as soon as it finds g_exit set, and leaves the   *)
(* index unbuilt and distance_ as it is.                                   *)
Pre_BiGraphIDX(o) ==
    LET f == SearchFrom(o, o.oGraph.out, "first", o.iSrc)
        b == SearchFrom(f, o.oGraph.in, "second", o.iDst)
    IN  IF f.ret THEN Back(f) ELSE IF b.ret THEN Back(b)
        ELSE [FarAway(b, f.arrVisited) EXCEPT !.idx = BuildIndex(b)]

clear_bigraph(o) == [o EXCEPT !.idx = NoIndex]

(* The search on the index reads the offsets of the source before it looks *)
(* at g_exit, and so does a splitting of three or more hops; of an index   *)
(* that was not built they are a null pointer.                             *)
OnIndex(o, then) == IF o.idx.built THEN then ELSE Meets(o, "null")

NoPlan == [cut |-> 0, left |-> 0, right |-> 0, join |-> FALSE]

-----------------------------------------------------------------------------
(* IDX-DFS.                                                                *)

RECURSIVE IDXDFSRec(_, _, _)
IDXDFSRec(o, u, k) ==
    LET Try(t, v) ==
          LET w == Look(t)
          IN  IF w.ret THEN w
              ELSE IF v = w.iDst \/ (v \notin w.arrVisited /\ k + 1 = w.iK - 1)
              THEN Count(w)
              ELSE IF v \in w.arrVisited THEN w
              ELSE IDXDFSRec(w, v, k + 1)
    IN  Leave(Back(FoldLeft(Try, Visit(o, u),
                            RowWithin(o.idx.fwd[u], o.iK - k - 1))), u)

IDXDFSPathEnumCSR(o) == OnIndex(o, IDXDFSRec(Unvisited(o), o.iSrc, 0))

-----------------------------------------------------------------------------
(* The plan of a join: the walks to the target, and from the source, of    *)
(* every length are counted, with two arrays that are swapped and not      *)
(* cleared in between, and the cut is set where the partial results are    *)
(* fewest.                                                                 *)

SumOver(s, val) == FoldLeft(LAMBDA n, v : n + val[v], 0, s)

InBuckets(o, near, far) ==   \* near and far bound the second and the first
    FlattenSeq([n \in 1 .. near * far |->
                  o.idx.bucket[<<1 + ((n - 1) % far), 1 + ((n - 1) \div far)>>]])

Walks(o, rows, end, Verts) ==
    LET Step(t, budget) ==
          LET val == [t.prev EXCEPT ![end] = 1]
              cur == [v \in Vertices(o) |->
                        IF v \in Range(Verts[budget])
                        THEN SumOver(RowWithin(rows[v], budget - 1), val)
                        ELSE t.cur[v]]
          IN  [prev |-> cur, cur |-> t.prev,
               num  |-> Append(t.num, SumOver(Verts[budget], cur))]
        zero == [v \in Vertices(o) |-> 0]
    IN  FoldLeft(Step, [prev |-> zero, cur |-> zero, num |-> << >>],
                 [b \in 1 .. o.iK - 1 |-> b])

WalksTo(o)   == Walks(o, o.idx.fwd, o.iDst,
                      [b \in 1 .. o.iK - 1 |-> InBuckets(o, b, o.iK - b)])
WalksFrom(o) == Walks(o, o.idx.rev, o.iSrc,
                      [b \in 1 .. o.iK - 1 |-> InBuckets(o, o.iK - b, b)])

Cheapest(o, to, from) ==
    LET cost(i) == to.num[i] + from.num[o.iK - i]
    IN  CHOOSE n \in 1 .. o.iK - 1 :
          \A m \in 1 .. o.iK - 1 :
            IF m < n THEN cost(n) < cost(m) ELSE cost(n) <= cost(m)

Planned(o, to, from, i) ==
    LET all   == SumOver(o.idx.fwd[o.iSrc].adj, [to.prev EXCEPT ![o.iDst] = 1])
        left  == from.num[o.iK - i]
        right == to.num[i]
    IN  [o EXCEPT !.plan =
           [cut  |-> o.iK - i, left |-> left, right |-> right,
            join |-> left + right + (all * 105) \div 100
                       < FoldLeft(LAMBDA n, m : n + m, 0, from.num)]]

PlannedBy(o, to, from) == Planned(o, to, from, Cheapest(o, to, from))

(* With one hop there is nothing to cut.                                   *)
generate_single_join_plan(o) ==
    IF o.iK = 1 THEN [o EXCEPT !.plan = NoPlan]
    ELSE PlannedBy(o, WalksTo(o), WalksFrom(o))

(* preliminary_cardinality_estimator: the mean degrees, multiplied.        *)
EstimatedMany(o) ==
    LET k == o.iK
        Mean(i) ==
          LET s == InBuckets(o, k - i, i)
              d == 1 + FoldLeft(LAMBDA n, v : n + o.idx.fwd[v].off[k - i], 0, s)
              m == d \div (1 + Len(s))
          IN  IF m > 1 THEN m ELSE 1
    IN  FoldLeft(LAMBDA n, i : n * Mean(i), o.idx.fwd[o.iSrc].off[k],
                 [i \in 1 .. k - 1 |-> i]) > JoinThreshold

-----------------------------------------------------------------------------
(* IDX-JOIN: the paths from the source up to the cut, and those from there *)
(* to the target, are stored, and joined where they meet.                  *)

RECURSIVE left_dfs(_, _, _), right_dfs(_, _, _)
left_dfs(o, path, k) ==
    LET u == Last(path)
        Try(t, v) ==
          LET w == Look(t)
          IN  IF w.ret THEN w
              ELSE IF v = w.iDst THEN Count(w)
              ELSE IF v \in w.arrVisited THEN w
              ELSE IF k + 1 = w.plan.cut
              THEN [w EXCEPT !.left = Append(@, Append(path, v))]
              ELSE left_dfs(w, Append(path, v), k + 1)
    IN  Leave(Back(FoldLeft(Try, Visit(o, u),
                            RowWithin(o.idx.fwd[u], o.iK - k - 1))), u)

right_dfs(o, path, k) ==
    LET u == Last(path)
        Try(t, v) ==
          LET w == Look(t)
          IN  IF w.ret THEN w
              ELSE IF v = w.iDst
              THEN [w EXCEPT !.right = Append(@, Append(path, v))]
              ELSE IF v \in w.arrVisited THEN w
              ELSE IF k = w.iK - 2
              THEN [w EXCEPT !.right = Append(@, path \o <<v, w.iDst>>)]
              ELSE right_dfs(w, Append(path, v), k + 1)
    IN  Leave(Back(FoldLeft(Try, Visit(o, u),
                            RowWithin(o.idx.fwd[u], o.iK - k - 1))), u)

BugApart(o, p) == \A n \in 3 .. Len(p) - 1 : p[n] \notin o.arrVisited
Apart(o, p) == \A n \in 2 .. Len(p) - 1 : p[n] \notin o.arrVisited

(* A join that is cut returns with the marks of its left path.             *)
single_join(o) ==
    LET One(t, r) ==
          LET w == Look(t)
          IN  IF ~ w.ret /\ Apart(w, r) THEN Count(w) ELSE w
        Left(t, l) ==
          LET key == SelectSeq(t.right, LAMBDA r : r[1] = Last(l))
              out == FoldLeft(One, [t EXCEPT !.arrVisited = @ \cup Range(l)], key)
          IN  IF t.ret \/ out.ret THEN IF t.ret THEN t ELSE out
              ELSE [out EXCEPT !.arrVisited = @ \ Range(l)]
    IN  Back(FoldLeft(Left, o, o.left))

(* The relations are stored where the plan has made room for them.         *)
InRoom(o) == IF Len(o.left) <= o.plan.left /\ Len(o.right) <= o.plan.right
             THEN o ELSE Meets(o, "overflow")

single_join_on_bigraph(o) ==
    LET l == left_dfs([o EXCEPT !.left = << >>, !.right = << >>], <<o.iSrc>>, 0)
        From(t, u) == right_dfs(t, <<u>>, t.plan.cut)
    IN  single_join(InRoom(FoldLeft(From, l,
                             InBuckets(o, o.iK - o.plan.cut, o.plan.cut))))

IDXJOINPathEnumCSR(o) ==
    OnIndex(o, single_join_on_bigraph(generate_single_join_plan(Unvisited(o))))

(* IDX-ENUM chooses between the two.  Without an index the estimator finds *)
(* nothing, and the search reads the null pointer.                         *)
ByPlan(o, p) == IF EstimatedMany(o) /\ p.plan.join THEN single_join_on_bigraph(p)
                ELSE IDXDFSRec(p, o.iSrc, 0)

IDXMIXPathEnumCSR(o) ==
    OnIndex(o, ByPlan(o, generate_single_join_plan(Unvisited(o))))
=============================================================================
