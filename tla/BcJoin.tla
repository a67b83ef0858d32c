------------------------------- MODULE BcJoin -------------------------------
(***************************************************************************)
(* BC-JOIN: a search from the source and one back from the target leave    *)
(* the edges on short enough walks; the vertices where paths from both     *)
(* ends can meet are found, the paths up to them are stored, and joined.   *)
(***************************************************************************)
EXTENDS HcPE

(* construct_pruned_dag_min_subgraph.  The search back takes the vertices  *)
(* of a layer, and the edges into them, in the order of their ids.  It     *)
(* returns when it finds g_exit set, with the edges it has.                *)
LeftVisited(o) == Wave(o.oGraph.out, Anywhere(o), o.iK, Start(o, o.iSrc)).dist

InOrder(o, S) == SelectSeq(Upto(o.oGraph.iMaxVerId), LAMBDA v : v \in S)

ShortEnough(o, dist, u, layer) == dist[u] + layer <= o.iK

RECURSIVE RightLayers(_, _, _)
RightLayers(t, dist, layer) ==
    LET Take(v, s, u) ==
          LET w == Look(s.o)
          IN  IF w.ret THEN [s EXCEPT !.o = w]
              ELSE [o     |-> w, seen |-> s.seen \cup {u},
                    E     |-> IF ShortEnough(w, dist, u, layer)
                              THEN s.E \cup {<<u, v>>} ELSE s.E,
                    front |-> IF u \in s.seen THEN s.front ELSE s.front \cup {u}]
        From(s, v) == FoldLeft(LAMBDA r, u : Take(v, r, u), s,
                               SelectSeq(s.o.oGraph.in[v],
                                         LAMBDA u : dist[u] < s.o.iK))
    IN  IF layer > t.o.iK \/ t.front = {} \/ t.o.ret THEN t
        ELSE RightLayers(FoldLeft(From, [t EXCEPT !.front = {}],
                                  InOrder(t.o, t.front)), dist, layer + 1)

construct_pruned_dag_min_subgraph(o) ==
    LET l == Look(o)
        r == RightLayers([o |-> l, E |-> {}, seen |-> {o.iDst},
                          front |-> {o.iDst}], LeftVisited(o), 1)
    IN  [r EXCEPT !.o = Back(@)]

(* find_all_meet_nodes_in_induced_subgraph: the i-th layers of walks from  *)
(* both ends, and where they meet.                                         *)
LeftMax(o)  == o.iK - o.iK \div 2
RightMax(o) == o.iK \div 2

Ahead(E, S)  == { e[2] : e \in { f \in E : f[1] \in S } }
Behind(E, S) == Ahead(Reverse2(E), S)

MeetNodes(o, E) ==
    LET L[i \in 0 .. LeftMax(o)] ==
          IF i = 0 THEN {o.iSrc}
          ELSE Ahead(E, L[i - 1]) \ (IF i = 1 THEN {o.iDst} ELSE {})
        R[i \in 0 .. RightMax(o)] ==
          IF i = 0 THEN {o.iDst}
          ELSE Behind(E, R[i - 1]) \ (IF i = 1 THEN {o.iSrc} ELSE {})
    IN  UNION { L[i] \cap (R[i - 1] \cup IF i \in DOMAIN R THEN R[i] ELSE {}) :
                  i \in { j \in DOMAIN L : j >= 1 /\ j - 1 \in DOMAIN R } }

(* dfs_without_recursion_all_meetpoints and its reverse: the paths of up   *)
(* to last hops from an end, around the other end.                         *)
PathsUpTo(E, from, other, last) ==
    LET P[n \in 0 .. last] ==
          IF n = 0 THEN { <<from>> }
          ELSE UNION { { Append(p, v) :
                           v \in Ahead(E, {Last(p)}) \ (Range(p) \cup {other}) } :
                       p \in P[n - 1] }
    IN  UNION { P[n] : n \in 1 .. last }

(* dfs_without_recursion_all_meetpoints_reverse: the search from the       *)
(* target turns its paths around.                                          *)
PathsBack(E, from, other, last) ==
    { Reverse(p) : p \in PathsUpTo(Reverse2(E), from, other, last) }

(* join_remove_repeat_nodes_only_join_right_sizeor_minus_one.  The set of  *)
(* the left path starts one element before its first: word is what lies    *)
(* there on the heap.                                                      *)
Matches(p, q)         == Len(q) \in {Len(p), Len(p) - 1}
MarkedByLeft(p, word) == Range(Front(p)) \cup {word}

JoinedAt(L, R, v, word) ==
    Cardinality({ c \in { p \in L : Last(p) = v } \X { q \in R : Head(q) = v } :
                    /\ Matches(c[1], c[2])
                    /\ \A n \in 2 .. Len(c[2]) - 1 :
                         c[2][n] \notin MarkedByLeft(c[1], word) })

(* find_all_k_pahts_dfs_write_number_left_right_path.  The looks of the    *)
(* searches for the meeting vertices and for the paths come to one: if     *)
(* they are cut, the join is.                                              *)
Joins(o, E, word) ==
    LET L == PathsUpTo(E, o.iSrc, o.iDst, LeftMax(o))
        R == PathsBack(E, o.iDst, o.iSrc, RightMax(o))
        one == IF <<o.iSrc, o.iDst>> \in E THEN Count(o) ELSE o
        At(t, v) ==
          LET w == Look(t)
          IN  IF w.ret THEN w
              ELSE [w EXCEPT !.iPathCount = @ + JoinedAt(L, R, v, word)]
        meet == MeetNodes(o, E) \ {o.iSrc, o.iDst}
    IN  FoldLeft(At, Look(one), InOrder(o, meet))

(* g_exit is set to false when the join starts, whatever the preprocessing *)
(* has met.                                                                *)
ClearExit(o) == [o EXCEPT !.looks = IF @ = 0 THEN Never ELSE @]

BCJOINPathEnumCSR(o, E, word) == Back(Joins(ClearExit(o), E, word))
=============================================================================
