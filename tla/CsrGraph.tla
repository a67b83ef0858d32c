------------------------------ MODULE CsrGraph ------------------------------
(***************************************************************************)
(* CDirectedGraph: the data graph oGraph_ as it is read from a file, the   *)
(* subgraph oSubGraph_ the preprocessing builds, and the renumbering that  *)
(* removes unused ids.  A graph is the record of its counters and of the   *)
(* rows behind the offset, degree and adjacency arrays.  A row that is     *)
(* sorted by fewer keys than it has is in the order of the ids, which is   *)
(* what std::sort leaves of the small lists checked here; no property      *)
(* depends on it but where the text says so.                               *)
(***************************************************************************)
EXTENDS Naturals, Sequences, FiniteSets, Functions, TLC

LOCAL INSTANCE FiniteSetsExt

(* Init(): what is left of a graph that has been cleared.                  *)
NoGraph == [iVexNum |-> 0, iArcNum |-> 0, iMaxVerId |-> 0,
            out |-> << >>, in |-> << >>, mapShrink |-> << >>]

Ids(g)        == 0 .. g.iMaxVerId
SetNode(E)    == { e[1] : e \in E } \cup { e[2] : e \in E }
Reverse2(E)   == { <<e[2], e[1]>> : e \in E }
SameKey       == [v \in Nat |-> 0]

Upto(n)          == [i \in 1 .. n + 1 |-> i - 1]
RowOf(n, S, key) == SortSeq(SelectSeq(Upto(n), LAMBDA w : w \in S),
                            LAMBDA a, b : \/ key[a] < key[b]
                                          \/ key[a] = key[b] /\ a < b)
RowsOf(n, E, key) ==
    [v \in 0 .. n |-> RowOf(n, { e[2] : e \in { f \in E : f[1] = v } }, key)]

(* CreateSubGraphCSR: the edges of the induced graph, every row sorted by  *)
(* the distance to the target, or from the source.                         *)
CreateSubGraphCSR(E, sdus, sdut) ==
    LET n == IF E = {} THEN 0 ELSE Max(SetNode(E))
    IN  [NoGraph EXCEPT
           !.iVexNum = Cardinality(SetNode(E)), !.iArcNum = Cardinality(E),
           !.iMaxVerId = n,
           !.out = IF E = {} THEN << >> ELSE RowsOf(n, E, sdut),
           !.in  = IF E = {} THEN << >> ELSE RowsOf(n, Reverse2(E), sdus)]

(* CreateGraphCSR on the lines of a file: every end of a line is a vertex, *)
(* a repeated line is one edge, a self loop is none.                       *)
CreateGraphCSR(lines) ==
    LET E == { e \in lines : e[1] # e[2] }
        n == Max(SetNode(lines))
    IN  [NoGraph EXCEPT
           !.iVexNum = Cardinality(SetNode(lines)),
           !.iArcNum = Cardinality(E), !.iMaxVerId = n,
           !.out = RowsOf(n, E, [v \in 0 .. n |-> 0]),
           !.in  = RowsOf(n, Reverse2(E), [v \in 0 .. n |-> 0])]

(* ShrinkCSR and ShrinkCSR2: the vertices with an edge are numbered anew   *)
(* in their order, from first on.  A graph whose ids have no gap is left   *)
(* alone, its mapShrink_ empty.                                            *)
Used(g) == { v \in Ids(g) : g.out[v] # << >> \/ g.in[v] # << >> }
Shrunk(g, first) ==
    LET used   == Used(g)
        map    == [v \in used |->
                     first + Cardinality({ u \in used : u < v })]
        old    == [i \in Range(map) |-> CHOOSE v \in used : map[v] = i]
        last   == Cardinality(used) + first - 1
        Row(r) == [i \in 1 .. Len(r) |-> map[r[i]]]
    IN  [g EXCEPT
           !.iMaxVerId = last,
           !.out = [i \in 0 .. last |->
                      IF i \in Range(map) THEN Row(@[old[i]]) ELSE << >>],
           !.in  = [i \in 0 .. last |->
                      IF i \in Range(map) THEN Row(@[old[i]]) ELSE << >>],
           !.mapShrink = map]

Gapless(g) == g.iVexNum = 0 \/ g.iMaxVerId + 1 = g.iVexNum
ShrinkCSR(g)  == IF Gapless(g) THEN g ELSE Shrunk(g, 0)
ShrinkCSR2(g) == IF Gapless(g) THEN g
                 ELSE [Shrunk(g, 1) EXCEPT !.iVexNum = @ + 1]

GetShrinkID(g, v) == IF v \in DOMAIN g.mapShrink THEN g.mapShrink[v] ELSE v
=============================================================================
