-------------------------------- MODULE Prep --------------------------------
(***************************************************************************)
(* Pre_DouHalfHopAndDouHalfHopBFS (with nodemap): the preprocessing that   *)
(* turns a query on the data graph into the job of the kernel.             *)
(*                                                                         *)
(* Two breadth-first searches of half the hop bound meet in the middle,    *)
(* two more extend them over the vertices that can still lie on a short    *)
(* enough path; the induced graph is pruned edge by edge, its vertices are *)
(* renumbered by their distance to the target, and CreateSubGraphCSR2      *)
(* stores it.  One action is one layer of a search, or one of the passes   *)
(* that follow.  A queue is the set of vertices of its layer: the order    *)
(* within a layer decides nothing.                                         *)
(***************************************************************************)
EXTENDS HopPaths

CONSTANTS QueryId,  \* names of the queries considered
          Query     \* out (the successors of every vertex), src, dst and k

MaxDist == 15       \* MAX_K, the distance not yet known

Vertex(q) == DOMAIN q.out

ASSUME QueriesAssumption ==
    \A i \in QueryId :
        LET q == Query[i]
        IN  /\ Vertex(q) \subseteq Nat /\ IsFiniteSet(Vertex(q))
            /\ q.src \in Vertex(q) /\ q.dst \in Vertex(q) \ {q.src}
            /\ \A v \in Vertex(q) : q.out[v] \subseteq Vertex(q)
            /\ q.k \in 1 .. MaxK

VARIABLES qid,      \* the query
          pc,       \* the search or pass to come; "empty" and "done"
          sds, sdt, \* arrSDu_s_ and arrSDu_t_
          hfnodes,  \* the queue of the forward searches
          hbnodes,  \* the queue of the backward searches
          layer,
          stop,     \* the break at the end of a layer was taken
          induce,   \* setInduce
          edges,    \* edge_list, later n_edge_list
          nodemap,
          adj       \* the rows of oSubGraph_

vars == <<qid, pc, sds, sdt, hfnodes, hbnodes, layer, stop, induce, edges,
          nodemap, adj>>

Src == Query[qid].src
Dst == Query[qid].dst
K   == Query[qid].k

Out(v) == Query[qid].out[v]
In(v)  == { u \in Vertex(Query[qid]) : v \in Out(u) }

Unknown(q) == [v \in Vertex(q) |-> MaxDist]

Init == /\ qid \in QueryId
        /\ pc = "forward"
        /\ sds = [Unknown(Query[qid]) EXCEPT ![Query[qid].src] = 0]
        /\ sdt = [Unknown(Query[qid]) EXCEPT ![Query[qid].dst] = 0]
        /\ hfnodes = {Query[qid].src} /\ hbnodes = {Query[qid].dst}
        /\ layer = 0 /\ stop = FALSE
        /\ induce = {} /\ edges = {} /\ nodemap = << >> /\ adj = << >>

HalfUp   == (K + 1) \div 2
HalfDown == K \div 2

New(dist, found)  == { v \in found : dist[v] = MaxDist }
Mark(dist, found) == [v \in DOMAIN dist |->
                        IF v \in found THEN layer + 1 ELSE dist[v]]

-----------------------------------------------------------------------------
(* The four searches.                                                      *)

Searching(phase, queue) ==
    pc = phase /\ queue # {} /\ ~ stop

Forward ==
    /\ Searching("forward", hfnodes)
    /\ hfnodes' = New(sds, UNION { Out(v) : v \in hfnodes })
    /\ sds' = Mark(sds, hfnodes')
    /\ layer' = layer + 1
    /\ stop' = (layer + 1 >= HalfUp)
    /\ UNCHANGED <<qid, pc, sdt, hbnodes, induce, edges, nodemap, adj>>

Backward ==
    /\ Searching("backward", hbnodes)
    /\ hbnodes' = New(sdt, UNION { In(v) : v \in hbnodes })
    /\ sdt' = Mark(sdt, hbnodes')
    /\ induce' = induce \cup { v \in hbnodes' : sds[v] # MaxDist }
    /\ layer' = layer + 1
    /\ stop' = (layer + 1 >= HalfDown)
    /\ UNCHANGED <<qid, pc, sds, hfnodes, edges, nodemap, adj>>

BugReaches(dist, v) == dist[v] + layer + 1 < K
Reaches(dist, v)    == dist[v] + layer + 1 <= K

ForwardOn ==
    /\ Searching("forward+", hfnodes)
    /\ hfnodes' = { v \in New(sds, UNION { Out(u) : u \in hfnodes }) :
                      Reaches(sdt, v) }
    /\ sds' = Mark(sds, hfnodes')
    /\ induce' = induce \cup hfnodes'
    /\ layer' = layer + 1
    /\ stop' = (layer + 1 >= K - 1)
    /\ UNCHANGED <<qid, pc, sdt, hbnodes, edges, nodemap, adj>>

BackwardOn ==
    /\ Searching("backward+", hbnodes)
    /\ hbnodes' = { v \in New(sdt, UNION { In(u) : u \in hbnodes }) :
                      Reaches(sds, v) }
    /\ sdt' = Mark(sdt, hbnodes')
    /\ induce' = induce \cup hbnodes'
    /\ layer' = layer + 1
    /\ stop' = (layer + 1 >= K - 1)
    /\ UNCHANGED <<qid, pc, sds, hfnodes, edges, nodemap, adj>>

(* From one search to the next; an empty meeting set ends it all.          *)
Searched(phase, queue, next, start) ==
    /\ pc = phase /\ (queue = {} \/ stop)
    /\ pc' = next /\ layer' = start /\ stop' = FALSE
    /\ UNCHANGED <<qid, sds, sdt, hfnodes, hbnodes, edges, nodemap, adj>>

ForwardEnd    == Searched("forward", hfnodes, "backward", 0)
                 /\ UNCHANGED induce
BackwardEnd   == Searched("backward", hbnodes,
                          IF induce = {} THEN "empty" ELSE "forward+", HalfUp)
                 /\ UNCHANGED induce
ForwardOnEnd  == Searched("forward+", hfnodes, "backward+", HalfDown)
                 /\ UNCHANGED induce
BackwardOnEnd == Searched("backward+", hbnodes, "prune", 0)
                 /\ induce' = induce \cup {Src, Dst}

-----------------------------------------------------------------------------
(* The edge list: vertices too far from both ends are skipped, except the  *)
(* two ends themselves, whose other distance need not be known.            *)

BugStays(v) == sds[v] + sdt[v] <= K
Stays(v)    == v \in {Src, Dst} \/ sds[v] + sdt[v] <= K

Prune ==
    /\ pc = "prune"
    /\ edges' = { e \in induce \X induce :
                    /\ Stays(e[1]) /\ e[1] # Dst
                    /\ e[2] \in Out(e[1])
                    /\ sds[e[1]] + 1 + sdt[e[2]] <= K }
    /\ pc' = "number"
    /\ UNCHANGED <<qid, sds, sdt, hfnodes, hbnodes, layer, stop, induce,
                   nodemap, adj>>

(* bucketsort: by distance to the target, then by indegree; sort may order *)
(* ties as it likes.  The last bucket (K) is not numbered.                 *)
Bucketed    == { v \in induce : Stays(v) /\ sdt[v] < K }
Indegree(v) == Cardinality({ e \in edges : e[2] = v })
Before(a, b) == \/ sdt[a] < sdt[b]
                \/ sdt[a] = sdt[b] /\ Indegree(a) >= Indegree(b)

BugLateId == 2
FirstId   == 1

Ids == FirstId .. Cardinality(Bucketed) + FirstId - 1
Numberings ==
    { map \in Injection(Bucketed, Ids) :
        \A a, b \in Bucketed : map[a] < map[b] => Before(a, b) }

(* nodemap[v]: operator[] enters a missing key, with the number 0.         *)
NewId(map, v) == IF v \in DOMAIN map THEN map[v] ELSE 0

ById(map, dist) ==
    [i \in 0 .. Cardinality(induce) |->
       IF \E v \in Bucketed : map[v] = i
       THEN dist[CHOOSE v \in Bucketed : map[v] = i] ELSE MaxDist]

(* The edges and the distances go over to the new ids.                     *)
Number ==
    /\ pc = "number"
    /\ \E map \in Numberings :
         /\ nodemap' = [v \in Vertex(Query[qid]) |-> NewId(map, v)]
         /\ edges' = { <<NewId(map, e[1]), NewId(map, e[2])>> : e \in edges }
         /\ sds' = ById(map, sds)
         /\ sdt' = ById(map, sdt)
    /\ pc' = IF edges = {} THEN "empty" ELSE "rows"
    /\ UNCHANGED <<qid, hfnodes, hbnodes, layer, stop, induce, adj>>

(* CreateSubGraphCSR2: the rows of the vertices up to the largest in use,  *)
(* the nearest to the target first.  sort may order ties as it likes; here *)
(* it is by id, and no property depends on it.                             *)
BugNearer(a, b) == sdt[a] > sdt[b] \/ (sdt[a] = sdt[b] /\ a < b)
Nearer(a, b)    == sdt[a] < sdt[b] \/ (sdt[a] = sdt[b] /\ a < b)

Ends     == { e[1] : e \in edges } \cup { e[2] : e \in edges }
MaxVerId == CHOOSE m \in Ends : \A n \in Ends : n <= m

Place(w, S) == Cardinality({ u \in S : u = w \/ Nearer(u, w) })
SortedRow(S) ==
    [i \in 1 .. Cardinality(S) |-> CHOOSE w \in S : Place(w, S) = i]

CreateCSR ==
    /\ pc = "rows"
    /\ adj' = [v \in 0 .. MaxVerId |->
                 SortedRow({ w \in 0 .. MaxVerId : <<v, w>> \in edges })]
    /\ pc' = "done"
    /\ UNCHANGED <<qid, sds, sdt, hfnodes, hbnodes, layer, stop, induce,
                   edges, nodemap>>

(* The job: what Excute hands on after the call.                           *)
OutJob == [adj |-> adj, sdt |-> [v \in DOMAIN adj |-> sdt[v]],
           k |-> K, dst |-> nodemap[Dst], tasks |-> << <<nodemap[Src]>> >>]

Ended == pc \in {"done", "empty"} /\ UNCHANGED vars

Next == \/ Forward \/ ForwardEnd \/ Backward \/ BackwardEnd
        \/ ForwardOn \/ ForwardOnEnd \/ BackwardOn \/ BackwardOnEnd
        \/ Prune \/ Number \/ CreateCSR \/ Ended

Spec == Init /\ [][Next]_vars

-----------------------------------------------------------------------------
(***************************************************************************)
(* Properties.                                                             *)
(***************************************************************************)

(* Among the types: a new id is an index of sdut and sdus, which have one  *)
(* slot more than setInduce has vertices.                                  *)
TypeOK ==
    /\ qid \in QueryId
    /\ pc \in {"forward", "backward", "forward+", "backward+", "prune",
              "number", "rows", "empty", "done"}
    /\ sds \in [DOMAIN sds -> 0 .. MaxDist]
    /\ sdt \in [DOMAIN sds -> 0 .. MaxDist]
    /\ hfnodes \subseteq Vertex(Query[qid])
    /\ hbnodes \subseteq Vertex(Query[qid])
    /\ layer \in 0 .. K + 1 /\ stop \in BOOLEAN
    /\ induce \subseteq Vertex(Query[qid])
    /\ edges \subseteq Nat \X Nat
    /\ \A v \in DOMAIN nodemap : nodemap[v] \in 0 .. Cardinality(induce)
    /\ \A v \in DOMAIN adj : adj[v] \in Seq(Nat)

(* Simple paths, hop by hop and without any pruning.                       *)
Prolonged(out, dst, R) ==
    UNION { { Append(p, v) : v \in out[End(p)] \ Range(p) } :
            p \in { r \in R : End(r) # dst } }
PathsByHops(out, src, dst, k) ==
    LET P[n \in 0 .. k] == IF n = 0 THEN { <<src>> }
                           ELSE Prolonged(out, dst, P[n - 1])
    IN  P
SimplePaths(out, src, dst, k) ==
    { p \in UNION { PathsByHops(out, src, dst, k)[n] : n \in 1 .. k } :
        End(p) = dst }

PathsOf == [i \in QueryId |->
              SimplePaths(Query[i].out, Query[i].src, Query[i].dst, Query[i].k)]

(* The number of hops from one vertex to another, MaxDist if k do not do.  *)
Grown(out, R) == R \cup UNION { out[v] : v \in R }
Within(out, from, k) ==
    LET W[n \in 0 .. k] == IF n = 0 THEN {from} ELSE Grown(out, W[n - 1])
    IN  W
Hops(i, from, to) ==
    LET W == Within(Query[i].out, from, Query[i].k)
    IN  IF to \in W[Query[i].k]
        THEN CHOOSE n \in 0 .. Query[i].k :
               to \in W[n] /\ \A m \in 0 .. n - 1 : to \notin W[m]
        ELSE MaxDist
HopsOf == [i \in QueryId |->
             [e \in Vertex(Query[i]) \X Vertex(Query[i]) |->
                Hops(i, e[1], e[2])]]

(* After the four half searches, every vertex that lies on a walk of at    *)
(* most k hops between the two ends has been found, and both its distances *)
(* are exact, although no search went further than it had to.              *)
DistancesExact ==
    pc = "prune" =>
      \A v \in Vertex(Query[qid]) \ {Src, Dst} :
        LET s == HopsOf[qid][<<Src, v>>]
            t == HopsOf[qid][<<v, Dst>>]
        IN  s + t <= K => v \in induce /\ sds[v] = s /\ sdt[v] = t

(* Pruning and renumbering keep the answer: the results of the job are the *)
(* simple paths of the query, renumbered.                                  *)
Renumbered(p) == [i \in 1 .. Len(p) |-> nodemap[p[i]]]
SameAnswer ==
    /\ pc = "empty" => PathsOf[qid] = {}
    /\ pc = "done" =>
         SimplePaths([v \in DOMAIN adj |-> Range(adj[v])],
                     nodemap[Src], nodemap[Dst], K)
           = { Renumbered(p) : p \in PathsOf[qid] }

(* The job is one the kernel may be given: no edge to the stream           *)
(* terminator 0, distances that bound from below and fit the kernel.  And  *)
(* the CPU: every row is sorted by the distance to the target, since a     *)
(* search leaves it at the first vertex that is too far.                   *)
RowsSorted ==
    \A v \in DOMAIN adj : \A a, b \in 1 .. Len(adj[v]) :
      a <= b => sdt[adj[v][a]] <= sdt[adj[v][b]]
JobContract ==
    pc = "done" =>
      GraphOK(OutJob) /\ SdtOK(OutJob) /\ TasksOK(OutJob) /\ RowsSorted
=============================================================================
