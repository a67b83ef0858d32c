------------------------------ MODULE HopPaths ------------------------------
(***************************************************************************)
(* Jobs, paths and results: the vocabulary of the kernel and of the host   *)
(* code around it.                                                         *)
(*                                                                         *)
(* A job is the argument list of MYDFS(): a pruned graph in CSR form       *)
(* (adj), for every vertex a lower bound on its distance to the target     *)
(* (sdt), the target (dst), the hop bound (k) and the partial paths to     *)
(* complete (tasks).  A path is the sequence of its vertices; the layer    *)
(* the code stores beside a path is its number of hops, Len(p) - 1.        *)
(* A 0 ends the streams of the kernel, so no edge may lead to vertex 0.    *)
(***************************************************************************)
EXTENDS Naturals, Sequences, FiniteSets, Functions

MaxK     == 8     \* MAX_K_Kernel: slots of a stored path
LayerMod == 16    \* uInt4, the width of layers and of sdt in the kernel

Node(j)    == DOMAIN j.adj
Nbrs(j, v) == Range(j.adj[v])
End(p)     == p[Len(p)]
Layer(p)   == Len(p) - 1

Prefix(p, q) == Len(p) <= Len(q) /\ \A i \in 1 .. Len(p) : p[i] = q[i]

Simple(p)    == \A a, b \in 1 .. Len(p) : p[a] = p[b] => a = b
IsWalk(j, p) == \A i \in 1 .. Len(p) - 1 : p[i + 1] \in Nbrs(j, p[i])

(***************************************************************************)
(* What is to be counted: the simple paths of at most k hops that end in   *)
(* the target and continue one of the tasks.                               *)
(***************************************************************************)
IsResult(j, q) ==
    /\ End(q) = j.dst
    /\ \E i \in 1 .. Len(j.tasks) : Prefix(j.tasks[i], q)
    /\ IsWalk(j, q)
    /\ Simple(q)

Results(j) == UNION { { q \in [1 .. n -> Node(j)] : IsResult(j, q) } :
                      n \in 2 .. j.k + 1 }

(***************************************************************************)
(* The kernel's three tests on a neighbour of a path's last vertex.        *)
(*   Admits      the bound of feed_stream_data, in 4-bit arithmetic        *)
(*   NotVisited  check_visited                                             *)
(*   Closing     check_target, on the extended path: the target is         *)
(*               reached, or the extension has k - 1 hops and its distance *)
(*               bound of 1 stands for the last edge                       *)
(***************************************************************************)
Admits(j, p, v)  == (Layer(p) + j.sdt[v]) % LayerMod < j.k
NotVisited(p, v) == \A i \in 1 .. Len(p) : p[i] # v
Closing(j, p)    == End(p) = j.dst \/ (Len(p) >= 2 /\ Len(p) = j.k)

Children(j, p) ==
    { Append(p, v) : v \in { w \in Nbrs(j, End(p)) :
                               Admits(j, p, w) /\ NotVisited(p, w) } }

(***************************************************************************)
(* What the host hands to the kernel: the result of the pruning in         *)
(* Pre_DouHalfHopAndDouHalfHopBFS and of generate_subtask_on_CSR.          *)
(***************************************************************************)
GraphOK(j) ==
    /\ Node(j) \subseteq Nat /\ IsFiniteSet(Node(j))
    /\ \A v \in Node(j) : /\ j.adj[v] \in Seq(Node(j) \ {0})
                          /\ Simple(j.adj[v])
    /\ j.dst \in Node(j) \ {0}
    /\ j.k \in 1 .. MaxK

SdtOK(j) ==
    /\ j.sdt \in [Node(j) -> Nat]
    /\ \A v \in Node(j) : \A w \in Nbrs(j, v) : j.sdt[w] <= j.k
    /\ \A v \in Node(j) : /\ j.sdt[v] = 0 => v = j.dst
                          /\ j.sdt[v] = 1 => j.dst \in Nbrs(j, v)
    /\ \A q \in Results(j) : \A i \in 2 .. Len(q) : j.sdt[q[i]] + i <= Len(q)

TaskOK(j, p) ==
    /\ p \in Seq(Node(j))
    /\ Len(p) = 1 \/ (Len(p) >= 1 /\ Len(p) < j.k)
    /\ IsWalk(j, p) /\ Simple(p)
    /\ \A i \in 1 .. Len(p) : p[i] # j.dst

TasksOK(j) ==
    /\ j.tasks \in Seq(Seq(Node(j)))
    /\ \A i \in 1 .. Len(j.tasks) : TaskOK(j, j.tasks[i])
    /\ \A a, b \in 1 .. Len(j.tasks) :
         Prefix(j.tasks[a], j.tasks[b]) => a = b

JobOK(j) == GraphOK(j) /\ SdtOK(j) /\ TasksOK(j)

(***************************************************************************)
(* What has to be expanded for that: the paths that lead from a task, edge *)
(* by edge, through children that do not close (Spawned); and what is      *)
(* looked at on the way, the neighbours admitted of the paths E (Demand).  *)
(***************************************************************************)
Spawned(j, p) ==
    \E t \in Range(j.tasks) :
      /\ Prefix(t, p)
      /\ \A n \in Len(t) .. Len(p) - 1 :
           /\ ~ Closing(j, SubSeq(p, 1, n))
           /\ SubSeq(p, 1, n + 1) \in Children(j, SubSeq(p, 1, n))

Expandable(j) ==
    UNION { { p \in [1 .. n -> Node(j)] : Spawned(j, p) /\ ~ Closing(j, p) } :
            n \in 1 .. j.k }

Demand(j, E) ==
    { c \in E \X Node(j) : /\ c[2] \in Nbrs(j, End(c[1]))
                           /\ Admits(j, c[1], c[2]) }
=============================================================================
