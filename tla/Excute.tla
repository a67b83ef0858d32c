------------------------------- MODULE Excute -------------------------------
(***************************************************************************)
(* CHcPE::Excute: one object answers one query after another, all by the   *)
(* method it was started for.  A query is an action: the preprocessing,    *)
(* the search, and the tail that stores the result and resets the          *)
(* counters.  The time limit of execute_within_time_limit may pass         *)
(* anywhere in between, and is noticed at the next look at g_exit; what a  *)
(* query that was cut leaves behind in the object meets the next one.      *)
(*                                                                         *)
(* The object lives until the queries are answered, or until one of them   *)
(* has read a null pointer.  A write past the end of a host vector may or  *)
(* may not do harm: the object lives on, and no result is relied on then.  *)
(***************************************************************************)
EXTENDS Preprocess, Searches, Barriers, BcJoin, CsrSubtask, MyJoin, HostBuffers

CONSTANTS Graph,     \* the files: sets of lines
          Hops,      \* length constraints
          Query,     \* pairs of source and target
          Moments,   \* looks at g_exit before the limit passes; Never
          MaxCalls,  \* queries asked of an object, by its method
          Method     \* the methods

(* 15 stands for a distance that is not known.                             *)
ASSUME HopsAssumption == Hops \subseteq 1 .. MAX_K - 2

VARIABLES o,       \* the object
          method,  \* the method it was started for
          last,    \* what the last query has reported, and met
          calls    \* queries answered

vars == <<o, method, last, calls>>

(* CHcPE::Init: every array has a value for every vertex.                  *)
NewObject(g, k) ==
    [oGraph |-> g, oSubGraph |-> NoGraph, iSrc |-> 0, iDst |-> 0, iK |-> k,
     arrVisited |-> {}, arrSDu_s |-> [v \in Ids(g) |-> Memset(MAX_K)],
     arrSDu_t |-> [v \in Ids(g) |-> Memset(MAX_K)],
     arrBarrier |-> [v \in Ids(g) |-> Memset(MAX_K)], B |-> [v \in Ids(g) |-> {}],
     distance |-> [first  |-> [v \in Ids(g) |-> Memset(k + 1)],
                   second |-> [v \in Ids(g) |-> Memset(k + 1)]],
     idx |-> NoIndex, plan |-> NoPlan, left |-> << >>, right |-> << >>,
     tasks |-> << >>, host |-> NewHost, iPathCount |-> 0, overlarge |-> 0,
     looks |-> Never, ret |-> FALSE, cut |-> FALSE, brk |-> FALSE, met |-> {}]

NoAnswer == [n |-> 0, src |-> 0, dst |-> 0, overlarge |-> 0, cut |-> FALSE,
             met |-> {}]

Init == /\ \E lines \in Graph, k \in Hops : o = NewObject(CreateGraphCSR(lines), k)
        /\ method \in Method
        /\ last = NoAnswer /\ calls = 0

(* The object at the head of Excute.  The limit may pass in all queries    *)
(* but the last, which shows what is left of it.                           *)
Asked(m) ==
    { [o EXCEPT !.iSrc = q[1], !.iDst = q[2], !.looks = n, !.overlarge = 0] :
        q \in { r \in Query : /\ method = m /\ calls < MaxCalls[method]
                              /\ "null" \notin last.met
                              /\ {r[1], r[2]} \subseteq Vertices(o) },
        n \in IF calls = MaxCalls[method] - 1 THEN {Never} ELSE Moments }

(* update_performance_counter stores the result, reset_performance_counter *)
(* clears the counters and the estimates.                                  *)
reset_performance_counter(r) ==
    [r EXCEPT !.iPathCount = 0, !.plan = NoPlan]

Ends(r) ==
    /\ last' = [n |-> r.iPathCount, src |-> r.iSrc, dst |-> r.iDst,
                overlarge |-> r.overlarge, cut |-> r.cut, met |-> r.met]
    /\ o' = [reset_performance_counter(r) EXCEPT !.met = @ \cap {"resized"},
               !.cut = FALSE,
               !.left = << >>, !.right = << >>, !.tasks = << >>]
    /\ calls' = calls + 1
    /\ UNCHANGED method

-----------------------------------------------------------------------------
(* The methods on the whole graph, and those with barriers.                *)

C_DFS == \E q \in Asked("C_DFS") : Ends(CDFSPathEnumCSR(q))

T_DFS == \E q \in Asked("T_DFS") : Ends(TDFSPathEnumCSR(q))

T_DFS2 == \E q \in Asked("T_DFS2") : Ends(TDFS2PathEnumCSR(q))

BC_DFS == \E q \in Asked("BC_DFS") : Ends(BCDFSPathEnumCSR2(q, q.oGraph))

(* The version that BC_DFS names in a comment, with a note that it has a   *)
(* problem: it loses paths.                                                *)
BC_DFS_Earlier ==
    \E q \in Asked("BC_DFS_Earlier") : Ends(BCDFSPathEnumCSR(q, q.oGraph))

Pruned(q, hop) == Pre_DouKHopBFS(q, hop, FALSE, FALSE)

BC_DFS_Induced ==
    \E q \in Asked("BC_DFS_Induced") :
      LET p == Pruned(q, q.iK)
      IN  Ends(BCDFSPathEnumCSR2(p, p.oSubGraph))

BC_DFS_Induced_BlockInitedBySDt ==
    \E q \in Asked("BC_DFS_BlockInited") :
      LET p == Pruned(q, q.iK)
      IN  Ends(BCDFSPathEnumCSR2_BlockInitedBySDt(p, p.oSubGraph))

(* word is what the join finds on the heap: with the allocator of glibc    *)
(* the upper half of a size, which is 0, or else a word that is no vertex. *)
BC_JOIN ==
    \E q \in Asked("BC_JOIN") : \E word \in {0, Never} :
      LET p == construct_pruned_dag_min_subgraph(q)
          r == BCJOINPathEnumCSR(p.o, p.E, word)
      IN  Ends(IF word = 0 THEN Meets(r, "heap word") ELSE r)

-----------------------------------------------------------------------------
(* The methods on the index.                                               *)

Indexed(m) == { Pre_BiGraphIDX(q) : q \in Asked(m) }

IDX_DFS == \E b \in Indexed("IDX_DFS") : Ends(clear_bigraph(IDXDFSPathEnumCSR(b)))

IDX_JOIN == \E b \in Indexed("IDX_JOIN") : Ends(clear_bigraph(IDXJOINPathEnumCSR(b)))

IDX_ENUM == \E b \in Indexed("IDX_ENUM") : Ends(clear_bigraph(IDXMIXPathEnumCSR(b)))

-----------------------------------------------------------------------------
(* The methods on the pruned graph.  MY_DFS names its earlier choices of   *)
(* preprocessing and search in comments: they are checked with the one in  *)
(* use.                                                                    *)

MyPre(q) == Pre_DouHalfHopAndDouHalfHopBFS(q, FALSE, TRUE)
NodemapPre(q) == Pre_DouHalfHopAndDouHalfHopBFS_nodemap(q, FALSE, TRUE)

MY_DFS ==
    \E q \in Asked("MY_DFS") :
      LET p == MyPre(q)
      IN  Ends(MYDFSPathEnumCSR(p, p.oSubGraph, p.iSrc, p.iDst))

EarlierPre(q) ==
    { Pre_DouKHopBFS(q, q.iK, FALSE, TRUE),
      Pre_DouKHopBFS(q, q.iK - 1, FALSE, TRUE),
      Pre_DouHalfHopBFS(q, FALSE, TRUE),
      Pre_DouHalfHopBFS_1(q, FALSE, TRUE),
      Pre_DouHalfHopAndSigHalfHopBFS_1(q, FALSE, TRUE),
      Pre_DouHalfHopAndSigHalfHopBFS_2(q, FALSE, TRUE) }

EarlierSearch(p) ==
    { MYDFSPathEnumCSR(p, p.oSubGraph, p.iSrc, p.iDst),
      MYDFSPathEnumCSR_1(p, p.oSubGraph), MYDFSPathEnumCSR_2(p, p.oSubGraph),
      PEFPPathEnumCSR(p, p.oSubGraph) }

MY_DFS_Earlier ==
    \E q \in Asked("MY_DFS_Earlier") :
      \/ \E p \in EarlierPre(q) \cup {MyPre(q)} : \E r \in EarlierSearch(p) : Ends(r)
      \/ LET p == NodemapPre(q)
         IN  Ends(MYDFSPathEnumCSR(p.o, p.o.oSubGraph, p.src, p.dst))

(* This one loses paths: its last search stops after one layer.            *)
MY_DFS_Earliest ==
    \E q \in Asked("MY_DFS_Earliest") :
      LET p == Pre_DouHalfHopAndSigHalfHopBFS(q, FALSE, TRUE)
      IN  Ends(MYDFSPathEnumCSR(p, p.oSubGraph, p.iSrc, p.iDst))

(* MY_DFS2 measures the preprocessing; its search is among the earlier.    *)
MY_DFS2 == \E q \in Asked("MY_DFS2") : Ends(NodemapPre(q).o)

(* MY_DFS3 and the methods for one compute unit number the pruned graph    *)
(* anew, and move the distances to the new ids one after another in the    *)
(* same array.                                                             *)
Relabelled(o1, g) ==
    LET Move(d, i) == IF i \in DOMAIN g.mapShrink
                      THEN [d EXCEPT ![g.mapShrink[i]] = d[i]] ELSE d
    IN  [o1 EXCEPT !.oSubGraph = g,
                   !.arrSDu_t = FoldLeft(Move, @, Upto(o1.oGraph.iMaxVerId))]

MY_DFS3 ==
    \E q \in Asked("MY_DFS3") :
      LET p == MyPre(q)
          r == Relabelled(p, ShrinkCSR2(p.oSubGraph))
          g == r.oSubGraph
      IN  Ends(MYDFSPathEnumCSR(r, g, GetShrinkID(g, r.iSrc),
                                      GetShrinkID(g, r.iDst)))

PEFP_DFS == \E q \in Asked("PEFP_DFS") : Ends(Pruned(q, q.iK - 1))

MY_JOIN ==
    \E q \in Asked("MY_JOIN") :
      LET p == Pruned(q, q.iK - 1)
      IN  Ends(MYJOINPathEnumCSR(p, p.oSubGraph))

-----------------------------------------------------------------------------
(* The methods on the device.  Its kernels count what they are given, or   *)
(* report an error, with no count.                                         *)

KHopPaths(g, s, t, k) ==
    LET Longer(p) == { Append(p, v) : v \in Range(g.out[Last(p)]) \ Range(p) }
        P[n \in 0 .. k] ==
          IF n = 0 THEN IF s = t THEN {} ELSE { <<s>> }
          ELSE UNION { Longer(p) : p \in { r \in P[n - 1] : Last(r) # t } }
    IN  { p \in UNION { P[n] : n \in 1 .. k } : Last(p) = t }

Answers(n) == { [res |-> n, err |-> 0, work |-> 1],
                [res |-> 0, err |-> 1, work |-> 1] }

Reported(r, h, overlarge) ==
    [r EXCEPT !.host = h, !.iPathCount = @ + h.res, !.overlarge = overlarge]

(* What a kernel finds on the renumbered graph with the distances moved to *)
(* its ids: as much as the search of the same name on the CPU, whose       *)
(* results do not depend on the order of the rows.                         *)
OnDevice(r, g, closing) ==
    StackSearch([r EXCEPT !.iPathCount = 0, !.looks = Never], g,
                GetShrinkID(g, r.iSrc), GetShrinkID(g, r.iDst),
                [cutoff |-> FALSE, closing |-> closing]).iPathCount

FPGA_PEFP ==
    \E q \in Asked("FPGA_PEFP") :
      LET p == Pruned(q, q.iK - 1)
          r == Relabelled(p, ShrinkCSR(p.oSubGraph))
          g == r.oSubGraph
      IN  \E a \in Answers(OnDevice(r, g, FALSE)) :
            LET h == PEFPOnFPGA(q.host, g.iMaxVerId + 1, g.iArcNum, a)
            IN  Ends(Reported(r, h, h.err))

(* FPGA_MYDFS: one compute unit starts from the source.                    *)
FPGA_MYDFS ==
    \E q \in Asked("FPGA_MYDFS") :
      LET p == NodemapPre(q)
          g == p.o.oSubGraph
      IN  \E a \in Answers(IF g.iVexNum = 0 THEN 0
                            ELSE Below(p.o, g, p.dst, <<p.src>>)) :
            LET h == MYDFSOnFPGA2(q.host, g.iMaxVerId + 1, g.iArcNum, a)
            IN  Ends(Reported(p.o, h, h.err))

FPGA_MYDFS_R ==
    \E q \in Asked("FPGA_MYDFS_R") :
      LET p == MyPre(q)
          r == Relabelled(p, ShrinkCSR(p.oSubGraph))
          g == r.oSubGraph
      IN  \E a \in Answers(OnDevice(r, g, TRUE)) :
            LET h == MYDFSOnFPGA3(q.host, g.iMaxVerId + 1, g.iArcNum, a)
            IN  Ends(Reported(r, h, h.err))

(* What the device finds from a task; an index that was not built has no   *)
(* edges, and the functions of the host return before they read it.        *)
Found(o1, p) == IF o1.idx.built THEN Completions(o1, IdxTarget(o1), p) ELSE 0

OneUnitServes(s, u) ==
    \E a \in Answers(Found(s, <<u>>)) :
      \E h \in { IDXDFSOnFPGA2(s.host, IdxNodes(s), IdxEdges(s), a) } :
        Ends(clear_bigraph(Reported(s, h, h.err)))

FPGA_IDX_DFS ==
    \E b \in Indexed("FPGA_IDX_DFS") :
      OneUnitServes(Pre_BiGraphIDX_Shrink(b), SourceId(b))

(* The tasks are dealt round robin, and none or one compute unit fails;    *)
(* found is what a kernel finds from each task.                            *)
PartOf(found, c) ==
    FoldLeft(LAMBDA n, i : n + found[i], 0,
             SelectSeq([i \in DOMAIN found |-> i],
                       LAMBDA i : i % HostCores = c % HostCores))

UnitAnswers(found) ==
    { [c \in 1 .. HostCores |->
         IF c = bad THEN [res |-> 0, err |-> 1, work |-> 1]
         ELSE [res |-> PartOf(found, c), err |-> 0, work |-> 1]] :
      bad \in {0, 1, HostCores} }

Noted(r, h, resized) ==
    [r EXCEPT !.met = @ \cup (IF h.over THEN {"overflow"} ELSE {})
                        \cup (IF resized THEN {"resized"} ELSE {})]

UnitsServe(d, n, e) ==
    \E a \in UnitAnswers([i \in DOMAIN d.tasks |-> Found(d, d.tasks[i])]) :
      \E h \in { IDXDFSOnFPGA_Multi2(d.host, n, e, a) } :
        Ends(clear_bigraph(Noted(Reported(d, h, IF AllServed(n, e, a) THEN 0 ELSE 1),
                                 h, Resized(d.host, n, e))))

(* The splitting of an index that was not built ends the object; with less *)
(* than three hops it does not.                                            *)
FPGA_IDX_DFS_Multi ==
    \E b \in Indexed("FPGA_IDX_DFS_Multi") :
      \E s \in { Pre_BiGraphIDX_Shrink(b) } :
        \E d \in { generate_subtask_on_bigraph(s, SourceId(b), IdxTarget(s)) } :
          IF "null" \in d.met THEN Ends(d)
          ELSE UnitsServe(d, IdxNodes(d), IdxEdges(d))

(* FPGA_MYDFS_Multi, the method of FAPE: tasks are dealt to the CPU, whose *)
(* searches look at g_exit, and then to the compute units, which do not.   *)
FPGA_MYDFS_Multi ==
    \E q \in Asked("FPGA_MYDFS_Multi") : \E p \in { NodemapPre(q) } :
      LET g == p.o.oSubGraph
      IN  \E d \in { CpuShare(generate_subtask_on_CSR(p.o, g, p.src, p.dst),
                              g, p.dst) } :
            \E a \in UnitAnswers([i \in 1 .. DiviPathcount(d) |->
                                Below(d, g, p.dst, d.tasks[i])]) :
              LET h == MYDFSOnFPGA_Multi(d.host, g.iMaxVerId + 1, g.iArcNum, a)
              IN  Ends(Reported(d, h, h.err))

Next == \/ C_DFS \/ T_DFS \/ T_DFS2
        \/ BC_DFS \/ BC_DFS_Earlier \/ BC_DFS_Induced \/ BC_DFS_Induced_BlockInitedBySDt
        \/ BC_JOIN
        \/ IDX_DFS \/ IDX_JOIN \/ IDX_ENUM
        \/ MY_DFS \/ MY_DFS_Earlier \/ MY_DFS_Earliest \/ MY_DFS2 \/ MY_DFS3
        \/ PEFP_DFS \/ MY_JOIN
        \/ FPGA_PEFP \/ FPGA_MYDFS \/ FPGA_MYDFS_R \/ FPGA_MYDFS_Multi
        \/ FPGA_IDX_DFS \/ FPGA_IDX_DFS_Multi

Spec == Init /\ [][Next]_vars

-----------------------------------------------------------------------------
(* Properties of the last answer.                                          *)

All == Cardinality(KHopPaths(o.oGraph, last.src, last.dst, o.iK))

Finished(methods) == /\ method \in methods /\ calls > 0
                     /\ ~ last.cut /\ last.overlarge = 0

(* The ids an array by vertex is read and written at: nodemap counts from  *)
(* 1, so that a graph that keeps all its vertices needs one entry more.    *)
Slots == 0 .. o.oGraph.iMaxVerId + 1

(* What the tables of the object hold between two queries.                 *)
TypeOK ==
    /\ o.arrVisited \subseteq Slots
    /\ \A a \in {o.arrSDu_s, o.arrSDu_t} :
         /\ Vertices(o) \subseteq DOMAIN a /\ DOMAIN a \subseteq Slots
         /\ Range(a) \subseteq (0 .. MAX_K) \cup {Memset(MAX_K)}
    /\ o.B \in [Vertices(o) -> SUBSET Vertices(o)]
    /\ \A side \in {"first", "second"} :
         o.distance[side] \in [Vertices(o) ->
                                  (0 .. o.iK - 1) \cup {o.iK + 1, Far(o)}]
    /\ last.n \in Nat /\ last.overlarge \in {0, 1}
    /\ calls \in 0 .. MaxCalls[method]

(* Eight prunings and renumberings, and eight searches, count the same:    *)
(* all simple paths of at most k hops, and so do the splitting, the CPU    *)
(* and the compute units of FAPE together.  A search that is cut leaves    *)
(* marks and distances behind, and the next query does not suffer from     *)
(* them.                                                                   *)
SearchesExact ==
    Finished({"C_DFS", "T_DFS", "T_DFS2", "MY_DFS", "MY_DFS_Earlier",
              "FPGA_PEFP", "FPGA_MYDFS", "FPGA_MYDFS_R", "FPGA_MYDFS_Multi"})
        => last.n = All

(* A barrier is never higher than what a vertex is worth: BC-DFS finds     *)
(* every path although it passes by the vertices behind one.  BC-JOIN      *)
(* finds every path just once, if no vertex lies on the heap.              *)
BarriersExact ==
    Finished({"BC_DFS", "BC_DFS_Induced", "BC_JOIN"}) /\ "heap word" \notin last.met
        => last.n = All

(* The searches and joins on the index count all paths, whichever plan     *)
(* they choose, and so do the tasks the index is split into, with the      *)
(* paths that are counted while it is split.  The distances of a           *)
(* construction that was cut, which a query for one compute unit survives, *)
(* do the next ones no harm.  Nothing is said of an object whose vectors   *)
(* have been sized again (StaysInBounds).                                  *)
IndexExact ==
    Finished({"IDX_DFS", "IDX_JOIN", "IDX_ENUM", "FPGA_IDX_DFS",
              "FPGA_IDX_DFS_Multi"}) /\ "resized" \notin last.met
        => last.n = All

(* No method reports a path twice, or one that is not simple or too long,  *)
(* whether it was cut, has failed, or loses paths.                         *)
NeverTooMany == calls > 0 /\ "resized" \notin last.met => last.n <= All

(* T-DFS enters a vertex only if it will find a path there: no call of     *)
(* TDFSRec ends without a result.                                          *)
NoFutileCall == method = "T_DFS" => "futile" \notin last.met

(* The estimates of the join plan are upper bounds: the relations stay in  *)
(* the memory sized by them.  The device buffers hold what is written for  *)
(* every compute unit, as long as no query of the object, this one or one  *)
(* before it, has had them sized again.  Only a query that was cut reads   *)
(* the index that was not built.                                           *)
StaysInBounds == /\ "overflow" \in last.met => "resized" \in last.met
                 /\ "null" \in last.met => last.cut

(* What a query that is logged as Complete should be, for every method.    *)
CompleteIsExact == Finished(Method) => last.n = All
=============================================================================
