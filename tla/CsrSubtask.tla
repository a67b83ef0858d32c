----------------------------- MODULE CsrSubtask -----------------------------
(***************************************************************************)
(* What FAPE does with the pruned graph between the preprocessing and the  *)
(* kernels: the root is split into tasks, and the last fifth of them is    *)
(* searched on the CPU.  Module Subtask takes the splitting apart; here it *)
(* works on the object, with what other queries have left in it.           *)
(***************************************************************************)
EXTENDS BiSubtask, Searches

(* The neighbours a path may still be extended to, and those that close    *)
(* it: the target, or a vertex whose last edge is not stored.              *)
Within_k(o, g, p) == SelectSeq(g.out[Last(p)],
                               LAMBDA v : o.arrSDu_t[v] + Len(p) <= o.iK)
Closing(o, t, p, v) == v = t \/ (v \notin Range(p) /\ Len(p) = o.iK - 1)

(* generate_subtask_on_CSR.  A path is split up to half of the hops; the   *)
(* thresholds count from two hops on.                                      *)
RECURSIVE SplitOnCSR(_, _, _, _, _)
SplitOnCSR(o, g, t, qpath, buffer) ==
    LET p    == Head(qpath)
        hop  == Len(p) - 1
        row  == Within_k(o, g, p)
        ends == SelectSeq(row, LAMBDA v : Closing(o, t, p, v))
        on   == SelectSeq(row, LAMBDA v : v \notin Range(p) /\ ~ Closing(o, t, p, v))
        Full == \/ hop >= 2 /\ \/ Len(buffer) >= TaskMax * 50
                               \/ Len(qpath) > TaskMax * 100
                \/ Len(qpath) > 500000
    IN  IF qpath = << >> \/ o.iK < 3 \/ Full
        THEN [o EXCEPT !.tasks = buffer \o qpath]
        ELSE IF hop >= o.iK \div 2
        THEN SplitOnCSR(o, g, t, Tail(qpath), Append(buffer, p))
        ELSE SplitOnCSR([o EXCEPT !.iPathCount = @ + Len(ends)], g, t,
                        Tail(qpath) \o [n \in DOMAIN on |-> Append(p, on[n])],
                        buffer)

generate_subtask_on_CSR(o, g, u, t) ==
    IF g.iMaxVerId = 0 THEN [o EXCEPT !.tasks = << >>]
    ELSE SplitOnCSR(o, g, t, << <<u>> >>, << >>)

(* Four fifths of the tasks go to the device.                              *)
DiviPathcount(o) == (Len(o.tasks) * 8) \div 10

(* MYDFSPathEnumCSR on a task: the search starts from its end, with the    *)
(* vertices before it marked.                                              *)
MYDFSPathEnumCSR_pp(o, g, pp, dst) ==
    IF g.iVexNum = 0 THEN o
    ELSE Back(StackLoop([o EXCEPT !.arrVisited = Range(Front(pp))], g, dst,
                        [cutoff |-> TRUE, closing |-> TRUE],
                        <<Last(pp)>>, Len(pp) - 1))

CpuShare(o, g, dst) ==
    FoldLeft(LAMBDA r, pp : MYDFSPathEnumCSR_pp(r, g, pp, dst), o,
             SubSeq(o.tasks, DiviPathcount(o) + 1, Len(o.tasks)))

(* What a kernel MYDFS counts that completes a task: its tests, which      *)
(* module MYDFS takes apart.                                               *)
RECURSIVE Below(_, _, _, _)
Below(o, g, t, p) ==
    LET Each(n, v) == n + IF Closing(o, t, p, v) THEN 1
                          ELSE IF v \in Range(p) THEN 0
                          ELSE Below(o, g, t, Append(p, v))
    IN  FoldLeft(Each, 0, Within_k(o, g, p))
=============================================================================
