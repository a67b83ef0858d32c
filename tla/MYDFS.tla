------------------------------- MODULE MYDFS --------------------------------
(***************************************************************************)
(* The HLS kernel MYDFS (MYDFS_RE_CU06.cpp), one compute unit.             *)
(*                                                                         *)
(* Partial paths wait in two stacks: buffer_path on the chip (bram) and,   *)
(* when that is full, ddr_paths (dram).  Each round, next_task merges the  *)
(* candidates of the last round into the stacks, counts those that close,  *)
(* moves paths between the stacks and copies the top of bram into a batch; *)
(* run expands as much of the batch as MAX_OUT_SIZE edges allow.  One      *)
(* action is one iteration of a loop of the code.                          *)
(***************************************************************************)
EXTENDS HopJob

CONSTANTS MaxBuf,    \* MAX_BUF_SIZE
          MaxIn,     \* MAX_IN_SIZE
          MaxOut,    \* MAX_OUT_SIZE
          DdrBatch,  \* DDR_BATCH_SIZE
          MaxDdr,    \* MAX_DDR_PATH_SIZE
          Mtpc       \* _max_tpc, the budget of candidate vertices

ASSUME SizesAssumption ==
    /\ MaxBuf \in Nat \ {0} /\ MaxIn \in Nat \ {0} /\ MaxOut \in Nat \ {0}
    /\ DdrBatch \in 1 .. MaxBuf
    /\ MaxDdr \in Nat /\ Mtpc \in Nat
    /\ \A i \in JobId : Len(Job[i].tasks) <= MaxBuf

VARIABLES jid,    \* the arguments of the call
          pc,     \* "merge", "feed", "edges", "check" or "done"
          bram,   \* buffer_path[0 .. bram_path_size-1], a stack
          dram,   \* ddr_paths[0 .. dram_path_size-1], a stack
          batch,  \* batched_path, read from the top of bram
          taken,  \* temp_psize of feed_stream_data, then check_path_size
          edge,   \* j - start_idx, edges of the current path looked at
          cand,   \* batched_nbr_idx and batched_nbr, up to check_node_size
          ans,    \* ans_paths_num
          debug   \* bufferDebug: err, loads, spills, runs, paths, nodes

vars == <<jid, pc, bram, dram, batch, taken, edge, cand, ans, debug>>

ThisJob   == Job[jid]
Lesser(a, b) == IF a < b THEN a ELSE b

Init == /\ jid \in JobId
        /\ pc = "merge"
        /\ bram = Job[jid].tasks
        /\ dram = << >> /\ batch = << >> /\ cand = << >>
        /\ taken = 0 /\ edge = 0 /\ ans = 0
        /\ debug = [err |-> 0, loads |-> 0, spills |-> 0,
                    runs |-> 0, paths |-> 0, nodes |-> 0]

-----------------------------------------------------------------------------
(* next_task, merge_last_task: the candidates from the last to the first.  *)

Extended(c)        == Append(batch[c.idx], c.nbr)
BugVisitedValid(c) == c.nbr # End(batch[c.idx])
VisitedValid(c)    == NotVisited(batch[c.idx], c.nbr)
TargetValid(c) ==
    c.nbr = ThisJob.dst \/ Layer(batch[c.idx]) + 2 = ThisJob.k

Top == cand[Len(cand)]
Pop == cand' = SubSeq(cand, 1, Len(cand) - 1)

Merging == pc = "merge" /\ cand # << >>

MergeDrop ==
    /\ Merging /\ ~ VisitedValid(Top)
    /\ Pop
    /\ UNCHANGED <<jid, pc, bram, dram, batch, taken, edge, ans, debug>>

MergeCount ==
    /\ Merging /\ VisitedValid(Top) /\ TargetValid(Top)
    /\ Pop
    /\ ans' = ans + 1
    /\ UNCHANGED <<jid, pc, bram, dram, batch, taken, edge, debug>>

Pushing == Merging /\ VisitedValid(Top) /\ ~ TargetValid(Top)

MergePush ==
    /\ Pushing /\ Len(bram) # MaxBuf
    /\ Pop
    /\ bram' = Append(bram, Extended(Top))
    /\ UNCHANGED <<jid, pc, dram, batch, taken, edge, ans, debug>>

(* flush_to_dram: the paths of bram that fit go on top of dram, the top of *)
(* bram first when not all fit.                                            *)
BugSpillKeeps == 0
SpillKeeps    == MaxBuf - Lesser(MaxBuf, MaxDdr - Len(dram))

MergeSpill ==
    /\ Pushing /\ Len(bram) = MaxBuf /\ Len(dram) < MaxDdr
    /\ Pop
    /\ dram' = dram \o SubSeq(bram, SpillKeeps + 1, MaxBuf)
    /\ bram' = Append(SubSeq(bram, 1, SpillKeeps), Extended(Top))
    /\ debug' = [debug EXCEPT !.spills = @ + 1]
    /\ UNCHANGED <<jid, pc, batch, taken, edge, ans>>

MergeOverflow ==
    /\ Pushing /\ Len(bram) = MaxBuf /\ Len(dram) >= MaxDdr
    /\ debug' = [debug EXCEPT !.err = 2]
    /\ pc' = "done"
    /\ UNCHANGED <<jid, bram, dram, batch, taken, edge, cand, ans>>

-----------------------------------------------------------------------------
(* next_task, after the merge.                                             *)

Merged == pc = "merge" /\ cand = << >>

Finish ==
    /\ Merged /\ bram = << >> /\ dram = << >>
    /\ debug' = [debug EXCEPT !.err = 0]
    /\ pc' = "done"
    /\ UNCHANGED <<jid, bram, dram, batch, taken, edge, cand, ans>>

(* read_to_batched_paths: the top of the stack first.                      *)
TopOf(b) == [i \in 1 .. Lesser(Len(b), MaxIn) |-> b[Len(b) + 1 - i]]

ReadBatch(b) == /\ batch' = TopOf(b)
                /\ taken' = 0
                /\ pc' = "feed"

NextBatch ==
    /\ Merged /\ bram # << >>
    /\ ReadBatch(bram)
    /\ UNCHANGED <<jid, bram, dram, edge, cand, ans, debug>>

(* flush_to_bram: bram is empty, the top of dram is brought back.          *)
RefillKeeps == Len(dram) - Lesser(Len(dram), DdrBatch)

Refill ==
    /\ Merged /\ bram = << >> /\ dram # << >>
    /\ bram' = SubSeq(dram, RefillKeeps + 1, Len(dram))
    /\ dram' = SubSeq(dram, 1, RefillKeeps)
    /\ ReadBatch(bram')
    /\ debug' = [debug EXCEPT !.loads = @ + 1]
    /\ UNCHANGED <<jid, edge, cand, ans>>

-----------------------------------------------------------------------------
(* run: feed_stream_data; what check_target and check_visited compute from *)
(* its streams are TargetValid and VisitedValid above.                     *)

Adj(p) == ThisJob.adj[End(p)]
Fits   == /\ taken < Len(batch)
          /\ Len(cand) + Len(Adj(batch[taken + 1])) < MaxOut

FeedPath ==
    /\ pc = "feed" /\ Fits
    /\ pc' = "edges"
    /\ edge' = 0
    /\ UNCHANGED <<jid, bram, dram, batch, taken, cand, ans, debug>>

BugPasses(p, nbr) == (Layer(p) + 1 + ThisJob.sdt[nbr]) % LayerMod < ThisJob.k
Passes(p, nbr)    == Admits(ThisJob, p, nbr)

FeedEdge ==
    /\ pc = "edges" /\ edge < Len(Adj(batch[taken + 1]))
    /\ edge' = edge + 1
    /\ LET nbr == Adj(batch[taken + 1])[edge + 1]
       IN  cand' = IF Passes(batch[taken + 1], nbr)
                   THEN Append(cand, [idx |-> taken + 1, nbr |-> nbr])
                   ELSE cand
    /\ UNCHANGED <<jid, pc, bram, dram, batch, taken, ans, debug>>

(* ++temp_psize, once per path.                                            *)
BugTakenNext  == taken + edge
BugTakenStays == taken
TakenNext     == taken + 1

FeedPathEnd ==
    /\ pc = "edges" /\ edge = Len(Adj(batch[taken + 1]))
    /\ taken' = TakenNext
    /\ pc' = "feed"
    /\ UNCHANGED <<jid, bram, dram, batch, edge, cand, ans, debug>>

BugPoppedBatch == Len(batch)
BugPoppedOne   == Lesser(taken, 1)
Popped         == taken

(* The paths expanded leave bram; the counters of MYDFS() are updated.     *)
RunEnd ==
    /\ pc = "feed" /\ ~ Fits
    /\ bram' = SubSeq(bram, 1, Len(bram) - Popped)
    /\ debug' = [debug EXCEPT !.runs = @ + 1, !.paths = @ + taken,
                              !.nodes = @ + Len(cand)]
    /\ pc' = "check"
    /\ UNCHANGED <<jid, dram, batch, taken, edge, cand, ans>>

Broke        == debug.nodes >= Mtpc
BugStuckPart == taken < Len(batch)
Stuck        == taken = 0

(* The loop of MYDFS(): the budget is tested before the stuck batch.       *)
LoopBudget ==
    /\ pc = "check" /\ Broke
    /\ debug' = [debug EXCEPT !.err = 3]
    /\ pc' = "done"
    /\ UNCHANGED <<jid, bram, dram, batch, taken, edge, cand, ans>>

LoopStuck ==
    /\ pc = "check" /\ ~ Broke /\ Stuck
    /\ debug' = [debug EXCEPT !.err = 1]
    /\ pc' = "done"
    /\ UNCHANGED <<jid, bram, dram, batch, taken, edge, cand, ans>>

LoopAgain ==
    /\ pc = "check" /\ ~ Broke /\ ~ Stuck
    /\ pc' = "merge"
    /\ UNCHANGED <<jid, bram, dram, batch, taken, edge, cand, ans, debug>>

NextTask == \/ MergeDrop \/ MergeCount \/ MergePush
            \/ MergeSpill \/ MergeOverflow
            \/ Finish \/ NextBatch \/ Refill
Run      == FeedPath \/ FeedEdge \/ FeedPathEnd \/ RunEnd
Loop     == LoopBudget \/ LoopStuck \/ LoopAgain

Terminated == pc = "done" /\ UNCHANGED vars

Next == NextTask \/ Run \/ Loop \/ Terminated

Spec     == Init /\ [][Next]_vars
FairSpec == Spec /\ WF_vars(NextTask \/ Run \/ Loop)

-----------------------------------------------------------------------------
(***************************************************************************)
(* Properties.                                                             *)
(***************************************************************************)

(* The arrays hold paths and vertices of the job; indices are in range     *)
(* where the code uses them.                                               *)
Path(j)  == Seq(Node(j)) \ { << >> }
CandOf(j, b) == [idx : 1 .. Len(b), nbr : Node(j)]

TypeOK ==
    /\ jid \in JobId
    /\ pc \in {"merge", "feed", "edges", "check", "done"}
    /\ bram \in Seq(Path(ThisJob))
    /\ dram \in Seq(Path(ThisJob))
    /\ batch \in Seq(Path(ThisJob))
    /\ taken \in 0 .. Len(batch)
    /\ edge \in Nat
    /\ cand \in Seq(CandOf(ThisJob, batch))
    /\ ans \in Nat
    /\ debug \in [err : 0 .. 3, loads : Nat, spills : Nat,
                  runs : Nat, paths : Nat, nodes : Nat]

(* No array of the kernel is written or read outside its bounds: the two   *)
(* stacks, the batch, the candidate list (and the streams, which carry the *)
(* candidates), and the pop of taken paths in feed_stream_data.            *)
Capacity ==
    /\ Len(bram) <= MaxBuf
    /\ Len(dram) <= MaxDdr
    /\ Len(batch) <= MaxIn
    /\ Len(cand) < MaxOut
    /\ pc \in {"feed", "edges"} => taken <= Len(bram)

(* The kernel implements the pool: merging, spilling, refilling and        *)
(* batching move pending paths about without losing or repeating one.      *)
Pending ==
    Range(bram) \cup Range(dram) \cup
    IF pc \in {"feed", "edges"} THEN {}
    ELSE { Extended(c) : c \in { d \in Range(cand) : VisitedValid(d) } }

Status == IF pc # "done" THEN "run"
          ELSE IF debug.err = 0 THEN "complete" ELSE "error"

Pool == INSTANCE PathPool WITH pending <- Pending, status <- Status

ImplementsPool == Pool!PoolSpec

(* A call that reports bufferDebug[0] = 0 has counted exactly the paths    *)
(* that complete its tasks.                                                *)
ExactWhenClean ==
    pc = "done" /\ debug.err = 0 => ans = Cardinality(ResultsOf[jid])

(* What the kernel puts on its stacks satisfies what the host guarantees   *)
(* of a task: a simple walk that avoids the target and is shorter than k.  *)
StoredAreTasks ==
    \A p \in Range(bram) \cup Range(dram) : TaskOK(ThisJob, p)

(* The size of every search, tabulated once.                               *)
ExpandableOf == [i \in JobId |-> Expandable(Job[i])]
DemandOf     == [i \in JobId |-> Cardinality(Demand(Job[i], ExpandableOf[i]))]

(* No path is expanded twice, whatever spills and partial batches do to    *)
(* it, and a clean call has expanded them all: bufferDebug[4] and [5] are  *)
(* the exact size of the search.                                           *)
WorkOnce ==
    /\ debug.paths <= Cardinality(ExpandableOf[jid])
    /\ pc = "done" /\ debug.err = 0 =>
         /\ debug.paths = Cardinality(ExpandableOf[jid])
         /\ debug.nodes = DemandOf[jid]

(* The kernel gives up only on jobs that exceed what it is built for: a    *)
(* vertex with MAX_OUT_SIZE edges (1), more paths than both stacks hold    *)
(* (2), a search of more candidates than the caller's budget (3).          *)
ErrorJustified ==
    /\ debug.err = 1 => \E p \in ExpandableOf[jid] : Len(Adj(p)) >= MaxOut
    /\ debug.err = 2 => Cardinality(ExpandableOf[jid]) > MaxBuf + MaxDdr
    /\ debug.err = 3 => DemandOf[jid] >= Mtpc

(* The loop of MYDFS() ends: the stuck-batch test and the budget leave no  *)
(* job on which the card would hang.                                       *)
Termination == <>(pc = "done")
=============================================================================
