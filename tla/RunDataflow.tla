----------------------------- MODULE RunDataflow ----------------------------
(***************************************************************************)
(* run(): the dataflow region of the kernel.  feed_stream_data,            *)
(* check_target and check_visited run at the same time, joined by four     *)
(* FIFO streams of depth c_max_depth = MAX_OUT_SIZE.  A read of an empty   *)
(* stream and a write to a full one block.  The target and the visited     *)
(* check read two streams each, and the flags they store are matched with  *)
(* the candidates only by their position.                                  *)
(*                                                                         *)
(* The batch is the task list of a job.  MYDFS takes from this region what *)
(* the properties below establish: the candidates that feed_stream_data    *)
(* stores, and for the i-th of them the flags its own path and vertex call *)
(* for.                                                                    *)
(***************************************************************************)
EXTENDS HopJob

CONSTANT MaxOut   \* MAX_OUT_SIZE, also the depth of the streams

ASSUME MaxOutAssumption == MaxOut \in Nat \ {0}

VARIABLES jid,
          fpc, taken, edge, cand,     \* feed_stream_data; see MYDFS
          out,                        \* writes done for the current vertex
          nbrT, layerT, nbrV, idxV,   \* the four streams
          tReg, target_valid,         \* check_target: vertex read, flags
          vReg, visited_valid,        \* check_visited
          tEnd, vEnd                  \* the two checks have left their loop

feedVars  == <<fpc, taken, edge, cand, out>>
tVars     == <<tReg, target_valid, tEnd>>
vVars     == <<vReg, visited_valid, vEnd>>
vars == <<jid, feedVars, nbrT, layerT, nbrV, idxV, tVars, vVars>>

ThisJob == Job[jid]
batch   == ThisJob.tasks
Adj(p)  == ThisJob.adj[End(p)]

Init == /\ jid \in JobId
        /\ fpc = "paths" /\ taken = 0 /\ edge = 0 /\ cand = << >> /\ out = 0
        /\ nbrT = << >> /\ layerT = << >> /\ nbrV = << >> /\ idxV = << >>
        /\ tReg = 0 /\ target_valid = << >> /\ tEnd = FALSE
        /\ vReg = 0 /\ visited_valid = << >> /\ vEnd = FALSE

NotFull(s) == Len(s) < MaxOut

-----------------------------------------------------------------------------
(* feed_stream_data.                                                       *)

BugFits == /\ taken < Len(batch)
           /\ Len(cand) + Len(Adj(batch[taken + 1])) <= MaxOut
Fits    == /\ taken < Len(batch)
           /\ Len(cand) + Len(Adj(batch[taken + 1])) < MaxOut

FeedPath ==
    /\ fpc = "paths" /\ Fits
    /\ fpc' = "edges" /\ edge' = 0
    /\ UNCHANGED <<jid, taken, cand, out, nbrT, layerT, nbrV, idxV,
                   tVars, vVars>>

ThisNbr == Adj(batch[taken + 1])[edge + 1]

InEdges == fpc = "edges" /\ edge < Len(Adj(batch[taken + 1]))

(* The four writes for an admitted neighbour, in the order of the code.    *)
WriteNbrT ==
    /\ InEdges /\ Admits(ThisJob, batch[taken + 1], ThisNbr) /\ out = 0
    /\ NotFull(nbrT)
    /\ nbrT' = Append(nbrT, ThisNbr) /\ out' = 1
    /\ UNCHANGED <<jid, fpc, taken, edge, cand, layerT, nbrV, idxV,
                   tVars, vVars>>

WriteLayerT ==
    /\ InEdges /\ out = 1 /\ NotFull(layerT)
    /\ layerT' = Append(layerT, Layer(batch[taken + 1])) /\ out' = 2
    /\ UNCHANGED <<jid, fpc, taken, edge, cand, nbrT, nbrV, idxV,
                   tVars, vVars>>

WriteNbrV ==
    /\ InEdges /\ out = 2 /\ NotFull(nbrV)
    /\ nbrV' = Append(nbrV, ThisNbr) /\ out' = 3
    /\ UNCHANGED <<jid, fpc, taken, edge, cand, nbrT, layerT, idxV,
                   tVars, vVars>>

BugPathIdx == 1
PathIdx    == taken + 1

WriteIdxV ==
    /\ InEdges /\ out = 3 /\ NotFull(idxV)
    /\ idxV' = Append(idxV, PathIdx)
    /\ cand' = Append(cand, [idx |-> taken + 1, nbr |-> ThisNbr])
    /\ out' = 0 /\ edge' = edge + 1
    /\ UNCHANGED <<jid, fpc, taken, nbrT, layerT, nbrV, tVars, vVars>>

SkipNbr ==
    /\ InEdges /\ ~ Admits(ThisJob, batch[taken + 1], ThisNbr)
    /\ edge' = edge + 1
    /\ UNCHANGED <<jid, fpc, taken, cand, out, nbrT, layerT, nbrV, idxV,
                   tVars, vVars>>

BugTakenNext == taken + edge
TakenNext    == taken + 1

FeedPathEnd ==
    /\ fpc = "edges" /\ edge = Len(Adj(batch[taken + 1]))
    /\ fpc' = "paths" /\ taken' = TakenNext
    /\ UNCHANGED <<jid, edge, cand, out, nbrT, layerT, nbrV, idxV,
                   tVars, vVars>>

(* The 0 that ends a stream goes to the two vertex streams only.           *)
EndNbrT ==
    /\ fpc = "paths" /\ ~ Fits /\ NotFull(nbrT)
    /\ nbrT' = Append(nbrT, 0) /\ fpc' = "endV"
    /\ UNCHANGED <<jid, taken, edge, cand, out, layerT, nbrV, idxV,
                   tVars, vVars>>

BugEnded(s) == s
Ended(s)    == Append(s, 0)

EndNbrV ==
    /\ fpc = "endV" /\ NotFull(nbrV)
    /\ nbrV' = Ended(nbrV) /\ fpc' = "done"
    /\ UNCHANGED <<jid, taken, edge, cand, out, nbrT, layerT, idxV,
                   tVars, vVars>>

Feed == \/ FeedPath \/ WriteNbrT \/ WriteLayerT \/ WriteNbrV \/ WriteIdxV
        \/ SkipNbr \/ FeedPathEnd \/ EndNbrT \/ EndNbrV

-----------------------------------------------------------------------------
(* check_target: a vertex, then its layer, then the flag.                  *)

ReadNbrT ==
    /\ ~ tEnd /\ tReg = 0 /\ nbrT # << >>
    /\ nbrT' = Tail(nbrT)
    /\ IF Head(nbrT) = 0 THEN tEnd' = TRUE /\ tReg' = tReg
                         ELSE tReg' = Head(nbrT) /\ tEnd' = tEnd
    /\ UNCHANGED <<jid, feedVars, layerT, nbrV, idxV, target_valid, vVars>>

Rest(s) == Tail(s)

ReadLayerT ==
    /\ tReg # 0 /\ layerT # << >>
    /\ layerT' = Rest(layerT)
    /\ target_valid' = Append(target_valid,
                              tReg = ThisJob.dst \/ Head(layerT) + 2 = ThisJob.k)
    /\ tReg' = 0
    /\ UNCHANGED <<jid, feedVars, nbrT, nbrV, idxV, tEnd, vVars>>

(* check_visited: a vertex, then the index of its path, then the flag.     *)

ReadNbrV ==
    /\ ~ vEnd /\ vReg = 0 /\ nbrV # << >>
    /\ nbrV' = Tail(nbrV)
    /\ IF Head(nbrV) = 0 THEN vEnd' = TRUE /\ vReg' = vReg
                         ELSE vReg' = Head(nbrV) /\ vEnd' = vEnd
    /\ UNCHANGED <<jid, feedVars, nbrT, layerT, idxV, tVars, visited_valid>>

ReadIdxV ==
    /\ vReg # 0 /\ idxV # << >>
    /\ idxV' = Tail(idxV)
    /\ visited_valid' = Append(visited_valid,
                               NotVisited(batch[Head(idxV)], vReg))
    /\ vReg' = 0
    /\ UNCHANGED <<jid, feedVars, nbrT, layerT, nbrV, tVars, vEnd>>

CheckTarget  == ReadNbrT \/ ReadLayerT
CheckVisited == ReadNbrV \/ ReadIdxV

Finished   == fpc = "done" /\ tEnd /\ vEnd
Terminated == Finished /\ UNCHANGED vars

Next == Feed \/ CheckTarget \/ CheckVisited \/ Terminated

Spec     == Init /\ [][Next]_vars
FairSpec == Spec /\ WF_vars(Feed) /\ WF_vars(CheckTarget)
                 /\ WF_vars(CheckVisited)

-----------------------------------------------------------------------------
(***************************************************************************)
(* Properties.                                                             *)
(***************************************************************************)

TypeOK ==
    /\ jid \in JobId
    /\ fpc \in {"paths", "edges", "endV", "done"}
    /\ taken \in 0 .. Len(batch) /\ edge \in Nat /\ out \in 0 .. 3
    /\ cand \in Seq([idx : 1 .. Len(batch), nbr : Node(ThisJob)])
    /\ nbrT \in Seq(Node(ThisJob) \cup {0}) /\ layerT \in Seq(Nat)
    /\ nbrV \in Seq(Node(ThisJob) \cup {0}) /\ idxV \in Seq(Nat)
    /\ tReg \in Node(ThisJob) \cup {0} /\ vReg \in Node(ThisJob) \cup {0}
    /\ target_valid \in Seq(BOOLEAN) /\ visited_valid \in Seq(BOOLEAN)
    /\ tEnd \in BOOLEAN /\ vEnd \in BOOLEAN

(* The streams are deep enough for any schedule of the three processes,    *)
(* also the one of C simulation, where the checks start after the feed:    *)
(* the feed never meets a full stream.                                     *)
FeedNeverBlocks ==
    /\ fpc = "paths" /\ ~ Fits => NotFull(nbrT)
    /\ fpc = "endV" => NotFull(nbrV)
    /\ InEdges => NotFull(nbrT) /\ NotFull(layerT) /\ NotFull(nbrV)
                                /\ NotFull(idxV)

(* When run returns, every candidate has both flags and nothing is left in *)
(* a stream for the next round to trip over.                               *)
Drained ==
    Finished => /\ nbrT = << >> /\ layerT = << >>
                /\ nbrV = << >> /\ idxV = << >>
                /\ Len(target_valid) = Len(cand)
                /\ Len(visited_valid) = Len(cand)

(* The flag stored at a position is the one the candidate stored at that   *)
(* position calls for, although the two checks never see the candidate     *)
(* list: merge_last_task relies on this pairing, for every candidate and   *)
(* in every round.                                                         *)
FlagsMatch ==
    /\ \A i \in 1 .. Len(target_valid) :
         i <= Len(cand) =>
           (target_valid[i] <=> Closing(ThisJob, Append(batch[cand[i].idx],
                                                        cand[i].nbr)))
    /\ \A i \in 1 .. Len(visited_valid) :
         i <= Len(cand) =>
           (visited_valid[i] <=> NotVisited(batch[cand[i].idx], cand[i].nbr))
    /\ Drained

(* Both checks leave their loops: the terminators always arrive.           *)
Returns == <>Finished
=============================================================================
