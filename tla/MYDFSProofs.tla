----------------------------- MODULE MYDFSProofs ----------------------------
(***************************************************************************)
(* The kernel never leaves the bounds of its arrays, whatever the job and  *)
(* the sizes.  Capacity is not inductive: that the candidate list has room *)
(* for the next edge follows from the test made before the path's first    *)
(* edge (Room), and the pop in feed_stream_data is safe because the batch  *)
(* was read from the stack it is popped from.                              *)
(***************************************************************************)
EXTENDS MYDFS, HopPathsProofs

Room ==
    /\ pc \in {"feed", "edges"} => Len(batch) <= Len(bram)
    /\ pc = "edges" =>
         /\ taken < Len(batch)
         /\ edge <= Len(Adj(batch[taken + 1]))
         /\ Len(cand) + Len(Adj(batch[taken + 1])) - edge < MaxOut

Counters == [err : 0 .. 3, loads : Nat, spills : Nat,
             runs : Nat, paths : Nat, nodes : Nat]

IInv == TypeOK /\ Capacity /\ Room

-----------------------------------------------------------------------------
(* A part of a sequence is a sequence of the expected length.              *)
LEMMA Slice ==
    ASSUME NEW S, NEW s \in Seq(S),
           NEW m \in 1 .. Len(s) + 1, NEW n \in 0 .. Len(s)
    PROVE  /\ SubSeq(s, m, n) \in Seq(S)
           /\ Len(SubSeq(s, m, n)) = IF m <= n THEN n - m + 1 ELSE 0
<1>1. m \in Int /\ n \in Int /\ \A i \in m .. n : s[i] \in S
  BY ElementOfSeq, LenProperties
<1>2. QED  BY <1>1, SubSeqProperties

(* The task list of a job is a stack of paths.                             *)
LEMMA TasksArePaths ==
    ASSUME NEW i \in JobId
    PROVE  Job[i].tasks \in Seq(Path(Job[i]))
<1> DEFINE j == Job[i]
<1>1. TasksOK(j)
  BY JobsAssumption DEF JobOK
<1>2. j.tasks \in Seq(Seq(Node(j)))
  BY <1>1 DEF TasksOK
<1>3. \A a \in 1 .. Len(j.tasks) : j.tasks[a] \in Path(j)
  <2>1. SUFFICES ASSUME NEW a \in 1 .. Len(j.tasks)
                 PROVE  j.tasks[a] \in Path(j)
    OBVIOUS
  <2>0. TaskOK(j, j.tasks[a])
    BY <1>1, <2>1 DEF TasksOK
  <2>2. j.tasks[a] \in Seq(Node(j)) /\ Len(j.tasks[a]) # 0
    <3>1. j.tasks[a] \in Seq(Node(j))
      BY <2>0 DEF TaskOK
    <3>2. Len(j.tasks[a]) \in Nat
      BY <3>1, LenProperties
    <3>3. Len(j.tasks[a]) = 1 \/ Len(j.tasks[a]) >= 1
      BY <2>0 DEF TaskOK
    <3>4. \A n \in Nat : (n = 1 \/ n >= 1) => n # 0
      OBVIOUS
    <3>5. QED  BY <3>1, <3>2, <3>3, <3>4, Zenon
  <2>3. j.tasks[a] # << >>
    BY <2>2, EmptySeq
  <2>4. QED  BY <2>2, <2>3 DEF Path
<1>4. j.tasks = [a \in 1 .. Len(j.tasks) |-> j.tasks[a]]
  BY <1>2
<1>5. Len(j.tasks) \in Nat
  BY <1>2, LenProperties
<1>6. QED  BY <1>3, <1>4, <1>5, IsASeq

(* The adjacency list of the last vertex of a path lists vertices.         *)
LEMMA AdjType ==
    ASSUME jid \in JobId, NEW p \in Path(ThisJob)
    PROVE  /\ Adj(p) \in Seq(Node(ThisJob))
           /\ Len(Adj(p)) \in Nat
           /\ \A i \in 1 .. Len(Adj(p)) : Adj(p)[i] \in Node(ThisJob)
<1>1. GraphOK(ThisJob)
  BY JobsAssumption DEF JobOK, ThisJob
<1>2. p \in Seq(Node(ThisJob)) /\ Len(p) \in Nat /\ Len(p) # 0
  BY EmptySeq, LenProperties DEF Path
<1>3. End(p) \in Node(ThisJob)
  BY <1>2, ElementOfSeq DEF End
<1>4. Adj(p) \in Seq(Node(ThisJob))
  BY <1>1, <1>3 DEF GraphOK, Adj
<1>5. QED  BY <1>4, ElementOfSeq, LenProperties

(* A candidate extends a path of the batch to a path.                      *)
LEMMA ExtendedIsPath ==
    ASSUME batch \in Seq(Path(ThisJob)), NEW c \in CandOf(ThisJob, batch)
    PROVE  Extended(c) \in Path(ThisJob)
<1>1. batch[c.idx] \in Seq(Node(ThisJob)) /\ c.nbr \in Node(ThisJob)
  BY ElementOfSeq DEF CandOf, Path
<1>2. QED  BY <1>1, AppendProperties DEF Extended, Path

(* The batch read from a stack is as long as MAX_IN_SIZE allows.           *)
LEMMA TopType ==
    ASSUME NEW S, NEW b \in Seq(S)
    PROVE  /\ TopOf(b) \in Seq(S)
           /\ Len(TopOf(b)) <= MaxIn /\ Len(TopOf(b)) <= Len(b)
<1>1. Lesser(Len(b), MaxIn) \in 0 .. Len(b) /\ Lesser(Len(b), MaxIn) <= MaxIn
  BY LenProperties, SizesAssumption DEF Lesser
<1>2. \A i \in 1 .. Lesser(Len(b), MaxIn) : b[Len(b) + 1 - i] \in S
  BY <1>1, ElementOfSeq, LenProperties
<1>3. TopOf(b) \in Seq(S)
  BY <1>1, <1>2, IsASeq DEF TopOf
<1>4. DOMAIN TopOf(b) = 1 .. Lesser(Len(b), MaxIn)
  BY DEF TopOf
<1>5. Len(TopOf(b)) = Lesser(Len(b), MaxIn)
  BY <1>1, <1>3, <1>4, LenProperties
<1>6. QED  BY <1>1, <1>3, <1>5

-----------------------------------------------------------------------------
LEMMA InitInv == Init => IInv
<1>1. SUFFICES ASSUME Init PROVE IInv
  OBVIOUS
<1>2. bram \in Seq(Path(ThisJob)) /\ Len(bram) <= MaxBuf
  BY <1>1, TasksArePaths, SizesAssumption DEF Init, ThisJob
<1>3. << >> \in Seq(Path(ThisJob)) /\ << >> \in Seq(CandOf(ThisJob, batch))
  BY EmptySeq
<1>4. TypeOK
  BY <1>1, <1>2, <1>3 DEF Init, TypeOK
<1>5. Capacity /\ Room
  BY <1>1, <1>2, SizesAssumption DEF Init, Capacity, Room
<1>6. QED  BY <1>4, <1>5 DEF IInv

(* Taking the last candidate off the list.                                 *)
LEMMA PopCand ==
    ASSUME IInv, Merging, Pop
    PROVE  /\ Top \in CandOf(ThisJob, batch)
           /\ cand' \in Seq(CandOf(ThisJob, batch))
           /\ Len(cand') < MaxOut
<1>1. cand \in Seq(CandOf(ThisJob, batch)) /\ cand # << >>
  BY DEF IInv, TypeOK, Merging
<1>2. Len(cand) \in Nat /\ Len(cand) # 0
  BY <1>1, EmptySeq, LenProperties
<1>3. Len(cand) < MaxOut
  BY DEF IInv, Capacity
<1>4. Top \in CandOf(ThisJob, batch)
  BY <1>1, <1>2, ElementOfSeq DEF Top
<1>5. /\ cand' \in Seq(CandOf(ThisJob, batch))
      /\ Len(cand') = IF 1 <= Len(cand) - 1 THEN Len(cand) - 1 - 1 + 1 ELSE 0
  BY <1>1, <1>2, Slice DEF Pop
<1>6. QED  BY <1>2, <1>3, <1>4, <1>5, SizesAssumption

LEMMA StepInv == IInv /\ [Next]_vars => IInv'
<1> SUFFICES ASSUME IInv, [Next]_vars PROVE IInv'
  OBVIOUS
<1>s. /\ MaxBuf \in Nat \ {0} /\ MaxIn \in Nat \ {0} /\ MaxOut \in Nat \ {0}
      /\ DdrBatch \in 1 .. MaxBuf /\ MaxDdr \in Nat
  BY SizesAssumption
<1>t. /\ bram \in Seq(Path(ThisJob)) /\ dram \in Seq(Path(ThisJob))
      /\ batch \in Seq(Path(ThisJob)) /\ cand \in Seq(CandOf(ThisJob, batch))
      /\ Len(bram) \in Nat /\ Len(dram) \in Nat
      /\ Len(batch) \in Nat /\ Len(cand) \in Nat
      /\ taken \in 0 .. Len(batch) /\ jid \in JobId
  BY LenProperties DEF IInv, TypeOK
<1>j. ASSUME jid' = jid PROVE ThisJob' = ThisJob
  BY <1>j DEF ThisJob
<1>d. debug \in Counters
  BY DEF IInv, TypeOK, Counters
<1>1. CASE MergeDrop
  <2>1. cand' \in Seq(CandOf(ThisJob, batch)) /\ Len(cand') < MaxOut
    BY <1>1, PopCand DEF MergeDrop
  <2>2. TypeOK'
    BY <1>1, <2>1, <1>j DEF MergeDrop, IInv, TypeOK
  <2>3. Capacity' /\ Room'
    BY <1>1, <2>1, <1>j DEF MergeDrop, Merging, IInv, Capacity, Room
  <2>4. QED  BY <2>2, <2>3 DEF IInv
<1>2. CASE MergeCount
  <2>1. cand' \in Seq(CandOf(ThisJob, batch)) /\ Len(cand') < MaxOut
    BY <1>2, PopCand DEF MergeCount
  <2>2. TypeOK'
    BY <1>2, <2>1, <1>j DEF MergeCount, IInv, TypeOK
  <2>3. Capacity' /\ Room'
    BY <1>2, <2>1, <1>j DEF MergeCount, Merging, IInv, Capacity, Room
  <2>4. QED  BY <2>2, <2>3 DEF IInv
<1>3. CASE MergePush
  <2>1. /\ cand' \in Seq(CandOf(ThisJob, batch)) /\ Len(cand') < MaxOut
        /\ Extended(Top) \in Path(ThisJob)
    BY <1>3, <1>s, <1>t, PopCand, ExtendedIsPath DEF MergePush, Pushing
  <2>2. bram' \in Seq(Path(ThisJob)) /\ Len(bram') = Len(bram) + 1
    BY <1>3, <1>s, <1>t, <2>1, AppendProperties DEF MergePush
  <2>3. TypeOK'
    BY <1>3, <2>1, <2>2, <1>j DEF MergePush, IInv, TypeOK
  <2>4. Capacity' /\ Room'
    BY <1>3, <1>s, <1>t, <2>1, <2>2, <1>j
       DEF MergePush, Pushing, Merging, IInv, Capacity, Room
  <2>5. QED  BY <2>3, <2>4 DEF IInv
<1>4. CASE MergeSpill
  <2>1. /\ cand' \in Seq(CandOf(ThisJob, batch)) /\ Len(cand') < MaxOut
        /\ Extended(Top) \in Path(ThisJob)
    BY <1>4, <1>s, <1>t, PopCand, ExtendedIsPath DEF MergeSpill, Pushing
  <2>2. /\ Len(bram) = MaxBuf /\ SpillKeeps \in 0 .. MaxBuf - 1
        /\ Len(dram) + (MaxBuf - SpillKeeps) <= MaxDdr
    <3>1. Len(bram) = MaxBuf /\ Len(dram) < MaxDdr
      BY <1>4 DEF MergeSpill
    <3>2. QED  BY <1>s, <1>t, <3>1 DEF SpillKeeps, Lesser
  <2>3. /\ SubSeq(bram, 1, SpillKeeps) \in Seq(Path(ThisJob))
        /\ Len(SubSeq(bram, 1, SpillKeeps)) = SpillKeeps
    <3>1. 1 \in 1 .. Len(bram) + 1 /\ SpillKeeps \in 0 .. Len(bram)
      BY <2>2
    <3>2. QED  BY <1>s, <1>t, <2>2, <3>1, Slice
  <2>4. /\ SubSeq(bram, SpillKeeps + 1, MaxBuf) \in Seq(Path(ThisJob))
        /\ Len(SubSeq(bram, SpillKeeps + 1, MaxBuf)) = MaxBuf - SpillKeeps
    <3>1. SpillKeeps + 1 \in 1 .. Len(bram) + 1 /\ MaxBuf \in 0 .. Len(bram)
      BY <2>2
    <3>2. QED  BY <1>s, <1>t, <2>2, <3>1, Slice
  <2>5. bram' \in Seq(Path(ThisJob)) /\ Len(bram') = SpillKeeps + 1
    BY <1>4, <2>1, <2>3, AppendProperties DEF MergeSpill
  <2>6. /\ dram' \in Seq(Path(ThisJob))
        /\ Len(dram') = Len(dram) + (MaxBuf - SpillKeeps)
    BY <1>4, <1>s, <1>t, <2>4, ConcatProperties DEF MergeSpill
  <2>7. debug' \in Counters
    <3>1. debug' = [debug EXCEPT !.spills = @ + 1]
      BY <1>4 DEF MergeSpill
    <3>2. QED  BY <1>d, <3>1 DEF Counters
  <2>8. TypeOK'
    BY <1>4, <2>1, <2>5, <2>6, <2>7, <1>j
       DEF MergeSpill, IInv, TypeOK, Counters
  <2>9. Capacity' /\ Room'
    <3>1. /\ Len(bram') <= MaxBuf /\ Len(dram') <= MaxDdr
          /\ batch' = batch /\ pc' = "merge"
      BY <1>4, <1>s, <1>t, <2>2, <2>5, <2>6, SMTT(30) DEF MergeSpill, Pushing, Merging
    <3>2. QED  BY <2>1, <3>1 DEF IInv, Capacity, Room
  <2>10. QED  BY <2>8, <2>9 DEF IInv
<1>5. CASE MergeOverflow \/ Finish \/ LoopBudget \/ LoopStuck
  <2>1. /\ pc' = "done"
        /\ debug' \in Counters
        /\ UNCHANGED <<jid, bram, dram, batch, taken, edge, cand, ans>>
    BY <1>5, <1>d DEF MergeOverflow, Finish, LoopBudget, LoopStuck, Counters
  <2>2. QED  BY <2>1, <1>j DEF IInv, TypeOK, Counters, Capacity, Room
<1>6. CASE NextBatch
  <2>1. /\ batch' \in Seq(Path(ThisJob)) /\ taken' = 0 /\ pc' = "feed"
        /\ Len(batch') <= MaxIn /\ Len(batch') <= Len(bram)
        /\ Len(batch') \in Nat
    BY <1>6, <1>s, <1>t, TopType, LenProperties DEF NextBatch, ReadBatch
  <2>2. cand' = << >> /\ << >> \in Seq(CandOf(ThisJob, batch'))
    BY <1>6, EmptySeq DEF NextBatch, Merged
  <2>3. TypeOK'
    BY <1>6, <2>1, <2>2, <1>j DEF NextBatch, IInv, TypeOK
  <2>4. Capacity' /\ Room'
    BY <1>6, <1>s, <1>t, <2>1, <2>2, <1>j DEF NextBatch, IInv, Capacity, Room
  <2>5. QED  BY <2>3, <2>4 DEF IInv
<1>7. CASE Refill
  <2>1. /\ RefillKeeps \in 0 .. Len(dram)
        /\ Len(dram) - RefillKeeps <= DdrBatch
    BY <1>s, <1>t DEF RefillKeeps, Lesser
  <2>2. /\ bram' \in Seq(Path(ThisJob)) /\ Len(bram') <= MaxBuf
        /\ Len(bram') \in Nat
    <3>1. /\ RefillKeeps + 1 \in 1 .. Len(dram) + 1
          /\ Len(dram) \in 0 .. Len(dram)
      BY <1>s, <1>t, <2>1
    <3>2. bram' = SubSeq(dram, RefillKeeps + 1, Len(dram))
      BY <1>7 DEF Refill
    <3>3. /\ bram' \in Seq(Path(ThisJob))
          /\ Len(bram') = IF RefillKeeps + 1 <= Len(dram)
                          THEN Len(dram) - (RefillKeeps + 1) + 1 ELSE 0
      BY <1>s, <1>t, <3>1, <3>2, Slice
    <3>4. QED  BY <1>s, <1>t, <2>1, <3>3
  <2>3. dram' \in Seq(Path(ThisJob)) /\ Len(dram') <= MaxDdr
    <3>1. 1 \in 1 .. Len(dram) + 1
      BY <1>t
    <3>2. Len(dram) <= MaxDdr
      BY DEF IInv, Capacity
    <3>3. QED  BY <1>7, <1>s, <1>t, <2>1, <3>1, <3>2, Slice, SMTT(30) DEF Refill
  <2>4. /\ batch' \in Seq(Path(ThisJob)) /\ taken' = 0 /\ pc' = "feed"
        /\ Len(batch') <= MaxIn /\ Len(batch') <= Len(bram')
        /\ Len(batch') \in Nat
    BY <1>7, <2>2, TopType, LenProperties DEF Refill, ReadBatch
  <2>5. cand' = << >> /\ << >> \in Seq(CandOf(ThisJob, batch'))
    BY <1>7, EmptySeq DEF Refill, Merged
  <2>6. debug' \in Counters
    <3>1. debug' = [debug EXCEPT !.loads = @ + 1]
      BY <1>7 DEF Refill
    <3>2. QED  BY <1>d, <3>1 DEF Counters
  <2>7. TypeOK'
    <3>1. jid' = jid /\ edge' = edge /\ ans' = ans
      BY <1>7 DEF Refill
    <3>2. QED
      BY <1>t, <2>2, <2>3, <2>4, <2>5, <2>6, <3>1, <1>j
         DEF IInv, TypeOK, Counters
  <2>8. Capacity' /\ Room'
    BY <1>7, <2>2, <2>3, <2>4, <2>5, <1>j DEF Refill, IInv, Capacity, Room
  <2>9. QED  BY <2>7, <2>8 DEF IInv
<1>8. CASE FeedPath
  <2>1. taken < Len(batch) /\ Len(cand) + Len(Adj(batch[taken + 1])) < MaxOut
    BY <1>8 DEF FeedPath, Fits
  <2>2. batch[taken + 1] \in Path(ThisJob)
    BY <1>s, <1>t, <2>1, ElementOfSeq
  <2>3. Len(Adj(batch[taken + 1])) \in Nat
    BY <1>s, <1>t, <2>2, AdjType
  <2>4. TypeOK'
    BY <1>8, <1>j DEF FeedPath, IInv, TypeOK
  <2>5. Capacity'
    BY <1>8 DEF FeedPath, IInv, Capacity
  <2>6. Adj(batch[taken + 1])' = Adj(batch[taken + 1])
    BY <1>8, <1>j DEF FeedPath, Adj
  <2>7. Room'
    BY <1>8, <1>s, <1>t, <2>1, <2>3, <2>6 DEF FeedPath, IInv, Room
  <2>8. QED  BY <2>4, <2>5, <2>7 DEF IInv
<1>9. CASE FeedEdge
  <2> DEFINE p == batch[taken + 1]
             c == [idx |-> taken + 1, nbr |-> Adj(p)[edge + 1]]
  <2>1. /\ pc = "edges" /\ taken < Len(batch) /\ edge < Len(Adj(p))
        /\ Len(cand) + Len(Adj(p)) - edge < MaxOut
        /\ edge \in Nat
    BY <1>9 DEF FeedEdge, IInv, Room, TypeOK
  <2>2. p \in Path(ThisJob)
    BY <1>s, <1>t, <2>1, ElementOfSeq
  <2>3. Len(Adj(p)) \in Nat /\ Adj(p)[edge + 1] \in Node(ThisJob)
    <3>1. Len(Adj(p)) \in Nat
      BY <1>s, <1>t, <2>2, AdjType
    <3>2. edge + 1 \in 1 .. Len(Adj(p))
      BY <2>1, <3>1
    <3>3. QED  BY <1>s, <1>t, <2>2, <3>1, <3>2, AdjType
  <2>4. c \in CandOf(ThisJob, batch)
    BY <1>s, <1>t, <2>1, <2>3 DEF CandOf
  <2>5. /\ cand' \in Seq(CandOf(ThisJob, batch))
        /\ Len(cand') \in Nat /\ Len(cand') <= Len(cand) + 1
    <3>1. cand' = Append(cand, c) \/ cand' = cand
      BY <1>9 DEF FeedEdge
    <3>2. /\ Append(cand, c) \in Seq(CandOf(ThisJob, batch))
          /\ Len(Append(cand, c)) = Len(cand) + 1
      BY <1>s, <1>t, <2>4, AppendProperties
    <3>3. QED
      <4>1. CASE cand' = Append(cand, c)
        BY <1>t, <3>2, <4>1
      <4>2. CASE cand' = cand
        BY <1>t, <4>2
      <4>3. QED  BY <3>1, <4>1, <4>2
  <2>6. TypeOK'
    BY <1>9, <2>1, <2>5, <1>j DEF FeedEdge, IInv, TypeOK
  <2>7. Adj(batch[taken + 1])' = Adj(p)
    BY <1>9, <1>j DEF FeedEdge, Adj
  <2>8. Capacity'
    <3>1. Len(cand') < MaxOut
      BY <1>s, <1>t, <2>1, <2>3, <2>5
    <3>2. QED  BY <1>9, <3>1 DEF FeedEdge, IInv, Capacity
  <2>9. Room'
    <3>1. /\ pc' = "edges" /\ taken' = taken /\ edge' = edge + 1
          /\ batch' = batch /\ bram' = bram
      BY <1>9 DEF FeedEdge
    <3>2. Len(batch) <= Len(bram)
      BY <2>1 DEF IInv, Room
    <3>3. Len(cand') + Len(Adj(p)) - (edge + 1) < MaxOut
      BY <1>s, <1>t, <2>1, <2>3, <2>5
    <3>4. QED  BY <2>1, <2>3, <2>7, <3>1, <3>2, <3>3 DEF Room
  <2>10. QED  BY <2>6, <2>8, <2>9 DEF IInv
<1>10. CASE FeedPathEnd
  <2>1. pc = "edges" /\ taken < Len(batch) /\ taken' = taken + 1
    BY <1>10 DEF FeedPathEnd, TakenNext, IInv, Room
  <2>2. TypeOK'
    BY <1>10, <1>s, <1>t, <2>1, <1>j DEF FeedPathEnd, IInv, TypeOK
  <2>3. Capacity' /\ Room'
    BY <1>10, <1>s, <1>t, <2>1 DEF FeedPathEnd, IInv, Capacity, Room
  <2>4. QED  BY <2>2, <2>3 DEF IInv
<1>11. CASE RunEnd
  <2>1. Len(bram) - Popped \in 0 .. Len(bram)
    BY <1>11, <1>t DEF RunEnd, Popped, IInv, Capacity
  <2>2. /\ bram' \in Seq(Path(ThisJob)) /\ Len(bram') <= Len(bram)
        /\ Len(bram') \in Nat
    <3>1. 1 \in 1 .. Len(bram) + 1
      BY <1>t
    <3>2. QED  BY <1>11, <1>s, <1>t, <2>1, <3>1, Slice DEF RunEnd
  <2>3. debug' \in Counters
    <3>1. debug' = [debug EXCEPT !.runs = @ + 1, !.paths = @ + taken,
                                 !.nodes = @ + Len(cand)]
      BY <1>11 DEF RunEnd
    <3>2. taken \in Nat /\ Len(cand) \in Nat
      BY <1>t
    <3>3. /\ debug.runs + 1 \in Nat /\ debug.paths + taken \in Nat
          /\ debug.nodes + Len(cand) \in Nat
      BY <1>d, <3>2 DEF Counters
    <3>4. debug' = [err |-> debug.err, loads |-> debug.loads,
                    spills |-> debug.spills, runs |-> debug.runs + 1,
                    paths |-> debug.paths + taken,
                    nodes |-> debug.nodes + Len(cand)]
      BY <1>d, <3>1 DEF Counters
    <3>5. QED  BY <1>d, <3>3, <3>4 DEF Counters
  <2>4. TypeOK'
    BY <1>11, <2>2, <2>3, <1>j DEF RunEnd, IInv, TypeOK, Counters
  <2>5. Capacity' /\ Room'
    BY <1>11, <1>s, <1>t, <2>2 DEF RunEnd, IInv, Capacity, Room
  <2>6. QED  BY <2>4, <2>5 DEF IInv
<1>12. CASE LoopAgain
  BY <1>12, <1>j DEF LoopAgain, IInv, TypeOK, Capacity, Room
<1>13. CASE UNCHANGED vars
  BY <1>13, <1>j DEF vars, IInv, TypeOK, Capacity, Room, Adj
<1>14. QED
  BY <1>1, <1>2, <1>3, <1>4, <1>5, <1>6, <1>7, <1>8, <1>9, <1>10, <1>11,
     <1>12, <1>13 DEF Next, NextTask, Run, Loop, Terminated

-----------------------------------------------------------------------------
(* The arrays of the kernel hold what the code takes them to hold: paths,  *)
(* vertices and in-range indices, in every call on every job.              *)
THEOREM TypeCorrect == Spec => []TypeOK
<1>1. IInv => TypeOK
  BY DEF IInv
<1>2. QED  BY InitInv, StepInv, <1>1, PTL DEF Spec

(* The two path stacks, the batch and the candidate list stay within       *)
(* MAX_BUF_SIZE, MAX_DDR_PATH_SIZE, MAX_IN_SIZE and MAX_OUT_SIZE, and      *)
(* feed_stream_data never pops more paths than bram holds.                 *)
THEOREM CapacityRespected == Spec => []Capacity
<1>1. IInv => Capacity
  BY DEF IInv
<1>2. QED  BY InitInv, StepInv, <1>1, PTL DEF Spec
-----------------------------------------------------------------------------
(***************************************************************************)
(* The kernel implements the pool of PathPool, for every job and all sizes *)
(* of its buffers.  Merging, spilling, refilling and reading a batch move  *)
(* paths about and are steps of the pool that change nothing; counting a   *)
(* candidate is Emit, and the end of a run is Expand of the paths taken.   *)
(*                                                                         *)
(* For that no path may be kept twice (StoredOnce, WaitingOnce), no path   *)
(* that closes may be stored (StoredOpen), the batch must be the top of    *)
(* the stack it will be popped from (BatchIsTop), and the candidates must  *)
(* be those the paths looked at so far admit, each once (CandIsFed).       *)
(***************************************************************************)
Feeding == pc \in {"feed", "edges"}
Stored  == Range(bram) \cup Range(dram)

(* The extensions that the candidates in C stand for.                      *)
Extensions(b, C) ==
    { Append(b[c.idx], c.nbr) : c \in { d \in C : NotVisited(b[d.idx], d.nbr) } }

StoredOnce ==
    /\ Simple(bram) /\ Simple(dram)
    /\ Range(bram) \cap Range(dram) = {}

StoredOpen == \A p \in Stored : ~ Closing(ThisJob, p)

WaitingOnce ==
    /\ Simple(cand)
    /\ ~ Feeding =>
         \A c \in Range(cand) : VisitedValid(c) =>
           /\ Extended(c) \notin Stored
           /\ \A d \in Range(cand) : Extended(c) = Extended(d) => c = d

BatchIsTop ==
    Feeding => \A i \in 1 .. Len(batch) : batch[i] = bram[Len(bram) + 1 - i]

(* What the paths and edges looked at so far have put on the list.         *)
Looked(c) ==
    \/ c.idx <= taken /\ c.nbr \in Nbrs(ThisJob, End(batch[c.idx]))
    \/ /\ pc = "edges" /\ c.idx = taken + 1
       /\ \E e \in 1 .. edge : c.nbr = Adj(batch[c.idx])[e]

CandIsFed ==
    Feeding => \A c \in CandOf(ThisJob, batch) :
                 c \in Range(cand) <=> Passes(batch[c.idx], c.nbr) /\ Looked(c)

Shape == StoredOnce /\ StoredOpen /\ WaitingOnce /\ BatchIsTop /\ CandIsFed

RInv == IInv /\ Shape /\ Accounts(ThisJob, Pending, ans)

(* A step of the pool, on the paths of the kernel.                         *)
ExpandStep ==
    /\ \E S \in SUBSET Pending :
         /\ S # {} /\ \A p \in S : ~ Closing(ThisJob, p)
         /\ Pending' = Expanded(ThisJob, Pending, S)
    /\ ans' = ans /\ Status = "run" /\ Status' = "run"
    /\ pc = "feed" /\ pc' = "check"

EmitStep ==
    /\ \E p \in Pending : Closing(ThisJob, p) /\ Pending' = Pending \ {p}
    /\ ans' = ans + 1 /\ Status = "run" /\ Status' = "run"

StopStep ==
    /\ \/ Pending = {} /\ Status' = "complete"
       \/ Status' = "error"
    /\ Pending' = Pending /\ ans' = ans /\ Status = "run"

StillStep == Pending' = Pending /\ ans' = ans /\ Status' = Status

PoolStep == jid' = jid /\ (ExpandStep \/ EmitStep \/ StopStep \/ StillStep)

-----------------------------------------------------------------------------
LEMMA PendingIs ==
    Pending = Stored \cup (IF Feeding THEN {}
                           ELSE Extensions(batch, Range(cand)))
BY DEF Pending, Stored, Feeding, Extensions, Extended, VisitedValid

LEMMA PendingIsPrimed ==
    Pending' = Stored' \cup (IF Feeding' THEN {}
                             ELSE Extensions(batch', Range(cand')))
BY DEF Pending, Stored, Feeding, Extensions, Extended, VisitedValid

LEMMA ThisJobOK ==
    ASSUME IInv PROVE JobOK(ThisJob) /\ jid \in JobId
BY JobsAssumption DEF IInv, TypeOK, ThisJob

(* A path takes part in the account of the pool at most once.              *)
LEMMA AccountStep ==
    ASSUME RInv, PoolStep PROVE Accounts(ThisJob, Pending, ans)'
<1>1. JobOK(ThisJob) /\ Accounts(ThisJob, Pending, ans)
  BY ThisJobOK DEF RInv
<1>2. ThisJob' = ThisJob
  BY DEF PoolStep, ThisJob
<1>3. SUFFICES Accounts(ThisJob, Pending', ans')
  BY <1>2
<1>4. CASE ExpandStep
  BY <1>1, <1>4, ExpandAccounts DEF ExpandStep
<1>5. CASE EmitStep
  BY <1>1, <1>5, EmitAccounts DEF EmitStep
<1>6. CASE StopStep \/ StillStep
  BY <1>1, <1>6 DEF StopStep, StillStep
<1>7. QED  BY <1>4, <1>5, <1>6 DEF PoolStep

-----------------------------------------------------------------------------
(* next_task.  Taking the top candidate off the list takes its extension   *)
(* out of the pool, unless it visits a vertex twice.                       *)
LEMMA PopShape ==
    ASSUME RInv, Merging, Pop
    PROVE  /\ Top \in Range(cand) /\ Top \in CandOf(ThisJob, batch)
           /\ Simple(cand') /\ Range(cand') = Range(cand) \ {Top}
           /\ VisitedValid(Top) =>
                /\ Extended(Top) \in Pending /\ Extended(Top) \notin Stored
                /\ Stored \cup Extensions(batch, Range(cand'))
                     = Pending \ {Extended(Top)}
           /\ ~ VisitedValid(Top) =>
                Stored \cup Extensions(batch, Range(cand')) = Pending
<1>1. /\ cand \in Seq(CandOf(ThisJob, batch)) /\ cand # << >>
      /\ Simple(cand) /\ ~ Feeding
  BY DEF RInv, IInv, TypeOK, Shape, WaitingOnce, Merging, Feeding
<1>2. /\ Top \in Range(cand) /\ Simple(cand')
      /\ Range(cand') = Range(cand) \ {Top}
  BY <1>1, PopStack DEF Top, Pop
<1>3. Top \in CandOf(ThisJob, batch)
  BY <1>1, <1>2, RangeMember
<1>4. Pending = Stored \cup Extensions(batch, Range(cand))
  BY <1>1, PendingIs
<1>5. \A x : x \in Extensions(batch, Range(cand)) <=>
               \E c \in Range(cand) : VisitedValid(c) /\ x = Extended(c)
  BY DEF Extensions, VisitedValid, Extended
<1>6. \A x : x \in Extensions(batch, Range(cand')) <=>
               \E c \in Range(cand) \ {Top} : VisitedValid(c) /\ x = Extended(c)
  BY <1>2 DEF Extensions, VisitedValid, Extended
<1>7. ASSUME VisitedValid(Top)
      PROVE  /\ Extended(Top) \in Pending /\ Extended(Top) \notin Stored
             /\ Stored \cup Extensions(batch, Range(cand'))
                  = Pending \ {Extended(Top)}
  <2>1. /\ Extended(Top) \notin Stored
        /\ \A d \in Range(cand) : Extended(Top) = Extended(d) => Top = d
    BY <1>1, <1>2, <1>7 DEF RInv, Shape, WaitingOnce
  <2>2. Extended(Top) \in Pending
    BY <1>2, <1>4, <1>5, <1>7
  <2>3. Extensions(batch, Range(cand'))
          = Extensions(batch, Range(cand)) \ {Extended(Top)}
    BY <1>2, <1>5, <1>6, <2>1
  <2>4. QED  BY <1>4, <2>1, <2>2, <2>3
<1>8. ASSUME ~ VisitedValid(Top)
      PROVE  Stored \cup Extensions(batch, Range(cand')) = Pending
  BY <1>4, <1>5, <1>6, <1>8
<1>9. QED  BY <1>2, <1>3, <1>7, <1>8

(* What the extended path is to the pool.                                  *)
LEMMA TopCloses ==
    ASSUME RInv, NEW c \in CandOf(ThisJob, batch)
    PROVE  /\ TargetValid(c) <=> Closing(ThisJob, Extended(c))
           /\ Extended(c) \in Path(ThisJob)
<1>1. /\ batch \in Seq(Path(ThisJob)) /\ ThisJob.k \in Nat
  BY ThisJobOK DEF RInv, IInv, TypeOK, JobOK, GraphOK
<1>2. c.idx \in 1 .. Len(batch) /\ c.nbr \in Node(ThisJob)
  BY DEF CandOf
<1> DEFINE p == batch[c.idx]
<1>3. p \in Seq(Node(ThisJob)) /\ p # << >>
  BY <1>1, <1>2, ElementOfSeq DEF Path
<1>4. Len(p) \in Nat /\ Len(p) # 0
  BY <1>3, EmptySeq
<1>5. /\ Extended(c) \in Seq(Node(ThisJob))
      /\ Len(Extended(c)) = Len(p) + 1
      /\ Extended(c)[Len(p) + 1] = c.nbr
  BY <1>2, <1>3, AppendProperties DEF Extended
<1>6. Extended(c) \in Path(ThisJob)
  BY <1>1, ExtendedIsPath
<1> HIDE DEF p
<1>7. Closing(ThisJob, Extended(c)) <=>
        c.nbr = ThisJob.dst \/ Len(p) + 1 = ThisJob.k
  <2>1. Len(Extended(c)) >= 2
    BY <1>4, <1>5
  <2>2. QED  BY <1>5, <2>1 DEF Closing, End
<1>8. TargetValid(c) <=> c.nbr = ThisJob.dst \/ Len(p) - 1 + 2 = ThisJob.k
  BY DEF TargetValid, Layer, p
<1>9. Len(p) - 1 + 2 = Len(p) + 1
  BY <1>4
<1>10. QED  BY <1>6, <1>7, <1>8, <1>9

LEMMA DropStep ==
    ASSUME RInv, MergeDrop PROVE PoolStep /\ Shape'
<1>1. /\ Merging /\ Pop /\ ~ VisitedValid(Top)
      /\ UNCHANGED <<jid, pc, bram, dram, batch, taken, edge, ans, debug>>
  BY DEF MergeDrop
<1>2. /\ ThisJob' = ThisJob /\ Stored' = Stored /\ Feeding' = FALSE
      /\ Status' = Status
  BY <1>1 DEF ThisJob, Stored, Feeding, Merging, Status
<1>3. Simple(cand') /\ Range(cand') = Range(cand) \ {Top}
  BY <1>1, PopShape
<1>4. Pending' = Pending
  BY <1>1, <1>2, PopShape, PendingIsPrimed
<1>5. PoolStep
  BY <1>1, <1>2, <1>4 DEF PoolStep, StillStep
<1>6. WaitingOnce'
  BY <1>1, <1>2, <1>3
     DEF RInv, Shape, WaitingOnce, Extended, VisitedValid, Feeding, Merging
<1>7. Shape'
  BY <1>1, <1>2, <1>6
     DEF RInv, Shape, StoredOnce, StoredOpen, BatchIsTop, CandIsFed
<1>8. QED  BY <1>5, <1>7

LEMMA CountStep ==
    ASSUME RInv, MergeCount PROVE PoolStep /\ Shape'
<1>1. /\ Merging /\ Pop /\ VisitedValid(Top) /\ TargetValid(Top)
      /\ ans' = ans + 1
      /\ UNCHANGED <<jid, pc, bram, dram, batch, taken, edge, debug>>
  BY DEF MergeCount
<1>2. /\ ThisJob' = ThisJob /\ Stored' = Stored /\ Feeding' = FALSE
      /\ Status' = Status /\ Status = "run"
  BY <1>1 DEF ThisJob, Stored, Feeding, Merging, Status
<1>3. /\ Simple(cand') /\ Range(cand') = Range(cand) \ {Top}
      /\ Extended(Top) \in Pending /\ Top \in CandOf(ThisJob, batch)
  BY <1>1, PopShape
<1>4. Pending' = Pending \ {Extended(Top)}
  BY <1>1, <1>2, PopShape, PendingIsPrimed
<1>5. Closing(ThisJob, Extended(Top))
  BY <1>1, <1>3, TopCloses
<1>6. PoolStep
  BY <1>1, <1>2, <1>3, <1>4, <1>5 DEF PoolStep, EmitStep
<1>7. WaitingOnce'
  BY <1>1, <1>2, <1>3
     DEF RInv, Shape, WaitingOnce, Extended, VisitedValid, Feeding, Merging
<1>8. Shape'
  BY <1>1, <1>2, <1>7
     DEF RInv, Shape, StoredOnce, StoredOpen, BatchIsTop, CandIsFed
<1>9. QED  BY <1>6, <1>8

(* Putting the extension on a stack, wherever the stored paths go.         *)
LEMMA PushShape ==
    ASSUME RInv, Pushing, Pop, StoredOnce',
           Stored' = Stored \cup {Extended(Top)},
           UNCHANGED <<jid, pc, batch, ans>>
    PROVE  PoolStep /\ Shape'
<1>1. Merging /\ VisitedValid(Top) /\ ~ TargetValid(Top)
  BY DEF Pushing
<1>2. /\ ThisJob' = ThisJob /\ ~ Feeding' /\ ~ Feeding
      /\ Status' = Status
  BY <1>1 DEF ThisJob, Feeding, Merging, Status
<1>3. /\ Simple(cand') /\ Range(cand') = Range(cand) \ {Top}
      /\ Extended(Top) \in Pending /\ Top \in CandOf(ThisJob, batch)
      /\ Top \in Range(cand)
  BY <1>1, PopShape
<1>4. Pending' = Pending
  BY <1>1, <1>2, <1>3, PopShape, PendingIsPrimed
<1>5. PoolStep
  BY <1>2, <1>4 DEF PoolStep, StillStep
<1>6. StoredOpen'
  <2>1. ~ Closing(ThisJob, Extended(Top))
    BY <1>1, <1>3, TopCloses
  <2>2. QED  BY <1>2, <2>1 DEF RInv, Shape, StoredOpen
<1>7. WaitingOnce'
  <2>1. /\ \A c \in Range(cand) : VisitedValid(c) =>
             /\ Extended(c) \notin Stored
             /\ \A d \in Range(cand) : Extended(c) = Extended(d) => c = d
    BY <1>2 DEF RInv, Shape, WaitingOnce
  <2>2. \A c \in Range(cand') : VisitedValid(c) =>
          /\ Extended(c) \notin Stored'
          /\ \A d \in Range(cand') : Extended(c) = Extended(d) => c = d
    BY <1>1, <1>3, <2>1
  <2>3. QED  BY <1>3, <2>2 DEF WaitingOnce, Extended, VisitedValid
<1>8. BatchIsTop' /\ CandIsFed'
  BY <1>2 DEF BatchIsTop, CandIsFed
<1>9. QED  BY <1>5, <1>6, <1>7, <1>8 DEF Shape

LEMMA PushStep ==
    ASSUME RInv, MergePush PROVE PoolStep /\ Shape'
<1>1. /\ Pushing /\ Merging /\ Pop /\ VisitedValid(Top)
      /\ bram' = Append(bram, Extended(Top))
      /\ UNCHANGED <<jid, pc, dram, batch, taken, edge, ans, debug>>
  BY DEF MergePush, Pushing
<1>2. /\ Extended(Top) \notin Stored /\ Top \in CandOf(ThisJob, batch)
  BY <1>1, PopShape
<1>3. Extended(Top) \in Path(ThisJob)
  BY <1>2, TopCloses
<1>4. /\ bram \in Seq(Path(ThisJob)) /\ Simple(bram) /\ Simple(dram)
      /\ Range(bram) \cap Range(dram) = {}
  BY DEF RInv, IInv, TypeOK, Shape, StoredOnce
<1>5. Simple(bram') /\ Range(bram') = Range(bram) \cup {Extended(Top)}
  BY <1>1, <1>2, <1>3, <1>4, PushStack DEF Stored
<1>6. StoredOnce' /\ Stored' = Stored \cup {Extended(Top)}
  BY <1>1, <1>2, <1>4, <1>5 DEF StoredOnce, Stored
<1>7. QED  BY <1>1, <1>6, PushShape

(* flush_to_dram moves the upper part of one stack to the other.           *)
LEMMA SpillStep ==
    ASSUME RInv, MergeSpill PROVE PoolStep /\ Shape'
<1> DEFINE lo == SubSeq(bram, 1, SpillKeeps)
           hi == SubSeq(bram, SpillKeeps + 1, Len(bram))
<1>1. /\ Pushing /\ Merging /\ Pop /\ VisitedValid(Top)
      /\ bram' = Append(lo, Extended(Top)) /\ dram' = dram \o hi
      /\ UNCHANGED <<jid, pc, batch, ans>>
  BY DEF MergeSpill, Pushing
<1>2. /\ Extended(Top) \notin Stored /\ Top \in CandOf(ThisJob, batch)
  BY <1>1, PopShape
<1>3. Extended(Top) \in Path(ThisJob)
  BY <1>2, TopCloses
<1>4. /\ bram \in Seq(Path(ThisJob)) /\ Simple(bram)
      /\ dram \in Seq(Path(ThisJob)) /\ Simple(dram)
      /\ Range(bram) \cap Range(dram) = {}
  BY DEF RInv, IInv, TypeOK, Shape, StoredOnce
<1>5. SpillKeeps \in 0 .. Len(bram)
  <2>1. /\ Len(bram) = MaxBuf /\ Len(dram) < MaxDdr /\ Len(dram) \in Nat
        /\ MaxBuf \in Nat \ {0} /\ MaxDdr \in Nat
    BY <1>4, LenProperties, SizesAssumption DEF MergeSpill
  <2>2. QED  BY <2>1 DEF SpillKeeps, Lesser
<1>6. /\ lo \in Seq(Path(ThisJob)) /\ Simple(lo)
      /\ hi \in Seq(Path(ThisJob)) /\ Simple(hi)
      /\ Range(lo) \cup Range(hi) = Range(bram)
      /\ Range(lo) \cap Range(hi) = {}
  BY <1>4, <1>5, CutStack
<1> HIDE DEF lo, hi
<1>7. /\ Simple(bram') /\ Range(bram') = Range(lo) \cup {Extended(Top)}
  <2>1. Extended(Top) \notin Range(lo)
    BY <1>2, <1>6 DEF Stored
  <2>2. QED  BY <1>1, <1>3, <1>6, <2>1, PushStack
<1>8. /\ Simple(dram') /\ Range(dram') = Range(dram) \cup Range(hi)
  <2>1. Range(dram) \cap Range(hi) = {}
    BY <1>4, <1>6
  <2>2. QED  BY <1>1, <1>4, <1>6, <2>1, JoinStacks
<1>9. Range(bram') \cap Range(dram') = {}
  BY <1>2, <1>4, <1>6, <1>7, <1>8 DEF Stored
<1>10. StoredOnce' /\ Stored' = Stored \cup {Extended(Top)}
  BY <1>6, <1>7, <1>8, <1>9 DEF StoredOnce, Stored
<1>11. QED  BY <1>1, <1>10, PushShape

(* The ends of a call.                                                     *)
LEMMA StopShape ==
    ASSUME RInv, ~ Feeding, pc # "done", pc' = "done", debug'.err \in 0 .. 3,
           debug'.err = 0 => Pending = {},
           UNCHANGED <<jid, bram, dram, batch, taken, edge, cand, ans>>
    PROVE  PoolStep /\ Shape'
<1>1. /\ ThisJob' = ThisJob /\ Stored' = Stored /\ ~ Feeding'
      /\ Status = "run"
      /\ Status' = IF debug'.err = 0 THEN "complete" ELSE "error"
  BY DEF ThisJob, Stored, Feeding, Status
<1>2. Pending' = Pending
  BY <1>1, PendingIs, PendingIsPrimed
<1>3. PoolStep
  BY <1>1, <1>2 DEF PoolStep, StopStep
<1>4. WaitingOnce'
  BY <1>1 DEF RInv, Shape, WaitingOnce, Extended, VisitedValid
<1>5. QED
  BY <1>1, <1>3, <1>4
     DEF RInv, Shape, StoredOnce, StoredOpen, BatchIsTop, CandIsFed

LEMMA HaltStep ==
    ASSUME RInv, MergeOverflow \/ Finish \/ LoopBudget \/ LoopStuck
    PROVE  PoolStep /\ Shape'
<1>1. debug \in Counters
  BY DEF RInv, IInv, TypeOK, Counters
<1>2. CASE MergeOverflow \/ LoopBudget \/ LoopStuck
  <2>1. /\ pc \in {"merge", "check"} /\ pc' = "done"
        /\ debug'.err \in 1 .. 3
        /\ UNCHANGED <<jid, bram, dram, batch, taken, edge, cand, ans>>
    BY <1>1, <1>2 DEF MergeOverflow, LoopBudget, LoopStuck, Pushing, Merging,
                      Counters
  <2>2. QED  BY <2>1, StopShape DEF Feeding
<1>3. CASE Finish
  <2>1. /\ pc = "merge" /\ cand = << >> /\ bram = << >> /\ dram = << >>
        /\ pc' = "done" /\ debug'.err = 0
        /\ UNCHANGED <<jid, bram, dram, batch, taken, edge, cand, ans>>
    BY <1>1, <1>3 DEF Finish, Merged, Counters
  <2>2. Pending = {}
    BY <2>1, PendingIs, EmptyStack DEF Stored, Feeding, Extensions
  <2>3. QED  BY <2>1, <2>2, StopShape DEF Feeding
<1>4. QED  BY <1>2, <1>3

(* Reading a batch.                                                        *)
LEMMA ReadShape ==
    ASSUME RInv, Merged, NEW b \in Seq(Path(ThisJob)), b = bram',
           ReadBatch(b), StoredOnce', Stored' = Stored,
           UNCHANGED <<jid, cand, ans>>
    PROVE  PoolStep /\ Shape'
<1>1. /\ cand = << >> /\ pc = "merge" /\ pc' = "feed" /\ taken' = 0
      /\ batch' = TopOf(b)
  BY DEF Merged, ReadBatch
<1>2. ThisJob' = ThisJob /\ Status = "run" /\ Status' = "run"
  BY <1>1 DEF ThisJob, Status
<1>3. Pending' = Pending
  BY <1>1, PendingIs, PendingIsPrimed, EmptyStack DEF Feeding, Extensions
<1>4. PoolStep
  BY <1>2, <1>3 DEF PoolStep, StillStep
<1>5. StoredOpen'
  BY <1>2 DEF RInv, Shape, StoredOpen
<1>6. WaitingOnce'
  BY <1>1, EmptyStack DEF WaitingOnce, Feeding
<1>7. BatchIsTop'
  <2>1. Lesser(Len(b), MaxIn) \in Nat
    BY LenProperties, SizesAssumption DEF Lesser
  <2>2. /\ TopOf(b) \in Seq(Path(ThisJob))
        /\ DOMAIN TopOf(b) = 1 .. Lesser(Len(b), MaxIn)
        /\ \A i \in 1 .. Lesser(Len(b), MaxIn) : TopOf(b)[i] = b[Len(b) + 1 - i]
    BY TopType DEF TopOf
  <2>3. DOMAIN TopOf(b) = 1 .. Len(TopOf(b))
    BY <2>2, LenProperties
  <2>4. \A i \in 1 .. Len(batch') : batch'[i] = bram'[Len(bram') + 1 - i]
    BY <1>1, <2>2, <2>3
  <2>5. QED  BY <2>4 DEF BatchIsTop
<1>8. CandIsFed'
  <2>1. ASSUME NEW c \in CandOf(ThisJob', batch') PROVE ~ Looked(c)'
    <3>1. c.idx \in 1 .. Len(batch')
      BY DEF CandOf
    <3>2. Len(batch') \in Nat
      BY <1>1, TopType, LenProperties
    <3>3. ~ (c.idx <= taken')
      BY <1>1, <3>1, <3>2
    <3>4. QED  BY <1>1, <3>3 DEF Looked
  <2>2. Range(cand') = {}
    BY <1>1, EmptyStack
  <2>3. QED  BY <2>1, <2>2 DEF CandIsFed
<1>9. QED  BY <1>4, <1>5, <1>6, <1>7, <1>8 DEF Shape

LEMMA NextBatchStep ==
    ASSUME RInv, NextBatch PROVE PoolStep /\ Shape'
<1>1. /\ Merged /\ ReadBatch(bram)
      /\ UNCHANGED <<jid, bram, dram, edge, cand, ans, debug>>
  BY DEF NextBatch
<1>2. bram \in Seq(Path(ThisJob)) /\ StoredOnce' /\ Stored' = Stored
  BY <1>1 DEF RInv, IInv, TypeOK, Shape, StoredOnce, Stored
<1>3. QED  BY <1>1, <1>2, ReadShape

(* flush_to_bram.                                                          *)
LEMMA RefillStep ==
    ASSUME RInv, Refill PROVE PoolStep /\ Shape'
<1> DEFINE lo == SubSeq(dram, 1, RefillKeeps)
           hi == SubSeq(dram, RefillKeeps + 1, Len(dram))
<1>1. /\ Merged /\ bram = << >> /\ bram' = hi /\ dram' = lo
      /\ ReadBatch(bram')
      /\ UNCHANGED <<jid, cand, ans>>
  BY DEF Refill
<1>2. dram \in Seq(Path(ThisJob)) /\ Simple(dram)
  BY DEF RInv, IInv, TypeOK, Shape, StoredOnce
<1>3. RefillKeeps \in 0 .. Len(dram)
  BY <1>2, LenProperties, SizesAssumption DEF RefillKeeps, Lesser
<1>4. /\ lo \in Seq(Path(ThisJob)) /\ Simple(lo)
      /\ hi \in Seq(Path(ThisJob)) /\ Simple(hi)
      /\ Range(lo) \cup Range(hi) = Range(dram)
      /\ Range(lo) \cap Range(hi) = {}
  BY <1>2, <1>3, CutStack
<1> HIDE DEF lo, hi
<1>5. StoredOnce' /\ Stored' = Stored
  BY <1>1, <1>4, EmptyStack DEF StoredOnce, Stored
<1>6. QED  BY <1>1, <1>4, <1>5, ReadShape

-----------------------------------------------------------------------------
(* run.  While a batch is expanded its paths stay on the stack.            *)
LEMMA FeedShape ==
    ASSUME RInv, Feeding, Feeding', Simple(cand'), CandIsFed',
           UNCHANGED <<jid, bram, dram, batch, ans, debug>>
    PROVE  PoolStep /\ Shape'
<1>1. ThisJob' = ThisJob /\ Stored' = Stored /\ Status' = Status
  BY DEF ThisJob, Stored, Status, Feeding
<1>2. Pending' = Pending
  BY <1>1, PendingIs, PendingIsPrimed
<1>3. PoolStep
  BY <1>1, <1>2 DEF PoolStep, StillStep
<1>4. StoredOnce' /\ StoredOpen' /\ WaitingOnce' /\ BatchIsTop'
  BY <1>1 DEF RInv, Shape, StoredOnce, StoredOpen, WaitingOnce, BatchIsTop
<1>5. QED  BY <1>3, <1>4 DEF Shape

LEMMA FeedPathStep ==
    ASSUME RInv, FeedPath PROVE PoolStep /\ Shape'
<1>1. /\ Feeding /\ Feeding' /\ pc = "feed" /\ pc' = "edges" /\ edge' = 0
      /\ UNCHANGED <<jid, bram, dram, batch, taken, cand, ans, debug>>
  BY DEF FeedPath, Feeding
<1>2. ThisJob' = ThisJob
  BY <1>1 DEF ThisJob
<1>3. ASSUME NEW c PROVE Looked(c)' <=> Looked(c)
  BY <1>1, <1>2 DEF Looked
<1>4. Simple(cand') /\ CandIsFed'
  BY <1>1, <1>2, <1>3 DEF RInv, Shape, WaitingOnce, CandIsFed, Passes
<1>5. QED  BY <1>1, <1>4, FeedShape

(* The neighbours of a path, by their place in its adjacency list.         *)
LEMMA AdjOnce ==
    ASSUME RInv, NEW p \in Path(ThisJob)
    PROVE  /\ Adj(p) \in Seq(Node(ThisJob)) /\ Simple(Adj(p))
           /\ Len(Adj(p)) \in Nat
           /\ Nbrs(ThisJob, End(p)) = Range(Adj(p))
<1>1. Adj(p) \in Seq(Node(ThisJob)) /\ Len(Adj(p)) \in Nat
  BY AdjType DEF RInv, IInv, TypeOK
<1>2. Simple(Adj(p))
  <2>1. p \in Seq(Node(ThisJob)) /\ Len(p) \in Nat /\ Len(p) # 0
    BY EmptySeq, LenProperties DEF Path
  <2>2. End(p) \in Node(ThisJob)
    BY <2>1, ElementOfSeq DEF End
  <2>3. QED  BY <2>2, ThisJobOK DEF RInv, JobOK, GraphOK, Adj
<1>3. Nbrs(ThisJob, End(p)) = Range(Adj(p))
  BY NbrsListed DEF Adj
<1>4. QED  BY <1>1, <1>2, <1>3

LEMMA FeedEdgeStep ==
    ASSUME RInv, FeedEdge PROVE PoolStep /\ Shape'
<1> DEFINE p == batch[taken + 1]
           c == [idx |-> taken + 1, nbr |-> Adj(p)[edge + 1]]
<1>1. /\ Feeding /\ Feeding' /\ pc = "edges" /\ pc' = "edges"
      /\ edge' = edge + 1 /\ edge < Len(Adj(p))
      /\ cand' = IF Passes(p, c.nbr) THEN Append(cand, c) ELSE cand
      /\ UNCHANGED <<jid, bram, dram, batch, taken, ans, debug>>
  BY DEF FeedEdge, Feeding
<1>2. ThisJob' = ThisJob
  BY <1>1 DEF ThisJob
<1>3. /\ taken \in Nat /\ edge \in Nat /\ taken < Len(batch)
      /\ Len(batch) \in Nat /\ batch \in Seq(Path(ThisJob))
      /\ cand \in Seq(CandOf(ThisJob, batch)) /\ Simple(cand)
  <2>1. /\ taken \in 0 .. Len(batch) /\ edge \in Nat
        /\ batch \in Seq(Path(ThisJob))
        /\ cand \in Seq(CandOf(ThisJob, batch)) /\ Simple(cand)
        /\ taken < Len(batch)
    BY <1>1 DEF RInv, IInv, TypeOK, Room, Shape, WaitingOnce
  <2>2. QED  BY <2>1, LenProperties
<1>4. p \in Path(ThisJob) /\ taken + 1 \in 1 .. Len(batch)
  BY <1>3, ElementOfSeq
<1>5. /\ Len(Adj(p)) \in Nat /\ edge + 1 \in 1 .. Len(Adj(p))
      /\ Simple(Adj(p)) /\ Adj(p) \in Seq(Node(ThisJob))
  BY <1>1, <1>3, <1>4, AdjOnce
<1>6. c \in CandOf(ThisJob, batch)
  BY <1>4, <1>5, ElementOfSeq DEF CandOf
<1>7. \A d \in CandOf(ThisJob, batch) :
        d \in Range(cand) <=> Passes(batch[d.idx], d.nbr) /\ Looked(d)
  BY <1>1 DEF RInv, Shape, CandIsFed
<1>8. ~ Looked(c)
  <2>1. ~ (c.idx <= taken)
    BY <1>3
  <2>2. ASSUME NEW e \in 1 .. edge PROVE c.nbr # Adj(p)[e]
    <3>1. e \in 1 .. Len(Adj(p)) /\ e # edge + 1
      BY <1>1, <1>3, <1>5
    <3>2. QED  BY <1>5, <3>1 DEF Simple
  <2>3. QED  BY <2>1, <2>2 DEF Looked
<1>9. ASSUME NEW d \in CandOf(ThisJob, batch)
      PROVE  Looked(d)' <=> Looked(d) \/ d = c
  <2>1. Looked(d)' <=>
          \/ d.idx <= taken /\ d.nbr \in Nbrs(ThisJob, End(batch[d.idx]))
          \/ /\ d.idx = taken + 1
             /\ \E e \in 1 .. edge + 1 : d.nbr = Adj(batch[d.idx])[e]
    BY <1>1, <1>2 DEF Looked, Adj
  <2>2. \A e : e \in 1 .. edge + 1 <=> e \in 1 .. edge \/ e = edge + 1
    BY <1>3
  <2>3. d = c <=> d.idx = taken + 1 /\ d.nbr = Adj(p)[edge + 1]
    BY DEF CandOf
  <2>4. QED  BY <1>1, <2>1, <2>2, <2>3 DEF Looked
<1> HIDE DEF p, c
<1>10. CASE Passes(p, c.nbr)
  <2>1. c \notin Range(cand)
    BY <1>6, <1>7, <1>8
  <2>2. Simple(cand') /\ Range(cand') = Range(cand) \cup {c}
    BY <1>1, <1>3, <1>6, <1>10, <2>1, PushStack
  <2>3. p = batch[c.idx]
    BY DEF p, c
  <2>4. CandIsFed'
    BY <1>1, <1>2, <1>7, <1>9, <1>10, <2>2, <2>3 DEF CandIsFed, Passes
  <2>5. QED  BY <1>1, <2>2, <2>4, FeedShape
<1>11. CASE ~ Passes(p, c.nbr)
  <2>1. p = batch[c.idx]
    BY DEF p, c
  <2>2. CandIsFed'
    BY <1>1, <1>2, <1>7, <1>9, <1>11, <2>1 DEF CandIsFed, Passes
  <2>3. QED  BY <1>1, <1>3, <1>11, <2>2, FeedShape
<1>12. QED  BY <1>10, <1>11

LEMMA FeedPathEndStep ==
    ASSUME RInv, FeedPathEnd PROVE PoolStep /\ Shape'
<1> DEFINE p == batch[taken + 1]
<1>1. /\ Feeding /\ Feeding' /\ pc = "edges" /\ pc' = "feed"
      /\ taken' = taken + 1 /\ edge = Len(Adj(p))
      /\ UNCHANGED <<jid, bram, dram, batch, edge, cand, ans, debug>>
  BY DEF FeedPathEnd, TakenNext, Feeding
<1>2. ThisJob' = ThisJob
  BY <1>1 DEF ThisJob
<1>3. /\ taken \in Nat /\ taken < Len(batch) /\ Len(batch) \in Nat
      /\ batch \in Seq(Path(ThisJob))
  <2>1. /\ taken \in 0 .. Len(batch) /\ batch \in Seq(Path(ThisJob))
        /\ taken < Len(batch)
    BY <1>1 DEF RInv, IInv, TypeOK, Room
  <2>2. QED  BY <2>1, LenProperties
<1>4. p \in Path(ThisJob)
  BY <1>3, ElementOfSeq
<1>5. \A v : v \in Nbrs(ThisJob, End(p)) <=>
               \E e \in 1 .. edge : v = Adj(p)[e]
  <2>1. /\ \A v \in Range(Adj(p)) : \E e \in 1 .. Len(Adj(p)) : v = Adj(p)[e]
        /\ \A e \in 1 .. Len(Adj(p)) : Adj(p)[e] \in Range(Adj(p))
    BY <1>4, AdjOnce, RangeMember
  <2>2. Nbrs(ThisJob, End(p)) = Range(Adj(p))
    BY <1>4, AdjOnce
  <2>3. QED  BY <1>1, <2>1, <2>2
<1>6. ASSUME NEW d \in CandOf(ThisJob, batch) PROVE Looked(d)' <=> Looked(d)
  <2>1. Looked(d)' <=>
          d.idx <= taken + 1 /\ d.nbr \in Nbrs(ThisJob, End(batch[d.idx]))
    BY <1>1, <1>2 DEF Looked
  <2>2. d.idx <= taken + 1 <=> d.idx <= taken \/ d.idx = taken + 1
    BY <1>3 DEF CandOf
  <2>3. QED  BY <1>1, <1>5, <2>1, <2>2 DEF Looked
<1>7. CandIsFed'
  BY <1>1, <1>2, <1>6 DEF RInv, Shape, CandIsFed, Passes
<1>8. QED  BY <1>1, <1>7, FeedShape DEF RInv, Shape, WaitingOnce

(* The paths that feed_stream_data took are the upper part of the stack,   *)
(* and the candidates are their children.                                  *)
LEMMA TakenPaths ==
    ASSUME RInv, pc = "feed"
    PROVE  LET hi == SubSeq(bram, Len(bram) - taken + 1, Len(bram))
           IN  /\ \A i \in 1 .. taken : batch[i] \in Range(hi)
               /\ \A x \in Range(hi) : \E i \in 1 .. taken : x = batch[i]
<1> DEFINE n == Len(bram)
           m == n - taken
           hi == SubSeq(bram, m + 1, n)
<1>1. /\ bram \in Seq(Path(ThisJob)) /\ n \in Nat /\ taken \in Nat
      /\ taken <= n /\ taken <= Len(batch) /\ Len(batch) \in Nat
  <2>1. /\ bram \in Seq(Path(ThisJob)) /\ batch \in Seq(Path(ThisJob))
        /\ taken \in 0 .. Len(batch) /\ Len(batch) <= Len(bram)
    BY DEF RInv, IInv, TypeOK, Room
  <2>2. Len(bram) \in Nat /\ Len(batch) \in Nat
    BY <2>1, LenProperties
  <2>3. QED  BY <2>1, <2>2
<1>2. m \in 0 .. n
  BY <1>1
<1>3. /\ \A i \in m + 1 .. n : bram[i] \in Range(hi)
      /\ \A x \in Range(hi) : \E i \in m + 1 .. n : x = bram[i]
  BY <1>1, <1>2, TopOfStack
<1>4. \A i \in 1 .. taken : batch[i] = bram[n + 1 - i]
  BY <1>1 DEF RInv, Shape, BatchIsTop, Feeding
<1> HIDE DEF hi
<1>5. ASSUME NEW i \in 1 .. taken PROVE batch[i] \in Range(hi)
  <2>1. n + 1 - i \in m + 1 .. n
    BY <1>1
  <2>2. QED  BY <1>3, <1>4, <2>1
<1>6. ASSUME NEW x \in Range(hi) PROVE \E i \in 1 .. taken : x = batch[i]
  <2>1. PICK e \in m + 1 .. n : x = bram[e]
    BY <1>3
  <2>2. n + 1 - e \in 1 .. taken /\ n + 1 - (n + 1 - e) = e
    BY <1>1
  <2>3. x = batch[n + 1 - e]
    BY <1>4, <2>1, <2>2
  <2>4. QED  BY <2>2, <2>3
<1>7. QED  BY <1>5, <1>6 DEF hi

LEMMA CandidateIsChild ==
    ASSUME RInv, pc = "feed", NEW c \in Range(cand)
    PROVE  /\ c \in CandOf(ThisJob, batch) /\ c.idx \in 1 .. taken
           /\ c.nbr \in Nbrs(ThisJob, End(batch[c.idx]))
           /\ Admits(ThisJob, batch[c.idx], c.nbr)
<1>1. /\ cand \in Seq(CandOf(ThisJob, batch)) /\ taken \in 0 .. Len(batch)
      /\ batch \in Seq(Path(ThisJob))
  BY DEF RInv, IInv, TypeOK
<1>2. c \in CandOf(ThisJob, batch)
  BY <1>1, RangeMember
<1>3. Passes(batch[c.idx], c.nbr) /\ Looked(c)
  BY <1>2 DEF RInv, Shape, CandIsFed, Feeding
<1>4. c.idx <= taken /\ c.nbr \in Nbrs(ThisJob, End(batch[c.idx]))
  BY <1>3 DEF Looked
<1>5. c.idx \in 1 .. Len(batch) /\ Len(batch) \in Nat
  BY <1>1, <1>2, LenProperties DEF CandOf
<1>6. c.idx \in 1 .. taken
  BY <1>1, <1>4, <1>5
<1>7. QED  BY <1>2, <1>3, <1>4, <1>6 DEF Passes

LEMMA CandidatesAreChildren ==
    ASSUME RInv, pc = "feed", NEW S,
           \A i \in 1 .. taken : batch[i] \in S,
           \A x \in S : \E i \in 1 .. taken : x = batch[i]
    PROVE  Extensions(batch, Range(cand))
             = UNION { Children(ThisJob, p) : p \in S }
<1>1. ASSUME NEW x \in Extensions(batch, Range(cand))
      PROVE  x \in UNION { Children(ThisJob, p) : p \in S }
  <2>1. PICK c \in Range(cand) : /\ NotVisited(batch[c.idx], c.nbr)
                                 /\ x = Append(batch[c.idx], c.nbr)
    BY DEF Extensions
  <2>2. /\ c.idx \in 1 .. taken
        /\ c.nbr \in Nbrs(ThisJob, End(batch[c.idx]))
        /\ Admits(ThisJob, batch[c.idx], c.nbr)
    BY CandidateIsChild
  <2>3. x \in Children(ThisJob, batch[c.idx])
    BY <2>1, <2>2 DEF Children
  <2>4. batch[c.idx] \in S
    BY <2>2
  <2>5. QED  BY <2>3, <2>4
<1>2. ASSUME NEW x \in UNION { Children(ThisJob, p) : p \in S }
      PROVE  x \in Extensions(batch, Range(cand))
  <2>1. PICK p \in S : x \in Children(ThisJob, p)
    BY <1>2
  <2>2. PICK v \in Nbrs(ThisJob, End(p)) :
          /\ Admits(ThisJob, p, v) /\ NotVisited(p, v) /\ x = Append(p, v)
    BY <2>1 DEF Children
  <2>3. PICK i \in 1 .. taken : p = batch[i]
    OBVIOUS
  <2> DEFINE c == [idx |-> i, nbr |-> v]
  <2>4. batch \in Seq(Path(ThisJob)) /\ i \in 1 .. Len(batch)
    <3>1. taken \in 0 .. Len(batch) /\ batch \in Seq(Path(ThisJob))
      BY DEF RInv, IInv, TypeOK
    <3>2. Len(batch) \in Nat
      BY <3>1, LenProperties
    <3>3. QED  BY <3>1, <3>2
  <2>5. p \in Path(ThisJob)
    BY <2>3, <2>4, ElementOfSeq
  <2>6. v \in Node(ThisJob)
    <3>1. v \in Range(Adj(p)) /\ Adj(p) \in Seq(Node(ThisJob))
      BY <2>2, <2>5, AdjOnce
    <3>2. QED  BY <3>1, RangeMember
  <2>7. c \in CandOf(ThisJob, batch)
    BY <2>4, <2>6 DEF CandOf
  <2>8. Passes(batch[c.idx], c.nbr) /\ Looked(c)
    <3>1. c.idx <= taken
      <4>1. taken \in Nat
        BY DEF RInv, IInv, TypeOK
      <4>2. QED  BY <4>1
    <3>2. QED  BY <2>2, <2>3, <3>1 DEF Passes, Looked
  <2>9. c \in Range(cand)
    BY <2>7, <2>8 DEF RInv, Shape, CandIsFed, Feeding
  <2>10. c.idx = i /\ c.nbr = v
    OBVIOUS
  <2> HIDE DEF c
  <2>11. QED  BY <2>2, <2>3, <2>9, <2>10 DEF Extensions
<1>3. QED  BY <1>1, <1>2

(* Nothing that the candidates stand for is stored, or stood for twice.    *)
LEMMA CandidatesNew ==
    ASSUME RInv, pc = "feed", NEW c \in Range(cand)
    PROVE  /\ Extended(c) \notin Stored
           /\ \A d \in Range(cand) : Extended(c) = Extended(d) => c = d
<1>1. /\ bram \in Seq(Path(ThisJob)) /\ batch \in Seq(Path(ThisJob))
      /\ Len(batch) <= Len(bram) /\ Len(bram) \in Nat /\ Len(batch) \in Nat
      /\ Simple(bram)
  <2>1. /\ bram \in Seq(Path(ThisJob)) /\ batch \in Seq(Path(ThisJob))
        /\ Len(batch) <= Len(bram) /\ Simple(bram)
    BY DEF RInv, IInv, TypeOK, Room, Shape, StoredOnce
  <2>2. QED  BY <2>1, LenProperties
<1>2. \A i \in 1 .. Len(batch) : batch[i] = bram[Len(bram) + 1 - i]
  BY DEF RInv, Shape, BatchIsTop, Feeding
<1>3. \A d \in Range(cand) : d \in CandOf(ThisJob, batch)
  BY CandidateIsChild
<1>4. \A d \in Range(cand) :
        /\ d.idx \in 1 .. Len(batch) /\ d.nbr \in Node(ThisJob)
        /\ batch[d.idx] \in Seq(Node(ThisJob))
  BY <1>1, <1>3, ElementOfSeq DEF CandOf, Path
<1>5. Extended(c) \notin Stored
  <2>1. SUFFICES ASSUME Extended(c) \in Stored PROVE FALSE
    OBVIOUS
  <2> DEFINE p == batch[c.idx]
  <2>2. p \in Stored
    <3>1. Len(bram) + 1 - c.idx \in 1 .. Len(bram)
      BY <1>1, <1>4
    <3>2. p \in Range(bram)
      BY <1>1, <1>2, <1>4, <3>1, RangeMember, ZenonT(60)
    <3>3. QED  BY <3>2 DEF Stored
  <2>3. AntiChain(Stored)
    BY PendingIs DEF RInv, Accounts, Feeding
  <2>4. Prefix(p, Extended(c))
    BY <1>4, AppendPrefix DEF Extended
  <2>5. p = Extended(c)
    BY <2>1, <2>2, <2>3, <2>4 DEF AntiChain
  <2>6. Len(Extended(c)) = Len(p) + 1 /\ Len(p) \in Nat
    BY <1>4, AppendProperties, LenProperties DEF Extended
  <2>7. QED  BY <2>5, <2>6
<1>6. ASSUME NEW d \in Range(cand), Extended(c) = Extended(d) PROVE c = d
  <2>1. batch[c.idx] = batch[d.idx] /\ c.nbr = d.nbr
    <3>1. /\ c.nbr \in Node(ThisJob) /\ batch[c.idx] \in Seq(Node(ThisJob))
          /\ d.nbr \in Node(ThisJob) /\ batch[d.idx] \in Seq(Node(ThisJob))
      BY <1>4
    <3>2. Append(batch[c.idx], c.nbr) = Append(batch[d.idx], d.nbr)
      BY <1>6 DEF Extended
    <3>3. \A a, b \in Seq(Node(ThisJob)), u, v \in Node(ThisJob) :
            Append(a, u) = Append(b, v) => a = b /\ u = v
      BY AppendBoth
    <3> DEFINE a == batch[c.idx]
               b == batch[d.idx]
    <3>4. a \in Seq(Node(ThisJob)) /\ b \in Seq(Node(ThisJob))
      BY <3>1
    <3>5. Append(a, c.nbr) = Append(b, d.nbr)
      BY <3>2
    <3> HIDE DEF a, b
    <3>6. a = b /\ c.nbr = d.nbr
      BY <3>1, <3>3, <3>4, <3>5
    <3>7. QED  BY <3>6 DEF a, b
  <2>2. /\ Len(bram) + 1 - c.idx \in 1 .. Len(bram)
        /\ Len(bram) + 1 - d.idx \in 1 .. Len(bram)
    BY <1>1, <1>4
  <2>3. Len(bram) + 1 - c.idx = Len(bram) + 1 - d.idx
    BY <1>1, <1>2, <1>4, <2>1, <2>2 DEF Simple
  <2>4. c.idx = d.idx
    BY <1>1, <1>4, <2>3
  <2>5. QED  BY <1>3, <2>1, <2>4 DEF CandOf
<1>7. QED  BY <1>5, <1>6

Taken == Range(SubSeq(bram, Len(bram) - taken + 1, Len(bram)))

LEMMA RunEndPops ==
    ASSUME RInv, RunEnd
    PROVE  /\ pc = "feed" /\ pc' = "check"
           /\ Pending = Stored /\ Taken \subseteq Pending
           /\ \A p \in Taken : ~ Closing(ThisJob, p)
           /\ Stored' = Stored \ Taken /\ StoredOnce' /\ StoredOpen'
           /\ Pending' = Expanded(ThisJob, Pending, Taken)
           /\ UNCHANGED <<jid, dram, batch, taken, edge, cand, ans>>
<1> DEFINE n == Len(bram)
           m == n - taken
           lo == SubSeq(bram, 1, m)
           hi == SubSeq(bram, m + 1, n)
<1>1. /\ Feeding /\ ~ Feeding' /\ pc = "feed" /\ pc' = "check" /\ bram' = lo
      /\ UNCHANGED <<jid, dram, batch, taken, edge, cand, ans>>
  BY DEF RunEnd, Popped, Feeding
<1>2. ThisJob' = ThisJob /\ Status = "run" /\ Status' = "run"
  BY <1>1 DEF ThisJob, Status
<1>3. /\ bram \in Seq(Path(ThisJob)) /\ Simple(bram) /\ Simple(dram)
      /\ Range(bram) \cap Range(dram) = {} /\ m \in 0 .. n
      /\ taken \in Nat
  <2>1. /\ bram \in Seq(Path(ThisJob)) /\ batch \in Seq(Path(ThisJob))
        /\ taken \in 0 .. Len(batch) /\ Len(batch) <= Len(bram)
        /\ Simple(bram) /\ Simple(dram) /\ Range(bram) \cap Range(dram) = {}
    BY <1>1 DEF RInv, IInv, TypeOK, Room, Shape, StoredOnce
  <2>2. Len(bram) \in Nat /\ Len(batch) \in Nat
    BY <2>1, LenProperties
  <2>3. QED  BY <2>1, <2>2
<1>4. /\ lo \in Seq(Path(ThisJob)) /\ Simple(lo)
      /\ Range(lo) \cup Range(hi) = Range(bram)
      /\ Range(lo) \cap Range(hi) = {}
  BY <1>3, CutStack
<1>5. /\ \A i \in 1 .. taken : batch[i] \in Range(hi)
      /\ \A x \in Range(hi) : \E i \in 1 .. taken : x = batch[i]
  BY <1>1, TakenPaths
<1> HIDE DEF lo, hi
<1>6. Stored' = Stored \ Range(hi) /\ Range(hi) \subseteq Stored
  BY <1>1, <1>3, <1>4 DEF Stored
<1>7. Pending = Stored
  BY <1>1, PendingIs
<1>8. Pending' = Expanded(ThisJob, Pending, Range(hi))
  <2>1. Pending' = Stored' \cup Extensions(batch, Range(cand))
    BY <1>1, PendingIsPrimed
  <2>2. Extensions(batch, Range(cand))
          = UNION { Children(ThisJob, p) : p \in Range(hi) }
    BY <1>1, <1>5, CandidatesAreChildren
  <2>3. QED  BY <1>6, <1>7, <2>1, <2>2 DEF Expanded
<1>9. \A p \in Range(hi) : ~ Closing(ThisJob, p)
  BY <1>6 DEF RInv, Shape, StoredOpen
<1>10. StoredOnce' /\ StoredOpen'
  BY <1>1, <1>2, <1>3, <1>4, <1>6 DEF RInv, Shape, StoredOnce, StoredOpen
<1>11. Taken = Range(hi)
  <2>1. m + 1 = n - taken + 1
    BY <1>3
  <2>2. QED  BY <2>1 DEF Taken, hi
<1>12. QED  BY <1>1, <1>6, <1>7, <1>8, <1>9, <1>10, <1>11

LEMMA RunEndStep ==
    ASSUME RInv, RunEnd PROVE PoolStep /\ Shape'
<1>1. /\ Feeding /\ ~ Feeding' /\ pc = "feed" /\ pc' = "check"
      /\ Pending = Stored /\ Taken \in SUBSET Pending
      /\ \A p \in Taken : ~ Closing(ThisJob, p)
      /\ Stored' = Stored \ Taken /\ StoredOnce' /\ StoredOpen'
      /\ Pending' = Expanded(ThisJob, Pending, Taken)
      /\ UNCHANGED <<jid, dram, batch, taken, edge, cand, ans>>
  BY RunEndPops DEF Feeding
<1>2. Status = "run" /\ Status' = "run"
  BY <1>1 DEF Status
<1>3. PoolStep
  <2>1. CASE Taken = {}
    <3>1. Pending' = Pending
      BY <1>1, <2>1 DEF Expanded
    <3>2. QED  BY <1>1, <1>2, <3>1 DEF PoolStep, StillStep
  <2>2. CASE Taken # {}
    BY <1>1, <1>2, <2>2 DEF PoolStep, ExpandStep
  <2>3. QED  BY <2>1, <2>2
<1>4. WaitingOnce'
  <2>1. Simple(cand)
    BY DEF RInv, Shape, WaitingOnce
  <2>2. \A c \in Range(cand) :
          /\ Extended(c) \notin Stored'
          /\ \A d \in Range(cand) : Extended(c) = Extended(d) => c = d
    BY <1>1, CandidatesNew
  <2>3. /\ Range(cand') = Range(cand) /\ Simple(cand')
        /\ \A c : Extended(c)' = Extended(c)
    BY <1>1, <2>1 DEF Extended
  <2>4. QED  BY <2>2, <2>3 DEF WaitingOnce
<1>5. BatchIsTop' /\ CandIsFed'
  BY <1>1 DEF BatchIsTop, CandIsFed
<1>6. QED  BY <1>1, <1>3, <1>4, <1>5 DEF Shape

LEMMA AgainStep ==
    ASSUME RInv, LoopAgain \/ UNCHANGED vars PROVE PoolStep /\ Shape'
<1>1. CASE LoopAgain
  <2>1. /\ ~ Feeding /\ ~ Feeding' /\ pc = "check" /\ pc' = "merge"
        /\ UNCHANGED <<jid, bram, dram, batch, taken, edge, cand, ans, debug>>
    BY <1>1 DEF LoopAgain, Feeding
  <2>2. ThisJob' = ThisJob /\ Stored' = Stored /\ Status' = Status
    BY <2>1 DEF ThisJob, Stored, Status
  <2>3. Pending' = Pending
    BY <2>1, <2>2, PendingIs, PendingIsPrimed
  <2>4. WaitingOnce'
    BY <2>1, <2>2 DEF RInv, Shape, WaitingOnce, Extended, VisitedValid
  <2>5. Shape'
    BY <2>1, <2>2, <2>4
       DEF RInv, Shape, StoredOnce, StoredOpen, BatchIsTop, CandIsFed
  <2>6. QED  BY <2>1, <2>2, <2>3, <2>5 DEF PoolStep, StillStep
<1>2. CASE UNCHANGED vars
  <2>1. /\ pc' = pc /\ debug' = debug
        /\ UNCHANGED <<jid, bram, dram, batch, taken, edge, cand, ans>>
    BY <1>2 DEF vars
  <2>2. ThisJob' = ThisJob /\ Stored' = Stored /\ Status' = Status
        /\ Feeding' = Feeding
    BY <2>1 DEF ThisJob, Stored, Status, Feeding
  <2>3. Pending' = Pending
    BY <2>1, <2>2, PendingIs, PendingIsPrimed
  <2>4. ASSUME NEW c PROVE Looked(c)' = Looked(c)
    BY <2>1, <2>2 DEF Looked, Adj
  <2>5. StoredOnce' /\ StoredOpen' /\ WaitingOnce' /\ BatchIsTop'
    BY <2>1, <2>2
       DEF RInv, Shape, StoredOnce, StoredOpen, WaitingOnce, BatchIsTop,
           Extended, VisitedValid
  <2>6. CandIsFed'
    BY <2>1, <2>2, <2>4 DEF RInv, Shape, CandIsFed, Passes
  <2>7. QED
    BY <2>1, <2>2, <2>3, <2>5, <2>6 DEF Shape, PoolStep, StillStep
<1>3. QED  BY <1>1, <1>2

-----------------------------------------------------------------------------
LEMMA RInit == Init => RInv /\ Pending = Range(ThisJob.tasks)
<1>1. SUFFICES ASSUME Init PROVE RInv /\ Pending = Range(ThisJob.tasks)
  OBVIOUS
<1>2. /\ jid \in JobId /\ pc = "merge" /\ bram = ThisJob.tasks
      /\ dram = << >> /\ cand = << >> /\ ans = 0
  BY <1>1 DEF Init, ThisJob
<1>3. IInv /\ JobOK(ThisJob)
  BY <1>1, InitInv, ThisJobOK
<1>4. Stored = Range(ThisJob.tasks) /\ Pending = Range(ThisJob.tasks)
  BY <1>2, PendingIs, EmptyStack DEF Stored, Feeding, Extensions
<1>5. /\ ThisJob.tasks \in Seq(Seq(Node(ThisJob)))
      /\ \A i \in 1 .. Len(ThisJob.tasks) : TaskOK(ThisJob, ThisJob.tasks[i])
      /\ \A a, b \in 1 .. Len(ThisJob.tasks) :
           Prefix(ThisJob.tasks[a], ThisJob.tasks[b]) => a = b
  BY <1>3 DEF JobOK, TasksOK
<1>6. StoredOnce
  <2>1. ASSUME NEW a \in 1 .. Len(bram), NEW b \in 1 .. Len(bram),
               bram[a] = bram[b]
        PROVE  a = b
    <3>1. bram[a] \in Seq(Node(ThisJob))
      BY <1>2, <1>5, ElementOfSeq
    <3>2. Prefix(bram[a], bram[b])
      BY <2>1, <3>1, LenProperties DEF Prefix
    <3>3. QED  BY <1>2, <1>5, <3>2
  <2>2. QED  BY <1>2, <2>1, EmptyStack DEF StoredOnce, Simple
<1>7. StoredOpen
  <2>1. ASSUME NEW p \in Range(ThisJob.tasks) PROVE ~ Closing(ThisJob, p)
    <3>1. TaskOK(ThisJob, p)
      BY <1>5, RangeMember
    <3>2. QED  BY <1>3, <3>1, TaskIsOpen
  <2>2. QED  BY <1>4, <2>1 DEF StoredOpen
<1>8. Shape
  BY <1>2, <1>6, <1>7, EmptyStack
     DEF Shape, WaitingOnce, BatchIsTop, CandIsFed, Feeding
<1>9. Accounts(ThisJob, Pending, ans)
  BY <1>2, <1>3, <1>4, TasksAccount
<1>10. QED  BY <1>3, <1>4, <1>8, <1>9 DEF RInv

LEMMA RStep == RInv /\ [Next]_vars => RInv' /\ PoolStep
<1>1. SUFFICES ASSUME RInv, [Next]_vars PROVE PoolStep /\ Shape'
  BY AccountStep, StepInv DEF RInv
<1>2. CASE NextTask
  BY <1>1, <1>2, DropStep, CountStep, PushStep, SpillStep, HaltStep,
     NextBatchStep, RefillStep DEF NextTask
<1>3. CASE Run
  BY <1>1, <1>3, FeedPathStep, FeedEdgeStep, FeedPathEndStep, RunEndStep
     DEF Run
<1>4. CASE Loop
  BY <1>1, <1>4, HaltStep, AgainStep DEF Loop
<1>5. CASE UNCHANGED vars
  BY <1>1, <1>5, AgainStep
<1>6. QED  BY <1>1, <1>2, <1>3, <1>4, <1>5 DEF Next, Terminated

LEMMA RInvariant == Spec => []RInv
BY RInit, RStep, PTL DEF Spec

-----------------------------------------------------------------------------
(* The steps of the pool, in the words of PathPool.                        *)
LEMMA PoolWords ==
    /\ Pool!ThisJob = ThisJob
    /\ \A p : Pool!Closing(ThisJob, p) <=> Closing(ThisJob, p)
    /\ \A p : Pool!Children(ThisJob, p) = Children(ThisJob, p)
<1>1. Pool!ThisJob = ThisJob
  BY DEF Pool!ThisJob, ThisJob
<1>2. \A p : Pool!Closing(ThisJob, p) <=> Closing(ThisJob, p)
  BY DEF Pool!Closing, Closing, Pool!End, End
<1>3. \A p : Pool!Nbrs(ThisJob, End(p)) = Nbrs(ThisJob, End(p))
  BY NbrsListed DEF Pool!Nbrs, Pool!Range
<1>4. \A p : Pool!Children(ThisJob, p) = Children(ThisJob, p)
  BY <1>3
     DEF Pool!Children, Children, Pool!Admits, Admits, Pool!Layer, Layer,
         Pool!LayerMod, LayerMod, Pool!NotVisited, NotVisited, Pool!End, End
<1>5. QED  BY <1>1, <1>2, <1>4

LEMMA InitMaps == Init => Pool!PoolInit
<1>1. SUFFICES ASSUME Init PROVE Pool!PoolInit
  OBVIOUS
<1>2. /\ jid \in JobId /\ ans = 0 /\ pc = "merge"
      /\ Pending = Range(ThisJob.tasks)
  BY <1>1, RInit DEF Init
<1>3. QED  BY <1>2 DEF Pool!PoolInit, Status, ThisJob, Pool!Range, Range

LEMMA StepMaps == RInv /\ [Next]_vars => [Pool!PoolNext]_(Pool!poolVars)
<1>1. SUFFICES ASSUME RInv, PoolStep PROVE [Pool!PoolNext]_(Pool!poolVars)
  BY RStep
<1>2. CASE ExpandStep
  <2>1. PICK S \in SUBSET Pending :
          /\ S # {} /\ \A p \in S : ~ Closing(ThisJob, p)
          /\ Pending' = Expanded(ThisJob, Pending, S)
    BY <1>2 DEF ExpandStep
  <2>2. Pool!Expand(S)
    BY <1>1, <1>2, <2>1, PoolWords
       DEF Pool!Expand, Expanded, ExpandStep, PoolStep
  <2>3. QED  BY <2>2 DEF Pool!PoolNext
<1>3. CASE EmitStep
  <2>1. PICK p \in Pending : Closing(ThisJob, p) /\ Pending' = Pending \ {p}
    BY <1>3 DEF EmitStep
  <2>2. Pool!Emit(p)
    BY <1>1, <1>3, <2>1, PoolWords DEF Pool!Emit, EmitStep, PoolStep
  <2>3. QED  BY <2>2 DEF Pool!PoolNext
<1>4. CASE StopStep
  BY <1>1, <1>4 DEF StopStep, PoolStep, Pool!PoolNext, Pool!Finish, Pool!Abort
<1>5. CASE StillStep
  BY <1>1, <1>5 DEF StillStep, PoolStep, Pool!poolVars
<1>6. QED  BY <1>1, <1>2, <1>3, <1>4, <1>5 DEF PoolStep

(* Whatever the buffers of the kernel hold and however often paths move    *)
(* between them, MYDFS() expands every pending path once or counts it      *)
(* once, and stops when none is left or with an error.                     *)
THEOREM KernelImplementsPool == Spec => ImplementsPool
BY InitMaps, RInit, RStep, StepMaps, PTL DEF Spec, ImplementsPool, Pool!PoolSpec

LEMMA EmptyWhenComplete == Spec => [](Status = "complete" => Pending = {})
<1> DEFINE Empty == Status = "complete" => Pending = {}
<1>1. Init => Empty
  BY DEF Init, Status
<1>2. PoolStep /\ Empty => Empty'
  BY DEF PoolStep, ExpandStep, EmitStep, StopStep, StillStep
<1>3. QED  BY <1>1, <1>2, RInit, RStep, PTL DEF Spec

(* A call of MYDFS() that reports bufferDebug[0] = 0 has counted exactly   *)
(* the simple paths of at most k hops that continue its tasks.             *)
THEOREM CountExact == Spec => []ExactWhenClean
<1>1. RInv /\ (Status = "complete" => Pending = {}) => ExactWhenClean
  <2>1. SUFFICES ASSUME RInv, Status = "complete" => Pending = {},
                        pc = "done", debug.err = 0
                 PROVE  ans = Cardinality(ResultsOf[jid])
    BY DEF ExactWhenClean
  <2>2. Pending = {}
    BY <2>1 DEF Status
  <2>3. ans = Cardinality(Results(ThisJob))
    BY <2>1, <2>2, EmptyAccount DEF RInv
  <2>4. jid \in JobId
    BY <2>1, ThisJobOK DEF RInv
  <2>5. QED  BY <2>3, <2>4 DEF ResultsOf, ThisJob
<1>2. QED  BY <1>1, RInvariant, EmptyWhenComplete, PTL

(* What MYDFS() keeps in buffer_path and ddr_paths is what the host may    *)
(* hand to it: a simple walk that avoids the target and is shorter than k. *)
THEOREM StacksHoldTasks == Spec => []StoredAreTasks
<1>1. RInv => StoredAreTasks
  <2>1. SUFFICES ASSUME RInv, NEW p \in Stored PROVE TaskOK(ThisJob, p)
    BY DEF StoredAreTasks, Stored
  <2>2. p \in Pending
    BY PendingIs
  <2>3. JobOK(ThisJob) /\ Viable(ThisJob, p) /\ ~ Closing(ThisJob, p)
    BY <2>1, <2>2, ThisJobOK DEF RInv, Accounts, ViableAll, Shape, StoredOpen
  <2>4. QED  BY <2>3, OpenIsTask
<1>2. QED  BY <1>1, RInvariant, PTL
-----------------------------------------------------------------------------
(***************************************************************************)
(* The counters of the work: with Spent, the account of HopPathsProofs,    *)
(* what bufferDebug[4] and [5] still lack is the work the pending paths    *)
(* stand for.  An error is justified because the first path of a batch is  *)
(* looked at with an empty candidate list (FirstPath, RowTooLong).         *)
(***************************************************************************)
FirstPath  == pc = "feed" /\ taken = 0 => cand = << >> /\ batch # << >>
RowTooLong == pc = "check" /\ taken = 0 =>
                \E p \in Range(bram) : Len(Adj(p)) >= MaxOut
NoErrorYet == pc # "done" => debug.err = 0

WorkSpent == Spent(ThisJob, Pending, debug.paths, debug.nodes)

WInv == RInv /\ WorkSpent /\ FirstPath /\ RowTooLong /\ NoErrorYet /\ ErrorJustified

(* The candidates of a run are the demand of the paths taken.              *)
LEMMA TakenCounted ==
    ASSUME RInv, pc = "feed" PROVE taken = Cardinality(Taken)
<1> DEFINE n == Len(bram)
           m == n - taken
           hi == SubSeq(bram, m + 1, n)
<1>1. /\ bram \in Seq(Path(ThisJob)) /\ Simple(bram)
      /\ n \in Nat /\ taken \in Nat /\ taken <= n
  <2>1. /\ bram \in Seq(Path(ThisJob)) /\ batch \in Seq(Path(ThisJob))
        /\ taken \in 0 .. Len(batch) /\ Len(batch) <= Len(bram) /\ Simple(bram)
    BY DEF RInv, IInv, TypeOK, Room, Shape, StoredOnce
  <2>2. Len(bram) \in Nat /\ Len(batch) \in Nat
    BY <2>1, LenProperties
  <2>3. QED  BY <2>1, <2>2
<1>2. m \in 0 .. n /\ m + 1 = n - taken + 1
  BY <1>1
<1>3. hi \in Seq(Path(ThisJob)) /\ Simple(hi)
  BY <1>1, <1>2, CutStack
<1>4. Len(hi) = IF m + 1 <= n THEN n - (m + 1) + 1 ELSE 0
  <2>1. \A i \in m + 1 .. n : bram[i] \in Path(ThisJob)
    <3>1. \A i \in 1 .. n : bram[i] \in Path(ThisJob)
      BY <1>1, RangeMember
    <3>2. QED  BY <1>1, <1>2, <3>1
  <2>2. m + 1 \in Int /\ n \in Int
    BY <1>1, <1>2
  <2>3. QED  BY <2>1, <2>2, SubSeqProperties
<1>5. Taken = Range(hi)
  BY <1>2 DEF Taken
<1> HIDE DEF hi
<1>6. Len(hi) = taken
  BY <1>1, <1>4
<1>7. QED  BY <1>3, <1>5, <1>6, RangeCounted

LEMMA CandsAreDemand ==
    ASSUME RInv, pc = "feed"
    PROVE  Len(cand) = Cardinality(Demand(ThisJob, Taken))
<1>1. /\ cand \in Seq(CandOf(ThisJob, batch)) /\ Simple(cand)
      /\ batch \in Seq(Path(ThisJob)) /\ taken \in 0 .. Len(batch)
  BY DEF RInv, IInv, TypeOK, Shape, WaitingOnce
<1>2. /\ IsFiniteSet(Range(cand)) /\ Cardinality(Range(cand)) = Len(cand)
      /\ Range(cand) \subseteq CandOf(ThisJob, batch)
  BY <1>1, RangeCounted, RangeMember
<1>3. /\ \A i \in 1 .. taken : batch[i] \in Taken
      /\ \A p \in Taken : \E i \in 1 .. taken : p = batch[i]
  BY TakenPaths DEF Taken
<1>4. \A a, b \in 1 .. taken : batch[a] = batch[b] => a = b
  <2>1. /\ bram \in Seq(Path(ThisJob)) /\ Simple(bram)
        /\ Len(batch) <= Len(bram)
        /\ \A i \in 1 .. Len(batch) : batch[i] = bram[Len(bram) + 1 - i]
    BY DEF RInv, IInv, TypeOK, Room, Shape, StoredOnce, BatchIsTop, Feeding
  <2>2. Len(bram) \in Nat /\ Len(batch) \in Nat /\ taken <= Len(batch)
    BY <1>1, <2>1, LenProperties
  <2>3. SUFFICES ASSUME NEW a \in 1 .. taken, NEW b \in 1 .. taken,
                        batch[a] = batch[b]
                 PROVE  a = b
    OBVIOUS
  <2>4. /\ a \in 1 .. Len(batch) /\ b \in 1 .. Len(batch)
        /\ Len(bram) + 1 - a \in 1 .. Len(bram)
        /\ Len(bram) + 1 - b \in 1 .. Len(bram)
    BY <1>1, <2>1, <2>2
  <2>5. Len(bram) + 1 - a = Len(bram) + 1 - b
    BY <2>1, <2>3, <2>4 DEF Simple
  <2>6. QED  BY <2>2, <2>5
<1>5. ASSUME NEW c \in Range(cand)
      PROVE  /\ c \in CandOf(ThisJob, batch) /\ c.idx \in 1 .. taken
             /\ <<batch[c.idx], c.nbr>> \in Demand(ThisJob, Taken)
  <2>1. /\ c \in CandOf(ThisJob, batch) /\ c.idx \in 1 .. taken
        /\ c.nbr \in Nbrs(ThisJob, End(batch[c.idx]))
        /\ Admits(ThisJob, batch[c.idx], c.nbr)
    BY CandidateIsChild
  <2>2. c.nbr \in Node(ThisJob) /\ batch[c.idx] \in Taken
    BY <1>3, <2>1 DEF CandOf
  <2> DEFINE d == <<batch[c.idx], c.nbr>>
  <2>3. d \in Taken \X Node(ThisJob) /\ d[1] = batch[c.idx] /\ d[2] = c.nbr
    BY <2>2
  <2> HIDE DEF d
  <2>4. d \in Demand(ThisJob, Taken)
    BY <2>1, <2>3 DEF Demand
  <2>5. QED  BY <2>1, <2>4 DEF d
<1> DEFINE D == Demand(ThisJob, Taken)
           f == [c \in Range(cand) |-> <<batch[c.idx], c.nbr>>]
<1>6. f \in [Range(cand) -> D]
  BY <1>5
<1>7. ASSUME NEW c \in Range(cand), NEW d \in Range(cand), f[c] = f[d]
      PROVE  c = d
  <2>1. batch[c.idx] = batch[d.idx] /\ c.nbr = d.nbr
    BY <1>7
  <2>2. c.idx = d.idx
    BY <1>4, <1>5, <2>1
  <2>3. c \in CandOf(ThisJob, batch) /\ d \in CandOf(ThisJob, batch)
    BY <1>5
  <2>4. QED  BY <2>1, <2>2, <2>3 DEF CandOf
<1>8. ASSUME NEW e \in D PROVE \E c \in Range(cand) : f[c] = e
  <2>1. /\ e \in Taken \X Node(ThisJob)
        /\ e[2] \in Nbrs(ThisJob, End(e[1])) /\ Admits(ThisJob, e[1], e[2])
    BY DEF Demand
  <2>2. PICK i \in 1 .. taken : e[1] = batch[i]
    BY <1>3, <2>1
  <2> DEFINE c == [idx |-> i, nbr |-> e[2]]
  <2>3. i \in 1 .. Len(batch)
    BY <1>1, LenProperties
  <2>4. c \in CandOf(ThisJob, batch) /\ c.idx = i /\ c.nbr = e[2]
    BY <2>1, <2>3 DEF CandOf
  <2> HIDE DEF c
  <2>5. Passes(batch[c.idx], c.nbr)
    BY <2>1, <2>2, <2>4 DEF Passes
  <2>6. Looked(c)
    <3>1. c.idx <= taken
      BY <2>4
    <3>2. QED  BY <2>1, <2>2, <2>4, <3>1 DEF Looked
  <2>7. c \in Range(cand)
    BY <2>4, <2>5, <2>6 DEF RInv, Shape, CandIsFed, Feeding
  <2>8. e = <<e[1], e[2]>>
    BY <2>1
  <2>9. QED  BY <2>2, <2>4, <2>7, <2>8
<1> HIDE DEF D, f
<1>9. f \in Surjection(Range(cand), D) /\ f \in Injection(Range(cand), D)
  BY <1>6, <1>7, <1>8 DEF Surjection, Injection, IsInjective
<1>10. Cardinality(D) = Cardinality(Range(cand))
  BY <1>2, <1>9, FS_Surjection
<1>11. QED  BY <1>2, <1>10 DEF D
-----------------------------------------------------------------------------
(* Steps of the kernel and the counters.                                   *)
LEMMA OneRunner ==
    ASSUME RInv, [Next]_vars, ~ RunEnd
    PROVE  /\ debug'.paths = debug.paths /\ debug'.nodes = debug.nodes
           /\ ~ (pc = "feed" /\ pc' = "check")
<1>1. debug \in Counters
  BY DEF RInv, IInv, TypeOK, Counters
<1>2. CASE MergeDrop \/ MergeCount \/ MergePush \/ NextBatch \/ FeedPath
           \/ FeedEdge \/ FeedPathEnd \/ LoopAgain \/ UNCHANGED vars
  <2>1. debug' = debug /\ ~ (pc = "feed" /\ pc' = "check")
    BY <1>2 DEF MergeDrop, MergeCount, MergePush, NextBatch, FeedPath, FeedEdge,
                FeedPathEnd, LoopAgain, Pushing, Merging, Merged, ReadBatch, vars
  <2>2. QED  BY <2>1
<1>3. CASE MergeSpill \/ MergeOverflow \/ Finish \/ Refill \/ LoopBudget \/ LoopStuck
  <2>1. pc # "feed"
    BY <1>3 DEF MergeSpill, MergeOverflow, Finish, Refill, LoopBudget, LoopStuck,
                Pushing, Merging, Merged
  <2>2. \/ debug' = [debug EXCEPT !.spills = @ + 1]
        \/ debug' = [debug EXCEPT !.loads = @ + 1]
        \/ \E e \in 0 .. 3 : debug' = [debug EXCEPT !.err = e]
    BY <1>3 DEF MergeSpill, MergeOverflow, Finish, Refill, LoopBudget, LoopStuck
  <2>3. QED  BY <1>1, <2>1, <2>2 DEF Counters
<1>4. QED
  BY <1>2, <1>3 DEF Next, NextTask, Run, Loop, Terminated

LEMMA WorkStep ==
    ASSUME WInv, [Next]_vars PROVE WorkSpent'
<1>1. /\ RInv /\ JobOK(ThisJob) /\ ThisJob' = ThisJob /\ PoolStep
      /\ ViableAll(ThisJob, Pending) /\ AntiChain(Pending)
      /\ Spent(ThisJob, Pending, debug.paths, debug.nodes)
  BY ThisJobOK, RStep DEF WInv, RInv, Accounts, WorkSpent, PoolStep, ThisJob
<1>2. CASE RunEnd
  <2>1. /\ pc = "feed" /\ Taken \in SUBSET Pending
        /\ \A p \in Taken : ~ Closing(ThisJob, p)
        /\ Pending' = Expanded(ThisJob, Pending, Taken)
    BY <1>1, <1>2, RunEndPops
  <2>2. /\ taken = Cardinality(Taken)
        /\ Len(cand) = Cardinality(Demand(ThisJob, Taken))
    BY <1>1, <2>1, TakenCounted, CandsAreDemand
  <2>3. /\ debug'.paths = debug.paths + taken
        /\ debug'.nodes = debug.nodes + Len(cand)
    <3>1. debug \in Counters
      BY <1>1 DEF RInv, IInv, TypeOK, Counters
    <3>2. debug' = [debug EXCEPT !.runs = @ + 1, !.paths = @ + taken,
                                 !.nodes = @ + Len(cand)]
      BY <1>2 DEF RunEnd
    <3>3. QED  BY <3>1, <3>2 DEF Counters
  <2>4. Spent(ThisJob, Pending', debug'.paths, debug'.nodes)
    BY <1>1, <2>1, <2>2, <2>3, ExpandSpends
  <2>5. QED  BY <1>1, <2>4 DEF WorkSpent
<1>3. CASE ~ RunEnd
  <2>1. /\ debug'.paths = debug.paths /\ debug'.nodes = debug.nodes
        /\ ~ ExpandStep
    BY <1>1, <1>3, OneRunner DEF ExpandStep
  <2>2. CASE EmitStep
    <3>1. PICK p \in Pending : Closing(ThisJob, p) /\ Pending' = Pending \ {p}
      BY <2>2 DEF EmitStep
    <3>2. Spent(ThisJob, Pending', debug.paths, debug.nodes)
      BY <1>1, <3>1, EmitSpends
    <3>3. QED  BY <1>1, <2>1, <3>2 DEF WorkSpent
  <2>3. CASE StopStep \/ StillStep
    <3>1. Pending' = Pending
      BY <2>3 DEF StopStep, StillStep
    <3>2. QED  BY <1>1, <2>1, <3>1 DEF WorkSpent
  <2>4. QED  BY <1>1, <2>1, <2>2, <2>3 DEF PoolStep
<1>4. QED  BY <1>2, <1>3

LEMMA FirstPathStep ==
    ASSUME WInv, [Next]_vars PROVE FirstPath'
<1>1. /\ RInv /\ bram \in Seq(Path(ThisJob)) /\ dram \in Seq(Path(ThisJob))
      /\ taken \in 0 .. Len(batch) /\ batch \in Seq(Path(ThisJob))
      /\ FirstPath
  BY DEF WInv, RInv, IInv, TypeOK
<1>2. CASE NextBatch \/ Refill
  <2>1. /\ Merged /\ cand' = cand /\ \E b \in Seq(Path(ThisJob)) : b # << >> /\ ReadBatch(b)
    <3>1. CASE NextBatch
      BY <1>1, <3>1 DEF NextBatch
    <3>2. CASE Refill
      <4>1. IInv' /\ jid' = jid
        BY <1>1, <3>2, StepInv DEF RInv, Next, NextTask, Refill
      <4>2. bram' \in Seq(Path(ThisJob))
        BY <4>1 DEF IInv, TypeOK, ThisJob
      <4>3. bram' # << >>
        <5>1. Len(dram) \in Nat /\ Len(dram) # 0 /\ dram # << >>
          BY <1>1, <3>2, EmptySeq, LenProperties DEF Refill
        <5>2. DdrBatch \in Nat /\ DdrBatch >= 1
          BY SizesAssumption
        <5>3. RefillKeeps \in Nat /\ RefillKeeps + 1 \in 1 .. Len(dram)
          BY <5>1, <5>2 DEF RefillKeeps, Lesser
        <5>4. Len(bram') = Len(dram) - (RefillKeeps + 1) + 1
          <6>1. \A i \in RefillKeeps + 1 .. Len(dram) : dram[i] \in Path(ThisJob)
            <7>1. \A i \in 1 .. Len(dram) : dram[i] \in Path(ThisJob)
              BY <1>1, RangeMember
            <7>2. QED  BY <5>1, <5>3, <7>1
          <6>2. RefillKeeps + 1 \in Int /\ Len(dram) \in Int /\ RefillKeeps + 1 <= Len(dram)
            BY <5>1, <5>3
          <6>3. QED  BY <3>2, <6>1, <6>2, SubSeqProperties DEF Refill
        <5>5. Len(bram') # 0
          BY <5>1, <5>3, <5>4
        <5>6. QED  BY <4>2, <5>5, EmptySeq
      <4>4. Merged /\ cand' = cand /\ ReadBatch(bram')
        BY <3>2 DEF Refill
      <4>5. QED  BY <4>2, <4>3, <4>4
    <3>3. QED  BY <1>2, <3>1, <3>2
  <2>2. PICK b \in Seq(Path(ThisJob)) : b # << >> /\ ReadBatch(b)
    BY <2>1
  <2>3. batch' # << >>
    <3>1. Len(b) \in Nat /\ Len(b) # 0
      BY <2>2, EmptySeq, LenProperties
    <3>2. Lesser(Len(b), MaxIn) \in Nat /\ Lesser(Len(b), MaxIn) >= 1
      BY <3>1, SizesAssumption DEF Lesser
    <3>3. 1 \in DOMAIN TopOf(b)
      BY <3>2 DEF TopOf
    <3>4. 1 \notin DOMAIN << >>
      BY EmptySeq, LenProperties
    <3>5. QED  BY <2>2, <3>3, <3>4 DEF ReadBatch
  <2>4. QED  BY <2>1, <2>3 DEF Merged, FirstPath
<1>3. CASE FeedPathEnd
  <2>1. taken' = taken + 1 /\ taken \in Nat
    BY <1>1, <1>3, LenProperties DEF FeedPathEnd, TakenNext
  <2>2. QED  BY <2>1 DEF FirstPath
<1>4. CASE UNCHANGED vars
  BY <1>1, <1>4 DEF FirstPath, vars
<1>5. CASE MergeDrop \/ MergeCount \/ MergePush \/ MergeSpill \/ MergeOverflow
           \/ Finish \/ FeedPath \/ FeedEdge \/ RunEnd \/ Loop
  <2>1. pc' # "feed"
    BY <1>5 DEF MergeDrop, MergeCount, MergePush, MergeSpill, MergeOverflow,
                Finish, FeedPath, FeedEdge, RunEnd, Loop, LoopBudget, LoopStuck,
                LoopAgain, Pushing, Merging
  <2>2. QED  BY <2>1 DEF FirstPath
<1>6. QED
  BY <1>2, <1>3, <1>4, <1>5 DEF Next, NextTask, Run, Terminated
LEMMA RowTooLongStep ==
    ASSUME WInv, [Next]_vars PROVE RowTooLong'
<1>1. /\ RInv /\ bram \in Seq(Path(ThisJob)) /\ batch \in Seq(Path(ThisJob))
      /\ taken \in 0 .. Len(batch) /\ FirstPath /\ RowTooLong
      /\ ThisJob' = ThisJob
  BY RStep DEF WInv, RInv, IInv, TypeOK, PoolStep, ThisJob
<1>2. CASE RunEnd /\ taken = 0
  <2>1. /\ pc = "feed" /\ ~ Fits /\ taken' = taken
        /\ bram' = SubSeq(bram, 1, Len(bram) - taken)
    BY <1>2 DEF RunEnd, Popped
  <2>2. cand = << >> /\ Len(cand) = 0 /\ Len(batch) \in Nat /\ Len(batch) # 0
    BY <1>1, <1>2, <2>1, EmptySeq, LenProperties DEF FirstPath
  <2>3. /\ Len(bram) \in Nat /\ Len(batch) <= Len(bram) /\ batch[1] = bram[Len(bram)]
    <3>1. Len(bram) \in Nat
      BY <1>1, LenProperties
    <3>2. /\ Len(batch) <= Len(bram)
          /\ \A i \in 1 .. Len(batch) : batch[i] = bram[Len(bram) + 1 - i]
      BY <1>1, <2>1 DEF RInv, IInv, Room, Shape, BatchIsTop, Feeding
    <3>3. 1 \in 1 .. Len(batch) /\ Len(bram) + 1 - 1 = Len(bram)
      BY <2>2, <3>1
    <3>4. QED  BY <3>1, <3>2, <3>3
  <2>4. bram' = bram
    <3>1. Len(bram) - taken = Len(bram)
      BY <1>2, <2>3
    <3>2. QED  BY <1>1, <2>1, <3>1, SubSeqFull
  <2>5. batch[1] \in Range(bram) /\ batch[1] \in Path(ThisJob)
    <3>1. Len(bram) \in 1 .. Len(bram) /\ 1 \in 1 .. Len(batch)
      BY <2>2, <2>3
    <3>2. QED  BY <1>1, <2>3, <3>1, RangeMember
  <2>6. Len(Adj(batch[1])) >= MaxOut
    <3>1. Len(Adj(batch[1])) \in Nat /\ MaxOut \in Nat
      BY <1>1, <2>5, AdjOnce, SizesAssumption
    <3>2. taken < Len(batch) /\ batch[taken + 1] = batch[1]
      BY <1>2, <2>2
    <3>3. ~ (Len(cand) + Len(Adj(batch[1])) < MaxOut)
      BY <2>1, <3>2 DEF Fits
    <3>4. QED  BY <2>2, <3>1, <3>3
  <2>7. QED  BY <1>1, <2>4, <2>5, <2>6 DEF RowTooLong, Adj
<1>3. CASE RunEnd /\ taken # 0
  BY <1>3 DEF RunEnd, RowTooLong
<1>4. CASE UNCHANGED vars
  BY <1>1, <1>4 DEF RowTooLong, vars, Adj
<1>5. CASE NextTask \/ FeedPath \/ FeedEdge \/ FeedPathEnd \/ Loop \/ Terminated
  <2>1. pc' # "check" \/ UNCHANGED vars
    BY <1>5 DEF NextTask, NextBatch, Refill, ReadBatch, Merged, Terminated,
                MergeDrop, MergeCount, MergePush, MergeSpill, MergeOverflow,
                Finish, FeedPath, FeedEdge, FeedPathEnd, Loop, LoopBudget,
                LoopStuck, LoopAgain, Pushing, Merging
  <2>2. QED  BY <1>4, <2>1 DEF RowTooLong
<1>6. QED  BY <1>2, <1>3, <1>4, <1>5 DEF Next, Run

(* The error is set in the step that ends the call.                        *)
LEMMA ErrorSet ==
    ASSUME RInv, [Next]_vars,
           ~ (MergeOverflow \/ Finish \/ LoopBudget \/ LoopStuck)
    PROVE  debug'.err = debug.err /\ (pc' = "done" => pc = "done")
<1>1. debug \in Counters
  BY DEF RInv, IInv, TypeOK, Counters
<1>2. CASE MergeDrop \/ MergeCount \/ MergePush \/ NextBatch \/ FeedPath
           \/ FeedEdge \/ FeedPathEnd \/ LoopAgain \/ UNCHANGED vars
  <2>1. debug' = debug /\ (pc' = "done" => pc = "done")
    BY <1>2 DEF MergeDrop, MergeCount, MergePush, NextBatch, FeedPath, FeedEdge,
                FeedPathEnd, LoopAgain, ReadBatch, Pushing, Merging, vars
  <2>2. QED  BY <2>1
<1>3. CASE MergeSpill
  BY <1>1, <1>3 DEF MergeSpill, Counters, Pushing, Merging
<1>4. CASE Refill
  BY <1>1, <1>4 DEF Refill, Counters, ReadBatch
<1>5. CASE RunEnd
  BY <1>1, <1>5 DEF RunEnd, Counters
<1>6. QED
  BY <1>2, <1>3, <1>4, <1>5 DEF Next, NextTask, Run, Loop, Terminated

LEMMA NoErrorYetStep ==
    ASSUME WInv, [Next]_vars PROVE NoErrorYet'
<1>1. CASE MergeOverflow \/ Finish \/ LoopBudget \/ LoopStuck
  BY <1>1 DEF MergeOverflow, Finish, LoopBudget, LoopStuck, NoErrorYet
<1>2. CASE ~ (MergeOverflow \/ Finish \/ LoopBudget \/ LoopStuck)
  <2>1. debug'.err = debug.err /\ (pc' = "done" => pc = "done")
    BY <1>2, ErrorSet DEF WInv
  <2>2. CASE pc = "done"
    <3>1. pc' = "done"
      BY <2>2 DEF Next, NextTask, Run, Loop, Terminated, NextBatch, Refill, Merged,
                  MergeDrop, MergeCount, MergePush, MergeSpill, MergeOverflow,
                  Finish, FeedPath, FeedEdge, FeedPathEnd, RunEnd, LoopBudget,
                  LoopStuck, LoopAgain, Pushing, Merging, vars
    <3>2. QED  BY <3>1 DEF NoErrorYet
  <2>3. CASE pc # "done"
    BY <2>1, <2>3 DEF WInv, NoErrorYet
  <2>4. QED  BY <2>2, <2>3
<1>3. QED  BY <1>1, <1>2

(* What waits to be expanded is part of the work.                          *)
LEMMA PendingIsWork ==
    ASSUME WInv, NEW p \in Pending, ~ Closing(ThisJob, p)
    PROVE  p \in Expandable(ThisJob)
<1>1. JobOK(ThisJob) /\ Viable(ThisJob, p) /\ Spawned(ThisJob, p)
  BY ThisJobOK DEF WInv, RInv, Accounts, ViableAll, WorkSpent, Spent, SpawnedAll
<1>2. QED  BY <1>1, ExpandableIntro

(* Both stacks full and one path more.                                     *)
LEMMA OverflowJustified ==
    ASSUME WInv, MergeOverflow
    PROVE  Cardinality(Expandable(ThisJob)) > MaxBuf + MaxDdr
<1>1. /\ RInv /\ JobOK(ThisJob) /\ Pushing /\ Merging
      /\ Len(bram) = MaxBuf /\ Len(dram) >= MaxDdr
  BY ThisJobOK DEF WInv, RInv, MergeOverflow, Pushing
<1>2. /\ bram \in Seq(Path(ThisJob)) /\ dram \in Seq(Path(ThisJob))
      /\ Simple(bram) /\ Simple(dram) /\ Range(bram) \cap Range(dram) = {}
      /\ \A p \in Stored : ~ Closing(ThisJob, p)
      /\ MaxBuf \in Nat /\ MaxDdr \in Nat
  BY <1>1, SizesAssumption DEF RInv, IInv, TypeOK, Shape, StoredOnce, StoredOpen
<1> DEFINE b == Range(bram)
           d == Range(dram)
           x == Extended(Top)
<1>3. /\ IsFiniteSet(b) /\ Cardinality(b) = MaxBuf
      /\ IsFiniteSet(d) /\ Cardinality(d) = Len(dram) /\ Len(dram) \in Nat
  BY <1>1, <1>2, RangeCounted
<1>4. x \in Pending /\ x \notin Stored /\ ~ Closing(ThisJob, x)
  <2>1. /\ cand \in Seq(CandOf(ThisJob, batch)) /\ cand # << >> /\ ~ Feeding
        /\ VisitedValid(Top) /\ ~ TargetValid(Top)
    BY <1>1 DEF RInv, IInv, TypeOK, Merging, Pushing, Feeding
  <2>2. Top \in Range(cand)
    BY <1>1, PopStack DEF Merging, Top, RInv, IInv, TypeOK, Shape, WaitingOnce
  <2>3. x \in Pending
    BY <2>1, <2>2, PendingIs DEF Extensions, Extended, VisitedValid
  <2>4. x \notin Stored
    BY <1>1, <2>1, <2>2 DEF RInv, Shape, WaitingOnce
  <2>5. Top \in CandOf(ThisJob, batch)
    BY <2>1, <2>2, RangeMember
  <2>6. ~ Closing(ThisJob, x)
    BY <1>1, <2>1, <2>5, TopCloses
  <2>7. QED  BY <2>3, <2>4, <2>6
<1>5. b \subseteq Pending /\ d \subseteq Pending /\ x \notin b /\ x \notin d
  BY <1>4, PendingIs DEF Stored
<1>6. (b \cup d) \cup {x} \subseteq Expandable(ThisJob)
  BY <1>2, <1>4, <1>5, PendingIsWork DEF Stored
<1> HIDE DEF b, d, x
<1>7. b \cap d = {} /\ x \notin b \cup d
  BY <1>2, <1>5 DEF b, d
<1>8. /\ IsFiniteSet(b \cup d)
      /\ Cardinality(b \cup d) = Cardinality(b) + Cardinality(d) - Cardinality(b \cap d)
  BY <1>3, FS_Union
<1>9. Cardinality(b \cap d) = 0
  BY <1>7, FS_EmptySet
<1>10. Cardinality((b \cup d) \cup {x}) = Cardinality(b \cup d) + 1
  BY <1>7, <1>8, FS_AddElement
<1>11. IsFiniteSet(Expandable(ThisJob))
  BY <1>1, ExpandableFinite
<1>12. /\ Cardinality((b \cup d) \cup {x}) <= Cardinality(Expandable(ThisJob))
       /\ Cardinality(Expandable(ThisJob)) \in Nat
  BY <1>6, <1>11, FS_Subset, FS_CardinalityType
<1>13. QED  BY <1>1, <1>2, <1>3, <1>8, <1>9, <1>10, <1>12

LEMMA ErrorJustifiedStep ==
    ASSUME WInv, [Next]_vars PROVE ErrorJustified'
<1>1. /\ RInv /\ JobOK(ThisJob) /\ ThisJob' = ThisJob /\ jid' = jid /\ jid \in JobId
      /\ debug \in Counters /\ ErrorJustified
      /\ \A p : Adj(p)' = Adj(p)
  BY ThisJobOK, RStep
     DEF WInv, RInv, IInv, TypeOK, Counters, PoolStep, ThisJob, Adj
<1>2. /\ ExpandableOf[jid] = Expandable(ThisJob)
      /\ DemandOf[jid] = Cardinality(Demand(ThisJob, Expandable(ThisJob)))
  BY <1>1 DEF ExpandableOf, DemandOf, ThisJob
<1>3. CASE ~ (MergeOverflow \/ Finish \/ LoopBudget \/ LoopStuck)
  <2>1. debug'.err = debug.err
    BY <1>1, <1>3, ErrorSet
  <2>2. QED  BY <1>1, <2>1 DEF ErrorJustified
<1>4. CASE Finish
  BY <1>1, <1>4 DEF Finish, Counters, ErrorJustified
<1>5. CASE MergeOverflow
  <2>1. debug'.err = 2
    BY <1>1, <1>5 DEF MergeOverflow, Counters
  <2>2. Cardinality(Expandable(ThisJob)) > MaxBuf + MaxDdr
    BY <1>5, OverflowJustified
  <2>3. QED  BY <1>1, <1>2, <2>1, <2>2 DEF ErrorJustified
<1>6. CASE LoopBudget
  <2>1. debug'.err = 3 /\ debug.nodes >= Mtpc /\ Mtpc \in Nat
    BY <1>1, <1>6, SizesAssumption DEF LoopBudget, Broke, Counters
  <2>2. /\ debug.nodes \in Nat
        /\ debug.nodes <= Cardinality(Demand(ThisJob, Expandable(ThisJob)))
    BY <1>1, SpentBounds DEF WInv, WorkSpent
  <2>3. Cardinality(Demand(ThisJob, Expandable(ThisJob))) \in Nat
    BY <1>1, WorkFinite
  <2>4. Cardinality(Demand(ThisJob, Expandable(ThisJob))) >= Mtpc
    BY <2>1, <2>2, <2>3
  <2>5. QED  BY <1>1, <1>2, <2>1, <2>4 DEF ErrorJustified
<1>7. CASE LoopStuck
  <2>1. debug'.err = 1 /\ pc = "check" /\ taken = 0
    BY <1>1, <1>7 DEF LoopStuck, Stuck, Counters
  <2>2. PICK p \in Range(bram) : Len(Adj(p)) >= MaxOut
    BY <2>1 DEF WInv, RowTooLong
  <2>3. p \in Pending /\ ~ Closing(ThisJob, p)
    BY <1>1, PendingIs DEF Stored, RInv, Shape, StoredOpen
  <2>4. p \in Expandable(ThisJob)
    BY <2>3, PendingIsWork
  <2>5. QED  BY <1>1, <1>2, <2>1, <2>2, <2>4 DEF ErrorJustified
<1>8. QED  BY <1>3, <1>4, <1>5, <1>6, <1>7

LEMMA WInit == Init => WInv
<1>1. SUFFICES ASSUME Init PROVE WInv
  OBVIOUS
<1>2. /\ RInv /\ JobOK(ThisJob) /\ Pending = Range(ThisJob.tasks)
  BY <1>1, RInit, ThisJobOK DEF RInv
<1>3. /\ debug.paths = 0 /\ debug.nodes = 0 /\ debug.err = 0 /\ pc = "merge"
  BY <1>1 DEF Init
<1>4. WorkSpent
  BY <1>2, <1>3, TasksSpend DEF WorkSpent
<1>5. QED  BY <1>2, <1>3, <1>4 DEF WInv, FirstPath, RowTooLong, NoErrorYet, ErrorJustified

LEMMA WInvariant == Spec => []WInv
<1>1. WInv /\ [Next]_vars => WInv'
  BY RStep, WorkStep, FirstPathStep, RowTooLongStep, NoErrorYetStep,
     ErrorJustifiedStep DEF WInv
<1>2. QED  BY WInit, <1>1, PTL DEF Spec

(* No path is expanded twice, whatever the stacks, the batches and the     *)
(* refills do with it, and a call of MYDFS() without an error has expanded *)
(* all there are: bufferDebug[4] and [5] are exact.                        *)
THEOREM WorkIsOnce == Spec => []WorkOnce
<1>1. WInv /\ (Status = "complete" => Pending = {}) => WorkOnce
  <2>1. SUFFICES ASSUME WInv, Status = "complete" => Pending = {} PROVE WorkOnce
    OBVIOUS
  <2>2. JobOK(ThisJob) /\ jid \in JobId
    BY <2>1, ThisJobOK DEF WInv, RInv
  <2>3. /\ ExpandableOf[jid] = Expandable(ThisJob)
        /\ DemandOf[jid] = Cardinality(Demand(ThisJob, Expandable(ThisJob)))
    BY <2>2 DEF ExpandableOf, DemandOf, ThisJob
  <2>4. /\ debug.paths <= Cardinality(Expandable(ThisJob))
        /\ Pending = {} =>
             /\ debug.paths = Cardinality(Expandable(ThisJob))
             /\ debug.nodes = Cardinality(Demand(ThisJob, Expandable(ThisJob)))
    BY <2>1, <2>2, SpentBounds DEF WInv, WorkSpent
  <2>5. pc = "done" /\ debug.err = 0 => Pending = {}
    BY <2>1 DEF Status
  <2>6. QED  BY <2>3, <2>4, <2>5 DEF WorkOnce
<1>2. QED  BY <1>1, WInvariant, EmptyWhenComplete, PTL

(* MYDFS() gives up only on a job beyond what it is built for: bufferDebug *)
(* [0] is 1 for a row too long, 2 for more paths than the stacks hold, 3   *)
(* for more candidates than the caller allows.                             *)
THEOREM GivesUpWithCause == Spec => []ErrorJustified
BY WInvariant, PTL DEF WInv
=============================================================================
