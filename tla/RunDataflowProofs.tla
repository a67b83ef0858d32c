-------------------------- MODULE RunDataflowProofs -------------------------
(***************************************************************************)
(* The dataflow region, for any job and any depth of the streams.  Each    *)
(* stream carries a part of a sequence fixed by the feed: the vertices,    *)
(* layers or path indices of the candidates in the order they are stored,  *)
(* where the candidate in the making counts as the next one, and a 0 after *)
(* the last vertex.  How much has been sent follows from the feed's        *)
(* position, how much is read from the flags stored, so that the position  *)
(* of a flag is that of its candidate at any interleaving of the three     *)
(* processes.                                                              *)
(***************************************************************************)
EXTENDS RunDataflow, SequenceTheorems, TLAPS

One(b) == IF b THEN 1 ELSE 0

Pos == Nat \ {0}

(* What is sent, or will be, for the n-th candidate.                       *)
IdxAt    == [n \in Pos |-> IF n <= Len(cand) THEN cand[n].idx ELSE taken + 1]
VertexAt == [n \in Pos |-> IF n <= Len(cand) THEN cand[n].nbr
                           ELSE IF fpc = "edges" THEN ThisNbr ELSE 0]
LayerAt  == [n \in Pos |-> Layer(batch[IdxAt[n]])]

(* How many have been sent on the stream written as the w-th.              *)
Sent(w) == Len(cand) + One(out >= w)

TEnded == fpc \in {"endV", "done"}
VEnded == fpc = "done"

(* Stream s holds the elements from + 1 .. to of f.                        *)
Carries(s, f, from, to) ==
    /\ from \in Nat /\ to \in Nat /\ Len(s) = to - from
    /\ \A n \in 1 .. Len(s) : s[n] = f[from + n]

GotT == Len(target_valid) + One(tReg # 0)
GotV == Len(visited_valid) + One(vReg # 0)

(* The flags the n-th candidate calls for.                                 *)
ClosesAt(n) == VertexAt[n] = ThisJob.dst \/ LayerAt[n] + 2 = ThisJob.k
FreshAt(n)  == NotVisited(batch[IdxAt[n]], VertexAt[n])

TargetInv ==
    /\ Carries(nbrT, VertexAt, GotT + One(tEnd), Sent(1) + One(TEnded))
    /\ Carries(layerT, LayerAt, Len(target_valid), Sent(2))
    /\ GotT <= Sent(1)
    /\ tReg # 0 => tReg = VertexAt[GotT]
    /\ tEnd => tReg = 0 /\ TEnded /\ GotT = Len(cand)
    /\ \A n \in 1 .. Len(target_valid) :
         target_valid[n] <=> ClosesAt(n)

VisitedInv ==
    /\ Carries(nbrV, VertexAt, GotV + One(vEnd), Sent(3) + One(VEnded))
    /\ Carries(idxV, IdxAt, Len(visited_valid), Len(cand))
    /\ GotV <= Sent(3)
    /\ vReg # 0 => vReg = VertexAt[GotV]
    /\ vEnd => vReg = 0 /\ VEnded /\ GotV = Len(cand)
    /\ \A n \in 1 .. Len(visited_valid) :
         visited_valid[n] <=> FreshAt(n)

Feeding ==
    /\ fpc = "edges" =>
         /\ taken < Len(batch) /\ edge <= Len(Adj(batch[taken + 1]))
         /\ Len(cand) + Len(Adj(batch[taken + 1])) - edge < MaxOut
    /\ Len(cand) < MaxOut
    /\ out # 0 => InEdges /\ Admits(ThisJob, batch[taken + 1], ThisNbr)
    /\ \A n \in 1 .. Len(cand) : cand[n].nbr # 0

DInv == TypeOK /\ Feeding /\ TargetInv /\ VisitedInv

-----------------------------------------------------------------------------
(* Streams.                                                                *)

LEMMA PushFacts ==
    ASSUME NEW S, NEW s \in Seq(S), NEW e \in S
    PROVE  /\ Append(s, e) \in Seq(S) /\ Len(Append(s, e)) = Len(s) + 1
           /\ Len(s) \in Nat
           /\ \A n \in 1 .. Len(s) : Append(s, e)[n] = s[n]
           /\ Append(s, e)[Len(s) + 1] = e
BY AppendProperties, LenProperties

LEMMA PopFacts ==
    ASSUME NEW S, NEW s \in Seq(S), s # << >>
    PROVE  /\ Tail(s) \in Seq(S) /\ Len(s) \in Nat \ {0}
           /\ Len(Tail(s)) = Len(s) - 1
           /\ Head(s) = s[1] /\ Head(s) \in S
           /\ \A n \in 1 .. Len(s) - 1 : Tail(s)[n] = s[n + 1]
<1>1. Len(s) \in Nat \ {0}
  BY EmptySeq
<1>2. 1 \in 1 .. Len(s)
  BY <1>1
<1>3. QED  BY <1>1, <1>2, HeadTailProperties, ElementOfSeq

(* A stream depends on what it carries only.                               *)
LEMMA CarriesSame ==
    ASSUME NEW S, NEW s \in Seq(S), NEW f, NEW g, NEW from, NEW to,
           Carries(s, f, from, to), \A n \in 1 .. to : g[n] = f[n]
    PROVE  Carries(s, g, from, to)
<1>1. /\ from \in Nat /\ to \in Nat /\ Len(s) = to - from /\ Len(s) \in Nat
      /\ \A n \in 1 .. Len(s) : s[n] = f[from + n]
  BY LenProperties DEF Carries
<1>2. \A n \in 1 .. Len(s) : from + n \in 1 .. to
  BY <1>1
<1>3. \A n \in 1 .. Len(s) : s[n] = g[from + n]
  BY <1>1, <1>2
<1>4. QED  BY <1>1, <1>3 DEF Carries

LEMMA CarriesLen ==
    ASSUME NEW S, NEW s \in Seq(S), NEW f, NEW from, NEW to,
           Carries(s, f, from, to)
    PROVE  Len(s) \in Nat /\ Len(s) <= to
BY LenProperties DEF Carries

LEMMA CarriesPush ==
    ASSUME NEW S, NEW s \in Seq(S), NEW e \in S, NEW f, NEW g,
           NEW from, NEW to, Carries(s, f, from, to),
           \A n \in 1 .. to : g[n] = f[n], g[to + 1] = e
    PROVE  Carries(Append(s, e), g, from, to + 1)
<1>1. /\ from \in Nat /\ to \in Nat /\ Len(s) = to - from /\ Len(s) \in Nat
      /\ \A n \in 1 .. Len(s) : s[n] = g[from + n]
  BY CarriesSame, LenProperties DEF Carries
<1>2. Len(Append(s, e)) = to + 1 - from /\ to + 1 \in Nat
  BY <1>1, PushFacts
<1>3. ASSUME NEW n \in 1 .. Len(s) + 1 PROVE Append(s, e)[n] = g[from + n]
  <2>1. CASE n \in 1 .. Len(s)
    BY <1>1, <2>1, PushFacts
  <2>2. CASE n = Len(s) + 1
    <3>1. from + n = to + 1
      BY <1>1, <2>2
    <3>2. QED  BY <2>2, <3>1, PushFacts
  <2>3. QED  BY <1>1, <2>1, <2>2
<1>4. QED  BY <1>1, <1>2, <1>3, PushFacts DEF Carries

LEMMA CarriesPop ==
    ASSUME NEW S, NEW s \in Seq(S), s # << >>, NEW f, NEW from, NEW to,
           Carries(s, f, from, to)
    PROVE  /\ Head(s) = f[from + 1] /\ from < to
           /\ Carries(Tail(s), f, from + 1, to)
<1>1. /\ from \in Nat /\ to \in Nat /\ Len(s) = to - from
      /\ Len(s) \in Nat \ {0}
      /\ \A n \in 1 .. Len(s) : s[n] = f[from + n]
  BY PopFacts DEF Carries
<1>2. 1 \in 1 .. Len(s) /\ from < to
  BY <1>1
<1>3. Head(s) = f[from + 1]
  BY <1>1, <1>2, PopFacts
<1>4. Len(Tail(s)) = to - (from + 1) /\ from + 1 \in Nat
  BY <1>1, PopFacts
<1>5. ASSUME NEW n \in 1 .. Len(Tail(s)) PROVE Tail(s)[n] = f[from + 1 + n]
  <2>1. n \in 1 .. Len(s) - 1 /\ n + 1 \in 1 .. Len(s)
    BY <1>1, PopFacts
  <2>2. from + (n + 1) = from + 1 + n
    BY <1>1, <2>1
  <2>3. QED  BY <1>1, <2>1, <2>2, PopFacts
<1>6. QED  BY <1>1, <1>2, <1>3, <1>4, <1>5 DEF Carries

-----------------------------------------------------------------------------
(* The batch and its edges.                                                *)

LEMMA BatchFacts ==
    ASSUME jid \in JobId
    PROVE  /\ batch \in Seq(Seq(Node(ThisJob))) /\ Len(batch) \in Nat
           /\ \A n \in 1 .. Len(batch) :
                /\ batch[n] \in Seq(Node(ThisJob)) /\ Len(batch[n]) \in Nat
                /\ Len(batch[n]) >= 1
                /\ Adj(batch[n]) \in Seq(Node(ThisJob) \ {0})
                /\ Len(Adj(batch[n])) \in Nat
                /\ \A i \in 1 .. Len(Adj(batch[n])) :
                     Adj(batch[n])[i] \in Node(ThisJob) \ {0}
           /\ Node(ThisJob) \subseteq Nat
<1>1. TasksOK(ThisJob) /\ GraphOK(ThisJob)
  BY JobsAssumption DEF JobOK, ThisJob
<1>2. batch \in Seq(Seq(Node(ThisJob))) /\ Len(batch) \in Nat
  BY <1>1, LenProperties DEF TasksOK, batch
<1>3. ASSUME NEW n \in 1 .. Len(batch)
      PROVE  /\ batch[n] \in Seq(Node(ThisJob)) /\ Len(batch[n]) \in Nat
             /\ Len(batch[n]) >= 1
  <2>1. TaskOK(ThisJob, batch[n])
    BY <1>1 DEF TasksOK, batch
  <2>2. batch[n] \in Seq(Node(ThisJob))
    BY <2>1 DEF TaskOK
  <2>3. Len(batch[n]) \in Nat
    BY <2>2, LenProperties
  <2>4. Len(batch[n]) = 1 \/ Len(batch[n]) >= 1
    BY <2>1 DEF TaskOK
  <2>5. \A m \in Nat : m = 1 \/ m >= 1 => m >= 1
    OBVIOUS
  <2>6. QED  BY <2>2, <2>3, <2>4, <2>5
<1>4. ASSUME NEW n \in 1 .. Len(batch)
      PROVE  /\ Adj(batch[n]) \in Seq(Node(ThisJob) \ {0})
             /\ Len(Adj(batch[n])) \in Nat
             /\ \A i \in 1 .. Len(Adj(batch[n])) :
                  Adj(batch[n])[i] \in Node(ThisJob) \ {0}
  <2>1. End(batch[n]) \in Node(ThisJob)
    BY <1>3, ElementOfSeq DEF End
  <2>2. Adj(batch[n]) \in Seq(Node(ThisJob) \ {0})
    BY <1>1, <2>1 DEF GraphOK, Adj
  <2>3. QED  BY <2>2, ElementOfSeq, LenProperties
<1>5. QED  BY <1>1, <1>2, <1>3, <1>4 DEF GraphOK

(* While the edges of a path are looked at, its next neighbour.            *)
LEMMA NbrFacts ==
    ASSUME TypeOK, Feeding, InEdges
    PROVE  /\ taken + 1 \in 1 .. Len(batch) /\ taken \in Nat /\ edge \in Nat
           /\ ThisNbr \in Node(ThisJob) \ {0}
           /\ Layer(batch[taken + 1]) \in Nat
           /\ Len(Adj(batch[taken + 1])) \in Nat
           /\ edge + 1 <= Len(Adj(batch[taken + 1]))
<1>1. /\ taken \in 0 .. Len(batch) /\ taken < Len(batch) /\ edge \in Nat
      /\ jid \in JobId /\ edge < Len(Adj(batch[taken + 1]))
  BY DEF TypeOK, Feeding, InEdges
<1>2. Len(batch) \in Nat
  BY <1>1, BatchFacts
<1>3. taken + 1 \in 1 .. Len(batch)
  BY <1>1, <1>2
<1>4. /\ Len(Adj(batch[taken + 1])) \in Nat
      /\ Len(batch[taken + 1]) \in Nat /\ Len(batch[taken + 1]) >= 1
      /\ \A i \in 1 .. Len(Adj(batch[taken + 1])) :
           Adj(batch[taken + 1])[i] \in Node(ThisJob) \ {0}
  BY <1>1, <1>3, BatchFacts
<1>5. edge + 1 \in 1 .. Len(Adj(batch[taken + 1]))
  BY <1>1, <1>4
<1>6. QED  BY <1>1, <1>2, <1>3, <1>4, <1>5 DEF ThisNbr, Layer

(* The candidates stored.                                                  *)
LEMMA CandFacts ==
    ASSUME TypeOK, Feeding
    PROVE  /\ Len(cand) \in Nat
           /\ \A n \in 1 .. Len(cand) :
                /\ cand[n].idx \in 1 .. Len(batch)
                /\ cand[n].nbr \in Node(ThisJob) \ {0}
           /\ \A w \in 1 .. 3 : Sent(w) \in Nat /\ Len(cand) <= Sent(w)
                                /\ Sent(w) <= Len(cand) + 1
<1>1. cand \in Seq([idx : 1 .. Len(batch), nbr : Node(ThisJob)])
  BY DEF TypeOK
<1>2. Len(cand) \in Nat
  BY <1>1, LenProperties
<1>3. \A n \in 1 .. Len(cand) :
        cand[n] \in [idx : 1 .. Len(batch), nbr : Node(ThisJob)]
  BY <1>1, ElementOfSeq
<1>4. \A n \in 1 .. Len(cand) : cand[n].nbr # 0
  BY DEF Feeding
<1>5. QED  BY <1>2, <1>3, <1>4 DEF Sent, One

-----------------------------------------------------------------------------
(* What a step of the feed does to a stream: nothing, or one element more. *)

Sends(S, s, t, g, from, to) ==
    \/ t = s /\ to = from
    \/ t = Append(s, g[from + 1]) /\ g[from + 1] \in S /\ to = from + 1

LEMMA CarriesSends ==
    ASSUME NEW S, NEW s \in Seq(S), NEW t, NEW f, NEW g,
           NEW from, NEW to, NEW next, Carries(s, f, from, to),
           Sends(S, s, t, g, to, next), \A n \in 1 .. to : g[n] = f[n]
    PROVE  t \in Seq(S) /\ Carries(t, g, from, next)
<1>1. CASE t = s /\ next = to
  BY <1>1, CarriesSame
<1>2. CASE t = Append(s, g[to + 1]) /\ g[to + 1] \in S /\ next = to + 1
  <2>1. Carries(Append(s, g[to + 1]), g, from, to + 1)
    BY <1>2, CarriesPush
  <2>2. Append(s, g[to + 1]) \in Seq(S)
    BY <1>2, PushFacts
  <2>3. QED  BY <1>2, <2>1, <2>2
<1>3. QED  BY <1>1, <1>2 DEF Sends

SentT == Sent(1) + One(TEnded)
SentV == Sent(3) + One(VEnded)

Streams == /\ nbrT \in Seq(Node(ThisJob) \cup {0}) /\ layerT \in Seq(Nat)
           /\ nbrV \in Seq(Node(ThisJob) \cup {0}) /\ idxV \in Seq(Nat)

(* A step of the feed that sends what it is to send, and revises nothing   *)
(* it has sent, leaves the checks with what they know.                     *)
LEMMA FeedKeeps ==
    ASSUME DInv, UNCHANGED <<jid, tVars, vVars>>,
           \A n \in 1 .. SentT :
             VertexAt'[n] = VertexAt[n] /\ IdxAt'[n] = IdxAt[n],
           Sends(Node(ThisJob) \cup {0}, nbrT, nbrT', VertexAt', SentT, SentT'),
           Sends(Nat, layerT, layerT', LayerAt', Sent(2), Sent(2)'),
           Sends(Node(ThisJob) \cup {0}, nbrV, nbrV', VertexAt', SentV, SentV'),
           Sends(Nat, idxV, idxV', IdxAt', Len(cand), Len(cand')),
           Sent(1) <= Sent(1)', Sent(3) <= Sent(3)',
           TEnded => TEnded' /\ Len(cand') = Len(cand),
           VEnded => VEnded'
    PROVE  Streams' /\ TargetInv' /\ VisitedInv'
<1>1. /\ Len(cand) \in Nat
      /\ Sent(1) \in Nat /\ Sent(2) \in Nat /\ Sent(3) \in Nat
      /\ Len(cand) <= Sent(3) /\ Sent(3) <= Sent(2) /\ Sent(2) <= Sent(1)
      /\ SentT \in Nat /\ SentV \in Nat /\ Sent(1) <= SentT /\ SentV <= SentT
  <2>1. \A w \in 1 .. 3 : Sent(w) \in Nat /\ Len(cand) <= Sent(w)
    BY CandFacts DEF DInv
  <2>2. out \in Nat
    BY DEF DInv, TypeOK
  <2>3. Len(cand) \in Nat
    BY CandFacts DEF DInv
  <2>4. Sent(3) <= Sent(2) /\ Sent(2) <= Sent(1)
    BY <2>2, <2>3 DEF Sent, One
  <2>5. One(TEnded) \in Nat /\ One(VEnded) \in Nat /\ One(VEnded) <= One(TEnded)
    BY DEF TEnded, VEnded, One
  <2>6. QED  BY <2>1, <2>3, <2>4, <2>5 DEF SentT, SentV
<1>2. \A n \in 1 .. SentT : LayerAt'[n] = LayerAt[n]
  BY <1>1 DEF LayerAt, Pos, batch, ThisJob
<1>3. UNCHANGED <<ThisJob, batch, GotT, GotV, tReg, tEnd, target_valid,
                  vReg, vEnd, visited_valid>>
  BY DEF ThisJob, batch, GotT, GotV, tVars, vVars
<1>4. Streams
  BY DEF DInv, TypeOK, Streams
<1>5. nbrT' \in Seq(Node(ThisJob) \cup {0})
      /\ Carries(nbrT', VertexAt', GotT + One(tEnd), SentT')
  <2>1. Carries(nbrT, VertexAt, GotT + One(tEnd), SentT)
    BY DEF DInv, TargetInv, SentT
  <2>2. QED  BY <1>4, <2>1, CarriesSends DEF Streams
<1>6. /\ layerT' \in Seq(Nat)
      /\ Carries(layerT', LayerAt', Len(target_valid), Sent(2)')
  <2>1. Carries(layerT, LayerAt, Len(target_valid), Sent(2))
    BY DEF DInv, TargetInv
  <2>2. \A n \in 1 .. Sent(2) : LayerAt'[n] = LayerAt[n]
    BY <1>1, <1>2
  <2>3. QED  BY <1>4, <2>1, <2>2, CarriesSends DEF Streams
<1>7. nbrV' \in Seq(Node(ThisJob) \cup {0})
      /\ Carries(nbrV', VertexAt', GotV + One(vEnd), SentV')
  <2>1. Carries(nbrV, VertexAt, GotV + One(vEnd), SentV)
    BY DEF DInv, VisitedInv, SentV
  <2>2. \A n \in 1 .. SentV : VertexAt'[n] = VertexAt[n]
    BY <1>1
  <2>3. QED  BY <1>4, <2>1, <2>2, CarriesSends DEF Streams
<1>8. /\ idxV' \in Seq(Nat)
      /\ Carries(idxV', IdxAt', Len(visited_valid), Len(cand'))
  <2>1. Carries(idxV, IdxAt, Len(visited_valid), Len(cand))
    BY DEF DInv, VisitedInv
  <2>2. \A n \in 1 .. Len(cand) : IdxAt'[n] = IdxAt[n]
    BY <1>1
  <2>3. QED  BY <1>4, <2>1, <2>2, CarriesSends DEF Streams
<1>9. /\ Len(target_valid) \in Nat /\ Len(visited_valid) \in Nat
      /\ Len(target_valid) <= GotT /\ GotT <= Sent(1) /\ GotT \in Nat
      /\ Len(visited_valid) <= GotV /\ GotV <= Sent(3) /\ GotV \in Nat
  <2>1. Len(target_valid) \in Nat /\ Len(visited_valid) \in Nat
    BY LenProperties DEF DInv, TypeOK
  <2>2. GotT <= Sent(1) /\ GotV <= Sent(3)
    BY DEF DInv, TargetInv, VisitedInv
  <2>3. QED  BY <2>1, <2>2 DEF GotT, GotV, One
<1>10. TargetInv'
  <2>1. GotT <= Sent(1)'
    <3>1. Sent(1)' \in Int
      BY <1>6, <1>5, LenProperties DEF Sends, SentT, Carries, One, Sent
    <3>2. QED  BY <1>1, <1>9, <3>1
  <2>2. tReg # 0 => tReg = VertexAt'[GotT]
    <3>1. tReg # 0 => GotT \in 1 .. SentT
      BY <1>1, <1>9 DEF GotT, One
    <3>2. QED  BY <3>1 DEF DInv, TargetInv
  <2>3. tEnd => tReg = 0 /\ TEnded' /\ GotT = Len(cand')
    BY DEF DInv, TargetInv
  <2>4. \A n \in 1 .. Len(target_valid) : n \in 1 .. SentT
    BY <1>1, <1>9
  <2>5. \A n \in 1 .. Len(target_valid) :
          target_valid[n] <=> ClosesAt(n)'
    BY <1>2, <1>3, <2>4 DEF DInv, TargetInv, ClosesAt
  <2>6. QED  BY <1>3, <1>5, <1>6, <2>1, <2>2, <2>3, <2>5 DEF TargetInv, SentT
<1>11. VisitedInv'
  <2>1. GotV <= Sent(3)'
    <3>1. Sent(3)' \in Int
      BY <1>7, LenProperties DEF Sends, SentV, Carries, One, Sent
    <3>2. QED  BY <1>1, <1>9, <3>1
  <2>2. vReg # 0 => vReg = VertexAt'[GotV]
    <3>1. vReg # 0 => GotV \in 1 .. SentT
      BY <1>1, <1>9 DEF GotV, One
    <3>2. QED  BY <3>1 DEF DInv, VisitedInv
  <2>3. vEnd => vReg = 0 /\ VEnded' /\ GotV = Len(cand')
    BY DEF DInv, VisitedInv, VEnded, TEnded
  <2>4. \A n \in 1 .. Len(visited_valid) : n \in 1 .. SentT
    BY <1>1, <1>9
  <2>5. \A n \in 1 .. Len(visited_valid) :
          visited_valid[n] <=> FreshAt(n)'
    BY <1>3, <2>4 DEF DInv, VisitedInv, FreshAt
  <2>6. QED  BY <1>3, <1>7, <1>8, <2>1, <2>2, <2>3, <2>5 DEF VisitedInv, SentV
<1>12. QED  BY <1>3, <1>5, <1>6, <1>7, <1>8, <1>10, <1>11 DEF Streams

-----------------------------------------------------------------------------
LEMMA DInit == Init => DInv
<1> SUFFICES ASSUME Init PROVE DInv
  OBVIOUS
<1>1. \A S : << >> \in Seq(S) /\ Len(<< >>) = 0
  BY EmptySeq
<1>2. jid \in JobId /\ Len(batch) \in Nat
  BY BatchFacts DEF Init
<1>3. Feeding
  BY <1>1, MaxOutAssumption DEF Init, Feeding
<1>a. /\ << >> \in Seq(Node(ThisJob) \cup {0}) /\ << >> \in Seq(Nat)
      /\ << >> \in Seq([idx : 1 .. Len(batch), nbr : Node(ThisJob)])
      /\ << >> \in Seq(BOOLEAN)
  BY <1>1
<1>b. FALSE \in BOOLEAN
  OBVIOUS
<1>4. TypeOK
  <2>1. /\ fpc = "paths" /\ taken = 0 /\ edge = 0 /\ out = 0
        /\ nbrT = << >> /\ layerT = << >> /\ nbrV = << >> /\ idxV = << >>
        /\ cand = << >> /\ target_valid = << >> /\ visited_valid = << >>
        /\ tReg = 0 /\ vReg = 0
    BY DEF Init
  <2>2. 0 \in 0 .. Len(batch) /\ 0 \in Nat /\ 0 \in 0 .. 3
    BY <1>2
  <2>3. tEnd \in BOOLEAN /\ vEnd \in BOOLEAN
    BY <1>b DEF Init
  <2>4. QED  BY <1>2, <1>a, <2>1, <2>2, <2>3 DEF TypeOK
<1>5. TargetInv
  BY <1>1 DEF Init, TargetInv, Carries, GotT, Sent, TEnded, One
<1>c. GotV = 0 /\ One(vEnd) = 0 /\ Sent(3) = 0 /\ One(VEnded) = 0
  BY <1>1 DEF Init, GotV, Sent, VEnded, One
<1>6. VisitedInv
  BY <1>1, <1>c DEF Init, VisitedInv, Carries
<1>7. QED  BY <1>3, <1>4, <1>5, <1>6 DEF DInv

(* The feed. Between two paths, or two edges, nothing is half sent.        *)

LEMMA DFeedPath == DInv /\ FeedPath => DInv'
<1> SUFFICES ASSUME DInv, FeedPath PROVE DInv'
  OBVIOUS
<1>1. /\ fpc = "paths" /\ Fits /\ fpc' = "edges" /\ edge' = 0
      /\ UNCHANGED <<jid, taken, cand, out, nbrT, layerT, nbrV, idxV,
                     tVars, vVars>>
  BY DEF FeedPath
<1>2. out = 0 /\ Len(cand) \in Nat /\ Len(batch) \in Nat /\ taken \in Nat
      /\ taken < Len(batch)
  BY <1>1, BatchFacts, CandFacts DEF DInv, Feeding, InEdges, TypeOK, Fits
<1>3. batch' = batch /\ \A p : Adj(p)' = Adj(p)
  BY <1>1 DEF batch, Adj, ThisJob
<1>4. Feeding'
  <2>1. taken + 1 \in 1 .. Len(batch)
    BY <1>2
  <2>2. Len(Adj(batch[taken + 1])) \in Nat
    BY <2>1, BatchFacts DEF DInv, TypeOK
  <2>3. Len(cand) + Len(Adj(batch[taken + 1])) < MaxOut
    BY <1>1 DEF Fits
  <2>4. QED
    BY <1>1, <1>2, <1>3, <2>2, <2>3, MaxOutAssumption DEF DInv, Feeding
<1>5. SentT = Len(cand) /\ \A n \in 1 .. SentT : n \in Pos /\ n <= Len(cand)
  BY <1>1, <1>2 DEF SentT, Sent, TEnded, One, Pos
<1>6. \A n \in 1 .. SentT : VertexAt'[n] = VertexAt[n] /\ IdxAt'[n] = IdxAt[n]
  BY <1>1, <1>5 DEF VertexAt, IdxAt
<1>7. /\ UNCHANGED <<Sent(1), Sent(2), Sent(3), SentT, SentV>>
      /\ ~ TEnded /\ ~ VEnded
  BY <1>1 DEF Sent, SentT, SentV, TEnded, VEnded, One
<1>8. Sent(1) <= Sent(1) /\ Sent(3) <= Sent(3)
  BY CandFacts DEF DInv
<1>9. Streams' /\ TargetInv' /\ VisitedInv'
  BY <1>1, <1>6, <1>7, <1>8, FeedKeeps DEF Sends
<1>10. QED
  BY <1>1, <1>3, <1>4, <1>9 DEF DInv, TypeOK, Streams, ThisJob, tVars, vVars

LEMMA DSkipNbr == DInv /\ SkipNbr => DInv'
<1> SUFFICES ASSUME DInv, SkipNbr PROVE DInv'
  OBVIOUS
<1>1. /\ InEdges /\ ~ Admits(ThisJob, batch[taken + 1], ThisNbr)
      /\ fpc = "edges" /\ edge' = edge + 1
      /\ UNCHANGED <<jid, fpc, taken, cand, out, nbrT, layerT, nbrV, idxV,
                     tVars, vVars>>
  BY DEF SkipNbr, InEdges
<1>2. out = 0 /\ Len(cand) \in Nat
  BY <1>1, CandFacts DEF DInv, Feeding
<1>3. batch' = batch /\ \A p : Adj(p)' = Adj(p)
  BY <1>1 DEF batch, Adj, ThisJob
<1>4. /\ edge \in Nat /\ edge + 1 <= Len(Adj(batch[taken + 1]))
      /\ Len(Adj(batch[taken + 1])) \in Nat
  BY <1>1, NbrFacts DEF DInv
<1>a. Len(cand) + Len(Adj(batch[taken + 1])) - edge < MaxOut
  BY <1>1 DEF DInv, Feeding
<1>b. Len(cand) + Len(Adj(batch[taken + 1])) - (edge + 1) < MaxOut
  BY <1>2, <1>4, <1>a, MaxOutAssumption
<1>c. Feeding'
  BY <1>1, <1>2, <1>3, <1>4, <1>b DEF DInv, Feeding
<1>5. SentT = Len(cand) /\ \A n \in 1 .. SentT : n \in Pos /\ n <= Len(cand)
  BY <1>1, <1>2 DEF SentT, Sent, TEnded, One, Pos
<1>6. \A n \in 1 .. SentT : VertexAt'[n] = VertexAt[n] /\ IdxAt'[n] = IdxAt[n]
  BY <1>1, <1>5 DEF VertexAt, IdxAt
<1>7. /\ UNCHANGED <<Sent(1), Sent(2), Sent(3), SentT, SentV>>
      /\ ~ TEnded /\ ~ VEnded
  BY <1>1 DEF Sent, SentT, SentV, TEnded, VEnded, One
<1>8. Sent(1) <= Sent(1) /\ Sent(3) <= Sent(3)
  BY CandFacts DEF DInv
<1>9. Streams' /\ TargetInv' /\ VisitedInv'
  BY <1>1, <1>6, <1>7, <1>8, FeedKeeps DEF Sends
<1>10. QED
  BY <1>1, <1>3, <1>4, <1>c, <1>9
     DEF DInv, TypeOK, Streams, ThisJob, tVars, vVars

LEMMA DFeedPathEnd == DInv /\ FeedPathEnd => DInv'
<1> SUFFICES ASSUME DInv, FeedPathEnd PROVE DInv'
  OBVIOUS
<1>1. /\ fpc = "edges" /\ edge = Len(Adj(batch[taken + 1]))
      /\ fpc' = "paths" /\ taken' = taken + 1
      /\ UNCHANGED <<jid, edge, cand, out, nbrT, layerT, nbrV, idxV,
                     tVars, vVars>>
  BY DEF FeedPathEnd, TakenNext
<1>2. /\ out = 0 /\ Len(cand) \in Nat /\ Len(batch) \in Nat
      /\ taken \in Nat /\ taken < Len(batch)
  <2>1. Len(cand) \in Nat /\ Len(batch) \in Nat /\ taken \in Nat
        /\ taken < Len(batch)
    BY <1>1, BatchFacts, CandFacts DEF DInv, Feeding, TypeOK
  <2>2. edge \in Nat
    BY DEF DInv, TypeOK
  <2>3. ~ InEdges
    BY <1>1, <2>2 DEF InEdges
  <2>4. QED  BY <2>1, <2>3 DEF DInv, Feeding
<1>3. batch' = batch
  BY <1>1 DEF batch, ThisJob
<1>4. Feeding'
  BY <1>1, <1>2 DEF DInv, Feeding
<1>5. SentT = Len(cand) /\ \A n \in 1 .. SentT : n \in Pos /\ n <= Len(cand)
  BY <1>1, <1>2 DEF SentT, Sent, TEnded, One, Pos
<1>6. \A n \in 1 .. SentT : VertexAt'[n] = VertexAt[n] /\ IdxAt'[n] = IdxAt[n]
  BY <1>1, <1>5 DEF VertexAt, IdxAt
<1>7. /\ UNCHANGED <<Sent(1), Sent(2), Sent(3), SentT, SentV>>
      /\ ~ TEnded /\ ~ VEnded
  BY <1>1 DEF Sent, SentT, SentV, TEnded, VEnded, One
<1>8. Sent(1) <= Sent(1) /\ Sent(3) <= Sent(3)
  BY CandFacts DEF DInv
<1>9. Streams' /\ TargetInv' /\ VisitedInv'
  BY <1>1, <1>6, <1>7, <1>8, FeedKeeps DEF Sends
<1>10. taken' \in 0 .. Len(batch)
  BY <1>1, <1>2
<1>11. QED
  BY <1>1, <1>3, <1>4, <1>9, <1>10
     DEF DInv, TypeOK, Streams, ThisJob, tVars, vVars

(* The four writes for a candidate: what is in the making stays the same.  *)
LEMMA WriteFacts ==
    ASSUME DInv, InEdges, UNCHANGED <<jid, fpc, taken, edge, cand>>
    PROVE  /\ VertexAt' = VertexAt /\ IdxAt' = IdxAt /\ LayerAt' = LayerAt
           /\ batch' = batch /\ ThisJob' = ThisJob /\ ThisNbr' = ThisNbr
           /\ Adj(batch[taken + 1])' = Adj(batch[taken + 1])
           /\ InEdges' /\ fpc = "edges" /\ fpc' = "edges"
           /\ SentT = Sent(1) /\ SentV = Sent(3)
           /\ SentT' = Sent(1)' /\ SentV' = Sent(3)'
           /\ ~ TEnded /\ ~ VEnded
           /\ Len(cand) \in Nat /\ Len(cand) + 1 \in Pos
           /\ VertexAt[Len(cand) + 1] = ThisNbr
           /\ IdxAt[Len(cand) + 1] = taken + 1
           /\ LayerAt[Len(cand) + 1] = Layer(batch[taken + 1])
           /\ ThisNbr \in Node(ThisJob) \cup {0} /\ taken + 1 \in Nat
           /\ Layer(batch[taken + 1]) \in Nat
<1>1. fpc = "edges" /\ fpc' = "edges"
  BY DEF InEdges
<1>2. batch' = batch /\ ThisJob' = ThisJob /\ \A p : Adj(p)' = Adj(p)
  BY DEF batch, ThisJob, Adj
<1>3. ThisNbr' = ThisNbr /\ InEdges'
      /\ Adj(batch[taken + 1])' = Adj(batch[taken + 1])
  BY <1>2 DEF ThisNbr, InEdges
<1>4. VertexAt' = VertexAt /\ IdxAt' = IdxAt
  BY <1>3 DEF VertexAt, IdxAt
<1>5. LayerAt' = LayerAt
  BY <1>2, <1>4 DEF LayerAt
<1>6. Len(cand) \in Nat
  BY CandFacts DEF DInv
<1>7. /\ ~ TEnded /\ ~ VEnded
      /\ SentT = Sent(1) /\ SentV = Sent(3)
      /\ SentT' = Sent(1)' /\ SentV' = Sent(3)'
  <2>1. ~ TEnded /\ ~ VEnded /\ ~ TEnded' /\ ~ VEnded'
    BY <1>1 DEF TEnded, VEnded
  <2>2. /\ Sent(1) \in Int /\ Sent(3) \in Int
        /\ Sent(1)' \in Int /\ Sent(3)' \in Int
    BY <1>6 DEF Sent, One
  <2>3. QED  BY <2>1, <2>2 DEF SentT, SentV, One
<1>8. /\ Len(cand) + 1 \in Pos
      /\ VertexAt[Len(cand) + 1] = ThisNbr
      /\ IdxAt[Len(cand) + 1] = taken + 1
  BY <1>1, <1>6 DEF VertexAt, IdxAt, Pos
<1>9. LayerAt[Len(cand) + 1] = Layer(batch[taken + 1])
  BY <1>8 DEF LayerAt
<1>10. /\ ThisNbr \in Node(ThisJob) \cup {0} /\ taken + 1 \in Nat
       /\ Layer(batch[taken + 1]) \in Nat
  BY NbrFacts DEF DInv
<1>11. QED  BY <1>1, <1>2, <1>3, <1>4, <1>5, <1>6, <1>7, <1>8, <1>9, <1>10

LEMMA DWriteNbrT == DInv /\ WriteNbrT => DInv'
<1> SUFFICES ASSUME DInv, WriteNbrT PROVE DInv'
  OBVIOUS
<1>1. /\ InEdges /\ out = 0 /\ out' = 1
      /\ nbrT' = Append(nbrT, ThisNbr)
      /\ UNCHANGED <<jid, fpc, taken, edge, cand, layerT, nbrV, idxV,
                     tVars, vVars>>
  BY DEF WriteNbrT
<1>2. Admits(ThisJob, batch[taken + 1], ThisNbr)
  BY <1>1 DEF DInv, Feeding, WriteNbrT
<1>3. Feeding'
  BY <1>1, <1>2, WriteFacts DEF DInv, Feeding
<1>4. /\ Sent(1) = Len(cand) /\ Sent(1)' = Len(cand) + 1
      /\ Sent(2)' = Sent(2) /\ Sent(3)' = Sent(3)
  BY <1>1, WriteFacts DEF Sent, One
<1>5. Sent(1) \in Nat /\ Sent(3) \in Nat
  BY CandFacts DEF DInv
<1>6. Sent(1) <= Sent(1)' /\ Sent(3) <= Sent(3)'
  BY <1>1, <1>4, <1>5, WriteFacts
<1>7. Streams' /\ TargetInv' /\ VisitedInv'
  BY <1>1, <1>4, <1>6, WriteFacts, FeedKeeps DEF Sends
<1>8. out' \in 0 .. 3
  BY <1>1
<1>9. QED
  BY <1>1, <1>3, <1>7, <1>8, WriteFacts
     DEF DInv, TypeOK, Streams, tVars, vVars

LEMMA DWriteLayerT == DInv /\ WriteLayerT => DInv'
<1> SUFFICES ASSUME DInv, WriteLayerT PROVE DInv'
  OBVIOUS
<1>1. /\ InEdges /\ out = 1 /\ out' = 2
      /\ layerT' = Append(layerT, Layer(batch[taken + 1]))
      /\ UNCHANGED <<jid, fpc, taken, edge, cand, nbrT, nbrV, idxV,
                     tVars, vVars>>
  BY DEF WriteLayerT
<1>2. Admits(ThisJob, batch[taken + 1], ThisNbr)
  BY <1>1 DEF DInv, Feeding, WriteLayerT
<1>3. Feeding'
  BY <1>1, <1>2, WriteFacts DEF DInv, Feeding
<1>4. /\ Sent(2) = Len(cand) /\ Sent(2)' = Len(cand) + 1
      /\ Sent(1)' = Sent(1) /\ Sent(3)' = Sent(3)
  BY <1>1, WriteFacts DEF Sent, One
<1>5. Sent(1) \in Nat /\ Sent(3) \in Nat
  BY CandFacts DEF DInv
<1>6. Sent(1) <= Sent(1)' /\ Sent(3) <= Sent(3)'
  BY <1>1, <1>4, <1>5, WriteFacts
<1>7. Streams' /\ TargetInv' /\ VisitedInv'
  BY <1>1, <1>4, <1>6, WriteFacts, FeedKeeps DEF Sends
<1>8. out' \in 0 .. 3
  BY <1>1
<1>9. QED
  BY <1>1, <1>3, <1>7, <1>8, WriteFacts
     DEF DInv, TypeOK, Streams, tVars, vVars

LEMMA DWriteNbrV == DInv /\ WriteNbrV => DInv'
<1> SUFFICES ASSUME DInv, WriteNbrV PROVE DInv'
  OBVIOUS
<1>1. /\ InEdges /\ out = 2 /\ out' = 3
      /\ nbrV' = Append(nbrV, ThisNbr)
      /\ UNCHANGED <<jid, fpc, taken, edge, cand, nbrT, layerT, idxV,
                     tVars, vVars>>
  BY DEF WriteNbrV
<1>2. Admits(ThisJob, batch[taken + 1], ThisNbr)
  BY <1>1 DEF DInv, Feeding, WriteNbrV
<1>3. Feeding'
  BY <1>1, <1>2, WriteFacts DEF DInv, Feeding
<1>4. /\ Sent(3) = Len(cand) /\ Sent(3)' = Len(cand) + 1
      /\ Sent(1)' = Sent(1) /\ Sent(2)' = Sent(2)
  BY <1>1, WriteFacts DEF Sent, One
<1>5. Sent(1) \in Nat /\ Sent(3) \in Nat
  BY CandFacts DEF DInv
<1>6. Sent(1) <= Sent(1)' /\ Sent(3) <= Sent(3)'
  BY <1>1, <1>4, <1>5, WriteFacts
<1>7. Streams' /\ TargetInv' /\ VisitedInv'
  BY <1>1, <1>4, <1>6, WriteFacts, FeedKeeps DEF Sends
<1>8. out' \in 0 .. 3
  BY <1>1
<1>9. QED
  BY <1>1, <1>3, <1>7, <1>8, WriteFacts
     DEF DInv, TypeOK, Streams, tVars, vVars

(* The last of them stores the candidate, which is no longer in the making. *)
LEMMA DWriteIdxV == DInv /\ WriteIdxV => DInv'
<1> SUFFICES ASSUME DInv, WriteIdxV PROVE DInv'
  OBVIOUS
<1> DEFINE c == [idx |-> taken + 1, nbr |-> ThisNbr]
<1>1. /\ InEdges /\ out = 3 /\ out' = 0 /\ edge' = edge + 1
      /\ fpc = "edges" /\ fpc' = "edges"
      /\ idxV' = Append(idxV, taken + 1) /\ cand' = Append(cand, c)
      /\ UNCHANGED <<jid, fpc, taken, nbrT, layerT, nbrV, tVars, vVars>>
  BY DEF WriteIdxV, PathIdx, InEdges
<1>2. /\ taken + 1 \in 1 .. Len(batch) /\ taken + 1 \in Nat
      /\ ThisNbr \in Node(ThisJob) \ {0}
      /\ edge \in Nat /\ edge + 1 <= Len(Adj(batch[taken + 1]))
      /\ Len(Adj(batch[taken + 1])) \in Nat
  BY <1>1, NbrFacts DEF DInv
<1>3. batch' = batch /\ ThisJob' = ThisJob /\ \A p : Adj(p)' = Adj(p)
  BY <1>1 DEF batch, Adj, ThisJob
<1>4. /\ cand' \in Seq([idx : 1 .. Len(batch), nbr : Node(ThisJob)])
      /\ Len(cand') = Len(cand) + 1 /\ Len(cand) \in Nat
      /\ \A n \in 1 .. Len(cand) : cand'[n] = cand[n]
      /\ cand'[Len(cand) + 1] = c
  <2>1. c \in [idx : 1 .. Len(batch), nbr : Node(ThisJob)]
    BY <1>2
  <2>2. cand \in Seq([idx : 1 .. Len(batch), nbr : Node(ThisJob)])
    BY DEF DInv, TypeOK
  <2> HIDE DEF c
  <2>3. QED  BY <1>1, <2>1, <2>2, PushFacts
<1>5. c.idx = taken + 1 /\ c.nbr = ThisNbr
  OBVIOUS
<1> HIDE DEF c
<1>6. Feeding'
  <2>1. Len(cand) + Len(Adj(batch[taken + 1])) - edge < MaxOut
    BY <1>1 DEF DInv, Feeding
  <2>2. /\ Len(cand) + 1 + Len(Adj(batch[taken + 1])) - (edge + 1) < MaxOut
        /\ Len(cand) + 1 < MaxOut
    BY <1>2, <1>4, <2>1, MaxOutAssumption
  <2>3. \A n \in 1 .. Len(cand) + 1 : cand'[n].nbr # 0
    <3>1. \A n \in 1 .. Len(cand) + 1 :
            n \in 1 .. Len(cand) \/ n = Len(cand) + 1
      BY <1>4
    <3>2. QED  BY <1>2, <1>4, <1>5, <3>1 DEF DInv, Feeding
  <2>4. taken < Len(batch)
    BY <1>1 DEF DInv, Feeding
  <2>5. QED  BY <1>1, <1>2, <1>3, <1>4, <2>2, <2>3, <2>4 DEF Feeding
<1>7. /\ Sent(1) = Len(cand) + 1 /\ Sent(2) = Len(cand) + 1
      /\ Sent(3) = Len(cand) + 1
      /\ Sent(1)' = Len(cand) + 1 /\ Sent(2)' = Len(cand) + 1
      /\ Sent(3)' = Len(cand) + 1
  BY <1>1, <1>4 DEF Sent, One
<1>8. /\ ~ TEnded /\ ~ VEnded
      /\ SentT = Len(cand) + 1 /\ SentV = Len(cand) + 1
      /\ SentT' = Len(cand) + 1 /\ SentV' = Len(cand) + 1
  <2>1. ~ TEnded /\ ~ VEnded /\ ~ TEnded' /\ ~ VEnded'
    BY <1>1 DEF TEnded, VEnded
  <2>2. QED  BY <1>4, <1>7, <2>1 DEF SentT, SentV, One
<1>9. \A n \in 1 .. Len(cand) + 1 :
        VertexAt'[n] = VertexAt[n] /\ IdxAt'[n] = IdxAt[n]
  <2> SUFFICES ASSUME NEW n \in 1 .. Len(cand) + 1
               PROVE  VertexAt'[n] = VertexAt[n] /\ IdxAt'[n] = IdxAt[n]
    OBVIOUS
  <2>1. n \in Pos /\ n <= Len(cand') /\ n <= Len(cand) + 1
    BY <1>4 DEF Pos
  <2>2. VertexAt'[n] = cand'[n].nbr /\ IdxAt'[n] = cand'[n].idx
    BY <2>1 DEF VertexAt, IdxAt
  <2>3. CASE n <= Len(cand)
    BY <1>4, <2>1, <2>2, <2>3 DEF VertexAt, IdxAt
  <2>4. CASE n = Len(cand) + 1
    <3>1. VertexAt[n] = ThisNbr /\ IdxAt[n] = taken + 1
      BY <1>1, <1>4, <2>1, <2>4 DEF VertexAt, IdxAt
    <3>2. QED  BY <1>4, <1>5, <2>2, <2>4, <3>1
  <2>5. QED  BY <1>4, <2>1, <2>3, <2>4
<1>10. IdxAt'[Len(cand) + 1] = taken + 1
  <2>1. Len(cand) + 1 \in 1 .. Len(cand) + 1 /\ Len(cand) + 1 \in Pos
        /\ ~ (Len(cand) + 1 <= Len(cand))
    BY <1>4 DEF Pos
  <2>2. IdxAt[Len(cand) + 1] = taken + 1
    BY <2>1 DEF IdxAt
  <2>3. QED  BY <1>9, <2>1, <2>2
<1>11. Len(cand) + 1 <= Len(cand) + 1
  BY <1>4
<1>12. Streams' /\ TargetInv' /\ VisitedInv'
  BY <1>1, <1>2, <1>4, <1>7, <1>8, <1>9, <1>10, <1>11, FeedKeeps DEF Sends
<1>13. out' \in 0 .. 3 /\ edge' \in Nat
  BY <1>1, <1>2
<1>14. QED
  BY <1>1, <1>3, <1>4, <1>6, <1>12, <1>13
     DEF DInv, TypeOK, Streams, tVars, vVars

(* The terminators: a vertex stream ends behind its last candidate.        *)
LEMMA EndFacts ==
    ASSUME DInv, ~ InEdges, UNCHANGED <<jid, taken, cand, out>>,
           fpc' # "edges"
    PROVE  /\ out = 0 /\ Len(cand) \in Nat
           /\ batch' = batch /\ ThisJob' = ThisJob
           /\ \A w \in 1 .. 3 : Sent(w) = Len(cand) /\ Sent(w)' = Len(cand)
           /\ \A n \in 1 .. Len(cand) :
                VertexAt'[n] = VertexAt[n] /\ IdxAt'[n] = IdxAt[n]
           /\ VertexAt'[Len(cand) + 1] = 0
           /\ fpc # "edges" => VertexAt[Len(cand) + 1] = 0
           /\ IdxAt' = IdxAt
<1>1. out = 0 /\ Len(cand) \in Nat
  BY CandFacts DEF DInv, Feeding
<1>2. batch' = batch /\ ThisJob' = ThisJob
  BY DEF batch, ThisJob
<1>3. \A w \in 1 .. 3 : Sent(w) = Len(cand) /\ Sent(w)' = Len(cand)
  BY <1>1 DEF Sent, One
<1>4. IdxAt' = IdxAt
  BY DEF IdxAt
<1>5. \A n \in 1 .. Len(cand) : VertexAt'[n] = VertexAt[n]
  BY <1>1 DEF VertexAt, Pos
<1>6. /\ VertexAt'[Len(cand) + 1] = 0
      /\ fpc # "edges" => VertexAt[Len(cand) + 1] = 0
  BY <1>1 DEF VertexAt, Pos
<1>7. QED  BY <1>1, <1>2, <1>3, <1>4, <1>5, <1>6

LEMMA DEndNbrT == DInv /\ EndNbrT => DInv'
<1> SUFFICES ASSUME DInv, EndNbrT PROVE DInv'
  OBVIOUS
<1>1. /\ fpc = "paths" /\ fpc' = "endV" /\ nbrT' = Append(nbrT, 0)
      /\ UNCHANGED <<jid, taken, edge, cand, out, layerT, nbrV, idxV,
                     tVars, vVars>>
  BY DEF EndNbrT
<1>2. ~ InEdges /\ fpc' # "edges"
  BY <1>1 DEF InEdges
<1>3. /\ out = 0 /\ Len(cand) \in Nat
      /\ batch' = batch /\ ThisJob' = ThisJob
      /\ Sent(1) = Len(cand) /\ Sent(2) = Len(cand) /\ Sent(3) = Len(cand)
      /\ Sent(1)' = Len(cand) /\ Sent(2)' = Len(cand) /\ Sent(3)' = Len(cand)
      /\ \A n \in 1 .. Len(cand) :
           VertexAt'[n] = VertexAt[n] /\ IdxAt'[n] = IdxAt[n]
      /\ VertexAt'[Len(cand) + 1] = 0
  BY <1>1, <1>2, EndFacts
<1>4. Feeding'
  BY <1>1, <1>3 DEF DInv, Feeding
<1>5. /\ ~ TEnded /\ TEnded' /\ ~ VEnded
      /\ SentT = Len(cand) /\ SentT' = Len(cand) + 1
      /\ SentV = Len(cand) /\ SentV' = Len(cand)
  <2>1. ~ TEnded /\ TEnded' /\ ~ VEnded /\ ~ VEnded'
    BY <1>1 DEF TEnded, VEnded
  <2>2. QED  BY <1>3, <2>1 DEF SentT, SentV, One
<1>6. Len(cand) <= Len(cand) /\ 0 \in Node(ThisJob) \cup {0}
  BY <1>3
<1>7. Streams' /\ TargetInv' /\ VisitedInv'
  BY <1>1, <1>3, <1>5, <1>6, FeedKeeps DEF Sends
<1>8. QED
  BY <1>1, <1>3, <1>4, <1>7 DEF DInv, TypeOK, Streams, tVars, vVars

LEMMA DEndNbrV == DInv /\ EndNbrV => DInv'
<1> SUFFICES ASSUME DInv, EndNbrV PROVE DInv'
  OBVIOUS
<1>1. /\ fpc = "endV" /\ fpc' = "done" /\ nbrV' = Append(nbrV, 0)
      /\ UNCHANGED <<jid, taken, edge, cand, out, nbrT, layerT, idxV,
                     tVars, vVars>>
  BY DEF EndNbrV, Ended
<1>2. ~ InEdges /\ fpc' # "edges" /\ fpc # "edges"
  BY <1>1 DEF InEdges
<1>3. /\ out = 0 /\ Len(cand) \in Nat
      /\ batch' = batch /\ ThisJob' = ThisJob
      /\ Sent(1) = Len(cand) /\ Sent(2) = Len(cand) /\ Sent(3) = Len(cand)
      /\ Sent(1)' = Len(cand) /\ Sent(2)' = Len(cand) /\ Sent(3)' = Len(cand)
      /\ \A n \in 1 .. Len(cand) :
           VertexAt'[n] = VertexAt[n] /\ IdxAt'[n] = IdxAt[n]
      /\ VertexAt'[Len(cand) + 1] = 0 /\ VertexAt[Len(cand) + 1] = 0
      /\ IdxAt' = IdxAt
  BY <1>1, <1>2, EndFacts
<1>4. Feeding'
  BY <1>1, <1>3 DEF DInv, Feeding
<1>5. /\ TEnded /\ TEnded' /\ ~ VEnded
      /\ SentT = Len(cand) + 1 /\ SentT' = Len(cand) + 1
      /\ SentV = Len(cand) /\ SentV' = Len(cand) + 1
  <2>1. TEnded /\ TEnded' /\ ~ VEnded /\ VEnded'
    BY <1>1 DEF TEnded, VEnded
  <2>2. QED  BY <1>3, <2>1 DEF SentT, SentV, One
<1>6. Len(cand) <= Len(cand) /\ 0 \in Node(ThisJob) \cup {0}
  BY <1>3
<1>7. \A n \in 1 .. SentT : VertexAt'[n] = VertexAt[n] /\ IdxAt'[n] = IdxAt[n]
  <2>1. \A n \in 1 .. SentT : n \in 1 .. Len(cand) \/ n = Len(cand) + 1
    BY <1>3, <1>5
  <2>2. QED  BY <1>3, <2>1
<1>8. Streams' /\ TargetInv' /\ VisitedInv'
  BY <1>1, <1>3, <1>5, <1>6, <1>7, FeedKeeps DEF Sends
<1>9. QED
  BY <1>1, <1>3, <1>4, <1>8 DEF DInv, TypeOK, Streams, tVars, vVars

-----------------------------------------------------------------------------
(* The checks.  What they do not write stays what it is.                   *)
LEMMA CheckFacts ==
    ASSUME DInv, UNCHANGED <<jid, feedVars>>
    PROVE  /\ UNCHANGED <<VertexAt, IdxAt, LayerAt, TEnded, VEnded>>
           /\ \A w : Sent(w)' = Sent(w)
           /\ \A n : ClosesAt(n)' = ClosesAt(n) /\ FreshAt(n)' = FreshAt(n)
           /\ batch' = batch /\ ThisJob' = ThisJob /\ Feeding'
<1>1. UNCHANGED <<jid, fpc, taken, edge, cand, out>>
  BY DEF feedVars
<1>2. batch' = batch /\ ThisJob' = ThisJob /\ \A p : Adj(p)' = Adj(p)
  BY <1>1 DEF batch, ThisJob, Adj
<1>3. ThisNbr' = ThisNbr /\ InEdges' = InEdges
  BY <1>1, <1>2 DEF ThisNbr, InEdges
<1>4. UNCHANGED <<VertexAt, IdxAt, TEnded, VEnded>>
  BY <1>1, <1>3 DEF VertexAt, IdxAt, TEnded, VEnded
<1>5. LayerAt' = LayerAt
  BY <1>2, <1>4 DEF LayerAt
<1>6. \A w : Sent(w)' = Sent(w)
  BY <1>1 DEF Sent
<1>7. Feeding'
  BY <1>1, <1>2, <1>3 DEF DInv, Feeding
<1>8. \A n : ClosesAt(n)' = ClosesAt(n) /\ FreshAt(n)' = FreshAt(n)
  BY <1>2, <1>4, <1>5 DEF ClosesAt, FreshAt
<1>9. QED  BY <1>2, <1>4, <1>5, <1>6, <1>7, <1>8

(* A vertex that is not 0 is that of a candidate.                          *)
LEMMA VertexFacts ==
    ASSUME DInv, NEW n \in Pos
    PROVE  /\ n <= Len(cand) => VertexAt[n] \in Node(ThisJob) \ {0}
           /\ n > Len(cand) /\ InEdges => VertexAt[n] \in Node(ThisJob) \ {0}
           /\ n > Len(cand) /\ fpc # "edges" => VertexAt[n] = 0
<1>1. Len(cand) \in Nat /\ n \in Nat /\ n >= 1
  BY CandFacts DEF DInv, Pos
<1>2. n <= Len(cand) => VertexAt[n] \in Node(ThisJob) \ {0}
  <2> SUFFICES ASSUME n <= Len(cand) PROVE VertexAt[n] \in Node(ThisJob) \ {0}
    OBVIOUS
  <2>1. n \in 1 .. Len(cand)
    BY <1>1
  <2>2. QED  BY <2>1, CandFacts DEF DInv, VertexAt
<1>3. ASSUME n > Len(cand), InEdges PROVE VertexAt[n] \in Node(ThisJob) \ {0}
  BY <1>1, <1>3, NbrFacts DEF DInv, VertexAt, InEdges
<1>4. ASSUME n > Len(cand), fpc # "edges" PROVE VertexAt[n] = 0
  BY <1>1, <1>4 DEF VertexAt
<1>5. QED  BY <1>2, <1>3, <1>4

LEMMA DReadNbrT == DInv /\ ReadNbrT => DInv'
<1> SUFFICES ASSUME DInv, ReadNbrT PROVE DInv'
  OBVIOUS
<1>1. /\ ~ tEnd /\ tReg = 0 /\ nbrT # << >> /\ nbrT' = Tail(nbrT)
      /\ IF Head(nbrT) = 0 THEN tEnd' = TRUE /\ tReg' = tReg
                           ELSE tReg' = Head(nbrT) /\ tEnd' = tEnd
      /\ UNCHANGED <<jid, feedVars, layerT, nbrV, idxV, target_valid, vVars>>
  BY DEF ReadNbrT
<1>2. nbrT \in Seq(Node(ThisJob) \cup {0}) /\ Len(target_valid) \in Nat
  BY LenProperties DEF DInv, TypeOK
<1>3. GotT = Len(target_valid) /\ GotT \in Nat
  BY <1>1, <1>2 DEF GotT, One
<1>4. Carries(nbrT, VertexAt, GotT, SentT)
  BY <1>1, <1>3 DEF DInv, TargetInv, SentT, One
<1>5. /\ nbrT' \in Seq(Node(ThisJob) \cup {0})
      /\ Head(nbrT) \in Node(ThisJob) \cup {0}
  BY <1>1, <1>2, PopFacts
<1>6. /\ Head(nbrT) = VertexAt[GotT + 1] /\ GotT < SentT
      /\ Carries(Tail(nbrT), VertexAt, GotT + 1, SentT)
  BY <1>1, <1>2, <1>4, CarriesPop
<1>7. /\ Len(cand) \in Nat /\ Sent(1) \in Nat /\ Len(cand) <= Sent(1)
      /\ GotT <= Sent(1) /\ GotT + 1 \in Pos
      /\ Sent(1) # Len(cand) => InEdges /\ Sent(1) = Len(cand) + 1
      /\ SentT = IF TEnded THEN Sent(1) + 1 ELSE Sent(1)
      /\ TEnded => fpc # "edges" /\ ~ InEdges
  <2>1. Len(cand) \in Nat /\ Sent(1) \in Nat /\ Len(cand) <= Sent(1)
    BY CandFacts DEF DInv
  <2>2. GotT <= Sent(1) /\ GotT + 1 \in Pos
    BY <1>3 DEF DInv, TargetInv, Pos
  <2>3. Sent(1) # Len(cand) => InEdges /\ Sent(1) = Len(cand) + 1
    BY <2>1 DEF Sent, One, DInv, Feeding, TypeOK
  <2>4. TEnded => fpc # "edges" /\ ~ InEdges
    BY DEF TEnded, InEdges
  <2>5. SentT = IF TEnded THEN Sent(1) + 1 ELSE Sent(1)
    BY <2>1 DEF SentT, One
  <2>6. QED  BY <2>1, <2>2, <2>3, <2>4, <2>5
<1>8. /\ VertexAt' = VertexAt /\ IdxAt' = IdxAt /\ LayerAt' = LayerAt
      /\ TEnded' = TEnded /\ VEnded' = VEnded
      /\ \A w : Sent(w)' = Sent(w)
      /\ \A n : ClosesAt(n)' = ClosesAt(n) /\ FreshAt(n)' = FreshAt(n)
      /\ batch' = batch /\ ThisJob' = ThisJob /\ Feeding' /\ cand' = cand
  BY <1>1, CheckFacts DEF feedVars
<1>9. SentT' = SentT
  BY <1>8 DEF SentT
<1>10. Carries(layerT, LayerAt, Len(target_valid), Sent(2))
  BY DEF DInv, TargetInv
<1>11. \A n \in 1 .. Len(target_valid) : target_valid[n] <=> ClosesAt(n)
  BY DEF DInv, TargetInv
<1>12. TargetInv'
  <2>1. CASE Head(nbrT) = 0
    <3>1. tEnd' = TRUE /\ tReg' = 0 /\ GotT' = GotT /\ One(tEnd') = 1
      BY <1>1, <1>3, <2>1 DEF GotT, One
    <3>2. TEnded /\ GotT = Len(cand)
      <4>1. GotT + 1 > Len(cand)
        BY <1>3, <1>6, <1>7, <2>1, VertexFacts
      <4>2. ~ InEdges
        BY <1>3, <1>6, <1>7, <2>1, <4>1, VertexFacts
      <4>3. QED  BY <1>3, <1>6, <1>7, <4>1, <4>2
    <3>3. Carries(nbrT', VertexAt', GotT' + One(tEnd'), SentT')
      BY <1>1, <1>6, <1>8, <1>9, <3>1
    <3>4. QED
      BY <1>1, <1>7, <1>8, <1>9, <1>10, <1>11, <3>1, <3>2, <3>3
         DEF TargetInv, SentT
  <2>2. CASE Head(nbrT) # 0
    <3>1. /\ tEnd' = FALSE /\ tReg' = VertexAt[GotT + 1] /\ tReg' # 0
          /\ GotT' = GotT + 1 /\ One(tEnd') = 0
      BY <1>1, <1>3, <1>6, <2>2 DEF GotT, One
    <3>2. GotT + 1 <= Sent(1)
      <4>1. CASE TEnded
        <5>1. GotT + 1 <= Len(cand)
          BY <1>3, <1>6, <1>7, <2>2, <4>1, VertexFacts
        <5>2. QED  BY <1>3, <1>7, <5>1
      <4>2. CASE ~ TEnded
        BY <1>3, <1>6, <1>7, <4>2
      <4>3. QED  BY <4>1, <4>2
    <3>3. GotT' + One(tEnd') = GotT + 1
      BY <1>3, <3>1
    <3>4. Carries(nbrT', VertexAt', GotT' + One(tEnd'), SentT')
      BY <1>1, <1>6, <1>8, <1>9, <3>3
    <3>5. QED
      BY <1>1, <1>8, <1>9, <1>10, <1>11, <3>1, <3>2, <3>4 DEF TargetInv, SentT
  <2>3. QED  BY <2>1, <2>2
<1>13. VisitedInv'
  BY <1>1, <1>8 DEF DInv, VisitedInv, GotV, vVars
<1>14. tReg' \in Node(ThisJob) \cup {0} /\ tEnd' \in BOOLEAN
  BY <1>1, <1>5 DEF DInv, TypeOK
<1>15. QED
  BY <1>1, <1>5, <1>8, <1>12, <1>13, <1>14
     DEF DInv, TypeOK, feedVars, vVars

LEMMA DReadLayerT == DInv /\ ReadLayerT => DInv'
<1> SUFFICES ASSUME DInv, ReadLayerT PROVE DInv'
  OBVIOUS
<1> DEFINE flag == tReg = ThisJob.dst \/ Head(layerT) + 2 = ThisJob.k
<1>1. /\ tReg # 0 /\ layerT # << >> /\ layerT' = Tail(layerT)
      /\ target_valid' = Append(target_valid, flag) /\ tReg' = 0
      /\ UNCHANGED <<jid, feedVars, nbrT, nbrV, idxV, tEnd, vVars>>
  BY DEF ReadLayerT, Rest
<1>2. /\ layerT \in Seq(Nat) /\ target_valid \in Seq(BOOLEAN)
      /\ Len(target_valid) \in Nat /\ flag \in BOOLEAN
  BY LenProperties DEF DInv, TypeOK, NotVisited
<1>3. GotT = Len(target_valid) + 1 /\ tReg = VertexAt[Len(target_valid) + 1]
      /\ ~ tEnd
  BY <1>1, <1>2 DEF DInv, TargetInv, GotT, One
<1>4. /\ layerT' \in Seq(Nat)
      /\ Head(layerT) = LayerAt[Len(target_valid) + 1]
      /\ Carries(layerT', LayerAt, Len(target_valid) + 1, Sent(2))
  <2>1. Carries(layerT, LayerAt, Len(target_valid), Sent(2))
    BY DEF DInv, TargetInv
  <2>2. QED  BY <1>1, <1>2, <2>1, PopFacts, CarriesPop
<1>5. /\ VertexAt' = VertexAt /\ IdxAt' = IdxAt /\ LayerAt' = LayerAt
      /\ TEnded' = TEnded /\ VEnded' = VEnded
      /\ \A w : Sent(w)' = Sent(w)
      /\ \A n : ClosesAt(n)' = ClosesAt(n) /\ FreshAt(n)' = FreshAt(n)
      /\ batch' = batch /\ ThisJob' = ThisJob /\ Feeding' /\ cand' = cand
  BY <1>1, CheckFacts DEF feedVars
<1>6. flag <=> ClosesAt(Len(target_valid) + 1)
  BY <1>3, <1>4 DEF ClosesAt
<1> HIDE DEF flag
<1>7. /\ target_valid' \in Seq(BOOLEAN)
      /\ Len(target_valid') = Len(target_valid) + 1
      /\ \A n \in 1 .. Len(target_valid) : target_valid'[n] = target_valid[n]
      /\ target_valid'[Len(target_valid) + 1] = flag
  BY <1>1, <1>2, PushFacts
<1>8. GotT' = GotT /\ tReg' = 0 /\ tEnd' = tEnd
  BY <1>1, <1>2, <1>3, <1>7 DEF GotT, One
<1>9. \A n \in 1 .. Len(target_valid') : target_valid'[n] <=> ClosesAt(n)
  <2>1. ASSUME NEW n \in 1 .. Len(target_valid)
        PROVE  target_valid'[n] <=> ClosesAt(n)
    BY <1>7 DEF DInv, TargetInv
  <2>2. \A n \in 1 .. Len(target_valid') :
          n \in 1 .. Len(target_valid) \/ n = Len(target_valid) + 1
    BY <1>2, <1>7
  <2>3. QED  BY <1>6, <1>7, <2>1, <2>2
<1>10. TargetInv'
  <2>1. Carries(nbrT, VertexAt, GotT + One(tEnd), Sent(1) + One(TEnded))
        /\ GotT <= Sent(1)
    BY DEF DInv, TargetInv
  <2>2. nbrT' = nbrT
    BY <1>1
  <2>3. QED  BY <1>3, <1>4, <1>5, <1>7, <1>8, <1>9, <2>1, <2>2 DEF TargetInv
<1>11. VisitedInv'
  BY <1>1, <1>5 DEF DInv, VisitedInv, GotV, vVars
<1>12. QED
  BY <1>1, <1>4, <1>5, <1>7, <1>10, <1>11
     DEF DInv, TypeOK, feedVars, vVars

LEMMA DReadNbrV == DInv /\ ReadNbrV => DInv'
<1> SUFFICES ASSUME DInv, ReadNbrV PROVE DInv'
  OBVIOUS
<1>1. /\ ~ vEnd /\ vReg = 0 /\ nbrV # << >> /\ nbrV' = Tail(nbrV)
      /\ IF Head(nbrV) = 0 THEN vEnd' = TRUE /\ vReg' = vReg
                           ELSE vReg' = Head(nbrV) /\ vEnd' = vEnd
      /\ UNCHANGED <<jid, feedVars, nbrT, layerT, idxV, visited_valid, tVars>>
  BY DEF ReadNbrV
<1>2. nbrV \in Seq(Node(ThisJob) \cup {0}) /\ Len(visited_valid) \in Nat
  BY LenProperties DEF DInv, TypeOK
<1>3. GotV = Len(visited_valid) /\ GotV \in Nat
  BY <1>1, <1>2 DEF GotV, One
<1>4. Carries(nbrV, VertexAt, GotV, SentV)
  BY <1>1, <1>3 DEF DInv, VisitedInv, SentV, One
<1>5. /\ nbrV' \in Seq(Node(ThisJob) \cup {0})
      /\ Head(nbrV) \in Node(ThisJob) \cup {0}
  BY <1>1, <1>2, PopFacts
<1>6. /\ Head(nbrV) = VertexAt[GotV + 1] /\ GotV < SentV
      /\ Carries(Tail(nbrV), VertexAt, GotV + 1, SentV)
  BY <1>1, <1>2, <1>4, CarriesPop
<1>7. /\ Len(cand) \in Nat /\ Sent(3) \in Nat /\ Len(cand) <= Sent(3)
      /\ GotV <= Sent(3) /\ GotV + 1 \in Pos
      /\ Sent(3) # Len(cand) => InEdges /\ Sent(3) = Len(cand) + 1
      /\ SentV = IF VEnded THEN Sent(3) + 1 ELSE Sent(3)
      /\ VEnded => fpc # "edges" /\ ~ InEdges
  <2>1. Len(cand) \in Nat /\ Sent(3) \in Nat /\ Len(cand) <= Sent(3)
    BY CandFacts DEF DInv
  <2>2. GotV <= Sent(3) /\ GotV + 1 \in Pos
    BY <1>3 DEF DInv, VisitedInv, Pos
  <2>3. Sent(3) # Len(cand) => InEdges /\ Sent(3) = Len(cand) + 1
    BY <2>1 DEF Sent, One, DInv, Feeding, TypeOK
  <2>4. VEnded => fpc # "edges" /\ ~ InEdges
    BY DEF VEnded, InEdges
  <2>5. SentV = IF VEnded THEN Sent(3) + 1 ELSE Sent(3)
    BY <2>1 DEF SentV, One
  <2>6. QED  BY <2>1, <2>2, <2>3, <2>4, <2>5
<1>8. /\ VertexAt' = VertexAt /\ IdxAt' = IdxAt /\ LayerAt' = LayerAt
      /\ TEnded' = TEnded /\ VEnded' = VEnded
      /\ \A w : Sent(w)' = Sent(w)
      /\ \A n : ClosesAt(n)' = ClosesAt(n) /\ FreshAt(n)' = FreshAt(n)
      /\ batch' = batch /\ ThisJob' = ThisJob /\ Feeding' /\ cand' = cand
  BY <1>1, CheckFacts DEF feedVars
<1>9. SentV' = SentV
  BY <1>8 DEF SentV
<1>10. Carries(idxV, IdxAt, Len(visited_valid), Len(cand))
  BY DEF DInv, VisitedInv
<1>11. \A n \in 1 .. Len(visited_valid) : visited_valid[n] <=> FreshAt(n)
  BY DEF DInv, VisitedInv
<1>12. VisitedInv'
  <2>1. CASE Head(nbrV) = 0
    <3>1. vEnd' = TRUE /\ vReg' = 0 /\ GotV' = GotV /\ One(vEnd') = 1
      BY <1>1, <1>3, <2>1 DEF GotV, One
    <3>2. VEnded /\ GotV = Len(cand)
      <4>1. GotV + 1 > Len(cand)
        BY <1>3, <1>6, <1>7, <2>1, VertexFacts
      <4>2. ~ InEdges
        BY <1>3, <1>6, <1>7, <2>1, <4>1, VertexFacts
      <4>3. QED  BY <1>3, <1>6, <1>7, <4>1, <4>2
    <3>3. Carries(nbrV', VertexAt', GotV' + One(vEnd'), SentV')
      BY <1>1, <1>6, <1>8, <1>9, <3>1
    <3>4. QED
      BY <1>1, <1>7, <1>8, <1>9, <1>10, <1>11, <3>1, <3>2, <3>3
         DEF VisitedInv, SentV
  <2>2. CASE Head(nbrV) # 0
    <3>1. /\ vEnd' = FALSE /\ vReg' = VertexAt[GotV + 1] /\ vReg' # 0
          /\ GotV' = GotV + 1 /\ One(vEnd') = 0
      BY <1>1, <1>3, <1>6, <2>2 DEF GotV, One
    <3>2. GotV + 1 <= Sent(3)
      <4>1. CASE VEnded
        <5>1. GotV + 1 <= Len(cand)
          BY <1>3, <1>6, <1>7, <2>2, <4>1, VertexFacts
        <5>2. QED  BY <1>3, <1>7, <5>1
      <4>2. CASE ~ VEnded
        BY <1>3, <1>6, <1>7, <4>2
      <4>3. QED  BY <4>1, <4>2
    <3>3. GotV' + One(vEnd') = GotV + 1
      BY <1>3, <3>1
    <3>4. Carries(nbrV', VertexAt', GotV' + One(vEnd'), SentV')
      BY <1>1, <1>6, <1>8, <1>9, <3>3
    <3>5. QED
      BY <1>1, <1>8, <1>9, <1>10, <1>11, <3>1, <3>2, <3>4 DEF VisitedInv, SentV
  <2>3. QED  BY <2>1, <2>2
<1>13. TargetInv'
  BY <1>1, <1>8 DEF DInv, TargetInv, GotT, tVars
<1>14. vReg' \in Node(ThisJob) \cup {0} /\ vEnd' \in BOOLEAN
  BY <1>1, <1>5 DEF DInv, TypeOK
<1>15. QED
  BY <1>1, <1>5, <1>8, <1>12, <1>13, <1>14
     DEF DInv, TypeOK, feedVars, tVars

LEMMA DReadIdxV == DInv /\ ReadIdxV => DInv'
<1> SUFFICES ASSUME DInv, ReadIdxV PROVE DInv'
  OBVIOUS
<1> DEFINE flag == NotVisited(batch[Head(idxV)], vReg)
<1>1. /\ vReg # 0 /\ idxV # << >> /\ idxV' = Tail(idxV)
      /\ visited_valid' = Append(visited_valid, flag) /\ vReg' = 0
      /\ UNCHANGED <<jid, feedVars, nbrT, layerT, nbrV, vEnd, tVars>>
  BY DEF ReadIdxV, Rest
<1>2. /\ idxV \in Seq(Nat) /\ visited_valid \in Seq(BOOLEAN)
      /\ Len(visited_valid) \in Nat /\ flag \in BOOLEAN
  BY LenProperties DEF DInv, TypeOK, NotVisited
<1>3. GotV = Len(visited_valid) + 1 /\ vReg = VertexAt[Len(visited_valid) + 1]
      /\ ~ vEnd
  BY <1>1, <1>2 DEF DInv, VisitedInv, GotV, One
<1>4. /\ idxV' \in Seq(Nat)
      /\ Head(idxV) = IdxAt[Len(visited_valid) + 1]
      /\ Carries(idxV', IdxAt, Len(visited_valid) + 1, Len(cand))
  <2>1. Carries(idxV, IdxAt, Len(visited_valid), Len(cand))
    BY DEF DInv, VisitedInv
  <2>2. QED  BY <1>1, <1>2, <2>1, PopFacts, CarriesPop
<1>5. /\ VertexAt' = VertexAt /\ IdxAt' = IdxAt /\ LayerAt' = LayerAt
      /\ TEnded' = TEnded /\ VEnded' = VEnded
      /\ \A w : Sent(w)' = Sent(w)
      /\ \A n : ClosesAt(n)' = ClosesAt(n) /\ FreshAt(n)' = FreshAt(n)
      /\ batch' = batch /\ ThisJob' = ThisJob /\ Feeding' /\ cand' = cand
  BY <1>1, CheckFacts DEF feedVars
<1>6. flag <=> FreshAt(Len(visited_valid) + 1)
  BY <1>3, <1>4 DEF FreshAt
<1> HIDE DEF flag
<1>7. /\ visited_valid' \in Seq(BOOLEAN)
      /\ Len(visited_valid') = Len(visited_valid) + 1
      /\ \A n \in 1 .. Len(visited_valid) : visited_valid'[n] = visited_valid[n]
      /\ visited_valid'[Len(visited_valid) + 1] = flag
  BY <1>1, <1>2, PushFacts
<1>8. GotV' = GotV /\ vReg' = 0 /\ vEnd' = vEnd
  BY <1>1, <1>2, <1>3, <1>7 DEF GotV, One
<1>9. \A n \in 1 .. Len(visited_valid') : visited_valid'[n] <=> FreshAt(n)
  <2>1. ASSUME NEW n \in 1 .. Len(visited_valid)
        PROVE  visited_valid'[n] <=> FreshAt(n)
    BY <1>7 DEF DInv, VisitedInv
  <2>2. \A n \in 1 .. Len(visited_valid') :
          n \in 1 .. Len(visited_valid) \/ n = Len(visited_valid) + 1
    BY <1>2, <1>7
  <2>3. QED  BY <1>6, <1>7, <2>1, <2>2
<1>10. VisitedInv'
  <2>1. Carries(nbrV, VertexAt, GotV + One(vEnd), Sent(3) + One(VEnded))
        /\ GotV <= Sent(3)
    BY DEF DInv, VisitedInv
  <2>2. nbrV' = nbrV
    BY <1>1
  <2>3. QED  BY <1>3, <1>4, <1>5, <1>7, <1>8, <1>9, <2>1, <2>2 DEF VisitedInv
<1>11. TargetInv'
  BY <1>1, <1>5 DEF DInv, TargetInv, GotT, tVars
<1>12. QED
  BY <1>1, <1>4, <1>5, <1>7, <1>10, <1>11
     DEF DInv, TypeOK, feedVars, tVars

-----------------------------------------------------------------------------
LEMMA DStep == DInv /\ [Next]_vars => DInv'
<1> SUFFICES ASSUME DInv, [Next]_vars PROVE DInv'
  OBVIOUS
<1>1. CASE UNCHANGED vars
  <2>1. UNCHANGED <<jid, feedVars, nbrT, layerT, nbrV, idxV, tVars, vVars>>
    BY <1>1 DEF vars
  <2>2. /\ VertexAt' = VertexAt /\ IdxAt' = IdxAt /\ LayerAt' = LayerAt
        /\ TEnded' = TEnded /\ VEnded' = VEnded
        /\ \A w : Sent(w)' = Sent(w)
        /\ \A n : ClosesAt(n)' = ClosesAt(n) /\ FreshAt(n)' = FreshAt(n)
        /\ batch' = batch /\ ThisJob' = ThisJob /\ Feeding' /\ cand' = cand
    BY <2>1, CheckFacts DEF feedVars
  <2>3. TargetInv'
    BY <2>1, <2>2 DEF DInv, TargetInv, GotT, tVars
  <2>4. VisitedInv'
    BY <2>1, <2>2 DEF DInv, VisitedInv, GotV, vVars
  <2>5. QED
    BY <2>1, <2>2, <2>3, <2>4 DEF DInv, TypeOK, feedVars, tVars, vVars
<1>2. CASE Feed
  BY <1>2, DFeedPath, DWriteNbrT, DWriteLayerT, DWriteNbrV, DWriteIdxV,
     DSkipNbr, DFeedPathEnd, DEndNbrT, DEndNbrV DEF Feed
<1>3. CASE CheckTarget \/ CheckVisited
  BY <1>3, DReadNbrT, DReadLayerT, DReadNbrV, DReadIdxV
     DEF CheckTarget, CheckVisited
<1>4. QED  BY <1>1, <1>2, <1>3 DEF Next, Terminated

-----------------------------------------------------------------------------
(* The theorems.                                                           *)

(* Every stream carries vertices, layers and indices of the job.           *)
THEOREM TypeCorrect == Spec => []TypeOK
<1>1. DInv => TypeOK
  BY DEF DInv
<1>2. QED  BY <1>1, DInit, DStep, PTL DEF Spec

(* Whatever MAX_OUT_SIZE, streams of that depth never hold the feed up,    *)
(* however late the checks read: what a stream holds has been admitted     *)
(* under the test made before the path's first edge.                       *)
THEOREM FeedIsFree == Spec => []FeedNeverBlocks
<1>1. DInv => FeedNeverBlocks
  <2> SUFFICES ASSUME DInv PROVE FeedNeverBlocks
    OBVIOUS
  <2>1. /\ Len(cand) \in Nat /\ Len(cand) < MaxOut /\ MaxOut \in Nat
        /\ \A w \in 1 .. 3 : Sent(w) \in Nat /\ Sent(w) <= Len(cand) + 1
    BY CandFacts, MaxOutAssumption DEF DInv, Feeding
  <2>2. /\ Len(nbrT) <= SentT /\ Len(layerT) <= Sent(2)
        /\ Len(nbrV) <= SentV /\ Len(idxV) <= Len(cand)
        /\ Len(nbrT) \in Nat /\ Len(layerT) \in Nat
        /\ Len(nbrV) \in Nat /\ Len(idxV) \in Nat
    <3>1. /\ nbrT \in Seq(Node(ThisJob) \cup {0}) /\ layerT \in Seq(Nat)
          /\ nbrV \in Seq(Node(ThisJob) \cup {0}) /\ idxV \in Seq(Nat)
      BY DEF DInv, TypeOK
    <3>2. /\ Carries(nbrT, VertexAt, GotT + One(tEnd), SentT)
          /\ Carries(layerT, LayerAt, Len(target_valid), Sent(2))
      BY DEF DInv, TargetInv, SentT
    <3>3. /\ Carries(nbrV, VertexAt, GotV + One(vEnd), SentV)
          /\ Carries(idxV, IdxAt, Len(visited_valid), Len(cand))
      BY DEF DInv, VisitedInv, SentV
    <3>4. QED  BY <3>1, <3>2, <3>3, CarriesLen
  <2>3. ~ InEdges => /\ Sent(1) = Len(cand) /\ Sent(3) = Len(cand)
    BY <2>1 DEF DInv, Feeding, Sent, One
  <2>4. CASE fpc = "paths"
    <3>1. SentT = Len(cand)
      BY <2>1, <2>3, <2>4 DEF SentT, TEnded, InEdges, One
    <3>2. NotFull(nbrT)
      BY <2>1, <2>2, <3>1 DEF NotFull
    <3>3. QED  BY <2>4, <3>2 DEF FeedNeverBlocks, InEdges
  <2>5. CASE fpc = "endV"
    <3>1. SentV = Len(cand)
      BY <2>1, <2>3, <2>5 DEF SentV, VEnded, InEdges, One
    <3>2. NotFull(nbrV)
      BY <2>1, <2>2, <3>1 DEF NotFull
    <3>3. QED  BY <2>5, <3>2 DEF FeedNeverBlocks, InEdges
  <2>6. CASE InEdges
    <3>1. SentT = Sent(1) /\ SentV = Sent(3)
      BY <2>1, <2>6 DEF SentT, SentV, TEnded, VEnded, InEdges, One
    <3>2. /\ edge \in Nat /\ edge + 1 <= Len(Adj(batch[taken + 1]))
          /\ Len(Adj(batch[taken + 1])) \in Nat
      BY <2>6, NbrFacts DEF DInv
    <3>3. Len(cand) + Len(Adj(batch[taken + 1])) - edge < MaxOut
      BY <2>6 DEF DInv, Feeding, InEdges
    <3>4. Len(cand) + 1 < MaxOut
      BY <2>1, <3>2, <3>3
    <3>5. NotFull(nbrT) /\ NotFull(layerT) /\ NotFull(nbrV) /\ NotFull(idxV)
      BY <2>1, <2>2, <3>1, <3>4 DEF NotFull
    <3>6. QED  BY <2>6, <3>5 DEF FeedNeverBlocks, InEdges
  <2>7. QED  BY <2>4, <2>5, <2>6 DEF FeedNeverBlocks
<1>2. QED  BY <1>1, DInit, DStep, PTL DEF Spec

(* The flags stored at a position are those of the candidate stored there, *)
(* and when run() returns there are flags for all and the streams are      *)
(* empty.                                                                  *)
THEOREM FlagsOfCandidates == Spec => []FlagsMatch
<1>1. DInv => FlagsMatch
  <2> SUFFICES ASSUME DInv PROVE FlagsMatch
    OBVIOUS
  <2>1. Len(cand) \in Nat /\ Len(target_valid) \in Nat
        /\ Len(visited_valid) \in Nat
    BY CandFacts, LenProperties DEF DInv, TypeOK
  <2>2. \A n \in Pos : n <= Len(cand) =>
          /\ VertexAt[n] = cand[n].nbr /\ IdxAt[n] = cand[n].idx
          /\ LayerAt[n] = Layer(batch[cand[n].idx])
          /\ cand[n].idx \in 1 .. Len(batch) /\ cand[n].nbr \in Node(ThisJob)
    <3> SUFFICES ASSUME NEW n \in Pos, n <= Len(cand)
                 PROVE  /\ VertexAt[n] = cand[n].nbr /\ IdxAt[n] = cand[n].idx
                        /\ LayerAt[n] = Layer(batch[cand[n].idx])
                        /\ cand[n].idx \in 1 .. Len(batch)
                        /\ cand[n].nbr \in Node(ThisJob)
      OBVIOUS
    <3>1. n \in 1 .. Len(cand)
      BY <2>1 DEF Pos
    <3>2. VertexAt[n] = cand[n].nbr /\ IdxAt[n] = cand[n].idx
      BY DEF VertexAt, IdxAt
    <3>3. QED  BY <3>1, <3>2, CandFacts DEF DInv, LayerAt
  <2>3. ASSUME NEW n \in 1 .. Len(target_valid), n <= Len(cand)
        PROVE  target_valid[n] <=> Closing(ThisJob, Append(batch[cand[n].idx],
                                                           cand[n].nbr))
    <3> DEFINE p == batch[cand[n].idx]
               v == cand[n].nbr
    <3>1. n \in Pos /\ (target_valid[n] <=> ClosesAt(n))
      BY <2>1 DEF DInv, TargetInv, Pos
    <3>2. target_valid[n] <=> v = ThisJob.dst \/ Layer(p) + 2 = ThisJob.k
      BY <2>2, <2>3, <3>1 DEF ClosesAt
    <3>3. /\ p \in Seq(Node(ThisJob)) /\ v \in Node(ThisJob)
          /\ Len(p) \in Nat /\ Len(p) >= 1
      BY <2>2, <2>3, <3>1, BatchFacts DEF DInv, TypeOK
    <3> HIDE DEF p, v
    <3>4. /\ Len(Append(p, v)) = Len(p) + 1
          /\ Append(p, v)[Len(p) + 1] = v
      BY <3>3, PushFacts
    <3>5. /\ End(Append(p, v)) = v /\ Layer(p) + 2 = Len(p) + 1
          /\ Len(Append(p, v)) >= 2
      BY <3>3, <3>4 DEF End, Layer
    <3>6. Closing(ThisJob, Append(p, v))
            <=> v = ThisJob.dst \/ Layer(p) + 2 = ThisJob.k
      BY <3>4, <3>5 DEF Closing
    <3>7. QED  BY <3>2, <3>6 DEF p, v
  <2>4. ASSUME NEW n \in 1 .. Len(visited_valid), n <= Len(cand)
        PROVE  visited_valid[n] <=> NotVisited(batch[cand[n].idx], cand[n].nbr)
    <3>1. n \in Pos /\ (visited_valid[n] <=> FreshAt(n))
      BY <2>1 DEF DInv, VisitedInv, Pos
    <3>2. QED  BY <2>2, <2>4, <3>1 DEF FreshAt
  <2>5. Drained
    <3> SUFFICES ASSUME fpc = "done", tEnd, vEnd
                 PROVE  /\ nbrT = << >> /\ layerT = << >>
                        /\ nbrV = << >> /\ idxV = << >>
                        /\ Len(target_valid) = Len(cand)
                        /\ Len(visited_valid) = Len(cand)
      BY DEF Drained, Finished
    <3>1. out = 0
      BY DEF DInv, Feeding, InEdges
    <3>2. /\ Sent(1) = Len(cand) /\ Sent(2) = Len(cand) /\ Sent(3) = Len(cand)
          /\ One(TEnded) = 1 /\ One(VEnded) = 1
          /\ One(tEnd) = 1 /\ One(vEnd) = 1
      BY <2>1, <3>1 DEF Sent, One, TEnded, VEnded
    <3>3. /\ Len(target_valid) = Len(cand) /\ GotT = Len(cand)
          /\ Len(visited_valid) = Len(cand) /\ GotV = Len(cand)
      BY <2>1 DEF DInv, TargetInv, VisitedInv, GotT, GotV, One
    <3>4. /\ Len(nbrT) = 0 /\ Len(layerT) = 0 /\ Len(nbrV) = 0 /\ Len(idxV) = 0
      <4>1. Carries(nbrT, VertexAt, Len(cand) + 1, Len(cand) + 1)
            /\ Carries(layerT, LayerAt, Len(cand), Len(cand))
        BY <3>2, <3>3 DEF DInv, TargetInv
      <4>2. Carries(nbrV, VertexAt, Len(cand) + 1, Len(cand) + 1)
            /\ Carries(idxV, IdxAt, Len(cand), Len(cand))
        BY <3>2, <3>3 DEF DInv, VisitedInv
      <4>3. QED  BY <2>1, <4>1, <4>2 DEF Carries
    <3>5. QED  BY <3>3, <3>4, EmptySeq DEF DInv, TypeOK
  <2>6. QED  BY <2>3, <2>4, <2>5 DEF FlagsMatch
<1>2. QED  BY <1>1, DInit, DStep, PTL DEF Spec
=============================================================================
