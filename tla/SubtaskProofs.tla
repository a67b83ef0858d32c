---------------------------- MODULE SubtaskProofs ---------------------------
(***************************************************************************)
(* Splitting and dealing, for every job, all thresholds and any number of  *)
(* compute units.  Queue, archived tasks and the children not looked at    *)
(* yet are the pending paths of PathPool; no path is in two places (Once), *)
(* and what may be dealt does not close (Open).  The round robin deals     *)
(* every position of the buffer once.                                      *)
(***************************************************************************)
EXTENDS Subtask, HopPathsProofs

Queued == Range(qpath) \cup Range(buffer)

Types ==
    /\ jid \in JobId
    /\ pc \in {"loop", "split", "drain", "deal", "done"}
    /\ qpath \in Seq(Partial) /\ buffer \in Seq(Partial)
    /\ cpu \in Seq(Partial) /\ cus \in [0 .. CoreNum - 1 -> Seq(Partial)]
    /\ cur \in Partial \cup {<< >>} /\ nbr \in Nat /\ ans \in Nat
    /\ pc \in {"loop", "split"} => K >= 3
    /\ pc = "split" => /\ cur \in Partial /\ Len(cur) <= K \div 2
                       /\ nbr <= Len(Row)
    /\ pc \in {"deal", "done"} => qpath = << >>
    /\ pc = "done" => buffer = << >>
    /\ pc # "done" => Shares = {}

Once ==
    /\ Simple(qpath) /\ Simple(buffer)
    /\ Range(qpath) \cap Range(buffer) = {}
    /\ Unsplit \cap Queued = {}

Open ==
    /\ \A p \in Queued \cup Shares : ~ Closing(ThisJob, p)
    /\ pc = "split" => Viable(ThisJob, cur) /\ ~ Closing(ThisJob, cur)

Apart ==
    pc = "done" =>
      /\ Simple(cpu)
      /\ \A c \in 0 .. CoreNum - 1 :
           /\ Simple(cus[c]) /\ Range(cus[c]) \cap Range(cpu) = {}
           /\ \A d \in 0 .. CoreNum - 1 :
                c # d => Range(cus[c]) \cap Range(cus[d]) = {}

SInv == Types /\ Once /\ Open /\ Apart /\ Accounts(ThisJob, Pending, ans)

(* A step of the pool, on the paths of the splitting.                      *)
SplitStep ==
    /\ \E p \in Pending : /\ ~ Closing(ThisJob, p)
                          /\ Pending' = Expanded(ThisJob, Pending, {p})
    /\ ans' = ans

CountStep ==
    /\ \E p \in Pending : Closing(ThisJob, p) /\ Pending' = Pending \ {p}
    /\ ans' = ans + 1

StillStep == Pending' = Pending /\ ans' = ans

PoolStep == jid' = jid /\ (SplitStep \/ CountStep \/ StillStep)

-----------------------------------------------------------------------------
LEMMA JobFacts ==
    ASSUME jid \in JobId
    PROVE  /\ JobOK(ThisJob) /\ K \in 1 .. 8 /\ K \div 2 \in Nat
           /\ Len(ThisJob.tasks) = 1 /\ Len(ThisJob.tasks[1]) = 1
           /\ TaskOK(ThisJob, ThisJob.tasks[1])
           /\ ThisJob.tasks \in Seq(Seq(Node(ThisJob)))
           /\ \A v \in Node(ThisJob) : /\ ThisJob.adj[v] \in Seq(Node(ThisJob))
                                       /\ Simple(ThisJob.adj[v])
<1>1. JobOK(ThisJob) /\ Len(ThisJob.tasks) = 1 /\ Len(ThisJob.tasks[1]) = 1
  BY JobsAssumption, SplitAssumption DEF ThisJob
<1>2. K \in 1 .. 8
  BY <1>1 DEF JobOK, GraphOK, MaxK, K
<1>3. K \div 2 \in Nat
  BY <1>2
<1>4. /\ TaskOK(ThisJob, ThisJob.tasks[1])
      /\ ThisJob.tasks \in Seq(Seq(Node(ThisJob)))
  BY <1>1 DEF JobOK, TasksOK
<1>5. ASSUME NEW v \in Node(ThisJob)
      PROVE  ThisJob.adj[v] \in Seq(Node(ThisJob)) /\ Simple(ThisJob.adj[v])
  <2>1. /\ ThisJob.adj[v] \in Seq(Node(ThisJob) \ {0})
        /\ Simple(ThisJob.adj[v])
    BY <1>1, <1>5 DEF JobOK, GraphOK
  <2>2. Seq(Node(ThisJob) \ {0}) \subseteq Seq(Node(ThisJob))
    OBVIOUS
  <2>3. QED  BY <2>1, <2>2
<1>6. QED  BY <1>1, <1>2, <1>3, <1>4, <1>5

LEMMA SameJob ==
    ASSUME jid' = jid
    PROVE  /\ ThisJob' = ThisJob /\ K' = K /\ Partial' = Partial
           /\ Partial \subseteq Seq(Node(ThisJob))
BY DEF ThisJob, K, Partial

LEMMA SeqOf ==
    ASSUME NEW S, NEW T, NEW s \in Seq(S), \A i \in 1 .. Len(s) : s[i] \in T
    PROVE  s \in Seq(T)
<1>1. s \in [1 .. Len(s) -> T] /\ Len(s) \in Nat
  BY LenProperties
<1>2. QED  BY <1>1, SeqDef

(* A path leaves the queue at its head.                                    *)
LEMMA TakeHead ==
    ASSUME NEW S, NEW s \in Seq(S), Simple(s), s # << >>
    PROVE  /\ Tail(s) \in Seq(S) /\ Simple(Tail(s))
           /\ Head(s) \in S /\ Head(s) \in Range(s) /\ Head(s) = s[1]
           /\ Range(Tail(s)) = Range(s) \ {Head(s)}
           /\ Len(s) \in Nat \ {0} /\ Len(Tail(s)) = Len(s) - 1
           /\ \A i \in 1 .. Len(s) - 1 : Tail(s)[i] = s[i + 1]
<1> DEFINE t == Tail(s)
<1>1. /\ t \in Seq(S) /\ Len(s) \in Nat \ {0} /\ Len(t) = Len(s) - 1
      /\ Head(s) = s[1] /\ Head(s) \in S
      /\ \A i \in 1 .. Len(s) - 1 : t[i] = s[i + 1]
  <2>1. Len(s) \in Nat \ {0}
    BY EmptySeq
  <2>2. QED  BY <2>1, HeadTailProperties, ElementOfSeq
<1> HIDE DEF t
<1>2. Simple(t)
  BY <1>1 DEF Simple
<1>3. Head(s) \in Range(s)
  BY <1>1, RangeMember
<1>4. Range(t) = Range(s) \ {Head(s)}
  <2>1. ASSUME NEW x \in Range(t) PROVE x \in Range(s) /\ x # Head(s)
    <3>1. PICK i \in 1 .. Len(t) : x = t[i]
      BY <1>1, RangeMember
    <3>2. x = s[i + 1] /\ i + 1 \in 1 .. Len(s)
      BY <1>1, <3>1
    <3>3. QED  BY <1>1, <3>2, RangeMember DEF Simple
  <2>2. ASSUME NEW x \in Range(s), x # Head(s) PROVE x \in Range(t)
    <3>1. PICK i \in 1 .. Len(s) : x = s[i]
      BY RangeMember
    <3>2. i - 1 \in 1 .. Len(t) /\ x = t[i - 1]
      BY <1>1, <2>2, <3>1
    <3>3. QED  BY <1>1, <3>2, RangeMember
  <2>3. QED  BY <2>1, <2>2
<1>5. QED  BY <1>1, <1>2, <1>3, <1>4 DEF t

(* A path takes part in the account of the pool at most once.              *)
LEMMA AccountStep ==
    ASSUME SInv, PoolStep PROVE Accounts(ThisJob, Pending, ans)'
<1>1. /\ JobOK(ThisJob) /\ Accounts(ThisJob, Pending, ans)
      /\ ThisJob' = ThisJob
  BY JobFacts, SameJob DEF SInv, Types, PoolStep
<1>2. SUFFICES Accounts(ThisJob, Pending', ans')
  BY <1>1
<1>3. CASE SplitStep
  <2>1. PICK p \in Pending : /\ ~ Closing(ThisJob, p)
                             /\ Pending' = Expanded(ThisJob, Pending, {p})
    BY <1>3 DEF SplitStep
  <2>2. {p} \in SUBSET Pending /\ \A q \in {p} : ~ Closing(ThisJob, q)
    BY <2>1
  <2>3. Accounts(ThisJob, Expanded(ThisJob, Pending, {p}), ans)
    BY <1>1, <2>2, ExpandAccounts
  <2>4. QED  BY <1>3, <2>1, <2>3 DEF SplitStep
<1>4. CASE CountStep
  BY <1>1, <1>4, EmitAccounts DEF CountStep
<1>5. CASE StillStep
  BY <1>1, <1>5 DEF StillStep
<1>6. QED  BY <1>3, <1>4, <1>5 DEF PoolStep

-----------------------------------------------------------------------------
(* Outside a split, and before the dealing, nothing but the queue and the  *)
(* archived tasks is pending.                                              *)
LEMMA PendingIs ==
    ASSUME Types
    PROVE  /\ Pending = Queued \cup Unsplit \cup Shares
           /\ pc # "split" => Unsplit = {}
           /\ pc # "done" => Pending = Queued \cup Unsplit
           /\ pc \notin {"split", "done"} => Pending = Queued
BY DEF Types, Pending, Queued, Unsplit

LEMMA PendingIsPrimed ==
    /\ Pending' = Queued' \cup Unsplit' \cup Shares'
    /\ pc' # "split" => Unsplit' = {}
BY DEF Pending, Queued, Unsplit

LEMMA SharesKept ==
    ASSUME UNCHANGED <<cpu, cus>> PROVE Shares' = Shares
BY DEF Shares

(* What remains to be shown of a step before the dealing.                  *)
LEMMA Preserved ==
    ASSUME SInv, PoolStep, Types', Once', Open', pc' # "done"
    PROVE  SInv' /\ PoolStep
BY AccountStep DEF SInv, Apart

LEMMA SInit == Init => SInv /\ Pending = Range(ThisJob.tasks)
<1>1. SUFFICES ASSUME Init PROVE SInv /\ Pending = Range(ThisJob.tasks)
  OBVIOUS
<1>2. /\ jid \in JobId /\ pc \in {"loop", "drain"}
      /\ pc = "loop" => K >= 3
      /\ qpath = ThisJob.tasks /\ buffer = << >> /\ cur = << >>
      /\ nbr = 0 /\ ans = 0 /\ cpu = << >>
      /\ cus = [c \in 0 .. CoreNum - 1 |-> << >>]
  BY <1>1 DEF Init
<1>3. /\ JobOK(ThisJob) /\ K \div 2 \in Nat
      /\ Len(qpath) = 1 /\ Len(qpath[1]) = 1
      /\ TaskOK(ThisJob, qpath[1]) /\ qpath \in Seq(Seq(Node(ThisJob)))
  BY <1>2, JobFacts
<1>4. qpath[1] \in Partial
  <2>1. qpath[1] \in Seq(Node(ThisJob))
    BY <1>3 DEF TaskOK
  <2>2. 1 \in 1 .. K \div 2 + 1
    BY <1>3
  <2>3. QED  BY <1>3, <2>1, <2>2 DEF Partial
<1>5. qpath \in Seq(Partial) /\ Range(qpath) = {qpath[1]} /\ Simple(qpath)
  <2>1. \A i \in 1 .. Len(qpath) : qpath[i] \in Partial
    BY <1>3, <1>4
  <2>2. qpath \in Seq(Partial)
    BY <1>3, <2>1, SeqOf
  <2>3. Simple(qpath)
    BY <1>3 DEF Simple
  <2>4. Range(qpath) = {qpath[1]}
    BY <1>3, RangeMember, SMTT(30)
  <2>5. QED  BY <2>2, <2>3, <2>4
<1>6. \A S : << >> \in Seq(S)
  BY EmptySeq
<1>7. /\ Range(<< >>) = {} /\ Simple(<< >>)
  BY EmptyStack
<1>8. Shares = {}
  BY <1>2, <1>7 DEF Shares
<1>9. Types
  BY <1>2, <1>5, <1>6, <1>8 DEF Types
<1>10. Pending = Range(qpath)
  BY <1>2, <1>7, <1>9, PendingIs DEF Queued
<1>11. Once
  BY <1>2, <1>5, <1>7 DEF Once, Unsplit
<1>12. Open
  BY <1>2, <1>3, <1>5, <1>7, <1>8, TaskIsOpen DEF Open, Queued
<1>13. Accounts(ThisJob, Pending, ans)
  BY <1>2, <1>3, <1>10, TasksAccount
<1>14. QED  BY <1>2, <1>9, <1>10, <1>11, <1>12, <1>13 DEF SInv, Apart

-----------------------------------------------------------------------------
(* The splitting loop.                                                     *)

LEMMA BreakStep ==
    ASSUME SInv, LoopBreak \/ Drained PROVE SInv' /\ PoolStep
<1>1. /\ pc \notin {"split", "done"} /\ pc' \in {"drain", "deal"}
      /\ pc' = "deal" => qpath = << >>
      /\ UNCHANGED <<jid, qpath, buffer, cur, nbr, ans, cpu, cus>>
  BY DEF LoopBreak, Drained
<1>2. Queued' = Queued /\ Shares' = Shares /\ Shares = {}
  BY <1>1 DEF Queued, Shares, SInv, Types
<1>3. Pending' = Pending /\ Unsplit' = {} /\ Unsplit = {}
  BY <1>1, <1>2, PendingIs, PendingIsPrimed DEF SInv
<1>4. ThisJob' = ThisJob /\ Partial' = Partial
  BY <1>1, SameJob
<1>5. Types'
  BY <1>1, <1>2, <1>4 DEF SInv, Types
<1>6. Once' /\ Open'
  BY <1>1, <1>2, <1>3, <1>4 DEF SInv, Once, Open
<1>7. PoolStep
  BY <1>1, <1>3 DEF PoolStep, StillStep
<1>8. QED  BY <1>1, <1>5, <1>6, <1>7, Preserved

LEMMA MoveStep ==
    ASSUME SInv, Archive \/ Drain PROVE SInv' /\ PoolStep
<1>1. /\ pc \in {"loop", "drain"} /\ pc' = pc /\ qpath # << >>
      /\ buffer' = Append(buffer, Head(qpath)) /\ qpath' = Tail(qpath)
      /\ UNCHANGED <<jid, cur, nbr, ans, cpu, cus>>
  BY DEF Archive, Drain, Looping, Archived
<1>2. /\ qpath \in Seq(Partial) /\ buffer \in Seq(Partial)
      /\ Simple(qpath) /\ Simple(buffer)
      /\ Range(qpath) \cap Range(buffer) = {}
  BY DEF SInv, Types, Once
<1>3. /\ qpath' \in Seq(Partial) /\ Simple(qpath')
      /\ Head(qpath) \in Partial /\ Head(qpath) \in Range(qpath)
      /\ Range(qpath') = Range(qpath) \ {Head(qpath)}
  BY <1>1, <1>2, TakeHead
<1>4. /\ buffer' \in Seq(Partial) /\ Simple(buffer')
      /\ Range(buffer') = Range(buffer) \cup {Head(qpath)}
  BY <1>1, <1>2, <1>3, PushStack
<1>5. Queued' = Queued /\ Shares' = Shares /\ Shares = {}
  BY <1>1, <1>3, <1>4, SharesKept DEF Queued, SInv, Types
<1>6. Pending' = Pending /\ Unsplit' = {} /\ Unsplit = {}
  BY <1>1, <1>5, PendingIs, PendingIsPrimed DEF SInv
<1>7. ThisJob' = ThisJob /\ Partial' = Partial /\ K' = K
  BY <1>1, SameJob
<1>8. Types'
  BY <1>1, <1>3, <1>4, <1>5, <1>7 DEF SInv, Types
<1>9. Once'
  BY <1>2, <1>3, <1>4, <1>6 DEF Once
<1>10. Open'
  BY <1>1, <1>5, <1>7 DEF SInv, Open
<1>11. PoolStep
  BY <1>1, <1>6 DEF PoolStep, StillStep
<1>12. QED  BY <1>1, <1>8, <1>9, <1>10, <1>11, Preserved

(* The children of a pending path are not pending: they would continue it. *)
LEMMA ChildNotPending ==
    ASSUME SInv, NEW p \in Pending, ~ Closing(ThisJob, p),
           NEW c \in Children(ThisJob, p)
    PROVE  c \notin Pending
<1>1. /\ JobOK(ThisJob) /\ Viable(ThisJob, p) /\ AntiChain(Pending)
  BY JobFacts DEF SInv, Types, Accounts, ViableAll
<1>2. PICK v \in Node(ThisJob) : c = Append(p, v)
  BY <1>1, ChildViable
<1>3. p \in Seq(Node(ThisJob))
  BY <1>1 DEF Viable
<1>4. Prefix(p, c) /\ Len(c) = Len(p) + 1 /\ Len(p) \in Nat
  BY <1>2, <1>3, AppendPrefix, AppendProperties, LenProperties
<1>5. p # c
  BY <1>4
<1>6. QED  BY <1>1, <1>4, <1>5 DEF AntiChain

LEMMA StartStep ==
    ASSUME SInv, SplitStart PROVE SInv' /\ PoolStep
<1>1. /\ pc = "loop" /\ pc' = "split" /\ qpath # << >>
      /\ Layer(Head(qpath)) < K \div 2
      /\ cur' = Head(qpath) /\ nbr' = 0 /\ qpath' = Tail(qpath)
      /\ UNCHANGED <<jid, buffer, ans, cpu, cus>>
  BY DEF SplitStart, Looping, ShouldSplit, Hop
<1>2. /\ qpath \in Seq(Partial) /\ buffer \in Seq(Partial)
      /\ Simple(qpath) /\ Simple(buffer) /\ jid \in JobId /\ K >= 3
      /\ Range(qpath) \cap Range(buffer) = {}
  BY <1>1 DEF SInv, Types, Once
<1>3. /\ qpath' \in Seq(Partial) /\ Simple(qpath')
      /\ Head(qpath) \in Partial /\ Head(qpath) \in Range(qpath)
      /\ Range(qpath') = Range(qpath) \ {Head(qpath)}
  BY <1>1, <1>2, TakeHead
<1>4. /\ ThisJob' = ThisJob /\ Partial' = Partial /\ K' = K
      /\ JobOK(ThisJob) /\ K \div 2 \in Nat
  BY <1>1, <1>2, SameJob, JobFacts
<1>5. Shares' = Shares /\ Shares = {}
  BY <1>1, SharesKept DEF SInv, Types
<1>6. Head(qpath) \in Pending /\ Pending = Queued
  BY <1>1, <1>3, PendingIs DEF SInv, Queued
<1>7. ~ Closing(ThisJob, Head(qpath)) /\ Viable(ThisJob, Head(qpath))
  BY <1>3, <1>6 DEF SInv, Open, Accounts, ViableAll, Queued
<1>8. /\ End(cur') \in Node(ThisJob) /\ Row' = ThisJob.adj[End(cur')]
      /\ Row' \in Seq(Node(ThisJob)) /\ Len(Row') \in Nat
      /\ Len(cur') \in Nat /\ Len(cur') >= 1
  <2>1. End(cur') \in Node(ThisJob) /\ Len(cur') \in Nat /\ Len(cur') >= 1
    BY <1>1, <1>4, <1>7, OpenIsShort
  <2>2. Row' = ThisJob.adj[End(cur')]
    BY <1>4 DEF Row, End
  <2>3. QED  BY <1>2, <2>1, <2>2, JobFacts, LenProperties
<1>9. Unsplit' = Children(ThisJob, Head(qpath))
  <2>1. \A p \in Children(ThisJob, cur') :
          \E n \in 1 .. Len(Row') : p = Append(cur', Row'[n])
    <3>1. ASSUME NEW p \in Children(ThisJob, cur')
          PROVE  \E n \in 1 .. Len(Row') : p = Append(cur', Row'[n])
      <4>1. PICK v \in Nbrs(ThisJob, End(cur')) : p = Append(cur', v)
        BY <3>1 DEF Children
      <4>2. PICK n \in 1 .. Len(Row') : v = Row'[n]
        BY <1>8, <4>1, NbrsListed, RangeMember
      <4>3. QED  BY <4>1, <4>2
    <3>2. QED  BY <3>1
  <2>2. Unsplit' = { p \in Children(ThisJob, cur') :
                       \E n \in 0 + 1 .. Len(Row') : p = Append(cur', Row'[n]) }
    BY <1>1, <1>4 DEF Unsplit
  <2>3. 0 + 1 = 1
    OBVIOUS
  <2>4. QED  BY <1>1, <2>1, <2>2, <2>3
<1>10. Queued' = Queued \ {Head(qpath)}
  BY <1>1, <1>2, <1>3 DEF Queued
<1>11. \A c \in Children(ThisJob, Head(qpath)) : c \notin Queued
  BY <1>6, <1>7, ChildNotPending
<1>12. Types'
  <2>1. cur' \in Partial' /\ Len(cur') <= K' \div 2
    BY <1>1, <1>3, <1>4, <1>8 DEF Layer
  <2>2. QED  BY <1>1, <1>2, <1>3, <1>4, <1>5, <1>8, <2>1 DEF SInv, Types
<1>13. Once'
  BY <1>1, <1>2, <1>3, <1>9, <1>10, <1>11 DEF Once
<1>14. Open'
  BY <1>1, <1>4, <1>5, <1>7, <1>10 DEF SInv, Open
<1>15. Pending' = Expanded(ThisJob, Pending, {Head(qpath)})
  <2>1. Pending' = (Queued \ {Head(qpath)}) \cup Children(ThisJob, Head(qpath))
    BY <1>5, <1>9, <1>10, PendingIsPrimed
  <2>2. UNION { Children(ThisJob, p) : p \in {Head(qpath)} }
          = Children(ThisJob, Head(qpath))
    OBVIOUS
  <2>3. QED  BY <1>6, <2>1, <2>2 DEF Expanded
<1>16. PoolStep
  BY <1>1, <1>6, <1>7, <1>15 DEF PoolStep, SplitStep
<1>17. QED  BY <1>1, <1>12, <1>13, <1>14, <1>16, Preserved

-----------------------------------------------------------------------------
(* A path is split.                                                        *)

(* What is known of the path and of the neighbour looked at.               *)
LEMMA SplitFacts ==
    ASSUME SInv, Splitting
    PROVE  /\ JobOK(ThisJob) /\ jid \in JobId /\ pc = "split"
           /\ Viable(ThisJob, cur) /\ ~ Closing(ThisJob, cur)
           /\ cur \in Seq(Node(ThisJob)) /\ Len(cur) \in Nat /\ Len(cur) >= 1
           /\ cur \in Partial /\ Len(cur) <= K \div 2 /\ K \div 2 \in Nat
           /\ K \in 3 .. 8
           /\ Row \in Seq(Node(ThisJob)) /\ Simple(Row) /\ Len(Row) \in Nat
           /\ Row = ThisJob.adj[End(cur)]
           /\ nbr + 1 \in 1 .. Len(Row)
           /\ V \in Node(ThisJob) /\ V \in Nbrs(ThisJob, End(cur))
           /\ V = Row[nbr + 1]
<1>1. /\ jid \in JobId /\ pc = "split" /\ nbr < Len(Row) /\ nbr \in Nat
      /\ Viable(ThisJob, cur) /\ ~ Closing(ThisJob, cur)
      /\ cur \in Partial /\ Len(cur) <= K \div 2 /\ K >= 3
  BY DEF SInv, Types, Open, Splitting
<1>2. JobOK(ThisJob) /\ K \in 3 .. 8 /\ K \div 2 \in Nat
  BY <1>1, JobFacts
<1>3. /\ cur \in Seq(Node(ThisJob)) /\ Len(cur) \in Nat /\ Len(cur) >= 1
      /\ End(cur) \in Node(ThisJob)
  BY <1>1, <1>2, OpenIsShort
<1>4. /\ Row = ThisJob.adj[End(cur)] /\ Row \in Seq(Node(ThisJob))
      /\ Simple(Row) /\ Len(Row) \in Nat
  BY <1>1, <1>3, JobFacts, LenProperties DEF Row
<1>5. nbr + 1 \in 1 .. Len(Row)
  BY <1>1, <1>4
<1>6. V = Row[nbr + 1] /\ V \in Node(ThisJob) /\ V \in Nbrs(ThisJob, End(cur))
  BY <1>4, <1>5, NbrsListed, RangeMember DEF V
<1>7. QED  BY <1>1, <1>2, <1>3, <1>4, <1>5, <1>6

(* The tests of the splitting are those of the kernel.                     *)
LEMMA SplitTests ==
    ASSUME SInv, Splitting
    PROVE  LET c == Append(cur, V)
           IN  /\ c \in Children(ThisJob, cur) <=> Near(V) /\ Unvisited(V)
               /\ c \in Children(ThisJob, cur) => c \in Unsplit
               /\ Counts(V) => Unvisited(V) /\ Closing(ThisJob, c)
               /\ ~ Counts(V) /\ Unvisited(V) => ~ Closing(ThisJob, c)
               /\ c \in Seq(Node(ThisJob)) /\ Len(c) = Len(cur) + 1
               /\ c \in Partial
<1> DEFINE c == Append(cur, V)
<1>1. /\ JobOK(ThisJob) /\ Viable(ThisJob, cur) /\ ~ Closing(ThisJob, cur)
      /\ V \in Nbrs(ThisJob, End(cur)) /\ V \in Node(ThisJob)
      /\ cur \in Seq(Node(ThisJob)) /\ Len(cur) \in Nat /\ Len(cur) >= 1
      /\ K \in 3 .. 8 /\ K = ThisJob.k
      /\ Len(cur) <= K \div 2 /\ K \div 2 \in Nat
  BY SplitFacts DEF K
<1>2. /\ ThisJob.sdt[V] \in Nat
      /\ Admits(ThisJob, cur, V) <=> Len(cur) + ThisJob.sdt[V] <= ThisJob.k
  BY <1>1, AdmitsExact
<1>3. Near(V) <=> Admits(ThisJob, cur, V)
  BY <1>1, <1>2 DEF Near, Layer
<1>4. /\ c \in Seq(Node(ThisJob)) /\ Len(c) = Len(cur) + 1
      /\ c[Len(cur) + 1] = V /\ End(c) = V
  BY <1>1, AppendProperties DEF End
<1>5. c \in Children(ThisJob, cur) <=> Near(V) /\ Unvisited(V)
  <2>1. ASSUME c \in Children(ThisJob, cur) PROVE Near(V) /\ Unvisited(V)
    <3>1. PICK w \in Nbrs(ThisJob, End(cur)) :
            /\ Admits(ThisJob, cur, w) /\ NotVisited(cur, w)
            /\ c = Append(cur, w)
      BY <2>1 DEF Children
    <3>2. w \in Node(ThisJob)
      BY <1>1, AdmitsExact
    <3>3. w = V
      BY <1>1, <3>1, <3>2, AppendBoth
    <3>4. QED  BY <1>3, <3>1, <3>3 DEF Unvisited
  <2>2. ASSUME Near(V), Unvisited(V) PROVE c \in Children(ThisJob, cur)
    BY <1>1, <1>3, <2>2 DEF Children, Unvisited
  <2>3. QED  BY <2>1, <2>2
<1>6. ASSUME c \in Children(ThisJob, cur) PROVE c \in Unsplit
  <2>1. nbr \in Nat /\ Len(Row) \in Nat /\ nbr + 1 \in 1 .. Len(Row)
    BY SplitFacts DEF SInv, Types
  <2>2. nbr + 1 \in nbr + 1 .. Len(Row) /\ c = Append(cur, Row[nbr + 1])
    BY <2>1, SplitFacts
  <2>3. QED  BY <1>6, <2>2, SplitFacts DEF Unsplit
<1>7. ASSUME Counts(V) PROVE Unvisited(V) /\ Closing(ThisJob, c)
  <2>1. CASE V = ThisJob.dst
    <3>1. Closing(ThisJob, c)
      BY <1>4, <2>1 DEF Closing
    <3>2. \A i \in 1 .. Len(cur) - 1 : cur[i] # ThisJob.dst
      BY <1>1 DEF Viable
    <3>3. cur[Len(cur)] # ThisJob.dst
      BY <1>1 DEF Closing, End
    <3>4. \A i \in 1 .. Len(cur) : cur[i] # V
      BY <1>1, <2>1, <3>2, <3>3
    <3>5. QED  BY <3>1, <3>4 DEF Unvisited, NotVisited
  <2>2. CASE NotVisited(cur, V) /\ Layer(cur) = K - 2
    <3>1. Len(c) >= 2 /\ Len(c) = ThisJob.k
      BY <1>1, <1>4, <2>2 DEF Layer
    <3>2. QED  BY <2>2, <3>1 DEF Closing, Unvisited
  <2>3. QED  BY <1>7, <2>1, <2>2 DEF Counts
<1>8. ASSUME ~ Counts(V), Unvisited(V) PROVE ~ Closing(ThisJob, c)
  <2>1. V # ThisJob.dst /\ Layer(cur) # K - 2
    BY <1>8 DEF Counts, Unvisited
  <2>2. Len(c) # ThisJob.k
    BY <1>1, <1>4, <2>1 DEF Layer
  <2>3. QED  BY <1>4, <2>1, <2>2 DEF Closing
<1>9. c \in Partial
  <2>1. Len(c) \in 1 .. K \div 2 + 1
    BY <1>1, <1>4
  <2>2. QED  BY <1>4, <2>1 DEF Partial
<1>10. QED  BY <1>4, <1>5, <1>6, <1>7, <1>8, <1>9

(* The child through the neighbour looked at is not listed any more.       *)
LEMMA UnsplitAfter ==
    ASSUME SInv, Splitting, nbr' = nbr + 1, UNCHANGED <<jid, pc, cur>>
    PROVE  /\ Unsplit' = Unsplit \ {Append(cur, V)}
           /\ ThisJob' = ThisJob /\ Row' = Row /\ K' = K /\ Partial' = Partial
<1>1. /\ ThisJob' = ThisJob /\ Row' = Row /\ K' = K /\ Partial' = Partial
      /\ pc = "split"
  BY SameJob DEF Row, Splitting
<1>2. \A p : p \in Unsplit' <=>
               /\ p \in Children(ThisJob, cur)
               /\ \E i \in nbr + 1 + 1 .. Len(Row) : p = Append(cur, Row[i])
  BY <1>1 DEF Unsplit
<1>3. \A p : p \in Unsplit <=>
               /\ p \in Children(ThisJob, cur)
               /\ \E i \in nbr + 1 .. Len(Row) : p = Append(cur, Row[i])
  BY <1>1 DEF Unsplit
<1>4. /\ nbr \in Nat /\ Len(Row) \in Nat /\ nbr + 1 \in 1 .. Len(Row)
      /\ V = Row[nbr + 1] /\ V \in Node(ThisJob)
      /\ Row \in Seq(Node(ThisJob)) /\ Simple(Row)
      /\ cur \in Seq(Node(ThisJob))
  BY SplitFacts DEF SInv, Types
<1>5. ASSUME NEW i \in nbr + 1 + 1 .. Len(Row) PROVE Append(cur, Row[i]) # Append(cur, V)
  <2>1. i \in 1 .. Len(Row) /\ i # nbr + 1
    BY <1>4
  <2>2. Row[i] \in Node(ThisJob) /\ Row[i] # V
    BY <1>4, <2>1, RangeMember DEF Simple
  <2>3. QED  BY <1>4, <2>2, AppendBoth
<1>6. ASSUME NEW p \in Unsplit' PROVE p \in Unsplit /\ p # Append(cur, V)
  <2>1. PICK i \in nbr + 1 + 1 .. Len(Row) : p = Append(cur, Row[i])
    BY <1>2, <1>6
  <2>2. i \in nbr + 1 .. Len(Row)
    BY <1>4
  <2>3. QED  BY <1>2, <1>3, <1>5, <1>6, <2>1, <2>2
<1>7. ASSUME NEW p \in Unsplit, p # Append(cur, V) PROVE p \in Unsplit'
  <2>1. PICK i \in nbr + 1 .. Len(Row) : p = Append(cur, Row[i])
    BY <1>3, <1>7
  <2>2. i \in nbr + 1 + 1 .. Len(Row)
    BY <1>4, <1>7, <2>1
  <2>3. QED  BY <1>2, <1>3, <1>7, <2>1, <2>2
<1>8. QED  BY <1>1, <1>6, <1>7

LEMMA LookStep ==
    ASSUME SInv, SplitCount \/ SplitSkip PROVE SInv' /\ PoolStep
<1> DEFINE c == Append(cur, V)
<1>1. /\ Splitting /\ pc = "split" /\ nbr' = nbr + 1
      /\ UNCHANGED <<jid, pc, qpath, buffer, cur, cpu, cus>>
      /\ ans' = ans \/ ans' = ans + 1
  BY DEF SplitCount, SplitSkip, Splitting
<1>2. /\ Unsplit' = Unsplit \ {c} /\ ThisJob' = ThisJob /\ Row' = Row
      /\ K' = K /\ Partial' = Partial
  BY <1>1, UnsplitAfter
<1>3. Queued' = Queued /\ Shares' = Shares /\ Shares = {}
  BY <1>1, SharesKept DEF Queued, SInv, Types
<1>4. Pending = Queued \cup Unsplit /\ Pending' = Queued \cup (Unsplit \ {c})
  BY <1>1, <1>2, <1>3, PendingIs, PendingIsPrimed DEF SInv
<1>5. Types'
  <2>1. nbr' \in Nat /\ nbr' <= Len(Row)
    BY <1>1, SplitFacts DEF SInv, Types
  <2>2. ans' \in Nat
    BY <1>1 DEF SInv, Types
  <2>3. QED  BY <1>1, <1>2, <1>3, <2>1, <2>2 DEF SInv, Types
<1>6. Once'
  BY <1>1, <1>2, <1>3 DEF SInv, Once
<1>7. Open'
  BY <1>1, <1>2, <1>3 DEF SInv, Open
<1>8. PoolStep
  <2>1. CASE SplitCount
    <3>1. Near(V) /\ Counts(V) /\ ans' = ans + 1
      BY <2>1 DEF SplitCount
    <3>2. c \in Unsplit /\ Closing(ThisJob, c)
      BY <1>1, <3>1, SplitTests
    <3>3. c \notin Queued
      BY <3>2 DEF SInv, Once
    <3>4. Pending' = Pending \ {c} /\ c \in Pending
      BY <1>4, <3>2, <3>3
    <3>5. QED  BY <1>1, <3>1, <3>2, <3>4 DEF PoolStep, CountStep
  <2>2. CASE SplitSkip
    <3>1. ~ (Near(V) /\ Unvisited(V)) /\ ans' = ans
      BY <2>2 DEF SplitSkip
    <3>2. c \notin Children(ThisJob, cur)
      BY <1>1, <3>1, SplitTests
    <3>3. c \notin Unsplit
      BY <3>2 DEF Unsplit
    <3>4. QED  BY <1>1, <1>4, <3>1, <3>3 DEF PoolStep, StillStep
  <2>3. QED  BY <2>1, <2>2
<1>9. QED  BY <1>1, <1>5, <1>6, <1>7, <1>8, Preserved

LEMMA PushStep ==
    ASSUME SInv, SplitPush PROVE SInv' /\ PoolStep
<1> DEFINE c == Append(cur, V)
<1>1. /\ Splitting /\ pc = "split" /\ nbr' = nbr + 1
      /\ Near(V) /\ ~ Counts(V) /\ Unvisited(V)
      /\ qpath' = Append(qpath, c)
      /\ UNCHANGED <<jid, pc, buffer, cur, ans, cpu, cus>>
  BY DEF SplitPush, Splitting
<1>2. /\ Unsplit' = Unsplit \ {c} /\ ThisJob' = ThisJob /\ Row' = Row
      /\ K' = K /\ Partial' = Partial
  BY <1>1, UnsplitAfter
<1>3. /\ c \in Unsplit /\ ~ Closing(ThisJob, c) /\ c \in Partial
  BY <1>1, SplitTests
<1>4. /\ qpath \in Seq(Partial) /\ buffer \in Seq(Partial)
      /\ Simple(qpath) /\ Simple(buffer) /\ c \notin Queued
      /\ Range(qpath) \cap Range(buffer) = {}
      /\ Unsplit \cap Queued = {}
  BY <1>3 DEF SInv, Types, Once
<1>5. c \notin Range(qpath) /\ c \notin Range(buffer)
  BY <1>4 DEF Queued
<1> HIDE DEF c
<1>6. /\ qpath' \in Seq(Partial) /\ Simple(qpath')
      /\ Range(qpath') = Range(qpath) \cup {c}
  BY <1>1, <1>3, <1>4, <1>5, PushStack
<1>7. Queued' = Queued \cup {c} /\ Shares' = Shares /\ Shares = {}
  BY <1>1, <1>6, SharesKept DEF Queued, SInv, Types
<1>8. Pending' = Pending
  BY <1>1, <1>2, <1>3, <1>7, PendingIs, PendingIsPrimed DEF SInv
<1>9. Types'
  <2>1. nbr' \in Nat /\ nbr' <= Len(Row)
    BY <1>1, SplitFacts DEF SInv, Types
  <2>2. QED  BY <1>1, <1>2, <1>6, <1>7, <2>1 DEF SInv, Types
<1>10. Once'
  BY <1>1, <1>2, <1>4, <1>5, <1>6, <1>7 DEF Once
<1>11. Open'
  BY <1>1, <1>2, <1>3, <1>7 DEF SInv, Open
<1>12. PoolStep
  BY <1>1, <1>8 DEF PoolStep, StillStep
<1>13. QED  BY <1>1, <1>9, <1>10, <1>11, <1>12, Preserved

LEMMA EndStep ==
    ASSUME SInv, SplitEnd PROVE SInv' /\ PoolStep
<1>1. /\ pc = "split" /\ pc' = "loop" /\ nbr = Len(Row) /\ nbr \in Nat
      /\ UNCHANGED <<jid, qpath, buffer, cur, nbr, ans, cpu, cus>>
  BY DEF SplitEnd, SInv, Types
<1>2. ThisJob' = ThisJob /\ K' = K /\ Partial' = Partial
  BY <1>1, SameJob
<1>3. Queued' = Queued /\ Shares' = Shares /\ Shares = {}
  BY <1>1, SharesKept DEF Queued, SInv, Types
<1>4. Unsplit = {}
  <2>1. \A i \in nbr + 1 .. Len(Row) : FALSE
    BY <1>1
  <2>2. QED  BY <2>1 DEF Unsplit
<1>5. Pending' = Pending /\ Unsplit' = {}
  BY <1>1, <1>3, <1>4, PendingIs, PendingIsPrimed DEF SInv
<1>6. Types'
  BY <1>1, <1>2, <1>3 DEF SInv, Types
<1>7. Once' /\ Open'
  BY <1>1, <1>2, <1>3, <1>5 DEF SInv, Once, Open
<1>8. PoolStep
  BY <1>1, <1>5 DEF PoolStep, StillStep
<1>9. QED  BY <1>1, <1>6, <1>7, <1>8, Preserved

-----------------------------------------------------------------------------
(* Dealing.                                                                *)

LEMMA DivFacts ==
    ASSUME NEW m \in Nat, m >= 1, NEW a \in Nat
    PROVE  /\ a \div m \in Nat /\ a % m \in 0 .. m - 1
           /\ a = m * (a \div m) + (a % m)
OBVIOUS

(* How many of d positions fall to unit c of m.                            *)
LEMMA RoundUp ==
    ASSUME NEW m \in Nat, m >= 1, NEW d \in Nat, NEW c \in 0 .. m - 1,
           NEW n \in Nat
    PROVE  /\ (d + m - 1 - c) \div m \in Nat
           /\ n <= (d + m - 1 - c) \div m <=> n * m <= d + m - 1 - c
<1> DEFINE a == d + m - 1 - c
           q == a \div m
<1>1. a \in Nat /\ q \in Nat /\ a = m * q + (a % m) /\ a % m \in 0 .. m - 1
  <2>1. a \in Nat
    OBVIOUS
  <2> HIDE DEF a
  <2>2. QED  BY <2>1, DivFacts
<1> HIDE DEF a, q
<1>2. ASSUME n <= q PROVE n * m <= a
  <2>1. n * m <= q * m
    BY <1>1, <1>2, SMT
  <2>2. QED  BY <1>1, <2>1
<1>3. ASSUME n > q PROVE n * m > a
  <2>1. n * m >= (q + 1) * m
    BY <1>1, <1>3, SMT
  <2>2. (q + 1) * m = q * m + m
    BY <1>1
  <2>3. QED  BY <1>1, <2>1, <2>2
<1>4. QED  BY <1>1, <1>2, <1>3 DEF a, q

(* No position falls to two units, or twice to one.                        *)
LEMMA RoundOnce ==
    ASSUME NEW m \in Nat, m >= 1, NEW c \in 0 .. m - 1, NEW d \in 0 .. m - 1,
           NEW x \in Nat, NEW y \in Nat, c + x * m = d + y * m
    PROVE  c = d /\ x = y
<1>1. ASSUME NEW u \in Nat, NEW v \in Nat, u < v,
             NEW a \in 0 .. m - 1, NEW b \in 0 .. m - 1
      PROVE  a + u * m < b + v * m
  <2>1. (u + 1) * m <= v * m /\ (u + 1) * m = u * m + m
    BY <1>1
  <2>2. QED  BY <1>1, <2>1
<1>2. x = y
  BY <1>1
<1>3. QED  BY <1>2

(* The position in the buffer of the n-th task of unit c.                  *)
Position(c, n) == c + 1 + (n - 1) * CoreNum
Turns(c)       == (DiviPathcount + CoreNum - 1 - c) \div CoreNum

LEMMA Positions ==
    ASSUME buffer \in Seq(Partial)
    PROVE  /\ CoreNum \in Nat /\ CoreNum >= 1
           /\ DiviPathcount \in 0 .. Len(buffer) /\ Len(buffer) \in Nat
           /\ \A c \in 0 .. CoreNum - 1 :
                /\ Turns(c) \in Nat
                /\ \A n \in 1 .. Turns(c) : Position(c, n) \in 1 .. DiviPathcount
           /\ \A c, d \in 0 .. CoreNum - 1 :
                \A n \in 1 .. Turns(c), o \in 1 .. Turns(d) :
                  Position(c, n) = Position(d, o) => c = d /\ n = o
           /\ \A i \in 1 .. DiviPathcount :
                \E c \in 0 .. CoreNum - 1 :
                  \E n \in 1 .. Turns(c) : i = Position(c, n)
<1>1. CoreNum \in Nat /\ CoreNum >= 1
  BY SplitAssumption
<1>2. Len(buffer) \in Nat
  BY LenProperties
<1>3. DiviPathcount \in 0 .. Len(buffer)
  BY <1>2 DEF DiviPathcount
<1> DEFINE d == DiviPathcount
<1>4. d \in Nat
  BY <1>2, <1>3
<1> HIDE DEF d
<1>5. ASSUME NEW c \in 0 .. CoreNum - 1
      PROVE  /\ Turns(c) \in Nat
             /\ \A n \in Nat : n <= Turns(c) <=>
                                 n * CoreNum <= d + CoreNum - 1 - c
  BY <1>1, <1>4, RoundUp DEF Turns, d
<1>6. ASSUME NEW c \in 0 .. CoreNum - 1, NEW n \in 1 .. Turns(c)
      PROVE  Position(c, n) \in 1 .. d
  <2>1. n \in Nat /\ n >= 1 /\ n <= Turns(c)
    BY <1>5
  <2>2. n * CoreNum <= d + CoreNum - 1 - c
    BY <1>5, <2>1
  <2>3. (n - 1) * CoreNum = n * CoreNum - CoreNum
    BY <1>1, <2>1
  <2>4. (n - 1) * CoreNum \in Nat
    BY <1>1, <2>1
  <2>5. n * CoreNum \in Nat
    BY <1>1, <2>1
  <2>6. QED  BY <1>1, <1>4, <2>2, <2>3, <2>4, <2>5 DEF Position
<1>7. ASSUME NEW c \in 0 .. CoreNum - 1, NEW b \in 0 .. CoreNum - 1,
             NEW n \in 1 .. Turns(c), NEW o \in 1 .. Turns(b),
             Position(c, n) = Position(b, o)
      PROVE  c = b /\ n = o
  <2>1. n - 1 \in Nat /\ o - 1 \in Nat
    BY <1>5
  <2>2. (n - 1) * CoreNum \in Nat /\ (o - 1) * CoreNum \in Nat
    BY <1>1, <2>1
  <2>3. c + (n - 1) * CoreNum = b + (o - 1) * CoreNum
    BY <1>1, <1>7, <2>2 DEF Position
  <2>4. c = b /\ n - 1 = o - 1
    BY <1>1, <2>1, <2>3, RoundOnce
  <2>5. QED  BY <1>5, <2>4
<1>8. ASSUME NEW i \in 1 .. d
      PROVE  \E c \in 0 .. CoreNum - 1 : \E n \in 1 .. Turns(c) : i = Position(c, n)
  <2> DEFINE a == i - 1
             c == a % CoreNum
             q == a \div CoreNum
  <2>1. /\ a \in Nat /\ a < d
    BY <1>4
  <2>2. c \in 0 .. CoreNum - 1 /\ q \in Nat /\ a = CoreNum * q + c
    BY <1>1, <2>1, DivFacts
  <2> HIDE DEF a, c, q
  <2>3. (q + 1) * CoreNum = CoreNum * q + CoreNum
    BY <1>1, <2>2
  <2>4. (q + 1) * CoreNum <= d + CoreNum - 1 - c
    BY <1>1, <1>4, <2>1, <2>2, <2>3
  <2>5. q + 1 \in 1 .. Turns(c)
    BY <1>5, <2>2, <2>4
  <2>6. i = Position(c, q + 1)
    <3>1. (q + 1 - 1) * CoreNum = CoreNum * q
      BY <1>1, <2>2
    <3>2. i = a + 1
      BY <1>4 DEF a
    <3>3. QED  BY <1>1, <2>1, <2>2, <3>1, <3>2 DEF Position
  <2>7. QED  BY <2>2, <2>5, <2>6
<1>9. QED  BY <1>1, <1>2, <1>3, <1>5, <1>6, <1>7, <1>8 DEF d

(* What unit c gets, seen through the positions.                           *)
LEMMA ShareFacts ==
    ASSUME buffer \in Seq(Partial), Simple(buffer), NEW c \in 0 .. CoreNum - 1
    PROVE  /\ Share(c) \in Seq(Partial) /\ Simple(Share(c))
           /\ \A p \in Range(Share(c)) :
                \E n \in 1 .. Turns(c) : p = buffer[Position(c, n)]
           /\ \A n \in 1 .. Turns(c) : buffer[Position(c, n)] \in Range(Share(c))
<1>1. /\ Turns(c) \in Nat /\ Len(buffer) \in Nat
      /\ DiviPathcount \in 0 .. Len(buffer)
      /\ \A n \in 1 .. Turns(c) : Position(c, n) \in 1 .. DiviPathcount
      /\ \A n, o \in 1 .. Turns(c) : Position(c, n) = Position(c, o) => n = o
  BY Positions
<1>2. \A n \in 1 .. Turns(c) : Position(c, n) \in 1 .. Len(buffer)
  BY <1>1
<1> DEFINE s == Share(c)
<1>3. s = [n \in 1 .. Turns(c) |-> buffer[Position(c, n)]]
  BY DEF Share, Turns, Position
<1> HIDE DEF s
<1>4. \A n \in 1 .. Turns(c) : buffer[Position(c, n)] \in Partial
  BY <1>2, RangeMember
<1>5. s \in [1 .. Turns(c) -> Partial]
  BY <1>3, <1>4
<1>6. s \in Seq(Partial) /\ Len(s) = Turns(c)
  <2>1. s \in Seq(Partial)
    BY <1>1, <1>5, SeqDef
  <2>2. DOMAIN s = 1 .. Len(s) /\ Len(s) \in Nat
    BY <2>1, LenProperties
  <2>3. QED  BY <1>1, <1>5, <2>1, <2>2
<1>7. Simple(s)
  <2>1. SUFFICES ASSUME NEW a \in 1 .. Turns(c), NEW b \in 1 .. Turns(c),
                        s[a] = s[b]
                 PROVE  a = b
    BY <1>6 DEF Simple
  <2>2. buffer[Position(c, a)] = buffer[Position(c, b)]
    BY <1>3, <2>1
  <2>3. Position(c, a) = Position(c, b)
    BY <1>2, <2>2 DEF Simple
  <2>4. QED  BY <1>1, <2>3
<1>8. /\ \A p \in Range(s) : \E n \in 1 .. Turns(c) : p = s[n]
      /\ \A n \in 1 .. Turns(c) : s[n] \in Range(s)
  BY <1>6, RangeMember
<1>9. /\ \A p \in Range(s) : \E n \in 1 .. Turns(c) : p = buffer[Position(c, n)]
      /\ \A n \in 1 .. Turns(c) : buffer[Position(c, n)] \in Range(s)
  BY <1>3, <1>8
<1>10. QED  BY <1>6, <1>7, <1>9 DEF s

LEMMA DealStep ==
    ASSUME SInv, Deal PROVE SInv' /\ PoolStep
<1>1. /\ pc = "deal" /\ pc' = "done" /\ buffer' = << >>
      /\ cpu' = SubSeq(buffer, DiviPathcount + 1, Len(buffer))
      /\ cus' = [c \in 0 .. CoreNum - 1 |-> Share(c)]
      /\ UNCHANGED <<jid, qpath, cur, nbr, ans>>
  BY DEF Deal
<1>2. /\ buffer \in Seq(Partial) /\ Simple(buffer) /\ qpath = << >>
      /\ jid \in JobId /\ Shares = {}
  BY <1>1 DEF SInv, Types, Once
<1>3. /\ ThisJob' = ThisJob /\ K' = K /\ Partial' = Partial
  BY <1>1, SameJob
<1>4. DiviPathcount \in 0 .. Len(buffer) /\ Len(buffer) \in Nat
  BY <1>2, Positions
<1>5. /\ cpu' \in Seq(Partial) /\ Simple(cpu')
      /\ \A p \in Range(cpu') :
           \E i \in DiviPathcount + 1 .. Len(buffer) : p = buffer[i]
      /\ \A i \in DiviPathcount + 1 .. Len(buffer) : buffer[i] \in Range(cpu')
  BY <1>1, <1>2, <1>4, CutStack, TopOfStack
<1>6. \A c \in 0 .. CoreNum - 1 :
        /\ cus'[c] = Share(c) /\ Share(c) \in Seq(Partial) /\ Simple(Share(c))
        /\ \A p \in Range(Share(c)) :
             \E n \in 1 .. Turns(c) : p = buffer[Position(c, n)]
        /\ \A n \in 1 .. Turns(c) : buffer[Position(c, n)] \in Range(Share(c))
  BY <1>1, <1>2, ShareFacts
<1>7. cus' \in [0 .. CoreNum - 1 -> Seq(Partial)]
  BY <1>1, <1>6
<1>8. Apart'
  <2>1. ASSUME NEW c \in 0 .. CoreNum - 1, NEW p \in Range(Share(c)),
               p \in Range(cpu')
        PROVE  FALSE
    <3>1. PICK n \in 1 .. Turns(c) : p = buffer[Position(c, n)]
      BY <1>6
    <3>2. PICK i \in DiviPathcount + 1 .. Len(buffer) : p = buffer[i]
      BY <1>5, <2>1
    <3>3. Position(c, n) \in 1 .. DiviPathcount
      BY <1>2, Positions
    <3>4. Position(c, n) # i
      BY <1>4, <3>3
    <3>5. Position(c, n) \in 1 .. Len(buffer) /\ i \in 1 .. Len(buffer)
      BY <1>4, <3>3
    <3>6. QED  BY <1>2, <3>1, <3>2, <3>4, <3>5 DEF Simple
  <2>2. ASSUME NEW c \in 0 .. CoreNum - 1, NEW d \in 0 .. CoreNum - 1, c # d,
               NEW p \in Range(Share(c)), p \in Range(Share(d))
        PROVE  FALSE
    <3>1. PICK n \in 1 .. Turns(c) : p = buffer[Position(c, n)]
      BY <1>6
    <3>2. PICK o \in 1 .. Turns(d) : p = buffer[Position(d, o)]
      BY <1>6, <2>2
    <3>3. /\ Position(c, n) \in 1 .. DiviPathcount
          /\ Position(d, o) \in 1 .. DiviPathcount
          /\ Position(c, n) # Position(d, o)
      BY <1>2, <2>2, Positions
    <3>4. Position(c, n) \in 1 .. Len(buffer) /\ Position(d, o) \in 1 .. Len(buffer)
      BY <1>4, <3>3
    <3>5. QED  BY <1>2, <3>1, <3>2, <3>3, <3>4 DEF Simple
  <2>3. QED  BY <1>5, <1>6, <2>1, <2>2 DEF Apart
<1>9. Shares' = Range(buffer)
  <2>1. Shares' = Range(cpu') \cup UNION { Range(Share(c)) : c \in 0 .. CoreNum - 1 }
    BY <1>6 DEF Shares
  <2>2. ASSUME NEW p \in Range(buffer) PROVE p \in Shares'
    <3>1. PICK i \in 1 .. Len(buffer) : p = buffer[i]
      BY <1>2, RangeMember
    <3>2. CASE i > DiviPathcount
      <4>1. i \in DiviPathcount + 1 .. Len(buffer)
        BY <1>4, <3>2
      <4>2. QED  BY <1>5, <2>1, <3>1, <4>1
    <3>3. CASE i <= DiviPathcount
      <4>1. i \in 1 .. DiviPathcount
        BY <1>4, <3>3
      <4>2. PICK c \in 0 .. CoreNum - 1 : \E n \in 1 .. Turns(c) : i = Position(c, n)
        BY <1>2, <4>1, Positions
      <4>3. p \in Range(Share(c))
        BY <1>6, <3>1, <4>2
      <4>4. QED  BY <2>1, <4>3
    <3>4. QED  BY <1>4, <3>2, <3>3
  <2>3. ASSUME NEW p \in Range(cpu') PROVE p \in Range(buffer)
    <3>1. PICK i \in DiviPathcount + 1 .. Len(buffer) : p = buffer[i]
      BY <1>5
    <3>2. i \in 1 .. Len(buffer)
      BY <1>4
    <3>3. QED  BY <1>2, <3>1, <3>2, RangeMember
  <2>4. ASSUME NEW c \in 0 .. CoreNum - 1, NEW p \in Range(Share(c))
        PROVE  p \in Range(buffer)
    <3>1. PICK n \in 1 .. Turns(c) : p = buffer[Position(c, n)]
      BY <1>6
    <3>2. Position(c, n) \in 1 .. DiviPathcount
      BY <1>2, Positions
    <3>3. Position(c, n) \in 1 .. Len(buffer)
      BY <1>4, <3>2
    <3>4. QED  BY <1>2, <3>1, <3>3, RangeMember
  <2>5. QED  BY <2>1, <2>2, <2>3, <2>4
<1>10. /\ Range(<< >>) = {} /\ Simple(<< >>)
       /\ << >> \in Seq(Partial)
  BY EmptyStack, EmptySeq
<1>11. Queued' = {} /\ Queued = Range(buffer) /\ Unsplit' = {}
  BY <1>1, <1>2, <1>10, PendingIsPrimed DEF Queued
<1>12. Pending' = Pending
  BY <1>1, <1>9, <1>11, PendingIs, PendingIsPrimed DEF SInv
<1>13. Types'
  BY <1>1, <1>2, <1>3, <1>5, <1>7, <1>10 DEF SInv, Types
<1>14. Once'
  BY <1>1, <1>2, <1>10, <1>11 DEF Once
<1>15. Open'
  BY <1>1, <1>3, <1>9, <1>11 DEF SInv, Open
<1>16. PoolStep
  BY <1>1, <1>12 DEF PoolStep, StillStep
<1>17. QED  BY <1>8, <1>13, <1>14, <1>15, <1>16, AccountStep DEF SInv

LEMMA SStep == SInv /\ [Next]_vars => SInv' /\ PoolStep
<1>1. SUFFICES ASSUME SInv, [Next]_vars PROVE SInv' /\ PoolStep
  OBVIOUS
<1>2. CASE UNCHANGED vars
  <2>1. /\ ThisJob' = ThisJob /\ K' = K /\ Partial' = Partial /\ Row' = Row
        /\ Queued' = Queued /\ Shares' = Shares /\ Unsplit' = Unsplit
        /\ Pending' = Pending
    BY <1>2 DEF vars, ThisJob, K, Partial, Row, Queued, Shares, Unsplit, Pending
  <2>2. Types' /\ Once' /\ Open' /\ Apart'
    BY <1>1, <1>2, <2>1 DEF vars, SInv, Types, Once, Open, Apart
  <2>3. PoolStep
    BY <1>2, <2>1 DEF vars, PoolStep, StillStep
  <2>4. QED  BY <1>1, <2>2, <2>3, AccountStep DEF SInv
<1>3. QED
  BY <1>1, <1>2, BreakStep, MoveStep, StartStep, LookStep, PushStep, EndStep,
     DealStep DEF Next, Dealt

LEMMA SInvariant == Spec => []SInv
BY SInit, SStep, PTL DEF Spec

-----------------------------------------------------------------------------
(* The theorems.                                                           *)

(* A path in the queue, among the tasks or in a share has at most k / 2    *)
(* hops.                                                                   *)
THEOREM TypeCorrect == Spec => []TypeOK
<1>1. SInv => TypeOK
  <2>1. SUFFICES ASSUME SInv PROVE TypeOK
    OBVIOUS
  <2>2. \A s \in Seq(Partial) : Paths(s)
    BY RangeMember DEF Paths
  <2>3. QED  BY <2>1, <2>2 DEF SInv, Types, TypeOK
<1>2. QED  BY <1>1, SInvariant, PTL

LEMMA PoolWords ==
    /\ Pool!ThisJob = ThisJob
    /\ \A p : Pool!Closing(ThisJob, p) <=> Closing(ThisJob, p)
    /\ \A p : Pool!Children(ThisJob, p) = Children(ThisJob, p)
<1>1. Pool!ThisJob = ThisJob
  BY DEF Pool!ThisJob, ThisJob
<1>2. \A p : Pool!Closing(ThisJob, p) <=> Closing(ThisJob, p)
  BY DEF Pool!Closing, Closing, Pool!End, End
<1>3. \A p : Pool!Nbrs(ThisJob, End(p)) = Nbrs(ThisJob, End(p))
  BY NbrsListed DEF Pool!Nbrs, Pool!Range
<1>4. \A p : Pool!Children(ThisJob, p) = Children(ThisJob, p)
  BY <1>3
     DEF Pool!Children, Children, Pool!Admits, Admits, Pool!Layer, Layer,
         Pool!LayerMod, LayerMod, Pool!NotVisited, NotVisited, Pool!End, End
<1>5. QED  BY <1>1, <1>2, <1>4

LEMMA InitMaps == Init => Pool!PoolInit
<1>1. SUFFICES ASSUME Init PROVE Pool!PoolInit
  OBVIOUS
<1>2. /\ jid \in JobId /\ ans = 0 /\ Pending = Range(ThisJob.tasks)
  BY <1>1, SInit DEF Init
<1>3. QED  BY <1>2 DEF Pool!PoolInit, ThisJob, Pool!Range, Range

LEMMA StepMaps == PoolStep => [Pool!PoolNext]_(Pool!poolVars)
<1>1. SUFFICES ASSUME PoolStep PROVE [Pool!PoolNext]_(Pool!poolVars)
  OBVIOUS
<1>2. CASE SplitStep
  <2>1. PICK p \in Pending : /\ ~ Closing(ThisJob, p)
                             /\ Pending' = Expanded(ThisJob, Pending, {p})
    BY <1>2 DEF SplitStep
  <2>2. {p} \in SUBSET Pending /\ {p} # {} /\ \A q \in {p} : ~ Closing(ThisJob, q)
    BY <2>1
  <2>3. Pool!Expand({p})
    BY <1>1, <1>2, <2>1, <2>2, PoolWords
       DEF Pool!Expand, Expanded, SplitStep, PoolStep
  <2>4. QED  BY <2>2, <2>3 DEF Pool!PoolNext
<1>3. CASE CountStep
  <2>1. PICK p \in Pending : Closing(ThisJob, p) /\ Pending' = Pending \ {p}
    BY <1>3 DEF CountStep
  <2>2. Pool!Emit(p)
    BY <1>1, <1>3, <2>1, PoolWords DEF Pool!Emit, CountStep, PoolStep
  <2>3. QED  BY <2>2 DEF Pool!PoolNext
<1>4. CASE StillStep
  BY <1>1, <1>4 DEF StillStep, PoolStep, Pool!poolVars
<1>5. QED  BY <1>1, <1>2, <1>3, <1>4 DEF PoolStep

(* generate_subtask_on_CSR and the dealing replace a path by all its       *)
(* children, count one that closes, or move paths about: none is lost,     *)
(* counted twice or handed out twice.                                      *)
THEOREM SplittingImplementsPool == Spec => ImplementsPool
BY InitMaps, SInit, SStep, StepMaps, PTL
   DEF Spec, ImplementsPool, Pool!PoolSpec

-----------------------------------------------------------------------------
(* How many tasks there may be.  The queue is in the order of the hops     *)
(* (Ordered).  While paths have two hops at most, there are no more than   *)
(* the graph has; from then on each split starts within the thresholds     *)
(* and adds one row (Width).                                               *)
Root   == ThisJob.tasks[1]
OneHop == Children(ThisJob, Root)
TwoHop == UNION { Children(ThisJob, p) : p \in OneHop }

Level(p) == /\ Len(p) <= 1 => p = Root
            /\ Len(p) <= 2 => p \in {Root} \cup OneHop
            /\ Len(p) <= 3 => p \in {Root} \cup OneHop \cup TwoHop

Levels == /\ \A p \in Queued : Level(p)
          /\ pc = "split" => Level(cur)

Ordered ==
    /\ \A a, b \in 1 .. Len(qpath) :
         a <= b => Len(qpath[a]) <= Len(qpath[b]) /\ Len(qpath[b]) <= Len(qpath[a]) + 1
    /\ pc = "split" =>
         \A a \in 1 .. Len(qpath) :
           Len(cur) <= Len(qpath[a]) /\ Len(qpath[a]) <= Len(cur) + 1

Few     == \A p \in Queued : Len(p) <= 3
AllDeep == \A p \in Range(qpath) : Len(p) >= 3

Width ==
    /\ pc = "loop" =>
         \/ Few
         \/ /\ AllDeep /\ Len(buffer) <= Enough
            /\ \E v \in Node(ThisJob) : Len(qpath) <= Bloat + Len(ThisJob.adj[v])
    /\ pc = "split" =>
         \/ Len(cur) <= 2 /\ Few
         \/ /\ Len(cur) >= 3 /\ Len(buffer) <= Enough
            /\ Len(qpath) + 1 <= Bloat + nbr
    /\ pc \in {"drain", "deal"} =>
         \/ Few
         \/ \E v \in Node(ThisJob) :
              Len(buffer) + Len(qpath) <= Enough + Bloat + Len(ThisJob.adj[v])

BInv == Levels /\ Ordered /\ Width

LEMMA LevelKept ==
    ASSUME jid' = jid PROVE \A p : Level(p)' <=> Level(p)
BY SameJob DEF Level, Root, OneHop, TwoHop

LEMMA QueueFacts ==
    ASSUME SInv
    PROVE  /\ qpath \in Seq(Partial) /\ buffer \in Seq(Partial)
           /\ Len(qpath) \in Nat /\ Len(buffer) \in Nat
           /\ \A p \in Partial : Len(p) \in Nat /\ Len(p) >= 1
           /\ \A a \in 1 .. Len(qpath) : qpath[a] \in Range(qpath) /\ qpath[a] \in Partial
           /\ Range(qpath) \subseteq Partial /\ Range(buffer) \subseteq Partial
           /\ jid \in JobId /\ Enough \in Nat /\ Enough >= 1 /\ Bloat \in Nat
           /\ \A v \in Node(ThisJob) : Len(ThisJob.adj[v]) \in Nat
<1>1. /\ qpath \in Seq(Partial) /\ buffer \in Seq(Partial) /\ jid \in JobId
  BY DEF SInv, Types
<1>2. \A p \in Partial : Len(p) \in Nat /\ Len(p) >= 1
  BY <1>1, JobFacts DEF Partial
<1>3. \A v \in Node(ThisJob) : Len(ThisJob.adj[v]) \in Nat
  BY <1>1, JobFacts, LenProperties
<1>4. /\ Enough \in Nat /\ Enough >= 1 /\ Bloat \in Nat
  BY SplitAssumption
<1>5. QED  BY <1>1, <1>2, <1>3, <1>4, RangeMember, LenProperties

LEMMA BInit == SInv /\ Init => BInv
<1>1. SUFFICES ASSUME SInv, Init PROVE BInv
  OBVIOUS
<1>2. /\ jid \in JobId /\ pc \in {"loop", "drain"}
      /\ qpath = ThisJob.tasks /\ buffer = << >>
  BY <1>1 DEF Init
<1>3. Len(qpath) = 1 /\ qpath[1] = Root /\ Len(Root) = 1
  BY <1>2, JobFacts DEF Root
<1>4. \A p \in Queued : p = Root
  <2>1. ASSUME NEW p \in Range(qpath) PROVE p = Root
    <3>1. PICK a \in 1 .. Len(qpath) : p = qpath[a]
      BY <1>1, QueueFacts, RangeMember
    <3>2. QED  BY <1>3, <3>1
  <2>2. Range(buffer) = {}
    BY <1>2, EmptyStack
  <2>3. QED  BY <2>1, <2>2 DEF Queued
<1>5. Levels /\ Few
  <2>1. Level(Root)
    BY DEF Level
  <2>2. Few
    BY <1>3, <1>4 DEF Few
  <2>3. QED  BY <1>2, <1>4, <2>1, <2>2 DEF Levels
<1>6. Ordered
  BY <1>2, <1>3 DEF Ordered
<1>7. QED  BY <1>2, <1>5, <1>6 DEF Width, BInv

LEMMA BBreak ==
    ASSUME SInv, BInv, LoopBreak \/ Drained PROVE BInv'
<1>1. /\ \/ pc = "loop" /\ pc' = "drain"
         \/ pc = "drain" /\ pc' = "deal"
      /\ UNCHANGED <<jid, qpath, buffer>>
  BY DEF LoopBreak, Drained
<1>2. Queued' = Queued /\ ThisJob' = ThisJob
  BY <1>1, SameJob DEF Queued
<1>3. Levels' /\ Ordered'
  BY <1>1, <1>2, LevelKept DEF BInv, Levels, Ordered
<1>4. Few' <=> Few
  BY <1>2 DEF Few
<1>5. Width'
  <2>1. CASE Few
    BY <1>1, <1>4, <2>1 DEF Width
  <2>2. CASE ~ Few /\ pc = "loop"
    <3>1. /\ Len(buffer) <= Enough
          /\ \E v \in Node(ThisJob) : Len(qpath) <= Bloat + Len(ThisJob.adj[v])
      BY <2>2 DEF BInv, Width
    <3>2. \E v \in Node(ThisJob) :
            Len(buffer) + Len(qpath) <= Enough + Bloat + Len(ThisJob.adj[v])
      BY <3>1, QueueFacts
    <3>3. QED  BY <1>1, <1>2, <2>2, <3>2 DEF Width
  <2>3. CASE ~ Few /\ pc = "drain"
    BY <1>1, <1>2, <2>3 DEF BInv, Width
  <2>4. QED  BY <1>1, <2>1, <2>2, <2>3
<1>6. QED  BY <1>3, <1>5 DEF BInv

(* What a path taken from the queue leaves behind.                         *)
LEMMA HeadFacts ==
    ASSUME SInv, qpath # << >>
    PROVE  /\ Head(qpath) = qpath[1] /\ Head(qpath) \in Range(qpath)
           /\ Head(qpath) \in Partial /\ Head(qpath) \in Queued
           /\ Tail(qpath) \in Seq(Partial)
           /\ Range(Tail(qpath)) = Range(qpath) \ {Head(qpath)}
           /\ Len(qpath) \in Nat \ {0} /\ Len(Tail(qpath)) = Len(qpath) - 1
           /\ \A a \in 1 .. Len(qpath) - 1 : Tail(qpath)[a] = qpath[a + 1]
<1>1. qpath \in Seq(Partial) /\ Simple(qpath)
  BY DEF SInv, Types, Once
<1>2. QED  BY <1>1, TakeHead DEF Queued

LEMMA TailOrdered ==
    ASSUME SInv, Ordered, qpath # << >>, qpath' = Tail(qpath)
    PROVE  /\ \A a, b \in 1 .. Len(qpath') :
                a <= b => /\ Len(qpath'[a]) <= Len(qpath'[b])
                          /\ Len(qpath'[b]) <= Len(qpath'[a]) + 1
           /\ \A a \in 1 .. Len(qpath') :
                /\ Len(Head(qpath)) <= Len(qpath'[a])
                /\ Len(qpath'[a]) <= Len(Head(qpath)) + 1
<1>1. /\ Head(qpath) = qpath[1] /\ Len(qpath) \in Nat \ {0}
      /\ Len(qpath') = Len(qpath) - 1
      /\ \A a \in 1 .. Len(qpath) - 1 : qpath'[a] = qpath[a + 1]
  BY HeadFacts
<1>2. \A a \in 1 .. Len(qpath') : a + 1 \in 1 .. Len(qpath) /\ qpath'[a] = qpath[a + 1]
  BY <1>1
<1>3. /\ \A a, b \in 1 .. Len(qpath) :
           a <= b => Len(qpath[a]) <= Len(qpath[b]) /\ Len(qpath[b]) <= Len(qpath[a]) + 1
      /\ 1 \in 1 .. Len(qpath)
  BY <1>1 DEF Ordered
<1>4. ASSUME NEW a \in 1 .. Len(qpath'), NEW b \in 1 .. Len(qpath'), a <= b
      PROVE  /\ Len(qpath'[a]) <= Len(qpath'[b])
             /\ Len(qpath'[b]) <= Len(qpath'[a]) + 1
  <2>1. a + 1 <= b + 1
    BY <1>4
  <2>2. QED  BY <1>2, <1>3, <2>1
<1>5. ASSUME NEW a \in 1 .. Len(qpath')
      PROVE  /\ Len(Head(qpath)) <= Len(qpath'[a])
             /\ Len(qpath'[a]) <= Len(Head(qpath)) + 1
  <2>1. 1 <= a + 1
    BY <1>5
  <2>2. QED  BY <1>1, <1>2, <1>3, <2>1
<1>6. QED  BY <1>4, <1>5

LEMMA BMove ==
    ASSUME SInv, BInv, Archive \/ Drain PROVE BInv'
<1>1. /\ pc \in {"loop", "drain"} /\ pc' = pc /\ qpath # << >>
      /\ buffer' = Append(buffer, Head(qpath)) /\ qpath' = Tail(qpath)
      /\ jid' = jid
      /\ pc = "loop" => ~ Break
  BY DEF Archive, Drain, Looping, Archived
<1>2. /\ Head(qpath) \in Range(qpath) /\ Head(qpath) \in Partial
      /\ Range(qpath') = Range(qpath) \ {Head(qpath)}
      /\ Len(qpath) \in Nat \ {0} /\ Len(qpath') = Len(qpath) - 1
  BY <1>1, HeadFacts
<1>3. /\ buffer \in Seq(Partial) /\ Simple(buffer)
      /\ Head(qpath) \notin Range(buffer)
  BY <1>2 DEF SInv, Types, Once
<1>4. /\ Range(buffer') = Range(buffer) \cup {Head(qpath)}
      /\ Len(buffer') = Len(buffer) + 1 /\ Len(buffer) \in Nat
  BY <1>1, <1>2, <1>3, PushStack, AppendProperties, LenProperties
<1>5. Queued' = Queued /\ ThisJob' = ThisJob
  BY <1>1, <1>2, <1>4, SameJob DEF Queued
<1>6. Levels'
  BY <1>1, <1>5, LevelKept DEF BInv, Levels
<1>7. Ordered'
  BY <1>1, TailOrdered DEF BInv, Ordered
<1>8. Few' <=> Few
  BY <1>5 DEF Few
<1>9. Width'
  <2>1. CASE Few
    BY <1>1, <1>8, <2>1 DEF Width
  <2>2. CASE ~ Few /\ pc = "loop"
    <3>1. PICK v \in Node(ThisJob) : /\ AllDeep /\ Len(buffer) <= Enough
                                     /\ Len(qpath) <= Bloat + Len(ThisJob.adj[v])
      BY <2>2 DEF BInv, Width
    <3>2. AllDeep' /\ Len(Head(qpath)) >= 3
      BY <1>2, <3>1 DEF AllDeep
    <3>3. Hop >= 2
      BY <1>2, <3>2, QueueFacts DEF Hop, Layer
    <3>4. ~ EnoughTasks
      BY <1>1, <2>2, <3>3 DEF Break
    <3>5. Len(buffer) < Enough
      BY <1>4, <3>4, QueueFacts DEF EnoughTasks
    <3>6. Len(buffer') <= Enough /\ Len(qpath') <= Bloat + Len(ThisJob.adj[v])
      BY <1>2, <1>4, <3>1, <3>5, QueueFacts, SMTT(30)
    <3>7. QED  BY <1>1, <1>5, <2>2, <3>2, <3>6 DEF Width
  <2>3. CASE ~ Few /\ pc = "drain"
    <3>1. PICK v \in Node(ThisJob) :
            Len(buffer) + Len(qpath) <= Enough + Bloat + Len(ThisJob.adj[v])
      BY <2>3 DEF BInv, Width
    <3>2. Len(buffer') + Len(qpath') = Len(buffer) + Len(qpath)
      BY <1>2, <1>4
    <3>3. Len(buffer') + Len(qpath') <= Enough + Bloat + Len(ThisJob.adj[v])
      BY <3>1, <3>2
    <3>4. QED  BY <1>1, <1>5, <2>3, <3>3 DEF Width
  <2>4. QED  BY <1>1, <2>1, <2>2, <2>3
<1>10. QED  BY <1>6, <1>7, <1>9 DEF BInv

LEMMA BStart ==
    ASSUME SInv, BInv, SplitStart PROVE BInv'
<1>1. /\ pc = "loop" /\ pc' = "split" /\ qpath # << >> /\ ~ Break
      /\ cur' = Head(qpath) /\ nbr' = 0 /\ qpath' = Tail(qpath)
      /\ jid' = jid /\ buffer' = buffer
  BY DEF SplitStart, Looping
<1>2. /\ Head(qpath) \in Range(qpath) /\ Head(qpath) \in Partial
      /\ Head(qpath) \in Queued
      /\ Range(qpath') = Range(qpath) \ {Head(qpath)}
      /\ Len(qpath) \in Nat \ {0} /\ Len(qpath') = Len(qpath) - 1
      /\ Len(Head(qpath)) \in Nat
  BY <1>1, HeadFacts, QueueFacts
<1>3. Queued' \subseteq Queued
  BY <1>1, <1>2 DEF Queued
<1>4. Levels'
  BY <1>1, <1>2, <1>3, LevelKept DEF BInv, Levels
<1>5. Ordered'
  BY <1>1, TailOrdered DEF BInv, Ordered
<1>6. Width'
  <2>1. CASE Len(Head(qpath)) <= 2
    <3>1. ~ AllDeep
      BY <1>2, <2>1 DEF AllDeep
    <3>2. Few
      BY <1>1, <3>1 DEF BInv, Width
    <3>3. Few'
      BY <1>3, <3>2 DEF Few
    <3>4. QED  BY <1>1, <2>1, <3>3 DEF Width
  <2>2. CASE Len(Head(qpath)) >= 3
    <3>1. Hop >= 2
      BY <1>2, <2>2 DEF Hop, Layer
    <3>2. ~ EnoughTasks
      BY <1>1, <3>1 DEF Break
    <3>3. Len(buffer) <= Enough /\ Len(qpath) <= Bloat
      BY <1>2, <3>2, QueueFacts DEF EnoughTasks
    <3>4. Len(qpath') + 1 <= Bloat + nbr'
      BY <1>1, <1>2, <3>3, QueueFacts
    <3>5. QED  BY <1>1, <2>2, <3>3, <3>4 DEF Width
  <2>3. QED  BY <1>2, <2>1, <2>2
<1>7. QED  BY <1>4, <1>5, <1>6 DEF BInv

LEMMA BLook ==
    ASSUME SInv, BInv, SplitCount \/ SplitSkip PROVE BInv'
<1>1. /\ pc = "split" /\ pc' = pc /\ nbr' = nbr + 1 /\ Splitting
      /\ UNCHANGED <<jid, qpath, buffer, cur>>
  BY DEF SplitCount, SplitSkip, Splitting
<1>2. Queued' = Queued
  BY <1>1 DEF Queued
<1>3. Levels' /\ Ordered'
  BY <1>1, <1>2, LevelKept DEF BInv, Levels, Ordered
<1>4. Few' <=> Few
  BY <1>2 DEF Few
<1>5. nbr \in Nat
  BY DEF SInv, Types
<1>6. Len(qpath) + 1 <= Bloat + nbr => Len(qpath') + 1 <= Bloat + nbr'
  BY <1>1, <1>5, QueueFacts
<1>7. Width'
  BY <1>1, <1>4, <1>6 DEF BInv, Width
<1>8. QED  BY <1>3, <1>7 DEF BInv

LEMMA BPush ==
    ASSUME SInv, BInv, SplitPush PROVE BInv'
<1> DEFINE c == Append(cur, V)
<1>1. /\ pc = "split" /\ pc' = pc /\ nbr' = nbr + 1 /\ Splitting
      /\ Near(V) /\ Unvisited(V) /\ qpath' = Append(qpath, c)
      /\ UNCHANGED <<jid, buffer, cur>>
  BY DEF SplitPush, Splitting
<1>2. /\ c \in Children(ThisJob, cur) /\ c \in Partial /\ Len(c) = Len(cur) + 1
      /\ c \in Unsplit
  BY <1>1, SplitTests
<1>3. Len(cur) \in Nat /\ Len(cur) >= 1 /\ nbr \in Nat
  BY <1>1, SplitFacts DEF SInv, Types
<1>4. c \notin Range(qpath) /\ Simple(qpath) /\ qpath \in Seq(Partial)
  BY <1>2 DEF SInv, Once, Queued, Types
<1>5. Level(c)
  <2>1. Level(cur)
    BY <1>1 DEF BInv, Levels
  <2>2. Len(cur) <= 1 => c \in OneHop
    BY <1>2, <2>1 DEF Level, OneHop
  <2>3. Len(cur) <= 2 => c \in OneHop \cup TwoHop
    <3>1. ASSUME Len(cur) <= 2 PROVE c \in OneHop \cup TwoHop
      <4>1. cur = Root \/ cur \in OneHop
        BY <2>1, <3>1 DEF Level
      <4>2. QED  BY <1>2, <4>1 DEF OneHop, TwoHop
    <3>2. QED  BY <3>1
  <2> HIDE DEF c
  <2>4. Len(c) = Len(cur) + 1
    BY <1>2
  <2>5. /\ ~ Len(c) <= 1
        /\ Len(c) <= 2 => Len(cur) <= 1
        /\ Len(c) <= 3 => Len(cur) <= 2
    BY <1>3, <2>4
  <2>6. QED  BY <2>2, <2>3, <2>5 DEF Level
<1> HIDE DEF c
<1>6. /\ Range(qpath') = Range(qpath) \cup {c} /\ Len(qpath) \in Nat
      /\ Len(qpath') = Len(qpath) + 1
      /\ \A a \in 1 .. Len(qpath) : qpath'[a] = qpath[a]
      /\ qpath'[Len(qpath) + 1] = c
  BY <1>1, <1>2, <1>4, PushStack, AppendProperties, LenProperties
<1>7. Queued' = Queued \cup {c}
  BY <1>1, <1>6 DEF Queued
<1>8. Levels'
  BY <1>1, <1>5, <1>7, LevelKept DEF BInv, Levels
<1>9. Ordered'
  <2>1. /\ \A a, b \in 1 .. Len(qpath) :
             a <= b => /\ Len(qpath[a]) <= Len(qpath[b])
                       /\ Len(qpath[b]) <= Len(qpath[a]) + 1
        /\ \A a \in 1 .. Len(qpath) :
             Len(cur) <= Len(qpath[a]) /\ Len(qpath[a]) <= Len(cur) + 1
    BY <1>1 DEF BInv, Ordered
  <2>2. \A a \in 1 .. Len(qpath') :
          \/ a \in 1 .. Len(qpath) /\ qpath'[a] = qpath[a]
          \/ a = Len(qpath) + 1 /\ qpath'[a] = c
    BY <1>6
  <2>3. \A a \in 1 .. Len(qpath') :
          Len(cur) <= Len(qpath'[a]) /\ Len(qpath'[a]) <= Len(cur) + 1
    <3>1. ASSUME NEW a \in 1 .. Len(qpath')
          PROVE  Len(cur) <= Len(qpath'[a]) /\ Len(qpath'[a]) <= Len(cur) + 1
      <4>1. CASE a \in 1 .. Len(qpath) /\ qpath'[a] = qpath[a]
        BY <2>1, <4>1
      <4>2. CASE qpath'[a] = c
        <5>1. Len(qpath'[a]) = Len(cur) + 1
          BY <1>2, <4>2
        <5>2. QED  BY <1>3, <5>1
      <4>3. QED  BY <2>2, <4>1, <4>2
    <3>2. QED  BY <3>1
  <2>4. \A a \in 1 .. Len(qpath) : Len(qpath[a]) \in Nat
    BY QueueFacts
  <2>5. ASSUME NEW a \in 1 .. Len(qpath'), NEW b \in 1 .. Len(qpath'), a <= b
        PROVE  /\ Len(qpath'[a]) <= Len(qpath'[b])
               /\ Len(qpath'[b]) <= Len(qpath'[a]) + 1
    <3>1. CASE b \in 1 .. Len(qpath)
      <4>1. a \in 1 .. Len(qpath)
        BY <1>6, <2>5, <3>1
      <4>2. QED  BY <1>6, <2>1, <2>5, <3>1, <4>1
    <3>2. CASE b = Len(qpath) + 1
      <4>1. qpath'[b] = c /\ Len(qpath'[b]) = Len(cur) + 1
        BY <1>2, <1>6, <3>2
      <4>2. Len(qpath'[a]) \in Nat
        BY <1>2, <1>3, <2>2, <2>4
      <4>3. QED  BY <1>3, <2>3, <4>1, <4>2
    <3>3. QED  BY <2>2, <3>1, <3>2
  <2>6. QED  BY <1>1, <2>3, <2>5 DEF Ordered
<1>10. Width'
  <2>1. CASE Len(cur) <= 2 /\ Few
    <3>1. Few'
      BY <1>2, <1>3, <1>7, <2>1 DEF Few
    <3>2. QED  BY <1>1, <2>1, <3>1 DEF Width
  <2>2. CASE /\ Len(cur) >= 3 /\ Len(buffer) <= Enough
             /\ Len(qpath) + 1 <= Bloat + nbr
    <3>1. Len(qpath') + 1 <= Bloat + nbr'
      BY <1>1, <1>3, <1>6, <2>2, QueueFacts
    <3>2. QED  BY <1>1, <2>2, <3>1 DEF Width
  <2>3. QED  BY <1>1, <2>1, <2>2 DEF BInv, Width
<1>11. QED  BY <1>8, <1>9, <1>10 DEF BInv

LEMMA BEnd ==
    ASSUME SInv, BInv, SplitEnd PROVE BInv'
<1>1. /\ pc = "split" /\ pc' = "loop" /\ nbr = Len(Row)
      /\ UNCHANGED <<jid, qpath, buffer, cur>>
  BY DEF SplitEnd
<1>2. Queued' = Queued /\ ThisJob' = ThisJob
  BY <1>1, SameJob DEF Queued
<1>3. Levels' /\ Ordered'
  BY <1>1, <1>2, LevelKept DEF BInv, Levels, Ordered
<1>4. Few' <=> Few
  BY <1>2 DEF Few
<1>5. Width'
  <2>1. CASE Few
    BY <1>1, <1>4, <2>1 DEF Width
  <2>2. CASE ~ Few
    <3>1. /\ Len(cur) >= 3 /\ Len(buffer) <= Enough
          /\ Len(qpath) + 1 <= Bloat + nbr
      BY <1>1, <2>2 DEF BInv, Width
    <3>2. /\ JobOK(ThisJob) /\ Viable(ThisJob, cur) /\ ~ Closing(ThisJob, cur)
          /\ Len(cur) \in Nat
      BY <1>1, JobFacts, OpenIsShort DEF SInv, Types, Open
    <3>3. End(cur) \in Node(ThisJob) /\ Row = ThisJob.adj[End(cur)]
      BY <3>2, OpenIsShort DEF Row
    <3>4. Len(qpath) <= Bloat + Len(ThisJob.adj[End(cur)])
      BY <1>1, <3>1, <3>3, QueueFacts
    <3>5. AllDeep
      <4>1. ASSUME NEW p \in Range(qpath) PROVE Len(p) >= 3
        <5>1. PICK a \in 1 .. Len(qpath) : p = qpath[a]
          BY QueueFacts, RangeMember
        <5>2. Len(cur) <= Len(p) /\ Len(p) \in Nat
          BY <1>1, <5>1, QueueFacts DEF BInv, Ordered
        <5>3. QED  BY <3>1, <3>2, <5>2
      <4>2. QED  BY <4>1 DEF AllDeep
    <3>6. AllDeep'
      BY <1>1, <3>5 DEF AllDeep
    <3>7. QED  BY <1>1, <1>2, <3>1, <3>3, <3>4, <3>6 DEF Width
  <2>3. QED  BY <2>1, <2>2
<1>6. QED  BY <1>3, <1>5 DEF BInv

LEMMA BStep == SInv /\ BInv /\ [Next]_vars => BInv'
<1>1. SUFFICES ASSUME SInv, BInv, [Next]_vars PROVE BInv'
  OBVIOUS
<1>2. CASE UNCHANGED vars
  <2>1. Queued' = Queued /\ ThisJob' = ThisJob /\ jid' = jid
    BY <1>2, SameJob DEF vars, Queued
  <2>2. (Few' <=> Few) /\ (AllDeep' <=> AllDeep)
    BY <1>2, <2>1 DEF vars, Few, AllDeep
  <2>3. Levels' /\ Ordered'
    BY <1>1, <1>2, <2>1, LevelKept DEF vars, BInv, Levels, Ordered
  <2>4. Width'
    BY <1>1, <1>2, <2>1, <2>2 DEF vars, BInv, Width
  <2>5. QED  BY <2>3, <2>4 DEF BInv
<1>3. CASE Deal
  <2>1. SInv' /\ pc' = "done"
    BY <1>1, <1>3, DealStep DEF Deal
  <2>2. /\ qpath' = << >> /\ buffer' = << >>
    BY <2>1 DEF SInv, Types
  <2>3. Queued' = {}
    BY <2>2, EmptyStack DEF Queued
  <2>4. Len(qpath') = 0
    BY <2>2
  <2>5. QED  BY <2>1, <2>3, <2>4 DEF BInv, Levels, Ordered, Width
<1>4. QED
  BY <1>1, <1>2, <1>3, BBreak, BMove, BStart, BLook, BPush, BEnd
     DEF Next, Dealt

LEMMA BInvariant == Spec => [](SInv /\ BInv)
BY SInit, SStep, BInit, BStep, PTL DEF Spec

-----------------------------------------------------------------------------
(* Counting paths.                                                         *)

(* A path has at most one child for each entry of its end's row.           *)
LEMMA ChildrenCounted ==
    ASSUME NEW j, JobOK(j), NEW p, Viable(j, p)
    PROVE  /\ IsFiniteSet(Children(j, p))
           /\ Cardinality(Children(j, p)) <= Len(j.adj[End(p)])
           /\ Len(j.adj[End(p)]) \in Nat
<1> DEFINE row == j.adj[End(p)]
           f == [i \in 1 .. Len(row) |-> Append(p, row[i])]
           T == { Append(p, row[i]) : i \in 1 .. Len(row) }
<1>1. End(p) \in Node(j)
  <2>1. p \in Seq(Node(j)) /\ Len(p) >= 1
    BY DEF Viable
  <2>2. Len(p) \in 1 .. Len(p)
    BY <2>1, LenProperties
  <2>3. QED  BY <2>1, <2>2, RangeMember DEF End
<1>2. row \in Seq(Node(j) \ {0})
  BY <1>1 DEF JobOK, GraphOK
<1>3. Len(row) \in Nat
  BY <1>2, LenProperties
<1>4. f \in Surjection(1 .. Len(row), T)
  BY DEF Surjection
<1>5. IsFiniteSet(1 .. Len(row)) /\ Cardinality(1 .. Len(row)) = Len(row)
  BY <1>3, FS_Interval, SMTT(30)
<1>6. IsFiniteSet(T) /\ Cardinality(T) <= Len(row)
  <2> HIDE DEF f, T
  <2>1. QED  BY <1>4, <1>5, FS_Surjection
<1>7. Children(j, p) \subseteq T
  <2>1. ASSUME NEW c \in Children(j, p) PROVE c \in T
    <3>1. PICK v \in Nbrs(j, End(p)) : c = Append(p, v)
      BY <2>1 DEF Children
    <3>2. PICK i \in 1 .. Len(row) : v = row[i]
      BY <1>2, NbrsListed, RangeMember
    <3>3. QED  BY <3>1, <3>2
  <2>2. QED  BY <2>1
<1>8. /\ IsFiniteSet(Children(j, p))
      /\ Cardinality(Children(j, p)) <= Cardinality(T)
      /\ Cardinality(Children(j, p)) \in Nat /\ Cardinality(T) \in Nat
  <2> HIDE DEF T
  <2>1. Children(j, p) \in SUBSET T
    BY <1>7
  <2>2. QED  BY <1>6, <2>1, FS_Subset, FS_CardinalityType
<1>9. QED
  <2> HIDE DEF T, row
  <2>1. QED  BY <1>3, <1>6, <1>8 DEF row

(* The root, if it is still whole, is the only path pending.               *)
LEMMA RootAlone ==
    ASSUME SInv, Root \in Pending PROVE Pending = {Root}
<1>1. /\ AntiChain(Pending) /\ ViableAll(ThisJob, Pending) /\ jid \in JobId
  BY DEF SInv, Types, Accounts
<1>2. Len(ThisJob.tasks) = 1
  BY <1>1, JobFacts
<1>3. ASSUME NEW p \in Pending PROVE p = Root
  <2>1. Viable(ThisJob, p)
    BY <1>1 DEF ViableAll
  <2>2. PICK i \in 1 .. Len(ThisJob.tasks) : Prefix(ThisJob.tasks[i], p)
    BY <2>1 DEF Viable
  <2>3. i = 1
    BY <1>2
  <2>4. Prefix(Root, p)
    BY <2>2, <2>3 DEF Root
  <2>5. QED  BY <1>1, <2>4 DEF AntiChain
<1>4. QED  BY <1>3

(* The paths of two hops at most.                                          *)
LEMMA FewCounted ==
    ASSUME jid \in JobId
    PROVE  /\ IsFiniteSet(OneHop \cup TwoHop)
           /\ Cardinality(OneHop \cup TwoHop)
                <= Len(ThisJob.adj[End(Root)]) + TwoHops[jid]
           /\ TwoHops[jid] \in Nat /\ End(Root) \in Node(ThisJob)
<1>1. /\ JobOK(ThisJob) /\ Viable(ThisJob, Root) /\ ~ Closing(ThisJob, Root)
      /\ Root \in Range(ThisJob.tasks)
  <2>1. /\ JobOK(ThisJob) /\ TaskOK(ThisJob, Root)
        /\ ThisJob.tasks \in Seq(Seq(Node(ThisJob))) /\ Len(ThisJob.tasks) = 1
    BY JobFacts DEF Root
  <2>2. Root \in Range(ThisJob.tasks)
    BY <2>1, RangeMember DEF Root
  <2>3. Viable(ThisJob, Root)
    BY <2>1, <2>2, TasksCover DEF ViableAll
  <2>4. QED  BY <2>1, <2>2, <2>3, TaskIsOpen
<1>2. /\ IsFiniteSet(OneHop) /\ End(Root) \in Node(ThisJob)
      /\ Cardinality(OneHop) <= Len(ThisJob.adj[End(Root)])
      /\ Len(ThisJob.adj[End(Root)]) \in Nat
  BY <1>1, ChildrenCounted, OpenIsShort DEF OneHop
<1>3. IsFiniteSet(TwoHop)
  <2>1. ASSUME NEW p \in OneHop PROVE IsFiniteSet(Children(ThisJob, p))
    <3>1. Viable(ThisJob, p)
      BY <1>1, ChildViable DEF OneHop
    <3>2. QED  BY <1>1, <3>1, ChildrenCounted
  <2> DEFINE D == { Children(ThisJob, p) : p \in OneHop }
             f == [p \in OneHop |-> Children(ThisJob, p)]
  <2>2. f \in Surjection(OneHop, D)
    BY DEF Surjection
  <2>3. IsFiniteSet(D)
    <3> HIDE DEF D, f
    <3>1. QED  BY <1>2, <2>2, FS_Surjection
  <2>4. \A T \in D : IsFiniteSet(T)
    BY <2>1
  <2>5. IsFiniteSet(UNION D)
    <3> HIDE DEF D
    <3>1. QED  BY <2>3, <2>4, FS_UNION
  <2>6. QED  BY <2>5 DEF TwoHop
<1>4. TwoHops[jid] = Cardinality(TwoHop)
  BY DEF TwoHops, TwoHop, OneHop, Root, ThisJob
<1>5. /\ IsFiniteSet(OneHop \cup TwoHop)
      /\ Cardinality(OneHop \cup TwoHop)
           = Cardinality(OneHop) + Cardinality(TwoHop)
               - Cardinality(OneHop \cap TwoHop)
  BY <1>2, <1>3, FS_Union
<1>6. /\ Cardinality(OneHop) \in Nat /\ Cardinality(TwoHop) \in Nat
      /\ Cardinality(OneHop \cap TwoHop) \in Nat
  <2>1. (OneHop \cap TwoHop) \in SUBSET OneHop
    OBVIOUS
  <2>2. IsFiniteSet(OneHop \cap TwoHop)
    BY <1>2, <2>1, FS_Subset
  <2>3. QED  BY <1>2, <1>3, <2>2, FS_CardinalityType
<1>7. QED  BY <1>2, <1>4, <1>5, <1>6

LEMMA EnoughRoom ==
    ASSUME NEW b \in Nat, NEW e \in Nat, NEW g \in Nat, NEW d \in Nat,
           b <= e \/ b <= d + g \/ b <= e + g
    PROVE  b <= e + g + d
OBVIOUS

LEMMA EnoughWidth ==
    ASSUME NEW b \in Nat, NEW q \in Nat, NEW e \in Nat, NEW l \in Nat,
           NEW g \in Nat, NEW d \in Nat, l <= g, b + q <= e + l + d
    PROVE  b <= e + g + d
OBVIOUS

(* When the tasks are dealt there are no more than the thresholds, or the  *)
(* two-hop paths, and one split more.                                      *)
LEMMA FewTasks ==
    ASSUME SInv, BInv, pc = "deal" PROVE TasksBounded
<1>1. /\ buffer \in Seq(Partial) /\ Simple(buffer) /\ qpath = << >>
      /\ jid \in JobId /\ Shares = {}
  BY DEF SInv, Types, Once
<1>2. Queued = Range(buffer) /\ Pending = Range(buffer)
  BY <1>1, EmptyStack, PendingIs DEF Queued, SInv
<1>3. /\ Len(buffer) \in Nat /\ Enough \in Nat /\ Enough >= 1 /\ Bloat \in Nat
      /\ \A v \in Node(ThisJob) : Len(ThisJob.adj[v]) \in Nat
  BY QueueFacts
<1>4. /\ TwoHops[jid] \in Nat /\ End(Root) \in Node(ThisJob)
      /\ IsFiniteSet(OneHop \cup TwoHop)
      /\ Cardinality(OneHop \cup TwoHop)
           <= Len(ThisJob.adj[End(Root)]) + TwoHops[jid]
  BY <1>1, FewCounted
<1> DEFINE g == Greater(Bloat, TwoHops[jid])
<1>5. g \in Nat /\ Bloat <= g /\ TwoHops[jid] <= g
  BY <1>3, <1>4 DEF Greater
<1> DEFINE deg(v) == Len(ThisJob.adj[v])
<1> DEFINE b == Len(buffer)
<1> HIDE DEF g
<1>6. b \in Nat /\ \A v \in Node(ThisJob) : deg(v) \in Nat
  BY <1>3
<1>7. (\E v \in Node(ThisJob) : b <= Enough + g + deg(v)) => TasksBounded
  BY DEF TasksBounded, g
<1> HIDE DEF deg, b
<1>8. CASE Few /\ Root \in Range(buffer)
  <2>1. Range(buffer) = {Root}
    BY <1>2, <1>8, RootAlone
  <2>2. b = 1
    BY <1>1, <2>1, RangeCounted, FS_Singleton DEF b
  <2>3. b <= Enough
    BY <1>3, <2>2
  <2>4. deg(End(Root)) \in Nat
    BY <1>4, <1>6
  <2>5. b <= Enough + g + deg(End(Root))
    BY <1>3, <1>5, <1>6, <2>3, <2>4, EnoughRoom, Zenon
  <2>6. QED  BY <1>4, <1>7, <2>5
<1>9. CASE Few /\ Root \notin Range(buffer)
  <2>1. ASSUME NEW p \in Range(buffer) PROVE p \in OneHop \cup TwoHop
    <3>1. Level(p) /\ Len(p) <= 3
      BY <1>2, <1>9 DEF BInv, Levels, Few
    <3>2. QED  BY <1>9, <3>1 DEF Level
  <2>2. Range(buffer) \in SUBSET (OneHop \cup TwoHop)
    BY <2>1
  <2>3. Cardinality(Range(buffer)) <= Cardinality(OneHop \cup TwoHop)
    BY <1>4, <2>2, FS_Subset
  <2>4. Cardinality(Range(buffer)) = Len(buffer)
    BY <1>1, RangeCounted
  <2>5. Cardinality(OneHop \cup TwoHop) \in Nat
    BY <1>4, FS_CardinalityType
  <2>6. deg(End(Root)) \in Nat
    BY <1>4, <1>6
  <2>7. /\ Cardinality(Range(buffer)) = b
        /\ Cardinality(OneHop \cup TwoHop) <= deg(End(Root)) + TwoHops[jid]
    BY <1>4, <2>4 DEF b, deg
  <2>8. b <= deg(End(Root)) + g
    BY <1>4, <1>5, <1>6, <2>3, <2>5, <2>6, <2>7
  <2>9. b <= Enough + g + deg(End(Root))
    BY <1>3, <1>5, <1>6, <2>6, <2>8, EnoughRoom, Zenon
  <2>10. QED  BY <1>4, <1>7, <2>9
<1>10. CASE ~ Few
  <2> DEFINE q == Len(qpath)
  <2>1. PICK v \in Node(ThisJob) : b + q <= Enough + Bloat + deg(v)
    BY <1>10 DEF BInv, Width, b, deg
  <2>2. q \in Nat /\ deg(v) \in Nat
    BY <1>6, QueueFacts
  <2> HIDE DEF q
  <2>3. b <= Enough + g + deg(v)
    BY <1>3, <1>5, <1>6, <2>1, <2>2, EnoughWidth, Zenon
  <2>4. QED  BY <1>7, <2>3
<1>11. QED  BY <1>8, <1>9, <1>10

(* A share is a task list the kernel, or the CPU, may be called with.      *)
LEMMA ShareIsTasks ==
    ASSUME SInv, NEW s \in Seq(Partial), Simple(s), Range(s) \subseteq Shares
    PROVE  TasksOK(CallWith(s))
<1> DEFINE j == CallWith(s)
<1>1. /\ j.adj = ThisJob.adj /\ j.sdt = ThisJob.sdt /\ j.dst = ThisJob.dst
      /\ j.k = ThisJob.k /\ j.tasks = s
  BY DEF CallWith, K
<1> HIDE DEF j
<1>2. /\ JobOK(ThisJob) /\ AntiChain(Pending) /\ ViableAll(ThisJob, Pending)
      /\ Shares \subseteq Pending
      /\ \A p \in Shares : ~ Closing(ThisJob, p)
      /\ Partial \subseteq Seq(Node(ThisJob))
  BY JobFacts DEF SInv, Types, Open, Accounts, Pending, Partial
<1>3. Node(j) = Node(ThisJob) /\ \A v : Nbrs(j, v) = Nbrs(ThisJob, v)
  BY <1>1 DEF Node, Nbrs
<1>4. \A i \in 1 .. Len(s) : s[i] \in Shares /\ s[i] \in Seq(Node(j))
  BY <1>2, <1>3, RangeMember
<1>5. s \in Seq(Seq(Node(j)))
  BY <1>4, SeqOf
<1>6. ASSUME NEW i \in 1 .. Len(s) PROVE TaskOK(j, s[i])
  <2>1. TaskOK(ThisJob, s[i])
    BY <1>2, <1>4, OpenIsTask DEF ViableAll
  <2>2. IsWalk(j, s[i])
    BY <1>3, <2>1 DEF TaskOK, IsWalk
  <2>3. QED  BY <1>1, <1>3, <2>1, <2>2 DEF TaskOK
<1>7. ASSUME NEW a \in 1 .. Len(s), NEW b \in 1 .. Len(s), Prefix(s[a], s[b])
      PROVE  a = b
  <2>1. s[a] = s[b]
    BY <1>2, <1>4, <1>7 DEF AntiChain
  <2>2. QED  BY <2>1 DEF Simple
<1>8. QED  BY <1>1, <1>5, <1>6, <1>7 DEF TasksOK, j

(* Every task is dealt to exactly one of the CPU and the compute units,    *)
(* each gets a task list it may be given, of bounded length together, and  *)
(* what was counted and what the shares stand for are all results.         *)
THEOREM DealtExactly == Spec => []DealtOnce
<1>1. SInv /\ BInv => DealtOnce
  <2>1. SUFFICES ASSUME SInv, BInv PROVE DealtOnce
    OBVIOUS
  <2>2. ASSUME pc = "done"
        PROVE  /\ TasksOK(CallWith(cpu))
               /\ \A c \in DOMAIN cus :
                    /\ TasksOK(CallWith(cus[c]))
                    /\ Range(cus[c]) \cap Range(cpu) = {}
                    /\ \A d \in DOMAIN cus :
                         c # d => Range(cus[c]) \cap Range(cus[d]) = {}
    <3>1. /\ cpu \in Seq(Partial) /\ cus \in [0 .. CoreNum - 1 -> Seq(Partial)]
      BY <2>1 DEF SInv, Types
    <3>2. /\ DOMAIN cus = 0 .. CoreNum - 1
          /\ \A c \in DOMAIN cus : cus[c] \in Seq(Partial)
      BY <3>1
    <3>3. Range(cpu) \subseteq Shares /\ \A c \in DOMAIN cus : Range(cus[c]) \subseteq Shares
      BY <3>2 DEF Shares
    <3>4. /\ Simple(cpu)
          /\ \A c \in DOMAIN cus :
               /\ Simple(cus[c]) /\ Range(cus[c]) \cap Range(cpu) = {}
               /\ \A d \in DOMAIN cus :
                    c # d => Range(cus[c]) \cap Range(cus[d]) = {}
      BY <2>1, <2>2, <3>2 DEF SInv, Apart
    <3>5. TasksOK(CallWith(cpu)) /\ \A c \in DOMAIN cus : TasksOK(CallWith(cus[c]))
      BY <2>1, <3>1, <3>2, <3>3, <3>4, ShareIsTasks
    <3>6. QED  BY <3>4, <3>5
  <2>3. ASSUME pc = "done"
        PROVE  ans + Cardinality({ q \in ResultsOf[jid] : \E p \in Shares : Prefix(p, q) })
                 = Cardinality(ResultsOf[jid])
    <3>1. jid \in JobId /\ qpath = << >> /\ buffer = << >>
      BY <2>1, <2>3 DEF SInv, Types
    <3>2. Pending = Shares
      BY <2>3, <3>1, EmptyStack DEF Pending, Unsplit
    <3>3. ResultsOf[jid] = Results(ThisJob)
      BY <3>1 DEF ResultsOf, ThisJob
    <3>4. ans + Cardinality(CoveredBy(ThisJob, Shares)) = Cardinality(Results(ThisJob))
      BY <2>1, <3>2 DEF SInv, Accounts
    <3>5. QED  BY <3>3, <3>4 DEF CoveredBy
  <2>4. pc = "deal" => TasksBounded
    BY <2>1, FewTasks
  <2>5. QED  BY <2>2, <2>3, <2>4 DEF DealtOnce
<1>2. QED  BY <1>1, BInvariant, PTL

-----------------------------------------------------------------------------
(* The shares are jobs of their own, and their results are the results of  *)
(* the job that have not been counted yet.                                 *)

LEMMA ShareResults ==
    ASSUME SInv, NEW s \in Seq(Partial), Simple(s), Range(s) \subseteq Shares
    PROVE  Results(CallWith(s)) = CoveredBy(ThisJob, Range(s))
<1> DEFINE j == CallWith(s)
           m == ThisJob
<1>1. /\ j.adj = m.adj /\ j.dst = m.dst /\ j.k = m.k /\ j.tasks = s
  BY DEF CallWith, K
<1>2. /\ JobOK(m) /\ ViableAll(m, Pending) /\ Shares \subseteq Pending
      /\ m.k \in Nat
  BY JobFacts DEF SInv, Types, Accounts, Pending, K
<1> HIDE DEF j, m
<1>3. Node(j) = Node(m) /\ \A v : Nbrs(j, v) = Nbrs(m, v)
  BY <1>1 DEF Node, Nbrs
<1>4. /\ \A x \in Range(s) : \E i \in 1 .. Len(s) : x = s[i]
      /\ \A i \in 1 .. Len(s) : s[i] \in Range(s) /\ Viable(m, s[i])
  BY <1>2, RangeMember DEF ViableAll
<1>5. ASSUME NEW q \in Results(j) PROVE q \in CoveredBy(m, Range(s))
  <2>1. q \in Seq(Node(m)) /\ Len(q) \in 2 .. m.k + 1 /\ IsResult(j, q)
    BY <1>1, <1>2, <1>3, ResultElim
  <2>2. PICK i \in 1 .. Len(s) : Prefix(s[i], q)
    BY <1>1, <2>1 DEF IsResult
  <2>3. PICK a \in 1 .. Len(m.tasks) : Prefix(m.tasks[a], s[i])
    BY <1>4 DEF Viable
  <2>4. Prefix(m.tasks[a], q)
    <3>1. Len(s[i]) \in Nat /\ Len(m.tasks[a]) \in Nat /\ Len(q) \in Nat
      <4>1. s[i] \in Seq(Node(m)) /\ m.tasks[a] \in Seq(Node(m))
        BY <1>2, <1>4 DEF Viable, JobOK, TasksOK, TaskOK
      <4>2. QED  BY <2>1, <4>1, LenProperties
    <3>2. QED  BY <2>2, <2>3, <3>1 DEF Prefix
  <2>5. IsResult(m, q)
    BY <1>1, <1>3, <2>1, <2>4 DEF IsResult, IsWalk
  <2>6. q \in Results(m)
    BY <1>2, <2>1, <2>5, ResultIntro
  <2>7. QED  BY <1>4, <2>2, <2>6 DEF CoveredBy
<1>6. ASSUME NEW q \in CoveredBy(m, Range(s)) PROVE q \in Results(j)
  <2>1. q \in Results(m) /\ \E p \in Range(s) : Prefix(p, q)
    BY DEF CoveredBy
  <2>2. q \in Seq(Node(m)) /\ Len(q) \in 2 .. m.k + 1 /\ IsResult(m, q)
    BY <1>2, <2>1, ResultElim
  <2>3. \E i \in 1 .. Len(s) : Prefix(s[i], q)
    BY <1>4, <2>1
  <2>4. IsResult(j, q)
    BY <1>1, <1>3, <2>2, <2>3 DEF IsResult, IsWalk
  <2>5. QED  BY <1>1, <1>2, <1>3, <2>2, <2>4, ResultIntro
<1>7. Results(j) = CoveredBy(m, Range(s))
  BY <1>5, <1>6
<1>8. QED  BY <1>7 DEF j, m

(* A share is a job the kernel, or the CPU, can work on: pruning, bounds   *)
(* and tasks are what JobsAssumption asks for.                             *)
LEMMA ShareIsJob ==
    ASSUME SInv, NEW s \in Seq(Partial), Simple(s), Range(s) \subseteq Shares
    PROVE  JobOK(CallWith(s))
<1>1. TasksOK(CallWith(s))
  BY ShareIsTasks
<1>2. Results(CallWith(s)) \subseteq Results(ThisJob)
  BY ShareResults DEF CoveredBy
<1> DEFINE j == CallWith(s)
           m == ThisJob
<1>3. /\ j.adj = m.adj /\ j.dst = m.dst /\ j.k = m.k /\ j.sdt = m.sdt
  BY DEF CallWith, K
<1>4. GraphOK(m) /\ SdtOK(m) /\ Results(j) \subseteq Results(m)
  BY <1>2, JobFacts DEF SInv, Types, JobOK
<1> HIDE DEF j, m
<1>5. Node(j) = Node(m) /\ \A v : Nbrs(j, v) = Nbrs(m, v)
  BY <1>3 DEF Node, Nbrs
<1>6. GraphOK(j)
  BY <1>3, <1>4, <1>5 DEF GraphOK
<1>7. SdtOK(j)
  <2>1. j.sdt \in [Node(j) -> Nat]
    BY <1>3, <1>4, <1>5 DEF SdtOK
  <2>2. \A v \in Node(j) : \A w \in Nbrs(j, v) : j.sdt[w] <= j.k
    BY <1>3, <1>4, <1>5 DEF SdtOK
  <2>3. \A v \in Node(j) : /\ j.sdt[v] = 0 => v = j.dst
                           /\ j.sdt[v] = 1 => j.dst \in Nbrs(j, v)
    BY <1>3, <1>4, <1>5 DEF SdtOK
  <2>4. \A q \in Results(j) : \A i \in 2 .. Len(q) : j.sdt[q[i]] + i <= Len(q)
    BY <1>3, <1>4 DEF SdtOK
  <2>5. QED  BY <2>1, <2>2, <2>3, <2>4 DEF SdtOK
<1>8. QED  BY <1>1, <1>6, <1>7 DEF JobOK, j

(* Two disjoint parts of a pool cover different results.                   *)
LEMMA CoveredSum ==
    ASSUME NEW j, JobOK(j), NEW P, ViableAll(j, P), AntiChain(P),
           NEW A \in SUBSET P, NEW B \in SUBSET P, A \cap B = {}
    PROVE  Cardinality(CoveredBy(j, A \cup B))
             = Cardinality(CoveredBy(j, A)) + Cardinality(CoveredBy(j, B))
<1> DEFINE a == CoveredBy(j, A)
           b == CoveredBy(j, B)
<1>1. CoveredBy(j, A \cup B) = a \cup b
  BY DEF CoveredBy
<1>2. a \cap b = {}
  <2>1. SUFFICES ASSUME NEW q \in a, q \in b PROVE FALSE
    OBVIOUS
  <2>2. PICK x \in A : Prefix(x, q)
    BY <2>1 DEF CoveredBy
  <2>3. PICK y \in B : Prefix(y, q)
    BY <2>1 DEF CoveredBy
  <2>4. q \in Seq(Node(j))
    <3>1. j.k \in Nat /\ q \in Results(j)
      BY <2>1 DEF CoveredBy, JobOK, GraphOK, MaxK
    <3>2. QED  BY <3>1, ResultElim
  <2>5. x = y
    BY <2>2, <2>3, <2>4, SharedResult
  <2>6. QED  BY <2>5
<1>3. /\ IsFiniteSet(a) /\ Cardinality(a) \in Nat
      /\ IsFiniteSet(b) /\ Cardinality(b) \in Nat
  BY CoveredFinite
<1> HIDE DEF a, b
<1>4. Cardinality(a \cup b) = Cardinality(a) + Cardinality(b) - Cardinality({})
  BY <1>2, <1>3, FS_Union
<1>5. Cardinality(a \cup b) = Cardinality(a) + Cardinality(b)
  BY <1>3, <1>4, FS_EmptySet
<1>6. QED  BY <1>1, <1>5 DEF a, b

(* The counts of the CPU and of the compute units 0, 1, ... are added, one *)
(* after the other, to what the splitting has counted.                     *)
Sums(t) ==
    /\ t \in [0 .. CoreNum -> Nat]
    /\ t[0] = ans + Cardinality(Results(CallWith(cpu)))
    /\ \A c \in 0 .. CoreNum - 1 :
         t[c + 1] = t[c] + Cardinality(Results(CallWith(cus[c])))

(* What is dealt to the CPU and to the compute units below n.              *)
DealtBelow(n) == Range(cpu) \cup UNION { Range(cus[c]) : c \in 0 .. n - 1 }

LEMMA SumOfShares ==
    ASSUME SInv, pc = "done"
    PROVE  /\ JobOK(CallWith(cpu))
           /\ \A c \in 0 .. CoreNum - 1 : JobOK(CallWith(cus[c]))
           /\ \E t : Sums(t) /\ t[CoreNum] = Cardinality(ResultsOf[jid])
<1>1. /\ jid \in JobId /\ JobOK(ThisJob) /\ CoreNum \in Nat \ {0}
      /\ qpath = << >> /\ buffer = << >> /\ cpu \in Seq(Partial)
      /\ \A c \in 0 .. CoreNum - 1 : cus[c] \in Seq(Partial)
  BY JobFacts, SplitAssumption DEF SInv, Types
<1>2. /\ Range(cpu) \subseteq Shares
      /\ \A c \in 0 .. CoreNum - 1 : Range(cus[c]) \subseteq Shares
  BY DEF Shares
<1>3. /\ Simple(cpu)
      /\ \A c \in 0 .. CoreNum - 1 :
           /\ Simple(cus[c]) /\ Range(cus[c]) \cap Range(cpu) = {}
           /\ \A d \in 0 .. CoreNum - 1 :
                c # d => Range(cus[c]) \cap Range(cus[d]) = {}
  BY DEF SInv, Apart
<1>4. /\ JobOK(CallWith(cpu))
      /\ \A c \in 0 .. CoreNum - 1 : JobOK(CallWith(cus[c]))
  BY <1>1, <1>2, <1>3, ShareIsJob
<1>5. /\ Results(CallWith(cpu)) = CoveredBy(ThisJob, Range(cpu))
      /\ \A c \in 0 .. CoreNum - 1 :
           Results(CallWith(cus[c])) = CoveredBy(ThisJob, Range(cus[c]))
  BY <1>1, <1>2, <1>3, ShareResults
<1>6. /\ ViableAll(ThisJob, Shares) /\ AntiChain(Shares)
      /\ ans \in Nat
      /\ ans + Cardinality(CoveredBy(ThisJob, Shares))
           = Cardinality(ResultsOf[jid])
  <2>1. Pending = Shares
    BY <1>1, EmptyStack DEF Pending, Unsplit
  <2>2. Accounts(ThisJob, Shares, ans)
    BY <2>1 DEF SInv
  <2>3. ResultsOf[jid] = Results(ThisJob)
    BY <1>1 DEF ResultsOf, ThisJob
  <2>4. QED  BY <2>2, <2>3 DEF Accounts
<1> DEFINE covered(P) == Cardinality(CoveredBy(ThisJob, P))
           t == [n \in 0 .. CoreNum |-> ans + covered(DealtBelow(n))]
<1>7. \A P : covered(P) \in Nat
  BY <1>1, CoveredFinite
<1>8. t \in [0 .. CoreNum -> Nat]
  <2> HIDE DEF covered
  <2>1. QED  BY <1>6, <1>7
<1>9. t[0] = ans + Cardinality(Results(CallWith(cpu)))
  <2>1. DealtBelow(0) = Range(cpu)
    BY DEF DealtBelow
  <2>2. QED  BY <1>1, <1>5, <2>1
<1>10. ASSUME NEW c \in 0 .. CoreNum - 1
       PROVE  t[c + 1] = t[c] + Cardinality(Results(CallWith(cus[c])))
  <2>1. /\ c \in Nat /\ c \in 0 .. CoreNum /\ c + 1 \in 0 .. CoreNum
    BY <1>1
  <2>2. DealtBelow(c + 1) = DealtBelow(c) \cup Range(cus[c])
    <3>1. 0 .. c + 1 - 1 = (0 .. c - 1) \cup {c}
      BY <2>1
    <3>2. QED  BY <3>1 DEF DealtBelow
  <2>3. DealtBelow(c) \cap Range(cus[c]) = {}
    <3>1. \A d \in 0 .. c - 1 : d \in 0 .. CoreNum - 1 /\ d # c
      BY <1>1
    <3>2. QED  BY <1>3, <3>1 DEF DealtBelow
  <2>4. DealtBelow(c) \in SUBSET Shares /\ Range(cus[c]) \in SUBSET Shares
    <3>1. \A d \in 0 .. c - 1 : d \in 0 .. CoreNum - 1
      BY <1>1
    <3>2. QED  BY <1>2, <3>1 DEF DealtBelow
  <2>5. covered(DealtBelow(c) \cup Range(cus[c]))
          = covered(DealtBelow(c)) + covered(Range(cus[c]))
    BY <1>1, <1>6, <2>3, <2>4, CoveredSum, SMTT(30)
  <2>6. covered(Range(cus[c])) = Cardinality(Results(CallWith(cus[c])))
    BY <1>5
  <2>7. covered(DealtBelow(c)) \in Nat /\ covered(Range(cus[c])) \in Nat
    BY <1>7
  <2> HIDE DEF covered
  <2>8. /\ t[c] = ans + covered(DealtBelow(c))
        /\ t[c + 1] = ans + covered(DealtBelow(c) \cup Range(cus[c]))
    BY <2>1, <2>2
  <2> HIDE DEF t
  <2>9. QED  BY <1>6, <2>5, <2>6, <2>7, <2>8
<1>11. t[CoreNum] = Cardinality(ResultsOf[jid])
  <2>1. DealtBelow(CoreNum) = Shares /\ CoreNum \in 0 .. CoreNum
    BY <1>1 DEF DealtBelow, Shares
  <2>2. QED  BY <1>6, <2>1
<1> HIDE DEF t
<1>12. Sums(t)
  BY <1>8, <1>9, <1>10 DEF Sums
<1>13. QED  BY <1>4, <1>11, <1>12

(* When the tasks are dealt, each share is a job that meets JobsAssumption *)
(* of the kernel and of the CPU search, and the sum of what the splitting  *)
(* counted and of the exact counts of all shares is the number of results  *)
(* of the job.  CountExact of MYDFSProofs and ExactUnlessStopped of        *)
(* CpuDfsProofs say that those counts are what the shares come back with.  *)
THEOREM SharesAddUp ==
    Spec => [](pc = "done" =>
                 /\ JobOK(CallWith(cpu))
                 /\ \A c \in 0 .. CoreNum - 1 : JobOK(CallWith(cus[c]))
                 /\ \E t : Sums(t) /\ t[CoreNum] = Cardinality(ResultsOf[jid]))
<1> DEFINE Good == pc = "done" =>
                     /\ JobOK(CallWith(cpu))
                     /\ \A c \in 0 .. CoreNum - 1 : JobOK(CallWith(cus[c]))
                     /\ \E t : Sums(t) /\ t[CoreNum] = Cardinality(ResultsOf[jid])
<1>1. SInv => Good
  BY SumOfShares
<1>2. QED  BY <1>1, SInvariant, PTL
=============================================================================
