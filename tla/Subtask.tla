------------------------------- MODULE Subtask ------------------------------
(***************************************************************************)
(* generate_subtask_on_CSR and the dealing of its tasks: the root of a job *)
(* is split breadth first on the CPU until there are tasks enough to keep  *)
(* the compute units busy; four fifths of the tasks go round robin to the  *)
(* compute units, the rest is enumerated on the CPU.                       *)
(*                                                                         *)
(* One action is one round of a loop of the code.  A job here is what Prep *)
(* delivers: its only task is the root.                                    *)
(***************************************************************************)
EXTENDS HopJob

CONSTANTS Enough,   \* generate_max_num * 50
          Bloat,    \* generate_max_num * 100
          HardCap,  \* 500000
          CoreNum   \* core_num, the number of compute units

ASSUME SplitAssumption ==
    /\ Enough \in Nat \ {0} /\ Bloat \in Nat /\ HardCap \in Nat
    /\ CoreNum \in Nat \ {0}
    /\ \A i \in JobId : Len(Job[i].tasks) = 1 /\ Len(Job[i].tasks[1]) = 1

VARIABLES jid,
          pc,      \* "loop", "split", "drain", "deal" or "done"
          qpath,   \* qpath and qhop; a path carries its hop count
          buffer,  \* bufferPath and bufferHop
          cur,     \* p, the path being split
          nbr,     \* i, the neighbours of its end looked at
          ans,     \* iAnsNum
          cpu,     \* the tasks MYDFSPathEnumCSR gets
          cus      \* the tasks each compute unit gets

vars == <<jid, pc, qpath, buffer, cur, nbr, ans, cpu, cus>>

ThisJob == Job[jid]
K       == ThisJob.k

Init == /\ jid \in JobId
        /\ pc = IF K >= 3 THEN "loop" ELSE "drain"
        /\ qpath = ThisJob.tasks /\ buffer = << >>
        /\ cur = << >> /\ nbr = 0 /\ ans = 0
        /\ cpu = << >> /\ cus = [c \in 0 .. CoreNum - 1 |-> << >>]

-----------------------------------------------------------------------------
(* The splitting loop.                                                     *)

Hop == Layer(Head(qpath))

EnoughTasks == Len(buffer) >= Enough \/ Len(qpath) > Bloat
Break       == (Hop >= 2 /\ EnoughTasks) \/ Len(qpath) > HardCap

Looping == pc = "loop" /\ qpath # << >>

LoopBreak ==
    /\ pc = "loop" /\ IF qpath = << >> THEN TRUE ELSE Break
    /\ pc' = "drain"
    /\ UNCHANGED <<jid, qpath, buffer, cur, nbr, ans, cpu, cus>>

BugShouldSplit == Hop <= K \div 2
ShouldSplit    == Hop < K \div 2

Archived == Append(buffer, Head(qpath))

Archive ==
    /\ Looping /\ ~ Break /\ ~ ShouldSplit
    /\ buffer' = Archived
    /\ qpath' = Tail(qpath)
    /\ UNCHANGED <<jid, pc, cur, nbr, ans, cpu, cus>>

SplitStart ==
    /\ Looping /\ ~ Break /\ ShouldSplit
    /\ cur' = Head(qpath) /\ nbr' = 0
    /\ qpath' = Tail(qpath)
    /\ pc' = "split"
    /\ UNCHANGED <<jid, buffer, ans, cpu, cus>>

Row == ThisJob.adj[End(cur)]
V   == Row[nbr + 1]

Splitting == pc = "split" /\ nbr < Len(Row)

Near(v) == ThisJob.sdt[v] + Layer(cur) + 1 <= K

(* v is the target, or the path through v needs one edge more.             *)
Counts(v) == v = ThisJob.dst \/ (NotVisited(cur, v) /\ Layer(cur) = K - 2)

SplitCount ==
    /\ Splitting /\ Near(V) /\ Counts(V)
    /\ ans' = ans + 1 /\ nbr' = nbr + 1
    /\ UNCHANGED <<jid, pc, qpath, buffer, cur, cpu, cus>>

BugUnvisited(v) == TRUE
Unvisited(v)    == NotVisited(cur, v)

SplitPush ==
    /\ Splitting /\ Near(V) /\ ~ Counts(V) /\ Unvisited(V)
    /\ qpath' = Append(qpath, Append(cur, V)) /\ nbr' = nbr + 1
    /\ UNCHANGED <<jid, pc, buffer, cur, ans, cpu, cus>>

SplitSkip ==
    /\ Splitting
    /\ ~ (Near(V) /\ (Counts(V) \/ Unvisited(V)))
    /\ nbr' = nbr + 1
    /\ UNCHANGED <<jid, pc, qpath, buffer, cur, ans, cpu, cus>>

SplitEnd ==
    /\ pc = "split" /\ nbr = Len(Row)
    /\ pc' = "loop"
    /\ UNCHANGED <<jid, qpath, buffer, cur, nbr, ans, cpu, cus>>

-----------------------------------------------------------------------------
(* What is left in the queue becomes tasks; the tasks are dealt.           *)

Drain ==
    /\ pc = "drain" /\ qpath # << >>
    /\ buffer' = Append(buffer, Head(qpath))
    /\ qpath' = Tail(qpath)
    /\ UNCHANGED <<jid, pc, cur, nbr, ans, cpu, cus>>

Drained ==
    /\ pc = "drain" /\ qpath = << >>
    /\ pc' = "deal"
    /\ UNCHANGED <<jid, qpath, buffer, cur, nbr, ans, cpu, cus>>

DiviPathcount == (Len(buffer) * 8) \div 10

BugShare(c) == [n \in 1 .. DiviPathcount \div CoreNum |->
                  buffer[c + 1 + (n - 1) * CoreNum]]
Share(c)    == [n \in 1 .. (DiviPathcount + CoreNum - 1 - c) \div CoreNum |->
                  buffer[c + 1 + (n - 1) * CoreNum]]

Deal ==
    /\ pc = "deal"
    /\ cpu' = SubSeq(buffer, DiviPathcount + 1, Len(buffer))
    /\ cus' = [c \in 0 .. CoreNum - 1 |-> Share(c)]
    /\ buffer' = << >>
    /\ pc' = "done"
    /\ UNCHANGED <<jid, qpath, cur, nbr, ans>>

Dealt == pc = "done" /\ UNCHANGED vars

Next == \/ LoopBreak \/ Archive \/ SplitStart
        \/ SplitCount \/ SplitPush \/ SplitSkip \/ SplitEnd
        \/ Drain \/ Drained \/ Deal \/ Dealt

Spec == Init /\ [][Next]_vars

-----------------------------------------------------------------------------
(***************************************************************************)
(* Properties.                                                             *)
(***************************************************************************)

(* Queue, tasks and shares hold paths of at most k / 2 hops: a path that    *)
(* long is archived, never split, so the eight slots of a path are enough.  *)
Partial == { p \in Seq(Node(ThisJob)) : Len(p) \in 1 .. K \div 2 + 1 }
Paths(s) == Range(s) \subseteq Partial

TypeOK ==
    /\ jid \in JobId
    /\ pc \in {"loop", "split", "drain", "deal", "done"}
    /\ Paths(qpath) /\ Paths(buffer) /\ Paths(cpu)
    /\ cur \in Partial \cup {<< >>} /\ nbr \in Nat /\ ans \in Nat
    /\ \A c \in 0 .. CoreNum - 1 : Paths(cus[c])

(* Splitting and dealing implement the pool: no path of the job is lost,   *)
(* counted twice or handed out twice between the queue, the tasks, the CPU *)
(* and the compute units.                                                  *)
Shares == Range(cpu) \cup UNION { Range(cus[c]) : c \in 0 .. CoreNum - 1 }

Unsplit ==
    IF pc # "split" THEN {}
    ELSE { p \in Children(ThisJob, cur) :
             \E i \in nbr + 1 .. Len(Row) : p = Append(cur, Row[i]) }

Pending == Range(qpath) \cup Range(buffer) \cup Unsplit \cup Shares

Pool == INSTANCE PathPool WITH pending <- Pending, status <- "run"

ImplementsPool == Pool!PoolSpec

(* The two thresholds bound the number of tasks although they are looked   *)
(* at only between splits, and not at all below two hops: what is to fit    *)
(* the stacks of the compute units is the two-hop paths, or the thresholds, *)
(* and one split more.                                                      *)
TwoHops == [i \in JobId |->
              Cardinality(UNION { Children(Job[i], p) :
                            p \in Children(Job[i], Job[i].tasks[1]) })]

Greater(a, b) == IF a >= b THEN a ELSE b

TasksBounded ==
    \E v \in Node(ThisJob) :
      Len(buffer) <= Enough + Greater(Bloat, TwoHops[jid]) + Len(ThisJob.adj[v])

(* What a compute unit, or the CPU, is called with.                        *)
CallWith(tasks) == [adj |-> ThisJob.adj, sdt |-> ThisJob.sdt,
                    dst |-> ThisJob.dst, k |-> K, tasks |-> tasks]

(* Every task is dealt to exactly one of the CPU and the compute units,    *)
(* what each gets is a task list that may be given to it, and paths counted *)
(* on the way and results of the shares are all results.                   *)
DealtOnce ==
    /\ pc = "done" =>
      /\ TasksOK(CallWith(cpu))
      /\ \A c \in DOMAIN cus :
           /\ TasksOK(CallWith(cus[c]))
           /\ Range(cus[c]) \cap Range(cpu) = {}
           /\ \A d \in DOMAIN cus :
                c # d => Range(cus[c]) \cap Range(cus[d]) = {}
      /\ ans + Cardinality({ q \in ResultsOf[jid] : \E p \in Shares : Prefix(p, q) })
           = Cardinality(ResultsOf[jid])
    /\ pc = "deal" => TasksBounded
=============================================================================
