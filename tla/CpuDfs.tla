------------------------------- MODULE CpuDfs -------------------------------
(***************************************************************************)
(* MYDFSPathEnumCSR on a partial path, and the loop of Excute that calls   *)
(* it for the fifth of the tasks that stays on the CPU: a depth-first      *)
(* search with an explicit stack, on which the vertices of the current     *)
(* path and the siblings still to be tried lie mixed.                      *)
(*                                                                         *)
(* The main thread may set g_exit at any moment, without synchronisation:  *)
(* the search stops at the head of its loop when it sees the flag, and a   *)
(* read may still return the old value.  Once seen, the flag stays seen,   *)
(* and the calls for the remaining tasks stop at their first look.         *)
(***************************************************************************)
EXTENDS HopJob

(* What module Prep shows of the rows of the pruned graph.                 *)
ASSUME RowsAssumption ==
    \A i \in JobId : \A v \in Node(Job[i]) :
      LET row == Job[i].adj[v]
      IN  \A a, b \in 1 .. Len(row) :
            a <= b => Job[i].sdt[row[a]] <= Job[i].sdt[row[b]]

VARIABLES jid,
          task,     \* the call under way, 0 before the first
          pc,       \* "head" of the loop, in the "row" of a vertex, "done"
          visited,  \* arrVisited_
          len,      \* iVisitedLen
          staDFS,
          nbr,      \* i, the neighbours looked at
          bTag,     \* a neighbour was pushed
          ans,      \* iPathCount_
          gexit,    \* g_exit
          status    \* "run", "complete" or "exit"

vars == <<jid, task, pc, visited, len, staDFS, nbr, bTag, ans, gexit, status>>

ThisJob == Job[jid]
K       == ThisJob.k

Base(p) == SubSeq(p, 1, Len(p) - 1)   \* pp without its last vertex

Init == /\ jid \in JobId
        /\ task = 0
        /\ pc = "head"
        /\ visited = {} /\ len = 0 /\ staDFS = << >>
        /\ nbr = 0 /\ bTag = FALSE
        /\ ans = 0 /\ gexit = FALSE /\ status = "run"

Top == End(staDFS)

(* The time limit of execute_within_time_limit.                            *)
TimeOut ==
    /\ ~ gexit /\ status = "run"
    /\ gexit' = TRUE
    /\ UNCHANGED <<jid, task, pc, visited, len, staDFS, nbr, bTag, ans, status>>

-----------------------------------------------------------------------------
(* The head of the loop.                                                   *)

AtHead == pc = "head" /\ staDFS # << >>

Exit ==
    /\ AtHead /\ gexit
    /\ pc' = "done" /\ status' = "exit"
    /\ UNCHANGED <<jid, task, visited, len, staDFS, nbr, bTag, ans, gexit>>

Visit ==
    /\ AtHead /\ Top \notin visited
    /\ visited' = visited \cup {Top} /\ len' = len + 1
    /\ nbr' = 0 /\ bTag' = FALSE
    /\ pc' = "row"
    /\ UNCHANGED <<jid, task, staDFS, ans, gexit, status>>

BugUnmarked(v) == visited
Unmarked(v)    == visited \ {v}

BugPopped == staDFS
Popped    == SubSeq(staDFS, 1, Len(staDFS) - 1)

Pop == /\ staDFS' = Popped
       /\ visited' = Unmarked(Top)
       /\ len' = len - 1

Backtrack ==
    /\ AtHead /\ Top \in visited
    /\ Pop
    /\ UNCHANGED <<jid, task, pc, nbr, bTag, ans, gexit, status>>

-----------------------------------------------------------------------------
(* The neighbours of the vertex just visited.  While its row is read the   *)
(* vertex is the last one marked, below what has been pushed since.        *)

LastMark == CHOOSE s \in 1 .. Len(staDFS) :
              /\ staDFS[s] \in visited
              /\ \A t \in s + 1 .. Len(staDFS) : staDFS[t] \notin visited
Row == ThisJob.adj[staDFS[LastMark]]
V   == Row[nbr + 1]

Reading == pc = "row" /\ nbr < Len(Row)

Near(v)      == len + ThisJob.sdt[v] <= K
BugCounts(v) == v = ThisJob.dst
Counts(v)    == v = ThisJob.dst \/ len = K - 1

NbrVisited ==
    /\ Reading /\ V \in visited
    /\ nbr' = nbr + 1
    /\ UNCHANGED <<jid, task, pc, visited, len, staDFS, bTag, ans, gexit, status>>

NbrCount ==
    /\ Reading /\ V \notin visited /\ Near(V) /\ Counts(V)
    /\ ans' = ans + 1 /\ nbr' = nbr + 1
    /\ UNCHANGED <<jid, task, pc, visited, len, staDFS, bTag, gexit, status>>

NbrPush ==
    /\ Reading /\ V \notin visited /\ Near(V) /\ ~ Counts(V)
    /\ staDFS' = Append(staDFS, V) /\ bTag' = TRUE
    /\ nbr' = nbr + 1
    /\ UNCHANGED <<jid, task, pc, visited, len, ans, gexit, status>>

(* The first neighbour that is too far ends the row: the rest is no nearer.*)
Breaks == V \notin visited /\ ~ Near(V)

RowDone == pc = "row" /\ IF nbr < Len(Row) THEN Breaks ELSE TRUE

RowEndPushed ==
    /\ RowDone /\ bTag
    /\ pc' = "head"
    /\ UNCHANGED <<jid, task, visited, len, staDFS, nbr, bTag, ans, gexit, status>>

RowEndLeaf ==
    /\ RowDone /\ ~ bTag
    /\ Pop
    /\ pc' = "head"
    /\ UNCHANGED <<jid, task, nbr, bTag, ans, gexit, status>>

-----------------------------------------------------------------------------
(* From one call to the next: arrVisited_ is cleared and marked anew.      *)

Called == pc = "head" /\ staDFS = << >>

BugMarks(p) == Range(p)
Marks(p)    == Range(Base(p))

NextCall ==
    /\ Called /\ task < Len(ThisJob.tasks)
    /\ task' = task + 1
    /\ LET p == ThisJob.tasks[task + 1]
       IN  /\ visited' = Marks(p)
           /\ len' = Len(p) - 1
           /\ staDFS' = <<End(p)>>
    /\ UNCHANGED <<jid, pc, nbr, bTag, ans, gexit, status>>

Complete ==
    /\ Called /\ task = Len(ThisJob.tasks)
    /\ pc' = "done" /\ status' = "complete"
    /\ UNCHANGED <<jid, task, visited, len, staDFS, nbr, bTag, ans, gexit>>

Returned == pc = "done" /\ UNCHANGED vars

Search == \/ Exit \/ Visit \/ Backtrack
          \/ NbrVisited \/ NbrCount \/ NbrPush \/ RowEndPushed \/ RowEndLeaf
          \/ NextCall \/ Complete

Next == Search \/ TimeOut \/ Returned

Spec     == Init /\ [][Next]_vars
FairSpec == Spec /\ WF_vars(Search)

-----------------------------------------------------------------------------
(***************************************************************************)
(* Properties.                                                             *)
(***************************************************************************)

(* The entry s of the stack is the mark of a vertex of the current path: a *)
(* visited vertex may also lie further down, as a sibling yet to be tried. *)
OnPath(s) == /\ staDFS[s] \in visited
             /\ \A t \in s + 1 .. Len(staDFS) : staDFS[t] # staDFS[s]
MarksBelow(s) == { t \in 1 .. s - 1 : OnPath(t) }

(* The vertices marked in a call are its path so far, in the order of the  *)
(* stack, after the path given.                                            *)
Given == IF task = 0 THEN << >> ELSE Base(ThisJob.tasks[task])
PathBelow(s) ==
    Given \o [n \in 1 .. Cardinality(MarksBelow(s)) |->
                staDFS[CHOOSE t \in MarksBelow(s) :
                         Cardinality(MarksBelow(t)) = n - 1]]
Path == PathBelow(Len(staDFS) + 1)

(* The stack spells out a simple path, too short to be counted; exactly    *)
(* its vertices are marked in arrVisited_, and iVisitedLen is its length.  *)
TypeOK ==
    /\ jid \in JobId
    /\ task \in 0 .. Len(ThisJob.tasks)
    /\ pc \in {"head", "row", "done"}
    /\ staDFS \in Seq(Node(ThisJob) \ {ThisJob.dst})
    /\ nbr \in Nat /\ bTag \in BOOLEAN /\ ans \in Nat /\ gexit \in BOOLEAN
    /\ status \in {"run", "complete", "exit"}
    /\ len = Len(Path) /\ visited = Range(Path)
    /\ Simple(Path) /\ IsWalk(ThisJob, Path)
    /\ len <= 1 \/ len < K

(* The search implements the pool, the calls to come included: siblings on *)
(* the stack are the pending paths, and what a row has not offered yet.    *)
Unread ==
    IF pc # "row" THEN {}
    ELSE { p \in Children(ThisJob, Path) :
             \E n \in nbr + 1 .. Len(Row) : End(p) = Row[n] }

Untried == { Append(PathBelow(s), staDFS[s]) :
               s \in { t \in 1 .. Len(staDFS) : ~ OnPath(t) } }
ToCall  == { ThisJob.tasks[t] : t \in task + 1 .. Len(ThisJob.tasks) }
Pending == Untried \cup Unread \cup ToCall

Pool == INSTANCE PathPool
        WITH pending <- Pending,
             status  <- IF status = "exit" THEN "error" ELSE status

ImplementsPool == Pool!PoolSpec

(* Only a search that looked at g_exit after the limit gives up; any other *)
(* counts every path of its tasks.                                         *)
ExactUnlessExit ==
    /\ status = "complete" => ans = Cardinality(ResultsOf[jid])
    /\ status = "exit" => gexit /\ ans <= Cardinality(ResultsOf[jid])

(* The search ends, with or without a timeout.                             *)
Termination == <>(pc = "done")
=============================================================================
