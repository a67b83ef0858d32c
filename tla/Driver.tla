------------------------------- MODULE Driver -------------------------------
(***************************************************************************)
(* The query loop of main, execute_within_time_limit and the thread that   *)
(* runs Excute.  The two threads share g_exit, a plain bool, and the       *)
(* future.  A query is a number of paths to be found; how they are found   *)
(* is the matter of the other modules.  Three kinds of methods differ in   *)
(* what they do with g_exit:                                               *)
(*   "search"  the searches on the CPU: Pre_DouHalfHop... does not look at *)
(*             it, the enumeration looks once in every round               *)
(*   "fpga"    MYDFSOnFPGA...: a kernel never looks at it, the share of    *)
(*             the CPU does; a kernel may end with an error                *)
(*   "bcjoin"  BC-JOIN: construct_pruned_dag_min_subgraph looks at it, the *)
(*             join clears it, looks at it, and sets it after a limit of   *)
(*             its own                                                     *)
(* A read of g_exit may return an old value, so nobody is forced to stop.  *)
(* With a method to compare with, every query is first answered by that    *)
(* method on an object of its own, which has no device.                    *)
(* The build is one with USE_TIME_LIMIT, and the time limits are not 0.    *)
(***************************************************************************)
EXTENDS Naturals, Sequences, FiniteSets

CONSTANTS Args,         \* what main may be called with
          Paths,        \* the number of paths every query has
          AccelSelect   \* iAccelSelect, the speedups main asks for

None == "none"   \* no method to compare with

ASSUME DriverAssumption ==
    /\ Args \subseteq [method   : {"search", "fpga", "bcjoin"},
                       comparer : {None, "search", "bcjoin"},
                       queries  : Nat \ {0}]
    /\ Paths \in Nat /\ AccelSelect \in Nat

(* bufferDebug[0] of one kernel is 0 .. 3, and the host adds them up.      *)
Overlarge == 0 .. 4

VARIABLES args,         \* method_type, compare_method_type, querysize
          i,            \* queries launched
          enumerator,   \* the object that answers: "test" or "compare"
          pc,           \* main: "loop", "test", "wait", "expired", "report",
                        \* "table", "end"
          gexit,        \* g_exit
          worker,       \* Excute: "pre", "enum", "tail", or the future is
                        \* "ready"
          reach,        \* paths of the graph the preprocessing has left
          count,        \* iPathCount_
          overlarge,
          vErrorCode,
          vResultCount, \* of either object
          status,       \* the status logged for every query, or None
          terminatedCnt, runCnt,
          good,         \* good_good, the queries with a speedup
          late          \* the limits of this execution that have passed

vars == <<args, i, enumerator, pc, gexit, worker, reach, count, overlarge,
          vErrorCode, vResultCount, status, terminatedCnt, runCnt, good, late>>
reports == <<args, enumerator, vErrorCode, status, terminatedCnt, runCnt, good>>

Comparing == args.comparer # None
method    == IF enumerator = "compare" THEN args.comparer ELSE args.method

Init == /\ args \in Args
        /\ enumerator = "test" /\ i = 0 /\ pc = "loop" /\ gexit = FALSE
        /\ worker = "ready" /\ reach = Paths /\ count = 0 /\ overlarge = 0
        /\ vErrorCode = << >> /\ status = << >>
        /\ vResultCount = [who \in {"test", "compare"} |-> << >>]
        /\ terminatedCnt = 0 /\ runCnt = 0 /\ good = {} /\ late = FALSE

-----------------------------------------------------------------------------
(* The thread of main.                                                     *)

BugAtLaunch == gexit
AtLaunch    == FALSE

(* execute_within_time_limit starts the thread.                            *)
Execute(who) ==
    /\ enumerator' = who
    /\ gexit' = AtLaunch
    /\ overlarge' = 0 /\ worker' = "pre" /\ reach' = Paths
    /\ late' = FALSE
    /\ pc' = "wait"
    /\ UNCHANGED <<args, count, vErrorCode, vResultCount, status, terminatedCnt,
                   runCnt, good>>

Launch ==
    /\ pc = "loop" /\ i < args.queries
    /\ i' = i + 1
    /\ Execute(IF Comparing THEN "compare" ELSE "test")

LaunchTest == pc = "test" /\ Execute("test") /\ UNCHANGED i

BugPending == TRUE
Pending    == worker # "ready"

(* wait_for returns because the limit has passed, again and again ...      *)
Expire ==
    /\ pc = "wait" /\ Pending
    /\ late' = TRUE
    /\ pc' = "expired"
    /\ UNCHANGED <<i, gexit, worker, reach, count, overlarge, vResultCount,
                   reports>>

SetExit ==
    /\ pc = "expired"
    /\ gexit' = TRUE
    /\ pc' = "wait"
    /\ UNCHANGED <<i, worker, reach, count, overlarge, vResultCount, late,
                   reports>>

(* ... or because the future is ready.                                     *)
Ready ==
    /\ pc = "wait" /\ worker = "ready"
    /\ pc' = "report"
    /\ UNCHANGED <<i, gexit, worker, reach, count, overlarge, vResultCount,
                   late, reports>>

Name(ok, code) ==
    CASE code = 0 -> IF ok THEN "Complete" ELSE "Time Out"
      [] code = 1 -> "FPGA small batch"
      [] code = 2 -> "FPGA small DRAM"
      [] code = 3 -> "FPGA large tmp"
      [] OTHER    -> "FPGA err"

BugOk == TRUE
Ok    == ~ gexit

BugCodes == IF Ok THEN Append(vErrorCode, overlarge) ELSE vErrorCode
Codes    == Append(vErrorCode, IF Ok THEN overlarge ELSE 1)

Report ==
    /\ pc = "report" /\ ~ Comparing
    /\ vErrorCode' = Codes
    /\ status' = Append(status, Name(Ok, overlarge))
    /\ IF Ok /\ overlarge = 0
       THEN runCnt' = runCnt + 1 /\ UNCHANGED terminatedCnt
       ELSE terminatedCnt' = terminatedCnt + 1 /\ UNCHANGED runCnt
    /\ pc' = "loop"
    /\ UNCHANGED <<args, i, enumerator, gexit, worker, reach, count, overlarge,
                   vResultCount, good, late>>

(* The method to compare with has answered.  If it was stopped, a row of   *)
(* the other object's counters, which are 0, stands for the query.         *)
ReportComparer ==
    /\ pc = "report" /\ enumerator = "compare"
    /\ IF Ok THEN pc' = "test" /\ UNCHANGED <<vResultCount, status, terminatedCnt>>
       ELSE /\ terminatedCnt' = terminatedCnt + 1
            /\ status' = Append(status, "Time Out")
            /\ vResultCount' = [vResultCount EXCEPT !.test = Append(@, 0)]
            /\ pc' = "loop"
    /\ UNCHANGED <<args, i, enumerator, gexit, worker, reach, count, overlarge,
                   vErrorCode, runCnt, good, late>>

Newest(who) == vResultCount[who][Len(vResultCount[who])]

(* Both have: nothing is logged of a query on which they differ.  Whether  *)
(* the speedup is large enough is a matter of the clock.                   *)
ReportTest ==
    /\ pc = "report" /\ Comparing /\ enumerator = "test"
    /\ runCnt' = IF Ok /\ overlarge = 0 THEN runCnt + 1 ELSE runCnt
    /\ LET same == overlarge = 0 /\ Newest("test") = Newest("compare")
       IN  /\ status' = Append(status, IF overlarge # 0 THEN "FPGA Error"
                                       ELSE IF ~ same THEN None
                                       ELSE IF Ok THEN "Complete" ELSE "Time Out")
           /\ \/ good' = good
              \/ same /\ good' = good \cup {i}
           /\ pc' = IF Cardinality(good') > AccelSelect THEN "table" ELSE "loop"
    /\ UNCHANGED <<args, i, enumerator, gexit, worker, reach, count, overlarge,
                   vErrorCode, vResultCount, terminatedCnt, late>>

Table ==
    /\ pc = "table" \/ (pc = "loop" /\ i = args.queries)
    /\ pc' = "end"
    /\ UNCHANGED <<i, gexit, worker, reach, count, overlarge, vResultCount,
                   late, reports>>

-----------------------------------------------------------------------------
(* The thread that runs Excute.                                            *)

(* Excute up to the enumeration.                                           *)
Prepare ==
    /\ worker = "pre" /\ method # "bcjoin"
    /\ worker' = "enum" /\ count' = 0
    /\ UNCHANGED <<i, pc, gexit, reach, overlarge, vResultCount, late, reports>>

(* construct_pruned_dag_min_subgraph returns early with whatever edges it  *)
(* has; BCJOINPathEnumCSR clears g_exit before it joins them.              *)
PrepareJoin ==
    /\ worker = "pre" /\ method = "bcjoin"
    /\ \/ UNCHANGED reach
       \/ gexit /\ reach' \in 0 .. Paths
    /\ gexit' = FALSE
    /\ worker' = "enum" /\ count' = 0
    /\ UNCHANGED <<i, pc, overlarge, vResultCount, late, reports>>

More == count < reach

Find ==
    /\ worker = "enum" /\ More
    /\ count' = count + 1
    /\ UNCHANGED <<i, pc, gexit, worker, reach, overlarge, vResultCount, late,
                   reports>>

Enumerated ==
    /\ worker = "enum" /\ count = reach
    /\ worker' = "tail"
    /\ UNCHANGED <<i, pc, gexit, reach, count, overlarge, vResultCount, late,
                   reports>>

SeeExit ==
    /\ worker = "enum" /\ gexit
    /\ worker' = "tail"
    /\ UNCHANGED <<i, pc, gexit, reach, count, overlarge, vResultCount, late,
                   reports>>

(* query_time_exceeded, after 300 seconds of joining.                      *)
OwnLimit ==
    /\ worker = "enum" /\ method = "bcjoin"
    /\ gexit' = TRUE /\ late' = TRUE
    /\ worker' = "tail"
    /\ UNCHANGED <<i, pc, reach, count, overlarge, vResultCount, reports>>

KernelError ==
    /\ worker = "enum" /\ method = "fpga"
    /\ overlarge' \in Overlarge \ {0}
    /\ worker' = "tail"
    /\ UNCHANGED <<i, pc, gexit, reach, count, vResultCount, late, reports>>

(* update_performance_counter and reset_performance_counter.               *)
Tail_ ==
    /\ worker = "tail"
    /\ vResultCount' = [vResultCount EXCEPT ![enumerator] = Append(@, count)]
    /\ count' = 0
    /\ worker' = "ready"
    /\ UNCHANGED <<i, pc, gexit, reach, overlarge, late, reports>>

-----------------------------------------------------------------------------
Main   == \/ Launch \/ LaunchTest \/ Expire \/ SetExit \/ Ready
          \/ Report \/ ReportComparer \/ ReportTest \/ Table
Excute == \/ Prepare \/ PrepareJoin \/ Find \/ Enumerated
          \/ SeeExit \/ OwnLimit \/ KernelError \/ Tail_

End == pc = "end" /\ UNCHANGED vars

Next == Main \/ Excute \/ End

Spec == Init /\ [][Next]_vars

(* Both threads are scheduled; main comes back from every wait_for.        *)
FairSpec == Spec /\ WF_vars(Main) /\ WF_vars(Excute)

-----------------------------------------------------------------------------
(***************************************************************************)
(* Properties.                                                             *)
(***************************************************************************)

(* When the table is written every query has its row in each of the        *)
(* columns, and counts as terminated or as run.  With a method to compare  *)
(* with, the rows of the counters are there all the same, but no codes.    *)
TypeOK ==
    /\ args \in Args
    /\ i \in 0 .. args.queries
    /\ enumerator \in {"test", "compare"}
    /\ pc \in {"loop", "test", "wait", "expired", "report", "table", "end"}
    /\ gexit \in BOOLEAN /\ late \in BOOLEAN
    /\ worker \in {"pre", "enum", "tail", "ready"}
    /\ reach \in 0 .. Paths /\ count \in 0 .. Paths
    /\ overlarge \in Overlarge
    /\ vErrorCode \in Seq(Overlarge)
    /\ vResultCount \in [{"test", "compare"} -> Seq(0 .. Paths)]
    /\ good \subseteq 1 .. i
    /\ pc \in {"loop", "table", "end"} =>
         /\ Len(vResultCount.test) = i /\ Len(status) = i
         /\ Len(vErrorCode) = IF Comparing THEN 0 ELSE i
         /\ Len(vResultCount.compare) = IF Comparing THEN i ELSE 0
         /\ ~ Comparing => terminatedCnt + runCnt = i

(* A query logged as complete has all its paths in the results, whenever   *)
(* the limit passed and whoever saw g_exit.                                *)
CompleteIsExact ==
    \A n \in 1 .. Len(status) :
      status[n] = "Complete" => vResultCount.test[n] = Paths

(* It has with the methods that leave g_exit to main; and a speedup is     *)
(* entered only for a query that both methods have answered in full.       *)
MainAloneClears ==
    "bcjoin" \notin {args.method, args.comparer} =>
       /\ CompleteIsExact
       /\ \A n \in good : vResultCount.test[n] = Paths

(* No enumeration breaks off before a limit has passed for its own query,  *)
(* unless a kernel failed: a g_exit set for one query does not end the     *)
(* next.                                                                   *)
StopsOnlyLate ==
    [][ (worker = "enum" /\ worker' = "tail" /\ count # reach /\ overlarge' = 0)
        => late' ]_vars

(* Every query is reported and the table is written.                       *)
AllReported == <>(pc = "end")
=============================================================================
