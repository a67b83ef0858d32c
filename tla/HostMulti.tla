------------------------------ MODULE HostMulti -----------------------------
(***************************************************************************)
(* One call per query drives all compute units through the command queue   *)
(* qo_, which executes its commands out of order.  The host enqueues the   *)
(* writes of the inputs, the kernels and the reads of the outputs; which   *)
(* of them wait for which is left to the host's waits on events and to the *)
(* final finish().                                                         *)
(*                                                                         *)
(* Two functions work in this way, of which a run of the program calls     *)
(* one.  waits is FALSE for MYDFSOnFPGA_Multi, where the wait between the  *)
(* writes and the kernels is commented out, and which hands its error to   *)
(* Excute as a sum in deviceResults_[1].  It is TRUE for                   *)
(* IDXDFSOnFPGA_Multi2, which waits there, keeps the code of the last      *)
(* compute unit only, and tells by its return value whether any failed.    *)
(***************************************************************************)
EXTENDS Integers, FiniteSets

CONSTANTS CoreNum,       \* core_num
          MaxCalls,      \* bound: calls of the function considered
          Waits          \* the values of waits considered

ASSUME HostAssumption == /\ CoreNum \in Nat \ {0} /\ MaxCalls \in Nat \ {0}
                         /\ Waits \subseteq BOOLEAN

Cu == 0 .. CoreNum - 1

(* What a kernel reports: ans_paths_num, bufferDebug[0] and bufferDebug[3] *)
(* for all the counters of the work done.                                  *)
Report == { [count |-> 1, err |-> 0, loop |-> 1],
            [count |-> 0, err |-> 1, loop |-> 1] }
Nothing == [count |-> 0, err |-> 0, loop |-> 0]

VARIABLES waits,    \* whether the kernels wait for the writes
          call,     \* number of the call, 0 before the first
          pc,       \* where the host is; "call" between two calls
          core,     \* c, the compute unit whose commands come next
          given,    \* p_count[c] > 0, for each compute unit
          host,     \* the call whose data vPos_ ... bufferDeviceDDRPaths_ hold
          queue,    \* commands enqueued and not complete
          started,  \* the kernels among them that run
          dev,      \* for each input buffer the call its data is from, 0 none
          inputs,   \* whether a kernel found all its inputs when it started
          due,      \* what a kernel reports if it did
          out,      \* the output buffers of the compute units
          back,     \* bufferDeviceResultsLong_ and bufferDeviceDebugLong_
          deviceResults, \* [0] count, [1] err and [4] loop
          served    \* what IDXDFSOnFPGA_Multi2 has returned

vars == <<waits, call, pc, core, given, host, queue, started, dev, inputs, due, out,
          back, deviceResults, served>>
deviceVars == <<started, dev, inputs, due, out, back>>

(* "graph" stands for bPos, bEdg and bSdut, of which the last arrives.     *)
Input   == {"graph", "paths"}
Output  == {"count", "debug"}
Command == [op : {"write"}, cu : Cu, buf : Input]
             \cup [op : {"task"}, cu : Cu, buf : {"none"}]
             \cup [op : {"read"}, cu : Cu, buf : {"paths"} \cup Output]

(* MYDFSOnFPGA_Multi neither writes nor reads the paths of a compute unit  *)
(* without tasks.  IDXDFSOnFPGA_Multi2 moves them in any case; its one     *)
(* command for all the inputs, or outputs, of a compute unit is taken      *)
(* apart here into one for each.                                           *)
Moved(c, bufs) == IF given[c] \/ waits THEN bufs ELSE bufs \ {"paths"}

Init == /\ waits \in Waits
        /\ call = 0 /\ pc = "call" /\ core = 0
        /\ given = [c \in Cu |-> TRUE]
        /\ host = 0 /\ queue = {} /\ started = {}
        /\ dev = [c \in Cu |-> [b \in Input |-> 0]]
        /\ inputs = [c \in Cu |-> TRUE]
        /\ due = [c \in Cu |-> Nothing]
        /\ out = [c \in Cu |-> Nothing]
        /\ back = [c \in Cu |-> Nothing]
        /\ deviceResults = Nothing /\ served = TRUE

-----------------------------------------------------------------------------
(* The host.                                                               *)

Cleared == [deviceResults EXCEPT !.count = 0, !.err = 0]

(* Results are cleared, though not all of them; an empty graph ends there, *)
(* and counts as served.                                                   *)
CallEmpty ==
    /\ pc = "call" /\ call < MaxCalls
    /\ call' = call + 1
    /\ deviceResults' = Cleared
    /\ due' = [c \in Cu |-> Nothing]
    /\ inputs' = [c \in Cu |-> TRUE]
    /\ served' = TRUE
    /\ UNCHANGED <<waits, pc, core, given, host, queue, started, dev, out, back>>

(* The host vectors are filled and the device buffers created, without     *)
(* content; all the kernels will report is decided by the query.           *)
Call ==
    /\ pc = "call" /\ call < MaxCalls
    /\ call' = call + 1 /\ host' = call + 1
    /\ deviceResults' = Cleared
    /\ given' \in [Cu -> BOOLEAN]
    /\ due' \in { d \in [Cu -> Report \cup {Nothing}] :
                    \A c \in Cu : d[c] = Nothing <=> ~ given'[c] }
    /\ dev' = [c \in Cu |-> [b \in Input |-> 0]]
    /\ out' = [c \in Cu |-> Nothing]
    /\ inputs' = [c \in Cu |-> TRUE]
    /\ pc' = "write" /\ core' = 0
    /\ UNCHANGED <<waits, queue, started, back, served>>

(* The commands of one compute unit; after the last the host goes on.      *)
Enqueue(at, commands, next) ==
    /\ pc = at
    /\ queue' = queue \cup commands
    /\ core' = (core + 1) % CoreNum
    /\ pc' = IF core = CoreNum - 1 THEN next ELSE at
    /\ UNCHANGED <<waits, call, given, host, deviceResults, served, deviceVars>>

EnqueueWrites == Enqueue("write",
                         [op : {"write"}, cu : {core}, buf : Moved(core, Input)],
                         IF waits THEN "waitwrites" ELSE "task")
EnqueueTask   == Enqueue("task", [op : {"task"}, cu : {core}, buf : {"none"}],
                         "waittasks")
EnqueueReads  == Enqueue("read",
                         [op : {"read"}, cu : {core},
                          buf : Moved(core, {"paths"} \cup Output)],
                         "finish")

Waiting(ops) == \E m \in queue : m.op \in ops

Wait(at, ops, next) ==
    /\ pc = at /\ ~ Waiting(ops)
    /\ pc' = next
    /\ UNCHANGED <<waits, call, core, given, host, queue, deviceResults, served,
                   deviceVars>>

BugWriteOps  == {}
WriteOps     == {"write"}
BugTaskOps   == {}
TaskOps      == {"task"}
BugFinishOps == {"task"}
FinishOps    == {"write", "task", "read"}

WaitWrites == Wait("waitwrites", WriteOps, "task")
WaitTasks  == Wait("waittasks", TaskOps, "read")
Finish     == Wait("finish", FinishOps, "sum")

(* The sum over the compute units; what each reports is 0 or 1.            *)
Total(reports, field) == Cardinality({ c \in Cu : reports[c][field] = 1 })

(* Both functions add up the counts.  The error is the sum of the codes in *)
(* one and the code of the last compute unit in the other; the work, in    *)
(* deviceResults_[4], is added up in one and left alone in the other.      *)
BugServed == back[CoreNum - 1].err = 0
Served    == \A c \in Cu : back[c].err = 0

Sum ==
    /\ pc = "sum"
    /\ deviceResults' =
         [count |-> deviceResults.count + Total(back, "count"),
          err   |-> IF waits THEN back[CoreNum - 1].err
                             ELSE deviceResults.err + Total(back, "err"),
          loop  |-> IF waits THEN deviceResults.loop
                             ELSE deviceResults.loop + Total(back, "loop")]
    /\ served' = IF waits THEN Served ELSE served
    /\ pc' = "call"
    /\ UNCHANGED <<waits, call, core, given, host, queue, deviceVars>>

-----------------------------------------------------------------------------
(* The device: any enqueued command may be next.                           *)

Done(m) == /\ m \in queue
           /\ queue' = queue \ {m}
           /\ UNCHANGED <<waits, call, pc, core, given, host, deviceResults, served>>

Written(c, b) ==
    /\ Done([op |-> "write", cu |-> c, buf |-> b])
    /\ dev' = [dev EXCEPT ![c][b] = host]
    /\ UNCHANGED <<started, inputs, due, out, back>>

KernelStart(c) ==
    /\ [op |-> "task", cu |-> c, buf |-> "none"] \in queue
    /\ c \notin started
    /\ started' = started \cup {c}
    /\ inputs' = [inputs EXCEPT ![c] =
                    \A b \in Moved(c, Input) : dev[c][b] = call]
    /\ UNCHANGED <<waits, call, pc, core, given, host, queue, dev, due, out,
                   back, deviceResults, served>>

(* A kernel that ran on whatever its memory held reports anything.         *)
KernelEnd(c) ==
    /\ c \in started
    /\ Done([op |-> "task", cu |-> c, buf |-> "none"])
    /\ started' = started \ {c}
    /\ \E r \in Report \cup {Nothing} :
         /\ inputs[c] => r = due[c]
         /\ out' = [out EXCEPT ![c] = r]
    /\ UNCHANGED <<dev, inputs, due, back>>

Read(c, b) ==
    /\ Done([op |-> "read", cu |-> c, buf |-> b])
    /\ back' = [back EXCEPT ![c] =
                  IF b = "count" THEN [@ EXCEPT !.count = out[c].count]
                  ELSE IF b = "debug"
                  THEN [@ EXCEPT !.err = out[c].err, !.loop = out[c].loop]
                  ELSE @]
    /\ UNCHANGED <<started, dev, inputs, due, out>>

-----------------------------------------------------------------------------
Host == \/ Call \/ CallEmpty \/ EnqueueWrites \/ WaitWrites \/ EnqueueTask
        \/ WaitTasks \/ EnqueueReads \/ Finish \/ Sum

Device(c) == \/ \E b \in Input : Written(c, b)
             \/ KernelStart(c) \/ KernelEnd(c)
             \/ \E b \in {"paths"} \cup Output : Read(c, b)

AllCalled == pc = "call" /\ call = MaxCalls /\ UNCHANGED vars

Next == Host \/ (\E c \in Cu : Device(c)) \/ AllCalled

Spec == Init /\ [][Next]_vars

-----------------------------------------------------------------------------
(***************************************************************************)
(* Properties.                                                             *)
(***************************************************************************)

(* Between two calls nothing is in flight: the next call may resize and    *)
(* refill the host vectors the commands copy from.                         *)
TypeOK ==
    /\ waits \in Waits
    /\ call \in 0 .. MaxCalls /\ core \in Cu
    /\ pc \in {"call", "write", "waitwrites", "task", "waittasks", "read",
              "finish", "sum"}
    /\ given \in [Cu -> BOOLEAN] /\ host \in 0 .. MaxCalls
    /\ queue \subseteq Command /\ started \subseteq Cu
    /\ dev \in [Cu -> [Input -> 0 .. MaxCalls]]
    /\ inputs \in [Cu -> BOOLEAN]
    /\ due \in [Cu -> Report \cup {Nothing}]
    /\ out \in [Cu -> Report \cup {Nothing}]
    /\ back \in [Cu -> [count : 0 .. 1, err : 0 .. 1, loop : 0 .. 1]]
    /\ deviceResults \in [count : 0 .. CoreNum, err : 0 .. CoreNum,
                          loop : 0 .. CoreNum * MaxCalls]
    /\ served \in BOOLEAN
    /\ pc = "call" => queue = {} /\ started = {}

(* What is summed is what the kernels of this call reported at their end:  *)
(* no output is read early, none is left over from the call before.        *)
SumsFinalReports == pc = "sum" => back = out

(* A kernel runs on the inputs written for it.                             *)
KernelsFindInputs == \A c \in Cu : inputs[c]

(* It does where the kernels are enqueued after the wait for the writes.   *)
WaitSuffices == waits => KernelsFindInputs

(* What Excute takes for the failure of the query: the return value of one *)
(* function, deviceResults_[1] of the other.                               *)
Failure == IF waits THEN ~ served ELSE deviceResults.err # 0

(* Unless a kernel has started before its inputs, the path count handed to *)
(* Excute is the sum of what the compute units have to report for this     *)
(* query, none of it from the call before, and Excute is told of a failure *)
(* just if one of them failed, whichever it is.                            *)
ResultOfThisCall ==
    pc = "call" /\ KernelsFindInputs =>
      /\ deviceResults.count = Total(due, "count")
      /\ Failure <=> \E c \in Cu : due[c].err # 0
=============================================================================
