--------------------------- MODULE HostMultiProofs --------------------------
(***************************************************************************)
(* The command queue, for any number of compute units and calls.  The      *)
(* argument follows the commands of a compute unit: once they have been    *)
(* enqueued, each is in the queue still or has had its effect (WritesDone, *)
(* TasksDone, ReadsDone), and each wait of the host turns the first into   *)
(* the second.  Without the wait for the writes the first link is missing, *)
(* but not the others: what is summed is final in any case, and it is what *)
(* was due from every kernel that found its inputs.                        *)
(***************************************************************************)
EXTENDS HostMulti, FiniteSetTheorems, TLAPS

W(c, b) == [op |-> "write", cu |-> c, buf |-> b] \in queue
T(c)    == [op |-> "task", cu |-> c, buf |-> "none"] \in queue
R(c, b) == [op |-> "read", cu |-> c, buf |-> b] \in queue

(* The host has enqueued the commands of stage at for compute unit c.      *)
Issued(c, at, later) == (pc = at /\ c < core) \/ pc \in later

Bits == [count : 0 .. 1, err : 0 .. 1, loop : 0 .. 1]

Types ==
    /\ waits \in Waits
    /\ call \in 0 .. MaxCalls /\ core \in Cu
    /\ pc \in {"call", "write", "waitwrites", "task", "waittasks", "read",
              "finish", "sum"}
    /\ given \in [Cu -> BOOLEAN] /\ host \in 0 .. MaxCalls
    /\ queue \subseteq Command /\ started \subseteq Cu
    /\ dev \in [Cu -> [Input -> 0 .. MaxCalls]]
    /\ inputs \in [Cu -> BOOLEAN]
    /\ due \in [Cu -> Report \cup {Nothing}]
    /\ out \in [Cu -> Report \cup {Nothing}]
    /\ back \in [Cu -> Bits]
    /\ deviceResults \in [count : Nat, err : Nat, loop : Nat]
    /\ served \in BOOLEAN

(* Which commands may be in flight when.                                   *)
InFlight ==
    /\ \A m \in queue :
         /\ m.op = "write" => /\ pc \notin {"call", "sum"}
                              /\ waits => pc \in {"write", "waitwrites"}
         /\ m.op = "task" => pc \in {"task", "waittasks"}
         /\ m.op = "read" => pc \in {"read", "finish"}
    /\ \A c \in started : T(c)
    /\ pc \notin {"write", "task", "read"} => core = 0

WritesDone ==
    waits =>
      \A c \in Cu :
        /\ inputs[c]
        /\ Issued(c, "write", {"waitwrites"}) =>
             \A b \in Moved(c, Input) : W(c, b) \/ dev[c][b] = call
        /\ pc \in {"task", "waittasks", "read", "finish", "sum"} =>
             \A b \in Moved(c, Input) : dev[c][b] = call

TasksDone ==
    \A c \in Cu : Issued(c, "task", {"waittasks", "read", "finish", "sum"}) =>
                    T(c) \/ (inputs[c] => out[c] = due[c])

ReadsDone ==
    \A c \in Cu : Issued(c, "read", {"finish", "sum"}) =>
      /\ R(c, "count") \/ back[c].count = out[c].count
      /\ R(c, "debug") \/ (back[c].err = out[c].err /\ back[c].loop = out[c].loop)

Summed ==
    /\ pc # "call" => /\ call >= 1 /\ host = call
                      /\ deviceResults.count = 0 /\ deviceResults.err = 0
                      /\ deviceResults.loop <= CoreNum * (call - 1)
    /\ pc = "call" => /\ deviceResults.count <= CoreNum
                      /\ deviceResults.err <= CoreNum
                      /\ deviceResults.loop <= CoreNum * call
    /\ ResultOfThisCall

HInv == Types /\ InFlight /\ WritesDone /\ TasksDone /\ ReadsDone /\ Summed
-----------------------------------------------------------------------------
(* What the operators return.                                              *)

LEMMA CuFacts ==
    /\ CoreNum \in Nat /\ CoreNum >= 1 /\ MaxCalls \in Nat
    /\ 0 \in Cu
    /\ \A c \in Cu : c \in Nat /\ c < CoreNum
    /\ \A c \in Cu : /\ c # CoreNum - 1 => (c + 1) % CoreNum = c + 1 /\ c + 1 \in Cu
                     /\ c = CoreNum - 1 => (c + 1) % CoreNum = 0
<1>1. CoreNum \in Nat /\ CoreNum >= 1 /\ MaxCalls \in Nat
  BY HostAssumption
<1>2. 0 \in Cu /\ \A c \in Cu : c \in Nat /\ c < CoreNum
  BY <1>1 DEF Cu
<1>3. ASSUME NEW c \in Cu
      PROVE  /\ c # CoreNum - 1 => (c + 1) % CoreNum = c + 1 /\ c + 1 \in Cu
             /\ c = CoreNum - 1 => (c + 1) % CoreNum = 0
  BY <1>1 DEF Cu
<1>4. QED  BY <1>1, <1>2, <1>3

(* A sum is at most one per compute unit, and 0 just if none reports.      *)
LEMMA TotalFacts ==
    ASSUME NEW reports, NEW field
    PROVE  /\ Total(reports, field) \in Nat
           /\ Total(reports, field) <= CoreNum
           /\ Total(reports, field) = 0 <=> \A c \in Cu : reports[c][field] # 1
<1> DEFINE Hits == { c \in Cu : reports[c][field] = 1 }
<1>1. IsFiniteSet(Cu) /\ Cardinality(Cu) = CoreNum
  BY HostAssumption, FS_Interval DEF Cu
<1>2. IsFiniteSet(Hits) /\ Cardinality(Hits) <= Cardinality(Cu)
  BY <1>1, FS_Subset
<1>3. Cardinality(Hits) \in Nat
  BY <1>2, FS_CardinalityType
<1>4. Cardinality(Hits) = 0 <=> Hits = {}
  BY <1>2, FS_EmptySet
<1>5. Hits = {} <=> \A c \in Cu : reports[c][field] # 1
  OBVIOUS
<1>6. QED  BY <1>1, <1>2, <1>3, <1>4, <1>5 DEF Total

LEMMA ReportFacts ==
    /\ Report \cup {Nothing} \subseteq Bits
    /\ Nothing \in Report \cup {Nothing}
    /\ Nothing \in Bits
    /\ Nothing.count = 0 /\ Nothing.err = 0 /\ Nothing.loop = 0
    /\ \A r \in Bits : /\ r.count \in {0, 1} /\ r.err \in {0, 1}
                       /\ r.loop \in {0, 1}
    /\ \A r, q \in Bits :
         r.count = q.count /\ r.err = q.err /\ r.loop = q.loop => r = q
<1>1. \A n : n \in 0 .. 1 <=> n \in {0, 1}
  OBVIOUS
<1>2. QED  BY <1>1 DEF Report, Nothing, Bits

(* The commands of a compute unit, told apart by their kind.               *)
LEMMA MovedInputs ==
    ASSUME NEW c PROVE /\ Moved(c, Input) \subseteq Input
                       /\ Moved(c, {"paths"} \cup Output) \subseteq {"paths"} \cup Output
                       /\ "count" \in Moved(c, {"paths"} \cup Output)
                       /\ "debug" \in Moved(c, {"paths"} \cup Output)
  BY DEF Moved, Input, Output

-----------------------------------------------------------------------------
(* Initially, and the steps of the host.                                   *)

LEMMA HInit == Init => HInv
<1> SUFFICES ASSUME Init PROVE HInv
  OBVIOUS
<1>1. Types
  BY CuFacts, ReportFacts DEF Init, Types, Cleared, Nothing
<1>2. InFlight
  BY DEF Init, InFlight
<1>3. WritesDone /\ TasksDone /\ ReadsDone
  BY CuFacts DEF Init, WritesDone, TasksDone, ReadsDone, Issued, Moved
<1>4. \A c \in Cu : due[c].count = 0 /\ due[c].err = 0
  BY DEF Init, Nothing
<1>5. Total(due, "count") = 0
  BY <1>4, TotalFacts
<1>6. deviceResults.count = 0 /\ deviceResults.err = 0 /\ deviceResults.loop = 0
  BY DEF Init, Nothing
<1>7. Summed
  BY <1>4, <1>5, <1>6, CuFacts DEF Init, Summed, ResultOfThisCall, Failure, KernelsFindInputs
<1>8. QED  BY <1>1, <1>2, <1>3, <1>7 DEF HInv

LEMMA HCallEmpty == HInv /\ CallEmpty => HInv'
<1> SUFFICES ASSUME HInv, CallEmpty PROVE HInv'
  OBVIOUS
<1>1. Types'
  <2>1. due' \in [Cu -> Report \cup {Nothing}]
    BY ReportFacts DEF CallEmpty
  <2>2. deviceResults' \in [count : Nat, err : Nat, loop : Nat]
    BY DEF HInv, Types, CallEmpty, Cleared
  <2>3. call' \in 0 .. MaxCalls
    BY CuFacts DEF HInv, Types, CallEmpty
  <2>4. inputs' \in [Cu -> BOOLEAN] /\ served' \in BOOLEAN
    BY DEF CallEmpty
  <2>5. QED  BY <2>1, <2>2, <2>3, <2>4 DEF HInv, Types, CallEmpty
<1>2. InFlight'
  BY DEF HInv, InFlight, CallEmpty, T
<1>3. WritesDone'
  BY DEF HInv, WritesDone, CallEmpty, Issued
<1>4. TasksDone'
  BY DEF HInv, TasksDone, CallEmpty, Issued
<1>5. ReadsDone'
  BY DEF HInv, ReadsDone, CallEmpty, Issued
<1>6. \A c \in Cu : due'[c].count = 0 /\ due'[c].err = 0
  BY DEF CallEmpty, Nothing
<1>7. Total(due', "count") = 0
  BY <1>6, TotalFacts
<1>8. /\ deviceResults'.count = 0 /\ deviceResults'.err = 0
      /\ deviceResults'.loop = deviceResults.loop
  BY DEF HInv, Types, CallEmpty, Cleared
<1>9. deviceResults'.loop <= CoreNum * call'
  <2>1. call \in Nat /\ call' = call + 1 /\ deviceResults.loop \in Nat
        /\ deviceResults.loop <= CoreNum * call
    BY DEF HInv, Types, Summed, CallEmpty
  <2>2. CoreNum * (call + 1) = CoreNum * call + CoreNum /\ CoreNum * call \in Nat
    BY <2>1, CuFacts
  <2>3. QED  BY <1>8, <2>1, <2>2, CuFacts
<1>10. Summed'
  BY <1>6, <1>7, <1>8, <1>9, CuFacts
     DEF CallEmpty, Summed, ResultOfThisCall, Failure, KernelsFindInputs, Total
<1>11. QED  BY <1>1, <1>2, <1>3, <1>4, <1>5, <1>10 DEF HInv

LEMMA HCall == HInv /\ Call => HInv'
<1> SUFFICES ASSUME HInv, Call PROVE HInv'
  OBVIOUS
<1>0. queue = {} /\ started = {} /\ queue' = {} /\ started' = {}
      /\ pc' = "write" /\ core' = 0
  <2>1. pc = "call" /\ UNCHANGED <<queue, started>> /\ pc' = "write" /\ core' = 0
    BY DEF Call
  <2>2. \A m \in queue : m.op \in {"write", "task", "read"}
    BY DEF HInv, Types, Command
  <2>3. queue = {}
    BY <2>1, <2>2 DEF HInv, InFlight
  <2>4. \A c \in started : FALSE
    BY <2>3 DEF HInv, InFlight, T
  <2>5. QED  BY <2>1, <2>3, <2>4
<1>1. Types'
  <2>1. dev' \in [Cu -> [Input -> 0 .. MaxCalls]]
    BY CuFacts DEF Call
  <2>2. due' \in [Cu -> Report \cup {Nothing}]
    BY DEF Call
  <2>3. deviceResults' \in [count : Nat, err : Nat, loop : Nat]
    BY DEF HInv, Types, Call, Cleared
  <2>4. QED  BY <1>0, <2>1, <2>2, <2>3, CuFacts, ReportFacts DEF HInv, Types, Call
<1>2. InFlight'
  BY <1>0 DEF InFlight
<1>3. WritesDone' /\ TasksDone' /\ ReadsDone'
  BY <1>0, CuFacts DEF Call, WritesDone, TasksDone, ReadsDone, Issued
<1>4. /\ deviceResults'.count = 0 /\ deviceResults'.err = 0
      /\ deviceResults'.loop = deviceResults.loop
  BY DEF HInv, Types, Call, Cleared
<1>5. /\ call' = call + 1 /\ host' = call' /\ call \in Nat
      /\ deviceResults.loop <= CoreNum * call
  BY DEF HInv, Types, Summed, Call
<1>6. call' >= 1 /\ call' - 1 = call
  BY <1>5
<1>7. Summed'
  BY <1>0, <1>4, <1>5, <1>6 DEF Summed, ResultOfThisCall, Failure, KernelsFindInputs
<1>8. QED  BY <1>1, <1>2, <1>3, <1>7 DEF HInv

(* When all commands are complete, the host has what the kernels left.     *)
LEMMA AllRead ==
    ASSUME HInv, pc = "sum" PROVE queue = {} /\ back = out
<1>1. \A m \in queue : m.op \in {"write", "task", "read"}
  BY DEF HInv, Types, Command
<1>2. queue = {}
  BY <1>1 DEF HInv, InFlight
<1>3. ASSUME NEW c \in Cu PROVE back[c] = out[c]
  <2>1. /\ back[c].count = out[c].count /\ back[c].err = out[c].err
        /\ back[c].loop = out[c].loop
    BY <1>2 DEF HInv, ReadsDone, Issued, R
  <2>2. back[c] \in Bits /\ out[c] \in Bits
    BY ReportFacts DEF HInv, Types
  <2>3. QED  BY <2>1, <2>2, ReportFacts
<1>4. back \in [Cu -> Bits] /\ out \in [Cu -> Report \cup {Nothing}]
  BY DEF HInv, Types
<1>5. QED  BY <1>2, <1>3, <1>4

LEMMA HSum == HInv /\ Sum => HInv'
<1> SUFFICES ASSUME HInv, Sum PROVE HInv'
  OBVIOUS
<1>0. pc = "sum" /\ pc' = "call" /\ core = 0
  BY DEF HInv, InFlight, Sum
<1>1. queue = {} /\ back = out
  BY <1>0, AllRead
<1>2. KernelsFindInputs => back = due
  <2>1. KernelsFindInputs => \A c \in Cu : out[c] = due[c]
    BY <1>0, <1>1 DEF HInv, TasksDone, Issued, T, KernelsFindInputs
  <2>2. QED  BY <1>1, <2>1 DEF HInv, Types
<1>3. /\ deviceResults.count = 0 /\ deviceResults.err = 0
      /\ deviceResults.loop \in Nat /\ call \in Nat /\ call >= 1
      /\ deviceResults.loop <= CoreNum * (call - 1)
  BY <1>0 DEF HInv, Types, Summed
<1> DEFINE C == Total(back, "count")
           E == Total(back, "err")
           L == Total(back, "loop")
<1>4. C \in Nat /\ C <= CoreNum /\ E \in Nat /\ E <= CoreNum
      /\ L \in Nat /\ L <= CoreNum
  BY TotalFacts
<1>5. E = 0 <=> \A c \in Cu : back[c].err # 1
  BY TotalFacts
<1> HIDE DEF C, E, L
<1>6. back[CoreNum - 1].err \in {0, 1}
  <2>1. CoreNum - 1 \in Cu
    BY CuFacts DEF Cu
  <2>2. QED  BY <2>1, ReportFacts DEF HInv, Types
<1>7. /\ deviceResults'.count = C
      /\ deviceResults'.err = IF waits THEN back[CoreNum - 1].err ELSE E
      /\ deviceResults'.loop =
           IF waits THEN deviceResults.loop ELSE deviceResults.loop + L
      /\ deviceResults' \in [count : Nat, err : Nat, loop : Nat]
      /\ deviceResults'.err <= CoreNum
  BY <1>3, <1>4, <1>6, CuFacts DEF Sum, C, E, L
<1>8. deviceResults'.loop <= CoreNum * call
  <2>1. CoreNum * (call - 1) + CoreNum = CoreNum * call
    BY <1>3, CuFacts
  <2>2. CoreNum * (call - 1) \in Int /\ CoreNum * call \in Int
    BY <1>3, CuFacts
  <2>3. QED  BY <1>3, <1>4, <1>7, <2>1, <2>2, CuFacts
<1>9. UNCHANGED <<waits, call, core, given, host, queue, started, dev, inputs,
                  due, out, back>>
  BY DEF Sum, deviceVars
<1>10. Types'
  <2>1. served' \in BOOLEAN
    BY DEF HInv, Types, Sum, Served
  <2>2. QED  BY <1>0, <1>7, <1>9, <2>1 DEF HInv, Types
<1>11. InFlight'
  BY <1>0, <1>1, <1>9 DEF HInv, InFlight, T
<1>12. WritesDone' /\ TasksDone' /\ ReadsDone'
  BY <1>0, <1>9 DEF HInv, WritesDone, TasksDone, ReadsDone, Issued, Moved, T, R, W
<1>13. KernelsFindInputs => C = Total(due, "count")
  BY <1>2 DEF C
<1>14. Failure' <=> \E c \in Cu : back[c].err # 0
  <2>1. \A c \in Cu : back[c].err \in {0, 1}
    BY ReportFacts DEF HInv, Types
  <2>2. CASE waits
    BY <1>9, <2>2 DEF Failure, Sum, Served
  <2>3. CASE ~ waits
    BY <1>5, <1>7, <1>9, <2>1, <2>3 DEF Failure
  <2>4. QED  BY <2>2, <2>3
<1>15. Total(due, "count")' = Total(due, "count")
  BY <1>9 DEF Total
<1>16. Summed'
  <2>1. KernelsFindInputs' <=> KernelsFindInputs
    BY <1>9 DEF KernelsFindInputs
  <2>2. KernelsFindInputs => (Failure' <=> \E c \in Cu : due[c].err # 0)
    BY <1>2, <1>14
  <2>3. ResultOfThisCall'
    BY <1>7, <1>9, <1>13, <1>15, <2>1, <2>2 DEF ResultOfThisCall
  <2>4. QED  BY <1>0, <1>4, <1>7, <1>8, <1>9, <2>3 DEF Summed
<1>17. QED  BY <1>10, <1>11, <1>12, <1>16 DEF HInv


-----------------------------------------------------------------------------
(* Enqueuing: the invariants that a step of Enqueue keeps whatever is      *)
(* enqueued, and how the compute units whose commands are issued grow.     *)

LEMMA EnqueueFacts ==
    ASSUME HInv, NEW at, NEW commands, NEW next, at # next,
           Enqueue(at, commands, next)
    PROVE  /\ pc = at /\ queue' = queue \cup commands /\ core' \in Cu
           /\ core \in Cu /\ core \in Nat /\ core' \in Nat
           /\ (pc' = at /\ core' = core + 1) \/ (pc' = next /\ core' = 0)
           /\ pc' = next => \A c \in Cu : c <= core
           /\ UNCHANGED <<waits, call, given, host, deviceResults, served, started, dev,
                          inputs, due, out, back>>
<1>1. core \in Cu /\ core \in Nat
  BY CuFacts DEF HInv, Types
<1>2. pc = at /\ queue' = queue \cup commands /\ core' = (core + 1) % CoreNum
      /\ pc' = (IF core = CoreNum - 1 THEN next ELSE at)
  BY DEF Enqueue
<1>3. CASE core = CoreNum - 1
  <2>1. core' = 0 /\ pc' = next
    BY <1>1, <1>2, <1>3, CuFacts
  <2>2. \A c \in Cu : c <= core
    BY <1>3, CuFacts
  <2>3. QED  BY <1>1, <1>2, <2>1, <2>2, CuFacts DEF Enqueue, deviceVars
<1>4. CASE core # CoreNum - 1
  <2>1. core' = core + 1 /\ core' \in Cu /\ pc' = at
    BY <1>1, <1>2, <1>4, CuFacts
  <2>2. pc' = next => \A c \in Cu : c <= core
    BY <1>2, <1>4, <2>1
  <2>3. QED  BY <1>1, <1>2, <2>1, <2>2, CuFacts DEF Enqueue, deviceVars
<1>5. QED  BY <1>3, <1>4

LEMMA HEnqueueWrites == HInv /\ EnqueueWrites => HInv'
<1> SUFFICES ASSUME HInv, EnqueueWrites PROVE HInv'
  OBVIOUS
<1> DEFINE commands == [op : {"write"}, cu : {core}, buf : Moved(core, Input)]
           next == IF waits THEN "waitwrites" ELSE "task"
<1>1. /\ pc = "write" /\ queue' = queue \cup commands /\ core' \in Cu
      /\ core \in Cu /\ core \in Nat /\ core' \in Nat
      /\ (pc' = "write" /\ core' = core + 1) \/ (pc' = next /\ core' = 0)
      /\ pc' = next => \A c \in Cu : c <= core
      /\ UNCHANGED <<waits, call, given, host, deviceResults, served, started, dev,
                     inputs, due, out, back>>
  <2>1. Enqueue("write", commands, next) /\ "write" # next
    BY DEF EnqueueWrites
  <2> HIDE DEF commands, next
  <2>2. QED  BY <2>1, EnqueueFacts
<1>2. \A m \in commands : m \in Command /\ m.op = "write"
  BY <1>1, MovedInputs DEF Command, Input, Output
<1>3. \A b \in Moved(core, Input) : [op |-> "write", cu |-> core, buf |-> b] \in commands
  OBVIOUS
<1> HIDE DEF commands
<1>4. /\ pc = "write" /\ pc' \in {"write", "waitwrites", "task"}
      /\ waits => pc' \in {"write", "waitwrites"}
  BY <1>1
<1>5. Types'
  BY <1>1, <1>2, <1>4 DEF HInv, Types
<1>6. InFlight'
  <2>1. \A m \in queue : m.op = "write"
    BY <1>4 DEF HInv, InFlight, Types, Command
  <2>2. \A m \in queue' : m.op = "write"
    BY <1>1, <1>2, <2>1
  <2>3. \A c \in started' : T(c)'
    BY <1>1 DEF HInv, InFlight, T
  <2>4. pc' \notin {"write", "task", "read"} => core' = 0
    BY <1>1, <1>4
  <2>5. QED  BY <1>1, <1>4, <2>2, <2>3, <2>4 DEF InFlight
<1>7. WritesDone'
  <2> SUFFICES ASSUME waits, NEW c \in Cu
               PROVE  /\ inputs[c]
                      /\ Issued(c, "write", {"waitwrites"})' =>
                           \A b \in Moved(c, Input) : W(c, b)' \/ dev[c][b] = call
    BY <1>1, <1>4 DEF WritesDone, Moved
  <2>1. inputs[c]
    BY DEF HInv, WritesDone
  <2>2. ASSUME Issued(c, "write", {"waitwrites"})', NEW b \in Moved(c, Input)
        PROVE  W(c, b)' \/ dev[c][b] = call
    <3>1. c < core \/ c = core
      BY <1>1, <1>4, <2>2, CuFacts DEF Issued
    <3>2. CASE c < core
      BY <1>1, <2>2, <3>2 DEF HInv, WritesDone, Issued, W
    <3>3. CASE c = core
      BY <1>1, <1>3, <2>2, <3>3 DEF W
    <3>4. QED  BY <3>1, <3>2, <3>3
  <2>3. QED  BY <2>1, <2>2
<1>8. TasksDone' /\ ReadsDone'
  BY <1>1, <1>4, CuFacts DEF TasksDone, ReadsDone, Issued
<1>9. Summed'
  BY <1>1, <1>4 DEF HInv, Summed, ResultOfThisCall, Failure, KernelsFindInputs
<1>10. QED  BY <1>5, <1>6, <1>7, <1>8, <1>9 DEF HInv

LEMMA HEnqueueTask == HInv /\ EnqueueTask => HInv'
<1> SUFFICES ASSUME HInv, EnqueueTask PROVE HInv'
  OBVIOUS
<1> DEFINE commands == [op : {"task"}, cu : {core}, buf : {"none"}]
           next == "waittasks"
<1>1. /\ pc = "task" /\ queue' = queue \cup commands /\ core' \in Cu
      /\ core \in Cu /\ core \in Nat /\ core' \in Nat
      /\ (pc' = "task" /\ core' = core + 1) \/ (pc' = next /\ core' = 0)
      /\ pc' = next => \A c \in Cu : c <= core
      /\ UNCHANGED <<waits, call, given, host, deviceResults, served, started, dev,
                     inputs, due, out, back>>
  <2>1. Enqueue("task", commands, next) /\ "task" # next
    BY DEF EnqueueTask
  <2> HIDE DEF commands, next
  <2>2. QED  BY <2>1, EnqueueFacts
<1>2. \A m \in commands : m \in Command /\ m.op = "task"
  BY <1>1, MovedInputs DEF Command, Input, Output
<1>3. [op |-> "task", cu |-> core, buf |-> "none"] \in commands
  OBVIOUS
<1> HIDE DEF commands
<1>4. pc = "task" /\ pc' \in {"task", "waittasks"}
  BY <1>1
<1>5. Types'
  BY <1>1, <1>2, <1>4 DEF HInv, Types
<1>6. InFlight'
  <2>1. \A m \in queue : (m.op = "write" /\ ~ waits) \/ m.op = "task"
    BY <1>4 DEF HInv, InFlight, Types, Command
  <2>2. \A m \in queue' : (m.op = "write" /\ ~ waits) \/ m.op = "task"
    BY <1>1, <1>2, <2>1
  <2>3. \A c \in started' : T(c)'
    BY <1>1 DEF HInv, InFlight, T
  <2>4. pc' \notin {"write", "task", "read"} => core' = 0
    BY <1>1, <1>4
  <2>5. QED  BY <1>1, <1>4, <2>2, <2>3, <2>4 DEF InFlight
<1>7. WritesDone'
  BY <1>1, <1>4 DEF HInv, WritesDone, Issued, Moved
<1>8. TasksDone'
  <2> SUFFICES ASSUME NEW c \in Cu,
                      Issued(c, "task", {"waittasks", "read", "finish", "sum"})'
               PROVE  T(c)' \/ (inputs[c] => out[c] = due[c])
    BY <1>1 DEF TasksDone
  <2>1. c < core \/ c = core
    BY <1>1, <1>4, CuFacts DEF Issued
  <2>2. CASE c < core
    BY <1>1, <2>2 DEF HInv, TasksDone, Issued, T
  <2>3. CASE c = core
    BY <1>1, <1>3, <2>3 DEF T
  <2>4. QED  BY <2>1, <2>2, <2>3
<1>9. ReadsDone'
  BY <1>4 DEF ReadsDone, Issued
<1>10. Summed'
  BY <1>1, <1>4 DEF HInv, Summed, ResultOfThisCall, Failure, KernelsFindInputs
<1>11. QED  BY <1>5, <1>6, <1>7, <1>8, <1>9, <1>10 DEF HInv

LEMMA HEnqueueReads == HInv /\ EnqueueReads => HInv'
<1> SUFFICES ASSUME HInv, EnqueueReads PROVE HInv'
  OBVIOUS
<1> DEFINE commands == [op : {"read"}, cu : {core},
                       buf : Moved(core, {"paths"} \cup Output)]
           next == "finish"
<1>1. /\ pc = "read" /\ queue' = queue \cup commands /\ core' \in Cu
      /\ core \in Cu /\ core \in Nat /\ core' \in Nat
      /\ (pc' = "read" /\ core' = core + 1) \/ (pc' = next /\ core' = 0)
      /\ pc' = next => \A c \in Cu : c <= core
      /\ UNCHANGED <<waits, call, given, host, deviceResults, served, started, dev,
                     inputs, due, out, back>>
  <2>1. Enqueue("read", commands, next) /\ "read" # next
    BY DEF EnqueueReads
  <2> HIDE DEF commands, next
  <2>2. QED  BY <2>1, EnqueueFacts
<1>2. \A m \in commands : m \in Command /\ m.op = "read"
  BY <1>1, MovedInputs DEF Command, Input, Output
<1>3. /\ [op |-> "read", cu |-> core, buf |-> "count"] \in commands
      /\ [op |-> "read", cu |-> core, buf |-> "debug"] \in commands
  BY MovedInputs
<1> HIDE DEF commands
<1>4. pc = "read" /\ pc' \in {"read", "finish"}
  BY <1>1
<1>5. Types'
  BY <1>1, <1>2, <1>4 DEF HInv, Types
<1>6. InFlight'
  <2>1. \A m \in queue : (m.op = "write" /\ ~ waits) \/ m.op = "read"
    BY <1>4 DEF HInv, InFlight, Types, Command
  <2>2. \A m \in queue' : (m.op = "write" /\ ~ waits) \/ m.op = "read"
    BY <1>1, <1>2, <2>1
  <2>3. \A c \in started' : T(c)'
    BY <1>1 DEF HInv, InFlight, T
  <2>4. pc' \notin {"write", "task", "read"} => core' = 0
    BY <1>1, <1>4
  <2>5. QED  BY <1>1, <1>4, <2>2, <2>3, <2>4 DEF InFlight
<1>7. WritesDone'
  BY <1>1, <1>4 DEF HInv, WritesDone, Issued, Moved
<1>8. TasksDone'
  BY <1>1, <1>4 DEF HInv, TasksDone, Issued, T
<1>9. ReadsDone'
  <2> SUFFICES ASSUME NEW c \in Cu, Issued(c, "read", {"finish", "sum"})'
               PROVE  /\ R(c, "count")' \/ back[c].count = out[c].count
                      /\ R(c, "debug")' \/ (/\ back[c].err = out[c].err
                                            /\ back[c].loop = out[c].loop)
    BY <1>1 DEF ReadsDone
  <2>1. c < core \/ c = core
    BY <1>1, <1>4, CuFacts DEF Issued
  <2>2. CASE c < core
    BY <1>1, <2>2 DEF HInv, ReadsDone, Issued, R
  <2>3. CASE c = core
    BY <1>1, <1>3, <2>3 DEF R
  <2>4. QED  BY <2>1, <2>2, <2>3
<1>10. Summed'
  BY <1>1, <1>4 DEF HInv, Summed, ResultOfThisCall, Failure, KernelsFindInputs
<1>11. QED  BY <1>5, <1>6, <1>7, <1>8, <1>9, <1>10 DEF HInv

-----------------------------------------------------------------------------
(* A wait of the host turns "in the queue or done" into "done".            *)

LEMMA HWaitWrites == HInv /\ WaitWrites => HInv'
<1> SUFFICES ASSUME HInv, WaitWrites PROVE HInv'
  OBVIOUS
<1>1. /\ pc = "waitwrites" /\ pc' = "task"
      /\ \A m \in queue : m.op # "write"
      /\ UNCHANGED <<waits, call, core, given, host, queue, deviceResults, served,
                     started, dev, inputs, due, out, back>>
  BY DEF WaitWrites, Wait, Waiting, WriteOps, deviceVars
<1>2. Types'
  BY <1>1 DEF HInv, Types
<1>3. InFlight'
  BY <1>1 DEF HInv, InFlight, T
<1>4. WritesDone'
  BY <1>1 DEF HInv, WritesDone, Issued, Moved, W
<1>5. TasksDone' /\ ReadsDone'
  BY <1>1, CuFacts DEF HInv, InFlight, TasksDone, ReadsDone, Issued
<1>6. Summed'
  BY <1>1 DEF HInv, Summed, ResultOfThisCall, Failure, KernelsFindInputs
<1>7. QED  BY <1>2, <1>3, <1>4, <1>5, <1>6 DEF HInv

LEMMA HWaitTasks == HInv /\ WaitTasks => HInv'
<1> SUFFICES ASSUME HInv, WaitTasks PROVE HInv'
  OBVIOUS
<1>1. /\ pc = "waittasks" /\ pc' = "read"
      /\ \A m \in queue : m.op # "task"
      /\ UNCHANGED <<waits, call, core, given, host, queue, deviceResults, served,
                     started, dev, inputs, due, out, back>>
  BY DEF WaitTasks, Wait, Waiting, TaskOps, deviceVars
<1>2. Types'
  BY <1>1 DEF HInv, Types
<1>3. InFlight'
  BY <1>1 DEF HInv, InFlight, T
<1>4. WritesDone'
  BY <1>1 DEF HInv, WritesDone, Issued, Moved, W
<1>5. TasksDone'
  BY <1>1 DEF HInv, TasksDone, Issued, T
<1>6. ReadsDone'
  BY <1>1, CuFacts DEF HInv, InFlight, ReadsDone, Issued
<1>7. Summed'
  BY <1>1 DEF HInv, Summed, ResultOfThisCall, Failure, KernelsFindInputs
<1>8. QED  BY <1>2, <1>3, <1>4, <1>5, <1>6, <1>7 DEF HInv

LEMMA HFinish == HInv /\ Finish => HInv'
<1> SUFFICES ASSUME HInv, Finish PROVE HInv'
  OBVIOUS
<1>1. /\ pc = "finish" /\ pc' = "sum"
      /\ \A m \in queue : m.op \notin {"write", "task", "read"}
      /\ UNCHANGED <<waits, call, core, given, host, queue, deviceResults, served,
                     started, dev, inputs, due, out, back>>
  BY DEF Finish, Wait, Waiting, FinishOps, deviceVars
<1>2. Types'
  BY <1>1 DEF HInv, Types
<1>3. InFlight'
  BY <1>1 DEF HInv, InFlight, T
<1>4. WritesDone'
  BY <1>1 DEF HInv, WritesDone, Issued, Moved, W
<1>5. TasksDone'
  BY <1>1 DEF HInv, TasksDone, Issued, T
<1>6. ReadsDone'
  BY <1>1 DEF HInv, ReadsDone, Issued, R
<1>7. Summed'
  BY <1>1 DEF HInv, Summed, ResultOfThisCall, Failure, KernelsFindInputs
<1>8. QED  BY <1>2, <1>3, <1>4, <1>5, <1>6, <1>7 DEF HInv

-----------------------------------------------------------------------------
(* The device: a command leaves the queue with its effect.                 *)

LEMMA HWritten ==
    ASSUME HInv, NEW c \in Cu, NEW b \in Input, Written(c, b) PROVE HInv'
<1> DEFINE m == [op |-> "write", cu |-> c, buf |-> b]
<1>1. /\ m \in queue /\ queue' = queue \ {m}
      /\ dev' = [dev EXCEPT ![c][b] = host]
      /\ UNCHANGED <<waits, call, pc, core, given, host, deviceResults, served, started,
                     inputs, due, out, back>>
  BY DEF Written, Done
<1>2. m.op = "write" /\ m.cu = c /\ m.buf = b
  OBVIOUS
<1>3. \A o, k, x : [op |-> o, cu |-> k, buf |-> x] # m
                     => ([op |-> o, cu |-> k, buf |-> x] \in queue'
                          <=> [op |-> o, cu |-> k, buf |-> x] \in queue)
  BY <1>1
<1>4. /\ \A k : T(k)' <=> T(k)
      /\ \A k, x : R(k, x)' <=> R(k, x)
      /\ \A k, x : (k # c \/ x # b) => (W(k, x)' <=> W(k, x))
  BY <1>3 DEF T, R, W
<1>5. pc \notin {"call", "sum"} /\ (waits => pc \in {"write", "waitwrites"})
  BY <1>1, <1>2 DEF HInv, InFlight
<1>6. host \in 0 .. MaxCalls /\ host = call
  BY <1>5 DEF HInv, Types, Summed
<1>7. /\ dev'[c][b] = call
      /\ \A k \in Cu, x \in Input : (k # c \/ x # b) => dev'[k][x] = dev[k][x]
  BY <1>1, <1>6 DEF HInv, Types
<1>8. Types'
  <2>1. dev' \in [Cu -> [Input -> 0 .. MaxCalls]]
    BY <1>1, <1>6 DEF HInv, Types
  <2>2. queue' \subseteq Command
    BY <1>1 DEF HInv, Types
  <2>3. QED  BY <1>1, <2>1, <2>2 DEF HInv, Types
<1> HIDE DEF m
<1>9. InFlight'
  BY <1>1, <1>4 DEF HInv, InFlight
<1>10. WritesDone'
  <2> SUFFICES ASSUME waits, NEW k \in Cu
               PROVE  /\ inputs[k]
                      /\ Issued(k, "write", {"waitwrites"}) =>
                           \A x \in Moved(k, Input) : W(k, x)' \/ dev'[k][x] = call
    BY <1>1, <1>5 DEF WritesDone, Moved, Issued
  <2>1. inputs[k]
    BY DEF HInv, WritesDone
  <2>2. ASSUME Issued(k, "write", {"waitwrites"}), NEW x \in Moved(k, Input)
        PROVE  W(k, x)' \/ dev'[k][x] = call
    <3>1. x \in Input /\ (W(k, x) \/ dev[k][x] = call)
      BY <2>2, MovedInputs DEF HInv, WritesDone
    <3>2. QED  BY <1>4, <1>7, <3>1
  <2>3. QED  BY <2>1, <2>2
<1>11. TasksDone'
  BY <1>1, <1>4 DEF HInv, TasksDone, Issued
<1>12. ReadsDone'
  BY <1>1, <1>4 DEF HInv, ReadsDone, Issued
<1>13. Summed'
  BY <1>1, <1>5 DEF HInv, Summed, ResultOfThisCall, Failure, KernelsFindInputs
<1>14. QED  BY <1>8, <1>9, <1>10, <1>11, <1>12, <1>13 DEF HInv

(* With the wait for the writes a kernel starts after all of them, so that *)
(* it finds its inputs.                                                    *)
LEMMA HKernelStart ==
    ASSUME HInv, NEW c \in Cu, KernelStart(c) PROVE HInv'
<1>1. /\ T(c) /\ started' = started \cup {c}
      /\ inputs' = [inputs EXCEPT ![c] =
                      \A b \in Moved(c, Input) : dev[c][b] = call]
      /\ UNCHANGED <<waits, call, pc, core, given, host, queue, dev, due, out,
                     back, deviceResults, served>>
  BY DEF KernelStart, T
<1>2. pc \in {"task", "waittasks"}
  BY <1>1 DEF HInv, InFlight, T
<1>3. Types'
  <2>1. (\A b \in Moved(c, Input) : dev[c][b] = call) \in BOOLEAN
    OBVIOUS
  <2>2. inputs' \in [Cu -> BOOLEAN]
    BY <1>1, <2>1 DEF HInv, Types
  <2>3. QED  BY <1>1, <2>2 DEF HInv, Types
<1>4. InFlight'
  BY <1>1 DEF HInv, InFlight, T
<1>5. WritesDone'
  <2>1. waits => \A b \in Moved(c, Input) : dev[c][b] = call
    BY <1>2 DEF HInv, WritesDone
  <2>2. waits => \A k \in Cu : inputs'[k]
    BY <1>1, <2>1 DEF HInv, WritesDone, Types
  <2>3. QED  BY <1>1, <2>2 DEF HInv, WritesDone, Issued, Moved, W
<1>6. TasksDone' /\ ReadsDone'
  BY <1>1 DEF HInv, TasksDone, ReadsDone, Issued, T, R
<1>7. Summed'
  BY <1>1, <1>2 DEF HInv, Summed, ResultOfThisCall, Failure, KernelsFindInputs
<1>8. QED  BY <1>3, <1>4, <1>5, <1>6, <1>7 DEF HInv

LEMMA HKernelEnd ==
    ASSUME HInv, NEW c \in Cu, KernelEnd(c) PROVE HInv'
<1> DEFINE m == [op |-> "task", cu |-> c, buf |-> "none"]
<1>1. /\ m \in queue /\ queue' = queue \ {m} /\ started' = started \ {c}
      /\ UNCHANGED <<waits, call, pc, core, given, host, deviceResults, served, dev,
                     inputs, due, back>>
  BY DEF KernelEnd, Done
<1>2. PICK r \in Report \cup {Nothing} :
        (inputs[c] => r = due[c]) /\ out' = [out EXCEPT ![c] = r]
  BY DEF KernelEnd
<1>3. \A o, k, x : [op |-> o, cu |-> k, buf |-> x] # m
                     => ([op |-> o, cu |-> k, buf |-> x] \in queue'
                          <=> [op |-> o, cu |-> k, buf |-> x] \in queue)
  BY <1>1
<1>4. /\ \A k : k # c => (T(k)' <=> T(k))
      /\ \A k, x : R(k, x)' <=> R(k, x)
      /\ \A k, x : W(k, x)' <=> W(k, x)
  BY <1>3 DEF T, R, W
<1>5. pc \in {"task", "waittasks"}
  BY <1>1 DEF HInv, InFlight
<1> HIDE DEF m
<1>6. /\ out'[c] = r /\ out' \in [Cu -> Report \cup {Nothing}]
      /\ \A k \in Cu : k # c => out'[k] = out[k]
  BY <1>2 DEF HInv, Types
<1>7. Types'
  BY <1>1, <1>6 DEF HInv, Types
<1>8. InFlight'
  BY <1>1, <1>4 DEF HInv, InFlight
<1>9. WritesDone'
  BY <1>1, <1>4 DEF HInv, WritesDone, Issued, Moved
<1>10. TasksDone'
  BY <1>1, <1>2, <1>4, <1>6 DEF HInv, TasksDone, WritesDone, Issued
<1>11. ReadsDone'
  BY <1>1, <1>5 DEF ReadsDone, Issued
<1>12. Summed'
  BY <1>1, <1>5 DEF HInv, Summed, ResultOfThisCall, Failure, KernelsFindInputs
<1>13. QED  BY <1>7, <1>8, <1>9, <1>10, <1>11, <1>12 DEF HInv

LEMMA HRead ==
    ASSUME HInv, NEW c \in Cu, NEW b \in {"paths"} \cup Output, Read(c, b)
    PROVE  HInv'
<1> DEFINE m == [op |-> "read", cu |-> c, buf |-> b]
<1>1. /\ m \in queue /\ queue' = queue \ {m}
      /\ UNCHANGED <<waits, call, pc, core, given, host, deviceResults, served, started,
                     dev, inputs, due, out>>
  BY DEF Read, Done
<1>2. \A o, k, x : [op |-> o, cu |-> k, buf |-> x] # m
                     => ([op |-> o, cu |-> k, buf |-> x] \in queue'
                          <=> [op |-> o, cu |-> k, buf |-> x] \in queue)
  BY <1>1
<1>3. /\ \A k : T(k)' <=> T(k)
      /\ \A k, x : (k # c \/ x # b) => (R(k, x)' <=> R(k, x))
      /\ \A k, x : W(k, x)' <=> W(k, x)
  BY <1>2 DEF T, R, W
<1>4. pc \in {"read", "finish"}
  BY <1>1 DEF HInv, InFlight
<1> HIDE DEF m
<1> DEFINE got == IF b = "count" THEN [back[c] EXCEPT !.count = out[c].count]
                  ELSE IF b = "debug"
                  THEN [back[c] EXCEPT !.err = out[c].err, !.loop = out[c].loop]
                  ELSE back[c]
<1>5. back' = [back EXCEPT ![c] = got]
  BY DEF Read
<1>6. back[c] \in Bits /\ out[c] \in Bits
  BY ReportFacts DEF HInv, Types
<1>7. got \in Bits
  BY <1>6 DEF Bits
<1>8. /\ b = "count" => /\ got.count = out[c].count
                        /\ got.err = back[c].err /\ got.loop = back[c].loop
      /\ b = "debug" => /\ got.count = back[c].count
                        /\ got.err = out[c].err /\ got.loop = out[c].loop
      /\ b = "paths" => got = back[c]
  BY <1>6 DEF Bits
<1> HIDE DEF got
<1>9. /\ back' \in [Cu -> Bits] /\ back'[c] = got
      /\ \A k \in Cu : k # c => back'[k] = back[k]
  BY <1>5, <1>7 DEF HInv, Types
<1>10. Types'
  BY <1>1, <1>9 DEF HInv, Types
<1>11. InFlight'
  BY <1>1, <1>3 DEF HInv, InFlight
<1>12. WritesDone'
  BY <1>1, <1>3 DEF HInv, WritesDone, Issued, Moved
<1>13. TasksDone'
  BY <1>1, <1>3 DEF HInv, TasksDone, Issued
<1>14. ReadsDone'
  <2> SUFFICES ASSUME NEW k \in Cu, Issued(k, "read", {"finish", "sum"})
               PROVE  /\ R(k, "count")' \/ back'[k].count = out[k].count
                      /\ R(k, "debug")' \/ (/\ back'[k].err = out[k].err
                                            /\ back'[k].loop = out[k].loop)
    BY <1>1 DEF ReadsDone, Issued
  <2>1. /\ R(k, "count") \/ back[k].count = out[k].count
        /\ R(k, "debug") \/ (back[k].err = out[k].err /\ back[k].loop = out[k].loop)
    BY DEF HInv, ReadsDone
  <2>2. CASE k # c
    BY <1>3, <1>9, <2>1, <2>2
  <2>3. CASE k = c
    <3>1. b \in {"count", "debug", "paths"}
      BY DEF Output
    <3>2. QED  BY <1>3, <1>8, <1>9, <2>1, <2>3, <3>1
  <2>4. QED  BY <2>2, <2>3
<1>15. Summed'
  BY <1>1, <1>4 DEF HInv, Summed, ResultOfThisCall, Failure, KernelsFindInputs
<1>16. QED  BY <1>10, <1>11, <1>12, <1>13, <1>14, <1>15 DEF HInv

LEMMA HStep == HInv /\ [Next]_vars => HInv'
<1> SUFFICES ASSUME HInv, [Next]_vars PROVE HInv'
  OBVIOUS
<1>1. CASE UNCHANGED vars
  BY <1>1 DEF vars, HInv, Types, InFlight, WritesDone, TasksDone, ReadsDone,
     Summed, ResultOfThisCall, Failure, KernelsFindInputs, Issued, Moved, T, R, W, Total
<1>2. ASSUME NEW c \in Cu, Device(c) PROVE HInv'
  BY <1>2, HWritten, HKernelStart, HKernelEnd, HRead DEF Device
<1>3. CASE Host
  BY <1>3, HCall, HCallEmpty, HEnqueueWrites, HWaitWrites, HEnqueueTask,
     HWaitTasks, HEnqueueReads, HFinish, HSum DEF Host
<1>4. QED  BY <1>1, <1>2, <1>3 DEF Next, AllCalled

-----------------------------------------------------------------------------
(* The theorems.                                                           *)

(* The counters of a call stay within what its compute units can report,   *)
(* and nothing of a call is in flight when it has returned.                *)
THEOREM TypeCorrect == Spec => []TypeOK
<1>1. HInv => TypeOK
  <2> SUFFICES ASSUME HInv PROVE TypeOK
    OBVIOUS
  <2>1. pc = "call" => queue = {} /\ started = {}
    <3> SUFFICES ASSUME pc = "call" PROVE queue = {} /\ started = {}
      OBVIOUS
    <3>1. \A m \in queue : m.op \in {"write", "task", "read"}
      BY DEF HInv, Types, Command
    <3>2. queue = {}
      BY <3>1 DEF HInv, InFlight
    <3>3. QED  BY <3>2 DEF HInv, InFlight, T
  <2>2. /\ deviceResults.count \in 0 .. CoreNum
        /\ deviceResults.err \in 0 .. CoreNum
        /\ deviceResults.loop \in Nat /\ call \in 0 .. MaxCalls
        /\ deviceResults.loop <= CoreNum * call
    <3>1. /\ deviceResults.count \in Nat /\ deviceResults.err \in Nat
          /\ deviceResults.loop \in Nat /\ call \in 0 .. MaxCalls
      BY DEF HInv, Types
    <3>2. CASE pc = "call"
      BY <3>1, <3>2, CuFacts DEF HInv, Summed
    <3>3. CASE pc # "call"
      <4>1. /\ call >= 1 /\ deviceResults.count = 0 /\ deviceResults.err = 0
            /\ deviceResults.loop <= CoreNum * (call - 1)
        BY <3>3 DEF HInv, Summed
      <4>2. CoreNum * (call - 1) + CoreNum = CoreNum * call
            /\ CoreNum * (call - 1) \in Int /\ CoreNum * call \in Int
        BY <3>1, CuFacts
      <4>3. QED  BY <3>1, <4>1, <4>2, CuFacts
    <3>4. QED  BY <3>2, <3>3
  <2>3. CoreNum * call <= CoreNum * MaxCalls
    <3>1. MaxCalls - call \in Nat /\ call \in Nat
      BY <2>2, CuFacts
    <3>2. CoreNum * (MaxCalls - call) \in Nat
      BY <3>1, CuFacts
    <3>3. CoreNum * MaxCalls = CoreNum * call + CoreNum * (MaxCalls - call)
      BY <3>1, CuFacts
    <3>4. QED  BY <3>1, <3>2, <3>3, CuFacts
  <2>4. deviceResults.loop \in 0 .. CoreNum * MaxCalls
    <3>1. CoreNum * call \in Int /\ CoreNum * MaxCalls \in Int
      BY <2>2, CuFacts
    <3>2. QED  BY <2>2, <2>3, <3>1
  <2>5. deviceResults \in [count : 0 .. CoreNum, err : 0 .. CoreNum,
                           loop : 0 .. CoreNum * MaxCalls]
    BY <2>2, <2>4 DEF HInv, Types
  <2>6. QED  BY <2>1, <2>5 DEF HInv, Types, TypeOK, Bits
<1>2. QED  BY <1>1, HInit, HStep, PTL DEF Spec

(* What the host adds up is what the kernels of this call reported, waits  *)
(* or not.                                                                 *)
THEOREM SumIsFinal == Spec => []SumsFinalReports
<1>1. HInv => SumsFinalReports
  BY AllRead DEF SumsFinalReports
<1>2. QED  BY <1>1, HInit, HStep, PTL DEF Spec

(* For either function: unless a kernel has started before its inputs, the *)
(* count returned is the sum of what the compute units owe this query, and *)
(* a failure is reported just if one of them failed.                       *)
THEOREM ResultOfQuery == Spec => []ResultOfThisCall
<1>1. HInv => ResultOfThisCall
  BY DEF HInv, Summed
<1>2. QED  BY <1>1, HInit, HStep, PTL DEF Spec

(* With the wait for the writes, no kernel starts before its inputs: for   *)
(* IDXDFSOnFPGA_Multi2 the result above holds without a condition.         *)
THEOREM WaitIsEnough == Spec => []WaitSuffices
<1>1. HInv => WaitSuffices
  BY DEF HInv, WritesDone, WaitSuffices, KernelsFindInputs
<1>2. QED  BY <1>1, HInit, HStep, PTL DEF Spec
=============================================================================
