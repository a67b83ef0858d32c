----------------------------- MODULE DriverProofs ---------------------------
(***************************************************************************)
(* The query loop and the two threads, for any number of queries and       *)
(* paths.  The rows of the table are complete because every row is written *)
(* at one point of the cycle of a query (Rows); the results of methods     *)
(* that leave g_exit to main are exact because a count that fell short is  *)
(* accompanied by g_exit or an error until it is reported (Short), and     *)
(* nothing but a new execution takes g_exit back.                          *)
(***************************************************************************)
EXTENDS Driver, SequenceTheorems, TLAPS

Statuses == {"Complete", "Time Out", "FPGA small batch", "FPGA small DRAM",
             "FPGA large tmp", "FPGA err", "FPGA Error", None}

Types ==
    /\ args \in Args
    /\ i \in 0 .. args.queries
    /\ enumerator \in {"test", "compare"}
    /\ pc \in {"loop", "test", "wait", "expired", "report", "table", "end"}
    /\ gexit \in BOOLEAN /\ late \in BOOLEAN
    /\ worker \in {"pre", "enum", "tail", "ready"}
    /\ reach \in 0 .. Paths /\ count \in 0 .. reach
    /\ overlarge \in Overlarge
    /\ vErrorCode \in Seq(Overlarge)
    /\ vResultCount \in [{"test", "compare"} -> Seq(0 .. Paths)]
    /\ status \in Seq(Statuses)
    /\ terminatedCnt \in Nat /\ runCnt \in Nat
    /\ good \subseteq 1 .. i

(* A query is under way; the object that answers it has.                   *)
Busy     == pc \in {"test", "wait", "expired", "report"}
Answered == worker = "ready"

Cycle ==
    /\ pc \notin {"wait", "expired"} => Answered
    /\ Busy => i >= 1
    /\ ~ Comparing => enumerator = "test"
    /\ pc = "test" => enumerator = "compare"

(* The rows written so far, at every point of the cycle of a query.        *)
Done == IF Busy THEN i - 1 ELSE i
TestRows ==
    IF Busy /\ enumerator = "test" /\ Answered THEN i ELSE Done
CompareRows ==
    IF ~ Comparing THEN 0
    ELSE IF ~ Busy \/ enumerator = "test" \/ Answered THEN i ELSE i - 1

Rows ==
    /\ Len(status) = Done
    /\ Len(vErrorCode) = IF Comparing THEN 0 ELSE Done
    /\ ~ Comparing => terminatedCnt + runCnt = Done
    /\ Len(vResultCount["test"]) = TestRows
    /\ Len(vResultCount["compare"]) = CompareRows

TInv == Types /\ Cycle /\ Rows

(* Whoever sets g_exit does so after a limit.                              *)
ExitIsLate == (gexit => late) /\ (pc = "expired" => late)

-----------------------------------------------------------------------------
LEMMA ArgsType ==
    ASSUME args \in Args
    PROVE  /\ args.queries \in Nat /\ args.queries >= 1
           /\ args.method \in {"search", "fpga", "bcjoin"}
           /\ args.comparer \in {None, "search", "bcjoin"}
           /\ Paths \in Nat /\ AccelSelect \in Nat
BY DriverAssumption

LEMMA AppendRow ==
    ASSUME NEW S, NEW s \in Seq(S), NEW x \in S
    PROVE  /\ Append(s, x) \in Seq(S)
           /\ Len(Append(s, x)) = Len(s) + 1 /\ Len(s) \in Nat
           /\ \A n \in 1 .. Len(s) : Append(s, x)[n] = s[n]
           /\ Append(s, x)[Len(s) + 1] = x
BY AppendProperties, LenProperties

LEMMA TInit == Init => TInv
<1>1. SUFFICES ASSUME Init PROVE TInv
  OBVIOUS
<1>2. /\ args.queries \in Nat /\ Paths \in Nat
  BY <1>1, ArgsType DEF Init
<1>3. \A S : << >> \in Seq(S) /\ Len(<< >>) = 0
  BY EmptySeq
<1>4. Types
  <2>1. vResultCount \in [{"test", "compare"} -> Seq(0 .. Paths)]
    BY <1>1, <1>3 DEF Init
  <2>2. vErrorCode \in Seq(Overlarge) /\ status \in Seq(Statuses)
    BY <1>1, <1>3 DEF Init
  <2>3. /\ i \in 0 .. args.queries /\ reach \in 0 .. Paths
        /\ count \in 0 .. reach /\ overlarge \in Overlarge
    BY <1>1, <1>2 DEF Init, Overlarge
  <2>4. gexit \in BOOLEAN /\ late \in BOOLEAN
    BY <1>1, Zenon DEF Init
  <2>5. QED  BY <1>1, <2>1, <2>2, <2>3, <2>4 DEF Init, Types
<1>5. Cycle /\ Rows
  BY <1>1, <1>3
     DEF Init, Cycle, Rows, Busy, Answered, Done, TestRows, CompareRows
<1>6. QED  BY <1>4, <1>5 DEF TInv

(* The steps that write no row.                                            *)
LEMMA LaunchStep ==
    ASSUME TInv, Launch \/ LaunchTest PROVE TInv'
<1>1. /\ args.queries \in Nat /\ Paths \in Nat /\ i \in Nat
      /\ Types /\ Cycle /\ Rows
  BY ArgsType DEF TInv, Types
<1>2. /\ overlarge' = 0 /\ worker' = "pre" /\ reach' = Paths /\ late' = FALSE
      /\ gexit' = FALSE /\ pc' = "wait"
      /\ UNCHANGED <<args, count, vErrorCode, vResultCount, status,
                     terminatedCnt, runCnt, good>>
  BY DEF Launch, LaunchTest, Execute, AtLaunch
<1>3. \/ /\ pc = "loop" /\ i < args.queries /\ i' = i + 1
         /\ enumerator' = IF Comparing THEN "compare" ELSE "test"
      \/ pc = "test" /\ i' = i /\ enumerator' = "test"
  BY DEF Launch, LaunchTest, Execute
<1>4. Types'
  <2>1. i' \in 0 .. args.queries /\ i <= i'
    BY <1>1, <1>3 DEF Types
  <2>2. good' \subseteq 1 .. i'
    BY <1>1, <1>2, <2>1 DEF Types
  <2>3. count' \in 0 .. reach' /\ reach' \in 0 .. Paths
    BY <1>1, <1>2 DEF Types
  <2>4. enumerator' \in {"test", "compare"} /\ overlarge' \in Overlarge
    BY <1>1, <1>2, <1>3 DEF Types, Overlarge
  <2>5. gexit' \in BOOLEAN /\ late' \in BOOLEAN
    BY <1>2, Zenon
  <2>6. QED  BY <1>1, <1>2, <2>1, <2>2, <2>3, <2>4, <2>5 DEF Types
<1>5. Cycle'
  BY <1>1, <1>2, <1>3 DEF Cycle, Busy, Answered, Comparing
<1>6. Rows'
  BY <1>1, <1>2, <1>3
     DEF Rows, Cycle, Busy, Answered, Done, TestRows, CompareRows, Comparing
<1>7. QED  BY <1>4, <1>5, <1>6 DEF TInv

LEMMA MainStep ==
    ASSUME TInv, Expire \/ SetExit \/ Ready \/ Table \/ UNCHANGED vars
    PROVE  TInv'
<1>1. Types /\ Cycle /\ Rows
  BY DEF TInv
<1>2. /\ UNCHANGED <<i, worker, reach, count, overlarge, vResultCount, args,
                     enumerator, vErrorCode, status, terminatedCnt, runCnt, good>>
      /\ \/ pc \in {"wait", "expired"} /\ pc' \in {"wait", "expired"}
         \/ pc = "wait" /\ pc' = "report" /\ worker = "ready"
         \/ pc \in {"loop", "table"} /\ pc' = "end"
         \/ pc' = pc
      /\ gexit' \in BOOLEAN /\ late' \in BOOLEAN
  BY <1>1 DEF Expire, SetExit, Ready, Table, reports, vars, Types
<1>3. Types'
  BY <1>1, <1>2 DEF Types
<1>4. Cycle'
  BY <1>1, <1>2 DEF Cycle, Busy, Answered, Comparing
<1>5. Rows'
  BY <1>1, <1>2
     DEF Rows, Cycle, Busy, Answered, Done, TestRows, CompareRows, Comparing
<1>6. QED  BY <1>3, <1>4, <1>5 DEF TInv

LEMMA WorkerStep ==
    ASSUME TInv, \/ Prepare \/ PrepareJoin \/ Find \/ Enumerated \/ SeeExit
                 \/ OwnLimit \/ KernelError
    PROVE  TInv'
<1>1. Types /\ Cycle /\ Rows /\ Paths \in Nat
  BY ArgsType DEF TInv, Types
<1>2. /\ UNCHANGED <<i, pc, vResultCount, args,
                     enumerator, vErrorCode, status, terminatedCnt, runCnt, good>>
      /\ worker \in {"pre", "enum"} /\ worker' \in {"enum", "tail"}
  BY DEF Prepare, PrepareJoin, Find, Enumerated, SeeExit, OwnLimit,
         KernelError, reports
<1>3. gexit' \in BOOLEAN /\ late' \in BOOLEAN /\ overlarge' \in Overlarge
  BY <1>1 DEF Prepare, PrepareJoin, Find, Enumerated, SeeExit, OwnLimit,
              KernelError, reports, Types
<1>4. reach' \in 0 .. Paths /\ count' \in 0 .. reach'
  <2>1. CASE Prepare \/ PrepareJoin
    BY <1>1, <2>1 DEF Prepare, PrepareJoin, Types
  <2>2. CASE Find
    BY <1>1, <2>2 DEF Find, More, Types
  <2>3. CASE Enumerated \/ SeeExit \/ OwnLimit \/ KernelError
    BY <1>1, <2>3 DEF Enumerated, SeeExit, OwnLimit, KernelError, Types
  <2>4. QED  BY <2>1, <2>2, <2>3
<1>5. Types'
  BY <1>1, <1>2, <1>3, <1>4 DEF Types
<1>6. Cycle'
  BY <1>1, <1>2 DEF Cycle, Busy, Answered, Comparing
<1>7. Rows'
  BY <1>1, <1>2
     DEF Rows, Cycle, Busy, Answered, Done, TestRows, CompareRows, Comparing
<1>8. QED  BY <1>5, <1>6, <1>7 DEF TInv

(* The steps that write a row.                                             *)
LEMMA NameType ==
    ASSUME NEW ok \in BOOLEAN, NEW code PROVE Name(ok, code) \in Statuses
BY DEF Name, Statuses

LEMMA ReportStep ==
    ASSUME TInv, Report PROVE TInv'
<1>1. /\ Types /\ Cycle /\ Rows /\ i \in Nat
  BY ArgsType DEF TInv, Types
<1>2. /\ pc = "report" /\ ~ Comparing /\ pc' = "loop"
      /\ vErrorCode' = Append(vErrorCode, IF Ok THEN overlarge ELSE 1)
      /\ status' = Append(status, Name(Ok, overlarge))
      /\ \/ runCnt' = runCnt + 1 /\ terminatedCnt' = terminatedCnt
         \/ runCnt' = runCnt /\ terminatedCnt' = terminatedCnt + 1
      /\ UNCHANGED <<args, i, enumerator, gexit, worker, reach, count, overlarge,
                     vResultCount, good, late>>
  BY DEF Report, Codes
<1>3. (IF Ok THEN overlarge ELSE 1) \in Overlarge
  BY <1>1 DEF Types, Overlarge
<1>4. Name(Ok, overlarge) \in Statuses
  BY <1>1, NameType DEF Types, Ok
<1>5. /\ vErrorCode' \in Seq(Overlarge) /\ Len(vErrorCode') = Len(vErrorCode) + 1
      /\ status' \in Seq(Statuses) /\ Len(status') = Len(status) + 1
  BY <1>1, <1>2, <1>3, <1>4, AppendRow DEF Types
<1>6. Types'
  BY <1>1, <1>2, <1>5, SMTT(30) DEF Types
<1>7. Cycle'
  BY <1>1, <1>2 DEF Cycle, Busy, Answered, Comparing
<1>8. Rows'
  BY <1>1, <1>2, <1>5
     DEF Types, Rows, Cycle, Busy, Answered, Done, TestRows, CompareRows, Comparing
<1>9. QED  BY <1>6, <1>7, <1>8 DEF TInv

LEMMA ReportComparerStep ==
    ASSUME TInv, ReportComparer PROVE TInv'
<1>1. /\ Types /\ Cycle /\ Rows /\ i \in Nat /\ Paths \in Nat
  BY ArgsType DEF TInv, Types
<1>2. /\ pc = "report" /\ enumerator = "compare"
      /\ UNCHANGED <<args, i, enumerator, gexit, worker, reach, count, overlarge,
                     vErrorCode, runCnt, good, late>>
  BY DEF ReportComparer
<1>3. CASE Ok
  <2>1. pc' = "test" /\ UNCHANGED <<vResultCount, status, terminatedCnt>>
    BY <1>3 DEF ReportComparer
  <2>2. Types'
    BY <1>1, <1>2, <2>1 DEF Types
  <2>3. Cycle'
    BY <1>1, <1>2, <2>1 DEF Cycle, Busy, Answered, Comparing
  <2>4. Rows'
    BY <1>1, <1>2, <2>1
       DEF Rows, Cycle, Busy, Answered, Done, TestRows, CompareRows, Comparing
  <2>5. QED  BY <2>2, <2>3, <2>4 DEF TInv
<1>4. CASE ~ Ok
  <2>1. /\ terminatedCnt' = terminatedCnt + 1 /\ pc' = "loop"
        /\ status' = Append(status, "Time Out")
        /\ vResultCount' = [vResultCount EXCEPT
                              !["test"] = Append(vResultCount["test"], 0)]
    BY <1>4 DEF ReportComparer
  <2>2. /\ status' \in Seq(Statuses) /\ Len(status') = Len(status) + 1
    <3>1. "Time Out" \in Statuses /\ status \in Seq(Statuses)
      BY <1>1 DEF Types, Statuses
    <3>2. QED  BY <2>1, <3>1, AppendRow
  <2>3. /\ Append(vResultCount["test"], 0) \in Seq(0 .. Paths)
        /\ Len(Append(vResultCount["test"], 0)) = Len(vResultCount["test"]) + 1
    BY <1>1, AppendRow DEF Types
  <2>4. /\ vResultCount' \in [{"test", "compare"} -> Seq(0 .. Paths)]
        /\ Len(vResultCount'["test"]) = Len(vResultCount["test"]) + 1
        /\ vResultCount'["compare"] = vResultCount["compare"]
    BY <1>1, <2>1, <2>3 DEF Types
  <2>5. Types'
    <3>0. terminatedCnt \in Nat /\ terminatedCnt' = terminatedCnt + 1
      BY <1>1, <2>1 DEF Types
    <3>1. terminatedCnt' \in Nat
      BY <3>0
    <3>2. pc' = "loop"
      BY <2>1
    <3>3. QED  BY <1>1, <1>2, <2>2, <2>4, <3>1, <3>2 DEF Types
  <2>6. Cycle'
    BY <1>1, <1>2, <2>1 DEF Cycle, Busy, Answered, Comparing
  <2>7. Rows'
    <3>1. Busy /\ Answered /\ Comparing /\ ~ Busy' /\ Comparing'
      BY <1>1, <1>2, <2>1 DEF Busy, Answered, Comparing, Cycle
    <3>2. Done = i - 1 /\ Done' = i /\ TestRows = i - 1 /\ CompareRows = i
      BY <1>2, <3>1 DEF Done, TestRows, CompareRows
    <3>3. TestRows' = i /\ CompareRows' = i
      BY <1>2, <3>1, <3>2 DEF TestRows, CompareRows
    <3>4. QED  BY <1>1, <1>2, <2>2, <2>4, <3>1, <3>2, <3>3 DEF Rows
  <2>8. QED  BY <2>5, <2>6, <2>7 DEF TInv
<1>5. QED  BY <1>3, <1>4

LEMMA ReportTestStep ==
    ASSUME TInv, ReportTest PROVE TInv'
<1>1. /\ Types /\ Cycle /\ Rows /\ i \in Nat
  BY ArgsType DEF TInv, Types
<1>2. /\ pc = "report" /\ Comparing /\ enumerator = "test"
      /\ runCnt' \in {runCnt, runCnt + 1}
      /\ \E x \in Statuses : status' = Append(status, x)
      /\ good' = good \/ good' = good \cup {i}
      /\ pc' \in {"loop", "table"}
      /\ UNCHANGED <<args, i, enumerator, gexit, worker, reach, count, overlarge,
                     vErrorCode, vResultCount, terminatedCnt, late>>
  BY DEF ReportTest, Statuses
<1>3. status' \in Seq(Statuses) /\ Len(status') = Len(status) + 1
  <2>1. PICK x \in Statuses : status' = Append(status, x)
    BY <1>2
  <2>2. status \in Seq(Statuses)
    BY <1>1 DEF Types
  <2>3. QED  BY <2>1, <2>2, AppendRow
<1>4. good' \subseteq 1 .. i /\ runCnt' \in Nat
  <2>1. i \in 1 .. i /\ good \subseteq 1 .. i /\ runCnt \in Nat
    BY <1>1, <1>2 DEF Types, Cycle, Busy
  <2>2. good' \subseteq 1 .. i
    BY <1>2, <2>1
  <2>3. runCnt' \in Nat
    BY <1>2, <2>1
  <2>4. QED  BY <2>2, <2>3
<1>5. Types'
  <2>1. /\ pc' \in {"loop", "test", "wait", "expired", "report", "table", "end"}
        /\ UNCHANGED <<args, i, enumerator, gexit, worker, reach, count, overlarge,
                       vErrorCode, vResultCount, terminatedCnt, late>>
    BY <1>2
  <2>2. QED  BY <1>1, <1>3, <1>4, <2>1 DEF Types
<1>6. Cycle'
  BY <1>1, <1>2 DEF Cycle, Busy, Answered, Comparing
<1>7. Rows'
  BY <1>1, <1>2, <1>3
     DEF Types, Rows, Cycle, Busy, Answered, Done, TestRows, CompareRows, Comparing
<1>8. QED  BY <1>5, <1>6, <1>7 DEF TInv

LEMMA TailStep ==
    ASSUME TInv, Tail_ PROVE TInv'
<1>1. /\ Types /\ Cycle /\ Rows /\ i \in Nat /\ Paths \in Nat
  BY ArgsType DEF TInv, Types
<1> DEFINE who == enumerator
<1>2. /\ worker = "tail" /\ worker' = "ready" /\ count' = 0
      /\ vResultCount' = [vResultCount EXCEPT
                            ![who] = Append(vResultCount[who], count)]
      /\ UNCHANGED <<i, pc, gexit, reach, overlarge, late, args, enumerator,
                     vErrorCode, status, terminatedCnt, runCnt, good>>
  BY DEF Tail_, reports
<1>3. who \in {"test", "compare"} /\ count \in 0 .. Paths /\ 0 \in 0 .. reach
  BY <1>1 DEF Types
<1>4. /\ Append(vResultCount[who], count) \in Seq(0 .. Paths)
      /\ Len(Append(vResultCount[who], count)) = Len(vResultCount[who]) + 1
  BY <1>1, <1>3, AppendRow DEF Types
<1>5. /\ vResultCount' \in [{"test", "compare"} -> Seq(0 .. Paths)]
      /\ Len(vResultCount'[who]) = Len(vResultCount[who]) + 1
      /\ \A w \in {"test", "compare"} :
           w # who => vResultCount'[w] = vResultCount[w]
  BY <1>1, <1>2, <1>3, <1>4 DEF Types
<1>6. Types'
  BY <1>1, <1>2, <1>3, <1>5 DEF Types
<1>7. Cycle'
  BY <1>1, <1>2 DEF Cycle, Busy, Answered, Comparing
<1>8. Rows'
  BY <1>1, <1>2, <1>3, <1>5
     DEF Types, Rows, Cycle, Busy, Answered, Done, TestRows, CompareRows, Comparing
<1>9. QED  BY <1>6, <1>7, <1>8 DEF TInv

LEMMA TStep == TInv /\ [Next]_vars => TInv'
BY LaunchStep, MainStep, WorkerStep, ReportStep, ReportComparerStep,
   ReportTestStep, TailStep DEF Next, Main, Excute, End

(* Every table of main has one row for every query in each of its columns. *)
THEOREM TypeCorrect == Spec => []TypeOK
<1>1. TInv => TypeOK
  <2>1. SUFFICES ASSUME TInv PROVE TypeOK
    OBVIOUS
  <2>2. Types /\ Rows /\ Paths \in Nat
    BY <2>1, ArgsType DEF TInv, Types
  <2>3. pc \in {"loop", "table", "end"} =>
          /\ Len(vResultCount.test) = i /\ Len(status) = i
          /\ Len(vErrorCode) = IF Comparing THEN 0 ELSE i
          /\ Len(vResultCount.compare) = IF Comparing THEN i ELSE 0
          /\ ~ Comparing => terminatedCnt + runCnt = i
    BY <2>2 DEF Busy, Rows, Done, TestRows, CompareRows
  <2>4. count \in 0 .. Paths
    BY <2>2 DEF Types
  <2>5. QED  BY <2>2, <2>3, <2>4 DEF TypeOK, Types
<1>2. QED  BY <1>1, TInit, TStep, PTL DEF Spec

-----------------------------------------------------------------------------
LEMMA ExitStep == TInv /\ ExitIsLate /\ [Next]_vars => ExitIsLate'
<1> SUFFICES ASSUME ExitIsLate, [Next]_vars PROVE ExitIsLate'
  OBVIOUS
<1>1. CASE Main
  <2>1. CASE Launch \/ LaunchTest
    BY <2>1 DEF Launch, LaunchTest, Execute, AtLaunch, ExitIsLate
  <2>2. CASE Expire \/ SetExit \/ Ready \/ Table
    BY <2>2 DEF Expire, SetExit, Ready, Table, ExitIsLate
  <2>3. CASE Report \/ ReportComparer \/ ReportTest
    <3>1. /\ gexit' = gexit /\ late' = late
          /\ pc' \in {"loop", "test", "table"}
      BY <2>3 DEF Report, ReportComparer, ReportTest
    <3>2. QED  BY <3>1 DEF ExitIsLate
  <2>4. QED  BY <1>1, <2>1, <2>2, <2>3 DEF Main
<1>2. CASE Excute
  BY <1>2 DEF Excute, Prepare, PrepareJoin, Find, Enumerated, SeeExit, OwnLimit,
     KernelError, Tail_, ExitIsLate
<1>3. CASE UNCHANGED vars
  BY <1>3 DEF vars, ExitIsLate
<1>4. QED  BY <1>1, <1>2, <1>3 DEF Next, End

(* A g_exit set for one query, or by the join's own limit, does not end    *)
(* the enumeration of another: execute_within_time_limit takes it back.    *)
THEOREM ExitOfThisQuery == Spec => StopsOnlyLate
<1> DEFINE A == (worker = "enum" /\ worker' = "tail" /\ count # reach
                   /\ overlarge' = 0) => late'
<1>1. Init => ExitIsLate
  BY DEF Init, ExitIsLate
<1>2. TInv /\ ExitIsLate /\ [Next]_vars => [A]_vars
  <2>1. SUFFICES ASSUME TInv, ExitIsLate, Next,
                        worker = "enum", worker' = "tail", count # reach,
                        overlarge' = 0
                 PROVE  late'
    OBVIOUS
  <2>2. CASE Main
    BY <2>1, <2>2 DEF Main, Launch, LaunchTest, Execute, Expire, SetExit, Ready,
       Report, ReportComparer, ReportTest, Table
  <2>3. CASE SeeExit
    BY <2>1, <2>3 DEF SeeExit, ExitIsLate
  <2>4. CASE OwnLimit
    BY <2>4 DEF OwnLimit
  <2>5. CASE KernelError
    BY <2>1, <2>5 DEF KernelError, Overlarge
  <2>6. CASE Prepare \/ PrepareJoin \/ Find \/ Enumerated \/ Tail_ \/ End
    BY <2>1, <2>6 DEF Prepare, PrepareJoin, Find, Enumerated, Tail_, End, vars
  <2>7. QED  BY <2>1, <2>2, <2>3, <2>4, <2>5, <2>6 DEF Next, Excute
<1>3. QED
  BY TInit, TStep, ExitStep, <1>1, <1>2, PTL DEF Spec, StopsOnlyLate

-----------------------------------------------------------------------------
(* The methods that leave g_exit to main.                                  *)
Alone   == "bcjoin" \notin {args.method, args.comparer}
Excused == gexit \/ overlarge # 0

Short ==
    /\ reach = Paths
    /\ enumerator = "compare" => overlarge = 0
    /\ pc = "test" => ~ gexit
    /\ worker = "tail" => count = Paths \/ Excused
    /\ Busy /\ Answered => vResultCount[enumerator][i] = Paths \/ Excused
    /\ Busy /\ Comparing /\ enumerator = "test" =>
         vResultCount["compare"][i] = Paths

Entered ==
    /\ good \subseteq 1 .. Done
    /\ \A n \in 1 .. Done :
         status[n] = "Complete" \/ n \in good => vResultCount["test"][n] = Paths

AInv == Alone => Short /\ Entered

LEMMA AInit == Init => AInv
BY DEF Init, AInv, Alone, Short, Entered, Busy, Done

LEMMA AKeep ==
    ASSUME TInv, Alone, Entered, Done' = Done, UNCHANGED <<good, status>>,
           \A n \in 1 .. Done : vResultCount'["test"][n] = vResultCount["test"][n]
    PROVE  Entered'
BY DEF Entered

LEMMA AloneMethod ==
    ASSUME TInv, Alone
    PROVE  /\ method # "bcjoin"
           /\ enumerator = "compare" => method # "fpga"
<1>1. Types
  BY DEF TInv
<1>2. /\ args.method \in {"search", "fpga", "bcjoin"}
      /\ args.comparer \in {None, "search", "bcjoin"}
  BY <1>1, ArgsType DEF Types
<1>3. QED  BY <1>2 DEF Alone, method, None

LEMMA ALaunch ==
    ASSUME TInv, Alone, Short, Entered, Launch \/ LaunchTest
    PROVE  Short' /\ Entered'
<1>1. /\ Types /\ Cycle /\ Rows /\ i \in Nat
  BY ArgsType DEF TInv, Types
<1>2. /\ overlarge' = 0 /\ worker' = "pre" /\ reach' = Paths
      /\ pc' = "wait"
      /\ UNCHANGED <<args, vResultCount, status, good>>
  BY DEF Launch, LaunchTest, Execute
<1>3. \/ /\ pc = "loop" /\ i' = i + 1
         /\ enumerator' = IF Comparing THEN "compare" ELSE "test"
      \/ pc = "test" /\ i' = i /\ enumerator' = "test"
  BY DEF Launch, LaunchTest, Execute
<1>4. Done' = Done
  BY <1>1, <1>2, <1>3 DEF Done, Busy
<1>5. Busy' /\ Comparing' /\ enumerator' = "test" =>
        vResultCount'["compare"][i'] = Paths
  BY <1>1, <1>2, <1>3 DEF Short, Busy, Answered, Comparing, Cycle, Excused
<1>6. Short'
  BY <1>2, <1>5 DEF Short, Answered
<1>7. Entered'
  BY <1>2, <1>4, AKeep
<1>8. QED  BY <1>6, <1>7

LEMMA AMain ==
    ASSUME TInv, Alone, Short, Entered,
           Expire \/ SetExit \/ Ready \/ Table \/ UNCHANGED vars
    PROVE  Short' /\ Entered'
<1>1. /\ UNCHANGED <<i, worker, reach, count, overlarge, vResultCount, args,
                     enumerator, status, good>>
      /\ \/ pc \in {"wait", "expired"} /\ pc' \in {"wait", "expired", "report"}
         \/ pc \in {"loop", "table"} /\ pc' = "end"
         \/ pc' = pc /\ gexit' = gexit
      /\ gexit => gexit'
  BY DEF Expire, SetExit, Ready, Table, reports, vars
<1>2. Busy' = Busy /\ Done' = Done
  BY <1>1 DEF Busy, Done
<1>3. Short'
  BY <1>1, <1>2 DEF Short, Answered, Comparing, Excused
<1>4. Entered'
  BY <1>1, <1>2, AKeep
<1>5. QED  BY <1>3, <1>4

LEMMA AWorker ==
    ASSUME TInv, Alone, Short, Entered,
           \/ Prepare \/ PrepareJoin \/ Find \/ Enumerated \/ SeeExit
           \/ OwnLimit \/ KernelError
    PROVE  Short' /\ Entered'
<1>1. /\ UNCHANGED <<i, pc, vResultCount, args, enumerator, status, good>>
      /\ worker \in {"pre", "enum"} /\ worker' \in {"enum", "tail"}
  BY DEF Prepare, PrepareJoin, Find, Enumerated, SeeExit, OwnLimit,
         KernelError, reports
<1>2. Prepare \/ Find \/ Enumerated \/ SeeExit \/ KernelError
  BY AloneMethod DEF PrepareJoin, OwnLimit
<1>3. gexit' = gexit /\ reach' = reach
  BY <1>2 DEF Prepare, Find, Enumerated, SeeExit, KernelError
<1>4. enumerator' = "compare" => overlarge' = 0
  BY <1>1, <1>2, AloneMethod
     DEF Prepare, Find, Enumerated, SeeExit, KernelError, Short
<1>5. worker' = "tail" => count' = Paths \/ gexit' \/ overlarge' # 0
  BY <1>1, <1>2
     DEF Prepare, Find, Enumerated, SeeExit, KernelError, Short, Overlarge
<1>6. Busy' = Busy /\ Done' = Done /\ ~ Answered'
  BY <1>1 DEF Busy, Done, Answered
<1>7. Short'
  BY <1>1, <1>3, <1>4, <1>5, <1>6 DEF Short, Comparing, Excused
<1>8. Entered'
  BY <1>1, <1>6, AKeep
<1>9. QED  BY <1>7, <1>8

LEMMA ATail ==
    ASSUME TInv, Alone, Short, Entered, Tail_ PROVE Short' /\ Entered'
<1>1. /\ Types /\ Cycle /\ Rows /\ i \in Nat /\ i >= 1 /\ Busy
  BY ArgsType DEF TInv, Types, Cycle, Busy, Answered, Tail_
<1> DEFINE who == enumerator
<1>2. /\ worker = "tail" /\ worker' = "ready" /\ ~ Answered /\ Answered'
      /\ vResultCount' = [vResultCount EXCEPT
                            ![who] = Append(vResultCount[who], count)]
      /\ UNCHANGED <<i, pc, gexit, reach, overlarge, late, args, enumerator,
                     vErrorCode, status, terminatedCnt, runCnt, good>>
  BY DEF Tail_, reports, Answered
<1>3. /\ who \in {"test", "compare"} /\ count \in 0 .. Paths
      /\ vResultCount \in [{"test", "compare"} -> Seq(0 .. Paths)]
      /\ vResultCount[who] \in Seq(0 .. Paths)
  BY <1>1, ArgsType DEF Types
<1>4. Busy' /\ Done' = Done /\ Done = i - 1
  BY <1>1, <1>2 DEF Busy, Done
<1>5. Len(vResultCount[who]) = i - 1
  BY <1>1, <1>2, <1>3 DEF Rows, TestRows, CompareRows, Done, Cycle
<1>6. /\ vResultCount'[who] = Append(vResultCount[who], count)
      /\ \A w \in {"test", "compare"} :
           w # who => vResultCount'[w] = vResultCount[w]
  BY <1>2, <1>3
<1>7. /\ \A n \in 1 .. i - 1 : vResultCount'[who][n] = vResultCount[who][n]
      /\ vResultCount'[who][i] = count
  <2>1. /\ \A n \in 1 .. Len(vResultCount[who]) :
             Append(vResultCount[who], count)[n] = vResultCount[who][n]
        /\ Append(vResultCount[who], count)[Len(vResultCount[who]) + 1] = count
    BY <1>3, AppendRow
  <2>2. i - 1 + 1 = i
    BY <1>1
  <2>3. QED  BY <1>5, <1>6, <2>1, <2>2
<1>8. Short'
  BY <1>2, <1>3, <1>4, <1>6, <1>7 DEF Short, Comparing, Excused, Busy
<1>9. \A n \in 1 .. Done : vResultCount'["test"][n] = vResultCount["test"][n]
  BY <1>3, <1>4, <1>6, <1>7
<1>10. Entered'
  BY <1>2, <1>4, <1>9, AKeep
<1>11. QED  BY <1>8, <1>10

LEMMA ReportContext ==
    ASSUME TInv, pc = "report"
    PROVE  /\ Types /\ Cycle /\ Rows /\ i \in Nat /\ i >= 1
           /\ Busy /\ Answered /\ Done = i - 1
           /\ enumerator = "test" \/ Comparing
           /\ ~ Comparing => enumerator = "test"
<1>1. Types /\ Cycle /\ Rows /\ i \in Nat
  BY ArgsType DEF TInv, Types
<1>2. Busy /\ Done = i - 1
  BY DEF Busy, Done
<1>3. QED  BY <1>1, <1>2 DEF Cycle

LEMMA AReport ==
    ASSUME TInv, Alone, Short, Entered, Report \/ ReportTest
    PROVE  Short' /\ Entered'
<1>1. /\ Types /\ Cycle /\ Rows /\ i \in Nat /\ i >= 1
      /\ pc = "report" /\ Busy /\ Answered /\ enumerator = "test"
      /\ Done = i - 1
  <2>1. pc = "report" /\ (~ Comparing \/ enumerator = "test")
    BY DEF Report, ReportTest
  <2>2. QED  BY <2>1, ReportContext
<1>2. /\ pc' \in {"loop", "table"}
      /\ UNCHANGED <<i, enumerator, gexit, worker, reach, count, overlarge,
                     vResultCount, args>>
  BY DEF Report, ReportTest
<1>3. Done' = i /\ ~ Busy'
  BY <1>2 DEF Done, Busy
<1>4. PICK x \in Statuses :
        /\ status' = Append(status, x)
        /\ x = "Complete" => ~ Excused \/ (Comparing /\ overlarge = 0
                                          /\ Newest("test") = Newest("compare"))
  <2>1. CASE Report
    <3>1. status' = Append(status, Name(Ok, overlarge))
      BY <2>1 DEF Report
    <3>2. Name(Ok, overlarge) = "Complete" => Ok /\ overlarge = 0
      BY <1>1 DEF Name, Types, Overlarge
    <3>3. Name(Ok, overlarge) \in Statuses
      BY <1>1, NameType DEF Types, Ok
    <3>4. QED  BY <3>1, <3>2, <3>3 DEF Ok, Excused
  <2>2. CASE ReportTest
    BY <2>2 DEF ReportTest, Statuses, None, Ok, Excused
  <2>3. QED  BY <2>1, <2>2
<1>5. \/ good' = good
      \/ /\ good' = good \cup {i}
         /\ Comparing /\ Newest("test") = Newest("compare")
  BY DEF Report, ReportTest
<1>6. /\ Len(vResultCount["test"]) = i
      /\ Comparing => Len(vResultCount["compare"]) = i
  BY <1>1 DEF Rows, TestRows, CompareRows
<1>7. /\ ~ Excused => vResultCount["test"][i] = Paths
      /\ Comparing /\ Newest("test") = Newest("compare") =>
           vResultCount["test"][i] = Paths
  BY <1>1, <1>6 DEF Short, Newest
<1>8. /\ \A n \in 1 .. i - 1 : status'[n] = status[n]
      /\ status'[i] = x
  <2>1. status \in Seq(Statuses) /\ Len(status) = i - 1 /\ i - 1 + 1 = i
    BY <1>1 DEF Types, Rows
  <2>2. QED  BY <1>4, <2>1, AppendRow
<1>9. Entered'
  <2>0. good \subseteq 1 .. i - 1 /\ i \in 1 .. i
    BY <1>1 DEF Entered
  <2>1. good \subseteq 1 .. i - 1 /\ good' \subseteq 1 .. i
    <3>1. 1 .. i - 1 \subseteq 1 .. i
      BY <1>1
    <3>2. QED  BY <1>5, <2>0, <3>1
  <2>2. ASSUME NEW n \in 1 .. i, status'[n] = "Complete" \/ n \in good'
        PROVE  vResultCount["test"][n] = Paths
    <3>1. CASE n = i
      <4>1. i \notin good
        BY <1>1, <2>1
      <4>2. x = "Complete" \/ (Comparing /\ Newest("test") = Newest("compare"))
        BY <1>5, <1>8, <2>2, <3>1, <4>1
      <4>3. QED  BY <1>4, <1>7, <3>1, <4>2
    <3>2. CASE n # i
      <4>1. n \in 1 .. i - 1
        BY <1>1, <3>2
      <4>2. status[n] = "Complete" \/ n \in good
        BY <1>5, <1>8, <2>2, <3>2, <4>1
      <4>3. QED  BY <1>1, <4>1, <4>2 DEF Entered
    <3>3. QED  BY <3>1, <3>2
  <2>3. QED  BY <1>2, <1>3, <2>1, <2>2 DEF Entered
<1>10. Short'
  BY <1>1, <1>2, <1>3 DEF Short, Answered
<1>11. QED  BY <1>9, <1>10

LEMMA AReportComparer ==
    ASSUME TInv, Alone, Short, Entered, ReportComparer
    PROVE  Short' /\ Entered'
<1>1. /\ Types /\ Cycle /\ Rows /\ i \in Nat /\ i >= 1
      /\ pc = "report" /\ Busy /\ Answered /\ enumerator = "compare"
      /\ Comparing /\ Done = i - 1
  <2>1. pc = "report" /\ enumerator = "compare"
    BY DEF ReportComparer
  <2>2. QED  BY <2>1, ReportContext
<1>2. UNCHANGED <<args, i, enumerator, gexit, worker, reach, count, overlarge, good>>
  BY DEF ReportComparer
<1>3. CASE Ok
  <2>1. /\ pc' = "test" /\ UNCHANGED <<vResultCount, status, terminatedCnt>>
        /\ ~ gexit
    BY <1>3 DEF ReportComparer, Ok
  <2>2. Busy' /\ Done' = Done
    BY <1>1, <1>2, <2>1 DEF Busy, Done
  <2>3. Short'
    BY <1>1, <1>2, <2>1, <2>2 DEF Short, Answered, Excused, Comparing
  <2>4. QED  BY <1>2, <2>1, <2>2, <2>3, AKeep
<1>4. CASE ~ Ok
  <2>1. /\ pc' = "loop" /\ status' = Append(status, "Time Out")
        /\ vResultCount' = [vResultCount EXCEPT
                              !["test"] = Append(vResultCount["test"], 0)]
    BY <1>4 DEF ReportComparer
  <2>2. ~ Busy' /\ Done' = i
    BY <1>2, <2>1 DEF Busy, Done
  <2>3. Short'
    BY <1>1, <1>2, <2>1, <2>2 DEF Short, Answered
  <2>4. /\ Len(status) = i - 1 /\ Len(vResultCount["test"]) = i - 1
        /\ status \in Seq(Statuses)
        /\ vResultCount["test"] \in Seq(0 .. Paths)
    <3>1. Len(status) = i - 1 /\ Len(vResultCount["test"]) = i - 1
      BY <1>1 DEF Rows, TestRows
    <3>2. /\ status \in Seq(Statuses)
          /\ vResultCount["test"] \in Seq(0 .. Paths)
      BY <1>1 DEF Types
    <3>3. QED  BY <3>1, <3>2
  <2>5. /\ \A n \in 1 .. i - 1 : status'[n] = status[n]
        /\ status'[i] = "Time Out"
    <3>1. PICK x \in Statuses : x = "Time Out"
      BY DEF Statuses
    <3>2. /\ \A n \in 1 .. i - 1 : Append(status, x)[n] = status[n]
          /\ Append(status, x)[i] = x
      <4>1. /\ \A n \in 1 .. Len(status) : Append(status, x)[n] = status[n]
            /\ Append(status, x)[Len(status) + 1] = x
        BY <2>4, AppendRow
      <4>2. Len(status) = i - 1 /\ i - 1 + 1 = i
        BY <1>1, <2>4
      <4>3. QED  BY <4>1, <4>2
    <3>3. QED  BY <2>1, <3>1, <3>2
  <2>6. vResultCount'["test"] = Append(vResultCount["test"], 0)
    BY <1>1, <2>1 DEF Types
  <2>7. \A n \in 1 .. i - 1 :
          vResultCount'["test"][n] = vResultCount["test"][n]
    <3>1. \A n \in 1 .. Len(vResultCount["test"]) :
            Append(vResultCount["test"], 0)[n] = vResultCount["test"][n]
      <4>1. 0 \in 0 .. Paths
        BY DriverAssumption
      <4>2. QED  BY <2>4, <4>1, AppendRow
    <3>2. Len(vResultCount["test"]) = i - 1
      BY <2>4
    <3>3. QED  BY <2>6, <3>1, <3>2
  <2>8. Entered'
    <3>1. good \subseteq 1 .. i - 1
      BY <1>1 DEF Entered
    <3>2. ASSUME NEW n \in 1 .. i, status'[n] = "Complete" \/ n \in good
          PROVE  vResultCount'["test"][n] = Paths
      <4>1. n # i
        <5>1. i \notin good
          BY <1>1, <3>1
        <5>2. status'[i] # "Complete"
          BY <2>5
        <5>3. QED  BY <3>2, <5>1, <5>2
      <4>a. n \in 1 .. i - 1
        BY <1>1, <4>1
      <4>2. QED  BY <1>1, <2>5, <2>7, <3>2, <4>a DEF Entered
    <3>3. QED  BY <1>1, <1>2, <2>2, <3>1, <3>2 DEF Entered
  <2>9. QED  BY <2>3, <2>8
<1>5. QED  BY <1>3, <1>4

LEMMA AStep == TInv /\ AInv /\ [Next]_vars => AInv'
<1> SUFFICES ASSUME TInv, AInv, [Next]_vars, Alone' PROVE Short' /\ Entered'
  BY DEF AInv
<1>1. args' = args
  BY DEF Next, Main, Excute, End, Launch, LaunchTest, Execute, Expire, SetExit,
     Ready, Report, ReportComparer, ReportTest, Table, Prepare, PrepareJoin,
     Find, Enumerated, SeeExit, OwnLimit, KernelError, Tail_, reports, vars
<1>2. Alone /\ Short /\ Entered
  BY <1>1 DEF Alone, AInv
<1>3. QED
  BY <1>2, ALaunch, AMain, AWorker, ATail, AReport, AReportComparer
     DEF Next, Main, Excute, End

(* With the methods that leave g_exit to main, a query logged as complete, *)
(* or entered as a speedup, has all its paths in the table.                *)
THEOREM AloneIsExact == Spec => []MainAloneClears
<1>1. TInv /\ AInv => MainAloneClears
  <2>1. SUFFICES ASSUME TInv, Alone, Short, Entered
                 PROVE  /\ CompleteIsExact
                        /\ \A n \in good : vResultCount.test[n] = Paths
    BY DEF AInv, MainAloneClears, Alone
  <2>2. Len(status) = Done
    BY <2>1 DEF TInv, Rows
  <2>3. QED  BY <2>1, <2>2 DEF Entered, CompleteIsExact
<1>2. QED  BY <1>1, TInit, TStep, AInit, AStep, PTL DEF Spec
=============================================================================
