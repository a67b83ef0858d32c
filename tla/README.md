# FAPE: specifications, model checks and proofs

FAPE counts the simple paths of at most `k` hops from a vertex `s` to a vertex
`t` of a directed graph. A host program prunes the graph to the part that can
matter, splits the search into partial paths, keeps a fifth of them for the CPU
and hands the rest to six identical FPGA kernels. Beside this chain the program
has some twenty other methods, baselines and earlier designs, that answer the
same queries on the same object. This directory holds TLA+ specifications of the
chain and of the methods, the TLC runs that check them on small instances, and
theorems about the eight specifications of the chain that TLAPS proves for every
instance.

All module names below are files of this directory; source paths are relative
to `src/`. `PROJECT.json` names, for every definition, the lines it models.

## 1. Inventory

### The chain of a FAPE query

```
main (host.cpp)                         query loop, time limit, report
  execute_within_time_limit               worker thread  <- g_exit ->  main thread
    CHcPE::Excute (CHcPE.cpp)
      Pre_DouHalfHopAndDouHalfHopBFS      data graph -> pruned, renumbered CSR + sdt
      generate_subtask_on_CSR             root -> partial paths
      MYDFSPathEnumCSR (a fifth)          depth-first search on the CPU
      CHost::MYDFSOnFPGA_Multi            six kernels behind an out-of-order queue
        MYDFS (MYDFS_RE_CU06.cpp)           stacks in bram and dram, batches
          run: feed | check_target | check_visited
```

| part | state | operations | hard part | what makes it correct |
|---|---|---|---|---|
| `MYDFS` kernel: `next_task`, main loop | two path stacks, batch, candidates, counters | merge, spill, refill, read a batch, expand, stop | arrays at their limits, three error exits, paths moved back and forth | bounds; no path lost or expanded twice; exact unless an error is reported; every error has its cause; it returns |
| kernel: `run` | four streams, two flag arrays | three concurrent processes | blocking reads and writes, flags matched by position | no deadlock, streams drained, flags of the right candidate |
| preprocessing | distances, induced set, edge list, `nodemap`, CSR | four breadth-first searches, pruning, renumbering | bounds at the middle and at both ends, unknown distances, id 0 | same answer; exact distances; the contract of the kernel; sorted rows |
| task generation | queue, task buffer | split, archive, drain, deal | thresholds looked at late, rounding | the tasks partition the job |
| CPU search | mixed stack, marks | visit, push, count, pop | stack of path and siblings, asynchronous timeout | exact unless it saw the timeout |
| `CHost` | host vectors, device buffers, events, result array | enqueue, wait, sum | out-of-order queue, per-call and accumulated state | inputs before kernels, outputs before sums, nothing left in flight |
| `host.cpp` | `g_exit`, future, result columns | launch, wait, time out, report | timeout against completion | "Complete" is complete, columns aligned, every query reported |
| `CHcPE` object | distances, marks, barriers, lists `B`, index, subgraph, counters, used by every method and kept from query to query | 24 methods: branches of `Excute`, and earlier choices named in its comments | what a query that was cut leaves behind meets the next one | every query counts its paths, whatever came before |
| the other preprocessings | two distance arrays, induced subgraph | seven variants of two to four searches | how far to go from each end | same answer |
| C-DFS, T-DFS, T-DFS2, PEFP, recursive MYDFS | marks, one path | recursion or explicit stack | which neighbours may be passed by | same answer; T-DFS never calls in vain |
| BC-DFS, BCDFS2 | barriers, lists `B` | raise, lower backwards, release | a barrier outlives its cause | no path lost behind a barrier |
| BC-JOIN | pruned edges, meeting vertices, stored half paths | two searches, two enumerations, join | middles counted once; the word before a vector | every path joined once |
| index of IDX-DFS, IDX-JOIN | `distance_`, buckets, rows with offsets, estimates, relations | build, search, plan, join, split for the device | a build that was cut; memory sized by an estimate | same answer by every plan; relations in bounds |
| MYJOIN | half paths by layer | extend, join | rows left at the first vertex too far | same answer (it is not) |
| `CHost` buffers | host vectors, `deviceResults_` | six entry points that size and refill them | sizes local to a call, vectors not | what is written fits |
| HP-index | hot vertices, their paths | build, search | - | its result is not reported |
| `CDirectedGraph` | adjacency, CSR arrays | load, build, shrink, query | - | CSR is the edge set |
| `CKernelTest.h` | three stacks | software emulation of an earlier kernel | moves between three tiers | not compiled |
| io, log, time, xcl2, sparsepp | - | utilities, a vendored hash map | - | not modelled |

They interact by calls and shared arrays (`arrSDu_t_`, `arrVisited_`,
`oSubGraph_`), by OpenCL commands between host and kernels, and between the
thread of `main` and the worker by the plain `bool g_exit` and a future.

`PROJECT.json` lists the components with their status, and as "hazards" what in
this code is hard to reach by a test, each at its line and with the properties
that cover it, or the reason why none does.

## 2. Modules

| module | models | builds on |
|---|---|---|
| `HopPaths` | paths, jobs (the arguments of a kernel call), results, the kernel's three tests, the contract `JobOK` between host and kernel | - |
| `HopJob` | the jobs a module is checked on; assumption `JobsAssumption` | `HopPaths` |
| `PathPool` | **abstract specification** of an enumeration engine: a set of pending paths, each expanded once or counted once; errors allowed, wrong counts not | `HopJob` |
| `MYDFS` | the kernel, one action per loop iteration | `HopJob`, implements `PathPool` |
| `RunDataflow` | the dataflow region inside one round of the kernel | `HopJob` |
| `Prep` | the preprocessing, one action per search layer or pass | `HopPaths` |
| `Subtask` | splitting and dealing, one action per loop iteration | `HopJob`, implements `PathPool` |
| `CpuDfs` | the CPU's share with the timeout flag | `HopJob`, implements `PathPool` |
| `HostMulti` | `MYDFSOnFPGA_Multi`, `IDXDFSOnFPGA_Multi2` and the OpenCL queue | - |
| `Driver` | query loop, time limit, worker thread | - |
| `CsrGraph` | the data graph as loaded, the subgraph, the shrinking of ids | - |
| `HcPE` | the object, the looks at `g_exit`, breadth-first waves | `CsrGraph` |
| `Preprocess` | the seven prunings and the renumbering, as operators on the object | `HcPE` |
| `Searches` | C-DFS, T-DFS, T-DFS2, the stack of PEFP and MYDFS, the recursive twin | `HcPE` |
| `Barriers` | BC-DFS in both versions | `HcPE` |
| `BcJoin` | BC-JOIN | `HcPE` |
| `BiGraph` | index, IDX-DFS, estimator, join plan, both joins | `HcPE` |
| `BiSubtask` | the renumbered index, its splitting for the device | `BiGraph` |
| `CsrSubtask` | splitting of FAPE's pruned graph, the CPU's fifth, what the kernels count | `BiSubtask`, `Searches` |
| `MyJoin` | MYJOIN | `HcPE` |
| `HostBuffers` | host vectors and result array over several calls | - |
| `Excute` | **composition**: one object, several queries, every method, a time limit anywhere | all from `Preprocess` on |
| `HopPathsProofs` | lemmas about paths, jobs and the account of results | `HopPaths`, TLAPS |
| `PrepProofs` | the searches, the answer, the contract of the job; `PathPool`; a query answered by the two together | `Prep`, `PathPool`, `HopPathsProofs` |
| `RunDataflowProofs`, `HostMultiProofs`, `DriverProofs` | theorems | their module, TLAPS |
| `MYDFSProofs` | bounds of the arrays; `MYDFS` implements `PathPool`, and what follows | `MYDFS`, `HopPathsProofs` |
| `SubtaskProofs` | `Subtask` implements `PathPool`, and what is dealt | `Subtask`, `HopPathsProofs` |
| `CpuDfsProofs` | `CpuDfs` implements `PathPool`, and what follows | `CpuDfs`, `HopPathsProofs` |
| `HopGraphs`, `FourVertices`, `KernelJobs`, `SplitJobs`, `SortedJobs`, `SmallQueries` | families of graphs, jobs and queries for TLC | - |
| `MC...` | a family joined to a module | - |

The project looks at FAPE's chain at two grains. `Prep`, `Subtask`, `CpuDfs`,
`MYDFS`, `RunDataflow`, `HostMulti` and `Driver` have one action per step of
code, for what can happen between two steps. `Excute` has one action per query,
for what can happen between two queries and between the parts of one: its
`FPGA_MYDFS_Multi` is the whole of FAPE from the data graph to the sum of the
compute units.

The contract `JobOK` ties the modules together: `Prep` shows that the pruned
graph fulfils it (`JobContract`), `Subtask` that the shares it deals do
(`DealtOnce`, and the theorem `SharesAddUp`); `PathPool`, `MYDFS` and `CpuDfs`
assume it. `PathPool` ties the engines together: an engine that implements it
and completes has counted exactly the results of its tasks. Section 4 ends with
the chain that these make.

### How state and actions correspond to the code

**`MYDFS`**. `bram` and `dram` are `buffer_path` and `ddr_paths` up to their
sizes; a path is the sequence of its vertices, the layer stored beside it its
length. `batch`, `taken` and `cand` are `batched_path`, `check_path_size`
and `batched_nbr`. `pc = "merge"` is `next_task`: `MergeDrop`,
`MergeCount`, `MergePush`, `MergeSpill`, `MergeOverflow` are the branches for
one candidate (lines 185-246), `NextBatch` and `Refill` read the next batch
(252-311), `Finish` is the empty case. `pc = "feed"` and `"edges"` are the loops
of `feed_stream_data`, whose candidates `run` has checked when it returns;
`pc = "check"` is the end of the main loop with its two tests, the budget before
the stuck test as in the code. Distances and layers are added modulo 16
(`uInt4`).

**`RunDataflow`** takes one round apart: an action is one read or write of a
stream, and a process that cannot read or write waits. It establishes what
`MYDFS` takes for granted, that the flags stored at a position belong to the
candidate at that position.

**`Prep`** treats the queue of a layer as a set, since the order within a layer
decides nothing. `Number` chooses any order the unstable `std::sort` may give to
ties, and `NewId` enters missing keys as `operator[]` does.

**`Subtask`** keeps the FIFO order of the queue, because the thresholds depend on
it. `Share(c)` is the round robin of `MYDFSOnFPGA_Multi`.

**`CpuDfs`** has the code's single stack `staDFS`; the path is reconstructed from
it in the properties only. `TimeOut` may happen at any step; `Exit` may be taken
when `g_exit` is set but need not be, since nothing orders the read.

**`HostMulti`** has the host as a sequence of loops over the compute units and
the device as a set of commands, any of which may be executed next. A kernel
that starts before its inputs are there may report anything. The content of the
buffers is the number of the call it comes from. `waits` tells the two functions
apart that work in this way. `MYDFSOnFPGA_Multi` (FALSE) does not wait between
writes and kernels, moves the paths of a compute unit only if it has tasks, and
reports the sum of the error codes in `deviceResults_[1]`. `IDXDFSOnFPGA_Multi2`
(TRUE) waits, always moves the paths, keeps the last unit's code and reports a
failure by its return value, `served`. `Failure` is what `Excute` makes of either.

**`Driver`** has the main thread (`pc`) and the worker (`worker`). The search of
a query is a number of paths to be found. `method`, the same for all queries,
distinguishes the three ways in which methods treat `g_exit`. It models the build with `USE_TIME_LIMIT`.
With a method to compare with, a query is answered twice, by two objects
(`enumerator`), and `good` holds the queries entered as speedups; whether one is
large enough is left open. The object to compare with has no device.

**`Excute`** and the modules below it translate every engine to an operator from
the object to the object it leaves; a function of the code that changes members
is an operator of the same name. The order of looks at `g_exit`, of writes to
marks, distances, barriers and counters is that of the code, so that a search cut
at any look leaves exactly what the code leaves. `looks` counts the looks that
still find the flag false. An engine that has found it true is `cut`; `ret` is
its return from the innermost loop, which some engines take with the marks still
set (`Back` clears it where the caller goes on). `met` collects
what a query came across that a property speaks about: an estimate too small for
a relation or a host vector too small for a graph (`overflow`), host vectors that
a large graph has had sized again (`resized`, which stays with the object), the
read of a null index (`null`), a vain call of T-DFS (`futile`), a vertex in front
of a vector (`heap word`). A null index ends the object where it is read: by the CPU
searches on the index, and by the splitting for the compute units from three hops on.
`FPGA_IDX_DFS`, and the splitting with less hops, answer 0 and go on. `FarAway` clears
`distance_` as the code does, in a graph with more than `ClearRatio` times the
vertices found (128 in the code) only at these. Arrays cleared by `memset` hold the value the bytes make (`Memset`), which is
not the 15 of `MAX_K` nor `k + 1`, but is as far. A row sorted by fewer keys than
it has is in the order of the ids, as `std::sort` leaves small lists. Numbering
by `nodemap` counts from 1 and may use one entry past the last vertex (`Slots`).
The word that BC-JOIN reads in front of its vector (CDirectedGraph.h:664) is a
choice between 0, the upper half of a chunk size of glibc, and no vertex.

What a kernel answers is external where the kernel is not in the repository:
it may fail, and otherwise counts the completions of its tasks; those of
`FPGA_PEFP` and `FPGA_MYDFS_R`, which are handed the distances moved to the new ids,
count what the CPU's search of the same name counts with these. For FAPE it is
`Below`, which applies the tests of `MYDFS`; `kernel` shows that it counts so.

## 3. Runs

Each run asks one question. Bounds are in the `.cfg`; families of graphs are
described in their module.

| run | shows | bounds and why they are enough |
|---|---|---|
| `pool` | conservation and exactness of the pool in every order of work | all 256 graphs on four vertices with two bounds and with one or several tasks: cycles, dead ends, detours, the direct edge |
| `kernel` | type, array bounds, exactness, stored paths are tasks, work done once, justified errors, refinement of the pool, termination | the jobs of `KernelJobs` with bram and dram stacks of 2 and 3 paths and batches of 5 edges, chosen so that spill, repeated refill, overflow of the dram stack, a stuck batch and the budget all occur |
| `run_dataflow` | no blocking, paired flags and drained streams (`FlagsMatch`), return | batches of three paths; stream depth 7, which two full rows fill exactly |
| `prep` | distances, same answer, contract with sorted rows (`JobContract`) | 1024 queries on four vertices, k = 1 .. 4, with all renumberings; 150 scattered ones on six vertices, k = 4, 5, 6, where both second searches have several layers to go |
| `subtask` | no path lost between queue, tasks, CPU and compute units, and not more tasks than thresholds and one split (`DealtOnce`); refinement of the pool | the jobs of `SplitJobs`; thresholds of 2, 3 and 8 paths, three compute units, so that each of the stops fires, counts are uneven and zero shares occur |
| `cpu_dfs` | exact unless stopped, refinement of the pool, termination | 144 jobs with sorted rows, single and several tasks, a timeout at any step |
| `host` | nothing in flight between calls (`TypeOK`), sums of final outputs (`SumsFinalReports`), inputs found by the function that waits (`WaitSuffices`), and unless a kernel started without them the count of this call and a failure reported whichever compute unit failed (`ResultOfThisCall`) | two compute units, two calls of either function; the code uses six and four, which only multiplies independent commands |
| `driver` | the flag is cleared by main alone, a timeout stops its own query only, speedups are between full answers, aligned columns (`TypeOK`), every query reported | three queries of two paths, so that there is a query before and one after the one that times out, and two when each is answered twice; the three kinds of methods, alone and compared with the two without a device; main stops at the first speedup, with queries left |
| `excute` | every method that promises it counts all paths exactly (`SearchesExact`, `BarriersExact`, `IndexExact`), after a query that was cut too; none counts too many, whatever happened; T-DFS calls nothing in vain; relations and buffers stay in bounds | below |

`excute` checks 24 methods on three graphs of six vertices, with cycles, gaps and
dead ends, k = 1 .. 5 (odd and even halves, the degenerate 1, and the 2 with
which nothing is split), and two queries of three pairs, three where an object
outlives an index that was not built or vectors that were sized again. All but the
last may be cut after two, nine or 34 looks at
`g_exit`, that is in the preprocessing, at the start of a search or deep in one,
or not at all; the last runs to its end on what it finds. A join is
planned from three expected results and an index is split to four tasks, so that
plans of both kinds, joins and stops of the splitting occur on six vertices; base
sizes of 5 make graphs of six vertices large, and a `ClearRatio` of 1 lets
`distance_` be cleared in part. One compute unit of two, or none,
fails. FAPE's splitting counts its thresholds in fifties and hundreds of
`TaskMax`, out of reach of these graphs: `subtask` fires them. 11,353 distinct
states, about a minute, nearly all of it spent in the engines. Deadlock is not
checked there: the object stops after its last query.

`SearchesExact`, `BarriersExact` and `IndexExact` name the methods that count all
paths. Left out are MYJOIN, which has the run `my_join`, `MY_DFS2`, which does not search,
`MY_DFS3`, and the versions whose own comments say they are wrong (next section);
`NeverTooMany` covers all of them.

Fairness. `kernel` and `run_dataflow` assume weak fairness of the hardware
process, respectively of each of the three: a dataflow process that can proceed
does. `cpu_dfs` assumes it of the search, not of the timeout. `Driver` assumes it
of both threads: the operating system schedules them, and `wait_for` returns. A
worker inside a kernel cannot be interrupted, and no fairness says a set
`g_exit` is ever seen: `AllReported` holds because searches end.

### Where the code and its own claims differ

Three runs check one claim each and find it violated.

| run | claim | what happens |
|---|---|---|
| `host_race` | a kernel runs on the inputs written for it (the wait of CHost.cpp:565-566, commented out) | the kernels go to an out-of-order queue (CHost.h:107) without events to wait for; nothing orders them after the writes |
| `driver_lost` | "Complete" (host.cpp:340) | BC-JOIN clears `g_exit` (CHcPE.cpp:3503) after a preprocessing that may have been cut short by it |
| `my_join` | "Complete" (host.cpp:340), subgraph sorted by `sdu` (CHcPE.cpp:589) | MYJOIN leaves a row at the first vertex too far (4604-4605), but its preprocessing does not sort rows (5053-5054): paths are lost |

`host_race` is about what the OpenCL standard allows. That a given runtime
executes the commands in order is not excluded by it. The run `driver` has the
property of `driver_lost` for the other methods, as `MainAloneClears`, and `host`
that of `host_race` for the function with the wait, as `WaitSuffices`.

Remarks without a run:

- The comment at CHcPE.cpp:1772 says that every vertex of `edge_list` is in
  `nodemap`. A source at distance `k` or more from the target is not, since the
  loop at 1757 leaves out bucket `k`; `operator[]` gives it the id 0 at 1773.
  `NewId` does the same, and `prep` shows that it is harmless: no edge leads back
  to the source, so 0 is never the head of an edge.
- `[1]-err` is an error code (CHost.h:81, decoded in host.cpp:342-350), but the
  codes of the compute units are added up (CHost.cpp:645): 1 + 1 reads as 2. That
  the sum is 0 just if all succeeded is in `ResultOfThisCall`.
- `IDXDFSOnFPGA_Multi2` adds up the counts but keeps the code of the last compute
  unit (CHost.cpp:954), so that the code logged at CHcPE.cpp:5526 may be 0 for a
  query that failed. Its return value, which `Excute` takes for the outcome, is
  right (`ResultOfThisCall`).
- The vectors of `IDXDFSOnFPGA_Multi2` have room for every compute unit after its
  first call only. When a later graph exceeds the base sizes they are resized to
  the share of one (CHost.cpp:827-837), and the parts of the others are written past
  their end, by that call and by the small ones after it. No run states this as a
  property. `StaysInBounds` says that nothing else writes past them, and the exactness
  of the index methods is claimed for objects to which it has not happened.
- A construction of the index that is cut leaves its distances in `distance_`.
  The two methods that survive it start the next one from them; `IndexExact` says that
  its answer does not suffer.
- `deviceResults_[4..6]` are added to (CHost.cpp:648) and never reset, while
  CHcPE.cpp:5356-5358 and host.cpp:504 read them as the counters of one query.
- With a method to compare with, no code is appended to `vErrorCode` and `main` may
  stop before the last query (host.cpp:461-462), but the table has a row for every
  query and reads its code (526-528). A query on which the two methods differ is
  not logged at all (405).
- HP_Index reports 0 for every query: the paths returned at CHcPE.cpp:4933 are
  thrown away.
- The build without `USE_FPGA` does not compile: CHcPE.cpp:5130 calls
  `oTest_->task_parallel`, which `CKernelTest` does not have.
- Methods the author marks as wrong or unfinished, which do lose paths in the
  model: the earlier BC-DFS (noted at CHcPE.cpp:4939), BC-DFS with barriers
  started at the distances (4954), `Pre_DouHalfHopAndSigHalfHopBFS`, whose second search stops after
  one layer (`MY_DFS_Earliest`).
- `MY_DFS3` renumbers the distances in place in the order of the old ids
  (CHcPE.cpp:5027-5034), so an entry may be overwritten before it is read.
- The join of BC-JOIN starts its set one element in front of a vector
  (CDirectedGraph.h:664); where that word is 0, paths through vertex 0 are lost.
- Arrays by vertex are allocated `sizeof(T) * iMaxVerId + 1` bytes
  (CHcPE.cpp:151), short of their last entry.

## 4. Proofs

Every theorem rests on the named assumptions of the module it is about, and on
nothing else. TLC evaluates them in every run of these modules.

| module | assumption |
|---|---|
| `PathPool`, `MYDFS`, `RunDataflow`, `Subtask`, `CpuDfs` | `JobsAssumption`: every job fulfils the contract `JobOK` |
| `CpuDfs` | `RowsAssumption`: rows are sorted by the distance to the target, as `Prep` leaves them |
| `MYDFS` | `SizesAssumption`: positive sizes, `DdrBatch <= MaxBuf`, task lists that fit `MaxBuf` |
| `Subtask` | `SplitAssumption`: the first threshold, a multiple of 50 in the code, is positive, there is a compute unit, and the one task a job is split from is its source |
| `RunDataflow` | `MaxOutAssumption`: `MAX_OUT_SIZE` is positive |
| `Prep` | `QueriesAssumption`: vertices are numbers, finitely many; source and target are two of them, no edge leads out of the graph, and `k` is 1 to 8 |
| `HostMulti` | `HostAssumption`: at least one compute unit and one call |
| `Driver` | `DriverAssumption`: the methods are those of the three kinds, there is a query |

Each proof has the same form: an invariant that implies the property and that
`Init` establishes, one lemma per action that preserves it, and a last step of
temporal logic. The invariants were checked by TLC on the runs before they were
proved, except where TLC cannot evaluate them, as the unbounded `\E E` in the
`AnswerInv` of `PrepProofs`.

### `PrepProofs`
- `DistancesAreExact`: whatever the graph, after the four searches both distances
  of every vertex on a walk of at most `k` hops between the ends are exact.
- `AnswerIsKept`: the simple paths of the job are those of the query under their
  new ids, and a query turned away has none.
- `JobIsValid`: the job meets `JobOK` and its rows are sorted by distance.
- `TypeCorrect`: above all, a new id is an index of `sdut` and `sdus`.

The reference distances and paths are recursive functions on 0 .. k. That they
exist and what they hold is shown by induction in the form of sets
(`SetInduction`, from the library's theorem on minimal elements), after which a
distance is known by two facts only (`Metric`): it grows by at most one along an
edge, and every vertex but the first has a predecessor that is one nearer.

`SearchInv` says for each of the four searches exactly what its array and its
queue hold after each layer. The first two know all distances up to the layer
(`Known`) and stand on the vertices at that distance (`Ring`). The second two go
on from the middle over vertices that fit the hop bound (`Useful`); that this
loses none rests on the other distance being exact wherever it matters: a useful
vertex has a useful predecessor or one at the middle (`Feeds`). Known distances
are never wrong, only missing (`Exact`). The bound k = 1 is a case of its own: the
backward search goes one layer although half of 1 is 0, and is taken up again at
layer 0, so the source may get a distance that is not its own (`Measured` makes
the exception); pruning skips the source's test, so it does not matter.

`AnswerInv` follows the edges through the passes after that. Of the edges kept
(`Kept`), every edge of every path of the query is one (`KeptPaths`), and what the
kernel needs of distances already holds under the old ids (`KeptDists`). The new
ids tell vertices in use apart (`RenamedIds`): all have one in 1 .. n but possibly
the source, which is 0 then and has no edge leading to it. `Renaming` says what
the edges and distances under the new ids are the image of; `IsCSR` that the rows
list them. Back from the job, a simple path of at most `k` hops from source to
target comes from exactly one path of the query (`CarriedBack`,
`RenumberedApart`).

The same module holds the theorems about `PathPool`, and what the two have in
common:
- `ResultsConserved`: pending paths never continue one another, and counted
  results plus those still covered by a pending path are all the results.
- `CompletionExact`: completion without an error means the count is exact.
- `QueryIsAnswered`: the preprocessing and an engine that keeps the promise of
  `PathPool`, together. If the engine completes the job made of a query, it
  reports the number of simple paths of at most `k` hops of that query.

The invariant `PoolInv` adds to these that pending paths are `Viable`: simple
walks continuing a task, not past the target, and close enough to it when they
close. The argument, in the lemmas of `HopPathsProofs`: a path that does not
close has, for each result it is a
prefix of, exactly one child that is a prefix too (`ChildCovers`; that the
four-bit addition does not wrap is `AdmitsExact`), children of incomparable
paths are incomparable, and a path that closes stands for exactly one result
(`ClosingOne`), by the distance bound when its last edge is not stored. So
`Expand` leaves the covered set alone and `Emit` moves one result from it to the
counter (`ExpandAccounts`, `EmitAccounts`).

### `MYDFSProofs`
- `TypeCorrect`: the types of the kernel's variables.
- `CapacityRespected`: stacks, batch and candidates stay within their arrays, and
  no more paths are popped than the stack holds.

Capacity is not inductive: that the candidate array has room for the next edge
follows from the test before the first edge of the row, and that the pop is safe
from the batch having been read from the same stack. `Room` says so, and
`IInv == TypeOK /\ Capacity /\ Room` is inductive.

The refinement and what follows from it:
- `KernelImplementsPool`: the kernel implements `PathPool`, for every job and all
  sizes.
- `CountExact`: a kernel that ends without an error has counted exactly the
  results of its tasks.
- `StacksHoldTasks`: what is on the two stacks could be handed over by the host.
- `WorkIsOnce`: no path is expanded twice, and after a call without an error the
  counters of expanded paths and of candidates are the exact size of the search.
- `GivesUpWithCause`: each of the three errors has its cause in the job.

The pending paths are those on the stacks and the candidates found valid, which
stand for extensions not stored yet. `MergeCount` is `Emit`, the end of `run` is
`Expand` of the paths whose rows were taken, the four ways to end are the
pool's, and every other action, spill and refill among them, moves paths
without changing the set. That set forgets how often a path is kept, so the
invariant `RInv` has to say that each is kept once (`StoredOnce`, `WaitingOnce`),
that a path is stored only while it does not close (`StoredOpen`), that the batch
is the top of the stack it will be popped from (`BatchIsTop`), and that the
candidates are exactly those that the part of the batch looked at so far admits
(`CandIsFed`). From these, the end of `run` replaces the popped paths by all
their children. That no child is on a stack already is not a matter of the
stacks: it holds because pending paths never continue one another, the account
(`Accounts`) of the pool, which is therefore part of `RInv`.

The last two theorems keep a second account, of work instead of results (`Spent`,
in `HopPathsProofs`): paths expanded so far and the part of `Expandable` that still
continues a pending path are together `Expandable`, and the same holds of the
candidates. It rests on pending paths being reached from a task through
children alone (`Spawned`), which the account of results does not need: a result has
a prefix of any length, a path to be expanded is reached in one way only. The errors
then follow from what the counters can be, from the disjointness of the stacks, and
from the first path of a batch being looked at with no candidates before it
(`FirstPath`, `RowTooLong`).

### `SubtaskProofs`
- `TypeCorrect`: no path handed out is longer than `k / 2` hops.
- `SplittingImplementsPool`: splitting, draining, cutting and dealing implement
  `PathPool`, for all thresholds and any number of compute units.
- `DealtExactly`: at the end every task is in exactly one share, every share is a
  task list the kernel may be given, and results counted on the way and results of
  the shares are all results. When the tasks are dealt they are bounded by the
  thresholds and one split.

Pending are the paths in the queue, the archived tasks, the shares, and the
children of the path being split that the loop has not looked at yet (`Unsplit`).
`Once` says that none of these is listed twice, by a listing or between two of
them; `Open` that none closes, so that each may be split or given to the
kernel. That a child is pushed once needs the account again: a child already
pending would be continued from its own parent. The shares are rounds of
a deal: compute unit `c` has the tasks at the positions `c`, `c + CoreNum`, and so
on (`RoundOnce`, `Positions`), which makes them disjoint and leaves none over,
whatever the count.

The bound on the tasks is a second induction. The queue is sorted by length
(`Ordered`), so as long as the thresholds have not been looked at, every path in
queue and tasks has at most two hops; such paths are the root or one- and two-hop
paths of the job (`Levels`), which are at most as many as the root has neighbours
and the job has two-hop paths. From then on a split begins within the thresholds
and adds one row at most (`Width`).

- `SharesAddUp`: each share is a job that meets `JobOK`, its results are just the
  results of the whole job that continue its tasks (`ShareResults`), and adding
  up, to what the splitting has counted, the counts of the CPU's share and of the
  compute units one after the other gives the number of results of the whole job.

### `CpuDfsProofs`
- `TypeCorrect`: `arrVisited_` marks just the vertices of the walk that the stack
  spells out, and `iVisitedLen` is its length.
- `SearchImplementsPool`: the calls for the tasks of the CPU implement `PathPool`.
- `ExactUnlessStopped`: a share not stopped by `g_exit` counts exactly the results
  of its tasks, a stopped one none too many.

Pending are the siblings on the stack, the neighbours of the row being read that
have not been looked at, and the tasks not called for yet. A visit is the `Expand`
of one path, a counted neighbour is `Emit`, and pushing, popping and the next call
change nothing. The same vertex may lie on the stack several times, as a vertex of
the path and as a sibling further down, so which path an entry stands for depends
on the marks and the entries above it (`OnPath`, `PathBelow`). `Siblings` says that
no two siblings stand for the same path and that none closes; `RowRead` that while a
row is read its vertex is the last one marked and all above it are siblings offered
by this row, so a leaf is on top when it is popped. That a neighbour pushed is a
sibling of its own follows from the row listing each vertex once, and that nothing
is left to offer after the break out of a row (`NothingLeft`) from its order
(`RowsAssumption`).

### `RunDataflowProofs`
- `TypeCorrect`: the types of processes and streams.
- `FeedIsFree`: streams as deep as the source declares them never hold the feed
  up, for every `MAX_OUT_SIZE`.
- `FlagsOfCandidates`: in every interleaving, a stored flag is that of the
  candidate stored at its position.

Each stream carries a segment of a sequence fixed by the feed: the vertices,
layers or indices of the candidates, the one in the making included, and a 0
after the last vertex (`Carries`). Where a segment begins follows from the flags
stored by its reader, where it ends from the position of the feed. `Feeding`
keeps the candidates within `MAX_OUT_SIZE`, which bounds the streams.

### `HostMultiProofs`
- `TypeCorrect`: counters in their ranges, nothing in flight between calls.
- `SumIsFinal`: the host adds up what the kernels of this call reported.
- `WaitIsEnough`: in `IDXDFSOnFPGA_Multi2`, with the wait, every kernel finds the
  inputs of its call.
- `ResultOfQuery`: for either function, unless a kernel started before its inputs,
  the count is the sum over the compute units of this call, and a failure is
  reported just if one of them failed. `IDXDFSOnFPGA_Multi2` never is the exception,
  by `WaitIsEnough`.

For each command that has been enqueued, either it is in the queue or its effect
is there (`WritesDone`, `TasksDone`, `ReadsDone`); a wait empties the queue. The
first link needs the wait between writes and kernels. The second speaks of each
kernel that found its inputs, the third needs nothing, which is why `SumIsFinal`
holds for both functions.

### `DriverProofs`
- `TypeCorrect`: the report has one row per query in each of its columns.
- `ExitOfThisQuery`: an enumeration is not stopped by the limit of another query.
- `AloneIsExact`: with methods that leave `g_exit` to `main`, what is logged as
  complete, or entered as a speedup, is all the paths.

`Rows` gives the length of each column at each point of a query's cycle;
`Short` follows a count that fell short from the worker to the log: until the
query is reported, `g_exit` is set or there is an error, since nothing but the
next launch takes `g_exit` back.

### The chain

A query is turned into a job with the same answer (`AnswerIsKept`, `JobIsValid`,
`QueryIsAnswered`). The job is split into shares that are jobs, whose results add
up to its own (`SharesAddUp`). A kernel that reports no error has counted the
results of its share (`CountExact`), the CPU those of its own unless stopped
(`ExactUnlessStopped`); the two flags a kernel's test stores are those of the
right candidate (`FlagsOfCandidates`). The host sums the counts of this call, and
reports no error just if no kernel did, unless a kernel started before its inputs
(`ResultOfQuery`). `MYDFSOnFPGA_Multi`, without the wait, leaves that to the OpenCL
runtime (`host_race`). What is
logged as complete is what was counted, for methods that leave the flag to `main`
(`AloneIsExact`). Each link is a theorem of its own module with its own
variables. That one link's outcome is the next one's constant is read off the
definitions, not proved: `QueryIsAnswered` says it with `ThisJob = OutJob`,
`SharesAddUp` speaks of the record `CallWith(..)` that is the argument of the next
call, and the assumption a link makes is the conclusion of the one before it.
The one assumption no link delivers is that of `MYDFS` on sizes, that a share
fits the bram stack: `DealtOnce` bounds the tasks by thresholds and graph, not by
that stack.

### Only model-checked

- `Excute` with all modules it composes, whose engines are `RECURSIVE`
  operators, on which the prover cannot work: `TypeOK`, `SearchesExact`,
  `BarriersExact`, `IndexExact`, `NeverTooMany`, `NoFutileCall`, `StaysInBounds`.
- All liveness (termination, return, report): the prover has neither `ENABLED`
  nor fairness.

## 5. Not modelled

- Wall-clock times and the performance counters derived from them.
- Memory layout: array sizes in bytes, memory banks.
- A kernel call with more tasks than the bram stack holds (`SizesAssumption`).
- The OpenCL runtime other than its freedom to reorder; failing OpenCL calls,
  which end the program.
- Command-line parsing, the clock behind speedups, averages.
- HP-index: what `HPIndexPathEnumCSR` computes is thrown away by `Excute`
  (CHcPE.cpp:4933), so there is nothing to be right or wrong about.
- `CKernelTest.h`: an earlier design, in no build that compiles (see above).
- `FPGA_MYJOIN`, whose branch is empty.
- `CDirectedGraph`: the builder with hash maps, degree statistics and readers of
  other formats, which no method uses.
- The device setup of `CHost` (xclbin, contexts, memory banks).
- Utilities and the vendored hash map: no protocol of their own.

## 6. Plan

1. Done: `HopPaths`, `PathPool`, `MYDFS`, `RunDataflow`, `Prep`, `Subtask`,
   `CpuDfs`, `HostMulti`, `Driver`; the theorems of section 4.
2. Done: the engines beside FAPE, the buffers of `CHost`, and FAPE's query from
   end to end, on one object (`Excute`).
3. Done: `Driver` with a method to compare with. Open: a task list longer than
   the bram stack, which needs the sizes of `Subtask` and `MYDFS` in one model.
4. Done: theorems about the pool, the kernel, its dataflow region, the
   preprocessing, the splitting and dealing of tasks, the CPU's share, the command
   queue and the query loop.
5. Open: one theorem about `Excute`'s FAPE query, which would need its `RECURSIVE`
   operators rewritten as functions.
