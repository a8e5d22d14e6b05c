# A verification project for TAU

TAU is a portable profiling and tracing toolkit. An instrumented program calls
TAU at the entry and the exit of its functions; TAU keeps a stack of running
timers per thread, accumulates times and counts per function and thread, and
optionally appends a record of every event to a trace file per thread, which
`tau_merge` later, or meanwhile, merges into one. At the end of an MPI program the
ranks agree on ids for their events and merge their profiles into one file. This
directory holds TLA+
models of the parts of the measurement library (`src/src/Profile`) and of the
merge (`src/utils`) whose correctness depends on the order in which things happen, the TLC configurations that check them on small instances, and proofs,
checked by TLAPS, of what holds for every instance.

1. [Inventory](#1-inventory)
2. [Plan](#2-plan)
3. [Modules and the code](#3-modules-and-the-code)
4. [Runs](#4-runs)
5. [Fairness](#5-fairness)
6. [Proofs](#6-proofs)
7. [Where code and comments disagree](#7-where-code-and-comments-disagree)
8. [What is abstracted, what is left out](#8-what-is-abstracted-what-is-left-out)

## 1. Inventory

Paths are relative to `src/Profile` of the repository; `utils/` is beside `src/`.

| component | code | state | operations |
|---|---|---|---|
| thread ids | `RtsThread.cpp`, `PthreadLayer.cpp` | vector of thread objects with a free list threaded through it, `nextThread`, `num_threads`, three mutexes, one thread-specific id | register a thread, make a virtual thread, recycle an id |
| timer stack | `TauCAPI.cpp`, `Profiler.cpp`, `FunctionInfo.h` | per thread: stack of running timers, calls, subroutine calls, inclusive and exclusive time, on-stack mark per function; for the process: profile groups, the instrumentation switch, a mutex for stopping all timers | start, stop, stop all, throttle, disable/enable, purge, end of a thread and of the process |
| profile storage | `Profiler.cpp` | what has been written | write a thread's profile, dump in mid-run |
| event tracer | `Tracer.cpp` | per thread: record buffer, its index, file descriptor, "initialised" flag; for the process: the node id, the flag "definitions changed", the EDF file | trace an event, initialise, flush, dump definitions, close |
| run-time layer | `RtsLayer.cpp` | node id, profile groups, nested DB and Env locks | set the node id, lock and unlock, group masks |
| function registration | `FunctionInfo.cpp`, `TauMapping.cpp` | function database | register |
| user events | `UserEvent.cpp` | event database, statistics per thread | register, trigger |
| GPU streams | `TauGpu.cpp`, `Cupti*.cpp` | stream to virtual thread map, stale streams | begin, end, kernel records, stream creation and destruction |
| fork | `RtsThread.cpp`, `TauWrapSyscalls.c` | all of the above, copied into the child | reset profiles and traces of the child |
| memory tracking, signal-safe memory, sampling | `TauMemory.cpp`, `TauMmapMemMgr.cpp`, `TauSampling.cpp` | allocations, arenas per thread, suspend counters | wrappers of malloc and free, arena allocation, the signal handler |
| unification | `TauUnify.cpp` | per rank: sort map, sorted lists of names of its own and of its children in the rank tree, merged list, tables of ids; messages between ranks | unify functions, unify atomic events |
| profile merge | `TauProfileMerge.cpp`, `TauSnapshot.cpp`, `TauCollate.cpp` | per rank: snapshot buffers, values to be reduced; on rank 0 the merged file and the statistics | snapshot by global ids, reduce statistics, collect the buffers |
| trace merge | `utils/tau_merge.c`, `utils/tau_events.cpp` | a descriptor per input trace with its current record, clock overflows and end; tables of event ids per trace | open, choose and write the next record, read on, wait at the end of a file, re-read definitions |
| thread layers, wrappers, back ends, file formats, instrumentors | many | | adapters, pure input and output, off-line tools |

`PROJECT.json` lists them all with their status.

**How they interact.** A thread obtains its id from the allocator before
anything else; that id indexes every per-thread array of TAU, without locks.
Entry and exit of a function call `Tau_start_timer` and `Tau_stop_timer`, which
push to and pop from the thread's stack and call `Profiler::Start` and `Stop`;
these update the function's numbers and, when tracing, call the tracer with the
function's id and the time they have read. The stop of a stack's last timer
writes the thread's profile and closes its trace. Main's exit stops all timers
of all threads. Registration of a function raises the tracer's flag. GPU
streams obtain ids from the same allocator, and thread 0 starts and stops the
timers on their stacks. `tau_merge` is another process, which shares with the
program the trace and EDF files that the tracer writes. The unification reads the
function and event databases of its rank, into which other threads may register
meanwhile, and talks to the other ranks in messages; the profile merge runs it
twice and uses its tables.

**What makes it hard.** Locks are taken for writes of shared structures but not
always the same lock; process-wide switches (throttled groups, the
instrumentation switch, the node id, the trace flag) are read at the start and
again at the end of one activation; ids are recycled while stale records still
name them; thread 0 acts on stacks of other threads; numbers must stay exact
through recursion, throttling and purging; buffers must hold the records that
the tracer itself adds; the merge reads files that still grow; the ranks'
messages carry no tags that tell them apart, and ids go through several tables
that are composed on different ranks. The hazards, each at its line, are in `PROJECT.json`.

**What makes each component correct.**

* ids: no two clients share an id; ids stay below the bound that loops over
  threads use; the free list holds every free element once; recycling bounds
  the list by what is alive together and what was not given back; whoever asks gets an id.
* timers: a properly nested program is never aborted for an overlap; marks,
  times and counts are exact whatever other threads do; stops return; all is
  written in the end.
* traces: no record outside the buffer, none lost, repeated or reordered; time
  order; every trace starts with EV_INIT, all records carry the node id of the
  file's name; every event that is in a file is defined.
* merge: the result is in time order if the traces are, has every record of every
  trace once, keeps the events' names, and the merge ends when the traces do.
* unification: every rank's id for an event is, in the global list, that of the
  event's name; the list is sorted and has every name; no message is taken for
  another; no rank waits for ever.
* profile merge: the file says of every thread of every rank what was measured,
  under the right names, and the statistics are those of all threads.

## 2. Plan

Written, in this order: `IdPool` and `ThreadIds` (everything else is indexed by
their ids), `TimerStack` (the heart of TAU), `Tracer`, `TraceMerge`, then `Unify` and
`ProfileMerge`, which composes it with itself, with the snapshots and with the
statistics; with each one its runs and its proofs.

Next, in this order:

1. `Tracer` composed with `TraceMerge`, so that the records and definitions that are merged are
   those the tracer writes.
2. `ThreadIds` with `TimerStack`: the `.TAU application` flags are indexed by
   thread id and outlive a recycled id; the composition checks that a thread's
   profile starts fresh or continues as the code means it to.
3. Fork: `RegisterFork` and `TauTraceUnInitialize` as actions of `Tracer` and
   `TimerStack`.
4. `RtsLocks`: the nested DB and Env locks of `RtsLayer.cpp`, deadlock freedom of
   the orders in which they are taken.
5. `UserEvents`: statistics of atomic events; `MmapMemMgr`: the arenas of the
   sampling handler. A second merge in one run, and the SHMEM variants of `Unify`
   and `ProfileMerge`, in which polled words replace messages.

## 3. Modules and the code

`PROJECT.json` maps every definition to its lines. Operators whose comment
starts with "Mutant:" are not used by any specification: each is a plausible
bug, written beside the definition it would replace, and shows that a property
would notice it.

### IdPool

The promise: a client that holds no id acquires one that nobody holds, and gives
it back. One variable, two actions.

### ThreadIds

`threadList`, `nextThread` and `numThreads` are the variables of
`RtsThread.cpp`; `id[c]` is the value behind the thread-specific key (or in the
stream's map); `owner[m]` says who holds mutex `m`. A client goes through
`Spawn`, `CreateRead`, `CreateNew` or `CreateReuse`, `Exit`, and with recycling
`RecycleLink` and `RecycleHead`. `_createThread` and `recycleThread` are split
between the reads of the shared words and the writes, because the three callers
hold three different mutexes: `RegisterThread` holds `tauThreadcountMutex`,
`createThread` `tauEnvMutex`, `recycleThread` `tauDBMutex`. A GPU stream is a
client too. It may be destroyed while kernel records of it are still buffered by
CUPTI; each of those that is processed later recycles the stream's id
(`KernelRecord`).

### TimerStack

| model | code |
|---|---|
| `stack[s]` | `Tau_global_stack` up to `Tau_global_stackpos` of thread `s` |
| `metrics[s][f]` | `FunctionMetrics` of `f` on thread `s`: `NumCalls`, `NumSubrs`, `InclTime`, `ExclTime`, `AlreadyOnStack` |
| `disabled`, `enabled` | functions whose group throttling set to `TAU_DISABLE`; `TheEnableInstrumentation` |
| `op[t]` | where thread `t` is in `Tau_stop_timer` and `Tau_stop_all_timers` |
| `mtx` | the mutex of `Tau_stop_all_timers` |
| `calls[s]` | the application's own call stack (environment) |
| `self`, `present` | history: how long each function really was on top of, and on, the stack |
| `lost[s]`, `took[s]` | history: by how much a purge restarted timers later than the timers above them, and how long it took |

`Enter` is a call of the application with its `Tau_start_timer` (one step: it
touches data of one thread only, apart from the two switches it reads first).
`Leave` begins `Tau_stop_timer`, which goes on with `StopCall` (the early returns
for throttled timers and empty stacks), any number of `PopThrottled` (timers
above that were throttled while they ran), and `StopTop` or `Overlap`. Each
contains one whole `Profiler::Stop` (`ProfilerStop`): accounting, the parent's
exclusive time, the throttling rule, the write of the profile by the last
timer, the pop. `EndThread`, `StopAllLock`, `StopAllNext`, `StopAllCheck` and
`StopAllDone` are `Tau_stop_all_timers` around it, for the stack of a thread that
ends, or by thread 0 for all stacks. `Toggle` and `Purge` are the calls an
application may make at any time. A purge reads the clock once for each running
timer, from the innermost outwards: `Purge` resets the numbers and restarts the
innermost timer, each `RestartNext` the next one (`Profiler.cpp:1121-1133`), and the
clock may tick between them. `DumpedIncl` and `DumpedExcl` are the values that
`TauProfiler_updateIntermediateStatistics` would write now.

### Tracer

`buf[t]` and `cur[t]` are `TraceBuffer` and `TauCurrentEvent`, `file[t]` the bytes
written, `opened[t]` the node in the file's name, `init[t]` `TauTraceInitialized`,
`flag` `TauTraceFlushEvents`, `edf[n]` what the EDF file `events.<n>.edf` defines. The functions of the
tracer call one another; the calls that a thread has still to make are a list of
commands, `todo[t]`, each executed by one action (`DoTraceEvent`,
`DoEventWithNodeId`, `DoRecord`, `DoFix`, `DoDumpEDF`, `DoFlush`). The flush is split
further (`FlushBegin`, `FlushDump`, `FlushClear`, `FlushWrite`, `FlushMark`), because
between its steps other threads register functions and set the flag. `SetNode` is
`RtsLayer::setMyNode`, which may happen late, and again, with any number: the comment at
`RtsLayer.cpp:335-339` tells of a process id that is replaced by a rank. Two history
variables remember what that does to the files: `replaced`, whether an id above 0 was
replaced by another, and `moved`, whether the id changed after a trace file was named.

### TraceMerge

| model | code |
|---|---|
| `written[i]`, `edf[i]` | the trace file and the EDF file the program writes |
| `trc[k]` | `trcdes[k]`: `fd` (open or not), the current record (its position, its event once it is global, its time as it stands in the buffer), `overflows`, `lasttime` |
| `table[k]` | `nodeEventTable[k]` |
| `erec`, `first`, `numtrc` | the variables of `main` with these names (`first` is `first_time`) |
| `out` | the merged trace; `slot`, `over` and `time` are history |

`OpenTrace` opens one trace with its first record and definitions; `Output` is the
first half of the loop, from the choice of the source to the writing of its
record; `NextRec`, `CloseTrace` and `Sleep` are the outcomes of `get_next_rec` in
the second half. `Flush` and `Close` are what the program does to the files
meanwhile: whole buffers, and a last one that ends with WALL_CLOCK. They are
`TauTraceFlushBuffer` and `TauTraceClose` without the races of `Tracer`: here
definitions always come before the records. `Situations` says what the merge may
meet: traces still being written, empty ones, threads that go on after they have
closed their trace, programs that are killed.

### Unify

One call of `Tau_unify_unifyEvents_MPI`, on all ranks.

| model | code |
|---|---|
| `db[l][r]` | `TheFunctionDB`, `TheEventDB` of rank `r`, through the `EventLister` `l` |
| `objs[r]` | `unifyObjects`: `rank`, `strings`, `mapping` and `idx` of each |
| `merged[r]`, `numStrings[r]` | `mergedObject` |
| `mask[r]`, `pc[r]`, `child[r]` | where rank `r` is in the tree, in the function, in the loop that sends tables |
| `sortMap[r]`, `unifier[r][l]` | `sortMap`, and the `Tau_unify_object_t` that is returned |
| `chan[s, d]`, `bcast[l]` | messages of MPI on the way, what rank 0 has broadcast |
| `eager` | whether `MPI_Send` returns at once, or when its message has been received |
| `wild` | history: the ranks that have read their sort map behind its end, and in which call |

The database of a rank is read twice without a lock, by `Start` for the sort map
(`TauUnify.cpp:115`) and by `FillBuffer` for the names (`TauUnify.cpp:155`). If a thread has
registered events in between, the second reading goes on behind the end of the
map and finds arbitrary indices there, with which it takes arbitrary names (`FillBuffer`,
whose `Reads` are all the maps that begin with the one made by `Start`) or crashes
(`FillBufferCrash`). The loop over the bits of the rank is `SkipChild`, `AskChild`, `ReceiveLength`,
`ReceiveNames` and, at a set bit or after the last, `EndTree`. `MergeNext` is a turn of
the loop of `Tau_unify_mergeObjects`. `SendLength` and `SendNames` answer the parent;
`ReceiveMap` composes the parent's table with those of the rank and its children,
`SendMap` passes them on, `Return` is the broadcast with the object that is
returned. `Register` is another thread of the process that registers an event.
`Spec` lets all ranks that are not inside a send take these steps in any order.

### ProfileMerge

`Tau_mergeProfiles_MPI`. It extends `Unify`: `NextLister` begins the second call of
the unification as soon as the first one has returned on that rank, whatever the
others do. `Snapshot` is the loop over `Tau_snapshot_writeUnifiedBuffer`,
`Contribute` and `Reduce` are the reductions for the statistics (a rank is not kept
by a reduction to rank 0), `WriteDefinitions` to `WriteOwn` rank 0's part of the
collection, `SendBlockLength` and `SendBlock` that of the others. `buffer[r][t]` is
the set of lines that a thread's block has in the merged file, `file` the file.

### Sums

`SumOf(d)`, the sum of a function's values, in which properties about times and counts are
written and proved.

### MC modules

`MCProfileMerge` gives databases to five ranks: with five, rank 2 has a child and a
parent, rank 4 has neither of the children that its bits stand for, and rank 0
three children. `MCTraceMerge` gives each trace an EDF file in which the same id means
something else. `MCThreadIds`, `MCTimerStack` and `MCTracer` add the symmetry sets (threads among
themselves, streams among themselves, functions among themselves; thread ids
of the last two models are not symmetric, thread 0 is main) and values that a
configuration cannot write (`-1`, sequences). Symmetry is used only in runs
without temporal properties.

## 4. Runs

`cd` to this directory and run `tlc -config X.cfg M`. Deadlock is checked in all
runs but `profiles`, where rank 0 may return and leave the others waiting (and where
`MergeEnds` says when nobody is left waiting); `Finished` is the only step of a
process that has ended.

| run | question | bounds |
|---|---|---|
| `ids_streams` | recycling by a program whose threads and streams come and go one at a time: types, unique ids in range, the free list, the length of the list, refinement of `IdPool` | 2 threads, 2 streams, 6 creations: free lists of up to 4 elements in any order |
| `ids_norecycle` | the default configuration with threads that start concurrently: unique ids, everyone gets an id | 4 threads, 6 creations, all interleavings |
| `ids_recycle_race` | expected violation of `UniqueIds`, see section 7 | 3 threads, recycling, overlapping |
| `timers_one` | exactness of times, dumps and counts on one thread through recursion, throttling, toggling and purging, with a clock that goes on during a purge | nesting 3, 4 calls of 2 functions, the clock goes to 3; a function throttles at its 2nd call |
| `timers_two` | two threads that throttle each other's functions: no overlap, exact times and marks, all written, stops return | nesting 2, 2 calls per thread of 2 functions, 2 ticks |
| `timers_exit_race` | expected violation of `NoOverlap` | main does not join |
| `timers_recycled` | expected violation of `AllWritten` | recycling on |
| `trace_one` | node ids, time order and definitions in one trace with a node id set late and set again | node ids 0 and 2 in any order and number, buffer of 6 records, 4 triggered records, 2 ticks |
| `trace_threads` | two threads with a second metric: bounds, nothing lost, EV_INIT first, all defined at the end | buffer of 5 records (the smallest in which the first records fit), 3 triggered records per thread |
| `trace_flag` | expected violation of `FunctionsDefined` | 2 threads, 2 functions |
| `merge` | two traces merged on line, with and without `-a`: types, order, nothing lost, names, end | 1 or 2 traces of up to 3 records in any batches, times 0 to 2 in any order, 2 event ids, a clock word of 4 values |
| `profiles` | five ranks unify functions and atomic events and merge their profiles: messages, ids, the global list, the file, the statistics, the end | 5 ranks, 2 threads each, lists of up to 2 of 3 names with shared, repeated and missing ones, a database that grows at any time, between its two readings as well, both kinds of send; `TAU_SUMMARY` and a file that cannot be created with a small database |

The properties and what they add to a test:

* `UniqueIds`, `IdsInRange`, `FreeListWellFormed`, `PeakBound`, `PoolSpec`. Two threads
  on one id corrupt each other's stack long after the cause. The free list is
  stated as the existence of a sequence of indices threaded from `nextThread`
  that are exactly the inactive elements. Four clients are enough for a list in
  which head, middle, last element and end marker differ.
* `TimesExact` compares the recorded times, plus the open part of activations
  still running, with history counters that know which function was on the
  stack at each tick. It is an invariant of every intermediate state, so the
  order of accounting, popping and throttling matters. Nesting 3 contains f
  inside g inside f, where the outermost activation is not the parent. A purge does
  lose time, as it restarts an outer timer after the inner one, whose whole time is
  then charged to it: the property says that no function gains from this, that
  inclusive times lose nothing, and that the losses of all functions come to just
  the time the purge took. The three ticks can fall between the readings of a purge
  of three timers, before it and after it.
* `OnStackMark`: a mark cleared by the wrong activation loses inclusive time
  only at the second recursion after it.
* `DumpExact`: the same exactness of a profile dumped in mid-run, for functions
  that are on the stack at most once. A dump takes the lock that a purge holds.
* `CallsAndSubrs`: two counters kept at different places, one reset by the purge
  through the number of timers on the stack, agree.
* `NoOverlap`: when a function is throttled by another thread while it is on
  this thread's stack, its own stop is ignored and its timer stays; every later
  stop has to recognise it. Two calls per thread suffice: one thread's two calls
  throttle the function, the other has it below or above a function that is
  stopped afterwards.
* `AllWritten` follows who writes whose profile; `StopsReturn` says that every stop
  ends, including the loop that empties a stack of timers that refuse to be
  stopped.
* `InBounds`, `FixInBounds`: the room of two records that the test for a full buffer
  keeps back has to be enough for FLUSH, EV_INIT and the wall clock record in
  whatever combination they come. The smallest legal buffer is the worst case.
* `NothingLost`, `StartsWithInit`, `NodeIds`, `TimeOrdered`: the trace is what was
  triggered, whatever was flushed before the node was known. Nodes 0 and 2
  exercise the second renumbering, which treats 0 as "not yet set", and an id that is
  lowered, for which there is none: `NodeIds` is about traces whose process has not
  replaced an id above 0.
* `FunctionsDefined` for one thread, `DefinedAtEnd` for two: the flag may be lost,
  but the definitions dumped by the last close are complete. For a process whose id
  changes after its trace was named `FunctionsDefined` says only that the function is
  in one of its EDF files.
* `TimeSorted`, `MergedInOrder`: the merge chooses among current records while the
  program adds to the files, and waits when the trace that was chosen has no more.
  The first is about traces in time order, the second about any.
* `NothingLost`: a trace's records are merged in their order, once each, and a
  trace is given up only when it is complete, although completeness is inferred
  from one record.
* `NamesKept`: ids that were unknown when the EDF file was read are looked up
  again, in the file of the right trace. Two traces use the same ids for
  different names.
* `AdjustedToZero` for one trace; `MergeEnds`: no trace is waited for that is closed.
* `MessagesMatch`: whatever the speeds of the ranks and however long messages are
  under way, the first message on a channel from which a rank waits for one is the
  one it waits for, and a table fits the array that was allocated for it, by a
  count that was read again from a database that grows.
* `NamesKept` of `Unify` follows an event through sort map, merges on up to three
  ranks and composed tables; the ids of a rank that did not read behind the end of
  its own map are right whatever names the others have sent. `GlobalIsUnion` is the reference definition of the
  result. A name that a rank has twice is twice in the list, so the property
  counts occurrences: a merge that drops or repeats one is noticed.
* `FileFaithful` reads the merged file as `paraprof` would: ids are looked up in the
  definitions that rank 0 wrote from its own tables, lines were written by the
  other ranks with theirs. `StatsExact` compares the reductions in two stages, over
  threads and then over ranks, with a definition over all threads at once. These three
  are about runs in which no rank has read behind its map: one list that is not sorted
  is enough to spoil the merges above it.
* `MergeEnds` of `ProfileMerge`: in both kinds of send, no rank waits for ever, if the
  file can be created and no rank has crashed behind the end of its map.

Three records per trace allow a flush in the midst of a trace, an overflow after
it, and a record of the other trace in between.

Bounds are in the guards, as constants: `MaxSpawns`, `LateRecords`; `MaxDepth`,
`MaxEnters`, `MaxTime`; `MaxEvents`, `MaxTime`; `MaxRecords` of `TraceMerge`.

## 5. Fairness

`ThreadIds!FairSpec` has weak fairness on the steps of a client inside the
allocator: between lock and unlock nothing blocks, and the operating system runs
every runnable thread. A thread that waits for a mutex is enabled only while it
is free; `EveryThreadStarts` therefore shows that no mutex is kept for ever and
that waiting ends when contention does (creations are bounded by `MaxSpawns`),
not that the mutexes are fair. The application owes nothing: it need not end any
thread.

`TimerStack!FairSpec` has weak fairness on the steps of `Tau_stop_timer`, of
`Tau_stop_all_timers` and of a purge that has begun, of each thread, for the same reason. Nothing makes the
application go on, return from its functions or end.

`TraceMerge!FairSpec` has weak fairness on the steps of `tau_merge` together: it is
one process. Its waiting for more records is a stuttering step. The program owes
nothing; `MergeEnds` is about runs in which it has closed its traces, and without
`-a`, with which `tau_merge` may crash (section 7).

`ProfileMerge!FairMergeSpec` has weak fairness on the steps of each rank: MPI
processes are scheduled and messages arrive. A rank whose send waits for its
receive has no step until then. Other threads owe nothing. `MergeEnds` is about
files that can be created.

`Tracer` has no liveness property.

## 6. Proofs

`ThreadIdsProofs`, for any finite sets of clients and any number of creations,
under `Disciplined`: either clients do not overlap and a stream has at most one
late record, or nothing is recycled and there are no streams. These are the
configurations in which the three mutexes do not matter; section 7 shows that
each part of the condition is needed.

* `TypeCorrect`, `IdsUnique`, `IdsStayInRange`, `FreeListIntact`, `ListWithinPeak`,
  `ImplementsPool`.
* The inductive invariant says which elements are on the free list, in limbo
  (marked free, not yet linked) or in use; that what a client has read is still
  true when it writes (from its mutex, or from being alone); and that every
  client's id is the rank of an active element. Uniqueness alone is not
  inductive: it needs that no element of the free list has an owner, and that
  the list is not cyclic. `PeakInv` adds the bound on the list: it grows only
  when every element is in the hands of another client or used up, and what is
  used up remains so.
* `ImplementsPool` shows each step to be an `Acquire`, a `Release` or a stutter.

`TimerStackProofs`:

* `TypeCorrect` for any number of threads and functions, any thresholds, recursion,
  toggling, purging, joining or not.
* `KeepsToOwnStack`: under `Joined` (main joins its threads, no virtual threads)
  every stop works on the stack of the thread that runs it, except when main
  stops the timers of threads that have ended.
* `MarksExact`: under `Joined`, `OnStackMark`. The invariant strengthens it from
  running threads to every stack: while a thread has not begun to end nothing
  pops its stack but `ProfilerStop`, and that pops the outermost activation
  exactly when it clears the mark.
* `StopsFindTheirTimers`: `NoOverlap`, under `Joined` and if TAU is not disabled (when
  it is, a stop whose start was not timed may meet a timer that has nothing to do with
  it). The invariant `Follow` relates the application's own stack `calls` to TAU's,
  through the history field `depth`: of the timers on the stack, those of functions that
  are not throttled are the calls of functions that are not throttled, in the same
  order, with throttled ones anywhere between (`Nested`); a stop under way will find its
  timer, and above it only throttled ones (`Stopping`). Any thread may throttle any
  function at any time: the relation is about whichever functions are left.

The second half of `TimerStackProofs` is about the numbers; their sums over functions and
over activations are those of `Sums`:

* `TimesAreExact` and `DumpsAreExact`: `TimesExact` and `DumpExact`, under `Joined` alone,
  so with TAU disabled and enabled by any thread, and with a clock that goes on between
  the readings of a purge. The invariant extends them from running
  threads to those that have not begun, and states them of a stack, its metrics and the
  clock, so that each operation on a stack (push, pop, purge, tick) has one lemma. They
  need `Marks`: which of the activations of a recursive function adds inclusive time.
  A thread that has begun to end pops timers that it does not always stop, so nothing
  is said of it.
* `CountsAgree`: `CallsAndSubrs`, under `Undisturbed`: `Joined`, `ThrottleCalls # 0`, and
  TAU is disabled, if at all, in a process of one thread. The counts agree because
  every timer but the one at the bottom is on top of another, and what is at the bottom
  is `.TAU application`, once (`Bottomed`, `OneApp`, `OwnCalls`). With `ThrottleCalls = 0`
  that timer would be throttled at its first stop; and if one thread disables TAU while
  another begins, `.TAU application` is not started there and the first function is
  nobody's subroutine.
* `ProfilesAreWritten`: `AllWritten`, under `Saves`: `Joined`, `ThrottleCalls # 0`, TAU not
  disabled and ids not recycled. `Unsaved` says that a thread with numbers that have not
  been written has timers on its stack; `Unwinding`, with `Follow`, that the loops which
  empty a stack at the end of a thread and of main reach its last timer, whose stop
  writes. With recycling the property fails (section 7). A thread that ends while TAU is
  disabled has its timers popped without being stopped.

`SumsProofs` proves what a sum over a finite set is when the set is empty, gets an
element or changes in one value, when it is added up in parts, along a map or by two
partitions of the same set; what the greatest and the least number of a set are, and how
the greatest of several sets is had from theirs; and that a fold over a sequence has a
value at each place, which comes from the one before. `MapThenSumSet` and the folds are
recursive functions; their equations are inductions on a size or a length, which are done
here by the least number principle: there is no smallest set, and no shortest
sequence, for which they fail.

`TracerProofs`:

* `TypeCorrect`.
* `StaysInBounds`: in a build without MPI no buffer overflows, for any number of
  threads, any order of events and any buffer of at least five records. The
  invariant bounds the index by `MaxRecords - 3` between flushes, by
  `MaxRecords - 1` while a flush is under way and by 0 when the flush writes its
  closing mark, and says that everything below the index has been written.
  `InBounds` itself is not inductive: a full buffer with a call still to make
  satisfies it.
* `FixStaysInBuffer`: `FixInBounds`, in any build. The invariant `FixSoon` looks at the
  calls a thread still has to make: before a Fix there are only records to be
  written, and it finds its records in the buffer: two, when the buffer was empty
  before (`TauTraceInit` creates EV_INIT only then), or one. The test for a full
  buffer cannot flush the first of two, because a buffer has room for five; when it
  flushes one, the FLUSH record that closes the flush is there in its stead.
* `AllDefined`: `DefinedAtEnd`. An event is in a call, a buffer or a file only if it is
  in the databases (`Known`). Once thread 0 has begun to close, the other threads are
  idle and nothing is registered; `LastDump` says that the calls left to thread 0 still
  hold its dump of the definitions, or that the EDF file of the node is equal to the databases,
  or that MPI is not initialised, in which case no file has been written. The flag
  plays no part: whatever another thread's dump or reset did to it, thread 0 dumps
  regardless.
* `DefinedBefore`: `FunctionsDefined`, with one thread and without MPI, whatever node ids are
  set and when. The invariant is that a function which is in no EDF file, or, while the
  node id has not changed since the trace was named, not in that of the node, has the
  flag raised for it (`FuncsDumped`), through the steps of a flush. Both conditions are needed: with a second thread a
  function may be registered after a dump and before the flag is cleared, and in a
  build with MPI a flush before MPI is initialised clears the flag without a dump.
* `InitComesFirst`: `StartsWithInit`, for any number of threads. `StartOf`: a trace without
  records belongs to a buffer that was never used, and once the node is known the next
  record will be EV_INIT; the flush of a buffer that is empty leaves no mark.
* `NodeIdsAgree`: `NodeIds`, with one thread that is given any node ids in any order. The
  property is about traces for which no id above 0 was replaced; that is all the
  proof needs. The invariant `Ids` follows the two renumberings: until the file has
  been opened the records have the node they were written at or 0, with the
  node's from some record on (`Mixed`), and the renumbering that comes with a new node, or with the flush that opens the file, makes
  them equal. The calls that are left have read the node it is.
* `EventsAreKept`: `NothingLost`, for any number of threads and all settings. The invariant
  counts: file and buffer of a thread hold the first n of the events it has triggered,
  besides marks (`Recorded`), and the calls it has left are for the others, in order, after
  marks only (`Rest`). So no path from `TauTraceEvent` through initialisation, flush,
  correction and renumbering drops or repeats one.
* `TimesInOrder`: `TimeOrdered`, under `OneClock`: one thread, and no counters traced with the
  time of their timer. The invariant `Times` has three cases: the calls left will read the
  clock themselves; or one event is left, whose time is not before the trace's last;
  or the event is still behind the records of `TauTraceInit`, which have later times, and
  `Fix` is ahead of it. With two threads a flush of another thread may write those
  records before they are corrected; with counters the flush mark of the first
  record gets a later time than the counter behind it.

`TraceMergeProofs`, for any number of traces, any records and any `Situations`, with
or without `-a`, `-e` and `-n`:

* `TypeCorrect`. The invariant adds that a descriptor's current record is one of its
  file, with the time the trace is compared by (`Positions`); what the program
  appends leaves it so.
* `SortedByOverflow`: `MergedInOrder`. It is inductive together with `Heads`: what has
  been merged is not after the current record of any open trace. `Output` needs
  that the source is the least of all (`SourceIsLeast`), `NextRec` that a trace's
  pair of overflows and time does not decrease.
* `SortedByTime`: `TimeSorted`. Two more facts: an overflow proves that some file is
  not in order (`Wrapped`; a file that is in order was so before it grew), and
  without `-a` the time that is written is the one compared (`Unadjusted`).
* `AdjustedFromZero`: `AdjustedToZero`. With one trace the records are written in the
  order they are read, the one it stands at has its own time until it is written,
  and the time of the first is kept (`ReadInTurn`). That the file may grow meanwhile
  does not matter, as what has been written to it stays.
* `RecordsAreKept` and `EventsKeepNames`: `NothingLost` and `NamesKept`, under `Orderly`: the traces
  have begun when they are opened; while they are still written the merge
  waits at their ends, has the EDF files named, and no thread goes on after it has closed
  its trace. Traces that are complete may also be those of a thread that was killed or
  that has gone on. The invariant `Complete` counts, for each descriptor, the records in the
  output (`Reading`: as many as the descriptor has read and written), and says that the
  n-th of them is the n-th of its trace, under its name (`Faithful`); a table has, for each
  id, the name of its own trace or none (`Tables`), and every id that is in a file is in
  the EDF file by then (`Defined`, which the tracer's `FunctionsDefined` is about). If the merge
  does not wait, an end of file that is not the end of the trace closes it; without
  `-e` the table of another trace may be read again (section 8).

`UnifyProofs`, for any number of ranks, any databases, sends that wait or do not,
registrations by other threads at any time, and all interleavings of one call:

* `TypeCorrect`.
* `IdsKeepNames`: `NamesKept`, unconditionally: what a rank that read behind the end of its
  map has sent is a list of names like any other, only not sorted, and the tables lead
  from its positions to those names as well. The invariant relates every table to the names at both
  its ends. A rank's own list is its database in the order of its sort map
  (`OwnNames`; databases only grow at their ends). Until the parent's table has come,
  the table of each object leads from its list to the merged list of the rank
  (`Tables`, for the part that has been merged so far), then to the global list;
  a list of names on the way is the one its sender has (`Carries`), a table on the
  way leads from the list that its receiver has sent to the global list. What makes
  this inductive is that what has been sent never changes (`Frozen`): a rank's list
  after it was sent, and rank 0's merged list once the first table has left it. That
  a table is sent to the right child, and applied once, is the shape of the tree:
  each object but the first is that of a child, each child has one parent, and the
  parts of a rank's progress (`Children`, `Tree`) say which of its messages are still
  to come.
* `GlobalListIsUnion`: `GlobalIsUnion`, which is about calls in which no rank has read behind
  the end of its map, so that the lists are sorted. The rank that has a name most often in all the tree
  may be at any distance, so what is kept is about each list on its own: it is sorted,
  and for each name there is a rank whose own list has it as often (`Union`). For that
  the tables have to lead different positions to different ones: they rise (`Rises`),
  from the merge through every composition on the way down (`MappedRises`, `TablesRise`), so
  that a list never has more of a name than the list it leads to (`NotMore`). That
  none of the children's lists is short of a name is decided in the merge: what is
  merged is not above what is left, and for each name there is a list whose table
  leads to all of it that has been merged; a list whose turn it still is always is
  one (`Merging`, `Turn`). Once a list is used up it has the name as often as the
  merged one (`AsOften`).
* The theorems are about one call. That the second call, which begins while other ranks
  are still in the first, and the collection of the buffers do not disturb it is
  `NoneMixedUp`; `NamesKept` for both calls together is `NamesThroughBothCalls`.

`ProfileMergeProofs`, for any number of ranks, any databases and settings, sends that wait
or do not, and registrations by other threads at any time, through both calls of the
unification and the whole merge:

* `NoneMixedUp`: `MessagesMatch`. What is next in a channel depends on all that its two ends
  have done before, so the invariant numbers the messages between each two ranks,
  separately in the two directions, from the first call to the collection. How many a
  rank has sent and taken is a function of where it is (`DownSent`, `DownTaken`, `UpSent`,
  `UpTaken`), the kind of a message is a function of its number (`DownKinds`, `UpKinds`), and
  a channel holds those that have been sent and not taken (`Protocol`). A rank never has
  to know how far the other is: the parent may be in the second call while a table of the
  first is under way.
* For this the binomial tree has to be one. Masks are defined as the smallest set that has
  1 and, with each number, its double; two of them are equal or one is an even
  multiple of the other (`MasksNested`, an induction through that definition). Hence a rank
  has one parent (`OneParent`), and the loop over the masks meets its children one by one
  and all of them (`NextChild`, `BitSet`, `BitUnset`). `Placed` says where a rank is in the tree
  at each place of the code; `Family` that its objects, but the first, are those of the
  children it has heard of, each once, so that each child is sent one table.
* That a table fits: the length of the array (`numStrings`) is fixed when the names are sent,
  by the merged list or, without children, by the database as it is then; the list sent
  is never longer, and the table that comes back is as long as the list (`Mail`, `Fits`).

* `NamesThroughBothCalls`: `NamesKept`. The invariant of `IdsKeepNames` is now about a rank and
  the call it is in (`Read`, `Leading`, `Kin`), and about each call that a rank has
  finished (`Given`, `Past`): its tables and lists stay as they were when the databases
  grow and the second call begins. The global list of a call is that of rank 0's
  merge until it has been told to all, and from then on the one rank 0 keeps
  (`Global`, `Fixed`). A list or a table on its way belongs to the call that its number in the
  channel says (`Carrying`), which is where `Protocol` is needed: a rank may send the names of
  the second call before its parent has taken the last message of the first.

`ProfileFileProofs` goes on from there, under the same conditions, to what is in the file:

* `MergeTypes` and `FileIsFaithful`: `MergeTypeOK` and `FileFaithful`. A buffer that has been
  filled shows what its rank measured by the global lists (`Shows`), and that is said of the
  buffer in the rank, in a message and in the file alike (`Held`, `Bringing`,
  `Filed`), as it is only moved from one to the next. That the blocks are in order is that
  rank 0 takes them from one rank after the other (`Gathered`) and that a channel
  holds at most the length and the block (`Protocol` again). When the buffer is filled, the ids
  that occur on a rank correspond one to one to the entries its database had when they were
  read (`Paired`): different ids have different entries, and each entry that was read has one.
  The ids have the entries' names always (`Named`); that they are one to one needs a sort
  map that has each entry once, which is so as long as no rank has read behind
  its map (`OneToOne`: until then a map is a permutation that sorts the names; `OInv`). The types
  do not depend on it, the contents of the file do, and `FileFaithful` is about the runs in
  which no rank has done so.
* `StatsAreExact`: `StatsExact`. `Summed` says that each rank's contribution to the
  reductions is the one it has now, from the moment it made it: events may be registered later,
  but the contribution is made of the entries that were read, which stay. Rank 0
  computes when all have contributed. What it computes are folds over ranks of folds over
  threads, which come to sums and, with -1 for "none" among the minima, to greatest
  and least values (`Extreme`). The statistics are by ids and the property is by names:
  the places of a name (rank, entry, thread) are partitioned by their ids and, within an id, by
  the ranks (`At`, `IdAt`, `SumOverRanks`), because the tables lead different entries to
  different ids.
* `GlobalListsAreUnions`: `GlobalIsUnion` of both calls, by the argument of
  `GlobalListIsUnion`, of which the lemmas about one merge of lists are used again. What one call
  does not need is where a rank's own list is (`OwnList`): in its objects during the call it
  belongs to, then in what it has returned, for the objects are used again
  for the next call while other ranks, and rank 0, may still be merging the
  former. That a rank still has, or has had, a list (`HasList`) and that this list stays the same is
  therefore part of what every step has to keep (`OwnListsStay`), and a fixed global list
  keeps its union (`Unites`) though rank 0 has gone on to the next call.

The invariants were checked with TLC on small instances before they were proved, where
TLC can evaluate them (it cannot enumerate `Masks`).

**Assumptions.** Those named in the modules: `IdsAssumption`, `TimerAssumption`,
`TracerAssumption`, `UnifyAssumption`, `MergeAssumption` of `TraceMerge` and of
`ProfileMerge` (types of the constants; `MaxRecords >= 5` in `Tracer`; values of
profiles that are not negative in `ProfileMerge`). TLC evaluates them in
every run.

**Only model-checked.** Liveness (`EveryThreadStarts`, `StopsReturn`, `MergeEnds`), which is
beyond the prover; every safety property of the passing runs has a theorem. Where a
property counts or sums, an induction is needed, and that is had without the
library's induction theorems, from a smallest counterexample, as in `SumsProofs` and
for `Masks`.

## 7. Where code and comments disagree

Each of these has a run that ends in a counterexample:

* `ids_recycle_race`. With `TAU_RECYCLE_THREADS`, a thread that registers holds
  `tauThreadcountMutex` (`PthreadLayer.cpp:77`), a thread that is recycled
  `tauDBMutex` (`RtsThread.cpp:213`). The first takes the head of the free list and reads
  its successor, the second pushes its own element in front of that head, and
  `nextThread` is then whichever of the two is written last. If it is the
  successor, the pushed element is lost; if it is the pushed element, that leads
  to the head, which is in use, and a later registration gets its id.
* `timers_exit_race`. `TauCAPI.cpp:990` explains that thread 0 and another thread may
  stop the same timers at the same time, "So lock." Only `Tau_stop_all_timers`
  locks; `Tau_stop_timer` does not.
* `timers_recycled`. With recycling thread 0 is to write all profiles
  (`Profiler.cpp:1772`), but it passes over threads with an empty stack, which
  threads that have ended have.
* `trace_flag`. The flag is reset after the database lock was released, so a
  function registered in between is written to a trace undefined until another
  registration or the last close.

The same models give counterexamples for other values of the constants, which
explain the assumptions of the runs above:

* `ThreadIds` with `Overlap = TRUE` and a stream: `createThread` and
  `RegisterThread` hold different mutexes, also without recycling.
  With `LateRecords = 2`: two kernel records of a destroyed stream recycle its id
  twice, which makes the free list cyclic.
* `TimerStack`, a thread that ends with a throttled function on its stack: "Make sure
  even throttled routines are stopped" (`TauCAPI.cpp:995`), but `Tau_stop_timer`
  returns at once for a throttled timer and the loop pops it without stopping it:
  its mark stays set and its time since the start is lost.
* `TimerStack` with `Toggles = TRUE` and two threads: `NoOverlap` fails when one
  thread enables instrumentation after another's stop was ignored.
  With `Tasks = {1}` and throttling: `TimesExact` fails, because
  `profiler->Stop()` in the loop of `Tau_stop_timer` (`TauCAPI.cpp:804`) has the
  running thread as default argument. Without the restriction in `DumpExact`, it
  fails for recursive functions: the search stops at the innermost activation.
  With `ThrottleCalls = 0` even `.TAU application` is throttled when a thread
  ends, and main's profile is not written.
* `Tracer` with `Counters = <<c1>>`: `TimeOrdered` fails, because a counter's record
  carries the time of its timer, also behind a FLUSH record in between.
  With `MpiBuild = TRUE`: before `Tau_set_usesMPI` a flush neither writes nor resets
  the buffer, and `InBounds` fails.
* `TraceMerge` with more `Situations`. With `"empty"`: a trace that is empty when it
  is opened is ignored for good, also when records follow (`NothingLost`); with `-e`
  the traces after it get the EDF files of their predecessors (`NamesKept`). With
  `"reopened"`: a thread that goes on after `TauTraceClose`, which `Tracer.cpp:596`
  provides for, may find its trace given up at the first WALL_CLOCK (`NothingLost`).
  With `"killed"`: the merge waits for ever for the last records (`MergeEnds`).
  With `EdfGiven = FALSE`: `tau_events.cpp` declares a shorter `struct trcdescr` than
  `tau_merge.c`, so that `get_nodeid` finds the node id of the first descriptor only;
  when the ids of another trace are looked up again the wrong EDF file is read, or
  none (`NamesKept`).
  `AdjustedToZero` without the restriction to one trace: the man page says of `-a`
  "adjust earliest timestamp time to zero", the code adjusts `erec`, the record that
  was read last (`tau_merge.c:1245`), instead of that of the source, and crashes when
  the trace read last has ended (`Fail`).
  A trace in which times are out of order, as `Tracer` writes with counters, is in
  the merge's eyes one whose clock has overflowed: the rest of it is put behind all
  other traces (`TimeSorted` says nothing of it, `MergedInOrder` does).

* `ProfileMerge`: "at least one thread would be active across the node-space and so
  negative values should never show up after reduction" (`TauCollate.cpp:1160`), but
  `getStepValue` passes over values that are not positive (`TauCollate.cpp:196`):
  the minimum of a value that is 0 on all threads, such as the subroutine calls
  of a leaf function, is -1 although threads are active. `StatsExact` states what is
  computed. Names that a rank has registered twice are in the global list as often,
  so "the" id of a name need not be unique (`GlobalIsUnion` counts them).
  With `opens = FALSE` the ranks other than 0 wait for ever (`OpenFails`).

## 8. What is abstracted, what is left out

* Times are small integers, one clock for all threads; a tick may fall between
  any two steps. `Profiler::Start` and `Stop` read the clock once, a purge once for each
  running timer.
* A purge and a dump hold the database lock, and so does a stop that throttles a
  function. The model has no database lock: a stop of another thread may throttle in
  the midst of a purge, where the code lets it wait (`Profiler.cpp:755-759`), which only
  adds interleavings; for dumps `DumpExact` leaves out the states in which the
  thread's purge is under way (`Profiler.cpp:1270`).
* Names, groups, metrics other than the first, metadata, formats and file names
  do not appear, but for the node in a trace file's name. A function is throttled
  individually.
* The stack's array and its growth, the lite and dynamic-timer entry points,
  phases, call paths and call sites, the increment and decrement of the
  lights-out flag, and the FORTRAN interface are left out.
* `TAU_THROTTLE_NUMCALLS` is at least 1 in the runs.
* The first word of a trace buffer fresh from `malloc` is taken not to be EV_INIT.
  A buffer of the default size consists of zero pages.
* A node id above 0 that is replaced, as by a process whose process id becomes a rank
  (`RtsLayer.cpp:335-339`), leaves the records made before it with the old id in the
  file of the new one: `Tracer.cpp:285` renumbers only when the records have no node or
  node 0, and `TauTraceReinitialize` does nothing. `NodeIds` leaves such runs out. A
  node id that changes after a trace file has been named splits the definitions: the
  trace stays in `tautrace.<old>`, and the next dump writes `events.<new>.edf`
  (`Tracer.cpp:669`), so a function registered after the change is missing in the EDF
  file of its trace. `FunctionsDefined` says what is left then.
* A trace record's event, time and node are kept, its parameter and thread are
  not. File errors do not happen. Clock synchronisation and OTF2 are left out.
* GPU streams appear as clients of the allocator and as stacks that thread 0
  drives; correlation of CUPTI records is left out.
* `tau_merge`: a trace begins with EV_INIT, as `StartsWithInit` of `Tracer` says, by
  whose node id its EDF file is found, and with `-e` there is one EDF file for each
  trace. An input buffer is a prefix of the file that never changes, so it is
  not modelled; a global event id is the name it stands for. CONT_EVENT records,
  which the tracer does not write, clock offsets, which are 0 but on extinct
  machines, formats and byte order, the options `-w` and `-r`, errors of the file
  system, incomplete records at the end of a file and an EDF file caught while it is
  rewritten are left out.
* `Unify`: names are numbers in the order of `strcmp`; formats of the buffers, the
  memory they take and its release, timing and metadata are left out. MPI is
  modelled by what `TauUnify.cpp` uses: channels that keep the order of messages
  between two ranks, blocking receives, sends that all wait or all do not, a
  broadcast that leaves rank 0 at once. What a rank finds behind the end of its sort
  map is memory that it has not written: any index of the database, or a crash. A map
  that is read so is not sorted ("Because each set of event identifiers is sorted",
  says the comment at `TauUnify.cpp:213`), and the merge of the lists relies on that. The
  databases are vectors of the process: that a registration moves the vector while the
  unification reads it (also without a lock) is left out. The branch for an empty buffer cannot be taken, as the buffer begins
  with the number of names.
* `ProfileMerge`: one merge in a run. In a second one, as `dbMergeDump` of the Python
  binding followed by `MPI_Finalize` makes it, the snapshot buffers still hold the
  first profile, under the ids of the first unification. No thread is created
  between the loop over the snapshots and the reading of the buffers
  (`TauProfileMerge.cpp:194` and `211`), which would find no buffer for it. One
  value stands for all measured ones; they are not negative: a negative sum, which
  atomic events may have, ends in an assertion (`TauCollate.cpp:183`). Means and
  deviations, computed on rank 0 from the reduced values, histograms and metadata
  are left out, and so is the lock that `Tau_snapshot_writeUnifiedBuffer` keeps under
  `TAU_SUMMARY` (`TauSnapshot.cpp:356`).
* The SHMEM variants of unification and merge (`TauUnify.cpp:488`) are not modelled:
  parents and children put into each other's symmetric memory and poll it,
  through an external library whose ordering the code leaves open.
* Fork is planned. The other components and the reasons why they are not
  modelled are in `PROJECT.json`.
