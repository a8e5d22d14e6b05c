------------------------------- MODULE Tracer -------------------------------
(***************************************************************************)
(* TAU's event traces (src/src/Profile/Tracer.cpp): every thread fills a   *)
(* buffer of MaxRecords records of its own and, when it is nearly full,    *)
(* appends it to its trace file.  What the ids in the records mean is      *)
(* written to an EDF file of the process, events.<node>.edf: of the node   *)
(* id it has then, and another one once the id is set again.  A thread     *)
(* that flushes rewrites that file first when the process-wide flag says   *)
(* that functions have been registered since.                              *)
(*                                                                         *)
(* TauTraceEvent, TauTraceInit and TauTraceClose call one another.  The    *)
(* calls a thread still has to make are a list of commands, todo[t], the   *)
(* flush in its midst has a stage of its own.  A command is one step: what *)
(* threads share is the node id, the flag, the definitions and the clock,  *)
(* and no command depends on two reads of these but those that are split.  *)
(***************************************************************************)
EXTENDS Integers, Sequences, FiniteSets

CONSTANTS
    Funcs,       \* the functions of the application
    Users,       \* its user-defined (atomic) events
    Counters,    \* a sequence: the events of the counters traced with timers
    NumThreads,  \* TAU thread ids are 0 .. NumThreads - 1
    MaxRecords,  \* TAU_MAX_RECORDS
    MpiBuild,    \* was TAU configured with -mpi?
    FirstNode,   \* TheNode() at the start: -1, or 0 in a build without MPI
    Nodes,       \* the node ids that may be set later on
    MaxEvents,   \* bound: events each thread triggers
    MaxTime      \* bound: clock ticks

Tids == 0 .. NumThreads - 1

\* The numbers that TheNode() takes.
NodeNumbers == {FirstNode} \cup Nodes

Marks == {"EV_INIT", "FLUSH", "CLOSE", "WALL_CLOCK"}

AppEvents == Funcs \cup Users \cup {Counters[i] : i \in 1 .. Len(Counters)}

\* With fewer than five records TauTraceInit's own two do not fit.
ASSUME TracerAssumption ==
    /\ NumThreads \in Nat \ {0}
    /\ AppEvents \cap Marks = {}
    /\ Funcs \cap Users = {}
    /\ Counters \in Seq(AppEvents \ (Funcs \cup Users))
    /\ MaxRecords \in Nat /\ MaxRecords >= 5
    /\ MpiBuild \in BOOLEAN
    /\ FirstNode \in Int /\ FirstNode >= -1
    /\ Nodes \subseteq Nat
    /\ MaxEvents \in Nat /\ MaxTime \in Nat

VARIABLES
    clock,     \* the trace metric, the same for all threads
    node,      \* RtsLayer::TheNode()
    usesMPI,   \* Tau_get_usesMPI(), or a build without MPI
    defs,      \* TheFunctionDB() and TheEventDB()
    flag,      \* TauTraceFlushEvents
    edf,       \* edf[n]: the events defined in events.<n>.edf
    init,      \* init[t]: TauTraceInitialized
    buf,       \* buf[t]: TraceBuffer, as far as it was ever written
    cur,       \* cur[t]: TauCurrentEvent, the index of the next record
    file,      \* file[t]: what has been written to the trace file
    opened,    \* opened[t]: the node in the name of the trace file, or NotOpen
    todo,      \* todo[t]: the calls thread t has still to make
    flush,     \* flush[t]: the TauTraceFlushBuffer that t is carrying out
    triggered, \* history: the events t triggered, with their timestamps
    exiting,   \* has thread 0 begun to close its trace?
    replaced,  \* history: was a node id above 0 ever replaced by another one?
    moved      \* history: did the node id change after a trace file was named?

vars == <<clock, node, usesMPI, defs, flag, edf, init, buf, cur, file, opened,
          todo, flush, triggered, exiting, replaced, moved>>

nodeVars == <<node, replaced, moved>>

NotOpen == -2

Calls == {"TraceEvent", "EventWithNodeId", "Record", "Fix", "DumpEDF", "Flush"}

Stages == {"no", "begin", "dump", "clear", "write", "mark"}

NoFlush == [stage |-> "no", marked |-> FALSE, nid |-> -1]

\* A call with event ev and timestamp ts (0: read the clock) or, for Fix, the
\* number of records n; nid is the node id the caller has read.
Call(do, ev, ts, nid) == [do |-> do, ev |-> ev, ts |-> ts, nid |-> nid, n |-> 0]

TraceEvent(ev, ts) == Call("TraceEvent", ev, ts, -1)

\* Mutant: the offset of clock synchronisation is used before it is known.
RecordSynced(ev, ts, nid) == [ev |-> ev, ts |-> (IF ts = 0 THEN clock ELSE ts) - 2, nid |-> nid]

\* A trace record.
Record(ev, ts, nid) == [ev |-> ev, ts |-> IF ts = 0 THEN clock ELSE ts, nid |-> nid]

\* The records of buffer b once rs have been written from index i on.
Written(b, i, rs) == SubSeq(b, 1, i) \o rs \o SubSeq(b, i + Len(rs) + 1, Len(b))

\* The records that a flush of thread t would write.
Pending(t) == SubSeq(buf[t], 1, cur[t])

\* TB[0].ev == TAU_EV_INIT.
FirstRecordIsInit(t) == buf[t] # <<>> /\ buf[t][1].ev = "EV_INIT"

Init ==
    /\ clock = 1
    /\ node = FirstNode
    /\ usesMPI = ~MpiBuild
    /\ defs = {Counters[i] : i \in 1 .. Len(Counters)}
    /\ flag = FALSE
    /\ edf = [n \in NodeNumbers |-> {}]
    /\ init = [t \in Tids |-> FALSE]
    /\ buf = [t \in Tids |-> <<>>]
    /\ cur = [t \in Tids |-> 0]
    /\ file = [t \in Tids |-> <<>>]
    /\ opened = [t \in Tids |-> NotOpen]
    /\ todo = [t \in Tids |-> <<>>]
    /\ flush = [t \in Tids |-> NoFlush]
    /\ triggered = [t \in Tids |-> <<>>]
    /\ exiting = FALSE
    /\ replaced = FALSE
    /\ moved = FALSE

Idle(t) == todo[t] = <<>> /\ flush[t].stage = "no" /\ ~exiting

-----------------------------------------------------------------------------
(* What the application does.                                              *)

\* The flag is set when a function is registered (FunctionInfoInit), but not
\* for a user event (AddEventToDB).  Both hold the database lock.
Register(t, e) ==
    /\ Idle(t)
    /\ e \notin defs
    /\ defs' = defs \cup {e}
    /\ flag' = (flag \/ e \in Funcs)
    /\ UNCHANGED <<clock, nodeVars, usesMPI, edf, init, buf, cur, file, opened, todo,
                   flush, triggered, exiting>>

\* Profiler::Start and Stop trace the function and then the counters, all with
\* the time they read first; a user event lets the tracer read the clock, three
\* times.
Traced(e) == IF e \in Users
             THEN <<TraceEvent(e, 0), TraceEvent(e, 0), TraceEvent(e, 0)>>
             ELSE <<TraceEvent(e, clock)>>
                  \o [i \in 1 .. Len(Counters) |-> TraceEvent(Counters[i], clock)]

Trigger(t, e) ==
    /\ Idle(t)
    /\ e \in defs \cap (Funcs \cup Users)
    /\ Len(triggered[t]) < MaxEvents
    /\ todo' = [todo EXCEPT ![t] = Traced(e)]
    /\ triggered' = [triggered EXCEPT ![t] =
          @ \o [i \in 1 .. Len(Traced(e)) |-> Traced(e)[i].ev]]
    /\ UNCHANGED <<clock, nodeVars, usesMPI, defs, flag, edf, init, buf, cur, file,
                   opened, flush, exiting>>

-----------------------------------------------------------------------------
(* The tracer.                                                             *)

Doing(t, do) == flush[t].stage = "no" /\ todo[t] # <<>> /\ Head(todo[t]).do = do

\* The first call has returned, after making the calls cs.
Then(t, cs) == todo' = [todo EXCEPT ![t] = cs \o Tail(@)]

\* Mutant: the records that are already in the buffer are left as they are.
TraceInitNoNode(t, n) ==
    IF init[t] \/ n = -1 THEN UNCHANGED <<init, buf>>
    ELSE init' = [init EXCEPT ![t] = TRUE] /\ UNCHANGED buf

\* TauTraceInit at node n: once the node is known, the records that are already
\* in the buffer get its id...
TraceInit(t, n) ==
    IF init[t] \/ n = -1 THEN UNCHANGED <<init, buf>>
    ELSE /\ init' = [init EXCEPT ![t] = TRUE]
         /\ buf' = [buf EXCEPT ![t] =
               [i \in 1 .. Len(@) |-> IF FirstRecordIsInit(t) /\ i <= cur[t]
                                      THEN [@[i] EXCEPT !.nid = n] ELSE @[i]]]

\* ... and these records are created.
Created(t, n) ==
    IF init[t] \/ n = -1 THEN <<>>
    ELSE (IF cur[t] = 0 /\ ~FirstRecordIsInit(t)
          THEN <<Call("Record", "EV_INIT", 0, n)>> ELSE <<>>)
         \o <<Call("Record", "WALL_CLOCK", 0, n)>>

\* Mutant: one record more than TauTraceInit has created.
FixOneMore(n, ts) == [Call("Fix", "EV_INIT", ts, -1) EXCEPT !.n = n + 1]

\* The records of TauTraceInit get the timestamp of the event.
Fix(n, ts) == [Call("Fix", "EV_INIT", ts, -1) EXCEPT !.n = n]

\* RtsLayer::setMyNode, which takes any number at any time (a process may have its
\* process id for a node id until MPI gives it a rank) and also starts the trace;
\* in a build with MPI it may be called from the wrapper of MPI_Init, which then
\* sets Tau_usesMPI.
SetNode(n) ==
    /\ Idle(0)
    /\ node' = n
    /\ replaced' = (replaced \/ (node > 0 /\ n # node))
    /\ moved' = (moved \/ (n # node /\ \E t \in Tids : opened[t] # NotOpen))
    /\ usesMPI' \in {usesMPI, TRUE}
    /\ TraceInit(0, n)
    /\ todo' = [todo EXCEPT ![0] = Created(0, n)]
    /\ UNCHANGED <<clock, defs, flag, edf, cur, file, opened, flush, triggered, exiting>>

\* TauTraceEvent reads the node id for the record...
DoTraceEvent(t) ==
    /\ Doing(t, "TraceEvent")
    /\ Then(t, <<[Head(todo[t]) EXCEPT !.do = "EventWithNodeId", !.nid = node]>>)
    /\ UNCHANGED <<clock, nodeVars, usesMPI, defs, flag, edf, init, buf, cur, file,
                   opened, flush, triggered, exiting>>

\* ... before TauTraceEventWithNodeId calls TauTraceInit, which reads it again.
DoEventWithNodeId(t) ==
    /\ Doing(t, "EventWithNodeId")
    /\ TraceInit(t, node)
    /\ LET c == Head(todo[t])
           created == Created(t, node)
       IN Then(t, created
                  \o (IF created # <<>> /\ c.ts # 0 THEN <<Fix(Len(created), c.ts)>>
                      ELSE <<>>)
                  \o <<[c EXCEPT !.do = "Record"]>>)
    /\ UNCHANGED <<clock, nodeVars, usesMPI, defs, flag, edf, cur, file, opened, flush,
                   triggered, exiting>>

DoFix(t) ==
    /\ Doing(t, "Fix")
    /\ LET c == Head(todo[t])
       IN buf' = [buf EXCEPT ![t] =
             [i \in 1 .. Len(@) |-> IF i \in cur[t] - c.n + 1 .. cur[t]
                                    THEN [@[i] EXCEPT !.ts = c.ts] ELSE @[i]]]
    /\ Then(t, <<>>)
    /\ UNCHANGED <<clock, nodeVars, usesMPI, defs, flag, edf, init, cur, file, opened,
                   flush, triggered, exiting>>

\* Mutant: an event before the node is known does not start with EV_INIT.
NewRecordsNoInit(t, c) == <<Record(c.ev, c.ts, c.nid)>>

\* Mutant: EV_INIT gets the time it is written, not the one of the event.
NewRecordsInitNow(t, c) ==
    (IF ~init[t] /\ cur[t] = 0 THEN <<Record("EV_INIT", 0, node)>> ELSE <<>>)
    \o <<Record(c.ev, c.ts, c.nid)>>

\* The records for an event: EV_INIT comes first, even before the node is known.
NewRecords(t, c) ==
    (IF ~init[t] /\ cur[t] = 0 THEN <<Record("EV_INIT", c.ts, node)>> ELSE <<>>)
    \o <<Record(c.ev, c.ts, c.nid)>>

\* Mutant: the room for the FLUSH record is forgotten.
FullLate(n) == n > MaxRecords

\* Is the buffer to be flushed when it holds n records?
Full(n) == n >= MaxRecords - 2

(* The rest of TauTraceEventWithNodeId: write the record, and when the     *)
(* buffer is nearly full a FLUSH record behind it, and flush.              *)
DoRecord(t) ==
    /\ Doing(t, "Record")
    /\ LET c == Head(todo[t])
           new == NewRecords(t, c)
           full == Full(cur[t] + Len(new))
           rs == new \o (IF full THEN <<Record("FLUSH", c.ts, c.nid)>> ELSE <<>>)
       IN /\ buf' = [buf EXCEPT ![t] = Written(@, cur[t], rs)]
          /\ cur' = [cur EXCEPT ![t] = @ + Len(rs)]
          /\ flush' = IF full
                      THEN [flush EXCEPT ![t] = [stage |-> "begin", marked |-> TRUE,
                                                 nid |-> c.nid]]
                      ELSE flush
    /\ Then(t, <<>>)
    /\ UNCHANGED <<clock, nodeVars, usesMPI, defs, flag, edf, init, file, opened,
                   triggered, exiting>>

\* checkTraceFileInitialized: when the file is created, the leading records of
\* node 0 get the id of a node that was set again.
Renamed(t) ==
    IF opened[t] # NotOpen \/ ~FirstRecordIsInit(t) \/ node <= 0 THEN buf[t]
    ELSE [i \in 1 .. Len(buf[t]) |->
            IF i <= cur[t] /\ buf[t][i].nid = 0 /\ \A j \in 1 .. i : buf[t][j].nid <= 0
            THEN [buf[t][i] EXCEPT !.nid = node] ELSE buf[t][i]]

\* TauTraceFlushBuffer up to the test of the flag.
FlushBegin(t) ==
    /\ flush[t].stage = "begin"
    /\ opened' = [opened EXCEPT ![t] = IF @ = NotOpen THEN node ELSE @]
    /\ buf' = [buf EXCEPT ![t] = Renamed(t)]
    /\ flush' = [flush EXCEPT ![t].stage = IF flag THEN "dump" ELSE "write"]
    /\ UNCHANGED <<clock, nodeVars, usesMPI, defs, flag, edf, init, cur, file, todo,
                   triggered, exiting>>

\* Mutant: thread 0 relies on the flag, as the other threads do.
DumpEDFIfFlag(t) ==
    edf' = IF usesMPI /\ flag THEN [edf EXCEPT ![node] = defs] ELSE edf

\* TauTraceDumpEDF, under the database lock.
DumpEDF(t) ==
    edf' = IF usesMPI /\ (t = 0 \/ flag) THEN [edf EXCEPT ![node] = defs] ELSE edf

\* Mutant: the definitions are not dumped although the flag is set.
FlushDumpSkipped(t) ==
    /\ flush[t].stage = "dump"
    /\ flush' = [flush EXCEPT ![t].stage = "clear"]
    /\ UNCHANGED <<clock, nodeVars, usesMPI, defs, flag, edf, init, buf, cur, file,
                   opened, todo, triggered, exiting>>

FlushDump(t) ==
    /\ flush[t].stage = "dump"
    /\ DumpEDF(t)
    /\ flush' = [flush EXCEPT ![t].stage = "clear"]
    /\ UNCHANGED <<clock, nodeVars, usesMPI, defs, flag, init, buf, cur, file, opened,
                   todo, triggered, exiting>>

FlushClear(t) ==
    /\ flush[t].stage = "clear"
    /\ flag' = FALSE
    /\ flush' = [flush EXCEPT ![t].stage = "write"]
    /\ UNCHANGED <<clock, nodeVars, usesMPI, defs, edf, init, buf, cur, file, opened,
                   todo, triggered, exiting>>

\* What follows the write in flush record f.
AfterWrite(f) == IF f.marked THEN [f EXCEPT !.stage = "mark"] ELSE NoFlush

\* Mutant: the buffer is not reset after it was written.
FlushWriteNoReset(t) ==
    /\ flush[t].stage = "write"
    /\ IF usesMPI THEN file' = [file EXCEPT ![t] = @ \o Pending(t)] ELSE UNCHANGED file
    /\ flush' = [flush EXCEPT ![t] = AfterWrite(@)]
    /\ UNCHANGED <<clock, nodeVars, usesMPI, defs, flag, edf, init, buf, cur, opened, todo,
                   triggered, exiting>>

\* The buffer is written and reset; in a program that has not initialised its
\* MPI yet neither happens.
FlushWrite(t) ==
    /\ flush[t].stage = "write"
    /\ IF usesMPI
       THEN /\ file' = [file EXCEPT ![t] = @ \o Pending(t)]
            /\ cur' = [cur EXCEPT ![t] = 0]
       ELSE UNCHANGED <<file, cur>>
    /\ flush' = [flush EXCEPT ![t] = AfterWrite(@)]
    /\ UNCHANGED <<clock, nodeVars, usesMPI, defs, flag, edf, init, buf, opened, todo,
                   triggered, exiting>>

\* A second FLUSH record marks the end of a flush in mid-run.
FlushMark(t) ==
    /\ flush[t].stage = "mark"
    /\ buf' = [buf EXCEPT ![t] = Written(@, cur[t], <<Record("FLUSH", 0, flush[t].nid)>>)]
    /\ cur' = [cur EXCEPT ![t] = @ + 1]
    /\ flush' = [flush EXCEPT ![t] = NoFlush]
    /\ UNCHANGED <<clock, nodeVars, usesMPI, defs, flag, edf, init, file, opened, todo,
                   triggered, exiting>>

-----------------------------------------------------------------------------
(* TauTraceClose, when the last timer of thread t has stopped.  Threads    *)
(* other than 0 may go on after it; thread 0 is the last to close.         *)
Close(t) ==
    /\ Idle(t)
    /\ cur[t] > 0
    /\ t = 0 => \A r \in Tids \ {0} : Idle(r) /\ cur[r] = 0
    /\ todo' = [todo EXCEPT ![t] =
          <<TraceEvent("CLOSE", 0), TraceEvent("WALL_CLOCK", 0),
            Call("DumpEDF", "CLOSE", 0, -1), Call("Flush", "CLOSE", 0, -1)>>]
    /\ exiting' = (t = 0)
    /\ UNCHANGED <<clock, nodeVars, usesMPI, defs, flag, edf, init, buf, cur, file,
                   opened, flush, triggered>>

DoDumpEDF(t) ==
    /\ Doing(t, "DumpEDF")
    /\ DumpEDF(t)
    /\ Then(t, <<>>)
    /\ UNCHANGED <<clock, nodeVars, usesMPI, defs, flag, init, buf, cur, file, opened,
                   flush, triggered, exiting>>

DoFlush(t) ==
    /\ Doing(t, "Flush")
    /\ flush' = [flush EXCEPT ![t] = [NoFlush EXCEPT !.stage = "begin"]]
    /\ Then(t, <<>>)
    /\ UNCHANGED <<clock, nodeVars, usesMPI, defs, flag, edf, init, buf, cur, file,
                   opened, triggered, exiting>>

Tick ==
    /\ clock < MaxTime
    /\ clock' = clock + 1
    /\ UNCHANGED <<nodeVars, usesMPI, defs, flag, edf, init, buf, cur, file, opened, todo,
                   flush, triggered, exiting>>

Closed == exiting /\ todo[0] = <<>> /\ flush[0].stage = "no"

(* The process has ended.                                                  *)
Finished == Closed /\ UNCHANGED vars

CallStep(t) == \/ DoTraceEvent(t) \/ DoEventWithNodeId(t) \/ DoFix(t)
               \/ DoRecord(t) \/ DoDumpEDF(t) \/ DoFlush(t)

FlushStep(t) == \/ FlushBegin(t) \/ FlushDump(t) \/ FlushClear(t)
                \/ FlushWrite(t) \/ FlushMark(t)

Next ==
    \/ \E t \in Tids :
         \/ \E e \in Funcs \cup Users : Register(t, e) \/ Trigger(t, e)
         \/ CallStep(t) \/ FlushStep(t) \/ Close(t)
    \/ \E n \in Nodes : SetNode(n)
    \/ Tick
    \/ Finished

Spec == Init /\ [][Next]_vars

-----------------------------------------------------------------------------
(* Properties.                                                             *)

Records == [ev : AppEvents \cup Marks, ts : Nat, nid : Int]

TypeOK ==
    /\ clock \in Nat \ {0}
    /\ node \in NodeNumbers
    /\ usesMPI \in BOOLEAN
    /\ defs \in SUBSET AppEvents
    /\ flag \in BOOLEAN
    /\ edf \in [NodeNumbers -> SUBSET AppEvents]
    /\ init \in [Tids -> BOOLEAN]
    /\ buf \in [Tids -> Seq(Records)]
    /\ cur \in [Tids -> Nat]
    /\ file \in [Tids -> Seq(Records)]
    /\ opened \in [Tids -> Int]
    /\ todo \in [Tids -> Seq([do : Calls, ev : AppEvents \cup Marks, ts : Nat,
                              nid : Int, n : Nat])]
    /\ flush \in [Tids -> [stage : Stages, marked : BOOLEAN, nid : Int]]
    /\ triggered \in [Tids -> Seq(AppEvents)]
    /\ exiting \in BOOLEAN
    /\ replaced \in BOOLEAN
    /\ moved \in BOOLEAN

\* All that a thread has traced, in the order it was recorded.
Trace(t) == file[t] \o Pending(t)

\* No record is ever written outside the buffer, however events, flushes and
\* the records the tracer adds itself fall together.
InBounds == \A t \in Tids : cur[t] <= MaxRecords

\* Nor does TauTraceEventWithNodeId reach for records below the buffer's first
\* when it corrects the timestamps of those that TauTraceInit created.
FixInBounds == \A t \in Tids : Doing(t, "Fix") => Head(todo[t]).n <= cur[t]

\* How many of the first i records of s are not the tracer's own.
Nth(s, i) == Cardinality({j \in 1 .. i : s[j].ev \notin Marks})

\* No event is lost, repeated or reordered on its way to the file: between the
\* tracer's own records the trace has what the thread triggered, one for one.
NothingLost ==
    \A t \in Tids : Idle(t) =>
       /\ Nth(Trace(t), Len(Trace(t))) = Len(triggered[t])
       /\ \A i \in 1 .. Len(Trace(t)) : Trace(t)[i].ev \notin Marks =>
             Trace(t)[i].ev = triggered[t][Nth(Trace(t), i)]

\* Every trace starts with EV_INIT, also when events came before the node id
\* was known, and when the buffer was flushed before it was.
StartsWithInit == \A t \in Tids : Trace(t) # <<>> => Trace(t)[1].ev = "EV_INIT"

\* All records of a file carry the node id in its name, although the node id is
\* set, and set again, while they wait in the buffer: from unknown to 0 and from
\* either to any other.  (Of an id above 0 nothing is renamed: once such an id has
\* been replaced, the records made before keep it in the file of the new one.)
NodeIds == ~replaced =>
              \A t \in Tids : opened[t] = node /\ node >= 0 =>
                 \A i \in 1 .. Len(file[t]) : file[t][i].nid = node

\* The timestamps of a trace never go back.
TimeOrdered == \A t \in Tids : Idle(t) =>
                  \A i, j \in 1 .. Len(Trace(t)) :
                     i < j => Trace(t)[i].ts <= Trace(t)[j].ts

\* A function is defined in an EDF file before a record of it is written: in one
\* of the process, and in that of the trace's own node unless the node id changed
\* when trace files had been named already, which splits the definitions.
FunctionsDefined ==
    \A t \in Tids : \A i \in 1 .. Len(file[t]) : file[t][i].ev \in Funcs =>
       /\ \E n \in NodeNumbers : file[t][i].ev \in edf[n]
       /\ ~moved => file[t][i].ev \in edf[opened[t]]

\* When the process has ended every event in any of its files is defined in the
\* EDF file of its last node id, whatever flag was lost on the way.
DefinedAtEnd == Closed => \A t \in Tids : \A i \in 1 .. Len(file[t]) :
                             file[t][i].ev \notin Marks => file[t][i].ev \in edf[node]

=============================================================================
