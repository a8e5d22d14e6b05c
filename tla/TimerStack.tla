----------------------------- MODULE TimerStack -----------------------------
(***************************************************************************)
(* TAU's timers: the per-thread stack of running timers that Tau_start_    *)
(* timer and Tau_stop_timer keep (src/src/Profile/TauCAPI.cpp), the times  *)
(* and counts Profiler::Start and Profiler::Stop accumulate for each       *)
(* function and thread (src/src/Profile/Profiler.cpp), run-time            *)
(* throttling, and the end of threads and of the process.                  *)
(*                                                                         *)
(* The application is properly nested: a thread enters and leaves          *)
(* functions, and every entry and exit is instrumented.  A real thread     *)
(* drives the timers of its own stack; thread 0 also drives those of the   *)
(* virtual threads (Tasks) that stand for GPU streams.                     *)
(*                                                                         *)
(* A timer start touches only the stack and the numbers of one thread and  *)
(* is one step.  A stop is several: the call itself, one step for each     *)
(* Profiler::Stop (each reads the clock), and, under Tau_stop_all_timers,  *)
(* the loop around it.  Other threads run between them.                    *)
(***************************************************************************)
EXTENDS Integers, Sequences, FiniteSets, FiniteSetsExt, Sums

CONSTANTS
    Funcs,          \* the instrumented functions of the application
    App,            \* the ".TAU application" timer of every thread
    NumThreads,     \* TAU thread ids are 0 .. NumThreads - 1
    Tasks,          \* ids of virtual threads, driven by thread 0
    Recycle,        \* TAU_RECYCLE_THREADS
    Toggles,        \* does the application disable and enable TAU?
    Purges,         \* does it purge its profiles?
    Recursion,      \* may a function be entered again while it runs?
    JoinAll,        \* does main wait for the other threads before it exits?
    ThrottleCalls,  \* TAU_THROTTLE_NUMCALLS
    ThrottlePercall,\* TAU_THROTTLE_PERCALL, in clock ticks
    MaxDepth,       \* bound: nesting of the application's calls
    MaxEnters,      \* bound: calls each thread makes
    MaxTime         \* bound: clock ticks

Tids == 0 .. NumThreads - 1
Real == Tids \ Tasks
Timers == Funcs \cup {App}

ASSUME TimerAssumption ==
    /\ App \notin Funcs /\ IsFiniteSet(Funcs)
    /\ NumThreads \in Nat \ {0}
    /\ Tasks \subseteq Tids \ {0}
    /\ Recycle \in BOOLEAN
    /\ Toggles \in BOOLEAN
    /\ Purges \in BOOLEAN
    /\ Recursion \in BOOLEAN
    /\ JoinAll \in BOOLEAN
    /\ ThrottleCalls \in Nat
    /\ ThrottlePercall \in Nat
    /\ {MaxDepth, MaxEnters, MaxTime} \subseteq Nat

VARIABLES
    clock,      \* RtsLayer::getUSecD, the same for every thread
    calls,      \* calls[s]: the application's own call stack on thread s
    enters,     \* enters[s]: calls made so far, for the bound
    phase,      \* phase[s]: "new", "running", "ending" or "done"
    stack,      \* stack[s]: Tau_global_stack[0 .. Tau_global_stackpos]
    op,         \* op[t]: the stop that real thread t is carrying out
    mtx,        \* holders of the mutex of Tau_stop_all_timers
    metrics,    \* metrics[s][f]: FunctionMetrics of f on thread s
    disabled,   \* functions whose group throttling set to TAU_DISABLE
    enabled,    \* RtsLayer::TheEnableInstrumentation
    dirty,      \* dirty[s]: s has numbers not yet written to its profile
    broken,     \* "no", or how a stop ended the process
    self,       \* history: self[s][f], ticks with f on top of stack[s], and
    present,    \* present[s][f], anywhere on it, since the last purge;
    lost,       \* lost[s][f]: by how much that purge restarted timers of f later
                \* than the timers above them, and
    took        \* took[s]: the ticks that went by while it did

vars == <<clock, calls, enters, phase, stack, op, mtx, metrics, disabled,
          enabled, dirty, broken, self, present, lost, took>>

\* What an application does, and what TAU records.
appVars == <<calls, enters, phase>>
tauVars == <<stack, metrics, disabled, dirty>>
histVars == <<self, present, lost, took>>

NoOp == [stage |-> "idle", fn |-> App, on |-> 0, all |-> FALSE, pos |-> 0]

NoMetrics == [calls |-> 0, subrs |-> 0, incl |-> 0, excl |-> 0, onStack |-> FALSE]

Top(s) == stack[s][Len(stack[s])]

Parent(s) == stack[s][Len(stack[s]) - 1]

Pop(s) == SubSeq(stack[s], 1, Len(stack[s]) - 1)

\* FunctionInfo::IsThrottled.
IsThrottled(f) == ~enabled \/ f \in disabled

\* The stacks real thread t drives.
Drives(t) == {t} \cup (IF t = 0 THEN Tasks ELSE {})

Init ==
    /\ clock = 1
    /\ calls = [s \in Tids |-> <<>>]
    /\ enters = [s \in Tids |-> 0]
    /\ phase = [s \in Tids |-> "new"]
    /\ stack = [s \in Tids |-> <<>>]
    /\ op = [t \in Real |-> NoOp]
    /\ mtx = {}
    /\ metrics = [s \in Tids |-> [f \in Timers |-> NoMetrics]]
    /\ disabled = {}
    /\ enabled = TRUE
    /\ dirty = [s \in Tids |-> FALSE]
    /\ broken = "no"
    /\ self = [s \in Tids |-> [f \in Timers |-> 0]]
    /\ present = [s \in Tids |-> [f \in Timers |-> 0]]
    /\ lost = [s \in Tids |-> [f \in Timers |-> 0]]
    /\ took = [s \in Tids |-> 0]

Idle(t) == op[t].stage = "idle" /\ broken = "no"

-----------------------------------------------------------------------------
\* IncrNumCalls and SetAlreadyOnStack, IncrNumSubrs.
CountCall(m) == [m EXCEPT !.calls = @ + 1, !.onStack = TRUE]

CountSubr(m) == [m EXCEPT !.subrs = @ + 1]

\* Mutant: the parent's subroutine call is not counted for a recursive call.
StartTimerNoSubrs(s, f, depth) ==
    IF IsThrottled(f)
    THEN UNCHANGED tauVars
    ELSE LET first == ~metrics[s][f].onStack
             counted == [metrics[s] EXCEPT ![f] = CountCall(@)]
         IN /\ stack' = [stack EXCEPT ![s] = Append(@,
                  [func |-> f, start |-> clock, addIncl |-> first, depth |-> depth])]
            /\ metrics' = [metrics EXCEPT ![s] =
                  IF stack[s] = <<>> \/ ~first THEN counted
                  ELSE [counted EXCEPT ![Top(s).func] = CountSubr(@)]]
            /\ dirty' = [dirty EXCEPT ![s] = TRUE]
            /\ UNCHANGED disabled

(* Tau_start_timer and Profiler::Start: push the timer (depth is history:  *)
(* the application's nesting), count the call, and mark the function as on *)
(* the stack unless it is there already.                                   *)
StartTimer(s, f, depth) ==
    IF IsThrottled(f)
    THEN UNCHANGED tauVars
    ELSE LET first == ~metrics[s][f].onStack
             counted == [metrics[s] EXCEPT ![f] = CountCall(@)]
         IN /\ stack' = [stack EXCEPT ![s] = Append(@,
                  [func |-> f, start |-> clock, addIncl |-> first, depth |-> depth])]
            /\ metrics' = [metrics EXCEPT ![s] =
                  IF stack[s] = <<>> THEN counted
                  ELSE [counted EXCEPT ![Top(s).func] = CountSubr(@)]]
            /\ dirty' = [dirty EXCEPT ![s] = TRUE]
            /\ UNCHANGED disabled

(* Tau_create_top_level_timer_if_necessary_task: the first thing TAU does  *)
(* on a thread is to start its ".TAU application" timer.                   *)
Begin(t, s) ==
    /\ Idle(t) /\ s \in Drives(t)
    /\ phase[s] = "new"
    /\ t = s \/ phase[t] = "running"
    /\ phase[0] # "done"
    /\ phase' = [phase EXCEPT ![s] = "running"]
    /\ calls' = [calls EXCEPT ![s] = <<App>>]
    /\ StartTimer(s, App, 1)
    /\ UNCHANGED <<clock, enters, op, mtx, enabled, broken, histVars>>

(* The application calls f on thread s.                                    *)
Enter(t, s, f) ==
    /\ Idle(t) /\ s \in Drives(t)
    /\ phase[t] = "running" /\ phase[s] = "running"
    /\ Len(calls[s]) <= MaxDepth
    /\ Recursion \/ \A i \in 1 .. Len(calls[s]) : calls[s][i] # f
    /\ enters[s] < MaxEnters
    /\ calls' = [calls EXCEPT ![s] = Append(@, f)]
    /\ enters' = [enters EXCEPT ![s] = @ + 1]
    /\ StartTimer(s, f, Len(calls[s]) + 1)
    /\ UNCHANGED <<clock, phase, op, mtx, enabled, broken, histVars>>

(* The application returns from its innermost call on s, which calls       *)
(* Tau_stop_timer for it.                                                  *)
Leave(t, s) ==
    /\ Idle(t) /\ s \in Drives(t)
    /\ phase[t] = "running" /\ phase[s] = "running"
    /\ Len(calls[s]) > 1
    /\ op' = [op EXCEPT ![t] =
          [NoOp EXCEPT !.stage = "call", !.fn = calls[s][Len(calls[s])], !.on = s]]
    /\ calls' = [calls EXCEPT ![s] = SubSeq(@, 1, Len(@) - 1)]
    /\ UNCHANGED <<clock, enters, phase, tauVars, mtx, enabled, broken, histVars>>

-----------------------------------------------------------------------------
(* The steps of Tau_stop_timer by thread t.                                *)

\* Tau_stop_timer returns: to the application, or to Tau_stop_all_timers.
Return(t) == op' = [op EXCEPT ![t] = IF @.all THEN [@ EXCEPT !.stage = "check"] ELSE NoOp]

\* Throttled timers and empty stacks are left alone.
StopCall(t) ==
    /\ broken = "no"
    /\ op[t].stage = "call"
    /\ IF IsThrottled(op[t].fn) \/ stack[op[t].on] = <<>>
       THEN Return(t)
       ELSE op' = [op EXCEPT ![t].stage = "stop"]
    /\ UNCHANGED <<clock, appVars, tauVars, mtx, enabled, broken, histVars>>

\* Mutant: inclusive time is added for every activation of a recursive function.
AddTimesEveryActivation(m, outermost, total) ==
    [m EXCEPT !.excl = @ + total,
              !.incl = @ + total,
              !.onStack = @ /\ ~outermost]

\* Mutant: the on-stack mark is cleared by every activation.
AddTimesClearsMark(m, outermost, total) ==
    [m EXCEPT !.excl = @ + total,
              !.incl = IF outermost THEN @ + total ELSE @,
              !.onStack = FALSE]

\* AddExclTime, AddInclTime and SetAlreadyOnStack in Profiler::Stop: the timer's
\* total is exclusive time, and inclusive time of the outermost activation,
\* whose end also clears the on-stack mark.
AddTimes(m, outermost, total) ==
    [m EXCEPT !.excl = @ + total,
              !.incl = IF outermost THEN @ + total ELSE @,
              !.onStack = @ /\ ~outermost]

\* Mutant: the parent keeps the child's time.
ExcludeTimeSkipped(m, total) == m

\* ExcludeTime: a child's total is taken out of its parent's exclusive time.
ExcludeTime(m, total) == [m EXCEPT !.excl = @ - total]

\* The run-time throttling rule, m being the numbers of the timer just stopped.
Throttles(e, m) == /\ e.addIncl
                   /\ m.calls > ThrottleCalls
                   /\ m.incl < ThrottlePercall * m.calls

\* Mutant: a thread's profile is written by whoever stops its last timer, under
\* that thread's own id only when it is thread 0.
StoreDataMainOnly(s, after) == [after EXCEPT ![0] = FALSE]

\* TauProfiler_StoreData(s): the profile of s is written, and with recycling
\* on thread 0 also writes those of the threads that still run a timer.
StoreData(s, after) ==
    IF s = 0 /\ Recycle
    THEN [r \in Tids |-> r # s /\ stack[r] = <<>> /\ after[r]]
    ELSE [after EXCEPT ![s] = FALSE]

(* Profiler::Stop for the top of stack s, accounted to thread a, with the  *)
(* pop that follows it.  The timer without a parent writes the profile.    *)
ProfilerStop(s, a) ==
    LET e == Top(s)
        total == clock - e.start
        stopped == [metrics[a] EXCEPT ![e.func] = AddTimes(@, e.addIncl, total)]
        m == IF Len(stack[s]) = 1 THEN stopped
             ELSE [stopped EXCEPT ![Parent(s).func] = ExcludeTime(@, total)]
        after == [dirty EXCEPT ![a] = TRUE]
    IN /\ metrics' = [metrics EXCEPT ![a] = m]
       /\ disabled' = IF Throttles(e, m[e.func]) THEN disabled \cup {e.func} ELSE disabled
       /\ dirty' = IF Len(stack[s]) = 1 /\ (Recycle => a = 0) THEN StoreData(a, after)
                   ELSE after
       /\ stack' = [stack EXCEPT ![s] = Pop(s)]

(* The loop over timers above the one to stop: one that was throttled      *)
(* while it ran is stopped, on the account of the thread that runs this    *)
(* code (profiler->Stop() without an argument means myThread())...         *)
PopThrottled(t) ==
    /\ broken = "no"
    /\ op[t].stage = "stop"
    /\ stack[op[t].on] # <<>>
    /\ Top(op[t].on).func # op[t].fn
    /\ IsThrottled(Top(op[t].on).func)
    /\ ProfilerStop(op[t].on, t)
    /\ UNCHANGED <<clock, appVars, op, mtx, enabled, broken, histVars>>

\* Mutant: any timer on top other than the one to stop is an overlap.
OverlapThrottledToo(t) ==
    /\ broken = "no"
    /\ op[t].stage = "stop"
    /\ stack[op[t].on] # <<>>
    /\ Top(op[t].on).func # op[t].fn
    /\ broken' = "overlap"
    /\ UNCHANGED <<clock, appVars, tauVars, op, mtx, enabled, histVars>>

(* ... any other one is reported as an overlap, which aborts the process,  *)
(* and below the bottom of the stack the loop reads whatever is there.     *)
Overlap(t) ==
    /\ broken = "no"
    /\ op[t].stage = "stop"
    /\ \/ /\ stack[op[t].on] = <<>>
          /\ broken' = "underrun"
       \/ /\ stack[op[t].on] # <<>>
          /\ Top(op[t].on).func # op[t].fn
          /\ ~IsThrottled(Top(op[t].on).func)
          /\ broken' = "overlap"
    /\ UNCHANGED <<clock, appVars, tauVars, op, mtx, enabled, histVars>>

(* The timer to stop is on top.                                            *)
StopTop(t) ==
    /\ broken = "no"
    /\ op[t].stage = "stop"
    /\ stack[op[t].on] # <<>>
    /\ Top(op[t].on).func = op[t].fn
    /\ ProfilerStop(op[t].on, op[t].on)
    /\ Return(t)
    /\ UNCHANGED <<clock, appVars, mtx, enabled, broken, histVars>>

-----------------------------------------------------------------------------
(* Tau_stop_all_timers: by a thread that ends, for its own stack, and by   *)
(* thread 0 when the process exits, for every stack from the last id down  *)
(* (Tau_profile_exit_all_threads).                                         *)

StopAll(s) == [NoOp EXCEPT !.stage = "lock", !.on = s, !.all = TRUE]

\* Mutant: thread 0 starts one past the last thread.
EndThreadPastLast(t) ==
    /\ Idle(t)
    /\ phase[t] = "running"
    /\ t = 0 /\ JoinAll => \A r \in Real \ {0} : phase[r] = "done"
    /\ phase' = [phase EXCEPT ![t] = "ending"]
    /\ op' = [op EXCEPT ![t] = StopAll(IF t = 0 THEN NumThreads ELSE t)]
    /\ UNCHANGED <<clock, calls, enters, tauVars, mtx, enabled, broken, histVars>>

EndThread(t) ==
    /\ Idle(t)
    /\ phase[t] = "running"
    /\ t = 0 /\ JoinAll => \A r \in Real \ {0} : phase[r] = "done"
    /\ phase' = [phase EXCEPT ![t] = "ending"]
    /\ op' = [op EXCEPT ![t] = StopAll(IF t = 0 THEN NumThreads - 1 ELSE t)]
    /\ UNCHANGED <<clock, calls, enters, tauVars, mtx, enabled, broken, histVars>>

StopAllLock(t) ==
    /\ broken = "no"
    /\ op[t].stage = "lock"
    /\ mtx = {}
    /\ mtx' = {t}
    /\ op' = [op EXCEPT ![t].stage = "loop"]
    /\ UNCHANGED <<clock, appVars, tauVars, enabled, broken, histVars>>

(* The loop reads the timer on top and calls Tau_stop_timer for it.        *)
StopAllNext(t) ==
    /\ broken = "no"
    /\ op[t].stage = "loop"
    /\ stack[op[t].on] # <<>>
    /\ op' = [op EXCEPT ![t].stage = "call",
                        ![t].fn = Top(op[t].on).func,
                        ![t].pos = Len(stack[op[t].on])]
    /\ UNCHANGED <<clock, appVars, tauVars, mtx, enabled, broken, histVars>>

\* Mutant: the loop relies on Tau_stop_timer to shrink the stack.
StopAllCheckTrusting(t) ==
    /\ broken = "no"
    /\ op[t].stage = "check"
    /\ op' = [op EXCEPT ![t].stage = "loop"]
    /\ UNCHANGED <<clock, appVars, tauVars, mtx, enabled, broken, histVars>>

(* A stack that did not shrink loses its top without a Profiler::Stop.     *)
StopAllCheck(t) ==
    /\ broken = "no"
    /\ op[t].stage = "check"
    /\ op' = [op EXCEPT ![t].stage = "loop"]
    /\ stack' = IF Len(stack[op[t].on]) = op[t].pos
                THEN [stack EXCEPT ![op[t].on] = Pop(op[t].on)] ELSE stack
    /\ UNCHANGED <<clock, appVars, metrics, disabled, dirty, mtx, enabled, broken, histVars>>

(* The stack is empty.  Thread 0 goes on to the next one; after its own it *)
(* shuts TAU down.                                                         *)
StopAllDone(t) ==
    /\ broken = "no"
    /\ op[t].stage = "loop"
    /\ stack[op[t].on] = <<>>
    /\ mtx' = {}
    /\ IF t = 0 /\ op[t].on > 0
       THEN /\ op' = [op EXCEPT ![t] = StopAll(op[t].on - 1)]
            /\ UNCHANGED <<phase, enabled>>
       ELSE /\ op' = [op EXCEPT ![t] = NoOp]
            /\ phase' = [phase EXCEPT ![t] = "done"]
            /\ enabled' = (enabled /\ t # 0)
    /\ UNCHANGED <<clock, calls, enters, tauVars, broken, histVars>>

-----------------------------------------------------------------------------
(* Tau_disable_instrumentation and Tau_enable_instrumentation, which an    *)
(* application calls around a part of one thread's work.                   *)
Toggle(t) ==
    /\ Toggles
    /\ Idle(t)
    /\ phase[t] = "running"
    /\ enabled' = ~enabled
    /\ UNCHANGED <<clock, appVars, tauVars, op, mtx, broken, histVars>>

\* Mutant: the timers that are running do not count as subroutine calls.
PurgedNoSubrs(q, m) ==
    [f \in Timers |->
       LET I == {i \in 1 .. Len(q) : q[i].func = f}
       IN [m[f] EXCEPT !.calls = Cardinality(I), !.subrs = 0, !.incl = 0, !.excl = 0]]

\* The numbers start over as if the timers on the stack had just been started.
Purged(q, m) ==
    [f \in Timers |->
       LET I == {i \in 1 .. Len(q) : q[i].func = f}
       IN [m[f] EXCEPT !.calls = Cardinality(I), !.subrs = Cardinality(I \ {Len(q)}),
                       !.incl = 0, !.excl = 0]]

\* The i-th timer of a stack reads the clock again; by then the timer above it
\* has been running for a while.
Restarted(q, i) == IF i \in 1 .. Len(q) THEN [q EXCEPT ![i].start = clock] ELSE q

Behind(q, i) == IF i < Len(q) THEN clock - q[i + 1].start ELSE 0

\* The stop of the purge's loop: pos is the timer that is next to start over.
\* Mutant: only the innermost timer starts over.
PurgeFromInnermost(t, pos) == NoOp

PurgeFrom(t, pos) ==
    IF pos > 0 THEN [NoOp EXCEPT !.stage = "purge", !.on = t, !.pos = pos] ELSE NoOp

(* TauProfiler_PurgeData, which an application calls to forget what its    *)
(* thread has recorded so far.  Nobody reads the numbers before it gives   *)
(* the database lock back, so they start over in one step; the innermost   *)
(* timer starts over now, ...                                              *)
Purge(t) ==
    /\ Purges
    /\ Idle(t)
    /\ phase[t] = "running"
    /\ op' = [op EXCEPT ![t] = PurgeFrom(t, Len(stack[t]) - 1)]
    /\ stack' = [stack EXCEPT ![t] = Restarted(@, Len(@))]
    /\ metrics' = [metrics EXCEPT ![t] = Purged(stack[t], @)]
    /\ dirty' = [dirty EXCEPT ![t] = TRUE]
    /\ self' = [self EXCEPT ![t] = [f \in Timers |-> 0]]
    /\ present' = [present EXCEPT ![t] = [f \in Timers |-> 0]]
    /\ lost' = [lost EXCEPT ![t] = [f \in Timers |-> 0]]
    /\ took' = [took EXCEPT ![t] = 0]
    /\ UNCHANGED <<clock, appVars, disabled, mtx, enabled, broken>>

(* ... and the timers below it one after the other, outwards, each at its  *)
(* own reading of the clock.  A function's time starts over with its       *)
(* outermost timer.                                                        *)
RestartNext(t) ==
    /\ broken = "no"
    /\ op[t].stage = "purge"
    /\ LET p == op[t].pos
           Below(f) == \E i \in 1 .. p : i \in DOMAIN stack[t] /\ stack[t][i].func = f
       IN /\ op' = [op EXCEPT ![t] = PurgeFrom(t, p - 1)]
          /\ stack' = [stack EXCEPT ![t] = Restarted(@, p)]
          /\ lost' = [lost EXCEPT ![t] = [f \in Timers |->
                IF p <= Len(stack[t]) /\ stack[t][p].func = f
                THEN @[f] + Behind(stack[t], p) ELSE @[f]]]
          /\ present' = [present EXCEPT ![t] = [f \in Timers |->
                IF Below(f) THEN 0 ELSE @[f]]]
    /\ UNCHANGED <<clock, appVars, metrics, disabled, dirty, mtx, enabled, broken, self, took>>

\* The timers of stack s, counted from the outermost, that a purge under way has
\* still to restart.
Low(s) == IF s \in Real /\ op[s].stage = "purge" THEN op[s].pos ELSE 0

(* Time passes: it belongs to the timer on top of each stack, and to every *)
(* function on it.                                                         *)
Tick ==
    /\ broken = "no"
    /\ clock < MaxTime
    /\ clock' = clock + 1
    /\ self' = [s \in Tids |-> [f \in Timers |->
          IF stack[s] # <<>> /\ Top(s).func = f THEN self[s][f] + 1 ELSE self[s][f]]]
    /\ present' = [s \in Tids |-> [f \in Timers |->
          IF \E i \in 1 .. Len(stack[s]) : stack[s][i].func = f
          THEN present[s][f] + 1 ELSE present[s][f]]]
    /\ took' = [s \in Tids |-> IF Low(s) > 0 THEN took[s] + 1 ELSE took[s]]
    /\ UNCHANGED <<appVars, tauVars, op, mtx, enabled, broken, lost>>

(* The process has exited, or was aborted.                                 *)
Finished == (phase[0] = "done" \/ broken # "no") /\ UNCHANGED vars

StopStep(t) == StopCall(t) \/ PopThrottled(t) \/ StopTop(t) \/ Overlap(t)

StopAllStep(t) == StopAllLock(t) \/ StopAllNext(t) \/ StopAllCheck(t) \/ StopAllDone(t)

Next ==
    \/ \E t \in Real :
         \/ \E s \in Tids : Begin(t, s) \/ Leave(t, s) \/ \E f \in Funcs : Enter(t, s, f)
         \/ StopStep(t) \/ StopAllStep(t)
         \/ EndThread(t) \/ Toggle(t) \/ Purge(t) \/ RestartNext(t)
    \/ Tick
    \/ Finished

Spec == Init /\ [][Next]_vars

\* A thread that is inside TAU, and a thread that has begun to end, go on.
FairSpec ==
    /\ Spec
    /\ \A t \in Real : /\ WF_vars(StopStep(t)) /\ WF_vars(StopAllStep(t))
                       /\ WF_vars(RestartNext(t))

-----------------------------------------------------------------------------
(* Properties.                                                             *)

Entries == [func : Timers, start : Nat, addIncl : BOOLEAN, depth : Nat]

Metrics == [calls : Nat, subrs : Nat, incl : Int, excl : Int, onStack : BOOLEAN]

Ops == [stage : {"idle", "call", "stop", "lock", "loop", "check", "purge"}, fn : Timers,
        on : Tids, all : BOOLEAN, pos : Nat]

TypeOK ==
    /\ clock \in Nat
    /\ calls \in [Tids -> Seq(Timers)]
    /\ enters \in [Tids -> Nat]
    /\ phase \in [Tids -> {"new", "running", "ending", "done"}]
    /\ stack \in [Tids -> Seq(Entries)]
    /\ op \in [Real -> Ops]
    /\ mtx \in SUBSET Real
    /\ metrics \in [Tids -> [Timers -> Metrics]]
    /\ disabled \in SUBSET Timers
    /\ enabled \in BOOLEAN
    /\ dirty \in [Tids -> BOOLEAN]
    /\ broken \in {"no", "overlap", "underrun"}
    /\ self \in [Tids -> [Timers -> Nat]]
    /\ present \in [Tids -> [Timers -> Nat]]
    /\ lost \in [Tids -> [Timers -> Int]]
    /\ took \in [Tids -> Nat]

\* A properly nested application is never aborted: a timer that another thread
\* throttled while it ran may stay on the stack after its function returned,
\* but it never makes a later Tau_stop_timer report an overlap.
NoOverlap == broken = "no"

\* The on-stack mark of a function is set exactly while it is on the stack, and
\* then exactly its lowest activation carries the AddInclFlag: otherwise its
\* inclusive time is lost or counted twice.  (When a thread has ended, throttled
\* functions that were popped instead of stopped keep their marks.)
OnStackMark ==
    \A s \in {r \in Tids : phase[r] = "running"}, f \in Timers :
       LET Is(i) == stack[s][i].func = f
           I == {i \in 1 .. Len(stack[s]) : Is(i)}
       IN /\ metrics[s][f].onStack <=> I # {}
          /\ \A i \in I : stack[s][i].addIncl <=> \A j \in I : i <= j

\* Exclusive time of a function, were all timers stopped now.  The open part of
\* an activation ends where the timer above it starts.
OpenSelf(s, i) == (IF i < Len(stack[s]) THEN stack[s][i + 1].start ELSE clock)
                  - stack[s][i].start

\* The times TAU records, whatever the interleaving, recursion and throttling: a
\* function's inclusive time, with the open part of its outermost activation, is
\* the time it was on the stack, and its exclusive time, with the open parts of
\* its running activations, is the time it spent on top of it, but for what a
\* purge lost (it restarts a timer after its child, whose whole time the timer is
\* charged for).  What it lost is never negative, and in all it is exactly the
\* time the purge took: without one, or with one faster than the clock's tick, the
\* times are exact.
TimesExact ==
    \A s \in {r \in Tids : phase[r] = "running" /\ Low(r) = 0} :
       /\ \A f \in Timers :
             LET I == {i \in 1 .. Len(stack[s]) : stack[s][i].func = f}
             IN /\ self[s][f] - lost[s][f]
                      = metrics[s][f].excl + SumOf([i \in I |-> OpenSelf(s, i)])
                /\ lost[s][f] >= 0
                /\ present[s][f] = metrics[s][f].incl
                             + (IF I = {} THEN 0 ELSE clock - stack[s][Min(I)].start)
       /\ SumOf(lost[s]) = took[s]

\* Every call but the outermost ones of a thread is some timer's subroutine
\* call, so the two counts of the profile agree.
CallsAndSubrs ==
    \A s \in Tids :
       phase[s] # "new" =>
          SumOf([f \in Timers |-> metrics[s][f].calls])
            = 1 + SumOf([f \in Timers |-> metrics[s][f].subrs])

\* TauProfiler_updateIntermediateStatistics: the values a dump writes for a
\* function that may still be running.
DumpedIncl(s, f) ==
    metrics[s][f].incl
      + (LET I == {i \in 1 .. Len(stack[s]) : stack[s][i].func = f}
         IN IF metrics[s][f].onStack /\ I # {} THEN clock - stack[s][Max(I)].start ELSE 0)

\* Mutant: the running child's time is not taken out.
DumpedExclWithChild(s, f) ==
    metrics[s][f].excl
      + (LET I == {i \in 1 .. Len(stack[s]) : stack[s][i].func = f}
         IN IF metrics[s][f].onStack /\ I # {} THEN clock - stack[s][Max(I)].start ELSE 0)

DumpedExcl(s, f) ==
    metrics[s][f].excl
      + (LET I == {i \in 1 .. Len(stack[s]) : stack[s][i].func = f}
         IN IF metrics[s][f].onStack /\ I # {} THEN OpenSelf(s, Max(I)) ELSE 0)

\* A profile dumped in mid-run (after a purge under way, whose lock the dump waits
\* for) is as exact as the final one, for every function that is on the stack at
\* most once.
DumpExact ==
    \A s \in {r \in Tids : phase[r] = "running" /\ Low(r) = 0}, f \in Timers :
       Cardinality({i \in 1 .. Len(stack[s]) : stack[s][i].func = f}) <= 1 =>
          DumpedIncl(s, f) = present[s][f] /\ DumpedExcl(s, f) = self[s][f] - lost[s][f]

\* When the process has exited, every thread's profile has been written after
\* the last time its numbers changed.
AllWritten == phase[0] = "done" => \A s \in Tids : ~dirty[s]

\* Stopping terminates: every stop that begins gives control back, and the end
\* of a thread empties its stack.
StopsReturn == \A t \in Real : op[t].stage # "idle" ~> op[t].stage = "idle" \/ broken # "no"

=============================================================================
