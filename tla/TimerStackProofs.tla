-------------------------- MODULE TimerStackProofs --------------------------
(***************************************************************************)
(* What holds of TAU's timers for any number of threads, functions and     *)
(* calls and any throttling thresholds: types, marks and stacks, that      *)
(* stops find their timers, and that the numbers TAU records are exact.    *)
(***************************************************************************)
EXTENDS TimerStack, SumsProofs, SequenceTheorems, TLAPS

-----------------------------------------------------------------------------
(* The operators of the timer stack.                                       *)

(* Popping a stack.                                                        *)
LEMMA PopProperties ==
    ASSUME NEW S, NEW q \in Seq(S), q # <<>>
    PROVE  /\ SubSeq(q, 1, Len(q) - 1) \in Seq(S)
           /\ Len(q) \in Nat \ {0}
           /\ Len(SubSeq(q, 1, Len(q) - 1)) = Len(q) - 1
           /\ \A i \in 1 .. Len(q) - 1 : SubSeq(q, 1, Len(q) - 1)[i] = q[i]
           /\ q[Len(q)] \in S
  <1>1. Len(q) \in Nat \ {0}
    BY EmptySeq
  <1>2. \A i \in 1 .. Len(q) : q[i] \in S
    BY ElementOfSeq
  <1>3. PICK n \in Nat : n = Len(q) - 1
    BY <1>1
  <1>4. Len(SubSeq(q, 1, n)) = n
    <2>1. \A i \in 1 .. n : q[i] \in S
      BY <1>2, <1>3
    <2> QED
      BY <2>1, SubSeqProperties
  <1>5. \A i \in 1 .. Len(q) - 1 : SubSeq(q, 1, Len(q) - 1)[i] = q[i]
    OBVIOUS
  <1> QED
    BY <1>1, <1>2, <1>3, <1>4, <1>5

(* Updating the numbers of a function.                                     *)
LEMMA UpdateMetrics ==
    ASSUME NEW m \in Metrics, NEW x \in Int, NEW i \in Int, NEW b \in BOOLEAN
    PROVE  [m EXCEPT !.excl = x, !.incl = i, !.onStack = b] \in Metrics
  BY DEF Metrics

(* Stopping a timer clears its function's on-stack mark when it was the    *)
(* outermost activation.                                                   *)
LEMMA AddTimesProperties ==
    ASSUME NEW m \in Metrics, NEW outermost \in BOOLEAN, NEW total \in Int
    PROVE  /\ AddTimes(m, outermost, total) \in Metrics
           /\ AddTimes(m, outermost, total).onStack = (m.onStack /\ ~outermost)
  <1>1. m.excl + total \in Int
    BY DEF Metrics
  <1>0. (IF outermost THEN m.incl + total ELSE m.incl) \in Int
    BY DEF Metrics
  <1>2. (m.onStack /\ ~outermost) \in BOOLEAN
    OBVIOUS
  <1>3. AddTimes(m, outermost, total) \in Metrics
    BY <1>0, <1>1, <1>2, UpdateMetrics DEF AddTimes
  <1>4. AddTimes(m, outermost, total).onStack = (m.onStack /\ ~outermost)
    BY DEF Metrics, AddTimes
  <1> QED
    BY <1>3, <1>4

(* Taking a child's time out of its parent's changes no on-stack mark.     *)
LEMMA ExcludeTimeProperties ==
    ASSUME NEW m \in Metrics, NEW total \in Int
    PROVE  /\ ExcludeTime(m, total) \in Metrics
           /\ ExcludeTime(m, total).onStack = m.onStack
  BY DEF Metrics, ExcludeTime

(* Counting a call sets the on-stack mark.                                 *)
LEMMA CountProperties ==
    ASSUME NEW m \in Metrics
    PROVE  /\ CountCall(m) \in Metrics /\ CountCall(m).onStack
           /\ CountSubr(m) \in Metrics /\ CountSubr(m).onStack = m.onStack
  <1>1. \A n \in Nat : [m EXCEPT !.calls = n, !.onStack = TRUE] \in Metrics
    BY DEF Metrics
  <1>2. m.calls + 1 \in Nat
    BY DEF Metrics
  <1>3. CountCall(m) \in Metrics
    BY <1>1, <1>2 DEF CountCall
  <1>4. CountCall(m).onStack
    BY DEF Metrics, CountCall
  <1> QED
    BY <1>3, <1>4 DEF Metrics, CountSubr

\* The part of TypeOK about what TAU records.
TauTypeOK == /\ stack \in [Tids -> Seq(Entries)]
             /\ metrics \in [Tids -> [Timers -> Metrics]]
             /\ disabled \in SUBSET Timers
             /\ dirty \in [Tids -> BOOLEAN]

\* One more entry on a stack, one less.
Pushed(s, e) == stack' = [stack EXCEPT ![s] = Append(@, e)]

Popped(s) == stack' = [stack EXCEPT ![s] = Pop(s)]

\* The numbers n differ from m in the on-stack mark of f, which is set, or
\* cleared, and in nothing else that matters to the marks.
MarkSet(m, n, f) == \A g \in Timers : n[g].onStack = IF g = f THEN TRUE ELSE m[g].onStack

MarkCleared(m, n, e) ==
    \A g \in Timers : n[g].onStack = IF g = e.func /\ e.addIncl THEN FALSE ELSE m[g].onStack

SameMark(m, n) == \A g \in Timers : n[g].onStack = m[g].onStack

(* A timer start.                                                          *)
LEMMA StartTimerEffect ==
    ASSUME TypeOK, NEW s \in Tids, NEW f \in Timers, NEW d \in Nat, StartTimer(s, f, d),
           ~IsThrottled(f)
    PROVE  /\ TauTypeOK'
           /\ \E e \in Entries : /\ e.func = f /\ e.depth = d /\ e.start = clock
                                 /\ e.addIncl = ~metrics[s][f].onStack
                                 /\ Pushed(s, e)
           /\ disabled' = disabled
           /\ MarkSet(metrics[s], metrics'[s], f)
           /\ \A r \in Tids \ {s} : SameMark(metrics[r], metrics'[r])
  <1>1. PICK e \in Entries : /\ e.func = f /\ e.depth = d /\ e.start = clock
                             /\ e.addIncl = ~metrics[s][f].onStack
                             /\ Pushed(s, e)
    <2> DEFINE e == [func |-> f, start |-> clock, addIncl |-> ~metrics[s][f].onStack, depth |-> d]
    <2>1. e \in Entries
      BY DEF TypeOK, Entries, Metrics
    <2>2. Pushed(s, e)
      BY DEF StartTimer, Pushed
    <2> QED
      BY <2>1, <2>2
  <1>2. stack' \in [Tids -> Seq(Entries)]
    <2>1. Append(stack[s], e) \in Seq(Entries)
      BY AppendProperties DEF TypeOK
    <2> QED
      BY <1>1, <2>1 DEF TypeOK, Pushed
  <1> DEFINE counted == [metrics[s] EXCEPT ![f] = CountCall(@)]
  <1>3. /\ counted \in [Timers -> Metrics]
        /\ \A g \in Timers : counted[g].onStack = IF g = f THEN TRUE ELSE metrics[s][g].onStack
    <2>1. metrics[s] \in [Timers -> Metrics] /\ metrics[s][f] \in Metrics
      BY DEF TypeOK
    <2>2. CountCall(metrics[s][f]) \in Metrics /\ CountCall(metrics[s][f]).onStack = TRUE
      BY <2>1, CountProperties DEF Metrics
    <2> QED
      BY <2>1, <2>2
  <1>4. PICK new \in [Timers -> Metrics] :
           /\ metrics' = [metrics EXCEPT ![s] = new]
           /\ \A g \in Timers : new[g].onStack = IF g = f THEN TRUE ELSE metrics[s][g].onStack
    <2> HIDE DEF counted
    <2>1. metrics' = [metrics EXCEPT ![s] = IF stack[s] = <<>> THEN counted
                                            ELSE [counted EXCEPT ![Top(s).func] = CountSubr(@)]]
      BY DEF StartTimer, counted
    <2>2. CASE stack[s] = <<>>
      BY <1>3, <2>1, <2>2
    <2>3. CASE stack[s] # <<>>
      <3>1. Top(s).func \in Timers
        <4>1. stack[s] \in Seq(Entries)
          BY DEF TypeOK
        <4>2. Top(s) \in Entries
          BY <2>3, <4>1, PopProperties DEF Top
        <4> QED
          BY <4>2 DEF Entries
      <3>2. CountSubr(counted[Top(s).func]) \in Metrics
            /\ CountSubr(counted[Top(s).func]).onStack = counted[Top(s).func].onStack
        BY <1>3, <3>1, CountProperties
      <3> DEFINE c == [counted EXCEPT ![Top(s).func] = CountSubr(@)]
      <3>3. c \in [Timers -> Metrics] /\ \A g \in Timers : c[g].onStack = counted[g].onStack
        BY <1>3, <3>1, <3>2
      <3>4. metrics' = [metrics EXCEPT ![s] = c]
        BY <2>1, <2>3
      <3> HIDE DEF c
      <3>5. \A g \in Timers : c[g].onStack = IF g = f THEN TRUE ELSE metrics[s][g].onStack
        BY <1>3, <3>3
      <3> QED
        BY <3>3, <3>4, <3>5
    <2> QED
      BY <2>2, <2>3
  <1>5. /\ metrics' \in [Tids -> [Timers -> Metrics]]
        /\ \A r \in Tids, g \in Timers :
              metrics'[r][g].onStack = IF r = s /\ g = f THEN TRUE ELSE metrics[r][g].onStack
    BY <1>4 DEF TypeOK
  <1>6. disabled' = disabled /\ dirty' \in [Tids -> BOOLEAN]
    BY DEF StartTimer, TypeOK
  <1>7. TauTypeOK'
    BY <1>2, <1>5, <1>6 DEF TauTypeOK, TypeOK
  <1>8. /\ MarkSet(metrics[s], metrics'[s], f)
        /\ \A r \in Tids \ {s} : SameMark(metrics[r], metrics'[r])
    BY <1>5 DEF MarkSet, SameMark
  <1> QED
    BY <1>1, <1>6, <1>7, <1>8

(* Profiler::Stop.                                                         *)
LEMMA ProfilerStopEffect ==
    ASSUME TypeOK, NEW s \in Tids, NEW a \in Tids, stack[s] # <<>>, ProfilerStop(s, a)
    PROVE  /\ TauTypeOK'
           /\ Popped(s)
           /\ disabled \subseteq disabled'
           /\ MarkCleared(metrics[a], metrics'[a], Top(s))
           /\ \A r \in Tids \ {a} : SameMark(metrics[r], metrics'[r])
  <1> DEFINE e == Top(s)
             total == clock - e.start
             stopped == [metrics[a] EXCEPT ![e.func] = AddTimes(@, e.addIncl, total)]
             m == IF Len(stack[s]) = 1 THEN stopped
                  ELSE [stopped EXCEPT ![Parent(s).func] = ExcludeTime(@, total)]
             after == [dirty EXCEPT ![a] = TRUE]
  <1>1. e \in Entries /\ Pop(s) \in Seq(Entries) /\ stack[s] \in Seq(Entries)
        /\ Len(stack[s]) \in Nat \ {0}
    BY PopProperties DEF TypeOK, Top, Pop
  <1>2. total \in Int /\ e.func \in Timers /\ e.addIncl \in BOOLEAN
    BY <1>1 DEF Entries, TypeOK
  <1>3. /\ metrics' = [metrics EXCEPT ![a] = m]
        /\ disabled' = IF Throttles(e, m[e.func]) THEN disabled \cup {e.func} ELSE disabled
        /\ dirty' = IF Len(stack[s]) = 1 /\ (Recycle => a = 0) THEN StoreData(a, after)
                    ELSE after
        /\ Popped(s)
    BY DEF ProfilerStop, Popped
  <1> HIDE DEF e, total
  <1>4. /\ stopped \in [Timers -> Metrics]
        /\ \A g \in Timers : stopped[g].onStack
              = IF g = e.func /\ e.addIncl THEN FALSE ELSE metrics[a][g].onStack
    <2>1. metrics[a] \in [Timers -> Metrics] /\ metrics[a][e.func] \in Metrics
      BY <1>2 DEF TypeOK
    <2>2. /\ AddTimes(metrics[a][e.func], e.addIncl, total) \in Metrics
          /\ AddTimes(metrics[a][e.func], e.addIncl, total).onStack
               = (metrics[a][e.func].onStack /\ ~e.addIncl)
      BY <1>2, <2>1, AddTimesProperties
    <2>3. AddTimes(metrics[a][e.func], e.addIncl, total).onStack
               = IF e.addIncl THEN FALSE ELSE metrics[a][e.func].onStack
      BY <1>2, <2>1, <2>2 DEF Metrics
    <2> QED
      BY <1>2, <2>1, <2>2, <2>3
  <1> HIDE DEF stopped
  <1>5. /\ m \in [Timers -> Metrics]
        /\ \A g \in Timers : m[g].onStack = stopped[g].onStack
    <2>1. CASE Len(stack[s]) = 1
      BY <1>4, <2>1
    <2>2. CASE Len(stack[s]) # 1
      <3>1. Len(stack[s]) - 1 \in 1 .. Len(stack[s])
        <4>1. \A L \in Nat : L # 0 /\ L # 1 => L - 1 \in 1 .. L
          OBVIOUS
        <4> QED
          BY <1>1, <2>2, <4>1
      <3>2. Parent(s) \in Entries
        BY <1>1, <3>1, ElementOfSeq DEF Parent
      <3>3. Parent(s).func \in Timers
        BY <3>2 DEF Entries
      <3>4. /\ ExcludeTime(stopped[Parent(s).func], total) \in Metrics
            /\ ExcludeTime(stopped[Parent(s).func], total).onStack
                 = stopped[Parent(s).func].onStack
        BY <1>2, <1>4, <3>3, ExcludeTimeProperties
      <3> QED
        BY <1>4, <2>2, <3>3, <3>4
    <2> QED
      BY <2>1, <2>2
  <1> HIDE DEF m
  <1>6. /\ metrics' \in [Tids -> [Timers -> Metrics]]
        /\ \A r \in Tids, g \in Timers :
              metrics'[r][g].onStack = IF r = a /\ g = e.func /\ e.addIncl
                                       THEN FALSE ELSE metrics[r][g].onStack
    BY <1>3, <1>4, <1>5 DEF TypeOK
  <1>7. disabled' \in SUBSET Timers /\ disabled \subseteq disabled'
    BY <1>2, <1>3 DEF TypeOK
  <1>8. dirty' \in [Tids -> BOOLEAN]
    <2>1. after \in [Tids -> BOOLEAN]
      BY DEF TypeOK
    <2> HIDE DEF after
    <2>2. StoreData(a, after) \in [Tids -> BOOLEAN]
      BY <2>1 DEF StoreData
    <2> QED
      BY <1>3, <2>1, <2>2
  <1>9. stack' \in [Tids -> Seq(Entries)]
    BY <1>1, <1>3 DEF TypeOK, Popped
  <1>10. /\ MarkCleared(metrics[a], metrics'[a], e)
         /\ \A r \in Tids \ {a} : SameMark(metrics[r], metrics'[r])
    BY <1>6 DEF MarkCleared, SameMark
  <1> QED
    BY <1>3, <1>6, <1>7, <1>8, <1>9, <1>10 DEF TauTypeOK, e

-----------------------------------------------------------------------------
(* Type correctness.                                                       *)

(* The states of the type invariant, from those of TAU's own variables.    *)
LEMMA TypeFromParts ==
    ASSUME TauTypeOK', calls' \in [Tids -> Seq(Timers)], enters' \in [Tids -> Nat],
           phase' \in [Tids -> {"new", "running", "ending", "done"}], op' \in [Real -> Ops],
           clock' \in Nat, mtx' \in SUBSET Real, enabled' \in BOOLEAN,
           broken' \in {"no", "overlap", "underrun"},
           self' \in [Tids -> [Timers -> Nat]], present' \in [Tids -> [Timers -> Nat]],
           lost' \in [Tids -> [Timers -> Int]], took' \in [Tids -> Nat]
    PROVE  TypeOK'
  BY DEF TypeOK, TauTypeOK

(* A throttled timer that is started changes nothing.                      *)
LEMMA StartTimerType ==
    ASSUME TypeOK, NEW s \in Tids, NEW f \in Timers, NEW d \in Nat, StartTimer(s, f, d)
    PROVE  TauTypeOK'
  <1>1. CASE IsThrottled(f)
    BY <1>1 DEF StartTimer, tauVars, TypeOK, TauTypeOK
  <1> QED
    BY <1>1, StartTimerEffect

(* The states of a stop.                                                   *)
LEMMA OpType ==
    ASSUME TypeOK, NEW t \in Real
    PROVE  /\ op[t] \in Ops /\ NoOp \in Ops /\ t \in Tids
           /\ \A x \in {"idle", "call", "stop", "lock", "loop", "check", "purge"} :
                 [op EXCEPT ![t].stage = x] \in [Real -> Ops]
           /\ \A s \in Tids : StopAll(s) \in Ops
           /\ Return(t) => op' \in [Real -> Ops]
  <1>1. op[t] \in Ops /\ t \in Tids
    BY DEF TypeOK, Real
  <1>2. NoOp \in Ops
    <2>1. 0 \in Tids /\ App \in Timers
      BY TimerAssumption DEF TimerAssumption, Tids, Timers
    <2> QED
      BY <2>1 DEF NoOp, Ops
  <1>3. \A s \in Tids : StopAll(s) \in Ops
    BY <1>2 DEF StopAll, NoOp, Ops
  <1>4. \A x \in {"idle", "call", "stop", "lock", "loop", "check", "purge"} :
           [op[t] EXCEPT !.stage = x] \in Ops
    BY <1>1 DEF Ops
  <1>5. \A x \in {"idle", "call", "stop", "lock", "loop", "check", "purge"} :
           [op EXCEPT ![t].stage = x] \in [Real -> Ops]
    BY <1>4 DEF TypeOK
  <1>6. Return(t) => op' \in [Real -> Ops]
    <2>1. [op[t] EXCEPT !.stage = "check"] \in Ops
      BY <1>4
    <2> QED
      BY <1>2, <2>1 DEF Return, TypeOK
  <1> QED
    BY <1>1, <1>2, <1>3, <1>5, <1>6

(* A purge keeps the functions on the stack and their marks, and gives one *)
(* timer at a time a new start.                                            *)
LEMMA RestartedProperties ==
    ASSUME TypeOK, NEW q \in Seq(Entries), NEW i \in Int
    PROVE  /\ Restarted(q, i) \in Seq(Entries)
           /\ Len(Restarted(q, i)) = Len(q)
           /\ \A j \in 1 .. Len(q) :
                 /\ Restarted(q, i)[j].func = q[j].func
                 /\ Restarted(q, i)[j].addIncl = q[j].addIncl
                 /\ Restarted(q, i)[j].depth = q[j].depth
                 /\ Restarted(q, i)[j].start = IF j = i THEN clock ELSE q[j].start
  <1>1. PICK n \in Nat : n = Len(q)
    OBVIOUS
  <1>2. \A j \in 1 .. n : q[j] \in Entries
    BY <1>1, ElementOfSeq
  <1>3. CASE i \notin 1 .. Len(q)
    BY <1>1, <1>2, <1>3 DEF Restarted
  <1>4. CASE i \in 1 .. Len(q)
    <2> DEFINE e == [q[i] EXCEPT !.start = clock]
    <2>1. e \in Entries /\ e.func = q[i].func /\ e.addIncl = q[i].addIncl
          /\ e.depth = q[i].depth /\ e.start = clock
      BY <1>1, <1>2, <1>4 DEF Entries, TypeOK
    <2>2. Restarted(q, i) = [q EXCEPT ![i] = e]
      BY <1>4 DEF Restarted
    <2> HIDE DEF e
    <2>3. Restarted(q, i) \in Seq(Entries) /\ Len(Restarted(q, i)) = n
      BY <1>1, <1>4, <2>1, <2>2, ExceptSeq
    <2>4. \A j \in 1 .. n : Restarted(q, i)[j] = IF j = i THEN e ELSE q[j]
      BY <1>1, <1>4, <2>2, ExceptSeq
    <2> QED
      BY <1>1, <2>1, <2>3, <2>4
  <1> QED
    BY <1>3, <1>4

(* Its numbers are within their types, and the marks stay as they are.     *)
LEMMA PurgedProperties ==
    ASSUME NEW q \in Seq(Entries), NEW m \in [Timers -> Metrics]
    PROVE  Purged(q, m) \in [Timers -> Metrics] /\ SameMark(m, Purged(q, m))
  <1> DEFINE I(f) == {i \in 1 .. Len(q) : q[i].func = f}
  <1>1. ASSUME NEW f \in Timers
        PROVE  Cardinality(I(f)) \in Nat /\ Cardinality(I(f) \ {Len(q)}) \in Nat
    <2>1. IsFiniteSet(1 .. Len(q))
      BY FS_Interval
    <2>2. IsFiniteSet(I(f)) /\ IsFiniteSet(I(f) \ {Len(q)})
      BY <2>1, FS_Subset
    <2> QED
      BY <2>2, FS_CardinalityType
  <1>2. Purged(q, m) = [f \in Timers |->
           [m[f] EXCEPT !.calls = Cardinality(I(f)), !.subrs = Cardinality(I(f) \ {Len(q)}),
                        !.incl = 0, !.excl = 0]]
    BY DEF Purged
  <1> HIDE DEF I
  <1>3. ASSUME NEW f \in Timers
        PROVE  /\ Purged(q, m)[f] \in Metrics
               /\ Purged(q, m)[f].onStack = m[f].onStack
    <2>1. Cardinality(I(f)) \in Nat /\ Cardinality(I(f) \ {Len(q)}) \in Nat
      BY <1>1, <1>3
    <2>2. Purged(q, m)[f] = [m[f] EXCEPT !.calls = Cardinality(I(f)),
                                         !.subrs = Cardinality(I(f) \ {Len(q)}),
                                         !.incl = 0, !.excl = 0]
      BY <1>2, <1>3
    <2>3. m[f] \in Metrics
      BY <1>3
    <2>4. PICK c \in Nat, d \in Nat : c = Cardinality(I(f)) /\ d = Cardinality(I(f) \ {Len(q)})
      BY <2>1
    <2>5. Purged(q, m)[f] = [m[f] EXCEPT !.calls = c, !.subrs = d, !.incl = 0, !.excl = 0]
      BY <2>2, <2>4
    <2>6. Purged(q, m)[f] = [calls |-> c, subrs |-> d, incl |-> 0, excl |-> 0,
                             onStack |-> m[f].onStack]
      BY <2>3, <2>5 DEF Metrics
    <2> QED
      BY <2>3, <2>6 DEF Metrics
  <1> QED
    BY <1>2, <1>3 DEF SameMark

\* Two stacks that differ in the start times only.
SameTimers(p, q) ==
    /\ Len(p) = Len(q) /\ (p = <<>> <=> q = <<>>)
    /\ \A i \in 1 .. Len(q) : /\ p[i].func = q[i].func
                              /\ p[i].addIncl = q[i].addIncl
                              /\ p[i].depth = q[i].depth

(* The two steps of a purge: some timer of the thread's own stack gets a    *)
(* new start, and the thread is at the next one or outside TAU.            *)
LEMMA PurgeStep ==
    ASSUME TypeOK, NEW t \in Real, Purge(t) \/ RestartNext(t)
    PROVE  /\ t \in Tids
           /\ \E i \in Int : stack' = [stack EXCEPT ![t] = Restarted(stack[t], i)]
           /\ op' \in [Real -> Ops] /\ \A r \in Real \ {t} : op'[r] = op[r]
           /\ op'[t].stage \in {"idle", "purge"} /\ ~op'[t].all
           /\ op'[t].stage = "purge" => op'[t].on = t
           /\ Purge(t) => op[t].stage = "idle" /\ phase[t] = "running"
           /\ RestartNext(t) => op[t].stage = "purge"
           /\ UNCHANGED <<clock, calls, enters, phase, disabled, mtx, enabled, broken>>
           /\ TauTypeOK'
           /\ \A s \in Tids : /\ SameMark(metrics[s], metrics'[s])
                              /\ SameTimers(stack'[s], stack[s])
           /\ \A r \in Tids \ {t} : /\ stack'[r] = stack[r] /\ metrics'[r] = metrics[r]
                                    /\ dirty'[r] = dirty[r]
  <1>1. /\ t \in Tids /\ stack[t] \in Seq(Entries) /\ metrics[t] \in [Timers -> Metrics]
        /\ op[t] \in Ops /\ op[t].pos \in Int
    BY DEF TypeOK, Real, Ops
  <1>2. \A p \in Int : /\ PurgeFrom(t, p) \in Ops /\ ~PurgeFrom(t, p).all
                       /\ PurgeFrom(t, p).stage \in {"idle", "purge"}
                       /\ PurgeFrom(t, p).stage = "purge" => PurgeFrom(t, p).on = t
    <2> SUFFICES ASSUME NEW p \in Int
                 PROVE  /\ PurgeFrom(t, p) \in Ops /\ ~PurgeFrom(t, p).all
                        /\ PurgeFrom(t, p).stage \in {"idle", "purge"}
                        /\ PurgeFrom(t, p).stage = "purge" => PurgeFrom(t, p).on = t
      OBVIOUS
    <2>1. CASE p > 0
      <3>1. PurgeFrom(t, p) = [stage |-> "purge", fn |-> App, on |-> t, all |-> FALSE, pos |-> p]
        BY <2>1 DEF PurgeFrom, NoOp
      <3>2. App \in Timers /\ p \in Nat
        BY <2>1 DEF Timers
      <3> QED
        BY <1>1, <3>1, <3>2 DEF Ops
    <2>2. CASE ~(p > 0)
      BY <2>2, OpType DEF PurgeFrom, NoOp
    <2> QED
      BY <2>1, <2>2
  <1>3. PICK p \in Int : op' = [op EXCEPT ![t] = PurgeFrom(t, p)]
    <2>1. Len(stack[t]) - 1 \in Int /\ op[t].pos - 1 \in Int
      BY <1>1
    <2> QED
      BY <2>1 DEF Purge, RestartNext
  <1>4. /\ op' \in [Real -> Ops] /\ op'[t] = PurgeFrom(t, p)
        /\ \A r \in Real \ {t} : op'[r] = op[r]
    BY <1>2, <1>3 DEF TypeOK
  <1>5. PICK i \in Int : stack' = [stack EXCEPT ![t] = Restarted(stack[t], i)]
    <2>1. Len(stack[t]) \in Int
      BY <1>1
    <2> QED
      BY <1>1, <2>1 DEF Purge, RestartNext
  <1>6. stack' \in [Tids -> Seq(Entries)]
    <2>1. Restarted(stack[t], i) \in Seq(Entries)
      BY <1>1, RestartedProperties
    <2> QED
      BY <1>1, <1>5, <2>1 DEF TypeOK
  <1>7. metrics' \in [Tids -> [Timers -> Metrics]]
        /\ \A s \in Tids : SameMark(metrics[s], metrics'[s])
    <2>1. CASE Purge(t)
      <3>1. Purged(stack[t], metrics[t]) \in [Timers -> Metrics]
            /\ SameMark(metrics[t], Purged(stack[t], metrics[t]))
        BY <1>1, PurgedProperties
      <3>2. metrics' = [metrics EXCEPT ![t] = Purged(stack[t], metrics[t])]
        BY <2>1 DEF Purge
      <3>3. metrics' \in [Tids -> [Timers -> Metrics]]
        BY <1>1, <3>1, <3>2 DEF TypeOK
      <3>4. ASSUME NEW s \in Tids PROVE SameMark(metrics[s], metrics'[s])
        <4>1. CASE s = t
          BY <1>1, <3>1, <3>2, <4>1 DEF TypeOK
        <4>2. CASE s # t
          BY <1>1, <3>2, <4>2 DEF TypeOK, SameMark
        <4> QED
          BY <4>1, <4>2
      <3> QED
        BY <3>3, <3>4
    <2>2. CASE RestartNext(t)
      BY <2>2 DEF RestartNext, TypeOK, SameMark
    <2> QED
      BY <2>1, <2>2
  <1>8. /\ UNCHANGED <<clock, calls, enters, phase, disabled, mtx, enabled, broken>>
        /\ disabled' \in SUBSET Timers /\ dirty' \in [Tids -> BOOLEAN]
    BY DEF Purge, RestartNext, TypeOK, appVars
  <1>9. /\ Purge(t) => op[t].stage = "idle" /\ phase[t] = "running"
        /\ RestartNext(t) => op[t].stage = "purge"
    BY DEF Purge, RestartNext, Idle
  <1>10. \A r \in Tids \ {t} : stack'[r] = stack[r]
    BY <1>5 DEF TypeOK
  <1>11. \A r \in Tids \ {t} : metrics'[r] = metrics[r]
    BY DEF Purge, RestartNext, TypeOK
  <1>12. \A r \in Tids \ {t} : dirty'[r] = dirty[r]
    BY DEF Purge, RestartNext, TypeOK
  <1>13. ASSUME NEW s \in Tids PROVE SameTimers(stack'[s], stack[s])
    <2>1. CASE s # t
      BY <1>10, <2>1 DEF SameTimers
    <2>2. CASE s = t
      <3>1. stack'[t] = Restarted(stack[t], i)
        BY <1>1, <1>5 DEF TypeOK
      <3>2. /\ Restarted(stack[t], i) \in Seq(Entries)
            /\ Len(Restarted(stack[t], i)) = Len(stack[t])
            /\ \A j \in 1 .. Len(stack[t]) :
                  /\ Restarted(stack[t], i)[j].func = stack[t][j].func
                  /\ Restarted(stack[t], i)[j].addIncl = stack[t][j].addIncl
                  /\ Restarted(stack[t], i)[j].depth = stack[t][j].depth
        BY <1>1, RestartedProperties
      <3>3. Restarted(stack[t], i) = <<>> <=> stack[t] = <<>>
        BY <1>1, <3>2, EmptySeq
      <3> QED
        BY <2>2, <3>1, <3>2, <3>3 DEF SameTimers
    <2> QED
      BY <2>1, <2>2
  <1> QED
    BY <1>1, <1>2, <1>4, <1>5, <1>6, <1>7, <1>8, <1>9, <1>10, <1>11, <1>12, <1>13 DEF TauTypeOK

(* The variables start within their types.                                 *)
LEMMA InitType == Init => TypeOK
  <1> SUFFICES ASSUME Init PROVE TypeOK
    OBVIOUS
  <1>1. NoOp \in Ops
    <2>1. 0 \in Tids /\ App \in Timers
      BY TimerAssumption DEF TimerAssumption, Tids, Timers
    <2> QED
      BY <2>1 DEF NoOp, Ops
  <1>2. NoMetrics \in Metrics
    BY DEF NoMetrics, Metrics
  <1>3. <<>> \in Seq(Timers) /\ <<>> \in Seq(Entries)
    BY EmptySeq
  <1> QED
    BY <1>1, <1>2, <1>3 DEF Init, TypeOK

(* Every step keeps every variable within its type.                        *)
LEMMA NextType ==
    ASSUME TypeOK, [Next]_vars
    PROVE  TypeOK'
  <1>0. App \in Timers /\ Funcs \subseteq Timers
    BY DEF Timers
  <1>1. ASSUME NEW t \in Real, NEW s \in Tids, Begin(t, s) PROVE TypeOK'
    <2>1. TauTypeOK'
      BY <1>0, <1>1, StartTimerType DEF Begin
    <2>2. <<App>> \in Seq(Timers)
      BY <1>0
    <2>3. /\ calls' \in [Tids -> Seq(Timers)]
          /\ phase' \in [Tids -> {"new", "running", "ending", "done"}]
      BY <1>1, <2>2 DEF Begin, TypeOK
    <2> QED
      BY <1>1, <2>1, <2>3, TypeFromParts DEF Begin, TypeOK, histVars
  <1>2. ASSUME NEW t \in Real, NEW s \in Tids, NEW f \in Funcs, Enter(t, s, f) PROVE TypeOK'
    <2>1. Len(calls[s]) + 1 \in Nat /\ Append(calls[s], f) \in Seq(Timers)
      BY <1>0, AppendProperties DEF TypeOK
    <2>2. TauTypeOK'
      BY <1>0, <1>2, <2>1, StartTimerType DEF Enter
    <2>3. calls' \in [Tids -> Seq(Timers)]
      BY <1>2, <2>1 DEF Enter, TypeOK
    <2>4. enters' \in [Tids -> Nat]
      BY <1>2 DEF Enter, TypeOK
    <2> QED
      BY <1>2, <2>2, <2>3, <2>4, TypeFromParts DEF Enter, TypeOK, histVars
  <1>3. ASSUME NEW t \in Real, NEW s \in Tids, Leave(t, s) PROVE TypeOK'
    <2> DEFINE q == calls[s]
    <2>1. q \in Seq(Timers) /\ q # <<>>
      <3>1. q \in Seq(Timers) /\ Len(q) > 1
        BY <1>3 DEF Leave, TypeOK
      <3>2. Len(<<>>) = 0
        OBVIOUS
      <3> QED
        BY <3>1, <3>2
    <2> HIDE DEF q
    <2>2. SubSeq(q, 1, Len(q) - 1) \in Seq(Timers) /\ q[Len(q)] \in Timers
      BY <2>1, PopProperties
    <2>3. calls' \in [Tids -> Seq(Timers)]
      BY <1>3, <2>2 DEF Leave, TypeOK, q
    <2>4. [NoOp EXCEPT !.stage = "call", !.fn = q[Len(q)], !.on = s] \in Ops
      BY <2>2, OpType DEF NoOp, Ops
    <2>5. op' \in [Real -> Ops]
      BY <1>3, <2>4 DEF Leave, TypeOK, q
    <2> QED
      BY <1>3, <2>3, <2>5 DEF Leave, TypeOK, tauVars, histVars
  <1>4. ASSUME NEW t \in Real, StopCall(t) PROVE TypeOK'
    <2>1. op' \in [Real -> Ops]
      BY <1>4, OpType DEF StopCall
    <2> QED
      BY <1>4, <2>1 DEF StopCall, TypeOK, appVars, tauVars, histVars
  <1>5. ASSUME NEW t \in Real, PopThrottled(t) PROVE TypeOK'
    <2>1. TauTypeOK'
      BY <1>5, OpType, ProfilerStopEffect DEF PopThrottled, Ops
    <2> QED
      BY <1>5, <2>1, TypeFromParts DEF PopThrottled, TypeOK, appVars, histVars
  <1>6. ASSUME NEW t \in Real, Overlap(t) PROVE TypeOK'
    BY <1>6 DEF Overlap, TypeOK, appVars, tauVars, histVars
  <1>7. ASSUME NEW t \in Real, StopTop(t) PROVE TypeOK'
    <2>1. TauTypeOK' /\ op' \in [Real -> Ops]
      BY <1>7, OpType, ProfilerStopEffect DEF StopTop, Ops
    <2> QED
      BY <1>7, <2>1, TypeFromParts DEF StopTop, TypeOK, appVars, histVars
  <1>8. ASSUME NEW t \in Real, EndThread(t) PROVE TypeOK'
    <2>1. (IF t = 0 THEN NumThreads - 1 ELSE t) \in Tids
      BY TimerAssumption DEF TimerAssumption, Tids, Real
    <2>2. StopAll(IF t = 0 THEN NumThreads - 1 ELSE t) \in Ops
      BY <2>1, OpType
    <2> QED
      BY <1>8, <2>2 DEF EndThread, TypeOK, tauVars, histVars
  <1>9. ASSUME NEW t \in Real, StopAllLock(t) PROVE TypeOK'
    BY <1>9, OpType DEF StopAllLock, TypeOK, appVars, tauVars, histVars
  <1>10. ASSUME NEW t \in Real, StopAllNext(t) PROVE TypeOK'
    <2> DEFINE q == stack[op[t].on]
    <2>1. op[t] \in Ops /\ op[t].on \in Tids
      BY OpType DEF Ops
    <2>2. q \in Seq(Entries) /\ q # <<>>
      BY <1>10, <2>1 DEF StopAllNext, TypeOK
    <2>3. Top(op[t].on).func \in Timers /\ Len(q) \in Nat
      <3>1. Top(op[t].on) \in Entries /\ Len(q) \in Nat
        BY <2>2, PopProperties DEF Top
      <3> QED
        BY <3>1 DEF Entries
    <2>4. [op[t] EXCEPT !.stage = "call", !.fn = Top(op[t].on).func, !.pos = Len(q)] \in Ops
      BY <2>1, <2>3 DEF Ops
    <2>5. op' \in [Real -> Ops]
      BY <1>10, <2>4 DEF StopAllNext, TypeOK
    <2> QED
      BY <1>10, <2>5 DEF StopAllNext, TypeOK, appVars, tauVars, histVars
  <1>11. ASSUME NEW t \in Real, StopAllCheck(t) PROVE TypeOK'
    <2>1. op' \in [Real -> Ops]
      BY <1>11, OpType DEF StopAllCheck
    <2>2. \A s \in Tids : Pop(s) \in Seq(Entries)
      <3> SUFFICES ASSUME NEW s \in Tids PROVE Pop(s) \in Seq(Entries)
        OBVIOUS
      <3>1. stack[s] \in Seq(Entries)
        BY DEF TypeOK
      <3>2. CASE stack[s] = <<>>
        <4>1. SubSeq(<<>>, 1, 0 - 1) = <<>> /\ Len(<<>>) = 0
          BY SubSeqEmpty
        <4> QED
          BY <3>1, <3>2, <4>1 DEF Pop
      <3>3. CASE stack[s] # <<>>
        BY <3>1, <3>3, PopProperties DEF Pop
      <3> QED
        BY <3>2, <3>3
    <2>3. stack' \in [Tids -> Seq(Entries)]
      <3>1. op[t].on \in Tids
        BY OpType DEF Ops
      <3> QED
        BY <1>11, <2>2, <3>1 DEF StopAllCheck, TypeOK
    <2> QED
      BY <1>11, <2>1, <2>3 DEF StopAllCheck, TypeOK, appVars, histVars
  <1>12. ASSUME NEW t \in Real, StopAllDone(t) PROVE TypeOK'
    <2>1. op[t].on \in Tids /\ NoOp \in Ops /\ t \in Tids
      BY OpType DEF Ops
    <2>2. op' \in [Real -> Ops]
      <3>1. CASE t = 0 /\ op[t].on > 0
        <4>1. op[t].on - 1 \in Tids
          BY <2>1, <3>1, TimerAssumption DEF TimerAssumption, Tids
        <4>2. StopAll(op[t].on - 1) \in Ops
          BY <4>1, OpType
        <4> QED
          BY <1>12, <3>1, <4>2 DEF StopAllDone, TypeOK
      <3>2. CASE ~(t = 0 /\ op[t].on > 0)
        BY <1>12, <2>1, <3>2 DEF StopAllDone, TypeOK
      <3> QED
        BY <3>1, <3>2
    <2>3. phase' \in [Tids -> {"new", "running", "ending", "done"}] /\ enabled' \in BOOLEAN
      BY <1>12, <2>1 DEF StopAllDone, TypeOK
    <2> QED
      BY <1>12, <2>2, <2>3 DEF StopAllDone, TypeOK, tauVars, histVars
  <1>13. ASSUME NEW t \in Real, Toggle(t) PROVE TypeOK'
    BY <1>13 DEF Toggle, TypeOK, appVars, tauVars, histVars
  <1>14. ASSUME Tick PROVE TypeOK'
    <2>1. self' \in [Tids -> [Timers -> Nat]] /\ took' \in [Tids -> Nat]
      BY <1>14 DEF Tick, TypeOK
    <2>2. present' \in [Tids -> [Timers -> Nat]]
      BY <1>14 DEF Tick, TypeOK
    <2> QED
      BY <1>14, <2>1, <2>2 DEF Tick, TypeOK, appVars, tauVars
  <1>15. CASE UNCHANGED vars
    BY <1>15 DEF vars, TypeOK, histVars
  <1>16. ASSUME NEW t \in Real, Purge(t) PROVE TypeOK'
    <2>1. [f \in Timers |-> 0] \in [Timers -> Nat] /\ [f \in Timers |-> 0] \in [Timers -> Int]
      OBVIOUS
    <2>2. self' \in [Tids -> [Timers -> Nat]]
      BY <1>16, <2>1 DEF Purge, TypeOK
    <2>3. present' \in [Tids -> [Timers -> Nat]]
      BY <1>16, <2>1 DEF Purge, TypeOK
    <2>4. lost' \in [Tids -> [Timers -> Int]]
      BY <1>16, <2>1 DEF Purge, TypeOK
    <2>5. took' \in [Tids -> Nat]
      BY <1>16 DEF Purge, TypeOK
    <2>6. UNCHANGED <<clock, calls, enters, phase, disabled, mtx, enabled, broken>>
          /\ TauTypeOK' /\ op' \in [Real -> Ops]
      BY <1>16, PurgeStep
    <2>7. /\ calls' \in [Tids -> Seq(Timers)] /\ enters' \in [Tids -> Nat]
          /\ phase' \in [Tids -> {"new", "running", "ending", "done"}]
          /\ clock' \in Nat /\ mtx' \in SUBSET Real /\ enabled' \in BOOLEAN
          /\ broken' \in {"no", "overlap", "underrun"}
      BY <2>6 DEF TypeOK
    <2> QED
      BY <2>2, <2>3, <2>4, <2>5, <2>6, <2>7, TypeFromParts
  <1>17. ASSUME NEW t \in Real, RestartNext(t) PROVE TypeOK'
    <2>1. PICK p \in Nat : p = op[t].pos
      BY OpType DEF Ops
    <2>2. t \in Tids /\ stack[t] \in Seq(Entries) /\ clock \in Int
      BY DEF TypeOK, Real
    <2>3. self' \in [Tids -> [Timers -> Nat]] /\ took' \in [Tids -> Nat]
      BY <1>17 DEF RestartNext, TypeOK
    <2>4. present' \in [Tids -> [Timers -> Nat]]
      BY <1>17 DEF RestartNext, TypeOK
    <2>6. UNCHANGED <<clock, calls, enters, phase, disabled, mtx, enabled, broken>>
          /\ TauTypeOK' /\ op' \in [Real -> Ops]
      BY <1>17, PurgeStep
    <2>7. /\ calls' \in [Tids -> Seq(Timers)] /\ enters' \in [Tids -> Nat]
          /\ phase' \in [Tids -> {"new", "running", "ending", "done"}]
          /\ clock' \in Nat /\ mtx' \in SUBSET Real /\ enabled' \in BOOLEAN
          /\ broken' \in {"no", "overlap", "underrun"}
      BY <2>6 DEF TypeOK
    <2>5. lost' \in [Tids -> [Timers -> Int]]
      <3>1. Behind(stack[t], p) \in Int
        <4>1. CASE p + 1 \in 1 .. Len(stack[t])
          <5>1. stack[t][p + 1] \in Entries
            BY <2>2, <4>1, ElementOfSeq
          <5> QED
            BY <2>2, <5>1 DEF Behind, Entries
        <4> QED
          BY <2>2, <4>1 DEF Behind
      <3> QED
        BY <1>17, <2>1, <2>2, <3>1 DEF RestartNext, TypeOK
    <2> QED
      BY <2>3, <2>4, <2>5, <2>6, <2>7, TypeFromParts
  <1> QED
    BY <1>1, <1>2, <1>3, <1>4, <1>5, <1>6, <1>7, <1>8, <1>9, <1>10, <1>11, <1>12, <1>13,
       <1>14, <1>15, <1>16, <1>17 DEF Next, StopStep, StopAllStep, Finished

(* Every variable stays within its type, whatever the threads do: in       *)
(* particular a stop always works on the stack of an existing thread.      *)
THEOREM TypeCorrect == Spec => []TypeOK
  BY InitType, NextType, PTL DEF Spec

-----------------------------------------------------------------------------
(* Who works on which stack, when main joins the other threads and there   *)
(* are no virtual threads.                                                 *)

Joined == JoinAll /\ Tasks = {}

\* A stop by a running thread is for its own stack; thread 0 visits the stacks
\* of the others when they are done.
Ownership ==
    \A t \in Tids :
       /\ op[t].stage # "idle" /\ ~op[t].all =>
             op[t].on = t /\ phase[t] = "running" /\ op[t].stage \in {"call", "stop", "purge"}
       /\ op[t].stage # "idle" /\ op[t].all =>
             /\ phase[t] = "ending" /\ op[t].stage # "purge"
             /\ \/ op[t].on = t
                \/ t = 0 /\ phase[op[t].on] = "done" /\ op[t].stage \in {"lock", "loop"}

\* A thread that has not begun, or is done, has no timers.
EmptyOutside == \A s \in Tids : phase[s] \in {"new", "done"} => stack[s] = <<>>

\* Main begins to end when the others are done, and they stay so.
MainLast == phase[0] \in {"ending", "done"} => \A r \in Tids \ {0} : phase[r] = "done"

Shape == Ownership /\ EmptyOutside /\ MainLast

(* Every thread is a real one.                                             *)
LEMMA RealIsTids == Joined => Real = Tids
  BY DEF Joined, Real

(* Thread 0 exists.                                                        *)
LEMMA MainIsThread == 0 \in Tids
  BY TimerAssumption DEF TimerAssumption, Tids

(* Nobody is inside TAU at first.                                          *)
LEMMA InitShape == ASSUME Joined, Init PROVE Shape
  BY RealIsTids, MainIsThread DEF Init, Shape, Ownership, EmptyOutside, MainLast, NoOp

(* Starting a timer, or popping one, leaves the other stacks alone.        *)
LEMMA OtherStacks ==
    ASSUME TypeOK, NEW s \in Tids,
           Popped(s) \/ \E f, d : StartTimer(s, f, d)
    PROVE  \A r \in Tids \ {s} : stack'[r] = stack[r]
  <1>1. CASE Popped(s)
    BY <1>1 DEF TypeOK, Popped
  <1>2. ASSUME NEW f, NEW d, StartTimer(s, f, d)
        PROVE  \A r \in Tids \ {s} : stack'[r] = stack[r]
    <2>1. stack' = stack \/ \E q : stack' = [stack EXCEPT ![s] = q]
      BY <1>2 DEF StartTimer, tauVars
    <2> QED
      BY <2>1 DEF TypeOK
  <1> QED
    BY <1>1, <1>2

(* What is left of the operation of a thread when a stop returns.          *)
LEMMA ReturnEffect ==
    ASSUME TypeOK, NEW t \in Real, Return(t)
    PROVE  /\ \A r \in Real \ {t} : op'[r] = op[r]
           /\ ~op[t].all => op'[t] = NoOp
           /\ op[t].all => /\ op'[t].stage = "check" /\ op'[t].all = op[t].all
                           /\ op'[t].on = op[t].on
                           /\ op'[t].fn = op[t].fn /\ op'[t].pos = op[t].pos
  <1>1. op \in [Real -> Ops] /\ op[t] \in Ops
    BY DEF TypeOK
  <1>2. op' = [op EXCEPT ![t] = IF op[t].all THEN [op[t] EXCEPT !.stage = "check"] ELSE NoOp]
    BY DEF Return
  <1>3. /\ \A r \in Real \ {t} : op'[r] = op[r]
        /\ op'[t] = IF op[t].all THEN [op[t] EXCEPT !.stage = "check"] ELSE NoOp
    BY <1>1, <1>2
  <1>4. CASE op[t].all
    <2>1. op'[t] = [op[t] EXCEPT !.stage = "check"]
      BY <1>3, <1>4
    <2> QED
      BY <1>1, <1>3, <1>4, <2>1 DEF Ops
  <1>5. CASE ~op[t].all
    BY <1>3, <1>5
  <1> QED
    BY <1>4, <1>5

(* Each step keeps to the stack its thread owns.                           *)
LEMMA NextShape ==
    ASSUME Joined, TypeOK, Shape, [Next]_vars
    PROVE  Shape'
  <1>0. Real = Tids /\ 0 \in Tids /\ JoinAll /\ \A t \in Tids : Drives(t) = {t}
    BY RealIsTids, MainIsThread DEF Joined, Drives
  <1> USE DEF Shape
  <1>1. ASSUME NEW t \in Tids, NEW s \in Tids, Begin(t, s) PROVE Shape'
    <2>1. s = t /\ phase[t] = "new" /\ op[t].stage = "idle"
      BY <1>0, <1>1 DEF Begin, Idle
    <2>2. phase' = [phase EXCEPT ![t] = "running"] /\ op' = op
      BY <1>1, <2>1 DEF Begin
    <2>3. \A r \in Tids \ {t} : stack'[r] = stack[r]
      <3>1. StartTimer(t, App, 1)
        BY <1>1, <2>1 DEF Begin
      <3> QED
        BY <3>1, OtherStacks
    <2>4. Ownership'
      BY <2>1, <2>2 DEF TypeOK, Ownership
    <2>5. EmptyOutside' /\ MainLast'
      BY <1>0, <2>1, <2>2, <2>3 DEF TypeOK, EmptyOutside, MainLast
    <2> QED
      BY <2>4, <2>5
  <1>2. ASSUME NEW t \in Tids, NEW s \in Tids, NEW f \in Funcs, Enter(t, s, f) PROVE Shape'
    <2>1. s = t /\ phase[t] = "running" /\ phase' = phase /\ op' = op
      BY <1>0, <1>2 DEF Enter
    <2>2. \A r \in Tids \ {t} : stack'[r] = stack[r]
      <3>1. StartTimer(t, f, Len(calls[s]) + 1)
        BY <1>2, <2>1 DEF Enter
      <3> QED
        BY <3>1, OtherStacks
    <2> QED
      BY <2>1, <2>2 DEF Ownership, EmptyOutside, MainLast
  <1>3. ASSUME NEW t \in Tids, NEW s \in Tids, Leave(t, s) PROVE Shape'
    <2>1. s = t /\ phase[t] = "running" /\ phase' = phase /\ stack' = stack
      BY <1>0, <1>3 DEF Leave, tauVars
    <2>2. op'[t].stage = "call" /\ op'[t].on = t /\ op'[t].all = FALSE
          /\ \A r \in Tids \ {t} : op'[r] = op[r]
      BY <1>0, <1>3, <2>1 DEF Leave, TypeOK, NoOp
    <2> QED
      BY <2>1, <2>2 DEF Ownership, EmptyOutside, MainLast
  <1>4. ASSUME NEW t \in Tids, StopCall(t) PROVE Shape'
    <2>1. op[t].stage = "call" /\ phase' = phase /\ stack' = stack /\ op[t] \in Ops
      BY <1>0, <1>4, OpType DEF StopCall, appVars, tauVars
    <2>3. Return(t) \/ op' = [op EXCEPT ![t].stage = "stop"]
      BY <1>4 DEF StopCall
    <2>2. \A r \in Tids \ {t} : op'[r] = op[r]
      BY <1>0, <2>3, ReturnEffect DEF TypeOK
    <2>4. \/ op'[t].stage = "idle"
          \/ /\ op'[t].on = op[t].on /\ op'[t].all = op[t].all
             /\ op'[t].stage = "stop" \/ (op'[t].stage = "check" /\ op[t].all)
      <3>1. CASE Return(t)
        <4>1. op[t].all \/ op'[t] = NoOp
          BY <1>0, <3>1, ReturnEffect
        <4>2. op[t].all => op'[t].stage = "check" /\ op'[t].on = op[t].on /\ op'[t].all = op[t].all
          BY <1>0, <3>1, ReturnEffect
        <4>3. NoOp.stage = "idle"
          BY DEF NoOp
        <4> QED
          BY <4>1, <4>2, <4>3
      <3>2. CASE op' = [op EXCEPT ![t].stage = "stop"]
        <4>1. op'[t].stage = "stop" /\ op'[t].on = op[t].on /\ op'[t].all = op[t].all
          BY <1>0, <2>1, <3>2 DEF TypeOK, Ops
        <4> QED
          BY <4>1
      <3> QED
        BY <2>3, <3>1, <3>2
    <2> QED
      BY <2>1, <2>2, <2>4 DEF Ownership, EmptyOutside, MainLast
  <1>5. ASSUME NEW t \in Tids, PopThrottled(t) PROVE Shape'
    <2>1. /\ op[t].on \in Tids /\ stack[op[t].on] # <<>> /\ phase' = phase /\ op' = op
          /\ Popped(op[t].on)
      BY <1>0, <1>5, OpType, ProfilerStopEffect DEF PopThrottled, appVars, Ops
    <2>2. \A r \in Tids \ {op[t].on} : stack'[r] = stack[r]
      BY <2>1, OtherStacks
    <2> QED
      BY <2>1, <2>2 DEF Ownership, EmptyOutside, MainLast
  <1>6. ASSUME NEW t \in Tids, Overlap(t) PROVE Shape'
    BY <1>6 DEF Overlap, appVars, tauVars, Ownership, EmptyOutside, MainLast
  <1>7. ASSUME NEW t \in Tids, StopTop(t) PROVE Shape'
    <2>1. /\ op[t].on \in Tids /\ stack[op[t].on] # <<>> /\ phase' = phase
          /\ Popped(op[t].on) /\ op[t].stage = "stop" /\ op[t] \in Ops
      BY <1>0, <1>7, OpType, ProfilerStopEffect DEF StopTop, appVars, Ops
    <2>2. \A r \in Tids \ {op[t].on} : stack'[r] = stack[r]
      BY <2>1, OtherStacks
    <2>4. Return(t)
      BY <1>7 DEF StopTop
    <2>3. \A r \in Tids \ {t} : op'[r] = op[r]
      BY <1>0, <2>4, ReturnEffect
    <2>5. \/ op'[t].stage = "idle"
          \/ /\ op'[t].on = op[t].on /\ op'[t].all = op[t].all
             /\ op[t].all /\ op'[t].stage = "check"
      <3>1. op[t].all \/ op'[t] = NoOp
        BY <1>0, <2>4, ReturnEffect
      <3>2. op[t].all => op'[t].stage = "check" /\ op'[t].on = op[t].on /\ op'[t].all = op[t].all
        BY <1>0, <2>4, ReturnEffect
      <3>3. NoOp.stage = "idle"
        BY DEF NoOp
      <3> QED
        BY <3>1, <3>2, <3>3
    <2> QED
      BY <2>1, <2>2, <2>3, <2>5 DEF Ownership, EmptyOutside, MainLast
  <1>8. ASSUME NEW t \in Tids, EndThread(t) PROVE Shape'
    <2>1. /\ phase[t] = "running" /\ phase' = [phase EXCEPT ![t] = "ending"] /\ stack' = stack
          /\ t = 0 => \A r \in Tids \ {0} : phase[r] = "done"
      BY <1>0, <1>8 DEF EndThread, tauVars
    <2>2. \A r \in Tids \ {t} : op'[r] = op[r]
      BY <1>0, <1>8 DEF EndThread, TypeOK
    <2>3. /\ op'[t].stage = "lock" /\ op'[t].all = TRUE
          /\ op'[t].on = IF t = 0 THEN NumThreads - 1 ELSE t
      BY <1>0, <1>8 DEF EndThread, TypeOK, StopAll, NoOp
    <2>4. NumThreads - 1 \in Tids
      BY TimerAssumption DEF TimerAssumption, Tids
    <2>7. phase'[t] = "ending" /\ \A r \in Tids \ {t} : phase'[r] = phase[r]
      BY <2>1 DEF TypeOK
    <2>8. op'[t].on = t \/ (t = 0 /\ phase'[op'[t].on] = "done")
      <3>1. CASE t = 0 /\ NumThreads - 1 # t
        BY <2>1, <2>3, <2>4, <2>7, <3>1
      <3>2. CASE t = 0 /\ NumThreads - 1 = t
        BY <2>3, <3>2
      <3>3. CASE t # 0
        BY <2>3, <3>3
      <3> QED
        BY <3>1, <3>2, <3>3
    <2>9. \A r \in Tids : op[r].on # t \/ op[r].stage = "idle" \/ ~op[r].all \/ r = t
      BY <2>1 DEF Ownership
    <2>5. Ownership'
      <3>1. ASSUME NEW r \in Tids \ {t}
            PROVE  /\ op'[r].stage # "idle" /\ ~op'[r].all =>
                      /\ op'[r].on = r /\ phase'[r] = "running"
                      /\ op'[r].stage \in {"call", "stop", "purge"}
                   /\ op'[r].stage # "idle" /\ op'[r].all =>
                      /\ phase'[r] = "ending" /\ op'[r].stage # "purge"
                      /\ \/ op'[r].on = r
                         \/ /\ r = 0 /\ phase'[op'[r].on] = "done"
                            /\ op'[r].stage \in {"lock", "loop"}
        <4>1. op[r] \in Ops /\ op[r].on \in Tids
          BY <1>0, OpType DEF Ops
        <4> QED
          BY <2>2, <2>7, <2>9, <3>1, <4>1 DEF Ownership
      <3> QED
        BY <2>3, <2>7, <2>8, <3>1 DEF Ownership
    <2>6. EmptyOutside' /\ MainLast'
      BY <1>0, <2>1 DEF TypeOK, EmptyOutside, MainLast
    <2> QED
      BY <2>5, <2>6
  <1>9. ASSUME NEW t \in Tids, StopAllLock(t) PROVE Shape'
    <2>1. op' = [op EXCEPT ![t].stage = "loop"] /\ op[t].stage = "lock"
          /\ phase' = phase /\ stack' = stack /\ op[t] \in Ops
      BY <1>0, <1>9, OpType DEF StopAllLock, appVars, tauVars
    <2>2. op'[t].stage = "loop" /\ op'[t].on = op[t].on /\ op'[t].all = op[t].all
          /\ \A r \in Tids \ {t} : op'[r] = op[r]
      BY <1>0, <2>1 DEF TypeOK, Ops
    <2> QED
      BY <2>1, <2>2 DEF Ownership, EmptyOutside, MainLast
  <1>10. ASSUME NEW t \in Tids, StopAllNext(t) PROVE Shape'
    <2>1. op[t].stage = "loop" /\ phase' = phase /\ stack' = stack /\ op[t] \in Ops
          /\ stack[op[t].on] # <<>> /\ op[t].on \in Tids
      BY <1>0, <1>10, OpType DEF StopAllNext, appVars, tauVars, Ops
    <2>2. op'[t].stage = "call" /\ op'[t].on = op[t].on /\ op'[t].all = op[t].all
          /\ \A r \in Tids \ {t} : op'[r] = op[r]
      BY <1>0, <1>10, <2>1 DEF StopAllNext, TypeOK, Ops
    <2>3. phase[op[t].on] # "done"
      BY <2>1 DEF EmptyOutside
    <2> QED
      BY <2>1, <2>2, <2>3 DEF Ownership, EmptyOutside, MainLast
  <1>11. ASSUME NEW t \in Tids, StopAllCheck(t) PROVE Shape'
    <2>1. op' = [op EXCEPT ![t].stage = "loop"] /\ op[t].stage = "check"
          /\ phase' = phase /\ op[t] \in Ops /\ op[t].on \in Tids
      BY <1>0, <1>11, OpType DEF StopAllCheck, appVars, Ops
    <2>2. op'[t].stage = "loop" /\ op'[t].on = op[t].on /\ op'[t].all = op[t].all
          /\ \A r \in Tids \ {t} : op'[r] = op[r]
      BY <1>0, <2>1 DEF TypeOK, Ops
    <2>3. op[t].on = t /\ phase[t] = "ending"
      BY <2>1 DEF Ownership
    <2>4. \A r \in Tids \ {t} : stack'[r] = stack[r]
      BY <1>11, <2>3 DEF StopAllCheck, TypeOK
    <2> QED
      BY <2>1, <2>2, <2>3, <2>4 DEF Ownership, EmptyOutside, MainLast
  <1>12. ASSUME NEW t \in Tids, StopAllDone(t) PROVE Shape'
    <2>1. op[t].stage = "loop" /\ stack[op[t].on] = <<>> /\ stack' = stack
          /\ op[t].on \in Tids /\ op[t].all /\ phase[t] = "ending"
      BY <1>0, <1>12, OpType DEF StopAllDone, tauVars, Ops, Ownership
    <2>2. CASE t = 0 /\ op[t].on > 0
      <3>1. op' = [op EXCEPT ![t] = StopAll(op[t].on - 1)] /\ phase' = phase
        BY <1>12, <2>2 DEF StopAllDone
      <3>2. op'[t].stage = "lock" /\ op'[t].all = TRUE /\ op'[t].on = op[t].on - 1
            /\ \A r \in Tids \ {t} : op'[r] = op[r]
        BY <1>0, <3>1 DEF TypeOK, StopAll, NoOp
      <3>3. op[t].on - 1 \in Tids
        BY <2>1, <2>2, TimerAssumption DEF TimerAssumption, Tids
      <3>4. op[t].on - 1 = t \/ phase[op[t].on - 1] = "done"
        BY <2>1, <2>2, <3>3 DEF MainLast
      <3>5. Ownership'
        <4>1. /\ op'[t].stage = "lock" /\ op'[t].all = TRUE /\ phase'[t] = "ending"
              /\ op'[t].on = t \/ (t = 0 /\ phase'[op'[t].on] = "done")
          BY <2>1, <2>2, <3>1, <3>2, <3>4
        <4> QED
          BY <3>1, <3>2, <4>1 DEF Ownership
      <3>6. EmptyOutside' /\ MainLast'
        BY <2>1, <3>1 DEF EmptyOutside, MainLast
      <3> QED
        BY <3>5, <3>6
    <2>3. CASE ~(t = 0 /\ op[t].on > 0)
      <3>1. op' = [op EXCEPT ![t] = NoOp] /\ phase' = [phase EXCEPT ![t] = "done"]
        BY <1>12, <2>3 DEF StopAllDone
      <3>2. op'[t].stage = "idle" /\ \A r \in Tids \ {t} : op'[r] = op[r]
        BY <1>0, <3>1 DEF TypeOK, NoOp
      <3>3. op[t].on = t
        <4>1. t = 0 => op[t].on = 0
          BY <2>1, <2>3 DEF Tids
        <4> QED
          BY <2>1, <4>1 DEF Ownership
      <3>4. Ownership'
        BY <3>1, <3>2 DEF TypeOK, Ownership
      <3>5. EmptyOutside' /\ MainLast'
        BY <1>0, <2>1, <3>1, <3>3 DEF TypeOK, EmptyOutside, MainLast
      <3> QED
        BY <3>4, <3>5
    <2> QED
      BY <2>2, <2>3
  <1>13. ASSUME NEW t \in Tids, Toggle(t) PROVE Shape'
    BY <1>13 DEF Toggle, appVars, tauVars, Ownership, EmptyOutside, MainLast
  <1>14. ASSUME Tick PROVE Shape'
    BY <1>14 DEF Tick, appVars, tauVars, Ownership, EmptyOutside, MainLast
  <1>15. CASE UNCHANGED vars
    BY <1>15 DEF vars, Ownership, EmptyOutside, MainLast
  <1>16. ASSUME NEW t \in Tids, Purge(t) \/ RestartNext(t) PROVE Shape'
    <2>1. /\ op[t] \in Ops
          /\ Purge(t) => op[t].stage = "idle" /\ phase[t] = "running"
          /\ RestartNext(t) => op[t].stage = "purge"
      BY <1>0, <1>16, PurgeStep DEF TypeOK
    <2>2. phase[t] = "running"
      BY <1>16, <2>1 DEF Ownership, Ops
    <2>3. /\ phase' = phase /\ \A r \in Tids \ {t} : op'[r] = op[r] /\ stack'[r] = stack[r]
          /\ op'[t].stage \in {"idle", "purge"} /\ ~op'[t].all
          /\ op'[t].stage = "purge" => op'[t].on = t
      BY <1>0, <1>16, PurgeStep
    <2> QED
      BY <2>2, <2>3 DEF Shape, Ownership, EmptyOutside, MainLast
  <1> QED
    BY <1>0, <1>1, <1>2, <1>3, <1>4, <1>5, <1>6, <1>7, <1>8, <1>9, <1>10, <1>11, <1>12,
       <1>13, <1>14, <1>15, <1>16 DEF Next, StopStep, StopAllStep, Finished

(* Each step keeps to the stack its thread owns, so Shape always holds.    *)
THEOREM KeepsToOwnStack == Joined => (Spec => [](TypeOK /\ Shape))
  <1> SUFFICES ASSUME Joined PROVE Spec => [](TypeOK /\ Shape)
    OBVIOUS
  <1>1. Init => TypeOK /\ Shape
    BY InitType, InitShape
  <1>2. TypeOK /\ Shape /\ [Next]_vars => TypeOK' /\ Shape'
    BY NextType, NextShape
  <1> QED
    BY <1>1, <1>2, PTL DEF Spec

-----------------------------------------------------------------------------
(* The on-stack marks.                                                     *)

\* The marks in m are those of the functions on the stack q, and the lowest
\* activation of each carries the AddInclFlag.
Marked(q, m) ==
    /\ \A f \in Timers : m[f].onStack <=> \E i \in 1 .. Len(q) : q[i].func = f
    /\ \A i \in 1 .. Len(q) :
          q[i].addIncl <=> \A j \in 1 .. Len(q) : q[j].func = q[i].func => i <= j

\* The end of a thread is another matter: what is left on its stack when the
\* stops are throttled is popped without a Profiler::Stop.
Marks == \A s \in Tids : phase[s] \in {"new", "running"} => Marked(stack[s], metrics[s])

(* Starting a timer.                                                       *)
LEMMA PushMarked ==
    ASSUME NEW q \in Seq(Entries), NEW e \in Entries, NEW m \in [Timers -> Metrics], NEW n,
           Marked(q, m), e.addIncl = ~m[e.func].onStack, MarkSet(m, n, e.func)
    PROVE  Marked(Append(q, e), n)
  <1> DEFINE p == Append(q, e)
  <1>1. PICK L \in Nat : L = Len(q)
    OBVIOUS
  <1>2. Len(p) = L + 1 /\ p[L + 1] = e /\ \A i \in 1 .. L : p[i] = q[i]
    BY <1>1
  <1>3. \A i \in 1 .. L + 1 : i \in 1 .. L \/ i = L + 1
    OBVIOUS
  <1>4. \A i \in 1 .. L : i \in 1 .. L + 1 /\ i <= L + 1 /\ ~(L + 1 <= i)
    OBVIOUS
  <1>5. L + 1 \in 1 .. L + 1 /\ L + 1 <= L + 1
    OBVIOUS
  <1>6. /\ \A f \in Timers : m[f].onStack <=> \E i \in 1 .. L : q[i].func = f
        /\ \A i \in 1 .. L : q[i].addIncl <=> \A j \in 1 .. L : q[j].func = q[i].func => i <= j
    BY <1>1 DEF Marked
  <1>7. e.func \in Timers /\ e.addIncl \in BOOLEAN /\ \A f \in Timers : m[f].onStack \in BOOLEAN
    BY DEF Entries, Metrics
  <1> HIDE DEF p
  <1>8. ASSUME NEW f \in Timers
        PROVE  n[f].onStack <=> \E i \in 1 .. L + 1 : p[i].func = f
    <2>1. (\E i \in 1 .. L + 1 : p[i].func = f) <=> (e.func = f \/ \E i \in 1 .. L : q[i].func = f)
      BY <1>2, <1>3, <1>4, <1>5
    <2>2. n[f].onStack = IF f = e.func THEN TRUE ELSE m[f].onStack
      BY DEF MarkSet
    <2> QED
      BY <1>6, <2>1, <2>2
  <1>9. ASSUME NEW i \in 1 .. L
        PROVE  p[i].addIncl <=> \A j \in 1 .. L + 1 : p[j].func = p[i].func => i <= j
    <2>1. p[i] = q[i] /\ (q[i].addIncl <=> \A j \in 1 .. L : q[j].func = q[i].func => i <= j)
      BY <1>2, <1>6
    <2> QED
      BY <1>2, <1>3, <1>4, <2>1
  <1>10. p[L + 1].addIncl <=> \A j \in 1 .. L + 1 : p[j].func = p[L + 1].func => L + 1 <= j
    <2>1. e.addIncl <=> ~\E i \in 1 .. L : q[i].func = e.func
      BY <1>6, <1>7
    <2> QED
      BY <1>2, <1>3, <1>4, <1>5, <2>1
  <1> QED
    BY <1>2, <1>3, <1>8, <1>9, <1>10 DEF Marked, p

(* Stopping the top timer.                                                 *)
LEMMA PopMarked ==
    ASSUME NEW q \in Seq(Entries), q # <<>>, NEW m \in [Timers -> Metrics], NEW n,
           NEW e \in Entries, e = q[Len(q)], Marked(q, m), MarkCleared(m, n, e)
    PROVE  Marked(SubSeq(q, 1, Len(q) - 1), n)
  <1> DEFINE p == SubSeq(q, 1, Len(q) - 1)
  <1>1. PICK L \in Nat : Len(q) = L + 1
    <2>1. Len(q) \in Nat \ {0}
      BY PopProperties
    <2>2. \A k \in Nat \ {0} : k - 1 \in Nat /\ k = (k - 1) + 1
      OBVIOUS
    <2> QED
      BY <2>1, <2>2
  <1>2. Len(p) = L /\ (\A i \in 1 .. L : p[i] = q[i]) /\ q[L + 1] = e
    BY <1>1, PopProperties
  <1>3. \A i \in 1 .. L + 1 : i \in 1 .. L \/ i = L + 1
    OBVIOUS
  <1>4. \A i \in 1 .. L : i \in 1 .. L + 1 /\ i <= L + 1 /\ ~(L + 1 <= i)
    OBVIOUS
  <1>5. L + 1 \in 1 .. L + 1 /\ L + 1 <= L + 1
    OBVIOUS
  <1>6. /\ \A f \in Timers : m[f].onStack <=> \E i \in 1 .. L + 1 : q[i].func = f
        /\ \A i \in 1 .. L + 1 :
              q[i].addIncl <=> \A j \in 1 .. L + 1 : q[j].func = q[i].func => i <= j
    BY <1>1 DEF Marked
  <1>7. e.addIncl <=> ~\E j \in 1 .. L : q[j].func = e.func
    BY <1>2, <1>3, <1>4, <1>5, <1>6
  <1> HIDE DEF p
  <1>8. ASSUME NEW f \in Timers
        PROVE  n[f].onStack <=> \E i \in 1 .. L : p[i].func = f
    <2>1. (\E i \in 1 .. L + 1 : q[i].func = f) <=> (e.func = f \/ \E i \in 1 .. L : p[i].func = f)
      BY <1>2, <1>3, <1>4, <1>5
    <2>2. n[f].onStack = IF f = e.func /\ e.addIncl THEN FALSE ELSE m[f].onStack
      BY DEF MarkCleared
    <2>3. CASE f = e.func
      <3>1. e.addIncl <=> ~\E j \in 1 .. L : p[j].func = f
        BY <1>2, <1>7, <2>3
      <3>2. m[f].onStack = TRUE
        BY <1>6, <2>1, <2>3 DEF Metrics
      <3> QED
        BY <2>2, <2>3, <3>1, <3>2
    <2>4. CASE f # e.func
      BY <1>6, <2>1, <2>2, <2>4
    <2> QED
      BY <2>3, <2>4
  <1>9. ASSUME NEW i \in 1 .. L
        PROVE  p[i].addIncl <=> \A j \in 1 .. L : p[j].func = p[i].func => i <= j
    <2>1. p[i] = q[i]
          /\ (q[i].addIncl <=> \A j \in 1 .. L + 1 : q[j].func = q[i].func => i <= j)
      BY <1>2, <1>4, <1>6
    <2> QED
      BY <1>2, <1>3, <1>4, <2>1
  <1> QED
    BY <1>2, <1>8, <1>9 DEF Marked, p

(* A step that leaves the numbers and the stack of a thread alone keeps    *)
(* its marks.                                                              *)
LEMMA SameMarks ==
    ASSUME NEW q, NEW m, NEW n, Marked(q, m), SameMark(m, n)
    PROVE  Marked(q, n)
  BY DEF Marked, SameMark

(* So does one that changes nothing but the start times of the stack.      *)
LEMMA RestartedMarks ==
    ASSUME NEW p, NEW q, NEW m, SameTimers(p, q), Marked(q, m)
    PROVE  Marked(p, m)
  <1>1. /\ Len(p) = Len(q)
        /\ \A i \in 1 .. Len(q) : p[i].func = q[i].func /\ p[i].addIncl = q[i].addIncl
    BY DEF SameTimers
  <1>2. \A f \in Timers : m[f].onStack <=> \E i \in 1 .. Len(p) : p[i].func = f
    BY <1>1 DEF Marked
  <1>3. \A i \in 1 .. Len(p) :
          p[i].addIncl <=> \A j \in 1 .. Len(p) : p[j].func = p[i].func => i <= j
    BY <1>1 DEF Marked
  <1> QED
    BY <1>2, <1>3 DEF Marked

(* A timer start keeps the marks.                                          *)
LEMMA StartMarks ==
    ASSUME TypeOK, NEW s \in Tids, NEW f \in Timers, NEW d \in Nat, StartTimer(s, f, d), Marks,
           \A r \in Tids : phase'[r] \in {"new", "running"} => phase[r] \in {"new", "running"}
    PROVE  Marks'
  <1>1. CASE IsThrottled(f)
    BY <1>1 DEF StartTimer, tauVars, Marks
  <1>2. CASE ~IsThrottled(f)
    <2>1. PICK e \in Entries : e.func = f /\ e.addIncl = ~metrics[s][f].onStack /\ Pushed(s, e)
      BY <1>2, StartTimerEffect
    <2>2. /\ MarkSet(metrics[s], metrics'[s], f)
          /\ \A r \in Tids \ {s} : SameMark(metrics[r], metrics'[r])
      BY <1>2, StartTimerEffect
    <2>3. stack'[s] = Append(stack[s], e) /\ \A r \in Tids \ {s} : stack'[r] = stack[r]
      BY <2>1 DEF TypeOK, Pushed
    <2>4. ASSUME NEW r \in Tids \ {s}, phase'[r] \in {"new", "running"}
          PROVE  Marked(stack'[r], metrics'[r])
      <3>1. Marked(stack[r], metrics[r])
        BY <2>4 DEF Marks
      <3> QED
        BY <2>2, <2>3, <3>1, SameMarks
    <2>5. ASSUME phase'[s] \in {"new", "running"}
          PROVE  Marked(stack'[s], metrics'[s])
      <3>1. Marked(stack[s], metrics[s])
        BY <2>5 DEF Marks
      <3>2. MarkSet(metrics[s], metrics'[s], e.func)
        BY <2>1, <2>2
      <3>3. stack[s] \in Seq(Entries) /\ metrics[s] \in [Timers -> Metrics]
        BY DEF TypeOK
      <3>4. Marked(Append(stack[s], e), metrics'[s])
        BY <2>1, <3>1, <3>2, <3>3, PushMarked
      <3> QED
        BY <2>3, <3>4
    <2> QED
      BY <2>4, <2>5 DEF Marks
  <1> QED
    BY <1>1, <1>2

(* So does a Profiler::Stop on the account of the stack's own thread.      *)
LEMMA StopMarks ==
    ASSUME TypeOK, NEW s \in Tids, stack[s] # <<>>, ProfilerStop(s, s), Marks, phase' = phase
    PROVE  Marks'
  <1> DEFINE e == Top(s)
  <1>1. e \in Entries /\ stack[s] \in Seq(Entries) /\ metrics[s] \in [Timers -> Metrics]
    BY PopProperties DEF TypeOK, Top
  <1>2. /\ Popped(s)
        /\ MarkCleared(metrics[s], metrics'[s], e)
        /\ \A r \in Tids \ {s} : SameMark(metrics[r], metrics'[r])
    BY ProfilerStopEffect
  <1>3. stack'[s] = Pop(s) /\ \A r \in Tids \ {s} : stack'[r] = stack[r]
    BY <1>2 DEF TypeOK, Popped
  <1>4. ASSUME NEW r \in Tids \ {s}, phase'[r] \in {"new", "running"}
        PROVE  Marked(stack'[r], metrics'[r])
    <2>1. Marked(stack[r], metrics[r])
      BY <1>4 DEF Marks
    <2> QED
      BY <1>2, <1>3, <2>1, SameMarks
  <1>5. ASSUME phase'[s] \in {"new", "running"}
        PROVE  Marked(stack'[s], metrics'[s])
    <2>1. Marked(stack[s], metrics[s])
      BY <1>5 DEF Marks
    <2>2. MarkCleared(metrics[s], metrics'[s], e)
      BY <1>2
    <2>3. e = stack[s][Len(stack[s])]
      BY DEF Top
    <2> HIDE DEF e
    <2>4. Marked(SubSeq(stack[s], 1, Len(stack[s]) - 1), metrics'[s])
      BY <1>1, <2>1, <2>2, <2>3, PopMarked
    <2> QED
      BY <1>3, <2>4 DEF Pop
  <1> QED
    BY <1>4, <1>5 DEF Marks

(* Neither numbers nor stacks change.                                      *)
LEMMA IdleMarks ==
    ASSUME Marks, stack' = stack, metrics' = metrics,
           \A r \in Tids : phase'[r] \in {"new", "running"} => phase[r] \in {"new", "running"}
    PROVE  Marks'
  BY DEF Marks

(* Every step keeps the marks of the threads that run.                     *)
LEMMA NextMarks ==
    ASSUME Joined, TypeOK, Shape, Marks, [Next]_vars
    PROVE  Marks'
  <1>0. Real = Tids /\ App \in Timers /\ Funcs \subseteq Timers
    BY RealIsTids DEF Timers
  <1>1. ASSUME NEW t \in Tids, NEW s \in Tids, Begin(t, s) PROVE Marks'
    <2>1. \A r \in Tids : phase'[r] \in {"new", "running"} => phase[r] \in {"new", "running"}
      BY <1>1 DEF Begin, TypeOK
    <2> QED
      BY <1>0, <1>1, <2>1, StartMarks DEF Begin
  <1>2. ASSUME NEW t \in Tids, NEW s \in Tids, NEW f \in Funcs, Enter(t, s, f) PROVE Marks'
    <2>1. phase' = phase /\ StartTimer(s, f, Len(calls[s]) + 1)
      BY <1>2 DEF Enter
    <2>2. Len(calls[s]) + 1 \in Nat
      BY DEF TypeOK
    <2> QED
      BY <1>0, <2>1, <2>2, StartMarks
  <1>3. ASSUME NEW t \in Tids, NEW s \in Tids, Leave(t, s) PROVE Marks'
    BY <1>3, IdleMarks DEF Leave, tauVars
  <1>4. ASSUME NEW t \in Tids, StopCall(t) \/ Overlap(t) PROVE Marks'
    BY <1>4, IdleMarks DEF StopCall, Overlap, tauVars, appVars
  <1>5. ASSUME NEW t \in Tids, PopThrottled(t) \/ StopTop(t) PROVE Marks'
    <2>1. /\ op[t].stage = "stop" /\ stack[op[t].on] # <<>> /\ phase' = phase
          /\ ProfilerStop(op[t].on, t) \/ ProfilerStop(op[t].on, op[t].on)
      BY <1>5 DEF PopThrottled, StopTop, appVars
    <2>2. op[t].on = t
      BY <2>1 DEF Shape, Ownership
    <2> QED
      BY <2>1, <2>2, StopMarks
  <1>6. ASSUME NEW t \in Tids, EndThread(t) PROVE Marks'
    <2>1. \A r \in Tids : phase'[r] \in {"new", "running"} => phase[r] \in {"new", "running"}
      BY <1>6 DEF EndThread, TypeOK
    <2> QED
      BY <1>6, <2>1, IdleMarks DEF EndThread, tauVars
  <1>7. ASSUME NEW t \in Tids, StopAllLock(t) \/ StopAllNext(t) PROVE Marks'
    BY <1>7, IdleMarks DEF StopAllLock, StopAllNext, tauVars, appVars
  <1>8. ASSUME NEW t \in Tids, StopAllCheck(t) PROVE Marks'
    <2>1. op[t].stage = "check" /\ phase' = phase /\ metrics' = metrics
      BY <1>8 DEF StopAllCheck, appVars
    <2>2. op[t].on = t /\ phase[t] = "ending"
      BY <2>1 DEF Shape, Ownership
    <2>3. \A r \in Tids \ {t} : stack'[r] = stack[r]
      BY <1>8, <2>2 DEF StopAllCheck, TypeOK
    <2> QED
      BY <2>1, <2>2, <2>3 DEF Marks
  <1>9. ASSUME NEW t \in Tids, StopAllDone(t) PROVE Marks'
    <2>1. phase' = phase \/ phase' = [phase EXCEPT ![t] = "done"]
      BY <1>9 DEF StopAllDone
    <2>2. \A r \in Tids : phase'[r] \in {"new", "running"} => phase[r] \in {"new", "running"}
      BY <2>1 DEF TypeOK
    <2> QED
      BY <1>9, <2>2, IdleMarks DEF StopAllDone, tauVars
  <1>10. ASSUME NEW t \in Tids, Toggle(t) PROVE Marks'
    BY <1>10, IdleMarks DEF Toggle, tauVars, appVars
  <1>11. CASE Tick \/ UNCHANGED vars
    BY <1>11, IdleMarks DEF Tick, vars, tauVars, appVars
  <1>12. ASSUME NEW t \in Tids, Purge(t) \/ RestartNext(t) PROVE Marks'
    <2>1. phase' = phase /\ \A s \in Tids : /\ SameMark(metrics[s], metrics'[s])
                                            /\ SameTimers(stack'[s], stack[s])
      BY <1>0, <1>12, PurgeStep
    <2>2. ASSUME NEW s \in Tids, phase[s] \in {"new", "running"}
          PROVE  Marked(stack'[s], metrics'[s])
      <3>1. Marked(stack[s], metrics[s])
        BY <2>2 DEF Marks
      <3>2. Marked(stack'[s], metrics[s])
        BY <2>1, <3>1, RestartedMarks
      <3> QED
        BY <2>1, <3>2, SameMarks
    <2> QED
      BY <2>1, <2>2 DEF Marks
  <1> QED
    BY <1>0, <1>1, <1>2, <1>3, <1>4, <1>5, <1>6, <1>7, <1>8, <1>9, <1>10, <1>11, <1>12
       DEF Next, StopStep, StopAllStep, Finished

(* While a thread runs, a function is marked as on its stack exactly while *)
(* it is there, and its lowest activation is the one whose stop adds       *)
(* inclusive time: for any number of threads, under recursion, throttling  *)
(* and switching TAU off and on.                                           *)
THEOREM MarksExact == Joined => (Spec => []OnStackMark)
  <1> SUFFICES ASSUME Joined PROVE Spec => []OnStackMark
    OBVIOUS
  <1> DEFINE IInv == TypeOK /\ Shape /\ Marks
  <1>1. Init => IInv
    <2>1. Init => Marks
      BY DEF Init, Marks, Marked, NoMetrics
    <2> QED
      BY <2>1, InitType, InitShape
  <1>2. IInv /\ [Next]_vars => IInv'
    BY NextType, NextShape, NextMarks
  <1>3. IInv => OnStackMark
    <2> SUFFICES ASSUME TypeOK, Marks, NEW s \in {r \in Tids : phase[r] = "running"}, NEW f \in Timers
                 PROVE  LET Is(i) == stack[s][i].func = f
                            I == {i \in 1 .. Len(stack[s]) : Is(i)}
                        IN /\ metrics[s][f].onStack <=> I # {}
                           /\ \A i \in I : stack[s][i].addIncl <=> \A j \in I : i <= j
      BY DEF OnStackMark
    <2>1. Marked(stack[s], metrics[s])
      BY DEF Marks
    <2> QED
      BY <2>1 DEF Marked
  <1> QED
    BY <1>1, <1>2, <1>3, PTL DEF Spec

-----------------------------------------------------------------------------
(* The timers on a stack and the calls of the application.                 *)

\* Of the lowest n timers of the stack q, those that are not throttled (not in
\* D) were started by the calls C, in that order, and every call of a function
\* that is not throttled has its timer.
Nested(q, n, C, D) ==
    /\ \A i \in 1 .. n :
          q[i].func \notin D => q[i].depth \in 1 .. Len(C) /\ C[q[i].depth] = q[i].func
    /\ \A i, j \in 1 .. n :
          i < j /\ q[i].func \notin D /\ q[j].func \notin D => q[i].depth < q[j].depth
    /\ \A d \in 1 .. Len(C) :
          C[d] \notin D => \E i \in 1 .. n : q[i].depth = d /\ q[i].func = C[d]

\* A stop that searches q for the timer of f will find it: what is above it is
\* throttled, and below it are the timers of the calls C.
Stopping(q, f, C, D) ==
    \E k \in 1 .. Len(q) :
       /\ q[k].func = f
       /\ \A i \in k + 1 .. Len(q) : q[i].func \in D /\ q[i].func # f
       /\ Nested(q, k - 1, C, D)

\* The stack of t follows the calls of t, at each stage of a stop.
Follows(t) ==
    /\ phase[t] = "running" =>
          /\ op[t].stage \in {"idle", "purge"} =>
                Nested(stack[t], Len(stack[t]), calls[t], disabled)
          /\ op[t].stage = "call" =>
                Nested(stack[t], Len(stack[t]), Append(calls[t], op[t].fn), disabled)
          /\ op[t].stage = "stop" => Stopping(stack[t], op[t].fn, calls[t], disabled)
    /\ op[t].all /\ op[t].stage \in {"call", "stop"} =>
          stack[t] # <<>> /\ Top(t).func = op[t].fn

Follow == \A t \in Tids : Follows(t)

\* Nothing but the end of main disables TAU.
StaysEnabled == phase[0] # "done" => enabled

(* One call more.                                                          *)
LEMMA AppendCall ==
    ASSUME NEW C \in Seq(Timers), NEW f \in Timers
    PROVE  /\ Len(C) \in Nat
           /\ Len(Append(C, f)) = Len(C) + 1
           /\ \A d \in 1 .. Len(C) : Append(C, f)[d] = C[d]
           /\ Append(C, f)[Len(C) + 1] = f
           /\ \A d \in 1 .. Len(C) + 1 : d \in 1 .. Len(C) \/ d = Len(C) + 1
           /\ \A d \in 1 .. Len(C) : d \in 1 .. Len(C) + 1 /\ d < Len(C) + 1
  OBVIOUS

(* One timer more.                                                         *)
LEMMA AppendEntry ==
    ASSUME NEW q \in Seq(Entries), NEW e \in Entries
    PROVE  /\ Len(q) \in Nat
           /\ Len(Append(q, e)) = Len(q) + 1
           /\ \A i \in 1 .. Len(q) : Append(q, e)[i] = q[i]
           /\ Append(q, e)[Len(q) + 1] = e
           /\ \A i \in 1 .. Len(q) + 1 : i \in 1 .. Len(q) \/ i = Len(q) + 1
           /\ \A i \in 1 .. Len(q) : i \in 1 .. Len(q) + 1 /\ i < Len(q) + 1
           /\ ~(Len(q) + 1 < Len(q) + 1)
           /\ \A i \in 1 .. Len(q) : ~(Len(q) + 1 < i)
  OBVIOUS

(* A call that is timed.                                                   *)
LEMMA NestedPush ==
    ASSUME NEW q \in Seq(Entries), NEW C \in Seq(Timers), NEW D, NEW f \in Timers,
           NEW e \in Entries, Nested(q, Len(q), C, D), e.func = f, e.depth = Len(C) + 1
    PROVE  Nested(Append(q, e), Len(Append(q, e)), Append(C, f), D)
  <1> DEFINE p == Append(q, e)
             B == Append(C, f)
  <1>1. PICK L \in Nat, M \in Nat : L = Len(q) /\ M = Len(C)
    BY AppendCall, AppendEntry
  <1>2. /\ Len(B) = M + 1
        /\ \A d \in 1 .. M : B[d] = C[d] /\ d \in 1 .. M + 1 /\ d < M + 1
        /\ B[M + 1] = f
        /\ \A d \in 1 .. M + 1 : d \in 1 .. M \/ d = M + 1
    BY <1>1, AppendCall
  <1>3. /\ Len(p) = L + 1
        /\ \A i \in 1 .. L : p[i] = q[i] /\ i \in 1 .. L + 1 /\ i < L + 1
        /\ p[L + 1] = e
        /\ \A i \in 1 .. L + 1 : i \in 1 .. L \/ i = L + 1
        /\ ~(L + 1 < L + 1)
        /\ \A i \in 1 .. L : ~(L + 1 < i)
    BY <1>1, AppendEntry
  <1>4. M + 1 \in 1 .. M + 1 /\ L + 1 \in 1 .. L + 1
    OBVIOUS
  <1>5. /\ \A i \in 1 .. L : q[i].func \notin D => q[i].depth \in 1 .. M /\ C[q[i].depth] = q[i].func
        /\ \A i, j \in 1 .. L :
              i < j /\ q[i].func \notin D /\ q[j].func \notin D => q[i].depth < q[j].depth
        /\ \A d \in 1 .. M :
              C[d] \notin D => \E i \in 1 .. L : q[i].depth = d /\ q[i].func = C[d]
    BY <1>1 DEF Nested
  <1>6. e.func = f /\ e.depth = M + 1
    BY <1>1
  <1> HIDE DEF p, B
  <1>7. \A i \in 1 .. L + 1 :
           p[i].func \notin D => p[i].depth \in 1 .. M + 1 /\ B[p[i].depth] = p[i].func
    <2> SUFFICES ASSUME NEW i \in 1 .. L + 1, p[i].func \notin D
                 PROVE  p[i].depth \in 1 .. M + 1 /\ B[p[i].depth] = p[i].func
      OBVIOUS
    <2>1. CASE i \in 1 .. L
      <3>1. p[i] = q[i]
        BY <1>3, <2>1
      <3>2. q[i].depth \in 1 .. M /\ C[q[i].depth] = q[i].func
        BY <1>5, <2>1, <3>1
      <3> QED
        BY <1>2, <3>1, <3>2
    <2>2. CASE i = L + 1
      BY <1>2, <1>3, <1>4, <1>6, <2>2
    <2> QED
      BY <1>3, <2>1, <2>2
  <1>8. \A i, j \in 1 .. L + 1 :
           i < j /\ p[i].func \notin D /\ p[j].func \notin D => p[i].depth < p[j].depth
    <2> SUFFICES ASSUME NEW i \in 1 .. L + 1, NEW j \in 1 .. L + 1, i < j,
                        p[i].func \notin D, p[j].func \notin D
                 PROVE  p[i].depth < p[j].depth
      OBVIOUS
    <2>1. i \in 1 .. L
      BY <1>3
    <2>2. CASE j \in 1 .. L
      BY <1>3, <1>5, <2>1, <2>2
    <2>3. CASE j = L + 1
      BY <1>2, <1>3, <1>5, <1>6, <2>1, <2>3
    <2> QED
      BY <1>3, <2>2, <2>3
  <1>9. \A d \in 1 .. M + 1 :
           B[d] \notin D => \E i \in 1 .. L + 1 : p[i].depth = d /\ p[i].func = B[d]
    BY <1>2, <1>3, <1>4, <1>5, <1>6
  <1>10. Nested(p, Len(p), B, D)
    BY <1>2, <1>3, <1>7, <1>8, <1>9 DEF Nested
  <1> QED
    BY <1>10 DEF p, B

(* A call of a throttled function is not timed.                            *)
LEMMA NestedThrottled ==
    ASSUME NEW q \in Seq(Entries), NEW C \in Seq(Timers), NEW D, NEW f \in Timers, f \in D
    PROVE  Nested(q, Len(q), C, D) <=> Nested(q, Len(q), Append(C, f), D)
  <1> DEFINE B == Append(C, f)
  <1>1. PICK M \in Nat : M = Len(C)
    BY AppendCall
  <1>2. /\ Len(B) = M + 1
        /\ \A d \in 1 .. M : B[d] = C[d] /\ d \in 1 .. M + 1
        /\ B[M + 1] \in D
        /\ \A d \in 1 .. M + 1 : d \in 1 .. M \/ d = M + 1
    BY <1>1, AppendCall
  <1> HIDE DEF B
  <1>3. \A i \in 1 .. Len(q) : q[i].func \notin D =>
           (q[i].depth \in 1 .. M /\ C[q[i].depth] = q[i].func
              <=> q[i].depth \in 1 .. M + 1 /\ B[q[i].depth] = q[i].func)
    BY <1>2
  <1>4. (\A d \in 1 .. M : C[d] \notin D => \E i \in 1 .. Len(q) : q[i].depth = d /\ q[i].func = C[d])
        <=> (\A d \in 1 .. M + 1 :
               B[d] \notin D => \E i \in 1 .. Len(q) : q[i].depth = d /\ q[i].func = B[d])
    BY <1>2
  <1>5. Nested(q, Len(q), C, D) <=> Nested(q, Len(q), B, D)
    BY <1>1, <1>2, <1>3, <1>4 DEF Nested
  <1> QED
    BY <1>5 DEF B

(* More functions are throttled.                                           *)
LEMMA NestedMore ==
    ASSUME NEW q, NEW n, NEW C, NEW D, NEW E, D \subseteq E, Nested(q, n, C, D)
    PROVE  Nested(q, n, C, E)
  BY DEF Nested

(* ... and the search still ends.                                         *)
LEMMA StoppingMore ==
    ASSUME NEW q, NEW f, NEW C, NEW D, NEW E, D \subseteq E, Stopping(q, f, C, D)
    PROVE  Stopping(q, f, C, E)
  BY NestedMore DEF Stopping

(* Only the functions and depths of the timers matter.                     *)
LEMMA NestedSame ==
    ASSUME NEW p, NEW q, NEW n \in Nat, NEW C, NEW D, Nested(q, n, C, D),
           \A i \in 1 .. n : p[i].func = q[i].func /\ p[i].depth = q[i].depth
    PROVE  Nested(p, n, C, D)
  BY DEF Nested

(* The stop of a timer that is not throttled will find it.                 *)
LEMMA StopFinds ==
    ASSUME NEW q \in Seq(Entries), NEW C \in Seq(Timers), NEW D, NEW f \in Timers, f \notin D,
           Nested(q, Len(q), Append(C, f), D)
    PROVE  Stopping(q, f, C, D) /\ q # <<>>
  <1> DEFINE B == Append(C, f)
  <1>1. PICK L \in Nat, M \in Nat : L = Len(q) /\ M = Len(C)
    BY AppendCall
  <1>2. /\ Len(B) = M + 1
        /\ \A d \in 1 .. M : B[d] = C[d] /\ d \in 1 .. M + 1 /\ d < M + 1
        /\ B[M + 1] = f
        /\ \A d \in 1 .. M + 1 : d \in 1 .. M \/ d = M + 1
        /\ M + 1 \in 1 .. M + 1
    BY <1>1, AppendCall
  <1> HIDE DEF B
  <1>3. /\ \A i \in 1 .. L :
              q[i].func \notin D => q[i].depth \in 1 .. M + 1 /\ B[q[i].depth] = q[i].func
        /\ \A i, j \in 1 .. L :
              i < j /\ q[i].func \notin D /\ q[j].func \notin D => q[i].depth < q[j].depth
        /\ \A d \in 1 .. M + 1 :
              B[d] \notin D => \E i \in 1 .. L : q[i].depth = d /\ q[i].func = B[d]
    BY <1>1, <1>2 DEF Nested, B
  <1>4. PICK k \in 1 .. L : q[k].depth = M + 1 /\ q[k].func = f
    BY <1>2, <1>3
  <1>5. \A i \in k + 1 .. L : q[i].func \in D
    <2> SUFFICES ASSUME NEW i \in k + 1 .. L, q[i].func \notin D PROVE FALSE
      OBVIOUS
    <2>1. i \in 1 .. L /\ k < i
      BY <1>4
    <2>2. M + 1 < q[i].depth /\ q[i].depth \in 1 .. M + 1
      BY <1>3, <1>4, <2>1
    <2> QED
      BY <2>2
  <1>6. \A i \in 1 .. k - 1 : i \in 1 .. L /\ i < k
    BY <1>4
  <1>7. \A i \in 1 .. k - 1 :
           q[i].func \notin D => q[i].depth \in 1 .. M /\ C[q[i].depth] = q[i].func
    <2> SUFFICES ASSUME NEW i \in 1 .. k - 1, q[i].func \notin D
                 PROVE  q[i].depth \in 1 .. M /\ C[q[i].depth] = q[i].func
      OBVIOUS
    <2>1. q[i].depth \in 1 .. M + 1 /\ q[i].depth < M + 1 /\ B[q[i].depth] = q[i].func
      BY <1>3, <1>4, <1>6
    <2>2. q[i].depth \in 1 .. M
      BY <2>1
    <2> QED
      BY <1>2, <2>1, <2>2
  <1>8. \A d \in 1 .. M :
           C[d] \notin D => \E i \in 1 .. k - 1 : q[i].depth = d /\ q[i].func = C[d]
    <2> SUFFICES ASSUME NEW d \in 1 .. M, C[d] \notin D
                 PROVE  \E i \in 1 .. k - 1 : q[i].depth = d /\ q[i].func = C[d]
      OBVIOUS
    <2>1. PICK i \in 1 .. L : q[i].depth = d /\ q[i].func = C[d]
      BY <1>2, <1>3
    <2>2. q[i].func \notin D /\ d < M + 1 /\ ~(M + 1 < d)
      BY <1>2, <2>1
    <2>3. i # k /\ ~(k < i)
      BY <1>3, <1>4, <2>1, <2>2
    <2>4. i \in 1 .. k - 1
      BY <1>4, <2>1, <2>3
    <2> QED
      BY <2>1, <2>4
  <1>9. Nested(q, k - 1, C, D)
    BY <1>1, <1>3, <1>6, <1>7, <1>8 DEF Nested
  <1>10. q # <<>>
    <2>1. Len(<<>>) = 0
      OBVIOUS
    <2> QED
      BY <1>1, <1>4, <2>1
  <1> QED
    BY <1>1, <1>4, <1>5, <1>9, <1>10 DEF Stopping

(* What a stop that searches finds on top.                                 *)
LEMMA StoppingTop ==
    ASSUME NEW q \in Seq(Entries), NEW C, NEW D, NEW f, Stopping(q, f, C, D)
    PROVE  /\ q # <<>>
           /\ q[Len(q)].func # f => q[Len(q)].func \in D
           /\ q[Len(q)].func = f => Nested(q, Len(q) - 1, C, D)
           /\ q[Len(q)].func # f => Stopping(SubSeq(q, 1, Len(q) - 1), f, C, D)
  <1>1. PICK k \in 1 .. Len(q) :
           /\ q[k].func = f
           /\ \A i \in k + 1 .. Len(q) : q[i].func \in D /\ q[i].func # f
           /\ Nested(q, k - 1, C, D)
    BY DEF Stopping
  <1>2. PICK L \in Nat : L = Len(q)
    OBVIOUS
  <1>3. k \in 1 .. L /\ (k = L \/ (L \in k + 1 .. L /\ k \in 1 .. L - 1))
    BY <1>1, <1>2
  <1>4. q # <<>>
    <2>1. Len(<<>>) = 0
      OBVIOUS
    <2> QED
      BY <1>2, <1>3, <2>1
  <1>5. ASSUME q[Len(q)].func # f
        PROVE  q[Len(q)].func \in D /\ Stopping(SubSeq(q, 1, Len(q) - 1), f, C, D)
    <2> DEFINE p == SubSeq(q, 1, Len(q) - 1)
    <2>1. L \in k + 1 .. L /\ k \in 1 .. L - 1
      BY <1>1, <1>2, <1>3, <1>5
    <2>2. Len(p) = L - 1 /\ \A i \in 1 .. L - 1 : p[i] = q[i]
      BY <1>2, <1>4, PopProperties
    <2> HIDE DEF p
    <2>3. \A i \in k + 1 .. L - 1 : i \in k + 1 .. L /\ i \in 1 .. L - 1
      BY <2>1
    <2>4. k - 1 \in Nat /\ \A i \in 1 .. k - 1 : i \in 1 .. L - 1
      BY <2>1
    <2>5. Nested(p, k - 1, C, D)
      BY <1>1, <2>2, <2>4, NestedSame
    <2>6. Stopping(p, f, C, D)
      BY <1>1, <1>2, <2>1, <2>2, <2>3, <2>5 DEF Stopping
    <2> QED
      BY <1>1, <1>2, <2>1, <2>6 DEF p
  <1>6. ASSUME q[Len(q)].func = f PROVE Nested(q, Len(q) - 1, C, D)
    BY <1>1, <1>2, <1>3, <1>6
  <1> QED
    BY <1>4, <1>5, <1>6

(* Another thread's step: the calls, the stack and the stop of t are as    *)
(* they were, and no function is un-throttled.                             *)
LEMMA OthersFollow ==
    ASSUME NEW t \in Tids, Follows(t), disabled \subseteq disabled',
           stack'[t] = stack[t], calls'[t] = calls[t], op'[t] = op[t],
           phase'[t] = "running" => phase[t] = "running"
    PROVE  Follows(t)'
  <1>1. CASE phase'[t] = "running" /\ op[t].stage \in {"idle", "purge"}
    BY <1>1, NestedMore DEF Follows, Top
  <1>2. CASE phase'[t] = "running" /\ op[t].stage = "call"
    BY <1>2, NestedMore DEF Follows, Top
  <1>3. CASE phase'[t] = "running" /\ op[t].stage = "stop"
    BY <1>3, StoppingMore DEF Follows, Top
  <1>4. CASE phase'[t] # "running" \/ op[t].stage \notin {"idle", "purge", "call", "stop"}
    BY <1>4 DEF Follows, Top
  <1> QED
    BY <1>1, <1>2, <1>3, <1>4

(* Starting a timer for the call of f that thread t makes.                 *)
LEMMA StartFollows ==
    ASSUME TypeOK, StaysEnabled, phase[0] # "done", NEW t \in Tids, NEW f \in Timers,
           NEW C \in Seq(Timers), Nested(stack[t], Len(stack[t]), C, disabled),
           StartTimer(t, f, Len(C) + 1)
    PROVE  /\ Nested(stack'[t], Len(stack'[t]), Append(C, f), disabled')
           /\ disabled' = disabled
           /\ \A r \in Tids \ {t} : stack'[r] = stack[r]
  <1>0. stack[t] \in Seq(Entries) /\ Len(C) + 1 \in Nat
    BY DEF TypeOK
  <1>1. \A r \in Tids \ {t} : stack'[r] = stack[r]
    BY OtherStacks
  <1>2. IsThrottled(f) <=> f \in disabled
    BY DEF StaysEnabled, IsThrottled
  <1>3. CASE f \in disabled
    <2>1. stack' = stack /\ disabled' = disabled
      BY <1>2, <1>3 DEF StartTimer, tauVars
    <2>2. Nested(stack[t], Len(stack[t]), Append(C, f), disabled)
      BY <1>0, <1>3, NestedThrottled
    <2> QED
      BY <1>1, <2>1, <2>2
  <1>4. CASE f \notin disabled
    <2>1. PICK e \in Entries : e.func = f /\ e.depth = Len(C) + 1 /\ Pushed(t, e)
      BY <1>0, <1>2, <1>4, StartTimerEffect
    <2>2. disabled' = disabled
      BY <1>0, <1>2, <1>4, StartTimerEffect
    <2>3. stack'[t] = Append(stack[t], e)
      BY <2>1 DEF TypeOK, Pushed
    <2>4. Nested(Append(stack[t], e), Len(Append(stack[t], e)), Append(C, f), disabled)
      BY <1>0, <2>1, NestedPush
    <2> QED
      BY <1>1, <2>2, <2>3, <2>4
  <1> QED
    BY <1>3, <1>4

(* The steps of a stop are about the stack of the thread itself.           *)
LEMMA StopOwner ==
    ASSUME Joined, TypeOK, Shape, NEW t \in Tids, op[t].stage \in {"call", "stop", "check"}
    PROVE  /\ op[t] \in Ops /\ op[t].on = t
           /\ ~op[t].all => phase[t] = "running" /\ op[t].stage # "check"
           /\ op[t].all => phase[t] = "ending"
           /\ phase[0] # "done"
  <1>1. op[t] \in Ops
    BY RealIsTids DEF TypeOK
  <1>2. /\ op[t].on = t
        /\ ~op[t].all => phase[t] = "running" /\ op[t].stage # "check"
        /\ op[t].all => phase[t] = "ending"
    BY <1>1 DEF Shape, Ownership, Ops
  <1>3. phase[t] # "done"
    BY <1>1, <1>2 DEF Ops
  <1>4. phase[0] # "done"
    <2>1. CASE t = 0
      BY <1>3, <2>1
    <2>2. CASE t # 0
      BY <1>3, <2>2 DEF Shape, MainLast
    <2> QED
      BY <2>1, <2>2
  <1> QED
    BY <1>1, <1>2, <1>4

(* Only throttling keeps a timer from being stopped.                       *)
LEMMA RunningStop ==
    ASSUME Joined, TypeOK, Shape, ~Toggles, StaysEnabled, NEW t \in Tids,
           op[t].stage \in {"call", "stop", "check"}
    PROVE  /\ op[t] \in Ops /\ op[t].on = t
           /\ ~op[t].all => phase[t] = "running" /\ op[t].stage # "check"
           /\ op[t].all => phase[t] = "ending"
           /\ enabled
           /\ \A f : IsThrottled(f) <=> f \in disabled
  BY StopOwner DEF StaysEnabled, IsThrottled

(* Nothing but the end of main disables TAU, if the application does not.  *)
LEMMA NextEnabled ==
    ASSUME Joined, ~Toggles, TypeOK, StaysEnabled, [Next]_vars
    PROVE  StaysEnabled'
  <1>0. 0 \in Tids /\ Real = Tids
    BY MainIsThread, RealIsTids
  <1>1. ASSUME NEW t \in Real, StopAllDone(t) PROVE StaysEnabled'
    BY <1>0, <1>1 DEF StopAllDone, StaysEnabled, TypeOK
  <1>2. ASSUME NEW t \in Real, NEW s \in Tids, Begin(t, s) PROVE StaysEnabled'
    BY <1>0, <1>2 DEF Begin, StaysEnabled, TypeOK
  <1>3. ASSUME NEW t \in Real, EndThread(t) PROVE StaysEnabled'
    BY <1>0, <1>3 DEF EndThread, Idle, StaysEnabled, TypeOK
  <1>4. CASE UNCHANGED <<phase, enabled>>
    BY <1>4 DEF StaysEnabled
  <1>5. ASSUME NEW t \in Real, StopStep(t) PROVE StaysEnabled'
    BY <1>4, <1>5 DEF StopStep, StopCall, PopThrottled, StopTop, Overlap, appVars
  <1>6. ASSUME NEW t \in Real, StopAllStep(t) PROVE StaysEnabled'
    BY <1>1, <1>4, <1>6 DEF StopAllStep, StopAllLock, StopAllNext, StopAllCheck, appVars
  <1>7. ASSUME NEW t \in Real, Toggle(t) \/ Purge(t) \/ RestartNext(t) PROVE StaysEnabled'
    BY <1>4, <1>7 DEF Toggle, Purge, RestartNext, appVars
  <1>8. ASSUME NEW t \in Real, NEW s \in Tids, Leave(t, s) \/ \E f \in Funcs : Enter(t, s, f)
        PROVE  StaysEnabled'
    BY <1>4, <1>8 DEF Enter, Leave
  <1>9. CASE Tick \/ UNCHANGED vars
    BY <1>4, <1>9 DEF Tick, appVars, vars
  <1> QED
    BY <1>2, <1>3, <1>5, <1>6, <1>7, <1>8, <1>9 DEF Next, Finished

(* Every step keeps the stacks with the calls.                             *)
LEMMA NextFollow ==
    ASSUME Joined, ~Toggles, TypeOK, Shape, StaysEnabled, Follow, [Next]_vars
    PROVE  Follow'
  <1>0. Real = Tids /\ 0 \in Tids /\ App \in Timers /\ Funcs \subseteq Timers
        /\ \A t \in Tids : Drives(t) = {t}
    BY RealIsTids, MainIsThread DEF Joined, Drives, Timers
  <1>1. ASSUME NEW t \in Tids, NEW s \in Tids, Begin(t, s) PROVE Follow'
    <2>1. /\ s = t /\ phase[t] = "new" /\ op[t].stage = "idle" /\ phase[0] # "done"
          /\ StartTimer(t, App, 1) /\ op' = op
          /\ calls' = [calls EXCEPT ![t] = <<App>>] /\ phase' = [phase EXCEPT ![t] = "running"]
      BY <1>0, <1>1 DEF Begin, Idle
    <2>2. stack[t] = <<>>
      BY <2>1 DEF Shape, EmptyOutside
    <2>3. PICK C \in Seq(Timers) : Len(C) = 0 /\ Append(C, App) = <<App>>
      <3>1. <<>> \in Seq(Timers) /\ Len(<<>>) = 0 /\ Append(<<>>, App) = <<App>>
        OBVIOUS
      <3> QED
        BY <3>1
    <2>7. Nested(stack[t], Len(stack[t]), C, disabled)
      BY <2>2, <2>3 DEF Nested
    <2>8. StartTimer(t, App, Len(C) + 1)
      <3>1. Len(C) + 1 = 1
        BY <2>3
      <3> QED
        BY <2>1, <3>1, Zenon
    <2>4. Nested(stack'[t], Len(stack'[t]), <<App>>, disabled')
          /\ disabled' = disabled /\ \A r \in Tids \ {t} : stack'[r] = stack[r]
      <3>1. /\ Nested(stack'[t], Len(stack'[t]), Append(C, App), disabled')
            /\ disabled' = disabled /\ \A r \in Tids \ {t} : stack'[r] = stack[r]
        BY <1>0, <2>1, <2>7, <2>8, StartFollows
      <3> QED
        BY <2>3, <3>1
    <2>5. Follows(t)'
      BY <2>1, <2>4 DEF Follows, TypeOK
    <2>6. ASSUME NEW r \in Tids \ {t} PROVE Follows(r)'
      BY <2>1, <2>4, OthersFollow DEF Follow, TypeOK
    <2> QED
      BY <2>5, <2>6 DEF Follow
  <1>2. ASSUME NEW t \in Tids, NEW s \in Tids, NEW f \in Funcs, Enter(t, s, f) PROVE Follow'
    <2>1. /\ s = t /\ phase[t] = "running" /\ op[t].stage = "idle"
          /\ StartTimer(t, f, Len(calls[t]) + 1) /\ op' = op /\ phase' = phase
          /\ calls' = [calls EXCEPT ![t] = Append(calls[t], f)]
      BY <1>0, <1>2 DEF Enter, Idle
    <2>2. phase[0] # "done"
      BY <1>0, <2>1 DEF Shape, MainLast
    <2>3. calls[t] \in Seq(Timers) /\ Nested(stack[t], Len(stack[t]), calls[t], disabled)
          /\ f \in Timers
      BY <1>0, <2>1 DEF TypeOK, Follow, Follows
    <2>4. Nested(stack'[t], Len(stack'[t]), Append(calls[t], f), disabled')
          /\ disabled' = disabled /\ \A r \in Tids \ {t} : stack'[r] = stack[r]
      BY <2>1, <2>2, <2>3, StartFollows
    <2>5. Follows(t)'
      BY <2>1, <2>4 DEF Follows, TypeOK
    <2>6. ASSUME NEW r \in Tids \ {t} PROVE Follows(r)'
      BY <2>1, <2>4, OthersFollow DEF Follow, TypeOK
    <2> QED
      BY <2>5, <2>6 DEF Follow
  <1>3. ASSUME NEW t \in Tids, NEW s \in Tids, Leave(t, s) PROVE Follow'
    <2>1. /\ s = t /\ phase[t] = "running" /\ op[t].stage = "idle" /\ Len(calls[t]) > 1
          /\ phase' = phase /\ stack' = stack /\ disabled' = disabled
          /\ op' = [op EXCEPT ![t] =
                [NoOp EXCEPT !.stage = "call", !.fn = calls[t][Len(calls[t])], !.on = t]]
          /\ calls' = [calls EXCEPT ![t] = SubSeq(calls[t], 1, Len(calls[t]) - 1)]
      BY <1>0, <1>3 DEF Leave, Idle, tauVars
    <2>2. /\ op'[t].stage = "call" /\ op'[t].fn = calls[t][Len(calls[t])] /\ ~op'[t].all
          /\ calls'[t] = SubSeq(calls[t], 1, Len(calls[t]) - 1)
      BY <1>0, <2>1 DEF TypeOK, NoOp
    <2>3. calls[t] \in Seq(Timers) /\ Nested(stack[t], Len(stack[t]), calls[t], disabled)
      BY <2>1 DEF TypeOK, Follow, Follows
    <2>4. Append(SubSeq(calls[t], 1, Len(calls[t]) - 1), calls[t][Len(calls[t])]) = calls[t]
      <3> DEFINE q == calls[t]
      <3>1. q \in Seq(Timers) /\ q # <<>>
        <4>1. Len(<<>>) = 0
          OBVIOUS
        <4> QED
          BY <2>1, <2>3, <4>1
      <3> HIDE DEF q
      <3>2. Append(SubSeq(q, 1, Len(q) - 1), q[Len(q)]) = q
        <4>1. /\ SubSeq(q, 1, Len(q) - 1) \in Seq(Timers) /\ Len(q) \in Nat \ {0}
              /\ Len(SubSeq(q, 1, Len(q) - 1)) = Len(q) - 1
              /\ \A i \in 1 .. Len(q) - 1 : SubSeq(q, 1, Len(q) - 1)[i] = q[i]
              /\ q[Len(q)] \in Timers
          BY <3>1, PopProperties
        <4> DEFINE p == SubSeq(q, 1, Len(q) - 1)
        <4> HIDE DEF p
        <4>2. p \in Seq(Timers) /\ Len(p) = Len(q) - 1 /\ \A i \in 1 .. Len(q) - 1 : p[i] = q[i]
          BY <4>1 DEF p
        <4>3. /\ Append(p, q[Len(q)]) \in Seq(Timers)
              /\ Len(Append(p, q[Len(q)])) = Len(q)
              /\ \A i \in 1 .. Len(q) : Append(p, q[Len(q)])[i] = q[i]
          BY <3>1, <4>1, <4>2
        <4>4. Append(p, q[Len(q)]) = q
          BY <3>1, <4>3, SeqEqual
        <4> QED
          BY <4>4 DEF p
      <3> QED
        BY <3>2 DEF q
    <2>5. Follows(t)'
      BY <2>1, <2>2, <2>3, <2>4 DEF Follows
    <2>6. ASSUME NEW r \in Tids \ {t} PROVE Follows(r)'
      <3>1. op'[r] = op[r] /\ calls'[r] = calls[r]
        BY <1>0, <2>1 DEF TypeOK
      <3> QED
        BY <2>1, <3>1, OthersFollow DEF Follow
    <2> QED
      BY <2>5, <2>6 DEF Follow
  <1>4. ASSUME NEW t \in Tids, StopCall(t) PROVE Follow'
    <2>1. /\ op[t].stage = "call" /\ phase' = phase /\ calls' = calls /\ stack' = stack
          /\ disabled' = disabled
          /\ IF IsThrottled(op[t].fn) \/ stack[op[t].on] = <<>>
             THEN Return(t) ELSE op' = [op EXCEPT ![t].stage = "stop"]
      BY <1>4 DEF StopCall, appVars, tauVars
    <2>2. /\ op[t] \in Ops /\ op[t].on = t /\ (~op[t].all => phase[t] = "running")
          /\ (op[t].all => phase[t] = "ending")
          /\ (IsThrottled(op[t].fn) <=> op[t].fn \in disabled)
      BY <2>1, RunningStop
    <2>3. /\ stack[t] \in Seq(Entries) /\ calls[t] \in Seq(Timers) /\ op[t].fn \in Timers
          /\ op[t].all \in BOOLEAN
      BY <2>2 DEF TypeOK, Ops
    <2>4. ASSUME NEW r \in Tids \ {t} PROVE Follows(r)'
      <3>1. op'[r] = op[r]
        BY <1>0, <2>1, ReturnEffect DEF TypeOK
      <3> QED
        BY <2>1, <3>1, OthersFollow DEF Follow
    <2>5. CASE op[t].all
      <3>1. op'[t].stage = "stop" => op'[t].fn = op[t].fn
        <4>1. CASE Return(t)
          BY <1>0, <2>5, <4>1, ReturnEffect
        <4>2. CASE op' = [op EXCEPT ![t].stage = "stop"]
          BY <1>0, <2>2, <4>2 DEF TypeOK, Ops
        <4> QED
          BY <2>1, <4>1, <4>2
      <3>2. op'[t].stage \in {"stop", "check"}
        <4>1. CASE Return(t)
          BY <1>0, <2>5, <4>1, ReturnEffect
        <4>2. CASE op' = [op EXCEPT ![t].stage = "stop"]
          BY <1>0, <2>2, <4>2 DEF TypeOK, Ops
        <4> QED
          BY <2>1, <4>1, <4>2
      <3>3. stack[t] # <<>> /\ Top(t).func = op[t].fn
        BY <2>1, <2>5 DEF Follow, Follows
      <3>4. Follows(t)'
        BY <2>1, <2>2, <2>5, <3>1, <3>2, <3>3 DEF Follows, Top
      <3> QED
        BY <2>4, <3>4 DEF Follow
    <2>6. CASE ~op[t].all
      <3>1. Nested(stack[t], Len(stack[t]), Append(calls[t], op[t].fn), disabled)
        BY <2>1, <2>2, <2>6 DEF Follow, Follows
      <3>2. CASE op[t].fn \in disabled
        <4>1. op'[t] = NoOp
          BY <1>0, <2>1, <2>2, <2>6, <3>2, ReturnEffect
        <4>2. Nested(stack[t], Len(stack[t]), calls[t], disabled)
          BY <2>3, <3>1, <3>2, NestedThrottled
        <4>3. Follows(t)'
          BY <2>1, <4>1, <4>2 DEF Follows, NoOp
        <4> QED
          BY <2>4, <4>3 DEF Follow
      <3>3. CASE op[t].fn \notin disabled
        <4>1. Stopping(stack[t], op[t].fn, calls[t], disabled) /\ stack[t] # <<>>
          BY <2>3, <3>1, <3>3, StopFinds
        <4>2. op' = [op EXCEPT ![t].stage = "stop"]
          BY <2>1, <2>2, <3>3, <4>1
        <4>3. op'[t].stage = "stop" /\ op'[t].fn = op[t].fn /\ op'[t].all = op[t].all
          BY <1>0, <2>2, <4>2 DEF TypeOK, Ops
        <4>4. Follows(t)'
          BY <2>1, <2>6, <4>1, <4>3 DEF Follows
        <4> QED
          BY <2>4, <4>4 DEF Follow
      <3> QED
        BY <3>2, <3>3
    <2> QED
      BY <2>5, <2>6
  <1>5. ASSUME NEW t \in Tids, PopThrottled(t) PROVE Follow'
    <2>1. /\ op[t].stage = "stop" /\ phase' = phase /\ calls' = calls /\ op' = op
          /\ stack[op[t].on] # <<>> /\ Top(op[t].on).func # op[t].fn
          /\ ProfilerStop(op[t].on, t)
      BY <1>5 DEF PopThrottled, appVars
    <2>2. /\ op[t].on = t /\ (~op[t].all => phase[t] = "running")
          /\ (op[t].all => phase[t] = "ending")
      BY <2>1, RunningStop
    <2>3. Popped(t) /\ disabled \subseteq disabled'
      BY <2>1, <2>2, ProfilerStopEffect
    <2>4. stack'[t] = Pop(t) /\ \A r \in Tids \ {t} : stack'[r] = stack[r]
      BY <2>3 DEF TypeOK, Popped
    <2>5. ASSUME NEW r \in Tids \ {t} PROVE Follows(r)'
      BY <2>1, <2>3, <2>4, OthersFollow DEF Follow
    <2>6. ~op[t].all
      BY <2>1, <2>2 DEF Follow, Follows
    <2>7. stack[t] \in Seq(Entries) /\ Stopping(stack[t], op[t].fn, calls[t], disabled)
      BY <2>1, <2>2, <2>6 DEF TypeOK, Follow, Follows
    <2>8. Stopping(Pop(t), op[t].fn, calls[t], disabled)
      BY <2>1, <2>2, <2>7, StoppingTop DEF Top, Pop
    <2>9. Stopping(stack'[t], op[t].fn, calls[t], disabled')
      BY <2>3, <2>4, <2>8, StoppingMore
    <2>10. Follows(t)'
      BY <2>1, <2>6, <2>9 DEF Follows
    <2> QED
      BY <2>5, <2>10 DEF Follow
  <1>6. ASSUME NEW t \in Tids, StopTop(t) PROVE Follow'
    <2>1. /\ op[t].stage = "stop" /\ phase' = phase /\ calls' = calls
          /\ stack[op[t].on] # <<>> /\ Top(op[t].on).func = op[t].fn
          /\ ProfilerStop(op[t].on, op[t].on) /\ Return(t)
      BY <1>6 DEF StopTop, appVars
    <2>2. /\ op[t] \in Ops /\ op[t].on = t /\ (~op[t].all => phase[t] = "running")
          /\ (op[t].all => phase[t] = "ending")
      BY <2>1, RunningStop
    <2>3. Popped(t) /\ disabled \subseteq disabled'
      BY <2>1, <2>2, ProfilerStopEffect
    <2>4. stack'[t] = Pop(t) /\ \A r \in Tids \ {t} : stack'[r] = stack[r]
      BY <2>3 DEF TypeOK, Popped
    <2>5. ASSUME NEW r \in Tids \ {t} PROVE Follows(r)'
      <3>1. op'[r] = op[r]
        BY <1>0, <2>1, ReturnEffect
      <3> QED
        BY <2>1, <2>3, <2>4, <3>1, OthersFollow DEF Follow
    <2>6. CASE op[t].all
      <3>1. op'[t].stage = "check"
        BY <1>0, <2>1, <2>6, ReturnEffect
      <3>2. Follows(t)'
        BY <2>1, <2>2, <2>6, <3>1 DEF Follows
      <3> QED
        BY <2>5, <3>2 DEF Follow
    <2>7. CASE ~op[t].all
      <3>1. op'[t] = NoOp
        BY <1>0, <2>1, <2>7, ReturnEffect
      <3>2. stack[t] \in Seq(Entries) /\ Stopping(stack[t], op[t].fn, calls[t], disabled)
        BY <2>1, <2>2, <2>7 DEF TypeOK, Follow, Follows
      <3>3. Nested(stack[t], Len(stack[t]) - 1, calls[t], disabled)
        BY <2>1, <2>2, <3>2, StoppingTop DEF Top
      <3>4. /\ Len(Pop(t)) = Len(stack[t]) - 1 /\ Len(stack[t]) - 1 \in Nat
            /\ \A i \in 1 .. Len(stack[t]) - 1 : Pop(t)[i] = stack[t][i]
        BY <2>1, <2>2, <3>2, PopProperties DEF Pop
      <3>5. Nested(Pop(t), Len(Pop(t)), calls[t], disabled)
        BY <3>3, <3>4, NestedSame
      <3>6. Nested(stack'[t], Len(stack'[t]), calls[t], disabled')
        BY <2>3, <2>4, <3>5, NestedMore
      <3>7. Follows(t)'
        BY <2>1, <3>1, <3>6 DEF Follows, NoOp
      <3> QED
        BY <2>5, <3>7 DEF Follow
    <2> QED
      BY <2>6, <2>7
  <1>7. ASSUME NEW t \in Tids, Overlap(t) PROVE Follow'
    BY <1>7 DEF Overlap, appVars, tauVars, Follow, Follows, Top
  <1>8. ASSUME NEW t \in Tids, EndThread(t) PROVE Follow'
    <2>1. /\ calls' = calls /\ stack' = stack /\ disabled' = disabled
          /\ phase' = [phase EXCEPT ![t] = "ending"]
          /\ op' = [op EXCEPT ![t] = StopAll(IF t = 0 THEN NumThreads - 1 ELSE t)]
      BY <1>8 DEF EndThread, tauVars
    <2>2. ASSUME NEW r \in Tids \ {t} PROVE Follows(r)'
      BY <1>0, <2>1, OthersFollow DEF Follow, TypeOK
    <2>3. Follows(t)'
      <3>1. phase'[t] = "ending" /\ op'[t].stage = "lock"
        BY <1>0, <2>1 DEF TypeOK, StopAll, NoOp
      <3> QED
        BY <3>1 DEF Follows
    <2> QED
      BY <2>2, <2>3 DEF Follow
  <1>9. ASSUME NEW t \in Tids, StopAllLock(t) PROVE Follow'
    <2>1. /\ calls' = calls /\ stack' = stack /\ disabled' = disabled /\ phase' = phase
          /\ op[t].stage = "lock" /\ op' = [op EXCEPT ![t].stage = "loop"]
      BY <1>9 DEF StopAllLock, tauVars, appVars
    <2>2. ASSUME NEW r \in Tids \ {t} PROVE Follows(r)'
      BY <1>0, <2>1, OthersFollow DEF Follow, TypeOK
    <2>3. Follows(t)'
      <3>1. op'[t].stage = "loop"
        BY <1>0, <2>1 DEF TypeOK, Ops
      <3> QED
        BY <3>1 DEF Follows
    <2> QED
      BY <2>2, <2>3 DEF Follow
  <1>10. ASSUME NEW t \in Tids, StopAllNext(t) PROVE Follow'
    <2>1. /\ calls' = calls /\ stack' = stack /\ disabled' = disabled /\ phase' = phase
          /\ op[t].stage = "loop" /\ stack[op[t].on] # <<>>
          /\ op' = [op EXCEPT ![t].stage = "call", ![t].fn = Top(op[t].on).func,
                              ![t].pos = Len(stack[op[t].on])]
      BY <1>10 DEF StopAllNext, tauVars, appVars
    <2>2. ASSUME NEW r \in Tids \ {t} PROVE Follows(r)'
      <3>1. op'[r] = op[r]
        BY <1>0, <2>1 DEF TypeOK
      <3> QED
        BY <2>1, <3>1, OthersFollow DEF Follow
    <2>3. op[t] \in Ops /\ op[t].on \in Tids
      BY <1>0 DEF TypeOK, Ops
    <2>4. op[t].all /\ op[t].on = t /\ phase[t] = "ending"
      BY <2>1, <2>3 DEF Ops, Shape, Ownership, EmptyOutside
    <2>5. op'[t].stage = "call" /\ op'[t].fn = Top(t).func
      BY <1>0, <2>1, <2>3, <2>4 DEF TypeOK, Ops
    <2>6. Follows(t)'
      BY <2>1, <2>4, <2>5 DEF Follows, Top
    <2> QED
      BY <2>2, <2>6 DEF Follow
  <1>11. ASSUME NEW t \in Tids, StopAllCheck(t) PROVE Follow'
    <2>1. /\ calls' = calls /\ disabled' = disabled /\ phase' = phase
          /\ op[t].stage = "check" /\ op' = [op EXCEPT ![t].stage = "loop"]
          /\ stack' = stack \/ stack' = [stack EXCEPT ![op[t].on] = Pop(op[t].on)]
      BY <1>11 DEF StopAllCheck, tauVars, appVars
    <2>2. op[t].on = t /\ (op[t].all => phase[t] = "ending") /\ op[t].all
      BY <2>1, RunningStop
    <2>3. ASSUME NEW r \in Tids \ {t} PROVE Follows(r)'
      <3>1. op'[r] = op[r] /\ stack'[r] = stack[r]
        BY <1>0, <2>1, <2>2 DEF TypeOK
      <3> QED
        BY <2>1, <3>1, OthersFollow DEF Follow
    <2>4. op'[t].stage = "loop"
      BY <1>0, <2>1 DEF TypeOK, Ops
    <2>5. Follows(t)'
      BY <2>1, <2>2, <2>4 DEF Follows
    <2> QED
      BY <2>3, <2>5 DEF Follow
  <1>12. ASSUME NEW t \in Tids, StopAllDone(t) PROVE Follow'
    <2>1. /\ calls' = calls /\ stack' = stack /\ disabled' = disabled
          /\ op[t].stage = "loop"
          /\ phase' = phase \/ phase' = [phase EXCEPT ![t] = "done"]
          /\ op' = [op EXCEPT ![t] = StopAll(op[t].on - 1)] \/ op' = [op EXCEPT ![t] = NoOp]
      BY <1>12 DEF StopAllDone, tauVars
    <2>2. ASSUME NEW r \in Tids \ {t} PROVE Follows(r)'
      <3>1. op'[r] = op[r] /\ (phase'[r] = phase[r])
        BY <1>0, <2>1 DEF TypeOK
      <3> QED
        BY <2>1, <3>1, OthersFollow DEF Follow
    <2>3. phase[t] # "running" /\ phase'[t] # "running"
      <3>1. op[t] \in Ops
        BY <1>0 DEF TypeOK
      <3>2. phase[t] # "running"
        BY <2>1, <3>1 DEF Ops, Shape, Ownership
      <3> QED
        BY <2>1, <3>2 DEF TypeOK
    <2>4. op'[t].stage \in {"idle", "lock"}
      <3>1. StopAll(op[t].on - 1).stage = "lock" /\ NoOp.stage = "idle"
        BY DEF StopAll, NoOp
      <3> QED
        BY <1>0, <2>1, <3>1 DEF TypeOK
    <2>5. Follows(t)'
      BY <2>3, <2>4 DEF Follows
    <2> QED
      BY <2>2, <2>5 DEF Follow
  <1>13. ASSUME NEW t \in Tids, Purge(t) \/ RestartNext(t) PROVE Follow'
    <2>1. /\ calls' = calls /\ disabled' = disabled /\ phase' = phase
          /\ op[t].stage \in {"idle", "purge"}
          /\ op'[t].stage \in {"idle", "purge"} /\ ~op'[t].all
          /\ \A r \in Tids \ {t} : stack'[r] = stack[r] /\ op'[r] = op[r]
          /\ SameTimers(stack'[t], stack[t])
      BY <1>0, <1>13, PurgeStep
    <2>2. ASSUME NEW r \in Tids \ {t} PROVE Follows(r)'
      BY <2>1, <2>2, OthersFollow DEF Follow
    <2>3. ASSUME phase[t] = "running" PROVE Nested(stack'[t], Len(stack'[t]), calls[t], disabled)
      <3>1. /\ stack[t] \in Seq(Entries) /\ Len(stack[t]) \in Nat
            /\ Nested(stack[t], Len(stack[t]), calls[t], disabled)
        BY <2>1, <2>3 DEF TypeOK, Follow, Follows
      <3> QED
        BY <2>1, <3>1, NestedSame DEF SameTimers
    <2>4. Follows(t)'
      BY <2>1, <2>3 DEF Follows
    <2> QED
      BY <2>2, <2>4 DEF Follow
  <1>14. CASE Tick \/ UNCHANGED vars
    BY <1>14 DEF Tick, vars, tauVars, appVars, Follow, Follows, Top
  <1> QED
    BY <1>0, <1>1, <1>2, <1>3, <1>4, <1>5, <1>6, <1>7, <1>8, <1>9, <1>10, <1>11, <1>12, <1>13,
       <1>14 DEF Next, StopStep, StopAllStep, Finished, Toggle

(* No stop reports an overlap or runs off the stack.                       *)
LEMMA NextNoOverlap ==
    ASSUME Joined, ~Toggles, TypeOK, Shape, StaysEnabled, Follow, NoOverlap, [Next]_vars
    PROVE  NoOverlap'
  <1>1. ASSUME NEW t \in Real, Overlap(t) PROVE FALSE
    <2>0. t \in Tids
      BY RealIsTids
    <2>1. /\ op[t].stage = "stop"
          /\ \/ stack[op[t].on] = <<>>
             \/ Top(op[t].on).func # op[t].fn /\ ~IsThrottled(Top(op[t].on).func)
      BY <1>1 DEF Overlap
    <2>2. /\ op[t].on = t /\ (~op[t].all => phase[t] = "running")
          /\ \A f : IsThrottled(f) <=> f \in disabled
      BY <2>0, <2>1, RunningStop
    <2>3. CASE op[t].all
      BY <2>0, <2>1, <2>2, <2>3 DEF Follow, Follows
    <2>4. CASE ~op[t].all
      <3>1. stack[t] \in Seq(Entries) /\ Stopping(stack[t], op[t].fn, calls[t], disabled)
        BY <2>0, <2>1, <2>2, <2>4 DEF TypeOK, Follow, Follows
      <3> QED
        BY <2>1, <2>2, <3>1, StoppingTop DEF Top
    <2> QED
      BY <2>3, <2>4
  <1>2. CASE broken' = broken
    BY <1>2 DEF NoOverlap
  <1>3. ASSUME NEW t \in Real PROVE StopStep(t) => Overlap(t) \/ broken' = broken
    BY DEF StopStep, StopCall, PopThrottled, StopTop
  <1>4. ASSUME NEW t \in Real PROVE StopAllStep(t) => broken' = broken
    BY DEF StopAllStep, StopAllLock, StopAllNext, StopAllCheck, StopAllDone
  <1>5. ASSUME NEW t \in Real, NEW s \in Tids
        PROVE  Begin(t, s) \/ Leave(t, s) \/ (\E f \in Funcs : Enter(t, s, f)) => broken' = broken
    BY DEF Begin, Leave, Enter
  <1>6. ASSUME NEW t \in Real PROVE EndThread(t) \/ Toggle(t) \/ Purge(t) \/ RestartNext(t)
                                   => broken' = broken
    BY DEF EndThread, Toggle, Purge, RestartNext
  <1>7. Tick \/ Finished \/ UNCHANGED vars => broken' = broken
    BY DEF Tick, Finished, vars
  <1> QED
    BY <1>1, <1>2, <1>3, <1>4, <1>5, <1>6, <1>7 DEF Next

(* A properly nested application that main joins and that does not switch  *)
(* TAU off is never aborted: whatever is throttled by whom, and however    *)
(* deep or recursive the calls, a stop finds its timer.                    *)
THEOREM StopsFindTheirTimers == Joined /\ ~Toggles => (Spec => []NoOverlap)
  <1> SUFFICES ASSUME Joined, ~Toggles PROVE Spec => []NoOverlap
    OBVIOUS
  <1> DEFINE IInv == TypeOK /\ Shape /\ StaysEnabled /\ Follow /\ NoOverlap
  <1>1. Init => IInv
    <2>1. Init => StaysEnabled /\ NoOverlap
      BY DEF Init, StaysEnabled, NoOverlap
    <2>2. Init => Follow
      BY RealIsTids DEF Init, Follow, Follows, NoOp
    <2> QED
      BY <2>1, <2>2, InitType, InitShape
  <1>2. IInv /\ [Next]_vars => IInv'
    BY NextType, NextShape, NextEnabled, NextFollow, NextNoOverlap
  <1> QED
    BY <1>1, <1>2, PTL DEF Spec

-----------------------------------------------------------------------------
(***************************************************************************)
(* The numbers TAU records are exact: the times, the counts of calls and   *)
(* subroutine calls, what a dump writes, and that all is written at the    *)
(* end, for any number of threads, functions and calls.                    *)
(***************************************************************************)
-----------------------------------------------------------------------------
(* The times of one stack.                                                 *)

\* The activations of f on the stack q.
Acts(q, f) == {i \in 1 .. Len(q) : q[i].func = f}

\* OpenSelf for the stack q, the clock being now.
Open(q, now, i) == (IF i < Len(q) THEN q[i + 1].start ELSE now) - q[i].start

Opens(q, now, f) == [i \in Acts(q, f) |-> Open(q, now, i)]

\* The exclusive times in m, with the open parts, are those in h.
SelfExact(q, now, m, h) ==
    \A f \in Timers : h[f] = m[f].excl + SumOf(Opens(q, now, f))

\* The inclusive times in m, with the open part of the lowest activation, are
\* those in h.
InclExact(q, now, m, h) ==
    \A f \in Timers :
       /\ Acts(q, f) = {} => h[f] = m[f].incl
       /\ \A i \in Acts(q, f) :
             (\A j \in Acts(q, f) : i <= j) => h[f] = m[f].incl + (now - q[i].start)

\* The times in n are those in m, and those in m after the stop of the timer on
\* top of the stack q.
SameTimes(m, n) == \A g \in Timers : n[g].excl = m[g].excl /\ n[g].incl = m[g].incl

TimesStopped(m, n, q, now) ==
    LET e == q[Len(q)]
        total == now - e.start
    IN \A g \in Timers :
          /\ n[g].incl = m[g].incl + (IF g = e.func /\ e.addIncl THEN total ELSE 0)
          /\ n[g].excl = (m[g].excl + (IF g = e.func THEN total ELSE 0))
                         - (IF Len(q) # 1 /\ g = q[Len(q) - 1].func THEN total ELSE 0)

(* The activations are finitely many, and their open parts numbers.        *)
LEMMA OpensType ==
    ASSUME NEW q \in Seq(Entries), NEW now \in Nat, NEW f
    PROVE  /\ IsFiniteSet(Acts(q, f)) /\ Acts(q, f) \subseteq 1 .. Len(q)
           /\ Opens(q, now, f) \in [Acts(q, f) -> Int]
           /\ \A i \in 1 .. Len(q) : Open(q, now, i) \in Int /\ q[i].start \in Nat
           /\ SumOf(Opens(q, now, f)) \in Int
  <1>1. Len(q) \in Nat /\ \A i \in 1 .. Len(q) : q[i].start \in Nat
    <2>1. \A i \in 1 .. Len(q) : q[i] \in Entries
      BY ElementOfSeq
    <2> QED
      BY <2>1 DEF Entries
  <1>2. IsFiniteSet(Acts(q, f)) /\ Acts(q, f) \subseteq 1 .. Len(q)
    <2>1. IsFiniteSet(1 .. Len(q))
      BY <1>1, FS_Interval
    <2> QED
      BY <2>1, FS_Subset DEF Acts
  <1>3. \A i \in 1 .. Len(q) : Open(q, now, i) \in Int
    <2> SUFFICES ASSUME NEW i \in 1 .. Len(q) PROVE Open(q, now, i) \in Int
      OBVIOUS
    <2>1. q[i].start \in Nat /\ (i < Len(q) => q[i + 1].start \in Nat)
      <3>1. i < Len(q) => i + 1 \in 1 .. Len(q)
        BY <1>1
      <3> QED
        BY <1>1, <3>1
    <2> QED
      BY <2>1 DEF Open
  <1>4. Opens(q, now, f) \in [Acts(q, f) -> Int]
    BY <1>2, <1>3 DEF Opens
  <1>5. SumOf(Opens(q, now, f)) \in Int
    BY <1>2, <1>4, SumInt
  <1> QED
    BY <1>1, <1>2, <1>3, <1>4, <1>5

(* The types of the numbers.                                               *)
LEMMA MetricsType ==
    ASSUME NEW m \in [Timers -> Metrics], NEW f \in Timers
    PROVE  m[f].excl \in Int /\ m[f].incl \in Int /\ m[f].calls \in Nat /\ m[f].subrs \in Nat
           /\ m[f].onStack \in BOOLEAN
  <1>1. m[f] \in Metrics
    OBVIOUS
  <1> QED
    BY <1>1 DEF Metrics

(* Starting a timer: its open part is nothing yet, and that of the one     *)
(* below ends where it starts.                                             *)
LEMMA PushOpens ==
    ASSUME NEW q \in Seq(Entries), NEW e \in Entries, NEW now \in Nat, e.start = now, NEW f
    PROVE  SumOf(Opens(Append(q, e), now, f)) = SumOf(Opens(q, now, f))
  <1> DEFINE p == Append(q, e)
             L == Len(q)
             x == L + 1
  <1>1. /\ L \in Nat /\ Len(p) = x /\ p[x] = e /\ p \in Seq(Entries)
        /\ \A i \in 1 .. L : p[i] = q[i] /\ i \in 1 .. x /\ i # x
        /\ \A i \in 1 .. x : i \in 1 .. L \/ i = x
    BY AppendEntry, AppendProperties
  <1>2. Open(p, now, x) = 0
    BY <1>1 DEF Open, Entries
  <1>3. ASSUME NEW i \in 1 .. L PROVE Open(p, now, i) = Open(q, now, i)
    <2>1. CASE i = L
      BY <1>1, <2>1 DEF Open
    <2>2. CASE i # L
      <3>1. i < L /\ i < x /\ i + 1 \in 1 .. L
        BY <1>1, <2>2
      <3> QED
        BY <1>1, <3>1 DEF Open
    <2> QED
      BY <2>1, <2>2
  <1> HIDE DEF p
  <1>4. CASE e.func = f
    <2>1. Acts(p, f) = Acts(q, f) \cup {x} /\ x \in Acts(p, f) /\ x \notin Acts(q, f)
      BY <1>1, <1>4 DEF Acts
    <2>2. Without(Opens(p, now, f), x) = Opens(q, now, f)
      <3>1. DOMAIN Opens(p, now, f) = Acts(p, f) /\ Acts(p, f) \ {x} = Acts(q, f)
        BY <2>1 DEF Opens
      <3>2. \A i \in Acts(q, f) : Opens(p, now, f)[i] = Open(q, now, i)
        BY <1>3, <2>1 DEF Opens, Acts
      <3> QED
        BY <3>1, <3>2 DEF Without, Opens
    <2>3. Opens(p, now, f)[x] = 0
      BY <1>2, <2>1 DEF Opens
    <2>4. SumOf(Opens(p, now, f)) = Opens(p, now, f)[x] + SumOf(Without(Opens(p, now, f), x))
          /\ SumOf(Without(Opens(p, now, f), x)) \in Int
      <3>1. IsFiniteSet(Acts(p, f)) /\ Opens(p, now, f) \in [Acts(p, f) -> Int]
        BY <1>1, OpensType
      <3> QED
        BY <2>1, <3>1, SumRemove
    <2>5. SumOf(Opens(p, now, f)) = SumOf(Opens(q, now, f))
      BY <2>2, <2>3, <2>4
    <2> QED
      BY <2>5 DEF p
  <1>5. CASE e.func # f
    <2>1. Acts(p, f) = Acts(q, f)
      BY <1>1, <1>5 DEF Acts
    <2>2. Opens(p, now, f) = Opens(q, now, f)
      BY <1>3, <2>1 DEF Opens, Acts
    <2> QED
      BY <2>2 DEF p
  <1> QED
    BY <1>4, <1>5

(* So a start keeps the exclusive times exact.                             *)
LEMMA PushSelf ==
    ASSUME NEW q \in Seq(Entries), NEW e \in Entries, NEW now \in Nat, e.start = now,
           NEW m, NEW n, NEW h, SelfExact(q, now, m, h), SameTimes(m, n)
    PROVE  SelfExact(Append(q, e), now, n, h)
  BY PushOpens DEF SelfExact, SameTimes

(* Stopping the timer on top: its open part is its total, which the one    *)
(* below gets as open part.                                                *)
LEMMA PopOpens ==
    ASSUME NEW q \in Seq(Entries), q # <<>>, NEW now \in Nat, NEW f,
           NEW total, total = now - q[Len(q)].start
    PROVE  SumOf(Opens(SubSeq(q, 1, Len(q) - 1), now, f))
             = (SumOf(Opens(q, now, f)) - (IF q[Len(q)].func = f THEN total ELSE 0))
               + (IF Len(q) # 1 /\ q[Len(q) - 1].func = f THEN total ELSE 0)
  <1> DEFINE p == SubSeq(q, 1, Len(q) - 1)
             x == Len(q)
             y == x - 1
  <1>1. /\ x \in Nat \ {0} /\ y \in Nat /\ Len(p) = y /\ p \in Seq(Entries)
        /\ \A i \in 1 .. y : p[i] = q[i] /\ i \in 1 .. x /\ i # x
        /\ \A i \in 1 .. x : i \in 1 .. y \/ i = x
        /\ x \in 1 .. x /\ y + 1 = x /\ y < x
    BY PopProperties
  <1> HIDE DEF p
  <1>2. Open(q, now, x) = total /\ total \in Int
    BY <1>1, OpensType DEF Open
  <1>3. ASSUME NEW i \in 1 .. y, i # y PROVE Open(p, now, i) = Open(q, now, i)
    <2>1. i < y /\ i < x /\ i + 1 \in 1 .. y
      BY <1>1, <1>3
    <2> QED
      BY <1>1, <2>1 DEF Open
  <1>4. y \in 1 .. y => Open(p, now, y) = Open(q, now, y) + total
    <2> SUFFICES ASSUME y \in 1 .. y PROVE Open(p, now, y) = Open(q, now, y) + total
      OBVIOUS
    <2>1. Open(p, now, y) = now - q[y].start
      BY <1>1 DEF Open
    <2>2. Open(q, now, y) = q[x].start - q[y].start
      BY <1>1 DEF Open
    <2>3. q[x].start \in Nat /\ q[y].start \in Nat
      BY <1>1, OpensType
    <2> QED
      BY <2>1, <2>2, <2>3
  <1>5. (x # 1) <=> (y \in 1 .. y)
    BY <1>1
  <1>6. /\ SumOf(Opens(p, now, f)) \in Int /\ SumOf(Opens(q, now, f)) \in Int
        /\ IsFiniteSet(Acts(p, f)) /\ IsFiniteSet(Acts(q, f))
        /\ Opens(p, now, f) \in [Acts(p, f) -> Int] /\ Opens(q, now, f) \in [Acts(q, f) -> Int]
    BY <1>1, OpensType
  \* the open parts of what is left, before the stop
  <1> DEFINE d == [i \in Acts(p, f) |-> Open(q, now, i)]
  <1>7. d \in [Acts(p, f) -> Int]
    <2>1. \A i \in Acts(p, f) : i \in 1 .. x
      BY <1>1 DEF Acts
    <2> QED
      BY <2>1, OpensType
  <1>8. SumOf(d) = SumOf(Opens(q, now, f)) - (IF q[x].func = f THEN total ELSE 0)
    <2>1. CASE q[x].func = f
      <3>1. Acts(p, f) = Acts(q, f) \ {x} /\ x \in Acts(q, f)
        BY <1>1, <2>1 DEF Acts
      <3>2. Without(Opens(q, now, f), x) = d
        BY <3>1 DEF Without, Opens
      <3>3. SumOf(Opens(q, now, f)) = Opens(q, now, f)[x] + SumOf(Without(Opens(q, now, f), x))
            /\ SumOf(Without(Opens(q, now, f), x)) \in Int
        BY <1>6, <3>1, SumRemove
      <3>4. Opens(q, now, f)[x] = total
        BY <1>2, <3>1 DEF Opens
      <3> HIDE DEF d
      <3> QED
        BY <1>2, <2>1, <3>2, <3>3, <3>4
    <2>2. CASE q[x].func # f
      <3>1. Acts(p, f) = Acts(q, f)
        BY <1>1, <2>2 DEF Acts
      <3>2. Opens(q, now, f) = d
        BY <3>1 DEF Opens
      <3> QED
        BY <1>6, <2>2, <3>2
    <2> QED
      BY <2>1, <2>2
  <1>9. SumOf(Opens(p, now, f)) = SumOf(d) + (IF x # 1 /\ q[y].func = f THEN total ELSE 0)
    <2>0. SumOf(d) \in Int
      BY <1>6, <1>7, SumInt
    <2>1. CASE x # 1 /\ q[y].func = f
      <3>1. y \in Acts(p, f)
        BY <1>1, <1>5, <2>1 DEF Acts
      <3>2. \A i \in Acts(p, f) \ {y} : Opens(p, now, f)[i] = d[i]
        BY <1>1, <1>3 DEF Opens, Acts
      <3>3. Opens(p, now, f)[y] - d[y] = total
        <4>1. Opens(p, now, f)[y] = d[y] + total /\ d[y] \in Int
          BY <1>4, <1>5, <1>7, <2>1, <3>1 DEF Opens
        <4> QED
          BY <1>2, <4>1
      <3> HIDE DEF d
      <3>4. SumOf(Opens(p, now, f)) = SumOf(d) + (Opens(p, now, f)[y] - d[y])
        BY <1>6, <1>7, <3>1, <3>2, SumChange
      <3> QED
        BY <2>1, <3>3, <3>4
    <2>2. CASE ~(x # 1 /\ q[y].func = f)
      <3>1. \A i \in Acts(p, f) : i # y /\ i \in 1 .. y
        BY <1>1, <1>5, <2>2 DEF Acts
      <3>2. Opens(p, now, f) = d
        BY <1>3, <3>1 DEF Opens
      <3> QED
        BY <2>0, <2>2, <3>2
    <2> QED
      BY <2>1, <2>2
  <1> HIDE DEF d
  <1> QED
    BY <1>8, <1>9 DEF p

(* So a stop keeps the exclusive times exact.                              *)
LEMMA PopSelf ==
    ASSUME NEW q \in Seq(Entries), q # <<>>, NEW now \in Nat,
           NEW m \in [Timers -> Metrics], NEW n \in [Timers -> Metrics], NEW h,
           SelfExact(q, now, m, h), TimesStopped(m, n, q, now)
    PROVE  SelfExact(SubSeq(q, 1, Len(q) - 1), now, n, h)
  <1> SUFFICES ASSUME NEW f \in Timers
               PROVE  h[f] = n[f].excl + SumOf(Opens(SubSeq(q, 1, Len(q) - 1), now, f))
    BY DEF SelfExact
  <1>1. PICK total \in Int : total = now - q[Len(q)].start
    <2>1. Len(q) \in 1 .. Len(q)
      BY PopProperties
    <2>2. q[Len(q)].start \in Nat
      BY <2>1, OpensType
    <2> QED
      BY <2>2
  <1>2. SumOf(Opens(SubSeq(q, 1, Len(q) - 1), now, f))
             = (SumOf(Opens(q, now, f)) - (IF q[Len(q)].func = f THEN total ELSE 0))
               + (IF Len(q) # 1 /\ q[Len(q) - 1].func = f THEN total ELSE 0)
    BY <1>1, PopOpens
  <1>3. n[f].excl = (m[f].excl + (IF f = q[Len(q)].func THEN total ELSE 0))
                    - (IF Len(q) # 1 /\ f = q[Len(q) - 1].func THEN total ELSE 0)
    BY <1>1 DEF TimesStopped
  <1>4. h[f] = m[f].excl + SumOf(Opens(q, now, f))
    BY DEF SelfExact
  <1>5. m[f].excl \in Int /\ SumOf(Opens(q, now, f)) \in Int
    BY MetricsType, OpensType
  <1>6. PICK u \in Int, v \in Int :
           /\ u = (IF q[Len(q)].func = f THEN total ELSE 0)
           /\ v = (IF Len(q) # 1 /\ q[Len(q) - 1].func = f THEN total ELSE 0)
    BY <1>1
  <1>7. n[f].excl = (m[f].excl + u) - v
    <2>1. /\ (IF f = q[Len(q)].func THEN total ELSE 0) = u
          /\ (IF Len(q) # 1 /\ f = q[Len(q) - 1].func THEN total ELSE 0) = v
      BY <1>6
    <2> QED
      BY <1>3, <2>1
  <1>8. SumOf(Opens(SubSeq(q, 1, Len(q) - 1), now, f)) = (SumOf(Opens(q, now, f)) - u) + v
    BY <1>2, <1>6
  <1> QED
    BY <1>4, <1>5, <1>6, <1>7, <1>8

(* Time passes for the timer on top.                                       *)
LEMMA TickOpens ==
    ASSUME NEW q \in Seq(Entries), NEW now \in Nat, NEW f
    PROVE  SumOf(Opens(q, now + 1, f))
             = SumOf(Opens(q, now, f)) + (IF q # <<>> /\ q[Len(q)].func = f THEN 1 ELSE 0)
  <1>1. /\ IsFiniteSet(Acts(q, f))
        /\ Opens(q, now, f) \in [Acts(q, f) -> Int] /\ Opens(q, now + 1, f) \in [Acts(q, f) -> Int]
        /\ SumOf(Opens(q, now, f)) \in Int /\ Len(q) \in Nat
    BY OpensType
  <1>2. \A i \in Acts(q, f) \ {Len(q)} : Opens(q, now + 1, f)[i] = Opens(q, now, f)[i]
    BY <1>1 DEF Opens, Open, Acts
  <1>3. CASE q # <<>> /\ q[Len(q)].func = f
    <2>1. Len(q) \in Acts(q, f)
      BY <1>3, PopProperties DEF Acts
    <2>2. Opens(q, now + 1, f)[Len(q)] - Opens(q, now, f)[Len(q)] = 1
      <3>1. /\ Opens(q, now, f)[Len(q)] = now - q[Len(q)].start
            /\ Opens(q, now + 1, f)[Len(q)] = (now + 1) - q[Len(q)].start
        BY <1>1, <2>1 DEF Opens, Open
      <3>2. q[Len(q)].start \in Nat
        BY <2>1, OpensType DEF Acts
      <3> QED
        BY <3>1, <3>2
    <2>3. SumOf(Opens(q, now + 1, f))
            = SumOf(Opens(q, now, f)) + (Opens(q, now + 1, f)[Len(q)] - Opens(q, now, f)[Len(q)])
      BY <1>1, <1>2, <2>1, SumChange
    <2> QED
      BY <1>3, <2>2, <2>3
  <1>4. CASE ~(q # <<>> /\ q[Len(q)].func = f)
    <2>1. Len(q) \notin Acts(q, f)
      <3>1. q = <<>> => Acts(q, f) = {}
        BY DEF Acts
      <3> QED
        BY <1>4, <3>1 DEF Acts
    <2>2. Opens(q, now + 1, f) = Opens(q, now, f)
      BY <1>1, <1>2, <2>1
    <2> QED
      BY <1>1, <1>4, <2>2
  <1> QED
    BY <1>3, <1>4

(* So the passing of time keeps the exclusive times exact.                 *)
LEMMA TickSelf ==
    ASSUME NEW q \in Seq(Entries), NEW now \in Nat, NEW m \in [Timers -> Metrics], NEW h, NEW k,
           SelfExact(q, now, m, h),
           \A f \in Timers : k[f] = IF q # <<>> /\ q[Len(q)].func = f THEN h[f] + 1 ELSE h[f]
    PROVE  SelfExact(q, now + 1, m, k)
  <1> SUFFICES ASSUME NEW f \in Timers
               PROVE  k[f] = m[f].excl + SumOf(Opens(q, now + 1, f))
    BY DEF SelfExact
  <1>1. m[f].excl \in Int /\ SumOf(Opens(q, now, f)) \in Int
    BY MetricsType, OpensType
  <1>2. h[f] = m[f].excl + SumOf(Opens(q, now, f))
    BY DEF SelfExact
  <1>3. SumOf(Opens(q, now + 1, f))
             = SumOf(Opens(q, now, f)) + (IF q # <<>> /\ q[Len(q)].func = f THEN 1 ELSE 0)
    BY TickOpens
  <1>4. PICK a \in Int, b \in Int : a = m[f].excl /\ b = SumOf(Opens(q, now, f))
    BY <1>1
  <1> QED
    BY <1>2, <1>3, <1>4

(* A purge starts every timer over.                                        *)
LEMMA RestartSelf ==
    ASSUME NEW q \in Seq(Entries), NEW now \in Nat, \A i \in 1 .. Len(q) : q[i].start = now,
           NEW n, NEW h, \A f \in Timers : n[f].excl = 0 /\ h[f] = 0
    PROVE  SelfExact(q, now, n, h)
  <1> SUFFICES ASSUME NEW f \in Timers
               PROVE  h[f] = n[f].excl + SumOf(Opens(q, now, f))
    BY DEF SelfExact
  <1>1. IsFiniteSet(Acts(q, f)) /\ Opens(q, now, f) \in [Acts(q, f) -> Int] /\ Len(q) \in Nat
    BY OpensType
  <1>2. \A i \in Acts(q, f) : Opens(q, now, f)[i] = 0
    BY <1>1 DEF Opens, Open, Acts
  <1>3. SumOf(Opens(q, now, f)) = 0
    BY <1>1, <1>2, SumZero
  <1> QED
    BY <1>3

(* The inclusive time of a timer that starts.                              *)
LEMMA PushIncl ==
    ASSUME NEW q \in Seq(Entries), NEW e \in Entries, NEW now \in Nat, e.start = now,
           NEW m \in [Timers -> Metrics], NEW n, NEW h, InclExact(q, now, m, h), SameTimes(m, n)
    PROVE  InclExact(Append(q, e), now, n, h)
  <1> DEFINE p == Append(q, e)
             L == Len(q)
             x == L + 1
  <1>1. /\ L \in Nat /\ Len(p) = x /\ p[x] = e
        /\ \A i \in 1 .. L : p[i] = q[i] /\ i \in 1 .. x /\ i < x
        /\ \A i \in 1 .. x : i \in 1 .. L \/ i = x
        /\ \A i \in 1 .. L : ~(x <= i)
    BY AppendEntry
  <1> HIDE DEF p, x
  <1>2. ASSUME NEW f \in Timers
        PROVE  /\ Acts(q, f) \subseteq Acts(p, f)
               /\ \A i \in Acts(p, f) : i \in Acts(q, f) \/ i = x
               /\ \A i \in Acts(q, f) : p[i] = q[i] /\ ~(x <= i)
    BY <1>1 DEF Acts
  <1>3. ASSUME NEW f \in Timers, Acts(p, f) = {} PROVE h[f] = n[f].incl
    BY <1>2, <1>3 DEF InclExact, SameTimes
  <1>4. ASSUME NEW f \in Timers, NEW i \in Acts(p, f), \A j \in Acts(p, f) : i <= j
        PROVE  h[f] = n[f].incl + (now - p[i].start)
    <2>1. CASE i \in Acts(q, f)
      <3>1. h[f] = m[f].incl + (now - q[i].start)
        BY <1>2, <1>4, <2>1 DEF InclExact
      <3> QED
        BY <1>2, <2>1, <3>1 DEF SameTimes
    <2>2. CASE i = x
      <3>1. Acts(q, f) = {}
        BY <1>2, <1>4, <2>2
      <3>2. h[f] = m[f].incl
        BY <3>1 DEF InclExact
      <3>3. p[i].start = now /\ m[f].incl \in Int
        BY <1>1, <2>2, MetricsType
      <3> QED
        BY <3>2, <3>3 DEF SameTimes
    <2> QED
      BY <1>2, <1>4, <2>1, <2>2
  <1>5. InclExact(p, now, n, h)
    BY <1>3, <1>4 DEF InclExact
  <1> QED
    BY <1>5 DEF p

(* The inclusive time of a timer that stops.  It is added when the timer   *)
(* carries the AddInclFlag, which the lowest activation does.              *)
LEMMA PopIncl ==
    ASSUME NEW q \in Seq(Entries), q # <<>>, NEW now \in Nat,
           NEW m \in [Timers -> Metrics], NEW n \in [Timers -> Metrics], NEW h,
           Marked(q, m), InclExact(q, now, m, h), TimesStopped(m, n, q, now)
    PROVE  InclExact(SubSeq(q, 1, Len(q) - 1), now, n, h)
  <1> DEFINE p == SubSeq(q, 1, Len(q) - 1)
             x == Len(q)
             y == x - 1
  <1>1. /\ x \in Nat \ {0} /\ y \in Nat /\ Len(p) = y
        /\ \A i \in 1 .. y : p[i] = q[i] /\ i \in 1 .. x /\ i # x /\ ~(x <= i)
        /\ \A i \in 1 .. x : (i \in 1 .. y \/ i = x) /\ i <= x
        /\ x \in 1 .. x
    BY PopProperties
  <1> HIDE DEF p
  <1>2. PICK e \in Entries, total \in Int : e = q[x] /\ total = now - e.start
    <2>1. q[x] \in Entries
      BY <1>1, ElementOfSeq
    <2>2. now - q[x].start \in Int
      BY <2>1 DEF Entries
    <2> QED
      BY <2>1, <2>2
  <1>3. e.addIncl <=> \A j \in 1 .. x : q[j].func = e.func => x <= j
    BY <1>1, <1>2 DEF Marked
  <1>4. \A g \in Timers : n[g].incl = m[g].incl + (IF g = e.func /\ e.addIncl THEN total ELSE 0)
    BY <1>2 DEF TimesStopped
  <1>5. \A g \in Timers : m[g].incl \in Int
    BY MetricsType
  <1> HIDE DEF x, y
  <1>6. ASSUME NEW f \in Timers
        PROVE  /\ Acts(p, f) = Acts(q, f) \ {x}
               /\ x \in Acts(q, f) <=> e.func = f
               /\ \A i \in Acts(p, f) : p[i] = q[i] /\ ~(x <= i)
    <2>1. Acts(p, f) = {i \in 1 .. y : q[i].func = f} /\ Acts(q, f) = {i \in 1 .. x : q[i].func = f}
      BY <1>1 DEF Acts, x
    <2>2. 1 .. y = (1 .. x) \ {x}
      BY <1>1 DEF y
    <2> QED
      BY <1>1, <1>2, <2>1, <2>2
  <1>7. ASSUME NEW f \in Timers, f # e.func
        PROVE  /\ Acts(p, f) = {} => h[f] = n[f].incl
               /\ \A i \in Acts(p, f) : (\A j \in Acts(p, f) : i <= j)
                     => h[f] = n[f].incl + (now - p[i].start)
    <2>1. Acts(p, f) = Acts(q, f)
      BY <1>6, <1>7
    <2>2. n[f].incl = m[f].incl
      BY <1>4, <1>5, <1>7
    <2> QED
      BY <1>6, <2>1, <2>2 DEF InclExact
  <1>8. ASSUME NEW f \in Timers, f = e.func, e.addIncl
        PROVE  /\ Acts(p, f) = {} => h[f] = n[f].incl
               /\ \A i \in Acts(p, f) : (\A j \in Acts(p, f) : i <= j)
                     => h[f] = n[f].incl + (now - p[i].start)
    <2>1. \A j \in Acts(q, f) : x <= j
      BY <1>3, <1>8 DEF Acts, x
    <2>2. Acts(p, f) = {}
      BY <1>6, <2>1
    <2>3. h[f] = m[f].incl + (now - q[x].start)
      BY <1>6, <1>8, <2>1 DEF InclExact
    <2> QED
      BY <1>2, <1>4, <1>8, <2>2, <2>3
  <1>9. ASSUME NEW f \in Timers, f = e.func, ~e.addIncl
        PROVE  /\ Acts(p, f) = {} => h[f] = n[f].incl
               /\ \A i \in Acts(p, f) : (\A j \in Acts(p, f) : i <= j)
                     => h[f] = n[f].incl + (now - p[i].start)
    <2>1. PICK k \in 1 .. x : q[k].func = f /\ ~(x <= k)
      BY <1>3, <1>9
    <2>2. k \in Acts(p, f) /\ k <= x
      <3>1. k # x /\ k \in Acts(q, f)
        BY <1>1, <2>1 DEF Acts, x
      <3> QED
        BY <1>1, <1>6, <3>1
    <2>3. n[f].incl = m[f].incl
      BY <1>4, <1>5, <1>9
    <2>4. ASSUME NEW i \in Acts(p, f), \A j \in Acts(p, f) : i <= j
          PROVE  h[f] = n[f].incl + (now - p[i].start)
      <3>1. i \in 1 .. x
        BY <1>6 DEF Acts, x
      <3>2. i \in Acts(q, f) /\ \A j \in Acts(q, f) : i <= j
        BY <1>1, <1>6, <2>4, <3>1
      <3>3. h[f] = m[f].incl + (now - q[i].start)
        BY <3>2 DEF InclExact
      <3> QED
        BY <1>6, <2>3, <3>3
    <2> QED
      BY <2>2, <2>4
  <1>10. InclExact(p, now, n, h)
    BY <1>7, <1>8, <1>9 DEF InclExact
  <1> QED
    BY <1>10 DEF p, x

\* k is h after a tick with the stack q.
TickedPresent(q, h, k) ==
    \A f \in Timers : k[f] = IF \E i \in 1 .. Len(q) : q[i].func = f THEN h[f] + 1 ELSE h[f]

(* Time passes for every function on the stack.                            *)
LEMMA TickIncl ==
    ASSUME NEW q \in Seq(Entries), NEW now \in Nat, NEW m \in [Timers -> Metrics], NEW h, NEW k,
           InclExact(q, now, m, h), TickedPresent(q, h, k)
    PROVE  InclExact(q, now + 1, m, k)
  <1> SUFFICES ASSUME NEW f \in Timers
               PROVE  /\ Acts(q, f) = {} => k[f] = m[f].incl
                      /\ \A i \in Acts(q, f) : (\A j \in Acts(q, f) : i <= j)
                            => k[f] = m[f].incl + ((now + 1) - q[i].start)
    BY DEF InclExact
  <1>1. k[f] = IF Acts(q, f) # {} THEN h[f] + 1 ELSE h[f]
    BY DEF Acts, TickedPresent
  <1>2. CASE Acts(q, f) = {}
    BY <1>1, <1>2 DEF InclExact
  <1>3. CASE Acts(q, f) # {}
    <2> SUFFICES ASSUME NEW i \in Acts(q, f), \A j \in Acts(q, f) : i <= j
                 PROVE  k[f] = m[f].incl + ((now + 1) - q[i].start)
      BY <1>3
    <2>1. h[f] = m[f].incl + (now - q[i].start)
      BY DEF InclExact
    <2>2. PICK a \in Nat, b \in Int : a = q[i].start /\ b = m[f].incl
      BY OpensType, MetricsType
    <2>3. k[f] = h[f] + 1
      BY <1>1, <1>3
    <2>4. h[f] = b + (now - a)
      BY <2>1, <2>2
    <2>5. k[f] = b + ((now + 1) - a)
      BY <2>3, <2>4
    <2> QED
      BY <2>2, <2>5
  <1> QED
    BY <1>2, <1>3

(* A purge starts every timer over.                                        *)
LEMMA RestartIncl ==
    ASSUME NEW q, NEW now \in Nat, \A i \in 1 .. Len(q) : q[i].start = now,
           NEW n, NEW h, \A f \in Timers : n[f].incl = 0 /\ h[f] = 0
    PROVE  InclExact(q, now, n, h)
  BY DEF InclExact, Acts

-----------------------------------------------------------------------------
(* A purge under way.                                                      *)

\* The stack q, had the purge already restarted its p lowest timers, just when
\* it restarted the one above them.
Level(q, p) ==
    IF p = 0 THEN q
    ELSE [i \in 1 .. Len(q) |-> IF i <= p THEN [q[i] EXCEPT !.start = q[p + 1].start] ELSE q[i]]

(* It differs from q in the starts of those timers.                        *)
LEMMA LevelProperties ==
    ASSUME NEW q \in Seq(Entries), NEW p \in Nat, p = 0 \/ p < Len(q)
    PROVE  /\ Level(q, p) \in Seq(Entries) /\ Len(Level(q, p)) = Len(q)
           /\ \A i \in 1 .. Len(q) :
                 /\ Level(q, p)[i].func = q[i].func
                 /\ Level(q, p)[i].start = IF i <= p THEN q[p + 1].start ELSE q[i].start
  <1>1. PICK L \in Nat : L = Len(q)
    OBVIOUS
  <1>2. \A i \in 1 .. L : q[i] \in Entries
    BY <1>1, ElementOfSeq
  <1>3. CASE p = 0
    <2>1. Level(q, p) = q /\ \A i \in 1 .. L : ~(i <= p)
      BY <1>1, <1>3 DEF Level
    <2> QED
      BY <1>1, <2>1
  <1>4. CASE p # 0
    <2>1. PICK a \in Nat : a = q[p + 1].start
      <3>1. p + 1 \in 1 .. L
        BY <1>1, <1>4
      <3> QED
        BY <1>2, <3>1 DEF Entries
    <2> DEFINE v == [i \in 1 .. L |-> IF i <= p THEN [q[i] EXCEPT !.start = a] ELSE q[i]]
    <2>2. \A i \in 1 .. L : /\ [q[i] EXCEPT !.start = a] \in Entries
                            /\ [q[i] EXCEPT !.start = a].func = q[i].func
                            /\ [q[i] EXCEPT !.start = a].start = a
      BY <1>2, <2>1 DEF Entries
    <2>3. Level(q, p) = v
      BY <1>1, <1>4, <2>1 DEF Level
    <2>4. v \in [1 .. L -> Entries]
      BY <1>2, <2>2
    <2>5. v \in Seq(Entries) /\ Len(v) = L
      <3>1. \A r \in [1 .. L -> Entries] : r \in Seq(Entries) /\ Len(r) = L
        OBVIOUS
      <3> QED
        BY <2>4, <3>1
    <2>6. \A i \in 1 .. L : v[i].func = q[i].func /\ v[i].start = IF i <= p THEN a ELSE q[i].start
      BY <2>2
    <2> HIDE DEF v
    <2> QED
      BY <1>1, <2>1, <2>3, <2>5, <2>6
  <1> QED
    BY <1>3, <1>4

\* The stacks v and w differ in the starts of the p lowest timers only: from a to
\* now.
Shifted(v, w, p, a, now) ==
    /\ Len(w) = Len(v)
    /\ \A i \in 1 .. Len(v) : /\ w[i].func = v[i].func
                              /\ v[i].start = a \/ i > p
                              /\ w[i].start = IF i <= p THEN now ELSE v[i].start
    /\ v[p + 1].start = a

(* Restarting the timer p of q takes its p lowest timers from where the    *)
(* one above them starts to now.                                           *)
LEMMA RestartShifts ==
    ASSUME TypeOK, NEW q \in Seq(Entries), NEW p \in Nat \ {0}, p < Len(q)
    PROVE  /\ Level(q, p) \in Seq(Entries) /\ Level(Restarted(q, p), p - 1) \in Seq(Entries)
           /\ Len(Level(q, p)) = Len(q) /\ p - 1 \in Nat
           /\ Shifted(Level(q, p), Level(Restarted(q, p), p - 1), p, q[p + 1].start, clock)
           /\ \A i \in 1 .. Len(q) : Level(q, p)[i].func = q[i].func
           /\ Restarted(q, p)[p].start = clock /\ p \in 1 .. Len(q)
  <1> DEFINE r == Restarted(q, p)
             v == Level(q, p)
             w == Level(r, p - 1)
  <1>1. PICK L \in Nat : L = Len(q)
    OBVIOUS
  <1>2. /\ r \in Seq(Entries) /\ Len(r) = L
        /\ \A j \in 1 .. L : /\ r[j].func = q[j].func
                             /\ r[j].start = IF j = p THEN clock ELSE q[j].start
    <2>1. p \in Int
      OBVIOUS
    <2>2. /\ r \in Seq(Entries) /\ Len(r) = Len(q)
          /\ \A j \in 1 .. Len(q) : /\ r[j].func = q[j].func
                                    /\ r[j].start = IF j = p THEN clock ELSE q[j].start
      BY <2>1, RestartedProperties
    <2> QED
      BY <1>1, <2>2
  <1>3. /\ v \in Seq(Entries) /\ Len(v) = L
        /\ \A i \in 1 .. L : /\ v[i].func = q[i].func
                             /\ v[i].start = IF i <= p THEN q[p + 1].start ELSE q[i].start
    BY <1>1, LevelProperties
  <1>4. PICK o \in Nat : o = p - 1 /\ o + 1 = p
    OBVIOUS
  <1>5. /\ w \in Seq(Entries) /\ Len(w) = L
        /\ \A i \in 1 .. L : /\ w[i].func = r[i].func
                             /\ w[i].start = IF i <= o THEN r[p].start ELSE r[i].start
    <2> HIDE DEF r
    <2>1. o = 0 \/ o < Len(r)
      BY <1>1, <1>2, <1>4
    <2>2. /\ Level(r, o) \in Seq(Entries) /\ Len(Level(r, o)) = Len(r)
          /\ \A i \in 1 .. Len(r) : /\ Level(r, o)[i].func = r[i].func
                                   /\ Level(r, o)[i].start
                                        = IF i <= o THEN r[o + 1].start ELSE r[i].start
      BY <1>2, <2>1, LevelProperties
    <2> QED
      BY <1>2, <1>4, <2>2
  <1> HIDE DEF r, v, w
  <1>6. p \in 1 .. L /\ p + 1 \in 1 .. L /\ ~(p + 1 <= p)
    BY <1>1
  <1>7. v[p + 1].start = q[p + 1].start /\ r[p].start = clock
    BY <1>2, <1>3, <1>6
  <1>8. ASSUME NEW i \in 1 .. L
        PROVE  /\ w[i].func = v[i].func
               /\ v[i].start = q[p + 1].start \/ i > p
               /\ w[i].start = IF i <= p THEN clock ELSE v[i].start
    <2>1. w[i].func = v[i].func
      BY <1>2, <1>3, <1>5
    <2>2. CASE i <= p
      <3>1. v[i].start = q[p + 1].start
        BY <1>3, <2>2
      <3>2. i <= o \/ i = p
        BY <1>4, <2>2
      <3>3. w[i].start = clock
        BY <1>4, <1>5, <1>7, <3>2
      <3> QED
        BY <2>1, <2>2, <3>1, <3>3
    <2>3. CASE ~(i <= p)
      <3>1. ~(i <= o) /\ i # p /\ i > p
        BY <1>4, <2>3
      <3>2. w[i].start = q[i].start /\ v[i].start = q[i].start
        BY <1>2, <1>3, <1>5, <2>3, <3>1
      <3> QED
        BY <2>1, <2>3, <3>1, <3>2
    <2> QED
      BY <2>2, <2>3
  <1>9. Shifted(v, w, p, q[p + 1].start, clock)
    BY <1>3, <1>5, <1>7, <1>8 DEF Shifted
  <1> QED
    BY <1>1, <1>3, <1>4, <1>5, <1>6, <1>7, <1>9 DEF r, v, w

(* When one activation of f changes, so does the sum of the open parts.    *)
LEMMA OneOpenChanges ==
    ASSUME NEW v \in Seq(Entries), NEW w \in Seq(Entries), NEW now \in Nat, NEW f, NEW x,
           Acts(w, f) = Acts(v, f), x \in Acts(v, f),
           \A i \in Acts(v, f) \ {x} : Open(w, now, i) = Open(v, now, i)
    PROVE  SumOf(Opens(w, now, f))
             = SumOf(Opens(v, now, f)) + (Open(w, now, x) - Open(v, now, x))
  <1>1. /\ IsFiniteSet(Acts(v, f)) /\ Opens(v, now, f) \in [Acts(v, f) -> Int]
        /\ Opens(w, now, f) \in [Acts(v, f) -> Int]
    BY OpensType
  <1>2. \A i \in Acts(v, f) \ {x} : Opens(w, now, f)[i] = Opens(v, now, f)[i]
    BY DEF Opens
  <1>3. SumOf(Opens(w, now, f))
          = SumOf(Opens(v, now, f)) + (Opens(w, now, f)[x] - Opens(v, now, f)[x])
    BY <1>1, <1>2, SumChange
  <1> QED
    BY <1>3 DEF Opens

\* k is h, less b for the function g.
LessOf(g, b, h, k) == \A f \in Timers : k[f] = IF g = f THEN h[f] - b ELSE h[f]

(* That takes the time between from the open part of the timer p, and      *)
(* leaves the others.                                                      *)
LEMMA ShiftSelf ==
    ASSUME NEW v \in Seq(Entries), NEW w \in Seq(Entries), NEW p \in Nat \ {0}, p < Len(v),
           NEW a \in Nat, NEW now \in Nat, Shifted(v, w, p, a, now),
           NEW m \in [Timers -> Metrics], NEW h, NEW k, SelfExact(v, now, m, h),
           LessOf(v[p].func, now - a, h, k)
    PROVE  SelfExact(w, now, m, k)
  <1> SUFFICES ASSUME NEW f \in Timers
               PROVE  k[f] = m[f].excl + SumOf(Opens(w, now, f))
    BY DEF SelfExact
  <1>1. PICK L \in Nat : L = Len(v) /\ L = Len(w)
    BY DEF Shifted
  <1>2. /\ \A i \in 1 .. L : /\ w[i].func = v[i].func
                             /\ v[i].start = a \/ i > p
                             /\ w[i].start = IF i <= p THEN now ELSE v[i].start
        /\ v[p + 1].start = a
    <2>1. /\ \A i \in 1 .. Len(v) : /\ w[i].func = v[i].func
                                    /\ v[i].start = a \/ i > p
                                    /\ w[i].start = IF i <= p THEN now ELSE v[i].start
          /\ v[p + 1].start = a
      BY DEF Shifted
    <2> QED
      BY <1>1, <2>1
  <1>3. p \in 1 .. L /\ p + 1 \in 1 .. L /\ ~(p + 1 <= p) /\ ~(p > p)
    BY <1>1
  <1>4. Acts(w, f) = Acts(v, f)
    BY <1>1, <1>2 DEF Acts
  <1>5. /\ IsFiniteSet(Acts(v, f)) /\ Acts(v, f) \subseteq 1 .. L
        /\ Opens(v, now, f) \in [Acts(v, f) -> Int] /\ Opens(w, now, f) \in [Acts(v, f) -> Int]
        /\ SumOf(Opens(v, now, f)) \in Int /\ m[f].excl \in Int
    BY <1>1, <1>4, OpensType, MetricsType
  <1>6. ASSUME NEW i \in 1 .. L, i # p PROVE Open(w, now, i) = Open(v, now, i)
    <2>1. CASE i < p
      <3>1. i < L /\ i + 1 \in 1 .. L /\ i + 1 <= p /\ i <= p /\ ~(i > p) /\ ~(i + 1 > p)
        BY <1>1, <2>1
      <3>2. Open(w, now, i) = now - now /\ Open(v, now, i) = a - a
        BY <1>1, <1>2, <3>1 DEF Open
      <3> QED
        BY <3>2
    <2>2. CASE i > p
      <3>1. ~(i <= p) /\ (i < L => i + 1 \in 1 .. L /\ ~(i + 1 <= p))
        BY <1>1, <2>2
      <3> QED
        BY <1>1, <1>2, <3>1 DEF Open
    <2> QED
      BY <1>6, <2>1, <2>2
  <1>7. Open(v, now, p) = 0 /\ Open(w, now, p) = a - now
    <2>1. p < L /\ p <= p
      BY <1>1
    <2>2. Open(v, now, p) = a - a
      BY <1>1, <1>2, <1>3, <2>1 DEF Open
    <2>3. Open(w, now, p) = a - now
      BY <1>1, <1>2, <1>3, <2>1 DEF Open
    <2> QED
      BY <2>2, <2>3
  <1>8. h[f] = m[f].excl + SumOf(Opens(v, now, f))
    BY DEF SelfExact
  <1>9. CASE v[p].func = f
    <2>1. p \in Acts(v, f)
      BY <1>1, <1>3, <1>9 DEF Acts
    <2>2. \A i \in Acts(v, f) \ {p} : Open(w, now, i) = Open(v, now, i)
      BY <1>5, <1>6
    <2>3. SumOf(Opens(w, now, f))
            = SumOf(Opens(v, now, f)) + (Open(w, now, p) - Open(v, now, p))
      BY <1>4, <2>1, <2>2, OneOpenChanges
    <2>5. SumOf(Opens(w, now, f)) = SumOf(Opens(v, now, f)) - (now - a)
      BY <1>5, <1>7, <2>3
    <2> QED
      BY <1>5, <1>8, <1>9, <2>5 DEF LessOf
  <1>10. CASE v[p].func # f
    <2>1. p \notin Acts(v, f)
      BY <1>10 DEF Acts
    <2>2. Opens(w, now, f) = Opens(v, now, f)
      BY <1>4, <1>5, <1>6, <2>1 DEF Opens
    <2> QED
      BY <1>8, <1>10, <2>2 DEF LessOf
  <1> QED
    BY <1>9, <1>10

\* k is h but for the functions of the p lowest timers of q, which start over.
StartedOver(q, p, h, k) ==
    \A f \in Timers : k[f] = IF \E i \in 1 .. p : q[i].func = f THEN 0 ELSE h[f]

(* The inclusive times of their functions start over.                      *)
LEMMA ShiftIncl ==
    ASSUME NEW v \in Seq(Entries), NEW w \in Seq(Entries), NEW p \in Nat \ {0}, p < Len(v),
           NEW a \in Nat, NEW now \in Nat, Shifted(v, w, p, a, now),
           NEW m, \A f \in Timers : m[f].incl = 0, NEW h, NEW k, InclExact(v, now, m, h),
           StartedOver(v, p, h, k)
    PROVE  InclExact(w, now, m, k)
  <1> SUFFICES ASSUME NEW f \in Timers
               PROVE  /\ Acts(w, f) = {} => k[f] = m[f].incl
                      /\ \A i \in Acts(w, f) : (\A j \in Acts(w, f) : i <= j)
                            => k[f] = m[f].incl + (now - w[i].start)
    BY DEF InclExact
  <1>1. PICK L \in Nat : L = Len(v) /\ L = Len(w) /\ p < L
    BY DEF Shifted
  <1>2. \A i \in 1 .. L : /\ w[i].func = v[i].func
                          /\ w[i].start = IF i <= p THEN now ELSE v[i].start
    <2>1. \A i \in 1 .. Len(v) : /\ w[i].func = v[i].func
                                 /\ w[i].start = IF i <= p THEN now ELSE v[i].start
      BY DEF Shifted
    <2> QED
      BY <1>1, <2>1
  <1>3. Acts(w, f) = Acts(v, f) /\ Acts(v, f) \subseteq 1 .. L
    BY <1>1, <1>2 DEF Acts
  <1>4. k[f] = IF \E i \in 1 .. p : v[i].func = f THEN 0 ELSE h[f]
    BY DEF StartedOver
  <1>5. \A i \in 1 .. p : v[i].func = f => i \in Acts(v, f)
    BY <1>1 DEF Acts
  <1>6. CASE Acts(v, f) = {}
    <2>1. k[f] = h[f]
      BY <1>4, <1>5, <1>6
    <2> QED
      BY <1>3, <1>6, <2>1 DEF InclExact
  <1>7. ASSUME NEW i \in Acts(v, f), \A j \in Acts(v, f) : i <= j
        PROVE  k[f] = m[f].incl + (now - w[i].start)
    <2>1. CASE i <= p
      <3>1. i \in 1 .. p /\ v[i].func = f
        BY <1>1, <1>3, <2>1 DEF Acts
      <3>2. k[f] = 0
        BY <1>4, <3>1
      <3>3. w[i].start = now
        BY <1>2, <1>3, <2>1
      <3>4. now - now = 0 /\ 0 + 0 = 0
        OBVIOUS
      <3> QED
        BY <3>2, <3>3, <3>4
    <2>2. CASE ~(i <= p)
      <3>1. \A j \in 1 .. p : v[j].func # f
        BY <1>3, <1>5, <1>7, <2>2
      <3>2. k[f] = h[f]
        BY <1>4, <3>1
      <3>3. h[f] = m[f].incl + (now - v[i].start)
        BY <1>7 DEF InclExact
      <3>4. w[i].start = v[i].start
        BY <1>2, <1>3, <2>2
      <3> QED
        BY <3>2, <3>3, <3>4
    <2> QED
      BY <2>1, <2>2
  <1> QED
    BY <1>3, <1>6, <1>7

-----------------------------------------------------------------------------
(* What starting and stopping a timer does to the numbers.                 *)

\* The counts in n are those in m, and those in m after a call of f by p.
SameCounts(m, n) == \A g \in Timers : n[g].calls = m[g].calls /\ n[g].subrs = m[g].subrs

Counted(m, n, f, first, p) ==
    \A g \in Timers :
       /\ n[g].calls = m[g].calls + (IF g = f THEN 1 ELSE 0)
       /\ n[g].subrs = m[g].subrs + (IF ~first /\ g = p THEN 1 ELSE 0)

(* The fields that the operators of Profiler::Start update ...             *)
LEMMA CountFields ==
    ASSUME NEW m \in Metrics
    PROVE  /\ CountCall(m).calls = m.calls + 1 /\ CountCall(m).subrs = m.subrs
           /\ CountCall(m).incl = m.incl /\ CountCall(m).excl = m.excl
           /\ CountSubr(m).calls = m.calls /\ CountSubr(m).subrs = m.subrs + 1
           /\ CountSubr(m).incl = m.incl /\ CountSubr(m).excl = m.excl
  <1>1. /\ CountCall(m).calls = m.calls + 1 /\ CountCall(m).subrs = m.subrs
        /\ CountCall(m).incl = m.incl /\ CountCall(m).excl = m.excl
    BY DEF CountCall, Metrics
  <1>2. /\ CountSubr(m).calls = m.calls /\ CountSubr(m).subrs = m.subrs + 1
        /\ CountSubr(m).incl = m.incl /\ CountSubr(m).excl = m.excl
    BY DEF CountSubr, Metrics
  <1> QED
    BY <1>1, <1>2

(* ... and those that the operators of Profiler::Stop update.              *)
LEMMA TimeFields ==
    ASSUME NEW m \in Metrics, NEW outermost \in BOOLEAN, NEW total \in Int
    PROVE  /\ AddTimes(m, outermost, total).calls = m.calls
           /\ AddTimes(m, outermost, total).subrs = m.subrs
           /\ AddTimes(m, outermost, total).excl = m.excl + total
           /\ AddTimes(m, outermost, total).incl = m.incl + (IF outermost THEN total ELSE 0)
           /\ ExcludeTime(m, total).calls = m.calls
           /\ ExcludeTime(m, total).subrs = m.subrs
           /\ ExcludeTime(m, total).excl = m.excl - total
           /\ ExcludeTime(m, total).incl = m.incl
  <1>1. m.incl \in Int
    BY DEF Metrics
  <1>2. /\ AddTimes(m, outermost, total).calls = m.calls
        /\ AddTimes(m, outermost, total).subrs = m.subrs
        /\ AddTimes(m, outermost, total).excl = m.excl + total
        /\ AddTimes(m, outermost, total).incl = IF outermost THEN m.incl + total ELSE m.incl
    BY DEF AddTimes, Metrics
  <1>3. /\ ExcludeTime(m, total).calls = m.calls
        /\ ExcludeTime(m, total).subrs = m.subrs
        /\ ExcludeTime(m, total).excl = m.excl - total
        /\ ExcludeTime(m, total).incl = m.incl
    BY DEF ExcludeTime, Metrics
  <1> QED
    BY <1>1, <1>2, <1>3

(* A start counts a call and a subroutine call, and adds no time.          *)
LEMMA StartNumbers ==
    ASSUME TypeOK, NEW s \in Tids, NEW f \in Timers, NEW d \in Nat, StartTimer(s, f, d),
           ~IsThrottled(f)
    PROVE  /\ SameTimes(metrics[s], metrics'[s])
           /\ Counted(metrics[s], metrics'[s], f, stack[s] = <<>>, Top(s).func)
           /\ \A r \in Tids \ {s} : metrics'[r] = metrics[r]
  <1> DEFINE counted == [metrics[s] EXCEPT ![f] = CountCall(@)]
             p == Top(s).func
  <1>1. metrics' = [metrics EXCEPT ![s] = IF stack[s] = <<>> THEN counted
                                          ELSE [counted EXCEPT ![p] = CountSubr(@)]]
    BY DEF StartTimer
  <1>2. /\ counted \in [Timers -> Metrics]
        /\ \A g \in Timers : /\ counted[g].calls = metrics[s][g].calls + (IF g = f THEN 1 ELSE 0)
                              /\ counted[g].subrs = metrics[s][g].subrs
                              /\ counted[g].excl = metrics[s][g].excl
                              /\ counted[g].incl = metrics[s][g].incl
    <2>1. metrics[s] \in [Timers -> Metrics] /\ metrics[s][f] \in Metrics
      BY DEF TypeOK
    <2>2. CountCall(metrics[s][f]) \in Metrics
      BY <2>1, CountProperties
    <2> DEFINE c == CountCall(metrics[s][f])
    <2>3. /\ counted \in [Timers -> Metrics]
          /\ \A g \in Timers : counted[g] = IF g = f THEN c ELSE metrics[s][g]
      BY <2>1, <2>2
    <2>4. \A g \in Timers : metrics[s][g].calls \in Nat
      BY <2>1, MetricsType
    <2>5. /\ c.calls = metrics[s][f].calls + 1 /\ c.subrs = metrics[s][f].subrs
          /\ c.excl = metrics[s][f].excl /\ c.incl = metrics[s][f].incl
      BY <2>1, CountFields
    <2> HIDE DEF c, counted
    <2> QED
      BY <2>3, <2>4, <2>5
  <1> HIDE DEF counted
  <1>3. PICK n \in [Timers -> Metrics] :
           /\ metrics' = [metrics EXCEPT ![s] = n]
           /\ SameTimes(metrics[s], n)
           /\ Counted(metrics[s], n, f, stack[s] = <<>>, p)
    <2>0. \A g \in Timers : counted[g].subrs \in Nat /\ metrics[s][g].subrs \in Nat
      BY <1>2, MetricsType
    <2>1. CASE stack[s] = <<>>
      <3>1. metrics' = [metrics EXCEPT ![s] = counted]
        BY <1>1, <2>1
      <3>2. SameTimes(metrics[s], counted)
        BY <1>2 DEF SameTimes
      <3>3. Counted(metrics[s], counted, f, TRUE, p)
        BY <1>2, <2>0 DEF Counted
      <3>4. Counted(metrics[s], counted, f, stack[s] = <<>>, p)
        BY <2>1, <3>3 DEF Counted
      <3> QED
        BY <1>2, <3>1, <3>2, <3>4
    <2>2. CASE stack[s] # <<>>
      <3> DEFINE n == [counted EXCEPT ![p] = CountSubr(@)]
      <3>1. p \in Timers
        <4>1. stack[s] \in Seq(Entries)
          BY DEF TypeOK
        <4>2. Top(s) \in Entries
          BY <2>2, <4>1, PopProperties DEF Top
        <4> QED
          BY <4>2 DEF Entries
      <3>2. CountSubr(counted[p]) \in Metrics /\ counted[p] \in Metrics
        BY <1>2, <3>1, CountProperties
      <3>3. /\ n \in [Timers -> Metrics]
            /\ \A g \in Timers : n[g] = IF g = p THEN CountSubr(counted[p]) ELSE counted[g]
        BY <1>2, <3>1, <3>2
      <3>4. metrics' = [metrics EXCEPT ![s] = n]
        BY <1>1, <2>2
      <3> DEFINE c == CountSubr(counted[p])
      <3>8. /\ c.calls = counted[p].calls /\ c.subrs = counted[p].subrs + 1
            /\ c.excl = counted[p].excl /\ c.incl = counted[p].incl
        BY <3>2, CountFields
      <3>9. \A g \in Timers : n[g] = IF g = p THEN c ELSE counted[g]
        BY <3>3
      <3> HIDE DEF n, p, c
      <3>5. SameTimes(metrics[s], n)
        BY <1>2, <3>1, <3>8, <3>9 DEF SameTimes
      <3>6. Counted(metrics[s], n, f, FALSE, p)
        BY <1>2, <2>0, <3>1, <3>8, <3>9 DEF Counted
      <3>7. Counted(metrics[s], n, f, stack[s] = <<>>, p)
        BY <2>2, <3>6 DEF Counted
      <3> QED
        BY <3>3, <3>4, <3>5, <3>7
    <2> QED
      BY <2>1, <2>2
  <1>4. metrics'[s] = n /\ \A r \in Tids \ {s} : metrics'[r] = metrics[r]
    BY <1>3 DEF TypeOK
  <1> QED
    BY <1>3, <1>4

(* A stop adds the timer's total, and takes it out of its parent.          *)
LEMMA StopNumbers ==
    ASSUME TypeOK, NEW s \in Tids, stack[s] # <<>>, ProfilerStop(s, s)
    PROVE  /\ TimesStopped(metrics[s], metrics'[s], stack[s], clock)
           /\ SameCounts(metrics[s], metrics'[s])
           /\ \A r \in Tids \ {s} : metrics'[r] = metrics[r]
  <1> DEFINE e == Top(s)
             total == clock - e.start
             stopped == [metrics[s] EXCEPT ![e.func] = AddTimes(@, e.addIncl, total)]
             p == Parent(s).func
             n == IF Len(stack[s]) = 1 THEN stopped
                  ELSE [stopped EXCEPT ![p] = ExcludeTime(@, total)]
  <1>1. e \in Entries /\ stack[s] \in Seq(Entries) /\ Len(stack[s]) \in Nat \ {0}
    BY PopProperties DEF TypeOK, Top
  <1>2. total \in Int /\ e.func \in Timers /\ e.addIncl \in BOOLEAN
    BY <1>1 DEF Entries, TypeOK
  <1>3. metrics' = [metrics EXCEPT ![s] = n]
    BY DEF ProfilerStop
  <1>4. e = stack[s][Len(stack[s])] /\ total = clock - stack[s][Len(stack[s])].start
        /\ p = stack[s][Len(stack[s]) - 1].func
    BY DEF Top, Parent
  <1> HIDE DEF e, total, p
  <1>5. /\ stopped \in [Timers -> Metrics]
        /\ \A g \in Timers :
              /\ stopped[g].calls = metrics[s][g].calls /\ stopped[g].subrs = metrics[s][g].subrs
              /\ stopped[g].incl = metrics[s][g].incl + (IF g = e.func /\ e.addIncl THEN total ELSE 0)
              /\ stopped[g].excl = metrics[s][g].excl + (IF g = e.func THEN total ELSE 0)
    <2>1. metrics[s] \in [Timers -> Metrics] /\ metrics[s][e.func] \in Metrics
      BY <1>2 DEF TypeOK
    <2> DEFINE a == AddTimes(metrics[s][e.func], e.addIncl, total)
    <2>2. a \in Metrics
      BY <1>2, <2>1, AddTimesProperties
    <2>3. \A g \in Timers : stopped[g] = IF g = e.func THEN a ELSE metrics[s][g]
      BY <2>1
    <2>4. \A g \in Timers : metrics[s][g].incl \in Int /\ metrics[s][g].excl \in Int
      BY <2>1, MetricsType
    <2>5. /\ a.calls = metrics[s][e.func].calls /\ a.subrs = metrics[s][e.func].subrs
          /\ a.excl = metrics[s][e.func].excl + total
          /\ a.incl = metrics[s][e.func].incl + (IF e.addIncl THEN total ELSE 0)
      BY <1>2, <2>1, TimeFields
    <2>6. stopped \in [Timers -> Metrics]
      BY <2>1, <2>2
    <2> HIDE DEF a, stopped
    <2> QED
      BY <1>2, <2>3, <2>4, <2>5, <2>6
  <1> HIDE DEF stopped
  <1>6. ASSUME Len(stack[s]) # 1 PROVE p \in Timers
    <2>1. Len(stack[s]) - 1 \in 1 .. Len(stack[s])
      <3>1. \A L \in Nat : L # 0 /\ L # 1 => L - 1 \in 1 .. L
        OBVIOUS
      <3> QED
        BY <1>1, <1>6, <3>1
    <2>2. stack[s][Len(stack[s]) - 1] \in Entries
      BY <1>1, <2>1, ElementOfSeq
    <2> QED
      BY <1>4, <2>2 DEF Entries
  <1>7. /\ n \in [Timers -> Metrics]
        /\ \A g \in Timers :
              /\ n[g].calls = stopped[g].calls /\ n[g].subrs = stopped[g].subrs
              /\ n[g].incl = stopped[g].incl
              /\ n[g].excl = stopped[g].excl - (IF Len(stack[s]) # 1 /\ g = p THEN total ELSE 0)
    <2>0. \A g \in Timers : stopped[g].excl \in Int
      BY <1>5, MetricsType
    <2>1. CASE Len(stack[s]) = 1
      BY <1>5, <2>0, <2>1
    <2>2. CASE Len(stack[s]) # 1
      <3> DEFINE x == ExcludeTime(stopped[p], total)
      <3>1. p \in Timers /\ stopped[p] \in Metrics
        BY <1>5, <1>6, <2>2
      <3>2. x \in Metrics
        BY <1>2, <3>1, ExcludeTimeProperties
      <3>3. n \in [Timers -> Metrics] /\ \A g \in Timers : n[g] = IF g = p THEN x ELSE stopped[g]
        BY <1>5, <2>2, <3>1, <3>2
      <3>4. /\ x.calls = stopped[p].calls /\ x.subrs = stopped[p].subrs
            /\ x.incl = stopped[p].incl /\ x.excl = stopped[p].excl - total
        BY <1>2, <3>1, TimeFields
      <3> HIDE DEF x, n
      <3> QED
        BY <2>0, <2>2, <3>3, <3>4
    <2> QED
      BY <2>1, <2>2
  <1> HIDE DEF n
  <1>8. metrics'[s] = n /\ \A r \in Tids \ {s} : metrics'[r] = metrics[r]
    BY <1>3 DEF TypeOK
  <1>9. SameCounts(metrics[s], n)
    BY <1>5, <1>7 DEF SameCounts
  <1>10. TimesStopped(metrics[s], n, stack[s], clock)
    BY <1>4, <1>5, <1>7 DEF TimesStopped
  <1> QED
    BY <1>8, <1>9, <1>10


\* The numbers n after a purge of those in m, with the stack q.
PurgedTo(n, q) ==
    \A f \in Timers :
       /\ n[f].calls = Cardinality(Acts(q, f))
       /\ n[f].subrs = Cardinality(Acts(q, f) \ {Len(q)})
       /\ n[f].incl = 0 /\ n[f].excl = 0

(* A purge counts what is on the stack, and forgets all times.             *)
LEMMA PurgedNumbers ==
    ASSUME NEW q \in Seq(Entries), NEW m \in [Timers -> Metrics]
    PROVE  PurgedTo(Purged(q, m), q)
  <1> SUFFICES ASSUME NEW f \in Timers
               PROVE  /\ Purged(q, m)[f].calls = Cardinality(Acts(q, f))
                      /\ Purged(q, m)[f].subrs = Cardinality(Acts(q, f) \ {Len(q)})
                      /\ Purged(q, m)[f].incl = 0 /\ Purged(q, m)[f].excl = 0
    BY DEF PurgedTo
  <1>1. PICK c, d : c = Cardinality(Acts(q, f)) /\ d = Cardinality(Acts(q, f) \ {Len(q)})
    OBVIOUS
  <1>2. m[f] \in Metrics
    OBVIOUS
  <1>3. Purged(q, m)[f] = [m[f] EXCEPT !.calls = c, !.subrs = d, !.incl = 0, !.excl = 0]
    BY <1>1 DEF Purged, Acts
  <1>4. Purged(q, m)[f] = [calls |-> c, subrs |-> d, incl |-> 0, excl |-> 0,
                           onStack |-> m[f].onStack]
    BY <1>2, <1>3 DEF Metrics
  <1> QED
    BY <1>1, <1>4

-----------------------------------------------------------------------------
(* The times of every thread that runs.                                    *)

\* The stack of s, had a purge under way restarted all of it already, and the time
\* s spent on each function, but for what that purge lost.
Timed(s) == Level(stack[s], Low(s))

Net(s) == [f \in Timers |-> self[s][f] - lost[s][f]]

\* The time of the purge that no function has been charged for yet.
Taken(s) == IF Low(s) > 0 THEN clock - stack[s][Low(s) + 1].start ELSE 0

\* No time is lost but what the purge took.
LossOf(s) == /\ \A f \in Timers : lost[s][f] >= 0
             /\ SumOf(lost[s]) + Taken(s) = took[s]

\* A purge under way leaves a timer above those it has still to restart.
Under(s) == Low(s) > 0 => /\ Low(s) < Len(stack[s])
                          /\ stack[s][Low(s) + 1].start <= clock
                          /\ \A f \in Timers : metrics[s][f].incl = 0

TimesOf(s) == /\ SelfExact(Timed(s), clock, metrics[s], Net(s))
              /\ InclExact(Timed(s), clock, metrics[s], present[s])
              /\ LossOf(s)
              /\ Under(s)

Times == \A s \in Tids : phase[s] \in {"new", "running"} => TimesOf(s)

\* No thread begins to be one whose times are exact.
NoneBegins == \A r \in Tids : phase'[r] \in {"new", "running"} => phase[r] \in {"new", "running"}

\* No purge begins or goes on.
SameLow == \A r \in Tids : Low(r)' = Low(r)

LEMMA LowIsPos ==
    ASSUME TypeOK, NEW s
    PROVE  Low(s) \in Nat
  <1>1. s \in Real => op[s].pos \in Nat
    BY DEF TypeOK, Ops
  <1> QED
    BY <1>1 DEF Low

\* No operation of a thread becomes, or is, a purge, and changes.
OtherOp == \/ op' = op
           \/ \E t \in Real : /\ \A r \in Real \ {t} : op'[r] = op[r]
                              /\ op[t].stage # "purge" /\ op'[t].stage # "purge"

\* A purge under way has a timer to restart.
Purging == \A t \in Real : op[t].stage = "purge" => op[t].pos > 0

LEMMA OtherOpLow == OtherOp => SameLow
  BY DEF OtherOp, SameLow, Low

LEMMA OtherOpPurging == OtherOp /\ Purging => Purging'
  BY DEF OtherOp, Purging

(* Only a purge makes or changes a purge.                                  *)
LEMMA NextOps ==
    ASSUME TypeOK, [Next]_vars
    PROVE  OtherOp \/ \E t \in Real : Purge(t) \/ RestartNext(t)
  <1>1. ASSUME NEW t \in Real, NEW s \in Tids,
               Begin(t, s) \/ (\E f \in Funcs : Enter(t, s, f)) \/ Toggle(t) \/ Overlap(t)
                           \/ PopThrottled(t)
        PROVE  OtherOp
    BY <1>1 DEF Begin, Enter, Toggle, Overlap, PopThrottled, OtherOp
  <1>2. ASSUME NEW t \in Real, NEW s \in Tids, Leave(t, s) PROVE OtherOp
    BY <1>2 DEF Leave, Idle, NoOp, OtherOp, TypeOK
  <1>3. ASSUME NEW t \in Real, op[t].stage # "purge",
               op' = [op EXCEPT ![t] = IF @.all THEN [@ EXCEPT !.stage = "check"] ELSE NoOp]
        PROVE  OtherOp
    <2>1. op'[t] = IF op[t].all THEN [op[t] EXCEPT !.stage = "check"] ELSE NoOp
      BY <1>3 DEF TypeOK
    <2>2. [op[t] EXCEPT !.stage = "check"].stage = "check"
      BY DEF TypeOK, Ops
    <2>3. op'[t].stage # "purge"
      BY <2>1, <2>2 DEF NoOp
    <2> QED
      BY <1>3, <2>3 DEF OtherOp, TypeOK
  <1>4. ASSUME NEW t \in Real, NEW x \in {"stop", "loop", "call"}, op[t].stage # "purge",
               \A r \in Real \ {t} : op'[r] = op[r], op'[t].stage = x
        PROVE  OtherOp
    BY <1>4 DEF OtherOp
  <1>5. ASSUME NEW t \in Real, StopCall(t) PROVE OtherOp
    <2>1. op[t].stage # "purge"
      BY <1>5 DEF StopCall
    <2>2. CASE Return(t)
      BY <1>3, <2>1, <2>2 DEF Return
    <2>3. CASE op' = [op EXCEPT ![t].stage = "stop"]
      <3>1. op'[t].stage = "stop" /\ \A r \in Real \ {t} : op'[r] = op[r]
        BY <2>3 DEF TypeOK, Ops
      <3> QED
        BY <1>4, <2>1, <3>1
    <2> QED
      BY <1>5, <2>2, <2>3 DEF StopCall
  <1>6. ASSUME NEW t \in Real, StopTop(t) PROVE OtherOp
    <2>1. op[t].stage # "purge" /\ Return(t)
      BY <1>6 DEF StopTop
    <2> QED
      BY <1>3, <2>1 DEF Return
  <1>7. ASSUME NEW t \in Real, StopAllLock(t) \/ StopAllNext(t) \/ StopAllCheck(t) PROVE OtherOp
    <2>1. op[t].stage # "purge" /\ \A r \in Real \ {t} : op'[r] = op[r]
      BY <1>7 DEF StopAllLock, StopAllNext, StopAllCheck, TypeOK
    <2>2. op'[t].stage \in {"loop", "call"}
      BY <1>7 DEF StopAllLock, StopAllNext, StopAllCheck, TypeOK, Ops
    <2> QED
      BY <1>4, <2>1, <2>2
  <1>8. ASSUME NEW t \in Real, EndThread(t) \/ StopAllDone(t) PROVE OtherOp
    <2>1. op[t].stage # "purge" /\ \A r \in Real \ {t} : op'[r] = op[r]
      BY <1>8 DEF EndThread, Idle, StopAllDone, TypeOK
    <2>2. op'[t] = NoOp \/ \E s : op'[t] = StopAll(s)
      BY <1>8 DEF EndThread, StopAllDone, TypeOK
    <2>3. NoOp.stage = "idle" /\ \A s : StopAll(s).stage = "lock"
      BY DEF NoOp, StopAll
    <2>4. op'[t].stage # "purge"
      BY <2>2, <2>3
    <2> QED
      BY <2>1, <2>4 DEF OtherOp
  <1>9. CASE Tick
    BY <1>9 DEF Tick, OtherOp
  <1>10. CASE UNCHANGED vars
    BY <1>10 DEF vars, OtherOp
  <1>11. ASSUME NEW t \in Real, NEW s \in Tids, Begin(t, s) \/ Leave(t, s) \/ \E f \in Funcs : Enter(t, s, f)
         PROVE  OtherOp
    BY <1>1, <1>2, <1>11
  <1>12. ASSUME NEW t \in Real, StopStep(t) \/ StopAllStep(t) \/ EndThread(t) \/ Toggle(t)
         PROVE  OtherOp
    BY <1>1, <1>5, <1>6, <1>7, <1>8, <1>12, MainIsThread DEF StopStep, StopAllStep
  <1> QED
    BY <1>9, <1>10, <1>11, <1>12 DEF Next, Finished

(* And a purge begun has a timer to restart.                               *)
LEMMA NextPurging ==
    ASSUME TypeOK, Purging, [Next]_vars
    PROVE  Purging'
  <1>1. ASSUME NEW t \in Real, Purge(t) \/ RestartNext(t) PROVE Purging'
    <2>1. \A r \in Real \ {t} : op'[r] = op[r]
      BY <1>1, PurgeStep
    <2>2. PICK p : op'[t] = PurgeFrom(t, p)
      BY <1>1 DEF Purge, RestartNext, TypeOK
    <2>3. op'[t].stage = "purge" => op'[t].pos > 0
      BY <2>2 DEF PurgeFrom, NoOp
    <2> QED
      BY <2>1, <2>3 DEF Purging
  <1> QED
    BY <1>1, NextOps, OtherOpPurging

LEMMA AtRest ==
    ASSUME NEW s, Low(s) = 0
    PROVE  Timed(s) = stack[s] /\ Taken(s) = 0 /\ Under(s)
  BY DEF Timed, Level, Taken, Under

(* What the times of a thread depend on.                                   *)
LEMMA OtherTimes ==
    ASSUME NEW r, TimesOf(r), clock' = clock, stack'[r] = stack[r], metrics'[r] = metrics[r],
           self'[r] = self[r], present'[r] = present[r], lost'[r] = lost[r], took'[r] = took[r],
           Low(r)' = Low(r)
    PROVE  TimesOf(r)'
  <1>1. Timed(r)' = Timed(r) /\ Net(r)' = Net(r) /\ Taken(r)' = Taken(r)
    BY DEF Timed, Net, Taken
  <1>2. Under(r)'
    BY DEF TimesOf, Under
  <1>3. LossOf(r)'
    BY <1>1 DEF TimesOf, LossOf
  <1> QED
    BY <1>1, <1>2, <1>3 DEF TimesOf

(* Nothing that the times depend on changes.                               *)
LEMMA IdleTimes ==
    ASSUME Times, NoneBegins, SameLow, UNCHANGED <<clock, stack, metrics, histVars>>
    PROVE  Times'
  <1> SUFFICES ASSUME NEW r \in Tids, phase'[r] \in {"new", "running"} PROVE TimesOf(r)'
    BY DEF Times
  <1>1. TimesOf(r) /\ Low(r)' = Low(r)
    BY DEF Times, NoneBegins, SameLow
  <1> QED
    BY <1>1, OtherTimes DEF histVars

(* The times of a thread that starts or stops a timer.                     *)
LEMMA OwnTimes ==
    ASSUME NEW s, TimesOf(s), Low(s) = 0, Low(s)' = 0, UNCHANGED <<clock, histVars>>,
           SelfExact(stack'[s], clock, metrics'[s], Net(s)),
           InclExact(stack'[s], clock, metrics'[s], present[s])
    PROVE  TimesOf(s)'
  <1>1. Timed(s)' = stack'[s] /\ Taken(s)' = 0 /\ Under(s)'
    BY DEF Timed, Level, Taken, Under
  <1>2. Net(s)' = Net(s) /\ LossOf(s)'
    BY <1>1, AtRest DEF Net, LossOf, histVars, TimesOf
  <1> QED
    BY <1>1, <1>2 DEF TimesOf, histVars

(* Starting a timer.                                                       *)
LEMMA StartTimes ==
    ASSUME TypeOK, NEW s \in Tids, NEW f \in Timers, NEW d \in Nat, StartTimer(s, f, d), Times,
           NoneBegins, SameLow, Low(s) = 0, UNCHANGED <<clock, histVars>>
    PROVE  Times'
  <1>1. CASE IsThrottled(f)
    BY <1>1, IdleTimes DEF StartTimer, tauVars
  <1>2. CASE ~IsThrottled(f)
    <2>1. PICK e \in Entries : e.start = clock /\ Pushed(s, e)
      BY <1>2, StartTimerEffect
    <2>2. SameTimes(metrics[s], metrics'[s]) /\ \A r \in Tids \ {s} : metrics'[r] = metrics[r]
      BY <1>2, StartNumbers
    <2>3. stack'[s] = Append(stack[s], e) /\ \A r \in Tids \ {s} : stack'[r] = stack[r]
      BY <2>1 DEF TypeOK, Pushed
    <2>4. ASSUME NEW r \in Tids \ {s}, phase'[r] \in {"new", "running"}
          PROVE  TimesOf(r)'
      <3>1. TimesOf(r) /\ Low(r)' = Low(r)
        BY <2>4 DEF Times, NoneBegins, SameLow
      <3> QED
        BY <2>2, <2>3, <3>1, OtherTimes DEF histVars
    <2>5. ASSUME phase'[s] \in {"new", "running"} PROVE TimesOf(s)'
      <3>1. TimesOf(s) /\ Low(s)' = 0 /\ Timed(s) = stack[s]
        BY <2>5, AtRest DEF Times, NoneBegins, SameLow
      <3>2. stack[s] \in Seq(Entries) /\ metrics[s] \in [Timers -> Metrics] /\ clock \in Nat
        BY DEF TypeOK
      <3>3. SelfExact(Append(stack[s], e), clock, metrics'[s], Net(s))
        BY <2>1, <2>2, <3>1, <3>2, PushSelf DEF TimesOf
      <3>4. InclExact(Append(stack[s], e), clock, metrics'[s], present[s])
        BY <2>1, <2>2, <3>1, <3>2, PushIncl DEF TimesOf
      <3> QED
        BY <2>3, <3>1, <3>3, <3>4, OwnTimes
    <2> QED
      BY <2>4, <2>5 DEF Times
  <1> QED
    BY <1>1, <1>2

(* Stopping one, on the account of the stack's own thread.                 *)
LEMMA StopTimes ==
    ASSUME TypeOK, TypeOK', NEW s \in Tids, stack[s] # <<>>, ProfilerStop(s, s), Times, Marks,
           SameLow, Low(s) = 0, UNCHANGED <<phase, clock, histVars>>
    PROVE  Times'
  <1>1. /\ TimesStopped(metrics[s], metrics'[s], stack[s], clock)
        /\ \A r \in Tids \ {s} : metrics'[r] = metrics[r]
    BY StopNumbers
  <1>2. stack'[s] = Pop(s) /\ \A r \in Tids \ {s} : stack'[r] = stack[r]
    <2>1. Popped(s)
      BY ProfilerStopEffect
    <2> QED
      BY <2>1 DEF TypeOK, Popped
  <1>3. ASSUME NEW r \in Tids \ {s}, phase'[r] \in {"new", "running"}
        PROVE  TimesOf(r)'
    <2>1. TimesOf(r) /\ Low(r)' = Low(r)
      BY <1>3 DEF Times, SameLow
    <2> QED
      BY <1>1, <1>2, <2>1, OtherTimes DEF histVars
  <1>4. ASSUME phase'[s] \in {"new", "running"} PROVE TimesOf(s)'
    <2>1. TimesOf(s) /\ Marked(stack[s], metrics[s]) /\ Low(s)' = 0 /\ Timed(s) = stack[s]
      BY <1>4, AtRest DEF Times, Marks, SameLow
    <2>2. stack[s] \in Seq(Entries) /\ metrics[s] \in [Timers -> Metrics] /\ clock \in Nat
          /\ metrics'[s] \in [Timers -> Metrics]
      BY DEF TypeOK
    <2>3. SelfExact(SubSeq(stack[s], 1, Len(stack[s]) - 1), clock, metrics'[s], Net(s))
      BY <1>1, <2>1, <2>2, PopSelf DEF TimesOf
    <2>4. InclExact(SubSeq(stack[s], 1, Len(stack[s]) - 1), clock, metrics'[s], present[s])
      BY <1>1, <2>1, <2>2, PopIncl DEF TimesOf
    <2> QED
      BY <1>2, <2>1, <2>3, <2>4, OwnTimes DEF Pop
  <1> QED
    BY <1>3, <1>4 DEF Times

(* Time passes for a thread, and for a purge of it.                        *)
LEMMA TickTimes ==
    ASSUME TypeOK, NEW s \in Tids, Tick, TimesOf(s)
    PROVE  TimesOf(s)'
  <1>1. /\ clock' = clock + 1 /\ stack' = stack /\ metrics' = metrics /\ lost' = lost
        /\ Low(s)' = Low(s)
        /\ took'[s] = IF Low(s) > 0 THEN took[s] + 1 ELSE took[s]
    BY DEF Tick, tauVars, Low
  <1>2. /\ self'[s] = [f \in Timers |->
              IF stack[s] # <<>> /\ Top(s).func = f THEN self[s][f] + 1 ELSE self[s][f]]
        /\ present'[s] = [f \in Timers |->
              IF \E i \in 1 .. Len(stack[s]) : stack[s][i].func = f
              THEN present[s][f] + 1 ELSE present[s][f]]
    BY Zenon DEF Tick
  <1>3. PICK q, v : q = stack[s] /\ v = Timed(s)
    OBVIOUS
  <1>4. /\ q \in Seq(Entries) /\ v \in Seq(Entries) /\ Len(v) = Len(q) /\ clock \in Nat
        /\ \A i \in 1 .. Len(q) : v[i].func = q[i].func
        /\ metrics[s] \in [Timers -> Metrics] /\ Low(s) \in Nat
    <2>1. q \in Seq(Entries) /\ clock \in Nat /\ metrics[s] \in [Timers -> Metrics]
          /\ Low(s) \in Nat
      BY <1>3, LowIsPos DEF TypeOK
    <2>2. Low(s) = 0 \/ Low(s) < Len(q)
      BY <1>3, <2>1 DEF TimesOf, Under
    <2> QED
      BY <1>3, <2>1, <2>2, LevelProperties DEF Timed
  <1>5. /\ SelfExact(v, clock, metrics[s], Net(s)) /\ InclExact(v, clock, metrics[s], present[s])
    BY <1>3 DEF TimesOf
  <1>6. \A f \in Timers : Net(s)'[f] = IF v # <<>> /\ v[Len(v)].func = f
                                       THEN Net(s)[f] + 1 ELSE Net(s)[f]
    <2> SUFFICES ASSUME NEW f \in Timers
                 PROVE  Net(s)'[f] = IF v # <<>> /\ v[Len(v)].func = f
                                     THEN Net(s)[f] + 1 ELSE Net(s)[f]
      OBVIOUS
    <2>1. self[s][f] \in Nat /\ lost[s][f] \in Int
      BY DEF TypeOK
    <2>2. self'[s][f] = IF q # <<>> /\ q[Len(q)].func = f THEN self[s][f] + 1 ELSE self[s][f]
      BY <1>2, <1>3, Zenon DEF Top
    <2>3. (v # <<>> /\ v[Len(v)].func = f) <=> (q # <<>> /\ q[Len(q)].func = f)
      <3>1. q # <<>> <=> v # <<>>
        BY <1>4
      <3>2. q # <<>> => Len(q) \in 1 .. Len(q)
        BY <1>4, PopProperties
      <3> QED
        BY <1>4, <3>1, <3>2
    <2>4. Net(s)[f] = self[s][f] - lost[s][f] /\ Net(s)'[f] = self'[s][f] - lost[s][f]
      BY <1>1 DEF Net
    <2> QED
      BY <2>1, <2>2, <2>3, <2>4
  <1>7. TickedPresent(v, present[s], present'[s])
    <2> SUFFICES ASSUME NEW f \in Timers
                 PROVE  present'[s][f] = IF \E i \in 1 .. Len(v) : v[i].func = f
                                         THEN present[s][f] + 1 ELSE present[s][f]
      BY Zenon DEF TickedPresent
    <2>1. present'[s][f] = IF \E i \in 1 .. Len(q) : q[i].func = f
                           THEN present[s][f] + 1 ELSE present[s][f]
      BY <1>2, <1>3, Zenon
    <2>2. (\E i \in 1 .. Len(v) : v[i].func = f) <=> (\E i \in 1 .. Len(q) : q[i].func = f)
      BY <1>4, Zenon
    <2> QED
      BY <2>1, <2>2, Zenon
  <1>8. SelfExact(v, clock + 1, metrics[s], Net(s)')
    BY <1>4, <1>5, <1>6, TickSelf
  <1>9. InclExact(v, clock + 1, metrics[s], present'[s])
    BY <1>4, <1>5, <1>7, TickIncl
  <1>10. Timed(s)' = v
    BY <1>1, <1>3 DEF Timed
  <1>11. LossOf(s)' /\ Under(s)'
    <2>1. CASE Low(s) > 0
      <3>1. Low(s) + 1 \in 1 .. Len(q)
        BY <1>3, <1>4, <2>1 DEF TimesOf, Under
      <3>2. PICK a \in Nat : a = stack[s][Low(s) + 1].start
        BY <1>3, <1>4, <3>1, OpensType
      <3>3. SumOf(lost[s]) + (clock - a) = took[s] /\ a <= clock
        BY <2>1, <3>2 DEF TimesOf, LossOf, Taken, Under
      <3>4. SumOf(lost[s]) \in Int
        BY SumInt, TimerAssumption, FS_Union, FS_Singleton DEF TypeOK, Timers
      <3>5. a <= clock + 1 /\ SumOf(lost[s]) + ((clock + 1) - a) = took[s] + 1
        <4>1. PICK b \in Int : b = SumOf(lost[s])
          BY <3>4
        <4>2. clock \in Nat /\ took[s] = b + (clock - a)
          BY <1>4, <3>3, <4>1
        <4>3. took[s] + 1 = b + ((clock + 1) - a) /\ a <= clock + 1
          BY <3>3, <4>1, <4>2
        <4> QED
          BY <4>1, <4>3
      <3>6. Taken(s)' = (clock + 1) - a
        BY <1>1, <2>1, <3>2 DEF Taken
      <3>7. LossOf(s)'
        BY <1>1, <2>1, <3>5, <3>6 DEF TimesOf, LossOf
      <3>8. Under(s)'
        BY <1>1, <3>2, <3>5 DEF TimesOf, Under
      <3> QED
        BY <3>7, <3>8
    <2>2. CASE ~(Low(s) > 0)
      BY <1>1, <2>2 DEF TimesOf, LossOf, Taken, Under
    <2> QED
      BY <2>1, <2>2
  <1> QED
    BY <1>1, <1>8, <1>9, <1>10, <1>11 DEF TimesOf

(* The timers of the functions are finitely many.                          *)
LEMMA LossType ==
    ASSUME TypeOK, NEW s \in Tids
    PROVE  /\ IsFiniteSet(Timers) /\ lost[s] \in [Timers -> Int] /\ SumOf(lost[s]) \in Int
  <1>1. IsFiniteSet(Timers)
    BY TimerAssumption, FS_AddElement DEF TimerAssumption, Timers
  <1> QED
    BY <1>1, SumInt DEF TypeOK

(* A purge begins.                                                         *)
LEMMA PurgeTimes ==
    ASSUME TypeOK, TypeOK', NEW t \in Real, t \in Tids, Purge(t)
    PROVE  TimesOf(t)'
  <1>1. PICK q \in Seq(Entries), L \in Nat : q = stack[t] /\ L = Len(q)
    BY DEF TypeOK
  <1>2. /\ stack'[t] = Restarted(q, L) /\ metrics'[t] = Purged(q, metrics[t])
        /\ self'[t] = [f \in Timers |-> 0] /\ present'[t] = [f \in Timers |-> 0]
        /\ lost'[t] = [f \in Timers |-> 0] /\ took'[t] = 0
        /\ op'[t] = PurgeFrom(t, L - 1) /\ clock' = clock
    BY <1>1 DEF Purge, TypeOK
  <1>3. clock \in Nat /\ metrics[t] \in [Timers -> Metrics]
    BY DEF TypeOK
  <1> DEFINE r == Restarted(q, L)
             p == IF L > 1 THEN L - 1 ELSE 0
  <1>4. /\ r \in Seq(Entries) /\ Len(r) = L
        /\ \A j \in 1 .. L : r[j].start = IF j = L THEN clock ELSE q[j].start
    <2>1. L \in Int
      OBVIOUS
    <2>2. /\ r \in Seq(Entries) /\ Len(r) = Len(q)
          /\ \A j \in 1 .. Len(q) : /\ r[j].func = q[j].func
                                    /\ r[j].start = IF j = L THEN clock ELSE q[j].start
      BY <1>1, <2>1, RestartedProperties
    <2> QED
      BY <1>1, <2>2
  <1>5. Low(t)' = p
    <2>1. CASE L > 1
      <3>1. op'[t].stage = "purge" /\ op'[t].pos = L - 1
        BY <1>2, <2>1 DEF PurgeFrom, NoOp
      <3> QED
        BY <2>1, <3>1 DEF Low
    <2>2. CASE ~(L > 1)
      <3>1. op'[t].stage # "purge"
        BY <1>2, <2>2 DEF PurgeFrom, NoOp
      <3> QED
        BY <2>2, <3>1 DEF Low
    <2> QED
      BY <2>1, <2>2
  <1> HIDE DEF r
  <1>6. p \in Nat /\ (p = 0 \/ p < L) /\ (p > 0 => p + 1 = L) /\ (p = 0 => L = 0 \/ L = 1)
    OBVIOUS
  <1> HIDE DEF p
  <1>7. /\ Level(r, p) \in Seq(Entries) /\ Len(Level(r, p)) = L
        /\ \A i \in 1 .. L : Level(r, p)[i].start = clock
    <2>1. /\ Level(r, p) \in Seq(Entries) /\ Len(Level(r, p)) = L
          /\ \A i \in 1 .. L : Level(r, p)[i].start = IF i <= p THEN r[p + 1].start ELSE r[i].start
      BY <1>4, <1>6, LevelProperties
    <2>2. ASSUME NEW i \in 1 .. L PROVE Level(r, p)[i].start = clock
      <3>1. CASE i <= p
        <4>1. p + 1 = L /\ L \in 1 .. L
          BY <1>6, <3>1
        <4> QED
          BY <1>4, <2>1, <3>1, <4>1
      <3>2. CASE ~(i <= p)
        <4>1. i = L
          BY <1>6, <3>2
        <4> QED
          BY <1>4, <2>1, <3>2, <4>1
      <3> QED
        BY <3>1, <3>2
    <2> QED
      BY <2>1, <2>2
  <1>8. Timed(t)' = Level(r, p)
    BY <1>2, <1>5 DEF Timed, r
  <1>9. /\ \A f \in Timers : metrics'[t][f].incl = 0
        /\ \A f \in Timers : metrics'[t][f].excl = 0
    <2>1. PurgedTo(Purged(q, metrics[t]), q)
      BY <1>1, <1>3, PurgedNumbers
    <2> QED
      BY <1>2, <2>1 DEF PurgedTo
  <1>10. \A f \in Timers : Net(t)'[f] = 0 /\ present'[t][f] = 0
    BY <1>2 DEF Net
  <1>11. SelfExact(Level(r, p), clock, metrics'[t], Net(t)')
    BY <1>3, <1>7, <1>9, <1>10, RestartSelf
  <1>12. InclExact(Level(r, p), clock, metrics'[t], present'[t])
    BY <1>3, <1>7, <1>9, <1>10, RestartIncl
  <1>13. ASSUME p > 0 PROVE stack'[t][p + 1].start = clock /\ p < Len(stack'[t])
    BY <1>2, <1>4, <1>6, <1>13 DEF r
  <1>14. LossOf(t)'
    <2>1. SumOf(lost'[t]) = 0
      BY <1>2, LossType, SumZero
    <2>2. Taken(t)' = 0
      BY <1>2, <1>3, <1>5, <1>13 DEF Taken
    <2> QED
      BY <1>2, <2>1, <2>2 DEF LossOf
  <1>15. Under(t)'
    BY <1>2, <1>3, <1>5, <1>9, <1>13 DEF Under
  <1> QED
    BY <1>2, <1>8, <1>11, <1>12, <1>14, <1>15 DEF TimesOf

(* A purge goes on: what its step loses is what it took to come to it.     *)
LEMMA RestartTimes ==
    ASSUME TypeOK, TypeOK', NEW t \in Real, t \in Tids, RestartNext(t), Purging, TimesOf(t)
    PROVE  TimesOf(t)'
  <1> DEFINE q == stack[t]
             p == op[t].pos
  <1>1. q = stack[t] /\ p = op[t].pos /\ q \in Seq(Entries) /\ p \in Nat /\ p # 0
    <2>1. op[t].stage = "purge" /\ op[t].pos \in Nat
      BY DEF RestartNext, TypeOK, Ops
    <2>2. op[t].pos # 0
      BY <2>1 DEF Purging
    <2> QED
      BY <2>1, <2>2 DEF TypeOK
  <1>2. /\ stack'[t] = Restarted(q, p) /\ metrics' = metrics /\ self' = self
        /\ clock' = clock /\ took' = took
        /\ op[t].stage = "purge" /\ op'[t] = PurgeFrom(t, p - 1)
    BY DEF RestartNext, TypeOK
  <1>3. /\ lost'[t] = [f \in Timers |->
              IF p <= Len(q) /\ q[p].func = f THEN lost[t][f] + Behind(q, p) ELSE lost[t][f]]
        /\ present'[t] = [f \in Timers |->
              IF \E i \in 1 .. p : i \in DOMAIN q /\ q[i].func = f THEN 0 ELSE present[t][f]]
    BY Zenon DEF RestartNext, TypeOK
  <1> HIDE DEF q, p
  <1>4. Low(t) = p /\ p > 0 /\ clock \in Nat /\ metrics[t] \in [Timers -> Metrics]
    BY <1>1, <1>2 DEF Low, TypeOK
  <1>5. PICK L \in Nat : L = Len(q)
    BY <1>1
  <1>6. /\ p < L /\ q[p + 1].start <= clock /\ \A f \in Timers : metrics[t][f].incl = 0
    BY <1>1, <1>4, <1>5 DEF TimesOf, Under
  <1>7. p \in 1 .. L /\ p + 1 \in 1 .. L
    BY <1>1, <1>6
  <1>8. PICK a \in Nat, b \in Nat : a = q[p + 1].start /\ b = clock - a
    <2>1. q[p + 1].start \in Nat
      BY <1>1, <1>5, <1>7, OpensType
    <2> QED
      BY <1>4, <1>6, <2>1
  <1> DEFINE r == Restarted(q, p)
             v == Level(q, p)
             w == Level(r, p - 1)
  <1>9. /\ v \in Seq(Entries) /\ w \in Seq(Entries) /\ Len(v) = Len(q) /\ p - 1 \in Nat
        /\ Shifted(v, w, p, a, clock)
        /\ \A i \in 1 .. Len(q) : v[i].func = q[i].func
        /\ r[p].start = clock
    BY <1>1, <1>5, <1>6, <1>8, RestartShifts
  <1>10. Len(r) = L
    <2>1. p \in Int
      BY <1>1
    <2> QED
      BY <1>1, <1>5, <2>1, RestartedProperties
  <1>11. Low(t)' = p - 1
    <2>1. CASE p - 1 > 0
      <3>1. op'[t].stage = "purge" /\ op'[t].pos = p - 1
        BY <1>2, <2>1 DEF PurgeFrom, NoOp
      <3> QED
        BY <3>1 DEF Low
    <2>2. CASE ~(p - 1 > 0)
      <3>1. op'[t].stage # "purge" /\ p - 1 = 0
        BY <1>1, <1>2, <2>2 DEF PurgeFrom, NoOp
      <3> QED
        BY <3>1 DEF Low
    <2> QED
      BY <2>1, <2>2
  <1>12. Timed(t) = v /\ Timed(t)' = w
    BY <1>1, <1>2, <1>4, <1>11 DEF Timed
  <1> HIDE DEF r, v, w
  <1>13. SelfExact(v, clock, metrics[t], Net(t)) /\ InclExact(v, clock, metrics[t], present[t])
         /\ LossOf(t)
    BY <1>12 DEF TimesOf
  <1>14. Behind(q, p) = b
    BY <1>5, <1>6, <1>8 DEF Behind
  <1>15. ASSUME NEW f \in Timers
         PROVE  /\ lost'[t][f] = lost[t][f] + (IF q[p].func = f THEN b ELSE 0)
                /\ lost[t][f] \in Int /\ self[t][f] \in Int
    <2>1. lost[t][f] \in Int /\ self[t][f] \in Int /\ lost[t][f] + 0 = lost[t][f]
      BY DEF TypeOK
    <2>2. lost'[t][f] = IF q[p].func = f THEN lost[t][f] + b ELSE lost[t][f]
      BY <1>1, <1>3, <1>5, <1>6, <1>14
    <2> QED
      BY <2>1, <2>2
  <1>16. LessOf(v[p].func, clock - a, Net(t), Net(t)')
    <2> SUFFICES ASSUME NEW f \in Timers
                 PROVE  Net(t)'[f] = IF v[p].func = f THEN Net(t)[f] - (clock - a) ELSE Net(t)[f]
      BY DEF LessOf
    <2>1. v[p].func = q[p].func
      BY <1>5, <1>7, <1>9
    <2>2. Net(t)[f] = self[t][f] - lost[t][f] /\ Net(t)'[f] = self[t][f] - lost'[t][f]
      BY <1>2 DEF Net
    <2>3. PICK x \in Int, y \in Int : x = self[t][f] /\ y = lost[t][f]
      BY <1>15
    <2>4. CASE v[p].func = f
      <3>1. Net(t)[f] = x - y /\ Net(t)'[f] = x - (y + b) /\ b = clock - a
        BY <1>8, <1>15, <2>1, <2>2, <2>3, <2>4
      <3> QED
        BY <2>3, <2>4, <3>1
    <2>5. CASE v[p].func # f
      BY <1>15, <2>1, <2>2, <2>3, <2>5
    <2> QED
      BY <2>4, <2>5
  <1>17. StartedOver(v, p, present[t], present'[t])
    <2> SUFFICES ASSUME NEW f \in Timers
                 PROVE  present'[t][f] = IF \E i \in 1 .. p : v[i].func = f THEN 0
                                         ELSE present[t][f]
      BY DEF StartedOver
    <2>1. present'[t][f] = IF \E i \in 1 .. p : i \in DOMAIN q /\ q[i].func = f THEN 0
                           ELSE present[t][f]
      BY <1>3, Zenon
    <2>2. \A i \in 1 .. p : i \in DOMAIN q /\ v[i].func = q[i].func
      BY <1>1, <1>5, <1>6, <1>9
    <2>3. (\E i \in 1 .. p : i \in DOMAIN q /\ q[i].func = f) <=> \E i \in 1 .. p : v[i].func = f
      BY <2>2, Zenon
    <2> QED
      BY <2>1, <2>3, Zenon
  <1>18. p < Len(v)
    BY <1>5, <1>6, <1>9
  <1>19. SelfExact(w, clock, metrics[t], Net(t)')
    <2>1. PICK m, h, k : m = metrics[t] /\ h = Net(t) /\ k = Net(t)'
      OBVIOUS
    <2>2. m \in [Timers -> Metrics] /\ SelfExact(v, clock, m, h) /\ LessOf(v[p].func, clock - a, h, k)
      BY <1>4, <1>13, <1>16, <2>1
    <2>3. p \in Nat \ {0}
      BY <1>1
    <2>4. SelfExact(w, clock, m, k)
      BY <1>4, <1>9, <1>18, <2>2, <2>3, ShiftSelf
    <2> QED
      BY <2>1, <2>4
  <1>20. InclExact(w, clock, metrics[t], present'[t])
    BY <1>1, <1>4, <1>6, <1>9, <1>13, <1>17, <1>18, ShiftIncl
  <1>21. Taken(t) = b /\ Taken(t)' = 0
    <2>1. Taken(t) = b
      BY <1>1, <1>4, <1>8 DEF Taken
    <2>2. p - 1 > 0 => stack'[t][(p - 1) + 1].start = clock
      BY <1>1, <1>2, <1>9 DEF r
    <2>3. Taken(t)' = 0
      BY <1>1, <1>2, <1>4, <1>11, <2>2 DEF Taken
    <2> QED
      BY <2>1, <2>3
  <1>22. LossOf(t)'
    <2>1. \A f \in Timers : lost'[t][f] >= 0
      BY <1>8, <1>13, <1>15 DEF LossOf
    <2>2. /\ IsFiniteSet(Timers) /\ lost[t] \in [Timers -> Int] /\ SumOf(lost[t]) \in Int
          /\ lost'[t] \in [Timers -> Int]
      BY LossType DEF TypeOK
    <2>3. q[p].func \in Timers
      <3>1. q[p] \in Entries
        BY <1>1, <1>5, <1>7, ElementOfSeq
      <3> QED
        BY <3>1 DEF Entries
    <2>4. \A f \in Timers \ {q[p].func} : lost'[t][f] = lost[t][f]
      BY <1>15
    <2>5. PICK g, d, e : /\ g \in Timers /\ g = q[p].func
                         /\ d = lost[t] /\ e = lost'[t]
      BY <2>3
    <2>6. SumOf(e) = SumOf(d) + (e[g] - d[g])
      <3>1. IsFiniteSet(Timers) /\ d \in [Timers -> Int] /\ e \in [Timers -> Int]
        BY <2>2, <2>5
      <3>2. \A f \in Timers \ {g} : e[f] = d[f]
        BY <2>4, <2>5
      <3>3. g \in Timers
        BY <2>5
      <3> QED
        BY <3>1, <3>2, <3>3, SumChange
    <2>7. e[g] = d[g] + b /\ d[g] \in Int
      BY <1>15, <2>5
    <2>8. SumOf(lost'[t]) = SumOf(lost[t]) + b
      BY <2>2, <2>5, <2>6, <2>7
    <2>9. SumOf(lost[t]) + b = took[t]
      BY <1>13, <1>21 DEF LossOf
    <2>10. SumOf(lost'[t]) + 0 = took'[t]
      BY <1>2, <2>2, <2>8, <2>9
    <2> QED
      BY <1>21, <2>1, <2>10 DEF LossOf
  <1>23. Under(t)'
    <2>1. p - 1 < L /\ (p - 1) + 1 = p /\ clock <= clock
      BY <1>1, <1>4, <1>6
    <2> QED
      BY <1>2, <1>5, <1>6, <1>9, <1>10, <1>11, <2>1 DEF Under, r
  <1> QED
    BY <1>2, <1>12, <1>19, <1>20, <1>22, <1>23 DEF TimesOf

(* Every step keeps the times of the threads that run.                     *)
LEMMA NextTimes ==
    ASSUME Joined, TypeOK, TypeOK', Shape, Marks, Purging, Times, [Next]_vars
    PROVE  Times'
  <1>0. Real = Tids /\ App \in Timers /\ Funcs \subseteq Timers
    BY RealIsTids DEF Timers
  <1>1. ASSUME NEW t \in Real, Purge(t) PROVE Times'
    <2>1. /\ clock' = clock /\ phase' = phase /\ t \in Tids
          /\ \A r \in Real \ {t} : op'[r] = op[r]
      BY <1>1, PurgeStep
    <2>2. ASSUME NEW r \in Tids \ {t}, phase[r] \in {"new", "running"} PROVE TimesOf(r)'
      <3>1. /\ stack'[r] = stack[r] /\ metrics'[r] = metrics[r]
            /\ self'[r] = self[r] /\ present'[r] = present[r]
            /\ lost'[r] = lost[r] /\ took'[r] = took[r]
        BY <1>1, <2>2 DEF Purge, TypeOK
      <3>2. TimesOf(r) /\ Low(r)' = Low(r)
        BY <2>1, <2>2 DEF Times, Low
      <3> QED
        BY <2>1, <3>1, <3>2, OtherTimes
    <2>3. TimesOf(t)'
      BY <1>1, <2>1, PurgeTimes
    <2> QED
      BY <2>1, <2>2, <2>3 DEF Times
  <1>2. ASSUME NEW t \in Real, RestartNext(t) PROVE Times'
    <2>1. /\ clock' = clock /\ phase' = phase /\ t \in Tids
          /\ \A r \in Real \ {t} : op'[r] = op[r]
      BY <1>2, PurgeStep
    <2>2. ASSUME NEW r \in Tids \ {t}, phase[r] \in {"new", "running"} PROVE TimesOf(r)'
      <3>1. /\ stack'[r] = stack[r] /\ metrics'[r] = metrics[r]
            /\ self'[r] = self[r] /\ present'[r] = present[r]
            /\ lost'[r] = lost[r] /\ took'[r] = took[r]
        BY <1>2, <2>2 DEF RestartNext, TypeOK
      <3>2. TimesOf(r) /\ Low(r)' = Low(r)
        BY <2>1, <2>2 DEF Times, Low
      <3> QED
        BY <2>1, <3>1, <3>2, OtherTimes
    <2>3. phase[t] \in {"new", "running"} => TimesOf(t)'
      BY <1>2, <2>1, RestartTimes DEF Times
    <2> QED
      BY <2>1, <2>2, <2>3 DEF Times
  <1>3. SUFFICES ASSUME SameLow, ~\E t \in Real : Purge(t) \/ RestartNext(t) PROVE Times'
    BY <1>1, <1>2, NextOps, OtherOpLow
  <1>4. ASSUME NEW t \in Tids, op[t].stage # "purge" PROVE Low(t) = 0
    BY <1>4 DEF Low
  <1>5. ASSUME NEW t \in Tids, NEW s \in Tids, s \in Drives(t) PROVE s = t
    BY <1>5 DEF Drives, Joined
  <1>6. ASSUME NEW t \in Tids, NEW s \in Tids, Begin(t, s) PROVE Times'
    <2>1. NoneBegins
      BY <1>6 DEF Begin, TypeOK, NoneBegins
    <2>2. Low(s) = 0
      BY <1>4, <1>5, <1>6 DEF Begin, Idle
    <2>3. StartTimer(s, App, 1) /\ UNCHANGED <<clock, histVars>>
      BY <1>6 DEF Begin
    <2> QED
      BY <1>0, <1>3, <2>1, <2>2, <2>3, StartTimes
  <1>7. ASSUME NEW t \in Tids, NEW s \in Tids, NEW f \in Funcs, Enter(t, s, f) PROVE Times'
    <2>1. NoneBegins /\ StartTimer(s, f, Len(calls[s]) + 1) /\ UNCHANGED <<clock, histVars>>
      BY <1>7 DEF Enter, NoneBegins
    <2>2. Len(calls[s]) + 1 \in Nat
      BY DEF TypeOK
    <2>3. Low(s) = 0
      BY <1>4, <1>5, <1>7 DEF Enter, Idle
    <2> QED
      BY <1>0, <1>3, <2>1, <2>2, <2>3, StartTimes
  <1>8. ASSUME NEW t \in Tids, NEW s \in Tids, Leave(t, s) PROVE Times'
    BY <1>3, <1>8, IdleTimes DEF Leave, tauVars, NoneBegins
  <1>9. ASSUME NEW t \in Tids, StopCall(t) \/ Overlap(t) PROVE Times'
    BY <1>3, <1>9, IdleTimes DEF StopCall, Overlap, tauVars, appVars, NoneBegins
  <1>10. ASSUME NEW t \in Tids, PopThrottled(t) \/ StopTop(t) PROVE Times'
    <2>1. /\ op[t].stage = "stop" /\ stack[op[t].on] # <<>>
          /\ UNCHANGED <<phase, clock, histVars>>
          /\ ProfilerStop(op[t].on, t) \/ ProfilerStop(op[t].on, op[t].on)
      BY <1>10 DEF PopThrottled, StopTop, appVars
    <2>2. op[t].on = t
      BY <2>1 DEF Shape, Ownership
    <2>3. Low(t) = 0
      BY <1>4, <2>1
    <2> QED
      BY <1>3, <2>1, <2>2, <2>3, StopTimes
  <1>11. ASSUME NEW t \in Tids, EndThread(t) PROVE Times'
    <2>1. NoneBegins
      BY <1>11 DEF EndThread, TypeOK, NoneBegins
    <2> QED
      BY <1>3, <1>11, <2>1, IdleTimes DEF EndThread, tauVars
  <1>12. ASSUME NEW t \in Tids, StopAllLock(t) \/ StopAllNext(t) \/ Toggle(t) PROVE Times'
    BY <1>3, <1>12, IdleTimes DEF StopAllLock, StopAllNext, Toggle, tauVars, appVars, NoneBegins
  <1>13. ASSUME NEW t \in Tids, StopAllCheck(t) PROVE Times'
    <2>1. op[t].stage = "check" /\ phase' = phase /\ UNCHANGED <<clock, metrics, histVars>>
      BY <1>13 DEF StopAllCheck, appVars
    <2>2. op[t].on = t /\ phase[t] = "ending"
      BY <2>1 DEF Shape, Ownership
    <2>3. \A r \in Tids \ {t} : stack'[r] = stack[r]
      BY <1>13, <2>2 DEF StopAllCheck, TypeOK
    <2>4. ASSUME NEW r \in Tids, phase[r] \in {"new", "running"} PROVE TimesOf(r)'
      <3>1. TimesOf(r) /\ Low(r)' = Low(r) /\ r # t
        BY <1>3, <2>2, <2>4 DEF Times, SameLow
      <3> QED
        BY <2>1, <2>3, <3>1, OtherTimes DEF histVars
    <2> QED
      BY <2>1, <2>4 DEF Times
  <1>14. ASSUME NEW t \in Tids, StopAllDone(t) PROVE Times'
    <2>1. phase' = phase \/ phase' = [phase EXCEPT ![t] = "done"]
      BY <1>14 DEF StopAllDone
    <2>2. NoneBegins
      BY <2>1 DEF TypeOK, NoneBegins
    <2> QED
      BY <1>3, <1>14, <2>2, IdleTimes DEF StopAllDone, tauVars
  <1>15. ASSUME Tick PROVE Times'
    <2>1. phase' = phase
      BY <1>15 DEF Tick, appVars
    <2> QED
      BY <1>15, <2>1, TickTimes DEF Times
  <1>16. CASE UNCHANGED vars
    BY <1>3, <1>16, IdleTimes DEF vars, NoneBegins, histVars
  <1>17. ASSUME NEW t \in Tids, StopStep(t) \/ StopAllStep(t) PROVE Times'
    BY <1>9, <1>10, <1>12, <1>13, <1>14, <1>17 DEF StopStep, StopAllStep
  <1> QED
    BY <1>0, <1>3, <1>6, <1>7, <1>8, <1>11, <1>12, <1>15, <1>16, <1>17 DEF Next, Finished

(* No time at first.                                                       *)
LEMMA InitTimes == ASSUME Init PROVE Times /\ Purging
  <1>0. Purging
    BY DEF Init, Purging, NoOp
  <1> SUFFICES ASSUME NEW s \in Tids PROVE TimesOf(s)
    BY <1>0 DEF Times
  <1>1. /\ stack[s] = <<>> /\ lost[s] = [f \in Timers |-> 0] /\ took[s] = 0
        /\ \A f \in Timers : metrics[s][f].excl = 0 /\ metrics[s][f].incl = 0
        /\ \A f \in Timers : Net(s)[f] = 0 /\ present[s][f] = 0
    BY DEF Init, NoMetrics, Net
  <1>2. stack[s] \in Seq(Entries) /\ clock \in Nat /\ Len(stack[s]) = 0
    BY <1>1 DEF Init
  <1>3. \A i \in 1 .. Len(stack[s]) : stack[s][i].start = clock
    BY <1>2
  <1>4. Low(s) = 0
    BY DEF Init, NoOp, Low
  <1>5. SelfExact(stack[s], clock, metrics[s], Net(s))
    BY <1>1, <1>2, <1>3, RestartSelf
  <1>6. InclExact(stack[s], clock, metrics[s], present[s])
    BY <1>1, <1>2, <1>3, RestartIncl
  <1>7. LossOf(s)
    <2>1. SumOf(lost[s]) = 0
      BY <1>1, InitType, LossType, SumZero
    <2> QED
      BY <1>1, <1>4, <2>1, AtRest DEF LossOf
  <1> QED
    BY <1>4, <1>5, <1>6, <1>7, AtRest DEF TimesOf

\* The invariant behind the exact times.
TimesInv == TypeOK /\ Shape /\ Marks /\ Purging /\ Times

(* It always holds, when main joins the other threads.                     *)
LEMMA TimesAlways == Joined => (Spec => []TimesInv)
  <1> SUFFICES ASSUME Joined PROVE Spec => []TimesInv
    OBVIOUS
  <1>1. Init => TimesInv
    <2>1. Init => Marks
      BY DEF Init, Marks, Marked, NoMetrics
    <2> QED
      BY <2>1, InitType, InitShape, InitTimes DEF TimesInv
  <1>2. TimesInv /\ [Next]_vars => TimesInv'
    BY NextType, NextShape, NextMarks, NextPurging, NextTimes DEF TimesInv
  <1> QED
    BY <1>1, <1>2, PTL DEF Spec

(* The least and the greatest of the activations of a function.            *)
LEMMA LowestActivation ==
    ASSUME NEW q \in Seq(Entries), NEW f, Acts(q, f) # {}
    PROVE  Min(Acts(q, f)) \in Acts(q, f) /\ \A j \in Acts(q, f) : Min(Acts(q, f)) <= j
  <1>1. Acts(q, f) \in SUBSET Nat
    BY DEF Acts
  <1>2. \E i \in Acts(q, f) : \A j \in Acts(q, f) : i <= j
    BY <1>1, NatMinimum
  <1> QED
    BY <1>2 DEF Min

(* The operators of TimesExact and DumpExact, on the stack of a thread.    *)
LEMMA OpenIsOpenSelf ==
    ASSUME NEW s, NEW f
    PROVE  /\ Acts(stack[s], f) = {i \in 1 .. Len(stack[s]) : stack[s][i].func = f}
           /\ [i \in Acts(stack[s], f) |-> OpenSelf(s, i)] = Opens(stack[s], clock, f)
           /\ \A i : OpenSelf(s, i) = Open(stack[s], clock, i)
  BY DEF Acts, OpenSelf, Open, Opens

(* What TAU records of the time of a thread that runs is exact, whatever   *)
(* is called recursively, throttled by whom, disabled or purged: inclusive *)
(* times with that of the outermost activation, exclusive times with the   *)
(* open parts of what is on the stack, but for the time that a purge lost  *)
(* by restarting a timer after its child, in all exactly what it took.     *)
THEOREM TimesAreExact == Joined => (Spec => []TimesExact)
  <1>1. TimesInv => TimesExact
    <2> SUFFICES ASSUME TimesInv, NEW s \in Tids, phase[s] = "running", Low(s) = 0
                 PROVE  /\ \A f \in Timers :
                              LET I == {i \in 1 .. Len(stack[s]) : stack[s][i].func = f}
                              IN /\ self[s][f] - lost[s][f]
                                       = metrics[s][f].excl + SumOf([i \in I |-> OpenSelf(s, i)])
                                 /\ lost[s][f] >= 0
                                 /\ present[s][f] = metrics[s][f].incl
                                      + (IF I = {} THEN 0 ELSE clock - stack[s][Min(I)].start)
                        /\ SumOf(lost[s]) = took[s]
      BY DEF TimesExact
    <2>1. /\ stack[s] \in Seq(Entries) /\ metrics[s] \in [Timers -> Metrics]
          /\ SelfExact(stack[s], clock, metrics[s], Net(s))
          /\ InclExact(stack[s], clock, metrics[s], present[s])
          /\ \A f \in Timers : lost[s][f] >= 0
          /\ SumOf(lost[s]) + 0 = took[s] /\ SumOf(lost[s]) \in Int
      BY AtRest, LossType DEF TimesInv, TypeOK, Times, TimesOf, LossOf
    <2>2. SumOf(lost[s]) = took[s]
      BY <2>1
    <2>3. ASSUME NEW f \in Timers
          PROVE  LET I == {i \in 1 .. Len(stack[s]) : stack[s][i].func = f}
                 IN /\ self[s][f] - lost[s][f]
                          = metrics[s][f].excl + SumOf([i \in I |-> OpenSelf(s, i)])
                    /\ lost[s][f] >= 0
                    /\ present[s][f] = metrics[s][f].incl
                         + (IF I = {} THEN 0 ELSE clock - stack[s][Min(I)].start)
      <3> DEFINE I == Acts(stack[s], f)
      <3>1. self[s][f] - lost[s][f] = metrics[s][f].excl + SumOf([i \in I |-> OpenSelf(s, i)])
        <4>1. self[s][f] - lost[s][f] = metrics[s][f].excl + SumOf(Opens(stack[s], clock, f))
          BY <2>1 DEF SelfExact, Net
        <4> QED
          BY <4>1, OpenIsOpenSelf
      <3>2. present[s][f] = metrics[s][f].incl
                            + (IF I = {} THEN 0 ELSE clock - stack[s][Min(I)].start)
        <4>1. CASE I = {}
          <5>1. present[s][f] = metrics[s][f].incl /\ metrics[s][f].incl \in Int
            BY <2>1, <4>1, MetricsType DEF InclExact
          <5> QED
            BY <4>1, <5>1
        <4>2. CASE I # {}
          BY <2>1, <4>2, LowestActivation DEF InclExact
        <4> QED
          BY <4>1, <4>2
      <3> QED
        BY <2>1, <3>1, <3>2 DEF Acts
    <2> QED
      BY <2>2, <2>3
  <1> QED
    BY <1>1, TimesAlways, PTL

(* What a dump writes for a running thread is as exact, for every function *)
(* that is on its stack at most once.                                      *)
THEOREM DumpsAreExact == Joined => (Spec => []DumpExact)
  <1>1. TimesInv => DumpExact
    <2> SUFFICES ASSUME TimesInv, NEW s \in Tids, phase[s] = "running", Low(s) = 0,
                        NEW f \in Timers, Cardinality(Acts(stack[s], f)) <= 1
                 PROVE  /\ DumpedIncl(s, f) = present[s][f]
                        /\ DumpedExcl(s, f) = self[s][f] - lost[s][f]
      BY OpenIsOpenSelf DEF DumpExact
    <2> DEFINE I == Acts(stack[s], f)
               d == Opens(stack[s], clock, f)
    <2>1. /\ stack[s] \in Seq(Entries) /\ metrics[s] \in [Timers -> Metrics]
          /\ SelfExact(stack[s], clock, metrics[s], Net(s))
          /\ InclExact(stack[s], clock, metrics[s], present[s])
          /\ Marked(stack[s], metrics[s]) /\ clock \in Nat
      BY AtRest DEF TimesInv, TypeOK, Times, TimesOf, Marks
    <2>2. /\ self[s][f] - lost[s][f] = metrics[s][f].excl + SumOf(d)
          /\ metrics[s][f].excl \in Int /\ metrics[s][f].incl \in Int
          /\ IsFiniteSet(I) /\ d \in [I -> Int] /\ I \subseteq 1 .. Len(stack[s])
      BY <2>1, MetricsType, OpensType DEF SelfExact, Net
    <2>3. metrics[s][f].onStack <=> I # {}
      BY <2>1 DEF Marked, Acts
    <2>4. /\ DumpedIncl(s, f) = metrics[s][f].incl
                + (IF metrics[s][f].onStack /\ I # {} THEN clock - stack[s][Max(I)].start ELSE 0)
          /\ DumpedExcl(s, f) = metrics[s][f].excl
                + (IF metrics[s][f].onStack /\ I # {} THEN OpenSelf(s, Max(I)) ELSE 0)
      <3>1. {i \in 1 .. Len(stack[s]) : stack[s][i].func = f} = I
        BY DEF Acts
      <3> HIDE DEF I
      <3> QED
        BY <3>1 DEF DumpedIncl, DumpedExcl
    <2>5. CASE I = {}
      <3>1. SumOf(d) = 0
        BY <2>2, <2>5, SumEmpty
      <3>2. present[s][f] = metrics[s][f].incl
        BY <2>1, <2>5 DEF InclExact
      <3> QED
        BY <2>2, <2>4, <2>5, <3>1, <3>2
    <2>6. CASE I # {}
      <3>1. PICK i \in I : I = {i}
        <4>1. PICK i \in I : TRUE
          BY <2>6
        <4>2. I \ {i} = {}
          <5>1. Cardinality(I \ {i}) = Cardinality(I) - 1 /\ Cardinality(I) \in Nat
                /\ IsFiniteSet(I \ {i})
            BY <2>2, <4>1, FS_RemoveElement, FS_CardinalityType, FS_Subset
          <5>2. Cardinality(I \ {i}) \in Nat
            BY <5>1, FS_CardinalityType
          <5>3. Cardinality(I \ {i}) = 0
            BY <5>1, <5>2
          <5> QED
            BY <5>1, <5>3, FS_EmptySet
        <4> QED
          BY <4>1, <4>2
      <3>2. i \in Int /\ Max(I) = i
        <4>1. i \in Int
          BY <2>2
        <4> QED
          BY <3>1, <4>1 DEF Max
      <3>3. SumOf(d) = OpenSelf(s, i)
        <4>1. SumOf(d) = d[i] + SumOf(Without(d, i))
          BY <2>2, SumRemove
        <4>2. SumOf(Without(d, i)) = 0
          <5>1. DOMAIN Without(d, i) = {}
            BY <2>2, <3>1 DEF Without
          <5> QED
            BY <5>1, SumEmpty
        <4>3. d[i] = OpenSelf(s, i) /\ d[i] \in Int
          BY <2>2, OpenIsOpenSelf DEF Opens
        <4> QED
          BY <4>1, <4>2, <4>3
      <3>4. present[s][f] = metrics[s][f].incl + (clock - stack[s][i].start)
        <4>1. \A j \in I : i <= j
          BY <3>1, <3>2
        <4> QED
          BY <2>1, <4>1 DEF InclExact
      <3> HIDE DEF I, d
      <3> QED
        BY <2>2, <2>3, <2>4, <2>6, <3>2, <3>3, <3>4
    <2> QED
      BY <2>5, <2>6
  <1> QED
    BY <1>1, TimesAlways, PTL

-----------------------------------------------------------------------------
(* The ".TAU application" timer is at the bottom of every stack, and the   *)
(* counts of calls and subroutine calls agree.                             *)

\* It is the lowest timer of the stack q, and the only one of its function.
AppAtBottom(q) == /\ q # <<>> => q[1].func = App
                  /\ \A i \in 2 .. Len(q) : q[i].func # App

\* A thread has it while it runs.
Bottomed == \A s \in Tids : AppAtBottom(stack[s]) /\ (phase[s] = "running" => stack[s] # <<>>)

\* So it is called once, and that is too few to throttle it.
OneApp == App \notin disabled /\ \A s \in Tids : metrics[s][App].calls <= 1

\* The application calls, and stops, only its own functions.
OwnCalls ==
    \A t \in Tids :
       /\ \A i \in 2 .. Len(calls[t]) : calls[t][i] # App
       /\ op[t].stage \in {"call", "stop"} /\ ~op[t].all => op[t].fn # App

\* TAU is not disabled when a thread begins, or while it stops a timer.
EnabledThere ==
    \A t \in Tids :
       phase[0] # "done" /\ (phase[t] = "new" \/ (phase[t] = "running" /\ op[t].stage = "stop"))
          => enabled

\* The two counts in m before the first call, and after it.
NoCounts(m) == \A f \in Timers : m[f].calls = 0 /\ m[f].subrs = 0

Calls(m) == [f \in Timers |-> m[f].calls]

Subrs(m) == [f \in Timers |-> m[f].subrs]

Agree(m) == SumOf(Calls(m)) = 1 + SumOf(Subrs(m))

Balanced == \A s \in Tids : IF phase[s] = "new" THEN NoCounts(metrics[s]) ELSE Agree(metrics[s])

\* If other threads could disable TAU, an application timer might not start.
Undisturbed == Joined /\ ThrottleCalls # 0 /\ (~Toggles \/ NumThreads = 1)

\* The invariant behind the counts.
CountsInv == TypeOK /\ Shape /\ Bottomed /\ OneApp /\ OwnCalls /\ EnabledThere /\ Balanced

(* A timer on top of the application's, or the application's alone.        *)
LEMMA PushBottom ==
    ASSUME NEW q \in Seq(Entries), NEW e \in Entries, AppAtBottom(q),
           q = <<>> <=> e.func = App
    PROVE  AppAtBottom(Append(q, e)) /\ Append(q, e) # <<>>
  <1> DEFINE p == Append(q, e)
  <1>1. PICK L \in Nat : L = Len(q)
    BY AppendEntry
  <1>2. /\ Len(p) = L + 1 /\ p[L + 1] = e
        /\ \A i \in 1 .. L : p[i] = q[i]
        /\ \A i \in 1 .. L + 1 : i \in 1 .. L \/ i = L + 1
    BY <1>1, AppendEntry
  <1>3. q = <<>> <=> L = 0
    BY <1>1, EmptySeq
  <1> HIDE DEF p
  <1>4. p[1].func = App
    <2>1. CASE L = 0
      BY <1>2, <1>3, <2>1
    <2>2. CASE L # 0
      <3>1. 1 \in 1 .. L
        BY <2>2
      <3> QED
        BY <1>2, <1>3, <3>1 DEF AppAtBottom
    <2> QED
      BY <2>1, <2>2
  <1>5. ASSUME NEW i \in 2 .. L + 1 PROVE p[i].func # App
    <2>1. CASE i = L + 1
      BY <1>2, <1>3, <1>5, <2>1
    <2>2. CASE i # L + 1
      <3>1. i \in 2 .. L /\ i \in 1 .. L
        BY <1>5, <2>2
      <3> QED
        BY <1>1, <1>2, <3>1 DEF AppAtBottom
    <2> QED
      BY <2>1, <2>2
  <1>6. AppAtBottom(p)
    BY <1>2, <1>4, <1>5 DEF AppAtBottom
  <1>7. p # <<>>
    <2>1. Len(<<>>) = 0
      OBVIOUS
    <2> QED
      BY <1>2, <2>1
  <1> QED
    BY <1>6, <1>7 DEF p

(* Taking a timer off: the application's stays, unless it is that one.     *)
LEMMA PopBottom ==
    ASSUME NEW q \in Seq(Entries), q # <<>>, AppAtBottom(q)
    PROVE  /\ AppAtBottom(SubSeq(q, 1, Len(q) - 1))
           /\ q[Len(q)].func # App => SubSeq(q, 1, Len(q) - 1) # <<>> /\ Len(q) # 1
  <1> DEFINE p == SubSeq(q, 1, Len(q) - 1)
  <1>1. PICK L \in Nat \ {0} : L = Len(q)
    BY PopProperties
  <1>2. Len(p) = L - 1 /\ (\A i \in 1 .. L - 1 : p[i] = q[i]) /\ p \in Seq(Entries)
    BY <1>1, PopProperties
  <1> HIDE DEF p
  <1>3. p # <<>> => 1 \in 1 .. L - 1
    BY <1>2, EmptySeq
  <1>4. \A i \in 2 .. L - 1 : i \in 2 .. L /\ i \in 1 .. L - 1
    BY <1>1
  <1>5. AppAtBottom(p)
    BY <1>1, <1>2, <1>3, <1>4 DEF AppAtBottom
  <1>6. ASSUME q[Len(q)].func # App PROVE p # <<>> /\ Len(q) # 1
    <2>1. L # 1
      BY <1>1, <1>6 DEF AppAtBottom
    <2>2. Len(<<>>) = 0
      OBVIOUS
    <2> QED
      BY <1>1, <1>2, <2>1, <2>2
  <1> QED
    BY <1>5, <1>6 DEF p

(* Starting the timers over.                                               *)
LEMMA RestartBottom ==
    ASSUME NEW p, NEW q \in Seq(Entries), AppAtBottom(q), SameTimers(p, q)
    PROVE  AppAtBottom(p)
  <1>1. /\ Len(p) = Len(q) /\ Len(q) \in Nat /\ (p # <<>> <=> q # <<>>)
        /\ \A i \in 1 .. Len(q) : p[i].func = q[i].func
    BY DEF SameTimers
  <1>2. q # <<>> => 1 \in 1 .. Len(q)
    BY <1>1, EmptySeq
  <1>3. \A i \in 2 .. Len(q) : i \in 1 .. Len(q)
    BY <1>1
  <1> QED
    BY <1>1, <1>2, <1>3 DEF AppAtBottom

(* The application's timer has at most one activation.                     *)
LEMMA OneActivation ==
    ASSUME NEW q \in Seq(Entries), AppAtBottom(q)
    PROVE  Cardinality(Acts(q, App)) <= 1
  <1>1. Acts(q, App) \subseteq {1}
    <2> SUFFICES ASSUME NEW i \in 1 .. Len(q), q[i].func = App PROVE i = 1
      BY DEF Acts
    <2>1. Len(q) \in Nat /\ (i = 1 \/ i \in 2 .. Len(q))
      OBVIOUS
    <2> QED
      BY <2>1 DEF AppAtBottom
  <1>2. IsFiniteSet({1}) /\ Cardinality({1}) = 1
    BY FS_Singleton
  <1> QED
    BY <1>1, <1>2, FS_Subset

-----------------------------------------------------------------------------
(* Sums of calls and subroutine calls.                                     *)

(* The functions are finitely many, and the counts are numbers.            *)
LEMMA CountsType ==
    ASSUME NEW m \in [Timers -> Metrics]
    PROVE  /\ IsFiniteSet(Timers)
           /\ Calls(m) \in [Timers -> Int] /\ Subrs(m) \in [Timers -> Int]
           /\ SumOf(Calls(m)) \in Int /\ SumOf(Subrs(m)) \in Int
           /\ \A f \in Timers : Calls(m)[f] = m[f].calls /\ Subrs(m)[f] = m[f].subrs
  <1>1. IsFiniteSet(Timers)
    BY TimerAssumption, FS_AddElement, FS_Singleton, FS_Union DEF TimerAssumption, Timers
  <1>2. Calls(m) \in [Timers -> Int] /\ Subrs(m) \in [Timers -> Int]
    BY MetricsType DEF Calls, Subrs
  <1>3. SumOf(Calls(m)) \in Int /\ SumOf(Subrs(m)) \in Int
    BY <1>1, <1>2, SumInt
  <1> QED
    BY <1>1, <1>2, <1>3 DEF Calls, Subrs

(* The first call of a thread has no parent.                               *)
LEMMA FirstAgrees ==
    ASSUME NEW m \in [Timers -> Metrics], NEW n \in [Timers -> Metrics], NEW f \in Timers, NEW p,
           NoCounts(m), Counted(m, n, f, TRUE, p)
    PROVE  Agree(n)
  <1>1. \A g \in Timers : Calls(n)[g] = (IF g = f THEN 1 ELSE 0) /\ Subrs(n)[g] = 0
    BY CountsType DEF NoCounts, Counted
  <1>2. SumOf(Subrs(n)) = 0
    BY <1>1, CountsType, SumZero
  <1>3. SumOf(Calls(m)) = 0
    BY CountsType, SumZero DEF NoCounts
  <1>4. \A g \in Timers \ {f} : Calls(n)[g] = Calls(m)[g]
    BY <1>1, CountsType DEF NoCounts
  <1>5. SumOf(Calls(n)) = SumOf(Calls(m)) + (Calls(n)[f] - Calls(m)[f])
    <2>1. /\ IsFiniteSet(Timers) /\ Calls(m) \in [Timers -> Int] /\ Calls(n) \in [Timers -> Int]
      BY CountsType
    <2> QED
      BY <1>4, <2>1, SumChange
  <1>6. Calls(n)[f] = 1 /\ Calls(m)[f] = 0
    BY <1>1, CountsType DEF NoCounts
  <1> QED
    BY <1>2, <1>3, <1>5, <1>6 DEF Agree

(* Each other call is a subroutine call of the timer below.                *)
LEMMA NextAgrees ==
    ASSUME NEW m \in [Timers -> Metrics], NEW n \in [Timers -> Metrics], NEW f \in Timers,
           NEW p \in Timers, Agree(m), Counted(m, n, f, FALSE, p)
    PROVE  Agree(n)
  <1>1. \A g \in Timers : /\ Calls(n)[g] = Calls(m)[g] + (IF g = f THEN 1 ELSE 0)
                          /\ Subrs(n)[g] = Subrs(m)[g] + (IF g = p THEN 1 ELSE 0)
                          /\ Calls(m)[g] \in Int /\ Subrs(m)[g] \in Int
    BY CountsType, MetricsType DEF Counted
  <1>2. /\ IsFiniteSet(Timers) /\ Calls(m) \in [Timers -> Int] /\ Calls(n) \in [Timers -> Int]
        /\ Subrs(m) \in [Timers -> Int] /\ Subrs(n) \in [Timers -> Int]
        /\ SumOf(Calls(m)) \in Int /\ SumOf(Subrs(m)) \in Int
    BY CountsType
  <1>3. SumOf(Calls(n)) = SumOf(Calls(m)) + (Calls(n)[f] - Calls(m)[f])
    <2>1. \A g \in Timers \ {f} : Calls(n)[g] = Calls(m)[g]
      BY <1>1
    <2> QED
      BY <1>2, <2>1, SumChange
  <1>4. SumOf(Subrs(n)) = SumOf(Subrs(m)) + (Subrs(n)[p] - Subrs(m)[p])
    <2>1. \A g \in Timers \ {p} : Subrs(n)[g] = Subrs(m)[g]
      BY <1>1
    <2> QED
      BY <1>2, <2>1, SumChange
  <1>5. Calls(n)[f] - Calls(m)[f] = 1 /\ Subrs(n)[p] - Subrs(m)[p] = 1
    BY <1>1
  <1> QED
    BY <1>2, <1>3, <1>4, <1>5 DEF Agree

(* A purge leaves a call for each timer on the stack, and a subroutine     *)
(* call for each but the one on top.                                       *)
LEMMA PurgeAgrees ==
    ASSUME NEW q \in Seq(Entries), q # <<>>, NEW n \in [Timers -> Metrics], PurgedTo(n, q)
    PROVE  Agree(n)
  <1> DEFINE x == q[Len(q)].func
  <1>1. Len(q) \in 1 .. Len(q) /\ Len(q) \in Nat /\ q[Len(q)] \in Entries
    BY PopProperties
  <1>2. x \in Timers
    BY <1>1 DEF Entries
  <1>3. /\ IsFiniteSet(Timers) /\ Calls(n) \in [Timers -> Int] /\ Subrs(n) \in [Timers -> Int]
        /\ SumOf(Calls(n)) \in Int /\ SumOf(Subrs(n)) \in Int
    BY CountsType
  <1>4. \A f \in Timers : /\ Calls(n)[f] = Cardinality(Acts(q, f))
                          /\ Subrs(n)[f] = Cardinality(Acts(q, f) \ {Len(q)})
    BY CountsType DEF PurgedTo
  <1>5. \A f \in Timers \ {x} : Calls(n)[f] = Subrs(n)[f]
    <2> SUFFICES ASSUME NEW f \in Timers \ {x} PROVE Acts(q, f) \ {Len(q)} = Acts(q, f)
      BY <1>4
    <2> QED
      BY DEF Acts
  <1>6. Calls(n)[x] - Subrs(n)[x] = 1
    <2>1. Len(q) \in Acts(q, x) /\ IsFiniteSet(Acts(q, x))
      <3>1. 0 \in Nat
        OBVIOUS
      <3>2. IsFiniteSet(Acts(q, x))
        BY <3>1, OpensType
      <3> QED
        BY <1>1, <3>2 DEF Acts
    <2>2. Cardinality(Acts(q, x)) \in Nat
          /\ Cardinality(Acts(q, x) \ {Len(q)}) = Cardinality(Acts(q, x)) - 1
      BY <2>1, FS_RemoveElement, FS_CardinalityType
    <2>3. Calls(n)[x] = Cardinality(Acts(q, x))
          /\ Subrs(n)[x] = Cardinality(Acts(q, x) \ {Len(q)})
      BY <1>2, <1>4
    <2> QED
      BY <2>2, <2>3
  <1> HIDE DEF x
  <1>7. SumOf(Calls(n)) = SumOf(Subrs(n)) + (Calls(n)[x] - Subrs(n)[x])
    BY <1>2, <1>3, <1>5, SumChange
  <1> QED
    BY <1>3, <1>6, <1>7 DEF Agree

(* Stops do not count.                                                     *)
LEMMA SameAgree ==
    ASSUME NEW m, NEW n, SameCounts(m, n)
    PROVE  (Agree(m) => Agree(n)) /\ (NoCounts(m) => NoCounts(n))
  <1>1. Calls(m) = Calls(n) /\ Subrs(m) = Subrs(n)
    BY DEF SameCounts, Calls, Subrs
  <1> QED
    BY <1>1 DEF Agree, NoCounts, SameCounts

-----------------------------------------------------------------------------
(* Each step keeps the application's timers.                               *)

(* A stop that returns is over, or back in the loop over the stack.        *)
LEMMA ReturnStage ==
    ASSUME TypeOK, NEW t \in Real, Return(t)
    PROVE  op'[t].stage \in {"idle", "check"}
  <1>1. ~op[t].all => op'[t] = NoOp
    BY ReturnEffect
  <1>2. op[t].all => op'[t].stage = "check"
    BY ReturnEffect
  <1> QED
    BY <1>1, <1>2 DEF NoOp

(* TAU is enabled where the application's timers depend on it.             *)
LEMMA NextEnabledThere ==
    ASSUME Undisturbed, TypeOK, Shape, EnabledThere, [Next]_vars
    PROVE  EnabledThere'
  <1>0. Real = Tids /\ 0 \in Tids /\ (\A t \in Tids : Drives(t) = {t})
        /\ (Toggles => Tids = {0})
    <2>1. NumThreads = 1 => Tids = {0}
      BY DEF Tids
    <2> QED
      BY <2>1, RealIsTids, MainIsThread DEF Undisturbed, Joined, Drives
  <1>1. ASSUME NEW t \in Tids, NEW s \in Tids, Begin(t, s) PROVE EnabledThere'
    <2>1. /\ s = t /\ op[t].stage = "idle" /\ phase[0] # "done" /\ enabled' = enabled
          /\ phase' = [phase EXCEPT ![t] = "running"] /\ op' = op
      BY <1>0, <1>1 DEF Begin, Idle
    <2> QED
      BY <1>0, <2>1 DEF EnabledThere, TypeOK
  <1>2. ASSUME NEW t \in Tids, NEW s \in Tids, Leave(t, s) PROVE EnabledThere'
    <2>1. /\ phase' = phase /\ enabled' = enabled
          /\ op' = [op EXCEPT ![t] = [NoOp EXCEPT !.stage = "call", !.fn = calls[s][Len(calls[s])],
                                                  !.on = s]]
      BY <1>2 DEF Leave
    <2>2. op'[t].stage = "call" /\ \A r \in Tids \ {t} : op'[r] = op[r]
      BY <1>0, <2>1 DEF TypeOK, NoOp
    <2> QED
      BY <2>1, <2>2 DEF EnabledThere
  <1>3. ASSUME NEW t \in Tids, StopCall(t) PROVE EnabledThere'
    <2>1. /\ phase' = phase /\ enabled' = enabled /\ op[t].stage = "call"
          /\ IF IsThrottled(op[t].fn) \/ stack[op[t].on] = <<>>
             THEN Return(t) ELSE op' = [op EXCEPT ![t].stage = "stop"]
      BY <1>3 DEF StopCall, appVars
    <2>2. \A r \in Tids \ {t} : op'[r] = op[r]
      BY <1>0, <2>1, ReturnEffect DEF TypeOK
    <2>3. CASE enabled
      BY <2>1, <2>2, <2>3 DEF EnabledThere
    <2>4. CASE ~enabled
      <3>1. Return(t)
        BY <2>1, <2>4 DEF IsThrottled
      <3>2. op'[t].stage # "stop"
        BY <1>0, <3>1, ReturnStage
      <3> QED
        BY <2>1, <2>2, <3>2 DEF EnabledThere
    <2> QED
      BY <2>3, <2>4
  <1>4. ASSUME NEW t \in Tids, StopTop(t) PROVE EnabledThere'
    <2>1. phase' = phase /\ enabled' = enabled /\ Return(t)
      BY <1>4 DEF StopTop, appVars
    <2>2. op'[t].stage # "stop" /\ \A r \in Tids \ {t} : op'[r] = op[r]
      BY <1>0, <2>1, ReturnStage, ReturnEffect
    <2> QED
      BY <2>1, <2>2 DEF EnabledThere
  <1>5. ASSUME NEW t \in Tids, EndThread(t) PROVE EnabledThere'
    <2>1. /\ phase' = [phase EXCEPT ![t] = "ending"] /\ enabled' = enabled
          /\ \A r \in Tids \ {t} : op'[r] = op[r]
          /\ phase[t] = "running"
      BY <1>0, <1>5 DEF EndThread, TypeOK
    <2>2. phase'[0] # "done" => phase[0] # "done"
      BY <1>0, <2>1 DEF TypeOK
    <2> QED
      BY <2>1, <2>2 DEF EnabledThere, TypeOK
  <1>6. ASSUME NEW t \in Tids, StopAllLock(t) \/ StopAllNext(t) \/ StopAllCheck(t)
        PROVE  EnabledThere'
    <2>1. /\ phase' = phase /\ enabled' = enabled
          /\ \/ op' = [op EXCEPT ![t].stage = "loop"]
             \/ op' = [op EXCEPT ![t].stage = "call", ![t].fn = Top(op[t].on).func,
                                 ![t].pos = Len(stack[op[t].on])]
      BY <1>6 DEF StopAllLock, StopAllNext, StopAllCheck, appVars
    <2>2. op \in [Tids -> Ops]
      BY <1>0 DEF TypeOK
    <2>3. \A r \in Tids \ {t} : op'[r] = op[r]
      <3>1. CASE op' = [op EXCEPT ![t].stage = "loop"]
        BY <2>2, <3>1
      <3>2. CASE op' = [op EXCEPT ![t].stage = "call", ![t].fn = Top(op[t].on).func,
                                  ![t].pos = Len(stack[op[t].on])]
        BY <2>2, <3>2, ZenonT(30)
      <3> QED
        BY <2>1, <3>1, <3>2
    <2>4. op[t] \in Ops
      BY <2>2
    <2>5. op'[t].stage \in {"loop", "call"}
      <3>1. \/ op'[t] = [op[t] EXCEPT !.stage = "loop"]
            \/ op'[t] = [op[t] EXCEPT !.stage = "call", !.fn = Top(op[t].on).func,
                                      !.pos = Len(stack[op[t].on])]
        BY <2>1, <2>2
      <3> QED
        BY <2>4, <3>1 DEF Ops
    <2> QED
      BY <2>1, <2>3, <2>5 DEF EnabledThere
  <1>7. ASSUME NEW t \in Tids, StopAllDone(t) PROVE EnabledThere'
    <2>1. CASE t = 0 /\ op[t].on > 0
      <3>1. op' = [op EXCEPT ![t] = StopAll(op[t].on - 1)] /\ phase' = phase /\ enabled' = enabled
        BY <1>7, <2>1 DEF StopAllDone
      <3>2. op'[t].stage = "lock" /\ \A r \in Tids \ {t} : op'[r] = op[r]
        BY <1>0, <3>1 DEF TypeOK, StopAll, NoOp
      <3> QED
        BY <3>1, <3>2 DEF EnabledThere
    <2>2. CASE ~(t = 0 /\ op[t].on > 0)
      <3>1. /\ op' = [op EXCEPT ![t] = NoOp] /\ phase' = [phase EXCEPT ![t] = "done"]
            /\ enabled' = (enabled /\ t # 0)
        BY <1>7, <2>2 DEF StopAllDone
      <3>2. op'[t].stage = "idle" /\ (\A r \in Tids \ {t} : op'[r] = op[r] /\ phase'[r] = phase[r])
            /\ phase'[t] = "done"
        BY <1>0, <3>1 DEF TypeOK, NoOp
      <3>3. CASE t = 0
        BY <3>2, <3>3 DEF EnabledThere
      <3>4. CASE t # 0
        <4>1. enabled' = enabled /\ phase'[0] = phase[0]
          BY <1>0, <3>1, <3>2, <3>4 DEF TypeOK
        <4> QED
          BY <3>2, <4>1 DEF EnabledThere
      <3> QED
        BY <3>3, <3>4
    <2> QED
      BY <2>1, <2>2
  <1>8. ASSUME NEW t \in Tids, Toggle(t) PROVE EnabledThere'
    <2>1. op' = op /\ phase' = phase /\ Tids = {0} /\ t = 0 /\ op[t].stage = "idle"
          /\ phase[t] = "running"
      BY <1>0, <1>8 DEF Toggle, Idle, appVars
    <2> QED
      BY <2>1 DEF EnabledThere
  <1>9. ASSUME UNCHANGED <<phase, op, enabled>> PROVE EnabledThere'
    BY <1>9 DEF EnabledThere
  <1>10. ASSUME NEW t \in Tids, PopThrottled(t) \/ Overlap(t) PROVE EnabledThere'
    BY <1>9, <1>10 DEF PopThrottled, Overlap, appVars
  <1>13. ASSUME NEW t \in Tids, Purge(t) \/ RestartNext(t) PROVE EnabledThere'
    <2>1. /\ phase' = phase /\ enabled' = enabled /\ op'[t].stage # "stop"
          /\ \A r \in Tids \ {t} : op'[r] = op[r]
      BY <1>0, <1>13, PurgeStep
    <2> QED
      BY <2>1 DEF EnabledThere
  <1>11. ASSUME NEW t \in Tids, NEW s \in Tids, NEW f \in Funcs, Enter(t, s, f) PROVE EnabledThere'
    BY <1>9, <1>11 DEF Enter
  <1>12. CASE Tick \/ UNCHANGED vars
    BY <1>9, <1>12 DEF Tick, vars, appVars
  <1> QED
    BY <1>0, <1>1, <1>2, <1>3, <1>4, <1>5, <1>6, <1>7, <1>8, <1>10, <1>11, <1>12,
       <1>13 DEF Next, StopStep, StopAllStep, Finished

(* The application's timer is not an own function.                         *)
LEMMA OwnFunction == ASSUME NEW f \in Funcs PROVE f # App /\ f \in Timers /\ App \in Timers
  BY TimerAssumption DEF TimerAssumption, Timers

(* What a thread calls and stops.                                          *)
LEMMA NextOwnCalls ==
    ASSUME Undisturbed, TypeOK, Shape, OwnCalls, [Next]_vars
    PROVE  OwnCalls'
  <1>0. Real = Tids /\ Joined /\ (\A t \in Tids : Drives(t) = {t})
    BY RealIsTids DEF Undisturbed, Joined, Drives
  <1>1. ASSUME NEW t \in Tids, NEW s \in Tids, Begin(t, s) PROVE OwnCalls'
    <2>1. calls' = [calls EXCEPT ![s] = <<App>>] /\ op' = op
      BY <1>1 DEF Begin
    <2>2. calls'[s] = <<App>> /\ \A r \in Tids \ {s} : calls'[r] = calls[r]
      BY <2>1 DEF TypeOK
    <2>3. \A i \in 2 .. Len(calls'[s]) : calls'[s][i] # App
      <3>1. Len(<<App>>) = 1
        OBVIOUS
      <3> QED
        BY <2>2, <3>1
    <2> QED
      BY <2>1, <2>2, <2>3 DEF OwnCalls
  <1>2. ASSUME NEW t \in Tids, NEW s \in Tids, NEW f \in Funcs, Enter(t, s, f) PROVE OwnCalls'
    <2>1. calls' = [calls EXCEPT ![s] = Append(calls[s], f)] /\ op' = op
      BY <1>2 DEF Enter
    <2>2. calls'[s] = Append(calls[s], f) /\ \A r \in Tids \ {s} : calls'[r] = calls[r]
      BY <2>1 DEF TypeOK
    <2>3. \A i \in 2 .. Len(calls'[s]) : calls'[s][i] # App
      <3> DEFINE C == calls[s]
      <3>1. C \in Seq(Timers) /\ \A i \in 2 .. Len(C) : C[i] # App
        BY DEF TypeOK, OwnCalls
      <3>2. f # App
        BY OwnFunction
      <3> HIDE DEF C
      <3>3. \A i \in 2 .. Len(Append(C, f)) : Append(C, f)[i] # App
        BY <3>1, <3>2
      <3> QED
        BY <2>2, <3>3 DEF C
    <2> QED
      BY <2>1, <2>2, <2>3 DEF OwnCalls
  <1>3. ASSUME NEW t \in Tids, NEW s \in Tids, Leave(t, s) PROVE OwnCalls'
    <2> DEFINE C == calls[s]
    <2>1. /\ s = t /\ Len(C) > 1
          /\ op' = [op EXCEPT ![t] = [NoOp EXCEPT !.stage = "call", !.fn = C[Len(C)], !.on = s]]
          /\ calls' = [calls EXCEPT ![s] = SubSeq(C, 1, Len(C) - 1)]
      BY <1>0, <1>3 DEF Leave
    <2>2. C \in Seq(Timers) /\ \A i \in 2 .. Len(C) : C[i] # App
      BY DEF TypeOK, OwnCalls
    <2>3. /\ calls'[s] = SubSeq(C, 1, Len(C) - 1) /\ \A r \in Tids \ {s} : calls'[r] = calls[r]
          /\ op'[t].fn = C[Len(C)] /\ \A r \in Tids \ {t} : op'[r] = op[r]
      BY <1>0, <2>1 DEF TypeOK, NoOp
    <2> HIDE DEF C
    <2>4. C[Len(C)] # App
      BY <2>1, <2>2
    <2>5. \A i \in 2 .. Len(SubSeq(C, 1, Len(C) - 1)) : SubSeq(C, 1, Len(C) - 1)[i] # App
      <3>0. Len(<<>>) = 0
        OBVIOUS
      <3>1. C # <<>>
        BY <2>1, <3>0
      <3> QED
        BY <2>2, <3>1, PopProperties
    <2> QED
      BY <2>1, <2>3, <2>4, <2>5 DEF OwnCalls
  <1>4. ASSUME NEW t \in Tids, StopCall(t) \/ StopTop(t) PROVE OwnCalls'
    <2>1. /\ calls' = calls /\ op[t].stage \in {"call", "stop"}
          /\ Return(t) \/ op' = [op EXCEPT ![t].stage = "stop"]
      BY <1>4 DEF StopCall, StopTop, appVars
    <2>2. op[t] \in Ops /\ \A r \in Tids \ {t} : op'[r] = op[r]
      BY <1>0, <2>1, ReturnEffect DEF TypeOK
    <2>3. op'[t].stage = "idle" \/ (op'[t].all = op[t].all /\ op'[t].fn = op[t].fn)
      <3>1. CASE Return(t)
        BY <1>0, <3>1, ReturnEffect DEF NoOp
      <3>2. CASE op' = [op EXCEPT ![t].stage = "stop"]
        BY <1>0, <2>2, <3>2 DEF TypeOK, Ops
      <3> QED
        BY <2>1, <3>1, <3>2
    <2> QED
      BY <2>1, <2>2, <2>3 DEF OwnCalls
  <1>5. ASSUME NEW t \in Tids,
               EndThread(t) \/ StopAllLock(t) \/ StopAllNext(t) \/ StopAllCheck(t) \/ StopAllDone(t)
        PROVE  OwnCalls'
    <2>0. op[t] \in Ops
      BY <1>0 DEF TypeOK
    <2>1. calls' = calls /\ \A r \in Tids \ {t} : op'[r] = op[r]
      BY <1>0, <1>5
         DEF EndThread, StopAllLock, StopAllNext, StopAllCheck, StopAllDone, appVars, TypeOK
    <2>2. op'[t].stage \in {"lock", "loop", "idle"} \/ op'[t].all
      <3>1. CASE EndThread(t)
        BY <1>0, <3>1 DEF EndThread, StopAll, NoOp, TypeOK
      <3>2. CASE StopAllLock(t) \/ StopAllCheck(t)
        BY <1>0, <2>0, <3>2 DEF StopAllLock, StopAllCheck, TypeOK, Ops
      <3>3. CASE StopAllNext(t)
        <4>1. op[t].stage = "loop" /\ op' = [op EXCEPT ![t].stage = "call",
                        ![t].fn = Top(op[t].on).func, ![t].pos = Len(stack[op[t].on])]
          BY <3>3 DEF StopAllNext
        <4>2. op[t].all
          BY <2>0, <4>1 DEF Shape, Ownership, Ops
        <4> QED
          BY <1>0, <2>0, <4>1, <4>2 DEF TypeOK, Ops
      <3>4. CASE StopAllDone(t)
        <4>1. op' = [op EXCEPT ![t] = StopAll(op[t].on - 1)] \/ op' = [op EXCEPT ![t] = NoOp]
          BY <3>4 DEF StopAllDone
        <4>2. StopAll(op[t].on - 1).stage = "lock" /\ NoOp.stage = "idle"
          BY DEF StopAll, NoOp
        <4>3. op'[t] \in {StopAll(op[t].on - 1), NoOp}
          BY <1>0, <4>1 DEF TypeOK
        <4> QED
          BY <4>2, <4>3
      <3> QED
        BY <1>5, <3>1, <3>2, <3>3, <3>4
    <2> QED
      BY <2>1, <2>2 DEF OwnCalls
  <1>6. ASSUME UNCHANGED <<calls, op>> PROVE OwnCalls'
    BY <1>6 DEF OwnCalls
  <1>7. ASSUME NEW t \in Tids, PopThrottled(t) \/ Overlap(t) \/ Toggle(t)
        PROVE OwnCalls'
    BY <1>6, <1>7 DEF PopThrottled, Overlap, Toggle, appVars
  <1>9. ASSUME NEW t \in Tids, Purge(t) \/ RestartNext(t) PROVE OwnCalls'
    <2>1. /\ calls' = calls /\ op'[t].stage \in {"idle", "purge"}
          /\ \A r \in Tids \ {t} : op'[r] = op[r]
      BY <1>0, <1>9, PurgeStep
    <2> QED
      BY <2>1 DEF OwnCalls
  <1>8. CASE Tick \/ UNCHANGED vars
    BY <1>6, <1>8 DEF Tick, vars, appVars
  <1> QED
    BY <1>0, <1>1, <1>2, <1>3, <1>4, <1>5, <1>7, <1>8, <1>9
       DEF Next, StopStep, StopAllStep, Finished

\* The part of the invariant that the others rest on.
Grounded == TypeOK /\ Shape /\ Bottomed /\ OneApp /\ OwnCalls /\ EnabledThere

(* A thread's application timer is not throttled when it begins.           *)
LEMMA BeginStarts ==
    ASSUME Undisturbed, Grounded, NEW t \in Tids, NEW s \in Tids, Begin(t, s)
    PROVE  /\ s = t /\ phase[t] = "new" /\ stack[t] = <<>> /\ ~IsThrottled(App)
           /\ StartTimer(t, App, 1) /\ phase' = [phase EXCEPT ![t] = "running"] /\ op' = op
  <1>1. s = t /\ phase[t] = "new" /\ phase[0] # "done"
        /\ StartTimer(t, App, 1) /\ phase' = [phase EXCEPT ![t] = "running"] /\ op' = op
    BY DEF Begin, Undisturbed, Joined, Drives
  <1>2. stack[t] = <<>>
    BY <1>1 DEF Grounded, Shape, EmptyOutside
  <1>3. ~IsThrottled(App)
    BY <1>1 DEF Grounded, EnabledThere, OneApp, IsThrottled
  <1> QED
    BY <1>1, <1>2, <1>3

(* It calls its functions on top of that.                                  *)
LEMMA EnterStarts ==
    ASSUME Undisturbed, Grounded, NEW t \in Tids, NEW s \in Tids, NEW f \in Funcs, Enter(t, s, f)
    PROVE  /\ s = t /\ phase[t] = "running" /\ stack[t] # <<>>
           /\ phase' = phase /\ op' = op
           /\ Len(calls[t]) + 1 \in Nat /\ StartTimer(t, f, Len(calls[t]) + 1)
  <1>1. s = t /\ phase[t] = "running" /\ phase' = phase /\ op' = op
        /\ StartTimer(t, f, Len(calls[t]) + 1)
    BY DEF Enter, Undisturbed, Joined, Drives
  <1>2. stack[t] # <<>>
    BY <1>1 DEF Grounded, Bottomed
  <1>3. calls[t] \in Seq(Timers)
    BY DEF Grounded, TypeOK
  <1> QED
    BY <1>1, <1>2, <1>3

(* What it stops while it runs is not its application timer.               *)
LEMMA StopsOwn ==
    ASSUME Undisturbed, Grounded, NEW t \in Tids, PopThrottled(t) \/ StopTop(t)
    PROVE  /\ op[t] \in Ops /\ op[t].stage = "stop" /\ op[t].on = t /\ stack[t] # <<>>
           /\ ProfilerStop(t, t) /\ phase' = phase
           /\ phase[t] = "running" => Top(t).func # App
           /\ phase[t] = "running" <=> ~op[t].all
           /\ PopThrottled(t) => op' = op /\ Top(t).func # op[t].fn /\ IsThrottled(Top(t).func)
           /\ StopTop(t) => Return(t) /\ Top(t).func = op[t].fn
  <1>0. op[t].stage = "stop"
    BY DEF PopThrottled, StopTop
  <1>1. /\ op[t] \in Ops /\ op[t].on = t /\ phase[0] # "done"
        /\ ~op[t].all => phase[t] = "running"
        /\ op[t].all => phase[t] = "ending"
    BY <1>0, StopOwner DEF Undisturbed, Grounded
  <1>2. stack[t] # <<>> /\ ProfilerStop(t, t) /\ phase' = phase
    BY <1>1 DEF PopThrottled, StopTop, appVars
  <1>3. PopThrottled(t) => op' = op /\ Top(t).func # op[t].fn /\ IsThrottled(Top(t).func)
    BY <1>1 DEF PopThrottled
  <1>4. StopTop(t) => Return(t) /\ Top(t).func = op[t].fn
    BY <1>1 DEF StopTop
  <1>5. ASSUME phase[t] = "running" PROVE Top(t).func # App
    <2>1. ~op[t].all
      BY <1>1, <1>5
    <2>2. enabled /\ op[t].fn # App /\ App \notin disabled
      BY <1>0, <1>1, <1>5, <2>1 DEF Grounded, EnabledThere, OwnCalls, OneApp
    <2> QED
      BY <1>3, <1>4, <2>2 DEF IsThrottled
  <1> QED
    BY <1>0, <1>1, <1>2, <1>3, <1>4, <1>5

(* Pushing a timer changes one stack, and so does popping one.             *)
LEMMA PushedStack ==
    ASSUME TypeOK, NEW s \in Tids, NEW e, Pushed(s, e)
    PROVE  stack'[s] = Append(stack[s], e) /\ \A r \in Tids \ {s} : stack'[r] = stack[r]
  BY DEF TypeOK, Pushed

(* A loop over the timers of a thread that ends.                           *)
LEMMA CheckPops ==
    ASSUME Undisturbed, TypeOK, Shape, NEW t \in Tids, StopAllCheck(t)
    PROVE  /\ op[t] \in Ops /\ op[t].stage = "check" /\ op[t].on = t /\ op[t].all
           /\ phase[t] = "ending" /\ phase' = phase
           /\ metrics' = metrics /\ disabled' = disabled /\ dirty' = dirty
           /\ op' = [op EXCEPT ![t].stage = "loop"]
           /\ \A r \in Tids \ {t} : stack'[r] = stack[r]
           /\ stack'[t] = IF Len(stack[t]) = op[t].pos THEN Pop(t) ELSE stack[t]
  <1>1. op[t].stage = "check" /\ phase' = phase /\ metrics' = metrics /\ disabled' = disabled
        /\ dirty' = dirty /\ op' = [op EXCEPT ![t].stage = "loop"]
    BY DEF StopAllCheck, appVars
  <1>2. op[t] \in Ops /\ op[t].on = t /\ op[t].all /\ phase[t] = "ending"
    BY <1>1, StopOwner DEF Undisturbed
  <1>3. stack' = IF Len(stack[t]) = op[t].pos THEN [stack EXCEPT ![t] = Pop(t)] ELSE stack
    BY <1>2 DEF StopAllCheck
  <1> QED
    BY <1>1, <1>2, <1>3 DEF TypeOK

(* The bottom of the stacks.                                               *)
LEMMA NextBottomed ==
    ASSUME Undisturbed, Grounded, [Next]_vars
    PROVE  Bottomed'
  <1>0. Real = Tids /\ App \in Timers /\ TypeOK /\ Shape
    BY RealIsTids DEF Undisturbed, Timers, Grounded
  <1>1. ASSUME NEW t \in Tids, NEW s \in Tids, Begin(t, s) PROVE Bottomed'
    <2>1. /\ stack[t] = <<>> /\ ~IsThrottled(App) /\ StartTimer(t, App, 1)
          /\ phase' = [phase EXCEPT ![t] = "running"]
      BY <1>1, BeginStarts
    <2>2. PICK e \in Entries : e.func = App /\ Pushed(t, e)
      BY <1>0, <2>1, StartTimerEffect
    <2>3. stack[t] \in Seq(Entries) /\ AppAtBottom(stack[t])
      BY <1>0 DEF TypeOK, Grounded, Bottomed
    <2>4. AppAtBottom(Append(stack[t], e)) /\ Append(stack[t], e) # <<>>
      BY <2>1, <2>2, <2>3, PushBottom
    <2>5. stack'[t] = Append(stack[t], e) /\ \A r \in Tids \ {t} : stack'[r] = stack[r]
      BY <1>0, <2>2, PushedStack
    <2>6. \A r \in Tids \ {t} : phase'[r] = phase[r]
      BY <1>0, <2>1 DEF TypeOK
    <2> QED
      BY <2>4, <2>5, <2>6 DEF Grounded, Bottomed
  <1>2. ASSUME NEW t \in Tids, NEW s \in Tids, NEW f \in Funcs, Enter(t, s, f) PROVE Bottomed'
    <2>1. /\ stack[t] # <<>> /\ phase' = phase
          /\ Len(calls[t]) + 1 \in Nat /\ StartTimer(t, f, Len(calls[t]) + 1)
      BY <1>2, EnterStarts
    <2>2. CASE IsThrottled(f)
      BY <2>1, <2>2 DEF StartTimer, tauVars, Grounded, Bottomed
    <2>3. CASE ~IsThrottled(f)
      <3>1. PICK e \in Entries : e.func = f /\ Pushed(t, e)
        BY <1>0, <2>1, <2>3, OwnFunction, StartTimerEffect
      <3>2. stack[t] \in Seq(Entries) /\ AppAtBottom(stack[t])
        BY <1>0 DEF TypeOK, Grounded, Bottomed
      <3>3. AppAtBottom(Append(stack[t], e)) /\ Append(stack[t], e) # <<>>
        BY <2>1, <3>1, <3>2, OwnFunction, PushBottom
      <3>4. stack'[t] = Append(stack[t], e) /\ \A r \in Tids \ {t} : stack'[r] = stack[r]
        BY <1>0, <3>1, PushedStack
      <3> QED
        BY <2>1, <3>3, <3>4 DEF Grounded, Bottomed
    <2> QED
      BY <2>2, <2>3
  <1>3. ASSUME NEW t \in Tids, PopThrottled(t) \/ StopTop(t) PROVE Bottomed'
    <2>1. /\ stack[t] # <<>> /\ ProfilerStop(t, t) /\ phase' = phase
          /\ phase[t] = "running" => Top(t).func # App
      BY <1>3, StopsOwn
    <2>2. Popped(t)
      BY <1>0, <2>1, ProfilerStopEffect
    <2>3. stack'[t] = Pop(t) /\ \A r \in Tids \ {t} : stack'[r] = stack[r]
      BY <1>0, <2>2 DEF TypeOK, Popped
    <2>4. stack[t] \in Seq(Entries) /\ AppAtBottom(stack[t])
      BY <1>0 DEF TypeOK, Grounded, Bottomed
    <2>5. AppAtBottom(Pop(t)) /\ (Top(t).func # App => Pop(t) # <<>>)
      BY <2>1, <2>4, PopBottom DEF Pop, Top
    <2> QED
      BY <2>1, <2>3, <2>5 DEF Grounded, Bottomed
  <1>4. ASSUME NEW t \in Tids, StopAllCheck(t) PROVE Bottomed'
    <2>1. /\ phase[t] = "ending" /\ phase' = phase
          /\ \A r \in Tids \ {t} : stack'[r] = stack[r]
          /\ stack'[t] = IF Len(stack[t]) = op[t].pos THEN Pop(t) ELSE stack[t]
      BY <1>0, <1>4, CheckPops
    <2>2. stack[t] \in Seq(Entries) /\ AppAtBottom(stack[t])
      BY <1>0 DEF TypeOK, Grounded, Bottomed
    <2>3. AppAtBottom(Pop(t))
      <3>1. CASE stack[t] = <<>>
        <4>1. SubSeq(<<>>, 1, 0 - 1) = <<>> /\ Len(<<>>) = 0
          BY SubSeqEmpty
        <4>2. Pop(t) = stack[t]
          BY <3>1, <4>1 DEF Pop
        <4> QED
          BY <2>2, <4>2
      <3>2. CASE stack[t] # <<>>
        BY <2>2, <3>2, PopBottom DEF Pop
      <3> QED
        BY <3>1, <3>2
    <2> QED
      BY <2>1, <2>2, <2>3 DEF Grounded, Bottomed
  <1>5. ASSUME NEW t \in Tids, Purge(t) \/ RestartNext(t) PROVE Bottomed'
    <2>1. phase' = phase /\ \A s \in Tids : SameTimers(stack'[s], stack[s])
      BY <1>0, <1>5, PurgeStep
    <2>2. ASSUME NEW s \in Tids
          PROVE  AppAtBottom(stack'[s]) /\ (stack'[s] = <<>> <=> stack[s] = <<>>)
      <3>1. stack[s] \in Seq(Entries) /\ AppAtBottom(stack[s])
        BY <1>0 DEF TypeOK, Grounded, Bottomed
      <3> QED
        BY <2>1, <3>1, RestartBottom DEF SameTimers
    <2> QED
      BY <2>1, <2>2 DEF Grounded, Bottomed
  <1>6. ASSUME NEW t \in Tids, EndThread(t) \/ StopAllDone(t) PROVE Bottomed'
    <2>1. stack' = stack
      BY <1>6 DEF EndThread, StopAllDone, tauVars
    <2>2. phase' = phase \/ phase' = [phase EXCEPT ![t] = "ending"]
          \/ phase' = [phase EXCEPT ![t] = "done"]
      BY <1>6 DEF EndThread, StopAllDone
    <2>3. \A r \in Tids : phase'[r] = "running" => phase[r] = "running"
      BY <1>0, <2>2 DEF TypeOK
    <2> QED
      BY <2>1, <2>3 DEF Grounded, Bottomed
  <1>7. ASSUME UNCHANGED <<phase, stack>> PROVE Bottomed'
    BY <1>7 DEF Grounded, Bottomed
  <1>8. ASSUME NEW t \in Tids, StopCall(t) \/ Overlap(t) \/ StopAllLock(t) \/ StopAllNext(t)
                               \/ Toggle(t)
        PROVE  Bottomed'
    BY <1>7, <1>8 DEF StopCall, Overlap, StopAllLock, StopAllNext, Toggle, appVars, tauVars
  <1>9. ASSUME NEW t \in Tids, NEW s \in Tids, Leave(t, s) PROVE Bottomed'
    BY <1>7, <1>9 DEF Leave, tauVars
  <1>10. CASE Tick \/ UNCHANGED vars
    BY <1>7, <1>10 DEF Tick, vars, appVars, tauVars
  <1> QED
    BY <1>0, <1>1, <1>2, <1>3, <1>4, <1>5, <1>6, <1>8, <1>9, <1>10
       DEF Next, StopStep, StopAllStep, Finished

(* A stop throttles only what was called too often.                        *)
LEMMA StopThrottles ==
    ASSUME NEW s \in Tids, ProfilerStop(s, s), TypeOK, NEW f, f \in disabled'
    PROVE  f \in disabled \/ metrics'[s][f].calls > ThrottleCalls
  <1> DEFINE e == Top(s)
             total == clock - e.start
             stopped == [metrics[s] EXCEPT ![e.func] = AddTimes(@, e.addIncl, total)]
             m == IF Len(stack[s]) = 1 THEN stopped
                  ELSE [stopped EXCEPT ![Parent(s).func] = ExcludeTime(@, total)]
  <1>1. /\ metrics' = [metrics EXCEPT ![s] = m]
        /\ disabled' = IF Throttles(e, m[e.func]) THEN disabled \cup {e.func} ELSE disabled
    BY DEF ProfilerStop
  <1> HIDE DEF m, e
  <1>2. metrics'[s] = m
    BY <1>1 DEF TypeOK
  <1> QED
    BY <1>1, <1>2 DEF Throttles

(* The application's timer is called once, and not throttled.              *)
LEMMA NextOneApp ==
    ASSUME Undisturbed, Grounded, Balanced, TypeOK', [Next]_vars
    PROVE  OneApp'
  <1>0. Real = Tids /\ App \in Timers /\ TypeOK /\ Shape /\ OneApp
    BY RealIsTids DEF Undisturbed, Timers, Grounded
  <1>1. ASSUME NEW t \in Tids, NEW s \in Tids, Begin(t, s) PROVE OneApp'
    <2>1. /\ phase[t] = "new" /\ stack[t] = <<>> /\ ~IsThrottled(App) /\ StartTimer(t, App, 1)
      BY <1>1, BeginStarts
    <2>2. /\ Counted(metrics[t], metrics'[t], App, stack[t] = <<>>, Top(t).func)
          /\ \A r \in Tids \ {t} : metrics'[r] = metrics[r]
      BY <1>0, <2>1, StartNumbers
    <2>3. disabled' = disabled
      BY <1>0, <2>1, StartTimerEffect
    <2>4. metrics[t][App].calls = 0
      BY <1>0, <2>1 DEF Balanced, NoCounts
    <2>5. metrics'[t][App].calls = 1
      BY <1>0, <2>2, <2>4 DEF Counted
    <2> QED
      BY <1>0, <2>2, <2>3, <2>5 DEF OneApp
  <1>2. ASSUME NEW t \in Tids, NEW s \in Tids, NEW f \in Funcs, Enter(t, s, f) PROVE OneApp'
    <2>1. Len(calls[t]) + 1 \in Nat /\ StartTimer(t, f, Len(calls[t]) + 1)
      BY <1>2, EnterStarts
    <2>2. CASE IsThrottled(f)
      BY <1>0, <2>1, <2>2 DEF StartTimer, tauVars, OneApp
    <2>3. CASE ~IsThrottled(f)
      <3>1. /\ Counted(metrics[t], metrics'[t], f, stack[t] = <<>>, Top(t).func)
            /\ \A r \in Tids \ {t} : metrics'[r] = metrics[r]
        BY <1>0, <2>1, <2>3, OwnFunction, StartNumbers
      <3>2. disabled' = disabled
        BY <1>0, <2>1, <2>3, OwnFunction, StartTimerEffect
      <3>3. metrics[t][App].calls \in Nat
        BY <1>0, MetricsType DEF TypeOK
      <3>4. metrics'[t][App].calls = metrics[t][App].calls
        BY <1>0, <3>1, <3>3, OwnFunction DEF Counted
      <3> QED
        BY <1>0, <3>1, <3>2, <3>4 DEF OneApp
    <2> QED
      BY <2>2, <2>3
  <1>3. ASSUME NEW t \in Tids, PopThrottled(t) \/ StopTop(t) PROVE OneApp'
    <2>1. stack[t] # <<>> /\ ProfilerStop(t, t)
      BY <1>3, StopsOwn
    <2>2. SameCounts(metrics[t], metrics'[t]) /\ \A r \in Tids \ {t} : metrics'[r] = metrics[r]
      BY <1>0, <2>1, StopNumbers
    <2>3. \A r \in Tids : metrics'[r][App].calls <= 1
      BY <1>0, <2>2 DEF SameCounts, OneApp
    <2>4. App \notin disabled'
      <3> SUFFICES ASSUME App \in disabled' PROVE FALSE
        OBVIOUS
      <3>1. metrics'[t][App].calls > ThrottleCalls
        BY <1>0, <2>1, StopThrottles DEF OneApp
      <3>2. metrics'[t][App].calls \in Nat /\ metrics'[t][App].calls <= 1
        BY <1>0, <2>3, MetricsType DEF TypeOK
      <3>3. ThrottleCalls \in Nat \ {0}
        BY TimerAssumption DEF TimerAssumption, Undisturbed
      <3> QED
        BY <3>1, <3>2, <3>3
    <2> QED
      BY <2>3, <2>4 DEF OneApp
  <1>4. ASSUME NEW t \in Tids, Purge(t) PROVE OneApp'
    <2>1. /\ disabled' = disabled /\ metrics' = [metrics EXCEPT ![t] = Purged(stack[t], metrics[t])]
      BY <1>4 DEF Purge
    <2>2. metrics'[t] = Purged(stack[t], metrics[t])
          /\ \A r \in Tids \ {t} : metrics'[r] = metrics[r]
      BY <1>0, <2>1 DEF TypeOK
    <2>3. /\ stack[t] \in Seq(Entries) /\ metrics[t] \in [Timers -> Metrics]
          /\ AppAtBottom(stack[t])
      BY <1>0 DEF TypeOK, Grounded, Bottomed
    <2>4. PurgedTo(Purged(stack[t], metrics[t]), stack[t])
      BY <2>3, PurgedNumbers
    <2>5. Cardinality(Acts(stack[t], App)) <= 1
      BY <2>3, OneActivation
    <2>6. metrics'[t][App].calls <= 1
      BY <1>0, <2>2, <2>4, <2>5 DEF PurgedTo
    <2> QED
      BY <1>0, <2>1, <2>2, <2>6 DEF OneApp
  <1>5. ASSUME UNCHANGED <<metrics, disabled>> PROVE OneApp'
    BY <1>0, <1>5 DEF OneApp
  <1>10. ASSUME NEW t \in Tids, RestartNext(t) PROVE OneApp'
    BY <1>5, <1>10 DEF RestartNext
  <1>6. ASSUME NEW t \in Tids, StopCall(t) \/ Overlap(t) \/ StopAllLock(t) \/ StopAllNext(t)
                               \/ StopAllDone(t) \/ EndThread(t) \/ Toggle(t)
        PROVE  OneApp'
    BY <1>5, <1>6
       DEF StopCall, Overlap, StopAllLock, StopAllNext, StopAllDone, EndThread, Toggle, tauVars
  <1>7. ASSUME NEW t \in Tids, StopAllCheck(t) PROVE OneApp'
    BY <1>5, <1>7 DEF StopAllCheck
  <1>8. ASSUME NEW t \in Tids, NEW s \in Tids, Leave(t, s) PROVE OneApp'
    BY <1>5, <1>8 DEF Leave, tauVars
  <1>9. CASE Tick \/ UNCHANGED vars
    BY <1>5, <1>9 DEF Tick, vars, tauVars
  <1> QED
    BY <1>0, <1>1, <1>2, <1>3, <1>4, <1>6, <1>7, <1>8, <1>9, <1>10
       DEF Next, StopStep, StopAllStep, Finished

(* The counts of a thread whose phase and numbers do not change.           *)
LEMMA IdleBalanced ==
    ASSUME TypeOK, Balanced, NEW r \in Tids, metrics'[r] = metrics[r],
           (phase'[r] = "new") = (phase[r] = "new")
    PROVE  IF phase'[r] = "new" THEN NoCounts(metrics'[r]) ELSE Agree(metrics'[r])
  BY DEF Balanced

(* The counts agree on every thread that has begun.                        *)
LEMMA NextBalanced ==
    ASSUME Undisturbed, Grounded, Balanced, TypeOK', [Next]_vars
    PROVE  Balanced'
  <1>0. Real = Tids /\ App \in Timers /\ TypeOK /\ Shape
        /\ metrics \in [Tids -> [Timers -> Metrics]]
        /\ \A r \in Tids : metrics'[r] \in [Timers -> Metrics]
    BY RealIsTids DEF Undisturbed, Timers, Grounded, TypeOK
  <1>1. ASSUME NEW t \in Tids, NEW s \in Tids, Begin(t, s) PROVE Balanced'
    <2>1. /\ phase[t] = "new" /\ stack[t] = <<>> /\ ~IsThrottled(App) /\ StartTimer(t, App, 1)
          /\ phase' = [phase EXCEPT ![t] = "running"]
      BY <1>1, BeginStarts
    <2>2. /\ Counted(metrics[t], metrics'[t], App, stack[t] = <<>>, Top(t).func)
          /\ \A r \in Tids \ {t} : metrics'[r] = metrics[r]
      BY <1>0, <2>1, StartNumbers
    <2>3. Counted(metrics[t], metrics'[t], App, TRUE, Top(t).func)
      BY <2>1, <2>2 DEF Counted
    <2>4. NoCounts(metrics[t])
      BY <2>1 DEF Balanced
    <2>5. Agree(metrics'[t])
      BY <1>0, <2>3, <2>4, FirstAgrees
    <2>6. phase'[t] = "running" /\ \A r \in Tids \ {t} : phase'[r] = phase[r]
      BY <1>0, <2>1 DEF TypeOK
    <2> QED
      BY <1>0, <2>2, <2>5, <2>6 DEF Balanced
  <1>2. ASSUME NEW t \in Tids, NEW s \in Tids, NEW f \in Funcs, Enter(t, s, f) PROVE Balanced'
    <2>1. /\ phase[t] = "running" /\ stack[t] # <<>> /\ phase' = phase
          /\ Len(calls[t]) + 1 \in Nat /\ StartTimer(t, f, Len(calls[t]) + 1)
      BY <1>2, EnterStarts
    <2>2. CASE IsThrottled(f)
      BY <2>1, <2>2 DEF StartTimer, tauVars, Balanced
    <2>3. CASE ~IsThrottled(f)
      <3>1. /\ Counted(metrics[t], metrics'[t], f, stack[t] = <<>>, Top(t).func)
            /\ \A r \in Tids \ {t} : metrics'[r] = metrics[r]
        BY <1>0, <2>1, <2>3, OwnFunction, StartNumbers
      <3>2. Counted(metrics[t], metrics'[t], f, FALSE, Top(t).func)
        BY <2>1, <3>1 DEF Counted
      <3>3. Top(t).func \in Timers
        <4>1. stack[t] \in Seq(Entries)
          BY <1>0 DEF TypeOK
        <4>2. Top(t) \in Entries
          BY <2>1, <4>1, PopProperties DEF Top
        <4> QED
          BY <4>2 DEF Entries
      <3>4. Agree(metrics[t])
        BY <2>1 DEF Balanced
      <3>5. Agree(metrics'[t])
        BY <1>0, <3>2, <3>3, <3>4, OwnFunction, NextAgrees
      <3> QED
        BY <2>1, <3>1, <3>5 DEF Balanced
    <2> QED
      BY <2>2, <2>3
  <1>3. ASSUME NEW t \in Tids, PopThrottled(t) \/ StopTop(t) PROVE Balanced'
    <2>1. stack[t] # <<>> /\ ProfilerStop(t, t) /\ phase' = phase
      BY <1>3, StopsOwn
    <2>2. SameCounts(metrics[t], metrics'[t]) /\ \A r \in Tids \ {t} : metrics'[r] = metrics[r]
      BY <1>0, <2>1, StopNumbers
    <2> QED
      BY <2>1, <2>2, SameAgree DEF Balanced
  <1>4. ASSUME NEW t \in Tids, Purge(t) PROVE Balanced'
    <2>1. /\ metrics' = [metrics EXCEPT ![t] = Purged(stack[t], metrics[t])]
          /\ phase' = phase /\ phase[t] = "running"
      BY <1>4 DEF Purge, appVars
    <2>2. metrics'[t] = Purged(stack[t], metrics[t])
          /\ \A r \in Tids \ {t} : metrics'[r] = metrics[r]
      BY <1>0, <2>1
    <2>3. /\ stack[t] \in Seq(Entries) /\ metrics[t] \in [Timers -> Metrics]
          /\ stack[t] # <<>>
      BY <1>0, <2>1 DEF TypeOK, Grounded, Bottomed
    <2>4. PurgedTo(metrics'[t], stack[t])
      BY <2>2, <2>3, PurgedNumbers
    <2>5. Agree(metrics'[t])
      BY <1>0, <2>3, <2>4, PurgeAgrees
    <2> QED
      BY <2>1, <2>2, <2>5 DEF Balanced
  <1>5. ASSUME metrics' = metrics, \A r \in Tids : (phase'[r] = "new") = (phase[r] = "new")
        PROVE  Balanced'
    BY <1>0, <1>5, IdleBalanced DEF Balanced
  <1>6. ASSUME NEW t \in Tids, EndThread(t) \/ StopAllDone(t) PROVE Balanced'
    <2>1. metrics' = metrics
      BY <1>6 DEF EndThread, StopAllDone, tauVars
    <2>2. CASE phase' = phase
      BY <1>5, <2>1, <2>2
    <2>3. CASE phase[t] # "new" /\ \E x \in {"ending", "done"} : phase' = [phase EXCEPT ![t] = x]
      BY <1>0, <1>5, <2>1, <2>3 DEF TypeOK
    <2>4. StopAllDone(t) => phase[t] # "new"
      <3>1. StopAllDone(t) => op[t].stage = "loop"
        BY DEF StopAllDone
      <3>2. op[t] \in Ops
        BY <1>0 DEF TypeOK
      <3> QED
        BY <1>0, <3>1, <3>2 DEF Shape, Ownership, Ops
    <2>5. EndThread(t) => phase[t] # "new"
      BY DEF EndThread
    <2>6. phase' = phase \/ \E x \in {"ending", "done"} : phase' = [phase EXCEPT ![t] = x]
      BY <1>6 DEF EndThread, StopAllDone
    <2> QED
      BY <1>6, <2>2, <2>3, <2>4, <2>5, <2>6
  <1>7. ASSUME NEW t \in Tids, StopCall(t) \/ Overlap(t) \/ StopAllLock(t) \/ StopAllNext(t)
                               \/ StopAllCheck(t) \/ Toggle(t) \/ RestartNext(t)
        PROVE  Balanced'
    <2>1. UNCHANGED <<metrics, phase>>
      BY <1>7
         DEF StopCall, Overlap, StopAllLock, StopAllNext, StopAllCheck, Toggle, RestartNext,
             tauVars, appVars
    <2> QED
      BY <1>5, <2>1
  <1>8. ASSUME NEW t \in Tids, NEW s \in Tids, Leave(t, s) PROVE Balanced'
    BY <1>5, <1>8 DEF Leave, tauVars
  <1>9. CASE Tick \/ UNCHANGED vars
    BY <1>5, <1>9 DEF Tick, vars, tauVars, appVars
  <1> QED
    BY <1>0, <1>1, <1>2, <1>3, <1>4, <1>6, <1>7, <1>8, <1>9
       DEF Next, StopStep, StopAllStep, Finished

(* Nothing is called at first.                                             *)
LEMMA InitCounts == ASSUME Undisturbed, Init PROVE CountsInv
  <1>1. TypeOK /\ Shape
    BY InitType, InitShape DEF Undisturbed
  <1>2. Bottomed
    <2>1. Len(<<>>) = 0
      OBVIOUS
    <2> QED
      BY <2>1 DEF Init, Bottomed, AppAtBottom
  <1>3. OneApp /\ Balanced
    BY DEF Init, NoMetrics, OneApp, Balanced, NoCounts, Timers
  <1>4. OwnCalls /\ EnabledThere
    <2>1. Len(<<>>) = 0 /\ Real = Tids
      BY RealIsTids DEF Undisturbed
    <2> QED
      BY <2>1 DEF Init, OwnCalls, EnabledThere, NoOp
  <1> QED
    BY <1>1, <1>2, <1>3, <1>4 DEF CountsInv

(* The invariant always holds.                                             *)
LEMMA CountsAlways == Undisturbed => (Spec => []CountsInv)
  <1> SUFFICES ASSUME Undisturbed PROVE Spec => []CountsInv
    OBVIOUS
  <1>1. Init => CountsInv
    BY InitCounts
  <1>2. CountsInv /\ [Next]_vars => CountsInv'
    <2> SUFFICES ASSUME CountsInv, [Next]_vars PROVE CountsInv'
      OBVIOUS
    <2>1. Grounded /\ Balanced /\ Joined
      BY DEF CountsInv, Grounded, Undisturbed
    <2>2. TypeOK' /\ Shape'
      BY <2>1, NextType, NextShape DEF Grounded
    <2>3. Bottomed' /\ OneApp' /\ Balanced'
      BY <2>1, <2>2, NextBottomed, NextOneApp, NextBalanced
    <2>4. OwnCalls' /\ EnabledThere'
      BY <2>1, NextOwnCalls, NextEnabledThere DEF Grounded
    <2> QED
      BY <2>2, <2>3, <2>4 DEF CountsInv
  <1> QED
    BY <1>1, <1>2, PTL DEF Spec

(* On every thread that has begun, each recorded call but the first is a   *)
(* recorded subroutine call of another: what is throttled, or not timed    *)
(* because TAU is disabled, is in neither count, and a purge counts what   *)
(* it finds on the stack the same way.  Main joins the other threads, and  *)
(* either it is alone or nobody disables TAU.                              *)
THEOREM CountsAgree == Undisturbed => (Spec => []CallsAndSubrs)
  <1>1. CountsInv => CallsAndSubrs
    BY DEF CountsInv, Balanced, Agree, Calls, Subrs, CallsAndSubrs
  <1> QED
    BY <1>1, CountsAlways, PTL

-----------------------------------------------------------------------------
(* What is written at the end.                                             *)

\* The stop that a thread which ends has called will take its timer off, unless
\* that is throttled.
Unwinding ==
    \A t \in Tids : op[t].all =>
       /\ op[t].stage \in {"call", "stop"} => Len(stack[t]) = op[t].pos
       /\ op[t].stage = "check" /\ Len(stack[t]) = op[t].pos =>
             stack[t] # <<>> /\ Top(t).func \in disabled

\* Numbers that have not been written belong to a thread that has timers.
Unsaved == \A s \in Tids : dirty[s] => stack[s] # <<>>

(* Under these conditions they all are.  With recycling they are not, and  *)
(* what is stopped while TAU is disabled is not either.                    *)
Saves == Joined /\ ThrottleCalls # 0 /\ ~Toggles /\ ~Recycle

\* The invariant behind it.
SavedInv == CountsInv /\ StaysEnabled /\ Follow /\ Unwinding /\ Unsaved

(* A stop that a thread does not carry out leaves that of another alone.   *)
LEMMA OthersUnwind ==
    ASSUME Unwinding, NEW r \in Tids, op'[r] = op[r], stack'[r] = stack[r],
           disabled \subseteq disabled'
    PROVE  op'[r].all =>
             /\ op'[r].stage \in {"call", "stop"} => Len(stack'[r]) = op'[r].pos
             /\ op'[r].stage = "check" /\ Len(stack'[r]) = op'[r].pos =>
                   stack'[r] # <<>> /\ stack'[r][Len(stack'[r])].func \in disabled'
  BY DEF Unwinding, Top

(* Each step of the end of a thread takes a timer off its stack.           *)
LEMMA NextUnwinding ==
    ASSUME Saves, SavedInv, [Next]_vars
    PROVE  Unwinding'
  <1>0. Real = Tids /\ Joined /\ Undisturbed /\ TypeOK /\ Shape /\ StaysEnabled /\ Follow /\ Grounded
        /\ ~Toggles /\ Unwinding /\ App \in Timers
    BY RealIsTids DEF Saves, Undisturbed, SavedInv, CountsInv, Grounded, Timers
  <1>1. ASSUME NEW t \in Tids, op'[t].all => op'[t].stage \in {"lock", "loop", "idle"},
               \A r \in Tids \ {t} : op'[r] = op[r] /\ stack'[r] = stack[r],
               disabled \subseteq disabled'
        PROVE  Unwinding'
    BY <1>0, <1>1, OthersUnwind DEF Unwinding, Top
  <1>2. ASSUME NEW t \in Tids, NEW s \in Tids, Begin(t, s) PROVE Unwinding'
    <2>1. phase[t] = "new" /\ op' = op /\ StartTimer(t, App, 1) /\ ~IsThrottled(App)
      BY <1>0, <1>2, BeginStarts
    <2>2. \A r \in Tids \ {t} : stack'[r] = stack[r]
      BY <1>0, <2>1, OtherStacks
    <2>3. disabled' = disabled
      BY <1>0, <2>1, StartTimerEffect
    <2>4. op[t].stage = "idle"
      BY <1>2 DEF Begin, Idle, Undisturbed, Joined, Drives
    <2> QED
      BY <1>1, <2>1, <2>2, <2>3, <2>4
  <1>3. ASSUME NEW t \in Tids, NEW s \in Tids, NEW f \in Funcs, Enter(t, s, f) PROVE Unwinding'
    <2>1. op' = op /\ StartTimer(t, f, Len(calls[t]) + 1)
      BY <1>0, <1>3, EnterStarts
    <2>2. \A r \in Tids \ {t} : stack'[r] = stack[r]
      BY <1>0, <2>1, OtherStacks
    <2>3. disabled' = disabled
      BY <2>1 DEF StartTimer, tauVars
    <2>4. op[t].stage = "idle"
      BY <1>3 DEF Enter, Idle
    <2> QED
      BY <1>1, <2>1, <2>2, <2>3, <2>4
  <1>4. ASSUME NEW t \in Tids, NEW s \in Tids, Leave(t, s) PROVE Unwinding'
    <2>1. /\ stack' = stack /\ disabled' = disabled
          /\ op' = [op EXCEPT ![t] = [NoOp EXCEPT !.stage = "call", !.fn = calls[s][Len(calls[s])],
                                                  !.on = s]]
      BY <1>4 DEF Leave, tauVars
    <2>2. op'[t].all = FALSE /\ \A r \in Tids \ {t} : op'[r] = op[r]
      BY <1>0, <2>1 DEF TypeOK, NoOp
    <2> QED
      BY <1>1, <2>1, <2>2
  <1>5. ASSUME NEW t \in Tids, StopCall(t) PROVE Unwinding'
    <2>1. /\ op[t].stage = "call" /\ stack' = stack /\ disabled' = disabled
          /\ IF IsThrottled(op[t].fn) \/ stack[op[t].on] = <<>>
             THEN Return(t) ELSE op' = [op EXCEPT ![t].stage = "stop"]
      BY <1>5 DEF StopCall, tauVars
    <2>2. /\ op[t] \in Ops /\ op[t].on = t
          /\ (IsThrottled(op[t].fn) <=> op[t].fn \in disabled)
      BY <1>0, <2>1, RunningStop
    <2>3. \A r \in Tids \ {t} : op'[r] = op[r]
      BY <1>0, <2>1, ReturnEffect DEF TypeOK
    <2>4. ASSUME op'[t].all
          PROVE  /\ op'[t].stage \in {"call", "stop"} => Len(stack'[t]) = op'[t].pos
                 /\ op'[t].stage = "check" /\ Len(stack'[t]) = op'[t].pos =>
                       stack'[t] # <<>> /\ stack'[t][Len(stack'[t])].func \in disabled'
      <3>1. CASE Return(t)
        <4>1. op[t].all
          BY <1>0, <2>4, <3>1, ReturnEffect DEF NoOp
        <4>2. stack[t] # <<>> /\ Top(t).func = op[t].fn
          BY <1>0, <2>1, <4>1 DEF Follow, Follows
        <4>3. op[t].fn \in disabled
          <5>1. op[t].fn \in disabled \/ op' = [op EXCEPT ![t].stage = "stop"]
            BY <2>1, <2>2, <4>2
          <5>2. op'[t].stage = "check"
            BY <1>0, <3>1, <4>1, ReturnEffect
          <5>3. op' = [op EXCEPT ![t].stage = "stop"] => op'[t].stage = "stop"
            BY <1>0, <2>2 DEF TypeOK, Ops
          <5> QED
            BY <5>1, <5>2, <5>3
        <4>4. op'[t].stage = "check"
          BY <1>0, <3>1, <4>1, ReturnEffect
        <4> QED
          BY <2>1, <4>2, <4>3, <4>4 DEF Top
      <3>2. CASE op' = [op EXCEPT ![t].stage = "stop"]
        <4>1. op'[t].stage = "stop" /\ op'[t].all = op[t].all /\ op'[t].pos = op[t].pos
          BY <1>0, <2>2, <3>2 DEF TypeOK, Ops
        <4> QED
          BY <1>0, <2>1, <2>4, <4>1 DEF Unwinding
      <3> QED
        BY <2>1, <3>1, <3>2
    <2> QED
      BY <1>0, <2>1, <2>3, <2>4, OthersUnwind DEF Unwinding, Top
  <1>6. ASSUME NEW t \in Tids, PopThrottled(t) PROVE Unwinding'
    <2>1. /\ op[t] \in Ops /\ op[t].stage = "stop" /\ stack[t] # <<>> /\ ProfilerStop(t, t)
          /\ op' = op /\ Top(t).func # op[t].fn
      BY <1>0, <1>6, StopsOwn
    <2>2. ~op[t].all
      BY <1>0, <2>1 DEF Follow, Follows
    <2>3. Popped(t) /\ disabled \subseteq disabled'
      BY <1>0, <2>1, ProfilerStopEffect
    <2>4. \A r \in Tids \ {t} : stack'[r] = stack[r]
      BY <1>0, <2>3, OtherStacks
    <2> QED
      BY <1>1, <2>1, <2>2, <2>3, <2>4
  <1>7. ASSUME NEW t \in Tids, StopTop(t) PROVE Unwinding'
    <2>1. /\ op[t] \in Ops /\ op[t].stage = "stop" /\ stack[t] # <<>> /\ ProfilerStop(t, t)
          /\ Return(t)
      BY <1>0, <1>7, StopsOwn
    <2>2. Popped(t) /\ disabled \subseteq disabled'
      BY <1>0, <2>1, ProfilerStopEffect
    <2>3. /\ stack'[t] = Pop(t) /\ (\A r \in Tids \ {t} : stack'[r] = stack[r])
          /\ (\A r \in Tids \ {t} : op'[r] = op[r])
      BY <1>0, <2>1, <2>2, ReturnEffect DEF TypeOK, Popped
    <2>4. op'[t].all => op'[t].stage = "check" /\ op'[t].pos = op[t].pos /\ op[t].all
      BY <1>0, <2>1, ReturnEffect DEF NoOp
    <2>5. op[t].all => Len(stack[t]) = op[t].pos
      BY <1>0, <2>1 DEF Unwinding
    <2>6. Len(Pop(t)) # Len(stack[t])
      <3>1. stack[t] \in Seq(Entries)
        BY <1>0 DEF TypeOK
      <3>2. Len(Pop(t)) = Len(stack[t]) - 1 /\ Len(stack[t]) \in Nat
        BY <2>1, <3>1, PopProperties DEF Pop
      <3> QED
        BY <3>2
    <2>7. op'[t].all => op'[t].stage = "check" /\ Len(stack'[t]) # op'[t].pos
      BY <2>3, <2>4, <2>5, <2>6
    <2> QED
      BY <1>0, <2>2, <2>3, <2>7, OthersUnwind DEF Unwinding, Top
  <1>8. ASSUME NEW t \in Tids, EndThread(t) \/ StopAllLock(t) \/ StopAllDone(t) PROVE Unwinding'
    <2>0. op[t] \in Ops
      BY <1>0 DEF TypeOK
    <2>1. stack' = stack /\ disabled' = disabled
      BY <1>8 DEF EndThread, StopAllLock, StopAllDone, tauVars
    <2>2. \/ \E s : op' = [op EXCEPT ![t] = StopAll(s)]
          \/ op' = [op EXCEPT ![t].stage = "loop"]
          \/ op' = [op EXCEPT ![t] = NoOp]
      BY <1>8 DEF EndThread, StopAllLock, StopAllDone
    <2>3. \A s : StopAll(s).stage = "lock" /\ NoOp.stage = "idle"
      BY DEF StopAll, NoOp
    <2>4. (\A r \in Tids \ {t} : op'[r] = op[r])
          /\ ((\E s : op'[t] = StopAll(s)) \/ op'[t] = [op[t] EXCEPT !.stage = "loop"] \/ op'[t] = NoOp)
      BY <1>0, <2>2 DEF TypeOK
    <2>5. op'[t].stage \in {"lock", "loop", "idle"}
      BY <2>0, <2>3, <2>4 DEF Ops
    <2> QED
      BY <1>1, <2>1, <2>4, <2>5
  <1>9. ASSUME NEW t \in Tids, StopAllNext(t) PROVE Unwinding'
    <2>1. /\ stack' = stack /\ disabled' = disabled /\ op[t].stage = "loop"
          /\ stack[op[t].on] # <<>>
          /\ op' = [op EXCEPT ![t].stage = "call", ![t].fn = Top(op[t].on).func,
                              ![t].pos = Len(stack[op[t].on])]
      BY <1>9 DEF StopAllNext, tauVars
    <2>2. op[t] \in Ops /\ op[t].on \in Tids
      BY <1>0 DEF TypeOK, Ops
    <2>3. op[t].on = t
      BY <1>0, <2>1, <2>2 DEF Ops, Shape, Ownership, EmptyOutside
    <2>4. op'[t].stage = "call" /\ op'[t].pos = Len(stack[t])
          /\ \A r \in Tids \ {t} : op'[r] = op[r]
      BY <1>0, <2>1, <2>2, <2>3 DEF TypeOK, Ops
    <2> QED
      BY <1>0, <2>1, <2>4, OthersUnwind DEF Unwinding, Top
  <1>10. ASSUME NEW t \in Tids, StopAllCheck(t) PROVE Unwinding'
    <2>1. /\ op[t] \in Ops /\ disabled' = disabled
          /\ op' = [op EXCEPT ![t].stage = "loop"]
          /\ \A r \in Tids \ {t} : stack'[r] = stack[r]
      BY <1>0, <1>10, CheckPops
    <2>2. op'[t].stage = "loop" /\ \A r \in Tids \ {t} : op'[r] = op[r]
      BY <1>0, <2>1 DEF TypeOK, Ops
    <2> QED
      BY <1>1, <2>1, <2>2
  <1>11. ASSUME NEW t \in Tids, Purge(t) \/ RestartNext(t) PROVE Unwinding'
    <2>1. /\ disabled' = disabled /\ ~op'[t].all
          /\ \A r \in Tids \ {t} : op'[r] = op[r] /\ stack'[r] = stack[r]
      BY <1>0, <1>11, PurgeStep
    <2> QED
      BY <1>1, <2>1
  <1>12. ASSUME UNCHANGED <<stack, op, disabled>> PROVE Unwinding'
    BY <1>0, <1>12 DEF Unwinding, Top
  <1>13. ASSUME NEW t \in Tids, Overlap(t) \/ Toggle(t) PROVE Unwinding'
    BY <1>12, <1>13 DEF Overlap, Toggle, tauVars
  <1>14. CASE Tick \/ UNCHANGED vars
    BY <1>12, <1>14 DEF Tick, vars, tauVars
  <1> QED
    BY <1>0, <1>2, <1>3, <1>4, <1>5, <1>6, <1>7, <1>8, <1>9, <1>10, <1>11, <1>13, <1>14
       DEF Next, StopStep, StopAllStep, Finished

(* The last Profiler::Stop of a thread writes its profile.                 *)
LEMMA StopSaves ==
    ASSUME ~Recycle, TypeOK, NEW s \in Tids, ProfilerStop(s, s)
    PROVE  (\A r \in Tids \ {s} : dirty'[r] = dirty[r]) /\ (Len(stack[s]) = 1 => ~dirty'[s])
  <1>1. dirty' = IF Len(stack[s]) = 1 THEN StoreData(s, [dirty EXCEPT ![s] = TRUE])
                 ELSE [dirty EXCEPT ![s] = TRUE]
    BY DEF ProfilerStop
  <1>2. StoreData(s, [dirty EXCEPT ![s] = TRUE]) = [[dirty EXCEPT ![s] = TRUE] EXCEPT ![s] = FALSE]
    BY DEF StoreData
  <1> QED
    BY <1>1, <1>2 DEF TypeOK

(* Numbers that are not written stay under a timer.                        *)
LEMMA NextUnsaved ==
    ASSUME Saves, SavedInv, [Next]_vars
    PROVE  Unsaved'
  <1>0. Real = Tids /\ Joined /\ Undisturbed /\ TypeOK /\ Shape /\ Grounded
        /\ ~Recycle /\ Unwinding /\ App \in Timers /\ Unsaved
    BY RealIsTids DEF Saves, Undisturbed, SavedInv, CountsInv, Grounded, Timers
  <1>1. ASSUME NEW t \in Tids, NEW f \in Timers, NEW d \in Nat, StartTimer(t, f, d) PROVE Unsaved'
    <2>1. CASE IsThrottled(f)
      BY <1>0, <1>1, <2>1 DEF StartTimer, tauVars, Unsaved
    <2>2. CASE ~IsThrottled(f)
      <3>1. PICK e \in Entries : Pushed(t, e)
        BY <1>0, <1>1, <2>2, StartTimerEffect
      <3>2. stack'[t] = Append(stack[t], e) /\ \A r \in Tids \ {t} : stack'[r] = stack[r]
        BY <1>0, <3>1, PushedStack
      <3>3. Append(stack[t], e) # <<>>
        <4>1. stack[t] \in Seq(Entries)
          BY <1>0 DEF TypeOK
        <4>2. Len(Append(stack[t], e)) = Len(stack[t]) + 1 /\ Len(stack[t]) \in Nat
          BY <4>1, AppendEntry
        <4> QED
          BY <4>2, EmptySeq
      <3>4. \A r \in Tids \ {t} : dirty'[r] = dirty[r]
        BY <1>0, <1>1, <2>2 DEF StartTimer, TypeOK
      <3> QED
        BY <1>0, <3>2, <3>3, <3>4 DEF Unsaved
    <2> QED
      BY <2>1, <2>2
  <1>2. ASSUME NEW t \in Tids, NEW s \in Tids, Begin(t, s) PROVE Unsaved'
    BY <1>0, <1>1, <1>2, BeginStarts
  <1>3. ASSUME NEW t \in Tids, NEW s \in Tids, NEW f \in Funcs, Enter(t, s, f) PROVE Unsaved'
    BY <1>0, <1>1, <1>3, EnterStarts, OwnFunction
  <1>4. ASSUME NEW t \in Tids, PopThrottled(t) \/ StopTop(t) PROVE Unsaved'
    <2>1. stack[t] # <<>> /\ ProfilerStop(t, t)
      BY <1>0, <1>4, StopsOwn
    <2>2. Popped(t)
      BY <1>0, <2>1, ProfilerStopEffect
    <2>3. stack'[t] = Pop(t) /\ (\A r \in Tids \ {t} : stack'[r] = stack[r])
      BY <1>0, <2>2 DEF TypeOK, Popped
    <2>4. (\A r \in Tids \ {t} : dirty'[r] = dirty[r]) /\ (Len(stack[t]) = 1 => ~dirty'[t])
      BY <1>0, <2>1, StopSaves
    <2>5. Len(stack[t]) # 1 => Pop(t) # <<>>
      <3>1. stack[t] \in Seq(Entries)
        BY <1>0 DEF TypeOK
      <3>2. Len(Pop(t)) = Len(stack[t]) - 1 /\ Len(stack[t]) \in Nat \ {0}
        BY <2>1, <3>1, PopProperties DEF Pop
      <3>3. PICK n \in Nat \ {0} : n = Len(stack[t])
        BY <3>2
      <3>4. Pop(t) = <<>> => n - 1 = 0
        BY <3>2, <3>3
      <3> QED
        BY <3>3, <3>4
    <2> QED
      BY <1>0, <2>3, <2>4, <2>5 DEF Unsaved
  <1>5. ASSUME NEW t \in Tids, StopAllCheck(t) PROVE Unsaved'
    <2>1. /\ op[t] \in Ops /\ op[t].stage = "check" /\ op[t].all
          /\ dirty' = dirty /\ (\A r \in Tids \ {t} : stack'[r] = stack[r])
          /\ stack'[t] = IF Len(stack[t]) = op[t].pos THEN Pop(t) ELSE stack[t]
      BY <1>0, <1>5, CheckPops
    <2>2. CASE Len(stack[t]) # op[t].pos
      BY <1>0, <2>1, <2>2 DEF Unsaved
    <2>3. CASE Len(stack[t]) = op[t].pos
      <3>1. stack[t] # <<>> /\ Top(t).func \in disabled
        BY <1>0, <2>1, <2>3 DEF Unwinding
      <3>2. stack[t] \in Seq(Entries) /\ AppAtBottom(stack[t]) /\ App \notin disabled
        BY <1>0 DEF TypeOK, Grounded, Bottomed, OneApp
      <3>3. Pop(t) # <<>>
        BY <3>1, <3>2, PopBottom DEF Pop, Top
      <3> QED
        BY <1>0, <2>1, <2>3, <3>3 DEF Unsaved
    <2> QED
      BY <2>2, <2>3
  <1>6. ASSUME NEW t \in Tids, Purge(t) PROVE Unsaved'
    <2>1. /\ phase[t] = "running" /\ SameTimers(stack'[t], stack[t])
          /\ \A r \in Tids \ {t} : stack'[r] = stack[r] /\ dirty'[r] = dirty[r]
      BY <1>0, <1>6, PurgeStep
    <2>2. stack'[t] # <<>>
      BY <1>0, <2>1 DEF Grounded, Bottomed, SameTimers
    <2> QED
      BY <1>0, <2>1, <2>2 DEF Unsaved
  <1>11. ASSUME NEW t \in Tids, RestartNext(t) PROVE Unsaved'
    <2>1. dirty' = dirty /\ \A s \in Tids : SameTimers(stack'[s], stack[s])
      BY <1>0, <1>11, PurgeStep DEF RestartNext
    <2> QED
      BY <1>0, <2>1 DEF Unsaved, SameTimers
  <1>7. ASSUME UNCHANGED <<stack, dirty>> PROVE Unsaved'
    BY <1>0, <1>7 DEF Unsaved
  <1>8. ASSUME NEW t \in Tids, StopCall(t) \/ Overlap(t) \/ StopAllLock(t) \/ StopAllNext(t)
                               \/ StopAllDone(t) \/ EndThread(t) \/ Toggle(t)
        PROVE  Unsaved'
    BY <1>7, <1>8
       DEF StopCall, Overlap, StopAllLock, StopAllNext, StopAllDone, EndThread, Toggle, tauVars
  <1>9. ASSUME NEW t \in Tids, NEW s \in Tids, Leave(t, s) PROVE Unsaved'
    BY <1>7, <1>9 DEF Leave, tauVars
  <1>10. CASE Tick \/ UNCHANGED vars
    BY <1>7, <1>10 DEF Tick, vars, tauVars
  <1> QED
    BY <1>0, <1>2, <1>3, <1>4, <1>5, <1>6, <1>8, <1>9, <1>10, <1>11
       DEF Next, StopStep, StopAllStep, Finished

(* When the process has ended, the profile of every thread has been        *)
(* written after the last change of its numbers, whatever was throttled    *)
(* while it was on the stack: main joins the other threads, ids are not    *)
(* recycled, and TAU is not disabled.                                      *)
THEOREM ProfilesAreWritten == Saves => (Spec => []AllWritten)
  <1> SUFFICES ASSUME Saves PROVE Spec => []AllWritten
    OBVIOUS
  <1>0. Undisturbed /\ Joined /\ ~Toggles
    BY DEF Saves, Undisturbed
  <1>1. Init => SavedInv
    <2> SUFFICES ASSUME Init PROVE SavedInv
      OBVIOUS
    <2>1. CountsInv /\ Real = Tids
      BY <1>0, InitCounts, RealIsTids
    <2>2. StaysEnabled /\ Follow
      BY <2>1 DEF Init, StaysEnabled, Follow, Follows, NoOp
    <2>3. Unwinding /\ Unsaved
      BY <2>1 DEF Init, Unwinding, Unsaved, NoOp
    <2> QED
      BY <2>1, <2>2, <2>3 DEF SavedInv
  <1>2. SavedInv /\ [Next]_vars => SavedInv'
    <2> SUFFICES ASSUME SavedInv, [Next]_vars PROVE SavedInv'
      OBVIOUS
    <2>1. Grounded /\ Balanced /\ TypeOK /\ Shape /\ StaysEnabled /\ Follow
      BY DEF SavedInv, CountsInv, Grounded
    <2>2. TypeOK' /\ Shape'
      BY <1>0, <2>1, NextType, NextShape
    <2>3. Bottomed' /\ OneApp' /\ Balanced'
      BY <1>0, <2>1, <2>2, NextBottomed, NextOneApp, NextBalanced
    <2>4. OwnCalls' /\ EnabledThere'
      BY <1>0, <2>1, NextOwnCalls, NextEnabledThere DEF Grounded
    <2>5. StaysEnabled' /\ Follow'
      BY <1>0, <2>1, NextEnabled, NextFollow
    <2>6. Unwinding' /\ Unsaved'
      BY NextUnwinding, NextUnsaved
    <2> QED
      BY <2>2, <2>3, <2>4, <2>5, <2>6 DEF SavedInv, CountsInv
  <1>3. SavedInv => AllWritten
    <2> SUFFICES ASSUME SavedInv, phase[0] = "done", NEW s \in Tids PROVE ~dirty[s]
      BY DEF AllWritten
    <2>1. phase[s] = "done"
      BY DEF SavedInv, CountsInv, Shape, MainLast
    <2>2. stack[s] = <<>>
      BY <2>1 DEF SavedInv, CountsInv, Shape, EmptyOutside
    <2> QED
      BY <2>2 DEF SavedInv, Unsaved
  <1> QED
    BY <1>1, <1>2, <1>3, PTL DEF Spec

=============================================================================
