---------------------------- MODULE TracerProofs ----------------------------
(***************************************************************************)
(* Proofs about Tracer: types, that no record is written outside its       *)
(* buffer nor corrected below it, that all events are defined at the end   *)
(* and that none of them is lost, for any number of threads and records;   *)
(* for one thread, that functions are defined in an EDF file before a      *)
(* flush writes them, and in which one, when the records have the node id  *)
(* in the file's name, and that times are in order.                        *)
(***************************************************************************)
EXTENDS Tracer, FiniteSetTheorems, SequenceTheorems, TLAPS

\* The node id changes together with its history.
USE DEF nodeVars

\* It is always a number.
LEMMA NodeNumbersAreInt == NodeNumbers \subseteq Int
BY TracerAssumption DEF TracerAssumption, NodeNumbers

\* The calls that a thread still has to make.
CallRecords == [do : Calls, ev : AppEvents \cup Marks, ts : Nat, nid : Int, n : Nat]

\* Calls, records and what is made of them have their types.
LEMMA CallType ==
    ASSUME NEW do \in Calls, NEW ev \in AppEvents \cup Marks, NEW ts \in Nat, NEW nid \in Int
    PROVE  Call(do, ev, ts, nid) \in CallRecords
BY DEF Call, CallRecords

LEMMA FixType ==
    ASSUME NEW n \in Nat, NEW ts \in Nat
    PROVE  Fix(n, ts) \in CallRecords
BY DEF Fix, Call, CallRecords, Calls, Marks

LEMMA RecordType ==
    ASSUME TypeOK, NEW ev \in AppEvents \cup Marks, NEW ts \in Nat, NEW nid \in Int
    PROVE  Record(ev, ts, nid) \in Records
BY DEF TypeOK, Record, Records

\* Writing records from index i on leaves a sequence of records that reaches as
\* far as the last of them.
LEMMA WrittenProperties ==
    ASSUME NEW S, NEW b \in Seq(S), NEW i \in Nat, NEW rs \in Seq(S), i <= Len(b)
    PROVE  /\ Written(b, i, rs) \in Seq(S)
           /\ i + Len(rs) <= Len(Written(b, i, rs))
<1> DEFINE head == SubSeq(b, 1, i)
           rest == SubSeq(b, i + Len(rs) + 1, Len(b))
<1>1. head \in Seq(S) /\ Len(head) = i
  <2>1. \A j \in 1 .. i : b[j] \in S
    BY ElementOfSeq
  <2> QED
    BY <2>1, SubSeqProperties
<1>2. rest \in Seq(S) /\ Len(rest) \in Nat
  OBVIOUS
<1>3. Written(b, i, rs) = (head \o rs) \o rest
  BY DEF Written
<1>4. head \o rs \in Seq(S) /\ Len(head \o rs) = i + Len(rs)
  BY <1>1, ConcatProperties
<1> DEFINE front == head \o rs
<1>5. front \in Seq(S) /\ Len(front) = i + Len(rs) /\ Written(b, i, rs) = front \o rest
  BY <1>3, <1>4
<1> HIDE DEF rest, front
<1>6. front \o rest \in Seq(S) /\ Len(front \o rest) = Len(front) + Len(rest)
  BY <1>2, <1>5, ConcatProperties
<1> QED
  BY <1>2, <1>5, <1>6

\* What a thread has recorded so far is in its buffer.
Filled == \A t \in Tids : cur[t] <= Len(buf[t])

\* Changing the records of a buffer one by one leaves a buffer of that length.
LEMMA MapProperties ==
    ASSUME NEW S, NEW b \in Seq(S), NEW c, c = [i \in 1 .. Len(b) |-> c[i]],
           \A i \in 1 .. Len(b) : c[i] \in S
    PROVE  c \in Seq(S) /\ Len(c) = Len(b)
<1>1. PICK n \in Nat : n = Len(b)
  OBVIOUS
<1>2. c \in [1 .. n -> S]
  BY <1>1
<1>3. \A r \in [1 .. n -> S] : r \in Seq(S) /\ Len(r) = n
  OBVIOUS
<1> QED
  BY <1>1, <1>2, <1>3

\* The buffer variable after a step of thread t keeps its type and its length.
SameLength(t) == /\ buf' \in [Tids -> Seq(Records)]
                 /\ Len(buf'[t]) = Len(buf[t])
                 /\ \A r \in Tids \ {t} : buf'[r] = buf[r]

LEMMA SameLengthFilled ==
    ASSUME Filled, NEW t \in Tids, SameLength(t), UNCHANGED cur
    PROVE  Filled'
BY DEF Filled, SameLength

LEMMA TraceInitProperties ==
    ASSUME TypeOK, NEW t \in Tids, NEW n \in Int, TraceInit(t, n)
    PROVE  init' \in [Tids -> BOOLEAN] /\ SameLength(t)
<1>1. CASE init[t] \/ n = -1
  BY <1>1 DEF TraceInit, TypeOK, SameLength
<1>2. CASE ~(init[t] \/ n = -1)
  <2> DEFINE c == [i \in 1 .. Len(buf[t]) |-> IF FirstRecordIsInit(t) /\ i <= cur[t]
                                             THEN [buf[t][i] EXCEPT !.nid = n] ELSE buf[t][i]]
  <2>1. buf' = [buf EXCEPT ![t] = c] /\ init' = [init EXCEPT ![t] = TRUE]
    BY <1>2 DEF TraceInit
  <2>2. buf[t] \in Seq(Records)
    BY DEF TypeOK
  <2>3. \A i \in 1 .. Len(buf[t]) : c[i] \in Records
    <3>1. \A r \in Records : [r EXCEPT !.nid = n] \in Records
      BY DEF Records
    <3> QED
      BY <2>2, <3>1, ElementOfSeq
  <2>4. c = [i \in 1 .. Len(buf[t]) |-> c[i]]
    OBVIOUS
  <2> HIDE DEF c
  <2>5. c \in Seq(Records) /\ Len(c) = Len(buf[t])
    BY <2>2, <2>3, <2>4, MapProperties
  <2> QED
    BY <2>1, <2>5 DEF TypeOK, SameLength
<1> QED
  BY <1>1, <1>2

LEMMA CreatedProperties ==
    ASSUME TypeOK, NEW t \in Tids, NEW n \in Int
    PROVE  Created(t, n) \in Seq(CallRecords)
<1>1. Call("Record", "EV_INIT", 0, n) \in CallRecords
  BY CallType DEF Calls, Marks
<1>2. Call("Record", "WALL_CLOCK", 0, n) \in CallRecords
  BY CallType DEF Calls, Marks
<1> QED
  BY <1>1, <1>2 DEF Created

\* The list of calls after one has returned.
LEMMA ThenProperties ==
    ASSUME TypeOK, NEW t \in Tids, todo[t] # <<>>, NEW cs \in Seq(CallRecords), Then(t, cs)
    PROVE  todo' \in [Tids -> Seq(CallRecords)]
<1>1. todo \in [Tids -> Seq(CallRecords)]
  BY DEF TypeOK, CallRecords
<1>2. Tail(todo[t]) \in Seq(CallRecords)
  BY <1>1, HeadTailProperties
<1>3. cs \o Tail(todo[t]) \in Seq(CallRecords)
  BY <1>2, ConcatProperties
<1> QED
  BY <1>1, <1>3 DEF Then

LEMMA ThenNothing ==
    ASSUME TypeOK, NEW t \in Tids, todo[t] # <<>>, Then(t, <<>>)
    PROVE  todo' \in [Tids -> Seq(CallRecords)]
<1> DEFINE cs == <<>>
<1>1. cs \in Seq(CallRecords) /\ Then(t, cs)
  OBVIOUS
<1> HIDE DEF cs
<1> QED
  BY <1>1, ThenProperties

LEMMA DoingProperties ==
    ASSUME TypeOK, NEW t \in Tids, NEW do, Doing(t, do)
    PROVE  todo[t] # <<>> /\ Head(todo[t]) \in CallRecords /\ flush[t].stage = "no"
<1>1. todo[t] \in Seq(CallRecords) /\ todo[t] # <<>>
  BY DEF TypeOK, CallRecords, Doing
<1> QED
  BY <1>1, HeadTailProperties DEF Doing

-----------------------------------------------------------------------------
(* Types.                                                                  *)

\* The inductive invariant that the others build on.
IInv == TypeOK /\ Filled

LEMMA InitIInv ==
    Init => IInv
<1> USE TracerAssumption
<1>1. SUFFICES ASSUME Init PROVE IInv
  OBVIOUS
<1>2. {Counters[i] : i \in 1 .. Len(Counters)} \subseteq AppEvents
  BY DEF AppEvents
<1>3. <<>> \in Seq(Records) /\ <<>> \in Seq(CallRecords) /\ <<>> \in Seq(AppEvents)
  OBVIOUS
<1>4. NoFlush \in [stage : Stages, marked : BOOLEAN, nid : Int]
  BY DEF NoFlush, Stages
<1>5. TypeOK
  <2>1. defs \in SUBSET AppEvents /\ edf \in [NodeNumbers -> SUBSET AppEvents]
    BY <1>1, <1>2 DEF Init
  <2>2. buf \in [Tids -> Seq(Records)] /\ file \in [Tids -> Seq(Records)]
    BY <1>1, <1>3 DEF Init
  <2>3. todo \in [Tids -> Seq(CallRecords)] /\ triggered \in [Tids -> Seq(AppEvents)]
    BY <1>1, <1>3 DEF Init
  <2>4. flush \in [Tids -> [stage : Stages, marked : BOOLEAN, nid : Int]]
    BY <1>1, <1>4 DEF Init
  <2>0. /\ usesMPI \in BOOLEAN /\ flag \in BOOLEAN /\ exiting \in BOOLEAN
        /\ replaced \in BOOLEAN /\ moved \in BOOLEAN
    BY <1>1 DEF Init
  <2>5. /\ clock \in Nat \ {0} /\ node \in NodeNumbers
        /\ init \in [Tids -> BOOLEAN] /\ cur \in [Tids -> Nat] /\ opened \in [Tids -> Int]
    BY <1>1 DEF Init, NotOpen, NodeNumbers
  <2> QED
    BY <2>0, <2>1, <2>2, <2>3, <2>4, <2>5 DEF TypeOK, CallRecords
<1>6. Filled
  BY <1>1 DEF Init, Filled
<1> QED
  BY <1>5, <1>6 DEF IInv

LEMMA RegisterIInv ==
    ASSUME IInv, NEW t \in Tids, NEW e \in Funcs \cup Users, Register(t, e)
    PROVE  IInv'
<1>1. e \in AppEvents
  BY DEF AppEvents
<1> QED
  BY <1>1 DEF IInv, TypeOK, Filled, Register

\* The calls that trace an event.
TraceEventCalls == {c \in CallRecords : c.ev \in AppEvents /\ c.do = "TraceEvent"}

\* What a timer or a user event has to trace.
LEMMA TracedCalls ==
    ASSUME TypeOK, NEW e \in Funcs \cup Users
    PROVE  Traced(e) \in Seq(TraceEventCalls)
<1>1. \A a \in AppEvents, ts \in Nat : TraceEvent(a, ts) \in TraceEventCalls
  BY DEF TraceEvent, Call, CallRecords, Calls, TraceEventCalls
<1>2. clock \in Nat /\ e \in AppEvents
  BY DEF TypeOK, AppEvents
<1>3. QED
  <2>1. CASE e \in Users
    BY <1>1, <1>2, <2>1 DEF Traced
  <2>2. CASE e \notin Users
    <3>1. PICK n \in Nat : n = Len(Counters)
      BY TracerAssumption
    <3>2. \A i \in 1 .. n : Counters[i] \in AppEvents
      BY <3>1 DEF AppEvents
    <3> DEFINE cs == [i \in 1 .. n |-> TraceEvent(Counters[i], clock)]
    <3>3. cs \in [1 .. n -> TraceEventCalls]
      BY <1>1, <1>2, <3>2
    <3>4. \A r \in [1 .. n -> TraceEventCalls] : r \in Seq(TraceEventCalls)
      OBVIOUS
    <3>5. <<TraceEvent(e, clock)>> \in Seq(TraceEventCalls)
      BY <1>1, <1>2
    <3>6. cs \in Seq(TraceEventCalls)
      BY <3>3, <3>4
    <3> HIDE DEF cs
    <3>7. <<TraceEvent(e, clock)>> \o cs \in Seq(TraceEventCalls)
      BY <3>5, <3>6, ConcatProperties
    <3> QED
      BY <2>2, <3>1, <3>7 DEF Traced, cs
  <2> QED
    BY <2>1, <2>2

\* Those calls, one by one, and the events they trace.
LEMMA TracedProperties ==
    ASSUME TypeOK, NEW e \in Funcs \cup Users
    PROVE  /\ Traced(e) \in Seq(CallRecords)
           /\ [i \in 1 .. Len(Traced(e)) |-> Traced(e)[i].ev] \in Seq(AppEvents)
           /\ \A i \in 1 .. Len(Traced(e)) : Traced(e)[i] \in TraceEventCalls
<1>1. Traced(e) \in Seq(TraceEventCalls)
  BY TracedCalls
<1>2. \A q \in Seq(TraceEventCalls) : q \in Seq(CallRecords)
  BY DEF TraceEventCalls
<1>3. PICK n \in Nat : n = Len(Traced(e))
  BY <1>1
<1>4. \A i \in 1 .. n : Traced(e)[i] \in TraceEventCalls
  BY <1>1, <1>3, ElementOfSeq
<1>5. [i \in 1 .. n |-> Traced(e)[i].ev] \in [1 .. n -> AppEvents]
  BY <1>4 DEF TraceEventCalls
<1>6. \A r \in [1 .. n -> AppEvents] : r \in Seq(AppEvents)
  OBVIOUS
<1> QED
  BY <1>1, <1>2, <1>3, <1>4, <1>5, <1>6

LEMMA TriggerIInv ==
    ASSUME IInv, NEW t \in Tids, NEW e \in Funcs \cup Users, Trigger(t, e)
    PROVE  IInv'
<1>1. TypeOK
  BY DEF IInv
<1>2. PICK cs \in Seq(CallRecords) : todo' = [todo EXCEPT ![t] = cs]
  BY <1>1, TracedProperties DEF Trigger
<1>3. todo' \in [Tids -> Seq(CallRecords)]
  BY <1>1, <1>2 DEF TypeOK, CallRecords
<1>4. PICK q \in Seq(AppEvents) : triggered' = [triggered EXCEPT ![t] = @ \o q]
  BY <1>1, TracedProperties DEF Trigger
<1>5. triggered[t] \o q \in Seq(AppEvents)
  BY <1>1, ConcatProperties DEF TypeOK
<1>6. triggered' \in [Tids -> Seq(AppEvents)]
  BY <1>1, <1>4, <1>5 DEF TypeOK
<1>7. UNCHANGED <<clock, nodeVars, usesMPI, defs, flag, edf, init, buf, cur, file, opened,
                  flush, exiting>>
  BY DEF Trigger
<1> QED
  BY <1>1, <1>3, <1>6, <1>7 DEF IInv, TypeOK, Filled, CallRecords

LEMMA SetNodeIInv ==
    ASSUME IInv, NEW n \in Nodes, SetNode(n)
    PROVE  IInv'
<1>1. TypeOK /\ 0 \in Tids /\ n \in Int
  BY TracerAssumption DEF IInv, Tids
<1>2. init' \in [Tids -> BOOLEAN] /\ SameLength(0)
  BY <1>1, TraceInitProperties DEF SetNode
<1>3. todo' \in [Tids -> Seq(CallRecords)]
  BY <1>1, CreatedProperties DEF SetNode, TypeOK, CallRecords
<1>4. UNCHANGED <<clock, defs, flag, edf, cur, file, opened, flush, triggered, exiting>>
  BY DEF SetNode
<1>5. /\ node' \in NodeNumbers /\ usesMPI' \in BOOLEAN
      /\ replaced' \in BOOLEAN /\ moved' \in BOOLEAN
  BY <1>1 DEF SetNode, TypeOK, NodeNumbers
<1>6. TypeOK'
  BY <1>1, <1>2, <1>3, <1>4, <1>5 DEF TypeOK, CallRecords, SameLength
<1>7. Filled'
  BY <1>1, <1>2, <1>4 DEF IInv, Filled, SameLength
<1> QED
  BY <1>6, <1>7 DEF IInv

LEMMA DoTraceEventIInv ==
    ASSUME IInv, NEW t \in Tids, DoTraceEvent(t)
    PROVE  IInv'
<1>1. TypeOK /\ todo[t] # <<>> /\ Head(todo[t]) \in CallRecords
  BY DoingProperties DEF IInv, DoTraceEvent
<1> DEFINE c == [Head(todo[t]) EXCEPT !.do = "EventWithNodeId", !.nid = node]
<1>2. c \in CallRecords
  <2>1. \A r \in CallRecords, n \in Int :
           [r EXCEPT !.do = "EventWithNodeId", !.nid = n] \in CallRecords
    BY DEF CallRecords, Calls
  <2> QED
    BY <1>1, <2>1, NodeNumbersAreInt DEF TypeOK
<1>4. Then(t, <<c>>)
  BY DEF DoTraceEvent
<1> HIDE DEF c
<1>5. <<c>> \in Seq(CallRecords)
  BY <1>2
<1> DEFINE cs == <<c>>
<1> HIDE DEF cs
<1>3. todo' \in [Tids -> Seq(CallRecords)]
  <2>1. cs \in Seq(CallRecords) /\ Then(t, cs)
    BY <1>4, <1>5 DEF cs
  <2> QED
    BY <1>1, <2>1, ThenProperties
<1> QED
  BY <1>3 DEF IInv, TypeOK, Filled, CallRecords, DoTraceEvent

\* What TauTraceEventWithNodeId calls.
LEMMA EventCalls ==
    ASSUME IInv, NEW t \in Tids, DoEventWithNodeId(t)
    PROVE  \E cs \in Seq(CallRecords) : Then(t, cs)
<1> DEFINE c == Head(todo[t])
           created == Created(t, node)
           fix == IF created # <<>> /\ c.ts # 0 THEN <<Fix(Len(created), c.ts)>> ELSE <<>>
           last == <<[c EXCEPT !.do = "Record"]>>
<1>1. TypeOK /\ todo[t] # <<>> /\ c \in CallRecords /\ node \in Int
  BY DoingProperties, NodeNumbersAreInt DEF IInv, DoEventWithNodeId, TypeOK
<1>2. created \in Seq(CallRecords)
  BY <1>1, CreatedProperties
<1>3. fix \in Seq(CallRecords)
  <2>1. Len(created) \in Nat /\ c.ts \in Nat
    BY <1>1, <1>2 DEF CallRecords
  <2> QED
    BY <2>1, FixType
<1>4. last \in Seq(CallRecords)
  BY <1>1 DEF CallRecords, Calls
<1>5. Then(t, created \o fix \o last)
  BY DEF DoEventWithNodeId
<1> HIDE DEF created, fix, last
<1>6. created \o fix \o last \in Seq(CallRecords)
  BY <1>2, <1>3, <1>4, ConcatProperties
<1> QED
  BY <1>5, <1>6

LEMMA DoEventWithNodeIdIInv ==
    ASSUME IInv, NEW t \in Tids, DoEventWithNodeId(t)
    PROVE  IInv'
<1>1. TypeOK /\ todo[t] # <<>> /\ node \in Int
  BY DoingProperties, NodeNumbersAreInt DEF IInv, DoEventWithNodeId, TypeOK
<1>7. todo' \in [Tids -> Seq(CallRecords)]
  BY <1>1, EventCalls, ThenProperties
<1>8. init' \in [Tids -> BOOLEAN] /\ SameLength(t)
  BY <1>1, TraceInitProperties DEF DoEventWithNodeId
<1>9. UNCHANGED <<clock, nodeVars, usesMPI, defs, flag, edf, cur, file, opened, flush,
                  triggered, exiting>>
  BY DEF DoEventWithNodeId
<1>10. TypeOK'
  BY <1>1, <1>7, <1>8, <1>9 DEF TypeOK, CallRecords, SameLength
<1>11. Filled'
  BY SameLengthFilled, <1>8, <1>9 DEF IInv
<1> QED
  BY <1>10, <1>11 DEF IInv

LEMMA DoFixIInv ==
    ASSUME IInv, NEW t \in Tids, DoFix(t)
    PROVE  IInv'
<1> DEFINE c == Head(todo[t])
           b == [i \in 1 .. Len(buf[t]) |-> IF i \in cur[t] - c.n + 1 .. cur[t]
                                            THEN [buf[t][i] EXCEPT !.ts = c.ts] ELSE buf[t][i]]
<1>1. TypeOK /\ todo[t] # <<>> /\ c \in CallRecords /\ buf[t] \in Seq(Records)
  BY DoingProperties DEF IInv, DoFix, TypeOK
<1>2. \A i \in 1 .. Len(buf[t]) : b[i] \in Records
  <2>1. \A r \in Records : [r EXCEPT !.ts = c.ts] \in Records
    BY <1>1 DEF Records, CallRecords
  <2> QED
    BY <1>1, <2>1, ElementOfSeq
<1>3. b = [i \in 1 .. Len(buf[t]) |-> b[i]]
  OBVIOUS
<1>4. buf' = [buf EXCEPT ![t] = b] /\ Then(t, <<>>)
  BY DEF DoFix
<1> HIDE DEF b, c
<1>5. b \in Seq(Records) /\ Len(b) = Len(buf[t])
  BY <1>1, <1>2, <1>3, MapProperties
<1>6. SameLength(t)
  BY <1>1, <1>4, <1>5 DEF TypeOK, SameLength
<1>7. todo' \in [Tids -> Seq(CallRecords)]
  BY <1>1, <1>4, ThenNothing
<1>8. UNCHANGED <<clock, nodeVars, usesMPI, defs, flag, edf, init, cur, file, opened,
                  flush, triggered, exiting>>
  BY DEF DoFix
<1>9. TypeOK'
  BY <1>1, <1>6, <1>7, <1>8 DEF TypeOK, CallRecords, SameLength
<1>10. Filled'
  BY SameLengthFilled, <1>6, <1>8 DEF IInv
<1> QED
  BY <1>9, <1>10 DEF IInv

\* The records for one event are one or, at the start of the buffer, two.
LEMMA NewRecordsProperties ==
    ASSUME TypeOK, NEW t \in Tids, NEW c \in CallRecords
    PROVE  /\ NewRecords(t, c) \in Seq(Records)
           /\ \/ Len(NewRecords(t, c)) = 1
              \/ Len(NewRecords(t, c)) = 2 /\ cur[t] = 0
<1>1. Record(c.ev, c.ts, c.nid) \in Records
  BY RecordType DEF CallRecords
<1>2. Record("EV_INIT", c.ts, node) \in Records
  BY RecordType, NodeNumbersAreInt DEF CallRecords, TypeOK, Marks
<1> QED
  BY <1>1, <1>2 DEF NewRecords

\* What the writing of a record does to buffer and index: n records were
\* written, and there is a flush to be done if they filled the buffer.
Wrote(t, n) ==
    /\ n \in 1 .. 3
    /\ cur' = [cur EXCEPT ![t] = @ + n]
    /\ \/ /\ ~Full(cur[t] + n) /\ UNCHANGED flush
          /\ n <= 1 \/ (n = 2 /\ cur[t] = 0)
       \/ /\ Full(cur[t] + n - 1)
          /\ n = 2 \/ (n = 3 /\ cur[t] = 0)
          /\ \E nid \in Int : flush' = [flush EXCEPT ![t] = [stage |-> "begin",
                                                            marked |-> TRUE, nid |-> nid]]

LEMMA DoRecordProperties ==
    ASSUME IInv, NEW t \in Tids, DoRecord(t)
    PROVE  /\ \E n \in 1 .. 3 : Wrote(t, n) /\ cur[t] + n <= Len(buf'[t])
           /\ buf' \in [Tids -> Seq(Records)]
           /\ \A r \in Tids \ {t} : buf'[r] = buf[r]
<1> DEFINE c == Head(todo[t])
           new == NewRecords(t, c)
           full == Full(cur[t] + Len(new))
           mark == IF full THEN <<Record("FLUSH", c.ts, c.nid)>> ELSE <<>>
           rs == new \o mark
<1>1. TypeOK /\ c \in CallRecords /\ buf[t] \in Seq(Records) /\ cur[t] \in Nat
      /\ cur[t] <= Len(buf[t])
  BY DoingProperties DEF IInv, DoRecord, TypeOK, Filled
<1>2. /\ new \in Seq(Records)
      /\ Len(new) = 1 \/ (Len(new) = 2 /\ cur[t] = 0)
  BY <1>1, NewRecordsProperties
<1>3. mark \in Seq(Records) /\ Len(mark) = IF full THEN 1 ELSE 0
  <2>1. Record("FLUSH", c.ts, c.nid) \in Records
    BY <1>1, RecordType DEF CallRecords, Marks
  <2> QED
    BY <2>1
<1>4. /\ buf' = [buf EXCEPT ![t] = Written(@, cur[t], rs)]
      /\ cur' = [cur EXCEPT ![t] = @ + Len(rs)]
      /\ flush' = IF full THEN [flush EXCEPT ![t] = [stage |-> "begin", marked |-> TRUE,
                                                     nid |-> c.nid]]
                  ELSE flush
  BY DEF DoRecord
<1>5. c.nid \in Int
  BY <1>1 DEF CallRecords
<1> HIDE DEF new, mark
<1>6. rs \in Seq(Records) /\ Len(rs) = Len(new) + Len(mark)
  BY <1>2, <1>3, ConcatProperties
<1> HIDE DEF rs
<1>7. /\ Written(buf[t], cur[t], rs) \in Seq(Records)
      /\ cur[t] + Len(rs) <= Len(Written(buf[t], cur[t], rs))
  BY <1>1, <1>6, WrittenProperties
<1>8. /\ buf' \in [Tids -> Seq(Records)]
      /\ \A r \in Tids \ {t} : buf'[r] = buf[r]
      /\ cur[t] + Len(rs) <= Len(buf'[t])
  BY <1>1, <1>4, <1>7 DEF TypeOK
<1>9. full \in BOOLEAN
  BY DEF Full
<1>12. PICK k \in {1, 2} : k = Len(new) /\ (k = 2 => cur[t] = 0)
  BY <1>2
<1>13. Len(rs) = IF full THEN k + 1 ELSE k
  BY <1>3, <1>6, <1>9, <1>12
<1>10. CASE full
  <2>1. PICK n \in 1 .. 3 : n = Len(rs) /\ n = k + 1
    BY <1>10, <1>13
  <2>2. cur[t] + n - 1 = cur[t] + k
    BY <1>1, <2>1
  <2>3. Full(cur[t] + n - 1)
    BY <1>10, <1>12, <2>2
  <2>4. n = 2 \/ (n = 3 /\ cur[t] = 0)
    BY <1>12, <2>1
  <2>5. flush' = [flush EXCEPT ![t] = [stage |-> "begin", marked |-> TRUE, nid |-> c.nid]]
    BY <1>4, <1>10
  <2>6. cur' = [cur EXCEPT ![t] = @ + n]
    BY <1>4, <2>1
  <2>7. Wrote(t, n)
    BY <1>5, <2>3, <2>4, <2>5, <2>6 DEF Wrote
  <2> QED
    BY <1>8, <2>1, <2>7
<1>11. CASE ~full
  <2>1. PICK n \in 1 .. 3 : n = Len(rs) /\ n = k
    BY <1>11, <1>13
  <2>2. ~Full(cur[t] + n) /\ flush' = flush /\ cur' = [cur EXCEPT ![t] = @ + n]
    BY <1>4, <1>11, <1>12, <2>1
  <2>3. Wrote(t, n)
    BY <1>12, <2>1, <2>2 DEF Wrote
  <2> QED
    BY <1>8, <2>1, <2>3
<1> QED
  BY <1>9, <1>10, <1>11

LEMMA DoRecordIInv ==
    ASSUME IInv, NEW t \in Tids, DoRecord(t)
    PROVE  IInv'
<1>1. TypeOK /\ todo[t] # <<>>
  BY DoingProperties DEF IInv, DoRecord
<1>2. todo' \in [Tids -> Seq(CallRecords)]
  BY <1>1, ThenNothing DEF DoRecord
<1>3. PICK n \in 1 .. 3 : Wrote(t, n) /\ cur[t] + n <= Len(buf'[t])
  BY DoRecordProperties
<1>4. buf' \in [Tids -> Seq(Records)] /\ \A r \in Tids \ {t} : buf'[r] = buf[r]
  BY DoRecordProperties
<1>5. cur' \in [Tids -> Nat] /\ cur'[t] = cur[t] + n
      /\ \A r \in Tids \ {t} : cur'[r] = cur[r]
  <2>1. cur' = [cur EXCEPT ![t] = cur[t] + n]
    BY <1>3 DEF Wrote
  <2>2. cur \in [Tids -> Nat]
    BY <1>1 DEF TypeOK
  <2> DEFINE v == cur[t] + n
  <2>3. cur' = [cur EXCEPT ![t] = v] /\ v \in Nat
    BY <2>1, <2>2
  <2> HIDE DEF v
  <2>4. cur' \in [Tids -> Nat] /\ cur'[t] = v /\ \A r \in Tids \ {t} : cur'[r] = cur[r]
    BY <2>2, <2>3
  <2> QED
    BY <2>4 DEF v
<1>6. flush' \in [Tids -> [stage : Stages, marked : BOOLEAN, nid : Int]]
  <2>1. \A nid \in Int : [stage |-> "begin", marked |-> TRUE, nid |-> nid]
                         \in [stage : Stages, marked : BOOLEAN, nid : Int]
    BY DEF Stages
  <2> DEFINE FlushRecords == [stage : Stages, marked : BOOLEAN, nid : Int]
  <2>2. flush \in [Tids -> FlushRecords]
    BY <1>1 DEF TypeOK
  <2>3. \/ flush' = flush
        \/ \E nid \in Int : flush' = [flush EXCEPT ![t] = [stage |-> "begin",
                                                         marked |-> TRUE, nid |-> nid]]
    BY <1>3 DEF Wrote
  <2>4. \/ flush' = flush
        \/ \E f \in FlushRecords : flush' = [flush EXCEPT ![t] = f]
    BY <2>1, <2>3
  <2> HIDE DEF FlushRecords
  <2>5. flush' \in [Tids -> FlushRecords]
    BY <2>2, <2>4
  <2> QED
    BY <2>5 DEF FlushRecords
<1>7. UNCHANGED <<clock, nodeVars, usesMPI, defs, flag, edf, init, file, opened, triggered,
                  exiting>>
  BY DEF DoRecord
<1>8. TypeOK'
  BY <1>1, <1>2, <1>4, <1>5, <1>6, <1>7 DEF TypeOK, CallRecords
<1>9. Filled'
  BY <1>3, <1>4, <1>5 DEF IInv, Filled
<1> QED
  BY <1>8, <1>9 DEF IInv

LEMMA FlushBeginIInv ==
    ASSUME IInv, NEW t \in Tids, FlushBegin(t)
    PROVE  IInv'
<1>1. TypeOK /\ buf[t] \in Seq(Records)
  BY DEF IInv, TypeOK
<1>2. Renamed(t) \in Seq(Records) /\ Len(Renamed(t)) = Len(buf[t])
  <2> DEFINE Old == opened[t] # NotOpen \/ ~FirstRecordIsInit(t) \/ node <= 0
             Mine(i) == /\ i <= cur[t] /\ buf[t][i].nid = 0
                        /\ \A j \in 1 .. i : buf[t][j].nid <= 0
             b == [i \in 1 .. Len(buf[t]) |->
                     IF Mine(i) THEN [buf[t][i] EXCEPT !.nid = node] ELSE buf[t][i]]
  <2>1. CASE Old
    BY <1>1, <2>1 DEF Renamed
  <2>2. CASE ~Old
    <3>1. \A i \in 1 .. Len(buf[t]) : b[i] \in Records
      <4>1. \A r \in Records : [r EXCEPT !.nid = node] \in Records
        BY <1>1, NodeNumbersAreInt DEF Records, TypeOK
      <4> HIDE DEF Mine
      <4> QED
        BY <1>1, <4>1, ElementOfSeq
    <3>2. b = [i \in 1 .. Len(buf[t]) |-> b[i]]
      OBVIOUS
    <3>3. Renamed(t) = b
      BY <2>2 DEF Renamed
    <3> HIDE DEF b
    <3>4. b \in Seq(Records) /\ Len(b) = Len(buf[t])
      BY <1>1, <3>1, <3>2, MapProperties
    <3> QED
      BY <3>3, <3>4
  <2> QED
    BY <2>1, <2>2
<1>3. SameLength(t)
  BY <1>1, <1>2 DEF FlushBegin, TypeOK, SameLength
<1>4. opened' \in [Tids -> Int]
  BY <1>1, NodeNumbersAreInt DEF FlushBegin, TypeOK
<1>5. flush' \in [Tids -> [stage : Stages, marked : BOOLEAN, nid : Int]]
  <2>1. \A f \in [stage : Stages, marked : BOOLEAN, nid : Int], s \in Stages :
           [f EXCEPT !.stage = s] \in [stage : Stages, marked : BOOLEAN, nid : Int]
    OBVIOUS
  <2>2. (IF flag THEN "dump" ELSE "write") \in Stages
    BY DEF Stages
  <2> QED
    BY <1>1, <2>1, <2>2 DEF FlushBegin, TypeOK
<1>6. UNCHANGED <<clock, nodeVars, usesMPI, defs, flag, edf, init, cur, file, todo,
                  triggered, exiting>>
  BY DEF FlushBegin
<1>7. TypeOK'
  BY <1>1, <1>3, <1>4, <1>5, <1>6 DEF TypeOK, SameLength
<1>8. Filled'
  BY <1>3, <1>6 DEF IInv, Filled, SameLength
<1> QED
  BY <1>7, <1>8 DEF IInv

LEMMA DumpEDFType ==
    ASSUME TypeOK, NEW t \in Tids, DumpEDF(t)
    PROVE  edf' \in [NodeNumbers -> SUBSET AppEvents]
<1>1. edf' = edf \/ edf' = [edf EXCEPT ![node] = defs]
  BY DEF DumpEDF
<1> QED
  BY <1>1 DEF TypeOK

LEMMA FlushDumpIInv ==
    ASSUME IInv, NEW t \in Tids, FlushDump(t)
    PROVE  IInv'
<1>1. edf' \in [NodeNumbers -> SUBSET AppEvents]
  BY DumpEDFType DEF IInv, FlushDump
<1> QED
  BY <1>1 DEF IInv, TypeOK, Filled, FlushDump, Stages

LEMMA FlushClearIInv ==
    ASSUME IInv, NEW t \in Tids, FlushClear(t)
    PROVE  IInv'
BY DEF IInv, TypeOK, Filled, FlushClear, Stages

LEMMA AfterWriteType ==
    ASSUME NEW f \in [stage : Stages, marked : BOOLEAN, nid : Int]
    PROVE  AfterWrite(f) \in [stage : Stages, marked : BOOLEAN, nid : Int]
BY DEF AfterWrite, NoFlush, Stages

LEMMA FlushWriteIInv ==
    ASSUME IInv, NEW t \in Tids, FlushWrite(t)
    PROVE  IInv'
<1>1. TypeOK
  BY DEF IInv
<1>2. flush' \in [Tids -> [stage : Stages, marked : BOOLEAN, nid : Int]]
  BY <1>1, AfterWriteType DEF FlushWrite, TypeOK
<1>3. Pending(t) \in Seq(Records)
  BY DEF IInv, TypeOK, Filled, Pending
<1>4. file[t] \o Pending(t) \in Seq(Records)
  BY <1>1, <1>3, ConcatProperties DEF TypeOK
<1>5. file' \in [Tids -> Seq(Records)]
  <2>1. file \in [Tids -> Seq(Records)]
    BY <1>1 DEF TypeOK
  <2>2. file' = [file EXCEPT ![t] = file[t] \o Pending(t)] \/ file' = file
    BY Zenon DEF FlushWrite
  <2> QED
    BY <1>4, <2>1, <2>2
<1>6. cur' \in [Tids -> Nat] /\ \A r \in Tids : (cur'[r] = cur[r] \/ cur'[r] = 0)
  <2>1. cur' = cur \/ cur' = [cur EXCEPT ![t] = 0]
    BY DEF FlushWrite
  <2>2. cur \in [Tids -> Nat]
    BY <1>1 DEF TypeOK
  <2> QED
    BY <2>1, <2>2
<1>7. UNCHANGED <<clock, nodeVars, usesMPI, defs, flag, edf, init, buf, opened, todo,
                  triggered, exiting>>
  BY DEF FlushWrite
<1>8. TypeOK'
  BY <1>1, <1>2, <1>5, <1>6, <1>7 DEF TypeOK
<1>9. Filled'
  <2>1. \A r \in Tids : Len(buf[r]) \in Nat /\ buf'[r] = buf[r]
    BY <1>1, <1>7 DEF TypeOK
  <2> QED
    BY <1>6, <2>1 DEF IInv, Filled
<1> QED
  BY <1>8, <1>9 DEF IInv

LEMMA FlushMarkIInv ==
    ASSUME IInv, NEW t \in Tids, FlushMark(t)
    PROVE  IInv'
<1>1. TypeOK /\ buf[t] \in Seq(Records) /\ cur[t] \in Nat /\ cur[t] <= Len(buf[t])
  BY DEF IInv, TypeOK, Filled
<1> DEFINE rs == <<Record("FLUSH", 0, flush[t].nid)>>
<1>2. rs \in Seq(Records) /\ Len(rs) = 1
  <2>1. Record("FLUSH", 0, flush[t].nid) \in Records
    BY <1>1, RecordType DEF TypeOK, Marks
  <2> QED
    BY <2>1
<1>3. buf' = [buf EXCEPT ![t] = Written(@, cur[t], rs)]
  BY DEF FlushMark
<1> HIDE DEF rs
<1>4. /\ Written(buf[t], cur[t], rs) \in Seq(Records)
      /\ cur[t] + 1 <= Len(Written(buf[t], cur[t], rs))
  BY <1>1, <1>2, WrittenProperties
<1>5. /\ buf' \in [Tids -> Seq(Records)]
      /\ cur[t] + 1 <= Len(buf'[t])
      /\ \A r \in Tids \ {t} : buf'[r] = buf[r]
  BY <1>1, <1>3, <1>4 DEF TypeOK
<1>6. cur' \in [Tids -> Nat] /\ cur'[t] = cur[t] + 1
      /\ \A r \in Tids \ {t} : cur'[r] = cur[r]
  BY <1>1 DEF FlushMark, TypeOK
<1>7. flush' \in [Tids -> [stage : Stages, marked : BOOLEAN, nid : Int]]
  BY <1>1 DEF FlushMark, TypeOK, NoFlush, Stages
<1>8. UNCHANGED <<clock, nodeVars, usesMPI, defs, flag, edf, init, file, opened, todo,
                  triggered, exiting>>
  BY DEF FlushMark
<1>9. TypeOK'
  BY <1>1, <1>5, <1>6, <1>7, <1>8 DEF TypeOK
<1>10. Filled'
  BY <1>5, <1>6 DEF IInv, Filled
<1> QED
  BY <1>9, <1>10 DEF IInv

LEMMA CloseIInv ==
    ASSUME IInv, NEW t \in Tids, Close(t)
    PROVE  IInv'
<1>1. /\ TraceEvent("CLOSE", 0) \in CallRecords /\ TraceEvent("WALL_CLOCK", 0) \in CallRecords
      /\ Call("DumpEDF", "CLOSE", 0, -1) \in CallRecords
      /\ Call("Flush", "CLOSE", 0, -1) \in CallRecords
  BY CallType DEF TraceEvent, Calls, Marks
<1>2. PICK cs \in Seq(CallRecords) : todo' = [todo EXCEPT ![t] = cs]
  <2> DEFINE c == TraceEvent("CLOSE", 0)
             w == TraceEvent("WALL_CLOCK", 0)
             d == Call("DumpEDF", "CLOSE", 0, -1)
             f == Call("Flush", "CLOSE", 0, -1)
  <2>1. c \in CallRecords /\ w \in CallRecords /\ d \in CallRecords /\ f \in CallRecords
    BY <1>1
  <2>2. todo' = [todo EXCEPT ![t] = <<c, w, d, f>>]
    BY DEF Close
  <2> HIDE DEF c, w, d, f
  <2>3. <<c, w, d, f>> \in Seq(CallRecords)
    BY <2>1
  <2> QED
    BY <2>2, <2>3
<1>3. todo' \in [Tids -> Seq(CallRecords)]
  BY <1>2 DEF IInv, TypeOK, CallRecords
<1>4. exiting' \in BOOLEAN
  BY DEF Close
<1>5. UNCHANGED <<clock, nodeVars, usesMPI, defs, flag, edf, init, buf, cur, file,
                  opened, flush, triggered>>
  BY DEF Close
<1> QED
  BY <1>3, <1>4, <1>5 DEF IInv, TypeOK, Filled, CallRecords

LEMMA DoDumpEDFIInv ==
    ASSUME IInv, NEW t \in Tids, DoDumpEDF(t)
    PROVE  IInv'
<1>1. todo' \in [Tids -> Seq(CallRecords)]
  BY DoingProperties, ThenNothing DEF IInv, DoDumpEDF
<1>2. edf' \in [NodeNumbers -> SUBSET AppEvents]
  BY DumpEDFType DEF IInv, DoDumpEDF
<1> QED
  BY <1>1, <1>2 DEF IInv, TypeOK, Filled, CallRecords, DoDumpEDF

LEMMA DoFlushIInv ==
    ASSUME IInv, NEW t \in Tids, DoFlush(t)
    PROVE  IInv'
<1>1. todo' \in [Tids -> Seq(CallRecords)]
  BY DoingProperties, ThenNothing DEF IInv, DoFlush
<1>2. [NoFlush EXCEPT !.stage = "begin"] \in [stage : Stages, marked : BOOLEAN, nid : Int]
  <2>1. \A f \in [stage : Stages, marked : BOOLEAN, nid : Int], s \in Stages :
           [f EXCEPT !.stage = s] \in [stage : Stages, marked : BOOLEAN, nid : Int]
    OBVIOUS
  <2>2. NoFlush \in [stage : Stages, marked : BOOLEAN, nid : Int] /\ "begin" \in Stages
    BY DEF NoFlush, Stages
  <2> QED
    BY <2>1, <2>2
<1>3. flush' \in [Tids -> [stage : Stages, marked : BOOLEAN, nid : Int]]
  BY <1>2 DEF IInv, TypeOK, DoFlush
<1> QED
  BY <1>1, <1>3 DEF IInv, TypeOK, Filled, CallRecords, DoFlush

LEMMA NextIInv ==
    IInv /\ [Next]_vars => IInv'
<1> SUFFICES ASSUME IInv, [Next]_vars PROVE IInv'
  OBVIOUS
<1>1. ASSUME NEW t \in Tids, NEW e \in Funcs \cup Users, Register(t, e) \/ Trigger(t, e)
      PROVE  IInv'
  BY <1>1, RegisterIInv, TriggerIInv
<1>2. ASSUME NEW t \in Tids, CallStep(t) PROVE IInv'
  BY <1>2, DoTraceEventIInv, DoEventWithNodeIdIInv, DoFixIInv, DoRecordIInv, DoDumpEDFIInv,
     DoFlushIInv DEF CallStep
<1>3. ASSUME NEW t \in Tids, FlushStep(t) PROVE IInv'
  BY <1>3, FlushBeginIInv, FlushDumpIInv, FlushClearIInv, FlushWriteIInv, FlushMarkIInv
     DEF FlushStep
<1>4. ASSUME NEW t \in Tids, Close(t) PROVE IInv'
  BY <1>4, CloseIInv
<1>5. ASSUME NEW n \in Nodes, SetNode(n) PROVE IInv'
  BY <1>5, SetNodeIInv
<1>6. CASE Tick
  <2>1. clock' \in Nat \ {0}
    BY <1>6 DEF Tick, IInv, TypeOK
  <2> QED
    BY <1>6, <2>1 DEF Tick, IInv, TypeOK, Filled
<1>7. CASE Finished \/ UNCHANGED vars
  BY <1>7 DEF Finished, vars, IInv, TypeOK, Filled
<1> QED
  BY <1>1, <1>2, <1>3, <1>4, <1>5, <1>6, <1>7 DEF Next

\* The tracer's state keeps its types, and every buffer holds the records that
\* its thread counts.
THEOREM TypeCorrect == Spec => []TypeOK
<1>1. Init => IInv
  BY InitIInv
<1>2. IInv /\ [Next]_vars => IInv'
  BY NextIInv
<1>3. IInv => TypeOK
  BY DEF IInv
<1> QED
  BY <1>1, <1>2, <1>3, PTL DEF Spec

-----------------------------------------------------------------------------
(* Bounds.                                                                 *)

\* The room left in the buffers.  Between events there is room for an event and
\* for the FLUSH record that may follow it, with one to spare; a flush that has
\* not written the buffer yet has used up one or two of these.
Room ==
    /\ usesMPI
    /\ \A t \in Tids :
          /\ flush[t].stage = "no" => cur[t] <= MaxRecords - 3
          /\ flush[t].stage = "mark" => cur[t] = 0
          /\ cur[t] <= MaxRecords - 1

LEMMA RecordRoom ==
    ASSUME IInv, Room, NEW t \in Tids, DoRecord(t)
    PROVE  Room'
<1>1. PICK n \in 1 .. 3 : Wrote(t, n)
  BY DoRecordProperties
<1>2. cur[t] \in Nat /\ cur[t] <= MaxRecords - 3 /\ MaxRecords \in Nat /\ MaxRecords >= 5
  BY DoingProperties, TracerAssumption DEF IInv, Room, DoRecord, TypeOK
<1>3. cur'[t] = cur[t] + n /\ \A r \in Tids \ {t} : cur'[r] = cur[r] /\ flush'[r] = flush[r]
  BY <1>1 DEF IInv, TypeOK, Wrote
<1>4. \/ cur'[t] <= MaxRecords - 3 /\ flush'[t].stage = "no"
      \/ cur'[t] <= MaxRecords - 1 /\ flush'[t].stage = "begin"
  <2>1. CASE ~Full(cur[t] + n) /\ UNCHANGED flush
    <3>1. flush[t].stage = "no"
      BY DoingProperties DEF IInv, DoRecord
    <3> QED
      BY <1>2, <1>3, <2>1, <3>1 DEF Full
  <2>2. CASE /\ Full(cur[t] + n - 1)
             /\ n = 2 \/ (n = 3 /\ cur[t] = 0)
             /\ \E nid \in Int : flush' = [flush EXCEPT ![t] = [stage |-> "begin",
                                                               marked |-> TRUE, nid |-> nid]]
    <3>1. cur[t] + n <= MaxRecords - 1
      BY <1>2, <2>2
    <3>2. flush'[t].stage = "begin"
      BY <2>2 DEF IInv, TypeOK
    <3> QED
      BY <1>3, <3>1, <3>2
  <2> QED
    BY <1>1, <2>1, <2>2 DEF Wrote
<1>5. usesMPI'
  BY DEF Room, DoRecord
<1> QED
  BY <1>2, <1>3, <1>4, <1>5 DEF Room

LEMMA FlushRoom ==
    ASSUME IInv, Room, NEW t \in Tids, FlushStep(t)
    PROVE  Room'
<1>0. MaxRecords \in Nat /\ MaxRecords >= 5 /\ TypeOK
  BY TracerAssumption DEF IInv
<1>1. CASE FlushBegin(t) \/ FlushDump(t) \/ FlushClear(t)
  <2>1. UNCHANGED <<cur, usesMPI>> /\ flush'[t].stage \in {"dump", "clear", "write"}
        /\ \A r \in Tids \ {t} : flush'[r] = flush[r]
    BY <1>0, <1>1 DEF FlushBegin, FlushDump, FlushClear, TypeOK
  <2> QED
    BY <2>1 DEF Room
<1>2. CASE FlushWrite(t)
  <2>1. cur'[t] = 0 /\ \A r \in Tids \ {t} : cur'[r] = cur[r] /\ flush'[r] = flush[r]
    BY <1>0, <1>2 DEF FlushWrite, Room, TypeOK
  <2> QED
    BY <1>0, <1>2, <2>1 DEF Room, FlushWrite
<1>3. CASE FlushMark(t)
  <2>1. cur'[t] = 1 /\ flush'[t].stage = "no"
        /\ \A r \in Tids \ {t} : cur'[r] = cur[r] /\ flush'[r] = flush[r]
    BY <1>0, <1>3 DEF FlushMark, Room, TypeOK, NoFlush
  <2> QED
    BY <1>0, <1>3, <2>1 DEF Room, FlushMark
<1> QED
  BY <1>1, <1>2, <1>3 DEF FlushStep

LEMMA NextRoom ==
    IInv /\ Room /\ [Next]_vars => Room'
<1> SUFFICES ASSUME IInv, Room, [Next]_vars PROVE Room'
  OBVIOUS
<1>1. ASSUME NEW t \in Tids, NEW e \in Funcs \cup Users,
             Register(t, e) \/ Trigger(t, e) \/ Close(t)
      PROVE  Room'
  BY <1>1 DEF Register, Trigger, Close, Room
<1>2. ASSUME NEW t \in Tids, CallStep(t) PROVE Room'
  <2>1. CASE DoTraceEvent(t) \/ DoEventWithNodeId(t) \/ DoFix(t) \/ DoDumpEDF(t)
    BY <2>1 DEF DoTraceEvent, DoEventWithNodeId, DoFix, DoDumpEDF, Room
  <2>2. CASE DoRecord(t)
    BY <2>2, RecordRoom
  <2>3. CASE DoFlush(t)
    <3>1. UNCHANGED <<cur, usesMPI>> /\ flush'[t].stage = "begin"
          /\ \A r \in Tids \ {t} : flush'[r] = flush[r]
      BY <2>3 DEF DoFlush, NoFlush, IInv, TypeOK
    <3> QED
      BY <3>1 DEF Room
  <2> QED
    BY <1>2, <2>1, <2>2, <2>3 DEF CallStep
<1>3. ASSUME NEW t \in Tids, FlushStep(t) PROVE Room'
  BY <1>3, FlushRoom
<1>4. ASSUME NEW t \in Tids, Close(t) PROVE Room'
  BY <1>4 DEF Close, Room
<1>5. ASSUME NEW n \in Nodes, SetNode(n) PROVE Room'
  BY <1>5 DEF SetNode, Room
<1>6. CASE Tick \/ Finished \/ UNCHANGED vars
  BY <1>6 DEF Tick, Finished, vars, Room
<1> QED
  BY <1>1, <1>2, <1>3, <1>4, <1>5, <1>6 DEF Next

\* In a build without MPI no record is ever written outside its buffer: the two
\* records kept back by the flush threshold are enough for the FLUSH records
\* and those the tracer adds itself, for any number of threads and records.
THEOREM StaysInBounds == ~MpiBuild => (Spec => []InBounds)
<1> SUFFICES ASSUME ~MpiBuild PROVE Spec => []InBounds
  OBVIOUS
<1>1. Init => IInv /\ Room
  <2> SUFFICES ASSUME Init PROVE IInv /\ Room
    OBVIOUS
  <2>1. IInv
    BY InitIInv
  <2>2. Room
    <3>1. usesMPI
      BY DEF Init
    <3>2. \A t \in Tids : cur[t] = 0 /\ flush[t].stage = "no"
      BY DEF Init, NoFlush
    <3> QED
      BY <3>1, <3>2, TracerAssumption DEF Room
  <2> QED
    BY <2>1, <2>2
<1>2. IInv /\ Room /\ [Next]_vars => IInv' /\ Room'
  BY NextIInv, NextRoom
<1>3. IInv /\ Room => InBounds
  BY TracerAssumption DEF IInv, TypeOK, Room, InBounds
<1> QED
  BY <1>1, <1>2, <1>3, PTL DEF Spec

-----------------------------------------------------------------------------
(* Definitions.                                                            *)

\* What is recorded or about to be is an event that has been registered, or a
\* mark of the tracer.
KnownEvents == defs \cup Marks
KnownRecords == {r \in Records : r.ev \in KnownEvents}
KnownCalls == {c \in CallRecords : c.ev \in KnownEvents}

\* All of this is so in the trace and in the calls of thread t...
KnownOf(t) == /\ buf[t] \in Seq(KnownRecords)
              /\ file[t] \in Seq(KnownRecords)
              /\ todo[t] \in Seq(KnownCalls)

\* ... and the events of the counters are registered.
Known == /\ \A i \in 1 .. Len(Counters) : Counters[i] \in defs
         /\ \A t \in Tids : KnownOf(t)

\* The other threads' traces, and the definitions, do not change.
OthersKeep(t) == /\ UNCHANGED defs
                 /\ \A r \in Tids \ {t} : UNCHANGED <<buf[r], file[r], todo[r]>>

\* The first call has been replaced by known ones.
LEMMA ThenKnown ==
    ASSUME IInv, Known, NEW t \in Tids, todo[t] # <<>>,
           NEW cs \in Seq(KnownCalls), Then(t, cs)
    PROVE  /\ todo'[t] \in Seq(KnownCalls)
           /\ \A r \in Tids \ {t} : todo'[r] = todo[r]
<1>1. todo[t] \in Seq(KnownCalls) /\ todo \in [Tids -> Seq(CallRecords)]
  BY DEF Known, KnownOf, IInv, TypeOK, CallRecords
<1>2. Tail(todo[t]) \in Seq(KnownCalls)
  BY <1>1, HeadTailProperties
<1>3. cs \o Tail(todo[t]) \in Seq(KnownCalls)
  BY <1>2, ConcatProperties
<1> QED
  BY <1>1, <1>3 DEF Then

LEMMA ThenNothingKnown ==
    ASSUME IInv, Known, NEW t \in Tids, todo[t] # <<>>, Then(t, <<>>)
    PROVE  /\ todo'[t] \in Seq(KnownCalls)
           /\ \A r \in Tids \ {t} : todo'[r] = todo[r]
<1> DEFINE cs == <<>>
<1>1. cs \in Seq(KnownCalls) /\ Then(t, cs)
  OBVIOUS
<1> HIDE DEF cs
<1> QED
  BY <1>1, ThenKnown

LEMMA HeadKnown ==
    ASSUME IInv, Known, NEW t \in Tids, NEW do, Doing(t, do)
    PROVE  todo[t] # <<>> /\ Head(todo[t]) \in KnownCalls
<1>1. todo[t] \in Seq(KnownCalls) /\ todo[t] # <<>>
  BY DEF Known, KnownOf, Doing
<1> QED
  BY <1>1, HeadTailProperties

LEMMA TraceInitKnown ==
    ASSUME IInv, Known, NEW t \in Tids, NEW n \in Int, TraceInit(t, n)
    PROVE  /\ buf'[t] \in Seq(KnownRecords)
           /\ \A r \in Tids \ {t} : buf'[r] = buf[r]
<1>0. buf[t] \in Seq(KnownRecords) /\ buf \in [Tids -> Seq(Records)]
  BY DEF Known, KnownOf, IInv, TypeOK
<1>1. CASE init[t] \/ n = -1
  BY <1>0, <1>1 DEF TraceInit
<1>2. CASE ~(init[t] \/ n = -1)
  <2> DEFINE c == [i \in 1 .. Len(buf[t]) |-> IF FirstRecordIsInit(t) /\ i <= cur[t]
                                             THEN [buf[t][i] EXCEPT !.nid = n] ELSE buf[t][i]]
  <2>1. buf' = [buf EXCEPT ![t] = c]
    BY <1>2 DEF TraceInit
  <2>2. \A i \in 1 .. Len(buf[t]) : c[i] \in KnownRecords
    <3>1. \A r \in KnownRecords : [r EXCEPT !.nid = n] \in KnownRecords
      BY DEF KnownRecords, Records
    <3> QED
      BY <1>0, <3>1, ElementOfSeq
  <2>3. c = [i \in 1 .. Len(buf[t]) |-> c[i]]
    OBVIOUS
  <2> HIDE DEF c
  <2>4. c \in Seq(KnownRecords)
    BY <1>0, <2>2, <2>3, MapProperties
  <2> QED
    BY <1>0, <2>1, <2>4
<1> QED
  BY <1>1, <1>2

LEMMA CreatedKnown ==
    ASSUME TypeOK, NEW t \in Tids, NEW n \in Int
    PROVE  Created(t, n) \in Seq(KnownCalls)
<1>1. \A ev \in Marks : Call("Record", ev, 0, n) \in KnownCalls
  BY DEF Call, CallRecords, Calls, KnownCalls, KnownEvents
<1>2. /\ Call("Record", "EV_INIT", 0, n) \in KnownCalls
      /\ Call("Record", "WALL_CLOCK", 0, n) \in KnownCalls
  BY <1>1 DEF Marks
<1> QED
  BY <1>2 DEF Created

\* Writing known records leaves a buffer of known records.
LEMMA WrittenKnown ==
    ASSUME IInv, Known, NEW t \in Tids, NEW rs \in Seq(KnownRecords),
           buf' = [buf EXCEPT ![t] = Written(@, cur[t], rs)]
    PROVE  /\ buf'[t] \in Seq(KnownRecords)
           /\ \A r \in Tids \ {t} : buf'[r] = buf[r]
<1>1. buf[t] \in Seq(KnownRecords) /\ cur[t] \in Nat /\ cur[t] <= Len(buf[t])
      /\ buf \in [Tids -> Seq(Records)]
  BY DEF Known, KnownOf, IInv, TypeOK, Filled
<1>2. Written(buf[t], cur[t], rs) \in Seq(KnownRecords)
  BY <1>1, WrittenProperties
<1> QED
  BY <1>1, <1>2

LEMMA RecordKnown ==
    ASSUME TypeOK, NEW ev \in KnownEvents, NEW ts \in Nat, NEW nid \in Int
    PROVE  Record(ev, ts, nid) \in KnownRecords
<1>1. ev \in AppEvents \cup Marks
  BY DEF TypeOK, KnownEvents
<1> QED
  BY <1>1 DEF TypeOK, Record, Records, KnownRecords

LEMMA TriggerKnown ==
    ASSUME IInv, Known, NEW t \in Tids, NEW e \in Funcs \cup Users, Trigger(t, e)
    PROVE  KnownOf(t)' /\ OthersKeep(t)
<1>1. TypeOK /\ e \in defs /\ clock \in Nat /\ defs \subseteq AppEvents
  BY DEF IInv, TypeOK, Trigger
<1>2. \A a \in defs, ts \in Nat : TraceEvent(a, ts) \in KnownCalls
  BY <1>1 DEF TraceEvent, Call, CallRecords, Calls, KnownCalls, KnownEvents
<1>3. Traced(e) \in Seq(KnownCalls)
  <2>1. CASE e \in Users
    BY <1>1, <1>2, <2>1 DEF Traced
  <2>2. CASE e \notin Users
    <3>1. PICK n \in Nat : n = Len(Counters)
      BY TracerAssumption
    <3> DEFINE cs == [i \in 1 .. n |-> TraceEvent(Counters[i], clock)]
    <3>2. cs \in [1 .. n -> KnownCalls]
      BY <1>1, <1>2, <3>1 DEF Known
    <3>3. \A r \in [1 .. n -> KnownCalls] : r \in Seq(KnownCalls)
      OBVIOUS
    <3>4. <<TraceEvent(e, clock)>> \in Seq(KnownCalls) /\ cs \in Seq(KnownCalls)
      BY <1>1, <1>2, <3>2, <3>3
    <3> HIDE DEF cs
    <3>5. <<TraceEvent(e, clock)>> \o cs \in Seq(KnownCalls)
      BY <3>4, ConcatProperties
    <3> QED
      BY <2>2, <3>1, <3>5 DEF Traced, cs
  <2> QED
    BY <2>1, <2>2
<1>4. todo' = [todo EXCEPT ![t] = Traced(e)] /\ UNCHANGED <<defs, buf, file>>
  BY DEF Trigger
<1>5. todo'[t] = Traced(e) /\ \A r \in Tids \ {t} : todo'[r] = todo[r]
  BY <1>1, <1>4 DEF TypeOK
<1> QED
  BY <1>3, <1>4, <1>5 DEF Known, KnownOf, KnownRecords, KnownCalls, KnownEvents, OthersKeep

LEMMA DoTraceEventKnown ==
    ASSUME IInv, Known, NEW t \in Tids, DoTraceEvent(t)
    PROVE  KnownOf(t)' /\ OthersKeep(t)
<1>1. todo[t] # <<>> /\ Head(todo[t]) \in KnownCalls /\ node \in Int
  BY HeadKnown, NodeNumbersAreInt DEF DoTraceEvent, IInv, TypeOK
<1> DEFINE c == [Head(todo[t]) EXCEPT !.do = "EventWithNodeId", !.nid = node]
           cs == <<c>>
<1>2. c \in KnownCalls
  <2>1. \A r \in KnownCalls, n \in Int :
           [r EXCEPT !.do = "EventWithNodeId", !.nid = n] \in KnownCalls
    BY DEF CallRecords, Calls, KnownCalls
  <2> QED
    BY <1>1, <2>1
<1>3. Then(t, cs)
  BY DEF DoTraceEvent
<1> HIDE DEF c
<1>4. cs \in Seq(KnownCalls)
  BY <1>2
<1> HIDE DEF cs
<1>5. todo'[t] \in Seq(KnownCalls) /\ \A r \in Tids \ {t} : todo'[r] = todo[r]
  BY <1>1, <1>3, <1>4, ThenKnown
<1>6. UNCHANGED <<defs, buf, file>>
  BY DEF DoTraceEvent
<1> QED
  BY <1>5, <1>6 DEF Known, KnownOf, KnownRecords, KnownCalls, KnownEvents, OthersKeep

LEMMA DoEventWithNodeIdKnown ==
    ASSUME IInv, Known, NEW t \in Tids, DoEventWithNodeId(t)
    PROVE  KnownOf(t)' /\ OthersKeep(t)
<1> DEFINE c == Head(todo[t])
           created == Created(t, node)
           fix == IF created # <<>> /\ c.ts # 0 THEN <<Fix(Len(created), c.ts)>> ELSE <<>>
           last == <<[c EXCEPT !.do = "Record"]>>
<1>1. TypeOK /\ todo[t] # <<>> /\ c \in KnownCalls /\ node \in Int
  BY HeadKnown, NodeNumbersAreInt DEF IInv, DoEventWithNodeId, TypeOK
<1>2. created \in Seq(KnownCalls)
  BY <1>1, CreatedKnown
<1>3. fix \in Seq(KnownCalls)
  <2>1. Len(created) \in Nat /\ c.ts \in Nat
    BY <1>1, <1>2 DEF CallRecords, KnownCalls
  <2>2. Fix(Len(created), c.ts) \in KnownCalls
    BY <2>1 DEF Fix, Call, CallRecords, Calls, Marks, KnownCalls, KnownEvents
  <2> QED
    BY <2>2
<1>4. last \in Seq(KnownCalls)
  BY <1>1 DEF CallRecords, Calls, KnownCalls
<1>5. Then(t, created \o fix \o last) /\ TraceInit(t, node) /\ UNCHANGED <<defs, file>>
  BY DEF DoEventWithNodeId
<1> HIDE DEF created, fix, last
<1>6. created \o fix \o last \in Seq(KnownCalls)
  BY <1>2, <1>3, <1>4, ConcatProperties
<1>7. todo'[t] \in Seq(KnownCalls) /\ \A r \in Tids \ {t} : todo'[r] = todo[r]
  BY <1>1, <1>5, <1>6, ThenKnown
<1>8. buf'[t] \in Seq(KnownRecords) /\ \A r \in Tids \ {t} : buf'[r] = buf[r]
  BY <1>1, <1>5, TraceInitKnown
<1> QED
  BY <1>5, <1>7, <1>8 DEF Known, KnownOf, KnownRecords, KnownCalls, KnownEvents, OthersKeep

LEMMA SetNodeKnown ==
    ASSUME IInv, Known, NEW n \in Nodes, SetNode(n)
    PROVE  KnownOf(0)' /\ OthersKeep(0)
<1>1. 0 \in Tids /\ n \in Int /\ TypeOK
  BY TracerAssumption DEF IInv, Tids
<1>2. /\ TraceInit(0, n) /\ todo' = [todo EXCEPT ![0] = Created(0, n)]
      /\ UNCHANGED <<defs, file>>
  BY DEF SetNode
<1>3. todo'[0] \in Seq(KnownCalls) /\ \A r \in Tids \ {0} : todo'[r] = todo[r]
  BY <1>1, <1>2, CreatedKnown DEF TypeOK
<1>4. buf'[0] \in Seq(KnownRecords) /\ \A r \in Tids \ {0} : buf'[r] = buf[r]
  BY <1>1, <1>2, TraceInitKnown
<1> QED
  BY <1>1, <1>2, <1>3, <1>4 DEF Known, KnownOf, KnownRecords, KnownCalls, KnownEvents, OthersKeep

LEMMA DoFixKnown ==
    ASSUME IInv, Known, NEW t \in Tids, DoFix(t)
    PROVE  KnownOf(t)' /\ OthersKeep(t)
<1> DEFINE c == Head(todo[t])
           b == [i \in 1 .. Len(buf[t]) |-> IF i \in cur[t] - c.n + 1 .. cur[t]
                                            THEN [buf[t][i] EXCEPT !.ts = c.ts] ELSE buf[t][i]]
<1>1. /\ todo[t] # <<>> /\ c \in KnownCalls
      /\ buf[t] \in Seq(KnownRecords) /\ buf \in [Tids -> Seq(Records)]
  BY HeadKnown DEF IInv, DoFix, TypeOK, Known, KnownOf
<1>2. \A i \in 1 .. Len(buf[t]) : b[i] \in KnownRecords
  <2>1. \A r \in KnownRecords : [r EXCEPT !.ts = c.ts] \in KnownRecords
    BY <1>1 DEF Records, CallRecords, KnownRecords, KnownCalls
  <2> QED
    BY <1>1, <2>1, ElementOfSeq
<1>3. b = [i \in 1 .. Len(buf[t]) |-> b[i]]
  OBVIOUS
<1>4. buf' = [buf EXCEPT ![t] = b] /\ Then(t, <<>>) /\ UNCHANGED <<defs, file>>
  BY DEF DoFix
<1> HIDE DEF b, c
<1>5. b \in Seq(KnownRecords)
  BY <1>1, <1>2, <1>3, MapProperties
<1>6. buf'[t] \in Seq(KnownRecords) /\ \A r \in Tids \ {t} : buf'[r] = buf[r]
  BY <1>1, <1>4, <1>5
<1>7. todo'[t] \in Seq(KnownCalls) /\ \A r \in Tids \ {t} : todo'[r] = todo[r]
  BY <1>1, <1>4, ThenNothingKnown
<1> QED
  BY <1>4, <1>6, <1>7 DEF Known, KnownOf, KnownRecords, KnownCalls, KnownEvents, OthersKeep

LEMMA DoRecordKnown ==
    ASSUME IInv, Known, NEW t \in Tids, DoRecord(t)
    PROVE  KnownOf(t)' /\ OthersKeep(t)
<1> DEFINE c == Head(todo[t])
           new == NewRecords(t, c)
           mark == IF Full(cur[t] + Len(new)) THEN <<Record("FLUSH", c.ts, c.nid)>> ELSE <<>>
           rs == new \o mark
<1>1. TypeOK /\ todo[t] # <<>> /\ c \in KnownCalls
  BY HeadKnown DEF IInv, DoRecord
<1>2. c.ev \in KnownEvents /\ c.ts \in Nat /\ c.nid \in Int /\ node \in Int
  BY <1>1, NodeNumbersAreInt DEF KnownCalls, CallRecords, TypeOK
<1>3. /\ Record(c.ev, c.ts, c.nid) \in KnownRecords
      /\ Record("EV_INIT", c.ts, node) \in KnownRecords
      /\ Record("FLUSH", c.ts, c.nid) \in KnownRecords
  BY <1>1, <1>2, RecordKnown DEF KnownEvents, Marks
<1>4. new \in Seq(KnownRecords)
  BY <1>3 DEF NewRecords
<1>5. mark \in Seq(KnownRecords)
  BY <1>3
<1>6. /\ buf' = [buf EXCEPT ![t] = Written(@, cur[t], rs)]
      /\ Then(t, <<>>) /\ UNCHANGED <<defs, file>>
  BY DEF DoRecord
<1> HIDE DEF new, mark
<1>7. rs \in Seq(KnownRecords)
  BY <1>4, <1>5, ConcatProperties
<1> HIDE DEF rs
<1>8. buf'[t] \in Seq(KnownRecords) /\ \A r \in Tids \ {t} : buf'[r] = buf[r]
  BY <1>6, <1>7, WrittenKnown
<1>9. todo'[t] \in Seq(KnownCalls) /\ \A r \in Tids \ {t} : todo'[r] = todo[r]
  BY <1>1, <1>6, ThenNothingKnown
<1> QED
  BY <1>6, <1>8, <1>9 DEF Known, KnownOf, KnownRecords, KnownCalls, KnownEvents, OthersKeep

LEMMA FlushBeginKnown ==
    ASSUME IInv, Known, NEW t \in Tids, FlushBegin(t)
    PROVE  KnownOf(t)' /\ OthersKeep(t)
<1>1. /\ buf[t] \in Seq(KnownRecords) /\ buf \in [Tids -> Seq(Records)] /\ node \in Int
      /\ buf' = [buf EXCEPT ![t] = Renamed(t)] /\ UNCHANGED <<defs, file, todo>>
  BY NodeNumbersAreInt DEF IInv, TypeOK, Known, KnownOf, FlushBegin
<1>2. Renamed(t) \in Seq(KnownRecords)
  <2> DEFINE Old == opened[t] # NotOpen \/ ~FirstRecordIsInit(t) \/ node <= 0
             Mine(i) == /\ i <= cur[t] /\ buf[t][i].nid = 0
                        /\ \A j \in 1 .. i : buf[t][j].nid <= 0
             b == [i \in 1 .. Len(buf[t]) |->
                     IF Mine(i) THEN [buf[t][i] EXCEPT !.nid = node] ELSE buf[t][i]]
  <2>1. CASE Old
    BY <1>1, <2>1 DEF Renamed
  <2>2. CASE ~Old
    <3>1. \A i \in 1 .. Len(buf[t]) : b[i] \in KnownRecords
      <4>1. \A r \in KnownRecords : [r EXCEPT !.nid = node] \in KnownRecords
        BY <1>1 DEF Records, KnownRecords
      <4> HIDE DEF Mine
      <4> QED
        BY <1>1, <4>1, ElementOfSeq
    <3>2. b = [i \in 1 .. Len(buf[t]) |-> b[i]]
      OBVIOUS
    <3>3. Renamed(t) = b
      BY <2>2 DEF Renamed
    <3> HIDE DEF b
    <3>4. b \in Seq(KnownRecords)
      BY <1>1, <3>1, <3>2, MapProperties
    <3> QED
      BY <3>3, <3>4
  <2> QED
    BY <2>1, <2>2
<1>3. buf'[t] \in Seq(KnownRecords) /\ \A r \in Tids \ {t} : buf'[r] = buf[r]
  BY <1>1, <1>2
<1> QED
  BY <1>1, <1>3 DEF Known, KnownOf, KnownRecords, KnownCalls, KnownEvents, OthersKeep

LEMMA FlushWriteKnown ==
    ASSUME IInv, Known, NEW t \in Tids, FlushWrite(t)
    PROVE  KnownOf(t)' /\ OthersKeep(t)
<1>1. /\ buf[t] \in Seq(KnownRecords) /\ file[t] \in Seq(KnownRecords)
      /\ file \in [Tids -> Seq(Records)] /\ cur[t] \in Nat /\ cur[t] <= Len(buf[t])
  BY DEF IInv, TypeOK, Known, KnownOf, Filled
<1>2. Pending(t) \in Seq(KnownRecords)
  BY <1>1 DEF Pending
<1>3. file[t] \o Pending(t) \in Seq(KnownRecords)
  BY <1>1, <1>2, ConcatProperties
<1>4. /\ file' = file \/ file' = [file EXCEPT ![t] = file[t] \o Pending(t)]
      /\ UNCHANGED <<defs, buf, todo>>
  BY DEF FlushWrite
<1>5. file'[t] \in Seq(KnownRecords) /\ \A r \in Tids \ {t} : file'[r] = file[r]
  BY <1>1, <1>3, <1>4
<1> QED
  BY <1>4, <1>5 DEF Known, KnownOf, KnownRecords, KnownCalls, KnownEvents, OthersKeep

LEMMA FlushMarkKnown ==
    ASSUME IInv, Known, NEW t \in Tids, FlushMark(t)
    PROVE  KnownOf(t)' /\ OthersKeep(t)
<1> DEFINE rs == <<Record("FLUSH", 0, flush[t].nid)>>
<1>1. TypeOK /\ flush[t].nid \in Int
  BY DEF IInv, TypeOK
<1>2. rs \in Seq(KnownRecords)
  <2>1. Record("FLUSH", 0, flush[t].nid) \in KnownRecords
    BY <1>1, RecordKnown DEF KnownEvents, Marks
  <2> QED
    BY <2>1
<1>3. buf' = [buf EXCEPT ![t] = Written(@, cur[t], rs)] /\ UNCHANGED <<defs, file, todo>>
  BY DEF FlushMark
<1> HIDE DEF rs
<1>4. buf'[t] \in Seq(KnownRecords) /\ \A r \in Tids \ {t} : buf'[r] = buf[r]
  BY <1>2, <1>3, WrittenKnown
<1> QED
  BY <1>3, <1>4 DEF Known, KnownOf, KnownRecords, KnownCalls, KnownEvents, OthersKeep

LEMMA CloseKnown ==
    ASSUME IInv, Known, NEW t \in Tids, Close(t)
    PROVE  KnownOf(t)' /\ OthersKeep(t)
<1> DEFINE c == TraceEvent("CLOSE", 0)
           w == TraceEvent("WALL_CLOCK", 0)
           d == Call("DumpEDF", "CLOSE", 0, -1)
           f == Call("Flush", "CLOSE", 0, -1)
<1>1. c \in KnownCalls /\ w \in KnownCalls /\ d \in KnownCalls /\ f \in KnownCalls
  BY DEF TraceEvent, Call, Calls, Marks, CallRecords, KnownCalls, KnownEvents
<1>2. todo' = [todo EXCEPT ![t] = <<c, w, d, f>>] /\ UNCHANGED <<defs, buf, file>>
  BY DEF Close
<1> HIDE DEF c, w, d, f
<1>3. <<c, w, d, f>> \in Seq(KnownCalls)
  BY <1>1
<1>4. todo'[t] \in Seq(KnownCalls) /\ \A r \in Tids \ {t} : todo'[r] = todo[r]
  BY <1>2, <1>3 DEF IInv, TypeOK
<1> QED
  BY <1>2, <1>4 DEF Known, KnownOf, KnownRecords, KnownCalls, KnownEvents, OthersKeep

LEMMA QuietCallKnown ==
    ASSUME IInv, Known, NEW t \in Tids, DoDumpEDF(t) \/ DoFlush(t)
    PROVE  KnownOf(t)' /\ OthersKeep(t)
<1>1. todo[t] # <<>> /\ Then(t, <<>>) /\ UNCHANGED <<defs, buf, file>>
  BY DEF DoDumpEDF, DoFlush, Doing
<1>2. todo'[t] \in Seq(KnownCalls) /\ \A r \in Tids \ {t} : todo'[r] = todo[r]
  BY <1>1, ThenNothingKnown
<1> QED
  BY <1>1, <1>2 DEF Known, KnownOf, KnownRecords, KnownCalls, KnownEvents, OthersKeep

\* More definitions leave what is known.
LEMMA MoreKnown ==
    ASSUME Known, defs \subseteq defs', UNCHANGED <<buf, file, todo>>
    PROVE  Known'
<1>1. KnownRecords \subseteq KnownRecords' /\ KnownCalls \subseteq KnownCalls'
  BY DEF KnownRecords, KnownCalls, KnownEvents
<1>2. /\ \A s \in Seq(KnownRecords) : s \in Seq(KnownRecords')
      /\ \A s \in Seq(KnownCalls) : s \in Seq(KnownCalls')
  BY <1>1
<1> QED
  BY <1>2 DEF Known, KnownOf

LEMMA OneThreadKnown ==
    ASSUME Known, NEW t \in Tids, KnownOf(t)', OthersKeep(t)
    PROVE  Known'
<1>1. KnownRecords' = KnownRecords /\ KnownCalls' = KnownCalls
  BY DEF KnownRecords, KnownCalls, KnownEvents, OthersKeep
<1>2. \A r \in Tids \ {t} : KnownOf(r)'
  BY <1>1 DEF Known, KnownOf, OthersKeep
<1>3. \A i \in 1 .. Len(Counters) : Counters[i] \in defs'
  BY DEF Known, OthersKeep
<1> QED
  BY <1>2, <1>3 DEF Known

LEMMA InitKnown ==
    ASSUME Init
    PROVE  Known
<1>1. \A t \in Tids : buf[t] = <<>> /\ file[t] = <<>> /\ todo[t] = <<>>
  BY DEF Init
<1>2. <<>> \in Seq(KnownRecords) /\ <<>> \in Seq(KnownCalls)
  OBVIOUS
<1> QED
  BY <1>1, <1>2 DEF Init, Known, KnownOf

LEMMA NextKnown ==
    IInv /\ Known /\ [Next]_vars => Known'
<1> SUFFICES ASSUME IInv, Known, [Next]_vars PROVE Known'
  OBVIOUS
<1>1. ASSUME NEW t \in Tids, NEW e \in Funcs \cup Users, Register(t, e) PROVE Known'
  BY <1>1, MoreKnown DEF Register
<1>2. ASSUME NEW t \in Tids, NEW e \in Funcs \cup Users, Trigger(t, e) PROVE Known'
  BY <1>2, TriggerKnown, OneThreadKnown
<1>3. ASSUME NEW t \in Tids, CallStep(t) PROVE Known'
  BY <1>3, DoTraceEventKnown, DoEventWithNodeIdKnown, DoFixKnown, DoRecordKnown,
     QuietCallKnown, OneThreadKnown DEF CallStep
<1>4. ASSUME NEW t \in Tids, FlushStep(t) PROVE Known'
  <2>1. CASE FlushDump(t) \/ FlushClear(t)
    BY <2>1, MoreKnown DEF FlushDump, FlushClear
  <2>2. CASE FlushBegin(t) \/ FlushWrite(t) \/ FlushMark(t)
    BY <2>2, FlushBeginKnown, FlushWriteKnown, FlushMarkKnown, OneThreadKnown
  <2> QED
    BY <1>4, <2>1, <2>2 DEF FlushStep
<1>5. ASSUME NEW t \in Tids, Close(t) PROVE Known'
  BY <1>5, CloseKnown, OneThreadKnown
<1>6. ASSUME NEW n \in Nodes, SetNode(n) PROVE Known'
  <2>1. 0 \in Tids
    BY TracerAssumption DEF Tids
  <2> QED
    BY <1>6, <2>1, SetNodeKnown, OneThreadKnown
<1>7. CASE Tick \/ Finished \/ UNCHANGED vars
  BY <1>7, MoreKnown DEF Tick, Finished, vars
<1> QED
  BY <1>1, <1>2, <1>3, <1>4, <1>5, <1>6, <1>7 DEF Next

\* Once thread 0 closes its trace the others have nothing left to do, and the
\* definitions will be or have been written for the last time.  Without MPI
\* initialised they are not, but then nothing else is.
\* DumpAhead: the last dump is among the calls that are left to make.
DumpAhead == \E i \in 1 .. Len(todo[0]) : todo[0][i].do = "DumpEDF"

LastDump ==
    /\ ~usesMPI => \A t \in Tids : file[t] = <<>>
    /\ exiting =>
        /\ \A t \in Tids \ {0} : todo[t] = <<>> /\ flush[t].stage = "no"
        /\ DumpAhead \/ (usesMPI => edf[node] = defs)

\* Calls made by another one do not put the last dump out of sight.
LEMMA ThenDumpAhead ==
    ASSUME TypeOK, DumpAhead, NEW cs \in Seq(CallRecords), Then(0, cs),
           todo[0] # <<>>, Head(todo[0]).do # "DumpEDF"
    PROVE  DumpAhead'
<1>1. 0 \in Tids /\ todo[0] \in Seq(CallRecords) /\ Len(cs) \in Nat
  <2>1. 0 \in Tids
    BY TracerAssumption DEF Tids
  <2>2. todo \in [Tids -> Seq(CallRecords)]
    BY DEF TypeOK, CallRecords
  <2> QED
    BY <2>1, <2>2, LenProperties
<1>2. PICK i \in 1 .. Len(todo[0]) : todo[0][i].do = "DumpEDF"
  BY DEF DumpAhead
<1>3. i # 1 /\ i \in Nat /\ Len(todo[0]) \in Nat
  BY <1>1, <1>2
<1>4. /\ Tail(todo[0]) \in Seq(CallRecords)
      /\ Len(Tail(todo[0])) = Len(todo[0]) - 1
      /\ Tail(todo[0])[i - 1] = todo[0][i]
  BY <1>1, <1>3, HeadTailProperties
<1>5. i - 1 \in 1 .. Len(todo[0]) - 1
  BY <1>3
<1>6. /\ Len(cs \o Tail(todo[0])) = Len(cs) + Len(todo[0]) - 1
      /\ (cs \o Tail(todo[0]))[Len(cs) + i - 1] = Tail(todo[0])[i - 1]
  BY <1>1, <1>3, <1>4, <1>5, ConcatProperties
<1>7. todo'[0] = cs \o Tail(todo[0])
  BY <1>1 DEF Then, TypeOK
<1>8. Len(cs) + i - 1 \in 1 .. Len(cs) + Len(todo[0]) - 1
  BY <1>1, <1>3
<1> QED
  BY <1>2, <1>4, <1>6, <1>7, <1>8 DEF DumpAhead

\* While thread 0 closes its trace it is the only one to go on.
LEMMA OnlyMaster ==
    ASSUME LastDump, exiting, NEW t \in Tids, CallStep(t) \/ FlushStep(t)
    PROVE  t = 0
<1>1. CASE CallStep(t)
  <2>1. todo[t] # <<>>
    BY <1>1 DEF CallStep, DoTraceEvent, DoEventWithNodeId, DoFix, DoRecord, DoDumpEDF,
                DoFlush, Doing
  <2> QED
    BY <2>1 DEF LastDump
<1>2. CASE FlushStep(t)
  <2>1. flush[t].stage # "no"
    BY <1>2 DEF FlushStep, FlushBegin, FlushDump, FlushClear, FlushWrite, FlushMark
  <2> QED
    BY <2>1 DEF LastDump
<1> QED
  BY <1>1, <1>2

\* The last dump writes all definitions there are.
LEMMA DumpedOrNot ==
    ASSUME TypeOK, DumpEDF(0)
    PROVE  (edf' = edf \/ edf'[node] = defs) /\ (usesMPI => edf'[node] = defs)
<1>1. edf' = IF usesMPI THEN [edf EXCEPT ![node] = defs] ELSE edf
  BY DEF DumpEDF
<1> QED
  BY <1>1 DEF TypeOK

LEMMA MasterCalls ==
    ASSUME IInv, LastDump, exiting, CallStep(0)
    PROVE  DumpAhead' \/ (usesMPI' => edf'[node'] = defs')
<1>0. TypeOK /\ 0 \in Tids /\ UNCHANGED <<node, usesMPI, defs>>
  <2>1. TypeOK /\ 0 \in Tids
    BY TracerAssumption DEF IInv, Tids
  <2>2. UNCHANGED <<node, usesMPI, defs>>
    BY DEF CallStep, DoTraceEvent, DoEventWithNodeId, DoFix, DoRecord, DoDumpEDF, DoFlush
  <2> QED
    BY <2>1, <2>2
<1>1. CASE DoDumpEDF(0)
  BY <1>0, <1>1, DumpedOrNot DEF DoDumpEDF
<1>2. ASSUME ~DoDumpEDF(0)
      PROVE  /\ UNCHANGED edf
             /\ \E cs \in Seq(CallRecords) : Then(0, cs)
             /\ todo[0] # <<>> /\ Head(todo[0]).do # "DumpEDF"
  <2>1. CASE DoTraceEvent(0)
    <3>1. PICK c \in CallRecords : Then(0, <<c>>)
      <4>1. [Head(todo[0]) EXCEPT !.do = "EventWithNodeId", !.nid = node] \in CallRecords
        <5>1. \A r \in CallRecords, n \in Int :
                 [r EXCEPT !.do = "EventWithNodeId", !.nid = n] \in CallRecords
          BY DEF CallRecords, Calls
        <5>2. Head(todo[0]) \in CallRecords /\ node \in Int
          BY <1>0, <2>1, DoingProperties, NodeNumbersAreInt DEF DoTraceEvent, TypeOK
        <5> QED
          BY <5>1, <5>2
      <4> QED
        BY <2>1, <4>1 DEF DoTraceEvent
    <3>2. <<c>> \in Seq(CallRecords)
      OBVIOUS
    <3> QED
      BY <2>1, <3>1, <3>2 DEF DoTraceEvent, Doing
  <2>2. CASE DoEventWithNodeId(0)
    <3>1. \E cs \in Seq(CallRecords) : Then(0, cs)
      BY <1>0, <2>2, EventCalls DEF IInv
    <3> QED
      BY <2>2, <3>1 DEF DoEventWithNodeId, Doing
  <2>3. CASE DoFix(0) \/ DoRecord(0) \/ DoFlush(0)
    <3>1. Then(0, <<>>)
      BY <2>3, Zenon DEF DoFix, DoRecord, DoFlush
    <3>2. <<>> \in Seq(CallRecords)
      OBVIOUS
    <3>3. \E cs \in Seq(CallRecords) : Then(0, cs)
      BY <3>1, <3>2, Zenon
    <3> QED
      BY <2>3, <3>3 DEF DoFix, DoRecord, DoFlush, Doing
  <2> QED
    BY <1>2, <2>1, <2>2, <2>3 DEF CallStep
<1>3. CASE ~DoDumpEDF(0) /\ DumpAhead
  BY <1>0, <1>2, <1>3, ThenDumpAhead
<1>4. CASE ~DoDumpEDF(0) /\ (usesMPI => edf[node] = defs)
  BY <1>0, <1>2, <1>4
<1> QED
  BY <1>1, <1>3, <1>4 DEF LastDump

LEMMA MasterFlush ==
    ASSUME TypeOK, LastDump, exiting, FlushStep(0)
    PROVE  DumpAhead' \/ (usesMPI' => edf'[node'] = defs')
<1>1. UNCHANGED <<node, usesMPI, defs, todo>>
  BY DEF FlushStep, FlushBegin, FlushDump, FlushClear, FlushWrite, FlushMark
<1>2. CASE DumpAhead
  BY <1>1, <1>2 DEF DumpAhead
<1>3. CASE usesMPI => edf[node] = defs
  <2>1. edf' = edf \/ DumpEDF(0)
    BY DEF FlushStep, FlushBegin, FlushDump, FlushClear, FlushWrite, FlushMark
  <2> QED
    BY <1>1, <1>3, <2>1, DumpedOrNot
<1> QED
  BY <1>2, <1>3 DEF LastDump

LEMMA MasterCloses ==
    ASSUME IInv, Close(0)
    PROVE  /\ \A t \in Tids \ {0} : todo'[t] = <<>> /\ flush'[t].stage = "no"
           /\ DumpAhead'
<1> DEFINE c == TraceEvent("CLOSE", 0)
           w == TraceEvent("WALL_CLOCK", 0)
           d == Call("DumpEDF", "CLOSE", 0, -1)
           f == Call("Flush", "CLOSE", 0, -1)
<1>1. /\ todo' = [todo EXCEPT ![0] = <<c, w, d, f>>] /\ flush' = flush
      /\ \A t \in Tids \ {0} : todo[t] = <<>> /\ flush[t].stage = "no"
  BY DEF Close, Idle
<1>2. d.do = "DumpEDF"
  BY DEF Call
<1> HIDE DEF c, w, d, f
<1>3. 0 \in Tids /\ DOMAIN todo = Tids
  BY TracerAssumption DEF IInv, TypeOK, Tids
<1>4. todo'[0] = <<c, w, d, f>> /\ \A t \in Tids \ {0} : todo'[t] = todo[t]
  BY <1>1, <1>3
<1>5. 3 \in 1 .. Len(todo'[0]) /\ todo'[0][3] = d
  BY <1>4
<1> QED
  BY <1>1, <1>2, <1>4, <1>5 DEF DumpAhead

LEMMA NextLastDump ==
    IInv /\ LastDump /\ [Next]_vars => LastDump'
<1> SUFFICES ASSUME IInv, LastDump, [Next]_vars PROVE LastDump'
  OBVIOUS
<1>0. 0 \in Tids /\ TypeOK
  BY TracerAssumption DEF IInv, Tids
<1>1. ASSUME NEW t \in Tids, NEW e \in Funcs \cup Users, Register(t, e) \/ Trigger(t, e)
      PROVE  LastDump'
  BY <1>1 DEF Register, Trigger, Idle, LastDump
<1>2. ASSUME NEW t \in Tids, CallStep(t) PROVE LastDump'
  <2>1. UNCHANGED <<usesMPI, file, exiting>>
    BY <1>2 DEF CallStep, DoTraceEvent, DoEventWithNodeId, DoFix, DoRecord, DoDumpEDF,
                DoFlush
  <2>2. CASE exiting
    <3>1. t = 0
      BY <1>2, <2>2, OnlyMaster
    <3>2. \A r \in Tids \ {0} : todo'[r] = todo[r]
      <4>1. \E cs : Then(0, cs)
        BY <1>2, <3>1 DEF CallStep, DoTraceEvent, DoEventWithNodeId, DoFix, DoRecord,
                          DoDumpEDF, DoFlush
      <4> QED
        BY <1>0, <4>1 DEF Then, TypeOK
    <3>3. \A r \in Tids \ {0} : flush'[r] = flush[r]
      <4>1. flush' = flush \/ \E f : flush' = [flush EXCEPT ![0] = f]
        BY <1>2, <3>1 DEF CallStep, DoTraceEvent, DoEventWithNodeId, DoFix, DoRecord,
                          DoDumpEDF, DoFlush
      <4> QED
        BY <1>0, <4>1 DEF TypeOK
    <3> QED
      BY <1>2, <2>1, <2>2, <3>1, <3>2, <3>3, MasterCalls DEF LastDump
  <2> QED
    BY <2>1, <2>2 DEF LastDump
<1>3. ASSUME NEW t \in Tids, FlushStep(t) PROVE LastDump'
  <2>1. UNCHANGED <<usesMPI, todo, exiting>> /\ (~usesMPI => file' = file)
    BY <1>3 DEF FlushStep, FlushBegin, FlushDump, FlushClear, FlushWrite, FlushMark
  <2>2. CASE exiting
    <3>1. t = 0
      BY <1>3, <2>2, OnlyMaster
    <3>2. \A r \in Tids \ {0} : flush'[r] = flush[r]
      BY <1>0, <1>3, <3>1 DEF FlushStep, FlushBegin, FlushDump, FlushClear, FlushWrite,
                              FlushMark, TypeOK
    <3> QED
      BY <1>0, <1>3, <2>1, <2>2, <3>1, <3>2, MasterFlush DEF LastDump
  <2> QED
    BY <2>1, <2>2 DEF LastDump
<1>4. ASSUME NEW t \in Tids, Close(t) PROVE LastDump'
  <2>1. UNCHANGED <<usesMPI, file>> /\ exiting' = (t = 0)
    BY <1>4 DEF Close
  <2> QED
    BY <1>4, <2>1, MasterCloses DEF LastDump
<1>5. ASSUME NEW n \in Nodes, SetNode(n) PROVE LastDump'
  <2>1. ~exiting /\ UNCHANGED <<exiting, file>> /\ usesMPI' \in {usesMPI, TRUE}
    BY <1>5 DEF SetNode, Idle
  <2>2. ~usesMPI' => ~usesMPI
    BY <2>1
  <2> QED
    BY <2>1, <2>2 DEF LastDump
<1>6. CASE Tick \/ Finished \/ UNCHANGED vars
  BY <1>6 DEF Tick, Finished, vars, LastDump, DumpAhead
<1> QED
  BY <1>1, <1>2, <1>3, <1>4, <1>5, <1>6 DEF Next

\* When the process has ended every event in any of its files is defined in the
\* EDF file of its last node id, for any number of threads: one that finds the flag cleared by
\* another may leave out its definitions, thread 0 writes them at the end.
THEOREM AllDefined == Spec => []DefinedAtEnd
<1>1. Init => IInv /\ Known /\ LastDump
  <2> SUFFICES ASSUME Init PROVE IInv /\ Known /\ LastDump
    OBVIOUS
  <2>1. IInv
    BY InitIInv
  <2>2. Known
    BY InitKnown
  <2>3. LastDump
    BY DEF Init, LastDump
  <2> QED
    BY <2>1, <2>2, <2>3
<1>2. IInv /\ Known /\ LastDump /\ [Next]_vars => IInv' /\ Known' /\ LastDump'
  BY NextIInv, NextKnown, NextLastDump
<1>3. IInv /\ Known /\ LastDump => DefinedAtEnd
  <2> SUFFICES ASSUME IInv, Known, LastDump, Closed,
                      NEW t \in Tids, NEW i \in 1 .. Len(file[t]), file[t][i].ev \notin Marks
               PROVE  file[t][i].ev \in edf[node]
    BY DEF DefinedAtEnd
  <2>1. file[t] \in Seq(KnownRecords) /\ file[t] # <<>>
    BY DEF Known, KnownOf
  <2>2. file[t][i] \in KnownRecords
    BY <2>1, ElementOfSeq
  <2>3. file[t][i].ev \in defs
    BY <2>2 DEF KnownRecords, KnownEvents
  <2>4. usesMPI
    BY <2>1 DEF LastDump
  <2>5. ~DumpAhead
    BY DEF Closed, DumpAhead
  <2> QED
    BY <2>3, <2>4, <2>5 DEF LastDump, Closed
<1> QED
  BY <1>1, <1>2, <1>3, PTL DEF Spec

-----------------------------------------------------------------------------
(* Corrected timestamps.                                                   *)

\* There is no correction among the calls in s.
NoFix(s) == \A i \in 1 .. Len(s) : s[i].do # "Fix"

\* The only Fix among the calls in s is F, at k, with records to be written
\* before it.
OneFix(s, F, k) ==
    /\ \A i \in 1 .. Len(s) : s[i].do = "Fix" => i = k /\ s[i] = F
    /\ k \in 1 .. Len(s)
    /\ \A j \in 1 .. k - 1 : s[j].do = "Record"

\* When a Fix will be carried out, its records are in the buffer: both if there
\* are two; if there is one, and the buffer was flushed after it, the FLUSH
\* record of that flush has its place.
FixSoon(t) ==
    \A i \in 1 .. Len(todo[t]) : todo[t][i].do = "Fix" =>
        /\ init[t]
        /\ \A j \in 1 .. i - 1 : todo[t][j].do = "Record"
        /\ \/ todo[t][i].n = 1 /\ i = 2
           \/ /\ todo[t][i].n = 1 /\ i = 1
              /\ IF flush[t].stage = "no" THEN cur[t] >= 1 ELSE flush[t].marked
           \/ todo[t][i].n = 2 /\ cur[t] = 3 - i /\ flush[t].stage = "no"

LEMMA NoFixConcat ==
    ASSUME NEW s \in Seq(CallRecords), NEW r \in Seq(CallRecords), NoFix(s), NoFix(r)
    PROVE  NoFix(s \o r)
<1>1. Len(s) \in Nat /\ Len(r) \in Nat
  OBVIOUS
<1>2. /\ Len(s \o r) = Len(s) + Len(r)
      /\ \A i \in 1 .. Len(s) + Len(r) :
            (s \o r)[i] = IF i <= Len(s) THEN s[i] ELSE r[i - Len(s)]
  BY ConcatProperties
<1> QED
  BY <1>1, <1>2 DEF NoFix

LEMMA OneFixConcat ==
    ASSUME NEW s \in Seq(CallRecords), NEW r \in Seq(CallRecords), NoFix(r),
           NEW F, NEW k, OneFix(s, F, k)
    PROVE  OneFix(s \o r, F, k)
<1>1. Len(s) \in Nat /\ Len(r) \in Nat /\ k \in 1 .. Len(s)
  BY DEF OneFix
<1>2. /\ Len(s \o r) = Len(s) + Len(r)
      /\ \A i \in 1 .. Len(s) + Len(r) :
            (s \o r)[i] = IF i <= Len(s) THEN s[i] ELSE r[i - Len(s)]
  BY ConcatProperties
<1>3. ASSUME NEW i \in 1 .. Len(s \o r), (s \o r)[i].do = "Fix"
      PROVE  i = k /\ (s \o r)[i] = F
  <2>1. CASE i <= Len(s)
    BY <1>1, <1>2, <1>3, <2>1 DEF OneFix
  <2>2. CASE ~(i <= Len(s))
    <3>1. i - Len(s) \in 1 .. Len(r) /\ (s \o r)[i] = r[i - Len(s)]
      BY <1>1, <1>2, <2>2
    <3> QED
      BY <1>3, <3>1 DEF NoFix
  <2> QED
    BY <2>1, <2>2
<1>4. \A j \in 1 .. k - 1 : (s \o r)[j].do = "Record"
  BY <1>1, <1>2 DEF OneFix
<1>5. k \in 1 .. Len(s \o r)
  BY <1>1, <1>2
<1> QED
  BY <1>3, <1>4, <1>5 DEF OneFix

\* Behind a call that does not write a record there is no Fix.
LEMMA NoFixBehind ==
    ASSUME TypeOK, NEW t \in Tids, FixSoon(t), todo[t] # <<>>, Head(todo[t]).do # "Record"
    PROVE  Tail(todo[t]) \in Seq(CallRecords) /\ NoFix(Tail(todo[t]))
<1>1. todo[t] \in Seq(CallRecords)
  BY DEF TypeOK, CallRecords
<1>2. /\ Tail(todo[t]) \in Seq(CallRecords)
      /\ Len(todo[t]) \in Nat /\ Len(todo[t]) >= 1
      /\ Len(Tail(todo[t])) = Len(todo[t]) - 1
      /\ \A i \in 1 .. Len(todo[t]) - 1 : Tail(todo[t])[i] = todo[t][i + 1]
      /\ Head(todo[t]) = todo[t][1]
  BY <1>1, HeadTailProperties
<1>3. ASSUME NEW i \in 1 .. Len(todo[t]) - 1 PROVE todo[t][i + 1].do # "Fix"
  <2>1. i + 1 \in 1 .. Len(todo[t]) /\ 1 \in 1 .. (i + 1) - 1
    BY <1>2
  <2> QED
    BY <1>2, <2>1 DEF FixSoon
<1> QED
  BY <1>2, <1>3 DEF NoFix

LEMMA NoFixThen ==
    ASSUME TypeOK, NEW t \in Tids, FixSoon(t), todo[t] # <<>>, Head(todo[t]).do # "Record",
           NEW cs \in Seq(CallRecords), NoFix(cs), Then(t, cs)
    PROVE  FixSoon(t)'
<1>1. Tail(todo[t]) \in Seq(CallRecords) /\ NoFix(Tail(todo[t]))
  BY NoFixBehind
<1>2. todo'[t] = cs \o Tail(todo[t])
  BY DEF Then, TypeOK
<1>3. NoFix(todo'[t])
  BY <1>1, <1>2, NoFixConcat
<1> QED
  BY <1>3 DEF FixSoon, NoFix

\* A step that leaves a thread's calls, its buffer and its flush alone.
LEMMA FixStays ==
    ASSUME NEW t \in Tids, FixSoon(t), UNCHANGED <<todo[t], cur[t], flush[t], init[t]>>
    PROVE  FixSoon(t)'
BY DEF FixSoon

LEMMA PairProperties ==
    ASSUME NEW x, NEW y
    PROVE  <<x>> \o <<y>> = <<x, y>> /\ <<>> \o <<y>> = <<y>>
<1>1. <<x>> \in Seq({x, y}) /\ <<y>> \in Seq({x, y}) /\ <<>> \in Seq({x, y})
  OBVIOUS
<1>2. /\ <<x>> \o <<y>> \in Seq({x, y}) /\ Len(<<x>> \o <<y>>) = 2
      /\ (<<x>> \o <<y>>)[1] = x /\ (<<x>> \o <<y>>)[2] = y
  BY <1>1, ConcatProperties
<1>3. <<>> \o <<y>> = <<y>>
  BY <1>1, ConcatEmptySeq
<1>4. <<x, y>> \in Seq({x, y}) /\ Len(<<x, y>>) = 2
  OBVIOUS
<1>5. \A i \in 1 .. 2 : (<<x>> \o <<y>>)[i] = <<x, y>>[i]
  BY <1>2
<1>6. <<x>> \o <<y>> = <<x, y>>
  BY <1>2, <1>4, <1>5, SeqEqual
<1> QED
  BY <1>3, <1>6

LEMMA EventFix ==
    ASSUME IInv, NEW t \in Tids, FixSoon(t), DoEventWithNodeId(t)
    PROVE  FixSoon(t)'
<1> DEFINE c == Head(todo[t])
           rest == Tail(todo[t])
           created == Created(t, node)
           F == Fix(Len(created), c.ts)
           fix == IF created # <<>> /\ c.ts # 0 THEN <<F>> ELSE <<>>
           last == <<[c EXCEPT !.do = "Record"]>>
<1>1. /\ TypeOK /\ todo[t] # <<>> /\ c \in CallRecords /\ node \in Int
      /\ c.do = "EventWithNodeId" /\ flush[t].stage = "no"
  BY DoingProperties, NodeNumbersAreInt DEF IInv, DoEventWithNodeId, TypeOK, Doing
<1>2. rest \in Seq(CallRecords) /\ NoFix(rest)
  BY <1>1, NoFixBehind
<1>3. /\ created \in Seq(CallRecords)
      /\ \A i \in 1 .. Len(created) : created[i].do = "Record"
      /\ Len(created) \in {0, 1, 2}
      /\ Len(created) > 0 => ~init[t] /\ node # -1
      /\ Len(created) = 2 => cur[t] = 0
  <2>1. created \in Seq(CallRecords)
    BY <1>1, CreatedProperties
  <2> DEFINE a == Call("Record", "EV_INIT", 0, node)
             b == Call("Record", "WALL_CLOCK", 0, node)
  <2>2. a.do = "Record" /\ b.do = "Record"
    BY DEF Call
  <2>3. \/ created = <<>>
        \/ created = <<b>> /\ ~init[t] /\ node # -1
        \/ created = <<a, b>> /\ ~init[t] /\ node # -1 /\ cur[t] = 0
    <3>1. CASE init[t] \/ node = -1
      BY <3>1 DEF Created
    <3>2. CASE ~(init[t] \/ node = -1)
      <4>1. created = (IF cur[t] = 0 /\ ~FirstRecordIsInit(t) THEN <<a>> ELSE <<>>) \o <<b>>
        BY <3>2 DEF Created
      <4>2. \A x, y : <<x>> \o <<y>> = <<x, y>> /\ <<>> \o <<y>> = <<y>>
        BY PairProperties
      <4> HIDE DEF a, b, created
      <4> QED
        BY <3>2, <4>1, <4>2
    <3> QED
      BY <3>1, <3>2
  <2> HIDE DEF a, b, created
  <2> QED
    BY <2>1, <2>2, <2>3
<1>4. last \in Seq(CallRecords) /\ NoFix(last)
  <2>1. [c EXCEPT !.do = "Record"] \in CallRecords /\ [c EXCEPT !.do = "Record"].do = "Record"
    BY <1>1 DEF CallRecords, Calls
  <2> DEFINE x == [c EXCEPT !.do = "Record"]
  <2> HIDE DEF x
  <2>2. x \in CallRecords /\ x.do = "Record" /\ last = <<x>>
    BY <2>1 DEF x
  <2> HIDE DEF last
  <2> QED
    BY <2>2 DEF NoFix
<1>5. Then(t, created \o fix \o last) /\ TraceInit(t, node) /\ UNCHANGED <<cur, flush>>
  BY DEF DoEventWithNodeId
<1>6. todo'[t] = ((created \o fix) \o last) \o rest
  BY <1>1, <1>5 DEF Then, TypeOK
<1>7. F \in CallRecords /\ F.do = "Fix" /\ F.n = Len(created)
  <2>1. Len(created) \in Nat /\ c.ts \in Nat
    BY <1>1, <1>3 DEF CallRecords
  <2> QED
    BY <2>1, FixType DEF Fix, Call
<1>8. Len(created) > 0 => init'[t]
  BY <1>1, <1>3, <1>5 DEF TraceInit, TypeOK
<1> HIDE DEF c, rest, created, F, last
<1>9. CASE fix = <<>>
  <2>1. NoFix(created) /\ <<>> \in Seq(CallRecords) /\ NoFix(<<>>)
    BY <1>3 DEF NoFix
  <2>2. created \o <<>> \in Seq(CallRecords) /\ NoFix(created \o <<>>)
    BY <1>3, <2>1, NoFixConcat, ConcatProperties
  <2>3. (created \o <<>>) \o last \in Seq(CallRecords) /\ NoFix((created \o <<>>) \o last)
    BY <1>4, <2>2, NoFixConcat, ConcatProperties
  <2>4. NoFix(todo'[t])
    BY <1>2, <1>6, <1>9, <2>3, NoFixConcat
  <2> QED
    BY <2>4 DEF FixSoon, NoFix
<1>10. CASE fix = <<F>> /\ created # <<>>
  <2> DEFINE k == Len(created) + 1
  <2>0. /\ Len(created) \in {1, 2} /\ k \in {2, 3}
        /\ (Len(created) = 1 /\ k = 2) \/ (Len(created) = 2 /\ k = 3)
    <3>1. Len(created) \in {1, 2}
      BY <1>3, <1>10, EmptySeq
    <3> DEFINE m == Len(created)
    <3>2. m \in {1, 2} /\ k = m + 1
      BY <3>1
    <3> HIDE DEF m, k
    <3>3. k \in {2, 3} /\ ((m = 1 /\ k = 2) \/ (m = 2 /\ k = 3))
      BY <3>2
    <3> QED
      BY <3>1, <3>3 DEF m
  <2>1. <<F>> \in Seq(CallRecords)
    BY <1>7
  <2>2. created \o <<F>> \in Seq(CallRecords) /\ OneFix(created \o <<F>>, F, k)
    <3>1. /\ created \o <<F>> \in Seq(CallRecords) /\ Len(created \o <<F>>) = k
          /\ \A i \in 1 .. k : (created \o <<F>>)[i] = IF i < k THEN created[i] ELSE F
      BY <1>3, <2>0, <2>1, ConcatProperties
    <3> HIDE DEF k
    <3>2. \A i \in 1 .. k : i < k => created[i].do = "Record"
      BY <1>3, <2>0 DEF k
    <3> QED
      BY <2>0, <3>1, <3>2 DEF OneFix
  <2> HIDE DEF k
  <2>3. /\ (created \o <<F>>) \o last \in Seq(CallRecords)
        /\ OneFix((created \o <<F>>) \o last, F, k)
    BY <1>4, <2>2, OneFixConcat, ConcatProperties
  <2>4. OneFix(todo'[t], F, k)
    BY <1>2, <1>6, <1>10, <2>3, OneFixConcat
  <2>5. init'[t] /\ cur'[t] = cur[t] /\ flush'[t] = flush[t]
    <3>1. Len(created) > 0
      BY <2>0
    <3> QED
      BY <1>5, <1>8, <3>1
  <2>6. \/ F.n = 1 /\ k = 2
        \/ F.n = 2 /\ k = 3 /\ cur[t] = 0
    BY <1>3, <1>7, <2>0
  <2>7. ASSUME NEW i \in 1 .. Len(todo'[t]), todo'[t][i].do = "Fix"
        PROVE  i = k /\ todo'[t][i] = F /\ \A j \in 1 .. i - 1 : todo'[t][j].do = "Record"
    BY <2>4, <2>7 DEF OneFix
  <2> QED
    BY <1>1, <2>5, <2>6, <2>7 DEF FixSoon
<1> QED
  BY <1>9, <1>10

\* What is written after TauTraceInit is one record, and the FLUSH record.
LEMMA RecordWrites ==
    ASSUME IInv, NEW t \in Tids, init[t], DoRecord(t)
    PROVE  \/ /\ Full(cur[t] + 1) /\ cur'[t] = cur[t] + 2
              /\ flush'[t].stage = "begin" /\ flush'[t].marked
           \/ ~Full(cur[t] + 1) /\ cur'[t] = cur[t] + 1 /\ flush'[t] = flush[t]
<1> DEFINE c == Head(todo[t])
           r == Record(c.ev, c.ts, c.nid)
           f == Record("FLUSH", c.ts, c.nid)
<1>1. TypeOK /\ cur[t] \in Nat
  BY DEF IInv, TypeOK
<1>2. NewRecords(t, c) = <<r>>
  <2>1. NewRecords(t, c) = <<>> \o <<r>>
    BY DEF NewRecords
  <2> HIDE DEF r
  <2>2. <<>> \o <<r>> = <<r>>
    BY PairProperties
  <2> QED
    BY <2>1, <2>2
<1> HIDE DEF r, f
<1>3. /\ <<r>> \o <<f>> = <<r, f>> /\ <<r>> \o <<>> = <<r>>
      /\ Len(<<r, f>>) = 2 /\ Len(<<r>>) = 1
  <2>1. <<r>> \o <<f>> = <<r, f>>
    BY PairProperties
  <2>2. <<r>> \in Seq({r})
    OBVIOUS
  <2>3. <<r>> \o <<>> = <<r>>
    BY <2>2, ConcatEmptySeq
  <2> QED
    BY <2>1, <2>3
<1>4. CASE Full(cur[t] + 1)
  <2>1. cur' = [cur EXCEPT ![t] = cur[t] + Len(<<r>> \o <<f>>)]
    BY <1>2, <1>3, <1>4 DEF DoRecord, f
  <2>2. flush' = [flush EXCEPT ![t] = [stage |-> "begin", marked |-> TRUE, nid |-> c.nid]]
    BY <1>2, <1>3, <1>4 DEF DoRecord
  <2> QED
    BY <1>1, <1>3, <1>4, <2>1, <2>2 DEF TypeOK
<1>5. CASE ~Full(cur[t] + 1)
  <2>1. cur' = [cur EXCEPT ![t] = cur[t] + Len(<<r>> \o <<>>)] /\ flush' = flush
    BY <1>2, <1>3, <1>5 DEF DoRecord
  <2> QED
    BY <1>1, <1>3, <1>5, <2>1 DEF TypeOK
<1> QED
  BY <1>4, <1>5

LEMMA RecordFix ==
    ASSUME IInv, NEW t \in Tids, FixSoon(t), DoRecord(t)
    PROVE  FixSoon(t)'
<1>1. /\ TypeOK /\ todo[t] \in Seq(CallRecords) /\ todo[t] # <<>>
      /\ todo[t][1].do = "Record" /\ flush[t].stage = "no" /\ cur[t] \in Nat
      /\ Then(t, <<>>) /\ UNCHANGED init
  <2>1. TypeOK /\ cur[t] \in Nat
    BY DEF IInv, TypeOK
  <2>2. todo[t] \in Seq(CallRecords)
    BY <2>1 DEF TypeOK, CallRecords
  <2>3. Doing(t, "Record") /\ Then(t, <<>>) /\ UNCHANGED init
    BY Zenon DEF DoRecord
  <2>4. todo[t] # <<>> /\ Head(todo[t]).do = "Record" /\ flush[t].stage = "no"
    BY <2>3 DEF Doing
  <2>5. Head(todo[t]) = todo[t][1]
    BY <2>2, <2>4, HeadTailProperties
  <2> QED
    BY <2>1, <2>2, <2>3, <2>4, <2>5
<1>2. /\ Len(todo[t]) \in Nat /\ Len(todo'[t]) = Len(todo[t]) - 1
      /\ \A i \in 1 .. Len(todo[t]) - 1 : todo'[t][i] = todo[t][i + 1]
  <2>1. /\ Tail(todo[t]) \in Seq(CallRecords) /\ Len(todo[t]) \in Nat
        /\ Len(Tail(todo[t])) = Len(todo[t]) - 1
        /\ \A i \in 1 .. Len(todo[t]) - 1 : Tail(todo[t])[i] = todo[t][i + 1]
    BY <1>1, HeadTailProperties
  <2>2. todo'[t] = <<>> \o Tail(todo[t])
    BY <1>1 DEF Then, TypeOK
  <2>3. <<>> \o Tail(todo[t]) = Tail(todo[t])
    BY <2>1, ConcatEmptySeq
  <2> QED
    BY <2>1, <2>2, <2>3
<1>3. SUFFICES ASSUME NEW i \in 1 .. Len(todo'[t]), todo'[t][i].do = "Fix"
               PROVE  /\ init'[t]
                      /\ \A j \in 1 .. i - 1 : todo'[t][j].do = "Record"
                      /\ \/ todo'[t][i].n = 1 /\ i = 2
                         \/ /\ todo'[t][i].n = 1 /\ i = 1
                            /\ IF flush'[t].stage = "no" THEN cur'[t] >= 1
                               ELSE flush'[t].marked
                         \/ todo'[t][i].n = 2 /\ cur'[t] = 3 - i /\ flush'[t].stage = "no"
  BY DEF FixSoon
<1>4. i + 1 \in 1 .. Len(todo[t]) /\ todo[t][i + 1] = todo'[t][i] /\ i \in Nat /\ i >= 1
  BY <1>2
<1>5. /\ init[t]
      /\ \A j \in 1 .. i : todo[t][j].do = "Record"
      /\ \/ todo'[t][i].n = 1 /\ i = 1
         \/ todo'[t][i].n = 2 /\ cur[t] = 2 - i
  <2> DEFINE m == i + 1
  <2>1. m \in 1 .. Len(todo[t]) /\ todo[t][m].do = "Fix" /\ todo[t][m] = todo'[t][i]
    BY <1>3, <1>4
  <2> HIDE DEF m
  <2>2. /\ init[t]
        /\ \A j \in 1 .. m - 1 : todo[t][j].do = "Record"
        /\ \/ todo[t][m].n = 1 /\ m = 2
           \/ todo[t][m].n = 1 /\ m = 1
           \/ todo[t][m].n = 2 /\ cur[t] = 3 - m
    BY <2>1 DEF FixSoon
  <2>3. m - 1 = i /\ m # 1 /\ (m = 2 => i = 1) /\ 3 - m = 2 - i
    BY <1>4 DEF m
  <2>4. \A j \in 1 .. i : todo[t][j].do = "Record"
    BY <2>2, <2>3
  <2> QED
    BY <2>1, <2>2, <2>3, <2>4
<1>6. \A j \in 1 .. i - 1 : todo'[t][j].do = "Record"
  <2> TAKE j \in 1 .. i - 1
  <2>1. j + 1 \in 1 .. i /\ j \in 1 .. Len(todo[t]) - 1
    BY <1>2, <1>4
  <2> QED
    BY <1>2, <1>5, <2>1
<1>7. \/ /\ Full(cur[t] + 1) /\ cur'[t] = cur[t] + 2
         /\ flush'[t].stage = "begin" /\ flush'[t].marked
      \/ ~Full(cur[t] + 1) /\ cur'[t] = cur[t] + 1 /\ flush'[t] = flush[t]
  BY <1>5, RecordWrites
<1>8. CASE todo'[t][i].n = 1 /\ i = 1
  BY <1>1, <1>5, <1>6, <1>7, <1>8
<1>9. CASE todo'[t][i].n = 2 /\ cur[t] = 2 - i
  <2>1. ~Full(cur[t] + 1)
    BY <1>4, <1>9, TracerAssumption DEF Full
  <2>2. cur'[t] = 3 - i
    BY <1>4, <1>7, <1>9, <2>1
  <2> QED
    BY <1>1, <1>5, <1>6, <1>7, <1>9, <2>1, <2>2
<1> QED
  BY <1>5, <1>8, <1>9

LEMMA FlushFix ==
    ASSUME IInv, NEW t \in Tids, FixSoon(t), FlushStep(t)
    PROVE  FixSoon(t)'
<1>1. TypeOK /\ cur[t] \in Nat /\ flush[t].stage # "no" /\ UNCHANGED <<todo, init>>
  <2>1. TypeOK /\ cur[t] \in Nat
    BY DEF IInv, TypeOK
  <2>2. flush[t].stage # "no" /\ UNCHANGED <<todo, init>>
    BY DEF FlushStep, FlushBegin, FlushDump, FlushClear, FlushWrite, FlushMark
  <2> QED
    BY <2>1, <2>2
<1>2. flush[t].marked =>
         IF flush'[t].stage = "no" THEN cur'[t] >= 1 ELSE flush'[t].marked
  <2>1. CASE FlushBegin(t) \/ FlushDump(t) \/ FlushClear(t)
    <3>1. \E s \in {"dump", "write", "clear"} : flush' = [flush EXCEPT ![t].stage = s]
      BY <2>1 DEF FlushBegin, FlushDump, FlushClear
    <3> QED
      BY <1>1, <3>1 DEF TypeOK
  <2>2. CASE FlushWrite(t)
    BY <1>1, <2>2 DEF FlushWrite, AfterWrite, TypeOK
  <2>3. CASE FlushMark(t)
    BY <1>1, <2>3 DEF FlushMark, NoFlush, TypeOK
  <2> QED
    BY <2>1, <2>2, <2>3 DEF FlushStep
<1> QED
  BY <1>1, <1>2 DEF FixSoon

\* Calls that bring no Fix with them.
LEMMA OtherCallsFix ==
    ASSUME IInv, NEW t \in Tids, FixSoon(t),
           DoTraceEvent(t) \/ DoFix(t) \/ DoDumpEDF(t) \/ DoFlush(t)
    PROVE  FixSoon(t)'
<1>1. TypeOK /\ todo[t] # <<>> /\ Head(todo[t]).do # "Record"
  BY DEF IInv, DoTraceEvent, DoFix, DoDumpEDF, DoFlush, Doing
<1>2. \E cs \in Seq(CallRecords) : NoFix(cs) /\ Then(t, cs)
  <2>1. CASE DoTraceEvent(t)
    <3> DEFINE x == [Head(todo[t]) EXCEPT !.do = "EventWithNodeId", !.nid = node]
    <3>1. x \in CallRecords /\ x.do # "Fix"
      <4>1. \A r \in CallRecords, n \in Int :
               /\ [r EXCEPT !.do = "EventWithNodeId", !.nid = n] \in CallRecords
               /\ [r EXCEPT !.do = "EventWithNodeId", !.nid = n].do # "Fix"
        BY DEF CallRecords, Calls
      <4>2. Head(todo[t]) \in CallRecords /\ node \in Int
        BY <1>1, <2>1, DoingProperties, NodeNumbersAreInt DEF DoTraceEvent, TypeOK
      <4> QED
        BY <4>1, <4>2
    <3>2. Then(t, <<x>>)
      BY <2>1 DEF DoTraceEvent
    <3> HIDE DEF x
    <3>3. <<x>> \in Seq(CallRecords) /\ NoFix(<<x>>)
      BY <3>1 DEF NoFix
    <3> QED
      BY <3>2, <3>3
  <2>2. CASE DoFix(t) \/ DoDumpEDF(t) \/ DoFlush(t)
    <3>1. Then(t, <<>>)
      BY <2>2, Zenon DEF DoFix, DoDumpEDF, DoFlush
    <3>2. <<>> \in Seq(CallRecords) /\ NoFix(<<>>)
      BY DEF NoFix
    <3> QED
      BY <3>1, <3>2, Zenon
  <2> QED
    BY <2>1, <2>2
<1> QED
  BY <1>1, <1>2, NoFixThen

LEMMA TriggerFix ==
    ASSUME IInv, NEW t \in Tids, NEW e \in Funcs \cup Users, Trigger(t, e)
    PROVE  FixSoon(t)'
<1>1. todo' = [todo EXCEPT ![t] = Traced(e)] /\ TypeOK
  BY DEF Trigger, IInv
<1>2. todo'[t] = Traced(e)
  BY <1>1 DEF TypeOK
<1>3. \A x, ts : TraceEvent(x, ts).do = "TraceEvent"
  BY DEF TraceEvent, Call
<1>4. NoFix(Traced(e))
  <2>1. CASE e \in Users
    BY <1>3, <2>1 DEF Traced, NoFix
  <2>2. CASE e \notin Users
    <3> DEFINE a == <<TraceEvent(e, clock)>>
               b == [i \in 1 .. Len(Counters) |-> TraceEvent(Counters[i], clock)]
               T == [do : {"TraceEvent"}, ev : {e} \cup {Counters[i] : i \in 1 .. Len(Counters)},
                     ts : {clock}, nid : {-1}, n : {0}]
    <3>1. Traced(e) = a \o b
      BY <2>2 DEF Traced
    <3>2. Len(Counters) \in Nat
      BY TracerAssumption
    <3>3. a \in Seq(T) /\ b \in Seq(T)
      BY <3>2 DEF TraceEvent, Call
    <3>4. a \o b \in Seq(T)
      BY <3>3, ConcatProperties
    <3>5. \A r \in T : r.do # "Fix"
      OBVIOUS
    <3> HIDE DEF a, b, T
    <3> QED
      BY <3>1, <3>4, <3>5, ElementOfSeq DEF NoFix
  <2> QED
    BY <2>1, <2>2
<1> QED
  BY <1>2, <1>4 DEF FixSoon, NoFix

LEMMA SetNodeFix ==
    ASSUME IInv, NEW n \in Nodes, SetNode(n), NEW t \in Tids, FixSoon(t)
    PROVE  FixSoon(t)'
<1>1. /\ TypeOK /\ todo' = [todo EXCEPT ![0] = Created(0, n)] /\ TraceInit(0, n)
      /\ UNCHANGED <<cur, flush>>
  BY DEF SetNode, IInv
<1>2. CASE t = 0
  <2>1. todo'[t] = Created(0, n)
    BY <1>1, <1>2 DEF TypeOK
  <2>2. NoFix(Created(0, n))
    <3> DEFINE a == Call("Record", "EV_INIT", 0, n)
               b == Call("Record", "WALL_CLOCK", 0, n)
    <3>1. a.do # "Fix" /\ b.do # "Fix"
      BY DEF Call
    <3>2. Created(0, n) \in {<<>>, <<b>>, <<a, b>>}
      <4>1. <<a>> \o <<b>> = <<a, b>> /\ <<>> \o <<b>> = <<b>>
        BY PairProperties
      <4> HIDE DEF a, b
      <4>2. \/ Created(0, n) = <<>>
            \/ Created(0, n) = <<a>> \o <<b>>
            \/ Created(0, n) = <<>> \o <<b>>
        BY DEF Created, a, b
      <4> QED
        BY <4>1, <4>2
    <3> HIDE DEF a, b
    <3> QED
      BY <3>1, <3>2 DEF NoFix
  <2> QED
    BY <2>1, <2>2 DEF FixSoon, NoFix
<1>3. CASE t # 0
  <2>1. init'[t] = init[t]
    BY <1>1, <1>3 DEF TraceInit, TypeOK
  <2>2. todo'[t] = todo[t]
    BY <1>1, <1>3 DEF TypeOK
  <2> QED
    BY <1>1, <2>1, <2>2, FixStays
<1> QED
  BY <1>2, <1>3

LEMMA CloseFix ==
    ASSUME IInv, NEW t \in Tids, Close(t)
    PROVE  FixSoon(t)'
<1>1. todo'[t] = <<TraceEvent("CLOSE", 0), TraceEvent("WALL_CLOCK", 0),
                   Call("DumpEDF", "CLOSE", 0, -1), Call("Flush", "CLOSE", 0, -1)>>
  BY DEF Close, IInv, TypeOK
<1>2. /\ TraceEvent("CLOSE", 0).do # "Fix" /\ TraceEvent("WALL_CLOCK", 0).do # "Fix"
      /\ Call("DumpEDF", "CLOSE", 0, -1).do # "Fix" /\ Call("Flush", "CLOSE", 0, -1).do # "Fix"
  BY DEF TraceEvent, Call
<1>3. NoFix(todo'[t])
  BY <1>1, <1>2 DEF NoFix
<1> QED
  BY <1>3 DEF FixSoon, NoFix

\* A step of one thread leaves the calls of the others alone.
LEMMA OtherThreads ==
    ASSUME IInv, NEW t \in Tids, NEW r \in Tids, r # t,
           \/ \E e \in Funcs \cup Users : Register(t, e) \/ Trigger(t, e)
           \/ CallStep(t) \/ FlushStep(t) \/ Close(t)
    PROVE  UNCHANGED <<todo[r], cur[r], flush[r], init[r]>>
<1>1. TypeOK
  BY DEF IInv
<1>2. ASSUME NEW e \in Funcs \cup Users, Register(t, e) \/ Trigger(t, e)
      PROVE  UNCHANGED <<todo[r], cur[r], flush[r], init[r]>>
  BY <1>1, <1>2 DEF Register, Trigger, TypeOK
<1>3. ASSUME CallStep(t) PROVE UNCHANGED <<todo[r], cur[r], flush[r], init[r]>>
  <2>1. CASE DoTraceEvent(t) \/ DoFix(t) \/ DoDumpEDF(t)
    BY <1>1, <2>1 DEF DoTraceEvent, DoFix, DoDumpEDF, Then, TypeOK
  <2>2. CASE DoEventWithNodeId(t)
    BY <1>1, <2>2 DEF DoEventWithNodeId, Then, TraceInit, TypeOK
  <2>3. CASE DoRecord(t)
    BY <1>1, <2>3 DEF DoRecord, Then, TypeOK
  <2>4. CASE DoFlush(t)
    BY <1>1, <2>4 DEF DoFlush, Then, TypeOK
  <2> QED
    BY <1>3, <2>1, <2>2, <2>3, <2>4 DEF CallStep
<1>4. ASSUME FlushStep(t) PROVE UNCHANGED <<todo[r], cur[r], flush[r], init[r]>>
  BY <1>1, <1>4 DEF FlushStep, FlushBegin, FlushDump, FlushClear, FlushWrite, FlushMark, TypeOK
<1>5. ASSUME Close(t) PROVE UNCHANGED <<todo[r], cur[r], flush[r], init[r]>>
  BY <1>1, <1>5 DEF Close, TypeOK
<1> QED
  BY <1>2, <1>3, <1>4, <1>5

LEMMA NextFix ==
    ASSUME IInv, NEW t \in Tids, FixSoon(t), [Next]_vars
    PROVE  FixSoon(t)'
<1>1. ASSUME NEW s \in Tids,
             \/ \E e \in Funcs \cup Users : Register(s, e) \/ Trigger(s, e)
             \/ CallStep(s) \/ FlushStep(s) \/ Close(s)
      PROVE  FixSoon(t)'
  <2>1. CASE s # t
    BY <1>1, <2>1, OtherThreads, FixStays
  <2>2. CASE s = t
    <3>1. ASSUME NEW e \in Funcs \cup Users, Register(t, e) PROVE FixSoon(t)'
      <4>1. UNCHANGED <<todo, cur, flush, init>>
        BY <3>1, Zenon DEF Register
      <4> QED
        BY <4>1, FixStays
    <3>2. ASSUME NEW e \in Funcs \cup Users, Trigger(t, e) PROVE FixSoon(t)'
      BY <3>2, TriggerFix
    <3>3. ASSUME CallStep(t) PROVE FixSoon(t)'
      BY <3>3, EventFix, RecordFix, OtherCallsFix DEF CallStep
    <3>4. ASSUME FlushStep(t) PROVE FixSoon(t)'
      BY <3>4, FlushFix
    <3>5. ASSUME Close(t) PROVE FixSoon(t)'
      BY <3>5, CloseFix
    <3> QED
      BY <1>1, <2>2, <3>1, <3>2, <3>3, <3>4, <3>5
  <2> QED
    BY <2>1, <2>2
<1>2. ASSUME NEW n \in Nodes, SetNode(n) PROVE FixSoon(t)'
  BY <1>2, SetNodeFix
<1>3. ASSUME Tick \/ Finished \/ UNCHANGED vars PROVE FixSoon(t)'
  <2>1. UNCHANGED <<todo, cur, flush, init>>
    BY <1>3, Zenon DEF Tick, Finished, vars
  <2> QED
    BY <2>1, FixStays
<1> QED
  BY <1>1, <1>2, <1>3 DEF Next

\* TauTraceEventWithNodeId never reaches below the first record of the buffer
\* for the records that TauTraceInit created.
THEOREM FixStaysInBuffer == Spec => []FixInBounds
<1> DEFINE Inv == IInv /\ \A t \in Tids : FixSoon(t)
<1>1. Init => Inv
  <2>1. Init => IInv
    BY InitIInv
  <2>2. Init => \A t \in Tids : FixSoon(t)
    BY DEF Init, FixSoon
  <2> QED
    BY <2>1, <2>2
<1>2. Inv /\ [Next]_vars => Inv'
  <2> SUFFICES ASSUME Inv, [Next]_vars PROVE Inv'
    OBVIOUS
  <2>1. IInv'
    BY NextIInv
  <2>2. \A t \in Tids : FixSoon(t)'
    BY NextFix
  <2> QED
    BY <2>1, <2>2
<1>3. Inv => FixInBounds
  <2> SUFFICES ASSUME Inv, NEW t \in Tids, Doing(t, "Fix")
               PROVE  Head(todo[t]).n <= cur[t]
    BY DEF FixInBounds
  <2>1. TypeOK /\ cur[t] \in Nat /\ FixSoon(t)
    BY DEF IInv, TypeOK
  <2>2. todo[t] \in Seq(CallRecords)
    BY <2>1 DEF TypeOK, CallRecords
  <2>3. flush[t].stage = "no" /\ todo[t] # <<>> /\ Head(todo[t]).do = "Fix"
    BY DEF Doing
  <2>4. Head(todo[t]) = todo[t][1] /\ 1 \in 1 .. Len(todo[t])
    BY <2>2, <2>3, HeadTailProperties
  <2> QED
    BY <2>1, <2>3, <2>4 DEF FixSoon
<1> QED
  BY <1>1, <1>2, <1>3, PTL DEF Spec

-----------------------------------------------------------------------------
(* Functions.                                                              *)

\* All registered functions are in some EDF file, and in that of the node if a
\* trace file has been named and the node kept its id since.
InEdf(n) == Funcs \cap defs \subseteq edf[n]

Dumped == /\ \E n \in NodeNumbers : InEdf(n)
          /\ opened[0] # NotOpen /\ ~moved => InEdf(node)

\* A dump in its midst has been made.
DumpMade == flush[0].stage \in {"clear", "write"}

\* They are so unless the flag says otherwise and no dump has been made; nothing is
\* dumped nor written before the trace file has a name, and the name has the
\* node's id as long as this is kept.
FuncsDumped ==
    /\ usesMPI
    /\ opened[0] = NotOpen => /\ file[0] = <<>>
                              /\ flag \/ Funcs \cap defs = {}
                              /\ flush[0].stage \in {"no", "begin"}
    /\ opened[0] # NotOpen => moved \/ opened[0] = node
    /\ ~flag \/ DumpMade => Dumped

\* Steps that do not touch what the invariant is about.
LEMMA FuncsDumpedStays ==
    ASSUME FuncsDumped, UNCHANGED <<node, moved, usesMPI, flag, defs, edf, file, opened>>,
           flush'[0].stage = flush[0].stage
    PROVE  FuncsDumped'
<1>1. UNCHANGED <<node, moved, edf, opened, defs>>
  OBVIOUS
<1>2. \A n : InEdf(n) <=> InEdf(n)'
  BY <1>1 DEF InEdf
<1>3. Dumped => Dumped'
  BY <1>1, <1>2 DEF Dumped
<1>4. DumpMade' => DumpMade
  BY DEF DumpMade
<1> QED
  BY <1>3, <1>4 DEF FuncsDumped

\* A flush that is over, or begins only now.
LEMMA FuncsDumpedFlush ==
    ASSUME FuncsDumped, UNCHANGED <<node, moved, usesMPI, flag, defs, edf, file, opened>>,
           flush'[0].stage \in {"no", "begin"}
    PROVE  FuncsDumped'
<1>1. UNCHANGED <<node, moved, edf, opened, defs>>
  OBVIOUS
<1>2. \A n : InEdf(n) <=> InEdf(n)'
  BY <1>1 DEF InEdf
<1>3. Dumped => Dumped'
  BY <1>1, <1>2 DEF Dumped
<1>4. ~DumpMade'
  BY DEF DumpMade
<1> QED
  BY <1>3, <1>4 DEF FuncsDumped

\* The file of the node after TauTraceDumpEDF, and those of the other nodes.
LEMMA DumpWrites ==
    ASSUME TypeOK, FuncsDumped, DumpEDF(0)
    PROVE  edf'[node] = defs /\ \A n \in NodeNumbers \ {node} : edf'[n] = edf[n]
BY DEF DumpEDF, FuncsDumped, TypeOK

\* The name of the first file of a trace.
LEMMA OpenedAt ==
    ASSUME TypeOK, 0 \in Tids, FlushBegin(0)
    PROVE  /\ opened'[0] = IF opened[0] = NotOpen THEN node ELSE opened[0]
           /\ opened'[0] # NotOpen
           /\ flush'[0].stage = IF flag THEN "dump" ELSE "write"
<1>1. node # NotOpen
  <2>1. \A n \in NodeNumbers : n # NotOpen
    BY TracerAssumption DEF TracerAssumption, NodeNumbers, NotOpen
  <2> QED
    BY <2>1 DEF TypeOK
<1> QED
  BY <1>1 DEF FlushBegin, TypeOK

LEMMA NextFuncsDumped ==
    ASSUME Tids = {0}, TypeOK, FuncsDumped, [Next]_vars
    PROVE  FuncsDumped'
<1>0. 0 \in Tids /\ node \in NodeNumbers
  BY DEF TypeOK
<1>1. ASSUME NEW e \in Funcs \cup Users, Register(0, e) PROVE FuncsDumped'
  <2>1. flush[0].stage = "no" /\ UNCHANGED <<flush, usesMPI, node, moved, edf, file, opened>>
        /\ flag' = (flag \/ e \in Funcs) /\ defs' = defs \cup {e}
    BY <1>1 DEF Register, Idle
  <2>2. ~DumpMade' /\ flush'[0].stage = "no"
    BY <2>1 DEF DumpMade
  <2>3. CASE e \in Funcs
    BY <2>1, <2>2, <2>3 DEF FuncsDumped
  <2>4. CASE e \notin Funcs
    <3>1. Funcs \cap defs' = Funcs \cap defs /\ (flag' <=> flag)
      BY <2>1, <2>4
    <3>2. \A n : InEdf(n)' <=> InEdf(n)
      BY <2>1, <3>1 DEF InEdf
    <3>3. Dumped => Dumped'
      BY <2>1, <3>2 DEF Dumped
    <3> QED
      BY <2>1, <2>2, <3>1, <3>3 DEF FuncsDumped
  <2> QED
    BY <2>3, <2>4
<1>2. ASSUME FlushBegin(0) PROVE FuncsDumped'
  <2>1. /\ opened'[0] = (IF opened[0] = NotOpen THEN node ELSE opened[0])
        /\ opened'[0] # NotOpen
        /\ flush'[0].stage = IF flag THEN "dump" ELSE "write"
    BY <1>0, <1>2, OpenedAt
  <2>2. UNCHANGED <<node, moved, usesMPI, defs, edf, flag>>
    BY <1>2 DEF FlushBegin
  <2>3. \A n : InEdf(n)' <=> InEdf(n)
    BY <2>2 DEF InEdf
  <2>4. ~flag => Dumped'
    <3>1. CASE opened[0] # NotOpen
      BY <2>1, <2>2, <2>3, <3>1 DEF FuncsDumped, Dumped
    <3>2. CASE opened[0] = NotOpen /\ ~flag
      <4>1. InEdf(node)
        BY <3>2 DEF FuncsDumped, InEdf
      <4> QED
        BY <1>0, <2>2, <2>3, <4>1 DEF Dumped
    <3> QED
      BY <3>1, <3>2
  <2>5. DumpMade' => ~flag
    BY <2>1 DEF DumpMade
  <2>6. opened'[0] # NotOpen => moved' \/ opened'[0] = node'
    BY <2>1, <2>2 DEF FuncsDumped
  <2>7. usesMPI' /\ (~flag' => Dumped')
    BY <2>2, <2>4 DEF FuncsDumped
  <2> QED
    BY <2>1, <2>4, <2>5, <2>6, <2>7 DEF FuncsDumped
<1>3. ASSUME FlushDump(0) \/ DoDumpEDF(0) PROVE FuncsDumped'
  <2>1. /\ DumpEDF(0) /\ UNCHANGED <<node, moved, usesMPI, defs, flag, file, opened>>
    BY <1>3 DEF FlushDump, DoDumpEDF
  <2>2. edf'[node] = defs
    BY <2>1, DumpWrites
  <2>3. InEdf(node)'
    BY <2>1, <2>2 DEF InEdf
  <2>4. Dumped'
    BY <1>0, <2>1, <2>3 DEF Dumped
  <2>5. opened[0] = NotOpen => flush'[0].stage \in {"no", "begin"}
    <3>1. CASE DoDumpEDF(0)
      BY <3>1 DEF DoDumpEDF, FuncsDumped
    <3>2. CASE FlushDump(0)
      BY <3>2 DEF FlushDump, FuncsDumped
    <3> QED
      BY <1>3, <3>1, <3>2
  <2> QED
    BY <2>1, <2>4, <2>5 DEF FuncsDumped
<1>4. ASSUME FlushClear(0) PROVE FuncsDumped'
  <2>1. /\ flush[0].stage = "clear" /\ UNCHANGED <<node, moved, usesMPI, defs, edf, file, opened>>
    BY <1>4 DEF FlushClear
  <2>2. Dumped /\ opened[0] # NotOpen
    BY <2>1 DEF FuncsDumped, DumpMade
  <2>3. \A n : InEdf(n)' <=> InEdf(n)
    BY <2>1 DEF InEdf
  <2>4. Dumped'
    BY <2>1, <2>2, <2>3 DEF Dumped
  <2> QED
    BY <2>1, <2>2, <2>4 DEF FuncsDumped
<1>5. ASSUME FlushWrite(0) PROVE FuncsDumped'
  <2>1. /\ flush[0].stage = "write" /\ UNCHANGED <<node, moved, usesMPI, defs, edf, flag, opened>>
    BY <1>5 DEF FlushWrite
  <2>2. Dumped /\ opened[0] # NotOpen
    BY <2>1 DEF FuncsDumped, DumpMade
  <2>3. \A n : InEdf(n)' <=> InEdf(n)
    BY <2>1 DEF InEdf
  <2>4. Dumped'
    BY <2>1, <2>2, <2>3 DEF Dumped
  <2> QED
    BY <2>1, <2>2, <2>4 DEF FuncsDumped
<1>6. ASSUME FlushMark(0) \/ DoFlush(0) PROVE FuncsDumped'
  <2>1. UNCHANGED <<node, moved, usesMPI, flag, defs, edf, file, opened>>
    BY <1>6, Zenon DEF FlushMark, DoFlush
  <2>2. flush'[0].stage \in {"no", "begin"}
    BY <1>0, <1>6 DEF FlushMark, DoFlush, NoFlush, TypeOK
  <2> QED
    BY <2>1, <2>2, FuncsDumpedFlush
<1>7. ASSUME DoRecord(0) PROVE FuncsDumped'
  <2>1. UNCHANGED <<node, moved, usesMPI, flag, defs, edf, file, opened>>
    BY <1>7, Zenon DEF DoRecord
  <2>2. flush'[0].stage \in {"no", "begin"}
    BY <1>0, <1>7 DEF DoRecord, Doing, TypeOK
  <2> QED
    BY <2>1, <2>2, FuncsDumpedFlush
<1>8. ASSUME NEW e \in Funcs \cup Users, Trigger(0, e) PROVE FuncsDumped'
  BY <1>8, FuncsDumpedStays DEF Trigger
<1>9. ASSUME DoTraceEvent(0) \/ DoEventWithNodeId(0) \/ DoFix(0) \/ Close(0)
      PROVE  FuncsDumped'
  <2>1. UNCHANGED <<node, moved, usesMPI, flag, defs, edf, file, opened, flush>>
    BY <1>9, Zenon DEF DoTraceEvent, DoEventWithNodeId, DoFix, Close
  <2> QED
    BY <2>1, FuncsDumpedStays
<1>10. ASSUME NEW n \in Nodes, SetNode(n) PROVE FuncsDumped'
  <2>1. /\ UNCHANGED <<flag, defs, edf, file, opened, flush>> /\ usesMPI' \in {usesMPI, TRUE}
        /\ node' = n /\ (moved' <=> (moved \/ (n # node /\ \E t \in Tids : opened[t] # NotOpen)))
    BY <1>10 DEF SetNode
  <2>2. opened[0] # NotOpen => moved' \/ (node' = node /\ ~moved)
    BY <1>0, <2>1
  <2>3. \A x : InEdf(x)' <=> InEdf(x)
    BY <2>1 DEF InEdf
  <2>4. Dumped => Dumped'
    BY <2>1, <2>2, <2>3 DEF Dumped
  <2>5. DumpMade' <=> DumpMade
    BY <2>1 DEF DumpMade
  <2>6. opened'[0] # NotOpen => moved' \/ opened'[0] = node'
    BY <2>1, <2>2 DEF FuncsDumped
  <2>7. usesMPI' = TRUE
    BY <2>1 DEF FuncsDumped
  <2> QED
    BY <2>1, <2>4, <2>5, <2>6, <2>7 DEF FuncsDumped
<1>11. CASE Tick \/ Finished \/ UNCHANGED vars
  <2>1. UNCHANGED <<node, moved, usesMPI, flag, defs, edf, file, opened, flush>>
    BY <1>11, Zenon DEF Tick, Finished, vars
  <2> QED
    BY <2>1, FuncsDumpedStays
<1>12. ASSUME CallStep(0) \/ FlushStep(0) PROVE FuncsDumped'
  BY <1>12, <1>2, <1>3, <1>4, <1>5, <1>6, <1>7, <1>9, Zenon DEF CallStep, FlushStep
<1>13. \A t \in Tids : t = 0
  OBVIOUS
<1> QED
  BY <1>1, <1>8, <1>9, <1>10, <1>11, <1>12, <1>13 DEF Next

\* The function of record i of the trace is defined as it should be.
DefinedAt(i) ==
    file[0][i].ev \in Funcs =>
       /\ \E n \in NodeNumbers : file[0][i].ev \in edf[n]
       /\ ~moved => file[0][i].ev \in edf[opened[0]]

LEMMA OneTrace ==
    ASSUME Tids = {0}
    PROVE  FunctionsDefined <=> \A i \in 1 .. Len(file[0]) : DefinedAt(i)
BY DEF FunctionsDefined, DefinedAt

LEMMA OneTraceNext ==
    ASSUME Tids = {0}, \A i \in 1 .. Len(file'[0]) : DefinedAt(i)'
    PROVE  FunctionsDefined'
BY DEF FunctionsDefined, DefinedAt

\* What is written is defined.
LEMMA NextFunctionsDefined ==
    ASSUME Tids = {0}, IInv, Known, FuncsDumped, FunctionsDefined, [Next]_vars
    PROVE  FunctionsDefined'
<1>0. /\ TypeOK /\ file \in [Tids -> Seq(Records)] /\ file[0] \in Seq(KnownRecords)
      /\ 0 \in Tids /\ node \in NodeNumbers
  BY DEF IInv, TypeOK, Known, KnownOf
<1>q. \A i \in 1 .. Len(file[0]) : DefinedAt(i)
  BY OneTrace
<1>k. \A i \in 1 .. Len(file[0]) : file[0][i].ev \in Funcs => file[0][i].ev \in defs
  <2>1. \A i \in 1 .. Len(file[0]) : file[0][i].ev \in KnownEvents
    BY <1>0, ElementOfSeq DEF KnownRecords
  <2> QED
    BY <2>1, TracerAssumption DEF TracerAssumption, KnownEvents, AppEvents
<1>1. ASSUME FlushWrite(0) PROVE FunctionsDefined'
  <2>1. /\ UNCHANGED <<edf, node, moved, opened, defs>> /\ flush[0].stage = "write"
        /\ file' = [file EXCEPT ![0] = file[0] \o Pending(0)]
    BY <1>1 DEF FlushWrite, FuncsDumped
  <2>2. Dumped /\ opened[0] # NotOpen
    BY <2>1 DEF FuncsDumped, DumpMade
  <2>3. Pending(0) \in Seq(KnownRecords)
    <3>1. buf[0] \in Seq(KnownRecords) /\ cur[0] \in Nat /\ cur[0] <= Len(buf[0])
      BY <1>0 DEF IInv, TypeOK, Filled, Known, KnownOf
    <3> QED
      BY <3>1 DEF Pending
  <2>4. file'[0] \in Seq(KnownRecords)
    BY <1>0, <2>1, <2>3, ConcatProperties
  <2>5. \A i \in 1 .. Len(file'[0]) : file'[0][i].ev \in KnownEvents
    BY <2>4, ElementOfSeq DEF KnownRecords
  <2>6. KnownEvents \cap Funcs \subseteq Funcs \cap defs
    BY TracerAssumption DEF TracerAssumption, KnownEvents, AppEvents
  <2>7. PICK n \in NodeNumbers : InEdf(n)
    BY <2>2 DEF Dumped
  <2>8. ~moved => InEdf(node) /\ opened[0] = node
    BY <2>2 DEF Dumped, FuncsDumped
  <2>9. ASSUME NEW i \in 1 .. Len(file'[0]) PROVE DefinedAt(i)'
    <3>1. file'[0][i].ev \in Funcs => file'[0][i].ev \in Funcs \cap defs
      BY <2>5, <2>6
    <3>2. file'[0][i].ev \in Funcs => file'[0][i].ev \in edf[n]
      BY <2>7, <3>1 DEF InEdf
    <3>3. file'[0][i].ev \in Funcs /\ ~moved => file'[0][i].ev \in edf[opened[0]]
      BY <2>8, <3>1 DEF InEdf
    <3> QED
      BY <2>1, <2>7, <3>2, <3>3 DEF DefinedAt
  <2> QED
    BY <2>9, OneTraceNext
<1>2. ASSUME FlushDump(0) \/ DoDumpEDF(0) PROVE FunctionsDefined'
  <2>1. UNCHANGED <<node, file, moved, opened>> /\ DumpEDF(0)
    BY <1>2 DEF FlushDump, DoDumpEDF
  <2>2. edf'[node] = defs /\ \A n \in NodeNumbers \ {node} : edf'[n] = edf[n]
    BY <1>0, <2>1, DumpWrites
  <2>3. ASSUME NEW i \in 1 .. Len(file[0]) PROVE DefinedAt(i)'
    <3>1. file[0][i].ev \in Funcs => file[0][i].ev \in edf'[node]
      BY <1>k, <2>2
    <3>2. opened[0] = NotOpen => Len(file[0]) = 0
      BY DEF FuncsDumped
    <3>3. ~moved => opened[0] = node
      BY <3>2 DEF FuncsDumped
    <3> QED
      BY <1>0, <2>1, <3>1, <3>3 DEF DefinedAt
  <2> QED
    BY <2>1, <2>3, OneTraceNext
<1>3. ASSUME UNCHANGED <<file, edf, opened, moved>> PROVE FunctionsDefined'
  <2>1. \A i \in 1 .. Len(file[0]) : DefinedAt(i)'
    BY <1>3, <1>q DEF DefinedAt
  <2> QED
    BY <1>3, <2>1, OneTraceNext
<1>4. ASSUME NEW e \in Funcs \cup Users, Register(0, e) \/ Trigger(0, e)
      PROVE  FunctionsDefined'
  BY <1>3, <1>4, Zenon DEF Register, Trigger
<1>5. ASSUME DoTraceEvent(0) \/ DoEventWithNodeId(0) \/ DoFix(0) \/ DoRecord(0) \/ DoFlush(0)
               \/ FlushClear(0) \/ FlushMark(0) \/ Close(0)
      PROVE  FunctionsDefined'
  <2>1. UNCHANGED <<file, edf, opened, moved>>
    BY <1>5, Zenon DEF DoTraceEvent, DoEventWithNodeId, DoFix, DoRecord, DoFlush,
       FlushClear, FlushMark, Close
  <2> QED
    BY <1>3, <2>1
<1>6. ASSUME FlushBegin(0) PROVE FunctionsDefined'
  <2>1. UNCHANGED <<file, edf, moved>>
        /\ opened'[0] = IF opened[0] = NotOpen THEN node ELSE opened[0]
    BY <1>0, <1>6, OpenedAt DEF FlushBegin
  <2>2. CASE opened[0] = NotOpen
    <3>1. Len(file'[0]) = 0
      BY <2>1, <2>2 DEF FuncsDumped
    <3>2. \A i \in 1 .. Len(file'[0]) : DefinedAt(i)'
      BY <3>1
    <3> QED
      BY <3>2, OneTraceNext
  <2>3. CASE opened[0] # NotOpen
    <3>1. opened'[0] = opened[0]
      BY <2>1, <2>3
    <3>2. \A i \in 1 .. Len(file[0]) : DefinedAt(i)'
      BY <1>q, <2>1, <3>1 DEF DefinedAt
    <3> QED
      BY <2>1, <3>2, OneTraceNext
  <2> QED
    BY <2>2, <2>3
<1>7. ASSUME NEW n \in Nodes, SetNode(n) PROVE FunctionsDefined'
  <2>1. UNCHANGED <<file, edf, opened>> /\ (moved => moved')
    BY <1>7 DEF SetNode
  <2>2. \A i \in 1 .. Len(file[0]) : DefinedAt(i)'
    BY <1>q, <2>1 DEF DefinedAt
  <2> QED
    BY <2>1, <2>2, OneTraceNext
<1>8. CASE Tick \/ Finished \/ UNCHANGED vars
  <2>1. UNCHANGED <<file, edf, opened, moved>>
    BY <1>8, Zenon DEF Tick, Finished, vars
  <2> QED
    BY <1>3, <2>1
<1>9. ASSUME CallStep(0) \/ FlushStep(0) PROVE FunctionsDefined'
  BY <1>9, <1>1, <1>2, <1>5, <1>6, Zenon DEF CallStep, FlushStep
<1>10. \A t \in Tids : t = 0
  OBVIOUS
<1> QED
  BY <1>4, <1>5, <1>7, <1>8, <1>9, <1>10 DEF Next

\* With one thread, and without MPI, no record of a function reaches the file
\* before the function's definition is in an EDF file: in one of the process, in
\* that of the trace's node unless the node id changed after the file was named.
\* With more threads one of them can be between dumping the definitions and
\* clearing the flag when another one registers a function; with MPI the flag is
\* cleared by flushes that dump nothing.
THEOREM DefinedBefore == NumThreads = 1 /\ ~MpiBuild => (Spec => []FunctionsDefined)
<1> SUFFICES ASSUME NumThreads = 1, ~MpiBuild PROVE Spec => []FunctionsDefined
  OBVIOUS
<1>0. Tids = {0}
  BY DEF Tids
<1> DEFINE Inv == IInv /\ Known /\ FuncsDumped /\ FunctionsDefined
<1>1. Init => Inv
  <2> SUFFICES ASSUME Init PROVE Inv
    OBVIOUS
  <2>1. IInv /\ Known
    BY InitIInv, InitKnown
  <2>2. FuncsDumped
    <3>1. \A i \in 1 .. Len(Counters) : Counters[i] \notin Funcs
      <4>1. Counters \in Seq(AppEvents \ (Funcs \cup Users))
        BY TracerAssumption
      <4>2. \A i \in 1 .. Len(Counters) : Counters[i] \in AppEvents \ (Funcs \cup Users)
        BY <4>1, ElementOfSeq
      <4> QED
        BY <4>2
    <3>2. Funcs \cap defs = {} /\ usesMPI
      BY <3>1 DEF Init
    <3>3. /\ opened[0] = NotOpen /\ file[0] = <<>> /\ flush[0].stage = "no"
          /\ node \in NodeNumbers
      BY <1>0 DEF Init, NoFlush, NodeNumbers
    <3>4. Dumped
      BY <3>2, <3>3 DEF Dumped, InEdf
    <3> QED
      BY <3>2, <3>3, <3>4 DEF FuncsDumped
  <2>3. FunctionsDefined
    BY DEF Init, FunctionsDefined
  <2> QED
    BY <2>1, <2>2, <2>3
<1>2. Inv /\ [Next]_vars => Inv'
  <2> SUFFICES ASSUME Inv, [Next]_vars PROVE Inv'
    OBVIOUS
  <2>1. IInv' /\ Known'
    BY NextIInv, NextKnown
  <2>2. FuncsDumped'
    BY <1>0, NextFuncsDumped DEF IInv
  <2>3. FunctionsDefined'
    BY <1>0, NextFunctionsDefined
  <2> QED
    BY <2>1, <2>2, <2>3
<1>3. Inv => FunctionsDefined
  OBVIOUS
<1> QED
  BY <1>1, <1>2, <1>3, PTL DEF Spec

-----------------------------------------------------------------------------
(* What the steps do to the trace of a thread.                             *)

\* The records of a buffer once more have been written behind those it held.
LEMMA WrittenFront ==
    ASSUME NEW S, NEW b \in Seq(S), NEW i \in Nat, NEW rs \in Seq(S), i <= Len(b)
    PROVE  SubSeq(Written(b, i, rs), 1, i + Len(rs)) = SubSeq(b, 1, i) \o rs
<1> DEFINE head == SubSeq(b, 1, i)
           rest == SubSeq(b, i + Len(rs) + 1, Len(b))
           front == head \o rs
<1>1. head \in Seq(S) /\ Len(head) = i
  <2>1. \A j \in 1 .. i : b[j] \in S
    BY ElementOfSeq
  <2> QED
    BY <2>1, SubSeqProperties
<1>2. rest \in Seq(S)
  OBVIOUS
<1>3. PICK k \in Nat : k = i + Len(rs)
  BY LenProperties
<1> HIDE DEF head, rest
<1>4. front \in Seq(S) /\ Len(front) = k
  BY <1>1, <1>3, ConcatProperties
<1>5. Written(b, i, rs) = front \o rest
  BY DEF Written, head, rest
<1> HIDE DEF front
<1>6. /\ front \o rest \in Seq(S)
      /\ \A j \in 1 .. k : (front \o rest)[j] = front[j] /\ (front \o rest)[j] \in S
  <2>1. \A j \in 1 .. k : front[j] \in S
    BY <1>4, ElementOfSeq
  <2>2. Len(rest) \in Nat
    BY <1>2
  <2> QED
    BY <1>2, <1>3, <1>4, <2>1, <2>2, ConcatProperties
<1> DEFINE x == front \o rest
           w == SubSeq(x, 1, k)
<1>7. w \in Seq(S) /\ Len(w) = k /\ \A j \in 1 .. k : w[j] = front[j]
  <2>1. \A j \in 1 .. k : x[j] \in S /\ x[j] = front[j]
    BY <1>6
  <2> HIDE DEF x
  <2> QED
    BY <2>1, SubSeqProperties
<1> HIDE DEF w
<1>8. w = front
  BY <1>4, <1>7, SeqEqual
<1> QED
  BY <1>3, <1>5, <1>8 DEF w, x, front, head

\* A sequence with the first records of another one behind it.
LEMMA FrontBehind ==
    ASSUME NEW S, NEW f \in Seq(S), NEW b \in Seq(S), NEW k \in Nat, k <= Len(b)
    PROVE  /\ Len(f) \in Nat
           /\ SubSeq(b, 1, k) \in Seq(S) /\ Len(SubSeq(b, 1, k)) = k
           /\ \A i \in 1 .. k : SubSeq(b, 1, k)[i] = b[i]
           /\ f \o SubSeq(b, 1, k) \in Seq(S)
           /\ Len(f \o SubSeq(b, 1, k)) = Len(f) + k
           /\ \A i \in 1 .. Len(f) : (f \o SubSeq(b, 1, k))[i] = f[i]
           /\ \A i \in 1 .. k : (f \o SubSeq(b, 1, k))[Len(f) + i] = b[i]
<1> DEFINE p == SubSeq(b, 1, k)
<1>1. PICK m \in Nat : m = Len(f)
  BY LenProperties
<1>2. p \in Seq(S) /\ Len(p) = k /\ \A i \in 1 .. k : p[i] = b[i]
  <2>1. \A i \in 1 .. k : b[i] \in S
    BY ElementOfSeq
  <2> QED
    BY <2>1, SubSeqProperties
<1> HIDE DEF p
<1> DEFINE x == f \o p
<1>3. /\ x \in Seq(S) /\ Len(x) = m + k
      /\ \A i \in 1 .. m + k : x[i] = IF i <= m THEN f[i] ELSE p[i - m]
  BY <1>1, <1>2, ConcatProperties
<1> HIDE DEF x
<1>4. \A i \in 1 .. m : x[i] = f[i]
  BY <1>3
<1>5. \A i \in 1 .. k : x[m + i] = b[i]
  BY <1>2, <1>3
<1> QED
  BY <1>1, <1>2, <1>3, <1>4, <1>5 DEF p, x

\* A trace is the file's records and then the buffer's.
LEMMA TraceProperties ==
    ASSUME IInv, NEW t \in Tids
    PROVE  /\ file[t] \in Seq(Records) /\ buf[t] \in Seq(Records) /\ cur[t] \in Nat
           /\ cur[t] <= Len(buf[t]) /\ Len(file[t]) \in Nat
           /\ Pending(t) \in Seq(Records) /\ Len(Pending(t)) = cur[t]
           /\ \A i \in 1 .. cur[t] : Pending(t)[i] = buf[t][i]
           /\ Trace(t) \in Seq(Records) /\ Len(Trace(t)) = Len(file[t]) + cur[t]
           /\ \A i \in 1 .. Len(file[t]) : Trace(t)[i] = file[t][i]
           /\ \A i \in 1 .. cur[t] : Trace(t)[Len(file[t]) + i] = buf[t][i]
<1>1. /\ file[t] \in Seq(Records) /\ buf[t] \in Seq(Records) /\ cur[t] \in Nat
      /\ cur[t] <= Len(buf[t])
  BY DEF IInv, TypeOK, Filled
<1> DEFINE f == file[t]
           b == buf[t]
           k == cur[t]
           p == SubSeq(b, 1, k)
           x == f \o p
<1>2. f \in Seq(Records) /\ b \in Seq(Records) /\ k \in Nat /\ k <= Len(b)
  BY <1>1
<1>3. Pending(t) = p /\ Trace(t) = x
  BY DEF Trace, Pending
<1> HIDE DEF f, b, k
<1>4. /\ Len(f) \in Nat /\ p \in Seq(Records) /\ Len(p) = k
      /\ \A i \in 1 .. k : p[i] = b[i]
      /\ x \in Seq(Records) /\ Len(x) = Len(f) + k
      /\ \A i \in 1 .. Len(f) : x[i] = f[i]
      /\ \A i \in 1 .. k : x[Len(f) + i] = b[i]
  BY <1>2, FrontBehind
<1> HIDE DEF p, x
<1> QED
  BY <1>2, <1>3, <1>4 DEF f, b, k

\* Nothing is written.
LEMMA SameTrace ==
    ASSUME NEW t \in Tids, UNCHANGED <<buf[t], cur[t], file[t]>>
    PROVE  Trace(t)' = Trace(t)
BY DEF Trace, Pending

\* Records are written into the buffer.
LEMMA TraceGrows ==
    ASSUME IInv, NEW t \in Tids, NEW rs \in Seq(Records),
           buf' = [buf EXCEPT ![t] = Written(@, cur[t], rs)],
           cur' = [cur EXCEPT ![t] = @ + Len(rs)], file' = file
    PROVE  Trace(t)' = Trace(t) \o rs
<1>1. /\ file[t] \in Seq(Records) /\ buf[t] \in Seq(Records) /\ cur[t] \in Nat
      /\ cur[t] <= Len(buf[t]) /\ Pending(t) \in Seq(Records)
  BY TraceProperties
<1>2. buf'[t] = Written(buf[t], cur[t], rs) /\ cur'[t] = cur[t] + Len(rs)
  BY DEF IInv, TypeOK
<1>3. Pending(t)' = Pending(t) \o rs
  <2>1. Pending(t)' = SubSeq(Written(buf[t], cur[t], rs), 1, cur[t] + Len(rs))
    BY <1>2 DEF Pending
  <2> QED
    BY <1>1, <2>1, WrittenFront DEF Pending
<1>4. Trace(t)' = file[t] \o (Pending(t) \o rs)
  <2>1. Trace(t)' = file'[t] \o Pending(t)'
    BY DEF Trace
  <2> QED
    BY <1>3, <2>1
<1>5. (file[t] \o Pending(t)) \o rs = file[t] \o (Pending(t) \o rs)
  <2> DEFINE f == file[t]
             p == Pending(t)
  <2>1. f \in Seq(Records) /\ p \in Seq(Records) /\ rs \in Seq(Records)
    BY <1>1
  <2> HIDE DEF f, p
  <2>2. (f \o p) \o rs = f \o (p \o rs)
    BY <2>1, ConcatAssociative
  <2> QED
    BY <2>2 DEF f, p
<1>6. Trace(t) = file[t] \o Pending(t)
  BY DEF Trace
<1> QED
  BY <1>4, <1>5, <1>6

\* The records that DoRecord writes.
RecordsOf(t) ==
    LET c == Head(todo[t])
        new == NewRecords(t, c)
    IN new \o (IF Full(cur[t] + Len(new)) THEN <<Record("FLUSH", c.ts, c.nid)>> ELSE <<>>)

LEMMA RecordTrace ==
    ASSUME IInv, NEW t \in Tids, DoRecord(t)
    PROVE  /\ RecordsOf(t) \in Seq(Records)
           /\ Trace(t)' = Trace(t) \o RecordsOf(t)
           /\ cur'[t] = cur[t] + Len(RecordsOf(t))
<1> DEFINE c == Head(todo[t])
           new == NewRecords(t, c)
           mark == IF Full(cur[t] + Len(new)) THEN <<Record("FLUSH", c.ts, c.nid)>> ELSE <<>>
<1>1. TypeOK /\ c \in CallRecords
  BY DoingProperties DEF IInv, DoRecord
<1>2. new \in Seq(Records)
  BY <1>1, NewRecordsProperties
<1>3. mark \in Seq(Records)
  <2>1. Record("FLUSH", c.ts, c.nid) \in Records
    BY <1>1, RecordType DEF CallRecords, Marks
  <2> QED
    BY <2>1
<1>4. /\ buf' = [buf EXCEPT ![t] = Written(@, cur[t], new \o mark)]
      /\ cur' = [cur EXCEPT ![t] = @ + Len(new \o mark)] /\ file' = file
  BY DEF DoRecord
<1>5. RecordsOf(t) = new \o mark
  BY DEF RecordsOf
<1> HIDE DEF new, mark
<1>6. new \o mark \in Seq(Records)
  BY <1>2, <1>3, ConcatProperties
<1> DEFINE rs == new \o mark
<1>7. rs \in Seq(Records) /\ buf' = [buf EXCEPT ![t] = Written(@, cur[t], rs)]
      /\ cur' = [cur EXCEPT ![t] = @ + Len(rs)] /\ file' = file /\ RecordsOf(t) = rs
  BY <1>4, <1>5, <1>6
<1> HIDE DEF rs
<1>8. cur'[t] = cur[t] + Len(rs)
  BY <1>1, <1>7 DEF TypeOK
<1> QED
  BY <1>7, <1>8, TraceGrows

LEMMA MarkTrace ==
    ASSUME IInv, NEW t \in Tids, FlushMark(t)
    PROVE  /\ Record("FLUSH", 0, flush[t].nid) \in Records
           /\ Trace(t)' = Trace(t) \o <<Record("FLUSH", 0, flush[t].nid)>>
<1> DEFINE r == Record("FLUSH", 0, flush[t].nid)
           rs == <<r>>
<1>1. TypeOK /\ flush[t].nid \in Int
  BY DEF IInv, TypeOK
<1>2. r \in Records
  BY <1>1, RecordType DEF Marks
<1>3. /\ buf' = [buf EXCEPT ![t] = Written(@, cur[t], rs)]
      /\ cur' = [cur EXCEPT ![t] = @ + 1] /\ file' = file
  BY DEF FlushMark
<1> HIDE DEF r
<1>4. rs \in Seq(Records) /\ Len(rs) = 1
  BY <1>2
<1> HIDE DEF rs
<1>5. Trace(t)' = Trace(t) \o rs
  BY <1>3, <1>4, TraceGrows
<1> QED
  BY <1>2, <1>5 DEF r, rs

\* What is flushed moves from the buffer to the file.
LEMMA WriteTrace ==
    ASSUME IInv, NEW t \in Tids, FlushWrite(t)
    PROVE  Trace(t)' = Trace(t)
<1>1. CASE usesMPI
  <2>1. /\ file[t] \in Seq(Records) /\ buf[t] \in Seq(Records) /\ cur[t] \in Nat
        /\ Pending(t) \in Seq(Records) /\ Trace(t) \in Seq(Records)
    BY TraceProperties
  <2>2. file'[t] = file[t] \o Pending(t) /\ cur'[t] = 0 /\ buf'[t] = buf[t]
    BY <1>1 DEF FlushWrite, IInv, TypeOK
  <2>3. Pending(t)' = <<>>
    BY <2>2, SubSeqEmpty DEF Pending
  <2>4. Trace(t)' = Trace(t) \o <<>>
    BY <2>2, <2>3 DEF Trace
  <2> QED
    BY <2>1, <2>4, ConcatEmptySeq
<1>2. CASE ~usesMPI
  BY <1>2, SameTrace DEF FlushWrite
<1> QED
  BY <1>1, <1>2

\* Records of a buffer are changed in place.
LEMMA ChangedTrace ==
    ASSUME IInv, IInv', NEW t \in Tids, UNCHANGED <<cur[t], file[t]>>
    PROVE  /\ Len(Trace(t)') = Len(Trace(t))
           /\ \A i \in 1 .. Len(file[t]) : Trace(t)'[i] = Trace(t)[i]
           /\ \A i \in 1 .. cur[t] : Trace(t)'[Len(file[t]) + i] = buf'[t][i]
           /\ \A i \in 1 .. cur[t] : Trace(t)[Len(file[t]) + i] = buf[t][i]
           /\ \A i \in 1 .. Len(Trace(t)) :
                 i \in 1 .. Len(file[t]) \/ \E j \in 1 .. cur[t] : i = Len(file[t]) + j
<1>1. /\ Len(Trace(t)) = Len(file[t]) + cur[t] /\ Len(file[t]) \in Nat /\ cur[t] \in Nat
      /\ \A i \in 1 .. Len(file[t]) : Trace(t)[i] = file[t][i]
      /\ \A i \in 1 .. cur[t] : Trace(t)[Len(file[t]) + i] = buf[t][i]
  BY TraceProperties
<1>2. /\ Len(Trace(t)') = Len(file'[t]) + cur'[t]
      /\ \A i \in 1 .. Len(file'[t]) : Trace(t)'[i] = file'[t][i]
      /\ \A i \in 1 .. cur'[t] : Trace(t)'[Len(file'[t]) + i] = buf'[t][i]
  <2>1. /\ file'[t] \in Seq(Records) /\ buf'[t] \in Seq(Records) /\ cur'[t] \in Nat
        /\ cur'[t] <= Len(buf'[t])
    BY DEF IInv, TypeOK, Filled
  <2>2. Trace(t)' = file'[t] \o SubSeq(buf'[t], 1, cur'[t])
    BY DEF Trace, Pending
  <2> QED
    BY <2>1, <2>2, FrontBehind
<1>3. PICK m \in Nat, k \in Nat : m = Len(file[t]) /\ k = cur[t]
  BY <1>1
<1>4. \A i \in 1 .. m + k : i \in 1 .. m \/ \E j \in 1 .. k : i = m + j
  <2> SUFFICES ASSUME NEW i \in 1 .. m + k, i \notin 1 .. m PROVE \E j \in 1 .. k : i = m + j
    OBVIOUS
  <2>1. i - m \in 1 .. k /\ i = m + (i - m)
    OBVIOUS
  <2> QED
    BY <2>1
<1> QED
  BY <1>1, <1>2, <1>3, <1>4

\* The records keep everything but their node ids.
SameButNode(t) ==
    /\ Len(buf'[t]) = Len(buf[t])
    /\ \A i \in 1 .. Len(buf[t]) : buf'[t][i].ev = buf[t][i].ev /\ buf'[t][i].ts = buf[t][i].ts

LEMMA SameButNodeTrace ==
    ASSUME IInv, IInv', NEW t \in Tids, SameButNode(t), UNCHANGED <<cur[t], file[t]>>
    PROVE  /\ Len(Trace(t)') = Len(Trace(t))
           /\ \A i \in 1 .. Len(Trace(t)) : /\ Trace(t)'[i].ev = Trace(t)[i].ev
                                            /\ Trace(t)'[i].ts = Trace(t)[i].ts
<1>1. PICK m \in Nat, k \in Nat : /\ m = Len(file[t]) /\ k = cur[t] /\ k <= Len(buf[t])
                                  /\ Len(buf[t]) \in Nat
  BY TraceProperties, LenProperties
<1>2. \A i \in 1 .. k : buf'[t][i].ev = buf[t][i].ev /\ buf'[t][i].ts = buf[t][i].ts
  BY <1>1 DEF SameButNode
<1>3. /\ Len(Trace(t)') = Len(Trace(t))
      /\ \A i \in 1 .. m : Trace(t)'[i] = Trace(t)[i]
      /\ \A i \in 1 .. k : Trace(t)'[m + i] = buf'[t][i]
      /\ \A i \in 1 .. k : Trace(t)[m + i] = buf[t][i]
      /\ \A i \in 1 .. Len(Trace(t)) : i \in 1 .. m \/ \E j \in 1 .. k : i = m + j
  BY <1>1, ChangedTrace
<1> DEFINE new == Trace(t)'
           old == Trace(t)
<1>4. /\ Len(new) = Len(old)
      /\ \A i \in 1 .. m : new[i] = old[i]
      /\ \A i \in 1 .. k : new[m + i] = buf'[t][i] /\ old[m + i] = buf[t][i]
      /\ \A i \in 1 .. Len(old) : i \in 1 .. m \/ \E j \in 1 .. k : i = m + j
  BY <1>3
<1> HIDE DEF new, old
<1>5. ASSUME NEW i \in 1 .. Len(old) PROVE new[i].ev = old[i].ev /\ new[i].ts = old[i].ts
  <2>1. CASE i \in 1 .. m
    BY <1>4, <2>1
  <2>2. CASE \E j \in 1 .. k : i = m + j
    <3>1. PICK j \in 1 .. k : i = m + j
      BY <2>2
    <3>2. new[i] = buf'[t][j] /\ old[i] = buf[t][j]
      BY <1>4, <3>1
    <3> QED
      BY <1>2, <3>2
  <2> QED
    BY <1>4, <2>1, <2>2
<1> QED
  BY <1>4, <1>5 DEF new, old

LEMMA TraceInitSame ==
    ASSUME IInv, NEW t \in Tids, NEW n \in Int, TraceInit(t, n)
    PROVE  SameButNode(t)
<1>0. buf[t] \in Seq(Records) /\ buf \in [Tids -> Seq(Records)]
  BY DEF IInv, TypeOK
<1>1. CASE init[t] \/ n = -1
  BY <1>1 DEF TraceInit, SameButNode
<1>2. CASE ~(init[t] \/ n = -1)
  <2> DEFINE c == [i \in 1 .. Len(buf[t]) |-> IF FirstRecordIsInit(t) /\ i <= cur[t]
                                             THEN [buf[t][i] EXCEPT !.nid = n] ELSE buf[t][i]]
  <2>1. buf' = [buf EXCEPT ![t] = c]
    BY <1>2 DEF TraceInit
  <2>2. \A i \in 1 .. Len(buf[t]) : /\ c[i] \in Records
                                    /\ c[i].ev = buf[t][i].ev /\ c[i].ts = buf[t][i].ts
    <3>1. \A r \in Records : /\ [r EXCEPT !.nid = n] \in Records
                             /\ [r EXCEPT !.nid = n].ev = r.ev /\ [r EXCEPT !.nid = n].ts = r.ts
      BY DEF Records
    <3> QED
      BY <1>0, <3>1, ElementOfSeq
  <2>3. c = [i \in 1 .. Len(buf[t]) |-> c[i]]
    OBVIOUS
  <2> HIDE DEF c
  <2>4. Len(c) = Len(buf[t])
    BY <1>0, <2>2, <2>3, MapProperties
  <2> QED
    BY <1>0, <2>1, <2>2, <2>4 DEF SameButNode
<1> QED
  BY <1>1, <1>2

LEMMA RenamedSame ==
    ASSUME IInv, NEW t \in Tids, FlushBegin(t)
    PROVE  SameButNode(t)
<1>0. buf[t] \in Seq(Records) /\ buf \in [Tids -> Seq(Records)] /\ node \in Int
  BY NodeNumbersAreInt DEF IInv, TypeOK
<1>1. buf'[t] = Renamed(t)
  BY <1>0 DEF FlushBegin
<1> DEFINE Old == opened[t] # NotOpen \/ ~FirstRecordIsInit(t) \/ node <= 0
           Mine(i) == /\ i <= cur[t] /\ buf[t][i].nid = 0
                      /\ \A j \in 1 .. i : buf[t][j].nid <= 0
           b == [i \in 1 .. Len(buf[t]) |->
                   IF Mine(i) THEN [buf[t][i] EXCEPT !.nid = node] ELSE buf[t][i]]
<1>2. CASE Old
  BY <1>1, <1>2 DEF Renamed, SameButNode
<1>3. CASE ~Old
  <2>1. \A i \in 1 .. Len(buf[t]) : /\ b[i] \in Records
                                    /\ b[i].ev = buf[t][i].ev /\ b[i].ts = buf[t][i].ts
    <3>1. \A r \in Records : /\ [r EXCEPT !.nid = node] \in Records
                             /\ [r EXCEPT !.nid = node].ev = r.ev
                             /\ [r EXCEPT !.nid = node].ts = r.ts
      BY <1>0 DEF Records
    <3> HIDE DEF Mine
    <3> QED
      BY <1>0, <3>1, ElementOfSeq
  <2>2. b = [i \in 1 .. Len(buf[t]) |-> b[i]]
    OBVIOUS
  <2>3. Renamed(t) = b
    BY <1>3 DEF Renamed
  <2> HIDE DEF b
  <2>4. Len(b) = Len(buf[t])
    BY <1>0, <2>1, <2>2, MapProperties
  <2> QED
    BY <1>1, <2>1, <2>3, <2>4 DEF SameButNode
<1> QED
  BY <1>2, <1>3

\* Corrections leave the buffer's length.
LEMMA FixLength ==
    ASSUME IInv, NEW t \in Tids, DoFix(t)
    PROVE  Len(buf'[t]) = Len(buf[t])
<1> DEFINE c == Head(todo[t])
           b == [i \in 1 .. Len(buf[t]) |-> IF i \in cur[t] - c.n + 1 .. cur[t]
                                            THEN [buf[t][i] EXCEPT !.ts = c.ts] ELSE buf[t][i]]
<1>1. TypeOK /\ c \in CallRecords /\ buf[t] \in Seq(Records)
  BY DoingProperties DEF IInv, DoFix, TypeOK
<1>2. \A i \in 1 .. Len(buf[t]) : b[i] \in Records
  <2>1. \A r \in Records : [r EXCEPT !.ts = c.ts] \in Records
    BY <1>1 DEF Records, CallRecords
  <2> QED
    BY <1>1, <2>1, ElementOfSeq
<1>3. b = [i \in 1 .. Len(buf[t]) |-> b[i]]
  OBVIOUS
<1>4. buf'[t] = b
  BY <1>1 DEF DoFix, TypeOK
<1> HIDE DEF b, c
<1> QED
  BY <1>1, <1>2, <1>3, <1>4, MapProperties

\* The timestamps of the last records are corrected.
LEMMA FixTrace ==
    ASSUME IInv, IInv', NEW t \in Tids, DoFix(t)
    PROVE  LET c == Head(todo[t])
           IN /\ Len(Trace(t)') = Len(Trace(t))
              /\ \A i \in 1 .. Len(Trace(t)) :
                    /\ Trace(t)'[i].ev = Trace(t)[i].ev
                    /\ Trace(t)'[i].nid = Trace(t)[i].nid
                    /\ Trace(t)'[i].ts = Trace(t)[i].ts \/ Trace(t)'[i].ts = c.ts
              /\ \A i \in 1 .. cur[t] : i > cur[t] - c.n =>
                    Trace(t)'[Len(file[t]) + i].ts = c.ts
<1> DEFINE c == Head(todo[t])
           b == [i \in 1 .. Len(buf[t]) |-> IF i \in cur[t] - c.n + 1 .. cur[t]
                                            THEN [buf[t][i] EXCEPT !.ts = c.ts] ELSE buf[t][i]]
<1>1. TypeOK /\ c \in CallRecords /\ buf[t] \in Seq(Records)
  BY DoingProperties DEF IInv, DoFix, TypeOK
<1>2. PICK m \in Nat, k \in Nat, z \in Nat :
         m = Len(file[t]) /\ k = cur[t] /\ z = Len(buf[t]) /\ k <= z
  BY TraceProperties, LenProperties
<1>3. PICK n \in Nat : n = c.n
  BY <1>1 DEF CallRecords
<1>4. \A i \in 1 .. z :
         /\ b[i].ev = buf[t][i].ev /\ b[i].nid = buf[t][i].nid
         /\ b[i].ts = IF i \in k - n + 1 .. k THEN c.ts ELSE buf[t][i].ts
  <2>1. \A r \in Records : /\ [r EXCEPT !.ts = c.ts].ev = r.ev /\ [r EXCEPT !.ts = c.ts].nid = r.nid
                           /\ [r EXCEPT !.ts = c.ts].ts = c.ts
    BY DEF Records
  <2>2. \A i \in 1 .. z : buf[t][i] \in Records
    BY <1>1, <1>2, ElementOfSeq
  <2>3. \A i \in 1 .. z : b[i] = IF i \in k - n + 1 .. k THEN [buf[t][i] EXCEPT !.ts = c.ts]
                                                         ELSE buf[t][i]
    BY <1>2, <1>3
  <2> HIDE DEF b, c
  <2> QED
    BY <2>1, <2>2, <2>3
<1>5. buf'[t] = b /\ UNCHANGED <<cur, file>>
  BY <1>1 DEF DoFix, TypeOK
<1> HIDE DEF b, c
<1>6. /\ Len(Trace(t)') = Len(Trace(t))
      /\ \A i \in 1 .. m : Trace(t)'[i] = Trace(t)[i]
      /\ \A i \in 1 .. k : Trace(t)'[m + i] = b[i]
      /\ \A i \in 1 .. k : Trace(t)[m + i] = buf[t][i]
      /\ \A i \in 1 .. Len(Trace(t)) : i \in 1 .. m \/ \E j \in 1 .. k : i = m + j
  BY <1>2, <1>5, ChangedTrace
<1>7. \A i \in 1 .. k : /\ b[i].ev = buf[t][i].ev /\ b[i].nid = buf[t][i].nid
                        /\ b[i].ts = buf[t][i].ts \/ b[i].ts = c.ts
                        /\ i > k - n => b[i].ts = c.ts
  BY <1>2, <1>4
<1> DEFINE new == Trace(t)'
           old == Trace(t)
<1>8. \A i \in 1 .. Len(old) :
         /\ new[i].ev = old[i].ev
         /\ new[i].nid = old[i].nid
         /\ new[i].ts = old[i].ts \/ new[i].ts = c.ts
  <2>1. /\ \A i \in 1 .. m : new[i] = old[i]
        /\ \A i \in 1 .. k : new[m + i] = b[i] /\ old[m + i] = buf[t][i]
        /\ \A i \in 1 .. Len(old) : i \in 1 .. m \/ \E j \in 1 .. k : i = m + j
    BY <1>6
  <2> HIDE DEF new, old
  <2>2. ASSUME NEW i \in 1 .. Len(old)
        PROVE  /\ new[i].ev = old[i].ev /\ new[i].nid = old[i].nid
               /\ new[i].ts = old[i].ts \/ new[i].ts = c.ts
    <3>1. CASE i \in 1 .. m
      BY <2>1, <3>1
    <3>2. CASE \E j \in 1 .. k : i = m + j
      <4>1. PICK j \in 1 .. k : i = m + j
        BY <3>2
      <4>2. new[i] = b[j] /\ old[i] = buf[t][j]
        BY <2>1, <4>1
      <4> QED
        BY <1>7, <4>2
    <3> QED
      BY <2>1, <3>1, <3>2
  <2> QED
    BY <2>2
<1>9. \A i \in 1 .. cur[t] : i > cur[t] - c.n => Trace(t)'[Len(file[t]) + i].ts = c.ts
  BY <1>2, <1>3, <1>6, <1>7
<1> QED
  BY <1>6, <1>8, <1>9 DEF c

\* A step of one thread leaves the traces of the others alone.
LEMMA OtherTraces ==
    ASSUME IInv, NEW t \in Tids, NEW r \in Tids, r # t,
           \/ \E e \in Funcs \cup Users : Register(t, e) \/ Trigger(t, e)
           \/ CallStep(t) \/ FlushStep(t) \/ Close(t)
    PROVE  UNCHANGED <<buf[r], file[r], cur[r], triggered[r]>>
<1>1. TypeOK
  BY DEF IInv
<1>2. ASSUME NEW e \in Funcs \cup Users, Register(t, e) \/ Trigger(t, e)
      PROVE  UNCHANGED <<buf[r], file[r], cur[r], triggered[r]>>
  BY <1>1, <1>2 DEF Register, Trigger, TypeOK
<1>3. ASSUME CallStep(t) PROVE UNCHANGED <<buf[r], file[r], cur[r], triggered[r]>>
  <2>1. CASE DoTraceEvent(t) \/ DoFix(t) \/ DoDumpEDF(t) \/ DoFlush(t)
    BY <1>1, <2>1 DEF DoTraceEvent, DoFix, DoDumpEDF, DoFlush, TypeOK
  <2>2. CASE DoEventWithNodeId(t)
    BY <1>1, <2>2 DEF DoEventWithNodeId, TraceInit, TypeOK
  <2>3. CASE DoRecord(t)
    BY <1>1, <2>3 DEF DoRecord, TypeOK
  <2> QED
    BY <1>3, <2>1, <2>2, <2>3 DEF CallStep
<1>4. ASSUME FlushStep(t) PROVE UNCHANGED <<buf[r], file[r], cur[r], triggered[r]>>
  BY <1>1, <1>4 DEF FlushStep, FlushBegin, FlushDump, FlushClear, FlushWrite, FlushMark, TypeOK
<1>5. ASSUME Close(t) PROVE UNCHANGED <<buf[r], file[r], cur[r], triggered[r]>>
  BY <1>1, <1>5 DEF Close, TypeOK
<1> QED
  BY <1>2, <1>3, <1>4, <1>5

-----------------------------------------------------------------------------
(* EV_INIT.                                                                *)

\* The next record of t will be an EV_INIT.
InitNext(t) == /\ flush[t].stage = "no" /\ todo[t] # <<>>
               /\ Head(todo[t]).do = "Record" /\ Head(todo[t]).ev = "EV_INIT"

\* A trace starts with EV_INIT.  A thread that has written nothing has never
\* used its buffer, has not to mark a flush, and if it knows its node it will
\* write an EV_INIT next.
StartOf(t) ==
    /\ Len(Trace(t)) # 0 => Trace(t)[1].ev = "EV_INIT"
    /\ Len(Trace(t)) = 0 => /\ Len(buf[t]) = 0 /\ ~flush[t].marked
                            /\ init[t] => InitNext(t)
    /\ flush[t].stage = "mark" => flush[t].marked

LEMMA StartKept ==
    ASSUME IInv, NEW t \in Tids, StartOf(t),
           Len(Trace(t)') = Len(Trace(t)),
           \A i \in 1 .. Len(Trace(t)) : Trace(t)'[i].ev = Trace(t)[i].ev,
           Len(buf'[t]) = Len(buf[t]),
           flush'[t].marked => flush[t].marked,
           flush'[t].stage = "mark" => flush'[t].marked,
           Len(Trace(t)) # 0 \/ (init'[t] => InitNext(t)')
    PROVE  StartOf(t)'
<1>1. Len(Trace(t)) \in Nat
  BY TraceProperties, LenProperties
<1>2. Len(Trace(t)') # 0 => Trace(t)'[1].ev = "EV_INIT"
  BY <1>1 DEF StartOf
<1> QED
  BY <1>2 DEF StartOf

\* The first call of a thread does not change what it has written.
LEMMA QuietStart ==
    ASSUME IInv, NEW t \in Tids, StartOf(t), UNCHANGED <<buf[t], cur[t], file[t], init[t]>>,
           flush'[t].marked => flush[t].marked,
           flush'[t].stage = "mark" => flush'[t].marked,
           ~InitNext(t) \/ UNCHANGED <<todo[t], flush[t]>>
    PROVE  StartOf(t)'
<1>1. Trace(t)' = Trace(t)
  BY SameTrace
<1>2. Len(Trace(t)) # 0 \/ (init'[t] => InitNext(t)')
  BY DEF StartOf, InitNext
<1> DEFINE new == Trace(t)'
<1>3. new = Trace(t)
  BY <1>1
<1> QED
  BY <1>1, <1>2, StartKept

\* More is written.
LEMMA StartGrows ==
    ASSUME IInv, NEW t \in Tids, NEW rs \in Seq(Records), Trace(t)' = Trace(t) \o rs,
           Len(rs) # 0, StartOf(t), Len(Trace(t)) = 0 => rs[1].ev = "EV_INIT",
           flush'[t].stage = "mark" => flush'[t].marked
    PROVE  StartOf(t)'
<1>1. PICK m \in Nat, n \in Nat : m = Len(Trace(t)) /\ n = Len(rs)
  BY TraceProperties, LenProperties
<1> DEFINE x == Trace(t) \o rs
<1>2. /\ Len(x) = m + n
      /\ \A i \in 1 .. m + n : x[i] = IF i <= m THEN Trace(t)[i] ELSE rs[i - m]
  BY <1>1, TraceProperties, ConcatProperties
<1> HIDE DEF x
<1>3. x[1] = IF m = 0 THEN rs[1] ELSE Trace(t)[1]
  BY <1>1, <1>2
<1>4. x[1].ev = "EV_INIT" /\ Len(x) # 0
  BY <1>1, <1>2, <1>3 DEF StartOf
<1>5. Trace(t)' = x
  BY DEF x
<1> QED
  BY <1>4, <1>5 DEF StartOf

\* Once the node is known an EV_INIT comes next, unless there is one.
LEMMA CreatedStarts ==
    ASSUME IInv, NEW t \in Tids, NEW n \in Int, StartOf(t), TraceInit(t, n),
           Len(Trace(t)) = 0, ~init[t]
    PROVE  /\ n = -1 => ~init'[t]
           /\ n # -1 => /\ Created(t, n) \in Seq(CallRecords) /\ Len(Created(t, n)) = 2
                        /\ Created(t, n)[1].do = "Record" /\ Created(t, n)[1].ev = "EV_INIT"
                        /\ Created(t, n) = <<Call("Record", "EV_INIT", 0, n),
                                             Call("Record", "WALL_CLOCK", 0, n)>>
<1>1. n = -1 => ~init'[t]
  BY DEF TraceInit
<1>2. cur[t] = 0 /\ ~FirstRecordIsInit(t)
  <2>1. Len(file[t]) + cur[t] = 0 /\ Len(file[t]) \in Nat /\ cur[t] \in Nat
        /\ buf[t] \in Seq(Records)
    BY TraceProperties
  <2>2. buf[t] = <<>>
    BY <2>1, EmptySeq DEF StartOf
  <2> QED
    BY <2>1, <2>2 DEF FirstRecordIsInit
<1> DEFINE c == Call("Record", "EV_INIT", 0, n)
           d == Call("Record", "WALL_CLOCK", 0, n)
<1>3. c \in CallRecords /\ d \in CallRecords /\ c.do = "Record" /\ c.ev = "EV_INIT"
  BY CallType DEF Calls, Marks, Call
<1>4. n # -1 => Created(t, n) = <<c>> \o <<d>>
  BY <1>2 DEF Created
<1> HIDE DEF c, d
<1>5. /\ <<c>> \o <<d>> \in Seq(CallRecords) /\ Len(<<c>> \o <<d>>) = 2
      /\ (<<c>> \o <<d>>)[1] = c
  BY <1>3
<1>6. <<c>> \o <<d>> = <<c, d>>
  BY PairProperties
<1> QED
  BY <1>1, <1>3, <1>4, <1>5, <1>6 DEF c, d

LEMMA EventStart ==
    ASSUME IInv, IInv', NEW t \in Tids, StartOf(t), DoEventWithNodeId(t)
    PROVE  StartOf(t)'
<1> DEFINE c == Head(todo[t])
           created == Created(t, node)
           fix == IF created # <<>> /\ c.ts # 0 THEN <<Fix(Len(created), c.ts)>> ELSE <<>>
           rec == <<[c EXCEPT !.do = "Record"]>>
<1>0. TypeOK /\ node \in Int
  BY NodeNumbersAreInt DEF IInv, TypeOK
<1>1. TraceInit(t, node) /\ UNCHANGED <<cur, file, flush>> /\ ~InitNext(t)
  BY DEF DoEventWithNodeId, InitNext, Doing
<1>2. SameButNode(t)
  BY <1>0, <1>1, TraceInitSame
<1>3. /\ Len(Trace(t)') = Len(Trace(t))
      /\ \A i \in 1 .. Len(Trace(t)) : Trace(t)'[i].ev = Trace(t)[i].ev
  BY <1>1, <1>2, SameButNodeTrace
<1>4. Len(Trace(t)) # 0 \/ (init'[t] => InitNext(t)')
  <2> SUFFICES ASSUME Len(Trace(t)) = 0, init'[t] PROVE InitNext(t)'
    OBVIOUS
  <2>1. ~init[t]
    BY <1>1 DEF StartOf
  <2>2. /\ created \in Seq(CallRecords) /\ Len(created) = 2
        /\ created[1].do = "Record" /\ created[1].ev = "EV_INIT"
    BY <1>0, <1>1, <2>1, CreatedStarts
  <2>3. /\ todo[t] # <<>> /\ todo[t] \in Seq(CallRecords) /\ c \in CallRecords
        /\ flush[t].stage = "no"
    BY <1>0, DoingProperties DEF DoEventWithNodeId, TypeOK, CallRecords
  <2>4. Tail(todo[t]) \in Seq(CallRecords)
    BY <2>3, HeadTailProperties
  <2>5. rec \in Seq(CallRecords)
    <3>1. [c EXCEPT !.do = "Record"] \in CallRecords
      BY <2>3 DEF CallRecords, Calls
    <3> QED
      BY <3>1
  <2>6. fix \in Seq(CallRecords)
    <3>1. Fix(Len(created), c.ts) \in CallRecords
      BY <2>2, <2>3, FixType DEF CallRecords
    <3> QED
      BY <3>1
  <2>7. todo' = [todo EXCEPT ![t] = (created \o fix \o rec) \o Tail(@)]
    BY DEF DoEventWithNodeId, Then
  <2> HIDE DEF created, fix, rec
  <2>8. todo'[t] = (created \o fix \o rec) \o Tail(todo[t])
    BY <1>0, <2>7 DEF TypeOK
  <2>9. PICK rest \in Seq(CallRecords) : todo'[t] = created \o rest
    <3>1. /\ fix \o rec \in Seq(CallRecords)
          /\ (fix \o rec) \o Tail(todo[t]) \in Seq(CallRecords)
      BY <2>4, <2>5, <2>6, ConcatProperties
    <3> DEFINE tail == Tail(todo[t])
               more == fix \o rec
    <3>2. created \o fix \o rec = created \o more
      BY <2>2, <2>5, <2>6, ConcatAssociative, SMTT(20)
    <3>3. tail \in Seq(CallRecords) /\ more \in Seq(CallRecords)
          /\ todo'[t] = (created \o more) \o tail
      BY <2>4, <2>8, <3>1, <3>2
    <3> HIDE DEF tail, more
    <3>4. (created \o more) \o tail = created \o (more \o tail) /\ more \o tail \in Seq(CallRecords)
      BY <2>2, <3>3, ConcatAssociative, ConcatProperties, SMTT(20)
    <3> DEFINE behind == more \o tail
    <3>5. behind \in Seq(CallRecords) /\ todo'[t] = created \o behind
      BY <3>3, <3>4, Zenon
    <3> HIDE DEF behind
    <3> QED
      BY <3>5
  <2>10. todo'[t] # <<>> /\ Head(todo'[t]) = created[1]
    BY <2>2, <2>9, ConcatProperties
  <2> QED
    BY <1>1, <2>2, <2>3, <2>10 DEF InitNext
<1>5. Len(buf'[t]) = Len(buf[t]) /\ flush'[t] = flush[t]
  BY <1>1, <1>2 DEF SameButNode
<1>6. flush[t].stage = "mark" => flush[t].marked
  BY DEF StartOf
<1> QED
  BY <1>3, <1>4, <1>5, <1>6, StartKept

LEMMA SetNodeStart ==
    ASSUME IInv, IInv', StartOf(0), 0 \in Tids, NEW n \in Nodes, SetNode(n)
    PROVE  StartOf(0)'
<1>0. TypeOK /\ n \in Int
  BY TracerAssumption DEF IInv
<1>1. /\ TraceInit(0, n) /\ UNCHANGED <<cur, file, flush>> /\ todo[0] = <<>>
      /\ flush[0].stage = "no" /\ todo' = [todo EXCEPT ![0] = Created(0, n)]
  BY DEF SetNode, Idle
<1>2. SameButNode(0)
  BY <1>0, <1>1, TraceInitSame
<1>3. /\ Len(Trace(0)') = Len(Trace(0))
      /\ \A i \in 1 .. Len(Trace(0)) : Trace(0)'[i].ev = Trace(0)[i].ev
  BY <1>1, <1>2, SameButNodeTrace
<1>4. Len(Trace(0)) # 0 \/ (init'[0] => InitNext(0)')
  <2> SUFFICES ASSUME Len(Trace(0)) = 0, init'[0] PROVE InitNext(0)'
    OBVIOUS
  <2>1. ~init[0]
    BY <1>1 DEF StartOf, InitNext
  <2>2. /\ Created(0, n) \in Seq(CallRecords) /\ Len(Created(0, n)) = 2
        /\ Created(0, n)[1].do = "Record" /\ Created(0, n)[1].ev = "EV_INIT"
    BY <1>0, <1>1, <2>1, CreatedStarts
  <2>3. todo'[0] = Created(0, n)
    BY <1>0, <1>1 DEF TypeOK
  <2>4. Created(0, n) # <<>> /\ Head(Created(0, n)) = Created(0, n)[1]
    BY <2>2
  <2> QED
    BY <1>1, <2>2, <2>3, <2>4 DEF InitNext
<1>5. Len(buf'[0]) = Len(buf[0]) /\ flush'[0] = flush[0]
  BY <1>1, <1>2 DEF SameButNode
<1>6. flush[0].stage = "mark" => flush[0].marked
  BY DEF StartOf
<1> QED
  BY <1>3, <1>4, <1>5, <1>6, StartKept

LEMMA RecordStart ==
    ASSUME IInv, NEW t \in Tids, StartOf(t), DoRecord(t)
    PROVE  StartOf(t)'
<1> DEFINE c == Head(todo[t])
           new == NewRecords(t, c)
           mark == IF Full(cur[t] + Len(new)) THEN <<Record("FLUSH", c.ts, c.nid)>> ELSE <<>>
<1>1. TypeOK /\ c \in CallRecords /\ flush[t].stage = "no" /\ todo[t] # <<>> /\ c.do = "Record"
  BY DoingProperties DEF IInv, DoRecord, Doing
<1>2. new \in Seq(Records) /\ Len(new) \in {1, 2}
  BY <1>1, NewRecordsProperties
<1>3. mark \in Seq(Records) /\ Len(mark) \in Nat
  <2>1. Record("FLUSH", c.ts, c.nid) \in Records
    BY <1>1, RecordType DEF CallRecords, Marks
  <2> QED
    BY <2>1
<1>4. RecordsOf(t) = new \o mark
  BY DEF RecordsOf
<1>5. Len(Trace(t)) = 0 => new[1].ev = "EV_INIT"
  <2> SUFFICES ASSUME Len(Trace(t)) = 0 PROVE new[1].ev = "EV_INIT"
    OBVIOUS
  <2>1. Len(file[t]) + cur[t] = 0 /\ Len(file[t]) \in Nat /\ cur[t] \in Nat
    BY TraceProperties
  <2>2. cur[t] = 0
    BY <2>1
  <2>3. CASE init[t]
    <3>1. c.ev = "EV_INIT"
      BY <2>3 DEF StartOf, InitNext
    <3>2. new = <<Record(c.ev, c.ts, c.nid)>>
      BY <2>3 DEF NewRecords
    <3> QED
      BY <3>1, <3>2 DEF Record
  <2>4. CASE ~init[t]
    <3>1. new = <<Record("EV_INIT", c.ts, node)>> \o <<Record(c.ev, c.ts, c.nid)>>
      BY <2>2, <2>4 DEF NewRecords
    <3>2. new[1] = Record("EV_INIT", c.ts, node)
      BY <3>1
    <3> QED
      BY <3>2 DEF Record
  <2> QED
    BY <2>3, <2>4
<1> HIDE DEF new, mark
<1>6. /\ RecordsOf(t) \in Seq(Records) /\ Len(RecordsOf(t)) # 0 /\ RecordsOf(t)[1] = new[1]
  BY <1>2, <1>3, <1>4, ConcatProperties
<1>7. flush'[t].stage = "mark" => flush'[t].marked
  <2>1. flush'[t] = flush[t] \/ flush'[t].stage = "begin"
    BY <1>1 DEF DoRecord, TypeOK
  <2> QED
    BY <1>1, <2>1
<1>8. Trace(t)' = Trace(t) \o RecordsOf(t)
  BY RecordTrace
<1> QED
  BY <1>5, <1>6, <1>7, <1>8, StartGrows

LEMMA FlushStart ==
    ASSUME IInv, IInv', NEW t \in Tids, StartOf(t), FlushStep(t)
    PROVE  StartOf(t)'
<1>0. /\ TypeOK /\ flush[t] \in [stage : Stages, marked : BOOLEAN, nid : Int]
      /\ flush \in [Tids -> [stage : Stages, marked : BOOLEAN, nid : Int]]
  BY DEF IInv, TypeOK
<1>1. CASE FlushBegin(t)
  <2>1. SameButNode(t)
    BY <1>1, RenamedSame
  <2>2. /\ UNCHANGED <<cur, file, init>> /\ flush[t].stage = "begin"
        /\ flush'[t].marked = flush[t].marked /\ flush'[t].stage # "mark"
    BY <1>0, <1>1 DEF FlushBegin
  <2>3. /\ Len(Trace(t)') = Len(Trace(t))
        /\ \A i \in 1 .. Len(Trace(t)) : Trace(t)'[i].ev = Trace(t)[i].ev
    BY <2>1, <2>2, SameButNodeTrace
  <2>4. Len(Trace(t)) # 0 \/ (init'[t] => InitNext(t)')
    BY <2>2 DEF StartOf, InitNext
  <2>5. Len(buf'[t]) = Len(buf[t])
    BY <2>1 DEF SameButNode
  <2> QED
    BY <2>2, <2>3, <2>4, <2>5, StartKept
<1>2. CASE FlushDump(t) \/ FlushClear(t)
  <2>1. /\ UNCHANGED <<cur, file, init, buf>> /\ flush[t].stage # "no"
        /\ flush'[t].marked = flush[t].marked /\ flush'[t].stage # "mark"
    BY <1>0, <1>2 DEF FlushDump, FlushClear
  <2>2. ~InitNext(t)
    BY <2>1 DEF InitNext
  <2> QED
    BY <2>1, <2>2, QuietStart
<1>3. CASE FlushWrite(t)
  <2>1. UNCHANGED <<init, buf>> /\ flush[t].stage = "write"
    BY <1>3 DEF FlushWrite
  <2>2. /\ flush'[t].marked => flush[t].marked
        /\ flush'[t].stage = "mark" => flush'[t].marked
    BY <1>0, <1>3 DEF FlushWrite, AfterWrite, NoFlush
  <2>3. Trace(t)' = Trace(t)
    BY <1>3, WriteTrace
  <2>4. Len(Trace(t)) # 0 \/ (init'[t] => InitNext(t)')
    BY <2>1 DEF StartOf, InitNext
  <2> QED
    BY <2>1, <2>2, <2>3, <2>4, StartKept
<1>4. CASE FlushMark(t)
  <2> DEFINE r == Record("FLUSH", 0, flush[t].nid)
             rs == <<r>>
  <2>1. r \in Records /\ Trace(t)' = Trace(t) \o rs
    BY <1>4, MarkTrace
  <2> HIDE DEF r
  <2>2. rs \in Seq(Records) /\ Len(rs) # 0
    BY <2>1
  <2> HIDE DEF rs
  <2>3. flush'[t].stage = "no" /\ Len(Trace(t)) # 0
    BY <1>0, <1>4 DEF FlushMark, NoFlush, StartOf
  <2> QED
    BY <2>1, <2>2, <2>3, StartGrows
<1> QED
  BY <1>1, <1>2, <1>3, <1>4 DEF FlushStep

LEMMA CallStart ==
    ASSUME IInv, IInv', NEW t \in Tids, StartOf(t), CallStep(t)
    PROVE  StartOf(t)'
<1>0. TypeOK /\ (flush[t].stage = "mark" => flush[t].marked)
  BY DEF IInv, StartOf
<1>1. CASE DoTraceEvent(t) \/ DoDumpEDF(t)
  <2>1. UNCHANGED <<buf, cur, file, init, flush>> /\ ~InitNext(t)
    BY <1>1 DEF DoTraceEvent, DoDumpEDF, Doing, InitNext
  <2> QED
    BY <1>0, <2>1, QuietStart
<1>2. CASE DoFlush(t)
  <2>1. UNCHANGED <<buf, cur, file, init>> /\ ~InitNext(t)
    BY <1>2 DEF DoFlush, Doing, InitNext
  <2>2. ~flush'[t].marked /\ flush'[t].stage = "begin"
    BY <1>0, <1>2 DEF DoFlush, NoFlush, TypeOK
  <2> QED
    BY <2>1, <2>2, QuietStart
<1>3. CASE DoFix(t)
  <2>1. /\ Len(Trace(t)') = Len(Trace(t))
        /\ \A i \in 1 .. Len(Trace(t)) : Trace(t)'[i].ev = Trace(t)[i].ev
    BY <1>3, FixTrace
  <2>2. UNCHANGED <<init, flush, cur, file>> /\ ~InitNext(t)
    BY <1>3 DEF DoFix, Doing, InitNext
  <2>3. Len(Trace(t)) # 0 \/ (init'[t] => InitNext(t)')
    BY <2>2 DEF StartOf
  <2>4. Len(buf'[t]) = Len(buf[t])
    BY <1>3, FixLength
  <2> QED
    BY <1>0, <2>1, <2>2, <2>3, <2>4, StartKept
<1> QED
  BY <1>1, <1>2, <1>3, EventStart, RecordStart DEF CallStep

LEMMA NextStarts ==
    ASSUME IInv, IInv', \A t \in Tids : StartOf(t), [Next]_vars
    PROVE  \A t \in Tids : StartOf(t)'
<1> SUFFICES ASSUME NEW t \in Tids PROVE StartOf(t)'
  OBVIOUS
<1>0. StartOf(t) /\ (flush[t].stage = "mark" => flush[t].marked)
  BY DEF StartOf
<1>1. ASSUME UNCHANGED <<buf[t], cur[t], file[t], init[t], todo[t], flush[t]>> PROVE StartOf(t)'
  BY <1>0, <1>1, QuietStart
<1>2. ASSUME NEW r \in Tids, r # t,
             \/ \E e \in Funcs \cup Users : Register(r, e) \/ Trigger(r, e)
             \/ CallStep(r) \/ FlushStep(r) \/ Close(r)
      PROVE  StartOf(t)'
  BY <1>1, <1>2, OtherThreads, OtherTraces
<1>3. ASSUME NEW e \in Funcs \cup Users, Register(t, e) \/ Trigger(t, e) \/ Close(t)
      PROVE  StartOf(t)'
  <2>1. UNCHANGED <<buf, cur, file, init, flush>> /\ ~InitNext(t)
    BY <1>3 DEF Register, Trigger, Close, Idle, InitNext
  <2> QED
    BY <1>0, <2>1, QuietStart
<1>4. ASSUME Close(t) PROVE StartOf(t)'
  <2>1. UNCHANGED <<buf, cur, file, init, flush>> /\ ~InitNext(t)
    BY <1>4 DEF Close, Idle, InitNext
  <2> QED
    BY <1>0, <2>1, QuietStart
<1>5. ASSUME CallStep(t) \/ FlushStep(t) PROVE StartOf(t)'
  BY <1>0, <1>5, CallStart, FlushStart
<1>6. ASSUME NEW n \in Nodes, SetNode(n) PROVE StartOf(t)'
  <2>1. CASE t = 0
    BY <1>0, <1>6, <2>1, SetNodeStart
  <2>2. CASE t # 0
    <3>1. TraceInit(0, n) /\ todo' = [todo EXCEPT ![0] = Created(0, n)]
          /\ UNCHANGED <<cur, file, flush>>
      BY <1>6, Zenon DEF SetNode
    <3>2. init'[t] = init[t] /\ buf'[t] = buf[t]
      BY <2>2, <3>1 DEF TraceInit, IInv, TypeOK
    <3>3. todo'[t] = todo[t]
      BY <2>2, <3>1 DEF IInv, TypeOK
    <3> QED
      BY <1>1, <3>1, <3>2, <3>3
  <2> QED
    BY <2>1, <2>2
<1>7. CASE Tick \/ Finished \/ UNCHANGED vars
  <2>1. UNCHANGED <<buf, cur, file, init, todo, flush>>
    BY <1>7, Zenon DEF Tick, Finished, vars
  <2> QED
    BY <1>1, <2>1
<1> QED
  BY <1>2, <1>3, <1>4, <1>5, <1>6, <1>7 DEF Next

LEMMA InitStarts ==
    ASSUME Init, IInv
    PROVE  \A t \in Tids : StartOf(t)
<1> SUFFICES ASSUME NEW t \in Tids PROVE StartOf(t)
  OBVIOUS
<1>1. file[t] = <<>> /\ buf[t] = <<>> /\ cur[t] = 0 /\ ~init[t] /\ flush[t] = NoFlush
  BY DEF Init
<1>2. Len(Trace(t)) = 0
  BY <1>1, TraceProperties
<1> QED
  BY <1>1, <1>2 DEF StartOf, NoFlush

\* Every trace starts with EV_INIT, whenever the thread learns its node id, and
\* whether or not it has flushed its buffer before.
THEOREM InitComesFirst == Spec => []StartsWithInit
<1> DEFINE Inv == IInv /\ \A t \in Tids : StartOf(t)
<1>1. Init => Inv
  <2> SUFFICES ASSUME Init PROVE Inv
    OBVIOUS
  <2>1. IInv
    BY InitIInv
  <2> QED
    BY <2>1, InitStarts
<1>2. Inv /\ [Next]_vars => Inv'
  <2> SUFFICES ASSUME Inv, [Next]_vars PROVE Inv'
    OBVIOUS
  <2>1. IInv'
    BY NextIInv
  <2>2. \A t \in Tids : StartOf(t)'
    BY <2>1, NextStarts
  <2> QED
    BY <2>1, <2>2
<1>3. Inv => StartsWithInit
  <2> SUFFICES ASSUME Inv, NEW t \in Tids, Trace(t) # <<>> PROVE Trace(t)[1].ev = "EV_INIT"
    BY DEF StartsWithInit
  <2>1. Trace(t) \in Seq(Records)
    BY TraceProperties
  <2> QED
    BY <2>1, EmptySeq DEF StartOf
<1> QED
  BY <1>1, <1>2, <1>3, PTL DEF Spec

-----------------------------------------------------------------------------
(* Node ids.                                                               *)

\* The records of s have node id n, but that it may have been 0 before.
Mixed(s, n) == \A i \in 1 .. Len(s) : /\ s[i].nid \in {0, n}
                                      /\ s[i].nid = n => \A j \in i .. Len(s) : s[j].nid = n

\* They have node id n.
AllAt(s, n) == \A i \in 1 .. Len(s) : s[i].nid = n

\* The ids in a trace s whose file was opened as o, at node n.
Located(s, o, n) == /\ o = NotOpen => Mixed(s, n) /\ (n <= 0 => AllAt(s, n))
                    /\ o = n /\ n >= 0 => AllAt(s, n)

\* The calls that have read the node id have read the one it is.
IdCalls == {c \in CallRecords : c.do \in {"EventWithNodeId", "Record"} => c.nid = node}

\* The node ids in the trace of thread 0, its file and its calls.
Ids ==
    /\ todo[0] \in Seq(IdCalls)
    /\ flush[0].stage # "no" /\ flush[0].marked => flush[0].nid = node
    /\ opened[0] = NotOpen => Len(file[0]) = 0 /\ flush[0].stage \in {"no", "begin"}
    /\ opened[0] <= node /\ node >= -1
    /\ node = -1 => ~init[0]
    /\ Located(Trace(0), opened[0], node)

\* Records that are all at the node.
LEMMA AllLocated ==
    ASSUME NEW s \in Seq(Records), NEW o, NEW n \in Int, AllAt(s, n)
    PROVE  Located(s, o, n)
<1>1. PICK k \in Nat : k = Len(s)
  BY LenProperties
<1>2. ASSUME NEW i \in 1 .. k
      PROVE  s[i].nid \in {0, n} /\ \A j \in i .. k : s[j].nid = n
  BY <1>1 DEF AllAt
<1> QED
  BY <1>1, <1>2 DEF Located, Mixed

\* Records that keep their ids.
LEMMA SameLocated ==
    ASSUME NEW s, NEW r, NEW o, NEW n, Located(s, o, n), Len(r) = Len(s), Len(s) \in Nat,
           \A i \in 1 .. Len(s) : r[i].nid = s[i].nid
    PROVE  Located(r, o, n)
<1>1. PICK k \in Nat : k = Len(s)
  OBVIOUS
<1>2. Mixed(s, n) => Mixed(r, n)
  <2> SUFFICES ASSUME Mixed(s, n), NEW i \in 1 .. k
               PROVE  r[i].nid \in {0, n} /\ (r[i].nid = n => \A j \in i .. k : r[j].nid = n)
    BY <1>1 DEF Mixed
  <2>1. s[i].nid \in {0, n} /\ (s[i].nid = n => \A j \in i .. k : s[j].nid = n)
    BY <1>1 DEF Mixed
  <2>2. \A j \in i .. k : j \in 1 .. k
    OBVIOUS
  <2> QED
    BY <1>1, <2>1, <2>2
<1>3. AllAt(s, n) => AllAt(r, n)
  BY DEF AllAt
<1> QED
  BY <1>2, <1>3 DEF Located

\* More records at the node.
LEMMA MoreLocated ==
    ASSUME NEW s \in Seq(Records), NEW rs \in Seq(Records), NEW o, NEW n \in Int,
           Located(s, o, n), AllAt(rs, n)
    PROVE  Located(s \o rs, o, n)
<1> DEFINE x == s \o rs
<1>1. PICK k \in Nat, l \in Nat : k = Len(s) /\ l = Len(rs)
  BY LenProperties
<1>2. Len(x) = k + l /\ \A i \in 1 .. k + l : x[i] = IF i <= k THEN s[i] ELSE rs[i - k]
  BY <1>1, ConcatProperties
<1> HIDE DEF x
<1>3. \A i \in 1 .. k + l : i > k => x[i].nid = n
  <2> SUFFICES ASSUME NEW i \in 1 .. k + l, i > k PROVE x[i].nid = n
    OBVIOUS
  <2>1. x[i] = rs[i - k] /\ i - k \in 1 .. l
    BY <1>2
  <2> QED
    BY <1>1, <2>1 DEF AllAt
<1>4. \A i \in 1 .. k + l : i <= k => x[i] = s[i]
  BY <1>2
<1>5. AllAt(s, n) => AllAt(x, n)
  <2> SUFFICES ASSUME AllAt(s, n), NEW i \in 1 .. k + l PROVE x[i].nid = n
    BY <1>2 DEF AllAt
  <2>1. i <= k => s[i].nid = n
    BY <1>1 DEF AllAt
  <2> QED
    BY <1>3, <1>4, <2>1
<1>6. Mixed(s, n) => Mixed(x, n)
  <2> SUFFICES ASSUME Mixed(s, n), NEW i \in 1 .. k + l
               PROVE  /\ x[i].nid \in {0, n}
                      /\ x[i].nid = n => \A j \in i .. k + l : x[j].nid = n
    BY <1>2 DEF Mixed
  <2>1. CASE i > k
    <3>1. \A j \in i .. k + l : j \in 1 .. k + l /\ j > k
      BY <2>1
    <3> QED
      BY <1>3, <2>1, <3>1
  <2>2. CASE i <= k
    <3>1. s[i].nid \in {0, n} /\ (s[i].nid = n => \A j \in i .. k : s[j].nid = n)
      BY <1>1, <2>2 DEF Mixed
    <3>2. x[i] = s[i]
      BY <1>4, <2>2
    <3>3. ASSUME x[i].nid = n, NEW j \in i .. k + l PROVE x[j].nid = n
      <4>1. CASE j <= k
        BY <1>4, <3>1, <3>2, <3>3, <4>1
      <4>2. CASE j > k
        BY <1>3, <4>2
      <4> QED
        BY <4>1, <4>2
    <3> QED
      BY <3>1, <3>2, <3>3
  <2> QED
    BY <2>1, <2>2
<1> QED
  BY <1>5, <1>6 DEF Located, x

\* The list of calls after one has returned.
LEMMA ThenIds ==
    ASSUME IInv, NEW t \in Tids, todo[t] \in Seq(IdCalls), todo[t] # <<>>,
           NEW cs \in Seq(IdCalls), Then(t, cs)
    PROVE  todo'[t] \in Seq(IdCalls)
<1>1. todo \in [Tids -> Seq(CallRecords)]
  BY DEF IInv, TypeOK, CallRecords
<1>2. Tail(todo[t]) \in Seq(IdCalls)
  BY HeadTailProperties
<1>3. cs \o Tail(todo[t]) \in Seq(IdCalls)
  BY <1>2, ConcatProperties
<1> QED
  BY <1>1, <1>3 DEF Then

LEMMA ThenNothingIds ==
    ASSUME IInv, NEW t \in Tids, todo[t] \in Seq(IdCalls), todo[t] # <<>>, Then(t, <<>>)
    PROVE  todo'[t] \in Seq(IdCalls)
<1> DEFINE cs == <<>>
<1>1. cs \in Seq(IdCalls) /\ Then(t, cs)
  OBVIOUS
<1> HIDE DEF cs
<1> QED
  BY <1>1, ThenIds

\* TauTraceInit creates records at the node it was told of.
LEMMA CreatedIds ==
    ASSUME NEW t \in Tids, NEW n \in Int
    PROVE  Created(t, n) \in Seq({c \in CallRecords :
                                    c.do \in {"EventWithNodeId", "Record"} => c.nid = n})
<1> DEFINE S == {c \in CallRecords : c.do \in {"EventWithNodeId", "Record"} => c.nid = n}
           a == Call("Record", "EV_INIT", 0, n)
           b == Call("Record", "WALL_CLOCK", 0, n)
<1>1. a \in CallRecords /\ b \in CallRecords
  BY CallType DEF Calls, Marks
<1>2. a.nid = n /\ b.nid = n
  BY DEF Call
<1>3. a \in S /\ b \in S
  BY <1>1, <1>2
<1> HIDE DEF S
<1>4. Created(t, n) \in Seq(S)
  BY <1>3 DEF Created
<1> QED
  BY <1>4 DEF S

\* TauTraceInit gives its id to all that thread 0 has in its buffer, if it has
\* not written its file yet.
LEMMA TraceInitLocates ==
    ASSUME IInv, IInv', Ids, StartOf(0), 0 \in Tids, NEW n \in Int, n >= 0, TraceInit(0, n),
           UNCHANGED <<cur, file>>, n = node \/ (node <= 0 /\ n > node)
    PROVE  Located(Trace(0)', opened[0], n)
<1>1. PICK m \in Nat, k \in Nat : /\ m = Len(file[0]) /\ k = cur[0] /\ k <= Len(buf[0])
                                  /\ buf[0] \in Seq(Records) /\ Len(Trace(0)) = m + k
  BY TraceProperties, LenProperties
<1>2. /\ Len(Trace(0)') = Len(Trace(0))
      /\ \A i \in 1 .. m : Trace(0)'[i] = Trace(0)[i]
      /\ \A i \in 1 .. k : Trace(0)'[m + i] = buf'[0][i]
      /\ \A i \in 1 .. k : Trace(0)[m + i] = buf[0][i]
      /\ \A i \in 1 .. Len(Trace(0)) : i \in 1 .. m \/ \E j \in 1 .. k : i = m + j
  BY <1>1, ChangedTrace
<1> DEFINE new == Trace(0)'
           old == Trace(0)
<1>3. /\ Len(new) = m + k /\ Len(old) = m + k /\ new \in Seq(Records)
      /\ \A i \in 1 .. m : new[i] = old[i]
      /\ \A i \in 1 .. k : new[m + i] = buf'[0][i] /\ old[m + i] = buf[0][i]
      /\ \A i \in 1 .. m + k : i \in 1 .. m \/ \E j \in 1 .. k : i = m + j
  <2>1. new \in Seq(Records)
    <3>1. /\ file'[0] \in Seq(Records) /\ buf'[0] \in Seq(Records) /\ cur'[0] \in Nat
          /\ cur'[0] <= Len(buf'[0])
      BY DEF IInv, TypeOK, Filled
    <3>2. new = file'[0] \o SubSeq(buf'[0], 1, cur'[0])
      BY DEF Trace, Pending
    <3> DEFINE x == file'[0] \o SubSeq(buf'[0], 1, cur'[0])
    <3>3. x \in Seq(Records)
      BY <3>1, FrontBehind
    <3> QED
      BY <3>2, <3>3
  <2> QED
    BY <1>1, <1>2, <2>1
<1>4. Located(old, opened[0], node) /\ node \in Int /\ opened[0] <= node
      /\ opened[0] \in Int /\ node >= -1
  BY NodeNumbersAreInt DEF Ids, IInv, TypeOK
<1>5. CASE init[0]
  <2>1. UNCHANGED buf
    BY <1>5 DEF TraceInit
  <2>2. ASSUME NEW i \in 1 .. m + k PROVE new[i].nid = old[i].nid
    <3>1. CASE i \in 1 .. m
      BY <1>3, <3>1
    <3>2. CASE \E j \in 1 .. k : i = m + j
      BY <1>3, <2>1, <3>2
    <3> QED
      BY <1>3, <3>1, <3>2
  <2> HIDE DEF new, old
  <2>3. CASE n = node
    <3>1. Len(new) = Len(old) /\ Len(old) \in Nat
          /\ \A i \in 1 .. Len(old) : new[i].nid = old[i].nid
      BY <1>3, <2>2
    <3>2. Located(new, opened[0], node)
      BY <1>4, <3>1, SameLocated
    <3> QED
      BY <2>3, <3>2 DEF new
  <2>4. CASE node <= 0 /\ n > node
    <3>1. node = 0
      <4>1. node # -1
        BY <1>5 DEF Ids
      <4> QED
        BY <1>4, <2>4, <4>1
    <3>2. opened[0] # n
      BY <1>4, <2>4
    <3>3. opened[0] = NotOpen => AllAt(old, 0)
      BY <1>4, <3>1 DEF Located
    <3>4. opened[0] = NotOpen => Mixed(new, n)
      <4> SUFFICES ASSUME AllAt(old, 0) PROVE Mixed(new, n)
        BY <3>3
      <4>1. \A i \in 1 .. m + k : new[i].nid = 0
        BY <1>3, <2>2 DEF AllAt
      <4> QED
        BY <1>3, <2>4, <3>1, <4>1 DEF Mixed
    <3> QED
      BY <2>4, <3>1, <3>2, <3>4 DEF Located, new
  <2> QED
    BY <2>3, <2>4
<1>6. CASE ~init[0]
  <2>1. /\ buf' = [buf EXCEPT ![0] =
               [i \in 1 .. Len(@) |-> IF FirstRecordIsInit(0) /\ i <= cur[0]
                                      THEN [@[i] EXCEPT !.nid = n] ELSE @[i]]]
    BY <1>6 DEF TraceInit
  <2>2. \A i \in 1 .. k :
           buf'[0][i] = IF FirstRecordIsInit(0) THEN [buf[0][i] EXCEPT !.nid = n] ELSE buf[0][i]
    <3> DEFINE b == [i \in 1 .. Len(buf[0]) |-> IF FirstRecordIsInit(0) /\ i <= cur[0]
                                                THEN [buf[0][i] EXCEPT !.nid = n] ELSE buf[0][i]]
    <3>1. buf'[0] = b
      BY <2>1 DEF IInv, TypeOK
    <3>2. PICK z \in Nat : z = Len(buf[0])
      BY <1>1, LenProperties
    <3>3. \A i \in 1 .. k : i \in 1 .. z /\ i <= cur[0]
      BY <1>1, <3>2
    <3> QED
      BY <3>1, <3>2, <3>3
  <2>3. \A i \in 1 .. k : /\ FirstRecordIsInit(0) => buf'[0][i].nid = n
                          /\ buf'[0][i].nid \in {n, buf[0][i].nid}
    <3>1. \A r \in Records : [r EXCEPT !.nid = n].nid = n
      BY DEF Records
    <3>2. \A i \in 1 .. k : buf[0][i] \in Records
      BY <1>1, ElementOfSeq
    <3> QED
      BY <2>2, <3>1, <3>2
  <2> HIDE DEF new, old
  <2>4. CASE opened[0] = NotOpen
    <3>1. m = 0
      BY <1>1, <2>4 DEF Ids
    <3>2. k > 0 => FirstRecordIsInit(0)
      <4> SUFFICES ASSUME k > 0 PROVE FirstRecordIsInit(0)
        OBVIOUS
      <4>1. old[1] = buf[0][1]
        BY <1>3, <3>1
      <4>2. old[1].ev = "EV_INIT"
        BY <1>3 DEF StartOf, old
      <4> QED
        BY <1>1, <4>1, <4>2 DEF FirstRecordIsInit
    <3>3. AllAt(new, n)
      <4> SUFFICES ASSUME NEW i \in 1 .. k PROVE new[i].nid = n
        BY <1>3, <3>1 DEF AllAt
      <4>1. new[0 + i] = buf'[0][i] /\ 0 + i = i
        BY <1>3, <3>1
      <4> QED
        BY <2>3, <3>2, <4>1
    <3> QED
      BY <1>3, <3>3, AllLocated DEF new
  <2>5. CASE opened[0] = n
    <3>1. n = node
      BY <1>4, <2>5
    <3>2. AllAt(old, n)
      BY <1>4, <2>5, <3>1 DEF Located
    <3>3. AllAt(new, n)
      <4> SUFFICES ASSUME NEW i \in 1 .. m + k PROVE new[i].nid = n
        BY <1>3 DEF AllAt
      <4>0. old[i].nid = n
        BY <1>3, <3>2 DEF AllAt
      <4>1. CASE i \in 1 .. m
        BY <1>3, <4>0, <4>1
      <4>2. CASE \E j \in 1 .. k : i = m + j
        <5>1. PICK j \in 1 .. k : i = m + j
          BY <4>2
        <5>2. new[i] = buf'[0][j] /\ old[i] = buf[0][j]
          BY <1>3, <5>1
        <5> QED
          BY <2>3, <4>0, <5>2
      <4> QED
        BY <1>3, <4>1, <4>2
    <3> QED
      BY <1>3, <3>3, AllLocated DEF new
  <2>6. CASE opened[0] # NotOpen /\ opened[0] # n
    BY <2>6 DEF Located, new
  <2> QED
    BY <2>4, <2>5, <2>6
<1> QED
  BY <1>5, <1>6

\* A file is opened at the node, and so are the records that are waiting.
LEMMA OpenLocates ==
    ASSUME IInv, IInv', Ids, StartOf(0), 0 \in Tids, FlushBegin(0)
    PROVE  Located(Trace(0)', opened'[0], node)
<1>1. PICK m \in Nat, k \in Nat : /\ m = Len(file[0]) /\ k = cur[0] /\ k <= Len(buf[0])
                                  /\ buf[0] \in Seq(Records) /\ Len(Trace(0)) = m + k
  BY TraceProperties, LenProperties
<1>2. /\ node \in Int /\ node >= -1 /\ UNCHANGED <<cur, file>> /\ buf'[0] = Renamed(0)
      /\ opened'[0] = (IF opened[0] = NotOpen THEN node ELSE opened[0])
      /\ Located(Trace(0), opened[0], node)
  BY NodeNumbersAreInt DEF FlushBegin, IInv, TypeOK, Ids
<1> DEFINE new == Trace(0)'
           old == Trace(0)
<1>3. /\ Len(new) = m + k /\ Len(old) = m + k
      /\ \A i \in 1 .. m : new[i] = old[i]
      /\ \A i \in 1 .. k : new[m + i] = buf'[0][i] /\ old[m + i] = buf[0][i]
      /\ \A i \in 1 .. m + k : i \in 1 .. m \/ \E j \in 1 .. k : i = m + j
  <2>1. /\ Len(new) = Len(old)
        /\ \A i \in 1 .. Len(file[0]) : new[i] = old[i]
        /\ \A i \in 1 .. cur[0] : new[Len(file[0]) + i] = buf'[0][i]
        /\ \A i \in 1 .. cur[0] : old[Len(file[0]) + i] = buf[0][i]
        /\ \A i \in 1 .. Len(old) :
              i \in 1 .. Len(file[0]) \/ \E j \in 1 .. cur[0] : i = Len(file[0]) + j
    BY <1>2, ChangedTrace
  <2>2. Len(old) = m + k /\ m = Len(file[0]) /\ k = cur[0]
    BY <1>1
  <2> HIDE DEF new, old
  <2> QED
    BY <2>1, <2>2
<1>4. CASE opened[0] # NotOpen
  <2>1. buf'[0] = buf[0]
    BY <1>2, <1>4 DEF Renamed
  <2>2. new = old
    BY <1>2, <2>1, SameTrace
  <2> QED
    BY <1>2, <1>4, <2>2
<1>5. CASE opened[0] = NotOpen /\ node <= 0
  <2>1. buf'[0] = buf[0]
    BY <1>2, <1>5 DEF Renamed
  <2>2. new = old
    BY <1>2, <2>1, SameTrace
  <2>3. AllAt(old, node) /\ node # NotOpen
    BY <1>2, <1>5 DEF Located, NotOpen
  <2> QED
    BY <1>2, <1>5, <2>2, <2>3 DEF Located
<1>6. CASE opened[0] = NotOpen /\ node > 0
  <2>1. m = 0
    BY <1>1, <1>6 DEF Ids
  <2> HIDE DEF new, old
  <2>2. \A i \in 1 .. k : new[i] = buf'[0][i] /\ old[i] = buf[0][i]
    <3> SUFFICES ASSUME NEW i \in 1 .. k PROVE new[i] = buf'[0][i] /\ old[i] = buf[0][i]
      OBVIOUS
    <3>1. 0 + i = i
      OBVIOUS
    <3> QED
      BY <1>3, <2>1, <3>1
  <2>3. ASSUME NEW i \in 1 .. k PROVE buf'[0][i].nid = node
    <3>1. FirstRecordIsInit(0)
      <4>1. old[1].ev = "EV_INIT" /\ old[1] = buf[0][1]
        BY <1>3, <2>1, <2>2 DEF StartOf, old
      <4> QED
        BY <1>1, <4>1 DEF FirstRecordIsInit
    <3> DEFINE Mine(q) == /\ q <= cur[0] /\ buf[0][q].nid = 0
                          /\ \A j \in 1 .. q : buf[0][j].nid <= 0
               b == [q \in 1 .. Len(buf[0]) |->
                       IF Mine(q) THEN [buf[0][q] EXCEPT !.nid = node] ELSE buf[0][q]]
    <3>2. Renamed(0) = b
      BY <1>2, <1>6, <3>1 DEF Renamed
    <3>3. PICK z \in Nat : z = Len(buf[0])
      BY <1>1, LenProperties
    <3>4. i \in 1 .. z /\ buf[0][i] \in Records
      BY <1>1, <3>3, ElementOfSeq
    <3>5. Mixed(old, node)
      BY <1>2, <1>6 DEF Located, old
    <3>6. ASSUME NEW j \in 1 .. k
          PROVE  /\ buf[0][j].nid \in {0, node}
                 /\ buf[0][j].nid = node => \A q \in j .. k : buf[0][q].nid = node
      <4>1. old[j].nid \in {0, node} /\ (old[j].nid = node => \A q \in j .. k : old[q].nid = node)
        BY <1>3, <2>1, <3>5 DEF Mixed
      <4>2. \A q \in j .. k : q \in 1 .. k
        OBVIOUS
      <4> QED
        BY <2>2, <4>1, <4>2
    <3>7. CASE buf[0][i].nid = 0
      <4>1. \A j \in 1 .. i : buf[0][j].nid <= 0
        <5> SUFFICES ASSUME NEW j \in 1 .. i, buf[0][j].nid > 0 PROVE FALSE
          <6>1. \A j \in 1 .. i : j \in 1 .. k
            OBVIOUS
          <6> QED
            BY <1>2, <3>6, <6>1
        <5>1. j \in 1 .. k /\ i \in j .. k
          OBVIOUS
        <5>2. buf[0][j].nid = node
          BY <3>6, <5>1
        <5> QED
          BY <1>6, <3>6, <3>7, <5>1, <5>2
      <4>2. Mine(i)
        BY <1>1, <3>7, <4>1
      <4> HIDE DEF Mine
      <4>3. b[i] = [buf[0][i] EXCEPT !.nid = node]
        BY <3>3, <3>4, <4>2
      <4>4. \A r \in Records : [r EXCEPT !.nid = node].nid = node
        BY DEF Records
      <4> HIDE DEF b
      <4>5. b[i].nid = node
        BY <3>4, <4>3, <4>4
      <4> QED
        BY <1>2, <3>2, <4>5
    <3>8. CASE buf[0][i].nid # 0
      <4>1. ~Mine(i) /\ buf[0][i].nid = node
        BY <3>6, <3>8
      <4> HIDE DEF Mine
      <4>2. b[i] = buf[0][i]
        BY <3>3, <3>4, <4>1
      <4> QED
        BY <1>2, <3>2, <4>1, <4>2
    <3> QED
      BY <3>7, <3>8
  <2>4. AllAt(new, node)
    BY <1>3, <2>1, <2>2, <2>3 DEF AllAt
  <2> QED
    BY <1>2, <1>6, <2>4 DEF Located, NotOpen, new
<1> QED
  BY <1>2, <1>4, <1>5, <1>6

LEMMA EventIds ==
    ASSUME IInv, IInv', Ids, StartOf(0), 0 \in Tids, DoEventWithNodeId(0)
    PROVE  Ids'
<1> DEFINE c == Head(todo[0])
           created == Created(0, node)
           fix == IF created # <<>> /\ c.ts # 0 THEN <<Fix(Len(created), c.ts)>> ELSE <<>>
           rec == [c EXCEPT !.do = "Record"]
           last == <<rec>>
<1>0. TypeOK /\ node \in Int
  BY NodeNumbersAreInt DEF IInv, TypeOK
<1>1. /\ TraceInit(0, node) /\ UNCHANGED <<cur, file, flush, opened, node>>
      /\ Then(0, created \o fix \o last) /\ todo[0] # <<>> /\ c.do = "EventWithNodeId"
  BY DEF DoEventWithNodeId, Doing
<1>2. todo[0] \in Seq(IdCalls)
  BY DEF Ids
<1>3. c \in IdCalls
  BY <1>1, <1>2, HeadTailProperties
<1>4. created \in Seq(IdCalls)
  BY <1>0, CreatedIds DEF IdCalls
<1>5. fix \in Seq(IdCalls)
  <2>1. Len(created) \in Nat /\ c.ts \in Nat
    BY <1>3, <1>4, LenProperties DEF IdCalls, CallRecords
  <2>2. Fix(Len(created), c.ts) \in CallRecords
    BY <2>1, FixType
  <2>3. Fix(Len(created), c.ts).do = "Fix"
    BY DEF Fix, Call
  <2>4. Fix(Len(created), c.ts) \in IdCalls
    BY <2>2, <2>3 DEF IdCalls
  <2> QED
    BY <2>4
<1>6. last \in Seq(IdCalls)
  <2>1. c.nid = node /\ c \in CallRecords
    BY <1>1, <1>3 DEF IdCalls
  <2>2. rec \in CallRecords /\ rec.nid = node
    BY <2>1 DEF CallRecords, Calls
  <2>3. rec \in IdCalls
    BY <2>2 DEF IdCalls
  <2> HIDE DEF rec
  <2> QED
    BY <2>3
<1> HIDE DEF created, fix, last
<1>7. created \o fix \o last \in Seq(IdCalls)
  BY <1>4, <1>5, <1>6, ConcatProperties
<1> DEFINE cs == created \o fix \o last
<1>8. todo'[0] \in Seq(IdCalls)
  <2>1. cs \in Seq(IdCalls) /\ Then(0, cs)
    BY <1>1, <1>7
  <2> HIDE DEF cs
  <2> QED
    BY <1>1, <1>2, <2>1, ThenIds
<1>9. IdCalls' = IdCalls
  BY <1>1 DEF IdCalls
<1>10. CASE node = -1
  <2>1. UNCHANGED <<init, buf>>
    BY <1>1, <1>10 DEF TraceInit
  <2>2. Trace(0)' = Trace(0)
    BY <1>1, <2>1, SameTrace
  <2>3. UNCHANGED <<cur, file, flush, opened, node, init>>
    BY <1>1, <2>1
  <2> QED
    BY <1>8, <1>9, <2>2, <2>3 DEF Ids
<1>11. CASE node # -1
  <2>1. node >= 0
    BY <1>0, <1>11 DEF Ids
  <2>2. Located(Trace(0)', opened[0], node)
    BY <1>0, <1>1, <2>1, TraceInitLocates
  <2> QED
    BY <1>1, <1>8, <1>9, <1>11, <2>2 DEF Ids
<1> QED
  BY <1>10, <1>11

\* As long as no id above 0 is replaced, the id only grows.
LEMMA SetNodeIds ==
    ASSUME IInv, IInv', Ids, StartOf(0), 0 \in Tids, NEW n \in Nodes, SetNode(n), ~replaced'
    PROVE  Ids'
<1>0. /\ TypeOK /\ node \in Int /\ n \in Int /\ n >= 0 /\ opened[0] \in Int
      /\ 0 \in Tids
  <2>1. Nodes \subseteq Nat
    BY TracerAssumption
  <2>2. TypeOK /\ opened \in [Tids -> Int] /\ node \in Int
    BY NodeNumbersAreInt DEF IInv, TypeOK
  <2> QED
    BY <2>1, <2>2
<1>1. /\ TraceInit(0, n) /\ UNCHANGED <<cur, file, flush, opened>> /\ node' = n
      /\ flush[0].stage = "no" /\ todo' = [todo EXCEPT ![0] = Created(0, n)]
  BY DEF SetNode, Idle
<1>7. n = node \/ (node <= 0 /\ n > node)
  <2>1. replaced' = (replaced \/ (node > 0 /\ n # node))
    BY DEF SetNode
  <2>2. ~(node > 0 /\ n # node)
    BY <2>1, Zenon
  <2> QED
    BY <1>0, <2>2
<1>2. Located(Trace(0)', opened[0], n)
  BY <1>0, <1>1, <1>7, TraceInitLocates
<1>3. Created(0, n) \in Seq(IdCalls')
  BY <1>0, <1>1, CreatedIds DEF IdCalls
<1>4. todo'[0] \in Seq(IdCalls')
  BY <1>0, <1>1, <1>3 DEF TypeOK
<1>6. opened[0] <= n /\ n >= -1 /\ n # -1
  BY <1>0, <1>7 DEF Ids
<1> QED
  BY <1>1, <1>2, <1>4, <1>6 DEF Ids

LEMMA RecordIds ==
    ASSUME IInv, Ids, 0 \in Tids, DoRecord(0)
    PROVE  Ids'
<1> DEFINE c == Head(todo[0])
           new == NewRecords(0, c)
           mark == IF Full(cur[0] + Len(new)) THEN <<Record("FLUSH", c.ts, c.nid)>> ELSE <<>>
<1>0. TypeOK /\ node \in Int
  BY NodeNumbersAreInt DEF IInv, TypeOK
<1>1. /\ UNCHANGED <<file, opened, node, init>> /\ todo[0] # <<>> /\ c.do = "Record"
      /\ Then(0, <<>>) /\ flush[0].stage = "no"
      /\ flush' = IF Full(cur[0] + Len(new))
                  THEN [flush EXCEPT ![0] = [stage |-> "begin", marked |-> TRUE, nid |-> c.nid]]
                  ELSE flush
  BY DEF DoRecord, Doing
<1>2. todo[0] \in Seq(IdCalls)
  BY DEF Ids
<1>3. c \in CallRecords /\ c.nid = node
  <2>1. c \in IdCalls
    BY <1>1, <1>2, HeadTailProperties
  <2> QED
    BY <1>1, <2>1 DEF IdCalls
<1>4. todo'[0] \in Seq(IdCalls)
  BY <1>1, <1>2, ThenNothingIds
<1>5. IdCalls' = IdCalls
  BY <1>1 DEF IdCalls
<1>6. new \in Seq(Records) /\ AllAt(new, node)
  <2>1. new \in Seq(Records)
    BY <1>0, <1>3, NewRecordsProperties
  <2> DEFINE a == Record("EV_INIT", c.ts, node)
             b == Record(c.ev, c.ts, c.nid)
  <2>2. a.nid = node /\ b.nid = node
    BY <1>3 DEF Record
  <2>3. new = <<>> \o <<b>> \/ new = <<a>> \o <<b>>
    BY DEF NewRecords
  <2>4. \A x, y : <<x>> \o <<y>> = <<x, y>> /\ <<>> \o <<y>> = <<y>>
    BY PairProperties
  <2>5. new = <<b>> \/ new = <<a, b>>
    <3> HIDE DEF a, b, new
    <3> QED
      BY <2>3, <2>4
  <2> HIDE DEF a, b, new
  <2> QED
    BY <2>1, <2>2, <2>5 DEF AllAt
<1>7. mark \in Seq(Records) /\ AllAt(mark, node)
  <2> DEFINE r == Record("FLUSH", c.ts, c.nid)
  <2>1. r \in Records
    BY <1>0, <1>3, RecordType DEF CallRecords, Marks
  <2>2. r.nid = node
    BY <1>3 DEF Record
  <2>3. mark = <<r>> \/ mark = <<>>
    OBVIOUS
  <2> HIDE DEF r, mark
  <2>4. CASE mark = <<r>>
    BY <2>1, <2>2, <2>4 DEF AllAt
  <2>5. CASE mark = <<>>
    BY <2>5 DEF AllAt
  <2> QED
    BY <2>3, <2>4, <2>5
<1>8. RecordsOf(0) = new \o mark
  BY DEF RecordsOf
<1>9. Trace(0)' = Trace(0) \o RecordsOf(0)
  BY RecordTrace
<1>10. flush'[0].stage # "no" /\ flush'[0].marked => flush'[0].nid = node
  BY <1>0, <1>1, <1>3 DEF TypeOK
<1>11. flush'[0].stage \in {"no", "begin"}
  BY <1>0, <1>1 DEF TypeOK
<1> HIDE DEF new, mark
<1> DEFINE rs == new \o mark
<1>12. rs \in Seq(Records) /\ AllAt(rs, node)
  <2>1. PICK k \in Nat, l \in Nat : k = Len(new) /\ l = Len(mark)
    BY <1>6, <1>7, LenProperties
  <2>2. /\ rs \in Seq(Records) /\ Len(rs) = k + l
        /\ \A i \in 1 .. k + l : rs[i] = IF i <= k THEN new[i] ELSE mark[i - k]
    BY <1>6, <1>7, <2>1, ConcatProperties
  <2> HIDE DEF rs
  <2>3. ASSUME NEW i \in 1 .. k + l PROVE rs[i].nid = node
    <3>1. CASE i <= k
      BY <1>6, <2>1, <2>2, <3>1 DEF AllAt
    <3>2. CASE i > k
      <4>1. i - k \in 1 .. l /\ rs[i] = mark[i - k]
        BY <2>2, <3>2
      <4> QED
        BY <1>7, <2>1, <4>1 DEF AllAt
    <3> QED
      BY <3>1, <3>2
  <2> QED
    BY <2>2, <2>3 DEF AllAt
<1> HIDE DEF rs
<1>13. Located(Trace(0) \o rs, opened[0], node)
  <2>1. Trace(0) \in Seq(Records) /\ Located(Trace(0), opened[0], node)
    BY TraceProperties DEF Ids
  <2> QED
    BY <1>0, <1>12, <2>1, MoreLocated
<1>14. Located(Trace(0)', opened[0], node)
  BY <1>8, <1>9, <1>13 DEF rs
<1> QED
  BY <1>1, <1>4, <1>5, <1>10, <1>11, <1>14 DEF Ids

LEMMA FlushIds ==
    ASSUME IInv, IInv', Ids, StartOf(0), 0 \in Tids, FlushStep(0)
    PROVE  Ids'
<1>0. /\ TypeOK /\ flush[0] \in [stage : Stages, marked : BOOLEAN, nid : Int]
      /\ flush \in [Tids -> [stage : Stages, marked : BOOLEAN, nid : Int]]
      /\ node \in Int /\ Trace(0) \in Seq(Records)
  BY TraceProperties, NodeNumbersAreInt DEF IInv, TypeOK
<1>1. UNCHANGED <<node, init, todo>> /\ IdCalls' = IdCalls
  BY DEF FlushStep, FlushBegin, FlushDump, FlushClear, FlushWrite, FlushMark, IdCalls
<1>2. CASE FlushBegin(0)
  <2>1. /\ opened'[0] = (IF opened[0] = NotOpen THEN node ELSE opened[0])
        /\ flush'[0].marked = flush[0].marked /\ flush'[0].nid = flush[0].nid
        /\ flush[0].stage = "begin"
    BY <1>0, <1>2 DEF FlushBegin, TypeOK
  <2>2. opened'[0] # NotOpen /\ opened'[0] <= node
    BY <1>0, <2>1 DEF Ids, NotOpen
  <2>3. Located(Trace(0)', opened'[0], node)
    BY <1>2, OpenLocates
  <2> QED
    BY <1>1, <2>1, <2>2, <2>3 DEF Ids
<1>3. CASE FlushDump(0) \/ FlushClear(0)
  <2>1. /\ UNCHANGED <<opened, file, buf, cur>> /\ opened[0] # NotOpen
        /\ flush'[0].marked = flush[0].marked /\ flush'[0].nid = flush[0].nid
        /\ flush[0].stage # "no"
    BY <1>0, <1>3 DEF FlushDump, FlushClear, Ids
  <2>2. Trace(0)' = Trace(0)
    BY <2>1, SameTrace
  <2> QED
    BY <1>1, <2>1, <2>2 DEF Ids
<1>4. CASE FlushWrite(0)
  <2>1. /\ opened' = opened /\ opened[0] # NotOpen /\ flush[0].stage = "write"
        /\ flush' = [flush EXCEPT ![0] = AfterWrite(@)]
    BY <1>4 DEF FlushWrite, Ids
  <2>2. flush'[0].stage # "no" => flush'[0].marked = flush[0].marked /\ flush'[0].nid = flush[0].nid
    BY <1>0, <2>1 DEF AfterWrite, NoFlush
  <2>3. Trace(0)' = Trace(0)
    BY <1>4, WriteTrace
  <2> QED
    BY <1>1, <2>1, <2>2, <2>3 DEF Ids
<1>5. CASE FlushMark(0)
  <2> DEFINE r == Record("FLUSH", 0, flush[0].nid)
             rs == <<r>>
  <2>1. r \in Records /\ Trace(0)' = Trace(0) \o rs
    BY <1>5, MarkTrace
  <2>2. /\ UNCHANGED <<opened, file>> /\ opened[0] # NotOpen /\ flush[0].stage = "mark"
        /\ flush'[0] = NoFlush
    BY <1>0, <1>5 DEF FlushMark, Ids
  <2>3. r.nid = node
    BY <2>2 DEF Record, StartOf, Ids
  <2> HIDE DEF r
  <2>4. rs \in Seq(Records) /\ AllAt(rs, node)
    BY <2>1, <2>3 DEF AllAt
  <2> HIDE DEF rs
  <2>5. Located(Trace(0) \o rs, opened[0], node)
    BY <1>0, <2>4, MoreLocated DEF Ids
  <2>6. Located(Trace(0)', opened[0], node)
    <3>1. Trace(0)' = Trace(0) \o rs
      BY <2>1 DEF rs
    <3> QED
      BY <2>5, <3>1
  <2>7. flush'[0].stage = "no"
    BY <2>2 DEF NoFlush
  <2> QED
    BY <1>1, <2>2, <2>6, <2>7 DEF Ids
<1> QED
  BY <1>2, <1>3, <1>4, <1>5 DEF FlushStep

\* New calls that have not read the node id yet.
LEMMA NewIds ==
    ASSUME IInv, Ids, 0 \in Tids, todo'[0] \in Seq(IdCalls),
           UNCHANGED <<node, file, buf, cur, init, opened>>,
           flush'[0].stage \in {"no", "begin"},
           flush'[0].marked => flush' = flush
    PROVE  Ids'
<1>1. Trace(0)' = Trace(0) /\ IdCalls' = IdCalls
  BY SameTrace DEF IdCalls
<1> QED
  BY <1>1 DEF Ids

LEMMA CallIds ==
    ASSUME IInv, IInv', Ids, StartOf(0), 0 \in Tids, CallStep(0)
    PROVE  Ids'
<1>0. TypeOK /\ todo[0] \in Seq(IdCalls) /\ node \in Int
  BY NodeNumbersAreInt DEF IInv, TypeOK, Ids
<1>1. CASE DoTraceEvent(0)
  <2> DEFINE c == [Head(todo[0]) EXCEPT !.do = "EventWithNodeId", !.nid = node]
             cs == <<c>>
  <2>1. Head(todo[0]) \in CallRecords /\ todo[0] # <<>> /\ flush[0].stage = "no"
    BY <1>0, <1>1, DoingProperties DEF DoTraceEvent
  <2>2. c \in CallRecords /\ c.nid = node
    BY <1>0, <2>1 DEF CallRecords, Calls
  <2>3. Then(0, cs) /\ UNCHANGED <<node, file, buf, cur, init, opened, flush>>
    BY <1>1 DEF DoTraceEvent
  <2> HIDE DEF c
  <2>4. cs \in Seq(IdCalls)
    BY <2>2 DEF IdCalls
  <2> HIDE DEF cs
  <2>5. todo'[0] \in Seq(IdCalls)
    BY <1>0, <2>1, <2>3, <2>4, ThenIds
  <2> QED
    BY <2>1, <2>3, <2>5, NewIds
<1>2. CASE DoDumpEDF(0)
  <2>1. /\ Then(0, <<>>) /\ UNCHANGED <<node, file, buf, cur, init, opened, flush>>
        /\ todo[0] # <<>> /\ flush[0].stage = "no"
    BY <1>2 DEF DoDumpEDF, Doing
  <2>2. todo'[0] \in Seq(IdCalls)
    BY <1>0, <2>1, ThenNothingIds
  <2> QED
    BY <2>1, <2>2, NewIds
<1>3. CASE DoFlush(0)
  <2>1. /\ Then(0, <<>>) /\ UNCHANGED <<node, file, buf, cur, init, opened>>
        /\ todo[0] # <<>> /\ flush'[0].stage = "begin" /\ ~flush'[0].marked
    BY <1>0, <1>3 DEF DoFlush, Doing, NoFlush, TypeOK
  <2>2. todo'[0] \in Seq(IdCalls)
    BY <1>0, <2>1, ThenNothingIds
  <2> QED
    BY <2>1, <2>2, NewIds
<1>4. CASE DoFix(0)
  <2>1. /\ Then(0, <<>>) /\ UNCHANGED <<node, file, cur, init, opened, flush>>
        /\ todo[0] # <<>>
    BY <1>4 DEF DoFix, Doing
  <2>2. todo'[0] \in Seq(IdCalls)
    BY <1>0, <2>1, ThenNothingIds
  <2> DEFINE new == Trace(0)'
  <2>3. /\ Len(new) = Len(Trace(0)) /\ Len(Trace(0)) \in Nat
        /\ \A i \in 1 .. Len(Trace(0)) : new[i].nid = Trace(0)[i].nid
    BY <1>4, FixTrace, TraceProperties, LenProperties
  <2> HIDE DEF new
  <2>4. Located(new, opened[0], node)
    BY <2>3, SameLocated DEF Ids
  <2>5. IdCalls' = IdCalls
    BY <2>1 DEF IdCalls
  <2> QED
    BY <2>1, <2>2, <2>4, <2>5 DEF Ids, new
<1> QED
  BY <1>1, <1>2, <1>3, <1>4, EventIds, RecordIds DEF CallStep

LEMMA NextIds ==
    ASSUME Tids = {0}, ~replaced', IInv, IInv', StartOf(0), Ids, [Next]_vars
    PROVE  Ids'
<1>0. /\ TypeOK /\ todo[0] \in Seq(IdCalls) /\ todo \in [Tids -> Seq(CallRecords)]
      /\ 0 \in Tids
  BY DEF IInv, TypeOK, Ids, CallRecords
<1>1. ASSUME NEW e \in Funcs \cup Users, Register(0, e) PROVE Ids'
  <2>1. UNCHANGED <<node, file, buf, cur, init, opened, flush, todo>> /\ flush[0].stage = "no"
    BY <1>1 DEF Register, Idle
  <2> QED
    BY <1>0, <2>1, NewIds
<1>2. ASSUME NEW e \in Funcs \cup Users, Trigger(0, e) PROVE Ids'
  <2>1. /\ UNCHANGED <<node, file, buf, cur, init, opened, flush>> /\ flush[0].stage = "no"
        /\ todo' = [todo EXCEPT ![0] = Traced(e)]
    BY <1>2 DEF Trigger, Idle
  <2>2. /\ Traced(e) \in Seq(CallRecords)
        /\ \A i \in 1 .. Len(Traced(e)) : Traced(e)[i].do = "TraceEvent"
    BY <1>0, TracedProperties DEF TraceEventCalls
  <2>3. Traced(e) \in Seq(IdCalls)
    <3>1. \A i \in 1 .. Len(Traced(e)) : Traced(e)[i] \in IdCalls
      BY <2>2, ElementOfSeq DEF IdCalls
    <3> DEFINE q == Traced(e)
    <3>2. q \in Seq(CallRecords) /\ \A i \in 1 .. Len(q) : q[i] \in IdCalls
      BY <2>2, <3>1
    <3> HIDE DEF q
    <3>3. q \in [1 .. Len(q) -> IdCalls] /\ Len(q) \in Nat
      BY <3>2
    <3>4. \A n \in Nat : \A r \in [1 .. n -> IdCalls] : r \in Seq(IdCalls)
      OBVIOUS
    <3>5. q \in Seq(IdCalls)
      BY <3>3, <3>4
    <3> QED
      BY <3>5 DEF q
  <2>4. todo'[0] \in Seq(IdCalls)
    BY <1>0, <2>1, <2>3
  <2> QED
    BY <2>1, <2>4, NewIds
<1>3. ASSUME Close(0) PROVE Ids'
  <2> DEFINE c == TraceEvent("CLOSE", 0)
             w == TraceEvent("WALL_CLOCK", 0)
             d == Call("DumpEDF", "CLOSE", 0, -1)
             f == Call("Flush", "CLOSE", 0, -1)
  <2>1. c \in IdCalls /\ w \in IdCalls /\ d \in IdCalls /\ f \in IdCalls
    BY DEF TraceEvent, Call, Calls, Marks, CallRecords, IdCalls
  <2>2. /\ UNCHANGED <<node, file, buf, cur, init, opened, flush>> /\ flush[0].stage = "no"
        /\ todo' = [todo EXCEPT ![0] = <<c, w, d, f>>]
    BY <1>3 DEF Close, Idle
  <2> HIDE DEF c, w, d, f
  <2>3. <<c, w, d, f>> \in Seq(IdCalls)
    BY <2>1
  <2>4. todo'[0] \in Seq(IdCalls)
    BY <1>0, <2>2, <2>3
  <2> QED
    BY <2>2, <2>4, NewIds
<1>4. ASSUME CallStep(0) \/ FlushStep(0) PROVE Ids'
  BY <1>0, <1>4, CallIds, FlushIds
<1>5. ASSUME NEW n \in Nodes, SetNode(n) PROVE Ids'
  BY <1>0, <1>5, SetNodeIds
<1>6. CASE Tick \/ Finished \/ UNCHANGED vars
  <2>1. UNCHANGED <<node, file, buf, cur, init, opened, flush, todo>>
    BY <1>6, Zenon DEF Tick, Finished, vars
  <2>2. Trace(0)' = Trace(0) /\ IdCalls' = IdCalls
    BY <1>0, <2>1, SameTrace DEF IdCalls
  <2> QED
    BY <2>1, <2>2 DEF Ids
<1> QED
  BY <1>1, <1>2, <1>3, <1>4, <1>5, <1>6 DEF Next

\* A replaced id is not forgotten.
LEMMA ReplacedStays ==
    [Next]_vars /\ replaced => replaced'
<1> SUFFICES ASSUME [Next]_vars, replaced PROVE replaced'
  OBVIOUS
<1>1. ASSUME NEW t \in Tids, NEW e \in Funcs \cup Users, Register(t, e) \/ Trigger(t, e)
      PROVE  replaced'
  BY <1>1, Zenon DEF Register, Trigger
<1>2. ASSUME NEW t \in Tids, CallStep(t) PROVE replaced'
  BY <1>2, Zenon DEF CallStep, DoTraceEvent, DoEventWithNodeId, DoFix, DoRecord, DoDumpEDF, DoFlush
<1>3. ASSUME NEW t \in Tids, FlushStep(t) PROVE replaced'
  BY <1>3, Zenon DEF FlushStep, FlushBegin, FlushDump, FlushClear, FlushWrite, FlushMark
<1>4. ASSUME NEW t \in Tids, Close(t) PROVE replaced'
  BY <1>4, Zenon DEF Close
<1>5. ASSUME NEW n \in Nodes, SetNode(n) PROVE replaced'
  BY <1>5 DEF SetNode
<1>6. CASE Tick \/ Finished \/ UNCHANGED vars
  BY <1>6, Zenon DEF Tick, Finished, vars
<1> QED
  BY <1>1, <1>2, <1>3, <1>4, <1>5, <1>6 DEF Next

\* With one thread, whatever node ids are set and how often, all records of the
\* trace file have the id in its name, unless an id above 0 has been replaced.
THEOREM NodeIdsAgree == NumThreads = 1 => (Spec => []NodeIds)
<1> SUFFICES ASSUME NumThreads = 1 PROVE Spec => []NodeIds
  OBVIOUS
<1>0. Tids = {0} /\ FirstNode \in Int /\ FirstNode >= -1
  BY TracerAssumption DEF Tids, TracerAssumption
<1> DEFINE Inv == IInv /\ (\A t \in Tids : StartOf(t)) /\ (~replaced => Ids)
<1>1. Init => Inv
  <2> SUFFICES ASSUME Init PROVE Inv
    OBVIOUS
  <2>1. IInv /\ \A t \in Tids : StartOf(t)
    BY InitIInv, InitStarts
  <2>2. /\ todo[0] = <<>> /\ flush[0] = NoFlush /\ opened[0] = NotOpen /\ file[0] = <<>>
        /\ buf[0] = <<>> /\ cur[0] = 0 /\ ~init[0] /\ node = FirstNode
    BY <1>0 DEF Init
  <2>3. Len(Trace(0)) = 0
    BY <1>0, <2>1, <2>2, TraceProperties
  <2>4. Located(Trace(0), opened[0], node)
    BY <2>2, <2>3 DEF Located, Mixed, AllAt, NotOpen
  <2>5. <<>> \in Seq(IdCalls)
    OBVIOUS
  <2>6. Ids
    BY <1>0, <2>2, <2>4, <2>5 DEF Ids, NoFlush, NotOpen
  <2> QED
    BY <2>1, <2>6
<1>2. Inv /\ [Next]_vars => Inv'
  <2> SUFFICES ASSUME Inv, [Next]_vars PROVE Inv'
    OBVIOUS
  <2>1. IInv'
    BY NextIInv
  <2>2. \A t \in Tids : StartOf(t)'
    BY <2>1, NextStarts
  <2>3. ~replaced' => Ids'
    BY <1>0, <2>1, NextIds, ReplacedStays
  <2> QED
    BY <2>1, <2>2, <2>3
<1>3. Inv => NodeIds
  <2> SUFFICES ASSUME Inv, ~replaced, opened[0] = node, node >= 0, NEW i \in 1 .. Len(file[0])
               PROVE  file[0][i].nid = node
    BY <1>0 DEF NodeIds
  <2>1. AllAt(Trace(0), node)
    BY DEF Ids, Located
  <2>2. PICK m \in Nat, k \in Nat : m = Len(file[0]) /\ k = cur[0] /\ Len(Trace(0)) = m + k
    BY <1>0, TraceProperties
  <2>3. Trace(0)[i] = file[0][i] /\ i \in 1 .. m + k
    BY <1>0, <2>2, TraceProperties
  <2> QED
    BY <2>1, <2>2, <2>3 DEF AllAt
<1> QED
  BY <1>1, <1>2, <1>3, PTL DEF Spec

-----------------------------------------------------------------------------
(* No event is lost: what a trace has recorded, and what is left to record. *)

\* The indices that Nth counts.
LEMMA NthType ==
    ASSUME NEW s, NEW i \in Nat
    PROVE  /\ IsFiniteSet({j \in 1 .. i : s[j].ev \notin Marks})
           /\ Nth(s, i) \in Nat
<1> DEFINE S == {j \in 1 .. i : s[j].ev \notin Marks}
<1>1. IsFiniteSet(1 .. i)
  BY FS_Interval
<1>2. S \in SUBSET (1 .. i)
  OBVIOUS
<1> HIDE DEF S
<1>3. IsFiniteSet(S)
  BY <1>1, <1>2, FS_Subset
<1>4. Cardinality(S) \in Nat
  BY <1>3, FS_CardinalityType
<1> QED
  BY <1>3, <1>4 DEF Nth, S

\* It does not count more in a part, and counts every event.
LEMMA NthMonotone ==
    ASSUME NEW s, NEW i \in Nat, NEW k \in Nat, i <= k
    PROVE  /\ Nth(s, i) <= Nth(s, k)
           /\ i # 0 /\ s[i].ev \notin Marks => Nth(s, i) >= 1
<1> DEFINE S == {j \in 1 .. i : s[j].ev \notin Marks}
           T == {j \in 1 .. k : s[j].ev \notin Marks}
<1>1. IsFiniteSet(S) /\ IsFiniteSet(T)
  BY NthType
<1>2. S \in SUBSET T
  OBVIOUS
<1>3. i # 0 /\ s[i].ev \notin Marks => S # {}
  <2> SUFFICES ASSUME i # 0, s[i].ev \notin Marks PROVE i \in S
    OBVIOUS
  <2> QED
    OBVIOUS
<1>4. Nth(s, i) = Cardinality(S) /\ Nth(s, k) = Cardinality(T)
  BY DEF Nth
<1> HIDE DEF S, T
<1>5. Cardinality(S) <= Cardinality(T)
  BY <1>1, <1>2, FS_Subset
<1>6. S # {} => Cardinality(S) >= 1
  <2>1. Cardinality(S) \in Nat /\ (Cardinality(S) = 0 <=> S = {})
    BY <1>1, FS_CardinalityType, FS_EmptySet
  <2> QED
    BY <2>1
<1> QED
  BY <1>3, <1>4, <1>5, <1>6

\* It depends on the first events only.
LEMMA NthSame ==
    ASSUME NEW s, NEW r, NEW i \in Nat, \A j \in 1 .. i : r[j].ev = s[j].ev
    PROVE  Nth(r, i) = Nth(s, i)
<1>1. {j \in 1 .. i : r[j].ev \notin Marks} = {j \in 1 .. i : s[j].ev \notin Marks}
  OBVIOUS
<1> QED
  BY <1>1 DEF Nth

\* One record more.
LEMMA NthNext ==
    ASSUME NEW s, NEW i \in Nat
    PROVE  Nth(s, i + 1) = Nth(s, i) + (IF s[i + 1].ev \in Marks THEN 0 ELSE 1)
<1> DEFINE S == {j \in 1 .. i : s[j].ev \notin Marks}
           T == {j \in 1 .. i + 1 : s[j].ev \notin Marks}
<1>1. IsFiniteSet(S)
  BY NthType
<1>2. Nth(s, i) = Cardinality(S) /\ Nth(s, i + 1) = Cardinality(T) /\ Nth(s, i) \in Nat
  BY NthType DEF Nth
<1>3. T = IF s[i + 1].ev \in Marks THEN S ELSE S \cup {i + 1}
  <2>1. \A j : j \in 1 .. i + 1 <=> j \in 1 .. i \/ j = i + 1
    OBVIOUS
  <2> QED
    BY <2>1
<1>4. i + 1 \notin S
  OBVIOUS
<1> HIDE DEF S, T
<1>5. Cardinality(S \cup {i + 1}) = Cardinality(S) + 1
  BY <1>1, <1>4, FS_AddElement
<1> QED
  BY <1>2, <1>3, <1>5

LEMMA NthNone ==
    ASSUME NEW s
    PROVE  Nth(s, 0) = 0
<1>1. {j \in 1 .. 0 : s[j].ev \notin Marks} = {}
  OBVIOUS
<1> QED
  BY <1>1, FS_EmptySet DEF Nth

\* The records of s are the first n of the events a.
Recorded(s, a, n) ==
    /\ Nth(s, Len(s)) = n
    /\ \A i \in 1 .. Len(s) : s[i].ev \notin Marks => s[i].ev = a[Nth(s, i)]

\* The records are changed, but for their events.
LEMMA RecordedSame ==
    ASSUME NEW s, NEW r, NEW a, NEW n, Recorded(s, a, n), Len(r) = Len(s), Len(s) \in Nat,
           \A i \in 1 .. Len(s) : r[i].ev = s[i].ev
    PROVE  Recorded(r, a, n)
<1>1. PICK k \in Nat : k = Len(s)
  OBVIOUS
<1>2. \A i \in 0 .. k : Nth(r, i) = Nth(s, i)
  <2> SUFFICES ASSUME NEW i \in 0 .. k PROVE Nth(r, i) = Nth(s, i)
    OBVIOUS
  <2>1. i \in Nat /\ \A j \in 1 .. i : r[j].ev = s[j].ev
    BY <1>1
  <2> QED
    BY <2>1, NthSame
<1> QED
  BY <1>1, <1>2 DEF Recorded

\* The thread triggers more.
LEMMA RecordedLonger ==
    ASSUME NEW s, NEW a, NEW b, NEW n, Recorded(s, a, n), Len(s) \in Nat,
           \A i \in 1 .. n : b[i] = a[i]
    PROVE  Recorded(s, b, n)
<1>1. PICK k \in Nat : k = Len(s)
  OBVIOUS
<1>2. ASSUME NEW i \in 1 .. k, s[i].ev \notin Marks PROVE Nth(s, i) \in 1 .. n
  <2>0. i \in Nat /\ i <= k /\ i # 0
    OBVIOUS
  <2>1. Nth(s, i) <= Nth(s, k) /\ Nth(s, i) >= 1
    BY <1>2, <2>0, NthMonotone
  <2>2. Nth(s, k) = n /\ Nth(s, k) \in Nat /\ Nth(s, i) \in Nat
    BY <1>1, <2>0, NthType DEF Recorded
  <2> QED
    BY <2>1, <2>2
<1> QED
  BY <1>1, <1>2 DEF Recorded

\* One record more, of the tracer or of the next event.
LEMMA RecordedMore ==
    ASSUME NEW s \in Seq(Records), NEW r \in Records, NEW a, NEW n \in Nat, Recorded(s, a, n)
    PROVE  /\ <<r>> \in Seq(Records) /\ s \o <<r>> \in Seq(Records)
           /\ r.ev \in Marks => Recorded(s \o <<r>>, a, n)
           /\ r.ev \notin Marks /\ r.ev = a[n + 1] => Recorded(s \o <<r>>, a, n + 1)
<1> DEFINE one == <<r>>
           x == s \o one
<1>1. PICK k \in Nat : k = Len(s)
  BY LenProperties
<1>2. one \in Seq(Records) /\ Len(one) = 1 /\ one[1] = r
  OBVIOUS
<1> HIDE DEF one
<1>3. /\ x \in Seq(Records) /\ Len(x) = k + 1
      /\ \A i \in 1 .. k + 1 : x[i] = IF i <= k THEN s[i] ELSE one[i - k]
  <2>1. PICK l \in Nat : l = Len(one)
    BY <1>2
  <2>2. /\ x \in Seq(Records) /\ Len(x) = k + l
        /\ \A i \in 1 .. k + l : x[i] = IF i <= k THEN s[i] ELSE one[i - k]
    BY <1>1, <1>2, <2>1, ConcatProperties
  <2> HIDE DEF x
  <2>3. l = 1
    BY <1>2, <2>1
  <2> QED
    BY <2>2, <2>3
<1> HIDE DEF x
<1>4. (\A i \in 1 .. k : x[i] = s[i]) /\ x[k + 1] = r
  <2>1. k + 1 \in 1 .. k + 1 /\ (k + 1) - k = 1 /\ ~(k + 1 <= k)
    OBVIOUS
  <2> QED
    BY <1>2, <1>3, <2>1
<1>5. \A i \in 0 .. k : Nth(x, i) = Nth(s, i)
  <2> SUFFICES ASSUME NEW i \in 0 .. k PROVE Nth(x, i) = Nth(s, i)
    OBVIOUS
  <2>1. i \in Nat /\ \A j \in 1 .. i : x[j].ev = s[j].ev
    BY <1>4
  <2> QED
    BY <2>1, NthSame
<1>6. Nth(x, k + 1) = n + (IF r.ev \in Marks THEN 0 ELSE 1)
  <2>1. Nth(x, k + 1) = Nth(x, k) + (IF x[k + 1].ev \in Marks THEN 0 ELSE 1)
    BY NthNext
  <2>2. Nth(x, k) = n
    BY <1>1, <1>5 DEF Recorded
  <2> QED
    BY <1>4, <2>1, <2>2
<1>7. \A i \in 1 .. k : x[i].ev \notin Marks => x[i].ev = a[Nth(x, i)]
  BY <1>1, <1>4, <1>5 DEF Recorded
<1>8. \A i \in 1 .. k + 1 : i \in 1 .. k \/ i = k + 1
  OBVIOUS
<1>9. r.ev \in Marks => Recorded(x, a, n)
  BY <1>3, <1>4, <1>6, <1>7, <1>8 DEF Recorded
<1>10. r.ev \notin Marks /\ r.ev = a[n + 1] => Recorded(x, a, n + 1)
  BY <1>3, <1>4, <1>6, <1>7, <1>8 DEF Recorded
<1> QED
  BY <1>2, <1>3, <1>9, <1>10 DEF x, one

\* The calls that are on the way of an event into the buffer.
EventDos == {"TraceEvent", "EventWithNodeId", "Record"}

\* The calls q have first marks to record and then, but for n, the events a.
Rest(q, a, n) ==
    \E d \in 0 .. Len(q) :
       /\ n + Len(q) = Len(a) + d
       /\ \A i \in 1 .. d : q[i].ev \in Marks
       /\ \A i \in d + 1 .. Len(q) : /\ q[i].do \in EventDos
                                     /\ q[i].ev \notin Marks
                                     /\ q[i].ev = a[n + i - d]

\* The first call has been made.
LEMMA RestNext ==
    ASSUME NEW q \in Seq(CallRecords), q # <<>>, NEW a \in Seq(AppEvents), NEW n \in Nat,
           Rest(q, a, n)
    PROVE  /\ Head(q).ev \in Marks => Rest(Tail(q), a, n)
           /\ Head(q).ev \notin Marks =>
                 /\ Head(q).ev = a[n + 1] /\ Head(q).do \in EventDos
                 /\ Rest(Tail(q), a, n + 1)
<1> DEFINE p == Tail(q)
<1>1. PICK k \in Nat, l \in Nat : k = Len(p) /\ Len(q) = k + 1 /\ l = Len(a)
  <2>1. Len(p) = Len(q) - 1 /\ p \in Seq(CallRecords)
    BY HeadTailProperties
  <2>2. Len(q) \in Nat /\ Len(p) \in Nat /\ Len(a) \in Nat
    BY <2>1, LenProperties
  <2> HIDE DEF p
  <2>3. Len(q) = Len(p) + 1
    BY <2>1, <2>2
  <2> QED
    BY <2>2, <2>3
<1>2. Head(q) = q[1] /\ \A i \in 1 .. k : p[i] = q[i + 1]
  BY <1>1, HeadTailProperties
<1>3. PICK d \in 0 .. k + 1 :
         /\ n + (k + 1) = l + d
         /\ \A i \in 1 .. d : q[i].ev \in Marks
         /\ \A i \in d + 1 .. k + 1 : /\ q[i].do \in EventDos
                                      /\ q[i].ev \notin Marks
                                      /\ q[i].ev = a[n + i - d]
  BY <1>1 DEF Rest
<1> HIDE DEF p
<1>4. CASE d = 0
  <2>1. /\ q[1].do \in EventDos /\ q[1].ev \notin Marks
        /\ q[1].ev = a[n + 1]
    <3>1. 1 \in d + 1 .. k + 1 /\ n + 1 - d = n + 1
      BY <1>4
    <3> QED
      BY <1>3, <3>1
  <2>2. \A i \in 0 + 1 .. k : /\ p[i].do \in EventDos /\ p[i].ev \notin Marks
                              /\ p[i].ev = a[(n + 1) + i - 0]
    <3> SUFFICES ASSUME NEW i \in 0 + 1 .. k
                 PROVE  /\ p[i].do \in EventDos /\ p[i].ev \notin Marks
                        /\ p[i].ev = a[(n + 1) + i - 0]
      OBVIOUS
    <3>1. /\ i \in 1 .. k /\ i + 1 \in d + 1 .. k + 1
          /\ n + (i + 1) - d = (n + 1) + i - 0
      BY <1>4
    <3> QED
      BY <1>2, <1>3, <3>1
  <2>3. Rest(p, a, n + 1)
    <3>1. 0 \in 0 .. k /\ (n + 1) + k = l + 0
      BY <1>3, <1>4
    <3>2. /\ 0 \in 0 .. Len(p) /\ (n + 1) + Len(p) = Len(a) + 0
          /\ \A i \in 1 .. 0 : p[i].ev \in Marks
          /\ \A i \in 0 + 1 .. Len(p) : /\ p[i].do \in EventDos /\ p[i].ev \notin Marks
                                        /\ p[i].ev = a[(n + 1) + i - 0]
      BY <1>1, <2>2, <3>1
    <3> QED
      BY <3>2, Zenon DEF Rest
  <2> QED
    BY <1>2, <2>1, <2>3 DEF p
<1>5. CASE d # 0
  <2>1. q[1].ev \in Marks
    BY <1>3, <1>5
  <2>2. PICK e \in 0 .. k : d = e + 1
    <3>1. d - 1 \in 0 .. k /\ d = (d - 1) + 1
      BY <1>5
    <3> QED
      BY <3>1
  <2>3. \A i \in 1 .. e : p[i].ev \in Marks
    <3> SUFFICES ASSUME NEW i \in 1 .. e PROVE p[i].ev \in Marks
      OBVIOUS
    <3>1. i \in 1 .. k /\ i + 1 \in 1 .. d
      BY <2>2
    <3> QED
      BY <1>2, <1>3, <3>1
  <2>4. \A i \in e + 1 .. k : /\ p[i].do \in EventDos /\ p[i].ev \notin Marks
                              /\ p[i].ev = a[n + i - e]
    <3> SUFFICES ASSUME NEW i \in e + 1 .. k
                 PROVE  /\ p[i].do \in EventDos /\ p[i].ev \notin Marks /\ p[i].ev = a[n + i - e]
      OBVIOUS
    <3>1. i \in 1 .. k /\ i + 1 \in d + 1 .. k + 1 /\ n + (i + 1) - d = n + i - e
      BY <2>2
    <3> QED
      BY <1>2, <1>3, <3>1
  <2>5. n + k = l + e
    BY <1>3, <2>2
  <2>6. Rest(p, a, n)
    BY <1>1, <2>3, <2>4, <2>5 DEF Rest
  <2> QED
    BY <1>2, <2>1, <2>6 DEF p
<1> QED
  BY <1>4, <1>5

\* Calls for marks are put before the others.
LEMMA RestBehind ==
    ASSUME NEW c \in Seq(CallRecords), \A i \in 1 .. Len(c) : c[i].ev \in Marks,
           NEW q \in Seq(CallRecords), NEW a \in Seq(AppEvents), NEW n \in Nat, Rest(q, a, n)
    PROVE  Rest(c \o q, a, n)
<1> DEFINE x == c \o q
<1>1. PICK k \in Nat, m \in Nat, l \in Nat : k = Len(q) /\ m = Len(c) /\ l = Len(a)
  BY LenProperties
<1>2. /\ Len(x) = m + k
      /\ \A i \in 1 .. m + k : x[i] = IF i <= m THEN c[i] ELSE q[i - m]
  BY <1>1, ConcatProperties
<1>3. PICK d \in 0 .. k :
         /\ n + k = l + d
         /\ \A i \in 1 .. d : q[i].ev \in Marks
         /\ \A i \in d + 1 .. k : /\ q[i].do \in EventDos
                                  /\ q[i].ev \notin Marks
                                  /\ q[i].ev = a[n + i - d]
  BY <1>1 DEF Rest
<1> HIDE DEF x
<1> DEFINE e == m + d
<1>4. e \in 0 .. m + k /\ n + (m + k) = l + e
  BY <1>3
<1>5. \A i \in 1 .. e : x[i].ev \in Marks
  <2> SUFFICES ASSUME NEW i \in 1 .. e PROVE x[i].ev \in Marks
    OBVIOUS
  <2>1. CASE i <= m
    BY <1>1, <1>2, <2>1
  <2>2. CASE i > m
    <3>1. i - m \in 1 .. d /\ i \in 1 .. m + k /\ ~(i <= m)
      BY <2>2
    <3>2. x[i] = q[i - m]
      BY <1>2, <3>1
    <3> QED
      BY <1>3, <3>1, <3>2
  <2> QED
    BY <2>1, <2>2
<1>6. \A i \in e + 1 .. m + k : /\ x[i].do \in EventDos /\ x[i].ev \notin Marks
                                /\ x[i].ev = a[n + i - e]
  <2> SUFFICES ASSUME NEW i \in e + 1 .. m + k
               PROVE  /\ x[i].do \in EventDos /\ x[i].ev \notin Marks /\ x[i].ev = a[n + i - e]
    OBVIOUS
  <2>1. PICK j \in d + 1 .. k : i = m + j
    <3>1. i - m \in d + 1 .. k /\ i = m + (i - m)
      OBVIOUS
    <3> QED
      BY <3>1
  <2>2. x[i] = q[j] /\ n + i - e = n + j - d
    <3>1. i - m = j /\ ~(i <= m) /\ i \in 1 .. m + k
      BY <2>1
    <3> QED
      BY <1>2, <2>1, <3>1
  <2> QED
    BY <1>3, <2>2
<1> HIDE DEF e
<1>7. Rest(x, a, n)
  BY <1>2, <1>4, <1>5, <1>6, <1>1 DEF Rest
<1> QED
  BY <1>7 DEF x

\* The first call makes another one for the same event.
LEMMA RestSame ==
    ASSUME NEW q \in Seq(CallRecords), q # <<>>, NEW a \in Seq(AppEvents), NEW n \in Nat,
           Rest(q, a, n), NEW c \in CallRecords, c.ev = Head(q).ev, c.do \in EventDos
    PROVE  Rest(<<c>> \o Tail(q), a, n)
<1> DEFINE p == Tail(q)
           one == <<c>>
           x == one \o p
<1>1. PICK k \in Nat, l \in Nat : k = Len(p) /\ Len(q) = k + 1 /\ l = Len(a)
  <2>1. Len(p) = Len(q) - 1 /\ p \in Seq(CallRecords)
    BY HeadTailProperties
  <2>2. Len(q) \in Nat /\ Len(p) \in Nat /\ Len(a) \in Nat
    BY <2>1, LenProperties
  <2> HIDE DEF p
  <2>3. Len(q) = Len(p) + 1
    BY <2>1, <2>2
  <2> QED
    BY <2>2, <2>3
<1>2. p \in Seq(CallRecords) /\ Head(q) = q[1] /\ \A i \in 1 .. k : p[i] = q[i + 1]
  BY <1>1, HeadTailProperties
<1>3. one \in Seq(CallRecords) /\ Len(one) = 1 /\ one[1] = c
  OBVIOUS
<1> HIDE DEF p, one
<1>4. /\ Len(x) = k + 1
      /\ \A i \in 1 .. k + 1 : x[i] = IF i <= 1 THEN one[i] ELSE p[i - 1]
  <2>1. PICK l1 \in Nat : l1 = Len(one)
    BY <1>3
  <2>2. /\ Len(x) = l1 + k
        /\ \A i \in 1 .. l1 + k : x[i] = IF i <= l1 THEN one[i] ELSE p[i - l1]
    <3>1. p \in Seq(CallRecords) /\ one \in Seq(CallRecords) /\ k = Len(p)
      BY <1>1, <1>2, <1>3
    <3> QED
      BY <2>1, <3>1, ConcatProperties
  <2> HIDE DEF x
  <2>3. l1 = 1 /\ l1 + k = k + 1
    BY <1>3, <2>1
  <2> QED
    BY <2>2, <2>3
<1> HIDE DEF x
<1>5. \A i \in 1 .. k + 1 : x[i].ev = q[i].ev /\ (x[i].do = q[i].do \/ x[i].do \in EventDos)
  <2> SUFFICES ASSUME NEW i \in 1 .. k + 1
               PROVE  x[i].ev = q[i].ev /\ (x[i].do = q[i].do \/ x[i].do \in EventDos)
    OBVIOUS
  <2>1. CASE i = 1
    BY <1>2, <1>3, <1>4, <2>1
  <2>2. CASE i # 1
    <3>1. i - 1 \in 1 .. k /\ (i - 1) + 1 = i /\ ~(i <= 1)
      BY <2>2
    <3>2. x[i] = q[i]
      BY <1>2, <1>4, <3>1
    <3> QED
      BY <3>2
  <2> QED
    BY <2>1, <2>2
<1>6. PICK d \in 0 .. k + 1 :
         /\ n + (k + 1) = l + d
         /\ \A i \in 1 .. d : q[i].ev \in Marks
         /\ \A i \in d + 1 .. k + 1 : /\ q[i].do \in EventDos
                                      /\ q[i].ev \notin Marks
                                      /\ q[i].ev = a[n + i - d]
  BY <1>1 DEF Rest
<1>7. \A i \in 1 .. d : x[i].ev \in Marks
  BY <1>5, <1>6
<1>8. \A i \in d + 1 .. k + 1 : /\ x[i].do \in EventDos /\ x[i].ev \notin Marks
                                /\ x[i].ev = a[n + i - d]
  <2> SUFFICES ASSUME NEW i \in d + 1 .. k + 1
               PROVE  /\ x[i].do \in EventDos /\ x[i].ev \notin Marks
                      /\ x[i].ev = a[n + i - d]
    OBVIOUS
  <2>1. i \in 1 .. k + 1
    OBVIOUS
  <2>2. q[i].do \in EventDos /\ q[i].ev \notin Marks /\ q[i].ev = a[n + i - d]
    BY <1>6
  <2>3. x[i].ev = q[i].ev /\ (x[i].do = q[i].do \/ x[i].do \in EventDos)
    BY <1>5, <2>1
  <2> QED
    BY <2>2, <2>3
<1>9. Rest(x, a, n)
  BY <1>1, <1>4, <1>6, <1>7, <1>8 DEF Rest
<1> QED
  BY <1>9 DEF x, p, one

\* What thread t has triggered is in its trace, or still to be traced.
Kept(t) == \E n \in Nat : /\ Recorded(Trace(t), triggered[t], n)
                          /\ Rest(todo[t], triggered[t], n)

\* The records are as before, but for their times and node ids.
LEMMA KeptSame ==
    ASSUME IInv, NEW t \in Tids, NEW n \in Nat, Recorded(Trace(t), triggered[t], n),
           triggered'[t] = triggered[t], Len(Trace(t)') = Len(Trace(t)),
           \A i \in 1 .. Len(Trace(t)) : Trace(t)'[i].ev = Trace(t)[i].ev,
           Rest(todo'[t], triggered[t], n)
    PROVE  Kept(t)'
<1> DEFINE new == Trace(t)'
<1>1. Len(Trace(t)) \in Nat
  BY TraceProperties, LenProperties
<1>2. Len(new) = Len(Trace(t)) /\ \A i \in 1 .. Len(Trace(t)) : new[i].ev = Trace(t)[i].ev
  OBVIOUS
<1> HIDE DEF new
<1>3. Recorded(new, triggered[t], n)
  BY <1>1, <1>2, RecordedSame
<1>4. Recorded(new, triggered'[t], n) /\ Rest(todo'[t], triggered'[t], n)
  BY <1>3
<1> QED
  BY <1>4 DEF Kept, new

\* The trace, too, is as it was.
LEMMA KeptTrace ==
    ASSUME NEW t \in Tids, NEW n \in Nat, Recorded(Trace(t), triggered[t], n),
           triggered'[t] = triggered[t], Trace(t)' = Trace(t), Rest(todo'[t], triggered[t], n)
    PROVE  Kept(t)'
BY DEF Kept

\* A mark is recorded in the midst of a flush.
LEMMA KeptMark ==
    ASSUME IInv, NEW t \in Tids, Kept(t), NEW r \in Records, r.ev \in Marks,
           Trace(t)' = Trace(t) \o <<r>>, UNCHANGED <<todo[t], triggered[t]>>
    PROVE  Kept(t)'
<1>1. PICK n \in Nat : Recorded(Trace(t), triggered[t], n) /\ Rest(todo[t], triggered[t], n)
  BY DEF Kept
<1>2. Trace(t) \in Seq(Records)
  BY TraceProperties
<1>3. Recorded(Trace(t) \o <<r>>, triggered[t], n)
  BY <1>1, <1>2, RecordedMore
<1> DEFINE new == Trace(t)'
<1>4. Recorded(new, triggered[t], n)
  BY <1>3
<1> HIDE DEF new
<1>5. Recorded(new, triggered'[t], n) /\ Rest(todo'[t], triggered'[t], n)
  BY <1>1, <1>4
<1> QED
  BY <1>5 DEF Kept, new

LEMMA FlushKept ==
    ASSUME IInv, IInv', NEW t \in Tids, Kept(t), FlushStep(t)
    PROVE  Kept(t)'
<1>1. UNCHANGED <<todo, triggered>>
  BY DEF FlushStep, FlushBegin, FlushDump, FlushClear, FlushWrite, FlushMark
<1>2. PICK n \in Nat : Recorded(Trace(t), triggered[t], n) /\ Rest(todo[t], triggered[t], n)
  BY DEF Kept
<1>3. CASE FlushBegin(t)
  <2>1. SameButNode(t) /\ UNCHANGED <<cur, file>>
    BY <1>3, RenamedSame DEF FlushBegin
  <2>2. /\ Len(Trace(t)') = Len(Trace(t))
        /\ \A i \in 1 .. Len(Trace(t)) : Trace(t)'[i].ev = Trace(t)[i].ev
    BY <2>1, SameButNodeTrace
  <2> QED
    BY <1>1, <1>2, <2>2, KeptSame
<1>4. CASE FlushDump(t) \/ FlushClear(t) \/ FlushWrite(t)
  <2>1. Trace(t)' = Trace(t)
    BY <1>4, WriteTrace, SameTrace DEF FlushDump, FlushClear
  <2> QED
    BY <1>1, <1>2, <2>1, KeptTrace
<1>5. CASE FlushMark(t)
  <2> DEFINE r == Record("FLUSH", 0, flush[t].nid)
  <2>1. r \in Records /\ Trace(t)' = Trace(t) \o <<r>> /\ r.ev \in Marks
    BY <1>5, MarkTrace DEF Record, Marks
  <2> HIDE DEF r
  <2> QED
    BY <1>1, <2>1, KeptMark
<1> QED
  BY <1>3, <1>4, <1>5 DEF FlushStep

\* Calls that only make other calls for the event, or leave the events alone.
LEMMA CallKept ==
    ASSUME IInv, IInv', NEW t \in Tids, Kept(t), 
           DoTraceEvent(t) \/ DoFix(t) \/ DoDumpEDF(t) \/ DoFlush(t)
    PROVE  Kept(t)'
<1> DEFINE c == Head(todo[t])
<1>0. PICK n \in Nat : Recorded(Trace(t), triggered[t], n) /\ Rest(todo[t], triggered[t], n)
  BY DEF Kept
<1>1. /\ todo[t] \in Seq(CallRecords) /\ todo \in [Tids -> Seq(CallRecords)]
      /\ triggered[t] \in Seq(AppEvents) /\ node \in Int /\ TypeOK
  BY NodeNumbersAreInt DEF IInv, TypeOK, CallRecords
<1>2. todo[t] # <<>> /\ c \in CallRecords /\ triggered' = triggered
  <2>1. triggered' = triggered
    BY DEF DoTraceEvent, DoFix, DoDumpEDF, DoFlush
  <2>2. todo[t] # <<>>
    BY DEF DoTraceEvent, DoFix, DoDumpEDF, DoFlush, Doing
  <2> QED
    BY <1>1, <2>1, <2>2, HeadTailProperties
<1>3. CASE DoTraceEvent(t)
  <2> DEFINE e == [c EXCEPT !.do = "EventWithNodeId", !.nid = node]
             cs == <<e>>
  <2>1. e \in CallRecords /\ e.ev = c.ev /\ e.do \in EventDos
    BY <1>1, <1>2 DEF CallRecords, Calls, EventDos
  <2>2. Trace(t)' = Trace(t)
    BY <1>3, SameTrace DEF DoTraceEvent
  <2>3. Then(t, cs)
    BY <1>3 DEF DoTraceEvent
  <2>4. todo'[t] = <<e>> \o Tail(todo[t])
    BY <1>1, <2>3 DEF Then
  <2> HIDE DEF e, c, cs
  <2>5. Rest(<<e>> \o Tail(todo[t]), triggered[t], n)
    BY <1>0, <1>1, <1>2, <2>1, RestSame DEF c
  <2>6. Rest(todo'[t], triggered[t], n)
    BY <2>4, <2>5
  <2> QED
    BY <1>0, <1>2, <2>2, <2>6, KeptTrace
<1>4. CASE ~DoTraceEvent(t)
  <2>1. c.do \in {"Fix", "DumpEDF", "Flush"} /\ Then(t, <<>>)
    BY <1>4 DEF DoFix, DoDumpEDF, DoFlush, Doing
  <2>2. c.ev \in Marks
    <3>1. c.do \notin EventDos
      BY <2>1 DEF EventDos
    <3> HIDE DEF c
    <3> QED
      BY <1>0, <1>1, <1>2, <3>1, RestNext DEF c
  <2>3. Rest(Tail(todo[t]), triggered[t], n)
    <3> HIDE DEF c
    <3> QED
      BY <1>0, <1>1, <1>2, <2>2, RestNext DEF c
  <2>4. todo'[t] = Tail(todo[t])
    <3>1. todo'[t] = <<>> \o Tail(todo[t])
      BY <1>1, <2>1 DEF Then
    <3>2. Tail(todo[t]) \in Seq(CallRecords)
      BY <1>1, <1>2, HeadTailProperties
    <3> QED
      BY <3>1, <3>2, ConcatEmptySeq
  <2>5. Rest(todo'[t], triggered[t], n)
    BY <2>3, <2>4
  <2>6. /\ Len(Trace(t)') = Len(Trace(t))
        /\ \A i \in 1 .. Len(Trace(t)) : Trace(t)'[i].ev = Trace(t)[i].ev
    <3>1. CASE DoFix(t)
      BY <3>1, FixTrace
    <3>2. CASE ~DoFix(t)
      <4>1. UNCHANGED <<buf, cur, file>>
        BY <1>4, <3>2 DEF DoDumpEDF, DoFlush
      <4>2. Trace(t)' = Trace(t)
        BY <4>1, SameTrace
      <4> QED
        BY <4>2
    <3> QED
      BY <3>1, <3>2
  <2> QED
    BY <1>0, <1>2, <2>5, <2>6, KeptSame
<1> QED
  BY <1>3, <1>4

\* TauTraceInit creates marks.
LEMMA CreatedMarks ==
    ASSUME TypeOK, NEW t \in Tids, NEW n \in Int
    PROVE  \A i \in 1 .. Len(Created(t, n)) : Created(t, n)[i].ev \in Marks
<1> DEFINE a == Call("Record", "EV_INIT", 0, n)
           b == Call("Record", "WALL_CLOCK", 0, n)
<1>1. a.ev \in Marks /\ b.ev \in Marks
  BY DEF Call, Marks
<1>2. Created(t, n) \in {<<>>, <<>> \o <<b>>, <<a>> \o <<b>>}
  BY DEF Created
<1> HIDE DEF a, b
<1>3. <<>> \o <<b>> = <<b>> /\ <<a>> \o <<b>> = <<a, b>>
  BY PairProperties
<1>4. Created(t, n) \in {<<>>, <<b>>, <<a, b>>}
  BY <1>2, <1>3
<1> QED
  BY <1>1, <1>4

LEMMA EventKept ==
    ASSUME IInv, IInv', NEW t \in Tids, Kept(t), DoEventWithNodeId(t)
    PROVE  Kept(t)'
<1> DEFINE c == Head(todo[t])
           created == Created(t, node)
           fix == IF created # <<>> /\ c.ts # 0 THEN <<Fix(Len(created), c.ts)>> ELSE <<>>
           e == [c EXCEPT !.do = "Record"]
           last == <<e>>
           tail == Tail(todo[t])
<1>0. PICK n \in Nat : Recorded(Trace(t), triggered[t], n) /\ Rest(todo[t], triggered[t], n)
  BY DEF Kept
<1>1. /\ todo[t] \in Seq(CallRecords) /\ todo \in [Tids -> Seq(CallRecords)]
      /\ triggered[t] \in Seq(AppEvents) /\ node \in Int /\ TypeOK
  BY NodeNumbersAreInt DEF IInv, TypeOK, CallRecords
<1>2. todo[t] # <<>> /\ c \in CallRecords /\ triggered' = triggered /\ tail \in Seq(CallRecords)
  <2>1. triggered' = triggered /\ todo[t] # <<>>
    BY DEF DoEventWithNodeId, Doing
  <2> QED
    BY <1>1, <2>1, HeadTailProperties
<1>3. e \in CallRecords /\ e.ev = c.ev /\ e.do \in EventDos
  BY <1>2 DEF CallRecords, Calls, EventDos
<1>4. Rest(last \o tail, triggered[t], n)
  <2> HIDE DEF e, c
  <2> QED
    BY <1>0, <1>1, <1>2, <1>3, RestSame DEF c
<1>5. last \in Seq(CallRecords)
  <2> HIDE DEF e
  <2> QED
    BY <1>3
<1>6. created \in Seq(CallRecords) /\ \A i \in 1 .. Len(created) : created[i].ev \in Marks
  BY <1>1, CreatedProperties, CreatedMarks
<1>7. fix \in Seq(CallRecords) /\ \A i \in 1 .. Len(fix) : fix[i].ev \in Marks
  <2>1. Len(created) \in Nat /\ c.ts \in Nat
    BY <1>2, <1>6, LenProperties DEF CallRecords
  <2> DEFINE f == Fix(Len(created), c.ts)
  <2>2. f \in CallRecords /\ f.ev \in Marks
    BY <2>1, FixType DEF Fix, Call, Marks
  <2>3. fix = <<f>> \/ fix = <<>>
    OBVIOUS
  <2> HIDE DEF f, fix
  <2>4. CASE fix = <<f>>
    BY <2>2, <2>4
  <2>5. CASE fix = <<>>
    BY <2>5
  <2> QED
    BY <2>3, <2>4, <2>5
<1>8. todo'[t] = (created \o fix \o last) \o tail
  BY <1>1 DEF DoEventWithNodeId, Then
<1> HIDE DEF created, fix, last, tail
<1> DEFINE rest == last \o tail
<1>9. rest \in Seq(CallRecords) /\ fix \o rest \in Seq(CallRecords)
  BY <1>2, <1>5, <1>7, ConcatProperties
<1>10. (created \o fix \o last) \o tail = created \o (fix \o rest)
  <2> DEFINE cf == created \o fix
  <2>1. cf \in Seq(CallRecords)
    BY <1>6, <1>7, ConcatProperties
  <2>2. (cf \o last) \o tail = cf \o rest
    <3> HIDE DEF cf
    <3> QED
      BY <1>2, <1>5, <2>1, ConcatAssociative, SMTT(20)
  <2>3. cf \o rest = created \o (fix \o rest)
    <3> HIDE DEF rest
    <3> QED
      BY <1>6, <1>7, <1>9, ConcatAssociative, SMTT(20)
  <2> QED
    BY <2>2, <2>3
<1> DEFINE behind == fix \o rest
<1>11. Rest(behind, triggered[t], n)
  <2> HIDE DEF rest
  <2> QED
    BY <1>1, <1>4, <1>7, <1>9, RestBehind DEF rest
<1>12. Rest(created \o behind, triggered[t], n)
  <2>1. behind \in Seq(CallRecords)
    BY <1>9
  <2> HIDE DEF behind
  <2> QED
    BY <1>1, <1>6, <1>11, <2>1, RestBehind
<1>13. Rest(todo'[t], triggered[t], n)
  BY <1>8, <1>10, <1>12
<1>14. SameButNode(t) /\ UNCHANGED <<cur, file>>
  BY <1>1, TraceInitSame DEF DoEventWithNodeId
<1>15. /\ Len(Trace(t)') = Len(Trace(t))
       /\ \A i \in 1 .. Len(Trace(t)) : Trace(t)'[i].ev = Trace(t)[i].ev
  BY <1>14, SameButNodeTrace
<1> QED
  BY <1>0, <1>2, <1>13, <1>15, KeptSame

LEMMA RecordKept ==
    ASSUME IInv, NEW t \in Tids, Kept(t), DoRecord(t)
    PROVE  Kept(t)'
<1> DEFINE c == Head(todo[t])
           i == Record("EV_INIT", c.ts, node)
           r == Record(c.ev, c.ts, c.nid)
           f == Record("FLUSH", c.ts, c.nid)
           a == triggered[t]
           s == Trace(t)
<1>0. PICK n \in Nat : Recorded(s, a, n) /\ Rest(todo[t], a, n)
  BY DEF Kept
<1>1. /\ todo[t] \in Seq(CallRecords) /\ todo \in [Tids -> Seq(CallRecords)]
      /\ a \in Seq(AppEvents) /\ TypeOK /\ s \in Seq(Records) /\ node \in Int
  BY TraceProperties, NodeNumbersAreInt DEF IInv, TypeOK, CallRecords
<1>2. todo[t] # <<>> /\ c \in CallRecords /\ triggered' = triggered /\ Then(t, <<>>)
  <2>1. triggered' = triggered /\ todo[t] # <<>> /\ Then(t, <<>>)
    BY DEF DoRecord, Doing
  <2> QED
    BY <1>1, <2>1, HeadTailProperties
<1>3. todo'[t] = Tail(todo[t])
  <2>1. todo'[t] = <<>> \o Tail(todo[t])
    BY <1>1, <1>2 DEF Then
  <2>2. Tail(todo[t]) \in Seq(CallRecords)
    BY <1>1, <1>2, HeadTailProperties
  <2> QED
    BY <2>1, <2>2, ConcatEmptySeq
<1>4. i \in Records /\ r \in Records /\ f \in Records
  <2>1. c.ts \in Nat /\ c.nid \in Int /\ c.ev \in AppEvents \cup Marks
    BY <1>2 DEF CallRecords
  <2> QED
    BY <1>1, <2>1, RecordType DEF Marks
<1>5. i.ev \in Marks /\ f.ev \in Marks /\ r.ev = c.ev
  BY DEF Record, Marks
<1> DEFINE first == IF ~init[t] /\ cur[t] = 0 THEN <<i>> ELSE <<>>
           one == <<r>>
           last == IF Full(cur[t] + Len(first \o one)) THEN <<f>> ELSE <<>>
<1>6. RecordsOf(t) = (first \o one) \o last
  BY DEF RecordsOf, NewRecords
<1>7. first = <<i>> \/ first = <<>>
  OBVIOUS
<1>8. last = <<f>> \/ last = <<>>
  OBVIOUS
<1>9. Trace(t)' = s \o ((first \o one) \o last)
  BY <1>6, RecordTrace
<1> HIDE DEF i, f, r, first, last, s, a, c
<1>10. first \in Seq(Records) /\ last \in Seq(Records) /\ one \in Seq(Records)
  <2>1. <<i>> \in Seq(Records) /\ <<f>> \in Seq(Records) /\ <<r>> \in Seq(Records)
    BY <1>4
  <2>2. <<>> \in Seq(Records)
    OBVIOUS
  <2> QED
    BY <1>7, <1>8, <2>1, <2>2
<1> DEFINE s1 == s \o first
           s2 == s1 \o one
           s3 == s2 \o last
<1>11. s1 \in Seq(Records) /\ Recorded(s1, a, n)
  <2>1. CASE first = <<i>>
    BY <1>0, <1>1, <1>4, <1>5, <2>1, RecordedMore
  <2>2. CASE first = <<>>
    <3>1. s1 = s
      BY <1>1, <2>2, ConcatEmptySeq
    <3> QED
      BY <1>0, <1>1, <3>1
  <2> QED
    BY <1>7, <2>1, <2>2
<1> HIDE DEF s1
<1>12. PICK m \in Nat : Recorded(s2, a, m) /\ Rest(Tail(todo[t]), a, m)
  <2>1. /\ c.ev \in Marks => Rest(Tail(todo[t]), a, n)
        /\ c.ev \notin Marks => c.ev = a[n + 1] /\ Rest(Tail(todo[t]), a, n + 1)
    BY <1>0, <1>1, <1>2, RestNext DEF c
  <2>2. /\ c.ev \in Marks => Recorded(s2, a, n)
        /\ c.ev \notin Marks /\ c.ev = a[n + 1] => Recorded(s2, a, n + 1)
    BY <1>4, <1>5, <1>11, RecordedMore
  <2>3. n + 1 \in Nat
    OBVIOUS
  <2> QED
    BY <2>1, <2>2, <2>3
<1>13. s2 \in Seq(Records)
  BY <1>10, <1>11, ConcatProperties
<1> HIDE DEF s2, one
<1>14. Recorded(s3, a, m)
  <2>1. CASE last = <<f>>
    BY <1>4, <1>5, <1>12, <1>13, <2>1, RecordedMore
  <2>2. CASE last = <<>>
    <3>1. s3 = s2
      BY <1>13, <2>2, ConcatEmptySeq
    <3> QED
      BY <1>12, <3>1
  <2> QED
    BY <1>8, <2>1, <2>2
<1>15. s \o ((first \o one) \o last) = s3
  <2> DEFINE fo == first \o one
  <2>1. fo \in Seq(Records)
    BY <1>10, ConcatProperties
  <2>2. s \in Seq(Records) /\ last \in Seq(Records)
    BY <1>1, <1>10
  <2>3. (s \o first) \o one = s \o (first \o one)
    BY <1>10, <2>2, ConcatAssociative, SMTT(20)
  <2>4. s \o fo = s2
    BY <2>3 DEF s2, s1
  <2> HIDE DEF fo
  <2>5. (s \o fo) \o last = s \o (fo \o last)
    BY <2>1, <2>2, ConcatAssociative, SMTT(20)
  <2> QED
    BY <2>4, <2>5 DEF fo
<1> HIDE DEF s3
<1> DEFINE new == Trace(t)'
<1>16. new = s3
  BY <1>9, <1>15
<1> HIDE DEF new
<1>17. Recorded(new, triggered'[t], m) /\ Rest(todo'[t], triggered'[t], m)
  BY <1>2, <1>3, <1>12, <1>14, <1>16 DEF a
<1> QED
  BY <1>17 DEF Kept, new

\* What a thread triggers is to be traced, and nothing else was.
LEMMA TriggerKept ==
    ASSUME IInv, NEW t \in Tids, Kept(t), NEW e \in Funcs \cup Users, Trigger(t, e)
    PROVE  Kept(t)'
<1> DEFINE q == Traced(e)
           es == [i \in 1 .. Len(q) |-> q[i].ev]
           a == triggered[t]
           b == a \o es
<1>0. PICK n \in Nat : Recorded(Trace(t), a, n) /\ Rest(todo[t], a, n)
  BY DEF Kept
<1>1. /\ triggered \in [Tids -> Seq(AppEvents)] /\ a \in Seq(AppEvents) /\ TypeOK
      /\ todo \in [Tids -> Seq(CallRecords)] /\ Trace(t) \in Seq(Records)
  BY TraceProperties DEF IInv, TypeOK, CallRecords
<1>2. /\ q \in Seq(CallRecords) /\ es \in Seq(AppEvents)
      /\ \A i \in 1 .. Len(q) : q[i] \in TraceEventCalls
  BY <1>1, TracedProperties
<1>3. /\ todo[t] = <<>> /\ todo'[t] = q /\ triggered'[t] = b
      /\ UNCHANGED <<buf, cur, file>>
  BY <1>1 DEF Trigger, Idle
<1>4. PICK k \in Nat, l \in Nat : k = Len(q) /\ l = Len(a)
  BY <1>1, <1>2, LenProperties
<1>5. Len(es) = k /\ \A i \in 1 .. k : es[i] = q[i].ev
  BY <1>4
<1>6. n = l
  BY <1>0, <1>3, <1>4 DEF Rest
<1> HIDE DEF q, es, a
<1>7. /\ b \in Seq(AppEvents) /\ Len(b) = l + k
      /\ \A i \in 1 .. l + k : b[i] = IF i <= l THEN a[i] ELSE es[i - l]
  <2>1. a \in Seq(AppEvents) /\ es \in Seq(AppEvents) /\ l = Len(a) /\ k = Len(es)
    BY <1>1, <1>2, <1>4, <1>5
  <2> QED
    BY <2>1, ConcatProperties
<1> HIDE DEF b
<1>8. Recorded(Trace(t), b, n)
  <2>1. Len(Trace(t)) \in Nat
    BY <1>1, LenProperties
  <2>2. \A i \in 1 .. n : b[i] = a[i]
    BY <1>6, <1>7
  <2> QED
    BY <1>0, <2>1, <2>2, RecordedLonger
<1>9. Rest(q, b, n)
  <2>1. ASSUME NEW i \in 0 + 1 .. k
        PROVE  q[i].do \in EventDos /\ q[i].ev \notin Marks /\ q[i].ev = b[n + i - 0]
    <3>1. i \in 1 .. k
      OBVIOUS
    <3>2. q[i].do \in EventDos /\ q[i].ev \notin Marks
      BY <1>2, <1>4, <3>1, TracerAssumption DEF TraceEventCalls, EventDos
    <3>3. b[n + i] = q[i].ev
      <4>1. n + i \in 1 .. l + k /\ ~(n + i <= l) /\ (n + i) - l = i
        BY <1>6, <3>1
      <4>2. b[n + i] = es[i]
        BY <1>7, <4>1
      <4> QED
        BY <1>5, <3>1, <4>2
    <3>4. n + i - 0 = n + i
      OBVIOUS
    <3> QED
      BY <3>2, <3>3, <3>4
  <2>2. /\ 0 \in 0 .. Len(q) /\ n + Len(q) = Len(b) + 0
        /\ \A i \in 1 .. 0 : q[i].ev \in Marks
    BY <1>4, <1>6, <1>7
  <2>3. \A i \in 0 + 1 .. Len(q) : /\ q[i].do \in EventDos /\ q[i].ev \notin Marks
                                    /\ q[i].ev = b[n + i - 0]
    BY <1>4, <2>1
  <2> QED
    BY <2>2, <2>3, Zenon DEF Rest
<1>10. Trace(t)' = Trace(t)
  BY <1>3, SameTrace
<1>11. Recorded(Trace(t), triggered'[t], n) /\ Rest(todo'[t], triggered'[t], n)
  BY <1>3, <1>8, <1>9
<1> QED
  BY <1>10, <1>11 DEF Kept

\* New calls that are marks, when all events have been traced.
LEMMA MarksKept ==
    ASSUME IInv, IInv', NEW t \in Tids, Kept(t), todo[t] = <<>>, NEW c \in Seq(CallRecords),
           todo'[t] = c, \A i \in 1 .. Len(c) : c[i].ev \in Marks, triggered' = triggered,
           SameButNode(t), UNCHANGED <<cur, file>>
    PROVE  Kept(t)'
<1>1. PICK n \in Nat : Recorded(Trace(t), triggered[t], n) /\ Rest(todo[t], triggered[t], n)
  BY DEF Kept
<1>2. triggered[t] \in Seq(AppEvents)
  BY DEF IInv, TypeOK
<1> DEFINE q == todo[t]
<1>3. q \in Seq(CallRecords) /\ Rest(q, triggered[t], n) /\ c \o q = c
  BY <1>1, ConcatEmptySeq
<1> HIDE DEF q
<1>4. Rest(c \o q, triggered[t], n)
  BY <1>2, <1>3, RestBehind
<1>5. Rest(todo'[t], triggered[t], n)
  BY <1>3, <1>4
<1>6. /\ Len(Trace(t)') = Len(Trace(t))
      /\ \A i \in 1 .. Len(Trace(t)) : Trace(t)'[i].ev = Trace(t)[i].ev
  BY SameButNodeTrace
<1> QED
  BY <1>1, <1>5, <1>6, KeptSame

LEMMA NextKept ==
    ASSUME IInv, IInv', \A t \in Tids : Kept(t), [Next]_vars
    PROVE  \A t \in Tids : Kept(t)'
<1> SUFFICES ASSUME NEW t \in Tids PROVE Kept(t)'
  OBVIOUS
<1>0. Kept(t) /\ TypeOK
  BY DEF IInv
<1>1. ASSUME UNCHANGED <<buf[t], cur[t], file[t], todo[t], triggered[t]>> PROVE Kept(t)'
  <2>1. Trace(t)' = Trace(t)
    BY <1>1, SameTrace
  <2> QED
    BY <1>0, <1>1, <2>1 DEF Kept
<1>2. ASSUME NEW r \in Tids, r # t,
             \/ \E e \in Funcs \cup Users : Register(r, e) \/ Trigger(r, e)
             \/ CallStep(r) \/ FlushStep(r) \/ Close(r)
      PROVE  Kept(t)'
  BY <1>1, <1>2, OtherThreads, OtherTraces
<1>3. ASSUME NEW e \in Funcs \cup Users, Register(t, e) PROVE Kept(t)'
  BY <1>1, <1>3 DEF Register
<1>4. ASSUME NEW e \in Funcs \cup Users, Trigger(t, e) PROVE Kept(t)'
  BY <1>0, <1>4, TriggerKept
<1>5. ASSUME Close(t) PROVE Kept(t)'
  <2> DEFINE c == TraceEvent("CLOSE", 0)
             w == TraceEvent("WALL_CLOCK", 0)
             d == Call("DumpEDF", "CLOSE", 0, -1)
             f == Call("Flush", "CLOSE", 0, -1)
             cs == <<c, w, d, f>>
  <2>1. /\ c \in CallRecords /\ w \in CallRecords /\ d \in CallRecords /\ f \in CallRecords
        /\ c.ev \in Marks /\ w.ev \in Marks /\ d.ev \in Marks /\ f.ev \in Marks
    BY DEF TraceEvent, Call, Calls, Marks, CallRecords
  <2>2. /\ UNCHANGED <<buf, cur, file, triggered>> /\ todo[t] = <<>>
        /\ todo'[t] = cs
    BY <1>0, <1>5 DEF Close, Idle, TypeOK
  <2> HIDE DEF c, w, d, f
  <2>3. cs \in Seq(CallRecords) /\ \A i \in 1 .. Len(cs) : cs[i].ev \in Marks
    BY <2>1
  <2>4. SameButNode(t)
    BY <2>2 DEF SameButNode
  <2> HIDE DEF cs
  <2> QED
    BY <1>0, <2>2, <2>3, <2>4, MarksKept
<1>6. ASSUME CallStep(t) \/ FlushStep(t) PROVE Kept(t)'
  BY <1>0, <1>6, CallKept, EventKept, RecordKept, FlushKept DEF CallStep
<1>7. ASSUME NEW n \in Nodes, SetNode(n) PROVE Kept(t)'
  <2>0. n \in Int
    BY TracerAssumption
  <2>1. CASE t = 0
    <3>1. /\ TraceInit(0, n) /\ UNCHANGED <<cur, file, triggered>> /\ todo[0] = <<>>
          /\ todo'[0] = Created(0, n) /\ 0 \in Tids
      BY <1>0, <1>7, <2>1 DEF SetNode, Idle, TypeOK
    <3>2. SameButNode(0)
      BY <2>0, <3>1, TraceInitSame
    <3>3. /\ Created(0, n) \in Seq(CallRecords)
          /\ \A i \in 1 .. Len(Created(0, n)) : Created(0, n)[i].ev \in Marks
      BY <1>0, <2>0, <3>1, CreatedProperties, CreatedMarks
    <3> QED
      BY <1>0, <2>1, <3>1, <3>2, <3>3, MarksKept
  <2>2. CASE t # 0
    <3>1. UNCHANGED <<buf[t], cur[t], file[t], todo[t], triggered[t]>>
      BY <1>7, <2>2 DEF SetNode, TraceInit, IInv, TypeOK
    <3> QED
      BY <1>1, <3>1
  <2> QED
    BY <2>1, <2>2
<1>8. CASE Tick \/ Finished \/ UNCHANGED vars
  <2>1. UNCHANGED <<buf, cur, file, todo, triggered>>
    BY <1>8, Zenon DEF Tick, Finished, vars
  <2> QED
    BY <1>1, <2>1
<1> QED
  BY <1>2, <1>3, <1>4, <1>5, <1>6, <1>7, <1>8 DEF Next

LEMMA InitKept ==
    ASSUME Init, IInv
    PROVE  \A t \in Tids : Kept(t)
<1> SUFFICES ASSUME NEW t \in Tids PROVE Kept(t)
  OBVIOUS
<1>1. file[t] = <<>> /\ cur[t] = 0 /\ todo[t] = <<>> /\ triggered[t] = <<>>
  BY DEF Init
<1>2. Len(Trace(t)) = 0
  BY <1>1, TraceProperties
<1>3. Recorded(Trace(t), triggered[t], 0)
  BY <1>2, NthNone DEF Recorded
<1>4. Rest(todo[t], triggered[t], 0)
  BY <1>1 DEF Rest
<1> QED
  BY <1>3, <1>4 DEF Kept

\* Whatever the threads do, and wherever their flushes fall, what a thread has
\* triggered is in its trace, once and in order, when its calls have returned.
THEOREM EventsAreKept == Spec => []NothingLost
<1> DEFINE Inv == IInv /\ (\A t \in Tids : Kept(t))
<1>1. Init => Inv
  BY InitIInv, InitKept
<1>2. Inv /\ [Next]_vars => Inv'
  <2> SUFFICES ASSUME Inv, [Next]_vars PROVE Inv'
    OBVIOUS
  <2>1. IInv'
    BY NextIInv
  <2>2. \A t \in Tids : Kept(t)'
    BY <2>1, NextKept
  <2> QED
    BY <2>1, <2>2
<1>3. Inv => NothingLost
  <2> SUFFICES ASSUME Inv, NEW t \in Tids, Idle(t)
               PROVE  /\ Nth(Trace(t), Len(Trace(t))) = Len(triggered[t])
                      /\ \A i \in 1 .. Len(Trace(t)) : Trace(t)[i].ev \notin Marks =>
                            Trace(t)[i].ev = triggered[t][Nth(Trace(t), i)]
    BY DEF NothingLost
  <2>1. PICK n \in Nat : Recorded(Trace(t), triggered[t], n) /\ Rest(todo[t], triggered[t], n)
    BY DEF Kept
  <2>2. triggered[t] \in Seq(AppEvents) /\ todo[t] = <<>>
    BY DEF IInv, TypeOK, Idle
  <2>3. n = Len(triggered[t])
    <3>1. PICK l \in Nat : l = Len(triggered[t])
      BY <2>2, LenProperties
    <3> QED
      BY <2>1, <2>2, <3>1 DEF Rest
  <2> QED
    BY <2>1, <2>3 DEF Recorded
<1> QED
  BY <1>1, <1>2, <1>3, PTL DEF Spec

-----------------------------------------------------------------------------
(* Timestamps.                                                             *)

\* One thread, and no counter that is traced with the time of its timer.
OneClock == NumThreads = 1 /\ Counters = <<>>

\* The records of s are in time order, and none is later than c.
Sorted(s) == \A i, j \in 1 .. Len(s) : i < j => s[i].ts <= s[j].ts

UpTo(s, c) == \A i \in 1 .. Len(s) : s[i].ts <= c

\* Calls that let the tracer read the clock.
ZeroCalls == {c \in CallRecords : c.ts = 0 /\ c.do # "Fix"}

\* Calls that have not been through TauTraceInit.
FreshCalls == {c \in CallRecords : c.do \in {"TraceEvent", "EventWithNodeId"}}

\* One event is to be recorded, later than all that are in the trace s.
Timed(q, s) == \E c \in CallRecords : /\ q = <<c>> /\ c.do \in EventDos
                                      /\ c.ts \in 1 .. clock /\ UpTo(s, c.ts)

\* The first event is to be recorded, behind the records of TauTraceInit, of
\* which k have been written.
Starting(q, k) ==
    \E i, w, c \in CallRecords :
       /\ i.do = "Record" /\ w.do = "Record" /\ c.do = "Record"
       /\ i.ts = 0 /\ w.ts = 0 /\ c.ts \in 1 .. clock
       /\ \/ k = 0 /\ q = <<i, w, Fix(2, c.ts), c>>
          \/ k = 1 /\ q = <<w, Fix(2, c.ts), c>>
          \/ k = 2 /\ q = <<Fix(2, c.ts), c>>

\* What is in the trace of thread 0 is in order, and the calls it has left do
\* not disturb that.
Times ==
    /\ Sorted(Trace(0)) /\ UpTo(Trace(0), clock)
    /\ node # -1 /\ ~init[0] => /\ Len(Trace(0)) = 0 /\ flush[0].stage = "no"
                                /\ todo[0] \in Seq(FreshCalls)
    /\ \/ todo[0] \in Seq(ZeroCalls)
       \/ flush[0].stage = "no" /\ Timed(todo[0], Trace(0))
       \/ /\ flush[0].stage = "no" /\ init[0] /\ Len(file[0]) = 0
          /\ Starting(todo[0], cur[0])

\* The records keep their times.
LEMMA SortedSame ==
    ASSUME NEW s, NEW r, NEW c, Sorted(s), UpTo(s, c), Len(r) = Len(s),
           \A i \in 1 .. Len(s) : r[i].ts = s[i].ts
    PROVE  Sorted(r) /\ UpTo(r, c)
BY DEF Sorted, UpTo

\* The records get one time.
LEMMA SortedEqual ==
    ASSUME NEW s, NEW x \in Nat, \A i \in 1 .. Len(s) : s[i].ts = x
    PROVE  Sorted(s) /\ UpTo(s, x)
BY DEF Sorted, UpTo

\* A later limit.
LEMMA UpToLater ==
    ASSUME NEW s \in Seq(Records), NEW c \in Nat, NEW d \in Nat, UpTo(s, c), c <= d
    PROVE  UpTo(s, d)
<1> SUFFICES ASSUME NEW i \in 1 .. Len(s) PROVE s[i].ts <= d
  BY DEF UpTo
<1>1. s[i] \in Records /\ s[i].ts <= c
  BY ElementOfSeq DEF UpTo
<1>2. s[i].ts \in Nat
  BY <1>1 DEF Records
<1> QED
  BY <1>1, <1>2

\* Records at time x.
AllAtTime(s, x) == \A i \in 1 .. Len(s) : s[i].ts = x

LEMMA OneAtTime ==
    ASSUME NEW r \in Records, NEW x, r.ts = x
    PROVE  /\ <<r>> \in Seq(Records) /\ AllAtTime(<<r>>, x)
           /\ <<>> \in Seq(Records) /\ AllAtTime(<<>>, x)
<1> DEFINE one == <<r>>
<1>1. one \in Seq(Records) /\ Len(one) = 1 /\ one[1] = r
  OBVIOUS
<1> HIDE DEF one
<1>2. AllAtTime(one, x)
  BY <1>1 DEF AllAtTime
<1>3. <<>> \in Seq(Records) /\ AllAtTime(<<>>, x)
  BY DEF AllAtTime
<1> QED
  BY <1>1, <1>2, <1>3 DEF one

LEMMA AtTimeConcat ==
    ASSUME NEW a \in Seq(Records), NEW b \in Seq(Records), NEW x, AllAtTime(a, x), AllAtTime(b, x)
    PROVE  a \o b \in Seq(Records) /\ AllAtTime(a \o b, x)
<1> DEFINE ab == a \o b
<1>1. PICK k \in Nat, l \in Nat : k = Len(a) /\ l = Len(b)
  BY LenProperties
<1>2. /\ ab \in Seq(Records) /\ Len(ab) = k + l
      /\ \A i \in 1 .. k + l : ab[i] = IF i <= k THEN a[i] ELSE b[i - k]
  BY <1>1, ConcatProperties
<1> HIDE DEF ab
<1>3. ASSUME NEW i \in 1 .. k + l PROVE ab[i].ts = x
  <2>1. CASE i <= k
    BY <1>1, <1>2, <2>1 DEF AllAtTime
  <2>2. CASE ~(i <= k)
    <3>1. i - k \in 1 .. l /\ ab[i] = b[i - k]
      BY <1>2, <2>2
    <3> QED
      BY <1>1, <3>1 DEF AllAtTime
  <2> QED
    BY <2>1, <2>2
<1>4. ab \in Seq(Records) /\ AllAtTime(ab, x)
  BY <1>2, <1>3 DEF AllAtTime
<1> QED
  BY <1>4 DEF ab

\* More records that are not earlier.
LEMMA SortedMore ==
    ASSUME NEW s \in Seq(Records), NEW rs \in Seq(Records), NEW c \in Nat,
           Sorted(s), UpTo(s, c), AllAtTime(rs, c)
    PROVE  Sorted(s \o rs) /\ UpTo(s \o rs, c)
<1> DEFINE x == s \o rs
<1>1. PICK k \in Nat, l \in Nat : k = Len(s) /\ l = Len(rs)
  BY LenProperties
<1>2. /\ x \in Seq(Records) /\ Len(x) = k + l
      /\ \A i \in 1 .. k + l : x[i] = IF i <= k THEN s[i] ELSE rs[i - k]
  BY <1>1, ConcatProperties
<1> HIDE DEF x
<1>3. \A i \in 1 .. k : x[i] = s[i]
  BY <1>2
<1>4. ASSUME NEW i \in 1 .. k + l, ~(i <= k) PROVE x[i].ts = c
  <2>1. i - k \in 1 .. l /\ x[i] = rs[i - k]
    BY <1>2, <1>4
  <2> QED
    BY <1>1, <2>1 DEF AllAtTime
<1>5. ASSUME NEW i \in 1 .. k + l PROVE x[i].ts <= c
  <2>1. CASE i \in 1 .. k
    BY <1>1, <1>3, <2>1 DEF UpTo
  <2>2. CASE ~(i <= k)
    BY <1>4, <2>2
  <2> QED
    BY <2>1, <2>2
<1>6. ASSUME NEW i \in 1 .. k + l, NEW j \in 1 .. k + l, i < j PROVE x[i].ts <= x[j].ts
  <2>1. CASE j \in 1 .. k
    BY <1>1, <1>3, <1>6, <2>1 DEF Sorted
  <2>2. CASE ~(j <= k)
    BY <1>4, <1>5, <2>2
  <2> QED
    BY <2>1, <2>2
<1>7. Sorted(x) /\ UpTo(x, c)
  BY <1>2, <1>5, <1>6 DEF Sorted, UpTo
<1> QED
  BY <1>7 DEF x

\* The records that TauTraceEventWithNodeId writes for one event have its time.
LEMMA RecordTimes ==
    ASSUME IInv, NEW t \in Tids, DoRecord(t), Sorted(Trace(t)), NEW x \in Nat,
           x = (IF Head(todo[t]).ts = 0 THEN clock ELSE Head(todo[t]).ts), UpTo(Trace(t), x)
    PROVE  Trace(t)' \in Seq(Records) /\ Sorted(Trace(t)') /\ UpTo(Trace(t)', x)
<1> DEFINE c == Head(todo[t])
           i == Record("EV_INIT", c.ts, node)
           r == Record(c.ev, c.ts, c.nid)
           f == Record("FLUSH", c.ts, c.nid)
<1>1. TypeOK /\ c \in CallRecords /\ Trace(t) \in Seq(Records) /\ node \in Int
  BY DoingProperties, TraceProperties, NodeNumbersAreInt DEF IInv, DoRecord, TypeOK
<1>2. i \in Records /\ r \in Records /\ f \in Records
  <2>1. c.ts \in Nat /\ c.nid \in Int /\ c.ev \in AppEvents \cup Marks
    BY <1>1 DEF CallRecords
  <2> QED
    BY <1>1, <2>1, RecordType DEF Marks
<1>3. i.ts = x /\ r.ts = x /\ f.ts = x
  BY DEF Record
<1> DEFINE first == IF ~init[t] /\ cur[t] = 0 THEN <<i>> ELSE <<>>
           one == <<r>>
           new == first \o one
           last == IF Full(cur[t] + Len(new)) THEN <<f>> ELSE <<>>
           rs == new \o last
<1>4. RecordsOf(t) = rs
  BY DEF RecordsOf, NewRecords
<1>5. first = <<i>> \/ first = <<>>
  OBVIOUS
<1>6. last = <<f>> \/ last = <<>>
  OBVIOUS
<1> HIDE DEF i, f, r, first, last, c
<1>7. first \in Seq(Records) /\ AllAtTime(first, x)
  <2>1. CASE first = <<i>>
    BY <1>2, <1>3, <2>1, OneAtTime
  <2>2. CASE first = <<>>
    BY <1>2, <1>3, <2>2, OneAtTime
  <2> QED
    BY <1>5, <2>1, <2>2
<1>8. last \in Seq(Records) /\ AllAtTime(last, x)
  <2>1. CASE last = <<f>>
    BY <1>2, <1>3, <2>1, OneAtTime
  <2>2. CASE last = <<>>
    BY <1>2, <1>3, <2>2, OneAtTime
  <2> QED
    BY <1>6, <2>1, <2>2
<1>9. one \in Seq(Records) /\ AllAtTime(one, x)
  BY <1>2, <1>3, OneAtTime
<1> HIDE DEF one
<1>10. new \in Seq(Records) /\ AllAtTime(new, x)
  BY <1>7, <1>9, AtTimeConcat
<1> HIDE DEF new
<1>11. rs \in Seq(Records) /\ AllAtTime(rs, x)
  BY <1>8, <1>10, AtTimeConcat
<1> HIDE DEF rs
<1>12. Sorted(Trace(t) \o rs) /\ UpTo(Trace(t) \o rs, x) /\ Trace(t) \o rs \in Seq(Records)
  BY <1>1, <1>11, SortedMore, ConcatProperties
<1> DEFINE longer == Trace(t)'
           both == Trace(t) \o rs
<1>13. longer = both
  BY <1>4, RecordTrace
<1>14. Sorted(both) /\ UpTo(both, x) /\ both \in Seq(Records)
  BY <1>12
<1> HIDE DEF longer, both
<1>15. Sorted(longer) /\ UpTo(longer, x) /\ longer \in Seq(Records)
  BY <1>13, <1>14
<1> QED
  BY <1>15 DEF longer

\* The clock goes on.
LEMMA TimesStay ==
    ASSUME IInv, 0 \in Tids, Times, UNCHANGED <<node, init, buf, cur, file, todo, flush>>,
           clock' \in Nat, clock <= clock'
    PROVE  Times'
<1>1. /\ clock \in Nat /\ clock' \in Nat /\ Trace(0) \in Seq(Records)
      /\ CallRecords' = CallRecords /\ FreshCalls' = FreshCalls /\ ZeroCalls' = ZeroCalls
  BY TraceProperties DEF IInv, TypeOK, CallRecords, FreshCalls, ZeroCalls
<1>2. Trace(0)' = Trace(0)
  BY SameTrace
<1>3. UpTo(Trace(0), clock')
  BY <1>1, UpToLater DEF Times
<1>4. \A x : x \in 1 .. clock => x \in 1 .. clock'
  BY <1>1
<1>5. Timed(todo[0], Trace(0)) => Timed(todo[0], Trace(0))'
  BY <1>2, <1>4, <1>1 DEF Timed
<1>6. Starting(todo[0], cur[0]) => Starting(todo[0], cur[0])'
  <2>1. \A a, b : Fix(a, b)' = Fix(a, b)
    BY DEF Fix, Call
  <2> QED
    BY <1>4, <2>1 DEF Starting
<1> QED
  BY <1>1, <1>2, <1>3, <1>5, <1>6 DEF Times

\* TauTraceInit lets the tracer read the clock.
LEMMA CreatedZero ==
    ASSUME NEW t \in Tids, NEW n \in Int
    PROVE  Created(t, n) \in Seq(ZeroCalls)
<1> DEFINE a == Call("Record", "EV_INIT", 0, n)
           b == Call("Record", "WALL_CLOCK", 0, n)
<1>1. a \in CallRecords /\ b \in CallRecords
  BY CallType DEF Calls, Marks
<1>2. a.ts = 0 /\ b.ts = 0 /\ a.do # "Fix" /\ b.do # "Fix"
  BY DEF Call
<1>3. a \in ZeroCalls /\ b \in ZeroCalls
  BY <1>1, <1>2 DEF ZeroCalls
<1> HIDE DEF ZeroCalls
<1> QED
  BY <1>3 DEF Created

\* The list of calls after one has returned.
LEMMA ThenZero ==
    ASSUME IInv, NEW t \in Tids, todo[t] \in Seq(ZeroCalls), todo[t] # <<>>,
           NEW cs \in Seq(ZeroCalls), Then(t, cs)
    PROVE  todo'[t] \in Seq(ZeroCalls)
<1>1. todo \in [Tids -> Seq(CallRecords)]
  BY DEF IInv, TypeOK, CallRecords
<1>2. Tail(todo[t]) \in Seq(ZeroCalls)
  BY HeadTailProperties
<1>3. cs \o Tail(todo[t]) \in Seq(ZeroCalls)
  BY <1>2, ConcatProperties
<1> QED
  BY <1>1, <1>3 DEF Then

LEMMA ThenNothingZero ==
    ASSUME IInv, NEW t \in Tids, todo[t] \in Seq(ZeroCalls), todo[t] # <<>>, Then(t, <<>>)
    PROVE  todo'[t] \in Seq(ZeroCalls)
<1> DEFINE cs == <<>>
<1>1. cs \in Seq(ZeroCalls) /\ Then(t, cs)
  OBVIOUS
<1> HIDE DEF cs
<1> QED
  BY <1>1, ThenZero

\* Among calls that are not in such a list, no other call than these is first.
LEMMA FirstCalls ==
    ASSUME IInv, 0 \in Tids, Times, todo[0] # <<>>
    PROVE  /\ todo[0] \in Seq(ZeroCalls) => Head(todo[0]) \in ZeroCalls
           /\ Timed(todo[0], Trace(0)) =>
                 /\ todo[0] = <<Head(todo[0])>> /\ Head(todo[0]) \in CallRecords
                 /\ Head(todo[0]).do \in EventDos
                 /\ Head(todo[0]).ts \in 1 .. clock /\ UpTo(Trace(0), Head(todo[0]).ts)
           /\ Starting(todo[0], cur[0]) => Head(todo[0]).do \in {"Record", "Fix"}
<1>1. todo[0] \in Seq(ZeroCalls) => Head(todo[0]) \in ZeroCalls
  BY HeadTailProperties
<1>2. \A c \in CallRecords : Head(<<c>>) = c
  OBVIOUS
<1>3. \A a, b : Fix(a, b).do = "Fix"
  BY DEF Fix, Call
<1>4. Starting(todo[0], cur[0]) => Head(todo[0]).do \in {"Record", "Fix"}
  BY <1>3 DEF Starting
<1> QED
  BY <1>1, <1>2, <1>4 DEF Timed

\* Calls that read the clock, in a trace whose records keep their times.
LEMMA TimesZero ==
    ASSUME IInv, IInv', 0 \in Tids, Times, UNCHANGED clock,
           Len(Trace(0)') = Len(Trace(0)),
           \A i \in 1 .. Len(Trace(0)) : Trace(0)'[i].ts = Trace(0)[i].ts,
           node' # -1 /\ ~init'[0] => /\ Len(Trace(0)) = 0 /\ flush'[0].stage = "no"
                                      /\ todo'[0] \in Seq(FreshCalls),
           todo'[0] \in Seq(ZeroCalls)
    PROVE  Times'
<1> DEFINE new == Trace(0)'
<1>1. Sorted(Trace(0)) /\ UpTo(Trace(0), clock)
  BY DEF Times
<1>2. Len(new) = Len(Trace(0)) /\ \A i \in 1 .. Len(Trace(0)) : new[i].ts = Trace(0)[i].ts
  OBVIOUS
<1>3. ZeroCalls' = ZeroCalls /\ FreshCalls' = FreshCalls
  BY DEF ZeroCalls, FreshCalls
<1> HIDE DEF new
<1>4. Sorted(new) /\ UpTo(new, clock)
  BY <1>1, <1>2, SortedSame
<1>5. Sorted(new) /\ UpTo(new, clock') /\ Len(new) = Len(Trace(0))
  BY <1>2, <1>4
<1> QED
  BY <1>3, <1>5 DEF Times, new

\* A list of calls that are all of one kind.
LEMMA SeqOfKind ==
    ASSUME NEW S, NEW T, NEW q \in Seq(S), \A i \in 1 .. Len(q) : q[i] \in T
    PROVE  q \in Seq(T)
<1>1. PICK n \in Nat : n = Len(q)
  BY LenProperties
<1>2. q \in [1 .. n -> T]
  BY <1>1, LenProperties
<1>3. \A r \in [1 .. n -> T] : r \in Seq(T)
  OBVIOUS
<1> QED
  BY <1>2, <1>3

LEMMA TriggerTimes ==
    ASSUME IInv, IInv', OneClock, 0 \in Tids, Times, NEW e \in Funcs \cup Users, Trigger(0, e)
    PROVE  Times'
<1>0. /\ TypeOK /\ todo \in [Tids -> Seq(CallRecords)] /\ clock \in Nat \ {0}
      /\ Sorted(Trace(0)) /\ UpTo(Trace(0), clock)
  BY DEF IInv, TypeOK, CallRecords, Times
<1>1. /\ UNCHANGED <<node, init, buf, cur, file, flush, clock>> /\ todo'[0] = Traced(e)
      /\ flush[0].stage = "no" /\ todo[0] = <<>>
  BY <1>0 DEF Trigger, Idle
<1>2. Trace(0)' = Trace(0)
  BY <1>1, SameTrace
<1>3. /\ Traced(e) \in Seq(CallRecords)
      /\ \A i \in 1 .. Len(Traced(e)) : Traced(e)[i] \in TraceEventCalls
  BY <1>0, TracedProperties
<1>4. Traced(e) \in Seq(FreshCalls)
  <2> DEFINE q == Traced(e)
  <2>1. q \in Seq(CallRecords) /\ \A i \in 1 .. Len(q) : q[i] \in FreshCalls
    BY <1>3 DEF TraceEventCalls, FreshCalls
  <2> HIDE DEF q
  <2>2. q \in Seq(FreshCalls)
    BY <2>1, SeqOfKind
  <2> QED
    BY <2>2 DEF q
<1>5. CASE e \in Users
  <2> DEFINE c == TraceEvent(e, 0)
  <2>1. Traced(e) = <<c, c, c>>
    BY <1>5 DEF Traced
  <2>2. c \in CallRecords
    <3>1. "TraceEvent" \in Calls /\ e \in AppEvents \cup Marks
      BY DEF Calls, AppEvents
    <3>2. 0 \in Nat /\ -1 \in Int
      OBVIOUS
    <3> QED
      BY <3>1, <3>2, CallType DEF TraceEvent
  <2>3. c.ts = 0 /\ c.do = "TraceEvent"
    BY DEF TraceEvent, Call
  <2>4. c \in ZeroCalls
    BY <2>2, <2>3 DEF ZeroCalls
  <2> HIDE DEF c
  <2>5. Traced(e) \in Seq(ZeroCalls)
    BY <2>1, <2>4
  <2> QED
    BY <1>0, <1>1, <1>2, <1>4, <2>5, TimesZero DEF Times
<1>6. CASE e \notin Users
  <2> DEFINE c == TraceEvent(e, clock)
  <2>1. Traced(e) = <<c>>
    <3>1. Len(Counters) = 0
      BY DEF OneClock
    <3> DEFINE cs == [i \in 1 .. Len(Counters) |-> TraceEvent(Counters[i], clock)]
    <3>2. cs = <<>>
      BY <3>1
    <3>3. Traced(e) = <<c>> \o cs
      BY <1>6 DEF Traced
    <3> HIDE DEF cs, c
    <3>4. <<c>> \in Seq({c})
      OBVIOUS
    <3> QED
      BY <3>2, <3>3, <3>4, ConcatEmptySeq
  <2>2. c \in CallRecords
    <3>1. "TraceEvent" \in Calls /\ e \in AppEvents \cup Marks
      BY DEF Calls, AppEvents
    <3>2. clock \in Nat /\ -1 \in Int
      BY <1>0
    <3> QED
      BY <3>1, <3>2, CallType DEF TraceEvent
  <2>3. c.ts = clock /\ c.do \in EventDos
    BY DEF TraceEvent, Call, EventDos
  <2>4. Timed(todo'[0], Trace(0))
    <3> HIDE DEF c
    <3> QED
      BY <1>0, <1>1, <2>1, <2>2, <2>3 DEF Timed
  <2>5. Timed(todo[0], Trace(0))'
    BY <1>1, <1>2, <2>4 DEF Timed
  <2>6. FreshCalls' = FreshCalls
    BY DEF FreshCalls
  <2> QED
    BY <1>0, <1>1, <1>2, <1>4, <2>5, <2>6 DEF Times
<1> QED
  BY <1>5, <1>6

LEMMA SetNodeTimes ==
    ASSUME IInv, IInv', StartOf(0), 0 \in Tids, Times, NEW n \in Nodes, SetNode(n)
    PROVE  Times'
<1>0. TypeOK /\ n \in Int /\ n # -1 /\ todo \in [Tids -> Seq(CallRecords)]
  <2>1. n \in Nat
    BY TracerAssumption
  <2>2. TypeOK /\ todo \in [Tids -> Seq(CallRecords)]
    BY DEF IInv, TypeOK, CallRecords
  <2> QED
    BY <2>1, <2>2
<1>1. /\ TraceInit(0, n) /\ UNCHANGED <<cur, file, flush, clock>>
      /\ todo'[0] = Created(0, n)
  BY <1>0 DEF SetNode
<1>2. init'[0]
  BY <1>0, <1>1 DEF TraceInit, TypeOK
<1>3. /\ Len(Trace(0)') = Len(Trace(0))
      /\ \A i \in 1 .. Len(Trace(0)) : Trace(0)'[i].ts = Trace(0)[i].ts
  BY <1>0, <1>1, TraceInitSame, SameButNodeTrace
<1>4. todo'[0] \in Seq(ZeroCalls)
  BY <1>0, <1>1, CreatedZero
<1> QED
  BY <1>1, <1>2, <1>3, <1>4, TimesZero

\* A step of a flush.
LEMMA FlushTimes ==
    ASSUME IInv, IInv', 0 \in Tids, Times, FlushStep(0)
    PROVE  Times'
<1>0. /\ TypeOK /\ Sorted(Trace(0)) /\ UpTo(Trace(0), clock) /\ clock \in Nat /\ clock # 0
      /\ Trace(0) \in Seq(Records)
  BY TraceProperties DEF IInv, TypeOK, Times
<1>1. /\ UNCHANGED <<node, init, todo, clock>> /\ flush[0].stage # "no"
      /\ ZeroCalls' = ZeroCalls
  BY DEF FlushStep, FlushBegin, FlushDump, FlushClear, FlushWrite, FlushMark, ZeroCalls
<1>2. todo[0] \in Seq(ZeroCalls) /\ ~(node # -1 /\ ~init[0])
  BY <1>1 DEF Times
<1>3. CASE FlushBegin(0)
  <2>1. SameButNode(0) /\ UNCHANGED <<cur, file>>
    BY <1>3, RenamedSame DEF FlushBegin
  <2>2. /\ Len(Trace(0)') = Len(Trace(0))
        /\ \A i \in 1 .. Len(Trace(0)) : Trace(0)'[i].ts = Trace(0)[i].ts
    BY <2>1, SameButNodeTrace
  <2> QED
    BY <1>1, <1>2, <2>2, TimesZero
<1>4. CASE FlushDump(0) \/ FlushClear(0) \/ FlushWrite(0)
  <2>1. Trace(0)' = Trace(0)
    BY <1>4, WriteTrace, SameTrace DEF FlushDump, FlushClear
  <2> QED
    BY <1>1, <1>2, <2>1, TimesZero
<1>5. CASE FlushMark(0)
  <2> DEFINE r == Record("FLUSH", 0, flush[0].nid)
             new == Trace(0)'
  <2>1. r \in Records /\ new = Trace(0) \o <<r>> /\ r.ts = clock
    BY <1>5, MarkTrace DEF Record
  <2> HIDE DEF r, new
  <2>2. UpTo(Trace(0), r.ts)
    BY <1>0, <2>1
  <2> DEFINE one == <<r>>
  <2>3. Sorted(Trace(0) \o <<r>>) /\ UpTo(Trace(0) \o <<r>>, r.ts)
    <3>1. one \in Seq(Records) /\ AllAtTime(one, r.ts) /\ r.ts \in Nat
      BY <1>0, <2>1 DEF AllAtTime
    <3> HIDE DEF one
    <3>2. Sorted(Trace(0) \o one) /\ UpTo(Trace(0) \o one, r.ts)
      BY <1>0, <2>2, <3>1, SortedMore
    <3> QED
      BY <3>2 DEF one
  <2>4. Sorted(new) /\ UpTo(new, clock')
    BY <1>1, <2>1, <2>3
  <2> QED
    BY <1>1, <1>2, <2>4 DEF Times, new
<1> QED
  BY <1>3, <1>4, <1>5 DEF FlushStep

\* Short lists of calls.
LEMMA ShortLists ==
    ASSUME NEW S, NEW a \in S, NEW b \in S, NEW c \in S, NEW d \in S
    PROVE  /\ Head(<<a>>) = a /\ Tail(<<a>>) = <<>>
           /\ Head(<<c, d>>) = c /\ Tail(<<c, d>>) = <<d>>
           /\ Head(<<b, c, d>>) = b /\ Tail(<<b, c, d>>) = <<c, d>>
           /\ Head(<<a, b, c, d>>) = a /\ Tail(<<a, b, c, d>>) = <<b, c, d>>
OBVIOUS

\* The calls of an event whose trace has been started meanwhile.
LEMMA ListParts ==
    ASSUME NEW S, NEW a \in S, NEW b \in S, NEW c \in S, NEW d \in S
    PROVE  /\ ((<<a, b>> \o <<c>>) \o <<d>>) \o <<>> = <<a, b, c, d>>
           /\ ((<<>> \o <<>>) \o <<d>>) \o <<>> = <<d>>
           /\ <<>> \o <<c, d>> = <<c, d>> /\ <<d>> \o <<>> = <<d>> /\ <<>> \o <<d>> = <<d>>
<1> DEFINE ab == <<a, b>>
           C == <<c>>
           D == <<d>>
           E == <<>>
<1>1. /\ ab \in Seq(S) /\ Len(ab) = 2 /\ ab[1] = a /\ ab[2] = b
      /\ C \in Seq(S) /\ Len(C) = 1 /\ C[1] = c
      /\ D \in Seq(S) /\ Len(D) = 1 /\ D[1] = d /\ E \in Seq(S)
      /\ <<c, d>> \in Seq(S)
  OBVIOUS
<1>2. <<>> \o <<c, d>> = <<c, d>> /\ D \o E = D /\ E \o D = D /\ E \o E = E
  BY <1>1, ConcatEmptySeq
<1>3. (ab \o C) \o D = <<a, b, c, d>>
  <2> HIDE DEF ab, C, D
  <2> DEFINE x == ab \o C
  <2>1. /\ x \in Seq(S) /\ Len(x) = 3
        /\ \A i \in 1 .. 3 : x[i] = IF i <= 2 THEN ab[i] ELSE C[i - 2]
    <3>1. PICK k \in Nat, l \in Nat : k = Len(ab) /\ l = Len(C) /\ k = 2 /\ l = 1
      BY <1>1
    <3>0. ab \in Seq(S) /\ C \in Seq(S) /\ k = Len(ab) /\ l = Len(C)
      BY <1>1, <3>1
    <3>2. /\ x \in Seq(S) /\ Len(x) = k + l
          /\ \A i \in 1 .. k + l : x[i] = IF i <= k THEN ab[i] ELSE C[i - k]
      BY <3>0, ConcatProperties
    <3> HIDE DEF x
    <3> QED
      BY <3>1, <3>2
  <2> HIDE DEF x
  <2>2. x[1] = a /\ x[2] = b /\ x[3] = c
    BY <1>1, <2>1
  <2> DEFINE y == x \o D
  <2>3. /\ y \in Seq(S) /\ Len(y) = 4
        /\ \A i \in 1 .. 4 : y[i] = IF i <= 3 THEN x[i] ELSE D[i - 3]
    <3>1. PICK k \in Nat, l \in Nat : k = Len(x) /\ l = Len(D) /\ k = 3 /\ l = 1
      BY <1>1, <2>1
    <3>0. x \in Seq(S) /\ D \in Seq(S) /\ k = Len(x) /\ l = Len(D)
      BY <1>1, <2>1, <3>1
    <3>2. /\ y \in Seq(S) /\ Len(y) = k + l
          /\ \A i \in 1 .. k + l : y[i] = IF i <= k THEN x[i] ELSE D[i - k]
      BY <3>0, ConcatProperties
    <3> HIDE DEF y
    <3> QED
      BY <3>1, <3>2
  <2> HIDE DEF y
  <2>4. y[1] = a /\ y[2] = b /\ y[3] = c /\ y[4] = d
    BY <1>1, <2>2, <2>3
  <2> DEFINE z == <<a, b, c, d>>
  <2>5. z \in Seq(S) /\ Len(z) = 4 /\ z[1] = a /\ z[2] = b /\ z[3] = c /\ z[4] = d
    OBVIOUS
  <2> HIDE DEF z
  <2>6. \A i \in 1 .. 4 : y[i] = z[i]
    BY <2>4, <2>5
  <2>7. y = z
    BY <2>3, <2>5, <2>6, SeqEqual
  <2> QED
    BY <2>7 DEF x, y, z
<1>4. ((ab \o C) \o D) \o E = <<a, b, c, d>>
  <2>1. <<a, b, c, d>> \in Seq(S)
    OBVIOUS
  <2> QED
    BY <1>3, <2>1, ConcatEmptySeq
<1>5. ((E \o E) \o D) \o E = D
  BY <1>1, <1>2
<1> QED
  BY <1>2, <1>4, <1>5

LEMMA TraceEventTimes ==
    ASSUME IInv, IInv', 0 \in Tids, Times, DoTraceEvent(0)
    PROVE  Times'
<1> DEFINE h == Head(todo[0])
           c == [h EXCEPT !.do = "EventWithNodeId", !.nid = node]
           cs == <<c>>
<1>0. /\ todo \in [Tids -> Seq(CallRecords)] /\ todo[0] # <<>> /\ h \in CallRecords
      /\ h.do = "TraceEvent" /\ flush[0].stage = "no" /\ node \in Int
  BY DoingProperties, NodeNumbersAreInt DEF IInv, TypeOK, CallRecords, DoTraceEvent, Doing
<1>1. c \in CallRecords /\ c.do = "EventWithNodeId" /\ c.ts = h.ts
  <2>1. \A r \in CallRecords : LET e == [r EXCEPT !.do = "EventWithNodeId", !.nid = node]
                               IN e \in CallRecords /\ e.do = "EventWithNodeId" /\ e.ts = r.ts
    BY <1>0 DEF CallRecords, Calls
  <2> QED
    BY <1>0, <2>1
<1>2. Then(0, cs) /\ UNCHANGED <<clock, node, init, buf, cur, file, flush>>
  BY DEF DoTraceEvent
<1> HIDE DEF c
<1>3. Trace(0)' = Trace(0)
  BY <1>2, SameTrace
<1>4. todo'[0] = cs \o Tail(todo[0]) /\ Tail(todo[0]) \in Seq(CallRecords)
  BY <1>0, <1>2, HeadTailProperties DEF Then
<1>5. todo[0] \in Seq(FreshCalls) => todo'[0] \in Seq(FreshCalls)
  <2> SUFFICES ASSUME todo[0] \in Seq(FreshCalls) PROVE todo'[0] \in Seq(FreshCalls)
    OBVIOUS
  <2>1. Tail(todo[0]) \in Seq(FreshCalls)
    BY <1>0, HeadTailProperties
  <2>2. cs \in Seq(FreshCalls)
    <3>1. c \in FreshCalls
      BY <1>1 DEF FreshCalls
    <3> QED
      BY <3>1
  <2> HIDE DEF cs
  <2> QED
    BY <1>4, <2>1, <2>2, ConcatProperties
<1>6. node' # -1 /\ ~init'[0] => /\ Len(Trace(0)) = 0 /\ flush'[0].stage = "no"
                                 /\ todo'[0] \in Seq(FreshCalls)
  BY <1>2, <1>5 DEF Times
<1>7. CASE todo[0] \in Seq(ZeroCalls)
  <2>1. h \in ZeroCalls
    BY <1>0, <1>7, FirstCalls
  <2>2. c \in ZeroCalls
    BY <1>1, <2>1 DEF ZeroCalls
  <2>3. cs \in Seq(ZeroCalls)
    BY <2>2
  <2> HIDE DEF cs
  <2>4. todo'[0] \in Seq(ZeroCalls)
    BY <1>0, <1>2, <1>7, <2>3, ThenZero
  <2> QED
    BY <1>2, <1>3, <1>6, <2>4, TimesZero
<1>8. CASE Timed(todo[0], Trace(0))
  <2>1. todo[0] = <<h>> /\ h.ts \in 1 .. clock /\ UpTo(Trace(0), h.ts)
    BY <1>0, <1>8, FirstCalls
  <2>2. Tail(todo[0]) = <<>>
    <3> HIDE DEF h
    <3>1. Tail(<<h>>) = <<>>
      OBVIOUS
    <3> QED
      BY <2>1, <3>1
  <2>3. todo'[0] = <<c>>
    BY <1>1, <1>4, <2>2, ListParts
  <2>4. Timed(todo'[0], Trace(0))
    <3> HIDE DEF h
    <3>1. c.do \in EventDos
      BY <1>1 DEF EventDos
    <3> QED
      BY <1>1, <2>1, <2>3, <3>1 DEF Timed
  <2>5. Timed(todo[0], Trace(0))' /\ flush'[0].stage = "no" /\ FreshCalls' = FreshCalls
    BY <1>0, <1>2, <1>3, <2>4 DEF Timed, FreshCalls
  <2>6. Sorted(Trace(0)) /\ UpTo(Trace(0), clock)
    BY DEF Times
  <2> QED
    BY <1>2, <1>3, <1>6, <2>5, <2>6 DEF Times
<1>9. ~Starting(todo[0], cur[0])
  BY <1>0, FirstCalls
<1> QED
  BY <1>7, <1>8, <1>9 DEF Times

LEMMA EventTimes ==
    ASSUME IInv, IInv', StartOf(0), 0 \in Tids, Times, DoEventWithNodeId(0)
    PROVE  Times'
<1> DEFINE h == Head(todo[0])
           created == Created(0, node)
           fix == IF created # <<>> /\ h.ts # 0 THEN <<Fix(Len(created), h.ts)>> ELSE <<>>
           c == [h EXCEPT !.do = "Record"]
           rec == <<c>>
<1>0. /\ todo \in [Tids -> Seq(CallRecords)] /\ todo[0] # <<>> /\ h \in CallRecords
      /\ h.do = "EventWithNodeId" /\ flush[0].stage = "no" /\ node \in Int /\ TypeOK
  BY DoingProperties, NodeNumbersAreInt DEF IInv, TypeOK, CallRecords, DoEventWithNodeId, Doing
<1>1. c \in CallRecords /\ c.do = "Record" /\ c.ts = h.ts
  <2>1. \A r \in CallRecords : LET e == [r EXCEPT !.do = "Record"]
                               IN e \in CallRecords /\ e.do = "Record" /\ e.ts = r.ts
    BY DEF CallRecords, Calls
  <2> QED
    BY <1>0, <2>1
<1>2. /\ TraceInit(0, node) /\ UNCHANGED <<clock, node, cur, file, flush>>
      /\ Then(0, created \o fix \o rec)
  BY DEF DoEventWithNodeId
<1>3. /\ Len(Trace(0)') = Len(Trace(0))
      /\ \A i \in 1 .. Len(Trace(0)) : Trace(0)'[i].ts = Trace(0)[i].ts
  BY <1>0, <1>2, TraceInitSame, SameButNodeTrace
<1>4. node' # -1 => init'[0]
  BY <1>0, <1>2 DEF TraceInit, TypeOK
<1>5. Tail(todo[0]) \in Seq(CallRecords)
  BY <1>0, HeadTailProperties
<1> HIDE DEF c, created
<1>6. CASE todo[0] \in Seq(ZeroCalls)
  <2>1. h \in ZeroCalls
    BY <1>0, <1>6, FirstCalls
  <2>2. c \in ZeroCalls /\ h.ts = 0
    BY <1>1, <2>1 DEF ZeroCalls
  <2>3. rec \in Seq(ZeroCalls) /\ created \in Seq(ZeroCalls) /\ fix = <<>>
    <3>1. rec \in Seq(ZeroCalls)
      BY <2>2
    <3>2. created \in Seq(ZeroCalls)
      BY <1>0, CreatedZero DEF created
    <3>3. fix = <<>>
      BY <2>2
    <3> QED
      BY <3>1, <3>2, <3>3
  <2> HIDE DEF rec, fix
  <2>4. created \o fix \o rec \in Seq(ZeroCalls)
    <3>1. created \o fix = created
      BY <2>3, ConcatEmptySeq
    <3> QED
      BY <2>3, <3>1, ConcatProperties
  <2> DEFINE cs == created \o fix \o rec
  <2>5. Then(0, cs) /\ cs \in Seq(ZeroCalls)
    BY <1>2, <2>4
  <2> HIDE DEF cs
  <2>6. todo'[0] \in Seq(ZeroCalls)
    BY <1>0, <1>6, <2>5, ThenZero
  <2> QED
    BY <1>2, <1>3, <1>4, <2>6, TimesZero
<1>7. CASE Timed(todo[0], Trace(0))
  <2>1. todo[0] = <<h>> /\ h.ts \in 1 .. clock /\ UpTo(Trace(0), h.ts) /\ clock \in Nat
    BY <1>0, <1>7, FirstCalls DEF TypeOK
  <2>2. h.ts # 0 /\ h.ts \in Nat
    BY <2>1
  <2>3. Tail(todo[0]) = <<>>
    <3> HIDE DEF h
    <3>1. Tail(<<h>>) = <<>>
      OBVIOUS
    <3> QED
      BY <2>1, <3>1
  <2>4. todo'[0] = ((created \o fix) \o rec) \o <<>>
    <3> DEFINE cs == (created \o fix) \o rec
    <3>1. Then(0, cs)
      BY <1>2
    <3> HIDE DEF cs
    <3>2. todo'[0] = cs \o Tail(todo[0])
      BY <1>0, <3>1 DEF Then
    <3> QED
      BY <2>3, <3>2 DEF cs
  <2> DEFINE new == Trace(0)'
  <2>5. Sorted(new) /\ UpTo(new, clock) /\ UpTo(new, h.ts)
    <3>1. Sorted(Trace(0)) /\ UpTo(Trace(0), clock)
      BY DEF Times
    <3>2. Len(new) = Len(Trace(0)) /\ \A i \in 1 .. Len(Trace(0)) : new[i].ts = Trace(0)[i].ts
      BY <1>3
    <3> HIDE DEF new, h
    <3> QED
      BY <2>1, <3>1, <3>2, SortedSame
  <2>6. CASE init[0] \/ node = -1
    <3>1. created = <<>> /\ fix = <<>>
      BY <2>6 DEF Created, created
    <3> HIDE DEF fix
    <3>2. todo'[0] = <<c>>
      BY <1>1, <2>4, <3>1, ListParts
    <3>3. Timed(todo'[0], new)
      <4> HIDE DEF h, new
      <4>1. c.do \in EventDos
        BY <1>1 DEF EventDos
      <4> QED
        BY <1>1, <2>1, <2>5, <3>2, <4>1 DEF Timed
    <3>4. Timed(todo[0], Trace(0))'
      BY <1>2, <3>3 DEF Timed
    <3> QED
      BY <1>0, <1>2, <1>4, <2>5, <3>4 DEF Times
  <2>7. CASE ~(init[0] \/ node = -1)
    <3> DEFINE i == Call("Record", "EV_INIT", 0, node)
               w == Call("Record", "WALL_CLOCK", 0, node)
               f == Fix(2, h.ts)
    <3>1. Len(Trace(0)) = 0 /\ ~init[0] /\ init'[0]
      BY <1>2, <1>4, <2>7 DEF Times
    <3>2. created = <<i, w>> /\ Len(created) = 2
      BY <1>0, <1>2, <2>7, <3>1, CreatedStarts DEF created
    <3>3. fix = <<f>>
      <4>1. created # <<>>
        BY <3>2
      <4> QED
        BY <2>2, <3>2, <4>1
    <3>4. i \in CallRecords /\ w \in CallRecords /\ f \in CallRecords
      BY <1>0, <2>2, CallType, FixType DEF Calls, Marks
    <3>5. i.do = "Record" /\ w.do = "Record" /\ i.ts = 0 /\ w.ts = 0
      BY DEF Call
    <3>6. cur[0] = 0 /\ Len(file[0]) = 0
      <4>1. Len(file[0]) + cur[0] = 0 /\ Len(file[0]) \in Nat /\ cur[0] \in Nat
        BY <3>1, TraceProperties
      <4> QED
        BY <4>1
    <3> HIDE DEF i, w, fix, f
    <3>7. todo'[0] = <<i, w, f, c>>
      BY <1>1, <2>4, <3>2, <3>3, <3>4, ListParts
    <3>8. Starting(todo'[0], 0)
      <4>1. todo'[0] = <<i, w, Fix(2, c.ts), c>> /\ c.ts \in 1 .. clock
        BY <1>1, <2>1, <3>7 DEF f
      <4> QED
        BY <1>1, <3>4, <3>5, <4>1 DEF Starting
    <3>9. Starting(todo[0], cur[0])'
      <4>1. \A a, b : Fix(a, b)' = Fix(a, b)
        BY DEF Fix, Call
      <4>2. clock' = clock /\ cur'[0] = 0 /\ CallRecords' = CallRecords
        BY <1>2, <3>6 DEF CallRecords
      <4> QED
        BY <3>8, <4>1, <4>2 DEF Starting
    <3> QED
      BY <1>0, <1>2, <1>4, <2>5, <3>1, <3>6, <3>9 DEF Times
  <2> QED
    BY <2>6, <2>7
<1>8. ~Starting(todo[0], cur[0])
  BY <1>0, FirstCalls
<1> QED
  BY <1>6, <1>7, <1>8 DEF Times

LEMMA FixTimes ==
    ASSUME IInv, IInv', 0 \in Tids, Times, DoFix(0)
    PROVE  Times'
<1> DEFINE h == Head(todo[0])
<1>0. /\ todo \in [Tids -> Seq(CallRecords)] /\ todo[0] # <<>> /\ h.do = "Fix"
      /\ flush[0].stage = "no" /\ clock \in Nat
  BY DEF IInv, TypeOK, CallRecords, DoFix, Doing
<1>1. /\ Then(0, <<>>) /\ UNCHANGED <<clock, node, init, cur, file, flush>>
  BY DEF DoFix
<1>2. Starting(todo[0], cur[0]) /\ init[0] /\ Len(file[0]) = 0
  BY <1>0, FirstCalls DEF Times, ZeroCalls, EventDos
<1>3. \A a, b : Fix(a, b).do = "Fix" /\ Fix(a, b).n = a /\ Fix(a, b).ts = b
  BY DEF Fix, Call
<1>4. PICK c \in CallRecords : /\ c.do = "Record" /\ c.ts \in 1 .. clock /\ cur[0] = 2
                               /\ todo[0] = <<Fix(2, c.ts), c>>
  <2>1. PICK i \in CallRecords, w \in CallRecords, c \in CallRecords :
             /\ i.do = "Record" /\ w.do = "Record" /\ c.do = "Record" /\ c.ts \in 1 .. clock
             /\ \/ cur[0] = 0 /\ todo[0] = <<i, w, Fix(2, c.ts), c>>
                \/ cur[0] = 1 /\ todo[0] = <<w, Fix(2, c.ts), c>>
                \/ cur[0] = 2 /\ todo[0] = <<Fix(2, c.ts), c>>
    BY <1>2 DEF Starting
  <2>2. /\ todo[0] # <<i, w, Fix(2, c.ts), c>>
        /\ todo[0] # <<w, Fix(2, c.ts), c>>
    <3> DEFINE f == Fix(2, c.ts)
    <3>1. Head(<<i, w, f, c>>) = i /\ Head(<<w, f, c>>) = w
      <4> HIDE DEF f
      <4> QED
        OBVIOUS
    <3> QED
      BY <1>0, <2>1, <3>1
  <2> QED
    BY <2>1, <2>2
<1> DEFINE f == Fix(2, c.ts)
<1>5. f.n = 2 /\ f.ts = c.ts
  BY <1>3
<1>6. h = f /\ todo'[0] = <<c>>
  <2>1. Head(<<f, c>>) = f /\ Tail(<<f, c>>) = <<c>>
    <3> HIDE DEF f
    <3> QED
      OBVIOUS
  <2>2. h = f /\ Tail(todo[0]) = <<c>>
    BY <1>4, <2>1
  <2>3. todo'[0] = <<>> \o Tail(todo[0])
    BY <1>0, <1>1 DEF Then
  <2> QED
    BY <2>2, <2>3, ListParts
<1> HIDE DEF f
<1> DEFINE new == Trace(0)'
<1>7. Len(new) = 2 /\ new[1].ts = c.ts /\ new[2].ts = c.ts
  <2>1. Len(Trace(0)) = 2
    BY <1>2, <1>4, TraceProperties
  <2>2. /\ Len(new) = Len(Trace(0))
        /\ \A i \in 1 .. cur[0] : i > cur[0] - h.n => new[Len(file[0]) + i].ts = h.ts
    BY FixTrace
  <2> HIDE DEF new, h
  <2>3. \A i \in 1 .. 2 : i > 2 - 2 => new[0 + i].ts = c.ts
    BY <1>2, <1>4, <1>5, <1>6, <2>2
  <2>4. new[0 + 1].ts = c.ts /\ new[0 + 2].ts = c.ts
    BY <2>3
  <2> QED
    BY <2>1, <2>2, <2>4
<1> HIDE DEF new
<1>8. c.ts \in Nat /\ c.ts <= clock
  BY <1>0, <1>4
<1>9. Sorted(new) /\ UpTo(new, c.ts) /\ UpTo(new, clock)
  <2>1. \A i \in 1 .. Len(new) : new[i].ts = c.ts
    BY <1>7
  <2> QED
    BY <1>0, <1>8, <2>1 DEF Sorted, UpTo
<1>10. Timed(todo'[0], new)
  <2>1. c.do \in EventDos
    BY <1>4 DEF EventDos
  <2> QED
    BY <1>4, <1>6, <1>9, <2>1 DEF Timed
<1>11. Timed(todo[0], Trace(0))'
  BY <1>1, <1>10 DEF Timed, new
<1>12. Sorted(Trace(0))' /\ UpTo(Trace(0), clock)'
  BY <1>1, <1>9 DEF new
<1> QED
  BY <1>0, <1>1, <1>2, <1>11, <1>12 DEF Times

\* The event in the midst of TauTraceInit's records goes on to the next of them.
LEMMA StartingNext ==
    ASSUME NEW q, NEW k, Starting(q, k), Head(q).do = "Record"
    PROVE  /\ Head(q).ts = 0 /\ k \in {0, 1}
           /\ Starting(Tail(q), k + 1)
<1>1. PICK i \in CallRecords, w \in CallRecords, c \in CallRecords :
           /\ i.do = "Record" /\ w.do = "Record" /\ c.do = "Record"
           /\ i.ts = 0 /\ w.ts = 0 /\ c.ts \in 1 .. clock
           /\ \/ k = 0 /\ q = <<i, w, Fix(2, c.ts), c>>
              \/ k = 1 /\ q = <<w, Fix(2, c.ts), c>>
              \/ k = 2 /\ q = <<Fix(2, c.ts), c>>
  BY DEF Starting
<1> DEFINE f == Fix(2, c.ts)
<1>2. f.do = "Fix"
  BY DEF Fix, Call
<1>3. /\ Head(<<i, w, f, c>>) = i /\ Tail(<<i, w, f, c>>) = <<w, f, c>>
      /\ Head(<<w, f, c>>) = w /\ Tail(<<w, f, c>>) = <<f, c>> /\ Head(<<f, c>>) = f
  <2> HIDE DEF f
  <2> QED
    OBVIOUS
<1>4. CASE k = 0 /\ q = <<i, w, f, c>>
  <2>1. Tail(q) = <<w, Fix(2, c.ts), c>> /\ k + 1 = 1
    BY <1>3, <1>4 DEF f
  <2>2. Starting(Tail(q), k + 1)
    BY <1>1, <2>1 DEF Starting
  <2> QED
    BY <1>1, <1>3, <1>4, <2>2
<1>5. CASE k = 1 /\ q = <<w, f, c>>
  <2>1. Tail(q) = <<Fix(2, c.ts), c>> /\ k + 1 = 2
    BY <1>3, <1>5 DEF f
  <2>2. Starting(Tail(q), k + 1)
    BY <1>1, <2>1 DEF Starting
  <2> QED
    BY <1>1, <1>3, <1>5, <2>2
<1>6. CASE k = 2 /\ q = <<f, c>>
  BY <1>2, <1>3, <1>6
<1> QED
  BY <1>1, <1>4, <1>5, <1>6 DEF f

LEMMA DoRecordTimes ==
    ASSUME IInv, IInv', 0 \in Tids, Times, DoRecord(0)
    PROVE  Times'
<1> DEFINE h == Head(todo[0])
           new == Trace(0)'
<1>0. /\ todo \in [Tids -> Seq(CallRecords)] /\ todo[0] # <<>> /\ h \in CallRecords
      /\ h.do = "Record" /\ flush[0].stage = "no" /\ clock \in Nat
      /\ Sorted(Trace(0)) /\ UpTo(Trace(0), clock)
  BY DoingProperties DEF IInv, TypeOK, CallRecords, DoRecord, Doing, Times
<1>1. Then(0, <<>>) /\ UNCHANGED <<clock, node, init, file>>
  BY DEF DoRecord
<1>2. ~(node # -1 /\ ~init[0])
  <2>1. todo[0] \in Seq(FreshCalls) => h \in FreshCalls
    BY <1>0, HeadTailProperties
  <2>2. h \notin FreshCalls
    BY <1>0 DEF FreshCalls
  <2> QED
    BY <2>1, <2>2 DEF Times
<1>3. todo'[0] = <<>> \o Tail(todo[0])
  BY <1>0, <1>1 DEF Then
<1>4. h.ts = 0 => new \in Seq(Records) /\ Sorted(new) /\ UpTo(new, clock')
  BY <1>0, <1>1, RecordTimes
<1>5. CASE todo[0] \in Seq(ZeroCalls)
  <2>1. h.ts = 0
    BY <1>0, <1>5, FirstCalls DEF ZeroCalls
  <2>2. todo'[0] \in Seq(ZeroCalls) /\ ZeroCalls' = ZeroCalls
    BY <1>0, <1>1, <1>5, ThenNothingZero DEF ZeroCalls
  <2>3. Sorted(Trace(0))' /\ UpTo(Trace(0), clock)'
    BY <1>4, <2>1
  <2> QED
    BY <1>1, <1>2, <2>2, <2>3 DEF Times
<1>6. CASE Timed(todo[0], Trace(0))
  <2>1. todo[0] = <<h>> /\ h.ts \in 1 .. clock /\ UpTo(Trace(0), h.ts)
    BY <1>0, <1>6, FirstCalls
  <2>2. h.ts # 0 /\ h.ts \in Nat /\ h.ts <= clock
    BY <1>0, <2>1
  <2>3. new \in Seq(Records) /\ Sorted(new) /\ UpTo(new, h.ts)
    BY <1>0, <2>1, <2>2, RecordTimes
  <2>4. UpTo(new, clock)
    <3> HIDE DEF new, h
    <3> QED
      BY <1>0, <2>2, <2>3, UpToLater
  <2>5. todo'[0] = <<>>
    <3>1. Tail(todo[0]) = <<>>
      <4> HIDE DEF h
      <4>1. Tail(<<h>>) = <<>>
        OBVIOUS
      <4> QED
        BY <2>1, <4>1
    <3>2. <<>> \o <<>> = <<>>
      OBVIOUS
    <3> QED
      BY <1>3, <3>1, <3>2
  <2>6. todo'[0] \in Seq(ZeroCalls) /\ ZeroCalls' = ZeroCalls
    <3>1. <<>> \in Seq(ZeroCalls)
      OBVIOUS
    <3> QED
      BY <2>5, <3>1 DEF ZeroCalls
  <2>7. Sorted(Trace(0))' /\ UpTo(Trace(0), clock)'
    BY <1>1, <2>3, <2>4
  <2> QED
    BY <1>1, <1>2, <2>6, <2>7 DEF Times
<1>7. CASE flush[0].stage = "no" /\ init[0] /\ Len(file[0]) = 0 /\ Starting(todo[0], cur[0])
  <2>1. h.ts = 0 /\ cur[0] \in {0, 1} /\ Starting(Tail(todo[0]), cur[0] + 1)
    BY <1>0, <1>7, StartingNext
  <2>2. cur'[0] = cur[0] + 1 /\ flush'[0] = flush[0]
    <3>1. ~Full(cur[0] + 1)
      BY <2>1, TracerAssumption DEF Full
    <3> QED
      BY <1>7, <3>1, RecordWrites
  <2>3. todo'[0] = Tail(todo[0])
    <3> DEFINE q == Tail(todo[0])
    <3>1. q \in Seq(CallRecords)
      BY <1>0, HeadTailProperties
    <3>2. todo'[0] = <<>> \o q
      BY <1>3
    <3> HIDE DEF q
    <3>3. todo'[0] = q
      BY <3>1, <3>2, ConcatEmptySeq
    <3> QED
      BY <3>3 DEF q
  <2>4. Starting(todo[0], cur[0])'
    <3>1. \A a, b : Fix(a, b)' = Fix(a, b)
      BY DEF Fix, Call
    <3>2. clock' = clock /\ CallRecords' = CallRecords
      BY <1>1 DEF CallRecords
    <3>3. Starting(todo'[0], cur'[0])
      BY <2>1, <2>2, <2>3
    <3> QED
      BY <3>1, <3>2, <3>3 DEF Starting
  <2>5. Sorted(Trace(0))' /\ UpTo(Trace(0), clock)'
    BY <1>4, <2>1
  <2> QED
    BY <1>1, <1>2, <1>7, <2>2, <2>4, <2>5 DEF Times
<1> QED
  BY <1>5, <1>6, <1>7 DEF Times

\* Calls that only the end of a trace makes.
LEMMA LastCallsTimes ==
    ASSUME IInv, IInv', 0 \in Tids, Times, DoDumpEDF(0) \/ DoFlush(0)
    PROVE  Times'
<1> DEFINE h == Head(todo[0])
<1>0. /\ todo \in [Tids -> Seq(CallRecords)] /\ todo[0] # <<>> /\ h.do \in {"DumpEDF", "Flush"}
      /\ Then(0, <<>>) /\ UNCHANGED <<clock, node, init, buf, cur, file>>
  BY DEF IInv, TypeOK, CallRecords, DoDumpEDF, DoFlush, Doing
<1>1. todo[0] \in Seq(ZeroCalls)
  BY <1>0, FirstCalls DEF Times, EventDos
<1>2. ~(node # -1 /\ ~init[0])
  <2>1. todo[0] \in Seq(FreshCalls) => h \in FreshCalls
    BY <1>0, HeadTailProperties
  <2> QED
    BY <1>0, <2>1 DEF Times, FreshCalls
<1>3. todo'[0] \in Seq(ZeroCalls)
  BY <1>0, <1>1, ThenNothingZero
<1>4. Trace(0)' = Trace(0)
  BY <1>0, SameTrace
<1> QED
  BY <1>0, <1>2, <1>3, <1>4, TimesZero

LEMMA CloseTimes ==
    ASSUME IInv, IInv', 0 \in Tids, Times, Close(0)
    PROVE  Times'
<1> DEFINE c == TraceEvent("CLOSE", 0)
           w == TraceEvent("WALL_CLOCK", 0)
           d == Call("DumpEDF", "CLOSE", 0, -1)
           f == Call("Flush", "CLOSE", 0, -1)
<1>1. c \in ZeroCalls /\ w \in ZeroCalls /\ d \in ZeroCalls /\ f \in ZeroCalls
  BY DEF TraceEvent, Call, Calls, Marks, CallRecords, ZeroCalls
<1>2. /\ UNCHANGED <<clock, node, init, buf, cur, file, flush>> /\ cur[0] > 0
      /\ todo'[0] = <<c, w, d, f>>
  BY DEF Close, IInv, TypeOK
<1> HIDE DEF c, w, d, f
<1>3. todo'[0] \in Seq(ZeroCalls)
  BY <1>1, <1>2
<1>4. Trace(0)' = Trace(0)
  BY <1>2, SameTrace
<1>5. Len(Trace(0)) # 0
  <2>1. Len(Trace(0)) = Len(file[0]) + cur[0] /\ Len(file[0]) \in Nat /\ cur[0] \in Nat
    BY TraceProperties
  <2> QED
    BY <1>2, <2>1
<1> QED
  BY <1>2, <1>3, <1>4, <1>5, TimesZero DEF Times

LEMMA NextTimes ==
    ASSUME OneClock, Tids = {0}, IInv, IInv', StartOf(0), Times, [Next]_vars
    PROVE  Times'
<1>0. 0 \in Tids /\ clock \in Nat
  BY DEF IInv, TypeOK
<1>1. ASSUME NEW e \in Funcs \cup Users, Register(0, e) PROVE Times'
  <2>1. UNCHANGED <<clock, node, init, buf, cur, file, todo, flush>>
    BY <1>1 DEF Register
  <2> QED
    BY <1>0, <2>1, TimesStay
<1>2. ASSUME NEW e \in Funcs \cup Users, Trigger(0, e) PROVE Times'
  BY <1>0, <1>2, TriggerTimes
<1>3. ASSUME CallStep(0) PROVE Times'
  BY <1>0, <1>3, TraceEventTimes, EventTimes, FixTimes, DoRecordTimes, LastCallsTimes
     DEF CallStep
<1>4. ASSUME FlushStep(0) \/ Close(0) PROVE Times'
  BY <1>0, <1>4, FlushTimes, CloseTimes
<1>5. ASSUME NEW n \in Nodes, SetNode(n) PROVE Times'
  BY <1>0, <1>5, SetNodeTimes
<1>6. CASE Tick
  <2>1. /\ UNCHANGED <<node, init, buf, cur, file, todo, flush>>
        /\ clock' \in Nat /\ clock <= clock'
    BY <1>0, <1>6 DEF Tick
  <2> QED
    BY <1>0, <2>1, TimesStay
<1>7. CASE Finished \/ UNCHANGED vars
  <2>1. UNCHANGED <<clock, node, init, buf, cur, file, todo, flush>>
    BY <1>7, Zenon DEF Finished, vars
  <2> QED
    BY <1>0, <2>1, TimesStay
<1> QED
  BY <1>1, <1>2, <1>3, <1>4, <1>5, <1>6, <1>7 DEF Next

\* With one thread whose timers are traced without counters, timestamps never
\* go back, although the records of TauTraceInit are written between an event
\* and its record.
THEOREM TimesInOrder == OneClock => (Spec => []TimeOrdered)
<1> SUFFICES ASSUME OneClock PROVE Spec => []TimeOrdered
  OBVIOUS
<1>0. Tids = {0}
  BY DEF Tids, OneClock
<1> DEFINE Inv == IInv /\ (\A t \in Tids : StartOf(t)) /\ Times
<1>1. Init => Inv
  <2> SUFFICES ASSUME Init PROVE Inv
    OBVIOUS
  <2>1. IInv /\ \A t \in Tids : StartOf(t)
    BY InitIInv, InitStarts
  <2>2. /\ todo[0] = <<>> /\ flush[0] = NoFlush /\ file[0] = <<>> /\ cur[0] = 0
    BY <1>0 DEF Init
  <2>3. Len(Trace(0)) = 0
    BY <1>0, <2>1, <2>2, TraceProperties
  <2>4. Sorted(Trace(0)) /\ UpTo(Trace(0), clock)
    BY <2>3 DEF Sorted, UpTo
  <2>5. <<>> \in Seq(ZeroCalls) /\ <<>> \in Seq(FreshCalls)
    OBVIOUS
  <2>6. Times
    BY <2>2, <2>3, <2>4, <2>5 DEF Times, NoFlush
  <2> QED
    BY <2>1, <2>6
<1>2. Inv /\ [Next]_vars => Inv'
  <2> SUFFICES ASSUME Inv, [Next]_vars PROVE Inv'
    OBVIOUS
  <2>1. IInv'
    BY NextIInv
  <2>2. \A t \in Tids : StartOf(t)'
    BY <2>1, NextStarts
  <2>3. Times'
    BY <1>0, <2>1, NextTimes
  <2> QED
    BY <2>1, <2>2, <2>3
<1>3. Inv => TimeOrdered
  BY <1>0 DEF Times, Sorted, TimeOrdered
<1> QED
  BY <1>1, <1>2, <1>3, PTL DEF Spec

=============================================================================
