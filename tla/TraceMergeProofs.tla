-------------------------- MODULE TraceMergeProofs --------------------------
(***************************************************************************)
(* Proofs about TraceMerge: types, that the merged trace is in order, that *)
(* the adjusted times of a single trace are those of the tracer, and where *)
(* no record is lost and every one keeps its name, for any number of       *)
(* traces and whatever the program writes to them while they are merged.   *)
(***************************************************************************)
EXTENDS TraceMerge, FiniteSetTheorems, SequenceTheorems, TLAPS

-----------------------------------------------------------------------------
(* Types.                                                                  *)

\* The current record of a trace is one of its file, and its time is the one
\* the trace is compared by.
Positions ==
    \A k \in 1 .. numtrc :
        /\ trc[k].pos \in 1 .. Len(written[trc[k].src])
        /\ trc[k].last = written[trc[k].src][trc[k].pos].ti

Typed == TypeOK /\ Positions

\* What a thread writes is added to its file.
LEMMA AppendedProperties ==
    ASSUME TypeOK, NEW i \in Traces, NEW n \in Nat, NEW rs \in [1 .. n -> Records],
           Appended(i, rs)
    PROVE  /\ written' \in [Traces -> Seq(Records)]
           /\ edf' \in [Traces -> SUBSET Locals]
           /\ \A j \in Traces : /\ Len(written[j]) <= Len(written'[j])
                                /\ \A m \in 1 .. Len(written[j]) :
                                      written'[j][m] = written[j][m]
  <1>1. rs \in Seq(Records) /\ Len(rs) = n
    <2>1. rs \in Seq(Records)
      BY SeqDef
    <2>2. DOMAIN rs = 1 .. n /\ DOMAIN rs = 1 .. Len(rs) /\ Len(rs) \in Nat
      BY <2>1, LenProperties
    <2> QED
      BY <2>1, <2>2
  <1>2. written \in [Traces -> Seq(Records)] /\ edf \in [Traces -> SUBSET Locals]
    BY DEF TypeOK
  <1>3. /\ written[i] \o rs \in Seq(Records)
        /\ Len(written[i] \o rs) = Len(written[i]) + n
        /\ \A m \in 1 .. Len(written[i]) + n :
              (written[i] \o rs)[m] = IF m <= Len(written[i]) THEN written[i][m]
                                                             ELSE rs[m - Len(written[i])]
    <2>1. written[i] \in Seq(Records)
      BY <1>2
    <2> QED
      BY <1>1, <2>1, ConcatProperties
  <1>4. written' = [written EXCEPT ![i] = written[i] \o rs]
    BY DEF Appended
  <1>5. written' \in [Traces -> Seq(Records)]
    BY <1>2, <1>3, <1>4
  <1>6. ASSUME NEW j \in Traces
        PROVE  /\ Len(written[j]) <= Len(written'[j])
               /\ \A m \in 1 .. Len(written[j]) : written'[j][m] = written[j][m]
    <2>1. Len(written[j]) \in Nat
      BY <1>2
    <2>2. CASE j = i
      BY <1>2, <1>3, <1>4, <2>1, <2>2
    <2>3. CASE j # i
      BY <1>2, <1>4, <2>1, <2>3
    <2> QED
      BY <2>2, <2>3
  <1>7. {rs[m].ev : m \in 1 .. Len(rs)} \subseteq Locals
    BY <1>1 DEF Records
  <1>8. edf' \in [Traces -> SUBSET Locals]
    BY <1>2, <1>7 DEF Appended
  <1> QED
    BY <1>5, <1>6, <1>8

\* A step of the program adds to the files and leaves the merge alone.
LEMMA ProgramStep ==
    ASSUME TypeOK, NEW i \in Traces, Flush(i) \/ Close(i)
    PROVE  /\ written' \in [Traces -> Seq(Records)]
           /\ edf' \in [Traces -> SUBSET Locals]
           /\ ended' \in [Traces -> BOOLEAN]
           /\ \A j \in Traces : /\ Len(written[j]) <= Len(written'[j])
                                /\ \A m \in 1 .. Len(written[j]) :
                                      written'[j][m] = written[j][m]
           /\ UNCHANGED <<argc, adjust, phase, at, numtrc, trc, table, erec, first, turn, out>>
  <1>1. \E n \in Nat : \E rs \in [1 .. n -> Records] : Appended(i, rs)
    <2>1. MaxRecords \in Nat /\ Len(written[i]) \in Nat
      BY MergeAssumption DEF TypeOK
    <2>2. CASE Flush(i)
      BY <2>1, <2>2 DEF Flush
    <2>3. CASE Close(i)
      BY <2>1, <2>3 DEF Close
    <2> QED
      BY <2>2, <2>3
  <1>2. ended' \in [Traces -> BOOLEAN]
    BY DEF TypeOK, Flush, Close
  <1>3. UNCHANGED <<argc, adjust, phase, at, numtrc, trc, table, erec, first, turn, out>>
    BY DEF Flush, Close
  <1> QED
    BY <1>1, <1>2, <1>3, AppendedProperties

\* The numbers of descriptors in use are among those of the traces.
LEMMA InUse ==
    ASSUME TypeOK
    PROVE  /\ NumTraces \in Nat /\ argc \in Nat /\ numtrc \in Nat
           /\ \A k \in 1 .. numtrc : k \in Traces /\ trc[k] \in Descriptors
           /\ Active \subseteq 1 .. numtrc
  <1>1. NumTraces \in Nat /\ argc \in 1 .. NumTraces /\ numtrc \in 0 .. argc
    BY MergeAssumption DEF TypeOK, Traces
  <1>2. trc \in [Traces -> Descriptors]
    BY DEF TypeOK
  <1> QED
    BY <1>1, <1>2 DEF Active, Traces

\* A step that leaves the files and the places in them alone.
LEMMA PositionsStay ==
    ASSUME Typed, UNCHANGED <<written, numtrc>>,
           \A j \in Traces : /\ trc'[j].src = trc[j].src /\ trc'[j].pos = trc[j].pos
                             /\ trc'[j].last = trc[j].last
    PROVE  Positions'
  <1>1. \A k \in 1 .. numtrc : k \in Traces
    BY InUse, Zenon DEF Typed
  <1>2. \A k \in 1 .. numtrc : /\ trc[k].pos \in 1 .. Len(written[trc[k].src])
                                /\ trc[k].last = written[trc[k].src][trc[k].pos].ti
    BY Zenon DEF Typed, Positions
  <1>3. ASSUME NEW k \in 1 .. numtrc
        PROVE  /\ trc'[k].pos \in 1 .. Len(written'[trc'[k].src])
               /\ trc'[k].last = written'[trc'[k].src][trc'[k].pos].ti
    BY <1>1, <1>2, Zenon
  <1>4. numtrc' = numtrc
    OBVIOUS
  <1> QED
    BY <1>3, <1>4, Zenon DEF Positions

LEMMA EventType ==
    ASSUME Typed, NEW k \in 1 .. numtrc
    PROVE  Event(k) \in Locals
  <1>1. trc[k].src \in Traces
    BY InUse DEF Typed, Descriptors
  <1>2. written[trc[k].src] \in Seq(Records)
    BY <1>1 DEF Typed, TypeOK
  <1>3. written[trc[k].src][trc[k].pos] \in Records
    BY <1>2, ElementOfSeq DEF Typed, Positions
  <1> QED
    BY <1>3 DEF Event, Records

\* -a changes the time that is written and nothing else.
LEMMA AdjustedProperties ==
    ASSUME TypeOK, adjust => erec # 0
    PROVE  /\ FirstTime \in 0 .. Word - 1
           /\ Adjusted \in [Traces -> Descriptors]
           /\ \A k \in Traces : /\ Adjusted[k].src = trc[k].src
                                /\ Adjusted[k].open = trc[k].open
                                /\ Adjusted[k].pos = trc[k].pos
                                /\ Adjusted[k].over = trc[k].over
                                /\ Adjusted[k].last = trc[k].last
           /\ ~adjust => Adjusted = trc
  <1>1. /\ trc \in [Traces -> Descriptors] /\ first \in 0 .. Word - 1
        /\ Word \in Nat \ {0} /\ adjust \in BOOLEAN
    BY MergeAssumption DEF TypeOK
  <1>2. CASE ~adjust
    BY <1>1, <1>2 DEF FirstTime, Adjusted
  <1>3. CASE adjust
    <2>1. erec \in Traces
      <3>1. erec \in 1 .. numtrc
        BY <1>3, InUse DEF TypeOK
      <3> QED
        BY <3>1, InUse
    <2>2. trc[erec] \in Descriptors
      BY <1>1, <2>1
    <2>3. trc[erec].ti \in 0 .. Word - 1
      BY <2>2 DEF Descriptors
    <2>4. FirstTime \in 0 .. Word - 1
      BY <1>1, <2>3 DEF FirstTime
    <2>5. (trc[erec].ti - FirstTime) % Word \in 0 .. Word - 1
      BY <1>1, <2>3, <2>4
    <2> DEFINE t == (trc[erec].ti - FirstTime) % Word
    <2>6. Adjusted = [trc EXCEPT ![erec] = [trc[erec] EXCEPT !.ti = t]]
      BY <1>3 DEF Adjusted
    <2> HIDE DEF t
    <2>7. [trc[erec] EXCEPT !.ti = t] \in Descriptors
      BY <2>2, <2>5 DEF Descriptors, t
    <2>8. Adjusted \in [Traces -> Descriptors]
      BY <1>1, <2>6, <2>7
    <2>9. ASSUME NEW k \in Traces
          PROVE  /\ Adjusted[k].src = trc[k].src
                 /\ Adjusted[k].open = trc[k].open
                 /\ Adjusted[k].pos = trc[k].pos
                 /\ Adjusted[k].over = trc[k].over
                 /\ Adjusted[k].last = trc[k].last
      <3>1. CASE k # erec
        BY <1>1, <2>6, <3>1
      <3>2. CASE k = erec
        BY <1>1, <2>2, <2>6, <3>2 DEF Descriptors
      <3> QED
        BY <3>1, <3>2
    <2> QED
      BY <1>3, <2>4, <2>8, <2>9
  <1> QED
    BY <1>1, <1>2, <1>3

\* What GID returns and leaves in the table.
LEMMA TableType ==
    ASSUME Typed, NEW k \in 1 .. numtrc, NEW e \in Traces
    PROVE  LET known == ReadAgain(k, e)
               gid   == GID(known, Event(k))
           IN /\ gid \in GlobalIds
              /\ [known EXCEPT ![Event(k)] = gid] \in [Locals -> GlobalIds]
  <1>1. table \in [Traces -> [Locals -> GlobalIds]] /\ k \in Traces
    BY InUse DEF Typed, TypeOK
  <1>2. Event(k) \in Locals
    BY EventType
  <1>3. NameOf \in [Traces -> [Locals -> GlobalIds]]
    BY MergeAssumption DEF GlobalIds
  <1>4. Parsed(k, e) \in [Locals -> GlobalIds]
    BY <1>1, <1>3 DEF Parsed
  <1>5. ReadAgain(k, e) \in [Locals -> GlobalIds]
    BY <1>1, <1>4 DEF ReadAgain
  <1> DEFINE known == ReadAgain(k, e)
  <1> HIDE DEF known
  <1>6. GID(known, Event(k)) \in GlobalIds
    BY <1>2, <1>5 DEF GID, GlobalIds, known
  <1> QED
    BY <1>2, <1>5, <1>6 DEF known

\* A trace is opened with its first record.
LEMMA OpenStep ==
    ASSUME Typed, OpenTrace
    PROVE  /\ Typed'
           /\ phase = "open"
           /\ \A j \in 1 .. numtrc' : \/ (j \in 1 .. numtrc /\ trc'[j] = trc[j])
                                     \/ (trc'[j].over = 0 /\ trc'[j].ti = trc'[j].last)
           /\ UNCHANGED <<written, edf, ended, argc, adjust, phase, first, turn, out>>
  <1>1. CASE written[at] = <<>>
    <2>1. /\ at' = at + 1 /\ erec' = 0
          /\ UNCHANGED <<written, edf, ended, argc, adjust, phase, numtrc, trc, table, first,
                         turn, out>>
      BY <1>1 DEF OpenTrace, program
    <2>2. at \in 1 .. argc /\ argc \in Nat
      BY InUse DEF OpenTrace, Typed, TypeOK
    <2>3. Typed'
      BY <2>1, <2>2 DEF Typed, TypeOK, Positions
    <2> QED
      BY <2>1, <2>3 DEF OpenTrace
  <1>2. CASE written[at] # <<>>
    <2> DEFINE k == numtrc + 1
               t == written[at][1].ti
               d == [NotInUse EXCEPT !.src = at, !.open = TRUE, !.pos = 1, !.last = t, !.ti = t]
               e == IF EdfGiven THEN k ELSE at
    <2>1. /\ at' = at + 1 /\ erec' = k /\ numtrc' = k
          /\ trc' = [trc EXCEPT ![k] = d]
          /\ table' = [table EXCEPT ![k] = Parsed(k, e)]
          /\ UNCHANGED <<written, edf, ended, argc, adjust, phase, first, turn, out>>
      BY <1>2 DEF OpenTrace, program
    <2>2. /\ at \in 1 .. argc /\ argc \in Traces /\ NumTraces \in Nat /\ numtrc \in Nat
          /\ numtrc < at /\ argc \in Nat
      BY InUse DEF OpenTrace, Typed, TypeOK
    <2>3. at \in Traces /\ k \in Traces /\ e \in Traces
      BY <2>2 DEF Traces
    <2>4. written[at] \in Seq(Records) /\ 1 \in 1 .. Len(written[at])
      <3>1. written[at] \in Seq(Records)
        BY <2>3 DEF Typed, TypeOK
      <3> QED
        BY <1>2, <3>1, EmptySeq
    <2>5. t \in 0 .. Word - 1
      <3>1. written[at][1] \in Records
        BY <2>4, ElementOfSeq
      <3> QED
        BY <3>1, MergeAssumption DEF Records
    <2>6. d \in Descriptors
      BY <2>3, <2>5 DEF NotInUse, Descriptors, GlobalIds
    <2>7. trc' \in [Traces -> Descriptors]
      BY <2>1, <2>3, <2>6 DEF Typed, TypeOK
    <2>8. Parsed(k, e) \in [Locals -> GlobalIds]
      BY <2>3, MergeAssumption DEF Typed, TypeOK, Parsed, GlobalIds
    <2>9. table' \in [Traces -> [Locals -> GlobalIds]]
      BY <2>1, <2>3, <2>8 DEF Typed, TypeOK
    <2>14. ASSUME NEW j \in 1 .. k
          PROVE  \/ j \in 1 .. numtrc /\ trc'[j] = trc[j]
                 \/ trc'[j].over = 0 /\ trc'[j].ti = trc'[j].last
      <3>1. CASE j = k
        <4>1. trc'[j] = d
          BY <2>1, <2>3, <3>1 DEF Typed, TypeOK
        <4>2. d.over = 0 /\ d.ti = t /\ d.last = t
          BY DEF NotInUse
        <4> QED
          BY <4>1, <4>2
      <3>2. CASE j # k
        <4>1. j \in 1 .. numtrc
          BY <2>2, <3>2
        <4>2. trc'[j] = trc[j]
          BY <2>1, <3>2, <4>1, InUse DEF Typed, TypeOK
        <4> QED
          BY <4>1, <4>2
      <3> QED
        BY <3>1, <3>2
    <2>10. Positions'
      <3> SUFFICES ASSUME NEW j \in 1 .. k
                   PROVE  /\ trc'[j].pos \in 1 .. Len(written[trc'[j].src])
                          /\ trc'[j].last = written[trc'[j].src][trc'[j].pos].ti
        BY <2>1 DEF Positions
      <3>1. CASE j = k
        <4>1. trc'[j] = d
          BY <2>1, <2>3, <3>1 DEF Typed, TypeOK
        <4>2. d.src = at /\ d.pos = 1 /\ d.last = t
          BY DEF NotInUse
        <4> QED
          BY <2>4, <4>1, <4>2
      <3>2. CASE j # k
        <4>1. j \in 1 .. numtrc
          BY <2>2, <3>2
        <4>2. trc'[j] = trc[j]
          BY <2>1, <3>2, <4>1, InUse DEF Typed, TypeOK
        <4> QED
          BY <4>1, <4>2 DEF Typed, Positions
      <3> QED
        BY <3>1, <3>2
    <2> HIDE DEF d, t, e
    <2>11. at' \in 1 .. argc' + 1 /\ numtrc' \in 0 .. argc' /\ numtrc' < at'
           /\ erec' \in 0 .. numtrc' /\ turn' \in 0 .. numtrc'
      <3>1. turn \in 0 .. numtrc
        BY DEF Typed, TypeOK
      <3> QED
        BY <2>1, <2>2, <3>1
    <2>12. /\ written' \in [Traces -> Seq(Records)] /\ edf' \in [Traces -> SUBSET Locals]
           /\ ended' \in [Traces -> BOOLEAN] /\ argc' \in Traces /\ adjust' \in BOOLEAN
           /\ phase' \in {"open", "merge", "done", "failed"} /\ first' \in 0 .. Word - 1
           /\ out' \in Seq([slot : Traces, gid : GlobalIds, ti : 0 .. Word - 1, over : Nat,
                            time : 0 .. Word - 1])
      BY <2>1 DEF Typed, TypeOK
    <2>13. Typed'
      BY <2>7, <2>9, <2>10, <2>11, <2>12 DEF Typed, TypeOK
    <2> QED
      BY <2>1, <2>14, <2>13 DEF OpenTrace
  <1> QED
    BY <1>1, <1>2

\* The descriptors that Output changes keep what Positions is about.
LEMMA OutputStep ==
    ASSUME Typed, NEW k \in Traces, Output(k)
    PROVE  /\ Typed'
           /\ Len(out') = Len(out) + 1
           /\ \A m \in 1 .. Len(out) : out'[m] = out[m]
           /\ LET r == out'[Len(out) + 1]
              IN /\ r.over = trc[k].over /\ r.time = trc[k].last
                 /\ ~adjust => r.ti = trc[k].ti
           /\ \A j \in Traces : /\ trc'[j].src = trc[j].src /\ trc'[j].open = trc[j].open
                                /\ trc'[j].pos = trc[j].pos /\ trc'[j].over = trc[j].over
                                /\ trc'[j].last = trc[j].last
                                /\ ~adjust => trc'[j].ti = trc[j].ti
           /\ k \in Active
           /\ UNCHANGED <<written, edf, ended, argc, adjust, phase, at, numtrc, erec>>
  <1> DEFINE Merges == [slot : Traces, gid : GlobalIds, ti : 0 .. Word - 1, over : Nat,
                        time : 0 .. Word - 1]
  <1>1. k \in Active /\ k \in 1 .. numtrc /\ (adjust => erec # 0)
    BY InUse DEF Output, IsSource, Typed
  <1>2. /\ FirstTime \in 0 .. Word - 1 /\ Adjusted \in [Traces -> Descriptors]
        /\ \A j \in Traces : /\ Adjusted[j].src = trc[j].src
                             /\ Adjusted[j].open = trc[j].open
                             /\ Adjusted[j].pos = trc[j].pos
                             /\ Adjusted[j].over = trc[j].over
                             /\ Adjusted[j].last = trc[j].last
        /\ ~adjust => Adjusted = trc
    BY <1>1, AdjustedProperties DEF Typed
  <1>3. PICK e \in EdfsReread(k) :
          LET known == ReadAgain(k, e)
              gid   == GID(known, Event(k))
          IN /\ table' = [table EXCEPT ![k] = [known EXCEPT ![Event(k)] = gid]]
             /\ trc' = [Adjusted EXCEPT ![k].gid = gid]
             /\ out' = Append(out, [slot |-> k, gid |-> gid, ti |-> Adjusted[k].ti,
                                    over |-> trc[k].over, time |-> trc[k].last])
    BY DEF Output
  <1>4. /\ first' = FirstTime /\ turn' = k
        /\ UNCHANGED <<written, edf, ended, argc, adjust, phase, at, numtrc, erec>>
    BY DEF Output, program
  <1>5. e \in Traces
    <2>1. 1 \in 1 .. numtrc \/ k # 1
      BY <1>1
    <2>2. k = 1 => trc[1].src \in Traces
      BY <1>1, InUse DEF Typed, Descriptors
    <2> QED
      BY <1>3, <2>2 DEF EdfsReread
  <1> DEFINE gid == GID(ReadAgain(k, e), Event(k))
             row == [ReadAgain(k, e) EXCEPT ![Event(k)] = gid]
             r   == [slot |-> k, gid |-> gid, ti |-> Adjusted[k].ti,
                     over |-> trc[k].over, time |-> trc[k].last]
  <1>6. gid \in GlobalIds /\ row \in [Locals -> GlobalIds]
    BY <1>1, <1>5, TableType
  <1>7. /\ table' = [table EXCEPT ![k] = row]
        /\ trc' = [Adjusted EXCEPT ![k] = [Adjusted[k] EXCEPT !.gid = gid]]
        /\ out' = Append(out, r)
    BY <1>3
  <1> HIDE DEF gid, row
  <1>8. r \in Merges
    <2>1. Adjusted[k] \in Descriptors /\ trc[k] \in Descriptors
      BY <1>2 DEF Typed, TypeOK
    <2> QED
      BY <1>6, <2>1 DEF Descriptors
  <1>9. out \in Seq(Merges)
    BY DEF Typed, TypeOK
  <1> HIDE DEF r, Merges
  <1>10. /\ out' \in Seq(Merges) /\ Len(out') = Len(out) + 1
         /\ \A m \in 1 .. Len(out) : out'[m] = out[m]
         /\ out'[Len(out) + 1] = r
    BY <1>7, <1>8, <1>9, AppendProperties
  <1>11. r.over = trc[k].over /\ r.time = trc[k].last /\ r.ti = Adjusted[k].ti
    BY DEF r
  <1>12. table' \in [Traces -> [Locals -> GlobalIds]]
    BY <1>6, <1>7 DEF Typed, TypeOK
  <1>13. [Adjusted[k] EXCEPT !.gid = gid] \in Descriptors
    BY <1>2, <1>6 DEF Descriptors
  <1>14. trc' \in [Traces -> Descriptors]
    BY <1>2, <1>7, <1>13
  <1>15. ASSUME NEW j \in Traces
         PROVE  /\ trc'[j].src = trc[j].src /\ trc'[j].open = trc[j].open
                /\ trc'[j].pos = trc[j].pos /\ trc'[j].over = trc[j].over
                /\ trc'[j].last = trc[j].last
                /\ trc'[j].ti = Adjusted[j].ti
    <2>1. CASE j = k
      <3>1. trc'[j] = [Adjusted[k] EXCEPT !.gid = gid]
        BY <1>2, <1>7, <2>1
      <3>2. Adjusted[k] \in Descriptors
        BY <1>2
      <3> QED
        BY <1>2, <2>1, <3>1, <3>2 DEF Descriptors
    <2>2. CASE j # k
      BY <1>2, <1>7, <2>2
    <2> QED
      BY <2>1, <2>2
  <1>16. Positions'
    BY <1>4, <1>15, PositionsStay
  <1>17. TypeOK'
    <2>1. first' \in 0 .. Word - 1 /\ turn' \in 0 .. numtrc' /\ erec' \in 0 .. numtrc'
      BY <1>1, <1>2, <1>4 DEF Typed, TypeOK
    <2>2. /\ written' \in [Traces -> Seq(Records)] /\ edf' \in [Traces -> SUBSET Locals]
          /\ ended' \in [Traces -> BOOLEAN] /\ argc' \in Traces /\ adjust' \in BOOLEAN
          /\ phase' \in {"open", "merge", "done", "failed"}
          /\ at' \in 1 .. argc' + 1 /\ numtrc' \in 0 .. argc' /\ numtrc' < at'
      BY <1>4 DEF Typed, TypeOK
    <2> QED
      BY <1>10, <1>12, <1>14, <2>1, <2>2 DEF TypeOK, Merges
  <1> QED
    BY <1>1, <1>2, <1>4, <1>7, <1>10, <1>11, <1>15, <1>16, <1>17 DEF Typed

\* The next record of a trace is later, or an overflow.
LEMMA NextRecStep ==
    ASSUME Typed, NEW k \in Traces, NextRec(k)
    PROVE  /\ Typed'
           /\ k \in Active
           /\ \A j \in Traces \ {k} : trc'[j] = trc[j]
           /\ trc'[k].open = trc[k].open /\ trc'[k].src = trc[k].src
           /\ trc'[k].ti = trc'[k].last
           /\ \/ trc'[k].over = trc[k].over /\ trc[k].last <= trc'[k].last
              \/ trc'[k].over = trc[k].over + 1 /\ ~InOrder(written[trc[k].src])
           /\ UNCHANGED <<written, edf, ended, argc, adjust, phase, at, numtrc, table, first, out>>
  <1> DEFINE w == written[trc[k].src]
             n == trc[k].pos + 1
             t == w[n].ti
             d == [trc[k] EXCEPT !.pos = n, !.over = Overflows(k, t), !.last = t, !.ti = t,
                                 !.gid = Missing]
  <1>1. k \in Active /\ k \in 1 .. numtrc /\ trc[k] \in Descriptors
    BY InUse DEF NextRec, Typed
  <1>2. /\ trc' = [trc EXCEPT ![k] = d] /\ erec' = k /\ turn' = 0
        /\ trc[k].pos < Len(w)
        /\ UNCHANGED <<written, edf, ended, argc, adjust, phase, at, numtrc, table, first, out>>
    <2>1. trc' = [trc EXCEPT ![k] = d]
      BY DEF NextRec
    <2> QED
      BY <2>1, Zenon DEF NextRec, program
  <1>3. w \in Seq(Records) /\ trc[k].src \in Traces
    BY <1>1 DEF Typed, TypeOK, Descriptors
  <1>4. trc[k].pos \in 1 .. Len(w) /\ trc[k].last = w[trc[k].pos].ti /\ Len(w) \in Nat
    BY <1>1, <1>3 DEF Typed, Positions
  <1>5. n \in 1 .. Len(w) /\ n \in Nat /\ trc[k].pos < n
    BY <1>2, <1>4
  <1>6. t \in 0 .. Word - 1 /\ Word \in Nat
    <2>1. w[n] \in Records
      BY <1>3, <1>5, ElementOfSeq
    <2> QED
      BY <2>1, MergeAssumption DEF Records
  <1>7. trc[k].over \in Nat /\ trc[k].last \in 0 .. Word - 1
    BY <1>1 DEF Descriptors
  <1>8. Overflows(k, t) \in Nat
    BY <1>7 DEF Overflows
  <1>9. \/ Overflows(k, t) = trc[k].over /\ trc[k].last <= t
        \/ Overflows(k, t) = trc[k].over + 1 /\ ~InOrder(w)
    <2>1. CASE t < trc[k].last
      <3>1. ~InOrder(w)
        <4> DEFINE i == trc[k].pos
        <4>1. /\ i \in 1 .. Len(w) /\ n \in 1 .. Len(w) /\ i < n
              /\ w[i].ti \in Int /\ w[n].ti \in Int /\ w[n].ti < w[i].ti
          <5>1. i \in 1 .. Len(w) /\ n \in 1 .. Len(w) /\ i < n
            BY <1>4, <1>5
          <5>2. w[i].ti = trc[k].last /\ w[n].ti = t
            BY <1>4
          <5>3. t \in Int /\ trc[k].last \in Int /\ t < trc[k].last
            BY <1>6, <1>7, <2>1
          <5> QED
            BY <5>1, <5>2, <5>3
        <4> HIDE DEF i, t
        <4> QED
          BY <4>1 DEF InOrder
      <3> QED
        BY <2>1, <3>1 DEF Overflows
    <2>2. CASE ~(t < trc[k].last)
      BY <1>6, <1>7, <2>2 DEF Overflows
    <2> QED
      BY <2>1, <2>2
  <1>10. d \in Descriptors
    BY <1>1, <1>5, <1>6, <1>8 DEF Descriptors, GlobalIds
  <1>11. /\ d.open = trc[k].open /\ d.src = trc[k].src /\ d.pos = n /\ d.last = t
         /\ d.ti = t /\ d.over = Overflows(k, t)
    BY <1>1 DEF Descriptors
  <1>12. trc' \in [Traces -> Descriptors] /\ trc'[k] = d /\ \A j \in Traces \ {k} : trc'[j] = trc[j]
    <2> HIDE DEF d
    <2> QED
      BY <1>2, <1>10 DEF Typed, TypeOK
  <1> HIDE DEF d
  <1>13. Positions'
    <2> SUFFICES ASSUME NEW j \in 1 .. numtrc
                 PROVE  /\ trc'[j].pos \in 1 .. Len(written[trc'[j].src])
                        /\ trc'[j].last = written[trc'[j].src][trc'[j].pos].ti
      BY <1>2 DEF Positions
    <2>1. CASE j = k
      BY <1>5, <1>11, <1>12, <2>1
    <2>2. CASE j # k
      BY <1>12, <2>2, InUse DEF Typed, Positions
    <2> QED
      BY <2>1, <2>2
  <1>14. TypeOK'
    <2>1. turn' \in 0 .. numtrc' /\ erec' \in 0 .. numtrc'
      BY <1>1, <1>2, InUse DEF Typed
    <2>2. /\ written' \in [Traces -> Seq(Records)] /\ edf' \in [Traces -> SUBSET Locals]
          /\ ended' \in [Traces -> BOOLEAN] /\ argc' \in Traces /\ adjust' \in BOOLEAN
          /\ phase' \in {"open", "merge", "done", "failed"}
          /\ at' \in 1 .. argc' + 1 /\ numtrc' \in 0 .. argc' /\ numtrc' < at'
          /\ first' \in 0 .. Word - 1 /\ table' \in [Traces -> [Locals -> GlobalIds]]
          /\ out' \in Seq([slot : Traces, gid : GlobalIds, ti : 0 .. Word - 1, over : Nat,
                           time : 0 .. Word - 1])
      BY <1>2 DEF Typed, TypeOK
    <2> QED
      BY <1>12, <2>1, <2>2 DEF TypeOK
  <1> QED
    BY <1>1, <1>2, <1>9, <1>11, <1>12, <1>13, <1>14 DEF Typed

\* A trace is closed.
LEMMA CloseStep ==
    ASSUME Typed, NEW k \in Traces, CloseTrace(k)
    PROVE  /\ Typed'
           /\ \A j \in Traces : /\ trc'[j].open => trc[j].open
                                /\ trc'[j].src = trc[j].src /\ trc'[j].over = trc[j].over
                                /\ trc'[j].last = trc[j].last /\ trc'[j].ti = trc[j].ti
           /\ UNCHANGED <<written, edf, ended, argc, adjust, at, numtrc, table, first, out>>
           /\ phase' # "open"
  <1> DEFINE d == [trc[k] EXCEPT !.open = FALSE]
  <1>1. trc[k] \in Descriptors
    BY DEF Typed, TypeOK
  <1>2. /\ trc' = [trc EXCEPT ![k] = d] /\ erec' = 0 /\ turn' = 0
        /\ phase' \in {"done", "merge"}
        /\ UNCHANGED <<written, edf, ended, argc, adjust, at, numtrc, table, first, out>>
    BY <1>1 DEF CloseTrace, program, Descriptors
  <1>3. /\ d \in Descriptors /\ ~d.open /\ d.src = trc[k].src /\ d.over = trc[k].over
        /\ d.last = trc[k].last /\ d.ti = trc[k].ti /\ d.pos = trc[k].pos
    BY <1>1 DEF Descriptors
  <1> HIDE DEF d
  <1>4. trc' \in [Traces -> Descriptors] /\ trc'[k] = d /\ \A j \in Traces \ {k} : trc'[j] = trc[j]
    BY <1>2, <1>3 DEF Typed, TypeOK
  <1>5. Positions'
    <2>1. ASSUME NEW j \in Traces
          PROVE  trc'[j].src = trc[j].src /\ trc'[j].pos = trc[j].pos /\ trc'[j].last = trc[j].last
      BY <1>3, <1>4
    <2> QED
      BY <1>2, <2>1, PositionsStay
  <1>6. TypeOK'
    <2>1. turn' \in 0 .. numtrc' /\ erec' \in 0 .. numtrc'
      BY <1>2, InUse DEF Typed
    <2>2. /\ written' \in [Traces -> Seq(Records)] /\ edf' \in [Traces -> SUBSET Locals]
          /\ ended' \in [Traces -> BOOLEAN] /\ argc' \in Traces /\ adjust' \in BOOLEAN
          /\ phase' \in {"open", "merge", "done", "failed"}
          /\ at' \in 1 .. argc' + 1 /\ numtrc' \in 0 .. argc' /\ numtrc' < at'
          /\ first' \in 0 .. Word - 1 /\ table' \in [Traces -> [Locals -> GlobalIds]]
          /\ out' \in Seq([slot : Traces, gid : GlobalIds, ti : 0 .. Word - 1, over : Nat,
                           time : 0 .. Word - 1])
      BY <1>2 DEF Typed, TypeOK
    <2> QED
      BY <1>4, <2>1, <2>2 DEF TypeOK
  <1>7. ASSUME NEW j \in Traces
        PROVE  /\ trc'[j].open => trc[j].open
               /\ trc'[j].src = trc[j].src /\ trc'[j].over = trc[j].over
               /\ trc'[j].last = trc[j].last /\ trc'[j].ti = trc[j].ti
    BY <1>3, <1>4
  <1> QED
    BY <1>2, <1>5, <1>6, <1>7 DEF Typed

LEMMA TypedInit == Init => Typed
  <1> SUFFICES ASSUME Init PROVE Typed
    OBVIOUS
  <1>1. /\ NumTraces \in Nat \ {0} /\ Word \in Nat \ {0} /\ 1 \in Traces
    BY MergeAssumption DEF Traces
  <1>2. NotInUse \in Descriptors
    BY <1>1 DEF NotInUse, Descriptors, GlobalIds
  <1>3. trc \in [Traces -> Descriptors] /\ table \in [Traces -> [Locals -> GlobalIds]]
    BY <1>2 DEF Init, GlobalIds
  <1>4. argc \in 1 .. NumTraces
    BY DEF Init, Traces
  <1>5. /\ at \in 1 .. argc + 1 /\ numtrc \in 0 .. argc /\ numtrc < at
        /\ erec \in 0 .. numtrc /\ turn \in 0 .. numtrc /\ first \in 0 .. Word - 1
    BY <1>1, <1>4 DEF Init
  <1>6. /\ written \in [Traces -> Seq(Records)] /\ edf \in [Traces -> SUBSET Locals]
        /\ ended \in [Traces -> BOOLEAN] /\ argc \in Traces /\ adjust \in BOOLEAN
        /\ phase \in {"open", "merge", "done", "failed"}
        /\ out \in Seq([slot : Traces, gid : GlobalIds, ti : 0 .. Word - 1, over : Nat,
                        time : 0 .. Word - 1])
    BY DEF Init
  <1>7. Positions
    BY DEF Init, Positions
  <1> QED
    BY <1>3, <1>5, <1>6, <1>7 DEF Typed, TypeOK

\* What the program adds to its files leaves the records that have been read.
LEMMA ProgramTyped ==
    ASSUME Typed, NEW i \in Traces, Flush(i) \/ Close(i)
    PROVE  Typed'
  <1>1. /\ written' \in [Traces -> Seq(Records)]
        /\ edf' \in [Traces -> SUBSET Locals]
        /\ ended' \in [Traces -> BOOLEAN]
        /\ \A j \in Traces : /\ Len(written[j]) <= Len(written'[j])
                             /\ \A m \in 1 .. Len(written[j]) : written'[j][m] = written[j][m]
        /\ UNCHANGED <<argc, adjust, phase, at, numtrc, trc, table, erec, first, turn, out>>
    BY ProgramStep DEF Typed
  <1>2. ASSUME NEW k \in 1 .. numtrc
        PROVE  /\ trc[k].pos \in 1 .. Len(written'[trc[k].src])
               /\ trc[k].last = written'[trc[k].src][trc[k].pos].ti
    <2>1. trc[k].src \in Traces
      BY InUse DEF Typed, Descriptors
    <2>2. /\ trc[k].pos \in 1 .. Len(written[trc[k].src])
          /\ trc[k].last = written[trc[k].src][trc[k].pos].ti
      BY DEF Typed, Positions
    <2>3. Len(written[trc[k].src]) \in Nat /\ Len(written'[trc[k].src]) \in Nat
      <3>1. written \in [Traces -> Seq(Records)]
        BY DEF Typed, TypeOK
      <3>2. written[trc[k].src] \in Seq(Records) /\ written'[trc[k].src] \in Seq(Records)
        BY <1>1, <2>1, <3>1
      <3> QED
        BY <3>2, LenProperties
    <2> DEFINE w == written[trc[k].src]
               v == written'[trc[k].src]
               m == trc[k].pos
    <2>4. Len(w) <= Len(v) /\ \A q \in 1 .. Len(w) : v[q] = w[q]
      BY <1>1, <2>1, Zenon
    <2>5. m \in 1 .. Len(w) /\ trc[k].last = w[m].ti /\ Len(w) \in Nat /\ Len(v) \in Nat
      BY <2>2, <2>3
    <2> HIDE DEF w, v, m
    <2>6. m \in 1 .. Len(v) /\ trc[k].last = v[m].ti
      BY <2>4, <2>5
    <2> QED
      BY <2>6 DEF v, m
  <1>3. Positions'
    BY <1>1, <1>2 DEF Positions
  <1> QED
    BY <1>1, <1>3 DEF Typed, TypeOK

\* The other steps of tau_merge change the phase only.
LEMMA PhaseStep ==
    ASSUME Typed, StartMerge \/ Fail
    PROVE  /\ Typed'
           /\ phase' # "open"
           /\ UNCHANGED <<written, edf, ended, argc, adjust, at, numtrc, trc, table, erec, first,
                          turn, out>>
  <1>1. /\ phase' \in {"merge", "failed"}
        /\ UNCHANGED <<written, edf, ended, argc, adjust, at, numtrc, trc, table, erec, first,
                       turn, out>>
    BY DEF StartMerge, Fail, program
  <1> QED
    BY <1>1 DEF Typed, TypeOK, Positions

LEMMA StutterStep ==
    ASSUME Typed, UNCHANGED vars
    PROVE  Typed'
  BY DEF vars, Typed, TypeOK, Positions

LEMMA TypedNext == Typed /\ [Next]_vars => Typed'
  <1> SUFFICES ASSUME Typed, [Next]_vars PROVE Typed'
    OBVIOUS
  <1>1. CASE OpenTrace
    BY <1>1, OpenStep
  <1>2. CASE StartMerge \/ Fail
    BY <1>2, PhaseStep
  <1>3. ASSUME NEW k \in Traces, Output(k) PROVE Typed'
    BY <1>3, OutputStep
  <1>4. ASSUME NEW k \in Traces, NextRec(k) PROVE Typed'
    BY <1>4, NextRecStep
  <1>5. ASSUME NEW k \in Traces, CloseTrace(k) PROVE Typed'
    BY <1>5, CloseStep
  <1>6. ASSUME NEW i \in Traces, Flush(i) \/ Close(i) PROVE Typed'
    BY <1>6, ProgramTyped
  <1>7. ASSUME NEW i \in Traces, Sleep(i) PROVE Typed'
    BY <1>7, StutterStep DEF Sleep
  <1>8. CASE Finished \/ UNCHANGED vars
    BY <1>8, StutterStep DEF Finished
  <1> QED
    BY <1>1, <1>2, <1>3, <1>4, <1>5, <1>6, <1>7, <1>8 DEF Next, Merge

\* The types are right, and the record a descriptor stands at exists.
THEOREM TypeCorrect == Spec => []TypeOK
  <1>1. Typed => TypeOK
    BY DEF Typed
  <1> QED
    BY <1>1, TypedInit, TypedNext, PTL DEF Spec

-----------------------------------------------------------------------------
(* Order.                                                                  *)

\* Nothing is merged before the traces are open.
Beginning == phase = "open" => out = <<>>

\* What has been merged is not after any record that is still to come.
Heads ==
    \A k \in Active : \A m \in 1 .. Len(out) :
        \/ out[m].over < trc[k].over
        \/ out[m].over = trc[k].over /\ out[m].time <= trc[k].last

Ordered == Typed /\ Beginning /\ Heads /\ MergedInOrder

\* What has been merged has numbers for its overflows and times.
LEMMA OutType ==
    ASSUME Typed
    PROVE  /\ Len(out) \in Nat
           /\ \A m \in 1 .. Len(out) : out[m].over \in Nat /\ out[m].time \in Nat
           /\ \A k \in Traces : trc[k].over \in Nat /\ trc[k].last \in Nat
  <1> DEFINE Merges == [slot : Traces, gid : GlobalIds, ti : 0 .. Word - 1, over : Nat,
                        time : 0 .. Word - 1]
  <1>1. out \in Seq(Merges) /\ trc \in [Traces -> Descriptors] /\ Word \in Nat
    BY MergeAssumption DEF Typed, TypeOK
  <1>2. ASSUME NEW m \in 1 .. Len(out)
        PROVE  out[m].over \in Nat /\ out[m].time \in Nat
    <2>1. out[m] \in Merges
      BY <1>1, ElementOfSeq
    <2> QED
      BY <1>1, <2>1
  <1>3. ASSUME NEW k \in Traces
        PROVE  trc[k].over \in Nat /\ trc[k].last \in Nat
    <2>1. trc[k] \in Descriptors
      BY <1>1
    <2> QED
      BY <1>1, <2>1 DEF Descriptors
  <1> QED
    BY <1>1, <1>2, <1>3

\* The order stays when the merged trace and what the traces are compared by
\* stay, and no trace is opened.
LEMMA OrderStays ==
    ASSUME Ordered, Typed', UNCHANGED <<out, numtrc>>, phase' = "open" => phase = "open",
           \A k \in Traces : /\ trc'[k].open => trc[k].open
                             /\ trc'[k].over = trc[k].over /\ trc'[k].last = trc[k].last
    PROVE  Ordered'
  <1>1. Active' \subseteq Active
    BY InUse DEF Active, Ordered, Typed
  <1>2. \A k \in Active' : k \in Traces
    BY <1>1, InUse DEF Ordered, Typed
  <1> QED
    BY <1>1, <1>2 DEF Ordered, Beginning, Heads, MergedInOrder

\* The source is not after any other trace.
LEMMA SourceIsLeast ==
    ASSUME Typed, NEW k \in Traces, IsSource(k), NEW j \in Active
    PROVE  \/ trc[k].over < trc[j].over
           \/ trc[k].over = trc[j].over /\ trc[k].last <= trc[j].last
  <1>1. /\ k \in Traces /\ j \in Traces
        /\ trc[k].over \in Nat /\ trc[k].last \in Nat
        /\ trc[j].over \in Nat /\ trc[j].last \in Nat
    BY InUse, OutType DEF Typed
  <1>2. CASE j = k
    BY <1>1, <1>2
  <1>3. CASE j # k
    BY <1>1, <1>3 DEF IsSource, Before
  <1> QED
    BY <1>2, <1>3

LEMMA OutputOrdered ==
    ASSUME Ordered, NEW k \in Traces, Output(k)
    PROVE  Ordered'
  <1> DEFINE r == out'[Len(out) + 1]
  <1>1. /\ Typed'
        /\ Len(out') = Len(out) + 1
        /\ \A m \in 1 .. Len(out) : out'[m] = out[m]
        /\ r.over = trc[k].over /\ r.time = trc[k].last
        /\ \A j \in Traces : /\ trc'[j].open = trc[j].open /\ trc'[j].over = trc[j].over
                             /\ trc'[j].last = trc[j].last
        /\ k \in Active
        /\ UNCHANGED <<phase, numtrc>>
    BY OutputStep DEF Ordered
  <1>2. IsSource(k) /\ phase = "merge"
    BY DEF Output
  <1>3. Active' = Active /\ \A j \in Active : j \in Traces
    BY <1>1, InUse DEF Active, Ordered, Typed
  <1>4. Len(out) \in Nat
    BY OutType DEF Ordered
  <1>5. ASSUME NEW m \in 1 .. Len(out')
        PROVE  \/ m \in 1 .. Len(out) /\ out'[m] = out[m]
               \/ m = Len(out) + 1 /\ out'[m] = r
    BY <1>1, <1>4
  <1> HIDE DEF r
  <1>6. Heads'
    <2> SUFFICES ASSUME NEW j \in Active, NEW m \in 1 .. Len(out')
                 PROVE  \/ out'[m].over < trc[j].over
                        \/ out'[m].over = trc[j].over /\ out'[m].time <= trc[j].last
      BY <1>1, <1>3 DEF Heads
    <2>1. CASE m \in 1 .. Len(out) /\ out'[m] = out[m]
      BY <2>1 DEF Ordered, Heads
    <2>2. CASE out'[m] = r
      BY <1>1, <1>2, <2>2, SourceIsLeast DEF Ordered
    <2> QED
      BY <1>5, <2>1, <2>2
  <1>7. MergedInOrder'
    <2> SUFFICES ASSUME NEW m \in 1 .. Len(out'), NEW n \in 1 .. Len(out'), m < n
                 PROVE  \/ out'[m].over < out'[n].over
                        \/ out'[m].over = out'[n].over /\ out'[m].time <= out'[n].time
      BY DEF MergedInOrder
    <2>1. m \in 1 .. Len(out) /\ out'[m] = out[m]
      BY <1>1, <1>4, <1>5
    <2>2. CASE n \in 1 .. Len(out) /\ out'[n] = out[n]
      BY <2>1, <2>2 DEF Ordered, MergedInOrder
    <2>3. CASE out'[n] = r
      BY <1>1, <2>1, <2>3 DEF Ordered, Heads
    <2> QED
      BY <1>5, <2>2, <2>3
  <1>8. Beginning'
    BY <1>1, <1>2 DEF Beginning
  <1> QED
    BY <1>1, <1>6, <1>7, <1>8 DEF Ordered

LEMMA NextRecOrdered ==
    ASSUME Ordered, NEW k \in Traces, NextRec(k)
    PROVE  Ordered'
  <1>1. /\ Typed'
        /\ k \in Active
        /\ \A j \in Traces \ {k} : trc'[j] = trc[j]
        /\ trc'[k].open = trc[k].open
        /\ \/ trc'[k].over = trc[k].over /\ trc[k].last <= trc'[k].last
           \/ trc'[k].over = trc[k].over + 1
        /\ UNCHANGED <<phase, numtrc, out>>
    BY NextRecStep DEF Ordered
  <1>2. Active' = Active /\ \A j \in Active : j \in Traces
    BY <1>1, InUse DEF Active, Ordered, Typed
  <1>3. /\ \A m \in 1 .. Len(out) : out[m].over \in Nat /\ out[m].time \in Nat
        /\ trc[k].over \in Nat /\ trc[k].last \in Nat /\ trc'[k].last \in Nat
    <2>1. trc'[k].last \in Nat
      <3>1. trc'[k] \in Descriptors /\ Word \in Nat
        BY <1>1, MergeAssumption DEF Typed, TypeOK
      <3> QED
        BY <3>1 DEF Descriptors
    <2> QED
      BY <2>1, OutType DEF Ordered
  <1>4. Heads'
    <2> SUFFICES ASSUME NEW j \in Active, NEW m \in 1 .. Len(out)
                 PROVE  \/ out[m].over < trc'[j].over
                        \/ out[m].over = trc'[j].over /\ out[m].time <= trc'[j].last
      BY <1>1, <1>2 DEF Heads
    <2>1. \/ out[m].over < trc[j].over
          \/ out[m].over = trc[j].over /\ out[m].time <= trc[j].last
      BY DEF Ordered, Heads
    <2>2. CASE j = k
      BY <1>1, <1>3, <2>1, <2>2
    <2>3. CASE j # k
      BY <1>1, <1>2, <2>1, <2>3
    <2> QED
      BY <2>2, <2>3
  <1>5. Beginning' /\ MergedInOrder'
    BY <1>1 DEF Ordered, Beginning, MergedInOrder
  <1> QED
    BY <1>1, <1>4, <1>5 DEF Ordered

LEMMA OrderedInit == Init => Ordered
  <1> SUFFICES ASSUME Init PROVE Ordered
    OBVIOUS
  <1>1. Typed
    BY TypedInit
  <1>2. out = <<>> /\ Len(out) = 0
    BY DEF Init
  <1> QED
    BY <1>1, <1>2 DEF Ordered, Beginning, Heads, MergedInOrder

LEMMA OrderedNext == Ordered /\ [Next]_vars => Ordered'
  <1> SUFFICES ASSUME Ordered, [Next]_vars PROVE Ordered'
    OBVIOUS
  <1>1. Typed'
    BY TypedNext DEF Ordered
  <1>2. CASE OpenTrace
    <2>1. phase = "open" /\ UNCHANGED <<phase, out>>
      BY <1>2, OpenStep DEF Ordered
    <2>2. out' = <<>> /\ Len(out') = 0
      BY <2>1 DEF Ordered, Beginning
    <2> QED
      BY <1>1, <2>2 DEF Ordered, Beginning, Heads, MergedInOrder
  <1>3. CASE StartMerge \/ Fail
    BY <1>1, <1>3, PhaseStep, OrderStays DEF Ordered
  <1>4. ASSUME NEW k \in Traces, Output(k) PROVE Ordered'
    BY <1>4, OutputOrdered
  <1>5. ASSUME NEW k \in Traces, NextRec(k) PROVE Ordered'
    BY <1>5, NextRecOrdered
  <1>6. ASSUME NEW k \in Traces, CloseTrace(k) PROVE Ordered'
    BY <1>1, <1>6, CloseStep, OrderStays DEF Ordered
  <1>7. ASSUME NEW i \in Traces, Flush(i) \/ Close(i) PROVE Ordered'
    BY <1>1, <1>7, ProgramStep, OrderStays DEF Ordered, Typed
  <1>8. CASE UNCHANGED vars
    BY <1>1, <1>8, OrderStays DEF vars
  <1>9. ASSUME NEW i \in Traces, Sleep(i) PROVE Ordered'
    BY <1>8, <1>9 DEF Sleep
  <1>10. CASE Finished
    BY <1>8, <1>10 DEF Finished
  <1> QED
    BY <1>2, <1>3, <1>4, <1>5, <1>6, <1>7, <1>8, <1>9, <1>10 DEF Next, Merge

\* The merged trace is in the order of overflows, then times, for any number
\* of traces, any records and any interleaving with the program's writes.
THEOREM SortedByOverflow == Spec => []MergedInOrder
  <1>1. Ordered => MergedInOrder
    BY DEF Ordered
  <1> QED
    BY <1>1, OrderedInit, OrderedNext, PTL DEF Spec

-----------------------------------------------------------------------------
(* Order of times.                                                         *)

\* Without -a the time that is written is the one the traces are compared by.
Unadjusted ==
    ~adjust => /\ \A k \in 1 .. numtrc : trc[k].ti = trc[k].last
               /\ \A m \in 1 .. Len(out) : out[m].ti = out[m].time

\* An overflow is in some file.
Wrapped ==
    (\A i \in Traces : InOrder(written[i])) =>
        /\ \A k \in 1 .. numtrc : trc[k].over = 0
        /\ \A m \in 1 .. Len(out) : out[m].over = 0

Timed == Ordered /\ Unadjusted /\ Wrapped

\* A file that is in order was so before a thread added to it.
LEMMA InOrderBefore ==
    ASSUME Typed, NEW i \in Traces, Flush(i) \/ Close(i), NEW j \in Traces,
           InOrder(written'[j])
    PROVE  InOrder(written[j])
  <1>1. /\ written' \in [Traces -> Seq(Records)]
        /\ Len(written[j]) <= Len(written'[j])
        /\ \A m \in 1 .. Len(written[j]) : written'[j][m] = written[j][m]
    BY ProgramStep DEF Typed
  <1>2. Len(written[j]) \in Nat /\ Len(written'[j]) \in Nat
    BY <1>1 DEF Typed, TypeOK
  <1>3. \A m \in 1 .. Len(written[j]) : m \in 1 .. Len(written'[j])
    BY <1>1, <1>2
  <1> QED
    BY <1>1, <1>3 DEF InOrder

\* A step of the merge that keeps descriptors and merged trace keeps both.
LEMMA TimesStay ==
    ASSUME Typed, Unadjusted, Wrapped, UNCHANGED <<written, adjust, numtrc, out>>,
           \A k \in Traces : trc'[k].over = trc[k].over
                             /\ trc'[k].last = trc[k].last /\ trc'[k].ti = trc[k].ti
    PROVE  Unadjusted' /\ Wrapped'
  BY InUse DEF Typed, Unadjusted, Wrapped

LEMMA OutputTimes ==
    ASSUME Typed, Unadjusted, Wrapped, NEW k \in Traces, Output(k)
    PROVE  Unadjusted' /\ Wrapped'
  <1> DEFINE r == out'[Len(out) + 1]
  <1>1. /\ Len(out') = Len(out) + 1
        /\ \A m \in 1 .. Len(out) : out'[m] = out[m]
        /\ r.over = trc[k].over /\ r.time = trc[k].last
        /\ ~adjust => r.ti = trc[k].ti
        /\ \A j \in Traces : /\ trc'[j].over = trc[j].over /\ trc'[j].last = trc[j].last
                             /\ ~adjust => trc'[j].ti = trc[j].ti
        /\ k \in Active
        /\ UNCHANGED <<written, adjust, numtrc>>
    BY OutputStep
  <1>2. k \in 1 .. numtrc /\ \A j \in 1 .. numtrc : j \in Traces
    BY <1>1, InUse DEF Typed
  <1>3. Len(out) \in Nat
    BY OutType
  <1>4. ASSUME NEW m \in 1 .. Len(out')
        PROVE  \/ m \in 1 .. Len(out) /\ out'[m] = out[m]
               \/ m = Len(out) + 1 /\ out'[m] = r
    BY <1>1, <1>3
  <1> HIDE DEF r
  <1>5. Unadjusted'
    BY <1>1, <1>2, <1>4 DEF Unadjusted
  <1>6. Wrapped'
    BY <1>1, <1>2, <1>4 DEF Wrapped
  <1> QED
    BY <1>5, <1>6

LEMMA NextRecTimes ==
    ASSUME Typed, Unadjusted, Wrapped, NEW k \in Traces, NextRec(k)
    PROVE  Unadjusted' /\ Wrapped'
  <1>1. /\ k \in Active
        /\ \A j \in Traces \ {k} : trc'[j] = trc[j]
        /\ trc'[k].ti = trc'[k].last
        /\ \/ trc'[k].over = trc[k].over
           \/ ~InOrder(written[trc[k].src])
        /\ UNCHANGED <<written, adjust, numtrc, out>>
    BY NextRecStep
  <1>2. /\ k \in 1 .. numtrc /\ trc[k].src \in Traces
        /\ \A j \in 1 .. numtrc : j \in Traces
    BY <1>1, InUse DEF Typed, Descriptors
  <1>3. Unadjusted'
    BY <1>1, <1>2 DEF Unadjusted
  <1>4. Wrapped'
    BY <1>1, <1>2 DEF Wrapped
  <1> QED
    BY <1>3, <1>4

LEMMA TimedNext == Timed /\ [Next]_vars => Timed'
  <1> SUFFICES ASSUME Timed, [Next]_vars PROVE Unadjusted' /\ Wrapped'
    BY OrderedNext DEF Timed
  <1> USE DEF Timed, Ordered
  <1>1. CASE OpenTrace
    <2>1. /\ phase = "open"
          /\ \A j \in 1 .. numtrc' : \/ (j \in 1 .. numtrc /\ trc'[j] = trc[j])
                                     \/ (trc'[j].over = 0 /\ trc'[j].ti = trc'[j].last)
          /\ UNCHANGED <<written, adjust, out>>
      BY <1>1, OpenStep
    <2> QED
      BY <2>1 DEF Unadjusted, Wrapped
  <1>2. CASE StartMerge \/ Fail
    BY <1>2, PhaseStep, TimesStay
  <1>3. ASSUME NEW k \in Traces, Output(k) PROVE Unadjusted' /\ Wrapped'
    BY <1>3, OutputTimes
  <1>4. ASSUME NEW k \in Traces, NextRec(k) PROVE Unadjusted' /\ Wrapped'
    BY <1>4, NextRecTimes
  <1>5. ASSUME NEW k \in Traces, CloseTrace(k) PROVE Unadjusted' /\ Wrapped'
    BY <1>5, CloseStep, TimesStay
  <1>6. ASSUME NEW i \in Traces, Flush(i) \/ Close(i) PROVE Unadjusted' /\ Wrapped'
    <2>1. UNCHANGED <<adjust, numtrc, trc, out>>
      BY <1>6, ProgramStep DEF Typed
    <2>2. \A j \in Traces : InOrder(written'[j]) => InOrder(written[j])
      BY <1>6, InOrderBefore
    <2> QED
      BY <2>1, <2>2 DEF Unadjusted, Wrapped
  <1>7. CASE UNCHANGED vars
    BY <1>7, TimesStay DEF vars
  <1>8. ASSUME NEW i \in Traces, Sleep(i) PROVE Unadjusted' /\ Wrapped'
    BY <1>7, <1>8 DEF Sleep
  <1>9. CASE Finished
    BY <1>7, <1>9 DEF Finished
  <1> QED
    BY <1>1, <1>2, <1>3, <1>4, <1>5, <1>6, <1>7, <1>8, <1>9 DEF Next, Merge

\* When each file is in time order the merged trace is, however the program's
\* writes and the merge's reads interleave.
THEOREM SortedByTime == Spec => []TimeSorted
  <1>1. Init => Timed
    <2> SUFFICES ASSUME Init PROVE Unadjusted /\ Wrapped
      BY OrderedInit DEF Timed
    <2>1. numtrc = 0 /\ Len(out) = 0
      BY DEF Init
    <2> QED
      BY <2>1 DEF Unadjusted, Wrapped
  <1>2. Timed => TimeSorted
    <2> SUFFICES ASSUME Timed, ~adjust, \A i \in Traces : InOrder(written[i]),
                        NEW m \in 1 .. Len(out), NEW n \in 1 .. Len(out), m < n
                 PROVE  out[m].ti <= out[n].ti
      BY DEF TimeSorted, InOrder
    <2>1. out[m].over = 0 /\ out[n].over = 0
      BY DEF Timed, Wrapped
    <2>2. out[m].ti = out[m].time /\ out[n].ti = out[n].time
      BY DEF Timed, Unadjusted
    <2>3. \/ out[m].over < out[n].over
          \/ out[m].over = out[n].over /\ out[m].time <= out[n].time
      BY DEF Timed, Ordered, MergedInOrder
    <2> QED
      BY <2>1, <2>2, <2>3
  <1> QED
    BY <1>1, <1>2, TimedNext, PTL DEF Spec

-----------------------------------------------------------------------------
(* Adjusted times.                                                         *)

\* The time of a record as -a writes it.
Shifted(n) == (written[1][n].ti - written[1][1].ti) % Word

\* The only trace is read record by record, the record it stands at has its own
\* time until it is written, and that of the first is kept.
ReadInTurn ==
    /\ \A k \in 1 .. numtrc :
          /\ k = 1 /\ trc[k].src = 1
          /\ trc[k].open /\ turn = 0 =>
                trc[k].pos = Len(out) + 1 /\ trc[k].ti = trc[k].last
          /\ trc[k].open /\ turn # 0 => trc[k].pos = Len(out)
    /\ erec # 0 => erec = 1
    /\ Len(out) <= Len(written[1])
    /\ Len(out) > 0 => first = written[1][1].ti
    /\ \A n \in 1 .. Len(out) : out[n].ti = Shifted(n)

Adjusting == Typed /\ Beginning /\ (adjust /\ argc = 1 => ReadInTurn)

\* What a record is written with.
LEMMA OutputWrites ==
    ASSUME Typed, NEW k \in Traces, Output(k)
    PROVE  out'[Len(out) + 1].ti = Adjusted[k].ti
  <1>1. PICK r : out' = Append(out, r) /\ r.ti = Adjusted[k].ti
    <2>1. PICK gid : out' = Append(out, [slot |-> k, gid |-> gid, ti |-> Adjusted[k].ti,
                                         over |-> trc[k].over, time |-> trc[k].last])
      BY DEF Output
    <2> QED
      BY <2>1
  <1>2. Len(out) \in Nat
    BY OutType
  <1> QED
    BY <1>1, <1>2 DEF Typed, TypeOK

LEMMA AdjustedOutput ==
    ASSUME Typed, ReadInTurn, adjust, NEW k \in Traces, Output(k)
    PROVE  ReadInTurn'
  <1>1. /\ Typed' /\ Len(out') = Len(out) + 1
        /\ \A m \in 1 .. Len(out) : out'[m] = out[m]
        /\ \A j \in Traces : /\ trc'[j].src = trc[j].src /\ trc'[j].open = trc[j].open
                             /\ trc'[j].pos = trc[j].pos
        /\ k \in Active
        /\ UNCHANGED <<written, numtrc, erec>>
    BY OutputStep
  <1>2. k = 1 /\ k \in 1 .. numtrc /\ trc[1].open /\ erec = 1 /\ turn = 0
    BY <1>1, InUse DEF Typed, Active, ReadInTurn, Output
  <1>3. /\ trc[1].pos = Len(out) + 1 /\ trc[1].ti = trc[1].last /\ trc[1].src = 1
        /\ Len(out) \in Nat
    BY <1>2, OutType DEF ReadInTurn
  <1>4. /\ Len(out) + 1 \in 1 .. Len(written[1])
        /\ trc[1].ti = written[1][Len(out) + 1].ti
    BY <1>2, <1>3 DEF Typed, Positions
  <1>5. FirstTime = written[1][1].ti
    <2>1. CASE out = <<>>
      BY <1>2, <1>3, <1>4, <2>1 DEF FirstTime
    <2>2. CASE out # <<>>
      <3>1. Len(out) > 0
        BY <1>3, <2>2, EmptySeq DEF Typed, TypeOK
      <3> QED
        BY <2>2, <3>1 DEF FirstTime, ReadInTurn
    <2> QED
      BY <2>1, <2>2
  <1>6. Adjusted[1].ti = Shifted(Len(out) + 1)
    <2>1. trc \in [Traces -> Descriptors] /\ trc[1] \in Descriptors
      BY <1>2 DEF Typed, TypeOK
    <2>2. Adjusted = [trc EXCEPT ![1] = [trc[1] EXCEPT !.ti = (trc[1].ti - FirstTime) % Word]]
      BY <1>2 DEF Adjusted
    <2>3. Adjusted[1].ti = (trc[1].ti - FirstTime) % Word
      BY <1>2, <2>1, <2>2 DEF Descriptors
    <2> QED
      BY <1>4, <1>5, <2>3 DEF Shifted
  <1>7. out'[Len(out) + 1].ti = Adjusted[1].ti
    BY <1>2, OutputWrites
  <1>8. turn' = 1 /\ first' = FirstTime
    BY <1>2 DEF Output
  <1>9. ASSUME NEW n \in 1 .. Len(out') PROVE out'[n].ti = Shifted(n)
    BY <1>1, <1>3, <1>6, <1>7 DEF ReadInTurn
  <1>10. ASSUME NEW j \in 1 .. numtrc
         PROVE  j = 1 /\ trc'[j].src = 1 /\ trc'[j].pos = Len(out')
    BY <1>1, <1>2, <1>3 DEF ReadInTurn
  <1>11. \A n \in 1 .. Len(out') : out'[n].ti = Shifted(n)'
    BY <1>1, <1>9 DEF Shifted
  <1>12. first' = written'[1][1].ti /\ Len(out') <= Len(written'[1])
    BY <1>1, <1>4, <1>5, <1>8
  <1> QED
    BY <1>1, <1>2, <1>8, <1>10, <1>11, <1>12 DEF ReadInTurn

LEMMA AdjustedProgram ==
    ASSUME Typed, ReadInTurn, NEW i \in Traces, Flush(i) \/ Close(i)
    PROVE  ReadInTurn'
  <1>1. 1 \in Traces
    BY MergeAssumption DEF Traces
  <1>2. /\ written' \in [Traces -> Seq(Records)]
        /\ Len(written[1]) <= Len(written'[1])
        /\ \A m \in 1 .. Len(written[1]) : written'[1][m] = written[1][m]
        /\ UNCHANGED <<numtrc, trc, erec, first, turn, out>>
    BY <1>1, ProgramStep DEF Typed
  <1>3. Len(written[1]) \in Nat /\ Len(written'[1]) \in Nat /\ Len(out) \in Nat
    BY <1>1, <1>2, OutType DEF Typed, TypeOK
  <1>4. Len(out) > 0 => written'[1][1] = written[1][1]
    BY <1>2, <1>3 DEF ReadInTurn
  <1>5. ASSUME NEW n \in 1 .. Len(out)
        PROVE  Shifted(n)' = Shifted(n)
    <2>1. n \in 1 .. Len(written[1]) /\ Len(out) > 0
      BY <1>3 DEF ReadInTurn
    <2> QED
      BY <1>2, <1>4, <2>1 DEF Shifted
  <1>6. Len(out) <= Len(written'[1])
    BY <1>2, <1>3 DEF ReadInTurn
  <1> QED
    BY <1>2, <1>4, <1>5, <1>6 DEF ReadInTurn

LEMMA AdjustedNextRec ==
    ASSUME Typed, ReadInTurn, NEW k \in Traces, NextRec(k)
    PROVE  ReadInTurn'
  <1>1. /\ k \in Active
        /\ \A j \in Traces \ {k} : trc'[j] = trc[j]
        /\ trc'[k].open = trc[k].open /\ trc'[k].src = trc[k].src
        /\ trc'[k].ti = trc'[k].last
        /\ UNCHANGED <<written, numtrc, first, out>>
    BY NextRecStep
  <1>2. k \in 1 .. numtrc /\ k = 1 /\ trc[k].open /\ turn = k
    BY <1>1, InUse DEF Typed, Active, ReadInTurn, NextRec
  <1>3. trc[k].pos = Len(out)
    BY <1>2 DEF ReadInTurn
  <1>4. trc'[k].pos = trc[k].pos + 1
    <2>1. trc[k] \in Descriptors /\ trc \in [Traces -> Descriptors]
      BY DEF Typed, TypeOK
    <2> DEFINE t == written[trc[k].src][trc[k].pos + 1].ti
               d == [trc[k] EXCEPT !.pos = trc[k].pos + 1, !.over = Overflows(k, t),
                                   !.last = t, !.ti = t, !.gid = Missing]
    <2>2. trc' = [trc EXCEPT ![k] = d]
      BY DEF NextRec
    <2>3. d.pos = trc[k].pos + 1
      BY <2>1 DEF Descriptors
    <2> HIDE DEF d
    <2> QED
      BY <2>1, <2>2, <2>3
  <1>5. erec' = 1 /\ turn' = 0
    BY <1>2 DEF NextRec
  <1>6. \A j \in 1 .. numtrc : j = k
    BY <1>2 DEF ReadInTurn
  <1> QED
    BY <1>1, <1>2, <1>3, <1>4, <1>5, <1>6 DEF ReadInTurn, Shifted

LEMMA AdjustedClose ==
    ASSUME Typed, ReadInTurn, NEW k \in Traces, CloseTrace(k)
    PROVE  ReadInTurn'
  <1>1. /\ \A j \in Traces : /\ trc'[j].open => trc[j].open
                             /\ trc'[j].src = trc[j].src
        /\ UNCHANGED <<written, numtrc, first, out>>
    BY CloseStep
  <1>2. k \in 1 .. numtrc /\ k = 1
    BY InUse DEF Typed, Active, ReadInTurn, CloseTrace
  <1>3. ~trc'[k].open
    BY DEF CloseTrace, Typed, TypeOK, Descriptors
  <1>4. \A j \in 1 .. numtrc : j = k
    BY <1>2 DEF ReadInTurn
  <1>5. erec' = 0
    BY DEF CloseTrace
  <1> QED
    BY <1>1, <1>2, <1>3, <1>4, <1>5 DEF ReadInTurn, Shifted

LEMMA AdjustedOpen ==
    ASSUME Typed, Beginning, ReadInTurn, argc = 1, OpenTrace
    PROVE  ReadInTurn'
  <1>1. /\ phase = "open" /\ UNCHANGED <<written, first, turn, out>>
    BY OpenStep
  <1>2. out = <<>> /\ Len(out) = 0
    BY <1>1 DEF Beginning
  <1>3. at = 1 /\ numtrc = 0 /\ turn = 0
    BY DEF OpenTrace, Typed, TypeOK
  <1>4. Len(written[1]) \in Nat
    <2>1. 1 \in Traces
      BY MergeAssumption DEF Traces
    <2> QED
      BY <2>1 DEF Typed, TypeOK
  <1>5. \/ numtrc' = 0 /\ erec' = 0
        \/ /\ numtrc' = 1 /\ erec' = 1
           /\ trc'[1].src = 1 /\ trc'[1].pos = 1 /\ trc'[1].ti = trc'[1].last
    <2>1. CASE written[at] = <<>>
      BY <1>3, <2>1 DEF OpenTrace
    <2>2. CASE written[at] # <<>>
      <3> DEFINE t == written[1][1].ti
                 d == [NotInUse EXCEPT !.src = 1, !.open = TRUE, !.pos = 1, !.last = t,
                                       !.ti = t]
      <3>1. trc' = [trc EXCEPT ![1] = d] /\ numtrc' = 1 /\ erec' = 1
        BY <1>3, <2>2 DEF OpenTrace
      <3>2. d.src = 1 /\ d.pos = 1 /\ d.ti = d.last
        BY DEF NotInUse
      <3> HIDE DEF d
      <3>3. trc'[1] = d
        BY <3>1, MergeAssumption DEF Typed, TypeOK, Traces
      <3> QED
        BY <3>1, <3>2, <3>3
    <2> QED
      BY <2>1, <2>2
  <1> QED
    BY <1>1, <1>2, <1>3, <1>4, <1>5 DEF ReadInTurn

LEMMA AdjustingNext == Adjusting /\ [Next]_vars => Adjusting'
  <1> SUFFICES ASSUME Adjusting, [Next]_vars PROVE Adjusting'
    OBVIOUS
  <1>1. Typed' /\ Typed /\ Beginning
    BY TypedNext DEF Adjusting
  <1>2. ASSUME Beginning', UNCHANGED <<adjust, argc>>,
               ReadInTurn /\ adjust /\ argc = 1 => ReadInTurn'
        PROVE  Adjusting'
    BY <1>1, <1>2 DEF Adjusting
  <1>3. CASE OpenTrace
    <2>1. UNCHANGED <<adjust, argc, out>> /\ out = <<>>
      BY <1>1, <1>3, OpenStep DEF Beginning
    <2> QED
      BY <1>1, <1>2, <1>3, <2>1, AdjustedOpen DEF Beginning
  <1>4. CASE StartMerge \/ Fail
    <2>1. /\ phase' # "open"
          /\ UNCHANGED <<written, adjust, argc, numtrc, trc, erec, first, turn, out>>
      BY <1>1, <1>4, PhaseStep
    <2> QED
      BY <1>2, <2>1 DEF Beginning, ReadInTurn, Shifted
  <1>5. ASSUME NEW k \in Traces, Output(k) PROVE Adjusting'
    <2>1. phase' # "open" /\ UNCHANGED <<adjust, argc>>
      BY <1>5 DEF Output
    <2> QED
      BY <1>1, <1>2, <1>5, <2>1, AdjustedOutput DEF Beginning
  <1>6. ASSUME NEW k \in Traces, NextRec(k) PROVE Adjusting'
    <2>1. phase' # "open" /\ UNCHANGED <<adjust, argc>>
      BY <1>6 DEF NextRec
    <2> QED
      BY <1>1, <1>2, <1>6, <2>1, AdjustedNextRec DEF Beginning
  <1>7. ASSUME NEW k \in Traces, CloseTrace(k) PROVE Adjusting'
    <2>1. phase' # "open" /\ UNCHANGED <<adjust, argc>>
      BY <1>7 DEF CloseTrace
    <2> QED
      BY <1>1, <1>2, <1>7, <2>1, AdjustedClose DEF Beginning
  <1>8. ASSUME NEW i \in Traces, Flush(i) \/ Close(i) PROVE Adjusting'
    <2>1. UNCHANGED <<adjust, argc, phase, out>>
      BY <1>1, <1>8, ProgramStep DEF Typed
    <2> QED
      BY <1>1, <1>2, <1>8, <2>1, AdjustedProgram DEF Beginning
  <1>9. CASE UNCHANGED vars
    BY <1>1, <1>2, <1>9 DEF vars, Beginning, ReadInTurn, Shifted
  <1>10. ASSUME NEW i \in Traces, Sleep(i) PROVE Adjusting'
    BY <1>9, <1>10 DEF Sleep
  <1>11. CASE Finished
    BY <1>9, <1>11 DEF Finished
  <1> QED
    BY <1>3, <1>4, <1>5, <1>6, <1>7, <1>8, <1>9, <1>10, <1>11 DEF Next, Merge

\* With -a and one trace the first record is written with time zero and every
\* other with its distance from the first, while the trace still grows.
THEOREM AdjustedFromZero == Spec => []AdjustedToZero
  <1>1. Init => Adjusting
    <2> SUFFICES ASSUME Init PROVE Beginning /\ ReadInTurn
      BY TypedInit DEF Adjusting
    <2>1. numtrc = 0 /\ erec = 0 /\ out = <<>> /\ Len(out) = 0
      BY DEF Init
    <2>2. Len(written[1]) = 0
      BY MergeAssumption DEF Init, Traces
    <2> QED
      BY <2>1, <2>2 DEF Beginning, ReadInTurn
  <1>2. Adjusting => AdjustedToZero
    BY DEF Adjusting, AdjustedToZero, ReadInTurn, Shifted
  <1> QED
    BY <1>1, <1>2, AdjustingNext, PTL DEF Spec

-----------------------------------------------------------------------------
(* All records, under their names.                                         *)

\* The traces have all begun when they are opened; while they are written the
\* merge waits for their ends, the EDF files are named, and no thread goes on
\* after it has closed its trace.
Orderly ==
    /\ "empty" \notin Situations
    /\ "online" \in Situations => Blocking /\ EdfGiven /\ "reopened" \notin Situations

\* The count of a descriptor's records is a number...
LEMMA NthType ==
    ASSUME NEW s, NEW k, NEW m \in Nat
    PROVE  /\ IsFiniteSet({j \in 1 .. m : s[j].slot = k})
           /\ Nth(s, k, m) \in Nat
  <1> DEFINE S == {j \in 1 .. m : s[j].slot = k}
  <1>1. IsFiniteSet(1 .. m)
    BY FS_Interval
  <1>2. S \in SUBSET (1 .. m)
    OBVIOUS
  <1> HIDE DEF S
  <1>3. IsFiniteSet(S)
    BY <1>1, <1>2, FS_Subset
  <1>4. Cardinality(S) \in Nat
    BY <1>3, FS_CardinalityType
  <1> QED
    BY <1>3, <1>4 DEF Nth, S

\* ... that depends on the first records only...
LEMMA NthSame ==
    ASSUME NEW s, NEW r, NEW k, NEW m \in Nat, \A j \in 1 .. m : r[j].slot = s[j].slot
    PROVE  Nth(r, k, m) = Nth(s, k, m)
  <1>1. {j \in 1 .. m : r[j].slot = k} = {j \in 1 .. m : s[j].slot = k}
    OBVIOUS
  <1> QED
    BY <1>1 DEF Nth

\* ... grows by one with a record of that descriptor...
LEMMA NthNext ==
    ASSUME NEW s, NEW k, NEW m \in Nat
    PROVE  Nth(s, k, m + 1) = Nth(s, k, m) + (IF s[m + 1].slot = k THEN 1 ELSE 0)
  <1> DEFINE S == {j \in 1 .. m : s[j].slot = k}
             T == {j \in 1 .. m + 1 : s[j].slot = k}
  <1>1. IsFiniteSet(S)
    BY NthType
  <1>2. Nth(s, k, m) = Cardinality(S) /\ Nth(s, k, m + 1) = Cardinality(T) /\ Nth(s, k, m) \in Nat
    BY NthType DEF Nth
  <1>3. T = IF s[m + 1].slot = k THEN S \cup {m + 1} ELSE S
    <2>1. \A j : j \in 1 .. m + 1 <=> j \in 1 .. m \/ j = m + 1
      OBVIOUS
    <2> QED
      BY <2>1
  <1>4. m + 1 \notin S
    OBVIOUS
  <1> HIDE DEF S, T
  <1>5. Cardinality(S \cup {m + 1}) = Cardinality(S) + 1
    BY <1>1, <1>4, FS_AddElement
  <1> QED
    BY <1>2, <1>3, <1>5

\* ... and is zero at the beginning.
LEMMA NthNone ==
    ASSUME NEW s, NEW k
    PROVE  Nth(s, k, 0) = 0
  <1>1. {j \in 1 .. 0 : s[j].slot = k} = {}
    OBVIOUS
  <1> QED
    BY <1>1, FS_EmptySet DEF Nth

\* Every trace gets the descriptor of its own number.
Opened ==
    /\ phase = "open" => numtrc = at - 1 /\ out = <<>> /\ turn = 0
    /\ phase # "open" => numtrc = argc
    /\ \A k \in 1 .. numtrc : trc[k].src = k
    /\ numtrc > 0 => \A i \in 1 .. argc : /\ written[i] # <<>>
                                          /\ "online" \notin Situations => ended[i]

\* What is written is defined, and a closed trace has ended.
Defined ==
    \A i \in Traces :
       /\ \A n \in 1 .. Len(written[i]) : written[i][n].ev \in edf[i]
       /\ "reopened" \notin Situations /\ written[i] # <<>> /\ ClosesTrace(i, written[i])
             => ended[i]

\* A table has the names of its own trace.
Tables ==
    /\ \A k \in Traces, l \in Locals : table[k][l] \in {Missing, NameOf[k][l]}
    /\ "online" \notin Situations =>
          \A k \in 1 .. numtrc : \A l \in edf[k] : table[k][l] = NameOf[k][l]

\* How many records of descriptor k have been merged.
Taken(k) == IF trc[k].open /\ turn # k THEN trc[k].pos - 1 ELSE trc[k].pos

\* A trace is merged up to the record it stands at, whose name is known when it
\* has been written; a trace is closed at its end.
Reading ==
    \A k \in 1 .. numtrc :
       /\ Nth(out, k, Len(out)) = Taken(k)
       /\ turn = k => trc[k].open /\ trc[k].gid = NameOf[k][Event(k)]
       /\ ~trc[k].open => trc[k].pos = Len(written[k]) /\ ended[k]

\* The m-th merged record, of a trace k, is the one of that number in trace k.
Copies(m, k) ==
    LET n == Nth(out, k, m)
    IN /\ k \in 1 .. numtrc /\ n \in 1 .. Len(written[k])
       /\ out[m].time = written[k][n].ti
       /\ out[m].gid = NameOf[k][written[k][n].ev]

Faithful == \A m \in 1 .. Len(out) : Copies(m, out[m].slot)

Complete == Typed /\ Opened /\ Defined /\ Tables /\ Reading /\ Faithful

\* What a step of the program adds to its file.
LEMMA ProgramAdds ==
    ASSUME TypeOK, NEW i \in Traces, Flush(i) \/ Close(i)
    PROVE  /\ i <= argc /\ ~ended[i]
           /\ \A j \in Traces \ {i} : /\ written'[j] = written[j] /\ edf'[j] = edf[j]
                                      /\ ended'[j] = ended[j]
           /\ Len(written'[i]) > Len(written[i])
           /\ edf[i] \subseteq edf'[i]
           /\ \A n \in 1 .. Len(written'[i]) :
                 \/ n \in 1 .. Len(written[i]) /\ written'[i][n] = written[i][n]
                 \/ written'[i][n].ev \in edf'[i]
           /\ "reopened" \notin Situations /\ ClosesTrace(i, written'[i]) => ended'[i]
  <1>1. MaxRecords \in Nat /\ Len(written[i]) \in Nat /\ written[i] \in Seq(Records)
        /\ written \in [Traces -> Seq(Records)] /\ edf \in [Traces -> SUBSET Locals]
        /\ ended \in [Traces -> BOOLEAN]
    BY MergeAssumption, LenProperties DEF TypeOK
  <1>2. PICK n \in Nat : \E rs \in [1 .. n -> Records] :
            /\ n >= 1 /\ Appended(i, rs)
            /\ Flush(i) => (ClosesTrace(i, rs) => "reopened" \in Situations)
    <2>1. CASE Flush(i)
      BY <1>1, <2>1 DEF Flush
    <2>2. CASE Close(i) /\ ~Flush(i)
      BY <1>1, <2>2 DEF Close
    <2> QED
      BY <2>1, <2>2
  <1>20. PICK rs \in [1 .. n -> Records] :
             /\ n >= 1 /\ Appended(i, rs)
             /\ Flush(i) => (ClosesTrace(i, rs) => "reopened" \in Situations)
    BY <1>2
  <1>3. rs \in Seq(Records) /\ Len(rs) = n
    <2>1. rs \in Seq(Records)
      BY SeqDef
    <2>2. DOMAIN rs = 1 .. n /\ DOMAIN rs = 1 .. Len(rs) /\ Len(rs) \in Nat
      BY <2>1, LenProperties
    <2> QED
      BY <2>1, <2>2
  <1> DEFINE w == written[i]
             v == w \o rs
             evs == {rs[q].ev : q \in 1 .. Len(rs)}
  <1>4. /\ v \in Seq(Records) /\ Len(v) = Len(w) + n
        /\ \A m \in 1 .. Len(w) + n : v[m] = IF m <= Len(w) THEN w[m] ELSE rs[m - Len(w)]
    BY <1>1, <1>3, ConcatProperties
  <1>5. /\ written' = [written EXCEPT ![i] = v] /\ edf' = [edf EXCEPT ![i] = edf[i] \cup evs]
    BY <1>20 DEF Appended
  <1>6. i <= argc /\ ~ended[i] /\ (Flush(i) => ended' = ended)
        /\ (Close(i) => ended' = [ended EXCEPT ![i] = TRUE])
    BY DEF Flush, Close
  <1>7. /\ written'[i] = v /\ edf'[i] = edf[i] \cup evs
        /\ \A j \in Traces \ {i} : written'[j] = written[j] /\ edf'[j] = edf[j]
    BY <1>1, <1>5
  <1>8. \A j \in Traces \ {i} : ended'[j] = ended[j]
    BY <1>1, <1>6
  <1>9. PICK a \in Nat : a = Len(w)
    BY <1>1
  <1> HIDE DEF w, v
  <1>10. ASSUME NEW m \in 1 .. Len(v)
         PROVE  (m \in 1 .. Len(w) /\ v[m] = w[m]) \/ v[m].ev \in evs
    <2>1. CASE m <= a
      BY <1>4, <1>9, <2>1
    <2>2. CASE m > a
      <3>1. v[m] = rs[m - a] /\ m - a \in 1 .. Len(rs)
        BY <1>3, <1>4, <1>9, <2>2
      <3> QED
        BY <3>1
    <2> QED
      BY <1>4, <1>9, <2>1, <2>2
  <1>11. v[Len(v)] = rs[Len(rs)]
    BY <1>20, <1>3, <1>4, <1>9
  <1>12. "reopened" \notin Situations /\ ClosesTrace(i, written'[i]) => ended'[i]
    <2>1. ClosesTrace(i, v) => ClosesTrace(i, rs)
      BY <1>11 DEF ClosesTrace
    <2>2. Close(i) => ended'[i]
      BY <1>1, <1>6
    <2>3. Flush(i) => (ClosesTrace(i, v) => "reopened" \in Situations)
      BY <1>20, <2>1
    <2>4. ClosesTrace(i, written'[i]) => ClosesTrace(i, v)
      BY <1>7
    <2> QED
      BY <2>2, <2>3, <2>4
  <1> HIDE DEF evs
  <1>13. Len(v) > Len(w)
    BY <1>20, <1>4, <1>9
  <1> QED
    BY <1>6, <1>7, <1>8, <1>10, <1>12, <1>13 DEF w

LEMMA InitComplete == Init => Complete
  <1> SUFFICES ASSUME Init PROVE Complete
    OBVIOUS
  <1>1. /\ Typed /\ numtrc = 0 /\ at = 1 /\ phase = "open" /\ out = <<>> /\ turn = 0
        /\ \A i \in Traces : written[i] = <<>>
        /\ \A k \in Traces, l \in Locals : table[k][l] = Missing
    BY TypedInit DEF Init
  <1>2. Opened
    BY <1>1 DEF Opened
  <1>3. Defined
    BY <1>1 DEF Defined
  <1>4. Tables /\ Reading
    BY <1>1 DEF Tables, Reading
  <1>5. Faithful
    BY <1>1 DEF Faithful
  <1> QED
    BY <1>1, <1>2, <1>3, <1>4, <1>5 DEF Complete

\* The program adds to a trace that the merge has not come to the end of.
LEMMA ProgramComplete ==
    ASSUME Orderly, Complete, NEW i \in Traces, Flush(i) \/ Close(i)
    PROVE  Complete'
  <1>0. TypeOK /\ Typed /\ Typed' /\ argc \in Nat /\ numtrc \in 0 .. argc
    BY ProgramTyped, InUse DEF Complete, Typed, TypeOK
  <1>1. /\ UNCHANGED <<argc, adjust, phase, at, numtrc, trc, table, erec, first, turn, out>>
        /\ \A j \in Traces : /\ Len(written[j]) <= Len(written'[j])
                             /\ \A m \in 1 .. Len(written[j]) : written'[j][m] = written[j][m]
        /\ written' \in [Traces -> Seq(Records)]
    BY <1>0, ProgramStep
  <1>2. /\ i <= argc /\ ~ended[i]
        /\ \A j \in Traces \ {i} : /\ written'[j] = written[j] /\ edf'[j] = edf[j]
                                   /\ ended'[j] = ended[j]
        /\ Len(written'[i]) > Len(written[i])
        /\ edf[i] \subseteq edf'[i]
        /\ \A n \in 1 .. Len(written'[i]) :
              \/ n \in 1 .. Len(written[i]) /\ written'[i][n] = written[i][n]
              \/ written'[i][n].ev \in edf'[i]
        /\ "reopened" \notin Situations /\ ClosesTrace(i, written'[i]) => ended'[i]
    BY <1>0, ProgramAdds
  <1>3. i \in 1 .. argc /\ argc \in Traces /\ \A j \in 1 .. argc : j \in Traces
    <2>1. NumTraces \in Nat /\ argc \in Traces
      BY <1>0, MergeAssumption DEF TypeOK
    <2> QED
      BY <1>0, <1>2, <2>1 DEF Traces
  <1>4. \A j \in Traces : Len(written[j]) \in Nat /\ Len(written'[j]) \in Nat
    <2>1. written \in [Traces -> Seq(Records)]
      BY <1>0 DEF TypeOK
    <2> QED
      BY <1>1, <2>1, LenProperties
  <1>5. numtrc > 0 => "online" \in Situations
    BY <1>2, <1>3 DEF Complete, Opened
  <1>6. \A j \in 1 .. argc : written[j] # <<>> => written'[j] # <<>>
    <2> SUFFICES ASSUME NEW j \in 1 .. argc, written[j] # <<>> PROVE written'[j] # <<>>
      OBVIOUS
    <2>1. CASE j # i
      BY <1>2, <1>3, <2>1
    <2>2. CASE j = i
      <3>1. written'[i] # <<>>
        BY <1>2, <1>3, <1>4
      <3> QED
        BY <2>2, <3>1
    <2> QED
      BY <2>1, <2>2
  <1>7. Opened'
    <2>1. Opened /\ (numtrc > 0 => \A j \in 1 .. argc : written[j] # <<>>)
      BY DEF Complete, Opened
    <2> QED
      BY <1>1, <1>5, <1>6, <2>1 DEF Opened
  <1>8. Defined'
    <2>1. ASSUME NEW j \in Traces
          PROVE  /\ \A n \in 1 .. Len(written'[j]) : written'[j][n].ev \in edf'[j]
                 /\ "reopened" \notin Situations /\ written'[j] # <<>>
                    /\ ClosesTrace(j, written'[j]) => ended'[j]
      <3>1. CASE j # i
        BY <1>2, <3>1 DEF Complete, Defined, ClosesTrace
      <3>2. CASE j = i
        <4>1. \A n \in 1 .. Len(written[i]) : written[i][n].ev \in edf[i]
          BY DEF Complete, Defined
        <4>2. ASSUME NEW n \in 1 .. Len(written'[i]) PROVE written'[i][n].ev \in edf'[i]
          BY <1>2, <4>1
        <4> QED
          BY <1>2, <3>2, <4>2
      <3> QED
        BY <3>1, <3>2
    <2> QED
      BY <2>1 DEF Defined, ClosesTrace
  <1>9. Tables'
    <2>1. "online" \notin Situations => numtrc = 0
      BY <1>0, <1>5
    <2> QED
      BY <1>1, <2>1 DEF Complete, Tables
  <1>10. ASSUME NEW k \in 1 .. numtrc
         PROVE  /\ k \in Traces /\ trc[k].src = k /\ trc[k].pos \in 1 .. Len(written[k])
                /\ Event(k)' = Event(k)
                /\ \A m \in 1 .. Len(written[k]) : m \in 1 .. Len(written'[k])
    <2>1. k \in Traces /\ trc[k].src = k
      BY <1>0, InUse DEF Complete, Opened
    <2>2. trc[k].pos \in 1 .. Len(written[k])
      BY <1>0, <2>1 DEF Typed, Positions
    <2>3. written'[k][trc[k].pos] = written[k][trc[k].pos]
      BY <1>1, <2>1, <2>2
    <2>4. Event(k)' = Event(k)
      BY <1>1, <2>1, <2>3 DEF Event
    <2>5. \A m \in 1 .. Len(written[k]) : m \in 1 .. Len(written'[k])
      BY <1>1, <1>4, <2>1
    <2> QED
      BY <2>1, <2>2, <2>4, <2>5
  <1>11. Reading'
    <2> SUFFICES ASSUME NEW k \in 1 .. numtrc
                 PROVE  /\ Nth(out, k, Len(out)) = Taken(k)
                        /\ turn = k => trc[k].open /\ trc[k].gid = NameOf[k][Event(k)']
                        /\ ~trc[k].open => trc[k].pos = Len(written'[k]) /\ ended'[k]
      BY <1>1 DEF Reading, Taken
    <2>1. /\ Nth(out, k, Len(out)) = Taken(k)
          /\ turn = k => trc[k].open /\ trc[k].gid = NameOf[k][Event(k)]
          /\ ~trc[k].open => trc[k].pos = Len(written[k]) /\ ended[k]
      BY DEF Complete, Reading
    <2>2. ~trc[k].open => k # i
      BY <1>2, <2>1
    <2> QED
      BY <1>2, <1>10, <2>1, <2>2
  <1>12. Faithful'
    <2> SUFFICES ASSUME NEW m \in 1 .. Len(out) PROVE Copies(m, out[m].slot)'
      BY <1>1 DEF Faithful
    <2>1. PICK k, n : k = out[m].slot /\ n = Nth(out, k, m)
      OBVIOUS
    <2>2. /\ k \in 1 .. numtrc /\ n \in 1 .. Len(written[k])
          /\ out[m].time = written[k][n].ti
          /\ out[m].gid = NameOf[k][written[k][n].ev]
      BY <2>1 DEF Complete, Faithful, Copies
    <2>3. n \in 1 .. Len(written'[k]) /\ written'[k][n] = written[k][n]
      <3>1. k \in Traces /\ \A q \in 1 .. Len(written[k]) : q \in 1 .. Len(written'[k])
        BY <1>10, <2>2
      <3>2. \A q \in 1 .. Len(written[k]) : written'[k][q] = written[k][q]
        BY <1>1, <3>1
      <3> QED
        BY <2>2, <3>1, <3>2
    <2>4. Copies(m, k)'
      BY <1>1, <2>1, <2>2, <2>3 DEF Copies
    <2> QED
      BY <1>1, <2>1, <2>4
  <1> QED
    BY <1>0, <1>7, <1>8, <1>9, <1>11, <1>12 DEF Complete

\* The steps of the merge that write nothing and leave the descriptors.
LEMMA QuietComplete ==
    ASSUME Complete, Typed', phase' \in {phase, "failed", "merge"},
           phase = "open" /\ phase' # "open" => at > argc,
           phase' = "open" => phase = "open",
           UNCHANGED <<written, edf, ended, argc, at, numtrc, trc, table, turn, out>>
    PROVE  Complete'
  <1>1. Opened'
    <2>1. at \in 1 .. argc + 1 /\ argc \in Nat
      BY InUse DEF Complete, Typed, TypeOK
    <2>2. /\ phase = "open" => numtrc = at - 1 /\ out = <<>> /\ turn = 0
          /\ phase # "open" => numtrc = argc
      BY DEF Complete, Opened
    <2>3. phase' # "open" => numtrc = argc
      BY <2>1, <2>2
    <2> QED
      BY <2>2, <2>3 DEF Complete, Opened
  <1>2. Defined' /\ Tables'
    BY DEF Complete, Defined, Tables, ClosesTrace
  <1>3. Reading' /\ Faithful'
    BY DEF Complete, Reading, Faithful, Taken, Event, Copies
  <1> QED
    BY <1>1, <1>2, <1>3 DEF Complete

\* A trace that has begun is opened with the names of its own EDF file.
LEMMA OpenComplete ==
    ASSUME Orderly, Complete, OpenTrace
    PROVE  Complete'
  <1>0. /\ Typed /\ Typed' /\ phase = "open" /\ numtrc = at - 1 /\ out = <<>> /\ turn = 0
        /\ UNCHANGED <<written, edf, ended, argc, adjust, phase, first, turn, out>>
    BY OpenStep DEF Complete, Opened
  <1>1. at \in 1 .. argc /\ argc \in Nat /\ at \in Traces /\ \A j \in 1 .. argc : j \in Traces
    <2>1. /\ argc \in Traces /\ NumTraces \in Nat /\ at \in 1 .. argc + 1 /\ at <= argc
      BY <1>0, MergeAssumption DEF Typed, TypeOK, OpenTrace
    <2> QED
      BY <2>1 DEF Traces
  <1>2. \A i \in 1 .. argc : written[i] # <<>> /\ ("online" \notin Situations => ended[i])
    <2>1. CASE at = 1
      BY <2>1 DEF OpenTrace, MayStart, Orderly
    <2>2. CASE at # 1
      BY <1>0, <1>1, <2>2 DEF Complete, Opened
    <2> QED
      BY <2>1, <2>2
  <1> DEFINE t == written[at][1].ti
             d == [NotInUse EXCEPT !.src = at, !.open = TRUE, !.pos = 1, !.last = t, !.ti = t]
  <1>3. /\ at' = at + 1 /\ numtrc' = at
        /\ trc' = [trc EXCEPT ![at] = d]
        /\ table' = [table EXCEPT ![at] = Parsed(at, at)]
    <2>1. numtrc + 1 = at /\ written[at] # <<>>
      BY <1>0, <1>1, <1>2
    <2> QED
      BY <2>1 DEF OpenTrace
  <1>4. d.src = at /\ d.open /\ d.pos = 1
    BY DEF NotInUse
  <1> HIDE DEF d
  <1>5. trc'[at] = d /\ \A k \in Traces \ {at} : trc'[k] = trc[k]
    BY <1>0, <1>1, <1>3 DEF Typed, TypeOK
  <1>6. \A k \in 1 .. at : k = at \/ (k \in 1 .. numtrc /\ k \in Traces /\ k # at)
    BY <1>0, <1>1
  <1>7. Opened'
    <2>1. \A k \in 1 .. at : trc'[k].src = k
      BY <1>4, <1>5, <1>6 DEF Complete, Opened
    <2> QED
      BY <1>0, <1>1, <1>2, <1>3, <2>1 DEF Opened
  <1>8. Defined'
    BY <1>0 DEF Complete, Defined, ClosesTrace
  <1>9. Tables'
    <2>1. /\ table \in [Traces -> [Locals -> GlobalIds]]
          /\ \A k \in Traces, l \in Locals : table[k][l] \in {Missing, NameOf[k][l]}
          /\ edf \in [Traces -> SUBSET Locals]
      BY <1>0 DEF Complete, Tables, Typed, TypeOK
    <2>2. /\ \A k \in Traces \ {at} : table'[k] = table[k]
          /\ \A l \in Locals : table'[at][l] = IF l \in edf[at] THEN NameOf[at][l] ELSE table[at][l]
      BY <1>1, <1>3, <2>1 DEF Parsed
    <2>3. \A k \in Traces, l \in Locals : table'[k][l] \in {Missing, NameOf[k][l]}
      BY <2>1, <2>2
    <2>4. ASSUME "online" \notin Situations, NEW k \in 1 .. at, NEW l \in edf[k]
          PROVE  table'[k][l] = NameOf[k][l]
      <3>1. CASE k = at
        BY <1>1, <2>1, <2>2, <3>1
      <3>2. CASE k # at
        BY <1>6, <2>2, <2>4, <3>2 DEF Complete, Tables
      <3> QED
        BY <3>1, <3>2
    <2> QED
      BY <1>0, <1>3, <2>3, <2>4 DEF Tables
  <1>10. Reading'
    <2> SUFFICES ASSUME NEW k \in 1 .. at
                 PROVE  /\ Nth(out, k, Len(out)) = Taken(k)'
                        /\ turn # k
                        /\ ~trc'[k].open => trc'[k].pos = Len(written[k]) /\ ended[k]
      BY <1>0, <1>3 DEF Reading
    <2>1. turn # k /\ Len(out) = 0
      BY <1>0, <1>1
    <2>2. CASE k = at
      <3>1. Taken(k)' = 0
        BY <1>0, <1>4, <1>5, <2>1, <2>2 DEF Taken
      <3> QED
        BY <1>4, <1>5, <2>1, <2>2, <3>1, NthNone
    <2>3. CASE k # at
      <3>1. trc'[k] = trc[k] /\ k \in 1 .. numtrc
        BY <1>5, <1>6, <2>3
      <3>2. Taken(k)' = Taken(k)
        BY <1>0, <3>1 DEF Taken
      <3> QED
        BY <2>1, <3>1, <3>2 DEF Complete, Reading
    <2> QED
      BY <2>2, <2>3
  <1>11. Faithful'
    BY <1>0 DEF Faithful
  <1> QED
    BY <1>0, <1>7, <1>8, <1>9, <1>10, <1>11 DEF Complete

\* A descriptor in use has the number of its trace, and the event it stands at
\* is one that its EDF file defines by now.
LEMMA InUseComplete ==
    ASSUME Complete, NEW k \in 1 .. numtrc
    PROVE  /\ k \in Traces /\ k \in 1 .. argc /\ trc[k].src = k
           /\ trc[k].pos \in 1 .. Len(written[k]) /\ Len(written[k]) \in Nat
           /\ trc[k].last = written[k][trc[k].pos].ti
           /\ Event(k) = written[k][trc[k].pos].ev
           /\ Event(k) \in edf[k] /\ Event(k) \in Locals
           /\ NameOf[k][Event(k)] \in Names
  <1>1. k \in Traces /\ k \in 1 .. argc /\ trc[k].src = k /\ Typed
    <2>1. Typed /\ trc[k].src = k
      BY DEF Complete, Opened
    <2>2. k \in Traces /\ argc \in Nat /\ numtrc \in 0 .. argc
      BY <2>1, InUse DEF Typed, TypeOK
    <2> QED
      BY <2>1, <2>2
  <1>2. trc[k].pos \in 1 .. Len(written[k]) /\ trc[k].last = written[k][trc[k].pos].ti
    BY <1>1 DEF Typed, Positions
  <1>3. written \in [Traces -> Seq(Records)]
    BY <1>1 DEF Typed, TypeOK
  <1>4. Len(written[k]) \in Nat
    BY <1>1, <1>3, LenProperties
  <1>5. Event(k) = written[k][trc[k].pos].ev
    BY <1>1 DEF Event
  <1>6. Event(k) \in edf[k]
    BY <1>1, <1>2, <1>5 DEF Complete, Defined
  <1>7. Event(k) \in Locals
    BY <1>1, EventType
  <1>8. NameOf[k][Event(k)] \in Names
    BY <1>1, <1>7, MergeAssumption
  <1> QED
    BY <1>1, <1>2, <1>4, <1>5, <1>6, <1>7, <1>8

\* The names that Output reads and writes are those of the trace.
LEMMA OutputNames ==
    ASSUME Orderly, Complete, NEW k \in Traces, Output(k)
    PROVE  /\ phase = "merge" /\ turn = 0 /\ turn' = k
           /\ Tables'
           /\ trc'[k].gid = NameOf[k][Event(k)]
           /\ out'[Len(out) + 1].slot = k
           /\ out'[Len(out) + 1].gid = NameOf[k][Event(k)]
  <1>0. /\ k \in Active /\ k \in 1 .. numtrc /\ Typed
        /\ UNCHANGED <<written, edf, ended, phase, numtrc>>
    BY OutputStep, InUse DEF Complete, Typed
  <1>1. PICK e \in EdfsReread(k) :
          LET known == ReadAgain(k, e)
              gid   == GID(known, Event(k))
          IN /\ table' = [table EXCEPT ![k] = [known EXCEPT ![Event(k)] = gid]]
             /\ trc' = [Adjusted EXCEPT ![k].gid = gid]
             /\ out' = Append(out, [slot |-> k, gid |-> gid, ti |-> Adjusted[k].ti,
                                    over |-> trc[k].over, time |-> trc[k].last])
    BY DEF Output
  <1>2. phase = "merge" /\ turn = 0 /\ turn' = k /\ (adjust => erec # 0)
    BY DEF Output
  <1> DEFINE ev == Event(k)
             name == NameOf[k][Event(k)]
  <1>3. ev \in edf[k] /\ ev \in Locals /\ name \in Names
    BY <1>0, InUseComplete
  <1>4. /\ \A l \in Locals : table[k][l] \in {Missing, NameOf[k][l]}
        /\ "online" \notin Situations => \A l \in edf[k] : table[k][l] = NameOf[k][l]
        /\ table \in [Traces -> [Locals -> GlobalIds]] /\ edf \in [Traces -> SUBSET Locals]
    BY <1>0 DEF Complete, Tables, Typed, TypeOK
  <1>5. Missing \notin Names /\ NameOf[k] \in [Locals -> Names]
    BY MergeAssumption
  <1> DEFINE known == ReadAgain(k, e)
             gid == GID(known, ev)
  <1>6. /\ known \in [Locals -> GlobalIds]
        /\ known[ev] = name
        /\ \A l \in Locals : known[l] \in {Missing, NameOf[k][l]}
        /\ "online" \notin Situations => \A l \in edf[k] : known[l] = NameOf[k][l]
    <2>1. CASE table[k][ev] # Missing
      <3>1. known = table[k]
        BY <2>1 DEF ReadAgain
      <3> QED
        BY <1>3, <1>4, <2>1, <3>1
    <2>2. CASE table[k][ev] = Missing
      <3>1. "online" \in Situations
        BY <1>3, <1>4, <1>5, <2>2
      <3>2. e = k
        BY <1>1, <3>1 DEF EdfsReread, Orderly
      <3>3. known = [l \in Locals |-> IF l \in edf[k] THEN NameOf[k][l] ELSE table[k][l]]
        BY <2>2, <3>2 DEF ReadAgain, Parsed
      <3> HIDE DEF known, ev
      <3>4. \A l \in Locals : NameOf[k][l] \in GlobalIds /\ table[k][l] \in GlobalIds
        BY <1>4, <1>5 DEF GlobalIds
      <3> QED
        BY <1>3, <1>4, <3>1, <3>3, <3>4 DEF ev
    <2> QED
      BY <2>1, <2>2
  <1>7. gid = name
    BY <1>3, <1>5, <1>6 DEF GID
  <1> DEFINE r == [slot |-> k, gid |-> gid, ti |-> Adjusted[k].ti,
                   over |-> trc[k].over, time |-> trc[k].last]
             row == [known EXCEPT ![ev] = gid]
  <1>8. /\ table' = [table EXCEPT ![k] = row]
        /\ trc' = [Adjusted EXCEPT ![k] = [Adjusted[k] EXCEPT !.gid = gid]]
        /\ out' = Append(out, r)
    BY <1>1
  <1>9. r.slot = k /\ r.gid = name
    BY <1>7
  <1>10. Adjusted \in [Traces -> Descriptors]
    BY <1>0, <1>2, AdjustedProperties DEF Typed
  <1> HIDE DEF r, known, gid, ev, name
  <1>11. out'[Len(out) + 1] = r
    BY <1>0, <1>8, AppendProperties DEF Typed, TypeOK
  <1>12. trc'[k].gid = name
    <2>1. trc'[k] = [Adjusted[k] EXCEPT !.gid = gid] /\ Adjusted[k] \in Descriptors
      BY <1>8, <1>10
    <2>2. \A d \in Descriptors : [d EXCEPT !.gid = gid].gid = gid
      BY DEF Descriptors
    <2> QED
      BY <1>7, <2>1, <2>2
  <1>13. /\ \A l \in Locals : row[l] = known[l]
         /\ table'[k] = row /\ \A j \in Traces \ {k} : table'[j] = table[j]
    BY <1>3, <1>4, <1>6, <1>7, <1>8
  <1> HIDE DEF row
  <1>14. \A j \in Traces, l \in Locals : table'[j][l] \in {Missing, NameOf[j][l]}
    BY <1>6, <1>13 DEF Complete, Tables
  <1>15. ASSUME "online" \notin Situations, NEW j \in 1 .. numtrc, NEW l \in edf[j]
         PROVE  table'[j][l] = NameOf[j][l]
    <2>1. j \in Traces /\ l \in Locals
      BY <1>0, <1>4, InUse DEF Typed
    <2>2. CASE j = k
      BY <1>6, <1>13, <1>15, <2>1, <2>2
    <2>3. CASE j # k
      BY <1>13, <1>15, <2>1, <2>3 DEF Complete, Tables
    <2> QED
      BY <2>2, <2>3
  <1>16. Tables'
    BY <1>0, <1>14, <1>15 DEF Tables
  <1> QED
    BY <1>2, <1>9, <1>11, <1>12, <1>16 DEF ev, name

\* The record of the source is written.
LEMMA OutputComplete ==
    ASSUME Orderly, Complete, NEW k \in Traces, Output(k)
    PROVE  Complete'
  <1> DEFINE r == out'[Len(out) + 1]
  <1>1. /\ Typed /\ Typed' /\ k \in Active
        /\ Len(out') = Len(out) + 1
        /\ \A m \in 1 .. Len(out) : out'[m] = out[m]
        /\ r.time = trc[k].last
        /\ \A j \in Traces : /\ trc'[j].src = trc[j].src /\ trc'[j].open = trc[j].open
                             /\ trc'[j].pos = trc[j].pos
        /\ UNCHANGED <<written, edf, ended, argc, phase, at, numtrc>>
    BY OutputStep DEF Complete
  <1>2. /\ phase = "merge" /\ turn = 0 /\ turn' = k /\ Tables'
        /\ trc'[k].gid = NameOf[k][Event(k)]
        /\ r.slot = k /\ r.gid = NameOf[k][Event(k)]
    BY OutputNames
  <1>3. k \in 1 .. numtrc /\ trc[k].open /\ \A j \in 1 .. numtrc : j \in Traces
    <2>1. k \in 1 .. numtrc /\ trc[k].open
      BY <1>1 DEF Active
    <2>2. \A j \in 1 .. numtrc : j \in Traces
      BY <1>1, InUse DEF Typed
    <2> QED
      BY <2>1, <2>2
  <1>4. /\ trc[k].pos \in 1 .. Len(written[k]) /\ Len(written[k]) \in Nat
        /\ trc[k].last = written[k][trc[k].pos].ti
        /\ Event(k) = written[k][trc[k].pos].ev
        /\ trc[k].src = k
    BY <1>3, InUseComplete
  <1>5. PICK c \in Nat : c = Len(out)
    BY <1>1, OutType
  <1>6. /\ Len(out') = c + 1 /\ out'[c + 1] = r /\ \A m \in 1 .. c : out'[m] = out[m]
    BY <1>1, <1>5
  <1> HIDE DEF r
  <1>7. ASSUME NEW j, NEW m \in 0 .. c
        PROVE  Nth(out', j, m) = Nth(out, j, m)
    <2>1. m \in Nat /\ \A q \in 1 .. m : out'[q].slot = out[q].slot
      BY <1>6
    <2> QED
      BY <2>1, NthSame
  <1>8. \A j : Nth(out', j, c + 1) = Nth(out, j, c) + (IF j = k THEN 1 ELSE 0)
    <2> SUFFICES ASSUME NEW j
                 PROVE  Nth(out', j, c + 1) = Nth(out, j, c) + (IF j = k THEN 1 ELSE 0)
      OBVIOUS
    <2>1. Nth(out', j, c + 1) = Nth(out', j, c) + (IF out'[c + 1].slot = j THEN 1 ELSE 0)
      BY NthNext
    <2>2. Nth(out', j, c) = Nth(out, j, c)
      BY <1>7
    <2> QED
      BY <1>2, <1>6, <2>1, <2>2
  <1>9. Opened'
    BY <1>1, <1>2, <1>3 DEF Complete, Opened
  <1>10. Defined'
    BY <1>1 DEF Complete, Defined, ClosesTrace
  <1>11. Event(k)' = Event(k)
    BY <1>1 DEF Event
  <1>12. Reading'
    <2> SUFFICES ASSUME NEW j \in 1 .. numtrc
                 PROVE  /\ Nth(out', j, Len(out')) = Taken(j)'
                        /\ turn' = j => trc'[j].open /\ trc'[j].gid = NameOf[j][Event(j)']
                        /\ ~trc'[j].open => trc'[j].pos = Len(written[j]) /\ ended[j]
      BY <1>1 DEF Reading
    <2>1. /\ Nth(out, j, Len(out)) = Taken(j) /\ j \in Traces /\ turn # j
          /\ ~trc[j].open => trc[j].pos = Len(written[j]) /\ ended[j]
      BY <1>2, <1>3 DEF Complete, Reading
    <2>2. trc[j].pos \in Nat
      BY <2>1, InUseComplete
    <2>3. CASE j = k
      <3>1. Taken(j) = trc[j].pos - 1 /\ Taken(j)' = trc[j].pos
        BY <1>1, <1>2, <1>3, <2>1, <2>3 DEF Taken
      <3> QED
        BY <1>1, <1>2, <1>3, <1>5, <1>6, <1>8, <1>11, <2>1, <2>2, <2>3, <3>1
    <2>4. CASE j # k
      <3>1. Taken(j)' = Taken(j)
        BY <1>1, <1>2, <2>1, <2>4 DEF Taken
      <3>2. Nth(out, j, c) \in Nat
        BY NthType
      <3> QED
        BY <1>1, <1>2, <1>5, <1>6, <1>8, <2>1, <2>4, <3>1, <3>2
    <2> QED
      BY <2>3, <2>4
  <1>13. Faithful'
    <2> SUFFICES ASSUME NEW m \in 1 .. c + 1 PROVE Copies(m, out[m].slot)'
      BY <1>6 DEF Faithful
    <2>1. CASE m \in 1 .. c
      <3>1. PICK j, n : j = out[m].slot /\ n = Nth(out, j, m)
        OBVIOUS
      <3>2. /\ j \in 1 .. numtrc /\ n \in 1 .. Len(written[j])
            /\ out[m].time = written[j][n].ti
            /\ out[m].gid = NameOf[j][written[j][n].ev]
        BY <1>5, <2>1, <3>1 DEF Complete, Faithful, Copies
      <3>3. Nth(out', j, m) = n /\ out'[m] = out[m]
        BY <1>6, <1>7, <2>1, <3>1
      <3>4. Copies(m, j)'
        BY <1>1, <3>2, <3>3 DEF Copies
      <3>5. out'[m].slot = j
        BY <3>1, <3>3
      <3> QED
        BY <3>4, <3>5
    <2>2. CASE m = c + 1
      <3>1. Nth(out, k, c) = trc[k].pos - 1
        BY <1>2, <1>3, <1>5 DEF Complete, Reading, Taken
      <3>2. Nth(out', k, m) = trc[k].pos
        BY <1>4, <1>8, <2>2, <3>1
      <3>3. Copies(m, k)'
        <4>1. /\ out'[m].time = written[k][trc[k].pos].ti
              /\ out'[m].gid = NameOf[k][written[k][trc[k].pos].ev]
          BY <1>1, <1>2, <1>4, <1>6, <2>2
        <4>2. numtrc' = numtrc /\ written' = written
          BY <1>1
        <4> QED
          BY <1>3, <1>4, <3>2, <4>1, <4>2 DEF Copies
      <3>4. out'[m].slot = k
        BY <1>2, <1>6, <2>2
      <3> QED
        BY <3>3, <3>4
    <2> QED
      BY <2>1, <2>2
  <1> QED
    BY <1>1, <1>2, <1>9, <1>10, <1>12, <1>13 DEF Complete

\* The merged trace stays what it is when nothing is written.
LEMMA FaithfulStays ==
    ASSUME Faithful, UNCHANGED <<written, numtrc, out>>
    PROVE  Faithful'
  BY DEF Faithful, Copies

\* The trace that has been written goes on to its next record.
LEMMA NextRecComplete ==
    ASSUME Complete, NEW k \in Traces, NextRec(k)
    PROVE  Complete'
  <1>1. /\ Typed /\ Typed' /\ k \in Active
        /\ \A j \in Traces \ {k} : trc'[j] = trc[j]
        /\ trc'[k].open = trc[k].open /\ trc'[k].src = trc[k].src
        /\ UNCHANGED <<written, edf, ended, argc, adjust, phase, at, numtrc, table, first, out>>
    BY NextRecStep DEF Complete
  <1>2. phase = "merge" /\ turn = k /\ turn' = 0
    BY DEF NextRec
  <1>3. /\ trc \in [Traces -> Descriptors] /\ trc[k].open /\ k \in 1 .. numtrc
        /\ \A j \in 1 .. numtrc : j \in Traces
    <2>1. k \in 1 .. numtrc /\ trc[k].open
      BY <1>1 DEF Active
    <2>2. trc \in [Traces -> Descriptors] /\ \A j \in 1 .. numtrc : j \in Traces
      BY <1>1, InUse DEF Typed, TypeOK
    <2> QED
      BY <2>1, <2>2
  <1>4. trc'[k].pos = trc[k].pos + 1
    <2>1. PICK o, t : trc' = [trc EXCEPT ![k] = [trc[k] EXCEPT !.pos = trc[k].pos + 1, !.over = o,
                                                 !.last = t, !.ti = t, !.gid = Missing]]
      BY DEF NextRec
    <2>2. \A d \in Descriptors : [d EXCEPT !.pos = d.pos + 1, !.over = o, !.last = t, !.ti = t,
                                           !.gid = Missing].pos = d.pos + 1
      BY DEF Descriptors
    <2>3. trc[k] \in Descriptors
      BY <1>3
    <2>4. trc'[k] = [trc[k] EXCEPT !.pos = trc[k].pos + 1, !.over = o, !.last = t, !.ti = t,
                                   !.gid = Missing]
      BY <1>3, <2>1
    <2> QED
      BY <2>2, <2>3, <2>4
  <1>5. Opened'
    <2>1. \A j \in 1 .. numtrc : trc'[j].src = trc[j].src
      BY <1>1, <1>3
    <2> QED
      BY <1>1, <1>2, <2>1 DEF Complete, Opened
  <1>6. Defined' /\ Tables'
    BY <1>1 DEF Complete, Defined, Tables, ClosesTrace
  <1>7. Reading'
    <2> SUFFICES ASSUME NEW j \in 1 .. numtrc
                 PROVE  /\ Nth(out, j, Len(out)) = Taken(j)'
                        /\ turn' # j
                        /\ ~trc'[j].open => trc'[j].pos = Len(written[j]) /\ ended[j]
      BY <1>1 DEF Reading
    <2>1. /\ Nth(out, j, Len(out)) = Taken(j) /\ j \in Traces /\ turn' # j
          /\ ~trc[j].open => trc[j].pos = Len(written[j]) /\ ended[j]
      BY <1>2, <1>3 DEF Complete, Reading
    <2>2. CASE j = k
      <3>1. trc[k].pos \in Nat /\ k # 0
        <4>1. trc[k] \in Descriptors
          BY <1>3
        <4>2. k # 0
          BY <2>1, <2>2, <1>2
        <4> QED
          BY <4>1, <4>2 DEF Descriptors
      <3>2. Taken(k) = trc[k].pos
        BY <1>2 DEF Taken
      <3>3. trc'[k].open /\ trc'[k].pos = trc[k].pos + 1
        BY <1>1, <1>3, <1>4
      <3>4. Taken(k)' = trc[k].pos + 1 - 1
        BY <1>2, <3>1, <3>3 DEF Taken
      <3>5. Taken(k)' = trc[k].pos
        BY <3>1, <3>4
      <3> QED
        BY <2>1, <2>2, <3>2, <3>3, <3>5
    <2>3. CASE j # k
      <3>1. trc'[j] = trc[j] /\ turn # j
        BY <1>1, <1>2, <2>1, <2>3
      <3>2. Taken(j)' = Taken(j)
        BY <2>1, <3>1 DEF Taken
      <3> QED
        BY <2>1, <3>1, <3>2
    <2> QED
      BY <2>2, <2>3
  <1>8. Faithful'
    BY <1>1, FaithfulStays DEF Complete
  <1> QED
    BY <1>1, <1>5, <1>6, <1>7, <1>8 DEF Complete

\* A trace is closed when nothing will be added to it.
LEMMA EndedWhenClosed ==
    ASSUME Orderly, Complete, NEW k \in 1 .. numtrc, turn = k, AtEnd(k),
           trc[k].pos = Len(written[k])
    PROVE  ended[k]
  <1>1. /\ k \in Traces /\ k \in 1 .. argc
        /\ trc[k].pos \in 1 .. Len(written[k]) /\ Len(written[k]) \in Nat
        /\ Event(k) = written[k][trc[k].pos].ev /\ NameOf[k][Event(k)] \in Names
    BY InUseComplete
  <1>2. CASE "online" \notin Situations
    <2>1. numtrc > 0
      BY InUse DEF Complete, Typed
    <2> QED
      BY <1>1, <1>2, <2>1 DEF Complete, Opened
  <1>3. CASE "online" \in Situations
    <2>1. trc[k].gid = NameOf[k][Event(k)] /\ trc[k].gid \in {WallClock, Unknown}
      BY <1>3 DEF Complete, Reading, AtEnd, Orderly
    <2>2. NameOf[k][written[k][Len(written[k])].ev] = WallClock
      BY <1>1, <2>1, MergeAssumption
    <2>3. ClosesTrace(k, written[k]) /\ written[k] # <<>>
      <3>1. written[k] # <<>>
        BY <1>1
      <3> QED
        BY <2>2, <3>1 DEF ClosesTrace
    <2> QED
      BY <1>1, <1>3, <2>3 DEF Complete, Defined, Orderly
  <1> QED
    BY <1>2, <1>3

LEMMA CloseComplete ==
    ASSUME Orderly, Complete, NEW k \in Traces, CloseTrace(k)
    PROVE  Complete'
  <1>1. /\ Typed /\ Typed'
        /\ \A j \in Traces : trc'[j].src = trc[j].src
        /\ UNCHANGED <<written, edf, ended, argc, adjust, at, numtrc, table, first, out>>
        /\ phase' # "open"
    BY CloseStep DEF Complete
  <1>2. /\ phase = "merge" /\ turn = k /\ turn' = 0 /\ k \in Active /\ AtEnd(k)
        /\ trc[k].pos = Len(written[trc[k].src])
        /\ trc' = [trc EXCEPT ![k].open = FALSE]
    BY DEF CloseTrace
  <1>3. /\ trc \in [Traces -> Descriptors] /\ trc[k].open /\ k \in 1 .. numtrc
        /\ \A j \in 1 .. numtrc : j \in Traces
    <2>1. k \in 1 .. numtrc /\ trc[k].open
      BY <1>2 DEF Active
    <2>2. trc \in [Traces -> Descriptors] /\ \A j \in 1 .. numtrc : j \in Traces
      BY <1>1, InUse DEF Typed, TypeOK
    <2> QED
      BY <2>1, <2>2
  <1>4. /\ trc'[k].pos = trc[k].pos /\ ~trc'[k].open
        /\ \A j \in Traces \ {k} : trc'[j] = trc[j]
    <2>1. \A d \in Descriptors : /\ [d EXCEPT !.open = FALSE].pos = d.pos
                                 /\ ~[d EXCEPT !.open = FALSE].open
      BY DEF Descriptors
    <2>2. trc[k] \in Descriptors /\ trc'[k] = [trc[k] EXCEPT !.open = FALSE]
      BY <1>2, <1>3
    <2>3. \A j \in Traces \ {k} : trc'[j] = trc[j]
      BY <1>2, <1>3
    <2> QED
      BY <2>1, <2>2, <2>3
  <1>5. trc[k].pos = Len(written[k]) /\ ended[k]
    <2>1. trc[k].src = k
      BY <1>3, InUseComplete
    <2> QED
      BY <1>2, <1>3, <2>1, EndedWhenClosed
  <1>6. Opened'
    BY <1>1, <1>2, <1>3 DEF Complete, Opened
  <1>7. Defined' /\ Tables'
    BY <1>1 DEF Complete, Defined, Tables, ClosesTrace
  <1>8. Reading'
    <2> SUFFICES ASSUME NEW j \in 1 .. numtrc
                 PROVE  /\ Nth(out, j, Len(out)) = Taken(j)'
                        /\ turn' # j
                        /\ ~trc'[j].open => trc'[j].pos = Len(written[j]) /\ ended[j]
      BY <1>1 DEF Reading
    <2>1. /\ Nth(out, j, Len(out)) = Taken(j) /\ j \in Traces /\ turn' # j
          /\ ~trc[j].open => trc[j].pos = Len(written[j]) /\ ended[j]
      BY <1>2, <1>3 DEF Complete, Reading
    <2>2. CASE j = k
      <3>1. Taken(k) = trc[k].pos /\ Taken(k)' = trc[k].pos
        BY <1>2, <1>4 DEF Taken
      <3> QED
        BY <1>4, <1>5, <2>1, <2>2, <3>1
    <2>3. CASE j # k
      <3>1. trc'[j] = trc[j] /\ turn # j
        BY <1>2, <1>4, <2>1, <2>3
      <3>2. Taken(j)' = Taken(j)
        BY <2>1, <3>1 DEF Taken
      <3> QED
        BY <2>1, <3>1, <3>2
    <2> QED
      BY <2>2, <2>3
  <1>9. Faithful'
    BY <1>1, FaithfulStays DEF Complete
  <1> QED
    BY <1>1, <1>6, <1>7, <1>8, <1>9 DEF Complete

LEMMA NextComplete == Orderly /\ Complete /\ [Next]_vars => Complete'
  <1> SUFFICES ASSUME Orderly, Complete, [Next]_vars PROVE Complete'
    OBVIOUS
  <1>0. Typed'
    BY TypedNext DEF Complete
  <1>1. CASE OpenTrace
    BY <1>1, OpenComplete
  <1>2. CASE StartMerge \/ Fail
    <2>1. /\ UNCHANGED <<written, edf, ended, argc, at, numtrc, trc, table, turn, out>>
          /\ phase' \in {"failed", "merge"}
          /\ phase = "open" => at > argc
      BY <1>2 DEF StartMerge, Fail, program
    <2> QED
      BY <1>0, <2>1, QuietComplete
  <1>3. ASSUME NEW k \in Traces, Output(k) PROVE Complete'
    BY <1>3, OutputComplete
  <1>4. ASSUME NEW k \in Traces, NextRec(k) PROVE Complete'
    BY <1>4, NextRecComplete
  <1>5. ASSUME NEW k \in Traces, CloseTrace(k) PROVE Complete'
    BY <1>5, CloseComplete
  <1>6. ASSUME NEW i \in Traces, Flush(i) \/ Close(i) PROVE Complete'
    BY <1>6, ProgramComplete
  <1>7. CASE UNCHANGED vars
    BY <1>0, <1>7, QuietComplete DEF vars
  <1>8. ASSUME NEW i \in Traces, Sleep(i) PROVE Complete'
    BY <1>7, <1>8 DEF Sleep
  <1>9. CASE Finished
    BY <1>7, <1>9 DEF Finished
  <1> QED
    BY <1>1, <1>2, <1>3, <1>4, <1>5, <1>6, <1>7, <1>8, <1>9 DEF Next, Merge

\* What the merged trace is made of, and that a closed trace is complete.
LEMMA CompleteMerge ==
    ASSUME Complete
    PROVE  NothingLost /\ NamesKept
  <1>1. \A k \in 1 .. numtrc : trc[k].src = k
    BY DEF Complete, Opened
  <1>2. ASSUME phase \in {"merge", "done"}, NEW i \in 1 .. argc
        PROVE  \E k \in 1 .. numtrc : trc[k].src = i
    BY <1>1, <1>2 DEF Complete, Opened
  <1>3. ASSUME NEW m \in 1 .. Len(out)
        PROVE  LET k == out[m].slot
                   w == written[trc[k].src]
                   n == Nth(out, k, m)
               IN /\ n <= Len(w) /\ out[m].time = w[n].ti
                  /\ out[m].gid = NameOf[trc[k].src][w[n].ev]
    <2>1. PICK k, n : k = out[m].slot /\ n = Nth(out, k, m)
      OBVIOUS
    <2>2. /\ k \in 1 .. numtrc /\ n \in 1 .. Len(written[k])
          /\ out[m].time = written[k][n].ti
          /\ out[m].gid = NameOf[k][written[k][n].ev]
      BY <2>1 DEF Complete, Faithful, Copies
    <2>3. trc[k].src = k /\ Len(written[k]) \in Nat
      BY <2>2, InUseComplete
    <2> QED
      BY <2>1, <2>2, <2>3
  <1>4. ASSUME NEW k \in 1 .. numtrc, ~trc[k].open
        PROVE  /\ Nth(out, k, Len(out)) = Len(written[trc[k].src])
               /\ ended[trc[k].src]
    <2>1. trc[k].src = k
      BY <1>1
    <2>2. /\ Nth(out, k, Len(out)) = Taken(k)
          /\ trc[k].pos = Len(written[k]) /\ ended[k]
      BY <1>4 DEF Complete, Reading
    <2>3. Taken(k) = trc[k].pos
      BY <1>4 DEF Taken
    <2> QED
      BY <2>1, <2>2, <2>3
  <1>5. NothingLost
    BY <1>2, <1>3, <1>4 DEF NothingLost
  <1>6. NamesKept
    BY <1>3 DEF NamesKept
  <1> QED
    BY <1>5, <1>6

\* Every record of every trace is merged once and in its order, and a trace is
\* closed only when nothing will be added to it, if the merge finds traces that
\* have begun and waits for those that go on.
THEOREM RecordsAreKept == Orderly => (Spec => []NothingLost)
  <1> SUFFICES ASSUME Orderly PROVE Spec => []NothingLost
    OBVIOUS
  <1>1. Complete => NothingLost
    BY CompleteMerge
  <1>2. Complete /\ [Next]_vars => Complete'
    BY NextComplete
  <1> QED
    BY <1>1, <1>2, InitComplete, PTL DEF Spec

\* Every merged record names the event that its trace meant, although the EDF
\* file grows after the merge has read it.
THEOREM EventsKeepNames == Orderly => (Spec => []NamesKept)
  <1> SUFFICES ASSUME Orderly PROVE Spec => []NamesKept
    OBVIOUS
  <1>1. Complete => NamesKept
    BY CompleteMerge
  <1>2. Complete /\ [Next]_vars => Complete'
    BY NextComplete
  <1> QED
    BY <1>1, <1>2, InitComplete, PTL DEF Spec

=============================================================================
