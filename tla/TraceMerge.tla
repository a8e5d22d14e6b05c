----------------------------- MODULE TraceMerge -----------------------------
(***************************************************************************)
(* tau_merge (src/utils/tau_merge.c, tau_events.cpp): the merge of the     *)
(* threads' trace files into one, in time order.  It may be run while the  *)
(* program still writes its traces: at the end of a file it waits for more *)
(* unless the last record is the WALL_CLOCK that closes a trace.  The ids  *)
(* of events, local to a process, become global ones through the event     *)
(* definition (EDF) files, which the program rewrites as it goes along.    *)
(*                                                                         *)
(* A global id stands for a name one to one (eventNameMap), the model uses *)
(* the name.  What a trace has in its input buffer is a prefix of the file *)
(* that never changes: only the end of the file, met when the buffer is    *)
(* empty, depends on when it is read.                                      *)
(***************************************************************************)
EXTENDS Integers, Sequences, FiniteSets

CONSTANTS
    NumTraces,   \* the traces are 1 .. NumTraces
    Locals,      \* event ids as the program writes them
    Names,       \* names of events
    NameOf,      \* NameOf[i][l]: what l means in the EDF file of trace i
    WallClock,   \* the name "WALL_CLOCK"
    Times,       \* timestamps the program writes
    Word,        \* number of values of an x_uint64
    Blocking,    \* merge without -n
    EdfGiven,    \* merge with -e: the EDF files are named, in order
    Situations,  \* what the merge may meet, see below
    MaxRecords   \* bound: records in a trace

Traces == 1 .. NumTraces

\* Entries of a table: not there, and the 0 that operator[] puts there.
Missing == "missing"
Unknown == "unknown"

\* "online": the program still runs; "empty": nothing is in some trace yet;
\* "reopened": a thread goes on after it has closed its trace; "killed": a
\* trace is never closed.
ASSUME MergeAssumption ==
    /\ NumTraces \in Nat \ {0}
    /\ WallClock \in Names /\ Missing \notin Names /\ Unknown \notin Names
    /\ NameOf \in [Traces -> [Locals -> Names]]
    /\ Word \in Nat \ {0}
    /\ Times \subseteq 0 .. Word - 1
    /\ Blocking \in BOOLEAN /\ EdfGiven \in BOOLEAN
    /\ Situations \subseteq {"online", "empty", "reopened", "killed"}
    /\ MaxRecords \in Nat

VARIABLES
    written,  \* written[i]: the records in the file of trace i
    edf,      \* edf[i]: the events its EDF file defines
    ended,    \* ended[i]: nothing will be added to it
    argc,     \* tau_merge is given the traces 1 .. argc
    adjust,   \* -a
    phase,    \* "open": reads the first records; "merge"; "done"; "failed"
    at,       \* the next trace to open
    numtrc,   \* how many of them are not empty
    trc,      \* trcdes: descriptors, of which the first numtrc are in use
    table,    \* nodeEventTable: table[k][l] is the global id of l in trcdes[k]
    erec,     \* the descriptor whose current record erec points to, 0: NULL
    first,    \* first_time
    turn,     \* the descriptor to be advanced, 0: none
    out       \* the merged trace, with descriptor, overflows, time as read

vars == <<written, edf, ended, argc, adjust, phase, at, numtrc, trc, table, erec,
          first, turn, out>>

program == <<written, edf, ended>>

Records == [ev : Locals, ti : Times]

NotInUse == [src |-> 1, open |-> FALSE, pos |-> 0, over |-> 0, last |-> 0, ti |-> 0,
             gid |-> Missing]

Init ==
    /\ written = [i \in Traces |-> <<>>]
    /\ edf = [i \in Traces |-> {}]
    /\ ended = [i \in Traces |-> FALSE]
    /\ argc \in Traces
    /\ adjust \in BOOLEAN
    /\ phase = "open"
    /\ at = 1
    /\ numtrc = 0
    /\ trc = [k \in Traces |-> NotInUse]
    /\ table = [k \in Traces |-> [l \in Locals |-> Missing]]
    /\ erec = 0
    /\ first = 0
    /\ turn = 0
    /\ out = <<>>

-----------------------------------------------------------------------------
(* The program.                                                            *)

ClosesTrace(i, rs) == NameOf[i][rs[Len(rs)].ev] = WallClock

\* TauTraceFlushBuffer: definitions first, then the records, in one write.
Appended(i, rs) ==
    /\ written' = [written EXCEPT ![i] = @ \o rs]
    /\ edf' = [edf EXCEPT ![i] = @ \cup {rs[n].ev : n \in 1 .. Len(rs)}]

(* A thread writes its buffer in the midst of its run.                     *)
Flush(i) ==
    /\ i <= argc /\ ~ended[i]
    /\ \E n \in 1 .. MaxRecords - Len(written[i]) - 1 : \E rs \in [1 .. n -> Records] :
          /\ ClosesTrace(i, rs) => "reopened" \in Situations
          /\ Appended(i, rs)
    /\ UNCHANGED <<ended, argc, adjust, phase, at, numtrc, trc, table, erec, first, turn, out>>

(* It writes it for the last time.                                         *)
Close(i) ==
    /\ i <= argc /\ ~ended[i]
    /\ \E n \in 1 .. MaxRecords - Len(written[i]) : \E rs \in [1 .. n -> Records] :
          /\ ClosesTrace(i, rs) \/ "killed" \in Situations
          /\ Appended(i, rs)
    /\ ended' = [ended EXCEPT ![i] = TRUE]
    /\ UNCHANGED <<argc, adjust, phase, at, numtrc, trc, table, erec, first, turn, out>>

-----------------------------------------------------------------------------
(* tau_merge opens the traces.                                             *)

MayStart ==
    /\ "online" \in Situations \/ \A i \in 1 .. argc : ended[i]
    /\ "empty" \in Situations \/ \A i \in 1 .. argc : written[i] # <<>>

\* parse_edf_file(k) on the EDF file of trace e: what it does not define stays.
Parsed(k, e) == [l \in Locals |-> IF l \in edf[e] THEN NameOf[e][l] ELSE table[k][l]]

(* A trace with no record is passed over and the next one gets its         *)
(* descriptor; EDF files named on the command line were opened under their *)
(* position there.                                                         *)
OpenTrace ==
    /\ phase = "open" /\ at <= argc
    /\ at = 1 => MayStart
    /\ at' = at + 1
    /\ \/ /\ written[at] = <<>>
          /\ erec' = 0
          /\ UNCHANGED <<numtrc, trc, table>>
       \/ /\ written[at] # <<>>
          /\ LET k == numtrc + 1
                 t == written[at][1].ti
             IN /\ numtrc' = k
                /\ trc' = [trc EXCEPT ![k] = [NotInUse EXCEPT !.src = at, !.open = TRUE,
                                                 !.pos = 1, !.last = t, !.ti = t]]
                /\ erec' = k
                /\ table' = [table EXCEPT ![k] = Parsed(k, IF EdfGiven THEN k ELSE at)]
    /\ UNCHANGED <<program, argc, adjust, phase, first, turn, out>>

(* All are open; with no record at all there is a usage message instead.   *)
StartMerge ==
    /\ phase = "open" /\ at > argc
    /\ phase' = IF numtrc < 1 THEN "failed" ELSE "merge"
    /\ UNCHANGED <<program, argc, adjust, at, numtrc, trc, table, erec, first, turn, out>>

-----------------------------------------------------------------------------
(* The loop.                                                               *)

Active == {k \in 1 .. numtrc : trc[k].open}

\* Mutant: overflows are not compared.
BeforeByTime(j, k) == trc[j].last < trc[k].last

\* Clock overflows count first.
Before(j, k) == \/ trc[j].over < trc[k].over
                \/ trc[j].over = trc[k].over /\ trc[j].last < trc[k].last

\* Mutant: the minimum is not kept, the last open trace is taken.
IsSourceLast(k) == k \in Active /\ \A j \in Active : j <= k

\* source: the first of the open traces with the least time.
IsSource(k) ==
    /\ k \in Active
    /\ \A j \in Active \ {k} : ~Before(j, k) /\ (j < k => Before(k, j))

Event(k) == written[trc[k].src][trc[k].pos].ev

\* The EDF files that GID may read again: get_nodeid's idea of a descriptor is
\* shorter than tau_merge.c's, so that it finds the node id of the first only.
EdfsReread(k) == IF EdfGiven THEN {k} ELSE IF k = 1 THEN {trc[1].src} ELSE Traces

\* Mutant: the table of the first trace is searched again.
ReadAgainFirst(k, e) == IF table[k][Event(k)] = Missing THEN Parsed(k, 1) ELSE table[k]

\* GID(k, Event(k)), with the table read again from EDF file e when the event
\* is not in it.
ReadAgain(k, e) == IF table[k][Event(k)] = Missing THEN Parsed(k, e) ELSE table[k]

GID(known, ev) == IF known[ev] = Missing THEN Unknown ELSE known[ev]

\* Mutant: first_time is set anew for every record.
FirstTimeAlways == IF adjust THEN trc[erec].ti ELSE first

\* -a takes the time of the record read last for the first time, and adjusts
\* that record.
FirstTime == IF adjust /\ out = <<>> THEN trc[erec].ti ELSE first

\* Mutant: the difference does not wrap around.
AdjustedUnwrapped ==
    IF adjust THEN [trc EXCEPT ![erec].ti = @ - FirstTime] ELSE trc

Adjusted == IF adjust THEN [trc EXCEPT ![erec].ti = (@ - FirstTime) % Word] ELSE trc

(* The record of the source is written, under its global event id.         *)
Output(k) ==
    /\ phase = "merge" /\ turn = 0
    /\ IsSource(k)
    /\ adjust => erec # 0
    /\ first' = FirstTime
    /\ \E e \in EdfsReread(k) :
          LET known == ReadAgain(k, e)
              gid   == GID(known, Event(k))
          IN /\ table' = [table EXCEPT ![k] = [known EXCEPT ![Event(k)] = gid]]
             /\ trc' = [Adjusted EXCEPT ![k].gid = gid]
             /\ out' = Append(out, [slot |-> k, gid |-> gid, ti |-> Adjusted[k].ti,
                                    over |-> trc[k].over, time |-> trc[k].last])
    /\ turn' = k
    /\ UNCHANGED <<program, argc, adjust, phase, at, numtrc, erec>>

(* The program crashes or exits: with -a there may be no record that was   *)
(* read last, and the wrong EDF file that is looked for need not exist.    *)
Fail ==
    /\ phase = "merge" /\ turn = 0
    /\ \E k \in Active :
          /\ IsSource(k)
          /\ \/ adjust /\ erec = 0
             \/ table[k][Event(k)] = Missing /\ ~EdfGiven /\ k > 1
    /\ phase' = "failed"
    /\ UNCHANGED <<program, argc, adjust, at, numtrc, trc, table, erec, first, turn, out>>

\* The clock overflows of a trace whose next record has time t.
Overflows(k, t) == trc[k].over + (IF t < trc[k].last THEN 1 ELSE 0)

(* get_next_rec on the source when there is a record.                      *)
NextRec(k) ==
    /\ phase = "merge" /\ turn = k
    /\ k \in Active
    /\ trc[k].pos < Len(written[trc[k].src])
    /\ LET t == written[trc[k].src][trc[k].pos + 1].ti
       IN trc' = [trc EXCEPT ![k] = [@ EXCEPT !.pos = trc[k].pos + 1,
                                              !.over = Overflows(k, t),
                                              !.last = t, !.ti = t, !.gid = Missing]]
    /\ erec' = k
    /\ turn' = 0
    /\ UNCHANGED <<program, argc, adjust, phase, at, numtrc, table, first, out>>

\* Mutant: with -n WALL_CLOCK is waited for as well.
AtEndBoth(k) == ~Blocking /\ trc[k].gid \in {WallClock, Unknown}

\* Mutant: end of file is the end.
AtEndAlways(k) == TRUE

\* May the end of the file be the end of the trace?  No event is named by 0.
AtEnd(k) == ~Blocking \/ trc[k].gid \in {WallClock, Unknown}

(* get_next_rec at the end of the trace.                                   *)
CloseTrace(k) ==
    /\ phase = "merge" /\ turn = k
    /\ k \in Active
    /\ trc[k].pos = Len(written[trc[k].src])
    /\ AtEnd(k)
    /\ trc' = [trc EXCEPT ![k].open = FALSE]
    /\ erec' = 0
    /\ turn' = 0
    /\ phase' = IF Active = {k} THEN "done" ELSE "merge"
    /\ UNCHANGED <<program, argc, adjust, at, numtrc, table, first, out>>

(* get_next_rec asks for more every second.                                *)
Sleep(k) ==
    /\ phase = "merge" /\ turn = k
    /\ k \in Active
    /\ trc[k].pos = Len(written[trc[k].src])
    /\ ~AtEnd(k)
    /\ UNCHANGED vars

Merge == OpenTrace \/ StartMerge \/ Fail
         \/ \E k \in Traces : Output(k) \/ NextRec(k) \/ CloseTrace(k)

(* Nothing is left to do.                                                  *)
Finished ==
    /\ phase \in {"done", "failed"} /\ \A i \in 1 .. argc : ended[i]
    /\ UNCHANGED vars

Next == Merge \/ (\E i \in Traces : Flush(i) \/ Close(i) \/ Sleep(i)) \/ Finished

Spec == Init /\ [][Next]_vars

\* The merge goes on as long as it can; the program owes nothing.
FairSpec == Spec /\ WF_vars(Merge)

-----------------------------------------------------------------------------
(* Properties.                                                             *)

GlobalIds == Names \cup {Missing, Unknown}

Descriptors == [src : Traces, open : BOOLEAN, pos : Nat, over : Nat,
                last : 0 .. Word - 1, ti : 0 .. Word - 1, gid : GlobalIds]

TypeOK ==
    /\ written \in [Traces -> Seq(Records)]
    /\ edf \in [Traces -> SUBSET Locals]
    /\ ended \in [Traces -> BOOLEAN]
    /\ argc \in Traces
    /\ adjust \in BOOLEAN
    /\ phase \in {"open", "merge", "done", "failed"}
    /\ at \in 1 .. argc + 1
    /\ numtrc \in 0 .. argc /\ numtrc < at
    /\ trc \in [Traces -> Descriptors]
    /\ table \in [Traces -> [Locals -> GlobalIds]]
    /\ erec \in 0 .. numtrc
    /\ first \in 0 .. Word - 1
    /\ turn \in 0 .. numtrc
    /\ out \in Seq([slot : Traces, gid : GlobalIds, ti : 0 .. Word - 1, over : Nat,
                    time : 0 .. Word - 1])

InOrder(s) == \A m, n \in 1 .. Len(s) : m < n => s[m].ti <= s[n].ti

\* The merged trace is in time order if each trace is, however the program's
\* writes and the merge's reads interleave.
TimeSorted == ~adjust /\ (\A i \in Traces : InOrder(written[i])) => InOrder(out)

\* In general it is in the order of overflows, then times.
MergedInOrder ==
    \A m, n \in 1 .. Len(out) : m < n =>
        \/ out[m].over < out[n].over
        \/ out[m].over = out[n].over /\ out[m].time <= out[n].time

\* How many of the first m records of s are of descriptor k.
Nth(s, k, m) == Cardinality({j \in 1 .. m : s[j].slot = k})

\* Every trace is merged, its records once each and in their order; and when
\* it has been closed all of them, with none to come.
NothingLost ==
    /\ phase \in {"merge", "done"} =>
          \A i \in 1 .. argc : \E k \in 1 .. numtrc : trc[k].src = i
    /\ \A m \in 1 .. Len(out) :
          LET k == out[m].slot
              w == written[trc[k].src]
          IN Nth(out, k, m) <= Len(w) /\ out[m].time = w[Nth(out, k, m)].ti
    /\ \A k \in 1 .. numtrc : ~trc[k].open =>
          /\ Nth(out, k, Len(out)) = Len(written[trc[k].src])
          /\ ended[trc[k].src]

\* A merged record names the event that its trace meant.
NamesKept ==
    \A m \in 1 .. Len(out) :
        LET k == out[m].slot
            i == trc[k].src
        IN out[m].gid = NameOf[i][written[i][Nth(out, k, m)].ev]

\* -a with one trace: the first record gets time zero and the others keep
\* their distance from it.
AdjustedToZero ==
    adjust /\ argc = 1 =>
        \A n \in 1 .. Len(out) : out[n].ti = (written[1][n].ti - written[1][1].ti) % Word

\* When the program has closed its traces the merge comes to an end.
MergeEnds == (~adjust /\ \A i \in 1 .. argc : ended[i]) ~> phase = "done"

=============================================================================
