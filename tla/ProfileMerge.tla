----------------------------- MODULE ProfileMerge -----------------------------
(***************************************************************************)
(* Tau_mergeProfiles_MPI (src/src/Profile/TauProfileMerge.cpp): the ranks  *)
(* unify their functions, then their atomic events, as in Unify; each      *)
(* writes the profiles of its threads to a buffer under the global ids     *)
(* (TauSnapshot.cpp), statistics over all threads of all ranks are reduced *)
(* to rank 0 (TauCollate.cpp), and rank 0 collects the buffers, one rank   *)
(* after the other, into one file that begins with the names.              *)
(*                                                                         *)
(* An entry of a database has a name and, for each thread, the number of   *)
(* calls and one measured value, which stands for all of them: inclusive   *)
(* and exclusive times, calls and subroutine calls of a function, minimum, *)
(* maximum, mean and sum of squares of an atomic event.                    *)
(***************************************************************************)
EXTENDS Unify, SequencesExt

CONSTANTS
    NumThreads, \* threads of each rank
    Settings    \* summary: TAU_SUMMARY; precompute: TAU_STAT_PRECOMPUTE;
                \* opens: the merged file can be created

Threads == 1 .. NumThreads

\* A value is not negative: a sum below zero ends the program in an assertion.
ASSUME MergeAssumption ==
    /\ NumThreads \in Nat \ {0}
    /\ Settings \subseteq [summary : BOOLEAN, precompute : BOOLEAN,
                           opens : BOOLEAN]
    /\ \A e \in Entries : /\ e.calls \in [Threads -> Nat]
                          /\ e.value \in [Threads -> Nat]

VARIABLES
    setting,  \* of the environment, the same on all ranks
    buffer,   \* buffer[r]: the snapshot buffers of the rank's threads
    contrib,  \* contrib[r]: what rank r has put into the reductions
    stats,    \* on rank 0: what came out of them
    file,     \* the merged file: names, blocks of the ranks, statistics
    gather    \* the rank whose buffer is collected next

mergeVars == <<setting, buffer, contrib, stats, file, gather>>
allVars == <<vars, mergeVars>>

None == <<>>
NoFile == [names |-> [l \in Listers |-> <<>>], blocks |-> <<>>, stats |-> None]

MergeInit ==
    /\ Init
    /\ setting \in Settings
    /\ buffer = [r \in Ranks |-> None]
    /\ contrib = [r \in Ranks |-> None]
    /\ stats = None
    /\ file = NoFile
    /\ gather = 1

\* Tau_unify_unifyDefinitions_MPI: after the functions, the atomic events.
NextLister(r) ==
    /\ pc[r] = "done"
    /\ lister[r] = "functions"
    /\ lister' = [lister EXCEPT ![r] = "atomics"]
    /\ GoTo(r, "start")
    /\ UNCHANGED <<db, eager, treeVars, chan, bcast, unifier, wild, mergeVars>>

(***************************************************************************)
(* The events of rank r by global ids: globalmap reverses the mapping, -1  *)
(* (here 0) where the event did not occur in the rank.                     *)
(***************************************************************************)
GlobalIds(r, l) == 1 .. unifier[r][l].globalNumItems

GlobalMap(r, l) ==
    LET u == unifier[r][l]
        at(e) == {i \in 1 .. u.localNumItems : u.mapping[i] = e}
    IN [e \in GlobalIds(r, l) |->
           IF at(e) = {} THEN 0 ELSE CHOOSE i \in at(e) : \A k \in at(e) : k <= i]

Occurs(r, l, e) == GlobalMap(r, l)[e] # 0
\* Mutant: an id is taken for a position in the database.
EventUnsorted(r, l, e) == db[l][r][GlobalMap(r, l)[e]]

Event(r, l, e) == db[l][r][unifier[r][l].sortMap[GlobalMap(r, l)[e]]]

Data(r, l, t, ids) ==
    {<<e, Event(r, l, e).calls[t], Event(r, l, e).value[t]>> : e \in ids}

\* Functions are written if the thread has called them, atomic events always.
ThreadProfile(r, t) ==
    [l \in Listers |->
        Data(r, l, t, {e \in GlobalIds(r, l) :
            Occurs(r, l, e)
            /\ (l = "functions" => Event(r, l, e).calls[t] > 0)})]

\* Mutant: only the thread that merges writes its buffer.
SnapshotMainOnly(r) ==
    /\ pc[r] = "done"
    /\ lister[r] = "atomics"
    /\ buffer' = [buffer EXCEPT ![r] =
           [t \in {1} |-> IF setting.summary THEN [l \in Listers |-> {}]
                          ELSE ThreadProfile(r, t)]]
    /\ GoTo(r, "reduce")
    /\ UNCHANGED <<db, eager, lister, treeVars, chan, bcast, unifier, wild, setting,
                   contrib, stats, file, gather>>

\* Tau_snapshot_writeUnifiedBuffer of every thread.  With TAU_SUMMARY it
\* returns early, without data and without giving back the database lock.
Snapshot(r) ==
    /\ pc[r] = "done"
    /\ lister[r] = "atomics"
    /\ buffer' = [buffer EXCEPT ![r] =
           [t \in Threads |-> IF setting.summary THEN [l \in Listers |-> {}]
                              ELSE ThreadProfile(r, t)]]
    /\ GoTo(r, "reduce")
    /\ UNCHANGED <<db, eager, lister, treeVars, chan, bcast, unifier, wild, setting,
                   contrib, stats, file, gather>>

(***************************************************************************)
(* The statistics.  A rank combines its threads (getStepValue), MPI_Reduce *)
(* the ranks.                                                              *)
(***************************************************************************)
Steps == {"min", "max", "sum"}

StepValue(step, prev, next) ==
    CASE step = "sum" -> prev + next
      [] step = "max" -> IF next > prev THEN next ELSE prev
      [] step = "min" -> IF next <= 0 THEN prev
                         ELSE IF prev <= 0 \/ next < prev THEN next ELSE prev

\* stat_min, MPI_MAX and MPI_SUM.
Reduced(step, in, inout) ==
    CASE step = "sum" -> in + inout
      [] step = "max" -> IF in > inout THEN in ELSE inout
      [] step = "min" -> IF inout = -1 THEN in
                         ELSE IF in # -1 /\ in < inout THEN in ELSE inout

\* Mutant: minima start from 0, as the other steps do.
FillZero(step) == 0

Fill(step) == IF step = "min" THEN -1 ELSE 0

LocalThreads(r, l, e) ==
    IF Occurs(r, l, e)
    THEN Cardinality({t \in Threads : Event(r, l, e).calls[t] > 0})
    ELSE 0

LocalValue(r, l, step, e) ==
    IF Occurs(r, l, e)
    THEN FoldLeft(LAMBDA prev, next : StepValue(step, prev, next), Fill(step),
                  Event(r, l, e).value)
    ELSE Fill(step)

Contribution(r) ==
    [l \in Listers |->
        [numEventThreads |-> [e \in GlobalIds(r, l) |-> LocalThreads(r, l, e)],
         value |-> [step \in Steps |->
                       [e \in GlobalIds(r, l) |-> LocalValue(r, l, step, e)]]]]

\* The reductions of rank r, of which only those of rank 0 need the others:
\* of the buffer lengths, and of the statistics if they are wanted.
Contribute(r) ==
    /\ r # 0
    /\ pc[r] = "reduce"
    /\ contrib' = [contrib EXCEPT ![r] = Contribution(r)]
    /\ GoTo(r, "ready")
    /\ UNCHANGED <<db, eager, lister, treeVars, chan, bcast, unifier, wild, setting,
                   buffer, stats, file, gather>>

InRankOrder == [i \in 1 .. NumRanks |-> i - 1]

Total(all, l, step, e) ==
    FoldLeft(LAMBDA acc, r : Reduced(step, all[r][l].value[step][e], acc),
             Fill(step), InRankOrder)

TotalThreads(all, l, e) ==
    FoldLeft(LAMBDA acc, r : acc + all[r][l].numEventThreads[e], 0, InRankOrder)

Statistics(all) ==
    [l \in Listers |->
        [numEventThreads |-> [e \in GlobalIds(0, l) |-> TotalThreads(all, l, e)],
         value |-> [step \in Steps |->
                       [e \in GlobalIds(0, l) |-> Total(all, l, step, e)]]]]

Reduce ==
    /\ pc[0] = "reduce"
    /\ \A r \in Ranks \ {0} : contrib[r] # None
    /\ contrib' = [contrib EXCEPT ![0] = Contribution(0)]
    /\ stats' = IF setting.precompute THEN Statistics(contrib') ELSE None
    /\ GoTo(0, "open")
    /\ UNCHANGED <<db, eager, lister, treeVars, chan, bcast, unifier, wild, setting,
                   buffer, file, gather>>

(***************************************************************************)
(* The file.                                                               *)
(***************************************************************************)
WriteDefinitions ==
    /\ pc[0] = "open"
    /\ setting.opens
    /\ file' = [file EXCEPT !.names =
                   [l \in Listers |-> unifier[0][l].globalStrings]]
    /\ GoTo(0, "gather")
    /\ UNCHANGED <<db, eager, lister, treeVars, chan, bcast, unifier, wild, setting,
                   buffer, contrib, stats, gather>>

\* Rank 0 returns, whatever the others do.
OpenFails ==
    /\ pc[0] = "open"
    /\ ~setting.opens
    /\ GoTo(0, "returned")
    /\ UNCHANGED <<db, eager, lister, treeVars, chan, bcast, unifier, wild, mergeVars>>

AskRank ==
    /\ pc[0] = "gather"
    /\ gather \in Ranks
    /\ Send(0, gather, "ok", <<>>)
    /\ GoTo(0, "blocklen")
    /\ UNCHANGED <<db, eager, lister, treeVars, bcast, unifier, wild, mergeVars>>

ReceiveBlockLength ==
    /\ pc[0] = "blocklen"
    /\ Arrived(0, gather, "len")
    /\ Receive(0, gather)
    /\ GoTo(0, "block")
    /\ UNCHANGED <<db, eager, lister, treeVars, bcast, unifier, wild, mergeVars>>

\* With TAU_SUMMARY only the buffer of rank 1 is written, besides rank 0's.
WriteBlock ==
    /\ pc[0] = "block"
    /\ Arrived(0, gather, "block")
    /\ Receive(0, gather)
    /\ file' = IF setting.summary /\ gather # 1 THEN file
               ELSE [file EXCEPT !.blocks =
                        Append(@, [rank |-> gather, data |-> Body(0, gather)])]
    /\ gather' = gather + 1
    /\ GoTo(0, "gather")
    /\ UNCHANGED <<db, eager, lister, treeVars, bcast, unifier, wild, setting, buffer,
                   contrib, stats>>

\* Its own buffer last, then the statistics.
WriteOwn ==
    /\ pc[0] = "gather"
    /\ gather \notin Ranks
    /\ file' = [file EXCEPT !.blocks =
                    Append(@, [rank |-> 0, data |-> buffer[0]]), !.stats = stats]
    /\ GoTo(0, "returned")
    /\ UNCHANGED <<db, eager, lister, treeVars, chan, bcast, unifier, wild, setting,
                   buffer, contrib, stats, gather>>

SendBlockLength(r) ==
    /\ pc[r] = "ready"
    /\ Arrived(r, 0, "ok")
    /\ chan' = [chan EXCEPT ![<<0, r>>] = Tail(@),
                            ![<<r, 0>>] = Append(@, Msg("len", Len(buffer[r])))]
    /\ GoTo(r, "sendblock")
    /\ UNCHANGED <<db, eager, lister, treeVars, bcast, unifier, wild, mergeVars>>

SendBlock(r) ==
    /\ pc[r] = "sendblock"
    /\ Send(r, 0, "block", buffer[r])
    /\ GoTo(r, "returned")
    /\ UNCHANGED <<db, eager, lister, treeVars, bcast, unifier, wild, mergeVars>>

RootStep ==
    \/ Reduce \/ WriteDefinitions \/ OpenFails \/ AskRank
    \/ ReceiveBlockLength \/ WriteBlock \/ WriteOwn

RankStep(r) ==
    /\ Sent(r)
    /\ \/ UnifyStep(r) /\ UNCHANGED mergeVars
       \/ NextLister(r) \/ Snapshot(r) \/ Contribute(r)
       \/ SendBlockLength(r) \/ SendBlock(r)
       \/ r = 0 /\ RootStep

ProfileNext == \E r \in Ranks :
    \/ RankStep(r)
    \/ Register(r) /\ UNCHANGED mergeVars

MergeSpec == MergeInit /\ [][ProfileNext]_allVars
FairMergeSpec == MergeSpec /\ \A r \in Ranks : WF_allVars(RankStep(r))

-----------------------------------------------------------------------------

Profile == [Threads -> [Listers -> SUBSET (Nat \X Nat \X Int)]]
Blocks == [rank : Ranks, data : Profile]

Places == {"start", "buffer", "tree", "len", "names", "merge", "ok", "send", "map",
           "down", "done", "reduce", "ready", "sendblock", "open", "gather",
           "blocklen", "block", "returned"}

\* Types of the variables that the merge adds or uses for more than Unify.
MergeTypeOK ==
    /\ setting \in Settings
    /\ pc \in [Ranks -> Places]
    /\ \A r \in Ranks : buffer[r] = None \/ buffer[r] \in Profile
    /\ \A i \in 1 .. Len(file.blocks) : file.blocks[i] \in Blocks
    /\ gather \in 1 .. NumRanks
    /\ \A p \in Ranks \X Ranks, i \in 1 .. 2 : i \in DOMAIN chan[p] =>
           \/ chan[p][i] \in Message
           \/ chan[p][i].kind = "block" /\ chan[p][i].body \in Profile
    /\ \A p \in Ranks \X Ranks : Len(chan[p]) <= 2

MergeAwaited(r) ==
    CASE pc[r] = "blocklen" -> {<<gather, "len">>}
      [] pc[r] = "block" -> {<<gather, "block">>}
      [] pc[r] = "ready" -> {<<0, "ok">>}
      [] OTHER -> Awaited(r)

\* All messages have the same tag, in the trees of both calls and when the
\* buffers are collected, and they may be received long after they were sent:
\* still no rank ever receives another message than the one it waits for, nor
\* a table that is longer than the array for it.
MessagesMatch ==
    \A r \in Ranks : \A w \in MergeAwaited(r) : Matches(r, w[1], w[2])

Written == pc[0] = "returned" /\ setting.opens

\* What rank r had registered when its names were read.
Known(r, l) == {db[l][r][i] : i \in 1 .. unifier[r][l].localNumItems}

WrittenRanks ==
    IF setting.summary THEN (IF NumRanks > 1 THEN <<1, 0>> ELSE <<0>>)
    ELSE [i \in 1 .. NumRanks |-> i % NumRanks]

\* A reader of the file who looks up the ids in the names at its beginning
\* gets back, for each thread of each rank, its functions with their numbers,
\* those that it has called and no others, and all atomic events of the rank.
\* (Unless a rank has read its sort map behind the end: then a function may be
\* missing in the lists, or twice.)
FileFaithful ==
    Written /\ wild = {} =>
        /\ [i \in 1 .. Len(file.blocks) |-> file.blocks[i].rank] = WrittenRanks
        /\ ~setting.summary => \A i \in 1 .. Len(file.blocks), l \in Listers :
            LET block == file.blocks[i] IN
            \A t \in Threads :
                {<<file.names[l][d[1]], d[2], d[3]>> : d \in block.data[t][l]}
                = {<<e.name, e.calls[t], e.value[t]>> : e \in
                      {e \in Known(block.rank, l) :
                           l = "functions" => e.calls[t] > 0}}

\* All places of a name: rank, position in its database, thread.
PlacesOf(n, l) ==
    {p \in UNION {{r} \X (1 .. unifier[r][l].localNumItems) \X Threads :
                      r \in Ranks} : db[l][p[1]][p[2]].name = n}

ValueAt(l, p) == db[l][p[1]][p[2]].value[p[3]]
CallsAt(l, p) == db[l][p[1]][p[2]].calls[p[3]]

\* The reduced statistics of a name are those of all threads of all ranks that
\* have it, taken together: values that are not positive do not count for the
\* minimum, which is -1 when there are no others.  (Unless a rank has read its
\* sort map behind the end.)
StatsExact ==
    Written /\ wild = {} /\ setting.precompute => \A l \in Listers, n \in Names :
        LET ids == {e \in GlobalIds(0, l) : file.names[l][e] = n}
            places == PlacesOf(n, l)
            values == {ValueAt(l, p) : p \in places}
            s == file.stats[l]
        IN ids # {} =>
            /\ MapThenSumSet(LAMBDA e : s.numEventThreads[e], ids)
               = Cardinality({p \in places : CallsAt(l, p) > 0})
            /\ MapThenSumSet(LAMBDA e : s.value["sum"][e], ids)
               = MapThenSumSet(LAMBDA p : ValueAt(l, p), places)
            /\ Max({s.value["max"][e] : e \in ids}) = Max(values \cup {0})
            /\ LET mins == {s.value["min"][e] : e \in ids} \ {-1}
                   positive == {v \in values : v > 0}
               IN /\ (mins = {}) = (positive = {})
                  /\ mins # {} => Min(mins) = Min(positive)

\* If the file can be created, every rank gets to the end of the merge, with
\* sends that wait for their receives as well as with sends that do not, unless a
\* rank has read its sort map behind the end and may have crashed.
MergeEnds ==
    setting.opens => <>(wild # {} \/ \A r \in Ranks : pc[r] = "returned")

=============================================================================
