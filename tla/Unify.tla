-------------------------------- MODULE Unify --------------------------------
(***************************************************************************)
(* Tau_unify_unifyEvents_MPI (src/src/Profile/TauUnify.cpp): the ranks of  *)
(* an MPI program agree on global ids for their events.  Each rank sorts   *)
(* the names of its events; along a binomial tree the sorted lists travel  *)
(* to rank 0, where every rank on the way merges those of its children     *)
(* with its own; on the way back each rank receives the table from its     *)
(* merged list to the global one and composes it with those of its         *)
(* children.  A call unifies the events of one lister: the functions       *)
(* (FunctionEventLister) or the atomic events (AtomicEventLister).         *)
(*                                                                         *)
(* Names are numbers in the order of strcmp.  Positions are counted from   *)
(* 1, so a table maps positions of a list to positions of another.  All    *)
(* messages have tag 0 on MPI_COMM_WORLD: between two ranks they are       *)
(* received in the order in which they were sent, whatever they are.       *)
(***************************************************************************)
EXTENDS Integers, Sequences, FiniteSets

CONSTANTS
    NumRanks,   \* size of MPI_COMM_WORLD
    Entries,    \* what an event database may hold: records with a name
    Databases,  \* the events the ranks may have registered, see Init
    Growing,    \* the <<l, r>> to which other threads of rank r add events
                \* meanwhile, and
    NewEntries, \* what they register
    MaxEvents   \* bound: events in a database to which one is added

Ranks == 0 .. NumRanks - 1
Listers == {"functions", "atomics"}
Names == {e.name : e \in Entries}

ASSUME UnifyAssumption ==
    /\ NumRanks \in Nat \ {0}
    /\ Names \subseteq Nat
    /\ NewEntries \subseteq Entries /\ Growing \subseteq Listers \X Ranks
    /\ Databases \subseteq [Listers -> [Ranks -> Seq(Entries)]]

VARIABLES
    db,         \* db[l][r]: TheFunctionDB, TheEventDB of rank r
    eager,      \* MPI_Send returns before its message is received
    lister,     \* lister[r]: the EventLister of the call rank r is in
    pc,         \* pc[r]: what rank r does next
    mask,       \* mask[r]: 1, 2, 4, ...
    sortMap,    \* sortMap[r][i]: where the i-th least name is in the database
    objs,       \* unifyObjects: the rank's own, then those of its children
    merged,     \* mergedObject->strings
    numStrings, \* mergedObject->numStrings, made up where nothing is merged
    child,      \* the child whose table is sent next
    chan,       \* chan[s, d]: messages from s that d has not received
    bcast,      \* what rank 0 has broadcast for a lister, -1: nothing yet
    unifier,    \* unifier[r][l]: the object returned
    wild        \* history: the <<l, r>> where r read behind the end of its map

treeVars == <<mask, sortMap, objs, merged, numStrings, child>>
vars == <<db, eager, lister, pc, treeVars, chan, bcast, unifier, wild>>

(***************************************************************************)
(* Messages.  A rank whose MPI_Send has not returned does nothing.         *)
(***************************************************************************)
Message == [kind : {"ok"}, body : {<<>>}]
           \cup [kind : {"len"}, body : Nat]
           \cup [kind : {"names"}, body : Seq(Names)]
           \cup [kind : {"map"}, body : Seq(Nat)]

Msg(kind, body) == [kind |-> kind, body |-> body]

Sent(r) == eager \/ \A d \in Ranks : chan[r, d] = <<>>

Arrived(r, s, kind) == chan[s, r] # <<>> /\ Head(chan[s, r]).kind = kind

Body(r, s) == Head(chan[s, r]).body

Send(r, d, kind, body) ==
    chan' = [chan EXCEPT ![<<r, d>>] = Append(@, Msg(kind, body))]

Receive(r, s) == chan' = [chan EXCEPT ![<<s, r>>] = Tail(@)]

(***************************************************************************)
(* The tree: rank r receives from r + 1, r + 2, r + 4, ... as long as the  *)
(* bit is not set in r, and sends to r without its least bit.              *)
(***************************************************************************)
HasBit(r) == (r \div mask[r]) % 2 = 1
Source(r) == r + mask[r]
Parent(r) == r - mask[r]

\* processBuffer: a list as it was received, mapped to itself.
NewObject(rank, strings) ==
    [rank |-> rank, strings |-> strings,
     mapping |-> [i \in 1 .. Len(strings) |-> i], idx |-> 1]

\* The orders in which std::sort may leave the events.
SortMaps(entries) ==
    {p \in [1 .. Len(entries) -> 1 .. Len(entries)] :
        \A i, j \in 1 .. Len(entries) :
            i < j => p[i] # p[j] /\ entries[p[i]].name <= entries[p[j]].name}

\* A definition buffer begins with the number of its names: never empty.
BufferLength(strings) == 1 + Len(strings)

\* The list a rank sends up: merged, or its own when it has no children.
Up(r) == IF Len(objs[r]) > 1 THEN merged[r] ELSE objs[r][1].strings

NoUnifier == [globalNumItems |-> -1, localNumItems |-> 0, sortMap |-> <<>>,
              mapping |-> <<>>, globalStrings |-> <<>>]

Init ==
    /\ db \in Databases
    /\ eager \in BOOLEAN
    /\ lister = [r \in Ranks |-> "functions"]
    /\ pc = [r \in Ranks |-> "start"]
    /\ mask = [r \in Ranks |-> 1]
    /\ sortMap = [r \in Ranks |-> <<>>]
    /\ objs = [r \in Ranks |-> <<>>]
    /\ merged = [r \in Ranks |-> <<>>]
    /\ numStrings = [r \in Ranks |-> 0]
    /\ child = [r \in Ranks |-> 2]
    /\ chan = [p \in Ranks \X Ranks |-> <<>>]
    /\ bcast = [l \in Listers |-> -1]
    /\ unifier = [r \in Ranks |-> [l \in Listers |-> NoUnifier]]
    /\ wild = {}

GoTo(r, place) == pc' = [pc EXCEPT ![r] = place]

\* Tau_unify_generateSortMap_MPI: a map as long as the database is now, ...
Start(r) ==
    /\ pc[r] = "start"
    /\ GoTo(r, "buffer")
    /\ \E order \in SortMaps(db[lister[r]][r]) :
           sortMap' = [sortMap EXCEPT ![r] = order]
    /\ UNCHANGED <<db, eager, lister, mask, objs, merged, numStrings, child, chan,
                   bcast, unifier, wild>>

\* ... and Tau_unify_generateLocalDefinitionBuffer, which takes as many names by
\* that map as the database has by then: if another thread has registered events
\* in between, it reads the map beyond its end, and finds some index there...
Reads(map, entries) ==
    {p \in [1 .. Len(entries) -> 1 .. Len(entries)] :
        \A i \in 1 .. Len(map) : p[i] = map[i]}

Overread(r) == Len(db[lister[r]][r]) > Len(sortMap[r])

FillBuffer(r) ==
    /\ pc[r] = "buffer"
    /\ <<lister[r], r>> \notin wild
    /\ GoTo(r, "tree")
    /\ \E order \in Reads(sortMap[r], db[lister[r]][r]) :
        /\ sortMap' = [sortMap EXCEPT ![r] = order]
        /\ objs' = [objs EXCEPT ![r] = <<NewObject(-1,
               [i \in 1 .. Len(order) |-> db[lister[r]][r][order[i]].name])>>]
    /\ mask' = [mask EXCEPT ![r] = 1]
    /\ merged' = [merged EXCEPT ![r] = <<>>]
    /\ child' = [child EXCEPT ![r] = 2]
    /\ wild' = IF Overread(r) THEN wild \cup {<<lister[r], r>>} ELSE wild
    /\ UNCHANGED <<db, eager, lister, numStrings, chan, bcast, unifier>>

\* ... or something that is no index, and the rank goes no further.
FillBufferCrash(r) ==
    /\ pc[r] = "buffer"
    /\ <<lister[r], r>> \notin wild
    /\ Overread(r)
    /\ wild' = wild \cup {<<lister[r], r>>}
    /\ UNCHANGED <<db, eager, lister, pc, treeVars, chan, bcast, unifier>>

NextMask(r) == mask' = [mask EXCEPT ![r] = 2 * @]

\* Mutant: a child that does not exist ends the loop.
SkipChildEnds(r) ==
    /\ pc[r] = "tree"
    /\ mask[r] < NumRanks
    /\ ~HasBit(r)
    /\ Source(r) \notin Ranks
    /\ GoTo(r, IF Len(objs[r]) > 1 THEN "merge" ELSE "ok")
    /\ UNCHANGED <<db, eager, lister, treeVars, chan, bcast, unifier, wild>>

\* The child that the bit stands for does not exist.
SkipChild(r) ==
    /\ pc[r] = "tree"
    /\ mask[r] < NumRanks
    /\ ~HasBit(r)
    /\ Source(r) \notin Ranks
    /\ NextMask(r)
    /\ UNCHANGED <<db, eager, lister, pc, sortMap, objs, merged, numStrings,
                   child, chan, bcast, unifier, wild>>

AskChild(r) ==
    /\ pc[r] = "tree"
    /\ mask[r] < NumRanks
    /\ ~HasBit(r)
    /\ Source(r) \in Ranks
    /\ Send(r, Source(r), "ok", <<>>)
    /\ GoTo(r, "len")
    /\ UNCHANGED <<db, eager, lister, treeVars, bcast, unifier, wild>>

\* The length is never 0, so the buffer is always received.
ReceiveLength(r) ==
    /\ pc[r] = "len"
    /\ Arrived(r, Source(r), "len")
    /\ Receive(r, Source(r))
    /\ GoTo(r, "names")
    /\ UNCHANGED <<db, eager, lister, treeVars, bcast, unifier, wild>>

ReceiveNames(r) ==
    /\ pc[r] = "names"
    /\ Arrived(r, Source(r), "names")
    /\ Receive(r, Source(r))
    /\ objs' = [objs EXCEPT ![r] =
                    Append(@, NewObject(Source(r), Body(r, Source(r))))]
    /\ NextMask(r)
    /\ GoTo(r, "tree")
    /\ UNCHANGED <<db, eager, lister, sortMap, merged, numStrings, child,
                   bcast, unifier, wild>>

\* Only rank 0 gets past the loop: any other has a bit below NumRanks.
EndTree(r) ==
    /\ pc[r] = "tree"
    /\ \/ mask[r] < NumRanks /\ HasBit(r)
       \/ mask[r] >= NumRanks /\ r = 0
    /\ GoTo(r, IF r = 0 \/ Len(objs[r]) > 1 THEN "merge" ELSE "ok")
    /\ UNCHANGED <<db, eager, lister, treeVars, chan, bcast, unifier, wild>>

(***************************************************************************)
(* Tau_unify_mergeObjects, one turn of its loop at a time: the least of    *)
(* the lists' current names gets the next position, and the lists that     *)
(* have it are advanced, by one name each.                                 *)
(***************************************************************************)
Live(o) == o.idx <= Len(o.strings)
Current(o) == o.strings[o.idx]

Advanced(o, name, count) ==
    IF Live(o) /\ Current(o) = name
    THEN [o EXCEPT !.mapping[o.idx] = count, !.idx = o.idx + 1]
    ELSE o

LiveObjs(r) == {i \in 1 .. Len(objs[r]) : Live(objs[r][i])}

\* Mutant: lists with the same name are not advanced together.
MergeNextOneList(r) ==
    /\ pc[r] = "merge"
    /\ \E i \in LiveObjs(r) :
        LET name == Current(objs[r][i]) IN
        /\ \A k \in LiveObjs(r) : name <= Current(objs[r][k])
        /\ merged' = [merged EXCEPT ![r] = Append(@, name)]
        /\ objs' = [objs EXCEPT ![r][i] = Advanced(@, name, Len(merged[r]) + 1)]
    /\ UNCHANGED <<db, eager, lister, pc, mask, sortMap, numStrings, child,
                   chan, bcast, unifier, wild>>

MergeNext(r) ==
    /\ pc[r] = "merge"
    /\ \E i \in LiveObjs(r) :
        LET name == Current(objs[r][i]) IN
        /\ \A k \in LiveObjs(r) : name <= Current(objs[r][k])
        /\ merged' = [merged EXCEPT ![r] = Append(@, name)]
        /\ objs' = [objs EXCEPT ![r] = [k \in 1 .. Len(objs[r]) |->
                       Advanced(objs[r][k], name, Len(merged[r]) + 1)]]
    /\ UNCHANGED <<db, eager, lister, pc, mask, sortMap, numStrings, child,
                   chan, bcast, unifier, wild>>

MergeEnd(r) ==
    /\ pc[r] = "merge"
    /\ LiveObjs(r) = {}
    /\ GoTo(r, IF r = 0 THEN "down" ELSE "ok")
    /\ UNCHANGED <<db, eager, lister, treeVars, chan, bcast, unifier, wild>>

\* The go-ahead of the parent is answered with the length.
SendLength(r) ==
    /\ pc[r] = "ok"
    /\ Arrived(r, Parent(r), "ok")
    /\ chan' = [chan EXCEPT ![<<Parent(r), r>>] = Tail(@),
                            ![<<r, Parent(r)>>] = Append(@,
                                Msg("len", BufferLength(Up(r))))]
    /\ GoTo(r, "send")
    /\ UNCHANGED <<db, eager, lister, treeVars, bcast, unifier, wild>>

\* Mutant: the table of a rank is as long as its own list.
SendNamesOwnCount(r) ==
    /\ pc[r] = "send"
    /\ Send(r, Parent(r), "names", Up(r))
    /\ numStrings' = [numStrings EXCEPT ![r] = Len(db[lister[r]][r])]
    /\ GoTo(r, "map")
    /\ UNCHANGED <<db, eager, lister, mask, sortMap, objs, merged, child,
                   bcast, unifier, wild>>

\* A rank that has merged nothing takes the number of names for its table
\* from the database, as it is by now.
SendNames(r) ==
    /\ pc[r] = "send"
    /\ Send(r, Parent(r), "names", Up(r))
    /\ numStrings' = [numStrings EXCEPT ![r] =
           IF Len(objs[r]) > 1 THEN Len(merged[r]) ELSE Len(db[lister[r]][r])]
    /\ GoTo(r, "map")
    /\ UNCHANGED <<db, eager, lister, mask, sortMap, objs, merged, child,
                   bcast, unifier, wild>>

\* The table of the parent, applied to all objects.
Mapped(o, table) ==
    [o EXCEPT !.mapping = [j \in 1 .. Len(o.mapping) |-> table[o.mapping[j]]]]

\* Mutant: the tables of the children are not composed with the parent's.
ReceiveMapOwnOnly(r) ==
    /\ pc[r] = "map"
    /\ Arrived(r, Parent(r), "map")
    /\ Receive(r, Parent(r))
    /\ objs' = [objs EXCEPT ![r][1] = Mapped(@, Body(r, Parent(r)))]
    /\ GoTo(r, "down")
    /\ UNCHANGED <<db, eager, lister, mask, sortMap, merged, numStrings, child,
                   bcast, unifier, wild>>

ReceiveMap(r) ==
    /\ pc[r] = "map"
    /\ Arrived(r, Parent(r), "map")
    /\ Receive(r, Parent(r))
    /\ objs' = [objs EXCEPT ![r] = [k \in 1 .. Len(objs[r]) |->
                    Mapped(objs[r][k], Body(r, Parent(r)))]]
    /\ GoTo(r, "down")
    /\ UNCHANGED <<db, eager, lister, mask, sortMap, merged, numStrings, child,
                   bcast, unifier, wild>>

SendMap(r) ==
    /\ pc[r] = "down"
    /\ child[r] <= Len(objs[r])
    /\ Send(r, objs[r][child[r]].rank, "map", objs[r][child[r]].mapping)
    /\ child' = [child EXCEPT ![r] = @ + 1]
    /\ UNCHANGED <<db, eager, lister, pc, mask, sortMap, objs, merged,
                   numStrings, bcast, unifier, wild>>

\* PMPI_Bcast of globalNumItems, and the object that is returned.
Unified(r, numItems) ==
    [globalNumItems |-> numItems,
     localNumItems |-> Len(objs[r][1].strings),
     sortMap |-> sortMap[r],
     mapping |-> objs[r][1].mapping,
     globalStrings |-> IF r = 0 THEN merged[r] ELSE <<>>]

Return(r) ==
    /\ pc[r] = "down"
    /\ child[r] > Len(objs[r])
    /\ r # 0 => bcast[lister[r]] # -1
    /\ LET n == IF r = 0 THEN Len(merged[r]) ELSE bcast[lister[r]] IN
        /\ bcast' = [bcast EXCEPT ![lister[r]] = n]
        /\ unifier' = [unifier EXCEPT ![r][lister[r]] = Unified(r, n)]
    /\ GoTo(r, "done")
    /\ UNCHANGED <<db, eager, lister, treeVars, chan, wild>>

\* Another thread of the rank registers an event.
Register(r) ==
    /\ <<lister[r], r>> \in Growing
    /\ pc[r] # "start"
    /\ Len(db[lister[r]][r]) < MaxEvents
    /\ \E e \in NewEntries :
           db' = [db EXCEPT ![lister[r]][r] = Append(@, e)]
    /\ UNCHANGED <<eager, lister, pc, treeVars, chan, bcast, unifier, wild>>

UnifyStep(r) ==
    \/ Start(r) \/ FillBuffer(r) \/ FillBufferCrash(r)
    \/ SkipChild(r) \/ AskChild(r) \/ ReceiveLength(r)
    \/ ReceiveNames(r) \/ EndTree(r) \/ MergeNext(r) \/ MergeEnd(r)
    \/ SendLength(r) \/ SendNames(r) \/ ReceiveMap(r) \/ SendMap(r)
    \/ Return(r)

Next == \E r \in Ranks : (Sent(r) /\ UnifyStep(r)) \/ Register(r)

Spec == Init /\ [][Next]_vars

-----------------------------------------------------------------------------

Object == [rank : {-1} \cup Ranks, strings : Seq(Names), mapping : Seq(Nat),
           idx : Nat]
Unifier == [globalNumItems : Nat \cup {-1}, localNumItems : Nat,
            sortMap : Seq(Nat), mapping : Seq(Nat),
            globalStrings : Seq(Names)]

\* Types of the variables, for one call.
TypeOK ==
    /\ db \in [Listers -> [Ranks -> Seq(Entries)]]
    /\ eager \in BOOLEAN
    /\ lister \in [Ranks -> Listers]
    /\ pc \in [Ranks -> {"start", "buffer", "tree", "len", "names", "merge",
                         "ok", "send", "map", "down", "done"}]
    /\ mask \in [Ranks -> Nat]
    /\ sortMap \in [Ranks -> Seq(Nat)]
    /\ objs \in [Ranks -> Seq(Object)]
    /\ merged \in [Ranks -> Seq(Names)]
    /\ numStrings \in [Ranks -> Nat]
    /\ child \in [Ranks -> Nat]
    /\ chan \in [Ranks \X Ranks -> Seq(Message)]
    /\ bcast \in [Listers -> Nat \cup {-1}]
    /\ unifier \in [Ranks -> [Listers -> Unifier]]
    /\ wild \in SUBSET (Listers \X Ranks)

\* The id that a rank is given for an event is that of its name, through the
\* merges of all the ranks above it and the tables on the way back, and
\* through the sort map as it was when the call began.  This is so unless the
\* rank itself has read behind the end of that map: whatever other ranks read.
NamesKept ==
    \A r \in Ranks, l \in Listers : <<l, r>> \notin wild =>
        LET u == unifier[r][l]
            global == unifier[0][l].globalStrings
        IN \A i \in 1 .. u.localNumItems :
               /\ u.mapping[i] \in 1 .. Len(global)
               /\ global[u.mapping[i]] = db[l][r][u.sortMap[i]].name

Occurrences(strings, n) == Cardinality({i \in DOMAIN strings : strings[i] = n})

LocalStrings(r, l) ==
    [i \in 1 .. unifier[r][l].localNumItems |->
        db[l][r][unifier[r][l].sortMap[i]].name]

Returned(l) == \A r \in Ranks : unifier[r][l].globalNumItems # -1

\* The global list is sorted and has each name as often as the rank that has
\* it most often, so once if no rank has it twice; all ranks know its length.
\* (One list that is not sorted, because its rank read behind the end of its
\* map, is enough to spoil the merges above it.)
GlobalIsUnion ==
    \A l \in Listers : wild = {} /\ Returned(l) =>
        LET global == unifier[0][l].globalStrings IN
        /\ \A i, j \in DOMAIN global : i < j => global[i] <= global[j]
        /\ \A n \in Names :
            /\ \A r \in Ranks :
                   Occurrences(LocalStrings(r, l), n) <= Occurrences(global, n)
            /\ \E r \in Ranks :
                   Occurrences(LocalStrings(r, l), n) = Occurrences(global, n)
        /\ \A r \in Ranks : unifier[r][l].globalNumItems = Len(global)

\* What rank r waits for in a blocking receive, and from whom.
Awaited(r) ==
    CASE pc[r] \in {"len", "names"} -> {<<Source(r), pc[r]>>}
      [] pc[r] \in {"ok", "map"} -> {<<Parent(r), pc[r]>>}
      [] OTHER -> {}

\* The next message that r would receive from s is what it waits for, and a
\* table fits the array allocated for it.
Matches(r, s, kind) ==
    chan[s, r] # <<>> =>
        /\ Arrived(r, s, kind)
        /\ kind = "map" => Len(Body(r, s)) <= numStrings[r]

=============================================================================
