-------------------------- MODULE ProfileFileProofs --------------------------
(***************************************************************************)
(* What is in the merged file, for any number of ranks and threads, any    *)
(* databases, settings and order of the steps: the profiles that the ranks *)
(* have measured, under the names that the global lists give their ids;    *)
(* and that each of these lists is the union of what the ranks have.       *)
(***************************************************************************)
EXTENDS ProfileMergeProofs, SumsProofs

(***************************************************************************)
(* The file.  A buffer that has been filled shows what its rank has        *)
(* measured, by the global lists, which are fixed by then; it is the same  *)
(* in the rank, in a message and in the file.  (What it shows is that      *)
(* only if no rank has read its sort map behind the end; that it is a      *)
(* profile, and where it is kept, is so in any case.)                      *)
(***************************************************************************)
Shows(r, data) ==
    \A t \in Threads, l \in Listers :
        {<<Global(l)[d[1]], d[2], d[3]>> : d \in data[t][l]}
        = {<<e.name, e.calls[t], e.value[t]>> : e \in
              {e \in Known(r, l) : l = "functions" => e.calls[t] > 0}}

Faithful(r, data) ==
    /\ data \in Profile
    /\ pc[r] \in Late
    /\ ~setting.summary /\ wild = {} => Shows(r, data)

Held(r) == IF pc[r] \in Late THEN Faithful(r, buffer[r]) ELSE buffer[r] = None

\* What a message from a rank brings.
Brings(s, m) ==
    /\ m = Msg(m.kind, m.body)
    /\ m.kind \in {"ok", "len", "names", "map", "block"}
    /\ m.kind = "ok" => m.body = <<>>
    /\ m.kind = "len" => m.body \in Nat
    /\ m.kind = "block" => Faithful(s, m.body)

Bringing == \A s, d \in Ranks : \A m \in Passing(s, d) : Brings(s, m)

AllFaithful(blocks) ==
    \A i \in 1 .. Len(blocks) : Faithful(blocks[i].rank, blocks[i].data)

Collected == {"gather", "blocklen", "block"}

\* The blocks are those of the ranks before gather, in their order; with
\* TAU_SUMMARY, that of rank 1 alone.
Gathered ==
    IF setting.summary THEN (IF gather > 1 THEN 1 ELSE 0) ELSE gather - 1

Filed ==
    /\ file = [names |-> file.names, blocks |-> file.blocks,
               stats |-> file.stats]
    /\ file.blocks \in Seq(Blocks)
    /\ AllFaithful(file.blocks)
    /\ pc[0] \notin Collected \cup {"returned"} => file = NoFile /\ gather = 1
    /\ pc[0] = "returned" /\ ~setting.opens => file = NoFile
    /\ pc[0] \in Collected => setting.opens
    /\ pc[0] \in Collected \/ Written =>
           \A l \in Listers : file.names[l] = unifier[0][l].globalStrings
    /\ pc[0] \in Collected =>
           /\ Len(file.blocks) = Gathered
           /\ \A i \in 1 .. Gathered : file.blocks[i].rank = i
    /\ Written =>
           /\ Len(file.blocks) = Len(WrittenRanks)
           /\ \A i \in 1 .. Len(WrittenRanks) :
                  file.blocks[i].rank = WrittenRanks[i]

FInv ==
    /\ setting \in Settings
    /\ buffer = [r \in Ranks |-> buffer[r]]
    /\ \A r \in Ranks : Held(r)
    /\ Bringing
    /\ Filed

-----------------------------------------------------------------------------
(* What a buffer shows stays.                                              *)

\* Databases grow at their ends, ranks stay where they have got to, and what
\* has been fixed stays.
Lasting ==
    /\ Grown /\ wild \subseteq wild'
    /\ \A r \in Ranks : pc[r] \in Late =>
           pc'[r] \in Late /\ \A l \in Listers : unifier'[r][l] = unifier[r][l]
    /\ \A l \in Listers : Past(0, l) => Past(0, l)' /\ Global(l)' = Global(l)

LEMMA LatePast ==
    ASSUME PInv, NInv, NEW r \in Ranks, pc[r] \in {"done"} \cup Late,
           lister[r] = "atomics", NEW l \in Listers
    PROVE  /\ Past(r, l) /\ Past(0, l)
           /\ \E strings \in Seq(Names) :
                /\ unifier[r][l].localNumItems = Len(strings)
                /\ unifier[r][l].globalNumItems = Len(Global(l))
                /\ Sorts(unifier[r][l].sortMap, db[l][r], strings)
                /\ Len(unifier[r][l].mapping) = Len(strings)
                /\ Guides(unifier[r][l].mapping, Len(strings), strings, Global(l))
  <1>1. Past(r, l)
    BY DEF Past, Listers
  <1>2. Given(r, l)
    BY DEF NInv, RankNames
  <1>3. PICK u : u = unifier[r][l]
    OBVIOUS
  <1> QED
    BY <1>1, <1>2, <1>3 DEF Given

LEMMA LateLister ==
    ASSUME PInv, NEW r \in Ranks, pc[r] \in Late
    PROVE  lister[r] = "atomics"
  BY DEF PInv, Placed

LEMMA GlobalIsSeq ==
    ASSUME PInv, NInv, NEW l \in Listers
    PROVE  Global(l) \in Seq(Names)
  <1>1. 0 \in Ranks /\ merged \in [Ranks -> Seq(Names)]
        /\ unifier \in [Ranks -> [Listers -> Unifier]]
    BY RankFacts DEF PInv, Forms, NInv, NTypes
  <1>2. unifier[0][l] \in Unifier /\ merged[0] \in Seq(Names)
    <2> HIDE DEF Unifier
    <2> QED
      BY <1>1
  <1>3. unifier[0][l].globalStrings \in Seq(Names)
    BY <1>2 DEF Unifier
  <1> QED
    BY <1>2, <1>3 DEF Global

LEMMA KnownStays ==
    ASSUME PInv, NInv, Lasting, NEW r \in Ranks, pc[r] \in Late, NEW l \in Listers
    PROVE  /\ Known(r, l)' = Known(r, l) /\ Global(l)' = Global(l)
           /\ unifier'[r][l] = unifier[r][l]
           /\ \A i \in 1 .. unifier[r][l].localNumItems :
                  db'[l][r][i] = db[l][r][i]
  <1>1. lister[r] = "atomics"
    BY LateLister
  <1>2. PICK strings \in Seq(Names) :
          /\ unifier[r][l].localNumItems = Len(strings)
          /\ Sorts(unifier[r][l].sortMap, db[l][r], strings)
    BY <1>1, LatePast
  <1>3. PICK n : n = unifier[r][l].localNumItems /\ n = unifier'[r][l].localNumItems
    BY DEF Lasting
  <1>4. n \in Nat /\ n <= Len(db[l][r]) /\ Len(db[l][r]) \in Nat
    BY <1>2, <1>3, LenProperties DEF Sorts, Lasting, Grown
  <1>5. \A i \in 1 .. n : db'[l][r][i] = db[l][r][i]
    BY <1>4 DEF Lasting, Grown
  <1>6. Known(r, l)' = Known(r, l)
    BY <1>3, <1>5 DEF Known
  <1>7. Global(l)' = Global(l)
    BY <1>1, LatePast DEF Lasting
  <1> QED
    BY <1>3, <1>5, <1>6, <1>7 DEF Lasting

LEMMA ShowsStays ==
    ASSUME PInv, NInv, Lasting, setting' = setting,
           NEW r \in Ranks, NEW data, Faithful(r, data)
    PROVE  Faithful(r, data)'
  <1>1. pc[r] \in Late
    BY DEF Faithful
  <1>2. \A l \in Listers : Known(r, l)' = Known(r, l) /\ Global(l)' = Global(l)
    BY <1>1, KnownStays
  <1>3. Shows(r, data) => Shows(r, data)'
    BY <1>2 DEF Shows
  <1>4. pc'[r] \in Late /\ (wild' = {} => wild = {})
    BY <1>1 DEF Lasting
  <1> QED
    BY <1>3, <1>4 DEF Faithful

\* What has been read behind the end of a map stays read.
LEMMA StepWild ==
    ASSUME NEW r \in Ranks, RankStep(r)
    PROVE  wild \subseteq wild'
  <1>1. CASE FillBuffer(r) \/ FillBufferCrash(r)
    BY <1>1 DEF FillBuffer, FillBufferCrash
  <1>2. CASE \/ Start(r) \/ SkipChild(r) \/ AskChild(r) \/ ReceiveLength(r)
             \/ ReceiveNames(r) \/ EndTree(r) \/ MergeNext(r) \/ MergeEnd(r)
    BY <1>2, Zenon DEF Start, SkipChild, AskChild, ReceiveLength, ReceiveNames,
                       EndTree, MergeNext, MergeEnd
  <1>3. CASE \/ SendLength(r) \/ SendNames(r) \/ ReceiveMap(r) \/ SendMap(r)
             \/ Return(r)
    BY <1>3, Zenon DEF SendLength, SendNames, ReceiveMap, SendMap, Return
  <1>4. CASE NextLister(r) \/ LateStep(r)
    BY <1>4, Zenon DEF NextLister, LateStep, Snapshot, Contribute, SendBlockLength,
                SendBlock, RootStep, Reduce, WriteDefinitions, OpenFails,
                AskRank, ReceiveBlockLength, WriteBlock, WriteOwn
  <1> QED
    BY <1>1, <1>2, <1>3, <1>4, StepKinds DEF UnifyStep

LEMMA StepLasts ==
    ASSUME PInv, NInv, NEW r \in Ranks, RankStep(r)
    PROVE  Lasting
  <1>1. NTypes /\ 0 \in Ranks
    BY RankFacts DEF NInv
  <1>2. Steady /\ Rest(r) /\ db' = db
    BY <1>1, SteadyStep, RestOfStep
  <1>3. Grown
    <2>1. ASSUME NEW k \in Listers, NEW q \in Ranks
          PROVE  Len(db[k][q]) \in Nat
      <3>1. db[k][q] \in Seq(Entries)
        BY DEF PInv, Forms
      <3> QED
        BY <3>1, LenProperties
    <2> QED
      BY <1>2, <2>1 DEF Grown
  <1>4. ASSUME NEW q \in Ranks, pc[q] \in Late
        PROVE  /\ pc'[q] \in Late
               /\ \A l \in Listers : unifier'[q][l] = unifier[q][l]
    <2>1. CASE q # r
      BY <1>2, <1>4, <2>1 DEF Rest
    <2>2. CASE q = r
      <3>1. ~UnifyStep(r) /\ ~NextLister(r)
        BY <1>4, <2>2
        DEF UnifyStep, Start, FillBuffer, FillBufferCrash, SkipChild, AskChild,
            ReceiveLength, ReceiveNames, EndTree, MergeNext, MergeEnd,
            SendLength, SendNames, ReceiveMap, SendMap, Return, NextLister,
            Late, AtRoot
      <3>2. LateStep(r)
        BY <3>1, StepKinds
      <3> QED
        BY <2>2, <3>2, LateStepFacts
    <2> QED
      BY <2>1, <2>2
  <1>5. \A l \in Listers : Past(0, l) => Past(0, l)' /\ Global(l)' = Global(l)
    BY <1>2 DEF Steady, Fixed
  <1> QED
    BY <1>3, <1>4, <1>5, StepWild DEF Lasting

LEMMA GrownLasts ==
    ASSUME PInv, NInv, Grown, UNCHANGED <<lister, pc, merged, unifier, wild>>
    PROVE  Lasting
  BY DEF Lasting, Past, Global

-----------------------------------------------------------------------------
(* What the ranks send.                                                    *)

\* A message that rank r may send, and what a step of r adds to a channel.
Fresh(r, m) ==
    /\ m = Msg(m.kind, m.body)
    /\ m.kind \in {"ok", "len", "names", "map", "block"}
    /\ m.kind = "ok" => m.body = <<>>
    /\ m.kind = "len" => m.body \in Nat
    /\ m.kind = "block" => pc[r] = "sendblock" /\ m.body = buffer[r]

Adds(r, s, d) ==
    \A m \in Passing(s, d)' : m \in Passing(s, d) \/ (s = r /\ Fresh(r, m))

AddsOnly(r) == \A s, d \in Ranks : Adds(r, s, d)

LEMMA FreshMessage ==
    ASSUME NEW r, NEW kind, NEW body,
           \/ kind = "ok" /\ body = <<>>
           \/ kind = "len" /\ body \in Nat
           \/ kind \in {"names", "map"}
           \/ kind = "block" /\ pc[r] = "sendblock" /\ body = buffer[r]
    PROVE  Fresh(r, Msg(kind, body))
  <1>1. Msg(kind, body).kind = kind /\ Msg(kind, body).body = body
    BY MsgFields
  <1> QED
    BY <1>1 DEF Fresh

LEMMA AddsOld ==
    ASSUME NEW r, NEW s, NEW d, chan'[s, d] = chan[s, d]
    PROVE  Adds(r, s, d)
  BY DEF Adds, Passing

LEMMA AddsNew ==
    ASSUME NEW r, NEW d, Listed(chan[r, d]), NEW new,
           chan'[r, d] = Append(chan[r, d], new), Fresh(r, new)
    PROVE  Adds(r, r, d)
  <1>1. PICK q : q = chan[r, d]
    OBVIOUS
  <1>2. Listed(q) /\ Len(q) \in Nat
    BY <1>1 DEF Listed
  <1>3. /\ Len(Append(q, new)) = Len(q) + 1
        /\ \A i \in 1 .. Len(q) : Append(q, new)[i] = q[i]
        /\ Append(q, new)[Len(q) + 1] = new
    BY <1>2, ListedAppend
  <1>4. \A i \in 1 .. Len(Append(q, new)) : i \in 1 .. Len(q) \/ i = Len(q) + 1
    BY <1>2, <1>3, UpToNext, Zenon
  <1>5. \A i \in 1 .. Len(Append(q, new)) :
            \/ Append(q, new)[i] = new
            \/ \E j \in 1 .. Len(q) : Append(q, new)[i] = q[j]
    BY <1>3, <1>4, Zenon
  <1>6. chan'[r, d] = Append(q, new)
    BY <1>1
  <1>7. Passing(r, d)' = {Append(q, new)[i] : i \in 1 .. Len(Append(q, new))}
    BY <1>6 DEF Passing
  <1>8. Passing(r, d) = {q[j] : j \in 1 .. Len(q)}
    BY <1>1 DEF Passing
  <1>9. \A m \in Passing(r, d)' : m = new \/ m \in Passing(r, d)
    BY <1>5, <1>7, <1>8, Zenon
  <1> QED
    BY <1>9, Zenon DEF Adds

LEMMA AddsRest ==
    ASSUME NEW r, NEW s, NEW d, NEW kind, Listed(chan[s, d]),
           Arrived(d, s, kind), chan'[s, d] = Tail(chan[s, d])
    PROVE  Adds(r, s, d)
  <1>1. PICK q : q = chan[s, d]
    OBVIOUS
  <1>2. Listed(q) /\ q # <<>>
    BY <1>1 DEF Arrived
  <1>3. \A i \in 1 .. Len(Tail(q)) :
            i + 1 \in 1 .. Len(q) /\ Tail(q)[i] = q[i + 1]
    BY <1>2, ListedTail
  <1>5. chan'[s, d] = Tail(q)
    BY <1>1
  <1>6. Passing(s, d)' = {Tail(q)[i] : i \in 1 .. Len(Tail(q))}
    BY <1>5 DEF Passing
  <1>7. Passing(s, d) = {q[j] : j \in 1 .. Len(q)}
    BY <1>1 DEF Passing
  <1> QED
    BY <1>3, <1>6, <1>7, Zenon DEF Adds

\* Steps that send nothing and take nothing, that send one message, that take
\* one, and that take one and send another.
LEMMA AddsNothing ==
    ASSUME NEW r, chan' = chan
    PROVE  AddsOnly(r)
  BY AddsOld DEF AddsOnly

LEMMA AddsOne ==
    ASSUME Mail, NEW r \in Ranks, NEW d \in Ranks, NEW kind, NEW body,
           Send(r, d, kind, body), Fresh(r, Msg(kind, body))
    PROVE  AddsOnly(r)
  <1>1. PICK m : m = Msg(kind, body)
    OBVIOUS
  <1>2. PICK q : q = Append(chan[r, d], m)
    OBVIOUS
  <1>3. chan' = [chan EXCEPT ![<<r, d>>] = q]
    BY <1>1, <1>2 DEF Send
  <1>4. /\ chan = [e \in Ranks \X Ranks |-> chan[e]]
        /\ \A a, b \in Ranks : Listed(chan[a, b])
    BY DEF Mail, AllFit
  <1>5. chan'[r, d] = q
    BY <1>3, <1>4
  <1>6. \A a, b \in Ranks : a # r \/ b # d => chan'[a, b] = chan[a, b]
    BY <1>3, <1>4
  <1>7. Adds(r, r, d)
    BY <1>1, <1>2, <1>4, <1>5, AddsNew
  <1>8. ASSUME NEW a \in Ranks, NEW b \in Ranks, a # r \/ b # d
        PROVE  Adds(r, a, b)
    BY <1>6, <1>8, AddsOld
  <1> QED
    BY <1>7, <1>8 DEF AddsOnly

LEMMA AddsLess ==
    ASSUME Mail, NEW r, NEW s \in Ranks, NEW d \in Ranks, NEW kind,
           Arrived(d, s, kind), Receive(d, s)
    PROVE  AddsOnly(r)
  <1>1. PICK q : q = Tail(chan[s, d])
    OBVIOUS
  <1>2. chan' = [chan EXCEPT ![<<s, d>>] = q]
    BY <1>1 DEF Receive
  <1>3. /\ chan = [e \in Ranks \X Ranks |-> chan[e]]
        /\ \A a, b \in Ranks : Listed(chan[a, b])
    BY DEF Mail, AllFit
  <1>4. chan'[s, d] = q
    BY <1>2, <1>3
  <1>5. \A a, b \in Ranks : a # s \/ b # d => chan'[a, b] = chan[a, b]
    BY <1>2, <1>3
  <1>6. Adds(r, s, d)
    BY <1>1, <1>3, <1>4, AddsRest
  <1>7. ASSUME NEW a \in Ranks, NEW b \in Ranks, a # s \/ b # d
        PROVE  Adds(r, a, b)
    BY <1>5, <1>7, AddsOld
  <1> QED
    BY <1>6, <1>7 DEF AddsOnly

LEMMA AddsAnswer ==
    ASSUME Mail, NEW s \in Ranks, NEW r \in Ranks, s # r, NEW kind,
           Arrived(r, s, kind), NEW m, Fresh(r, m),
           chan' = [chan EXCEPT ![<<s, r>>] = Tail(@),
                                ![<<r, s>>] = Append(@, m)]
    PROVE  AddsOnly(r)
  <1>1. PICK q1, q2 : q1 = Tail(chan[s, r]) /\ q2 = Append(chan[r, s], m)
    OBVIOUS
  <1>2. /\ chan = [e \in Ranks \X Ranks |-> chan[e]]
        /\ \A a, b \in Ranks : Listed(chan[a, b])
    BY DEF Mail, AllFit
  <1>3. <<s, r>> # <<r, s>>
    BY Zenon
  <1>4. chan' = [chan EXCEPT ![<<s, r>>] = q1, ![<<r, s>>] = q2]
    BY <1>1, <1>2, <1>3
  <1>5. chan'[s, r] = q1 /\ chan'[r, s] = q2
    BY <1>2, <1>3, <1>4
  <1>6. \A a, b \in Ranks : ~(a = s /\ b = r) /\ ~(a = r /\ b = s) =>
            chan'[a, b] = chan[a, b]
    BY <1>2, <1>4
  <1>7. Adds(r, s, r)
    BY <1>1, <1>2, <1>5, AddsRest
  <1>8. Adds(r, r, s)
    BY <1>1, <1>2, <1>5, AddsNew
  <1>9. ASSUME NEW a \in Ranks, NEW b \in Ranks,
               ~(a = s /\ b = r) /\ ~(a = r /\ b = s)
        PROVE  Adds(r, a, b)
    BY <1>6, <1>9, AddsOld
  <1> QED
    BY <1>7, <1>8, <1>9 DEF AddsOnly

LEMMA UpIsSeq ==
    ASSUME PInv, NEW r \in Ranks, pc[r] \notin {"start", "buffer"}
    PROVE  BufferLength(Up(r)) \in Nat
  <1>1. merged[r] \in Seq(Names)
    BY DEF PInv, Forms
  <1>2. objs[r][1].strings \in Seq(Names)
    <2>1. Len(objs[r]) >= 1 /\ Len(objs[r]) \in Nat
      BY DEF PInv, Forms, Family, Listed
    <2>2. 1 \in Objects(r)
      BY <2>1 DEF Objects
    <2> QED
      BY <2>2 DEF PInv, Forms, Formed
  <1>3. PICK up \in Seq(Names) : up = Up(r)
    BY <1>1, <1>2 DEF Up
  <1>4. Len(up) \in Nat
    BY LenProperties
  <1> QED
    BY <1>3, <1>4 DEF BufferLength

LEMMA ParentApart ==
    ASSUME PInv, NEW r \in Ranks, pc[r] \in Waiting
    PROVE  \E p \in Ranks : p = Parent(r) /\ p # r
  <1>1. Parent(r) \in Ranks /\ Edge(Parent(r), r)
    BY ParentFacts
  <1>2. PICK p : p = Parent(r)
    OBVIOUS
  <1>3. p \in Nat /\ r \in Nat /\ p < r
    BY <1>1, <1>2, EdgeFacts
  <1>4. p # r
    BY <1>3
  <1> QED
    BY <1>1, <1>2, <1>4

LEMMA UnifyAdds ==
    ASSUME PInv, NInv, NEW r \in Ranks, UnifyStep(r)
    PROVE  AddsOnly(r)
  <1>1. Mail
    BY DEF PInv
  <1>2. CASE chan' = chan
    BY <1>2, AddsNothing
  <1>3. CASE AskChild(r)
    <2>1. PICK c \in Ranks : c = Source(r)
      BY <1>3 DEF AskChild
    <2>2. Send(r, c, "ok", <<>>)
      BY <1>3, <2>1 DEF AskChild
    <2>3. Fresh(r, Msg("ok", <<>>))
      BY FreshMessage
    <2> QED
      BY <1>1, <2>2, <2>3, AddsOne, Zenon
  <1>4. CASE ReceiveLength(r) \/ ReceiveNames(r)
    <2>1. Source(r) \in Ranks
      BY <1>4 DEF ReceiveLength, ReceiveNames, PInv, Placed
    <2>2. PICK c \in Ranks : c = Source(r)
      BY <2>1
    <2>3. PICK kind : Arrived(r, c, kind) /\ Receive(r, c)
      BY <1>4, <2>2 DEF ReceiveLength, ReceiveNames
    <2> QED
      BY <1>1, <2>3, AddsLess, Zenon
  <1>5. CASE SendLength(r)
    <2>1. PICK p \in Ranks : p = Parent(r) /\ p # r
      BY <1>5, Busy, ParentApart DEF SendLength
    <2>2. PICK n \in Nat : n = BufferLength(Up(r))
      BY <1>5, UpIsSeq DEF SendLength
    <2>3. PICK m : m = Msg("len", n)
      OBVIOUS
    <2>4. /\ Arrived(r, p, "ok")
          /\ chan' = [chan EXCEPT ![<<p, r>>] = Tail(@),
                                  ![<<r, p>>] = Append(@, m)]
      BY <1>5, <2>1, <2>2, <2>3 DEF SendLength
    <2>5. Fresh(r, m)
      BY <2>3, FreshMessage
    <2> QED
      BY <1>1, <2>1, <2>4, <2>5, AddsAnswer, Zenon
  <1>6. CASE SendNames(r)
    <2>1. PICK p \in Ranks : p = Parent(r)
      BY <1>6, Busy, ParentApart DEF SendNames
    <2>2. PICK up : up = Up(r)
      OBVIOUS
    <2>3. Send(r, p, "names", up)
      BY <1>6, <2>1, <2>2 DEF SendNames
    <2>4. Fresh(r, Msg("names", up))
      BY FreshMessage
    <2> QED
      BY <1>1, <2>3, <2>4, AddsOne, Zenon
  <1>7. CASE ReceiveMap(r)
    <2>1. PICK p \in Ranks : p = Parent(r)
      BY <1>7, Busy, ParentApart DEF ReceiveMap
    <2>2. Arrived(r, p, "map") /\ Receive(r, p)
      BY <1>7, <2>1 DEF ReceiveMap
    <2> QED
      BY <1>1, <2>2, AddsLess, Zenon
  <1>8. CASE SendMap(r)
    <2>1. pc[r] = "down" /\ child[r] \in 2 .. Len(objs[r])
      <3>1. Len(objs[r]) \in Nat /\ child[r] \in Nat /\ child[r] >= 2
        BY DEF PInv, Forms, Listed, Placed
      <3> QED
        BY <1>8, <3>1 DEF SendMap
    <2>2. objs[r][child[r]].rank \in Ranks
      BY <2>1 DEF PInv, Family
    <2>3. PICK d \in Ranks : d = objs[r][child[r]].rank
      BY <2>2
    <2>4. PICK table : table = objs[r][child[r]].mapping
      OBVIOUS
    <2>5. Send(r, d, "map", table)
      BY <1>8, <2>3, <2>4 DEF SendMap
    <2>6. Fresh(r, Msg("map", table))
      BY FreshMessage
    <2> QED
      BY <1>1, <2>5, <2>6, AddsOne, Zenon
  <1>9. CASE \/ Start(r) \/ FillBuffer(r) \/ FillBufferCrash(r)
             \/ SkipChild(r) \/ EndTree(r) \/ MergeNext(r) \/ MergeEnd(r)
             \/ Return(r)
    BY <1>2, <1>9 DEF Start, FillBuffer, FillBufferCrash, SkipChild, EndTree,
                      MergeNext, MergeEnd, Return
  <1> QED
    BY <1>3, <1>4, <1>5, <1>6, <1>7, <1>8, <1>9 DEF UnifyStep

LEMMA BufferLen ==
    ASSUME NEW data \in Profile
    PROVE  Len(data) \in Nat
  <1>1. NumThreads \in Nat
    BY MergeAssumption
  <1>2. data = [i \in 1 .. NumThreads |-> data[i]]
    BY DEF Profile, Threads
  <1> QED
    BY <1>1, <1>2, EachListed

LEMMA LateAdds ==
    ASSUME PInv, NInv, FInv, NEW r \in Ranks, LateStep(r)
    PROVE  AddsOnly(r)
  <1>1. Mail /\ 0 \in Ranks
    BY RankFacts DEF PInv
  <1>2. CASE \/ Snapshot(r) \/ Contribute(r)
             \/ r = 0 /\ (Reduce \/ WriteDefinitions \/ OpenFails \/ WriteOwn)
    <2>1. chan' = chan
      BY <1>2 DEF Snapshot, Contribute, Reduce, WriteDefinitions, OpenFails,
                  WriteOwn
    <2> QED
      BY <2>1, AddsNothing
  <1>3. CASE r = 0 /\ AskRank
    <2>1. PICK g \in Ranks : g = gather
      BY <1>3 DEF AskRank
    <2>2. Send(r, g, "ok", <<>>)
      BY <1>3, <2>1 DEF AskRank
    <2>3. Fresh(r, Msg("ok", <<>>))
      BY FreshMessage
    <2> QED
      BY <1>1, <2>2, <2>3, AddsOne, Zenon
  <1>4. CASE r = 0 /\ (ReceiveBlockLength \/ WriteBlock)
    <2>1. Placed(0) /\ pc[0] \in {"blocklen", "block"}
      BY <1>1, <1>4 DEF PInv, ReceiveBlockLength, WriteBlock
    <2>2. PICK g \in Ranks : g = gather
      BY <2>1 DEF Placed
    <2>3. PICK kind : Arrived(r, g, kind) /\ Receive(r, g)
      BY <1>4, <2>2 DEF ReceiveBlockLength, WriteBlock
    <2> QED
      BY <1>1, <2>3, AddsLess, Zenon
  <1>5. CASE SendBlockLength(r)
    <2>1. r # 0 /\ pc[r] \in Late
      <3>1. Placed(r) /\ pc[r] = "ready"
        BY <1>5 DEF PInv, SendBlockLength
      <3> QED
        BY <3>1 DEF Placed, Late
    <2>2. buffer[r] \in Profile
      BY <2>1 DEF FInv, Held, Faithful
    <2>3. PICK n \in Nat : n = Len(buffer[r])
      BY <2>2, BufferLen
    <2>4. PICK m : m = Msg("len", n)
      OBVIOUS
    <2>5. /\ Arrived(r, 0, "ok")
          /\ chan' = [chan EXCEPT ![<<0, r>>] = Tail(@),
                                  ![<<r, 0>>] = Append(@, m)]
      BY <1>5, <2>3, <2>4 DEF SendBlockLength
    <2>6. Fresh(r, m)
      BY <2>4, FreshMessage
    <2> QED
      BY <1>1, <2>1, <2>5, <2>6, AddsAnswer, Zenon
  <1>6. CASE SendBlock(r)
    <2>1. PICK b : b = buffer[r]
      OBVIOUS
    <2>2. Send(r, 0, "block", b) /\ pc[r] = "sendblock"
      BY <1>6, <2>1 DEF SendBlock
    <2>3. Fresh(r, Msg("block", b))
      BY <2>1, <2>2, FreshMessage
    <2> QED
      BY <1>1, <2>2, <2>3, AddsOne, Zenon
  <1> QED
    BY <1>2, <1>3, <1>4, <1>5, <1>6 DEF LateStep, RootStep

LEMMA StepAdds ==
    ASSUME PInv, NInv, FInv, NEW r \in Ranks, RankStep(r)
    PROVE  AddsOnly(r)
  <1>1. CASE NextLister(r)
    BY <1>1, AddsNothing DEF NextLister
  <1> QED
    BY <1>1, StepKinds, UnifyAdds, LateAdds

\* What is under way stays as it is, and what is sent is what the rank holds.
LEMMA BringingStays ==
    ASSUME PInv, NInv, FInv, Lasting, setting' = setting, NEW r \in Ranks,
           AddsOnly(r)
    PROVE  Bringing'
  <1> SUFFICES ASSUME NEW s \in Ranks, NEW d \in Ranks, NEW m \in Passing(s, d)'
               PROVE  Brings(s, m)'
    BY DEF Bringing
  <1>1. CASE m \in Passing(s, d)
    <2>1. Brings(s, m)
      BY <1>1 DEF FInv, Bringing
    <2>2. m.kind = "block" => Faithful(s, m.body)'
      BY <2>1, ShowsStays DEF Brings
    <2> QED
      BY <2>1, <2>2 DEF Brings
  <1>2. CASE s = r /\ Fresh(r, m)
    <2>1. m.kind = "block" => Faithful(r, m.body)
      <3>1. "sendblock" \in Late
        BY DEF Late
      <3> QED
        BY <1>2, <3>1 DEF Fresh, FInv, Held
    <2>2. m.kind = "block" => Faithful(s, m.body)'
      BY <1>2, <2>1, ShowsStays
    <2> QED
      BY <1>2, <2>2 DEF Brings, Fresh
  <1> QED
    BY <1>1, <1>2 DEF AddsOnly, Adds

-----------------------------------------------------------------------------
(* No channel ever holds more than two messages.                           *)

\* A parent is at most one message ahead of what it has received, and so is a
\* child.
LEMMA TwoApart ==
    \A a, b, c, d \in Nat :
        b <= a /\ d <= c /\ a <= d + 1 /\ c <= b + 1 => a - b <= 2 /\ c - d <= 2
  OBVIOUS

LEMMA OneAhead ==
    ASSUME PInv, NEW p \in Ranks, NEW c \in Ranks, p < c
    PROVE  /\ DownSent(p, c) <= UpTaken(p, c) + 1
           /\ UpSent(p, c) <= DownTaken(p, c) + 1
  <1>1. /\ Placed(p) /\ Family(p) /\ gather \in Nat
        /\ Len(objs[p]) \in Nat /\ child[p] \in Nat
        /\ p \in Nat /\ c \in Nat /\ mask[p] \in Nat
    BY MaskFacts DEF PInv, Forms, Listed, Ranks
  <1>2. UpSent(p, c) <= DownTaken(p, c) + 1
    BY DEF UpSent, DownTaken, InTree, TreeUpSent, TreeDownTaken, Once, Call, Early,
           Collecting
  <1>3. TableSent(p, c) => Received(p, c)
    BY <1>1 DEF TableSent, Received, Family
  <1>4. CASE p = 0 /\ pc[p] \in AtRoot \cup {"returned"}
    <2>1. Edge(p, c) => TreeDownSent(p, c) = 2 * Call(p) + 2
                        /\ TreeUpTaken(p, c) = 2 * Call(p) + 2
      BY <1>1, <1>4, CallDone DEF Late
    <2>2. PICK t \in Nat : t = InTree(p, c, TreeDownSent(p, c))
                           /\ t = InTree(p, c, TreeUpTaken(p, c))
      BY <2>1 DEF InTree, Call
    <2>3. PICK i, j, k \in {0, 1} :
              DownSent(p, c) = t + i /\ UpTaken(p, c) = t + (2 * j + k)
      BY <1>4, <2>2 DEF DownSent, UpTaken, Once
    <2> QED
      BY <1>2, <2>3
  <1>5. CASE ~(p = 0 /\ pc[p] \in AtRoot \cup {"returned"})
    <2>1. ~(p = 0 /\ (c < gather
                      \/ (c = gather /\ pc[0] \in {"blocklen", "block"})))
      BY <1>1, <1>5 DEF Placed, AtRoot
    <2>2. ~(p = 0 /\ c < gather) /\ ~(p = 0 /\ c = gather /\ pc[0] = "block")
      BY <2>1
    <2>3. DownSent(p, c) = InTree(p, c, TreeDownSent(p, c)) + 0
          /\ UpTaken(p, c) = InTree(p, c, TreeUpTaken(p, c)) + (2 * 0 + 0)
      BY <2>1, <2>2, Zenon DEF DownSent, UpTaken, Once
    <2>4. Asked(p, c) => Received(p, c) \/ (pc[p] \in {"len", "names"} /\ c = p + mask[p])
      BY DEF Asked, Received
    <2>5. TreeDownSent(p, c) <= TreeUpTaken(p, c) + 1
      BY <1>3, <2>4 DEF TreeDownSent, TreeUpTaken, Once, Call
    <2>6. TreeDownSent(p, c) \in Nat /\ TreeUpTaken(p, c) \in Nat
      BY DEF TreeDownSent, TreeUpTaken, Once, Call
    <2>7. PICK x, y \in Nat : /\ x = InTree(p, c, TreeDownSent(p, c))
                              /\ y = InTree(p, c, TreeUpTaken(p, c))
                              /\ x <= y + 1
      BY <2>5, <2>6 DEF InTree
    <2>8. PICK a, b : /\ a = DownSent(p, c) /\ b = UpTaken(p, c)
                      /\ a = x + 0 /\ b = y + (2 * 0 + 0)
      BY <2>3, <2>7, Zenon
    <2>9. a <= b + 1
      BY <2>7, <2>8
    <2> QED
      BY <1>2, <2>8, <2>9, Zenon
  <1> QED
    BY <1>2, <1>4, <1>5

LEMMA TwoUnderWay ==
    ASSUME PInv, NEW a \in Ranks, NEW b \in Ranks
    PROVE  Len(chan[a, b]) <= 2
  <1>1. Mail /\ Protocol
    BY DEF PInv
  <1>2. ASSUME NEW p \in Ranks, NEW c \in Ranks, p < c
        PROVE  Len(chan[p, c]) <= 2 /\ Len(chan[c, p]) <= 2
    <2>1. /\ DownSent(p, c) \in Nat /\ DownTaken(p, c) \in Nat
          /\ UpSent(p, c) \in Nat /\ UpTaken(p, c) \in Nat
      BY CountTypes
    <2>2. DownTaken(p, c) <= DownSent(p, c) /\ UpTaken(p, c) <= UpSent(p, c)
      BY <1>1, <1>2, TakenSent
    <2>3. /\ DownSent(p, c) <= UpTaken(p, c) + 1
          /\ UpSent(p, c) <= DownTaken(p, c) + 1
      BY <1>2, OneAhead
    <2>4. /\ Len(chan[p, c]) = DownSent(p, c) - DownTaken(p, c)
          /\ Len(chan[c, p]) = UpSent(p, c) - UpTaken(p, c)
      BY <1>1, <1>2 DEF Protocol, Channels, Numbered
    <2> QED
      BY <2>1, <2>2, <2>3, <2>4, TwoApart, Zenon
  <1>3. a < b \/ a = b \/ b < a
    BY Three
  <1>4. a = b => Len(chan[a, b]) <= 2
    <2>1. Len(<<>>) <= 2
      BY EmptyListed
    <2> QED
      BY <1>1, <2>1 DEF Protocol
  <1> QED
    BY <1>2, <1>3, <1>4, Zenon

-----------------------------------------------------------------------------
(***************************************************************************)
(* The sort maps.  One that std::sort has left is one-to-one and puts the  *)
(* names in their order; it stays so when the names are read, if no event  *)
(* has been registered in between (TauUnify.cpp:115, 155).                 *)
(***************************************************************************)
Apart(map) == \A i, j \in 1 .. Len(map) : i < j => map[i] # map[j]

Arranged(map, entries) ==
    \A i, j \in 1 .. Len(map) :
        /\ map[i] \in 1 .. Len(entries)
        /\ i < j => entries[map[i]].name <= entries[map[j]].name

RankApart(r) ==
    /\ pc[r] # "start" => Apart(sortMap[r])
    /\ pc[r] = "buffer" => Arranged(sortMap[r], db[lister[r]][r])
    /\ \A l \in Listers : Past(r, l) => Apart(unifier[r][l].sortMap)

OneToOne == \A r \in Ranks : RankApart(r)

OInv == wild = {} => OneToOne

LEMMA StartApart ==
    ASSUME PInv, NInv, NEW r \in Ranks, RankApart(r), Start(r)
    PROVE  RankApart(r)'
  <1>1. /\ Forms /\ NTypes /\ pc[r] = "start" /\ pc'[r] = "buffer"
        /\ UNCHANGED <<db, lister, unifier>>
    BY DEF PInv, NInv, Start, GoTo, Forms
  <1>2. PICK entries : entries = db[lister[r]][r]
    OBVIOUS
  <1>3. PICK order \in SortMaps(entries) : sortMap' = [sortMap EXCEPT ![r] = order]
    BY <1>2 DEF Start
  <1>4. PICK n \in Nat : n = Len(entries)
    <2>1. entries \in Seq(Entries)
      BY <1>1, <1>2 DEF Forms
    <2> QED
      BY <2>1, LenProperties
  <1>5. /\ order \in [1 .. n -> 1 .. n]
        /\ \A i, j \in 1 .. n : i < j =>
               order[i] # order[j] /\ entries[order[i]].name <= entries[order[j]].name
    BY <1>4 DEF SortMaps
  <1>6. Len(order) = n
    BY <1>4, <1>5, FunctionIsSeq
  <1>7. sortMap'[r] = order
    BY <1>1, <1>3 DEF NTypes
  <1>8. Apart(order) /\ Arranged(order, entries)
    BY <1>4, <1>5, <1>6 DEF Apart, Arranged
  <1>9. ASSUME NEW l \in Listers, Past(r, l)'
        PROVE  Apart(unifier'[r][l].sortMap)
    <2>1. Past(r, l)
      BY <1>1, <1>9, Busy DEF Past
    <2> QED
      BY <1>1, <2>1 DEF RankApart
  <1> QED
    BY <1>1, <1>2, <1>7, <1>8, <1>9 DEF RankApart

LEMMA FillBufferApart ==
    ASSUME PInv, NInv, NEW r \in Ranks, RankApart(r), FillBuffer(r), wild' = {}
    PROVE  /\ RankApart(r)'
           /\ \E order : /\ order \in Reads(sortMap[r], db[lister[r]][r])
                         /\ Arranged(order, db[lister[r]][r])
                         /\ objs' = [objs EXCEPT ![r] = <<NewObject(-1,
                                [i \in 1 .. Len(order) |->
                                    db[lister[r]][r][order[i]].name])>>]
  <1>1. /\ Forms /\ NTypes /\ pc[r] = "buffer" /\ pc'[r] = "tree"
        /\ UNCHANGED <<db, lister, unifier>>
    BY DEF PInv, NInv, FillBuffer, GoTo, Forms
  <1>2. PICK entries : entries = db[lister[r]][r]
    OBVIOUS
  <1>3. PICK order \in Reads(sortMap[r], entries) :
            /\ sortMap' = [sortMap EXCEPT ![r] = order]
            /\ objs' = [objs EXCEPT ![r] = <<NewObject(-1,
                   [i \in 1 .. Len(order) |-> entries[order[i]].name])>>]
    BY <1>2 DEF FillBuffer
  <1>4. PICK n \in Nat : n = Len(entries)
    <2>1. entries \in Seq(Entries)
      BY <1>1, <1>2 DEF Forms
    <2> QED
      BY <2>1, LenProperties
  <1>5. PICK map : map = sortMap[r]
    OBVIOUS
  <1>6. PICK m \in Nat : m = Len(map)
    <2>1. map \in Seq(Nat)
      BY <1>1, <1>5 DEF NTypes
    <2> QED
      BY <2>1, LenProperties
  <1>7. n <= m
    <2>1. ~Overread(r)
      BY DEF FillBuffer
    <2> QED
      BY <1>2, <1>4, <1>5, <1>6, <2>1 DEF Overread
  <1>8. order \in [1 .. n -> 1 .. n] /\ \A i \in 1 .. m : order[i] = map[i]
    BY <1>3, <1>4, <1>5, <1>6 DEF Reads
  <1>9. Len(order) = n
    BY <1>4, <1>8, FunctionIsSeq
  <1>10. \A i \in 1 .. n : i \in 1 .. m /\ order[i] = map[i]
    BY <1>7, <1>8
  <1>11. Apart(map) /\ Arranged(map, entries)
    BY <1>1, <1>2, <1>5 DEF RankApart
  <1>12. Apart(order) /\ Arranged(order, entries)
    BY <1>4, <1>6, <1>9, <1>10, <1>11 DEF Apart, Arranged
  <1>13. sortMap'[r] = order
    BY <1>1, <1>3 DEF NTypes
  <1>14. ASSUME NEW l \in Listers, Past(r, l)'
         PROVE  Apart(unifier'[r][l].sortMap)
    <2>1. Past(r, l)
      BY <1>1, <1>14, Busy DEF Past
    <2> QED
      BY <1>1, <2>1 DEF RankApart
  <1>15. RankApart(r)'
    BY <1>1, <1>12, <1>13, <1>14 DEF RankApart
  <1> QED
    BY <1>2, <1>3, <1>12, <1>15

LEMMA ReturnApart ==
    ASSUME PInv, NInv, NEW r \in Ranks, RankApart(r), Return(r)
    PROVE  RankApart(r)'
  <1>1. /\ Forms /\ NTypes /\ pc[r] = "down" /\ pc'[r] = "done"
        /\ UNCHANGED <<db, lister, sortMap>>
    BY DEF PInv, NInv, Return, GoTo, Forms, treeVars
  <1>2. PICK n : unifier' = [unifier EXCEPT ![r][lister[r]] = Unified(r, n)]
    BY DEF Return
  <1>3. PICK u : u = Unified(r, n)
    OBVIOUS
  <1>7. u.sortMap = sortMap[r]
    BY <1>3 DEF Unified
  <1>4. /\ unifier'[r][lister[r]] = u
        /\ \A l \in Listers : l # lister[r] => unifier'[r][l] = unifier[r][l]
    <2>1. unifier \in [Ranks -> [Listers -> Unifier]] /\ lister[r] \in Listers
      BY <1>1 DEF NTypes, Forms
    <2>2. unifier' = [unifier EXCEPT ![r] = [unifier[r] EXCEPT ![lister[r]] = u]]
      BY <1>2, <1>3
    <2> HIDE DEF Unifier
    <2> QED
      BY <2>1, <2>2
  <1>5. Apart(sortMap[r])
    BY <1>1 DEF RankApart
  <1>6. ASSUME NEW l \in Listers, Past(r, l)'
        PROVE  Apart(unifier'[r][l].sortMap)
    <2>1. CASE l = lister[r]
      BY <1>4, <1>5, <1>7, <2>1
    <2>2. CASE l # lister[r]
      <3>1. Past(r, l)
        BY <1>1, <1>6, <2>2 DEF Past
      <3> QED
        BY <1>4, <2>2, <3>1 DEF RankApart
    <2> QED
      BY <2>1, <2>2
  <1> QED
    BY <1>1, <1>5, <1>6 DEF RankApart

\* All other steps leave the maps alone.
LEMMA SameApart ==
    ASSUME NEW q \in Ranks, RankApart(q), sortMap'[q] = sortMap[q],
           unifier'[q] = unifier[q],
           pc'[q] # "start" => pc[q] # "start",
           pc'[q] = "buffer" =>
               Arranged(sortMap[q], db[lister[q]][q])',
           \A l \in Listers : Past(q, l)' => Past(q, l)
    PROVE  RankApart(q)'
  <1>1. pc'[q] # "start" => Apart(sortMap[q])'
    BY DEF RankApart
  <1>2. ASSUME NEW l \in Listers, Past(q, l)'
        PROVE  Apart(unifier'[q][l].sortMap)
    BY <1>2 DEF RankApart
  <1> QED
    BY <1>1, <1>2 DEF RankApart

LEMMA StepApart ==
    ASSUME PInv, NInv, OneToOne, NEW r \in Ranks, RankStep(r), wild' = {}
    PROVE  OneToOne'
  <1>1. /\ Forms /\ NTypes /\ Rest(r) /\ db' = db
        /\ pc \in [Ranks -> Places] /\ \A q \in Ranks : RankApart(q)
    BY RestOfStep DEF PInv, NInv, Forms, OneToOne
  <1>2. ASSUME NEW q \in Ranks, q # r
        PROVE  RankApart(q)'
    <2>1. /\ pc'[q] = pc[q] /\ lister'[q] = lister[q]
          /\ sortMap'[q] = sortMap[q] /\ unifier'[q] = unifier[q]
      BY <1>1, <1>2 DEF Rest
    <2>2. pc'[q] = "buffer" => Arranged(sortMap[q], db[lister[q]][q])'
      BY <1>1, <2>1 DEF RankApart
    <2>3. \A l \in Listers : Past(q, l)' => Past(q, l)
      BY <2>1 DEF Past
    <2> QED
      BY <1>1, <2>1, <2>2, <2>3, SameApart
  <1>3. CASE LateStep(r)
    <2>1. /\ UNCHANGED <<lister, sortMap, unifier>>
          /\ pc[r] \in {"done"} \cup Late /\ pc'[r] \in Late
      BY <1>3, LateStepFacts DEF treeVars
    <2>2. pc'[r] # "buffer" /\ pc[r] # "start"
      BY <2>1, Busy
    <2>3. \A l \in Listers : Past(r, l)' => Past(r, l)
      BY <2>1 DEF Past
    <2>4. RankApart(r)'
      BY <1>1, <2>1, <2>2, <2>3, SameApart
    <2> QED
      BY <1>2, <2>4 DEF OneToOne
  <1>4. CASE NextLister(r)
    <2>1. /\ UNCHANGED <<sortMap, unifier>> /\ pc[r] = "done"
          /\ pc'[r] = "start" /\ lister[r] = "functions"
          /\ lister'[r] = "atomics"
      BY <1>1, <1>4 DEF NextLister, GoTo, treeVars, Forms
    <2>2. \A l \in Listers : Past(r, l)' => Past(r, l)
      BY <2>1, Busy DEF Past, Listers
    <2>3. RankApart(r)'
      BY <1>1, <2>1, <2>2, SameApart
    <2> QED
      BY <1>2, <2>3 DEF OneToOne
  <1>5. CASE Start(r)
    BY <1>1, <1>2, <1>5, StartApart DEF OneToOne
  <1>6. CASE FillBuffer(r)
    BY <1>1, <1>2, <1>6, FillBufferApart DEF OneToOne
  <1>7. CASE FillBufferCrash(r)
    BY <1>7 DEF FillBufferCrash
  <1>8. CASE Return(r)
    BY <1>1, <1>2, <1>8, ReturnApart DEF OneToOne
  <1>9. CASE \/ SkipChild(r) \/ AskChild(r) \/ ReceiveLength(r)
             \/ ReceiveNames(r) \/ EndTree(r) \/ MergeNext(r) \/ MergeEnd(r)
             \/ SendLength(r) \/ SendNames(r) \/ ReceiveMap(r) \/ SendMap(r)
    <2>1. /\ UNCHANGED <<lister, sortMap, unifier>>
          /\ pc[r] \notin {"start", "buffer"}
      BY <1>9 DEF SkipChild, AskChild, ReceiveLength, ReceiveNames, EndTree,
                  MergeNext, MergeEnd, SendLength, SendNames, ReceiveMap,
                  SendMap, treeVars
    <2>2. pc'[r] \in {"tree", "len", "names", "merge", "ok", "send", "map", "down"}
      BY <1>1, <1>9 DEF SkipChild, AskChild, ReceiveLength, ReceiveNames, EndTree,
                  MergeNext, MergeEnd, SendLength, SendNames, ReceiveMap,
                  SendMap, GoTo
    <2>3. \A l \in Listers : Past(r, l)' => Past(r, l)
      BY <2>1, <2>2, Busy DEF Past
    <2>4. RankApart(r)'
      BY <1>1, <2>1, <2>2, <2>3, SameApart
    <2> QED
      BY <1>2, <2>4 DEF OneToOne
  <1> QED
    BY <1>3, <1>4, <1>5, <1>6, <1>7, <1>8, <1>9, StepKinds DEF UnifyStep

LEMMA GrownApart ==
    ASSUME PInv, NInv, OneToOne, Grown, UNCHANGED <<lister, pc, sortMap, unifier>>
    PROVE  OneToOne'
  <1> SUFFICES ASSUME NEW q \in Ranks
               PROVE  RankApart(q)'
    BY DEF OneToOne
  <1>1. RankApart(q) /\ lister[q] \in Listers
    BY DEF OneToOne, PInv, Forms
  <1>2. pc'[q] = "buffer" => Arranged(sortMap[q], db[lister[q]][q])'
    <2>1. PICK l \in Listers : l = lister[q] /\ l = lister'[q]
      BY <1>1
    <2>2. PICK map : map = sortMap[q] /\ map = sortMap'[q]
      OBVIOUS
    <2>3. PICK m, n \in Nat : m = Len(db[l][q]) /\ n = Len(db'[l][q]) /\ m <= n
      BY DEF Grown
    <2>4. \A i \in 1 .. m : i \in 1 .. n /\ db'[l][q][i] = db[l][q][i]
      BY <2>3 DEF Grown
    <2>5. SUFFICES ASSUME pc[q] = "buffer"
                   PROVE  \A i, j \in 1 .. Len(map) :
                              /\ map[i] \in 1 .. n
                              /\ i < j => db'[l][q][map[i]].name
                                           <= db'[l][q][map[j]].name
      BY <2>1, <2>2, <2>3 DEF Arranged
    <2>6. \A i, j \in 1 .. Len(map) :
              /\ map[i] \in 1 .. m
              /\ i < j => db[l][q][map[i]].name <= db[l][q][map[j]].name
      BY <1>1, <2>1, <2>2, <2>3, <2>5 DEF RankApart, Arranged
    <2> QED
      BY <2>4, <2>6
  <1>3. \A l \in Listers : Past(q, l)' => Past(q, l)
    BY DEF Past
  <1> QED
    BY <1>1, <1>2, <1>3, SameApart

LEMMA NextOInv ==
    ASSUME PInv, NInv, OInv, [ProfileNext]_allVars
    PROVE  OInv'
  <1>0. SUFFICES ASSUME wild' = {}
                 PROVE  OneToOne'
    BY DEF OInv
  <1>1. ASSUME NEW r \in Ranks, Register(r)
        PROVE  OneToOne'
    <2>1. Grown
      BY <1>1, RegisterGrows DEF PInv
    <2>2. UNCHANGED <<lister, pc, sortMap, unifier, wild>>
      BY <1>1 DEF Register, treeVars
    <2> QED
      BY <1>0, <2>1, <2>2, GrownApart DEF OInv
  <1>2. CASE UNCHANGED allVars
    <2>1. Grown
      <3>1. ASSUME NEW k \in Listers, NEW q \in Ranks
            PROVE  Len(db[k][q]) \in Nat
        <4>1. db[k][q] \in Seq(Entries)
          BY DEF PInv, Forms
        <4> QED
          BY <4>1, LenProperties
      <3> QED
        BY <1>2, <3>1 DEF Grown, allVars, vars
    <2>2. UNCHANGED <<lister, pc, sortMap, unifier, wild>>
      BY <1>2 DEF allVars, vars, treeVars
    <2> QED
      BY <1>0, <2>1, <2>2, GrownApart DEF OInv
  <1>3. ASSUME NEW r \in Ranks, RankStep(r)
        PROVE  OneToOne'
    <2>1. wild = {}
      BY <1>0, <1>3, StepWild
    <2> QED
      BY <1>0, <1>3, <2>1, StepApart DEF OInv
  <1> QED
    BY <1>1, <1>2, <1>3 DEF ProfileNext

LEMMA InitOInv ==
    ASSUME MergeInit
    PROVE  OInv
  <1>1. \A r \in Ranks : pc[r] = "start" /\ lister[r] = "functions"
    BY DEF MergeInit, Init
  <1> QED
    BY <1>1, Busy DEF OInv, OneToOne, RankApart, Past

-----------------------------------------------------------------------------
(* What the ids of a rank stand for, and what a buffer shows at first.     *)

Shuffles(map, n) ==
    /\ \A i \in 1 .. n : map[i] \in 1 .. n
    /\ \A i, j \in 1 .. n : i < j => map[i] # map[j]

\* An injection of 1 .. n into itself reaches every number.
LEMMA Permutes ==
    ASSUME NEW n \in Nat, NEW map, Shuffles(map, n)
    PROVE  \A k \in 1 .. n : \E i \in 1 .. n : map[i] = k
  <1> DEFINE S == 1 .. n
             f == [i \in S |-> map[i]]
  <1>1. \A i, j \in S : i # j => map[i] # map[j]
    <2> SUFFICES ASSUME NEW i \in S, NEW j \in S, i # j PROVE map[i] # map[j]
      OBVIOUS
    <2>1. i < j \/ j < i
      OBVIOUS
    <2> QED
      BY <2>1 DEF Shuffles
  <1>2. f \in Injection(S, S)
    BY <1>1 DEF Injection, IsInjective, Shuffles
  <1>3. IsFiniteSet(S)
    BY FS_Interval
  <1>4. f \in Surjection(S, S)
    <2> HIDE DEF S, f
    <2> QED
      BY <1>2, <1>3, FS_Injection
  <1> QED
    BY <1>4 DEF Surjection

LEMMA GlobalMapIs ==
    ASSUME NEW r, NEW l, NEW n \in Nat, n = unifier[r][l].localNumItems,
           \A i \in 1 .. n : unifier[r][l].mapping[i] \in GlobalIds(r, l),
           \A i, j \in 1 .. n :
               unifier[r][l].mapping[i] = unifier[r][l].mapping[j] => i = j
    PROVE  /\ \A i \in 1 .. n : GlobalMap(r, l)[unifier[r][l].mapping[i]] = i
           /\ \A e \in GlobalIds(r, l) : Occurs(r, l, e) =>
                  \E i \in 1 .. n : /\ GlobalMap(r, l)[e] = i
                                    /\ unifier[r][l].mapping[i] = e
  <1> DEFINE at(e) == {i \in 1 .. n : unifier[r][l].mapping[i] = e}
  <1>1. GlobalMap(r, l) =
            [e \in GlobalIds(r, l) |->
                IF at(e) = {} THEN 0
                ELSE CHOOSE i \in at(e) : \A k \in at(e) : k <= i]
    BY DEF GlobalMap
  <1>2. ASSUME NEW i \in 1 .. n
        PROVE  GlobalMap(r, l)[unifier[r][l].mapping[i]] = i
    <2>1. PICK e \in GlobalIds(r, l) : e = unifier[r][l].mapping[i]
      OBVIOUS
    <2>2. at(e) = {i}
      BY <2>1
    <2> HIDE DEF at
    <2>3. GlobalMap(r, l)[e] = CHOOSE j \in {i} : \A k \in {i} : k <= j
      BY <1>1, <2>2
    <2>4. (CHOOSE j \in {i} : \A k \in {i} : k <= j) = i
      OBVIOUS
    <2> QED
      BY <2>1, <2>3, <2>4
  <1>3. ASSUME NEW e \in GlobalIds(r, l), Occurs(r, l, e)
        PROVE  \E i \in 1 .. n : /\ GlobalMap(r, l)[e] = i
                                 /\ unifier[r][l].mapping[i] = e
    <2>1. at(e) # {}
      <3> HIDE DEF at
      <3> QED
        BY <1>1, <1>3 DEF Occurs
    <2>2. PICK i \in 1 .. n : unifier[r][l].mapping[i] = e
      BY <2>1
    <2> QED
      BY <1>2, <2>2
  <1> QED
    BY <1>2, <1>3

\* The ids that occur in a rank stand for places of its database that it has
\* read, and have their names; with a sort map that is one-to-one, each of
\* these places has one.
Position(r, l, e) == unifier[r][l].sortMap[GlobalMap(r, l)[e]]

Named(r, l) ==
    LET n == unifier[r][l].localNumItems IN
    /\ n \in Nat /\ n <= Len(db[l][r]) /\ Len(db[l][r]) \in Nat
    /\ GlobalIds(r, l) = 1 .. Len(Global(l))
    /\ \A e \in GlobalIds(r, l) : Occurs(r, l, e) =>
           /\ Position(r, l, e) \in 1 .. n
           /\ db[l][r][Position(r, l, e)].name = Global(l)[e]

Paired(r, l) ==
    LET n == unifier[r][l].localNumItems IN
    /\ Named(r, l)
    /\ \A e, f \in GlobalIds(r, l) : Occurs(r, l, e) /\ Occurs(r, l, f) =>
           (Position(r, l, e) = Position(r, l, f) => e = f)
    /\ \A k \in 1 .. n : \E e \in GlobalIds(r, l) :
           Occurs(r, l, e) /\ Position(r, l, e) = k

LEMMA RisesApart ==
    ASSUME NEW n \in Nat, NEW table, \A i \in 1 .. n : table[i] \in Nat,
           Rises(table, n), NEW i \in 1 .. n, NEW j \in 1 .. n, table[i] = table[j]
    PROVE  i = j
  <1>1. PICK x \in Nat : x = table[i] /\ x = table[j]
    OBVIOUS
  <1>2. (i < j => x < x) /\ (j < i => x < x)
    BY <1>1 DEF Rises
  <1> QED
    BY <1>2

LEMMA IdsPaired ==
    ASSUME PInv, NInv, NEW r \in Ranks, pc[r] \in {"done"} \cup Late,
           lister[r] = "atomics", NEW l \in Listers
    PROVE  /\ Named(r, l)
           /\ Apart(unifier[r][l].sortMap) => Paired(r, l)
  <1>1. PICK strings \in Seq(Names) :
          /\ unifier[r][l].localNumItems = Len(strings)
          /\ unifier[r][l].globalNumItems = Len(Global(l))
          /\ Sorts(unifier[r][l].sortMap, db[l][r], strings)
          /\ Len(unifier[r][l].mapping) = Len(strings)
          /\ Guides(unifier[r][l].mapping, Len(strings), strings, Global(l))
    BY LatePast
  <1>2. PICK u, entries, list :
            u = unifier[r][l] /\ entries = db[l][r] /\ list = Global(l)
    OBVIOUS
  <1>3. PICK n \in Nat : n = Len(strings)
    BY LenProperties
  <1>4. entries \in Seq(Entries) /\ list \in Seq(Names)
    BY <1>2, GlobalIsSeq DEF PInv, Forms
  <1>5. Len(entries) \in Nat /\ Len(list) \in Nat
    BY <1>4, LenProperties
  <1>6. /\ n <= Len(entries) /\ Len(u.sortMap) = n
        /\ \A i \in 1 .. n : /\ u.sortMap[i] \in 1 .. n
                             /\ entries[u.sortMap[i]].name = strings[i]
    BY <1>1, <1>2, <1>3 DEF Sorts
  <1>7. /\ Rises(u.mapping, n)
        /\ \A i \in 1 .. n : /\ u.mapping[i] \in 1 .. Len(list)
                             /\ list[u.mapping[i]] = strings[i]
    BY <1>1, <1>2, <1>3 DEF Guides
  <1>8. GlobalIds(r, l) = 1 .. Len(list)
    BY <1>1, <1>2 DEF GlobalIds
  <1>9. \A i, j \in 1 .. n : u.mapping[i] = u.mapping[j] => i = j
    <2>1. \A i \in 1 .. n : u.mapping[i] \in Nat
      BY <1>5, <1>7
    <2> QED
      BY <1>7, <2>1, RisesApart
  <1>10. PICK map : map = GlobalMap(r, l)
    OBVIOUS
  <1>11. /\ \A i \in 1 .. n : map[u.mapping[i]] = i
         /\ \A e \in 1 .. Len(list) : Occurs(r, l, e) =>
                \E i \in 1 .. n : map[e] = i /\ u.mapping[i] = e
    <2>1. n = unifier[r][l].localNumItems
      BY <1>1, <1>3
    <2>2. \A i \in 1 .. n : unifier[r][l].mapping[i] \in GlobalIds(r, l)
      BY <1>2, <1>7, <1>8
    <2>3. \A i, j \in 1 .. n :
              unifier[r][l].mapping[i] = unifier[r][l].mapping[j] => i = j
      BY <1>2, <1>9
    <2>4. /\ \A i \in 1 .. n : GlobalMap(r, l)[unifier[r][l].mapping[i]] = i
          /\ \A e \in GlobalIds(r, l) : Occurs(r, l, e) =>
                 \E i \in 1 .. n : /\ GlobalMap(r, l)[e] = i
                                   /\ unifier[r][l].mapping[i] = e
      BY <2>1, <2>2, <2>3, GlobalMapIs
    <2> QED
      BY <1>2, <1>8, <1>10, <2>4
  <1>12. \A e \in 1 .. Len(list) :
            /\ Position(r, l, e) = u.sortMap[map[e]]
            /\ Occurs(r, l, e) <=> map[e] # 0
    BY <1>2, <1>10 DEF Position, Occurs
  <1>13. \A e \in 1 .. Len(list) : Occurs(r, l, e) =>
             /\ Position(r, l, e) \in 1 .. n
             /\ entries[Position(r, l, e)].name = list[e]
    <2> SUFFICES ASSUME NEW e \in 1 .. Len(list), Occurs(r, l, e)
                 PROVE  /\ Position(r, l, e) \in 1 .. n
                        /\ entries[Position(r, l, e)].name = list[e]
      OBVIOUS
    <2>1. PICK i \in 1 .. n : map[e] = i /\ u.mapping[i] = e
      BY <1>11
    <2>2. Position(r, l, e) = u.sortMap[i]
      BY <1>12, <2>1
    <2>3. entries[u.sortMap[i]].name = strings[i] /\ list[e] = strings[i]
      BY <1>6, <1>7, <2>1
    <2> QED
      BY <1>6, <2>2, <2>3
  <1>16. unifier[r][l].localNumItems = n
    BY <1>1, <1>3
  <1>17. Named(r, l)
    BY <1>2, <1>5, <1>6, <1>8, <1>13, <1>16 DEF Named
  <1>18. SUFFICES ASSUME Apart(unifier[r][l].sortMap)
                  PROVE  Paired(r, l)
    BY <1>17
  <1>19. \A i, j \in 1 .. n : i < j => u.sortMap[i] # u.sortMap[j]
    BY <1>2, <1>6, <1>18 DEF Apart
  <1>14. ASSUME NEW e \in 1 .. Len(list), NEW f \in 1 .. Len(list),
                Occurs(r, l, e), Occurs(r, l, f),
                Position(r, l, e) = Position(r, l, f)
         PROVE  e = f
    <2>1. PICK i \in 1 .. n : map[e] = i /\ u.mapping[i] = e
      BY <1>11, <1>14
    <2>2. PICK j \in 1 .. n : map[f] = j /\ u.mapping[j] = f
      BY <1>11, <1>14
    <2>3. u.sortMap[i] = u.sortMap[j]
      BY <1>12, <1>14, <2>1, <2>2
    <2>4. ~(i < j) /\ ~(j < i)
      BY <1>19, <2>3
    <2>5. i = j
      BY <2>4
    <2> QED
      BY <2>1, <2>2, <2>5
  <1>15. \A k \in 1 .. n : \E e \in 1 .. Len(list) :
             Occurs(r, l, e) /\ Position(r, l, e) = k
    <2> SUFFICES ASSUME NEW k \in 1 .. n
                 PROVE  \E e \in 1 .. Len(list) :
                            Occurs(r, l, e) /\ Position(r, l, e) = k
      OBVIOUS
    <2>0. PICK order : order = u.sortMap
      OBVIOUS
    <2>1. PICK i \in 1 .. n : u.sortMap[i] = k
      <3>1. Shuffles(order, n)
        BY <1>6, <1>19, <2>0 DEF Shuffles
      <3>2. \A m \in 1 .. n : \E i \in 1 .. n : order[i] = m
        BY <3>1, Permutes, Zenon
      <3> QED
        BY <2>0, <3>2
    <2>2. PICK e \in 1 .. Len(list) : e = u.mapping[i]
      BY <1>7
    <2>3. map[e] = i /\ i # 0
      BY <1>11, <2>2
    <2> QED
      BY <1>12, <2>1, <2>3
  <1> QED
    BY <1>8, <1>14, <1>15, <1>16, <1>17 DEF Paired

\* So the events of the ids that occur are some, or all, that the rank has read.
LEMMA EventsNamed ==
    ASSUME PInv, NEW r \in Ranks, NEW l \in Listers, Named(r, l)
    PROVE  /\ Known(r, l) \subseteq Entries
           /\ \A e \in GlobalIds(r, l) : Occurs(r, l, e) =>
                  /\ Event(r, l, e) \in Known(r, l)
                  /\ Event(r, l, e).name = Global(l)[e]
  <1>1. PICK n, entries : n = unifier[r][l].localNumItems /\ entries = db[l][r]
    OBVIOUS
  <1>2. entries \in Seq(Entries)
    BY <1>1 DEF PInv, Forms
  <1>3. n \in Nat /\ n <= Len(entries) /\ Len(entries) \in Nat
    BY <1>1 DEF Named
  <1>4. \A k \in 1 .. n : entries[k] \in Entries
    BY <1>2, <1>3
  <1>5. Known(r, l) = {entries[k] : k \in 1 .. n}
    BY <1>1 DEF Known
  <1>6. \A e : Event(r, l, e) = entries[Position(r, l, e)]
    BY <1>1 DEF Event, Position
  <1>7. \A e \in GlobalIds(r, l) : Occurs(r, l, e) =>
            /\ Position(r, l, e) \in 1 .. n
            /\ entries[Position(r, l, e)].name = Global(l)[e]
    BY <1>1 DEF Named
  <1> QED
    BY <1>4, <1>5, <1>6, <1>7

LEMMA EventsKnown ==
    ASSUME PInv, NEW r \in Ranks, NEW l \in Listers, Paired(r, l)
    PROVE  /\ Known(r, l) \subseteq Entries
           /\ \A e \in GlobalIds(r, l) : Occurs(r, l, e) =>
                  /\ Event(r, l, e) \in Known(r, l)
                  /\ Event(r, l, e).name = Global(l)[e]
           /\ \A x \in Known(r, l) : \E e \in GlobalIds(r, l) :
                  Occurs(r, l, e) /\ Event(r, l, e) = x
  <1>1. Named(r, l)
    BY DEF Paired
  <1>2. \A e : Event(r, l, e) = db[l][r][Position(r, l, e)]
    BY DEF Event, Position
  <1>3. \A k \in 1 .. unifier[r][l].localNumItems : \E e \in GlobalIds(r, l) :
            Occurs(r, l, e) /\ Position(r, l, e) = k
    BY DEF Paired
  <1>4. \A x \in Known(r, l) : \E e \in GlobalIds(r, l) :
            Occurs(r, l, e) /\ Event(r, l, e) = x
    BY <1>2, <1>3 DEF Known
  <1> QED
    BY <1>1, <1>4, EventsNamed

\* What a thread writes is a profile in any case.
LEMMA ProfileTyped ==
    ASSUME PInv, NEW r \in Ranks, NEW l \in Listers, Named(r, l), NEW t \in Threads
    PROVE  ThreadProfile(r, t)[l] \in SUBSET (Nat \X Nat \X Int)
  <1>1. PICK known, Ids : known = Known(r, l) /\ Ids = GlobalIds(r, l)
    OBVIOUS
  <1>2. /\ known \subseteq Entries
        /\ \A e \in Ids : Occurs(r, l, e) => Event(r, l, e) \in known
    BY <1>1, EventsNamed
  <1>3. \A x \in Entries : x.calls[t] \in Nat /\ x.value[t] \in Nat
    BY MergeAssumption
  <1> DEFINE Wanted == {e \in Ids : Occurs(r, l, e)
                            /\ (l = "functions" => Event(r, l, e).calls[t] > 0)}
             data == {<<e, Event(r, l, e).calls[t], Event(r, l, e).value[t]>> :
                          e \in Wanted}
  <1>4. ThreadProfile(r, t)[l] = data
    BY <1>1 DEF ThreadProfile, Data
  <1>5. Ids \subseteq Nat
    BY <1>1 DEF GlobalIds, Named
  <1>6. data \subseteq Nat \X Nat \X Int
    BY <1>2, <1>3, <1>5
  <1> QED
    BY <1>4, <1>6

LEMMA ProfileShows ==
    ASSUME PInv, NEW r \in Ranks, NEW l \in Listers, Paired(r, l), NEW t \in Threads
    PROVE  {<<Global(l)[d[1]], d[2], d[3]>> : d \in ThreadProfile(r, t)[l]}
           = {<<e.name, e.calls[t], e.value[t]>> : e \in
                 {e \in Known(r, l) : l = "functions" => e.calls[t] > 0}}
  <1>1. PICK list, known, Ids : /\ list = Global(l) /\ known = Known(r, l)
                                /\ Ids = GlobalIds(r, l)
    OBVIOUS
  <1>2. /\ known \subseteq Entries
        /\ \A e \in Ids : Occurs(r, l, e) =>
               Event(r, l, e) \in known /\ Event(r, l, e).name = list[e]
        /\ \A x \in known : \E e \in Ids : Occurs(r, l, e) /\ Event(r, l, e) = x
    BY <1>1, EventsKnown
  <1> DEFINE Wanted == {e \in Ids : Occurs(r, l, e)
                            /\ (l = "functions" => Event(r, l, e).calls[t] > 0)}
             data == {<<e, Event(r, l, e).calls[t], Event(r, l, e).value[t]>> :
                          e \in Wanted}
             Kept == {e \in known : l = "functions" => e.calls[t] > 0}
  <1>4. ThreadProfile(r, t)[l] = data
    BY <1>1 DEF ThreadProfile, Data
  <1>7. \A d \in data : \E x \in Kept :
            <<list[d[1]], d[2], d[3]>> = <<x.name, x.calls[t], x.value[t]>>
    BY <1>2
  <1>8. \A x \in Kept : \E d \in data :
            <<list[d[1]], d[2], d[3]>> = <<x.name, x.calls[t], x.value[t]>>
    <2> SUFFICES ASSUME NEW x \in Kept
                 PROVE  \E d \in data : <<list[d[1]], d[2], d[3]>>
                                        = <<x.name, x.calls[t], x.value[t]>>
      OBVIOUS
    <2>1. PICK e \in Ids : Occurs(r, l, e) /\ Event(r, l, e) = x
      BY <1>2
    <2>2. e \in Wanted /\ list[e] = x.name
      BY <1>2, <2>1
    <2>3. PICK d : d = <<e, x.calls[t], x.value[t]>>
      OBVIOUS
    <2>4. d \in data
      BY <2>1, <2>2, <2>3
    <2>5. d[1] = e /\ d[2] = x.calls[t] /\ d[3] = x.value[t]
      BY <2>3
    <2> QED
      BY <2>2, <2>4, <2>5
  <1>9. {<<list[d[1]], d[2], d[3]>> : d \in data}
        = {<<x.name, x.calls[t], x.value[t]>> : x \in Kept}
    <2> HIDE DEF data, Kept
    <2> QED
      BY <1>7, <1>8
  <1> QED
    BY <1>1, <1>4, <1>9

LEMMA SnapshotFaithful ==
    ASSUME PInv, NInv, OInv, FInv, Lasting, NEW r \in Ranks, Snapshot(r)
    PROVE  \E data : data = buffer'[r] /\ Faithful(r, data)'
  <1>1. /\ pc[r] = "done" /\ lister[r] = "atomics" /\ pc'[r] = "reduce"
        /\ setting' = setting
    BY DEF Snapshot, GoTo, PInv, Forms
  <1>2. PICK data : data = buffer'[r]
    OBVIOUS
  <1>3. data = [t \in Threads |-> IF setting.summary THEN [l \in Listers |-> {}]
                                  ELSE ThreadProfile(r, t)]
    BY <1>2 DEF Snapshot, FInv
  <1>4. \A l \in Listers : Named(r, l) /\ (wild = {} => Paired(r, l))
    <2>1. \A l \in Listers : Past(r, l)
      BY <1>1, LatePast
    <2>2. \A l \in Listers : wild = {} => Apart(unifier[r][l].sortMap)
      BY <2>1 DEF OInv, OneToOne, RankApart
    <2> QED
      BY <1>1, <2>2, IdsPaired
  <1>5. \A t \in Threads, l \in Listers :
          /\ ThreadProfile(r, t)[l] \in SUBSET (Nat \X Nat \X Int)
          /\ wild = {} =>
                {<<Global(l)[d[1]], d[2], d[3]>> : d \in ThreadProfile(r, t)[l]}
                = {<<e.name, e.calls[t], e.value[t]>> : e \in
                      {e \in Known(r, l) : l = "functions" => e.calls[t] > 0}}
    BY <1>4, ProfileTyped, ProfileShows
  <1>6. data \in Profile
    <2>1. \A t \in Threads :
              ThreadProfile(r, t) \in [Listers -> SUBSET (Nat \X Nat \X Int)]
      <3>1. \A t : ThreadProfile(r, t) = [l \in Listers |-> ThreadProfile(r, t)[l]]
        BY DEF ThreadProfile
      <3> QED
        BY <1>5, <3>1
    <2>2. [l \in Listers |-> {}] \in [Listers -> SUBSET (Nat \X Nat \X Int)]
      OBVIOUS
    <2> QED
      BY <1>3, <2>1, <2>2 DEF Profile
  <1>7. ~setting.summary /\ wild = {} => Shows(r, data)
    <2>1. ~setting.summary => \A t \in Threads : data[t] = ThreadProfile(r, t)
      BY <1>3
    <2> QED
      BY <1>5, <2>1 DEF Shows
  <1>8. \A l \in Listers : Known(r, l)' = Known(r, l) /\ Global(l)' = Global(l)
    <2>1. UNCHANGED <<db, unifier>>
      BY DEF Snapshot
    <2>2. \A l \in Listers : Past(0, l)
      BY <1>1, LatePast
    <2> QED
      BY <2>1, <2>2 DEF Lasting, Known
  <1>9. Shows(r, data) => Shows(r, data)'
    BY <1>8 DEF Shows
  <1>10. Faithful(r, data)'
    <2>1. wild' = {} => wild = {}
      BY DEF Lasting
    <2> QED
      BY <1>1, <1>6, <1>7, <1>9, <2>1 DEF Faithful, Late
  <1> QED
    BY <1>2, <1>10

-----------------------------------------------------------------------------
(* Buffers and file, step by step.                                         *)

LEMMA ToLate ==
    ASSUME PInv, NEW r \in Ranks, RankStep(r), pc[r] \notin Late, pc'[r] \in Late
    PROVE  Snapshot(r)
  <1>1. pc \in [Ranks -> Places]
    BY DEF PInv, Forms
  <1>2. ~UnifyStep(r) /\ ~NextLister(r)
    BY <1>1
    DEF UnifyStep, Start, FillBuffer, FillBufferCrash, SkipChild, AskChild,
        ReceiveLength, ReceiveNames, EndTree, MergeNext, MergeEnd, SendLength,
        SendNames, ReceiveMap, SendMap, Return, NextLister, Late, AtRoot, GoTo,
        treeVars
  <1>3. LateStep(r)
    BY <1>2, StepKinds
  <1> QED
    BY <1>3
    DEF LateStep, Contribute, SendBlockLength, SendBlock, RootStep, Reduce,
        WriteDefinitions, OpenFails, AskRank, ReceiveBlockLength, WriteBlock,
        WriteOwn, Late, AtRoot

LEMMA SettingStays ==
    ASSUME NEW r \in Ranks, RankStep(r)
    PROVE  setting' = setting /\ (~Snapshot(r) => buffer' = buffer)
  <1>1. LateStep(r) => setting' = setting /\ (~Snapshot(r) => buffer' = buffer)
    BY DEF LateStep, Snapshot, Contribute, SendBlockLength, SendBlock, RootStep,
           Reduce, WriteDefinitions, OpenFails, AskRank, ReceiveBlockLength,
           WriteBlock, WriteOwn, mergeVars
  <1>2. NextLister(r) => setting' = setting /\ buffer' = buffer
    BY DEF NextLister, mergeVars
  <1>3. UNCHANGED mergeVars => setting' = setting /\ buffer' = buffer
    BY DEF mergeVars
  <1> QED
    BY <1>1, <1>2, <1>3, StepKinds

\* A buffer is filled by a snapshot and kept.
LEMMA HeldStep ==
    ASSUME PInv, NInv, OInv, FInv, NEW r \in Ranks, RankStep(r), NEW q \in Ranks
    PROVE  Held(q)'
  <1>1. Lasting /\ setting' = setting
    BY StepLasts, SettingStays
  <1>2. Held(q) /\ pc \in [Ranks -> Places]
    BY DEF FInv, PInv, Forms
  <1>3. q # r => pc'[q] = pc[q]
    BY RestOfStep DEF NInv, Rest
  <1>4. CASE q = r /\ Snapshot(r)
    <2>1. PICK data : data = buffer'[r] /\ Faithful(r, data)'
      BY <1>1, <1>4, SnapshotFaithful
    <2>2. Faithful(r, buffer[r])'
      BY <2>1
    <2>3. pc'[r] \in Late
      BY <2>1 DEF Faithful
    <2> QED
      BY <1>4, <2>2, <2>3 DEF Held
  <1>5. CASE ~(q = r /\ Snapshot(r))
    <2>1. buffer'[q] = buffer[q]
      <3>1. CASE Snapshot(r)
        BY <1>5, <3>1 DEF Snapshot, FInv
      <3> QED
        BY <3>1, SettingStays
    <2>2. pc'[q] \in Late => pc[q] \in Late
      BY <1>3, <1>5, ToLate
    <2>3. CASE pc[q] \in Late
      <3>1. PICK data : data = buffer[q]
        OBVIOUS
      <3>2. Faithful(q, data)
        BY <1>2, <2>3, <3>1 DEF Held
      <3>3. Faithful(q, data)'
        BY <1>1, <3>2, ShowsStays
      <3>4. Faithful(q, buffer[q])'
        BY <2>1, <3>1, <3>3
      <3>5. pc'[q] \in Late
        BY <3>3 DEF Faithful
      <3> QED
        BY <3>4, <3>5 DEF Held
    <2>4. CASE pc[q] \notin Late
      BY <1>2, <2>1, <2>2, <2>4 DEF Held
    <2> QED
      BY <2>3, <2>4
  <1> QED
    BY <1>4, <1>5

\* What is in the file stays faithful.
LEMMA BlocksStay ==
    ASSUME PInv, NInv, Lasting, setting' = setting, NEW blocks \in Seq(Blocks),
           AllFaithful(blocks)
    PROVE  AllFaithful(blocks)'
  <1> SUFFICES ASSUME NEW i \in 1 .. Len(blocks)
               PROVE  Faithful(blocks[i].rank, blocks[i].data)'
    BY DEF AllFaithful
  <1>1. blocks[i] \in Blocks
    BY LenProperties
  <1>2. PICK rank \in Ranks : rank = blocks[i].rank
    BY <1>1 DEF Blocks
  <1>5. PICK data : data = blocks[i].data
    OBVIOUS
  <1>3. Faithful(rank, data)
    BY <1>2, <1>5 DEF AllFaithful
  <1>4. Faithful(rank, data)'
    BY <1>3, ShowsStays
  <1> QED
    BY <1>2, <1>4, <1>5

\* A block more.
With(more, blocks, rank) ==
    /\ Len(blocks) \in Nat /\ Len(more) = Len(blocks) + 1
    /\ \A i \in 1 .. Len(blocks) : more[i] = blocks[i]
    /\ more[Len(more)].rank = rank

LEMMA OneBlockMore ==
    ASSUME NEW blocks \in Seq(Blocks), NEW rank \in Ranks, NEW data,
           AllFaithful(blocks)', Faithful(rank, data)', NEW more,
           more = Append(blocks, [rank |-> rank, data |-> data])
    PROVE  more \in Seq(Blocks) /\ AllFaithful(more)' /\ With(more, blocks, rank)
  <1>1. PICK block : block = [rank |-> rank, data |-> data]
    OBVIOUS
  <1>2. block.rank = rank /\ block.data = data
    BY <1>1
  <1>3. block \in Blocks
    BY <1>1 DEF Blocks, Faithful
  <1>4. Len(blocks) \in Nat
    BY LenProperties
  <1>5. more \in Seq(Blocks) /\ Len(more) = Len(blocks) + 1
    BY <1>1, <1>3, AppendProperties
  <1>6. /\ \A i \in 1 .. Len(blocks) : more[i] = blocks[i]
        /\ more[Len(blocks) + 1] = block
    BY <1>1, <1>3, AppendProperties
  <1>7. ASSUME NEW i \in 1 .. Len(more)
        PROVE  Faithful(more[i].rank, more[i].data)'
    <2>1. i \in 1 .. Len(blocks) \/ i = Len(blocks) + 1
      BY <1>4, <1>5
    <2>2. CASE i \in 1 .. Len(blocks)
      <3>1. Faithful(blocks[i].rank, blocks[i].data)'
        BY <2>2 DEF AllFaithful
      <3> QED
        BY <1>6, <2>2, <3>1
    <2>3. CASE i = Len(blocks) + 1
      BY <1>2, <1>6, <2>3
    <2> QED
      BY <2>1, <2>2, <2>3
  <1>8. AllFaithful(more)'
    BY <1>7 DEF AllFaithful
  <1> QED
    BY <1>2, <1>4, <1>5, <1>6, <1>8 DEF With

LEMMA HeadBrings ==
    ASSUME FInv, Mail, NEW s \in Ranks, NEW d \in Ranks, NEW kind,
           Arrived(d, s, kind)
    PROVE  Brings(s, Head(chan[s, d])) /\ Head(chan[s, d]).kind = kind
  <1>1. PICK q : q = chan[s, d]
    OBVIOUS
  <1>2. Listed(q) /\ q # <<>> /\ Head(q).kind = kind
    BY <1>1 DEF Mail, AllFit, Arrived
  <1>3. Head(q) = q[1] /\ Len(q) >= 1 /\ Len(q) \in Nat
    BY <1>2, ListedTail DEF Listed
  <1>4. 1 \in 1 .. Len(q)
    BY <1>3
  <1>5. q[1] \in Passing(s, d)
    BY <1>1, <1>4 DEF Passing
  <1>6. Brings(s, q[1])
    BY <1>5 DEF FInv, Bringing
  <1> QED
    BY <1>1, <1>2, <1>3, <1>6

-----------------------------------------------------------------------------
\* The file stays as it is, at a rank that does not write it, before it is
\* opened, when it cannot be, and between two blocks.
LEMMA FiledStays ==
    ASSUME PInv, NInv, FInv, Lasting, setting' = setting, file' = file,
           gather' = gather,
           \/ pc'[0] = pc[0]
           \/ pc[0] \in Collected /\ pc'[0] \in Collected
           \/ /\ pc[0] \notin Collected \cup {"returned"}
              /\ pc'[0] \notin Collected
              /\ pc'[0] = "returned" => ~setting.opens
    PROVE  Filed'
  <1>1. Filed
    BY DEF FInv
  <1>2. file.blocks \in Seq(Blocks) /\ AllFaithful(file.blocks)
    BY <1>1 DEF Filed
  <1>3. PICK blocks \in Seq(Blocks) : blocks = file.blocks
    BY <1>2
  <1>4. AllFaithful(blocks)'
    BY <1>2, <1>3, BlocksStay
  <1>5. AllFaithful(file.blocks)'
    BY <1>3, <1>4
  <1>6. pc[0] \in Collected \cup {"returned"} =>
            \A l \in Listers : unifier'[0][l] = unifier[0][l]
    BY RankFacts DEF Lasting, Late, AtRoot, Collected
  <1>7. /\ Gathered' = Gathered /\ WrittenRanks' = WrittenRanks
        /\ Written' <=> (pc'[0] = "returned" /\ setting.opens)
    BY DEF Gathered, WrittenRanks, Written
  <1>8. \/ pc[0] \notin Collected \cup {"returned"}
           /\ pc'[0] \notin Collected
           /\ (pc'[0] = "returned" => ~setting.opens)
        \/ pc[0] \in Collected /\ pc'[0] \in Collected
        \/ pc[0] = "returned" /\ pc'[0] = "returned"
    BY DEF Collected
  <1>9. CASE pc[0] \notin Collected \cup {"returned"}
             /\ pc'[0] \notin Collected
             /\ (pc'[0] = "returned" => ~setting.opens)
    <2>1. file = NoFile /\ gather = 1
      BY <1>1, <1>9 DEF Filed
    <2> QED
      BY <1>1, <1>2, <1>5, <1>7, <1>9, <2>1 DEF Filed
  <1>10. CASE pc[0] \in Collected /\ pc'[0] \in Collected
    BY <1>1, <1>2, <1>5, <1>6, <1>7, <1>10 DEF Filed, Collected
  <1>11. CASE pc[0] = "returned" /\ pc'[0] = "returned"
    BY <1>1, <1>2, <1>5, <1>6, <1>7, <1>11 DEF Filed, Written, Collected
  <1> QED
    BY <1>8, <1>9, <1>10, <1>11

LEMMA WriteDefinitionsFiled ==
    ASSUME PInv, NInv, FInv, Lasting, WriteDefinitions
    PROVE  Filed'
  <1>1. /\ Filed /\ pc[0] = "open" /\ pc'[0] = "gather" /\ setting.opens
        /\ setting' = setting /\ gather' = gather /\ unifier' = unifier
    BY RankFacts DEF FInv, WriteDefinitions, GoTo, PInv, Forms
  <1>2. file = NoFile /\ gather = 1
    BY <1>1 DEF Filed, Collected
  <1>3. PICK names : names = [l \in Listers |-> unifier[0][l].globalStrings]
    OBVIOUS
  <1>4. PICK f : f = file'
    OBVIOUS
  <1>5. f = [names |-> names, blocks |-> <<>>, stats |-> None]
    BY <1>2, <1>3, <1>4 DEF WriteDefinitions, NoFile
  <1>6. f.names = names /\ f.blocks = <<>> /\ f.stats = None
    BY <1>5
  <1>7. <<>> \in Seq(Blocks) /\ Len(<<>>) = 0
    BY EmptySeq
  <1>8. AllFaithful(<<>>)'
    BY <1>7 DEF AllFaithful
  <1>9. Gathered' = 0
    BY <1>1, <1>2 DEF Gathered
  <1>10. f = [names |-> f.names, blocks |-> f.blocks, stats |-> f.stats]
    BY <1>5
  <1>11. \A l \in Listers : f.names[l] = unifier'[0][l].globalStrings
    BY <1>1, <1>3, <1>6
  <1> QED
    BY <1>1, <1>4, <1>6, <1>7, <1>8, <1>9, <1>10, <1>11
    DEF Filed, Collected, Written

LEMMA WriteBlockFiled ==
    ASSUME PInv, NInv, FInv, Lasting, WriteBlock
    PROVE  Filed'
  <1>1. /\ Filed /\ Mail /\ pc[0] = "block" /\ pc'[0] = "gather"
        /\ setting' = setting /\ gather' = gather + 1 /\ unifier' = unifier
    BY RankFacts DEF FInv, WriteBlock, GoTo, PInv, Forms
  <1>2. gather \in Ranks /\ gather \in 1 .. NumRanks /\ NumRanks \in Nat
    BY <1>1, RankFacts, UnifyAssumption DEF PInv, Placed, Forms
  <1>3. PICK g \in Ranks : g = gather
    BY <1>2
  <1>4. PICK m : m = Head(chan[g, 0])
    OBVIOUS
  <1>5. PICK data : data = m.body
    OBVIOUS
  <1>6. Faithful(g, data)'
    <2>1. Arrived(0, g, "block")
      BY <1>3 DEF WriteBlock
    <2>2. Brings(g, m) /\ m.kind = "block"
      BY <1>1, <1>4, <2>1, RankFacts, HeadBrings
    <2>3. Faithful(g, data)
      BY <1>5, <2>2 DEF Brings
    <2> QED
      BY <1>1, <2>3, ShowsStays
  <1>7. PICK blocks \in Seq(Blocks) : blocks = file.blocks /\ AllFaithful(blocks)
    BY <1>1 DEF Filed
  <1>8. AllFaithful(blocks)'
    BY <1>1, <1>7, BlocksStay
  <1>9. PICK more : more = Append(blocks, [rank |-> g, data |-> data])
    OBVIOUS
  <1>10. more \in Seq(Blocks) /\ AllFaithful(more)' /\ With(more, blocks, g)
    BY <1>6, <1>8, <1>9, OneBlockMore
  <1>11. PICK f : f = file'
    OBVIOUS
  <1>12. /\ f = [names |-> f.names, blocks |-> f.blocks, stats |-> f.stats]
         /\ f.names = file.names
         /\ f.blocks = IF setting.summary /\ g # 1 THEN blocks ELSE more
    <2>1. f = IF setting.summary /\ g # 1 THEN file
              ELSE [file EXCEPT !.blocks = more]
      BY <1>3, <1>4, <1>5, <1>7, <1>9, <1>11 DEF WriteBlock, Body
    <2>2. file = [names |-> file.names, blocks |-> blocks, stats |-> file.stats]
      BY <1>1, <1>7 DEF Filed
    <2> QED
      BY <2>1, <2>2
  <1>13. /\ f.blocks \in Seq(Blocks) /\ AllFaithful(f.blocks)'
    BY <1>7, <1>8, <1>10, <1>12
  <1>14. /\ setting.opens
         /\ \A l \in Listers : f.names[l] = unifier'[0][l].globalStrings
         /\ Len(blocks) = Gathered
         /\ \A i \in 1 .. Gathered : blocks[i].rank = i
    BY <1>1, <1>7, <1>12 DEF Filed, Collected
  <1>15. Gathered' = IF setting.summary THEN 1 ELSE g
    BY <1>1, <1>2, <1>3 DEF Gathered
  <1>16. /\ Len(f.blocks) = Gathered'
         /\ \A i \in 1 .. Gathered' : f.blocks[i].rank = i
    <2>1. Gathered = IF setting.summary THEN (IF g > 1 THEN 1 ELSE 0) ELSE g - 1
      BY <1>3 DEF Gathered
    <2>2. g \in 1 .. NumRanks
      BY <1>2, <1>3
    <2>3. CASE setting.summary /\ g # 1
      <3>1. Gathered = 1 /\ f.blocks = blocks /\ Gathered' = 1
        BY <1>2, <1>12, <1>15, <2>1, <2>2, <2>3
      <3> QED
        BY <1>14, <3>1
    <2>4. CASE ~(setting.summary /\ g # 1)
      <3>1. Gathered = g - 1 /\ Gathered' = g /\ f.blocks = more /\ g \in Nat
        BY <1>2, <1>12, <1>15, <2>1, <2>2, <2>4
      <3>2. Len(more) = g
        BY <1>10, <1>14, <3>1 DEF With
      <3>3. ASSUME NEW i \in 1 .. g PROVE more[i].rank = i
        <4>1. i \in 1 .. Len(blocks) \/ i = g
          BY <1>14, <3>1
        <4>2. CASE i \in 1 .. Len(blocks)
          BY <1>10, <1>14, <4>2 DEF With
        <4>3. CASE i = g
          BY <1>10, <3>2, <4>3 DEF With
        <4> QED
          BY <4>1, <4>2, <4>3
      <3> QED
        BY <3>1, <3>2, <3>3
    <2> QED
      BY <2>3, <2>4
  <1> QED
    BY <1>1, <1>11, <1>12, <1>13, <1>14, <1>16 DEF Filed, Collected, Written

LEMMA Wraps ==
    \A n \in Nat \ {0} : n % n = 0 /\ \A i \in 1 .. n - 1 : i % n = i
  OBVIOUS

LEMMA WriteOwnFiled ==
    ASSUME PInv, NInv, FInv, Lasting, WriteOwn
    PROVE  Filed'
  <1>1. /\ Filed /\ pc[0] = "gather" /\ pc'[0] = "returned" /\ 0 \in Ranks
        /\ setting' = setting /\ gather' = gather /\ unifier' = unifier
        /\ buffer' = buffer
    BY RankFacts DEF FInv, WriteOwn, GoTo, PInv, Forms
  <1>2. gather = NumRanks /\ NumRanks \in Nat \ {0}
    <2>1. gather \in 1 .. NumRanks /\ gather \notin Ranks
      BY DEF PInv, Forms, WriteOwn
    <2> QED
      BY <2>1, UnifyAssumption DEF Ranks
  <1>3. PICK data : data = buffer[0]
    OBVIOUS
  <1>4. Faithful(0, data)'
    <2>1. pc[0] \in Late
      BY <1>1 DEF Late, AtRoot
    <2>2. Faithful(0, data)
      BY <1>1, <1>3, <2>1 DEF FInv, Held
    <2> QED
      BY <1>1, <2>2, ShowsStays
  <1>5. PICK blocks \in Seq(Blocks) : blocks = file.blocks /\ AllFaithful(blocks)
    BY <1>1 DEF Filed
  <1>6. AllFaithful(blocks)'
    BY <1>1, <1>5, BlocksStay
  <1>7. PICK more : more = Append(blocks, [rank |-> 0, data |-> data])
    OBVIOUS
  <1>8. more \in Seq(Blocks) /\ AllFaithful(more)' /\ With(more, blocks, 0)
    BY <1>1, <1>4, <1>6, <1>7, OneBlockMore
  <1>9. PICK f : f = file'
    OBVIOUS
  <1>10. /\ f = [names |-> f.names, blocks |-> f.blocks, stats |-> f.stats]
         /\ f.names = file.names /\ f.blocks = more
    <2>1. f = [file EXCEPT !.blocks = more, !.stats = stats]
      BY <1>3, <1>5, <1>7, <1>9 DEF WriteOwn
    <2>2. file = [names |-> file.names, blocks |-> blocks, stats |-> file.stats]
      BY <1>1, <1>5 DEF Filed
    <2> QED
      BY <2>1, <2>2
  <1>11. /\ setting.opens
         /\ \A l \in Listers : f.names[l] = unifier'[0][l].globalStrings
         /\ Len(blocks) = Gathered
         /\ \A i \in 1 .. Gathered : blocks[i].rank = i
    BY <1>1, <1>5, <1>10 DEF Filed, Collected
  <1>12. /\ Len(more) = Len(WrittenRanks)
         /\ \A i \in 1 .. Len(WrittenRanks) : more[i].rank = WrittenRanks[i]
    <2>1. CASE setting.summary /\ NumRanks > 1
      <3>1. Gathered = 1 /\ WrittenRanks = <<1, 0>>
        BY <1>2, <2>1 DEF Gathered, WrittenRanks
      <3>2. Len(more) = 2 /\ more[1].rank = 1 /\ more[2].rank = 0
        BY <1>8, <1>11, <3>1 DEF With
      <3> QED
        BY <3>1, <3>2
    <2>2. CASE setting.summary /\ ~(NumRanks > 1)
      <3>1. Gathered = 0 /\ WrittenRanks = <<0>>
        BY <1>2, <2>2 DEF Gathered, WrittenRanks
      <3>2. Len(more) = 1 /\ more[1].rank = 0
        BY <1>8, <1>11, <3>1 DEF With
      <3> QED
        BY <3>1, <3>2
    <2>3. CASE ~setting.summary
      <3>1. PICK n \in Nat \ {0} : n = NumRanks
        BY <1>2
      <3>2. Gathered = n - 1 /\ WrittenRanks = [i \in 1 .. n |-> i % n]
        BY <1>2, <2>3, <3>1 DEF Gathered, WrittenRanks
      <3>3. Len(more) = n /\ Len(blocks) = n - 1
        BY <1>8, <1>11, <3>2 DEF With
      <3>4. Len(WrittenRanks) = n
        BY <3>2
      <3>5. ASSUME NEW i \in 1 .. n PROVE more[i].rank = i % n
        <4>1. CASE i = n
          <5>1. n % n = 0
            BY Wraps
          <5> QED
            BY <1>8, <3>3, <4>1, <5>1 DEF With
        <4>2. CASE i # n
          <5>1. i \in 1 .. n - 1
            BY <4>2
          <5>2. i % n = i
            BY <5>1, Wraps
          <5> QED
            BY <1>8, <1>11, <3>2, <3>3, <5>1, <5>2 DEF With
        <4> QED
          BY <4>1, <4>2
      <3> QED
        BY <3>2, <3>3, <3>4, <3>5
    <2> QED
      BY <2>1, <2>2, <2>3
  <1>13. WrittenRanks' = WrittenRanks
    BY <1>1 DEF WrittenRanks
  <1> QED
    BY <1>1, <1>8, <1>9, <1>10, <1>11, <1>12, <1>13
    DEF Filed, Collected, Written

LEMMA InCall ==
    ASSUME PInv, NEW r \in Ranks, UnifyStep(r) \/ NextLister(r)
    PROVE  pc[r] \notin Late /\ pc'[r] \notin Late
  <1>1. pc \in [Ranks -> Places]
    BY DEF PInv, Forms
  <1> QED
    BY <1>1
    DEF UnifyStep, Start, FillBuffer, FillBufferCrash, SkipChild, AskChild,
        ReceiveLength, ReceiveNames, EndTree, MergeNext, MergeEnd, SendLength,
        SendNames, ReceiveMap, SendMap, Return, NextLister, Late, AtRoot, GoTo,
        treeVars

LEMMA FileStep ==
    ASSUME PInv, NInv, FInv, NEW r \in Ranks, RankStep(r)
    PROVE  Filed'
  <1>1. Lasting /\ setting' = setting /\ pc \in [Ranks -> Places] /\ 0 \in Ranks
    BY StepLasts, SettingStays, RankFacts DEF PInv, Forms
  <1>2. CASE (UnifyStep(r) /\ UNCHANGED mergeVars) \/ NextLister(r)
    <2>1. file' = file /\ gather' = gather
      BY <1>2 DEF NextLister, mergeVars
    <2>2. CASE r # 0
      <3>1. pc'[0] = pc[0]
        BY <1>1, <2>2, RestOfStep DEF NInv, Rest
      <3> QED
        BY <1>1, <2>1, <3>1, FiledStays
    <2>3. CASE r = 0
      <3>1. pc[0] \notin Late /\ pc'[0] \notin Late
        BY <1>2, <2>3, InCall
      <3>2. pc[0] \notin Collected \cup {"returned"} /\ pc'[0] \notin Collected
            /\ pc'[0] # "returned"
        BY <3>1 DEF Late, AtRoot, Collected
      <3> QED
        BY <1>1, <2>1, <3>2, FiledStays
    <2> QED
      BY <2>2, <2>3
  <1>3. CASE Snapshot(r)
    <2>1. file' = file /\ gather' = gather
          /\ pc[r] = "done" /\ pc' = [pc EXCEPT ![r] = "reduce"]
      BY <1>3 DEF Snapshot, GoTo
    <2>2. \/ pc'[0] = pc[0]
          \/ /\ pc[0] \notin Collected \cup {"returned"} /\ pc'[0] \notin Collected
             /\ pc'[0] # "returned"
      BY <1>1, <2>1 DEF Collected
    <2> QED
      BY <1>1, <2>1, <2>2, FiledStays
  <1>4. CASE Contribute(r) \/ SendBlockLength(r) \/ SendBlock(r)
    <2>1. r # 0
      <3>1. Placed(r)
        BY DEF PInv
      <3> QED
        BY <1>4, <3>1 DEF Placed, Contribute, SendBlockLength, SendBlock
    <2>2. file' = file /\ gather' = gather
      BY <1>4 DEF Contribute, SendBlockLength, SendBlock, mergeVars
    <2>3. pc'[0] = pc[0]
      BY <1>1, <2>1, RestOfStep DEF NInv, Rest
    <2> QED
      BY <1>1, <2>2, <2>3, FiledStays
  <1>5. CASE Reduce
    <2>1. file' = file /\ gather' = gather /\ pc[0] = "reduce" /\ pc'[0] = "open"
      BY <1>1, <1>5 DEF Reduce, GoTo
    <2> QED
      BY <1>1, <2>1, FiledStays DEF Collected
  <1>6. CASE OpenFails
    <2>1. file' = file /\ gather' = gather /\ pc[0] = "open"
          /\ pc'[0] = "returned" /\ ~setting.opens
      BY <1>1, <1>6 DEF OpenFails, GoTo, mergeVars
    <2> QED
      BY <1>1, <2>1, FiledStays DEF Collected
  <1>7. CASE AskRank \/ ReceiveBlockLength
    <2>1. file' = file /\ gather' = gather
          /\ pc[0] \in Collected /\ pc'[0] \in Collected
      BY <1>1, <1>7 DEF AskRank, ReceiveBlockLength, GoTo, mergeVars, Collected
    <2> QED
      BY <1>1, <2>1, FiledStays
  <1>8. CASE WriteDefinitions \/ WriteBlock \/ WriteOwn
    BY <1>1, <1>8, WriteDefinitionsFiled, WriteBlockFiled, WriteOwnFiled
  <1> QED
    BY <1>2, <1>3, <1>4, <1>5, <1>6, <1>7, <1>8 DEF RankStep, RootStep

LEMMA BufferIsFunction ==
    ASSUME PInv, FInv, NEW r \in Ranks, RankStep(r)
    PROVE  buffer' = [q \in Ranks |-> buffer'[q]]
  <1>1. buffer = [q \in Ranks |-> buffer[q]]
    BY DEF FInv
  <1>2. CASE Snapshot(r)
    <2>1. PICK b : b = [t \in Threads |-> IF setting.summary THEN [l \in Listers |-> {}]
                                          ELSE ThreadProfile(r, t)]
      OBVIOUS
    <2>2. buffer' = [buffer EXCEPT ![r] = b]
      BY <1>2, <2>1 DEF Snapshot
    <2> QED
      BY <1>1, <2>2
  <1>3. CASE ~Snapshot(r)
    BY <1>1, <1>3, SettingStays
  <1> QED
    BY <1>2, <1>3

LEMMA RankFInv ==
    ASSUME PInv, NInv, OInv, FInv, NEW r \in Ranks, RankStep(r)
    PROVE  FInv'
  <1>1. Lasting /\ setting' = setting /\ setting \in Settings
    BY StepLasts, SettingStays DEF FInv
  <1>2. Bringing'
    BY <1>1, StepAdds, BringingStays
  <1>3. \A q \in Ranks : Held(q)'
    BY HeldStep
  <1> QED
    BY <1>1, <1>2, <1>3, FileStep, BufferIsFunction DEF FInv

\* Nothing happens but that databases grow.
LEMMA GrownFInv ==
    ASSUME PInv, NInv, FInv, Grown,
           UNCHANGED <<lister, pc, merged, unifier, chan, wild, mergeVars>>
    PROVE  FInv'
  <1>1. Lasting
    BY GrownLasts
  <1>2. UNCHANGED <<pc, setting, buffer, file, gather, chan>>
    BY DEF mergeVars
  <1>3. PICK r \in Ranks : TRUE
    BY RankFacts
  <1>4. Bringing'
    BY <1>1, <1>2, <1>3, AddsNothing, BringingStays
  <1>5. Filed'
    BY <1>1, <1>2, FiledStays
  <1>6. ASSUME NEW q \in Ranks
        PROVE  Held(q)'
    <2>1. PICK data : data = buffer[q]
      OBVIOUS
    <2>2. Held(q)
      BY DEF FInv
    <2>3. CASE pc[q] \in Late
      <3>1. Faithful(q, data)
        BY <2>1, <2>2, <2>3 DEF Held
      <3>2. Faithful(q, data)'
        BY <1>1, <1>2, <3>1, ShowsStays
      <3>3. Faithful(q, buffer[q])'
        BY <1>2, <2>1, <3>2
      <3> QED
        BY <1>2, <2>3, <3>3 DEF Held
    <2>4. CASE pc[q] \notin Late
      BY <1>2, <2>2, <2>4 DEF Held
    <2> QED
      BY <2>3, <2>4
  <1> QED
    BY <1>2, <1>4, <1>5, <1>6 DEF FInv

LEMMA NextFInv ==
    ASSUME PInv, NInv, OInv, FInv, [ProfileNext]_allVars
    PROVE  FInv'
  <1>1. ASSUME NEW r \in Ranks, Register(r), UNCHANGED mergeVars
        PROVE  FInv'
    <2>1. Grown
      BY <1>1, RegisterGrows DEF PInv
    <2>2. UNCHANGED <<lister, pc, merged, unifier, chan, wild>>
      BY <1>1 DEF Register, treeVars
    <2> QED
      BY <1>1, <2>1, <2>2, GrownFInv
  <1>2. CASE UNCHANGED allVars
    <2>1. Grown
      <3>1. ASSUME NEW k \in Listers, NEW q \in Ranks
            PROVE  Len(db[k][q]) \in Nat
        <4>1. db[k][q] \in Seq(Entries)
          BY DEF PInv, Forms
        <4> QED
          BY <4>1, LenProperties
      <3> QED
        BY <1>2, <3>1 DEF Grown, allVars, vars
    <2>2. UNCHANGED <<lister, pc, merged, unifier, chan, wild, mergeVars>>
      BY <1>2 DEF allVars, vars, treeVars
    <2> QED
      BY <2>1, <2>2, GrownFInv
  <1>3. CASE ProfileNext
    BY <1>1, <1>3, RankFInv DEF ProfileNext
  <1> QED
    BY <1>2, <1>3

LEMMA InitFInv ==
    ASSUME MergeInit
    PROVE  FInv
  <1>1. /\ setting \in Settings /\ buffer = [r \in Ranks |-> None]
        /\ file = NoFile /\ gather = 1
        /\ pc = [r \in Ranks |-> "start"]
        /\ chan = [p \in Ranks \X Ranks |-> <<>>]
    BY DEF MergeInit, Init
  <1>2. Bringing
    <2>1. ASSUME NEW s \in Ranks, NEW d \in Ranks
          PROVE  Passing(s, d) = {}
      <3>1. chan[s, d] = <<>>
        BY <1>1
      <3>2. Len(chan[s, d]) = 0
        BY <3>1, EmptyListed
      <3>3. \A i : i \notin 1 .. 0
        OBVIOUS
      <3> QED
        BY <3>2, <3>3 DEF Passing
    <2> QED
      BY <2>1 DEF Bringing
  <1>3. Filed
    <2>1. PICK names : names = [l \in Listers |-> <<>>]
      OBVIOUS
    <2>2. file = [names |-> names, blocks |-> <<>>, stats |-> None]
      BY <1>1, <2>1 DEF NoFile
    <2>3. file.blocks = <<>> /\ <<>> \in Seq(Blocks) /\ Len(<<>>) = 0
      BY <2>2, EmptySeq
    <2>4. AllFaithful(file.blocks)
      BY <2>3 DEF AllFaithful
    <2>5. pc[0] = "start"
      BY <1>1, RankFacts
    <2>6. file = [names |-> file.names, blocks |-> file.blocks,
                  stats |-> file.stats]
      BY <2>2
    <2> QED
      BY <1>1, <2>3, <2>4, <2>5, <2>6 DEF Filed, Collected, Written
  <1>4. \A r \in Ranks : Held(r)
    BY <1>1 DEF Held, Late, AtRoot
  <1> QED
    BY <1>1, <1>2, <1>3, <1>4 DEF FInv

-----------------------------------------------------------------------------
(* What holds of the file and of the types follows.                        *)

LEMMA FInvFaithful ==
    ASSUME PInv, NInv, FInv
    PROVE  FileFaithful
  <1>1. SUFFICES ASSUME Written, wild = {}
                 PROVE  /\ [i \in 1 .. Len(file.blocks) |-> file.blocks[i].rank]
                           = WrittenRanks
                        /\ ~setting.summary =>
                           \A i \in 1 .. Len(file.blocks), l \in Listers, t \in Threads :
                             {<<file.names[l][d[1]], d[2], d[3]>> :
                                  d \in file.blocks[i].data[t][l]}
                             = {<<e.name, e.calls[t], e.value[t]>> : e \in
                                   {e \in Known(file.blocks[i].rank, l) :
                                        l = "functions" => e.calls[t] > 0}}
    BY DEF FileFaithful
  <1>2. PICK blocks \in Seq(Blocks) :
            /\ blocks = file.blocks /\ AllFaithful(blocks)
            /\ Len(blocks) = Len(WrittenRanks)
            /\ \A i \in 1 .. Len(WrittenRanks) : blocks[i].rank = WrittenRanks[i]
    BY <1>1 DEF FInv, Filed
  <1>3. [i \in 1 .. Len(blocks) |-> blocks[i].rank] = WrittenRanks
    <2>1. PICK n \in Nat : n = Len(WrittenRanks)
      BY <1>2, LenProperties
    <2>2. PICK ranks : ranks = WrittenRanks /\ ranks = [i \in 1 .. n |-> ranks[i]]
      <3>1. NumRanks \in Nat
        BY UnifyAssumption
      <3>2. WrittenRanks \in Seq(Int)
        BY <3>1 DEF WrittenRanks
      <3>3. WrittenRanks \in [1 .. n -> Int]
        BY <2>1, <3>2, LenProperties
      <3> QED
        BY <3>3
    <2> QED
      BY <1>2, <2>1, <2>2
  <1>4. ASSUME ~setting.summary, NEW i \in 1 .. Len(blocks), NEW l \in Listers,
               NEW t \in Threads
        PROVE  {<<file.names[l][d[1]], d[2], d[3]>> : d \in blocks[i].data[t][l]}
               = {<<e.name, e.calls[t], e.value[t]>> : e \in
                     {e \in Known(blocks[i].rank, l) :
                          l = "functions" => e.calls[t] > 0}}
    <2>1. PICK r, data : r = blocks[i].rank /\ data = blocks[i].data
      OBVIOUS
    <2>2. Shows(r, data)
      BY <1>1, <1>2, <1>4, <2>1 DEF AllFaithful, Faithful
    <2>3. file.names[l] = Global(l)
      <3>1. pc[0] \in Late /\ 0 \in Ranks
        BY <1>1, RankFacts DEF Written, Late
      <3>2. Past(0, l)
        BY <3>1, LateLister, LatePast
      <3> QED
        BY <1>1, <3>2 DEF Global, FInv, Filed
    <2> QED
      BY <2>1, <2>2, <2>3 DEF Shows
  <1> QED
    BY <1>2, <1>3, <1>4

\* A message is one of those that Unify knows, or a block.
Typed(m) == m \in Message \/ (m.kind = "block" /\ m.body \in Profile)

LEMMA MessageTyped ==
    ASSUME PInv, NInv, FInv, NEW s \in Ranks, NEW d \in Ranks,
           NEW m \in Passing(s, d)
    PROVE  Typed(m)
  <1>1. Brings(s, m) /\ Carried(s, d, m)
    BY DEF FInv, Bringing, NInv, Carrying
  <1>2. MessageFits(m, numStrings[s], numStrings[d])
    BY DEF PInv, Mail, AllFit, Passing
  <1>3. PICK kind, body : /\ kind = m.kind /\ body = m.body
                          /\ m = [kind |-> kind, body |-> body]
    BY <1>1 DEF Brings, Msg
  <1>4. CASE kind = "ok" \/ kind = "len" \/ kind = "names"
    BY <1>1, <1>2, <1>3, <1>4 DEF Brings, MessageFits, Typed, Message
  <1>5. CASE kind = "map"
    <2>1. Listed(body) /\ Guides(body, Len(body), Up(d), Global(lister[d]))
      BY <1>1, <1>2, <1>3, <1>5 DEF Carried, MessageFits
    <2>2. lister[d] \in Listers
      BY DEF PInv, Forms
    <2>3. Global(lister[d]) \in Seq(Names)
      BY <2>2, GlobalIsSeq
    <2>4. Len(Global(lister[d])) \in Nat
      BY <2>3, LenProperties
    <2>5. \A j \in 1 .. Len(body) : body[j] \in Nat
      BY <2>1, <2>4 DEF Guides
    <2>6. PICK n \in Nat : n = Len(body) /\ body = [i \in 1 .. n |-> body[i]]
      BY <2>1 DEF Listed
    <2>7. body \in [1 .. n -> Nat]
      BY <2>5, <2>6
    <2>8. body \in Seq(Nat)
      BY <2>7, SeqDef
    <2> QED
      BY <1>3, <1>5, <2>8 DEF Typed, Message
  <1>6. CASE kind = "block"
    BY <1>1, <1>3, <1>6 DEF Brings, Faithful, Typed
  <1> QED
    BY <1>1, <1>3, <1>4, <1>5, <1>6 DEF Brings

LEMMA ListedDomain ==
    ASSUME NEW q, Listed(q)
    PROVE  DOMAIN q = 1 .. Len(q)
  <1>1. PICK n \in Nat : n = Len(q) /\ q = [i \in 1 .. n |-> q[i]]
    BY DEF Listed
  <1> QED
    BY <1>1

LEMMA FInvTypes ==
    ASSUME PInv, NInv, FInv
    PROVE  MergeTypeOK
  <1>1. /\ setting \in Settings /\ pc \in [Ranks -> Places]
        /\ gather \in 1 .. NumRanks
    BY DEF FInv, PInv, Forms
  <1>2. \A r \in Ranks : buffer[r] = None \/ buffer[r] \in Profile
    BY DEF FInv, Held, Faithful
  <1>3. \A i \in 1 .. Len(file.blocks) : file.blocks[i] \in Blocks
    <2>1. PICK blocks \in Seq(Blocks) : blocks = file.blocks
      BY DEF FInv, Filed
    <2>2. \A i \in 1 .. Len(blocks) : blocks[i] \in Blocks
      BY <2>1, LenProperties
    <2> QED
      BY <2>1, <2>2
  <1>4. ASSUME NEW s \in Ranks, NEW d \in Ranks
        PROVE  /\ Len(chan[s, d]) <= 2
               /\ \A i \in DOMAIN chan[s, d] : Typed(chan[s, d][i])
    <2>1. PICK q : q = chan[s, d]
      OBVIOUS
    <2>2. Listed(q)
      BY <2>1 DEF PInv, Mail, AllFit
    <2>3. \A i \in DOMAIN q : q[i] \in Passing(s, d)
      BY <2>1, <2>2, ListedDomain DEF Passing
    <2>4. \A i \in DOMAIN q : Typed(q[i])
      BY <2>3, MessageTyped
    <2> QED
      BY <2>1, <2>4, TwoUnderWay, Zenon
  <1>5. \A p \in Ranks \X Ranks : \E s, d \in Ranks : p = <<s, d>>
    OBVIOUS
  <1>6. \A p \in Ranks \X Ranks :
            Len(chan[p]) <= 2 /\ \A i \in DOMAIN chan[p] : Typed(chan[p][i])
    BY <1>4, <1>5, Zenon
  <1>7. \A p \in Ranks \X Ranks, i \in 1 .. 2 : i \in DOMAIN chan[p] =>
           \/ chan[p][i] \in Message
           \/ chan[p][i].kind = "block" /\ chan[p][i].body \in Profile
    BY <1>6, Zenon DEF Typed
  <1>8. \A p \in Ranks \X Ranks : Len(chan[p]) <= 2
    BY <1>6, Zenon
  <1> QED
    BY <1>1, <1>2, <1>3, <1>7, <1>8, Zenon DEF MergeTypeOK

\* TauProfileMerge.cpp: buffers, blocks and messages have their types, the
\* rank whose buffer is collected next is one of the ranks or the one after
\* the last, and there are never more than two messages under way from a rank
\* to another, however long a rank takes to receive what others have sent.
THEOREM MergeTypes == MergeSpec => []MergeTypeOK
  <1>1. MergeInit => PInv /\ NInv /\ OInv /\ FInv
    BY InitPInv, InitNInv, InitOInv, InitFInv
  <1>2. PInv /\ NInv /\ OInv /\ FInv /\ [ProfileNext]_allVars
        => PInv' /\ NInv' /\ OInv' /\ FInv'
    BY NextPInv, NextNInv, NextOInv, NextFInv
  <1>3. PInv /\ NInv /\ FInv => MergeTypeOK
    BY FInvTypes
  <1> QED
    BY <1>1, <1>2, <1>3, PTL DEF MergeSpec

\* TauProfileMerge.cpp, TauSnapshot.cpp: the merged file holds the blocks of
\* all ranks in their order, rank 0's last (with TAU_SUMMARY those of the
\* ranks 1 and 0), and a reader who looks up the ids of a block in the names
\* at the beginning of the file gets back the functions that each thread has
\* called and all atomic events of the rank, with the rank's own numbers:
\* unless a rank has read its sort map behind the end (TauUnify.cpp:155).
THEOREM FileIsFaithful == MergeSpec => []FileFaithful
  <1>1. MergeInit => PInv /\ NInv /\ OInv /\ FInv
    BY InitPInv, InitNInv, InitOInv, InitFInv
  <1>2. PInv /\ NInv /\ OInv /\ FInv /\ [ProfileNext]_allVars
        => PInv' /\ NInv' /\ OInv' /\ FInv'
    BY NextPInv, NextNInv, NextOInv, NextFInv
  <1>3. PInv /\ NInv /\ FInv => FileFaithful
    BY FInvFaithful
  <1> QED
    BY <1>1, <1>2, <1>3, PTL DEF MergeSpec

-----------------------------------------------------------------------------
(***************************************************************************)
(* Statistics.  What the folds over the threads and over the ranks come    *)
(* to, step by step.                                                       *)
(***************************************************************************)

\* h[k] is what the first k of a list come to.
StepsOver(step, base, seq, n, h) ==
    /\ h[0] = base /\ \A k \in 0 .. n : h[k] \in Int
    /\ \A k \in 1 .. n : h[k] = StepValue(step, h[k - 1], seq[k])

ReducedOver(step, base, seq, n, h) ==
    /\ h[0] = base /\ \A k \in 0 .. n : h[k] \in Int
    /\ \A k \in 1 .. n : h[k] = Reduced(step, seq[k], h[k - 1])

LEMMA StepValueInt ==
    ASSUME NEW step \in Steps, NEW prev \in Int, NEW next \in Int
    PROVE  StepValue(step, prev, next) \in Int /\ Reduced(step, next, prev) \in Int
  BY DEF StepValue, Reduced, Steps

LEMMA ThreadsFold ==
    ASSUME NEW n \in Nat, NEW seq \in [1 .. n -> Int], NEW step \in Steps,
           NEW base \in Int
    PROVE  \E h : /\ StepsOver(step, base, seq, n, h)
                  /\ FoldLeft(LAMBDA prev, next : StepValue(step, prev, next),
                              base, seq) = h[n]
  <1> DEFINE T == [p \in (1 .. n) \X Int |-> StepValue(step, p[2], seq[p[1]])]
             Is(g) == g = [s \in SUBSET (1 .. n) |->
                              IF s = {} THEN base
                              ELSE StepValue(step, g[s \ {Max(s)}], seq[Max(s)])]
             iter == CHOOSE g : Is(g)
  <1>1. TableOf(T, n)
    BY StepValueInt DEF TableOf
  <1>2. \A s \in SUBSET (1 .. n) : s # {} => Max(s) \in 1 .. n
    BY MaxOfUpTo
  <1>3. \A k \in 1 .. n, v \in Int : T[<<k, v>>] = StepValue(step, v, seq[k])
    OBVIOUS
  <1>4. iter[1 .. n] = FoldLeft(LAMBDA prev, next : StepValue(step, prev, next),
                                base, seq)
    <2>1. DOMAIN seq = 1 .. n
      OBVIOUS
    <2> QED
      BY <2>1 DEF FoldLeft, MapThenFoldSet
  <1> HIDE DEF T
  <1>5. PICK g \in [SUBSET (1 .. n) -> Int] : Solves(T, n, base, g)
    BY <1>1, SolvesExists
  <1>6. \A s \in SUBSET (1 .. n) : s # {} =>
            g[s \ {Max(s)}] \in Int /\ g[s] = T[<<Max(s), g[s \ {Max(s)}]>>]
    BY <1>5 DEF Solves
  <1>7. Is(g)
    BY <1>2, <1>3, <1>5, <1>6 DEF Solves
  <1>8. Is(iter)
    BY <1>7
  <1> HIDE DEF iter
  <1>9. Solves(T, n, base, iter)
    BY <1>2, <1>3, <1>8 DEF Solves
  <1>10. PICK h : InTurn(T, n, base, h) /\ h[n] = iter[1 .. n]
    <2>1. ValueInTurn(T, n, base, iter[1 .. n])
      BY <1>1, <1>9, SolvesInTurn
    <2> QED
      BY <2>1 DEF ValueInTurn
  <1>11. StepsOver(step, base, seq, n, h)
    <2>1. \A k \in 1 .. n : k - 1 \in 0 .. n
      OBVIOUS
    <2> QED
      BY <1>3, <1>10, <2>1 DEF InTurn, StepsOver
  <1> QED
    BY <1>4, <1>10, <1>11

\* What the ranks have contributed for an id.
ValuesOf(all, l, step, e, n, seq) ==
    n = NumRanks /\ \A k \in 1 .. n : seq[k] = all[k - 1][l].value[step][e]

LEMMA ReducedInTurn ==
    ASSUME NEW n \in Nat, NEW step, NEW base, NEW seq, NEW T, NEW h,
           \A k \in 1 .. n, v \in Int : T[<<k, v>>] = Reduced(step, seq[k], v),
           InTurn(T, n, base, h)
    PROVE  ReducedOver(step, base, seq, n, h)
  <1>1. \A k \in 1 .. n : k - 1 \in 0 .. n
    OBVIOUS
  <1> QED
    BY <1>1 DEF InTurn, ReducedOver

LEMMA RanksFold ==
    ASSUME NEW all, NEW l, NEW e, NEW step \in Steps, NEW n \in Nat,
           NEW seq \in [1 .. n -> Int], ValuesOf(all, l, step, e, n, seq)
    PROVE  \E h : /\ ReducedOver(step, Fill(step), seq, n, h)
                  /\ Total(all, l, step, e) = h[n]
  <1>0. PICK base \in Int : base = Fill(step)
    BY DEF Fill
  <1> DEFINE x(i) == all[i - 1][l].value[step][e]
             T == [p \in (1 .. n) \X Int |-> Reduced(step, seq[p[1]], p[2])]
             Is(g) == g = [s \in SUBSET (1 .. n) |->
                              IF s = {} THEN base
                              ELSE Reduced(step, x(Max(s)), g[s \ {Max(s)}])]
             iter == CHOOSE g : Is(g)
  <1>1. TableOf(T, n)
    BY StepValueInt DEF TableOf
  <1>2. \A s \in SUBSET (1 .. n) : s # {} => Max(s) \in 1 .. n
    BY MaxOfUpTo
  <1>3. \A k \in 1 .. n, v \in Int : /\ T[<<k, v>>] = Reduced(step, seq[k], v)
                                    /\ T[<<k, v>>] = Reduced(step, x(k), v)
    BY DEF ValuesOf
  <1>4. iter[1 .. n] = Total(all, l, step, e)
    <2>1. DOMAIN InRankOrder = 1 .. n
      BY DEF InRankOrder, ValuesOf
    <2> DEFINE G(g) == g = [s \in SUBSET (1 .. n) |->
                   IF s = {} THEN base
                   ELSE Reduced(step, all[InRankOrder[Max(s)]][l].value[step][e],
                                g[s \ {Max(s)}])]
    <2>2. Total(all, l, step, e) = (CHOOSE g : G(g))[1 .. n]
      BY <1>0, <2>1 DEF Total, FoldLeft, MapThenFoldSet
    <2>3. \A s \in SUBSET (1 .. n) : s # {} => InRankOrder[Max(s)] = Max(s) - 1
      BY <1>2 DEF InRankOrder, ValuesOf
    <2>4. \A g : G(g) <=> Is(g)
      <3> SUFFICES ASSUME NEW g PROVE G(g) <=> Is(g)
        OBVIOUS
      <3>1. [s \in SUBSET (1 .. n) |->
                   IF s = {} THEN base
                   ELSE Reduced(step, all[InRankOrder[Max(s)]][l].value[step][e],
                                g[s \ {Max(s)}])]
            = [s \in SUBSET (1 .. n) |->
                   IF s = {} THEN base ELSE Reduced(step, x(Max(s)), g[s \ {Max(s)}])]
        BY <2>3
      <3> QED
        BY <3>1
    <2> HIDE DEF G, Is
    <2>5. (CHOOSE g : G(g)) = (CHOOSE g : Is(g))
      BY <2>4, Zenon
    <2> QED
      BY <2>2, <2>5
  <1> HIDE DEF T, x
  <1>5. PICK g \in [SUBSET (1 .. n) -> Int] : Solves(T, n, base, g)
    BY <1>1, SolvesExists
  <1>6. \A s \in SUBSET (1 .. n) : s # {} =>
            g[s \ {Max(s)}] \in Int /\ g[s] = T[<<Max(s), g[s \ {Max(s)}]>>]
    BY <1>5 DEF Solves
  <1>7. Is(g)
    BY <1>2, <1>3, <1>5, <1>6 DEF Solves
  <1>8. Is(iter)
    BY <1>7
  <1> HIDE DEF iter
  <1>9. Solves(T, n, base, iter)
    BY <1>2, <1>3, <1>8 DEF Solves
  <1> HIDE DEF Is
  <1>10. PICK h : InTurn(T, n, base, h) /\ h[n] = iter[1 .. n]
    <2>1. ValueInTurn(T, n, base, iter[1 .. n])
      BY <1>1, <1>9, SolvesInTurn
    <2> QED
      BY <2>1 DEF ValueInTurn
  <1>11. ReducedOver(step, base, seq, n, h)
    <2>1. \A k \in 1 .. n, v \in Int : T[<<k, v>>] = Reduced(step, seq[k], v)
      BY <1>3
    <2> QED
      BY <1>10, <2>1, ReducedInTurn, Zenon
  <1> QED
    BY <1>0, <1>4, <1>10, <1>11

CountsOf(all, l, e, n, seq) ==
    n = NumRanks /\ \A k \in 1 .. n : seq[k] = all[k - 1][l].numEventThreads[e]

LEMMA RanksCount ==
    ASSUME NEW all, NEW l, NEW e, NEW n \in Nat, NEW seq \in [1 .. n -> Int],
           CountsOf(all, l, e, n, seq)
    PROVE  TotalThreads(all, l, e) = SumOf(seq)
  <1> DEFINE x(i) == all[i - 1][l].numEventThreads[e]
             T == [p \in (1 .. n) \X Int |-> p[2] + seq[p[1]]]
             Is(g) == g = [s \in SUBSET (1 .. n) |->
                              IF s = {} THEN 0 ELSE g[s \ {Max(s)}] + x(Max(s))]
             iter == CHOOSE g : Is(g)
  <1>1. TableOf(T, n)
    BY DEF TableOf
  <1>2. \A s \in SUBSET (1 .. n) : s # {} => Max(s) \in 1 .. n
    BY MaxOfUpTo
  <1>3. \A k \in 1 .. n, v \in Int : /\ T[<<k, v>>] = v + seq[k]
                                    /\ T[<<k, v>>] = v + x(k)
    BY DEF CountsOf
  <1>4. iter[1 .. n] = TotalThreads(all, l, e)
    <2>1. DOMAIN InRankOrder = 1 .. n
      BY DEF InRankOrder, CountsOf
    <2> DEFINE G(g) == g = [s \in SUBSET (1 .. n) |->
                   IF s = {} THEN 0
                   ELSE g[s \ {Max(s)}]
                        + all[InRankOrder[Max(s)]][l].numEventThreads[e]]
    <2>2. TotalThreads(all, l, e) = (CHOOSE g : G(g))[1 .. n]
      BY <2>1 DEF TotalThreads, FoldLeft, MapThenFoldSet
    <2>3. \A s \in SUBSET (1 .. n) : s # {} => InRankOrder[Max(s)] = Max(s) - 1
      BY <1>2 DEF InRankOrder, CountsOf
    <2>4. \A g : G(g) <=> Is(g)
      <3> SUFFICES ASSUME NEW g PROVE G(g) <=> Is(g)
        OBVIOUS
      <3>1. [s \in SUBSET (1 .. n) |->
                   IF s = {} THEN 0
                   ELSE g[s \ {Max(s)}]
                        + all[InRankOrder[Max(s)]][l].numEventThreads[e]]
            = [s \in SUBSET (1 .. n) |->
                   IF s = {} THEN 0 ELSE g[s \ {Max(s)}] + x(Max(s))]
        BY <2>3
      <3> QED
        BY <3>1
    <2> HIDE DEF G, Is
    <2>5. (CHOOSE g : G(g)) = (CHOOSE g : Is(g))
      BY <2>4, Zenon
    <2> QED
      BY <2>2, <2>5
  <1> HIDE DEF T, x
  <1>5. PICK g \in [SUBSET (1 .. n) -> Int] : Solves(T, n, 0, g)
    <2>1. PICK zero \in Int : zero = 0
      OBVIOUS
    <2>2. \E g \in [SUBSET (1 .. n) -> Int] : Solves(T, n, zero, g)
      BY <1>1, SolvesExists
    <2> QED
      BY <2>1, <2>2
  <1>6. \A s \in SUBSET (1 .. n) : s # {} =>
            g[s \ {Max(s)}] \in Int /\ g[s] = T[<<Max(s), g[s \ {Max(s)}]>>]
    BY <1>5 DEF Solves
  <1>7. Is(g)
    BY <1>2, <1>3, <1>5, <1>6 DEF Solves
  <1>8. Is(iter)
    BY <1>7
  <1> HIDE DEF iter
  <1>9. Solves(T, n, 0, iter)
    BY <1>2, <1>3, <1>8 DEF Solves
  <1>10. PICK h : InTurn(T, n, 0, h) /\ h[n] = iter[1 .. n]
    <2>1. ValueInTurn(T, n, 0, iter[1 .. n])
      BY <1>1, <1>9, SolvesInTurn
    <2> QED
      BY <2>1 DEF ValueInTurn
  <1>11. h[0] = 0 /\ \A k \in 1 .. n : h[k] = h[k - 1] + seq[k]
    <2>1. \A k \in 1 .. n : k - 1 \in 0 .. n
      OBVIOUS
    <2>2. \A k \in 1 .. n, v \in Int : T[<<k, v>>] = v + seq[k]
      BY <1>3
    <2> QED
      BY <1>10, <2>1, <2>2 DEF InTurn
  <1>12. SumOf(seq) = h[n]
    BY <1>11, SumInOrder
  <1> QED
    BY <1>4, <1>10, <1>12

\* m is what a step makes of the values in V: the greatest one, or 0; the
\* least of those that are positive, or -1.
Extreme(step, m, V) ==
    /\ step = "max" => m \in V \cup {0} /\ \A v \in V : v <= m
    /\ step = "min" => \/ m = -1 /\ \A v \in V : ~(v > 0)
                       \/ m \in V /\ m > 0 /\ \A v \in V : v > 0 => m <= v

LEMMA ExtremeNone ==
    ASSUME NEW step \in {"max", "min"}
    PROVE  Extreme(step, Fill(step), {})
  BY DEF Extreme, Fill

LEMMA ExtremeStep ==
    ASSUME NEW step \in {"max", "min"}, NEW V \in SUBSET Nat, NEW m \in Int,
           Extreme(step, m, V), NEW v \in Nat
    PROVE  Extreme(step, StepValue(step, m, v), V \cup {v})
  <1>1. CASE step = "max"
    BY <1>1 DEF Extreme, StepValue
  <1>2. CASE step = "min"
    BY <1>2 DEF Extreme, StepValue
  <1> QED
    BY <1>1, <1>2

LEMMA ExtremeReduced ==
    ASSUME NEW step \in {"max", "min"},
           NEW V \in SUBSET Nat, NEW m \in Int, Extreme(step, m, V),
           NEW W \in SUBSET Nat, NEW k \in Int, Extreme(step, k, W)
    PROVE  Extreme(step, Reduced(step, k, m), V \cup W)
  <1>0. /\ step = "max" => m >= 0 /\ k >= 0
        /\ \A v \in V \cup W : v \in Nat
    BY DEF Extreme
  <1>1. CASE step = "max"
    BY <1>0, <1>1 DEF Extreme, Reduced
  <1>2. CASE step = "min"
    <2>1. CASE m = -1
      <3>1. Reduced(step, k, m) = k
        BY <1>2, <2>1 DEF Reduced
      <3> QED
        BY <1>0, <1>2, <2>1, <3>1 DEF Extreme
    <2>2. CASE m # -1 /\ k = -1
      <3>1. Reduced(step, k, m) = m
        BY <1>2, <2>2 DEF Reduced
      <3> QED
        BY <1>0, <1>2, <2>2, <3>1 DEF Extreme
    <2>3. CASE m # -1 /\ k # -1
      <3>1. Reduced(step, k, m) = IF k < m THEN k ELSE m
        BY <1>2, <2>3 DEF Reduced
      <3> QED
        BY <1>0, <1>2, <2>3, <3>1 DEF Extreme
    <2> QED
      BY <2>1, <2>2, <2>3
  <1> QED
    BY <1>1, <1>2

\* What a rank gets for the values of its threads.
LEMMA ThreadsExtreme ==
    ASSUME NEW n \in Nat, NEW seq \in [1 .. n -> Nat], NEW step \in {"max", "min"}
    PROVE  /\ FoldLeft(LAMBDA prev, next : StepValue(step, prev, next),
                       Fill(step), seq) \in Int
           /\ Extreme(step,
                  FoldLeft(LAMBDA prev, next : StepValue(step, prev, next),
                           Fill(step), seq),
                  {seq[k] : k \in 1 .. n})
  <1>1. step \in Steps /\ Fill(step) \in Int /\ seq \in [1 .. n -> Int]
    BY DEF Steps, Fill
  <1>2. PICK h : /\ StepsOver(step, Fill(step), seq, n, h)
                 /\ FoldLeft(LAMBDA prev, next : StepValue(step, prev, next),
                             Fill(step), seq) = h[n]
    BY <1>1, ThreadsFold
  <1> DEFINE V(k) == {seq[j] : j \in 1 .. k}
             B == {k \in 0 .. n : ~Extreme(step, h[k], V(k))}
  <1>3. B = {}
    <2> SUFFICES ASSUME B # {} PROVE FALSE
      OBVIOUS
    <2>1. B \in SUBSET Nat
      OBVIOUS
    <2>2. PICK k \in B : \A j \in B : k <= j
      BY <2>1, NatMinimum
    <2>3. CASE k = 0
      <3>1. V(0) = {} /\ h[0] = Fill(step)
        <4>1. h[0] = Fill(step)
          BY <1>2 DEF StepsOver
        <4>2. 1 .. 0 = {}
          OBVIOUS
        <4> QED
          BY <4>1, <4>2
      <3>2. Extreme(step, h[0], V(0))
        BY <3>1, ExtremeNone
      <3> QED
        BY <2>2, <2>3, <3>2
    <2>4. CASE k # 0
      <3>0. k \in 0 .. n
        BY <2>2
      <3>1. k \in 1 .. n /\ k - 1 \in 0 .. n /\ k - 1 \notin B
        <4> HIDE DEF B
        <4>1. k \in 1 .. n /\ k - 1 \in 0 .. n /\ ~(k <= k - 1)
          BY <2>4, <3>0
        <4> QED
          BY <2>2, <4>1
      <3>2. Extreme(step, h[k - 1], V(k - 1))
        BY <3>1
      <3>3. V(k) = V(k - 1) \cup {seq[k]} /\ V(k - 1) \in SUBSET Nat /\ seq[k] \in Nat
        <4>1. \A j : j \in 1 .. k <=> j \in 1 .. k - 1 \/ j = k
          BY <3>1
        <4>2. \A j \in 1 .. k : j \in 1 .. n
          BY <3>1
        <4> QED
          BY <3>1, <4>1, <4>2
      <3>4. h[k - 1] \in Int /\ h[k] = StepValue(step, h[k - 1], seq[k])
        BY <1>2, <3>1 DEF StepsOver
      <3> HIDE DEF V
      <3>5. Extreme(step, h[k], V(k))
        <4>1. PICK m, W, v : /\ m = h[k - 1] /\ W = V(k - 1) /\ v = seq[k]
          OBVIOUS
        <4>2. Extreme(step, StepValue(step, m, v), W \cup {v})
          BY <3>2, <3>3, <3>4, <4>1, ExtremeStep
        <4> QED
          BY <3>3, <3>4, <4>1, <4>2
      <3> QED
        BY <2>2, <3>5
    <2> QED
      BY <2>3, <2>4
  <1>4. n \in 0 .. n /\ h[n] \in Int
    <2>1. n \in 0 .. n
      OBVIOUS
    <2>2. \A k \in 0 .. n : h[k] \in Int
      BY <1>2 DEF StepsOver
    <2> QED
      BY <2>1, <2>2
  <1>5. Extreme(step, h[n], V(n))
    BY <1>3, <1>4
  <1> QED
    BY <1>2, <1>4, <1>5

LEMMA ThreadsSum ==
    ASSUME NEW n \in Nat, NEW seq \in [1 .. n -> Nat]
    PROVE  FoldLeft(LAMBDA prev, next : StepValue("sum", prev, next),
                    Fill("sum"), seq) = SumOf(seq)
  <1>1. "sum" \in Steps /\ Fill("sum") = 0 /\ Fill("sum") \in Int
        /\ seq \in [1 .. n -> Int]
    BY DEF Steps, Fill
  <1>2. PICK h : /\ StepsOver("sum", Fill("sum"), seq, n, h)
                 /\ FoldLeft(LAMBDA prev, next : StepValue("sum", prev, next),
                             Fill("sum"), seq) = h[n]
    BY <1>1, ThreadsFold
  <1>3. h[0] = 0 /\ \A k \in 1 .. n : h[k] = h[k - 1] + seq[k]
    BY <1>1, <1>2 DEF StepsOver, StepValue
  <1>4. SumOf(seq) = h[n]
    BY <1>1, <1>3, SumInOrder
  <1> QED
    BY <1>2, <1>4

LEMMA RanksSum ==
    ASSUME NEW all, NEW l, NEW e, NEW n \in Nat,
           NEW seq \in [1 .. n -> Int], ValuesOf(all, l, "sum", e, n, seq)
    PROVE  Total(all, l, "sum", e) = SumOf(seq)
  <1>1. "sum" \in Steps /\ Fill("sum") = 0
    BY DEF Steps, Fill
  <1>2. PICK h : /\ ReducedOver("sum", Fill("sum"), seq, n, h)
                 /\ Total(all, l, "sum", e) = h[n]
    BY <1>1, RanksFold
  <1>3. h[0] = 0 /\ \A k \in 1 .. n : h[k] = h[k - 1] + seq[k]
    <2>1. \A k \in 1 .. n : k - 1 \in 0 .. n
      OBVIOUS
    <2>2. \A k \in 1 .. n : h[k] = seq[k] + h[k - 1] /\ h[k - 1] \in Int
      BY <1>2, <2>1 DEF ReducedOver, Reduced
    <2>3. \A k \in 1 .. n : seq[k] \in Int
      OBVIOUS
    <2> QED
      BY <1>1, <1>2, <2>2, <2>3 DEF ReducedOver
  <1>4. SumOf(seq) = h[n]
    BY <1>3, SumInOrder
  <1> QED
    BY <1>2, <1>4

\* The values of the ranks, and what each has made of its own.
Extremes(step, seq, V, n) ==
    \A k \in 1 .. n : V[k] \in SUBSET Nat /\ Extreme(step, seq[k], V[k])

\* The values of the first k ranks.
Together(V, k) == UNION {V[j] : j \in 1 .. k}

LEMMA RanksExtreme ==
    ASSUME NEW all, NEW l, NEW e, NEW n \in Nat, NEW step \in {"max", "min"},
           NEW seq \in [1 .. n -> Int], ValuesOf(all, l, step, e, n, seq),
           NEW V, Extremes(step, seq, V, n)
    PROVE  Extreme(step, Total(all, l, step, e), Together(V, n))
  <1>1. step \in Steps
    BY DEF Steps
  <1>2. PICK h : /\ ReducedOver(step, Fill(step), seq, n, h)
                 /\ Total(all, l, step, e) = h[n]
    BY <1>1, RanksFold
  <1> DEFINE U(k) == Together(V, k)
             B == {k \in 0 .. n : ~Extreme(step, h[k], U(k))}
  <1>3. B = {}
    <2> SUFFICES ASSUME B # {} PROVE FALSE
      OBVIOUS
    <2>1. B \in SUBSET Nat
      OBVIOUS
    <2>2. PICK k \in B : \A j \in B : k <= j
      BY <2>1, NatMinimum
    <2>3. CASE k = 0
      <3>1. U(0) = {} /\ h[0] = Fill(step)
        <4>1. h[0] = Fill(step)
          BY <1>2 DEF ReducedOver
        <4>2. 1 .. 0 = {}
          OBVIOUS
        <4> QED
          BY <4>1, <4>2 DEF Together
      <3>2. Extreme(step, h[0], U(0))
        BY <3>1, ExtremeNone
      <3> QED
        BY <2>2, <2>3, <3>2
    <2>4. CASE k # 0
      <3>0. k \in 0 .. n
        BY <2>2
      <3>1. k \in 1 .. n /\ k - 1 \in 0 .. n /\ k - 1 \notin B
        <4> HIDE DEF B
        <4>1. k \in 1 .. n /\ k - 1 \in 0 .. n /\ ~(k <= k - 1)
          BY <2>4, <3>0
        <4> QED
          BY <2>2, <4>1
      <3>2. Extreme(step, h[k - 1], U(k - 1))
        BY <3>1
      <3>3. U(k) = U(k - 1) \cup V[k] /\ U(k - 1) \in SUBSET Nat
            /\ V[k] \in SUBSET Nat /\ Extreme(step, seq[k], V[k])
        <4>1. \A j : j \in 1 .. k <=> j \in 1 .. k - 1 \/ j = k
          BY <3>1
        <4>2. \A j \in 1 .. k : j \in 1 .. n
          BY <3>1
        <4>3. \A j \in 1 .. k : V[j] \in SUBSET Nat
          BY <4>2 DEF Extremes
        <4>4. U(k) = U(k - 1) \cup V[k]
          BY <4>1 DEF Together
        <4>5. U(k - 1) \in SUBSET Nat
          BY <4>1, <4>3 DEF Together
        <4> QED
          BY <3>1, <4>3, <4>4, <4>5 DEF Extremes
      <3>4. h[k - 1] \in Int /\ h[k] = Reduced(step, seq[k], h[k - 1]) /\ seq[k] \in Int
        BY <1>2, <3>1 DEF ReducedOver
      <3> HIDE DEF U
      <3>5. Extreme(step, h[k], U(k))
        <4>1. PICK m, W, x, Y : /\ m = h[k - 1] /\ W = U(k - 1)
                                /\ x = seq[k] /\ Y = V[k]
          OBVIOUS
        <4>2. Extreme(step, Reduced(step, x, m), W \cup Y)
          BY <3>2, <3>3, <3>4, <4>1, ExtremeReduced
        <4> QED
          BY <3>3, <3>4, <4>1, <4>2
      <3> QED
        BY <2>2, <3>5
    <2> QED
      BY <2>3, <2>4
  <1>4. n \in 0 .. n
    OBVIOUS
  <1>5. Extreme(step, h[n], U(n))
    BY <1>3, <1>4
  <1> QED
    BY <1>2, <1>5

-----------------------------------------------------------------------------
(* What a rank contributes for an id.                                      *)

\* The places of an id in the database of a rank.
At(r, l, e) ==
    IF Occurs(r, l, e) THEN {<<r, Position(r, l, e), t>> : t \in Threads} ELSE {}

\* They are those of one entry.
AtEntry(r, l, e, x) ==
    LET k == Position(r, l, e) IN
    /\ x = Event(r, l, e)
    /\ At(r, l, e) = {<<r, k, t>> : t \in Threads}
    /\ \A t \in Threads : /\ ValueAt(l, <<r, k, t>>) = x.value[t]
                          /\ CallsAt(l, <<r, k, t>>) = x.calls[t]
    /\ x.value \in [Threads -> Nat] /\ x.calls \in [Threads -> Nat]

LEMMA OneEntry ==
    ASSUME PInv, NEW r \in Ranks, NEW l \in Listers, Paired(r, l),
           NEW e \in GlobalIds(r, l), Occurs(r, l, e)
    PROVE  \E x \in Entries : AtEntry(r, l, e, x)
  <1>1. PICK n, entries, k : /\ n = unifier[r][l].localNumItems
                             /\ entries = db[l][r] /\ k = Position(r, l, e)
    OBVIOUS
  <1>2. entries \in Seq(Entries)
    BY <1>1 DEF PInv, Forms
  <1>3. n \in Nat /\ n <= Len(entries) /\ Len(entries) \in Nat /\ k \in 1 .. n
    BY <1>1 DEF Paired, Named
  <1>4. PICK x \in Entries : x = entries[k]
    BY <1>2, <1>3
  <1>5. x = Event(r, l, e)
    BY <1>1, <1>4 DEF Event, Position
  <1>6. \A t : ValueAt(l, <<r, k, t>>) = x.value[t] /\ CallsAt(l, <<r, k, t>>) = x.calls[t]
    BY <1>1, <1>4 DEF ValueAt, CallsAt
  <1>7. x.value \in [Threads -> Nat] /\ x.calls \in [Threads -> Nat]
    BY MergeAssumption
  <1>8. At(r, l, e) = {<<r, k, t>> : t \in Threads}
    BY <1>1 DEF At
  <1> QED
    BY <1>1, <1>5, <1>6, <1>7, <1>8 DEF AtEntry

\* The threads, as places.
ThreadsAt(r, k, P) == P = {<<r, k, t>> : t \in Threads}

LEMMA AsPlaces ==
    ASSUME NEW r, NEW k, NEW P, ThreadsAt(r, k, P)
    PROVE  /\ IsFiniteSet(P) /\ IsFiniteSet(Threads)
           /\ \A p \in P : p = <<r, k, p[3]>> /\ p[3] \in Threads
  <1>1. IsFiniteSet(Threads)
    BY MergeAssumption, FS_Interval DEF Threads
  <1>2. PICK f : f = [t \in Threads |-> <<r, k, t>>]
    OBVIOUS
  <1>3. DOMAIN f = Threads /\ f = [t \in Threads |-> f[t]]
    BY <1>2
  <1>4. P = {f[t] : t \in Threads}
    BY <1>2 DEF ThreadsAt
  <1> QED
    BY <1>1, <1>3, <1>4, ImageFinite DEF ThreadsAt

\* Sums of what stands at some places.
Values(l, P) == [p \in P |-> ValueAt(l, p)]
Called(l, P) == {p \in P : CallsAt(l, p) > 0}
Ones(P) == [p \in P |-> 1]

LEMMA LocalSum ==
    ASSUME PInv, NEW r \in Ranks, NEW l \in Listers, Paired(r, l),
           NEW e \in GlobalIds(r, l)
    PROVE  LocalValue(r, l, "sum", e) = SumOf(Values(l, At(r, l, e)))
  <1>1. CASE ~Occurs(r, l, e)
    <2>1. DOMAIN Values(l, At(r, l, e)) = {}
      BY <1>1 DEF Values, At
    <2>2. SumOf(Values(l, At(r, l, e))) = 0
      BY <2>1, SumEmpty
    <2> QED
      BY <1>1, <2>2 DEF LocalValue, Fill
  <1>2. CASE Occurs(r, l, e)
    <2>1. PICK x \in Entries : AtEntry(r, l, e, x)
      BY <1>2, OneEntry
    <2>2. PICK k, P : k = Position(r, l, e) /\ P = At(r, l, e)
      OBVIOUS
    <2>3. /\ x = Event(r, l, e) /\ P = {<<r, k, t>> : t \in Threads}
          /\ \A t \in Threads : ValueAt(l, <<r, k, t>>) = x.value[t]
          /\ x.value \in [Threads -> Nat]
      BY <2>1, <2>2 DEF AtEntry
    <2>4. PICK d, f, g : /\ d = Values(l, P) /\ f = [p \in P |-> p[3]]
                         /\ g = [t \in Threads |-> <<r, k, t>>]
      OBVIOUS
    <2>5. /\ IsFiniteSet(P) /\ IsFiniteSet(Threads)
          /\ \A p \in P : p = <<r, k, p[3]>> /\ p[3] \in Threads
      <3>1. ThreadsAt(r, k, P)
        BY <2>3 DEF ThreadsAt
      <3> QED
        BY <3>1, AsPlaces
    <2>6. f \in [P -> Threads]
      BY <2>4, <2>5
    <2>7. \A t \in Threads : g[t] \in P /\ PartAt(f, P, t) = {g[t]}
      BY <2>3, <2>4, <2>5 DEF PartAt
    <2>8. \A t \in Threads : d[g[t]] = x.value[t]
      BY <2>3, <2>4, <2>7 DEF Values
    <2>9. d \in [P -> Int]
      <3>1. \A p \in P : ValueAt(l, p) \in Int
        BY <2>3
      <3> QED
        BY <2>4, <3>1 DEF Values
    <2>10. SumOf(d) = SumOf([t \in Threads |-> d[g[t]]])
      BY <2>5, <2>6, <2>7, <2>9, SumAlong
    <2>11. [t \in Threads |-> d[g[t]]] = x.value
      BY <2>3, <2>8
    <2>12. LocalValue(r, l, "sum", e) = SumOf(x.value)
      <3>1. PICK n \in Nat : n = NumThreads
        BY MergeAssumption
      <3>2. x.value \in [1 .. n -> Nat]
        BY <2>3, <3>1 DEF Threads
      <3>3. PICK seq : seq = x.value /\ seq = Event(r, l, e).value
        BY <2>3
      <3>4. FoldLeft(LAMBDA prev, next : StepValue("sum", prev, next),
                     Fill("sum"), seq) = SumOf(seq)
        BY <3>2, <3>3, ThreadsSum
      <3> QED
        BY <1>2, <3>3, <3>4 DEF LocalValue
    <2> QED
      BY <2>2, <2>4, <2>10, <2>11, <2>12
  <1> QED
    BY <1>1, <1>2

LEMMA LocalExtreme ==
    ASSUME PInv, NEW r \in Ranks, NEW l \in Listers, Paired(r, l),
           NEW e \in GlobalIds(r, l), NEW step \in {"max", "min"}
    PROVE  /\ LocalValue(r, l, step, e) \in Int
           /\ Extreme(step, LocalValue(r, l, step, e),
                      {ValueAt(l, p) : p \in At(r, l, e)})
  <1>1. CASE ~Occurs(r, l, e)
    <2>1. {ValueAt(l, p) : p \in At(r, l, e)} = {}
      BY <1>1 DEF At
    <2>2. LocalValue(r, l, step, e) = Fill(step) /\ Fill(step) \in Int
      BY <1>1 DEF LocalValue, Fill
    <2>3. Extreme(step, Fill(step), {})
      BY ExtremeNone
    <2> QED
      BY <2>1, <2>2, <2>3
  <1>2. CASE Occurs(r, l, e)
    <2>1. PICK x \in Entries : AtEntry(r, l, e, x)
      BY <1>2, OneEntry
    <2>2. PICK k, P : k = Position(r, l, e) /\ P = At(r, l, e)
      OBVIOUS
    <2>3. /\ x = Event(r, l, e) /\ P = {<<r, k, t>> : t \in Threads}
          /\ \A t \in Threads : ValueAt(l, <<r, k, t>>) = x.value[t]
          /\ x.value \in [Threads -> Nat]
      BY <2>1, <2>2 DEF AtEntry
    <2>4. PICK n \in Nat : n = NumThreads
      BY MergeAssumption
    <2>5. PICK seq : seq = x.value /\ seq = Event(r, l, e).value
      BY <2>3
    <2>6. seq \in [1 .. n -> Nat] /\ Threads = 1 .. n
      BY <2>3, <2>4, <2>5 DEF Threads
    <2>7. PICK V : V = {seq[t] : t \in 1 .. n}
      OBVIOUS
    <2>8. PICK m : m = FoldLeft(LAMBDA prev, next : StepValue(step, prev, next),
                                Fill(step), seq)
      OBVIOUS
    <2>9. m \in Int /\ Extreme(step, m, V)
      BY <2>6, <2>7, <2>8, ThreadsExtreme
    <2>10. LocalValue(r, l, step, e) = m
      BY <1>2, <2>5, <2>8 DEF LocalValue
    <2>11. {ValueAt(l, p) : p \in P} = V
      <3>1. {ValueAt(l, p) : p \in P} = {ValueAt(l, <<r, k, t>>) : t \in Threads}
        BY <2>3
      <3>2. {ValueAt(l, <<r, k, t>>) : t \in Threads} = {seq[t] : t \in Threads}
        BY <2>3, <2>5
      <3> QED
        BY <2>6, <2>7, <3>1, <3>2
    <2> QED
      BY <2>2, <2>9, <2>10, <2>11
  <1> QED
    BY <1>1, <1>2

LEMMA LocalCount ==
    ASSUME PInv, NEW r \in Ranks, NEW l \in Listers, Paired(r, l),
           NEW e \in GlobalIds(r, l)
    PROVE  LocalThreads(r, l, e) = SumOf(Ones(Called(l, At(r, l, e))))
  <1>1. CASE ~Occurs(r, l, e)
    <2>1. DOMAIN Ones(Called(l, At(r, l, e))) = {}
      BY <1>1 DEF Ones, Called, At
    <2>2. SumOf(Ones(Called(l, At(r, l, e)))) = 0
      BY <2>1, SumEmpty
    <2> QED
      BY <1>1, <2>2 DEF LocalThreads
  <1>2. CASE Occurs(r, l, e)
    <2>1. PICK x \in Entries : AtEntry(r, l, e, x)
      BY <1>2, OneEntry
    <2>2. PICK k, P : k = Position(r, l, e) /\ P = At(r, l, e)
      OBVIOUS
    <2>3. /\ x = Event(r, l, e) /\ P = {<<r, k, t>> : t \in Threads}
          /\ \A t \in Threads : CallsAt(l, <<r, k, t>>) = x.calls[t]
      BY <2>1, <2>2 DEF AtEntry
    <2>6. /\ IsFiniteSet(P) /\ IsFiniteSet(Threads)
          /\ \A p \in P : p = <<r, k, p[3]>> /\ p[3] \in Threads
      <3>1. ThreadsAt(r, k, P)
        BY <2>3 DEF ThreadsAt
      <3> QED
        BY <3>1, AsPlaces
    <2>4. PICK Q, S : Q = Called(l, P) /\ S = {t \in Threads : x.calls[t] > 0}
      OBVIOUS
    <2>5. PICK d, f, g : /\ d = Ones(Q) /\ f = [p \in Q |-> p[3]]
                         /\ g = [t \in S |-> <<r, k, t>>]
      OBVIOUS
    <2>7. Q \in SUBSET P /\ S \in SUBSET Threads
      BY <2>4 DEF Called
    <2>8. IsFiniteSet(Q) /\ IsFiniteSet(S)
      BY <2>6, <2>7, FS_Subset
    <2>9. \A p \in Q : p = <<r, k, p[3]>> /\ p[3] \in S
      BY <2>3, <2>4, <2>6 DEF Called
    <2>10. f \in [Q -> S]
      BY <2>5, <2>9
    <2>11. \A t \in S : <<r, k, t>> \in Q
      BY <2>3, <2>4 DEF Called
    <2>12. \A t \in S : g[t] \in Q /\ PartAt(f, Q, t) = {g[t]}
      BY <2>5, <2>9, <2>11 DEF PartAt
    <2>13. d \in [Q -> Int] /\ \A q \in Q : d[q] = 1
      BY <2>5 DEF Ones
    <2>14. SumOf(d) = SumOf([t \in S |-> d[g[t]]])
      BY <2>8, <2>10, <2>12, <2>13, SumAlong
    <2>15. PICK c : c = [t \in S |-> d[g[t]]]
      OBVIOUS
    <2>16. c \in [S -> Int] /\ \A t \in S : c[t] = 1
      BY <2>12, <2>13, <2>15
    <2>17. SumOf(c) = Cardinality(S)
      BY <2>8, <2>16, SumCounts
    <2>18. LocalThreads(r, l, e) = Cardinality(S)
      BY <1>2, <2>3, <2>4 DEF LocalThreads
    <2> QED
      BY <2>2, <2>4, <2>5, <2>14, <2>15, <2>17, <2>18
  <1> QED
    BY <1>1, <1>2

-----------------------------------------------------------------------------
(* The places of a name are those of its ids in the ranks.                 *)

AllPaired(l) == Global(l) \in Seq(Names) /\ \A r \in Ranks : Paired(r, l)

\* The ids of a name, and the id that a place belongs to.
Ids(n, l) == {e \in GlobalIds(0, l) : Global(l)[e] = n}
IdAt(l, p) == CHOOSE e \in GlobalIds(p[1], l) : p \in At(p[1], l, e)

LEMMA SameIds ==
    ASSUME NEW l \in Listers, AllPaired(l), NEW r \in Ranks
    PROVE  GlobalIds(r, l) = GlobalIds(0, l) /\ 0 \in Ranks
  <1>1. 0 \in Ranks
    BY RankFacts
  <1> QED
    BY <1>1 DEF AllPaired, Paired, Named

LEMMA PlaceAt ==
    ASSUME NEW l \in Listers, AllPaired(l), NEW n, NEW p \in PlacesOf(n, l)
    PROVE  /\ p[1] \in Ranks /\ IdAt(l, p) \in Ids(n, l)
           /\ p \in At(p[1], l, IdAt(l, p))
  <1>1. PICK r \in Ranks : p \in {r} \X (1 .. unifier[r][l].localNumItems) \X Threads
    BY DEF PlacesOf
  <1>2. PICK k, t : /\ p = <<r, k, t>> /\ t \in Threads
                    /\ k \in 1 .. unifier[r][l].localNumItems
    BY <1>1
  <1>3. p[1] = r /\ db[l][r][k].name = n
    BY <1>2 DEF PlacesOf
  <1>4. Paired(r, l)
    BY DEF AllPaired
  <1>5. PICK e \in GlobalIds(r, l) : Occurs(r, l, e) /\ Position(r, l, e) = k
    BY <1>2, <1>4 DEF Paired, Named
  <1>6. Global(l)[e] = n
    BY <1>3, <1>4, <1>5 DEF Paired, Named
  <1>7. p \in At(r, l, e)
    BY <1>2, <1>5 DEF At
  <1>8. PICK f : f = IdAt(l, p)
    OBVIOUS
  <1>9. f \in GlobalIds(r, l) /\ p \in At(r, l, f)
    BY <1>3, <1>5, <1>7, <1>8 DEF IdAt
  <1>10. Occurs(r, l, f) /\ Position(r, l, f) = k
    BY <1>2, <1>9 DEF At
  <1>11. e = f
    BY <1>4, <1>5, <1>9, <1>10 DEF Paired, Named
  <1>12. f \in Ids(n, l)
    BY <1>5, <1>6, <1>11, SameIds DEF Ids
  <1> QED
    BY <1>3, <1>8, <1>9, <1>12

LEMMA AtPlaces ==
    ASSUME NEW l \in Listers, AllPaired(l), NEW n, NEW e \in Ids(n, l), NEW r \in Ranks
    PROVE  \A p \in At(r, l, e) : p \in PlacesOf(n, l) /\ p[1] = r /\ IdAt(l, p) = e
  <1>1. Paired(r, l)
    BY DEF AllPaired
  <1>2. e \in GlobalIds(r, l) /\ Global(l)[e] = n
    BY SameIds DEF Ids
  <1> SUFFICES ASSUME NEW p \in At(r, l, e)
               PROVE  p \in PlacesOf(n, l) /\ p[1] = r /\ IdAt(l, p) = e
    OBVIOUS
  <1>3. PICK k, t : /\ p = <<r, k, t>> /\ t \in Threads /\ k = Position(r, l, e)
                    /\ Occurs(r, l, e)
    BY DEF At
  <1>4. k \in 1 .. unifier[r][l].localNumItems /\ db[l][r][k].name = n
    BY <1>1, <1>2, <1>3 DEF Paired, Named
  <1>5. p \in {r} \X (1 .. unifier[r][l].localNumItems) \X Threads /\ p[1] = r /\ p[2] = k
    BY <1>3, <1>4
  <1>6. p \in PlacesOf(n, l)
    BY <1>4, <1>5 DEF PlacesOf
  <1>7. PICK f : f = IdAt(l, p)
    OBVIOUS
  <1>8. f \in GlobalIds(r, l) /\ p \in At(r, l, f)
    BY <1>2, <1>5, <1>7 DEF IdAt
  <1>9. Occurs(r, l, f) /\ Position(r, l, f) = k
    BY <1>3, <1>8 DEF At
  <1>10. e = f
    BY <1>1, <1>2, <1>3, <1>8, <1>9 DEF Paired, Named
  <1> QED
    BY <1>5, <1>6, <1>7, <1>10

LEMMA PlacesOfFinite ==
    ASSUME NEW l \in Listers, AllPaired(l), NEW n
    PROVE  IsFiniteSet(PlacesOf(n, l))
  <1> DEFINE Of(r) == {r} \X (1 .. unifier[r][l].localNumItems) \X Threads
             all == [r \in Ranks |-> Of(r)]
  <1>1. ASSUME NEW r \in Ranks PROVE IsFiniteSet(Of(r))
    <2>1. PICK k \in Nat : k = unifier[r][l].localNumItems
      BY DEF AllPaired, Paired, Named
    <2>2. PICK A, B : A = 1 .. k /\ B = Threads
      OBVIOUS
    <2>3. IsFiniteSet(A) /\ IsFiniteSet(B)
      <3>1. NumThreads \in Int
        BY MergeAssumption
      <3> QED
        BY <2>1, <2>2, <3>1, FS_Interval DEF Threads
    <2>4. PICK C : C = A \X B
      OBVIOUS
    <2>5. IsFiniteSet(C)
      BY <2>3, <2>4, FS_Product
    <2>6. PICK f : f = [q \in C |-> <<r, q[1], q[2]>>]
      OBVIOUS
    <2>7. DOMAIN f = C /\ f = [q \in C |-> f[q]]
      BY <2>6
    <2>8. IsFiniteSet({f[q] : q \in C})
      BY <2>5, <2>7, ImageFinite
    <2>9. Of(r) = {f[q] : q \in C}
      <3>1. \A q \in C : f[q] = <<r, q[1], q[2]>> /\ q[1] \in A /\ q[2] \in B
        BY <2>4, <2>6
      <3>2. \A a \in A, b \in B : <<a, b>> \in C /\ f[<<a, b>>] = <<r, a, b>>
        BY <2>4, <2>6
      <3>3. Of(r) = {r} \X A \X B
        BY <2>1, <2>2
      <3>4. ASSUME NEW x \in {r} \X A \X B PROVE x \in {f[q] : q \in C}
        <4>1. PICK a \in A, b \in B : x = <<r, a, b>>
          OBVIOUS
        <4> QED
          BY <3>2, <4>1
      <3>5. \A q \in C : f[q] \in {r} \X A \X B
        BY <3>1
      <3> QED
        BY <3>3, <3>4, <3>5
    <2> QED
      BY <2>8, <2>9
  <1>2. IsFiniteSet(Ranks) /\ DOMAIN all = Ranks /\ all = [r \in Ranks |-> all[r]]
    BY UnifyAssumption, FS_Interval DEF Ranks
  <1>3. IsFiniteSet({all[r] : r \in Ranks})
    <2> HIDE DEF all
    <2> QED
      BY <1>2, ImageFinite
  <1>4. \A s \in {all[r] : r \in Ranks} : IsFiniteSet(s)
    <2> HIDE DEF Of
    <2> QED
      BY <1>1
  <1>5. IsFiniteSet(UNION {all[r] : r \in Ranks})
    <2> HIDE DEF all
    <2> QED
      BY <1>3, <1>4, FS_UNION
  <1>6. UNION {all[r] : r \in Ranks} = UNION {Of(r) : r \in Ranks}
    <2> HIDE DEF Of
    <2> QED
      OBVIOUS
  <1>7. PlacesOf(n, l) \in SUBSET UNION {Of(r) : r \in Ranks}
    BY DEF PlacesOf
  <1> HIDE DEF Of, all
  <1> QED
    BY <1>5, <1>6, <1>7, FS_Subset

\* The ranks that a sum over the places is taken along, in their order.
InRanks(d, S, l, e) ==
    [k \in 1 .. NumRanks |-> SumOf(On(d, {p \in S : p \in At(k - 1, l, e)}))]

\* These sums for each id.
OfIds(d, S, l, E) == [e \in E |-> SumOf(InRanks(d, S, l, e))]

LEMMA InRanksInt ==
    ASSUME NEW S, IsFiniteSet(S), NEW d \in [S -> Int], NEW l, NEW e
    PROVE  InRanks(d, S, l, e) \in [1 .. NumRanks -> Int]
  <1> SUFFICES ASSUME NEW k \in 1 .. NumRanks
               PROVE  SumOf(On(d, {p \in S : p \in At(k - 1, l, e)})) \in Int
    BY DEF InRanks
  <1>1. PICK P \in SUBSET S : P = {p \in S : p \in At(k - 1, l, e)}
    OBVIOUS
  <1>2. IsFiniteSet(P) /\ On(d, P) \in [P -> Int]
    BY FS_Subset DEF On
  <1> QED
    BY <1>1, <1>2, SumInt

LEMMA SumOverRanks ==
    ASSUME NEW l \in Listers, AllPaired(l), NEW n, NEW S \in SUBSET PlacesOf(n, l),
           NEW d \in [S -> Int]
    PROVE  SumOf(d) = SumOf(OfIds(d, S, l, Ids(n, l)))
  <1> DEFINE E == Ids(n, l)
             U == 1 .. NumRanks
             f == [p \in S |-> IdAt(l, p)]
             g == [p \in S |-> p[1] + 1]
  <1>1. NumRanks \in Nat /\ \A r \in Ranks : r \in Nat /\ r < NumRanks
    BY RankFacts
  <1>2. \A k \in U : k \in Nat /\ k - 1 \in Ranks
    BY <1>1, RankFacts
  <1>3. IsFiniteSet(S) /\ IsFiniteSet(U)
    <2>1. PICK P : P = PlacesOf(n, l)
      OBVIOUS
    <2>2. IsFiniteSet(P) /\ S \in SUBSET P
      BY <2>1, PlacesOfFinite
    <2>3. IsFiniteSet(S)
      BY <2>2, FS_Subset
    <2>4. IsFiniteSet(U)
      BY <1>1, FS_Interval
    <2> QED
      BY <2>3, <2>4
  <1>4. IsFiniteSet(E)
    <2>1. Paired(0, l) /\ Len(Global(l)) \in Nat
      BY RankFacts, LenProperties DEF AllPaired
    <2>2. PICK m \in Nat : m = Len(Global(l))
      BY <2>1
    <2>3. IsFiniteSet(1 .. m)
      BY <2>2, FS_Interval
    <2>4. GlobalIds(0, l) = 1 .. m
      BY <2>1, <2>2 DEF Paired, Named
    <2>5. E \in SUBSET (1 .. m)
      BY <2>4 DEF Ids
    <2> HIDE DEF E
    <2> QED
      BY <2>3, <2>5, FS_Subset
  <1>5. f \in [S -> E]
    BY PlaceAt
  <1>6. g \in [S -> U]
    <2>1. \A p \in S : p[1] \in Ranks
      BY PlaceAt
    <2> QED
      BY <1>1, <2>1
  <1>7. ASSUME NEW e \in E, NEW k \in U
        PROVE  {p \in S : f[p] = e /\ g[p] = k} = {p \in S : p \in At(k - 1, l, e)}
    <2>1. ASSUME NEW p \in S, f[p] = e, g[p] = k PROVE p \in At(k - 1, l, e)
      <3>1. p[1] \in Nat /\ p[1] + 1 = k
        BY <1>1, <2>1, PlaceAt
      <3>2. p[1] = k - 1
        BY <1>2, <3>1
      <3> QED
        BY <2>1, <3>2, PlaceAt
    <2>2. ASSUME NEW p \in S, p \in At(k - 1, l, e) PROVE f[p] = e /\ g[p] = k
      <3>1. p[1] = k - 1 /\ IdAt(l, p) = e
        BY <1>2, <2>2, AtPlaces
      <3> QED
        BY <1>2, <3>1
    <2> HIDE DEF f, g
    <2> QED
      BY <2>1, <2>2
  <1> HIDE DEF f, g, E, U
  <1>8. SumOf(d) = SumOf([e \in E |-> SumOf(PartsOfPart(d, f, g, S, U, e))])
    BY <1>3, <1>4, <1>5, <1>6, SumInTwo
  <1>9. ASSUME NEW e \in E PROVE PartsOfPart(d, f, g, S, U, e) = InRanks(d, S, l, e)
    BY <1>7 DEF PartsOfPart, InRanks, U
  <1> QED
    BY <1>8, <1>9 DEF E, OfIds

-----------------------------------------------------------------------------
(* What the reductions come to for an id.                                  *)

\* All ranks have contributed what they have.
Whole(all) == \A r \in Ranks : all[r] = Contribution(r)

LEMMA ContributionOf ==
    ASSUME NEW all, Whole(all), NEW r \in Ranks, NEW l \in Listers,
           NEW e \in GlobalIds(r, l)
    PROVE  /\ all[r][l].numEventThreads[e] = LocalThreads(r, l, e)
           /\ \A step \in {"max", "min", "sum"} :
                  all[r][l].value[step][e] = LocalValue(r, l, step, e)
  <1>1. PICK c, v : /\ c = [f \in GlobalIds(r, l) |-> LocalThreads(r, l, f)]
                    /\ v = [step \in Steps |-> [f \in GlobalIds(r, l) |->
                                                    LocalValue(r, l, step, f)]]
    OBVIOUS
  <1>2. PICK w : w = Contribution(r)
    OBVIOUS
  <1>3. w[l] = [numEventThreads |-> c, value |-> v]
    BY <1>1, <1>2 DEF Contribution
  <1>4. all[r] = w
    BY <1>2 DEF Whole
  <1>5. c[e] = LocalThreads(r, l, e)
    BY <1>1
  <1>6. \A step \in {"max", "min", "sum"} : v[step][e] = LocalValue(r, l, step, e)
    BY <1>1 DEF Steps
  <1> QED
    BY <1>3, <1>4, <1>5, <1>6

LEMMA CountInRanks ==
    ASSUME PInv, NEW l \in Listers, AllPaired(l), NEW n, NEW all, Whole(all),
           NEW e \in Ids(n, l), NEW S, S = Called(l, PlacesOf(n, l))
    PROVE  TotalThreads(all, l, e) = SumOf(InRanks(Ones(S), S, l, e))
  <1>1. IsFiniteSet(S) /\ Ones(S) \in [S -> Int]
    <2>1. PICK P : P = PlacesOf(n, l)
      OBVIOUS
    <2>2. IsFiniteSet(P) /\ S \in SUBSET P
      BY <2>1, PlacesOfFinite DEF Called
    <2> QED
      BY <2>2, FS_Subset DEF Ones
  <1>2. PICK seq : seq = InRanks(Ones(S), S, l, e)
    OBVIOUS
  <1>3. PICK m \in Nat : m = NumRanks
    BY RankFacts
  <1>4. seq \in [1 .. m -> Int]
    BY <1>1, <1>2, <1>3, InRanksInt
  <1>5. ASSUME NEW k \in 1 .. m PROVE seq[k] = all[k - 1][l].numEventThreads[e]
    <2>1. PICK r \in Ranks : r = k - 1
      BY <1>3, RankFacts
    <2>2. Paired(r, l) /\ e \in GlobalIds(r, l)
      BY SameIds DEF AllPaired, Ids
    <2>3. LocalThreads(r, l, e) = SumOf(Ones(Called(l, At(r, l, e))))
      BY <2>2, LocalCount
    <2>4. {p \in S : p \in At(r, l, e)} = Called(l, At(r, l, e))
      BY AtPlaces DEF Called
    <2>5. On(Ones(S), {p \in S : p \in At(r, l, e)}) = Ones(Called(l, At(r, l, e)))
      BY <2>4 DEF On, Ones
    <2>6. seq[k] = LocalThreads(r, l, e)
      BY <1>2, <1>3, <2>1, <2>3, <2>5 DEF InRanks
    <2>7. all[r][l].numEventThreads[e] = LocalThreads(r, l, e)
      BY <2>2, ContributionOf
    <2> QED
      BY <2>1, <2>6, <2>7
  <1>6. CountsOf(all, l, e, m, seq)
    BY <1>3, <1>5 DEF CountsOf
  <1> QED
    BY <1>2, <1>4, <1>6, RanksCount

LEMMA SumInRanks ==
    ASSUME PInv, NEW l \in Listers, AllPaired(l), NEW n, NEW all, Whole(all),
           NEW e \in Ids(n, l), NEW S, S = PlacesOf(n, l), Values(l, S) \in [S -> Int]
    PROVE  Total(all, l, "sum", e) = SumOf(InRanks(Values(l, S), S, l, e))
  <1>1. IsFiniteSet(S)
    BY PlacesOfFinite
  <1>2. PICK seq : seq = InRanks(Values(l, S), S, l, e)
    OBVIOUS
  <1>3. PICK m \in Nat : m = NumRanks
    BY RankFacts
  <1>4. seq \in [1 .. m -> Int]
    BY <1>1, <1>2, <1>3, InRanksInt
  <1>5. ASSUME NEW k \in 1 .. m PROVE seq[k] = all[k - 1][l].value["sum"][e]
    <2>1. PICK r \in Ranks : r = k - 1
      BY <1>3, RankFacts
    <2>2. Paired(r, l) /\ e \in GlobalIds(r, l)
      BY SameIds DEF AllPaired, Ids
    <2>3. LocalValue(r, l, "sum", e) = SumOf(Values(l, At(r, l, e)))
      BY <2>2, LocalSum
    <2>4. {p \in S : p \in At(r, l, e)} = At(r, l, e)
      BY AtPlaces
    <2>5. On(Values(l, S), {p \in S : p \in At(r, l, e)}) = Values(l, At(r, l, e))
      BY <2>4 DEF On, Values
    <2>6. seq[k] = LocalValue(r, l, "sum", e)
      BY <1>2, <1>3, <2>1, <2>3, <2>5 DEF InRanks
    <2>7. all[r][l].value["sum"][e] = LocalValue(r, l, "sum", e)
      BY <2>2, ContributionOf
    <2> QED
      BY <2>1, <2>6, <2>7
  <1>6. ValuesOf(all, l, "sum", e, m, seq)
    BY <1>3, <1>5 DEF ValuesOf
  <1> QED
    BY <1>2, <1>4, <1>6, RanksSum

\* The values of the places of an id.
ValuesAt(n, l, e) == {ValueAt(l, p) : p \in {p \in PlacesOf(n, l) : IdAt(l, p) = e}}

LEMMA ValuesNat ==
    ASSUME PInv, NEW l \in Listers, AllPaired(l), NEW n
    PROVE  \A p \in PlacesOf(n, l) : ValueAt(l, p) \in Nat
  <1> SUFFICES ASSUME NEW p \in PlacesOf(n, l) PROVE ValueAt(l, p) \in Nat
    OBVIOUS
  <1>1. PICK r, e : r = p[1] /\ e = IdAt(l, p)
    OBVIOUS
  <1>2. r \in Ranks /\ e \in Ids(n, l) /\ p \in At(r, l, e)
    BY <1>1, PlaceAt
  <1>3. Paired(r, l) /\ e \in GlobalIds(r, l)
    BY <1>2, SameIds DEF AllPaired, Ids
  <1>4. Occurs(r, l, e)
    BY <1>2 DEF At
  <1>5. PICK x \in Entries : AtEntry(r, l, e, x)
    BY <1>2, <1>3, <1>4, OneEntry
  <1>6. PICK t \in Threads : p = <<r, Position(r, l, e), t>>
    BY <1>2, <1>5 DEF AtEntry
  <1>7. ValueAt(l, p) = x.value[t] /\ x.value \in [Threads -> Nat]
    BY <1>5, <1>6 DEF AtEntry
  <1> QED
    BY <1>7

LEMMA ExtremeInRanks ==
    ASSUME PInv, NEW l \in Listers, AllPaired(l), NEW n, NEW all, Whole(all),
           NEW e \in Ids(n, l), NEW step \in {"max", "min"}
    PROVE  Extreme(step, Total(all, l, step, e), ValuesAt(n, l, e))
  <1>1. PICK m \in Nat : m = NumRanks
    BY RankFacts
  <1>2. PICK seq, V : /\ seq = [k \in 1 .. m |-> LocalValue(k - 1, l, step, e)]
                      /\ V = [k \in 1 .. m |-> {ValueAt(l, p) : p \in At(k - 1, l, e)}]
    OBVIOUS
  <1>3. ASSUME NEW k \in 1 .. m
        PROVE  /\ seq[k] \in Int /\ Extreme(step, seq[k], V[k]) /\ V[k] \in SUBSET Nat
               /\ seq[k] = all[k - 1][l].value[step][e]
    <2>1. PICK r \in Ranks : r = k - 1
      BY <1>1, RankFacts
    <2>2. Paired(r, l) /\ e \in GlobalIds(r, l)
      BY SameIds DEF AllPaired, Ids
    <2>3. /\ LocalValue(r, l, step, e) \in Int
          /\ Extreme(step, LocalValue(r, l, step, e),
                     {ValueAt(l, p) : p \in At(r, l, e)})
      BY <2>2, LocalExtreme
    <2>4. seq[k] = LocalValue(r, l, step, e) /\ V[k] = {ValueAt(l, p) : p \in At(r, l, e)}
      BY <1>2, <2>1
    <2>5. V[k] \in SUBSET Nat
      BY <2>4, AtPlaces, ValuesNat
    <2>6. all[r][l].value[step][e] = LocalValue(r, l, step, e)
      BY <2>2, ContributionOf
    <2> QED
      BY <2>1, <2>3, <2>4, <2>5, <2>6
  <1>4. seq \in [1 .. m -> Int]
    BY <1>2, <1>3
  <1>5. ValuesOf(all, l, step, e, m, seq)
    BY <1>1, <1>3 DEF ValuesOf
  <1>6. Extremes(step, seq, V, m)
    BY <1>3 DEF Extremes
  <1>7. Extreme(step, Total(all, l, step, e), Together(V, m))
    BY <1>4, <1>5, <1>6, RanksExtreme
  <1>8. Together(V, m) = ValuesAt(n, l, e)
    <2>1. ASSUME NEW k \in 1 .. m, NEW v \in V[k] PROVE v \in ValuesAt(n, l, e)
      <3>1. PICK p \in At(k - 1, l, e) : v = ValueAt(l, p)
        BY <1>2, <2>1
      <3>2. k - 1 \in Ranks
        BY <1>1, RankFacts
      <3>3. p \in PlacesOf(n, l) /\ IdAt(l, p) = e
        BY <3>1, <3>2, AtPlaces
      <3> QED
        BY <3>1, <3>3 DEF ValuesAt
    <2>2. ASSUME NEW v \in ValuesAt(n, l, e) PROVE \E k \in 1 .. m : v \in V[k]
      <3>1. PICK p \in PlacesOf(n, l) : IdAt(l, p) = e /\ v = ValueAt(l, p)
        BY DEF ValuesAt
      <3>2. p[1] \in Ranks /\ p \in At(p[1], l, e)
        BY <3>1, PlaceAt
      <3>3. PICK k \in 1 .. m : k - 1 = p[1]
        <4>1. p[1] \in Nat /\ p[1] < m
          BY <1>1, <3>2, RankFacts
        <4>2. p[1] + 1 \in 1 .. m /\ (p[1] + 1) - 1 = p[1]
          BY <4>1
        <4> QED
          BY <4>2
      <3>4. v \in V[k]
        BY <1>2, <3>1, <3>2, <3>3
      <3> QED
        BY <3>4
    <2> QED
      BY <2>1, <2>2 DEF Together
  <1> QED
    BY <1>7, <1>8

-----------------------------------------------------------------------------
(* What the statistics of a name come to.                                  *)

\* The statistics of the ids of a lister.
Reductions(all, l, s) ==
    /\ \A e \in GlobalIds(0, l) : s.numEventThreads[e] = TotalThreads(all, l, e)
    /\ \A step \in {"max", "min", "sum"}, e \in GlobalIds(0, l) :
           s.value[step][e] = Total(all, l, step, e)

LEMMA StatisticsOf ==
    ASSUME NEW all, NEW l \in Listers, NEW s, s = Statistics(all)[l]
    PROVE  Reductions(all, l, s)
  <1>1. PICK c, v : /\ c = [e \in GlobalIds(0, l) |-> TotalThreads(all, l, e)]
                    /\ v = [step \in Steps |-> [e \in GlobalIds(0, l) |->
                                                    Total(all, l, step, e)]]
    OBVIOUS
  <1>2. s = [numEventThreads |-> c, value |-> v]
    BY <1>1 DEF Statistics
  <1>3. \A e \in GlobalIds(0, l) : c[e] = TotalThreads(all, l, e)
    BY <1>1
  <1>4. \A step \in {"max", "min", "sum"}, e \in GlobalIds(0, l) :
            v[step][e] = Total(all, l, step, e)
    BY <1>1 DEF Steps
  <1> QED
    BY <1>2, <1>3, <1>4 DEF Reductions

\* The threads that have called a function of that name, or have the event.
LEMMA CountOfName ==
    ASSUME PInv, NEW l \in Listers, AllPaired(l), NEW n, NEW all, Whole(all),
           NEW s, Reductions(all, l, s)
    PROVE  SumOf(On(s.numEventThreads, Ids(n, l)))
           = Cardinality(Called(l, PlacesOf(n, l)))
  <1>1. PICK P, S, E : P = PlacesOf(n, l) /\ S = Called(l, P) /\ E = Ids(n, l)
    OBVIOUS
  <1>2. IsFiniteSet(P) /\ S \in SUBSET P
    BY <1>1, PlacesOfFinite DEF Called
  <1>3. IsFiniteSet(S)
    BY <1>2, FS_Subset
  <1>4. PICK d : d = Ones(S)
    OBVIOUS
  <1>5. d \in [S -> Int] /\ \A p \in S : d[p] = 1
    BY <1>4 DEF Ones
  <1>6. SumOf(d) = SumOf(OfIds(d, S, l, E))
    <2>1. S \in SUBSET PlacesOf(n, l)
      BY <1>1, <1>2
    <2> QED
      BY <1>1, <1>5, <2>1, SumOverRanks
  <1>7. ASSUME NEW e \in E
        PROVE  s.numEventThreads[e] = SumOf(InRanks(d, S, l, e))
    <2>1. TotalThreads(all, l, e) = SumOf(InRanks(d, S, l, e))
      BY <1>1, <1>4, CountInRanks
    <2>2. e \in GlobalIds(0, l)
      BY <1>1 DEF Ids
    <2> QED
      BY <2>1, <2>2 DEF Reductions
  <1>8. On(s.numEventThreads, E) = OfIds(d, S, l, E)
    BY <1>7 DEF On, OfIds
  <1>9. SumOf(d) = Cardinality(S)
    BY <1>3, <1>5, SumCounts
  <1> QED
    BY <1>1, <1>6, <1>8, <1>9

\* The sum of their values.
LEMMA SumOfName ==
    ASSUME PInv, NEW l \in Listers, AllPaired(l), NEW n, NEW all, Whole(all),
           NEW s, Reductions(all, l, s)
    PROVE  SumOf(On(s.value["sum"], Ids(n, l))) = SumOf(Values(l, PlacesOf(n, l)))
  <1>1. PICK P, E : P = PlacesOf(n, l) /\ E = Ids(n, l)
    OBVIOUS
  <1>2. P \in SUBSET P /\ IsFiniteSet(P)
    BY <1>1, PlacesOfFinite
  <1>3. PICK d : d = Values(l, P)
    OBVIOUS
  <1>4. d \in [P -> Int]
    <2>1. \A p \in P : ValueAt(l, p) \in Int
      BY <1>1, ValuesNat
    <2> QED
      BY <1>3, <2>1 DEF Values
  <1>5. SumOf(d) = SumOf(OfIds(d, P, l, E))
    <2>1. P \in SUBSET PlacesOf(n, l)
      BY <1>1, <1>2
    <2> QED
      BY <1>1, <1>4, <2>1, SumOverRanks
  <1>6. ASSUME NEW e \in E
        PROVE  s.value["sum"][e] = SumOf(InRanks(d, P, l, e))
    <2>1. Total(all, l, "sum", e) = SumOf(InRanks(d, P, l, e))
      BY <1>1, <1>3, <1>4, SumInRanks
    <2>2. e \in GlobalIds(0, l)
      BY <1>1 DEF Ids
    <2> QED
      BY <2>1, <2>2 DEF Reductions
  <1>7. On(s.value["sum"], E) = OfIds(d, P, l, E)
    BY <1>6 DEF On, OfIds
  <1> QED
    BY <1>1, <1>3, <1>5, <1>7

\* The values of all places of a name, and those of one of its ids.
AllValues(n, l) == {ValueAt(l, p) : p \in PlacesOf(n, l)}

LEMMA ValuesOfIds ==
    ASSUME PInv, NEW l \in Listers, AllPaired(l), NEW n
    PROVE  /\ AllValues(n, l) \in SUBSET Nat /\ IsFiniteSet(AllValues(n, l))
           /\ \A e : ValuesAt(n, l, e) \in SUBSET AllValues(n, l)
           /\ \A v \in AllValues(n, l) : \E e \in Ids(n, l) : v \in ValuesAt(n, l, e)
  <1>1. PICK P : P = PlacesOf(n, l)
    OBVIOUS
  <1>2. PICK d : d = Values(l, P)
    OBVIOUS
  <1>3. IsFiniteSet(P) /\ DOMAIN d = P /\ d = [p \in P |-> d[p]]
    BY <1>1, <1>2, PlacesOfFinite DEF Values
  <1>4. IsFiniteSet({d[p] : p \in P})
    BY <1>3, ImageFinite
  <1>5. {d[p] : p \in P} = AllValues(n, l)
    BY <1>1, <1>2 DEF Values, AllValues
  <1>6. AllValues(n, l) \in SUBSET Nat
    BY ValuesNat DEF AllValues
  <1>7. \A e : ValuesAt(n, l, e) \in SUBSET AllValues(n, l)
    BY DEF ValuesAt, AllValues
  <1>8. ASSUME NEW v \in AllValues(n, l)
        PROVE  \E e \in Ids(n, l) : v \in ValuesAt(n, l, e)
    <2>1. PICK p \in PlacesOf(n, l) : v = ValueAt(l, p)
      BY DEF AllValues
    <2>2. IdAt(l, p) \in Ids(n, l)
      BY PlaceAt
    <2> QED
      BY <2>1, <2>2 DEF ValuesAt
  <1> QED
    BY <1>4, <1>5, <1>6, <1>7, <1>8

\* The greatest of them.
LEMMA MaxOfName ==
    ASSUME PInv, NEW l \in Listers, AllPaired(l), NEW n, NEW all, Whole(all),
           NEW s, Reductions(all, l, s), Ids(n, l) # {}
    PROVE  Max({s.value["max"][e] : e \in Ids(n, l)}) = Max(AllValues(n, l) \cup {0})
  <1>1. PICK E, V, q : /\ E = Ids(n, l) /\ V = AllValues(n, l)
                       /\ q = [e \in E |-> s.value["max"][e]]
    OBVIOUS
  <1>2. /\ V \in SUBSET Nat /\ IsFiniteSet(V)
        /\ \A e : ValuesAt(n, l, e) \in SUBSET V
        /\ \A v \in V : \E e \in E : v \in ValuesAt(n, l, e)
    BY <1>1, ValuesOfIds
  <1>3. ASSUME NEW e \in E
        PROVE  q[e] \in V \cup {0} /\ \A v \in ValuesAt(n, l, e) : v <= q[e]
    <2>1. Extreme("max", Total(all, l, "max", e), ValuesAt(n, l, e))
      BY <1>1, ExtremeInRanks
    <2>2. q[e] = Total(all, l, "max", e)
      BY <1>1 DEF Reductions, Ids
    <2> QED
      BY <1>2, <2>1, <2>2 DEF Extreme
  <1>4. PICK W : W = V \cup {0}
    OBVIOUS
  <1>5. W \in SUBSET Int /\ IsFiniteSet(W) /\ W # {} /\ W \in SUBSET Nat
    BY <1>2, <1>4, FS_AddElement
  <1>0. \A e \in E : q[e] \in W /\ q[e] \in Nat
    <2>1. \A e \in E : q[e] \in W
      BY <1>3, <1>4
    <2> QED
      BY <1>5, <2>1
  <1>6. Max(W) \in W /\ \A v \in W : v <= Max(W)
    BY <1>5, MaxExists
  <1>7. PICK m \in W : m = Max(W) /\ m \in Nat /\ \A v \in W : v <= m
    BY <1>5, <1>6
  <1>8. PICK Q : Q = {q[e] : e \in E}
    OBVIOUS
  <1>9. Q \in SUBSET W /\ Q \in SUBSET Int
    BY <1>3, <1>4, <1>5, <1>8
  <1>10. m \in Q
    <2>1. CASE m \in V
      <3>1. PICK e \in E : m \in ValuesAt(n, l, e)
        BY <1>2, <2>1
      <3>2. m <= q[e] /\ q[e] \in W /\ q[e] \in Nat
        BY <1>0, <1>3, <1>4, <3>1
      <3>3. q[e] = m
        BY <1>7, <3>2
      <3> QED
        BY <1>8, <3>3
    <2>2. CASE m = 0
      <3>1. PICK e : e \in E
        BY <1>1
      <3>2. q[e] \in W /\ q[e] \in Nat
        BY <1>0, <1>3, <1>4, <3>1
      <3>3. q[e] = m
        BY <1>7, <2>2, <3>2
      <3> QED
        BY <1>8, <3>1, <3>3
    <2> QED
      BY <1>4, <1>7, <2>1, <2>2
  <1>11. Max(Q) = m
    BY <1>7, <1>9, <1>10, MaxIs
  <1>12. Q = {s.value["max"][e] : e \in Ids(n, l)}
    BY <1>1, <1>8
  <1> QED
    BY <1>1, <1>4, <1>7, <1>11, <1>12

\* The least of those that count.
Leasts(s, n, l) == {s.value["min"][e] : e \in Ids(n, l)} \ {-1}
Positives(n, l) == {v \in AllValues(n, l) : v > 0}

LEMMA MinOfName ==
    ASSUME PInv, NEW l \in Listers, AllPaired(l), NEW n, NEW all, Whole(all),
           NEW s, Reductions(all, l, s),
           NEW mins, mins = Leasts(s, n, l), NEW positive, positive = Positives(n, l)
    PROVE  /\ (mins = {}) = (positive = {})
           /\ mins # {} => Min(mins) = Min(positive)
  <1> USE DEF Leasts, Positives
  <1>1. PICK E, V, q : /\ E = Ids(n, l) /\ V = AllValues(n, l)
                       /\ q = [e \in E |-> s.value["min"][e]]
    OBVIOUS
  <1>2. /\ V \in SUBSET Nat
        /\ \A e : ValuesAt(n, l, e) \in SUBSET V
        /\ \A v \in V : \E e \in E : v \in ValuesAt(n, l, e)
    BY <1>1, ValuesOfIds
  <1>3. ASSUME NEW e \in E
        PROVE  \/ q[e] = -1 /\ \A v \in ValuesAt(n, l, e) : ~(v > 0)
               \/ /\ q[e] \in ValuesAt(n, l, e) /\ q[e] > 0
                  /\ \A v \in ValuesAt(n, l, e) : v > 0 => q[e] <= v
    <2>1. Extreme("min", Total(all, l, "min", e), ValuesAt(n, l, e))
      BY <1>1, ExtremeInRanks
    <2>2. q[e] = Total(all, l, "min", e)
      BY <1>1 DEF Reductions, Ids
    <2> QED
      BY <2>1, <2>2 DEF Extreme
  <1>4. mins = {q[e] : e \in E} \ {-1}
    BY <1>1
  <1>5. mins \in SUBSET positive /\ positive \in SUBSET Nat
    BY <1>1, <1>2, <1>3, <1>4
  <1>6. \A v \in positive : \E m \in mins : m <= v
    <2> SUFFICES ASSUME NEW v \in positive PROVE \E m \in mins : m <= v
      OBVIOUS
    <2>1. v \in V /\ v > 0
      BY <1>1
    <2>2. PICK e \in E : v \in ValuesAt(n, l, e)
      BY <1>2, <2>1
    <2>3. q[e] > 0 /\ q[e] \in Nat /\ q[e] <= v
      BY <1>2, <1>3, <2>1, <2>2
    <2>4. q[e] \in mins
      BY <1>4, <2>3
    <2> QED
      BY <2>3, <2>4
  <1>7. (mins = {}) = (positive = {})
    BY <1>5, <1>6
  <1>8. ASSUME mins # {} PROVE Min(mins) = Min(positive)
    <2>1. mins \in SUBSET Nat
      BY <1>5
    <2>2. PICK m \in mins : \A k \in mins : m <= k
      BY <1>8, <2>1, NatMinimum
    <2>3. mins \in SUBSET Int /\ positive \in SUBSET Int /\ m \in positive /\ m \in Nat
      BY <1>5, <2>2
    <2>4. \A v \in positive : m <= v
      <3> SUFFICES ASSUME NEW v \in positive PROVE m <= v
        OBVIOUS
      <3>1. PICK k \in mins : k <= v
        BY <1>6
      <3>2. m <= k /\ k \in Nat /\ v \in Nat
        BY <1>5, <2>1, <2>2, <3>1
      <3> QED
        BY <2>3, <3>1, <3>2
    <2>5. Min(mins) = m
      BY <2>2, <2>3, MinIs
    <2>6. Min(positive) = m
      BY <2>3, <2>4, MinIs
    <2> QED
      BY <2>5, <2>6
  <1> QED
    BY <1>7, <1>8

-----------------------------------------------------------------------------
(* The statistics, step by step.                                           *)

Reported == Late \ {"reduce"}

\* A rank that has taken part in the reductions has contributed what it has,
\* even if its database has grown since; rank 0 waits for all others.
Summed ==
    /\ contrib = [r \in Ranks |-> contrib[r]]
    /\ \A r \in Ranks :
           contrib[r] = IF pc[r] \in Reported THEN Contribution(r) ELSE None
    /\ pc[0] \in Reported =>
           /\ \A r \in Ranks : pc[r] \in Reported
           /\ stats = IF setting.precompute THEN Statistics(contrib) ELSE None
    /\ Written => file.stats = stats

LEMMA LatePaired ==
    ASSUME PInv, NInv, NEW r \in Ranks, pc[r] \in Late, NEW l \in Listers
    PROVE  /\ Named(r, l)
           /\ OInv /\ wild = {} => Paired(r, l)
  <1>1. lister[r] = "atomics"
    BY LateLister
  <1>2. Past(r, l)
    BY <1>1, LatePast
  <1>3. OInv /\ wild = {} => Apart(unifier[r][l].sortMap)
    BY <1>2 DEF OInv, OneToOne, RankApart
  <1> QED
    BY <1>1, <1>3, IdsPaired

\* What an id stands for in a rank does not change.
LEMMA EventStays ==
    ASSUME PInv, NInv, Lasting, NEW r \in Ranks, pc[r] \in Late, NEW l \in Listers
    PROVE  /\ GlobalIds(r, l)' = GlobalIds(r, l)
           /\ \A e \in GlobalIds(r, l) : Occurs(r, l, e)' = Occurs(r, l, e)
           /\ \A e \in GlobalIds(r, l) : Occurs(r, l, e) => Event(r, l, e)' = Event(r, l, e)
  <1>1. PICK u : u = unifier[r][l] /\ u = unifier'[r][l]
    BY DEF Lasting
  <1>2. \A i \in 1 .. u.localNumItems : db'[l][r][i] = db[l][r][i]
    BY <1>1, KnownStays
  <1>3. GlobalIds(r, l)' = GlobalIds(r, l)
    BY <1>1 DEF GlobalIds
  <1>4. GlobalMap(r, l)' = GlobalMap(r, l)
    BY <1>1, <1>3 DEF GlobalMap
  <1>5. PICK map : map = GlobalMap(r, l) /\ map = GlobalMap(r, l)'
    BY <1>4
  <1>6. \A e \in GlobalIds(r, l) : Occurs(r, l, e)' = Occurs(r, l, e)
    BY <1>5 DEF Occurs
  <1>7. ASSUME NEW e \in GlobalIds(r, l), Occurs(r, l, e)
        PROVE  Event(r, l, e)' = Event(r, l, e)
    <2>1. PICK k : k = u.sortMap[map[e]]
      OBVIOUS
    <2>2. k = Position(r, l, e)
      BY <1>1, <1>5, <2>1 DEF Position
    <2>3. k \in 1 .. u.localNumItems
      BY <1>1, <1>7, <2>2, LatePaired DEF Named
    <2>4. Event(r, l, e) = db[l][r][k] /\ Event(r, l, e)' = db'[l][r][k]
      BY <1>1, <1>5, <2>1 DEF Event
    <2> QED
      BY <1>2, <2>3, <2>4
  <1> QED
    BY <1>3, <1>6, <1>7

\* The value of an id as a function of what it stands for.
ValueOf(step, value) ==
    FoldLeft(LAMBDA prev, next : StepValue(step, prev, next), Fill(step), value)

LocalIs ==
    \A r, l, step, e :
        LocalValue(r, l, step, e) = IF Occurs(r, l, e)
                                    THEN ValueOf(step, Event(r, l, e).value)
                                    ELSE Fill(step)

LEMMA LocalIsNow == LocalIs
  BY DEF LocalIs, LocalValue, ValueOf

LEMMA LocalIsValue == LocalIs /\ LocalIs'
  BY LocalIsNow, PTL

LEMMA ContributionStays ==
    ASSUME PInv, NInv, Lasting, NEW r \in Ranks, pc[r] \in Late
    PROVE  Contribution(r)' = Contribution(r)
  <1>1. ASSUME NEW l \in Listers, NEW e \in GlobalIds(r, l)
        PROVE  /\ LocalThreads(r, l, e)' = LocalThreads(r, l, e)
               /\ \A step \in Steps :
                      LocalValue(r, l, step, e)' = LocalValue(r, l, step, e)
    <2>1. Occurs(r, l, e)' = Occurs(r, l, e)
      BY EventStays
    <2>2. CASE Occurs(r, l, e)
      <3>1. Event(r, l, e)' = Event(r, l, e)
        BY <2>2, EventStays
      <3>2. PICK x : x = Event(r, l, e) /\ x = Event(r, l, e)'
        BY <3>1
      <3>3. LocalThreads(r, l, e)' = LocalThreads(r, l, e)
        BY <2>1, <2>2, <3>2 DEF LocalThreads
      <3>4. ASSUME NEW step \in Steps
            PROVE  LocalValue(r, l, step, e)' = LocalValue(r, l, step, e)
        <4>1. /\ LocalValue(r, l, step, e) = ValueOf(step, x.value)
              /\ LocalValue(r, l, step, e)' = ValueOf(step, x.value)
          BY <2>1, <2>2, <3>2, LocalIsValue DEF LocalIs
        <4> QED
          BY <4>1
      <3> QED
        BY <3>3, <3>4
    <2>3. CASE ~Occurs(r, l, e)
      BY <2>1, <2>3, LocalIsValue DEF LocalThreads, LocalIs
    <2> QED
      BY <2>2, <2>3
  <1>2. \A l \in Listers : GlobalIds(r, l)' = GlobalIds(r, l)
    BY EventStays
  <1> QED
    BY <1>1, <1>2 DEF Contribution

LEMMA StatisticsStay ==
    ASSUME PInv, NInv, Lasting, pc[0] \in Late, NEW all
    PROVE  Statistics(all)' = Statistics(all)
  <1>1. 0 \in Ranks
    BY RankFacts
  <1>2. \A l \in Listers : GlobalIds(0, l)' = GlobalIds(0, l)
    BY <1>1, EventStays
  <1> QED
    BY <1>2 DEF Statistics

LEMMA SummedStays ==
    ASSUME PInv, NInv, Lasting, Summed,
           UNCHANGED <<setting, contrib, stats>>,
           \A q \in Ranks : pc'[q] \in Reported <=> pc[q] \in Reported,
           Written' => file'.stats = stats
    PROVE  Summed'
  <1>1. PICK all : all = contrib /\ all = contrib'
    OBVIOUS
  <1>2. all = [r \in Ranks |-> all[r]] /\ 0 \in Ranks
    BY <1>1, RankFacts DEF Summed
  <1>3. ASSUME NEW r \in Ranks
        PROVE  all[r] = (IF pc[r] \in Reported THEN Contribution(r) ELSE None)'
    <2>1. all[r] = IF pc[r] \in Reported THEN Contribution(r) ELSE None
      BY <1>1 DEF Summed
    <2>2. CASE pc[r] \in Reported
      <3>1. Contribution(r)' = Contribution(r)
        BY <2>2, ContributionStays DEF Reported
      <3>2. pc'[r] \in Reported
        BY <2>2
      <3> QED
        BY <2>1, <2>2, <3>1, <3>2
    <2>3. CASE pc[r] \notin Reported
      <3>1. pc'[r] \notin Reported
        BY <2>3
      <3> QED
        BY <2>1, <2>3, <3>1 DEF None
    <2> QED
      BY <2>2, <2>3
  <1>4. ASSUME pc'[0] \in Reported
        PROVE  /\ \A r \in Ranks : pc'[r] \in Reported
               /\ stats' = (IF setting.precompute THEN Statistics(all) ELSE None)'
    <2>1. /\ pc[0] \in Reported /\ \A r \in Ranks : pc[r] \in Reported
          /\ stats = IF setting.precompute THEN Statistics(all) ELSE None
      BY <1>1, <1>2, <1>4 DEF Summed
    <2>2. Statistics(all)' = Statistics(all)
      BY <2>1, StatisticsStay DEF Reported
    <2> QED
      BY <2>1, <2>2 DEF None
  <1>5. Written' => file'.stats = stats'
    OBVIOUS
  <1> QED
    BY <1>1, <1>2, <1>3, <1>4, <1>5 DEF Summed

\* A rank puts what it has into the reductions.
LEMMA ContributeSummed ==
    ASSUME PInv, NInv, Lasting, Summed, NEW r \in Ranks, Contribute(r)
    PROVE  Summed'
  <1>1. /\ pc \in [Ranks -> Places] /\ 0 \in Ranks
        /\ contrib = [q \in Ranks |-> contrib[q]]
    BY RankFacts DEF PInv, Forms, Summed
  <1>2. /\ r # 0 /\ pc[r] = "reduce" /\ pc' = [pc EXCEPT ![r] = "ready"]
        /\ UNCHANGED <<setting, stats, file>>
    BY DEF Contribute, GoTo
  <1>3. PICK c : c = Contribution(r) /\ c = Contribution(r)'
    BY <1>2, ContributionStays DEF Late
  <1>4. contrib' = [contrib EXCEPT ![r] = c]
    BY <1>3 DEF Contribute
  <1>5. pc[0] \notin Reported
    BY <1>2 DEF Summed, Reported, Late, AtRoot
  <1>6. pc'[0] \notin Reported
    BY <1>1, <1>2, <1>5
  <1>7. ~Written'
    BY <1>6 DEF Written, Reported, Late, AtRoot
  <1>8. contrib' = [q \in Ranks |-> contrib'[q]]
    BY <1>1, <1>4
  <1>9. ASSUME NEW q \in Ranks
        PROVE  contrib'[q] = (IF pc[q] \in Reported THEN Contribution(q) ELSE None)'
    <2>1. CASE q = r
      BY <1>1, <1>2, <1>3, <1>4, <2>1 DEF Reported, Late, AtRoot
    <2>2. CASE q # r
      <3>1. contrib'[q] = contrib[q] /\ pc'[q] = pc[q]
        BY <1>1, <1>2, <1>4, <2>2
      <3>2. pc[q] \in Reported => Contribution(q)' = Contribution(q)
        BY ContributionStays DEF Reported
      <3> QED
        BY <3>1, <3>2 DEF Summed, None
    <2> QED
      BY <2>1, <2>2
  <1> QED
    BY <1>6, <1>7, <1>8, <1>9 DEF Summed

\* Rank 0 puts what it has into the reductions and has what comes out of them.
LEMMA ReduceSummed ==
    ASSUME PInv, NInv, Lasting, Summed, Reduce
    PROVE  Summed'
  <1>1. /\ pc \in [Ranks -> Places] /\ 0 \in Ranks
        /\ contrib = [q \in Ranks |-> contrib[q]]
    BY RankFacts DEF PInv, Forms, Summed
  <1>2. /\ pc[0] = "reduce" /\ pc' = [pc EXCEPT ![0] = "open"]
        /\ UNCHANGED <<setting, file>>
        /\ \A q \in Ranks \ {0} : contrib[q] # None
    BY DEF Reduce, GoTo
  <1>3. PICK c : c = Contribution(0) /\ c = Contribution(0)'
    BY <1>1, <1>2, ContributionStays DEF Late
  <1>4. PICK all : all = [contrib EXCEPT ![0] = c] /\ all = contrib'
    BY <1>3 DEF Reduce
  <1>5. stats' = IF setting.precompute THEN Statistics(all) ELSE None
    BY <1>4 DEF Reduce
  <1>6. Statistics(all)' = Statistics(all)
    BY <1>2, StatisticsStay DEF Late
  <1>7. stats' = (IF setting.precompute THEN Statistics(all) ELSE None)'
    BY <1>2, <1>5, <1>6 DEF None
  <1>8. \A q \in Ranks \ {0} : pc[q] \in Reported
    BY <1>2 DEF Summed
  <1>9. \A q \in Ranks : pc'[q] \in Reported
    BY <1>1, <1>2, <1>8 DEF Reported, Late, AtRoot
  <1>10. ~Written'
    BY <1>1, <1>2 DEF Written
  <1>11. contrib' = [q \in Ranks |-> contrib'[q]]
    BY <1>1, <1>4
  <1>12. ASSUME NEW q \in Ranks
         PROVE  contrib'[q] = Contribution(q)'
    <2>1. CASE q = 0
      BY <1>1, <1>3, <1>4, <2>1
    <2>2. CASE q # 0
      <3>1. contrib'[q] = contrib[q] /\ pc[q] \in Reported
        BY <1>1, <1>4, <1>8, <2>2
      <3>2. Contribution(q)' = Contribution(q)
        BY <3>1, ContributionStays DEF Reported
      <3> QED
        BY <3>1, <3>2 DEF Summed
    <2> QED
      BY <2>1, <2>2
  <1>13. stats' = (IF setting.precompute THEN Statistics(contrib) ELSE None)'
    BY <1>4, <1>7
  <1> QED
    BY <1>9, <1>10, <1>11, <1>12, <1>13 DEF Summed

LEMMA RankSummed ==
    ASSUME PInv, NInv, FInv, Summed, NEW r \in Ranks, RankStep(r)
    PROVE  Summed'
  <1>1. /\ Lasting /\ setting' = setting /\ pc \in [Ranks -> Places] /\ 0 \in Ranks
        /\ \A q \in Ranks : q # r => pc'[q] = pc[q]
    BY StepLasts, SettingStays, RankFacts, RestOfStep DEF PInv, Forms, NInv, Rest
  <1>2. CASE (UnifyStep(r) /\ UNCHANGED mergeVars) \/ NextLister(r)
    <2>1. UNCHANGED <<contrib, stats, file>>
      BY <1>2 DEF NextLister, mergeVars
    <2>2. pc[r] \notin Late /\ pc'[r] \notin Late
      BY <1>2, InCall
    <2>3. \A q \in Ranks : pc'[q] \in Reported <=> pc[q] \in Reported
      BY <1>1, <2>2 DEF Reported
    <2>4. Written' => Written
      BY <1>1, <2>2 DEF Written, Late
    <2> QED
      BY <1>1, <2>1, <2>3, <2>4, SummedStays DEF Summed
  <1>3. CASE Snapshot(r)
    <2>1. /\ UNCHANGED <<contrib, stats, file>>
          /\ pc[r] = "done" /\ pc' = [pc EXCEPT ![r] = "reduce"]
      BY <1>3 DEF Snapshot, GoTo
    <2>2. pc[r] \notin Reported /\ pc'[r] \notin Reported
          /\ pc'[r] # "returned"
      BY <1>1, <2>1 DEF Reported, Late, AtRoot
    <2>3. \A q \in Ranks : pc'[q] \in Reported <=> pc[q] \in Reported
      BY <1>1, <2>2
    <2>4. Written' => Written
      BY <1>1, <2>2 DEF Written
    <2> QED
      BY <1>1, <2>1, <2>3, <2>4, SummedStays DEF Summed
  <1>4. CASE Contribute(r)
    BY <1>1, <1>4, ContributeSummed
  <1>5. CASE SendBlockLength(r) \/ SendBlock(r)
    <2>1. r # 0
      <3>1. Placed(r)
        BY DEF PInv
      <3> QED
        BY <1>5, <3>1 DEF Placed, SendBlockLength, SendBlock
    <2>2. /\ UNCHANGED <<contrib, stats, file>>
          /\ pc[r] \in Reported /\ pc'[r] \in Reported
      BY <1>1, <1>5 DEF SendBlockLength, SendBlock, mergeVars, GoTo, Reported, Late
    <2>3. \A q \in Ranks : pc'[q] \in Reported <=> pc[q] \in Reported
      BY <1>1, <2>2
    <2>4. Written' => Written
      BY <1>1, <2>1 DEF Written
    <2> QED
      BY <1>1, <2>2, <2>3, <2>4, SummedStays DEF Summed
  <1>6. CASE r = 0 /\ Reduce
    BY <1>1, <1>6, ReduceSummed
  <1>7. CASE r = 0 /\ (WriteDefinitions \/ AskRank \/ ReceiveBlockLength \/ WriteBlock
                       \/ OpenFails)
    <2>1. /\ UNCHANGED <<contrib, stats>> /\ pc[0] \in Reported
          /\ pc'[0] \in Reported /\ (pc'[0] = "returned" => ~setting.opens)
      BY <1>1, <1>7
      DEF WriteDefinitions, AskRank, ReceiveBlockLength, WriteBlock, OpenFails,
          mergeVars, GoTo, Reported, Late, AtRoot
    <2>2. \A q \in Ranks : pc'[q] \in Reported <=> pc[q] \in Reported
      BY <1>1, <1>7, <2>1
    <2>3. ~Written'
      BY <1>1, <2>1 DEF Written
    <2> QED
      BY <1>1, <2>1, <2>2, <2>3, SummedStays
  <1>8. CASE r = 0 /\ WriteOwn
    <2>1. /\ UNCHANGED <<contrib, stats>> /\ pc[0] = "gather"
          /\ pc' = [pc EXCEPT ![0] = "returned"]
      BY <1>8 DEF WriteOwn, GoTo
    <2>2. pc[0] \in Reported /\ pc'[0] \in Reported
      BY <1>1, <2>1 DEF Reported, Late, AtRoot
    <2>3. \A q \in Ranks : pc'[q] \in Reported <=> pc[q] \in Reported
      BY <1>1, <1>8, <2>2
    <2>4. file'.stats = stats
      <3>1. PICK blocks : file' = [file EXCEPT !.blocks = blocks, !.stats = stats]
        BY <1>8 DEF WriteOwn
      <3>2. file = [names |-> file.names, blocks |-> file.blocks, stats |-> file.stats]
        BY DEF FInv, Filed
      <3> QED
        BY <3>1, <3>2
    <2> QED
      BY <1>1, <2>1, <2>3, <2>4, SummedStays
  <1> QED
    BY <1>2, <1>3, <1>4, <1>5, <1>6, <1>7, <1>8 DEF RankStep, RootStep

LEMMA GrownSummed ==
    ASSUME PInv, NInv, Summed, Grown,
           UNCHANGED <<lister, pc, merged, unifier, chan, wild, mergeVars>>
    PROVE  Summed'
  <1>1. Lasting
    BY GrownLasts
  <1>2. UNCHANGED <<setting, contrib, stats, file, pc>>
    BY DEF mergeVars
  <1>3. Written' => Written
    BY <1>2 DEF Written
  <1> QED
    BY <1>1, <1>2, <1>3, SummedStays DEF Summed

LEMMA NextSummed ==
    ASSUME PInv, NInv, FInv, Summed, [ProfileNext]_allVars
    PROVE  Summed'
  <1>1. ASSUME NEW r \in Ranks, Register(r), UNCHANGED mergeVars
        PROVE  Summed'
    <2>1. Grown
      BY <1>1, RegisterGrows DEF PInv
    <2>2. UNCHANGED <<lister, pc, merged, unifier, chan, wild>>
      BY <1>1 DEF Register, treeVars
    <2> QED
      BY <1>1, <2>1, <2>2, GrownSummed
  <1>2. CASE UNCHANGED allVars
    <2>1. Grown
      <3>1. ASSUME NEW k \in Listers, NEW q \in Ranks
            PROVE  Len(db[k][q]) \in Nat
        <4>1. db[k][q] \in Seq(Entries)
          BY DEF PInv, Forms
        <4> QED
          BY <4>1, LenProperties
      <3> QED
        BY <1>2, <3>1 DEF Grown, allVars, vars
    <2>2. UNCHANGED <<lister, pc, merged, unifier, chan, wild, mergeVars>>
      BY <1>2 DEF allVars, vars, treeVars
    <2> QED
      BY <2>1, <2>2, GrownSummed
  <1>3. CASE ProfileNext
    BY <1>1, <1>3, RankSummed DEF ProfileNext
  <1> QED
    BY <1>2, <1>3

LEMMA InitSummed ==
    ASSUME MergeInit
    PROVE  Summed
  <1>1. /\ contrib = [r \in Ranks |-> None] /\ pc = [r \in Ranks |-> "start"]
        /\ 0 \in Ranks
    BY RankFacts DEF MergeInit, Init
  <1>2. \A r \in Ranks : pc[r] = "start" /\ contrib[r] = None
    BY <1>1
  <1>3. "start" \notin Reported
    BY DEF Reported, Late, AtRoot
  <1>4. ~Written
    BY <1>1, <1>2 DEF Written
  <1> QED
    BY <1>1, <1>2, <1>3, <1>4 DEF Summed

\* The sum of what stands at some places, as StatsExact has it.
LEMMA SumOfValues ==
    ASSUME NEW l, NEW P
    PROVE  MapThenSumSet(LAMBDA p : ValueAt(l, p), P) = SumOf(Values(l, P))
  <1> DEFINE Pick(s) == CHOOSE x \in s : TRUE
             d == Values(l, P)
             G(g) == g = [s \in SUBSET P |->
                             IF s = {} THEN 0 ELSE ValueAt(l, Pick(s)) + g[s \ {Pick(s)}]]
             H(g) == g = [s \in SUBSET P |->
                             IF s = {} THEN 0 ELSE d[Pick(s)] + g[s \ {Pick(s)}]]
  <1>1. DOMAIN d = P /\ \A x \in P : d[x] = ValueAt(l, x)
    BY DEF Values
  <1>2. MapThenSumSet(LAMBDA p : ValueAt(l, p), P) = (CHOOSE g : G(g))[P]
    BY DEF MapThenSumSet, MapThenFoldSet
  <1>3. SumOf(d) = (CHOOSE g : H(g))[P]
    <2> HIDE DEF d
    <2> QED
      BY <1>1 DEF SumOf, MapThenSumSet, MapThenFoldSet
  <1>4. \A s \in SUBSET P : s # {} => d[Pick(s)] = ValueAt(l, Pick(s))
    <2>1. \A s \in SUBSET P : s # {} => Pick(s) \in P
      OBVIOUS
    <2> HIDE DEF Pick, d
    <2> QED
      BY <1>1, <2>1
  <1>5. \A g : G(g) <=> H(g)
    <2> SUFFICES ASSUME NEW g PROVE G(g) <=> H(g)
      OBVIOUS
    <2>1. [s \in SUBSET P |-> IF s = {} THEN 0 ELSE ValueAt(l, Pick(s)) + g[s \ {Pick(s)}]]
          = [s \in SUBSET P |-> IF s = {} THEN 0 ELSE d[Pick(s)] + g[s \ {Pick(s)}]]
      <3> HIDE DEF Pick, d
      <3> QED
        BY <1>4
    <2> QED
      BY <2>1
  <1> HIDE DEF G, H
  <1>6. (CHOOSE g : G(g)) = (CHOOSE g : H(g))
    BY <1>5, Zenon
  <1> QED
    BY <1>2, <1>3, <1>6

LEMMA SummedExact ==
    ASSUME PInv, NInv, OInv, FInv, Summed
    PROVE  StatsExact
  <1> SUFFICES ASSUME Written, wild = {}, setting.precompute, NEW l \in Listers, NEW n \in Names,
                      {e \in GlobalIds(0, l) : file.names[l][e] = n} # {}
               PROVE
        LET ids == {e \in GlobalIds(0, l) : file.names[l][e] = n}
            places == PlacesOf(n, l)
            values == {ValueAt(l, p) : p \in places}
            s == file.stats[l]
        IN  /\ MapThenSumSet(LAMBDA e : s.numEventThreads[e], ids)
               = Cardinality({p \in places : CallsAt(l, p) > 0})
            /\ MapThenSumSet(LAMBDA e : s.value["sum"][e], ids)
               = MapThenSumSet(LAMBDA p : ValueAt(l, p), places)
            /\ Max({s.value["max"][e] : e \in ids}) = Max(values \cup {0})
            /\ LET mins == {s.value["min"][e] : e \in ids} \ {-1}
                   positive == {v \in values : v > 0}
               IN /\ (mins = {}) = (positive = {})
                  /\ mins # {} => Min(mins) = Min(positive)
    BY DEF StatsExact
  <1>1. 0 \in Ranks /\ pc[0] \in Reported /\ pc[0] \in Late
    BY RankFacts DEF Written, Reported, Late, AtRoot
  <1>2. \A r \in Ranks : pc[r] \in Reported /\ pc[r] \in Late
    BY <1>1 DEF Summed, Reported
  <1>3. AllPaired(l)
    BY <1>2, LatePaired, GlobalIsSeq DEF AllPaired
  <1>4. PICK all : all = contrib
    OBVIOUS
  <1>5. Whole(all)
    BY <1>2, <1>4 DEF Summed, Whole
  <1>6. file.stats = Statistics(all)
    BY <1>1, <1>4 DEF Summed
  <1>7. PICK s : s = file.stats[l]
    OBVIOUS
  <1>8. Reductions(all, l, s)
    BY <1>6, <1>7, StatisticsOf
  <1>9. file.names[l] = Global(l)
    <2>1. Past(0, l)
      BY <1>1, LateLister, LatePast
    <2> QED
      BY <2>1 DEF Global, FInv, Filed
  <1>10. PICK ids : /\ ids = {e \in GlobalIds(0, l) : file.names[l][e] = n}
                    /\ ids = Ids(n, l) /\ ids # {}
    BY <1>9 DEF Ids
  <1>11. PICK places : places = PlacesOf(n, l)
    OBVIOUS
  <1>12. MapThenSumSet(LAMBDA e : s.numEventThreads[e], ids)
         = Cardinality({p \in places : CallsAt(l, p) > 0})
    <2>1. PICK q : q = s.numEventThreads
      OBVIOUS
    <2>2. SumOf(On(q, ids)) = Cardinality(Called(l, places))
      BY <1>3, <1>5, <1>8, <1>10, <1>11, <2>1, CountOfName
    <2>3. MapThenSumSet(LAMBDA e : q[e], ids) = SumOf(On(q, ids))
      BY SumOver
    <2> QED
      BY <2>1, <2>2, <2>3 DEF Called
  <1>13. MapThenSumSet(LAMBDA e : s.value["sum"][e], ids)
         = MapThenSumSet(LAMBDA p : ValueAt(l, p), places)
    <2>1. PICK q, d : q = s.value["sum"] /\ d = Values(l, places)
      OBVIOUS
    <2>2. SumOf(On(q, ids)) = SumOf(d)
      BY <1>3, <1>5, <1>8, <1>10, <1>11, <2>1, SumOfName
    <2>3. MapThenSumSet(LAMBDA e : q[e], ids) = SumOf(On(q, ids))
      BY SumOver
    <2>4. MapThenSumSet(LAMBDA p : ValueAt(l, p), places) = SumOf(d)
      BY <2>1, SumOfValues
    <2> QED
      BY <2>1, <2>2, <2>3, <2>4
  <1>14. Max({s.value["max"][e] : e \in ids})
         = Max({ValueAt(l, p) : p \in places} \cup {0})
    BY <1>3, <1>5, <1>8, <1>10, <1>11, MaxOfName DEF AllValues
  <1>15. ASSUME NEW mins, mins = {s.value["min"][e] : e \in ids} \ {-1},
                NEW positive, positive = {v \in {ValueAt(l, p) : p \in places} : v > 0}
         PROVE  /\ (mins = {}) = (positive = {})
                /\ mins # {} => Min(mins) = Min(positive)
    <2>1. mins = Leasts(s, n, l) /\ positive = Positives(n, l)
      BY <1>10, <1>11, <1>15 DEF AllValues, Leasts, Positives
    <2> QED
      BY <1>3, <1>5, <1>8, <2>1, MinOfName
  <1> DEFINE Ns == {e \in GlobalIds(0, l) : file.names[l][e] = n}
  <1>16. MapThenSumSet(LAMBDA e : file.stats[l].numEventThreads[e], Ns)
         = Cardinality({p \in PlacesOf(n, l) : CallsAt(l, p) > 0})
    BY <1>7, <1>10, <1>11, <1>12
  <1>17. MapThenSumSet(LAMBDA e : file.stats[l].value["sum"][e], Ns)
         = MapThenSumSet(LAMBDA p : ValueAt(l, p), PlacesOf(n, l))
    BY <1>7, <1>10, <1>11, <1>13
  <1>18. Max({file.stats[l].value["max"][e] : e \in Ns})
         = Max({ValueAt(l, p) : p \in PlacesOf(n, l)} \cup {0})
    BY <1>7, <1>10, <1>11, <1>14
  <1> DEFINE mins == {file.stats[l].value["min"][e] : e \in Ns} \ {-1}
             positive == {v \in {ValueAt(l, p) : p \in PlacesOf(n, l)} : v > 0}
  <1>19. /\ (mins = {}) = (positive = {})
         /\ mins # {} => Min(mins) = Min(positive)
    <2>1. /\ mins = {s.value["min"][e] : e \in ids} \ {-1}
          /\ positive = {v \in {ValueAt(l, p) : p \in places} : v > 0}
      BY <1>7, <1>10, <1>11
    <2> HIDE DEF mins, positive
    <2> QED
      BY <1>15, <2>1
  <1> QED
    BY <1>16, <1>17, <1>18, <1>19

\* TauProfileMerge.cpp, TauCollate.cpp: the statistics in the merged file are,
\* for each name, those of all threads of all ranks that have an entry of that
\* name, taken together: how many threads, the sum, the greatest value, and the
\* least of the values that are positive, -1 where there are none, whatever
\* the ranks register or receive before and after they take part; unless a
\* rank has read its sort map behind the end (TauUnify.cpp:155).
THEOREM StatsAreExact == MergeSpec => []StatsExact
  <1>1. MergeInit => PInv /\ NInv /\ OInv /\ FInv /\ Summed
    BY InitPInv, InitNInv, InitOInv, InitFInv, InitSummed
  <1>2. PInv /\ NInv /\ OInv /\ FInv /\ Summed /\ [ProfileNext]_allVars
        => PInv' /\ NInv' /\ OInv' /\ FInv' /\ Summed'
    BY NextPInv, NextNInv, NextOInv, NextFInv, NextSummed
  <1>3. PInv /\ NInv /\ OInv /\ FInv /\ Summed => StatsExact
    BY SummedExact
  <1> QED
    BY <1>1, <1>2, <1>3, PTL DEF MergeSpec

-----------------------------------------------------------------------------
(***************************************************************************)
(* The global list of each call is the union of the ranks' lists.  As in   *)
(* one call, the lists are sorted on the way up, and some rank has each    *)
(* name as often as a list has it; but the list that a rank began a call   *)
(* with is in its objects only until the next call begins, and in what it  *)
(* has returned from then on.  All this is about runs in which no rank     *)
(* reads its sort map behind the end.                                      *)
(***************************************************************************)
HasList(q, l) ==
    Past(q, l) \/ (lister[q] = l /\ pc[q] \notin {"start", "buffer"})

OwnList(q, l) == IF Past(q, l) THEN LocalStrings(q, l) ELSE objs[q][1].strings

\* Some rank has each name as often as it is in a list.
HadBy(list, l) ==
    \A n \in Names : \E q \in Ranks :
        HasList(q, l) /\ Occurrences(OwnList(q, l), n) = Occurrences(list, n)

Unites(list, l) == Ordered(list) /\ HadBy(list, l)

RankUnites(r) ==
    /\ pc[r] \notin {"start", "buffer"} =>
           \A k \in Objects(r) : Ordered(objs[r][k].strings)
    /\ pc[r] \in Collecting => merged[r] = <<>>
    /\ Merging(r)
    /\ pc[r] \in Waiting => Unites(Up(r), lister[r])

UInv ==
    /\ \A r \in Ranks : RankUnites(r)
    /\ \A l \in Listers : Fixed(l) => Unites(Global(l), l)

\* A table that guides from a list to another, and how often they have a name.
LEMMA GuideObject ==
    ASSUME NEW from \in Seq(Names), NEW to \in Seq(Names), NEW table,
           Guides(table, Len(from), from, to)
    PROVE  \E o \in Object :
               /\ o.strings = from /\ Leads(o, Len(o.strings), to)
               /\ Rises(o.mapping, Len(o.strings))
               /\ \A j \in 1 .. Len(from) : o.mapping[j] = table[j]
  <1>1. PICK n \in Nat : n = Len(from)
    BY LenProperties
  <1>2. \A j \in 1 .. n : table[j] \in 1 .. Len(to) /\ to[table[j]] = from[j]
    BY <1>1 DEF Guides
  <1>3. \A j \in 1 .. n : table[j] \in Nat
    BY <1>2
  <1>4. PICK m : m = [j \in 1 .. n |-> table[j]]
    OBVIOUS
  <1>5. m \in Seq(Nat) /\ \A j \in 1 .. n : m[j] = table[j]
    <2>1. m \in [1 .. n -> Nat]
      BY <1>3, <1>4
    <2> QED
      BY <1>1, <1>4, <2>1, FunctionIsSeq
  <1>6. PICK o : o = [rank |-> -1, strings |-> from, mapping |-> m, idx |-> 1]
    OBVIOUS
  <1>7. o \in Object /\ o.strings = from /\ o.mapping = m
    BY <1>5, <1>6 DEF Object
  <1>8. Leads(o, n, to)
    BY <1>2, <1>5, <1>7 DEF Leads
  <1>9. Rises(m, n)
    <2>1. Rises(table, n)
      BY <1>1 DEF Guides
    <2> QED
      BY <1>5, <2>1 DEF Rises
  <1> QED
    BY <1>1, <1>5, <1>7, <1>8, <1>9

LEMMA GuidesNotMore ==
    ASSUME NEW from \in Seq(Names), NEW to \in Seq(Names), NEW table, NEW n,
           Guides(table, Len(from), from, to)
    PROVE  Occurrences(from, n) <= Occurrences(to, n)
  <1>1. PICK o \in Object :
            /\ o.strings = from /\ Leads(o, Len(o.strings), to)
            /\ Rises(o.mapping, Len(o.strings))
    BY GuideObject
  <1>2. Occurrences(o.strings, n) <= Occurrences(to, n)
    BY <1>1, NotMore
  <1> QED
    BY <1>1, <1>2

\* Each place where the list has n is the position of some string.
Reached(table, from, to, n) ==
    \A p \in 1 .. Len(to) :
        to[p] = n => \E j \in 1 .. Len(from) : table[j] = p

LEMMA GuidesAsOften ==
    ASSUME NEW from \in Seq(Names), NEW to \in Seq(Names), NEW table, NEW n,
           Guides(table, Len(from), from, to), Reached(table, from, to, n)
    PROVE  Occurrences(from, n) = Occurrences(to, n)
  <1>1. PICK o \in Object :
            /\ o.strings = from /\ Leads(o, Len(o.strings), to)
            /\ Rises(o.mapping, Len(o.strings))
            /\ \A j \in 1 .. Len(from) : o.mapping[j] = table[j]
    BY GuideObject
  <1>2. Covers(o, Len(o.strings), to, n)
    BY <1>1 DEF Covers, Reached
  <1>3. Occurrences(o.strings, n) = Occurrences(to, n)
    BY <1>1, <1>2, AsOften
  <1> QED
    BY <1>1, <1>3

\* What a rank has returned of a call is the list it began the call with, and
\* its table leads from that to the global list.
LEMMA ReturnedList ==
    ASSUME NInv, NEW q \in Ranks, NEW l \in Listers, Past(q, l)
    PROVE  \E strings \in Seq(Names) :
               /\ LocalStrings(q, l) = strings /\ Past(0, l)
               /\ unifier[q][l].globalNumItems = Len(Global(l))
               /\ unifier[q][l].localNumItems = Len(strings)
               /\ Sorts(unifier[q][l].sortMap, db[l][q], strings)
               /\ Guides(unifier[q][l].mapping, Len(strings), strings, Global(l))
  <1>1. PICK u : u = unifier[q][l]
    OBVIOUS
  <1>2. Given(q, l)
    BY DEF NInv, RankNames
  <1>3. PICK strings \in Seq(Names) :
            /\ Past(0, l) /\ u.globalNumItems = Len(Global(l))
            /\ u.localNumItems = Len(strings)
            /\ Sorts(u.sortMap, db[l][q], strings)
            /\ Guides(u.mapping, Len(strings), strings, Global(l))
    BY <1>1, <1>2 DEF Given
  <1>4. \A i \in 1 .. Len(strings) : db[l][q][u.sortMap[i]].name = strings[i]
    BY <1>3 DEF Sorts
  <1>5. LocalStrings(q, l) = [i \in 1 .. Len(strings) |->
                                 db[l][q][u.sortMap[i]].name]
    BY <1>1, <1>3 DEF LocalStrings
  <1>6. strings = [i \in 1 .. Len(strings) |-> strings[i]]
    BY <1>3, SeqIsListed DEF Listed
  <1>7. LocalStrings(q, l) = strings
    BY <1>4, <1>5, <1>6
  <1> QED
    BY <1>1, <1>3, <1>7

\* What is registered later does not change it.
LEMMA LocalKept ==
    ASSUME NInv, Grown, NEW q \in Ranks, NEW l \in Listers, Past(q, l),
           unifier'[q][l] = unifier[q][l]
    PROVE  LocalStrings(q, l)' = LocalStrings(q, l)
  <1>1. PICK u : u = unifier[q][l]
    OBVIOUS
  <1>2. PICK strings \in Seq(Names) :
            /\ LocalStrings(q, l) = strings
            /\ u.localNumItems = Len(strings)
            /\ Sorts(u.sortMap, db[l][q], strings)
    BY <1>1, ReturnedList
  <1>3. ASSUME NEW i \in 1 .. Len(strings)
        PROVE  db'[l][q][u.sortMap[i]].name = strings[i]
    <2>1. PICK k : k = u.sortMap[i]
      OBVIOUS
    <2>2. /\ k \in 1 .. Len(u.sortMap) /\ Len(u.sortMap) <= Len(db[l][q])
          /\ db[l][q][k].name = strings[i] /\ Len(u.sortMap) = Len(strings)
      BY <1>2, <2>1 DEF Sorts
    <2>3. Len(strings) \in Nat
      BY LenProperties
    <2>4. k \in 1 .. Len(db[l][q])
      BY <2>2, <2>3 DEF Grown
    <2>5. db'[l][q][k] = db[l][q][k]
      BY <2>4 DEF Grown
    <2> QED
      BY <2>1, <2>2, <2>5
  <1>4. LocalStrings(q, l)' = [i \in 1 .. Len(strings) |->
                                  db'[l][q][u.sortMap[i]].name]
    BY <1>1, <1>2 DEF LocalStrings
  <1>5. strings = [i \in 1 .. Len(strings) |-> strings[i]]
    BY SeqIsListed DEF Listed
  <1> QED
    BY <1>2, <1>3, <1>4, <1>5

LEMMA SameGrown ==
    ASSUME PInv, db' = db
    PROVE  Grown
  <1>1. ASSUME NEW k \in Listers, NEW q \in Ranks
        PROVE  Len(db[k][q]) \in Nat
    <2>1. db[k][q] \in Seq(Entries)
      BY DEF PInv, Forms
    <2> QED
      BY <2>1, LenProperties
  <1> QED
    BY <1>1 DEF Grown

\* So a list that a rank has begun with stays its own.
OwnListsStay ==
    \A q \in Ranks, l \in Listers : HasList(q, l) =>
        HasList(q, l)' /\ OwnList(q, l)' = OwnList(q, l)

LEMMA OwnListAlone ==
    ASSUME NInv, Grown, NEW q \in Ranks, NEW l \in Listers, HasList(q, l),
           pc'[q] = pc[q], lister'[q] = lister[q], objs'[q] = objs[q],
           unifier'[q] = unifier[q]
    PROVE  HasList(q, l)' /\ OwnList(q, l)' = OwnList(q, l)
  <1>1. Past(q, l)' <=> Past(q, l)
    BY DEF Past
  <1>2. HasList(q, l)'
    BY <1>1 DEF HasList
  <1>3. CASE Past(q, l)
    <2>1. LocalStrings(q, l)' = LocalStrings(q, l)
      BY <1>3, LocalKept
    <2> QED
      BY <1>1, <1>2, <1>3, <2>1 DEF OwnList
  <1>4. CASE ~Past(q, l)
    BY <1>1, <1>2, <1>4 DEF OwnList
  <1> QED
    BY <1>3, <1>4

\* In a call, before it returns, a rank keeps the first list of its objects.
LEMMA FirstKept ==
    ASSUME PInv, NEW r \in Ranks, UnifyStep(r), pc[r] \notin {"start", "buffer"}
    PROVE  /\ pc'[r] \notin {"start", "buffer"}
           /\ objs'[r][1].strings = objs[r][1].strings
           /\ ~Return(r) => pc'[r] \notin {"done"} \cup Late
  <1>1. /\ pc \in [Ranks -> Places] /\ objs = [q \in Ranks |-> objs[q]]
        /\ Len(objs[r]) \in Nat /\ Len(objs[r]) >= 1 /\ Listed(objs[r])
        /\ Formed(objs[r][1])
    <2>1. Forms /\ Family(r)
      BY DEF PInv
    <2>2. Len(objs[r]) \in Nat /\ Len(objs[r]) >= 1
      BY <2>1 DEF Forms, Listed, Family
    <2>3. 1 \in Objects(r)
      BY <2>2 DEF Objects
    <2>4. Formed(objs[r][1]) /\ Listed(objs[r])
      BY <2>1, <2>3 DEF Forms
    <2> QED
      BY <2>1, <2>2, <2>4 DEF Forms
  <1>2. 1 \in 1 .. Len(objs[r])
    BY <1>1
  <1>3. CASE \/ SkipChild(r) \/ AskChild(r) \/ ReceiveLength(r) \/ EndTree(r)
             \/ MergeEnd(r) \/ SendLength(r)
    <2>1. objs' = objs
      BY <1>3 DEF SkipChild, AskChild, ReceiveLength, EndTree, MergeEnd,
                  SendLength, treeVars
    <2>2. pc'[r] \in {"tree", "len", "names", "merge", "ok", "down", "send"}
      BY <1>1, <1>3 DEF SkipChild, AskChild, ReceiveLength, EndTree, MergeEnd,
                        SendLength, GoTo
    <2> QED
      BY <1>3, <2>1, <2>2, Busy
  <1>4. CASE SendNames(r) \/ SendMap(r)
    <2>1. objs' = objs /\ pc'[r] \in {"map", "down"}
      BY <1>1, <1>4 DEF SendNames, SendMap, GoTo
    <2> QED
      BY <2>1, Busy
  <1>5. CASE ReceiveNames(r)
    <2>1. pc'[r] = "tree"
      BY <1>1, <1>5 DEF ReceiveNames, GoTo
    <2>2. PICK o : objs' = [objs EXCEPT ![r] = Append(objs[r], o)]
      BY <1>5 DEF ReceiveNames
    <2>3. objs'[r] = Append(objs[r], o)
      BY <1>1, <2>2
    <2>4. Append(objs[r], o)[1] = objs[r][1]
      BY <1>1, <1>2, ListedAppend
    <2> QED
      BY <2>1, <2>3, <2>4, Busy
  <1>6. CASE MergeNext(r)
    <2>1. pc' = pc /\ pc[r] = "merge"
      BY <1>6 DEF MergeNext
    <2>2. PICK i \in LiveObjs(r) :
              objs' = [objs EXCEPT ![r] = [k \in 1 .. Len(objs[r]) |->
                   Advanced(objs[r][k], Current(objs[r][i]), Len(merged[r]) + 1)]]
      BY <1>6 DEF MergeNext
    <2>3. PICK name, count : /\ name = Current(objs[r][i])
                             /\ count = Len(merged[r]) + 1
      OBVIOUS
    <2>4. PICK os : os = [k \in 1 .. Len(objs[r]) |->
                             Advanced(objs[r][k], name, count)]
      OBVIOUS
    <2>5. objs'[r] = os
      BY <1>1, <2>2, <2>3, <2>4
    <2>6. os[1] = Advanced(objs[r][1], name, count)
      BY <1>2, <2>4
    <2>7. Advanced(objs[r][1], name, count).strings = objs[r][1].strings
      BY <1>1, AdvancedFacts
    <2> QED
      BY <2>1, <2>5, <2>6, <2>7, Busy
  <1>7. CASE ReceiveMap(r)
    <2>1. pc'[r] = "down"
      BY <1>1, <1>7 DEF ReceiveMap, GoTo
    <2>2. PICK table : table = Body(r, Parent(r))
      OBVIOUS
    <2>3. PICK os : os = [k \in 1 .. Len(objs[r]) |-> Mapped(objs[r][k], table)]
      OBVIOUS
    <2>4. objs'[r] = os
      BY <1>1, <1>7, <2>2, <2>3 DEF ReceiveMap
    <2>5. os[1] = Mapped(objs[r][1], table)
      BY <1>2, <2>3
    <2>6. Mapped(objs[r][1], table).strings = objs[r][1].strings
      BY <1>1, MappedFacts
    <2> QED
      BY <2>1, <2>4, <2>5, <2>6, Busy
  <1>8. CASE Return(r)
    BY <1>1, <1>8 DEF Return, GoTo, treeVars
  <1>9. ~Start(r) /\ ~FillBuffer(r) /\ ~FillBufferCrash(r)
    BY DEF Start, FillBuffer, FillBufferCrash
  <1> QED
    BY <1>3, <1>4, <1>5, <1>6, <1>7, <1>8, <1>9 DEF UnifyStep

\* What a call returns is the list that the rank began it with.
LEMMA ReturnedOwn ==
    ASSUME PInv, NInv, NEW r \in Ranks, NEW l \in Listers, lister[r] = l,
           Return(r)
    PROVE  Past(r, l)' /\ LocalStrings(r, l)' = objs[r][1].strings
  <1>1. NTypes /\ Forms /\ Family(r) /\ RankNames(r)
    BY DEF PInv, NInv
  <1>2. PICK n : n = IF r = 0 THEN Len(merged[r]) ELSE bcast[l]
    OBVIOUS
  <1>3. /\ pc[r] = "down" /\ pc'[r] = "done"
        /\ unifier' = [unifier EXCEPT ![r] = [unifier[r] EXCEPT ![l] = Unified(r, n)]]
        /\ db' = db /\ lister' = lister
    BY <1>1, <1>2 DEF Return, GoTo, Forms
  <1>4. PICK strings : strings = objs[r][1].strings
    OBVIOUS
  <1>5. strings \in Seq(Names) /\ Sorts(sortMap[r], db[l][r], strings)
    <2>1. 1 \in Objects(r)
      BY <1>1, <1>3 DEF Family, Forms, Listed, Objects
    <2>2. Formed(objs[r][1])
      BY <1>1, <2>1 DEF Forms
    <2> QED
      BY <1>1, <1>3, <1>4, <2>2 DEF Formed, RankNames, Read
  <1>6. PICK u : u = Unified(r, n)
    OBVIOUS
  <1>7. u.localNumItems = Len(strings) /\ u.sortMap = sortMap[r]
    BY <1>4, <1>6 DEF Unified
  <1>8. unifier'[r][l] = u
    <2>1. unifier \in [Ranks -> [Listers -> Unifier]]
      BY <1>1 DEF NTypes
    <2>2. unifier' = [unifier EXCEPT ![r] = [unifier[r] EXCEPT ![l] = u]]
      BY <1>3, <1>6
    <2> HIDE DEF Unifier
    <2> QED
      BY <2>1, <2>2
  <1>9. LocalStrings(r, l)' = [i \in 1 .. Len(strings) |->
                                  db[l][r][sortMap[r][i]].name]
    BY <1>3, <1>7, <1>8 DEF LocalStrings
  <1>10. \A i \in 1 .. Len(strings) : db[l][r][sortMap[r][i]].name = strings[i]
    BY <1>5 DEF Sorts
  <1>11. strings = [i \in 1 .. Len(strings) |-> strings[i]]
    BY <1>5, SeqIsListed DEF Listed
  <1>12. Past(r, l)'
    BY <1>3 DEF Past
  <1> QED
    BY <1>4, <1>9, <1>10, <1>11, <1>12

LEMMA OwnListsKept ==
    ASSUME PInv, NInv, NEW r \in Ranks, RankStep(r)
    PROVE  OwnListsStay
  <1>1. NTypes /\ Rest(r) /\ Grown
    BY RestOfStep, SameGrown DEF NInv
  <1>2. SUFFICES ASSUME NEW q \in Ranks, NEW l \in Listers, HasList(q, l)
                 PROVE  HasList(q, l)' /\ OwnList(q, l)' = OwnList(q, l)
    BY DEF OwnListsStay
  <1>3. CASE q # r
    BY <1>1, <1>2, <1>3, OwnListAlone DEF Rest
  <1>4. CASE q = r /\ Past(r, l)
    <2>1. Past(r, l)' /\ unifier'[r][l] = unifier[r][l]
      BY <1>1, <1>4, PastStays
    <2>2. LocalStrings(r, l)' = LocalStrings(r, l)
      BY <1>1, <1>4, <2>1, LocalKept
    <2> QED
      BY <1>4, <2>1, <2>2 DEF HasList, OwnList
  <1>5. CASE q = r /\ ~Past(r, l)
    <2>1. /\ lister[r] = l /\ pc[r] \notin {"start", "buffer"}
          /\ pc[r] \notin {"done"} \cup Late
      BY <1>2, <1>5 DEF HasList, Past
    <2>2. UnifyStep(r)
      BY <2>1, StepKinds, LateStepFacts DEF NextLister
    <2>3. lister' = lister
      BY <1>1, <2>2, RestOfUnify DEF PInv
    <2>4. CASE Return(r)
      <3>1. Past(r, l)' /\ LocalStrings(r, l)' = objs[r][1].strings
        BY <2>1, <2>4, ReturnedOwn
      <3> QED
        BY <1>5, <3>1 DEF HasList, OwnList
    <2>5. CASE ~Return(r)
      <3>1. /\ pc'[r] \notin {"start", "buffer"}
            /\ objs'[r][1].strings = objs[r][1].strings
            /\ pc'[r] \notin {"done"} \cup Late
        BY <2>1, <2>2, <2>5, FirstKept
      <3>2. ~Past(r, l)'
        BY <1>5, <2>1, <2>3, <3>1 DEF Past
      <3> QED
        BY <1>5, <2>1, <2>3, <3>1, <3>2 DEF HasList, OwnList
    <2> QED
      BY <2>4, <2>5
  <1> QED
    BY <1>3, <1>4, <1>5

\* A list that unites the ranks' goes on doing so.
LEMMA UnitesStays ==
    ASSUME OwnListsStay, NEW list, NEW l \in Listers, Unites(list, l)
    PROVE  Unites(list, l)'
  <1>1. ASSUME NEW n \in Names
        PROVE  \E q \in Ranks :
                   /\ HasList(q, l)'
                   /\ Occurrences(OwnList(q, l)', n) = Occurrences(list, n)
    <2>1. PICK q \in Ranks :
              HasList(q, l) /\ Occurrences(OwnList(q, l), n) = Occurrences(list, n)
      BY DEF Unites, HadBy
    <2>2. HasList(q, l)' /\ OwnList(q, l)' = OwnList(q, l)
      BY <2>1 DEF OwnListsStay
    <2> QED
      BY <2>1, <2>2
  <1>2. Ordered(list)
    BY DEF Unites
  <1>3. HadBy(list, l)'
    BY <1>1 DEF HadBy, Occurrences
  <1> QED
    BY <1>2, <1>3 DEF Unites

\* The places of a rank, of which the last are those after it has merged.
LEMMA RankUnitesStays ==
    ASSUME OwnListsStay, NEW q \in Ranks, lister[q] \in Listers, RankUnites(q),
           lister'[q] = lister[q], objs'[q] = objs[q], merged'[q] = merged[q],
           pc'[q] \in Collecting => pc[q] \in Collecting,
           pc'[q] = "merge" => pc[q] = "merge",
           pc'[q] \in Waiting => pc[q] \in Waiting,
           pc[q] \in {"start", "buffer"} => pc'[q] \in {"start", "buffer"}
    PROVE  RankUnites(q)'
  <1>1. LiveObjs(q)' = LiveObjs(q) /\ Objects(q)' = Objects(q)
    BY DEF LiveObjs, Objects
  <1>2. Merging(q)'
    BY <1>1 DEF RankUnites, Merging
  <1>3. pc'[q] \in Waiting => Unites(Up(q), lister[q])'
    <2>1. PICK up : up = Up(q) /\ up = Up(q)'
      BY DEF Up
    <2>2. PICK l \in Listers : l = lister[q] /\ l = lister'[q]
      OBVIOUS
    <2>3. pc'[q] \in Waiting => Unites(up, l)'
      BY <2>1, <2>2, UnitesStays DEF RankUnites
    <2> QED
      BY <2>1, <2>2, <2>3 DEF Unites, HadBy, HasList, OwnList, Past, LocalStrings
  <1>4. (pc[q] \notin {"start", "buffer"} => \A k \in Objects(q) : Ordered(objs[q][k].strings))'
    BY <1>1 DEF RankUnites
  <1>5. (pc[q] \in Collecting => merged[q] = <<>>)'
    BY DEF RankUnites
  <1> QED
    BY <1>2, <1>3, <1>4, <1>5 DEF RankUnites

LEMMA QuietUnites ==
    ASSUME PInv, NInv, UInv, NEW r \in Ranks, RankStep(r),
           \/ Start(r) \/ FillBufferCrash(r) \/ SkipChild(r) \/ AskChild(r)
           \/ ReceiveLength(r) \/ SendLength(r) \/ SendNames(r) \/ SendMap(r)
           \/ Return(r) \/ LateStep(r)
    PROVE  RankUnites(r)'
  <1>1. /\ pc \in [Ranks -> Places] /\ lister[r] \in Listers
        /\ OwnListsStay /\ RankUnites(r)
    BY OwnListsKept DEF PInv, Forms, UInv
  <1>2. /\ "done" \notin Collecting \cup Waiting \cup {"start", "buffer", "merge"}
        /\ \A place \in Late : place \notin Collecting \cup Waiting
        /\ "merge" \notin Late /\ "start" \notin Late /\ "buffer" \notin Late
    BY DEF Collecting, Waiting, Late, AtRoot
  <1>3. CASE LateStep(r)
    <2>1. /\ lister' = lister /\ objs' = objs /\ merged' = merged
          /\ pc[r] \in {"done"} \cup Late /\ pc'[r] \in Late
      BY <1>3, LateStepFacts DEF treeVars
    <2> QED
      BY <1>1, <1>2, <2>1, RankUnitesStays
  <1>4. CASE ~LateStep(r)
    <2>1. lister' = lister /\ objs' = objs /\ merged' = merged
      BY <1>4 DEF Start, FillBufferCrash, SkipChild, AskChild, ReceiveLength,
                  SendLength, SendNames, SendMap, Return, treeVars
    <2>2. \/ pc'[r] = pc[r]
          \/ pc[r] \in {"start", "buffer"} /\ pc'[r] = "buffer"
          \/ pc[r] \in {"tree", "len"} /\ pc'[r] \in {"len", "names"}
          \/ pc[r] \in {"ok", "send"} /\ pc'[r] \in {"send", "map"}
          \/ pc[r] = "down" /\ pc'[r] = "done"
      BY <1>1, <1>4 DEF Start, FillBufferCrash, SkipChild, AskChild, ReceiveLength,
                  SendLength, SendNames, SendMap, Return, GoTo, treeVars
    <2>3. /\ pc'[r] \in Collecting => pc[r] \in Collecting
          /\ pc'[r] = "merge" => pc[r] = "merge"
          /\ pc'[r] \in Waiting => pc[r] \in Waiting
          /\ pc[r] \in {"start", "buffer"} => pc'[r] \in {"start", "buffer"}
      BY <1>2, <2>2 DEF Collecting, Waiting
    <2> QED
      BY <1>1, <2>1, <2>3, RankUnitesStays
  <1> QED
    BY <1>3, <1>4

\* The sort map orders the names.
LEMMA FillBufferUnites ==
    ASSUME PInv, NInv, OneToOne, NEW r \in Ranks, FillBuffer(r), wild' = {}
    PROVE  RankUnites(r)'
  <1>1. Forms /\ RankApart(r)
    BY DEF PInv, OneToOne
  <1>2. pc'[r] = "tree" /\ merged'[r] = <<>>
    BY <1>1 DEF FillBuffer, GoTo, Forms
  <1>3. PICK entries : entries = db[lister[r]][r]
    OBVIOUS
  <1>4. PICK order : /\ order \in Reads(sortMap[r], entries)
                     /\ Arranged(order, entries)
                     /\ objs' = [objs EXCEPT ![r] = <<NewObject(-1,
                           [i \in 1 .. Len(order) |-> entries[order[i]].name])>>]
    <2>1. PICK order : /\ order \in Reads(sortMap[r], db[lister[r]][r])
                       /\ Arranged(order, db[lister[r]][r])
                       /\ objs' = [objs EXCEPT ![r] = <<NewObject(-1,
                              [i \in 1 .. Len(order) |->
                                  db[lister[r]][r][order[i]].name])>>]
      BY <1>1, FillBufferApart, Zenon
    <2>2. objs' = [objs EXCEPT ![r] = <<NewObject(-1,
              [i \in 1 .. Len(order) |-> entries[order[i]].name])>>]
      BY <1>3, <2>1, Zenon
    <2> QED
      BY <1>3, <2>1, <2>2, Zenon
  <1>5. entries \in Seq(Entries) /\ Len(entries) \in Nat
    <2>1. entries \in Seq(Entries)
      BY <1>1, <1>3 DEF Forms
    <2> QED
      BY <2>1, LenProperties
  <1>6. order \in [1 .. Len(entries) -> 1 .. Len(entries)]
    BY <1>4 DEF Reads
  <1>7. Len(order) = Len(entries)
    BY <1>5, <1>6, FunctionIsSeq
  <1>8. PICK strings : strings = [i \in 1 .. Len(order) |-> entries[order[i]].name]
    OBVIOUS
  <1>9. Len(strings) = Len(entries)
    <2>1. strings = [i \in 1 .. Len(entries) |-> strings[i]]
      BY <1>7, <1>8
    <2> QED
      BY <1>5, <2>1, EachListed
  <1>10. Ordered(strings)
    BY <1>4, <1>7, <1>8, <1>9 DEF Ordered, Arranged
  <1>11. PICK o : o = NewObject(-1, strings)
    OBVIOUS
  <1>12. o.strings = strings
    BY <1>11 DEF NewObject
  <1>13. objs'[r] = <<o>> /\ Len(objs'[r]) = 1 /\ objs'[r][1] = o
    <2>1. objs' = [objs EXCEPT ![r] = <<o>>]
      BY <1>4, <1>8, <1>11
    <2>2. objs'[r] = <<o>>
      BY <1>1, <2>1 DEF Forms
    <2> QED
      BY <2>2, OneListed
  <1>14. ASSUME NEW k \in Objects(r)'
         PROVE  Ordered(objs'[r][k].strings)
    <2>1. k = 1
      BY <1>13, <1>14 DEF Objects
    <2> QED
      BY <1>10, <1>12, <1>13, <2>1
  <1>15. pc'[r] \notin Waiting
    BY <1>2, Busy
  <1> QED
    BY <1>2, <1>14, <1>15 DEF RankUnites, Merging

LEMMA ReceiveNamesUnites ==
    ASSUME PInv, NInv, UInv, NEW r \in Ranks, RankStep(r), ReceiveNames(r)
    PROVE  RankUnites(r)'
  <1>1. Forms /\ Mail /\ Placed(r) /\ Family(r) /\ RankUnites(r)
    BY DEF PInv, UInv
  <1>2. pc[r] = "names" /\ pc'[r] = "tree" /\ merged' = merged
    BY <1>1 DEF ReceiveNames, GoTo, Forms
  <1>3. PICK c \in Ranks : c = Source(r)
    BY <1>1, <1>2 DEF Placed
  <1>4. Arrived(r, c, "names")
    BY <1>3 DEF ReceiveNames
  <1>5. PICK body : body = Head(chan[c, r]).body
    OBVIOUS
  <1>6. pc[c] = "map" /\ body = Up(c)
    BY <1>1, <1>4, <1>5, HeadCarried DEF Carried
  <1>7. Ordered(body)
    <2>1. RankUnites(c)
      BY DEF UInv
    <2> QED
      BY <1>6, <2>1, Busy DEF RankUnites, Unites
  <1>8. PICK o : o = NewObject(c, body)
    OBVIOUS
  <1>9. o.strings = body
    BY <1>8 DEF NewObject
  <1>10. /\ Listed(objs[r]) /\ Len(objs[r]) \in Nat
         /\ \A k \in 1 .. Len(objs[r]) : Ordered(objs[r][k].strings)
    BY <1>1, <1>2 DEF Forms, Listed, RankUnites, Objects
  <1>11. PICK os : os = Append(objs[r], o)
    OBVIOUS
  <1>12. /\ Len(os) = Len(objs[r]) + 1 /\ os[Len(objs[r]) + 1] = o
         /\ \A i \in 1 .. Len(objs[r]) : os[i] = objs[r][i]
    BY <1>10, <1>11, ListedAppend
  <1>13. objs'[r] = os
    <2>1. objs' = [objs EXCEPT ![r] = os]
      BY <1>3, <1>5, <1>8, <1>11 DEF ReceiveNames, Body
    <2> QED
      BY <1>1, <2>1 DEF Forms
  <1>14. ASSUME NEW k \in Objects(r)'
         PROVE  Ordered(objs'[r][k].strings)
    <2>1. \/ k \in 1 .. Len(objs[r]) /\ os[k] = objs[r][k]
          \/ os[k] = o
      BY <1>10, <1>12, <1>13, <1>14 DEF Objects
    <2> QED
      BY <1>7, <1>9, <1>10, <1>13, <2>1
  <1>15. pc'[r] \notin Waiting /\ pc[r] \in Collecting
    BY <1>2, Busy
  <1> QED
    BY <1>1, <1>2, <1>14, <1>15 DEF RankUnites, Merging

LEMMA ReceiveMapUnites ==
    ASSUME PInv, UInv, NEW r \in Ranks, ReceiveMap(r)
    PROVE  RankUnites(r)'
  <1>1. Forms /\ RankUnites(r)
    BY DEF PInv, UInv
  <1>2. pc[r] = "map" /\ pc'[r] = "down"
    BY <1>1 DEF ReceiveMap, GoTo, Forms
  <1>3. PICK table : table = Body(r, Parent(r))
    OBVIOUS
  <1>4. PICK os : os = [k \in 1 .. Len(objs[r]) |-> Mapped(objs[r][k], table)]
    OBVIOUS
  <1>5. objs'[r] = os
    BY <1>1, <1>3, <1>4 DEF ReceiveMap, Forms
  <1>6. Len(objs[r]) \in Nat /\ Len(os) = Len(objs[r])
    <2>1. Len(objs[r]) \in Nat
      BY <1>1 DEF Forms, Listed
    <2>2. os = [k \in 1 .. Len(objs[r]) |-> os[k]]
      BY <1>4
    <2> QED
      BY <2>1, <2>2, EachListed
  <1>7. ASSUME NEW k \in Objects(r)'
        PROVE  Ordered(objs'[r][k].strings)
    <2>1. k \in Objects(r) /\ k \in 1 .. Len(objs[r])
      BY <1>5, <1>6, <1>7 DEF Objects
    <2>2. Formed(objs[r][k]) /\ Ordered(objs[r][k].strings)
      BY <1>1, <1>2, <2>1 DEF Forms, RankUnites
    <2>3. Mapped(objs[r][k], table).strings = objs[r][k].strings
      BY <2>2, MappedFacts
    <2>4. os[k] = Mapped(objs[r][k], table)
      BY <1>4, <2>1
    <2> QED
      BY <1>5, <2>2, <2>3, <2>4
  <1>8. pc'[r] \notin Waiting /\ pc'[r] \notin Collecting /\ pc'[r] # "merge"
    BY <1>2 DEF Waiting, Collecting
  <1> QED
    BY <1>7, <1>8 DEF RankUnites, Merging

\* The list that a rank began with is its own union.
LEMMA OwnUnites ==
    ASSUME PInv, UInv, NEW r \in Ranks,
           pc[r] \notin {"start", "buffer", "done"} \cup Late
    PROVE  Unites(objs[r][1].strings, lister[r])
  <1>1. Forms /\ Family(r) /\ RankUnites(r)
    BY DEF PInv, UInv
  <1>2. 1 \in Objects(r)
    BY <1>1 DEF Family, Forms, Listed, Objects
  <1>3. Ordered(objs[r][1].strings)
    BY <1>1, <1>2 DEF RankUnites
  <1>4. ~Past(r, lister[r])
    BY DEF Past
  <1>5. HasList(r, lister[r]) /\ OwnList(r, lister[r]) = objs[r][1].strings
    BY <1>4 DEF HasList, OwnList
  <1> QED
    BY <1>3, <1>5 DEF Unites, HadBy

LEMMA EndTreeUnites ==
    ASSUME PInv, NInv, UInv, NEW r \in Ranks, RankStep(r), EndTree(r)
    PROVE  RankUnites(r)'
  <1>1. Forms /\ Family(r) /\ RankUnites(r) /\ OwnListsStay
    BY OwnListsKept DEF PInv, UInv
  <1>2. /\ pc[r] = "tree"
        /\ pc'[r] = IF r = 0 \/ Len(objs[r]) > 1 THEN "merge" ELSE "ok"
        /\ UNCHANGED <<lister, objs, merged>>
    BY <1>1 DEF EndTree, GoTo, Forms, treeVars
  <1>3. merged[r] = <<>> /\ Len(merged[r]) = 0
    BY <1>1, <1>2, Busy DEF RankUnites
  <1>4. 1 \in Objects(r) /\ Objects(r)' = Objects(r)
    BY <1>1, <1>2 DEF Family, Forms, Listed, Objects
  <1>5. Merging(r)'
    <2>1. LiveObjs(r)' = LiveObjs(r)
      BY <1>2 DEF LiveObjs
    <2>2. \A p : p \notin 1 .. Len(merged'[r])
      BY <1>2, <1>3
    <2>3. Ordered(merged[r])'
      BY <2>2 DEF Ordered
    <2>4. \A k, n : Covers(objs[r][k], objs[r][k].idx - 1, merged[r], n)'
      BY <2>2 DEF Covers
    <2>5. \A k : Covers(objs[r][k], objs[r][k].idx - 1, merged[r],
                        Current(objs[r][k]))'
      BY <2>2 DEF Covers
    <2> QED
      BY <1>4, <2>2, <2>3, <2>4, <2>5 DEF Merging
  <1>6. pc'[r] \in Waiting => Unites(Up(r), lister[r])'
    <2>1. SUFFICES ASSUME pc'[r] \in Waiting
                   PROVE  Unites(Up(r), lister[r])'
      OBVIOUS
    <2>2. ~(Len(objs[r]) > 1)
      BY <1>2, <2>1 DEF Waiting
    <2>3. PICK own : own = objs[r][1].strings
      OBVIOUS
    <2>4. PICK l \in Listers : l = lister[r] /\ l = lister'[r]
      BY <1>1, <1>2 DEF Forms
    <2>5. Unites(own, l)
      BY <1>2, <2>3, <2>4, OwnUnites, Busy
    <2>6. Unites(own, l)'
      BY <1>1, <2>5, UnitesStays
    <2>7. Up(r)' = own
      BY <1>2, <2>2, <2>3 DEF Up
    <2> QED
      BY <2>4, <2>6, <2>7 DEF Unites, HadBy, HasList, OwnList, Past, LocalStrings
  <1>7. ASSUME NEW k \in Objects(r)'
        PROVE  Ordered(objs'[r][k].strings)
    BY <1>1, <1>2, <1>4 DEF RankUnites
  <1>8. pc'[r] \notin Collecting
    BY <1>2 DEF Collecting
  <1> QED
    BY <1>5, <1>6, <1>7, <1>8 DEF RankUnites

\* A turn of the merge looks at a table only where it has been filled.
Alike(o, w) ==
    /\ w.strings = o.strings /\ w.idx = o.idx
    /\ \A j \in 1 .. o.idx - 1 : w.mapping[j] = o.mapping[j]

LEMMA AlikeSame ==
    ASSUME NEW o, NEW w, Alike(o, w)
    PROVE  /\ Live(w) <=> Live(o)
           /\ Current(w) = Current(o)
           /\ \A list, n : Covers(w, w.idx - 1, list, n)
                           <=> Covers(o, o.idx - 1, list, n)
  BY DEF Alike, Live, Current, Covers

LEMMA AlikeAdvanced ==
    ASSUME NEW o, Formed(o), NEW w \in Object, Alike(o, w),
           o.idx <= Len(o.mapping), Len(w.mapping) = Len(o.mapping),
           NEW name, NEW count
    PROVE  Alike(Advanced(o, name, count), Advanced(w, name, count))
  <1>1. Live(w) <=> Live(o) /\ Current(w) = Current(o)
    BY AlikeSame
  <1>2. /\ o.idx \in Nat /\ o.idx >= 1 /\ w.idx = o.idx
        /\ o.mapping = [i \in 1 .. Len(o.mapping) |-> o.mapping[i]]
        /\ Len(o.mapping) \in Nat
    BY DEF Formed, Listed, Alike
  <1>3. w.mapping = [i \in 1 .. Len(o.mapping) |-> w.mapping[i]]
    BY SeqIsListed DEF Object, Listed
  <1>4. CASE Live(o) /\ Current(o) = name
    <2>1. PICK a, b : /\ a = [o.mapping EXCEPT ![o.idx] = count]
                      /\ b = [w.mapping EXCEPT ![w.idx] = count]
      OBVIOUS
    <2>2. /\ Advanced(o, name, count) = [o EXCEPT !.mapping = a, !.idx = o.idx + 1]
          /\ Advanced(w, name, count) = [w EXCEPT !.mapping = b, !.idx = w.idx + 1]
      BY <1>1, <1>4, <2>1, AlikeSame DEF Advanced
    <2>3. PICK p, v : p = Advanced(o, name, count) /\ v = Advanced(w, name, count)
      OBVIOUS
    <2>4. p.mapping = a /\ p.idx = o.idx + 1 /\ p.strings = o.strings
      BY <2>2, <2>3 DEF Formed
    <2>5. v.mapping = b /\ v.idx = w.idx + 1 /\ v.strings = w.strings
      BY <2>2, <2>3 DEF Object
    <2>6. ASSUME NEW j \in 1 .. o.idx
          PROVE  b[j] = a[j]
      <3>1. j \in 1 .. Len(o.mapping) /\ (j = o.idx \/ j \in 1 .. o.idx - 1)
        BY <1>2
      <3>2. CASE j = o.idx
        BY <1>2, <1>3, <2>1, <3>1, <3>2
      <3>3. CASE j # o.idx
        <4>1. a[j] = o.mapping[j] /\ b[j] = w.mapping[j]
          BY <1>2, <1>3, <2>1, <3>1, <3>3
        <4> QED
          BY <3>1, <3>3, <4>1 DEF Alike
      <3> QED
        BY <3>2, <3>3
    <2>7. p.idx - 1 = o.idx
      BY <1>2, <2>4
    <2>8. Alike(p, v)
      BY <1>2, <2>4, <2>5, <2>6, <2>7 DEF Alike
    <2> QED
      BY <2>3, <2>8
  <1>5. CASE ~(Live(o) /\ Current(o) = name)
    <2>1. ~(Live(w) /\ Current(w) = name)
      BY <1>5, AlikeSame
    <2> QED
      BY <1>5, <2>1 DEF Advanced
  <1> QED
    BY <1>4, <1>5

\* What a list is before a turn that takes a name, and after it.
AtTurn(o, list, name) ==
    /\ Formed(o) /\ Len(o.mapping) = Len(o.strings)
    /\ o.idx <= Len(o.strings) + 1 /\ Ordered(o.strings)
    /\ Guides(o.mapping, o.idx - 1, o.strings, list)
    /\ Live(o) => name <= Current(o) /\ Covers(o, o.idx - 1, list, Current(o))

Turned(o, p, list, new, name) ==
    /\ p.strings = o.strings
    /\ Live(p) => /\ \A q \in 1 .. Len(new) : new[q] <= Current(p)
                  /\ Covers(p, p.idx - 1, new, Current(p))
    /\ \A n : n # name /\ Covers(o, o.idx - 1, list, n) =>
           Covers(p, p.idx - 1, new, n)
    /\ Live(o) /\ Current(o) = name => Covers(p, p.idx - 1, new, name)

LEMMA TurnFormed ==
    ASSUME NEW list \in Seq(Names), NEW name \in Names,
           NEW o, AtTurn(o, list, name),
           \A q \in 1 .. Len(list) : list[q] <= name,
           NEW new, new = Append(list, name),
           NEW p, p = Advanced(o, name, Len(list) + 1)
    PROVE  Turned(o, p, list, new, name)
  <1>0. /\ Formed(o) /\ Len(o.mapping) = Len(o.strings)
        /\ o.idx <= Len(o.strings) + 1 /\ Ordered(o.strings)
        /\ Guides(o.mapping, o.idx - 1, o.strings, list)
        /\ Live(o) => name <= Current(o) /\ Covers(o, o.idx - 1, list, Current(o))
    BY DEF AtTurn
  <1>1. /\ o.strings \in Seq(Names) /\ o.idx \in Nat /\ o.idx >= 1
        /\ Len(o.strings) \in Nat
    BY <1>0, LenProperties DEF Formed
  <1>2. PICK m : m = [j \in 1 .. Len(o.strings) |->
                         IF j < o.idx THEN o.mapping[j] ELSE 0]
    OBVIOUS
  <1>3. ASSUME NEW j \in 1 .. o.idx - 1
        PROVE  /\ j \in 1 .. Len(o.strings) /\ m[j] = o.mapping[j]
               /\ o.mapping[j] \in 1 .. Len(list)
               /\ list[o.mapping[j]] = o.strings[j]
    <2>1. j \in 1 .. Len(o.strings) /\ j < o.idx
      BY <1>0, <1>1
    <2>2. m[j] = o.mapping[j]
      BY <1>2, <2>1
    <2>3. o.mapping[j] \in 1 .. Len(list) /\ list[o.mapping[j]] = o.strings[j]
      BY <1>0 DEF Guides
    <2> QED
      BY <2>1, <2>2, <2>3
  <1>4. m \in Seq(Nat) /\ Len(m) = Len(o.strings)
    <2>1. ASSUME NEW j \in 1 .. Len(o.strings)
          PROVE  m[j] \in Nat
      <3>1. CASE j < o.idx
        <4>1. j \in 1 .. o.idx - 1
          BY <1>1, <3>1
        <4>2. m[j] \in 1 .. Len(list)
          BY <1>3, <4>1
        <4> QED
          BY <4>2
      <3>2. CASE ~(j < o.idx)
        BY <1>2, <3>2
      <3> QED
        BY <3>1, <3>2
    <2>2. m \in [1 .. Len(o.strings) -> Nat]
      BY <1>2, <2>1
    <2> QED
      BY <1>1, <2>2, FunctionIsSeq
  <1>5. PICK w : w = [rank |-> -1, strings |-> o.strings, mapping |-> m,
                      idx |-> o.idx]
    OBVIOUS
  <1>6. /\ w \in Object /\ w.strings = o.strings /\ w.mapping = m
        /\ w.idx = o.idx
    BY <1>1, <1>4, <1>5 DEF Object
  <1>7. Alike(o, w)
    BY <1>3, <1>6 DEF Alike
  <1>8. BeforeTurn(w, list, name)
    <2>1. Shape(w) /\ Ordered(w.strings)
      BY <1>0, <1>1, <1>4, <1>6 DEF Shape
    <2>2. Leads(w, w.idx - 1, list)
      BY <1>3, <1>6 DEF Leads
    <2>3. Rises(w.mapping, w.idx - 1)
      <3>1. Rises(o.mapping, o.idx - 1)
        BY <1>0 DEF Guides
      <3> QED
        BY <1>3, <1>6, <3>1 DEF Rises
    <2>4. Live(w) => /\ name <= Current(w)
                     /\ Covers(w, w.idx - 1, list, Current(w))
      BY <1>0, <1>7, AlikeSame
    <2> QED
      BY <2>1, <2>2, <2>3, <2>4 DEF BeforeTurn
  <1>9. PICK v : v = Advanced(w, name, Len(list) + 1)
    OBVIOUS
  <1>10. AfterTurn(w, v, list, new, name)
    BY <1>6, <1>8, <1>9, Turn
  <1>11. Alike(p, v)
    <2>1. CASE o.idx <= Len(o.mapping)
      BY <1>0, <1>4, <1>6, <1>7, <1>9, <2>1, AlikeAdvanced
    <2>2. CASE ~(o.idx <= Len(o.mapping))
      <3>1. ~Live(o) /\ ~Live(w)
        BY <1>0, <1>6, <2>2 DEF Live
      <3> QED
        BY <1>7, <1>9, <3>1 DEF Advanced
    <2> QED
      BY <2>1, <2>2
  <1>12. /\ Live(v) <=> Live(p)
         /\ Current(v) = Current(p)
         /\ \A n : Covers(v, v.idx - 1, new, n) <=> Covers(p, p.idx - 1, new, n)
    BY <1>11, AlikeSame
  <1>13. /\ Live(w) <=> Live(o)
         /\ Current(w) = Current(o)
         /\ \A n : Covers(w, w.idx - 1, list, n) <=> Covers(o, o.idx - 1, list, n)
    BY <1>7, AlikeSame
  <1>14. p.strings = o.strings
    BY <1>6, <1>10, <1>11 DEF AfterTurn, Alike
  <1>15. Live(p) => /\ \A q \in 1 .. Len(new) : new[q] <= Current(p)
                    /\ Covers(p, p.idx - 1, new, Current(p))
    BY <1>10, <1>12 DEF AfterTurn
  <1>16. \A n : n # name /\ Covers(o, o.idx - 1, list, n) =>
             Covers(p, p.idx - 1, new, n)
    BY <1>10, <1>12, <1>13 DEF AfterTurn
  <1>17. Live(o) /\ Current(o) = name => Covers(p, p.idx - 1, new, name)
    BY <1>10, <1>12, <1>13 DEF AfterTurn
  <1> QED
    BY <1>14, <1>15, <1>16, <1>17 DEF Turned

LEMMA MergeNextUnites ==
    ASSUME PInv, NInv, UInv, NEW r \in Ranks, MergeNext(r)
    PROVE  RankUnites(r)'
  <1>1. Forms /\ Family(r) /\ RankNames(r) /\ RankUnites(r)
    BY DEF PInv, NInv, UInv
  <1>2. pc[r] = "merge" /\ pc' = pc
    BY DEF MergeNext
  <1>3. PICK i \in LiveObjs(r) :
            /\ \A k \in LiveObjs(r) : Current(objs[r][i]) <= Current(objs[r][k])
            /\ merged' = [merged EXCEPT ![r] = Append(merged[r], Current(objs[r][i]))]
            /\ objs' = [objs EXCEPT ![r] = [k \in 1 .. Len(objs[r]) |->
                   Advanced(objs[r][k], Current(objs[r][i]), Len(merged[r]) + 1)]]
    BY DEF MergeNext
  <1>4. PICK name, list : name = Current(objs[r][i]) /\ list = merged[r]
    OBVIOUS
  <1>5. /\ list \in Seq(Names) /\ Len(list) \in Nat /\ Len(objs[r]) \in Nat
        /\ \A k \in Objects(r) : Formed(objs[r][k]) /\ Leading(r, objs[r][k])
        /\ i \in Objects(r) /\ Live(objs[r][i])
    <2>1. list \in Seq(Names)
      BY <1>1, <1>4 DEF Forms
    <2>2. i \in Objects(r) /\ Live(objs[r][i])
      BY DEF LiveObjs, Objects
    <2> QED
      BY <1>1, <1>2, <2>1, <2>2, LenProperties DEF Forms, Listed, RankNames
  <1>6. name \in Names
    <2>1. PICK o : o = objs[r][i]
      OBVIOUS
    <2>2. Formed(o) /\ Live(o)
      BY <1>5, <2>1
    <2>3. o.strings \in Seq(Names) /\ o.idx \in 1 .. Len(o.strings)
      BY <2>2, LenProperties DEF Formed, Live
    <2> QED
      BY <1>4, <2>1, <2>3, ElementOfSeq DEF Current
  <1>7. PICK new : new = Append(list, name)
    OBVIOUS
  <1>8. merged'[r] = new
    BY <1>1, <1>3, <1>4, <1>7 DEF Forms
  <1>9. PICK os : os = [k \in 1 .. Len(objs[r]) |->
                            Advanced(objs[r][k], name, Len(list) + 1)]
    OBVIOUS
  <1>10. objs'[r] = os
    <2>1. objs' = [objs EXCEPT ![r] = os]
      BY <1>3, <1>4, <1>9
    <2> QED
      BY <1>1, <2>1 DEF Forms
  <1>11. Len(os) = Len(objs[r])
    <2>1. os = [k \in 1 .. Len(objs[r]) |-> os[k]]
      BY <1>9
    <2> QED
      BY <1>5, <2>1, EachListed
  <1>12. Objects(r)' = Objects(r)
    BY <1>10, <1>11 DEF Objects
  <1>13. /\ Ordered(list)
         /\ \A k \in LiveObjs(r) :
             /\ \A q \in 1 .. Len(list) : list[q] <= Current(objs[r][k])
             /\ Covers(objs[r][k], objs[r][k].idx - 1, list, Current(objs[r][k]))
         /\ \A n \in Names : \E k \in Objects(r) :
             Covers(objs[r][k], objs[r][k].idx - 1, list, n)
    BY <1>1, <1>2, <1>4 DEF RankUnites, Merging
  <1>14. \A q \in 1 .. Len(list) : list[q] <= name
    BY <1>4, <1>13
  <1>15. ASSUME NEW k \in Objects(r)
         PROVE  /\ Turned(objs[r][k], os[k], list, new, name)
                /\ Ordered(objs[r][k].strings)
    <2>1. PICK o : o = objs[r][k]
      OBVIOUS
    <2>2. PICK p : p = os[k]
      OBVIOUS
    <2>3. p = Advanced(o, name, Len(list) + 1)
      BY <1>9, <2>1, <2>2 DEF Objects
    <2>4. Formed(o) /\ Leading(r, o) /\ Ordered(o.strings)
      BY <1>1, <1>2, <1>5, <2>1 DEF RankUnites
    <2>5. /\ Len(o.mapping) = Len(o.strings) /\ o.idx <= Len(o.strings) + 1
          /\ Guides(o.mapping, o.idx - 1, o.strings, list)
      BY <1>2, <1>4, <2>4 DEF Leading
    <2>6. Live(o) => /\ name <= Current(o)
                     /\ Covers(o, o.idx - 1, list, Current(o))
      <3>1. Live(o) => k \in LiveObjs(r)
        BY <2>1 DEF LiveObjs, Objects
      <3> QED
        BY <1>3, <1>4, <1>13, <2>1, <3>1
    <2>7. AtTurn(o, list, name)
      BY <2>4, <2>5, <2>6 DEF AtTurn
    <2>8. Turned(o, p, list, new, name)
      BY <1>5, <1>6, <1>7, <1>14, <2>3, <2>7, TurnFormed
    <2> QED
      BY <2>1, <2>2, <2>4, <2>8
  <1>16. Ordered(new)
    <2>1. /\ Len(new) = Len(list) + 1 /\ new[Len(list) + 1] = name
          /\ \A q \in 1 .. Len(list) : new[q] = list[q]
      BY <1>5, <1>7, SeqIsListed, ListedAppend
    <2> SUFFICES ASSUME NEW a \in 1 .. Len(new), NEW b \in 1 .. Len(new), a < b
                 PROVE  new[a] <= new[b]
      BY DEF Ordered
    <2>2. a \in 1 .. Len(list) /\ (b \in 1 .. Len(list) \/ b = Len(list) + 1)
      BY <1>5, <2>1
    <2> QED
      BY <1>13, <1>14, <2>1, <2>2 DEF Ordered
  <1>17. Merging(r)'
    <2>1. \A k \in LiveObjs(r)' : k \in Objects(r) /\ Live(os[k])
      BY <1>10, <1>11 DEF LiveObjs, Objects
    <2>2. ASSUME NEW k \in LiveObjs(r)'
          PROVE  /\ \A q \in 1 .. Len(new) : new[q] <= Current(os[k])
                 /\ Covers(os[k], os[k].idx - 1, new, Current(os[k]))
      BY <1>15, <2>1 DEF Turned
    <2>3. ASSUME NEW n \in Names
          PROVE  \E k \in Objects(r) : Covers(os[k], os[k].idx - 1, new, n)
      <3>1. CASE n = name
        <4>1. Covers(os[i], os[i].idx - 1, new, name)
          BY <1>4, <1>5, <1>15 DEF Turned
        <4> QED
          BY <1>5, <3>1, <4>1
      <3>2. CASE n # name
        <4>1. PICK k \in Objects(r) : Covers(objs[r][k], objs[r][k].idx - 1, list, n)
          BY <1>13
        <4>2. Covers(os[k], os[k].idx - 1, new, n)
          BY <1>15, <3>2, <4>1 DEF Turned
        <4> QED
          BY <4>2
      <3> QED
        BY <3>1, <3>2
    <2> QED
      BY <1>8, <1>10, <1>12, <1>16, <2>2, <2>3 DEF Merging
  <1>18. \A k \in Objects(r)' : Ordered(objs'[r][k].strings)
    BY <1>10, <1>12, <1>15 DEF Turned
  <1>19. pc'[r] \notin Collecting /\ pc'[r] \notin Waiting
    BY <1>2 DEF Collecting, Waiting
  <1> QED
    BY <1>17, <1>18, <1>19 DEF RankUnites

\* When a rank has merged all, the list has of each name as much as one of its
\* objects, its own or that of a child, which is the union of what is below.
LEMMA MergedUnites ==
    ASSUME PInv, NInv, UInv, NEW r \in Ranks, MergeEnd(r)
    PROVE  Unites(merged[r], lister[r])
  <1>1. Forms /\ Placed(r) /\ Family(r) /\ RankNames(r) /\ RankUnites(r)
    BY DEF PInv, NInv, UInv
  <1>2. pc[r] = "merge"
    BY DEF MergeEnd
  <1>3. PICK list \in Seq(Names) : list = merged[r]
    BY <1>1 DEF Forms
  <1>4. Len(objs[r]) \in Nat /\ child[r] = 2
    BY <1>1, <1>2 DEF Forms, Listed, Placed
  <1>5. /\ Ordered(list)
        /\ \A n \in Names : \E k \in Objects(r) :
               Covers(objs[r][k], objs[r][k].idx - 1, list, n)
    BY <1>1, <1>2, <1>3 DEF RankUnites, Merging
  <1>6. ASSUME NEW k \in Objects(r), NEW n,
               Covers(objs[r][k], objs[r][k].idx - 1, list, n)
        PROVE  Occurrences(objs[r][k].strings, n) = Occurrences(list, n)
    <2>1. PICK o : o = objs[r][k]
      OBVIOUS
    <2>2. Formed(o) /\ Leading(r, o) /\ ~Live(o)
      BY <1>1, <1>2, <2>1 DEF Forms, RankNames, MergeEnd, LiveObjs, Objects
    <2>3. /\ o.strings \in Seq(Names) /\ o.idx \in Nat /\ Len(o.strings) \in Nat
          /\ o.idx <= Len(o.strings) + 1
          /\ Guides(o.mapping, o.idx - 1, o.strings, list)
      BY <1>2, <1>3, <2>2, LenProperties DEF Formed, Leading
    <2>4. o.idx - 1 = Len(o.strings)
      BY <2>2, <2>3 DEF Live
    <2>5. Guides(o.mapping, Len(o.strings), o.strings, list)
      BY <2>3, <2>4
    <2>6. \A p \in 1 .. Len(list) :
              list[p] = n => \E j \in 1 .. Len(o.strings) : o.mapping[j] = p
      BY <1>6, <2>1, <2>4 DEF Covers
    <2>7. PICK from, table : from = o.strings /\ table = o.mapping
      OBVIOUS
    <2>8. from \in Seq(Names) /\ Guides(table, Len(from), from, list)
      BY <2>3, <2>5, <2>7
    <2>9. Reached(table, from, list, n)
      BY <2>6, <2>7 DEF Reached
    <2>10. Occurrences(from, n) = Occurrences(list, n)
      BY <2>8, <2>9, GuidesAsOften
    <2> QED
      BY <2>1, <2>7, <2>10
  <1>7. Unites(objs[r][1].strings, lister[r])
    BY <1>2, OwnUnites, Busy
  <1>8. ASSUME NEW n \in Names
        PROVE  \E q \in Ranks :
                   /\ HasList(q, lister[r])
                   /\ Occurrences(OwnList(q, lister[r]), n) = Occurrences(list, n)
    <2>1. PICK k \in Objects(r) : Covers(objs[r][k], objs[r][k].idx - 1, list, n)
      BY <1>5
    <2>2. PICK strings : strings = objs[r][k].strings
      OBVIOUS
    <2>3. Occurrences(strings, n) = Occurrences(list, n)
      BY <1>6, <2>1, <2>2
    <2>4. HadBy(strings, lister[r])
      <3>1. CASE k = 1
        BY <1>7, <2>2, <3>1 DEF Unites
      <3>2. CASE k # 1
        <4>1. k \in 2 .. Len(objs[r]) /\ k >= child[r]
          BY <1>4, <3>2 DEF Objects
        <4>2. PICK c \in Ranks : /\ pc[c] = "map" /\ lister[c] = lister[r]
                                 /\ strings = Up(c)
          BY <1>1, <1>2, <2>2, <4>1 DEF RankNames, Kin
        <4>3. Unites(Up(c), lister[c])
          BY <4>2, Busy DEF UInv, RankUnites
        <4> QED
          BY <4>2, <4>3 DEF Unites
      <3> QED
        BY <3>1, <3>2
    <2> QED
      BY <2>3, <2>4 DEF HadBy
  <1>9. HadBy(list, lister[r])
    BY <1>8 DEF HadBy
  <1> QED
    BY <1>3, <1>5, <1>9 DEF Unites

LEMMA MergeEndUnites ==
    ASSUME PInv, NInv, UInv, NEW r \in Ranks, RankStep(r), MergeEnd(r)
    PROVE  RankUnites(r)' /\ Unites(merged[r], lister[r])'
  <1>1. Forms /\ RankNames(r) /\ RankUnites(r) /\ OwnListsStay
    BY OwnListsKept DEF PInv, NInv, UInv
  <1>2. /\ pc[r] = "merge" /\ pc'[r] = IF r = 0 THEN "down" ELSE "ok"
        /\ UNCHANGED <<lister, objs, merged>>
    BY <1>1 DEF MergeEnd, GoTo, Forms, treeVars
  <1>3. PICK list : list = merged[r] /\ list = merged'[r]
    BY <1>2
  <1>4. PICK l \in Listers : l = lister[r] /\ l = lister'[r]
    BY <1>1, <1>2 DEF Forms
  <1>5. Unites(list, l)'
    BY <1>1, <1>3, <1>4, MergedUnites, UnitesStays
  <1>6. Unites(merged[r], lister[r])'
    BY <1>3, <1>4, <1>5
    DEF Unites, HadBy, HasList, OwnList, Past, LocalStrings
  <1>7. pc'[r] \in Waiting => Unites(Up(r), lister[r])'
    <2>1. pc'[r] \in Waiting => Up(r)' = list
      BY <1>1, <1>2, <1>3 DEF Waiting, Up, RankNames
    <2> QED
      BY <1>4, <1>5, <2>1
      DEF Unites, HadBy, HasList, OwnList, Past, LocalStrings
  <1>8. pc'[r] \notin Collecting /\ pc'[r] # "merge"
    BY <1>2 DEF Collecting
  <1>9. \A k \in Objects(r)' : Ordered(objs'[r][k].strings)
    BY <1>1, <1>2 DEF RankUnites, Objects
  <1> QED
    BY <1>6, <1>7, <1>8, <1>9 DEF RankUnites, Merging

\* The global list is fixed when rank 0 has merged all.
LEMMA FixedNow ==
    ASSUME PInv, NInv, NEW r \in Ranks, RankStep(r), NEW l \in Listers,
           ~Fixed(l), Fixed(l)'
    PROVE  /\ r = 0 /\ MergeEnd(r) /\ lister[r] = l
           /\ Global(l)' = merged'[r] /\ lister'[r] = l
  <1>1. /\ NTypes /\ Forms /\ Rest(r) /\ 0 \in Ranks /\ Placed(r)
        /\ pc \in [Ranks -> Places] /\ lister \in [Ranks -> Listers]
    BY RestOfStep, RankFacts DEF PInv, NInv, Forms
  <1>2. r = 0
    <2>1. SUFFICES ASSUME r # 0 PROVE FALSE
      OBVIOUS
    <2>2. pc'[0] = pc[0] /\ lister'[0] = lister[0]
      BY <1>1, <2>1 DEF Rest
    <2> QED
      BY <2>2 DEF Fixed, Past
  <1>3. ~LateStep(r)
    <2>1. SUFFICES ASSUME LateStep(r) PROVE FALSE
      OBVIOUS
    <2>2. lister' = lister /\ pc[r] \in {"done"} \cup Late /\ pc'[r] \in Late
      BY <2>1, LateStepFacts
    <2>3. pc'[r] # "down"
      BY <2>2, Busy
    <2> QED
      BY <1>2, <2>2, <2>3 DEF Fixed, Past
  <1>4. ~NextLister(r)
    <2>1. SUFFICES ASSUME NextLister(r) PROVE FALSE
      OBVIOUS
    <2>2. /\ pc[r] = "done" /\ lister[r] = "functions" /\ pc'[r] = "start"
          /\ lister'[r] = "atomics"
      BY <1>1, <2>1 DEF NextLister, GoTo
    <2>3. pc'[r] \notin {"done"} \cup Late
      BY <2>2, Busy
    <2> QED
      BY <1>2, <2>2, <2>3 DEF Fixed, Past
  <1>5. UnifyStep(r) /\ lister' = lister
    BY <1>1, <1>3, <1>4, StepKinds, RestOfUnify
  <1>6. /\ lister[r] = l /\ pc[r] # "down"
        /\ pc'[r] \in {"down", "done"} \cup Late
        /\ ~(l = "functions" /\ lister[r] = "atomics")
    BY <1>2, <1>5 DEF Fixed, Past
  <1>7. MergeEnd(r)
    <2>1. ~Return(r) /\ ~SendMap(r)
      BY <1>6 DEF Return, SendMap
    <2>2. ~ReceiveMap(r)
      BY <1>1, <1>2, Busy DEF ReceiveMap, Placed
    <2>3. pc[r] \notin {"start", "buffer"}
      <3>1. SUFFICES ASSUME pc[r] \in {"start", "buffer"} PROVE FALSE
        OBVIOUS
      <3>2. Start(r) \/ FillBuffer(r) \/ FillBufferCrash(r)
        BY <1>5, <3>1 DEF UnifyStep, SkipChild, AskChild, ReceiveLength,
             ReceiveNames, EndTree, MergeNext, MergeEnd, SendLength, SendNames,
             ReceiveMap, SendMap, Return
      <3>3. pc'[r] \in {"buffer", "tree"}
        BY <1>1, <3>2 DEF Start, FillBuffer, FillBufferCrash, GoTo
      <3> QED
        BY <1>6, <3>3, Busy
    <2>4. pc'[r] = "down"
      BY <1>5, <1>6, <2>1, <2>3, FirstKept
    <2> QED
      BY <1>1, <1>5, <1>6, <2>1, <2>2, <2>3, <2>4
      DEF UnifyStep, Start, FillBuffer, FillBufferCrash, SkipChild, AskChild,
          ReceiveLength, ReceiveNames, EndTree, MergeNext, SendLength,
          SendNames, GoTo
  <1>8. Global(l)' = merged'[r]
    <2>1. pc'[r] = "down"
      BY <1>1, <1>2, <1>7 DEF MergeEnd, GoTo
    <2>2. ~Past(r, l)'
      BY <1>5, <1>6, <2>1, Busy DEF Past
    <2> QED
      BY <1>2, <2>2 DEF Global
  <1> QED
    BY <1>2, <1>5, <1>6, <1>7, <1>8

LEMMA StepUInv ==
    ASSUME PInv, NInv, OneToOne, UInv, NEW r \in Ranks, RankStep(r), wild' = {}
    PROVE  UInv'
  <1>1. /\ NTypes /\ Forms /\ Rest(r) /\ OwnListsStay /\ Steady
        /\ \A q \in Ranks : lister[q] \in Listers
    BY RestOfStep, SteadyStep, OwnListsKept DEF PInv, NInv, Forms
  <1>2. RankUnites(r)'
    <2>1. CASE NextLister(r)
      <3>1. pc'[r] = "start"
        BY <1>1, <2>1 DEF NextLister, GoTo, Forms
      <3>2. pc'[r] \notin Collecting /\ pc'[r] \notin Waiting /\ pc'[r] # "merge"
        BY <3>1 DEF Collecting, Waiting
      <3> QED
        BY <3>1, <3>2 DEF RankUnites, Merging
    <2>2. CASE UnifyStep(r)
      BY <2>2, FillBufferUnites, QuietUnites, ReceiveNamesUnites, EndTreeUnites,
         MergeNextUnites, MergeEndUnites, ReceiveMapUnites DEF UnifyStep
    <2>3. CASE LateStep(r)
      BY <2>3, QuietUnites
    <2> QED
      BY <2>1, <2>2, <2>3, StepKinds
  <1>3. ASSUME NEW q \in Ranks, q # r
        PROVE  RankUnites(q)'
    <2>1. RankUnites(q)
      BY DEF UInv
    <2>2. /\ pc'[q] = pc[q] /\ lister'[q] = lister[q]
          /\ objs'[q] = objs[q] /\ merged'[q] = merged[q]
      BY <1>1, <1>3 DEF Rest
    <2> QED
      BY <1>1, <2>1, <2>2, RankUnitesStays
  <1>4. ASSUME NEW l \in Listers, Fixed(l)'
        PROVE  Unites(Global(l), l)'
    <2>1. CASE Fixed(l)
      <3>1. PICK global : global = Global(l) /\ global = Global(l)'
        BY <1>1, <2>1 DEF Steady
      <3>2. Unites(global, l)
        BY <2>1, <3>1 DEF UInv
      <3>3. Unites(global, l)'
        BY <1>1, <3>2, UnitesStays
      <3> QED
        BY <3>1, <3>3 DEF Unites, HadBy
    <2>2. CASE ~Fixed(l)
      <3>1. /\ MergeEnd(r) /\ Global(l)' = merged'[r] /\ lister'[r] = l
        BY <1>4, <2>2, FixedNow
      <3>2. Unites(merged[r], lister[r])'
        BY <3>1, MergeEndUnites
      <3>3. PICK global : global = Global(l)' /\ global = merged'[r]
        BY <3>1
      <3> QED
        BY <3>1, <3>2, <3>3
        DEF Unites, HadBy, HasList, OwnList, Past, LocalStrings
    <2> QED
      BY <2>1, <2>2
  <1> QED
    BY <1>2, <1>3, <1>4 DEF UInv

\* Databases may grow.
LEMMA GrownUInv ==
    ASSUME PInv, NInv, UInv, Grown,
           UNCHANGED <<lister, pc, objs, merged, unifier>>
    PROVE  UInv'
  <1>1. \A q \in Ranks : lister[q] \in Listers /\ RankUnites(q)
    BY DEF PInv, Forms, UInv
  <1>2. OwnListsStay
    <2>1. ASSUME NEW q \in Ranks, NEW l \in Listers, HasList(q, l)
          PROVE  HasList(q, l)' /\ OwnList(q, l)' = OwnList(q, l)
      BY <2>1, OwnListAlone
    <2> QED
      BY <2>1 DEF OwnListsStay
  <1>3. ASSUME NEW q \in Ranks
        PROVE  RankUnites(q)'
    BY <1>1, <1>2, RankUnitesStays
  <1>4. ASSUME NEW l \in Listers, Fixed(l)'
        PROVE  Unites(Global(l), l)'
    <2>1. PICK global : global = Global(l) /\ global = Global(l)'
      BY DEF Global, Past
    <2>2. Fixed(l)
      BY <1>4 DEF Fixed, Past
    <2>3. Unites(global, l)
      BY <2>1, <2>2 DEF UInv
    <2>4. Unites(global, l)'
      BY <1>2, <2>3, UnitesStays
    <2> QED
      BY <2>1, <2>4 DEF Unites, HadBy
  <1> QED
    BY <1>3, <1>4 DEF UInv

LEMMA NextUInv ==
    ASSUME PInv, NInv, OneToOne, UInv, [ProfileNext]_allVars, wild' = {}
    PROVE  UInv'
  <1>1. ASSUME NEW r \in Ranks, Register(r)
        PROVE  UInv'
    <2>1. Grown
      BY <1>1, RegisterGrows DEF PInv
    <2>2. UNCHANGED <<lister, pc, objs, merged, unifier>>
      BY <1>1 DEF Register, treeVars
    <2> QED
      BY <2>1, <2>2, GrownUInv
  <1>2. CASE UNCHANGED allVars
    <2>1. db' = db /\ UNCHANGED <<lister, pc, objs, merged, unifier>>
      BY <1>2 DEF allVars, vars, treeVars
    <2> QED
      BY <2>1, SameGrown, GrownUInv
  <1>3. CASE ProfileNext
    BY <1>1, <1>3, StepUInv DEF ProfileNext
  <1> QED
    BY <1>2, <1>3

LEMMA InitUInv ==
    ASSUME MergeInit
    PROVE  UInv
  <1>1. /\ lister = [r \in Ranks |-> "functions"]
        /\ pc = [r \in Ranks |-> "start"] /\ 0 \in Ranks
    BY RankFacts DEF MergeInit, Init
  <1>2. ASSUME NEW r \in Ranks
        PROVE  RankUnites(r)
    <2>1. pc[r] = "start"
      BY <1>1
    <2> QED
      BY <2>1 DEF RankUnites, Merging, Collecting, Waiting
  <1>3. \A l \in Listers : ~Fixed(l)
    BY <1>1, Busy DEF Fixed, Past
  <1> QED
    BY <1>2, <1>3 DEF UInv

LEMMA UInvUnion ==
    ASSUME PInv, NInv, UInv
    PROVE  GlobalIsUnion
  <1> SUFFICES ASSUME NEW l \in Listers, Returned(l),
                      NEW global, global = unifier[0][l].globalStrings
               PROVE  /\ \A i, j \in DOMAIN global :
                             i < j => global[i] <= global[j]
                      /\ \A n \in Names :
                          /\ \A r \in Ranks :
                                 Occurrences(LocalStrings(r, l), n)
                                     <= Occurrences(global, n)
                          /\ \E r \in Ranks :
                                 Occurrences(LocalStrings(r, l), n)
                                     = Occurrences(global, n)
                      /\ \A r \in Ranks :
                             unifier[r][l].globalNumItems = Len(global)
    BY DEF GlobalIsUnion
  <1>1. 0 \in Ranks /\ NoUnifier.globalNumItems = -1
    BY RankFacts DEF NoUnifier
  <1>2. \A r \in Ranks : Past(r, l)
    <2>1. SUFFICES ASSUME NEW r \in Ranks, ~Past(r, l)
                   PROVE  FALSE
      OBVIOUS
    <2>2. unifier[r][l] = NoUnifier
      BY <2>1 DEF NInv, RankNames, Given
    <2> QED
      BY <1>1, <2>2 DEF Returned
  <1>3. global = Global(l) /\ global \in Seq(Names)
    BY <1>1, <1>2, GlobalIsSeq DEF Global
  <1>4. Unites(global, l)
    BY <1>1, <1>2, <1>3 DEF UInv, Fixed
  <1>5. \A i, j \in DOMAIN global : i < j => global[i] <= global[j]
    BY <1>3, <1>4, LenProperties DEF Unites, Ordered
  <1>6. ASSUME NEW r \in Ranks
        PROVE  /\ unifier[r][l].globalNumItems = Len(global)
               /\ \A n \in Names : Occurrences(LocalStrings(r, l), n)
                                       <= Occurrences(global, n)
    <2>1. PICK table : table = unifier[r][l].mapping
      OBVIOUS
    <2>2. PICK strings \in Seq(Names) :
              /\ LocalStrings(r, l) = strings
              /\ unifier[r][l].globalNumItems = Len(global)
              /\ Guides(table, Len(strings), strings, global)
      BY <1>2, <1>3, <2>1, ReturnedList
    <2>3. \A n : Occurrences(strings, n) <= Occurrences(global, n)
      BY <1>3, <2>2, GuidesNotMore
    <2> QED
      BY <2>2, <2>3
  <1>7. ASSUME NEW n \in Names
        PROVE  \E r \in Ranks :
                   Occurrences(LocalStrings(r, l), n) = Occurrences(global, n)
    <2>1. PICK q \in Ranks :
              Occurrences(OwnList(q, l), n) = Occurrences(global, n)
      BY <1>4 DEF Unites, HadBy
    <2>2. OwnList(q, l) = LocalStrings(q, l)
      BY <1>2 DEF OwnList
    <2> QED
      BY <2>1, <2>2
  <1> QED
    BY <1>5, <1>6, <1>7

LEMMA NextWild == [ProfileNext]_allVars => wild \subseteq wild'
  <1> SUFFICES ASSUME [ProfileNext]_allVars PROVE wild \subseteq wild'
    OBVIOUS
  <1>1. ASSUME NEW r \in Ranks, Register(r) PROVE wild' = wild
    BY <1>1 DEF Register
  <1>2. UNCHANGED allVars => wild' = wild
    BY DEF allVars, vars
  <1> QED
    BY <1>1, <1>2, StepWild DEF ProfileNext

\* TauUnify.cpp: of each call, the global list on rank 0, under which the ids
\* in the merged file are, is sorted, has each name as often as the rank that
\* has it most often, and is as long as every rank is told; with ranks that are
\* in different calls and events that are registered at any time, unless a rank
\* has read its sort map behind the end (TauUnify.cpp:155).
THEOREM GlobalListsAreUnions == MergeSpec => []GlobalIsUnion
  <1> DEFINE Inv == PInv /\ NInv /\ OInv /\ (wild = {} => UInv)
  <1>1. MergeInit => Inv
    BY InitPInv, InitNInv, InitOInv, InitUInv
  <1>2. Inv /\ [ProfileNext]_allVars => Inv'
    <2> SUFFICES ASSUME Inv, [ProfileNext]_allVars
                 PROVE  Inv'
      OBVIOUS
    <2>1. PInv' /\ NInv' /\ OInv'
      BY NextPInv, NextNInv, NextOInv
    <2>2. wild' = {} => UInv'
      BY NextUInv, NextWild DEF OInv
    <2> QED
      BY <2>1, <2>2
  <1>3. Inv => GlobalIsUnion
    <2> SUFFICES ASSUME Inv
                 PROVE  GlobalIsUnion
      OBVIOUS
    <2>1. wild = {} => GlobalIsUnion
      BY UInvUnion
    <2> QED
      BY <2>1 DEF GlobalIsUnion
  <1> QED
    BY <1>1, <1>2, <1>3, PTL DEF MergeSpec

=============================================================================
