----------------------------- MODULE UnifyProofs -----------------------------
(***************************************************************************)
(* Proofs about Unify: types, that the id a rank is given for an event is  *)
(* that of its name, and that the global list is the union of the lists    *)
(* unless some rank has read its database behind the end of its sort map,  *)
(* for any number of ranks, any databases, events registered at any time,  *)
(* any order in which the ranks proceed, and sends that wait or do not     *)
(* wait for their receives.                                                *)
(***************************************************************************)
EXTENDS Unify, FiniteSetTheorems, SequenceTheorems, TLAPS

Collecting == {"tree", "len", "names"}
Waiting == {"ok", "send", "map"}
SentUp == {"map", "down", "done"}   \* its list is fixed and the parent has it
Final == {"down", "done"}           \* its tables lead to the global list

Objects(r) == 1 .. Len(objs[r])

\* The table of o, up to a position, leads to the same names in a list.
Leads(o, upto, list) ==
    \A j \in 1 .. upto : /\ o.mapping[j] \in 1 .. Len(list)
                         /\ list[o.mapping[j]] = o.strings[j]

-----------------------------------------------------------------------------
(* The inductive invariant, a part for each thing it is about.             *)

\* The first object of a rank has the names of its database in the order of
\* the sort map, whatever has been registered since.  Before it reads the names
\* it has a sort map of those that were there when it began.
OwnNames(r) ==
    /\ lister[r] = "functions"
    /\ pc[r] = "buffer" =>
        \A i, j \in 1 .. Len(sortMap[r]) :
            /\ sortMap[r][i] \in 1 .. Len(db["functions"][r])
            /\ i < j => db["functions"][r][sortMap[r][i]].name
                        <= db["functions"][r][sortMap[r][j]].name
    /\ pc[r] \notin {"start", "buffer"} =>
        /\ Len(objs[r]) >= 1
        /\ Len(sortMap[r]) = Len(objs[r][1].strings)
        /\ \A i \in 1 .. Len(sortMap[r]) :
            /\ sortMap[r][i] \in 1 .. Len(db["functions"][r])
            /\ db["functions"][r][sortMap[r][i]].name = objs[r][1].strings[i]

Shape(o) ==
    /\ Len(o.mapping) = Len(o.strings)
    /\ o.idx \in 1 .. Len(o.strings) + 1

\* Where the tables of a rank lead: to the list itself, to what is merged of
\* it, to the list that is sent up, and in the end to the global list.
Table(r, o) ==
    /\ pc[r] \in Collecting =>
           o.idx = 1 /\ \A j \in 1 .. Len(o.strings) : o.mapping[j] = j
    /\ pc[r] = "merge" => Leads(o, o.idx - 1, merged[r])
    /\ pc[r] \in Waiting => Leads(o, Len(o.strings), Up(r))
    /\ pc[r] \in Final => Leads(o, Len(o.strings), merged[0])

Tables(r) == \A k \in Objects(r) : Shape(objs[r][k]) /\ Table(r, objs[r][k])

\* Ranks and places in the tree.
Tree(r) ==
    /\ mask[r] >= 1 /\ child[r] >= 2
    /\ pc[r] \in {"start", "buffer"} => objs[r] = <<>>
    /\ pc[r] \in {"len", "names"} => Source(r) \in Ranks
    /\ pc[r] \in Waiting => r # 0 /\ Parent(r) \in Ranks
    /\ pc[r] = "merge" /\ r # 0 => Len(objs[r]) > 1 /\ Parent(r) \in Ranks
    /\ pc[r] \in Final => pc[0] \in Final

\* What a rank has of its children is what they have sent.
Children(r) ==
    \A k \in 2 .. Len(objs[r]) :
        /\ objs[r][k].rank \in Ranks
        /\ pc[objs[r][k].rank] \in SentUp
        /\ objs[r][k].strings = Up(objs[r][k].rank)

\* What a rank has returned, and that rank 0 is the first to return.
Result(r) ==
    /\ unifier[r]["atomics"] = NoUnifier
    /\ pc[r] # "done" => unifier[r]["functions"] = NoUnifier
    /\ pc[r] = "done" =>
        /\ pc[0] = "done"
        /\ unifier[r]["functions"].localNumItems = Len(objs[r][1].strings)
        /\ unifier[r]["functions"].sortMap = sortMap[r]
        /\ unifier[r]["functions"].mapping = objs[r][1].mapping
        /\ r = 0 => unifier[r]["functions"].globalStrings = merged[0]

RankInv(r) == OwnNames(r) /\ Tables(r) /\ Tree(r) /\ Children(r) /\ Result(r)

\* A message of names is the list of its sender; a table is for the list of
\* its receiver and leads to the global list.
Carries(s, d, m) ==
    /\ m.kind = "names" => pc[s] \in SentUp /\ m.body = Up(s)
    /\ m.kind = "map" =>
        /\ pc[d] \in SentUp /\ pc[0] \in Final
        /\ Len(m.body) = Len(Up(d))
        /\ \A j \in 1 .. Len(m.body) : /\ m.body[j] \in 1 .. Len(merged[0])
                                       /\ merged[0][m.body[j]] = Up(d)[j]

Messages ==
    \A s, d \in Ranks : \A i \in 1 .. Len(chan[s, d]) :
        Carries(s, d, chan[s, d][i])

IInv == /\ TypeOK
        /\ \A r \in Ranks : RankInv(r)
        /\ Messages
        /\ bcast["functions"] # -1 => pc[0] = "done"

-----------------------------------------------------------------------------
(* Ranks, objects and messages.                                            *)

LEMMA RankFacts ==
    /\ NumRanks \in Nat /\ 0 \in Ranks
    /\ \A r \in Ranks : r \in Nat /\ r < NumRanks
    /\ \A i \in Nat : i < NumRanks => i \in Ranks
  BY UnifyAssumption DEF Ranks

LEMMA ObjectTypes ==
    ASSUME TypeOK, NEW r \in Ranks
    PROVE  /\ objs[r] \in Seq(Object) /\ Len(objs[r]) \in Nat
           /\ merged[r] \in Seq(Names) /\ Len(merged[r]) \in Nat
           /\ sortMap[r] \in Seq(Nat) /\ Len(sortMap[r]) \in Nat
           /\ mask[r] \in Nat /\ child[r] \in Nat
           /\ \A k \in Objects(r) :
               /\ objs[r][k] \in Object
               /\ objs[r][k].rank \in {-1} \cup Ranks
               /\ objs[r][k].strings \in Seq(Names)
               /\ objs[r][k].mapping \in Seq(Nat)
               /\ Len(objs[r][k].strings) \in Nat
               /\ Len(objs[r][k].mapping) \in Nat
               /\ objs[r][k].idx \in Nat
  <1>1. /\ objs[r] \in Seq(Object) /\ merged[r] \in Seq(Names)
        /\ sortMap[r] \in Seq(Nat) /\ mask[r] \in Nat /\ child[r] \in Nat
    BY DEF TypeOK
  <1>2. \A k \in Objects(r) : objs[r][k] \in Object
    BY <1>1, ElementOfSeq DEF Objects
  <1>3. Len(objs[r]) \in Nat /\ Len(merged[r]) \in Nat /\ Len(sortMap[r]) \in Nat
    BY <1>1, LenProperties
  <1>4. ASSUME NEW o \in Object
        PROVE  /\ o.rank \in {-1} \cup Ranks
               /\ o.strings \in Seq(Names) /\ o.mapping \in Seq(Nat)
               /\ o.idx \in Nat
    BY DEF Object
  <1>5. \A o \in Object : Len(o.strings) \in Nat /\ Len(o.mapping) \in Nat
    BY <1>4, LenProperties
  <1> QED
    BY <1>1, <1>2, <1>3, <1>4, <1>5

\* The list a rank sends is a sequence of names.
LEMMA UpType ==
    ASSUME TypeOK, NEW r \in Ranks, Len(objs[r]) >= 1
    PROVE  Up(r) \in Seq(Names) /\ Len(Up(r)) \in Nat
  <1>1. 1 \in Objects(r)
    BY ObjectTypes DEF Objects
  <1>2. objs[r][1].strings \in Seq(Names) /\ merged[r] \in Seq(Names)
    BY <1>1, ObjectTypes
  <1>3. Up(r) \in Seq(Names)
    BY <1>2 DEF Up
  <1> QED
    BY <1>3, LenProperties

LEMMA FunctionIsSeq ==
    ASSUME NEW S, NEW n \in Nat, NEW f \in [1 .. n -> S]
    PROVE  f \in Seq(S) /\ Len(f) = n
  <1>1. f \in Seq(S)
    BY SeqDef
  <1>2. DOMAIN f = 1 .. n /\ DOMAIN f = 1 .. Len(f) /\ Len(f) \in Nat
    BY <1>1, LenProperties
  <1> QED
    BY <1>1, <1>2

LEMMA AppendedTo ==
    ASSUME NEW S, NEW q \in Seq(S), NEW x \in S
    PROVE  /\ Append(q, x) \in Seq(S)
           /\ Len(Append(q, x)) = Len(q) + 1 /\ Len(q) \in Nat
           /\ \A i \in 1 .. Len(Append(q, x)) :
                  \/ i \in 1 .. Len(q) /\ Append(q, x)[i] = q[i]
                  \/ i = Len(q) + 1 /\ Append(q, x)[i] = x
  <1>1. /\ Append(q, x) \in Seq(S) /\ Len(Append(q, x)) = Len(q) + 1
        /\ \A i \in 1 .. Len(q) : Append(q, x)[i] = q[i]
        /\ Append(q, x)[Len(q) + 1] = x
    BY AppendProperties
  <1>2. Len(q) \in Nat
    BY LenProperties
  <1> QED
    BY <1>1, <1>2

LEMMA TakenFrom ==
    ASSUME NEW S, NEW q \in Seq(S), q # <<>>
    PROVE  /\ Tail(q) \in Seq(S)
           /\ Head(q) \in S /\ Head(q) = q[1] /\ 1 \in 1 .. Len(q)
           /\ \A i \in 1 .. Len(Tail(q)) :
                  i + 1 \in 1 .. Len(q) /\ Tail(q)[i] = q[i + 1]
  <1>1. /\ Tail(q) \in Seq(S) /\ Len(Tail(q)) = Len(q) - 1
        /\ Head(q) \in S /\ Head(q) = q[1]
        /\ \A i \in 1 .. Len(q) - 1 : Tail(q)[i] = q[i + 1]
    BY HeadTailProperties
  <1>2. Len(q) \in Nat /\ Len(q) # 0
    BY LenProperties, EmptySeq
  <1> QED
    BY <1>1, <1>2

LEMMA MessageTypes ==
    /\ Msg("ok", <<>>) \in Message
    /\ \A n \in Nat : Msg("len", n) \in Message
    /\ \A q \in Seq(Names) : Msg("names", q) \in Message
    /\ \A q \in Seq(Nat) : Msg("map", q) \in Message
    /\ \A kind, body : /\ Msg(kind, body).kind = kind
                       /\ Msg(kind, body).body = body
  <1>1. \A kind, body : Msg(kind, body).kind = kind /\ Msg(kind, body).body = body
    BY DEF Msg
  <1>2. Msg("ok", <<>>) \in Message
    <2>1. PICK none : none = <<>>
      OBVIOUS
    <2>2. [kind |-> "ok", body |-> none] \in [kind : {"ok"}, body : {none}]
      OBVIOUS
    <2> QED
      BY <2>1, <2>2, Zenon DEF Msg, Message
  <1>3. \A n \in Nat : Msg("len", n) \in Message
    BY DEF Msg, Message
  <1>4. \A q \in Seq(Names) : Msg("names", q) \in Message
    BY DEF Msg, Message
  <1>5. \A q \in Seq(Nat) : Msg("map", q) \in Message
    BY DEF Msg, Message
  <1> QED
    BY <1>1, <1>2, <1>3, <1>4, <1>5

\* A message m, as a whole, is sent from r to d.
Put(r, d, m) == chan' = [chan EXCEPT ![<<r, d>>] = Append(chan[r, d], m)]

OnlyAdded(r, d, m) ==
    \A s, e \in Ranks : \A i \in 1 .. Len(chan'[s, e]) :
        \/ i \in 1 .. Len(chan[s, e]) /\ chan'[s, e][i] = chan[s, e][i]
        \/ s = r /\ e = d /\ chan'[s, e][i] = m

LEMMA AppendedToChannel ==
    ASSUME TypeOK, NEW r \in Ranks, NEW d \in Ranks, NEW m \in Message,
           Put(r, d, m)
    PROVE  chan' \in [Ranks \X Ranks -> Seq(Message)] /\ OnlyAdded(r, d, m)
  <1>1. chan \in [Ranks \X Ranks -> Seq(Message)]
    BY DEF TypeOK
  <1>2. chan[r, d] \in Seq(Message)
    BY <1>1
  <1>4. /\ Append(chan[r, d], m) \in Seq(Message)
        /\ \A i \in 1 .. Len(Append(chan[r, d], m)) :
              \/ i \in 1 .. Len(chan[r, d])
                 /\ Append(chan[r, d], m)[i] = chan[r, d][i]
              \/ Append(chan[r, d], m)[i] = m
    BY <1>2, AppendedTo
  <1>5. chan' \in [Ranks \X Ranks -> Seq(Message)]
    BY <1>1, <1>4 DEF Put
  <1>6. ASSUME NEW s \in Ranks, NEW e \in Ranks, NEW i \in 1 .. Len(chan'[s, e])
        PROVE  \/ i \in 1 .. Len(chan[s, e]) /\ chan'[s, e][i] = chan[s, e][i]
               \/ s = r /\ e = d /\ chan'[s, e][i] = m
    <2>1. CASE <<s, e>> = <<r, d>>
      BY <1>1, <1>4, <2>1 DEF Put
    <2>2. CASE <<s, e>> # <<r, d>>
      <3>1. chan'[s, e] = chan[s, e]
        BY <1>1, <2>2 DEF Put
      <3> QED
        BY <3>1
    <2> QED
      BY <2>1, <2>2
  <1> QED
    BY <1>5, <1>6 DEF OnlyAdded

LEMMA ReceiveProperties ==
    ASSUME TypeOK, NEW r \in Ranks, NEW s \in Ranks, chan[s, r] # <<>>,
           Receive(r, s)
    PROVE  /\ chan' \in [Ranks \X Ranks -> Seq(Message)]
           /\ \A q, e \in Ranks : \A i \in 1 .. Len(chan'[q, e]) :
                  \E j \in 1 .. Len(chan[q, e]) : chan'[q, e][i] = chan[q, e][j]
  <1>1. chan \in [Ranks \X Ranks -> Seq(Message)]
    BY DEF TypeOK
  <1>2. chan[s, r] \in Seq(Message)
    BY <1>1
  <1>3. chan' = [chan EXCEPT ![<<s, r>>] = Tail(chan[s, r])]
    BY DEF Receive
  <1>4. /\ Tail(chan[s, r]) \in Seq(Message)
        /\ \A i \in 1 .. Len(Tail(chan[s, r])) :
              /\ i + 1 \in 1 .. Len(chan[s, r])
              /\ Tail(chan[s, r])[i] = chan[s, r][i + 1]
    BY <1>2, TakenFrom
  <1>5. chan' \in [Ranks \X Ranks -> Seq(Message)]
    BY <1>1, <1>3, <1>4
  <1>6. ASSUME NEW q \in Ranks, NEW e \in Ranks, NEW i \in 1 .. Len(chan'[q, e])
        PROVE  \E j \in 1 .. Len(chan[q, e]) : chan'[q, e][i] = chan[q, e][j]
    <2>1. CASE <<q, e>> = <<s, r>>
      BY <1>1, <1>3, <1>4, <2>1
    <2>2. CASE <<q, e>> # <<s, r>>
      <3>1. chan'[q, e] = chan[q, e]
        BY <1>1, <1>3, <2>2
      <3> QED
        BY <3>1
    <2> QED
      BY <2>1, <2>2
  <1> QED
    BY <1>5, <1>6

\* What is received is the first message of a channel.
LEMMA FirstMessage ==
    ASSUME TypeOK, Messages, NEW r \in Ranks, NEW s \in Ranks, NEW kind,
           Arrived(r, s, kind)
    PROVE  /\ chan[s, r] # <<>>
           /\ Head(chan[s, r]) \in Message /\ Head(chan[s, r]).kind = kind
           /\ Carries(s, r, Head(chan[s, r]))
  <1>1. chan[s, r] \in Seq(Message)
    BY DEF TypeOK
  <1>2. chan[s, r] # <<>> /\ Head(chan[s, r]).kind = kind
    BY DEF Arrived
  <1>3. /\ 1 \in 1 .. Len(chan[s, r])
        /\ Head(chan[s, r]) = chan[s, r][1]
        /\ Head(chan[s, r]) \in Message
    BY <1>1, <1>2, TakenFrom
  <1> QED
    BY <1>2, <1>3 DEF Messages

-----------------------------------------------------------------------------
(* What a step of a rank leaves alone.                                     *)

\* A list that has been sent, and the global list, do not change.
Frozen ==
    /\ \A q \in Ranks : pc[q] \in SentUp => pc'[q] \in SentUp /\ Up(q)' = Up(q)
    /\ pc[0] \in Final => pc'[0] \in Final /\ merged'[0] = merged[0]
    /\ pc[0] = "done" => pc'[0] = "done"

LEMMA OthersAlone ==
    ASSUME TypeOK, NEW r \in Ranks, UnifyStep(r), NEW q \in Ranks, q # r
    PROVE  /\ pc'[q] = pc[q] /\ mask'[q] = mask[q] /\ sortMap'[q] = sortMap[q]
           /\ objs'[q] = objs[q] /\ merged'[q] = merged[q]
           /\ child'[q] = child[q] /\ unifier'[q] = unifier[q]
           /\ lister' = lister /\ db' = db
  <1> USE DEF TypeOK, treeVars, GoTo, NextMask
  <1>1. CASE Start(r)
    BY <1>1 DEF Start
  <1>14. CASE FillBuffer(r)
    BY <1>14 DEF FillBuffer
  <1>15. CASE FillBufferCrash(r)
    BY <1>15 DEF FillBufferCrash
  <1>2. CASE SkipChild(r)
    BY <1>2 DEF SkipChild
  <1>3. CASE AskChild(r)
    BY <1>3 DEF AskChild
  <1>4. CASE ReceiveLength(r)
    BY <1>4 DEF ReceiveLength
  <1>5. CASE ReceiveNames(r)
    BY <1>5 DEF ReceiveNames
  <1>6. CASE EndTree(r)
    BY <1>6 DEF EndTree
  <1>7. CASE MergeNext(r)
    BY <1>7 DEF MergeNext
  <1>8. CASE MergeEnd(r)
    BY <1>8 DEF MergeEnd
  <1>9. CASE SendLength(r)
    BY <1>9 DEF SendLength
  <1>10. CASE SendNames(r)
    BY <1>10 DEF SendNames
  <1>11. CASE ReceiveMap(r)
    BY <1>11 DEF ReceiveMap
  <1>12. CASE SendMap(r)
    BY <1>12 DEF SendMap
  <1>13. CASE Return(r)
    BY <1>13 DEF Return
  <1> QED
    BY <1>1, <1>2, <1>3, <1>4, <1>5, <1>6, <1>7, <1>8, <1>9, <1>10, <1>11,
       <1>12, <1>13, <1>14, <1>15 DEF UnifyStep

LEMMA MappedProperties ==
    ASSUME TypeOK, NEW r \in Ranks, Len(objs[r]) >= 1, ReceiveMap(r)
    PROVE  /\ Len(objs'[r]) = Len(objs[r])
           /\ \A k \in Objects(r) :
                  objs'[r][k] = Mapped(objs[r][k], Body(r, Parent(r)))
           /\ \A o \in Object : \A table :
                  /\ Mapped(o, table).strings = o.strings
                  /\ Mapped(o, table).rank = o.rank
                  /\ Mapped(o, table).idx = o.idx
                  /\ Mapped(o, table).mapping
                     = [j \in 1 .. Len(o.mapping) |-> table[o.mapping[j]]]
           /\ Up(r)' = Up(r)
  <1> DEFINE new == [k \in 1 .. Len(objs[r]) |->
                        Mapped(objs[r][k], Body(r, Parent(r)))]
  <1>1. objs \in [Ranks -> Seq(Object)] /\ merged' = merged
    BY DEF TypeOK, ReceiveMap
  <1>2. objs'[r] = new
    BY <1>1 DEF ReceiveMap
  <1>3. Len(objs[r]) \in Nat
    BY ObjectTypes
  <1>4. Len(objs'[r]) = Len(objs[r])
    BY <1>2, <1>3
  <1>5. \A k \in Objects(r) :
            objs'[r][k] = Mapped(objs[r][k], Body(r, Parent(r)))
    BY <1>2 DEF Objects
  <1>6. ASSUME NEW o \in Object, NEW table
        PROVE  /\ Mapped(o, table).strings = o.strings
               /\ Mapped(o, table).rank = o.rank
               /\ Mapped(o, table).idx = o.idx
               /\ Mapped(o, table).mapping
                  = [j \in 1 .. Len(o.mapping) |-> table[o.mapping[j]]]
    BY DEF Mapped, Object
  <1>7. Up(r)' = Up(r)
    <2>1. 1 \in Objects(r) /\ objs[r][1] \in Object
      BY <1>3, ObjectTypes DEF Objects
    <2>2. objs'[r][1].strings = objs[r][1].strings
      <3>1. objs'[r][1] = Mapped(objs[r][1], Body(r, Parent(r)))
        BY <1>5, <2>1
      <3>2. Mapped(objs[r][1], Body(r, Parent(r))).strings = objs[r][1].strings
        BY <1>6, <2>1
      <3> QED
        BY <3>1, <3>2
    <2>3. merged'[r] = merged[r]
      BY <1>1
    <2> HIDE DEF new
    <2> QED
      BY <1>4, <2>2, <2>3 DEF Up
  <1> QED
    BY <1>4, <1>5, <1>6, <1>7

LEMMA FrozenStep ==
    ASSUME IInv, NEW r \in Ranks, UnifyStep(r)
    PROVE  Frozen
  <1>1. TypeOK /\ RankInv(r)
    BY DEF IInv
  <1>2. ASSUME pc[r] \in SentUp
        PROVE  /\ pc'[r] \in SentUp /\ Up(r)' = Up(r) /\ merged'[r] = merged[r]
               /\ pc[r] \in Final => pc'[r] \in Final
               /\ pc[r] # "done"
    <2>1. pc \in [Ranks -> {"start", "buffer", "tree", "len", "names", "merge", "ok",
                            "send", "map", "down", "done"}]
      BY <1>1 DEF TypeOK
    <2>2. ReceiveMap(r) \/ SendMap(r) \/ Return(r)
      BY <1>2 DEF UnifyStep, SentUp, Start, FillBuffer, FillBufferCrash, SkipChild, AskChild, ReceiveLength,
                  ReceiveNames, EndTree, MergeNext, MergeEnd, SendLength, SendNames
    <2>3. CASE ReceiveMap(r)
      <3>1. Len(objs[r]) >= 1
        BY <1>1, <2>3 DEF RankInv, OwnNames, ReceiveMap
      <3>2. Up(r)' = Up(r)
        BY <1>1, <2>3, <3>1, MappedProperties
      <3>3. pc[r] = "map" /\ pc'[r] = "down" /\ merged' = merged
        BY <2>1, <2>3 DEF ReceiveMap, GoTo
      <3> QED
        BY <3>2, <3>3 DEF SentUp, Final
    <2>4. CASE SendMap(r)
      BY <2>4 DEF SendMap, SentUp, Final, Up
    <2>5. CASE Return(r)
      BY <2>1, <2>5 DEF Return, SentUp, Final, Up, GoTo, treeVars
    <2> QED
      BY <2>2, <2>3, <2>4, <2>5
  <1>3. \A q \in Ranks : q # r =>
            pc'[q] = pc[q] /\ merged'[q] = merged[q] /\ Up(q)' = Up(q)
    BY <1>1, OthersAlone DEF Up
  <1>4. 0 \in Ranks /\ (pc[0] \in Final => pc[0] \in SentUp)
    BY RankFacts DEF Final, SentUp
  <1> QED
    BY <1>2, <1>3, <1>4 DEF Frozen, Final

\* Where the table of an object leads depends only on these.
LEMMA TableStays ==
    ASSUME NEW q \in Ranks, NEW o, Table(q, o), pc'[q] = pc[q],
           merged'[q] = merged[q], Up(q)' = Up(q),
           pc[q] \in Final => merged'[0] = merged[0]
    PROVE  Table(q, o)'
  <1>1. PICK up : up = Up(q) /\ up = Up(q)'
    OBVIOUS
  <1>2. pc'[q] \in Collecting =>
            o.idx = 1 /\ \A j \in 1 .. Len(o.strings) : o.mapping[j] = j
    BY DEF Table
  <1>3. pc'[q] = "merge" => Leads(o, o.idx - 1, merged'[q])
    BY DEF Table
  <1>4. pc'[q] \in Waiting => Leads(o, Len(o.strings), up)
    BY <1>1 DEF Table
  <1>5. pc'[q] \in Final => Leads(o, Len(o.strings), merged'[0])
    BY DEF Table
  <1> QED
    BY <1>1, <1>2, <1>3, <1>4, <1>5 DEF Table

LEMMA TablesStay ==
    ASSUME NEW q \in Ranks, Tables(q), pc'[q] = pc[q], objs'[q] = objs[q],
           merged'[q] = merged[q], pc[q] \in Final => merged'[0] = merged[0]
    PROVE  Tables(q)'
  <1>1. Up(q)' = Up(q)
    BY DEF Up
  <1>2. ASSUME NEW k \in Objects(q)
        PROVE  Shape(objs'[q][k]) /\ Table(q, objs[q][k])'
    <2>1. PICK o : o = objs[q][k] /\ o = objs'[q][k]
      OBVIOUS
    <2>2. Shape(o) /\ Table(q, o)
      BY <2>1 DEF Tables
    <2>3. Table(q, o)'
      BY <1>1, <2>2, TableStays
    <2> QED
      BY <2>1, <2>2, <2>3
  <1>3. Objects(q)' = Objects(q)
    BY DEF Objects
  <1> QED
    BY <1>2, <1>3 DEF Tables

\* What holds of the ranks that do not move goes on to hold.
LEMMA OthersStay ==
    ASSUME IInv, NEW r \in Ranks, UnifyStep(r), NEW q \in Ranks, q # r
    PROVE  RankInv(q)'
  <1>1. RankInv(q) /\ TypeOK
    BY DEF IInv
  <1>2. Frozen
    BY FrozenStep
  <1>3. /\ pc'[q] = pc[q] /\ mask'[q] = mask[q] /\ sortMap'[q] = sortMap[q]
        /\ objs'[q] = objs[q] /\ merged'[q] = merged[q]
        /\ child'[q] = child[q] /\ unifier'[q] = unifier[q]
        /\ lister' = lister /\ db' = db
    BY <1>1, OthersAlone
  <1>4. OwnNames(q)'
    BY <1>1, <1>3 DEF RankInv, OwnNames
  <1>5. Tables(q)'
    <2>1. Tables(q) /\ (pc[q] \in Final => merged'[0] = merged[0])
      BY <1>1, <1>2 DEF RankInv, Tree, Frozen
    <2> QED
      BY <1>3, <2>1, TablesStay
  <1>6. Tree(q)'
    BY <1>1, <1>2, <1>3 DEF RankInv, Tree, Frozen, Source, Parent
  <1>7. Children(q)'
    BY <1>1, <1>2, <1>3 DEF RankInv, Children, Frozen
  <1>8. Result(q)'
    <2>1. pc[q] = "done" => pc'[0] = "done" /\ merged'[0] = merged[0]
      BY <1>1, <1>2 DEF RankInv, Result, Frozen, Final
    <2> QED
      BY <1>1, <1>3, <2>1 DEF RankInv, Result
  <1> QED
    BY <1>4, <1>5, <1>6, <1>7, <1>8 DEF RankInv

-----------------------------------------------------------------------------
(* The rank that moves: one lemma for each of its steps.                   *)

Stays(r) ==
    TypeOK /\ RankInv(r) /\ Messages /\ (bcast["functions"] # -1 => pc[0] = "done")

LEMMA PcType ==
    ASSUME TypeOK, NEW r \in Ranks, NEW place, GoTo(r, place),
           place \in {"start", "buffer", "tree", "len", "names", "merge", "ok", "send",
                      "map", "down", "done"}
    PROVE  /\ pc' \in [Ranks -> {"start", "buffer", "tree", "len", "names", "merge", "ok",
                                 "send", "map", "down", "done"}]
           /\ pc'[r] = place
  BY DEF TypeOK, GoTo

LEMMA CarriesStays ==
    ASSUME Frozen, NEW s \in Ranks, NEW d \in Ranks, NEW m, Carries(s, d, m)
    PROVE  Carries(s, d, m)'
  BY DEF Carries, Frozen

LEMMA MessagesStay ==
    ASSUME IInv, Frozen,
           \A s, d \in Ranks : \A i \in 1 .. Len(chan'[s, d]) :
               \/ \E j \in 1 .. Len(chan[s, d]) : chan'[s, d][i] = chan[s, d][j]
               \/ \E m \in Message : chan'[s, d][i] = m /\ Carries(s, d, m)'
    PROVE  Messages'
  <1> SUFFICES ASSUME NEW s \in Ranks, NEW d \in Ranks, NEW i \in 1 .. Len(chan'[s, d])
               PROVE  Carries(s, d, chan[s, d][i])'
    BY DEF Messages
  <1>1. PICK m : m = chan'[s, d][i]
    OBVIOUS
  <1>2. Carries(s, d, m)'
    <2>1. CASE \E j \in 1 .. Len(chan[s, d]) : chan'[s, d][i] = chan[s, d][j]
      <3>1. Carries(s, d, m)
        BY <1>1, <2>1 DEF IInv, Messages
      <3> QED
        BY <3>1, CarriesStays
    <2>2. CASE \E n \in Message : chan'[s, d][i] = n /\ Carries(s, d, n)'
      BY <1>1, <2>2
    <2> QED
      BY <2>1, <2>2
  <1> QED
    BY <1>1, <1>2 DEF Carries

\* A message is sent or received: the others stay in their channels.
LEMMA PutMessage ==
    ASSUME IInv, Frozen, NEW r \in Ranks, NEW d \in Ranks, NEW m \in Message,
           Put(r, d, m), Carries(r, d, m)'
    PROVE  Messages' /\ chan' \in [Ranks \X Ranks -> Seq(Message)]
  <1>1. TypeOK
    BY DEF IInv
  <1>2. chan' \in [Ranks \X Ranks -> Seq(Message)] /\ OnlyAdded(r, d, m)
    BY <1>1, AppendedToChannel
  <1>3. ASSUME NEW s \in Ranks, NEW e \in Ranks, NEW i \in 1 .. Len(chan'[s, e])
        PROVE  \/ \E j \in 1 .. Len(chan[s, e]) : chan'[s, e][i] = chan[s, e][j]
               \/ \E n \in Message : chan'[s, e][i] = n /\ Carries(s, e, n)'
    BY <1>2 DEF OnlyAdded
  <1> QED
    BY <1>2, <1>3, MessagesStay

LEMMA TakeMessage ==
    ASSUME IInv, Frozen, NEW r \in Ranks, NEW s \in Ranks, chan[s, r] # <<>>,
           Receive(r, s)
    PROVE  Messages' /\ chan' \in [Ranks \X Ranks -> Seq(Message)]
  <1>1. TypeOK
    BY DEF IInv
  <1>2. /\ chan' \in [Ranks \X Ranks -> Seq(Message)]
        /\ \A q, e \in Ranks : \A i \in 1 .. Len(chan'[q, e]) :
               \E j \in 1 .. Len(chan[q, e]) : chan'[q, e][i] = chan[q, e][j]
    BY <1>1, ReceiveProperties
  <1> QED
    BY <1>2, MessagesStay

LEMMA SameMessages ==
    ASSUME IInv, Frozen, chan' = chan
    PROVE  Messages'
  BY MessagesStay

\* A step that returns nothing.
LEMMA ResultStays ==
    ASSUME IInv, NEW r \in Ranks, Frozen, pc[r] # "done", pc'[r] # "done",
           unifier' = unifier, bcast' = bcast
    PROVE  Result(r)' /\ (bcast'["functions"] # -1 => pc'[0] = "done")
  BY DEF IInv, RankInv, Result, Frozen

LEMMA NewObjectProperties ==
    ASSUME NEW rank \in {-1} \cup Ranks, NEW strings \in Seq(Names)
    PROVE  /\ NewObject(rank, strings) \in Object
           /\ NewObject(rank, strings).strings = strings
           /\ NewObject(rank, strings).rank = rank
           /\ NewObject(rank, strings).idx = 1
           /\ Len(NewObject(rank, strings).mapping) = Len(strings)
           /\ \A j \in 1 .. Len(strings) :
                  NewObject(rank, strings).mapping[j] = j
           /\ Shape(NewObject(rank, strings))
  <1> DEFINE identity == [i \in 1 .. Len(strings) |-> i]
  <1>1. Len(strings) \in Nat
    BY LenProperties
  <1>2. identity \in Seq(Nat) /\ Len(identity) = Len(strings)
    BY <1>1
  <1>3. \A j \in 1 .. Len(strings) : identity[j] = j
    OBVIOUS
  <1> HIDE DEF identity
  <1>4. NewObject(rank, strings) = [rank |-> rank, strings |-> strings,
                                    mapping |-> identity, idx |-> 1]
    BY DEF NewObject, identity
  <1> QED
    BY <1>1, <1>2, <1>3, <1>4 DEF Object, Shape

\* Steps of a rank that has not taken its names from the database yet.
LEMMA EarlyStep ==
    ASSUME IInv, NEW r \in Ranks, Frozen, TypeOK', OwnNames(r)', chan' = chan,
           UNCHANGED <<objs, mask, child, unifier, bcast>>,
           pc[r] \in {"start", "buffer"}, pc'[r] \in {"start", "buffer"}
    PROVE  Stays(r)'
  <1>1. RankInv(r) /\ objs[r] = <<>>
    BY DEF IInv, RankInv, Tree
  <1>2. Len(objs'[r]) = 0
    BY <1>1
  <1>3. Tables(r)' /\ Children(r)'
    BY <1>2 DEF Tables, Children, Objects
  <1>4. Tree(r)'
    BY <1>1 DEF RankInv, Tree, Waiting, Final
  <1>5. Messages'
    BY SameMessages
  <1>6. Result(r)' /\ (bcast'["functions"] # -1 => pc'[0] = "done")
    BY ResultStays
  <1> QED
    BY <1>3, <1>4, <1>5, <1>6 DEF Stays, RankInv

LEMMA StartStep ==
    ASSUME IInv, NEW r \in Ranks, Start(r)
    PROVE  Stays(r)'
  <1>1. PICK entries : entries = db[lister[r]][r]
    OBVIOUS
  <1>2. PICK order \in SortMaps(entries) : sortMap' = [sortMap EXCEPT ![r] = order]
    BY <1>1 DEF Start
  <1>3. /\ TypeOK /\ RankInv(r) /\ lister[r] = "functions" /\ pc[r] = "start"
        /\ entries = db["functions"][r] /\ UNCHANGED <<lister, db>>
    BY <1>1 DEF IInv, RankInv, OwnNames, Start
  <1>4. entries \in Seq(Entries) /\ Len(entries) \in Nat
    BY <1>1, <1>3, LenProperties DEF TypeOK
  <1>5. /\ order \in [1 .. Len(entries) -> 1 .. Len(entries)]
        /\ \A i, j \in 1 .. Len(entries) :
               i < j => entries[order[i]].name <= entries[order[j]].name
    BY DEF SortMaps
  <1>6. order \in Seq(Nat) /\ Len(order) = Len(entries)
    <2>1. 1 .. Len(entries) \subseteq Nat
      BY <1>4
    <2>2. order \in [1 .. Len(entries) -> Nat]
      BY <1>5, <2>1
    <2> QED
      BY <1>4, <2>2, FunctionIsSeq
  <1>7. sortMap'[r] = order /\ sortMap' \in [Ranks -> Seq(Nat)]
    BY <1>2, <1>3, <1>6 DEF TypeOK
  <1>8. /\ pc' \in [Ranks -> {"start", "buffer", "tree", "len", "names", "merge", "ok",
                              "send", "map", "down", "done"}]
        /\ pc'[r] = "buffer"
    BY <1>3, PcType DEF Start
  <1>9. UNCHANGED <<db, eager, lister, mask, objs, merged, numStrings, child, chan,
                    bcast, unifier, wild>>
    BY DEF Start
  <1>10. TypeOK'
    BY <1>3, <1>7, <1>8, <1>9 DEF TypeOK
  <1>11. OwnNames(r)'
    BY <1>3, <1>5, <1>6, <1>7, <1>8 DEF OwnNames
  <1>12. Frozen
    BY FrozenStep DEF UnifyStep
  <1> QED
    BY <1>3, <1>8, <1>9, <1>10, <1>11, <1>12, EarlyStep

LEMMA FillBufferCrashStep ==
    ASSUME IInv, NEW r \in Ranks, FillBufferCrash(r)
    PROVE  Stays(r)'
  <1>1. TypeOK /\ RankInv(r) /\ pc[r] = "buffer"
    BY DEF IInv, FillBufferCrash
  <1>2. UNCHANGED <<db, eager, lister, pc, mask, sortMap, objs, merged, numStrings,
                    child, chan, bcast, unifier>>
        /\ wild' = wild \cup {<<lister[r], r>>}
    BY DEF FillBufferCrash, treeVars
  <1>3. wild' \in SUBSET (Listers \X Ranks)
    BY <1>1, <1>2 DEF TypeOK
  <1>4. TypeOK'
    BY <1>1, <1>2, <1>3 DEF TypeOK
  <1>5. OwnNames(r)'
    BY <1>1, <1>2 DEF RankInv, OwnNames
  <1>6. Frozen
    BY FrozenStep DEF UnifyStep
  <1> QED
    BY <1>1, <1>2, <1>4, <1>5, <1>6, EarlyStep

LEMMA FillBufferStep ==
    ASSUME IInv, NEW r \in Ranks, FillBuffer(r)
    PROVE  Stays(r)'
  <1> DEFINE entries == db[lister[r]][r]
  <1>1. PICK order \in Reads(sortMap[r], entries) :
            /\ sortMap' = [sortMap EXCEPT ![r] = order]
            /\ objs' = [objs EXCEPT ![r] = <<NewObject(-1,
                   [i \in 1 .. Len(order) |-> entries[order[i]].name])>>]
    BY DEF FillBuffer
  <1>2. TypeOK /\ RankInv(r) /\ lister[r] = "functions" /\ pc[r] = "buffer"
    BY DEF IInv, RankInv, OwnNames, FillBuffer
  <1>3. entries \in Seq(Entries) /\ Len(entries) \in Nat
    BY <1>2 DEF TypeOK, Listers
  <1>4. /\ order \in [1 .. Len(entries) -> 1 .. Len(entries)]
        /\ order \in Seq(Nat) /\ Len(order) = Len(entries)
    <2>1. order \in [1 .. Len(entries) -> 1 .. Len(entries)]
      BY <1>1 DEF Reads
    <2>2. order \in [1 .. Len(entries) -> Nat]
      <3>1. 1 .. Len(entries) \subseteq Nat
        BY <1>3
      <3> QED
        BY <2>1, <3>1
    <2> HIDE DEF entries
    <2>3. order \in Seq(Nat) /\ Len(order) = Len(entries)
      BY <1>3, <2>2, FunctionIsSeq
    <2> QED
      BY <2>1, <2>3
  <1> DEFINE strings == [i \in 1 .. Len(order) |-> entries[order[i]].name]
  <1>5. strings \in Seq(Names) /\ Len(strings) = Len(entries)
    <2>1. \A i \in 1 .. Len(order) : entries[order[i]].name \in Names
      <3>1. \A i \in 1 .. Len(order) : order[i] \in 1 .. Len(entries)
        BY <1>4
      <3>2. \A j \in 1 .. Len(entries) : entries[j] \in Entries
        BY <1>3, ElementOfSeq
      <3> QED
        BY <3>1, <3>2 DEF Names
    <2>2. Len(order) \in Nat
      BY <1>3, <1>4
    <2> QED
      BY <1>4, <2>1, <2>2
  <1>6. \A i \in 1 .. Len(entries) : strings[i] = entries[order[i]].name
    BY <1>4
  <1> HIDE DEF strings
  <1> DEFINE o == NewObject(-1, strings)
  <1>7. /\ o \in Object /\ o.strings = strings /\ o.idx = 1 /\ Shape(o)
        /\ \A j \in 1 .. Len(strings) : o.mapping[j] = j
    BY <1>5, NewObjectProperties
  <1>8. objs' = [objs EXCEPT ![r] = <<o>>]
    BY <1>1 DEF strings
  <1> HIDE DEF o
  <1>9. <<o>> \in Seq(Object) /\ Len(<<o>>) = 1 /\ <<o>>[1] = o
    BY <1>7
  <1>10. /\ objs'[r] = <<o>> /\ sortMap'[r] = order /\ mask'[r] = 1
         /\ child'[r] = 2 /\ pc'[r] = "tree" /\ merged'[r] = <<>>
    BY <1>1, <1>2, <1>8 DEF FillBuffer, GoTo, TypeOK
  <1>11. Frozen
    BY FrozenStep DEF UnifyStep
  <1>12. TypeOK'
    <2>1. objs' \in [Ranks -> Seq(Object)]
      BY <1>2, <1>8, <1>9 DEF TypeOK
    <2>2. sortMap' \in [Ranks -> Seq(Nat)]
      BY <1>1, <1>2, <1>4 DEF TypeOK
    <2>3. /\ mask' \in [Ranks -> Nat] /\ child' \in [Ranks -> Nat]
          /\ merged' \in [Ranks -> Seq(Names)]
      BY <1>2 DEF TypeOK, FillBuffer
    <2>4. pc' \in [Ranks -> {"start", "buffer", "tree", "len", "names", "merge", "ok",
                             "send", "map", "down", "done"}]
      BY <1>2, PcType DEF FillBuffer
    <2>5. wild' \in SUBSET (Listers \X Ranks)
      BY <1>2 DEF TypeOK, FillBuffer
    <2> QED
      BY <1>2, <2>1, <2>2, <2>3, <2>4, <2>5 DEF TypeOK, FillBuffer
  <1>13. OwnNames(r)'
    <2>1. lister' = lister /\ db' = db
      BY DEF FillBuffer
    <2>2. db'["functions"][r] = entries
      BY <1>2, <2>1
    <2> HIDE DEF entries
    <2>3. \A i \in 1 .. Len(order) : order[i] \in 1 .. Len(entries)
      BY <1>4
    <2> QED
      BY <1>2, <1>4, <1>5, <1>6, <1>7, <1>9, <1>10, <2>1, <2>2, <2>3 DEF OwnNames
  <1>14. Tables(r)' /\ Tree(r)' /\ Children(r)'
    <2>1. Tables(r)'
      <3> SUFFICES ASSUME NEW k \in 1 .. Len(objs'[r])
                   PROVE  Shape(objs[r][k])' /\ Table(r, objs[r][k])'
        BY DEF Tables, Objects
      <3>1. objs'[r][k] = o
        BY <1>9, <1>10
      <3>2. Shape(objs[r][k])'
        BY <1>7, <3>1 DEF Shape
      <3>3. Table(r, objs[r][k])'
        BY <1>7, <1>10, <3>1 DEF Table, Collecting, Waiting, Final
      <3> QED
        BY <3>2, <3>3
    <2>2. Tree(r)'
      BY <1>10 DEF Tree, Waiting, Final
    <2>3. Children(r)'
      BY <1>9, <1>10 DEF Children
    <2> QED
      BY <2>1, <2>2, <2>3
  <1>15. Messages'
    BY <1>11, SameMessages DEF FillBuffer
  <1>16. Result(r)' /\ (bcast'["functions"] # -1 => pc'[0] = "done")
    BY <1>2, <1>10, <1>11, ResultStays DEF FillBuffer
  <1> QED
    BY <1>12, <1>13, <1>14, <1>15, <1>16 DEF Stays, RankInv

\* Steps that leave the lists and tables of the rank as they are.
LEMMA QuietStep ==
    ASSUME IInv, NEW r \in Ranks, Frozen, TypeOK', Messages', Tree(r)',
           UNCHANGED <<objs, merged, sortMap, lister, db, unifier, bcast>>,
           pc[r] \notin {"start", "buffer", "done"},
           pc'[r] \notin {"start", "buffer", "done"},
           \A k \in Objects(r) : Table(r, objs[r][k])'
    PROVE  Stays(r)'
  <1>1. RankInv(r)
    BY DEF IInv
  <1>2. OwnNames(r)'
    BY <1>1 DEF RankInv, OwnNames
  <1>3. Tables(r)'
    BY <1>1 DEF RankInv, Tables, Shape, Objects
  <1>4. Children(r)'
    BY <1>1 DEF RankInv, Children, Frozen
  <1>5. Result(r)' /\ (bcast'["functions"] # -1 => pc'[0] = "done")
    BY ResultStays
  <1> QED
    BY <1>2, <1>3, <1>4, <1>5 DEF Stays, RankInv

\* A table of a rank that collects goes on to lead to the list itself.
LEMMA CollectingTable ==
    ASSUME IInv, NEW r \in Ranks, pc[r] \in Collecting, pc'[r] \in Collecting,
           UNCHANGED objs, NEW k \in Objects(r)
    PROVE  Table(r, objs[r][k])'
  <1>1. Table(r, objs[r][k])
    BY DEF IInv, RankInv, Tables
  <1> QED
    BY <1>1 DEF Table, Collecting, Waiting, Final

LEMMA SkipChildStep ==
    ASSUME IInv, NEW r \in Ranks, SkipChild(r)
    PROVE  Stays(r)'
  <1>1. TypeOK /\ Tree(r) /\ Frozen /\ mask[r] \in Nat
    BY FrozenStep, ObjectTypes DEF IInv, RankInv, UnifyStep
  <1>2. mask' \in [Ranks -> Nat] /\ mask'[r] = 2 * mask[r]
    BY <1>1 DEF TypeOK, SkipChild, NextMask
  <1>3. pc[r] = "tree" /\ pc'[r] = "tree"
    BY DEF SkipChild
  <1>4. TypeOK'
    BY <1>1, <1>2 DEF TypeOK, SkipChild
  <1>5. Messages'
    BY <1>1, SameMessages DEF SkipChild
  <1>6. Tree(r)'
    BY <1>1, <1>2, <1>3 DEF Tree, SkipChild, Waiting, Final
  <1>7. \A k \in Objects(r) : Table(r, objs[r][k])'
    BY <1>3, CollectingTable DEF SkipChild, Collecting
  <1> QED
    BY <1>1, <1>3, <1>4, <1>5, <1>6, <1>7, QuietStep DEF SkipChild

LEMMA AskChildStep ==
    ASSUME IInv, NEW r \in Ranks, AskChild(r)
    PROVE  Stays(r)'
  <1>1. TypeOK /\ Tree(r) /\ Frozen
    BY FrozenStep DEF IInv, RankInv, UnifyStep
  <1>2. pc[r] = "tree" /\ pc'[r] = "len"
    BY <1>1, PcType DEF AskChild
  <1>3. PICK c \in Ranks : c = Source(r)
    BY DEF AskChild
  <1>4. PICK m \in Message : /\ m = Msg("ok", <<>>) /\ m.kind = "ok"
    BY MessageTypes
  <1>5. Put(r, c, m)
    <2>1. Send(r, Source(r), "ok", <<>>)
      BY DEF AskChild
    <2>2. Send(r, c, "ok", <<>>)
      BY <1>3, <2>1
    <2> QED
      BY <1>4, <2>2 DEF Send, Put
  <1>6. Messages' /\ chan' \in [Ranks \X Ranks -> Seq(Message)]
    <2>1. Carries(r, c, m)'
      BY <1>4 DEF Carries
    <2> QED
      BY <1>1, <1>5, <2>1, PutMessage
  <1>7. TypeOK'
    BY <1>1, <1>6, PcType DEF TypeOK, AskChild, treeVars
  <1>8. Tree(r)'
    BY <1>1, <1>2, <1>3 DEF Tree, AskChild, treeVars, Waiting, Final, Source
  <1>9. \A k \in Objects(r) : Table(r, objs[r][k])'
    BY <1>2, CollectingTable DEF AskChild, treeVars, Collecting
  <1> QED
    BY <1>1, <1>2, <1>6, <1>7, <1>8, <1>9, QuietStep DEF AskChild, treeVars

LEMMA ReceiveLengthStep ==
    ASSUME IInv, NEW r \in Ranks, ReceiveLength(r)
    PROVE  Stays(r)'
  <1>1. TypeOK /\ Tree(r) /\ Messages /\ Frozen
    BY FrozenStep DEF IInv, RankInv, UnifyStep
  <1>2. pc[r] = "len" /\ pc'[r] = "names"
    BY <1>1, PcType DEF ReceiveLength
  <1>3. Source(r) \in Ranks
    BY <1>1, <1>2 DEF Tree
  <1>4. Messages' /\ chan' \in [Ranks \X Ranks -> Seq(Message)]
    <2>1. chan[Source(r), r] # <<>> /\ Receive(r, Source(r))
      BY DEF ReceiveLength, Arrived
    <2> QED
      BY <1>1, <1>3, <2>1, TakeMessage
  <1>5. TypeOK'
    BY <1>1, <1>4, PcType DEF TypeOK, ReceiveLength, treeVars
  <1>7. Tree(r)'
    BY <1>1, <1>2, <1>3 DEF Tree, ReceiveLength, treeVars, Waiting, Final, Source
  <1>8. \A k \in Objects(r) : Table(r, objs[r][k])'
    BY <1>2, CollectingTable DEF ReceiveLength, treeVars, Collecting
  <1> QED
    BY <1>1, <1>2, <1>4, <1>5, <1>7, <1>8, QuietStep DEF ReceiveLength, treeVars

\* A rank that has the bit of its mask has a parent.
LEMMA ParentIsRank ==
    ASSUME NEW r \in Ranks, mask[r] \in Nat, mask[r] >= 1, HasBit(r)
    PROVE  Parent(r) \in Ranks /\ Parent(r) # r /\ r # 0
  <1>1. r \in Nat /\ r < NumRanks /\ NumRanks \in Nat
    BY RankFacts
  <1>2. mask[r] <= r
    <2>1. SUFFICES ASSUME r < mask[r] PROVE r \div mask[r] = 0
      BY <1>1 DEF HasBit
    <2> QED
      BY <1>1, <2>1
  <1>3. Parent(r) \in Nat /\ Parent(r) < r
    BY <1>1, <1>2 DEF Parent
  <1> QED
    BY <1>1, <1>3, RankFacts

LEMMA EndTreeStep ==
    ASSUME IInv, NEW r \in Ranks, EndTree(r)
    PROVE  Stays(r)'
  <1>1. TypeOK /\ Tree(r) /\ Tables(r) /\ Frozen
    BY FrozenStep DEF IInv, RankInv, UnifyStep
  <1> DEFINE place == IF r = 0 \/ Len(objs[r]) > 1 THEN "merge" ELSE "ok"
  <1>2. pc[r] = "tree" /\ pc'[r] = place /\ place \in {"merge", "ok"}
    BY <1>1, PcType DEF EndTree
  <1>3. UNCHANGED <<objs, merged, mask, child, chan>>
    BY DEF EndTree, treeVars
  <1>4. r # 0 => Parent(r) \in Ranks
    <2>1. mask[r] \in Nat /\ mask[r] >= 1
      BY <1>1, ObjectTypes DEF Tree
    <2>2. r # 0 => HasBit(r)
      BY DEF EndTree
    <2> QED
      BY <2>1, <2>2, ParentIsRank
  <1>5. TypeOK'
    BY <1>1, PcType DEF TypeOK, EndTree, treeVars
  <1>6. Messages'
    BY <1>1, <1>3, SameMessages
  <1>7. Tree(r)'
    BY <1>1, <1>2, <1>3, <1>4 DEF Tree, Waiting, Final, Parent
  <1>8. ASSUME NEW k \in Objects(r) PROVE Table(r, objs[r][k])'
    <2>1. /\ objs[r][k].idx = 1
          /\ \A j \in 1 .. Len(objs[r][k].strings) : objs[r][k].mapping[j] = j
      BY <1>1, <1>2 DEF Tables, Table, Collecting
    <2>2. CASE place = "merge"
      BY <1>2, <1>3, <2>1, <2>2 DEF Table, Leads, Collecting, Waiting, Final
    <2>3. CASE place = "ok"
      <3>1. Len(objs[r]) \in Nat /\ ~(Len(objs[r]) > 1)
        BY <1>1, <2>3, ObjectTypes
      <3>2. k = 1
        BY <3>1 DEF Objects
      <3>3. Up(r)' = objs[r][k].strings
        BY <1>3, <3>1, <3>2 DEF Up
      <3>4. Leads(objs[r][k], Len(objs[r][k].strings), Up(r))'
        BY <1>3, <2>1, <3>3 DEF Leads
      <3> QED
        BY <1>2, <1>3, <2>3, <3>4 DEF Table, Collecting, Waiting, Final
    <2> QED
      BY <1>2, <2>2, <2>3
  <1> QED
    BY <1>1, <1>2, <1>5, <1>6, <1>7, <1>8, QuietStep DEF EndTree, treeVars

LEMMA BodyTypes ==
    ASSUME NEW m \in Message
    PROVE  /\ m.kind = "names" => m.body \in Seq(Names)
           /\ m.kind = "map" => m.body \in Seq(Nat)
  BY DEF Message

LEMMA ReceiveNamesStep ==
    ASSUME IInv, NEW r \in Ranks, ReceiveNames(r)
    PROVE  Stays(r)'
  <1>1. /\ TypeOK /\ Messages /\ OwnNames(r) /\ Tables(r) /\ Tree(r)
        /\ Children(r) /\ Frozen
    BY FrozenStep DEF IInv, RankInv, UnifyStep
  <1>2. pc[r] = "names" /\ pc'[r] = "tree"
    BY <1>1, PcType DEF ReceiveNames
  <1>3. PICK c \in Ranks : c = Source(r)
    BY <1>1, <1>2 DEF Tree
  <1>4. Arrived(r, c, "names") /\ Receive(r, c)
    BY <1>3 DEF ReceiveNames
  <1>5. PICK body \in Seq(Names) :
            body = Body(r, c) /\ pc[c] \in SentUp /\ body = Up(c)
    <2>1. /\ Head(chan[c, r]) \in Message /\ Head(chan[c, r]).kind = "names"
          /\ Carries(c, r, Head(chan[c, r]))
      BY <1>1, <1>4, FirstMessage
    <2>2. Head(chan[c, r]).body \in Seq(Names)
      BY <2>1, BodyTypes
    <2> QED
      BY <2>1, <2>2 DEF Body, Carries
  <1> DEFINE o == NewObject(c, body)
  <1>6. /\ o \in Object /\ o.strings = body /\ o.rank = c /\ o.idx = 1 /\ Shape(o)
        /\ \A j \in 1 .. Len(body) : o.mapping[j] = j
    <2>1. c \in {-1} \cup Ranks /\ body \in Seq(Names)
      BY <1>3, <1>5
    <2> HIDE DEF o
    <2>2. /\ NewObject(c, body) \in Object
          /\ NewObject(c, body).strings = body
          /\ NewObject(c, body).rank = c /\ NewObject(c, body).idx = 1
          /\ Shape(NewObject(c, body))
          /\ \A j \in 1 .. Len(body) : NewObject(c, body).mapping[j] = j
      BY <2>1, NewObjectProperties
    <2> QED
      BY <2>2 DEF o
  <1>7. objs' = [objs EXCEPT ![r] = Append(objs[r], o)]
    BY <1>3, <1>5 DEF ReceiveNames
  <1> HIDE DEF o
  <1>8. objs[r] \in Seq(Object) /\ Len(objs[r]) \in Nat /\ mask[r] \in Nat
    BY <1>1, ObjectTypes
  <1>9. /\ objs'[r] = Append(objs[r], o)
        /\ objs'[r] \in Seq(Object) /\ Len(objs'[r]) = Len(objs[r]) + 1
        /\ \A k \in 1 .. Len(objs'[r]) :
               \/ k \in 1 .. Len(objs[r]) /\ objs'[r][k] = objs[r][k]
               \/ k = Len(objs[r]) + 1 /\ objs'[r][k] = o
    <2>1. objs'[r] = Append(objs[r], o)
      BY <1>1, <1>7 DEF TypeOK
    <2> QED
      BY <1>6, <1>8, <2>1, AppendedTo
  <1>10. Messages' /\ chan' \in [Ranks \X Ranks -> Seq(Message)]
    BY <1>1, <1>4, TakeMessage DEF Arrived
  <1>11. mask' \in [Ranks -> Nat] /\ mask'[r] = 2 * mask[r]
    <2>1. mask' = [mask EXCEPT ![r] = 2 * mask[r]]
      BY DEF ReceiveNames, NextMask
    <2>2. 2 * mask[r] \in Nat
      BY <1>8
    <2> QED
      BY <1>1, <2>1, <2>2 DEF TypeOK
  <1>12. TypeOK'
    <2>1. objs' \in [Ranks -> Seq(Object)]
      BY <1>1, <1>7, <1>9 DEF TypeOK
    <2> QED
      BY <1>1, <1>10, <1>11, <2>1, PcType DEF TypeOK, ReceiveNames
  <1>13. UNCHANGED <<lister, db, sortMap, merged, child, unifier, bcast>>
    BY DEF ReceiveNames
  <1>14. OwnNames(r)'
    <2>1. Len(objs[r]) >= 1
      BY <1>1, <1>2 DEF OwnNames
    <2>2. Len(objs'[r]) >= 1 /\ objs'[r][1] = objs[r][1]
      BY <1>8, <1>9, <2>1
    <2> QED
      BY <1>1, <1>2, <1>13, <2>2 DEF OwnNames
  <1>15. Tables(r)'
    <2> SUFFICES ASSUME NEW k \in 1 .. Len(objs'[r])
                 PROVE  Shape(objs[r][k])' /\ Table(r, objs[r][k])'
      BY DEF Tables, Objects
    <2>1. CASE k \in 1 .. Len(objs[r]) /\ objs'[r][k] = objs[r][k]
      <3>1. Shape(objs[r][k]) /\ Table(r, objs[r][k])
        BY <1>1, <2>1 DEF Tables, Objects
      <3> QED
        BY <1>2, <2>1, <3>1 DEF Table, Shape, Collecting, Waiting, Final
    <2>2. CASE objs'[r][k] = o
      BY <1>2, <1>6, <2>2 DEF Table, Shape, Collecting, Waiting, Final
    <2> QED
      BY <1>9, <2>1, <2>2
  <1>16. Tree(r)'
    BY <1>1, <1>2, <1>8, <1>11, <1>13 DEF Tree, Waiting, Final
  <1>17. Children(r)'
    <2>1. ASSUME NEW k \in 2 .. Len(objs'[r])
          PROVE  \E q \in Ranks : /\ q = objs'[r][k].rank /\ pc'[q] \in SentUp
                                  /\ objs'[r][k].strings = Up(q)'
      <3>1. CASE k \in 1 .. Len(objs[r]) /\ objs'[r][k] = objs[r][k]
        <4>1. PICK q \in Ranks : /\ q = objs[r][k].rank /\ pc[q] \in SentUp
                                 /\ objs[r][k].strings = Up(q)
          BY <1>1, <3>1 DEF Children
        <4>2. pc'[q] \in SentUp /\ Up(q)' = Up(q)
          BY <1>1, <4>1 DEF Frozen
        <4> QED
          BY <3>1, <4>1, <4>2
      <3>2. CASE objs'[r][k] = o
        <4>1. pc'[c] \in SentUp /\ Up(c)' = Up(c)
          BY <1>1, <1>5 DEF Frozen
        <4> QED
          BY <1>5, <1>6, <3>2, <4>1
      <3> QED
        BY <1>9, <3>1, <3>2
    <2> QED
      BY <2>1 DEF Children, Up
  <1>18. Result(r)' /\ (bcast'["functions"] # -1 => pc'[0] = "done")
    BY <1>1, <1>2, <1>13, ResultStays
  <1> QED
    BY <1>10, <1>12, <1>14, <1>15, <1>16, <1>17, <1>18 DEF Stays, RankInv

\* An object in a turn of the merge: what its table says so far stays, and the
\* name that is taken from it gets the position.
LEMMA AdvancedProperties ==
    ASSUME NEW o \in Object, Shape(o), NEW name, NEW count \in Nat
    PROVE  LET p == Advanced(o, name, count) IN
           /\ p \in Object /\ p.strings = o.strings /\ p.rank = o.rank /\ Shape(p)
           /\ \A j \in 1 .. p.idx - 1 :
                  \/ j \in 1 .. o.idx - 1 /\ p.mapping[j] = o.mapping[j]
                  \/ p.mapping[j] = count /\ o.strings[j] = name
  <1> DEFINE p == Advanced(o, name, count)
  <1>1. /\ o.mapping \in Seq(Nat) /\ o.strings \in Seq(Names) /\ o.idx \in Nat
        /\ Len(o.strings) \in Nat /\ Len(o.mapping) = Len(o.strings)
        /\ o.idx \in 1 .. Len(o.strings) + 1 /\ o.rank \in {-1} \cup Ranks
    BY LenProperties DEF Object, Shape
  <1>2. CASE Live(o) /\ Current(o) = name
    <2> DEFINE mapping == [o.mapping EXCEPT ![o.idx] = count]
    <2>1. /\ mapping \in Seq(Nat) /\ Len(mapping) = Len(o.mapping)
          /\ \A j \in 1 .. Len(o.mapping) :
                 mapping[j] = IF j = o.idx THEN count ELSE o.mapping[j]
      <3>1. o.idx \in 1 .. Len(o.mapping)
        BY <1>1, <1>2 DEF Live
      <3> QED
        BY <1>1, <3>1, ExceptSeq
    <2>2. p = [o EXCEPT !.mapping = mapping, !.idx = o.idx + 1]
      BY <1>2 DEF Advanced
    <2> HIDE DEF mapping
    <2>3. /\ p.strings = o.strings /\ p.rank = o.rank /\ p.mapping = mapping
          /\ p.idx = o.idx + 1
          /\ p = [rank |-> o.rank, strings |-> o.strings, mapping |-> mapping,
                  idx |-> o.idx + 1]
      BY <2>2 DEF Object
    <2> HIDE DEF p
    <2>4. p \in Object
      BY <1>1, <2>1, <2>3 DEF Object
    <2>5. Shape(p)
      BY <1>1, <1>2, <2>1, <2>3, SMTT(40) DEF Shape, Live
    <2>6. \A j \in 1 .. p.idx - 1 :
              \/ j \in 1 .. o.idx - 1 /\ p.mapping[j] = o.mapping[j]
              \/ p.mapping[j] = count /\ o.strings[j] = name
      <3> SUFFICES ASSUME NEW j \in 1 .. p.idx - 1
                   PROVE  \/ j \in 1 .. o.idx - 1 /\ p.mapping[j] = o.mapping[j]
                          \/ p.mapping[j] = count /\ o.strings[j] = name
        OBVIOUS
      <3>1. j \in 1 .. o.idx /\ j \in 1 .. Len(o.mapping)
        BY <1>1, <1>2, <2>3 DEF Live
      <3>2. p.mapping[j] = IF j = o.idx THEN count ELSE o.mapping[j]
        BY <2>1, <2>3, <3>1
      <3>3. o.strings[o.idx] = name
        BY <1>2 DEF Current
      <3>4. j = o.idx \/ j \in 1 .. o.idx - 1
        BY <1>1, <3>1
      <3> QED
        BY <1>1, <3>2, <3>3, <3>4
    <2> QED
      BY <2>3, <2>4, <2>5, <2>6 DEF p
  <1>3. CASE ~(Live(o) /\ Current(o) = name)
    BY <1>3 DEF Advanced
  <1> QED
    BY <1>2, <1>3

LEMMA MergeNextStep ==
    ASSUME IInv, NEW r \in Ranks, MergeNext(r)
    PROVE  Stays(r)'
  <1>1. /\ TypeOK /\ OwnNames(r) /\ Tables(r) /\ Tree(r) /\ Children(r) /\ Frozen
    BY FrozenStep DEF IInv, RankInv, UnifyStep
  <1>2. pc[r] = "merge" /\ pc' = pc
    BY DEF MergeNext
  <1>3. PICK i \in LiveObjs(r) :
            /\ merged' = [merged EXCEPT ![r] = Append(merged[r], Current(objs[r][i]))]
            /\ objs' = [objs EXCEPT ![r] = [k \in 1 .. Len(objs[r]) |->
                   Advanced(objs[r][k], Current(objs[r][i]), Len(merged[r]) + 1)]]
    BY DEF MergeNext
  <1>4. PICK name : name = Current(objs[r][i])
    OBVIOUS
  <1>5. PICK count : count = Len(merged[r]) + 1
    OBVIOUS
  <1>6. /\ objs[r] \in Seq(Object) /\ Len(objs[r]) \in Nat
        /\ merged[r] \in Seq(Names) /\ Len(merged[r]) \in Nat /\ count \in Nat
        /\ \A k \in Objects(r) : objs[r][k] \in Object
    BY <1>1, <1>5, ObjectTypes
  <1>7. name \in Names
    <2>1. i \in Objects(r) /\ Live(objs[r][i])
      BY DEF LiveObjs, Objects
    <2>2. /\ objs[r][i].strings \in Seq(Names)
          /\ objs[r][i].idx \in 1 .. Len(objs[r][i].strings)
      BY <1>1, <2>1, ObjectTypes DEF Tables, Shape, Live
    <2>3. Current(objs[r][i]) \in Names
      BY <2>2, ElementOfSeq DEF Current
    <2> QED
      BY <1>4, <2>3
  <1>8. /\ merged'[r] \in Seq(Names) /\ Len(merged'[r]) = count
        /\ merged'[r][count] = name
        /\ \A j \in 1 .. Len(merged[r]) :
               j \in 1 .. count /\ merged'[r][j] = merged[r][j]
    <2>1. merged'[r] = Append(merged[r], name)
      BY <1>1, <1>3, <1>4 DEF TypeOK
    <2> QED
      BY <1>5, <1>6, <1>7, <2>1, AppendProperties
  <1> DEFINE new == [k \in 1 .. Len(objs[r]) |-> Advanced(objs[r][k], name, count)]
  <1>9. objs' = [objs EXCEPT ![r] = new]
    BY <1>3, <1>4, <1>5
  <1>10. objs'[r] = new
    BY <1>1, <1>9 DEF TypeOK
  <1>11. ASSUME NEW k \in Objects(r)
         PROVE  /\ objs'[r][k] \in Object /\ Shape(objs'[r][k])
                /\ objs'[r][k].strings = objs[r][k].strings
                /\ objs'[r][k].rank = objs[r][k].rank
                /\ \A j \in 1 .. objs'[r][k].idx - 1 :
                       \/ /\ j \in 1 .. objs[r][k].idx - 1
                          /\ objs'[r][k].mapping[j] = objs[r][k].mapping[j]
                       \/ /\ objs'[r][k].mapping[j] = count
                          /\ objs[r][k].strings[j] = name
    <2>1. PICK o \in Object : o = objs[r][k] /\ Shape(o)
      BY <1>1, <1>6 DEF Tables
    <2>2. objs'[r][k] = Advanced(o, name, count)
      BY <1>10, <2>1 DEF Objects
    <2> QED
      BY <1>6, <2>1, <2>2, AdvancedProperties
  <1>12. objs'[r] \in Seq(Object) /\ Len(objs'[r]) = Len(objs[r])
    <2>1. \A k \in 1 .. Len(objs[r]) : new[k] \in Object
      BY <1>10, <1>11 DEF Objects
    <2>2. new \in [1 .. Len(objs[r]) -> Object]
      BY <2>1
    <2>3. new \in Seq(Object) /\ Len(new) = Len(objs[r])
      BY <1>6, <2>2, FunctionIsSeq
    <2> QED
      BY <1>10, <2>3
  <1> HIDE DEF new
  <1>13. UNCHANGED <<lister, db, sortMap, mask, child, chan, unifier, bcast>>
    BY DEF MergeNext
  <1>14. TypeOK'
    <2>1. objs' \in [Ranks -> Seq(Object)]
      BY <1>1, <1>9, <1>10, <1>12 DEF TypeOK
    <2>2. merged' \in [Ranks -> Seq(Names)]
      <3>1. merged' = [merged EXCEPT ![r] = merged'[r]]
        BY <1>1, <1>3 DEF TypeOK
      <3> QED
        BY <1>1, <1>8, <3>1 DEF TypeOK
    <2> QED
      BY <1>1, <2>1, <2>2 DEF TypeOK, MergeNext
  <1>15. OwnNames(r)'
    <2>1. Len(objs[r]) >= 1 /\ 1 \in Objects(r)
      BY <1>1, <1>2, <1>6 DEF OwnNames, Objects
    <2>2. objs'[r][1].strings = objs[r][1].strings
      BY <1>11, <2>1
    <2> QED
      BY <1>1, <1>2, <1>12, <1>13, <2>1, <2>2 DEF OwnNames
  <1>16. Tables(r)'
    <2> SUFFICES ASSUME NEW k \in Objects(r)
                 PROVE  Shape(objs[r][k])' /\ Table(r, objs[r][k])'
      BY <1>12 DEF Tables, Objects
    <2>1. Shape(objs[r][k])'
      BY <1>11 DEF Shape
    <2>2. Leads(objs[r][k], objs[r][k].idx - 1, merged[r])
      BY <1>1, <1>2 DEF Tables, Table
    <2>3. Leads(objs[r][k], objs[r][k].idx - 1, merged[r])'
      <3> SUFFICES ASSUME NEW j \in 1 .. objs'[r][k].idx - 1
                   PROVE  /\ objs'[r][k].mapping[j] \in 1 .. Len(merged'[r])
                          /\ merged'[r][objs'[r][k].mapping[j]] = objs'[r][k].strings[j]
        BY DEF Leads
      <3>1. CASE /\ j \in 1 .. objs[r][k].idx - 1
                 /\ objs'[r][k].mapping[j] = objs[r][k].mapping[j]
        <4>1. /\ objs[r][k].mapping[j] \in 1 .. Len(merged[r])
              /\ merged[r][objs[r][k].mapping[j]] = objs[r][k].strings[j]
          BY <2>2, <3>1 DEF Leads
        <4> QED
          BY <1>8, <1>11, <3>1, <4>1
      <3>2. CASE /\ objs'[r][k].mapping[j] = count
                 /\ objs[r][k].strings[j] = name
        <4>1. count \in 1 .. Len(merged'[r]) /\ merged'[r][count] = name
          BY <1>5, <1>6, <1>8
        <4>2. objs'[r][k].strings = objs[r][k].strings
          BY <1>11
        <4> QED
          BY <3>2, <4>1, <4>2
      <3> QED
        BY <1>11, <3>1, <3>2
    <2> QED
      BY <1>2, <2>1, <2>3 DEF Table, Collecting, Waiting, Final
  <1>17. Tree(r)'
    BY <1>1, <1>2, <1>12, <1>13 DEF Tree, Waiting, Final, Source, Parent
  <1>18. Children(r)'
    <2>1. ASSUME NEW k \in 2 .. Len(objs'[r])
          PROVE  \E q \in Ranks : /\ q = objs'[r][k].rank /\ pc'[q] \in SentUp
                                  /\ objs'[r][k].strings = Up(q)'
      <3>1. k \in Objects(r) /\ k \in 2 .. Len(objs[r])
        BY <1>6, <1>12 DEF Objects
      <3>2. PICK q \in Ranks : /\ q = objs[r][k].rank /\ pc[q] \in SentUp
                               /\ objs[r][k].strings = Up(q)
        BY <1>1, <3>1 DEF Children
      <3>3. pc'[q] \in SentUp /\ Up(q)' = Up(q)
        BY <1>1, <3>2 DEF Frozen
      <3> QED
        BY <1>11, <3>1, <3>2, <3>3
    <2> QED
      BY <2>1 DEF Children, Up
  <1>19. Messages'
    BY <1>1, <1>13, SameMessages
  <1>20. Result(r)' /\ (bcast'["functions"] # -1 => pc'[0] = "done")
    BY <1>1, <1>2, <1>13, ResultStays
  <1> QED
    BY <1>14, <1>15, <1>16, <1>17, <1>18, <1>19, <1>20 DEF Stays, RankInv

LEMMA MergeEndStep ==
    ASSUME IInv, NEW r \in Ranks, MergeEnd(r)
    PROVE  Stays(r)'
  <1>1. TypeOK /\ Tree(r) /\ Tables(r) /\ Frozen
    BY FrozenStep DEF IInv, RankInv, UnifyStep
  <1> DEFINE place == IF r = 0 THEN "down" ELSE "ok"
  <1>2. pc[r] = "merge" /\ pc'[r] = place
    BY <1>1, PcType DEF MergeEnd
  <1>3. UNCHANGED <<objs, merged, mask, child, chan>>
    BY DEF MergeEnd, treeVars
  <1>4. TypeOK'
    BY <1>1, PcType DEF TypeOK, MergeEnd, treeVars
  <1>5. Messages'
    BY <1>1, <1>3, SameMessages
  <1>6. Tree(r)'
    BY <1>1, <1>2, <1>3 DEF Tree, Waiting, Final, Parent
  <1>7. ASSUME NEW k \in Objects(r) PROVE Table(r, objs[r][k])'
    <2>1. /\ objs[r][k].idx = Len(objs[r][k].strings) + 1
          /\ Len(objs[r][k].strings) \in Nat
      <3>1. PICK o \in Object : o = objs[r][k] /\ Shape(o) /\ ~Live(o)
        BY <1>1, ObjectTypes DEF Tables, MergeEnd, LiveObjs, Objects
      <3>2. Len(o.strings) \in Nat /\ o.idx \in Nat
        BY <1>1, <3>1, ObjectTypes
      <3> QED
        BY <3>1, <3>2 DEF Shape, Live
    <2>2. Leads(objs[r][k], Len(objs[r][k].strings), merged[r])
      <3>1. Leads(objs[r][k], objs[r][k].idx - 1, merged[r])
        BY <1>1, <1>2 DEF Tables, Table
      <3> QED
        BY <2>1, <3>1 DEF Leads
    <2>3. CASE r = 0
      BY <1>2, <1>3, <2>2, <2>3 DEF Table, Leads, Collecting, Waiting, Final
    <2>4. CASE r # 0
      <3>1. Up(r)' = merged[r]
        BY <1>1, <1>2, <1>3, <2>4 DEF Tree, Up
      <3>2. Leads(objs[r][k], Len(objs[r][k].strings), Up(r))'
        BY <1>3, <2>2, <3>1 DEF Leads
      <3> QED
        BY <1>2, <1>3, <2>4, <3>2 DEF Table, Collecting, Waiting, Final
    <2> QED
      BY <2>3, <2>4
  <1> QED
    BY <1>1, <1>2, <1>4, <1>5, <1>6, <1>7, QuietStep DEF MergeEnd, treeVars

LEMMA SendLengthStep ==
    ASSUME IInv, NEW r \in Ranks, SendLength(r)
    PROVE  Stays(r)'
  <1>1. TypeOK /\ Tree(r) /\ Tables(r) /\ OwnNames(r) /\ Messages /\ Frozen
    BY FrozenStep DEF IInv, RankInv, UnifyStep
  <1>2. pc[r] = "ok" /\ pc'[r] = "send"
    BY <1>1, PcType DEF SendLength
  <1>3. UNCHANGED <<objs, merged, mask, child>>
    BY DEF SendLength, treeVars
  <1>4. PICK p \in Ranks : p = Parent(r)
    BY <1>1, <1>2 DEF Tree, Waiting
  <1>5. p # r
    <2>1. r \in Nat /\ mask[r] \in Nat /\ mask[r] >= 1
      BY <1>1, RankFacts, ObjectTypes DEF Tree
    <2> QED
      BY <1>4, <2>1 DEF Parent
  <1>6. PICK m \in Message : m = Msg("len", BufferLength(Up(r))) /\ m.kind = "len"
    <2>1. Len(Up(r)) \in Nat
      BY <1>1, <1>2, UpType DEF OwnNames
    <2>2. BufferLength(Up(r)) \in Nat
      BY <2>1 DEF BufferLength
    <2> QED
      BY <2>2, MessageTypes
  <1>7. /\ chan \in [Ranks \X Ranks -> Seq(Message)]
        /\ chan[p, r] \in Seq(Message) /\ chan[r, p] \in Seq(Message)
        /\ chan[p, r] # <<>>
    <2>1. chan[p, r] # <<>>
      BY <1>4 DEF SendLength, Arrived
    <2> QED
      BY <1>1, <2>1 DEF TypeOK
  <1>8. chan' = [chan EXCEPT ![<<p, r>>] = Tail(chan[p, r]),
                             ![<<r, p>>] = Append(chan[r, p], m)]
    <2>1. <<p, r>> # <<r, p>>
      BY <1>5
    <2>2. chan' = [chan EXCEPT ![<<p, r>>] = Tail(@), ![<<r, p>>] = Append(@, m)]
      BY <1>4, <1>6 DEF SendLength
    <2> QED
      BY <1>7, <2>1, <2>2
  <1>9. /\ Tail(chan[p, r]) \in Seq(Message)
        /\ \A i \in 1 .. Len(Tail(chan[p, r])) :
               /\ i + 1 \in 1 .. Len(chan[p, r])
               /\ Tail(chan[p, r])[i] = chan[p, r][i + 1]
    BY <1>7, TakenFrom
  <1>10. /\ Append(chan[r, p], m) \in Seq(Message)
         /\ \A i \in 1 .. Len(Append(chan[r, p], m)) :
                \/ i \in 1 .. Len(chan[r, p])
                   /\ Append(chan[r, p], m)[i] = chan[r, p][i]
                \/ Append(chan[r, p], m)[i] = m
    BY <1>7, AppendedTo
  <1>11. chan' \in [Ranks \X Ranks -> Seq(Message)]
    BY <1>7, <1>8, <1>9, <1>10
  <1>12. Messages'
    <2>1. ASSUME NEW s \in Ranks, NEW d \in Ranks, NEW i \in 1 .. Len(chan'[s, d])
          PROVE  \/ \E j \in 1 .. Len(chan[s, d]) : chan'[s, d][i] = chan[s, d][j]
                 \/ \E n \in Message : chan'[s, d][i] = n /\ Carries(s, d, n)'
      <3>1. CASE <<s, d>> = <<p, r>>
        <4>1. chan'[s, d] = Tail(chan[p, r])
          BY <1>5, <1>7, <1>8, <3>1
        <4> QED
          BY <1>9, <3>1, <4>1
      <3>2. CASE <<s, d>> = <<r, p>>
        <4>1. chan'[s, d] = Append(chan[r, p], m)
          BY <1>5, <1>7, <1>8, <3>2
        <4>2. Carries(s, d, m)'
          BY <1>6 DEF Carries
        <4> QED
          BY <1>10, <3>2, <4>1, <4>2
      <3>3. CASE <<s, d>> # <<p, r>> /\ <<s, d>> # <<r, p>>
        <4>1. chan'[s, d] = chan[s, d]
          BY <1>7, <1>8, <3>3
        <4> QED
          BY <4>1
      <3> QED
        BY <3>1, <3>2, <3>3
    <2> QED
      BY <1>1, <2>1, MessagesStay
  <1>13. TypeOK'
    BY <1>1, <1>11, PcType DEF TypeOK, SendLength, treeVars
  <1>14. Tree(r)'
    BY <1>1, <1>2, <1>3 DEF Tree, Waiting, Final, Source, Parent
  <1>15. ASSUME NEW k \in Objects(r) PROVE Table(r, objs[r][k])'
    BY <1>1, <1>2, <1>3 DEF Tables, Table, Leads, Up, Collecting, Waiting, Final
  <1> QED
    BY <1>1, <1>2, <1>12, <1>13, <1>14, <1>15, QuietStep DEF SendLength, treeVars

LEMMA SendNamesStep ==
    ASSUME IInv, NEW r \in Ranks, SendNames(r)
    PROVE  Stays(r)'
  <1>1. TypeOK /\ Tree(r) /\ Tables(r) /\ OwnNames(r) /\ Frozen
    BY FrozenStep DEF IInv, RankInv, UnifyStep
  <1>2. pc[r] = "send" /\ pc'[r] = "map"
    BY <1>1, PcType DEF SendNames
  <1>3. UNCHANGED <<objs, merged, mask, child>>
    BY DEF SendNames
  <1>4. PICK p \in Ranks : p = Parent(r)
    BY <1>1, <1>2 DEF Tree, Waiting
  <1>5. PICK m \in Message : /\ m = Msg("names", Up(r))
                             /\ m.kind = "names" /\ m.body = Up(r)
    <2>1. Up(r) \in Seq(Names)
      BY <1>1, <1>2, UpType DEF OwnNames
    <2> QED
      BY <2>1, MessageTypes
  <1>6. Put(r, p, m)
    <2>1. Send(r, Parent(r), "names", Up(r))
      BY DEF SendNames
    <2>2. Send(r, p, "names", Up(r))
      BY <1>4, <2>1
    <2> QED
      BY <1>5, <2>2 DEF Send, Put
  <1>7. Messages' /\ chan' \in [Ranks \X Ranks -> Seq(Message)]
    <2>1. Up(r)' = Up(r)
      BY <1>3 DEF Up
    <2>2. Carries(r, p, m)'
      BY <1>2, <1>5, <2>1 DEF Carries, SentUp
    <2> QED
      BY <1>1, <1>6, <2>2, PutMessage
  <1>8. numStrings' \in [Ranks -> Nat]
    <2>1. Len(merged[r]) \in Nat /\ Len(db[lister[r]][r]) \in Nat
      <3>1. merged[r] \in Seq(Names) /\ db[lister[r]][r] \in Seq(Entries)
        BY <1>1 DEF TypeOK
      <3> QED
        BY <3>1, LenProperties
    <2>2. \E n \in Nat : numStrings' = [numStrings EXCEPT ![r] = n]
      BY <2>1 DEF SendNames
    <2> QED
      BY <1>1, <2>2 DEF TypeOK
  <1>9. TypeOK'
    BY <1>1, <1>7, <1>8, PcType DEF TypeOK, SendNames
  <1>10. Tree(r)'
    BY <1>1, <1>2, <1>3 DEF Tree, Waiting, Final, Source, Parent
  <1>11. ASSUME NEW k \in Objects(r) PROVE Table(r, objs[r][k])'
    BY <1>1, <1>2, <1>3 DEF Tables, Table, Leads, Up, Collecting, Waiting, Final
  <1> QED
    BY <1>1, <1>2, <1>7, <1>9, <1>10, <1>11, QuietStep DEF SendNames

LEMMA ReceiveMapStep ==
    ASSUME IInv, NEW r \in Ranks, ReceiveMap(r)
    PROVE  Stays(r)'
  <1>1. /\ TypeOK /\ Tree(r) /\ Tables(r) /\ OwnNames(r) /\ Children(r)
        /\ Messages /\ Frozen
    BY FrozenStep DEF IInv, RankInv, UnifyStep
  <1>2. pc[r] = "map" /\ pc'[r] = "down"
    BY <1>1, PcType DEF ReceiveMap
  <1>3. UNCHANGED <<lister, db, sortMap, merged, mask, child, unifier, bcast>>
    BY DEF ReceiveMap
  <1>4. Len(objs[r]) \in Nat /\ Len(objs[r]) >= 1 /\ Len(Up(r)) \in Nat
    BY <1>1, <1>2, ObjectTypes, UpType DEF OwnNames
  <1>5. PICK p \in Ranks : p = Parent(r)
    BY <1>1, <1>2 DEF Tree, Waiting
  <1>6. Arrived(r, p, "map") /\ Receive(r, p)
    BY <1>5 DEF ReceiveMap
  <1>7. PICK table \in Seq(Nat) :
            /\ table = Body(r, p) /\ pc[0] \in Final /\ Len(table) = Len(Up(r))
            /\ \A j \in 1 .. Len(table) : /\ table[j] \in 1 .. Len(merged[0])
                                          /\ merged[0][table[j]] = Up(r)[j]
    <2>1. /\ Head(chan[p, r]) \in Message /\ Head(chan[p, r]).kind = "map"
          /\ Carries(p, r, Head(chan[p, r]))
      BY <1>1, <1>6, FirstMessage
    <2>2. Head(chan[p, r]).body \in Seq(Nat)
      BY <2>1, BodyTypes
    <2> QED
      BY <2>1, <2>2 DEF Body, Carries
  <1>8. ASSUME NEW k \in Objects(r)
        PROVE  /\ objs'[r][k] \in Object
               /\ objs'[r][k].strings = objs[r][k].strings
               /\ objs'[r][k].rank = objs[r][k].rank
               /\ Shape(objs'[r][k])
               /\ \A j \in 1 .. Len(objs[r][k].strings) :
                      /\ objs'[r][k].mapping[j] \in 1 .. Len(merged[0])
                      /\ merged[0][objs'[r][k].mapping[j]] = objs[r][k].strings[j]
    <2>1. PICK o \in Object : /\ o = objs[r][k] /\ Shape(o)
                              /\ Leads(o, Len(o.strings), Up(r))
      BY <1>1, <1>2, ObjectTypes DEF Tables, Table, Waiting
    <2>2. /\ o.mapping \in Seq(Nat) /\ o.strings \in Seq(Names) /\ o.idx \in Nat
          /\ Len(o.strings) \in Nat /\ Len(o.mapping) = Len(o.strings)
          /\ o.rank \in {-1} \cup Ranks
      BY <2>1, LenProperties DEF Object, Shape
    <2>3. objs'[r][k] = Mapped(o, table)
      BY <1>1, <1>4, <1>5, <1>7, <2>1, MappedProperties
    <2> DEFINE mapping == [j \in 1 .. Len(o.mapping) |-> table[o.mapping[j]]]
               w == Mapped(o, table)
    <2>4. ASSUME NEW j \in 1 .. Len(o.strings)
          PROVE  /\ mapping[j] \in 1 .. Len(merged[0])
                 /\ merged[0][mapping[j]] = o.strings[j]
      <3>1. o.mapping[j] \in 1 .. Len(Up(r)) /\ Up(r)[o.mapping[j]] = o.strings[j]
        BY <2>1 DEF Leads
      <3>2. mapping[j] = table[o.mapping[j]]
        BY <2>2
      <3> QED
        BY <1>7, <3>1, <3>2
    <2>5. mapping \in Seq(Nat) /\ Len(mapping) = Len(o.strings)
      <3>1. Len(merged[0]) \in Nat
        BY <1>1, ObjectTypes, RankFacts
      <3>2. mapping \in [1 .. Len(o.strings) -> Nat]
        <4>1. ASSUME NEW j \in 1 .. Len(o.mapping)
              PROVE  table[o.mapping[j]] \in Nat
          <5>1. mapping[j] \in 1 .. Len(merged[0])
            BY <2>2, <2>4
          <5>2. mapping[j] = table[o.mapping[j]]
            OBVIOUS
          <5> QED
            BY <3>1, <5>1, <5>2
        <4> QED
          BY <2>2, <4>1
      <3> HIDE DEF mapping
      <3> QED
        BY <2>2, <3>2, FunctionIsSeq
    <2> HIDE DEF mapping
    <2>6. w = [rank |-> o.rank, strings |-> o.strings, mapping |-> mapping,
               idx |-> o.idx]
      <3>1. w = [o EXCEPT !.mapping = mapping]
        BY DEF Mapped, mapping
      <3> HIDE DEF w
      <3> QED
        BY <3>1 DEF Object
    <2>7. /\ w \in Object /\ w.strings = o.strings /\ w.rank = o.rank
          /\ w.mapping = mapping /\ w.idx = o.idx
      BY <2>2, <2>5, <2>6 DEF Object
    <2>8. Shape(w)
      BY <2>1, <2>5, <2>7 DEF Shape
    <2> QED
      BY <2>1, <2>3, <2>4, <2>7, <2>8
  <1>9. /\ objs' \in [Ranks -> Seq(Object)] /\ Len(objs'[r]) = Len(objs[r])
    <2>1. Len(objs'[r]) = Len(objs[r])
      BY <1>1, <1>4, MappedProperties
    <2> DEFINE new == [k \in 1 .. Len(objs[r]) |->
                          Mapped(objs[r][k], Body(r, Parent(r)))]
    <2>2. objs' = [objs EXCEPT ![r] = new]
      BY DEF ReceiveMap
    <2>3. objs'[r] = new
      BY <1>1, <2>2 DEF TypeOK
    <2>4. \A k \in 1 .. Len(objs[r]) : new[k] \in Object
      BY <1>8, <2>3 DEF Objects
    <2>5. new \in [1 .. Len(objs[r]) -> Object]
      BY <2>4
    <2> HIDE DEF new
    <2>6. new \in Seq(Object)
      BY <1>4, <2>5, FunctionIsSeq
    <2> QED
      BY <1>1, <2>1, <2>2, <2>6 DEF TypeOK
  <1>10. Messages' /\ chan' \in [Ranks \X Ranks -> Seq(Message)]
    BY <1>1, <1>6, TakeMessage DEF Arrived
  <1>11. TypeOK'
    BY <1>1, <1>9, <1>10, PcType DEF TypeOK, ReceiveMap
  <1>12. OwnNames(r)'
    <2>1. objs'[r][1].strings = objs[r][1].strings
      BY <1>4, <1>8 DEF Objects
    <2> QED
      BY <1>1, <1>2, <1>3, <1>4, <1>9, <2>1 DEF OwnNames
  <1>13. Tables(r)'
    <2> SUFFICES ASSUME NEW k \in Objects(r)
                 PROVE  Shape(objs[r][k])' /\ Table(r, objs[r][k])'
      BY <1>9 DEF Tables, Objects
    <2>1. Shape(objs[r][k])'
      BY <1>8 DEF Shape
    <2>2. Leads(objs[r][k], Len(objs[r][k].strings), merged[0])'
      BY <1>3, <1>8 DEF Leads
    <2> QED
      BY <1>2, <2>1, <2>2 DEF Table, Collecting, Waiting, Final
  <1>14. Tree(r)'
    <2>1. pc'[0] \in Final
      BY <1>1, <1>7 DEF Frozen
    <2> QED
      BY <1>1, <1>2, <1>3, <2>1 DEF Tree, Waiting, Final
  <1>15. Children(r)'
    <2>1. ASSUME NEW k \in 2 .. Len(objs'[r])
          PROVE  \E q \in Ranks : /\ q = objs'[r][k].rank /\ pc'[q] \in SentUp
                                  /\ objs'[r][k].strings = Up(q)'
      <3>1. k \in Objects(r) /\ k \in 2 .. Len(objs[r])
        BY <1>4, <1>9 DEF Objects
      <3>2. PICK q \in Ranks : /\ q = objs[r][k].rank /\ pc[q] \in SentUp
                               /\ objs[r][k].strings = Up(q)
        BY <1>1, <3>1 DEF Children
      <3>3. pc'[q] \in SentUp /\ Up(q)' = Up(q)
        BY <1>1, <3>2 DEF Frozen
      <3> QED
        BY <1>8, <3>1, <3>2, <3>3
    <2> QED
      BY <2>1 DEF Children, Up
  <1>16. Result(r)' /\ (bcast'["functions"] # -1 => pc'[0] = "done")
    BY <1>1, <1>2, <1>3, ResultStays
  <1> QED
    BY <1>10, <1>11, <1>12, <1>13, <1>14, <1>15, <1>16 DEF Stays, RankInv

LEMMA SendMapStep ==
    ASSUME IInv, NEW r \in Ranks, SendMap(r)
    PROVE  Stays(r)'
  <1>1. TypeOK /\ Tree(r) /\ Tables(r) /\ Children(r) /\ Frozen
    BY FrozenStep DEF IInv, RankInv, UnifyStep
  <1>2. pc[r] = "down" /\ pc' = pc
    BY DEF SendMap
  <1>3. UNCHANGED <<objs, merged, mask>>
    BY DEF SendMap
  <1>4. /\ child[r] \in 2 .. Len(objs[r]) /\ child[r] \in Objects(r)
        /\ child[r] \in Nat
    BY <1>1, ObjectTypes DEF SendMap, Tree, Objects
  <1>5. PICK o \in Object :
            /\ o = objs[r][child[r]] /\ Shape(o)
            /\ Leads(o, Len(o.strings), merged[0])
            /\ o.rank \in Ranks /\ pc[o.rank] \in SentUp /\ o.strings = Up(o.rank)
    <2>1. objs[r][child[r]] \in Object
      BY <1>1, <1>4, ObjectTypes
    <2>2. /\ Shape(objs[r][child[r]])
          /\ Leads(objs[r][child[r]], Len(objs[r][child[r]].strings), merged[0])
      BY <1>1, <1>2, <1>4 DEF Tables, Table, Final
    <2> QED
      BY <1>1, <1>4, <2>1, <2>2 DEF Children
  <1>6. PICK d \in Ranks : d = o.rank
    BY <1>5
  <1>7. PICK m \in Message : /\ m = Msg("map", o.mapping)
                             /\ m.kind = "map" /\ m.body = o.mapping
    <2>1. o.mapping \in Seq(Nat)
      BY DEF Object
    <2> QED
      BY <2>1, MessageTypes
  <1>8. Put(r, d, m)
    <2>1. Send(r, objs[r][child[r]].rank, "map", objs[r][child[r]].mapping)
      BY DEF SendMap
    <2>2. Send(r, d, "map", o.mapping)
      BY <1>5, <1>6, <2>1
    <2> QED
      BY <1>7, <2>2 DEF Send, Put
  <1>9. Messages' /\ chan' \in [Ranks \X Ranks -> Seq(Message)]
    <2>1. pc[0] \in Final /\ pc[d] \in SentUp /\ o.strings = Up(d)
      BY <1>1, <1>2, <1>5, <1>6 DEF Tree, Final
    <2>2. /\ Len(o.mapping) = Len(Up(d))
          /\ \A j \in 1 .. Len(o.mapping) :
                 /\ o.mapping[j] \in 1 .. Len(merged[0])
                 /\ merged[0][o.mapping[j]] = Up(d)[j]
      BY <1>5, <2>1 DEF Shape, Leads
    <2>3. Carries(r, d, m)
      BY <1>7, <2>1, <2>2 DEF Carries
    <2>4. Carries(r, d, m)'
      BY <1>1, <2>3, CarriesStays
    <2> QED
      BY <1>1, <1>8, <2>4, PutMessage
  <1>10. child' \in [Ranks -> Nat] /\ child'[r] = child[r] + 1
    <2>1. child' = [child EXCEPT ![r] = child[r] + 1]
      BY DEF SendMap
    <2>2. child[r] + 1 \in Nat
      BY <1>4
    <2> QED
      BY <1>1, <2>1, <2>2 DEF TypeOK
  <1>11. TypeOK'
    BY <1>1, <1>9, <1>10 DEF TypeOK, SendMap
  <1>12. Tree(r)'
    BY <1>1, <1>2, <1>3, <1>4, <1>10 DEF Tree, Waiting, Final, Source, Parent
  <1>13. ASSUME NEW k \in Objects(r) PROVE Table(r, objs[r][k])'
    BY <1>1, <1>2, <1>3 DEF Tables, Table, Leads, Up, Collecting, Waiting, Final
  <1> QED
    BY <1>1, <1>2, <1>9, <1>11, <1>12, <1>13, QuietStep DEF SendMap

LEMMA ReturnStep ==
    ASSUME IInv, NEW r \in Ranks, Return(r)
    PROVE  Stays(r)'
  <1>1. /\ TypeOK /\ Tree(r) /\ Tables(r) /\ OwnNames(r) /\ Children(r)
        /\ Result(r) /\ Frozen /\ lister[r] = "functions"
    BY FrozenStep DEF IInv, RankInv, OwnNames, UnifyStep
  <1>2. pc[r] = "down" /\ pc'[r] = "done"
    BY <1>1, PcType DEF Return
  <1>3. UNCHANGED <<lister, db, sortMap, objs, merged, mask, child, chan>>
    BY DEF Return, treeVars
  <1>4. pc'[0] = "done"
    <2>1. CASE r = 0
      BY <1>2, <2>1
    <2>2. CASE r # 0
      <3>1. pc[0] = "done"
        BY <1>1, <2>2 DEF Return, IInv
      <3> QED
        BY <1>1, <3>1 DEF Frozen
    <2> QED
      BY <2>1, <2>2
  <1> DEFINE n == IF r = 0 THEN Len(merged[r]) ELSE bcast["functions"]
  <1>5. n \in Nat
    <2>1. Len(merged[r]) \in Nat /\ bcast["functions"] \in Nat \cup {-1}
      BY <1>1, ObjectTypes DEF TypeOK, Listers
    <2> QED
      BY <1>1, <2>1 DEF Return
  <1>6. /\ bcast' = [bcast EXCEPT !["functions"] = n]
        /\ unifier' = [unifier EXCEPT ![r] =
               [unifier[r] EXCEPT !["functions"] = Unified(r, n)]]
    BY <1>1 DEF Return
  <1> HIDE DEF n
  <1>7. /\ objs[r][1] \in Object /\ 1 \in Objects(r)
        /\ Len(objs[r][1].strings) \in Nat /\ objs[r][1].mapping \in Seq(Nat)
        /\ sortMap[r] \in Seq(Nat) /\ merged[r] \in Seq(Names)
    <2>1. 1 \in Objects(r)
      BY <1>1, <1>2, ObjectTypes DEF OwnNames, Objects
    <2> QED
      BY <1>1, <2>1, ObjectTypes
  <1>8. /\ Unified(r, n) \in Unifier
        /\ Unified(r, n).localNumItems = Len(objs[r][1].strings)
        /\ Unified(r, n).sortMap = sortMap[r]
        /\ Unified(r, n).mapping = objs[r][1].mapping
        /\ r = 0 => Unified(r, n).globalStrings = merged[0]
    <2>1. PICK strings \in Seq(Names) :
              strings = IF r = 0 THEN merged[r] ELSE <<>>
      <3>1. CASE r = 0
        BY <1>7, <3>1
      <3>2. CASE r # 0
        BY <3>2, EmptySeq
      <3> QED
        BY <3>1, <3>2
    <2>2. Unified(r, n) = [globalNumItems |-> n,
                           localNumItems |-> Len(objs[r][1].strings),
                           sortMap |-> sortMap[r],
                           mapping |-> objs[r][1].mapping,
                           globalStrings |-> strings]
      BY <2>1 DEF Unified
    <2> QED
      BY <1>5, <1>7, <2>1, <2>2 DEF Unifier
  <1>9. /\ unifier' \in [Ranks -> [Listers -> Unifier]]
        /\ unifier'[r]["functions"] = Unified(r, n)
        /\ unifier'[r]["atomics"] = unifier[r]["atomics"]
    <2>1. unifier \in [Ranks -> [Listers -> Unifier]]
      BY <1>1 DEF TypeOK
    <2>2. "functions" \in Listers /\ "atomics" \in Listers
      BY DEF Listers
    <2> HIDE DEF Unifier
    <2> QED
      BY <1>6, <1>8, <2>1, <2>2
  <1>10. TypeOK'
    <2>1. bcast' \in [Listers -> Nat \cup {-1}]
      BY <1>1, <1>5, <1>6 DEF TypeOK
    <2> QED
      BY <1>1, <1>9, <2>1, PcType DEF TypeOK, Return, treeVars
  <1>11. OwnNames(r)'
    BY <1>1, <1>2, <1>3 DEF OwnNames
  <1>12. Tables(r)'
    BY <1>1, <1>2, <1>3 DEF Tables, Table, Shape, Leads, Up, Objects,
                            Collecting, Waiting, Final
  <1>13. Tree(r)'
    BY <1>1, <1>2, <1>3, <1>4 DEF Tree, Waiting, Final
  <1>14. Children(r)'
    BY <1>1, <1>3 DEF Children, Frozen
  <1>15. Result(r)'
    BY <1>1, <1>2, <1>3, <1>4, <1>8, <1>9 DEF Result
  <1>16. Messages'
    BY <1>1, <1>3, SameMessages
  <1> QED
    BY <1>4, <1>10, <1>11, <1>12, <1>13, <1>14, <1>15, <1>16 DEF Stays, RankInv

-----------------------------------------------------------------------------
(* All steps.                                                              *)

LEMMA UnifyStepStays ==
    ASSUME IInv, NEW r \in Ranks, UnifyStep(r)
    PROVE  Stays(r)'
  BY StartStep, FillBufferStep, FillBufferCrashStep, SkipChildStep, AskChildStep, ReceiveLengthStep,
     ReceiveNamesStep, EndTreeStep, MergeNextStep, MergeEndStep,
     SendLengthStep, SendNamesStep, ReceiveMapStep, SendMapStep, ReturnStep
     DEF UnifyStep

\* Another thread adds to the database: what was read of it is still there.
LEMMA RegisterStays ==
    ASSUME IInv, NEW r \in Ranks, Register(r)
    PROVE  IInv'
  <1>1. /\ TypeOK /\ Messages /\ (bcast["functions"] # -1 => pc[0] = "done")
        /\ \A q \in Ranks : RankInv(q)
    BY DEF IInv
  <1>2. UNCHANGED <<eager, lister, pc, mask, sortMap, objs, merged, numStrings,
                    child, chan, bcast, unifier, wild>>
    BY DEF Register, treeVars
  <1>3. lister[r] = "functions" /\ "functions" \in Listers
    BY <1>1 DEF RankInv, OwnNames, Listers
  <1>4. PICK e \in Entries : db' = [db EXCEPT !["functions"] =
            [db["functions"] EXCEPT ![r] = Append(db["functions"][r], e)]]
    <2>1. NewEntries \subseteq Entries
      BY UnifyAssumption
    <2> QED
      BY <1>3, <2>1 DEF Register
  <1>5. /\ db \in [Listers -> [Ranks -> Seq(Entries)]]
        /\ db["functions"][r] \in Seq(Entries)
    BY <1>1, <1>3 DEF TypeOK
  <1>6. /\ Append(db["functions"][r], e) \in Seq(Entries)
        /\ Len(Append(db["functions"][r], e)) = Len(db["functions"][r]) + 1
        /\ Len(db["functions"][r]) \in Nat
        /\ \A i \in 1 .. Len(db["functions"][r]) :
               Append(db["functions"][r], e)[i] = db["functions"][r][i]
    BY <1>5, AppendProperties, LenProperties
  <1>7. db' \in [Listers -> [Ranks -> Seq(Entries)]]
    BY <1>3, <1>4, <1>5, <1>6
  <1>8. ASSUME NEW q \in Ranks, NEW i \in 1 .. Len(db["functions"][q])
        PROVE  /\ i \in 1 .. Len(db'["functions"][q])
               /\ db'["functions"][q][i] = db["functions"][q][i]
    <2>1. CASE q = r
      <3>1. db'["functions"][q] = Append(db["functions"][r], e)
        BY <1>3, <1>4, <1>5, <2>1
      <3> QED
        BY <1>6, <2>1, <3>1
    <2>2. CASE q # r
      <3>1. db'["functions"][q] = db["functions"][q]
        BY <1>3, <1>4, <1>5, <2>2
      <3> QED
        BY <3>1
    <2> QED
      BY <2>1, <2>2
  <1>9. TypeOK'
    BY <1>1, <1>2, <1>7 DEF TypeOK
  <1>10. ASSUME NEW q \in Ranks PROVE RankInv(q)'
    <2>1. RankInv(q)
      BY <1>1
    <2>2. OwnNames(q)'
      <3>1. OwnNames(q) /\ UNCHANGED <<lister, pc, sortMap, objs>>
        BY <1>2, <2>1 DEF RankInv
      <3>2. PICK map, own : map = sortMap[q] /\ own = db["functions"][q]
        OBVIOUS
      <3>3. PICK new : new = db'["functions"][q]
        OBVIOUS
      <3>4. \A i \in 1 .. Len(own) : i \in 1 .. Len(new) /\ new[i] = own[i]
        BY <1>8, <3>2, <3>3
      <3>5. ASSUME pc[q] = "buffer", NEW i \in 1 .. Len(map), NEW j \in 1 .. Len(map)
            PROVE  map[i] \in 1 .. Len(new)
                   /\ (i < j => new[map[i]].name <= new[map[j]].name)
        <4>1. /\ map[i] \in 1 .. Len(own) /\ map[j] \in 1 .. Len(own)
              /\ i < j => own[map[i]].name <= own[map[j]].name
          BY <3>1, <3>2, <3>5 DEF OwnNames
        <4> QED
          BY <3>4, <4>1
      <3>6. ASSUME pc[q] \notin {"start", "buffer"}
            PROVE  /\ Len(objs[q]) >= 1
                   /\ Len(map) = Len(objs[q][1].strings)
                   /\ \A i \in 1 .. Len(map) :
                       /\ map[i] \in 1 .. Len(new)
                       /\ new[map[i]].name = objs[q][1].strings[i]
        <4>1. /\ Len(objs[q]) >= 1
              /\ Len(map) = Len(objs[q][1].strings)
              /\ \A i \in 1 .. Len(map) :
                  /\ map[i] \in 1 .. Len(own)
                  /\ own[map[i]].name = objs[q][1].strings[i]
          BY <3>1, <3>2, <3>6 DEF OwnNames
        <4> QED
          BY <3>4, <4>1
      <3> QED
        BY <3>1, <3>2, <3>3, <3>5, <3>6 DEF OwnNames
    <2>3. Tables(q)'
      BY <1>2, <2>1, TablesStay DEF RankInv
    <2>4. Tree(q)' /\ Children(q)' /\ Result(q)'
      BY <1>2, <2>1 DEF RankInv, Tree, Children, Result, Source, Parent, Up
    <2> QED
      BY <2>2, <2>3, <2>4 DEF RankInv
  <1>11. Messages'
    <2>1. Frozen
      BY <1>2 DEF Frozen, Up
    <2> QED
      BY <1>2, <2>1, SameMessages
  <1> QED
    BY <1>1, <1>2, <1>9, <1>10, <1>11 DEF IInv

LEMMA InductiveNext == IInv /\ [Next]_vars => IInv'
  <1> SUFFICES ASSUME IInv, [Next]_vars PROVE IInv'
    OBVIOUS
  <1>1. ASSUME NEW r \in Ranks, UnifyStep(r) PROVE IInv'
    <2>1. Stays(r)'
      BY <1>1, UnifyStepStays
    <2>2. \A q \in Ranks : q # r => RankInv(q)'
      BY <1>1, OthersStay
    <2> QED
      BY <2>1, <2>2 DEF IInv, Stays
  <1>2. ASSUME NEW r \in Ranks, Register(r) PROVE IInv'
    BY <1>2, RegisterStays
  <1>3. CASE UNCHANGED vars
    <2>1. UNCHANGED <<db, eager, lister, pc, mask, sortMap, objs, merged,
                      numStrings, child, chan, bcast, unifier, wild>>
      BY <1>3 DEF vars, treeVars
    <2>2. TypeOK'
      BY <2>1 DEF IInv, TypeOK
    <2>3. Messages'
      <3>1. Frozen
        BY <2>1 DEF Frozen, Up
      <3> QED
        BY <2>1, <3>1, SameMessages
    <2>4. ASSUME NEW q \in Ranks PROVE RankInv(q)'
      <3>1. RankInv(q)
        BY DEF IInv
      <3>2. OwnNames(q)'
        BY <2>1, <3>1 DEF RankInv, OwnNames
      <3>3. Tables(q)'
        BY <2>1, <3>1, TablesStay DEF RankInv
      <3>4. Tree(q)' /\ Children(q)' /\ Result(q)'
        BY <2>1, <3>1 DEF RankInv, Tree, Children, Result, Source, Parent, Up
      <3> QED
        BY <3>2, <3>3, <3>4 DEF RankInv
    <2> QED
      BY <2>1, <2>2, <2>3, <2>4 DEF IInv
  <1> QED
    BY <1>1, <1>2, <1>3 DEF Next

LEMMA InductiveInit == Init => IInv
  <1> SUFFICES ASSUME Init PROVE IInv
    OBVIOUS
  <1>1. \A r \in Ranks : pc[r] = "start" /\ objs[r] = <<>> /\ Len(objs[r]) = 0
    BY DEF Init
  <1>2. \A s, d \in Ranks : chan[s, d] = <<>> /\ Len(chan[s, d]) = 0
    BY DEF Init
  <1>3. TypeOK
    <2>1. NoUnifier \in Unifier
      BY EmptySeq DEF NoUnifier, Unifier
    <2>2. db \in [Listers -> [Ranks -> Seq(Entries)]]
      BY UnifyAssumption DEF Init
    <2>3. unifier \in [Ranks -> [Listers -> Unifier]]
      BY <2>1 DEF Init
    <2>4. /\ sortMap \in [Ranks -> Seq(Nat)] /\ objs \in [Ranks -> Seq(Object)]
          /\ merged \in [Ranks -> Seq(Names)]
          /\ chan \in [Ranks \X Ranks -> Seq(Message)]
      BY EmptySeq DEF Init
    <2>5. /\ eager \in BOOLEAN /\ lister \in [Ranks -> Listers]
          /\ mask \in [Ranks -> Nat] /\ numStrings \in [Ranks -> Nat]
          /\ child \in [Ranks -> Nat] /\ bcast \in [Listers -> Nat \cup {-1}]
          /\ pc \in [Ranks -> {"start", "buffer", "tree", "len", "names", "merge", "ok",
                               "send", "map", "down", "done"}]
      BY DEF Init, Listers
    <2>6. wild \in SUBSET (Listers \X Ranks)
      BY DEF Init
    <2> QED
      BY <2>2, <2>3, <2>4, <2>5, <2>6 DEF TypeOK
  <1>4. ASSUME NEW r \in Ranks PROVE RankInv(r)
    <2>1. OwnNames(r)
      BY <1>1 DEF OwnNames, Init
    <2>2. Tables(r) /\ Children(r)
      BY <1>1 DEF Tables, Children, Objects
    <2>3. Tree(r)
      BY <1>1 DEF Tree, Init, Waiting, Final
    <2>4. Result(r)
      BY <1>1 DEF Result, Init, Listers
    <2> QED
      BY <2>1, <2>2, <2>3, <2>4 DEF RankInv
  <1>5. Messages
    <2>1. ASSUME NEW s \in Ranks, NEW d \in Ranks
          PROVE  1 .. Len(chan[s, d]) = {}
      <3>1. Len(chan[s, d]) = 0
        BY <1>2
      <3>2. 1 .. 0 = {}
        OBVIOUS
      <3> QED
        BY <3>1, <3>2
    <2> QED
      BY <2>1 DEF Messages
  <1>6. bcast["functions"] = -1
    BY DEF Init, Listers
  <1> QED
    BY <1>3, <1>4, <1>5, <1>6 DEF IInv

\* Types, of one call of Tau_unify_unifyEvents_MPI.
THEOREM TypeCorrect == Spec => []TypeOK
  <1>1. IInv => TypeOK
    BY DEF IInv
  <1> QED
    BY <1>1, InductiveInit, InductiveNext, PTL DEF Spec

\* The id that Tau_unify_unifyEvents_MPI gives a rank for an event is, on rank
\* 0, that of its name, whatever the number of ranks and their events, and
\* whatever other threads register meanwhile: unless the rank itself has read its
\* sort map behind the end, because an event was registered between the two times
\* that it looked at the size of its database.
THEOREM IdsKeepNames == Spec => []NamesKept
  <1>1. IInv => NamesKept
    <2> SUFFICES ASSUME IInv, NEW r \in Ranks, NEW l \in Listers,
                        NEW i \in 1 .. unifier[r][l].localNumItems
                 PROVE  /\ unifier[r][l].mapping[i]
                           \in 1 .. Len(unifier[0][l].globalStrings)
                        /\ unifier[0][l].globalStrings[unifier[r][l].mapping[i]]
                           = db[l][r][unifier[r][l].sortMap[i]].name
      BY DEF NamesKept
    <2>1. 0 \in Ranks /\ RankInv(r) /\ RankInv(0) /\ TypeOK
      BY RankFacts DEF IInv
    <2>2. unifier[r][l] # NoUnifier
      BY DEF NoUnifier
    <2>3. l = "functions" /\ pc[r] = "done" /\ pc[0] = "done"
      BY <2>1, <2>2 DEF RankInv, Result, Listers
    <2>4. /\ unifier[0][l].globalStrings = merged[0]
          /\ unifier[r][l].localNumItems = Len(objs[r][1].strings)
          /\ unifier[r][l].sortMap = sortMap[r]
          /\ unifier[r][l].mapping = objs[r][1].mapping
      BY <2>1, <2>3 DEF RankInv, Result
    <2>5. Leads(objs[r][1], Len(objs[r][1].strings), merged[0])
      <3>1. 1 \in Objects(r)
        BY <2>1, <2>3, ObjectTypes DEF RankInv, OwnNames, Objects
      <3> QED
        BY <2>1, <2>3, <3>1 DEF RankInv, Tables, Table, Final
    <2>6. db[l][r][sortMap[r][i]].name = objs[r][1].strings[i]
      BY <2>1, <2>3, <2>4 DEF RankInv, OwnNames
    <2> QED
      BY <2>4, <2>5, <2>6 DEF Leads
  <1> QED
    BY <1>1, InductiveInit, InductiveNext, PTL DEF Spec

-----------------------------------------------------------------------------
(***************************************************************************)
(* The global list is the union of the lists.  On the way up every list is *)
(* sorted and has each name as often as the rank below that has it most    *)
(* often; on the way down every table rises, so that it leads different    *)
(* positions to different ones.                                            *)
(***************************************************************************)
Rises(table, upto) ==
    \A i, j \in 1 .. upto : i < j => table[i] < table[j]

Ordered(list) == \A i, j \in 1 .. Len(list) : i < j => list[i] <= list[j]

\* The table of o, up to a position, leads to every n of a list.
Covers(o, upto, list, n) ==
    \A p \in 1 .. Len(list) :
        list[p] = n => \E j \in 1 .. upto : o.mapping[j] = p

\* Some rank has each name as often as it is in a list.
MostOften(list) ==
    \A n \in Names : \E q \in Ranks :
        /\ pc[q] \notin {"start", "buffer"}
        /\ Occurrences(objs[q][1].strings, n) = Occurrences(list, n)

Union(list) == Ordered(list) /\ MostOften(list)

Later == Waiting \cup Final

Rising(r, o) ==
    /\ Ordered(o.strings)
    /\ pc[r] = "merge" => Rises(o.mapping, o.idx - 1)
    /\ pc[r] \in Later => Rises(o.mapping, Len(o.strings))

\* What has been merged is not above what is left, and a list that has more of
\* a name has had all of that name that is merged.
Merging(r) ==
    pc[r] = "merge" =>
        /\ Ordered(merged[r])
        /\ \A k \in LiveObjs(r) :
            /\ \A p \in 1 .. Len(merged[r]) : merged[r][p] <= Current(objs[r][k])
            /\ Covers(objs[r][k], objs[r][k].idx - 1, merged[r],
                      Current(objs[r][k]))
        /\ \A n \in Names : \E k \in Objects(r) :
            Covers(objs[r][k], objs[r][k].idx - 1, merged[r], n)

RankUnion(r) ==
    /\ \A k \in Objects(r) : Rising(r, objs[r][k])
    /\ pc[r] \in Collecting => merged[r] = <<>>
    /\ Merging(r)
    /\ pc[r] \in Later => Union(Up(r))
    /\ pc[r] = "done" =>
           unifier[r]["functions"].globalNumItems = Len(merged[0])

TablesRise ==
    \A s, d \in Ranks : \A i \in 1 .. Len(chan[s, d]) :
        chan[s, d][i].kind = "map" =>
            Rises(chan[s, d][i].body, Len(chan[s, d][i].body))

UnionInv ==
    /\ \A r \in Ranks : RankUnion(r)
    /\ pc[0] \in Final => Union(merged[0])
    /\ TablesRise
    /\ bcast["functions"] \in {-1, Len(merged[0])}

-----------------------------------------------------------------------------
(* Counting.                                                               *)

LEMMA PlacesFinite ==
    ASSUME NEW list \in Seq(Names), NEW n
    PROVE  /\ IsFiniteSet({i \in DOMAIN list : list[i] = n})
           /\ Occurrences(list, n) \in Nat
           /\ {i \in DOMAIN list : list[i] = n}
              = {i \in 1 .. Len(list) : list[i] = n}
  <1>1. Len(list) \in Nat /\ DOMAIN list = 1 .. Len(list)
    BY LenProperties
  <1>2. IsFiniteSet(1 .. Len(list))
    BY <1>1, FS_Interval
  <1>3. {i \in DOMAIN list : list[i] = n} \in SUBSET (1 .. Len(list))
    BY <1>1
  <1>4. IsFiniteSet({i \in DOMAIN list : list[i] = n})
    BY <1>2, <1>3, FS_Subset
  <1>5. Cardinality({i \in DOMAIN list : list[i] = n}) \in Nat
    BY <1>4, FS_CardinalityType
  <1> QED
    BY <1>1, <1>4, <1>5 DEF Occurrences

\* A table that rises leads to each name at least as often as it has it.
LEMMA NotMore ==
    ASSUME NEW o \in Object, NEW list \in Seq(Names), NEW n,
           Leads(o, Len(o.strings), list), Rises(o.mapping, Len(o.strings))
    PROVE  Occurrences(o.strings, n) <= Occurrences(list, n)
  <1>1. /\ o.strings \in Seq(Names) /\ o.mapping \in Seq(Nat)
        /\ Len(o.strings) \in Nat
    BY LenProperties DEF Object
  <1> DEFINE S == {i \in DOMAIN o.strings : o.strings[i] = n}
             T == {i \in DOMAIN list : list[i] = n}
             f == [i \in S |-> o.mapping[i]]
  <1>2. S = {i \in 1 .. Len(o.strings) : o.strings[i] = n}
        /\ T = {i \in 1 .. Len(list) : list[i] = n} /\ IsFiniteSet(T)
    BY <1>1, PlacesFinite
  <1>3. \A i \in S : /\ i \in 1 .. Len(o.strings) /\ o.mapping[i] \in T
    BY <1>2 DEF Leads
  <1>4. \A i, j \in S : o.mapping[i] = o.mapping[j] => i = j
    <2> SUFFICES ASSUME NEW i \in S, NEW j \in S, o.mapping[i] = o.mapping[j]
                 PROVE  i = j
      OBVIOUS
    <2>1. /\ i \in 1 .. Len(o.strings) /\ j \in 1 .. Len(o.strings)
          /\ o.mapping[i] \in 1 .. Len(list)
      BY <1>2, <1>3
    <2>2. PICK x \in Nat : x = o.mapping[i] /\ x = o.mapping[j]
      BY <2>1
    <2>3. /\ i < j => x < x
          /\ j < i => x < x
      BY <2>1, <2>2 DEF Rises
    <2> HIDE DEF S
    <2> QED
      BY <1>1, <2>1, <2>2, <2>3
  <1>5. f \in Injection(S, T)
    BY <1>3, <1>4 DEF Injection, IsInjective
  <1>6. Cardinality(S) <= Cardinality(T)
    <2> HIDE DEF S, T, f
    <2> QED
      BY <1>2, <1>5, FS_Injection
  <1> QED
    BY <1>6 DEF Occurrences

\* One that leads to every n has n at least as often.
LEMMA NotLess ==
    ASSUME NEW o \in Object, NEW list \in Seq(Names), NEW n,
           Leads(o, Len(o.strings), list), Covers(o, Len(o.strings), list, n)
    PROVE  Occurrences(list, n) <= Occurrences(o.strings, n)
  <1>1. /\ o.strings \in Seq(Names) /\ o.mapping \in Seq(Nat)
        /\ Len(o.strings) \in Nat
    BY LenProperties DEF Object
  <1> DEFINE S == {i \in DOMAIN o.strings : o.strings[i] = n}
             T == {i \in DOMAIN list : list[i] = n}
             f == [i \in S |-> o.mapping[i]]
  <1>2. S = {i \in 1 .. Len(o.strings) : o.strings[i] = n} /\ IsFiniteSet(S)
        /\ T = {i \in 1 .. Len(list) : list[i] = n}
    BY <1>1, PlacesFinite
  <1>3. \A i \in S : o.mapping[i] \in T
    BY <1>2 DEF Leads
  <1>4. \A p \in T : \E i \in S : o.mapping[i] = p
    <2> SUFFICES ASSUME NEW p \in T PROVE \E i \in S : o.mapping[i] = p
      OBVIOUS
    <2>1. PICK i \in 1 .. Len(o.strings) : o.mapping[i] = p
      BY <1>2 DEF Covers
    <2>2. o.strings[i] = n
      BY <1>2, <2>1 DEF Leads
    <2> QED
      BY <1>2, <2>1, <2>2
  <1>5. f \in Surjection(S, T)
    BY <1>3, <1>4 DEF Surjection
  <1>6. Cardinality(T) <= Cardinality(S)
    <2> HIDE DEF S, T, f
    <2> QED
      BY <1>2, <1>5, FS_Surjection
  <1> QED
    BY <1>6 DEF Occurrences

LEMMA AsOften ==
    ASSUME NEW o \in Object, NEW list \in Seq(Names), NEW n,
           Leads(o, Len(o.strings), list), Rises(o.mapping, Len(o.strings)),
           Covers(o, Len(o.strings), list, n)
    PROVE  Occurrences(o.strings, n) = Occurrences(list, n)
  <1>1. o.strings \in Seq(Names)
    BY DEF Object
  <1>2. Occurrences(o.strings, n) \in Nat /\ Occurrences(list, n) \in Nat
    BY <1>1, PlacesFinite
  <1>3. Occurrences(o.strings, n) <= Occurrences(list, n)
    BY NotMore
  <1>4. Occurrences(list, n) <= Occurrences(o.strings, n)
    BY NotLess
  <1> QED
    BY <1>2, <1>3, <1>4

-----------------------------------------------------------------------------
(* What becomes of the lists, whatever the step.                           *)

\* The list that a rank began with does not change.
OwnKept ==
    \A q \in Ranks : pc[q] \notin {"start", "buffer"} =>
        pc'[q] \notin {"start", "buffer"} /\ objs'[q][1].strings = objs[q][1].strings

LEMMA AdvancedStrings ==
    ASSUME NEW o \in Object, NEW name, NEW count
    PROVE  Advanced(o, name, count).strings = o.strings
  <1>1. CASE Live(o) /\ Current(o) = name
    <2> DEFINE mapping == [o.mapping EXCEPT ![o.idx] = count]
    <2>1. Advanced(o, name, count)
          = [o EXCEPT !.mapping = mapping, !.idx = o.idx + 1]
      BY <1>1 DEF Advanced
    <2> HIDE DEF mapping
    <2> QED
      BY <2>1 DEF Object
  <1>2. CASE ~(Live(o) /\ Current(o) = name)
    BY <1>2 DEF Advanced
  <1> QED
    BY <1>1, <1>2

LEMMA OwnIsKept ==
    ASSUME IInv, NEW r \in Ranks, UnifyStep(r)
    PROVE  OwnKept
  <1>1. TypeOK /\ RankInv(r)
    BY DEF IInv
  <1>2. \A q \in Ranks : q # r => pc'[q] = pc[q] /\ objs'[q] = objs[q]
    BY <1>1, OthersAlone
  <1>3. pc \in [Ranks -> {"start", "buffer", "tree", "len", "names", "merge", "ok",
                          "send", "map", "down", "done"}]
    BY <1>1 DEF TypeOK
  <1>4. ASSUME pc[r] \notin {"start", "buffer"}
        PROVE  pc'[r] \notin {"start", "buffer"} /\ objs'[r][1].strings = objs[r][1].strings
    <2>1. /\ Len(objs[r]) >= 1 /\ objs[r] \in Seq(Object) /\ 1 \in Objects(r)
          /\ objs[r][1] \in Object /\ Len(objs[r]) \in Nat
      BY <1>1, <1>4, ObjectTypes DEF RankInv, OwnNames, Objects
    <2>2. ~Start(r) /\ ~FillBuffer(r) /\ ~FillBufferCrash(r)
      BY <1>4 DEF Start, FillBuffer, FillBufferCrash
    <2>3. CASE SkipChild(r) \/ AskChild(r) \/ ReceiveLength(r) \/ EndTree(r)
               \/ MergeEnd(r) \/ SendLength(r) \/ Return(r)
      <3>1. objs' = objs
        BY <2>3 DEF SkipChild, AskChild, ReceiveLength, EndTree, MergeEnd,
                    SendLength, Return, treeVars
      <3>2. pc'[r] \notin {"start", "buffer"}
        BY <1>3, <1>4, <2>3 DEF SkipChild, AskChild, ReceiveLength, EndTree,
                    MergeEnd, SendLength, Return, GoTo
      <3> QED
        BY <3>1, <3>2
    <2>4. CASE SendNames(r) \/ SendMap(r)
      BY <1>3, <1>4, <2>4 DEF SendNames, SendMap, GoTo
    <2>5. CASE ReceiveNames(r)
      <3>1. pc'[r] = "tree"
        BY <1>3, <2>5 DEF ReceiveNames, GoTo
      <3>2. PICK o : objs'[r] = Append(objs[r], o)
        BY <1>1, <2>5 DEF ReceiveNames, TypeOK
      <3>3. Append(objs[r], o)[1] = objs[r][1]
        BY <2>1
      <3> QED
        BY <3>1, <3>2, <3>3
    <2>6. CASE MergeNext(r)
      <3>1. pc' = pc
        BY <2>6 DEF MergeNext
      <3>2. PICK i \in LiveObjs(r) :
              objs' = [objs EXCEPT ![r] = [k \in 1 .. Len(objs[r]) |->
                 Advanced(objs[r][k], Current(objs[r][i]), Len(merged[r]) + 1)]]
        BY <2>6 DEF MergeNext
      <3>3. PICK name, count : /\ name = Current(objs[r][i])
                               /\ count = Len(merged[r]) + 1
        OBVIOUS
      <3>4. objs' = [objs EXCEPT ![r] = [k \in 1 .. Len(objs[r]) |->
                                          Advanced(objs[r][k], name, count)]]
        BY <3>2, <3>3
      <3>5. objs'[r] = [k \in 1 .. Len(objs[r]) |->
                            Advanced(objs[r][k], name, count)]
        BY <1>1, <3>4 DEF TypeOK
      <3>6. objs'[r][1] = Advanced(objs[r][1], name, count)
        BY <2>1, <3>5
      <3> QED
        BY <1>4, <2>1, <3>1, <3>6, AdvancedStrings
    <2>7. CASE ReceiveMap(r)
      <3>1. pc'[r] = "down"
        BY <1>3, <2>7 DEF ReceiveMap, GoTo
      <3>2. objs'[r][1] = Mapped(objs[r][1], Body(r, Parent(r)))
        BY <1>1, <2>1, <2>7, MappedProperties
      <3>3. Mapped(objs[r][1], Body(r, Parent(r))).strings = objs[r][1].strings
        BY <1>1, <2>1, <2>7, MappedProperties
      <3> QED
        BY <3>1, <3>2, <3>3
    <2> QED
      BY <2>2, <2>3, <2>4, <2>5, <2>6, <2>7 DEF UnifyStep
  <1> QED
    BY <1>2, <1>4 DEF OwnKept

LEMMA UnionStays ==
    ASSUME OwnKept, NEW list, Union(list)
    PROVE  Union(list)'
  <1>1. ASSUME NEW n \in Names
        PROVE  \E q \in Ranks :
                  /\ pc'[q] \notin {"start", "buffer"}
                  /\ Occurrences(objs'[q][1].strings, n) = Occurrences(list, n)
    <2>1. PICK q \in Ranks :
              /\ pc[q] \notin {"start", "buffer"}
              /\ Occurrences(objs[q][1].strings, n) = Occurrences(list, n)
      BY DEF Union, MostOften
    <2>2. pc'[q] \notin {"start", "buffer"} /\ objs'[q][1].strings = objs[q][1].strings
      BY <2>1 DEF OwnKept
    <2> QED
      BY <2>1, <2>2
  <1>2. Ordered(list)
    BY DEF Union
  <1> QED
    BY <1>1, <1>2 DEF Union, MostOften

\* What depends on the state of one rank only.
LEMMA RankUnionStays ==
    ASSUME NEW q \in Ranks, RankUnion(q), OwnKept, pc'[q] = pc[q],
           objs'[q] = objs[q], merged'[q] = merged[q], unifier'[q] = unifier[q],
           pc[q] = "done" => merged'[0] = merged[0]
    PROVE  RankUnion(q)'
  <1>1. \A k \in Objects(q) : Rising(q, objs[q][k])
    BY DEF RankUnion
  <1>2. (\A k \in Objects(q) : Rising(q, objs[q][k]))'
    <2>1. ASSUME NEW k \in Objects(q) PROVE Rising(q, objs[q][k])'
      BY <1>1 DEF Rising
    <2>2. Objects(q)' = Objects(q)
      BY DEF Objects
    <2> QED
      BY <2>1, <2>2
  <1>3. Merging(q)'
    <2>1. LiveObjs(q)' = LiveObjs(q) /\ Objects(q)' = Objects(q)
      BY DEF LiveObjs, Objects
    <2> QED
      BY <2>1 DEF RankUnion, Merging
  <1>4. pc'[q] \in Later => Union(Up(q))'
    <2>1. PICK up : up = Up(q) /\ up = Up(q)'
      BY DEF Up
    <2>2. pc'[q] \in Later => Union(up)'
      BY <2>1, UnionStays DEF RankUnion
    <2> QED
      BY <2>1, <2>2 DEF Union, MostOften
  <1>5. pc'[q] = "done" =>
            unifier'[q]["functions"].globalNumItems = Len(merged'[0])
    BY DEF RankUnion
  <1>6. pc'[q] \in Collecting => merged'[q] = <<>>
    BY DEF RankUnion
  <1> QED
    BY <1>2, <1>3, <1>4, <1>5, <1>6 DEF RankUnion

LEMMA OthersUnion ==
    ASSUME IInv, UnionInv, NEW r \in Ranks, UnifyStep(r), NEW q \in Ranks, q # r
    PROVE  RankUnion(q)'
  <1>1. /\ OwnKept /\ Frozen /\ RankUnion(q) /\ TypeOK
        /\ pc[q] = "done" => pc[0] = "done"
    BY OwnIsKept, FrozenStep DEF UnionInv, IInv, RankInv, Result
  <1>2. /\ pc'[q] = pc[q] /\ objs'[q] = objs[q]
        /\ merged'[q] = merged[q] /\ unifier'[q] = unifier[q]
    BY <1>1, OthersAlone
  <1>3. pc[q] = "done" => merged'[0] = merged[0]
    BY <1>1 DEF Frozen, Final
  <1> QED
    BY <1>1, <1>2, <1>3, RankUnionStays

\* Messages that stay, others that are not tables, and tables that rise.
LEMMA TablesGoOnRising ==
    ASSUME TablesRise,
           \A s, d \in Ranks : \A i \in 1 .. Len(chan'[s, d]) :
               \/ \E j \in 1 .. Len(chan[s, d]) : chan'[s, d][i] = chan[s, d][j]
               \/ \E m \in Message :
                      /\ chan'[s, d][i] = m
                      /\ m.kind = "map" => Rises(m.body, Len(m.body))
    PROVE  TablesRise'
  <1> SUFFICES ASSUME NEW s \in Ranks, NEW d \in Ranks,
                      NEW i \in 1 .. Len(chan'[s, d]),
                      chan'[s, d][i].kind = "map"
               PROVE  Rises(chan'[s, d][i].body, Len(chan'[s, d][i].body))
    BY DEF TablesRise, Rises
  <1>1. CASE \E j \in 1 .. Len(chan[s, d]) : chan'[s, d][i] = chan[s, d][j]
    BY <1>1 DEF TablesRise
  <1>2. CASE \E m \in Message :
                 /\ chan'[s, d][i] = m
                 /\ m.kind = "map" => Rises(m.body, Len(m.body))
    BY <1>2
  <1> QED
    BY <1>1, <1>2

\* What a step of rank r has to keep, beside what the others are in.
UnionStep(r) ==
    /\ RankUnion(r)
    /\ pc[0] \in Final => Union(merged[0])
    /\ TablesRise
    /\ bcast["functions"] \in {-1, Len(merged[0])}

LEMMA UnionFacts ==
    ASSUME IInv, UnionInv, NEW r \in Ranks, UnifyStep(r)
    PROVE  /\ TypeOK /\ RankInv(r) /\ Frozen /\ OwnKept
           /\ RankUnion(r) /\ TablesRise /\ 0 \in Ranks
           /\ Messages
  BY FrozenStep, OwnIsKept, RankFacts DEF IInv, UnionInv

\* The global list stays what it is.
LEMMA GlobalStays ==
    ASSUME IInv, UnionInv, OwnKept, Frozen, pc'[0] \in Final => pc[0] \in Final
    PROVE  (pc[0] \in Final => Union(merged[0]))'
  <1>1. SUFFICES ASSUME pc[0] \in Final
                 PROVE  Union(merged[0])'
    OBVIOUS
  <1>2. merged'[0] = merged[0] /\ Union(merged[0])
    BY <1>1 DEF Frozen, UnionInv
  <1>3. PICK list : list = merged[0] /\ list = merged'[0]
    BY <1>2
  <1>4. Union(list)'
    BY <1>2, <1>3, UnionStays
  <1> QED
    BY <1>3, <1>4 DEF Union, MostOften

\* A rank that does not go from one part of the algorithm to the next.
LEMMA QuietUnion ==
    ASSUME IInv, UnionInv, NEW r \in Ranks, OwnKept, Frozen,
           UNCHANGED <<objs, merged, unifier, bcast>>,
           pc'[r] \in Collecting => pc[r] \in Collecting,
           pc'[r] = "merge" => pc[r] = "merge",
           pc'[r] \in Later => pc[r] \in Later, pc'[r] # "done",
           pc'[0] \in Final => pc[0] \in Final,
           TablesRise'
    PROVE  UnionStep(r)'
  <1>1. RankUnion(r)
    BY DEF UnionInv
  <1>2. (\A k \in Objects(r) : Rising(r, objs[r][k]))'
    <2>1. ASSUME NEW k \in Objects(r) PROVE Rising(r, objs[r][k])'
      BY <1>1 DEF RankUnion, Rising
    <2>2. Objects(r)' = Objects(r)
      BY DEF Objects
    <2> QED
      BY <2>1, <2>2
  <1>3. Merging(r)'
    <2>1. LiveObjs(r)' = LiveObjs(r) /\ Objects(r)' = Objects(r)
      BY DEF LiveObjs, Objects
    <2> QED
      BY <1>1, <2>1 DEF RankUnion, Merging
  <1>4. pc'[r] \in Later => Union(Up(r))'
    <2>1. PICK up : up = Up(r) /\ up = Up(r)'
      BY DEF Up
    <2>2. pc'[r] \in Later => Union(up)'
      BY <1>1, <2>1, UnionStays DEF RankUnion
    <2> QED
      BY <2>1, <2>2 DEF Union, MostOften
  <1>5. (pc[0] \in Final => Union(merged[0]))'
    BY GlobalStays
  <1>6. RankUnion(r)'
    BY <1>1, <1>2, <1>3, <1>4 DEF RankUnion
  <1>7. (bcast["functions"] \in {-1, Len(merged[0])})'
    BY DEF UnionInv
  <1> QED
    BY <1>5, <1>6, <1>7 DEF UnionStep

-----------------------------------------------------------------------------
(* The steps of the tree that change no list.                              *)

LEMMA PutRising ==
    ASSUME TypeOK, TablesRise, NEW r \in Ranks, NEW d \in Ranks,
           NEW m \in Message, Put(r, d, m),
           m.kind = "map" => Rises(m.body, Len(m.body))
    PROVE  TablesRise'
  <1>1. OnlyAdded(r, d, m)
    BY AppendedToChannel
  <1>2. ASSUME NEW s \in Ranks, NEW e \in Ranks, NEW i \in 1 .. Len(chan'[s, e])
        PROVE  \/ \E j \in 1 .. Len(chan[s, e]) : chan'[s, e][i] = chan[s, e][j]
               \/ \E n \in Message :
                      /\ chan'[s, e][i] = n
                      /\ n.kind = "map" => Rises(n.body, Len(n.body))
    BY <1>1 DEF OnlyAdded
  <1> QED
    BY <1>2, TablesGoOnRising

LEMMA TakeRising ==
    ASSUME TypeOK, TablesRise, NEW r \in Ranks, NEW s \in Ranks,
           chan[s, r] # <<>>, Receive(r, s)
    PROVE  TablesRise'
  <1>1. \A q, e \in Ranks : \A i \in 1 .. Len(chan'[q, e]) :
            \E j \in 1 .. Len(chan[q, e]) : chan'[q, e][i] = chan[q, e][j]
    BY ReceiveProperties
  <1> QED
    BY <1>1, TablesGoOnRising

LEMMA SameRising ==
    ASSUME TablesRise, chan' = chan
    PROVE  TablesRise'
  BY TablesGoOnRising

LEMMA SkipChildUnion ==
    ASSUME IInv, UnionInv, NEW r \in Ranks, SkipChild(r)
    PROVE  UnionStep(r)'
  <1>1. TypeOK /\ Frozen /\ OwnKept /\ TablesRise
    BY UnionFacts DEF UnifyStep
  <1>2. pc[r] = "tree" /\ pc' = pc /\ chan' = chan
    BY DEF SkipChild
  <1>3. TablesRise'
    BY <1>1, <1>2, SameRising
  <1> QED
    BY <1>1, <1>2, <1>3, QuietUnion DEF SkipChild

LEMMA AskChildUnion ==
    ASSUME IInv, UnionInv, NEW r \in Ranks, AskChild(r)
    PROVE  UnionStep(r)'
  <1>1. TypeOK /\ Frozen /\ OwnKept /\ TablesRise /\ 0 \in Ranks
    BY UnionFacts DEF UnifyStep
  <1>2. /\ pc[r] = "tree" /\ pc'[r] = "len"
        /\ \A q \in Ranks : q # r => pc'[q] = pc[q]
    BY <1>1 DEF AskChild, GoTo, TypeOK
  <1>3. PICK c \in Ranks : c = Source(r)
    BY DEF AskChild
  <1>4. PICK m \in Message : /\ m = Msg("ok", <<>>) /\ m.kind = "ok"
    BY MessageTypes
  <1>5. Put(r, c, m)
    BY <1>3, <1>4 DEF AskChild, Send, Put
  <1>6. TablesRise'
    BY <1>1, <1>4, <1>5, PutRising
  <1>7. pc'[0] \in Final => pc[0] \in Final
    BY <1>1, <1>2 DEF Final
  <1>8. UNCHANGED <<objs, merged, unifier, bcast>>
    BY DEF AskChild, treeVars
  <1> QED
    BY <1>1, <1>2, <1>6, <1>7, <1>8, QuietUnion DEF Collecting, Later, Waiting, Final

LEMMA ReceiveLengthUnion ==
    ASSUME IInv, UnionInv, NEW r \in Ranks, ReceiveLength(r)
    PROVE  UnionStep(r)'
  <1>1. /\ TypeOK /\ Frozen /\ OwnKept /\ TablesRise /\ 0 \in Ranks
        /\ RankInv(r)
    BY UnionFacts DEF UnifyStep
  <1>2. /\ pc[r] = "len" /\ pc'[r] = "names"
        /\ \A q \in Ranks : q # r => pc'[q] = pc[q]
    BY <1>1 DEF ReceiveLength, GoTo, TypeOK
  <1>3. PICK c \in Ranks : c = Source(r)
    BY <1>1, <1>2 DEF RankInv, Tree
  <1>4. chan[c, r] # <<>> /\ Receive(r, c)
    BY <1>3 DEF ReceiveLength, Arrived
  <1>5. TablesRise'
    BY <1>1, <1>4, TakeRising
  <1>6. pc'[0] \in Final => pc[0] \in Final
    BY <1>1, <1>2 DEF Final
  <1>7. UNCHANGED <<objs, merged, unifier, bcast>>
    BY DEF ReceiveLength, treeVars
  <1> QED
    BY <1>1, <1>2, <1>5, <1>6, <1>7, QuietUnion DEF Collecting, Later, Waiting, Final

LEMMA SendLengthUnion ==
    ASSUME IInv, UnionInv, NEW r \in Ranks, SendLength(r)
    PROVE  UnionStep(r)'
  <1>1. /\ TypeOK /\ Frozen /\ OwnKept /\ TablesRise /\ 0 \in Ranks
        /\ RankInv(r)
    BY UnionFacts DEF UnifyStep
  <1>2. /\ pc[r] = "ok" /\ pc'[r] = "send"
        /\ \A q \in Ranks : q # r => pc'[q] = pc[q]
    BY <1>1 DEF SendLength, GoTo, TypeOK
  <1>3. PICK p \in Ranks : p = Parent(r)
    BY <1>1, <1>2 DEF RankInv, Tree, Waiting
  <1>4. p # r
    <2>1. r \in Nat /\ mask[r] \in Nat /\ mask[r] >= 1
      BY <1>1, RankFacts, ObjectTypes DEF RankInv, Tree
    <2> QED
      BY <1>3, <2>1 DEF Parent
  <1>5. PICK m \in Message : m = Msg("len", BufferLength(Up(r))) /\ m.kind = "len"
    <2>1. Len(Up(r)) \in Nat
      BY <1>1, <1>2, UpType DEF RankInv, OwnNames
    <2>2. BufferLength(Up(r)) \in Nat
      BY <2>1 DEF BufferLength
    <2> QED
      BY <2>2, MessageTypes
  <1>6. /\ chan \in [Ranks \X Ranks -> Seq(Message)]
        /\ chan[p, r] \in Seq(Message) /\ chan[r, p] \in Seq(Message)
        /\ chan[p, r] # <<>>
    <2>1. chan[p, r] # <<>>
      BY <1>3 DEF SendLength, Arrived
    <2> QED
      BY <1>1, <2>1 DEF TypeOK
  <1>7. PICK q1, q2 : q1 = Tail(chan[p, r]) /\ q2 = Append(chan[r, p], m)
    OBVIOUS
  <1>8. /\ chan'[p, r] = q1 /\ chan'[r, p] = q2
        /\ \A s, d \in Ranks : <<s, d>> # <<p, r>> /\ <<s, d>> # <<r, p>> =>
               chan'[s, d] = chan[s, d]
    <2>1. <<p, r>> # <<r, p>>
      BY <1>4
    <2>2. chan' = [chan EXCEPT ![<<p, r>>] = Tail(@), ![<<r, p>>] = Append(@, m)]
      BY <1>3, <1>5 DEF SendLength
    <2>3. chan' = [chan EXCEPT ![<<p, r>>] = q1, ![<<r, p>>] = q2]
      BY <1>6, <1>7, <2>1, <2>2
    <2> QED
      BY <1>6, <2>1, <2>3
  <1>9. TablesRise'
    <2>1. \A i \in 1 .. Len(q1) : \E j \in 1 .. Len(chan[p, r]) :
              q1[i] = chan[p, r][j]
      BY <1>6, <1>7, TakenFrom
    <2>2. \A i \in 1 .. Len(q2) :
              \/ \E j \in 1 .. Len(chan[r, p]) : q2[i] = chan[r, p][j]
              \/ q2[i] = m
      BY <1>6, <1>7, AppendedTo
    <2>3. ASSUME NEW s \in Ranks, NEW d \in Ranks, NEW i \in 1 .. Len(chan'[s, d])
          PROVE  \/ \E j \in 1 .. Len(chan[s, d]) : chan'[s, d][i] = chan[s, d][j]
                 \/ \E n \in Message :
                        /\ chan'[s, d][i] = n
                        /\ n.kind = "map" => Rises(n.body, Len(n.body))
      <3>1. CASE s = p /\ d = r
        BY <1>8, <2>1, <3>1
      <3>2. CASE s = r /\ d = p
        BY <1>5, <1>8, <2>2, <3>2
      <3>3. CASE <<s, d>> # <<p, r>> /\ <<s, d>> # <<r, p>>
        BY <1>8, <3>3
      <3> QED
        BY <3>1, <3>2, <3>3
    <2> QED
      BY <1>1, <2>3, TablesGoOnRising
  <1>10. pc'[0] \in Final => pc[0] \in Final
    BY <1>1, <1>2 DEF Final
  <1>11. UNCHANGED <<objs, merged, unifier, bcast>>
    BY DEF SendLength, treeVars
  <1> QED
    BY <1>1, <1>2, <1>9, <1>10, <1>11, QuietUnion
    DEF Collecting, Later, Waiting, Final

LEMMA SendNamesUnion ==
    ASSUME IInv, UnionInv, NEW r \in Ranks, SendNames(r)
    PROVE  UnionStep(r)'
  <1>1. /\ TypeOK /\ Frozen /\ OwnKept /\ TablesRise /\ 0 \in Ranks
        /\ RankInv(r)
    BY UnionFacts DEF UnifyStep
  <1>2. /\ pc[r] = "send" /\ pc'[r] = "map"
        /\ \A q \in Ranks : q # r => pc'[q] = pc[q]
    BY <1>1 DEF SendNames, GoTo, TypeOK
  <1>3. PICK p \in Ranks : p = Parent(r)
    BY <1>1, <1>2 DEF RankInv, Tree, Waiting
  <1>4. PICK m \in Message : m = Msg("names", Up(r)) /\ m.kind = "names"
    BY <1>1, <1>2, UpType, MessageTypes DEF RankInv, OwnNames
  <1>5. Put(r, p, m)
    BY <1>3, <1>4 DEF SendNames, Send, Put
  <1>6. TablesRise'
    BY <1>1, <1>4, <1>5, PutRising
  <1>7. pc'[0] \in Final => pc[0] \in Final
    BY <1>1, <1>2 DEF Final
  <1>8. UNCHANGED <<objs, merged, unifier, bcast>>
    BY DEF SendNames
  <1> QED
    BY <1>1, <1>2, <1>6, <1>7, <1>8, QuietUnion DEF Collecting, Later, Waiting, Final

LEMMA SendMapUnion ==
    ASSUME IInv, UnionInv, NEW r \in Ranks, SendMap(r)
    PROVE  UnionStep(r)'
  <1>1. /\ TypeOK /\ Frozen /\ OwnKept /\ TablesRise /\ RankInv(r)
        /\ RankUnion(r)
    BY UnionFacts DEF UnifyStep
  <1>2. pc[r] = "down" /\ pc' = pc
    BY DEF SendMap
  <1>3. child[r] \in 2 .. Len(objs[r]) /\ child[r] \in Objects(r)
    BY <1>1, ObjectTypes DEF SendMap, RankInv, Tree, Objects
  <1>4. PICK o \in Object :
            /\ o = objs[r][child[r]] /\ o.rank \in Ranks
            /\ Len(o.mapping) = Len(o.strings) /\ o.mapping \in Seq(Nat)
            /\ Rises(o.mapping, Len(o.strings))
    <2>1. objs[r][child[r]] \in Object
      BY <1>1, <1>3, ObjectTypes
    <2>2. objs[r][child[r]].mapping \in Seq(Nat)
      BY <1>1, <1>3, ObjectTypes
    <2>3. /\ Len(objs[r][child[r]].mapping) = Len(objs[r][child[r]].strings)
          /\ objs[r][child[r]].rank \in Ranks
      BY <1>1, <1>3 DEF RankInv, Tables, Shape, Children
    <2>4. Rises(objs[r][child[r]].mapping, Len(objs[r][child[r]].strings))
      BY <1>1, <1>2, <1>3 DEF RankUnion, Rising, Later, Final
    <2> QED
      BY <2>1, <2>2, <2>3, <2>4
  <1>5. PICK d \in Ranks : d = o.rank
    BY <1>4
  <1>6. PICK m \in Message : /\ m = Msg("map", o.mapping)
                             /\ m.kind = "map" /\ m.body = o.mapping
    BY <1>4, MessageTypes
  <1>7. Put(r, d, m)
    BY <1>4, <1>5, <1>6 DEF SendMap, Send, Put
  <1>8. TablesRise'
    <2>1. Rises(m.body, Len(m.body))
      BY <1>4, <1>6
    <2> QED
      BY <1>1, <1>7, <2>1, PutRising
  <1>9. UNCHANGED <<objs, merged, unifier, bcast>>
    BY DEF SendMap
  <1> QED
    BY <1>1, <1>2, <1>8, <1>9, QuietUnion

-----------------------------------------------------------------------------
(* The lists that a rank begins with and receives.                         *)

LEMMA BcastStays ==
    ASSUME IInv, UnionInv, Frozen, bcast' = bcast
    PROVE  (bcast["functions"] \in {-1, Len(merged[0])})'
  BY DEF IInv, UnionInv, Frozen, Final

\* The list that a rank began with is its own union.
LEMMA OwnUnion ==
    ASSUME IInv, UnionInv, NEW r \in Ranks, pc[r] \notin {"start", "buffer"}
    PROVE  Union(objs[r][1].strings)
  <1>1. 1 \in Objects(r)
    BY ObjectTypes DEF IInv, RankInv, OwnNames, Objects
  <1>2. Ordered(objs[r][1].strings)
    BY <1>1 DEF UnionInv, RankUnion, Rising
  <1> QED
    BY <1>2 DEF Union, MostOften

\* A rank that has no list yet.
LEMMA EarlyUnion ==
    ASSUME IInv, UnionInv, NEW r \in Ranks, Start(r) \/ FillBufferCrash(r)
    PROVE  UnionStep(r)'
  <1>1. /\ TypeOK /\ Frozen /\ OwnKept /\ TablesRise /\ 0 \in Ranks /\ RankInv(r)
    BY UnionFacts DEF UnifyStep
  <1>2. /\ pc'[r] = "buffer" /\ \A q \in Ranks : q # r => pc'[q] = pc[q]
        /\ UNCHANGED <<objs, merged, unifier, bcast, chan>>
    BY <1>1 DEF Start, FillBufferCrash, GoTo, TypeOK, treeVars
  <1>3. TablesRise'
    BY <1>1, <1>2, SameRising
  <1>4. pc'[0] \in Final => pc[0] \in Final
    BY <1>1, <1>2 DEF Final
  <1>5. /\ pc'[r] \notin Collecting /\ pc'[r] # "merge" /\ pc'[r] \notin Later
        /\ pc'[r] # "done"
    BY <1>2 DEF Collecting, Later, Waiting, Final
  <1> QED
    BY <1>1, <1>2, <1>3, <1>4, <1>5, QuietUnion

LEMMA FillBufferUnion ==
    ASSUME IInv, UnionInv, NEW r \in Ranks, FillBuffer(r), wild' = {}
    PROVE  UnionStep(r)'
  <1>1. /\ TypeOK /\ Frozen /\ OwnKept /\ TablesRise /\ 0 \in Ranks
        /\ RankInv(r)
    BY UnionFacts DEF UnifyStep
  <1>2. /\ pc[r] = "buffer" /\ pc'[r] = "tree" /\ merged'[r] = <<>>
        /\ \A q \in Ranks : q # r => pc'[q] = pc[q]
        /\ chan' = chan /\ bcast' = bcast
    BY <1>1 DEF FillBuffer, GoTo, TypeOK
  <1>3. PICK entries : entries = db[lister[r]][r]
    OBVIOUS
  <1>4. PICK order \in Reads(sortMap[r], entries) :
            objs' = [objs EXCEPT ![r] = <<NewObject(-1,
                   [i \in 1 .. Len(order) |-> entries[order[i]].name])>>]
    BY <1>3 DEF FillBuffer
  <1>5. /\ entries \in Seq(Entries) /\ Len(entries) \in Nat
        /\ order \in [1 .. Len(entries) -> 1 .. Len(entries)]
        /\ \A i, j \in 1 .. Len(entries) :
               i < j => entries[order[i]].name <= entries[order[j]].name
    <2>1. db[lister[r]][r] \in Seq(Entries)
      BY <1>1 DEF TypeOK
    <2>2. order \in [1 .. Len(entries) -> 1 .. Len(entries)]
      BY DEF Reads
    <2>3. \A i, j \in 1 .. Len(entries) :
              i < j => entries[order[i]].name <= entries[order[j]].name
      <3>1. PICK m \in Nat : m = Len(sortMap[r])
        BY <1>1, ObjectTypes
      <3>2. PICK k \in Nat : k = Len(entries)
        BY <1>3, <2>1, LenProperties
      <3>3. k <= m
        <4>1. ~Overread(r)
          BY DEF FillBuffer
        <4> QED
          BY <1>3, <3>1, <3>2, <4>1 DEF Overread
      <3>4. \A i \in 1 .. k : i \in 1 .. m /\ order[i] = sortMap[r][i]
        BY <3>1, <3>3 DEF Reads
      <3>5. \A i, j \in 1 .. m : i < j =>
                entries[sortMap[r][i]].name <= entries[sortMap[r][j]].name
        BY <1>1, <1>2, <1>3, <3>1 DEF RankInv, OwnNames
      <3> QED
        BY <3>2, <3>4, <3>5
    <2> QED
      BY <1>3, <2>1, <2>2, <2>3, LenProperties
  <1>6. order \in Seq(1 .. Len(entries)) /\ Len(order) = Len(entries)
    BY <1>5, FunctionIsSeq
  <1>7. PICK strings : strings = [i \in 1 .. Len(order) |-> entries[order[i]].name]
    OBVIOUS
  <1>8. Len(strings) = Len(entries)
    BY <1>5, <1>6, <1>7
  <1>9. Ordered(strings)
    BY <1>5, <1>6, <1>7, <1>8 DEF Ordered
  <1>10. PICK o : o = NewObject(-1, strings)
    OBVIOUS
  <1>11. o.strings = strings
    BY <1>10 DEF NewObject
  <1>12. objs'[r] = <<o>> /\ Len(<<o>>) = 1 /\ <<o>>[1] = o
    BY <1>1, <1>4, <1>7, <1>10 DEF TypeOK
  <1>13. (\A k \in Objects(r) : Rising(r, objs[r][k]))'
    <2> SUFFICES ASSUME NEW k \in 1 .. Len(objs'[r])
                 PROVE  Rising(r, objs[r][k])'
      BY DEF Objects
    <2>1. objs'[r][k] = o
      BY <1>12
    <2> QED
      BY <1>2, <1>9, <1>11, <2>1 DEF Rising, Later, Waiting, Final
  <1>14. RankUnion(r)'
    BY <1>2, <1>13 DEF RankUnion, Merging, Later, Waiting, Final
  <1>15. TablesRise' /\ (pc[0] \in Final => Union(merged[0]))'
    <2>1. pc'[0] \in Final => pc[0] \in Final
      BY <1>1, <1>2 DEF Final
    <2> QED
      BY <1>1, <1>2, <2>1, SameRising, GlobalStays
  <1> QED
    BY <1>1, <1>2, <1>14, <1>15, BcastStays DEF UnionStep

LEMMA ReceiveNamesUnion ==
    ASSUME IInv, UnionInv, NEW r \in Ranks, ReceiveNames(r)
    PROVE  UnionStep(r)'
  <1>1. /\ TypeOK /\ Frozen /\ OwnKept /\ TablesRise /\ 0 \in Ranks
        /\ RankInv(r) /\ Messages /\ RankUnion(r)
    BY UnionFacts DEF UnifyStep
  <1>2. /\ pc[r] = "names" /\ pc'[r] = "tree"
        /\ \A q \in Ranks : q # r => pc'[q] = pc[q]
        /\ merged' = merged /\ bcast' = bcast
    BY <1>1 DEF ReceiveNames, GoTo, TypeOK
  <1>3. PICK c \in Ranks : c = Source(r)
    BY <1>1, <1>2 DEF RankInv, Tree
  <1>4. Arrived(r, c, "names") /\ Receive(r, c) /\ chan[c, r] # <<>>
    BY <1>3 DEF ReceiveNames, Arrived
  <1>5. PICK body : body = Body(r, c) /\ pc[c] \in SentUp /\ body = Up(c)
    <2>1. Head(chan[c, r]).kind = "names" /\ Carries(c, r, Head(chan[c, r]))
      BY <1>1, <1>4, FirstMessage
    <2> QED
      BY <2>1 DEF Body, Carries
  <1>6. Ordered(body)
    <2>1. pc[c] \in Later
      BY <1>5 DEF Later, Waiting, Final, SentUp
    <2>2. Union(Up(c))
      BY <2>1 DEF UnionInv, RankUnion
    <2> QED
      BY <1>5, <2>2 DEF Union
  <1>7. PICK o : o = NewObject(c, body)
    OBVIOUS
  <1>8. o.strings = body
    BY <1>7 DEF NewObject
  <1>9. objs[r] \in Seq(Object) /\ Len(objs[r]) \in Nat
    BY <1>1, ObjectTypes
  <1>10. objs'[r] = Append(objs[r], o)
    BY <1>1, <1>3, <1>5, <1>7 DEF ReceiveNames, TypeOK
  <1>11. (\A k \in Objects(r) : Rising(r, objs[r][k]))'
    <2> SUFFICES ASSUME NEW k \in 1 .. Len(objs'[r])
                 PROVE  Rising(r, objs[r][k])'
      BY DEF Objects
    <2>1. Ordered(objs'[r][k].strings)
      <3>1. \/ k \in 1 .. Len(objs[r]) /\ objs'[r][k] = objs[r][k]
            \/ k = Len(objs[r]) + 1 /\ objs'[r][k] = o
        BY <1>9, <1>10
      <3> QED
        BY <1>1, <1>6, <1>8, <3>1 DEF RankUnion, Rising, Objects
    <2> QED
      BY <1>2, <2>1 DEF Rising, Later, Waiting, Final
  <1>12. RankUnion(r)'
    BY <1>1, <1>2, <1>11
    DEF RankUnion, Merging, Later, Waiting, Final, Collecting
  <1>13. TablesRise' /\ (pc[0] \in Final => Union(merged[0]))'
    <2>1. pc'[0] \in Final => pc[0] \in Final
      BY <1>1, <1>2 DEF Final
    <2> QED
      BY <1>1, <1>4, <2>1, TakeRising, GlobalStays
  <1> QED
    BY <1>1, <1>2, <1>12, <1>13, BcastStays DEF UnionStep

LEMMA EndTreeUnion ==
    ASSUME IInv, UnionInv, NEW r \in Ranks, EndTree(r)
    PROVE  UnionStep(r)'
  <1>1. /\ TypeOK /\ Frozen /\ OwnKept /\ TablesRise /\ 0 \in Ranks
        /\ RankInv(r) /\ RankUnion(r)
    BY UnionFacts DEF UnifyStep
  <1>2. /\ pc[r] = "tree" /\ \A q \in Ranks : q # r => pc'[q] = pc[q]
        /\ pc'[r] = IF r = 0 \/ Len(objs[r]) > 1 THEN "merge" ELSE "ok"
    BY <1>1 DEF EndTree, GoTo, TypeOK
  <1>3. UNCHANGED <<objs, merged, unifier, bcast, chan>>
    BY DEF EndTree, treeVars
  <1>4. /\ merged[r] = <<>> /\ Len(merged[r]) = 0
        /\ Len(objs[r]) \in Nat /\ Len(objs[r]) >= 1
        /\ 1 \in Objects(r)
    BY <1>1, <1>2, ObjectTypes
    DEF RankUnion, RankInv, OwnNames, Collecting, Objects
  <1>5. ASSUME NEW k \in Objects(r)
        PROVE  Rising(r, objs[r][k])'
    <2>1. PICK o : o = objs[r][k]
      OBVIOUS
    <2>2. /\ Ordered(o.strings) /\ o.idx = 1 /\ Len(o.strings) \in Nat
          /\ \A j \in 1 .. Len(o.strings) : o.mapping[j] = j
      BY <1>1, <1>2, <2>1, ObjectTypes
      DEF RankUnion, Rising, RankInv, Tables, Table, Collecting
    <2>3. Rises(o.mapping, o.idx - 1) /\ Rises(o.mapping, Len(o.strings))
      BY <2>2 DEF Rises
    <2> QED
      BY <1>3, <2>1, <2>2, <2>3 DEF Rising
  <1>6. Merging(r)'
    <2> SUFFICES ASSUME TRUE
                 PROVE  /\ Ordered(merged'[r])
                        /\ \A k \in LiveObjs(r) :
                            /\ \A p \in 1 .. Len(merged'[r]) :
                                   merged'[r][p] <= Current(objs'[r][k])
                            /\ Covers(objs'[r][k], objs'[r][k].idx - 1, merged'[r],
                                      Current(objs'[r][k]))
                        /\ \A n \in Names : \E k \in Objects(r) :
                            Covers(objs'[r][k], objs'[r][k].idx - 1, merged'[r], n)
      <3>1. LiveObjs(r)' = LiveObjs(r) /\ Objects(r)' = Objects(r)
        BY <1>3 DEF LiveObjs, Objects
      <3> QED
        BY <3>1 DEF Merging
    <2> QED
      BY <1>3, <1>4 DEF Ordered, Covers
  <1>7. pc'[r] \in Later => Union(Up(r))'
    <2> SUFFICES ASSUME pc'[r] \in Later
                 PROVE  Union(Up(r))'
      OBVIOUS
    <2>1. ~(Len(objs[r]) > 1)
      BY <1>2 DEF Later, Waiting, Final
    <2>2. PICK own : own = objs[r][1].strings
      OBVIOUS
    <2>3. Up(r)' = own
      BY <1>3, <2>1, <2>2 DEF Up
    <2>4. Union(own)
      BY <1>2, <2>2, OwnUnion
    <2>5. Union(own)'
      BY <1>1, <2>4, UnionStays
    <2> QED
      BY <2>3, <2>5 DEF Union, MostOften
  <1>8. RankUnion(r)'
    <2>1. (\A k \in Objects(r) : Rising(r, objs[r][k]))'
      BY <1>3, <1>5 DEF Objects
    <2>2. pc'[r] # "done" /\ pc'[r] \notin Collecting
      BY <1>2 DEF Collecting
    <2> QED
      BY <1>6, <1>7, <2>1, <2>2 DEF RankUnion
  <1>9. TablesRise' /\ (pc[0] \in Final => Union(merged[0]))'
    <2>1. pc'[0] \in Final => pc[0] \in Final
      BY <1>1, <1>2 DEF Final
    <2> QED
      BY <1>1, <1>3, <2>1, SameRising, GlobalStays
  <1> QED
    BY <1>1, <1>3, <1>8, <1>9, BcastStays DEF UnionStep

-----------------------------------------------------------------------------
(* The merge.                                                              *)

LEMMA AdvancedCases ==
    ASSUME NEW o \in Object, Shape(o), NEW name, NEW count \in Nat,
           NEW p, p = Advanced(o, name, count)
    PROVE  /\ p.strings = o.strings
           /\ ~(Live(o) /\ Current(o) = name) => p = o
           /\ Live(o) /\ Current(o) = name =>
                  /\ p.idx = o.idx + 1 /\ p.mapping[o.idx] = count
                  /\ \A j \in 1 .. o.idx - 1 : p.mapping[j] = o.mapping[j]
  <1>1. p.strings = o.strings
    BY AdvancedStrings
  <1>2. CASE Live(o) /\ Current(o) = name
    <2> DEFINE mapping == [o.mapping EXCEPT ![o.idx] = count]
    <2>1. /\ o.mapping \in Seq(Nat) /\ o.strings \in Seq(Names) /\ o.idx \in Nat
          /\ Len(o.strings) \in Nat /\ Len(o.mapping) = Len(o.strings)
          /\ o.idx \in 1 .. Len(o.strings)
      BY <1>2, LenProperties DEF Object, Shape, Live
    <2>2. \A j \in 1 .. Len(o.mapping) :
              mapping[j] = IF j = o.idx THEN count ELSE o.mapping[j]
      BY <2>1, ExceptSeq
    <2>3. p = [o EXCEPT !.mapping = mapping, !.idx = o.idx + 1]
      BY <1>2 DEF Advanced
    <2> HIDE DEF mapping
    <2>4. p.mapping = mapping /\ p.idx = o.idx + 1
      BY <2>3 DEF Object
    <2>5. mapping[o.idx] = count
      BY <2>1, <2>2
    <2>6. \A j \in 1 .. o.idx - 1 : mapping[j] = o.mapping[j]
      <3>1. \A j \in 1 .. o.idx - 1 : j \in 1 .. Len(o.mapping) /\ j # o.idx
        BY <2>1
      <3> QED
        BY <2>2, <3>1
    <2> QED
      BY <1>1, <1>2, <2>4, <2>5, <2>6
  <1>3. CASE ~(Live(o) /\ Current(o) = name)
    BY <1>1, <1>3 DEF Advanced
  <1> QED
    BY <1>2, <1>3

\* One turn of the merge, for one of the lists; list is what is merged before
\* it, and new is that with the name that is taken.
BeforeTurn(o, list, name) ==
    /\ Shape(o) /\ Ordered(o.strings)
    /\ Leads(o, o.idx - 1, list) /\ Rises(o.mapping, o.idx - 1)
    /\ Live(o) => /\ name <= Current(o)
                  /\ Covers(o, o.idx - 1, list, Current(o))

AfterTurn(o, p, list, new, name) ==
    /\ p.strings = o.strings
    /\ Rises(p.mapping, p.idx - 1)
    /\ Live(p) => /\ \A q \in 1 .. Len(new) : new[q] <= Current(p)
                  /\ Covers(p, p.idx - 1, new, Current(p))
    /\ \A n : n # name /\ Covers(o, o.idx - 1, list, n) =>
           Covers(p, p.idx - 1, new, n)
    /\ Live(o) /\ Current(o) = name => Covers(p, p.idx - 1, new, name)

LEMMA TurnOf ==
    ASSUME NEW o \in Object, NEW list \in Seq(Names), NEW name \in Names,
           NEW count, count = Len(list) + 1,
           NEW new, new = Append(list, name),
           NEW p, p = Advanced(o, name, count),
           Shape(o), Ordered(o.strings),
           Leads(o, o.idx - 1, list), Rises(o.mapping, o.idx - 1),
           Live(o) => /\ name <= Current(o)
                      /\ Covers(o, o.idx - 1, list, Current(o)),
           \A q \in 1 .. Len(list) : list[q] <= name
    PROVE  AfterTurn(o, p, list, new, name)
  <1>1. /\ o.mapping \in Seq(Nat) /\ o.strings \in Seq(Names) /\ o.idx \in Nat
        /\ Len(o.strings) \in Nat /\ o.idx >= 1 /\ o.idx <= Len(o.strings) + 1
        /\ Len(list) \in Nat /\ count \in Nat
    BY LenProperties DEF Object, Shape
  <1>2. /\ p.strings = o.strings
        /\ ~(Live(o) /\ Current(o) = name) => p = o
        /\ Live(o) /\ Current(o) = name =>
               /\ p.idx = o.idx + 1 /\ p.mapping[o.idx] = count
               /\ \A j \in 1 .. o.idx - 1 : p.mapping[j] = o.mapping[j]
    BY <1>1, AdvancedCases
  <1>3. /\ Len(new) = count /\ new[count] = name
        /\ \A q \in 1 .. Len(list) : q \in 1 .. count /\ new[q] = list[q]
        /\ \A q \in 1 .. Len(new) : q \in 1 .. Len(list) \/ q = count
    BY <1>1, AppendProperties
  <1>4. \A i \in 1 .. Len(o.strings) : o.strings[i] \in Nat
    BY <1>1, ElementOfSeq, UnifyAssumption
  <1>5. /\ name \in Nat
        /\ \A q \in 1 .. Len(list) : list[q] \in Nat
    BY ElementOfSeq, UnifyAssumption
  <1>6. \A q \in 1 .. Len(new) : new[q] <= name /\ new[q] \in Nat
    <2>1. name <= name
      BY <1>5
    <2> QED
      BY <1>3, <1>5, <2>1
  <1>7. CASE Live(o) /\ Current(o) = name
    <2>1. /\ p.idx = o.idx + 1 /\ p.mapping[o.idx] = count
          /\ \A j \in 1 .. o.idx - 1 : p.mapping[j] = o.mapping[j]
          /\ p.idx - 1 = o.idx
      BY <1>1, <1>2, <1>7
    <2>6. /\ o.idx \in 1 .. p.idx - 1
          /\ \A j \in 1 .. o.idx - 1 : j \in 1 .. p.idx - 1
      BY <1>1, <2>1
    <2>2. Rises(p.mapping, p.idx - 1)
      <3> SUFFICES ASSUME NEW i \in 1 .. o.idx, NEW j \in 1 .. o.idx, i < j
                   PROVE  p.mapping[i] < p.mapping[j]
        BY <2>1 DEF Rises
      <3>1. i \in 1 .. o.idx - 1 /\ (j \in 1 .. o.idx - 1 \/ j = o.idx)
        BY <1>1
      <3>2. CASE j \in 1 .. o.idx - 1
        BY <2>1, <3>1, <3>2 DEF Rises
      <3>3. CASE j = o.idx
        <4>1. p.mapping[i] \in 1 .. Len(list) /\ p.mapping[j] = Len(list) + 1
          BY <2>1, <3>1, <3>3 DEF Leads
        <4> QED
          BY <1>1, <4>1
      <3> QED
        BY <3>1, <3>2, <3>3
    <2>3. \A n : n # name /\ Covers(o, o.idx - 1, list, n) =>
              Covers(p, p.idx - 1, new, n)
      <3> SUFFICES ASSUME NEW n, n # name, Covers(o, o.idx - 1, list, n),
                          NEW q \in 1 .. Len(new), new[q] = n
                   PROVE  \E j \in 1 .. p.idx - 1 : p.mapping[j] = q
        BY DEF Covers
      <3>1. q \in 1 .. Len(list) /\ list[q] = n
        BY <1>3
      <3>2. PICK j \in 1 .. o.idx - 1 : o.mapping[j] = q
        BY <3>1 DEF Covers
      <3>3. j \in 1 .. p.idx - 1 /\ p.mapping[j] = q
        BY <2>1, <2>6, <3>2
      <3> QED
        BY <3>3
    <2>4. Covers(p, p.idx - 1, new, name)
      <3> SUFFICES ASSUME NEW q \in 1 .. Len(new), new[q] = name
                   PROVE  \E j \in 1 .. p.idx - 1 : p.mapping[j] = q
        BY DEF Covers
      <3>1. CASE q = count
        BY <2>1, <2>6, <3>1
      <3>2. CASE q \in 1 .. Len(list)
        <4>1. list[q] = name
          BY <1>3, <3>2
        <4>2. PICK j \in 1 .. o.idx - 1 : o.mapping[j] = q
          BY <1>7, <3>2, <4>1 DEF Covers
        <4>3. j \in 1 .. p.idx - 1 /\ p.mapping[j] = q
          BY <2>1, <2>6, <4>2
        <4> QED
          BY <4>3
      <3> QED
        BY <1>3, <3>1, <3>2
    <2>5. ASSUME Live(p)
          PROVE  /\ \A q \in 1 .. Len(new) : new[q] <= Current(p)
                 /\ Covers(p, p.idx - 1, new, Current(p))
      <3>1. /\ o.idx + 1 \in 1 .. Len(o.strings) /\ o.idx \in 1 .. Len(o.strings)
            /\ Current(p) = o.strings[o.idx + 1] /\ o.idx < o.idx + 1
        <4>1. Current(p) = o.strings[o.idx + 1] /\ o.idx + 1 <= Len(o.strings)
          BY <1>2, <2>1, <2>5 DEF Live, Current
        <4> QED
          BY <1>1, <4>1
      <3>2. name <= Current(p) /\ Current(p) \in Nat
        BY <1>4, <1>7, <3>1 DEF Ordered, Current
      <3>3. \A q \in 1 .. Len(new) : new[q] <= Current(p)
        BY <1>5, <1>6, <3>2
      <3>4. CASE Current(p) = name
        BY <2>4, <3>3, <3>4
      <3>5. CASE Current(p) # name
        <4>1. \A q \in 1 .. Len(new) : new[q] # Current(p)
          BY <1>5, <1>6, <3>2, <3>5
        <4> QED
          BY <3>3, <4>1 DEF Covers
      <3> QED
        BY <3>4, <3>5
    <2> QED
      BY <1>2, <2>2, <2>3, <2>4, <2>5 DEF AfterTurn
  <1>8. CASE ~(Live(o) /\ Current(o) = name)
    <2>1. p = o
      BY <1>2, <1>8
    <2>2. \A n : n # name /\ Covers(o, o.idx - 1, list, n) =>
              Covers(o, o.idx - 1, new, n)
      BY <1>3 DEF Covers
    <2>3. ASSUME Live(o)
          PROVE  /\ \A q \in 1 .. Len(new) : new[q] <= Current(o)
                 /\ Covers(o, o.idx - 1, new, Current(o))
      <3>1. name <= Current(o) /\ Current(o) # name
        BY <1>8, <2>3
      <3>2. Current(o) \in Nat
        <4>1. o.idx \in 1 .. Len(o.strings)
          BY <1>1, <2>3 DEF Live
        <4> QED
          BY <1>4, <4>1 DEF Current
      <3>3. \A q \in 1 .. Len(new) : new[q] <= Current(o)
        BY <1>5, <1>6, <3>1, <3>2
      <3> QED
        BY <2>2, <2>3, <3>1, <3>3
    <2> QED
      BY <1>8, <2>1, <2>2, <2>3 DEF AfterTurn
  <1> QED
    BY <1>7, <1>8

LEMMA Turn ==
    ASSUME NEW o \in Object, NEW list \in Seq(Names), NEW name \in Names,
           BeforeTurn(o, list, name), \A q \in 1 .. Len(list) : list[q] <= name
    PROVE  AfterTurn(o, Advanced(o, name, Len(list) + 1), list,
                     Append(list, name), name)
  <1>1. /\ Shape(o) /\ Ordered(o.strings)
        /\ Leads(o, o.idx - 1, list) /\ Rises(o.mapping, o.idx - 1)
        /\ Live(o) => /\ name <= Current(o)
                      /\ Covers(o, o.idx - 1, list, Current(o))
    BY DEF BeforeTurn
  <1>2. PICK count, new, p : /\ count = Len(list) + 1
                             /\ new = Append(list, name)
                             /\ p = Advanced(o, name, count)
    OBVIOUS
  <1>3. AfterTurn(o, p, list, new, name)
    BY <1>1, <1>2, TurnOf, Zenon
  <1> QED
    BY <1>2, <1>3

LEMMA MergeNextUnion ==
    ASSUME IInv, UnionInv, NEW r \in Ranks, MergeNext(r)
    PROVE  UnionStep(r)'
  <1>1. /\ TypeOK /\ Frozen /\ OwnKept /\ TablesRise /\ 0 \in Ranks
        /\ RankInv(r) /\ RankUnion(r)
    BY UnionFacts DEF UnifyStep
  <1>2. pc[r] = "merge" /\ pc' = pc /\ chan' = chan /\ bcast' = bcast
    BY DEF MergeNext
  <1>3. PICK i \in LiveObjs(r) :
            /\ \A k \in LiveObjs(r) : Current(objs[r][i]) <= Current(objs[r][k])
            /\ merged' = [merged EXCEPT ![r] = Append(merged[r], Current(objs[r][i]))]
            /\ objs' = [objs EXCEPT ![r] = [k \in 1 .. Len(objs[r]) |->
                   Advanced(objs[r][k], Current(objs[r][i]), Len(merged[r]) + 1)]]
    BY DEF MergeNext
  <1>4. PICK name, list, count : /\ name = Current(objs[r][i])
                                 /\ list = merged[r]
                                 /\ count = Len(list) + 1
    OBVIOUS
  <1>5. /\ list \in Seq(Names) /\ Len(list) \in Nat /\ count \in Nat
        /\ Len(objs[r]) \in Nat
        /\ \A k \in Objects(r) : objs[r][k] \in Object
    BY <1>1, <1>4, ObjectTypes
  <1>6. name \in Names
    <2>1. i \in Objects(r) /\ Live(objs[r][i])
      BY DEF LiveObjs, Objects
    <2>2. /\ objs[r][i].strings \in Seq(Names)
          /\ objs[r][i].idx \in 1 .. Len(objs[r][i].strings)
      BY <1>1, <2>1, ObjectTypes DEF RankInv, Tables, Shape, Live
    <2>3. Current(objs[r][i]) \in Names
      BY <2>2, ElementOfSeq DEF Current
    <2> QED
      BY <1>4, <2>3
  <1>7. PICK new : new = Append(list, name)
    OBVIOUS
  <1>8. merged'[r] = new
    BY <1>1, <1>3, <1>4, <1>7 DEF TypeOK
  <1>9. objs'[r] = [k \in 1 .. Len(objs[r]) |-> Advanced(objs[r][k], name, count)]
    <2>1. objs' = [objs EXCEPT ![r] = [k \in 1 .. Len(objs[r]) |->
                                           Advanced(objs[r][k], name, count)]]
      BY <1>3, <1>4
    <2> QED
      BY <1>1, <2>1 DEF TypeOK
  <1>10. Len(objs'[r]) = Len(objs[r])
    BY <1>5, <1>9
  <1>11. /\ Ordered(list)
         /\ \A k \in LiveObjs(r) :
             /\ \A q \in 1 .. Len(list) : list[q] <= Current(objs[r][k])
             /\ Covers(objs[r][k], objs[r][k].idx - 1, list, Current(objs[r][k]))
         /\ \A n \in Names : \E k \in Objects(r) :
             Covers(objs[r][k], objs[r][k].idx - 1, list, n)
    BY <1>1, <1>2, <1>4 DEF RankUnion, Merging
  <1>12. \A q \in 1 .. Len(list) : list[q] <= name
    BY <1>4, <1>11
  <1>13. ASSUME NEW k \in Objects(r)
         PROVE  /\ AfterTurn(objs[r][k], objs'[r][k], list, new, name)
                /\ Ordered(objs[r][k].strings)
    <2>1. PICK o \in Object : o = objs[r][k]
      BY <1>5
    <2>2. objs'[r][k] = Advanced(o, name, count)
      BY <1>9, <2>1 DEF Objects
    <2>4. Shape(o) /\ Leads(o, o.idx - 1, list)
      BY <1>1, <1>2, <1>4, <2>1 DEF RankInv, Tables, Table
    <2>5. Ordered(o.strings) /\ Rises(o.mapping, o.idx - 1)
      BY <1>1, <1>2, <2>1 DEF RankUnion, Rising
    <2>6. Live(o) => /\ name <= Current(o)
                     /\ Covers(o, o.idx - 1, list, Current(o))
      <3>1. Live(o) => k \in LiveObjs(r)
        BY <2>1 DEF LiveObjs, Objects
      <3> QED
        BY <1>3, <1>4, <1>11, <2>1, <3>1
    <2>7. BeforeTurn(o, list, name)
      BY <2>4, <2>5, <2>6 DEF BeforeTurn
    <2>8. AfterTurn(o, Advanced(o, name, Len(list) + 1), list,
                    Append(list, name), name)
      BY <1>5, <1>6, <1>12, <2>7, Turn
    <2> QED
      BY <1>4, <1>7, <2>1, <2>2, <2>5, <2>8
  <1>14. Objects(r)' = Objects(r)
    BY <1>10 DEF Objects
  <1>15. (\A k \in Objects(r) : Rising(r, objs[r][k]))'
    <2>1. ASSUME NEW k \in Objects(r) PROVE Rising(r, objs[r][k])'
      <3>1. /\ Ordered(objs'[r][k].strings)
            /\ Rises(objs'[r][k].mapping, objs'[r][k].idx - 1)
        BY <1>13 DEF AfterTurn
      <3> QED
        BY <1>2, <3>1 DEF Rising, Later, Waiting, Final
    <2> QED
      BY <1>14, <2>1
  <1>16. Ordered(new)
    <2>1. /\ Len(new) = count /\ new[count] = name
          /\ \A q \in 1 .. Len(list) : new[q] = list[q]
      BY <1>4, <1>5, <1>6, <1>7, AppendProperties
    <2> SUFFICES ASSUME NEW a \in 1 .. Len(new), NEW b \in 1 .. Len(new), a < b
                 PROVE  new[a] <= new[b]
      BY DEF Ordered
    <2>2. a \in 1 .. Len(list) /\ (b \in 1 .. Len(list) \/ b = count)
      BY <1>4, <1>5, <2>1
    <2> QED
      BY <1>11, <1>12, <2>1, <2>2 DEF Ordered
  <1>17. Merging(r)'
    <2>1. \A k \in LiveObjs(r)' : k \in Objects(r) /\ Live(objs'[r][k])
      BY <1>10 DEF LiveObjs, Objects
    <2>2. ASSUME NEW k \in LiveObjs(r)'
          PROVE  /\ \A q \in 1 .. Len(new) : new[q] <= Current(objs'[r][k])
                 /\ Covers(objs'[r][k], objs'[r][k].idx - 1, new,
                           Current(objs'[r][k]))
      BY <1>13, <2>1 DEF AfterTurn
    <2>3. ASSUME NEW n \in Names
          PROVE  \E k \in Objects(r) : Covers(objs'[r][k], objs'[r][k].idx - 1, new, n)
      <3>1. CASE n = name
        <4>1. i \in Objects(r) /\ Live(objs[r][i])
          BY DEF LiveObjs, Objects
        <4>2. Covers(objs'[r][i], objs'[r][i].idx - 1, new, name)
          BY <1>4, <1>13, <4>1 DEF AfterTurn
        <4> QED
          BY <3>1, <4>1, <4>2
      <3>2. CASE n # name
        <4>1. PICK k \in Objects(r) : Covers(objs[r][k], objs[r][k].idx - 1, list, n)
          BY <1>11
        <4>2. Covers(objs'[r][k], objs'[r][k].idx - 1, new, n)
          BY <1>13, <3>2, <4>1 DEF AfterTurn
        <4> QED
          BY <4>2
      <3> QED
        BY <3>1, <3>2
    <2> QED
      BY <1>8, <1>14, <1>16, <2>2, <2>3 DEF Merging
  <1>18. RankUnion(r)'
    BY <1>2, <1>15, <1>17 DEF RankUnion, Collecting, Later, Waiting, Final
  <1>19. TablesRise' /\ (pc[0] \in Final => Union(merged[0]))'
    BY <1>1, <1>2, SameRising, GlobalStays
  <1> QED
    BY <1>1, <1>2, <1>18, <1>19, BcastStays DEF UnionStep

LEMMA MergeEndUnion ==
    ASSUME IInv, UnionInv, NEW r \in Ranks, MergeEnd(r)
    PROVE  UnionStep(r)'
  <1>1. /\ TypeOK /\ Frozen /\ OwnKept /\ TablesRise /\ 0 \in Ranks
        /\ RankInv(r) /\ RankUnion(r)
    BY UnionFacts DEF UnifyStep
  <1>2. /\ pc[r] = "merge" /\ \A q \in Ranks : q # r => pc'[q] = pc[q]
        /\ pc'[r] = IF r = 0 THEN "down" ELSE "ok"
    BY <1>1 DEF MergeEnd, GoTo, TypeOK
  <1>3. UNCHANGED <<objs, merged, unifier, bcast, chan>>
    BY DEF MergeEnd, treeVars
  <1>4. PICK list \in Seq(Names) : list = merged[r]
    BY <1>1, ObjectTypes
  <1>5. ASSUME NEW k \in Objects(r)
        PROVE  \E o \in Object :
                   /\ o = objs[r][k] /\ o.idx - 1 = Len(o.strings)
                   /\ Ordered(o.strings) /\ Rises(o.mapping, Len(o.strings))
                   /\ Leads(o, Len(o.strings), list)
    <2>1. PICK o \in Object : o = objs[r][k] /\ Shape(o) /\ ~Live(o)
      BY <1>1, ObjectTypes DEF RankInv, Tables, MergeEnd, LiveObjs, Objects
    <2>2. Len(o.strings) \in Nat /\ o.idx \in Nat
      BY <1>1, <2>1, ObjectTypes
    <2>3. o.idx - 1 = Len(o.strings)
      BY <2>1, <2>2 DEF Shape, Live
    <2>4. Leads(o, o.idx - 1, list)
      BY <1>1, <1>2, <1>4, <2>1 DEF RankInv, Tables, Table
    <2>5. Ordered(o.strings) /\ Rises(o.mapping, o.idx - 1)
      BY <1>1, <1>2, <2>1 DEF RankUnion, Rising
    <2> QED
      BY <2>1, <2>3, <2>4, <2>5
  <1>6. Union(list)
    <2>1. /\ Ordered(list)
          /\ \A n \in Names : \E k \in Objects(r) :
                 Covers(objs[r][k], objs[r][k].idx - 1, list, n)
      BY <1>1, <1>2, <1>4 DEF RankUnion, Merging
    <2>2. ASSUME NEW n \in Names
          PROVE  \E q \in Ranks :
                    /\ pc[q] \notin {"start", "buffer"}
                    /\ Occurrences(objs[q][1].strings, n) = Occurrences(list, n)
      <3>1. PICK k \in Objects(r) : Covers(objs[r][k], objs[r][k].idx - 1, list, n)
        BY <2>1
      <3>2. Occurrences(objs[r][k].strings, n) = Occurrences(list, n)
        <4>1. PICK o \in Object :
                   /\ o = objs[r][k] /\ o.idx - 1 = Len(o.strings)
                   /\ Rises(o.mapping, Len(o.strings))
                   /\ Leads(o, Len(o.strings), list)
          BY <1>5
        <4>2. Covers(o, Len(o.strings), list, n)
          BY <3>1, <4>1
        <4> QED
          BY <4>1, <4>2, AsOften
      <3>3. CASE k = 1
        BY <1>2, <3>2, <3>3
      <3>4. CASE k # 1
        <4>1. k \in 2 .. Len(objs[r])
          BY <1>1, <3>4, ObjectTypes DEF Objects
        <4>2. PICK c \in Ranks : /\ pc[c] \in SentUp
                                 /\ objs[r][k].strings = Up(c)
          BY <1>1, <4>1 DEF RankInv, Children
        <4>3. Union(Up(c))
          BY <4>2 DEF UnionInv, RankUnion, Later, Waiting, Final, SentUp
        <4>4. PICK q \in Ranks :
                    /\ pc[q] \notin {"start", "buffer"}
                    /\ Occurrences(objs[q][1].strings, n) = Occurrences(Up(c), n)
          BY <4>3 DEF Union, MostOften
        <4> QED
          BY <3>2, <4>2, <4>4
      <3> QED
        BY <3>3, <3>4
    <2> QED
      BY <2>1, <2>2 DEF Union, MostOften
  <1>7. Union(list)'
    BY <1>1, <1>6, UnionStays
  <1>8. Union(Up(r))'
    <2>1. CASE Len(objs[r]) > 1
      <3>1. Up(r)' = list
        BY <1>3, <1>4, <2>1 DEF Up
      <3> QED
        BY <1>7, <3>1 DEF Union, MostOften
    <2>2. CASE ~(Len(objs[r]) > 1)
      <3>1. PICK own : own = objs[r][1].strings
        OBVIOUS
      <3>2. Up(r)' = own
        BY <1>3, <2>2, <3>1 DEF Up
      <3>3. Union(own)
        BY <1>2, <3>1, OwnUnion
      <3>4. Union(own)'
        BY <1>1, <3>3, UnionStays
      <3> QED
        BY <3>2, <3>4 DEF Union, MostOften
    <2> QED
      BY <2>1, <2>2
  <1>9. RankUnion(r)'
    <2>1. ASSUME NEW k \in Objects(r) PROVE Rising(r, objs[r][k])'
      <3>1. /\ Ordered(objs[r][k].strings)
            /\ Rises(objs[r][k].mapping, Len(objs[r][k].strings))
        BY <1>5
      <3>2. pc'[r] # "merge"
        BY <1>2
      <3> QED
        BY <1>3, <3>1, <3>2 DEF Rising
    <2>2. (\A k \in Objects(r) : Rising(r, objs[r][k]))'
      BY <1>3, <2>1 DEF Objects
    <2>3. pc'[r] # "done" /\ pc'[r] # "merge" /\ pc'[r] \notin Collecting
      BY <1>2 DEF Collecting
    <2> QED
      BY <1>8, <2>2, <2>3 DEF RankUnion, Merging
  <1>10. (pc[0] \in Final => Union(merged[0]))'
    <2>1. CASE r = 0
      <3>1. merged'[0] = list
        BY <1>3, <1>4, <2>1
      <3> QED
        BY <1>7, <3>1 DEF Union, MostOften
    <2>2. CASE r # 0
      <3>1. pc'[0] = pc[0]
        BY <1>1, <1>2, <2>2
      <3> QED
        BY <1>1, <3>1, GlobalStays
    <2> QED
      BY <2>1, <2>2
  <1>11. TablesRise'
    BY <1>1, <1>3, SameRising
  <1> QED
    BY <1>1, <1>3, <1>9, <1>10, <1>11, BcastStays DEF UnionStep

-----------------------------------------------------------------------------
(* The way down.                                                           *)

\* A table that rises, applied to a table that rises and leads into it.
LEMMA MappedRises ==
    ASSUME NEW o \in Object, NEW table \in Seq(Nat), NEW list,
           Len(list) = Len(table), Len(o.mapping) = Len(o.strings),
           Rises(o.mapping, Len(o.strings)), Rises(table, Len(table)),
           Leads(o, Len(o.strings), list),
           NEW w, w = Mapped(o, table)
    PROVE  w.strings = o.strings /\ Rises(w.mapping, Len(o.strings))
  <1>1. PICK mapping :
            mapping = [j \in 1 .. Len(o.mapping) |-> table[o.mapping[j]]]
    OBVIOUS
  <1>2. w = [o EXCEPT !.mapping = mapping]
    BY <1>1 DEF Mapped
  <1>3. w.strings = o.strings /\ w.mapping = mapping
    BY <1>2 DEF Object
  <1>4. ASSUME NEW i \in 1 .. Len(o.strings), NEW j \in 1 .. Len(o.strings),
               i < j
        PROVE  mapping[i] < mapping[j]
    <2>1. /\ o.mapping[i] \in 1 .. Len(table) /\ o.mapping[j] \in 1 .. Len(table)
          /\ o.mapping[i] < o.mapping[j]
      BY <1>4 DEF Rises, Leads
    <2>2. table[o.mapping[i]] < table[o.mapping[j]]
      BY <2>1 DEF Rises
    <2>3. mapping[i] = table[o.mapping[i]] /\ mapping[j] = table[o.mapping[j]]
      BY <1>1, <1>4
    <2> QED
      BY <2>2, <2>3
  <1> QED
    BY <1>3, <1>4 DEF Rises

LEMMA ReceiveMapUnion ==
    ASSUME IInv, UnionInv, NEW r \in Ranks, ReceiveMap(r)
    PROVE  UnionStep(r)'
  <1>1. /\ TypeOK /\ Frozen /\ OwnKept /\ TablesRise /\ 0 \in Ranks
        /\ RankInv(r) /\ RankUnion(r) /\ Messages
    BY UnionFacts DEF UnifyStep
  <1>2. /\ pc[r] = "map" /\ pc'[r] = "down"
        /\ \A q \in Ranks : q # r => pc'[q] = pc[q]
        /\ merged' = merged /\ bcast' = bcast /\ r # 0
    BY <1>1 DEF ReceiveMap, GoTo, TypeOK, RankInv, Tree, Waiting
  <1>3. PICK p \in Ranks : p = Parent(r)
    BY <1>1, <1>2 DEF RankInv, Tree, Waiting
  <1>4. Arrived(r, p, "map") /\ Receive(r, p) /\ chan[p, r] # <<>>
    BY <1>3 DEF ReceiveMap, Arrived
  <1>5. Len(objs[r]) \in Nat /\ Len(objs[r]) >= 1
    BY <1>1, <1>2, ObjectTypes DEF RankInv, OwnNames
  <1>6. PICK table \in Seq(Nat) :
            /\ table = Body(r, p) /\ Len(table) = Len(Up(r))
            /\ Rises(table, Len(table))
    <2>1. /\ Head(chan[p, r]) \in Message /\ Head(chan[p, r]).kind = "map"
          /\ Carries(p, r, Head(chan[p, r]))
      BY <1>1, <1>4, FirstMessage
    <2>2. Head(chan[p, r]).body \in Seq(Nat)
      BY <2>1, BodyTypes
    <2>3. Head(chan[p, r]) = chan[p, r][1] /\ 1 \in 1 .. Len(chan[p, r])
      <3>1. chan[p, r] \in Seq(Message)
        BY <1>1 DEF TypeOK
      <3> QED
        BY <1>4, <3>1, TakenFrom
    <2>4. Rises(Head(chan[p, r]).body, Len(Head(chan[p, r]).body))
      BY <1>1, <2>1, <2>3 DEF TablesRise
    <2> QED
      BY <2>1, <2>2, <2>4 DEF Body, Carries
  <1>7. ASSUME NEW k \in Objects(r)
        PROVE  Rising(r, objs[r][k])'
    <2>1. PICK o \in Object :
              /\ o = objs[r][k] /\ Len(o.mapping) = Len(o.strings)
              /\ Leads(o, Len(o.strings), Up(r))
              /\ Ordered(o.strings) /\ Rises(o.mapping, Len(o.strings))
      BY <1>1, <1>2, ObjectTypes
      DEF RankInv, Tables, Shape, Table, RankUnion, Rising, Later, Waiting
    <2>2. PICK w : w = objs'[r][k] /\ w = Mapped(o, table)
      BY <1>1, <1>3, <1>5, <1>6, <2>1, MappedProperties
    <2>3. w.strings = o.strings /\ Rises(w.mapping, Len(o.strings))
      BY <1>6, <2>1, <2>2, MappedRises
    <2> QED
      BY <1>2, <2>1, <2>2, <2>3 DEF Rising
  <1>8. Objects(r)' = Objects(r)
    BY <1>1, <1>5, MappedProperties DEF Objects
  <1>9. (\A k \in Objects(r) : Rising(r, objs[r][k]))'
    BY <1>7, <1>8
  <1>10. Union(Up(r))'
    <2>1. PICK up : up = Up(r) /\ up = Up(r)'
      BY <1>1, <1>2 DEF Frozen, SentUp
    <2>2. Union(up)'
      BY <1>1, <1>2, <2>1, UnionStays DEF RankUnion, Later, Waiting
    <2> QED
      BY <2>1, <2>2 DEF Union, MostOften
  <1>11. RankUnion(r)'
    BY <1>2, <1>9, <1>10 DEF RankUnion, Merging, Collecting
  <1>12. TablesRise' /\ (pc[0] \in Final => Union(merged[0]))'
    <2>1. pc'[0] = pc[0]
      BY <1>1, <1>2
    <2> QED
      BY <1>1, <1>4, <2>1, TakeRising, GlobalStays
  <1> QED
    BY <1>1, <1>2, <1>11, <1>12, BcastStays DEF UnionStep

LEMMA ReturnUnion ==
    ASSUME IInv, UnionInv, NEW r \in Ranks, Return(r)
    PROVE  UnionStep(r)'
  <1>1. /\ TypeOK /\ Frozen /\ OwnKept /\ TablesRise /\ 0 \in Ranks
        /\ RankInv(r) /\ RankUnion(r) /\ lister[r] = "functions"
    BY UnionFacts DEF UnifyStep, RankInv, OwnNames
  <1>2. /\ pc[r] = "down" /\ pc'[r] = "done"
        /\ \A q \in Ranks : q # r => pc'[q] = pc[q]
    BY <1>1 DEF Return, GoTo, TypeOK
  <1>3. UNCHANGED <<objs, merged, chan>>
    BY DEF Return, treeVars
  <1>4. PICK n : /\ n = Len(merged[0])
                 /\ n = IF r = 0 THEN Len(merged[r]) ELSE bcast["functions"]
    <2>1. r # 0 => bcast["functions"] # -1
      BY <1>1 DEF Return
    <2>2. bcast["functions"] \in {-1, Len(merged[0])}
      BY DEF UnionInv
    <2> QED
      BY <2>1, <2>2
  <1>5. /\ bcast' = [bcast EXCEPT !["functions"] = n]
        /\ unifier' = [unifier EXCEPT ![r] =
               [unifier[r] EXCEPT !["functions"] = Unified(r, n)]]
    BY <1>1, <1>4 DEF Return
  <1>6. bcast'["functions"] = n
    BY <1>1, <1>5 DEF TypeOK, Listers
  <1>7. unifier'[r]["functions"].globalNumItems = n
    <2>1. Unified(r, n).globalNumItems = n
      BY DEF Unified
    <2>2. "functions" \in Listers
      BY DEF Listers
    <2>3. unifier \in [Ranks -> [Listers -> Unifier]]
      BY <1>1 DEF TypeOK
    <2>4. unifier'[r]["functions"] = Unified(r, n)
      BY <1>5, <2>2, <2>3
    <2> QED
      BY <2>1, <2>4
  <1>8. (\A k \in Objects(r) : Rising(r, objs[r][k]))'
    <2>1. ASSUME NEW k \in Objects(r) PROVE Rising(r, objs[r][k])'
      BY <1>1, <1>2, <1>3 DEF RankUnion, Rising, Later, Final
    <2> QED
      BY <1>3, <2>1 DEF Objects
  <1>9. Union(Up(r))'
    <2>1. PICK up : up = Up(r) /\ up = Up(r)'
      BY <1>3 DEF Up
    <2>2. Union(up)'
      BY <1>1, <1>2, <2>1, UnionStays DEF RankUnion, Later, Final
    <2> QED
      BY <2>1, <2>2 DEF Union, MostOften
  <1>10. RankUnion(r)'
    BY <1>2, <1>3, <1>4, <1>7, <1>8, <1>9 DEF RankUnion, Merging, Collecting
  <1>11. TablesRise' /\ (pc[0] \in Final => Union(merged[0]))'
    <2>1. pc'[0] \in Final => pc[0] \in Final
      BY <1>1, <1>2 DEF Final
    <2> QED
      BY <1>1, <1>3, <2>1, SameRising, GlobalStays
  <1> QED
    BY <1>3, <1>4, <1>6, <1>10, <1>11 DEF UnionStep

-----------------------------------------------------------------------------
(* The global list.                                                        *)

LEMMA UnifyStepUnion ==
    ASSUME IInv, UnionInv, NEW r \in Ranks, UnifyStep(r), wild' = {}
    PROVE  UnionStep(r)'
  BY EarlyUnion, FillBufferUnion, SkipChildUnion, AskChildUnion, ReceiveLengthUnion,
     ReceiveNamesUnion, EndTreeUnion, MergeNextUnion, MergeEndUnion,
     SendLengthUnion, SendNamesUnion, ReceiveMapUnion, SendMapUnion, ReturnUnion
     DEF UnifyStep

\* Nothing that the invariant is about is changed.
LEMMA SameUnion ==
    ASSUME IInv, UnionInv,
           UNCHANGED <<pc, objs, merged, unifier, chan, bcast>>
    PROVE  UnionInv'
  <1>1. OwnKept /\ Frozen
    BY DEF OwnKept, Frozen, Up
  <1>2. \A q \in Ranks : RankUnion(q)'
    <2>1. ASSUME NEW q \in Ranks PROVE RankUnion(q)'
      <3>1. RankUnion(q)
        BY DEF UnionInv
      <3> QED
        BY <1>1, <3>1, RankUnionStays
    <2> QED
      BY <2>1
  <1>3. TablesRise'
    BY SameRising DEF UnionInv
  <1>4. (pc[0] \in Final => Union(merged[0]))'
    BY <1>1, GlobalStays
  <1>5. (bcast["functions"] \in {-1, Len(merged[0])})'
    BY DEF UnionInv
  <1> QED
    BY <1>2, <1>3, <1>4, <1>5 DEF UnionInv

LEMMA UnionNext == IInv /\ UnionInv /\ [Next]_vars /\ wild' = {} => UnionInv'
  <1> SUFFICES ASSUME IInv, UnionInv, [Next]_vars, wild' = {} PROVE UnionInv'
    OBVIOUS
  <1>1. ASSUME NEW r \in Ranks, UnifyStep(r) PROVE UnionInv'
    <2>1. UnionStep(r)'
      BY <1>1, UnifyStepUnion
    <2>2. \A q \in Ranks : q # r => RankUnion(q)'
      BY <1>1, OthersUnion
    <2> QED
      BY <2>1, <2>2 DEF UnionInv, UnionStep
  <1>2. ASSUME NEW r \in Ranks, Register(r) PROVE UnionInv'
    BY <1>2, SameUnion DEF Register, treeVars
  <1>3. CASE UNCHANGED vars
    BY <1>3, SameUnion DEF vars, treeVars
  <1> QED
    BY <1>1, <1>2, <1>3 DEF Next

\* What has been read behind the end of a map stays read.
LEMMA WildGrows == [Next]_vars => wild \subseteq wild'
  <1> SUFFICES ASSUME [Next]_vars PROVE wild \subseteq wild'
    OBVIOUS
  <1>1. ASSUME NEW r \in Ranks, FillBuffer(r) \/ FillBufferCrash(r) PROVE wild \subseteq wild'
    BY <1>1 DEF FillBuffer, FillBufferCrash
  <1>2. ASSUME NEW r \in Ranks,
               Start(r) \/ SkipChild(r) \/ AskChild(r) \/ ReceiveLength(r)
                 \/ ReceiveNames(r) \/ EndTree(r) \/ MergeNext(r) \/ MergeEnd(r)
        PROVE  wild' = wild
    BY <1>2, Zenon DEF Start, SkipChild, AskChild, ReceiveLength, ReceiveNames, EndTree,
       MergeNext, MergeEnd
  <1>3. ASSUME NEW r \in Ranks,
               SendLength(r) \/ SendNames(r) \/ ReceiveMap(r) \/ SendMap(r) \/ Return(r)
                 \/ Register(r)
        PROVE  wild' = wild
    BY <1>3, Zenon DEF SendLength, SendNames, ReceiveMap, SendMap, Return, Register
  <1>4. CASE UNCHANGED vars
    BY <1>4 DEF vars
  <1> QED
    BY <1>1, <1>2, <1>3, <1>4 DEF Next, UnifyStep

LEMMA UnionInit == Init => UnionInv
  <1> SUFFICES ASSUME Init PROVE UnionInv
    OBVIOUS
  <1>1. 0 \in Ranks
    BY RankFacts
  <1>2. ASSUME NEW r \in Ranks PROVE RankUnion(r)
    <2>1. /\ pc[r] = "start" /\ Objects(r) = {}
      <3>1. Len(objs[r]) = 0
        BY DEF Init
      <3>2. 1 .. 0 = {}
        OBVIOUS
      <3> QED
        BY <3>1, <3>2 DEF Init, Objects
    <2> QED
      BY <2>1 DEF RankUnion, Merging, Later, Waiting, Final, Collecting
  <1>3. TablesRise
    <2>1. ASSUME NEW s \in Ranks, NEW d \in Ranks
          PROVE  1 .. Len(chan[s, d]) = {}
      <3>1. Len(chan[s, d]) = 0
        BY DEF Init
      <3>2. 1 .. 0 = {}
        OBVIOUS
      <3> QED
        BY <3>1, <3>2
    <2> QED
      BY <2>1 DEF TablesRise
  <1>4. pc[0] = "start" /\ bcast["functions"] = -1
    BY <1>1 DEF Init, Listers
  <1> QED
    BY <1>2, <1>3, <1>4 DEF UnionInv, Final

\* What the ranks have returned is what they had merged.
LEMMA ReturnedAll ==
    ASSUME IInv, UnionInv, NEW l \in Listers, Returned(l)
    PROVE  /\ l = "functions" /\ 0 \in Ranks
           /\ unifier[0][l].globalStrings = merged[0]
           /\ \A r \in Ranks :
               /\ pc[r] = "done"
               /\ unifier[r][l].globalNumItems = Len(merged[0])
               /\ LocalStrings(r, l) = objs[r][1].strings
               /\ Len(objs[r]) >= 1
  <1>1. 0 \in Ranks /\ NoUnifier.globalNumItems = -1 /\ TypeOK
    BY RankFacts DEF NoUnifier, IInv
  <1>2. \A r \in Ranks : RankInv(r) /\ unifier[r][l] # NoUnifier
    BY <1>1 DEF Returned, IInv
  <1>3. l = "functions" /\ \A r \in Ranks : pc[r] = "done"
    BY <1>1, <1>2 DEF RankInv, Result, Listers
  <1>4. ASSUME NEW r \in Ranks
        PROVE  /\ LocalStrings(r, l) = objs[r][1].strings
               /\ Len(objs[r]) >= 1
    <2>1. 1 \in Objects(r) /\ Len(objs[r]) >= 1
      <3>1. Len(objs[r]) >= 1
        BY <1>2, <1>3 DEF RankInv, OwnNames
      <3>2. Len(objs[r]) \in Nat
        BY <1>1, ObjectTypes
      <3> QED
        BY <3>1, <3>2 DEF Objects
    <2>2. PICK own \in Seq(Names) : own = objs[r][1].strings
      BY <1>1, <2>1, ObjectTypes
    <2>3. /\ unifier[r][l].localNumItems = Len(own)
          /\ unifier[r][l].sortMap = sortMap[r]
          /\ Len(sortMap[r]) = Len(own)
          /\ \A i \in 1 .. Len(own) : db[l][r][sortMap[r][i]].name = own[i]
      BY <1>2, <1>3, <2>2 DEF RankInv, Result, OwnNames
    <2>4. LocalStrings(r, l) = [i \in 1 .. Len(own) |-> own[i]]
      BY <2>3 DEF LocalStrings
    <2>5. own = [i \in 1 .. Len(own) |-> own[i]]
      BY <2>2
    <2> QED
      BY <2>1, <2>2, <2>4, <2>5
  <1> QED
    BY <1>1, <1>2, <1>3, <1>4 DEF RankInv, Result, UnionInv, RankUnion

\* The list of global names that Tau_unify_unifyEvents_MPI leaves on rank 0 is
\* sorted, has each name as often as the rank that has it most often, and has
\* the length that every rank is told, whatever the number of ranks and their
\* events, and whatever order the merges and the messages of the tree take, if no
\* rank has read its sort map behind the end.
THEOREM GlobalListIsUnion == Spec => []GlobalIsUnion
  <1> DEFINE Inv == IInv /\ (wild = {} => UnionInv)
  <1>1. Inv => GlobalIsUnion
    <2> SUFFICES ASSUME IInv, UnionInv, NEW l \in Listers, Returned(l),
                        NEW global, global = unifier[0][l].globalStrings
                 PROVE  /\ \A i, j \in DOMAIN global :
                               i < j => global[i] <= global[j]
                        /\ \A n \in Names :
                            /\ \A r \in Ranks :
                                   Occurrences(LocalStrings(r, l), n)
                                       <= Occurrences(global, n)
                            /\ \E r \in Ranks :
                                   Occurrences(LocalStrings(r, l), n)
                                       = Occurrences(global, n)
                        /\ \A r \in Ranks :
                               unifier[r][l].globalNumItems = Len(global)
      BY DEF GlobalIsUnion
    <2>1. /\ 0 \in Ranks /\ TypeOK /\ global = merged[0]
          /\ \A r \in Ranks :
               /\ pc[r] = "done"
               /\ unifier[r][l].globalNumItems = Len(merged[0])
               /\ LocalStrings(r, l) = objs[r][1].strings
               /\ Len(objs[r]) >= 1
      BY ReturnedAll DEF IInv
    <2>2. Union(global)
      BY <2>1 DEF UnionInv, Final
    <2>3. global \in Seq(Names) /\ DOMAIN global = 1 .. Len(global)
      BY <2>1, ObjectTypes, LenProperties
    <2>4. \A i, j \in DOMAIN global : i < j => global[i] <= global[j]
      BY <2>2, <2>3 DEF Union, Ordered
    <2>5. ASSUME NEW n \in Names, NEW r \in Ranks
          PROVE  Occurrences(LocalStrings(r, l), n) <= Occurrences(global, n)
      <3>1. 1 \in Objects(r)
        BY <2>1, ObjectTypes DEF Objects
      <3>2. PICK o \in Object : o = objs[r][1]
        BY <2>1, <3>1, ObjectTypes
      <3>3. Leads(o, Len(o.strings), global)
        BY <2>1, <3>1, <3>2 DEF IInv, RankInv, Tables, Table, Final
      <3>4. Rises(o.mapping, Len(o.strings))
        BY <2>1, <3>1, <3>2 DEF UnionInv, RankUnion, Rising, Later, Final
      <3>5. Occurrences(o.strings, n) <= Occurrences(global, n)
        BY <2>3, <3>3, <3>4, NotMore
      <3> QED
        BY <2>1, <3>2, <3>5
    <2>6. ASSUME NEW n \in Names
          PROVE  \E r \in Ranks :
                     Occurrences(LocalStrings(r, l), n) = Occurrences(global, n)
      <3>1. PICK q \in Ranks :
                Occurrences(objs[q][1].strings, n) = Occurrences(global, n)
        BY <2>2 DEF Union, MostOften
      <3> QED
        BY <2>1, <3>1
    <2> QED
      BY <2>1, <2>4, <2>5, <2>6
  <1>2. Init => Inv
    BY InductiveInit, UnionInit
  <1>3. Inv /\ [Next]_vars => Inv'
    BY InductiveNext, UnionNext, WildGrows
  <1> QED
    BY <1>1, <1>2, <1>3, PTL DEF Spec

=============================================================================
