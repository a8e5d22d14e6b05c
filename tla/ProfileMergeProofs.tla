-------------------------- MODULE ProfileMergeProofs --------------------------
(***************************************************************************)
(* That no rank takes one message for another (MessagesMatch), for any     *)
(* number of ranks, any databases and settings, and with events that other *)
(* threads register during the calls.                                      *)
(*                                                                         *)
(* MessagesMatch looks at the first message of a channel only and says     *)
(* nothing of how it got there, so it is not inductive.  The invariant     *)
(* PInv numbers the messages between each two ranks, in each direction,    *)
(* through both unifications and the collection of the buffers: where a    *)
(* rank is determines how many it has sent and taken (DownSent, DownTaken, *)
(* UpSent, UpTaken), a channel holds those sent and not yet taken, and the *)
(* number of a message determines its kind (Protocol).  For this the tree  *)
(* is needed: a rank has one parent, and between a mask and its double     *)
(* there is one child at most (Edge, Placed); a rank has an object for     *)
(* each child it has heard of and no other (Family); and the lists and     *)
(* tables that are under way fit their receivers' arrays (Mail, Fits).     *)
(* A rank that leaves a call has sent and taken all that it has to in it   *)
(* (CallDone), though what it has sent may still be under way.             *)
(*                                                                         *)
(* And that the ids which the ranks are given are those of their own       *)
(* events' names, through both calls (NamesKept).  That is about results,  *)
(* which a rank only has when it leaves a call, so NInv follows the names  *)
(* on their way: up in the lists of the ranks and of their messages, and   *)
(* down in the tables, which lead into the list that is above (Leading,    *)
(* Kin, Carrying).  Ranks are in different calls at a time, so the list of *)
(* a call (Global) outlives rank 0's stay in it (Given, Announced).  No     *)
(* order of the names is needed for this, so lists that are not sorted,    *)
(* as they may be from a rank that has read behind the end of its sort     *)
(* map, do not disturb the names of other ranks.                           *)
(***************************************************************************)
EXTENDS ProfileMerge, UnifyProofs

\* The values a mask takes: 1, 2, 4, ...
Masks == {m \in Nat : \A S \in SUBSET Nat :
             (1 \in S /\ \A x \in S : 2 * x \in S) => m \in S}

LEMMA MaskFacts ==
    /\ 1 \in Masks
    /\ \A m \in Masks : m \in Nat /\ 2 * m \in Masks
  <1>1. 1 \in Masks
    BY DEF Masks
  <1>2. ASSUME NEW m \in Masks
        PROVE  m \in Nat /\ 2 * m \in Masks
    <2>1. m \in Nat /\ 2 * m \in Nat
      BY DEF Masks
    <2>2. ASSUME NEW S \in SUBSET Nat, 1 \in S /\ \A x \in S : 2 * x \in S
          PROVE  2 * m \in S
      <3>1. m \in S
        BY <2>2 DEF Masks
      <3> QED
        BY <2>2, <3>1
    <2> QED
      BY <2>1, <2>2 DEF Masks
  <1> QED
    BY <1>1, <1>2

\* What holds of 1 and is inherited by the double holds of all masks.
LEMMA MaskInduction ==
    ASSUME NEW S, S \subseteq Masks, 1 \in S, \A x \in S : 2 * x \in S
    PROVE  S = Masks
  <1>1. S \in SUBSET Nat
    BY MaskFacts
  <1>2. ASSUME NEW m \in Masks
        PROVE  m \in S
    BY <1>1 DEF Masks
  <1> QED
    BY <1>2

LEMMA MaskPositive == \A m \in Masks : m \in Nat /\ m >= 1
  <1> DEFINE S == {m \in Masks : m >= 1}
  <1>1. S = Masks
    <2>1. 1 \in S
      BY MaskFacts
    <2>2. \A x \in S : 2 * x \in S
      BY MaskFacts
    <2> HIDE DEF S
    <2>3. S \subseteq Masks
      BY DEF S
    <2> QED
      BY <2>1, <2>2, <2>3, MaskInduction
  <1> QED
    BY <1>1, MaskFacts

\* A mask that is not 1 is the double of another.
LEMMA MaskHalved == \A m \in Masks : m = 1 \/ \E j \in Masks : m = 2 * j
  <1> DEFINE S == {m \in Masks : m = 1 \/ \E j \in Masks : m = 2 * j}
  <1>1. 1 \in S
    BY MaskFacts
  <1>2. \A x \in S : 2 * x \in S
    BY MaskFacts
  <1>3. S \subseteq Masks
    OBVIOUS
  <1>4. S = Masks
    <2> HIDE DEF S
    <2> QED
      BY <1>1, <1>2, <1>3, MaskInduction
  <1> QED
    BY <1>4

\* Two masks are equal, or one is the double of a multiple of the other.
LEMMA MasksNested ==
    ASSUME NEW n \in Masks, NEW m \in Masks
    PROVE  \/ m = n
           \/ \E j \in Masks : n = 2 * (m * j)
           \/ \E j \in Masks : m = 2 * (n * j)
  <1> DEFINE Q(x) == \A y \in Masks : \/ y = x
                                      \/ \E j \in Masks : x = 2 * (y * j)
                                      \/ \E j \in Masks : y = 2 * (x * j)
             S == {x \in Masks : Q(x)}
  <1>1. 1 \in S
    <2>1. ASSUME NEW y \in Masks, y # 1
          PROVE  \E j \in Masks : y = 2 * (1 * j)
      BY <2>1, MaskHalved, MaskFacts
    <2> QED
      BY <2>1, MaskFacts
  <1>2. ASSUME NEW x \in S
        PROVE  2 * x \in S
    <2>1. x \in Masks /\ 2 * x \in Masks /\ x \in Nat
      BY MaskFacts
    <2>2. ASSUME NEW y \in Masks
          PROVE  \/ y = 2 * x
                 \/ \E j \in Masks : 2 * x = 2 * (y * j)
                 \/ \E j \in Masks : y = 2 * ((2 * x) * j)
      <3>0. y \in Nat
        BY MaskFacts
      <3>1. CASE y = x
        BY <3>0, <3>1, MaskFacts
      <3>2. CASE \E j \in Masks : x = 2 * (y * j)
        <4>1. PICK j \in Masks : x = 2 * (y * j)
          BY <3>2
        <4>2. 2 * j \in Masks /\ j \in Nat
          BY MaskFacts
        <4>3. 2 * x = 2 * (y * (2 * j))
          BY <2>1, <3>0, <4>1, <4>2
        <4> QED
          BY <4>2, <4>3
      <3>3. CASE \E j \in Masks : y = 2 * (x * j)
        <4>1. PICK j \in Masks : y = 2 * (x * j)
          BY <3>3
        <4>2. CASE j = 1
          BY <2>1, <4>1, <4>2
        <4>3. CASE j # 1
          <5>1. PICK i \in Masks : j = 2 * i
            BY <4>3, MaskHalved
          <5>2. i \in Nat /\ j \in Nat
            BY MaskFacts
          <5>3. y = 2 * ((2 * x) * i)
            BY <2>1, <4>1, <5>1, <5>2
          <5> QED
            BY <5>3
        <4> QED
          BY <4>2, <4>3
      <3>4. Q(x)
        OBVIOUS
      <3> QED
        BY <3>1, <3>2, <3>3, <3>4
    <2> QED
      BY <2>1, <2>2
  <1>3. S \subseteq Masks
    OBVIOUS
  <1>4. S = Masks
    <2> HIDE DEF S
    <2> QED
      BY <1>1, <1>2, <1>3, MaskInduction
  <1>5. Q(n)
    BY <1>4
  <1> QED
    BY <1>5

LEMMA Cancelled ==
    ASSUME NEW m \in Nat, m >= 1, NEW x \in Int, NEW y \in Int, m * x = m * y
    PROVE  x = y
  OBVIOUS

\* Masks do not lie between a mask and its double.
LEMMA MasksApart ==
    ASSUME NEW m \in Masks, NEW n \in Masks, m < n
    PROVE  2 * m <= n /\ \E j \in Masks : n = 2 * (m * j)
  <1>1. m \in Nat /\ n \in Nat /\ m >= 1 /\ n >= 1
    BY MaskPositive
  <1>2. ASSUME NEW j \in Masks
        PROVE  j \in Nat /\ j >= 1 /\ n * j >= n /\ m * j >= m
    BY <1>1, MaskPositive
  <1>3. CASE \E j \in Masks : n = 2 * (m * j)
    <2>1. PICK j \in Masks : n = 2 * (m * j)
      BY <1>3
    <2>2. m * j >= m /\ m * j \in Int
      BY <1>1, <1>2
    <2> QED
      BY <1>1, <2>1, <2>2
  <1>4. CASE \E j \in Masks : m = 2 * (n * j)
    <2>1. PICK j \in Masks : m = 2 * (n * j)
      BY <1>4
    <2>2. n * j >= n /\ n * j \in Int
      BY <1>1, <1>2
    <2> QED
      BY <1>1, <2>1, <2>2
  <1> QED
    BY <1>1, <1>3, <1>4, MasksNested

\* The mask at which a number's least bit is found is its only one.
LEMMA OneLeastBit ==
    ASSUME NEW m \in Masks, NEW n \in Masks, NEW a \in Nat, NEW b \in Nat,
           m * (2 * a + 1) = n * (2 * b + 1)
    PROVE  m = n
  <1>1. m \in Nat /\ n \in Nat /\ m >= 1 /\ n >= 1
    BY MaskPositive
  <1>2. ASSUME NEW x \in Masks, NEW y \in Masks, NEW c \in Nat, NEW d \in Nat,
               x * (2 * c + 1) = y * (2 * d + 1)
        PROVE  ~(x < y)
    <2>1. SUFFICES ASSUME x < y PROVE FALSE
      OBVIOUS
    <2>2. x \in Nat /\ y \in Nat /\ x >= 1
      BY MaskPositive
    <2>3. PICK j \in Masks : y = 2 * (x * j)
      BY <2>1, MasksApart
    <2>4. j \in Nat
      BY MaskFacts
    <2>5. x * (2 * c + 1) = x * (2 * (j * (2 * d + 1)))
      BY <1>2, <2>2, <2>3, <2>4
    <2>6. 2 * c + 1 = 2 * (j * (2 * d + 1))
      <3>1. 2 * c + 1 \in Int /\ 2 * (j * (2 * d + 1)) \in Int
        BY <2>4
      <3> QED
        BY <2>2, <2>5, <3>1, Cancelled
    <2>7. PICK z \in Int : z = j * (2 * d + 1)
      BY <2>4
    <2> QED
      BY <2>6, <2>7
  <1>3. ~(m < n)
    BY <1>2
  <1>4. ~(n < m)
    BY <1>2
  <1> QED
    BY <1>1, <1>3, <1>4

\* Rank p receives from rank c, and c sends to p.
Edge(p, c) == \E m \in Masks, k \in Nat : p = m * (2 * k) /\ c = m * (2 * k + 1)

LEMMA EdgeFacts ==
    ASSUME NEW p, NEW c, Edge(p, c)
    PROVE  /\ p \in Nat /\ c \in Nat /\ p < c /\ c - p \in Masks
           /\ \E k \in Nat : p = (c - p) * (2 * k) /\ c = (c - p) * (2 * k + 1)
  <1>1. PICK m \in Masks, k \in Nat : p = m * (2 * k) /\ c = m * (2 * k + 1)
    BY DEF Edge
  <1>2. m \in Nat /\ m >= 1
    BY MaskPositive
  <1>3. c = p + m /\ p \in Nat /\ c \in Nat
    BY <1>1, <1>2
  <1>4. c - p = m /\ p < c
    BY <1>2, <1>3
  <1> QED
    BY <1>1, <1>3, <1>4

LEMMA OneParent ==
    ASSUME NEW p, NEW q, NEW c, Edge(p, c), Edge(q, c)
    PROVE  p = q
  <1>1. /\ p \in Nat /\ q \in Nat /\ c \in Nat
        /\ c - p \in Masks /\ c - q \in Masks
    BY EdgeFacts
  <1>2. PICK k \in Nat : c = (c - p) * (2 * k + 1)
    BY EdgeFacts
  <1>3. PICK i \in Nat : c = (c - q) * (2 * i + 1)
    BY EdgeFacts
  <1>4. c - p = c - q
    BY <1>1, <1>2, <1>3, OneLeastBit
  <1> QED
    BY <1>1, <1>4

LEMMA Quotient ==
    ASSUME NEW m \in Nat, m >= 1, NEW k \in Nat
    PROVE  (m * k) \div m = k
  OBVIOUS

\* The bit of r at a mask m of which r is a multiple.
LEMMA BitUnset ==
    ASSUME NEW r \in Nat, NEW m \in Masks, NEW k \in Nat, r = m * k,
           (r \div m) % 2 # 1
    PROVE  /\ Edge(r, r + m)
           /\ \E i \in Nat : r = (2 * m) * i
  <1>1. m \in Nat /\ m >= 1
    BY MaskPositive
  <1>2. k % 2 # 1
    BY <1>1, Quotient
  <1>3. PICK i \in Nat : k = 2 * i
    BY <1>2
  <1>4. r = m * (2 * i) /\ r + m = m * (2 * i + 1) /\ r = (2 * m) * i
    BY <1>1, <1>3
  <1> QED
    BY <1>4 DEF Edge

LEMMA BitSet ==
    ASSUME NEW r \in Nat, NEW m \in Masks, NEW k \in Nat, r = m * k,
           (r \div m) % 2 = 1
    PROVE  /\ Edge(r - m, r) /\ r - m \in Nat /\ r # 0
           /\ \A c : Edge(r, c) => c - r < m
  <1>1. m \in Nat /\ m >= 1
    BY MaskPositive
  <1>2. k % 2 = 1
    BY <1>1, Quotient
  <1>3. PICK i \in Nat : k = 2 * i + 1
    BY <1>2
  <1>4. r = m * (2 * i + 1) /\ r - m = m * (2 * i) /\ m * (2 * i) \in Nat /\ r # 0
    BY <1>1, <1>3
  <1>5. ASSUME NEW c, Edge(r, c), ~(c - r < m)
        PROVE  FALSE
    <2>1. c \in Nat /\ c - r \in Masks /\ c - r \in Nat
      BY <1>5, EdgeFacts, MaskPositive
    <2>2. PICK j \in Nat : r = (c - r) * (2 * j)
      BY <1>5, EdgeFacts
    <2>3. PICK n \in Nat : c - r = m * n
      <3>1. CASE c - r = m
        <4>1. c - r = m * 1
          BY <1>1, <3>1
        <4> QED
          BY <4>1
      <3>2. CASE c - r # m
        <4>1. m < c - r
          BY <1>1, <1>5, <2>1, <3>2
        <4>2. PICK i1 \in Masks : c - r = 2 * (m * i1)
          BY <2>1, <4>1, MasksApart
        <4>3. i1 \in Nat
          BY MaskFacts
        <4>4. c - r = m * (2 * i1)
          BY <1>1, <4>2, <4>3
        <4> QED
          BY <4>3, <4>4
      <3> QED
        BY <3>1, <3>2
    <2>4. PICK z \in Nat : z = n * j
      OBVIOUS
    <2>5. r = m * (2 * z)
      BY <1>1, <2>2, <2>3, <2>4
    <2>6. 2 * i + 1 = 2 * z
      BY <1>1, <1>4, <2>5, Cancelled
    <2> QED
      BY <2>6
  <1> QED
    BY <1>4, <1>5 DEF Edge

\* Between a mask and its double there is one child at most.
LEMMA NextChild ==
    ASSUME NEW r, NEW c, Edge(r, c), NEW m \in Masks
    PROVE  c - r < 2 * m <=> (c - r < m \/ c = r + m)
  <1>1. /\ r \in Nat /\ c \in Nat /\ c - r \in Masks /\ m \in Nat /\ m >= 1
    BY EdgeFacts, MaskPositive
  <1>2. m < c - r => 2 * m <= c - r
    BY <1>1, MasksApart
  <1> QED
    BY <1>1, <1>2

-----------------------------------------------------------------------------
(* The inductive invariant.  Between a rank and its parent, messages are   *)
(* numbered in each direction through both calls and the collection of the *)
(* buffers; how many the ends have sent and taken follows from where they  *)
(* are, and a message's number says what it is.                            *)

Early == {"start", "buffer", "merge", "ok"} \cup Collecting
AtRoot == {"open", "gather", "blocklen", "block"}
Late == AtRoot \cup {"reduce", "ready", "sendblock", "returned"}

Once(condition) == IF condition THEN 1 ELSE 0
Call(r) == IF lister[r] = "functions" THEN 0 ELSE 1

\* What rank p has done with rank c in the call it is in: sent the go-ahead,
\* received the names, sent the table.
Asked(p, c) ==
    /\ pc[p] \notin {"start", "buffer"}
    /\ \/ c - p < mask[p]
       \/ pc[p] \in {"len", "names"} /\ c = p + mask[p]

Received(p, c) == pc[p] \notin {"start", "buffer"} /\ c - p < mask[p]

TableSent(p, c) ==
    /\ pc[p] \notin {"start", "buffer"}
    /\ \E k \in 2 .. Len(objs[p]) : k < child[p] /\ objs[p][k].rank = c

\* How many messages the two ends of an edge of the tree have sent and taken:
\* go-ahead and table downwards, length and names upwards.
TreeDownSent(p, c) ==
    2 * Call(p) + (Once(Asked(p, c)) + Once(TableSent(p, c)))
TreeDownTaken(c) ==
    2 * Call(c) + (Once(pc[c] \notin Early)
                   + Once(pc[c] \notin Early \cup {"send", "map"}))
TreeUpSent(c) ==
    2 * Call(c) + (Once(pc[c] \notin Early)
                   + Once(pc[c] \notin Early \cup {"send"}))
TreeUpTaken(p, c) ==
    2 * Call(p) + (2 * Once(Received(p, c))
                   + Once(pc[p] = "names" /\ c = p + mask[p]))

InTree(p, c, count) == IF Edge(p, c) THEN count ELSE 0

\* Together with those that rank 0 exchanges with everyone for the buffers.
DownSent(p, c) ==
    InTree(p, c, TreeDownSent(p, c))
    + Once(p = 0 /\ (c < gather
                     \/ (c = gather /\ pc[0] \in {"blocklen", "block"})))
DownTaken(p, c) ==
    InTree(p, c, TreeDownTaken(c))
    + Once(p = 0 /\ pc[c] \in {"sendblock", "returned"})
UpSent(p, c) ==
    InTree(p, c, TreeUpSent(c))
    + (Once(p = 0 /\ pc[c] \in {"sendblock", "returned"})
       + Once(p = 0 /\ pc[c] = "returned"))
UpTaken(p, c) ==
    InTree(p, c, TreeUpTaken(p, c))
    + (2 * Once(p = 0 /\ c < gather)
       + Once(p = 0 /\ c = gather /\ pc[0] = "block"))

\* What the n-th message is.
DownKinds == [n \in Nat |-> IF n % 2 = 1 THEN "ok" ELSE "map"]
UpKinds(p, c) ==
    [n \in Nat |-> IF n % 2 = 1 THEN "len"
                   ELSE IF Edge(p, c) /\ n <= 4 THEN "names" ELSE "block"]

Numbered(q, taken, sent, kinds) ==
    /\ Len(q) = sent - taken
    /\ \A i \in 1 .. Len(q) : q[i].kind = kinds[taken + i]

Channels(p, c) ==
    /\ Numbered(chan[p, c], DownTaken(p, c), DownSent(p, c), DownKinds)
    /\ Numbered(chan[c, p], UpTaken(p, c), UpSent(p, c), UpKinds(p, c))

Protocol ==
    /\ \A p, c \in Ranks : p < c => Channels(p, c)
    /\ \A r \in Ranks : chan[r, r] = <<>>

\* Where a rank is in the tree.
Placed(r) ==
    /\ child[r] >= 2
    /\ pc[r] \notin {"start", "buffer"} => \E k \in Nat : r = mask[r] * k
    /\ pc[r] \in {"len", "names"} => Source(r) \in Ranks /\ Edge(r, Source(r))
    /\ pc[r] \notin {"start", "buffer"} \cup Collecting =>
        /\ \A c \in Ranks : Edge(r, c) => c - r < mask[r]
        /\ r # 0 => Parent(r) \in Ranks /\ Edge(Parent(r), r)
    /\ pc[r] \in Late => lister[r] = "atomics"
    /\ pc[r] \in Waiting \cup {"ready", "sendblock"} => r # 0
    /\ pc[r] \in AtRoot => r = 0
    /\ r = 0 /\ pc[r] \notin AtRoot \cup {"returned"} => gather = 1
    /\ r = 0 /\ pc[r] \in {"blocklen", "block"} => gather \in Ranks
    /\ pc[r] \in {"merge"} \cup Collecting \cup Waiting => child[r] = 2
    /\ pc[r] \in {"done"} \cup Late => child[r] > Len(objs[r])

\* Its objects, but the first, are those of the children it has heard of.
Family(r) ==
    pc[r] \notin {"start", "buffer"} =>
        /\ Len(objs[r]) >= 1
        /\ \A k \in 2 .. Len(objs[r]) :
            /\ objs[r][k].rank \in Ranks
            /\ Edge(r, objs[r][k].rank)
            /\ objs[r][k].rank - r < mask[r]
        /\ \A j, k \in 2 .. Len(objs[r]) :
            j < k => objs[r][j].rank # objs[r][k].rank
        /\ \A c \in Ranks : Edge(r, c) /\ c - r < mask[r] =>
               \E k \in 2 .. Len(objs[r]) : objs[r][k].rank = c

\* The lists a rank has received, and the tables it makes for them, are not
\* longer than the arrays that their senders will allocate.
Fits(r) ==
    /\ pc[r] \in {"tree", "len", "names", "merge", "ok", "send"} =>
           Len(objs[r][1].strings) <= Len(db[lister[r]][r])
    /\ pc[r] \notin {"start", "buffer"} =>
           \A k \in 2 .. Len(objs[r]) : k >= child[r] =>
               Len(objs[r][k].mapping) <= numStrings[objs[r][k].rank]

\* Sequences of whatever values.
Listed(q) == Len(q) \in Nat /\ q = [i \in 1 .. Len(q) |-> q[i]]

Formed(o) ==
    /\ o = [rank |-> o.rank, strings |-> o.strings, mapping |-> o.mapping,
            idx |-> o.idx]
    /\ o.strings \in Seq(Names) /\ Listed(o.mapping)
    /\ o.idx \in Nat /\ o.idx >= 1

\* A message between two ranks; up and down are the lengths of the arrays of
\* its sender and of its receiver.
MessageFits(m, up, down) ==
    /\ m.kind = "names" => m.body \in Seq(Names) /\ Len(m.body) <= up
    /\ m.kind = "map" => Listed(m.body) /\ Len(m.body) <= down

AllFit(q, up, down) ==
    Listed(q) /\ \A i \in 1 .. Len(q) : MessageFits(q[i], up, down)

Mail ==
    /\ chan = [e \in Ranks \X Ranks |-> chan[e]]
    /\ \A s, d \in Ranks : AllFit(chan[s, d], numStrings[s], numStrings[d])

Forms ==
    /\ db \in [Listers -> [Ranks -> Seq(Entries)]]
    /\ lister \in [Ranks -> Listers]
    /\ pc \in [Ranks -> Places]
    /\ mask \in [Ranks -> Masks]
    /\ child \in [Ranks -> Nat]
    /\ numStrings \in [Ranks -> Nat]
    /\ gather \in 1 .. NumRanks
    /\ merged \in [Ranks -> Seq(Names)]
    /\ objs = [r \in Ranks |-> objs[r]]
    /\ \A r \in Ranks : /\ Listed(objs[r])
                        /\ \A k \in Objects(r) : Formed(objs[r][k])

PInv == /\ Forms
        /\ Mail
        /\ Protocol
        /\ \A r \in Ranks : Placed(r) /\ Family(r) /\ Fits(r)

-----------------------------------------------------------------------------
(* Lists and numbers of messages.                                          *)

LEMMA ListedIsSeq ==
    ASSUME NEW q, Listed(q)
    PROVE  q \in Seq({q[i] : i \in 1 .. Len(q)})
  <1> DEFINE S == {q[i] : i \in 1 .. Len(q)}
  <1>1. q \in [1 .. Len(q) -> S]
    BY DEF Listed
  <1> QED
    BY <1>1, SeqDef DEF Listed

LEMMA SeqIsListed ==
    ASSUME NEW S, NEW q \in Seq(S)
    PROVE  Listed(q)
  <1>1. Len(q) \in Nat /\ q \in [1 .. Len(q) -> S]
    BY LenProperties
  <1> QED
    BY <1>1 DEF Listed

LEMMA ListedAppend ==
    ASSUME NEW q, Listed(q), NEW m
    PROVE  /\ Listed(Append(q, m))
           /\ Len(Append(q, m)) = Len(q) + 1
           /\ \A i \in 1 .. Len(q) : Append(q, m)[i] = q[i]
           /\ Append(q, m)[Len(q) + 1] = m
  <1> DEFINE S == {q[i] : i \in 1 .. Len(q)} \cup {m}
  <1>1. q \in Seq({q[i] : i \in 1 .. Len(q)})
    BY ListedIsSeq
  <1>2. q \in [1 .. Len(q) -> S] /\ Len(q) \in Nat
    BY DEF Listed
  <1>3. q \in Seq(S) /\ m \in S
    BY <1>2, SeqDef
  <1> HIDE DEF S
  <1>4. Append(q, m) \in Seq(S)
    BY <1>3, AppendProperties
  <1>5. Listed(Append(q, m))
    BY <1>4, SeqIsListed
  <1> QED
    BY <1>3, <1>5, AppendProperties

LEMMA ListedTail ==
    ASSUME NEW q, Listed(q), q # <<>>
    PROVE  /\ Listed(Tail(q)) /\ Head(q) = q[1]
           /\ Len(q) >= 1 /\ Len(Tail(q)) = Len(q) - 1
           /\ \A i \in 1 .. Len(Tail(q)) :
                  i + 1 \in 1 .. Len(q) /\ Tail(q)[i] = q[i + 1]
  <1> DEFINE S == {q[i] : i \in 1 .. Len(q)}
  <1>1. q \in Seq(S)
    BY ListedIsSeq
  <1> HIDE DEF S
  <1>2. Tail(q) \in Seq(S) /\ Head(q) = q[1] /\ Len(Tail(q)) = Len(q) - 1
    BY <1>1, HeadTailProperties
  <1>3. Len(q) \in Nat /\ Len(q) # 0
    BY <1>1, LenProperties, EmptySeq
  <1>4. \A i \in 1 .. Len(q) - 1 : Tail(q)[i] = q[i + 1]
    BY <1>1, HeadTailProperties
  <1>5. Listed(Tail(q))
    BY <1>2, SeqIsListed
  <1> QED
    BY <1>2, <1>3, <1>4, <1>5

LEMMA NumberedAppend ==
    ASSUME NEW q, Listed(q), NEW m, NEW taken \in Nat, NEW sent \in Nat,
           NEW kinds, Numbered(q, taken, sent, kinds),
           m.kind = kinds[sent + 1]
    PROVE  Numbered(Append(q, m), taken, sent + 1, kinds)
  <1>1. /\ Len(q) \in Nat /\ Len(q) = sent - taken
        /\ \A i \in 1 .. Len(q) : q[i].kind = kinds[taken + i]
    BY DEF Listed, Numbered
  <1>2. /\ Len(Append(q, m)) = Len(q) + 1
        /\ \A i \in 1 .. Len(q) : Append(q, m)[i] = q[i]
        /\ Append(q, m)[Len(q) + 1] = m
    BY ListedAppend
  <1>3. ASSUME NEW i \in 1 .. Len(Append(q, m))
        PROVE  Append(q, m)[i].kind = kinds[taken + i]
    <2>1. CASE i \in 1 .. Len(q)
      BY <1>1, <1>2, <2>1
    <2>2. CASE i = Len(q) + 1
      <3>1. taken + i = sent + 1
        BY <1>1, <2>2
      <3> QED
        BY <1>2, <2>2, <3>1
    <2> QED
      BY <1>1, <1>2, <2>1, <2>2
  <1> QED
    BY <1>1, <1>2, <1>3 DEF Numbered

LEMMA NumberedTail ==
    ASSUME NEW q, Listed(q), q # <<>>, NEW taken \in Nat, NEW sent \in Nat,
           NEW kinds, Numbered(q, taken, sent, kinds)
    PROVE  /\ Numbered(Tail(q), taken + 1, sent, kinds)
           /\ Head(q).kind = kinds[taken + 1] /\ taken < sent
  <1>1. /\ Len(q) \in Nat /\ Len(q) = sent - taken
        /\ \A i \in 1 .. Len(q) : q[i].kind = kinds[taken + i]
    BY DEF Listed, Numbered
  <1>2. /\ Head(q) = q[1] /\ Len(q) >= 1 /\ Len(Tail(q)) = Len(q) - 1
        /\ \A i \in 1 .. Len(Tail(q)) :
               i + 1 \in 1 .. Len(q) /\ Tail(q)[i] = q[i + 1]
    BY ListedTail
  <1>3. ASSUME NEW i \in 1 .. Len(Tail(q))
        PROVE  Tail(q)[i].kind = kinds[(taken + 1) + i]
    <2>1. q[i + 1].kind = kinds[taken + (i + 1)]
      BY <1>1, <1>2
    <2>2. taken + (i + 1) = (taken + 1) + i
      OBVIOUS
    <2> QED
      BY <1>2, <2>1, <2>2
  <1>4. Len(Tail(q)) = sent - (taken + 1)
    BY <1>1, <1>2
  <1> QED
    BY <1>1, <1>2, <1>3, <1>4 DEF Numbered

LEMMA EmptyListed == Listed(<<>>) /\ Len(<<>>) = 0
  <1>1. <<>> \in Seq(Nat)
    BY EmptySeq
  <1> QED
    BY <1>1, SeqIsListed, EmptySeq

LEMMA CountTypes ==
    ASSUME NEW p, NEW c
    PROVE  /\ DownSent(p, c) \in Nat /\ DownTaken(p, c) \in Nat
           /\ UpSent(p, c) \in Nat /\ UpTaken(p, c) \in Nat
  <1>1. \A b : Once(b) \in Nat
    BY DEF Once
  <1>2. Call(p) \in Nat /\ Call(c) \in Nat
    BY DEF Call
  <1>3. /\ TreeDownSent(p, c) \in Nat /\ TreeDownTaken(c) \in Nat
        /\ TreeUpSent(c) \in Nat /\ TreeUpTaken(p, c) \in Nat
    BY <1>1, <1>2 DEF TreeDownSent, TreeDownTaken, TreeUpSent, TreeUpTaken
  <1>4. \A n \in Nat : InTree(p, c, n) \in Nat
    BY DEF InTree
  <1> QED
    BY <1>1, <1>3, <1>4 DEF DownSent, DownTaken, UpSent, UpTaken

-----------------------------------------------------------------------------
(* What a step of one rank leaves alone.                                   *)

OthersAsWere(r) ==
    /\ \A q \in Ranks : q # r =>
        /\ pc'[q] = pc[q] /\ lister'[q] = lister[q] /\ mask'[q] = mask[q]
        /\ objs'[q] = objs[q] /\ child'[q] = child[q]
        /\ merged'[q] = merged[q] /\ numStrings'[q] = numStrings[q]
    /\ r # 0 => gather' = gather
    /\ \A s, d \in Ranks :
        (s = d \/ (s # r /\ d # r)) => chan'[s, d] = chan[s, d]

\* The counts of a parent depend on its own state only.
LEMMA ParentCounts ==
    ASSUME NEW p, NEW c,
           pc'[p] = pc[p], lister'[p] = lister[p], mask'[p] = mask[p],
           objs'[p] = objs[p], child'[p] = child[p], p = 0 => gather' = gather
    PROVE  DownSent(p, c)' = DownSent(p, c) /\ UpTaken(p, c)' = UpTaken(p, c)
  <1>1. TreeDownSent(p, c)' = TreeDownSent(p, c)
    <2>1. Asked(p, c)' = Asked(p, c) /\ TableSent(p, c)' = TableSent(p, c)
      BY DEF Asked, TableSent
    <2> QED
      BY <2>1 DEF TreeDownSent, Call
  <1>2. TreeUpTaken(p, c)' = TreeUpTaken(p, c)
    BY DEF TreeUpTaken, Received, Call
  <1>3. CASE p = 0
    BY <1>1, <1>2, <1>3 DEF DownSent, UpTaken
  <1>4. CASE p # 0
    BY <1>1, <1>2, <1>4 DEF DownSent, UpTaken, Once
  <1> QED
    BY <1>3, <1>4

\* So do those of a child.
LEMMA ChildCounts ==
    ASSUME NEW p, NEW c, pc'[c] = pc[c], lister'[c] = lister[c]
    PROVE  DownTaken(p, c)' = DownTaken(p, c) /\ UpSent(p, c)' = UpSent(p, c)
  <1>1. TreeDownTaken(c)' = TreeDownTaken(c) /\ TreeUpSent(c)' = TreeUpSent(c)
    BY DEF TreeDownTaken, TreeUpSent, Call
  <1> QED
    BY <1>1 DEF DownTaken, UpSent

LEMMA Different == \A i, j \in Nat : i < j => i # j
  OBVIOUS

\* A step of rank r concerns the messages between it and others.
LEMMA ProtocolStep ==
    ASSUME Protocol, NEW r \in Ranks, OthersAsWere(r),
           \A q \in Ranks : r < q =>
               /\ Numbered(chan'[r, q], DownTaken(r, q), DownSent(r, q)', DownKinds)
               /\ Numbered(chan'[q, r], UpTaken(r, q)', UpSent(r, q), UpKinds(r, q)),
           \A q \in Ranks : q < r =>
               /\ Numbered(chan'[q, r], DownTaken(q, r)', DownSent(q, r), DownKinds)
               /\ Numbered(chan'[r, q], UpTaken(q, r), UpSent(q, r)', UpKinds(q, r))
    PROVE  Protocol'
  <1>1. SUFFICES ASSUME NEW p \in Ranks, NEW c \in Ranks, p < c
                 PROVE  Channels(p, c)'
    BY DEF Protocol, OthersAsWere
  <1>0. p # c
    <2>1. p \in Nat /\ c \in Nat
      BY RankFacts, Zenon
    <2> QED
      BY <1>1, <2>1, Different, Zenon
  <1>2. p # r => DownSent(p, c)' = DownSent(p, c) /\ UpTaken(p, c)' = UpTaken(p, c)
    <2>1. SUFFICES ASSUME p # r
                   PROVE  DownSent(p, c)' = DownSent(p, c)
                          /\ UpTaken(p, c)' = UpTaken(p, c)
      OBVIOUS
    <2>2. /\ pc'[p] = pc[p] /\ lister'[p] = lister[p] /\ mask'[p] = mask[p]
          /\ objs'[p] = objs[p] /\ child'[p] = child[p]
          /\ p = 0 => gather' = gather
      BY <2>1 DEF OthersAsWere
    <2> QED
      BY <2>2, ParentCounts
  <1>3. c # r => DownTaken(p, c)' = DownTaken(p, c) /\ UpSent(p, c)' = UpSent(p, c)
    <2>1. SUFFICES ASSUME c # r
                   PROVE  DownTaken(p, c)' = DownTaken(p, c)
                          /\ UpSent(p, c)' = UpSent(p, c)
      OBVIOUS
    <2>2. pc'[c] = pc[c] /\ lister'[c] = lister[c]
      BY <2>1 DEF OthersAsWere
    <2> QED
      BY <2>2, ChildCounts
  <1>4. UpKinds(p, c)' = UpKinds(p, c) /\ DownKinds' = DownKinds
    OBVIOUS
  <1>5. CASE p = r
    <2>1. DownTaken(p, c)' = DownTaken(p, c) /\ UpSent(p, c)' = UpSent(p, c)
      BY <1>0, <1>3, <1>5
    <2>2. /\ Numbered(chan'[p, c], DownTaken(p, c), DownSent(p, c)', DownKinds)
          /\ Numbered(chan'[c, p], UpTaken(p, c)', UpSent(p, c), UpKinds(p, c))
      BY <1>1, <1>5
    <2> QED
      BY <1>4, <2>1, <2>2 DEF Channels, Numbered
  <1>6. CASE c = r
    <2>1. DownSent(p, c)' = DownSent(p, c) /\ UpTaken(p, c)' = UpTaken(p, c)
      BY <1>0, <1>2, <1>6
    <2>2. /\ Numbered(chan'[p, c], DownTaken(p, c)', DownSent(p, c), DownKinds)
          /\ Numbered(chan'[c, p], UpTaken(p, c), UpSent(p, c)', UpKinds(p, c))
      BY <1>1, <1>6
    <2> QED
      BY <1>4, <2>1, <2>2 DEF Channels, Numbered
  <1>7. CASE p # r /\ c # r
    <2>1. chan'[p, c] = chan[p, c] /\ chan'[c, p] = chan[c, p]
      BY <1>7 DEF OthersAsWere
    <2>2. Channels(p, c)
      BY <1>1 DEF Protocol
    <2> QED
      BY <1>2, <1>3, <1>4, <1>7, <2>1, <2>2 DEF Channels, Numbered
  <1> QED
    BY <1>5, <1>6, <1>7

LEMMA QuietProtocol ==
    ASSUME Protocol, NEW r \in Ranks, OthersAsWere(r), chan' = chan,
           \A q \in Ranks : r < q => /\ DownSent(r, q)' = DownSent(r, q)
                                     /\ UpTaken(r, q)' = UpTaken(r, q),
           \A q \in Ranks : q < r => /\ DownTaken(q, r)' = DownTaken(q, r)
                                     /\ UpSent(q, r)' = UpSent(q, r)
    PROVE  Protocol'
  <1>1. \A q \in Ranks : r < q =>
            /\ Numbered(chan'[r, q], DownTaken(r, q), DownSent(r, q)', DownKinds)
            /\ Numbered(chan'[q, r], UpTaken(r, q)', UpSent(r, q), UpKinds(r, q))
    BY DEF Protocol, Channels
  <1>2. \A q \in Ranks : q < r =>
            /\ Numbered(chan'[q, r], DownTaken(q, r)', DownSent(q, r), DownKinds)
            /\ Numbered(chan'[r, q], UpTaken(q, r), UpSent(q, r)', UpKinds(q, r))
    BY DEF Protocol, Channels
  <1> QED
    BY <1>1, <1>2, ProtocolStep

\* The parts of the invariant about ranks that do nothing.
LEMMA OthersKeep ==
    ASSUME PInv, NEW r \in Ranks, OthersAsWere(r),
           NEW q \in Ranks, q # r
    PROVE  /\ Placed(q)' /\ Family(q)'
           /\ db' = db /\ numStrings' = numStrings => Fits(q)'
  <1>1. /\ pc'[q] = pc[q] /\ lister'[q] = lister[q] /\ mask'[q] = mask[q]
        /\ objs'[q] = objs[q] /\ child'[q] = child[q]
        /\ q = 0 => gather' = gather
    BY DEF OthersAsWere
  <1>2. Placed(q) /\ Family(q) /\ Fits(q)
    BY DEF PInv
  <1>3. Placed(q)'
    BY <1>1, <1>2 DEF Placed, Source, Parent
  <1>4. Family(q)'
    BY <1>1, <1>2 DEF Family
  <1>5. db' = db /\ numStrings' = numStrings => Fits(q)'
    BY <1>1, <1>2 DEF Fits
  <1> QED
    BY <1>3, <1>4, <1>5

LEMMA KeepsPInv ==
    ASSUME PInv, NEW r \in Ranks, OthersAsWere(r), db' = db,
           numStrings' = numStrings, Forms', Protocol', Mail',
           Placed(r)', Family(r)', Fits(r)'
    PROVE  PInv'
  <1>1. ASSUME NEW q \in Ranks
        PROVE  Placed(q)' /\ Family(q)' /\ Fits(q)'
    <2>1. CASE q = r
      BY <2>1
    <2>2. CASE q # r
      BY <2>2, OthersKeep
    <2> QED
      BY <2>1, <2>2
  <1> QED
    BY <1>1 DEF PInv

\* Going from one place to another, at which the same messages have been
\* sent and taken.
LEMMA Move ==
    ASSUME PInv, NEW r \in Ranks, NEW to \in Places, pc' = [pc EXCEPT ![r] = to],
           UNCHANGED <<db, lister, mask, objs, merged, numStrings, child, chan,
                       gather>>,
           {pc[r], to} \cap {"start", "buffer", "len", "names", "send", "map",
                             "sendblock", "blocklen", "block"} = {},
           r # 0 => /\ pc[r] \in Early <=> to \in Early
                    /\ "returned" \notin {pc[r], to},
           to \in {"tree", "merge", "ok"} => pc[r] \in {"tree", "merge", "ok"},
           Placed(r)'
    PROVE  PInv'
  <1>1. Forms /\ Protocol /\ Mail /\ Family(r) /\ Fits(r) /\ r \in Nat
    BY RankFacts DEF PInv
  <1>2. pc'[r] = to /\ \A q \in Ranks : q # r => pc'[q] = pc[q]
    BY <1>1 DEF Forms
  <1>3. OthersAsWere(r)
    BY <1>2 DEF OthersAsWere
  <1>4. Forms'
    <2>1. pc' \in [Ranks -> Places]
      BY <1>1 DEF Forms
    <2> QED
      BY <1>1, <2>1 DEF Forms, Objects
  <1>5. Mail'
    BY <1>1 DEF Mail
  <1>6. Family(r)' /\ Fits(r)'
    <2>1. pc[r] \notin {"start", "buffer"} /\ pc'[r] \notin {"start", "buffer"}
      BY <1>2
    <2>2. Family(r)'
      BY <1>1, <2>1 DEF Family
    <2>3. pc'[r] \in {"tree", "len", "names", "merge", "ok", "send"} =>
              pc[r] \in {"tree", "merge", "ok"}
      BY <1>2
    <2>4. Fits(r)'
      BY <1>1, <2>1, <2>3 DEF Fits
    <2> QED
      BY <2>2, <2>4
  <1>7. ASSUME NEW q \in Ranks
        PROVE  DownSent(r, q)' = DownSent(r, q) /\ UpTaken(r, q)' = UpTaken(r, q)
    <2>1. /\ Asked(r, q)' = Asked(r, q) /\ Received(r, q)' = Received(r, q)
          /\ TableSent(r, q)' = TableSent(r, q)
      BY <1>2 DEF Asked, Received, TableSent
    <2>2. (pc[r] = "names" /\ q = r + mask[r])'
          <=> (pc[r] = "names" /\ q = r + mask[r])
      BY <1>2
    <2>3. /\ TreeDownSent(r, q)' = TreeDownSent(r, q)
          /\ TreeUpTaken(r, q)' = TreeUpTaken(r, q)
      BY <2>1, <2>2 DEF TreeDownSent, TreeUpTaken, Call
    <2>4. r = 0 => /\ pc'[0] \in {"blocklen", "block"}
                      <=> pc[0] \in {"blocklen", "block"}
                   /\ pc'[0] = "block" <=> pc[0] = "block"
      BY <1>2
    <2>5. CASE r = 0
      BY <2>3, <2>4, <2>5 DEF DownSent, UpTaken, InTree
    <2>6. CASE r # 0
      BY <2>3, <2>6 DEF DownSent, UpTaken, InTree, Once
    <2> QED
      BY <2>5, <2>6
  <1>8. ASSUME NEW q \in Ranks, q < r
        PROVE  DownTaken(q, r)' = DownTaken(q, r) /\ UpSent(q, r)' = UpSent(q, r)
    <2>1. r # 0
      <3>1. q \in Nat /\ r \in Nat
        BY RankFacts
      <3>2. q < r
        BY <1>8
      <3> QED
        BY <3>1, <3>2
    <2>2. /\ pc'[r] \notin Early <=> pc[r] \notin Early
          /\ pc'[r] \notin Early \cup {"send", "map"}
             <=> pc[r] \notin Early \cup {"send", "map"}
          /\ pc'[r] \notin Early \cup {"send"} <=> pc[r] \notin Early \cup {"send"}
          /\ pc'[r] \in {"sendblock", "returned"}
             <=> pc[r] \in {"sendblock", "returned"}
          /\ pc'[r] = "returned" <=> pc[r] = "returned"
      BY <1>2, <2>1
    <2>3. /\ TreeDownTaken(r)' = TreeDownTaken(r)
          /\ TreeUpSent(r)' = TreeUpSent(r)
      BY <2>2 DEF TreeDownTaken, TreeUpSent, Call
    <2> QED
      BY <2>2, <2>3 DEF DownTaken, UpSent, InTree
  <1>9. Protocol'
    BY <1>1, <1>3, <1>7, <1>8, QuietProtocol
  <1> QED
    BY <1>3, <1>4, <1>5, <1>6, <1>9, KeepsPInv

LEMMA EndTreeMoves ==
    ASSUME PInv, NEW r \in Ranks, EndTree(r), UNCHANGED mergeVars
    PROVE  PInv'
  <1>1. Forms /\ Placed(r) /\ r \in Nat /\ mask[r] \in Masks /\ pc[r] = "tree"
    BY RankFacts DEF PInv, Forms, EndTree
  <1>2. PICK to \in Places : /\ pc' = [pc EXCEPT ![r] = to]
                             /\ to \in {"merge", "ok"} /\ (to = "ok" => r # 0)
    BY DEF EndTree, GoTo, Places
  <1>3. PICK k \in Nat : r = mask[r] * k
    BY <1>1 DEF Placed
  <1>4. \A c \in Ranks : Edge(r, c) => c - r < mask[r]
    <2>1. CASE HasBit(r)
      BY <1>1, <1>3, <2>1, BitSet DEF HasBit
    <2>2. CASE mask[r] >= NumRanks /\ r = 0
      <3>1. mask[r] \in Nat
        BY <1>1, MaskPositive
      <3> QED
        BY <1>1, <2>2, <3>1, RankFacts
    <2> QED
      BY <2>1, <2>2 DEF EndTree
  <1>5. r # 0 => Parent(r) \in Ranks /\ Edge(Parent(r), r)
    <2>1. SUFFICES ASSUME r # 0 PROVE Parent(r) \in Ranks /\ Edge(Parent(r), r)
      OBVIOUS
    <2>2. HasBit(r)
      BY <2>1 DEF EndTree
    <2>3. Edge(r - mask[r], r) /\ r - mask[r] \in Nat
      BY <1>1, <1>3, <2>2, BitSet DEF HasBit
    <2>4. r - mask[r] < NumRanks
      BY <1>1, MaskPositive, RankFacts
    <2> QED
      BY <2>3, <2>4, RankFacts DEF Parent
  <1>6. pc'[r] = to /\ mask' = mask /\ child' = child
    BY <1>1, <1>2 DEF EndTree, treeVars, Forms
  <1>7. Placed(r)'
    BY <1>1, <1>2, <1>4, <1>5, <1>6
    DEF Placed, Collecting, Waiting, Late, AtRoot, Parent
  <1> QED
    BY <1>1, <1>2, <1>7, Move
    DEF EndTree, treeVars, mergeVars, Early, Collecting

LEMMA MergeEndMoves ==
    ASSUME PInv, NEW r \in Ranks, MergeEnd(r), UNCHANGED mergeVars
    PROVE  PInv'
  <1>1. Forms /\ Placed(r) /\ pc[r] = "merge"
    BY DEF PInv, MergeEnd
  <1>2. PICK to \in Places : /\ pc' = [pc EXCEPT ![r] = to]
                             /\ to = IF r = 0 THEN "down" ELSE "ok"
    BY DEF MergeEnd, GoTo, Places
  <1>3. pc'[r] = to /\ mask' = mask /\ child' = child
    BY <1>1, <1>2 DEF MergeEnd, treeVars, Forms
  <1>4. Placed(r)'
    BY <1>1, <1>2, <1>3
    DEF Placed, Collecting, Waiting, Late, AtRoot, Parent
  <1> QED
    BY <1>1, <1>2, <1>4, Move
    DEF MergeEnd, treeVars, mergeVars, Early, Collecting

LEMMA ReturnMoves ==
    ASSUME PInv, NEW r \in Ranks, Return(r), UNCHANGED mergeVars
    PROVE  PInv'
  <1>1. Forms /\ Placed(r) /\ pc[r] = "down" /\ child[r] > Len(objs[r])
    BY DEF PInv, Return
  <1>2. pc' = [pc EXCEPT ![r] = "done"] /\ "done" \in Places
    BY DEF Return, GoTo, Places
  <1>3. /\ pc'[r] = "done" /\ mask' = mask /\ child' = child /\ objs' = objs
        /\ gather' = gather
    BY <1>1, <1>2 DEF Return, treeVars, mergeVars, Forms
  <1>4. Placed(r)'
    BY <1>1, <1>3 DEF Placed, Collecting, Waiting, Late, AtRoot, Parent
  <1> QED
    BY <1>1, <1>2, <1>4, Move
    DEF Return, treeVars, mergeVars, Early, Collecting

\* The steps between the calls and the collection of the buffers.
LEMMA LateMove ==
    ASSUME PInv, NEW r \in Ranks, NEW to \in Late, pc' = [pc EXCEPT ![r] = to],
           UNCHANGED <<db, eager, lister, treeVars, chan, bcast, unifier, gather>>,
           pc[r] \in {"done"} \cup Late, lister[r] = "atomics",
           {pc[r], to} \cap {"sendblock", "blocklen", "block"} = {},
           r # 0 => to \in {"reduce", "ready"} /\ pc[r] \in {"done", "reduce"},
           r = 0 => to # "ready", to = "reduce" => pc[r] = "done"
    PROVE  PInv'
  <1>1. Forms /\ Placed(r)
    BY DEF PInv
  <1>2. to \in Places
    BY DEF Late, AtRoot, Places
  <1>3. pc'[r] = to
    BY <1>1 DEF Forms
  <1>4. Placed(r)'
    BY <1>1, <1>3
    DEF Placed, Collecting, Waiting, Late, AtRoot, Parent, treeVars
  <1>5. /\ {pc[r], to} \cap {"start", "buffer", "len", "names", "send", "map",
                             "sendblock", "blocklen", "block"} = {}
        /\ pc[r] \notin Early /\ to \notin Early
        /\ to \notin {"tree", "merge", "ok"}
        /\ r # 0 => "returned" \notin {pc[r], to}
    BY DEF Late, AtRoot, Early, Collecting
  <1> QED
    BY <1>2, <1>4, <1>5, Move DEF treeVars

LEMMA RootFacts == 0 \in Ranks
  BY RankFacts

LEMMA LateSteps ==
    ASSUME PInv, NEW r \in Ranks,
           \/ Snapshot(r) \/ Contribute(r)
           \/ r = 0 /\ (Reduce \/ WriteDefinitions \/ OpenFails \/ WriteOwn)
    PROVE  PInv'
  <1>1. Forms /\ Placed(r)
    BY DEF PInv
  <1>2. {"reduce", "ready", "open", "gather", "returned"} \subseteq Late
    BY DEF Late, AtRoot
  <1>3. CASE Snapshot(r)
    <2>1. pc' = [pc EXCEPT ![r] = "reduce"] /\ pc[r] = "done"
      BY <1>3 DEF Snapshot, GoTo
    <2> QED
      BY <1>2, <1>3, <2>1, LateMove DEF Snapshot
  <1>4. CASE Contribute(r)
    <2>1. pc' = [pc EXCEPT ![r] = "ready"] /\ pc[r] = "reduce" /\ r # 0
      BY <1>4 DEF Contribute, GoTo
    <2>2. lister[r] = "atomics"
      BY <1>1, <1>2, <2>1 DEF Placed
    <2> QED
      BY <1>2, <1>4, <2>1, <2>2, LateMove DEF Contribute
  <1>5. ASSUME r = 0, NEW from \in {"reduce", "open", "gather"}, pc[0] = from
        PROVE  lister[r] = "atomics" /\ pc[r] \in {"done"} \cup Late
    BY <1>1, <1>2, <1>5 DEF Placed
  <1>6. CASE r = 0 /\ Reduce
    <2>1. pc' = [pc EXCEPT ![r] = "open"] /\ pc[r] = "reduce"
      BY <1>6 DEF Reduce, GoTo
    <2> QED
      BY <1>2, <1>5, <1>6, <2>1, LateMove DEF Reduce
  <1>7. CASE r = 0 /\ WriteDefinitions
    <2>1. pc' = [pc EXCEPT ![r] = "gather"] /\ pc[r] = "open"
      BY <1>7 DEF WriteDefinitions, GoTo
    <2> QED
      BY <1>2, <1>5, <1>7, <2>1, LateMove DEF WriteDefinitions
  <1>8. CASE r = 0 /\ OpenFails
    <2>1. pc' = [pc EXCEPT ![r] = "returned"] /\ pc[r] = "open"
      BY <1>8 DEF OpenFails, GoTo
    <2> QED
      BY <1>2, <1>5, <1>8, <2>1, LateMove DEF OpenFails, mergeVars
  <1>9. CASE r = 0 /\ WriteOwn
    <2>1. pc' = [pc EXCEPT ![r] = "returned"] /\ pc[r] = "gather"
      BY <1>9 DEF WriteOwn, GoTo
    <2> QED
      BY <1>2, <1>5, <1>9, <2>1, LateMove DEF WriteOwn
  <1> QED
    BY <1>3, <1>4, <1>6, <1>7, <1>8, <1>9

-----------------------------------------------------------------------------
(* Objects and channels that change.                                       *)

LEMMA ObjsSet ==
    ASSUME Forms, NEW r \in Ranks, NEW os, objs' = [objs EXCEPT ![r] = os],
           Listed(os), \A k \in 1 .. Len(os) : Formed(os[k])
    PROVE  /\ objs' = [q \in Ranks |-> objs'[q]] /\ objs'[r] = os
           /\ \A q \in Ranks : q # r => objs'[q] = objs[q]
           /\ \A q \in Ranks : /\ Listed(objs'[q])
                               /\ \A k \in 1 .. Len(objs'[q]) : Formed(objs'[q][k])
  <1>1. objs = [q \in Ranks |-> objs[q]]
    BY DEF Forms
  <1>2. /\ objs' = [q \in Ranks |-> objs'[q]] /\ objs'[r] = os
        /\ \A q \in Ranks : q # r => objs'[q] = objs[q]
    BY <1>1
  <1>3. ASSUME NEW q \in Ranks
        PROVE  Listed(objs'[q]) /\ \A k \in 1 .. Len(objs'[q]) : Formed(objs'[q][k])
    <2>1. CASE q = r
      <3>1. objs'[q] = os
        BY <1>2, <2>1
      <3> QED
        BY <3>1
    <2>2. CASE q # r
      <3>1. objs'[q] = objs[q]
        BY <1>2, <2>2
      <3>2. Listed(objs[q]) /\ \A k \in 1 .. Len(objs[q]) : Formed(objs[q][k])
        BY DEF Forms, Objects
      <3> QED
        BY <3>1, <3>2
    <2> QED
      BY <2>1, <2>2
  <1> QED
    BY <1>2, <1>3

LEMMA MsgFields ==
    \A kind, body : Msg(kind, body).kind = kind /\ Msg(kind, body).body = body
  BY DEF Msg

LEMMA AppendFits ==
    ASSUME NEW q, NEW up, NEW down, AllFit(q, up, down),
           NEW m, MessageFits(m, up, down)
    PROVE  AllFit(Append(q, m), up, down)
  <1>1. Listed(q) /\ Len(q) \in Nat
    BY DEF AllFit, Listed
  <1>2. /\ Listed(Append(q, m)) /\ Len(Append(q, m)) = Len(q) + 1
        /\ \A i \in 1 .. Len(q) : Append(q, m)[i] = q[i]
        /\ Append(q, m)[Len(q) + 1] = m
    BY <1>1, ListedAppend
  <1>3. ASSUME NEW i \in 1 .. Len(Append(q, m))
        PROVE  MessageFits(Append(q, m)[i], up, down)
    <2>1. i \in 1 .. Len(q) \/ i = Len(q) + 1
      BY <1>1, <1>2
    <2> QED
      BY <1>2, <2>1 DEF AllFit
  <1> QED
    BY <1>2, <1>3 DEF AllFit

LEMMA TailFits ==
    ASSUME NEW q, NEW up, NEW down, AllFit(q, up, down), q # <<>>
    PROVE  AllFit(Tail(q), up, down) /\ MessageFits(Head(q), up, down)
  <1>1. Listed(q) /\ Len(q) \in Nat
    BY DEF AllFit, Listed
  <1>2. /\ Listed(Tail(q)) /\ Head(q) = q[1] /\ Len(q) >= 1
        /\ \A i \in 1 .. Len(Tail(q)) :
               i + 1 \in 1 .. Len(q) /\ Tail(q)[i] = q[i + 1]
    BY <1>1, ListedTail
  <1>3. 1 \in 1 .. Len(q)
    BY <1>1, <1>2
  <1> QED
    BY <1>2, <1>3 DEF AllFit

\* One channel that changes; what is in it is well formed and fits.
LEMMA ChanSet ==
    ASSUME Mail, NEW s \in Ranks, NEW d \in Ranks, NEW q,
           chan' = [chan EXCEPT ![<<s, d>>] = q], numStrings' = numStrings,
           AllFit(q, numStrings[s], numStrings[d])
    PROVE  /\ Mail' /\ chan'[s, d] = q
           /\ \A a, b \in Ranks : a # s \/ b # d => chan'[a, b] = chan[a, b]
  <1>1. chan = [e \in Ranks \X Ranks |-> chan[e]]
    BY DEF Mail
  <1>2. chan' = [e \in Ranks \X Ranks |-> chan'[e]] /\ chan'[s, d] = q
    BY <1>1
  <1>3. \A a, b \in Ranks : a # s \/ b # d => chan'[a, b] = chan[a, b]
    BY <1>1
  <1>4. ASSUME NEW a \in Ranks, NEW b \in Ranks
        PROVE  AllFit(chan'[a, b], numStrings'[a], numStrings'[b])
    <2>1. CASE a = s /\ b = d
      BY <1>2, <2>1
    <2>2. CASE a # s \/ b # d
      BY <1>3, <2>2 DEF Mail
    <2> QED
      BY <2>1, <2>2
  <1>5. Mail'
    BY <1>2, <1>4 DEF Mail
  <1> QED
    BY <1>2, <1>3, <1>5

LEMMA PutChan ==
    ASSUME Mail, NEW s \in Ranks, NEW d \in Ranks, NEW m,
           chan' = [chan EXCEPT ![<<s, d>>] = Append(chan[s, d], m)],
           numStrings' = numStrings,
           MessageFits(m, numStrings[s], numStrings[d])
    PROVE  /\ Mail' /\ chan'[s, d] = Append(chan[s, d], m)
           /\ \A a, b \in Ranks : a # s \/ b # d => chan'[a, b] = chan[a, b]
  <1>1. PICK q : q = Append(chan[s, d], m)
    OBVIOUS
  <1>2. AllFit(chan[s, d], numStrings[s], numStrings[d])
    BY DEF Mail
  <1>3. AllFit(q, numStrings[s], numStrings[d])
    BY <1>1, <1>2, AppendFits
  <1>4. chan' = [chan EXCEPT ![<<s, d>>] = q]
    BY <1>1
  <1>5. /\ Mail' /\ chan'[s, d] = q
        /\ \A a, b \in Ranks : a # s \/ b # d => chan'[a, b] = chan[a, b]
    BY <1>3, <1>4, ChanSet
  <1> QED
    BY <1>1, <1>5

LEMMA TakeChan ==
    ASSUME Mail, NEW s \in Ranks, NEW d \in Ranks, chan[s, d] # <<>>,
           chan' = [chan EXCEPT ![<<s, d>>] = Tail(chan[s, d])],
           numStrings' = numStrings
    PROVE  /\ Mail' /\ chan'[s, d] = Tail(chan[s, d])
           /\ \A a, b \in Ranks : a # s \/ b # d => chan'[a, b] = chan[a, b]
           /\ MessageFits(Head(chan[s, d]), numStrings[s], numStrings[d])
  <1>1. PICK q : q = Tail(chan[s, d])
    OBVIOUS
  <1>2. AllFit(chan[s, d], numStrings[s], numStrings[d])
    BY DEF Mail
  <1>3. /\ AllFit(q, numStrings[s], numStrings[d])
        /\ MessageFits(Head(chan[s, d]), numStrings[s], numStrings[d])
    BY <1>1, <1>2, TailFits
  <1>4. chan' = [chan EXCEPT ![<<s, d>>] = q]
    BY <1>1
  <1>5. /\ Mail' /\ chan'[s, d] = q
        /\ \A a, b \in Ranks : a # s \/ b # d => chan'[a, b] = chan[a, b]
    BY <1>3, <1>4, ChanSet
  <1> QED
    BY <1>1, <1>3, <1>5

LEMMA Between == \A i, j, k \in Nat : i < j /\ j < k => i # k
  OBVIOUS

\* Rank r has exchanged nothing with q as its parent, or as its child.
AsParent(r, q) == DownSent(r, q)' = DownSent(r, q) /\ UpTaken(r, q)' = UpTaken(r, q)
AsChild(r, q) == DownTaken(q, r)' = DownTaken(q, r) /\ UpSent(q, r)' = UpSent(q, r)

LEMMA ParentKept ==
    ASSUME Protocol, NEW r \in Ranks, NEW q \in Ranks, r < q, AsParent(r, q),
           chan'[r, q] = chan[r, q], chan'[q, r] = chan[q, r]
    PROVE /\ Numbered(chan'[r, q], DownTaken(r, q), DownSent(r, q)', DownKinds)
          /\ Numbered(chan'[q, r], UpTaken(r, q)', UpSent(r, q), UpKinds(r, q))
  BY DEF Protocol, Channels, AsParent

LEMMA ChildKept ==
    ASSUME Protocol, NEW r \in Ranks, NEW q \in Ranks, q < r, AsChild(r, q),
           chan'[r, q] = chan[r, q], chan'[q, r] = chan[q, r]
    PROVE /\ Numbered(chan'[q, r], DownTaken(q, r)', DownSent(q, r), DownKinds)
          /\ Numbered(chan'[r, q], UpTaken(q, r), UpSent(q, r)', UpKinds(q, r))
  BY DEF Protocol, Channels, AsChild

\* All channels but those between two ranks.
OtherChannels(r, d) ==
    \A a, b \in Ranks : ~(a = r /\ b = d) /\ ~(a = d /\ b = r) =>
        chan'[a, b] = chan[a, b]

\* A step of a rank that exchanges messages with one of its children, ...
LEMMA WithChild ==
    ASSUME Protocol, NEW r \in Ranks, OthersAsWere(r), NEW d \in Ranks, r < d,
           OtherChannels(r, d),
           \A q \in Ranks : q # d => AsParent(r, q),
           \A q \in Ranks : q < r => AsChild(r, q),
           Numbered(chan'[r, d], DownTaken(r, d), DownSent(r, d)', DownKinds),
           Numbered(chan'[d, r], UpTaken(r, d)', UpSent(r, d), UpKinds(r, d))
    PROVE  Protocol'
  <1>1. ASSUME NEW q \in Ranks, r < q
        PROVE /\ Numbered(chan'[r, q], DownTaken(r, q), DownSent(r, q)', DownKinds)
              /\ Numbered(chan'[q, r], UpTaken(r, q)', UpSent(r, q), UpKinds(r, q))
    <2>1. CASE q = d
      BY <2>1
    <2>2. CASE q # d
      <3>1. chan'[r, q] = chan[r, q] /\ chan'[q, r] = chan[q, r] /\ AsParent(r, q)
        BY <2>2, Zenon DEF OtherChannels
      <3> QED
        BY <1>1, <3>1, ParentKept
    <2> QED
      BY <2>1, <2>2
  <1>2. ASSUME NEW q \in Ranks, q < r
        PROVE /\ Numbered(chan'[q, r], DownTaken(q, r)', DownSent(q, r), DownKinds)
              /\ Numbered(chan'[r, q], UpTaken(q, r), UpSent(q, r)', UpKinds(q, r))
    <2>1. q # d
      <3>1. q \in Nat /\ r \in Nat /\ d \in Nat
        BY RankFacts, Zenon
      <3>2. q < r /\ r < d
        BY <1>2
      <3> QED
        BY <3>1, <3>2, Between, Zenon
    <2>2. chan'[r, q] = chan[r, q] /\ chan'[q, r] = chan[q, r] /\ AsChild(r, q)
      BY <1>2, <2>1, Zenon DEF OtherChannels
    <2> QED
      BY <1>2, <2>2, ChildKept
  <1> QED
    BY <1>1, <1>2, ProtocolStep

\* ... and with its parent, or with rank 0.
LEMMA WithParent ==
    ASSUME Protocol, NEW r \in Ranks, OthersAsWere(r), NEW d \in Ranks, d < r,
           OtherChannels(r, d),
           \A q \in Ranks : AsParent(r, q),
           \A q \in Ranks : q # d /\ q < r => AsChild(r, q),
           Numbered(chan'[d, r], DownTaken(d, r)', DownSent(d, r), DownKinds),
           Numbered(chan'[r, d], UpTaken(d, r), UpSent(d, r)', UpKinds(d, r))
    PROVE  Protocol'
  <1>1. ASSUME NEW q \in Ranks, r < q
        PROVE /\ Numbered(chan'[r, q], DownTaken(r, q), DownSent(r, q)', DownKinds)
              /\ Numbered(chan'[q, r], UpTaken(r, q)', UpSent(r, q), UpKinds(r, q))
    <2>1. q # d
      <3>1. q \in Nat /\ r \in Nat /\ d \in Nat
        BY RankFacts, Zenon
      <3>2. d < r /\ r < q
        BY <1>1
      <3> QED
        BY <3>1, <3>2, Between, Zenon
    <2>2. chan'[r, q] = chan[r, q] /\ chan'[q, r] = chan[q, r] /\ AsParent(r, q)
      BY <2>1, Zenon DEF OtherChannels
    <2> QED
      BY <1>1, <2>2, ParentKept
  <1>2. ASSUME NEW q \in Ranks, q < r
        PROVE /\ Numbered(chan'[q, r], DownTaken(q, r)', DownSent(q, r), DownKinds)
              /\ Numbered(chan'[r, q], UpTaken(q, r), UpSent(q, r)', UpKinds(q, r))
    <2>1. CASE q = d
      BY <2>1
    <2>2. CASE q # d
      <3>1. chan'[r, q] = chan[r, q] /\ chan'[q, r] = chan[q, r] /\ AsChild(r, q)
        BY <1>2, <2>2, Zenon DEF OtherChannels
      <3> QED
        BY <1>2, <3>1, ChildKept
    <2> QED
      BY <2>1, <2>2
  <1> QED
    BY <1>1, <1>2, ProtocolStep

\* One message, sent or taken.
LEMMA SendDown ==
    ASSUME Mail, Protocol, NEW r \in Ranks, OthersAsWere(r), NEW d \in Ranks, r < d,
           NEW m, m.kind = DownKinds[DownSent(r, d) + 1],
           chan'[r, d] = Append(chan[r, d], m),
           \A a, b \in Ranks : a # r \/ b # d => chan'[a, b] = chan[a, b],
           DownSent(r, d)' = DownSent(r, d) + 1, UpTaken(r, d)' = UpTaken(r, d),
           \A q \in Ranks : q # d => AsParent(r, q),
           \A q \in Ranks : q < r => AsChild(r, q)
    PROVE  Protocol'
  <1>1. /\ Numbered(chan[r, d], DownTaken(r, d), DownSent(r, d), DownKinds)
        /\ Numbered(chan[d, r], UpTaken(r, d), UpSent(r, d), UpKinds(r, d))
    BY DEF Protocol, Channels
  <1>2. Listed(chan[r, d])
    BY DEF Mail, AllFit
  <1>3. Numbered(chan'[r, d], DownTaken(r, d), DownSent(r, d)', DownKinds)
    BY <1>1, <1>2, CountTypes, NumberedAppend
  <1>4. OtherChannels(r, d)
    BY DEF OtherChannels
  <1>5. r # d
    BY RankFacts, Different, Zenon
  <1>6. Numbered(chan'[d, r], UpTaken(r, d)', UpSent(r, d), UpKinds(r, d))
    BY <1>1, <1>5
  <1> QED
    BY <1>3, <1>4, <1>6, WithChild

LEMMA TakeUp ==
    ASSUME Mail, Protocol, NEW r \in Ranks, OthersAsWere(r), NEW d \in Ranks, r < d,
           chan[d, r] # <<>>, chan'[d, r] = Tail(chan[d, r]),
           \A a, b \in Ranks : a # d \/ b # r => chan'[a, b] = chan[a, b],
           UpTaken(r, d)' = UpTaken(r, d) + 1, DownSent(r, d)' = DownSent(r, d),
           \A q \in Ranks : q # d => AsParent(r, q),
           \A q \in Ranks : q < r => AsChild(r, q)
    PROVE  Protocol'
  <1>1. /\ Numbered(chan[r, d], DownTaken(r, d), DownSent(r, d), DownKinds)
        /\ Numbered(chan[d, r], UpTaken(r, d), UpSent(r, d), UpKinds(r, d))
    BY DEF Protocol, Channels
  <1>2. Listed(chan[d, r])
    BY DEF Mail, AllFit
  <1>3. Numbered(chan'[d, r], UpTaken(r, d)', UpSent(r, d), UpKinds(r, d))
    <2>1. UpTaken(r, d) \in Nat /\ UpSent(r, d) \in Nat
      BY CountTypes
    <2>2. Numbered(Tail(chan[d, r]), UpTaken(r, d) + 1, UpSent(r, d), UpKinds(r, d))
      BY <1>1, <1>2, <2>1, NumberedTail
    <2> QED
      BY <2>2
  <1>4. OtherChannels(r, d)
    BY DEF OtherChannels
  <1>5. r # d
    BY RankFacts, Different, Zenon
  <1>6. Numbered(chan'[r, d], DownTaken(r, d), DownSent(r, d)', DownKinds)
    BY <1>1, <1>5
  <1> QED
    BY <1>3, <1>4, <1>6, WithChild

LEMMA SendUp ==
    ASSUME Mail, Protocol, NEW r \in Ranks, OthersAsWere(r), NEW d \in Ranks, d < r,
           NEW m, m.kind = UpKinds(d, r)[UpSent(d, r) + 1],
           chan'[r, d] = Append(chan[r, d], m),
           \A a, b \in Ranks : a # r \/ b # d => chan'[a, b] = chan[a, b],
           UpSent(d, r)' = UpSent(d, r) + 1, DownTaken(d, r)' = DownTaken(d, r),
           \A q \in Ranks : AsParent(r, q),
           \A q \in Ranks : q # d /\ q < r => AsChild(r, q)
    PROVE  Protocol'
  <1>1. /\ Numbered(chan[d, r], DownTaken(d, r), DownSent(d, r), DownKinds)
        /\ Numbered(chan[r, d], UpTaken(d, r), UpSent(d, r), UpKinds(d, r))
    BY DEF Protocol, Channels
  <1>2. Listed(chan[r, d])
    BY DEF Mail, AllFit
  <1>3. Numbered(chan'[r, d], UpTaken(d, r), UpSent(d, r)', UpKinds(d, r))
    BY <1>1, <1>2, CountTypes, NumberedAppend
  <1>4. OtherChannels(r, d)
    BY DEF OtherChannels
  <1>5. r # d
    BY RankFacts, Different, Zenon
  <1>6. Numbered(chan'[d, r], DownTaken(d, r)', DownSent(d, r), DownKinds)
    BY <1>1, <1>5
  <1> QED
    BY <1>3, <1>4, <1>6, WithParent

LEMMA TakeDown ==
    ASSUME Mail, Protocol, NEW r \in Ranks, OthersAsWere(r), NEW d \in Ranks, d < r,
           chan[d, r] # <<>>, chan'[d, r] = Tail(chan[d, r]),
           \A a, b \in Ranks : a # d \/ b # r => chan'[a, b] = chan[a, b],
           DownTaken(d, r)' = DownTaken(d, r) + 1, UpSent(d, r)' = UpSent(d, r),
           \A q \in Ranks : AsParent(r, q),
           \A q \in Ranks : q # d /\ q < r => AsChild(r, q)
    PROVE  Protocol'
  <1>1. /\ Numbered(chan[d, r], DownTaken(d, r), DownSent(d, r), DownKinds)
        /\ Numbered(chan[r, d], UpTaken(d, r), UpSent(d, r), UpKinds(d, r))
    BY DEF Protocol, Channels
  <1>2. Listed(chan[d, r])
    BY DEF Mail, AllFit
  <1>3. Numbered(chan'[d, r], DownTaken(d, r)', DownSent(d, r), DownKinds)
    <2>1. DownTaken(d, r) \in Nat /\ DownSent(d, r) \in Nat
      BY CountTypes
    <2>2. Numbered(Tail(chan[d, r]), DownTaken(d, r) + 1, DownSent(d, r), DownKinds)
      BY <1>1, <1>2, <2>1, NumberedTail
    <2> QED
      BY <2>2
  <1>4. OtherChannels(r, d)
    BY DEF OtherChannels
  <1>5. r # d
    BY RankFacts, Different, Zenon
  <1>6. Numbered(chan'[r, d], UpTaken(d, r), UpSent(d, r)', UpKinds(d, r))
    BY <1>1, <1>5
  <1> QED
    BY <1>3, <1>4, <1>6, WithParent

\* What the next message in a channel is.
LEMMA NextUp ==
    ASSUME Mail, Protocol, NEW p \in Ranks, NEW c \in Ranks, p < c,
           chan[c, p] # <<>>
    PROVE  /\ Head(chan[c, p]).kind = UpKinds(p, c)[UpTaken(p, c) + 1]
           /\ UpTaken(p, c) < UpSent(p, c)
  <1>1. Numbered(chan[c, p], UpTaken(p, c), UpSent(p, c), UpKinds(p, c))
    BY DEF Protocol, Channels
  <1>2. Listed(chan[c, p])
    BY DEF Mail, AllFit
  <1> QED
    BY <1>1, <1>2, CountTypes, NumberedTail

LEMMA NextDown ==
    ASSUME Mail, Protocol, NEW p \in Ranks, NEW c \in Ranks, p < c,
           chan[p, c] # <<>>
    PROVE  /\ Head(chan[p, c]).kind = DownKinds[DownTaken(p, c) + 1]
           /\ DownTaken(p, c) < DownSent(p, c)
  <1>1. Numbered(chan[p, c], DownTaken(p, c), DownSent(p, c), DownKinds)
    BY DEF Protocol, Channels
  <1>2. Listed(chan[p, c])
    BY DEF Mail, AllFit
  <1> QED
    BY <1>1, <1>2, CountTypes, NumberedTail

-----------------------------------------------------------------------------
(* The steps of a unification.                                             *)

Unifying == Early \cup {"send", "map", "down"}

\* Rank r is asking c for its names, and has been told their length.
Told(r, c) == pc[r] = "names" /\ c = r + mask[r]

LEMMA SameAsParent ==
    ASSUME NEW r \in Ranks, NEW q \in Ranks,
           pc[r] \in Unifying, pc'[r] \in Unifying,
           lister'[r] = lister[r], gather' = gather,
           Edge(r, q) => /\ Asked(r, q)' <=> Asked(r, q)
                         /\ Received(r, q)' <=> Received(r, q)
                         /\ TableSent(r, q)' <=> TableSent(r, q)
                         /\ Told(r, q)' <=> Told(r, q)
    PROVE  AsParent(r, q)
  <1>1. Edge(r, q) => /\ TreeDownSent(r, q)' = TreeDownSent(r, q)
                      /\ TreeUpTaken(r, q)' = TreeUpTaken(r, q)
    BY DEF TreeDownSent, TreeUpTaken, Told, Once, Call
  <1>2. /\ pc[r] \notin {"blocklen", "block"} /\ pc'[r] \notin {"blocklen", "block"}
        /\ pc[r] # "block" /\ pc'[r] # "block"
    BY DEF Unifying, Early, Collecting
  <1>3. CASE r = 0
    BY <1>1, <1>2, <1>3 DEF AsParent, DownSent, UpTaken, InTree
  <1>4. CASE r # 0
    BY <1>1, <1>4 DEF AsParent, DownSent, UpTaken, InTree, Once
  <1> QED
    BY <1>3, <1>4

LEMMA SameAsChild ==
    ASSUME NEW r \in Ranks, NEW q \in Ranks,
           pc[r] \in Early, pc'[r] \in Early, lister'[r] = lister[r]
    PROVE  AsChild(r, q)
  <1>1. /\ TreeDownTaken(r)' = TreeDownTaken(r)
        /\ TreeUpSent(r)' = TreeUpSent(r)
    BY DEF TreeDownTaken, TreeUpSent, Once, Call
  <1>2. /\ pc[r] \notin {"sendblock", "returned"} /\ pc[r] # "returned"
        /\ pc'[r] \notin {"sendblock", "returned"} /\ pc'[r] # "returned"
    BY DEF Early, Collecting
  <1> QED
    BY <1>1, <1>2 DEF AsChild, DownTaken, UpSent, InTree

\* A step that exchanges no messages.
LEMMA Silent ==
    ASSUME Protocol, NEW r \in Ranks, OthersAsWere(r), chan' = chan,
           \A q \in Ranks : AsParent(r, q), \A q \in Ranks : AsChild(r, q)
    PROVE  Protocol'
  BY QuietProtocol DEF AsParent, AsChild

LEMMA SameMail ==
    ASSUME Mail, chan' = chan, numStrings' = numStrings
    PROVE  Mail'
  BY DEF Mail

LEMMA Identity ==
    ASSUME NEW rank, NEW strings \in Seq(Names)
    PROVE  /\ Formed(NewObject(rank, strings))
           /\ NewObject(rank, strings).rank = rank
           /\ NewObject(rank, strings).strings = strings
           /\ Len(NewObject(rank, strings).mapping) = Len(strings)
  <1>1. PICK identity : identity = [i \in 1 .. Len(strings) |-> i]
    OBVIOUS
  <1>2. Len(strings) \in Nat
    BY LenProperties
  <1>3. identity \in Seq(Nat) /\ Len(identity) = Len(strings)
    <2>1. identity \in [1 .. Len(strings) -> Nat]
      BY <1>1
    <2> QED
      BY <1>2, <2>1, FunctionIsSeq
  <1>4. Listed(identity)
    BY <1>3, SeqIsListed
  <1>5. NewObject(rank, strings) = [rank |-> rank, strings |-> strings,
                                    mapping |-> identity, idx |-> 1]
    BY <1>1 DEF NewObject
  <1> QED
    BY <1>3, <1>4, <1>5 DEF Formed

LEMMA OneListed ==
    ASSUME NEW o
    PROVE  Listed(<<o>>) /\ Len(<<o>>) = 1 /\ <<o>>[1] = o
  <1>1. <<o>> \in Seq({o})
    OBVIOUS
  <1> QED
    BY <1>1, SeqIsListed

\* What a rank has from the call before is not used any more.
LEMMA StartMoves ==
    ASSUME PInv, NEW r \in Ranks, Start(r), UNCHANGED mergeVars
    PROVE  PInv'
  <1>1. Forms /\ Mail /\ Protocol /\ Placed(r)
    BY DEF PInv
  <1>2. /\ pc[r] = "start" /\ pc' = [pc EXCEPT ![r] = "buffer"]
        /\ UNCHANGED <<db, lister, mask, objs, merged, numStrings, child, chan,
                       gather>>
    BY DEF Start, GoTo, mergeVars
  <1>3. pc'[r] = "buffer" /\ \A q \in Ranks : q # r => pc'[q] = pc[q]
    BY <1>1, <1>2 DEF Forms
  <1>4. OthersAsWere(r)
    BY <1>2, <1>3 DEF OthersAsWere
  <1>5. Forms'
    <2>1. pc' \in [Ranks -> Places]
      BY <1>1, <1>2 DEF Forms, Places
    <2> QED
      BY <1>1, <1>2, <2>1 DEF Forms, Objects
  <1>6. Protocol'
    <2>1. ASSUME NEW q \in Ranks
          PROVE  AsParent(r, q) /\ AsChild(r, q)
      <3>1. /\ ~TableSent(r, q) /\ ~TableSent(r, q)'
            /\ ~Asked(r, q) /\ ~Received(r, q) /\ ~Told(r, q)
            /\ ~Asked(r, q)' /\ ~Received(r, q)' /\ ~Told(r, q)'
        BY <1>2, <1>3 DEF TableSent, Asked, Received, Told
      <3>2. pc[r] \in Early /\ pc'[r] \in Early
        BY <1>2, <1>3 DEF Early
      <3> QED
        BY <1>2, <3>1, <3>2, SameAsParent, SameAsChild DEF Unifying
    <2> QED
      BY <1>1, <1>2, <1>4, <2>1, Silent
  <1>7. Placed(r)'
    BY <1>1, <1>2, <1>3 DEF Placed, Collecting, Waiting, Late, AtRoot
  <1>8. Family(r)' /\ Fits(r)'
    BY <1>3 DEF Family, Fits
  <1> QED
    BY <1>1, <1>2, <1>4, <1>5, <1>6, <1>7, <1>8, SameMail, KeepsPInv

LEMMA FillBufferMoves ==
    ASSUME PInv, NEW r \in Ranks, FillBuffer(r), UNCHANGED mergeVars
    PROVE  PInv'
  <1> DEFINE entries == db[lister[r]][r]
  <1>1. Forms /\ Mail /\ Protocol /\ Placed(r) /\ Family(r) /\ r \in Nat
    BY RankFacts DEF PInv
  <1>2. PICK order \in Reads(sortMap[r], entries) :
            objs' = [objs EXCEPT ![r] = <<NewObject(-1,
                        [i \in 1 .. Len(order) |-> entries[order[i]].name])>>]
    BY DEF FillBuffer
  <1>3. entries \in Seq(Entries) /\ Len(entries) \in Nat
    BY <1>1 DEF Forms, Listers
  <1>4. /\ order \in [1 .. Len(entries) -> 1 .. Len(entries)]
        /\ Len(order) = Len(entries)
    <2>1. order \in [1 .. Len(entries) -> 1 .. Len(entries)]
      BY <1>2 DEF Reads
    <2> HIDE DEF entries
    <2>2. Len(order) = Len(entries)
      BY <1>3, <2>1, FunctionIsSeq
    <2> QED
      BY <2>1, <2>2
  <1>5. PICK strings : strings = [i \in 1 .. Len(order) |-> entries[order[i]].name]
    OBVIOUS
  <1>6. strings \in Seq(Names) /\ Len(strings) = Len(entries)
    <2>1. \A j \in 1 .. Len(entries) : entries[j] \in Entries
      BY <1>3, ElementOfSeq
    <2>2. \A i \in 1 .. Len(order) : entries[order[i]].name \in Names
      BY <1>4, <2>1 DEF Names
    <2>3. strings \in [1 .. Len(entries) -> Names]
      BY <1>4, <1>5, <2>2
    <2> HIDE DEF entries
    <2> QED
      BY <1>3, <2>3, FunctionIsSeq
  <1>7. PICK o : o = NewObject(-1, strings)
    OBVIOUS
  <1>8. Formed(o) /\ o.strings = strings
    BY <1>6, <1>7, Identity
  <1>9. objs' = [objs EXCEPT ![r] = <<o>>]
    BY <1>2, <1>5, <1>7
  <1>10. Listed(<<o>>) /\ Len(<<o>>) = 1 /\ <<o>>[1] = o
    BY OneListed
  <1>11. /\ objs' = [q \in Ranks |-> objs'[q]] /\ objs'[r] = <<o>>
         /\ \A q \in Ranks : q # r => objs'[q] = objs[q]
         /\ \A q \in Ranks : /\ Listed(objs'[q])
                             /\ \A k \in 1 .. Len(objs'[q]) : Formed(objs'[q][k])
    <2>1. \A k \in 1 .. Len(<<o>>) : Formed(<<o>>[k])
      BY <1>8, <1>10
    <2> QED
      BY <1>1, <1>9, <1>10, <2>1, ObjsSet
  <1>12. /\ mask'[r] = 1 /\ child'[r] = 2 /\ pc'[r] = "tree" /\ pc[r] = "buffer"
         /\ lister' = lister /\ db' = db /\ chan' = chan /\ gather' = gather
         /\ numStrings' = numStrings
    BY <1>1 DEF FillBuffer, GoTo, Forms, mergeVars
  <1>13. OthersAsWere(r)
    BY <1>1, <1>11 DEF OthersAsWere, FillBuffer, GoTo, Forms, mergeVars
  <1>14. Forms'
    <2>1. pc' \in [Ranks -> Places] /\ mask' \in [Ranks -> Masks]
      BY <1>1, MaskFacts DEF Forms, FillBuffer, GoTo, Places
    <2>2. child' \in [Ranks -> Nat] /\ merged' \in [Ranks -> Seq(Names)]
      BY <1>1 DEF Forms, FillBuffer
    <2> QED
      BY <1>1, <1>11, <1>12, <2>1, <2>2 DEF Forms, Objects
  <1>15. Protocol'
    <2>1. ASSUME NEW q \in Ranks
          PROVE  AsParent(r, q) /\ AsChild(r, q)
      <3>1. Edge(r, q) => q \in Nat /\ r < q
        BY EdgeFacts
      <3>2. ~TableSent(r, q) /\ ~TableSent(r, q)'
        BY <1>10, <1>11, <1>12 DEF TableSent
      <3>3. Edge(r, q) => ~Asked(r, q)' /\ ~Received(r, q)'
        BY <1>1, <1>12, <3>1 DEF Asked, Received
      <3>4. /\ ~Asked(r, q) /\ ~Received(r, q) /\ ~Told(r, q) /\ ~Told(r, q)'
        BY <1>12 DEF Asked, Received, Told
      <3>5. pc[r] \in Early /\ pc'[r] \in Early
        BY <1>12 DEF Early, Collecting
      <3> QED
        BY <1>12, <3>2, <3>3, <3>4, <3>5, SameAsParent, SameAsChild DEF Unifying
    <2> QED
      BY <1>1, <1>12, <1>13, <2>1, Silent
  <1>16. Placed(r)'
    <2>1. r = 1 * r
      BY <1>1
    <2> QED
      BY <1>1, <1>12, <2>1
      DEF Placed, Collecting, Waiting, Late, AtRoot
  <1>17. Family(r)'
    <2>1. ASSUME NEW c \in Ranks, Edge(r, c)
          PROVE  ~(c - r < 1)
      BY <1>1, <2>1, EdgeFacts
    <2>2. \A k : k \notin 2 .. 1
      OBVIOUS
    <2> QED
      BY <1>10, <1>11, <1>12, <2>1, <2>2 DEF Family
  <1>18. Fits(r)'
    <2>1. Len(objs'[r][1].strings) <= Len(db'[lister'[r]][r])
      BY <1>3, <1>6, <1>8, <1>10, <1>11, <1>12
    <2>2. \A k : k \notin 2 .. 1
      OBVIOUS
    <2> QED
      BY <1>10, <1>11, <2>1, <2>2 DEF Fits
  <1> QED
    BY <1>1, <1>12, <1>13, <1>14, <1>15, <1>16, <1>17, <1>18, SameMail, KeepsPInv

\* What a step adds to the counts is what it adds to those of the tree.
LEMMA MoreAsParent ==
    ASSUME NEW r \in Ranks, NEW q \in Ranks, Edge(r, q),
           pc[r] \in Unifying, pc'[r] \in Unifying, gather' = gather
    PROVE  /\ DownSent(r, q)' - TreeDownSent(r, q)' = DownSent(r, q) - TreeDownSent(r, q)
           /\ UpTaken(r, q)' - TreeUpTaken(r, q)' = UpTaken(r, q) - TreeUpTaken(r, q)
           /\ TreeDownSent(r, q) \in Nat /\ TreeUpTaken(r, q) \in Nat
           /\ TreeDownSent(r, q)' \in Nat /\ TreeUpTaken(r, q)' \in Nat
           /\ DownSent(r, q)' \in Nat /\ UpTaken(r, q)' \in Nat
  <1>1. /\ pc[r] \notin {"blocklen", "block"} /\ pc'[r] \notin {"blocklen", "block"}
        /\ pc[r] # "block" /\ pc'[r] # "block"
    BY DEF Unifying, Early, Collecting
  <1>2. \A b : Once(b) \in Nat
    BY DEF Once
  <1>3. /\ TreeDownSent(r, q) \in Nat /\ TreeUpTaken(r, q) \in Nat
        /\ TreeDownSent(r, q)' \in Nat /\ TreeUpTaken(r, q)' \in Nat
    BY DEF TreeDownSent, TreeUpTaken, Call, Once
  <1>4. CASE r = 0
    BY <1>1, <1>2, <1>3, <1>4 DEF DownSent, UpTaken, InTree, Once
  <1>5. CASE r # 0
    BY <1>2, <1>3, <1>5 DEF DownSent, UpTaken, InTree, Once
  <1> QED
    BY <1>3, <1>4, <1>5

\* During a unification rank 0 has not begun to collect the buffers.
LEMMA TreeCounts ==
    ASSUME NEW r \in Ranks, NEW q \in Ranks, Placed(r), Edge(r, q),
           pc[r] \in Unifying
    PROVE  DownSent(r, q) = TreeDownSent(r, q) /\ UpTaken(r, q) = TreeUpTaken(r, q)
  <1>1. /\ pc[r] \notin {"blocklen", "block"} /\ pc[r] # "block"
        /\ pc[r] \notin AtRoot \cup {"returned"}
    BY DEF Unifying, Early, Collecting, AtRoot
  <1>2. r = 0 => ~(q < gather)
    BY <1>1, EdgeFacts DEF Placed
  <1>3. /\ TreeDownSent(r, q) \in Nat /\ TreeUpTaken(r, q) \in Nat
    BY DEF TreeDownSent, TreeUpTaken, Call, Once
  <1> QED
    BY <1>1, <1>2, <1>3 DEF DownSent, UpTaken, InTree, Once

LEMMA SkipChildMoves ==
    ASSUME PInv, NEW r \in Ranks, SkipChild(r), UNCHANGED mergeVars
    PROVE  PInv'
  <1>1. /\ Forms /\ Mail /\ Protocol /\ Placed(r) /\ Family(r) /\ Fits(r)
        /\ r \in Nat /\ mask[r] \in Masks /\ mask[r] \in Nat
        /\ pc[r] = "tree" /\ Source(r) \notin Ranks
    BY RankFacts, MaskPositive DEF PInv, Forms, SkipChild
  <1>2. PICK k \in Nat : r = mask[r] * k
    BY <1>1 DEF Placed
  <1>3. \E i \in Nat : r = (2 * mask[r]) * i
    BY <1>1, <1>2, BitUnset DEF SkipChild, HasBit
  <1>4. /\ mask'[r] = 2 * mask[r] /\ pc' = pc /\ child' = child /\ objs' = objs
        /\ lister' = lister /\ db' = db /\ chan' = chan /\ gather' = gather
        /\ numStrings' = numStrings /\ merged' = merged
    BY <1>1 DEF SkipChild, NextMask, Forms, mergeVars
  <1>5. OthersAsWere(r)
    BY <1>1, <1>4 DEF OthersAsWere, SkipChild, NextMask, Forms
  <1>6. Forms'
    <2>1. mask' \in [Ranks -> Masks]
      BY <1>1, MaskFacts DEF Forms, SkipChild, NextMask
    <2> QED
      BY <1>1, <1>4, <2>1 DEF Forms, Objects
  <1>7. \A q \in Ranks : Edge(r, q) => (q - r < 2 * mask[r] <=> q - r < mask[r])
    BY <1>1, NextChild DEF Source
  <1>8. Protocol'
    <2>1. ASSUME NEW q \in Ranks
          PROVE  AsParent(r, q) /\ AsChild(r, q)
      <3>1. Edge(r, q) => /\ Asked(r, q)' <=> Asked(r, q)
                          /\ Received(r, q)' <=> Received(r, q)
        BY <1>1, <1>4, <1>7 DEF Asked, Received
      <3>2. TableSent(r, q)' <=> TableSent(r, q)
        BY <1>4 DEF TableSent
      <3>3. ~Told(r, q) /\ ~Told(r, q)'
        BY <1>1, <1>4 DEF Told
      <3>4. pc[r] \in Early /\ pc'[r] \in Early
        BY <1>1, <1>4 DEF Early, Collecting
      <3> QED
        BY <1>4, <3>1, <3>2, <3>3, <3>4, SameAsParent, SameAsChild DEF Unifying
    <2> QED
      BY <1>1, <1>4, <1>5, <2>1, Silent
  <1>9. Placed(r)'
    BY <1>1, <1>3, <1>4 DEF Placed, Collecting, Waiting, Late, AtRoot
  <1>10. Family(r)'
    <2>1. \A c \in Ranks : Edge(r, c) => (c - r < mask'[r] <=> c - r < mask[r])
      BY <1>4, <1>7
    <2> QED
      BY <1>1, <1>4, <2>1 DEF Family
  <1>11. Fits(r)'
    BY <1>1, <1>4 DEF Fits
  <1> QED
    BY <1>1, <1>4, <1>5, <1>6, <1>8, <1>9, <1>10, <1>11, SameMail, KeepsPInv

LEMMA OddNumbers ==
    \A n \in Nat : (2 * n + 1) % 2 = 1 /\ (2 * n + 2) % 2 = 0
  OBVIOUS

LEMMA AskChildMoves ==
    ASSUME PInv, NEW r \in Ranks, AskChild(r), UNCHANGED mergeVars
    PROVE  PInv'
  <1>1. /\ Forms /\ Mail /\ Protocol /\ Placed(r) /\ Family(r) /\ Fits(r)
        /\ r \in Nat /\ mask[r] \in Masks /\ mask[r] \in Nat /\ mask[r] >= 1
        /\ pc[r] = "tree" /\ Source(r) \in Ranks
    BY RankFacts, MaskPositive DEF PInv, Forms, AskChild
  <1>2. PICK k \in Nat : r = mask[r] * k
    BY <1>1 DEF Placed
  <1>3. PICK d \in Ranks : d = Source(r)
    BY <1>1
  <1>4. Edge(r, d) /\ d = r + mask[r] /\ r < d
    <2>1. Edge(r, r + mask[r])
      BY <1>1, <1>2, BitUnset DEF AskChild, HasBit
    <2> QED
      BY <1>1, <1>3, <2>1 DEF Source
  <1>5. PICK m : m = Msg("ok", <<>>)
    OBVIOUS
  <1>6. m.kind = "ok"
    BY <1>5, MsgFields
  <1>7. chan' = [chan EXCEPT ![<<r, d>>] = Append(chan[r, d], m)]
    BY <1>3, <1>5 DEF AskChild, Send
  <1>8. /\ mask' = mask /\ pc'[r] = "len" /\ child' = child /\ objs' = objs
        /\ lister' = lister /\ db' = db /\ gather' = gather
        /\ numStrings' = numStrings /\ merged' = merged
    BY <1>1 DEF AskChild, GoTo, Forms, mergeVars, treeVars
  <1>9. /\ Mail' /\ chan'[r, d] = Append(chan[r, d], m)
        /\ \A a, b \in Ranks : a # r \/ b # d => chan'[a, b] = chan[a, b]
    <2>1. MessageFits(m, numStrings[r], numStrings[d])
      BY <1>6 DEF MessageFits
    <2> QED
      BY <1>1, <1>7, <1>8, <2>1, PutChan
  <1>10. OthersAsWere(r)
    <2>1. \A q \in Ranks : q # r => pc'[q] = pc[q]
      BY <1>1 DEF AskChild, GoTo, Forms
    <2>2. r # d
      BY <1>1, <1>4
    <2> QED
      BY <1>8, <1>9, <2>1, <2>2 DEF OthersAsWere
  <1>11. Forms'
    <2>1. pc' \in [Ranks -> Places]
      BY <1>1 DEF Forms, AskChild, GoTo, Places
    <2> QED
      BY <1>1, <1>8, <2>1 DEF Forms, Objects
  <1>12. /\ pc[r] \in Early /\ pc'[r] \in Early
         /\ pc[r] \in Unifying /\ pc'[r] \in Unifying
    BY <1>1, <1>8 DEF Early, Unifying, Collecting
  <1>13. Protocol'
    <2>1. \A q \in Ranks : ~TableSent(r, q) /\ ~TableSent(r, q)'
      BY <1>1, <1>8 DEF TableSent, Placed, Collecting
    <2>2. \A q \in Ranks : /\ Received(r, q)' <=> Received(r, q)
                           /\ ~Told(r, q) /\ ~Told(r, q)'
      BY <1>1, <1>8 DEF Received, Told
    <2>3. ASSUME NEW q \in Ranks, q # d
          PROVE  AsParent(r, q)
      <3>1. Asked(r, q)' <=> Asked(r, q)
        BY <1>1, <1>4, <1>8, <2>3 DEF Asked
      <3> QED
        BY <1>8, <1>12, <2>1, <2>2, <3>1, SameAsParent
    <2>4. \A q \in Ranks : AsChild(r, q)
      BY <1>8, <1>12, SameAsChild
    <2>5. ~Asked(r, d) /\ Asked(r, d)'
      BY <1>1, <1>4, <1>8 DEF Asked
    <2>6. /\ TreeDownSent(r, d)' = TreeDownSent(r, d) + 1
          /\ TreeUpTaken(r, d)' = TreeUpTaken(r, d)
          /\ TreeDownSent(r, d) = 2 * Call(r) /\ Call(r) \in Nat
      BY <1>8, <2>1, <2>2, <2>5
      DEF TreeDownSent, TreeUpTaken, Told, Once, Call
    <2>7. /\ DownSent(r, d)' = DownSent(r, d) + 1
          /\ UpTaken(r, d)' = UpTaken(r, d)
      BY <1>4, <1>8, <1>12, <2>6, MoreAsParent, CountTypes
    <2>8. m.kind = DownKinds[DownSent(r, d) + 1]
      <3>1. DownSent(r, d) = 2 * Call(r)
        BY <1>1, <1>4, <1>12, <2>6, TreeCounts
      <3> QED
        BY <1>6, <2>6, <3>1, OddNumbers DEF DownKinds
    <2> QED
      BY <1>1, <1>4, <1>9, <1>10, <2>3, <2>4, <2>7, <2>8, SendDown, ZenonT(40)
  <1>14. Placed(r)'
    BY <1>1, <1>3, <1>4, <1>8
    DEF Placed, Collecting, Waiting, Late, AtRoot, Source
  <1>15. Family(r)'
    BY <1>1, <1>8 DEF Family
  <1>16. Fits(r)'
    BY <1>1, <1>8 DEF Fits
  <1> QED
    BY <1>8, <1>9, <1>10, <1>11, <1>13, <1>14, <1>15, <1>16, KeepsPInv

LEMMA ReceiveLengthMoves ==
    ASSUME PInv, NEW r \in Ranks, ReceiveLength(r), UNCHANGED mergeVars
    PROVE  PInv'
  <1>1. /\ Forms /\ Mail /\ Protocol /\ Placed(r) /\ Family(r) /\ Fits(r)
        /\ r \in Nat /\ mask[r] \in Masks /\ mask[r] \in Nat /\ mask[r] >= 1
        /\ pc[r] = "len" /\ child[r] = 2
    BY RankFacts, MaskPositive
    DEF PInv, Forms, ReceiveLength, Placed, Collecting
  <1>2. PICK d \in Ranks : d = Source(r)
    BY <1>1 DEF Placed
  <1>3. Edge(r, d) /\ d = r + mask[r] /\ r < d
    BY <1>1, <1>2 DEF Placed, Source
  <1>4. chan[d, r] # <<>> /\ chan' = [chan EXCEPT ![<<d, r>>] = Tail(chan[d, r])]
    BY <1>2 DEF ReceiveLength, Receive, Arrived
  <1>5. /\ mask' = mask /\ pc'[r] = "names" /\ child' = child /\ objs' = objs
        /\ lister' = lister /\ db' = db /\ gather' = gather
        /\ numStrings' = numStrings /\ merged' = merged
    BY <1>1 DEF ReceiveLength, GoTo, Forms, mergeVars, treeVars
  <1>6. /\ Mail' /\ chan'[d, r] = Tail(chan[d, r])
        /\ \A a, b \in Ranks : a # d \/ b # r => chan'[a, b] = chan[a, b]
    BY <1>1, <1>4, <1>5, TakeChan
  <1>7. OthersAsWere(r)
    <2>1. \A q \in Ranks : q # r => pc'[q] = pc[q]
      BY <1>1 DEF ReceiveLength, GoTo, Forms
    <2>2. r # d
      BY <1>1, <1>3
    <2> QED
      BY <1>5, <1>6, <2>1, <2>2 DEF OthersAsWere
  <1>8. Forms'
    <2>1. pc' \in [Ranks -> Places]
      BY <1>1 DEF Forms, ReceiveLength, GoTo, Places
    <2> QED
      BY <1>1, <1>5, <2>1 DEF Forms, Objects
  <1>9. /\ pc[r] \in Early /\ pc'[r] \in Early
        /\ pc[r] \in Unifying /\ pc'[r] \in Unifying
    BY <1>1, <1>5 DEF Early, Unifying, Collecting
  <1>10. Protocol'
    <2>1. \A q \in Ranks : ~TableSent(r, q) /\ ~TableSent(r, q)'
      BY <1>1, <1>5 DEF TableSent
    <2>2. \A q \in Ranks : /\ Received(r, q)' <=> Received(r, q)
                           /\ Asked(r, q)' <=> Asked(r, q)
      BY <1>1, <1>5 DEF Received, Asked
    <2>3. ASSUME NEW q \in Ranks, q # d
          PROVE  AsParent(r, q)
      <3>1. ~Told(r, q) /\ ~Told(r, q)'
        BY <1>1, <1>3, <1>5, <2>3 DEF Told
      <3> QED
        BY <1>5, <1>9, <2>1, <2>2, <3>1, SameAsParent
    <2>4. \A q \in Ranks : AsChild(r, q)
      BY <1>5, <1>9, SameAsChild
    <2>5. ~Told(r, d) /\ Told(r, d)'
      BY <1>1, <1>3, <1>5 DEF Told
    <2>6. /\ TreeDownSent(r, d)' = TreeDownSent(r, d)
          /\ TreeUpTaken(r, d)' = TreeUpTaken(r, d) + 1
      <3>1. Call(r)' = Call(r) /\ Call(r) \in Nat
        BY <1>5 DEF Call
      <3>2. Once(Received(r, d)) \in Nat
        BY DEF Once
      <3>3. TreeDownSent(r, d)' = TreeDownSent(r, d)
        BY <2>1, <2>2, <3>1 DEF TreeDownSent, Once
      <3>4. Once(Received(r, d))' = Once(Received(r, d))
        BY <2>2 DEF Once
      <3>5. /\ Once(pc[r] = "names" /\ d = r + mask[r]) = 0
            /\ Once(pc[r] = "names" /\ d = r + mask[r])' = 1
        BY <2>5 DEF Told, Once
      <3> QED
        BY <3>1, <3>2, <3>3, <3>4, <3>5 DEF TreeUpTaken
    <2>7. /\ DownSent(r, d)' = DownSent(r, d)
          /\ UpTaken(r, d)' = UpTaken(r, d) + 1
      BY <1>3, <1>5, <1>9, <2>6, MoreAsParent, CountTypes
    <2> QED
      BY <1>1, <1>3, <1>4, <1>6, <1>7, <2>3, <2>4, <2>7, TakeUp
  <1>11. Placed(r)'
    BY <1>1, <1>2, <1>3, <1>5
    DEF Placed, Collecting, Waiting, Late, AtRoot, Source
  <1>12. Family(r)'
    BY <1>1, <1>5 DEF Family
  <1>13. Fits(r)'
    BY <1>1, <1>5 DEF Fits
  <1> QED
    BY <1>5, <1>6, <1>7, <1>8, <1>10, <1>11, <1>12, <1>13, KeepsPInv

\* The half of a child's edge: the parent is a multiple of the double.
LEMMA DoubleMask ==
    ASSUME NEW r, NEW m \in Nat, Edge(r, r + m)
    PROVE  \E i \in Nat : r = (2 * m) * i
  <1>1. r \in Nat
    BY EdgeFacts
  <1>2. (r + m) - r = m
    BY <1>1
  <1>3. PICK j \in Nat : r = m * (2 * j)
    BY <1>2, EdgeFacts
  <1>4. m * (2 * j) = (2 * m) * j
    OBVIOUS
  <1> QED
    BY <1>3, <1>4

LEMMA ReceiveNamesMoves ==
    ASSUME PInv, NEW r \in Ranks, ReceiveNames(r), UNCHANGED mergeVars
    PROVE  PInv'
  <1>1. /\ Forms /\ Mail /\ Protocol /\ Placed(r) /\ Family(r) /\ Fits(r)
        /\ r \in Nat /\ mask[r] \in Masks /\ mask[r] \in Nat /\ mask[r] >= 1
        /\ pc[r] = "names" /\ child[r] = 2
        /\ Listed(objs[r]) /\ Len(objs[r]) \in Nat /\ Len(objs[r]) >= 1
        /\ \A k \in 1 .. Len(objs[r]) : Formed(objs[r][k])
    BY RankFacts, MaskPositive
    DEF PInv, Forms, ReceiveNames, Placed, Collecting, Listed, Objects, Family
  <1>2. PICK d \in Ranks : d = Source(r)
    BY <1>1 DEF Placed
  <1>3. Edge(r, d) /\ d = r + mask[r] /\ r < d /\ d - r = mask[r]
    BY <1>1, <1>2 DEF Placed, Source
  <1>4. chan[d, r] # <<>> /\ chan' = [chan EXCEPT ![<<d, r>>] = Tail(chan[d, r])]
    BY <1>2 DEF ReceiveNames, Receive, Arrived
  <1>5. PICK body : body = Head(chan[d, r]).body
    OBVIOUS
  <1>6. /\ mask'[r] = 2 * mask[r] /\ pc'[r] = "tree" /\ child' = child
        /\ lister' = lister /\ db' = db /\ gather' = gather
        /\ numStrings' = numStrings /\ merged' = merged
    BY <1>1 DEF ReceiveNames, NextMask, GoTo, Forms, mergeVars
  <1>7. /\ Mail' /\ chan'[d, r] = Tail(chan[d, r])
        /\ \A a, b \in Ranks : a # d \/ b # r => chan'[a, b] = chan[a, b]
        /\ MessageFits(Head(chan[d, r]), numStrings[d], numStrings[r])
    BY <1>1, <1>4, <1>6, TakeChan
  <1>8. body \in Seq(Names) /\ Len(body) <= numStrings[d]
    BY <1>2, <1>5, <1>7 DEF ReceiveNames, Arrived, MessageFits
  <1>9. PICK o : o = NewObject(d, body)
    OBVIOUS
  <1>10. Formed(o) /\ o.rank = d /\ Len(o.mapping) = Len(body)
    BY <1>8, <1>9, Identity
  <1>11. PICK os : os = Append(objs[r], o)
    OBVIOUS
  <1>12. /\ Listed(os) /\ Len(os) = Len(objs[r]) + 1
         /\ \A i \in 1 .. Len(objs[r]) : os[i] = objs[r][i]
         /\ os[Len(objs[r]) + 1] = o
    BY <1>1, <1>11, ListedAppend
  <1>13. objs' = [objs EXCEPT ![r] = os]
    BY <1>2, <1>5, <1>9, <1>11 DEF ReceiveNames, Body
  <1>14. \A k \in 1 .. Len(os) : k \in 1 .. Len(objs[r]) \/ k = Len(objs[r]) + 1
    BY <1>1, <1>12
  <1>15. /\ objs' = [q \in Ranks |-> objs'[q]] /\ objs'[r] = os
         /\ \A q \in Ranks : q # r => objs'[q] = objs[q]
         /\ \A q \in Ranks : /\ Listed(objs'[q])
                             /\ \A k \in 1 .. Len(objs'[q]) : Formed(objs'[q][k])
    <2>1. \A k \in 1 .. Len(os) : Formed(os[k])
      BY <1>1, <1>10, <1>12, <1>14
    <2> QED
      BY <1>1, <1>12, <1>13, <2>1, ObjsSet
  <1>16. OthersAsWere(r)
    <2>1. \A q \in Ranks : q # r => pc'[q] = pc[q] /\ mask'[q] = mask[q]
      BY <1>1 DEF ReceiveNames, GoTo, NextMask, Forms
    <2>2. r # d
      BY <1>1, <1>3
    <2> QED
      BY <1>6, <1>7, <1>15, <2>1, <2>2, ZenonT(40) DEF OthersAsWere
  <1>17. Forms'
    <2>1. pc' \in [Ranks -> Places] /\ mask' \in [Ranks -> Masks]
      BY <1>1, MaskFacts DEF Forms, ReceiveNames, GoTo, NextMask, Places
    <2> QED
      BY <1>1, <1>6, <1>15, <2>1 DEF Forms, Objects
  <1>18. /\ pc[r] \in Early /\ pc'[r] \in Early
         /\ pc[r] \in Unifying /\ pc'[r] \in Unifying
    BY <1>1, <1>6 DEF Early, Unifying, Collecting
  <1>19. \A q \in Ranks : Edge(r, q) =>
             (q - r < 2 * mask[r] <=> (q - r < mask[r] \/ q = d))
    BY <1>1, <1>3, NextChild
  <1>20. \A q \in Ranks : Edge(r, q) => q \in Nat
    BY EdgeFacts
  <1>21. Protocol'
    <2>1. \A q \in Ranks : ~TableSent(r, q) /\ ~TableSent(r, q)'
      <3>1. \A k : ~(k \in 2 .. Len(objs'[r]) /\ k < 2)
        OBVIOUS
      <3>2. \A k : ~(k \in 2 .. Len(objs[r]) /\ k < 2)
        OBVIOUS
      <3> QED
        BY <1>1, <1>6, <3>1, <3>2 DEF TableSent
    <2>2. ASSUME NEW q \in Ranks, Edge(r, q)
          PROVE  Asked(r, q)' <=> Asked(r, q)
      BY <1>1, <1>3, <1>6, <1>19, <2>2 DEF Asked
    <2>3. ASSUME NEW q \in Ranks, q # d
          PROVE  AsParent(r, q)
      <3>1. ~Told(r, q) /\ ~Told(r, q)'
        BY <1>1, <1>3, <1>6, <2>3 DEF Told
      <3>2. Edge(r, q) => (Received(r, q)' <=> Received(r, q))
        BY <1>1, <1>6, <1>19, <2>3 DEF Received
      <3> QED
        BY <1>6, <1>18, <2>1, <2>2, <3>1, <3>2, SameAsParent
    <2>4. \A q \in Ranks : AsChild(r, q)
      BY <1>6, <1>18, SameAsChild
    <2>5. /\ Told(r, d) /\ ~Told(r, d)' /\ ~Received(r, d) /\ Received(r, d)'
      <3>1. d - r < 2 * mask[r] /\ ~(d - r < mask[r])
        BY <1>1, <1>3, <1>19
      <3> QED
        BY <1>1, <1>3, <1>6, <3>1 DEF Told, Received
    <2>6. /\ TreeDownSent(r, d)' = TreeDownSent(r, d)
          /\ TreeUpTaken(r, d)' = TreeUpTaken(r, d) + 1
      <3>1. Call(r)' = Call(r) /\ Call(r) \in Nat
        BY <1>6 DEF Call
      <3>2. Asked(r, d)' <=> Asked(r, d)
        BY <1>3, <2>2
      <3>3. TreeDownSent(r, d)' = TreeDownSent(r, d)
        BY <2>1, <3>1, <3>2 DEF TreeDownSent, Once
      <3>4. Once(Received(r, d))' = 1 /\ Once(Received(r, d)) = 0
        BY <2>5 DEF Once
      <3>5. /\ Once(pc[r] = "names" /\ d = r + mask[r]) = 1
            /\ Once(pc[r] = "names" /\ d = r + mask[r])' = 0
        BY <2>5 DEF Told, Once
      <3> QED
        BY <3>1, <3>3, <3>4, <3>5 DEF TreeUpTaken
    <2>7. /\ DownSent(r, d)' = DownSent(r, d)
          /\ UpTaken(r, d)' = UpTaken(r, d) + 1
      BY <1>3, <1>6, <1>18, <2>6, MoreAsParent, CountTypes
    <2> QED
      BY <1>1, <1>3, <1>4, <1>7, <1>16, <2>3, <2>4, <2>7, TakeUp
  <1>22. Placed(r)'
    <2>1. PICK m \in Nat : m = mask[r]
      BY <1>1
    <2>2. Edge(r, r + m)
      BY <1>3, <2>1
    <2>3. \E i \in Nat : r = (2 * m) * i
      BY <2>2, DoubleMask
    <2>4. \E i \in Nat : r = mask'[r] * i
      BY <1>6, <2>1, <2>3
    <2> QED
      BY <1>1, <1>6, <2>4
      DEF Placed, Collecting, Waiting, Late, AtRoot, Source
  <1>23. ASSUME NEW k \in 2 .. Len(os)
         PROVE  \/ k \in 2 .. Len(objs[r]) /\ os[k] = objs[r][k]
                \/ k = Len(objs[r]) + 1 /\ os[k] = o
    BY <1>1, <1>12
  <1>24. Family(r)'
    <2>1. ASSUME NEW k \in 2 .. Len(os)
          PROVE  /\ os[k].rank \in Ranks /\ Edge(r, os[k].rank)
                 /\ os[k].rank - r < 2 * mask[r]
      <3>1. CASE k \in 2 .. Len(objs[r]) /\ os[k] = objs[r][k]
        BY <1>1, <1>19, <3>1 DEF Family
      <3>2. CASE k = Len(objs[r]) + 1 /\ os[k] = o
        BY <1>3, <1>10, <1>19, <3>2
      <3> QED
        BY <1>23, <3>1, <3>2
    <2>2. \A k \in 2 .. Len(objs[r]) : objs[r][k].rank # d
      <3>1. ~(d - r < mask[r])
        BY <1>1, <1>3
      <3> QED
        BY <1>1, <3>1 DEF Family
    <2>3. ASSUME NEW j \in 2 .. Len(os), NEW k \in 2 .. Len(os), j < k
          PROVE  os[j].rank # os[k].rank
      <3>1. j \in 2 .. Len(objs[r]) /\ os[j] = objs[r][j]
        BY <1>1, <1>12, <2>3
      <3>2. CASE k \in 2 .. Len(objs[r]) /\ os[k] = objs[r][k]
        BY <1>1, <2>3, <3>1, <3>2 DEF Family
      <3>3. CASE k = Len(objs[r]) + 1 /\ os[k] = o
        BY <1>10, <2>2, <3>1, <3>3
      <3> QED
        BY <1>23, <3>2, <3>3
    <2>4. ASSUME NEW c \in Ranks, Edge(r, c), c - r < 2 * mask[r]
          PROVE  \E k \in 2 .. Len(os) : os[k].rank = c
      <3>1. CASE c - r < mask[r]
        <4>1. PICK k \in 2 .. Len(objs[r]) : objs[r][k].rank = c
          BY <1>1, <2>4, <3>1 DEF Family
        <4>2. k \in 2 .. Len(os) /\ os[k] = objs[r][k]
          BY <1>1, <1>12
        <4> QED
          BY <4>1, <4>2
      <3>2. CASE c = d
        <4>1. Len(objs[r]) + 1 \in 2 .. Len(os)
          BY <1>1, <1>12
        <4> QED
          BY <1>10, <1>12, <3>2, <4>1
      <3> QED
        BY <1>19, <2>4, <3>1, <3>2
    <2>5. Len(os) >= 1
      BY <1>1, <1>12
    <2> QED
      BY <1>6, <1>15, <2>1, <2>3, <2>4, <2>5 DEF Family
  <1>25. Fits(r)'
    <2>1. 1 \in 1 .. Len(objs[r])
      BY <1>1
    <2>2. os[1] = objs[r][1]
      BY <1>12, <2>1
    <2>3. ASSUME NEW k \in 2 .. Len(os)
          PROVE  Len(os[k].mapping) <= numStrings[os[k].rank]
      <3>1. CASE k \in 2 .. Len(objs[r]) /\ os[k] = objs[r][k]
        BY <1>1, <3>1, SMTT(40) DEF Fits
      <3>2. CASE k = Len(objs[r]) + 1 /\ os[k] = o
        BY <1>8, <1>10, <3>2
      <3> QED
        BY <1>23, <3>1, <3>2
    <2> QED
      BY <1>1, <1>6, <1>15, <2>2, <2>3 DEF Fits
  <1> QED
    BY <1>6, <1>7, <1>16, <1>17, <1>21, <1>22, <1>24, <1>25, KeepsPInv

\* What a turn of the merge does to a list: its mapping and where it is.
LEMMA AdvancedFacts ==
    ASSUME NEW o, Formed(o), NEW name, NEW count
    PROVE  /\ Formed(Advanced(o, name, count))
           /\ Advanced(o, name, count).rank = o.rank
           /\ Advanced(o, name, count).strings = o.strings
           /\ Len(Advanced(o, name, count).mapping) = Len(o.mapping)
  <1>1. CASE Live(o) /\ Current(o) = name
    <2>1. PICK m : m = [o.mapping EXCEPT ![o.idx] = count]
      OBVIOUS
    <2>2. Listed(m) /\ Len(m) = Len(o.mapping)
      <3> DEFINE S == {o.mapping[i] : i \in 1 .. Len(o.mapping)} \cup {count}
      <3>1. /\ Len(o.mapping) \in Nat
            /\ o.mapping = [i \in 1 .. Len(o.mapping) |-> o.mapping[i]]
        BY DEF Formed, Listed
      <3>2. m \in [1 .. Len(o.mapping) -> S]
        BY <2>1, <3>1
      <3> HIDE DEF S
      <3>3. m \in Seq(S) /\ Len(m) = Len(o.mapping)
        BY <3>1, <3>2, FunctionIsSeq
      <3> QED
        BY <3>3, SeqIsListed
    <2>3. PICK n : n = o.idx + 1
      OBVIOUS
    <2>4. Advanced(o, name, count) = [rank |-> o.rank, strings |-> o.strings,
                                      mapping |-> m, idx |-> n]
      BY <1>1, <2>1, <2>3 DEF Advanced, Formed
    <2>5. n \in Nat /\ n >= 1
      BY <2>3 DEF Formed
    <2> QED
      BY <2>2, <2>4, <2>5 DEF Formed
  <1>2. CASE ~(Live(o) /\ Current(o) = name)
    BY <1>2 DEF Advanced
  <1> QED
    BY <1>1, <1>2

\* And what a table does to it.
LEMMA MappedFacts ==
    ASSUME NEW o, Formed(o), NEW table
    PROVE  /\ Formed(Mapped(o, table))
           /\ Mapped(o, table).rank = o.rank
           /\ Mapped(o, table).strings = o.strings
           /\ Len(Mapped(o, table).mapping) = Len(o.mapping)
  <1>1. PICK m : m = [j \in 1 .. Len(o.mapping) |-> table[o.mapping[j]]]
    OBVIOUS
  <1>2. Listed(m) /\ Len(m) = Len(o.mapping)
    <2> DEFINE S == {m[i] : i \in 1 .. Len(o.mapping)}
    <2>1. Len(o.mapping) \in Nat
      BY DEF Formed, Listed
    <2>2. m \in [1 .. Len(o.mapping) -> S]
      BY <1>1
    <2> HIDE DEF S
    <2>3. m \in Seq(S) /\ Len(m) = Len(o.mapping)
      BY <2>1, <2>2, FunctionIsSeq
    <2> QED
      BY <2>3, SeqIsListed
  <1>3. Mapped(o, table) = [rank |-> o.rank, strings |-> o.strings,
                            mapping |-> m, idx |-> o.idx]
    <2>1. Mapped(o, table) = [o EXCEPT !.mapping = m]
      BY <1>1, Zenon DEF Mapped
    <2>2. o = [rank |-> o.rank, strings |-> o.strings, mapping |-> o.mapping,
               idx |-> o.idx]
      BY DEF Formed
    <2> QED
      BY <2>1, <2>2
  <1> QED
    BY <1>2, <1>3 DEF Formed

\* The objects of rank r keep their ranks, lists and the lengths of tables.
Likewise(r, os) ==
    /\ Listed(os) /\ Len(os) = Len(objs[r])
    /\ \A k \in 1 .. Len(os) : /\ Formed(os[k])
                               /\ os[k].rank = objs[r][k].rank
                               /\ os[k].strings = objs[r][k].strings
                               /\ Len(os[k].mapping) = Len(objs[r][k].mapping)

LEMMA EachListed ==
    ASSUME NEW n \in Nat, NEW f, f = [i \in 1 .. n |-> f[i]]
    PROVE  Listed(f) /\ Len(f) = n
  <1> DEFINE S == {f[i] : i \in 1 .. n}
  <1>1. f \in [1 .. n -> S]
    <2>1. \A i \in 1 .. n : f[i] \in S
      OBVIOUS
    <2> HIDE DEF S
    <2> QED
      BY <2>1, Zenon
  <1> HIDE DEF S
  <1>2. f \in Seq(S) /\ Len(f) = n
    BY <1>1, FunctionIsSeq
  <1> QED
    BY <1>2, SeqIsListed

LEMMA LikewiseFamily ==
    ASSUME NEW r, Family(r), pc[r] \notin {"start", "buffer"}, NEW os, Likewise(r, os),
           objs'[r] = os, mask'[r] = mask[r], Len(objs[r]) \in Nat
    PROVE  Family(r)'
  <1>1. /\ Len(objs'[r]) = Len(objs[r])
        /\ \A k \in 2 .. Len(objs[r]) : objs'[r][k].rank = objs[r][k].rank
    BY DEF Likewise
  <1> QED
    BY <1>1 DEF Family

LEMMA LikewiseFits ==
    ASSUME NEW r, Family(r), Fits(r), pc[r] \notin {"start", "buffer"},
           NEW os, Likewise(r, os),
           objs'[r] = os, child'[r] = child[r], numStrings' = numStrings,
           db' = db, lister' = lister,
           pc'[r] \in {"tree", "len", "names", "merge", "ok", "send"} =>
               pc[r] \in {"tree", "len", "names", "merge", "ok", "send"},
           Len(objs[r]) \in Nat
    PROVE  Fits(r)'
  <1>1. /\ Len(objs'[r]) = Len(objs[r]) /\ Len(objs[r]) >= 1
        /\ \A k \in 1 .. Len(objs[r]) :
               /\ objs'[r][k].rank = objs[r][k].rank
               /\ objs'[r][k].strings = objs[r][k].strings
               /\ Len(objs'[r][k].mapping) = Len(objs[r][k].mapping)
    BY DEF Likewise, Family
  <1>2. objs'[r][1].strings = objs[r][1].strings
    BY <1>1
  <1>3. \A k \in 2 .. Len(objs'[r]) : k \in 1 .. Len(objs[r]) /\ k \in 2 .. Len(objs[r])
    BY <1>1
  <1> QED
    BY <1>1, <1>2, <1>3 DEF Fits

LEMMA MergeNextMoves ==
    ASSUME PInv, NEW r \in Ranks, MergeNext(r), UNCHANGED mergeVars
    PROVE  PInv'
  <1>1. /\ Forms /\ Mail /\ Protocol /\ Placed(r) /\ Family(r) /\ Fits(r)
        /\ r \in Nat /\ pc[r] = "merge" /\ child[r] = 2
        /\ Listed(objs[r]) /\ Len(objs[r]) \in Nat
        /\ \A k \in 1 .. Len(objs[r]) : Formed(objs[r][k])
    BY RankFacts DEF PInv, Forms, MergeNext, Placed, Listed, Objects
  <1>2. PICK i \in LiveObjs(r) :
            /\ merged' = [merged EXCEPT ![r] = Append(@, Current(objs[r][i]))]
            /\ objs' = [objs EXCEPT ![r] = [k \in 1 .. Len(objs[r]) |->
                   Advanced(objs[r][k], Current(objs[r][i]), Len(merged[r]) + 1)]]
    BY DEF MergeNext
  <1>3. PICK name, count : /\ name = Current(objs[r][i])
                           /\ count = Len(merged[r]) + 1
    OBVIOUS
  <1>4. name \in Names
    <2>1. i \in 1 .. Len(objs[r]) /\ Live(objs[r][i])
      BY <1>2 DEF LiveObjs
    <2>2. PICK o : o = objs[r][i]
      OBVIOUS
    <2>3. /\ o.strings \in Seq(Names) /\ o.idx \in Nat /\ o.idx >= 1
          /\ o.idx <= Len(o.strings)
      BY <1>1, <2>1, <2>2 DEF Formed, Live
    <2>4. o.idx \in 1 .. Len(o.strings)
      BY <2>3, LenProperties
    <2> QED
      BY <1>3, <2>2, <2>3, <2>4, ElementOfSeq DEF Current
  <1>5. PICK os : os = [k \in 1 .. Len(objs[r]) |->
                            Advanced(objs[r][k], name, count)]
    OBVIOUS
  <1>6. Listed(os) /\ Len(os) = Len(objs[r])
    <2>1. os = [k \in 1 .. Len(objs[r]) |-> os[k]]
      BY <1>5
    <2> QED
      BY <1>1, <2>1, EachListed
  <1>7. Likewise(r, os)
    <2>1. ASSUME NEW k \in 1 .. Len(os)
          PROVE  /\ Formed(os[k]) /\ os[k].rank = objs[r][k].rank
                 /\ os[k].strings = objs[r][k].strings
                 /\ Len(os[k].mapping) = Len(objs[r][k].mapping)
      <3>1. k \in 1 .. Len(objs[r]) /\ os[k] = Advanced(objs[r][k], name, count)
        BY <1>5, <1>6
      <3> QED
        BY <1>1, <3>1, AdvancedFacts
    <2> QED
      BY <1>6, <2>1 DEF Likewise
  <1>8. objs' = [objs EXCEPT ![r] = os]
    BY <1>2, <1>3, <1>5
  <1>9. /\ objs' = [q \in Ranks |-> objs'[q]] /\ objs'[r] = os
        /\ \A q \in Ranks : q # r => objs'[q] = objs[q]
        /\ \A q \in Ranks : /\ Listed(objs'[q])
                            /\ \A k \in 1 .. Len(objs'[q]) : Formed(objs'[q][k])
    BY <1>1, <1>7, <1>8, ObjsSet DEF Likewise
  <1>10. /\ merged' \in [Ranks -> Seq(Names)]
         /\ \A q \in Ranks : q # r => merged'[q] = merged[q]
    <2>1. merged \in [Ranks -> Seq(Names)]
      BY <1>1 DEF Forms
    <2>2. PICK q : q = Append(merged[r], name)
      OBVIOUS
    <2>3. q \in Seq(Names)
      BY <1>4, <2>1, <2>2, AppendProperties
    <2>4. merged' = [merged EXCEPT ![r] = q]
      BY <1>2, <1>3, <2>2
    <2> QED
      BY <2>1, <2>3, <2>4
  <1>11. /\ pc' = pc /\ mask' = mask /\ child' = child /\ lister' = lister
         /\ db' = db /\ gather' = gather /\ numStrings' = numStrings /\ chan' = chan
    BY DEF MergeNext, mergeVars
  <1>12. OthersAsWere(r)
    BY <1>9, <1>10, <1>11 DEF OthersAsWere
  <1>13. Forms'
    BY <1>1, <1>9, <1>10, <1>11 DEF Forms, Objects
  <1>14. Protocol'
    <2>1. pc[r] \in Early /\ pc'[r] \in Early /\ pc[r] \in Unifying /\ pc'[r] \in Unifying
      BY <1>1, <1>11 DEF Early, Unifying
    <2>2. ASSUME NEW q \in Ranks
          PROVE  AsParent(r, q) /\ AsChild(r, q)
      <3>1. /\ Asked(r, q)' <=> Asked(r, q)
            /\ Received(r, q)' <=> Received(r, q)
            /\ Told(r, q)' <=> Told(r, q)
        BY <1>11 DEF Asked, Received, Told
      <3>2. /\ \A k : ~(k \in 2 .. Len(objs'[r]) /\ k < 2)
            /\ \A k : ~(k \in 2 .. Len(objs[r]) /\ k < 2)
        OBVIOUS
      <3>3. ~TableSent(r, q) /\ ~TableSent(r, q)'
        BY <1>1, <1>11, <3>2 DEF TableSent
      <3> QED
        BY <1>11, <2>1, <3>1, <3>3, SameAsParent, SameAsChild
    <2> QED
      BY <1>1, <1>11, <1>12, <2>2, Silent
  <1>15. Placed(r)'
    BY <1>1, <1>11 DEF Placed, Collecting, Waiting, Late, AtRoot, Source, Parent
  <1>16. Family(r)'
    BY <1>1, <1>7, <1>9, <1>11, LikewiseFamily
  <1>17. Fits(r)'
    BY <1>1, <1>7, <1>9, <1>11, LikewiseFits
  <1> QED
    BY <1>1, <1>11, <1>12, <1>13, <1>14, <1>15, <1>16, <1>17, SameMail, KeepsPInv

\* What a step adds to the counts of a child is what it adds to the tree's.
LEMMA MoreAsChild ==
    ASSUME NEW r \in Ranks, NEW p \in Ranks, Edge(p, r),
           pc[r] \in Unifying, pc'[r] \in Unifying
    PROVE  /\ DownTaken(p, r) = TreeDownTaken(r)
           /\ DownTaken(p, r)' = TreeDownTaken(r)'
           /\ UpSent(p, r) = TreeUpSent(r) /\ UpSent(p, r)' = TreeUpSent(r)'
  <1>1. /\ pc[r] \notin {"sendblock", "returned"} /\ pc[r] # "returned"
        /\ pc'[r] \notin {"sendblock", "returned"} /\ pc'[r] # "returned"
    BY DEF Unifying, Early, Collecting
  <1>2. /\ TreeDownTaken(r) \in Nat /\ TreeUpSent(r) \in Nat
        /\ TreeDownTaken(r)' \in Nat /\ TreeUpSent(r)' \in Nat
    BY DEF TreeDownTaken, TreeUpSent, Once, Call
  <1> QED
    BY <1>1, <1>2 DEF DownTaken, UpSent, InTree, Once

\* With other ranks than its parent it has nothing to do as a child.
LEMMA NoChild ==
    ASSUME NEW r \in Ranks, NEW p \in Ranks, ~Edge(p, r),
           pc[r] \in Unifying, pc'[r] \in Unifying
    PROVE  AsChild(r, p)
  <1>1. /\ pc[r] \notin {"sendblock", "returned"} /\ pc[r] # "returned"
        /\ pc'[r] \notin {"sendblock", "returned"} /\ pc'[r] # "returned"
    BY DEF Unifying, Early, Collecting
  <1> QED
    BY <1>1 DEF AsChild, DownTaken, UpSent, InTree, Once

\* A step at which a rank stays what it is to its children.
LEMMA SameToChildren ==
    ASSUME NEW r \in Ranks, pc[r] \in Unifying, pc'[r] \in Unifying,
           pc[r] \notin {"start", "buffer", "len", "names"},
           pc'[r] \notin {"start", "buffer", "len", "names"},
           lister'[r] = lister[r], gather' = gather, mask'[r] = mask[r],
           child'[r] = child[r], Len(objs'[r]) = Len(objs[r]),
           \A k \in 2 .. Len(objs[r]) : objs'[r][k].rank = objs[r][k].rank
    PROVE  \A q \in Ranks : AsParent(r, q)
  <1>1. SUFFICES ASSUME NEW q \in Ranks PROVE AsParent(r, q)
    OBVIOUS
  <1>2. /\ Asked(r, q)' <=> Asked(r, q)
        /\ Received(r, q)' <=> Received(r, q)
        /\ Told(r, q)' <=> Told(r, q)
    BY DEF Asked, Received, Told
  <1>3. TableSent(r, q)' <=> TableSent(r, q)
    BY DEF TableSent
  <1> QED
    BY <1>2, <1>3, SameAsParent

\* Where a rank waits for its parent, and which it is.
LEMMA ParentFacts ==
    ASSUME PInv, NEW r \in Ranks, pc[r] \in Waiting
    PROVE  /\ r # 0 /\ Parent(r) \in Ranks /\ Edge(Parent(r), r)
           /\ \A q \in Ranks : Edge(q, r) => q = Parent(r)
           /\ child[r] = 2 /\ mask[r] \in Nat /\ Listed(objs[r])
           /\ \A k \in 1 .. Len(objs[r]) : Formed(objs[r][k])
  <1>1. Placed(r) /\ Forms
    BY DEF PInv
  <1>2. pc[r] \notin {"start", "buffer"} \cup Collecting
    BY DEF Waiting, Collecting
  <1>3. r # 0 /\ Parent(r) \in Ranks /\ Edge(Parent(r), r) /\ child[r] = 2
    BY <1>1, <1>2 DEF Placed
  <1> QED
    BY <1>1, <1>3, OneParent, MaskPositive DEF Forms, Objects

\* The two channels between two ranks change.
LEMMA ChanSetTwo ==
    ASSUME Mail, NEW s \in Ranks, NEW d \in Ranks, s # d, NEW q1, NEW q2,
           chan' = [chan EXCEPT ![<<s, d>>] = q1, ![<<d, s>>] = q2],
           numStrings' = numStrings,
           AllFit(q1, numStrings[s], numStrings[d]),
           AllFit(q2, numStrings[d], numStrings[s])
    PROVE  /\ Mail' /\ chan'[s, d] = q1 /\ chan'[d, s] = q2
           /\ OtherChannels(s, d)
  <1>1. chan = [e \in Ranks \X Ranks |-> chan[e]]
    BY DEF Mail
  <1>2. <<s, d>> # <<d, s>>
    BY Zenon
  <1>3. /\ chan' = [e \in Ranks \X Ranks |-> chan'[e]]
        /\ chan'[s, d] = q1 /\ chan'[d, s] = q2
    BY <1>1, <1>2
  <1>4. OtherChannels(s, d)
    BY <1>1 DEF OtherChannels
  <1>5. ASSUME NEW a \in Ranks, NEW b \in Ranks
        PROVE  AllFit(chan'[a, b], numStrings'[a], numStrings'[b])
    <2>1. CASE a = s /\ b = d
      BY <1>3, <2>1
    <2>2. CASE a = d /\ b = s
      BY <1>3, <2>2
    <2>3. CASE ~(a = s /\ b = d) /\ ~(a = d /\ b = s)
      <3>1. chan'[a, b] = chan[a, b]
        BY <1>4, <2>3 DEF OtherChannels
      <3> QED
        BY <3>1 DEF Mail
    <2> QED
      BY <2>1, <2>2, <2>3
  <1>6. Mail'
    BY <1>3, <1>5 DEF Mail
  <1> QED
    BY <1>3, <1>4, <1>6

LEMMA SendLengthMoves ==
    ASSUME PInv, NEW r \in Ranks, SendLength(r), UNCHANGED mergeVars
    PROVE  PInv'
  <1>1. /\ Forms /\ Mail /\ Protocol /\ Placed(r) /\ Family(r) /\ Fits(r)
        /\ r \in Nat /\ pc[r] = "ok" /\ pc[r] \in Waiting
    BY RankFacts DEF PInv, SendLength, Waiting
  <1>2. PICK p \in Ranks : p = Parent(r)
    BY <1>1, ParentFacts
  <1>3. /\ r # 0 /\ Edge(p, r) /\ p < r /\ p \in Nat
        /\ \A q \in Ranks : Edge(q, r) => q = p
        /\ child[r] = 2
    BY <1>1, <1>2, ParentFacts, EdgeFacts
  <1>4. r # p
    BY <1>1, <1>3
  <1>5. PICK m : m = Msg("len", BufferLength(Up(r)))
    OBVIOUS
  <1>6. m.kind = "len"
    BY <1>5, MsgFields
  <1>7. PICK q1, q2 : q1 = Tail(chan[p, r]) /\ q2 = Append(chan[r, p], m)
    OBVIOUS
  <1>8. chan' = [chan EXCEPT ![<<p, r>>] = q1, ![<<r, p>>] = q2]
    <2>1. chan' = [chan EXCEPT ![<<p, r>>] = Tail(@), ![<<r, p>>] = Append(@, m)]
      BY <1>2, <1>5 DEF SendLength
    <2>2. <<p, r>> # <<r, p>>
      BY <1>4, Zenon
    <2> QED
      BY <1>7, <2>1, <2>2
  <1>9. /\ pc'[r] = "send" /\ mask' = mask /\ child' = child /\ objs' = objs
        /\ lister' = lister /\ db' = db /\ gather' = gather
        /\ numStrings' = numStrings /\ merged' = merged
    BY <1>1 DEF SendLength, GoTo, Forms, mergeVars, treeVars
  <1>10. chan[p, r] # <<>>
    BY <1>2 DEF SendLength, Arrived
  <1>11. /\ AllFit(chan[p, r], numStrings[p], numStrings[r])
         /\ AllFit(chan[r, p], numStrings[r], numStrings[p])
         /\ Listed(chan[p, r]) /\ Listed(chan[r, p])
    BY <1>1 DEF Mail, AllFit
  <1>12. /\ Mail' /\ chan'[p, r] = q1 /\ chan'[r, p] = q2 /\ OtherChannels(p, r)
    <2>1. MessageFits(m, numStrings[r], numStrings[p])
      BY <1>6 DEF MessageFits
    <2>2. AllFit(q1, numStrings[p], numStrings[r])
      BY <1>7, <1>10, <1>11, TailFits
    <2>3. AllFit(q2, numStrings[r], numStrings[p])
      BY <1>7, <1>11, <2>1, AppendFits
    <2> QED
      BY <1>1, <1>4, <1>8, <1>9, <2>2, <2>3, ChanSetTwo
  <1>13. OthersAsWere(r)
    <2>1. \A q \in Ranks : q # r => pc'[q] = pc[q]
      BY <1>1 DEF SendLength, GoTo, Forms
    <2> QED
      BY <1>4, <1>9, <1>12, <2>1 DEF OthersAsWere, OtherChannels
  <1>14. Forms'
    <2>1. pc' \in [Ranks -> Places]
      BY <1>1 DEF Forms, SendLength, GoTo, Places
    <2> QED
      BY <1>1, <1>9, <2>1 DEF Forms, Objects
  <1>15. pc[r] \in Unifying /\ pc'[r] \in Unifying
    BY <1>1, <1>9 DEF Early, Unifying
  <1>16. Protocol'
    <2>1. \A q \in Ranks : AsParent(r, q)
      BY <1>1, <1>9, <1>15, SameToChildren
    <2>2. \A q \in Ranks : q # p => AsChild(r, q)
      BY <1>3, <1>15, NoChild
    <2>3. /\ TreeDownTaken(r)' = TreeDownTaken(r) + 1
          /\ TreeUpSent(r)' = TreeUpSent(r) + 1
          /\ TreeUpSent(r) = 2 * Call(r) /\ Call(r) \in Nat
      <3>1. /\ pc[r] \in Early /\ pc'[r] \notin Early
            /\ pc[r] \in Early \cup {"send", "map"}
            /\ pc'[r] \in Early \cup {"send", "map"}
            /\ pc[r] \in Early \cup {"send"} /\ pc'[r] \in Early \cup {"send"}
        BY <1>1, <1>9 DEF Early, Collecting
      <3>2. Call(r)' = Call(r) /\ Call(r) \in Nat
        BY <1>9 DEF Call
      <3> QED
        BY <3>1, <3>2 DEF TreeDownTaken, TreeUpSent, Once
    <2>4. /\ DownTaken(p, r)' = DownTaken(p, r) + 1
          /\ UpSent(p, r)' = UpSent(p, r) + 1
          /\ UpSent(p, r) = 2 * Call(r)
      BY <1>3, <1>15, <2>3, MoreAsChild
    <2>5. /\ Numbered(chan[p, r], DownTaken(p, r), DownSent(p, r), DownKinds)
          /\ Numbered(chan[r, p], UpTaken(p, r), UpSent(p, r), UpKinds(p, r))
      BY <1>1, <1>3 DEF Protocol, Channels
    <2>6. /\ DownTaken(p, r) \in Nat /\ DownSent(p, r) \in Nat
          /\ UpTaken(p, r) \in Nat /\ UpSent(p, r) \in Nat
      BY CountTypes
    <2>7. Numbered(Tail(chan[p, r]), DownTaken(p, r) + 1, DownSent(p, r), DownKinds)
      BY <1>10, <1>11, <2>5, <2>6, NumberedTail
    <2>8. m.kind = UpKinds(p, r)[UpSent(p, r) + 1]
      BY <1>6, <2>3, <2>4, OddNumbers DEF UpKinds
    <2>9. Numbered(Append(chan[r, p], m), UpTaken(p, r), UpSent(p, r) + 1,
                   UpKinds(p, r))
      BY <1>11, <2>5, <2>6, <2>8, NumberedAppend
    <2>10. OtherChannels(r, p)
      BY <1>12 DEF OtherChannels
    <2> QED
      BY <1>1, <1>3, <1>7, <1>12, <1>13, <2>1, <2>2, <2>4, <2>7, <2>9, <2>10,
         WithParent
  <1>17. Placed(r)'
    BY <1>1, <1>9 DEF Placed, Collecting, Waiting, Late, AtRoot, Source, Parent
  <1>18. Family(r)'
    BY <1>1, <1>9, SMTT(40) DEF Family
  <1>19. Fits(r)'
    BY <1>1, <1>9 DEF Fits
  <1> QED
    BY <1>9, <1>12, <1>13, <1>14, <1>16, <1>17, <1>18, <1>19, KeepsPInv

\* What is in a channel lies between what was taken and what was sent.
LEMMA NumberedOrder ==
    ASSUME NEW q, NEW taken \in Nat, NEW sent \in Nat, NEW kinds,
           Listed(q), Numbered(q, taken, sent, kinds)
    PROVE  taken <= sent
  <1>1. Len(q) \in Nat /\ Len(q) = sent - taken
    BY DEF Listed, Numbered
  <1> QED
    BY <1>1

LEMMA TakenSent ==
    ASSUME Mail, Protocol, NEW p \in Ranks, NEW c \in Ranks, p < c
    PROVE  DownTaken(p, c) <= DownSent(p, c) /\ UpTaken(p, c) <= UpSent(p, c)
  <1>1. /\ Numbered(chan[p, c], DownTaken(p, c), DownSent(p, c), DownKinds)
        /\ Numbered(chan[c, p], UpTaken(p, c), UpSent(p, c), UpKinds(p, c))
    BY DEF Protocol, Channels
  <1>2. Listed(chan[p, c]) /\ Listed(chan[c, p])
    BY DEF Mail, AllFit
  <1>3. /\ DownTaken(p, c) \in Nat /\ DownSent(p, c) \in Nat
        /\ UpTaken(p, c) \in Nat /\ UpSent(p, c) \in Nat
    BY CountTypes
  <1> QED
    BY <1>1, <1>2, <1>3, NumberedOrder, Zenon

\* While a rank is about to send its names, its parent, in the same call, has
\* not received them, and has sent it nothing but the go-ahead.
LEMMA AtSend ==
    ASSUME PInv, NEW r \in Ranks, pc[r] = "send"
    PROVE  LET p == Parent(r) IN
           /\ Call(p) = Call(r) /\ ~Received(p, r)
           /\ DownTaken(p, r) = 2 * Call(r) + 1
           /\ DownSent(p, r) = 2 * Call(r) + 1
           /\ UpSent(p, r) = 2 * Call(r) + 1
           /\ UpTaken(p, r) >= 2 * Call(r)
  <1>1. PICK p \in Ranks : p = Parent(r) /\ Edge(p, r)
    <2>1. pc[r] \in Waiting
      BY DEF Waiting
    <2> QED
      BY <2>1, ParentFacts
  <1>2. p \in Nat /\ p < r /\ Mail /\ Protocol /\ Placed(p) /\ Family(p)
    BY <1>1, EdgeFacts DEF PInv
  <1>3. Call(r) \in {0, 1} /\ Call(p) \in {0, 1} /\ \A b : Once(b) \in {0, 1}
    BY DEF Call, Once
  <1>4. /\ DownTaken(p, r) = 2 * Call(r) + 1 /\ UpSent(p, r) = 2 * Call(r) + 1
    <2>1. /\ pc[r] \notin Early /\ pc[r] \in Early \cup {"send", "map"}
          /\ pc[r] \in Early \cup {"send"} /\ pc[r] \notin {"sendblock", "returned"}
          /\ pc[r] # "returned"
      BY DEF Early, Collecting
    <2>2. TreeDownTaken(r) = 2 * Call(r) + 1 /\ TreeUpSent(r) = 2 * Call(r) + 1
      BY <1>3, <2>1 DEF TreeDownTaken, TreeUpSent, Once
    <2> QED
      BY <1>1, <1>3, <2>1, <2>2 DEF DownTaken, UpSent, InTree, Once
  <1>5. /\ UpTaken(p, r) <= 2 * Call(r) + 1
        /\ 2 * Call(r) + 1 <= DownSent(p, r)
    BY <1>2, <1>4, TakenSent
  <1>6. UpTaken(p, r) >= 2 * Call(p) + 2 * Once(Received(p, r))
    <2>1. PICK n \in Nat : UpTaken(p, r) = TreeUpTaken(p, r) + n
      BY <1>1, <1>3 DEF UpTaken, InTree
    <2>2. PICK k \in Nat : TreeUpTaken(p, r) =
                               2 * Call(p) + 2 * Once(Received(p, r)) + k
      BY <1>3 DEF TreeUpTaken
    <2>3. Once(Received(p, r)) \in {0, 1}
      BY <1>3
    <2> QED
      BY <1>3, <2>1, <2>2, <2>3
  <1>7. ~(p = 0 /\ pc[p] \in AtRoot \cup {"returned"})
    <2>1. SUFFICES ASSUME p = 0, pc[p] \in AtRoot \cup {"returned"}
                   PROVE  FALSE
      OBVIOUS
    <2>2. Call(p) = 1 /\ pc[p] \notin {"start", "buffer"} \cup Collecting
      BY <1>2, <2>1 DEF Placed, Call, Late, AtRoot, Collecting
    <2>3. Received(p, r)
      BY <1>1, <1>2, <2>2 DEF Placed, Received
    <2>4. Once(Received(p, r)) = 1
      BY <2>3 DEF Once
    <2>5. UpTaken(p, r) \in Nat
      BY CountTypes
    <2> QED
      BY <1>3, <1>5, <1>6, <2>2, <2>4, <2>5
  <1>8. DownSent(p, r) =
            2 * Call(p) + (Once(Asked(p, r)) + Once(TableSent(p, r)))
    <2>1. p = 0 => gather = 1 /\ pc[p] \notin {"blocklen", "block"}
      BY <1>2, <1>7 DEF Placed, AtRoot
    <2>2. ~(p = 0 /\ (r < gather \/ (r = gather /\ pc[0] \in {"blocklen", "block"})))
      BY <1>2, <2>1
    <2>3. TreeDownSent(p, r) \in Nat
      BY <1>3 DEF TreeDownSent
    <2> QED
      BY <1>1, <2>2, <2>3 DEF DownSent, InTree, Once, TreeDownSent
  <1>9. /\ Once(Asked(p, r)) \in {0, 1} /\ Once(TableSent(p, r)) \in {0, 1}
        /\ Once(Received(p, r)) \in {0, 1} /\ UpTaken(p, r) \in Nat
    BY <1>3, CountTypes
  <1>10. Call(p) = Call(r) /\ Once(Received(p, r)) = 0
    <2>1. 2 * Call(r) + 1 <= 2 * Call(p) + 2
      BY <1>3, <1>5, <1>8, <1>9
    <2>2. 2 * Call(p) + 2 * Once(Received(p, r)) <= 2 * Call(r) + 1
      BY <1>3, <1>5, <1>6, <1>9
    <2> QED
      BY <1>3, <1>9, <2>1, <2>2
  <1>11. ~Received(p, r)
    BY <1>10 DEF Once
  <1>12. ~TableSent(p, r)
    BY <1>2, <1>11 DEF TableSent, Family, Received
  <1>13. DownSent(p, r) = 2 * Call(r) + 1
    <2>1. Once(TableSent(p, r)) = 0
      BY <1>12 DEF Once
    <2> QED
      BY <1>3, <1>5, <1>8, <1>9, <1>10, <2>1
  <1>14. UpTaken(p, r) >= 2 * Call(r)
    BY <1>3, <1>6, <1>9, <1>10
  <1> QED
    BY <1>1, <1>4, <1>10, <1>11, <1>13, <1>14

\* A message is one of those that were sent and not yet taken.
IsNumber(m, taken, sent, kinds) ==
    \E n \in Nat : n > taken /\ n <= sent /\ m.kind = kinds[n]

LEMMA NumberOf ==
    ASSUME NEW q, NEW taken \in Nat, NEW sent \in Nat, NEW kinds,
           Listed(q), Numbered(q, taken, sent, kinds), NEW i \in 1 .. Len(q)
    PROVE  IsNumber(q[i], taken, sent, kinds)
  <1>1. Len(q) \in Nat /\ Len(q) = sent - taken /\ q[i].kind = kinds[taken + i]
    BY DEF Listed, Numbered
  <1>2. taken + i \in Nat /\ taken + i > taken /\ taken + i <= sent
    BY <1>1
  <1> QED
    BY <1>1, <1>2 DEF IsNumber

LEMMA UnderWay ==
    ASSUME Mail, Protocol, NEW p \in Ranks, NEW c \in Ranks, p < c
    PROVE  /\ \A i \in 1 .. Len(chan[p, c]) :
                  IsNumber(chan[p, c][i], DownTaken(p, c), DownSent(p, c), DownKinds)
           /\ \A i \in 1 .. Len(chan[c, p]) :
                  IsNumber(chan[c, p][i], UpTaken(p, c), UpSent(p, c), UpKinds(p, c))
  <1>1. /\ Numbered(chan[p, c], DownTaken(p, c), DownSent(p, c), DownKinds)
        /\ Numbered(chan[c, p], UpTaken(p, c), UpSent(p, c), UpKinds(p, c))
    BY DEF Protocol, Channels
  <1>2. Listed(chan[p, c]) /\ Listed(chan[c, p])
    BY DEF Mail, AllFit
  <1>3. /\ DownTaken(p, c) \in Nat /\ DownSent(p, c) \in Nat
        /\ UpTaken(p, c) \in Nat /\ UpSent(p, c) \in Nat
    BY CountTypes
  <1> QED
    BY <1>1, <1>2, <1>3, NumberOf, Zenon

\* Messages of a tree that is at its second: no list, and no table.
LEMMA SecondUp ==
    ASSUME NEW m, NEW taken \in Nat, NEW call \in {0, 1}, NEW p, NEW c,
           taken >= 2 * call,
           IsNumber(m, taken, 2 * call + 1, UpKinds(p, c))
    PROVE  m.kind # "names"
  <1>1. PICK n \in Nat : /\ n > taken /\ n <= 2 * call + 1
                         /\ m.kind = UpKinds(p, c)[n]
    BY DEF IsNumber
  <1>2. n % 2 = 1
    <2>1. call = 0 \/ call = 1
      OBVIOUS
    <2> QED
      BY <1>1, <2>1
  <1> QED
    BY <1>1, <1>2 DEF UpKinds

LEMMA NoneBetween ==
    ASSUME NEW m, NEW taken \in Nat, NEW sent \in Nat, sent <= taken, NEW kinds
    PROVE  ~IsNumber(m, taken, sent, kinds)
  BY DEF IsNumber

LEMMA DownKind ==
    ASSUME NEW m, NEW taken \in Nat, NEW sent, IsNumber(m, taken, sent, DownKinds)
    PROVE  m.kind # "names" /\ (sent = 1 => m.kind # "map")
  <1>1. PICK n \in Nat : n > taken /\ n <= sent /\ m.kind = DownKinds[n]
    BY DEF IsNumber
  <1>2. sent = 1 => n % 2 = 1
    BY <1>1
  <1> QED
    BY <1>1, <1>2 DEF DownKinds

LEMMA UpKind ==
    ASSUME NEW m, NEW taken, NEW sent, NEW p, NEW c,
           IsNumber(m, taken, sent, UpKinds(p, c))
    PROVE  m.kind # "map"
  <1>1. PICK n \in Nat : m.kind = UpKinds(p, c)[n]
    BY DEF IsNumber
  <1> QED
    BY <1>1 DEF UpKinds

\* So no list from that rank and no table to it is under way, ...
LEMMA NotUnderWay ==
    ASSUME PInv, NEW r \in Ranks, pc[r] = "send", NEW d \in Ranks, NEW m
    PROVE  /\ IsNumber(m, UpTaken(d, r), UpSent(d, r), UpKinds(d, r)) =>
                  m.kind # "names"
           /\ IsNumber(m, DownTaken(d, r), DownSent(d, r), DownKinds) =>
                  m.kind # "map"
  <1>1. PICK p \in Ranks : /\ p = Parent(r) /\ Edge(p, r)
                           /\ \A q \in Ranks : Edge(q, r) => q = p
    <2>1. pc[r] \in Waiting
      BY DEF Waiting
    <2> QED
      BY <2>1, ParentFacts
  <1>2. PICK call \in {0, 1} : call = Call(r)
    BY DEF Call
  <1>3. PICK taken \in Nat : taken = UpTaken(d, r)
    BY CountTypes
  <1>4. PICK got \in Nat : got = DownTaken(d, r)
    BY CountTypes
  <1>5. CASE d = p
    <2>1. /\ got = 2 * call + 1 /\ DownSent(d, r) = 2 * call + 1
          /\ UpSent(d, r) = 2 * call + 1 /\ taken >= 2 * call
      BY <1>1, <1>2, <1>3, <1>4, <1>5, AtSend
    <2>2. IsNumber(m, taken, 2 * call + 1, UpKinds(d, r)) => m.kind # "names"
      BY <2>1, SecondUp
    <2>3. ~IsNumber(m, got, 2 * call + 1, DownKinds)
      BY <2>1, NoneBetween
    <2> QED
      BY <1>3, <1>4, <2>1, <2>2, <2>3
  <1>6. CASE d # p
    <2>1. ~Edge(d, r)
      BY <1>1, <1>6
    <2>2. UpSent(d, r) = 0
      BY <2>1 DEF UpSent, InTree, Once
    <2>3. PICK sent \in {0, 1} : sent = DownSent(d, r)
      BY <2>1 DEF DownSent, InTree, Once
    <2>4. ~IsNumber(m, taken, 0, UpKinds(d, r))
      BY NoneBetween
    <2>5. ~IsNumber(m, got, 0, DownKinds)
      BY NoneBetween
    <2>6. IsNumber(m, got, 1, DownKinds) => m.kind # "map"
      BY DownKind
    <2> QED
      BY <1>3, <1>4, <2>2, <2>3, <2>4, <2>5, <2>6
  <1> QED
    BY <1>5, <1>6

LEMMA NothingUnderWay ==
    ASSUME PInv, NEW r \in Ranks, pc[r] = "send"
    PROVE  /\ \A d \in Ranks : \A i \in 1 .. Len(chan[r, d]) :
                  chan[r, d][i].kind # "names"
           /\ \A s \in Ranks : \A i \in 1 .. Len(chan[s, r]) :
                  chan[s, r][i].kind # "map"
  <1>1. Mail /\ Protocol
    BY DEF PInv
  <1>2. ASSUME NEW d \in Ranks, NEW i \in 1 .. Len(chan[r, d]), d < r
        PROVE  chan[r, d][i].kind # "names"
    BY <1>1, <1>2, UnderWay, NotUnderWay, Zenon
  <1>3. ASSUME NEW d \in Ranks, NEW i \in 1 .. Len(chan[r, d]), r < d
        PROVE  chan[r, d][i].kind # "names"
    <2>1. IsNumber(chan[r, d][i], DownTaken(r, d), DownSent(r, d), DownKinds)
      BY <1>1, <1>3, UnderWay, Zenon
    <2>2. DownTaken(r, d) \in Nat
      BY CountTypes, Zenon
    <2> QED
      BY <2>1, <2>2, DownKind, Zenon
  <1>4. ASSUME NEW d \in Ranks, NEW i \in 1 .. Len(chan[d, r]), d < r
        PROVE  chan[d, r][i].kind # "map"
    BY <1>1, <1>4, UnderWay, NotUnderWay, Zenon
  <1>5. ASSUME NEW d \in Ranks, NEW i \in 1 .. Len(chan[d, r]), r < d
        PROVE  chan[d, r][i].kind # "map"
    <2>1. IsNumber(chan[d, r][i], UpTaken(r, d), UpSent(r, d), UpKinds(r, d))
      BY <1>1, <1>5, UnderWay, Zenon
    <2> QED
      BY <2>1, UpKind, Zenon
  <1>6. chan[r, r] = <<>>
    BY <1>1 DEF Protocol
  <1>7. \A i : i \notin 1 .. Len(chan[r, r])
    <2>1. Len(chan[r, r]) = 0
      BY <1>6, EmptyListed
    <2>2. \A i : i \notin 1 .. 0
      OBVIOUS
    <2> QED
      BY <2>1, <2>2, Zenon
  <1>8. \A d \in Ranks : d < r \/ d = r \/ r < d
    <2>1. r \in Nat /\ \A d \in Ranks : d \in Nat
      BY RankFacts
    <2> QED
      BY <2>1
  <1> QED
    BY <1>2, <1>3, <1>4, <1>5, <1>7, <1>8, Zenon

\* ... and the parent makes no table for it.
LEMMA NoTableYet ==
    ASSUME PInv, NEW r \in Ranks, pc[r] = "send",
           NEW q \in Ranks, pc[q] \notin {"start", "buffer"}, NEW k \in 2 .. Len(objs[q])
    PROVE  objs[q][k].rank # r
  <1>1. Family(q)
    BY DEF PInv
  <1>2. SUFFICES ASSUME objs[q][k].rank = r PROVE FALSE
    OBVIOUS
  <1>3. Edge(q, r) /\ r - q < mask[q]
    BY <1>1, <1>2 DEF Family
  <1>4. q = Parent(r)
    <2>1. pc[r] \in Waiting
      BY DEF Waiting
    <2> QED
      BY <1>3, <2>1, ParentFacts
  <1>5. ~Received(q, r)
    BY <1>4, AtSend
  <1> QED
    BY <1>3, <1>5 DEF Received

LEMMA SendNamesMoves ==
    ASSUME PInv, NEW r \in Ranks, SendNames(r), UNCHANGED mergeVars
    PROVE  PInv'
  <1>1. /\ Forms /\ Mail /\ Protocol /\ Placed(r) /\ Family(r) /\ Fits(r)
        /\ r \in Nat /\ pc[r] = "send" /\ pc[r] \in Waiting
    BY RankFacts DEF PInv, SendNames, Waiting
  <1>2. PICK p \in Ranks : p = Parent(r)
    BY <1>1, ParentFacts
  <1>3. /\ r # 0 /\ Edge(p, r) /\ p < r /\ p \in Nat
        /\ \A q \in Ranks : Edge(q, r) => q = p
        /\ child[r] = 2 /\ Listed(objs[r])
        /\ \A k \in 1 .. Len(objs[r]) : Formed(objs[r][k])
    BY <1>1, <1>2, ParentFacts, EdgeFacts
  <1>4. r # p
    BY <1>1, <1>3
  <1>5. PICK m : m = Msg("names", Up(r))
    OBVIOUS
  <1>6. m.kind = "names" /\ m.body = Up(r)
    BY <1>5, MsgFields
  <1>7. PICK n : n = IF Len(objs[r]) > 1 THEN Len(merged[r])
                     ELSE Len(db[lister[r]][r])
    OBVIOUS
  <1>8. n \in Nat /\ m.body \in Seq(Names) /\ Len(m.body) <= n
    <2>1. merged[r] \in Seq(Names) /\ Len(merged[r]) \in Nat
      <3>1. merged[r] \in Seq(Names)
        BY <1>1 DEF Forms
      <3> QED
        BY <3>1, LenProperties
    <2>2. Len(db[lister[r]][r]) \in Nat
      <3>1. db[lister[r]][r] \in Seq(Entries)
        BY <1>1 DEF Forms
      <3> QED
        BY <3>1, LenProperties
    <2>3. 1 \in 1 .. Len(objs[r])
      BY <1>1, <1>3 DEF Family, Listed
    <2>4. objs[r][1].strings \in Seq(Names)
      BY <1>3, <2>3 DEF Formed
    <2>5. Len(objs[r][1].strings) <= Len(db[lister[r]][r])
      BY <1>1 DEF Fits
    <2> QED
      BY <1>6, <1>7, <2>1, <2>2, <2>4, <2>5 DEF Up
  <1>9. /\ pc'[r] = "map" /\ mask' = mask /\ child' = child /\ objs' = objs
        /\ lister' = lister /\ db' = db /\ gather' = gather /\ merged' = merged
        /\ numStrings'[r] = n /\ numStrings' \in [Ranks -> Nat]
        /\ \A q \in Ranks : q # r => pc'[q] = pc[q] /\ numStrings'[q] = numStrings[q]
        /\ pc' \in [Ranks -> Places]
    BY <1>1, <1>7, <1>8 DEF SendNames, GoTo, Forms, mergeVars, treeVars, Places
  <1>10. PICK q2 : q2 = Append(chan[r, p], m)
    OBVIOUS
  <1>11. chan = [e \in Ranks \X Ranks |-> chan[e]]
    BY <1>1 DEF Mail
  <1>12. chan' = [chan EXCEPT ![<<r, p>>] = q2]
    BY <1>2, <1>5, <1>10 DEF SendNames, Send
  <1>13. /\ chan' = [e \in Ranks \X Ranks |-> chan'[e]] /\ chan'[r, p] = q2
         /\ \A a, b \in Ranks : a # r \/ b # p => chan'[a, b] = chan[a, b]
    BY <1>11, <1>12
  <1>14. Mail'
    <2>1. ASSUME NEW a \in Ranks, NEW b \in Ranks
          PROVE  AllFit(chan[a, b], numStrings'[a], numStrings'[b])
      <3>1. AllFit(chan[a, b], numStrings[a], numStrings[b])
        BY <1>1 DEF Mail
      <3>2. ASSUME NEW i \in 1 .. Len(chan[a, b])
            PROVE  MessageFits(chan[a, b][i], numStrings'[a], numStrings'[b])
        <4>1. MessageFits(chan[a, b][i], numStrings[a], numStrings[b])
          BY <3>1 DEF AllFit
        <4>2. a = r => chan[a, b][i].kind # "names"
          BY <1>1, NothingUnderWay
        <4>3. b = r => chan[a, b][i].kind # "map"
          BY <1>1, NothingUnderWay
        <4> QED
          BY <1>9, <4>1, <4>2, <4>3 DEF MessageFits
      <3> QED
        BY <3>1, <3>2 DEF AllFit
    <2>2. AllFit(q2, numStrings'[r], numStrings'[p])
      <3>1. MessageFits(m, numStrings'[r], numStrings'[p])
        BY <1>6, <1>8, <1>9 DEF MessageFits
      <3>2. PICK n1, n2 : n1 = numStrings'[r] /\ n2 = numStrings'[p]
        OBVIOUS
      <3>3. AllFit(chan[r, p], n1, n2) /\ MessageFits(m, n1, n2)
        BY <2>1, <3>1, <3>2
      <3>4. AllFit(q2, n1, n2)
        BY <1>10, <3>3, AppendFits
      <3> QED
        BY <3>2, <3>4
    <2>3. ASSUME NEW a \in Ranks, NEW b \in Ranks
          PROVE  AllFit(chan'[a, b], numStrings'[a], numStrings'[b])
      <3>1. CASE a = r /\ b = p
        BY <1>13, <2>2, <3>1
      <3>2. CASE a # r \/ b # p
        BY <1>13, <2>1, <3>2
      <3> QED
        BY <3>1, <3>2
    <2> QED
      BY <1>13, <2>3 DEF Mail
  <1>15. OthersAsWere(r)
    BY <1>4, <1>9, <1>13, ZenonT(40) DEF OthersAsWere
  <1>16. Forms'
    BY <1>1, <1>9 DEF Forms, Objects
  <1>17. pc[r] \in Unifying /\ pc'[r] \in Unifying
    BY <1>1, <1>9 DEF Early, Unifying
  <1>18. Protocol'
    <2>1. \A q \in Ranks : AsParent(r, q)
      BY <1>1, <1>9, <1>17, SameToChildren
    <2>2. \A q \in Ranks : q # p => AsChild(r, q)
      BY <1>3, <1>17, NoChild
    <2>3. /\ TreeDownTaken(r)' = TreeDownTaken(r)
          /\ TreeUpSent(r)' = TreeUpSent(r) + 1
          /\ TreeUpSent(r) = 2 * Call(r) + 1 /\ Call(r) \in {0, 1}
      <3>1. /\ pc[r] \notin Early /\ pc'[r] \notin Early
            /\ pc[r] \in Early \cup {"send", "map"}
            /\ pc'[r] \in Early \cup {"send", "map"}
            /\ pc[r] \in Early \cup {"send"} /\ pc'[r] \notin Early \cup {"send"}
        BY <1>1, <1>9 DEF Early, Collecting
      <3>2. Call(r)' = Call(r) /\ Call(r) \in {0, 1}
        BY <1>9 DEF Call
      <3> QED
        BY <3>1, <3>2 DEF TreeDownTaken, TreeUpSent, Once
    <2>4. /\ DownTaken(p, r)' = DownTaken(p, r)
          /\ UpSent(p, r)' = UpSent(p, r) + 1
          /\ UpSent(p, r) = 2 * Call(r) + 1
      BY <1>3, <1>17, <2>3, MoreAsChild
    <2>5. m.kind = UpKinds(p, r)[UpSent(p, r) + 1]
      <3>1. CASE Call(r) = 0
        <4>1. UpSent(p, r) + 1 = 2
          BY <2>4, <3>1
        <4> QED
          BY <1>3, <1>6, <4>1 DEF UpKinds
      <3>2. CASE Call(r) = 1
        <4>1. UpSent(p, r) + 1 = 4
          BY <2>4, <3>2
        <4> QED
          BY <1>3, <1>6, <4>1 DEF UpKinds
      <3> QED
        BY <2>3, <3>1, <3>2
    <2>6. chan'[r, p] = Append(chan[r, p], m)
      BY <1>10, <1>13
    <2>7. \A q \in Ranks : q # p /\ q < r => AsChild(r, q)
      BY <2>2, Zenon
    <2>8. Mail /\ Protocol /\ p < r /\ OthersAsWere(r)
      BY <1>1, <1>3, <1>15
    <2>9. \A a, b \in Ranks : a # r \/ b # p => chan'[a, b] = chan[a, b]
      BY <1>13
    <2> QED
      BY <2>1, <2>4, <2>5, <2>6, <2>7, <2>8, <2>9, SendUp, Zenon
  <1>19. Placed(r)'
    <2>1. /\ pc'[r] = "map" /\ mask' = mask /\ child' = child /\ objs' = objs
          /\ lister' = lister /\ gather' = gather
      BY <1>9
    <2> QED
      BY <1>1, <2>1
      DEF Placed, Collecting, Waiting, Late, AtRoot, Source, Parent
  <1>20. Family(r)'
    <2>1. /\ pc[r] \notin {"start", "buffer"} /\ objs'[r] = objs[r] /\ mask'[r] = mask[r]
      BY <1>1, <1>9
    <2> QED
      BY <1>1, <2>1 DEF Family
  <1>21. ASSUME NEW q \in Ranks
         PROVE  Fits(q)'
    <2>1. Fits(q) /\ Family(q)
      BY DEF PInv
    <2>2. pc[q] \notin {"start", "buffer"} => \A k \in 2 .. Len(objs[q]) :
              numStrings'[objs[q][k].rank] = numStrings[objs[q][k].rank]
      <3>1. SUFFICES ASSUME pc[q] \notin {"start", "buffer"}, NEW k \in 2 .. Len(objs[q])
                     PROVE  numStrings'[objs[q][k].rank] = numStrings[objs[q][k].rank]
        OBVIOUS
      <3>2. objs[q][k].rank # r
        BY <1>1, <3>1, NoTableYet
      <3>3. objs[q][k].rank \in Ranks
        BY <2>1, <3>1 DEF Family
      <3> QED
        BY <1>9, <3>2, <3>3
    <2>3. pc'[q] \in {"tree", "len", "names", "merge", "ok", "send"} =>
              pc[q] \in {"tree", "len", "names", "merge", "ok", "send"}
      BY <1>9
    <2>4. pc'[q] \notin {"start", "buffer"} => pc[q] \notin {"start", "buffer"}
      BY <1>1, <1>9
    <2> QED
      BY <1>9, <2>1, <2>2, <2>3, <2>4 DEF Fits
  <1>22. ASSUME NEW q \in Ranks
         PROVE  Placed(q)' /\ Family(q)' /\ Fits(q)'
    <2>1. CASE q = r
      BY <1>19, <1>20, <1>21, <2>1
    <2>2. CASE q # r
      BY <1>15, <1>21, <2>2, OthersKeep
    <2> QED
      BY <2>1, <2>2
  <1> QED
    BY <1>14, <1>16, <1>18, <1>22 DEF PInv

LEMMA ReceiveMapMoves ==
    ASSUME PInv, NEW r \in Ranks, ReceiveMap(r), UNCHANGED mergeVars
    PROVE  PInv'
  <1>1. /\ Forms /\ Mail /\ Protocol /\ Placed(r) /\ Family(r) /\ Fits(r)
        /\ r \in Nat /\ pc[r] = "map" /\ pc[r] \in Waiting
        /\ Len(objs[r]) \in Nat
    BY RankFacts DEF PInv, ReceiveMap, Waiting, Forms, Listed
  <1>2. PICK p \in Ranks : p = Parent(r)
    BY <1>1, ParentFacts
  <1>3. /\ r # 0 /\ Edge(p, r) /\ p < r /\ p \in Nat
        /\ \A q \in Ranks : Edge(q, r) => q = p
        /\ child[r] = 2
        /\ \A k \in 1 .. Len(objs[r]) : Formed(objs[r][k])
    BY <1>1, <1>2, ParentFacts, EdgeFacts
  <1>4. r # p
    BY <1>1, <1>3
  <1>5. chan[p, r] # <<>> /\ chan' = [chan EXCEPT ![<<p, r>>] = Tail(chan[p, r])]
    BY <1>2 DEF ReceiveMap, Receive, Arrived
  <1>6. PICK table : table = Body(r, p)
    OBVIOUS
  <1>7. PICK os : os = [k \in 1 .. Len(objs[r]) |-> Mapped(objs[r][k], table)]
    OBVIOUS
  <1>8. Listed(os) /\ Len(os) = Len(objs[r])
    <2>1. os = [k \in 1 .. Len(objs[r]) |-> os[k]]
      BY <1>7
    <2> QED
      BY <1>1, <2>1, EachListed
  <1>9. Likewise(r, os)
    <2>1. ASSUME NEW k \in 1 .. Len(os)
          PROVE  /\ Formed(os[k]) /\ os[k].rank = objs[r][k].rank
                 /\ os[k].strings = objs[r][k].strings
                 /\ Len(os[k].mapping) = Len(objs[r][k].mapping)
      <3>1. k \in 1 .. Len(objs[r]) /\ os[k] = Mapped(objs[r][k], table)
        BY <1>7, <1>8
      <3> QED
        BY <1>3, <3>1, MappedFacts
    <2> QED
      BY <1>8, <2>1 DEF Likewise
  <1>10. objs' = [objs EXCEPT ![r] = os]
    BY <1>2, <1>6, <1>7 DEF ReceiveMap
  <1>11. /\ objs' = [q \in Ranks |-> objs'[q]] /\ objs'[r] = os
         /\ \A q \in Ranks : q # r => objs'[q] = objs[q]
         /\ \A q \in Ranks : /\ Listed(objs'[q])
                             /\ \A k \in 1 .. Len(objs'[q]) : Formed(objs'[q][k])
    BY <1>1, <1>9, <1>10, ObjsSet DEF Likewise
  <1>12. /\ pc'[r] = "down" /\ mask' = mask /\ child' = child
         /\ lister' = lister /\ db' = db /\ gather' = gather
         /\ numStrings' = numStrings /\ merged' = merged
    BY <1>1 DEF ReceiveMap, GoTo, Forms, mergeVars
  <1>13. /\ Mail' /\ chan'[p, r] = Tail(chan[p, r])
         /\ \A a, b \in Ranks : a # p \/ b # r => chan'[a, b] = chan[a, b]
    BY <1>1, <1>5, <1>12, TakeChan
  <1>14. OthersAsWere(r)
    <2>1. \A q \in Ranks : q # r => pc'[q] = pc[q]
      BY <1>1 DEF ReceiveMap, GoTo, Forms
    <2> QED
      BY <1>4, <1>11, <1>12, <1>13, <2>1 DEF OthersAsWere
  <1>15. Forms'
    <2>1. pc' \in [Ranks -> Places]
      BY <1>1 DEF Forms, ReceiveMap, GoTo, Places
    <2> QED
      BY <1>1, <1>11, <1>12, <2>1 DEF Forms, Objects
  <1>16. pc[r] \in Unifying /\ pc'[r] \in Unifying
    BY <1>1, <1>12 DEF Early, Unifying
  <1>17. Protocol'
    <2>1. \A q \in Ranks : AsParent(r, q)
      <3>1. /\ Len(objs'[r]) = Len(objs[r])
            /\ \A k \in 2 .. Len(objs[r]) : objs'[r][k].rank = objs[r][k].rank
        BY <1>1, <1>9, <1>11 DEF Likewise
      <3> QED
        BY <1>1, <1>12, <1>16, <3>1, SameToChildren
    <2>2. \A q \in Ranks : q # p => AsChild(r, q)
      BY <1>3, <1>16, NoChild
    <2>3. /\ TreeDownTaken(r)' = TreeDownTaken(r) + 1
          /\ TreeUpSent(r)' = TreeUpSent(r)
      <3>1. /\ pc[r] \notin Early /\ pc'[r] \notin Early
            /\ pc[r] \in Early \cup {"send", "map"}
            /\ pc'[r] \notin Early \cup {"send", "map"}
            /\ pc[r] \notin Early \cup {"send"} /\ pc'[r] \notin Early \cup {"send"}
        BY <1>1, <1>12 DEF Early, Collecting
      <3>2. Call(r)' = Call(r) /\ Call(r) \in {0, 1}
        BY <1>12 DEF Call
      <3> QED
        BY <3>1, <3>2 DEF TreeDownTaken, TreeUpSent, Once
    <2>4. /\ DownTaken(p, r)' = DownTaken(p, r) + 1
          /\ UpSent(p, r)' = UpSent(p, r)
      BY <1>3, <1>16, <2>3, MoreAsChild
    <2>5. \A q \in Ranks : q # p /\ q < r => AsChild(r, q)
      BY <2>2, Zenon
    <2>6. /\ Mail /\ Protocol /\ p < r /\ OthersAsWere(r)
          /\ chan[p, r] # <<>> /\ chan'[p, r] = Tail(chan[p, r])
      BY <1>1, <1>3, <1>5, <1>13, <1>14
    <2>7. \A a, b \in Ranks : a # p \/ b # r => chan'[a, b] = chan[a, b]
      BY <1>13
    <2> QED
      BY <2>1, <2>4, <2>5, <2>6, <2>7, TakeDown, Zenon
  <1>18. Placed(r)'
    <2>1. /\ pc[r] \notin {"start", "buffer"}
          /\ pc[r] \notin {"start", "buffer"} \cup Collecting
      BY <1>1 DEF Collecting
    <2> QED
      BY <1>1, <1>3, <1>12, <2>1
      DEF Placed, Collecting, Waiting, Late, AtRoot, Source, Parent
  <1>19. Family(r)'
    BY <1>1, <1>9, <1>11, <1>12, LikewiseFamily
  <1>20. Fits(r)'
    BY <1>1, <1>9, <1>11, <1>12, LikewiseFits
  <1> QED
    BY <1>12, <1>13, <1>14, <1>15, <1>17, <1>18, <1>19, <1>20, KeepsPInv

LEMMA SendMapMoves ==
    ASSUME PInv, NEW r \in Ranks, SendMap(r), UNCHANGED mergeVars
    PROVE  PInv'
  <1>1. /\ Forms /\ Mail /\ Protocol /\ Placed(r) /\ Family(r) /\ Fits(r)
        /\ r \in Nat /\ pc[r] = "down" /\ child[r] \in Nat
        /\ Len(objs[r]) \in Nat /\ mask[r] \in Nat
    BY RankFacts, MaskPositive DEF PInv, SendMap, Forms, Listed
  <1>2. PICK k \in 2 .. Len(objs[r]) : k = child[r]
    BY <1>1 DEF SendMap, Placed
  <1>3. PICK d \in Ranks : /\ d = objs[r][k].rank /\ Edge(r, d)
                           /\ d - r < mask[r]
    BY <1>1 DEF Family
  <1>4. r < d /\ d \in Nat
    BY <1>3, EdgeFacts
  <1>5. r # d
    BY <1>1, <1>4
  <1>6. PICK table : table = objs[r][k].mapping
    OBVIOUS
  <1>7. Listed(table) /\ Len(table) <= numStrings[d]
    <2>1. Formed(objs[r][k])
      <3>1. k \in 1 .. Len(objs[r])
        BY <1>1
      <3> QED
        BY <1>1, <3>1 DEF Forms, Objects
    <2>2. Len(objs[r][k].mapping) <= numStrings[d]
      BY <1>1, <1>2, <1>3 DEF Fits
    <2> QED
      BY <1>6, <2>1, <2>2 DEF Formed
  <1>8. PICK m : m = Msg("map", table)
    OBVIOUS
  <1>9. m.kind = "map" /\ m.body = table
    BY <1>8, MsgFields
  <1>10. chan' = [chan EXCEPT ![<<r, d>>] = Append(chan[r, d], m)]
    BY <1>2, <1>3, <1>6, <1>8 DEF SendMap, Send
  <1>11. /\ child'[r] = k + 1 /\ pc' = pc /\ mask' = mask /\ objs' = objs
         /\ lister' = lister /\ db' = db /\ gather' = gather
         /\ numStrings' = numStrings /\ merged' = merged
    BY <1>1, <1>2 DEF SendMap, Forms, mergeVars
  <1>12. /\ Mail' /\ chan'[r, d] = Append(chan[r, d], m)
         /\ \A a, b \in Ranks : a # r \/ b # d => chan'[a, b] = chan[a, b]
    <2>1. MessageFits(m, numStrings[r], numStrings[d])
      BY <1>7, <1>9 DEF MessageFits
    <2> QED
      BY <1>1, <1>10, <1>11, <2>1, PutChan
  <1>13. OthersAsWere(r)
    <2>1. \A q \in Ranks : q # r => child'[q] = child[q]
      BY <1>1 DEF SendMap, Forms
    <2> QED
      BY <1>5, <1>11, <1>12, <2>1 DEF OthersAsWere
  <1>14. Forms'
    <2>1. PICK n \in Nat : n = child[r] + 1
      BY <1>2
    <2>2. child' = [child EXCEPT ![r] = n]
      BY <1>1, <2>1, Zenon DEF SendMap
    <2>3. child \in [Ranks -> Nat]
      BY <1>1, Zenon DEF Forms
    <2>4. child' \in [Ranks -> Nat]
      BY <2>1, <2>2, <2>3, SMT
    <2> QED
      BY <1>1, <1>11, <2>4 DEF Forms, Objects
  <1>15. pc[r] \in Unifying /\ pc'[r] \in Unifying
    BY <1>1, <1>11 DEF Unifying
  <1>16. Protocol'
    <2>1. \A q \in Ranks : /\ Asked(r, q)' <=> Asked(r, q)
                           /\ Received(r, q)' <=> Received(r, q)
                           /\ Told(r, q)' <=> Told(r, q)
      BY <1>11 DEF Asked, Received, Told
    <2>2. \A q \in Ranks : TableSent(r, q)' <=>
              (TableSent(r, q) \/ q = d)
      <3>1. \A j \in 2 .. Len(objs[r]) : j < k + 1 <=> (j < k \/ j = k)
        OBVIOUS
      <3> QED
        BY <1>1, <1>2, <1>3, <1>11, <3>1 DEF TableSent
    <2>3. ~TableSent(r, d) /\ TableSent(r, d)'
      <3>1. TableSent(r, d)'
        BY <2>2
      <3>2. ~TableSent(r, d)
        BY <1>1, <1>2, <1>3 DEF TableSent, Family
      <3> QED
        BY <3>1, <3>2
    <2>4. ASSUME NEW q \in Ranks, q # d
          PROVE  AsParent(r, q)
      <3>1. TableSent(r, q)' <=> TableSent(r, q)
        BY <2>2, <2>4
      <3> QED
        BY <1>11, <1>15, <2>1, <3>1, SameAsParent
    <2>5. \A q \in Ranks : AsChild(r, q)
      BY <1>11, ChildCounts DEF AsChild
    <2>6. Asked(r, d)
      BY <1>1, <1>3 DEF Asked
    <2>7. /\ TreeDownSent(r, d)' = TreeDownSent(r, d) + 1
          /\ TreeUpTaken(r, d)' = TreeUpTaken(r, d)
          /\ TreeDownSent(r, d) = 2 * Call(r) + 1 /\ Call(r) \in Nat
      <3>1. Call(r)' = Call(r) /\ Call(r) \in Nat
        BY <1>11 DEF Call
      <3>2. /\ Once(Asked(r, d)) = 1 /\ Once(Asked(r, d))' = 1
            /\ Once(TableSent(r, d)) = 0 /\ Once(TableSent(r, d))' = 1
        BY <2>1, <2>3, <2>6 DEF Once
      <3>3. Once(Received(r, d))' = Once(Received(r, d))
        BY <2>1 DEF Once
      <3>4. Once(pc[r] = "names" /\ d = r + mask[r])'
            = Once(pc[r] = "names" /\ d = r + mask[r])
        BY <1>11
      <3> QED
        BY <3>1, <3>2, <3>3, <3>4 DEF TreeDownSent, TreeUpTaken
    <2>8. /\ DownSent(r, d)' = DownSent(r, d) + 1
          /\ UpTaken(r, d)' = UpTaken(r, d)
      <3>1. /\ DownSent(r, d)' - TreeDownSent(r, d)'
               = DownSent(r, d) - TreeDownSent(r, d)
            /\ UpTaken(r, d)' - TreeUpTaken(r, d)'
               = UpTaken(r, d) - TreeUpTaken(r, d)
            /\ TreeDownSent(r, d) \in Nat /\ TreeUpTaken(r, d) \in Nat
            /\ DownSent(r, d)' \in Nat /\ UpTaken(r, d)' \in Nat
        BY <1>3, <1>11, <1>15, MoreAsParent
      <3>2. DownSent(r, d) \in Nat /\ UpTaken(r, d) \in Nat
        BY CountTypes
      <3> QED
        BY <2>7, <3>1, <3>2, SMTT(40)
    <2>9. m.kind = DownKinds[DownSent(r, d) + 1]
      <3>1. DownSent(r, d) = 2 * Call(r) + 1
        BY <1>1, <1>3, <1>15, <2>7, TreeCounts
      <3>2. PICK call \in Nat : call = Call(r)
        BY <2>7
      <3>3. (2 * call + 1) + 1 = 2 * call + 2 /\ (2 * call + 2) % 2 # 1
        BY OddNumbers
      <3> QED
        BY <1>9, <3>1, <3>2, <3>3 DEF DownKinds
    <2>10. /\ Mail /\ Protocol /\ r < d /\ OthersAsWere(r)
           /\ chan'[r, d] = Append(chan[r, d], m)
      BY <1>1, <1>4, <1>12, <1>13
    <2>11. \A a, b \in Ranks : a # r \/ b # d => chan'[a, b] = chan[a, b]
      BY <1>12
    <2> QED
      BY <2>4, <2>5, <2>8, <2>9, <2>10, <2>11, SendDown, Zenon
  <1>17. Placed(r)'
    <2>1. child'[r] >= 2
      BY <1>2, <1>11
    <2> QED
      BY <1>1, <1>11, <2>1
      DEF Placed, Collecting, Waiting, Late, AtRoot, Source, Parent
  <1>18. Family(r)'
    BY <1>1, <1>11 DEF Family
  <1>19. Fits(r)'
    <2>1. \A j \in 2 .. Len(objs[r]) : j >= k + 1 => j >= k
      OBVIOUS
    <2> QED
      BY <1>1, <1>2, <1>11, <2>1 DEF Fits
  <1> QED
    BY <1>11, <1>12, <1>13, <1>14, <1>16, <1>17, <1>18, <1>19, KeepsPInv

\* After a call, all its messages have been sent and taken on both sides.
LEMMA CallDone ==
    ASSUME NEW r \in Ranks, Placed(r), Family(r), pc[r] \in {"done"} \cup Late,
           Len(objs[r]) \in Nat, child[r] \in Nat
    PROVE  /\ \A q \in Ranks : Edge(r, q) =>
                  /\ TreeDownSent(r, q) = 2 * Call(r) + 2
                  /\ TreeUpTaken(r, q) = 2 * Call(r) + 2
           /\ TreeDownTaken(r) = 2 * Call(r) + 2
           /\ TreeUpSent(r) = 2 * Call(r) + 2
           /\ Call(r) \in {0, 1}
           /\ pc[r] \in Late => Call(r) = 1
  <1>1. /\ pc[r] \notin {"start", "buffer"} \cup Collecting /\ pc[r] \notin Early
        /\ pc[r] \notin Early \cup {"send", "map"}
        /\ pc[r] \notin Early \cup {"send"}
        /\ pc[r] \notin {"start", "buffer", "names"}
    BY DEF Late, AtRoot, Collecting, Early
  <1>2. Call(r) \in {0, 1}
    BY DEF Call
  <1>3. TreeDownTaken(r) = 2 * Call(r) + 2 /\ TreeUpSent(r) = 2 * Call(r) + 2
    BY <1>1, <1>2 DEF TreeDownTaken, TreeUpSent, Once
  <1>4. ASSUME NEW q \in Ranks, Edge(r, q)
        PROVE  /\ TreeDownSent(r, q) = 2 * Call(r) + 2
               /\ TreeUpTaken(r, q) = 2 * Call(r) + 2
    <2>1. q - r < mask[r]
      BY <1>1, <1>4 DEF Placed
    <2>2. PICK k \in 2 .. Len(objs[r]) : objs[r][k].rank = q
      BY <1>1, <1>4, <2>1 DEF Family
    <2>3. child[r] > Len(objs[r])
      BY DEF Placed
    <2>4. TableSent(r, q)
      <3>1. k < child[r]
        BY <2>3
      <3> QED
        BY <1>1, <2>2, <2>3, <3>1 DEF TableSent
    <2>5. Asked(r, q) /\ Received(r, q)
      BY <1>1, <2>1 DEF Asked, Received
    <2>6. ~(pc[r] = "names" /\ q = r + mask[r])
      BY <1>1
    <2> QED
      BY <1>2, <2>4, <2>5, <2>6 DEF TreeDownSent, TreeUpTaken, Once
  <1>5. pc[r] \in Late => Call(r) = 1
    BY DEF Placed, Call
  <1> QED
    BY <1>2, <1>3, <1>4, <1>5

LEMMA NextListerMoves ==
    ASSUME PInv, NEW r \in Ranks, NextLister(r)
    PROVE  PInv'
  <1>1. /\ Forms /\ Mail /\ Protocol /\ Placed(r) /\ Family(r) /\ Fits(r)
        /\ r \in Nat /\ pc[r] = "done" /\ lister[r] = "functions"
        /\ Len(objs[r]) \in Nat /\ child[r] \in Nat
    BY RankFacts DEF PInv, NextLister, Forms, Listed
  <1>2. /\ pc'[r] = "start" /\ lister'[r] = "atomics" /\ mask' = mask
        /\ child' = child /\ objs' = objs /\ db' = db /\ gather' = gather
        /\ numStrings' = numStrings /\ merged' = merged /\ chan' = chan
    BY <1>1 DEF NextLister, GoTo, Forms, mergeVars, treeVars
  <1>3. OthersAsWere(r)
    <2>1. \A q \in Ranks : q # r => pc'[q] = pc[q] /\ lister'[q] = lister[q]
      BY <1>1 DEF NextLister, GoTo, Forms
    <2> QED
      BY <1>2, <2>1 DEF OthersAsWere
  <1>4. Forms'
    <2>1. pc' \in [Ranks -> Places] /\ lister' \in [Ranks -> Listers]
      BY <1>1 DEF Forms, NextLister, GoTo, Places, Listers
    <2> QED
      BY <1>1, <1>2, <2>1 DEF Forms, Objects
  <1>5. Call(r) = 0 /\ Call(r)' = 1
    BY <1>1, <1>2 DEF Call
  <1>6. Protocol'
    <2>1. /\ TreeDownTaken(r)' = 2 /\ TreeUpSent(r)' = 2
      <3>1. pc'[r] \in Early
        BY <1>2 DEF Early
      <3> QED
        BY <1>5, <3>1 DEF TreeDownTaken, TreeUpSent, Once
    <2>2. \A q \in Ranks : TreeDownSent(r, q)' = 2 /\ TreeUpTaken(r, q)' = 2
      <3>1. \A q \in Ranks : /\ ~Asked(r, q)' /\ ~TableSent(r, q)'
                             /\ ~Received(r, q)'
        BY <1>2 DEF Asked, Received, TableSent
      <3> QED
        BY <1>2, <1>5, <3>1 DEF TreeDownSent, TreeUpTaken, Once
    <2>3. /\ TreeDownTaken(r) = 2 /\ TreeUpSent(r) = 2
          /\ \A q \in Ranks : Edge(r, q) => /\ TreeDownSent(r, q) = 2
                                            /\ TreeUpTaken(r, q) = 2
      BY <1>1, <1>5, CallDone
    <2>4. ASSUME NEW q \in Ranks
          PROVE  AsParent(r, q) /\ AsChild(r, q)
      <3>1. AsChild(r, q)
        BY <1>1, <1>2, <2>1, <2>3 DEF AsChild, DownTaken, UpSent, InTree
      <3>2. CASE r = 0
        BY <1>1, <1>2, <2>2, <2>3, <3>1, <3>2
        DEF AsParent, DownSent, UpTaken, InTree
      <3>3. CASE r # 0
        BY <1>1, <1>2, <2>2, <2>3, <3>1, <3>3
        DEF AsParent, DownSent, UpTaken, InTree, Once
      <3> QED
        BY <3>1, <3>2, <3>3
    <2> QED
      BY <1>1, <1>2, <1>3, <2>4, Silent
  <1>7. Placed(r)'
    BY <1>1, <1>2 DEF Placed, Collecting, Waiting, Late, AtRoot
  <1>8. Family(r)' /\ Fits(r)'
    BY <1>2 DEF Family, Fits
  <1> QED
    BY <1>1, <1>2, <1>3, <1>4, <1>6, <1>7, <1>8, SameMail, KeepsPInv

-----------------------------------------------------------------------------
(* The collection of the buffers.                                          *)

\* What the tree adds to the counts stays what it is after the two calls.
LEMMA LateStays ==
    ASSUME NEW r \in Ranks, pc[r] \in Late, pc'[r] \in Late,
           lister'[r] = lister[r], mask'[r] = mask[r], objs'[r] = objs[r],
           child'[r] = child[r]
    PROVE  /\ \A q \in Ranks : /\ TreeDownSent(r, q)' = TreeDownSent(r, q)
                               /\ TreeUpTaken(r, q)' = TreeUpTaken(r, q)
           /\ TreeDownTaken(r)' = TreeDownTaken(r)
           /\ TreeUpSent(r)' = TreeUpSent(r)
  <1>1. /\ pc[r] \notin Early /\ pc[r] \notin Early \cup {"send", "map"}
        /\ pc[r] \notin Early \cup {"send"}
        /\ pc[r] \notin {"start", "buffer", "len", "names"}
        /\ pc'[r] \notin Early /\ pc'[r] \notin Early \cup {"send", "map"}
        /\ pc'[r] \notin Early \cup {"send"}
        /\ pc'[r] \notin {"start", "buffer", "len", "names"}
    BY DEF Late, AtRoot, Collecting, Early
  <1>2. ASSUME NEW q \in Ranks
        PROVE  /\ TreeDownSent(r, q)' = TreeDownSent(r, q)
               /\ TreeUpTaken(r, q)' = TreeUpTaken(r, q)
    <2>1. /\ Asked(r, q)' <=> Asked(r, q)
          /\ Received(r, q)' <=> Received(r, q)
          /\ TableSent(r, q)' <=> TableSent(r, q)
      BY <1>1 DEF Asked, Received, TableSent
    <2>2. ~(pc[r] = "names" /\ q = r + mask[r])
          /\ ~(pc[r] = "names" /\ q = r + mask[r])'
      BY <1>1
    <2> QED
      BY <2>1, <2>2 DEF TreeDownSent, TreeUpTaken, Once, Call
  <1>3. TreeDownTaken(r)' = TreeDownTaken(r) /\ TreeUpSent(r)' = TreeUpSent(r)
    BY <1>1 DEF TreeDownTaken, TreeUpSent, Once, Call
  <1> QED
    BY <1>2, <1>3

LEMMA TwoCalls == 2 * 1 + 2 = 4
  OBVIOUS

LEMMA FamilyStays ==
    ASSUME NEW r, Family(r), pc[r] \notin {"start", "buffer"},
           objs'[r] = objs[r], mask'[r] = mask[r]
    PROVE  Family(r)'
  BY DEF Family

LEMMA FitsStays ==
    ASSUME NEW r, Fits(r), pc[r] \notin {"start", "buffer"},
           objs'[r] = objs[r], child'[r] = child[r],
           numStrings' = numStrings, pc'[r] \in Late
    PROVE  Fits(r)'
  <1>1. pc'[r] \notin {"tree", "len", "names", "merge", "ok", "send"}
    BY DEF Late, AtRoot
  <1> QED
    BY <1>1 DEF Fits

\* What all steps of rank 0 that collect have in common.
Collects(to) ==
    /\ pc' = [pc EXCEPT ![0] = to] /\ to \in AtRoot /\ pc[0] \in AtRoot
    /\ UNCHANGED <<db, lister, mask, objs, merged, numStrings, child>>

LEMMA CollectsFacts ==
    ASSUME PInv, NEW to, Collects(to), gather' \in 1 .. NumRanks,
           to \in {"blocklen", "block"} => gather' \in Ranks,
           \A s, d \in Ranks : (s = d \/ (s # 0 /\ d # 0)) => chan'[s, d] = chan[s, d]
    PROVE  /\ pc'[0] = to /\ OthersAsWere(0) /\ Forms'
           /\ Placed(0)' /\ Family(0)' /\ Fits(0)'
           /\ \A q \in Ranks : /\ TreeDownSent(0, q)' = TreeDownSent(0, q)
                               /\ TreeUpTaken(0, q)' = TreeUpTaken(0, q)
                               /\ Edge(0, q) => /\ TreeDownSent(0, q) = 4
                                                /\ TreeUpTaken(0, q) = 4
  <1>1. /\ Forms /\ Placed(0) /\ Family(0) /\ Fits(0) /\ 0 \in Ranks
        /\ pc[0] \in Late /\ to \in Late /\ to \in Places
        /\ Len(objs[0]) \in Nat /\ child[0] \in Nat
    BY RootFacts DEF PInv, Collects, Forms, Late, AtRoot, Places, Listed
  <1>2. /\ pc'[0] = to /\ \A q \in Ranks : q # 0 => pc'[q] = pc[q]
        /\ pc' \in [Ranks -> Places]
    BY <1>1 DEF Forms, Collects
  <1>3. /\ db' = db /\ lister' = lister /\ mask' = mask /\ objs' = objs
        /\ merged' = merged /\ numStrings' = numStrings /\ child' = child
    BY DEF Collects
  <1>4. OthersAsWere(0)
    BY <1>2, <1>3 DEF OthersAsWere
  <1>5. Forms'
    BY <1>1, <1>2, <1>3 DEF Forms, Objects
  <1>6. Placed(0)'
    <2>1. /\ pc[0] \notin {"start", "buffer"} \cup Collecting
          /\ pc'[0] \notin {"start", "buffer"} \cup Collecting
      BY <1>1, <1>2 DEF Late, AtRoot, Collecting
    <2>2. pc'[0] \in AtRoot /\ pc'[0] \notin Waiting \cup {"ready", "sendblock"}
          /\ pc'[0] \notin {"merge"} \cup Collecting \cup Waiting
      BY <1>2 DEF Collects, AtRoot, Waiting, Collecting
    <2> QED
      BY <1>1, <1>2, <1>3, <2>1, <2>2 DEF Placed, Parent, Collecting
  <1>7. Family(0)' /\ Fits(0)'
    <2>1. pc[0] \notin {"start", "buffer"} /\ pc'[0] \notin {"start", "buffer"}
          /\ pc'[0] \notin {"tree", "len", "names", "merge", "ok", "send"}
      BY <1>1, <1>2 DEF Late, AtRoot
    <2>2. /\ objs'[0] = objs[0] /\ mask'[0] = mask[0] /\ child'[0] = child[0]
          /\ numStrings' = numStrings
      BY <1>3
    <2>3. Family(0)'
      BY <1>1, <2>1, <2>2, FamilyStays, Zenon
    <2>4. Fits(0)'
      BY <1>1, <1>2, <2>1, <2>2, FitsStays, Zenon
    <2> QED
      BY <2>3, <2>4
  <1>8. \A q \in Ranks : /\ TreeDownSent(0, q)' = TreeDownSent(0, q)
                         /\ TreeUpTaken(0, q)' = TreeUpTaken(0, q)
    BY <1>1, <1>2, <1>3, LateStays
  <1>9. \A q \in Ranks : Edge(0, q) => /\ TreeDownSent(0, q) = 4
                                       /\ TreeUpTaken(0, q) = 4
    <2>1. pc[0] \in {"done"} \cup Late
      BY <1>1, Zenon
    <2>2. Call(0) = 1
      BY <1>1, <2>1, CallDone, Zenon
    <2>3. \A q \in Ranks : Edge(0, q) => /\ TreeDownSent(0, q) = 2 * Call(0) + 2
                                         /\ TreeUpTaken(0, q) = 2 * Call(0) + 2
      BY <1>1, <2>1, CallDone, Zenon
    <2> QED
      BY <2>2, <2>3, TwoCalls, Zenon
  <1> QED
    BY <1>2, <1>4, <1>5, <1>6, <1>7, <1>8, <1>9

\* The counts of rank 0, after the calls.
Begun(q) == q < gather \/ (q = gather /\ pc[0] \in {"blocklen", "block"})
Length(q) == q = gather /\ pc[0] = "block"

\* What rank 0 has sent to rank q and taken from it, before and after a step.
LEMMA AtRank0 ==
    ASSUME NEW q,
           TreeDownSent(0, q)' = TreeDownSent(0, q),
           TreeUpTaken(0, q)' = TreeUpTaken(0, q),
           Edge(0, q) => TreeDownSent(0, q) = 4 /\ TreeUpTaken(0, q) = 4
    PROVE  \E tree \in {0, 4} :
               /\ DownSent(0, q) = tree + Once(Begun(q))
               /\ DownSent(0, q)' = tree + Once(Begun(q))'
               /\ UpTaken(0, q) = tree + (2 * Once(q < gather) + Once(Length(q)))
               /\ UpTaken(0, q)' = tree + (2 * Once(q < gather) + Once(Length(q)))'
  <1>1. PICK tree \in {0, 4} : tree = IF Edge(0, q) THEN 4 ELSE 0
    OBVIOUS
  <1> QED
    BY <1>1 DEF DownSent, UpTaken, InTree, Once, Begun, Length

LEMMA NoneBefore == \A q \in Ranks : ~(q < 0)
  BY RankFacts

LEMMA AskRankMoves ==
    ASSUME PInv, AskRank
    PROVE  PInv'
  <1>1. /\ Forms /\ Mail /\ Protocol /\ 0 \in Ranks /\ pc[0] = "gather"
        /\ gather \in Nat /\ gather >= 1
    BY RootFacts, RankFacts DEF PInv, AskRank, Forms
  <1>2. PICK d \in Ranks : d = gather
    BY DEF AskRank
  <1>3. PICK m : m = Msg("ok", <<>>)
    OBVIOUS
  <1>4. m.kind = "ok"
    BY <1>3, MsgFields
  <1>5. chan' = [chan EXCEPT ![<<0, d>>] = Append(chan[0, d], m)]
    BY <1>2, <1>3 DEF AskRank, Send
  <1>6. /\ pc' = [pc EXCEPT ![0] = "blocklen"] /\ gather' = gather
        /\ UNCHANGED <<db, lister, mask, objs, merged, numStrings, child>>
    BY DEF AskRank, GoTo, mergeVars, treeVars
  <1>7. /\ Mail' /\ chan'[0, d] = Append(chan[0, d], m)
        /\ \A a, b \in Ranks : a # 0 \/ b # d => chan'[a, b] = chan[a, b]
    <2>1. MessageFits(m, numStrings[0], numStrings[d])
      BY <1>4 DEF MessageFits
    <2> QED
      BY <1>1, <1>5, <1>6, <2>1, PutChan
  <1>8. d # 0 /\ d \in Nat /\ 0 < d
    BY <1>1, <1>2
  <1>9. /\ pc'[0] = "blocklen" /\ OthersAsWere(0) /\ Forms'
        /\ Placed(0)' /\ Family(0)' /\ Fits(0)'
        /\ \A q \in Ranks : /\ TreeDownSent(0, q)' = TreeDownSent(0, q)
                            /\ TreeUpTaken(0, q)' = TreeUpTaken(0, q)
                            /\ Edge(0, q) => /\ TreeDownSent(0, q) = 4
                                             /\ TreeUpTaken(0, q) = 4
    <2>1. Collects("blocklen")
      BY <1>1, <1>6 DEF Collects, AtRoot
    <2>2. gather' \in 1 .. NumRanks /\ gather' \in Ranks
      BY <1>1, <1>2, <1>6 DEF Forms
    <2>3. \A s, b \in Ranks : (s = b \/ (s # 0 /\ b # 0)) => chan'[s, b] = chan[s, b]
      BY <1>7, <1>8
    <2> QED
      BY <2>1, <2>2, <2>3, CollectsFacts
  <1>10. Protocol'
    <2>1. \A q \in Ranks : /\ Begun(q)' <=> (Begun(q) \/ q = d)
                           /\ (q < gather)' <=> q < gather
                           /\ ~Length(q) /\ ~Length(q)'
      BY <1>1, <1>2, <1>6, <1>9 DEF Begun, Length
    <2>2. ASSUME NEW q \in Ranks, q # d
          PROVE  AsParent(0, q)
      <3>1. Begun(q)' <=> Begun(q)
        BY <2>1, <2>2
      <3>2. /\ Once(Begun(q))' = Once(Begun(q))
            /\ Once(q < gather)' = Once(q < gather)
            /\ Once(Length(q))' = Once(Length(q))
        BY <2>1, <3>1 DEF Once
      <3> QED
        BY <1>9, <3>2, AtRank0 DEF AsParent
    <2>3. ~Begun(d)
      BY <1>1, <1>2, <1>8 DEF Begun
    <2>4. /\ Once(Begun(d)) = 0 /\ Once(Begun(d))' = 1
          /\ Once(d < gather)' = Once(d < gather)
          /\ Once(Length(d))' = Once(Length(d))
      BY <2>1, <2>3 DEF Once
    <2>5. PICK tree \in {0, 4} :
              /\ DownSent(0, d) = tree /\ DownSent(0, d)' = tree + 1
              /\ UpTaken(0, d)' = UpTaken(0, d)
      BY <1>9, <2>4, AtRank0
    <2>6. /\ DownSent(0, d)' = DownSent(0, d) + 1 /\ UpTaken(0, d)' = UpTaken(0, d)
          /\ m.kind = DownKinds[DownSent(0, d) + 1]
      BY <1>4, <2>5 DEF DownKinds
    <2> QED
      BY <1>1, <1>7, <1>8, <1>9, <2>2, <2>6, NoneBefore, SendDown, Zenon
  <1> QED
    BY <1>1, <1>6, <1>7, <1>9, <1>10, KeepsPInv

LEMMA ReceiveBlockLengthMoves ==
    ASSUME PInv, ReceiveBlockLength
    PROVE  PInv'
  <1>1. /\ Forms /\ Mail /\ Protocol /\ 0 \in Ranks /\ pc[0] = "blocklen"
        /\ gather \in Nat /\ gather >= 1 /\ gather \in Ranks
    BY RootFacts, RankFacts DEF PInv, ReceiveBlockLength, Forms, Placed
  <1>2. PICK d \in Ranks : d = gather
    BY <1>1
  <1>3. chan[d, 0] # <<>> /\ chan' = [chan EXCEPT ![<<d, 0>>] = Tail(chan[d, 0])]
    BY <1>2 DEF ReceiveBlockLength, Receive, Arrived
  <1>4. /\ pc' = [pc EXCEPT ![0] = "block"] /\ gather' = gather
        /\ UNCHANGED <<db, lister, mask, objs, merged, numStrings, child>>
    BY DEF ReceiveBlockLength, GoTo, mergeVars, treeVars
  <1>5. /\ Mail' /\ chan'[d, 0] = Tail(chan[d, 0])
        /\ \A a, b \in Ranks : a # d \/ b # 0 => chan'[a, b] = chan[a, b]
    BY <1>1, <1>3, <1>4, TakeChan
  <1>6. d # 0 /\ d \in Nat /\ 0 < d
    BY <1>1, <1>2
  <1>7. /\ pc'[0] = "block" /\ OthersAsWere(0) /\ Forms'
        /\ Placed(0)' /\ Family(0)' /\ Fits(0)'
        /\ \A q \in Ranks : /\ TreeDownSent(0, q)' = TreeDownSent(0, q)
                            /\ TreeUpTaken(0, q)' = TreeUpTaken(0, q)
                            /\ Edge(0, q) => /\ TreeDownSent(0, q) = 4
                                             /\ TreeUpTaken(0, q) = 4
    <2>1. Collects("block")
      BY <1>1, <1>4 DEF Collects, AtRoot
    <2>2. gather' \in 1 .. NumRanks /\ gather' \in Ranks
      BY <1>1, <1>4 DEF Forms
    <2>3. \A s, b \in Ranks : (s = b \/ (s # 0 /\ b # 0)) => chan'[s, b] = chan[s, b]
      BY <1>5, <1>6
    <2> QED
      BY <2>1, <2>2, <2>3, CollectsFacts
  <1>8. Protocol'
    <2>1. \A q \in Ranks : /\ Begun(q)' <=> Begun(q)
                           /\ (q < gather)' <=> q < gather
                           /\ ~Length(q) /\ (Length(q)' <=> q = d)
      BY <1>1, <1>2, <1>4, <1>7 DEF Begun, Length
    <2>2. ASSUME NEW q \in Ranks, q # d
          PROVE  AsParent(0, q)
      <3>1. /\ Once(Begun(q))' = Once(Begun(q))
            /\ Once(q < gather)' = Once(q < gather)
            /\ Once(Length(q))' = Once(Length(q))
        BY <2>1, <2>2 DEF Once
      <3> QED
        BY <1>7, <3>1, AtRank0 DEF AsParent
    <2>3. /\ Once(Begun(d))' = Once(Begun(d))
          /\ Once(d < gather)' = 0 /\ Once(d < gather) = 0
          /\ Once(Length(d)) = 0 /\ Once(Length(d))' = 1
      <3>1. ~(d < gather)
        BY <1>1, <1>2
      <3> QED
        BY <2>1, <3>1 DEF Once
    <2>4. DownSent(0, d)' = DownSent(0, d) /\ UpTaken(0, d)' = UpTaken(0, d) + 1
      BY <1>7, <2>3, AtRank0
    <2> QED
      BY <1>1, <1>3, <1>5, <1>6, <1>7, <2>2, <2>4, NoneBefore, TakeUp, Zenon
  <1> QED
    BY <1>1, <1>4, <1>5, <1>7, <1>8, KeepsPInv

LEMMA WriteBlockMoves ==
    ASSUME PInv, WriteBlock
    PROVE  PInv'
  <1>1. /\ Forms /\ Mail /\ Protocol /\ 0 \in Ranks /\ pc[0] = "block"
        /\ gather \in Nat /\ gather >= 1 /\ gather \in Ranks
    BY RootFacts, RankFacts, SMTT(40) DEF PInv, WriteBlock, Forms, Placed
  <1>2. PICK d \in Ranks : d = gather
    BY <1>1
  <1>3. chan[d, 0] # <<>> /\ chan' = [chan EXCEPT ![<<d, 0>>] = Tail(chan[d, 0])]
    BY <1>2 DEF WriteBlock, Receive, Arrived
  <1>4. /\ pc' = [pc EXCEPT ![0] = "gather"] /\ gather' = gather + 1
        /\ UNCHANGED <<db, lister, mask, objs, merged, numStrings, child>>
    BY DEF WriteBlock, GoTo, treeVars
  <1>5. /\ Mail' /\ chan'[d, 0] = Tail(chan[d, 0])
        /\ \A a, b \in Ranks : a # d \/ b # 0 => chan'[a, b] = chan[a, b]
    BY <1>1, <1>3, <1>4, TakeChan
  <1>6. d # 0 /\ d \in Nat /\ 0 < d
    BY <1>1, <1>2
  <1>7. /\ pc'[0] = "gather" /\ OthersAsWere(0) /\ Forms'
        /\ Placed(0)' /\ Family(0)' /\ Fits(0)'
        /\ \A q \in Ranks : /\ TreeDownSent(0, q)' = TreeDownSent(0, q)
                            /\ TreeUpTaken(0, q)' = TreeUpTaken(0, q)
                            /\ Edge(0, q) => /\ TreeDownSent(0, q) = 4
                                             /\ TreeUpTaken(0, q) = 4
    <2>1. Collects("gather")
      BY <1>1, <1>4 DEF Collects, AtRoot
    <2>2. gather' \in 1 .. NumRanks
      BY <1>1, <1>4, RankFacts DEF Ranks
    <2>3. \A s, b \in Ranks : (s = b \/ (s # 0 /\ b # 0)) => chan'[s, b] = chan[s, b]
      BY <1>5, <1>6
    <2> QED
      BY <2>1, <2>2, <2>3, CollectsFacts
  <1>8. Protocol'
    <2>1. \A q \in Ranks : /\ Begun(q)' <=> Begun(q)
                           /\ (q < gather)' <=> (q < gather \/ q = d)
                           /\ (Length(q) <=> q = d) /\ ~Length(q)'
      <3>1. \A q \in Ranks : q < gather + 1 <=> (q < gather \/ q = gather)
        BY <1>1, RankFacts
      <3> QED
        BY <1>1, <1>2, <1>4, <1>7, <3>1 DEF Begun, Length
    <2>2. ASSUME NEW q \in Ranks, q # d
          PROVE  AsParent(0, q)
      <3>1. /\ Once(Begun(q))' = Once(Begun(q))
            /\ Once(q < gather)' = Once(q < gather)
            /\ Once(Length(q))' = Once(Length(q))
        BY <2>1, <2>2 DEF Once
      <3> QED
        BY <1>7, <3>1, AtRank0 DEF AsParent
    <2>3. /\ Once(Begun(d))' = Once(Begun(d))
          /\ Once(d < gather)' = 1 /\ Once(d < gather) = 0
          /\ Once(Length(d)) = 1 /\ Once(Length(d))' = 0
      <3>1. ~(d < gather)
        BY <1>1, <1>2
      <3> QED
        BY <2>1, <3>1 DEF Once
    <2>4. DownSent(0, d)' = DownSent(0, d) /\ UpTaken(0, d)' = UpTaken(0, d) + 1
      BY <1>7, <2>3, AtRank0
    <2> QED
      BY <1>1, <1>3, <1>5, <1>6, <1>7, <2>2, <2>4, NoneBefore, TakeUp, Zenon
  <1> QED
    BY <1>1, <1>4, <1>5, <1>7, <1>8, KeepsPInv

\* What all steps of another rank that sends its buffer have in common.
Delivers(r, to) ==
    /\ pc' = [pc EXCEPT ![r] = to]
    /\ to \in {"sendblock", "returned"} /\ pc[r] \in {"ready", "sendblock"}
    /\ UNCHANGED <<db, lister, mask, objs, merged, numStrings, child, gather>>

LEMMA DeliversFacts ==
    ASSUME PInv, NEW r \in Ranks, NEW to, Delivers(r, to),
           OtherChannels(r, 0)
    PROVE  /\ pc'[r] = to /\ OthersAsWere(r) /\ Forms' /\ r # 0
           /\ Placed(r)' /\ Family(r)' /\ Fits(r)'
           /\ \A q \in Ranks : AsParent(r, q)
           /\ TreeDownTaken(r)' = TreeDownTaken(r) /\ TreeDownTaken(r) = 4
           /\ TreeUpSent(r)' = TreeUpSent(r) /\ TreeUpSent(r) = 4
  <1>1. /\ Forms /\ Placed(r) /\ Family(r) /\ Fits(r)
        /\ pc[r] \in Late /\ to \in Late /\ to \in Places /\ r # 0
        /\ Len(objs[r]) \in Nat /\ child[r] \in Nat
    BY DEF PInv, Delivers, Forms, Late, AtRoot, Places, Listed, Placed
  <1>2. /\ pc'[r] = to /\ \A q \in Ranks : q # r => pc'[q] = pc[q]
        /\ pc' \in [Ranks -> Places]
    BY <1>1 DEF Forms, Delivers
  <1>3. /\ db' = db /\ lister' = lister /\ mask' = mask /\ objs' = objs
        /\ merged' = merged /\ numStrings' = numStrings /\ child' = child
        /\ gather' = gather
    BY DEF Delivers
  <1>4. OthersAsWere(r)
    <2>1. \A s, d \in Ranks : (s = d \/ (s # r /\ d # r)) => chan'[s, d] = chan[s, d]
      BY <1>1 DEF OtherChannels
    <2> QED
      BY <1>2, <1>3, <2>1 DEF OthersAsWere
  <1>5. Forms'
    BY <1>1, <1>2, <1>3 DEF Forms, Objects
  <1>6. Placed(r)'
    <2>1. /\ pc[r] \notin {"start", "buffer"} \cup Collecting
          /\ pc'[r] \notin {"start", "buffer"} \cup Collecting
      BY <1>1, <1>2 DEF Late, AtRoot, Collecting
    <2>2. /\ pc'[r] \notin AtRoot /\ pc'[r] \notin Waiting
          /\ pc'[r] \notin {"merge"} \cup Collecting \cup Waiting
      BY <1>2 DEF Delivers, AtRoot, Waiting, Collecting
    <2> QED
      BY <1>1, <1>2, <1>3, <2>1, <2>2 DEF Placed, Parent, Collecting
  <1>7. Family(r)' /\ Fits(r)'
    <2>1. pc[r] \notin {"start", "buffer"}
      BY <1>1 DEF Late, AtRoot
    <2>2. /\ objs'[r] = objs[r] /\ mask'[r] = mask[r] /\ child'[r] = child[r]
          /\ numStrings' = numStrings /\ pc'[r] \in Late
      BY <1>1, <1>2, <1>3
    <2> QED
      BY <1>1, <2>1, <2>2, FamilyStays, FitsStays
  <1>8. /\ \A q \in Ranks : /\ TreeDownSent(r, q)' = TreeDownSent(r, q)
                            /\ TreeUpTaken(r, q)' = TreeUpTaken(r, q)
        /\ TreeDownTaken(r)' = TreeDownTaken(r) /\ TreeUpSent(r)' = TreeUpSent(r)
    BY <1>1, <1>2, <1>3, LateStays
  <1>9. \A q \in Ranks : AsParent(r, q)
    BY <1>1, <1>8 DEF AsParent, DownSent, UpTaken, InTree, Once
  <1>10. TreeDownTaken(r) = 4 /\ TreeUpSent(r) = 4
    BY <1>1, CallDone
  <1> QED
    BY <1>1, <1>2, <1>4, <1>5, <1>6, <1>7, <1>8, <1>9, <1>10

\* The counts of such a rank: they change with respect to rank 0 only.
Going(r) == pc[r] \in {"sendblock", "returned"}
Gone(r) == pc[r] = "returned"

LEMMA AtSender ==
    ASSUME NEW r, NEW q,
           TreeDownTaken(r)' = TreeDownTaken(r), TreeDownTaken(r) = 4,
           TreeUpSent(r)' = TreeUpSent(r), TreeUpSent(r) = 4
    PROVE  /\ q # 0 => AsChild(r, q)
           /\ \E tree \in {0, 4} :
                  /\ tree = IF Edge(0, r) THEN 4 ELSE 0
                  /\ DownTaken(0, r) = tree + Once(Going(r))
                  /\ DownTaken(0, r)' = tree + Once(Going(r))'
                  /\ UpSent(0, r) = tree + (Once(Going(r)) + Once(Gone(r)))
                  /\ UpSent(0, r)' = tree + (Once(Going(r)) + Once(Gone(r)))'
  <1>1. q # 0 => AsChild(r, q)
    BY DEF AsChild, DownTaken, UpSent, InTree, Once
  <1>2. PICK tree \in {0, 4} : tree = IF Edge(0, r) THEN 4 ELSE 0
    OBVIOUS
  <1> QED
    BY <1>1, <1>2 DEF DownTaken, UpSent, InTree, Once, Going, Gone

LEMMA SendBlockLengthMoves ==
    ASSUME PInv, NEW r \in Ranks, SendBlockLength(r)
    PROVE  PInv'
  <1>1. /\ Forms /\ Mail /\ Protocol /\ 0 \in Ranks /\ pc[r] = "ready"
        /\ r \in Nat /\ r # 0 /\ 0 < r
    BY RootFacts, RankFacts DEF PInv, SendBlockLength, Placed
  <1>2. PICK m : m = Msg("len", Len(buffer[r]))
    OBVIOUS
  <1>3. m.kind = "len"
    BY <1>2, MsgFields
  <1>4. PICK q1, q2 : q1 = Tail(chan[0, r]) /\ q2 = Append(chan[r, 0], m)
    OBVIOUS
  <1>5. chan' = [chan EXCEPT ![<<0, r>>] = q1, ![<<r, 0>>] = q2]
    <2>1. chan' = [chan EXCEPT ![<<0, r>>] = Tail(@), ![<<r, 0>>] = Append(@, m)]
      BY <1>2 DEF SendBlockLength
    <2>2. <<0, r>> # <<r, 0>>
      BY <1>1, Zenon
    <2> QED
      BY <1>4, <2>1, <2>2
  <1>6. /\ pc' = [pc EXCEPT ![r] = "sendblock"] /\ gather' = gather
        /\ UNCHANGED <<db, lister, mask, objs, merged, numStrings, child>>
        /\ chan[0, r] # <<>>
    BY DEF SendBlockLength, GoTo, mergeVars, treeVars, Arrived
  <1>7. /\ AllFit(chan[0, r], numStrings[0], numStrings[r])
        /\ AllFit(chan[r, 0], numStrings[r], numStrings[0])
        /\ Listed(chan[0, r]) /\ Listed(chan[r, 0])
    BY <1>1 DEF Mail, AllFit
  <1>8. /\ Mail' /\ chan'[0, r] = q1 /\ chan'[r, 0] = q2 /\ OtherChannels(0, r)
    <2>1. MessageFits(m, numStrings[r], numStrings[0])
      BY <1>3 DEF MessageFits
    <2>2. AllFit(q1, numStrings[0], numStrings[r])
      BY <1>4, <1>6, <1>7, TailFits
    <2>3. AllFit(q2, numStrings[r], numStrings[0])
      BY <1>4, <1>7, <2>1, AppendFits
    <2> QED
      BY <1>1, <1>5, <1>6, <2>2, <2>3, ChanSetTwo
  <1>9. OtherChannels(r, 0)
    BY <1>8 DEF OtherChannels
  <1>10. /\ pc'[r] = "sendblock" /\ OthersAsWere(r) /\ Forms'
         /\ Placed(r)' /\ Family(r)' /\ Fits(r)'
         /\ \A q \in Ranks : AsParent(r, q)
         /\ TreeDownTaken(r)' = TreeDownTaken(r) /\ TreeDownTaken(r) = 4
         /\ TreeUpSent(r)' = TreeUpSent(r) /\ TreeUpSent(r) = 4
    <2>1. Delivers(r, "sendblock")
      BY <1>1, <1>6 DEF Delivers
    <2> QED
      BY <1>9, <2>1, DeliversFacts
  <1>11. Protocol'
    <2>1. \A q \in Ranks : q # 0 /\ q < r => AsChild(r, q)
      BY <1>10, AtSender
    <2>2. /\ Once(Going(r)) = 0 /\ Once(Going(r))' = 1
          /\ Once(Gone(r)) = 0 /\ Once(Gone(r))' = 0
      BY <1>1, <1>10 DEF Once, Going, Gone
    <2>3. PICK tree \in {0, 4} :
              /\ DownTaken(0, r) = tree /\ DownTaken(0, r)' = tree + 1
              /\ UpSent(0, r) = tree /\ UpSent(0, r)' = tree + 1
      BY <1>10, <2>2, AtSender
    <2>4. /\ DownTaken(0, r)' = DownTaken(0, r) + 1
          /\ UpSent(0, r)' = UpSent(0, r) + 1
      BY <2>3
    <2>5. /\ Numbered(chan[0, r], DownTaken(0, r), DownSent(0, r), DownKinds)
          /\ Numbered(chan[r, 0], UpTaken(0, r), UpSent(0, r), UpKinds(0, r))
      BY <1>1 DEF Protocol, Channels
    <2>6. /\ DownTaken(0, r) \in Nat /\ DownSent(0, r) \in Nat
          /\ UpTaken(0, r) \in Nat /\ UpSent(0, r) \in Nat
      BY CountTypes
    <2>7. Numbered(Tail(chan[0, r]), DownTaken(0, r) + 1, DownSent(0, r), DownKinds)
      BY <1>6, <1>7, <2>5, <2>6, NumberedTail
    <2>8. m.kind = UpKinds(0, r)[UpSent(0, r) + 1]
      BY <1>3, <2>3 DEF UpKinds
    <2>9. Numbered(Append(chan[r, 0], m), UpTaken(0, r), UpSent(0, r) + 1,
                   UpKinds(0, r))
      BY <1>7, <2>5, <2>6, <2>8, NumberedAppend
    <2>10. /\ Numbered(chan'[0, r], DownTaken(0, r)', DownSent(0, r), DownKinds)
           /\ Numbered(chan'[r, 0], UpTaken(0, r), UpSent(0, r)', UpKinds(0, r))
      BY <1>4, <1>8, <2>4, <2>7, <2>9, Zenon
    <2> QED
      BY <1>1, <1>9, <1>10, <2>1, <2>10, WithParent, Zenon
  <1> QED
    BY <1>6, <1>8, <1>10, <1>11, KeepsPInv

LEMMA SendBlockMoves ==
    ASSUME PInv, NEW r \in Ranks, SendBlock(r)
    PROVE  PInv'
  <1>1. /\ Forms /\ Mail /\ Protocol /\ 0 \in Ranks /\ pc[r] = "sendblock"
        /\ r \in Nat /\ r # 0 /\ 0 < r
    BY RootFacts, RankFacts DEF PInv, SendBlock, Placed
  <1>2. PICK m : m = Msg("block", buffer[r])
    OBVIOUS
  <1>3. m.kind = "block"
    BY <1>2, MsgFields
  <1>4. chan' = [chan EXCEPT ![<<r, 0>>] = Append(chan[r, 0], m)]
    BY <1>2 DEF SendBlock, Send
  <1>5. /\ pc' = [pc EXCEPT ![r] = "returned"] /\ gather' = gather
        /\ UNCHANGED <<db, lister, mask, objs, merged, numStrings, child>>
    BY DEF SendBlock, GoTo, mergeVars, treeVars
  <1>6. /\ Mail' /\ chan'[r, 0] = Append(chan[r, 0], m)
        /\ \A a, b \in Ranks : a # r \/ b # 0 => chan'[a, b] = chan[a, b]
    <2>1. MessageFits(m, numStrings[r], numStrings[0])
      BY <1>3 DEF MessageFits
    <2> QED
      BY <1>1, <1>4, <1>5, <2>1, PutChan
  <1>7. /\ pc'[r] = "returned" /\ OthersAsWere(r) /\ Forms'
        /\ Placed(r)' /\ Family(r)' /\ Fits(r)'
        /\ \A q \in Ranks : AsParent(r, q)
        /\ TreeDownTaken(r)' = TreeDownTaken(r) /\ TreeDownTaken(r) = 4
        /\ TreeUpSent(r)' = TreeUpSent(r) /\ TreeUpSent(r) = 4
    <2>1. Delivers(r, "returned")
      BY <1>1, <1>5 DEF Delivers
    <2>2. OtherChannels(r, 0)
      BY <1>6 DEF OtherChannels
    <2> QED
      BY <2>1, <2>2, DeliversFacts
  <1>8. Protocol'
    <2>1. \A q \in Ranks : q # 0 /\ q < r => AsChild(r, q)
      BY <1>7, AtSender
    <2>2. /\ Once(Going(r)) = 1 /\ Once(Going(r))' = 1
          /\ Once(Gone(r)) = 0 /\ Once(Gone(r))' = 1
      BY <1>1, <1>7 DEF Once, Going, Gone
    <2>3. PICK tree \in {0, 4} :
              /\ tree = IF Edge(0, r) THEN 4 ELSE 0
              /\ DownTaken(0, r) = tree + 1 /\ DownTaken(0, r)' = tree + 1
              /\ UpSent(0, r) = tree + 1 /\ UpSent(0, r)' = tree + 2
      BY <1>7, <2>2, AtSender
    <2>4. /\ DownTaken(0, r)' = DownTaken(0, r)
          /\ UpSent(0, r)' = UpSent(0, r) + 1
      BY <2>3
    <2>5. m.kind = UpKinds(0, r)[UpSent(0, r) + 1]
      <3>1. CASE tree = 0
        <4>1. UpSent(0, r) + 1 = 2 /\ ~Edge(0, r)
          BY <2>3, <3>1
        <4> QED
          BY <1>3, <4>1 DEF UpKinds
      <3>2. CASE tree = 4
        <4>1. UpSent(0, r) + 1 = 6
          BY <2>3, <3>2
        <4> QED
          BY <1>3, <4>1 DEF UpKinds
      <3> QED
        BY <3>1, <3>2
    <2> QED
      BY <1>1, <1>6, <1>7, <2>1, <2>4, <2>5, SendUp, Zenon
  <1> QED
    BY <1>5, <1>6, <1>7, <1>8, KeepsPInv

\* Another thread registers an event: databases only grow.
LEMMA RegisterMoves ==
    ASSUME PInv, NEW r \in Ranks, Register(r), UNCHANGED mergeVars
    PROVE  PInv'
  <1>1. /\ Forms /\ Mail /\ Protocol
        /\ \A q \in Ranks : Placed(q) /\ Family(q) /\ Fits(q)
    BY DEF PInv
  <1>2. PICK e \in NewEntries :
            db' = [db EXCEPT ![lister[r]][r] = Append(@, e)]
    BY DEF Register
  <1>3. e \in Entries
    BY UnifyAssumption
  <1>4. PICK l \in Listers : l = lister[r]
    BY <1>1 DEF Forms
  <1>5. db \in [Listers -> [Ranks -> Seq(Entries)]] /\ db[l][r] \in Seq(Entries)
    BY <1>1 DEF Forms
  <1>6. PICK q2 : q2 = Append(db[l][r], e)
    OBVIOUS
  <1>7. q2 \in Seq(Entries) /\ Len(q2) = Len(db[l][r]) + 1
    BY <1>3, <1>5, <1>6, AppendProperties
  <1>8. db' = [db EXCEPT ![l][r] = q2]
    BY <1>2, <1>4, <1>6
  <1>9. db' \in [Listers -> [Ranks -> Seq(Entries)]]
    BY <1>5, <1>7, <1>8
  <1>10. \A k \in Listers, q \in Ranks :
             /\ Len(db[k][q]) \in Nat /\ Len(db'[k][q]) \in Nat
             /\ Len(db[k][q]) <= Len(db'[k][q])
    <2>1. SUFFICES ASSUME NEW k \in Listers, NEW q \in Ranks
                   PROVE  /\ Len(db[k][q]) \in Nat /\ Len(db'[k][q]) \in Nat
                          /\ Len(db[k][q]) <= Len(db'[k][q])
      OBVIOUS
    <2>2. Len(db[k][q]) \in Nat /\ Len(db'[k][q]) \in Nat
      <3>1. db[k][q] \in Seq(Entries) /\ db'[k][q] \in Seq(Entries)
        BY <1>5, <1>9
      <3> QED
        BY <3>1, LenProperties
    <2>3. CASE k = l /\ q = r
      <3>1. db'[k][q] = q2
        BY <1>5, <1>8, <2>3
      <3> QED
        BY <1>7, <2>2, <2>3, <3>1
    <2>4. CASE ~(k = l /\ q = r)
      <3>1. db'[k][q] = db[k][q]
        BY <1>5, <1>8, <2>4
      <3> QED
        BY <2>2, <3>1
    <2> QED
      BY <2>3, <2>4
  <1>11. /\ pc' = pc /\ mask' = mask /\ child' = child /\ lister' = lister
         /\ objs' = objs /\ gather' = gather /\ numStrings' = numStrings
         /\ merged' = merged /\ chan' = chan
    BY DEF Register, mergeVars, treeVars
  <1>12. Forms'
    BY <1>1, <1>9, <1>11 DEF Forms, Objects
  <1>13. OthersAsWere(r)
    BY <1>11 DEF OthersAsWere
  <1>14. Protocol'
    <2>1. \A q \in Ranks : AsParent(r, q) /\ AsChild(r, q)
      BY <1>11, ParentCounts, ChildCounts DEF AsParent, AsChild
    <2> QED
      BY <1>1, <1>11, <1>13, <2>1, Silent
  <1>15. ASSUME NEW q \in Ranks
         PROVE  Placed(q)' /\ Family(q)' /\ Fits(q)'
    <2>1. Placed(q)'
      BY <1>1, <1>11 DEF Placed, Source, Parent
    <2>2. Family(q)'
      BY <1>1, <1>11 DEF Family
    <2>3. Fits(q)'
      <3>1. lister[q] \in Listers
        BY <1>1 DEF Forms
      <3>2. /\ Len(db[lister[q]][q]) \in Nat /\ Len(db'[lister[q]][q]) \in Nat
            /\ Len(db[lister[q]][q]) <= Len(db'[lister[q]][q])
        BY <1>10, <3>1
      <3>3. pc[q] \notin {"start", "buffer"} =>
                Len(objs[q][1].strings) \in Nat
        <4>1. SUFFICES ASSUME pc[q] \notin {"start", "buffer"}
                       PROVE  Len(objs[q][1].strings) \in Nat
          OBVIOUS
        <4>2. 1 \in 1 .. Len(objs[q])
          BY <1>1, <4>1 DEF Family, Forms, Listed
        <4>3. objs[q][1].strings \in Seq(Names)
          BY <1>1, <4>2 DEF Forms, Objects, Formed
        <4> QED
          BY <4>3, LenProperties
      <3>4. PICK n : n = Len(objs[q][1].strings)
        OBVIOUS
      <3>5. PICK b : b = Len(db[lister[q]][q])
        OBVIOUS
      <3>6. PICK c : c = Len(db'[lister[q]][q])
        OBVIOUS
      <3>7. pc[q] \in {"tree", "len", "names", "merge", "ok", "send"} => n <= c
        <4>1. SUFFICES ASSUME pc[q] \in {"tree", "len", "names", "merge", "ok",
                                         "send"}
                       PROVE  n <= c
          OBVIOUS
        <4>2. n <= b
          BY <1>1, <3>4, <3>5, <4>1, Zenon DEF Fits
        <4>3. n \in Nat
          BY <3>3, <3>4, <4>1
        <4>4. b \in Nat /\ c \in Nat /\ b <= c
          BY <3>2, <3>5, <3>6, Zenon
        <4> QED
          BY <4>2, <4>3, <4>4
      <3>8. pc[q] \notin {"start", "buffer"} =>
               \A k \in 2 .. Len(objs[q]) : k >= child[q] =>
                   Len(objs[q][k].mapping) <= numStrings[objs[q][k].rank]
        BY <1>1, Zenon DEF Fits
      <3>9. n = Len(objs'[q][1].strings) /\ c = Len(db'[lister'[q]][q])
        BY <1>11, <3>4, <3>6, Zenon
      <3> QED
        BY <1>11, <3>7, <3>8, <3>9, Zenon DEF Fits
    <2> QED
      BY <2>1, <2>2, <2>3
  <1> QED
    BY <1>1, <1>11, <1>12, <1>14, <1>15, SameMail DEF PInv

LEMMA StutterKeeps ==
    ASSUME PInv,
           UNCHANGED <<db, lister, pc, mask, objs, merged, numStrings, child, chan,
                       gather>>
    PROVE  PInv'
  <1>1. /\ pc' = pc /\ mask' = mask /\ child' = child /\ lister' = lister
        /\ objs' = objs /\ gather' = gather /\ numStrings' = numStrings
        /\ merged' = merged /\ chan' = chan /\ db' = db
    OBVIOUS
  <1>2. /\ Forms /\ Mail /\ Protocol
        /\ \A q \in Ranks : Placed(q) /\ Family(q) /\ Fits(q)
    BY DEF PInv
  <1>3. Forms'
    BY <1>1, <1>2 DEF Forms, Objects
  <1>4. PICK r \in Ranks : r = 0
    BY RootFacts
  <1>5. Protocol'
    <2>1. \A q \in Ranks : AsParent(r, q) /\ AsChild(r, q)
      BY <1>1, ParentCounts, ChildCounts DEF AsParent, AsChild
    <2>2. OthersAsWere(r)
      BY <1>1 DEF OthersAsWere
    <2> QED
      BY <1>1, <1>2, <2>1, <2>2, Silent
  <1>6. ASSUME NEW q \in Ranks
        PROVE  Placed(q)' /\ Family(q)' /\ Fits(q)'
    <2>1. Placed(q)'
      BY <1>1, <1>2 DEF Placed, Source, Parent
    <2>2. Family(q)'
      BY <1>1, <1>2 DEF Family
    <2>3. Fits(q)'
      BY <1>1, <1>2 DEF Fits
    <2> QED
      BY <2>1, <2>2, <2>3
  <1> QED
    BY <1>1, <1>2, <1>3, <1>5, <1>6, SameMail DEF PInv

LEMMA InitPInv ==
    ASSUME MergeInit
    PROVE  PInv
  <1>1. /\ db \in Databases /\ lister = [r \in Ranks |-> "functions"]
        /\ pc = [r \in Ranks |-> "start"] /\ mask = [r \in Ranks |-> 1]
        /\ objs = [r \in Ranks |-> <<>>] /\ merged = [r \in Ranks |-> <<>>]
        /\ numStrings = [r \in Ranks |-> 0] /\ child = [r \in Ranks |-> 2]
        /\ chan = [p \in Ranks \X Ranks |-> <<>>] /\ gather = 1
    BY DEF MergeInit, Init
  <1>2. Forms
    <2>1. db \in [Listers -> [Ranks -> Seq(Entries)]]
      BY <1>1, UnifyAssumption
    <2>2. <<>> \in Seq(Names)
      BY EmptySeq
    <2>3. mask \in [Ranks -> Masks]
      BY <1>1, MaskFacts
    <2>4. 1 \in 1 .. NumRanks
      BY UnifyAssumption
    <2>5. \A r \in Ranks : objs[r] = <<>>
      BY <1>1
    <2>6. ASSUME NEW r \in Ranks
          PROVE  Listed(objs[r]) /\ \A k \in Objects(r) : Formed(objs[r][k])
      <3>1. Listed(objs[r]) /\ Len(objs[r]) = 0
        BY <2>5, EmptyListed
      <3>2. \A k : k \notin 1 .. 0
        OBVIOUS
      <3> QED
        BY <3>1, <3>2 DEF Objects
    <2>7. /\ lister \in [Ranks -> Listers] /\ pc \in [Ranks -> Places]
          /\ child \in [Ranks -> Nat] /\ numStrings \in [Ranks -> Nat]
          /\ merged \in [Ranks -> Seq(Names)]
          /\ objs = [r \in Ranks |-> objs[r]]
      BY <1>1, <2>2 DEF Listers, Places
    <2> QED
      BY <1>1, <2>1, <2>3, <2>4, <2>6, <2>7 DEF Forms
  <1>3. Mail
    <2>1. \A s, d \in Ranks : chan[s, d] = <<>>
      BY <1>1
    <2>2. \A up, down : AllFit(<<>>, up, down)
      <3>1. \A i : i \notin 1 .. 0
        OBVIOUS
      <3> QED
        BY <3>1, EmptyListed DEF AllFit
    <2>3. chan = [e \in Ranks \X Ranks |-> chan[e]]
      BY <1>1
    <2> QED
      BY <2>1, <2>2, <2>3 DEF Mail
  <1>4. Protocol
    <2>1. \A s, d \in Ranks : chan[s, d] = <<>>
      BY <1>1
    <2>2. \A kinds : Numbered(<<>>, 0, 0, kinds)
      <3>1. \A i : i \notin 1 .. 0
        OBVIOUS
      <3> QED
        BY <3>1, EmptyListed DEF Numbered
    <2>3. ASSUME NEW p \in Ranks, NEW c \in Ranks, p < c
          PROVE  /\ DownTaken(p, c) = 0 /\ DownSent(p, c) = 0
                 /\ UpTaken(p, c) = 0 /\ UpSent(p, c) = 0
      <3>1. /\ pc[p] = "start" /\ pc[c] = "start" /\ "start" \in Early
            /\ Call(p) = 0 /\ Call(c) = 0
        BY <1>1 DEF Early, Call
      <3>2. p \in Nat /\ c \in Nat /\ ~(c < gather)
        BY <1>1, <2>3, RankFacts
      <3>3. /\ TreeDownSent(p, c) = 0 /\ TreeUpTaken(p, c) = 0
        BY <3>1
        DEF TreeDownSent, TreeUpTaken, Asked, Received, TableSent, Once
      <3>4. /\ TreeDownTaken(c) = 0 /\ TreeUpSent(c) = 0
        BY <3>1 DEF TreeDownTaken, TreeUpSent, Once
      <3>5. p = 0 => pc[0] = "start"
        BY <3>1
      <3> QED
        BY <3>1, <3>2, <3>3, <3>4, <3>5
        DEF DownSent, DownTaken, UpSent, UpTaken, InTree, Once
    <2> QED
      BY <2>1, <2>2, <2>3 DEF Protocol, Channels
  <1>5. ASSUME NEW r \in Ranks
        PROVE  Placed(r) /\ Family(r) /\ Fits(r)
    <2>1. pc[r] = "start" /\ child[r] = 2 /\ gather = 1
      BY <1>1
    <2> QED
      BY <2>1 DEF Placed, Family, Fits, Late, AtRoot, Collecting, Waiting
  <1> QED
    BY <1>2, <1>3, <1>4, <1>5 DEF PInv

LEMMA NextPInv ==
    ASSUME PInv, [ProfileNext]_allVars
    PROVE  PInv'
  <1>1. ASSUME NEW r \in Ranks, UnifyStep(r), UNCHANGED mergeVars
        PROVE  PInv'
    <2>1. CASE FillBufferCrash(r)
      <3>1. UNCHANGED <<db, lister, pc, mask, objs, merged, numStrings, child, chan,
                        gather>>
        BY <1>1, <2>1 DEF FillBufferCrash, treeVars, mergeVars
      <3> QED
        BY <3>1, StutterKeeps
    <2> QED
      BY <1>1, <2>1, StartMoves, FillBufferMoves, SkipChildMoves, AskChildMoves,
         ReceiveLengthMoves, ReceiveNamesMoves, EndTreeMoves, MergeNextMoves,
         MergeEndMoves, SendLengthMoves, SendNamesMoves, ReceiveMapMoves,
         SendMapMoves, ReturnMoves
      DEF UnifyStep
  <1>2. ASSUME NEW r \in Ranks, RankStep(r)
        PROVE  PInv'
    <2>1. CASE UnifyStep(r) /\ UNCHANGED mergeVars
      BY <1>1, <2>1
    <2>2. CASE NextLister(r) \/ Snapshot(r) \/ Contribute(r)
      BY <2>2, NextListerMoves, LateSteps
    <2>3. CASE SendBlockLength(r) \/ SendBlock(r)
      BY <2>3, SendBlockLengthMoves, SendBlockMoves
    <2>4. CASE r = 0 /\ RootStep
      BY <2>4, LateSteps, AskRankMoves, ReceiveBlockLengthMoves, WriteBlockMoves
      DEF RootStep
    <2> QED
      BY <1>2, <2>1, <2>2, <2>3, <2>4 DEF RankStep
  <1>3. CASE ProfileNext
    BY <1>2, <1>3, RegisterMoves DEF ProfileNext
  <1>4. CASE UNCHANGED allVars
    BY <1>4, StutterKeeps DEF allVars, vars, mergeVars, treeVars
  <1> QED
    BY <1>3, <1>4

-----------------------------------------------------------------------------
(* What a rank waits for is what comes next.                               *)

\* The kinds of the messages, by their numbers.
LEMMA DownKindAt ==
    DownKinds[0 + 1] = "ok" /\ DownKinds[1 + 1] = "map"
    /\ DownKinds[2 + 1] = "ok" /\ DownKinds[3 + 1] = "map"
    /\ DownKinds[4 + 1] = "ok"
  BY DEF DownKinds

LEMMA UpKindAt ==
    ASSUME NEW p, NEW c
    PROVE  /\ UpKinds(p, c)[0 + 1] = "len" /\ UpKinds(p, c)[2 + 1] = "len"
           /\ UpKinds(p, c)[4 + 1] = "len" /\ UpKinds(p, c)[5 + 1] = "block"
           /\ Edge(p, c) => /\ UpKinds(p, c)[1 + 1] = "names"
                            /\ UpKinds(p, c)[3 + 1] = "names"
           /\ ~Edge(p, c) => UpKinds(p, c)[1 + 1] = "block"
  BY DEF UpKinds

\* How many messages a rank has taken when it waits for the next.
LEMMA TakenAtChild ==
    ASSUME NEW p, NEW r, Edge(p, r)
    PROVE  /\ pc[r] = "ok" => DownTaken(p, r) \in {0, 2}
           /\ pc[r] = "map" => DownTaken(p, r) \in {1, 3}
  <1>1. Call(r) \in {0, 1}
    BY DEF Call
  <1>2. pc[r] = "ok" => TreeDownTaken(r) \in {0, 2}
    BY <1>1 DEF TreeDownTaken, Once, Early
  <1>3. pc[r] = "map" => TreeDownTaken(r) \in {1, 3}
    BY <1>1 DEF TreeDownTaken, Once, Early, Collecting
  <1>4. pc[r] \in {"ok", "map"} => Once(p = 0 /\ pc[r] \in {"sendblock", "returned"}) = 0
    BY DEF Once
  <1> QED
    BY <1>2, <1>3, <1>4 DEF DownTaken, InTree

LEMMA TakenAtParent ==
    ASSUME NEW r, NEW d, d = r + mask[r], ~Received(r, d)
    PROVE  /\ pc[r] = "len" => TreeUpTaken(r, d) \in {0, 2}
           /\ pc[r] = "names" => TreeUpTaken(r, d) \in {1, 3}
  <1>1. Once(Received(r, d)) = 0 /\ Call(r) \in {0, 1}
    BY DEF Once, Call
  <1>2. /\ pc[r] = "len" => Once(pc[r] = "names" /\ d = r + mask[r]) = 0
        /\ pc[r] = "names" => Once(pc[r] = "names" /\ d = r + mask[r]) = 1
    BY DEF Once
  <1> QED
    BY <1>1, <1>2 DEF TreeUpTaken

LEMMA TakenAtSender ==
    ASSUME NEW r, pc[r] = "ready", TreeDownTaken(r) = 4
    PROVE  DownTaken(0, r) \in {0, 4}
  BY DEF DownTaken, InTree, Once

LEMMA NotReceived ==
    ASSUME NEW r \in Nat, NEW m \in Nat
    PROVE  ~((r + m) - r < m)
  OBVIOUS

LEMMA AfterRoot == \A r \in Ranks : r # 0 => 0 < r
  BY RankFacts

LEMMA CollectedFacts ==
    ASSUME Forms, gather \in Ranks
    PROVE  gather # 0
  BY DEF Forms

\* What rank 0 has taken from the rank whose buffer it collects.
LEMMA TakenByCollector ==
    ASSUME PInv, NEW g \in Ranks, g = gather, pc[0] \in {"blocklen", "block"}
    PROVE  \E tree \in {0, 4} :
               /\ tree = IF Edge(0, g) THEN 4 ELSE 0
               /\ UpTaken(0, g) = tree + Once(pc[0] = "block")
  <1>1. /\ Forms /\ Placed(0) /\ Family(0) /\ 0 \in Ranks
        /\ pc[0] \in {"done"} \cup Late /\ pc[0] \in Late
        /\ Len(objs[0]) \in Nat /\ child[0] \in Nat
    BY RootFacts DEF PInv, Forms, Late, AtRoot, Listed
  <1>2. Call(0) = 1
    BY <1>1, CallDone, Zenon
  <1>3. Edge(0, g) => TreeUpTaken(0, g) = 2 * Call(0) + 2
    BY <1>1, CallDone, Zenon
  <1>4. Edge(0, g) => TreeUpTaken(0, g) = 4
    BY <1>2, <1>3, TwoCalls, Zenon
  <1>5. PICK tree \in {0, 4} : tree = IF Edge(0, g) THEN 4 ELSE 0
    OBVIOUS
  <1>6. InTree(0, g, TreeUpTaken(0, g)) = tree
    BY <1>4, <1>5 DEF InTree
  <1>7. Once(0 = 0 /\ g < gather) = 0
    <2>1. g \in Nat /\ ~(g < gather)
      BY RankFacts
    <2> QED
      BY <2>1 DEF Once
  <1>8. /\ Once(0 = 0 /\ g = gather /\ pc[0] = "block") = Once(pc[0] = "block")
        /\ Once(pc[0] = "block") \in Nat
    BY DEF Once
  <1>9. UpTaken(0, g) = tree + Once(pc[0] = "block")
    BY <1>6, <1>7, <1>8 DEF UpTaken
  <1> QED
    BY <1>5, <1>9

LEMMA SmallSums == 0 + 0 = 0 /\ 4 + 0 = 4 /\ 0 + 1 = 1 /\ 4 + 1 = 5
  OBVIOUS

LEMMA CollectorGets ==
    ASSUME PInv, NEW g \in Ranks, g = gather, pc[0] \in {"blocklen", "block"},
           chan[g, 0] # <<>>
    PROVE  Head(chan[g, 0]).kind = IF pc[0] = "blocklen" THEN "len" ELSE "block"
  <1>1. Forms /\ Mail /\ Protocol /\ 0 \in Ranks
    BY RootFacts DEF PInv
  <1>2. 0 < g
    BY <1>1, CollectedFacts, AfterRoot, Zenon
  <1>3. Head(chan[g, 0]).kind = UpKinds(0, g)[UpTaken(0, g) + 1]
    BY <1>1, <1>2, NextUp, Zenon
  <1>4. PICK tree \in {0, 4} :
            /\ tree = IF Edge(0, g) THEN 4 ELSE 0
            /\ UpTaken(0, g) = tree + Once(pc[0] = "block")
    BY TakenByCollector, Zenon
  <1>5. CASE pc[0] = "blocklen"
    <2>1. UpTaken(0, g) = tree
      <3>1. Once(pc[0] = "block") = 0
        BY <1>5 DEF Once
      <3>2. tree = 0 \/ tree = 4
        OBVIOUS
      <3> QED
        BY <1>4, <3>1, <3>2, SmallSums, Zenon
    <2>2. UpKinds(0, g)[tree + 1] = "len"
      <3>1. tree = 0 \/ tree = 4
        OBVIOUS
      <3> QED
        BY <3>1, UpKindAt, Zenon
    <2> QED
      BY <1>3, <1>5, <2>1, <2>2, Zenon
  <1>6. CASE pc[0] = "block"
    <2>1. UpTaken(0, g) = tree + 1
      BY <1>4, <1>6 DEF Once
    <2>2. UpKinds(0, g)[(tree + 1) + 1] = "block"
      <3>1. CASE Edge(0, g)
        <4>1. tree + 1 = 5
          BY <1>4, <3>1, SmallSums, Zenon
        <4> QED
          BY <4>1, UpKindAt, Zenon
      <3>2. CASE ~Edge(0, g)
        <4>1. tree + 1 = 1
          BY <1>4, <3>2, SmallSums, Zenon
        <4> QED
          BY <3>2, <4>1, UpKindAt, Zenon
      <3> QED
        BY <3>1, <3>2, Zenon
    <2>3. pc[0] # "blocklen"
      BY <1>6
    <2> QED
      BY <1>3, <2>1, <2>2, <2>3, Zenon
  <1> QED
    BY <1>5, <1>6

\* A rank that waits for the go-ahead to deliver its buffer.
LEMMA SenderGets ==
    ASSUME PInv, NEW r \in Ranks, pc[r] = "ready", chan[0, r] # <<>>
    PROVE  Head(chan[0, r]).kind = "ok"
  <1>1. /\ Forms /\ Mail /\ Protocol /\ 0 \in Ranks /\ Placed(r) /\ Family(r)
    BY RootFacts DEF PInv
  <1>2. /\ pc[r] \in Late /\ Len(objs[r]) \in Nat /\ child[r] \in Nat
    BY <1>1 DEF Forms, Late, Listed
  <1>3. TreeDownTaken(r) = 4
    <2>1. Call(r) = 1 /\ TreeDownTaken(r) = 2 * Call(r) + 2
      BY <1>1, <1>2, CallDone, Zenon
    <2> QED
      BY <2>1, TwoCalls, Zenon
  <1>4. DownTaken(0, r) = 0 \/ DownTaken(0, r) = 4
    BY <1>3, TakenAtSender
  <1>5. 0 < r
    <2>1. r # 0
      BY <1>1 DEF Placed
    <2> QED
      BY <2>1, AfterRoot
  <1>6. Head(chan[0, r]).kind = DownKinds[DownTaken(0, r) + 1]
    BY <1>1, <1>5, NextDown, Zenon
  <1> QED
    BY <1>4, <1>6, DownKindAt, Zenon

\* A rank that waits for a child.
LEMMA ParentGets ==
    ASSUME PInv, NEW r \in Ranks, pc[r] \in {"len", "names"},
           NEW d \in Ranks, d = Source(r), chan[d, r] # <<>>
    PROVE  Head(chan[d, r]).kind = pc[r]
  <1>1. /\ Forms /\ Mail /\ Protocol /\ Placed(r) /\ Edge(r, d)
        /\ d = r + mask[r] /\ mask[r] \in Nat /\ r \in Nat
    BY MaskPositive, RankFacts DEF PInv, Forms, Placed, Source
  <1>2. ~Received(r, d)
    BY <1>1, NotReceived DEF Received
  <1>3. UpTaken(r, d) = TreeUpTaken(r, d)
    <2>1. pc[r] \in Unifying
      BY DEF Unifying, Early, Collecting
    <2> QED
      BY <1>1, <2>1, TreeCounts, Zenon
  <1>4. r < d
    BY <1>1, EdgeFacts, Zenon
  <1>5. Head(chan[d, r]).kind = UpKinds(r, d)[UpTaken(r, d) + 1]
    BY <1>1, <1>4, NextUp, Zenon
  <1>6. CASE pc[r] = "len"
    <2>1. UpTaken(r, d) = 0 \/ UpTaken(r, d) = 2
      <3>1. TreeUpTaken(r, d) \in {0, 2}
        BY <1>1, <1>2, <1>6, TakenAtParent, Zenon
      <3> QED
        BY <1>3, <3>1, Zenon
    <2> QED
      BY <1>5, <1>6, <2>1, UpKindAt, Zenon
  <1>7. CASE pc[r] = "names"
    <2>1. UpTaken(r, d) = 1 \/ UpTaken(r, d) = 3
      <3>1. TreeUpTaken(r, d) \in {1, 3}
        BY <1>1, <1>2, <1>7, TakenAtParent, Zenon
      <3> QED
        BY <1>3, <3>1, Zenon
    <2> QED
      BY <1>1, <1>5, <1>7, <2>1, UpKindAt, ZenonT(40)
  <1> QED
    BY <1>6, <1>7

\* A rank that waits for its parent.
LEMMA ChildGets ==
    ASSUME PInv, NEW r \in Ranks, pc[r] \in {"ok", "map"},
           NEW p \in Ranks, p = Parent(r), chan[p, r] # <<>>
    PROVE  /\ Head(chan[p, r]).kind = pc[r]
           /\ pc[r] = "map" => Len(Head(chan[p, r]).body) <= numStrings[r]
  <1>1. /\ Mail /\ Protocol /\ pc[r] \in Waiting
    BY DEF PInv, Waiting
  <1>2. Edge(p, r) /\ p < r
    BY <1>1, ParentFacts, EdgeFacts, Zenon
  <1>3. Head(chan[p, r]).kind = DownKinds[DownTaken(p, r) + 1]
    BY <1>1, <1>2, NextDown, Zenon
  <1>4. Head(chan[p, r]).kind = pc[r]
    <2>1. CASE pc[r] = "ok"
      <3>1. DownTaken(p, r) \in {0, 2}
        BY <1>2, <2>1, TakenAtChild, Zenon
      <3> QED
        BY <1>3, <2>1, <3>1, DownKindAt, Zenon
    <2>2. CASE pc[r] = "map"
      <3>1. DownTaken(p, r) \in {1, 3}
        BY <1>2, <2>2, TakenAtChild, Zenon
      <3> QED
        BY <1>3, <2>2, <3>1, DownKindAt, Zenon
    <2> QED
      BY <2>1, <2>2
  <1>5. MessageFits(Head(chan[p, r]), numStrings[p], numStrings[r])
    BY <1>1, TailFits, Zenon DEF Mail
  <1> QED
    BY <1>4, <1>5, Zenon DEF MessageFits

LEMMA PInvMatches ==
    ASSUME PInv
    PROVE  MessagesMatch
  <1>1. SUFFICES ASSUME NEW r \in Ranks, NEW w \in MergeAwaited(r)
                 PROVE  Matches(r, w[1], w[2])
    BY DEF MessagesMatch
  <1>2. Placed(r)
    BY DEF PInv
  <1>3. CASE pc[r] \in {"blocklen", "block"}
    <2>1. r = 0 /\ gather \in Ranks
      BY <1>2, <1>3 DEF Placed, AtRoot
    <2>2. w = <<gather, IF pc[0] = "blocklen" THEN "len" ELSE "block">>
      BY <1>1, <1>3, <2>1 DEF MergeAwaited
    <2>3. w[1] = gather /\ w[2] = (IF pc[0] = "blocklen" THEN "len" ELSE "block")
          /\ w[2] # "map"
      BY <2>2
    <2>4. chan[w[1], r] # <<>> => Head(chan[w[1], r]).kind = w[2]
      BY <1>3, <2>1, <2>3, CollectorGets
    <2> QED
      BY <2>3, <2>4 DEF Matches, Arrived
  <1>4. CASE pc[r] = "ready"
    <2>1. w = <<0, "ok">>
      BY <1>1, <1>4 DEF MergeAwaited
    <2>2. w[1] = 0 /\ w[2] = "ok"
      BY <2>1
    <2>3. chan[w[1], r] # <<>> => Head(chan[w[1], r]).kind = w[2]
      BY <1>4, <2>2, SenderGets
    <2> QED
      BY <2>2, <2>3 DEF Matches, Arrived
  <1>5. CASE pc[r] \in {"len", "names"}
    <2>1. w = <<Source(r), pc[r]>>
      BY <1>1, <1>5 DEF MergeAwaited, Awaited
    <2>2. PICK d \in Ranks : d = Source(r)
      BY <1>2, <1>5 DEF Placed
    <2>3. w[1] = d /\ w[2] = pc[r]
      BY <2>1, <2>2
    <2>4. chan[d, r] # <<>> => Head(chan[d, r]).kind = pc[r]
      BY <1>5, <2>2, ParentGets
    <2> QED
      BY <1>5, <2>3, <2>4 DEF Matches, Arrived
  <1>6. CASE pc[r] \in {"ok", "map"}
    <2>1. w = <<Parent(r), pc[r]>>
      BY <1>1, <1>6 DEF MergeAwaited, Awaited
    <2>2. PICK p \in Ranks : p = Parent(r)
      BY <1>6, ParentFacts DEF Waiting
    <2>3. w[1] = p /\ w[2] = pc[r]
      BY <2>1, <2>2
    <2>4. chan[p, r] # <<>> =>
             /\ Head(chan[p, r]).kind = pc[r]
             /\ pc[r] = "map" => Len(Head(chan[p, r]).body) <= numStrings[r]
      BY <1>6, <2>2, ChildGets
    <2> QED
      BY <2>3, <2>4 DEF Matches, Arrived, Body
  <1> QED
    BY <1>1, <1>3, <1>4, <1>5, <1>6 DEF MergeAwaited, Awaited

\* TauUnify.cpp, TauProfileMerge.cpp: all messages have the same tag, between
\* the same ranks in two unifications and when the buffers are collected, and
\* a rank with an eager MPI_Send may be far ahead of the one it has sent to;
\* still no rank ever takes a message for another, and a table that arrives
\* fits into the array its receiver has allocated, though that was sized from
\* the database again after the names had been sent.
THEOREM NoneMixedUp == MergeSpec => []MessagesMatch
  <1>1. MergeInit => PInv
    BY InitPInv
  <1>2. PInv /\ [ProfileNext]_allVars => PInv'
    BY NextPInv
  <1>3. PInv => MessagesMatch
    BY PInvMatches
  <1> QED
    BY <1>1, <1>2, <1>3, PTL DEF MergeSpec

-----------------------------------------------------------------------------
(***************************************************************************)
(* Names, through both calls.  Of the call that a rank is in, its tables   *)
(* lead where they do in one call (Placing); of one it has left, it has    *)
(* the result (Given).  The global list of a call is rank 0's merged list, *)
(* and the result of rank 0 when rank 0 has gone on.                       *)
(***************************************************************************)
Past(r, l) ==
    \/ lister[r] = l /\ pc[r] \in {"done"} \cup Late
    \/ l = "functions" /\ lister[r] = "atomics"

Global(l) == IF Past(0, l) THEN unifier[0][l].globalStrings ELSE merged[0]
Fixed(l) == Past(0, l) \/ (lister[0] = l /\ pc[0] = "down")

\* A table, up to a position, leads from a list to another and keeps the order.
Guides(table, upto, from, to) ==
    /\ Rises(table, upto)
    /\ \A j \in 1 .. upto : table[j] \in 1 .. Len(to) /\ to[table[j]] = from[j]

\* A sort map of entries of a database, and the names in its order.
Sorts(map, entries, strings) ==
    /\ Len(map) = Len(strings) /\ Len(map) <= Len(entries)
    /\ \A i \in 1 .. Len(map) : /\ map[i] \in 1 .. Len(map)
                                /\ entries[map[i]].name = strings[i]

Read(r) ==
    pc[r] \notin {"start", "buffer"} =>
        Sorts(sortMap[r], db[lister[r]][r], objs[r][1].strings)

Leading(r, o) ==
    /\ Len(o.mapping) = Len(o.strings) /\ o.idx <= Len(o.strings) + 1
    /\ pc[r] \in Collecting =>
           o.idx = 1 /\ \A j \in 1 .. Len(o.strings) : o.mapping[j] = j
    /\ pc[r] = "merge" => Guides(o.mapping, o.idx - 1, o.strings, merged[r])
    /\ pc[r] \in Waiting => Guides(o.mapping, Len(o.strings), o.strings, Up(r))
    /\ pc[r] = "down" =>
           Guides(o.mapping, Len(o.strings), o.strings, Global(lister[r]))

\* The children whose tables it has not sent wait for them.
Kin(r) ==
    pc[r] \notin {"start", "buffer"} => \A k \in 2 .. Len(objs[r]) : k >= child[r] =>
        \E c \in Ranks : /\ c = objs[r][k].rank /\ pc[c] = "map"
                         /\ lister[c] = lister[r] /\ objs[r][k].strings = Up(c)

Given(r, l) ==
    LET u == unifier[r][l] IN
    /\ ~Past(r, l) => u = NoUnifier
    /\ Past(r, l) =>
        /\ Past(0, l) /\ u.globalNumItems = Len(Global(l))
        /\ Len(u.mapping) = u.localNumItems
        /\ \E strings \in Seq(Names) :
            /\ u.localNumItems = Len(strings)
            /\ Sorts(u.sortMap, db[l][r], strings)
            /\ Guides(u.mapping, Len(strings), strings, Global(l))

Carried(s, d, m) ==
    /\ m.kind = "names" => pc[s] = "map" /\ m.body = Up(s)
    /\ m.kind = "map" =>
        /\ pc[d] = "map" /\ Fixed(lister[d]) /\ Len(m.body) = Len(Up(d))
        /\ Guides(m.body, Len(m.body), Up(d), Global(lister[d]))

RankNames(r) ==
    /\ Read(r)
    /\ pc[r] \notin {"start", "buffer"} => \A k \in Objects(r) : Leading(r, objs[r][k])
    /\ pc[r] = "merge" => r = 0 \/ Len(objs[r]) > 1
    /\ pc[r] = "down" => Fixed(lister[r])
    /\ Kin(r)
    /\ \A l \in Listers : Given(r, l)

NTypes ==
    /\ sortMap \in [Ranks -> Seq(Nat)]
    /\ unifier \in [Ranks -> [Listers -> Unifier]]
    /\ bcast \in [Listers -> Nat \cup {-1}]

\* The messages from a rank that another has not received.
Passing(s, d) == {chan[s, d][i] : i \in 1 .. Len(chan[s, d])}

Carrying == \A s, d \in Ranks : \A m \in Passing(s, d) : Carried(s, d, m)

\* What rank 0 has broadcast is the length of the global list.
Announced ==
    \A l \in Listers : bcast[l] # -1 => Past(0, l) /\ bcast[l] = Len(Global(l))

NInv ==
    /\ NTypes
    /\ \A r \in Ranks : RankNames(r)
    /\ Carrying
    /\ Announced


-----------------------------------------------------------------------------
(* What a step of a rank leaves alone.                                     *)

Rest(r) ==
    \A q \in Ranks : q # r =>
        /\ pc'[q] = pc[q] /\ lister'[q] = lister[q] /\ sortMap'[q] = sortMap[q]
        /\ objs'[q] = objs[q] /\ merged'[q] = merged[q]
        /\ child'[q] = child[q] /\ unifier'[q] = unifier[q]

LEMMA RestOfUnify ==
    ASSUME Forms, NTypes, NEW r \in Ranks, UnifyStep(r)
    PROVE  Rest(r) /\ db' = db /\ lister' = lister
  <1>1. /\ pc \in [Ranks -> Places] /\ merged \in [Ranks -> Seq(Names)]
        /\ child \in [Ranks -> Nat] /\ sortMap \in [Ranks -> Seq(Nat)]
        /\ unifier \in [Ranks -> [Listers -> Unifier]]
        /\ objs = [q \in Ranks |-> objs[q]]
    BY DEF Forms, NTypes
  <1> USE DEF treeVars, GoTo, Rest
  <1>2. CASE Start(r)
    BY <1>1, <1>2 DEF Start
  <1>15. CASE FillBuffer(r)
    BY <1>1, <1>15 DEF FillBuffer
  <1>16. CASE FillBufferCrash(r)
    BY <1>16 DEF FillBufferCrash
  <1>3. CASE SkipChild(r)
    BY <1>1, <1>3 DEF SkipChild
  <1>4. CASE AskChild(r)
    BY <1>1, <1>4 DEF AskChild
  <1>5. CASE ReceiveLength(r)
    BY <1>1, <1>5 DEF ReceiveLength
  <1>6. CASE ReceiveNames(r)
    BY <1>1, <1>6 DEF ReceiveNames
  <1>7. CASE EndTree(r)
    BY <1>1, <1>7 DEF EndTree
  <1>8. CASE MergeNext(r)
    BY <1>1, <1>8 DEF MergeNext
  <1>9. CASE MergeEnd(r)
    BY <1>1, <1>9 DEF MergeEnd
  <1>10. CASE SendLength(r)
    BY <1>1, <1>10 DEF SendLength
  <1>11. CASE SendNames(r)
    BY <1>1, <1>11 DEF SendNames
  <1>12. CASE ReceiveMap(r)
    BY <1>1, <1>12 DEF ReceiveMap
  <1>13. CASE SendMap(r)
    BY <1>1, <1>13 DEF SendMap
  <1>14. CASE Return(r)
    BY <1>1, <1>14 DEF Return
  <1> QED
    BY <1>2, <1>3, <1>4, <1>5, <1>6, <1>7, <1>8, <1>9, <1>10, <1>11, <1>12,
       <1>13, <1>14, <1>15, <1>16 DEF UnifyStep

\* The steps after the calls.
LateStep(r) ==
    \/ Snapshot(r) \/ Contribute(r) \/ SendBlockLength(r) \/ SendBlock(r)
    \/ r = 0 /\ RootStep

LEMMA LateStepFacts ==
    ASSUME PInv, NEW r \in Ranks, LateStep(r)
    PROVE  /\ UNCHANGED <<db, lister, treeVars, bcast, unifier>>
           /\ pc[r] \in {"done"} \cup Late /\ pc'[r] \in Late
           /\ \A q \in Ranks : q # r => pc'[q] = pc[q]
           /\ lister[r] = "atomics"
  <1>1. pc \in [Ranks -> Places] /\ 0 \in Ranks /\ Placed(r)
    BY RankFacts DEF PInv, Forms
  <1>2. {"reduce", "ready", "sendblock", "open", "gather", "blocklen", "block",
         "returned"} = Late
    BY DEF Late, AtRoot
  <1>3. pc[r] \in Late => lister[r] = "atomics"
    BY <1>1 DEF Placed
  <1> USE DEF GoTo, mergeVars
  <1>4. CASE Snapshot(r)
    BY <1>1, <1>2, <1>4 DEF Snapshot
  <1>5. CASE Contribute(r)
    BY <1>1, <1>2, <1>3, <1>5 DEF Contribute
  <1>6. CASE SendBlockLength(r)
    BY <1>1, <1>2, <1>3, <1>6 DEF SendBlockLength
  <1>7. CASE SendBlock(r)
    BY <1>1, <1>2, <1>3, <1>7 DEF SendBlock
  <1>8. CASE r = 0 /\ Reduce
    BY <1>1, <1>2, <1>3, <1>8 DEF Reduce
  <1>9. CASE r = 0 /\ WriteDefinitions
    BY <1>1, <1>2, <1>3, <1>9 DEF WriteDefinitions
  <1>10. CASE r = 0 /\ OpenFails
    BY <1>1, <1>2, <1>3, <1>10 DEF OpenFails
  <1>11. CASE r = 0 /\ AskRank
    BY <1>1, <1>2, <1>3, <1>11 DEF AskRank
  <1>12. CASE r = 0 /\ ReceiveBlockLength
    BY <1>1, <1>2, <1>3, <1>12 DEF ReceiveBlockLength
  <1>13. CASE r = 0 /\ WriteBlock
    BY <1>1, <1>2, <1>3, <1>13 DEF WriteBlock
  <1>14. CASE r = 0 /\ WriteOwn
    BY <1>1, <1>2, <1>3, <1>14 DEF WriteOwn
  <1> QED
    BY <1>4, <1>5, <1>6, <1>7, <1>8, <1>9, <1>10, <1>11, <1>12, <1>13, <1>14
    DEF LateStep, RootStep

\* A step of a rank that is not the end of a call, between calls or after.
LEMMA StepKinds ==
    ASSUME NEW r \in Ranks, RankStep(r)
    PROVE  \/ UnifyStep(r) /\ UNCHANGED mergeVars
           \/ NextLister(r) \/ LateStep(r)
  BY DEF RankStep, LateStep

LEMMA RestOfStep ==
    ASSUME PInv, NTypes, NEW r \in Ranks, RankStep(r)
    PROVE  Rest(r) /\ db' = db
  <1>1. Forms
    BY DEF PInv
  <1>2. CASE UnifyStep(r)
    BY <1>1, <1>2, RestOfUnify
  <1>3. CASE NextLister(r)
    <2>1. pc \in [Ranks -> Places] /\ lister \in [Ranks -> Listers]
      BY <1>1 DEF Forms
    <2> QED
      BY <1>3, <2>1 DEF NextLister, GoTo, Rest, treeVars
  <1>4. CASE LateStep(r)
    BY <1>4, LateStepFacts DEF Rest, treeVars
  <1> QED
    BY <1>2, <1>3, <1>4, StepKinds

\* While a rank waits for its table it does nothing else.
LEMMA OnlyTable ==
    ASSUME PInv, NEW r \in Ranks, RankStep(r), pc[r] = "map"
    PROVE  ReceiveMap(r)
  <1>1. ~LateStep(r)
    BY LateStepFacts DEF Late, AtRoot
  <1>2. ~NextLister(r)
    BY DEF NextLister
  <1>3. UnifyStep(r)
    BY <1>1, <1>2, StepKinds
  <1> QED
    BY <1>3 DEF UnifyStep, Start, FillBuffer, FillBufferCrash, SkipChild,
                AskChild, ReceiveLength,
                ReceiveNames, EndTree, MergeNext, MergeEnd, SendLength,
                SendNames, SendMap, Return

\* Rank 0 changes the global list of a call only before it is fixed.
Steady ==
    \A l \in Listers :
        /\ Fixed(l) => Fixed(l)' /\ Global(l)' = Global(l)
        /\ Past(0, l) => Past(0, l)'

LEMMA PastStays ==
    ASSUME PInv, NTypes, NEW r \in Ranks, RankStep(r), NEW l \in Listers,
           Past(r, l)
    PROVE  Past(r, l)' /\ unifier'[r][l] = unifier[r][l]
  <1>1. Forms /\ lister[r] \in Listers /\ pc \in [Ranks -> Places]
    BY DEF PInv, Forms
  <1>2. CASE UnifyStep(r)
    <2>1. lister' = lister
      BY <1>1, <1>2, RestOfUnify
    <2>2. pc[r] \notin {"done"} \cup Late
      BY <1>2 DEF UnifyStep, Start, FillBuffer, FillBufferCrash, SkipChild,
                AskChild, ReceiveLength,
                ReceiveNames, EndTree, MergeNext, MergeEnd, SendLength,
                SendNames, ReceiveMap, SendMap, Return, Late, AtRoot
    <2>3. l = "functions" /\ lister[r] = "atomics"
      BY <2>2 DEF Past
    <2>4. Past(r, l)'
      BY <2>1, <2>3 DEF Past
    <2>5. CASE Return(r)
      <3>1. unifier' = [unifier EXCEPT ![r] = [unifier[r] EXCEPT !["atomics"] =
                Unified(r, IF r = 0 THEN Len(merged[r]) ELSE bcast["atomics"])]]
        BY <2>3, <2>5 DEF Return
      <3>2. PICK x : unifier' = [unifier EXCEPT ![r] =
                                    [unifier[r] EXCEPT !["atomics"] = x]]
        BY <3>1
      <3>3. unifier \in [Ranks -> [Listers -> Unifier]]
        BY DEF NTypes
      <3> HIDE DEF Unifier
      <3>4. unifier'[r]["functions"] = unifier[r]["functions"]
        BY <3>2, <3>3 DEF Listers
      <3> QED
        BY <2>3, <2>4, <3>4
    <2>6. CASE ~Return(r)
      <3>1. unifier' = unifier
        BY <1>2, <2>6
        DEF UnifyStep, Start, FillBuffer, FillBufferCrash, SkipChild,
                AskChild, ReceiveLength,
            ReceiveNames, EndTree, MergeNext, MergeEnd, SendLength, SendNames,
            ReceiveMap, SendMap
      <3> QED
        BY <2>4, <3>1
    <2> QED
      BY <2>5, <2>6
  <1>3. CASE NextLister(r)
    <2>1. /\ lister[r] = "functions" /\ lister'[r] = "atomics"
          /\ unifier' = unifier
      BY <1>3 DEF NextLister, PInv, Forms
    <2>2. l = "functions"
      BY <2>1 DEF Past
    <2> QED
      BY <2>1, <2>2 DEF Past
  <1>4. CASE LateStep(r)
    <2>1. lister' = lister /\ unifier' = unifier /\ pc'[r] \in Late
      BY <1>4, LateStepFacts
    <2> QED
      BY <2>1 DEF Past
  <1> QED
    BY <1>2, <1>3, <1>4, StepKinds

LEMMA SteadyStep ==
    ASSUME PInv, NTypes, NEW r \in Ranks, RankStep(r)
    PROVE  Steady
  <1>1. Rest(r) /\ 0 \in Ranks
    BY RestOfStep, RankFacts
  <1>2. CASE r # 0
    <2>1. /\ pc'[0] = pc[0] /\ lister'[0] = lister[0]
          /\ merged'[0] = merged[0] /\ unifier'[0] = unifier[0]
      BY <1>1, <1>2 DEF Rest
    <2> QED
      BY <2>1 DEF Steady, Fixed, Global, Past
  <1>3. CASE r = 0
    <2> SUFFICES ASSUME NEW l \in Listers, Fixed(l)
                 PROVE  /\ Fixed(l)' /\ Global(l)' = Global(l)
                        /\ Past(0, l) => Past(0, l)'
      BY DEF Steady, Fixed
    <2>1. CASE Past(0, l)
      <3>1. Past(0, l)' /\ unifier'[0][l] = unifier[0][l]
        BY <1>3, <2>1, PastStays
      <3> QED
        BY <2>1, <3>1 DEF Fixed, Global
    <2>2. CASE ~Past(0, l)
      <3>1. lister[0] = l /\ pc[0] = "down" /\ Global(l) = merged[0]
        BY <2>2 DEF Fixed, Global
      <3>2. ~LateStep(0) /\ ~NextLister(0)
        BY <1>3, <3>1, LateStepFacts DEF NextLister, Late, AtRoot
      <3>3. UnifyStep(0)
        BY <1>3, <3>2, StepKinds
      <3>4. SendMap(0) \/ Return(0)
        BY <3>1, <3>3 DEF UnifyStep, Start, FillBuffer, FillBufferCrash, SkipChild,
                AskChild, ReceiveLength,
                ReceiveNames, EndTree, MergeNext, MergeEnd, SendLength,
                SendNames, ReceiveMap
      <3>5. CASE SendMap(0)
        <4>1. UNCHANGED <<pc, lister, merged, unifier>>
          BY <3>5 DEF SendMap
        <4> QED
          BY <2>2, <3>1, <4>1 DEF Fixed, Global, Past
      <3>6. CASE Return(0)
        <4>1. /\ pc'[0] = "done" /\ lister' = lister
              /\ unifier' = [unifier EXCEPT ![0] = [unifier[0] EXCEPT ![l] =
                                 Unified(0, Len(merged[0]))]]
          BY <1>3, <3>1, <3>6 DEF Return, GoTo, PInv, Forms
        <4>2. unifier'[0][l] = Unified(0, Len(merged[0]))
          <5>1. PICK x : x = Unified(0, Len(merged[0]))
            OBVIOUS
          <5>2. unifier \in [Ranks -> [Listers -> Unifier]]
            BY DEF NTypes
          <5> HIDE DEF Unifier
          <5>3. unifier'[0][l] = x
            BY <1>1, <4>1, <5>1, <5>2
          <5> QED
            BY <5>1, <5>3
        <4>3. unifier'[0][l].globalStrings = merged[0]
          BY <4>2 DEF Unified
        <4>4. Past(0, l)'
          BY <3>1, <4>1 DEF Past
        <4> QED
          BY <2>2, <3>1, <4>3, <4>4 DEF Fixed, Global
      <3> QED
        BY <3>4, <3>5, <3>6
    <2> QED
      BY <2>1, <2>2
  <1> QED
    BY <1>2, <1>3



\* While a rank waits for its table and the channel from its parent is not
\* empty, its names have been taken, and the table is what it gets next.
LEMMA AtMap ==
    ASSUME PInv, NEW r \in Ranks, pc[r] = "map",
           Arrived(r, Parent(r), "map")
    PROVE  LET p == Parent(r) IN
           /\ Call(r) <= Call(p)
           /\ Call(p) = Call(r) => TableSent(p, r)
           /\ DownTaken(p, r) = 2 * Call(r) + 1
           /\ DownSent(p, r) >= 2 * Call(r) + 2
           /\ DownSent(p, r) <= 2 * Call(r) + 3
           /\ UpSent(p, r) = 2 * Call(r) + 2
           /\ UpTaken(p, r) >= 2 * Call(r) + 2
  <1>1. PICK p \in Ranks : p = Parent(r) /\ Edge(p, r)
    <2>1. pc[r] \in Waiting
      BY DEF Waiting
    <2> QED
      BY <2>1, ParentFacts
  <1>2. /\ p \in Nat /\ p < r /\ Mail /\ Protocol /\ Placed(p) /\ Family(p)
        /\ Len(objs[p]) \in Nat /\ child[p] \in Nat
    BY <1>1, EdgeFacts DEF PInv, Forms, Listed
  <1>3. PICK a \in {0, 1}, b \in {0, 1} : a = Call(r) /\ b = Call(p)
    BY DEF Call
  <1>4. PICK rec \in {0, 1}, asked \in {0, 1}, table \in {0, 1}, x \in {0, 1} :
            /\ rec = Once(Received(p, r)) /\ asked = Once(Asked(p, r))
            /\ table = Once(TableSent(p, r))
            /\ x = Once(p = 0 /\ (r < gather
                         \/ (r = gather /\ pc[0] \in {"blocklen", "block"})))
    BY DEF Once
  <1>5. DownTaken(p, r) = 2 * a + 1 /\ UpSent(p, r) = 2 * a + 2
    <2>1. /\ pc[r] \notin Early /\ pc[r] \in Early \cup {"send", "map"}
          /\ pc[r] \notin Early \cup {"send"} /\ pc[r] \notin {"sendblock", "returned"}
          /\ pc[r] # "returned"
      BY DEF Early, Collecting
    <2>2. TreeDownTaken(r) = 2 * a + 1 /\ TreeUpSent(r) = 2 * a + 2
      BY <1>3, <2>1 DEF TreeDownTaken, TreeUpSent, Once
    <2>3. PICK n \in Nat : n = TreeDownTaken(r) /\ n = 2 * a + 1
      BY <2>2
    <2>4. PICK k \in Nat : k = TreeUpSent(r) /\ k = 2 * a + 2
      BY <2>2
    <2> QED
      BY <1>1, <2>1, <2>3, <2>4 DEF DownTaken, UpSent, InTree, Once
  <1>6. DownSent(p, r) = 2 * b + asked + table + x
    BY <1>1, <1>3, <1>4 DEF DownSent, InTree, TreeDownSent
  <1>7. PICK up \in Nat : up = UpTaken(p, r)
    BY CountTypes
  <1>8. up <= 2 * a + 2 /\ up >= 2 * b + 2 * rec
    <2>1. up <= 2 * a + 2
      BY <1>2, <1>5, <1>7, TakenSent
    <2>2. PICK n \in Nat : UpTaken(p, r) = TreeUpTaken(p, r) + n
      <3>1. \A c : Once(c) \in {0, 1}
        BY DEF Once
      <3> QED
        BY <1>1, <3>1 DEF UpTaken, InTree
    <2>3. PICK k \in Nat : TreeUpTaken(p, r) = 2 * b + 2 * rec + k
      <3>1. PICK k \in {0, 1} : k = Once(pc[p] = "names" /\ r = p + mask[p])
        BY DEF Once
      <3>2. TreeUpTaken(p, r) = 2 * b + (2 * rec + k)
        BY <1>3, <1>4, <3>1 DEF TreeUpTaken
      <3> QED
        BY <3>2
    <2> QED
      BY <1>7, <2>1, <2>2, <2>3
  <1>9. 2 * b + asked + table + x > 2 * a + 1
    <2>1. /\ Numbered(chan[p, r], DownTaken(p, r), DownSent(p, r), DownKinds)
          /\ Listed(chan[p, r])
      BY <1>2, <1>1 DEF Protocol, Channels, Mail, AllFit
    <2>2. DownTaken(p, r) \in Nat /\ DownSent(p, r) \in Nat
      BY CountTypes
    <2>3. chan[p, r] # <<>>
      BY <1>1 DEF Arrived
    <2>4. DownTaken(p, r) < DownSent(p, r)
      BY <2>1, <2>2, <2>3, NumberedTail, Zenon
    <2> QED
      BY <1>5, <1>6, <2>4
  <1>10. x = 1 => rec = 1 /\ table = 1
    <2>1. SUFFICES ASSUME x = 1 PROVE rec = 1 /\ table = 1
      OBVIOUS
    <2>2. p = 0 /\ (r < gather \/ (r = gather /\ pc[0] \in {"blocklen", "block"}))
      BY <1>4, <2>1 DEF Once
    <2>3. pc[p] \in AtRoot \cup {"returned"}
      <3>1. CASE r < gather
        <4>1. gather # 1
          BY <1>2, <3>1, RankFacts DEF PInv, Forms
        <4> QED
          BY <1>2, <2>2, <4>1 DEF Placed
      <3>2. CASE pc[0] \in {"blocklen", "block"}
        BY <2>2, <3>2 DEF AtRoot
      <3> QED
        BY <2>2, <3>1, <3>2
    <2>4. pc[p] \in {"done"} \cup Late
      BY <2>3 DEF Late
    <2>5. pc[p] \notin {"start", "buffer"} \cup Collecting
      BY <2>4 DEF Late, AtRoot, Collecting
    <2>6. r - p < mask[p] /\ child[p] > Len(objs[p])
      BY <1>1, <1>2, <2>4, <2>5 DEF Placed
    <2>7. Received(p, r)
      BY <2>5, <2>6 DEF Received
    <2>8. TableSent(p, r)
      <3>1. PICK k \in 2 .. Len(objs[p]) : objs[p][k].rank = r
        BY <1>1, <1>2, <2>5, <2>6 DEF Family
      <3>2. k < child[p]
        BY <1>2, <2>6
      <3> QED
        BY <2>5, <3>1, <3>2 DEF TableSent
    <2> QED
      BY <1>4, <2>7, <2>8 DEF Once
  <1>11. table = 1 => rec = 1
    <2>1. TableSent(p, r) => Received(p, r)
      BY <1>2 DEF TableSent, Received, Family
    <2> QED
      BY <1>4, <2>1 DEF Once
  <1>12. /\ a <= b /\ (a = b => table = 1)
         /\ 2 * b + asked + table + x <= 2 * a + 3 /\ up >= 2 * a + 2
    <2> HIDE <1>1, <1>2, <1>5, <1>6
    <2>1. CASE a = b
      BY <2>1, <1>8, <1>9, <1>10, <1>11
    <2>2. CASE a = 0 /\ b = 1
      BY <2>2, <1>8, <1>9, <1>10, <1>11
    <2>3. CASE a = 1 /\ b = 0
      BY <2>3, <1>8, <1>9, <1>10, <1>11
    <2> QED
      BY <2>1, <2>2, <2>3
  <1>13. a = b => TableSent(p, r)
    BY <1>4, <1>12 DEF Once
  <1> QED
    BY <1>1, <1>3, <1>5, <1>6, <1>7, <1>9, <1>12, <1>13

\* So the table is the only one that is under way to the rank, none of its
\* lists is, and its parent, if still in that call, has done with it.
LEMMA OneTable ==
    ASSUME NEW call \in {0, 1}, NEW sent \in Nat, sent <= 2 * call + 3,
           NEW q, Numbered(q, 2 * call + 1, sent, DownKinds), Listed(q),
           NEW i, i \in 1 .. Len(q)
    PROVE  q[i].kind = "map" => i = 1
  <1>1. i \in 1 .. 2 /\ q[i].kind = DownKinds[2 * call + 1 + i]
    BY DEF Numbered, Listed
  <1>2. i = 2 => (2 * call + 1 + i) % 2 = 1 /\ 2 * call + 1 + i \in Nat
    <2>1. call = 0 \/ call = 1
      OBVIOUS
    <2> QED
      BY <2>1
  <1>3. i = 2 => q[i].kind = "ok"
    BY <1>1, <1>2 DEF DownKinds
  <1> QED
    BY <1>1, <1>3

\* From another rank than its parent it gets a go-ahead at most.
LEMMA NoEdge ==
    ASSUME NEW s, NEW r, ~Edge(s, r)
    PROVE  /\ DownSent(s, r) \in {0, 1}
           /\ pc[r] = "map" => UpSent(s, r) = 0
  BY DEF DownSent, UpSent, InTree, Once

LEMMA OnlyAhead ==
    ASSUME NEW m, NEW taken \in Nat, NEW sent \in {0, 1},
           IsNumber(m, taken, sent, DownKinds)
    PROVE  m.kind # "map"
  <1>1. sent = 1
    BY DEF IsNumber
  <1> QED
    BY <1>1, DownKind

LEMMA Nowhere ==
    ASSUME Protocol, NEW r \in Ranks
    PROVE  \A i : i \notin 1 .. Len(chan[r, r])
  <1>1. Len(chan[r, r]) = 0
    BY EmptyListed DEF Protocol
  <1>2. \A i : i \notin 1 .. 0
    OBVIOUS
  <1> QED
    BY <1>1, <1>2, Zenon

LEMMA Three == \A q, r \in Ranks : q < r \/ q = r \/ r < q
  <1>1. \A q \in Ranks : q \in Nat
    BY RankFacts
  <1> QED
    BY <1>1

LEMMA TableTaken ==
    ASSUME PInv, NEW r \in Ranks, pc[r] = "map",
           Arrived(r, Parent(r), "map")
    PROVE  /\ \A d \in Ranks : \A i \in 1 .. Len(chan[r, d]) :
                  chan[r, d][i].kind # "names"
           /\ \A s \in Ranks : \A i \in 1 .. Len(chan[s, r]) :
                  chan[s, r][i].kind = "map" => s = Parent(r) /\ i = 1
           /\ \A q \in Ranks : pc[q] \notin {"start", "buffer"} /\ lister[q] = lister[r] =>
                  \A k \in 2 .. Len(objs[q]) :
                      k >= child[q] => objs[q][k].rank # r
  <1>1. PICK p \in Ranks : p = Parent(r)
    BY ParentFacts DEF Waiting
  <1>2. /\ Mail /\ Protocol /\ Edge(p, r) /\ r \in Nat
        /\ \A q \in Ranks : Edge(q, r) => q = p
    BY <1>1, ParentFacts, RankFacts DEF Waiting, PInv
  <1>3. PICK call \in {0, 1} : call = Call(r)
    BY DEF Call
  <1>4. /\ call <= Call(p) /\ (Call(p) = call => TableSent(p, r))
        /\ DownTaken(p, r) = 2 * call + 1 /\ DownSent(p, r) <= 2 * call + 3
        /\ UpSent(p, r) = 2 * call + 2 /\ UpTaken(p, r) >= 2 * call + 2
    BY <1>1, <1>3, AtMap
  <1>5. ASSUME NEW d \in Ranks, NEW m
        PROVE  ~IsNumber(m, UpTaken(d, r), UpSent(d, r), UpKinds(d, r))
    <2>1. PICK got \in Nat : got = UpTaken(d, r)
      BY CountTypes
    <2>2. CASE d = p
      BY <1>4, <2>1, <2>2, NoneBetween
    <2>3. CASE d # p
      <3>1. UpSent(d, r) = 0
        BY <1>2, <2>3, NoEdge
      <3> QED
        BY <2>1, <3>1, NoneBetween
    <2> QED
      BY <2>2, <2>3
  <1>6. ASSUME NEW d \in Ranks, NEW i \in 1 .. Len(chan[r, d])
        PROVE  chan[r, d][i].kind # "names"
    <2>2. CASE d < r
      BY <1>2, <1>5, <2>2, UnderWay, Zenon
    <2>3. CASE r < d
      <3>1. IsNumber(chan[r, d][i], DownTaken(r, d), DownSent(r, d), DownKinds)
        BY <1>2, <2>3, UnderWay, Zenon
      <3>2. DownTaken(r, d) \in Nat
        BY CountTypes, Zenon
      <3> QED
        BY <3>1, <3>2, DownKind, Zenon
    <2>4. CASE d = r
      BY <1>2, <2>4, Nowhere, Zenon
    <2> QED
      BY <2>2, <2>3, <2>4, Three, Zenon
  <1>9. /\ Numbered(chan[p, r], 2 * call + 1, DownSent(p, r), DownKinds)
        /\ Listed(chan[p, r]) /\ DownSent(p, r) \in Nat
    <2>1. p < r
      BY <1>2, EdgeFacts
    <2> QED
      BY <1>2, <1>4, <2>1, CountTypes DEF Protocol, Channels, Mail, AllFit
  <1>7. ASSUME NEW s \in Ranks, NEW i \in 1 .. Len(chan[s, r]),
               chan[s, r][i].kind = "map"
        PROVE  s = p /\ i = 1
    <2>2. CASE s = p
      <3>1. /\ Numbered(chan[p, r], 2 * call + 1, DownSent(p, r), DownKinds)
            /\ Listed(chan[p, r]) /\ DownSent(p, r) \in Nat
        BY <1>9
      <3>2. i = 1
        BY <1>4, <1>7, <2>2, <3>1, OneTable, Zenon
      <3> QED
        BY <2>2, <3>2
    <2>3. CASE s < r /\ s # p
      <3>1. IsNumber(chan[s, r][i], DownTaken(s, r), DownSent(s, r), DownKinds)
        BY <1>2, <2>3, UnderWay, Zenon
      <3>2. DownTaken(s, r) \in Nat
        BY CountTypes, Zenon
      <3>3. DownSent(s, r) \in {0, 1}
        BY <1>2, <2>3, NoEdge, Zenon
      <3> QED
        BY <1>7, <3>1, <3>2, <3>3, OnlyAhead, Zenon
    <2>4. CASE r < s
      <3>1. IsNumber(chan[s, r][i], UpTaken(r, s), UpSent(r, s), UpKinds(r, s))
        BY <1>2, <2>4, UnderWay, Zenon
      <3> QED
        BY <1>7, <3>1, UpKind, Zenon
    <2>5. CASE s = r
      BY <1>2, <2>5, Nowhere, Zenon
    <2> QED
      BY <2>2, <2>3, <2>4, <2>5, Three, Zenon
  <1>8. ASSUME NEW q \in Ranks, pc[q] \notin {"start", "buffer"}, lister[q] = lister[r],
               NEW k \in 2 .. Len(objs[q]), k >= child[q], objs[q][k].rank = r
        PROVE  FALSE
    <2>1. /\ Family(q) /\ child[q] \in Nat /\ Len(objs[q]) \in Nat
      BY DEF PInv, Forms, Listed
    <2>2. q = p
      BY <1>2, <1>8, <2>1 DEF Family
    <2>3. TableSent(p, r)
      BY <1>3, <1>4, <1>8, <2>2 DEF Call
    <2>4. PICK j \in 2 .. Len(objs[q]) : j < child[q] /\ objs[q][j].rank = r
      BY <2>2, <2>3 DEF TableSent
    <2>5. j < k
      BY <1>8, <2>1, <2>4
    <2> QED
      BY <1>8, <2>1, <2>4, <2>5 DEF Family
  <1> QED
    BY <1>1, <1>6, <1>7, <1>8

\* A rank receives the names of a child in the call that the child is in.
LEMMA SameCall ==
    ASSUME PInv, NEW r \in Ranks, pc[r] = "names", NEW c \in Ranks,
           c = Source(r), pc[c] = "map",
           Arrived(r, c, "names")
    PROVE  lister[c] = lister[r]
  <1>1. /\ Mail /\ Protocol /\ Placed(r) /\ Family(r) /\ Edge(r, c)
        /\ mask[r] \in Nat
    BY MaskPositive DEF PInv, Placed, Forms
  <1>0. c = r + mask[r]
    BY DEF Source
  <1>2. r \in Nat /\ c \in Nat /\ r < c /\ c - r = mask[r] /\ c >= 1
    <2>1. r \in Nat /\ c \in Nat /\ r < c
      BY <1>1, EdgeFacts
    <2> QED
      BY <1>0, <1>1, <2>1
  <1>3. PICK a \in {0, 1}, b \in {0, 1} : a = Call(c) /\ b = Call(r)
    BY DEF Call
  <1>4. ~Received(r, c) /\ ~TableSent(r, c)
    BY <1>1, <1>2 DEF Received, TableSent, Family
  <1>5. /\ r = 0 => gather = 1
        /\ ~(r = 0 /\ (c < gather \/ (c = gather /\ pc[0] \in {"blocklen", "block"})))
        /\ ~(r = 0 /\ c < gather) /\ ~(r = 0 /\ c = gather /\ pc[0] = "block")
    <2>1. r = 0 => gather = 1
      BY <1>1 DEF Placed, AtRoot
    <2>2. r = 0 => pc[0] = "names"
      OBVIOUS
    <2> QED
      BY <1>2, <2>1, <2>2
  <1>6. UpTaken(r, c) = 2 * b + 1
    <2>1. c = r + mask[r]
      BY DEF Source
    <2>2. TreeUpTaken(r, c) = 2 * b + 1
      BY <1>3, <1>4, <2>1 DEF TreeUpTaken, Once
    <2> QED
      BY <1>1, <1>3, <1>5, <2>2 DEF UpTaken, InTree, Once
  <1>7. DownSent(r, c) <= 2 * b + 1 /\ DownSent(r, c) \in Nat
    <2>1. PICK asked \in {0, 1} : asked = Once(Asked(r, c))
      BY DEF Once
    <2>2. TreeDownSent(r, c) = 2 * b + asked
      BY <1>3, <1>4, <2>1 DEF TreeDownSent, Once
    <2> QED
      BY <1>1, <1>3, <1>5, <2>1, <2>2 DEF DownSent, InTree, Once
  <1>8. DownTaken(r, c) = 2 * a + 1 /\ UpSent(r, c) = 2 * a + 2
    <2>1. /\ pc[c] \notin Early /\ pc[c] \in Early \cup {"send", "map"}
          /\ pc[c] \notin Early \cup {"send"} /\ pc[c] \notin {"sendblock", "returned"}
          /\ pc[c] # "returned"
      BY DEF Early, Collecting
    <2>2. TreeDownTaken(c) = 2 * a + 1 /\ TreeUpSent(c) = 2 * a + 2
      BY <1>3, <2>1 DEF TreeDownTaken, TreeUpSent, Once
    <2>3. PICK n \in Nat : n = TreeDownTaken(c) /\ n = 2 * a + 1
      BY <2>2
    <2>4. PICK k \in Nat : k = TreeUpSent(c) /\ k = 2 * a + 2
      BY <2>2
    <2> QED
      BY <1>1, <2>1, <2>3, <2>4 DEF DownTaken, UpSent, InTree, Once
  <1>9. DownTaken(r, c) <= DownSent(r, c) /\ UpTaken(r, c) <= UpSent(r, c)
    BY <1>1, <1>2, TakenSent
  <1>10. a = b
    BY <1>6, <1>7, <1>8, <1>9
  <1> QED
    BY <1>3, <1>10 DEF Call, PInv, Forms, Listers


\* The results that a rank has stay what they are.
LEMMA GivenStays ==
    ASSUME PInv, NInv, NEW r \in Ranks, RankStep(r), NEW q \in Ranks,
           NEW l \in Listers, unifier'[q][l] = unifier[q][l],
           Past(q, l)' <=> Past(q, l)
    PROVE  Given(q, l)'
  <1>1. NTypes /\ Given(q, l)
    BY DEF NInv, RankNames
  <1>2. Steady /\ db' = db
    BY <1>1, SteadyStep, RestOfStep
  <1>3. PICK u : u = unifier[q][l] /\ u = unifier'[q][l]
    OBVIOUS
  <1>4. CASE ~Past(q, l)
    BY <1>1, <1>3, <1>4 DEF Given
  <1>5. CASE Past(q, l)
    <2>1. Past(0, l)
      BY <1>1, <1>5 DEF Given
    <2>2. Past(0, l)' /\ Global(l)' = Global(l)
      BY <1>2, <2>1 DEF Steady, Fixed
    <2>3. PICK list : list = Global(l) /\ list = Global(l)'
      BY <2>2
    <2>4. PICK d : d = db[l][q] /\ d = db'[l][q]
      BY <1>2
    <2> QED
      BY <1>1, <1>3, <1>5, <2>2, <2>3, <2>4 DEF Given
  <1> QED
    BY <1>4, <1>5

LEMMA SameGlobal ==
    ASSUME NEW q, NEW l, lister[q] = l, lister'[q] = l
    PROVE  /\ Global(lister[q]) = Global(l) /\ Global(lister[q])' = Global(l)'
           /\ Fixed(lister[q]) <=> Fixed(l)
           /\ Fixed(lister[q])' <=> Fixed(l)'
  BY DEF Global, Fixed, Past

\* The other ranks keep what they have.
LEMMA OthersNames ==
    ASSUME PInv, NInv, NEW r \in Ranks, RankStep(r), NEW q \in Ranks, q # r
    PROVE  RankNames(q)'
  <1>1. NTypes /\ RankNames(q) /\ lister[q] \in Listers
    BY DEF NInv, PInv, Forms
  <1>2. Steady /\ db' = db /\ Rest(r)
    BY <1>1, SteadyStep, RestOfStep
  <1>3. /\ pc'[q] = pc[q] /\ lister'[q] = lister[q] /\ sortMap'[q] = sortMap[q]
        /\ objs'[q] = objs[q] /\ merged'[q] = merged[q]
        /\ child'[q] = child[q] /\ unifier'[q] = unifier[q]
    BY <1>2 DEF Rest
  <1>4. PICK l \in Listers : l = lister[q] /\ l = lister'[q]
    BY <1>1, <1>3
  <1>5. Read(q)'
    BY <1>1, <1>2, <1>3 DEF Read, RankNames
  <1>6. Up(q)' = Up(q)
    BY <1>3 DEF Up
  <1>7. pc[q] = "down" => Fixed(l)' /\ Global(l)' = Global(l)
    <2>1. pc[q] = "down" => Fixed(l)
      BY <1>1, <1>4, SameGlobal DEF RankNames
    <2> QED
      BY <1>2, <2>1 DEF Steady
  <1>8. ASSUME pc[q] \notin {"start", "buffer"}, NEW k \in Objects(q)
        PROVE  Leading(q, objs[q][k])'
    <2>1. PICK o : o = objs[q][k] /\ o = objs'[q][k]
      BY <1>3
    <2>2. Leading(q, o)
      BY <1>1, <1>8, <2>1 DEF RankNames
    <2>3. pc[q] = "down" => Global(lister[q])' = Global(lister[q])
      BY <1>4, <1>7, SameGlobal
    <2>4. Leading(q, o)'
      BY <1>3, <1>6, <2>2, <2>3 DEF Leading
    <2> QED
      BY <2>1, <2>4
  <1>9. pc'[q] = "down" => Fixed(lister[q])'
    BY <1>3, <1>4, <1>7, SameGlobal
  <1>10. Kin(q)'
    <2>1. SUFFICES ASSUME pc[q] \notin {"start", "buffer"}, NEW k \in 2 .. Len(objs[q]),
                          k >= child[q]
                   PROVE  \E c \in Ranks :
                              /\ c = objs[q][k].rank /\ pc'[c] = "map"
                              /\ lister'[c] = lister[q]
                              /\ objs[q][k].strings = Up(c)'
      BY <1>3 DEF Kin
    <2>2. PICK c \in Ranks : /\ c = objs[q][k].rank /\ pc[c] = "map"
                             /\ lister[c] = lister[q]
                             /\ objs[q][k].strings = Up(c)
      BY <1>1, <2>1 DEF RankNames, Kin
    <2>3. c # r
      <3>1. SUFFICES ASSUME c = r PROVE FALSE
        OBVIOUS
      <3>2. ReceiveMap(r)
        BY <2>2, <3>1, OnlyTable
      <3>3. Arrived(r, Parent(r), "map")
        BY <3>2 DEF ReceiveMap
      <3> QED
        BY <2>1, <2>2, <3>1, <3>3, TableTaken
    <2>4. /\ pc'[c] = "map" /\ lister'[c] = lister[q]
          /\ objs'[c] = objs[c] /\ merged'[c] = merged[c]
      BY <1>2, <2>2, <2>3 DEF Rest
    <2>5. Up(c)' = Up(c)
      BY <2>4 DEF Up
    <2> QED
      BY <2>2, <2>4, <2>5
  <1>11. ASSUME NEW k \in Listers
         PROVE  Given(q, k)'
    <2>1. Past(q, k)' <=> Past(q, k)
      BY <1>3 DEF Past
    <2> QED
      BY <1>3, <2>1, GivenStays
  <1>12. pc'[q] = "merge" => q = 0 \/ Len(objs'[q]) > 1
    BY <1>1, <1>3 DEF RankNames
  <1>13. Objects(q)' = Objects(q)
    BY <1>3 DEF Objects
  <1> QED
    BY <1>3, <1>5, <1>8, <1>9, <1>10, <1>11, <1>12, <1>13 DEF RankNames

\* A message that a step does not take holds what it has held.
LEMMA CarriedStays ==
    ASSUME PInv, NInv, NEW r \in Ranks, RankStep(r), NEW s \in Ranks,
           NEW d \in Ranks, NEW j \in 1 .. Len(chan[s, d]),
           NEW m, m = chan[s, d][j],
           ReceiveMap(r) => ~(s = Parent(r) /\ d = r /\ j = 1)
    PROVE  Carried(s, d, m)'
  <1>1. NTypes /\ Carried(s, d, m)
    BY DEF NInv, Carrying, Passing
  <1>2. Steady /\ Rest(r)
    BY <1>1, SteadyStep, RestOfStep
  <1>3. pc[r] = "map" => Arrived(r, Parent(r), "map") /\ ReceiveMap(r)
    BY OnlyTable DEF ReceiveMap
  <1>4. CASE m.kind = "names"
    <2>1. pc[s] = "map" /\ m.body = Up(s)
      BY <1>1, <1>4 DEF Carried
    <2>2. s # r
      <3>1. SUFFICES ASSUME s = r PROVE FALSE
        OBVIOUS
      <3>2. pc[r] = "map" /\ Arrived(r, Parent(r), "map")
        BY <1>3, <2>1, <3>1
      <3>3. \A e \in Ranks : \A i \in 1 .. Len(chan[r, e]) :
                chan[r, e][i].kind # "names"
        BY <3>2, TableTaken
      <3>4. chan[r, d][j].kind # "names"
        BY <3>1, <3>3
      <3> QED
        BY <1>4, <3>1, <3>4
    <2>3. pc'[s] = pc[s] /\ objs'[s] = objs[s] /\ merged'[s] = merged[s]
      BY <1>2, <2>2 DEF Rest
    <2>4. Up(s)' = Up(s)
      BY <2>3 DEF Up
    <2> QED
      BY <1>4, <2>1, <2>3, <2>4 DEF Carried
  <1>5. CASE m.kind = "map"
    <2>1. /\ pc[d] = "map" /\ Fixed(lister[d]) /\ Len(m.body) = Len(Up(d))
          /\ Guides(m.body, Len(m.body), Up(d), Global(lister[d]))
      BY <1>1, <1>5 DEF Carried
    <2>2. d # r
      <3>1. SUFFICES ASSUME d = r PROVE FALSE
        OBVIOUS
      <3>2. s = Parent(r) /\ j = 1
        BY <1>3, <1>5, <2>1, <3>1, TableTaken
      <3> QED
        BY <1>3, <2>1, <3>1, <3>2
    <2>3. /\ pc'[d] = pc[d] /\ objs'[d] = objs[d] /\ merged'[d] = merged[d]
          /\ lister'[d] = lister[d]
      BY <1>2, <2>2 DEF Rest
    <2>4. Up(d)' = Up(d)
      BY <2>3 DEF Up
    <2>5. PICK l \in Listers : l = lister[d] /\ l = lister'[d]
      BY <2>3 DEF PInv, Forms
    <2>6. Fixed(lister[d])' /\ Global(lister[d])' = Global(lister[d])
      BY <1>2, <2>1, <2>5, SameGlobal DEF Steady
    <2> QED
      BY <1>5, <2>1, <2>3, <2>4, <2>6 DEF Carried
  <1>6. CASE m.kind \notin {"names", "map"}
    BY <1>6 DEF Carried
  <1> QED
    BY <1>4, <1>5, <1>6

\* What is in the channels after a step was in them before, or was sent.
Posts(r, s, d) ==
    \A m \in Passing(s, d)' :
        \/ Carried(s, d, m)'
        \/ \E j \in 1 .. Len(chan[s, d]) :
            /\ m = chan[s, d][j]
            /\ ReceiveMap(r) => ~(s = Parent(r) /\ d = r /\ j = 1)

Posted(r) == \A s, d \in Ranks : Posts(r, s, d)

LEMMA NamesFollow ==
    ASSUME PInv, NInv, NEW r \in Ranks, RankStep(r), NTypes', RankNames(r)',
           Posted(r), Announced'
    PROVE  NInv'
  <1>1. \A q \in Ranks : RankNames(q)'
    BY OthersNames
  <1>2. Carrying'
    <2>1. SUFFICES ASSUME NEW s \in Ranks, NEW d \in Ranks,
                          NEW m \in Passing(s, d)'
                   PROVE  Carried(s, d, m)'
      BY DEF Carrying
    <2>2. CASE Carried(s, d, m)'
      BY <2>2
    <2>3. CASE \E j \in 1 .. Len(chan[s, d]) :
                  /\ m = chan[s, d][j]
                  /\ ReceiveMap(r) => ~(s = Parent(r) /\ d = r /\ j = 1)
      BY <2>3, CarriedStays
    <2> QED
      BY <2>1, <2>2, <2>3 DEF Posted, Posts
  <1> QED
    BY <1>1, <1>2 DEF NInv

LEMMA AnnouncedStays ==
    ASSUME PInv, NInv, NEW r \in Ranks, RankStep(r), bcast' = bcast
    PROVE  Announced'
  <1>1. Steady /\ Announced
    BY SteadyStep DEF NInv
  <1> QED
    BY <1>1 DEF Announced, Steady, Fixed



LEMMA PostsOld ==
    ASSUME NEW r, NEW s, NEW d, chan'[s, d] = chan[s, d],
           ReceiveMap(r) => ~(s = Parent(r) /\ d = r)
    PROVE  Posts(r, s, d)
  <1>1. Passing(s, d)' = Passing(s, d)
    BY DEF Passing
  <1>2. \A m \in Passing(s, d) : \E j \in 1 .. Len(chan[s, d]) : m = chan[s, d][j]
    BY DEF Passing
  <1> QED
    BY <1>1, <1>2, Zenon DEF Posts

LEMMA UpToNext == \A n \in Nat : \A i \in 1 .. n + 1 : i \in 1 .. n \/ i = n + 1
  OBVIOUS

LEMMA NotFirst == \A n \in Nat : \A i \in 1 .. n : i + 1 # 1
  OBVIOUS

LEMMA PostsNew ==
    ASSUME NEW r, NEW s, NEW d, Listed(chan[s, d]), NEW new,
           chan'[s, d] = Append(chan[s, d], new), Carried(s, d, new)',
           ~ReceiveMap(r)
    PROVE  Posts(r, s, d)
  <1>1. PICK q : q = chan[s, d]
    OBVIOUS
  <1>2. Listed(q) /\ Len(q) \in Nat
    BY <1>1 DEF Listed
  <1>3. /\ Len(Append(q, new)) = Len(q) + 1
        /\ \A i \in 1 .. Len(q) : Append(q, new)[i] = q[i]
        /\ Append(q, new)[Len(q) + 1] = new
    BY <1>2, ListedAppend
  <1>4. \A i \in 1 .. Len(Append(q, new)) : i \in 1 .. Len(q) \/ i = Len(q) + 1
    BY <1>2, <1>3, UpToNext, Zenon
  <1>5. \A i \in 1 .. Len(Append(q, new)) :
            \/ Append(q, new)[i] = new
            \/ \E j \in 1 .. Len(q) : Append(q, new)[i] = q[j]
    BY <1>3, <1>4, Zenon
  <1>6. chan'[s, d] = Append(q, new)
    BY <1>1
  <1>7. Passing(s, d)' = {Append(q, new)[i] : i \in 1 .. Len(Append(q, new))}
    BY <1>6 DEF Passing
  <1>8. \A m \in Passing(s, d)' :
            m = new \/ \E j \in 1 .. Len(q) : m = q[j]
    BY <1>5, <1>7, Zenon
  <1> QED
    BY <1>1, <1>8, Zenon DEF Posts

LEMMA PostsRest ==
    ASSUME NEW r, NEW s, NEW d, NEW kind, Listed(chan[s, d]),
           Arrived(d, s, kind), chan'[s, d] = Tail(chan[s, d])
    PROVE  Posts(r, s, d)
  <1>1. PICK q : q = chan[s, d]
    OBVIOUS
  <1>2. Listed(q) /\ q # <<>>
    BY <1>1 DEF Arrived
  <1>3. \A i \in 1 .. Len(Tail(q)) :
            i + 1 \in 1 .. Len(q) /\ Tail(q)[i] = q[i + 1]
    BY <1>2, ListedTail
  <1>4. \A i \in 1 .. Len(Tail(q)) : i + 1 # 1
    <2>1. Len(Tail(q)) \in Nat
      BY <1>2, ListedTail DEF Listed
    <2> QED
      BY <2>1, NotFirst, Zenon
  <1>5. chan'[s, d] = Tail(q)
    BY <1>1
  <1>6. Passing(s, d)' = {Tail(q)[i] : i \in 1 .. Len(Tail(q))}
    BY <1>5 DEF Passing
  <1> QED
    BY <1>1, <1>3, <1>4, <1>6, Zenon DEF Posts

\* Steps that send nothing and take nothing, that send one message, that take
\* one, and that take one and send another.
LEMMA PostsNothing ==
    ASSUME NEW r, chan' = chan, ~ReceiveMap(r)
    PROVE  Posted(r)
  BY PostsOld DEF Posted

LEMMA PostsOne ==
    ASSUME Mail, NEW r, NEW s \in Ranks, NEW d \in Ranks, NEW kind, NEW body,
           Send(s, d, kind, body), Carried(s, d, Msg(kind, body))', ~ReceiveMap(r)
    PROVE  Posted(r)
  <1>1. PICK m : m = Msg(kind, body)
    OBVIOUS
  <1>2. PICK q : q = Append(chan[s, d], m)
    OBVIOUS
  <1>3. chan' = [chan EXCEPT ![<<s, d>>] = q]
    BY <1>1, <1>2 DEF Send
  <1>4. /\ chan = [e \in Ranks \X Ranks |-> chan[e]]
        /\ \A a, b \in Ranks : Listed(chan[a, b])
    BY DEF Mail, AllFit
  <1>5. chan'[s, d] = q
    BY <1>3, <1>4
  <1>6. \A a, b \in Ranks : a # s \/ b # d => chan'[a, b] = chan[a, b]
    BY <1>3, <1>4
  <1>7. ASSUME NEW a \in Ranks, NEW b \in Ranks
        PROVE  Posts(r, a, b)
    <2>1. CASE a = s /\ b = d
      <3>1. Posts(r, s, d)
        BY <1>1, <1>2, <1>4, <1>5, PostsNew
      <3> QED
        BY <2>1, <3>1
    <2>2. CASE a # s \/ b # d
      BY <1>6, <2>2, PostsOld
    <2> QED
      BY <2>1, <2>2
  <1> QED
    BY <1>7 DEF Posted

LEMMA PostsLess ==
    ASSUME Mail, NEW r, NEW s \in Ranks, NEW d \in Ranks, NEW kind,
           Arrived(d, s, kind), Receive(d, s),
           ReceiveMap(r) => s = Parent(r) /\ d = r
    PROVE  Posted(r)
  <1>1. PICK q : q = Tail(chan[s, d])
    OBVIOUS
  <1>2. chan' = [chan EXCEPT ![<<s, d>>] = q]
    BY <1>1 DEF Receive
  <1>3. /\ chan = [e \in Ranks \X Ranks |-> chan[e]]
        /\ \A a, b \in Ranks : Listed(chan[a, b])
    BY DEF Mail, AllFit
  <1>4. chan'[s, d] = q
    BY <1>2, <1>3
  <1>5. \A a, b \in Ranks : a # s \/ b # d => chan'[a, b] = chan[a, b]
    BY <1>2, <1>3
  <1>6. ASSUME NEW a \in Ranks, NEW b \in Ranks
        PROVE  Posts(r, a, b)
    <2>1. CASE a = s /\ b = d
      <3>1. Posts(r, s, d)
        BY <1>1, <1>3, <1>4, PostsRest
      <3> QED
        BY <2>1, <3>1
    <2>2. CASE a # s \/ b # d
      BY <1>5, <2>2, PostsOld
    <2> QED
      BY <2>1, <2>2
  <1> QED
    BY <1>6 DEF Posted

LEMMA PostsAnswer ==
    ASSUME Mail, NEW r, NEW s \in Ranks, NEW d \in Ranks, s # d, NEW kind,
           Arrived(d, s, kind), NEW m, Carried(d, s, m)', ~ReceiveMap(r),
           chan' = [chan EXCEPT ![<<s, d>>] = Tail(@),
                                ![<<d, s>>] = Append(@, m)]
    PROVE  Posted(r)
  <1>1. PICK q1, q2 : q1 = Tail(chan[s, d]) /\ q2 = Append(chan[d, s], m)
    OBVIOUS
  <1>2. /\ chan = [e \in Ranks \X Ranks |-> chan[e]]
        /\ \A a, b \in Ranks : Listed(chan[a, b])
    BY DEF Mail, AllFit
  <1>3. <<s, d>> # <<d, s>>
    BY Zenon
  <1>4. chan' = [chan EXCEPT ![<<s, d>>] = q1, ![<<d, s>>] = q2]
    BY <1>1, <1>2, <1>3
  <1>5. chan'[s, d] = q1 /\ chan'[d, s] = q2
    BY <1>2, <1>3, <1>4
  <1>6. \A a, b \in Ranks : ~(a = s /\ b = d) /\ ~(a = d /\ b = s) =>
            chan'[a, b] = chan[a, b]
    BY <1>2, <1>4
  <1>7. ASSUME NEW a \in Ranks, NEW b \in Ranks
        PROVE  Posts(r, a, b)
    <2>1. CASE a = s /\ b = d
      <3>1. Posts(r, s, d)
        BY <1>1, <1>2, <1>5, PostsRest
      <3> QED
        BY <2>1, <3>1
    <2>2. CASE a = d /\ b = s
      <3>1. Posts(r, d, s)
        BY <1>1, <1>2, <1>5, PostsNew
      <3> QED
        BY <2>2, <3>1
    <2>3. CASE ~(a = s /\ b = d) /\ ~(a = d /\ b = s)
      BY <1>6, <2>3, PostsOld
    <2> QED
      BY <2>1, <2>2, <2>3
  <1> QED
    BY <1>7 DEF Posted



LEMMA OtherRank ==
    ASSUME NEW r, Rest(r), NEW c \in Ranks, c # r
    PROVE  pc'[c] = pc[c] /\ lister'[c] = lister[c] /\ Up(c)' = Up(c)
  BY DEF Rest, Up

LEMMA ChildOther ==
    ASSUME PInv, NEW r \in Ranks, pc[r] \notin {"start", "buffer"},
           NEW k \in 2 .. Len(objs[r])
    PROVE  objs[r][k].rank # r
  <1>1. Family(r)
    BY DEF PInv
  <1>2. Edge(r, objs[r][k].rank)
    BY <1>1 DEF Family
  <1>3. PICK c : c = objs[r][k].rank
    OBVIOUS
  <1>4. r \in Nat /\ c \in Nat /\ r < c
    BY <1>2, <1>3, EdgeFacts
  <1>5. r # c
    BY <1>4
  <1> QED
    BY <1>3, <1>5

\* Steps that leave the rank's lists and tables as they are.
LEMMA PlaceNames ==
    ASSUME PInv, NInv, NEW r \in Ranks, RankStep(r), Posted(r),
           UNCHANGED <<lister, sortMap, objs, merged, child, unifier, bcast>>,
           pc[r] \notin {"start", "buffer"}, pc'[r] \notin {"start", "buffer"},
           pc'[r] \in {"done"} \cup Late <=> pc[r] \in {"done"} \cup Late,
           \A k \in Objects(r) : Leading(r, objs[r][k])',
           pc'[r] = "merge" => r = 0 \/ Len(objs[r]) > 1,
           pc'[r] = "down" => Fixed(lister[r])'
    PROVE  NInv'
  <1>1. NTypes /\ RankNames(r)
    BY DEF NInv
  <1>2. Rest(r) /\ db' = db
    BY <1>1, RestOfStep
  <1>3. NTypes'
    BY <1>1 DEF NTypes
  <1>4. Read(r)'
    BY <1>1, <1>2 DEF Read, RankNames
  <1>5. Kin(r)'
    <2>1. SUFFICES ASSUME NEW k \in 2 .. Len(objs[r]), k >= child[r]
                   PROVE  \E c \in Ranks :
                              /\ c = objs[r][k].rank /\ pc'[c] = "map"
                              /\ lister'[c] = lister[r]
                              /\ objs[r][k].strings = Up(c)'
      BY DEF Kin
    <2>2. PICK c \in Ranks : /\ c = objs[r][k].rank /\ pc[c] = "map"
                             /\ lister[c] = lister[r]
                             /\ objs[r][k].strings = Up(c)
      BY <1>1, <2>1 DEF RankNames, Kin
    <2>3. c # r
      BY <2>2, ChildOther
    <2> QED
      BY <1>2, <2>2, <2>3, OtherRank
  <1>6. ASSUME NEW l \in Listers
        PROVE  Given(r, l)'
    <2>1. Past(r, l)' <=> Past(r, l)
      BY DEF Past
    <2> QED
      BY <2>1, GivenStays
  <1>7. Objects(r)' = Objects(r)
    BY DEF Objects
  <1>8. RankNames(r)'
    BY <1>4, <1>5, <1>6, <1>7 DEF RankNames
  <1> QED
    BY <1>3, <1>8, NamesFollow, AnnouncedStays

LEMMA QuietNames ==
    ASSUME PInv, NInv, NEW r \in Ranks, RankStep(r), Posted(r),
           UNCHANGED <<lister, sortMap, objs, merged, child, unifier, bcast>>,
           pc[r] \notin {"start", "buffer"},
           pc'[r] \notin {"start", "buffer", "merge", "down"},
           pc'[r] \in {"done"} \cup Late <=> pc[r] \in {"done"} \cup Late,
           pc'[r] \in Collecting => pc[r] \in Collecting,
           pc'[r] \in Waiting => pc[r] \in Waiting
    PROVE  NInv'
  <1>1. RankNames(r)
    BY DEF NInv
  <1>2. ASSUME NEW k \in Objects(r)
        PROVE  Leading(r, objs[r][k])'
    <2>1. PICK o : o = objs[r][k] /\ o = objs'[r][k]
      OBVIOUS
    <2>2. Leading(r, o)
      BY <1>1, <1>2, <2>1 DEF RankNames
    <2>3. Up(r)' = Up(r)
      BY DEF Up
    <2>4. Leading(r, o)'
      BY <2>2, <2>3 DEF Leading
    <2> QED
      BY <2>1, <2>4
  <1> QED
    BY <1>2, PlaceNames

LEMMA Busy ==
    /\ "tree" \in Collecting /\ "len" \in Collecting /\ "names" \in Collecting
    /\ "ok" \in Waiting /\ "send" \in Waiting /\ "map" \in Waiting
    /\ {"start", "buffer", "tree", "len", "names", "merge", "ok", "send", "map", "down"}
       \cap ({"done"} \cup Late) = {}
    /\ Collecting \cap Waiting = {}
  BY DEF Collecting, Waiting, Late, AtRoot

LEMMA NotTaken ==
    ASSUME NEW r, pc[r] # "map"
    PROVE  ~ReceiveMap(r)
  BY DEF ReceiveMap

\* Messages that are neither lists nor tables.
LEMMA Plain ==
    ASSUME NEW s, NEW d, NEW m, m.kind \notin {"names", "map"}
    PROVE  Carried(s, d, m)'
  BY DEF Carried

LEMMA QuietSteps ==
    ASSUME PInv, NInv, NEW r \in Ranks, RankStep(r),
           \/ SkipChild(r) \/ AskChild(r) \/ ReceiveLength(r)
           \/ SendLength(r) \/ SendNames(r)
    PROVE  NInv'
  <1>1. pc \in [Ranks -> Places] /\ Mail
    BY DEF PInv, Forms
  <1> USE DEF treeVars, GoTo
  <1>2. CASE SkipChild(r)
    <2>1. pc[r] = "tree" /\ pc' = pc /\ chan' = chan
      BY <1>2 DEF SkipChild
    <2>2. Posted(r)
      BY <2>1, PostsNothing, NotTaken
    <2> QED
      BY <1>2, <2>1, <2>2, QuietNames, Busy DEF SkipChild
  <1>3. CASE AskChild(r)
    <2>1. pc[r] = "tree" /\ pc'[r] = "len" /\ Source(r) \in Ranks
      BY <1>1, <1>3 DEF AskChild
    <2>2. PICK c \in Ranks : c = Source(r)
      BY <2>1
    <2>3. Posted(r)
      <3>1. Send(r, c, "ok", <<>>) /\ ~ReceiveMap(r)
        BY <1>3, <2>1, <2>2, NotTaken DEF AskChild
      <3>2. Carried(r, c, Msg("ok", <<>>))'
        BY Plain, MsgFields
      <3> QED
        BY <1>1, <3>1, <3>2, PostsOne, Zenon
    <2> QED
      BY <1>3, <2>1, <2>3, QuietNames, Busy DEF AskChild
  <1>4. CASE ReceiveLength(r)
    <2>1. pc[r] = "len" /\ pc'[r] = "names" /\ Source(r) \in Ranks
      BY <1>1, <1>4 DEF ReceiveLength, PInv, Placed
    <2>2. Posted(r)
      BY <1>1, <1>4, <2>1, PostsLess, NotTaken DEF ReceiveLength
    <2> QED
      BY <1>4, <2>1, <2>2, QuietNames, Busy DEF ReceiveLength
  <1>5. CASE SendLength(r)
    <2>1. pc[r] = "ok" /\ pc'[r] = "send"
      BY <1>1, <1>5 DEF SendLength
    <2>2. Parent(r) \in Ranks /\ Parent(r) # r
      <3>1. Parent(r) \in Ranks /\ Edge(Parent(r), r)
        BY <2>1, Busy, ParentFacts
      <3>2. PICK p : p = Parent(r)
        OBVIOUS
      <3>3. p \in Nat /\ r \in Nat /\ p < r
        BY <3>1, <3>2, EdgeFacts
      <3>4. p # r
        BY <3>3
      <3> QED
        BY <3>1, <3>2, <3>4
    <2>3. PICK m : m = Msg("len", BufferLength(Up(r)))
      OBVIOUS
    <2>5. Posted(r)
      <3>1. PICK p \in Ranks : p = Parent(r) /\ p # r
        BY <2>2
      <3>2. /\ Arrived(r, p, "ok") /\ ~ReceiveMap(r)
            /\ chan' = [chan EXCEPT ![<<p, r>>] = Tail(@),
                                    ![<<r, p>>] = Append(@, m)]
        BY <1>5, <2>1, <2>3, <3>1, NotTaken DEF SendLength
      <3>3. Carried(r, p, m)'
        BY <2>3, MsgFields, Plain
      <3> QED
        BY <1>1, <3>1, <3>2, <3>3, PostsAnswer, Zenon
    <2> QED
      BY <1>5, <2>1, <2>5, QuietNames, Busy DEF SendLength
  <1>6. CASE SendNames(r)
    <2>1. pc[r] = "send" /\ pc'[r] = "map"
      BY <1>1, <1>6 DEF SendNames
    <2>2. PICK p \in Ranks : p = Parent(r)
      BY <2>1, Busy, ParentFacts
    <2>3. PICK up : up = Up(r)
      OBVIOUS
    <2>4. Up(r)' = up
      BY <1>6, <2>3 DEF SendNames, Up
    <2>5. Carried(r, p, Msg("names", up))'
      BY <2>1, <2>4, MsgFields DEF Carried
    <2>6. Send(r, p, "names", up) /\ ~ReceiveMap(r)
      BY <1>6, <2>1, <2>2, <2>3, NotTaken DEF SendNames
    <2>7. Posted(r)
      BY <1>1, <2>5, <2>6, PostsOne, Zenon
    <2> QED
      BY <1>6, <2>1, <2>7, QuietNames, Busy DEF SendNames
  <1> QED
    BY <1>2, <1>3, <1>4, <1>5, <1>6



LEMMA LateNames ==
    ASSUME PInv, NInv, NEW r \in Ranks, RankStep(r), LateStep(r)
    PROVE  NInv'
  <1>1. /\ pc[r] \in {"done"} \cup Late /\ pc'[r] \in Late /\ Mail /\ 0 \in Ranks
        /\ UNCHANGED <<db, lister, treeVars, bcast, unifier>>
    BY LateStepFacts, RankFacts DEF PInv
  <1>2. ~ReceiveMap(r) /\ pc[r] \notin {"start", "buffer"}
    <2>1. pc[r] # "map" /\ pc[r] \notin {"start", "buffer"}
      BY <1>1 DEF Late, AtRoot
    <2> QED
      BY <2>1, NotTaken
  <1>3. ASSUME Posted(r)
        PROVE  NInv'
    <2>1. /\ pc'[r] \notin {"start", "buffer", "merge", "down"}
          /\ pc'[r] \notin Collecting /\ pc'[r] \notin Waiting
          /\ pc'[r] \in {"done"} \cup Late
      BY <1>1 DEF Late, AtRoot, Collecting, Waiting
    <2> QED
      BY <1>1, <1>2, <1>3, <2>1, QuietNames DEF treeVars
  <1>4. CASE \/ Snapshot(r) \/ Contribute(r)
             \/ r = 0 /\ (Reduce \/ WriteDefinitions \/ OpenFails \/ WriteOwn)
    <2>1. chan' = chan
      BY <1>4 DEF Snapshot, Contribute, Reduce, WriteDefinitions, OpenFails,
                  WriteOwn
    <2> QED
      BY <1>2, <1>3, <2>1, PostsNothing
  <1>5. CASE r = 0 /\ AskRank
    <2>1. PICK g \in Ranks : g = gather
      BY <1>5 DEF AskRank
    <2>2. Send(r, g, "ok", <<>>)
      BY <1>5, <2>1 DEF AskRank
    <2>3. Carried(r, g, Msg("ok", <<>>))'
      BY Plain, MsgFields
    <2> QED
      BY <1>1, <1>2, <1>3, <2>2, <2>3, PostsOne, Zenon
  <1>6. CASE r = 0 /\ (ReceiveBlockLength \/ WriteBlock)
    <2>1. gather \in Ranks
      <3>1. Placed(0) /\ pc[0] \in {"blocklen", "block"}
        BY <1>1, <1>6 DEF PInv, ReceiveBlockLength, WriteBlock
      <3> QED
        BY <3>1 DEF Placed
    <2>2. PICK g \in Ranks : g = gather
      BY <2>1
    <2>3. PICK kind : Arrived(r, g, kind) /\ Receive(r, g)
      BY <1>6, <2>2 DEF ReceiveBlockLength, WriteBlock
    <2> QED
      BY <1>1, <1>2, <1>3, <2>3, PostsLess, Zenon
  <1>7. CASE SendBlockLength(r)
    <2>1. r # 0
      <3>1. Placed(r) /\ pc[r] = "ready"
        BY <1>7 DEF PInv, SendBlockLength
      <3> QED
        BY <3>1 DEF Placed
    <2>2. PICK m : m = Msg("len", Len(buffer[r]))
      OBVIOUS
    <2>3. /\ Arrived(r, 0, "ok")
          /\ chan' = [chan EXCEPT ![<<0, r>>] = Tail(@),
                                  ![<<r, 0>>] = Append(@, m)]
      BY <1>7, <2>2 DEF SendBlockLength
    <2>4. Carried(r, 0, m)'
      BY <2>2, Plain, MsgFields
    <2> QED
      BY <1>1, <1>2, <1>3, <2>1, <2>3, <2>4, PostsAnswer, Zenon
  <1>8. CASE SendBlock(r)
    <2>1. PICK b : b = buffer[r]
      OBVIOUS
    <2>2. Send(r, 0, "block", b)
      BY <1>8, <2>1 DEF SendBlock
    <2>3. Carried(r, 0, Msg("block", b))'
      BY Plain, MsgFields
    <2> QED
      BY <1>1, <1>2, <1>3, <2>2, <2>3, PostsOne, Zenon
  <1> QED
    BY <1>4, <1>5, <1>6, <1>7, <1>8 DEF LateStep, RootStep

LEMMA NextListerNames ==
    ASSUME PInv, NInv, NEW r \in Ranks, RankStep(r), NextLister(r)
    PROVE  NInv'
  <1>1. /\ NTypes /\ pc \in [Ranks -> Places] /\ lister \in [Ranks -> Listers]
    BY DEF NInv, PInv, Forms
  <1>2. /\ pc[r] = "done" /\ lister[r] = "functions"
        /\ pc'[r] = "start" /\ lister'[r] = "atomics"
        /\ UNCHANGED <<sortMap, unifier, bcast, chan>>
    BY <1>1 DEF NextLister, GoTo, treeVars
  <1>3. Posted(r)
    BY <1>2, PostsNothing, NotTaken
  <1>4. ASSUME NEW l \in Listers
        PROVE  Given(r, l)'
    <2>1. "start" \notin {"done"} \cup Late
      BY Busy
    <2>2. Past(r, l)' <=> Past(r, l)
      BY <1>2, <2>1 DEF Past, Listers
    <2> QED
      BY <1>2, <2>2, GivenStays
  <1>5. RankNames(r)'
    BY <1>2, <1>4 DEF RankNames, Read, Kin
  <1>6. NTypes'
    BY <1>1, <1>2 DEF NTypes
  <1> QED
    BY <1>2, <1>3, <1>5, <1>6, NamesFollow, AnnouncedStays

\* Databases may grow.
Grown ==
    \A l \in Listers, q \in Ranks :
        /\ Len(db[l][q]) \in Nat /\ Len(db'[l][q]) \in Nat
        /\ Len(db[l][q]) <= Len(db'[l][q])
        /\ \A i \in 1 .. Len(db[l][q]) : db'[l][q][i] = db[l][q][i]

LEMMA SortsLonger ==
    ASSUME NEW map, NEW entries, NEW longer, NEW strings,
           Len(map) \in Nat, Len(entries) \in Nat, Len(longer) \in Nat,
           Sorts(map, entries, strings), Len(entries) <= Len(longer),
           \A i \in 1 .. Len(entries) : longer[i] = entries[i]
    PROVE  Sorts(map, longer, strings)
  <1>1. Len(map) <= Len(longer)
    BY DEF Sorts
  <1>2. ASSUME NEW i \in 1 .. Len(map)
        PROVE  longer[map[i]].name = strings[i]
    <2>1. PICK k : k = map[i]
      OBVIOUS
    <2>2. k \in 1 .. Len(entries) /\ entries[k].name = strings[i]
      BY <2>1 DEF Sorts
    <2> QED
      BY <2>1, <2>2
  <1> QED
    BY <1>1, <1>2 DEF Sorts

LEMMA GrownNames ==
    ASSUME PInv, NInv, Grown,
           UNCHANGED <<lister, pc, sortMap, objs, merged, child, chan, bcast,
                       unifier>>
    PROVE  NInv'
  <1>1. /\ NTypes /\ \A r \in Ranks : RankNames(r) /\ lister[r] \in Listers
    BY DEF NInv, PInv, Forms
  <1>2. /\ \A r, l : Past(r, l)' <=> Past(r, l)
        /\ \A l : Global(l)' = Global(l)
        /\ \A l : Fixed(l)' <=> Fixed(l)
        /\ \A r : Global(lister[r])' = Global(lister[r])
        /\ \A r : Fixed(lister[r])' <=> Fixed(lister[r])
        /\ \A r : Up(r)' = Up(r) /\ Objects(r)' = Objects(r)
    BY DEF Past, Global, Fixed, Up, Objects
  <1>3. NTypes'
    BY <1>1 DEF NTypes
  <1>4. ASSUME NEW r \in Ranks
        PROVE  RankNames(r)'
    <2>1. RankNames(r)
      BY <1>1
    <2>2. Read(r)'
      <3>1. SUFFICES ASSUME pc[r] \notin {"start", "buffer"}
                     PROVE  Sorts(sortMap[r], db'[lister[r]][r], objs[r][1].strings)
        BY DEF Read
      <3>2. Sorts(sortMap[r], db[lister[r]][r], objs[r][1].strings)
        BY <2>1, <3>1 DEF RankNames, Read
      <3>3. Len(sortMap[r]) \in Nat
        BY <1>1 DEF NTypes
      <3>4. PICK l \in Listers : l = lister[r]
        BY <1>1
      <3> QED
        BY <3>2, <3>3, <3>4, SortsLonger DEF Grown
    <2>3. ASSUME pc[r] \notin {"start", "buffer"}, NEW k \in Objects(r)
          PROVE  Leading(r, objs[r][k])'
      <3>1. Leading(r, objs[r][k])
        BY <2>1, <2>3 DEF RankNames
      <3> QED
        BY <1>2, <3>1 DEF Leading
    <2>4. Kin(r)'
      BY <1>2, <2>1 DEF RankNames, Kin
    <2>5. ASSUME NEW l \in Listers
          PROVE  Given(r, l)'
      <3>1. PICK u : u = unifier[r][l]
        OBVIOUS
      <3>2. Given(r, l)
        BY <2>1 DEF RankNames
      <3>3. CASE ~Past(r, l)
        BY <1>2, <3>2, <3>3 DEF Given
      <3>4. CASE Past(r, l)
        <4>1. PICK strings \in Seq(Names) :
                  /\ u.localNumItems = Len(strings)
                  /\ Sorts(u.sortMap, db[l][r], strings)
                  /\ Guides(u.mapping, Len(strings), strings, Global(l))
          BY <3>1, <3>2, <3>4 DEF Given
        <4>2. Len(u.sortMap) \in Nat
          BY <4>1 DEF Sorts
        <4>3. Sorts(u.sortMap, db'[l][r], strings)
          BY <4>1, <4>2, SortsLonger DEF Grown
        <4> QED
          BY <1>2, <3>1, <3>2, <3>4, <4>1, <4>3 DEF Given
      <3> QED
        BY <3>3, <3>4
    <2> QED
      BY <1>2, <2>1, <2>2, <2>3, <2>4, <2>5 DEF RankNames
  <1>5. Carrying'
    <2>1. SUFFICES ASSUME NEW s \in Ranks, NEW d \in Ranks, NEW m \in Passing(s, d)
                   PROVE  Carried(s, d, m)'
      BY DEF Carrying, Passing
    <2>2. Carried(s, d, m)
      BY DEF NInv, Carrying
    <2> QED
      BY <1>2, <2>2 DEF Carried
  <1>6. Announced'
    BY <1>2 DEF NInv, Announced
  <1> QED
    BY <1>3, <1>4, <1>5, <1>6 DEF NInv



\* What a list is mapped to itself by, and one table after another.
LEMMA GuidesSelf ==
    ASSUME NEW strings, NEW table, NEW n, n \in Nat, n = Len(strings),
           \A j \in 1 .. n : table[j] = j
    PROVE  Guides(table, n, strings, strings)
  BY DEF Guides, Rises

LEMMA GuidesBoth ==
    ASSUME NEW from, NEW mid, NEW to, NEW n \in Nat, NEW table, NEW next,
           NEW m, m \in Nat, m = Len(mid), Guides(table, n, from, mid),
           Guides(next, m, mid, to), NEW both,
           \A j \in 1 .. n : both[j] = next[table[j]]
    PROVE  Guides(both, n, from, to)
  <1>1. \A j \in 1 .. n : table[j] \in 1 .. m /\ mid[table[j]] = from[j]
    BY DEF Guides
  <1>2. \A j \in 1 .. m : next[j] \in 1 .. Len(to) /\ to[next[j]] = mid[j]
    BY DEF Guides
  <1>3. ASSUME NEW i \in 1 .. n, NEW j \in 1 .. n, i < j
        PROVE  both[i] < both[j]
    <2>1. PICK a \in 1 .. m, b \in 1 .. m : a = table[i] /\ b = table[j]
      BY <1>1
    <2>2. a < b
      BY <1>3, <2>1 DEF Guides, Rises
    <2>3. next[a] < next[b]
      BY <2>2 DEF Guides, Rises
    <2>4. both[i] = next[a] /\ both[j] = next[b]
      BY <2>1
    <2> QED
      BY <2>3, <2>4
  <1>4. ASSUME NEW j \in 1 .. n
        PROVE  both[j] \in 1 .. Len(to) /\ to[both[j]] = from[j]
    <2>1. PICK a \in 1 .. m : a = table[j] /\ mid[a] = from[j]
      BY <1>1
    <2> QED
      BY <1>2, <2>1
  <1> QED
    BY <1>3, <1>4 DEF Guides, Rises

LEMMA HeadCarried ==
    ASSUME NInv, Mail, NEW s \in Ranks, NEW d \in Ranks, NEW kind,
           Arrived(d, s, kind)
    PROVE  Carried(s, d, Head(chan[s, d])) /\ Head(chan[s, d]).kind = kind
  <1>1. PICK q : q = chan[s, d]
    OBVIOUS
  <1>2. Listed(q) /\ q # <<>> /\ Head(q).kind = kind
    BY <1>1 DEF Mail, AllFit, Arrived
  <1>3. Head(q) = q[1] /\ Len(q) >= 1 /\ Len(q) \in Nat
    BY <1>2, ListedTail DEF Listed
  <1>4. 1 \in 1 .. Len(q)
    BY <1>3
  <1>5. q[1] \in Passing(s, d)
    BY <1>1, <1>4 DEF Passing
  <1>6. Carried(s, d, q[1])
    BY <1>5 DEF NInv, Carrying
  <1> QED
    BY <1>1, <1>2, <1>3, <1>6

\* Steps that change a rank's lists and tables, within a call.
LEMMA SelfNames ==
    ASSUME PInv, NInv, NEW r \in Ranks, RankStep(r), Posted(r),
           UNCHANGED <<lister, unifier, bcast>>,
           sortMap' \in [Ranks -> Seq(Nat)],
           pc[r] \notin {"done"} \cup Late, pc'[r] \notin {"done"} \cup Late,
           Read(r)', Kin(r)',
           pc'[r] \notin {"start", "buffer"} =>
               \A k \in Objects(r)' : Leading(r, objs[r][k])',
           pc'[r] = "merge" => r = 0 \/ Len(objs'[r]) > 1,
           pc'[r] = "down" => Fixed(lister[r])'
    PROVE  NInv'
  <1>1. NTypes /\ RankNames(r)
    BY DEF NInv
  <1>2. NTypes'
    BY <1>1 DEF NTypes
  <1>3. ASSUME NEW l \in Listers
        PROVE  Given(r, l)'
    <2>1. Past(r, l)' <=> Past(r, l)
      BY DEF Past
    <2> QED
      BY <2>1, GivenStays
  <1>4. RankNames(r)'
    BY <1>3 DEF RankNames
  <1> QED
    BY <1>2, <1>4, NamesFollow, AnnouncedStays

LEMMA ReadStays ==
    ASSUME PInv, NInv, NEW r \in Ranks, RankStep(r), pc[r] \notin {"start", "buffer"},
           UNCHANGED <<lister, sortMap>>,
           objs'[r][1].strings = objs[r][1].strings
    PROVE  Read(r)'
  <1>1. NTypes /\ RankNames(r)
    BY DEF NInv
  <1>2. db' = db
    BY <1>1, RestOfStep
  <1> QED
    BY <1>1, <1>2 DEF Read, RankNames

\* A child that waits for its table is not disturbed.
LEMMA KinStays ==
    ASSUME PInv, NInv, NEW r \in Ranks, RankStep(r), pc[r] \notin {"start", "buffer"},
           lister' = lister,
           \A k \in 2 .. Len(objs'[r]) : k >= child'[r] =>
               /\ k \in 2 .. Len(objs[r]) /\ k >= child[r]
               /\ objs'[r][k].rank = objs[r][k].rank
               /\ objs'[r][k].strings = objs[r][k].strings
    PROVE  Kin(r)'
  <1>1. NTypes /\ RankNames(r)
    BY DEF NInv
  <1>2. Rest(r)
    BY <1>1, RestOfStep
  <1>3. SUFFICES ASSUME NEW k \in 2 .. Len(objs'[r]), k >= child'[r]
                 PROVE  \E c \in Ranks :
                            /\ c = objs'[r][k].rank /\ pc'[c] = "map"
                            /\ lister'[c] = lister'[r]
                            /\ objs'[r][k].strings = Up(c)'
    BY DEF Kin
  <1>4. PICK i \in 2 .. Len(objs[r]) :
            /\ i = k /\ i >= child[r]
            /\ objs'[r][k].rank = objs[r][i].rank
            /\ objs'[r][k].strings = objs[r][i].strings
    BY <1>3
  <1>5. PICK c \in Ranks : /\ c = objs[r][i].rank /\ pc[c] = "map"
                           /\ lister[c] = lister[r]
                           /\ objs[r][i].strings = Up(c)
    BY <1>1, <1>4 DEF RankNames, Kin
  <1>6. c # r
    BY <1>4, <1>5, ChildOther
  <1>7. pc'[c] = "map" /\ Up(c)' = Up(c)
    BY <1>2, <1>5, <1>6, OtherRank
  <1> QED
    BY <1>4, <1>5, <1>7



\* A rank that has not taken its names from the database yet has no tables.
LEMMA StartNames ==
    ASSUME PInv, NInv, NEW r \in Ranks, RankStep(r), Start(r) \/ FillBufferCrash(r)
    PROVE  NInv'
  <1>1. NTypes /\ Forms
    BY DEF PInv, NInv
  <1>2. /\ pc[r] \in {"start", "buffer"} /\ pc'[r] = "buffer"
        /\ UNCHANGED <<db, lister, objs, merged, child, unifier, bcast, chan>>
    BY <1>1 DEF Start, FillBufferCrash, GoTo, Forms, treeVars
  <1>3. sortMap' \in [Ranks -> Seq(Nat)]
    <2>1. CASE Start(r)
      <3>1. PICK order \in SortMaps(db[lister[r]][r]) :
                sortMap' = [sortMap EXCEPT ![r] = order]
        BY <2>1 DEF Start
      <3>2. PICK n : n = Len(db[lister[r]][r])
        OBVIOUS
      <3>3. n \in Nat
        <4>1. db[lister[r]][r] \in Seq(Entries)
          BY <1>1 DEF Forms, Listers
        <4> QED
          BY <3>2, <4>1, LenProperties
      <3>4. order \in [1 .. n -> Nat]
        <4>1. order \in [1 .. n -> 1 .. n]
          BY <3>2 DEF SortMaps
        <4> QED
          BY <4>1
      <3>5. order \in Seq(Nat)
        BY <3>3, <3>4, FunctionIsSeq
      <3> QED
        BY <1>1, <3>1, <3>5 DEF NTypes
    <2>2. CASE FillBufferCrash(r)
      BY <1>1, <2>2 DEF FillBufferCrash, treeVars, NTypes
    <2> QED
      BY <2>1, <2>2
  <1>4. Read(r)' /\ Kin(r)'
    BY <1>2 DEF Read, Kin
  <1>5. Posted(r)
    BY <1>2, NotTaken, PostsNothing
  <1>6. /\ pc[r] \notin {"done"} \cup Late /\ pc'[r] \notin {"done"} \cup Late
        /\ pc'[r] \notin {"merge", "down"}
    BY <1>2, Busy
  <1> QED
    BY <1>2, <1>3, <1>4, <1>5, <1>6, SelfNames

LEMMA FillBufferNames ==
    ASSUME PInv, NInv, NEW r \in Ranks, RankStep(r), FillBuffer(r)
    PROVE  NInv'
  <1>1. NTypes /\ Forms
    BY DEF PInv, NInv
  <1>0. /\ pc[r] = "buffer" /\ pc'[r] = "tree" /\ child'[r] = 2
        /\ UNCHANGED <<db, lister, unifier, bcast, chan>>
    BY <1>1 DEF FillBuffer, GoTo, Forms
  <1>2. PICK order \in Reads(sortMap[r], db[lister[r]][r]) :
            /\ sortMap' = [sortMap EXCEPT ![r] = order]
            /\ objs' = [objs EXCEPT ![r] = <<NewObject(-1,
                   [i \in 1 .. Len(order) |-> db[lister[r]][r][order[i]].name])>>]
    BY DEF FillBuffer
  <1>3. PICK entries : entries = db[lister[r]][r]
    OBVIOUS
  <1>4. Len(entries) \in Nat
    <2>1. entries \in Seq(Entries)
      BY <1>1, <1>3 DEF Forms, Listers
    <2> QED
      BY <2>1, LenProperties
  <1>5. /\ order \in [1 .. Len(entries) -> 1 .. Len(entries)]
        /\ Len(order) = Len(entries) /\ order \in Seq(Nat)
    <2>1. order \in [1 .. Len(entries) -> 1 .. Len(entries)]
      BY <1>2, <1>3 DEF Reads
    <2>2. order \in [1 .. Len(entries) -> Nat]
      BY <2>1
    <2> QED
      BY <1>4, <2>1, <2>2, FunctionIsSeq
  <1>6. PICK strings : strings = [i \in 1 .. Len(order) |-> entries[order[i]].name]
    OBVIOUS
  <1>7. Len(strings) = Len(order)
    <2>1. strings = [i \in 1 .. Len(order) |-> strings[i]]
      BY <1>6
    <2> QED
      BY <1>4, <1>5, <2>1, EachListed
  <1>8. PICK o : o = NewObject(-1, strings)
    OBVIOUS
  <1>9. /\ o.strings = strings /\ o.idx = 1
        /\ o.mapping = [i \in 1 .. Len(strings) |-> i]
    BY <1>8 DEF NewObject
  <1>10. Len(o.mapping) = Len(strings)
    <2>1. o.mapping = [i \in 1 .. Len(strings) |-> o.mapping[i]]
      BY <1>9
    <2> QED
      BY <1>4, <1>5, <1>7, <2>1, EachListed
  <1>11. objs'[r] = <<o>> /\ sortMap'[r] = order
    <2>1. objs' = [objs EXCEPT ![r] = <<o>>]
      BY <1>2, <1>3, <1>6, <1>8
    <2> QED
      BY <1>1, <1>2, <2>1 DEF Forms, NTypes
  <1>12. objs'[r][1] = o /\ Len(objs'[r]) = 1
    BY <1>11, OneListed
  <1>13. Read(r)'
    <2>1. Sorts(order, entries, strings)
      BY <1>4, <1>5, <1>6, <1>7 DEF Sorts
    <2> QED
      BY <1>0, <1>3, <1>9, <1>11, <1>12, <2>1 DEF Read
  <1>14. Kin(r)'
    <2>1. \A k : k \notin 2 .. 1
      OBVIOUS
    <2> QED
      BY <1>12, <2>1 DEF Kin
  <1>15. ASSUME NEW k \in Objects(r)'
         PROVE  Leading(r, objs[r][k])'
    <2>1. k = 1
      BY <1>12, <1>15 DEF Objects
    <2>2. Leading(r, o)'
      BY <1>0, <1>4, <1>5, <1>7, <1>9, <1>10, Busy DEF Leading
    <2> QED
      BY <1>12, <2>1, <2>2
  <1>16. sortMap' \in [Ranks -> Seq(Nat)]
    BY <1>1, <1>2, <1>5 DEF NTypes
  <1>17. Posted(r)
    BY <1>0, NotTaken, PostsNothing
  <1>18. /\ pc[r] \notin {"done"} \cup Late /\ pc'[r] \notin {"done"} \cup Late
         /\ pc'[r] \notin {"merge", "down"}
    BY <1>0, Busy
  <1> QED
    BY <1>0, <1>13, <1>14, <1>15, <1>16, <1>17, <1>18, SelfNames

LEMMA ReceiveNamesNames ==
    ASSUME PInv, NInv, NEW r \in Ranks, RankStep(r), ReceiveNames(r)
    PROVE  NInv'
  <1>1. NTypes /\ Forms /\ Mail /\ Placed(r) /\ Family(r) /\ RankNames(r)
    BY DEF PInv, NInv
  <1>2. Rest(r)
    BY <1>1, RestOfStep
  <1>3. /\ pc[r] = "names" /\ pc'[r] = "tree"
        /\ UNCHANGED <<db, lister, unifier, bcast, sortMap, child>>
    BY <1>1 DEF ReceiveNames, GoTo, Forms
  <1>4. PICK c \in Ranks : c = Source(r)
    BY <1>1, <1>3 DEF Placed
  <1>5. r # c
    <2>1. Edge(r, c)
      BY <1>1, <1>3, <1>4 DEF Placed
    <2>2. r \in Nat /\ c \in Nat /\ r < c
      BY <2>1, EdgeFacts
    <2> QED
      BY <2>2
  <1>6. Arrived(r, c, "names") /\ Receive(r, c)
    BY <1>4 DEF ReceiveNames
  <1>7. PICK body : body = Head(chan[c, r]).body
    OBVIOUS
  <1>8. pc[c] = "map" /\ body = Up(c)
    BY <1>1, <1>6, <1>7, HeadCarried DEF Carried
  <1>9. lister[c] = lister[r]
    BY <1>3, <1>4, <1>6, <1>8, SameCall
  <1>10. pc'[c] = "map" /\ Up(c)' = body
    BY <1>2, <1>5, <1>8, OtherRank
  <1>11. PICK o : o = NewObject(c, body)
    OBVIOUS
  <1>12. /\ Listed(objs[r]) /\ Len(objs[r]) \in Nat /\ Len(objs[r]) >= 1
         /\ \A k \in 1 .. Len(objs[r]) : Leading(r, objs[r][k])
    BY <1>1, <1>3 DEF Forms, Listed, Family, Objects, RankNames
  <1>13. PICK os : os = Append(objs[r], o)
    OBVIOUS
  <1>14. /\ Len(os) = Len(objs[r]) + 1 /\ os[Len(objs[r]) + 1] = o
         /\ \A i \in 1 .. Len(objs[r]) : os[i] = objs[r][i]
    BY <1>12, <1>13, ListedAppend
  <1>15. objs'[r] = os
    <2>1. objs' = [objs EXCEPT ![r] = os]
      BY <1>4, <1>7, <1>11, <1>13 DEF ReceiveNames, Body
    <2> QED
      BY <1>1, <2>1 DEF Forms
  <1>16. /\ o.strings = body /\ o.idx = 1 /\ o.rank = c
         /\ o.mapping = [i \in 1 .. Len(body) |-> i]
    BY <1>11 DEF NewObject
  <1>17. Len(body) \in Nat
    <2>1. MessageFits(Head(chan[c, r]), numStrings[c], numStrings[r])
      BY <1>1, <1>6, TailFits DEF Mail, Arrived
    <2>2. Head(chan[c, r]).kind = "names"
      BY <1>6 DEF Arrived
    <2>3. body \in Seq(Names)
      BY <1>7, <2>1, <2>2 DEF MessageFits
    <2> QED
      BY <2>3, LenProperties
  <1>18. Len(o.mapping) = Len(body)
    <2>1. o.mapping = [i \in 1 .. Len(body) |-> o.mapping[i]]
      BY <1>16
    <2> QED
      BY <1>17, <2>1, EachListed
  <1>19. ASSUME NEW k \in Objects(r)'
         PROVE  Leading(r, objs[r][k])'
    <2>1. \/ k \in 1 .. Len(objs[r]) /\ os[k] = objs[r][k]
          \/ os[k] = o
      BY <1>12, <1>14, <1>15 DEF Objects
    <2>2. CASE k \in 1 .. Len(objs[r]) /\ os[k] = objs[r][k]
      <3>1. PICK x : x = objs[r][k]
        OBVIOUS
      <3>2. Leading(r, x)
        BY <1>12, <2>2, <3>1
      <3>3. Leading(r, x)'
        BY <1>3, <3>2, Busy DEF Leading
      <3> QED
        BY <1>15, <2>2, <3>1, <3>3
    <2>3. CASE os[k] = o
      <3>1. Leading(r, o)'
        BY <1>3, <1>16, <1>17, <1>18, Busy DEF Leading
      <3> QED
        BY <1>15, <2>3, <3>1
    <2> QED
      BY <2>1, <2>2, <2>3
  <1>20. Kin(r)'
    <2>1. SUFFICES ASSUME NEW k \in 2 .. Len(os), k >= child[r]
                   PROVE  \E e \in Ranks :
                              /\ e = os[k].rank /\ pc'[e] = "map"
                              /\ lister'[e] = lister[r]
                              /\ os[k].strings = Up(e)'
      BY <1>3, <1>15 DEF Kin
    <2>2. \/ k \in 2 .. Len(objs[r]) /\ os[k] = objs[r][k]
          \/ os[k] = o
      BY <1>12, <1>14, <2>1
    <2>3. CASE k \in 2 .. Len(objs[r]) /\ os[k] = objs[r][k]
      <3>1. PICK e \in Ranks : /\ e = objs[r][k].rank /\ pc[e] = "map"
                               /\ lister[e] = lister[r]
                               /\ objs[r][k].strings = Up(e)
        BY <1>1, <1>3, <2>1, <2>3 DEF RankNames, Kin
      <3>2. e # r
        BY <1>3, <2>3, <3>1, ChildOther
      <3>3. pc'[e] = "map" /\ Up(e)' = Up(e)
        BY <1>2, <3>1, <3>2, OtherRank
      <3> QED
        BY <1>3, <2>3, <3>1, <3>3
    <2>4. CASE os[k] = o
      BY <1>3, <1>9, <1>10, <1>16, <2>4
    <2> QED
      BY <2>2, <2>3, <2>4
  <1>21. Read(r)'
    <2>1. objs'[r][1] = objs[r][1]
      BY <1>12, <1>14, <1>15
    <2> QED
      BY <1>3, <2>1, ReadStays
  <1>22. Posted(r)
    BY <1>1, <1>3, <1>6, NotTaken, PostsLess
  <1>23. /\ pc[r] \notin {"done"} \cup Late /\ pc'[r] \notin {"done"} \cup Late
         /\ pc'[r] \notin {"merge", "down"}
    BY <1>3, Busy
  <1>24. sortMap' \in [Ranks -> Seq(Nat)]
    BY <1>1, <1>3 DEF NTypes
  <1> QED
    BY <1>3, <1>19, <1>20, <1>21, <1>22, <1>23, <1>24, SelfNames

LEMMA EndTreeNames ==
    ASSUME PInv, NInv, NEW r \in Ranks, RankStep(r), EndTree(r)
    PROVE  NInv'
  <1>1. Forms /\ Family(r) /\ RankNames(r)
    BY DEF PInv, NInv
  <1>2. /\ pc[r] = "tree"
        /\ pc'[r] = IF r = 0 \/ Len(objs[r]) > 1 THEN "merge" ELSE "ok"
        /\ UNCHANGED <<lister, sortMap, objs, merged, child, unifier, bcast, chan>>
    BY <1>1 DEF EndTree, GoTo, Forms, treeVars
  <1>3. Len(objs[r]) \in Nat /\ Len(objs[r]) >= 1
    BY <1>1, <1>2 DEF Forms, Listed, Family
  <1>4. ASSUME NEW k \in Objects(r)
        PROVE  Leading(r, objs[r][k])'
    <2>1. PICK o : o = objs[r][k] /\ o = objs'[r][k]
      BY <1>2
    <2>2. /\ Leading(r, o) /\ o.idx = 1
          /\ \A j \in 1 .. Len(o.strings) : o.mapping[j] = j
      BY <1>1, <1>2, <1>4, <2>1, Busy DEF RankNames, Leading
    <2>3. Len(o.strings) \in Nat
      <3>1. Formed(o)
        BY <1>1, <1>4, <2>1 DEF Forms
      <3> QED
        BY <3>1, LenProperties DEF Formed
    <2>4. CASE r = 0 \/ Len(objs[r]) > 1
      <3>1. pc'[r] = "merge" /\ pc'[r] \notin Collecting /\ pc'[r] \notin Waiting
        BY <1>2, <2>4 DEF Collecting, Waiting
      <3>2. Guides(o.mapping, o.idx - 1, o.strings, merged'[r])
        BY <2>2 DEF Guides, Rises
      <3>3. Leading(r, o)'
        BY <2>2, <3>1, <3>2 DEF Leading
      <3> QED
        BY <2>1, <3>3
    <2>5. CASE ~(r = 0 \/ Len(objs[r]) > 1)
      <3>1. pc'[r] = "ok" /\ pc'[r] \notin Collecting /\ pc'[r] \in Waiting
        BY <1>2, <2>5 DEF Collecting, Waiting
      <3>2. k = 1
        BY <1>3, <1>4, <2>5 DEF Objects
      <3>3. Up(r)' = o.strings
        BY <1>2, <2>1, <2>5, <3>2 DEF Up
      <3>4. PICK n \in Nat : n = Len(o.strings)
        BY <2>3
      <3>5. Guides(o.mapping, n, o.strings, o.strings)
        BY <2>2, <3>4, GuidesSelf
      <3>6. Leading(r, o)'
        BY <2>2, <3>1, <3>3, <3>4, <3>5 DEF Leading
      <3> QED
        BY <2>1, <3>6
    <2> QED
      BY <2>4, <2>5
  <1>5. Posted(r)
    BY <1>2, NotTaken, PostsNothing
  <1>6. /\ pc'[r] \notin {"done"} \cup Late /\ pc[r] \notin {"done"} \cup Late
        /\ pc'[r] \notin {"start", "buffer", "down"}
    BY <1>2, Busy
  <1>7. pc'[r] = "merge" => r = 0 \/ Len(objs[r]) > 1
    BY <1>2
  <1> QED
    BY <1>2, <1>4, <1>5, <1>6, <1>7, PlaceNames

LEMMA MergeEndNames ==
    ASSUME PInv, NInv, NEW r \in Ranks, RankStep(r), MergeEnd(r)
    PROVE  NInv'
  <1>1. Forms /\ Family(r) /\ RankNames(r)
    BY DEF PInv, NInv
  <1>2. /\ pc[r] = "merge" /\ pc'[r] = IF r = 0 THEN "down" ELSE "ok"
        /\ UNCHANGED <<lister, sortMap, objs, merged, child, unifier, bcast, chan>>
    BY <1>1 DEF MergeEnd, GoTo, Forms, treeVars
  <1>3. ASSUME NEW k \in Objects(r)
        PROVE  /\ Leading(r, objs[r][k])
               /\ Guides(objs[r][k].mapping, Len(objs[r][k].strings),
                         objs[r][k].strings, merged[r])
    <2>1. PICK o : o = objs[r][k]
      OBVIOUS
    <2>2. Leading(r, o) /\ Guides(o.mapping, o.idx - 1, o.strings, merged[r])
      BY <1>1, <1>2, <1>3, <2>1 DEF RankNames, Leading
    <2>3. ~Live(o)
      BY <1>3, <2>1 DEF MergeEnd, LiveObjs, Objects
    <2>4. Len(o.strings) \in Nat /\ o.idx \in Nat
      <3>1. Formed(o)
        BY <1>1, <1>3, <2>1 DEF Forms
      <3> QED
        BY <3>1, LenProperties DEF Formed
    <2>5. o.idx - 1 = Len(o.strings)
      BY <2>2, <2>3, <2>4 DEF Live, Leading
    <2> QED
      BY <2>1, <2>2, <2>5
  <1>4. r = 0 => Global(lister[0])' = merged[0] /\ Fixed(lister[0])'
    <2>1. SUFFICES ASSUME r = 0
                   PROVE  Global(lister[0])' = merged[0] /\ Fixed(lister[0])'
      OBVIOUS
    <2>2. pc'[0] = "down" /\ pc'[0] \notin {"done"} \cup Late
      BY <1>2, <2>1, Busy
    <2>3. ~Past(0, lister[0])'
      BY <1>2, <2>2 DEF Past
    <2> QED
      BY <1>2, <2>2, <2>3 DEF Global, Fixed
  <1>5. r # 0 => Up(r)' = merged[r]
    BY <1>1, <1>2 DEF Up, RankNames
  <1>6. ASSUME NEW k \in Objects(r)
        PROVE  Leading(r, objs[r][k])'
    <2>1. PICK o : o = objs[r][k] /\ o = objs'[r][k]
      BY <1>2
    <2>2. /\ Leading(r, o)
          /\ Guides(o.mapping, Len(o.strings), o.strings, merged[r])
      BY <1>3, <1>6, <2>1
    <2>3. pc'[r] \notin Collecting /\ pc'[r] # "merge"
      BY <1>2 DEF Collecting
    <2>4. CASE r = 0
      <3>1. pc'[r] \notin Waiting
        BY <1>2, <2>4 DEF Waiting
      <3>2. Global(lister[r])' = merged[r]
        BY <1>4, <2>4
      <3>3. Leading(r, o)'
        BY <2>2, <2>3, <3>1, <3>2 DEF Leading
      <3> QED
        BY <2>1, <3>3
    <2>5. CASE r # 0
      <3>1. pc'[r] # "down"
        BY <1>2, <2>5
      <3>2. Leading(r, o)'
        BY <1>5, <2>2, <2>3, <2>5, <3>1 DEF Leading
      <3> QED
        BY <2>1, <3>2
    <2> QED
      BY <2>4, <2>5
  <1>7. Posted(r)
    BY <1>2, NotTaken, PostsNothing
  <1>8. /\ pc'[r] \notin {"done"} \cup Late /\ pc[r] \notin {"done"} \cup Late
        /\ pc'[r] \notin {"start", "buffer", "merge"}
    BY <1>2, Busy
  <1>9. pc'[r] = "down" => Fixed(lister[r])'
    BY <1>2, <1>4
  <1> QED
    BY <1>2, <1>6, <1>7, <1>8, <1>9, PlaceNames



\* A turn of the merge: the name goes to the end of the merged list, and the
\* tables of the lists that have it lead there.
LEMMA GuidesLonger ==
    ASSUME NEW table, NEW n, NEW from, NEW to, NEW longer,
           Guides(table, n, from, to), Len(to) \in Nat, Len(longer) = Len(to) + 1,
           \A i \in 1 .. Len(to) : longer[i] = to[i]
    PROVE  Guides(table, n, from, longer)
  <1>1. ASSUME NEW j \in 1 .. n
        PROVE  table[j] \in 1 .. Len(longer) /\ longer[table[j]] = from[j]
    <2>1. PICK a \in 1 .. Len(to) : a = table[j] /\ to[a] = from[j]
      BY DEF Guides
    <2> QED
      BY <2>1
  <1> QED
    BY <1>1 DEF Guides

LEMMA GuidesNext ==
    ASSUME NEW table, NEW n \in Nat, n >= 1, NEW from, NEW to, NEW longer,
           Guides(table, n - 1, from, to), Len(to) \in Nat,
           Len(longer) = Len(to) + 1, \A i \in 1 .. Len(to) : longer[i] = to[i],
           longer[Len(longer)] = from[n], NEW next,
           \A j \in 1 .. n - 1 : next[j] = table[j], next[n] = Len(longer)
    PROVE  Guides(next, n, from, longer)
  <1>1. \A j \in 1 .. n : j \in 1 .. n - 1 \/ j = n
    OBVIOUS
  <1>2. ASSUME NEW j \in 1 .. n - 1
        PROVE  next[j] \in 1 .. Len(to) /\ longer[next[j]] = from[j]
    <2>1. PICK a \in 1 .. Len(to) : a = table[j] /\ to[a] = from[j]
      BY DEF Guides
    <2> QED
      BY <2>1
  <1>3. ASSUME NEW j \in 1 .. n
        PROVE  next[j] \in 1 .. Len(longer) /\ longer[next[j]] = from[j]
    BY <1>1, <1>2
  <1>4. ASSUME NEW i \in 1 .. n, NEW j \in 1 .. n, i < j
        PROVE  next[i] < next[j]
    <2>1. i \in 1 .. n - 1
      BY <1>4
    <2>2. CASE j = n
      <3>1. next[i] \in 1 .. Len(to)
        BY <1>2, <2>1
      <3> QED
        BY <2>2, <3>1
    <2>3. CASE j \in 1 .. n - 1
      <3>1. table[i] < table[j]
        BY <1>4, <2>1, <2>3 DEF Guides, Rises
      <3> QED
        BY <2>1, <2>3, <3>1
    <2> QED
      BY <1>1, <2>2, <2>3
  <1> QED
    BY <1>3, <1>4 DEF Guides, Rises

LEMMA AdvancedLeads ==
    ASSUME NEW o, Formed(o), Len(o.mapping) = Len(o.strings),
           o.idx <= Len(o.strings) + 1, NEW to, Len(to) \in Nat,
           Guides(o.mapping, o.idx - 1, o.strings, to), NEW name, NEW longer,
           Len(longer) = Len(to) + 1, \A i \in 1 .. Len(to) : longer[i] = to[i],
           longer[Len(longer)] = name, NEW p, p = Advanced(o, name, Len(longer))
    PROVE  /\ p.strings = o.strings /\ Len(p.mapping) = Len(p.strings)
           /\ p.idx <= Len(p.strings) + 1
           /\ Guides(p.mapping, p.idx - 1, p.strings, longer)
  <1>1. /\ p.strings = o.strings /\ Len(p.mapping) = Len(o.mapping)
    BY AdvancedFacts
  <1>2. Len(o.strings) \in Nat /\ o.idx \in Nat /\ o.idx >= 1
    BY LenProperties DEF Formed
  <1>3. CASE Live(o) /\ Current(o) = name
    <2>1. PICK m : m = [o.mapping EXCEPT ![o.idx] = Len(longer)]
      OBVIOUS
    <2>2. PICK n \in Nat : n = o.idx /\ n >= 1 /\ n <= Len(o.strings)
      BY <1>2, <1>3 DEF Live
    <2>3. p.mapping = m /\ p.idx = n + 1
      <3>1. p = [o EXCEPT !.mapping = m, !.idx = n + 1]
        BY <1>3, <2>1, <2>2 DEF Advanced
      <3> QED
        BY <3>1 DEF Formed
    <2>4. /\ o.mapping = [i \in 1 .. Len(o.strings) |-> o.mapping[i]]
      BY DEF Formed, Listed
    <2>5. m[n] = Len(longer) /\ \A j \in 1 .. n - 1 : m[j] = o.mapping[j]
      BY <1>2, <2>1, <2>2, <2>4
    <2>6. longer[Len(longer)] = o.strings[n]
      BY <1>3, <2>2 DEF Current
    <2>7. Guides(o.mapping, n - 1, o.strings, to)
      BY <2>2
    <2>8. Guides(m, n, o.strings, longer)
      BY <2>2, <2>5, <2>6, <2>7, GuidesNext
    <2>9. p.idx - 1 = n /\ p.idx <= Len(o.strings) + 1
      BY <1>2, <2>2, <2>3
    <2> QED
      BY <1>1, <2>3, <2>8, <2>9
  <1>4. CASE ~(Live(o) /\ Current(o) = name)
    <2>1. p = o
      BY <1>4 DEF Advanced
    <2>2. Guides(o.mapping, o.idx - 1, o.strings, longer)
      BY GuidesLonger
    <2> QED
      BY <2>1, <2>2
  <1> QED
    BY <1>3, <1>4

LEMMA MergeNextNames ==
    ASSUME PInv, NInv, NEW r \in Ranks, RankStep(r), MergeNext(r)
    PROVE  NInv'
  <1>1. NTypes /\ Forms /\ Family(r) /\ RankNames(r)
    BY DEF PInv, NInv
  <1>2. /\ pc[r] = "merge" /\ pc' = pc
        /\ UNCHANGED <<lister, sortMap, child, unifier, bcast, chan>>
    BY DEF MergeNext
  <1>3. PICK i \in LiveObjs(r) :
            /\ merged' = [merged EXCEPT ![r] = Append(@, Current(objs[r][i]))]
            /\ objs' = [objs EXCEPT ![r] = [k \in 1 .. Len(objs[r]) |->
                   Advanced(objs[r][k], Current(objs[r][i]), Len(merged[r]) + 1)]]
    BY DEF MergeNext
  <1>4. PICK name, count : /\ name = Current(objs[r][i])
                           /\ count = Len(merged[r]) + 1
    OBVIOUS
  <1>5. PICK old, new : old = merged[r] /\ new = Append(old, name)
    OBVIOUS
  <1>6. /\ Len(old) \in Nat /\ Len(new) = Len(old) + 1 /\ new[Len(new)] = name
        /\ \A j \in 1 .. Len(old) : new[j] = old[j]
    <2>1. old \in Seq(Names)
      BY <1>1, <1>5 DEF Forms
    <2>2. Listed(old) /\ Len(old) \in Nat
      BY <2>1, SeqIsListed, LenProperties
    <2> QED
      BY <1>5, <2>2, ListedAppend
  <1>7. merged'[r] = new /\ count = Len(new)
    <2>1. merged' = [merged EXCEPT ![r] = new]
      BY <1>3, <1>4, <1>5
    <2> QED
      BY <1>1, <1>4, <1>5, <1>6, <2>1 DEF Forms
  <1>8. PICK os : os = [k \in 1 .. Len(objs[r]) |->
                            Advanced(objs[r][k], name, count)]
    OBVIOUS
  <1>9. objs'[r] = os
    <2>1. objs' = [objs EXCEPT ![r] = os]
      BY <1>3, <1>4, <1>8
    <2> QED
      BY <1>1, <2>1 DEF Forms
  <1>10. Len(objs[r]) \in Nat /\ Len(objs[r]) >= 1 /\ Len(os) = Len(objs[r])
    <2>1. Len(objs[r]) \in Nat /\ Len(objs[r]) >= 1
      BY <1>1, <1>2 DEF Forms, Listed, Family
    <2>2. os = [k \in 1 .. Len(objs[r]) |-> os[k]]
      BY <1>8
    <2> QED
      BY <2>1, <2>2, EachListed
  <1>11. ASSUME NEW k \in 1 .. Len(objs[r])
         PROVE  /\ os[k].rank = objs[r][k].rank
                /\ os[k].strings = objs[r][k].strings
                /\ Len(os[k].mapping) = Len(os[k].strings)
                /\ os[k].idx <= Len(os[k].strings) + 1
                /\ Guides(os[k].mapping, os[k].idx - 1, os[k].strings, new)
    <2>1. PICK o : o = objs[r][k]
      OBVIOUS
    <2>2. Formed(o) /\ Leading(r, o)
      BY <1>1, <1>2, <2>1 DEF Forms, RankNames, Objects
    <2>3. PICK p : p = Advanced(o, name, Len(new)) /\ p = os[k]
      BY <1>7, <1>8, <2>1
    <2>4. Guides(o.mapping, o.idx - 1, o.strings, old)
      BY <1>2, <1>5, <2>2 DEF Leading
    <2>5. /\ p.strings = o.strings /\ Len(p.mapping) = Len(p.strings)
          /\ p.idx <= Len(p.strings) + 1
          /\ Guides(p.mapping, p.idx - 1, p.strings, new)
      BY <1>6, <2>2, <2>3, <2>4, AdvancedLeads DEF Leading
    <2>6. p.rank = o.rank
      <3>1. Formed(o)
        BY <2>2
      <3>2. Advanced(o, name, Len(new)).rank = o.rank
        BY <3>1, AdvancedFacts
      <3> QED
        BY <2>3, <3>2
    <2> QED
      BY <2>1, <2>3, <2>5, <2>6
  <1>12. ASSUME NEW k \in Objects(r)'
         PROVE  Leading(r, objs[r][k])'
    <2>1. k \in 1 .. Len(objs[r])
      BY <1>9, <1>10 DEF Objects
    <2>2. PICK p : p = os[k]
      OBVIOUS
    <2>3. /\ Len(p.mapping) = Len(p.strings) /\ p.idx <= Len(p.strings) + 1
          /\ Guides(p.mapping, p.idx - 1, p.strings, merged'[r])
      BY <1>7, <1>11, <2>1, <2>2
    <2>4. /\ pc'[r] = "merge" /\ pc'[r] \notin Collecting /\ pc'[r] \notin Waiting
      BY <1>2 DEF Collecting, Waiting
    <2>5. Leading(r, p)'
      BY <2>3, <2>4 DEF Leading
    <2> QED
      BY <1>9, <2>2, <2>5
  <1>13. Kin(r)'
    <2>1. \A k \in 2 .. Len(objs[r]) : k \in 1 .. Len(objs[r])
      BY <1>10
    <2> QED
      BY <1>2, <1>9, <1>10, <1>11, <2>1, KinStays
  <1>14. Read(r)'
    <2>1. 1 \in 1 .. Len(objs[r])
      BY <1>10
    <2> QED
      BY <1>2, <1>9, <1>11, <2>1, ReadStays
  <1>15. Posted(r)
    BY <1>2, NotTaken, PostsNothing
  <1>16. /\ pc[r] \notin {"done"} \cup Late /\ pc'[r] \notin {"done"} \cup Late
         /\ pc'[r] # "down"
    BY <1>2, Busy
  <1>17. r = 0 \/ Len(objs'[r]) > 1
    BY <1>1, <1>2, <1>9, <1>10 DEF RankNames
  <1>18. sortMap' \in [Ranks -> Seq(Nat)]
    BY <1>1, <1>2 DEF NTypes
  <1> QED
    BY <1>2, <1>12, <1>13, <1>14, <1>15, <1>16, <1>17, <1>18, SelfNames

LEMMA ReceiveMapNames ==
    ASSUME PInv, NInv, NEW r \in Ranks, RankStep(r), ReceiveMap(r)
    PROVE  NInv'
  <1>1. NTypes /\ Forms /\ Mail /\ Family(r) /\ RankNames(r)
    BY DEF PInv, NInv
  <1>2. /\ pc[r] = "map" /\ pc'[r] = "down"
        /\ UNCHANGED <<lister, sortMap, merged, child, unifier, bcast>>
    BY <1>1 DEF ReceiveMap, GoTo, Forms
  <1>3. Steady
    BY <1>1, SteadyStep
  <1>4. PICK p \in Ranks : p = Parent(r)
    BY <1>2, Busy, ParentFacts
  <1>5. Arrived(r, p, "map") /\ Receive(r, p)
    BY <1>4 DEF ReceiveMap
  <1>6. PICK table : table = Head(chan[p, r]).body
    OBVIOUS
  <1>7. /\ Fixed(lister[r]) /\ Len(table) = Len(Up(r))
        /\ Guides(table, Len(table), Up(r), Global(lister[r]))
    BY <1>1, <1>5, <1>6, HeadCarried DEF Carried
  <1>8. Fixed(lister[r])' /\ Global(lister[r])' = Global(lister[r])
    <2>1. PICK l \in Listers : l = lister[r]
      BY <1>1 DEF Forms
    <2> QED
      BY <1>2, <1>3, <1>7, <2>1, SameGlobal DEF Steady
  <1>9. PICK os : os = [k \in 1 .. Len(objs[r]) |-> Mapped(objs[r][k], table)]
    OBVIOUS
  <1>10. objs'[r] = os
    <2>1. objs' = [objs EXCEPT ![r] = os]
      BY <1>4, <1>6, <1>9 DEF ReceiveMap, Body
    <2> QED
      BY <1>1, <2>1 DEF Forms
  <1>11. Len(objs[r]) \in Nat /\ Len(objs[r]) >= 1 /\ Len(os) = Len(objs[r])
    <2>1. Len(objs[r]) \in Nat /\ Len(objs[r]) >= 1
      BY <1>1, <1>2 DEF Forms, Listed, Family
    <2>2. os = [k \in 1 .. Len(objs[r]) |-> os[k]]
      BY <1>9
    <2> QED
      BY <2>1, <2>2, EachListed
  <1>12. PICK up, global : up = Up(r) /\ global = Global(lister[r])
    OBVIOUS
  <1>13. Len(up) \in Nat
    <2>1. merged[r] \in Seq(Names)
      BY <1>1 DEF Forms
    <2>2. objs[r][1].strings \in Seq(Names)
      <3>1. 1 \in Objects(r)
        BY <1>11 DEF Objects
      <3> QED
        BY <1>1, <3>1 DEF Forms, Formed
    <2> QED
      BY <1>12, <2>1, <2>2, LenProperties DEF Up
  <1>14. ASSUME NEW k \in 1 .. Len(objs[r])
         PROVE  /\ os[k].rank = objs[r][k].rank
                /\ os[k].strings = objs[r][k].strings
                /\ Leading(r, os[k])'
    <2>1. PICK o : o = objs[r][k]
      OBVIOUS
    <2>2. Formed(o) /\ Leading(r, o)
      BY <1>1, <1>2, <2>1 DEF Forms, RankNames, Objects
    <2>3. PICK p1 : p1 = Mapped(o, table) /\ p1 = os[k]
      BY <1>9, <2>1
    <2>4. /\ p1.rank = o.rank /\ p1.strings = o.strings
          /\ Len(p1.mapping) = Len(o.mapping) /\ p1.idx = o.idx
          /\ p1.mapping = [j \in 1 .. Len(o.mapping) |-> table[o.mapping[j]]]
      <3>1. PICK m : m = [j \in 1 .. Len(o.mapping) |-> table[o.mapping[j]]]
        OBVIOUS
      <3>2. p1 = [o EXCEPT !.mapping = m]
        BY <2>3, <3>1 DEF Mapped
      <3>3. p1.idx = o.idx /\ p1.mapping = m
        BY <2>2, <3>2 DEF Formed
      <3>4. Formed(o)
        BY <2>2
      <3>5. /\ Mapped(o, table).rank = o.rank
            /\ Mapped(o, table).strings = o.strings
            /\ Len(Mapped(o, table).mapping) = Len(o.mapping)
        BY <3>4, MappedFacts
      <3> QED
        BY <2>3, <3>1, <3>3, <3>5
    <2>5. /\ Len(o.mapping) = Len(o.strings) /\ o.idx <= Len(o.strings) + 1
          /\ Guides(o.mapping, Len(o.strings), o.strings, up)
      BY <1>2, <1>12, <2>2, Busy DEF Leading
    <2>6. PICK n \in Nat : n = Len(o.strings)
      BY <2>2, LenProperties DEF Formed
    <2>7. PICK both : both = p1.mapping
      OBVIOUS
    <2>8. Guides(both, n, o.strings, global)
      <3>1. Guides(table, Len(up), up, global)
        BY <1>7, <1>12
      <3>2. \A j \in 1 .. n : both[j] = table[o.mapping[j]]
        BY <2>4, <2>5, <2>6, <2>7
      <3>3. Guides(o.mapping, n, o.strings, up)
        BY <2>5, <2>6
      <3> QED
        BY <1>13, <3>1, <3>2, <3>3, GuidesBoth
    <2>9. pc'[r] \notin Collecting /\ pc'[r] \notin Waiting /\ pc'[r] # "merge"
      BY <1>2 DEF Collecting, Waiting
    <2>10. Leading(r, p1)'
      BY <1>8, <1>12, <2>4, <2>5, <2>6, <2>7, <2>8, <2>9 DEF Leading
    <2> QED
      BY <2>1, <2>3, <2>4, <2>10
  <1>15. \A k \in Objects(r)' : Leading(r, objs[r][k])'
    BY <1>10, <1>11, <1>14 DEF Objects
  <1>16. Kin(r)'
    <2>1. \A k \in 2 .. Len(objs[r]) : k \in 1 .. Len(objs[r])
      BY <1>11
    <2> QED
      BY <1>2, <1>10, <1>11, <1>14, <2>1, KinStays
  <1>17. Read(r)'
    <2>1. 1 \in 1 .. Len(objs[r])
      BY <1>11
    <2> QED
      BY <1>2, <1>10, <1>14, <2>1, ReadStays
  <1>18. Posted(r)
    BY <1>1, <1>4, <1>5, PostsLess, Zenon
  <1>19. /\ pc[r] \notin {"done"} \cup Late /\ pc'[r] \notin {"done"} \cup Late
         /\ pc'[r] # "merge"
    BY <1>2, Busy
  <1>20. sortMap' \in [Ranks -> Seq(Nat)]
    BY <1>1, <1>2 DEF NTypes
  <1> QED
    BY <1>2, <1>8, <1>15, <1>16, <1>17, <1>18, <1>19, <1>20, SelfNames

LEMMA SendMapNames ==
    ASSUME PInv, NInv, NEW r \in Ranks, RankStep(r), SendMap(r)
    PROVE  NInv'
  <1>1. NTypes /\ Forms /\ Mail /\ Placed(r) /\ Family(r) /\ RankNames(r)
    BY DEF PInv, NInv
  <1>2. /\ pc[r] = "down" /\ pc' = pc /\ Len(objs[r]) \in Nat
        /\ child[r] \in Nat /\ child'[r] = child[r] + 1
        /\ UNCHANGED <<lister, sortMap, objs, merged, unifier, bcast>>
    BY <1>1 DEF SendMap, Forms, Listed
  <1>3. Steady /\ Rest(r)
    BY <1>1, SteadyStep, RestOfStep
  <1>4. PICK k \in 2 .. Len(objs[r]) : k = child[r]
    BY <1>1, <1>2 DEF SendMap, Placed
  <1>5. PICK d \in Ranks : /\ d = objs[r][k].rank /\ pc[d] = "map"
                           /\ lister[d] = lister[r] /\ objs[r][k].strings = Up(d)
    BY <1>1, <1>2, <1>4 DEF RankNames, Kin
  <1>6. d # r
    BY <1>2, <1>5
  <1>7. PICK o : o = objs[r][k]
    OBVIOUS
  <1>8. /\ Len(o.mapping) = Len(o.strings)
        /\ Guides(o.mapping, Len(o.strings), o.strings, Global(lister[r]))
    <2>1. k \in Objects(r)
      BY <1>2 DEF Objects
    <2> QED
      BY <1>1, <1>2, <1>7, <2>1 DEF RankNames, Leading
  <1>9. PICK table : table = o.mapping
    OBVIOUS
  <1>10. Send(r, d, "map", table)
    BY <1>4, <1>5, <1>7, <1>9 DEF SendMap
  <1>11. Fixed(lister[r]) /\ Fixed(lister[r])' /\ Global(lister[r])' = Global(lister[r])
    <2>1. PICK l \in Listers : l = lister[r]
      BY <1>1 DEF Forms
    <2> QED
      BY <1>1, <1>2, <1>3, <2>1, SameGlobal DEF Steady, RankNames
  <1>12. pc'[d] = "map" /\ lister'[d] = lister[r] /\ Up(d)' = o.strings
    BY <1>3, <1>5, <1>6, <1>7, OtherRank
  <1>13. Carried(r, d, Msg("map", table))'
    <2>1. PICK m : m = Msg("map", table)
      OBVIOUS
    <2>2. m.kind = "map" /\ m.body = table
      BY <2>1, MsgFields
    <2>3. Fixed(lister[d])' /\ Global(lister[d])' = Global(lister[r])
      BY <1>2, <1>11, <1>12 DEF Fixed, Global, Past
    <2>4. Carried(r, d, m)'
      BY <1>8, <1>9, <1>12, <2>2, <2>3 DEF Carried
    <2> QED
      BY <2>1, <2>4
  <1>14. Posted(r)
    <2>1. ~ReceiveMap(r)
      BY <1>2, NotTaken
    <2> QED
      BY <1>1, <1>10, <1>13, <2>1, PostsOne, Zenon
  <1>15. ASSUME NEW j \in Objects(r)'
         PROVE  Leading(r, objs[r][j])'
    <2>1. j \in Objects(r)
      BY <1>2 DEF Objects
    <2>2. PICK x : x = objs[r][j] /\ x = objs'[r][j]
      BY <1>2
    <2>3. Leading(r, x)
      BY <1>1, <1>2, <2>1, <2>2 DEF RankNames
    <2>4. pc'[r] = "down" /\ pc'[r] \notin Collecting /\ pc'[r] \notin Waiting
      BY <1>2 DEF Collecting, Waiting
    <2>5. Leading(r, x)'
      BY <1>2, <1>11, <2>3, <2>4 DEF Leading
    <2> QED
      BY <2>2, <2>5
  <1>16. Kin(r)'
    <2>1. \A j \in 2 .. Len(objs[r]) : j >= child'[r] => j >= child[r]
      BY <1>2
    <2> QED
      BY <1>2, <2>1, KinStays
  <1>17. Read(r)'
    BY <1>2, ReadStays
  <1>18. /\ pc[r] \notin {"done"} \cup Late /\ pc'[r] \notin {"done"} \cup Late
         /\ pc'[r] # "merge"
    BY <1>2, Busy
  <1>19. sortMap' \in [Ranks -> Seq(Nat)]
    BY <1>1, <1>2 DEF NTypes
  <1> QED
    BY <1>2, <1>11, <1>14, <1>15, <1>16, <1>17, <1>18, <1>19, SelfNames



\* The result of a call.
LEMMA ReturnNames ==
    ASSUME PInv, NInv, NEW r \in Ranks, RankStep(r), Return(r)
    PROVE  NInv'
  <1>1. NTypes /\ Forms /\ Placed(r) /\ Family(r) /\ RankNames(r) /\ Announced
    BY DEF PInv, NInv
  <1>2. PICK l \in Listers : l = lister[r]
    BY <1>1 DEF Forms
  <1>3. PICK n : n = IF r = 0 THEN Len(merged[r]) ELSE bcast[l]
    OBVIOUS
  <1>4. /\ pc[r] = "down" /\ pc'[r] = "done" /\ (r # 0 => bcast[l] # -1)
        /\ bcast' = [bcast EXCEPT ![l] = n]
        /\ unifier' = [unifier EXCEPT ![r] = [unifier[r] EXCEPT ![l] = Unified(r, n)]]
        /\ UNCHANGED <<db, lister, sortMap, objs, merged, child, chan>>
    BY <1>1, <1>2, <1>3 DEF Return, GoTo, Forms, treeVars
  <1>5. Steady /\ Rest(r)
    BY <1>1, SteadyStep, RestOfStep
  <1>6. Fixed(l) /\ Fixed(l)' /\ Global(l)' = Global(l) /\ ~Past(r, l)
    <2>1. Fixed(l)
      BY <1>1, <1>2, <1>4, SameGlobal DEF RankNames
    <2>2. ~Past(r, l)
      BY <1>2, <1>4, Busy DEF Past
    <2> QED
      BY <1>5, <2>1, <2>2 DEF Steady
  <1>7. PICK global : global = Global(l) /\ global = Global(l)'
    BY <1>6
  <1>8. Past(r, l)' /\ Past(0, l)' /\ n \in Nat /\ n = Len(global)
    <2>1. Past(r, l)'
      BY <1>2, <1>4 DEF Past
    <2>2. CASE r = 0
      <3>1. global = merged[0]
        BY <1>6, <1>7, <2>2 DEF Global
      <3>2. Len(merged[0]) \in Nat
        BY <1>1, <2>2, LenProperties DEF Forms
      <3> QED
        BY <1>3, <2>1, <2>2, <3>1, <3>2
    <2>3. CASE r # 0
      <3>1. Past(0, l) /\ n = Len(global) /\ n # -1
        BY <1>1, <1>3, <1>4, <1>7, <2>3 DEF Announced
      <3>2. n \in Nat
        BY <1>1, <1>3, <2>3, <3>1 DEF NTypes
      <3> QED
        BY <1>5, <2>1, <3>1, <3>2 DEF Steady, Fixed
    <2> QED
      BY <2>2, <2>3
  <1>9. PICK o : o = objs[r][1]
    OBVIOUS
  <1>10. /\ Formed(o) /\ Len(o.mapping) = Len(o.strings)
         /\ Guides(o.mapping, Len(o.strings), o.strings, global)
         /\ Sorts(sortMap[r], db[l][r], o.strings)
    <2>1. 1 \in Objects(r)
      BY <1>1, <1>4 DEF Family, Forms, Listed, Objects
    <2>2. Formed(o) /\ Leading(r, o)
      BY <1>1, <1>4, <1>9, <2>1 DEF Forms, RankNames
    <2>3. Sorts(sortMap[r], db[l][r], o.strings)
      BY <1>1, <1>2, <1>4, <1>9 DEF RankNames, Read
    <2>4. Global(lister[r]) = global
      BY <1>2, <1>7
    <2> QED
      BY <1>4, <2>2, <2>3, <2>4 DEF Leading
  <1>11. PICK m, strings : m = o.mapping /\ strings = o.strings
    OBVIOUS
  <1>12. strings \in Seq(Names) /\ Len(strings) \in Nat
    BY <1>10, <1>11, LenProperties DEF Formed
  <1>13. m \in Seq(Nat)
    <2>1. Listed(m) /\ Len(m) = Len(strings)
      BY <1>10, <1>11 DEF Formed
    <2>2. \A j \in 1 .. Len(m) : m[j] \in Nat
      <3>1. \A j \in 1 .. Len(strings) : m[j] \in 1 .. Len(global)
        BY <1>10, <1>11 DEF Guides
      <3>2. \A x \in 1 .. Len(global) : x \in Nat
        OBVIOUS
      <3> QED
        BY <2>1, <3>1, <3>2
    <2>3. m \in [1 .. Len(m) -> Nat]
      BY <2>1, <2>2 DEF Listed
    <2> QED
      BY <1>12, <2>1, <2>3, FunctionIsSeq
  <1>14. PICK gs : gs = IF r = 0 THEN merged[r] ELSE <<>>
    OBVIOUS
  <1>15. gs \in Seq(Names)
    <2>1. <<>> \in Seq(Names)
      BY EmptySeq
    <2> QED
      BY <1>1, <1>14, <2>1 DEF Forms
  <1>16. PICK u : u = Unified(r, n)
    OBVIOUS
  <1>17. u = [globalNumItems |-> n, localNumItems |-> Len(strings),
              sortMap |-> sortMap[r], mapping |-> m, globalStrings |-> gs]
    BY <1>9, <1>11, <1>14, <1>16 DEF Unified
  <1>18. u \in Unifier
    <2>1. sortMap[r] \in Seq(Nat)
      BY <1>1 DEF NTypes
    <2> QED
      BY <1>8, <1>12, <1>13, <1>15, <1>17, <2>1 DEF Unifier
  <1>19. /\ unifier' \in [Ranks -> [Listers -> Unifier]]
         /\ unifier'[r][l] = u
         /\ \A k \in Listers : k # l => unifier'[r][k] = unifier[r][k]
    <2>1. unifier \in [Ranks -> [Listers -> Unifier]]
      BY <1>1 DEF NTypes
    <2>2. unifier' = [unifier EXCEPT ![r] = [unifier[r] EXCEPT ![l] = u]]
      BY <1>4, <1>16
    <2> HIDE DEF Unifier
    <2> QED
      BY <1>18, <2>1, <2>2
  <1>20. NTypes'
    <2>1. bcast' \in [Listers -> Nat \cup {-1}]
      BY <1>1, <1>4, <1>8 DEF NTypes
    <2>2. sortMap' \in [Ranks -> Seq(Nat)]
      BY <1>1, <1>4 DEF NTypes
    <2> QED
      BY <1>19, <2>1, <2>2 DEF NTypes
  <1>21. Announced'
    <2>1. SUFFICES ASSUME NEW k \in Listers, bcast'[k] # -1
                   PROVE  Past(0, k)' /\ bcast'[k] = Len(Global(k)')
      BY DEF Announced
    <2>2. CASE k = l
      <3>1. bcast'[l] = n
        BY <1>1, <1>4 DEF NTypes
      <3> QED
        BY <1>7, <1>8, <2>2, <3>1
    <2>3. CASE k # l
      <3>1. bcast'[k] = bcast[k]
        BY <1>1, <1>4, <2>3 DEF NTypes
      <3>2. Past(0, k) /\ bcast[k] = Len(Global(k))
        BY <1>1, <2>1, <3>1 DEF Announced
      <3> QED
        BY <1>5, <3>1, <3>2 DEF Steady, Fixed
    <2> QED
      BY <2>2, <2>3
  <1>22. ASSUME NEW k \in Listers
         PROVE  Given(r, k)'
    <2>1. CASE k = l
      <3>1. /\ u.globalNumItems = n /\ u.localNumItems = Len(strings)
            /\ u.sortMap = sortMap[r] /\ u.mapping = m
        BY <1>17
      <3>2. Sorts(u.sortMap, db'[l][r], strings)
        BY <1>4, <1>10, <1>11, <3>1
      <3>3. Guides(u.mapping, Len(strings), strings, Global(l)')
        BY <1>7, <1>10, <1>11, <3>1
      <3>4. u.globalNumItems = Len(Global(l)') /\ Len(u.mapping) = u.localNumItems
        BY <1>7, <1>8, <1>10, <1>11, <3>1
      <3> QED
        BY <1>8, <1>12, <1>19, <2>1, <3>1, <3>2, <3>3, <3>4 DEF Given
    <2>2. CASE k # l
      <3>1. Past(r, k)' <=> Past(r, k)
        BY <1>2, <1>4, <2>2 DEF Past
      <3>2. unifier'[r][k] = unifier[r][k]
        BY <1>19, <2>2
      <3> QED
        BY <3>1, <3>2, GivenStays
    <2> QED
      BY <2>1, <2>2
  <1>23. ASSUME NEW k \in Objects(r)'
         PROVE  Leading(r, objs[r][k])'
    <2>1. k \in Objects(r)
      BY <1>4 DEF Objects
    <2>2. PICK x : x = objs[r][k] /\ x = objs'[r][k]
      BY <1>4
    <2>3. Leading(r, x)
      BY <1>1, <1>4, <2>1, <2>2 DEF RankNames
    <2>4. /\ pc'[r] \notin Collecting /\ pc'[r] \notin Waiting
          /\ pc'[r] \notin {"merge", "down"}
      BY <1>4 DEF Collecting, Waiting
    <2>5. Leading(r, x)'
      BY <2>3, <2>4 DEF Leading
    <2> QED
      BY <2>2, <2>5
  <1>24. Kin(r)' /\ Read(r)'
    BY <1>4, KinStays, ReadStays
  <1>25. Posted(r)
    BY <1>4, NotTaken, PostsNothing
  <1>26. RankNames(r)'
    BY <1>4, <1>22, <1>23, <1>24 DEF RankNames
  <1> QED
    BY <1>20, <1>21, <1>25, <1>26, NamesFollow

\* Another thread registers an event.
LEMMA RegisterGrows ==
    ASSUME Forms, NEW r \in Ranks, Register(r)
    PROVE  Grown
  <1>1. PICK e \in NewEntries :
            db' = [db EXCEPT ![lister[r]][r] = Append(@, e)]
    BY DEF Register
  <1>2. PICK l \in Listers : l = lister[r]
    BY DEF Forms
  <1>3. db \in [Listers -> [Ranks -> Seq(Entries)]] /\ e \in Entries
    BY UnifyAssumption DEF Forms
  <1>4. PICK new : new = Append(db[l][r], e)
    OBVIOUS
  <1>5. /\ Len(db[l][r]) \in Nat /\ Len(new) = Len(db[l][r]) + 1
        /\ \A i \in 1 .. Len(db[l][r]) : new[i] = db[l][r][i]
    <2>1. db[l][r] \in Seq(Entries)
      BY <1>3
    <2>2. Listed(db[l][r]) /\ Len(db[l][r]) \in Nat
      BY <2>1, SeqIsListed, LenProperties
    <2> QED
      BY <1>4, <2>2, ListedAppend
  <1>6. db' = [db EXCEPT ![l][r] = new]
    BY <1>1, <1>2, <1>4
  <1>7. SUFFICES ASSUME NEW k \in Listers, NEW q \in Ranks
                 PROVE  /\ Len(db[k][q]) \in Nat /\ Len(db'[k][q]) \in Nat
                        /\ Len(db[k][q]) <= Len(db'[k][q])
                        /\ \A i \in 1 .. Len(db[k][q]) : db'[k][q][i] = db[k][q][i]
    BY DEF Grown
  <1>8. CASE k = l /\ q = r
    <2>1. db'[k][q] = new
      BY <1>3, <1>6, <1>8
    <2> QED
      BY <1>5, <1>8, <2>1
  <1>9. CASE ~(k = l /\ q = r)
    <2>1. db'[k][q] = db[k][q]
      BY <1>3, <1>6, <1>9
    <2>2. Len(db[k][q]) \in Nat
      BY <1>3, LenProperties
    <2> QED
      BY <2>1, <2>2
  <1> QED
    BY <1>8, <1>9

LEMMA RegisterNames ==
    ASSUME PInv, NInv, NEW r \in Ranks, Register(r)
    PROVE  NInv'
  <1>1. Grown
    BY RegisterGrows DEF PInv
  <1>2. UNCHANGED <<lister, pc, sortMap, objs, merged, child, chan, bcast, unifier>>
    BY DEF Register, treeVars
  <1> QED
    BY <1>1, <1>2, GrownNames

LEMMA StutterNames ==
    ASSUME PInv, NInv, UNCHANGED allVars
    PROVE  NInv'
  <1>1. UNCHANGED <<db, lister, pc, sortMap, objs, merged, child, chan, bcast,
                    unifier>>
    BY DEF allVars, vars, treeVars
  <1>2. Grown
    <2>1. ASSUME NEW k \in Listers, NEW q \in Ranks
          PROVE  Len(db[k][q]) \in Nat
      <3>1. db[k][q] \in Seq(Entries)
        BY DEF PInv, Forms
      <3> QED
        BY <3>1, LenProperties
    <2> QED
      BY <1>1, <2>1 DEF Grown
  <1> QED
    BY <1>1, <1>2, GrownNames

LEMMA InitNInv ==
    ASSUME MergeInit
    PROVE  NInv
  <1>1. /\ lister = [r \in Ranks |-> "functions"]
        /\ pc = [r \in Ranks |-> "start"]
        /\ sortMap = [r \in Ranks |-> <<>>]
        /\ chan = [p \in Ranks \X Ranks |-> <<>>]
        /\ bcast = [l \in Listers |-> -1]
        /\ unifier = [r \in Ranks |-> [l \in Listers |-> NoUnifier]]
    BY DEF MergeInit, Init
  <1>2. \A r \in Ranks : \A l : ~Past(r, l)
    BY <1>1, Busy DEF Past
  <1>3. NTypes
    <2>1. <<>> \in Seq(Nat) /\ <<>> \in Seq(Names)
      BY EmptySeq
    <2>2. NoUnifier \in Unifier
      BY <2>1 DEF NoUnifier, Unifier
    <2>3. unifier \in [Ranks -> [Listers -> Unifier]]
      <3> HIDE DEF Unifier, NoUnifier
      <3> QED
        BY <1>1, <2>2
    <2> QED
      BY <1>1, <2>1, <2>3 DEF NTypes
  <1>4. ASSUME NEW r \in Ranks
        PROVE  RankNames(r)
    <2>1. pc[r] = "start"
      BY <1>1
    <2>2. ASSUME NEW l \in Listers
          PROVE  Given(r, l)
      <3>1. unifier[r][l] = NoUnifier
        BY <1>1
      <3> QED
        BY <1>2, <3>1 DEF Given
    <2> QED
      BY <2>1, <2>2 DEF RankNames, Read, Kin
  <1>5. Carrying
    <2>1. ASSUME NEW s \in Ranks, NEW d \in Ranks
          PROVE  Passing(s, d) = {}
      <3>1. chan[s, d] = <<>>
        BY <1>1
      <3>2. Len(chan[s, d]) = 0
        BY <3>1, EmptyListed
      <3>3. \A i : i \notin 1 .. 0
        OBVIOUS
      <3> QED
        BY <3>2, <3>3 DEF Passing
    <2> QED
      BY <2>1 DEF Carrying
  <1>6. Announced
    BY <1>1 DEF Announced
  <1> QED
    BY <1>3, <1>4, <1>5, <1>6 DEF NInv

LEMMA NextNInv ==
    ASSUME PInv, NInv, [ProfileNext]_allVars
    PROVE  NInv'
  <1>1. ASSUME NEW r \in Ranks, RankStep(r), UnifyStep(r)
        PROVE  NInv'
    BY <1>1, StartNames, FillBufferNames, QuietSteps, ReceiveNamesNames,
       EndTreeNames, MergeNextNames, MergeEndNames, ReceiveMapNames, SendMapNames,
       ReturnNames
    DEF UnifyStep
  <1>2. ASSUME NEW r \in Ranks, RankStep(r)
        PROVE  NInv'
    BY <1>1, <1>2, StepKinds, NextListerNames, LateNames
  <1>3. CASE ProfileNext
    BY <1>2, <1>3, RegisterNames DEF ProfileNext
  <1> QED
    BY <1>3, StutterNames

LEMMA NInvKeeps ==
    ASSUME NInv
    PROVE  NamesKept
  <1>1. SUFFICES ASSUME NEW r \in Ranks, NEW l \in Listers,
                        NEW i \in 1 .. unifier[r][l].localNumItems
                 PROVE  LET u == unifier[r][l]
                            global == unifier[0][l].globalStrings
                        IN /\ u.mapping[i] \in 1 .. Len(global)
                           /\ global[u.mapping[i]] = db[l][r][u.sortMap[i]].name
    BY DEF NamesKept
  <1>2. PICK u : u = unifier[r][l]
    OBVIOUS
  <1>3. Given(r, l)
    BY DEF NInv, RankNames
  <1>4. Past(r, l)
    <2>1. SUFFICES ASSUME ~Past(r, l) PROVE FALSE
      OBVIOUS
    <2>2. u.localNumItems = 0
      BY <1>2, <1>3, <2>1 DEF Given, NoUnifier
    <2> QED
      BY <1>1, <1>2, <2>2
  <1>5. PICK strings \in Seq(Names) :
            /\ Past(0, l) /\ u.localNumItems = Len(strings)
            /\ Sorts(u.sortMap, db[l][r], strings)
            /\ Guides(u.mapping, Len(strings), strings, Global(l))
    BY <1>2, <1>3, <1>4 DEF Given
  <1>6. Global(l) = unifier[0][l].globalStrings
    BY <1>5 DEF Global
  <1>7. i \in 1 .. Len(strings) /\ i \in 1 .. Len(u.sortMap)
    BY <1>1, <1>2, <1>5 DEF Sorts
  <1>8. PICK global : global = Global(l) /\ global = unifier[0][l].globalStrings
    BY <1>6
  <1>9. u.mapping[i] \in 1 .. Len(global) /\ global[u.mapping[i]] = strings[i]
    BY <1>5, <1>7, <1>8 DEF Guides
  <1>10. db[l][r][u.sortMap[i]].name = strings[i]
    BY <1>5, <1>7 DEF Sorts
  <1> QED
    BY <1>2, <1>8, <1>9, <1>10

\* TauUnify.cpp: through both calls, the id that a rank is given for an event
\* is that of its name in the global list of the event's kind, with ranks
\* that are in different calls, tables under way from the one to a rank while
\* others are in the next, and events that are registered at any time: unless
\* the rank itself has read behind the end of its sort map (TauUnify.cpp:155),
\* and whatever other ranks have read.
THEOREM NamesThroughBothCalls == MergeSpec => []NamesKept
  <1>1. MergeInit => PInv /\ NInv
    BY InitPInv, InitNInv
  <1>2. PInv /\ NInv /\ [ProfileNext]_allVars => PInv' /\ NInv'
    BY NextPInv, NextNInv
  <1>3. NInv => NamesKept
    BY NInvKeeps
  <1> QED
    BY <1>1, <1>2, <1>3, PTL DEF MergeSpec

=============================================================================
