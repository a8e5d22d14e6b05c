--------------------------- MODULE ThreadIdsProofs ---------------------------
(***************************************************************************)
(* What the thread-id allocator guarantees for any number of threads and   *)
(* streams, as long as its callers stay out of each other's way.           *)
(***************************************************************************)
EXTENDS ThreadIds, FiniteSetTheorems, SequenceTheorems, TLAPS

(* How a program has to use the allocator: with recycling or GPU streams   *)
(* only one client at a time, and no stream whose destruction is followed  *)
(* by more than one kernel record; or no recycling and no stream, in any   *)
(* order.  The violation runs show that each part is needed.               *)
Disciplined == \/ ~Overlap /\ LateRecords <= 1
               \/ ~Recycle /\ Streams = {}

-----------------------------------------------------------------------------
(* The inductive invariant.                                                *)

\* A client has an id exactly while it lives or its id is being given back.
HasId(c) == st[c] \in {"live", "destroyed", "exiting", "recycling"}

\* Inside a critical section of the allocator.
Inside(c) == st[c] \in {"creating", "recycling"}

\* One client at a time is inside, because one at a time is on the move, or
\* because all of them take tauThreadcountMutex.
Serial == \A c, d \in Clients : st[c] \in Moving /\ st[d] \in Moving => c = d

Locked == \A c \in Clients :
             /\ st[c] \in {"none", "starting", "creating", "live"}
             /\ st[c] = "creating" => owner[CreateMutex(c)] = {c}

Exclusive == IF ~Overlap /\ LateRecords <= 1 THEN Serial ELSE Locked

\* Rank i sits at position i, and num_threads is the size of the list.
Ranks == /\ numThreads = Len(threadList)
         /\ \A i \in 1 .. Len(threadList) : threadList[i].thread_rank = i

\* What a creating client has read is still so.
Registers == \A c \in Clients : st[c] = "creating" =>
                /\ seen[c].next = nextThread
                /\ seen[c].rank = numThreads
                /\ seen[c].grow <=> nextThread >= Len(threadList)

\* The elements that are in use, each by one client.
InUse == \A c \in Clients :
            /\ id[c] # 0 <=> HasId(c)
            /\ HasId(c) => id[c] \in 1 .. Len(threadList)
            /\ HasId(c) => (threadList[id[c]].active <=> st[c] # "recycling")
            /\ st[c] = "recycling" => threadList[id[c]].next_available = nextThread
            /\ late[c] = IF st[c] = "destroyed" THEN 1 ELSE 0

\* The indices of the elements that are on their way to the free list.
Limbo == {id[c] - 1 : c \in {d \in Clients : st[d] = "recycling"}}

FreeList == \E n \in Nat :
               \E fl \in [1 .. n -> 0 .. Len(threadList) - 1] : FreeListIs(n, fl, Limbo)

IInv == /\ TypeOK /\ Exclusive /\ Ranks /\ Registers /\ InUse /\ UniqueIds
        /\ FreeList

-----------------------------------------------------------------------------
(* There are finitely many threads and streams at any time.                *)
LEMMA ExistingFinite == IsFiniteSet(Existing)
  <1>1. IsFiniteSet(Clients)
    BY IdsAssumption, FS_Union DEF Clients, IdsAssumption
  <1>2. Existing \subseteq Clients
    BY DEF Existing
  <1> QED
    BY <1>1, <1>2, FS_Subset

(* Under the discipline at most one client is inside the allocator.        *)
LEMMA OneInside ==
    ASSUME Disciplined, TypeOK, Exclusive
    PROVE  \A c, d \in Clients : Inside(c) /\ Inside(d) => c = d
  <1>1. CASE ~Overlap /\ LateRecords <= 1
    BY <1>1 DEF Exclusive, Serial, Inside, Moving
  <1>2. CASE ~(~Overlap /\ LateRecords <= 1)
    <2>1. Locked /\ Streams = {}
      BY <1>2 DEF Exclusive, Disciplined
    <2>2. \A c \in Clients : CreateMutex(c) = "tauThreadcountMutex"
      BY <2>1 DEF CreateMutex, Clients
    <2> QED
      BY <2>1, <2>2 DEF Locked, Inside
  <1> QED
    BY <1>1, <1>2

-----------------------------------------------------------------------------
(* The allocator starts empty.                                             *)
LEMMA InitIInv == Init => IInv
  <1> SUFFICES ASSUME Init PROVE IInv
    OBVIOUS
  <1> USE DEF Init
  <1>1. TypeOK
    BY DEF TypeOK, Phases, Moving, NoRegisters
  <1>2. Exclusive
    BY DEF Exclusive, Serial, Locked, Moving
  <1>3. Ranks /\ Registers /\ InUse /\ UniqueIds
    BY DEF Ranks, Registers, InUse, UniqueIds, Holders, HasId
  <1>4. FreeList
    <2> DEFINE fl == [k \in 1 .. 0 |-> 0]
    <2>1. fl \in [1 .. 0 -> 0 .. Len(threadList) - 1]
      OBVIOUS
    <2>2. Limbo = {}
      BY DEF Limbo
    <2>3. FreeListIs(0, fl, Limbo)
      BY <2>2 DEF FreeListIs
    <2> QED
      BY <2>1, <2>3 DEF FreeList
  <1> QED
    BY <1>1, <1>2, <1>3, <1>4 DEF IInv

(* The free list changes only with the variables it is made of.            *)
LEMMA FreeListStable ==
    ASSUME FreeList, threadList' = threadList, nextThread' = nextThread, Limbo' = Limbo
    PROVE  FreeList'
  <1>1. PICK n \in Nat : \E fl \in [1 .. n -> 0 .. Len(threadList) - 1] :
                            FreeListIs(n, fl, Limbo)
    BY DEF FreeList
  <1>2. PICK fl \in [1 .. n -> 0 .. Len(threadList) - 1] : FreeListIs(n, fl, Limbo)
    BY <1>1
  <1>3. FreeListIs(n, fl, Limbo)'
    BY <1>2 DEF FreeListIs, At
  <1>4. fl \in [1 .. n -> 0 .. Len(threadList') - 1]
    OBVIOUS
  <1> QED
    BY <1>3, <1>4 DEF FreeList

(* Creating a client changes nothing but the client's own state.           *)
LEMMA SpawnStep ==
    ASSUME Disciplined, IInv, NEW c \in Clients, Spawn(c)
    PROVE  IInv'
  <1> USE DEF IInv, Spawn
  <1>1. TypeOK'
    <2>1. Cardinality(Existing) \in Nat
      BY ExistingFinite, FS_CardinalityType
    <2> QED
      BY <2>1 DEF TypeOK, Phases, Moving
  <1>2. Exclusive'
    BY DEF TypeOK, Exclusive, Serial, Locked, Alone, Moving
  <1>3. Ranks' /\ Registers' /\ InUse' /\ UniqueIds'
    BY DEF TypeOK, Ranks, Registers, InUse, UniqueIds, Holders, HasId
  <1>4. FreeList'
    <2>1. Limbo' = Limbo
      BY DEF TypeOK, Limbo
    <2> QED
      BY <2>1, FreeListStable
  <1> QED
    BY <1>1, <1>2, <1>3, <1>4

(* What the first half of _createThread reads is what is there.            *)
LEMMA CreateReadStep ==
    ASSUME Disciplined, IInv, NEW c \in Clients, CreateRead(c)
    PROVE  IInv'
  <1> USE DEF IInv, CreateRead
  <1>1. TypeOK'
    BY DEF TypeOK, Phases, Moving, Mutexes, CreateMutex
  <1>2. Exclusive'
    <2>1. CASE ~Overlap /\ LateRecords <= 1
      BY <2>1 DEF TypeOK, Exclusive, Serial, Moving
    <2>2. CASE ~(~Overlap /\ LateRecords <= 1)
      <3>1. \A d \in Clients : CreateMutex(d) = "tauThreadcountMutex"
        BY <2>2 DEF CreateMutex, Clients, Disciplined
      <3> QED
        BY <2>2, <3>1 DEF TypeOK, Mutexes, Exclusive, Locked
    <2> QED
      BY <2>1, <2>2
  <1>3. Ranks' /\ Registers' /\ InUse' /\ UniqueIds'
    BY DEF TypeOK, Ranks, Registers, InUse, UniqueIds, Holders, HasId
  <1>4. FreeList'
    <2>1. Limbo' = Limbo
      BY DEF TypeOK, Limbo
    <2> QED
      BY <2>1, FreeListStable
  <1> QED
    BY <1>1, <1>2, <1>3, <1>4

(* A client that leaves gives its id up at once or starts to recycle it.   *)
LEMMA ExitStep ==
    ASSUME Disciplined, IInv, NEW c \in Clients, Exit(c)
    PROVE  IInv'
  <1> USE DEF IInv
  <1> DEFINE Becomes(s, i, n) == /\ st' = [st EXCEPT ![c] = s]
                                 /\ id' = [id EXCEPT ![c] = i]
                                 /\ late' = [late EXCEPT ![c] = n]
  <1>1. /\ st[c] = "live" /\ late[c] = 0 /\ id[c] # 0 /\ (Overlap \/ Alone(c))
        /\ UNCHANGED <<threadList, nextThread, numThreads, owner, seen, spawned, peak>>
    BY DEF Exit, InUse, HasId
  <1> DEFINE Cases(s, i, n) == \/ Recycle /\ s = "exiting" /\ i = id[c] /\ n = 0
                               \/ Recycle /\ s = "destroyed" /\ i = id[c] /\ n = 1
                               \/ s = "none" /\ i = 0 /\ n = 0
  <1>2. PICK s \in Phases, i \in Nat, n \in Nat : Becomes(s, i, n) /\ Cases(s, i, n)
    <2>0. {"exiting", "destroyed", "none"} \subseteq Phases /\ id[c] \in Nat
      BY DEF TypeOK, Phases, Moving
    <2>1. st = [st EXCEPT ![c] = st[c]] /\ id = [id EXCEPT ![c] = id[c]]
          /\ late = [late EXCEPT ![c] = 0]
      BY <1>1 DEF TypeOK
    <2>2. CASE Recycle /\ c \in Pthreads /\ st' = [st EXCEPT ![c] = "exiting"]
               /\ UNCHANGED <<id, late>>
      <3>1. Becomes("exiting", id[c], 0) /\ Cases("exiting", id[c], 0)
        BY <2>1, <2>2
      <3> QED
        BY <2>0, <3>1
    <2>3. CASE /\ Recycle /\ c \in Streams /\ st' = [st EXCEPT ![c] = "destroyed"]
               /\ \E n \in 1 .. LateRecords : late' = [late EXCEPT ![c] = n]
               /\ UNCHANGED id
      <3>1. LateRecords <= 1 /\ LateRecords \in Nat
        BY <2>3, IdsAssumption DEF Disciplined, IdsAssumption
      <3>2. late' = [late EXCEPT ![c] = 1]
        <4>1. PICK n \in 1 .. LateRecords : late' = [late EXCEPT ![c] = n]
          BY <2>3
        <4>2. n = 1
          BY <3>1
        <4> QED
          BY <4>1, <4>2
      <3>3. Becomes("destroyed", id[c], 1) /\ Cases("destroyed", id[c], 1)
        <4>1. id' = [id EXCEPT ![c] = id[c]]
          BY <2>1, <2>3
        <4> QED
          BY <2>3, <3>2, <4>1
      <3> HIDE DEF Becomes, Cases
      <3> QED
        BY <2>0, <3>3
    <2>4. CASE (Recycle => c \in Streams) /\ Gone(c) /\ UNCHANGED late
      <3>1. Becomes("none", 0, 0) /\ Cases("none", 0, 0)
        BY <2>1, <2>4 DEF Gone
      <3> QED
        BY <2>0, <3>1
    <2> QED
      BY <2>2, <2>3, <2>4 DEF Exit
  <1>3. TypeOK'
    BY <1>1, <1>2 DEF TypeOK, Phases, Moving
  <1>4. Exclusive'
    BY <1>1, <1>2 DEF TypeOK, Exclusive, Serial, Locked, Alone, Moving, Disciplined
  <1>5. Ranks' /\ Registers' /\ UniqueIds'
    BY <1>1, <1>2 DEF TypeOK, Ranks, Registers, UniqueIds, Holders
  <1>6. InUse'
    BY <1>1, <1>2 DEF TypeOK, InUse, HasId
  <1>7. FreeList'
    <2>1. Limbo' = Limbo
      <3>1. \A d \in Clients : /\ st'[d] = "recycling" <=> st[d] = "recycling"
                               /\ st[d] = "recycling" => id'[d] = id[d]
        BY <1>1, <1>2 DEF TypeOK
      <3> QED
        BY <3>1 DEF Limbo
    <2> QED
      BY <1>1, <2>1, FreeListStable
  <1> QED
    BY <1>3, <1>4, <1>5, <1>6, <1>7

(* The kernel record of a destroyed stream is the last one.                *)
LEMMA KernelRecordStep ==
    ASSUME Disciplined, IInv, NEW c \in Clients, KernelRecord(c)
    PROVE  IInv'
  <1> USE DEF IInv, KernelRecord
  <1>0. late[c] = 1
    BY DEF InUse
  <1>1. TypeOK'
    BY <1>0 DEF TypeOK, Phases, Moving
  <1>2. Exclusive'
    BY DEF TypeOK, Exclusive, Serial, Locked, Alone, Moving
  <1>3. Ranks' /\ Registers' /\ UniqueIds'
    BY DEF TypeOK, Ranks, Registers, UniqueIds, Holders
  <1>4. InUse'
    BY <1>0 DEF TypeOK, InUse, HasId
  <1>5. FreeList'
    <2>1. Limbo' = Limbo
      BY DEF TypeOK, Limbo
    <2> QED
      BY <2>1, FreeListStable
  <1> QED
    BY <1>1, <1>2, <1>3, <1>4, <1>5

(* A list that is about to grow has no inactive element.                   *)
LEMMA GrowsWhenFull ==
    ASSUME Disciplined, IInv, NEW c \in Clients, st[c] = "creating", seen[c].grow
    PROVE  \A i \in 1 .. Len(threadList) : threadList[i].active
  <1> DEFINE L == Len(threadList)
  <1> USE DEF IInv
  <1>1. nextThread >= L /\ L \in Nat
    BY DEF Registers, TypeOK
  <1>2. Limbo = {}
    <2>1. \A d \in Clients : st[d] # "recycling"
      BY OneInside DEF Inside
    <2> QED
      BY <2>1 DEF Limbo
  <1>3. PICK n \in Nat : \E f \in [1 .. n -> 0 .. L - 1] : FreeListIs(n, f, {})
    BY <1>2 DEF FreeList
  <1>4. PICK f \in [1 .. n -> 0 .. L - 1] : FreeListIs(n, f, {})
    BY <1>3
  <1>5. n = 0
    <2>1. n # 0 => nextThread = f[1] /\ f[1] \in 0 .. L - 1
      BY <1>4 DEF FreeListIs
    <2> QED
      BY <1>1, <2>1 DEF TypeOK
  <1> SUFFICES ASSUME NEW i \in 1 .. L PROVE threadList[i].active
    OBVIOUS
  <1>6. i - 1 \in 0 .. L - 1 /\ (i - 1) + 1 = i
    BY <1>1
  <1>7. At(i - 1) = threadList[i]
    BY <1>6 DEF At
  <1> QED
    BY <1>4, <1>5, <1>6, <1>7 DEF FreeListIs

(* An element appended when the free list is empty leaves it empty.        *)
LEMMA CreateNewStep ==
    ASSUME Disciplined, IInv, NEW c \in Clients, CreateNew(c)
    PROVE  IInv'
  <1> DEFINE L == Len(threadList)
             new == NewRtsThread(L)
  <1> USE DEF IInv
  <1>1. /\ st[c] = "creating" /\ seen[c].rank = L /\ numThreads = L
        /\ nextThread >= L
    BY DEF CreateNew, Registers, Ranks
  <1>2. /\ threadList' = Append(threadList, new) /\ numThreads' = L + 1
        /\ nextThread' = L + 2 /\ id' = [id EXCEPT ![c] = L + 1]
        /\ st' = [st EXCEPT ![c] = "live"]
        /\ owner' = [owner EXCEPT ![CreateMutex(c)] = {}]
        /\ seen' = [seen EXCEPT ![c] = NoRegisters]
        /\ UNCHANGED <<late, spawned, peak>>
    BY <1>1 DEF CreateNew, NewRtsThread
  <1>3. L \in Nat /\ new \in RtsThreads
    BY DEF TypeOK, NewRtsThread, RtsThreads
  <1>4. Len(threadList') = L + 1 /\ threadList'[L + 1] = new
        /\ \A i \in 1 .. L : threadList'[i] = threadList[i]
    BY <1>2, <1>3 DEF TypeOK
  <1>5. \A d \in Clients : Inside(d) => d = c
    BY <1>1, OneInside DEF Inside
  <1>6. TypeOK'
    BY <1>2, <1>3 DEF TypeOK, Phases, Moving, Mutexes, CreateMutex, NoRegisters
  <1>7. Exclusive'
    <2>1. CASE ~Overlap /\ LateRecords <= 1
      BY <1>1, <1>2, <2>1 DEF TypeOK, Exclusive, Serial, Moving
    <2>2. CASE ~(~Overlap /\ LateRecords <= 1)
      <3>1. \A d \in Clients \ {c} : st[d] # "creating"
        BY <1>5 DEF Inside
      <3> QED
        BY <1>1, <1>2, <2>2, <3>1 DEF TypeOK, Exclusive, Locked
    <2> QED
      BY <2>1, <2>2
  <1>8. Ranks'
    BY <1>1, <1>2, <1>3, <1>4 DEF Ranks, NewRtsThread
  <1>9. Registers'
    BY <1>2, <1>5 DEF TypeOK, Registers, Inside
  <1>10. InUse'
    BY <1>1, <1>2, <1>3, <1>4, <1>5 DEF TypeOK, InUse, HasId, Inside, NewRtsThread
  <1>11. UniqueIds'
    <2>1. \A d \in Clients : id[d] <= L
      BY <1>3 DEF TypeOK, InUse
    <2>2. \A d \in Clients \ {c} : id'[d] = id[d] /\ id'[d] # id'[c]
      BY <1>2, <1>3, <2>1 DEF TypeOK
    <2> QED
      BY <2>2 DEF UniqueIds, Holders
  <1>12. FreeList'
    <2>1. Limbo = {} /\ Limbo' = {}
      BY <1>1, <1>2, <1>5 DEF TypeOK, Limbo, Inside
    <2>5. \A i \in 1 .. L : threadList[i].active
      BY <1>1, GrowsWhenFull DEF CreateNew
    <2>6. \A i \in 0 .. L : At(i)'.active
      <3>1. \A i \in 1 .. L + 1 : threadList'[i].active
        <4>1. threadList'[L + 1].active
          BY <1>4 DEF NewRtsThread
        <4>2. \A i \in 1 .. L : threadList'[i].active
          BY <1>4, <2>5
        <4> QED
          BY <1>3, <4>1, <4>2
      <3> QED
        BY <1>3, <3>1 DEF At
    <2> DEFINE g == [k \in 1 .. 0 |-> 0]
    <2>7. g \in [1 .. 0 -> 0 .. Len(threadList') - 1]
      OBVIOUS
    <2>8. FreeListIs(0, g, Limbo)'
      <3>1. \A i \in 0 .. Len(threadList') - 1 : At(i)'.active
        BY <1>3, <1>4, <2>6
      <3>2. nextThread' = Len(threadList') + 1
        BY <1>2, <1>3, <1>4
      <3> QED
        BY <3>1, <3>2 DEF FreeListIs
    <2> QED
      BY <2>7, <2>8 DEF FreeList
  <1> QED
    BY <1>6, <1>7, <1>8, <1>9, <1>10, <1>11, <1>12

(* The head of the free list is inactive; what follows it is a free list.  *)
LEMMA CreateReuseStep ==
    ASSUME Disciplined, IInv, NEW c \in Clients, CreateReuse(c)
    PROVE  IInv'
  <1> DEFINE L == Len(threadList)
             h == nextThread + 1
  <1> USE DEF IInv
  <1>1. /\ st[c] = "creating" /\ seen[c].next = nextThread
        /\ nextThread \in 0 .. L - 1 /\ L \in Nat /\ h \in 1 .. L
    BY DEF CreateReuse, Registers, TypeOK
  <1>2. /\ threadList' = [threadList EXCEPT ![h].active = TRUE]
        /\ nextThread' = threadList[h].next_available
        /\ id' = [id EXCEPT ![c] = threadList[h].thread_rank]
        /\ st' = [st EXCEPT ![c] = "live"]
        /\ owner' = [owner EXCEPT ![CreateMutex(c)] = {}]
        /\ seen' = [seen EXCEPT ![c] = NoRegisters]
        /\ UNCHANGED <<late, numThreads, spawned, peak>>
    BY <1>1 DEF CreateReuse, At
  <1>3. id' = [id EXCEPT ![c] = h]
    BY <1>1, <1>2 DEF Ranks
  <1>4. threadList \in Seq(RtsThreads) /\ threadList[h] \in RtsThreads
    <2>1. threadList \in Seq(RtsThreads)
      BY DEF TypeOK
    <2> QED
      BY <1>1, <2>1, ElementOfSeq
  <1>5. /\ threadList' \in Seq(RtsThreads) /\ Len(threadList') = L
        /\ threadList'[h] = [threadList[h] EXCEPT !.active = TRUE]
        /\ \A i \in 1 .. L : i # h => threadList'[i] = threadList[i]
    <2> DEFINE e == [threadList[h] EXCEPT !.active = TRUE]
    <2>1. e \in RtsThreads
      BY <1>4 DEF RtsThreads
    <2>2. threadList' = [threadList EXCEPT ![h] = e]
      BY <1>2
    <2> HIDE DEF e
    <2>3. e \in RtsThreads => /\ threadList' \in Seq(RtsThreads) /\ Len(threadList') = L
                             /\ \A i \in 1 .. L : threadList'[i] = IF i = h THEN e ELSE threadList[i]
      BY <1>1, <1>4, <2>2, ExceptSeq
    <2> QED
      BY <1>1, <2>1, <2>3 DEF e
  <1>6. \A d \in Clients : Inside(d) => d = c
    BY <1>1, OneInside DEF Inside
  <1>7. TypeOK'
    <2>1. threadList[h].next_available \in Nat /\ h \in Nat
      BY <1>1, <1>4 DEF RtsThreads
    <2> QED
      BY <1>2, <1>3, <1>5, <2>1
         DEF TypeOK, Phases, Moving, Mutexes, CreateMutex, NoRegisters
  <1>8. Exclusive'
    <2>1. CASE ~Overlap /\ LateRecords <= 1
      BY <1>1, <1>2, <2>1 DEF TypeOK, Exclusive, Serial, Moving
    <2>2. CASE ~(~Overlap /\ LateRecords <= 1)
      <3>1. \A d \in Clients \ {c} : st[d] # "creating"
        BY <1>6 DEF Inside
      <3> QED
        BY <1>1, <1>2, <2>2, <3>1 DEF TypeOK, Exclusive, Locked
    <2> QED
      BY <2>1, <2>2
  <1>9. Ranks'
    BY <1>2, <1>4, <1>5 DEF Ranks, RtsThreads
  <1>10. Registers'
    BY <1>2, <1>6 DEF TypeOK, Registers, Inside
  <1>11. Limbo = {} /\ Limbo' = {}
    BY <1>1, <1>2, <1>6 DEF TypeOK, Limbo, Inside
  <1>12. PICK n \in Nat : \E f \in [1 .. n -> 0 .. L - 1] : FreeListIs(n, f, {})
    BY <1>11 DEF FreeList
  <1>13. PICK f \in [1 .. n -> 0 .. L - 1] : FreeListIs(n, f, {})
    BY <1>12
  <1>14. n > 0 /\ f[1] = nextThread /\ ~threadList[h].active
    <2>1. n > 0 /\ f[1] = nextThread
      BY <1>1, <1>13 DEF FreeListIs
    <2> QED
      BY <1>1, <1>13, <2>1 DEF FreeListIs, At
  <1>15. \A d \in Clients : id[d] # h
    <2>1. \A d \in Clients : HasId(d) => threadList[id[d]].active
      BY <1>1, <1>6 DEF InUse, Inside
    <2> QED
      BY <1>1, <1>14, <2>1 DEF InUse
  <1>16. InUse'
    <2>1. \A d \in Clients \ {c} : id'[d] = id[d] /\ st'[d] = st[d] /\ late'[d] = late[d]
      BY <1>2, <1>3 DEF TypeOK
    <2>2. id'[c] = h /\ st'[c] = "live" /\ late'[c] = 0
      BY <1>1, <1>2, <1>3 DEF TypeOK, InUse
    <2>3. \A d \in Clients \ {c} : HasId(d) => threadList'[id[d]] = threadList[id[d]]
      BY <1>5, <1>15 DEF InUse
    <2>4. \A d \in Clients \ {c} : st[d] # "recycling"
      BY <1>6 DEF Inside
    <2>5. threadList'[h].active
      BY <1>4, <1>5 DEF RtsThreads
    <2> DEFINE OK(d) == /\ id[d] # 0 <=> HasId(d)
                        /\ HasId(d) => id[d] \in 1 .. Len(threadList)
                        /\ HasId(d) => (threadList[id[d]].active <=> st[d] # "recycling")
                        /\ st[d] = "recycling" => threadList[id[d]].next_available = nextThread
                        /\ late[d] = IF st[d] = "destroyed" THEN 1 ELSE 0
    <2>6. OK(c)'
      <3>1. h # 0 /\ h \in 1 .. Len(threadList')
        BY <1>1, <1>5
      <3> HIDE DEF h
      <3>2. HasId(c)' /\ st'[c] # "recycling" /\ st'[c] # "destroyed"
        BY <2>2 DEF HasId
      <3>3. threadList'[id'[c]].active <=> st'[c] # "recycling"
        BY <2>2, <2>5, <3>2
      <3> QED
        BY <2>2, <3>1, <3>2, <3>3
    <2>7. ASSUME NEW d \in Clients \ {c} PROVE OK(d)'
      <3>1. OK(d) /\ (HasId(d)' <=> HasId(d))
        BY <2>1 DEF InUse, HasId
      <3>2. id'[d] # 0 <=> HasId(d)'
        BY <2>1, <3>1
      <3>3. HasId(d)' => id'[d] \in 1 .. Len(threadList')
        BY <1>5, <2>1, <3>1
      <3>4. HasId(d)' => (threadList'[id'[d]].active <=> st'[d] # "recycling")
        BY <2>1, <2>3, <3>1
      <3>5. st'[d] # "recycling" /\ late'[d] = IF st'[d] = "destroyed" THEN 1 ELSE 0
        BY <2>1, <2>4, <3>1
      <3> QED
        BY <3>2, <3>3, <3>4, <3>5
    <2> QED
      BY <2>6, <2>7 DEF InUse
  <1>17. UniqueIds'
    BY <1>3, <1>15 DEF TypeOK, UniqueIds, Holders
  <1>18. FreeList'
    <2> DEFINE g == [k \in 1 .. n - 1 |-> f[k + 1]]
    <2>1. n - 1 \in Nat /\ g \in [1 .. n - 1 -> 0 .. Len(threadList') - 1]
      BY <1>5, <1>14
    <2>2. \A j, k \in 1 .. n - 1 : g[j] = g[k] => j = k
      BY <1>13 DEF FreeListIs
    <2>3. \A k \in 1 .. n - 1 : g[k] # nextThread
      BY <1>13, <1>14 DEF FreeListIs
    <2>4. \A i \in 0 .. L - 1 : i # nextThread => threadList'[i + 1] = threadList[i + 1]
      BY <1>1, <1>5
    <2>5. threadList'[h].active
      BY <1>4, <1>5 DEF RtsThreads
    <2>6. \A i \in 0 .. L - 1 : ~threadList'[i + 1].active <=> \E k \in 1 .. n - 1 : g[k] = i
      <3> SUFFICES ASSUME NEW i \in 0 .. L - 1
                   PROVE  ~threadList'[i + 1].active <=> \E k \in 1 .. n - 1 : g[k] = i
        OBVIOUS
      <3>1. CASE i = nextThread
        BY <2>3, <2>5, <3>1
      <3>2. CASE i # nextThread
        <4>1. ~threadList[i + 1].active <=> \E k \in 1 .. n : f[k] = i
          BY <1>13 DEF FreeListIs, At
        <4>2. (\E k \in 1 .. n : f[k] = i) <=> \E k \in 1 .. n - 1 : g[k] = i
          <5>1. ASSUME NEW k \in 1 .. n, f[k] = i PROVE k - 1 \in 1 .. n - 1 /\ g[k - 1] = i
            BY <1>14, <3>2, <5>1
          <5>2. ASSUME NEW k \in 1 .. n - 1, g[k] = i PROVE k + 1 \in 1 .. n /\ f[k + 1] = i
            BY <5>2
          <5> QED
            BY <5>1, <5>2
        <4> QED
          BY <2>4, <3>2, <4>1, <4>2
      <3> QED
        BY <3>1, <3>2
    <2>7. nextThread' = IF 0 < n - 1 THEN g[1] ELSE L + 1
      <3>1. 1 \in 1 .. n /\ At(f[1]).next_available = IF 1 < n THEN f[2] ELSE L + 1
        BY <1>13, <1>14 DEF FreeListIs
      <3>2. 0 < n - 1 => g[1] = f[2]
        OBVIOUS
      <3> QED
        BY <1>2, <1>14, <3>1, <3>2 DEF At
    <2>8. \A k \in 1 .. n - 1 : threadList'[g[k] + 1].next_available
                                = IF k < n - 1 THEN g[k + 1] ELSE L + 1
      <3> SUFFICES ASSUME NEW k \in 1 .. n - 1
                   PROVE  threadList'[g[k] + 1].next_available
                             = IF k < n - 1 THEN g[k + 1] ELSE L + 1
        OBVIOUS
      <3>1. threadList'[g[k] + 1] = threadList[f[k + 1] + 1]
        BY <2>3, <2>4
      <3>2. threadList[f[k + 1] + 1].next_available = IF k + 1 < n THEN f[k + 2] ELSE L + 1
        BY <1>13 DEF FreeListIs, At
      <3> QED
        BY <3>1, <3>2
    <2> HIDE DEF g
    <2>9. FreeListIs(n - 1, g, {})'
      BY <1>5, <2>2, <2>6, <2>7, <2>8 DEF FreeListIs, At
    <2> QED
      BY <1>11, <2>1, <2>9 DEF FreeList
  <1> QED
    BY <1>7, <1>8, <1>9, <1>10, <1>16, <1>17, <1>18

(* An element that is linked to the head of the list is not on it yet.     *)
LEMMA RecycleLinkStep ==
    ASSUME Disciplined, IInv, NEW c \in Clients, RecycleLink(c)
    PROVE  IInv'
  <1> DEFINE L == Len(threadList)
             r == id[c]
             e == [threadList[r] EXCEPT !.active = FALSE, !.next_available = nextThread]
  <1> USE DEF IInv
  <1>1. st[c] = "exiting" /\ HasId(c) /\ r \in 1 .. L /\ L \in Nat /\ late[c] = 0
    BY DEF RecycleLink, TypeOK, InUse, HasId
  <1>2. threadList[r].active
    BY <1>1 DEF InUse
  <1>3. /\ threadList' = [threadList EXCEPT ![r] = e]
        /\ owner' = [owner EXCEPT !["tauDBMutex"] = {c}]
        /\ st' = [st EXCEPT ![c] = "recycling"]
        /\ UNCHANGED <<late, nextThread, numThreads, id, seen, spawned, peak>>
    BY DEF RecycleLink
  <1>4. threadList \in Seq(RtsThreads) /\ e \in RtsThreads
    <2>1. threadList \in Seq(RtsThreads) /\ nextThread \in Nat
      BY DEF TypeOK
    <2>2. threadList[r] \in RtsThreads
      BY <1>1, <2>1, ElementOfSeq
    <2> QED
      BY <2>1, <2>2 DEF RtsThreads
  <1>5. ~e.active /\ e.next_available = nextThread /\ e.thread_rank = threadList[r].thread_rank
    <2>1. threadList[r] \in RtsThreads
      BY <1>1, <1>4, ElementOfSeq
    <2> QED
      BY <2>1 DEF RtsThreads
  <1> HIDE DEF e
  <1>6. /\ threadList' \in Seq(RtsThreads) /\ Len(threadList') = L
        /\ threadList'[r] = e
        /\ \A i \in 1 .. L : i # r => threadList'[i] = threadList[i]
    BY <1>1, <1>3, <1>4, ExceptSeq
  <1>7. TypeOK'
    BY <1>3, <1>6 DEF TypeOK, Phases, Moving, Mutexes
  <1>8. Serial /\ ~Overlap /\ LateRecords <= 1
    BY <1>1 DEF Exclusive, Locked
  <1>9. \A d \in Clients \ {c} : st[d] \notin Moving
    BY <1>1, <1>8 DEF Serial, Moving
  <1>10. Exclusive'
    BY <1>3, <1>8, <1>9 DEF TypeOK, Exclusive, Serial, Moving
  <1>11. Ranks'
    BY <1>1, <1>3, <1>5, <1>6 DEF Ranks
  <1>12. Registers'
    BY <1>3, <1>9 DEF TypeOK, Registers, Moving
  <1>13. UniqueIds'
    BY <1>3 DEF UniqueIds, Holders
  <1>14. InUse'
    <2> DEFINE OK(d) == /\ id[d] # 0 <=> HasId(d)
                        /\ HasId(d) => id[d] \in 1 .. Len(threadList)
                        /\ HasId(d) => (threadList[id[d]].active <=> st[d] # "recycling")
                        /\ st[d] = "recycling" => threadList[id[d]].next_available = nextThread
                        /\ late[d] = IF st[d] = "destroyed" THEN 1 ELSE 0
    <2>1. OK(c)'
      <3>1. st'[c] = "recycling" /\ HasId(c)'
        BY <1>3 DEF TypeOK, HasId
      <3>2. r # 0 /\ r \in 1 .. Len(threadList')
        BY <1>1, <1>6
      <3> QED
        BY <1>1, <1>3, <1>5, <1>6, <3>1, <3>2
    <2>2. ASSUME NEW d \in Clients \ {c} PROVE OK(d)'
      <3>1. id'[d] = id[d] /\ st'[d] = st[d] /\ late'[d] = late[d] /\ st[d] # "recycling"
        BY <1>3, <1>9 DEF TypeOK, Moving
      <3>2. OK(d) /\ (HasId(d)' <=> HasId(d))
        BY <3>1 DEF InUse, HasId
      <3>3. HasId(d) => threadList'[id'[d]] = threadList[id[d]]
        <4>1. HasId(d) => id[d] # 0 /\ id[d] # r
          BY <1>1, <3>2 DEF UniqueIds, Holders, InUse
        <4> QED
          BY <1>6, <3>1, <3>2, <4>1
      <3>4. HasId(d)' => (threadList'[id'[d]].active <=> st'[d] # "recycling")
        BY <3>1, <3>2, <3>3
      <3> QED
        BY <1>6, <3>1, <3>2, <3>4
    <2> QED
      BY <2>1, <2>2 DEF InUse
  <1>15. FreeList'
    <2>1. Limbo = {}
      BY <1>1, <1>9 DEF Limbo, Moving
    <2>2. Limbo' = {r - 1}
      <3>1. {d \in Clients : st'[d] = "recycling"} = {c}
        BY <1>3, <1>9 DEF TypeOK, Moving
      <3> QED
        BY <1>3, <3>1 DEF Limbo
    <2>3. PICK n \in Nat : \E f \in [1 .. n -> 0 .. L - 1] : FreeListIs(n, f, {})
      BY <2>1 DEF FreeList
    <2>4. PICK f \in [1 .. n -> 0 .. L - 1] : FreeListIs(n, f, {})
      BY <2>3
    <2>5. \A k \in 1 .. n : f[k] # r - 1
      <3>1. r - 1 \in 0 .. L - 1 /\ At(r - 1).active
        BY <1>1, <1>2 DEF At
      <3> QED
        BY <2>4, <3>1 DEF FreeListIs
    <2>6. \A i \in 0 .. L - 1 : i # r - 1 => threadList'[i + 1] = threadList[i + 1]
      BY <1>1, <1>6
    <2>7. \A i \in 0 .. L - 1 : ~threadList'[i + 1].active /\ i # r - 1
                                <=> \E k \in 1 .. n : f[k] = i
      <3> SUFFICES ASSUME NEW i \in 0 .. L - 1
                   PROVE  ~threadList'[i + 1].active /\ i # r - 1
                            <=> \E k \in 1 .. n : f[k] = i
        OBVIOUS
      <3>1. ~threadList[i + 1].active <=> \E k \in 1 .. n : f[k] = i
        BY <2>4 DEF FreeListIs, At
      <3> QED
        BY <2>5, <2>6, <3>1
    <2>8. \A k \in 1 .. n : threadList'[f[k] + 1].next_available
                                = IF k < n THEN f[k + 1] ELSE L + 1
      <3> SUFFICES ASSUME NEW k \in 1 .. n
                   PROVE  threadList'[f[k] + 1].next_available
                            = IF k < n THEN f[k + 1] ELSE L + 1
        OBVIOUS
      <3>1. threadList'[f[k] + 1] = threadList[f[k] + 1]
        BY <2>5, <2>6
      <3> QED
        BY <2>4, <3>1 DEF FreeListIs, At
    <2>9. /\ nextThread' = IF 0 < n THEN f[1] ELSE L + 1
          /\ \A j, k \in 1 .. n : f[j] = f[k] => j = k
      BY <1>3, <2>4 DEF FreeListIs
    <2>10. FreeListIs(n, f, {r - 1})'
      <3>1. r' = r
        BY <1>3
      <3> QED
        BY <1>6, <2>7, <2>8, <2>9, <3>1 DEF FreeListIs, At
    <2>11. f \in [1 .. n -> 0 .. Len(threadList') - 1] /\ (r - 1)' = r - 1
      BY <1>3, <1>6
    <2> QED
      BY <2>2, <2>10, <2>11 DEF FreeList
  <1> QED
    BY <1>7, <1>10, <1>11, <1>12, <1>13, <1>14, <1>15

(* The element in limbo becomes the head of the free list.                 *)
LEMMA RecycleHeadStep ==
    ASSUME Disciplined, IInv, NEW c \in Clients, RecycleHead(c)
    PROVE  IInv'
  <1> DEFINE L == Len(threadList)
             r == id[c]
  <1> USE DEF IInv
  <1>1. /\ st[c] = "recycling" /\ r \in 1 .. L /\ L \in Nat /\ late[c] = 0
        /\ ~threadList[r].active /\ threadList[r].next_available = nextThread
    BY DEF RecycleHead, TypeOK, InUse, HasId
  <1>2. /\ nextThread' = r - 1
        /\ owner' = [owner EXCEPT !["tauDBMutex"] = {}]
        /\ st' = [st EXCEPT ![c] = "none"]
        /\ id' = [id EXCEPT ![c] = 0]
        /\ UNCHANGED <<late, threadList, numThreads, seen, spawned, peak>>
    BY <1>1 DEF RecycleHead, Gone
  <1>3. TypeOK'
    BY <1>1, <1>2 DEF TypeOK, Phases, Moving, Mutexes
  <1>4. Serial /\ ~Overlap /\ LateRecords <= 1
    BY <1>1 DEF Exclusive, Locked
  <1>5. \A d \in Clients \ {c} : st[d] \notin Moving
    BY <1>1, <1>4 DEF Serial, Moving
  <1>6. Exclusive'
    BY <1>2, <1>4, <1>5 DEF TypeOK, Exclusive, Serial, Moving
  <1>7. Ranks' /\ UniqueIds'
    BY <1>2 DEF TypeOK, Ranks, UniqueIds, Holders
  <1>8. Registers'
    BY <1>2, <1>5 DEF TypeOK, Registers, Moving
  <1>9. InUse'
    BY <1>1, <1>2, <1>5 DEF TypeOK, InUse, HasId, Moving
  <1>10. FreeList'
    <2>1. Limbo = {r - 1} /\ Limbo' = {}
      <3>1. {d \in Clients : st[d] = "recycling"} = {c}
        BY <1>1, <1>5 DEF Moving
      <3>2. \A d \in Clients : st'[d] # "recycling"
        BY <1>2, <1>5 DEF TypeOK, Moving
      <3> QED
        BY <3>1, <3>2 DEF Limbo
    <2>2. PICK n \in Nat : \E f \in [1 .. n -> 0 .. L - 1] : FreeListIs(n, f, {r - 1})
      BY <2>1 DEF FreeList
    <2>3. PICK f \in [1 .. n -> 0 .. L - 1] : FreeListIs(n, f, {r - 1})
      BY <2>2
    <2>4. PICK g \in [1 .. n + 1 -> 0 .. Len(threadList') - 1] :
             \A k \in 1 .. n + 1 : g[k] = IF k = 1 THEN r - 1 ELSE f[k - 1]
      <3> DEFINE h == [k \in 1 .. n + 1 |-> IF k = 1 THEN r - 1 ELSE f[k - 1]]
      <3>1. h \in [1 .. n + 1 -> 0 .. Len(threadList') - 1]
        BY <1>1, <1>2
      <3>2. \A k \in 1 .. n + 1 : h[k] = IF k = 1 THEN r - 1 ELSE f[k - 1]
        OBVIOUS
      <3> HIDE DEF h
      <3> QED
        BY <3>1, <3>2
    <2>5. r - 1 \in 0 .. L - 1 /\ At(r - 1) = threadList[r]
      BY <1>1 DEF At
    <2>6. \A k \in 1 .. n : f[k] # r - 1
      BY <2>3, <2>5 DEF FreeListIs
    <2>7. g[1] = r - 1 /\ \A k \in 1 .. n : k + 1 \in 1 .. n + 1 /\ g[k + 1] = f[k]
      BY <2>4
    <2>8. \A j, k \in 1 .. n + 1 : g[j] = g[k] => j = k
      <3>1. \A j, k \in 1 .. n : f[j] = f[k] => j = k
        BY <2>3 DEF FreeListIs
      <3>2. ASSUME NEW k \in 1 .. n + 1, k # 1
            PROVE  k - 1 \in 1 .. n /\ g[k] = f[k - 1] /\ g[k] # g[1]
        <4>1. k - 1 \in 1 .. n
          BY <3>2
        <4>2. g[k] = f[k - 1]
          BY <2>4, <3>2
        <4> QED
          BY <2>6, <2>7, <4>1, <4>2
      <3> SUFFICES ASSUME NEW j \in 1 .. n + 1, NEW k \in 1 .. n + 1, g[j] = g[k]
                   PROVE  j = k
        OBVIOUS
      <3>3. CASE j = 1 \/ k = 1
        BY <3>2, <3>3
      <3>4. CASE j # 1 /\ k # 1
        <4>1. j - 1 \in 1 .. n /\ k - 1 \in 1 .. n /\ f[j - 1] = f[k - 1]
          BY <3>2, <3>4
        <4>2. j - 1 = k - 1
          BY <3>1, <4>1
        <4> QED
          BY <4>2
      <3> QED
        BY <3>3, <3>4
    <2>9. \A i \in 0 .. L - 1 : ~At(i).active <=> \E k \in 1 .. n + 1 : g[k] = i
      <3> SUFFICES ASSUME NEW i \in 0 .. L - 1
                   PROVE  ~At(i).active <=> \E k \in 1 .. n + 1 : g[k] = i
        OBVIOUS
      <3>1. ~At(i).active /\ i # r - 1 <=> \E k \in 1 .. n : f[k] = i
        BY <2>3 DEF FreeListIs
      <3>2. CASE i = r - 1
        BY <1>1, <2>5, <2>7, <3>2
      <3>3. CASE i # r - 1
        <4>1. ASSUME NEW k \in 1 .. n + 1, g[k] = i PROVE k - 1 \in 1 .. n /\ f[k - 1] = i
          BY <2>4, <3>3, <4>1
        <4>2. (\E k \in 1 .. n : f[k] = i) => \E k \in 1 .. n + 1 : g[k] = i
          BY <2>7
        <4> QED
          BY <3>1, <3>3, <4>1, <4>2
      <3> QED
        BY <3>2, <3>3
    <2>10. \A k \in 1 .. n + 1 : At(g[k]).next_available
                                 = IF k < n + 1 THEN g[k + 1] ELSE L + 1
      <3> SUFFICES ASSUME NEW k \in 1 .. n + 1
                   PROVE  At(g[k]).next_available = IF k < n + 1 THEN g[k + 1] ELSE L + 1
        OBVIOUS
      <3>1. CASE k = 1
        <4>1. nextThread = IF 0 < n THEN f[1] ELSE L + 1
          BY <2>3 DEF FreeListIs
        <4> QED
          BY <1>1, <2>5, <2>7, <3>1, <4>1
      <3>2. CASE k # 1
        <4>1. k - 1 \in 1 .. n /\ g[k] = f[k - 1]
          BY <2>4, <3>2
        <4>2. At(f[k - 1]).next_available = IF k - 1 < n THEN f[k - 1 + 1] ELSE L + 1
          BY <2>3, <4>1 DEF FreeListIs
        <4> QED
          BY <2>7, <3>2, <4>1, <4>2
      <3> QED
        BY <3>1, <3>2
    <2>11. n + 1 \in Nat /\ FreeListIs(n + 1, g, {})'
      BY <1>2, <2>7, <2>8, <2>9, <2>10 DEF FreeListIs, At
    <2> QED
      BY <2>1, <2>11 DEF FreeList
  <1> QED
    BY <1>3, <1>6, <1>7, <1>8, <1>9, <1>10

-----------------------------------------------------------------------------
(* Every step of a disciplined program keeps the invariant.                *)
LEMMA NextIInv ==
    ASSUME Disciplined, IInv, [Next]_vars
    PROVE  IInv'
  <1>1. ASSUME NEW c \in Clients, Spawn(c) PROVE IInv'
    BY <1>1, SpawnStep
  <1>2. ASSUME NEW c \in Clients, CreateRead(c) PROVE IInv'
    BY <1>2, CreateReadStep
  <1>3. ASSUME NEW c \in Clients, CreateNew(c) PROVE IInv'
    BY <1>3, CreateNewStep
  <1>4. ASSUME NEW c \in Clients, CreateReuse(c) PROVE IInv'
    BY <1>4, CreateReuseStep
  <1>5. ASSUME NEW c \in Clients, Exit(c) PROVE IInv'
    BY <1>5, ExitStep
  <1>6. ASSUME NEW c \in Clients, KernelRecord(c) PROVE IInv'
    BY <1>6, KernelRecordStep
  <1>7. ASSUME NEW c \in Clients, RecycleLink(c) PROVE IInv'
    BY <1>7, RecycleLinkStep
  <1>8. ASSUME NEW c \in Clients, RecycleHead(c) PROVE IInv'
    BY <1>8, RecycleHeadStep
  <1>9. CASE UNCHANGED vars
    <2>1. Limbo' = Limbo /\ threadList' = threadList /\ nextThread' = nextThread
      BY <1>9 DEF vars, Limbo
    <2>2. FreeList'
      BY <2>1, FreeListStable DEF IInv
    <2> QED
      BY <1>9, <2>2 DEF vars, IInv, TypeOK, Exclusive, Serial, Locked, Ranks, Registers,
                        InUse, HasId, UniqueIds, Holders
  <1> QED
    BY <1>1, <1>2, <1>3, <1>4, <1>5, <1>6, <1>7, <1>8, <1>9
       DEF Next, Progress, Finished

(* The invariant holds in every reachable state of a disciplined program.  *)
LEMMA Invariance == Disciplined => (Spec => []IInv)
  <1> SUFFICES ASSUME Disciplined PROVE Spec => []IInv
    OBVIOUS
  <1> QED
    BY InitIInv, NextIInv, PTL DEF Spec

(* TypeOK holds in every reachable state of a disciplined program.         *)
THEOREM TypeCorrect == Disciplined => (Spec => []TypeOK)
  <1>1. IInv => TypeOK
    BY DEF IInv
  <1> QED
    BY <1>1, Invariance, PTL

(* No two threads or streams of a disciplined program ever profile under   *)
(* the same id.                                                            *)
THEOREM IdsUnique == Disciplined => (Spec => []UniqueIds)
  <1>1. IInv => UniqueIds
    BY DEF IInv
  <1> QED
    BY <1>1, Invariance, PTL

(* Every id in use is within getTotalThreads() and is the rank of its      *)
(* element, so recycleThread reaches the right one.                        *)
THEOREM IdsStayInRange == Disciplined => (Spec => []IdsInRange)
  <1>1. IInv => IdsInRange
    BY DEF IInv, TypeOK, InUse, Ranks, IdsInRange, Holders
  <1> QED
    BY <1>1, Invariance, PTL

(* Whenever nobody is inside the allocator the free list holds exactly the *)
(* ids that are not in use, each once.                                     *)
THEOREM FreeListIntact == Disciplined => (Spec => []FreeListWellFormed)
  <1>1. ASSUME IInv PROVE FreeListWellFormed
    <2> SUFFICES ASSUME \A c \in Clients : st[c] \notin {"creating", "recycling"}
                 PROVE  \E n \in 0 .. Len(threadList) :
                           \E fl \in [1 .. n -> 0 .. Len(threadList) - 1] :
                              FreeListIs(n, fl, {})
      BY DEF FreeListWellFormed
    <2>1. Limbo = {}
      BY DEF Limbo
    <2>2. PICK n \in Nat : \E fl \in [1 .. n -> 0 .. Len(threadList) - 1] :
                              FreeListIs(n, fl, {})
      BY <1>1, <2>1 DEF IInv, FreeList
    <2>3. PICK fl \in [1 .. n -> 0 .. Len(threadList) - 1] : FreeListIs(n, fl, {})
      BY <2>2
    <2>4. Len(threadList) \in Nat
      BY <1>1 DEF IInv, TypeOK
    <2>5. n <= Len(threadList)
      <3>1. IsFiniteSet(1 .. n) /\ Cardinality(1 .. n) = n
        BY FS_Interval
      <3>2. /\ IsFiniteSet(0 .. Len(threadList) - 1)
            /\ Cardinality(0 .. Len(threadList) - 1) = Len(threadList)
        <4>1. 0 \in Int /\ Len(threadList) - 1 \in Int
          BY <2>4
        <4>2. /\ IsFiniteSet(0 .. Len(threadList) - 1)
              /\ Cardinality(0 .. Len(threadList) - 1)
                   = IF 0 > Len(threadList) - 1 THEN 0 ELSE Len(threadList) - 1 - 0 + 1
          BY <4>1, FS_Interval
        <4> QED
          BY <2>4, <4>2
      <3>3. \A j, k \in 1 .. n : fl[j] = fl[k] => j = k
        BY <2>3 DEF FreeListIs
      <3> SUFFICES ASSUME Len(threadList) < n PROVE FALSE
        BY <2>4
      <3>4. \E j, k \in 1 .. n : j # k /\ fl[j] = fl[k]
        BY <3>1, <3>2, FS_PigeonHole
      <3> QED
        BY <3>3, <3>4
    <2> QED
      BY <2>3, <2>4, <2>5
  <1> QED
    BY <1>1, Invariance, PTL

(* The allocator implements the abstract pool of ids: a creation acquires  *)
(* an id nobody holds, the end of a recycling releases one.                *)
THEOREM ImplementsPool == Disciplined => (Spec => PoolSpec)
  <1> SUFFICES ASSUME Disciplined PROVE Spec => PoolSpec
    OBVIOUS
  <1>1. Init => Pool!Init
    BY DEF Init, Pool!Init
  <1>2. ASSUME IInv, IInv', [Next]_vars PROVE [Pool!Next]_id
    <2>1. ASSUME NEW c \in Clients, NEW i \in Nat \ {0}, id[c] = 0,
                 id' = [id EXCEPT ![c] = i]
          PROVE  Pool!Acquire(c)
      <3>1. id'[c] = i
        BY <1>2, <2>1 DEF IInv, TypeOK
      <3>2. \A d \in Clients : id[d] # i
        BY <1>2, <2>1, <3>1 DEF IInv, TypeOK, UniqueIds, Holders
      <3> QED
        BY <2>1, <3>1, <3>2 DEF Pool!Acquire
    <2>2. ASSUME NEW c \in Clients, id[c] # 0, id' = [id EXCEPT ![c] = 0]
          PROVE  Pool!Release(c)
      BY <2>2 DEF Pool!Release
    <2>3. ASSUME NEW c \in Clients, CreateNew(c) \/ CreateReuse(c) PROVE Pool!Acquire(c)
      <3>1. id[c] = 0 /\ HasId(c)'
        BY <1>2, <2>3 DEF IInv, TypeOK, InUse, HasId, CreateNew, CreateReuse
      <3>2. PICK i : id' = [id EXCEPT ![c] = i]
        BY <2>3 DEF CreateNew, CreateReuse
      <3>3. i \in Nat \ {0}
        BY <1>2, <3>1, <3>2 DEF IInv, TypeOK, InUse
      <3> QED
        BY <2>1, <3>1, <3>2, <3>3
    <2>4. ASSUME NEW c \in Clients, Exit(c) PROVE Pool!Release(c) \/ id' = id
      BY <1>2, <2>2, <2>4 DEF Exit, Gone, IInv, InUse, HasId
    <2>5. ASSUME NEW c \in Clients, RecycleHead(c) PROVE Pool!Release(c) \/ id' = id
      BY <1>2, <2>2, <2>5 DEF RecycleHead, Gone, IInv, InUse, HasId
    <2>6. ASSUME NEW c \in Clients,
                 Spawn(c) \/ CreateRead(c) \/ KernelRecord(c) \/ RecycleLink(c)
          PROVE  id' = id
      BY <2>6 DEF Spawn, CreateRead, KernelRecord, RecycleLink
    <2> QED
      BY <1>2, <2>3, <2>4, <2>5, <2>6 DEF Next, Progress, Finished, vars, Pool!Next
  <1> QED
    BY <1>1, <1>2, Invariance, PTL DEF Spec, PoolSpec, Pool!Spec

-----------------------------------------------------------------------------
(* The bound on the list.                                                  *)

PeakInv == Cardinality(Existing) <= peak /\ PeakBound

(* The positions of a list are finitely many, and so is any part of them.  *)
LEMMA PartOfList ==
    ASSUME NEW L \in Nat, NEW U \in SUBSET (1 .. L)
    PROVE  /\ IsFiniteSet(1 .. L) /\ Cardinality(1 .. L) = L
           /\ IsFiniteSet(U) /\ Cardinality(U) \in Nat
  <1>1. 1 \in Int /\ L \in Int /\ (IF 1 > L THEN 0 ELSE L - 1 + 1) = L
    OBVIOUS
  <1>2. IsFiniteSet(1 .. L) /\ Cardinality(1 .. L) = IF 1 > L THEN 0 ELSE L - 1 + 1
    BY <1>1, FS_Interval
  <1>3. IsFiniteSet(U)
    BY <1>2, FS_Subset
  <1>4. Cardinality(U) \in Nat
    BY <1>3, FS_CardinalityType
  <1> QED
    BY <1>1, <1>2, <1>3, <1>4

(* The elements used up are finitely many, in a state and in the next.     *)
LEMMA UsedUpFinite ==
    ASSUME IInv
    PROVE  /\ IsFiniteSet(1 .. Len(threadList))
           /\ Cardinality(1 .. Len(threadList)) = Len(threadList)
           /\ IsFiniteSet(UsedUp) /\ Cardinality(UsedUp) \in Nat
  <1>1. Len(threadList) \in Nat
    BY DEF IInv, TypeOK
  <1>2. UsedUp \in SUBSET (1 .. Len(threadList))
    BY DEF UsedUp
  <1> QED
    BY <1>1, <1>2, PartOfList

LEMMA UsedUpFiniteNext ==
    ASSUME IInv'
    PROVE  /\ IsFiniteSet(UsedUp') /\ Cardinality(UsedUp') \in Nat
  <1>1. Len(threadList') \in Nat
    BY DEF IInv, TypeOK
  <1>2. UsedUp' \in SUBSET (1 .. Len(threadList'))
    BY DEF UsedUp
  <1> QED
    BY <1>1, <1>2, PartOfList

(* When the list grows, its elements are used up or belong to clients      *)
(* other than the newcomer.                                                *)
LEMMA GrowthIsNeeded ==
    ASSUME Disciplined, IInv, NEW c \in Clients, CreateNew(c)
    PROVE  Len(threadList) + 1 <= Cardinality(Existing) + Cardinality(UsedUp)
  <1> DEFINE L == Len(threadList)
             E == Existing \ {c}
             Owned == {i \in 1 .. L : \E d \in E : id[d] = i}
  <1>1. L \in Nat /\ c \in Existing /\ id[c] = 0
    <2>1. st[c] = "creating"
      BY DEF CreateNew
    <2>2. L \in Nat
      BY DEF IInv, TypeOK
    <2> QED
      BY <2>1, <2>2 DEF IInv, Existing, InUse, HasId
  <1>2. /\ IsFiniteSet(E) /\ Cardinality(E) = Cardinality(Existing) - 1
        /\ Cardinality(Existing) \in Nat
    BY <1>1, ExistingFinite, FS_RemoveElement, FS_CardinalityType
  <1>3. 1 .. L = Owned \cup UsedUp /\ Owned \cap UsedUp = {}
    <2>1. ASSUME NEW i \in 1 .. L PROVE i \in Owned \/ i \in UsedUp
      <3>1. threadList[i].active
        BY <2>1, GrowsWhenFull DEF CreateNew
      <3>2. ASSUME NEW d \in Clients, id[d] = i PROVE d \in E
        <4>1. id[d] # 0 /\ d # c
          BY <1>1, <2>1, <3>2
        <4>2. st[d] # "none"
          BY <4>1 DEF IInv, InUse, HasId
        <4> QED
          BY <3>2, <4>1, <4>2 DEF Existing
      <3> QED
        BY <2>1, <3>1, <3>2 DEF UsedUp
    <2>2. E \subseteq Clients
      BY DEF Existing
    <2>3. UsedUp \subseteq 1 .. L /\ Owned \cap UsedUp = {}
      BY <2>2 DEF UsedUp
    <2> QED
      BY <2>1, <2>3
  <1>4. /\ IsFiniteSet(1 .. L) /\ Cardinality(1 .. L) = L
        /\ IsFiniteSet(UsedUp) /\ Cardinality(UsedUp) \in Nat
    BY UsedUpFinite
  <1>5. IsFiniteSet(Owned) /\ Cardinality(Owned) \in Nat
    BY <1>4, FS_Subset, FS_CardinalityType
  <1>6. Cardinality(Owned) <= Cardinality(E)
    <2> DEFINE f == [i \in Owned |-> CHOOSE d \in E : id[d] = i]
    <2>1. \A i \in Owned : f[i] \in E /\ id[f[i]] = i
      OBVIOUS
    <2>2. f \in [Owned -> E]
      BY <2>1
    <2> HIDE DEF f, E, Owned
    <2> SUFFICES ASSUME Cardinality(E) < Cardinality(Owned) PROVE FALSE
      BY <1>1, <1>2, <1>5
    <2>3. \E i, j \in Owned : i # j /\ f[i] = f[j]
      BY <1>2, <1>5, <2>2, FS_PigeonHole
    <2> QED
      BY <2>1, <2>3
  <1> HIDE DEF L, E, Owned
  <1>7. L = Cardinality(Owned) + Cardinality(UsedUp)
    <2>1. Cardinality(Owned \cup UsedUp)
            = Cardinality(Owned) + Cardinality(UsedUp) - Cardinality(Owned \cap UsedUp)
      BY <1>4, <1>5, FS_Union
    <2>2. Cardinality(Owned \cap UsedUp) = 0
      BY <1>3, FS_EmptySet
    <2>3. Cardinality(Owned \cup UsedUp) = L
      <3>1. Owned \cup UsedUp = 1 .. L /\ Cardinality(1 .. L) = L
        BY <1>3, <1>4
      <3> QED
        BY <3>1, Zenon
    <2>4. Cardinality(Owned) \in Nat /\ Cardinality(UsedUp) \in Nat
      BY <1>4, <1>5
    <2> QED
      BY <2>1, <2>2, <2>3, <2>4
  <1> QED
    BY <1>1, <1>2, <1>4, <1>5, <1>6, <1>7 DEF L

(* A step that neither grows the list nor adds a client keeps the bound    *)
(* if what is used up remains so.                                          *)
LEMMA SameListPeak ==
    ASSUME IInv, IInv', PeakInv, peak' = peak, Len(threadList') = Len(threadList),
           Existing' \subseteq Existing, UsedUp \subseteq UsedUp'
    PROVE  PeakInv'
  <1>1. Cardinality(Existing') <= Cardinality(Existing)
    BY ExistingFinite, FS_Subset
  <1>2. Cardinality(Existing) \in Nat /\ Cardinality(Existing') \in Nat
    BY ExistingFinite, FS_Subset, FS_CardinalityType
  <1>3. Cardinality(UsedUp) <= Cardinality(UsedUp')
    <2>1. IsFiniteSet(UsedUp')
      BY UsedUpFiniteNext
    <2> QED
      BY <2>1, FS_Subset
  <1>4. Cardinality(UsedUp) \in Nat /\ Cardinality(UsedUp') \in Nat
    BY UsedUpFinite, UsedUpFiniteNext
  <1>5. peak \in Nat /\ Len(threadList) \in Nat
    BY DEF IInv, TypeOK
  <1> QED
    BY <1>1, <1>2, <1>3, <1>4, <1>5 DEF PeakInv, PeakBound

(* Each step keeps the list within its bound.                              *)
LEMMA PeakStep ==
    ASSUME Disciplined, IInv, IInv', PeakInv, [Next]_vars
    PROVE  PeakInv'
  <1>0. Cardinality(Existing) \in Nat /\ peak \in Nat /\ Len(threadList) \in Nat
        /\ st \in [Clients -> Phases] /\ id \in [Clients -> Nat]
    BY ExistingFinite, FS_CardinalityType DEF IInv, TypeOK
  <1>1. ASSUME NEW c \in Clients, Spawn(c) PROVE PeakInv'
    <2>1. Existing' = Existing \cup {c} /\ c \notin Existing
      BY <1>0, <1>1 DEF Spawn, Existing, Phases, Moving
    <2>2. Cardinality(Existing') = Cardinality(Existing) + 1
      BY <2>1, ExistingFinite, FS_AddElement
    <2>3. UsedUp' = UsedUp /\ threadList' = threadList
      BY <1>1 DEF Spawn, UsedUp
    <2>4. peak' \in Nat /\ peak <= peak' /\ Cardinality(Existing) + 1 <= peak'
      BY <1>0, <1>1 DEF Spawn
    <2>5. Cardinality(UsedUp) \in Nat
      BY UsedUpFinite
    <2> QED
      BY <1>0, <2>2, <2>3, <2>4, <2>5 DEF PeakInv, PeakBound
  <1>2. ASSUME NEW c \in Clients, CreateNew(c) PROVE PeakInv'
    <2>1. Existing' = Existing
      BY <1>0, <1>2 DEF CreateNew, Existing
    <2>2. /\ threadList' = Append(threadList, NewRtsThread(seen[c].rank))
          /\ id' = [id EXCEPT ![c] = Len(threadList) + 1] /\ peak' = peak
      BY <1>2 DEF CreateNew, NewRtsThread, IInv, Registers, Ranks
    <2>3. Len(threadList') = Len(threadList) + 1
          /\ \A i \in 1 .. Len(threadList) : threadList'[i] = threadList[i]
      BY <2>2, AppendProperties DEF IInv, TypeOK, RtsThreads, NewRtsThread
    <2>4. UsedUp \subseteq UsedUp'
      <3> SUFFICES ASSUME NEW i \in UsedUp PROVE i \in UsedUp'
        OBVIOUS
      <3>1. i \in 1 .. Len(threadList) /\ threadList[i].active
            /\ \A d \in Clients : id[d] # i
        BY DEF UsedUp
      <3>2. i \in 1 .. Len(threadList') /\ threadList'[i].active
        BY <1>0, <2>3, <3>1
      <3>3. ASSUME NEW d \in Clients PROVE id'[d] # i
        BY <1>0, <2>2, <3>1
      <3> QED
        BY <3>2, <3>3 DEF UsedUp
    <2>5. Cardinality(UsedUp) <= Cardinality(UsedUp')
      <3>1. IsFiniteSet(UsedUp')
        BY UsedUpFiniteNext
      <3> QED
        BY <2>4, <3>1, FS_Subset
    <2>6. Cardinality(UsedUp) \in Nat /\ Cardinality(UsedUp') \in Nat
      BY UsedUpFinite, UsedUpFiniteNext
    <2>7. Len(threadList) + 1 <= Cardinality(Existing) + Cardinality(UsedUp)
      BY <1>2, GrowthIsNeeded
    <2> QED
      BY <1>0, <2>1, <2>2, <2>3, <2>5, <2>6, <2>7 DEF PeakInv, PeakBound
  <1>3. ASSUME NEW c \in Clients, CreateReuse(c) PROVE PeakInv'
    <2> DEFINE h == seen[c].next + 1
    <2>1. Existing' = Existing /\ peak' = peak
      BY <1>0, <1>3 DEF CreateReuse, Existing
    <2>2. st[c] = "creating" /\ ~seen[c].grow
      BY <1>3 DEF CreateReuse
    <2>3. seen[c].next = nextThread /\ nextThread \in Nat /\ nextThread < Len(threadList)
      BY <1>0, <2>2 DEF IInv, TypeOK, Registers
    <2>4. ~threadList[h].active /\ h \in 1 .. Len(threadList)
      <3>1. PICK n \in Nat : \E fl \in [1 .. n -> 0 .. Len(threadList) - 1] :
                                FreeListIs(n, fl, Limbo)
        BY DEF IInv, FreeList
      <3>2. PICK fl \in [1 .. n -> 0 .. Len(threadList) - 1] : FreeListIs(n, fl, Limbo)
        BY <3>1
      <3>3. nextThread = IF 0 < n THEN fl[0 + 1] ELSE Len(threadList) + 1
        BY <3>2 DEF FreeListIs
      <3>4. 1 \in 1 .. n /\ fl[1] = nextThread
        BY <1>0, <2>3, <3>3
      <3>5. nextThread \in 0 .. Len(threadList) - 1
        BY <1>0, <2>3
      <3>6. ~At(nextThread).active
        BY <3>2, <3>4, <3>5 DEF FreeListIs
      <3> QED
        BY <1>0, <2>3, <3>5, <3>6 DEF At
    <2>5. /\ threadList' = [threadList EXCEPT ![h].active = TRUE]
          /\ id' = [id EXCEPT ![c] = threadList[h].thread_rank]
      BY <1>3 DEF CreateReuse, At
    <2>6. threadList[h].thread_rank = h
      BY <2>4 DEF IInv, Ranks
    <2>7. Len(threadList') = Len(threadList)
          /\ \A i \in 1 .. Len(threadList) : i # h => threadList'[i] = threadList[i]
      BY <1>0, <2>4, <2>5 DEF IInv, TypeOK
    <2> HIDE DEF h
    <2>8. UsedUp \subseteq UsedUp'
      <3> SUFFICES ASSUME NEW i \in UsedUp PROVE i \in UsedUp'
        OBVIOUS
      <3>1. i \in 1 .. Len(threadList) /\ threadList[i].active
            /\ \A d \in Clients : id[d] # i
        BY DEF UsedUp
      <3>2. i # h
        BY <2>4, <3>1
      <3>3. ASSUME NEW d \in Clients PROVE id'[d] # i
        BY <1>0, <2>5, <2>6, <3>1, <3>2
      <3> QED
        BY <2>7, <3>1, <3>2, <3>3 DEF UsedUp
    <2> QED
      BY <2>1, <2>7, <2>8, SameListPeak
  <1>4. ASSUME NEW c \in Clients, RecycleLink(c) PROVE PeakInv'
    <2>1. Existing' = Existing /\ UNCHANGED <<peak, id>>
      BY <1>0, <1>4 DEF RecycleLink, Existing
    <2>2. Len(threadList') = Len(threadList)
      BY <1>0, <1>4 DEF RecycleLink, IInv, TypeOK
    <2>3. \A i \in 1 .. Len(threadList) : i # id[c] => threadList'[i] = threadList[i]
      BY <1>0, <1>4 DEF RecycleLink, IInv, TypeOK
    <2>4. UsedUp \subseteq UsedUp'
      BY <2>1, <2>2, <2>3 DEF UsedUp
    <2> QED
      BY <2>1, <2>2, <2>4, SameListPeak
  <1>5. ASSUME NEW c \in Clients, RecycleHead(c) \/ Exit(c) PROVE PeakInv'
    <2>1. UNCHANGED <<threadList, peak>>
      BY <1>5 DEF RecycleHead, Exit
    <2>2. \A d \in Clients : id'[d] = id[d] \/ id'[d] = 0
      BY <1>0, <1>5 DEF RecycleHead, Exit, Gone
    <2>3. Existing' \subseteq Existing
      BY <1>0, <1>5 DEF RecycleHead, Exit, Gone, Existing
    <2>4. UsedUp \subseteq UsedUp'
      BY <2>1, <2>2 DEF UsedUp
    <2> QED
      BY <2>1, <2>3, <2>4, SameListPeak
  <1>6. ASSUME NEW c \in Clients, CreateRead(c) \/ KernelRecord(c)
        PROVE  PeakInv'
    <2>1. Existing' = Existing /\ UNCHANGED <<threadList, id, peak>>
      BY <1>0, <1>6 DEF CreateRead, KernelRecord, Existing
    <2>2. UsedUp' = UsedUp
      BY <2>1 DEF UsedUp
    <2> QED
      BY <2>1, <2>2, SameListPeak
  <1>7. CASE UNCHANGED vars
    <2>1. Existing' = Existing /\ UNCHANGED <<threadList, id, peak>>
      BY <1>7 DEF vars, Existing
    <2>2. UsedUp' = UsedUp
      BY <2>1 DEF UsedUp
    <2> QED
      BY <2>1, <2>2, SameListPeak
  <1> QED
    BY <1>1, <1>2, <1>3, <1>4, <1>5, <1>6, <1>7 DEF Next, Progress, Finished

(* The list never exceeds the number of clients that existed at one time   *)
(* by more than the ids that were not given back.                          *)
THEOREM ListWithinPeak == Disciplined => (Spec => []PeakBound)
  <1> SUFFICES ASSUME Disciplined PROVE Spec => []PeakBound
    OBVIOUS
  <1>1. Init => PeakInv
    <2> SUFFICES ASSUME Init PROVE PeakInv
      OBVIOUS
    <2>1. Existing = {} /\ UsedUp = {} /\ Len(threadList) = 0 /\ peak = 0
      BY DEF Init, Existing, UsedUp
    <2>2. Cardinality(Existing) = 0 /\ Cardinality(UsedUp) = 0
      BY <2>1, FS_EmptySet
    <2> QED
      BY <2>1, <2>2 DEF PeakInv, PeakBound
  <1>2. PeakInv => PeakBound
    BY DEF PeakInv
  <1> QED
    BY <1>1, <1>2, PeakStep, Invariance, PTL DEF Spec

=============================================================================
