------------------------------ MODULE ThreadIds ------------------------------
(***************************************************************************)
(* The allocator of TAU thread ids: RtsLayer::_createThread, createThread  *)
(* and recycleThread (src/src/Profile/RtsThread.cpp) with the two clients  *)
(* that drive it in a pthread build, PthreadLayer (RegisterThread and the  *)
(* destructor of its thread-specific key) and the virtual threads TAU      *)
(* makes for GPU streams (TauGpu.cpp get_task, CuptiActivity.cpp).         *)
(*                                                                         *)
(* The free list is threaded through TheThreadList: nextThread is the      *)
(* 0-based index of the first free element and each free element's         *)
(* next_available the index of the following one; an index past the end    *)
(* means that the list must grow.  Three different mutexes are taken       *)
(* around it: tauThreadcountMutex by RegisterThread, tauEnvMutex by        *)
(* createThread and tauDBMutex by recycleThread (LockEnv is LockDB).       *)
(*                                                                         *)
(* Inside a critical section the reads of the shared words and the writes  *)
(* to them are separate steps.  A lock is merged with the step after it    *)
(* and an unlock with the step before it: neither touches the list.        *)
(***************************************************************************)
EXTENDS Integers, Sequences, FiniteSets

CONSTANTS
    Pthreads,    \* application threads created through the pthread wrapper
    Streams,     \* GPU streams that get a virtual thread of their own
    Recycle,     \* TAU_RECYCLE_THREADS
    Overlap,     \* may threads start or exit while another one does so?
    LateRecords, \* bound: kernel records CUPTI delivers for a destroyed stream
    MaxSpawns    \* bound: how many threads and streams the program creates

Clients == Pthreads \cup Streams

ASSUME IdsAssumption ==
    /\ IsFiniteSet(Pthreads) /\ IsFiniteSet(Streams)
    /\ Pthreads \cap Streams = {}
    /\ Recycle \in BOOLEAN
    /\ Overlap \in BOOLEAN
    /\ LateRecords \in Nat
    /\ MaxSpawns \in Nat

VARIABLES
    threadList,  \* TheThreadList(): a sequence of RtsThread objects
    nextThread,  \* static unsigned int nextThread
    numThreads,  \* RtsThread::num_threads
    owner,       \* owner[m]: the clients holding mutex m
    st,          \* st[c]: where client c is in its life
    id,          \* id[c]: the id stored for c, 0 when it has none
    late,        \* late[c]: kernel records still to come for a destroyed stream
    seen,        \* seen[c]: what c read of the shared words (its registers)
    spawned,     \* number of threads and streams created so far
    peak         \* history: most clients that ever existed at a time

vars == <<threadList, nextThread, numThreads, owner, st, id, late, seen, spawned, peak>>

Mutexes == {"tauThreadcountMutex", "tauEnvMutex", "tauDBMutex"}

Moving == {"starting", "creating", "exiting", "recycling"}

Phases == {"none", "live", "destroyed"} \cup Moving

\* The mutex a client holds while it runs _createThread.
CreateMutex(c) == IF c \in Pthreads THEN "tauThreadcountMutex" ELSE "tauEnvMutex"

\* RtsThread::RtsThread(): the object made when num_threads was n.
NewRtsThread(n) == [thread_rank |-> n + 1, active |-> TRUE, next_available |-> n + 2]

\* The vector's at(i), i counted from 0 as in the code.
At(i) == threadList[i + 1]

Existing == {c \in Clients : st[c] # "none"}

\* The registers of a client outside _createThread.
NoRegisters == [next |-> 0, rank |-> 0, grow |-> FALSE]

Init ==
    /\ threadList = <<>>
    /\ nextThread = 1
    /\ numThreads = 0
    /\ owner = [m \in Mutexes |-> {}]
    /\ st = [c \in Clients |-> "none"]
    /\ id = [c \in Clients |-> 0]
    /\ late = [c \in Clients |-> 0]
    /\ seen = [c \in Clients |-> NoRegisters]
    /\ spawned = 0
    /\ peak = 0

\* A program that joins each thread before it creates or ends the next one
\* (Overlap = FALSE) never has two clients on the move.
Alone(c) == \A d \in Clients \ {c} : st[d] \notin Moving

-----------------------------------------------------------------------------
(* pthread_create through TAU's wrapper, or the first event of a stream.   *)
Spawn(c) ==
    /\ st[c] = "none"
    /\ spawned < MaxSpawns
    /\ Overlap \/ Alone(c)
    /\ st' = [st EXCEPT ![c] = "starting"]
    /\ spawned' = spawned + 1
    /\ LET now == Cardinality(Existing) + 1
       IN peak' = IF now > peak THEN now ELSE peak
    /\ UNCHANGED <<late, threadList, nextThread, numThreads, owner, id, seen>>

\* Mutant: the mutex is not taken.
CreateReadUnlocked(c) ==
    /\ st[c] = "starting"
    /\ owner' = [owner EXCEPT ![CreateMutex(c)] = @ \cup {c}]
    /\ seen' = [seen EXCEPT ![c] = [next |-> nextThread, rank |-> numThreads,
                                    grow |-> nextThread >= Len(threadList)]]
    /\ st' = [st EXCEPT ![c] = "creating"]
    /\ UNCHANGED <<late, threadList, nextThread, numThreads, id, spawned, peak>>

(* _createThread, first half: take the client's mutex, compare nextThread  *)
(* with the size of the list and load the words the chosen branch uses.    *)
CreateRead(c) ==
    /\ st[c] = "starting"
    /\ owner[CreateMutex(c)] = {}
    /\ owner' = [owner EXCEPT ![CreateMutex(c)] = {c}]
    /\ seen' = [seen EXCEPT ![c] = [next |-> nextThread, rank |-> numThreads,
                                    grow |-> nextThread >= Len(threadList)]]
    /\ st' = [st EXCEPT ![c] = "creating"]
    /\ UNCHANGED <<late, threadList, nextThread, numThreads, id, spawned, peak>>

\* Mutant: push_back is forgotten.
CreateNewNoPush(c) ==
    /\ st[c] = "creating"
    /\ seen[c].grow
    /\ numThreads' = seen[c].rank + 1
    /\ nextThread' = seen[c].rank + 2
    /\ id' = [id EXCEPT ![c] = seen[c].rank + 1]
    /\ st' = [st EXCEPT ![c] = "live"]
    /\ owner' = [owner EXCEPT ![CreateMutex(c)] = {}]
    /\ seen' = [seen EXCEPT ![c] = NoRegisters]
    /\ UNCHANGED <<late, threadList, spawned, peak>>

\* Mutant: the mutex is not released on this branch.
CreateNewNoUnlock(c) ==
    /\ st[c] = "creating"
    /\ seen[c].grow
    /\ LET new == NewRtsThread(seen[c].rank)
       IN /\ threadList' = Append(threadList, new)
          /\ numThreads' = new.thread_rank
          /\ nextThread' = new.next_available
          /\ id' = [id EXCEPT ![c] = new.thread_rank]
    /\ st' = [st EXCEPT ![c] = "live"]
    /\ seen' = [seen EXCEPT ![c] = NoRegisters]
    /\ UNCHANGED <<late, owner, spawned, peak>>

(* _createThread, second half, when nextThread was past the end: a new     *)
(* RtsThread is appended and its next_available becomes nextThread.        *)
CreateNew(c) ==
    /\ st[c] = "creating"
    /\ seen[c].grow
    /\ LET new == NewRtsThread(seen[c].rank)
       IN /\ threadList' = Append(threadList, new)
          /\ numThreads' = new.thread_rank
          /\ nextThread' = new.next_available
          /\ id' = [id EXCEPT ![c] = new.thread_rank]
    /\ st' = [st EXCEPT ![c] = "live"]
    /\ owner' = [owner EXCEPT ![CreateMutex(c)] = {}]
    /\ seen' = [seen EXCEPT ![c] = NoRegisters]
    /\ UNCHANGED <<late, spawned, peak>>

\* Mutant: nextThread is not advanced past the element taken.
CreateReuseNoAdvance(c) ==
    /\ st[c] = "creating"
    /\ ~seen[c].grow
    /\ threadList' = [threadList EXCEPT ![seen[c].next + 1].active = TRUE]
    /\ id' = [id EXCEPT ![c] = At(seen[c].next).thread_rank]
    /\ st' = [st EXCEPT ![c] = "live"]
    /\ owner' = [owner EXCEPT ![CreateMutex(c)] = {}]
    /\ seen' = [seen EXCEPT ![c] = NoRegisters]
    /\ UNCHANGED <<late, nextThread, numThreads, spawned, peak>>

(* _createThread, second half, when nextThread named a free element.       *)
CreateReuse(c) ==
    /\ st[c] = "creating"
    /\ ~seen[c].grow
    /\ threadList' = [threadList EXCEPT ![seen[c].next + 1].active = TRUE]
    /\ nextThread' = At(seen[c].next).next_available
    /\ id' = [id EXCEPT ![c] = At(seen[c].next).thread_rank]
    /\ st' = [st EXCEPT ![c] = "live"]
    /\ owner' = [owner EXCEPT ![CreateMutex(c)] = {}]
    /\ seen' = [seen EXCEPT ![c] = NoRegisters]
    /\ UNCHANGED <<late, numThreads, spawned, peak>>

(* The end of a client that TAU has nothing more to do for.                *)
Gone(c) == st' = [st EXCEPT ![c] = "none"] /\ id' = [id EXCEPT ![c] = 0]

(* A thread ends and its key is destroyed, or a stream is destroyed while  *)
(* some of its kernel records are still in CUPTI's buffers.  Without       *)
(* recycling, and for a stream without such records, the id is used up.    *)
Exit(c) ==
    /\ st[c] = "live"
    /\ Overlap \/ Alone(c)
    /\ \/ /\ Recycle /\ c \in Pthreads
          /\ st' = [st EXCEPT ![c] = "exiting"]
          /\ UNCHANGED <<id, late>>
       \/ /\ Recycle /\ c \in Streams
          /\ st' = [st EXCEPT ![c] = "destroyed"]
          /\ \E n \in 1 .. LateRecords : late' = [late EXCEPT ![c] = n]
          /\ UNCHANGED id
       \/ /\ Recycle => c \in Streams
          /\ Gone(c)
          /\ UNCHANGED late
    /\ UNCHANGED <<threadList, nextThread, numThreads, owner, seen, spawned, peak>>

(* A kernel record of a destroyed stream is processed: every such record   *)
(* gives the stream's id back, and the stream keeps the id in              *)
(* newContextMap for the records that follow.                              *)
KernelRecord(c) ==
    /\ st[c] = "destroyed"
    /\ Overlap \/ Alone(c)
    /\ late' = [late EXCEPT ![c] = @ - 1]
    /\ st' = [st EXCEPT ![c] = "exiting"]
    /\ UNCHANGED <<threadList, nextThread, numThreads, owner, id, seen, spawned, peak>>

\* Mutant: the element is not linked to the rest of the free list.
RecycleLinkNoNext(c) ==
    /\ st[c] = "exiting"
    /\ owner["tauDBMutex"] = {}
    /\ owner' = [owner EXCEPT !["tauDBMutex"] = {c}]
    /\ threadList' = [threadList EXCEPT ![id[c]].active = FALSE]
    /\ st' = [st EXCEPT ![c] = "recycling"]
    /\ UNCHANGED <<late, nextThread, numThreads, id, seen, spawned, peak>>

(* recycleThread, under tauDBMutex: the element is marked free and linked  *)
(* to what nextThread names now...                                         *)
RecycleLink(c) ==
    /\ st[c] = "exiting"
    /\ owner["tauDBMutex"] = {}
    /\ owner' = [owner EXCEPT !["tauDBMutex"] = {c}]
    /\ threadList' = [threadList EXCEPT ![id[c]].active = FALSE,
                                        ![id[c]].next_available = nextThread]
    /\ st' = [st EXCEPT ![c] = "recycling"]
    /\ UNCHANGED <<late, nextThread, numThreads, id, seen, spawned, peak>>

\* Mutant: the id, not its index, becomes the head of the free list.
RecycleHeadById(c) ==
    /\ st[c] = "recycling"
    /\ nextThread' = id[c]
    /\ IF late[c] > 0 THEN st' = [st EXCEPT ![c] = "destroyed"] /\ UNCHANGED id
                      ELSE Gone(c)
    /\ owner' = [owner EXCEPT !["tauDBMutex"] = {}]
    /\ UNCHANGED <<late, threadList, numThreads, seen, spawned, peak>>

\* Mutant: the index is taken from an index, one too low.
RecycleHeadTwice(c) ==
    /\ st[c] = "recycling"
    /\ nextThread' = id[c] - 2
    /\ IF late[c] > 0 THEN st' = [st EXCEPT ![c] = "destroyed"] /\ UNCHANGED id
                      ELSE Gone(c)
    /\ owner' = [owner EXCEPT !["tauDBMutex"] = {}]
    /\ UNCHANGED <<late, threadList, numThreads, seen, spawned, peak>>

(* ... and then becomes the head of the free list.  A thread's copy of the *)
(* id is deleted by the caller, a stream's when no record can follow.      *)
RecycleHead(c) ==
    /\ st[c] = "recycling"
    /\ nextThread' = id[c] - 1
    /\ IF late[c] > 0 THEN st' = [st EXCEPT ![c] = "destroyed"] /\ UNCHANGED id
                      ELSE Gone(c)
    /\ owner' = [owner EXCEPT !["tauDBMutex"] = {}]
    /\ UNCHANGED <<late, threadList, numThreads, seen, spawned, peak>>

(* The program has created and ended all its threads.                      *)
Finished == spawned = MaxSpawns /\ Existing = {} /\ UNCHANGED vars

Progress(c) == CreateRead(c) \/ CreateNew(c) \/ CreateReuse(c)
               \/ RecycleLink(c) \/ RecycleHead(c)

Next == \/ \E c \in Clients : Spawn(c) \/ Progress(c) \/ Exit(c) \/ KernelRecord(c)
        \/ Finished

Spec == Init /\ [][Next]_vars

\* Threads inside the allocator keep running; the application owes nothing.
FairSpec == Spec /\ \A c \in Clients : WF_vars(Progress(c))

-----------------------------------------------------------------------------
(* Properties.                                                             *)

\* The clients that profile under their id: from the store of the id until
\* the thread is gone from TAU's point of view.
Holders == {c \in Clients : id[c] # 0}

RtsThreads == [thread_rank : Nat, active : BOOLEAN, next_available : Nat]

TypeOK ==
    /\ threadList \in Seq(RtsThreads)
    /\ nextThread \in Nat
    /\ numThreads \in Nat
    /\ owner \in [Mutexes -> SUBSET Clients]
    /\ st \in [Clients -> Phases]
    /\ id \in [Clients -> Nat]
    /\ late \in [Clients -> Nat]
    /\ seen \in [Clients -> [next : Nat, rank : Nat, grow : BOOLEAN]]
    /\ spawned \in Nat
    /\ peak \in Nat

\* No two threads profile under one id, whatever order they are created and
\* recycled in: all per-thread data of TAU is indexed by this id without locks.
UniqueIds == \A c, d \in Holders : id[c] = id[d] => c = d

\* Every id in use is below getTotalThreads() (the size of the list plus one),
\* the bound of every loop over threads, and is the rank of the element that
\* recycleThread will reach through at(id-1).
IdsInRange == \A c \in Holders : /\ id[c] \in 1 .. Len(threadList)
                                 /\ threadList[id[c]].thread_rank = id[c]

\* The free list: n indices fl[1], fl[2], ... threaded from nextThread through
\* next_available, which are the inactive elements, each once (those in limbo
\* are inactive and not yet on it), and end past the end of the list.
FreeListIs(n, fl, limbo) ==
    LET Link(k) == IF k < n THEN fl[k + 1] ELSE Len(threadList) + 1
    IN /\ \A j, k \in 1 .. n : fl[j] = fl[k] => j = k
       /\ \A i \in 0 .. Len(threadList) - 1 :
             ~At(i).active /\ i \notin limbo <=> \E k \in 1 .. n : fl[k] = i
       /\ nextThread = Link(0)
       /\ \A k \in 1 .. n : At(fl[k]).next_available = Link(k)

\* When nobody is inside the allocator the free list is well formed: no
\* recycled id has been lost from it and none that is in use is on it.
FreeListWellFormed ==
    (\A c \in Clients : st[c] \notin {"creating", "recycling"}) =>
        \E n \in 0 .. Len(threadList) :
           \E fl \in [1 .. n -> 0 .. Len(threadList) - 1] : FreeListIs(n, fl, {})

\* The ids that can never be given out again: their elements are marked active
\* and their clients are gone.
UsedUp == {i \in 1 .. Len(threadList) :
              threadList[i].active /\ \A c \in Clients : id[c] # i}

\* What recycling is for: the list grows only when all its elements are in use
\* or used up, so that it never exceeds the number of clients that existed at
\* one time by more than the ids that were not given back (all without
\* recycling; with it those of streams with no record after their destruction).
PeakBound == Len(threadList) <= peak + Cardinality(UsedUp)

\* Every thread that reaches the allocator gets an id and starts to run.
EveryThreadStarts == \A c \in Clients : st[c] = "starting" ~> st[c] = "live"

\* The allocator implements the abstract pool of ids.
Pool == INSTANCE IdPool WITH held <- id

PoolSpec == Pool!Spec

=============================================================================
