------------------------------- MODULE IdPool -------------------------------
(***************************************************************************)
(* What the thread-id allocator of TAU promises its clients: a client      *)
(* (an application thread, or a GPU stream that TAU profiles as if it were *)
(* a thread) acquires an id that no other client holds, and gives it back. *)
(* Id 0 is the main thread's; it is never handed out and stands here for   *)
(* "holds no id".  ThreadIds implements this specification.                *)
(***************************************************************************)
EXTENDS Naturals

CONSTANT Clients

VARIABLE held        \* held[c]: the id client c profiles under, or 0

Init == held = [c \in Clients |-> 0]

Acquire(c) ==
    /\ held[c] = 0
    /\ held'[c] \in Nat \ {0}
    /\ \A d \in Clients : held[d] # held'[c]
    /\ held' = [held EXCEPT ![c] = held'[c]]

Release(c) ==
    /\ held[c] # 0
    /\ held' = [held EXCEPT ![c] = 0]

Next == \E c \in Clients : Acquire(c) \/ Release(c)

Spec == Init /\ [][Next]_held

=============================================================================
