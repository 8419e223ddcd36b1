--------------------------- MODULE AllocatorSpec ---------------------------
(***************************************************************************)
(* What malloc and free promise their callers, without headers or lists:   *)
(* every block in use lies inside the arena, no two of them overlap, a     *)
(* block is given back whole, the arena only grows, and once the kernel    *)
(* has stopped nothing moves any more.  Heap implements this specification *)
(* (Heap!Allocator).                                                       *)
(***************************************************************************)
EXTENDS Integers

CONSTANTS
    Addr,       \* word addresses
    ArenaStart  \* first word of the arena

VARIABLES
    block,      \* block[p] = words of the block at p, 0 when there is none
    arenaEnd,   \* first word after the arena
    status      \* "closed" before CreateHeap, "open", "stopped" after done()

vars == <<block, arenaEnd, status>>

InUse == {p \in Addr : block[p] # 0}

Apart(p, n, q, k) == p + n <= q \/ q + k <= p

Init == /\ block = [p \in Addr |-> 0]
        /\ arenaEnd = ArenaStart
        /\ status = "closed"

Open ==
    /\ status = "closed"
    /\ status' = "open"
    /\ arenaEnd' > arenaEnd
    /\ UNCHANGED block

Alloc(p) ==
    /\ status = "open"
    /\ p \notin InUse
    /\ LET n == block'[p] IN
          /\ n > 0
          /\ ArenaStart <= p /\ p + n <= arenaEnd
          /\ \A q \in InUse : Apart(p, n, q, block[q])
          /\ block' = [block EXCEPT ![p] = n]
    /\ UNCHANGED <<arenaEnd, status>>

Release(p) ==
    /\ status = "open"
    /\ p \in InUse
    /\ block' = [block EXCEPT ![p] = 0]
    /\ UNCHANGED <<arenaEnd, status>>

Grow ==
    /\ status = "open"
    /\ arenaEnd' > arenaEnd
    /\ UNCHANGED <<block, status>>

Stop ==
    /\ status' = "stopped"
    /\ status # "stopped"
    /\ arenaEnd' >= arenaEnd
    /\ UNCHANGED block

Next ==
    \/ Open
    \/ \E p \in Addr : Alloc(p) \/ Release(p)
    \/ Grow
    \/ Stop

Spec == Init /\ [][Next]_vars
=============================================================================
