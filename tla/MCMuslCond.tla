---------------------------- MODULE MCMuslCond ------------------------------
(* Two threads that wait and one that signals, twice each; and three that   *)
(* wait, of whom one or two may be giving up, when a broadcast has taken    *)
(* their nodes off the list.                                                *)
EXTENDS MuslCond, TLC

CONSTANTS w1, w2, w3, s1

MCWaiters == {w1, w2, w3}
MCSignalers == {s1}
MCMaxCalls == (w1 :> 2) @@ (w2 :> 2) @@ (w3 :> 0) @@ (s1 :> 2)

(* The three in the order in which they began to wait. *)
Row == <<w1, w2, w3>>

Taken(next, prev, gone) ==
    [NewNode EXCEPT !.next = next, !.prev = prev,
                    !.state = IF gone THEN LEAVING ELSE SIGNALED,
                    !.notify = IF gone THEN s1 ELSE None]

(* The state that their calls and that of the broadcast lead to when those  *)
(* in L have given up. *)
Broadcast(L) ==
    /\ head = None /\ tail = None
    /\ node = (w1 :> Taken(None, w2, w1 \in L)) @@ (w2 :> Taken(w1, w3, w2 \in L))
           @@ (w3 :> Taken(w2, None, w3 \in L))
    /\ lock = 0 /\ mwaiters = 0
    /\ ref = (s1 :> Cardinality(L))
    /\ first = (s1 :> SelectSeq(Row, LAMBDA t : t \notin L)[1])
    /\ pc = [t \in Threads |-> IF t = s1 THEN "ref" ELSE IF t \in L THEN "leave" ELSE "block"]
    /\ cont = [t \in Threads |-> IF t = s1 THEN "idle" ELSE "block"]
    /\ val = [t \in Threads |-> 0]
    /\ asleep = [t \in Threads |-> IF t \in Waiters \ L THEN Barrier(t) ELSE Awake]
    /\ calls = MaxCalls

MCInit == Init \/ \E L \in SUBSET Waiters \ {Waiters} : Broadcast(L)

MCSpec == MCInit /\ [][Next]_vars /\ Fairness
=============================================================================
